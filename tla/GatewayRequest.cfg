\* One request: every route, method and kind of bearer.
SPECIFICATION FairSpec
CONSTANTS
  r1 = r1
  Requests <- OneRequest
  Inputs <- ManyInputs
  Lower <- LowerCase
INVARIANTS TypeOK RefusedIsUntouched WorkIsPermitted AdmittedIsForwarded WrongMethodIsHarmless
PROPERTIES EveryRequestIsAnswered
CHECK_DEADLOCK FALSE

\* Sessions of one user whose calls overlap.
SPECIFICATION Spec
CONSTANTS
  q1 = q1
  q2 = q2
  u1 = u1
  u2 = u2
  None = None
  Users <- OneUser
  Calls <- TwoCalls
  Second = 2
  AccessLife = 1
  RefreshLife = 2
  MaxTime = 5
  MaxPairs = 3
  MaxCalls = 4
  MaxErrors = 1
INVARIANTS TypeOK LoggedOutTokensAreRefused ReplacedTokensStayDead StoredWhileValid
SYMMETRY Symmetry
CHECK_DEADLOCK FALSE

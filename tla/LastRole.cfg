\* Two additions of one role overlap.
SPECIFICATION Spec
CONSTANTS
  q1 = q1
  q2 = q2
  q3 = q3
  a1 = a1
  a2 = a2
  NoCall = NoCall
  Emails <- OneEmail
  Role <- TwoRoles
  DefaultRole = "USER"
  Calls <- TwoCalls
  MaxCalls = 6
  MaxAccounts = 2
  MaxErrors = 0
INVARIANTS LastRoleStays
CHECK_DEADLOCK FALSE

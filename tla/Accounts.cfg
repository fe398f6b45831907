\* Overlapping registrations and role calls.
SPECIFICATION Spec
CONSTANTS
  q1 = q1
  q2 = q2
  q3 = q3
  a1 = a1
  a2 = a2
  NoCall = NoCall
  Emails <- TwoEmails
  Role <- TwoRoles
  DefaultRole = "USER"
  Calls <- ThreeCalls
  MaxCalls = 6
  MaxAccounts = 2
  MaxErrors = 1
INVARIANTS TypeOK OneAccountPerEmail
PROPERTIES LastEntryKept ImplementsRegister
SYMMETRY Symmetry
CHECK_DEADLOCK FALSE

\* The pipeline in every configuration: acknowledgements on, with the interceptor
\* bound twice and once, and off.
SPECIFICATION Spec
CONSTANTS
  c1 = c1
  c2 = c2
  s1 = s1
  s2 = s2
  u1 = u1
  u2 = u2
  e1 = e1
  e2 = e2
  NoMessage = NoMessage
  Users <- OneUser
  Events <- OneEvent
  EventType <- InvitationType
  Consumers <- TwoConsumers
  Slots <- TwoSlots
  NoTag = NoTag
  Configs <- EveryConfig
  MaxRetries = 1
  MaxMessages = 2
  MaxCrashes = 1
  MaxErrors = 1
INVARIANTS TypeOK OneRequestPerPair RequestsAreForStartedEvents NoLossBeforeAttempt SingleCopy
INVARIANTS HandledAtMostOnce OneBindingRetries
CONSTRAINT CrashesAsBuilt
PROPERTIES ImplementsLedger
SYMMETRY Symmetry
CHECK_DEADLOCK FALSE

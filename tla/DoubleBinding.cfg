\* The interceptor bound twice: a failing message is not retried.
SPECIFICATION Spec
CONSTANTS
  c1 = c1
  c2 = c2
  s1 = s1
  s2 = s2
  u1 = u1
  u2 = u2
  e1 = e1
  e2 = e2
  NoMessage = NoMessage
  Users <- OneUser
  Events <- OneEvent
  EventType <- InvitationType
  Consumers <- TwoConsumers
  Slots <- TwoSlots
  NoTag = NoTag
  Configs <- TwoBindings
  MaxRetries = 3
  MaxMessages = 2
  MaxCrashes = 0
  MaxErrors = 0
INVARIANTS DroppedOnlyWhenExhausted
CHECK_DEADLOCK FALSE

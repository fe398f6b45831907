\* Progress of the consumer as built, when no call fails and nothing crashes.
SPECIFICATION FairSpec
CONSTANTS
  c1 = c1
  c2 = c2
  s1 = s1
  s2 = s2
  u1 = u1
  u2 = u2
  e1 = e1
  e2 = e2
  NoMessage = NoMessage
  Users <- TwoUsers
  Events <- OneEvent
  EventType <- InvitationType
  Consumers <- OneConsumer
  Slots <- TwoSlots
  NoTag = NoTag
  Configs <- TwoBindings
  MaxRetries = 1
  MaxMessages = 3
  MaxCrashes = 0
  MaxErrors = 0
PROPERTIES RequestsAreDecided QueueDrains
CHECK_DEADLOCK FALSE

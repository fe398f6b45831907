\* A request whose body has no metadata.
SPECIFICATION FairSpec
CONSTANTS
  c1 = c1
  c2 = c2
  s1 = s1
  s2 = s2
  u1 = u1
  u2 = u2
  e1 = e1
  e2 = e2
  NoMessage = NoMessage
  Users <- OneUser
  Events <- OneEvent
  EventType <- InvitationType
  Consumers <- TwoConsumers
  Slots <- TwoSlots
  NoTag = NoTag
  Configs <- TwoBindings
  MaxRetries = 1
  MaxMessages = 1
  MaxCrashes = 0
  MaxErrors = 0
PROPERTIES MetadataIsOptional
CHECK_DEADLOCK FALSE

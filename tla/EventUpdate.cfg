\* Updates as the controller makes them, with no failing database call.
SPECIFICATION SpecViews
CONSTANTS
  k1 = k1
  k2 = k2
  Keep = Keep
  NoEvent = NoEvent
  NoCall = NoCall
  Times <- Days
  Types <- TwoTypes
  Moments = {1}
  Drafts <- SomeDrafts
  Calls <- TwoCalls
  Targets = {1}
  Changes <- SomeChanges
  Versions <- TwoVersions
  Carries = {TRUE}
  FailingCalls = {}
  MaxEvents = 1
  MaxVersion = 2
  Limit = 1
INVARIANTS CurrentVersionIsAccepted
CHECK_DEADLOCK FALSE

\* Overlapping updates and reward calls, removals, restorations and purges, and a
\* list read page by page.
SPECIFICATION SpecViews
CONSTANTS
  k1 = k1
  k2 = k2
  Keep = Keep
  NoEvent = NoEvent
  NoCall = NoCall
  Times <- Days
  Types <- TwoTypes
  Moments = {0, 1, 2}
  Drafts <- SomeDrafts
  Calls <- TwoCalls
  Targets = {1}
  Changes <- SomeChanges
  Versions <- TwoVersions
  Carries = {TRUE, FALSE}
  FailingCalls <- TwoCalls
  MaxEvents = 3
  MaxVersion = 2
  Limit = 1
INVARIANTS TypeOK DatesAreOrdered VersionIdentifiesContent ConflictShowsNewer
INVARIANTS RewardsFollowRemovals ReaderMissesNothing EligibleIsApproved
CONSTRAINTS CallsOnOneEvent OneCarriedVersion FirstEvent SeveralEvents
PROPERTIES ImplementsRegister
SYMMETRY Symmetry
CHECK_DEADLOCK FALSE

SPECIFICATION TrackFairSpec
CONSTANTS
  TrackedTalks = {"t1", "t2"}
  Watchers = {"w1", "w2"}
  TalkChoices <- MCTalkChoices
  RequestCap = 1
  EventCap = 1
  MaxTracks = 2
  PublishedTo = {"t1"}
  MaxDeliveries = 2
  MaxFailures = 1
CHECK_DEADLOCK FALSE
INVARIANTS
  TrackTypeOK
  OneRoutine
  EntryExplained
  HeardInOrder
PROPERTIES
  WatchedIsTracked
  UnwatchedIsFreed

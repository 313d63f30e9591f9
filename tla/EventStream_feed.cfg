SPECIFICATION FairSpec
CONSTANTS
  Handler = {h1, h2}
  NoHandler = NoHandler
  Buffer = 1
  Wire = 1
  HandlesNamed = TRUE
  MaxEvents = 3
  MaxDrops = 2
  MaxCrashes = 1
CHECK_DEADLOCK FALSE
INVARIANTS TypeOK ReceivedInOrder ResumesAfterLastSeen OnlyPersistedIsSent
PROPERTIES PublisherNeverBlocked SubscriptionsAreReleased HistoryIsReplayed

SPECIFICATION FairSpec
CONSTANTS
  Handler = {h1, h2}
  NoHandler = NoHandler
  Buffer = 1
  Wire = 1
  HandlesNamed = FALSE
  MaxEvents = 3
  MaxDrops = 1
  MaxCrashes = 0
CHECK_DEADLOCK FALSE
PROPERTY ArrivalRefreshes

SPECIFICATION FairSpec
CONSTANTS
  replay = replay
  handler = handler
  Streams = {replay}
  Replays = {replay}
  Subscribers = {handler}
  Buses = {"memory", "global"}
  MaxEvents = 4
  MaxDurable = 2
  MaxQueue = 2
INVARIANTS
  TypeOK
  GivenOnceInOrder
  NobodyIsSkipped
PROPERTIES
  DoneEnds
CHECK_DEADLOCK FALSE

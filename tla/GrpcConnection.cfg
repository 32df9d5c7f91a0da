CONSTANTS
  Req = {r1}
  Closers = {"user1", "user2"}
SPECIFICATION FairSpec
PROPERTIES
  RepliesAreWhole
  CloseDropsNothing
  ImplementsCalls
  EveryCallIsAnswered
  CloseEnds
  HalfOpenEnds
CHECK_DEADLOCK FALSE

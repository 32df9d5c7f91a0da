SPECIFICATION FairSpec
CONSTANTS
  Conn = {c1, c2}
  NoConn = NoConn
  Req = {r1}
  Closer = {k1, k2}
  MaxIdleTime = 1
  Timeout = 1
  MaxPublishes = 1
INVARIANTS
  AnsweredOnce
  ClosedIsQuiet
PROPERTIES
  SilentIsClosed
  CloseEnds
  ClosedIsUnpublished

SPECIFICATION FairSpec
CONSTANTS
  Host = {h1}
  Caller = {p, q}
  Conn = {c1, c2, c3}
  None = None
PROPERTIES
  AnswersAreNotClosed
  WaitersAreAnswered

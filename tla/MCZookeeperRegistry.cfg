SPECIFICATION FairSpec
CONSTANTS
  Url = {u1}
  Listener = {l1, l2}
  Special = {}
  Matching <- MCMatching
  Absent = Absent
  Null = Null
  MaxRequests = 3
  MaxImmediates = 1
INVARIANTS
  RegisteredIsVisible
  UnregisteredStaysGone
  SubscriptionLives
PROPERTIES
  SubscribersAreServed

SPECIFICATION Spec
CONSTANTS
  Url = {u1}
  Listener = {l1, l2}
  Special = {l2}
  Matching <- MCMatching
  Absent = Absent
  Null = Null
  MaxRequests = 3
  MaxImmediates = 1
INVARIANTS
  ListenersGetMatching

SPECIFICATION FairSpec
CONSTANTS
  r1 = r1  r2 = r2  r3 = r3  r4 = r4  m1 = m1  w1 = w1  w2 = w2
  pa = pa  pb = pb  k1 = k1
  NoKey = NoKey  NoAlert = NoAlert  NoMsg = NoMsg
  Requests = {r1}
  Manuals = {m1}
  Workers = {w1, w2}
  Playbooks = {pa, pb}
  Names <- NewName
  KeyOf <- SameKey
  Registered <- OldImage
  ApiRegistry = {pa, pb}
  Outcomes = {"failed", "poisoned"}
  MaxRetries = 1
  MaxFaults = 1
INVARIANT UnseenOnlyAtArrival
PROPERTY TasksSettle
CHECK_DEADLOCK FALSE

SPECIFICATION Spec
CONSTANTS
  r1 = r1  r2 = r2  r3 = r3  r4 = r4  m1 = m1  w1 = w1  w2 = w2
  pa = pa  pb = pb  k1 = k1
  NoKey = NoKey  NoAlert = NoAlert  NoMsg = NoMsg
  Requests = {r1, r2}
  Manuals = {}
  Workers = {}
  Playbooks = {pa, pb}
  Names <- NoNames
  KeyOf <- SameKey
  Registered <- AllRegistered
  ApiRegistry = {pa, pb}
  Outcomes = {"success"}
  MaxRetries = 0
  MaxFaults = 0
INVARIANT OneAlertPerKey
CHECK_DEADLOCK FALSE

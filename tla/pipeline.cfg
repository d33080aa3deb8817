SPECIFICATION SceneSpec
CONSTANTS
  r1 = r1  r2 = r2  r3 = r3  r4 = r4  m1 = m1  w1 = w1  w2 = w2
  pa = pa  pb = pb  k1 = k1
  NoKey = NoKey  NoAlert = NoAlert  NoMsg = NoMsg
  Requests = {r1, r2, r3, r4}
  Manuals = {}
  Workers = {w1, w2}
  Playbooks = {pa, pb}
  Names <- FirstNames
  KeyOf <- MixedKeys
  Registered <- AllRegistered
  ApiRegistry = {pa}
  Outcomes = {"success", "running", "poisoned"}
  MaxRetries = 1
  MaxFaults = 1
INVARIANTS IInv SequencePrefix RunsKeepTheirAlert TaskAccounted RepeatsExplained TwinsOverlapped DuplicatesCounted
PROPERTY ImplementsLedger
SYMMETRY SceneSymmetry
CHECK_DEADLOCK FALSE

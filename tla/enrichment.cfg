SPECIFICATION Spec
CONSTANTS
  r1 = r1  r2 = r2  r3 = r3  r4 = r4  p1 = p1  e1 = e1  w1 = w1  w2 = w2  w3 = w3
  v1 = v1  v2 = v2  acme = acme  api1 = api1  vt = vt
  Redis = Redis  NoAlert = NoAlert  NoSource = NoSource  NoMsg = NoMsg
  Requests = {r1, r2, r3, r4}
  Values = {v1, v2}
  Iocs <- OneValue
  Partners = {acme}
  PartnerOf <- OneTenant
  Posts = {p1}
  PostValue <- Posted
  InIncident = {p1}
  Edits = {e1}
  Workers = {w1, w2, w3}
  Sources = {vt}
  LookedUp <- Configured
  Cached = {vt}
  Consulted <- VirusTotal
  ProcOf <- Served
  Scenes <- ThreeScenes
  MaxCopies = 2
  MaxSlips <- OneSlip
INVARIANTS InflightBound PendingExplained
SYMMETRY Symmetry
CHECK_DEADLOCK FALSE

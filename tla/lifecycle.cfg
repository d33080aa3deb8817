SPECIFICATION Spec
CONSTANTS
  ann = ann  bob = bob  a1 = a1  a2 = a2  i1 = i1  c1 = c1  c2 = c2  c3 = c3
  w1 = w1  w2 = w2  w3 = w3  t1 = t1  p1 = p1  p2 = p2  plain = plain  at = at
  j1 = j1  j2 = j2  Jobs = {j1, j2}  Scripts <- ResponseScripts  Subject <- ResponseSubject  TaskRetries = 1
  NoOne = NoOne  NoRow = NoRow
  Alerts = {a1}  Incidents = {i1}  Calls = {c1, c2}  Writers = {w1, w2}
  Analysts = {ann}
  Patches <- StatusBodies
  Bulks <- BulkResolve
  IncidentPatches <- ClosingBodies
  Versions <- OneVersion
  Templates = {t1}
  Defined = {p2}
  Texts = {plain, at}
  Tokens <- Mentions
  AlertDays = 1  IncidentDays = 1  ActivityDays = 1  GraceDays = 1
  PurgeRetries = 1
  MaxDay = 5
  Desks <- LifeDesks
INVARIANTS AlertTrail ResolvedDetermined
PROPERTIES NotPurgedYoung BlockedForGood ResolutionLands
SYMMETRY CallSymmetry
CHECK_DEADLOCK FALSE

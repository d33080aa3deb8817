SPECIFICATION Spec
CONSTANTS
  ann = ann  bob = bob  a1 = a1  a2 = a2  i1 = i1  c1 = c1  c2 = c2  c3 = c3
  w1 = w1  w2 = w2  w3 = w3  t1 = t1  p1 = p1  p2 = p2  plain = plain  at = at
  j1 = j1  j2 = j2  Jobs = {}  Scripts <- ResponseScripts  Subject <- ResponseSubject  TaskRetries = 0
  NoOne = NoOne  NoRow = NoRow
  Alerts = {a1, a2}  Incidents = {i1}  Calls = {c1, c2, c3}  Writers = {w1, w2, w3}
  Analysts = {ann, bob}
  Patches <- AlertBodies
  Bulks <- BulkRequests
  IncidentPatches <- IncidentBodies
  Versions <- TwoVersions
  Templates = {t1}
  Defined = {p2}
  Texts = {plain, at}
  Tokens <- Mentions
  AlertDays = 1  IncidentDays = 1  ActivityDays = 1  GraceDays = 1
  PurgeRetries = 0
  MaxDay = 1
  Desks <- CaseDesks
INVARIANTS AlertTrail ResolvedDetermined IncidentTrail LinksAccounted TemplateConsistent OriginalTextKept MentionsNotified
SYMMETRY CallSymmetry
CHECK_DEADLOCK FALSE

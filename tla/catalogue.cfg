SPECIFICATION Spec
CONSTANTS
  a1 = a1  a2 = a2  w = w  s1 = s1  s2 = s2  s3 = s3
  FileCount = 2
  Contents <- FileContents
  Disks <- TwoDisks
  ApiProcs = {a1, a2}
  WorkerProcs = {w}
  Scans = {s1, s2, s3}
  MaxEdits = 2
  Checks = {a1, a2}
  Editors = {s1, s2, s3}
  Configs = {1, 2}
  Working = {1}
  Broken = {}
  Parts = {"playbooks", "services"}
INVARIANTS ReloadComplete ApiSyncsNeverDeadlock HealthyExplained
SYMMETRY Symmetry
CHECK_DEADLOCK FALSE

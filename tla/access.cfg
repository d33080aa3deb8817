SPECIFICATION Spec
CONSTANTS
  root = root  eve = eve  r1 = r1  r2 = r2  r3 = r3
  h1 = h1  h2 = h2  h3 = h3  p1 = p1  p2 = p2  k1 = k1  ip = ip  install = install
  Usernames = {root, eve}
  Requests = {r1, r2, r3}
  Seeds <- Tables
  Registration = TRUE
  Hooks = {h1, h2, h3}
  Procs = {p1, p2}
  Keys = {k1}
  Addresses = {ip}
  PrefixOf <- OwnPrefix
  MaxRequests = 2  Window = 2
  MaxTime = 4
  Scenes <- TwoScenes
INVARIANTS LastAdminKept RateBound
PROPERTY RevokedStays
SYMMETRY RequestSymmetry
CHECK_DEADLOCK FALSE

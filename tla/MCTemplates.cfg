SPECIFICATION FairSpec
CONSTANTS
  t1 = t1
  u1 = u1
  admin = admin
  n1 = n1
  n2 = n2
  k1 = k1
  Templates = {t1}
  Users = {u1}
  Admin = admin
  Names = {n1, n2}
  Kits = {k1}
  Bodies <- MCBodies
  Handlers = {h1, h2}
  None = None
INVARIANTS TypeOK Coherence
PROPERTIES VisibilityKept RemovalFinal CacheContract FreshAgain
CHECK_DEADLOCK FALSE

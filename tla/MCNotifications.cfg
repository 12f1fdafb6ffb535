SPECIFICATION FairSpec
CONSTANTS
  u1 = u1
  admin = admin
  n1 = n1
  Notes = {n1}
  Users = {u1, admin}
  Admins = {admin}
  Handlers = {h1, h2}
  None = None
INVARIANTS TypeOK Coherence Announced
PROPERTIES Forward CacheContract FreshAgain
CHECK_DEADLOCK FALSE

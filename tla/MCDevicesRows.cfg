SPECIFICATION Spec
CONSTANTS
  Devices = {d1}
  Seeded = {}
  Channels = {a, b}
  Values = {0, 1}
  Default = 0
  Users = {u1}
  Admin = Admin
  Templates = {t1}
  Declares <- DeclareAll
  Handlers = {h1, h2}
  Sweeps = {}
  Kinds = {"mqtt", "socket", "read", "patch", "delete", "create"}
  Writes <- OneSet
  Reports = {"OFFLINE"}
  None = None
SYMMETRY Symmetric
CONSTRAINT LinkedAndRecent
CHECK_DEADLOCK FALSE
INVARIANTS TypeOK NothingWithoutRow Coherence AnnouncesStored
PROPERTIES CreateIsComplete

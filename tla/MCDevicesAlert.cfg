SPECIFICATION Spec
CONSTANTS
  Devices = {d1, d2}
  Seeded = {d1, d2}
  Channels = {a}
  Values = {0}
  Default = 0
  Users = {u1}
  Admin = Admin
  Templates = {t1}
  Declares <- DeclareAll
  Handlers = {h1}
  Sweeps = {s1}
  Kinds = {"mqtt"}
  Writes <- OnlyEmpty
  Reports = {None}
  None = None
CHECK_DEADLOCK FALSE
PROPERTIES OfflineIsAnnounced

SPECIFICATION FairSpec
CONSTANTS
  Devices = {d1}
  Seeded = {d1}
  Channels = {a}
  Values = {0}
  Default = 0
  Users = {u1}
  Admin = Admin
  Templates = {t1}
  Declares <- DeclareAll
  Handlers = {h1}
  Sweeps = {s1}
  Kinds = {"mqtt", "patch"}
  Writes <- OnlyEmpty
  Reports = {None, "online"}
  None = None
CHECK_DEADLOCK FALSE
PROPERTIES SilentGoesOffline

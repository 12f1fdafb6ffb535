SPECIFICATION FairSpec
CONSTANTS
  d1 = d1
  d2 = d2
  v1 = v1
  v2 = v2
  Devices = {d1, d2}
  Values = {v1, v2}
  Default = v1
  Sockets = {s1}
  Handlers = {h1, h2}
  Messages <- SentMessages
  None = None
INVARIANTS TypeOK RoomShowsRow StoresLatest
PROPERTIES Resumes

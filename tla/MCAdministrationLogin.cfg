SPECIFICATION Spec
CONSTANTS
  u1 = u1
  p1 = p1
  p2 = p2
  r1 = r1
  r2 = r2
  r3 = r3
  h1 = h1
  h2 = h2
  Users = {u1}
  Passwords = {p1, p2}
  Avatars = {a1}
  Rows = {r1, r2, r3}
  LastId = 2
  Handlers = {h1, h2}
  None = None
SYMMETRY Symmetry
CHECK_DEADLOCK FALSE
INVARIANT SomePasswordLogsIn

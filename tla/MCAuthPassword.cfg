SPECIFICATION Spec
CONSTANTS
  Users = {u1}
  Emails = {e1}
  Passwords = {p1, p2}
  Sessions = {s1}
  Hashes = {x1}
  Handlers = {h1, h2}
  Kinds = {"register", "confirm", "login", "update"}
  None = None
SYMMETRY Symmetry
CHECK_DEADLOCK FALSE
INVARIANT LastPasswordLogsIn

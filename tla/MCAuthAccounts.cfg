SPECIFICATION Spec
CONSTANTS
  Users = {u1, u2}
  Emails = {e1, e2}
  Passwords = {p1, p2}
  Sessions = {s1}
  Hashes = {x1}
  Handlers = {h1, h2}
  Kinds = {"register", "confirm", "login", "update", "delete"}
  None = None
SYMMETRY Symmetry
CHECK_DEADLOCK FALSE
INVARIANTS TypeOK PasswordIsLast
PROPERTIES AccountContract

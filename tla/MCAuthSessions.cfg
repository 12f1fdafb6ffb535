SPECIFICATION Spec
CONSTANTS
  Users = {u1}
  Emails = {e1}
  Passwords = {p1, p2}
  Sessions = {s1, s2}
  Hashes = {x1, x2, x3}
  Handlers = {h1, h2}
  Kinds = {"register", "login", "refresh", "logout", "update", "delete"}
  None = None
SYMMETRY Symmetry
CHECK_DEADLOCK FALSE
INVARIANTS EndedStaysEnded CurrentTokenHeld RevokedByPassword
PROPERTIES DeletedIsFinal AccountContract

SPECIFICATION Spec
CONSTANTS
  Members = {m1, m2}
  None = None
  Four = None
  MEMBER_MAX = 2
  a = a
  b = b
  Chars = {a, b}
  Texts <- OneLength
  Capacity = 2
  MaxMessages = 2
  MaxDeaths = 0
  Deaths = {}
  FreshRights = FALSE
SYMMETRY Symmetry
INVARIANTS
  OneEditor
CHECK_DEADLOCK FALSE

SPECIFICATION Spec
CONSTANTS
  Members = {m1, m2, m3}
  None = None
  Four = None
  MEMBER_MAX = 3
  a = a
  b = b
  Chars = {a, b}
  Texts <- OneLength
  Capacity = 3
  MaxMessages = 3
  MaxDeaths = 1
  Deaths = {"fin", "rst"}
  FreshRights = FALSE
SYMMETRY Symmetry
INVARIANTS
  TypeOK
  Convergence
  IInv
CHECK_DEADLOCK FALSE

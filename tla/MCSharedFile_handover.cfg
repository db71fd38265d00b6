SPECIFICATION Spec
CONSTANTS
  Members = {m1, m2}
  None = None
  Four = None
  MEMBER_MAX = 2
  a = a
  b = b
  Chars = {a, b}
  Texts <- TwoLengths
  Capacity = 9
  MaxMessages = 7
  MaxDeaths = 0
  Deaths = {"fin", "rst"}
  FreshRights = FALSE
SYMMETRY Symmetry
INVARIANTS
  RightsAccounted
  RepliesAgree
  Convergence
  IInv
CHECK_DEADLOCK FALSE

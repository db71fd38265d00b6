SPECIFICATION Spec
CONSTANTS
  Members = {m1, m2, m3}
  None = None
  MEMBER_MAX = 3
  MaxConns = 4
  MaxLines = 2
  MaxTalk = 2
  MaxFailures = 1
  MaxDeaths = 1
  Deaths = {"fin", "rst"}
SYMMETRY Symmetry
INVARIANTS
  TypeOK
  LogIsPrefix
  SenderOrder
  NoLineLost
  IInv
PROPERTIES
  ImplementsChatRoom
CHECK_DEADLOCK FALSE

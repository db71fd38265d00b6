SPECIFICATION FairSpec
CONSTANTS
  Members = {m1, m2}
  None = None
  Four = m2
  MEMBER_MAX = 2
  a = a
  b = b
  Chars = {a, b}
  Texts <- TwoLengths
  Capacity = 2
  MaxMessages = 3
  MaxDeaths = 1
  Deaths = {"fin", "rst"}
  FreshRights = FALSE
PROPERTIES
  CommandsHandled
CHECK_DEADLOCK FALSE

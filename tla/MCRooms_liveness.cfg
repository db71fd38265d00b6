SPECIFICATION FairSpec
CONSTANTS
  Clients = {c1, c2}
  Descriptors = {d1, d2}
  Threads = {t1, t2, t3}
  None = None
  MEMBER_MAX = 2
  MaxFailures = 0
  MaxDeaths = 1
  Deaths = {"rst"}
PROPERTIES
  SlotServed
  LeaveCompletes
CHECK_DEADLOCK FALSE

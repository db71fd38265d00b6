SPECIFICATION FairSpec
CONSTANTS
  Clients = {c1}
  Descriptors = {d1}
  Threads = {t1}
  None = None
  MEMBER_MAX = 1
  MaxFailures = 0
  MaxDeaths = 1
  Deaths = {"fin"}
PROPERTIES
  DeathNoticed
CHECK_DEADLOCK FALSE

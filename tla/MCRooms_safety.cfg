SPECIFICATION Spec
CONSTANTS
  Clients = {c1, c2, c3}
  Descriptors = {d1, d2, d3}
  Threads = {t1, t2, t3}
  None = None
  MEMBER_MAX = 2
  MaxFailures = 1
  MaxDeaths = 1
  Deaths = {"fin", "rst"}
SYMMETRY Symmetry
INVARIANTS
  TypeOK
  MutexLeakHasCause
  RoomsOpenInOrder
  TableDense
  LabelsMatch
  NoCrossRoomService
  ReuseHasCause
  IInv
PROPERTIES
  NoSlotStolen
CHECK_DEADLOCK FALSE

SPECIFICATION FairSpec
CONSTANTS
  c1 = c1
  c2 = c2
  Clients = {c1, c2}
  None = None
  MaxAttempts = 2
  BACKLOG = 2
  MaxRooms = 2
  MEMBER_MAX = 2
  TextLengths = {117, 128}
  Budgets <- Some
INVARIANTS
  TypeOK
  InRoomIsPlaced
  PhantomsAreLong
  ClientInStep
  IInv
PROPERTIES
  InStepOnceDrained
  WaitingIsServed
CHECK_DEADLOCK FALSE

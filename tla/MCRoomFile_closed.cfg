SPECIFICATION Spec
CONSTANTS
  m1 = m1
  m2 = m2
  m3 = m3
  r1 = r1
  r2 = r2
  a = a
  b = b
  nl = nl
  Members = {m1, m2, m3}
  Rooms = {r1, r2}
  RoomOf <- RoomOfEach
  Names <- FewNames
  OwnName <- OwnNames
  NotC = {"notes"}
  Chars = {a, b, nl}
  NewLine = nl
  Texts <- TwoTexts
  Compilable <- OneText
  Kept <- SomeKept
  None = None
  Four = m2
  Openable = {"0.c", "new.c", "notes"}
  Creatable = {"0.c", "new.c"}
  Budgets <- FewCommands
  MaxFailures = 0
INVARIANTS
  NonNullIsOpen
CHECK_DEADLOCK FALSE

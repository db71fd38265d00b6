---------------------------- MODULE RoomsProofs ----------------------------
(***************************************************************************)
(* Proofs about Rooms, for every number of clients, descriptors, threads, rooms  *)
(* and failures.  The frame lemmas say which steps touch which variables; the  *)
(* step lemmas preserve one part of IInv (RoomsInductive) each; the        *)
(* theorems are at the end.                                                *)
(***************************************************************************)
EXTENDS RoomsInductive, TLAPS

\* A step is one of main(), or leaves the state of main() alone.
LEMMA MainFrame ==
  ASSUME [Next]_vars
  PROVE  \/ (\E c \in Clients, d \in Descriptors : Accept(c, d)) \/ Login \/ Drop \/ Choose
         \/ MakeLock \/ MakeDbFail \/ MakeRefused \/ MakeRoom
         \/ MakeSpawn \/ MakeSpawnFail
         \/ EnterCount \/ EnterReply \/ EnterPlace
         \/ UNCHANGED mainVars
<1>1. CASE Environment
  BY <1>1 DEF Environment, Connect, Die
<1>2. CASE MainRuns \/ MainMayDo
  BY <1>2 DEF MainRuns, MainMayDo
<1>3. CASE \E r \in RoomIds : RoomRuns(r) \/ RoomSpawnFail(r)
  BY <1>3 DEF RoomRuns, RoomStart, RoomFind, RoomLock, RoomSpawn, RoomSpawnFail
<1>4. CASE \E t \in Threads : HandlerRuns(t) \/ HandlerMayDo(t)
  BY <1>4
  DEF HandlerRuns, HandlerMayDo, HandlerCopySock, HandlerCopyNum, HandlerInit,
      HandlerInitFail, HandlerChat, HandlerLog, HandlerLogFail,
      HandlerReadError, HandlerLeave
<1>5. CASE UNCHANGED vars
  BY <1>5 DEF vars
<1> QED
  BY <1>1, <1>2, <1>3, <1>4, <1>5 DEF Next

\* The steps that store into rooms[].
LEMMA TableFrame ==
  ASSUME [Next]_vars
  PROVE  \/ MakeRoom \/ EnterCount \/ EnterPlace
         \/ (\E r \in RoomIds : RoomSpawn(r))
         \/ (\E t \in Threads : HandlerLeave(t))
         \/ UNCHANGED tableVars
<1>1. CASE Environment
  BY <1>1 DEF Environment, Connect, Die
<1>2. CASE MainRuns \/ MainMayDo
  BY <1>2
  DEF MainRuns, MainMayDo, Accept, Login, Drop, Choose, MakeLock, MakeDbFail,
      MakeRefused, MakeSpawn, MakeSpawnFail, EnterReply, tableVars
<1>3. CASE \E r \in RoomIds : RoomRuns(r) \/ RoomSpawnFail(r)
  BY <1>3 DEF RoomRuns, RoomStart, RoomFind, RoomLock, RoomSpawnFail
<1>4. CASE \E t \in Threads : HandlerRuns(t) \/ HandlerMayDo(t)
  BY <1>4
  DEF HandlerRuns, HandlerMayDo, HandlerCopySock, HandlerCopyNum, HandlerInit,
      HandlerInitFail, HandlerChat, HandlerLog, HandlerLogFail,
      HandlerReadError
<1>5. CASE UNCHANGED vars
  BY <1>5 DEF vars
<1> QED
  BY <1>1, <1>2, <1>3, <1>4, <1>5 DEF Next

\* Only a room_handler and a leaving thread store into tids[].
LEMMA TidsFrame ==
  ASSUME [Next]_vars
  PROVE  \/ (\E r \in RoomIds : RoomSpawn(r))
         \/ (\E t \in Threads : HandlerLeave(t))
         \/ tids' = tids
<1>1. MakeRoom => tids' = tids
  BY DEF MakeRoom
<1>2. EnterCount \/ EnterPlace => tids' = tids
  BY DEF EnterCount, EnterPlace
<1>3. UNCHANGED tableVars => tids' = tids
  BY DEF tableVars
<1> QED
  BY <1>1, <1>2, <1>3, TableFrame

\* The steps that change the state of a room_handler.
LEMMA RoomFrame ==
  ASSUME [Next]_vars
  PROVE  \/ MakeSpawn
         \/ (\E r \in RoomIds : RoomRuns(r) \/ RoomSpawnFail(r))
         \/ UNCHANGED rhVars
<1>1. CASE Environment
  BY <1>1 DEF Environment, Connect, Die
<1>2. CASE MainRuns \/ MainMayDo
  BY <1>2
  DEF MainRuns, MainMayDo, Accept, Login, Drop, Choose, MakeLock, MakeDbFail,
      MakeRefused, MakeRoom, MakeSpawnFail, EnterCount, EnterReply, EnterPlace
<1>4. CASE \E t \in Threads : HandlerRuns(t) \/ HandlerMayDo(t)
  BY <1>4
  DEF HandlerRuns, HandlerMayDo, HandlerCopySock, HandlerCopyNum, HandlerInit,
      HandlerInitFail, HandlerChat, HandlerLog, HandlerLogFail,
      HandlerReadError, HandlerLeave
<1>5. CASE UNCHANGED vars
  BY <1>5 DEF vars
<1> QED
  BY <1>1, <1>2, <1>4, <1>5 DEF Next

\* The steps that change the state of a socket_handler.
LEMMA HandlerFrame ==
  ASSUME [Next]_vars
  PROVE  \/ (\E r \in RoomIds : RoomSpawn(r))
         \/ (\E t \in Threads : HandlerRuns(t) \/ HandlerMayDo(t))
         \/ UNCHANGED hVars
<1>1. CASE Environment
  BY <1>1 DEF Environment, Connect, Die
<1>2. CASE MainRuns \/ MainMayDo
  BY <1>2
  DEF MainRuns, MainMayDo, Accept, Login, Drop, Choose, MakeLock, MakeDbFail,
      MakeRefused, MakeRoom, MakeSpawn, MakeSpawnFail, EnterCount, EnterReply,
      EnterPlace
<1>3. CASE \E r \in RoomIds : RoomRuns(r) \/ RoomSpawnFail(r)
  BY <1>3 DEF RoomRuns, RoomStart, RoomFind, RoomLock, RoomSpawnFail
<1>5. CASE UNCHANGED vars
  BY <1>5 DEF vars
<1> QED
  BY <1>1, <1>2, <1>3, <1>5 DEF Next

\* The steps that change the mutex or room_count.
LEMMA MutexFrame ==
  ASSUME [Next]_vars
  PROVE  \/ MakeLock \/ MakeRefused \/ MakeSpawn
         \/ (\E r \in RoomIds : RoomLock(r) \/ RoomSpawn(r))
         \/ (\E t \in Threads : HandlerLogFail(t))
         \/ UNCHANGED <<mutex, room_count>>
<1>1. CASE Environment
  BY <1>1 DEF Environment, Connect, Die
<1>2. CASE MainRuns \/ MainMayDo
  BY <1>2
  DEF MainRuns, MainMayDo, Accept, Login, Drop, Choose, MakeDbFail, MakeRoom,
      MakeSpawnFail, EnterCount, EnterReply, EnterPlace, MutexAfterFailedMake
<1>3. CASE \E r \in RoomIds : RoomRuns(r) \/ RoomSpawnFail(r)
  BY <1>3 DEF RoomRuns, RoomStart, RoomFind, RoomSpawnFail
<1>4. CASE \E t \in Threads : HandlerRuns(t) \/ HandlerMayDo(t)
  BY <1>4
  DEF HandlerRuns, HandlerMayDo, HandlerCopySock, HandlerCopyNum, HandlerInit,
      HandlerInitFail, HandlerChat, HandlerLog, MutexAfterLog,
      HandlerReadError, HandlerLeave
<1>5. CASE UNCHANGED vars
  BY <1>5 DEF vars
<1> QED
  BY <1>1, <1>2, <1>3, <1>4, <1>5 DEF Next

\* The steps that may end the orderly part of a behaviour.
LEMMA OrderFrame ==
  ASSUME [Next]_vars
  PROVE  \/ EnterReply
         \/ (\E t \in Threads : HandlerLeave(t))
         \/ orderly' = orderly
<1>1. CASE Environment
  BY <1>1 DEF Environment, Connect, Die, historyVars
<1>2. CASE MainRuns \/ MainMayDo
  BY <1>2
  DEF MainRuns, MainMayDo, Accept, Login, Drop, Choose, MakeLock, MakeDbFail,
      MakeRefused, MakeRoom, MakeSpawn, MakeSpawnFail, EnterCount, EnterPlace,
      historyVars
<1>3. CASE \E r \in RoomIds : RoomRuns(r) \/ RoomSpawnFail(r)
  BY <1>3
  DEF RoomRuns, RoomStart, RoomFind, RoomLock, RoomSpawn, RoomSpawnFail,
      historyVars
<1>4. CASE \E t \in Threads : HandlerRuns(t) \/ HandlerMayDo(t)
  BY <1>4
  DEF HandlerRuns, HandlerMayDo, HandlerCopySock, HandlerCopyNum, HandlerInit,
      HandlerInitFail, HandlerChat, HandlerLog, HandlerLogFail,
      HandlerReadError, historyVars
<1>5. CASE UNCHANGED vars
  BY <1>5 DEF vars, historyVars
<1> QED
  BY <1>1, <1>2, <1>3, <1>4, <1>5 DEF Next

\* At most one call fails in a step.
LEMMA FailureFrame ==
  ASSUME [Next]_vars
  PROVE  \/ failures' = failures
         \/ failures < MaxFailures /\ failures' = failures + 1
<1>1. CASE Environment
  BY <1>1 DEF Environment, Connect, Die
<1>2. CASE MainRuns \/ MainMayDo
  BY <1>2
  DEF MainRuns, MainMayDo, Accept, Login, Drop, Choose, MakeLock, MakeDbFail,
      MakeRefused, MakeRoom, MakeSpawn, MakeSpawnFail, EnterCount, EnterReply,
      EnterPlace
<1>3. CASE \E r \in RoomIds : RoomRuns(r) \/ RoomSpawnFail(r)
  BY <1>3 DEF RoomRuns, RoomStart, RoomFind, RoomLock, RoomSpawn, RoomSpawnFail
<1>4. CASE \E t \in Threads : HandlerRuns(t) \/ HandlerMayDo(t)
  BY <1>4
  DEF HandlerRuns, HandlerMayDo, HandlerCopySock, HandlerCopyNum, HandlerInit,
      HandlerInitFail, HandlerChat, HandlerLog, HandlerLogFail,
      HandlerReadError, HandlerLeave
<1>5. CASE UNCHANGED vars
  BY <1>5 DEF vars
<1> QED
  BY <1>1, <1>2, <1>3, <1>4, <1>5 DEF Next

\* The steps that open or close a descriptor.
LEMMA PeerFrame ==
  ASSUME [Next]_vars
  PROVE  \/ (\E c \in Clients, d \in Descriptors : Accept(c, d))
         \/ (\E t \in Threads : HandlerLeave(t))
         \/ peer' = peer
<1>1. CASE Environment
  BY <1>1 DEF Environment, Connect, Die
<1>2. CASE MainRuns \/ MainMayDo
  BY <1>2
  DEF MainRuns, MainMayDo, Login, Drop, Choose, MakeLock, MakeDbFail,
      MakeRefused, MakeRoom, MakeSpawn, MakeSpawnFail, EnterCount, EnterReply,
      EnterPlace, Send, netVars
<1>3. CASE \E r \in RoomIds : RoomRuns(r) \/ RoomSpawnFail(r)
  BY <1>3
  DEF RoomRuns, RoomStart, RoomFind, RoomLock, RoomSpawn, RoomSpawnFail, Send,
      netVars
<1>4. CASE \E t \in Threads : HandlerRuns(t) \/ HandlerMayDo(t)
  BY <1>4
  DEF HandlerRuns, HandlerMayDo, HandlerCopySock, HandlerCopyNum, HandlerInit,
      HandlerInitFail, HandlerChat, HandlerLog, HandlerLogFail,
      HandlerReadError, Send, netVars
<1>5. CASE UNCHANGED vars
  BY <1>5 DEF vars, netVars
<1> QED
  BY <1>1, <1>2, <1>3, <1>4, <1>5 DEF Next

\* The steps that write history.
LEMMA HistoryFrame ==
  ASSUME [Next]_vars
  PROVE  /\ \/ (\E c \in Clients, d \in Descriptors : Accept(c, d))
            \/ reused' = reused
         /\ \/ (\E r \in RoomIds : RoomLock(r) \/ RoomSpawn(r) \/ RoomSpawnFail(r))
            \/ torn' = torn
<1>1. CASE Environment
  BY <1>1 DEF Environment, Connect, Die, historyVars
<1>2. CASE MainRuns \/ MainMayDo
  BY <1>2
  DEF MainRuns, MainMayDo, Accept, Login, Drop, Choose, MakeLock, MakeDbFail,
      MakeRefused, MakeRoom, MakeSpawn, MakeSpawnFail, EnterCount, EnterReply,
      EnterPlace, historyVars
<1>3. CASE \E r \in RoomIds : RoomRuns(r) \/ RoomSpawnFail(r)
  BY <1>3
  DEF RoomRuns, RoomStart, RoomFind, RoomLock, RoomSpawn, RoomSpawnFail,
      historyVars
<1>4. CASE \E t \in Threads : HandlerRuns(t) \/ HandlerMayDo(t)
  BY <1>4
  DEF HandlerRuns, HandlerMayDo, HandlerCopySock, HandlerCopyNum, HandlerInit,
      HandlerInitFail, HandlerChat, HandlerLog, HandlerLogFail,
      HandlerReadError, HandlerLeave, historyVars
<1>5. CASE UNCHANGED vars
  BY <1>5 DEF vars, historyVars
<1> QED
  BY <1>1, <1>2, <1>3, <1>4, <1>5 DEF Next

\* What went wrong stays on record.
LEMMA HistoryGrows ==
  ASSUME [Next]_vars
  PROVE  torn \subseteq torn' /\ reused \subseteq reused'
BY HistoryFrame DEF Accept, RoomLock, RoomSpawn, RoomSpawnFail

\* Writing to sockets keeps their states among the known ones.
LEMMA SendType ==
  ASSUME GlobalsOK, NEW n, Send(n)
  PROVE  /\ net' \in [Clients -> NetStates]
         /\ status' \in {"up", "sigpipe", "overrun"}
BY DEF GlobalsOK, Send, AfterWrites, NetStates

\* A store into a table of tables keeps its type, whatever the indices.
LEMMA UpdateType ==
  ASSUME NEW S, NEW T, NEW V, NEW f \in [S -> [T -> V]],
         NEW a, NEW b, NEW v \in V
  PROVE  [f EXCEPT ![a][b] = v] \in [S -> [T -> V]]
<1> DEFINE g == [f EXCEPT ![a][b] = v]
<1>1. ASSUME NEW x \in S
      PROVE  g[x] \in [T -> V]
  <2>1. CASE x = a
    <3>1. g[x] = [f[x] EXCEPT ![b] = v]
      BY <2>1
    <3> QED
      BY <3>1
  <2>2. CASE x # a
    BY <2>2
  <2> QED
    BY <2>1, <2>2
<1> QED
  BY <1>1

\* A store into a table of integers keeps its type.
LEMMA CountType ==
  ASSUME NEW S, NEW f \in [S -> Int], NEW a, NEW k, a \in S => k \in Int
  PROVE  [f EXCEPT ![a] = k] \in [S -> Int]
OBVIOUS

\* rooms[] keeps its type.
LEMMA TableOKStep ==
  ASSUME TypeOK, [Next]_vars
  PROVE  TableOK'
<1>0. TableOK /\ MainOK /\ RoomHandlerOK /\ SocketHandlerOK /\ GlobalsOK
  BY DEF TypeOK
<1>1. CASE MakeRoom
  <2>1. roomnum' \in [RoomIds -> RoomIds \cup {-1}]
    BY <1>0, <1>1 DEF TableOK, GlobalsOK, MakeRoom, NewRoomNumber, RoomIds
  <2>2. count' \in [RoomIds -> Int]
    <3>1. count' = [count EXCEPT ![room_count] = count[room_count] + 1]
      BY <1>1 DEF MakeRoom
    <3>2. \A x \in RoomIds : count[x] \in Int
      BY <1>0 DEF TableOK
    <3> QED
      BY <1>0, <3>1, <3>2, CountType DEF TableOK
  <2>3. clnt_socks' \in [RoomIds -> [Slots -> Descriptors \cup {None}]]
    BY <1>0, <1>1 DEF TableOK, MainOK, MakeRoom
  <2>4. ids' \in [RoomIds -> [Slots -> Clients \cup {None}]]
    BY <1>0, <1>1 DEF TableOK, MainOK, MakeRoom
  <2> QED
    BY <1>0, <1>1, <2>1, <2>2, <2>3, <2>4 DEF TableOK, MakeRoom
<1>2. CASE EnterCount
  <2>1. mroom \in RoomIds /\ count[mroom] \in Int
    BY <1>0 DEF TableOK, MainOK
  <2> QED
    BY <1>0, <1>2, <2>1 DEF TableOK, EnterCount
<1>3. CASE EnterPlace
  <2>1. clnt_socks' \in [RoomIds -> [Slots -> Descriptors \cup {None}]]
    <3>1. \/ UNCHANGED clnt_socks
          \/ clnt_socks' = [clnt_socks EXCEPT ![mroom][EnterSlot] = cur]
      BY <1>3 DEF EnterPlace
    <3>2. clnt_socks \in [RoomIds -> [Slots -> Descriptors \cup {None}]]
          /\ cur \in Descriptors \cup {None}
      BY <1>0 DEF TableOK, MainOK
    <3>3. [clnt_socks EXCEPT ![mroom][EnterSlot] = cur]
            \in [RoomIds -> [Slots -> Descriptors \cup {None}]]
      BY <3>2, UpdateType, Zenon
    <3> QED
      BY <3>1, <3>2, <3>3, Zenon
  <2>2. ids' \in [RoomIds -> [Slots -> Clients \cup {None}]]
    <3>1. \/ UNCHANGED ids
          \/ ids' = [ids EXCEPT ![mroom][EnterSlot] = user]
      BY <1>3 DEF EnterPlace
    <3>2. ids \in [RoomIds -> [Slots -> Clients \cup {None}]]
          /\ user \in Clients \cup {None}
      BY <1>0 DEF TableOK, MainOK
    <3>3. [ids EXCEPT ![mroom][EnterSlot] = user]
            \in [RoomIds -> [Slots -> Clients \cup {None}]]
      BY <3>2, UpdateType, Zenon
    <3> QED
      BY <3>1, <3>2, <3>3, Zenon
  <2> QED
    BY <1>0, <1>3, <2>1, <2>2 DEF TableOK, EnterPlace
<1>4. ASSUME NEW r \in RoomIds, RoomSpawn(r)
      PROVE  TableOK'
  <2>1. PICK t \in Threads : tids' = [tids EXCEPT ![rroom[r]][rslot[r]] = t]
    BY <1>4 DEF RoomSpawn
  <2> QED
    BY <1>0, <1>4, <2>1 DEF TableOK, RoomSpawn
<1>5. ASSUME NEW t \in Threads, HandlerLeave(t)
      PROVE  TableOK'
  <2> DEFINE q == HandlerRoom(t)
  <2>0. q \in RoomIds /\ count[q] \in Int
    BY <1>0 DEF TableOK, RoomHandlerOK, SocketHandlerOK, HandlerRoom
  <2>1. count' \in [RoomIds -> Int]
    <3>1. count' = [count EXCEPT ![q] = count[q] - 1]
      BY <1>5 DEF HandlerLeave
    <3> QED
      BY <1>0, <2>0, <3>1 DEF TableOK
  <2>2. clnt_socks' \in [RoomIds -> [Slots -> Descriptors \cup {None}]]
    BY <1>0, <1>5 DEF TableOK, HandlerLeave
  <2>3. tids' \in [RoomIds -> [Slots -> Threads \cup {None}]]
    BY <1>0, <1>5 DEF TableOK, HandlerLeave
  <2>4. ids' \in [RoomIds -> [Slots -> Clients \cup {None}]]
    <3>1. \/ UNCHANGED ids
          \/ ids' = [ids EXCEPT ![q][ErasedId(q)] = None]
      BY <1>5 DEF HandlerLeave
    <3>2. ids \in [RoomIds -> [Slots -> Clients \cup {None}]]
          /\ None \in Clients \cup {None}
      BY <1>0 DEF TableOK
    <3>3. [ids EXCEPT ![q][ErasedId(q)] = None]
            \in [RoomIds -> [Slots -> Clients \cup {None}]]
      BY <3>2, UpdateType, Zenon
    <3> QED
      BY <3>1, <3>2, <3>3, Zenon
  <2> QED
    BY <1>0, <1>5, <2>1, <2>2, <2>3, <2>4 DEF TableOK, HandlerLeave
<1>6. CASE UNCHANGED tableVars
  BY <1>0, <1>6 DEF TableOK, tableVars
<1> QED
  BY <1>1, <1>2, <1>3, <1>4, <1>5, <1>6, TableFrame


\* The variables of main() keep their type.
LEMMA MainOKStep ==
  ASSUME TypeOK, [Next]_vars
  PROVE  MainOK'
<1>0. MainOK
  BY DEF TypeOK
<1>1. ASSUME NEW c \in Clients, NEW d \in Descriptors, Accept(c, d)
      PROVE  MainOK'
  BY <1>0, <1>1 DEF MainOK, Accept
<1>2. CASE Login \/ Drop
  BY <1>0, <1>2 DEF MainOK, Login, Drop
<1>3. CASE Choose
  BY <1>0, <1>3 DEF MainOK, Choose
<1>4. CASE MakeLock \/ MakeDbFail \/ MakeRefused \/ MakeRoom
  BY <1>0, <1>4 DEF MainOK, MakeLock, MakeDbFail, MakeRefused, MakeRoom
<1>5. CASE MakeSpawn \/ MakeSpawnFail
  BY <1>0, <1>5 DEF MainOK, MakeSpawn, MakeSpawnFail
<1>6. CASE EnterCount \/ EnterReply \/ EnterPlace
  BY <1>0, <1>6 DEF MainOK, EnterCount, EnterReply, EnterPlace
<1>7. CASE UNCHANGED mainVars
  BY <1>0, <1>7 DEF MainOK, mainVars
<1> QED
  BY <1>1, <1>2, <1>3, <1>4, <1>5, <1>6, <1>7, MainFrame

\* The variables of the room_handlers keep their type.
LEMMA RoomHandlerOKStep ==
  ASSUME TypeOK, [Next]_vars
  PROVE  RoomHandlerOK'
<1>0. RoomHandlerOK /\ TableOK
  BY DEF TypeOK
<1>1. CASE MakeSpawn
  BY <1>0, <1>1 DEF RoomHandlerOK, MakeSpawn
<1>2. ASSUME NEW r \in RoomIds, RoomStart(r)
      PROVE  RoomHandlerOK'
  BY <1>0, <1>2 DEF RoomHandlerOK, RoomStart
<1>3. ASSUME NEW r \in RoomIds, RoomFind(r)
      PROVE  RoomHandlerOK'
  <2>1. PICK k \in Slots : rslot' = [rslot EXCEPT ![r] = k]
    BY <1>3 DEF RoomFind, Visited
  <2> QED
    BY <1>0, <1>3, <2>1 DEF RoomHandlerOK, RoomFind
<1>4. ASSUME NEW r \in RoomIds, RoomLock(r)
      PROVE  RoomHandlerOK'
  BY <1>0, <1>4 DEF RoomHandlerOK, TableOK, RoomLock
<1>5. ASSUME NEW r \in RoomIds, RoomSpawn(r) \/ RoomSpawnFail(r)
      PROVE  RoomHandlerOK'
  BY <1>0, <1>5 DEF RoomHandlerOK, RoomSpawn, RoomSpawnFail
<1>6. CASE UNCHANGED rhVars
  BY <1>0, <1>6 DEF RoomHandlerOK, rhVars
<1> QED
  BY <1>1, <1>2, <1>3, <1>4, <1>5, <1>6, RoomFrame DEF RoomRuns

\* The variables of the socket_handlers keep their type.
LEMMA SocketHandlerOKStep ==
  ASSUME TypeOK, [Next]_vars
  PROVE  SocketHandlerOK'
<1>0. SocketHandlerOK /\ RoomHandlerOK
  BY DEF TypeOK
<1>1. ASSUME NEW r \in RoomIds, RoomSpawn(r)
      PROVE  SocketHandlerOK'
  BY <1>0, <1>1 DEF SocketHandlerOK, RoomSpawn
<1>2. ASSUME NEW t \in Threads, HandlerCopySock(t) \/ HandlerCopyNum(t)
      PROVE  SocketHandlerOK'
  BY <1>0, <1>2
  DEF SocketHandlerOK, RoomHandlerOK, HandlerCopySock, HandlerCopyNum
<1>3. ASSUME NEW t \in Threads,
             HandlerInit(t) \/ HandlerInitFail(t) \/ HandlerChat(t)
      PROVE  SocketHandlerOK'
  BY <1>0, <1>3 DEF SocketHandlerOK, HandlerInit, HandlerInitFail, HandlerChat
<1>4. ASSUME NEW t \in Threads, HandlerLog(t) \/ HandlerLogFail(t)
      PROVE  SocketHandlerOK'
  BY <1>0, <1>4 DEF SocketHandlerOK, HandlerLog, HandlerLogFail
<1>5. ASSUME NEW t \in Threads, HandlerReadError(t) \/ HandlerLeave(t)
      PROVE  SocketHandlerOK'
  BY <1>0, <1>5 DEF SocketHandlerOK, HandlerReadError, HandlerLeave
<1>6. CASE UNCHANGED hVars
  BY <1>0, <1>6 DEF SocketHandlerOK, hVars
<1> QED
  BY <1>1, <1>2, <1>3, <1>4, <1>5, <1>6, HandlerFrame
  DEF HandlerRuns, HandlerMayDo

\* The globals keep their type; room_count needs the owner of the mutex.
LEMMA GlobalsOKStep ==
  ASSUME TypeOK, MutexOwned, [Next]_vars
  PROVE  GlobalsOK'
<1>0. GlobalsOK /\ MainOK /\ RoomHandlerOK
  BY DEF TypeOK
<1>1. net' \in [Clients -> NetStates] /\ status' \in {"up", "sigpipe", "overrun"}
  <2>1. CASE \E n : Send(n)
    BY <1>0, <2>1, SendType
  <2>2. ASSUME NEW c \in Clients, Connect(c)
        PROVE  net' \in [Clients -> NetStates] /\ status' = status
    BY <1>0, <2>2 DEF GlobalsOK, NetStates, Connect
  <2>3. ASSUME NEW c \in Clients, NEW how \in Deaths, Die(c, how)
        PROVE  net' \in [Clients -> NetStates] /\ status' = status
    BY <1>0, <2>3, RoomsAssumption DEF GlobalsOK, NetStates, Die, RoomsAssumption
  <2>4. CASE net' = net /\ status' \in {status, "overrun"}
    BY <1>0, <2>4 DEF GlobalsOK
  <2>5. ASSUME NEW t \in Threads, HandlerReadError(t) \/ HandlerLeave(t)
        PROVE  net' \in [Clients -> NetStates] /\ status' \in {status, "overrun"}
    BY <1>0, <2>5
    DEF GlobalsOK, NetStates, HandlerReadError, HandlerLeave, AfterWrites,
        netVars
  <2>9. ASSUME NEW c \in Clients, NEW d \in Descriptors, Accept(c, d)
        PROVE  net' \in [Clients -> NetStates] /\ status' = status
    BY <1>0, <2>9 DEF GlobalsOK, NetStates, Accept, AfterWrites
  <2>6. CASE MainRuns \/ MainMayDo
    BY <1>0, <2>1, <2>4, <2>6, <2>9
    DEF GlobalsOK, MainRuns, MainMayDo, Login, Drop, Choose, MakeLock,
        MakeDbFail, MakeRefused, MakeRoom, MakeSpawn, MakeSpawnFail, EnterCount,
        EnterReply, EnterPlace, netVars
  <2>7. CASE \E r \in RoomIds : RoomRuns(r) \/ RoomSpawnFail(r)
    BY <2>1, <2>4, <2>7
    DEF RoomRuns, RoomStart, RoomFind, RoomLock, RoomSpawn, RoomSpawnFail,
        netVars
  <2>8. CASE \E t \in Threads : HandlerRuns(t) \/ HandlerMayDo(t)
    BY <1>0, <2>1, <2>4, <2>5, <2>8
    DEF GlobalsOK, HandlerRuns, HandlerMayDo, HandlerCopySock, HandlerCopyNum,
        HandlerInit, HandlerInitFail, HandlerChat, HandlerLog, HandlerLogFail,
        netVars
  <2> QED
    BY <1>0, <2>2, <2>3, <2>4, <2>6, <2>7, <2>8
    DEF GlobalsOK, Next, Environment, vars, netVars
<1>2. backlog' \subseteq Clients
  <2>1. CASE Environment
    BY <1>0, <2>1 DEF GlobalsOK, Environment, Connect, Die
  <2>2. CASE MainRuns \/ MainMayDo
    BY <1>0, <2>2
    DEF GlobalsOK, MainRuns, MainMayDo, Accept, Login, Drop, Choose, MakeLock,
        MakeDbFail, MakeRefused, MakeRoom, MakeSpawn, MakeSpawnFail, EnterCount,
        EnterReply, EnterPlace
  <2>3. CASE \E r \in RoomIds : RoomRuns(r) \/ RoomSpawnFail(r)
    BY <1>0, <2>3
    DEF GlobalsOK, RoomRuns, RoomStart, RoomFind, RoomLock, RoomSpawn,
        RoomSpawnFail
  <2>4. CASE \E t \in Threads : HandlerRuns(t) \/ HandlerMayDo(t)
    BY <1>0, <2>4
    DEF GlobalsOK, HandlerRuns, HandlerMayDo, HandlerCopySock, HandlerCopyNum,
        HandlerInit, HandlerInitFail, HandlerChat, HandlerLog, HandlerLogFail,
        HandlerReadError, HandlerLeave
  <2> QED
    BY <1>0, <2>1, <2>2, <2>3, <2>4 DEF GlobalsOK, Next, vars
<1>3. mutex' \in {"free", "main", "room", "client"}
  BY <1>0, MutexFrame
  DEF GlobalsOK, MakeLock, MakeRefused, MakeSpawn, RoomLock, RoomSpawn,
      HandlerLogFail
<1>4. room_count' \in -1 .. MEMBER_MAX
  <2>1. CASE MakeLock
    BY <1>0, <2>1, RoomsAssumption
    DEF RoomsAssumption, GlobalsOK, MutexOwned, MakeLock
  <2>2. CASE MakeRefused
    BY <1>0, <2>2, RoomsAssumption DEF RoomsAssumption, GlobalsOK, MakeRefused
  <2> QED
    BY <1>0, <2>1, <2>2, MutexFrame
    DEF GlobalsOK, MakeSpawn, RoomLock, RoomSpawn, HandlerLogFail
<1>5. failures' \in 0 .. MaxFailures
  BY <1>0, FailureFrame, RoomsAssumption DEF GlobalsOK, RoomsAssumption
<1>6. orderly' \in BOOLEAN
  BY <1>0, OrderFrame DEF GlobalsOK, EnterReply, HandlerLeave
<1>7. peer' \in [Descriptors -> Clients \cup {None}]
  BY <1>0, PeerFrame DEF GlobalsOK, Accept, HandlerLeave, netVars
<1>8. torn' \subseteq Threads /\ reused' \subseteq Descriptors
  BY <1>0, HistoryFrame
  DEF GlobalsOK, Accept, RoomLock, RoomSpawn, RoomSpawnFail, StillCopying
<1> QED
  BY <1>1, <1>2, <1>3, <1>4, <1>5, <1>6, <1>7, <1>8 DEF GlobalsOK

\* Only the owner of the mutex is in a critical section.
LEMMA MutexOwnedStep ==
  ASSUME TypeOK, MutexOwned, Opened, [Next]_vars
  PROVE  MutexOwned'
<1>0. /\ MutexOwned /\ Opened /\ GlobalsOK /\ RoomHandlerOK
      /\ MEMBER_MAX \in Nat \ {0}
  BY RoomsAssumption DEF TypeOK, RoomsAssumption
<1>1. CASE MakeLock
  BY <1>0, <1>1
  DEF GlobalsOK, RoomHandlerOK, MutexOwned, MakeLock, rhVars
<1>2. CASE MakeRefused
  BY <1>0, <1>2
  DEF GlobalsOK, RoomHandlerOK, MutexOwned, MakeRefused, MainAt, rhVars
<1>3. CASE MakeSpawn
  <2>1. mutex = "main" /\ room_count \in RoomIds
    BY <1>0, <1>3 DEF MutexOwned, Opened, MakeSpawn, MainAt
  <2>2. \A r \in RoomIds : rpc[r] # "locked" /\ rpc'[r] # "locked"
    BY <1>0, <1>3, <2>1 DEF RoomHandlerOK, MutexOwned, MakeSpawn
  <2> QED
    BY <1>0, <1>3, <2>1, <2>2 DEF MutexOwned, MakeSpawn, RoomIds
<1>4. ASSUME NEW r \in RoomIds, RoomLock(r)
      PROVE  MutexOwned'
  BY <1>0, <1>4 DEF RoomHandlerOK, MutexOwned, RoomLock, mainVars
<1>5. ASSUME NEW r \in RoomIds, RoomSpawn(r)
      PROVE  MutexOwned'
  BY <1>0, <1>5 DEF RoomHandlerOK, MutexOwned, RoomSpawn, RoomAt, mainVars
<1>6. ASSUME NEW t \in Threads, HandlerLogFail(t)
      PROVE  MutexOwned'
  BY <1>0, <1>6 DEF MutexOwned, HandlerLogFail, mainVars, rhVars
<1>7. CASE UNCHANGED <<mutex, room_count>>
  <2>1. \A r \in RoomIds : rpc'[r] = "locked" =>
          rpc[r] = "locked" \/ RoomLock(r)
    <3>1. ASSUME NEW q \in RoomIds, RoomStart(q) \/ RoomFind(q) \/ RoomSpawnFail(q)
          PROVE  \A r \in RoomIds : rpc'[r] = "locked" => rpc[r] = "locked"
      BY <1>0, <3>1 DEF RoomHandlerOK, RoomStart, RoomFind, RoomSpawnFail
    <3>2. ASSUME NEW q \in RoomIds, RoomLock(q) \/ RoomSpawn(q)
          PROVE  FALSE
      BY <1>0, <1>7, <3>2 DEF MutexOwned, RoomLock, RoomSpawn, RoomAt
    <3>3. CASE MakeSpawn
      BY <1>0, <1>7, <3>3 DEF MutexOwned, MakeSpawn, MainAt
    <3> QED
      BY <3>1, <3>2, <3>3, RoomFrame DEF RoomRuns, rhVars
  <2>2. \A r \in RoomIds : ~RoomLock(r)
    BY <1>7 DEF RoomLock
  <2>3. main' \in {"making", "spawn"} => main \in {"making", "spawn"}
    BY <1>0, <1>7, MainFrame
    DEF GlobalsOK, MutexOwned, Accept, Login, Drop, Choose, MakeLock, MakeDbFail,
        MakeRefused, MakeRoom, MakeSpawn, MakeSpawnFail, EnterCount, EnterReply,
        EnterPlace, MainAt, mainVars
  <2> QED
    BY <1>0, <1>7, <2>1, <2>2, <2>3 DEF MutexOwned
<1> QED
  BY <1>1, <1>2, <1>3, <1>4, <1>5, <1>6, <1>7, MutexFrame

\* Rooms are opened in order.
LEMMA OpenedStep ==
  ASSUME TypeOK, MutexOwned, RoomsOpenInOrder, Opened, [Next]_vars
  PROVE  RoomsOpenInOrder' /\ Opened'
<1>0. /\ MutexOwned /\ RoomsOpenInOrder /\ Opened
      /\ GlobalsOK /\ MainOK /\ TableOK /\ MEMBER_MAX \in Nat \ {0}
  BY RoomsAssumption DEF TypeOK, RoomsAssumption
<1>1. CASE Choose
  BY <1>0, <1>1 DEF GlobalsOK, MainOK, RoomsOpenInOrder, Opened, Choose, tableVars
<1>2. CASE MakeLock
  BY <1>0, <1>2
  DEF GlobalsOK, TableOK, RoomIds, RoomsOpenInOrder, Opened, MakeLock, tableVars
<1>3. CASE MakeRefused
  BY <1>0, <1>3
  DEF GlobalsOK, RoomIds, RoomsOpenInOrder, Opened, MutexOwned, MakeRefused,
      MainAt, tableVars
<1>4. CASE MakeRoom
  <2>1. /\ room_count \in RoomIds /\ mutex = "main"
        /\ roomnum[room_count] = -1
        /\ \A r \in RoomIds : r < room_count => roomnum[r] = r
    BY <1>0, <1>4 DEF GlobalsOK, RoomIds, MutexOwned, Opened, MakeRoom, MainAt
  <2>2. roomnum' = [roomnum EXCEPT ![room_count] = room_count]
    BY <1>4 DEF MakeRoom, NewRoomNumber
  <2>3. \A r \in RoomIds :
          roomnum'[r] = IF r = room_count THEN room_count ELSE roomnum[r]
    BY <1>0, <2>1, <2>2 DEF TableOK
  <2>4. main' = "spawn" /\ room_count' = room_count /\ mutex' = mutex
    BY <1>4 DEF MakeRoom
  <2> QED
    BY <1>0, <2>1, <2>3, <2>4 DEF RoomsOpenInOrder, Opened, RoomIds
<1>5. CASE MakeSpawn
  BY <1>0, <1>5
  DEF RoomIds, RoomsOpenInOrder, Opened, MakeSpawn, MainAt, tableVars
<1>6. CASE EnterCount
  BY <1>0, <1>6 DEF MainOK, RoomsOpenInOrder, Opened, EnterCount, MainAt
<1>7. CASE EnterReply \/ EnterPlace
  BY <1>0, <1>7
  DEF RoomsOpenInOrder, Opened, EnterReply, EnterPlace, MainAt, tableVars
<1>8. ASSUME UNCHANGED <<roomnum, room_count, mroom>>,
             mutex' = "main" \/ mutex # "main",
             main' = main \/ main' \in {"accept", "login", "choice", "make"}
      PROVE  RoomsOpenInOrder' /\ Opened'
  BY <1>0, <1>8 DEF RoomsOpenInOrder, Opened, MutexOwned
<1>9. ASSUME NEW c \in Clients, NEW d \in Descriptors, Accept(c, d)
      PROVE  RoomsOpenInOrder' /\ Opened'
  BY <1>8, <1>9 DEF Accept, tableVars
<1>10. CASE Login \/ Drop \/ MakeDbFail \/ MakeSpawnFail
  BY <1>8, <1>10
  DEF Login, Drop, MakeDbFail, MakeSpawnFail, MutexAfterFailedMake, tableVars
<1>11. CASE UNCHANGED mainVars
  <2>1. UNCHANGED <<roomnum, room_count>> /\ (mutex' = "main" \/ mutex # "main")
    <3>1. roomnum' = roomnum
      BY <1>11, TableFrame
      DEF MakeRoom, EnterCount, EnterPlace, RoomSpawn, HandlerLeave, MainAt,
          mainVars, tableVars
    <3>2. room_count' = room_count /\ (mutex' = "main" \/ mutex # "main")
      BY <1>0, <1>11, MutexFrame
      DEF MutexOwned, MakeLock, MakeRefused, MakeSpawn, RoomLock, RoomSpawn,
          RoomAt, HandlerLogFail, MainAt, mainVars
    <3> QED
      BY <3>1, <3>2
  <2> QED
    BY <1>8, <1>11, <2>1 DEF mainVars
<1> QED
  BY <1>1, <1>2, <1>3, <1>4, <1>5, <1>6, <1>7, <1>9, <1>10, <1>11, MainFrame

\* The mutex leaks only for a cause.
LEMMA MutexLeakStep ==
  ASSUME TypeOK, MutexOwned, RoomsOpenInOrder, Opened, MutexLeakHasCause,
         [Next]_vars
  PROVE  MutexLeakHasCause'
<1>0. /\ MutexOwned /\ RoomsOpenInOrder /\ Opened /\ MutexLeakHasCause
      /\ GlobalsOK /\ RoomHandlerOK /\ TableOK /\ MaxFailures \in Nat
      /\ MEMBER_MAX \in Nat \ {0}
  BY RoomsAssumption DEF TypeOK, RoomsAssumption
<1>1. CASE failures > 0 \/ failures' # failures
  <2>1. failures' > 0
    BY <1>0, <1>1, FailureFrame DEF GlobalsOK
  <2> QED
    BY <2>1 DEF MutexLeakHasCause
<1>2. CASE failures = 0 /\ failures' = failures
  <2>1. CASE MakeLock
    BY <2>1 DEF MutexLeakHasCause, MakeLock
  <2>2. CASE MakeRefused
    BY <1>0, <2>2
    DEF GlobalsOK, RoomIds, Opened, MutexLeakHasCause, MakeRefused, MainAt,
        tableVars
  <2>3. CASE MakeRoom
    BY <1>0, <2>3 DEF MutexOwned, MutexLeakHasCause, MakeRoom, MainAt
  <2>4. CASE MakeSpawn
    BY <2>4 DEF MutexLeakHasCause, MakeSpawn
  <2>5. ASSUME NEW r \in RoomIds, RoomLock(r)
        PROVE  MutexLeakHasCause'
    BY <1>0, <2>5 DEF RoomHandlerOK, MutexLeakHasCause, RoomLock
  <2>6. ASSUME NEW r \in RoomIds, RoomSpawn(r)
        PROVE  MutexLeakHasCause'
    BY <2>6 DEF MutexLeakHasCause, RoomSpawn
  <2>7. ASSUME UNCHANGED <<mutex, room_count, roomnum>>,
               mutex = "main" /\ main \in {"making", "spawn"}
                 => main' \in {"making", "spawn"},
               \A r \in RoomIds : rpc[r] = "locked" => rpc'[r] = "locked"
        PROVE  MutexLeakHasCause'
    BY <1>0, <1>2, <2>7 DEF GlobalsOK, MutexLeakHasCause
  <2>8. CASE /\ ~MakeLock /\ ~MakeRefused /\ ~MakeRoom /\ ~MakeSpawn
             /\ \A r \in RoomIds : ~RoomLock(r) /\ ~RoomSpawn(r)
    <3>1. UNCHANGED <<mutex, room_count>>
      BY <1>0, <1>2, <2>8, MutexFrame DEF GlobalsOK, HandlerLogFail
    <3>2. roomnum' = roomnum
      BY <2>8, TableFrame DEF EnterCount, EnterPlace, HandlerLeave, tableVars
    <3>3. main \in {"making", "spawn"} => main' \in {"making", "spawn"}
      <4>1. ~MakeDbFail /\ ~MakeSpawnFail
        BY <1>0, <1>2 DEF GlobalsOK, MakeDbFail, MakeSpawnFail
      <4>2. \/ main' = main
            \/ main \notin {"making", "spawn"}
        BY <2>8, <4>1, MainFrame
        DEF Accept, Login, Drop, Choose, EnterCount, EnterReply, EnterPlace,
            MainAt, mainVars
      <4> QED
        BY <4>2
    <3>4. \A r \in RoomIds : rpc[r] = "locked" => rpc'[r] = "locked"
      <4>1. ASSUME NEW q \in RoomIds, RoomStart(q) \/ RoomFind(q)
            PROVE  \A r \in RoomIds : rpc[r] = "locked" => rpc'[r] = "locked"
        BY <1>0, <4>1 DEF RoomHandlerOK, RoomStart, RoomFind, RoomAt
      <4>2. \A q \in RoomIds : ~RoomSpawnFail(q)
        BY <1>0, <1>2 DEF GlobalsOK, RoomSpawnFail
      <4> QED
        BY <2>8, <4>1, <4>2, RoomFrame DEF RoomRuns, rhVars
    <3> QED
      BY <2>7, <3>1, <3>2, <3>3, <3>4
  <2> QED
    BY <2>1, <2>2, <2>3, <2>4, <2>5, <2>6, <2>8
<1> QED
  BY <1>0, <1>1, <1>2 DEF GlobalsOK

\* Only accept() starts to deal with a client.
LEMMA DecidingStep ==
  ASSUME [Next]_vars, Deciding',
         \A c \in Clients, d \in Descriptors : ~Accept(c, d)
  PROVE  Deciding /\ cur' = cur /\ user' = user
BY MainFrame
DEF Deciding, Login, Drop, Choose, MakeLock, MakeDbFail, MakeRefused, MakeRoom,
    MakeSpawn, MakeSpawnFail, EnterCount, EnterReply, EnterPlace, MainAt,
    mainVars

\* main() stores its client in slot k of room r.
Placing(r, k) ==
  \/ MakeRoom /\ r = room_count /\ k = count[r] + 1
  \/ EnterPlace /\ r = mroom /\ k = EnterSlot /\ k \in Slots

\* A step keeps a slot, empties it, or stores the client of main() in it.
LEMMA SlotChange ==
  ASSUME TypeOK, [Next]_vars, NEW r \in RoomIds, NEW k \in Slots
  PROVE  \/ clnt_socks'[r][k] = clnt_socks[r][k]
         \/ clnt_socks'[r][k] = None
         \/ Placing(r, k) /\ clnt_socks'[r][k] = cur
<1>0. TableOK
  BY DEF TypeOK
<1>1. CASE MakeRoom
  <2>1. clnt_socks' = [clnt_socks EXCEPT ![room_count][count[room_count] + 1] = cur]
    BY <1>1 DEF MakeRoom
  <2> QED
    BY <1>0, <1>1, <2>1 DEF TableOK, Placing
<1>2. CASE EnterPlace
  <2>1. CASE EnterSlot \in Slots
    <3>1. clnt_socks' = [clnt_socks EXCEPT ![mroom][EnterSlot] = cur]
      BY <1>2, <2>1 DEF EnterPlace
    <3> QED
      BY <1>0, <1>2, <2>1, <3>1 DEF TableOK, Placing
  <2> QED
    BY <1>2, <2>1 DEF EnterPlace
<1>3. ASSUME NEW t \in Threads, HandlerLeave(t)
      PROVE  \/ clnt_socks'[r][k] = clnt_socks[r][k]
             \/ clnt_socks'[r][k] = None
  <2>1. clnt_socks' = [clnt_socks EXCEPT ![HandlerRoom(t)][hnum[t]] = None]
    BY <1>3 DEF HandlerLeave
  <2> QED
    BY <1>0, <2>1 DEF TableOK
<1> QED
  BY <1>1, <1>2, <1>3, TableFrame DEF EnterCount, RoomSpawn, tableVars

\* main() is done with the client that it stores; nothing else happens to the
\* thread records or to the descriptors.
LEMMA PlacingCur ==
  ASSUME TypeOK, Unplaced, NEW r, NEW k, Placing(r, k)
  PROVE  /\ cur \in Descriptors /\ user # None /\ peer[cur] \in {user, None}
         /\ InUse(cur) => cur \in reused
         /\ Deciding /\ ~Deciding'
         /\ UNCHANGED <<peer, reused>>
<1>1. Deciding /\ ~Deciding'
  BY DEF Placing, Deciding, MakeRoom, EnterPlace, MainAt
<1>2. UNCHANGED <<peer, reused>>
  BY DEF Placing, MakeRoom, EnterPlace, netVars, historyVars
<1> QED
  BY <1>1, <1>2 DEF Unplaced

\* A room_handler that runs keeps the room it watches.
LEMMA RoomHandlerKept ==
  ASSUME TypeOK, Opened, Watched, [Next]_vars,
         NEW r \in RoomIds, rpc[r] \notin {"none", "start"}
  PROVE  rpc'[r] \notin {"none", "start"} /\ rroom'[r] = rroom[r]
<1>0. RoomHandlerOK /\ Opened /\ Watched
  BY DEF TypeOK
<1>1. CASE MakeSpawn
  BY <1>0, <1>1 DEF RoomHandlerOK, Opened, Watched, MakeSpawn, MainAt
<1>2. ASSUME NEW q \in RoomIds, RoomStart(q) \/ RoomFind(q) \/ RoomLock(q)
      PROVE  rpc'[r] \notin {"none", "start"} /\ rroom'[r] = rroom[r]
  BY <1>0, <1>2 DEF RoomHandlerOK, RoomStart, RoomFind, RoomLock, RoomAt
<1>3. ASSUME NEW q \in RoomIds, RoomSpawn(q) \/ RoomSpawnFail(q)
      PROVE  rpc'[r] \notin {"none", "start"} /\ rroom'[r] = rroom[r]
  BY <1>0, <1>3 DEF RoomHandlerOK, RoomSpawn, RoomSpawnFail
<1> QED
  BY <1>1, <1>2, <1>3, RoomFrame DEF RoomRuns, rhVars

\* An Info record changes only by a copy of the slot it is for.
LEMMA InfoChange ==
  ASSUME TypeOK, [Next]_vars, NEW q \in RoomIds
  PROVE  \/ info_sock'[q] = info_sock[q]
         \/ /\ info_sock'[q] = clnt_socks[rroom[q]][rslot[q]]
            /\ rroom'[q] = rroom[q] /\ clnt_socks' = clnt_socks
            /\ rpc'[q] = "locked"
<1>0. RoomHandlerOK
  BY DEF TypeOK
<1>1. ASSUME NEW r \in RoomIds, RoomLock(r)
      PROVE  \/ info_sock'[q] = info_sock[q]
             \/ /\ info_sock'[q] = clnt_socks[rroom[q]][rslot[q]]
                /\ rroom'[q] = rroom[q] /\ clnt_socks' = clnt_socks
                /\ rpc'[q] = "locked"
  BY <1>0, <1>1 DEF RoomHandlerOK, RoomLock, tableVars
<1> QED
  BY <1>1, RoomFrame
  DEF MakeSpawn, RoomRuns, RoomStart, RoomFind, RoomSpawn, RoomSpawnFail, rhVars

\* A socket_handler takes its socket from the Info record of its creator.
LEMMA HandlerChange ==
  ASSUME TypeOK, [Next]_vars, NEW t \in Threads
  PROVE  /\ \/ hsock'[t] = hsock[t]
            \/ /\ hsock'[t] = info_sock[hrh[t]] /\ clnt_socks' = clnt_socks
               /\ hpc[t] = "start"
         /\ hpc[t] # "unborn" => hpc'[t] # "unborn" /\ hrh'[t] = hrh[t]
         /\ hpc'[t] = "unborn" => hpc[t] = "unborn"
         /\ hpc[t] = "unborn" => hsock'[t] = hsock[t]
         /\ hpc[t] = "unborn" /\ hpc'[t] # "unborn" =>
              \E r \in RoomIds : hrh'[t] = r /\ rpc'[r] = "scan"
<1>0. SocketHandlerOK /\ RoomHandlerOK
  BY DEF TypeOK
<1> DEFINE Goal == 
         /\ \/ hsock'[t] = hsock[t]
            \/ /\ hsock'[t] = info_sock[hrh[t]] /\ clnt_socks' = clnt_socks
               /\ hpc[t] = "start"
         /\ hpc[t] # "unborn" => hpc'[t] # "unborn" /\ hrh'[t] = hrh[t]
         /\ hpc'[t] = "unborn" => hpc[t] = "unborn"
         /\ hpc[t] = "unborn" => hsock'[t] = hsock[t]
         /\ hpc[t] = "unborn" /\ hpc'[t] # "unborn" =>
              \E r \in RoomIds : hrh'[t] = r /\ rpc'[r] = "scan"
<1>1. ASSUME NEW r \in RoomIds, RoomSpawn(r)
      PROVE  Goal
  <2>1. PICK u \in Threads : /\ hpc[u] = "unborn"
                             /\ hpc' = [hpc EXCEPT ![u] = "start"]
                             /\ hrh' = [hrh EXCEPT ![u] = r]
    BY <1>1 DEF RoomSpawn
  <2>2. rpc'[r] = "scan" /\ hsock' = hsock
    BY <1>0, <1>1 DEF RoomHandlerOK, RoomSpawn
  <2> QED
    BY <1>0, <2>1, <2>2 DEF SocketHandlerOK
<1>2. ASSUME NEW u \in Threads, HandlerCopySock(u)
      PROVE  Goal
  BY <1>0, <1>2 DEF SocketHandlerOK, HandlerCopySock, HandlerAt, tableVars
<1>3. ASSUME NEW u \in Threads,
             \/ HandlerCopyNum(u) \/ HandlerInit(u) \/ HandlerInitFail(u)
             \/ HandlerChat(u) \/ HandlerLog(u) \/ HandlerLogFail(u)
             \/ HandlerReadError(u) \/ HandlerLeave(u)
      PROVE  Goal
  <2>1. /\ hsock' = hsock /\ hrh' = hrh /\ hpc[u] # "unborn"
        /\ \E pc : pc # "unborn" /\ hpc' = [hpc EXCEPT ![u] = pc]
    BY <1>3
    DEF HandlerCopyNum, HandlerInit, HandlerInitFail, HandlerChat, HandlerLog,
        HandlerLogFail, HandlerReadError, HandlerLeave, HandlerAt
  <2> QED
    BY <1>0, <2>1 DEF SocketHandlerOK
<1>4. CASE UNCHANGED hVars
  BY <1>4 DEF hVars
<1>5. Goal
  BY <1>1, <1>2, <1>3, <1>4, HandlerFrame DEF HandlerRuns, HandlerMayDo
<1> QED
  BY <1>5

\* A thread that refers to a descriptor did so before, or copies it now.
LEMMA ServingStep ==
  ASSUME TypeOK, [Next]_vars, NEW t \in Threads, Serving(t)'
  PROVE  \/ Serving(t) /\ hsock'[t] = hsock[t]
         \/ /\ hpc[t] = "start" /\ hsock'[t] = info_sock[hrh[t]]
            /\ clnt_socks' = clnt_socks
<1>0. SocketHandlerOK
  BY DEF TypeOK
<1>1. ASSUME NEW r \in RoomIds, RoomSpawn(r)
      PROVE  Serving(t) /\ hsock' = hsock
  BY <1>0, <1>1 DEF SocketHandlerOK, RoomSpawn, Serving
<1>2. ASSUME NEW u \in Threads, HandlerCopySock(u)
      PROVE  \/ Serving(t) /\ hsock'[t] = hsock[t]
             \/ /\ hpc[t] = "start" /\ hsock'[t] = info_sock[hrh[t]]
                /\ clnt_socks' = clnt_socks
  BY <1>0, <1>2
  DEF SocketHandlerOK, HandlerCopySock, HandlerAt, Serving, tableVars
<1>3. ASSUME NEW u \in Threads,
             \/ HandlerCopyNum(u) \/ HandlerInit(u) \/ HandlerInitFail(u)
             \/ HandlerChat(u) \/ HandlerLog(u) \/ HandlerLogFail(u)
             \/ HandlerReadError(u) \/ HandlerLeave(u)
      PROVE  Serving(t) /\ hsock' = hsock
  <2>1. hsock' = hsock /\ Serving(u)
    BY <1>3
    DEF HandlerCopyNum, HandlerInit, HandlerInitFail, HandlerChat, HandlerLog,
        HandlerLogFail, HandlerReadError, HandlerLeave, HandlerAt, Serving
  <2>2. hpc'[t] = hpc[t] \/ t = u
    BY <1>0, <1>3
    DEF SocketHandlerOK, HandlerCopyNum, HandlerInit, HandlerInitFail,
        HandlerChat, HandlerLog, HandlerLogFail, HandlerReadError, HandlerLeave
  <2> QED
    BY <2>1, <2>2 DEF Serving
<1>4. CASE UNCHANGED hVars
  BY <1>4 DEF hVars, Serving
<1> QED
  BY <1>1, <1>2, <1>3, <1>4, HandlerFrame DEF HandlerRuns, HandlerMayDo

\* An Info that a thread will read was so before, or is written now.
LEMMA ToReadStep ==
  ASSUME TypeOK, [Next]_vars, NEW q \in RoomIds, ToRead(q)'
  PROVE  \/ info_sock'[q] = info_sock[q] /\ ToRead(q)
         \/ /\ info_sock'[q] = clnt_socks[rroom[q]][rslot[q]]
            /\ rroom'[q] = rroom[q] /\ clnt_socks' = clnt_socks
<1>0. RoomHandlerOK /\ SocketHandlerOK
  BY DEF TypeOK
<1>1. CASE RoomLock(q)
  BY <1>0, <1>1 DEF RoomHandlerOK, RoomLock, tableVars
<1>2. CASE ~RoomLock(q)
  <2>1. info_sock'[q] = info_sock[q] /\ (rpc'[q] = "locked" => rpc[q] = "locked")
    BY <1>0, <1>2, RoomFrame
    DEF RoomHandlerOK, MakeSpawn, RoomRuns, RoomStart, RoomFind, RoomLock,
        RoomSpawn, RoomSpawnFail, rhVars
  <2>2. ASSUME NEW t \in Threads, hpc'[t] = "start", hrh'[t] = q
        PROVE  ToRead(q)
    <3>1. ASSUME NEW r \in RoomIds, RoomSpawn(r)
          PROVE  ToRead(q)
      <4>1. PICK u \in Threads : /\ hpc' = [hpc EXCEPT ![u] = "start"]
                                 /\ hrh' = [hrh EXCEPT ![u] = r]
        BY <3>1 DEF RoomSpawn
      <4>2. CASE t = u
        BY <1>0, <2>2, <3>1, <4>1, <4>2 DEF SocketHandlerOK, RoomSpawn, RoomAt, ToRead
      <4>3. CASE t # u
        BY <1>0, <2>2, <4>1, <4>3 DEF SocketHandlerOK, ToRead
      <4> QED
        BY <4>2, <4>3
    <3>2. ASSUME NEW u \in Threads, HandlerRuns(u) \/ HandlerMayDo(u)
          PROVE  ToRead(q)
      <4>1. hrh' = hrh /\ hpc[t] = "start"
        BY <1>0, <2>2, <3>2
        DEF SocketHandlerOK, HandlerRuns, HandlerMayDo, HandlerCopySock,
            HandlerCopyNum, HandlerInit, HandlerInitFail, HandlerChat, HandlerLog,
            HandlerLogFail, HandlerReadError, HandlerLeave
      <4> QED
        BY <2>2, <4>1 DEF ToRead
    <3>3. CASE UNCHANGED hVars
      BY <2>2, <3>3 DEF hVars, ToRead
    <3> QED
      BY <3>1, <3>2, <3>3, HandlerFrame
  <2> QED
    BY <2>1, <2>2 DEF ToRead
<1> QED
  BY <1>1, <1>2

\* Room handlers run only for open rooms, threads only for them.
LEMMA WatchedStep ==
  ASSUME TypeOK, RoomsOpenInOrder, MutexOwned, Opened, Watched, [Next]_vars
  PROVE  Watched'
<1>0. /\ RoomsOpenInOrder /\ MutexOwned /\ Opened /\ Watched
      /\ GlobalsOK /\ TableOK /\ RoomHandlerOK /\ SocketHandlerOK
      /\ MEMBER_MAX \in Nat \ {0}
  BY RoomsAssumption DEF TypeOK, RoomsAssumption
<1>1. ASSUME NEW r \in RoomIds, roomnum'[r] = -1
      PROVE  rpc'[r] = "none" /\ roomnum[r] = -1
  <2>1. roomnum[r] = -1
    <3>1. CASE MakeRoom
      <4>1. roomnum' = [roomnum EXCEPT ![room_count] = room_count]
        BY <3>1 DEF MakeRoom, NewRoomNumber
      <4>2. r # -1
        BY <1>0 DEF RoomIds
      <4> QED
        BY <1>0, <1>1, <4>1, <4>2 DEF TableOK
    <3>2. roomnum' = roomnum \/ MakeRoom
      BY TableFrame DEF EnterCount, EnterPlace, RoomSpawn, HandlerLeave, tableVars
    <3> QED
      BY <1>1, <3>1, <3>2
  <2>2. rpc[r] = "none"
    BY <1>0, <2>1 DEF Watched
  <2>3. CASE MakeSpawn
    <3>1. r # room_count
      BY <1>0, <2>1, <2>3 DEF RoomIds, Opened, MakeSpawn, MainAt
    <3>2. rpc' = [rpc EXCEPT ![room_count] = "start"]
      BY <2>3 DEF MakeSpawn
    <3> QED
      BY <1>0, <2>1, <2>2, <3>1, <3>2 DEF RoomHandlerOK
  <2> QED
    BY <1>0, <2>1, <2>2, <2>3, RoomFrame
    DEF RoomHandlerOK, RoomRuns, RoomStart, RoomFind, RoomLock, RoomSpawn,
        RoomSpawnFail, RoomAt, rhVars
<1>2. ASSUME main' = "spawn"
      PROVE  rpc'[room_count'] = "none"
  <2>1. CASE MakeRoom
    <3>1. room_count \in RoomIds
      BY <1>0, <2>1 DEF GlobalsOK, RoomIds, Opened, MakeRoom, MainAt
    <3>2. rpc[room_count] = "none"
      BY <1>0, <2>1, <3>1 DEF Opened, Watched, MakeRoom, MainAt
    <3> QED
      BY <2>1, <3>2 DEF MakeRoom, rhVars
  <2>2. CASE main = "spawn" /\ UNCHANGED mainVars
    <3>1. room_count \in RoomIds /\ rpc[room_count] = "none"
      BY <1>0, <2>2 DEF Opened, Watched
    <3>2. room_count' = room_count
      BY <2>2, MutexFrame
      DEF MakeLock, MakeRefused, MakeSpawn, RoomLock, RoomSpawn, HandlerLogFail,
          MainAt, mainVars
    <3> QED
      BY <1>0, <2>2, <3>1, <3>2, RoomFrame
      DEF RoomHandlerOK, MakeSpawn, RoomRuns, RoomStart, RoomFind, RoomLock,
          RoomSpawn, RoomSpawnFail, RoomAt, rhVars, mainVars
  <2> QED
    BY <1>2, <2>1, <2>2, MainFrame
    DEF Accept, Login, Drop, Choose, MakeLock, MakeDbFail, MakeRefused,
        MakeSpawn, MakeSpawnFail, EnterCount, EnterReply, EnterPlace, MainAt,
        mainVars
<1>3. ASSUME NEW r \in RoomIds, rpc'[r] \in {"none", "start"}
      PROVE  info_sock'[r] = None
  <2>1. rpc[r] \in {"none", "start"}
    BY <1>0, <1>3, RoomHandlerKept DEF TypeOK
  <2> QED
    BY <1>0, <1>3, <2>1, InfoChange DEF Watched
<1>4. ASSUME NEW t \in Threads
      PROVE  /\ hpc'[t] = "unborn" => hsock'[t] = None
             /\ hpc'[t] # "unborn" => rpc'[hrh'[t]] \notin {"none", "start"}
  <2>1. hrh[t] \in RoomIds
    BY <1>0 DEF SocketHandlerOK
  <2> QED
    BY <1>0, <2>1, HandlerChange, RoomHandlerKept DEF Watched
<1> QED
  BY <1>1, <1>2, <1>3, <1>4 DEF Watched

\* What an Info or a thread refers to after a step, something referred to before;
\* main() alone brings a descriptor into use.
LEMMA UseStep ==
  ASSUME TypeOK, Watched, [Next]_vars, NEW d \in Descriptors, InUse(d)'
  PROVE  \/ InUse(d)
         \/ \E r \in RoomIds, k \in Slots : Placing(r, k) /\ d = cur
<1>0. /\ TableOK /\ RoomHandlerOK /\ SocketHandlerOK /\ Watched
      /\ None \notin Descriptors
  BY RoomsAssumption DEF TypeOK, RoomsAssumption
<1>1. ASSUME NEW r \in RoomIds, NEW k \in Slots, clnt_socks'[r][k] = d
      PROVE  InUse(d) \/ (Placing(r, k) /\ d = cur)
  BY <1>0, <1>1, SlotChange DEF InUse
<1>2. ASSUME NEW q \in RoomIds, ToRead(q)', info_sock'[q] = d
      PROVE  InUse(d)
  <2>1. CASE info_sock'[q] = clnt_socks[rroom[q]][rslot[q]]
    BY <1>0, <1>2, <2>1 DEF RoomHandlerOK, InUse
  <2>2. CASE info_sock'[q] = info_sock[q] /\ ToRead(q)
    BY <1>2, <2>2 DEF InUse
  <2> QED
    BY <1>2, <2>1, <2>2, ToReadStep
<1>3. ASSUME NEW t \in Threads, Serving(t)', hsock'[t] = d
      PROVE  InUse(d)
  <2>1. hrh[t] \in RoomIds
    BY <1>0 DEF SocketHandlerOK
  <2>2. CASE Serving(t) /\ hsock'[t] = hsock[t]
    BY <1>3, <2>2 DEF InUse
  <2>3. CASE hpc[t] = "start" /\ hsock'[t] = info_sock[hrh[t]]
    BY <1>3, <2>1, <2>3 DEF InUse, ToRead
  <2> QED
    BY <1>3, <2>2, <2>3, ServingStep
<1> QED
  BY <1>1, <1>2, <1>3 DEF InUse

\* The descriptor main() deals with is in use only if it was returned again.
LEMMA UnplacedStep ==
  ASSUME TypeOK, Watched, Unplaced, [Next]_vars
  PROVE  Unplaced'
<1>0. GlobalsOK /\ Unplaced /\ None \notin Clients
  BY RoomsAssumption DEF TypeOK, RoomsAssumption
<1>1. ASSUME NEW c \in Clients, NEW d \in Descriptors, Accept(c, d)
      PROVE  Unplaced'
  <2>1. cur' = d /\ user' = c /\ peer'[d] = c
    BY <1>0, <1>1 DEF GlobalsOK, Accept
  <2>2. InUse(d)' <=> InUse(d)
    BY <1>1 DEF Accept, InUse, ToRead, Serving, tableVars, rhVars, hVars
  <2>3. InUse(d) => d \in reused'
    BY <1>1 DEF Accept
  <2>4. InUse(cur)' => cur' \in reused'
    <3>1. InUse(cur)' <=> InUse(d)'
      BY <2>1 DEF InUse
    <3> QED
      BY <2>1, <2>2, <2>3, <3>1
  <2> QED
    BY <1>0, <2>1, <2>4 DEF Unplaced
<1>2. CASE \A c \in Clients, d \in Descriptors : ~Accept(c, d)
  <2>1. SUFFICES ASSUME Deciding'
                 PROVE  /\ cur' \in Descriptors /\ user' # None
                        /\ peer'[cur'] \in {user', None}
                        /\ InUse(cur)' => cur' \in reused'
    BY DEF Unplaced
  <2>2. Deciding /\ cur' = cur /\ user' = user
    BY <1>2, <2>1, DecidingStep
  <2>3. cur \in Descriptors /\ user # None /\ peer[cur] \in {user, None}
    BY <1>0, <2>2 DEF Unplaced
  <2>4. peer'[cur] \in {user, None}
    <3>1. ASSUME NEW t \in Threads, HandlerLeave(t)
          PROVE  peer'[cur] \in {user, None}
      <4>1. peer' = peer \/ peer' = [peer EXCEPT ![hsock[t]] = None]
        BY <3>1 DEF HandlerLeave, netVars
      <4> QED
        BY <1>0, <2>3, <4>1 DEF GlobalsOK
    <3> QED
      BY <1>2, <2>3, <3>1, PeerFrame
  <2>5. ASSUME InUse(cur)'
        PROVE  cur' \in reused'
    <3>2. \A r \in RoomIds, k \in Slots : ~Placing(r, k)
      BY <2>1, PlacingCur
    <3>3. InUse(cur)
      <4>1. ASSUME NEW d \in Descriptors, d = cur
            PROVE  InUse(d)
        <5>1. InUse(d)'
          BY <2>2, <2>5, <4>1 DEF InUse
        <5> QED
          BY <3>2, <5>1, UseStep
      <4> QED
        BY <2>3, <4>1
    <3> QED
      BY <1>0, <2>2, <3>3, HistoryGrows DEF Unplaced
  <2> QED
    BY <2>2, <2>3, <2>4, <2>5
<1> QED
  BY <1>1, <1>2

\* Outside the descriptors in reused, no client gets a second slot.
LEMMA OneSlotStep ==
  ASSUME TypeOK, Unplaced, OneSlotPerClient, [Next]_vars
  PROVE  OneSlotPerClient'
<1>0. None \notin Descriptors
  BY RoomsAssumption DEF RoomsAssumption
<1>1. SUFFICES ASSUME NEW r \in RoomIds, NEW q \in RoomIds,
                      NEW j \in Slots, NEW k \in Slots,
                      clnt_socks'[r][j] = clnt_socks'[q][k],
                      clnt_socks'[r][j] \in Descriptors \ reused'
               PROVE  r = q /\ j = k
  BY DEF OneSlotPerClient
<1>2. clnt_socks'[r][j] \notin reused
  BY <1>1, HistoryGrows
<1>3. CASE clnt_socks'[r][j] = clnt_socks[r][j] /\ clnt_socks'[q][k] = clnt_socks[q][k]
  BY <1>1, <1>2, <1>3 DEF OneSlotPerClient
<1>4. CASE Placing(r, j) /\ clnt_socks'[r][j] = cur /\ clnt_socks'[q][k] = clnt_socks[q][k]
  BY <1>1, <1>2, <1>4, PlacingCur DEF InUse
<1>5. CASE Placing(q, k) /\ clnt_socks'[q][k] = cur /\ clnt_socks'[r][j] = clnt_socks[r][j]
  BY <1>1, <1>2, <1>5, PlacingCur DEF InUse
<1>6. CASE Placing(r, j) /\ Placing(q, k)
  BY <1>6 DEF Placing, MakeRoom, EnterPlace, MainAt
<1> QED
  BY <1>0, <1>1, <1>3, <1>4, <1>5, <1>6, SlotChange

\* A descriptor that is in use, and not one of those in reused, is not stored.
LEMMA UsedNotPlaced ==
  ASSUME TypeOK, Unplaced, [Next]_vars, NEW d \in Descriptors,
         InUse(d), d \notin reused', NEW r \in RoomIds, NEW k \in Slots
  PROVE  clnt_socks'[r][k] = d => clnt_socks[r][k] = d
<1>1. d \notin reused /\ d # None
  BY HistoryGrows, RoomsAssumption DEF RoomsAssumption
<1>2. Placing(r, k) => cur # d
  BY <1>1, PlacingCur
<1> QED
  BY <1>1, <1>2, SlotChange

\* Outside the descriptors in reused, no thread serves a client of another room.
LEMMA NoCrossStep ==
  ASSUME TypeOK, Unplaced, Opened, Watched, NoCrossRoomService,
         InfoFromRoom, [Next]_vars
  PROVE  /\ NoCrossRoomService'
         /\ \A q \in RoomIds :
              (ToRead(q)' /\ info_sock'[q] \in Descriptors \ reused') =>
                \A r \in RoomIds \ {rroom'[q]}, k \in Slots :
                  clnt_socks'[r][k] # info_sock'[q]
<1>0. /\ TableOK /\ RoomHandlerOK /\ SocketHandlerOK /\ Watched
      /\ OneSlotPerClient /\ NoCrossRoomService /\ InfoFromRoom
      /\ None \notin Descriptors
  BY RoomsAssumption DEF TypeOK, NoCrossRoomService, RoomsAssumption
<1>1. OneSlotPerClient'
  BY <1>0, OneSlotStep
<1>2. ASSUME NEW t \in Threads, Serving(t)',
             hsock'[t] \in Descriptors, hsock'[t] \notin reused',
             NEW r \in RoomIds, r # HandlerRoom(t)', NEW k \in Slots
      PROVE  clnt_socks'[r][k] # hsock'[t]
  <2>1. hrh[t] \in RoomIds /\ hsock'[t] \notin reused
    BY <1>0, <1>2, HistoryGrows DEF SocketHandlerOK
  <2>2. CASE Serving(t) /\ hsock'[t] = hsock[t]
    <3>1. hpc[t] # "unborn"
      BY <2>2 DEF Serving
    <3>2. hrh'[t] = hrh[t] /\ rroom'[hrh[t]] = rroom[hrh[t]]
      BY <1>0, <2>1, <3>1, HandlerChange, RoomHandlerKept DEF Watched
    <3>3. clnt_socks[r][k] # hsock[t]
      BY <1>0, <1>2, <2>1, <2>2, <3>2 DEF NoCrossRoomService, HandlerRoom
    <3>4. InUse(hsock[t])
      BY <2>2 DEF InUse
    <3> QED
      BY <1>2, <2>2, <3>3, <3>4, UsedNotPlaced
  <2>3. CASE /\ hsock'[t] = info_sock[hrh[t]] /\ clnt_socks' = clnt_socks
             /\ hpc[t] = "start"
    <3>1. hrh'[t] = hrh[t] /\ rroom'[hrh[t]] = rroom[hrh[t]]
      BY <1>0, <2>1, <2>3, HandlerChange, RoomHandlerKept DEF Watched
    <3>2. ToRead(hrh[t])
      BY <2>3 DEF ToRead
    <3> QED
      BY <1>0, <1>2, <2>1, <2>3, <3>1, <3>2 DEF InfoFromRoom, HandlerRoom
  <2> QED
    BY <1>2, <2>2, <2>3, ServingStep
<1>3. ASSUME NEW q \in RoomIds, ToRead(q)',
             info_sock'[q] \in Descriptors, info_sock'[q] \notin reused',
             NEW r \in RoomIds, r # rroom'[q], NEW k \in Slots
      PROVE  clnt_socks'[r][k] # info_sock'[q]
  <2>0. info_sock'[q] \notin reused
    BY <1>3, HistoryGrows
  <2>1. CASE info_sock'[q] = info_sock[q] /\ ToRead(q)
    <3>1. rpc[q] \notin {"none", "start"}
      BY <1>0, <2>1 DEF Watched, ToRead
    <3>2. rroom'[q] = rroom[q]
      BY <3>1, RoomHandlerKept
    <3>3. clnt_socks[r][k] # info_sock[q]
      BY <1>0, <1>3, <2>0, <2>1, <3>2 DEF InfoFromRoom
    <3>4. InUse(info_sock[q])
      BY <2>1 DEF InUse
    <3> QED
      BY <1>3, <2>1, <3>3, <3>4, UsedNotPlaced
  <2>2. CASE /\ info_sock'[q] = clnt_socks[rroom[q]][rslot[q]]
             /\ rroom'[q] = rroom[q] /\ clnt_socks' = clnt_socks
    <3>1. rroom[q] \in RoomIds /\ rslot[q] \in Slots
      BY <1>0 DEF RoomHandlerOK
    <3> QED
      BY <1>0, <1>3, <2>0, <2>2, <3>1 DEF OneSlotPerClient
  <2> QED
    BY <1>3, <2>1, <2>2, ToReadStep
<1> QED
  BY <1>1, <1>2, <1>3 DEF NoCrossRoomService, HandlerRoom

\* Under the mutex an Info has what its slot holds.
LEMMA LockedInfoStep ==
  ASSUME TypeOK, MutexOwned, InfoFromRoom, [Next]_vars,
         NEW q \in RoomIds, rpc'[q] = "locked"
  PROVE  info_sock'[q] = clnt_socks'[rroom'[q]][rslot'[q]]
<1>0. TableOK /\ RoomHandlerOK /\ MutexOwned /\ InfoFromRoom
  BY DEF TypeOK
<1>1. CASE RoomLock(q)
  BY <1>0, <1>1 DEF RoomHandlerOK, RoomLock, tableVars
<1>2. CASE ~RoomLock(q)
  <2>1. /\ rpc[q] = "locked" /\ info_sock'[q] = info_sock[q]
        /\ rroom'[q] = rroom[q] /\ rslot'[q] = rslot[q]
    BY <1>0, <1>2, RoomFrame
    DEF RoomHandlerOK, MakeSpawn, RoomRuns, RoomStart, RoomFind, RoomLock,
        RoomSpawn, RoomSpawnFail, RoomAt, rhVars
  <2>2. mutex = "room"
    BY <1>0, <2>1 DEF MutexOwned
  <2>3. clnt_socks' = clnt_socks
    BY <1>0, <2>2, TableFrame
    DEF MutexOwned, MakeRoom, EnterCount, EnterPlace, RoomSpawn, HandlerLeave,
        MainAt, tableVars
  <2> QED
    BY <1>0, <2>1, <2>3 DEF InfoFromRoom
<1> QED
  BY <1>1, <1>2

\* As long as the table stays orderly, slots 0..Top are in use and never given to
\* another client.
LEMMA DenseStep ==
  ASSUME TypeOK, MutexOwned, RoomsOpenInOrder, Opened, Unplaced,
         CountInRange, TableDense, [Next]_vars, orderly'
  PROVE  /\ CountInRange' /\ TableDense'
         /\ \A r \in RoomIds, k \in Slots : clnt_socks[r][k] # None =>
              clnt_socks'[r][k] \in {clnt_socks[r][k], None}
<1> DEFINE Goal == /\ CountInRange' /\ TableDense'
                   /\ \A r \in RoomIds, k \in Slots : clnt_socks[r][k] # None =>
                        clnt_socks'[r][k] \in {clnt_socks[r][k], None}
<1>0. /\ GlobalsOK /\ TableOK /\ MainOK /\ RoomHandlerOK /\ SocketHandlerOK
      /\ None \notin Descriptors /\ MEMBER_MAX \in Nat \ {0}
  BY RoomsAssumption DEF TypeOK, RoomsAssumption
<1>1. orderly
  BY OrderFrame DEF EnterReply, HandlerLeave
<1>2. /\ \A r \in RoomIds : Top(r) \in -1 .. MEMBER_MAX - 1
      /\ \A r \in RoomIds : roomnum[r] = -1 => count[r] = -1
      /\ \A r \in RoomIds, k \in Slots : clnt_socks[r][k] # None <=> k <= Top(r)
  BY <1>1 DEF CountInRange, TableDense
<1>3. ASSUME \A r \in RoomIds : Top(r)' = Top(r),
             UNCHANGED clnt_socks,
             \A r \in RoomIds : roomnum'[r] = -1 =>
               roomnum[r] = -1 /\ count'[r] = count[r]
      PROVE  Goal
  BY <1>2, <1>3 DEF CountInRange, TableDense
<1>4. ASSUME NEW q \in RoomIds, NEW j \in Slots, j = Top(q) + 1, cur \in Descriptors,
             \A r \in RoomIds : Top(r)' = IF r = q THEN j ELSE Top(r),
             clnt_socks' = [clnt_socks EXCEPT ![q][j] = cur],
             \A r \in RoomIds : roomnum'[r] = -1 =>
               roomnum[r] = -1 /\ count'[r] = count[r]
      PROVE  Goal
  <2>1. \A r \in RoomIds, k \in Slots :
          clnt_socks'[r][k] = IF r = q /\ k = j THEN cur ELSE clnt_socks[r][k]
    BY <1>0, <1>4 DEF TableOK
  <2>2. CountInRange'
    BY <1>0, <1>2, <1>4 DEF CountInRange, Slots
  <2>3. TableDense'
    BY <1>0, <1>2, <1>4, <2>1 DEF TableDense, Slots
  <2>5. \A r \in RoomIds, k \in Slots : clnt_socks[r][k] # None =>
              clnt_socks'[r][k] \in {clnt_socks[r][k], None}
    BY <1>0, <1>2, <1>4, <2>1 DEF Slots
  <2> QED
    BY <2>2, <2>3, <2>5
<1>5. CASE MakeRoom
  <2>1. /\ room_count \in RoomIds /\ roomnum[room_count] = -1
        /\ count[room_count] = -1 /\ main = "making"
    BY <1>0, <1>2, <1>5 DEF GlobalsOK, RoomIds, Opened, MakeRoom, MainAt
  <2>2. cur \in Descriptors
    BY <2>1 DEF Unplaced, Deciding
  <2>3. Top(room_count) = -1 /\ 0 \in Slots
    BY <1>0, <2>1 DEF Top, Slots
  <2>4. /\ count' = [count EXCEPT ![room_count] = 0] /\ main' = "spawn"
        /\ clnt_socks' = [clnt_socks EXCEPT ![room_count][0] = cur]
        /\ roomnum' = [roomnum EXCEPT ![room_count] = room_count]
    BY <1>5, <2>1 DEF MakeRoom, NewRoomNumber
  <2>5. \A r \in RoomIds : Top(r)' = IF r = room_count THEN 0 ELSE Top(r)
    BY <1>0, <2>1, <2>4 DEF TableOK, Top
  <2>6. \A r \in RoomIds : roomnum'[r] = -1 =>
          roomnum[r] = -1 /\ count'[r] = count[r]
    BY <1>0, <2>1, <2>4 DEF TableOK, RoomIds
  <2>7. 0 = Top(room_count) + 1
    BY <2>3
  <2> QED
    BY <1>4, <2>1, <2>2, <2>3, <2>4, <2>5, <2>6, <2>7, Zenon
<1>6. CASE EnterCount
  <2>1. roomnum[mroom] = mroom /\ mroom \in RoomIds
    BY <1>0, <1>6 DEF MainOK, RoomsOpenInOrder, Opened, EnterCount, MainAt
  <2>2. \A r \in RoomIds : Top(r)' = Top(r)
    BY <1>0, <1>6 DEF TableOK, Top, EnterCount, MainAt
  <2>3. \A r \in RoomIds : roomnum'[r] = -1 =>
          roomnum[r] = -1 /\ count'[r] = count[r]
    BY <1>0, <1>6, <2>1 DEF TableOK, RoomIds, EnterCount
  <2> QED
    BY <1>3, <1>6, <2>2, <2>3 DEF EnterCount
<1>7. CASE EnterReply
  <2>1. main' = "place"
    BY <1>1, <1>7 DEF EnterReply
  <2>2. \A r \in RoomIds : Top(r)' = Top(r)
    BY <1>7, <2>1 DEF Top, EnterReply, MainAt, tableVars
  <2> QED
    BY <1>3, <1>7, <2>2 DEF EnterReply, tableVars
<1>8. CASE EnterPlace /\ EnterSlot \in Slots
  <2>1. /\ mroom \in RoomIds /\ cur \in Descriptors /\ EnterSlot = Top(mroom) + 1
    BY <1>0, <1>8
    DEF TableOK, MainOK, Unplaced, Deciding, Top, EnterSlot, EnterPlace, MainAt
  <2>2. \A r \in RoomIds : Top(r)' = IF r = mroom THEN EnterSlot ELSE Top(r)
    BY <1>8 DEF Top, EnterSlot, EnterPlace, MainAt
  <2> QED
    BY <1>4, <1>8, <2>1, <2>2 DEF EnterPlace
<1>9. CASE EnterPlace /\ EnterSlot \notin Slots
  <2>1. \A r \in RoomIds : Top(r)' = Top(r)
    BY <1>9 DEF Top, EnterPlace
  <2> QED
    BY <1>3, <1>9, <2>1 DEF EnterPlace
<1>10. ASSUME NEW t \in Threads, HandlerLeave(t)
       PROVE  Goal
  <2> DEFINE q == HandlerRoom(t)
             j == hnum[t]
  <2>1. q \in RoomIds /\ j \in Slots /\ LeavesLast(t)
    BY <1>0, <1>10 DEF RoomHandlerOK, SocketHandlerOK, HandlerRoom, HandlerLeave
  <2>2. clnt_socks[q][j] # None /\ \A k \in Slots : k > j => clnt_socks[q][k] = None
    BY <2>1 DEF LeavesLast
  <2>3. j = Top(q)
    <3>1. j <= Top(q) /\ Top(q) \in -1 .. MEMBER_MAX - 1
      BY <1>2, <2>1, <2>2
    <3>2. Top(q) \in Slots
      BY <1>0, <2>1, <3>1 DEF Slots
    <3>3. clnt_socks[q][Top(q)] # None
      BY <1>2, <2>1, <3>2 DEF Slots
    <3> QED
      BY <1>0, <2>1, <2>2, <3>1, <3>2, <3>3 DEF Slots
  <2>4. /\ clnt_socks' = [clnt_socks EXCEPT ![q][j] = None]
        /\ count' = [count EXCEPT ![q] = count[q] - 1]
        /\ UNCHANGED <<roomnum, main, mroom>>
    BY <1>10 DEF HandlerLeave, mainVars
  <2>5. \A r \in RoomIds : Top(r)' = IF r = q THEN Top(q) - 1 ELSE Top(r)
    BY <1>0, <2>1, <2>4 DEF TableOK, Top
  <2>6. \A r \in RoomIds, k \in Slots :
          clnt_socks'[r][k] = IF r = q /\ k = j THEN None ELSE clnt_socks[r][k]
    BY <1>0, <2>1, <2>4 DEF TableOK
  <2>8. CountInRange'
    <3>1. \A r \in RoomIds : Top(r)' \in -1 .. MEMBER_MAX - 1
      BY <1>0, <1>2, <2>1, <2>3, <2>5 DEF Slots
    <3>2. roomnum[q] # -1
      BY <1>0, <1>2, <2>1, <2>3 DEF Top, Slots
    <3>3. \A r \in RoomIds : roomnum'[r] = -1 => count'[r] = -1
      BY <1>0, <1>2, <2>1, <2>4, <3>2 DEF TableOK
    <3> QED
      BY <3>1, <3>3 DEF CountInRange
  <2>9. TableDense'
    BY <1>0, <1>2, <2>1, <2>3, <2>5, <2>6 DEF TableDense, Slots
  <2>11. \A r \in RoomIds, k \in Slots : clnt_socks[r][k] # None =>
              clnt_socks'[r][k] \in {clnt_socks[r][k], None}
    BY <2>6
  <2> QED
    BY <2>8, <2>9, <2>11
<1>11. CASE /\ UNCHANGED <<clnt_socks, count, roomnum>>
            /\ ~EnterReply /\ ~EnterPlace /\ ~EnterCount
  <2>1. \A r \in RoomIds : Top(r)' = Top(r)
    BY <1>11, MainFrame
    DEF Top, Accept, Login, Drop, Choose, MakeLock, MakeDbFail, MakeRefused,
        MakeRoom, MakeSpawn, MakeSpawnFail, MainAt, mainVars
  <2> QED
    BY <1>3, <1>11, <2>1
<1>12. Goal
  BY <1>5, <1>6, <1>7, <1>8, <1>9, <1>10, <1>11, TableFrame
  DEF RoomSpawn, tableVars
<1> QED
  BY <1>12

\* A thread whose Info nobody rewrote keeps its socket, slot and room, or is made
\* now from the Info of its room_handler.
LEMMA ThreadKept ==
  ASSUME TypeOK, Watched, [Next]_vars, NEW t \in Threads, Alive(t)', t \notin torn'
  PROVE  \/ /\ Alive(t) /\ Sock(t)' = Sock(t) /\ Num(t)' = Num(t)
            /\ HandlerRoom(t)' = HandlerRoom(t)
         \/ \E r \in RoomIds :
              /\ RoomSpawn(r) /\ hpc[t] = "unborn"
              /\ Sock(t)' = info_sock[r] /\ Num(t)' = rslot[r]
              /\ HandlerRoom(t)' = rroom[r]
              /\ tids' = [tids EXCEPT ![rroom[r]][rslot[r]] = t]
<1> DEFINE Kept == /\ Alive(t) /\ Sock(t)' = Sock(t) /\ Num(t)' = Num(t)
                   /\ HandlerRoom(t)' = HandlerRoom(t)
           Made(r) == /\ RoomSpawn(r) /\ hpc[t] = "unborn"
                      /\ Sock(t)' = info_sock[r] /\ Num(t)' = rslot[r]
                      /\ HandlerRoom(t)' = rroom[r]
                      /\ tids' = [tids EXCEPT ![rroom[r]][rslot[r]] = t]
<1>0. RoomHandlerOK /\ SocketHandlerOK /\ Watched
  BY DEF TypeOK
<1>1. ASSUME NEW r \in RoomIds, RoomSpawn(r)
      PROVE  Kept \/ Made(r)
  <2>1. PICK u \in Threads :
          /\ hpc[u] = "unborn"
          /\ hpc' = [hpc EXCEPT ![u] = "start"]
          /\ hrh' = [hrh EXCEPT ![u] = r]
          /\ tids' = [tids EXCEPT ![rroom[r]][rslot[r]] = u]
    BY <1>1 DEF RoomSpawn
  <2>2. /\ info_num' = [info_num EXCEPT ![r] = rslot[r]]
        /\ UNCHANGED <<rroom, info_sock, hsock, hnum>>
        /\ StillCopying(r) \subseteq torn'
    BY <1>1 DEF RoomSpawn
  <2>3. CASE u = t
    BY <1>0, <1>1, <2>1, <2>2, <2>3
    DEF RoomHandlerOK, SocketHandlerOK, Sock, Num, HandlerRoom
  <2>4. CASE u # t
    <3>1. hpc'[t] = hpc[t] /\ hrh'[t] = hrh[t]
      BY <1>0, <2>1, <2>4 DEF SocketHandlerOK
    <3>2. hpc[t] \in {"start", "half"} => hrh[t] # r
      BY <2>2 DEF StillCopying
    <3> QED
      BY <1>0, <2>2, <3>1, <3>2
      DEF RoomHandlerOK, SocketHandlerOK, Alive, Serving, Sock, Num, HandlerRoom
  <2> QED
    BY <2>3, <2>4
<1>2. ASSUME NEW u \in Threads, HandlerRuns(u) \/ HandlerMayDo(u)
      PROVE  Kept
  <2>1. UNCHANGED <<rroom, info_sock, info_num, hrh>>
    BY <1>2
    DEF HandlerRuns, HandlerMayDo, HandlerCopySock, HandlerCopyNum, HandlerInit,
        HandlerInitFail, HandlerChat, HandlerLog, HandlerLogFail,
        HandlerReadError, HandlerLeave, rhVars
  <2>2. HandlerRoom(t)' = HandlerRoom(t)
    BY <2>1 DEF HandlerRoom
  <2>3. CASE u # t
    <3>1. UNCHANGED <<hpc[t], hsock[t], hnum[t]>>
      BY <1>0, <1>2, <2>3
      DEF SocketHandlerOK, HandlerRuns, HandlerMayDo, HandlerCopySock,
          HandlerCopyNum, HandlerInit, HandlerInitFail, HandlerChat, HandlerLog,
          HandlerLogFail, HandlerReadError, HandlerLeave
    <3> QED
      BY <2>1, <2>2, <3>1 DEF Alive, Serving, Sock, Num
  <2>4. CASE HandlerCopySock(t)
    BY <1>0, <2>1, <2>2, <2>4
    DEF SocketHandlerOK, HandlerCopySock, HandlerAt, Alive, Serving, Sock, Num
  <2>5. CASE HandlerCopyNum(t)
    BY <1>0, <2>1, <2>2, <2>5
    DEF SocketHandlerOK, HandlerCopyNum, HandlerAt, Alive, Serving, Sock, Num
  <2>6. CASE \/ HandlerInit(t) \/ HandlerInitFail(t) \/ HandlerChat(t)
             \/ HandlerLog(t) \/ HandlerLogFail(t)
             \/ HandlerReadError(t) \/ HandlerLeave(t)
    <3>1. /\ UNCHANGED <<hsock, hnum>>
          /\ hpc[t] \in {"init", "serve", "log", "leave"}
          /\ hpc'[t] \notin {"start", "half"}
      BY <1>0, <2>6
      DEF SocketHandlerOK, HandlerInit, HandlerInitFail, HandlerChat, HandlerLog,
          HandlerLogFail, HandlerReadError, HandlerLeave, HandlerAt
    <3> QED
      BY <2>1, <2>2, <3>1 DEF Alive, Serving, Sock, Num
  <2> QED
    BY <1>2, <2>3, <2>4, <2>5, <2>6 DEF HandlerRuns, HandlerMayDo
<1>3. CASE UNCHANGED hVars
  <2>1. hrh[t] \in RoomIds /\ Alive(t) /\ rpc[hrh[t]] \notin {"none", "start"}
    BY <1>0, <1>3 DEF SocketHandlerOK, Watched, Alive, Serving, hVars
  <2>2. ASSUME NEW r \in RoomIds, RoomStart(r) \/ RoomFind(r)
        PROVE  Kept
    BY <1>0, <1>3, <2>1, <2>2
    DEF RoomHandlerOK, RoomStart, RoomFind, RoomAt, Sock, Num, HandlerRoom,
        Alive, Serving, hVars
  <2>3. ASSUME NEW r \in RoomIds, RoomLock(r) \/ RoomSpawnFail(r)
        PROVE  Kept
    <3>1. CASE RoomLock(r)
      BY <1>0, <1>3, <2>1, <3>1
      DEF RoomHandlerOK, RoomLock, Sock, Num, HandlerRoom, Alive, Serving, hVars
    <3>2. CASE RoomSpawnFail(r)
      BY <1>0, <1>3, <2>1, <3>2
      DEF RoomHandlerOK, RoomSpawnFail, StillCopying, Sock, Num, HandlerRoom,
          Alive, Serving, hVars
    <3> QED
      BY <2>3, <3>1, <3>2
  <2>4. CASE MakeSpawn \/ UNCHANGED rhVars
    BY <1>3, <2>1, <2>4
    DEF MakeSpawn, Sock, Num, HandlerRoom, Alive, Serving, hVars, rhVars
  <2> QED
    BY <1>1, <2>2, <2>3, <2>4, RoomFrame DEF RoomRuns
<1> QED
  BY <1>1, <1>2, <1>3, HandlerFrame

\* A thread that runs or will run refers to its socket.
LEMMA AliveInUse ==
  ASSUME TypeOK, NEW t \in Threads, Alive(t)
  PROVE  InUse(Sock(t))
<1>1. hrh[t] \in RoomIds
  BY DEF TypeOK, SocketHandlerOK
<1>2. CASE hpc[t] = "start"
  BY <1>1, <1>2 DEF Sock, InUse, ToRead
<1>3. CASE Serving(t)
  <2>1. hpc[t] # "start"
    BY <1>3 DEF Serving
  <2> QED
    BY <1>3, <2>1 DEF Sock, InUse
<1> QED
  BY <1>2, <1>3 DEF Alive

\* The id of a slot is that of the client behind it, as long as the table is orderly:
\* the id that a thread erases is that of an empty slot.
LEMMA IdsFollowStep ==
  ASSUME TypeOK, Unplaced, CountInRange, TableDense, IdsFollow, Opened,
         [Next]_vars, orderly'
  PROVE  IdsFollow'
<1>0. /\ GlobalsOK /\ TableOK /\ MainOK /\ RoomHandlerOK /\ SocketHandlerOK
      /\ None \notin Descriptors /\ MEMBER_MAX \in Nat \ {0}
  BY RoomsAssumption DEF TypeOK, RoomsAssumption
<1>1. orderly
  BY OrderFrame DEF EnterReply, HandlerLeave
<1>2. SUFFICES ASSUME NEW r \in RoomIds, NEW k \in Slots,
                      clnt_socks'[r][k] \in Descriptors,
                      clnt_socks'[r][k] \notin reused',
                      peer'[clnt_socks'[r][k]] # None
               PROVE  ids'[r][k] = peer'[clnt_socks'[r][k]]
  BY DEF IdsFollow
<1> DEFINE d == clnt_socks'[r][k]
<1>3. d \notin reused
  BY <1>2, HistoryGrows
<1>4. ASSUME clnt_socks[r][k] = d, ids'[r][k] = ids[r][k], peer'[d] = peer[d]
      PROVE  ids'[r][k] = peer'[d]
  BY <1>1, <1>2, <1>3, <1>4 DEF IdsFollow
<1>5. ASSUME NEW c \in Clients, NEW e \in Descriptors, Accept(c, e)
      PROVE  ids'[r][k] = peer'[d]
  <2>1. clnt_socks[r][k] = d /\ ids'[r][k] = ids[r][k]
    BY <1>5 DEF Accept, tableVars
  <2>2. d # e
    BY <1>2, <1>5, <2>1 DEF Accept, InUse
  <2>3. peer'[d] = peer[d]
    BY <1>0, <1>5, <2>2 DEF Accept
  <2> QED
    BY <1>4, <2>1, <2>3
<1>6. ASSUME NEW t \in Threads, HandlerLeave(t)
      PROVE  ids'[r][k] = peer'[d]
  <2> DEFINE q == HandlerRoom(t)
             j == hnum[t]
  <2>1. q \in RoomIds /\ j \in Slots /\ LeavesLast(t) /\ count[q] \in Int
    BY <1>0, <1>6
    DEF TableOK, RoomHandlerOK, SocketHandlerOK, HandlerRoom, HandlerLeave
  <2>2. clnt_socks' = [clnt_socks EXCEPT ![q][j] = None]
    BY <1>6 DEF HandlerLeave
  <2>3. d = clnt_socks[r][k] /\ ~(r = q /\ k = j)
    BY <1>0, <1>2, <2>1, <2>2 DEF TableOK
  <2>4. count[q] \in Slots => clnt_socks'[q][count[q]] = None
    <3>1. \A i \in Slots : clnt_socks[q][i] # None <=> i <= Top(q)
      BY <1>1, <2>1 DEF TableDense
    <3>2. \A i \in Slots : i > j => clnt_socks[q][i] = None
      BY <2>1 DEF LeavesLast
    <3>3. Top(q) \in {count[q], count[q] - 1}
      BY DEF Top
    <3>4. clnt_socks[q][j] # None
      BY <2>1 DEF LeavesLast
    <3>5. ASSUME count[q] \in Slots
          PROVE  count[q] = j \/ clnt_socks[q][count[q]] = None
      <4>1. j <= Top(q)
        BY <2>1, <3>1, <3>4
      <4> QED
        BY <2>1, <3>1, <3>2, <3>3, <3>5, <4>1 DEF Slots
    <3> QED
      BY <1>0, <2>1, <2>2, <3>5 DEF TableOK
  <2>5. ~(r = q /\ k = count[q])
    BY <1>0, <1>2, <2>4
  <2>6. ids'[r][k] = ids[r][k]
    <3>1. \/ ids' = ids
          \/ ids' = [ids EXCEPT ![q][count[q]] = None]
      BY <1>6 DEF HandlerLeave, ErasedId
    <3> QED
      BY <1>0, <2>5, <3>1 DEF TableOK
  <2>7. peer'[d] = peer[d]
    <3>1. peer' = peer \/ peer' = [peer EXCEPT ![hsock[t]] = None]
      BY <1>6 DEF HandlerLeave, netVars
    <3> QED
      BY <1>0, <1>2, <3>1 DEF GlobalsOK
  <2> QED
    BY <1>4, <2>3, <2>6, <2>7
<1>7. CASE peer' = peer /\ \A t \in Threads : ~HandlerLeave(t)
  <2>1. CASE MakeRoom
    <3>1. /\ clnt_socks' =
               [clnt_socks EXCEPT ![room_count][count[room_count] + 1] = cur]
          /\ ids' = [ids EXCEPT ![room_count][count[room_count] + 1] = user]
      BY <2>1 DEF MakeRoom
    <3>2. cur \in Descriptors /\ peer[cur] \in {user, None}
      BY <2>1 DEF MakeRoom, MainAt, Unplaced, Deciding
    <3>3. CASE r = room_count /\ k = count[room_count] + 1
      <4>1. d = cur /\ ids'[r][k] = user
        BY <1>0, <3>1, <3>3 DEF TableOK
      <4> QED
        BY <1>2, <1>7, <3>2, <4>1
    <3>4. CASE ~(r = room_count /\ k = count[room_count] + 1)
      BY <1>0, <1>4, <1>7, <3>1, <3>4 DEF TableOK
    <3> QED
      BY <3>3, <3>4
  <2>2. CASE EnterPlace
    <3>1. CASE EnterSlot \in Slots
      <4>1. /\ clnt_socks' = [clnt_socks EXCEPT ![mroom][EnterSlot] = cur]
            /\ ids' = [ids EXCEPT ![mroom][EnterSlot] = user]
        BY <2>2, <3>1 DEF EnterPlace
      <4>2. cur \in Descriptors /\ peer[cur] \in {user, None}
        BY <2>2 DEF EnterPlace, MainAt, Unplaced, Deciding
      <4>3. CASE r = mroom /\ k = EnterSlot
        <5>1. d = cur /\ ids'[r][k] = user
          BY <1>0, <4>1, <4>3 DEF TableOK
        <5> QED
          BY <1>2, <1>7, <4>2, <5>1
      <4>4. CASE ~(r = mroom /\ k = EnterSlot)
        BY <1>0, <1>4, <1>7, <4>1, <4>4 DEF TableOK
      <4> QED
        BY <4>3, <4>4
    <3> QED
      BY <1>4, <1>7, <2>2, <3>1 DEF EnterPlace
  <2>3. CASE UNCHANGED <<clnt_socks, ids>>
    BY <1>4, <1>7, <2>3
  <2> QED
    BY <1>7, <2>1, <2>2, <2>3, TableFrame DEF EnterCount, RoomSpawn, tableVars
<1> QED
  BY <1>5, <1>6, <1>7, PeerFrame

\* Without a leave, a slot keeps its value or gets the client of main().
LEMMA SlotKept ==
  ASSUME TypeOK, Unplaced, [Next]_vars, \A t \in Threads : ~HandlerLeave(t),
         NEW r \in RoomIds, NEW k \in Slots
  PROVE  \/ clnt_socks'[r][k] = clnt_socks[r][k]
         \/ clnt_socks'[r][k] = cur /\ cur \in Descriptors
<1>0. TableOK
  BY DEF TypeOK
<1>1. CASE MakeRoom
  <2>1. clnt_socks' = [clnt_socks EXCEPT ![room_count][count[room_count] + 1] = cur]
    BY <1>1 DEF MakeRoom
  <2>2. cur \in Descriptors
    BY <1>1 DEF MakeRoom, MainAt, Unplaced, Deciding
  <2> QED
    BY <1>0, <2>1, <2>2 DEF TableOK
<1>2. CASE EnterPlace
  <2>1. \/ clnt_socks' = clnt_socks
        \/ clnt_socks' = [clnt_socks EXCEPT ![mroom][EnterSlot] = cur]
    BY <1>2 DEF EnterPlace
  <2>2. cur \in Descriptors
    BY <1>2 DEF EnterPlace, MainAt, Unplaced, Deciding
  <2> QED
    BY <1>0, <2>1, <2>2 DEF TableOK
<1> QED
  BY <1>1, <1>2, TableFrame DEF EnterCount, RoomSpawn, tableVars

\* The slot of a thread holds its socket while the client is connected: whoever
\* empties the slot closes the socket, as long as the table is orderly.
LEMMA SlotHeldStep ==
  ASSUME TypeOK, MutexOwned, RoomsOpenInOrder, Opened, Watched, Unplaced,
         InfoFromRoom, CountInRange, TableDense, SlotHeld, [Next]_vars, orderly'
  PROVE  SlotHeld'
<1>0. /\ GlobalsOK /\ TableOK /\ RoomHandlerOK /\ SocketHandlerOK
      /\ None \notin Descriptors
  BY RoomsAssumption DEF TypeOK, RoomsAssumption
<1>1. orderly
  BY OrderFrame DEF EnterReply, HandlerLeave
<1>2. SUFFICES ASSUME NEW t \in Threads, t \notin torn', Alive(t)',
                      Sock(t)' \in Descriptors, Sock(t)' \notin reused',
                      peer'[Sock(t)'] # None
               PROVE  clnt_socks'[HandlerRoom(t)'][Num(t)'] = Sock(t)'
  BY DEF SlotHeld
<1>3. ASSUME NEW r \in RoomIds, RoomSpawn(r),
             Sock(t)' = info_sock[r], Num(t)' = rslot[r],
             HandlerRoom(t)' = rroom[r]
      PROVE  clnt_socks'[HandlerRoom(t)'][Num(t)'] = Sock(t)'
  <2>1. rpc[r] = "locked" /\ clnt_socks' = clnt_socks
    BY <1>3 DEF RoomSpawn, RoomAt
  <2> QED
    BY <1>0, <1>3, <2>1 DEF InfoFromRoom
<1>4. ASSUME Alive(t), Sock(t)' = Sock(t), Num(t)' = Num(t),
             HandlerRoom(t)' = HandlerRoom(t)
      PROVE  clnt_socks'[HandlerRoom(t)'][Num(t)'] = Sock(t)'
  <2> DEFINE q == HandlerRoom(t)
             k == Num(t)
             d == Sock(t)
  <2>1. /\ q \in RoomIds /\ k \in Slots /\ d \in Descriptors
        /\ d \notin reused /\ InUse(d) /\ t \notin torn
    BY <1>0, <1>2, <1>4, AliveInUse, HistoryGrows
    DEF RoomHandlerOK, SocketHandlerOK, HandlerRoom, Num
  <2>2. peer[d] # None
    <3>1. ASSUME NEW c \in Clients, NEW e \in Descriptors, Accept(c, e)
          PROVE  peer'[d] = peer[d]
      <4>1. d # e
        BY <1>2, <1>4, <2>1, <3>1 DEF Accept
      <4> QED
        BY <1>0, <2>1, <3>1, <4>1 DEF Accept
    <3>2. ASSUME NEW u \in Threads, HandlerLeave(u)
          PROVE  peer'[d] \in {peer[d], None}
      BY <1>0, <2>1, <3>2 DEF GlobalsOK, HandlerLeave, netVars
    <3> QED
      BY <1>2, <1>4, <3>1, <3>2, PeerFrame
  <2>3. clnt_socks[q][k] = d
    BY <1>1, <1>4, <2>1, <2>2 DEF SlotHeld
  <2>4. clnt_socks'[q][k] \in {d, None}
    BY <1>0, <2>1, <2>3, DenseStep
  <2>5. ASSUME clnt_socks'[q][k] = None
        PROVE  FALSE
    <3>1. PICK u \in Threads : HandlerLeave(u)
      BY <1>0, <2>1, <2>3, <2>5, SlotKept
    <3>2. LeavesLast(u) /\ hnum[u] \in Slots /\ HandlerRoom(u) \in RoomIds
      BY <1>0, <3>1
      DEF HandlerLeave, RoomHandlerOK, SocketHandlerOK, HandlerRoom
    <3>3. clnt_socks' = [clnt_socks EXCEPT ![HandlerRoom(u)][hnum[u]] = None]
      BY <3>1 DEF HandlerLeave
    <3>4. q = HandlerRoom(u) /\ k = hnum[u]
      BY <1>0, <2>1, <2>3, <2>5, <3>2, <3>3 DEF TableOK
    <3>5. d = hsock[u]
      BY <2>3, <3>2, <3>4 DEF LeavesLast
    <3>6. peer'[d] = None
      BY <1>0, <2>1, <3>1, <3>5 DEF GlobalsOK, HandlerLeave, netVars
    <3> QED
      BY <1>2, <1>4, <3>6
  <2> QED
    BY <1>4, <2>4, <2>5
<1> QED
  BY <1>2, <1>3, <1>4, ThreadKept

\* Without torn Infos and with one room_handler to a room, whoever closes a
\* descriptor was the only one to refer to it.
LEMMA CalmStep ==
  ASSUME TypeOK, MutexOwned, Opened, Watched, Unplaced, NoCrossRoomService,
         InfoFromRoom, CalmIsSafe, [Next]_vars, Calm'
  PROVE  reused' = {} /\ SoleOwners'
<1>0. /\ GlobalsOK /\ TableOK /\ RoomHandlerOK /\ SocketHandlerOK /\ Watched
      /\ None \notin Descriptors /\ None \notin Threads /\ None \notin Clients
  BY RoomsAssumption DEF TypeOK, RoomsAssumption
<1>1. Calm
  <2>1. torn = {}
    BY HistoryGrows DEF Calm
  <2>2. \A r, q \in RoomIds : Watches(r, q) => Watches(r, q)'
    BY RoomHandlerKept DEF Watches
  <2>3. SingleWatch
    BY <2>2 DEF Calm, SingleWatch
  <2> QED
    BY <2>1, <2>3 DEF Calm
<1>2. reused = {} /\ SoleOwners /\ torn' = {}
  BY <1>1 DEF CalmIsSafe, Calm
<1>3. ASSUME NEW d \in Descriptors, InUse(d)
      PROVE  peer[d] # None
  <2>1. ASSUME NEW r \in RoomIds, NEW k \in Slots, clnt_socks[r][k] = d
        PROVE  peer[d] # None
    BY <1>0, <1>2, <2>1 DEF SoleOwners
  <2>2. ASSUME NEW r \in RoomIds, rpc[r] = "locked", info_sock[r] = d
        PROVE  peer[d] # None
    BY <1>0, <2>1, <2>2 DEF InfoFromRoom, RoomHandlerOK
  <2>3. ASSUME NEW t \in Threads, Alive(t), Sock(t) = d
        PROVE  peer[d] # None
    BY <1>2, <2>3 DEF SoleOwners
  <2>4. ASSUME NEW t \in Threads, hpc[t] = "start"
        PROVE  Alive(t) /\ Sock(t) = info_sock[hrh[t]]
    BY <2>4 DEF Alive, Sock
  <2>5. ASSUME NEW t \in Threads, Serving(t)
        PROVE  Alive(t) /\ Sock(t) = hsock[t]
    BY <2>5 DEF Alive, Sock, Serving
  <2> QED
    BY <1>3, <2>1, <2>2, <2>3, <2>4, <2>5 DEF InUse, ToRead
<1>4. reused' = {}
  BY <1>2, <1>3, HistoryFrame DEF Accept
<1>5. ASSUME NEW r \in RoomIds, NEW k \in Slots, clnt_socks'[r][k] \in Descriptors,
             InUse(clnt_socks'[r][k])
      PROVE  clnt_socks[r][k] = clnt_socks'[r][k]
  BY <1>4, <1>5, UsedNotPlaced
<1>6. ASSUME NEW u \in Threads, HandlerLeave(u)
      PROVE  /\ Alive(u) /\ Sock(u) = hsock[u] /\ Num(u) = hnum[u]
             /\ HandlerRoom(u) \in RoomIds /\ hnum[u] \in Slots
             /\ hsock[u] \in Descriptors
             /\ tids[HandlerRoom(u)][hnum[u]] = u
             /\ clnt_socks' = [clnt_socks EXCEPT ![HandlerRoom(u)][hnum[u]] = None]
             /\ tids' = [tids EXCEPT ![HandlerRoom(u)][hnum[u]] = None]
             /\ peer' = [peer EXCEPT ![hsock[u]] = None]
             /\ ~Alive(u)' /\ UNCHANGED <<mainVars, rhVars>>
  <2>1. hpc[u] = "leave" /\ hpc' = [hpc EXCEPT ![u] = "exited"]
    BY <1>6 DEF HandlerLeave, HandlerAt
  <2>2. Alive(u) /\ Sock(u) = hsock[u] /\ Num(u) = hnum[u]
    BY <2>1 DEF Alive, Serving, Sock, Num
  <2>3. ~Alive(u)'
    BY <1>0, <2>1 DEF Alive, Serving, SocketHandlerOK
  <2>4. /\ hsock[u] \in Descriptors /\ peer[hsock[u]] # None
        /\ tids[HandlerRoom(u)][hnum[u]] = u
    BY <1>2, <2>2 DEF SoleOwners
  <2>5. peer' = [peer EXCEPT ![hsock[u]] = None]
    BY <1>0, <1>6, <2>4 DEF HandlerLeave
  <2>6. HandlerRoom(u) \in RoomIds /\ hnum[u] \in Slots
    BY <1>0 DEF RoomHandlerOK, SocketHandlerOK, HandlerRoom
  <2> QED
    BY <1>6, <2>2, <2>3, <2>4, <2>5, <2>6 DEF HandlerLeave
\* Which descriptors stay open, and which slots keep their thread.
<1>7. ASSUME NEW d \in Descriptors, peer[d] # None,
             \A u \in Threads : HandlerLeave(u) => hsock[u] # d
      PROVE  peer'[d] # None
  BY <1>0, <1>6, <1>7, PeerFrame DEF GlobalsOK, Accept
<1> DEFINE Kept(t) == /\ Alive(t) /\ Sock(t)' = Sock(t) /\ Num(t)' = Num(t)
                      /\ HandlerRoom(t)' = HandlerRoom(t)
           Made(t, r) == /\ RoomSpawn(r) /\ hpc[t] = "unborn"
                         /\ Sock(t)' = info_sock[r] /\ Num(t)' = rslot[r]
                         /\ HandlerRoom(t)' = rroom[r]
                         /\ tids' = [tids EXCEPT ![rroom[r]][rslot[r]] = t]
<1>8. ASSUME NEW t \in Threads, Alive(t)', Kept(t)
      PROVE  /\ Sock(t) \in Descriptors /\ peer'[Sock(t)] # None
             /\ tids'[HandlerRoom(t)][Num(t)] = t
             /\ \A r \in RoomIds, k \in Slots :
                  clnt_socks'[r][k] = Sock(t) => r = HandlerRoom(t) /\ k = Num(t)
  <2> DEFINE q == HandlerRoom(t)
             j == Num(t)
  <2>1. /\ q \in RoomIds /\ j \in Slots
        /\ Sock(t) \in Descriptors /\ peer[Sock(t)] # None /\ tids[q][j] = t
        /\ \A r \in RoomIds, k \in Slots :
             clnt_socks[r][k] = Sock(t) => r = q /\ k = j
    BY <1>0, <1>2, <1>8
    DEF SoleOwners, RoomHandlerOK, SocketHandlerOK, HandlerRoom, Num
  <2>2. ASSUME NEW u \in Threads, HandlerLeave(u)
        PROVE  u # t /\ hsock[u] # Sock(t)
    BY <1>2, <1>6, <1>8, <2>2 DEF SoleOwners
  <2>3. peer'[Sock(t)] # None
    BY <1>7, <2>1, <2>2
  <2>4. tids'[q][j] = t
    <3>1. ASSUME NEW r \in RoomIds, RoomSpawn(r)
          PROVE  tids'[q][j] = t
      <4>1. PICK u \in Threads : tids' = [tids EXCEPT ![rroom[r]][rslot[r]] = u]
        BY <3>1 DEF RoomSpawn
      <4>2. tids[rroom[r]][rslot[r]] = None
        BY <1>2, <3>1 DEF SoleOwners, RoomSpawn, RoomAt
      <4> QED
        BY <1>0, <2>1, <4>1, <4>2 DEF TableOK
    <3>2. ASSUME NEW u \in Threads, HandlerLeave(u)
          PROVE  tids'[q][j] = t
      <4>1. /\ tids' = [tids EXCEPT ![HandlerRoom(u)][hnum[u]] = None]
            /\ tids[HandlerRoom(u)][hnum[u]] = u /\ u # t
        BY <1>6, <2>2, <3>2
      <4>2. ~(q = HandlerRoom(u) /\ j = hnum[u])
        BY <2>1, <4>1
      <4> QED
        BY <1>0, <2>1, <4>1, <4>2 DEF TableOK
    <3> QED
      BY <2>1, <3>1, <3>2, TidsFrame
  <2>5. ASSUME NEW r \in RoomIds, NEW k \in Slots, clnt_socks'[r][k] = Sock(t)
        PROVE  r = q /\ k = j
    BY <1>5, <1>8, <2>1, <2>5, AliveInUse
  <2> QED
    BY <2>1, <2>3, <2>4, <2>5
<1>9. ASSUME NEW t \in Threads, NEW r \in RoomIds, Made(t, r)
      PROVE  /\ info_sock[r] = clnt_socks[rroom[r]][rslot[r]]
             /\ rroom[r] \in RoomIds /\ rslot[r] \in Slots
             /\ tids[rroom[r]][rslot[r]] = None
             /\ info_sock[r] \in Descriptors /\ peer'[info_sock[r]] # None
             /\ tids'[rroom[r]][rslot[r]] = t
             /\ \A q \in RoomIds, k \in Slots :
                  clnt_socks'[q][k] = info_sock[r] => q = rroom[r] /\ k = rslot[r]
  <2>1. /\ rpc[r] = "locked" /\ clnt_socks' = clnt_socks /\ peer' = peer
        /\ rroom[r] \in RoomIds /\ rslot[r] \in Slots
    BY <1>0, <1>9 DEF RoomHandlerOK, RoomSpawn, RoomAt, netVars
  <2>2. /\ info_sock[r] = clnt_socks[rroom[r]][rslot[r]]
        /\ clnt_socks[rroom[r]][rslot[r]] # None
        /\ tids[rroom[r]][rslot[r]] = None
    BY <1>2, <2>1 DEF InfoFromRoom, SoleOwners
  <2>3. info_sock[r] \in Descriptors /\ peer[info_sock[r]] # None
    BY <1>0, <1>2, <2>1, <2>2 DEF TableOK, SoleOwners
  <2>4. \A q \in RoomIds, k \in Slots :
          clnt_socks[q][k] = info_sock[r] => q = rroom[r] /\ k = rslot[r]
    BY <1>2, <2>1, <2>2, <2>3 DEF NoCrossRoomService, OneSlotPerClient
  <2>5. tids'[rroom[r]][rslot[r]] = t
    BY <1>0, <1>9, <2>1 DEF TableOK
  <2> QED
    BY <2>1, <2>2, <2>3, <2>4, <2>5
<1>10. \A t \in Threads : Alive(t)' => Kept(t) \/ \E r \in RoomIds : Made(t, r)
  BY <1>2, ThreadKept
<1> HIDE DEF Kept, Made
<1>11. ASSUME NEW t \in Threads, Alive(t)'
       PROVE  /\ Sock(t)' \in Descriptors /\ peer'[Sock(t)'] # None
              /\ tids'[HandlerRoom(t)'][Num(t)'] = t
              /\ \A r \in RoomIds, k \in Slots :
                   clnt_socks'[r][k] = Sock(t)' => r = HandlerRoom(t)' /\ k = Num(t)'
  <2>1. CASE Kept(t)
    BY <1>8, <1>11, <2>1 DEF Kept
  <2>2. CASE \E r \in RoomIds : Made(t, r)
    <3>1. PICK r \in RoomIds : Made(t, r)
      BY <2>2
    <3>2. /\ Sock(t)' = info_sock[r] /\ Num(t)' = rslot[r]
          /\ HandlerRoom(t)' = rroom[r]
      BY <3>1 DEF Made
    <3> QED
      BY <1>9, <3>1, <3>2
  <2> QED
    BY <1>10, <1>11, <2>1, <2>2
<1>12. ASSUME NEW t \in Threads, NEW u \in Threads, Alive(t)', Alive(u)',
              Sock(t)' = Sock(u)'
       PROVE  t = u
  <2>1. CASE Kept(t) /\ Kept(u)
    BY <1>2, <1>12, <2>1 DEF SoleOwners, Kept
  <2>2. ASSUME NEW r \in RoomIds, NEW v \in Threads, NEW w \in Threads,
               Made(v, r), Kept(w), Sock(v)' = Sock(w)'
        PROVE  FALSE
    <3>1. /\ rroom[r] \in RoomIds /\ rslot[r] \in Slots
          /\ clnt_socks[rroom[r]][rslot[r]] = info_sock[r]
          /\ tids[rroom[r]][rslot[r]] = None
      BY <1>9, <2>2
    <3>2. Alive(w) /\ Sock(w) = info_sock[r]
      BY <2>2 DEF Kept, Made
    <3>3. /\ rroom[r] = HandlerRoom(w) /\ rslot[r] = Num(w)
          /\ tids[HandlerRoom(w)][Num(w)] = w
      BY <1>2, <3>1, <3>2 DEF SoleOwners
    <3> QED
      BY <1>0, <3>1, <3>3
  <2>3. ASSUME NEW r \in RoomIds, NEW q \in RoomIds, Made(t, r), Made(u, q)
        PROVE  t = u
    <3>1. /\ tids'[rroom[r]][rslot[r]] = t /\ tids[rroom[r]][rslot[r]] = None
          /\ rroom[r] \in RoomIds /\ rslot[r] \in Slots
      BY <1>9, <2>3
    <3>2. tids' = [tids EXCEPT ![rroom[q]][rslot[q]] = u]
      BY <2>3 DEF Made
    <3> QED
      BY <1>0, <3>1, <3>2 DEF TableOK
  <2> QED
    BY <1>10, <1>12, <2>1, <2>2, <2>3
<1>13. ASSUME NEW r \in RoomIds, NEW k \in Slots, clnt_socks'[r][k] # None
       PROVE  peer'[clnt_socks'[r][k]] # None
  <2>1. CASE clnt_socks'[r][k] = clnt_socks[r][k]
    <3>1. clnt_socks[r][k] \in Descriptors /\ peer[clnt_socks[r][k]] # None
      BY <1>0, <1>2, <1>13, <2>1 DEF TableOK, SoleOwners
    <3>2. ASSUME NEW u \in Threads, HandlerLeave(u)
          PROVE  hsock[u] # clnt_socks[r][k]
      <4>1. ASSUME hsock[u] = clnt_socks[r][k]
            PROVE  r = HandlerRoom(u) /\ k = hnum[u]
        BY <1>2, <1>6, <3>2, <4>1 DEF SoleOwners
      <4> QED
        BY <1>0, <1>6, <1>13, <2>1, <3>2, <4>1 DEF TableOK
    <3> QED
      BY <1>7, <2>1, <3>1, <3>2
  <2>2. CASE Placing(r, k) /\ clnt_socks'[r][k] = cur
    BY <1>2, <2>2, PlacingCur DEF SoleOwners
  <2> QED
    BY <1>13, <2>1, <2>2, SlotChange
<1>14. ASSUME NEW r \in RoomIds, rpc'[r] \in {"found", "locked"}
       PROVE  /\ tids'[rroom'[r]][rslot'[r]] = None
              /\ clnt_socks'[rroom'[r]][rslot'[r]] # None
  <2>1. CASE RoomFind(r)
    <3>1. UNCHANGED <<clnt_socks, tids, rroom>>
      BY <2>1 DEF RoomFind, tableVars
    <3>2. /\ rslot'[r] \in Slots /\ tids[rroom[r]][rslot'[r]] = None
          /\ clnt_socks[rroom[r]][rslot'[r]] # None
      BY <1>0, <2>1 DEF RoomFind, Visited, RoomHandlerOK
    <3> QED
      BY <3>1, <3>2
  <2>2. CASE ~RoomFind(r)
    <3>1. /\ rpc[r] \in {"found", "locked"} /\ ~RoomSpawn(r)
          /\ rroom'[r] = rroom[r] /\ rslot'[r] = rslot[r]
      <4>1. ASSUME NEW q \in RoomIds,
                   \/ RoomStart(q) \/ RoomFind(q) \/ RoomLock(q)
                   \/ RoomSpawn(q) \/ RoomSpawnFail(q)
            PROVE  /\ rpc[r] \in {"found", "locked"} /\ ~RoomSpawn(r)
                   /\ rroom'[r] = rroom[r] /\ rslot'[r] = rslot[r]
        BY <1>0, <1>14, <2>2, <4>1
        DEF RoomHandlerOK, RoomStart, RoomFind, RoomLock, RoomSpawn,
            RoomSpawnFail, RoomAt
      <4>2. CASE MakeSpawn
        BY <1>0, <1>14, <4>2 DEF RoomHandlerOK, MakeSpawn, RoomSpawn, MainAt
      <4>3. CASE UNCHANGED rhVars
        BY <1>0, <1>14, <4>3 DEF RoomHandlerOK, RoomSpawn, rhVars
      <4> QED
        BY <4>1, <4>2, <4>3, RoomFrame DEF RoomRuns
    <3>2. /\ rroom[r] \in RoomIds /\ rslot[r] \in Slots
          /\ tids[rroom[r]][rslot[r]] = None
          /\ clnt_socks[rroom[r]][rslot[r]] # None
      BY <1>0, <1>2, <3>1 DEF RoomHandlerOK, SoleOwners
    <3>3. ASSUME NEW u \in Threads, HandlerLeave(u)
          PROVE  ~(HandlerRoom(u) = rroom[r] /\ hnum[u] = rslot[r])
      BY <1>0, <1>6, <3>2, <3>3
    <3>4. ASSUME NEW q \in RoomIds, RoomSpawn(q)
          PROVE  rroom[q] # rroom[r]
      <4>1. rpc[q] = "locked" /\ q # r
        BY <3>1, <3>4 DEF RoomSpawn, RoomAt
      <4> QED
        BY <1>0, <1>1, <3>1, <4>1 DEF Calm, SingleWatch, Watches, RoomHandlerOK
    <3>5. tids'[rroom[r]][rslot[r]] = None
      <4>1. ASSUME NEW q \in RoomIds, RoomSpawn(q)
            PROVE  tids'[rroom[r]][rslot[r]] = None
        BY <1>0, <3>2, <3>4, <4>1 DEF TableOK, RoomSpawn
      <4>2. ASSUME NEW u \in Threads, HandlerLeave(u)
            PROVE  tids'[rroom[r]][rslot[r]] = None
        <5>1. tids' = [tids EXCEPT ![HandlerRoom(u)][hnum[u]] = None]
          BY <1>6, <4>2
        <5> QED
          BY <1>0, <3>2, <5>1 DEF TableOK
      <4> QED
        BY <3>2, <4>1, <4>2, TidsFrame
    <3>6. clnt_socks'[rroom[r]][rslot[r]] # None
      <4>1. ASSUME NEW u \in Threads, HandlerLeave(u)
            PROVE  clnt_socks'[rroom[r]][rslot[r]] # None
        BY <1>0, <1>6, <3>2, <3>3, <4>1 DEF TableOK
      <4>2. CASE \A u \in Threads : ~HandlerLeave(u)
        <5>1. \/ clnt_socks'[rroom[r]][rslot[r]] = clnt_socks[rroom[r]][rslot[r]]
              \/ clnt_socks'[rroom[r]][rslot[r]] = cur /\ cur \in Descriptors
          BY <1>0, <3>2, <4>2, SlotKept
        <5> QED
          BY <1>0, <3>2, <5>1
      <4> QED
        BY <4>1, <4>2
    <3> QED
      BY <3>1, <3>5, <3>6
  <2> QED
    BY <2>1, <2>2
<1>15. Deciding' => peer'[cur'] # None
  <2>1. ASSUME NEW c \in Clients, NEW d \in Descriptors, Accept(c, d)
        PROVE  peer'[cur'] # None
    BY <1>0, <2>1 DEF GlobalsOK, Accept
  <2>2. ASSUME \A c \in Clients, d \in Descriptors : ~Accept(c, d), Deciding'
        PROVE  peer'[cur'] # None
    <3>1. /\ cur' = cur /\ cur \in Descriptors /\ peer[cur] # None
          /\ ~InUse(cur)
      BY <1>2, <2>2, DecidingStep DEF Unplaced, SoleOwners
    <3>2. ASSUME NEW u \in Threads, HandlerLeave(u)
          PROVE  hsock[u] # cur
      BY <1>6, <3>1, <3>2, AliveInUse
    <3> QED
      BY <1>7, <3>1, <3>2
  <2> QED
    BY <2>1, <2>2
<1>16. SoleOwners'
  BY <1>11, <1>12, <1>13, <1>14, <1>15 DEF SoleOwners
<1> QED
  BY <1>4, <1>16

\* The inductive invariant holds at the start.
LEMMA InitIInv == Init => IInv
<1>1. ASSUME Init
      PROVE  IInv
  <2>0. /\ None \notin Clients /\ None \notin Descriptors
        /\ MEMBER_MAX \in Nat \ {0} /\ MaxFailures \in Nat
    BY RoomsAssumption DEF RoomsAssumption
  <2>1. TypeOK
    BY <1>1, <2>0
    DEF Init, RoomIds, Slots, TypeOK, GlobalsOK, NetStates, TableOK, MainOK,
        RoomHandlerOK, SocketHandlerOK
  <2>2. MutexOwned /\ MutexLeakHasCause /\ RoomsOpenInOrder /\ Opened /\ Watched
    BY <1>1, <2>0
    DEF Init, RoomIds, MutexOwned, MutexLeakHasCause, RoomsOpenInOrder, Opened,
        Watched
  <2>3. Unplaced /\ NoCrossRoomService /\ InfoFromRoom
    BY <1>1, <2>0
    DEF Init, Deciding, Unplaced, NoCrossRoomService, OneSlotPerClient,
        InfoFromRoom, ToRead, Serving
  <2>4. CountInRange /\ TableDense
    BY <1>1, <2>0 DEF Init, RoomIds, Slots, CountInRange, TableDense, Top
  <2>5. \A t \in Threads : ~Alive(t)
    BY <1>1 DEF Init, Alive, Serving
  <2>6. IdsFollow /\ SlotHeld
    <3>1. None \notin Descriptors
      BY RoomsAssumption DEF RoomsAssumption
    <3> QED
      BY <1>1, <2>5, <3>1 DEF Init, IdsFollow, SlotHeld
  <2>7. CalmIsSafe
    BY <1>1, <2>5 DEF Init, CalmIsSafe, SoleOwners, Deciding
  <2> QED
    BY <2>1, <2>2, <2>3, <2>4, <2>6, <2>7 DEF IInv
<1> QED
  BY <1>1

\* Every step keeps the inductive invariant.
LEMMA StepIInv == IInv /\ [Next]_vars => IInv'
<1>1. SUFFICES ASSUME IInv, [Next]_vars
               PROVE  IInv'
  OBVIOUS
<1>2. /\ TypeOK /\ MutexOwned /\ MutexLeakHasCause
      /\ RoomsOpenInOrder /\ Opened /\ Watched
      /\ Unplaced /\ NoCrossRoomService /\ InfoFromRoom
      /\ CountInRange /\ TableDense /\ IdsFollow /\ SlotHeld /\ CalmIsSafe
  BY <1>1 DEF IInv
<1>3. TypeOK'
  BY <1>1, <1>2, GlobalsOKStep, TableOKStep, MainOKStep, RoomHandlerOKStep,
     SocketHandlerOKStep
  DEF TypeOK
<1>4. MutexOwned' /\ MutexLeakHasCause'
  BY <1>1, <1>2, MutexOwnedStep, MutexLeakStep
<1>5. RoomsOpenInOrder' /\ Opened' /\ Watched'
  BY <1>1, <1>2, OpenedStep, WatchedStep
<1>6. Unplaced' /\ NoCrossRoomService' /\ InfoFromRoom'
  BY <1>1, <1>2, UnplacedStep, NoCrossStep, LockedInfoStep DEF InfoFromRoom
<1>7. CountInRange' /\ TableDense' /\ IdsFollow' /\ SlotHeld'
  <2>1. CASE orderly'
    BY <1>1, <1>2, <2>1, DenseStep, IdsFollowStep, SlotHeldStep
  <2>2. CASE ~orderly'
    BY <2>2 DEF CountInRange, TableDense, IdsFollow, SlotHeld
  <2> QED
    BY <2>1, <2>2
<1>8. CalmIsSafe'
  BY <1>1, <1>2, CalmStep DEF CalmIsSafe
<1> QED
  BY <1>3, <1>4, <1>5, <1>6, <1>7, <1>8 DEF IInv

\* Every behaviour of the server keeps the inductive invariant.
THEOREM Invariance == Spec => []IInv
BY InitIInv, StepIInv, PTL DEF Spec

\* Every variable keeps to the values the code can store in it.
THEOREM TypeCorrect == Spec => []TypeOK
<1>1. IInv => TypeOK
  BY DEF IInv
<1> QED
  BY Invariance, <1>1, PTL

\* The global mutex leaks only through a failed call or the refusal of a room.
THEOREM MutexLeaks == Spec => []MutexLeakHasCause
<1>1. IInv => MutexLeakHasCause
  BY DEF IInv
<1> QED
  BY Invariance, <1>1, PTL

\* The open rooms are 0..room_count whenever main() does not hold the mutex.
THEOREM RoomsInOrder == Spec => []RoomsOpenInOrder
<1>1. IInv => RoomsOpenInOrder
  BY DEF IInv
<1> QED
  BY Invariance, <1>1, PTL

\* The slots of a room are dense as long as members leave last-in first-out.
THEOREM Dense == Spec => []TableDense
<1>1. IInv => TableDense
  BY DEF IInv
<1> QED
  BY Invariance, <1>1, PTL

\* As long as the table is orderly, the line of a thread whose Info nobody rewrote
\* carries the id of the client that wrote it.
THEOREM Labels == Spec => []LabelsMatch
<1>1. IInv => LabelsMatch
  <2>1. SUFFICES ASSUME IInv, orderly, NEW t \in Threads \ torn,
                        hpc[t] = "serve", hsock[t] \in Descriptors \ reused,
                        peer[hsock[t]] # None
                 PROVE  ids[HandlerRoom(t)][hnum[t]] = peer[hsock[t]]
    BY DEF LabelsMatch
  <2>2. Alive(t) /\ Sock(t) = hsock[t] /\ Num(t) = hnum[t]
    BY <2>1 DEF Alive, Serving, Sock, Num
  <2>3. clnt_socks[HandlerRoom(t)][hnum[t]] = hsock[t]
    BY <2>1, <2>2 DEF IInv, SlotHeld
  <2>4. HandlerRoom(t) \in RoomIds /\ hnum[t] \in Slots
    BY <2>1
    DEF IInv, TypeOK, RoomHandlerOK, SocketHandlerOK, HandlerRoom
  <2> QED
    BY <2>1, <2>3, <2>4 DEF IInv, IdsFollow
<1> QED
  BY Invariance, <1>1, PTL

\* A client is in one slot and served only for its own room, except through a
\* descriptor that was returned again while in use.
THEOREM RoomsIsolated == Spec => []NoCrossRoomService
<1>1. IInv => NoCrossRoomService
  BY DEF IInv
<1> QED
  BY Invariance, <1>1, PTL

\* A descriptor is returned again while in use only after an Info was rewritten
\* before it was copied, or two room_handlers came to watch one room.
THEOREM ReuseCaused == Spec => []ReuseHasCause
<1>1. IInv => ReuseHasCause
  BY DEF IInv, CalmIsSafe, Calm, ReuseHasCause
<1> QED
  BY Invariance, <1>1, PTL

\* No step gives an occupied slot to another client while the table is orderly.
THEOREM SlotsKept == Spec => NoSlotStolen
<1>1. IInv /\ [Next]_vars =>
        [orderly' => \A r \in RoomIds, k \in Slots :
           clnt_socks[r][k] # None => clnt_socks'[r][k] \in {clnt_socks[r][k], None}
        ]_vars
  BY DenseStep DEF IInv
<1> QED
  BY Invariance, <1>1, PTL DEF Spec, NoSlotStolen

=============================================================================

------------------------------- MODULE Rooms -------------------------------
(***************************************************************************)
(* The room table of the blackboard server and the threads that share it:  *)
(* the accept loop of main(), one room_handler thread per room and one     *)
(* socket_handler thread per member (main.c, blackboard.c).                *)
(*                                                                         *)
(* The grain is that of the shared memory: a step is one critical section  *)
(* of the global mutex, or one access to rooms[], room_count or the Info   *)
(* record that a room_handler passes to the thread it creates, made        *)
(* without the mutex.  What a client types at login, and what the members  *)
(* say in a room, is abstracted to the sockets it makes the server write.  *)
(* The table holds descriptors: a number that a thread has closed is free, *)
(* and accept() may return it again for another client.                    *)
(***************************************************************************)
EXTENDS Sockets, FiniteSets

CONSTANTS
  Clients,      \* connections; a client that connects again is another one
  Descriptors,  \* the numbers that accept() returns (bounds the model)
  Threads,      \* identities of the socket_handler threads (bounds the model)
  None,         \* -1 in clnt_socks[] and tids[], the empty string in ids[]; no client
  MEMBER_MAX,   \* number of rooms, and of members of a room (16 in the code)
  MaxFailures,  \* how many MySQL or pthread_create calls fail in a behaviour
  MaxDeaths,    \* how many clients disappear in a behaviour
  Deaths        \* how they do: by a FIN, by an RST, or both

ASSUME RoomsAssumption ==
  /\ None \notin Clients \cup Descriptors \cup Threads
  /\ MEMBER_MAX \in Nat \ {0}
  /\ MaxFailures \in Nat
  /\ MaxDeaths \in Nat
  /\ Deaths \subseteq {"fin", "rst"}

RoomIds == 0 .. MEMBER_MAX - 1
Slots == 0 .. MEMBER_MAX - 1

VARIABLES
  net,          \* state of each connection as the server's kernel sees it
  backlog,      \* connections that accept() has not returned yet
  peer,         \* the client behind each descriptor, None when it is free
  mutex,        \* the global mutex: free, or the kind of thread holding it
  room_count,   \* index of the last room made
  roomnum, count, clnt_socks, tids, ids,    \* the fields of rooms[]
  main, cur, user, mroom, \* accept loop: pc, clnt_sock, id, room that was chosen
  rpc, rroom, rslot,      \* room_handler: pc, its roomnum and loop index i
  info_sock, info_num,    \* the Info on the stack of each room_handler
  hpc, hrh, hsock, hnum,  \* socket_handler: pc, creator, clnt_sock, clnt_num
  failures,     \* calls that have failed so far
  status,       \* the process is up, or died of SIGPIPE, or left an array's bounds
  orderly,      \* history: only last members left, and no join was cut short
  torn,         \* history: threads whose Info was rewritten before they copied it
  reused        \* history: descriptors returned again while still in use

tableVars == <<roomnum, count, clnt_socks, tids, ids>>
netVars == <<net, peer>>
mainVars == <<main, cur, user, mroom>>
rhVars == <<rpc, rroom, rslot, info_sock, info_num>>
hVars == <<hpc, hrh, hsock, hnum>>
historyVars == <<orderly, torn, reused>>
vars == <<netVars, backlog, mutex, room_count, tableVars, mainVars, rhVars,
          hVars, failures, status, historyVars>>

-----------------------------------------------------------------------------
\* The state of the connection behind a descriptor: a free one is closed.
State(d) == IF peer[d] = None THEN "closed" ELSE net[peer[d]]

\* A call of write() or read() on d returns -1.
Broken(d) == State(d) \in {"rst", "closed"}

\* n[d] calls of write() on each descriptor d.
Send(n) ==
  /\ net' = [c \in Clients |->
       IF \E d \in Descriptors : peer[d] = c
       THEN AfterWrites(net[c], n[CHOOSE d \in Descriptors : peer[d] = c])
       ELSE net[c]]
  /\ status' = IF \E d \in Descriptors : RaisesSigpipe(State(d), n[d])
                 THEN "sigpipe" ELSE status
  /\ UNCHANGED peer

\* n writes to d; one to every slot in K of room q.
To(d, n) == [e \in Descriptors |-> IF e = d THEN n ELSE 0]

Round(q, K) ==
  [d \in Descriptors |-> Cardinality({k \in K : clnt_socks[q][k] = d})]

\* The program counter of a thread of a process that is still up.
MainAt(pc) == status = "up" /\ main = pc
RoomAt(r, pc) == status = "up" /\ rpc[r] = pc
HandlerAt(t, pc) == status = "up" /\ hpc[t] = pc

Connect(c) ==
  /\ status = "up"
  /\ net[c] = "none"
  /\ net' = [net EXCEPT ![c] = "open"]
  /\ backlog' = backlog \cup {c}
  /\ UNCHANGED <<peer, mutex, room_count, tableVars, mainVars, rhVars, hVars,
                 failures, status, historyVars>>

\* The client program ends: its kernel sends a FIN or an RST.
Die(c, how) ==
  /\ status = "up"
  /\ net[c] = "open"
  /\ Cardinality({d \in Clients : net[d] \in {"fin", "rst", "gone", "closed"}})
       < MaxDeaths
  /\ net' = [net EXCEPT ![c] = how]
  /\ UNCHANGED <<peer, backlog, mutex, room_count, tableVars, mainVars, rhVars,
                 hVars, failures, status, historyVars>>

-----------------------------------------------------------------------------
(***************************************************************************)
(* main(): accept a client, let it log in, then let it make or enter a     *)
(* room.  One client at a time.                                            *)
(*                                                                         *)
(* A definition that ends in _Fault is a plausible bug of the definition   *)
(* that follows it; the project substitutes it to see which property       *)
(* notices.  No action uses one.                                           *)
(***************************************************************************)

\* Something in the server still refers to d: a slot, a thread, or an Info that a
\* thread will read.
Serving(t) == hpc[t] \in {"half", "init", "serve", "log", "leave"}

ToRead(r) == rpc[r] = "locked" \/ \E t \in Threads : hpc[t] = "start" /\ hrh[t] = r

InUse(d) ==
  \/ \E r \in RoomIds, k \in Slots : clnt_socks[r][k] = d
  \/ \E r \in RoomIds : ToRead(r) /\ info_sock[r] = d
  \/ \E t \in Threads : Serving(t) /\ hsock[t] = d

\* accept() and the "ACPT" greeting; a failed write drops the client.  What a
\* client types at login is the id that the table keeps.
Accept(c, d) ==
  /\ MainAt("accept")
  /\ c \in backlog /\ peer[d] = None
  /\ backlog' = backlog \ {c}
  /\ peer' = [peer EXCEPT ![d] = c]
  /\ cur' = d /\ user' = c
  /\ net' = [net EXCEPT ![c] = AfterWrites(@, 1)]
  /\ main' = IF net[c] = "rst" THEN "accept" ELSE "login"
  /\ reused' = IF InUse(d) THEN reused \cup {d} ELSE reused
  /\ UNCHANGED <<mutex, room_count, tableVars, mroom, rhVars, hVars, failures,
                 status, orderly, torn>>

\* The room count, when the password matched, then a line for each open room.
Login ==
  /\ MainAt("login")
  /\ \E logged \in {0, 1} :
       Send(To(cur, logged + Cardinality({r \in RoomIds : roomnum[r] # -1})))
  /\ main' = "choice"
  /\ UNCHANGED <<backlog, mutex, room_count, tableVars, cur, user, mroom,
                 rhVars, hVars, failures, historyVars>>

\* Every other way the dialog ends: a failed read or query, a message that is
\* not a choice, a room that does not exist.  The socket is left open.
Drop ==
  /\ (MainAt("login") \/ MainAt("choice"))
  /\ main' = "accept"
  /\ UNCHANGED <<netVars, backlog, mutex, room_count, tableVars, cur, user,
                 mroom, rhVars, hVars, failures, status, historyVars>>

Choose ==
  /\ MainAt("choice") /\ ~Broken(cur)
  /\ \/ main' = "make" /\ UNCHANGED mroom
     \/ /\ main' = "enter"
        /\ \E r \in RoomIds : r <= room_count /\ mroom' = r
  /\ UNCHANGED <<netVars, backlog, mutex, room_count, tableVars, cur, user,
                 rhVars, hVars, failures, status, historyVars>>

(***************************************************************************)
(* "4MAKE".  The early exits of this critical section are `continue`s that *)
(* do not unlock the mutex.                                                *)
(***************************************************************************)
MakeLock ==
  /\ MainAt("make")
  /\ mutex = "free"
  /\ mutex' = "main"
  /\ room_count' = room_count + 1
  /\ main' = "making"
  /\ UNCHANGED <<netVars, backlog, tableVars, cur, user, mroom, rhVars, hVars,
                 failures, status, historyVars>>

MutexAfterFailedMake_Fault == "free"

MutexAfterFailedMake == mutex

MakeDbFail ==
  /\ MainAt("making")
  /\ failures < MaxFailures
  /\ failures' = failures + 1
  /\ mutex' = MutexAfterFailedMake
  /\ main' = "accept"
  /\ UNCHANGED <<netVars, backlog, room_count, tableVars, cur, user, mroom,
                 rhVars, hVars, status, historyVars>>

MakeRefused ==
  /\ MainAt("making")
  /\ room_count >= MEMBER_MAX
  /\ Send(To(cur, 1))
  /\ room_count' = room_count - 1
  /\ main' = "accept"
  /\ UNCHANGED <<backlog, mutex, tableVars, cur, user, mroom, rhVars, hVars,
                 failures, historyVars>>

NewRoomNumber_Fault == room_count + 1

NewRoomNumber == room_count

\* The room is new, its count goes from -1 to 0: the "FULL" branch is dead code.
MakeRoom ==
  /\ MainAt("making")
  /\ room_count < MEMBER_MAX
  /\ LET k == count[room_count] + 1 IN
       /\ count' = [count EXCEPT ![room_count] = k]
       /\ clnt_socks' = [clnt_socks EXCEPT ![room_count][k] = cur]
       /\ ids' = [ids EXCEPT ![room_count][k] = user]
  /\ roomnum' = [roomnum EXCEPT ![room_count] = NewRoomNumber]
  /\ main' = "spawn"
  /\ UNCHANGED <<netVars, backlog, mutex, room_count, tids, cur, user, mroom,
                 rhVars, hVars, failures, status, historyVars>>

MakeSpawn_Fault ==
  /\ MainAt("spawn")
  /\ rpc' = [rpc EXCEPT ![room_count] = "start"]
  /\ main' = "accept"
  /\ UNCHANGED <<netVars, backlog, mutex, room_count, tableVars, cur, user,
                 mroom, rroom, rslot, info_sock, info_num, hVars, failures,
                 status, historyVars>>

\* The new thread gets the address of the global room_count, not its value.
MakeSpawn ==
  /\ MainAt("spawn")
  /\ rpc' = [rpc EXCEPT ![room_count] = "start"]
  /\ mutex' = "free"
  /\ main' = "accept"
  /\ UNCHANGED <<netVars, backlog, room_count, tableVars, cur, user, mroom,
                 rroom, rslot, info_sock, info_num, hVars, failures, status,
                 historyVars>>

MakeSpawnFail ==
  /\ MainAt("spawn")
  /\ failures < MaxFailures
  /\ failures' = failures + 1
  /\ mutex' = MutexAfterFailedMake
  /\ main' = "accept"
  /\ UNCHANGED <<netVars, backlog, room_count, tableVars, cur, user, mroom,
                 rhVars, hVars, status, historyVars>>

(***************************************************************************)
(* "4<n>".  The count is raised in one critical section and used as an     *)
(* index in another; between them the client is told the answer.           *)
(***************************************************************************)
EnterCount ==
  /\ MainAt("enter")
  /\ mutex = "free"
  /\ count' = [count EXCEPT ![mroom] = @ + 1]
  /\ main' = "reply"
  /\ UNCHANGED <<netVars, backlog, mutex, room_count, roomnum, clnt_socks, tids,
                 ids, cur, user, mroom, rhVars, hVars, failures, status,
                 historyVars>>

\* "FULL" is followed by "NOTF", and the client is then placed all the same;
\* only a write that fails keeps it out, and the count stays raised.
EnterReply ==
  /\ MainAt("reply")
  /\ Send(To(cur, IF count[mroom] >= MEMBER_MAX /\ ~Broken(cur) THEN 2 ELSE 1))
  /\ main' = IF Broken(cur) THEN "accept" ELSE "place"
  /\ orderly' = (orderly /\ ~Broken(cur))
  /\ UNCHANGED <<backlog, mutex, room_count, tableVars, cur, user, mroom,
                 rhVars, hVars, failures, torn, reused>>

EnterSlot_Fault == count[mroom] - 1

EnterSlot == count[mroom]

\* What follows a store outside clnt_socks[] and ids[] is not modelled.
EnterPlace ==
  /\ MainAt("place")
  /\ mutex = "free"
  /\ \/ /\ EnterSlot \in Slots
        /\ clnt_socks' = [clnt_socks EXCEPT ![mroom][EnterSlot] = cur]
        /\ ids' = [ids EXCEPT ![mroom][EnterSlot] = user]
        /\ main' = "accept"
        /\ UNCHANGED status
     \/ /\ EnterSlot \notin Slots
        /\ status' = "overrun"
        /\ UNCHANGED <<clnt_socks, ids, main>>
  /\ UNCHANGED <<netVars, backlog, mutex, room_count, roomnum, count, tids, cur,
                 user, mroom, rhVars, hVars, failures, historyVars>>

-----------------------------------------------------------------------------
(***************************************************************************)
(* room_handler(): a thread r made for room r that looks for members with  *)
(* no thread, round and round; a step of the model takes any index the     *)
(* loop visits.                                                            *)
(***************************************************************************)

\* *((int *)arg): the room_count of the moment the thread first runs.
RoomStart(r) ==
  /\ RoomAt(r, "start")
  /\ \/ /\ room_count \in RoomIds
        /\ rroom' = [rroom EXCEPT ![r] = room_count]
        /\ rpc' = [rpc EXCEPT ![r] = "scan"]
        /\ UNCHANGED status
     \/ /\ room_count \notin RoomIds
        /\ status' = "overrun"
        /\ UNCHANGED <<rroom, rpc>>
  /\ UNCHANGED <<netVars, backlog, mutex, room_count, tableVars, mainVars,
                 rslot, info_sock, info_num, hVars, failures, historyVars>>

\* The announcement goes round the slots in order and stops at a failed write.
Announced(q) ==
  {k \in Slots : \A i \in Slots :
     (i < k /\ clnt_socks[q][i] # None) => ~Broken(clnt_socks[q][i])}

\* The slots that `for(i = 0; i <= rooms[q].count; i++)` visits.
Visited_Fault(q) == {k \in Slots : k < count[q]}

Visited(q) == {k \in Slots : k <= count[q]}

\* Bound: a room_handler looks for work only while a thread identity is left.
ThreadLeft ==
  Cardinality({r \in RoomIds : rpc[r] \in {"found", "locked"}})
    < Cardinality({t \in Threads : hpc[t] = "unborn"})

RoomFind(r) ==
  /\ RoomAt(r, "scan")
  /\ ThreadLeft
  /\ \E k \in Visited(rroom[r]) :
       /\ clnt_socks[rroom[r]][k] # None
       /\ tids[rroom[r]][k] = None
       /\ rslot' = [rslot EXCEPT ![r] = k]
  /\ Send(Round(rroom[r], Announced(rroom[r])))
  /\ rpc' = [rpc EXCEPT ![r] = "found"]
  /\ UNCHANGED <<backlog, mutex, room_count, tableVars, mainVars, rroom,
                 info_sock, info_num, hVars, failures, historyVars>>

\* The slot is read again under the mutex, but not tested again.
RoomLock(r) ==
  /\ RoomAt(r, "found")
  /\ mutex = "free"
  /\ mutex' = "room"
  /\ info_sock' = [info_sock EXCEPT ![r] = clnt_socks[rroom[r]][rslot[r]]]
  /\ torn' = torn \cup {t \in Threads : hrh[t] = r /\ hpc[t] = "start"}
  /\ rpc' = [rpc EXCEPT ![r] = "locked"]
  /\ UNCHANGED <<netVars, backlog, room_count, tableVars, mainVars, rroom,
                 rslot, info_num, hVars, failures, status, orderly, reused>>

StillCopying(r) == {t \in Threads : hrh[t] = r /\ hpc[t] \in {"start", "half"}}

\* The thread gets the address of info, which the next iteration reuses.
RoomSpawn(r) ==
  /\ RoomAt(r, "locked")
  /\ info_num' = [info_num EXCEPT ![r] = rslot[r]]
  /\ torn' = torn \cup StillCopying(r)
  /\ \E t \in Threads :
       /\ hpc[t] = "unborn"
       /\ hpc' = [hpc EXCEPT ![t] = "start"]
       /\ hrh' = [hrh EXCEPT ![t] = r]
       /\ tids' = [tids EXCEPT ![rroom[r]][rslot[r]] = t]
  /\ mutex' = "free"
  /\ rpc' = [rpc EXCEPT ![r] = "scan"]
  /\ UNCHANGED <<netVars, backlog, room_count, roomnum, count, clnt_socks, ids,
                 mainVars, rroom, rslot, info_sock, hsock, hnum, failures,
                 status, orderly, reused>>

\* The `continue` after a failed pthread_create skips the unlock.
RoomSpawnFail(r) ==
  /\ RoomAt(r, "locked")
  /\ failures < MaxFailures
  /\ failures' = failures + 1
  /\ info_num' = [info_num EXCEPT ![r] = rslot[r]]
  /\ torn' = torn \cup StillCopying(r)
  /\ rpc' = [rpc EXCEPT ![r] = "scan"]
  /\ UNCHANGED <<netVars, backlog, mutex, room_count, tableVars, mainVars,
                 rroom, rslot, info_sock, hVars, status, orderly, reused>>

-----------------------------------------------------------------------------
(***************************************************************************)
(* socket_handler(): the thread of one member.                             *)
(***************************************************************************)
HandlerRoom_Fault(t) == hrh[t]

HandlerRoom(t) == rroom[hrh[t]]

\* Info info = *((Info *)arg), field by field and without the mutex.
HandlerCopySock(t) ==
  /\ HandlerAt(t, "start")
  /\ hsock' = [hsock EXCEPT ![t] = info_sock[hrh[t]]]
  /\ hpc' = [hpc EXCEPT ![t] = "half"]
  /\ UNCHANGED <<netVars, backlog, mutex, room_count, tableVars, mainVars,
                 rhVars, hrh, hnum, failures, status, historyVars>>

HandlerCopyNum(t) ==
  /\ HandlerAt(t, "half")
  /\ hnum' = [hnum EXCEPT ![t] = info_num[hrh[t]]]
  /\ hpc' = [hpc EXCEPT ![t] = "init"]
  /\ UNCHANGED <<netVars, backlog, mutex, room_count, tableVars, mainVars,
                 rhVars, hrh, hsock, failures, status, historyVars>>

\* The stored chat log, a line per write, and the open file.
HandlerInit(t) ==
  /\ HandlerAt(t, "init")
  /\ \E n \in 0 .. 2 : Send(To(hsock[t], n))
  /\ hpc' = [hpc EXCEPT ![t] = "serve"]
  /\ UNCHANGED <<backlog, mutex, room_count, tableVars, mainVars, rhVars, hrh,
                 hsock, hnum, failures, historyVars>>

\* A query fails, before or after the log is sent: the thread returns and
\* leaves the table as it is.
HandlerInitFail(t) ==
  /\ HandlerAt(t, "init")
  /\ failures < MaxFailures
  /\ failures' = failures + 1
  /\ \E n \in 0 .. 2 : Send(To(hsock[t], n))
  /\ hpc' = [hpc EXCEPT ![t] = "failed"]
  /\ UNCHANGED <<backlog, mutex, room_count, tableVars, mainVars, rhVars, hrh,
                 hsock, hnum, historyVars>>

\* A chat line goes to slots 0..count, then, under the mutex, to the log.
HandlerChat(t) ==
  /\ HandlerAt(t, "serve")
  /\ hsock[t] # None
  /\ State(hsock[t]) = "open"
  /\ LET q == HandlerRoom(t) IN Send(Round(q, Visited(q)))
  /\ hpc' = [hpc EXCEPT ![t] = "log"]
  /\ UNCHANGED <<backlog, mutex, room_count, tableVars, mainVars, rhVars, hrh,
                 hsock, hnum, failures, historyVars>>

MutexAfterLog_Fault == "client"

MutexAfterLog == "free"

HandlerLog(t) ==
  /\ HandlerAt(t, "log")
  /\ mutex = "free"
  /\ mutex' = MutexAfterLog
  /\ hpc' = [hpc EXCEPT ![t] = "serve"]
  /\ UNCHANGED <<netVars, backlog, room_count, tableVars, mainVars, rhVars, hrh,
                 hsock, hnum, failures, status, historyVars>>

\* The `continue`s after a failed MySQL call skip the unlock.
HandlerLogFail(t) ==
  /\ HandlerAt(t, "log")
  /\ mutex = "free"
  /\ failures < MaxFailures
  /\ failures' = failures + 1
  /\ mutex' = "client"
  /\ hpc' = [hpc EXCEPT ![t] = "serve"]
  /\ UNCHANGED <<netVars, backlog, room_count, tableVars, mainVars, rhVars, hrh,
                 hsock, hnum, status, historyVars>>

\* read() returns -1.  When it returns 0 the loop goes on reading.
HandlerReadError(t) ==
  /\ HandlerAt(t, "serve")
  /\ hsock[t] # None => Broken(hsock[t])
  /\ net' = IF hsock[t] = None \/ peer[hsock[t]] = None THEN net
            ELSE [net EXCEPT ![peer[hsock[t]]] = AfterWrites(@, 1)]
  /\ hpc' = [hpc EXCEPT ![t] = "leave"]
  /\ UNCHANGED <<peer, backlog, mutex, room_count, tableVars, mainVars, rhVars,
                 hrh, hsock, hnum, failures, status, historyVars>>

LeavesLast(t) ==
  LET q == HandlerRoom(t) IN
    /\ clnt_socks[q][hnum[t]] = hsock[t] /\ hsock[t] # None
    /\ \A k \in Slots : k > hnum[t] => clnt_socks[q][k] = None

ErasedId_Fault(q) == count[q] - 1

ErasedId(q) == count[q]

\* The thread frees its slot and the descriptor, and erases the id of slot count,
\* not of its own.
HandlerLeave(t) ==
  /\ HandlerAt(t, "leave")
  /\ mutex = "free"
  /\ LET q == HandlerRoom(t) IN
       /\ clnt_socks' = [clnt_socks EXCEPT ![q][hnum[t]] = None]
       /\ tids' = [tids EXCEPT ![q][hnum[t]] = None]
       /\ count' = [count EXCEPT ![q] = @ - 1]
       /\ \/ /\ ErasedId(q) \in Slots
             /\ ids' = [ids EXCEPT ![q][ErasedId(q)] = None]
             /\ UNCHANGED status
          \/ /\ ErasedId(q) \notin Slots
             /\ status' = "overrun"
             /\ UNCHANGED ids
  /\ orderly' = (orderly /\ LeavesLast(t))
  /\ IF hsock[t] = None \/ peer[hsock[t]] = None THEN UNCHANGED netVars
     ELSE /\ net' = [net EXCEPT ![peer[hsock[t]]] = "closed"]
          /\ peer' = [peer EXCEPT ![hsock[t]] = None]
  /\ hpc' = [hpc EXCEPT ![t] = "exited"]
  /\ UNCHANGED <<backlog, mutex, room_count, roomnum, mainVars, rhVars, hrh,
                 hsock, hnum, failures, torn, reused>>

-----------------------------------------------------------------------------
(* serv_init() and the start of main().                                    *)
Init ==
  /\ net = [c \in Clients |-> "none"]
  /\ peer = [d \in Descriptors |-> None]
  /\ backlog = {}
  /\ mutex = "free"
  /\ room_count = -1
  /\ roomnum = [r \in RoomIds |-> -1]
  /\ count = [r \in RoomIds |-> -1]
  /\ clnt_socks = [r \in RoomIds |-> [k \in Slots |-> None]]
  /\ tids = [r \in RoomIds |-> [k \in Slots |-> None]]
  /\ ids = [r \in RoomIds |-> [k \in Slots |-> None]]
  /\ main = "accept" /\ cur = None /\ user = None /\ mroom = 0
  /\ rpc = [r \in RoomIds |-> "none"]
  /\ rroom = [r \in RoomIds |-> 0]
  /\ rslot = [r \in RoomIds |-> 0]
  /\ info_sock = [r \in RoomIds |-> None]
  /\ info_num = [r \in RoomIds |-> 0]
  /\ hpc = [t \in Threads |-> "unborn"]
  /\ hrh = [t \in Threads |-> 0]
  /\ hsock = [t \in Threads |-> None]
  /\ hnum = [t \in Threads |-> 0]
  /\ failures = 0
  /\ status = "up"
  /\ orderly = TRUE /\ torn = {} /\ reused = {}

Environment ==
  \E c \in Clients : Connect(c) \/ \E how \in Deaths : Die(c, how)

\* What main() does without waiting for its client.
MainRuns ==
  \/ \E c \in Clients, d \in Descriptors : Accept(c, d)
  \/ Login
  \/ MakeLock \/ MakeRefused \/ MakeRoom \/ MakeSpawn
  \/ EnterCount \/ EnterReply \/ EnterPlace

MainMayDo == Choose \/ Drop \/ MakeDbFail \/ MakeSpawnFail

RoomRuns(r) == RoomStart(r) \/ RoomFind(r) \/ RoomLock(r) \/ RoomSpawn(r)

HandlerRuns(t) ==
  \/ HandlerCopySock(t) \/ HandlerCopyNum(t) \/ HandlerInit(t)
  \/ HandlerLog(t) \/ HandlerReadError(t) \/ HandlerLeave(t)

HandlerMayDo(t) == HandlerChat(t) \/ HandlerInitFail(t) \/ HandlerLogFail(t)

Next ==
  \/ Environment
  \/ MainRuns \/ MainMayDo
  \/ \E r \in RoomIds : RoomRuns(r) \/ RoomSpawnFail(r)
  \/ \E t \in Threads : HandlerRuns(t) \/ HandlerMayDo(t)

Spec == Init /\ [][Next]_vars

\* The scheduler runs every thread that is neither blocked nor waiting for a
\* client; no client is obliged to speak, to choose or to die.  That a write()
\* ends assumes that the clients read: one that does not for long enough to fill
\* its buffer blocks the thread that writes to it (SharedFile models this).
Fairness ==
  /\ WF_vars(MainRuns)
  /\ \A r \in RoomIds : WF_vars(RoomRuns(r))
  /\ \A t \in Threads : WF_vars(HandlerRuns(t))

FairSpec == Spec /\ Fairness

-----------------------------------------------------------------------------
(* Properties.                                                             *)

\* Every variable keeps to the values the code can store in it; a room number,
\* once stored, indexes rooms[].
GlobalsOK ==
  /\ net \in [Clients -> NetStates]
  /\ peer \in [Descriptors -> Clients \cup {None}]
  /\ backlog \subseteq Clients
  /\ mutex \in {"free", "main", "room", "client"}
  /\ room_count \in -1 .. MEMBER_MAX
  /\ failures \in 0 .. MaxFailures
  /\ status \in {"up", "sigpipe", "overrun"}
  /\ orderly \in BOOLEAN /\ torn \subseteq Threads /\ reused \subseteq Descriptors

TableOK ==
  /\ roomnum \in [RoomIds -> RoomIds \cup {-1}]
  /\ count \in [RoomIds -> Int]
  /\ clnt_socks \in [RoomIds -> [Slots -> Descriptors \cup {None}]]
  /\ tids \in [RoomIds -> [Slots -> Threads \cup {None}]]
  /\ ids \in [RoomIds -> [Slots -> Clients \cup {None}]]

MainOK ==
  /\ main \in {"accept", "login", "choice", "make", "making", "spawn", "enter",
              "reply", "place"}
  /\ cur \in Descriptors \cup {None}
  /\ user \in Clients \cup {None}
  /\ mroom \in RoomIds

RoomHandlerOK ==
  /\ rpc \in [RoomIds -> {"none", "start", "scan", "found", "locked"}]
  /\ rroom \in [RoomIds -> RoomIds]
  /\ rslot \in [RoomIds -> Slots]
  /\ info_sock \in [RoomIds -> Descriptors \cup {None}]
  /\ info_num \in [RoomIds -> Slots]

SocketHandlerOK ==
  /\ hpc \in [Threads -> {"unborn", "start", "half", "init", "serve", "log",
                         "leave", "exited", "failed"}]
  /\ hrh \in [Threads -> RoomIds]
  /\ hsock \in [Threads -> Descriptors \cup {None}]
  /\ hnum \in [Threads -> Slots]

TypeOK ==
  /\ GlobalsOK /\ TableOK /\ MainOK /\ RoomHandlerOK /\ SocketHandlerOK

\* The global mutex stays locked outside the critical section of the thread
\* that locked it only after a MySQL or pthread_create call failed, or after a
\* client asked for one room more than there are (main.c, blackboard.c: the
\* `continue`s between lock and unlock).
MutexLeakHasCause ==
  \/ mutex = "free"
  \/ mutex = "main" /\ main \in {"making", "spawn"}
  \/ mutex = "room" /\ \E r \in RoomIds : rpc[r] = "locked"
  \/ failures > 0
  \/ room_count = MEMBER_MAX - 1 /\ \A r \in RoomIds : roomnum[r] = r

\* The open rooms are 0..room_count, each under its own number, whenever main()
\* does not hold the mutex: the room count sent at login, the list of rooms and
\* the range tested at "4<n>" agree.  Rooms are never opened beyond the count.
RoomsOpenInOrder ==
  /\ \A r \in RoomIds : roomnum[r] # -1 => roomnum[r] = r /\ r <= room_count
  /\ mutex # "main" => \A r \in RoomIds : r <= room_count => roomnum[r] = r

\* The last slot in use of room r: main() raises the count before it stores.
Top(r) == IF main \in {"reply", "place"} /\ mroom = r THEN count[r] - 1
                                                      ELSE count[r]

\* While members leave last-in first-out and no join is cut short, the slots in
\* use are exactly 0..count, so that every loop over 0..count sees every member
\* (the use of count in main.c and blackboard.c).
TableDense ==
  orderly => \A r \in RoomIds, k \in Slots :
    clnt_socks[r][k] # None <=> k <= Top(r)

\* Under the same condition a chat line is labelled with the id of the client that
\* wrote it, although a thread that leaves erases the id of slot count and not the
\* one of its own slot (blackboard.c:228, 202).  Excepted are the threads whose
\* Info was rewritten before they had copied it, which label the lines of one
\* client with the id of another, and descriptors returned again while in use.
LabelsMatch ==
  orderly => \A t \in Threads \ torn :
    (hpc[t] = "serve" /\ hsock[t] \in Descriptors \ reused /\ peer[hsock[t]] # None)
      => ids[HandlerRoom(t)][hnum[t]] = peer[hsock[t]]

\* A store into an occupied slot only empties it: under the same condition no
\* client takes the slot of another one.
NoSlotStolen ==
  [][orderly' => \A r \in RoomIds, k \in Slots :
       clnt_socks[r][k] # None => clnt_socks'[r][k] \in {clnt_socks[r][k], None}
    ]_vars

\* A client is in one slot of one room, and a thread only serves a client that
\* joined the room the thread sends to: chat never crosses rooms, whatever the
\* races on the Info record and the order in which members leave.  Excepted are
\* the descriptors that accept() returned again while a slot or a thread still
\* referred to their former client (blackboard.c:204): through these it does.
OneSlotPerClient ==
  \A r, q \in RoomIds, j, k \in Slots :
    (clnt_socks[r][j] = clnt_socks[q][k] /\ clnt_socks[r][j] \in Descriptors \ reused)
      => r = q /\ j = k

NoCrossRoomService ==
  /\ OneSlotPerClient
  /\ \A t \in Threads : Serving(t) /\ hsock[t] \in Descriptors \ reused =>
       \A r \in RoomIds \ {HandlerRoom(t)}, k \in Slots :
         clnt_socks[r][k] # hsock[t]

\* A descriptor is returned again while in use only after a thread has lost its
\* Info to the next one, or two room_handlers have come to watch one room; without
\* them every thread is the only one that refers to what it closes, whatever slot
\* it had, and however joins and departures overlap.
Watches(r, q) == rpc[r] \notin {"none", "start"} /\ rroom[r] = q

SingleWatch ==
  \A r, p, q \in RoomIds : Watches(r, q) /\ Watches(p, q) => r = p

ReuseHasCause == reused # {} => torn # {} \/ ~SingleWatch

\* Liveness.  A member within 0..count gets a thread when its room is watched.
Waiting(r, k) ==
  /\ clnt_socks[r][k] # None
  /\ tids[r][k] = None
  /\ k <= count[r]

SlotServed ==
  \A r \in RoomIds, k \in Slots :
    (Waiting(r, k) /\ \E q \in RoomIds : rpc[q] = "scan" /\ rroom[q] = r)
      ~> (~Waiting(r, k) \/ status # "up")

\* A thread that noticed the end of its client gives the slot back.
LeaveCompletes ==
  \A t \in Threads : hpc[t] = "leave" ~> (hpc[t] = "exited" \/ status # "up")

-----------------------------------------------------------------------------
(* What the documentation says and the code does not do.                   *)

\* README.md: chat is delivered to the other clients.  A member whose thread
\* serves an open connection would then be within the slots a broadcast visits, at
\* least when every thread has copied the Info that was meant for it.
MembersReachable ==
  status = "up" /\ torn = {} => \A t \in Threads :
    (hpc[t] = "serve" /\ hsock[t] # None) =>
      (State(hsock[t]) = "open" =>
         \E k \in Visited(HandlerRoom(t)) :
           clnt_socks[HandlerRoom(t)][k] = hsock[t])

\* README.md: the abrupt end of a client is noticed.
DeathNoticed ==
  \A t \in Threads :
    (hpc[t] = "serve" /\ hsock[t] # None /\ State(hsock[t]) # "open")
      ~> (hpc[t] = "exited" \/ status # "up")

=============================================================================

--------------------------- MODULE RoomsInductive ---------------------------
(* The inductive invariant behind the theorems of RoomsProofs, in parts.   *)
EXTENDS Rooms

\* The mutex is owned by the thread that is in a critical section; room_count
\* exceeds the table only inside the one of main(), or after it leaked.
MutexOwned ==
  /\ main \in {"making", "spawn"} => mutex = "main"
  /\ \A r \in RoomIds : rpc[r] = "locked" => mutex = "room"
  /\ \A r, q \in RoomIds : rpc[r] = "locked" /\ rpc[q] = "locked" => r = q
  /\ room_count = MEMBER_MAX => mutex = "main"

\* The rooms that are open, at every point of "4MAKE" and "4<n>".
Opened ==
  /\ main = "making" =>
       /\ room_count >= 0
       /\ \A r \in RoomIds : r < room_count => roomnum[r] = r
       /\ \A r \in RoomIds : r = room_count => roomnum[r] = -1
  /\ main = "spawn" =>
       /\ room_count \in RoomIds
       /\ \A r \in RoomIds : r <= room_count => roomnum[r] = r
  /\ main \in {"enter", "reply", "place"} => mroom <= room_count
  /\ main \in {"reply", "place"} => roomnum[mroom] = mroom

\* A room_handler exists only for an open room.
Watched ==
  /\ \A r \in RoomIds : roomnum[r] = -1 => rpc[r] = "none"
  /\ main = "spawn" => rpc[room_count] = "none"
  /\ \A r \in RoomIds : rpc[r] \in {"none", "start"} => info_sock[r] = None
  /\ \A t \in Threads : hpc[t] = "unborn" => hsock[t] = None
  /\ \A t \in Threads :
       hpc[t] # "unborn" => rpc[hrh[t]] \notin {"none", "start"}

\* main() still has to place the client it deals with, whose descriptor nothing
\* refers to yet; what main() holds as its id is the client behind it.
Deciding ==
  main \in {"login", "choice", "make", "making", "enter", "reply", "place"}

Unplaced ==
  Deciding =>
    /\ cur \in Descriptors /\ user # None
    /\ peer[cur] \in {user, None}
    /\ InUse(cur) => cur \in reused

\* The Info that a thread will read holds a client of the room that is watched, and
\* under the mutex what its slot holds.
InfoFromRoom ==
  /\ \A q \in RoomIds : (ToRead(q) /\ info_sock[q] \in Descriptors \ reused) =>
       \A r \in RoomIds \ {rroom[q]}, k \in Slots : clnt_socks[r][k] # info_sock[q]
  /\ \A q \in RoomIds : rpc[q] = "locked" =>
       info_sock[q] = clnt_socks[rroom[q]][rslot[q]]

\* A count within the table, and the count of a room that was never made.
CountInRange ==
  orderly =>
    /\ \A r \in RoomIds : Top(r) \in -1 .. MEMBER_MAX - 1
    /\ \A r \in RoomIds : roomnum[r] = -1 => count[r] = -1

\* The table has the id of the client behind each of its descriptors.
IdsFollow ==
  orderly => \A r \in RoomIds, k \in Slots :
    LET d == clnt_socks[r][k] IN
      (d \in Descriptors \ reused /\ peer[d] # None) => ids[r][k] = peer[d]

\* The clnt_sock and clnt_num that a thread has copied or will, when nobody rewrites
\* its Info.
Alive(t) == hpc[t] = "start" \/ Serving(t)
Sock(t) == IF hpc[t] = "start" THEN info_sock[hrh[t]] ELSE hsock[t]
Num(t) == IF hpc[t] \in {"start", "half"} THEN info_num[hrh[t]] ELSE hnum[t]

\* While its client is connected, the slot of a thread holds it.
SlotHeld ==
  orderly => \A t \in Threads \ torn :
    (Alive(t) /\ Sock(t) \in Descriptors \ reused /\ peer[Sock(t)] # None)
      => clnt_socks[HandlerRoom(t)][Num(t)] = Sock(t)

\* Without torn records and with one room_handler to a room, every thread has a
\* slot and a descriptor of its own, and nothing refers to a free descriptor.
Calm == torn = {} /\ SingleWatch

SoleOwners ==
  /\ \A t \in Threads : Alive(t) =>
       /\ Sock(t) \in Descriptors /\ peer[Sock(t)] # None
       /\ tids[HandlerRoom(t)][Num(t)] = t
       /\ \A r \in RoomIds, k \in Slots :
            clnt_socks[r][k] = Sock(t) => r = HandlerRoom(t) /\ k = Num(t)
  /\ \A t, u \in Threads : Alive(t) /\ Alive(u) /\ Sock(t) = Sock(u) => t = u
  /\ \A r \in RoomIds, k \in Slots :
       clnt_socks[r][k] # None => peer[clnt_socks[r][k]] # None
  /\ \A r \in RoomIds : rpc[r] \in {"found", "locked"} =>
       /\ tids[rroom[r]][rslot[r]] = None
       /\ clnt_socks[rroom[r]][rslot[r]] # None
  /\ Deciding => peer[cur] # None

CalmIsSafe == Calm => reused = {} /\ SoleOwners

IInv ==
  /\ TypeOK /\ MutexOwned /\ MutexLeakHasCause
  /\ RoomsOpenInOrder /\ Opened /\ Watched
  /\ Unplaced /\ NoCrossRoomService /\ InfoFromRoom
  /\ CountInRange /\ TableDense /\ IdsFollow /\ SlotHeld
  /\ CalmIsSafe

=============================================================================

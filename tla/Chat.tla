-------------------------------- MODULE Chat --------------------------------
(***************************************************************************)
(* Chat in one room: a line goes to every member, slot by slot, and then   *)
(* into the table chat_tb<n>, from which a member that enters is sent what *)
(* was said before (blackboard.c, socket_handler and room_handler).        *)
(*                                                                         *)
(* The loops hold no lock; the INSERT is made under the global mutex and   *)
(* the SELECT is not.  A step is one write() to a socket, one query, or    *)
(* one critical section.  Each query opens a connection to MySQL that is   *)
(* never closed.                                                           *)
(***************************************************************************)
EXTENDS Sockets, Sequences, FiniteSets

CONSTANTS
  Members,      \* clients that enter the room
  None,         \* -1 in clnt_socks[]
  MEMBER_MAX,   \* slots of a room (16 in the code)
  MaxConns,     \* connections the MySQL server accepts
  MaxLines,     \* how many lines one client says in a behaviour
  MaxTalk,      \* how many lines all clients say
  MaxFailures,  \* how many queries fail in a behaviour
  MaxDeaths,    \* how many clients disappear in a behaviour
  Deaths        \* how they do: by a FIN, by an RST, or both

ASSUME ChatAssumption ==
  /\ IsFiniteSet(Members) /\ None \notin Members
  /\ MEMBER_MAX \in Nat \ {0}
  /\ MaxConns \in Nat /\ MaxLines \in Nat /\ MaxTalk \in Nat
  /\ MaxFailures \in Nat /\ MaxDeaths \in Nat
  /\ Deaths \subseteq {"fin", "rst"}

Slots == 0 .. MEMBER_MAX - 1

\* The n-th line that a member says.
Lines == [from : Members, n : 1 .. MaxLines]

LinesSaid(f) == Cardinality({line \in Lines : line.n <= f[line.from]})

VARIABLES
  net, status,              \* connections, and whether the process is up
  mutex,                    \* free, or left locked by a thread ("client")
  count, clnt_socks,        \* the members of rooms[r]
  hpc, clnt_num,            \* socket_handler: pc and slot
  buf, sd,                  \* the line it handles, and its loop index i
  result,                   \* the rows of its SELECT that it has still to send
  conns, failures,          \* MySQL connections; queries that have failed
  chat_tb,                  \* the rows of the table, in order
  said, outbox,             \* lines said by each client; those not yet read
  screen,                   \* what was written to each client, in order
  stable,                   \* history: no member has left
  audience,                 \* history: who was in the room when buf was read
  missed                    \* history: see HandlerSelect

roomVars == <<count, clnt_socks>>
dbVars == <<conns, failures, chat_tb>>
clientVars == <<said, outbox>>
historyVars == <<stable, audience, missed>>
vars == <<net, status, mutex, roomVars, hpc, clnt_num, buf, sd, result, dbVars,
          clientVars, screen, historyVars>>

\* What the client is shown; that a line is not from the table is a ghost.
Live(line) == [line |-> line, live |-> TRUE]
Stored(line) == [line |-> line, live |-> FALSE]

HandlerAt(m, pc) == status = "up" /\ hpc[m] = pc

\* The members in slots 0..count, which the loops visit.
InReach == {clnt_socks[k] : k \in {j \in Slots : j <= count}} \ {None}

\* One call of write() on the socket of c.
WriteTo(c, shown) ==
  /\ screen' = IF net[c] = "open" THEN [screen EXCEPT ![c] = Append(@, shown)]
                                  ELSE screen
  /\ net' = [net EXCEPT ![c] = AfterWrites(@, 1)]
  /\ status' = IF RaisesSigpipe(net[c], 1) THEN "sigpipe" ELSE status

-----------------------------------------------------------------------------
(* The clients.                                                            *)
Speak(m) ==
  /\ status = "up" /\ net[m] = "open"
  /\ said[m] < MaxLines /\ LinesSaid(said) < MaxTalk
  /\ said' = [said EXCEPT ![m] = @ + 1]
  /\ outbox' = [outbox EXCEPT ![m] = Append(@, [from |-> m, n |-> said'[m]])]
  /\ UNCHANGED <<net, status, mutex, roomVars, hpc, clnt_num, buf, sd, result,
                 dbVars, screen, historyVars>>

Die(m, how) ==
  /\ status = "up" /\ net[m] = "open"
  /\ Cardinality({n \in Members : net[n] \in {"fin", "rst", "gone", "closed"}})
       < MaxDeaths
  /\ net' = [net EXCEPT ![m] = how]
  /\ UNCHANGED <<status, mutex, roomVars, hpc, clnt_num, buf, sd, result,
                 dbVars, clientVars, screen, historyVars>>

-----------------------------------------------------------------------------
(***************************************************************************)
(* Entering the room.  Rooms has the two critical sections of main() and   *)
(* the places that are taken; here a client takes the next one, when it is *)
(* free, and waits for room_handler to start its thread.                   *)
(*                                                                         *)
(* A definition that ends in _Fault is a plausible bug of the definition   *)
(* that follows it; the project substitutes it to see which property       *)
(* notices.  No action uses one.                                           *)
(***************************************************************************)
Place(m) ==
  /\ status = "up" /\ net[m] = "none"
  /\ mutex = "free"
  /\ count + 1 \in Slots /\ clnt_socks[count + 1] = None
  /\ net' = [net EXCEPT ![m] = "open"]
  /\ count' = count + 1
  /\ clnt_socks' = [clnt_socks EXCEPT ![count + 1] = m]
  /\ clnt_num' = [clnt_num EXCEPT ![m] = count + 1]
  /\ hpc' = [hpc EXCEPT ![m] = "placed"]
  /\ UNCHANGED <<status, mutex, buf, sd, result, dbVars, clientVars, screen,
                 historyVars>>

\* The announcement goes round the slots in order and stops at a failed write.
Announced ==
  {clnt_socks[k] : k \in {j \in Slots : \A i \in Slots :
     (i < j /\ clnt_socks[i] # None) => net[clnt_socks[i]] \notin {"rst", "closed"}
  }} \ {None}

\* room_handler announces a member within 0..count and creates its thread.
Start(m) ==
  /\ HandlerAt(m, "placed")
  /\ mutex = "free"
  /\ m \in InReach
  /\ net' = [c \in Members |-> IF c \in Announced THEN AfterWrites(net[c], 1)
                                                  ELSE net[c]]
  /\ status' = IF \E c \in Announced : RaisesSigpipe(net[c], 1)
                 THEN "sigpipe" ELSE status
  /\ hpc' = [hpc EXCEPT ![m] = "query"]
  /\ UNCHANGED <<mutex, roomVars, clnt_num, buf, sd, result, dbVars,
                 clientVars, screen, historyVars>>

\* SELECT * FROM chat_tb.  Lines that are on their way to the table, and were
\* read before m came, are missed[m].
HandlerSelect(m) ==
  /\ HandlerAt(m, "query")
  /\ conns < MaxConns
  /\ conns' = conns + 1
  /\ result' = [result EXCEPT ![m] = chat_tb]
  /\ missed' = [missed EXCEPT ![m] =
       {buf[n] : n \in {k \in Members : /\ hpc[k] \in {"send", "store"}
                                        /\ m \notin audience[k]}}]
  /\ hpc' = [hpc EXCEPT ![m] = "replay"]
  /\ UNCHANGED <<net, status, mutex, roomVars, clnt_num, buf, sd, failures,
                 chat_tb, clientVars, screen, stable, audience>>

\* The thread returns, and leaves its client in the room.
HandlerSelectFail(m) ==
  /\ HandlerAt(m, "query")
  /\ \/ /\ conns = MaxConns
        /\ UNCHANGED <<conns, failures>>
     \/ /\ conns < MaxConns /\ failures < MaxFailures
        /\ conns' = conns + 1 /\ failures' = failures + 1
  /\ hpc' = [hpc EXCEPT ![m] = "failed"]
  /\ UNCHANGED <<net, status, mutex, roomVars, clnt_num, buf, sd, result,
                 chat_tb, clientVars, screen, historyVars>>

\* A row per write; a write that fails ends the loop.
HandlerReplay(m) ==
  /\ HandlerAt(m, "replay")
  /\ result[m] # <<>> /\ net[m] \notin {"rst", "closed"}
  /\ WriteTo(m, Stored(Head(result[m])))
  /\ result' = [result EXCEPT ![m] = Tail(@)]
  /\ UNCHANGED <<mutex, roomVars, hpc, clnt_num, buf, sd, dbVars, clientVars,
                 historyVars>>

HandlerReplayed(m) ==
  /\ HandlerAt(m, "replay")
  /\ \/ result[m] = <<>>
        /\ UNCHANGED <<net, result>>
     \/ /\ result[m] # <<>> /\ net[m] \in {"rst", "closed"}
        /\ net' = [net EXCEPT ![m] = AfterWrites(@, 1)]
        /\ result' = [result EXCEPT ![m] = <<>>]
  /\ hpc' = [hpc EXCEPT ![m] = "read"]
  /\ UNCHANGED <<status, mutex, roomVars, clnt_num, buf, sd, dbVars,
                 clientVars, screen, historyVars>>

-----------------------------------------------------------------------------
(* A line of chat.                                                         *)
Unread_Fault(s) == s

Unread(s) == Tail(s)

HandlerRead(m) ==
  /\ HandlerAt(m, "read")
  /\ net[m] \in {"open", "fin"} /\ outbox[m] # <<>>
  /\ buf' = [buf EXCEPT ![m] = Head(outbox[m])]
  /\ outbox' = [outbox EXCEPT ![m] = Unread(@)]
  /\ sd' = [sd EXCEPT ![m] = 0]
  /\ audience' = [audience EXCEPT ![m] = InReach]
  /\ hpc' = [hpc EXCEPT ![m] = "send"]
  /\ UNCHANGED <<net, status, mutex, roomVars, clnt_num, result, dbVars, said,
                 screen, stable, missed>>

SlotsLeft_Fault(m) == sd[m] < count

SlotsLeft(m) == sd[m] <= count

\* The author gets its own line too; what write() returns is not looked at.
HandlerSend(m) ==
  /\ HandlerAt(m, "send")
  /\ SlotsLeft(m)
  /\ sd' = [sd EXCEPT ![m] = @ + 1]
  /\ LET c == clnt_socks[sd[m]] IN
       \/ c = None /\ UNCHANGED <<net, status, screen>>
       \/ c # None /\ WriteTo(c, Live(buf[m]))
  /\ UNCHANGED <<mutex, roomVars, hpc, clnt_num, buf, result, dbVars,
                 clientVars, historyVars>>

HandlerSent(m) ==
  /\ HandlerAt(m, "send")
  /\ ~SlotsLeft(m)
  /\ hpc' = [hpc EXCEPT ![m] = "store"]
  /\ UNCHANGED <<net, status, mutex, roomVars, clnt_num, buf, sd, result,
                 dbVars, clientVars, screen, historyVars>>

\* Lock, connect, INSERT, unlock.
HandlerStore(m) ==
  /\ HandlerAt(m, "store")
  /\ mutex = "free"
  /\ conns < MaxConns
  /\ conns' = conns + 1
  /\ chat_tb' = Append(chat_tb, buf[m])
  /\ hpc' = [hpc EXCEPT ![m] = "read"]
  /\ UNCHANGED <<net, status, mutex, roomVars, clnt_num, buf, sd, result, failures,
                 clientVars, screen, historyVars>>

MutexAfterFailure_Fault == "free"

MutexAfterFailure == "client"

\* The `continue`s after a failed call skip the unlock.
HandlerStoreFail(m) ==
  /\ HandlerAt(m, "store")
  /\ mutex = "free"
  /\ \/ /\ conns = MaxConns
        /\ UNCHANGED <<conns, failures>>
     \/ /\ conns < MaxConns /\ failures < MaxFailures
        /\ conns' = conns + 1 /\ failures' = failures + 1
  /\ mutex' = MutexAfterFailure
  /\ hpc' = [hpc EXCEPT ![m] = "read"]
  /\ UNCHANGED <<net, status, roomVars, clnt_num, buf, sd, result, chat_tb,
                 clientVars, screen, historyVars>>

-----------------------------------------------------------------------------
(* Leaving.                                                                *)
HandlerReadError(m) ==
  /\ HandlerAt(m, "read")
  /\ net[m] \in {"rst", "closed"}
  /\ net' = [net EXCEPT ![m] = AfterWrites(@, 1)]
  /\ hpc' = [hpc EXCEPT ![m] = "leave"]
  /\ UNCHANGED <<status, mutex, roomVars, clnt_num, buf, sd, result, dbVars,
                 clientVars, screen, historyVars>>

CountAfterLeave_Fault == count - 2

CountAfterLeave == count - 1

HandlerLeave(m) ==
  /\ HandlerAt(m, "leave")
  /\ mutex = "free"
  /\ clnt_socks' = [clnt_socks EXCEPT ![clnt_num[m]] = None]
  /\ count' = CountAfterLeave
  /\ net' = [net EXCEPT ![m] = "closed"]
  /\ hpc' = [hpc EXCEPT ![m] = "exited"]
  /\ stable' = FALSE
  /\ UNCHANGED <<status, mutex, clnt_num, buf, sd, result, dbVars, clientVars,
                 screen, audience, missed>>

-----------------------------------------------------------------------------
Init ==
  /\ net = [m \in Members |-> "none"]
  /\ status = "up"
  /\ mutex = "free"
  /\ count = -1
  /\ clnt_socks = [k \in Slots |-> None]
  /\ hpc = [m \in Members |-> "none"]
  /\ clnt_num = [m \in Members |-> 0]
  /\ buf = [m \in Members |-> None]
  /\ sd = [m \in Members |-> 0]
  /\ result = [m \in Members |-> <<>>]
  /\ conns = 0 /\ failures = 0
  /\ chat_tb = <<>>
  /\ said = [m \in Members |-> 0]
  /\ outbox = [m \in Members |-> <<>>]
  /\ screen = [m \in Members |-> <<>>]
  /\ stable = TRUE
  /\ audience = [m \in Members |-> {}]
  /\ missed = [m \in Members |-> {}]

ClientActs(m) == Place(m) \/ Speak(m) \/ \E how \in Deaths : Die(m, how)

HandlerEnters(m) ==
  \/ Start(m) \/ HandlerSelect(m) \/ HandlerReplay(m) \/ HandlerReplayed(m)

HandlerChats(m) ==
  \/ HandlerRead(m) \/ HandlerSend(m) \/ HandlerSent(m) \/ HandlerStore(m)

HandlerLeaves(m) == HandlerReadError(m) \/ HandlerLeave(m)

HandlerFails(m) == HandlerSelectFail(m) \/ HandlerStoreFail(m)

HandlerRuns(m) ==
  HandlerEnters(m) \/ HandlerChats(m) \/ HandlerLeaves(m) \/ HandlerFails(m)

Next == \E m \in Members : ClientActs(m) \/ HandlerRuns(m)

Spec == Init /\ [][Next]_vars

-----------------------------------------------------------------------------
(* Properties.                                                             *)

\* Every variable keeps to the values the code can store in it.
RoomOK ==
  /\ net \in [Members -> NetStates]
  /\ status \in {"up", "sigpipe"}
  /\ mutex \in {"free", "client"}
  /\ count \in -1 .. MEMBER_MAX - 1
  /\ clnt_socks \in [Slots -> Members \cup {None}]

ThreadsOK ==
  /\ hpc \in [Members -> {"none", "placed", "query", "replay", "read", "send",
                          "store", "leave", "exited", "failed"}]
  /\ clnt_num \in [Members -> Slots]
  /\ buf \in [Members -> Lines \cup {None}]
  /\ sd \in [Members -> 0 .. MEMBER_MAX]
  /\ result \in [Members -> Seq(Lines)]

TalkOK ==
  /\ conns \in 0 .. MaxConns
  /\ failures \in 0 .. MaxFailures
  /\ chat_tb \in Seq(Lines)
  /\ said \in [Members -> 0 .. MaxLines]
  /\ outbox \in [Members -> Seq(Lines)]
  /\ screen \in [Members -> Seq([line : Lines, live : BOOLEAN])]
  /\ stable \in BOOLEAN
  /\ audience \in [Members -> SUBSET Members]
  /\ missed \in [Members -> SUBSET Lines]

TypeOK == RoomOK /\ ThreadsOK /\ TalkOK

\* The table holds, of each member, the first lines it said, once each and in
\* the order it said them, although an INSERT may fail and the next one succeed:
\* a failure leaves the mutex locked, so that there is no next one.
LogIsPrefix ==
  \A i \in DOMAIN chat_tb :
    chat_tb[i].n =
      1 + Cardinality({j \in 1 .. i - 1 : chat_tb[j].from = chat_tb[i].from})

\* Of the lines of one author, each comes after those that it said before, and none
\* comes again, whatever moves under the loops.  The exception is the replay: it is
\* in order, but it repeats, and comes after, lines that a broadcast has already
\* shown to a member whose thread had not sent it the table.  So a line is twice on
\* a screen at most, first live and then replayed, and no broadcast is late.
SenderOrder ==
  \A m \in Members : \A i, j \in DOMAIN screen[m] :
    (i < j /\ (screen[m][i].live => screen[m][j].live)) =>
      (screen[m][i].line.from = screen[m][j].line.from =>
         screen[m][i].line.n < screen[m][j].line.n)

\* While nobody leaves, a connected member that has been sent the stored log has
\* every line of the table on its screen, except those that were read before it
\* came and stored after its SELECT: nothing else is lost between the broadcast,
\* the INSERT and the replay.
OnScreen(m) == {screen[m][i].line : i \in DOMAIN screen[m]}

NoLineLost ==
  stable => \A m \in Members :
    (net[m] = "open" /\ hpc[m] \in {"read", "send", "store"}) =>
      \A i \in DOMAIN chat_tb : chat_tb[i] \in OnScreen(m) \cup missed[m]

\* The room keeps what ChatRoom promises: the table is its record, and the mutex
\* that a failed INSERT has left locked is what seals it.
Room == INSTANCE ChatRoom WITH record <- chat_tb, sealed <- mutex # "free"

ImplementsChatRoom == Room!Spec

=============================================================================

------------------------------ MODULE Session -------------------------------
(***************************************************************************)
(* A client from its login dialog to the room, and the server's main()     *)
(* that serves one connection at a time (LightWeightBlackboardDlg.cpp,     *)
(* EnterListDlg.cpp, main.c:111-380), with the bytes that they and the     *)
(* member's thread (blackboard.c:180-216) leave in the two streams.        *)
(*                                                                         *)
(* The two sides agree on the order of messages but not on their lengths:  *)
(* the choice of a room has 16 bytes, of which main() reads 6; a command   *)
(* has 1024, which the thread reads 128 at a time; the client reads again  *)
(* after two seconds whatever has come.  What one send() or write() sends  *)
(* arrives whole; when it arrives is when its sender makes the step.       *)
(***************************************************************************)
EXTENDS Naturals, Sequences

CONSTANTS
  Clients,
  None,         \* no connection
  MaxAttempts,  \* how often a client can press OK in its login dialog
  BACKLOG,      \* connections that wait for accept() (10 in the code)
  MaxRooms,     \* most rooms (MEMBER_MAX, that is 16, in the code)
  MEMBER_MAX,   \* most places in a room (16 in the code)
  TextLengths,  \* lengths of the text of a command, under 1023
  Budgets       \* what happens at most in a behaviour: attempts of each client,
                \* commands from it, messages to members, failing logins; and
                \* the rooms there are, and the places in each

Limits(b) ==
  b \in [attempts : 0 .. MaxAttempts, commands : [Clients -> Nat], told : Nat,
        failures : Nat, rooms : 1 .. MaxRooms, places : 1 .. MEMBER_MAX]

\* A connection: a client and the number of its attempt.
Conns == Clients \X (1 .. MaxAttempts)

ASSUME SessionAssumption ==
  /\ None \notin Conns \cup {"make", "enter"}
  /\ \A n \in {MaxAttempts, BACKLOG, MaxRooms, MEMBER_MAX} : n \in Nat \ {0}
  /\ TextLengths \subseteq 0 .. 1022
  /\ \A limit \in Budgets : Limits(limit)

VARIABLES
  cpc, try,         \* where each client is, and which attempt it is at
  listed,           \* the rooms that its list shows (roomcount)
  unlisted,         \* those of them that it has still to receive
  up, down, fin,    \* bytes to and from the server; the client has closed
  backlog,          \* connections not accepted yet
  mpc, cur, line,   \* main(): pc, its clnt_sock, and the i of the list of rooms
  rooms,            \* the number of members of each room
  mutex, status,    \* free, or kept by main(); "overrun": see ReadEnter
  hpc,              \* the socket_handler of each connection
  failures,         \* logins for which MySQL has failed
  budget,           \* what may still happen, of Budgets
  choice,           \* history: how the client chose its room
  hasty,            \* history: a recv() of the client gave up
  longest,          \* history: the longest text that was sent
  drained,          \* history: the thread has read all that there was
  swallowed,        \* history: where commands began whose first byte was not
                    \* the first of a read
  phantom,          \* history: text was read as a command
  missed,           \* history: a message began within a read of the client
  refused           \* history: logins that were answered without a count

clientVars == <<cpc, try, listed, unlisted, hasty>>
streamVars == <<up, down, fin>>
mainVars == <<backlog, mpc, cur, line, rooms, mutex, status, failures, refused>>
handlerVars == <<hpc, drained, swallowed, phantom>>
talkVars == <<budget, longest, missed>>
vars == <<clientVars, streamVars, mainVars, handlerVars, talkVars, choice>>

-----------------------------------------------------------------------------
(***************************************************************************)
(* Bytes.  A stream has the messages that nobody has read to their end,    *)
(* each with the number of its first byte, and how many bytes have been    *)
(* sent and read in all.  val is the number that a count or a choice       *)
(* carries, and the length of the text of a command.                       *)
(*                                                                         *)
(* A definition that ends in _Fault is a plausible bug of the definition   *)
(* that follows it; the project substitutes it to see which property       *)
(* notices.  No action uses one.                                           *)
(***************************************************************************)
LoginSize == 33
CommandSize == 1024
BUFFER_SIZE == 128
ReplySize == 5
EnterSize == 16

CountSize == 6

CountRead_Fault == CountSize - 1

CountRead == CountSize

MakeSize_Fault == EnterSize

MakeSize == 6

ChoiceSize == 6

Size(kind) ==
  CASE kind = "login" -> LoginSize
    [] kind = "make" -> MakeSize
    [] kind = "enter" -> EnterSize
    [] kind = "count" -> CountSize
    [] kind = "line" -> BUFFER_SIZE
    [] kind \in {"command", "told"} -> CommandSize
    [] OTHER -> ReplySize

NoBytes == [sent |-> 0, read |-> 0, msgs |-> {}]

Empty(s) == s.read = s.sent

Put(s, kind, val) ==
  [sent |-> s.sent + Size(kind), read |-> s.read,
   msgs |-> s.msgs \cup {[kind |-> kind, at |-> s.sent, val |-> val]}]

\* A read of n bytes, or of all that there is, goes as far as this.
ReadTo(s, n) == IF s.read + n < s.sent THEN s.read + n ELSE s.sent

Rest(s, n) ==
  [sent |-> s.sent, read |-> ReadTo(s, n),
   msgs |-> {p \in s.msgs : p.at + Size(p.kind) > ReadTo(s, n)}]

\* The message of a kind that a read finds first.
First(s, kind) == {p \in s.msgs : p.kind = kind /\ p.at = s.read}

\* The messages of a kind that begin within the n bytes of a read, not first.
Skipped(s, n, kind) ==
  {p.at : p \in {q \in s.msgs :
                   q.kind = kind /\ q.at > s.read /\ q.at < ReadTo(s, n)}}

Sent(k, kind, val) == up' = [up EXCEPT ![k] = Put(@, kind, val)]
Written(k, kind, val) == down' = [down EXCEPT ![k] = Put(@, kind, val)]
Received(k, n) == down' = [down EXCEPT ![k] = Rest(@, n)]

-----------------------------------------------------------------------------
(***************************************************************************)
(* The login dialog.  It opens a new connection each time that OK is       *)
(* pressed and never closes one.                                           *)
(***************************************************************************)
At(c, pc) == cpc[c] = pc /\ status = "up"

Conn(c) == <<c, try[c]>>

Connect(c) ==
  /\ At(c, "login")
  /\ try[c] < budget.attempts /\ Len(backlog) < BACKLOG
  /\ try' = [try EXCEPT ![c] = @ + 1]
  /\ backlog' = Append(backlog, <<c, try'[c]>>)
  /\ cpc' = [cpc EXCEPT ![c] = "acpt"]
  /\ UNCHANGED <<listed, unlisted, hasty, streamVars, mpc, cur, line, rooms,
                 mutex, status, failures, refused, handlerVars, talkVars, choice>>

\* A recv() returns what has come, up to n bytes, or gives up.
RecvOrTimeout(c, n) ==
  IF Empty(down[Conn(c)])
  THEN hasty' = hasty \cup {Conn(c)} /\ UNCHANGED down
  ELSE Received(Conn(c), n) /\ UNCHANGED hasty

\* "ACPT" is not looked at.
RecvAcpt(c) ==
  /\ At(c, "acpt")
  /\ RecvOrTimeout(c, ReplySize)
  /\ Sent(Conn(c), "login", 0)
  /\ cpc' = [cpc EXCEPT ![c] = "count"]
  /\ UNCHANGED <<try, listed, unlisted, fin, mainVars, handlerVars, talkVars,
                 choice>>

\* atoi() of anything but a whole count is 0.
CountIn(s) ==
  IF First(s, "count") = {} THEN 0 ELSE (CHOOSE p \in First(s, "count") : TRUE).val

RecvCount(c) ==
  /\ At(c, "count")
  /\ ~Empty(down[Conn(c)])
  /\ Received(Conn(c), CountRead)
  /\ listed' = [listed EXCEPT ![c] = CountIn(down[Conn(c)])]
  /\ unlisted' = [unlisted EXCEPT ![c] = listed'[c]]
  /\ cpc' = [cpc EXCEPT ![c] = "list"]
  /\ UNCHANGED <<try, hasty, up, fin, mainVars, handlerVars, talkVars, choice>>

\* Back to the dialog; the connection stays open.
CountTimeout(c) ==
  /\ At(c, "count")
  /\ Empty(down[Conn(c)])
  /\ cpc' = [cpc EXCEPT ![c] = "login"]
  /\ hasty' = hasty \cup {Conn(c)}
  /\ UNCHANGED <<try, listed, unlisted, streamVars, mainVars, handlerVars,
                 talkVars, choice>>

-----------------------------------------------------------------------------
(* The list of rooms, and the room.                                        *)
\* One recv() of up to two lines per room; the list gets an entry in any case.
RecvLine(c) ==
  /\ At(c, "list")
  /\ unlisted[c] > 0
  /\ RecvOrTimeout(c, 256)
  /\ unlisted' = [unlisted EXCEPT ![c] = @ - 1]
  /\ UNCHANGED <<cpc, try, listed, up, fin, mainVars, handlerVars, talkVars,
                 choice>>

ChooseEnter(c, r) ==
  /\ At(c, "list")
  /\ unlisted[c] = 0 /\ r < listed[c]
  /\ Sent(Conn(c), "enter", r)
  /\ choice' = [choice EXCEPT ![Conn(c)] = "enter"]
  /\ cpc' = [cpc EXCEPT ![c] = "reply"]
  /\ UNCHANGED <<try, listed, unlisted, hasty, down, fin, mainVars, handlerVars,
                 talkVars>>

\* Everything but "FULL" opens the room, no answer too.
RecvReply(c) ==
  /\ At(c, "reply")
  /\ RecvOrTimeout(c, ReplySize)
  /\ cpc' = [cpc EXCEPT
       ![c] = IF First(down[Conn(c)], "full") # {} THEN "list" ELSE "room"]
  /\ UNCHANGED <<try, listed, unlisted, up, fin, mainVars, handlerVars, talkVars,
                 choice>>

\* The client does not wait for an answer.
ChooseMake(c) ==
  /\ At(c, "list")
  /\ unlisted[c] = 0
  /\ Sent(Conn(c), "make", 0)
  /\ choice' = [choice EXCEPT ![Conn(c)] = "make"]
  /\ cpc' = [cpc EXCEPT ![c] = "room"]
  /\ UNCHANGED <<try, listed, unlisted, hasty, down, fin, mainVars, handlerVars,
                 talkVars>>

\* A line of chat, an edit, a file command: one byte, the text, zeros.
SendCommand(c, n) ==
  /\ At(c, "room")
  /\ budget.commands[c] > 0
  /\ budget' = [budget EXCEPT !.commands[c] = @ - 1]
  /\ longest' = [longest EXCEPT ![Conn(c)] = IF n > @ THEN n ELSE @]
  /\ Sent(Conn(c), "command", n)
  /\ UNCHANGED <<clientVars, down, fin, mainVars, handlerVars, missed, choice>>

\* The receiving thread looks at the first byte of what it gets.
RecvTold(c) ==
  /\ At(c, "room")
  /\ ~Empty(down[Conn(c)])
  /\ Received(Conn(c), CommandSize)
  /\ missed' = [missed EXCEPT ![Conn(c)] =
       @ \/ Skipped(down[Conn(c)], CommandSize, "told") # {}]
  /\ UNCHANGED <<clientVars, up, fin, mainVars, handlerVars, budget, longest, choice>>

\* The program ends, and with it all its connections.
Quit(c) ==
  /\ status = "up" /\ cpc[c] # "gone"
  /\ cpc' = [cpc EXCEPT ![c] = "gone"]
  /\ fin' = fin \cup {k \in Conns : k[1] = c}
  /\ UNCHANGED <<try, listed, unlisted, hasty, up, down, mainVars, handlerVars,
                 talkVars, choice>>

-----------------------------------------------------------------------------
(***************************************************************************)
(* main().  It is with one client from accept() to the client's choice; a  *)
(* read() waits for bytes or for the end of the client, without a limit.   *)
(***************************************************************************)
MainAt(pc) == mpc = pc /\ status = "up"

Readable_Fault(k) == ~Empty(up[k])

Readable(k) == ~Empty(up[k]) \/ k \in fin

Accept ==
  /\ MainAt("accept")
  /\ backlog # <<>>
  /\ cur' = Head(backlog)
  /\ backlog' = Tail(backlog)
  /\ Written(cur', "acpt", 0)
  /\ mpc' = "login"
  /\ UNCHANGED <<clientVars, up, fin, line, rooms, mutex, status, failures, refused,
                 handlerVars, talkVars, choice>>

RoomsTold_Fault == Len(rooms) + 1

RoomsTold == Len(rooms)

\* The name is found with its password, or is new; or found with another one,
\* when no count is written.
ReadLogin(known) ==
  /\ MainAt("login")
  /\ Readable(cur)
  /\ up' = [up EXCEPT ![cur] = Rest(@, LoginSize)]
  /\ IF known THEN Written(cur, "count", RoomsTold) /\ UNCHANGED refused
     ELSE refused' = refused \cup {cur} /\ UNCHANGED down
  /\ line' = 0
  /\ mpc' = "lines"
  /\ UNCHANGED <<clientVars, fin, backlog, cur, rooms, mutex, status, failures,
                 handlerVars, talkVars, choice>>

\* The connection stays open, and nobody will read it.
ReadLoginFails ==
  /\ MainAt("login")
  /\ Readable(cur)
  /\ failures < budget.failures
  /\ failures' = failures + 1
  /\ up' = [up EXCEPT ![cur] = Rest(@, LoginSize)]
  /\ mpc' = "accept" /\ cur' = None
  /\ UNCHANGED <<clientVars, down, fin, backlog, line, rooms, mutex, status,
                 refused, handlerVars, talkVars, choice>>

WriteLine ==
  /\ MainAt("lines")
  /\ IF line < Len(rooms)
     THEN /\ Written(cur, "line", line)
          /\ line' = line + 1
          /\ UNCHANGED mpc
     ELSE mpc' = "choice" /\ UNCHANGED <<down, line>>
  /\ UNCHANGED <<clientVars, up, fin, backlog, cur, rooms, mutex, status,
                 failures, refused, handlerVars, talkVars, choice>>

\* The 6 bytes of a choice, or whatever else main() finds; then it is free for
\* the next client, unless it needs the mutex and has it already.
ReadChoice ==
  /\ MainAt("choice")
  /\ Readable(cur)
  /\ up' = [up EXCEPT ![cur] = Rest(@, ChoiceSize)]

Place(k) ==
  hpc' = [hpc EXCEPT ![k] = "placed"] /\ UNCHANGED <<drained, swallowed, phantom>>

MainIsFree == mpc' = "accept" /\ cur' = None

ReadMake ==
  /\ ReadChoice
  /\ First(up[cur], "make") # {}
  /\ mutex = "free"
  /\ IF Len(rooms) < budget.rooms
     THEN rooms' = Append(rooms, 1) /\ Place(cur) /\ UNCHANGED <<down, mutex>>
     ELSE /\ Written(cur, "romf", 0)
          /\ mutex' = "main"
          /\ UNCHANGED <<rooms, handlerVars>>
  /\ MainIsFree
  /\ UNCHANGED <<clientVars, fin, backlog, line, status, failures, refused, talkVars,
                 choice>>

\* After "FULL" the client is placed beyond the table, see Rooms.
ReadEnter ==
  /\ ReadChoice
  /\ mutex = "free"
  /\ \E p \in First(up[cur], "enter") :
       /\ p.val < Len(rooms)
       /\ IF rooms[p.val + 1] < budget.places
          THEN /\ rooms' = [rooms EXCEPT ![p.val + 1] = @ + 1]
               /\ Written(cur, "notf", 0)
               /\ Place(cur)
               /\ UNCHANGED status
          ELSE /\ Written(cur, "full", 0)
               /\ status' = "overrun"
               /\ UNCHANGED <<rooms, handlerVars>>
  /\ MainIsFree
  /\ UNCHANGED <<clientVars, fin, backlog, line, mutex, failures, refused, talkVars, choice>>

ReadOther ==
  /\ ReadChoice
  /\ First(up[cur], "make") = {}
  /\ \A p \in First(up[cur], "enter") : p.val >= Len(rooms)
  /\ MainIsFree
  /\ UNCHANGED <<clientVars, down, fin, backlog, line, rooms, mutex, status,
                 failures, refused, handlerVars, talkVars, choice>>

-----------------------------------------------------------------------------
(* The member's thread, and what others write to the member.               *)
HandlerStart(k) ==
  /\ status = "up" /\ hpc[k] = "placed" /\ mutex = "free"
  /\ hpc' = [hpc EXCEPT ![k] = "read"]
  /\ UNCHANGED <<clientVars, streamVars, mainVars, drained, swallowed, phantom,
                 talkVars, choice>>

PieceSize_Fault == BUFFER_SIZE - 1

PieceSize == BUFFER_SIZE

\* The text is in the bytes 1 .. val of a command.
InsideText(s) ==
  \E p \in s.msgs : p.kind = "command" /\ s.read \in p.at + 1 .. p.at + p.val

HandlerRead(k) ==
  /\ status = "up" /\ hpc[k] = "read"
  /\ ~Empty(up[k])
  /\ up' = [up EXCEPT ![k] = Rest(@, PieceSize)]
  /\ drained' = IF Empty(up'[k]) THEN drained \cup {k} ELSE drained
  /\ swallowed' = [swallowed EXCEPT ![k] = @ \cup Skipped(up[k], PieceSize, "command")]
  /\ phantom' = IF InsideText(up[k]) THEN phantom \cup {k} ELSE phantom
  /\ UNCHANGED <<clientVars, down, fin, mainVars, hpc, talkVars, choice>>

\* Chat, edits and answers, from this thread or another one of the room.
Tell(k) ==
  /\ status = "up" /\ hpc[k] # "none"
  /\ budget.told > 0
  /\ budget' = [budget EXCEPT !.told = @ - 1]
  /\ Written(k, "told", 0)
  /\ UNCHANGED <<clientVars, up, fin, mainVars, handlerVars, longest, missed,
                 choice>>

-----------------------------------------------------------------------------
Init ==
  /\ cpc = [c \in Clients |-> "login"]
  /\ try = [c \in Clients |-> 0]
  /\ listed = [c \in Clients |-> 0] /\ unlisted = [c \in Clients |-> 0]
  /\ hasty = {}
  /\ up = [k \in Conns |-> NoBytes] /\ down = [k \in Conns |-> NoBytes]
  /\ fin = {}
  /\ backlog = <<>>
  /\ mpc = "accept" /\ cur = None /\ line = 0
  /\ rooms = <<>>
  /\ mutex = "free" /\ status = "up"
  /\ failures = 0 /\ refused = {}
  /\ hpc = [k \in Conns |-> "none"]
  /\ drained = {} /\ swallowed = [k \in Conns |-> {}] /\ phantom = {}
  /\ budget \in Budgets
  /\ longest = [k \in Conns |-> 0] /\ missed = [k \in Conns |-> FALSE]
  /\ choice = [k \in Conns |-> None]

ClientLogsIn(c) == Connect(c) \/ RecvAcpt(c) \/ RecvCount(c) \/ CountTimeout(c)

ClientChooses(c) ==
  \/ RecvLine(c) \/ RecvReply(c) \/ ChooseMake(c)
  \/ \E r \in 0 .. MaxRooms - 1 : ChooseEnter(c, r)

ClientTalks(c) == RecvTold(c) \/ \E n \in TextLengths : SendCommand(c, n)

MainRuns ==
  \/ Accept \/ WriteLine \/ \E known \in BOOLEAN : ReadLogin(known)
  \/ ReadMake \/ ReadEnter \/ ReadOther

HandlerRuns(k) == HandlerStart(k) \/ HandlerRead(k)

Next ==
  \/ \E c \in Clients : \/ ClientLogsIn(c) \/ ClientChooses(c)
                        \/ ClientTalks(c) \/ Quit(c)
  \/ MainRuns \/ ReadLoginFails
  \/ \E k \in Conns : HandlerRuns(k) \/ Tell(k)

Spec == Init /\ [][Next]_vars

\* The scheduler runs main(); it owes nothing to the clients.
FairSpec == Spec /\ WF_vars(MainRuns)

-----------------------------------------------------------------------------
(* Properties.                                                             *)

\* Every variable keeps to the values the code can store in it; no message is
\* read beyond its end.
Kinds == {"login", "make", "enter", "command",
          "acpt", "count", "line", "notf", "full", "romf", "told"}

Message == [kind : Kinds, at : Nat, val : Nat]

Stream == [sent : Nat, read : Nat, msgs : SUBSET Message]

Unfinished(s) ==
  /\ s.read <= s.sent
  /\ \A p \in s.msgs : p.at + Size(p.kind) \in s.read + 1 .. s.sent

ClientsOK ==
  /\ cpc \in [Clients -> {"login", "acpt", "count", "list", "reply", "room", "gone"}]
  /\ try \in [Clients -> 0 .. MaxAttempts]
  /\ listed \in [Clients -> 0 .. budget.rooms]
  /\ unlisted \in [Clients -> Nat] /\ \A c \in Clients : unlisted[c] <= listed[c]
  /\ up \in [Conns -> Stream] /\ down \in [Conns -> Stream]
  /\ \A k \in Conns : Unfinished(up[k]) /\ Unfinished(down[k])
  /\ hasty \subseteq Conns /\ fin \subseteq Conns
  /\ missed \in [Conns -> BOOLEAN]
  /\ choice \in [Conns -> {None, "make", "enter"}]

ServerOK ==
  /\ backlog \in Seq(Conns) /\ Len(backlog) <= BACKLOG
  /\ mpc \in {"accept", "login", "lines", "choice"}
  /\ cur \in Conns \cup {None} /\ (cur = None <=> mpc = "accept")
  /\ line \in 0 .. budget.rooms
  /\ rooms \in Seq(1 .. budget.places) /\ Len(rooms) <= budget.rooms
  /\ mutex \in {"free", "main"} /\ status \in {"up", "overrun"}
  /\ failures \in 0 .. budget.failures /\ refused \subseteq Conns
  /\ hpc \in [Conns -> {"none", "placed", "read"}]
  /\ swallowed \in [Conns -> SUBSET Nat]
  /\ drained \subseteq Conns /\ phantom \subseteq Conns
  /\ Limits(budget)
  /\ longest \in [Conns -> TextLengths \cup {0}]

TypeOK == ClientsOK /\ ServerOK

\* A client that sees the room is a member of one as soon as its choice has been
\* read, whatever it took for a count or for an answer, unless the rooms have
\* run out or MySQL has failed at its login.
Unread(k) ==
  \/ \E i \in DOMAIN backlog : backlog[i] = k
  \/ cur = k

InRoomIsPlaced ==
  \A c \in Clients :
    (status = "up" /\ cpc[c] = "room" /\ ~Unread(Conn(c)))
      => hpc[Conn(c)] # "none" \/ mutex = "main" \/ failures > 0

\* Text is taken for a command only from the 128th character on, or, of a client
\* that entered a room that was there, from the 118th on.
PhantomsAreLong ==
  \A k \in phantom :
    longest[k] >= (IF choice[k] = "enter" THEN BUFFER_SIZE - (EnterSize - ChoiceSize)
                                        ELSE BUFFER_SIZE)

\* Once the thread has emptied the stream it stays in step with the client: no
\* command is swallowed any more.  Of a client that made its room none ever is.
InStepOnceDrained ==
  [][\A k \in Conns : k \in drained \/ choice[k] = "make"
       => swallowed'[k] = swallowed[k]]_vars

\* The client's reads stay in step with the server's writes, unless one of them
\* gave up before the answer came, or the login was answered without a count and
\* the client took the first line of the list for one.
ClientInStep ==
  \A k \in Conns : missed[k] => k \in hasty \cup refused

\* A client that waits behind connections whose clients have ended, abandoned
\* or not, is accepted, unless main() waits for the mutex that it holds.
Waiting(k) == \E i \in DOMAIN backlog : backlog[i] = k

OthersGone(k) == \A j \in Conns \ {k} : j[2] <= try[j[1]] => j \in fin

WaitingIsServed ==
  \A k \in Conns :
    (Waiting(k) /\ OthersGone(k)) ~> (~Waiting(k) \/ mutex = "main" \/ status # "up")

=============================================================================

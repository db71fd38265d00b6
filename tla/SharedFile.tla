----------------------------- MODULE SharedFile -----------------------------
(***************************************************************************)
(* The file that a room works on, the right to modify it, and the copy in  *)
(* every member's edit box (blackboard.c, filemodule.c, roomDlg.cpp).      *)
(*                                                                         *)
(* The server keeps one FILE per room and one flag that says whether some  *)
(* member may modify it; each socket_handler keeps a flag of its own.  No  *)
(* lock protects them: a step is one access to the room's flag, one call   *)
(* on the FILE, or one write() to a socket.  A member reads its replies    *)
(* when it likes, which is how the network's delay is modelled, or not at  *)
(* all: then its buffer fills, and whoever writes to it waits.             *)
(***************************************************************************)
EXTENDS Sockets, Sequences, FiniteSets

CONSTANTS
  Members,      \* clients that enter the room
  None,         \* -1 in clnt_socks[]
  Four,         \* the client whose descriptor is 4, if one of Members has it
  MEMBER_MAX,   \* slots of a room (16 in the code)
  Chars,        \* characters
  Texts,        \* what a member may leave in its edit box (under 128 bytes)
  Capacity,     \* messages that the buffers of a connection hold
  MaxMessages,  \* how many messages the members send in a behaviour
  MaxDeaths,    \* how many clients disappear in a behaviour
  Deaths,       \* how they do: by a FIN, by an RST, or both
  FreshRights   \* what malloc() left in the room's modify_rights

ASSUME SharedFileAssumption ==
  /\ IsFiniteSet(Members) /\ None \notin Members
  /\ Four \in Members \cup {None}
  /\ MEMBER_MAX \in Nat \ {0}
  /\ \A t \in Texts : t \in Seq(Chars)
  /\ Capacity \in Nat \ {0}
  /\ MaxMessages \in Nat /\ MaxDeaths \in Nat
  /\ Deaths \subseteq {"fin", "rst"}
  /\ FreshRights \in BOOLEAN

Slots == 0 .. MEMBER_MAX - 1

VARIABLES
  net, status,              \* connections, and whether the process is up
  count, clnt_socks,        \* the members of rooms[r]
  fp, file, pos,            \* fp # NULL; the file; the offset of the FILE
  modify_rights,            \* the room's flag
  ud,                       \* ud.modify_rights of each socket_handler
  hpc, clnt_num, buf, sd,   \* socket_handler: pc, slot, message, loop index
  outbox, inbox,            \* the bytes on the way from and to each client
  readonly, view,           \* file_edit of each client
  sent,                     \* messages sent so far
  clean,                    \* history: nothing happened that Undisturbed excludes
  adrift                    \* history: members with an edit that was dropped, or
                            \* crossed a text that was sent to them

roomVars == <<count, clnt_socks>>
fileVars == <<fp, file, pos>>
rightVars == <<modify_rights, ud>>
clientVars == <<outbox, readonly, view, sent>>
vars == <<net, status, roomVars, fileVars, rightVars, hpc, clnt_num, buf, sd,
          inbox, clientVars, clean, adrift>>

\* A message: its first byte and verdict, and the text that follows.
Msg(kind, text) == [kind |-> kind, text |-> text]
Verdict(kind) == Msg(kind, <<>>)
Verdicts == {"5TRUE", "5FALSE", "6TRUE"}

HandlerAt(m, pc) == status = "up" /\ hpc[m] = pc

\* The buffers of a connected client are full: it is stopped by a message box, or
\* its reading thread is suspended, or it is slow.
Full(c) == net[c] = "open" /\ Len(inbox[c]) >= Capacity

\* One call of write() with message msg on the socket of c, which waits for room.
WriteTo(c, msg) ==
  /\ ~Full(c)
  /\ inbox' = IF net[c] = "open" THEN [inbox EXCEPT ![c] = Append(@, msg)]
                                 ELSE inbox
  /\ net' = [net EXCEPT ![c] = AfterWrites(@, 1)]
  /\ status' = IF RaisesSigpipe(net[c], 1) THEN "sigpipe" ELSE status

-----------------------------------------------------------------------------
(***************************************************************************)
(* The clients.  The edit box is multi-line, so that a text the program    *)
(* sets in it raises no EN_CHANGE and is not sent back.                    *)
(***************************************************************************)

\* "Request" and "release" send the same message, at any time.
Press(m) ==
  /\ status = "up" /\ net[m] = "open"
  /\ sent < MaxMessages
  /\ sent' = sent + 1
  /\ outbox' = [outbox EXCEPT ![m] = Append(@, Verdict("5"))]
  /\ UNCHANGED <<net, status, roomVars, fileVars, rightVars, hpc, clnt_num,
                 buf, sd, inbox, readonly, view>>

\* OnEnChangeEdit2(): every change of the text is sent whole.
Type(m, t) ==
  /\ status = "up" /\ net[m] = "open"
  /\ ~readonly[m] /\ t # view[m]
  /\ sent < MaxMessages
  /\ sent' = sent + 1
  /\ view' = [view EXCEPT ![m] = t]
  /\ outbox' = [outbox EXCEPT ![m] = Append(@, Msg("7", t))]
  /\ UNCHANGED <<net, status, roomVars, fileVars, rightVars, hpc, clnt_num,
                 buf, sd, inbox, readonly>>

Receive(m) ==
  /\ status = "up" /\ net[m] = "open"
  /\ inbox[m] # <<>>
  /\ inbox' = [inbox EXCEPT ![m] = Tail(@)]
  /\ LET msg == Head(inbox[m]) IN
       /\ view' = IF msg.kind = "7" THEN [view EXCEPT ![m] = msg.text] ELSE view
       /\ readonly' = [readonly EXCEPT
            ![m] = (@ \/ msg.kind = "6TRUE") /\ msg.kind # "5TRUE"]
  /\ UNCHANGED <<net, status, roomVars, fileVars, rightVars, hpc, clnt_num,
                 buf, sd, outbox, sent>>

Die(m, how) ==
  /\ status = "up" /\ net[m] = "open"
  /\ Cardinality({n \in Members : net[n] \in {"fin", "rst", "gone", "closed"}})
       < MaxDeaths
  /\ net' = [net EXCEPT ![m] = how]
  /\ UNCHANGED <<status, roomVars, fileVars, rightVars, hpc, clnt_num, buf, sd,
                 inbox, clientVars>>

-----------------------------------------------------------------------------
(***************************************************************************)
(* Entering the room.  Rooms models how main() and room_handler() get a    *)
(* client there; here it takes the next slot, when that is free, and has a *)
(* thread at once.                                                         *)
(***************************************************************************)
Place(m) ==
  /\ status = "up" /\ net[m] = "none"
  /\ count + 1 \in Slots /\ clnt_socks[count + 1] = None
  /\ net' = [net EXCEPT ![m] = "open"]
  /\ count' = count + 1
  /\ clnt_socks' = [clnt_socks EXCEPT ![count + 1] = m]
  /\ clnt_num' = [clnt_num EXCEPT ![m] = count + 1]
  /\ hpc' = [hpc EXCEPT ![m] = "init"]
  /\ UNCHANGED <<status, fileVars, rightVars, buf, sd, inbox, clientVars>>

HandlerInit(m) ==
  /\ HandlerAt(m, "init")
  /\ hpc' = [hpc EXCEPT ![m] = IF m = Four \/ ~fp THEN "open" ELSE "load"]
  /\ UNCHANGED <<net, status, roomVars, fileVars, rightVars, clnt_num, buf, sd,
                 inbox, clientVars>>

\* A query fails, for the chat log or, after fopen(), for the file's path.
HandlerInitFail(m) ==
  /\ HandlerAt(m, "init")
  /\ hpc' = [hpc EXCEPT ![m] = "failed"]
  /\ UNCHANGED <<net, status, roomVars, fileVars, rightVars, clnt_num, buf, sd,
                 inbox, clientVars>>

\* fopen(fname, "w+"): what the file held is lost.
HandlerOpen(m) ==
  /\ HandlerAt(m, "open")
  /\ fp' = TRUE /\ file' = <<>> /\ pos' = 0
  /\ \E pc \in {"read", "failed"} : hpc' = [hpc EXCEPT ![m] = pc]
  /\ UNCHANGED <<net, status, roomVars, rightVars, clnt_num, buf, sd, inbox,
                 clientVars>>

\* TransFileData(&ud, r): fseek(), fread(), write().
HandlerLoad(m) ==
  /\ HandlerAt(m, "load")
  /\ pos' = 0
  /\ hpc' = [hpc EXCEPT ![m] = "fetch"]
  /\ UNCHANGED <<net, status, roomVars, fp, file, rightVars, clnt_num, buf, sd,
                 inbox, clientVars>>

HandlerFetch(m) ==
  /\ HandlerAt(m, "fetch")
  /\ buf' = [buf EXCEPT ![m] = Msg("7", SubSeq(file, pos + 1, Len(file)))]
  /\ pos' = Len(file)
  /\ hpc' = [hpc EXCEPT ![m] = "deliver"]
  /\ UNCHANGED <<net, status, roomVars, fp, file, rightVars, clnt_num, sd,
                 inbox, clientVars>>

HandlerDeliver(m) ==
  /\ HandlerAt(m, "deliver")
  /\ WriteTo(m, buf[m])
  /\ hpc' = [hpc EXCEPT ![m] = "read"]
  /\ UNCHANGED <<roomVars, fileVars, rightVars, clnt_num, buf, sd, clientVars>>

-----------------------------------------------------------------------------
(***************************************************************************)
(* The commands, one per message.  The room's file is open by then: a      *)
(* thread opens it before it reads.  A FIN leaves what came before it to   *)
(* read, an RST does not.                                                  *)
(*                                                                         *)
(* A definition that ends in _Fault is a plausible bug of the definition   *)
(* that follows it; the project substitutes it to see which property       *)
(* notices.  No action uses one.                                           *)
(***************************************************************************)
Reads(m, kind) ==
  /\ HandlerAt(m, "read")
  /\ net[m] \in {"open", "fin"}
  /\ outbox[m] # <<>> /\ Head(outbox[m]).kind = kind
  /\ outbox' = [outbox EXCEPT ![m] = Tail(@)]

\* FMrights(): the tests, in the order of the code.
HandlerRequest(m) ==
  /\ Reads(m, "5")
  /\ \/ /\ ~modify_rights
        /\ hpc' = [hpc EXCEPT ![m] = "grant"]
        /\ UNCHANGED buf
     \/ /\ modify_rights /\ ud[m]
        /\ hpc' = [hpc EXCEPT ![m] = "release"]
        /\ UNCHANGED buf
     \/ /\ modify_rights /\ ~ud[m]
        /\ hpc' = [hpc EXCEPT ![m] = "reply"]
        /\ buf' = [buf EXCEPT ![m] = Verdict("5FALSE")]
  /\ UNCHANGED <<net, status, roomVars, fileVars, rightVars, clnt_num, sd,
                 inbox, readonly, view, sent>>

\* Only the room's flag is shared: the two assignments are one step.
HandlerGrant(m) ==
  /\ HandlerAt(m, "grant")
  /\ ud' = [ud EXCEPT ![m] = TRUE]
  /\ modify_rights' = TRUE
  /\ buf' = [buf EXCEPT ![m] = Verdict("5TRUE")]
  /\ hpc' = [hpc EXCEPT ![m] = "reply"]
  /\ UNCHANGED <<net, status, roomVars, fileVars, clnt_num, sd, inbox,
                 clientVars>>

FlagAfterRelease_Fault == modify_rights

FlagAfterRelease == FALSE

ReleaseReply_Fault == "5TRUE"

ReleaseReply == "6TRUE"

HandlerRelease(m) ==
  /\ HandlerAt(m, "release")
  /\ ud' = [ud EXCEPT ![m] = FALSE]
  /\ modify_rights' = FlagAfterRelease
  /\ buf' = [buf EXCEPT ![m] = Verdict(ReleaseReply)]
  /\ hpc' = [hpc EXCEPT ![m] = "reply"]
  /\ UNCHANGED <<net, status, roomVars, fileVars, clnt_num, sd, inbox,
                 clientVars>>

HandlerReply(m) ==
  /\ HandlerAt(m, "reply")
  /\ WriteTo(m, buf[m])
  /\ hpc' = [hpc EXCEPT ![m] = "read"]
  /\ UNCHANGED <<roomVars, fileVars, rightVars, clnt_num, buf, sd, clientVars>>

\* FMmodified(): an edit without the right is dropped, and nobody is told.
HandlerDrop(m) ==
  /\ Reads(m, "7")
  /\ ~(modify_rights /\ ud[m])
  /\ UNCHANGED <<net, status, roomVars, fileVars, rightVars, hpc, clnt_num,
                 buf, sd, inbox, readonly, view, sent>>

HandlerEdit(m) ==
  /\ Reads(m, "7")
  /\ modify_rights /\ ud[m]
  /\ buf' = [buf EXCEPT ![m] = Head(outbox[m])]
  /\ sd' = [sd EXCEPT ![m] = 0]
  /\ hpc' = [hpc EXCEPT ![m] = "broadcast"]
  /\ UNCHANGED <<net, status, roomVars, fileVars, rightVars, clnt_num, inbox,
                 readonly, view, sent>>

SlotsLeft_Fault(m) == sd[m] < count

SlotsLeft(m) == sd[m] <= count

NextSlot_Fault(m) == IF clnt_socks[sd[m]] = m THEN sd[m] ELSE sd[m] + 1

NextSlot(m) == sd[m] + 1

HandlerBroadcast(m) ==
  /\ HandlerAt(m, "broadcast")
  /\ SlotsLeft(m)
  /\ sd' = [sd EXCEPT ![m] = NextSlot(m)]
  /\ LET c == clnt_socks[sd[m]] IN
       \/ c \in {m, None} /\ UNCHANGED <<net, status, inbox>>
       \/ c \notin {m, None} /\ WriteTo(c, buf[m])
  /\ UNCHANGED <<roomVars, fileVars, rightVars, hpc, clnt_num, buf, clientVars>>

\* fseek(), then fputs() and fflush(); nothing cuts a longer file.
HandlerRewind(m) ==
  /\ HandlerAt(m, "broadcast")
  /\ ~SlotsLeft(m)
  /\ pos' = 0
  /\ hpc' = [hpc EXCEPT ![m] = "put"]
  /\ UNCHANGED <<net, status, roomVars, fp, file, rightVars, clnt_num, buf, sd,
                 inbox, clientVars>>

Overwrite(old, at, new) ==
  SubSeq(old, 1, at) \o new \o SubSeq(old, at + Len(new) + 1, Len(old))

HandlerPut(m) ==
  /\ HandlerAt(m, "put")
  /\ file' = Overwrite(file, pos, buf[m].text)
  /\ pos' = pos + Len(buf[m].text)
  /\ hpc' = [hpc EXCEPT ![m] = "read"]
  /\ UNCHANGED <<net, status, roomVars, fp, rightVars, clnt_num, buf, sd, inbox,
                 clientVars>>

-----------------------------------------------------------------------------
(* Leaving.  ud is a local of the thread; ud[m] keeps its last value.      *)
HandlerReadError(m) ==
  /\ HandlerAt(m, "read")
  /\ net[m] \in {"rst", "closed"}
  /\ net' = [net EXCEPT ![m] = AfterWrites(@, 1)]
  /\ hpc' = [hpc EXCEPT ![m] = "leave"]
  /\ UNCHANGED <<status, roomVars, fileVars, rightVars, clnt_num, buf, sd,
                 inbox, clientVars>>

CountAfterLeave_Fault == count - 2

CountAfterLeave == count - 1

HandlerLeave(m) ==
  /\ HandlerAt(m, "leave")
  /\ clnt_socks' = [clnt_socks EXCEPT ![clnt_num[m]] = None]
  /\ count' = CountAfterLeave
  /\ net' = [net EXCEPT ![m] = "closed"]
  /\ hpc' = [hpc EXCEPT ![m] = "exited"]
  /\ UNCHANGED <<status, fileVars, rightVars, clnt_num, buf, sd, inbox,
                 clientVars>>

-----------------------------------------------------------------------------
(***************************************************************************)
(* What keeps a run clean: everybody stays connected, at most one member   *)
(* has or is being given the right, at most one thread uses the FILE, a    *)
(* new file only replaces none, and no edit is shorter than the file.      *)
(*                                                                         *)
(* What a member types before the answer to a release has come may be      *)
(* dropped, or, if it asks again before it types, cross the text of        *)
(* another member: then its own edit box, and no other, is left behind.    *)
(***************************************************************************)
Claims(m) == ud[m] \/ hpc[m] = "grant"

UsesFile(m) ==
  hpc[m] \in {"init", "open", "load", "fetch", "deliver", "broadcast", "put"}

Undisturbed ==
  /\ \A m, n \in Members : Claims(m) /\ Claims(n) => m = n
  /\ \A m, n \in Members : UsesFile(m) /\ UsesFile(n) => m = n
  /\ \A m \in Members :
       /\ net[m] \in {"none", "open"}
       /\ hpc[m] # "failed"
       /\ hpc[m] = "open" => ~fp
       /\ hpc[m] = "broadcast" => Len(buf[m].text) >= Len(file)

HasText(s) == \E i \in DOMAIN s : s[i].kind = "7"

Crossing == {m \in Members : HasText(outbox[m]) /\ HasText(inbox[m])}

Init ==
  /\ net = [m \in Members |-> "none"]
  /\ status = "up"
  /\ count = -1
  /\ clnt_socks = [k \in Slots |-> None]
  /\ fp = FALSE /\ file = <<>> /\ pos = 0
  /\ modify_rights = FreshRights
  /\ ud = [m \in Members |-> FALSE]
  /\ hpc = [m \in Members |-> "none"]
  /\ clnt_num = [m \in Members |-> 0]
  /\ buf = [m \in Members |-> Verdict("5FALSE")]
  /\ sd = [m \in Members |-> 0]
  /\ outbox = [m \in Members |-> <<>>]
  /\ inbox = [m \in Members |-> <<>>]
  /\ readonly = [m \in Members |-> TRUE]
  /\ view = [m \in Members |-> <<>>]
  /\ sent = 0
  /\ clean = TRUE /\ adrift = {}

ClientActs(m) ==
  \/ Place(m)
  \/ Press(m) \/ (\E t \in Texts : Type(m, t))
  \/ Receive(m)
  \/ \E how \in Deaths : Die(m, how)

HandlerEnters(m) ==
  \/ HandlerInit(m) \/ HandlerOpen(m)
  \/ HandlerLoad(m) \/ HandlerFetch(m) \/ HandlerDeliver(m)

HandlerServes(m) ==
  \/ HandlerRequest(m) \/ HandlerGrant(m) \/ HandlerRelease(m)
  \/ HandlerReply(m)
  \/ HandlerEdit(m) \/ HandlerBroadcast(m) \/ HandlerRewind(m) \/ HandlerPut(m)

HandlerLeaves(m) == HandlerReadError(m) \/ HandlerLeave(m)

Recorded(dropped) ==
  /\ clean' = (clean /\ Undisturbed')
  /\ adrift' = adrift \cup dropped \cup Crossing'

\* What the thread of m does without waiting for anything but a message.
HandlerRuns(m) ==
  \/ (HandlerEnters(m) \/ HandlerServes(m) \/ HandlerLeaves(m)) /\ Recorded({})
  \/ HandlerDrop(m) /\ Recorded({m})

Next ==
  \E m \in Members :
    \/ (ClientActs(m) \/ HandlerInitFail(m)) /\ Recorded({})
    \/ HandlerRuns(m)

Spec == Init /\ [][Next]_vars

\* The scheduler runs every thread that is not blocked; no client is obliged to do
\* anything, not even to read.
FairSpec == Spec /\ \A m \in Members : WF_vars(HandlerRuns(m))

-----------------------------------------------------------------------------
(* Properties.                                                             *)

Messages ==
  [kind : {"7"}, text : Seq(Chars)] \cup {Verdict(v) : v \in Verdicts}

Requests == [kind : {"7"}, text : Seq(Chars)] \cup {Verdict("5")}

\* Every variable keeps to the values the code can store in it.
SocketsOK ==
  /\ net \in [Members -> NetStates]
  /\ status \in {"up", "sigpipe"}
  /\ count \in -1 .. MEMBER_MAX - 1
  /\ clnt_socks \in [Slots -> Members \cup {None}]

FileOK ==
  /\ fp \in BOOLEAN
  /\ file \in Seq(Chars)
  /\ pos \in 0 .. Len(file)

HandlersOK ==
  /\ modify_rights \in BOOLEAN
  /\ ud \in [Members -> BOOLEAN]
  /\ hpc \in [Members -> {"none", "init", "open", "load", "fetch", "deliver",
                          "read", "grant", "release", "reply", "broadcast",
                          "put", "leave", "exited", "failed"}]
  /\ clnt_num \in [Members -> Slots]
  /\ buf \in [Members -> Messages]
  /\ sd \in [Members -> 0 .. MEMBER_MAX]

ClientsOK ==
  /\ outbox \in [Members -> Seq(Requests)]
  /\ inbox \in [Members -> Seq(Messages)]
  /\ readonly \in [Members -> BOOLEAN]
  /\ view \in [Members -> Seq(Chars)]
  /\ sent \in 0 .. MaxMessages
  /\ clean \in BOOLEAN /\ adrift \subseteq Members

TypeOK == SocketsOK /\ FileOK /\ HandlersOK /\ ClientsOK

\* Whatever the interleaving of the unlocked tests and assignments, the room's
\* flag never stays up without a thread that holds, or held when it left, the
\* right; and while grants do not overlap, no holder finds the flag down, which
\* would silently discard its edits (FMrights, FMmodified).
RightsAccounted ==
  /\ modify_rights => FreshRights \/ \E m \in Members : ud[m]
  /\ clean => \A m \in Members : ud[m] => modify_rights

\* Whether an edit box, shut or not, is open once its owner has read messages s:
\* the last "5TRUE" or "6TRUE" decides, and if there is none nothing changes.
Decisive(msg) == msg.kind \in {"5TRUE", "6TRUE"}

OpenAfter(shut, s) ==
  \/ \E i \in DOMAIN s :
       /\ s[i].kind = "5TRUE"
       /\ \A j \in DOMAIN s : j > i => ~Decisive(s[j])
  \/ ~shut /\ \A i \in DOMAIN s : ~Decisive(s[i])

\* What is on its way to m, the reply its thread is about to write included.
Coming(m) ==
  IF hpc[m] = "reply" THEN Append(inbox[m], buf[m]) ELSE inbox[m]

\* The replies agree with the server, also when grants overlap: a connected
\* member that has read everything sent to it has its edit box open exactly
\* when its thread holds the right (FMrights, roomDlg::ThreadFunction).
RepliesAgree ==
  \A m \in Members :
    net[m] = "open" => (OpenAfter(readonly[m], Coming(m)) <=> ud[m])

\* In a clean run, once every message has been handled, every member sees the
\* contents of the file: broadcasts, replies and grants are ordered so that the
\* last edit is the last text each edit box receives.  Only a member that typed
\* out of turn may be left behind, and it alone.
Quiescent ==
  \A m \in Members :
    /\ outbox[m] = <<>> /\ inbox[m] = <<>>
    /\ hpc[m] \in {"none", "read", "exited"}

Converged == \A m \in Members \ adrift : hpc[m] = "read" => view[m] = file

Convergence == clean /\ Quiescent => Converged

\* As long as the members go on reading what is sent to them, every command of a
\* connected member that has a thread is handled, however the count moves under
\* the loops.  The premise is about all of them: a thread waits in write() for any
\* member that does not read (filemodule.c:196), and a message box or a suspended
\* thread stops a client's reading (roomDlg.cpp:213).  The chat line, whose handler
\* also waits for the global mutex, is not among the commands here.
Reading(n) == []<>~Full(n)

Unhandled(m) == outbox[m] # <<>> /\ net[m] \in {"open", "fin"}

CommandsHandled ==
  (\A n \in Members : Reading(n)) =>
    \A m \in Members :
      Unhandled(m) ~> (~Unhandled(m) \/ hpc[m] = "failed" \/ status # "up")

-----------------------------------------------------------------------------
(* What the documentation says and the code does not do.                   *)

\* README.md: collisions on a file are solved by granting the right to modify
\* it: two members never hold it together.
OneEditor == \A m, n \in Members : ud[m] /\ ud[n] => m = n

=============================================================================

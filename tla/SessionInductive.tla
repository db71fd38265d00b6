-------------------------- MODULE SessionInductive --------------------------
(***************************************************************************)
(* The inductive invariant of Session: what is in the two streams of a     *)
(* connection, byte by byte, at each place where its client, main() and    *)
(* its thread can be.                                                      *)
(***************************************************************************)
EXTENDS Session

\* From a on, in steps of d, there is a b.
Steps(a, b, d) == \E j \in 0 .. b : b = a + d * j

\* A client that has a connection which it still uses.
Alive(c) == cpc[c] \notin {"login", "gone"}

\* No recv() of the client has given up, and its login was answered in full.
Calm(k) == k \notin hasty \cup refused

\* A connection that is still to come has left no trace.
FreshOK ==
  \A k \in Conns : k[2] > try[k[1]] =>
    /\ ~Unread(k)
    /\ up[k] = NoBytes /\ down[k] = NoBytes
    /\ choice[k] = None /\ hpc[k] = "none"

\* A connection waits once; nobody has read from it or written to it.
QueueOK ==
  /\ \A i, j \in DOMAIN backlog : backlog[i] = backlog[j] => i = j
  /\ \A i \in DOMAIN backlog :
       /\ backlog[i] # cur
       /\ up[backlog[i]].read = 0 /\ down[backlog[i]] = NoBytes
       /\ hpc[backlog[i]] = "none"

\* What each client has sent, by where it is.  One that is in its room or waits
\* for an answer has chosen.
ClientOK(c) ==
  /\ Alive(c) => try[c] > 0
  /\ cpc[c] = "acpt" => up[Conn(c)].sent = 0 /\ choice[Conn(c)] = None
  /\ cpc[c] \in {"count", "list"} =>
       up[Conn(c)].sent = LoginSize /\ choice[Conn(c)] = None
  /\ cpc[c] = "reply" => choice[Conn(c)] = "enter"
  /\ cpc[c] = "room" => choice[Conn(c)] # None

\* Commands begin after the login and the choice.
Base(k) == LoginSize + (IF choice[k] = "make" THEN MakeSize ELSE EnterSize)

UpMessageOK(k, p) ==
  \/ p.kind = "login" /\ p.at = 0
  \/ choice[k] # None /\ p.kind = choice[k] /\ p.at = LoginSize
  \/ /\ choice[k] # None /\ p.kind = "command" /\ p.val <= longest[k]
     /\ Steps(Base(k), p.at, CommandSize)

UpOK(k) ==
  /\ choice[k] = None => up[k].sent \in {0, LoginSize}
  /\ choice[k] # None => Steps(Base(k), up[k].sent, CommandSize)
  /\ \A p \in up[k].msgs : UpMessageOK(k, p)

\* Until main() has read the choice it is there, and is one of the rooms there are.
ChoiceOK(k) ==
  choice[k] # None /\ up[k].read <= LoginSize =>
    \E p \in up[k].msgs :
      /\ p.kind = choice[k] /\ p.at = LoginSize
      /\ choice[k] = "enter" => p.val < Len(rooms)

\* The thread reads in step with the commands, or, of a client that entered a
\* room and whose stream it has not emptied yet, ten bytes early.
InStep(k) == Steps(Base(k), up[k].read, BUFFER_SIZE)

TenEarly(k) ==
  /\ choice[k] = "enter" /\ k \notin drained
  /\ Steps(LoginSize + ChoiceSize, up[k].read, BUFFER_SIZE)

HandlerOK(k) ==
  /\ hpc[k] # "none" => choice[k] # None /\ (InStep(k) \/ TenEarly(k))
  /\ k \in drained => hpc[k] # "none"

\* What the server has sent, and that nobody is told anything before its thread
\* is there.
DownOK(k) ==
  /\ down[k].sent = 0 \/ down[k].sent >= ReplySize
  /\ \A p \in down[k].msgs :
       /\ p.kind = "count" => p.val <= Len(rooms)
       /\ p.kind = "told" => hpc[k] # "none"
       /\ p.kind = "full" => status = "overrun"

\* The connection that main() is with.
CurrentOK ==
  cur # None =>
    /\ hpc[cur] = "none"
    /\ mpc = "login" =>
         /\ up[cur].read = 0 /\ down[cur].sent = ReplySize
         /\ \A p \in down[cur].msgs : p.kind # "count"
    /\ mpc # "login" /\ cur \notin fin => up[cur].read = LoginSize
    /\ mpc # "login" /\ cur \notin refused =>
         /\ line <= Len(rooms) /\ (mpc = "choice" => line = Len(rooms))
         /\ down[cur].sent = ReplySize + CountSize + BUFFER_SIZE * line
         /\ \A p \in down[cur].msgs :
              p.kind = "count" => p.at = ReplySize /\ p.val = Len(rooms)
         /\ down[cur].read <= ReplySize =>
              \E p \in down[cur].msgs : p.kind = "count" /\ p.at = ReplySize

GoneOK == \A k \in fin : cpc[k[1]] = "gone"

ListedOK == \A c \in Clients : listed[c] <= Len(rooms)

\* A client that uses its connection is waited for, or has its thread, unless
\* the server has failed it.
ServedOK(c) ==
  Alive(c) /\ status = "up" =>
    \/ Unread(Conn(c)) \/ hpc[Conn(c)] # "none" \/ mutex = "main"
    \/ failures > 0

\* Nothing follows ACPT on a connection that main() has left before the client
\* made its choice.
LeftOK(c) ==
  cpc[c] \in {"acpt", "count"} /\ ~Unread(Conn(c)) => down[Conn(c)].sent = ReplySize

\* Everything that was sent, and all that is told, comes in whole messages after
\* the byte b.
Aligned(s, b) ==
  /\ Steps(b, s.sent, CommandSize)
  /\ \A p \in s.msgs : p.kind = "told" => Steps(b, p.at, CommandSize)

\* A client none of whose reads gave up has read exactly the messages it is past.
CalmOK(c) ==
  Alive(c) /\ Calm(Conn(c)) =>
    /\ cpc[c] = "acpt" => down[Conn(c)].read = 0
    /\ cpc[c] = "count" => down[Conn(c)].read = ReplySize
    /\ cpc[c] = "list" =>
         /\ cur = Conn(c) /\ mpc # "login" /\ listed[c] = Len(rooms)
         /\ \E i \in 0 .. line :
              /\ down[cur].read = ReplySize + CountSize + BUFFER_SIZE * i
              /\ i + unlisted[c] >= listed[c]
    /\ cpc[c] \in {"reply", "room"} /\ Unread(Conn(c)) =>
         /\ cur = Conn(c) /\ mpc # "login" /\ line = Len(rooms)
         /\ Empty(down[cur])
         /\ cpc[c] = "room" => choice[cur] = "make"
    /\ cpc[c] = "reply" /\ hpc[Conn(c)] # "none" =>
         Aligned(down[Conn(c)], down[Conn(c)].read + ReplySize)
    /\ cpc[c] = "room" /\ hpc[Conn(c)] # "none" =>
         Aligned(down[Conn(c)], down[Conn(c)].read)

\* The inductive invariant: by the streams, every read of main() and of a thread
\* finds what it expects or is known to be early, and so does every read of a
\* client that did not give up.
IInv ==
  /\ TypeOK /\ FreshOK /\ QueueOK /\ CurrentOK /\ GoneOK /\ ListedOK
  /\ \A c \in Clients : ClientOK(c) /\ ServedOK(c) /\ LeftOK(c) /\ CalmOK(c)
  /\ \A k \in Conns : UpOK(k) /\ ChoiceOK(k) /\ HandlerOK(k) /\ DownOK(k)
  /\ PhantomsAreLong /\ ClientInStep

=============================================================================

---------------------------- MODULE SessionProofs ----------------------------
(***************************************************************************)
(* Proofs about Session, for every number of clients, attempts, rooms,     *)
(* places and commands, and every length of text.  First the bytes: what   *)
(* a read leaves of a stream and what a write adds; then what any step     *)
(* leaves alone; then one lemma per part of IInv (SessionInductive); the   *)
(* theorems are at the end.                                                *)
(***************************************************************************)
EXTENDS SessionInductive, SequenceTheorems, TLAPS

\* Stream t is what a read leaves of stream s.
Reads(s, t) ==
  /\ t.sent = s.sent
  /\ s.read <= t.read /\ t.read <= s.sent
  /\ t.msgs = {p \in s.msgs : p.at + Size(p.kind) > t.read}

-----------------------------------------------------------------------------
(* Bytes.                                                                  *)
LEMMA Sizes ==
  /\ \A kind : Size(kind) \in Nat \ {0} /\ Size(kind) >= ReplySize
  /\ Size("login") = 33 /\ Size("make") = 6 /\ Size("enter") = 16
  /\ Size("command") = 1024 /\ Size("told") = 1024
  /\ Size("count") = 6 /\ Size("line") = 128
  /\ Size("acpt") = 5 /\ Size("notf") = 5 /\ Size("full") = 5 /\ Size("romf") = 5
  /\ LoginSize = 33 /\ CommandSize = 1024 /\ BUFFER_SIZE = 128 /\ ReplySize = 5
  /\ EnterSize = 16 /\ CountSize = 6 /\ CountRead = 6 /\ MakeSize = 6
  /\ ChoiceSize = 6 /\ PieceSize = 128
<1>1. /\ LoginSize = 33 /\ CommandSize = 1024 /\ BUFFER_SIZE = 128 /\ ReplySize = 5
      /\ EnterSize = 16 /\ CountSize = 6 /\ CountRead = 6 /\ MakeSize = 6
      /\ ChoiceSize = 6 /\ PieceSize = 128
  BY DEF LoginSize, CommandSize, BUFFER_SIZE, ReplySize, EnterSize, CountSize,
         CountRead, MakeSize, ChoiceSize, PieceSize
<1>2. /\ Size("login") = 33 /\ Size("make") = 6 /\ Size("enter") = 16
      /\ Size("command") = 1024 /\ Size("told") = 1024
      /\ Size("count") = 6 /\ Size("line") = 128
      /\ Size("acpt") = 5 /\ Size("notf") = 5 /\ Size("full") = 5 /\ Size("romf") = 5
  BY <1>1 DEF Size
<1>3. \A kind : Size(kind) \in {33, 6, 16, 1024, 128, 5}
  BY <1>1 DEF Size
<1> QED
  BY <1>1, <1>2, <1>3

LEMMA NothingRead ==
  ASSUME NEW s \in Stream, Unfinished(s)
  PROVE  Reads(s, s)
BY DEF Reads, Stream, Unfinished, Message

LEMMA RestReads ==
  ASSUME NEW s \in Stream, Unfinished(s), NEW n \in Nat
  PROVE  /\ Rest(s, n) \in Stream /\ Reads(s, Rest(s, n))
         /\ Rest(s, n).read = ReadTo(s, n)
         /\ s.read + n <= s.sent => ReadTo(s, n) = s.read + n
         /\ s.read + n >= s.sent => ReadTo(s, n) = s.sent
         /\ s.sent \in Nat /\ s.read \in Nat /\ s.read <= s.sent
<1>1. s.sent \in Nat /\ s.read \in Nat /\ s.read <= s.sent /\ s.msgs \subseteq Message
  BY DEF Stream, Unfinished
<1>2. /\ ReadTo(s, n) \in Nat /\ ReadTo(s, n) <= s.sent /\ s.read <= ReadTo(s, n)
      /\ s.read + n <= s.sent => ReadTo(s, n) = s.read + n
      /\ s.read + n >= s.sent => ReadTo(s, n) = s.sent
  BY <1>1 DEF ReadTo
<1> HIDE DEF ReadTo
<1>3. Rest(s, n) \in Stream
  BY <1>1, <1>2 DEF Rest, Stream
<1>4. Reads(s, Rest(s, n)) /\ Rest(s, n).read = ReadTo(s, n)
  BY <1>2 DEF Rest, Reads
<1> QED
  BY <1>1, <1>2, <1>3, <1>4

\* After a read a stream is as well-formed as before, and has fewer messages.
LEMMA ReadsKeep ==
  ASSUME NEW s \in Stream, NEW t \in Stream, Unfinished(s), Reads(s, t)
  PROVE  /\ Unfinished(t)
         /\ t.msgs \subseteq s.msgs
         /\ \A p \in s.msgs : p.at + Size(p.kind) > t.read => p \in t.msgs
<1>1. \A p \in s.msgs : /\ p.at + Size(p.kind) \in Nat
                        /\ p.at + Size(p.kind) <= s.sent
  BY Sizes DEF Unfinished, Stream, Message
<1>2. \A p \in t.msgs : p \in s.msgs /\ p.at + Size(p.kind) > t.read
  BY DEF Reads
<1>3. t.sent = s.sent /\ t.read <= s.sent /\ t.read \in Nat /\ t.sent \in Nat
  BY DEF Reads, Stream
<1>4. \A p \in t.msgs : p.at + Size(p.kind) \in t.read + 1 .. t.sent
  BY <1>1, <1>2, <1>3
<1>5. \A p \in s.msgs : p.at + Size(p.kind) > t.read => p \in t.msgs
  BY DEF Reads
<1> QED
  BY <1>2, <1>3, <1>4, <1>5 DEF Unfinished

LEMMA PutAdds ==
  ASSUME NEW s \in Stream, Unfinished(s), NEW kind \in Kinds, NEW val \in Nat
  PROVE  /\ Put(s, kind, val) \in Stream /\ Unfinished(Put(s, kind, val))
         /\ Put(s, kind, val).sent = s.sent + Size(kind)
         /\ Put(s, kind, val).read = s.read
         /\ Put(s, kind, val).msgs =
              s.msgs \cup {[kind |-> kind, at |-> s.sent, val |-> val]}
<1> DEFINE p == [kind |-> kind, at |-> s.sent, val |-> val]
           t == Put(s, kind, val)
<1>1. s.sent \in Nat /\ s.read \in Nat /\ s.read <= s.sent /\ s.msgs \subseteq Message
  BY DEF Stream, Unfinished
<1>2. t = [sent |-> s.sent + Size(kind), read |-> s.read, msgs |-> s.msgs \cup {p}]
  BY DEF Put
<1>3. p \in Message /\ p.kind = kind /\ p.at = s.sent
  BY <1>1 DEF Message
<1>4. Size(kind) \in Nat \ {0}
  BY Sizes
<1> HIDE DEF p
<1>5. t \in Stream
  BY <1>1, <1>2, <1>3, <1>4 DEF Stream
<1>6. \A q \in s.msgs : q.at + Size(q.kind) \in s.read + 1 .. s.sent + Size(kind)
  BY <1>1, <1>4, Sizes DEF Unfinished, Message
<1>7. p.at + Size(p.kind) \in s.read + 1 .. s.sent + Size(kind)
  BY <1>1, <1>3, <1>4
<1>8. t.sent = s.sent + Size(kind) /\ t.read = s.read /\ t.msgs = s.msgs \cup {p}
  BY <1>2
<1>9. Unfinished(t)
  BY <1>1, <1>4, <1>6, <1>7, <1>8 DEF Unfinished
<1> QED
  BY <1>5, <1>8, <1>9 DEF p

\* From a in steps of d.
LEMMA StepsFrom ==
  ASSUME NEW a \in Nat, NEW b \in Nat, NEW d \in {128, 1024}
  PROVE  /\ Steps(a, a, d)
         /\ Steps(a, b, d) => a <= b /\ Steps(a, b + d, d)
         /\ Steps(a, b, d) /\ b # a => Steps(a + d, b, d)
         /\ Steps(a, b, 1024) => Steps(a, b, 128)
<1>1. a = a + d * 0 /\ 0 \in 0 .. a
  OBVIOUS
<1>2. ASSUME Steps(a, b, d) PROVE a <= b /\ Steps(a, b + d, d)
  <2>1. PICK j \in 0 .. b : b = a + d * j
    BY <1>2 DEF Steps
  <2>2. a <= b /\ j + 1 \in 0 .. b + d /\ b + d = a + d * (j + 1)
    BY <2>1
  <2> QED
    BY <2>2, ZenonT(30) DEF Steps
<1>3. ASSUME Steps(a, b, d), b # a PROVE Steps(a + d, b, d)
  <2>1. PICK j \in 0 .. b : b = a + d * j
    BY <1>3 DEF Steps
  <2>2. j # 0
    BY <1>3, <2>1
  <2>3. j - 1 \in 0 .. b /\ b = (a + d) + d * (j - 1)
    BY <2>1, <2>2
  <2> QED
    BY <2>3 DEF Steps
<1>4. ASSUME Steps(a, b, 1024) PROVE Steps(a, b, 128)
  <2>1. PICK j \in 0 .. b : b = a + 1024 * j
    BY <1>4 DEF Steps
  <2>2. 8 * j \in 0 .. b /\ b = a + 128 * (8 * j)
    BY <2>1
  <2> QED
    BY <2>2 DEF Steps
<1> QED
  BY <1>1, <1>2, <1>3, <1>4 DEF Steps

LEMMA StreamsKept ==
  ASSUME TypeOK
  PROVE  /\ up \in [Conns -> Stream] /\ down \in [Conns -> Stream]
         /\ \A k \in Conns : Unfinished(up[k]) /\ Unfinished(down[k])
         /\ \A k \in Conns : Reads(up[k], up[k]) /\ Reads(down[k], down[k])
<1>1. /\ up \in [Conns -> Stream] /\ down \in [Conns -> Stream]
      /\ \A k \in Conns : Unfinished(up[k]) /\ Unfinished(down[k])
  BY DEF TypeOK, ClientsOK
<1>2. \A k \in Conns : up[k] \in Stream /\ down[k] \in Stream
  BY <1>1
<1> QED
  BY <1>1, <1>2, NothingRead

\* The connection of a client that uses one.
LEMMA Connected ==
  ASSUME TypeOK, NEW c \in Clients, ClientOK(c), Alive(c)
  PROVE  /\ Conn(c) \in Conns /\ Conn(c)[1] = c /\ Conn(c)[2] = try[c]
         /\ try[c] \in 1 .. MaxAttempts
<1>1. try[c] \in 0 .. MaxAttempts /\ try[c] > 0 /\ MaxAttempts \in Nat
  BY SessionAssumption DEF TypeOK, ClientsOK, ClientOK
<1> QED
  BY <1>1 DEF Conn, Conns

LEMMA MainServes ==
  ASSUME TypeOK, mpc # "accept"
  PROVE  cur \in Conns
BY DEF TypeOK, ServerOK

-----------------------------------------------------------------------------
(* What a step does to the streams.                                        *)
TheStreams == up \in [Conns -> Stream] /\ down \in [Conns -> Stream]
              /\ \A k \in Conns : Unfinished(up[k]) /\ Unfinished(down[k])

UpOnlyRead == \A k \in Conns : Reads(up[k], up'[k])

DownOnlyRead == \A k \in Conns : Reads(down[k], down'[k])

\* A recv() of a client.
LEMMA Receives ==
  ASSUME TypeOK, NEW k \in Conns, NEW n \in Nat, Received(k, n)
  PROVE  /\ DownOnlyRead
         /\ down' \in [Conns -> Stream] /\ \A j \in Conns : Unfinished(down'[j])
         /\ \A j \in Conns : j # k => down'[j] = down[j]
         /\ down[k].read + n <= down[k].sent => down'[k].read = down[k].read + n
         /\ down[k].read + n >= down[k].sent => down'[k].read = down[k].sent
<1> USE DEF Received
<1>1. down \in [Conns -> Stream] /\ \A j \in Conns : Unfinished(down[j])
  BY StreamsKept
<1>2. down' \in [Conns -> Stream] /\ down'[k] = Rest(down[k], n)
  BY <1>1, RestReads
<1>3. \A j \in Conns : j # k => down'[j] = down[j]
  BY <1>1
<1>4. /\ Reads(down[k], Rest(down[k], n))
      /\ Rest(down[k], n).read = ReadTo(down[k], n)
      /\ down[k].read + n <= down[k].sent => ReadTo(down[k], n) = down[k].read + n
      /\ down[k].read + n >= down[k].sent => ReadTo(down[k], n) = down[k].sent
  BY <1>1, RestReads
<1>5. \A j \in Conns : Reads(down[j], down'[j])
  BY <1>2, <1>3, <1>4, StreamsKept
<1>6. \A j \in Conns : Unfinished(down'[j])
  BY <1>1, <1>2, <1>5, ReadsKeep
<1> QED
  BY <1>2, <1>3, <1>4, <1>5, <1>6 DEF DownOnlyRead

\* A read() of main() or of a thread.
LEMMA ServerReads ==
  ASSUME TypeOK, NEW k \in Conns, NEW n \in Nat,
         up' = [up EXCEPT ![k] = Rest(@, n)]
  PROVE  /\ UpOnlyRead
         /\ up' \in [Conns -> Stream] /\ \A j \in Conns : Unfinished(up'[j])
         /\ \A j \in Conns : j # k => up'[j] = up[j]
         /\ up[k].read + n <= up[k].sent => up'[k].read = up[k].read + n
         /\ up[k].read + n >= up[k].sent => up'[k].read = up[k].sent
<1>1. up \in [Conns -> Stream] /\ \A j \in Conns : Unfinished(up[j])
  BY StreamsKept
<1>2. up' \in [Conns -> Stream] /\ up'[k] = Rest(up[k], n)
  BY <1>1, RestReads
<1>3. \A j \in Conns : j # k => up'[j] = up[j]
  BY <1>1
<1>4. /\ Reads(up[k], Rest(up[k], n))
      /\ Rest(up[k], n).read = ReadTo(up[k], n)
      /\ up[k].read + n <= up[k].sent => ReadTo(up[k], n) = up[k].read + n
      /\ up[k].read + n >= up[k].sent => ReadTo(up[k], n) = up[k].sent
  BY <1>1, RestReads
<1>5. \A j \in Conns : Reads(up[j], up'[j])
  BY <1>2, <1>3, <1>4, StreamsKept
<1>6. \A j \in Conns : Unfinished(up'[j])
  BY <1>1, <1>2, <1>5, ReadsKeep
<1> QED
  BY <1>2, <1>3, <1>4, <1>5, <1>6 DEF UpOnlyRead

\* A send() of a client.
LEMMA Sends ==
  ASSUME TypeOK, NEW k \in Conns, NEW kind \in Kinds, NEW val \in Nat,
         Sent(k, kind, val)
  PROVE  /\ up' \in [Conns -> Stream] /\ \A j \in Conns : Unfinished(up'[j])
         /\ \A j \in Conns : j # k => up'[j] = up[j]
         /\ up'[k].sent = up[k].sent + Size(kind)
         /\ up'[k].read = up[k].read
         /\ up'[k].msgs = up[k].msgs \cup {[kind |-> kind, at |-> up[k].sent, val |-> val]}
<1>1. up' = [up EXCEPT ![k] = Put(@, kind, val)]
  BY DEF Sent
<1>2. up \in [Conns -> Stream] /\ \A j \in Conns : Unfinished(up[j])
  BY StreamsKept
<1>3. /\ Put(up[k], kind, val) \in Stream /\ Unfinished(Put(up[k], kind, val))
      /\ Put(up[k], kind, val).sent = up[k].sent + Size(kind)
      /\ Put(up[k], kind, val).read = up[k].read
      /\ Put(up[k], kind, val).msgs =
           up[k].msgs \cup {[kind |-> kind, at |-> up[k].sent, val |-> val]}
  BY <1>2, PutAdds
<1>4. up' \in [Conns -> Stream] /\ up'[k] = Put(up[k], kind, val)
  BY <1>1, <1>2, <1>3
<1>5. \A j \in Conns : j # k => up'[j] = up[j]
  BY <1>1, <1>2
<1>6. \A j \in Conns : Unfinished(up'[j])
  BY <1>2, <1>3, <1>4, <1>5
<1> QED
  BY <1>3, <1>4, <1>5, <1>6

\* A write() of main() or of a thread.
LEMMA Writes ==
  ASSUME TypeOK, NEW k \in Conns, NEW kind \in Kinds, NEW val \in Nat,
         Written(k, kind, val)
  PROVE  /\ down' \in [Conns -> Stream] /\ \A j \in Conns : Unfinished(down'[j])
         /\ \A j \in Conns : j # k => down'[j] = down[j]
         /\ down'[k].sent = down[k].sent + Size(kind)
         /\ down'[k].read = down[k].read
         /\ down'[k].msgs =
              down[k].msgs \cup {[kind |-> kind, at |-> down[k].sent, val |-> val]}
<1>1. down' = [down EXCEPT ![k] = Put(@, kind, val)]
  BY DEF Written
<1>2. down \in [Conns -> Stream] /\ \A j \in Conns : Unfinished(down[j])
  BY StreamsKept
<1>3. /\ Put(down[k], kind, val) \in Stream /\ Unfinished(Put(down[k], kind, val))
      /\ Put(down[k], kind, val).sent = down[k].sent + Size(kind)
      /\ Put(down[k], kind, val).read = down[k].read
      /\ Put(down[k], kind, val).msgs =
           down[k].msgs \cup {[kind |-> kind, at |-> down[k].sent, val |-> val]}
  BY <1>2, PutAdds
<1>4. down' \in [Conns -> Stream] /\ down'[k] = Put(down[k], kind, val)
  BY <1>1, <1>2, <1>3
<1>5. \A j \in Conns : j # k => down'[j] = down[j]
  BY <1>1, <1>2
<1>6. \A j \in Conns : Unfinished(down'[j])
  BY <1>2, <1>3, <1>4, <1>5
<1> QED
  BY <1>3, <1>4, <1>5, <1>6

\* A recv() with a time limit: a client that stays calm has read something.
LEMMA ReceivesOrNot ==
  ASSUME TypeOK, NEW c \in Clients, Conn(c) \in Conns, NEW n \in Nat,
         RecvOrTimeout(c, n)
  PROVE  /\ DownOnlyRead
         /\ down' \in [Conns -> Stream] /\ \A j \in Conns : Unfinished(down'[j])
         /\ \A j \in Conns : j # Conn(c) => down'[j] = down[j]
         /\ hasty \subseteq hasty' /\ hasty' \subseteq hasty \cup {Conn(c)}
         /\ Conn(c) \notin hasty' =>
              LET s == down[Conn(c)]
                  t == down'[Conn(c)]
              IN  /\ ~Empty(s) /\ Received(Conn(c), n)
                  /\ s.read + n <= s.sent => t.read = s.read + n
                  /\ s.read + n >= s.sent => t.read = s.sent
<1>1. CASE Empty(down[Conn(c)])
  <2>1. hasty' = hasty \cup {Conn(c)} /\ down' = down
    BY <1>1 DEF RecvOrTimeout
  <2> QED
    BY <2>1, StreamsKept DEF DownOnlyRead
<1>2. CASE ~Empty(down[Conn(c)])
  <2>1. Received(Conn(c), n) /\ hasty' = hasty
    BY <1>2 DEF RecvOrTimeout
  <2> QED
    BY <1>2, <2>1, Receives
<1> QED
  BY <1>1, <1>2

Sending(c) ==
  \/ RecvAcpt(c) \/ ChooseMake(c)
  \/ \E r \in 0 .. MaxRooms - 1 : ChooseEnter(c, r)
  \/ \E n \in TextLengths : SendCommand(c, n)

Writing ==
  \/ Accept \/ ReadLogin(TRUE) \/ WriteLine \/ ReadMake \/ ReadEnter
  \/ \E k \in Conns : Tell(k)

LEMMA StreamSteps ==
  ASSUME TypeOK, \A c \in Clients : ClientOK(c), Next
  PROVE  /\ TheStreams'
         /\ UpOnlyRead \/ \E c \in Clients : Sending(c)
         /\ DownOnlyRead \/ Writing
<1> DEFINE P == /\ TheStreams'
                /\ UpOnlyRead \/ \E c \in Clients : Sending(c)
                /\ DownOnlyRead \/ Writing
<1>a. TheStreams
  BY StreamsKept DEF TheStreams
<1>u. up' = up => UpOnlyRead
  BY StreamsKept DEF UpOnlyRead
<1>d. down' = down => DownOnlyRead
  BY StreamsKept DEF DownOnlyRead
<1>s. down' = down /\ up' = up => P
  BY <1>a, <1>u, <1>d DEF TheStreams
<1>z. SessionAssumption /\ ReplySize \in Nat /\ CountRead \in Nat /\ 256 \in Nat
      /\ CommandSize \in Nat /\ LoginSize \in Nat /\ ChoiceSize \in Nat
      /\ PieceSize \in Nat
  BY SessionAssumption, Sizes
<1>1. ASSUME NEW c \in Clients, Connect(c) PROVE P
  BY <1>1, <1>s DEF Connect, streamVars
<1>2. ASSUME NEW c \in Clients, RecvAcpt(c) PROVE P
  <2>1. Conn(c) \in Conns
    BY <1>2, Connected DEF RecvAcpt, At, Alive
  <2>2. RecvOrTimeout(c, ReplySize) /\ Sent(Conn(c), "login", 0) /\ "login" \in Kinds
    BY <1>2 DEF RecvAcpt, Kinds
  <2>3. /\ DownOnlyRead
        /\ down' \in [Conns -> Stream] /\ \A j \in Conns : Unfinished(down'[j])
    BY <1>z, <2>1, <2>2, ReceivesOrNot
  <2>4. up' \in [Conns -> Stream] /\ \A j \in Conns : Unfinished(up'[j])
    BY <2>1, <2>2, Sends
  <2> QED
    BY <1>2, <2>3, <2>4 DEF TheStreams, Sending
<1>3. ASSUME NEW c \in Clients, RecvCount(c) PROVE P
  <2>1. Conn(c) \in Conns
    BY <1>3, Connected DEF RecvCount, At, Alive
  <2>2. Received(Conn(c), CountRead) /\ up' = up
    BY <1>3 DEF RecvCount
  <2>3. /\ DownOnlyRead
        /\ down' \in [Conns -> Stream] /\ \A j \in Conns : Unfinished(down'[j])
    BY <1>z, <2>1, <2>2, Receives
  <2> QED
    BY <1>a, <1>u, <2>2, <2>3 DEF TheStreams
<1>4. ASSUME NEW c \in Clients, CountTimeout(c) PROVE P
  BY <1>4, <1>s DEF CountTimeout, streamVars
<1>5. ASSUME NEW c \in Clients, RecvLine(c) PROVE P
  <2>1. Conn(c) \in Conns
    BY <1>5, Connected DEF RecvLine, At, Alive
  <2>2. RecvOrTimeout(c, 256) /\ up' = up
    BY <1>5 DEF RecvLine
  <2>3. /\ DownOnlyRead
        /\ down' \in [Conns -> Stream] /\ \A j \in Conns : Unfinished(down'[j])
    BY <1>z, <2>1, <2>2, ReceivesOrNot
  <2> QED
    BY <1>a, <1>u, <2>2, <2>3 DEF TheStreams
<1>6. ASSUME NEW c \in Clients, RecvReply(c) PROVE P
  <2>1. Conn(c) \in Conns
    BY <1>6, Connected DEF RecvReply, At, Alive
  <2>2. RecvOrTimeout(c, ReplySize) /\ up' = up
    BY <1>6 DEF RecvReply
  <2>3. /\ DownOnlyRead
        /\ down' \in [Conns -> Stream] /\ \A j \in Conns : Unfinished(down'[j])
    BY <1>z, <2>1, <2>2, ReceivesOrNot
  <2> QED
    BY <1>a, <1>u, <2>2, <2>3 DEF TheStreams
<1>7. ASSUME NEW c \in Clients, ChooseMake(c) PROVE P
  <2>1. Conn(c) \in Conns
    BY <1>7, Connected DEF ChooseMake, At, Alive
  <2>2. Sent(Conn(c), "make", 0) /\ "make" \in Kinds /\ down' = down
    BY <1>7 DEF ChooseMake, Kinds
  <2>3. up' \in [Conns -> Stream] /\ \A j \in Conns : Unfinished(up'[j])
    BY <2>1, <2>2, Sends
  <2> QED
    BY <1>7, <1>a, <1>d, <2>2, <2>3 DEF TheStreams, Sending
<1>8. ASSUME NEW c \in Clients, NEW r \in 0 .. MaxRooms - 1, ChooseEnter(c, r) PROVE P
  <2>1. Conn(c) \in Conns
    BY <1>8, Connected DEF ChooseEnter, At, Alive
  <2>2. Sent(Conn(c), "enter", r) /\ "enter" \in Kinds /\ down' = down /\ r \in Nat
    BY <1>8 DEF ChooseEnter, Kinds
  <2>3. up' \in [Conns -> Stream] /\ \A j \in Conns : Unfinished(up'[j])
    BY <2>1, <2>2, Sends
  <2> QED
    BY <1>8, <1>a, <1>d, <2>2, <2>3 DEF TheStreams, Sending
<1>9. ASSUME NEW c \in Clients, RecvTold(c) PROVE P
  <2>1. Conn(c) \in Conns
    BY <1>9, Connected DEF RecvTold, At, Alive
  <2>2. Received(Conn(c), CommandSize) /\ up' = up
    BY <1>9 DEF RecvTold
  <2>3. /\ DownOnlyRead
        /\ down' \in [Conns -> Stream] /\ \A j \in Conns : Unfinished(down'[j])
    BY <1>z, <2>1, <2>2, Receives
  <2> QED
    BY <1>a, <1>u, <2>2, <2>3 DEF TheStreams
<1>10. ASSUME NEW c \in Clients, NEW n \in TextLengths, SendCommand(c, n) PROVE P
  <2>1. Conn(c) \in Conns
    BY <1>10, Connected DEF SendCommand, At, Alive
  <2>2. Sent(Conn(c), "command", n) /\ "command" \in Kinds /\ down' = down /\ n \in Nat
    BY <1>10, <1>z DEF SendCommand, Kinds, SessionAssumption
  <2>3. up' \in [Conns -> Stream] /\ \A j \in Conns : Unfinished(up'[j])
    BY <2>1, <2>2, Sends
  <2> QED
    BY <1>10, <1>a, <1>d, <2>2, <2>3 DEF TheStreams, Sending
<1>11. ASSUME NEW c \in Clients, Quit(c) PROVE P
  BY <1>11, <1>s DEF Quit
<1>12. ASSUME Accept PROVE P
  <2>1. cur' \in Conns
    BY <1>12, HeadTailProperties DEF Accept, TypeOK, ServerOK
  <2>2. Written(cur', "acpt", 0) /\ "acpt" \in Kinds /\ up' = up
    BY <1>12 DEF Accept, Kinds
  <2> DEFINE k == cur'
  <2>3. k \in Conns /\ Written(k, "acpt", 0)
    BY <2>1, <2>2
  <2> HIDE DEF k
  <2>4. down' \in [Conns -> Stream] /\ \A j \in Conns : Unfinished(down'[j])
    BY <2>2, <2>3, Writes
  <2> QED
    BY <1>12, <1>a, <1>u, <2>2, <2>4 DEF TheStreams, Writing
<1>13. ASSUME NEW known \in BOOLEAN, ReadLogin(known) PROVE P
  <2>1. cur \in Conns
    BY <1>13, MainServes DEF ReadLogin, MainAt
  <2>2. up' = [up EXCEPT ![cur] = Rest(@, LoginSize)]
    BY <1>13 DEF ReadLogin
  <2>3. UpOnlyRead /\ up' \in [Conns -> Stream] /\ \A j \in Conns : Unfinished(up'[j])
    BY <1>z, <2>1, <2>2, ServerReads, ZenonT(30)
  <2>4. CASE known = FALSE
    BY <1>13, <1>a, <1>d, <2>3, <2>4 DEF ReadLogin, TheStreams
  <2>5. CASE known = TRUE
    <3>1. Written(cur, "count", RoomsTold) /\ "count" \in Kinds /\ RoomsTold \in Nat
      BY <1>13, <2>5, LenProperties DEF ReadLogin, Kinds, RoomsTold, TypeOK, ServerOK
    <3>2. down' \in [Conns -> Stream] /\ \A j \in Conns : Unfinished(down'[j])
      BY <2>1, <3>1, Writes
    <3> QED
      BY <1>13, <2>3, <2>5, <3>2 DEF TheStreams, Writing
  <2> QED
    BY <2>4, <2>5
<1>14. ASSUME ReadLoginFails PROVE P
  <2>1. cur \in Conns
    BY <1>14, MainServes DEF ReadLoginFails, MainAt
  <2>2. up' = [up EXCEPT ![cur] = Rest(@, LoginSize)] /\ down' = down
    BY <1>14 DEF ReadLoginFails
  <2>3. UpOnlyRead /\ up' \in [Conns -> Stream] /\ \A j \in Conns : Unfinished(up'[j])
    BY <1>z, <2>1, <2>2, ServerReads, ZenonT(30)
  <2> QED
    BY <1>a, <1>d, <2>2, <2>3 DEF TheStreams
<1>15. ASSUME WriteLine PROVE P
  <2>1. cur \in Conns
    BY <1>15, MainServes DEF WriteLine, MainAt
  <2>2. CASE line < Len(rooms)
    <3>1. Written(cur, "line", line) /\ "line" \in Kinds /\ line \in Nat /\ up' = up
      BY <1>15, <2>2 DEF WriteLine, Kinds, TypeOK, ServerOK
    <3>2. down' \in [Conns -> Stream] /\ \A j \in Conns : Unfinished(down'[j])
      BY <2>1, <3>1, Writes
    <3> QED
      BY <1>15, <1>a, <1>u, <3>1, <3>2 DEF TheStreams, Writing
  <2>3. CASE ~(line < Len(rooms))
    BY <1>15, <1>s, <2>3 DEF WriteLine
  <2> QED
    BY <2>2, <2>3
<1>16. ASSUME ReadMake \/ ReadEnter \/ ReadOther
       PROVE  /\ cur \in Conns /\ UpOnlyRead /\ up' \in [Conns -> Stream]
              /\ \A j \in Conns : Unfinished(up'[j])
  <2>1. cur \in Conns
    BY <1>16, MainServes DEF ReadMake, ReadEnter, ReadOther, ReadChoice, MainAt
  <2>2. up' = [up EXCEPT ![cur] = Rest(@, ChoiceSize)]
    BY <1>16 DEF ReadMake, ReadEnter, ReadOther, ReadChoice
  <2> QED
    BY <1>z, <2>1, <2>2, ServerReads, ZenonT(30)
<1>17. ASSUME ReadMake PROVE P
  <2>1. down' = down \/ Written(cur, "romf", 0)
    BY <1>17 DEF ReadMake
  <2>2. "romf" \in Kinds
    BY DEF Kinds
  <2>3. down' \in [Conns -> Stream] /\ \A j \in Conns : Unfinished(down'[j])
    BY <1>a, <1>16, <1>17, <2>1, <2>2, Writes DEF TheStreams
  <2> QED
    BY <1>16, <1>17, <2>3 DEF TheStreams, Writing
<1>18. ASSUME ReadEnter PROVE P
  <2>1. Written(cur, "notf", 0) \/ Written(cur, "full", 0)
    BY <1>18 DEF ReadEnter
  <2>2. "notf" \in Kinds /\ "full" \in Kinds
    BY DEF Kinds
  <2>3. down' \in [Conns -> Stream] /\ \A j \in Conns : Unfinished(down'[j])
    BY <1>16, <1>18, <2>1, <2>2, Writes
  <2> QED
    BY <1>16, <1>18, <2>3 DEF TheStreams, Writing
<1>19. ASSUME ReadOther PROVE P
  <2>1. down' = down
    BY <1>19 DEF ReadOther
  <2> QED
    BY <1>16, <1>19, <1>a, <1>d, <2>1 DEF TheStreams
<1>20. ASSUME NEW k \in Conns, HandlerStart(k) PROVE P
  BY <1>20, <1>s DEF HandlerStart, streamVars
<1>21. ASSUME NEW k \in Conns, HandlerRead(k) PROVE P
  <2>1. up' = [up EXCEPT ![k] = Rest(@, PieceSize)] /\ down' = down
    BY <1>21 DEF HandlerRead
  <2>2. UpOnlyRead /\ up' \in [Conns -> Stream] /\ \A j \in Conns : Unfinished(up'[j])
    BY <1>z, <2>1, ServerReads, ZenonT(30)
  <2> QED
    BY <1>a, <1>d, <2>1, <2>2 DEF TheStreams
<1>22. ASSUME NEW k \in Conns, Tell(k) PROVE P
  <2>1. Written(k, "told", 0) /\ "told" \in Kinds /\ up' = up
    BY <1>22 DEF Tell, Kinds
  <2>2. down' \in [Conns -> Stream] /\ \A j \in Conns : Unfinished(down'[j])
    BY <2>1, Writes
  <2> QED
    BY <1>22, <1>a, <1>u, <2>1, <2>2 DEF TheStreams, Writing
<1> HIDE DEF P
<1>23. ASSUME NEW c \in Clients,
              ClientLogsIn(c) \/ ClientChooses(c) \/ ClientTalks(c) \/ Quit(c)
       PROVE  P
  BY <1>1, <1>2, <1>3, <1>4, <1>5, <1>6, <1>7, <1>8, <1>9, <1>10, <1>11, <1>23
  DEF ClientLogsIn, ClientChooses, ClientTalks
<1>24. ASSUME MainRuns \/ ReadLoginFails PROVE P
  BY <1>12, <1>13, <1>14, <1>15, <1>17, <1>18, <1>19, <1>24 DEF MainRuns
<1>25. ASSUME NEW k \in Conns, HandlerRuns(k) \/ Tell(k) PROVE P
  BY <1>20, <1>21, <1>22, <1>25 DEF HandlerRuns
<1> QED
  BY <1>23, <1>24, <1>25 DEF Next, P
-----------------------------------------------------------------------------
(* Types.                                                                  *)
LEMMA Counted ==
  ASSUME TypeOK, NEW k \in Conns, DownOK(k)
  PROVE  CountIn(down[k]) \in 0 .. Len(rooms)
<1>1. down[k].msgs \subseteq Message /\ Len(rooms) \in Nat
  BY StreamsKept, LenProperties DEF Stream, TypeOK, ServerOK
<1>2. CASE First(down[k], "count") = {}
  BY <1>1, <1>2 DEF CountIn
<1>3. CASE First(down[k], "count") # {}
  <2> DEFINE p == CHOOSE p \in First(down[k], "count") : TRUE
  <2>1. p \in First(down[k], "count")
    BY <1>3
  <2>2. p \in down[k].msgs /\ p.kind = "count"
    BY <2>1 DEF First
  <2>3. p.val \in Nat /\ p.val <= Len(rooms)
    BY <1>1, <2>2 DEF DownOK, Message
  <2>4. CountIn(down[k]) = p.val
    BY <1>3 DEF CountIn
  <2> HIDE DEF p
  <2> QED
    BY <1>1, <2>3, <2>4
<1> QED
  BY <1>2, <1>3

LEMMA Roomy ==
  ASSUME TypeOK
  PROVE  /\ rooms \in Seq(1 .. budget.places) /\ Len(rooms) \in 0 .. budget.rooms
         /\ budget.rooms \in Nat /\ budget.places \in Nat \ {0}
         /\ Limits(budget)
<1>1. budget.rooms \in Nat /\ budget.places \in Nat \ {0} /\ Limits(budget)
  BY SessionAssumption DEF TypeOK, ServerOK, Limits
<1>2. rooms \in Seq(1 .. budget.places) /\ Len(rooms) <= budget.rooms
  BY DEF TypeOK, ServerOK
<1> QED
  BY <1>1, <1>2, LenProperties

LEMMA TypeStep ==
  ASSUME IInv, Next
  PROVE  TypeOK'
<1>a. /\ TypeOK /\ ListedOK /\ \A c \in Clients : ClientOK(c)
      /\ \A k \in Conns : DownOK(k)
  BY DEF IInv
<1>t. TheStreams'
  BY <1>a, StreamSteps
<1>b. SessionAssumption /\ Limits(budget) /\ Len(rooms) \in 0 .. budget.rooms
      /\ budget.rooms \in Nat /\ budget.places \in Nat \ {0}
  BY <1>a, Roomy, SessionAssumption
<1>c. \A c \in Clients : Alive(c) => Conn(c) \in Conns
  BY <1>a, Connected
<1>m. mpc # "accept" => cur \in Conns
  BY <1>a, MainServes
<1> DEFINE
  TypesOfStreams == up' \in [Conns -> Stream] /\ down' \in [Conns -> Stream]
                    /\ \A k \in Conns : Unfinished(up'[k]) /\ Unfinished(down'[k])
<1>s. TypesOfStreams
  BY <1>t DEF TheStreams
<1> HIDE DEF Stream, Unfinished, Limits, Conns
<1>1. ASSUME NEW c \in Clients, Connect(c) PROVE TypeOK'
  <2>1. try[c] + 1 \in 1 .. MaxAttempts
    BY <1>1, <1>b, <1>a, SMTT(30) DEF Connect, TypeOK, ClientsOK, Limits, SessionAssumption
  <2>2. <<c, try'[c]>> \in Conns
    BY <1>1, <1>a, <2>1 DEF Connect, Conns, TypeOK, ClientsOK
  <2>3. backlog' \in Seq(Conns) /\ Len(backlog') <= BACKLOG
    BY <1>1, <1>a, <1>b, <2>2, AppendProperties, LenProperties
    DEF Connect, TypeOK, ServerOK, SessionAssumption
  <2>4. ClientsOK'
    BY <1>1, <1>a, <1>b, <1>s, <2>1, SMTT(30)
    DEF Connect, TypeOK, ClientsOK, talkVars, streamVars, SessionAssumption
  <2>5. ServerOK'
    BY <1>1, <1>a, <2>3 DEF Connect, TypeOK, ServerOK, talkVars, handlerVars
  <2> QED
    BY <2>4, <2>5 DEF TypeOK
<1>2. ASSUME NEW c \in Clients, RecvAcpt(c) PROVE TypeOK'
  <2>1. hasty' \subseteq Conns
    BY <1>2, <1>a, <1>c DEF RecvAcpt, RecvOrTimeout, TypeOK, ClientsOK, At, Alive
  <2>2. ClientsOK'
    BY <1>2, <1>a, <1>s, <2>1 DEF RecvAcpt, TypeOK, ClientsOK, talkVars
  <2>3. ServerOK'
    BY <1>2, <1>a DEF RecvAcpt, TypeOK, ServerOK, talkVars, handlerVars, mainVars
  <2> QED
    BY <2>2, <2>3 DEF TypeOK
<1>3. ASSUME NEW c \in Clients, RecvCount(c) PROVE TypeOK'
  <2>1. CountIn(down[Conn(c)]) \in 0 .. budget.rooms
    BY <1>3, <1>a, <1>b, <1>c, Counted DEF RecvCount, At, Alive
  <2>2. ClientsOK'
    BY <1>3, <1>a, <1>b, <1>s, <2>1 DEF RecvCount, TypeOK, ClientsOK, talkVars
  <2>3. ServerOK'
    BY <1>3, <1>a DEF RecvCount, TypeOK, ServerOK, talkVars, handlerVars, mainVars
  <2> QED
    BY <2>2, <2>3 DEF TypeOK
<1>4. ASSUME NEW c \in Clients, CountTimeout(c) PROVE TypeOK'
  <2>1. hasty' \subseteq Conns
    BY <1>4, <1>a, <1>c DEF CountTimeout, TypeOK, ClientsOK, At, Alive
  <2>2. ClientsOK'
    BY <1>4, <1>a, <1>s, <2>1 DEF CountTimeout, TypeOK, ClientsOK, talkVars, streamVars
  <2>3. ServerOK'
    BY <1>4, <1>a DEF CountTimeout, TypeOK, ServerOK, talkVars, handlerVars, mainVars
  <2> QED
    BY <2>2, <2>3 DEF TypeOK
<1>5. ASSUME NEW c \in Clients, RecvLine(c) PROVE TypeOK'
  <2>1. hasty' \subseteq Conns
    BY <1>5, <1>a, <1>c DEF RecvLine, RecvOrTimeout, TypeOK, ClientsOK, At, Alive
  <2>2. listed \in [Clients -> Nat] /\ unlisted \in [Clients -> Nat]
    BY <1>a, <1>b DEF TypeOK, ClientsOK
  <2>3. unlisted' = [unlisted EXCEPT ![c] = @ - 1] /\ unlisted[c] > 0
    BY <1>5 DEF RecvLine
  <2>4. /\ unlisted' \in [Clients -> Nat]
        /\ \A d \in Clients : unlisted'[d] <= listed[d]
    BY <1>a, <2>2, <2>3 DEF TypeOK, ClientsOK
  <2>5. ClientsOK'
    BY <1>5, <1>a, <1>s, <2>1, <2>4 DEF RecvLine, TypeOK, ClientsOK, talkVars
  <2>6. ServerOK'
    BY <1>5, <1>a DEF RecvLine, TypeOK, ServerOK, talkVars, handlerVars, mainVars
  <2> QED
    BY <2>5, <2>6 DEF TypeOK
<1>6. ASSUME NEW c \in Clients, RecvReply(c) PROVE TypeOK'
  <2>1. hasty' \subseteq Conns
    BY <1>6, <1>a, <1>c DEF RecvReply, RecvOrTimeout, TypeOK, ClientsOK, At, Alive
  <2>2. ClientsOK'
    BY <1>6, <1>a, <1>s, <2>1 DEF RecvReply, TypeOK, ClientsOK, talkVars
  <2>3. ServerOK'
    BY <1>6, <1>a DEF RecvReply, TypeOK, ServerOK, talkVars, handlerVars, mainVars
  <2> QED
    BY <2>2, <2>3 DEF TypeOK
<1>7. ASSUME NEW c \in Clients, ChooseMake(c) PROVE TypeOK'
  <2>1. ClientsOK'
    BY <1>7, <1>a, <1>s DEF ChooseMake, TypeOK, ClientsOK, talkVars
  <2>2. ServerOK'
    BY <1>7, <1>a DEF ChooseMake, TypeOK, ServerOK, talkVars, handlerVars, mainVars
  <2> QED
    BY <2>1, <2>2 DEF TypeOK
<1>8. ASSUME NEW c \in Clients, NEW r \in 0 .. MaxRooms - 1, ChooseEnter(c, r)
      PROVE  TypeOK'
  <2>1. ClientsOK'
    BY <1>8, <1>a, <1>s DEF ChooseEnter, TypeOK, ClientsOK, talkVars
  <2>2. ServerOK'
    BY <1>8, <1>a DEF ChooseEnter, TypeOK, ServerOK, talkVars, handlerVars, mainVars
  <2> QED
    BY <2>1, <2>2 DEF TypeOK
<1>9. ASSUME NEW c \in Clients, RecvTold(c) PROVE TypeOK'
  <2> DEFINE skips == Skipped(down[Conn(c)], CommandSize, "told") # {}
  <2>1. missed' = [missed EXCEPT ![Conn(c)] = @ \/ skips]
    BY <1>9 DEF RecvTold
  <2>2. skips \in BOOLEAN /\ missed \in [Conns -> BOOLEAN]
    BY <1>a DEF TypeOK, ClientsOK
  <2> HIDE DEF skips
  <2>3. missed' \in [Conns -> BOOLEAN]
    BY <2>1, <2>2
  <2>4. ClientsOK'
    BY <1>9, <1>a, <1>s, <2>3 DEF RecvTold, TypeOK, ClientsOK, clientVars
  <2>5. ServerOK'
    BY <1>9, <1>a DEF RecvTold, TypeOK, ServerOK, handlerVars, mainVars
  <2> QED
    BY <2>4, <2>5 DEF TypeOK
<1>10. ASSUME NEW c \in Clients, NEW n \in TextLengths, SendCommand(c, n) PROVE TypeOK'
  <2>1. budget.commands \in [Clients -> Nat] /\ budget.commands[c] > 0
    BY <1>10, <1>b DEF SendCommand, Limits
  <2> DEFINE left == [budget.commands EXCEPT ![c] = @ - 1]
  <2>2. budget' = [budget EXCEPT !.commands = left]
    BY <1>10 DEF SendCommand
  <2>3. left \in [Clients -> Nat]
    BY <2>1
  <2> HIDE DEF left
  <2>4. /\ Limits(budget') /\ budget'.rooms = budget.rooms
        /\ budget'.places = budget.places /\ budget'.failures = budget.failures
    <3> DEFINE b == budget
               Commands == [Clients -> Nat]
    <3>1. b \in [attempts : 0 .. MaxAttempts, commands : Commands, told : Nat,
                 failures : Nat, rooms : 1 .. MaxRooms, places : 1 .. MEMBER_MAX]
      BY <1>b DEF Limits
    <3>2. left \in Commands
      BY <2>3
    <3> HIDE DEF b, Commands
    <3>3. [b EXCEPT !.commands = left]
            \in [attempts : 0 .. MaxAttempts, commands : Commands, told : Nat,
                failures : Nat, rooms : 1 .. MaxRooms, places : 1 .. MEMBER_MAX]
      BY <3>1, <3>2
    <3>4. /\ [b EXCEPT !.commands = left].rooms = b.rooms
          /\ [b EXCEPT !.commands = left].places = b.places
          /\ [b EXCEPT !.commands = left].failures = b.failures
      BY <3>1
    <3> QED
      BY <2>2, <3>3, <3>4 DEF Limits, b, Commands
  <2>5. longest' \in [Conns -> TextLengths \cup {0}]
    BY <1>10, <1>a DEF SendCommand, TypeOK, ServerOK
  <2>6. ClientsOK'
    BY <1>10, <1>a, <1>s, <2>4 DEF SendCommand, TypeOK, ClientsOK, clientVars
  <2>7. ServerOK'
    BY <1>10, <1>a, <2>4, <2>5 DEF SendCommand, TypeOK, ServerOK, handlerVars, mainVars
  <2> QED
    BY <2>6, <2>7 DEF TypeOK
<1>11. ASSUME NEW c \in Clients, Quit(c) PROVE TypeOK'
  <2>1. ClientsOK'
    BY <1>11, <1>a, <1>s DEF Quit, TypeOK, ClientsOK, talkVars
  <2>2. ServerOK'
    BY <1>11, <1>a DEF Quit, TypeOK, ServerOK, talkVars, handlerVars, mainVars
  <2> QED
    BY <2>1, <2>2 DEF TypeOK
<1>12. ASSUME Accept PROVE TypeOK'
  <2>1. ClientsOK'
    BY <1>12, <1>a, <1>s DEF Accept, TypeOK, ClientsOK, clientVars, talkVars
  <2>2. /\ backlog' \in Seq(Conns) /\ Len(backlog') = Len(backlog) - 1
        /\ Len(backlog) \in Nat /\ cur' \in Conns
    BY <1>12, <1>a, HeadTailProperties, LenProperties DEF Accept, TypeOK, ServerOK
  <2>3. cur' # None
    BY <1>b, <2>2 DEF SessionAssumption
  <2>4. ServerOK'
    BY <1>12, <1>a, <1>b, <2>2, <2>3
    DEF Accept, TypeOK, ServerOK, talkVars, handlerVars, SessionAssumption
  <2> QED
    BY <2>1, <2>4 DEF TypeOK
<1>13. ASSUME NEW known \in BOOLEAN, ReadLogin(known) PROVE TypeOK'
  <2>1. cur \in Conns /\ cur # None
    BY <1>13, <1>m, <1>b DEF ReadLogin, MainAt, SessionAssumption
  <2>2. refused' \subseteq Conns
    BY <1>13, <1>a, <2>1 DEF ReadLogin, TypeOK, ServerOK
  <2>3. ClientsOK'
    BY <1>13, <1>a, <1>s DEF ReadLogin, TypeOK, ClientsOK, clientVars, talkVars
  <2>4. ServerOK'
    BY <1>13, <1>a, <1>b, <2>1, <2>2
    DEF ReadLogin, TypeOK, ServerOK, talkVars, handlerVars, MainAt
  <2> QED
    BY <2>3, <2>4 DEF TypeOK
<1>14. ASSUME ReadLoginFails PROVE TypeOK'
  <2>1. failures' \in 0 .. budget.failures
    BY <1>14, <1>a, <1>b DEF ReadLoginFails, TypeOK, ServerOK, Limits
  <2>2. ClientsOK'
    BY <1>14, <1>a, <1>s DEF ReadLoginFails, TypeOK, ClientsOK, clientVars, talkVars
  <2>3. ServerOK'
    BY <1>14, <1>a, <1>b, <2>1
    DEF ReadLoginFails, TypeOK, ServerOK, talkVars, handlerVars, MainAt
  <2> QED
    BY <2>2, <2>3 DEF TypeOK
<1>15. ASSUME WriteLine PROVE TypeOK'
  <2>1. line' \in 0 .. budget.rooms /\ mpc' \in {"lines", "choice"}
    BY <1>15, <1>a, <1>b DEF WriteLine, MainAt, TypeOK, ServerOK
  <2>2. ClientsOK'
    BY <1>15, <1>a, <1>s DEF WriteLine, TypeOK, ClientsOK, clientVars, talkVars
  <2>3. ServerOK'
    BY <1>15, <1>a, <1>b, <2>1
    DEF WriteLine, TypeOK, ServerOK, talkVars, handlerVars, MainAt
  <2> QED
    BY <2>2, <2>3 DEF TypeOK
<1>16. ASSUME ReadMake PROVE TypeOK'
  <2>1. cur \in Conns
    BY <1>16, <1>m DEF ReadMake, ReadChoice, MainAt
  <2>2. 1 \in 1 .. budget.places
    BY <1>b
  <2>3. rooms' \in Seq(1 .. budget.places) /\ Len(rooms') <= budget.rooms
    <3>1. rooms \in Seq(1 .. budget.places)
      BY <1>a, Roomy
    <3>2. CASE rooms' = rooms
      BY <1>b, <3>1, <3>2
    <3>3. CASE rooms' = Append(rooms, 1) /\ Len(rooms) < budget.rooms
      <4>1. rooms' \in Seq(1 .. budget.places) /\ Len(rooms') = Len(rooms) + 1
        BY <2>2, <3>1, <3>3, AppendProperties
      <4> QED
        BY <1>b, <3>3, <4>1
    <3> QED
      BY <1>16, <3>2, <3>3 DEF ReadMake
  <2>4. /\ hpc' \in [Conns -> {"none", "placed", "read"}]
        /\ drained' \subseteq Conns /\ phantom' \subseteq Conns
        /\ swallowed' \in [Conns -> SUBSET Nat]
    BY <1>16, <1>a, <2>1 DEF ReadMake, Place, handlerVars, TypeOK, ServerOK
  <2>5. ClientsOK'
    BY <1>16, <1>a, <1>s DEF ReadMake, TypeOK, ClientsOK, clientVars, talkVars
  <2>6. mutex' \in {"free", "main"} /\ cur' = None /\ mpc' = "accept"
    BY <1>16, <1>a DEF ReadMake, MainIsFree
  <2>7. ServerOK'
    BY <1>16, <1>a, <2>3, <2>4, <2>6 DEF ReadMake, TypeOK, ServerOK, talkVars
  <2> QED
    BY <2>5, <2>7 DEF TypeOK
<1>17. ASSUME ReadEnter PROVE TypeOK'
  <2>1. cur \in Conns
    BY <1>17, <1>m DEF ReadEnter, ReadChoice, MainAt
  <2>2. PICK p \in First(up[cur], "enter") :
          /\ p.val < Len(rooms)
          /\ IF rooms[p.val + 1] < budget.places
             THEN /\ rooms' = [rooms EXCEPT ![p.val + 1] = @ + 1]
                  /\ Written(cur, "notf", 0)
                  /\ Place(cur)
                  /\ UNCHANGED status
             ELSE /\ Written(cur, "full", 0)
                  /\ status' = "overrun"
                  /\ UNCHANGED <<rooms, handlerVars>>
    BY <1>17 DEF ReadEnter
  <2>3. p.val \in Nat
    <3>1. p \in up[cur].msgs /\ up[cur] \in Stream
      BY <1>a, <2>1, StreamsKept DEF First
    <3> QED
      BY <3>1 DEF Stream, Message
  <2>4. rooms[p.val + 1] \in 1 .. budget.places /\ p.val + 1 \in 1 .. Len(rooms)
    <3>1. p.val + 1 \in 1 .. Len(rooms)
      BY <1>b, <2>2, <2>3
    <3>2. rooms \in Seq(1 .. budget.places)
      BY <1>a, Roomy
    <3> QED
      BY <3>1, <3>2, ElementOfSeq
  <2>5. rooms' \in Seq(1 .. budget.places) /\ Len(rooms') = Len(rooms)
    <3>1. CASE rooms[p.val + 1] < budget.places
      <4>1. rooms[p.val + 1] + 1 \in 1 .. budget.places
        BY <1>b, <2>4, <3>1
      <4>2. rooms' = [rooms EXCEPT ![p.val + 1] = rooms[p.val + 1] + 1]
        BY <2>2, <3>1
      <4>3. rooms \in Seq(1 .. budget.places)
        BY <1>a, Roomy
      <4> QED
        BY <2>4, <4>1, <4>2, <4>3, ExceptSeq
    <3>2. CASE ~(rooms[p.val + 1] < budget.places)
      BY <1>a, <2>2, <3>2, Roomy
    <3> QED
      BY <3>1, <3>2
  <2>6. /\ hpc' \in [Conns -> {"none", "placed", "read"}]
        /\ drained' \subseteq Conns /\ phantom' \subseteq Conns
        /\ swallowed' \in [Conns -> SUBSET Nat]
        /\ status' \in {"up", "overrun"}
    BY <1>a, <2>1, <2>2 DEF Place, handlerVars, TypeOK, ServerOK
  <2>7. ClientsOK'
    BY <1>17, <1>a, <1>s DEF ReadEnter, TypeOK, ClientsOK, clientVars, talkVars
  <2>8. cur' = None /\ mpc' = "accept"
    BY <1>17 DEF ReadEnter, MainIsFree
  <2>9. ServerOK'
    BY <1>17, <1>a, <1>b, <2>5, <2>6, <2>8, SMTT(30) DEF ReadEnter, TypeOK, ServerOK, talkVars
  <2> QED
    BY <2>7, <2>9 DEF TypeOK
<1>18. ASSUME ReadOther PROVE TypeOK'
  <2>1. ClientsOK'
    BY <1>18, <1>a, <1>s DEF ReadOther, TypeOK, ClientsOK, clientVars, talkVars
  <2>2. ServerOK'
    BY <1>18, <1>a
    DEF ReadOther, MainIsFree, TypeOK, ServerOK, talkVars, handlerVars
  <2> QED
    BY <2>1, <2>2 DEF TypeOK
<1>19. ASSUME NEW k \in Conns, HandlerStart(k) PROVE TypeOK'
  <2>1. ClientsOK'
    BY <1>19, <1>a, <1>s
    DEF HandlerStart, TypeOK, ClientsOK, clientVars, talkVars, streamVars
  <2>2. ServerOK'
    BY <1>19, <1>a DEF HandlerStart, TypeOK, ServerOK, talkVars, mainVars
  <2> QED
    BY <2>1, <2>2 DEF TypeOK
<1>20. ASSUME NEW k \in Conns, HandlerRead(k) PROVE TypeOK'
  <2>1. Skipped(up[k], PieceSize, "command") \subseteq Nat
    <3>1. up[k].msgs \subseteq Message
      BY <1>a, StreamsKept DEF Stream
    <3> QED
      BY <3>1 DEF Skipped, Message
  <2>2. swallowed' \in [Conns -> SUBSET Nat]
    BY <1>20, <1>a, <2>1 DEF HandlerRead, TypeOK, ServerOK
  <2>3. drained' \subseteq Conns /\ phantom' \subseteq Conns
    BY <1>20, <1>a DEF HandlerRead, TypeOK, ServerOK
  <2>4. ClientsOK'
    BY <1>20, <1>a, <1>s DEF HandlerRead, TypeOK, ClientsOK, clientVars, talkVars
  <2>5. ServerOK'
    BY <1>20, <1>a, <2>2, <2>3 DEF HandlerRead, TypeOK, ServerOK, talkVars, mainVars
  <2> QED
    BY <2>4, <2>5 DEF TypeOK
<1>21. ASSUME NEW k \in Conns, Tell(k) PROVE TypeOK'
  <2>1. budget.told \in Nat /\ budget.told > 0
    BY <1>21, <1>b DEF Tell, Limits
  <2>2. /\ Limits(budget') /\ budget'.rooms = budget.rooms
        /\ budget'.places = budget.places /\ budget'.failures = budget.failures
    BY <1>21, <1>b, <2>1, SMTT(30) DEF Tell, Limits
  <2>3. ClientsOK'
    BY <1>21, <1>a, <1>s, <2>2 DEF Tell, TypeOK, ClientsOK, clientVars
  <2>4. ServerOK'
    BY <1>21, <1>a, <2>2 DEF Tell, TypeOK, ServerOK, handlerVars, mainVars
  <2> QED
    BY <2>3, <2>4 DEF TypeOK
<1>22. ASSUME NEW c \in Clients,
              ClientLogsIn(c) \/ ClientChooses(c) \/ ClientTalks(c) \/ Quit(c)
       PROVE  TypeOK'
  BY <1>1, <1>2, <1>3, <1>4, <1>5, <1>6, <1>7, <1>8, <1>9, <1>10, <1>11, <1>22
  DEF ClientLogsIn, ClientChooses, ClientTalks
<1>23. ASSUME MainRuns \/ ReadLoginFails PROVE TypeOK'
  BY <1>12, <1>13, <1>14, <1>15, <1>16, <1>17, <1>18, <1>23 DEF MainRuns
<1>24. ASSUME NEW k \in Conns, HandlerRuns(k) \/ Tell(k) PROVE TypeOK'
  BY <1>19, <1>20, <1>21, <1>24 DEF HandlerRuns
<1> QED
  BY <1>22, <1>23, <1>24 DEF Next
-----------------------------------------------------------------------------
(* Which steps change what, and what only grows.                           *)
LEMMA Movers ==
  ASSUME Next
  PROVE  /\ status = "up"
         /\ choice' = choice \/ \E c \in Clients :
              ChooseMake(c) \/ \E r \in 0 .. MaxRooms - 1 : ChooseEnter(c, r)
         /\ hpc' = hpc \/ ReadMake \/ ReadEnter \/ \E k \in Conns : HandlerStart(k)
         /\ UNCHANGED <<drained, phantom, swallowed>>
              \/ \E k \in Conns : HandlerRead(k)
         /\ longest' = longest
              \/ \E c \in Clients, n \in TextLengths : SendCommand(c, n)
         /\ rooms' = rooms \/ ReadMake \/ ReadEnter
         /\ try' = try \/ \E c \in Clients : Connect(c)
         /\ backlog' = backlog \/ Accept \/ \E c \in Clients : Connect(c)
         /\ cur' = cur \/ Accept \/ ReadLoginFails \/ ReadMake \/ ReadEnter \/ ReadOther
         /\ listed' = listed \/ \E c \in Clients : RecvCount(c)
         /\ missed' = missed \/ \E c \in Clients : RecvTold(c)
         /\ fin' = fin \/ \E c \in Clients : Quit(c)
         /\ status' = status \/ ReadEnter
         /\ mutex' = mutex \/ ReadMake
         /\ failures' = failures \/ ReadLoginFails
         /\ refused' = refused \/ ReadLogin(FALSE)
         /\ hasty' = hasty \/ \E c \in Clients :
              RecvAcpt(c) \/ CountTimeout(c) \/ RecvLine(c) \/ RecvReply(c)
<1> DEFINE
  P == /\ status = "up"
       /\ choice' = choice \/ \E c \in Clients :
            ChooseMake(c) \/ \E r \in 0 .. MaxRooms - 1 : ChooseEnter(c, r)
       /\ hpc' = hpc \/ ReadMake \/ ReadEnter \/ \E k \in Conns : HandlerStart(k)
       /\ UNCHANGED <<drained, phantom, swallowed>>
            \/ \E k \in Conns : HandlerRead(k)
       /\ longest' = longest
            \/ \E c \in Clients, n \in TextLengths : SendCommand(c, n)
       /\ rooms' = rooms \/ ReadMake \/ ReadEnter
       /\ try' = try \/ \E c \in Clients : Connect(c)
       /\ backlog' = backlog \/ Accept \/ \E c \in Clients : Connect(c)
       /\ cur' = cur \/ Accept \/ ReadLoginFails \/ ReadMake \/ ReadEnter \/ ReadOther
       /\ listed' = listed \/ \E c \in Clients : RecvCount(c)
       /\ missed' = missed \/ \E c \in Clients : RecvTold(c)
       /\ fin' = fin \/ \E c \in Clients : Quit(c)
       /\ status' = status \/ ReadEnter
       /\ mutex' = mutex \/ ReadMake
       /\ failures' = failures \/ ReadLoginFails
       /\ refused' = refused \/ ReadLogin(FALSE)
       /\ hasty' = hasty \/ \E c \in Clients :
            RecvAcpt(c) \/ CountTimeout(c) \/ RecvLine(c) \/ RecvReply(c)
<1> USE DEF At, MainAt, ReadChoice, clientVars, streamVars, mainVars, handlerVars, talkVars
<1>1. ASSUME NEW c \in Clients, Connect(c) PROVE P
  BY <1>1 DEF Connect
<1>2. ASSUME NEW c \in Clients, RecvAcpt(c) PROVE P
  BY <1>2 DEF RecvAcpt
<1>3. ASSUME NEW c \in Clients, RecvCount(c) PROVE P
  BY <1>3 DEF RecvCount
<1>4. ASSUME NEW c \in Clients, CountTimeout(c) PROVE P
  BY <1>4 DEF CountTimeout
<1>5. ASSUME NEW c \in Clients, RecvLine(c) PROVE P
  BY <1>5 DEF RecvLine
<1>6. ASSUME NEW c \in Clients, RecvReply(c) PROVE P
  BY <1>6 DEF RecvReply
<1>7. ASSUME NEW c \in Clients, ChooseMake(c) PROVE P
  BY <1>7 DEF ChooseMake
<1>8. ASSUME NEW c \in Clients, NEW r \in 0 .. MaxRooms - 1, ChooseEnter(c, r) PROVE P
  BY <1>8 DEF ChooseEnter
<1>9. ASSUME NEW c \in Clients, RecvTold(c) PROVE P
  BY <1>9 DEF RecvTold
<1>10. ASSUME NEW c \in Clients, NEW n \in TextLengths, SendCommand(c, n) PROVE P
  BY <1>10 DEF SendCommand
<1>11. ASSUME NEW c \in Clients, Quit(c) PROVE P
  BY <1>11 DEF Quit
<1>12. ASSUME Accept PROVE P
  BY <1>12 DEF Accept
<1>13. ASSUME NEW known \in BOOLEAN, ReadLogin(known) PROVE P
  BY <1>13 DEF ReadLogin
<1>14. ASSUME ReadLoginFails PROVE P
  BY <1>14 DEF ReadLoginFails
<1>15. ASSUME WriteLine PROVE P
  BY <1>15 DEF WriteLine
<1>16. ASSUME ReadMake PROVE P
  BY <1>16 DEF ReadMake, Place
<1>17. ASSUME ReadEnter PROVE P
  BY <1>17 DEF ReadEnter, Place
<1>18. ASSUME ReadOther PROVE P
  BY <1>18 DEF ReadOther
<1>19. ASSUME NEW k \in Conns, HandlerStart(k) PROVE P
  BY <1>19 DEF HandlerStart
<1>20. ASSUME NEW k \in Conns, HandlerRead(k) PROVE P
  BY <1>20 DEF HandlerRead
<1>21. ASSUME NEW k \in Conns, Tell(k) PROVE P
  BY <1>21 DEF Tell
<1> HIDE DEF P
<1>22. ASSUME NEW c \in Clients,
              ClientLogsIn(c) \/ ClientChooses(c) \/ ClientTalks(c) \/ Quit(c)
       PROVE  P
  BY <1>1, <1>2, <1>3, <1>4, <1>5, <1>6, <1>7, <1>8, <1>9, <1>10, <1>11, <1>22
  DEF ClientLogsIn, ClientChooses, ClientTalks
<1>23. ASSUME MainRuns \/ ReadLoginFails PROVE P
  BY <1>12, <1>13, <1>14, <1>15, <1>16, <1>17, <1>18, <1>23 DEF MainRuns
<1>24. ASSUME NEW k \in Conns, HandlerRuns(k) \/ Tell(k) PROVE P
  BY <1>19, <1>20, <1>21, <1>24 DEF HandlerRuns
<1>25. P
  BY <1>22, <1>23, <1>24 DEF Next
<1> QED
  BY <1>25 DEF P

\* The connection that a client's, or main()'s, step is about.
LEMMA Chooses ==
  ASSUME TypeOK, \A c \in Clients : ClientOK(c), Next
  PROVE  \A k \in Conns : choice[k] # None => choice'[k] = choice[k]
<1>1. ASSUME NEW c \in Clients,
             ChooseMake(c) \/ \E r \in 0 .. MaxRooms - 1 : ChooseEnter(c, r)
      PROVE  \A k \in Conns : choice[k] # None => choice'[k] = choice[k]
  <2>1. cpc[c] = "list"
    BY <1>1 DEF ChooseMake, ChooseEnter, At
  <2>2. choice[Conn(c)] = None
    BY <2>1 DEF ClientOK
  <2>3. \E x : choice' = [choice EXCEPT ![Conn(c)] = x]
    BY <1>1 DEF ChooseMake, ChooseEnter
  <2> QED
    BY <2>2, <2>3 DEF TypeOK, ClientsOK
<1> QED
  BY <1>1, Movers

LEMMA Growth ==
  ASSUME TypeOK, \A c \in Clients : ClientOK(c), Next
  PROVE  /\ Len(rooms) \in Nat /\ Len(rooms') \in Nat /\ Len(rooms) <= Len(rooms')
         /\ ReadMake \/ Len(rooms') = Len(rooms)
         /\ \A k \in Conns : hpc[k] # "none" => hpc'[k] # "none"
         /\ \A k \in Conns : longest[k] \in Nat /\ longest'[k] \in Nat
                             /\ longest[k] <= longest'[k]
         /\ hasty \subseteq hasty' /\ refused \subseteq refused'
         /\ drained \subseteq drained'
         /\ failures \in Nat /\ failures' \in Nat /\ failures <= failures'
         /\ mutex = "main" => mutex' = "main"
         /\ \A c \in Clients : try[c] \in Nat /\ try'[c] \in Nat /\ try[c] <= try'[c]
<1>1. /\ Len(rooms) \in Nat /\ Len(rooms') \in Nat /\ Len(rooms) <= Len(rooms')
      /\ ReadMake \/ Len(rooms') = Len(rooms)
  <2>1. rooms \in Seq(1 .. budget.places) /\ Len(rooms) \in Nat
    BY Roomy
  <2>2. CASE rooms' = rooms
    BY <2>1, <2>2
  <2>3. CASE ReadMake
    <3>1. 1 \in 1 .. budget.places
      BY Roomy
    <3>2. CASE rooms' = Append(rooms, 1)
      <4>1. Len(rooms') = Len(rooms) + 1
        BY <2>1, <3>1, <3>2, AppendProperties
      <4> QED
        BY <2>1, <2>3, <4>1
    <3> QED
      BY <2>1, <2>3, <3>2 DEF ReadMake
  <2>4. CASE ReadEnter
    <3>1. CASE rooms' = rooms
      BY <2>1, <3>1
    <3>2. CASE \E i, v : rooms' = [rooms EXCEPT ![i] = v]
      <4>1. PICK i, v : rooms' = [rooms EXCEPT ![i] = v]
        BY <3>2
      <4>2. Len([rooms EXCEPT ![i] = v]) = Len(rooms)
        BY <2>1
      <4>3. Len(rooms') = Len(rooms)
        BY <4>1, <4>2
      <4> QED
        BY <2>1, <4>3
    <3> QED
      BY <2>4, <3>1, <3>2 DEF ReadEnter
  <2> QED
    BY <2>2, <2>3, <2>4, Movers
<1>2. \A k \in Conns : hpc[k] # "none" => hpc'[k] # "none"
  <2>1. CASE ReadMake \/ ReadEnter
    BY <2>1 DEF ReadMake, ReadEnter, Place, handlerVars, TypeOK, ServerOK
  <2>2. ASSUME NEW k \in Conns, HandlerStart(k)
        PROVE  \A j \in Conns : hpc[j] # "none" => hpc'[j] # "none"
    BY <2>2 DEF HandlerStart, TypeOK, ServerOK
  <2> QED
    BY <2>1, <2>2, Movers
<1>3. \A k \in Conns : longest[k] \in Nat /\ longest'[k] \in Nat
                       /\ longest[k] <= longest'[k]
  <2>1. longest \in [Conns -> Nat] /\ TextLengths \subseteq Nat
    <3>1. longest \in [Conns -> TextLengths \cup {0}] /\ TextLengths \subseteq Nat
      BY SessionAssumption DEF SessionAssumption, TypeOK, ServerOK
    <3>2. TextLengths \cup {0} \subseteq Nat
      BY <3>1
    <3> QED
      BY <3>1, <3>2
  <2>2. ASSUME NEW c \in Clients, NEW n \in TextLengths, SendCommand(c, n)
        PROVE  longest' = [longest EXCEPT ![Conn(c)] = IF n > @ THEN n ELSE @]
    BY <2>2 DEF SendCommand
  <2>3. ASSUME NEW c \in Clients, NEW n \in TextLengths, SendCommand(c, n)
        PROVE  \A k \in Conns : longest'[k] \in Nat /\ longest[k] <= longest'[k]
    <3>1. SUFFICES ASSUME NEW k \in Conns
                   PROVE  longest'[k] \in Nat /\ longest[k] <= longest'[k]
      OBVIOUS
    <3>2. longest[k] \in Nat /\ n \in Nat
      BY <2>1
    <3>3. CASE k = Conn(c)
      BY <2>1, <2>2, <2>3, <3>2, <3>3
    <3>4. CASE k # Conn(c)
      BY <2>1, <2>2, <2>3, <3>2, <3>4
    <3> QED
      BY <3>3, <3>4
  <2>4. CASE longest' = longest
    BY <2>1, <2>4
  <2> QED
    BY <2>1, <2>3, <2>4, Movers
<1>4. hasty \subseteq hasty'
  <2>1. ASSUME NEW c \in Clients,
               RecvAcpt(c) \/ CountTimeout(c) \/ RecvLine(c) \/ RecvReply(c)
        PROVE  hasty \subseteq hasty'
    BY <2>1 DEF RecvAcpt, CountTimeout, RecvLine, RecvReply, RecvOrTimeout
  <2> QED
    BY <2>1, Movers
<1>5. refused \subseteq refused'
  BY Movers DEF ReadLogin
<1>6. drained \subseteq drained'
  <2>1. ASSUME NEW k \in Conns, HandlerRead(k) PROVE drained \subseteq drained'
    BY <2>1 DEF HandlerRead
  <2> QED
    BY <2>1, Movers
<1>7. failures \in Nat /\ failures' \in Nat /\ failures <= failures'
  <2>1. failures \in Nat
    BY Roomy DEF TypeOK, ServerOK, Limits
  <2> QED
    BY <2>1, Movers DEF ReadLoginFails
<1>8. mutex = "main" => mutex' = "main"
  BY Movers DEF ReadMake
<1>9. \A c \in Clients : try[c] \in Nat /\ try'[c] \in Nat /\ try[c] <= try'[c]
  <2>1. try \in [Clients -> Nat]
    BY SessionAssumption DEF SessionAssumption, TypeOK, ClientsOK
  <2>2. ASSUME NEW c \in Clients, Connect(c)
        PROVE  \A d \in Clients : try'[d] \in Nat /\ try[d] <= try'[d]
    BY <2>1, <2>2 DEF Connect
  <2> QED
    BY <2>1, <2>2, Movers
<1> QED
  BY <1>1, <1>2, <1>3, <1>4, <1>5, <1>6, <1>7, <1>8, <1>9

-----------------------------------------------------------------------------
(* The parts of IInv, one by one.                                          *)
LEMMA GoneStep ==
  ASSUME IInv, Next
  PROVE  GoneOK'
<1>a. GoneOK /\ TypeOK
  BY DEF IInv
<1>1. ASSUME NEW c \in Clients, Quit(c) PROVE GoneOK'
  <2>1. fin' = fin \cup {k \in Conns : k[1] = c} /\ cpc' = [cpc EXCEPT ![c] = "gone"]
    BY <1>1 DEF Quit
  <2>2. cpc \in [Clients -> {"login", "acpt", "count", "list", "reply", "room", "gone"}]
        /\ \A k \in Conns : k[1] \in Clients
    BY <1>a DEF TypeOK, ClientsOK, Conns
  <2> QED
    BY <1>a, <2>1, <2>2 DEF GoneOK, TypeOK, ClientsOK
<1>2. ASSUME fin' = fin,
             NEW c \in Clients, cpc[c] # "gone", NEW x, cpc' = [cpc EXCEPT ![c] = x]
      PROVE  GoneOK'
  BY <1>a, <1>2 DEF GoneOK, TypeOK, ClientsOK
<1>3. ASSUME fin' = fin, cpc' = cpc PROVE GoneOK'
  BY <1>a, <1>3 DEF GoneOK
<1>4. ASSUME NEW c \in Clients, ClientLogsIn(c) PROVE GoneOK'
  BY <1>2, <1>4
  DEF ClientLogsIn, Connect, RecvAcpt, RecvCount, CountTimeout, At, streamVars
<1>5. ASSUME NEW c \in Clients, ClientChooses(c) PROVE GoneOK'
  BY <1>2, <1>3, <1>5
  DEF ClientChooses, RecvLine, RecvReply, ChooseMake, ChooseEnter, At
<1>6. ASSUME NEW c \in Clients, ClientTalks(c) PROVE GoneOK'
  BY <1>3, <1>6 DEF ClientTalks, RecvTold, SendCommand, clientVars
<1>7. ASSUME MainRuns \/ ReadLoginFails PROVE GoneOK'
  BY <1>3, <1>7
  DEF MainRuns, Accept, WriteLine, ReadLogin, ReadMake, ReadEnter, ReadOther,
      ReadLoginFails, clientVars
<1>8. ASSUME NEW k \in Conns, HandlerRuns(k) \/ Tell(k) PROVE GoneOK'
  BY <1>3, <1>8
  DEF HandlerRuns, HandlerStart, HandlerRead, Tell, clientVars, streamVars
<1> QED
  BY <1>1, <1>4, <1>5, <1>6, <1>7, <1>8 DEF Next

LEMMA ListedStep ==
  ASSUME IInv, Next
  PROVE  ListedOK'
<1>a. /\ ListedOK /\ TypeOK /\ \A c \in Clients : ClientOK(c)
      /\ \A k \in Conns : DownOK(k)
  BY DEF IInv
<1>b. Len(rooms) \in Nat /\ Len(rooms') \in Nat /\ Len(rooms) <= Len(rooms')
  BY <1>a, Growth
<1>c. \A c \in Clients : listed[c] \in Nat
  <2>1. listed \in [Clients -> 0 .. budget.rooms] /\ budget.rooms \in Nat
    BY <1>a, Roomy DEF TypeOK, ClientsOK
  <2> QED
    BY <2>1
<1>1. CASE listed' = listed
  BY <1>a, <1>b, <1>c, <1>1 DEF ListedOK
<1>2. ASSUME NEW c \in Clients, RecvCount(c) PROVE ListedOK'
  <2>1. Conn(c) \in Conns
    BY <1>2, <1>a, Connected DEF RecvCount, At, Alive
  <2>2. CountIn(down[Conn(c)]) \in 0 .. Len(rooms)
    BY <1>a, <2>1, Counted
  <2>3. listed' = [listed EXCEPT ![c] = CountIn(down[Conn(c)])]
    BY <1>2 DEF RecvCount
  <2>4. \A d \in Clients : listed'[d] <= Len(rooms)
    BY <1>a, <1>b, <2>2, <2>3 DEF ListedOK, TypeOK, ClientsOK
  <2> QED
    BY <1>2, <2>4 DEF ListedOK, RecvCount, mainVars
<1> QED
  BY <1>1, <1>2, Movers

\* Where the choice ends.
LEMMA Bases ==
  ASSUME NEW k
  PROVE  /\ Base(k) \in Nat /\ Base(k) = IF choice[k] = "make" THEN 39 ELSE 49
         /\ Base(k)' \in Nat /\ Base(k)' = IF choice'[k] = "make" THEN 39 ELSE 49
BY Sizes DEF Base

LEMMA UpStep ==
  ASSUME IInv, Next
  PROVE  \A k \in Conns : UpOK(k)'
<1>a. /\ TypeOK /\ \A c \in Clients : ClientOK(c)
      /\ \A k \in Conns : UpOK(k)
  BY DEF IInv
<1>b. /\ up \in [Conns -> Stream] /\ choice \in [Conns -> {None, "make", "enter"}]
      /\ None # "make" /\ None # "enter"
  BY <1>a, StreamsKept, SessionAssumption DEF SessionAssumption, TypeOK, ClientsOK
<1>c. \A k \in Conns : longest[k] \in Nat /\ longest'[k] \in Nat
                       /\ longest[k] <= longest'[k]
  BY <1>a, Growth
<1>d. \A k \in Conns : /\ up[k].sent \in Nat
                       /\ \A p \in up[k].msgs : p.val \in Nat /\ p.at \in Nat
  BY <1>b DEF Stream, Message
<1>k. ASSUME NEW k \in Conns, choice'[k] = choice[k],
             NEW p \in up[k].msgs
      PROVE  UpMessageOK(k, p)'
  <2>1. UpMessageOK(k, p) /\ Base(k)' = Base(k)
    BY <1>a, <1>k, Bases DEF UpOK
  <2>2. p.val <= longest[k] => p.val <= longest'[k]
    BY <1>c, <1>d
  <2> QED
    BY <1>k, <2>1, <2>2 DEF UpMessageOK
<1>f. ASSUME NEW k \in Conns, choice'[k] = choice[k], Reads(up[k], up'[k])
      PROVE  UpOK(k)'
  <2>1. up'[k].sent = up[k].sent /\ up'[k].msgs \subseteq up[k].msgs
    BY <1>f DEF Reads
  <2>2. Base(k)' = Base(k) /\ UpOK(k)
    BY <1>a, <1>f, Bases
  <2>3. \A p \in up'[k].msgs : UpMessageOK(k, p)'
    BY <1>f, <1>k, <2>1
  <2> QED
    BY <1>f, <2>1, <2>2, <2>3 DEF UpOK
<1>e. \A k \in Conns : Reads(up[k], up[k])
  BY <1>a, StreamsKept
<1>1. ASSUME NEW c \in Clients, RecvAcpt(c) PROVE \A k \in Conns : UpOK(k)'
  <2>0. PICK k \in Conns : k = Conn(c)
    BY <1>1, <1>a, Connected DEF RecvAcpt, At, Alive
  <2>1. /\ choice' = choice
        /\ up[k].sent = 0 /\ choice[k] = None /\ Sent(k, "login", 0) /\ "login" \in Kinds
    BY <1>1, <1>a, <2>0 DEF RecvAcpt, At, ClientOK, Kinds
  <2>2. /\ up'[k].sent = 33
        /\ up'[k].msgs = up[k].msgs \cup {[kind |-> "login", at |-> 0, val |-> 0]}
        /\ \A j \in Conns : j # k => up'[j] = up[j]
    BY <1>a, <2>1, Sends, Sizes
  <2>3. \A p \in up'[k].msgs : UpMessageOK(k, p)'
    BY <1>k, <2>1, <2>2 DEF UpMessageOK
  <2>4. UpOK(k)'
    BY <2>1, <2>2, <2>3, Sizes DEF UpOK
  <2> QED
    BY <1>e, <1>f, <2>1, <2>2, <2>4
<1>2. ASSUME NEW c \in Clients, NEW kind \in {"make", "enter"}, NEW r \in Nat,
             cpc[c] = "list", Sent(Conn(c), kind, r),
             choice' = [choice EXCEPT ![Conn(c)] = kind]
      PROVE  \A k \in Conns : UpOK(k)'
  <2> DEFINE p == [kind |-> kind, at |-> 33, val |-> r]
  <2>0. PICK k \in Conns : k = Conn(c)
    BY <1>2, <1>a, Connected DEF Alive
  <2>1. /\ up[k].sent = 33 /\ choice[k] = None
        /\ Sent(k, kind, r) /\ kind \in Kinds
    BY <1>2, <1>a, <2>0, Sizes DEF ClientOK, Kinds
  <2>2. choice'[k] = kind /\ \A j \in Conns : j # k => choice'[j] = choice[j]
    BY <1>2, <1>b, <2>0
  <2>3. /\ up'[k].sent = 33 + Size(kind) /\ up'[k].msgs = up[k].msgs \cup {p}
        /\ \A j \in Conns : j # k => up'[j] = up[j]
    BY <1>a, <2>1, Sends
  <2>4. up'[k].sent = Base(k)' /\ Base(k)' \in Nat
    BY <2>2, <2>3, Bases, Sizes
  <2>5. Steps(Base(k)', up'[k].sent, 1024)
    BY <2>4, StepsFrom
  <2>6. UpMessageOK(k, p)'
    BY <2>2, <1>b, Sizes DEF UpMessageOK
  <2>7. \A q \in up[k].msgs : q.kind = "login" /\ q.at = 0
    BY <1>a, <2>1 DEF UpOK, UpMessageOK
  <2>8. \A q \in up'[k].msgs : UpMessageOK(k, q)'
    BY <2>3, <2>6, <2>7 DEF UpMessageOK
  <2>9. UpOK(k)'
    BY <1>b, <2>2, <2>5, <2>8, Sizes DEF UpOK
  <2> QED
    BY <1>e, <1>f, <2>2, <2>3, <2>9
<1>3. ASSUME NEW c \in Clients, NEW n \in TextLengths, SendCommand(c, n)
      PROVE  \A k \in Conns : UpOK(k)'
  <2>0. PICK k \in Conns : k = Conn(c)
    BY <1>3, <1>a, Connected DEF SendCommand, At, Alive
  <2>p. PICK p : p = [kind |-> "command", at |-> up[k].sent, val |-> n]
    OBVIOUS
  <2>1. /\ choice' = choice /\ choice[k] # None
        /\ Sent(k, "command", n) /\ "command" \in Kinds /\ n \in Nat
    BY <1>3, <1>a, <2>0, SessionAssumption
    DEF SendCommand, At, ClientOK, Kinds, SessionAssumption
  <2>2. n <= longest'[k]
    <3>1. longest \in [Conns -> TextLengths \cup {0}]
      BY <1>a DEF TypeOK, ServerOK
    <3>2. longest'[k] = IF n > longest[k] THEN n ELSE longest[k]
      BY <1>3, <2>0, <3>1 DEF SendCommand
    <3> QED
      BY <1>c, <2>1, <3>2
  <2>3. /\ up'[k].sent = up[k].sent + 1024 /\ up'[k].msgs = up[k].msgs \cup {p}
        /\ \A j \in Conns : j # k => up'[j] = up[j]
    BY <1>a, <2>1, <2>p, Sends, Sizes
  <2>4. Base(k)' = Base(k) /\ Base(k) \in Nat /\ Steps(Base(k), up[k].sent, 1024)
    BY <1>a, <2>1, Bases, Sizes DEF UpOK
  <2>5. Steps(Base(k)', up'[k].sent, 1024)
    BY <1>d, <2>1, <2>3, <2>4, StepsFrom
  <2>6. UpMessageOK(k, p)'
    BY <2>1, <2>2, <2>4, <2>p, Sizes DEF UpMessageOK
  <2>7. \A q \in up'[k].msgs : UpMessageOK(k, q)'
    BY <1>k, <2>1, <2>3, <2>6
  <2>8. UpOK(k)'
    BY <2>1, <2>5, <2>7, Sizes DEF UpOK
  <2> QED
    BY <1>e, <1>f, <2>1, <2>3, <2>8
<1>4. ASSUME NEW c \in Clients, Sending(c) PROVE \A k \in Conns : UpOK(k)'
  <2>1. CASE RecvAcpt(c)
    BY <1>1, <2>1
  <2>2. CASE ChooseMake(c)
    BY <1>2, <2>2, 0 \in Nat DEF ChooseMake, At
  <2>3. ASSUME NEW r \in 0 .. MaxRooms - 1, ChooseEnter(c, r)
        PROVE  \A k \in Conns : UpOK(k)'
    <3>1. /\ cpc[c] = "list" /\ Sent(Conn(c), "enter", r) /\ r \in Nat
          /\ choice' = [choice EXCEPT ![Conn(c)] = "enter"]
      BY <2>3 DEF ChooseEnter, At
    <3> QED
      BY <1>2, <3>1
  <2>4. ASSUME NEW n \in TextLengths, SendCommand(c, n)
        PROVE  \A k \in Conns : UpOK(k)'
    BY <1>3, <2>4
  <2> QED
    BY <1>4, <2>1, <2>2, <2>3, <2>4 DEF Sending
<1>5. CASE UpOnlyRead /\ ~\E c \in Clients : Sending(c)
  <2>1. choice' = choice
    BY <1>5, Movers DEF Sending
  <2> QED
    BY <1>5, <1>f, <2>1 DEF UpOnlyRead
<1> QED
  BY <1>a, <1>4, <1>5, StreamSteps

LEMMA ChoiceStep ==
  ASSUME IInv, Next
  PROVE  \A k \in Conns : ChoiceOK(k)'
<1>a. /\ TypeOK /\ ListedOK /\ \A c \in Clients : ClientOK(c)
      /\ \A k \in Conns : ChoiceOK(k)
  BY DEF IInv
<1>b. /\ up \in [Conns -> Stream] /\ up' \in [Conns -> Stream]
      /\ choice \in [Conns -> {None, "make", "enter"}]
      /\ None # "make" /\ None # "enter"
  BY <1>a, StreamsKept, StreamSteps, SessionAssumption
  DEF SessionAssumption, TypeOK, ClientsOK, TheStreams
<1>c. Len(rooms) \in Nat /\ Len(rooms') \in Nat /\ Len(rooms) <= Len(rooms')
  BY <1>a, Growth
<1>d. \A k \in Conns : /\ up[k].read \in Nat /\ up'[k].read \in Nat
                       /\ \A p \in up[k].msgs : p.val \in Nat
  BY <1>b DEF Stream, Message
<1>f. ASSUME NEW k \in Conns, choice'[k] = choice[k],
             up'[k].read >= up[k].read,
             \A p \in up[k].msgs : p.at + Size(p.kind) > up'[k].read => p \in up'[k].msgs
      PROVE  ChoiceOK(k)'
  <2>1. SUFFICES ASSUME choice[k] # None, up'[k].read <= 33
                 PROVE  \E p \in up'[k].msgs :
                          /\ p.kind = choice[k] /\ p.at = 33
                          /\ choice[k] = "enter" => p.val < Len(rooms')
    BY <1>f, Sizes DEF ChoiceOK
  <2>2. up[k].read <= 33
    BY <1>d, <1>f, <2>1
  <2>3. PICK p \in up[k].msgs : /\ p.kind = choice[k] /\ p.at = 33
                                /\ choice[k] = "enter" => p.val < Len(rooms)
    BY <1>a, <2>1, <2>2, Sizes DEF ChoiceOK
  <2>4. p.at + Size(p.kind) > up'[k].read
    BY <1>b, <1>d, <2>1, <2>3, Sizes
  <2>5. choice[k] = "enter" => p.val < Len(rooms')
    BY <1>c, <1>d, <2>3
  <2> QED
    BY <1>f, <2>3, <2>4, <2>5
<1>r. ASSUME NEW k \in Conns, choice'[k] = choice[k], Reads(up[k], up'[k])
      PROVE  ChoiceOK(k)'
  BY <1>d, <1>f, <1>r DEF Reads
<1>e. \A k \in Conns : Reads(up[k], up[k])
  BY <1>a, StreamsKept
<1>1. ASSUME NEW c \in Clients, NEW kind \in Kinds, NEW r \in Nat, Alive(c),
             Sent(Conn(c), kind, r), choice' = choice
      PROVE  \A k \in Conns : ChoiceOK(k)'
  <2>0. PICK k \in Conns : k = Conn(c)
    BY <1>1, <1>a, Connected
  <2>1. /\ up'[k].read = up[k].read /\ up[k].msgs \subseteq up'[k].msgs
        /\ \A j \in Conns : j # k => up'[j] = up[j]
    BY <1>1, <1>a, <2>0, Sends
  <2>2. ChoiceOK(k)'
    BY <1>1, <1>d, <1>f, <2>1
  <2> QED
    BY <1>1, <1>e, <1>r, <2>1, <2>2
<1>2. ASSUME NEW c \in Clients, NEW kind \in {"make", "enter"}, NEW r \in Nat,
             cpc[c] = "list", Sent(Conn(c), kind, r),
             choice' = [choice EXCEPT ![Conn(c)] = kind],
             kind = "enter" => r < listed[c]
      PROVE  \A k \in Conns : ChoiceOK(k)'
  <2>0. PICK k \in Conns : k = Conn(c)
    BY <1>2, <1>a, Connected DEF Alive
  <2>1. up[k].sent = 33 /\ Sent(k, kind, r) /\ kind \in Kinds
    BY <1>2, <1>a, <2>0, Sizes DEF ClientOK, Kinds
  <2>2. choice'[k] = kind /\ \A j \in Conns : j # k => choice'[j] = choice[j]
    BY <1>2, <1>b, <2>0
  <2>3. /\ [kind |-> kind, at |-> 33, val |-> r] \in up'[k].msgs
        /\ \A j \in Conns : j # k => up'[j] = up[j]
    BY <1>a, <2>1, Sends
  <2>4. kind = "enter" => r < Len(rooms')
    <3>1. listed[c] <= Len(rooms) /\ listed[c] \in Nat
      <4>1. listed \in [Clients -> 0 .. budget.rooms] /\ budget.rooms \in Nat
        BY <1>a, Roomy DEF TypeOK, ClientsOK
      <4> QED
        BY <1>a, <4>1 DEF ListedOK
    <3> QED
      BY <1>2, <1>c, <3>1
  <2>5. ChoiceOK(k)'
    BY <2>2, <2>3, <2>4, Sizes DEF ChoiceOK
  <2> QED
    BY <1>e, <1>r, <2>2, <2>3, <2>5
<1>3. ASSUME NEW c \in Clients, Sending(c) PROVE \A k \in Conns : ChoiceOK(k)'
  <2>1. CASE RecvAcpt(c)
    <3>1. "login" \in Kinds /\ Alive(c) /\ Sent(Conn(c), "login", 0) /\ choice' = choice
      BY <2>1 DEF RecvAcpt, At, Alive, Kinds
    <3> QED
      BY <1>1, <3>1
  <2>2. CASE ChooseMake(c)
    BY <1>2, <2>2, 0 \in Nat DEF ChooseMake, At
  <2>3. ASSUME NEW r \in 0 .. MaxRooms - 1, ChooseEnter(c, r)
        PROVE  \A k \in Conns : ChoiceOK(k)'
    <3>1. /\ cpc[c] = "list" /\ Sent(Conn(c), "enter", r) /\ r \in Nat
          /\ choice' = [choice EXCEPT ![Conn(c)] = "enter"] /\ r < listed[c]
      BY <2>3 DEF ChooseEnter, At
    <3> QED
      BY <1>2, <3>1
  <2>4. ASSUME NEW n \in TextLengths, SendCommand(c, n)
        PROVE  \A k \in Conns : ChoiceOK(k)'
    <3>1. /\ "command" \in Kinds /\ Alive(c) /\ Sent(Conn(c), "command", n)
          /\ choice' = choice /\ n \in Nat
      BY <2>4, SessionAssumption
      DEF SendCommand, At, Alive, Kinds, SessionAssumption
    <3> QED
      BY <1>1, <3>1
  <2> QED
    BY <1>3, <2>1, <2>2, <2>3, <2>4 DEF Sending
<1>4. CASE UpOnlyRead /\ ~\E c \in Clients : Sending(c)
  <2>1. choice' = choice
    BY <1>4, Movers DEF Sending
  <2> QED
    BY <1>4, <1>r, <2>1 DEF UpOnlyRead
<1> QED
  BY <1>a, <1>3, <1>4, StreamSteps

\* Who reads from a client.
LEMMA ReadBy ==
  ASSUME TypeOK, \A c \in Clients : ClientOK(c), Next, NEW k \in Conns
  PROVE  \/ up'[k].read = up[k].read
         \/ /\ k = cur
            /\ \/ \E known \in BOOLEAN : ReadLogin(known)
               \/ ReadLoginFails \/ ReadMake \/ ReadEnter \/ ReadOther
         \/ HandlerRead(k)
<1> DEFINE P == \/ up'[k].read = up[k].read
                \/ /\ k = cur
                   /\ \/ \E known \in BOOLEAN : ReadLogin(known)
                      \/ ReadLoginFails \/ ReadMake \/ ReadEnter \/ ReadOther
                \/ HandlerRead(k)
<1>1. ASSUME NEW c \in Clients, Alive(c), NEW kind \in Kinds, NEW v \in Nat,
             Sent(Conn(c), kind, v)
      PROVE  P
  <2>0. PICK j \in Conns : j = Conn(c)
    BY <1>1, Connected
  <2>1. up'[j].read = up[j].read /\ \A i \in Conns : i # j => up'[i] = up[i]
    BY <1>1, <2>0, Sends
  <2> QED
    BY <2>1
<1>2. ASSUME NEW c \in Clients, Sending(c) PROVE P
  <2>1. Alive(c)
    BY <1>2 DEF Sending, RecvAcpt, ChooseMake, ChooseEnter, SendCommand, At, Alive
  <2>2. \E kind \in Kinds, v \in Nat : Sent(Conn(c), kind, v)
    <3>1. /\ {"login", "make", "enter", "command"} \subseteq Kinds
          /\ 0 \in Nat /\ 0 .. MaxRooms - 1 \subseteq Nat /\ TextLengths \subseteq Nat
      BY SessionAssumption DEF Kinds, SessionAssumption
    <3>2. CASE RecvAcpt(c)
      BY <3>1, <3>2 DEF RecvAcpt
    <3>3. CASE ChooseMake(c)
      BY <3>1, <3>3 DEF ChooseMake
    <3>4. CASE \E r \in 0 .. MaxRooms - 1 : ChooseEnter(c, r)
      BY <3>1, <3>4 DEF ChooseEnter
    <3>5. CASE \E n \in TextLengths : SendCommand(c, n)
      BY <3>1, <3>5 DEF SendCommand
    <3> QED
      BY <1>2, <3>2, <3>3, <3>4, <3>5 DEF Sending
  <2> QED
    BY <1>1, <2>1, <2>2
<1>3. ASSUME NEW c \in Clients, ~Sending(c),
             ClientLogsIn(c) \/ ClientChooses(c) \/ ClientTalks(c) \/ Quit(c)
      PROVE  up' = up
  BY <1>3
  DEF Sending, ClientLogsIn, ClientChooses, ClientTalks, Quit, Connect, RecvCount,
      CountTimeout, RecvLine, RecvReply, RecvTold, streamVars
<1>4. ASSUME Accept \/ WriteLine PROVE up' = up
  BY <1>4 DEF Accept, WriteLine
<1>5. up \in [Conns -> Stream]
  BY StreamsKept
<1>6. ASSUME \/ \E known \in BOOLEAN : ReadLogin(known)
             \/ ReadLoginFails \/ ReadMake \/ ReadEnter \/ ReadOther
      PROVE  P
  <2>1. \E n : up' = [up EXCEPT ![cur] = Rest(@, n)]
    BY <1>6 DEF ReadLogin, ReadLoginFails, ReadMake, ReadEnter, ReadOther, ReadChoice
  <2>2. k # cur => up'[k] = up[k]
    BY <1>5, <2>1
  <2> QED
    BY <1>6, <2>2
<1>7. ASSUME NEW j \in Conns, HandlerRuns(j) \/ Tell(j) PROVE P
  <2>1. CASE HandlerRead(j)
    <3>1. up' = [up EXCEPT ![j] = Rest(@, PieceSize)]
      BY <2>1 DEF HandlerRead
    <3>2. k # j => up'[k] = up[k]
      BY <1>5, <3>1
    <3> QED
      BY <2>1, <3>2
  <2>2. CASE ~HandlerRead(j)
    <3>1. up' = up
      BY <1>7, <2>2 DEF HandlerRuns, HandlerStart, Tell, streamVars
    <3> QED
      BY <3>1
  <2> QED
    BY <2>1, <2>2
<1>8. up' = up => P
  OBVIOUS
<1> HIDE DEF P
<1>9. P
  BY <1>2, <1>3, <1>4, <1>6, <1>7, <1>8 DEF Next, MainRuns
<1> QED
  BY <1>9 DEF P

\* main() recognises a choice only where the client's choice is.
LEMMA ChoiceRead ==
  ASSUME TypeOK, \A k \in Conns : UpOK(k), NEW kind \in {"make", "enter"},
         ReadChoice, First(up[cur], kind) # {}
  PROVE  /\ cur \in Conns /\ choice[cur] = kind
         /\ up[cur].read = 33 /\ up'[cur].read = 39
         /\ \A k \in Conns : k # cur => up'[k] = up[k]
<1>1. cur \in Conns /\ up[cur] \in Stream
  BY MainServes, StreamsKept DEF ReadChoice, MainAt
<1>2. PICK p \in up[cur].msgs : p.kind = kind /\ p.at = up[cur].read
  BY DEF First
<1>3. choice[cur] = kind /\ up[cur].read = 33 /\ choice[cur] # None
  BY <1>1, <1>2, Sizes DEF UpOK, UpMessageOK
<1>4. Base(cur) \in Nat /\ Base(cur) >= 39 /\ Steps(Base(cur), up[cur].sent, 1024)
  BY <1>1, <1>3, Bases, Sizes DEF UpOK
<1>5. up[cur].sent \in Nat
  BY <1>1 DEF Stream
<1>6. up[cur].sent >= 39
  BY <1>4, <1>5, StepsFrom
<1>7. up' = [up EXCEPT ![cur] = Rest(@, ChoiceSize)]
  BY DEF ReadChoice
<1>8. PICK k \in Conns : k = cur
  BY <1>1
<1>9. /\ up[k].read + ChoiceSize <= up[k].sent => up'[k].read = up[k].read + ChoiceSize
      /\ \A j \in Conns : j # k => up'[j] = up[j]
  <2>1. ChoiceSize \in Nat /\ up' = [up EXCEPT ![k] = Rest(@, ChoiceSize)]
    BY <1>7, <1>8, Sizes
  <2> QED
    BY <2>1, ServerReads
<1> QED
  BY <1>1, <1>3, <1>5, <1>6, <1>8, <1>9, Sizes

\* Two sequences of steps in one stream keep their distance.
LEMMA StepsApart ==
  ASSUME NEW a \in Nat, NEW b \in Nat, NEW r \in Nat, NEW t \in Nat,
         Steps(a, r, 128), Steps(b, t, 1024), a \in {b, b - 10}
  PROVE  /\ r > t => r >= t + 118 /\ (a = b => r >= t + 128)
         /\ r < t /\ a = b => t >= r + 128
<1>1. PICK i \in 0 .. r : r = a + 128 * i
  BY DEF Steps
<1>2. PICK j \in 0 .. t : t = b + 1024 * j
  BY DEF Steps
<1>3. i \in Nat /\ j \in Nat
  OBVIOUS
<1>4. CASE a = b
  <2>1. r > t => i >= 8 * j + 1
    BY <1>1, <1>2, <1>3, <1>4
  <2>2. r < t => 8 * j >= i + 1
    BY <1>1, <1>2, <1>3, <1>4
  <2> QED
    BY <1>1, <1>2, <1>3, <1>4, <2>1, <2>2
<1>5. CASE a # b
  <2>1. a = b - 10
    BY <1>5
  <2>2. r > t => i >= 8 * j + 1
    BY <1>1, <1>2, <1>3, <2>1
  <2> QED
    BY <1>1, <1>2, <1>3, <1>5, <2>1, <2>2
<1> QED
  BY <1>4, <1>5

LEMMA HandlerStep ==
  ASSUME IInv, Next
  PROVE  \A k \in Conns : HandlerOK(k)'
<1>a. /\ TypeOK /\ CurrentOK /\ \A c \in Clients : ClientOK(c)
      /\ \A k \in Conns : UpOK(k) /\ HandlerOK(k)
  BY DEF IInv
<1>b. /\ up \in [Conns -> Stream] /\ up' \in [Conns -> Stream]
      /\ hpc \in [Conns -> {"none", "placed", "read"}]
  BY <1>a, StreamsKept, StreamSteps DEF TypeOK, ServerOK, TheStreams
<1>f. ASSUME NEW k \in Conns,
             hpc[k] # "none" => up'[k].read = up[k].read,
             hpc'[k] # "none" <=> hpc[k] # "none",
             k \in drained' <=> k \in drained
      PROVE  HandlerOK(k)'
  <2>1. choice[k] # None => choice'[k] = choice[k]
    BY <1>a, Chooses
  <2>2. choice[k] # None => Base(k)' = Base(k)
    BY <2>1, Bases
  <2>3. HandlerOK(k)
    BY <1>a
  <2> QED
    BY <1>f, <2>1, <2>2, <2>3 DEF HandlerOK, InStep, TenEarly
<1>h. ASSUME NEW k \in Conns, hpc[k] = "none" PROVE k \notin drained
  BY <1>a, <1>h DEF HandlerOK
<1>1. ASSUME NEW kind \in {"make", "enter"}, ReadChoice, First(up[cur], kind) # {},
             hpc' = hpc \/ Place(cur), drained' = drained
      PROVE  \A k \in Conns : HandlerOK(k)'
  <2>1. PICK c \in Conns : c = cur
    BY <1>1, <1>a, ChoiceRead
  <2>2. /\ choice[c] = kind /\ up'[c].read = 39
        /\ \A k \in Conns : k # c => up'[k] = up[k]
    BY <1>1, <1>a, <2>1, ChoiceRead
  <2>3. hpc[c] = "none" /\ c \notin drained
    <3>1. cur # None
      BY <2>1, SessionAssumption DEF SessionAssumption
    <3> QED
      BY <1>a, <1>h, <2>1, <3>1 DEF CurrentOK
  <2>4. choice'[c] = kind /\ kind # None
    <3>1. kind # None
      BY SessionAssumption DEF SessionAssumption
    <3> QED
      BY <1>a, <2>2, <3>1, Chooses
  <2>5. Steps(39, 39, 128)
    BY StepsFrom
  <2>6. HandlerOK(c)'
    <3>1. CASE kind = "make"
      <4>1. Base(c)' = 39
        BY <2>4, <3>1, Bases
      <4>2. InStep(c)'
        BY <2>2, <2>5, <4>1, Sizes DEF InStep
      <4>3. c \in drained' => hpc'[c] # "none"
        BY <1>1, <2>3
      <4> QED
        BY <2>4, <4>2, <4>3 DEF HandlerOK
    <3>2. CASE kind = "enter"
      <4>1. TenEarly(c)'
        BY <1>1, <2>2, <2>3, <2>4, <2>5, <3>2, Sizes DEF TenEarly
      <4>2. c \in drained' => hpc'[c] # "none"
        BY <1>1, <2>3
      <4> QED
        BY <2>4, <4>1, <4>2 DEF HandlerOK
    <3> QED
      BY <3>1, <3>2
  <2>7. ASSUME NEW k \in Conns, k # c PROVE HandlerOK(k)'
    <3>1. hpc'[k] = hpc[k]
      BY <1>1, <1>b, <2>1, <2>7 DEF Place
    <3> QED
      BY <1>1, <1>f, <2>2, <2>7, <3>1
  <2> QED
    BY <2>6, <2>7
<1>2. CASE ReadMake
  BY <1>1, <1>2 DEF ReadMake, Place, handlerVars
<1>3. CASE ReadEnter
  <2>1. ReadChoice /\ First(up[cur], "enter") # {}
    BY <1>3 DEF ReadEnter
  <2>2. (hpc' = hpc \/ Place(cur)) /\ drained' = drained
    BY <1>3 DEF ReadEnter, Place, handlerVars
  <2> QED
    BY <1>1, <2>1, <2>2
<1>4. ASSUME NEW k \in Conns, HandlerRead(k) PROVE \A j \in Conns : HandlerOK(j)'
  <2>1. /\ up' = [up EXCEPT ![k] = Rest(@, PieceSize)] /\ hpc' = hpc
        /\ drained' = IF Empty(up'[k]) THEN drained \cup {k} ELSE drained
        /\ hpc[k] = "read"
    BY <1>4 DEF HandlerRead
  <2>2. /\ up[k].read + 128 <= up[k].sent => up'[k].read = up[k].read + 128
        /\ up[k].read + 128 >= up[k].sent => up'[k].read = up[k].sent
        /\ \A j \in Conns : j # k => up'[j] = up[j]
        /\ UpOnlyRead
    <3>1. PieceSize \in Nat /\ PieceSize = 128
      BY Sizes
    <3>2. /\ up[k].read + PieceSize <= up[k].sent =>
               up'[k].read = up[k].read + PieceSize
          /\ up[k].read + PieceSize >= up[k].sent => up'[k].read = up[k].sent
          /\ \A j \in Conns : j # k => up'[j] = up[j]
          /\ UpOnlyRead
      BY <1>a, <2>1, <3>1, ServerReads, ZenonT(30)
    <3> QED
      BY <3>1, <3>2
  <2>3. up'[k].sent = up[k].sent
    BY <2>2 DEF UpOnlyRead, Reads
  <2>4. up[k].read \in Nat /\ up[k].sent \in Nat
    BY <1>b DEF Stream
  <2>5. choice[k] # None /\ choice'[k] = choice[k] /\ (InStep(k) \/ TenEarly(k))
    BY <1>a, <2>1, Chooses DEF HandlerOK
  <2>6. Base(k)' = Base(k) /\ Base(k) \in Nat
    BY <2>5, Bases
  <2>7. Steps(Base(k), up[k].sent, 1024)
    BY <1>a, <2>5, Sizes DEF UpOK
  <2>8. Steps(Base(k), up[k].sent, 128)
    BY <2>4, <2>6, <2>7, StepsFrom
  <2>9. ASSUME up[k].read + 128 >= up[k].sent PROVE HandlerOK(k)'
    <3>1. InStep(k)'
      BY <2>2, <2>6, <2>8, <2>9, Sizes DEF InStep
    <3>2. k \in drained' => hpc'[k] # "none"
      BY <2>1
    <3>3. choice'[k] # None
      BY <2>5
    <3> QED
      BY <3>1, <3>2, <3>3 DEF HandlerOK
  <2>10. ASSUME up[k].read + 128 < up[k].sent PROVE HandlerOK(k)'
    <3>1. up'[k].read = up[k].read + 128 /\ drained' = drained
      BY <2>1, <2>2, <2>3, <2>4, <2>10 DEF Empty
    <3>2. ASSUME InStep(k) PROVE InStep(k)'
      <4>1. Steps(Base(k), up[k].read, 128)
        BY <3>2, Sizes DEF InStep
      <4>2. Steps(Base(k), up'[k].read, 128)
        BY <2>4, <2>6, <3>1, <4>1, StepsFrom
      <4> QED
        BY <2>6, <4>2, Sizes DEF InStep
    <3>3. ASSUME TenEarly(k) PROVE TenEarly(k)'
      <4>1. Steps(39, up[k].read, 128) /\ choice[k] = "enter" /\ k \notin drained
        BY <3>3, Sizes DEF TenEarly
      <4>2. Steps(39, up'[k].read, 128)
        <5>1. PICK a \in Nat, b \in Nat : a = 39 /\ b = up[k].read
          BY <2>4
        <5>2. Steps(a, b, 128)
          BY <4>1, <5>1
        <5>3. Steps(a, b + 128, 128)
          BY <5>2, StepsFrom
        <5> QED
          BY <3>1, <5>1, <5>3
      <4> QED
        BY <2>5, <3>1, <4>1, <4>2, Sizes DEF TenEarly
    <3>4. InStep(k)' \/ TenEarly(k)'
      BY <2>5, <3>2, <3>3
    <3>5. k \in drained' => hpc'[k] # "none"
      BY <2>1
    <3>6. choice'[k] # None
      BY <2>5
    <3> QED
      BY <3>4, <3>5, <3>6 DEF HandlerOK
  <2>11. HandlerOK(k)'
    BY <2>4, <2>9, <2>10
  <2>12. ASSUME NEW j \in Conns, j # k PROVE HandlerOK(j)'
    BY <1>f, <2>1, <2>2, <2>12
  <2> QED
    BY <2>11, <2>12
<1>5. ASSUME ~ReadMake, ~ReadEnter, \A k \in Conns : ~HandlerRead(k), NEW k \in Conns
      PROVE  HandlerOK(k)'
  <2>1. drained' = drained
    BY <1>5, Movers
  <2>2. hpc'[k] # "none" <=> hpc[k] # "none"
    <3>1. CASE hpc' = hpc
      BY <3>1
    <3>2. ASSUME NEW j \in Conns, HandlerStart(j)
          PROVE  hpc'[k] # "none" <=> hpc[k] # "none"
      BY <1>b, <3>2 DEF HandlerStart
    <3> QED
      BY <1>5, <3>1, <3>2, Movers
  <2>3. hpc[k] # "none" => up'[k].read = up[k].read
    <3>1. SUFFICES ASSUME hpc[k] # "none" PROVE up'[k].read = up[k].read
      OBVIOUS
    <3>2. k # cur
      <4>1. k # None
        BY SessionAssumption DEF SessionAssumption
      <4> QED
        BY <1>a, <3>1, <4>1 DEF CurrentOK
    <3> QED
      BY <1>5, <1>a, <3>2, ReadBy
  <2> QED
    BY <1>f, <2>1, <2>2, <2>3
<1> QED
  BY <1>2, <1>3, <1>4, <1>5

LEMMA DownStep ==
  ASSUME IInv, Next
  PROVE  \A k \in Conns : DownOK(k)'
<1>a. /\ TypeOK /\ \A c \in Clients : ClientOK(c)
      /\ \A k \in Conns : DownOK(k)
  BY DEF IInv
<1>b. down \in [Conns -> Stream] /\ status = "up"
  BY <1>a, StreamsKept, Movers
<1>c. /\ Len(rooms) \in Nat /\ Len(rooms') \in Nat /\ Len(rooms) <= Len(rooms')
      /\ \A k \in Conns : hpc[k] # "none" => hpc'[k] # "none"
  BY <1>a, Growth
<1>d. \A k \in Conns : /\ down[k].sent \in Nat
                       /\ \A p \in down[k].msgs : p.val \in Nat
  BY <1>b DEF Stream, Message
<1>p. ASSUME NEW k \in Conns, NEW p \in down[k].msgs
      PROVE  /\ p.kind = "count" => p.val <= Len(rooms')
             /\ p.kind = "told" => hpc'[k] # "none"
             /\ p.kind # "full"
  BY <1>a, <1>b, <1>c, <1>d DEF DownOK
<1>f. ASSUME NEW k \in Conns, Reads(down[k], down'[k])
      PROVE  DownOK(k)'
  <2>1. down'[k].sent = down[k].sent /\ down'[k].msgs \subseteq down[k].msgs
    BY <1>f DEF Reads
  <2> QED
    BY <1>a, <1>p, <2>1 DEF DownOK
<1>e. \A k \in Conns : Reads(down[k], down[k])
  BY <1>a, StreamsKept
<1>w. ASSUME NEW k \in Conns, NEW kind \in Kinds, NEW val \in Nat,
             Written(k, kind, val),
             kind = "count" => val <= Len(rooms'),
             kind = "told" => hpc'[k] # "none",
             kind = "full" => status' = "overrun"
      PROVE  \A j \in Conns : DownOK(j)'
  <2>1. /\ down'[k].sent = down[k].sent + Size(kind)
        /\ down'[k].msgs =
             down[k].msgs \cup {[kind |-> kind, at |-> down[k].sent, val |-> val]}
        /\ \A j \in Conns : j # k => down'[j] = down[j]
    BY <1>a, <1>w, Writes
  <2>2. down'[k].sent >= ReplySize
    BY <1>d, <2>1, Sizes
  <2>3. DownOK(k)'
    BY <1>p, <1>w, <2>1, <2>2, Sizes DEF DownOK
  <2> QED
    BY <1>e, <1>f, <2>1, <2>3
<1>k. {"acpt", "count", "line", "notf", "full", "romf", "told"} \subseteq Kinds
  BY DEF Kinds
<1>m. ASSUME ReadLogin(TRUE) \/ WriteLine \/ ReadMake \/ ReadEnter PROVE cur \in Conns
  BY <1>a, <1>m, MainServes DEF ReadLogin, WriteLine, ReadMake, ReadEnter, ReadChoice, MainAt
<1>1. CASE Accept
  <2>1. PICK k \in Conns : k = cur'
    BY <1>1, <1>a, HeadTailProperties DEF Accept, TypeOK, ServerOK
  <2>2. Written(k, "acpt", 0)
    BY <1>1, <2>1 DEF Accept, Written
  <2> QED
    BY <1>k, <1>w, <2>2
<1>2. CASE ReadLogin(TRUE)
  <2>1. Written(cur, "count", Len(rooms)) /\ rooms' = rooms
    BY <1>2 DEF ReadLogin, RoomsTold
  <2> QED
    BY <1>2, <1>c, <1>k, <1>m, <1>w, <2>1
<1>3. CASE WriteLine
  <2>1. CASE Written(cur, "line", line)
    <3>1. line \in Nat
      BY <1>a, Roomy DEF TypeOK, ServerOK
    <3> QED
      BY <1>3, <1>k, <1>m, <1>w, <2>1, <3>1
  <2>2. CASE down' = down
    BY <1>e, <1>f, <2>2
  <2> QED
    BY <1>3, <2>1, <2>2 DEF WriteLine
<1>4. CASE ReadMake
  <2>1. CASE Written(cur, "romf", 0)
    BY <1>4, <1>k, <1>m, <1>w, <2>1
  <2>2. CASE down' = down
    BY <1>e, <1>f, <2>2
  <2> QED
    BY <1>4, <2>1, <2>2 DEF ReadMake
<1>5. CASE ReadEnter
  <2>1. CASE Written(cur, "notf", 0)
    BY <1>5, <1>k, <1>m, <1>w, <2>1
  <2>2. CASE Written(cur, "full", 0) /\ status' = "overrun"
    BY <1>5, <1>k, <1>m, <1>w, <2>2
  <2> QED
    BY <1>5, <2>1, <2>2 DEF ReadEnter
<1>6. ASSUME NEW k \in Conns, Tell(k) PROVE \A j \in Conns : DownOK(j)'
  <2>1. Written(k, "told", 0) /\ hpc[k] # "none"
    BY <1>6 DEF Tell
  <2> QED
    BY <1>c, <1>k, <1>w, <2>1
<1>7. CASE DownOnlyRead
  BY <1>7, <1>f DEF DownOnlyRead
<1> QED
  BY <1>a, <1>1, <1>2, <1>3, <1>4, <1>5, <1>6, <1>7, StreamSteps DEF Writing

LEMMA PhantomsStep ==
  ASSUME IInv, Next
  PROVE  PhantomsAreLong'
<1>a. /\ TypeOK /\ PhantomsAreLong /\ \A c \in Clients : ClientOK(c)
      /\ \A k \in Conns : UpOK(k) /\ HandlerOK(k)
  BY DEF IInv
<1>b. /\ \A k \in Conns : longest[k] \in Nat /\ longest'[k] \in Nat
                          /\ longest[k] <= longest'[k]
      /\ \A k \in Conns : choice[k] # None => choice'[k] = choice[k]
      /\ phantom \subseteq Conns /\ None # "enter"
  BY <1>a, Growth, Chooses, SessionAssumption DEF SessionAssumption, TypeOK, ServerOK
<1> DEFINE Bound(k) == IF choice[k] = "enter" THEN 118 ELSE 128
<1>c. \A k \in phantom : longest[k] >= Bound(k)
  BY <1>a, Sizes DEF PhantomsAreLong
<1>d. \A k \in phantom : longest'[k] >= Bound(k)'
  BY <1>b, <1>c
<1>1. CASE phantom' = phantom
  BY <1>1, <1>d, Sizes DEF PhantomsAreLong
<1>2. ASSUME NEW k \in Conns, HandlerRead(k) PROVE PhantomsAreLong'
  <2>1. /\ phantom' = IF InsideText(up[k]) THEN phantom \cup {k} ELSE phantom
        /\ choice' = choice /\ longest' = longest /\ hpc[k] = "read"
    BY <1>2 DEF HandlerRead, talkVars
  <2>2. ASSUME InsideText(up[k]) PROVE longest[k] >= Bound(k)
    <3>1. PICK p \in up[k].msgs :
            p.kind = "command" /\ up[k].read \in p.at + 1 .. p.at + p.val
      BY <2>2 DEF InsideText
    <3>2. up[k].read \in Nat /\ p.at \in Nat /\ p.val \in Nat
      <4>1. up[k] \in Stream
        BY <1>a, StreamsKept
      <4> QED
        BY <4>1 DEF Stream, Message
    <3>3. p.val <= longest[k] /\ Steps(Base(k), p.at, 1024) /\ choice[k] # None
      <4>1. UpMessageOK(k, p)
        BY <1>a DEF UpOK
      <4>2. choice[k] \in {None, "make", "enter"}
        BY <1>a DEF TypeOK, ClientsOK
      <4> QED
        BY <3>1, <4>1, <4>2, Sizes DEF UpMessageOK
    <3>4. InStep(k) \/ TenEarly(k)
      BY <1>a, <2>1 DEF HandlerOK
    <3>5. Base(k) \in Nat /\ (choice[k] = "enter" => Base(k) = 49)
      BY Bases
    <3>6. CASE InStep(k)
      <4>1. Steps(Base(k), up[k].read, 128)
        BY <3>6, Sizes DEF InStep
      <4>2. up[k].read >= p.at + 128
        BY <3>1, <3>2, <3>3, <3>5, <4>1, StepsApart
      <4> QED
        BY <1>b, <3>1, <3>2, <3>3, <4>2
    <3>7. CASE TenEarly(k)
      <4>1. Steps(39, up[k].read, 128) /\ choice[k] = "enter"
        BY <3>7, Sizes DEF TenEarly
      <4>2. Steps(49, p.at, 1024)
        BY <3>3, <3>5, <4>1
      <4>3. up[k].read > p.at
        BY <3>1, <3>2
      <4>4. up[k].read >= p.at + 118
        <5>1. 39 \in {49, 49 - 10}
          OBVIOUS
        <5> QED
          BY <3>2, <4>1, <4>2, <4>3, <5>1, StepsApart
      <4> QED
        BY <1>b, <3>1, <3>2, <3>3, <4>1, <4>4
    <3> QED
      BY <3>4, <3>6, <3>7
  <2> QED
    BY <1>c, <2>1, <2>2, Sizes DEF PhantomsAreLong
<1> QED
  BY <1>1, <1>2, Movers

\* A step is about one connection and leaves the others as they are.
Others(j) ==
  \A k \in Conns : k # j =>
    /\ up'[k] = up[k] /\ down'[k] = down[k]
    /\ choice'[k] = choice[k] /\ hpc'[k] = hpc[k]
    /\ (Unread(k)' <=> Unread(k))
    /\ (k \in hasty' <=> k \in hasty)
    /\ (k \in refused' <=> k \in refused)

MainSteps ==
  \/ \E known \in BOOLEAN : ReadLogin(known)
  \/ ReadLoginFails \/ WriteLine \/ ReadMake \/ ReadEnter \/ ReadOther

Moving(c) == RecvAcpt(c) \/ RecvCount(c) \/ CountTimeout(c) \/ ClientChooses(c)
             \/ ClientTalks(c)

LEMMA MovingIsAlive ==
  ASSUME TypeOK, NEW c \in Clients, ClientOK(c), Moving(c)
  PROVE  /\ Alive(c) /\ Conn(c) \in Conns
         /\ try' = try /\ UNCHANGED mainVars
<1>1. Alive(c) /\ try' = try /\ UNCHANGED mainVars
  BY DEF Moving, RecvAcpt, RecvCount, CountTimeout, ClientChooses, ClientTalks,
     RecvLine, RecvReply, ChooseMake, ChooseEnter, RecvTold, SendCommand,
     At, Alive, clientVars
<1> QED
  BY <1>1, Connected

LEMMA ClientTouches ==
  ASSUME TypeOK, NEW c \in Clients, ClientOK(c), Moving(c)
  PROVE  Others(Conn(c))
<1>1. PICK j \in Conns : j = Conn(c)
  BY MovingIsAlive
<1>2. UNCHANGED mainVars
  BY MovingIsAlive
<1>3. \A k \in Conns : Unread(k)' <=> Unread(k)
  BY <1>2 DEF mainVars, Unread
<1>4. /\ up \in [Conns -> Stream] /\ down \in [Conns -> Stream]
      /\ choice \in [Conns -> {None, "make", "enter"}]
  BY StreamsKept DEF TypeOK, ClientsOK
<1>5. ASSUME NEW k \in Conns, k # j
      PROVE  /\ up'[k] = up[k] /\ down'[k] = down[k]
             /\ choice'[k] = choice[k] /\ hpc'[k] = hpc[k]
             /\ (k \in hasty' <=> k \in hasty)
  <2> USE <1>1, <1>4, <1>5 DEF Sent, Received, RecvOrTimeout, handlerVars, streamVars, clientVars
  <2>1. CASE RecvAcpt(c)
    BY <2>1 DEF RecvAcpt
  <2>2. CASE RecvCount(c)
    BY <2>2 DEF RecvCount
  <2>3. CASE CountTimeout(c)
    BY <2>3 DEF CountTimeout
  <2>4. CASE RecvLine(c)
    BY <2>4 DEF RecvLine
  <2>5. CASE RecvReply(c)
    BY <2>5 DEF RecvReply
  <2>6. CASE ChooseMake(c)
    BY <2>6 DEF ChooseMake
  <2>7. ASSUME NEW r \in 0 .. MaxRooms - 1, ChooseEnter(c, r)
        PROVE  /\ up'[k] = up[k] /\ down'[k] = down[k]
               /\ choice'[k] = choice[k] /\ hpc'[k] = hpc[k]
               /\ (k \in hasty' <=> k \in hasty)
    BY <2>7 DEF ChooseEnter
  <2>8. CASE RecvTold(c)
    BY <2>8 DEF RecvTold
  <2>9. ASSUME NEW n \in TextLengths, SendCommand(c, n)
        PROVE  /\ up'[k] = up[k] /\ down'[k] = down[k]
               /\ choice'[k] = choice[k] /\ hpc'[k] = hpc[k]
               /\ (k \in hasty' <=> k \in hasty)
    BY <2>9 DEF SendCommand
  <2> QED
    BY <2>1, <2>2, <2>3, <2>4, <2>5, <2>6, <2>7, <2>8, <2>9
    DEF Moving, ClientChooses, ClientTalks
<1> QED
  BY <1>1, <1>2, <1>3, <1>5 DEF Others, mainVars

LEMMA ConnectTouches ==
  ASSUME TypeOK, NEW c \in Clients, Connect(c)
  PROVE  /\ <<c, try[c] + 1>> \in Conns
         /\ try' = [try EXCEPT ![c] = @ + 1] /\ try'[c] = try[c] + 1
         /\ Len(backlog) \in Nat /\ Len(backlog') = Len(backlog) + 1
         /\ DOMAIN backlog = 1 .. Len(backlog) /\ DOMAIN backlog' = 1 .. Len(backlog) + 1
         /\ \A i \in 1 .. Len(backlog) : backlog'[i] = backlog[i]
         /\ backlog'[Len(backlog) + 1] = <<c, try[c] + 1>>
         /\ Others(<<c, try[c] + 1>>)
<1>1. /\ try[c] + 1 \in 1 .. MaxAttempts /\ try' = [try EXCEPT ![c] = @ + 1]
      /\ try'[c] = try[c] + 1
  BY SessionAssumption, Roomy, SMTT(30)
  DEF Connect, TypeOK, ClientsOK, Limits, SessionAssumption
<1>2. <<c, try[c] + 1>> \in Conns
  BY <1>1 DEF Conns
<1>3. backlog' = Append(backlog, <<c, try[c] + 1>>) /\ backlog \in Seq(Conns)
  BY <1>1 DEF Connect, TypeOK, ServerOK
<1>4. /\ Len(backlog) \in Nat /\ Len(backlog') = Len(backlog) + 1
      /\ DOMAIN backlog = 1 .. Len(backlog) /\ DOMAIN backlog' = 1 .. Len(backlog) + 1
      /\ \A i \in 1 .. Len(backlog) : backlog'[i] = backlog[i]
      /\ backlog'[Len(backlog) + 1] = <<c, try[c] + 1>>
  <2>1. backlog' \in Seq(Conns)
    BY <1>2, <1>3, AppendProperties
  <2> QED
    BY <1>2, <1>3, <2>1, AppendProperties, LenProperties
<1>5. PICK j \in Conns : j = <<c, try[c] + 1>>
  BY <1>2
<1>6. ASSUME NEW k \in Conns, k # j PROVE Unread(k)' <=> Unread(k)
  <2>1. cur' = cur
    BY DEF Connect
  <2> QED
    BY <1>4, <1>5, <1>6, <2>1 DEF Unread
<1>7. UNCHANGED <<up, down, choice, hpc, hasty, refused>>
  BY DEF Connect, streamVars, handlerVars
<1> QED
  BY <1>1, <1>2, <1>4, <1>5, <1>6, <1>7 DEF Others

LEMMA AcceptTouches ==
  ASSUME TypeOK, Accept
  PROVE  /\ cur' \in Conns /\ cur = None /\ cur' # None
         /\ Len(backlog) \in Nat \ {0} /\ Len(backlog') = Len(backlog) - 1
         /\ DOMAIN backlog = 1 .. Len(backlog) /\ DOMAIN backlog' = 1 .. Len(backlog) - 1
         /\ cur' = backlog[1]
         /\ \A i \in 1 .. Len(backlog) - 1 : backlog'[i] = backlog[i + 1]
         /\ Others(cur')
<1>1. /\ backlog \in Seq(Conns) /\ backlog # <<>> /\ backlog' = Tail(backlog)
      /\ cur' = Head(backlog) /\ cur = None
  BY DEF Accept, MainAt, TypeOK, ServerOK
<1>2. /\ Len(backlog) \in Nat \ {0} /\ Len(backlog') = Len(backlog) - 1
      /\ DOMAIN backlog = 1 .. Len(backlog) /\ DOMAIN backlog' = 1 .. Len(backlog) - 1
      /\ cur' = backlog[1] /\ cur' \in Conns
      /\ \A i \in 1 .. Len(backlog) - 1 : backlog'[i] = backlog[i + 1]
  BY <1>1, HeadTailProperties, EmptySeq, LenProperties
<1>3. PICK j \in Conns : j = cur'
  BY <1>2
<1>4. cur' # None
  BY <1>2, SessionAssumption DEF SessionAssumption
<1>5. ASSUME NEW k \in Conns, k # j PROVE Unread(k)' <=> Unread(k)
  <2>1. ASSUME NEW i \in DOMAIN backlog, backlog[i] = k PROVE Unread(k)'
    <3>1. i # 1 /\ i - 1 \in 1 .. Len(backlog) - 1 /\ backlog'[i - 1] = backlog[(i - 1) + 1]
      BY <1>2, <1>3, <1>5, <2>1
    <3>2. backlog'[i - 1] = k
      BY <1>2, <2>1, <3>1
    <3> QED
      BY <1>2, <3>1, <3>2 DEF Unread
  <2>2. ASSUME NEW i \in DOMAIN backlog', backlog'[i] = k PROVE Unread(k)
    <3>1. i + 1 \in DOMAIN backlog /\ backlog[i + 1] = k
      BY <1>2, <2>2
    <3> QED
      BY <3>1 DEF Unread
  <2>3. cur # k /\ cur' # k
    BY <1>1, <1>3, <1>5, SessionAssumption DEF SessionAssumption
  <2> QED
    BY <2>1, <2>2, <2>3 DEF Unread
<1>6. UNCHANGED <<up, choice, hpc, hasty, refused>>
  BY DEF Accept, clientVars, handlerVars
<1>7. ASSUME NEW k \in Conns, k # j PROVE down'[k] = down[k]
  <2>1. down' = [down EXCEPT ![j] = Put(@, "acpt", 0)]
    BY <1>3 DEF Accept, Written
  <2> QED
    BY <1>7, <2>1, StreamsKept
<1> QED
  BY <1>1, <1>2, <1>3, <1>4, <1>5, <1>6, <1>7 DEF Others

LEMMA MainTouches ==
  ASSUME TypeOK, MainSteps
  PROVE  /\ cur \in Conns /\ cur # None /\ Others(cur)
         /\ UNCHANGED <<clientVars, fin, backlog, choice>>
<1>1. mpc # "accept"
  BY DEF MainSteps, ReadLogin, ReadLoginFails, WriteLine, ReadMake, ReadEnter, ReadOther,
     ReadChoice, MainAt
<1>2. PICK j \in Conns : j = cur
  BY <1>1, MainServes
<1>3. cur # None
  BY <1>2, SessionAssumption DEF SessionAssumption
<1>4. /\ up \in [Conns -> Stream] /\ down \in [Conns -> Stream]
      /\ hpc \in [Conns -> {"none", "placed", "read"}]
  BY StreamsKept DEF TypeOK, ServerOK
<1>5. /\ UNCHANGED <<clientVars, fin, backlog, choice>>
      /\ cur' \in {cur, None}
  BY DEF MainSteps, ReadLogin, ReadLoginFails, WriteLine, ReadMake, ReadEnter, ReadOther,
     MainIsFree
<1>6. ASSUME NEW k \in Conns, k # j
      PROVE  /\ up'[k] = up[k] /\ down'[k] = down[k] /\ hpc'[k] = hpc[k]
             /\ (k \in refused' <=> k \in refused)
  <2> USE <1>2, <1>4, <1>6 DEF Written, handlerVars, Place, ReadChoice
  <2>1. ASSUME NEW known \in BOOLEAN, ReadLogin(known)
        PROVE  /\ up'[k] = up[k] /\ down'[k] = down[k] /\ hpc'[k] = hpc[k]
               /\ (k \in refused' <=> k \in refused)
    BY <2>1 DEF ReadLogin
  <2>2. CASE ReadLoginFails
    BY <2>2 DEF ReadLoginFails
  <2>3. CASE WriteLine
    BY <2>3 DEF WriteLine
  <2>4. CASE ReadMake
    BY <2>4 DEF ReadMake
  <2>5. CASE ReadEnter
    BY <2>5 DEF ReadEnter
  <2>6. CASE ReadOther
    BY <2>6 DEF ReadOther
  <2> QED
    BY <2>1, <2>2, <2>3, <2>4, <2>5, <2>6 DEF MainSteps
<1>7. ASSUME NEW k \in Conns, k # j PROVE Unread(k)' <=> Unread(k)
  <2>1. k # None
    BY SessionAssumption DEF SessionAssumption
  <2> QED
    BY <1>2, <1>5, <1>7, <2>1 DEF Unread
<1> QED
  BY <1>2, <1>3, <1>5, <1>6, <1>7 DEF Others, clientVars

LEMMA HandlerTouches ==
  ASSUME TypeOK, NEW k \in Conns, HandlerRuns(k) \/ Tell(k)
  PROVE  /\ Others(k) /\ hpc[k] # "none"
         /\ UNCHANGED <<clientVars, mainVars, fin, choice>>
<1>1. /\ up \in [Conns -> Stream] /\ down \in [Conns -> Stream]
      /\ hpc \in [Conns -> {"none", "placed", "read"}]
  BY StreamsKept DEF TypeOK, ServerOK
<1>2. UNCHANGED <<clientVars, mainVars, fin, choice>> /\ hpc[k] # "none"
  BY DEF HandlerRuns, HandlerStart, HandlerRead, Tell, streamVars
<1>3. ASSUME NEW j \in Conns, j # k
      PROVE  up'[j] = up[j] /\ down'[j] = down[j] /\ hpc'[j] = hpc[j]
  BY <1>1, <1>3
  DEF HandlerRuns, HandlerStart, HandlerRead, Tell, streamVars, Written, handlerVars
<1>4. \A j \in Conns : Unread(j)' <=> Unread(j)
  BY <1>2 DEF Unread, mainVars
<1> QED
  BY <1>2, <1>3, <1>4 DEF Others, clientVars, mainVars

LEMMA FreshStep ==
  ASSUME IInv, Next
  PROVE  FreshOK'
<1>a. /\ TypeOK /\ FreshOK /\ CurrentOK /\ \A c \in Clients : ClientOK(c)
  BY DEF IInv
<1>b. /\ \A c \in Clients : try[c] \in Nat /\ try'[c] \in Nat /\ try[c] <= try'[c]
      /\ \A k \in Conns : k[1] \in Clients /\ k[2] \in Nat
  BY <1>a, Growth DEF Conns
<1>g. ASSUME NEW j \in Conns, j[2] <= try'[j[1]], Others(j)
      PROVE  FreshOK'
  <2>1. SUFFICES ASSUME NEW k \in Conns, k[2] > try'[k[1]]
                 PROVE  /\ ~Unread(k)'
                        /\ up'[k] = NoBytes /\ down'[k] = NoBytes
                        /\ choice'[k] = None /\ hpc'[k] = "none"
    BY DEF FreshOK, NoBytes
  <2>2. k # j /\ k[2] > try[k[1]]
    BY <1>b, <1>g, <2>1
  <2> QED
    BY <1>a, <1>g, <2>2 DEF FreshOK, Others
<1>o. ASSUME NEW j \in Conns, \/ Unread(j) \/ hpc[j] # "none", Others(j)
      PROVE  FreshOK'
  <2>1. ~(j[2] > try[j[1]])
    BY <1>a, <1>o DEF FreshOK
  <2>2. j[2] <= try'[j[1]]
    BY <1>b, <2>1
  <2> QED
    BY <1>g, <1>o, <2>2
<1>1. ASSUME NEW c \in Clients, Connect(c) PROVE FreshOK'
  <2>1. PICK j \in Conns : j = <<c, try[c] + 1>>
    BY <1>a, <1>1, ConnectTouches
  <2>2. Others(j) /\ try'[c] = try[c] + 1
    BY <1>a, <1>1, <2>1, ConnectTouches
  <2>3. j[2] <= try'[j[1]]
    BY <1>b, <2>1, <2>2
  <2> QED
    BY <1>g, <2>2, <2>3
<1>2. ASSUME NEW c \in Clients, Moving(c) PROVE FreshOK'
  <2>1. PICK j \in Conns : j = Conn(c)
    BY <1>a, <1>2, MovingIsAlive
  <2>2. j[2] = try[j[1]] /\ try' = try
    BY <1>a, <1>2, <2>1, MovingIsAlive DEF Conn
  <2>3. j[2] <= try'[j[1]]
    BY <1>b, <2>2
  <2> QED
    BY <1>a, <1>2, <1>g, <2>1, <2>3, ClientTouches
<1>3. ASSUME NEW c \in Clients, Quit(c) PROVE FreshOK'
  <2>1. UNCHANGED <<try, up, down, choice, hpc, backlog, cur>>
    BY <1>3 DEF Quit, mainVars, handlerVars
  <2> QED
    BY <1>a, <2>1 DEF FreshOK, Unread
<1>4. CASE Accept
  <2>1. PICK j \in Conns : j = cur'
    BY <1>a, <1>4, AcceptTouches
  <2>2. 1 \in DOMAIN backlog /\ backlog[1] = j
    BY <1>a, <1>4, <2>1, AcceptTouches
  <2>3. Unread(j)
    BY <2>2 DEF Unread
  <2> QED
    BY <1>a, <1>4, <1>o, <2>1, <2>3, AcceptTouches
<1>5. CASE MainSteps
  <2>1. PICK j \in Conns : j = cur
    BY <1>a, <1>5, MainTouches
  <2>2. Unread(j)
    BY <2>1 DEF Unread
  <2> QED
    BY <1>a, <1>5, <1>o, <2>1, <2>2, MainTouches
<1>6. ASSUME NEW k \in Conns, HandlerRuns(k) \/ Tell(k) PROVE FreshOK'
  BY <1>a, <1>6, <1>o, HandlerTouches
<1> QED
  BY <1>1, <1>2, <1>3, <1>4, <1>5, <1>6
  DEF Next, ClientLogsIn, MainRuns, MainSteps, Moving

LEMMA NothingToRead ==
  ASSUME NEW t \in Stream, Reads(NoBytes, t)
  PROVE  t = NoBytes
<1>1. t.sent = 0 /\ t.read = 0 /\ t.msgs = {}
  BY DEF Reads, NoBytes, Stream
<1>2. t = [sent |-> t.sent, read |-> t.read, msgs |-> t.msgs]
  BY DEF Stream
<1> QED
  BY <1>1, <1>2 DEF NoBytes

\* A client writes nothing to itself and reads nothing of what it sends.
LEMMA ClientReads ==
  ASSUME TypeOK, NEW c \in Clients, ClientOK(c), Moving(c)
  PROVE  /\ DownOnlyRead /\ hpc' = hpc
         /\ \A k \in Conns : up'[k].read = up[k].read
<1>1. PICK j \in Conns : j = Conn(c)
  BY MovingIsAlive
<1>2. {256, ReplySize, CountRead, CommandSize} \subseteq Nat
  BY Sizes
<1>3. DownOnlyRead
  <2>1. CASE \E n \in Nat : RecvOrTimeout(c, n)
    BY <1>1, <2>1, ReceivesOrNot
  <2>2. CASE \E n \in Nat : Received(Conn(c), n)
    BY <1>1, <2>2, Receives
  <2>3. CASE down' = down
    BY <2>3, StreamsKept DEF DownOnlyRead
  <2> QED
    BY <1>2, <2>1, <2>2, <2>3
    DEF Moving, RecvAcpt, RecvCount, CountTimeout, ClientChooses, ClientTalks,
        RecvLine, RecvReply, ChooseMake, ChooseEnter, RecvTold, SendCommand, streamVars
<1>4. hpc' = hpc
  BY DEF Moving, RecvAcpt, RecvCount, CountTimeout, ClientChooses, ClientTalks,
         RecvLine, RecvReply, ChooseMake, ChooseEnter, RecvTold, SendCommand, handlerVars
<1>5. \A k \in Conns : k # j => up'[k] = up[k]
  BY <1>1, ClientTouches DEF Others
<1>6. up'[j].read = up[j].read
  <2>1. CASE \E kind \in Kinds, v \in Nat : Sent(j, kind, v)
    BY <2>1, Sends
  <2>2. CASE up' = up
    BY <2>2
  <2>3. /\ {"login", "make", "enter", "command"} \subseteq Kinds
        /\ 0 \in Nat /\ 0 .. MaxRooms - 1 \subseteq Nat /\ TextLengths \subseteq Nat
    BY SessionAssumption DEF Kinds, SessionAssumption
  <2>4. CASE RecvAcpt(c)
    BY <1>1, <2>1, <2>3, <2>4 DEF RecvAcpt
  <2>5. CASE ChooseMake(c)
    BY <1>1, <2>1, <2>3, <2>5 DEF ChooseMake
  <2>6. CASE \E r \in 0 .. MaxRooms - 1 : ChooseEnter(c, r)
    BY <1>1, <2>1, <2>3, <2>6 DEF ChooseEnter
  <2>7. CASE \E n \in TextLengths : SendCommand(c, n)
    BY <1>1, <2>1, <2>3, <2>7 DEF SendCommand
  <2>8. CASE RecvCount(c) \/ CountTimeout(c) \/ RecvLine(c) \/ RecvReply(c) \/ RecvTold(c)
    BY <2>2, <2>8 DEF RecvCount, CountTimeout, RecvLine, RecvReply, RecvTold, streamVars
  <2> QED
    BY <2>4, <2>5, <2>6, <2>7, <2>8 DEF Moving, ClientChooses, ClientTalks
<1> QED
  BY <1>3, <1>4, <1>5, <1>6

LEMMA QueueStep ==
  ASSUME IInv, Next
  PROVE  QueueOK'
<1>a. /\ TypeOK /\ QueueOK /\ FreshOK /\ \A c \in Clients : ClientOK(c)
  BY DEF IInv
<1>b. /\ \A k \in Conns : down'[k] \in Stream /\ k # None
      /\ \A i \in DOMAIN backlog : backlog[i] \in Conns
  <2>1. \A k \in Conns : down'[k] \in Stream
    BY <1>a, StreamSteps DEF TheStreams
  <2>2. \A i \in DOMAIN backlog : backlog[i] \in Conns
    BY <1>a, LenProperties, ElementOfSeq DEF TypeOK, ServerOK
  <2> QED
    BY <2>1, <2>2, SessionAssumption DEF SessionAssumption
<1>g. ASSUME backlog' = backlog, cur' \in {cur, None},
             \A i \in DOMAIN backlog :
               /\ up'[backlog[i]].read = 0 /\ down'[backlog[i]] = NoBytes
               /\ hpc'[backlog[i]] = "none"
      PROVE  QueueOK'
  BY <1>a, <1>b, <1>g DEF QueueOK, NoBytes
<1>o. ASSUME backlog' = backlog, cur' \in {cur, None}, NEW j \in Conns, Others(j),
             \A i \in DOMAIN backlog : backlog[i] # j
      PROVE  QueueOK'
  <2>1. ASSUME NEW i \in DOMAIN backlog
        PROVE  /\ up'[backlog[i]].read = 0 /\ down'[backlog[i]] = NoBytes
               /\ hpc'[backlog[i]] = "none"
    <3>1. backlog[i] \in Conns /\ backlog[i] # j
      BY <1>b, <1>o
    <3> QED
      BY <1>a, <1>o, <3>1 DEF Others, QueueOK
  <2> QED
    BY <1>g, <1>o, <2>1
<1>1. ASSUME NEW c \in Clients, Connect(c) PROVE QueueOK'
  <2>1. PICK j \in Conns : j = <<c, try[c] + 1>>
    BY <1>a, <1>1, ConnectTouches
  <2>2. /\ Len(backlog) \in Nat /\ Len(backlog') = Len(backlog) + 1
        /\ DOMAIN backlog = 1 .. Len(backlog)
        /\ DOMAIN backlog' = 1 .. Len(backlog) + 1
        /\ \A i \in 1 .. Len(backlog) : backlog'[i] = backlog[i]
        /\ backlog'[Len(backlog) + 1] = j
    BY <1>a, <1>1, <2>1, ConnectTouches
  <2>3. UNCHANGED <<up, down, hpc, cur>>
    BY <1>1 DEF Connect, streamVars, handlerVars
  <2>4. j[2] > try[j[1]]
    <3>1. try[c] \in Nat
      BY <1>a, Growth
    <3> QED
      BY <2>1, <3>1
  <2>5. /\ \A i \in DOMAIN backlog : backlog[i] # j
        /\ cur # j /\ up[j] = NoBytes /\ down[j] = NoBytes /\ hpc[j] = "none"
    BY <1>a, <2>4 DEF FreshOK, Unread
  <2>6. ASSUME NEW i \in DOMAIN backlog'
        PROVE  /\ backlog'[i] # cur
               /\ up[backlog'[i]].read = 0 /\ down[backlog'[i]] = NoBytes
               /\ hpc[backlog'[i]] = "none"
    <3>1. CASE i = Len(backlog) + 1
      BY <2>2, <2>5, <3>1 DEF NoBytes
    <3>2. CASE i # Len(backlog) + 1
      <4>1. i \in DOMAIN backlog /\ backlog'[i] = backlog[i]
        BY <2>2, <3>2
      <4> QED
        BY <1>a, <4>1 DEF QueueOK
    <3> QED
      BY <3>1, <3>2
  <2>7. ASSUME NEW i \in DOMAIN backlog', NEW n \in DOMAIN backlog',
               backlog'[i] = backlog'[n]
        PROVE  i = n
    <3>1. \A m \in DOMAIN backlog' :
            m = Len(backlog) + 1 \/ (m \in DOMAIN backlog /\ backlog'[m] = backlog[m])
      BY <2>2
    <3> QED
      BY <1>a, <2>2, <2>5, <2>7, <3>1 DEF QueueOK
  <2> QED
    BY <2>3, <2>6, <2>7 DEF QueueOK, NoBytes
<1>2. ASSUME NEW c \in Clients, Moving(c) PROVE QueueOK'
  <2>1. backlog' = backlog /\ cur' = cur
    BY <1>a, <1>2, MovingIsAlive DEF mainVars
  <2>2. ASSUME NEW i \in DOMAIN backlog
        PROVE  /\ up'[backlog[i]].read = 0 /\ down'[backlog[i]] = NoBytes
               /\ hpc'[backlog[i]] = "none"
    <3>1. PICK k \in Conns : k = backlog[i]
      BY <1>b
    <3>2. up[k].read = 0 /\ down[k] = NoBytes /\ hpc[k] = "none"
      BY <1>a, <3>1 DEF QueueOK
    <3>3. /\ Reads(down[k], down'[k]) /\ hpc' = hpc /\ up'[k].read = up[k].read
      BY <1>a, <1>2, ClientReads DEF DownOnlyRead
    <3>4. down'[k] = NoBytes
      BY <1>b, <3>2, <3>3, NothingToRead
    <3> QED
      BY <3>1, <3>2, <3>3, <3>4
  <2> QED
    BY <1>g, <2>1, <2>2
<1>3. ASSUME NEW c \in Clients, Quit(c) PROVE QueueOK'
  <2>1. UNCHANGED <<up, down, hpc, backlog, cur>>
    BY <1>3 DEF Quit, mainVars, handlerVars
  <2> QED
    BY <1>a, <2>1 DEF QueueOK, NoBytes
<1>4. CASE Accept
  <2>1. /\ Len(backlog) \in Nat \ {0}
        /\ DOMAIN backlog = 1 .. Len(backlog)
        /\ DOMAIN backlog' = 1 .. Len(backlog) - 1
        /\ cur' = backlog[1]
        /\ \A i \in 1 .. Len(backlog) - 1 : backlog'[i] = backlog[i + 1]
        /\ Others(cur')
    BY <1>a, <1>4, AcceptTouches
  <2>2. ASSUME NEW i \in DOMAIN backlog'
        PROVE  /\ backlog'[i] # cur'
               /\ up'[backlog'[i]].read = 0 /\ down'[backlog'[i]] = NoBytes
               /\ hpc'[backlog'[i]] = "none"
    <3>1. i + 1 \in DOMAIN backlog /\ backlog'[i] = backlog[i + 1] /\ 1 \in DOMAIN backlog
          /\ i + 1 # 1
      BY <2>1
    <3>2. backlog[i + 1] # backlog[1]
      BY <1>a, <3>1 DEF QueueOK
    <3>3. PICK k \in Conns : k = backlog[i + 1]
      BY <1>b, <3>1
    <3>4. up[k].read = 0 /\ down[k] = NoBytes /\ hpc[k] = "none"
      BY <1>a, <3>1, <3>3 DEF QueueOK
    <3>5. k # cur'
      BY <2>1, <3>2, <3>3
    <3> QED
      BY <2>1, <3>1, <3>3, <3>4, <3>5 DEF Others
  <2>3. ASSUME NEW i \in DOMAIN backlog', NEW n \in DOMAIN backlog',
               backlog'[i] = backlog'[n]
        PROVE  i = n
    <3>1. i + 1 \in DOMAIN backlog /\ n + 1 \in DOMAIN backlog
          /\ backlog[i + 1] = backlog[n + 1]
      BY <2>1, <2>3
    <3>2. i + 1 = n + 1
      BY <1>a, <3>1 DEF QueueOK
    <3> QED
      BY <2>1, <3>2
  <2> QED
    BY <2>2, <2>3 DEF QueueOK, NoBytes
<1>5. CASE MainSteps
  <2>1. PICK j \in Conns : j = cur
    BY <1>a, <1>5, MainTouches
  <2>2. Others(j) /\ backlog' = backlog /\ cur' \in {cur, None}
    BY <1>a, <1>5, <2>1, MainTouches
    DEF MainSteps, ReadLogin, ReadLoginFails, WriteLine, ReadMake, ReadEnter, ReadOther,
        MainIsFree
  <2>3. \A i \in DOMAIN backlog : backlog[i] # j
    BY <1>a, <2>1 DEF QueueOK
  <2> QED
    BY <1>o, <2>2, <2>3
<1>6. ASSUME NEW k \in Conns, HandlerRuns(k) \/ Tell(k) PROVE QueueOK'
  <2>1. Others(k) /\ hpc[k] # "none" /\ backlog' = backlog /\ cur' = cur
    BY <1>a, <1>6, HandlerTouches DEF mainVars
  <2>2. \A i \in DOMAIN backlog : backlog[i] # k
    BY <1>a, <2>1 DEF QueueOK
  <2> QED
    BY <1>o, <2>1, <2>2
<1> QED
  BY <1>1, <1>2, <1>3, <1>4, <1>5, <1>6
  DEF Next, ClientLogsIn, MainRuns, MainSteps, Moving

LEMMA ServerOnlyReads ==
  ASSUME TypeOK, \/ Accept \/ MainSteps
                 \/ \E k \in Conns : HandlerRuns(k) \/ Tell(k)
  PROVE  UpOnlyRead
<1>1. CASE up' = up
  BY <1>1, StreamsKept DEF UpOnlyRead
<1>2. CASE Accept
  BY <1>1, <1>2 DEF Accept
<1>3. {LoginSize, ChoiceSize, PieceSize} \subseteq Nat
  BY Sizes
<1>4. CASE MainSteps
  <2>1. PICK j \in Conns : j = cur
    BY <1>4, MainTouches
  <2>2. CASE \E n \in Nat : up' = [up EXCEPT ![j] = Rest(@, n)]
    BY <2>2, ServerReads
  <2>3. CASE \E known \in BOOLEAN : ReadLogin(known)
    BY <1>3, <2>1, <2>2, <2>3 DEF ReadLogin
  <2>4. CASE ReadLoginFails
    BY <1>3, <2>1, <2>2, <2>4 DEF ReadLoginFails
  <2>5. CASE WriteLine
    BY <1>1, <2>5 DEF WriteLine
  <2>6. CASE ReadChoice
    BY <1>3, <2>1, <2>2, <2>6 DEF ReadChoice
  <2> QED
    BY <1>4, <2>3, <2>4, <2>5, <2>6 DEF MainSteps, ReadMake, ReadEnter, ReadOther
<1>5. ASSUME NEW k \in Conns, HandlerRuns(k) \/ Tell(k) PROVE UpOnlyRead
  <2>1. CASE HandlerRead(k)
    BY <1>3, <2>1, ServerReads DEF HandlerRead
  <2>2. CASE HandlerStart(k) \/ Tell(k)
    BY <1>1, <2>2 DEF HandlerStart, Tell, streamVars
  <2> QED
    BY <1>5, <2>1, <2>2 DEF HandlerRuns
<1> QED
  BY <1>2, <1>4, <1>5

\* main() does not take leave of a client that still uses its connection without
\* having read its choice.
LEMMA OthersAreGone ==
  ASSUME IInv, NEW c \in Clients, Alive(c), ReadOther
  PROVE  cur # Conn(c)
<1> SUFFICES ASSUME cur = Conn(c) PROVE FALSE
  OBVIOUS
<1>a. /\ TypeOK /\ CurrentOK /\ GoneOK /\ ClientOK(c)
      /\ \A k \in Conns : UpOK(k) /\ ChoiceOK(k)
  BY DEF IInv
<1>1. PICK k \in Conns : k = cur
  BY <1>a, Connected
<1>2. k \notin fin /\ k # None /\ mpc = "choice"
  <2>1. k[1] = c
    BY <1>a, <1>1, Connected
  <2> QED
    BY <1>a, <1>1, <2>1, SessionAssumption
    DEF GoneOK, Alive, SessionAssumption, ReadOther, ReadChoice, MainAt
<1>3. up[k].read = 33 /\ ~Empty(up[k])
  BY <1>a, <1>1, <1>2, Sizes DEF CurrentOK, ReadOther, ReadChoice, Readable
<1>4. up[k].sent # 33 /\ up[k].sent \in Nat /\ up[k].read \in Nat /\ up[k].read <= up[k].sent
  <2>1. up[k] \in Stream /\ Unfinished(up[k])
    BY <1>a, StreamsKept
  <2> QED
    BY <1>3, <2>1 DEF Stream, Empty, Unfinished
<1>5. choice[k] # None
  BY <1>a, <1>3, <1>4, Sizes DEF UpOK
<1>6. PICK p \in up[k].msgs : /\ p.kind = choice[k] /\ p.at = 33
                              /\ choice[k] = "enter" => p.val < Len(rooms)
  <2>1. up[k].read <= LoginSize /\ LoginSize = 33
    BY <1>3, Sizes
  <2> QED
    BY <1>a, <1>5, <2>1 DEF ChoiceOK
<1>7. choice[k] \in {"make", "enter"}
  BY <1>a, <1>5 DEF TypeOK, ClientsOK
<1>8. p \in First(up[k], choice[k])
  BY <1>3, <1>6 DEF First
<1>9. p.val \in Nat /\ Len(rooms) \in Nat
  <2>1. up[k] \in Stream
    BY <1>a, StreamsKept
  <2> QED
    BY <1>a, <1>6, <2>1, Roomy DEF Stream, Message
<1> QED
  BY <1>1, <1>6, <1>7, <1>8, <1>9 DEF ReadOther

LEMMA ClientStep ==
  ASSUME IInv, Next
  PROVE  \A d \in Clients : ClientOK(d)'
<1>a. /\ TypeOK /\ FreshOK /\ \A c \in Clients : ClientOK(c)
      /\ \A k \in Conns : DownOK(k)
  BY DEF IInv
<1>b. /\ cpc \in [Clients -> {"login", "acpt", "count", "list", "reply", "room", "gone"}]
      /\ \A c \in Clients : try[c] \in Nat
      /\ choice \in [Conns -> {None, "make", "enter"}] /\ None # "make" /\ None # "enter"
      /\ status = "up"
  BY <1>a, Growth, Movers, SessionAssumption DEF TypeOK, ClientsOK, SessionAssumption
<1>g. ASSUME NEW d \in Clients, cpc'[d] = cpc[d], try'[d] = try[d],
             Alive(d) => /\ up'[Conn(d)].sent = up[Conn(d)].sent
                         /\ choice'[Conn(d)] = choice[Conn(d)]
      PROVE  ClientOK(d)'
  <2>1. Conn(d)' = Conn(d)
    BY <1>g DEF Conn
  <2> QED
    BY <1>a, <1>g, <2>1, Sizes DEF ClientOK, Alive
<1>o. ASSUME NEW c \in Clients, Others(Conn(c)), try' = try, Conn(c) \in Conns,
             NEW d \in Clients, d # c, cpc'[d] = cpc[d]
      PROVE  ClientOK(d)'
  <2>1. ASSUME Alive(d)
        PROVE  /\ up'[Conn(d)].sent = up[Conn(d)].sent
               /\ choice'[Conn(d)] = choice[Conn(d)]
    <3>1. Conn(d) \in Conns /\ Conn(d) # Conn(c)
      BY <1>a, <1>o, <2>1, Connected DEF Conn
    <3> QED
      BY <1>o, <3>1 DEF Others
  <2> QED
    BY <1>g, <1>o, <2>1
<1>1. ASSUME NEW c \in Clients, Connect(c) PROVE \A d \in Clients : ClientOK(d)'
  <2>1. PICK j \in Conns : j = <<c, try[c] + 1>>
    BY <1>a, <1>1, ConnectTouches
  <2>2. /\ try' = [try EXCEPT ![c] = @ + 1] /\ try'[c] = try[c] + 1
        /\ cpc' = [cpc EXCEPT ![c] = "acpt"]
        /\ UNCHANGED <<up, choice>>
    BY <1>a, <1>1, ConnectTouches DEF Connect, streamVars
  <2>3. up[j] = NoBytes /\ choice[j] = None
    <3>1. j[2] > try[j[1]]
      BY <1>b, <2>1
    <3> QED
      BY <1>a, <3>1 DEF FreshOK
  <2>4. Conn(c)' = j /\ try'[c] > 0 /\ cpc'[c] = "acpt"
    BY <1>b, <2>1, <2>2 DEF Conn
  <2>5. ClientOK(c)'
    BY <2>2, <2>3, <2>4 DEF ClientOK, NoBytes
  <2>6. ASSUME NEW d \in Clients, d # c PROVE ClientOK(d)'
    <3>1. cpc'[d] = cpc[d] /\ try'[d] = try[d]
      BY <1>b, <1>a, <2>2, <2>6 DEF TypeOK, ClientsOK
    <3> QED
      BY <1>g, <2>2, <3>1
  <2> QED
    BY <2>5, <2>6
<1>2. ASSUME NEW c \in Clients, Moving(c) PROVE ClientOK(c)'
  <2>1. PICK k \in Conns : k = Conn(c)
    BY <1>a, <1>2, MovingIsAlive
  <2>2. Conn(c)' = k /\ try' = try /\ Alive(c)
    BY <1>a, <1>2, <2>1, MovingIsAlive DEF Conn
  <2>3. try'[c] > 0
    BY <1>a, <2>2 DEF ClientOK
  <2>4. CASE RecvAcpt(c)
    <3>1. /\ cpc'[c] = "count" /\ choice' = choice /\ Sent(k, "login", 0)
          /\ cpc[c] = "acpt" /\ "login" \in Kinds
      BY <1>b, <2>1, <2>4 DEF RecvAcpt, At, Kinds
    <3>2. up[k].sent = 0 /\ choice[k] = None
      BY <1>a, <2>1, <3>1 DEF ClientOK
    <3>3. up'[k].sent = 33
      BY <1>a, <3>1, <3>2, Sends, Sizes
    <3> QED
      BY <2>2, <2>3, <3>1, <3>2, <3>3, Sizes DEF ClientOK
  <2>5. CASE RecvCount(c) \/ RecvLine(c)
    <3>1. /\ cpc'[c] = "list" /\ UNCHANGED <<up, choice>>
          /\ cpc[c] \in {"count", "list"}
      BY <1>b, <2>5 DEF RecvCount, RecvLine, At
    <3>2. up[k].sent = 33 /\ choice[k] = None
      BY <1>a, <2>1, <3>1, Sizes DEF ClientOK
    <3> QED
      BY <2>2, <2>3, <3>1, <3>2, Sizes DEF ClientOK
  <2>6. CASE CountTimeout(c)
    <3>1. cpc'[c] = "login"
      BY <1>b, <2>6 DEF CountTimeout
    <3> QED
      BY <3>1 DEF ClientOK, Alive
  <2>7. CASE ChooseMake(c)
    <3>1. cpc'[c] = "room" /\ choice'[k] = "make"
      BY <1>b, <2>1, <2>7 DEF ChooseMake
    <3> QED
      BY <1>b, <2>2, <2>3, <3>1 DEF ClientOK
  <2>8. ASSUME NEW r \in 0 .. MaxRooms - 1, ChooseEnter(c, r) PROVE ClientOK(c)'
    <3>1. cpc'[c] = "reply" /\ choice'[k] = "enter"
      BY <1>b, <2>1, <2>8 DEF ChooseEnter
    <3> QED
      BY <1>b, <2>2, <2>3, <3>1 DEF ClientOK
  <2>9. CASE RecvReply(c)
    <3>1. First(down[k], "full") = {}
      BY <1>a, <1>b DEF First, DownOK
    <3>2. cpc'[c] = "room" /\ choice' = choice /\ cpc[c] = "reply"
      BY <1>b, <2>1, <2>9, <3>1 DEF RecvReply, At
    <3>3. choice[k] = "enter"
      BY <1>a, <2>1, <3>2 DEF ClientOK
    <3> QED
      BY <1>b, <2>2, <2>3, <3>2, <3>3 DEF ClientOK
  <2>10. CASE RecvTold(c)
    <3>1. cpc' = cpc /\ choice' = choice /\ cpc[c] = "room"
      BY <2>10 DEF RecvTold, At, clientVars
    <3> QED
      BY <1>a, <2>1, <2>2, <2>3, <3>1 DEF ClientOK
  <2>11. ASSUME NEW n \in TextLengths, SendCommand(c, n) PROVE ClientOK(c)'
    <3>1. cpc' = cpc /\ choice' = choice /\ cpc[c] = "room"
      BY <2>11 DEF SendCommand, At, clientVars
    <3> QED
      BY <1>a, <2>1, <2>2, <2>3, <3>1 DEF ClientOK
  <2> QED
    BY <1>2, <2>4, <2>5, <2>6, <2>7, <2>8, <2>9, <2>10, <2>11
    DEF Moving, ClientChooses, ClientTalks
<1>3. ASSUME NEW c \in Clients, Moving(c) PROVE \A d \in Clients : ClientOK(d)'
  <2>1. ASSUME NEW d \in Clients, d # c PROVE cpc'[d] = cpc[d]
    BY <1>b, <1>3, <2>1
    DEF Moving, RecvAcpt, RecvCount, CountTimeout, ClientChooses, ClientTalks,
        RecvLine, RecvReply, ChooseMake, ChooseEnter, RecvTold, SendCommand, clientVars
  <2> QED
    BY <1>a, <1>2, <1>3, <1>o, <2>1, ClientTouches, MovingIsAlive
<1>4. ASSUME NEW c \in Clients, Quit(c) PROVE \A d \in Clients : ClientOK(d)'
  <2>1. cpc' = [cpc EXCEPT ![c] = "gone"] /\ UNCHANGED <<try, up, choice>>
    BY <1>4 DEF Quit
  <2>2. ClientOK(c)'
    BY <1>b, <2>1 DEF ClientOK, Alive
  <2> QED
    BY <1>b, <1>g, <2>1, <2>2
<1>5. CASE \/ Accept \/ MainSteps \/ \E k \in Conns : HandlerRuns(k) \/ Tell(k)
  <2>1. cpc' = cpc /\ try' = try /\ choice' = choice
    <3>1. CASE Accept
      BY <3>1 DEF Accept, clientVars
    <3>2. CASE MainSteps
      BY <1>a, <3>2, MainTouches DEF clientVars
    <3>3. ASSUME NEW k \in Conns, HandlerRuns(k) \/ Tell(k)
          PROVE  cpc' = cpc /\ try' = try /\ choice' = choice
      BY <1>a, <3>3, HandlerTouches DEF clientVars
    <3> QED
      BY <1>5, <3>1, <3>2, <3>3
  <2>2. \A k \in Conns : up'[k].sent = up[k].sent
    BY <1>a, <1>5, ServerOnlyReads DEF UpOnlyRead, Reads
  <2> QED
    BY <1>a, <1>g, <2>1, <2>2, Connected
<1> QED
  BY <1>1, <1>3, <1>4, <1>5 DEF Next, ClientLogsIn, MainRuns, MainSteps, Moving

\* A client that uses its connection has just opened it or goes on to use it.
LEMMA Stays ==
  ASSUME TypeOK, \A c \in Clients : ClientOK(c), Next,
         NEW d \in Clients, Alive(d)', ~Connect(d)
  PROVE  /\ Alive(d) /\ Conn(d) \in Conns /\ Conn(d)' = Conn(d)
         /\ \A j \in Conns : j[1] # d => j # Conn(d)
         /\ cpc'[d] # cpc[d] => Moving(d)
<1>b. /\ cpc \in [Clients -> {"login", "acpt", "count", "list", "reply", "room", "gone"}]
      /\ try \in [Clients -> 0 .. MaxAttempts]
  BY DEF TypeOK, ClientsOK
<1>1. Alive(d) /\ (cpc'[d] # cpc[d] => Moving(d))
  <2>g. ASSUME cpc'[d] = cpc[d] PROVE Alive(d) /\ (cpc'[d] # cpc[d] => Moving(d))
    BY <2>g DEF Alive
  <2>1. ASSUME NEW c \in Clients, Connect(c) PROVE cpc'[d] = cpc[d]
    BY <1>b, <2>1 DEF Connect
  <2>2. ASSUME NEW c \in Clients, c # d, Moving(c) PROVE cpc'[d] = cpc[d]
    BY <1>b, <2>2
    DEF Moving, RecvAcpt, RecvCount, CountTimeout, ClientChooses, ClientTalks,
        RecvLine, RecvReply, ChooseMake, ChooseEnter, RecvTold, SendCommand, clientVars
  <2>3. CASE Moving(d)
    BY <2>3, MovingIsAlive
  <2>4. ASSUME NEW c \in Clients, Quit(c) PROVE cpc'[d] = cpc[d]
    BY <1>b, <2>4 DEF Quit, Alive
  <2>5. CASE Accept
    BY <2>5, <2>g DEF Accept, clientVars
  <2>6. CASE MainSteps
    BY <2>6, <2>g, MainTouches DEF clientVars
  <2>7. ASSUME NEW k \in Conns, HandlerRuns(k) \/ Tell(k) PROVE cpc'[d] = cpc[d]
    BY <2>7, HandlerTouches DEF clientVars
  <2> QED
    BY <2>g, <2>1, <2>2, <2>3, <2>4, <2>5, <2>6, <2>7
    DEF Next, ClientLogsIn, MainRuns, MainSteps, Moving
<1>2. try'[d] = try[d]
  <2>1. ASSUME NEW c \in Clients, Connect(c) PROVE try'[d] = try[d]
    BY <1>b, <2>1 DEF Connect
  <2> QED
    BY <2>1, Movers
<1>3. Conn(d)' = Conn(d)
  BY <1>2 DEF Conn
<1> QED
  BY <1>1, <1>3, Connected

\* main() leaves a connection only by one of its four steps; it gets one from
\* the client that opens it.
LEMMA UnreadUntil ==
  ASSUME TypeOK, \A c \in Clients : ClientOK(c), Next, NEW k \in Conns
  PROVE  /\ Unread(k) /\ ~Unread(k)' =>
              k = cur /\ (ReadLoginFails \/ ReadMake \/ ReadEnter \/ ReadOther)
         /\ ~Unread(k) /\ Unread(k)' =>
              \E c \in Clients : Connect(c) /\ k = <<c, try[c] + 1>>
<1> DEFINE P == /\ Unread(k) /\ ~Unread(k)' =>
                     k = cur /\ (ReadLoginFails \/ ReadMake \/ ReadEnter \/ ReadOther)
                /\ ~Unread(k) /\ Unread(k)' =>
                     \E c \in Clients : Connect(c) /\ k = <<c, try[c] + 1>>
<1>g. ASSUME Unread(k)' <=> Unread(k) PROVE P
  BY <1>g
<1>f. ASSUME UNCHANGED <<backlog, cur>> PROVE P
  <2>1. Unread(k)' <=> Unread(k)
    BY <1>f DEF Unread
  <2> QED
    BY <1>g, <2>1
<1>1. ASSUME NEW c \in Clients, Connect(c) PROVE P
  <2>1. CASE k = <<c, try[c] + 1>>
    <3>1. /\ Len(backlog) + 1 \in DOMAIN backlog'
          /\ backlog'[Len(backlog) + 1] = k
      BY <1>1, <2>1, ConnectTouches
    <3>2. Unread(k)'
      BY <3>1 DEF Unread
    <3> QED
      BY <1>1, <2>1, <3>2
  <2>2. CASE k # <<c, try[c] + 1>>
    BY <1>1, <1>g, <2>2, ConnectTouches DEF Others
  <2> QED
    BY <2>1, <2>2
<1>2. ASSUME NEW c \in Clients, Moving(c) PROVE P
  BY <1>2, <1>f, MovingIsAlive DEF mainVars
<1>3. ASSUME NEW c \in Clients, Quit(c) PROVE P
  BY <1>3, <1>f DEF Quit, mainVars
<1>4. CASE Accept
  <2>1. CASE k = cur'
    <3>1. 1 \in DOMAIN backlog /\ backlog[1] = k
      BY <1>4, <2>1, AcceptTouches
    <3>2. Unread(k) /\ Unread(k)'
      BY <2>1, <3>1 DEF Unread
    <3> QED
      BY <3>2
  <2>2. CASE k # cur'
    BY <1>4, <1>g, <2>2, AcceptTouches DEF Others
  <2> QED
    BY <2>1, <2>2
<1>5. CASE MainSteps
  <2>1. CASE k # cur
    BY <1>5, <1>g, <2>1, MainTouches DEF Others
  <2>2. CASE k = cur
    <3>1. Unread(k)
      BY <2>2 DEF Unread
    <3>2. ASSUME cur' = cur PROVE P
      <4>1. Unread(k)'
        BY <2>2, <3>2 DEF Unread
      <4> QED
        BY <3>1, <4>1
    <3>3. CASE (\E known \in BOOLEAN : ReadLogin(known)) \/ WriteLine
      BY <3>2, <3>3 DEF ReadLogin, WriteLine
    <3> QED
      BY <1>5, <2>2, <3>1, <3>3 DEF MainSteps
  <2> QED
    BY <2>1, <2>2
<1>6. ASSUME NEW j \in Conns, HandlerRuns(j) \/ Tell(j) PROVE P
  BY <1>6, <1>f, HandlerTouches DEF mainVars
<1> QED
  BY <1>1, <1>2, <1>3, <1>4, <1>5, <1>6
  DEF Next, ClientLogsIn, MainRuns, MainSteps, Moving

LEMMA WaitsFirst ==
  ASSUME TypeOK, NEW c \in Clients, Connect(c)
  PROVE  Unread(Conn(c))' /\ Conn(c)' = <<c, try[c] + 1>>
<1>1. PICK j \in Conns : j = <<c, try[c] + 1>>
  BY ConnectTouches
<1>2. /\ Len(backlog) + 1 \in DOMAIN backlog' /\ backlog'[Len(backlog) + 1] = j
      /\ try'[c] = try[c] + 1
  BY <1>1, ConnectTouches
<1>3. Unread(j)' /\ Conn(c)' = j
  BY <1>1, <1>2 DEF Unread, Conn
<1> QED
  BY <1>1, <1>3 DEF Unread

LEMMA ServedStep ==
  ASSUME IInv, Next
  PROVE  \A d \in Clients : ServedOK(d)'
<1>a. /\ TypeOK /\ \A c \in Clients : ClientOK(c) /\ ServedOK(c)
  BY DEF IInv
<1> SUFFICES ASSUME NEW d \in Clients, Alive(d)', status' = "up"
             PROVE  \/ Unread(Conn(d))' \/ (hpc[Conn(d)] # "none")' \/ mutex' = "main"
                    \/ failures' > 0
  BY DEF ServedOK, Alive
<1>1. CASE Connect(d)
  BY <1>a, <1>1, WaitsFirst
<1>2. CASE ~Connect(d)
  <2>1. PICK k \in Conns : k = Conn(d) /\ Conn(d)' = k
    BY <1>a, <1>2, Stays
  <2>2. \/ Unread(k) \/ hpc[k] # "none" \/ mutex = "main" \/ failures > 0
    BY <1>a, <1>2, <2>1, Stays, Movers DEF ServedOK
  <2>3. CASE Unread(k)' \/ hpc'[k] # "none" \/ mutex' = "main" \/ failures' > 0
    BY <2>1, <2>3 DEF Unread
  <2>4. CASE hpc[k] # "none" \/ mutex = "main" \/ failures > 0
    BY <1>a, <2>3, <2>4, Growth
  <2>5. ASSUME k = cur, ReadLoginFails \/ ReadMake \/ ReadEnter \/ ReadOther
        PROVE  hpc'[k] # "none" \/ mutex' = "main" \/ failures' > 0
    <3>1. hpc \in [Conns -> {"none", "placed", "read"}] /\ failures \in Nat
      BY <1>a, Growth DEF TypeOK, ServerOK
    <3>2. CASE ReadLoginFails
      BY <3>1, <3>2 DEF ReadLoginFails
    <3>3. CASE ReadMake
      BY <2>5, <3>1, <3>3 DEF ReadMake, Place
    <3>4. CASE ReadEnter
      BY <2>5, <3>1, <3>4 DEF ReadEnter, Place
    <3>5. ~ReadOther
      BY <1>a, <1>2, <2>1, <2>5, Stays, OthersAreGone
    <3> QED
      BY <2>5, <3>2, <3>3, <3>4, <3>5
  <2> QED
    BY <1>a, <2>2, <2>3, <2>4, <2>5, UnreadUntil
<1> QED
  BY <1>1, <1>2

\* Only main(), which is with the connection, and the threads write to it.
LEMMA WhoWrites ==
  ASSUME TypeOK, Next, \A c \in Clients : ClientOK(c),
         NEW k \in Conns, ~Unread(k), hpc[k] = "none"
  PROVE  Reads(down[k], down'[k])
<1>1. cur # k
  BY DEF Unread
<1>2. Reads(down[k], down[k])
  BY StreamsKept
<1>3. CASE Accept
  <2>1. 1 \in DOMAIN backlog /\ backlog[1] = cur'
    BY <1>3, AcceptTouches
  <2>2. k # cur'
    BY <2>1 DEF Unread
  <2> QED
    BY <1>2, <1>3, <2>2, AcceptTouches DEF Others
<1>4. CASE MainSteps
  BY <1>1, <1>2, <1>4, MainTouches DEF Others
<1>5. ASSUME NEW j \in Conns, Tell(j) PROVE Reads(down[k], down'[k])
  <2>1. j # k
    BY <1>5, HandlerTouches
  <2> QED
    BY <1>2, <1>5, <2>1, HandlerTouches DEF Others
<1>6. CASE Writing
  BY <1>3, <1>4, <1>5, <1>6 DEF Writing, MainSteps
<1> QED
  BY <1>6, StreamSteps DEF DownOnlyRead

LEMMA LeftStep ==
  ASSUME IInv, Next
  PROVE  \A d \in Clients : LeftOK(d)'
<1>a. /\ TypeOK /\ CurrentOK /\ \A c \in Clients : ClientOK(c) /\ LeftOK(c)
      /\ \A k \in Conns : UpOK(k) /\ HandlerOK(k)
      /\ Next
  BY DEF IInv
<1> SUFFICES ASSUME NEW d \in Clients, cpc'[d] \in {"acpt", "count"}, ~Unread(Conn(d))'
             PROVE  (down[Conn(d)].sent = ReplySize)'
  BY DEF LeftOK
<1>b. Alive(d)'
  BY DEF Alive
<1>1. ~Connect(d)
  BY <1>a, WaitsFirst
<1>2. PICK k \in Conns : k = Conn(d) /\ Conn(d)' = k
  BY <1>a, <1>b, <1>1, Stays
<1>3. cpc[d] \in {"acpt", "count"}
  <2>1. CASE Moving(d)
    <3>1. cpc \in [Clients -> {"login", "acpt", "count", "list", "reply", "room", "gone"}]
      BY <1>a DEF TypeOK, ClientsOK
    <3> QED
      BY <2>1, <3>1
      DEF Moving, RecvAcpt, RecvCount, CountTimeout, ClientChooses, ClientTalks,
        RecvLine, RecvReply, ChooseMake, ChooseEnter, RecvTold, SendCommand, clientVars, At
  <2> QED
    BY <1>a, <1>b, <1>1, <2>1, Stays
<1>4. choice[k] = None /\ hpc[k] = "none" /\ ~Unread(k)'
  BY <1>a, <1>2, <1>3 DEF ClientOK, HandlerOK, Unread
<1>5. CASE Unread(k)
  <2>1. k = cur /\ (ReadLoginFails \/ ReadMake \/ ReadEnter \/ ReadOther)
    BY <1>a, <1>4, <1>5, UnreadUntil
  <2>2. ~ReadOther
    BY <1>a, <1>b, <1>1, <1>2, <2>1, Stays, OthersAreGone
  <2>3. ~ReadMake /\ ~ReadEnter
    <3>1. ASSUME NEW kind \in {"make", "enter"}, ReadChoice, First(up[cur], kind) # {}
          PROVE  FALSE
      <4>1. choice[cur] = kind
        BY <1>a, <3>1, ChoiceRead
      <4> QED
        BY <1>4, <2>1, <4>1, SessionAssumption DEF SessionAssumption
    <3>2. ~ReadMake
      BY <3>1 DEF ReadMake
    <3>3. ASSUME ReadEnter PROVE FALSE
      <4>1. ReadChoice /\ First(up[cur], "enter") # {}
        BY <3>3 DEF ReadEnter
      <4> QED
        BY <3>1, <4>1
    <3> QED
      BY <3>2, <3>3
  <2>4. /\ ReadLoginFails /\ down' = down /\ mpc = "login" /\ k # None
    BY <2>1, <2>2, <2>3, SessionAssumption
    DEF ReadLoginFails, MainAt, SessionAssumption
  <2> QED
    BY <1>a, <1>2, <2>1, <2>4 DEF CurrentOK, ReplySize
<1>6. CASE ~Unread(k)
  <2>1. Reads(down[k], down'[k])
    BY <1>a, <1>4, <1>6, WhoWrites
  <2>2. down[k].sent = ReplySize
    BY <1>a, <1>2, <1>3, <1>6 DEF LeftOK
  <2> QED
    BY <1>2, <2>1, <2>2 DEF Reads, ReplySize
<1> QED
  BY <1>5, <1>6

\* main() has read the login, if it was there, and has written the count and
\* the lines; a read by the client keeps the count until it is behind it.
LEMMA CurrentStep ==
  ASSUME IInv, Next
  PROVE  CurrentOK'
<1>a. /\ TypeOK /\ CurrentOK /\ QueueOK /\ \A c \in Clients : ClientOK(c)
      /\ \A k \in Conns : UpOK(k) /\ HandlerOK(k) /\ DownOK(k)
  BY DEF IInv
<1>b. /\ \A k \in Conns : /\ down[k].sent \in Nat /\ down[k].read \in Nat
                          /\ up[k].sent \in Nat /\ up[k].read \in Nat
                          /\ k # None
      /\ line \in Nat /\ Len(rooms) \in Nat
  <2>1. \A k \in Conns : up[k] \in Stream /\ down[k] \in Stream
    BY <1>a, StreamsKept
  <2>2. Len(rooms) \in Nat /\ line \in Nat
    BY <1>a, Roomy DEF TypeOK, ServerOK
  <2> QED
    BY <2>1, <2>2, SessionAssumption DEF Stream, SessionAssumption
<1>n. ASSUME cur' = None PROVE CurrentOK'
  BY <1>n DEF CurrentOK
<1>g. ASSUME NEW k \in Conns, cur = k, cur' = k, mpc' = mpc, line' = line,
             Len(rooms') = Len(rooms), hpc'[k] = hpc[k], up'[k].read = up[k].read,
             Reads(down[k], down'[k]), fin \subseteq fin', refused \subseteq refused'
      PROVE  CurrentOK'
  <2>1. /\ hpc'[k] = "none"
        /\ mpc' # "login" /\ k \notin fin' => up'[k].read = LoginSize
    BY <1>a, <1>b, <1>g DEF CurrentOK
  <2>2. ASSUME mpc' = "login"
        PROVE  /\ up'[k].read = 0 /\ down'[k].sent = ReplySize
               /\ \A p \in down'[k].msgs : p.kind # "count"
    BY <1>a, <1>b, <1>g, <2>2 DEF CurrentOK, Reads
  <2>3. ASSUME mpc' # "login", k \notin refused'
        PROVE  /\ line' <= Len(rooms') /\ (mpc' = "choice" => line' = Len(rooms'))
               /\ down'[k].sent = ReplySize + CountSize + BUFFER_SIZE * line'
               /\ \A p \in down'[k].msgs :
                    p.kind = "count" => p.at = ReplySize /\ p.val = Len(rooms')
               /\ down'[k].read <= ReplySize =>
                    \E p \in down'[k].msgs : p.kind = "count" /\ p.at = ReplySize
    <3>1. /\ line <= Len(rooms) /\ (mpc = "choice" => line = Len(rooms))
          /\ down[k].sent = ReplySize + CountSize + BUFFER_SIZE * line
          /\ \A p \in down[k].msgs :
               p.kind = "count" => p.at = ReplySize /\ p.val = Len(rooms)
          /\ down[k].read <= ReplySize =>
               \E p \in down[k].msgs : p.kind = "count" /\ p.at = ReplySize
      BY <1>a, <1>b, <1>g, <2>3 DEF CurrentOK
    <3>2. ASSUME down'[k].read <= ReplySize
          PROVE  \E p \in down'[k].msgs : p.kind = "count" /\ p.at = ReplySize
      <4>1. ReplySize = 5 /\ Size("count") = 6 /\ down'[k].read \in Nat
        BY <1>a, Sizes, StreamSteps DEF TheStreams, Stream
      <4>2. down[k].read <= ReplySize
        BY <1>b, <1>g, <3>2, <4>1 DEF Reads
      <4>3. PICK p \in down[k].msgs : p.kind = "count" /\ p.at = ReplySize
        BY <3>1, <4>2
      <4>4. p.at + Size(p.kind) > down'[k].read
        BY <3>2, <4>1, <4>3
      <4> QED
        BY <1>g, <4>3, <4>4 DEF Reads
    <3> QED
      BY <1>g, <3>1, <3>2 DEF Reads
  <2> QED
    BY <1>g, <2>1, <2>2, <2>3
    DEF CurrentOK, ReplySize, LoginSize, CountSize, BUFFER_SIZE
<1>o. ASSUME NEW j \in Conns, Others(j), cur # j, cur' = cur, mpc' = mpc,
             line' = line, rooms' = rooms, fin \subseteq fin', refused \subseteq refused'
      PROVE  CurrentOK'
  <2>1. CASE cur = None
    BY <1>n, <1>o, <2>1
  <2>2. CASE cur # None
    <3>1. PICK k \in Conns : k = cur
      BY <1>a, <2>2 DEF TypeOK, ServerOK
    <3>2. Reads(down[k], down[k])
      BY <1>a, StreamsKept
    <3> QED
      BY <1>g, <1>o, <3>1, <3>2 DEF Others
  <2> QED
    BY <2>1, <2>2
<1>c. ASSUME UNCHANGED mainVars, hpc' = hpc, DownOnlyRead, fin \subseteq fin',
             \A k \in Conns : up'[k].read = up[k].read
      PROVE  CurrentOK'
  <2>1. CASE cur = None
    BY <1>n, <1>c, <2>1 DEF mainVars
  <2>2. CASE cur # None
    <3>1. PICK k \in Conns : k = cur
      BY <1>a, <2>2 DEF TypeOK, ServerOK
    <3> QED
      BY <1>g, <1>c, <3>1 DEF mainVars, DownOnlyRead
  <2> QED
    BY <2>1, <2>2
<1>1. ASSUME NEW c \in Clients, Connect(c) PROVE CurrentOK'
  <2>1. UNCHANGED <<up, down, fin, mpc, cur, line, rooms, hpc, refused>>
    BY <1>1 DEF Connect, streamVars, handlerVars
  <2> QED
    BY <1>a, <2>1
    DEF CurrentOK, ReplySize, LoginSize, CountSize, BUFFER_SIZE
<1>2. ASSUME NEW c \in Clients, Moving(c) PROVE CurrentOK'
  <2>1. fin' = fin
    BY <1>2
    DEF Moving, RecvAcpt, RecvCount, CountTimeout, ClientChooses, ClientTalks,
        RecvLine, RecvReply, ChooseMake, ChooseEnter, RecvTold, SendCommand, streamVars
  <2> QED
    BY <1>a, <1>2, <1>c, <2>1, ClientReads, MovingIsAlive
<1>3. ASSUME NEW c \in Clients, Quit(c) PROVE CurrentOK'
  <2>1. UNCHANGED <<up, down, hpc, mainVars>> /\ fin \subseteq fin'
    BY <1>3 DEF Quit, handlerVars
  <2>2. DownOnlyRead
    BY <1>a, <2>1, StreamsKept DEF DownOnlyRead
  <2> QED
    BY <1>c, <2>1, <2>2
<1>4. CASE Accept
  <2>1. PICK j \in Conns : j = cur'
    BY <1>a, <1>4, AcceptTouches
  <2>2. 1 \in DOMAIN backlog /\ backlog[1] = j
    BY <1>a, <1>4, <2>1, AcceptTouches
  <2>3. /\ up[j].read = 0 /\ down[j] = NoBytes /\ hpc[j] = "none"
    BY <1>a, <2>2 DEF QueueOK
  <2>4. /\ up' = up /\ hpc' = hpc /\ mpc' = "login" /\ Written(j, "acpt", 0)
        /\ "acpt" \in Kinds /\ 0 \in Nat
    BY <1>4, <2>1 DEF Accept, handlerVars, Kinds, Written
  <2>5. /\ down'[j].sent = 5
        /\ down'[j].msgs = down[j].msgs \cup {[kind |-> "acpt", at |-> down[j].sent, val |-> 0]}
    <3>1. down[j].sent = 0
      BY <2>3 DEF NoBytes
    <3> QED
      BY <1>a, <2>4, <3>1, Writes, Sizes
  <2>6. \A p \in down'[j].msgs : p.kind # "count"
    BY <2>3, <2>5 DEF NoBytes
  <2> QED
    BY <2>1, <2>3, <2>4, <2>5, <2>6 DEF CurrentOK, ReplySize
<1>5. ASSUME NEW known \in BOOLEAN, ReadLogin(known) PROVE CurrentOK'
  <2>1. PICK k \in Conns : k = cur
    BY <1>a, <1>5, MainTouches DEF MainSteps
  <2>2. /\ cur' = k /\ mpc = "login" /\ mpc' = "lines" /\ line' = 0 /\ Readable(k)
        /\ UNCHANGED <<fin, rooms, hpc>>
        /\ up' = [up EXCEPT ![k] = Rest(@, 33)]
    BY <1>5, <2>1, Sizes DEF ReadLogin, MainAt, handlerVars
  <2>3. /\ hpc[k] = "none" /\ up[k].read = 0 /\ down[k].sent = 5
        /\ \A p \in down[k].msgs : p.kind # "count"
    BY <1>a, <1>b, <2>1, <2>2, Sizes DEF CurrentOK
  <2>4. ASSUME k \notin fin PROVE up'[k].read = 33
    <3>1. up[k].sent >= 33
      <4>1. up[k].sent # 0
        BY <2>2, <2>3, <2>4 DEF Readable, Empty
      <4>2. CASE choice[k] = None
        BY <1>a, <4>1, <4>2, Sizes DEF UpOK
      <4>3. CASE choice[k] # None
        <5>1. PICK b \in Nat : b = Base(k) /\ b >= 33
          BY Bases
        <5>2. Steps(b, up[k].sent, 1024)
          BY <1>a, <4>3, <5>1, Sizes DEF UpOK
        <5> QED
          BY <1>b, <5>1, <5>2, StepsFrom
      <4> QED
        BY <4>2, <4>3
    <3>2. 33 \in Nat /\ up[k].read + 33 <= up[k].sent
      BY <1>b, <2>3, <3>1
    <3>3. up'[k].read = up[k].read + 33
      BY <1>a, <2>2, <3>2, ServerReads
    <3> QED
      BY <2>3, <3>3
  <2>5. ASSUME k \notin refused'
        PROVE  /\ down'[k].sent = 11
               /\ \A p \in down'[k].msgs :
                    p.kind = "count" => p.at = 5 /\ p.val = Len(rooms)
               /\ \E p \in down'[k].msgs : p.kind = "count" /\ p.at = 5
    <3>1. Written(k, "count", Len(rooms)) /\ "count" \in Kinds
      BY <1>5, <2>1, <2>5 DEF ReadLogin, RoomsTold, Kinds
    <3>2. /\ down'[k].sent = 11
          /\ down'[k].msgs =
               down[k].msgs \cup {[kind |-> "count", at |-> 5, val |-> Len(rooms)]}
      BY <1>a, <1>b, <2>3, <3>1, Writes, Sizes
    <3>3. PICK q : q = [kind |-> "count", at |-> 5, val |-> Len(rooms)]
      OBVIOUS
    <3>4. q.kind = "count" /\ q.at = 5 /\ q.val = Len(rooms)
      BY <3>3
    <3>5. down'[k].msgs = down[k].msgs \cup {q}
      BY <3>2, <3>3
    <3> QED
      BY <2>3, <3>2, <3>4, <3>5
  <2>6. ReplySize + CountSize + BUFFER_SIZE * 0 = 11 /\ LoginSize = 33 /\ ReplySize = 5
    BY Sizes
  <2> QED
    BY <1>b, <2>2, <2>3, <2>4, <2>5, <2>6
    DEF CurrentOK, ReplySize, LoginSize, CountSize, BUFFER_SIZE
<1>6. CASE WriteLine
  <2>1. PICK k \in Conns : k = cur
    BY <1>a, <1>6, MainTouches DEF MainSteps
  <2>2. /\ cur' = k /\ mpc = "lines"
        /\ UNCHANGED <<up, fin, rooms, hpc, refused>>
    BY <1>6, <2>1 DEF WriteLine, MainAt, handlerVars
  <2>3. /\ hpc[k] = "none" /\ (k \notin fin => up[k].read = 33)
    BY <1>a, <1>b, <2>1, <2>2, Sizes DEF CurrentOK
  <2>4. CASE line < Len(rooms)
    <3>1. Written(k, "line", line) /\ line' = line + 1 /\ mpc' = mpc /\ "line" \in Kinds
      BY <1>6, <2>1, <2>4 DEF WriteLine, Kinds
    <3>2. /\ down'[k].sent = down[k].sent + 128 /\ down'[k].read = down[k].read
          /\ down'[k].msgs =
               down[k].msgs \cup {[kind |-> "line", at |-> down[k].sent, val |-> line]}
      BY <1>a, <1>b, <3>1, Writes, Sizes
    <3>3. ASSUME k \notin refused
          PROVE  /\ line' <= Len(rooms)
                 /\ down'[k].sent = 11 + 128 * line'
                 /\ \A p \in down'[k].msgs :
                      p.kind = "count" => p.at = 5 /\ p.val = Len(rooms)
                 /\ down'[k].read <= 5 =>
                      \E p \in down'[k].msgs : p.kind = "count" /\ p.at = 5
      <4>1. /\ down[k].sent = 11 + 128 * line
            /\ \A p \in down[k].msgs :
                 p.kind = "count" => p.at = 5 /\ p.val = Len(rooms)
            /\ down[k].read <= 5 =>
                 \E p \in down[k].msgs : p.kind = "count" /\ p.at = 5
        BY <1>a, <1>b, <2>1, <2>2, <3>3, Sizes DEF CurrentOK
      <4>2. line' <= Len(rooms) /\ down'[k].sent = 11 + 128 * line'
        BY <1>b, <2>4, <3>1, <3>2, <4>1
      <4> QED
        BY <3>2, <4>1, <4>2
    <3>4. ReplySize + CountSize + BUFFER_SIZE * line' = 11 + 128 * line'
      BY <1>b, <3>1, Sizes
    <3> QED
      BY <2>2, <2>3, <3>1, <3>3, <3>4
      DEF CurrentOK, ReplySize, LoginSize, CountSize, BUFFER_SIZE
  <2>5. CASE ~(line < Len(rooms))
    <3>1. mpc' = "choice" /\ UNCHANGED <<down, line>>
      BY <1>6, <2>5 DEF WriteLine
    <3>2. ASSUME k \notin refused
          PROVE  /\ line = Len(rooms)
                 /\ down[k].sent = 11 + 128 * line
                 /\ \A p \in down[k].msgs :
                      p.kind = "count" => p.at = 5 /\ p.val = Len(rooms)
                 /\ down[k].read <= 5 =>
                      \E p \in down[k].msgs : p.kind = "count" /\ p.at = 5
      BY <1>a, <1>b, <2>1, <2>2, <2>5, <3>2, Sizes DEF CurrentOK
    <3>3. ReplySize + CountSize + BUFFER_SIZE * line = 11 + 128 * line
      BY <1>b, Sizes
    <3> QED
      BY <1>b, <2>2, <2>3, <3>1, <3>2, <3>3
      DEF CurrentOK, ReplySize, LoginSize, CountSize, BUFFER_SIZE
  <2> QED
    BY <2>4, <2>5
<1>7. CASE ReadLoginFails \/ ReadMake \/ ReadEnter \/ ReadOther
  BY <1>7, <1>n DEF ReadLoginFails, ReadMake, ReadEnter, ReadOther, MainIsFree
<1>8. ASSUME NEW k \in Conns, HandlerRuns(k) \/ Tell(k) PROVE CurrentOK'
  <2>1. Others(k) /\ hpc[k] # "none" /\ UNCHANGED <<mainVars, fin>>
    BY <1>a, <1>8, HandlerTouches
  <2>2. cur # k
    BY <1>a, <1>b, <2>1 DEF CurrentOK
  <2> QED
    BY <1>o, <2>1, <2>2 DEF mainVars
<1> QED
  BY <1>1, <1>2, <1>3, <1>4, <1>5, <1>6, <1>7, <1>8
  DEF Next, ClientLogsIn, MainRuns, Moving

\* What keeps a client where it is: a step that leaves alone its connection and,
\* while main() is with it, what main() is doing.
LEMMA CalmAlike ==
  ASSUME NEW d \in Clients, NEW k \in Conns, k = Conn(d), Conn(d)' = k, CalmOK(d),
         cpc'[d] = cpc[d], listed'[d] = listed[d], unlisted'[d] = unlisted[d],
         down'[k] = down[k], choice'[k] = choice[k], hpc'[k] = hpc[k],
         Unread(k)' <=> Unread(k), k \in hasty => k \in hasty', k \in refused => k \in refused',
         cur # k \/ UNCHANGED <<mpc, cur, line, rooms>>
  PROVE  CalmOK(d)'
<1> SUFFICES ASSUME Alive(d)', Calm(k)'
             PROVE  CalmOK(d)'
  BY DEF CalmOK, Calm
<1>1. Alive(d) /\ Calm(k)
  BY DEF Alive, Calm
<1>2. /\ cpc[d] = "acpt" => down[k].read = 0
      /\ cpc[d] = "count" => down[k].read = ReplySize
      /\ cpc[d] = "list" =>
           /\ cur = k /\ mpc # "login" /\ listed[d] = Len(rooms)
           /\ \E i \in 0 .. line :
                /\ down[k].read = ReplySize + CountSize + BUFFER_SIZE * i
                /\ i + unlisted[d] >= listed[d]
      /\ cpc[d] \in {"reply", "room"} /\ Unread(k) =>
           /\ cur = k /\ mpc # "login" /\ line = Len(rooms)
           /\ Empty(down[k])
           /\ cpc[d] = "room" => choice[k] = "make"
      /\ cpc[d] = "reply" /\ hpc[k] # "none" => Aligned(down[k], down[k].read + ReplySize)
      /\ cpc[d] = "room" /\ hpc[k] # "none" => Aligned(down[k], down[k].read)
  BY <1>1 DEF CalmOK
<1>3. /\ cpc'[d] = "acpt" => down'[k].read = 0
      /\ cpc'[d] = "count" => down'[k].read = ReplySize
      /\ cpc'[d] = "list" =>
           /\ cur' = k /\ mpc' # "login" /\ listed'[d] = Len(rooms')
           /\ \E i \in 0 .. line' :
                /\ down'[k].read = ReplySize + CountSize + BUFFER_SIZE * i
                /\ i + unlisted'[d] >= listed'[d]
      /\ cpc'[d] \in {"reply", "room"} /\ Unread(k)' =>
           /\ cur' = k /\ mpc' # "login" /\ line' = Len(rooms')
           /\ Empty(down'[k])
           /\ cpc'[d] = "room" => choice'[k] = "make"
      /\ cpc'[d] = "reply" /\ hpc'[k] # "none" => Aligned(down'[k], down'[k].read + ReplySize)
      /\ cpc'[d] = "room" /\ hpc'[k] # "none" => Aligned(down'[k], down'[k].read)
  BY <1>2
<1> QED
  BY <1>3 DEF CalmOK, Unread, Empty, ReplySize, CountSize, BUFFER_SIZE

\* Each read of a client that does not give up takes one message, or of the list
\* of rooms one line or two.
LEMMA CalmMoves ==
  ASSUME IInv, Next, NEW d \in Clients, Moving(d)
  PROVE  CalmOK(d)'
<1>a. /\ TypeOK /\ QueueOK /\ CurrentOK /\ ClientOK(d) /\ LeftOK(d) /\ CalmOK(d)
      /\ \A k \in Conns : DownOK(k) /\ HandlerOK(k)
      /\ cpc \in [Clients -> {"login", "acpt", "count", "list", "reply", "room", "gone"}]
      /\ choice \in [Conns -> {None, "make", "enter"}]
      /\ status = "up"
  BY Movers DEF IInv, TypeOK, ClientsOK
<1>1. PICK k \in Conns : k = Conn(d)
  BY <1>a, MovingIsAlive
<1>2. /\ Alive(d) /\ Conn(d)' = k /\ UNCHANGED mainVars
      /\ hpc' = hpc /\ Reads(down[k], down'[k])
  BY <1>a, <1>1, MovingIsAlive, ClientReads DEF Conn, DownOnlyRead
<1>3. /\ k # None /\ line \in Nat /\ Len(rooms) \in Nat
      /\ down[k].sent \in Nat /\ down[k].read \in Nat /\ down[k].read <= down[k].sent
      /\ (Unread(k)' <=> Unread(k))
  <2>1. down[k] \in Stream /\ Unfinished(down[k])
    BY <1>a, StreamsKept
  <2>2. line \in Nat /\ Len(rooms) \in Nat
    BY <1>a, Roomy DEF TypeOK, ServerOK
  <2>3. Unread(k)' <=> Unread(k)
    BY <1>2 DEF mainVars, Unread
  <2> QED
    BY <2>1, <2>2, <2>3, SessionAssumption DEF Stream, Unfinished, SessionAssumption
<1>4. CASE RecvAcpt(d)
  <2>1. cpc[d] = "acpt" /\ cpc'[d] = "count" /\ refused' = refused /\ RecvOrTimeout(d, 5)
    BY <1>a, <1>2, <1>4, Sizes DEF RecvAcpt, At, mainVars
  <2>2. ASSUME Calm(k)' PROVE down'[k].read = 5
    <3>1. Calm(k)
      BY <1>a, <1>1, <2>1, <2>2, ReceivesOrNot DEF Calm
    <3>2. down[k].read = 0
      BY <1>1, <1>2, <1>a, <2>1, <3>1 DEF CalmOK
    <3>3. /\ ~Empty(down[k])
          /\ down[k].read + 5 <= down[k].sent => down'[k].read = down[k].read + 5
      BY <1>a, <1>1, <2>1, <2>2, ReceivesOrNot DEF Calm
    <3>4. down[k].sent >= 5
      BY <1>a, <3>2, <3>3, Sizes DEF DownOK, Empty
    <3> QED
      BY <1>3, <3>2, <3>3, <3>4
  <2> QED
    BY <1>2, <2>1, <2>2 DEF CalmOK, Calm, ReplySize
<1>5. CASE RecvCount(d)
  <2>1. /\ cpc[d] = "count" /\ cpc'[d] = "list" /\ hasty' = hasty
        /\ listed'[d] = CountIn(down[k]) /\ unlisted'[d] = listed'[d]
        /\ ~Empty(down[k]) /\ Received(k, 6)
    BY <1>a, <1>1, <1>5, Sizes DEF RecvCount, At, TypeOK, ClientsOK
  <2>2. ASSUME Calm(k)'
        PROVE  /\ cur = k /\ mpc # "login" /\ listed'[d] = Len(rooms)
               /\ down'[k].read = 11
    <3>1. Calm(k)
      BY <1>2, <2>1, <2>2 DEF Calm, mainVars
    <3>2. down[k].read = 5
      BY <1>1, <1>2, <1>a, <2>1, <3>1, Sizes DEF CalmOK
    <3>3. down[k].sent # 5
      BY <2>1, <3>2 DEF Empty
    <3>4. Unread(k)
      BY <1>1, <1>a, <2>1, <3>3, Sizes DEF LeftOK
    <3>5. cur = k
      <4>1. down[k] # NoBytes
        BY <3>2 DEF NoBytes
      <4> QED
        BY <1>a, <3>4, <4>1 DEF Unread, QueueOK
    <3>6. mpc # "login" /\ k \notin refused
      BY <1>a, <1>3, <3>1, <3>3, <3>5, Sizes DEF CurrentOK, Calm
    <3>7. /\ down[k].sent = 11 + 128 * line
          /\ \A p \in down[k].msgs :
               p.kind = "count" => p.at = 5 /\ p.val = Len(rooms)
          /\ \E p \in down[k].msgs : p.kind = "count" /\ p.at = 5
      BY <1>a, <1>3, <3>2, <3>5, <3>6, Sizes DEF CurrentOK
    <3>8. First(down[k], "count") # {}
      BY <3>2, <3>7 DEF First
    <3>9. \A p \in First(down[k], "count") : p.val = Len(rooms)
      BY <3>7 DEF First
    <3>10. CountIn(down[k]) = Len(rooms)
      BY <3>8, <3>9 DEF CountIn
    <3>11. 6 \in Nat /\ down[k].read + 6 <= down[k].sent
      BY <1>3, <3>2, <3>7
    <3>12. down'[k].read = down[k].read + 6
      BY <1>a, <2>1, <3>11, Receives
    <3> QED
      BY <2>1, <3>2, <3>5, <3>6, <3>10, <3>12
  <2>3. ASSUME Calm(k)'
        PROVE  \E i \in 0 .. line : /\ down'[k].read = 11 + 128 * i
                                    /\ i + unlisted'[d] >= listed'[d]
    <3>1. /\ 0 \in 0 .. line /\ down'[k].read = 11 + 128 * 0
          /\ 0 + unlisted'[d] >= listed'[d]
      BY <1>3, <2>1, <2>2, <2>3
    <3> QED
      BY <3>1
  <2>4. \A i \in 0 .. line : ReplySize + CountSize + BUFFER_SIZE * i = 11 + 128 * i
    BY Sizes
  <2> QED
    BY <1>2, <2>1, <2>2, <2>3, <2>4
    DEF CalmOK, Calm, mainVars, ReplySize, CountSize, BUFFER_SIZE
<1>6. CASE CountTimeout(d)
  BY <1>a, <1>6 DEF CountTimeout, CalmOK, Alive
<1>l. ASSUME cpc[d] = "list", Calm(k)
      PROVE  /\ cur = k /\ mpc # "login" /\ listed[d] = Len(rooms)
             /\ hpc[k] = "none" /\ line <= Len(rooms)
             /\ down[k].sent = 11 + 128 * line
             /\ \E i \in 0 .. line :
                  /\ down[k].read = 11 + 128 * i /\ i + unlisted[d] >= listed[d]
  <2>1. /\ cur = k /\ mpc # "login" /\ listed[d] = Len(rooms)
        /\ \E i \in 0 .. line :
             /\ down[k].read = ReplySize + CountSize + BUFFER_SIZE * i
             /\ i + unlisted[d] >= listed[d]
    BY <1>a, <1>1, <1>2, <1>l DEF CalmOK
  <2>2. \A i \in 0 .. line : ReplySize + CountSize + BUFFER_SIZE * i = 11 + 128 * i
    BY Sizes
  <2>3. k \notin refused
    BY <1>l DEF Calm
  <2>4. /\ hpc[k] = "none" /\ line <= Len(rooms)
        /\ down[k].sent = ReplySize + CountSize + BUFFER_SIZE * line
    BY <1>a, <1>3, <2>1, <2>3 DEF CurrentOK
  <2>5. line \in 0 .. line
    BY <1>3
  <2> QED
    BY <2>1, <2>2, <2>4, <2>5
<1>u. unlisted[d] \in Nat /\ listed[d] \in Nat
  <2>1. listed[d] \in 0 .. budget.rooms /\ unlisted[d] \in Nat
    BY <1>a DEF TypeOK, ClientsOK
  <2>2. budget.rooms \in Nat
    BY <1>a, Roomy
  <2> QED
    BY <2>1, <2>2
<1>7. CASE RecvLine(d)
  <2>1. /\ cpc[d] = "list" /\ cpc'[d] = "list" /\ refused' = refused
        /\ RecvOrTimeout(d, 256) /\ unlisted[d] > 0
        /\ unlisted'[d] = unlisted[d] - 1 /\ listed'[d] = listed[d]
    <3>1. unlisted' = [unlisted EXCEPT ![d] = @ - 1] /\ unlisted[d] > 0
      BY <1>7 DEF RecvLine
    <3>2. unlisted \in [Clients -> Nat]
      BY <1>a DEF TypeOK, ClientsOK
    <3>3. unlisted'[d] = unlisted[d] - 1
      BY <3>1, <3>2
    <3> QED
      BY <1>2, <1>7, <3>1, <3>3 DEF RecvLine, At, mainVars
  <2>2. ASSUME Calm(k)'
        PROVE  /\ cur = k /\ mpc # "login" /\ listed'[d] = Len(rooms)
               /\ \E i \in 0 .. line : /\ down'[k].read = 11 + 128 * i
                                       /\ i + unlisted'[d] >= listed'[d]
    <3>1. Calm(k)
      BY <1>a, <1>1, <2>1, <2>2, ReceivesOrNot DEF Calm
    <3>2. PICK i \in 0 .. line : /\ down[k].read = 11 + 128 * i
                                 /\ i + unlisted[d] >= listed[d]
      BY <1>l, <2>1, <3>1
    <3>3. /\ ~Empty(down[k])
          /\ down[k].read + 256 <= down[k].sent => down'[k].read = down[k].read + 256
          /\ down[k].read + 256 >= down[k].sent => down'[k].read = down[k].sent
      BY <1>a, <1>1, <2>1, <2>2, ReceivesOrNot DEF Calm
    <3>4. down[k].sent = 11 + 128 * line
      BY <1>l, <2>1, <3>1
    <3>5. i < line
      BY <1>3, <3>2, <3>3, <3>4 DEF Empty
    <3>6. CASE i + 2 <= line
      <4>1. down[k].read + 256 <= down[k].sent
        BY <1>3, <3>2, <3>4, <3>6
      <4>2. i + 2 \in 0 .. line /\ down'[k].read = 11 + 128 * (i + 2)
            /\ (i + 2) + unlisted'[d] >= listed'[d]
        <5>1. i \in Nat /\ i + 2 \in 0 .. line
          BY <1>3, <3>6
        <5>2. down'[k].read = 11 + 128 * (i + 2)
          BY <3>2, <3>3, <4>1, <5>1
        <5>3. (i + 2) + unlisted'[d] >= listed'[d]
          BY <1>u, <2>1, <3>2, <5>1
        <5> QED
          BY <5>1, <5>2, <5>3
      <4> QED
        BY <1>l, <2>1, <3>1, <4>2
    <3>7. CASE ~(i + 2 <= line)
      <4>1. down[k].read + 256 >= down[k].sent
        BY <1>3, <3>2, <3>4, <3>5, <3>7
      <4>2. line \in 0 .. line /\ down'[k].read = 11 + 128 * line
            /\ line + unlisted'[d] >= listed'[d]
        BY <1>3, <1>u, <2>1, <3>2, <3>3, <3>4, <3>5, <4>1
      <4> QED
        BY <1>l, <2>1, <3>1, <4>2
    <3> QED
      BY <3>6, <3>7
  <2>4. \A i \in 0 .. line : ReplySize + CountSize + BUFFER_SIZE * i = 11 + 128 * i
    BY Sizes
  <2> QED
    BY <1>2, <2>1, <2>2, <2>4
    DEF CalmOK, Calm, mainVars, ReplySize, CountSize, BUFFER_SIZE
<1>e. ASSUME cpc[d] = "list", Calm(k), unlisted[d] = 0
      PROVE  line = Len(rooms) /\ Empty(down[k])
  <2>1. PICK i \in 0 .. line : down[k].read = 11 + 128 * i /\ i + unlisted[d] >= listed[d]
    BY <1>e, <1>l
  <2>2. i = line /\ line = Len(rooms)
    BY <1>3, <1>e, <1>l, <1>u, <2>1
  <2> QED
    BY <1>e, <1>l, <2>1, <2>2 DEF Empty
<1>8. CASE ChooseMake(d) \/ \E r \in 0 .. MaxRooms - 1 : ChooseEnter(d, r)
  <2>1. /\ cpc[d] = "list" /\ unlisted[d] = 0 /\ UNCHANGED <<down, hasty>>
        /\ cpc'[d] = "reply" \/ (cpc'[d] = "room" /\ choice'[k] = "make")
    BY <1>a, <1>1, <1>8 DEF ChooseMake, ChooseEnter, At
  <2>2. choice[k] = None
    BY <1>a, <1>1, <2>1 DEF ClientOK
  <2>3. hpc'[k] = "none"
    <3>1. hpc[k] = "none"
      BY <1>a, <2>2 DEF HandlerOK
    <3> QED
      BY <1>2, <3>1
  <2>4. ASSUME Calm(k)'
        PROVE  cur = k /\ mpc # "login" /\ line = Len(rooms) /\ Empty(down[k])
    <3>1. Calm(k)
      BY <1>2, <2>1, <2>4 DEF Calm, mainVars
    <3> QED
      BY <1>e, <1>l, <2>1, <3>1
  <2>5. Empty(down'[k]) <=> Empty(down[k])
    BY <2>1
  <2> QED
    BY <1>2, <2>1, <2>3, <2>4, <2>5 DEF CalmOK, Calm, mainVars, Empty
<1>9. CASE RecvReply(d)
  <2>1. /\ cpc[d] = "reply" /\ cpc'[d] \in {"list", "room"} /\ RecvOrTimeout(d, 5)
        /\ refused' = refused
    BY <1>a, <1>2, <1>9, Sizes DEF RecvReply, At, mainVars
  <2>2. cpc'[d] = "room"
    <3>1. First(down[k], "full") = {}
      BY <1>a DEF First, DownOK
    <3> QED
      BY <1>a, <1>1, <1>9, <3>1 DEF RecvReply
  <2>3. ASSUME Calm(k)' PROVE ~Unread(k)' /\ (hpc'[k] # "none" => Aligned(down'[k], down'[k].read))
    <3>1. Calm(k)
      BY <1>a, <1>1, <2>1, <2>3, ReceivesOrNot DEF Calm
    <3>2. /\ ~Empty(down[k])
          /\ down[k].read + 5 <= down[k].sent => down'[k].read = down[k].read + 5
      BY <1>a, <1>1, <2>1, <2>3, ReceivesOrNot DEF Calm
    <3>3. ~Unread(k)
      BY <1>a, <1>1, <1>2, <2>1, <3>1, <3>2 DEF CalmOK
    <3>4. ASSUME hpc'[k] # "none" PROVE Aligned(down'[k], down'[k].read)
      <4>1. Aligned(down[k], down[k].read + 5)
        BY <1>a, <1>1, <1>2, <2>1, <3>1, <3>4, Sizes DEF CalmOK
      <4>2. down[k].read + 5 <= down[k].sent
        <5>1. Steps(down[k].read + 5, down[k].sent, 1024)
          BY <4>1, Sizes DEF Aligned
        <5>2. down[k].read + 5 \in Nat
          BY <1>3
        <5> QED
          <6>1. PICK a \in Nat, b \in Nat : a = down[k].read + 5 /\ b = down[k].sent
            BY <1>3, <5>2
          <6>2. Steps(a, b, 1024)
            BY <5>1, <6>1
          <6>3. a <= b
            BY <6>2, StepsFrom
          <6> QED
            BY <6>1, <6>3
      <4>3. /\ down'[k].read = down[k].read + 5 /\ down'[k].sent = down[k].sent
            /\ down'[k].msgs \subseteq down[k].msgs
        BY <1>2, <3>2, <4>2 DEF Reads
      <4> QED
        BY <4>1, <4>3 DEF Aligned
    <3> QED
      BY <1>3, <3>3, <3>4
  <2> QED
    BY <1>2, <2>2, <2>3 DEF CalmOK, Calm, Unread
<1>10. CASE RecvTold(d)
  <2>1. /\ cpc[d] = "room" /\ cpc'[d] = "room" /\ ~Empty(down[k]) /\ Received(k, 1024)
        /\ hasty' = hasty /\ refused' = refused
    BY <1>1, <1>2, <1>10, Sizes DEF RecvTold, At, clientVars, mainVars
  <2>2. ASSUME Calm(k)' PROVE ~Unread(k)' /\ (hpc'[k] # "none" => Aligned(down'[k], down'[k].read))
    <3>1. Calm(k)
      BY <2>1, <2>2 DEF Calm
    <3>2. ~Unread(k)
      BY <1>a, <1>1, <1>2, <2>1, <3>1 DEF CalmOK
    <3>3. ASSUME hpc'[k] # "none" PROVE Aligned(down'[k], down'[k].read)
      <4>1. Aligned(down[k], down[k].read)
        BY <1>a, <1>1, <1>2, <2>1, <3>1, <3>3 DEF CalmOK
      <4>2. /\ Steps(down[k].read, down[k].sent, 1024) /\ down[k].read # down[k].sent
        BY <2>1, <4>1, Sizes DEF Aligned, Empty
      <4>3. down[k].read + 1024 \in Nat
        BY <1>3
      <4>4. Steps(down[k].read + 1024, down[k].sent, 1024)
        <5>1. PICK a \in Nat, b \in Nat : a = down[k].read /\ b = down[k].sent
          BY <1>3
        <5>2. Steps(a + 1024, b, 1024)
          BY <4>2, <5>1, StepsFrom
        <5> QED
          BY <5>1, <5>2
      <4>5. down[k].read + 1024 <= down[k].sent
        <5>1. PICK a \in Nat, b \in Nat : a = down[k].read + 1024 /\ b = down[k].sent
          BY <1>3, <4>3
        <5>2. Steps(a, b, 1024)
          BY <4>4, <5>1
        <5>3. a <= b
          BY <5>2, StepsFrom
        <5> QED
          BY <5>1, <5>3
      <4>6. 1024 \in Nat
        OBVIOUS
      <4>7. down'[k].read = down[k].read + 1024
        BY <1>a, <2>1, <4>5, <4>6, Receives
      <4>8. Steps(down'[k].read, down'[k].sent, CommandSize)
        BY <1>2, <4>4, <4>7, Sizes DEF Reads
      <4>9. ASSUME NEW p \in down'[k].msgs, p.kind = "told"
            PROVE  Steps(down'[k].read, p.at, CommandSize)
        <5>1. p \in down[k].msgs /\ p.at + 1024 > down'[k].read
          BY <1>2, <4>9, Sizes DEF Reads
        <5>2. p.at \in Nat
          <6>1. down[k] \in Stream
            BY <1>a, StreamsKept
          <6> QED
            BY <5>1, <6>1 DEF Stream, Message
        <5>3. Steps(down[k].read, p.at, 1024) /\ p.at # down[k].read
          BY <1>3, <4>1, <4>7, <4>9, <5>1, <5>2, Sizes DEF Aligned
        <5>4. Steps(down[k].read + 1024, p.at, 1024)
          <6>1. PICK a \in Nat, b \in Nat : a = down[k].read /\ b = p.at
            BY <1>3, <5>2
          <6>2. Steps(a, b, 1024) /\ b # a
            BY <5>3, <6>1
          <6>3. Steps(a + 1024, b, 1024)
            BY <6>2, StepsFrom
          <6> QED
            BY <6>1, <6>3
        <5> QED
          BY <4>7, <5>4, Sizes
      <4> QED
        BY <4>8, <4>9 DEF Aligned
    <3> QED
      BY <1>3, <3>2, <3>3
  <2> QED
    BY <1>2, <2>1, <2>2 DEF CalmOK, Calm, Unread
<1>11. ASSUME NEW n \in TextLengths, SendCommand(d, n) PROVE CalmOK(d)'
  <2>1. UNCHANGED <<clientVars, down, mainVars, hpc, choice>>
    BY <1>11 DEF SendCommand, handlerVars
  <2> QED
    BY <1>a, <1>1, <1>2, <1>3, <2>1, CalmAlike DEF clientVars, mainVars
<1> QED
  BY <1>4, <1>5, <1>6, <1>7, <1>8, <1>9, <1>10, <1>11 DEF Moving, ClientChooses, ClientTalks

\* main() makes its choice between a new room and one that is there, and leaves.
LEMMA LeavesQueue ==
  ASSUME IInv, NEW k \in Conns, cur = k, cur' = None, backlog' = backlog
  PROVE  ~Unread(k)'
BY SessionAssumption DEF IInv, QueueOK, Unread, SessionAssumption

\* What main() writes to a client that it is with is what the client waits for.
LEMMA CalmServed ==
  ASSUME IInv, Next, MainSteps, NEW d \in Clients, cur = Conn(d), Alive(d)
  PROVE  CalmOK(d)'
<1>a. /\ TypeOK /\ CurrentOK /\ ClientOK(d) /\ CalmOK(d)
      /\ \A k \in Conns : DownOK(k) /\ UpOK(k)
      /\ cpc \in [Clients -> {"login", "acpt", "count", "list", "reply", "room", "gone"}]
      /\ \A n \in {"make", "enter"} : n # None
      /\ status = "up"
  BY Movers, SessionAssumption DEF IInv, TypeOK, ClientsOK, SessionAssumption
<1>1. PICK k \in Conns : k = cur
  BY <1>a, MainTouches
<1>2. /\ k = Conn(d) /\ Conn(d)' = k
      /\ UNCHANGED <<cpc, listed, unlisted, hasty, choice, backlog>>
      /\ k \in refused => k \in refused'
  <2>1. UNCHANGED <<clientVars, choice, backlog>>
    BY <1>a, MainTouches
  <2>2. refused \subseteq refused'
    BY Growth DEF IInv
  <2> QED
    BY <1>1, <2>1, <2>2 DEF clientVars, Conn
<1>3. /\ hpc[k] = "none" /\ Unread(k) /\ k # None
      /\ line \in Nat /\ Len(rooms) \in Nat
      /\ hpc \in [Conns -> {"none", "placed", "read"}]
      /\ down[k].sent \in Nat /\ down[k].read \in Nat
  <2>1. down[k] \in Stream
    BY <1>a, StreamsKept
  <2>2. line \in Nat /\ Len(rooms) \in Nat
    BY <1>a, Roomy DEF TypeOK, ServerOK
  <2> QED
    BY <1>a, <1>1, <2>1, <2>2, SessionAssumption
    DEF Stream, CurrentOK, Unread, TypeOK, ServerOK, SessionAssumption
<1>c. ASSUME Calm(k)'
      PROVE  /\ Calm(k)
             /\ cpc[d] = "acpt" => down[k].read = 0
             /\ cpc[d] = "count" => down[k].read = 5
             /\ cpc[d] = "list" =>
                  /\ mpc # "login" /\ listed[d] = Len(rooms)
                  /\ \E i \in 0 .. line :
                       /\ down[k].read = ReplySize + CountSize + BUFFER_SIZE * i
                       /\ i + unlisted[d] >= listed[d]
             /\ cpc[d] \in {"reply", "room"} =>
                  /\ mpc # "login" /\ line = Len(rooms) /\ Empty(down[k])
                  /\ cpc[d] = "room" => choice[k] = "make"
  <2>1. Calm(k)
    BY <1>2, <1>c DEF Calm
  <2> QED
    BY <1>a, <1>1, <1>2, <1>3, <2>1, Sizes DEF CalmOK
<1>r. ASSUME down'[k].read = down[k].read, mpc = "login", hpc' = hpc
      PROVE  CalmOK(d)'
  <2>1. /\ hpc'[k] = "none" /\ ReplySize = 5
    BY <1>3, <1>r, Sizes
  <2> QED
    BY <1>2, <1>c, <1>r, <2>1 DEF CalmOK, Calm, ReplySize
<1>4. ASSUME NEW known \in BOOLEAN, ReadLogin(known) PROVE CalmOK(d)'
  <2>1. mpc = "login" /\ hpc' = hpc /\ (down' = down \/ Written(k, "count", Len(rooms)))
    BY <1>1, <1>4 DEF ReadLogin, MainAt, RoomsTold, handlerVars
  <2>2. "count" \in Kinds
    BY DEF Kinds
  <2>3. down'[k].read = down[k].read
    BY <1>a, <1>3, <2>1, <2>2, Writes
  <2> QED
    BY <1>r, <2>1, <2>3
<1>5. CASE ReadLoginFails
  BY <1>5, <1>r DEF ReadLoginFails, MainAt, handlerVars
<1>6. CASE WriteLine
  <2>1. /\ mpc = "lines" /\ cur' = k /\ UNCHANGED <<rooms, hpc>> /\ mpc' # "login"
    BY <1>1, <1>6 DEF WriteLine, MainAt, handlerVars
  <2>2. /\ down'[k].read = down[k].read /\ line' \in Nat /\ line <= line'
        /\ line = Len(rooms) => line' = line /\ down' = down
    <3>1. CASE line < Len(rooms)
      <4>1. Written(k, "line", line) /\ "line" \in Kinds /\ line' = line + 1
        BY <1>1, <1>6, <3>1 DEF WriteLine, Kinds
      <4> QED
        BY <1>a, <1>3, <3>1, <4>1, Writes
    <3>2. CASE ~(line < Len(rooms))
      BY <1>3, <1>6, <3>2 DEF WriteLine
    <3> QED
      BY <3>1, <3>2
  <2>3. ASSUME NEW i \in 0 .. line PROVE i \in 0 .. line'
    BY <1>3, <2>2
  <2>4. ASSUME Calm(k)', cpc[d] \in {"reply", "room"}
        PROVE  line' = Len(rooms) /\ Empty(down'[k])
    BY <1>c, <2>2, <2>4 DEF Empty
  <2>5. hpc'[k] = "none"
    BY <1>3, <2>1
  <2>6. ASSUME Calm(k)', cpc[d] = "list"
        PROVE  \E i \in 0 .. line' :
                 /\ down'[k].read = ReplySize + CountSize + BUFFER_SIZE * i
                 /\ i + unlisted[d] >= listed[d]
    BY <1>c, <2>2, <2>3, <2>6
  <2> QED
    BY <1>2, <1>c, <2>1, <2>2, <2>4, <2>5, <2>6, Sizes
    DEF CalmOK, Calm, Empty, ReplySize, CountSize, BUFFER_SIZE
<1>7. CASE ReadMake
  <2>1. choice[k] = "make"
    BY <1>a, <1>1, <1>7, ChoiceRead DEF ReadMake
  <2>2. cpc[d] = "room"
    BY <1>a, <1>2, <2>1 DEF ClientOK, Alive
  <2>3. ~Unread(k)'
    BY <1>1, <1>7, LeavesQueue DEF ReadMake, MainIsFree
  <2>4. ASSUME Calm(k)', hpc'[k] # "none" PROVE Aligned(down'[k], down'[k].read)
    <3>1. down' = down
      BY <1>1, <1>3, <1>7, <2>4 DEF ReadMake, handlerVars
    <3>2. down[k].sent = down[k].read
      BY <1>c, <2>2, <2>4 DEF Empty
    <3>3. Steps(down[k].read, down[k].sent, 1024)
      <4>1. PICK a \in Nat : a = down[k].read /\ a = down[k].sent
        BY <1>3, <3>2
      <4> QED
        BY <4>1, StepsFrom
    <3>4. \A p \in down[k].msgs : p.kind # "told"
      BY <1>a, <1>3 DEF DownOK
    <3> QED
      BY <3>1, <3>3, <3>4, Sizes DEF Aligned
  <2> QED
    BY <1>2, <2>2, <2>3, <2>4 DEF CalmOK, Calm, Unread
<1>8. CASE ReadEnter
  <2>1. choice[k] = "enter"
    <3>1. ReadChoice /\ First(up[cur], "enter") # {}
      BY <1>8 DEF ReadEnter
    <3> QED
      BY <1>a, <1>1, <3>1, ChoiceRead
  <2>2. cpc[d] \in {"reply", "room"}
    BY <1>a, <1>2, <2>1 DEF ClientOK, Alive
  <2>3. ~Unread(k)'
    BY <1>1, <1>8, LeavesQueue DEF ReadEnter, MainIsFree
  <2>4. ASSUME Calm(k)' PROVE cpc[d] = "reply"
    BY <1>c, <2>1, <2>2, <2>4
  <2>5. ASSUME Calm(k)', hpc'[k] # "none" PROVE Aligned(down'[k], down'[k].read + ReplySize)
    <3>1. Written(k, "notf", 0) /\ "notf" \in Kinds /\ 0 \in Nat
      BY <1>1, <1>3, <1>8, <2>5 DEF ReadEnter, handlerVars, Kinds
    <3>2. down[k].sent = down[k].read
      BY <1>c, <2>2, <2>5 DEF Empty
    <3>3. /\ down'[k].sent = down[k].sent + 5 /\ down'[k].read = down[k].read
          /\ down'[k].msgs =
               down[k].msgs \cup {[kind |-> "notf", at |-> down[k].sent, val |-> 0]}
      BY <1>a, <3>1, Writes, Sizes
    <3>4. PICK b \in Nat : b = down'[k].read + ReplySize /\ b = down'[k].sent
      BY <1>3, <3>2, <3>3, Sizes
    <3>5. Steps(b, down'[k].sent, 1024)
      BY <3>4, StepsFrom
    <3>6. \A p \in down'[k].msgs : p.kind # "told"
      BY <1>a, <1>3, <3>3 DEF DownOK
    <3> QED
      BY <3>4, <3>5, <3>6, Sizes DEF Aligned
  <2> QED
    BY <1>2, <2>2, <2>3, <2>4, <2>5 DEF CalmOK, Calm, Unread, ReplySize
<1>9. ~ReadOther
  BY <1>1, <1>2, OthersAreGone
<1> QED
  BY <1>4, <1>5, <1>6, <1>7, <1>8, <1>9 DEF MainSteps

\* All that the threads write has the same length.
LEMMA CalmTold ==
  ASSUME IInv, Next, NEW d \in Clients, Alive(d), NEW k \in Conns, k = Conn(d),
         HandlerRuns(k) \/ Tell(k)
  PROVE  CalmOK(d)'
<1>a. /\ TypeOK /\ CurrentOK /\ QueueOK /\ ClientOK(d) /\ CalmOK(d)
      /\ HandlerOK(k)
      /\ cpc \in [Clients -> {"login", "acpt", "count", "list", "reply", "room", "gone"}]
  BY DEF IInv, TypeOK, ClientsOK
<1>2. /\ Conn(d)' = k /\ hpc[k] # "none" /\ UNCHANGED <<clientVars, mainVars>>
  BY <1>a, HandlerTouches DEF Conn, clientVars
<1>3. cpc[d] \in {"reply", "room"}
  <2>1. choice[k] # None
    BY <1>a, <1>2 DEF HandlerOK
  <2> QED
    BY <1>a, <2>1 DEF ClientOK, Alive
<1>4. ~Unread(k)'
  <2>1. ~Unread(k)
    BY <1>a, <1>2, SessionAssumption DEF CurrentOK, QueueOK, Unread, SessionAssumption
  <2> QED
    BY <1>2, <2>1 DEF Unread, mainVars
<1>5. /\ down[k].sent \in Nat /\ down[k].read \in Nat
  <2>1. down[k] \in Stream
    BY <1>a, StreamsKept
  <2> QED
    BY <2>1 DEF Stream
<1>6. ASSUME NEW b \in Nat, Aligned(down[k], b)
      PROVE  Aligned(down'[k], b) /\ down'[k].read = down[k].read
  <2>1. CASE HandlerRuns(k)
    BY <1>6, <2>1 DEF HandlerRuns, HandlerStart, HandlerRead, streamVars
  <2>2. CASE Tell(k)
    <3>1. Written(k, "told", 0) /\ "told" \in Kinds /\ 0 \in Nat
      BY <2>2 DEF Tell, Kinds
    <3>2. /\ down'[k].sent = down[k].sent + 1024 /\ down'[k].read = down[k].read
          /\ down'[k].msgs =
               down[k].msgs \cup {[kind |-> "told", at |-> down[k].sent, val |-> 0]}
      BY <1>a, <3>1, Writes, Sizes
    <3>3. Steps(b, down[k].sent, 1024)
      BY <1>6, Sizes DEF Aligned
    <3>4. Steps(b, down[k].sent + 1024, 1024)
      BY <1>5, <3>3, StepsFrom
    <3> QED
      BY <1>6, <3>2, <3>3, <3>4, Sizes DEF Aligned
  <2> QED
    BY <2>1, <2>2
<1>7. ASSUME Calm(k)'
      PROVE  /\ cpc[d] = "reply" => Aligned(down'[k], down'[k].read + ReplySize)
             /\ cpc[d] = "room" => Aligned(down'[k], down'[k].read)
  <2>1. Calm(k)
    BY <1>2, <1>7 DEF Calm, clientVars, mainVars
  <2>2. /\ cpc[d] = "reply" => Aligned(down[k], down[k].read + ReplySize)
        /\ cpc[d] = "room" => Aligned(down[k], down[k].read)
    BY <1>a, <1>2, <2>1 DEF CalmOK
  <2>3. down[k].read + ReplySize \in Nat
    BY <1>5, Sizes
  <2> QED
    BY <1>5, <1>6, <2>2, <2>3
<1> QED
  BY <1>2, <1>3, <1>4, <1>7 DEF CalmOK, Calm, Unread, clientVars, ReplySize

LEMMA CalmStep ==
  ASSUME IInv, Next
  PROVE  \A d \in Clients : CalmOK(d)'
<1>a. /\ TypeOK /\ FreshOK /\ QueueOK
      /\ \A c \in Clients : ClientOK(c) /\ CalmOK(c)
      /\ cpc \in [Clients -> {"login", "acpt", "count", "list", "reply", "room", "gone"}]
  BY DEF IInv, TypeOK, ClientsOK
<1> SUFFICES ASSUME NEW d \in Clients, Alive(d)' PROVE CalmOK(d)'
  BY DEF CalmOK, Alive
<1>1. CASE Connect(d)
  <2>1. PICK k \in Conns : k = <<d, try[d] + 1>>
    BY <1>a, <1>1, ConnectTouches
  <2>2. Conn(d)' = k
    BY <1>a, <1>1, <2>1, WaitsFirst
  <2>3. cpc'[d] = "acpt" /\ down' = down
    BY <1>a, <1>1 DEF Connect, streamVars
  <2>4. down[k].read = 0
    <3>1. k[2] > try[k[1]]
      <4>1. try[d] \in Nat
        BY <1>a, Growth
      <4> QED
        BY <2>1, <4>1
    <3> QED
      BY <1>a, <3>1 DEF FreshOK, NoBytes
  <2> QED
    BY <2>2, <2>3, <2>4 DEF CalmOK
<1>2. CASE Moving(d)
  BY <1>2, CalmMoves
<1>3. ASSUME ~Connect(d), ~Moving(d) PROVE CalmOK(d)'
  <2>1. PICK k \in Conns : k = Conn(d) /\ Conn(d)' = k
    BY <1>a, <1>3, Stays
  <2>2. /\ Alive(d) /\ cpc'[d] = cpc[d]
        /\ hasty \subseteq hasty' /\ refused \subseteq refused'
        /\ \A j \in Conns : j[1] # d => j # k
    BY <1>a, <1>3, <2>1, Stays, Growth
  <2>3. k # None
    BY SessionAssumption DEF SessionAssumption
  <2>g. ASSUME listed'[d] = listed[d], unlisted'[d] = unlisted[d],
               down'[k] = down[k], choice'[k] = choice[k], hpc'[k] = hpc[k],
               Unread(k)' <=> Unread(k), cur # k \/ UNCHANGED <<mpc, cur, line, rooms>>
        PROVE  CalmOK(d)'
    BY <1>a, <2>1, <2>2, <2>g, CalmAlike
  <2>4. ASSUME NEW c \in Clients, Connect(c) PROVE CalmOK(d)'
    <3>1. PICK j \in Conns : j = <<c, try[c] + 1>>
      BY <1>a, <2>4, ConnectTouches
    <3>2. k # j /\ Others(j)
      <4>1. j[1] = c /\ c # d
        BY <1>3, <2>4, <3>1
      <4> QED
        BY <1>a, <2>2, <2>4, <3>1, <4>1, ConnectTouches
    <3>3. UNCHANGED <<listed, unlisted, mpc, cur, line, rooms>>
      BY <2>4 DEF Connect
    <3> QED
      BY <2>g, <3>2, <3>3 DEF Others
  <2>5. ASSUME NEW c \in Clients, Moving(c) PROVE CalmOK(d)'
    <3>1. c # d
      BY <1>3, <2>5
    <3>2. PICK j \in Conns : j = Conn(c) /\ j[1] = c
      BY <1>a, <2>5, MovingIsAlive, Connected
    <3>3. k # j /\ Others(j) /\ UNCHANGED mainVars
      BY <1>a, <2>2, <2>5, <3>1, <3>2, ClientTouches, MovingIsAlive
    <3>4. listed'[d] = listed[d] /\ unlisted'[d] = unlisted[d]
      <4>1. listed \in [Clients -> 0 .. budget.rooms] /\ unlisted \in [Clients -> Nat]
        BY <1>a DEF TypeOK, ClientsOK
      <4>2. CASE RecvCount(c)
        BY <3>1, <4>1, <4>2 DEF RecvCount
      <4>3. CASE RecvLine(c)
        BY <3>1, <4>1, <4>3 DEF RecvLine
      <4> QED
        BY <2>5, <4>2, <4>3
        DEF Moving, RecvAcpt, CountTimeout, ClientChooses, ClientTalks, RecvReply,
            ChooseMake, ChooseEnter, RecvTold, SendCommand, clientVars
    <3> QED
      BY <2>g, <3>3, <3>4 DEF Others, mainVars
  <2>6. ASSUME NEW c \in Clients, Quit(c) PROVE CalmOK(d)'
    <3>1. UNCHANGED <<listed, unlisted, down, choice, hpc, mainVars>>
      BY <2>6 DEF Quit, handlerVars
    <3>2. Unread(k)' <=> Unread(k)
      BY <3>1 DEF Unread, mainVars
    <3> QED
      BY <2>g, <3>1, <3>2 DEF mainVars
  <2>7. CASE Accept
    <3>1. CASE k # cur'
      <4>1. Others(cur') /\ cur = None /\ cur' \in Conns
        BY <1>a, <2>7, AcceptTouches
      <4>2. UNCHANGED <<listed, unlisted>>
        BY <2>7 DEF Accept, clientVars
      <4> QED
        BY <2>3, <2>g, <3>1, <4>1, <4>2 DEF Others
    <3>2. CASE k = cur'
      <4>1. /\ 1 \in DOMAIN backlog /\ backlog[1] = k /\ cur = None
        BY <1>a, <2>7, <3>2, AcceptTouches
      <4>2. Unread(k) /\ down[k] = NoBytes
        BY <1>a, <4>1 DEF Unread, QueueOK
      <4>3. /\ Written(k, "acpt", 0) /\ "acpt" \in Kinds /\ 0 \in Nat
            /\ hasty' = hasty /\ refused' = refused
        BY <2>7, <3>2 DEF Accept, clientVars, Kinds, Written
      <4>4. down'[k].read = down[k].read
        BY <1>a, <4>3, Writes
      <4>5. down'[k].read = 0 /\ down[k].read = 0 /\ ReplySize = 5
        BY <4>2, <4>4, Sizes DEF NoBytes
      <4>6. ASSUME Calm(k)' PROVE cpc[d] = "acpt"
        <5>1. Calm(k)
          BY <4>3, <4>6 DEF Calm
        <5>2. cpc[d] \in {"acpt", "count", "list", "reply", "room"}
          BY <1>a, <2>2 DEF Alive
        <5>3. cpc[d] # "count"
          BY <1>a, <2>1, <2>2, <4>5, <5>1 DEF CalmOK
        <5>4. cpc[d] # "list" /\ cpc[d] \notin {"reply", "room"}
          BY <1>a, <2>1, <2>2, <2>3, <4>1, <4>2, <5>1 DEF CalmOK
        <5> QED
          BY <5>2, <5>3, <5>4
      <4> QED
        BY <2>1, <2>2, <4>5, <4>6 DEF CalmOK, Calm
    <3> QED
      BY <3>1, <3>2
  <2>8. CASE MainSteps
    <3>1. CASE k # cur
      <4>1. Others(cur) /\ UNCHANGED <<listed, unlisted>>
        BY <1>a, <2>8, MainTouches DEF clientVars
      <4> QED
        BY <2>g, <3>1, <4>1 DEF Others
    <3>2. CASE k = cur
      BY <2>1, <2>2, <2>8, <3>2, CalmServed
    <3> QED
      BY <3>1, <3>2
  <2>9. ASSUME NEW j \in Conns, HandlerRuns(j) \/ Tell(j) PROVE CalmOK(d)'
    <3>1. CASE k # j
      <4>1. Others(j) /\ UNCHANGED <<clientVars, mainVars>>
        BY <1>a, <2>9, HandlerTouches
      <4> QED
        BY <2>g, <3>1, <4>1 DEF Others, clientVars, mainVars
    <3>2. CASE k = j
      BY <2>1, <2>2, <2>9, <3>2, CalmTold
    <3> QED
      BY <3>1, <3>2
  <2> QED
    BY <2>4, <2>5, <2>6, <2>7, <2>8, <2>9
    DEF Next, ClientLogsIn, MainRuns, MainSteps, Moving
<1> QED
  BY <1>1, <1>2, <1>3

\* What a client in its room is told begins where it reads, if no read gave up.
LEMMA InStepStep ==
  ASSUME IInv, Next
  PROVE  ClientInStep'
<1>a. /\ TypeOK /\ ClientInStep
      /\ \A c \in Clients : ClientOK(c) /\ CalmOK(c)
      /\ \A k \in Conns : DownOK(k)
      /\ missed \in [Conns -> BOOLEAN]
  BY DEF IInv, TypeOK, ClientsOK
<1>b. hasty \subseteq hasty' /\ refused \subseteq refused'
  BY <1>a, Growth
<1>1. ASSUME NEW c \in Clients, RecvTold(c) PROVE ClientInStep'
  <2>1. PICK k \in Conns : k = Conn(c) /\ Alive(c)
    BY <1>a, <1>1, MovingIsAlive DEF Moving, ClientTalks
  <2>2. /\ cpc[c] = "room" /\ ~Empty(down[k])
        /\ missed' = [missed EXCEPT ![k] = @ \/ Skipped(down[k], 1024, "told") # {}]
    BY <1>1, <2>1, Sizes DEF RecvTold, At
  <2>3. /\ down[k].sent \in Nat /\ down[k].read \in Nat
        /\ down[k].read # down[k].sent
        /\ \A p \in down[k].msgs : p.at \in Nat
    <3>1. down[k] \in Stream
      BY <1>a, StreamsKept
    <3> QED
      BY <2>2, <3>1 DEF Stream, Message, Empty
  <2>4. ASSUME Calm(k) PROVE Skipped(down[k], 1024, "told") = {}
    <3>1. CASE hpc[k] = "none"
      BY <1>a, <3>1 DEF Skipped, DownOK
    <3>2. CASE hpc[k] # "none"
      <4>1. Aligned(down[k], down[k].read)
        BY <1>a, <2>1, <2>2, <2>4, <3>2 DEF CalmOK
      <4>2. ASSUME NEW p \in down[k].msgs, p.kind = "told", p.at > down[k].read
            PROVE  p.at >= down[k].read + 1024
        <5>1. PICK a \in Nat, b \in Nat : a = down[k].read /\ b = p.at
          BY <2>3
        <5>2. Steps(a, b, 1024) /\ b # a
          BY <4>1, <4>2, <5>1, Sizes DEF Aligned
        <5>3. Steps(a + 1024, b, 1024) /\ a + 1024 \in Nat
          BY <5>2, StepsFrom
        <5>4. a + 1024 <= b
          BY <5>3, StepsFrom
        <5> QED
          BY <5>1, <5>4
      <4>3. ReadTo(down[k], 1024) <= down[k].read + 1024
        BY <2>3 DEF ReadTo
      <4>4. ReadTo(down[k], 1024) \in Nat
        BY <2>3 DEF ReadTo
      <4>5. ASSUME NEW p \in down[k].msgs, p.kind = "told", p.at > down[k].read,
                   p.at < ReadTo(down[k], 1024)
            PROVE  FALSE
        BY <2>3, <4>2, <4>3, <4>4, <4>5
      <4> QED
        BY <4>5 DEF Skipped
    <3> QED
      BY <3>1, <3>2
  <2>5. ASSUME NEW j \in Conns, missed'[j] PROVE j \in hasty' \cup refused'
    <3>1. CASE missed[j]
      BY <1>a, <1>b, <3>1 DEF ClientInStep
    <3>2. CASE ~missed[j]
      <4>1. j = k /\ Skipped(down[k], 1024, "told") # {}
        BY <1>a, <2>2, <2>5, <3>2
      <4>2. ~Calm(k)
        BY <2>4, <4>1
      <4> QED
        BY <1>b, <4>1, <4>2 DEF Calm
    <3> QED
      BY <3>1, <3>2
  <2> QED
    BY <2>5 DEF ClientInStep
<1>2. CASE missed' = missed
  BY <1>a, <1>b, <1>2 DEF ClientInStep
<1> QED
  BY <1>1, <1>2, Movers

-----------------------------------------------------------------------------
(* IInv is inductive.                                                      *)
LEMMA Starts ==
  ASSUME Init
  PROVE  IInv
<1>i. /\ cpc = [c \in Clients |-> "login"] /\ try = [c \in Clients |-> 0]
      /\ listed = [c \in Clients |-> 0] /\ unlisted = [c \in Clients |-> 0]
      /\ hasty = {} /\ fin = {} /\ backlog = <<>>
      /\ up = [k \in Conns |-> NoBytes] /\ down = [k \in Conns |-> NoBytes]
      /\ mpc = "accept" /\ cur = None /\ line = 0 /\ rooms = <<>>
      /\ mutex = "free" /\ status = "up" /\ failures = 0 /\ refused = {}
      /\ hpc = [k \in Conns |-> "none"]
      /\ drained = {} /\ swallowed = [k \in Conns |-> {}] /\ phantom = {}
      /\ budget \in Budgets
      /\ longest = [k \in Conns |-> 0] /\ missed = [k \in Conns |-> FALSE]
      /\ choice = [k \in Conns |-> None]
  BY DEF Init
<1>b. /\ Limits(budget) /\ MaxAttempts \in Nat /\ BACKLOG \in Nat
      /\ budget.rooms \in Nat \ {0} /\ budget.failures \in Nat
      /\ \A k \in Conns : k # None
  BY <1>i, SessionAssumption DEF SessionAssumption, Limits
<1>n. /\ NoBytes \in Stream /\ Unfinished(NoBytes)
      /\ NoBytes.sent = 0 /\ NoBytes.read = 0 /\ NoBytes.msgs = {}
  BY DEF NoBytes, Stream, Unfinished
<1>e. Len(rooms) = 0 /\ Len(backlog) = 0 /\ DOMAIN backlog = {}
  BY <1>i
<1>1. TypeOK
  <2>1. ClientsOK
    BY <1>i, <1>b, <1>n DEF ClientsOK
  <2>2. ServerOK
    <3>1. backlog \in Seq(Conns) /\ rooms \in Seq(1 .. budget.places)
      BY <1>i
    <3> QED
      BY <1>i, <1>b, <1>e, <3>1 DEF ServerOK
  <2> QED
    BY <2>1, <2>2 DEF TypeOK
<1>2. FreshOK /\ QueueOK /\ CurrentOK /\ GoneOK
  <2>1. \A k \in Conns : ~Unread(k)
    BY <1>i, <1>b, <1>e DEF Unread
  <2> QED
    BY <1>i, <1>e, <2>1 DEF FreshOK, QueueOK, CurrentOK, GoneOK
<1>3. ListedOK
  <2>1. \A c \in Clients : listed[c] = 0
    BY <1>i
  <2>2. 0 <= Len(rooms)
    BY <1>e
  <2> QED
    BY <2>1, <2>2 DEF ListedOK
<1>4. ASSUME NEW c \in Clients
      PROVE  ClientOK(c) /\ ServedOK(c) /\ LeftOK(c) /\ CalmOK(c)
  BY <1>i DEF ClientOK, ServedOK, LeftOK, CalmOK, Alive
<1>5. ASSUME NEW k \in Conns
      PROVE  UpOK(k) /\ ChoiceOK(k) /\ HandlerOK(k) /\ DownOK(k)
  <2>1. up[k] = NoBytes /\ down[k] = NoBytes /\ choice[k] = None /\ hpc[k] = "none"
    BY <1>i
  <2> QED
    BY <1>i, <1>n, <2>1 DEF UpOK, ChoiceOK, HandlerOK, DownOK
<1>6. PhantomsAreLong /\ ClientInStep
  BY <1>i DEF PhantomsAreLong, ClientInStep
<1> QED
  BY <1>1, <1>2, <1>3, <1>4, <1>5, <1>6 DEF IInv

LEMMA Stutters ==
  ASSUME IInv, UNCHANGED vars
  PROVE  IInv'
<1>1. /\ UNCHANGED <<cpc, try, listed, unlisted, hasty, up, down, fin, backlog, mpc, cur,
                     line, rooms, mutex, status, failures, refused>>
      /\ UNCHANGED <<hpc, drained, swallowed, phantom, budget, longest, missed, choice>>
  BY DEF vars, clientVars, streamVars, mainVars, handlerVars, talkVars
<1>2. TypeOK'
  BY <1>1 DEF IInv, TypeOK, ClientsOK, ServerOK
<1>3. FreshOK' /\ QueueOK' /\ GoneOK' /\ ListedOK'
  BY <1>1 DEF IInv, FreshOK, QueueOK, GoneOK, ListedOK, Unread, NoBytes
<1>4. CurrentOK'
  BY <1>1 DEF IInv, CurrentOK, ReplySize, LoginSize, CountSize, BUFFER_SIZE
<1>5. ASSUME NEW c \in Clients
      PROVE  ClientOK(c)' /\ ServedOK(c)' /\ LeftOK(c)' /\ CalmOK(c)'
  <2>1. ClientOK(c) /\ ServedOK(c) /\ LeftOK(c) /\ CalmOK(c)
    BY DEF IInv
  <2>2. (ClientOK(c) /\ ServedOK(c) /\ LeftOK(c))'
    BY <1>1, <2>1 DEF ClientOK, ServedOK, LeftOK, Alive, Conn, Unread, LoginSize, ReplySize
  <2>3. CalmOK(c)'
    BY <1>1, <2>1
    DEF CalmOK, Alive, Calm, Conn, Unread, Empty, ReplySize, CountSize, BUFFER_SIZE
  <2> QED
    BY <2>2, <2>3
<1>6. ASSUME NEW k \in Conns
      PROVE  UpOK(k)' /\ ChoiceOK(k)' /\ HandlerOK(k)' /\ DownOK(k)'
  <2>1. UpOK(k) /\ ChoiceOK(k) /\ HandlerOK(k) /\ DownOK(k)
    BY DEF IInv
  <2>2. Base(k)' = Base(k)
    BY <1>1, Bases
  <2>3. UpOK(k)'
    BY <1>1, <2>1, <2>2 DEF UpOK, UpMessageOK, LoginSize, CommandSize
  <2>4. ChoiceOK(k)' /\ DownOK(k)'
    BY <1>1, <2>1 DEF ChoiceOK, DownOK, LoginSize, ReplySize
  <2>5. HandlerOK(k)'
    BY <1>1, <2>1, <2>2
    DEF HandlerOK, InStep, TenEarly, LoginSize, ChoiceSize, BUFFER_SIZE
  <2> QED
    BY <2>3, <2>4, <2>5
<1>7. PhantomsAreLong' /\ ClientInStep'
  BY <1>1 DEF IInv, PhantomsAreLong, ClientInStep, BUFFER_SIZE, EnterSize, ChoiceSize
<1> QED
  BY <1>2, <1>3, <1>4, <1>5, <1>6, <1>7 DEF IInv

LEMMA Inductive ==
  ASSUME IInv, [Next]_vars
  PROVE  IInv'
<1>1. ASSUME Next PROVE IInv'
  BY <1>1, TypeStep, FreshStep, QueueStep, CurrentStep, GoneStep, ListedStep, ClientStep,
     ServedStep, LeftStep, CalmStep, UpStep, ChoiceStep, HandlerStep, DownStep,
     PhantomsStep, InStepStep
  DEF IInv
<1> QED
  BY <1>1, Stutters

\* A thread that has emptied the stream, or whose client made its room, reads no
\* command but from its first byte.
LEMMA NoneSwallowed ==
  ASSUME IInv, Next, NEW k \in Conns, k \in drained \/ choice[k] = "make"
  PROVE  swallowed'[k] = swallowed[k]
<1>a. /\ TypeOK /\ UpOK(k) /\ HandlerOK(k) /\ swallowed \in [Conns -> SUBSET Nat]
  BY DEF IInv, TypeOK, ServerOK
<1>1. ASSUME NEW j \in Conns, HandlerRead(j), j # k PROVE swallowed'[k] = swallowed[k]
  BY <1>a, <1>1 DEF HandlerRead
<1>2. CASE HandlerRead(k)
  <2>1. /\ hpc[k] # "none"
        /\ swallowed' = [swallowed EXCEPT ![k] = @ \cup Skipped(up[k], 128, "command")]
    BY <1>2, Sizes DEF HandlerRead
  <2>2. PICK b \in Nat : b = Base(k)
    BY Bases
  <2>3. /\ up[k].sent \in Nat /\ up[k].read \in Nat
        /\ \A p \in up[k].msgs : p.at \in Nat
    <3>1. up[k] \in Stream
      BY <1>a, StreamsKept
    <3> QED
      BY <3>1 DEF Stream, Message
  <2>4. choice[k] \in {"make", "enter"} /\ InStep(k)
    <3>1. choice[k] # None /\ (InStep(k) \/ TenEarly(k))
      BY <1>a, <2>1 DEF HandlerOK
    <3>2. ~TenEarly(k)
      BY DEF TenEarly
    <3> QED
      BY <1>a, <3>1, <3>2 DEF TypeOK, ClientsOK
  <2>5. Steps(b, up[k].read, 128)
    BY <2>2, <2>4, Sizes DEF InStep
  <2>6. ReadTo(up[k], 128) \in Nat /\ ReadTo(up[k], 128) <= up[k].read + 128
    BY <2>3 DEF ReadTo
  <2>7. ASSUME NEW p \in up[k].msgs, p.kind = "command", p.at > up[k].read,
               p.at < ReadTo(up[k], 128)
        PROVE  FALSE
    <3>1. Steps(b, p.at, 1024)
      BY <1>a, <2>2, <2>4, <2>7, Sizes DEF UpOK, UpMessageOK
    <3>2. PICK r \in Nat, t \in Nat : r = up[k].read /\ t = p.at
      BY <2>3
    <3>3. r < t => t >= r + 128
      BY <2>5, <3>1, <3>2, StepsApart
    <3> QED
      BY <2>6, <2>7, <3>2, <3>3
  <2>8. Skipped(up[k], 128, "command") = {}
    BY <2>7 DEF Skipped
  <2> QED
    BY <1>a, <2>1, <2>8
<1> QED
  BY <1>1, <1>2, Movers

-----------------------------------------------------------------------------
\* The invariant of SessionInductive holds of every behaviour.
THEOREM Invariance == Spec => []IInv
<1>1. Init => IInv
  BY Starts
<1>2. IInv /\ [Next]_vars => IInv'
  BY Inductive
<1> QED
  BY <1>1, <1>2, PTL DEF Spec

\* Every variable keeps to the values that the code can store in it, and no side
\* reads a message beyond its end.
THEOREM TypeCorrect == Spec => []TypeOK
<1>1. IInv => TypeOK
  BY DEF IInv
<1> QED
  BY <1>1, Invariance, PTL

\* A client that shows a room is a member of one as soon as main() has read its
\* choice, whatever it took for a count or an answer, unless the rooms have run out
\* or MySQL has failed at its login.
THEOREM PlacesKept == Spec => []InRoomIsPlaced
<1>1. IInv => InRoomIsPlaced
  BY DEF IInv, ServedOK, InRoomIsPlaced, Alive
<1> QED
  BY <1>1, Invariance, PTL

\* The thread of a member takes text for a command only from the 128th character
\* on, or from the 118th on of a client that entered a room that was there.
THEOREM PhantomsBounded == Spec => []PhantomsAreLong
<1>1. IInv => PhantomsAreLong
  BY DEF IInv
<1> QED
  BY <1>1, Invariance, PTL

\* The reads of a client stay in step with the server, unless one gave up before
\* its answer came or its login was answered without a count.
THEOREM ReadsInStep == Spec => []ClientInStep
<1>1. IInv => ClientInStep
  BY DEF IInv
<1> QED
  BY <1>1, Invariance, PTL

\* Once its thread has emptied the stream, no command of a client is swallowed any
\* more; of a client that made its room none ever is.
THEOREM CommandsKept == Spec => InStepOnceDrained
<1>1. IInv /\ [Next]_vars =>
        [\A k \in Conns : k \in drained \/ choice[k] = "make"
           => swallowed'[k] = swallowed[k]]_vars
  BY NoneSwallowed
<1> QED
  BY <1>1, Invariance, PTL DEF Spec, InStepOnceDrained

=============================================================================

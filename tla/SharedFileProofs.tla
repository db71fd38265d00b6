-------------------------- MODULE SharedFileProofs --------------------------
(***************************************************************************)
(* Proofs about SharedFile, for every number of members, slots, messages   *)
(* and texts.  First what replies do to an edit box, then one lemma per    *)
(* part of IInv (SharedFileInductive); the theorems are at the end.        *)
(***************************************************************************)
EXTENDS SharedFileInductive, SequenceTheorems, FiniteSetTheorems, TLAPS

\* What a message is: its kind, and where the texts are.
LEMMA MessageKinds ==
  /\ \A v \in Verdicts : Verdict(v) \in Messages /\ Verdict(v).kind = v
  /\ \A t \in Seq(Chars) :
       Msg("7", t) \in Messages \cap Requests /\ Msg("7", t).kind = "7"
  /\ \A msg \in Messages : msg.kind = "7" => msg.text \in Seq(Chars)
  /\ \A msg \in Requests : msg.kind = "7" => msg \in Messages
  /\ Verdict("5") \in Requests
BY DEF Verdicts, Verdict, Msg, Messages, Requests

\* A message that is not decisive may be added at the end of a stream.
LEMMA OpenAfterAppend ==
  ASSUME NEW shut \in BOOLEAN, NEW s \in Seq(Messages), NEW msg \in Messages
  PROVE  OpenAfter(shut, Append(s, msg)) <=>
           IF Decisive(msg) THEN msg.kind = "5TRUE" ELSE OpenAfter(shut, s)
<1> DEFINE t == Append(s, msg)
<1>1. /\ Len(s) \in Nat /\ DOMAIN s = 1 .. Len(s)
      /\ t \in Seq(Messages) /\ Len(t) = Len(s) + 1
      /\ \A i \in 1 .. Len(s) : t[i] = s[i]
      /\ t[Len(s) + 1] = msg
  BY AppendProperties, LenProperties
<1>2. DOMAIN t = 1 .. Len(s) + 1
  BY <1>1, LenProperties
<1> HIDE DEF t
<1>3. CASE Decisive(msg)
  <2>1. ASSUME OpenAfter(shut, t)
        PROVE  msg.kind = "5TRUE"
    BY <1>1, <1>2, <1>3, <2>1 DEF OpenAfter
  <2>2. ASSUME msg.kind = "5TRUE"
        PROVE  OpenAfter(shut, t)
    BY <1>1, <1>2, <2>2 DEF OpenAfter
  <2> QED
    BY <1>3, <2>1, <2>2 DEF t
<1>4. CASE ~Decisive(msg)
  <2>1. msg.kind # "5TRUE"
    BY <1>4 DEF Decisive
  <2>2. ASSUME OpenAfter(shut, t)
        PROVE  OpenAfter(shut, s)
    BY <1>1, <1>2, <2>1, <2>2 DEF OpenAfter
  <2>3. ASSUME OpenAfter(shut, s)
        PROVE  OpenAfter(shut, t)
    BY <1>1, <1>2, <1>4, <2>3 DEF OpenAfter
  <2> QED
    BY <1>4, <2>2, <2>3 DEF t
<1> QED
  BY <1>3, <1>4

\* Reading the first message of a stream does not change where it leads.
LEMMA OpenAfterReceive ==
  ASSUME NEW shut \in BOOLEAN, NEW s \in Seq(Messages), s # <<>>,
         NEW now \in BOOLEAN,
         Head(s).kind = "5TRUE" => ~now,
         Head(s).kind = "6TRUE" => now,
         ~Decisive(Head(s)) => now = shut
  PROVE  OpenAfter(now, Tail(s)) <=> OpenAfter(shut, s)
<1> DEFINE t == Tail(s)
<1>1. /\ Len(s) \in Nat \ {0} /\ DOMAIN s = 1 .. Len(s)
      /\ t \in Seq(Messages) /\ Len(t) = Len(s) - 1
      /\ \A i \in 1 .. Len(t) : t[i] = s[i + 1]
      /\ Head(s) = s[1]
  BY HeadTailProperties, LenProperties, EmptySeq
<1>2. DOMAIN t = 1 .. Len(s) - 1
  BY <1>1, LenProperties
<1> HIDE DEF t
<1>3. \A j \in DOMAIN s : j > 1 => j - 1 \in DOMAIN t /\ t[j - 1] = s[j]
  BY <1>1, <1>2
<1>4. \A i \in DOMAIN t : i + 1 \in DOMAIN s /\ s[i + 1] = t[i]
  BY <1>1, <1>2
<1>5. 1 \in DOMAIN s /\ DOMAIN s \subseteq Nat /\ DOMAIN t \subseteq Nat
      /\ \A j \in DOMAIN s : j = 1 \/ j > 1
  BY <1>1, <1>2
<1>6. ASSUME OpenAfter(now, t)
      PROVE  OpenAfter(shut, s)
  <2>1. CASE \E i \in DOMAIN t : /\ t[i].kind = "5TRUE"
                                 /\ \A j \in DOMAIN t : j > i => ~Decisive(t[j])
    <3>1. PICK i \in DOMAIN t : /\ t[i].kind = "5TRUE"
                                /\ \A j \in DOMAIN t : j > i => ~Decisive(t[j])
      BY <2>1
    <3>2. \A j \in DOMAIN s : j > i + 1 => ~Decisive(s[j])
      <4>1. ASSUME NEW j \in DOMAIN s, j > i + 1
            PROVE  ~Decisive(s[j])
        <5>1. j - 1 \in DOMAIN t /\ t[j - 1] = s[j] /\ j - 1 > i
          BY <1>3, <1>5, <3>1, <4>1
        <5> QED
          BY <3>1, <5>1
      <4> QED
        BY <4>1
    <3> QED
      BY <1>4, <3>1, <3>2 DEF OpenAfter
  <2>2. CASE ~now /\ \A i \in DOMAIN t : ~Decisive(t[i])
    <3>1. \A j \in DOMAIN s : j > 1 => ~Decisive(s[j])
      BY <1>3, <2>2
    <3>2. CASE Head(s).kind = "5TRUE"
      BY <1>1, <1>5, <3>1, <3>2 DEF OpenAfter
    <3>3. CASE ~Decisive(Head(s))
      BY <1>1, <1>5, <2>2, <3>1, <3>3 DEF OpenAfter
    <3> QED
      BY <2>2, <3>2, <3>3 DEF Decisive
  <2> QED
    BY <1>6, <2>1, <2>2 DEF OpenAfter
<1>7. ASSUME OpenAfter(shut, s)
      PROVE  OpenAfter(now, t)
  <2>1. CASE \E i \in DOMAIN s : /\ s[i].kind = "5TRUE"
                                 /\ \A j \in DOMAIN s : j > i => ~Decisive(s[j])
    <3>1. PICK i \in DOMAIN s : /\ s[i].kind = "5TRUE"
                                /\ \A j \in DOMAIN s : j > i => ~Decisive(s[j])
      BY <2>1
    <3>2. CASE i = 1
      <4>1. \A j \in DOMAIN t : ~Decisive(t[j])
        <5>1. ASSUME NEW j \in DOMAIN t
              PROVE  ~Decisive(t[j])
          <6>1. j + 1 \in DOMAIN s /\ s[j + 1] = t[j] /\ j + 1 > i
            BY <1>1, <1>2, <1>4, <3>2
          <6> QED
            BY <3>1, <6>1
        <5> QED
          BY <5>1
      <4> QED
        BY <1>1, <3>1, <3>2, <4>1 DEF OpenAfter
    <3>3. CASE i > 1
      <4>1. i - 1 \in DOMAIN t /\ t[i - 1].kind = "5TRUE"
        BY <1>3, <3>1, <3>3
      <4>2. \A j \in DOMAIN t : j > i - 1 => ~Decisive(t[j])
        <5>1. ASSUME NEW j \in DOMAIN t, j > i - 1
              PROVE  ~Decisive(t[j])
          <6>1. j + 1 \in DOMAIN s /\ s[j + 1] = t[j] /\ j + 1 > i
            BY <1>1, <1>2, <1>4, <5>1
          <6> QED
            BY <3>1, <6>1
        <5> QED
          BY <5>1
      <4> QED
        BY <4>1, <4>2 DEF OpenAfter
    <3> QED
      BY <1>5, <3>2, <3>3
  <2>2. CASE ~shut /\ \A i \in DOMAIN s : ~Decisive(s[i])
    <3>1. ~now
      BY <1>1, <1>5, <2>2
    <3>2. \A i \in DOMAIN t : ~Decisive(t[i])
      BY <1>4, <2>2
    <3> QED
      BY <3>1, <3>2 DEF OpenAfter
  <2> QED
    BY <1>7, <2>1, <2>2 DEF OpenAfter
<1> QED
  BY <1>6, <1>7 DEF t

\* Append() and Overwrite() keep to messages and characters.
LEMMA OverwriteType ==
  ASSUME NEW old \in Seq(Chars), NEW at \in 0 .. Len(old), NEW new \in Seq(Chars)
  PROVE  /\ Overwrite(old, at, new) \in Seq(Chars)
         /\ at + Len(new) \in 0 .. Len(Overwrite(old, at, new))
<1> DEFINE left == SubSeq(old, 1, at)
           right == SubSeq(old, at + Len(new) + 1, Len(old))
<1>1. Len(old) \in Nat /\ Len(new) \in Nat /\ at \in Nat /\ at <= Len(old)
  BY LenProperties
<1>2. \A i \in 1 .. Len(old) : old[i] \in Chars
  BY ElementOfSeq
<1>3. left \in Seq(Chars) /\ Len(left) = at
  BY <1>1, <1>2, SubSeqProperties
<1>4. right \in Seq(Chars) /\ Len(right) \in Nat
  <2>1. \A i \in at + Len(new) + 1 .. Len(old) : old[i] \in Chars
    BY <1>1, <1>2
  <2>2. right \in Seq(Chars)
    BY <1>1, <2>1, SubSeqProperties
  <2> QED
    BY <2>2, LenProperties
<1> HIDE DEF left, right
<1>5. left \o new \in Seq(Chars) /\ Len(left \o new) = at + Len(new)
  BY <1>3, ConcatProperties
<1>6. /\ (left \o new) \o right \in Seq(Chars)
      /\ Len((left \o new) \o right) = at + Len(new) + Len(right)
  BY <1>4, <1>5, ConcatProperties
<1>7. Overwrite(old, at, new) = (left \o new) \o right
  BY DEF Overwrite, left, right
<1>8. at + Len(new) <= at + Len(new) + Len(right)
  BY <1>1, <1>4
<1> QED
  BY <1>1, <1>4, <1>6, <1>7, <1>8

\* Writing to a socket: what it leaves, and whom it can reach.
LEMMA WriteEffect ==
  ASSUME SocketsOK, inbox \in [Members -> Seq(Messages)],
         NEW c \in Members, NEW msg \in Messages, WriteTo(c, msg)
  PROVE  /\ net' \in [Members -> NetStates]
         /\ status' \in {"up", "sigpipe"}
         /\ inbox' \in [Members -> Seq(Messages)]
         /\ \A n \in Members :
              /\ net'[n] = "open" <=> net[n] = "open"
              /\ net'[n] = "none" <=> net[n] = "none"
              /\ n # c => inbox'[n] = inbox[n]
         /\ net[c] = "open" => inbox'[c] = Append(inbox[c], msg)
<1>1. net \in [Members -> NetStates] /\ status \in {"up", "sigpipe"}
  BY DEF SocketsOK
<1>2. Append(inbox[c], msg) \in Seq(Messages)
  BY AppendProperties
<1>3. /\ AfterWrites(net[c], 1) \in NetStates
      /\ AfterWrites(net[c], 1) = "open" <=> net[c] = "open"
      /\ AfterWrites(net[c], 1) = "none" <=> net[c] = "none"
  BY <1>1 DEF AfterWrites, NetStates
<1> HIDE DEF AfterWrites, NetStates
<1>4. net' = [net EXCEPT ![c] = AfterWrites(net[c], 1)]
  BY <1>1 DEF WriteTo
<1>5. /\ status' \in {"up", "sigpipe"}
      /\ inbox' = IF net[c] = "open"
                    THEN [inbox EXCEPT ![c] = Append(inbox[c], msg)] ELSE inbox
  BY <1>1 DEF WriteTo
<1> QED
  BY <1>1, <1>2, <1>3, <1>4, <1>5

\* The steps of Next, one by one.
LEMMA Steps ==
  ASSUME [Next]_vars
  PROVE  \/ \E m \in Members :
              \/ (ClientActs(m) \/ HandlerInitFail(m) \/ HandlerEnters(m)
                    \/ HandlerServes(m) \/ HandlerLeaves(m)) /\ Recorded({})
              \/ HandlerDrop(m) /\ Recorded({m})
         \/ UNCHANGED vars
BY DEF Next, HandlerRuns

-----------------------------------------------------------------------------
(* Type correctness.                                                       *)

\* The sockets and slots; Counted keeps the count from falling below -1.
LEMMA SocketsOKStep ==
  ASSUME TypeOK, Counted, Underway, [Next]_vars
  PROVE  SocketsOK'
<1> USE DEF SocketsOK
<1>0. /\ MEMBER_MAX \in Nat \ {0} /\ Deaths \subseteq {"fin", "rst"}
      /\ inbox \in [Members -> Seq(Messages)]
      /\ buf \in [Members -> Messages] /\ SocketsOK
      /\ hpc \in [Members -> {"none", "init", "open", "load", "fetch",
           "deliver", "read", "grant", "release", "reply", "broadcast", "put",
           "leave", "exited", "failed"}]
      /\ clnt_num \in [Members -> Slots]
  BY SharedFileAssumption
  DEF SharedFileAssumption, TypeOK, ClientsOK, HandlersOK
<1>1. ASSUME NEW m \in Members, ClientActs(m)
      PROVE  SocketsOK'
  <2>1. CASE Place(m)
    BY <1>0, <2>1 DEF Place, Slots, NetStates
  <2>2. CASE \E how \in Deaths : Die(m, how)
    BY <1>0, <2>2 DEF Die, roomVars, NetStates
  <2>3. CASE Press(m) \/ (\E t \in Texts : Type(m, t)) \/ Receive(m)
    BY <1>0, <2>3 DEF Press, Type, Receive, roomVars
  <2> QED
    BY <1>1, <2>1, <2>2, <2>3 DEF ClientActs
<1>2. ASSUME NEW m \in Members, HandlerInitFail(m) \/ HandlerEnters(m)
      PROVE  SocketsOK'
  <2>1. CASE HandlerDeliver(m)
    BY <1>0, <2>1, WriteEffect DEF HandlerDeliver, roomVars
  <2> QED
    BY <1>0, <1>2, <2>1
    DEF HandlerInitFail, HandlerEnters, HandlerInit, HandlerOpen, HandlerLoad,
        HandlerFetch, roomVars
<1>3. ASSUME NEW m \in Members, HandlerServes(m)
      PROVE  SocketsOK'
  <2>1. CASE HandlerReply(m)
    BY <1>0, <2>1, WriteEffect DEF HandlerReply, roomVars
  <2>2. CASE HandlerBroadcast(m)
    <3>1. CASE UNCHANGED <<net, status, inbox>>
      BY <1>0, <2>2, <3>1 DEF HandlerBroadcast, roomVars
    <3>2. CASE /\ clnt_socks[sd[m]] \notin {m, None}
               /\ WriteTo(clnt_socks[sd[m]], buf[m])
      <4>1. sd[m] \in Slots
        BY <1>0, <2>2 DEF HandlerBroadcast, SlotsLeft, Slots, TypeOK, HandlersOK
      <4>2. clnt_socks[sd[m]] \in Members
        BY <1>0, <3>2, <4>1
      <4> QED
        BY <1>0, <2>2, <3>2, <4>2, WriteEffect DEF HandlerBroadcast, roomVars
    <3> QED
      BY <2>2, <3>1, <3>2 DEF HandlerBroadcast
  <2> QED
    BY <1>0, <1>3, <2>1, <2>2
    DEF HandlerServes, HandlerRequest, HandlerGrant, HandlerRelease,
        HandlerEdit, HandlerRewind, HandlerPut, roomVars
<1>4. ASSUME NEW m \in Members, HandlerReadError(m)
      PROVE  SocketsOK'
  BY <1>0, <1>4 DEF HandlerReadError, roomVars, AfterWrites, NetStates
<1>5. ASSUME NEW m \in Members, HandlerLeave(m)
      PROVE  SocketsOK'
  <2>1. IsFiniteSet(Present) /\ m \in Present
    <3>1. m \in Present
      BY <1>5 DEF HandlerLeave, HandlerAt, Present
    <3>2. IsFiniteSet(Present)
      BY SharedFileAssumption, FS_Subset DEF SharedFileAssumption, Present
    <3> QED
      BY <3>1, <3>2
  <2>2. Cardinality(Present) # 0 /\ Cardinality(Present) \in Nat
    BY <2>1, FS_EmptySet, FS_CardinalityType
  <2>3. count' = count - 1 /\ count >= 0
    BY <1>0, <1>5, <2>2 DEF HandlerLeave, CountAfterLeave, Counted
  <2>4. net' \in [Members -> NetStates]
        /\ clnt_socks' \in [Slots -> Members \cup {None}]
    BY <1>0, <1>5 DEF HandlerLeave, NetStates
  <2>5. count' \in -1 .. MEMBER_MAX - 1
    BY <1>0, <2>3
  <2> QED
    BY <1>0, <1>5, <2>4, <2>5 DEF HandlerLeave
<1>6. ASSUME NEW m \in Members, HandlerDrop(m)
      PROVE  SocketsOK'
  BY <1>0, <1>6 DEF HandlerDrop, roomVars
<1>7. CASE UNCHANGED vars
  BY <1>0, <1>7 DEF vars, roomVars
<1> QED
  BY <1>1, <1>2, <1>3, <1>4, <1>5, <1>6, <1>7, Steps DEF HandlerLeaves

\* The FILE never points beyond the end of the file.
LEMMA FileOKStep ==
  ASSUME TypeOK, Underway, [Next]_vars
  PROVE  FileOK'
<1>0. /\ fp \in BOOLEAN /\ file \in Seq(Chars) /\ pos \in 0 .. Len(file)
      /\ Len(file) \in Nat /\ buf \in [Members -> Messages]
  BY LenProperties DEF TypeOK, FileOK, HandlersOK
<1>1. ASSUME NEW m \in Members, ClientActs(m)
      PROVE  UNCHANGED fileVars
  BY <1>1 DEF ClientActs, Place, Press, Type, Receive, Die
<1>2. ASSUME NEW m \in Members, HandlerEnters(m) \/ HandlerInitFail(m)
      PROVE  FileOK'
  <2>1. CASE HandlerOpen(m)
    BY <2>1, EmptySeq DEF HandlerOpen, FileOK
  <2>2. CASE HandlerLoad(m) \/ HandlerFetch(m)
    BY <1>0, <2>2 DEF HandlerLoad, HandlerFetch, FileOK
  <2>3. CASE HandlerInit(m) \/ HandlerInitFail(m) \/ HandlerDeliver(m)
    BY <1>0, <2>3
    DEF HandlerInit, HandlerInitFail, HandlerDeliver, FileOK, fileVars
  <2> QED
    BY <1>2, <2>1, <2>2, <2>3 DEF HandlerEnters
<1>3. ASSUME NEW m \in Members, HandlerServes(m)
      PROVE  FileOK'
  <2>1. CASE HandlerPut(m)
    <3>1. buf[m].text \in Seq(Chars)
      BY <1>0, <2>1, MessageKinds DEF HandlerPut, HandlerAt, Underway
    <3> QED
      BY <1>0, <2>1, <3>1, OverwriteType DEF HandlerPut, FileOK
  <2>2. CASE HandlerRewind(m)
    BY <1>0, <2>2 DEF HandlerRewind, FileOK
  <2>3. CASE ~HandlerPut(m) /\ ~HandlerRewind(m)
    BY <1>0, <1>3, <2>3
    DEF HandlerServes, HandlerRequest, HandlerGrant, HandlerRelease,
        HandlerReply, HandlerEdit, HandlerBroadcast, FileOK, fileVars
  <2> QED
    BY <2>1, <2>2, <2>3
<1>4. ASSUME NEW m \in Members, HandlerLeaves(m) \/ HandlerDrop(m)
      PROVE  UNCHANGED fileVars
  BY <1>4 DEF HandlerLeaves, HandlerReadError, HandlerLeave, HandlerDrop
<1>5. UNCHANGED fileVars => FileOK'
  BY <1>0 DEF FileOK, fileVars
<1>6. CASE UNCHANGED vars
  BY <1>5, <1>6 DEF vars, fileVars
<1> QED
  BY <1>1, <1>2, <1>3, <1>4, <1>5, <1>6, Steps

\* The flags, program counters, buffers and indexes of the threads.
LEMMA HandlersOKStep ==
  ASSUME TypeOK, [Next]_vars
  PROVE  HandlersOK'
<1> USE DEF HandlersOK
<1>0. /\ HandlersOK /\ SocketsOK /\ MEMBER_MAX \in Nat \ {0}
      /\ outbox \in [Members -> Seq(Requests)] /\ file \in Seq(Chars)
      /\ Len(file) \in Nat /\ pos \in 0 .. Len(file)
  BY SharedFileAssumption, LenProperties
  DEF SharedFileAssumption, TypeOK, FileOK, ClientsOK
<1>1. ASSUME NEW m \in Members, ClientActs(m)
      PROVE  HandlersOK'
  <2>1. CASE Place(m)
    BY <1>0, <2>1 DEF Place, rightVars, Slots
  <2>2. CASE Press(m) \/ (\E t \in Texts : Type(m, t)) \/ Receive(m)
               \/ \E how \in Deaths : Die(m, how)
    BY <1>0, <2>2 DEF Press, Type, Receive, Die, rightVars
  <2> QED
    BY <1>1, <2>1, <2>2 DEF ClientActs
<1>2. ASSUME NEW m \in Members, HandlerEnters(m) \/ HandlerInitFail(m)
      PROVE  HandlersOK'
  <2>1. CASE HandlerFetch(m)
    <3>1. \A i \in pos + 1 .. Len(file) : file[i] \in Chars
      BY <1>0, ElementOfSeq
    <3>2. SubSeq(file, pos + 1, Len(file)) \in Seq(Chars)
      BY <1>0, <3>1, SubSeqProperties
    <3>3. Msg("7", SubSeq(file, pos + 1, Len(file))) \in Messages
      BY <3>2, MessageKinds
    <3> QED
      BY <1>0, <2>1, <3>3 DEF HandlerFetch, rightVars
  <2>2. CASE HandlerOpen(m)
    BY <1>0, <2>2 DEF HandlerOpen, rightVars
  <2>3. CASE HandlerInit(m) \/ HandlerInitFail(m) \/ HandlerLoad(m)
               \/ HandlerDeliver(m)
    BY <1>0, <2>3
    DEF HandlerInit, HandlerInitFail, HandlerLoad, HandlerDeliver, rightVars
  <2> QED
    BY <1>2, <2>1, <2>2, <2>3 DEF HandlerEnters
<1>3. ASSUME NEW m \in Members, HandlerServes(m)
      PROVE  HandlersOK'
  <2>1. CASE HandlerRequest(m)
    <3>1. Verdict("5FALSE") \in Messages
      BY MessageKinds DEF Verdicts
    <3> QED
      BY <1>0, <2>1, <3>1 DEF HandlerRequest, rightVars
  <2>2. CASE HandlerGrant(m) \/ HandlerRelease(m)
    <3>1. Verdict("5TRUE") \in Messages /\ Verdict("6TRUE") \in Messages
      BY MessageKinds DEF Verdicts
    <3> QED
      BY <1>0, <2>2, <3>1
      DEF HandlerGrant, HandlerRelease, FlagAfterRelease, ReleaseReply
  <2>3. CASE HandlerEdit(m)
    <3>1. outbox[m] \in Seq(Requests) /\ outbox[m] # <<>>
          /\ Head(outbox[m]).kind = "7"
      BY <1>0, <2>3 DEF HandlerEdit, Reads
    <3>2. Head(outbox[m]) \in Messages
      BY <3>1, HeadTailProperties, MessageKinds
    <3> QED
      BY <1>0, <2>3, <3>2 DEF HandlerEdit, rightVars
  <2>4. CASE HandlerBroadcast(m)
    BY <1>0, <2>4
    DEF HandlerBroadcast, SlotsLeft, NextSlot, SocketsOK, rightVars
  <2>5. CASE HandlerReply(m) \/ HandlerRewind(m) \/ HandlerPut(m)
    BY <1>0, <2>5 DEF HandlerReply, HandlerRewind, HandlerPut, rightVars
  <2> QED
    BY <1>3, <2>1, <2>2, <2>3, <2>4, <2>5 DEF HandlerServes
<1>4. ASSUME NEW m \in Members, HandlerLeaves(m) \/ HandlerDrop(m)
      PROVE  HandlersOK'
  BY <1>0, <1>4
  DEF HandlerLeaves, HandlerReadError, HandlerLeave, HandlerDrop, rightVars
<1>5. CASE UNCHANGED vars
  BY <1>0, <1>5 DEF vars, rightVars
<1> QED
  BY <1>1, <1>2, <1>3, <1>4, <1>5, Steps

\* The streams and the edit boxes.
LEMMA ClientsOKStep ==
  ASSUME TypeOK, [Next]_vars
  PROVE  ClientsOK'
<1> DEFINE Boxes == /\ outbox \in [Members -> Seq(Requests)]
                    /\ inbox \in [Members -> Seq(Messages)]
                    /\ readonly \in [Members -> BOOLEAN]
                    /\ view \in [Members -> Seq(Chars)]
                    /\ sent \in 0 .. MaxMessages
<1>0. /\ Boxes /\ MaxMessages \in Nat /\ SocketsOK
      /\ \A t \in Texts : t \in Seq(Chars)
      /\ buf \in [Members -> Messages]
  BY SharedFileAssumption
  DEF SharedFileAssumption, TypeOK, ClientsOK, HandlersOK
<1>1. ASSUME NEW m \in Members, ClientActs(m)
      PROVE  Boxes'
  <2>1. CASE Press(m)
    <3>1. Append(outbox[m], Verdict("5")) \in Seq(Requests)
      BY <1>0, MessageKinds, AppendProperties
    <3> QED
      BY <1>0, <2>1, <3>1 DEF Press
  <2>2. CASE \E t \in Texts : Type(m, t)
    <3>1. PICK t \in Texts : Type(m, t)
      BY <2>2
    <3>2. t \in Seq(Chars) /\ Msg("7", t) \in Requests
      BY <1>0, MessageKinds
    <3>3. Append(outbox[m], Msg("7", t)) \in Seq(Requests)
      BY <1>0, <3>2, AppendProperties
    <3> QED
      BY <1>0, <3>1, <3>2, <3>3 DEF Type
  <2>3. CASE Receive(m)
    <3>1. inbox[m] \in Seq(Messages) /\ inbox[m] # <<>>
      BY <1>0, <2>3 DEF Receive
    <3>2. Head(inbox[m]) \in Messages /\ Tail(inbox[m]) \in Seq(Messages)
      BY <3>1, HeadTailProperties
    <3>3. Head(inbox[m]).kind = "7" => Head(inbox[m]).text \in Seq(Chars)
      BY <3>2, MessageKinds
    <3>4. view' \in [Members -> Seq(Chars)]
      BY <1>0, <2>3, <3>3 DEF Receive
    <3>5. readonly' \in [Members -> BOOLEAN]
      BY <1>0, <2>3 DEF Receive
    <3> QED
      BY <1>0, <2>3, <3>2, <3>4, <3>5 DEF Receive
  <2>4. CASE Place(m) \/ \E how \in Deaths : Die(m, how)
    BY <1>0, <2>4 DEF Place, Die, clientVars
  <2> QED
    BY <1>1, <2>1, <2>2, <2>3, <2>4 DEF ClientActs
<1>2. ASSUME NEW m \in Members, HandlerEnters(m) \/ HandlerInitFail(m)
      PROVE  Boxes'
  <2>1. CASE HandlerDeliver(m)
    BY <1>0, <2>1, WriteEffect DEF HandlerDeliver, clientVars
  <2> QED
    BY <1>0, <1>2, <2>1
    DEF HandlerInitFail, HandlerEnters, HandlerInit, HandlerOpen, HandlerLoad,
        HandlerFetch, clientVars
<1>3. ASSUME NEW m \in Members, Reads(m, "5") \/ Reads(m, "7"),
             UNCHANGED <<inbox, readonly, view, sent>>
      PROVE  Boxes'
  <2>1. outbox[m] \in Seq(Requests) /\ outbox[m] # <<>>
        /\ outbox' = [outbox EXCEPT ![m] = Tail(outbox[m])]
    BY <1>0, <1>3 DEF Reads
  <2>2. Tail(outbox[m]) \in Seq(Requests)
    BY <2>1, HeadTailProperties
  <2> QED
    BY <1>0, <1>3, <2>1, <2>2
<1>4. ASSUME NEW m \in Members, HandlerServes(m)
      PROVE  Boxes'
  <2>1. CASE HandlerReply(m)
    BY <1>0, <2>1, WriteEffect DEF HandlerReply, clientVars
  <2>2. CASE HandlerRequest(m) \/ HandlerEdit(m)
    BY <1>3, <2>2 DEF HandlerRequest, HandlerEdit
  <2>3. CASE HandlerBroadcast(m)
    <3>1. CASE UNCHANGED <<net, status, inbox>>
      BY <1>0, <2>3, <3>1 DEF HandlerBroadcast, clientVars
    <3>2. CASE /\ clnt_socks[sd[m]] \notin {m, None}
               /\ WriteTo(clnt_socks[sd[m]], buf[m])
      <4>1. sd[m] \in Slots
        BY <1>0, <2>3, SharedFileAssumption
        DEF HandlerBroadcast, SlotsLeft, Slots, TypeOK, HandlersOK, SocketsOK,
            SharedFileAssumption
      <4>2. clnt_socks[sd[m]] \in Members
        BY <1>0, <3>2, <4>1 DEF SocketsOK
      <4> QED
        BY <1>0, <2>3, <3>2, <4>2, WriteEffect DEF HandlerBroadcast, clientVars
    <3> QED
      BY <2>3, <3>1, <3>2 DEF HandlerBroadcast
  <2>4. CASE HandlerGrant(m) \/ HandlerRelease(m) \/ HandlerRewind(m)
               \/ HandlerPut(m)
    BY <1>0, <2>4
    DEF HandlerGrant, HandlerRelease, HandlerRewind, HandlerPut, clientVars
  <2> QED
    BY <1>4, <2>1, <2>2, <2>3, <2>4 DEF HandlerServes
<1>5. ASSUME NEW m \in Members, HandlerLeaves(m)
      PROVE  Boxes'
  BY <1>0, <1>5 DEF HandlerLeaves, HandlerReadError, HandlerLeave, clientVars
<1>6. ASSUME NEW m \in Members, HandlerDrop(m)
      PROVE  Boxes'
  BY <1>3, <1>6 DEF HandlerDrop
<1>7. ASSUME UNCHANGED vars
      PROVE  Boxes'
  BY <1>0, <1>7 DEF vars, clientVars
<1> HIDE DEF Boxes
<1>8. Boxes'
  BY <1>1, <1>2, <1>4, <1>5, <1>6, <1>7, Steps
<1>9. clean' \in BOOLEAN /\ adrift' \subseteq Members
  <2>1. CASE UNCHANGED vars
    BY <2>1 DEF TypeOK, ClientsOK, vars
  <2>2. ASSUME NEW m \in Members, Recorded({}) \/ Recorded({m})
        PROVE  clean' \in BOOLEAN /\ adrift' \subseteq Members
    <3>1. Crossing' \subseteq Members /\ clean \in BOOLEAN /\ adrift \subseteq Members
      BY DEF Crossing, TypeOK, ClientsOK
    <3>2. Undisturbed' \in BOOLEAN
      BY DEF Undisturbed
    <3> QED
      BY <2>2, <3>1, <3>2 DEF Recorded
  <2> QED
    BY <2>1, <2>2, Steps
<1> QED
  BY <1>8, <1>9 DEF ClientsOK, Boxes

-----------------------------------------------------------------------------
(* The other parts of the invariant.                                       *)

\* A run that is no longer clean stays so.
LEMMA CleanOnce ==
  ASSUME TypeOK, [Next]_vars
  PROVE  clean' => clean
BY Steps DEF Recorded, TypeOK, ClientsOK, vars

\* Every step records whether the state is undisturbed.
LEMMA CleanStep ==
  ASSUME TypeOK, CleanIsUndisturbed, [Next]_vars
  PROVE  CleanIsUndisturbed'
<1>1. CASE UNCHANGED vars
  BY <1>1
  DEF CleanIsUndisturbed, Undisturbed, Claims, UsesFile, vars, fileVars,
      rightVars
<1>2. CASE ~UNCHANGED vars
  BY <1>2, Steps DEF CleanIsUndisturbed, Recorded
<1> QED
  BY <1>1, <1>2

\* No holder finds the flag down while grants do not overlap, and the flag is
\* never up without a holder.
LEMMA RightsStep ==
  ASSUME TypeOK, Underway, CleanIsUndisturbed, RightsAccounted, [Next]_vars
  PROVE  RightsAccounted'
<1>0. /\ modify_rights \in BOOLEAN /\ ud \in [Members -> BOOLEAN]
      /\ clean \in BOOLEAN
  BY DEF TypeOK, HandlersOK, ClientsOK
<1>1. ASSUME NEW m \in Members, HandlerGrant(m)
      PROVE  RightsAccounted'
  BY <1>0, <1>1, CleanOnce DEF HandlerGrant, RightsAccounted
<1>2. ASSUME NEW m \in Members, HandlerRelease(m)
      PROVE  RightsAccounted'
  <2>1. ud[m] /\ modify_rights' = FALSE /\ ud' = [ud EXCEPT ![m] = FALSE]
    BY <1>2
    DEF HandlerRelease, FlagAfterRelease, HandlerAt, Underway
  <2>2. clean => \A n \in Members : ud[n] => n = m
    BY <2>1 DEF CleanIsUndisturbed, Undisturbed, Claims
  <2> QED
    BY <1>0, <2>1, <2>2, CleanOnce DEF RightsAccounted
<1>3. ASSUME UNCHANGED rightVars
      PROVE  RightsAccounted'
  BY <1>0, <1>3, CleanOnce DEF RightsAccounted, rightVars
<1>4. ASSUME NEW m \in Members,
             ClientActs(m) \/ HandlerInitFail(m) \/ HandlerEnters(m)
      PROVE  UNCHANGED rightVars
  BY <1>4
  DEF ClientActs, Place, Press, Type, Receive, Die, HandlerInitFail,
      HandlerEnters, HandlerInit, HandlerOpen, HandlerLoad, HandlerFetch,
      HandlerDeliver
<1>5. ASSUME NEW m \in Members, HandlerServes(m)
      PROVE  HandlerGrant(m) \/ HandlerRelease(m) \/ UNCHANGED rightVars
  BY <1>5
  DEF HandlerServes, HandlerRequest, HandlerReply, HandlerEdit,
      HandlerBroadcast, HandlerRewind, HandlerPut
<1>6. ASSUME NEW m \in Members, HandlerLeaves(m) \/ HandlerDrop(m)
      PROVE  UNCHANGED rightVars
  BY <1>6 DEF HandlerLeaves, HandlerReadError, HandlerLeave, HandlerDrop
<1>7. UNCHANGED vars => UNCHANGED rightVars
  BY DEF vars, rightVars
<1> QED
  BY <1>1, <1>2, <1>3, <1>4, <1>5, <1>6, <1>7, Steps

\* What a thread is about to do agrees with its own flag and its message.
LEMMA UnderwayStep ==
  ASSUME TypeOK, Counted, Underway, [Next]_vars
  PROVE  Underway'
<1>0. /\ HandlersOK /\ ClientsOK /\ SocketsOK
      /\ \A m \in Members : hpc[m] = "none" <=> net[m] = "none"
      /\ \A m \in Members : Msg("7", SubSeq(file, pos + 1, Len(file))).kind = "7"
  BY DEF TypeOK, Counted, Msg
<1>1. ASSUME NEW m \in Members, ClientActs(m)
      PROVE  Underway'
  <2>1. CASE Receive(m)
    BY <1>0, <2>1 DEF Receive, Underway, rightVars, ClientsOK, HandlersOK
  <2>2. CASE Place(m)
    BY <1>0, <2>2
    DEF Place, Underway, rightVars, clientVars, HandlersOK
  <2>3. CASE Press(m) \/ (\E t \in Texts : Type(m, t))
               \/ \E how \in Deaths : Die(m, how)
    BY <1>0, <2>3 DEF Press, Type, Die, Underway, rightVars, clientVars
  <2> QED
    BY <1>1, <2>1, <2>2, <2>3 DEF ClientActs
<1>2. ASSUME NEW m \in Members, HandlerEnters(m) \/ HandlerInitFail(m)
      PROVE  Underway'
  <2>1. CASE HandlerDeliver(m)
    <3>1. WriteTo(m, buf[m]) /\ hpc[m] = "deliver" /\ buf[m] \in Messages
      BY <1>0, <2>1 DEF HandlerDeliver, HandlerAt, HandlersOK
    <3>2. \A n \in Members : n # m => inbox'[n] = inbox[n]
      BY <1>0, <3>1, WriteEffect DEF ClientsOK
    <3> QED
      BY <1>0, <2>1, <3>1, <3>2
      DEF HandlerDeliver, Underway, rightVars, clientVars, HandlersOK
  <2>2. CASE HandlerFetch(m)
    BY <1>0, <2>2
    DEF HandlerFetch, HandlerAt, Underway, rightVars, clientVars, HandlersOK
  <2>3. CASE HandlerInit(m) \/ HandlerInitFail(m) \/ HandlerOpen(m)
               \/ HandlerLoad(m)
    BY <1>0, <2>3
    DEF HandlerInit, HandlerInitFail, HandlerOpen, HandlerLoad, HandlerAt,
        Underway, rightVars, clientVars, HandlersOK
  <2> QED
    BY <1>2, <2>1, <2>2, <2>3 DEF HandlerEnters
<1>3. ASSUME NEW m \in Members, HandlerServes(m)
      PROVE  Underway'
  <2>1. CASE HandlerRequest(m) \/ HandlerEdit(m)
    BY <1>0, <2>1
    DEF HandlerRequest, HandlerEdit, Reads, HandlerAt, Underway, rightVars,
        HandlersOK
  <2>2. CASE HandlerGrant(m) \/ HandlerRelease(m)
    BY <1>0, <2>2
    DEF HandlerGrant, HandlerRelease, HandlerAt, Underway, clientVars,
        HandlersOK
  <2>3. CASE HandlerReply(m)
    <3>1. WriteTo(m, buf[m]) /\ hpc[m] = "reply" /\ buf[m] \in Messages
      BY <1>0, <2>3 DEF HandlerReply, HandlerAt, HandlersOK
    <3>2. \A n \in Members : n # m => inbox'[n] = inbox[n]
      BY <1>0, <3>1, WriteEffect DEF ClientsOK
    <3> QED
      BY <1>0, <2>3, <3>1, <3>2
      DEF HandlerReply, Underway, rightVars, clientVars, HandlersOK
  <2>4. CASE HandlerBroadcast(m)
    <3>1. \A n \in Members : hpc[n] = "none" => inbox'[n] = inbox[n]
      <4>1. CASE UNCHANGED inbox
        BY <4>1
      <4>2. CASE /\ clnt_socks[sd[m]] \notin {m, None}
                 /\ WriteTo(clnt_socks[sd[m]], buf[m])
        BY <1>0, <4>2 DEF WriteTo, ClientsOK
      <4> QED
        BY <2>4, <4>1, <4>2 DEF HandlerBroadcast
    <3> QED
      BY <1>0, <2>4, <3>1
      DEF HandlerBroadcast, Underway, rightVars, clientVars
  <2>5. CASE HandlerRewind(m) \/ HandlerPut(m)
    BY <1>0, <2>5
    DEF HandlerRewind, HandlerPut, HandlerAt, Underway, rightVars, clientVars,
        HandlersOK
  <2> QED
    BY <1>3, <2>1, <2>2, <2>3, <2>4, <2>5 DEF HandlerServes
<1>4. ASSUME NEW m \in Members, HandlerLeaves(m) \/ HandlerDrop(m)
      PROVE  Underway'
  BY <1>0, <1>4
  DEF HandlerLeaves, HandlerReadError, HandlerLeave, HandlerDrop, HandlerAt,
      Underway, rightVars, clientVars, HandlersOK
<1>5. CASE UNCHANGED vars
  BY <1>5 DEF vars, rightVars, clientVars, Underway
<1> QED
  BY <1>1, <1>2, <1>3, <1>4, <1>5, Steps

\* Everybody between placement and departure is counted, once.
LEMMA CountedStep ==
  ASSUME TypeOK, Counted, [Next]_vars
  PROVE  Counted'
<1> DEFINE NoneSame == \A m \in Members : net[m] = "none" <=> hpc[m] = "none"
<1>0. /\ HandlersOK /\ SocketsOK /\ NoneSame
      /\ inbox \in [Members -> Seq(Messages)]
      /\ count \in Int /\ IsFiniteSet(Present)
      /\ count + 1 = Cardinality(Present)
  <2>1. IsFiniteSet(Present)
    BY SharedFileAssumption, FS_Subset DEF SharedFileAssumption, Present
  <2> QED
    BY <2>1, SharedFileAssumption
    DEF SharedFileAssumption, TypeOK, ClientsOK, SocketsOK, Counted
<1>1. ASSUME count' = count, NoneSame',
             \A n \in Members : hpc'[n] \in {"none", "exited"}
                                  <=> hpc[n] \in {"none", "exited"}
      PROVE  Counted'
  <2>1. Present' = Present
    BY <1>1 DEF Present
  <2> QED
    BY <1>0, <1>1, <2>1 DEF Counted
<1>2. ASSUME NEW m \in Members, ClientActs(m)
      PROVE  Counted'
  <2>1. CASE Place(m)
    <3>1. hpc[m] = "none" /\ net[m] = "none"
      BY <1>0, <2>1 DEF Place
    <3>2. hpc' = [hpc EXCEPT ![m] = "init"] /\ net' = [net EXCEPT ![m] = "open"]
          /\ count' = count + 1
      BY <2>1 DEF Place
    <3>3. Present' = Present \cup {m} /\ m \notin Present
      BY <1>0, <3>1, <3>2 DEF Present, HandlersOK
    <3>4. Cardinality(Present') = Cardinality(Present) + 1
      BY <1>0, <3>3, FS_AddElement
    <3>5. NoneSame'
      BY <1>0, <3>1, <3>2 DEF HandlersOK, SocketsOK
    <3> HIDE DEF NoneSame
    <3>6. count' + 1 = Cardinality(Present')
      BY <1>0, <3>2, <3>4
    <3> QED
      BY <3>5, <3>6 DEF Counted, NoneSame
  <2>2. CASE \E how \in Deaths : Die(m, how)
    <3>1. NoneSame'
      BY <1>0, <2>2, SharedFileAssumption DEF Die, SocketsOK, SharedFileAssumption
    <3> QED
      BY <1>1, <2>2, <3>1 DEF Die, roomVars
  <2>3. CASE Press(m) \/ (\E t \in Texts : Type(m, t)) \/ Receive(m)
    BY <1>0, <1>1, <2>3 DEF Press, Type, Receive, roomVars
  <2> QED
    BY <1>2, <2>1, <2>2, <2>3 DEF ClientActs
<1>3. ASSUME NEW m \in Members, HandlerInitFail(m) \/ HandlerEnters(m)
      PROVE  Counted'
  <2>1. hpc[m] \notin {"none", "exited"} /\ hpc'[m] \notin {"none", "exited"}
        /\ count' = count
        /\ \A n \in Members : n # m => hpc'[n] = hpc[n]
    BY <1>0, <1>3
    DEF HandlerInitFail, HandlerEnters, HandlerInit, HandlerOpen, HandlerLoad,
        HandlerFetch, HandlerDeliver, HandlerAt, HandlersOK, roomVars
  <2>2. \A n \in Members : net'[n] = "none" <=> net[n] = "none"
    <3>1. CASE HandlerDeliver(m)
      BY <1>0, <3>1, WriteEffect DEF HandlerDeliver, HandlersOK
    <3> QED
      BY <1>3, <3>1
      DEF HandlerInitFail, HandlerEnters, HandlerInit, HandlerOpen,
          HandlerLoad, HandlerFetch
  <2> QED
    BY <1>0, <1>1, <2>1, <2>2
<1>4. ASSUME NEW m \in Members, HandlerServes(m)
      PROVE  Counted'
  <2>1. hpc[m] \notin {"none", "exited"} /\ hpc'[m] \notin {"none", "exited"}
        /\ count' = count
        /\ \A n \in Members : n # m => hpc'[n] = hpc[n]
    BY <1>0, <1>4
    DEF HandlerServes, HandlerRequest, HandlerGrant, HandlerRelease,
        HandlerReply, HandlerEdit, HandlerBroadcast, HandlerRewind, HandlerPut,
        Reads, HandlerAt, HandlersOK, roomVars
  <2>2. \A n \in Members : net'[n] = "none" <=> net[n] = "none"
    <3>1. CASE HandlerReply(m)
      BY <1>0, <3>1, WriteEffect DEF HandlerReply, HandlersOK
    <3>2. CASE HandlerBroadcast(m)
      BY <1>0, <3>2 DEF HandlerBroadcast, WriteTo, AfterWrites, SocketsOK
    <3> QED
      BY <1>4, <3>1, <3>2
      DEF HandlerServes, HandlerRequest, HandlerGrant, HandlerRelease,
          HandlerEdit, HandlerRewind, HandlerPut
  <2> QED
    BY <1>0, <1>1, <2>1, <2>2
<1>5. ASSUME NEW m \in Members, HandlerReadError(m)
      PROVE  Counted'
  <2>1. NoneSame'
    BY <1>0, <1>5
    DEF HandlerReadError, HandlerAt, AfterWrites, HandlersOK, SocketsOK
  <2> QED
    BY <1>0, <1>1, <1>5, <2>1
    DEF HandlerReadError, HandlerAt, HandlersOK, roomVars
<1>6. ASSUME NEW m \in Members, HandlerLeave(m)
      PROVE  Counted'
  <2>1. hpc[m] = "leave" /\ hpc' = [hpc EXCEPT ![m] = "exited"]
        /\ net' = [net EXCEPT ![m] = "closed"] /\ count' = count - 1
    BY <1>6 DEF HandlerLeave, HandlerAt, CountAfterLeave
  <2>2. Present' = Present \ {m} /\ m \in Present
    BY <1>0, <2>1 DEF Present, HandlersOK
  <2>3. Cardinality(Present') = Cardinality(Present) - 1
    BY <1>0, <2>2, FS_RemoveElement
  <2>4. NoneSame'
    BY <1>0, <2>1 DEF HandlersOK, SocketsOK
  <2> HIDE DEF NoneSame
  <2>5. count' + 1 = Cardinality(Present')
    BY <1>0, <2>1, <2>3
  <2> QED
    BY <2>4, <2>5 DEF Counted, NoneSame
<1>7. ASSUME NEW m \in Members, HandlerDrop(m)
      PROVE  Counted'
  BY <1>0, <1>1, <1>7 DEF HandlerDrop, roomVars
<1>8. CASE UNCHANGED vars
  BY <1>0, <1>1, <1>8 DEF vars, roomVars
<1> QED
  BY <1>2, <1>3, <1>4, <1>5, <1>6, <1>7, <1>8, Steps DEF HandlerLeaves

-----------------------------------------------------------------------------
(* Replies and edit boxes.                                                 *)

\* Agreement in terms of the stream that has left the server.
Settled(shut, s, pc, msg) ==
  IF pc = "reply" /\ Decisive(msg) THEN msg.kind = "5TRUE"
                                   ELSE OpenAfter(shut, s)

\* Settled is what RepliesAgree says of one member.
LEMMA SettledIs ==
  ASSUME NEW shut \in BOOLEAN, NEW s \in Seq(Messages), NEW msg \in Messages,
         NEW pc
  PROVE  OpenAfter(shut, IF pc = "reply" THEN Append(s, msg) ELSE s)
           <=> Settled(shut, s, pc, msg)
<1>1. CASE pc = "reply"
  BY <1>1, OpenAfterAppend DEF Settled
<1>2. CASE pc # "reply"
  BY <1>2 DEF Settled
<1> QED
  BY <1>1, <1>2

\* The agreement of one member, before and after a step.
LEMMA RepliesSettled ==
  ASSUME HandlersOK, ClientsOK
  PROVE  RepliesAgree <=>
           \A m \in Members : net[m] = "open" =>
             (Settled(readonly[m], inbox[m], hpc[m], buf[m]) <=> ud[m])
BY SettledIs DEF RepliesAgree, Coming, HandlersOK, ClientsOK

\* The same for the state after a step.
LEMMA RepliesSettledNext ==
  ASSUME HandlersOK', ClientsOK'
  PROVE  RepliesAgree' <=>
           \A m \in Members : net'[m] = "open" =>
             (Settled(readonly'[m], inbox'[m], hpc'[m], buf'[m]) <=> ud'[m])
BY SettledIs DEF RepliesAgree, Coming, HandlersOK, ClientsOK

\* Every step keeps what each connected member will believe equal to its flag.
LEMMA RepliesStep ==
  ASSUME TypeOK, TypeOK', Counted, Underway, RepliesAgree, [Next]_vars
  PROVE  RepliesAgree'
<1> DEFINE S(n) == Settled(readonly[n], inbox[n], hpc[n], buf[n])
           Agrees(n) == net[n] = "open" => (S(n) <=> ud[n])
<1>0. /\ HandlersOK /\ ClientsOK /\ SocketsOK
      /\ \A n \in Members : net[n] = "none" <=> hpc[n] = "none"
      /\ inbox \in [Members -> Seq(Messages)]
      /\ buf \in [Members -> Messages]
      /\ readonly \in [Members -> BOOLEAN]
      /\ ud \in [Members -> BOOLEAN]
      /\ net \in [Members -> NetStates]
  BY DEF TypeOK, Counted, HandlersOK, ClientsOK, SocketsOK
<1>a. \A n \in Members : Agrees(n)
  BY <1>0, RepliesSettled
<1>b. SUFFICES \A n \in Members : Agrees(n)'
  BY RepliesSettledNext DEF TypeOK
\* What the frame of most steps gives.
<1>c. ASSUME NEW n \in Members, net'[n] = "open" => net[n] = "open",
             ud'[n] = ud[n], S(n)' <=> S(n)
      PROVE  Agrees(n)'
  BY <1>a, <1>c
<1>d. ASSUME NEW n \in Members, readonly'[n] = readonly[n],
             inbox'[n] = inbox[n],
             \/ hpc'[n] = hpc[n] /\ buf'[n] = buf[n]
             \/ hpc[n] # "reply" /\ hpc'[n] # "reply"
      PROVE  S(n)' <=> S(n)
  BY <1>d DEF Settled
\* A message that is no verdict changes nothing.
<1>e. ASSUME NEW c \in Members, NEW msg \in Messages, msg.kind = "7",
             WriteTo(c, msg), readonly'[c] = readonly[c],
             \/ hpc'[c] = hpc[c] /\ buf'[c] = buf[c]
             \/ hpc[c] # "reply" /\ hpc'[c] # "reply"
      PROVE  net[c] = "open" => (S(c)' <=> S(c))
  <2>1. ~Decisive(msg)
    BY <1>e DEF Decisive
  <2>2. net[c] = "open" => inbox'[c] = Append(inbox[c], msg)
    BY <1>0, <1>e, WriteEffect
  <2>3. OpenAfter(readonly[c], Append(inbox[c], msg))
          <=> OpenAfter(readonly[c], inbox[c])
    BY <1>0, <2>1, OpenAfterAppend
  <2> QED
    BY <1>e, <2>2, <2>3 DEF Settled
<1>1. ASSUME NEW m \in Members, ClientActs(m), NEW n \in Members
      PROVE  Agrees(n)'
  <2>1. CASE Place(m)
    <3>1. CASE n = m
      <4>1. ~ud[m] /\ inbox[m] = <<>> /\ readonly[m]
        BY <1>0, <2>1 DEF Place, Underway
      <4>2. ~OpenAfter(TRUE, <<>>)
        <5>1. DOMAIN <<>> = {}
          OBVIOUS
        <5> QED
          BY <5>1 DEF OpenAfter
      <4>3. hpc'[m] = "init" /\ readonly' = readonly /\ inbox' = inbox
            /\ ud' = ud
        BY <1>0, <2>1 DEF Place, HandlersOK, rightVars, clientVars
      <4> QED
        BY <1>0, <3>1, <4>1, <4>2, <4>3 DEF Settled
    <3>2. CASE n # m
      BY <1>0, <1>c, <1>d, <2>1, <3>2
      DEF Place, rightVars, clientVars, HandlersOK
    <3> QED
      BY <3>1, <3>2
  <2>2. CASE Receive(m)
    <3>1. CASE n = m
      <4>1. inbox[m] \in Seq(Messages) /\ inbox[m] # <<>>
            /\ inbox'[m] = Tail(inbox[m])
        BY <1>0, <2>2 DEF Receive
      <4>2. readonly'[m] = ((readonly[m] \/ Head(inbox[m]).kind = "6TRUE")
                              /\ Head(inbox[m]).kind # "5TRUE")
        BY <1>0, <2>2 DEF Receive
      <4>3. OpenAfter(readonly'[m], inbox'[m])
              <=> OpenAfter(readonly[m], inbox[m])
        BY <1>0, <4>1, <4>2, OpenAfterReceive, ZenonT(30) DEF Decisive
      <4> QED
        BY <1>0, <1>c, <2>2, <3>1, <4>3 DEF Receive, Settled, rightVars
    <3>2. CASE n # m
      BY <1>0, <1>c, <1>d, <2>2, <3>2 DEF Receive, rightVars
    <3> QED
      BY <3>1, <3>2
  <2>3. CASE Press(m) \/ (\E t \in Texts : Type(m, t))
               \/ \E how \in Deaths : Die(m, how)
    <3>1. net'[n] = "open" => net[n] = "open"
      BY <1>0, <2>3 DEF Press, Type, Die
    <3>2. UNCHANGED <<ud, readonly, inbox, hpc, buf>>
      BY <2>3 DEF Press, Type, Die, rightVars, clientVars
    <3> QED
      BY <1>c, <1>d, <3>1, <3>2
  <2> QED
    BY <1>1, <2>1, <2>2, <2>3 DEF ClientActs
<1>2. ASSUME NEW m \in Members, HandlerEnters(m) \/ HandlerInitFail(m),
             NEW n \in Members
      PROVE  Agrees(n)'
  <2>1. CASE HandlerDeliver(m)
    <3>1. WriteTo(m, buf[m]) /\ buf[m].kind = "7" /\ buf[m] \in Messages
      BY <1>0, <2>1 DEF HandlerDeliver, HandlerAt, Underway
    <3>2. hpc[m] # "reply" /\ hpc'[m] # "reply" /\ readonly' = readonly
          /\ ud' = ud /\ buf' = buf
          /\ \A k \in Members : k # m => hpc'[k] = hpc[k]
      BY <1>0, <2>1
      DEF HandlerDeliver, HandlerAt, HandlersOK, rightVars, clientVars
    <3>3. /\ net'[n] = "open" => net[n] = "open"
          /\ n # m => inbox'[n] = inbox[n]
      BY <1>0, <3>1, WriteEffect
    <3>4. CASE n = m
      <4>1. net[m] = "open" => (S(m)' <=> S(m))
        BY <1>e, <3>1, <3>2
      <4> QED
        BY <1>a, <3>2, <3>3, <3>4, <4>1
    <3>5. CASE n # m
      BY <1>c, <1>d, <3>2, <3>3, <3>5
    <3> QED
      BY <3>4, <3>5
  <2>2. CASE HandlerInit(m) \/ HandlerInitFail(m) \/ HandlerOpen(m)
               \/ HandlerLoad(m) \/ HandlerFetch(m)
    <3>1. UNCHANGED <<net, ud, readonly, inbox>>
      BY <2>2
      DEF HandlerInit, HandlerInitFail, HandlerOpen, HandlerLoad, HandlerFetch,
          rightVars, clientVars
    <3>2. \/ hpc'[n] = hpc[n] /\ buf'[n] = buf[n]
          \/ hpc[n] # "reply" /\ hpc'[n] # "reply"
      BY <1>0, <2>2
      DEF HandlerInit, HandlerInitFail, HandlerOpen, HandlerLoad, HandlerFetch,
          HandlerAt, HandlersOK
    <3> QED
      BY <1>c, <1>d, <3>1, <3>2
  <2> QED
    BY <1>2, <2>1, <2>2 DEF HandlerEnters
<1>3. ASSUME NEW m \in Members, HandlerServes(m), NEW n \in Members
      PROVE  Agrees(n)'
  <2>1. CASE HandlerRequest(m)
    <3>1. UNCHANGED <<net, ud, readonly, inbox>>
      BY <2>1 DEF HandlerRequest, rightVars
    <3>2. CASE n = m
      <4>1. hpc[m] = "read"
        BY <2>1 DEF HandlerRequest, Reads, HandlerAt
      <4>2. \/ hpc'[m] # "reply"
            \/ hpc'[m] = "reply" /\ ~Decisive(buf'[m])
        BY <1>0, <2>1
        DEF HandlerRequest, HandlersOK, Decisive, Verdict, Msg
      <4> QED
        BY <1>c, <3>1, <3>2, <4>1, <4>2 DEF Settled
    <3>3. CASE n # m
      <4>1. hpc'[n] = hpc[n] /\ buf'[n] = buf[n]
        BY <1>0, <2>1, <3>3 DEF HandlerRequest, HandlersOK
      <4> QED
        BY <1>c, <1>d, <3>1, <4>1
    <3> QED
      BY <3>2, <3>3
  <2>2. CASE HandlerGrant(m) \/ HandlerRelease(m)
    <3>1. UNCHANGED <<net, readonly, inbox>>
      BY <2>2 DEF HandlerGrant, HandlerRelease, clientVars
    <3>2. CASE n = m
      <4>1. hpc'[m] = "reply" /\ Decisive(buf'[m])
            /\ (buf'[m].kind = "5TRUE" <=> ud'[m])
        BY <1>0, <2>2
        DEF HandlerGrant, HandlerRelease, HandlersOK, Decisive, Verdict, Msg,
            ReleaseReply
      <4> QED
        BY <3>2, <4>1 DEF Settled
    <3>3. CASE n # m
      <4>1. hpc'[n] = hpc[n] /\ buf'[n] = buf[n] /\ ud'[n] = ud[n]
        BY <1>0, <2>2, <3>3 DEF HandlerGrant, HandlerRelease, HandlersOK
      <4> QED
        BY <1>c, <1>d, <3>1, <4>1
    <3> QED
      BY <3>2, <3>3
  <2>3. CASE HandlerReply(m)
    <3>1. WriteTo(m, buf[m]) /\ hpc[m] = "reply" /\ hpc'[m] = "read"
          /\ UNCHANGED <<ud, readonly, buf>>
          /\ \A k \in Members : k # m => hpc'[k] = hpc[k]
      BY <1>0, <2>3
      DEF HandlerReply, HandlerAt, HandlersOK, rightVars, clientVars
    <3>2. /\ net'[n] = "open" => net[n] = "open"
          /\ n # m => inbox'[n] = inbox[n]
          /\ net[m] = "open" => inbox'[m] = Append(inbox[m], buf[m])
      BY <1>0, <3>1, WriteEffect
    <3>3. CASE n = m
      <4>1. OpenAfter(readonly[m], Append(inbox[m], buf[m])) <=> S(m)
        BY <1>0, <3>1, OpenAfterAppend DEF Settled
      <4>2. net[m] = "open" => (S(m)' <=> S(m))
        BY <3>1, <3>2, <4>1 DEF Settled
      <4> QED
        BY <1>a, <3>1, <3>2, <3>3, <4>2
    <3>4. CASE n # m
      BY <1>c, <1>d, <3>1, <3>2, <3>4
    <3> QED
      BY <3>3, <3>4
  <2>4. CASE HandlerBroadcast(m)
    <3>1. UNCHANGED <<ud, readonly, hpc, buf>>
      BY <2>4 DEF HandlerBroadcast, rightVars, clientVars
    <3>2. CASE UNCHANGED <<net, status, inbox>>
      BY <1>c, <1>d, <3>1, <3>2
    <3>3. CASE /\ clnt_socks[sd[m]] \notin {m, None}
               /\ WriteTo(clnt_socks[sd[m]], buf[m])
      <4>1. sd[m] \in Slots
        BY <1>0, <2>4, SharedFileAssumption
        DEF HandlerBroadcast, SlotsLeft, Slots, HandlersOK, SocketsOK,
            SharedFileAssumption
      <4>2. clnt_socks[sd[m]] \in Members
        BY <1>0, <3>3, <4>1 DEF SocketsOK
      <4>3. buf[m].kind = "7" /\ buf[m] \in Messages
        BY <1>0, <2>4 DEF HandlerBroadcast, HandlerAt, Underway
      <4>4. /\ net'[n] = "open" => net[n] = "open"
            /\ n # clnt_socks[sd[m]] => inbox'[n] = inbox[n]
        BY <1>0, <3>3, <4>2, <4>3, WriteEffect
      <4>5. CASE n = clnt_socks[sd[m]]
        <5>1. net[n] = "open" => (S(n)' <=> S(n))
          BY <1>e, <3>1, <3>3, <4>2, <4>3, <4>5
        <5> QED
          BY <1>a, <3>1, <4>4, <5>1
      <4>6. CASE n # clnt_socks[sd[m]]
        BY <1>c, <1>d, <3>1, <4>4, <4>6
      <4> QED
        BY <4>5, <4>6
    <3> QED
      BY <2>4, <3>2, <3>3 DEF HandlerBroadcast
  <2>5. CASE HandlerEdit(m) \/ HandlerRewind(m) \/ HandlerPut(m)
    <3>1. UNCHANGED <<net, ud, readonly, inbox>>
      BY <2>5
      DEF HandlerEdit, HandlerRewind, HandlerPut, rightVars, clientVars
    <3>2. \/ hpc'[n] = hpc[n] /\ buf'[n] = buf[n]
          \/ hpc[n] # "reply" /\ hpc'[n] # "reply"
      BY <1>0, <2>5
      DEF HandlerEdit, HandlerRewind, HandlerPut, Reads, HandlerAt, HandlersOK
    <3> QED
      BY <1>c, <1>d, <3>1, <3>2
  <2> QED
    BY <1>3, <2>1, <2>2, <2>3, <2>4, <2>5 DEF HandlerServes
<1>4. ASSUME NEW m \in Members, HandlerLeaves(m) \/ HandlerDrop(m),
             NEW n \in Members
      PROVE  Agrees(n)'
  <2>1. UNCHANGED <<ud, readonly, inbox, buf>>
    BY <1>4
    DEF HandlerLeaves, HandlerReadError, HandlerLeave, HandlerDrop, rightVars,
        clientVars
  <2>2. net'[n] = "open" => net[n] = "open"
    BY <1>0, <1>4
    DEF HandlerLeaves, HandlerReadError, HandlerLeave, HandlerDrop, AfterWrites
  <2>3. hpc'[n] = hpc[n] \/ (hpc[n] # "reply" /\ hpc'[n] # "reply")
    BY <1>0, <1>4
    DEF HandlerLeaves, HandlerReadError, HandlerLeave, HandlerDrop, HandlerAt,
        HandlersOK
  <2> QED
    BY <1>c, <1>d, <2>1, <2>2, <2>3
<1>5. CASE UNCHANGED vars
  <2>1. UNCHANGED <<net, ud, readonly, inbox, hpc, buf>>
    BY <1>5 DEF vars, rightVars, clientVars
  <2> QED
    BY <1>c, <1>d, <2>1
<1> QED
  BY <1>1, <1>2, <1>3, <1>4, <1>5, Steps

-----------------------------------------------------------------------------
(* Texts under way.                                                        *)

\* What one more message does to the texts of a stream.
LEMMA TextAppend ==
  ASSUME NEW S, NEW s \in Seq(S), NEW msg \in S
  PROVE  /\ HasText(Append(s, msg)) <=> HasText(s) \/ msg.kind = "7"
         /\ msg.kind = "7" => LastText(Append(s, msg), msg.text)
         /\ msg.kind # "7" =>
              \A x : LastText(s, x) => LastText(Append(s, msg), x)
<1> DEFINE t == Append(s, msg)
<1>1. /\ Len(s) \in Nat /\ DOMAIN s = 1 .. Len(s)
      /\ t \in Seq(S) /\ Len(t) = Len(s) + 1
      /\ \A i \in 1 .. Len(s) : t[i] = s[i]
      /\ t[Len(s) + 1] = msg
  BY AppendProperties, LenProperties
<1>2. DOMAIN t = 1 .. Len(s) + 1
  BY <1>1, LenProperties
<1> HIDE DEF t
<1>3. HasText(t) <=> HasText(s) \/ msg.kind = "7"
  BY <1>1, <1>2 DEF HasText
<1>4. msg.kind = "7" => LastText(t, msg.text)
  BY <1>1, <1>2 DEF LastText
<1>5. ASSUME msg.kind # "7", NEW x, LastText(s, x)
      PROVE  LastText(t, x)
  BY <1>1, <1>2, <1>5 DEF LastText
<1> QED
  BY <1>3, <1>4, <1>5 DEF t

\* What reading the first message does to them.
LEMMA TextTail ==
  ASSUME NEW S, NEW s \in Seq(S), s # <<>>
  PROVE  /\ HasText(s) <=> HasText(Tail(s)) \/ Head(s).kind = "7"
         /\ \A x : LastText(s, x) =>
              IF HasText(Tail(s)) THEN LastText(Tail(s), x)
                                  ELSE Head(s).kind = "7" /\ Head(s).text = x
<1> DEFINE t == Tail(s)
<1>1. /\ Len(s) \in Nat \ {0} /\ DOMAIN s = 1 .. Len(s)
      /\ t \in Seq(S) /\ Len(t) = Len(s) - 1
      /\ \A i \in 1 .. Len(t) : t[i] = s[i + 1]
      /\ Head(s) = s[1]
  BY HeadTailProperties, LenProperties, EmptySeq
<1>2. DOMAIN t = 1 .. Len(s) - 1
  BY <1>1, LenProperties
<1> HIDE DEF t
<1>3. \A j \in DOMAIN s : j # 1 => j - 1 \in DOMAIN t /\ t[j - 1] = s[j]
  BY <1>1, <1>2
<1>4. \A i \in DOMAIN t : i + 1 \in DOMAIN s /\ s[i + 1] = t[i] /\ i \in Nat
  BY <1>1, <1>2
<1>5. HasText(s) <=> HasText(t) \/ Head(s).kind = "7"
  <2>1. 1 \in DOMAIN s
    BY <1>1
  <2> QED
    BY <1>1, <1>3, <1>4, <2>1, ZenonT(30) DEF HasText
<1>6. ASSUME NEW x, LastText(s, x)
      PROVE  IF HasText(t) THEN LastText(t, x)
                           ELSE Head(s).kind = "7" /\ Head(s).text = x
  <2>1. PICK i \in DOMAIN s : /\ s[i].kind = "7" /\ s[i].text = x
                              /\ \A j \in DOMAIN s : j > i => s[j].kind # "7"
    BY <1>6 DEF LastText
  <2>2. CASE i = 1
    <3>1. ~HasText(t)
      <4>1. ASSUME NEW j \in DOMAIN t
            PROVE  t[j].kind # "7"
        <5>1. j + 1 \in DOMAIN s /\ s[j + 1] = t[j] /\ j + 1 > i
          BY <1>1, <1>2, <1>4, <2>2
        <5> QED
          BY <2>1, <5>1
      <4> QED
        BY <4>1 DEF HasText
    <3> QED
      BY <1>1, <2>1, <2>2, <3>1
  <2>3. CASE i # 1
    <3>1. i - 1 \in DOMAIN t /\ t[i - 1] = s[i] /\ i \in Nat
      BY <1>1, <1>3, <2>3
    <3>2. ASSUME NEW j \in DOMAIN t, j > i - 1
          PROVE  t[j].kind # "7"
      <4>1. j + 1 \in DOMAIN s /\ s[j + 1] = t[j] /\ j + 1 > i
        BY <1>4, <3>1, <3>2
      <4> QED
        BY <2>1, <4>1
    <3>3. LastText(t, x) /\ HasText(t)
      BY <2>1, <3>1, <3>2 DEF LastText, HasText
    <3> QED
      BY <3>3
  <2> QED
    BY <2>2, <2>3
<1> QED
  BY <1>5, <1>6 DEF t

\* What both do to what an edit box will show.
LEMMA ShowsAppend ==
  ASSUME NEW S, NEW s \in Seq(S), NEW msg \in S, NEW v
  PROVE  /\ msg.kind = "7" => Shows(v, Append(s, msg), msg.text)
         /\ msg.kind # "7" =>
              \A x : Shows(v, s, x) => Shows(v, Append(s, msg), x)
BY TextAppend DEF Shows

LEMMA ShowsReceive ==
  ASSUME NEW S, NEW s \in Seq(S), s # <<>>, NEW v, NEW x, Shows(v, s, x)
  PROVE  Shows(IF Head(s).kind = "7" THEN Head(s).text ELSE v, Tail(s), x)
BY TextTail DEF Shows

\* The steps of a run that stays clean: nobody leaves, nothing fails.
CleanAct(m) ==
  \/ Place(m) \/ Press(m) \/ (\E t \in Texts : Type(m, t)) \/ Receive(m)
  \/ HandlerEnters(m) \/ HandlerServes(m)
  \/ HandlerDrop(m) /\ m \in adrift'

LEMMA CleanSteps ==
  ASSUME TypeOK, CleanIsUndisturbed, Seated, [Next]_vars, ~UNCHANGED vars, clean'
  PROVE  /\ clean /\ Undisturbed /\ Undisturbed'
         /\ adrift \subseteq adrift' /\ Crossing' \subseteq adrift'
         /\ \E m \in Members : CleanAct(m)
<1>1. clean /\ Undisturbed
  BY CleanOnce DEF CleanIsUndisturbed
<1>2. PICK m \in Members :
        \/ (ClientActs(m) \/ HandlerInitFail(m) \/ HandlerEnters(m)
              \/ HandlerServes(m) \/ HandlerLeaves(m)) /\ Recorded({})
        \/ HandlerDrop(m) /\ Recorded({m})
  BY Steps
<1>3. Undisturbed' /\ adrift \subseteq adrift' /\ Crossing' \subseteq adrift'
  BY <1>2 DEF Recorded
<1>4. CleanAct(m)
  <2>0. SocketsOK /\ HandlersOK
    BY DEF TypeOK
  <2>1. /\ net[m] \in {"none", "open"} /\ hpc[m] # "leave"
        /\ net'[m] \in {"none", "open"} /\ hpc'[m] # "failed"
    BY <1>1, <1>3 DEF Undisturbed, Seated, Inside, Outside
  <2>2. CASE ClientActs(m)
    <3>1. ~\E how \in Deaths : Die(m, how)
      BY <2>0, <2>1, SharedFileAssumption DEF SharedFileAssumption, Die, SocketsOK
    <3> QED
      BY <2>2, <3>1 DEF ClientActs, CleanAct
  <2>3. ~HandlerInitFail(m) /\ ~HandlerLeaves(m)
    BY <2>0, <2>1
    DEF HandlerInitFail, HandlerLeaves, HandlerReadError, HandlerLeave, HandlerAt,
        HandlersOK
  <2>4. CASE HandlerDrop(m) /\ Recorded({m})
    BY <2>4 DEF Recorded, CleanAct
  <2> QED
    BY <1>2, <2>2, <2>3, <2>4 DEF CleanAct
<1> QED
  BY <1>1, <1>3, <1>4

\* In a clean run a member that is there is connected.
LEMMA CleanIsOpen ==
  ASSUME TypeOK, Counted, Undisturbed, NEW m \in Members, hpc[m] # "none"
  PROVE  net[m] = "open"
BY DEF Counted, Undisturbed

\* The types that the next lemmas use.
LEMMA Typed ==
  ASSUME TypeOK
  PROVE  /\ net \in [Members -> NetStates] /\ count \in -1 .. MEMBER_MAX - 1
         /\ clnt_socks \in [Slots -> Members \cup {None}]
         /\ hpc \in [Members -> {"none", "init", "open", "load", "fetch",
              "deliver", "read", "grant", "release", "reply", "broadcast", "put",
              "leave", "exited", "failed"}]
         /\ clnt_num \in [Members -> Slots] /\ sd \in [Members -> 0 .. MEMBER_MAX]
         /\ buf \in [Members -> Messages]
         /\ outbox \in [Members -> Seq(Requests)]
         /\ inbox \in [Members -> Seq(Messages)]
         /\ readonly \in [Members -> BOOLEAN] /\ view \in [Members -> Seq(Chars)]
         /\ MEMBER_MAX \in Nat \ {0} /\ None \notin Members
         /\ adrift \subseteq Members /\ file \in Seq(Chars) /\ Len(file) \in Nat
BY SharedFileAssumption, LenProperties
DEF TypeOK, SocketsOK, FileOK, HandlersOK, ClientsOK, SharedFileAssumption

\* Whom a broadcast writes to: a member that is there.
LEMMA BroadcastTo ==
  ASSUME TypeOK, Seated, clean, NEW m \in Members, HandlerBroadcast(m)
  PROVE  LET c == clnt_socks[sd[m]] IN
           /\ sd[m] \in Slots
           /\ \/ c \in {m, None} /\ UNCHANGED <<net, status, inbox>>
              \/ c \in Members \ {m} /\ hpc[c] # "none" /\ WriteTo(c, buf[m])
<1>1. sd[m] \in Slots
  BY Typed DEF HandlerBroadcast, SlotsLeft, Slots
<1>2. clnt_socks[sd[m]] \in Members \cup {None}
  BY <1>1, Typed
<1>3. clnt_socks[sd[m]] \in Members => hpc[clnt_socks[sd[m]]] # "none"
  BY <1>1 DEF Seated
<1>4. \/ clnt_socks[sd[m]] \in {m, None} /\ UNCHANGED <<net, status, inbox>>
      \/ clnt_socks[sd[m]] \notin {m, None} /\ WriteTo(clnt_socks[sd[m]], buf[m])
  BY DEF HandlerBroadcast
<1> QED
  BY <1>1, <1>2, <1>3, <1>4

\* What a write to a connected client does to the streams.
LEMMA Delivered ==
  ASSUME TypeOK, NEW c \in Members, net[c] = "open", NEW msg, WriteTo(c, msg)
  PROVE  /\ inbox' = [inbox EXCEPT ![c] = Append(inbox[c], msg)]
         /\ inbox'[c] = Append(inbox[c], msg)
         /\ \A n \in Members : n # c => inbox'[n] = inbox[n]
<1>1. inbox' = [inbox EXCEPT ![c] = Append(inbox[c], msg)]
  BY DEF WriteTo
<1> QED
  BY <1>1, Typed

\* Every member keeps its slot, and the newcomers are untouched.
LEMMA SeatedStep ==
  ASSUME TypeOK, Counted, Underway, CleanIsUndisturbed, Seated, FileInUse,
         [Next]_vars
  PROVE  Seated'
<1>1. CASE UNCHANGED vars
  BY <1>1 DEF Seated, Inside, Outside, HasText, vars, roomVars, clientVars
<1>2. CASE ~UNCHANGED vars
  <2>1. SUFFICES ASSUME clean', NEW n \in Members
                 PROVE  /\ (Inside(n) \/ Outside(n))'
                        /\ hpc'[n] # "none" => clnt_num'[n] <= count'
                                            /\ clnt_socks'[clnt_num'[n]] = n
                        /\ \A k \in Slots :
                             clnt_socks'[k] = n => hpc'[n] # "none" /\ clnt_num'[n] = k
                        /\ Outside(n)' =>
                             /\ readonly'[n] /\ view'[n] = <<>>
                             /\ inbox'[n] = <<>> /\ ~HasText(outbox'[n])
    BY DEF Seated
  <2>2. PICK m \in Members : CleanAct(m)
    BY <1>2, <2>1, CleanSteps
  <2>3. clean /\ Undisturbed /\ Undisturbed'
    BY <1>2, <2>1, CleanSteps
  <2>4. /\ Inside(n) \/ Outside(n)
        /\ hpc[n] # "none" => clnt_num[n] <= count /\ clnt_socks[clnt_num[n]] = n
        /\ \A k \in Slots :
             clnt_socks[k] = n => hpc[n] # "none" /\ clnt_num[n] = k
        /\ Outside(n) => /\ readonly[n] /\ view[n] = <<>> /\ inbox[n] = <<>>
                         /\ ~HasText(outbox[n])
    BY <2>3 DEF Seated
  <2>5. CASE Place(m)
    <3>1. hpc[m] = "none" /\ count + 1 \in Slots /\ clnt_socks[count + 1] = None
      BY <2>5 DEF Place, Counted
    <3>2. /\ hpc'[m] = "init" /\ clnt_num'[m] = count + 1 /\ count' = count + 1
          /\ clnt_socks' = [clnt_socks EXCEPT ![count + 1] = m]
          /\ n # m => hpc'[n] = hpc[n] /\ clnt_num'[n] = clnt_num[n]
          /\ UNCHANGED <<readonly, view, inbox, outbox>>
      BY <2>5, Typed DEF Place, clientVars
    <3>3. CASE n = m
      BY <2>4, <3>1, <3>2, <3>3, Typed DEF Inside, Outside
    <3>4. CASE n # m
      BY <2>4, <3>1, <3>2, <3>4, Typed, SMTT(30) DEF Inside, Outside, Slots
    <3> QED
      BY <3>3, <3>4
  <2>6. ASSUME UNCHANGED <<count, clnt_socks, clnt_num>>,
               hpc'[n] # "none" <=> hpc[n] # "none",
               (Inside(n) \/ Outside(n))', Outside(n)' => Outside(n),
               Outside(n)' => /\ readonly'[n] = readonly[n] /\ view'[n] = view[n]
                             /\ inbox'[n] = inbox[n] /\ outbox'[n] = outbox[n]
        PROVE  /\ (Inside(n) \/ Outside(n))'
               /\ hpc'[n] # "none" => clnt_num'[n] <= count'
                                   /\ clnt_socks'[clnt_num'[n]] = n
               /\ \A k \in Slots :
                    clnt_socks'[k] = n => hpc'[n] # "none" /\ clnt_num'[n] = k
               /\ Outside(n)' =>
                    /\ readonly'[n] /\ view'[n] = <<>>
                    /\ inbox'[n] = <<>> /\ ~HasText(outbox'[n])
    BY <2>4, <2>6
  <2>7. CASE Press(m)
    <3>1. /\ UNCHANGED <<count, clnt_socks, clnt_num, hpc, readonly, view, inbox>>
          /\ n # m => outbox'[n] = outbox[n]
          /\ outbox'[m] = Append(outbox[m], Verdict("5"))
      BY <2>7, Typed DEF Press, roomVars
    <3>2. HasText(outbox'[m]) => HasText(outbox[m])
      <4>1. Verdict("5") \in Requests /\ Verdict("5").kind = "5"
        BY MessageKinds DEF Verdict, Msg
      <4> QED
        BY <3>1, <4>1, TextAppend, Typed
    <3> QED
      BY <2>4, <3>1, <3>2 DEF Inside, Outside
  <2>8. CASE \E t \in Texts : Type(m, t)
    <3>1. /\ UNCHANGED <<count, clnt_socks, clnt_num, hpc, readonly, inbox>>
          /\ n # m => outbox'[n] = outbox[n] /\ view'[n] = view[n]
          /\ ~readonly[m]
      BY <2>8, Typed DEF Type, roomVars
    <3>2. Outside(n) => n # m
      BY <2>4, <3>1
    <3> QED
      BY <2>4, <2>6, <3>1, <3>2 DEF Inside, Outside
  <2>9. CASE Receive(m)
    <3>1. /\ UNCHANGED <<count, clnt_socks, clnt_num, hpc, outbox>>
          /\ n # m => /\ inbox'[n] = inbox[n] /\ view'[n] = view[n]
                      /\ readonly'[n] = readonly[n]
          /\ inbox[m] # <<>>
      BY <2>9, Typed DEF Receive, roomVars
    <3>2. Outside(n) => n # m
      BY <2>4, <3>1
    <3> QED
      BY <2>4, <2>6, <3>1, <3>2 DEF Inside, Outside
  <2>10. CASE HandlerEnters(m)
    <3>1. /\ UNCHANGED <<count, clnt_socks, clnt_num, readonly, view, outbox>>
          /\ Outside(m) /\ hpc[m] # "none" /\ hpc'[m] # "none"
          /\ n # m => hpc'[n] = hpc[n]
          /\ (Inside(m) \/ Outside(m))'
      <4>1. hpc'[m] # "failed"
        BY <2>3 DEF Undisturbed
      <4> QED
        BY <2>10, <4>1, Typed
        DEF HandlerEnters, HandlerInit, HandlerOpen, HandlerLoad, HandlerFetch,
            HandlerDeliver, HandlerAt, Inside, Outside, roomVars, clientVars
    <3>2. Outside(n)' => inbox'[n] = inbox[n]
      <4>1. CASE HandlerDeliver(m)
        <5>1. net[m] = "open"
          BY <2>3, <3>1, CleanIsOpen
        <5>2. n # m => inbox'[n] = inbox[n]
          BY <4>1, <5>1, Delivered DEF HandlerDeliver
        <5>3. hpc'[m] = "read"
          BY <4>1, Typed DEF HandlerDeliver
        <5> QED
          BY <5>2, <5>3 DEF Outside
      <4>2. CASE ~HandlerDeliver(m)
        BY <2>10, <4>2
        DEF HandlerEnters, HandlerInit, HandlerOpen, HandlerLoad, HandlerFetch
      <4> QED
        BY <4>1, <4>2
    <3> QED
      BY <2>4, <2>6, <3>1, <3>2 DEF Inside, Outside
  <2>11. CASE HandlerServes(m)
    <3>1. /\ UNCHANGED <<count, clnt_socks, clnt_num, readonly, view>>
          /\ Inside(m) /\ Inside(m)'
          /\ n # m => hpc'[n] = hpc[n] /\ outbox'[n] = outbox[n]
      BY <2>11, Typed
      DEF HandlerServes, HandlerRequest, HandlerGrant, HandlerRelease, HandlerReply,
          HandlerEdit, HandlerBroadcast, HandlerRewind, HandlerPut, Reads,
          HandlerAt, Inside, roomVars, clientVars
    <3>2. Outside(n) => n # m /\ inbox'[n] = inbox[n]
      <4>1. Outside(n) => n # m
        BY <3>1 DEF Inside, Outside
      <4>2. CASE HandlerReply(m)
        <5>1. net[m] = "open"
          BY <2>3, <3>1, CleanIsOpen DEF Inside
        <5> QED
          BY <4>1, <4>2, <5>1, Delivered DEF HandlerReply
      <4>3. CASE HandlerBroadcast(m)
        <5>1. CASE UNCHANGED <<net, status, inbox>>
          BY <4>1, <5>1
        <5>2. CASE ~UNCHANGED <<net, status, inbox>>
          <6> DEFINE c == clnt_socks[sd[m]]
          <6>1. c \in Members \ {m} /\ hpc[c] # "none" /\ WriteTo(c, buf[m])
            BY <2>3, <4>3, <5>2, BroadcastTo
          <6>2. net[c] = "open"
            BY <2>3, <6>1, CleanIsOpen
          <6>3. ~Outside(c)
            <7>1. hpc[c] \in {"init", "open", "load", "fetch", "deliver"} => FALSE
              BY <2>3, <4>3, <6>1 DEF Undisturbed, UsesFile, HandlerBroadcast, HandlerAt
            <7> QED
              BY <6>1, <7>1 DEF Outside
          <6> HIDE DEF c
          <6> QED
            BY <4>1, <6>1, <6>2, <6>3, Delivered
        <5> QED
          BY <5>1, <5>2
      <4>4. CASE ~HandlerReply(m) /\ ~HandlerBroadcast(m)
        BY <2>11, <4>1, <4>4
        DEF HandlerServes, HandlerRequest, HandlerGrant, HandlerRelease,
            HandlerEdit, HandlerRewind, HandlerPut
      <4> QED
        BY <4>2, <4>3, <4>4
    <3> QED
      BY <2>4, <2>6, <3>1, <3>2 DEF Inside, Outside
  <2>12. CASE HandlerDrop(m)
    <3>1. /\ UNCHANGED <<count, clnt_socks, clnt_num, hpc, readonly, view, inbox>>
          /\ hpc[m] = "read" /\ (n # m => outbox'[n] = outbox[n])
      BY <2>12, Typed DEF HandlerDrop, Reads, HandlerAt, roomVars
    <3>2. Outside(n) => n # m
      BY <3>1 DEF Outside
    <3> QED
      BY <2>4, <2>6, <3>1, <3>2 DEF Inside, Outside
  <2> QED
    BY <2>2, <2>5, <2>7, <2>8, <2>9, <2>10, <2>11, <2>12 DEF CleanAct
<1> QED
  BY <1>1, <1>2

\* The FILE is where the thread that uses it expects it.
LEMMA FileInUseStep ==
  ASSUME TypeOK, Counted, Underway, CleanIsUndisturbed, Seated, FileInUse,
         [Next]_vars
  PROVE  FileInUse'
<1>1. CASE UNCHANGED vars
  BY <1>1 DEF FileInUse, Inside, vars, fileVars
<1>2. CASE ~UNCHANGED vars
  <2>1. SUFFICES ASSUME clean', NEW n \in Members
                 PROVE  /\ Inside(n)' \/ hpc'[n] \in {"load", "fetch", "deliver"} => fp'
                        /\ hpc'[n] \in {"fetch", "put"} => pos' = 0
                        /\ hpc'[n] = "deliver" => buf'[n].text = file'
                        /\ hpc'[n] = "put" => Len(buf'[n].text) >= Len(file')
                        /\ hpc'[n] = "reply" => buf'[n].kind # "7"
    BY DEF FileInUse
  <2>2. PICK m \in Members : CleanAct(m)
    BY <1>2, <2>1, CleanSteps
  <2>3. clean /\ Undisturbed /\ Undisturbed'
    BY <1>2, <2>1, CleanSteps
  <2>4. /\ Inside(n) \/ hpc[n] \in {"load", "fetch", "deliver"} => fp
        /\ hpc[n] \in {"fetch", "put"} => pos = 0
        /\ hpc[n] = "deliver" => buf[n].text = file
        /\ hpc[n] = "put" => Len(buf[n].text) >= Len(file)
        /\ hpc[n] = "reply" => buf[n].kind # "7"
    BY <2>3 DEF FileInUse
  <2>5. /\ Inside(m) \/ hpc[m] \in {"load", "fetch", "deliver"} => fp
        /\ hpc[m] \in {"fetch", "put"} => pos = 0
        /\ \A k \in Members : UsesFile(m) /\ UsesFile(k) => k = m
        /\ hpc[m] = "open" => ~fp
        /\ hpc[m] = "broadcast" => Len(buf[m].text) >= Len(file)
    BY <2>3 DEF FileInUse, Undisturbed
  <2>6. UsesFile(m) /\ n # m => hpc[n] \notin {"load", "fetch", "deliver", "put"}
    BY <2>5 DEF UsesFile
  <2>7. CASE Place(m) \/ Press(m) \/ (\E t \in Texts : Type(m, t)) \/ Receive(m)
               \/ HandlerDrop(m)
    <3>1. /\ UNCHANGED <<fp, file, pos, buf>>
          /\ hpc'[n] = hpc[n] \/ hpc'[n] = "init"
      BY <2>7, Typed
      DEF Place, Press, Type, Receive, HandlerDrop, fileVars
    <3> QED
      BY <2>4, <3>1 DEF Inside
  <2>8. CASE HandlerInit(m)
    <3>1. /\ UNCHANGED <<fp, file, pos, buf>> /\ hpc'[m] \in {"open", "load"}
          /\ hpc'[m] = "load" => fp
          /\ n # m => hpc'[n] = hpc[n]
      BY <2>8, Typed DEF HandlerInit, fileVars
    <3> QED
      BY <2>4, <3>1 DEF Inside
  <2>9. CASE HandlerOpen(m)
    <3>1. /\ fp' /\ UsesFile(m) /\ hpc'[m] = "read" /\ buf' = buf
          /\ n # m => hpc'[n] = hpc[n]
      <4>1. hpc'[m] # "failed"
        BY <2>3 DEF Undisturbed
      <4> QED
        BY <2>9, <4>1, Typed DEF HandlerOpen, HandlerAt, UsesFile
    <3> QED
      BY <2>4, <2>6, <3>1 DEF Inside
  <2>10. CASE HandlerLoad(m)
    <3>1. /\ UNCHANGED <<fp, file, buf>> /\ pos' = 0 /\ UsesFile(m) /\ fp
          /\ hpc'[m] = "fetch" /\ (n # m => hpc'[n] = hpc[n])
      BY <2>5, <2>10, Typed DEF HandlerLoad, HandlerAt, UsesFile
    <3> QED
      BY <2>4, <3>1 DEF Inside
  <2>11. CASE HandlerFetch(m)
    <3>1. /\ UNCHANGED <<fp, file>> /\ UsesFile(m) /\ fp /\ pos = 0
          /\ hpc'[m] = "deliver"
          /\ n # m => hpc'[n] = hpc[n] /\ buf'[n] = buf[n]
          /\ buf'[m] = Msg("7", SubSeq(file, pos + 1, Len(file)))
      BY <2>5, <2>11, Typed DEF HandlerFetch, HandlerAt, UsesFile
    <3>2. SubSeq(file, 1, Len(file)) = file
      <4>1. \A i \in 1 .. Len(file) : file[i] \in Chars
        BY Typed, ElementOfSeq
      <4>2. /\ SubSeq(file, 1, Len(file)) \in Seq(Chars)
            /\ Len(SubSeq(file, 1, Len(file))) = Len(file)
            /\ \A i \in 1 .. Len(file) : SubSeq(file, 1, Len(file))[i] = file[i]
        BY <4>1, Typed, SubSeqProperties
      <4> QED
        BY <4>2, Typed, SeqEqual
    <3>3. buf'[m].text = file
      BY <3>1, <3>2 DEF Msg
    <3>4. n # m => hpc'[n] \notin {"load", "fetch", "deliver", "put"}
      BY <2>6, <3>1
    <3> QED
      BY <2>4, <3>1, <3>3, <3>4 DEF Inside
  <2>12. CASE HandlerDeliver(m)
    <3>1. /\ UNCHANGED <<fp, file, pos, buf>> /\ fp
          /\ hpc'[m] = "read" /\ (n # m => hpc'[n] = hpc[n])
      BY <2>5, <2>12, Typed DEF HandlerDeliver, HandlerAt, fileVars
    <3> QED
      BY <2>4, <3>1 DEF Inside
  <2>13. CASE HandlerRequest(m) \/ HandlerGrant(m) \/ HandlerRelease(m)
    <3>1. /\ UNCHANGED <<fp, file, pos>> /\ fp
          /\ hpc'[m] \in {"grant", "release", "reply"}
          /\ n # m => hpc'[n] = hpc[n] /\ buf'[n] = buf[n]
          /\ hpc'[m] = "reply" => buf'[m] \in {Verdict(v) : v \in Verdicts}
      BY <2>5, <2>13, Typed
      DEF HandlerRequest, HandlerGrant, HandlerRelease, Reads, HandlerAt, Inside,
          ReleaseReply, Verdicts, fileVars
    <3>2. hpc'[m] = "reply" => buf'[m].kind # "7"
      BY <3>1 DEF Verdicts, Verdict, Msg
    <3> QED
      BY <2>4, <3>1, <3>2
  <2>14. CASE HandlerReply(m) \/ HandlerBroadcast(m)
    <3>1. /\ UNCHANGED <<fp, file, pos, buf>> /\ fp
          /\ hpc'[m] \in {"read", "broadcast"} /\ (n # m => hpc'[n] = hpc[n])
      BY <2>5, <2>14, Typed
      DEF HandlerReply, HandlerBroadcast, HandlerAt, Inside, fileVars
    <3> QED
      BY <2>4, <3>1
  <2>15. CASE HandlerEdit(m)
    <3>1. /\ UNCHANGED <<fp, file, pos>> /\ fp /\ hpc'[m] = "broadcast"
          /\ n # m => hpc'[n] = hpc[n] /\ buf'[n] = buf[n]
      BY <2>5, <2>15, Typed DEF HandlerEdit, Reads, HandlerAt, Inside, fileVars
    <3> QED
      BY <2>4, <3>1
  <2>16. CASE HandlerRewind(m)
    <3>1. /\ UNCHANGED <<fp, file, buf>> /\ pos' = 0 /\ fp /\ hpc'[m] = "put"
          /\ Len(buf[m].text) >= Len(file)
          /\ n # m => hpc'[n] = hpc[n]
      BY <2>5, <2>16, Typed DEF HandlerRewind, HandlerAt, Inside
    <3> QED
      BY <2>4, <3>1
  <2>17. CASE HandlerPut(m)
    <3>1. /\ UNCHANGED <<fp, buf>> /\ fp /\ hpc'[m] = "read" /\ UsesFile(m)
          /\ n # m => hpc'[n] = hpc[n]
      BY <2>5, <2>17, Typed DEF HandlerPut, HandlerAt, Inside, UsesFile
    <3>2. hpc'[n] \notin {"load", "fetch", "deliver", "put"}
      BY <2>6, <3>1
    <3> QED
      BY <2>4, <3>1, <3>2
  <2> QED
    BY <2>2, <2>7, <2>8, <2>9, <2>10, <2>11, <2>12, <2>13, <2>14, <2>15, <2>16,
       <2>17
    DEF CleanAct, HandlerEnters, HandlerServes
<1> QED
  BY <1>1, <1>2

\* A member's edit box keeps the last of its edits that are under way.
LEMMA EditsStep ==
  ASSUME TypeOK, Counted, Underway, CleanIsUndisturbed, Seated, EditsFollow,
         [Next]_vars
  PROVE  EditsFollow'
<1>1. Crossing' \subseteq adrift'
  <2>1. CASE UNCHANGED vars
    BY <2>1 DEF EditsFollow, Crossing, HasText, vars, clientVars
  <2> QED
    BY <2>1, Steps DEF Recorded
<1>2. CASE UNCHANGED vars
  BY <1>1, <1>2 DEF EditsFollow, HasText, LastText, vars, clientVars
<1>3. CASE ~UNCHANGED vars
  <2>1. SUFFICES ASSUME clean', NEW n \in Members, n \notin adrift',
                        HasText(outbox'[n])
                 PROVE  LastText(outbox'[n], view'[n])
    BY <1>1 DEF EditsFollow
  <2>2. PICK m \in Members : CleanAct(m)
    BY <1>3, <2>1, CleanSteps
  <2>3. clean /\ n \notin adrift
    BY <1>3, <2>1, CleanSteps
  <2>4. HasText(outbox[n]) => LastText(outbox[n], view[n]) /\ ~HasText(inbox[n])
    BY <2>3 DEF EditsFollow, Crossing
  <2>5. CASE UNCHANGED <<outbox, view>>
    BY <2>1, <2>4, <2>5
  <2>6. CASE Press(m)
    <3>1. /\ outbox'[m] = Append(outbox[m], Verdict("5")) /\ view' = view
          /\ n # m => outbox'[n] = outbox[n]
      BY <2>6, Typed DEF Press
    <3>2. Verdict("5") \in Requests /\ Verdict("5").kind # "7"
      BY MessageKinds DEF Verdict, Msg
    <3>3. outbox[m] \in Seq(Requests)
      BY Typed
    <3>4. /\ HasText(outbox'[m]) <=> HasText(outbox[m])
          /\ \A x : LastText(outbox[m], x) => LastText(outbox'[m], x)
      BY <3>1, <3>2, <3>3, TextAppend
    <3> QED
      BY <2>1, <2>4, <3>1, <3>4
  <2>7. CASE \E t \in Texts : Type(m, t)
    <3>1. PICK t \in Texts : Type(m, t)
      BY <2>7
    <3>2. /\ outbox'[m] = Append(outbox[m], Msg("7", t)) /\ view'[m] = t
          /\ n # m => outbox'[n] = outbox[n] /\ view'[n] = view[n]
      BY <3>1, Typed DEF Type
    <3>3. Msg("7", t) \in Requests /\ Msg("7", t).kind = "7" /\ Msg("7", t).text = t
      BY MessageKinds, SharedFileAssumption DEF SharedFileAssumption, Msg
    <3>4. LastText(outbox'[m], t)
      BY <3>2, <3>3, TextAppend, Typed
    <3> QED
      BY <2>1, <2>4, <3>2, <3>4
  <2>8. CASE Receive(m)
    <3>1. /\ inbox[m] # <<>> /\ outbox' = outbox
          /\ n # m => view'[n] = view[n]
          /\ Head(inbox[m]).kind # "7" => view'[m] = view[m]
      BY <2>8, Typed DEF Receive
    <3>2. ~HasText(inbox[m]) => Head(inbox[m]).kind # "7"
      BY <3>1, TextTail, Typed
    <3> QED
      BY <2>1, <2>4, <3>1, <3>2
  <2>9. ASSUME Reads(m, "5") \/ Reads(m, "7"), view' = view
        PROVE  LastText(outbox'[n], view'[n])
    <3>1. /\ outbox[m] # <<>> /\ outbox'[m] = Tail(outbox[m])
          /\ n # m => outbox'[n] = outbox[n]
      BY <2>9, Typed DEF Reads
    <3>2. CASE n = m
      <4>1. outbox[m] \in Seq(Requests)
        BY Typed
      <4>2. /\ HasText(outbox'[m]) => HasText(outbox[m])
            /\ \A x : LastText(outbox[m], x) /\ HasText(outbox'[m])
                        => LastText(outbox'[m], x)
        BY <3>1, <4>1, TextTail
      <4> QED
        BY <2>1, <2>4, <2>9, <3>2, <4>2
    <3>3. CASE n # m
      BY <2>1, <2>4, <2>9, <3>1, <3>3
    <3> QED
      BY <3>2, <3>3
  <2>10. CASE HandlerRequest(m) \/ HandlerEdit(m) \/ HandlerDrop(m)
    BY <2>9, <2>10 DEF HandlerRequest, HandlerEdit, HandlerDrop
  <2>11. CASE \/ Place(m) \/ HandlerEnters(m)
              \/ HandlerGrant(m) \/ HandlerRelease(m) \/ HandlerReply(m)
              \/ HandlerBroadcast(m) \/ HandlerRewind(m) \/ HandlerPut(m)
    BY <2>5, <2>11
    DEF Place, HandlerEnters, HandlerInit, HandlerOpen, HandlerLoad, HandlerFetch,
        HandlerDeliver, HandlerGrant, HandlerRelease, HandlerReply,
        HandlerBroadcast, HandlerRewind, HandlerPut, clientVars
  <2> QED
    BY <2>2, <2>6, <2>7, <2>8, <2>10, <2>11 DEF CleanAct, HandlerServes
<1> QED
  BY <1>2, <1>3

\* An edit that is written over a file that is no longer replaces it.
LEMMA OverwriteAll ==
  ASSUME NEW old \in Seq(Chars), NEW new \in Seq(Chars), Len(new) >= Len(old)
  PROVE  Overwrite(old, 0, new) = new
<1> DEFINE left == SubSeq(old, 1, 0)
           right == SubSeq(old, 0 + Len(new) + 1, Len(old))
<1>1. Len(old) \in Nat /\ Len(new) \in Nat
  BY LenProperties
<1>2. left = <<>> /\ right = <<>>
  <2>1. /\ \A i \in 1 .. 0 : old[i] \in Chars
        /\ \A i \in 0 + Len(new) + 1 .. Len(old) : old[i] \in Chars
    BY <1>1, ElementOfSeq
  <2>2. left \in Seq(Chars) /\ Len(left) = 0
    BY <1>1, <2>1, SubSeqProperties
  <2>3. right \in Seq(Chars) /\ Len(right) = 0
    BY <1>1, <2>1, SubSeqProperties
  <2> QED
    BY <2>2, <2>3, EmptySeq
<1>3. Overwrite(old, 0, new) = (left \o new) \o right
  BY DEF Overwrite
<1> HIDE DEF left, right
<1>4. <<>> \o new = new /\ new \o <<>> = new
  BY ConcatEmptySeq
<1> QED
  BY <1>2, <1>3, <1>4

\* A thread that is neither broadcasting nor storing an edit.
Idle(pc) == pc \notin {"broadcast", "put"}

\* What a member sees stays the latest when no edit gets further, and its own
\* messages change nothing.
LEMMA SameLatest ==
  ASSUME NEW n \in Members, NEW m \in Members, SeesLatest(n), file' = file,
         clnt_num'[n] = clnt_num[n],
         Idle(hpc[m]), Idle(hpc'[m]),
         \A w \in Members \ {m} :
           hpc'[w] = hpc[w] /\ buf'[w] = buf[w] /\ sd'[w] = sd[w],
         \A x : Shows(view[n], inbox[n], x) => Shows(view'[n], inbox'[n], x)
  PROVE  SeesLatest(n)'
<1>1. \A w \in Members :
        /\ HasReached(w, n)' <=> HasReached(w, n)
        /\ HasReached(w, n) => buf'[w] = buf[w]
  BY DEF HasReached, Idle
<1> QED
  BY <1>1 DEF SeesLatest

\* While a thread uses the FILE no other one broadcasts or stores an edit.
LEMMA NoneReaches ==
  ASSUME Undisturbed, NEW m \in Members, UsesFile(m), Idle(hpc[m]), NEW n
  PROVE  \A w \in Members : ~HasReached(w, n)
BY DEF Undisturbed, UsesFile, Idle, HasReached

LEMMA OneReaches ==
  ASSUME Undisturbed, NEW m \in Members, UsesFile(m), NEW n
  PROVE  \A w \in Members \ {m} : ~HasReached(w, n)
BY DEF Undisturbed, UsesFile, HasReached

\* Every step leads everybody to the latest text.
LEMMA TextsStep ==
  ASSUME TypeOK, Counted, Underway, CleanIsUndisturbed, Seated, FileInUse,
         EditsFollow, TextsFollow, [Next]_vars
  PROVE  TextsFollow'
<1>1. CASE UNCHANGED vars
  BY <1>1
  DEF TextsFollow, SeesLatest, HasReached, Shows, HasText, LastText, Inside, vars,
      fileVars, clientVars
<1>2. CASE ~UNCHANGED vars
  <2>1. SUFFICES ASSUME clean', NEW n \in Members, n \notin adrift',
                        Inside(n)', ~HasText(outbox'[n])
                 PROVE  SeesLatest(n)'
    BY DEF TextsFollow
  <2>2. PICK m \in Members : CleanAct(m)
    BY <1>2, <2>1, CleanSteps
  <2>3. clean /\ Undisturbed /\ Undisturbed' /\ n \notin adrift
    BY <1>2, <2>1, CleanSteps
  <2>4. Inside(n) /\ ~HasText(outbox[n]) => SeesLatest(n)
    BY <2>3 DEF TextsFollow
  <2>5. ASSUME Inside(n), ~HasText(outbox[n]), UNCHANGED <<file, clnt_num, view, inbox>>,
               Idle(hpc[m]), Idle(hpc'[m]),
               \A w \in Members \ {m} :
                 hpc'[w] = hpc[w] /\ buf'[w] = buf[w] /\ sd'[w] = sd[w]
        PROVE  SeesLatest(n)'
    BY <2>4, <2>5, SameLatest
  <2>6. CASE Place(m)
    <3>1. /\ hpc[m] = "none" /\ hpc'[m] = "init"
          /\ \A w \in Members \ {m} : hpc'[w] = hpc[w] /\ clnt_num'[w] = clnt_num[w]
          /\ UNCHANGED <<file, view, inbox, outbox, buf, sd>>
      BY <2>6, Typed DEF Place, Counted, fileVars, clientVars
    <3>2. n # m /\ Inside(n)
      BY <2>1, <3>1 DEF Inside
    <3> QED
      BY <2>1, <2>4, <3>1, <3>2, SameLatest DEF Idle
  <2>7. CASE Press(m) \/ (\E t \in Texts : Type(m, t)) \/ Receive(m)
    <3>1. /\ UNCHANGED <<file, clnt_num, hpc, buf, sd>> /\ Inside(n)
      BY <2>1, <2>7 DEF Press, Type, Receive, fileVars, Inside
    <3>2. ~HasText(outbox[n]) /\ \A x : Shows(view[n], inbox[n], x)
                                         => Shows(view'[n], inbox'[n], x)
      <4>1. CASE n # m
        BY <2>1, <2>7, <4>1, Typed DEF Press, Type, Receive
      <4>2. CASE n = m /\ Press(m)
        <5>1. UNCHANGED <<view, inbox>> /\ outbox'[m] = Append(outbox[m], Verdict("5"))
          BY <4>2, Typed DEF Press
        <5>2. Verdict("5") \in Requests /\ outbox[m] \in Seq(Requests)
          BY MessageKinds, Typed
        <5>3. ~HasText(outbox[m])
          BY <2>1, <4>2, <5>1, <5>2, TextAppend
        <5> QED
          BY <4>2, <5>1, <5>3
      <4>3. CASE n = m /\ \E t \in Texts : Type(m, t)
        <5>1. PICK t \in Texts : Type(m, t)
          BY <4>3
        <5>2. /\ outbox'[m] = Append(outbox[m], Msg("7", t))
              /\ Msg("7", t) \in Requests /\ Msg("7", t).kind = "7"
              /\ outbox[m] \in Seq(Requests)
          BY <5>1, Typed, MessageKinds, SharedFileAssumption
          DEF Type, SharedFileAssumption
        <5>3. HasText(outbox'[m])
          BY <5>2, TextAppend
        <5> QED
          BY <2>1, <4>3, <5>3
      <4>4. CASE n = m /\ Receive(m)
        <5>1. /\ inbox[m] \in Seq(Messages) /\ inbox[m] # <<>>
              /\ inbox'[m] = Tail(inbox[m]) /\ outbox' = outbox
              /\ view'[m] = IF Head(inbox[m]).kind = "7" THEN Head(inbox[m]).text
                                                         ELSE view[m]
          BY <4>4, Typed DEF Receive
        <5> QED
          BY <2>1, <4>4, <5>1, ShowsReceive
      <4> QED
        BY <2>7, <4>1, <4>2, <4>3, <4>4
    <3>3. SeesLatest(n)
      BY <2>4, <3>1, <3>2
    <3>4. \A w \in Members :
            (HasReached(w, n)' <=> HasReached(w, n)) /\ buf'[w] = buf[w]
      BY <3>1 DEF HasReached
    <3> QED
      BY <3>1, <3>2, <3>3, <3>4 DEF SeesLatest
  <2>8. CASE HandlerInit(m) \/ HandlerLoad(m) \/ HandlerFetch(m)
    <3>1. /\ UNCHANGED <<file, clnt_num, view, inbox, outbox, sd>>
          /\ hpc[m] \in {"init", "load", "fetch"}
          /\ hpc'[m] \in {"open", "load", "fetch", "deliver"}
          /\ \A w \in Members \ {m} : hpc'[w] = hpc[w] /\ buf'[w] = buf[w]
      BY <2>8, Typed
      DEF HandlerInit, HandlerLoad, HandlerFetch, HandlerAt, fileVars, clientVars
    <3>2. n # m /\ Inside(n)
      BY <2>1, <3>1 DEF Inside
    <3> QED
      BY <2>1, <2>5, <3>1, <3>2 DEF Idle
  <2>9. CASE HandlerOpen(m)
    <3>1. /\ file' = <<>> /\ UNCHANGED <<view, inbox>> /\ Outside(m) /\ ~fp
          /\ hpc'[m] = "read"
          /\ \A w \in Members \ {m} : hpc'[w] = hpc[w]
      <4>1. hpc'[m] # "failed" /\ (hpc[m] = "open" => ~fp)
        BY <2>3 DEF Undisturbed
      <4> QED
        BY <2>9, <4>1, Typed DEF HandlerOpen, HandlerAt, Outside, clientVars
    <3>2. \A w \in Members : ~Inside(w)
      BY <2>3, <3>1 DEF FileInUse
    <3>3. \A w \in Members : ~HasReached(w, n)'
      BY <3>1, <3>2 DEF HasReached, Inside
    <3>4. n = m
      BY <2>1, <3>1, <3>2 DEF Inside
    <3>5. view'[n] = <<>> /\ inbox'[n] = <<>>
      BY <2>3, <3>1, <3>4 DEF Seated
    <3>6. ~HasText(<<>>)
      BY DEF HasText
    <3>7. Shows(view'[n], inbox'[n], file')
      BY <3>1, <3>5, <3>6 DEF Shows
    <3> QED
      BY <3>3, <3>7 DEF SeesLatest
  <2>10. CASE HandlerDeliver(m)
    <3>1. /\ WriteTo(m, buf[m]) /\ UNCHANGED <<file, clnt_num, view, outbox, buf, sd>>
          /\ hpc[m] = "deliver" /\ hpc'[m] = "read" /\ UsesFile(m)
          /\ \A w \in Members \ {m} : hpc'[w] = hpc[w]
      BY <2>10, Typed DEF HandlerDeliver, HandlerAt, UsesFile, fileVars, clientVars
    <3>2. net[m] = "open"
      BY <2>3, <3>1, CleanIsOpen
    <3>3. /\ inbox'[m] = Append(inbox[m], buf[m])
          /\ n # m => inbox'[n] = inbox[n]
      BY <3>1, <3>2, Delivered
    <3>4. CASE n # m
      <4>1. Inside(n) /\ ~HasText(outbox[n])
        BY <2>1, <3>1, <3>4 DEF Inside
      <4> QED
        BY <2>4, <3>1, <3>3, <3>4, <4>1, SameLatest DEF Idle
    <3>5. CASE n = m
      <4>1. \A w \in Members : ~HasReached(w, n)'
        <5>1. \A w \in Members : ~HasReached(w, n)
          BY <2>3, <3>1, NoneReaches DEF Idle
        <5> QED
          BY <3>1, <5>1 DEF HasReached
      <4>2. /\ buf[m].kind = "7" /\ buf[m].text = file
            /\ buf[m] \in Messages /\ inbox[m] \in Seq(Messages)
        BY <2>3, <3>1, Typed DEF FileInUse, Underway
      <4>3. Shows(view[m], Append(inbox[m], buf[m]), file)
        BY <4>2, ShowsAppend
      <4> QED
        BY <3>1, <3>3, <3>5, <4>1, <4>3 DEF SeesLatest
    <3> QED
      BY <3>4, <3>5
  <2>11. CASE HandlerGrant(m) \/ HandlerRelease(m)
    <3>1. /\ UNCHANGED <<file, clnt_num, view, inbox, outbox, sd>>
          /\ hpc[m] \in {"grant", "release"} /\ hpc'[m] = "reply"
          /\ \A w \in Members \ {m} : hpc'[w] = hpc[w] /\ buf'[w] = buf[w]
      BY <2>11, Typed DEF HandlerGrant, HandlerRelease, HandlerAt, fileVars, clientVars
    <3>2. Inside(n)
      BY <2>1, <3>1 DEF Inside
    <3> QED
      BY <2>1, <2>5, <3>1, <3>2 DEF Idle
  <2>12. CASE HandlerRequest(m)
    <3>1. /\ UNCHANGED <<file, clnt_num, view, inbox, sd>>
          /\ hpc[m] = "read" /\ hpc'[m] \in {"grant", "release", "reply"}
          /\ outbox[m] # <<>> /\ outbox'[m] = Tail(outbox[m])
          /\ Head(outbox[m]).kind = "5"
          /\ \A w \in Members \ {m} :
               hpc'[w] = hpc[w] /\ buf'[w] = buf[w] /\ outbox'[w] = outbox[w]
      BY <2>12, Typed DEF HandlerRequest, Reads, HandlerAt, fileVars
    <3>2. outbox[m] \in Seq(Requests)
      BY Typed
    <3>3. HasText(outbox'[m]) <=> HasText(outbox[m])
      BY <3>1, <3>2, TextTail
    <3>4. Inside(n) /\ ~HasText(outbox[n])
      BY <2>1, <3>1, <3>3 DEF Inside
    <3> QED
      BY <2>5, <3>1, <3>4 DEF Idle
  <2>13. CASE HandlerReply(m)
    <3>1. /\ WriteTo(m, buf[m]) /\ UNCHANGED <<file, clnt_num, view, outbox, buf, sd>>
          /\ hpc[m] = "reply" /\ hpc'[m] = "read"
          /\ \A w \in Members \ {m} : hpc'[w] = hpc[w]
      BY <2>13, Typed DEF HandlerReply, HandlerAt, fileVars, clientVars
    <3>2. net[m] = "open"
      BY <2>3, <3>1, CleanIsOpen
    <3>3. /\ inbox'[m] = Append(inbox[m], buf[m])
          /\ n # m => inbox'[n] = inbox[n]
      BY <3>1, <3>2, Delivered
    <3>4. buf[m].kind # "7" /\ buf[m] \in Messages /\ inbox[m] \in Seq(Messages)
      BY <2>3, <3>1, Typed DEF FileInUse
    <3>5. \A x : Shows(view[m], inbox[m], x) => Shows(view[m], inbox'[m], x)
      BY <3>3, <3>4, ShowsAppend
    <3>6. Inside(n) /\ ~HasText(outbox[n])
      BY <2>1, <3>1 DEF Inside
    <3> QED
      BY <2>4, <3>1, <3>3, <3>5, <3>6, SameLatest DEF Idle
  <2>14. CASE HandlerDrop(m) /\ m \in adrift'
    <3>1. /\ UNCHANGED <<file, clnt_num, view, inbox, hpc, buf, sd>>
          /\ hpc[m] = "read" /\ n # m
          /\ \A w \in Members \ {m} : outbox'[w] = outbox[w]
      BY <2>1, <2>14, Typed DEF HandlerDrop, Reads, HandlerAt, fileVars
    <3>2. Inside(n) /\ ~HasText(outbox[n])
      BY <2>1, <3>1 DEF Inside
    <3> QED
      BY <2>5, <3>1, <3>2 DEF Idle
  <2>15. CASE HandlerEdit(m)
    <3>1. /\ UNCHANGED <<file, clnt_num, view, inbox>>
          /\ hpc[m] = "read" /\ hpc'[m] = "broadcast" /\ sd'[m] = 0
          /\ outbox[m] # <<>> /\ outbox'[m] = Tail(outbox[m])
          /\ Head(outbox[m]).kind = "7" /\ buf'[m] = Head(outbox[m])
          /\ \A w \in Members \ {m} :
               /\ hpc'[w] = hpc[w] /\ buf'[w] = buf[w] /\ outbox'[w] = outbox[w]
               /\ sd'[w] = sd[w]
      BY <2>15, Typed DEF HandlerEdit, Reads, HandlerAt, fileVars
    <3>2. \A w \in Members \ {m} : ~HasReached(w, n)'
      BY <2>3, <3>1 DEF Undisturbed, UsesFile, HasReached
    <3>3. \A w \in Members : ~HasReached(w, n)
      BY <3>1, <3>2 DEF HasReached
    <3>4. CASE n # m
      <4>1. ~HasReached(m, n)'
        <5>1. clnt_num[n] \in Nat
          BY Typed DEF Slots
        <5> QED
          BY <3>1, <3>4, <5>1 DEF HasReached
      <4>2. Shows(view[n], inbox[n], file)
        BY <2>1, <2>4, <3>1, <3>3, <3>4 DEF Inside, SeesLatest
      <4> QED
        BY <3>1, <3>2, <4>1, <4>2 DEF SeesLatest
    <3>5. CASE n = m
      <4>1. outbox[m] \in Seq(Requests)
        BY Typed
      <4>2. HasText(outbox[m]) /\ ~HasText(Tail(outbox[m]))
        BY <2>1, <3>1, <3>5, <4>1, TextTail
      <4>3. LastText(outbox[m], view[m]) /\ ~HasText(inbox[m])
        BY <2>3, <3>5, <4>2 DEF EditsFollow, Crossing
      <4>4. Head(outbox[m]).text = view[m]
        BY <3>1, <4>1, <4>2, <4>3, TextTail
      <4>5. Shows(view'[n], inbox'[n], buf'[m].text)
        BY <3>1, <3>5, <4>3, <4>4 DEF Shows
      <4>6. HasReached(m, n)'
        BY <3>1, <3>5 DEF HasReached
      <4> QED
        BY <3>2, <4>5, <4>6 DEF SeesLatest
    <3> QED
      BY <3>4, <3>5
  <2>16. CASE HandlerBroadcast(m)
    <3>1. /\ UNCHANGED <<file, clnt_num, view, outbox, buf, hpc>>
          /\ hpc[m] = "broadcast" /\ sd'[m] = sd[m] + 1 /\ UsesFile(m)
          /\ \A w \in Members \ {m} : sd'[w] = sd[w]
      BY <2>16, Typed
      DEF HandlerBroadcast, NextSlot, HandlerAt, UsesFile, fileVars, clientVars
    <3>2. Inside(n) /\ SeesLatest(n) /\ hpc[n] # "none"
      BY <2>1, <2>4, <3>1 DEF Inside
    <3>3. \A w \in Members \ {m} : ~HasReached(w, n) /\ ~HasReached(w, n)'
      BY <2>3, <3>1 DEF Undisturbed, UsesFile, HasReached
    <3>4. /\ clnt_socks[clnt_num[n]] = n
          /\ clnt_num[n] \in Nat /\ sd[m] \in Nat
      BY <2>3, <3>2, Typed DEF Seated, Slots
    <3> DEFINE c == clnt_socks[sd[m]]
    <3>5. \/ c \in {m, None} /\ UNCHANGED <<net, status, inbox>>
          \/ c \in Members \ {m} /\ hpc[c] # "none" /\ WriteTo(c, buf[m])
      BY <2>3, <2>16, BroadcastTo
    <3>6. None \notin Members
      BY Typed
    <3>7. CASE n # m /\ clnt_num[n] = sd[m]
      <4>1. c = n
        BY <3>4, <3>7
      <4>2. WriteTo(n, buf[m]) /\ net[n] = "open"
        BY <2>3, <3>2, <3>5, <3>6, <3>7, <4>1, CleanIsOpen
      <4>3. inbox'[n] = Append(inbox[n], buf[m])
        BY <4>2, Delivered
      <4>4. buf[m].kind = "7" /\ buf[m] \in Messages /\ inbox[n] \in Seq(Messages)
        BY <3>1, Typed DEF Underway
      <4>5. Shows(view'[n], inbox'[n], buf'[m].text)
        BY <3>1, <4>3, <4>4, ShowsAppend
      <4>6. HasReached(m, n)'
        BY <3>1, <3>4, <3>7 DEF HasReached
      <4> QED
        BY <3>3, <4>5, <4>6 DEF SeesLatest
    <3>8. CASE ~(n # m /\ clnt_num[n] = sd[m])
      <4>1. c = n => clnt_num[n] = sd[m]
        BY <2>3, <2>16, BroadcastTo DEF Seated
      <4>2. inbox'[n] = inbox[n]
        <5>1. CASE c \in {m, None} /\ UNCHANGED <<net, status, inbox>>
          BY <5>1
        <5>2. CASE c \in Members \ {m} /\ hpc[c] # "none" /\ WriteTo(c, buf[m])
          <6>1. n # c /\ net[c] = "open"
            BY <2>3, <3>8, <4>1, <5>2, CleanIsOpen
          <6> HIDE DEF c
          <6> QED
            BY <5>2, <6>1, Delivered
        <5> QED
          BY <3>5, <5>1, <5>2
      <4>3. HasReached(m, n)' <=> HasReached(m, n)
        BY <3>1, <3>4, <3>8 DEF HasReached
      <4>4. \A w \in Members : HasReached(w, n)' <=> HasReached(w, n)
        BY <3>3, <4>3
      <4> QED
        BY <3>1, <3>2, <4>2, <4>4 DEF SeesLatest
    <3> QED
      BY <3>7, <3>8
  <2>17. CASE HandlerRewind(m)
    <3>1. /\ UNCHANGED <<file, clnt_num, view, inbox, outbox, buf, sd>>
          /\ hpc[m] = "broadcast" /\ hpc'[m] = "put" /\ UsesFile(m)
          /\ ~(sd[m] <= count)
          /\ \A w \in Members \ {m} : hpc'[w] = hpc[w]
      BY <2>17, Typed
      DEF HandlerRewind, SlotsLeft, HandlerAt, UsesFile, fileVars, roomVars, clientVars
    <3>2. Inside(n) /\ SeesLatest(n) /\ hpc[n] # "none"
      BY <2>1, <2>4, <3>1 DEF Inside
    <3>3. /\ clnt_num[n] <= count /\ clnt_num[n] \in Nat
          /\ sd[m] \in Nat /\ count \in Int
      BY <2>3, <3>2, Typed DEF Seated, Slots
    <3>4. clnt_num[n] < sd[m]
      BY <3>1, <3>3
    <3>5. HasReached(m, n) /\ HasReached(m, n)'
      BY <3>1, <3>4 DEF HasReached
    <3>6. \A w \in Members : HasReached(w, n)' <=> HasReached(w, n)
      BY <3>1, <3>5 DEF HasReached
    <3> QED
      BY <3>1, <3>2, <3>6 DEF SeesLatest
  <2>18. CASE HandlerPut(m)
    <3>1. /\ UNCHANGED <<clnt_num, view, inbox, outbox, buf>>
          /\ hpc[m] = "put" /\ hpc'[m] = "read" /\ UsesFile(m)
          /\ file' = Overwrite(file, pos, buf[m].text)
          /\ \A w \in Members \ {m} : hpc'[w] = hpc[w]
      BY <2>18, Typed DEF HandlerPut, HandlerAt, UsesFile, clientVars
    <3>2. SeesLatest(n)
      BY <2>1, <2>4, <3>1 DEF Inside
    <3>3. Shows(view[n], inbox[n], buf[m].text)
      BY <3>1, <3>2 DEF SeesLatest, HasReached
    <3>4. file' = buf[m].text
      <4>1. pos = 0 /\ Len(buf[m].text) >= Len(file) /\ buf[m].text \in Seq(Chars)
        BY <2>3, <3>1, Typed, MessageKinds DEF FileInUse, Underway
      <4> QED
        BY <3>1, <4>1, Typed, OverwriteAll
    <3>5. \A w \in Members : ~HasReached(w, n)'
      BY <2>3, <3>1 DEF Undisturbed, UsesFile, HasReached
    <3> QED
      BY <3>1, <3>3, <3>4, <3>5 DEF SeesLatest
  <2> QED
    BY <2>2, <2>6, <2>7, <2>8, <2>9, <2>10, <2>11, <2>12, <2>13, <2>14, <2>15,
       <2>16, <2>17, <2>18
    DEF CleanAct, HandlerEnters, HandlerServes
<1> QED
  BY <1>1, <1>2

-----------------------------------------------------------------------------
(* The theorems.                                                           *)

\* The inductive invariant holds when the room is made (serv_init).
LEMMA InitIInv == Init => IInv
<1>1. ASSUME Init
      PROVE  IInv
  <2>0. /\ None \notin Members /\ MEMBER_MAX \in Nat \ {0}
        /\ MaxMessages \in Nat /\ FreshRights \in BOOLEAN
    BY SharedFileAssumption DEF SharedFileAssumption
  <2>1. SocketsOK /\ FileOK
    <3>1. SocketsOK
      <4>1. -1 \in -1 .. MEMBER_MAX - 1
        BY <2>0
      <4> QED
        BY <1>1, <4>1 DEF Init, SocketsOK, NetStates
    <3>2. <<>> \in Seq(Chars) /\ Len(<<>>) = 0
      BY EmptySeq
    <3>3. FALSE \in BOOLEAN /\ 0 \in 0 .. 0
      OBVIOUS
    <3>4. fp = FALSE /\ file = <<>> /\ pos = 0
      BY <1>1 DEF Init
    <3>5. FileOK
      BY <3>2, <3>3, <3>4 DEF FileOK
    <3> QED
      BY <3>1, <3>5
  <2>2. HandlersOK
    BY <1>1, <2>0, MessageKinds DEF Init, HandlersOK, Slots, Verdicts
  <2>3. ClientsOK
    BY <1>1, <2>0, EmptySeq DEF Init, ClientsOK
  <2>4. Present = {}
    BY <1>1 DEF Init, Present
  <2>5. Counted
    BY <1>1, <2>4, FS_EmptySet DEF Init, Counted
  <2>6. Underway /\ CleanIsUndisturbed /\ RightsAccounted
    BY <1>1
    DEF Init, Underway, CleanIsUndisturbed, Undisturbed, Claims, UsesFile,
        RightsAccounted
  <2>7. RepliesAgree
    BY <1>1 DEF Init, RepliesAgree
  <2>8. Seated /\ FileInUse
    <3>1. ~HasText(<<>>)
      BY DEF HasText
    <3>2. \A m \in Members : m # None
      BY <2>0
    <3> QED
      BY <1>1, <3>1, <3>2 DEF Init, Seated, FileInUse, Inside, Outside
  <2>9. EditsFollow /\ TextsFollow
    <3>1. ~HasText(<<>>)
      BY DEF HasText
    <3> QED
      BY <1>1, <3>1 DEF Init, EditsFollow, TextsFollow, Crossing, Inside
  <2> QED
    BY <2>1, <2>2, <2>3, <2>5, <2>6, <2>7, <2>8, <2>9 DEF IInv, TypeOK
<1> QED
  BY <1>1

\* Every step of a client or of a thread keeps it.
LEMMA StepIInv == IInv /\ [Next]_vars => IInv'
<1>1. SUFFICES ASSUME IInv, [Next]_vars
               PROVE  IInv'
  OBVIOUS
<1>2. /\ TypeOK /\ Counted /\ Underway /\ CleanIsUndisturbed
      /\ RightsAccounted /\ RepliesAgree
      /\ Seated /\ FileInUse /\ EditsFollow /\ TextsFollow
  BY <1>1 DEF IInv
<1>3. TypeOK'
  BY <1>1, <1>2, SocketsOKStep, FileOKStep, HandlersOKStep, ClientsOKStep
  DEF TypeOK
<1>4. Counted' /\ Underway' /\ CleanIsUndisturbed' /\ RightsAccounted'
  BY <1>1, <1>2, CountedStep, UnderwayStep, CleanStep, RightsStep
<1>5. RepliesAgree'
  BY <1>1, <1>2, <1>3, RepliesStep
<1>6. Seated' /\ FileInUse' /\ EditsFollow' /\ TextsFollow'
  BY <1>1, <1>2, SeatedStep, FileInUseStep, EditsStep, TextsStep
<1> QED
  BY <1>3, <1>4, <1>5, <1>6 DEF IInv

\* Every behaviour of a room keeps the inductive invariant.
THEOREM Invariance == Spec => []IInv
BY InitIInv, StepIInv, PTL DEF Spec

\* Every variable keeps to the values the code can store in it.
THEOREM TypeCorrect == Spec => []TypeOK
<1>1. IInv => TypeOK
  BY DEF IInv
<1> QED
  BY Invariance, <1>1, PTL

\* The room's flag is never up without a holder, and while grants do not
\* overlap no holder finds it down.
THEOREM RightsKept == Spec => []RightsAccounted
<1>1. IInv => RightsAccounted
  BY DEF IInv
<1> QED
  BY Invariance, <1>1, PTL

\* Whatever the races between grants, an edit box whose owner has read all its
\* replies is open exactly when the owner's thread holds the right.
THEOREM RepliesKept == Spec => []RepliesAgree
<1>1. IInv => RepliesAgree
  BY DEF IInv
<1> QED
  BY Invariance, <1>1, PTL

\* In a clean run everybody sees the file once all messages have been handled,
\* except those who typed out of turn: the last edit is the last text that each
\* edit box receives, whenever its owner has entered.
THEOREM TextsConverge == Spec => []Convergence
<1>1. ASSUME IInv, clean, Quiescent, NEW m \in Members \ adrift, hpc[m] = "read"
      PROVE  view[m] = file
  <2>1. outbox[m] = <<>> /\ inbox[m] = <<>>
    BY <1>1 DEF Quiescent
  <2>2. ~HasText(<<>>) /\ \A x : ~LastText(<<>>, x)
    BY DEF HasText, LastText
  <2>3. SeesLatest(m)
    BY <1>1, <2>1, <2>2 DEF IInv, TextsFollow, Inside
  <2>4. \A w \in Members : ~HasReached(w, m)
    BY <1>1 DEF Quiescent, HasReached
  <2>5. Shows(view[m], inbox[m], file)
    BY <2>3, <2>4 DEF SeesLatest
  <2> QED
    BY <2>1, <2>2, <2>5 DEF Shows
<1>2. IInv => Convergence
  BY <1>1 DEF Convergence, Converged
<1> QED
  BY Invariance, <1>2, PTL

=============================================================================

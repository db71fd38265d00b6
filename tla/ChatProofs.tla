----------------------------- MODULE ChatProofs -----------------------------
(***************************************************************************)
(* Proofs about Chat, for every number of members, slots, lines, failures  *)
(* and connections.  First what one write() does and how lines are         *)
(* counted, then one lemma per part of IInv (ChatInductive), and the steps *)
(* of Chat as steps of ChatRoom; the theorems are at the end.              *)
(***************************************************************************)
EXTENDS ChatInductive, SequenceTheorems, FiniteSetTheorems, TLAPS

Shown == [line : Lines, live : BOOLEAN]

\* The elements of a sequence that are in a set, counted before and after one is
\* appended.
LEMMA CountAppend ==
  ASSUME NEW S, NEW s \in Seq(S), NEW e \in S, NEW T
  PROVE  /\ Cardinality({i \in DOMAIN s : s[i] \in T}) \in Nat
         /\ Cardinality({i \in DOMAIN Append(s, e) : Append(s, e)[i] \in T})
              = Cardinality({i \in DOMAIN s : s[i] \in T})
                  + (IF e \in T THEN 1 ELSE 0)
<1> DEFINE t == Append(s, e)
           old == {i \in DOMAIN s : s[i] \in T}
           new == {i \in DOMAIN t : t[i] \in T}
<1>1. /\ Len(s) \in Nat /\ DOMAIN s = 1 .. Len(s)
      /\ DOMAIN t = 1 .. Len(s) + 1
      /\ \A i \in 1 .. Len(s) : t[i] = s[i]
      /\ t[Len(s) + 1] = e
  BY AppendProperties, LenProperties
<1>2. IsFiniteSet(old) /\ Cardinality(old) \in Nat
  <2>1. IsFiniteSet(1 .. Len(s)) /\ old \in SUBSET (1 .. Len(s))
    BY <1>1, FS_Interval
  <2> QED
    BY <2>1, FS_Subset, FS_CardinalityType
<1>3. Len(s) + 1 \notin old
  BY <1>1
<1>4. new = IF e \in T THEN old \cup {Len(s) + 1} ELSE old
  BY <1>1
<1>5. Cardinality(new) = Cardinality(old) + (IF e \in T THEN 1 ELSE 0)
  <2> DEFINE k == Len(s) + 1
  <2>1. new = IF e \in T THEN old \cup {k} ELSE old
    BY <1>4
  <2>2. k \notin old
    BY <1>3
  <2> HIDE DEF old, new, k
  <2>3. Cardinality(old \cup {k}) = Cardinality(old) + 1
    BY <1>2, <2>2, FS_AddElement
  <2> QED
    BY <1>2, <2>1, <2>3
<1> QED
  BY <1>2, <1>5

\* An empty sequence has none.
LEMMA CountEmpty ==
  \A T : Cardinality({i \in DOMAIN <<>> : <<>>[i] \in T}) = 0
<1>1. \A T : {i \in DOMAIN <<>> : <<>>[i] \in T} = {}
  OBVIOUS
<1> QED
  BY <1>1, FS_EmptySet

LEMMA RecordsOfLines ==
  /\ \A m \in Members, n \in 1 .. MaxLines : [from |-> m, n |-> n] \in Lines
  /\ \A line \in Lines : /\ line.from \in Members /\ line.n \in 1 .. MaxLines
                         /\ line = [from |-> line.from, n |-> line.n]
  /\ \A line \in Lines : /\ Live(line) \in Shown /\ Stored(line) \in Shown
                         /\ Live(line).live /\ ~Stored(line).live
                         /\ Live(line).line = line /\ Stored(line).line = line
BY DEF Lines, Shown, Live, Stored

\* One write() to a client.
LEMMA WriteEffect ==
  ASSUME TypeOK, NEW c \in Members, NEW shown \in Shown, WriteTo(c, shown)
  PROVE  /\ net' \in [Members -> NetStates]
         /\ status' \in {"up", "sigpipe"}
         /\ screen' \in [Members -> Seq(Shown)]
         /\ \A n \in Members :
              /\ net'[n] = "open" <=> net[n] = "open"
              /\ net'[n] = "none" <=> net[n] = "none"
              /\ n # c => screen'[n] = screen[n]
         /\ IF net[c] = "open" THEN screen'[c] = Append(screen[c], shown)
                               ELSE screen'[c] = screen[c]
<1>1. net \in [Members -> NetStates] /\ status \in {"up", "sigpipe"}
      /\ screen \in [Members -> Seq(Shown)]
  BY DEF TypeOK, RoomOK, TalkOK, Shown
<1>2. Append(screen[c], shown) \in Seq(Shown)
  BY <1>1, AppendProperties
<1>3. /\ AfterWrites(net[c], 1) \in NetStates
      /\ AfterWrites(net[c], 1) = "open" <=> net[c] = "open"
      /\ AfterWrites(net[c], 1) = "none" <=> net[c] = "none"
  BY <1>1 DEF AfterWrites, NetStates
<1> HIDE DEF AfterWrites, NetStates, Shown
<1>4. /\ net' = [net EXCEPT ![c] = AfterWrites(net[c], 1)]
      /\ status' \in {"up", "sigpipe"}
      /\ screen' = IF net[c] = "open"
                     THEN [screen EXCEPT ![c] = Append(screen[c], shown)] ELSE screen
  BY <1>1 DEF WriteTo
<1> QED
  BY <1>1, <1>2, <1>3, <1>4

-----------------------------------------------------------------------------
(* Type correctness.                                                       *)

\* The line that a thread handles is one that its client has said.
LEMMA BufIsLine ==
  ASSUME TypeOK, LinesInOrder, NEW m \in Members
  PROVE  /\ Len(outbox[m]) \in Nat /\ said[m] \in 0 .. MaxLines /\ MaxLines \in Nat
         /\ Heard(m) \in 0 .. said[m]
         /\ Handles(m) => buf[m] \in Lines /\ buf[m].from = m /\ buf[m].n = Heard(m)
<1>1. Len(outbox[m]) \in Nat /\ said[m] \in 0 .. MaxLines /\ MaxLines \in Nat
      /\ Len(outbox[m]) <= said[m]
  BY ChatAssumption, LenProperties DEF TypeOK, TalkOK, LinesInOrder, ChatAssumption
<1>2. Heard(m) \in 0 .. said[m] /\ Heard(m) \in 0 .. MaxLines
  BY <1>1 DEF Heard
<1>3. Handles(m) => Heard(m) > 0 /\ buf[m] = [from |-> m, n |-> Heard(m)]
  BY DEF LinesInOrder
<1> QED
  BY <1>1, <1>2, <1>3, RecordsOfLines

\* The sockets, the mutex and the slots.
LEMMA RoomOKStep ==
  ASSUME TypeOK, Placed, LinesInOrder, [Next]_vars
  PROVE  RoomOK'
<1> USE DEF RoomOK
<1>0. /\ MEMBER_MAX \in Nat \ {0} /\ Deaths \subseteq {"fin", "rst"}
      /\ RoomOK /\ clnt_num \in [Members -> Slots]
      /\ result \in [Members -> Seq(Lines)] /\ sd \in [Members -> 0 .. MEMBER_MAX]
  BY ChatAssumption DEF ChatAssumption, TypeOK, ThreadsOK
<1>1. ASSUME NEW m \in Members, ClientActs(m)
      PROVE  RoomOK'
  <2>1. CASE Place(m)
    BY <1>0, <2>1 DEF Place, Slots, NetStates
  <2>2. CASE \E how \in Deaths : Die(m, how)
    BY <1>0, <2>2 DEF Die, roomVars, NetStates
  <2>3. CASE Speak(m)
    BY <1>0, <2>3 DEF Speak, roomVars
  <2> QED
    BY <1>1, <2>1, <2>2, <2>3 DEF ClientActs
<1>2. ASSUME NEW m \in Members, HandlerEnters(m)
      PROVE  RoomOK'
  <2>1. CASE Start(m)
    <3>1. \A c \in Members : AfterWrites(net[c], 1) \in NetStates
      BY <1>0 DEF AfterWrites, NetStates
    <3> QED
      BY <1>0, <2>1, <3>1 DEF Start, roomVars
  <2>2. CASE HandlerReplay(m)
    <3>1. Head(result[m]) \in Lines
      BY <1>0, <2>2, HeadTailProperties DEF HandlerReplay
    <3>2. Stored(Head(result[m])) \in Shown
      BY <3>1, RecordsOfLines
    <3> QED
      BY <1>0, <2>2, <3>2, WriteEffect DEF HandlerReplay, roomVars
  <2>3. CASE HandlerReplayed(m)
    BY <1>0, <2>3 DEF HandlerReplayed, roomVars, AfterWrites, NetStates
  <2>4. CASE HandlerSelect(m)
    BY <1>0, <2>4 DEF HandlerSelect, roomVars
  <2> QED
    BY <1>2, <2>1, <2>2, <2>3, <2>4 DEF HandlerEnters
<1>3. ASSUME NEW m \in Members, HandlerSend(m)
      PROVE  RoomOK'
  <2>1. CASE UNCHANGED <<net, status, screen>>
    BY <1>0, <1>3, <2>1 DEF HandlerSend, roomVars
  <2>2. CASE clnt_socks[sd[m]] # None /\ WriteTo(clnt_socks[sd[m]], Live(buf[m]))
    <3>1. sd[m] \in Slots
      BY <1>0, <1>3 DEF HandlerSend, SlotsLeft, Slots
    <3>2. clnt_socks[sd[m]] \in Members
      BY <1>0, <2>2, <3>1
    <3>3. Live(buf[m]) \in Shown
      BY <1>3, BufIsLine, RecordsOfLines DEF HandlerSend, HandlerAt, Handles
    <3> QED
      BY <1>0, <1>3, <2>2, <3>2, <3>3, WriteEffect DEF HandlerSend, roomVars
  <2> QED
    BY <1>3, <2>1, <2>2 DEF HandlerSend
<1>4. ASSUME NEW m \in Members,
             HandlerRead(m) \/ HandlerSent(m) \/ HandlerStore(m) \/ HandlerFails(m)
      PROVE  RoomOK'
  BY <1>0, <1>4
  DEF HandlerRead, HandlerSent, HandlerStore, HandlerFails, HandlerSelectFail,
      HandlerStoreFail, MutexAfterFailure, roomVars
<1>5. ASSUME NEW m \in Members, HandlerReadError(m)
      PROVE  RoomOK'
  BY <1>0, <1>5 DEF HandlerReadError, roomVars, AfterWrites, NetStates
<1>6. ASSUME NEW m \in Members, HandlerLeave(m)
      PROVE  RoomOK'
  <2>1. IsFiniteSet(Present) /\ m \in Present
    <3>1. m \in Present
      BY <1>6 DEF HandlerLeave, HandlerAt, Present
    <3>2. IsFiniteSet(Present)
      BY ChatAssumption, FS_Subset DEF ChatAssumption, Present
    <3> QED
      BY <3>1, <3>2
  <2>2. Cardinality(Present) # 0 /\ Cardinality(Present) \in Nat
    BY <2>1, FS_EmptySet, FS_CardinalityType
  <2>3. count' = count - 1 /\ count >= 0
    BY <1>0, <1>6, <2>2 DEF HandlerLeave, CountAfterLeave, Placed
  <2>4. net' \in [Members -> NetStates]
        /\ clnt_socks' \in [Slots -> Members \cup {None}]
    BY <1>0, <1>6 DEF HandlerLeave, NetStates
  <2>5. count' \in -1 .. MEMBER_MAX - 1
    BY <1>0, <2>3
  <2> QED
    BY <1>0, <1>6, <2>4, <2>5 DEF HandlerLeave
<1>7. CASE UNCHANGED vars
  BY <1>0, <1>7 DEF vars, roomVars
<1> QED
  BY <1>1, <1>2, <1>3, <1>4, <1>5, <1>6, <1>7
  DEF Next, HandlerRuns, HandlerChats, HandlerLeaves

\* The threads' counters, buffers and indexes.
LEMMA ThreadsOKStep ==
  ASSUME TypeOK, [Next]_vars
  PROVE  ThreadsOK'
<1> USE DEF ThreadsOK
<1>0. /\ ThreadsOK /\ MEMBER_MAX \in Nat \ {0}
      /\ count \in -1 .. MEMBER_MAX - 1
      /\ chat_tb \in Seq(Lines) /\ outbox \in [Members -> Seq(Lines)]
  BY ChatAssumption DEF ChatAssumption, TypeOK, RoomOK, TalkOK
<1>1. ASSUME NEW m \in Members, ClientActs(m)
      PROVE  ThreadsOK'
  BY <1>0, <1>1 DEF ClientActs, Place, Speak, Die, Slots
<1>2. ASSUME NEW m \in Members, HandlerEnters(m)
      PROVE  ThreadsOK'
  <2>1. CASE HandlerReplay(m)
    <3>1. Tail(result[m]) \in Seq(Lines)
      BY <1>0, <2>1, HeadTailProperties DEF HandlerReplay
    <3>2. result' = [result EXCEPT ![m] = Tail(result[m])]
      BY <2>1 DEF HandlerReplay
    <3>3. result' \in [Members -> Seq(Lines)]
      BY <1>0, <3>1, <3>2
    <3>4. UNCHANGED <<hpc, clnt_num, buf, sd>>
      BY <2>1 DEF HandlerReplay
    <3> QED
      BY <1>0, <3>3, <3>4
  <2>2. CASE HandlerReplayed(m)
    <3>1. result' \in [Members -> Seq(Lines)]
      <4>1. result' = result \/ result' = [result EXCEPT ![m] = <<>>]
        BY <2>2 DEF HandlerReplayed
      <4>2. <<>> \in Seq(Lines)
        BY EmptySeq
      <4> QED
        BY <1>0, <4>1, <4>2
    <3>2. hpc' = [hpc EXCEPT ![m] = "read"] /\ UNCHANGED <<clnt_num, buf, sd>>
      BY <2>2 DEF HandlerReplayed
    <3> QED
      BY <1>0, <3>1, <3>2
  <2>3. CASE Start(m) \/ HandlerSelect(m)
    BY <1>0, <2>3 DEF Start, HandlerSelect
  <2> QED
    BY <1>2, <2>1, <2>2, <2>3 DEF HandlerEnters
<1>3. ASSUME NEW m \in Members, HandlerChats(m)
      PROVE  ThreadsOK'
  <2>1. CASE HandlerRead(m)
    <3>1. Head(outbox[m]) \in Lines
      BY <1>0, <2>1, HeadTailProperties DEF HandlerRead
    <3> QED
      BY <1>0, <2>1, <3>1 DEF HandlerRead
  <2>2. CASE HandlerSend(m)
    <3>1. sd[m] + 1 \in 0 .. MEMBER_MAX
      BY <1>0, <2>2 DEF HandlerSend, SlotsLeft
    <3> QED
      BY <1>0, <2>2, <3>1 DEF HandlerSend
  <2>3. CASE HandlerSent(m) \/ HandlerStore(m)
    BY <1>0, <2>3 DEF HandlerSent, HandlerStore
  <2> QED
    BY <1>3, <2>1, <2>2, <2>3 DEF HandlerChats
<1>4. ASSUME NEW m \in Members, HandlerLeaves(m) \/ HandlerFails(m)
      PROVE  ThreadsOK'
  BY <1>0, <1>4
  DEF HandlerLeaves, HandlerFails, HandlerReadError, HandlerLeave,
      HandlerSelectFail, HandlerStoreFail
<1>5. CASE UNCHANGED vars
  BY <1>0, <1>5 DEF vars
<1> QED
  BY <1>1, <1>2, <1>3, <1>4, <1>5 DEF Next, HandlerRuns

\* A step writes to a screen only in a replay or a broadcast.
LEMMA ScreenFrame ==
  ASSUME TypeOK, LinesInOrder, [Next]_vars
  PROVE  \/ UNCHANGED screen
         \/ \E m \in Members :
              /\ HandlerReplay(m)
              /\ Head(result[m]) \in Lines
              /\ WriteTo(m, Stored(Head(result[m])))
         \/ \E m, c \in Members :
              /\ HandlerSend(m) /\ SlotsLeft(m) /\ sd[m] \in Slots
              /\ c = clnt_socks[sd[m]] /\ Handles(m)
              /\ WriteTo(c, Live(buf[m]))
<1>0. /\ result \in [Members -> Seq(Lines)] /\ sd \in [Members -> 0 .. MEMBER_MAX]
      /\ clnt_socks \in [Slots -> Members \cup {None}]
      /\ count \in -1 .. MEMBER_MAX - 1 /\ MEMBER_MAX \in Nat \ {0}
  BY ChatAssumption DEF ChatAssumption, TypeOK, RoomOK, ThreadsOK
<1>1. ASSUME NEW m \in Members, HandlerReplay(m)
      PROVE  Head(result[m]) \in Lines /\ WriteTo(m, Stored(Head(result[m])))
  BY <1>0, <1>1, HeadTailProperties DEF HandlerReplay
<1>2. ASSUME NEW m \in Members, HandlerSend(m)
      PROVE  \/ UNCHANGED screen
             \/ /\ SlotsLeft(m) /\ sd[m] \in Slots
                /\ clnt_socks[sd[m]] \in Members /\ Handles(m)
                /\ WriteTo(clnt_socks[sd[m]], Live(buf[m]))
  <2>1. SlotsLeft(m) /\ Handles(m) /\ sd[m] \in Slots
    BY <1>0, <1>2 DEF HandlerSend, HandlerAt, Handles, SlotsLeft, Slots
  <2>2. \/ UNCHANGED screen
        \/ clnt_socks[sd[m]] # None /\ WriteTo(clnt_socks[sd[m]], Live(buf[m]))
    BY <1>2 DEF HandlerSend
  <2> QED
    BY <1>0, <2>1, <2>2
<1>3. ASSUME NEW m \in Members,
             ClientActs(m) \/ HandlerLeaves(m) \/ HandlerFails(m)
               \/ Start(m) \/ HandlerSelect(m) \/ HandlerReplayed(m)
               \/ HandlerRead(m) \/ HandlerSent(m) \/ HandlerStore(m)
      PROVE  UNCHANGED screen
  BY <1>3
  DEF ClientActs, Place, Speak, Die, HandlerLeaves, HandlerReadError,
      HandlerLeave, HandlerFails, HandlerSelectFail, HandlerStoreFail, Start,
      HandlerSelect, HandlerReplayed, HandlerRead, HandlerSent, HandlerStore
<1>4. CASE UNCHANGED vars
  BY <1>4 DEF vars
<1> QED
  BY <1>1, <1>2, <1>3, <1>4 DEF Next, HandlerRuns, HandlerEnters, HandlerChats

\* The screens stay sequences of lines.
LEMMA ScreenType ==
  ASSUME TypeOK, LinesInOrder, [Next]_vars
  PROVE  screen' \in [Members -> Seq(Shown)]
<1>1. screen \in [Members -> Seq(Shown)]
  BY DEF TypeOK, TalkOK, Shown
<1>2. ASSUME NEW m \in Members, Head(result[m]) \in Lines,
             WriteTo(m, Stored(Head(result[m])))
      PROVE  screen' \in [Members -> Seq(Shown)]
  BY <1>2, WriteEffect, RecordsOfLines
<1>3. ASSUME NEW m \in Members, NEW c \in Members, Handles(m),
             WriteTo(c, Live(buf[m]))
      PROVE  screen' \in [Members -> Seq(Shown)]
  <2>1. Live(buf[m]) \in Shown
    BY <1>3, BufIsLine, RecordsOfLines
  <2> QED
    BY <1>3, <2>1, WriteEffect
<1> QED
  BY <1>1, <1>2, <1>3, ScreenFrame

\* What is said, stored and shown.
LEMMA TalkOKStep ==
  ASSUME TypeOK, LinesInOrder, [Next]_vars
  PROVE  TalkOK'
<1>0. /\ TalkOK /\ MaxConns \in Nat /\ MaxFailures \in Nat /\ MaxLines \in Nat
      /\ screen' \in [Members -> Seq([line : Lines, live : BOOLEAN])]
      /\ clnt_socks \in [Slots -> Members \cup {None}]
  BY ChatAssumption, ScreenType DEF ChatAssumption, TypeOK, RoomOK, Shown
<1> USE DEF TalkOK
<1>1. ASSUME NEW m \in Members, ClientActs(m)
      PROVE  TalkOK'
  <2>1. CASE Speak(m)
    <3>1. said[m] + 1 \in 1 .. MaxLines
      BY <1>0, <2>1 DEF Speak
    <3>2. said' = [said EXCEPT ![m] = said[m] + 1]
          /\ outbox' = [outbox EXCEPT
                ![m] = Append(outbox[m], [from |-> m, n |-> said[m] + 1])]
      BY <1>0, <2>1 DEF Speak
    <3>3. Append(outbox[m], [from |-> m, n |-> said[m] + 1]) \in Seq(Lines)
      BY <1>0, <3>1, RecordsOfLines, AppendProperties
    <3>4. /\ said' \in [Members -> 0 .. MaxLines]
          /\ outbox' \in [Members -> Seq(Lines)]
      BY <1>0, <3>1, <3>2, <3>3
    <3> QED
      BY <1>0, <2>1, <3>4 DEF Speak, dbVars, historyVars
  <2>2. CASE Place(m) \/ \E how \in Deaths : Die(m, how)
    BY <1>0, <2>2 DEF Place, Die, dbVars, clientVars, historyVars
  <2> QED
    BY <1>1, <2>1, <2>2 DEF ClientActs
<1>2. ASSUME NEW m \in Members, HandlerSelect(m)
      PROVE  TalkOK'
  <2>1. \A n \in Members : hpc[n] \in {"send", "store"} => buf[n] \in Lines
    BY BufIsLine DEF Handles
  <2>2. missed' \in [Members -> SUBSET Lines]
    BY <1>0, <1>2, <2>1 DEF HandlerSelect
  <2>3. conns' \in 0 .. MaxConns
    BY <1>0, <1>2 DEF HandlerSelect
  <2> QED
    BY <1>0, <1>2, <2>2, <2>3 DEF HandlerSelect, clientVars
<1>3. ASSUME NEW m \in Members,
             Start(m) \/ HandlerReplay(m) \/ HandlerReplayed(m)
               \/ HandlerSend(m) \/ HandlerSent(m) \/ HandlerReadError(m)
      PROVE  TalkOK'
  BY <1>0, <1>3
  DEF Start, HandlerReplay, HandlerReplayed, HandlerSend, HandlerSent,
      HandlerReadError, dbVars, clientVars, historyVars
<1>4. ASSUME NEW m \in Members, HandlerRead(m)
      PROVE  TalkOK'
  <2>1. InReach \subseteq Members
    BY <1>0 DEF InReach
  <2>2. Tail(outbox[m]) \in Seq(Lines)
    BY <1>0, <1>4, HeadTailProperties DEF HandlerRead
  <2> QED
    BY <1>0, <1>4, <2>1, <2>2 DEF HandlerRead, Unread, dbVars
<1>5. ASSUME NEW m \in Members, HandlerStore(m)
      PROVE  TalkOK'
  <2>1. Append(chat_tb, buf[m]) \in Seq(Lines)
    <3>1. buf[m] \in Lines
      BY <1>5, BufIsLine DEF HandlerStore, HandlerAt, Handles
    <3> QED
      BY <1>0, <3>1, AppendProperties
  <2>2. chat_tb' = Append(chat_tb, buf[m])
    BY <1>5 DEF HandlerStore
  <2>3. chat_tb' \in Seq(Lines)
    BY <2>1, <2>2
  <2>4. conns' \in 0 .. MaxConns
    BY <1>0, <1>5 DEF HandlerStore
  <2>5. UNCHANGED <<failures, said, outbox, screen, stable, audience, missed>>
    BY <1>5 DEF HandlerStore, clientVars, historyVars
  <2> QED
    BY <1>0, <2>3, <2>4, <2>5
<1>6. ASSUME NEW m \in Members, HandlerFails(m) \/ HandlerLeave(m)
      PROVE  TalkOK'
  <2>1. conns' \in 0 .. MaxConns /\ failures' \in 0 .. MaxFailures
    BY <1>0, <1>6
    DEF HandlerFails, HandlerSelectFail, HandlerStoreFail, HandlerLeave, dbVars
  <2>2. /\ UNCHANGED <<chat_tb, said, outbox, screen, audience, missed>>
        /\ stable' \in {stable, FALSE}
    BY <1>6
    DEF HandlerFails, HandlerSelectFail, HandlerStoreFail, HandlerLeave, dbVars,
        clientVars, historyVars
  <2> QED
    BY <1>0, <2>1, <2>2
<1>7. CASE UNCHANGED vars
  BY <1>0, <1>7 DEF vars, dbVars, clientVars, historyVars
<1> QED
  BY <1>1, <1>2, <1>3, <1>4, <1>5, <1>6, <1>7
  DEF Next, HandlerRuns, HandlerEnters, HandlerChats, HandlerLeaves

-----------------------------------------------------------------------------
(* Who is where.                                                           *)

\* A step that neither places a client nor ends its thread leaves the slots, and
\* who is present, as they are.
LEMMA QuietStep ==
  ASSUME TypeOK, LinesInOrder, [Next]_vars,
         \A m \in Members : ~Place(m) /\ ~HandlerLeave(m)
  PROVE  /\ UNCHANGED <<count, clnt_socks, clnt_num, stable>>
         /\ \A n \in Members :
              /\ net'[n] = "none" <=> net[n] = "none"
              /\ net'[n] = "open" => net[n] = "open"
              /\ hpc'[n] = "none" <=> hpc[n] = "none"
              /\ hpc'[n] = "exited" <=> hpc[n] = "exited"
<1> DEFINE Quiet ==
      /\ UNCHANGED <<count, clnt_socks, clnt_num, stable>>
      /\ \A n \in Members :
           /\ net'[n] = "none" <=> net[n] = "none"
           /\ net'[n] = "open" => net[n] = "open"
           /\ hpc'[n] = "none" <=> hpc[n] = "none"
           /\ hpc'[n] = "exited" <=> hpc[n] = "exited"
<1>0. /\ net \in [Members -> NetStates] /\ DOMAIN hpc = Members
      /\ Deaths \subseteq {"fin", "rst"}
  BY ChatAssumption DEF ChatAssumption, TypeOK, RoomOK, ThreadsOK
<1>1. ASSUME NEW m \in Members, Speak(m) \/ \E how \in Deaths : Die(m, how)
      PROVE  Quiet
  BY <1>0, <1>1 DEF Speak, Die, roomVars, historyVars
<1>2. ASSUME NEW m \in Members, Start(m) \/ HandlerSelect(m) \/ HandlerReplayed(m)
      PROVE  Quiet
  BY <1>0, <1>2
  DEF Start, HandlerSelect, HandlerReplayed, HandlerAt, AfterWrites, roomVars,
      historyVars
<1>3. ASSUME NEW m \in Members, HandlerReplay(m) \/ HandlerSend(m)
      PROVE  Quiet
  <2>1. UNCHANGED <<count, clnt_socks, clnt_num, stable, hpc>>
    BY <1>3 DEF HandlerReplay, HandlerSend, roomVars, historyVars
  <2>2. UNCHANGED net \/ \E c \in Members, shown \in Shown : WriteTo(c, shown)
    <3>1. CASE HandlerReplay(m)
      <4>1. Head(result[m]) \in Lines
        BY <3>1, HeadTailProperties DEF HandlerReplay, TypeOK, ThreadsOK
      <4> QED
        BY <3>1, <4>1, RecordsOfLines DEF HandlerReplay
    <3>2. CASE HandlerSend(m)
      <4>1. sd[m] \in Slots
        BY <3>2, ChatAssumption
        DEF HandlerSend, SlotsLeft, Slots, TypeOK, RoomOK, ThreadsOK, ChatAssumption
      <4>2. clnt_socks[sd[m]] \in Members \cup {None}
        BY <4>1 DEF TypeOK, RoomOK
      <4>3. Live(buf[m]) \in Shown
        BY <3>2, BufIsLine, RecordsOfLines DEF HandlerSend, HandlerAt, Handles
      <4> QED
        BY <3>2, <4>2, <4>3 DEF HandlerSend
    <3> QED
      BY <1>3, <3>1, <3>2
  <2> QED
    BY <2>1, <2>2, WriteEffect
<1>4. ASSUME NEW m \in Members,
             HandlerRead(m) \/ HandlerSent(m) \/ HandlerStore(m) \/ HandlerFails(m)
      PROVE  Quiet
  BY <1>0, <1>4
  DEF HandlerRead, HandlerSent, HandlerStore, HandlerFails, HandlerSelectFail,
      HandlerStoreFail, HandlerAt, roomVars, historyVars
<1>5. ASSUME NEW m \in Members, HandlerReadError(m)
      PROVE  Quiet
  BY <1>0, <1>5
  DEF HandlerReadError, HandlerAt, AfterWrites, roomVars, historyVars
<1>6. ASSUME UNCHANGED vars
      PROVE  Quiet
  BY <1>6 DEF vars, roomVars, historyVars
<1> HIDE DEF Quiet
<1>7. ASSUME NEW m \in Members, ClientActs(m) \/ HandlerRuns(m)
      PROVE  Quiet
  <2>1. ~Place(m) /\ ~HandlerLeave(m)
    OBVIOUS
  <2> QED
    BY <1>1, <1>2, <1>3, <1>4, <1>5, <1>7, <2>1
    DEF ClientActs, HandlerRuns, HandlerEnters, HandlerChats, HandlerLeaves
<1>8. Quiet
  BY <1>6, <1>7 DEF Next
<1> QED
  BY <1>8 DEF Quiet

\* Every client is counted once while it is present, and has its own slot.
LEMMA PlacedStep ==
  ASSUME TypeOK, Placed, LinesInOrder, [Next]_vars
  PROVE  Placed'
<1>0. /\ DOMAIN hpc = Members /\ DOMAIN net = Members /\ None \notin Members
      /\ clnt_num \in [Members -> Slots]
      /\ clnt_socks \in [Slots -> Members \cup {None}]
      /\ count \in Int
      /\ IsFiniteSet(Present) /\ count + 1 = Cardinality(Present)
  <2>1. IsFiniteSet(Present)
    BY ChatAssumption, FS_Subset DEF ChatAssumption, Present
  <2> QED
    BY <2>1, ChatAssumption
    DEF ChatAssumption, TypeOK, RoomOK, ThreadsOK, Placed
<1>1. ASSUME NEW m \in Members, Place(m)
      PROVE  Placed'
  <2>1. /\ hpc[m] = "none" /\ net[m] = "none"
        /\ count + 1 \in Slots /\ clnt_socks[count + 1] = None
        /\ hpc' = [hpc EXCEPT ![m] = "placed"]
        /\ net' = [net EXCEPT ![m] = "open"]
        /\ count' = count + 1
        /\ clnt_socks' = [clnt_socks EXCEPT ![count + 1] = m]
        /\ clnt_num' = [clnt_num EXCEPT ![m] = count + 1]
    BY <1>1 DEF Place, Placed
  <2>2. Present' = Present \cup {m} /\ m \notin Present
    BY <1>0, <2>1 DEF Present
  <2>3. count' + 1 = Cardinality(Present')
    <3>1. Cardinality(Present') = Cardinality(Present) + 1
      BY <1>0, <2>2, FS_AddElement
    <3> QED
      BY <1>0, <2>1, <3>1
  <2>4. \A n \in Members : net'[n] = "none" <=> hpc'[n] = "none"
    BY <1>0, <2>1 DEF Placed
  <2> DEFINE k == count + 1
  <2>5. /\ k \in Slots /\ clnt_socks[k] = None
        /\ clnt_socks' = [clnt_socks EXCEPT ![k] = m]
        /\ clnt_num' = [clnt_num EXCEPT ![m] = k]
    BY <2>1
  <2> HIDE DEF k
  <2>6. \A p \in Present' : clnt_socks'[clnt_num'[p]] = p
    BY <1>0, <2>2, <2>5 DEF Placed, Present
  <2>7. \A j \in Slots : clnt_socks'[j] # None =>
          clnt_socks'[j] \in Present' /\ clnt_num'[clnt_socks'[j]] = j
    BY <1>0, <2>2, <2>5 DEF Placed
  <2> QED
    BY <2>3, <2>4, <2>6, <2>7 DEF Placed
<1>2. ASSUME NEW m \in Members, HandlerLeave(m)
      PROVE  Placed'
  <2>1. /\ hpc[m] = "leave" /\ hpc' = [hpc EXCEPT ![m] = "exited"]
        /\ net' = [net EXCEPT ![m] = "closed"]
        /\ count' = count - 1
        /\ clnt_socks' = [clnt_socks EXCEPT ![clnt_num[m]] = None]
        /\ clnt_num' = clnt_num
    BY <1>2 DEF HandlerLeave, HandlerAt, CountAfterLeave
  <2>2. Present' = Present \ {m} /\ m \in Present
    BY <1>0, <2>1 DEF Present
  <2>3. count' + 1 = Cardinality(Present')
    <3>1. Cardinality(Present') = Cardinality(Present) - 1
      BY <1>0, <2>2, FS_RemoveElement
    <3> QED
      BY <1>0, <2>1, <3>1
  <2>4. \A n \in Members : net'[n] = "none" <=> hpc'[n] = "none"
    BY <1>0, <2>1 DEF Placed
  <2>5. \A p \in Present' : clnt_socks'[clnt_num'[p]] = p
    BY <1>0, <2>1, <2>2 DEF Placed, Present
  <2>6. \A j \in Slots : clnt_socks'[j] # None =>
          clnt_socks'[j] \in Present' /\ clnt_num'[clnt_socks'[j]] = j
    BY <1>0, <2>1, <2>2 DEF Placed
  <2> QED
    BY <2>3, <2>4, <2>5, <2>6 DEF Placed
<1>3. CASE \A m \in Members : ~Place(m) /\ ~HandlerLeave(m)
  <2>1. Present' = Present
    BY <1>3, QuietStep DEF Present
  <2> QED
    BY <1>3, <2>1, QuietStep DEF Placed
<1> QED
  BY <1>1, <1>2, <1>3

\* While nobody has left, the loops reach everybody who is present.
LEMMA StableInReachStep ==
  ASSUME TypeOK, Placed, LinesInOrder, StableInReach, [Next]_vars
  PROVE  StableInReach'
<1>0. /\ DOMAIN hpc = Members /\ clnt_num \in [Members -> Slots] /\ count \in Int
      /\ MEMBER_MAX \in Nat \ {0}
  BY ChatAssumption DEF ChatAssumption, TypeOK, RoomOK, ThreadsOK
<1>1. ASSUME NEW m \in Members, Place(m)
      PROVE  StableInReach'
  <2>1. /\ hpc' = [hpc EXCEPT ![m] = "placed"]
        /\ count' = count + 1 /\ UNCHANGED stable
        /\ clnt_num' = [clnt_num EXCEPT ![m] = count + 1]
    BY <1>1 DEF Place, historyVars
  <2>2. \A p \in Present' : p = m \/ p \in Present
    BY <1>0, <2>1 DEF Present
  <2> QED
    BY <1>0, <2>1, <2>2 DEF StableInReach, Slots, Present
<1>2. ASSUME NEW m \in Members, HandlerLeave(m)
      PROVE  StableInReach'
  BY <1>2 DEF HandlerLeave, StableInReach
<1>3. CASE \A m \in Members : ~Place(m) /\ ~HandlerLeave(m)
  <2>1. Present' = Present
    BY <1>3, QuietStep DEF Present
  <2> QED
    BY <1>3, <2>1, QuietStep DEF StableInReach
<1> QED
  BY <1>1, <1>2, <1>3

-----------------------------------------------------------------------------
(* From the client to the table.                                           *)

\* A client's lines are read in the order it said them.
LEMMA LinesInOrderStep ==
  ASSUME TypeOK, LinesInOrder, [Next]_vars
  PROVE  LinesInOrder'
<1>0. /\ DOMAIN hpc = Members /\ DOMAIN buf = Members
      /\ said \in [Members -> 0 .. MaxLines] /\ MaxLines \in Nat
      /\ outbox \in [Members -> Seq(Lines)]
  BY ChatAssumption DEF ChatAssumption, TypeOK, ThreadsOK, TalkOK
<1> DEFINE InOrder(n) ==
      /\ Len(outbox[n]) <= said[n]
      /\ \A i \in 1 .. Len(outbox[n]) :
           outbox[n][i] = [from |-> n, n |-> Heard(n) + i]
      /\ Handles(n) => Heard(n) > 0 /\ buf[n] = [from |-> n, n |-> Heard(n)]
<1>a. \A n \in Members : InOrder(n)
  BY DEF LinesInOrder
<1>b. ASSUME NEW n \in Members, said'[n] = said[n], outbox'[n] = outbox[n],
             buf'[n] = buf[n], Handles(n)' => Handles(n)
      PROVE  InOrder(n)'
  BY <1>a, <1>b DEF Heard
<1>1. ASSUME NEW m \in Members, Speak(m), NEW n \in Members
      PROVE  InOrder(n)'
  <2>1. CASE n = m
    <3> DEFINE line == [from |-> m, n |-> said[m] + 1]
    <3>1. /\ said' = [said EXCEPT ![m] = said[m] + 1]
          /\ outbox' = [outbox EXCEPT ![m] = Append(outbox[m], line)]
          /\ UNCHANGED <<hpc, buf>>
      BY <1>0, <1>1 DEF Speak
    <3>2. line \in Lines /\ said[m] + 1 \in 1 .. MaxLines
      BY <1>0, <1>1, RecordsOfLines DEF Speak
    <3> HIDE DEF line
    <3>3. /\ Len(outbox[m]) \in Nat
          /\ Len(outbox'[m]) = Len(outbox[m]) + 1
          /\ \A i \in 1 .. Len(outbox[m]) : outbox'[m][i] = outbox[m][i]
          /\ outbox'[m][Len(outbox[m]) + 1] = line
      BY <1>0, <3>1, <3>2, AppendProperties, LenProperties
    <3>4. said'[m] = said[m] + 1 /\ said[m] \in Nat
      BY <1>0, <3>1
    <3>5. Heard(m)' = Heard(m) /\ Heard(m) + (Len(outbox[m]) + 1) = said[m] + 1
          /\ Heard(m) \in Int
      <4>1. Heard(m) = said[m] - Len(outbox[m])
        BY DEF Heard
      <4>2. Heard(m)' = said'[m] - Len(outbox'[m])
        BY DEF Heard
      <4> QED
        BY <3>3, <3>4, <4>1, <4>2
    <3>6. Len(outbox'[m]) <= said'[m]
      <4>1. Len(outbox[m]) <= said[m]
        BY <1>a
      <4> QED
        BY <3>3, <3>4, <4>1
    <3>7. ASSUME NEW i \in 1 .. Len(outbox'[m])
          PROVE  outbox'[m][i] = [from |-> m, n |-> Heard(m) + i]
      <4>1. CASE i \in 1 .. Len(outbox[m])
        BY <1>a, <3>3, <4>1
      <4>2. CASE i = Len(outbox[m]) + 1
        BY <3>3, <3>5, <4>2 DEF line
      <4> QED
        BY <3>3, <4>1, <4>2
    <3> QED
      BY <1>a, <2>1, <3>1, <3>5, <3>6, <3>7 DEF Handles
  <2>2. CASE n # m
    BY <1>0, <1>1, <1>b, <2>2 DEF Speak, Handles
  <2> QED
    BY <2>1, <2>2
<1>2. ASSUME NEW m \in Members, HandlerRead(m), NEW n \in Members
      PROVE  InOrder(n)'
  <2>1. /\ outbox[m] # <<>>
        /\ buf' = [buf EXCEPT ![m] = Head(outbox[m])]
        /\ outbox' = [outbox EXCEPT ![m] = Tail(outbox[m])]
        /\ hpc' = [hpc EXCEPT ![m] = "send"] /\ UNCHANGED said
    BY <1>2 DEF HandlerRead, Unread
  <2>2. CASE n = m
    <3>1. /\ Len(outbox[m]) \in Nat \ {0} /\ Head(outbox[m]) = outbox[m][1]
          /\ Len(Tail(outbox[m])) = Len(outbox[m]) - 1
          /\ \A i \in 1 .. Len(outbox[m]) - 1 : Tail(outbox[m])[i] = outbox[m][i + 1]
      BY <1>0, <2>1, HeadTailProperties, LenProperties, EmptySeq
    <3>2. /\ outbox'[m] = Tail(outbox[m]) /\ buf'[m] = outbox[m][1]
          /\ said'[m] = said[m] /\ Len(outbox'[m]) = Len(outbox[m]) - 1
          /\ Heard(m)' = Heard(m) + 1
      BY <1>0, <2>1, <3>1 DEF Heard
    <3>3. Heard(m) \in Nat
      BY <1>0, <1>a, <3>1 DEF Heard
    <3>4. Heard(m)' > 0 /\ buf'[m] = [from |-> m, n |-> Heard(m)']
      <4>1. 1 \in 1 .. Len(outbox[m])
        BY <3>1
      <4>2. outbox[m][1] = [from |-> m, n |-> Heard(m) + 1]
        BY <1>a, <4>1
      <4> QED
        BY <3>2, <3>3, <4>2
    <3>5. \A i \in 1 .. Len(outbox'[m]) :
            outbox'[m][i] = [from |-> m, n |-> Heard(m)' + i]
      <4> TAKE i \in 1 .. Len(outbox'[m])
      <4>1. i + 1 \in 1 .. Len(outbox[m]) /\ outbox'[m][i] = outbox[m][i + 1]
        BY <3>1, <3>2
      <4>2. Heard(m) + (i + 1) = Heard(m)' + i
        BY <3>2, <3>3
      <4> QED
        BY <1>a, <4>1, <4>2
    <3>6. Len(outbox'[m]) <= said'[m]
      BY <1>0, <1>a, <3>1, <3>2
    <3> QED
      BY <2>2, <3>4, <3>5, <3>6
  <2>3. CASE n # m
    BY <1>0, <1>b, <2>1, <2>3 DEF Handles
  <2> QED
    BY <2>2, <2>3
<1>3. ASSUME NEW m \in Members, NEW n \in Members,
             Place(m) \/ (\E how \in Deaths : Die(m, how)) \/ HandlerEnters(m)
               \/ HandlerLeaves(m) \/ HandlerFails(m)
      PROVE  InOrder(n)'
  <2>1. UNCHANGED <<said, outbox, buf>> /\ (Handles(n)' => Handles(n))
    BY <1>0, <1>3
    DEF Place, Die, HandlerEnters, Start, HandlerSelect, HandlerReplay,
        HandlerReplayed, HandlerLeaves, HandlerReadError, HandlerLeave,
        HandlerFails, HandlerSelectFail, HandlerStoreFail, Handles, clientVars
  <2> QED
    BY <1>b, <2>1
<1>4. ASSUME NEW m \in Members, NEW n \in Members,
             HandlerSend(m) \/ HandlerSent(m) \/ HandlerStore(m)
      PROVE  InOrder(n)'
  <2>1. UNCHANGED <<said, outbox, buf>> /\ (Handles(n)' => Handles(n))
    BY <1>0, <1>4
    DEF HandlerSend, HandlerSent, HandlerStore, HandlerAt, Handles, clientVars
  <2> QED
    BY <1>b, <2>1
<1>5. ASSUME UNCHANGED vars, NEW n \in Members
      PROVE  InOrder(n)'
  BY <1>b, <1>5 DEF vars, clientVars, Handles
<1>6. \A n \in Members : InOrder(n)'
  <2> HIDE DEF InOrder
  <2> QED
    BY <1>1, <1>2, <1>3, <1>4, <1>5
    DEF Next, ClientActs, HandlerRuns, HandlerChats
<1> QED
  BY <1>6 DEF LinesInOrder

\* A client has one more line behind it when its thread reads one, and only then.
LEMMA HeardStep ==
  ASSUME TypeOK, LinesInOrder, [Next]_vars, NEW n \in Members
  PROVE  /\ HandlerRead(n) => Heard(n)' = Heard(n) + 1
         /\ ~HandlerRead(n) => Heard(n)' = Heard(n)
<1>0. /\ said \in [Members -> 0 .. MaxLines] /\ MaxLines \in Nat
      /\ outbox \in [Members -> Seq(Lines)]
      /\ Len(outbox[n]) \in Nat /\ said[n] \in Nat
      /\ Heard(n) = said[n] - Len(outbox[n])
      /\ Heard(n)' = said'[n] - Len(outbox'[n])
  BY ChatAssumption, BufIsLine DEF ChatAssumption, TypeOK, TalkOK, Heard
<1>1. ASSUME NEW m \in Members, Speak(m)
      PROVE  Heard(n)' = Heard(n)
  <2>1. CASE n = m
    <3>1. outbox'[m] = Append(outbox[m], [from |-> m, n |-> said[m] + 1])
          /\ said'[m] = said[m] + 1
      BY <1>0, <1>1 DEF Speak
    <3>2. [from |-> m, n |-> said[m] + 1] \in Lines
      <4>1. said[m] + 1 \in 1 .. MaxLines
        BY <1>0, <1>1 DEF Speak
      <4> QED
        BY <4>1, RecordsOfLines
    <3>3. Len(outbox'[m]) = Len(outbox[m]) + 1
      BY <1>0, <3>1, <3>2, AppendProperties
    <3> QED
      BY <1>0, <2>1, <3>1, <3>3
  <2>2. CASE n # m
    BY <1>0, <1>1, <2>2 DEF Speak
  <2> QED
    BY <2>1, <2>2
<1>2. ASSUME NEW m \in Members, HandlerRead(m)
      PROVE  Heard(n)' = IF n = m THEN Heard(n) + 1 ELSE Heard(n)
  <2>1. CASE n = m
    <3>1. outbox'[m] = Tail(outbox[m]) /\ outbox[m] # <<>> /\ said' = said
      BY <1>0, <1>2 DEF HandlerRead, Unread
    <3>2. Len(outbox'[m]) = Len(outbox[m]) - 1
      BY <1>0, <3>1, HeadTailProperties
    <3> QED
      BY <1>0, <2>1, <3>1, <3>2
  <2>2. CASE n # m
    BY <1>0, <1>2, <2>2 DEF HandlerRead
  <2> QED
    BY <2>1, <2>2
<1>3. ASSUME NEW m \in Members,
             Place(m) \/ (\E how \in Deaths : Die(m, how)) \/ HandlerEnters(m)
               \/ HandlerLeaves(m) \/ HandlerFails(m) \/ HandlerSend(m)
               \/ HandlerSent(m) \/ HandlerStore(m)
      PROVE  UNCHANGED <<said, outbox>>
  BY <1>3
  DEF Place, Die, HandlerEnters, Start, HandlerSelect, HandlerReplay,
      HandlerReplayed, HandlerLeaves, HandlerReadError, HandlerLeave,
      HandlerFails, HandlerSelectFail, HandlerStoreFail, HandlerSend,
      HandlerSent, HandlerStore, clientVars
<1>4. ASSUME UNCHANGED vars
      PROVE  UNCHANGED <<said, outbox>>
  BY <1>4 DEF vars, clientVars
<1>5. UNCHANGED <<said, outbox>> => Heard(n)' = Heard(n)
  BY <1>0
<1>6. (\E m \in Members : HandlerRead(m)) \/ Heard(n)' = Heard(n)
  BY <1>1, <1>3, <1>4, <1>5 DEF Next, ClientActs, HandlerRuns, HandlerChats
<1> QED
  BY <1>0, <1>2, <1>6

\* The Cardinality that ChatRoom uses is the one of FiniteSets.
LEMMA RoomCardinality == \A S : Room!Cardinality(S) = Cardinality(S)
BY DEF Room!Cardinality, Cardinality

\* The lines of n in the table, before and after one is added.
LEMMA KeptAppend ==
  ASSUME TypeOK, NEW line \in Lines, NEW n \in Members
  PROVE  /\ Room!Kept(n) \in Nat
         /\ Room!Kept(n) = Cardinality({i \in DOMAIN chat_tb : chat_tb[i].from = n})
         /\ chat_tb' = Append(chat_tb, line) =>
              Room!Kept(n)' = Room!Kept(n) + (IF line.from = n THEN 1 ELSE 0)
<1> DEFINE T == {l \in Lines : l.from = n}
<1>1. chat_tb \in Seq(Lines) /\ Append(chat_tb, line) \in Seq(Lines)
  BY AppendProperties DEF TypeOK, TalkOK
<1>2. \A s \in Seq(Lines) :
        {i \in DOMAIN s : s[i] \in T} = {i \in DOMAIN s : s[i].from = n}
  BY LenProperties, ElementOfSeq
<1>3. Room!Kept(n) = Cardinality({i \in DOMAIN chat_tb : chat_tb[i] \in T})
  BY <1>1, <1>2, RoomCardinality DEF Room!Kept
<1>4. ASSUME chat_tb' = Append(chat_tb, line)
      PROVE  Room!Kept(n)' = Cardinality({i \in DOMAIN Append(chat_tb, line) :
                                            Append(chat_tb, line)[i] \in T})
  <2>1. Room!Kept(n)' = Cardinality({i \in DOMAIN chat_tb' : chat_tb'[i].from = n})
    BY RoomCardinality DEF Room!Kept
  <2> QED
    BY <1>1, <1>2, <1>4, <2>1
<1>5. line \in T <=> line.from = n
  OBVIOUS
<1>6. Room!Kept(n) = Cardinality({i \in DOMAIN chat_tb : chat_tb[i].from = n})
  BY RoomCardinality DEF Room!Kept
<1> DEFINE Count(s) == Cardinality({i \in DOMAIN s : s[i] \in T})
<1>7. /\ Count(chat_tb) \in Nat
      /\ Count(Append(chat_tb, line))
           = Count(chat_tb) + (IF line \in T THEN 1 ELSE 0)
  <2> HIDE DEF T
  <2> QED
    BY <1>1, CountAppend
<1>8. Room!Kept(n) = Count(chat_tb)
  BY <1>3
<1>9. chat_tb' = Append(chat_tb, line) => Room!Kept(n)' = Count(Append(chat_tb, line))
  BY <1>4
<1> HIDE DEF T, Count
<1> QED
  BY <1>5, <1>6, <1>7, <1>8, <1>9

\* The table and the mutex change in an INSERT.
LEMMA TableStep ==
  ASSUME TypeOK, [Next]_vars
  PROVE  \/ UNCHANGED <<chat_tb, mutex>>
         \/ \E m \in Members : HandlerStore(m) \/ HandlerStoreFail(m)
<1>1. ASSUME NEW m \in Members,
             ClientActs(m) \/ HandlerEnters(m) \/ HandlerLeaves(m)
               \/ HandlerSelectFail(m) \/ HandlerRead(m) \/ HandlerSend(m)
               \/ HandlerSent(m)
      PROVE  UNCHANGED <<chat_tb, mutex>>
  BY <1>1
  DEF ClientActs, Place, Speak, Die, HandlerEnters, Start, HandlerSelect,
      HandlerReplay, HandlerReplayed, HandlerLeaves, HandlerReadError,
      HandlerLeave, HandlerSelectFail, HandlerRead, HandlerSend, HandlerSent,
      dbVars
<1>2. UNCHANGED vars => UNCHANGED <<chat_tb, mutex>>
  BY DEF vars, dbVars
<1> QED
  BY <1>1, <1>2 DEF Next, HandlerRuns, HandlerChats, HandlerFails

\* What a thread handles.
LEMMA HandlesStep ==
  ASSUME TypeOK, Placed, [Next]_vars, NEW n \in Members
  PROVE  \/ Handles(n)' <=> Handles(n)
         \/ HandlerRead(n) /\ ~Handles(n) /\ Handles(n)'
         \/ /\ HandlerStore(n) \/ HandlerStoreFail(n)
            /\ Handles(n) /\ ~Handles(n)'
<1>0. DOMAIN hpc = Members
  BY DEF TypeOK, ThreadsOK
<1>1. ASSUME NEW m \in Members,
             ClientActs(m) \/ HandlerEnters(m) \/ HandlerLeaves(m)
               \/ HandlerSelectFail(m) \/ HandlerSend(m) \/ HandlerSent(m)
      PROVE  Handles(n)' <=> Handles(n)
  <2>1. CASE ClientActs(m)
    BY <1>0, <2>1 DEF ClientActs, Place, Speak, Die, Handles, Placed
  <2>2. CASE HandlerLeaves(m) \/ HandlerSelectFail(m)
    <3>1. /\ hpc[m] \in {"read", "leave", "query"}
          /\ \E pc \in {"leave", "exited", "failed"} : hpc' = [hpc EXCEPT ![m] = pc]
      BY <2>2
      DEF HandlerLeaves, HandlerReadError, HandlerLeave, HandlerSelectFail, HandlerAt
    <3> QED
      BY <1>0, <3>1 DEF Handles
  <2>3. CASE HandlerEnters(m)
    BY <1>0, <2>3
    DEF HandlerEnters, Start, HandlerSelect, HandlerReplay, HandlerReplayed,
        HandlerAt, Handles
  <2>4. CASE HandlerSend(m) \/ HandlerSent(m)
    BY <1>0, <2>4 DEF HandlerSend, HandlerSent, HandlerAt, Handles
  <2> QED
    BY <1>1, <2>1, <2>2, <2>3, <2>4
<1>2. ASSUME NEW m \in Members, HandlerRead(m)
      PROVE  IF n = m THEN ~Handles(n) /\ Handles(n)' ELSE Handles(n)' <=> Handles(n)
  BY <1>0, <1>2 DEF HandlerRead, HandlerAt, Handles
<1>3. ASSUME NEW m \in Members, HandlerStore(m) \/ HandlerStoreFail(m)
      PROVE  IF n = m THEN Handles(n) /\ ~Handles(n)' ELSE Handles(n)' <=> Handles(n)
  BY <1>0, <1>3 DEF HandlerStore, HandlerStoreFail, HandlerAt, Handles
<1>4. UNCHANGED vars => (Handles(n)' <=> Handles(n))
  BY DEF vars, Handles
<1> QED
  BY <1>1, <1>2, <1>3, <1>4 DEF Next, HandlerRuns, HandlerChats, HandlerFails

\* Of what was read, the table misses what is handled and what could not be kept.
LEMMA HeardIsKeptStep ==
  ASSUME TypeOK, Placed, LinesInOrder, HeardIsKept, [Next]_vars
  PROVE  HeardIsKept'
<1> SUFFICES ASSUME NEW n \in Members
             PROVE  \E lost \in {0, 1} :
                      /\ mutex' = "free" => lost = 0
                      /\ Heard(n)' = Room!Kept(n)' + lost
                                       + (IF Handles(n)' THEN 1 ELSE 0)
  BY DEF HeardIsKept
<1>0. /\ Heard(n) \in Nat /\ Room!Kept(n) \in Nat
      /\ Handles(n) => buf[n] \in Lines /\ buf[n].from = n
  <2>1. Heard(n) \in Nat /\ (Handles(n) => buf[n] \in Lines /\ buf[n].from = n)
    BY BufIsLine
  <2>2. Room!Kept(n) \in Nat
    <3>1. IsFiniteSet({i \in DOMAIN chat_tb : chat_tb[i].from = n})
      <4>1. IsFiniteSet(1 .. Len(chat_tb))
        BY LenProperties, FS_Interval DEF TypeOK, TalkOK
      <4> QED
        BY <4>1, LenProperties, FS_Subset DEF TypeOK, TalkOK
    <3> QED
      BY <3>1, FS_CardinalityType, RoomCardinality DEF Room!Kept
  <2> QED
    BY <2>1, <2>2
<1>1. PICK lost \in {0, 1} :
        /\ mutex = "free" => lost = 0
        /\ Heard(n) = Room!Kept(n) + lost + (IF Handles(n) THEN 1 ELSE 0)
  BY DEF HeardIsKept
<1>2. chat_tb' = chat_tb => Room!Kept(n)' = Room!Kept(n)
  BY DEF Room!Kept
<1>3. CASE HandlerRead(n)
  <2>1. chat_tb' = chat_tb /\ mutex' = mutex
    BY <1>3 DEF HandlerRead, dbVars
  <2>2. Heard(n)' = Heard(n) + 1 /\ ~Handles(n) /\ Handles(n)'
    <3>1. DOMAIN hpc = Members
      BY DEF TypeOK, ThreadsOK
    <3> QED
      BY <1>3, <3>1, HeardStep DEF HandlerRead, HandlerAt, Handles
  <2> QED
    BY <1>0, <1>1, <1>2, <2>1, <2>2
<1>4. CASE \E m \in Members : HandlerStore(m)
  <2>1. PICK m \in Members : HandlerStore(m)
    BY <1>4
  <2>2. /\ mutex = "free" /\ mutex' = "free" /\ Handles(m)
        /\ chat_tb' = Append(chat_tb, buf[m])
        /\ hpc' = [hpc EXCEPT ![m] = "read"]
    BY <2>1 DEF HandlerStore, HandlerAt, Handles
  <2>3. buf[m] \in Lines /\ buf[m].from = m
    BY <2>2, BufIsLine
  <2>4. Room!Kept(n)' = Room!Kept(n) + (IF m = n THEN 1 ELSE 0)
    BY <2>2, <2>3, KeptAppend
  <2>5. Heard(n)' = Heard(n)
    <3>1. ~HandlerRead(n)
      <4>1. HandlerRead(n) => hpc[n] = "read" /\ hpc'[n] = "send"
        BY DEF HandlerRead, HandlerAt, TypeOK, ThreadsOK
      <4>2. m # n => hpc'[n] = hpc[n]
        BY <2>2
      <4> QED
        BY <2>2, <4>1, <4>2 DEF Handles
    <3> QED
      BY <3>1, HeardStep
  <2>6. IF m = n THEN Handles(n) /\ ~Handles(n)' ELSE Handles(n)' <=> Handles(n)
    BY <2>2 DEF Handles, TypeOK, ThreadsOK
  <2> QED
    BY <1>0, <1>1, <2>2, <2>4, <2>5, <2>6
<1>5. CASE \E m \in Members : HandlerStoreFail(m)
  <2>1. PICK m \in Members : HandlerStoreFail(m)
    BY <1>5
  <2>2. /\ mutex = "free" /\ mutex' = "client" /\ Handles(m)
        /\ chat_tb' = chat_tb
        /\ hpc' = [hpc EXCEPT ![m] = "read"]
    BY <2>1 DEF HandlerStoreFail, MutexAfterFailure, HandlerAt, Handles
  <2>3. Heard(n)' = Heard(n)
    <3>1. ~HandlerRead(n)
      <4>1. HandlerRead(n) => hpc[n] = "read" /\ hpc'[n] = "send"
        BY DEF HandlerRead, HandlerAt, TypeOK, ThreadsOK
      <4>2. m # n => hpc'[n] = hpc[n]
        BY <2>2
      <4> QED
        BY <2>2, <4>1, <4>2 DEF Handles
    <3> QED
      BY <3>1, HeardStep
  <2>4. IF m = n THEN Handles(n) /\ ~Handles(n)' ELSE Handles(n)' <=> Handles(n)
    BY <2>2 DEF Handles, TypeOK, ThreadsOK
  <2> QED
    BY <1>0, <1>1, <1>2, <2>2, <2>3, <2>4
<1>6. CASE /\ UNCHANGED <<chat_tb, mutex>> /\ ~HandlerRead(n)
           /\ \A m \in Members : ~HandlerStore(m) /\ ~HandlerStoreFail(m)
  <2>1. Heard(n)' = Heard(n) /\ (Handles(n)' <=> Handles(n))
    BY <1>6, HeardStep, HandlesStep
  <2> QED
    BY <1>0, <1>1, <1>2, <1>6, <2>1
<1> QED
  BY <1>3, <1>4, <1>5, <1>6, TableStep

\* The table holds, of each client, the first lines it said.
LEMMA LogIsPrefixStep ==
  ASSUME TypeOK, LinesInOrder, HeardIsKept, LogIsPrefix, [Next]_vars
  PROVE  LogIsPrefix'
<1>1. CASE \E m \in Members : HandlerStore(m)
  <2>1. PICK m \in Members : HandlerStore(m)
    BY <1>1
  <2>2. /\ mutex = "free" /\ Handles(m) /\ chat_tb' = Append(chat_tb, buf[m])
    BY <2>1 DEF HandlerStore, HandlerAt, Handles
  <2>3. buf[m] \in Lines /\ buf[m].from = m /\ buf[m].n = Heard(m)
    BY <2>2, BufIsLine
  <2>4. /\ Len(chat_tb) \in Nat /\ DOMAIN chat_tb = 1 .. Len(chat_tb)
        /\ DOMAIN chat_tb' = 1 .. Len(chat_tb) + 1
        /\ \A i \in 1 .. Len(chat_tb) : chat_tb'[i] = chat_tb[i]
        /\ chat_tb'[Len(chat_tb) + 1] = buf[m]
    BY <2>2, <2>3, AppendProperties, LenProperties DEF TypeOK, TalkOK
  <2>5. buf[m].n = 1 + Cardinality({j \in 1 .. Len(chat_tb) : chat_tb[j].from = m})
    <3>1. Heard(m) = Room!Kept(m) + 1 /\ Room!Kept(m) \in Nat
      <4>1. PICK lost \in {0, 1} : /\ mutex = "free" => lost = 0
                                  /\ Heard(m) = Room!Kept(m) + lost
                                       + (IF Handles(m) THEN 1 ELSE 0)
        BY DEF HeardIsKept
      <4>2. Room!Kept(m) \in Nat
        BY <2>3, KeptAppend
      <4> QED
        BY <2>2, <4>1, <4>2
    <3>2. Room!Kept(m) = Cardinality({j \in 1 .. Len(chat_tb) : chat_tb[j].from = m})
      BY <2>3, <2>4, KeptAppend
    <3> QED
      BY <2>3, <3>1, <3>2
  <2>6. ASSUME NEW i \in 1 .. Len(chat_tb) + 1
        PROVE  {j \in 1 .. i - 1 : chat_tb'[j].from = chat_tb'[i].from}
                 = {j \in 1 .. i - 1 : chat_tb[j].from = chat_tb'[i].from}
    BY <2>4
  <2>7. ASSUME NEW i \in DOMAIN chat_tb'
        PROVE  chat_tb'[i].n = 1 + Cardinality({j \in 1 .. i - 1 :
                                     chat_tb'[j].from = chat_tb'[i].from})
    <3>1. CASE i \in 1 .. Len(chat_tb)
      BY <2>4, <2>6, <3>1 DEF LogIsPrefix
    <3>2. CASE i = Len(chat_tb) + 1
      <4>1. i - 1 = Len(chat_tb) /\ chat_tb'[i] = buf[m]
        BY <2>4, <3>2
      <4>2. {j \in 1 .. i - 1 : chat_tb'[j].from = chat_tb'[i].from}
              = {j \in 1 .. Len(chat_tb) : chat_tb[j].from = m}
        BY <2>3, <2>4, <2>6, <3>2, <4>1
      <4> QED
        BY <2>5, <4>1, <4>2
    <3> QED
      BY <2>4, <3>1, <3>2
  <2> QED
    BY <2>7 DEF LogIsPrefix
<1>2. CASE chat_tb' = chat_tb
  BY <1>2 DEF LogIsPrefix
<1>3. (\E m \in Members : HandlerStoreFail(m)) => chat_tb' = chat_tb
  BY DEF HandlerStoreFail
<1> QED
  BY <1>1, <1>2, <1>3, TableStep

\* The lines of an author in the table are in order, and none is beyond their
\* number.
LEMMA KeptInOrder ==
  ASSUME TypeOK, LogIsPrefix, NEW k \in DOMAIN chat_tb
  PROVE  /\ chat_tb[k] \in Lines
         /\ chat_tb[k].n <= Room!Kept(chat_tb[k].from)
         /\ \A l \in DOMAIN chat_tb :
              (k < l /\ chat_tb[l].from = chat_tb[k].from)
                => chat_tb[k].n < chat_tb[l].n
<1> DEFINE a == chat_tb[k].from
           Before(l) == {j \in 1 .. l - 1 : chat_tb[j].from = a}
           Both == {j \in DOMAIN chat_tb : chat_tb[j].from = a}
<1>1. /\ Len(chat_tb) \in Nat /\ DOMAIN chat_tb = 1 .. Len(chat_tb)
      /\ chat_tb[k] \in Lines
  BY LenProperties, ElementOfSeq DEF TypeOK, TalkOK
<1>2. /\ IsFiniteSet(Before(k)) /\ Cardinality(Before(k)) \in Nat
      /\ k \notin Before(k) /\ chat_tb[k].n = 1 + Cardinality(Before(k))
  <2>1. IsFiniteSet(1 .. k - 1) /\ Before(k) \in SUBSET (1 .. k - 1)
    <3>1. 1 \in Int /\ k - 1 \in Int
      BY <1>1
    <3>2. IsFiniteSet(1 .. k - 1)
      BY <3>1, FS_Interval
    <3> QED
      BY <3>2
  <2>2. IsFiniteSet(Before(k)) /\ Cardinality(Before(k)) \in Nat
    BY <2>1, FS_Subset, FS_CardinalityType
  <2>3. k \notin Before(k)
    BY <1>1
  <2> QED
    BY <2>2, <2>3 DEF LogIsPrefix
<1>3. ASSUME NEW S, IsFiniteSet(S), Before(k) \cup {k} \subseteq S
      PROVE  chat_tb[k].n <= Cardinality(S) /\ Cardinality(S) \in Nat
  <2> HIDE DEF Before
  <2>1. /\ Cardinality(Before(k) \cup {k}) = Cardinality(Before(k)) + 1
        /\ Cardinality(Before(k) \cup {k}) <= Cardinality(S)
    BY <1>2, <1>3, FS_AddElement, FS_Subset
  <2> QED
    BY <1>2, <1>3, <2>1, FS_CardinalityType
<1>4. chat_tb[k].n <= Room!Kept(a)
  <2>1. IsFiniteSet(1 .. Len(chat_tb)) /\ Both \in SUBSET (1 .. Len(chat_tb))
    BY <1>1, FS_Interval
  <2>2. IsFiniteSet(Both) /\ Before(k) \cup {k} \subseteq Both
    BY <1>1, <2>1, FS_Subset
  <2>3. Room!Kept(a) = Cardinality(Both)
    BY RoomCardinality DEF Room!Kept
  <2> HIDE DEF Before, Both
  <2> QED
    BY <1>3, <2>2, <2>3
<1>5. ASSUME NEW l \in DOMAIN chat_tb, k < l, chat_tb[l].from = a
      PROVE  chat_tb[k].n < chat_tb[l].n
  <2>1. IsFiniteSet(1 .. l - 1) /\ Before(l) \in SUBSET (1 .. l - 1)
    <3>1. 1 \in Int /\ l - 1 \in Int
      BY <1>1
    <3>2. IsFiniteSet(1 .. l - 1)
      BY <3>1, FS_Interval
    <3> QED
      BY <3>2
  <2>2. IsFiniteSet(Before(l)) /\ Before(k) \cup {k} \subseteq Before(l)
    BY <1>1, <1>5, <2>1, FS_Subset
  <2>3. chat_tb[k].n <= Cardinality(Before(l)) /\ Cardinality(Before(l)) \in Nat
    <3> HIDE DEF Before
    <3> QED
      BY <1>3, <2>2
  <2>4. chat_tb[l].n = 1 + Cardinality(Before(l))
    BY <1>5 DEF LogIsPrefix
  <2>5. chat_tb[k].n \in Nat
    BY <1>2
  <2> HIDE DEF Before
  <2> QED
    BY <2>3, <2>4, <2>5
<1> QED
  BY <1>1, <1>4, <1>5

-----------------------------------------------------------------------------
(* What the screens show.                                                  *)

\* A client that has been placed keeps its slot number.
LEMMA StaysPlaced ==
  ASSUME TypeOK, Placed, LinesInOrder, [Next]_vars,
         NEW m \in Members, hpc[m] # "none"
  PROVE  hpc'[m] # "none" /\ clnt_num'[m] = clnt_num[m]
<1>0. DOMAIN hpc = Members /\ DOMAIN clnt_num = Members
  BY DEF TypeOK, ThreadsOK
<1>1. CASE \E p \in Members : Place(p)
  BY <1>0, <1>1 DEF Place, Placed
<1>2. CASE \E p \in Members : HandlerLeave(p)
  BY <1>0, <1>2 DEF HandlerLeave
<1>3. CASE \A p \in Members : ~Place(p) /\ ~HandlerLeave(p)
  BY <1>3, QuietStep
<1> QED
  BY <1>1, <1>2, <1>3

\* A broadcast goes on where it was.
LEMMA BroadcastStep ==
  ASSUME TypeOK, Placed, [Next]_vars, NEW a \in Members, hpc'[a] = "send"
  PROVE  \/ HandlerRead(a) /\ sd'[a] = 0
         \/ hpc[a] = "send" /\ ~HandlerRead(a) /\ sd'[a] = sd[a]
         \/ hpc[a] = "send" /\ HandlerSend(a) /\ ~HandlerRead(a) /\ sd'[a] = sd[a] + 1
<1>0. DOMAIN hpc = Members /\ DOMAIN sd = Members
  BY DEF TypeOK, ThreadsOK
<1>1. HandlerRead(a) => sd'[a] = 0 /\ hpc[a] = "read"
  BY <1>0 DEF HandlerRead, HandlerAt
<1>2. ASSUME NEW m \in Members, ClientActs(m) \/ HandlerEnters(m)
      PROVE  hpc[a] = "send" /\ sd'[a] = sd[a]
  <2>1. CASE ClientActs(m)
    BY <1>0, <2>1 DEF ClientActs, Place, Speak, Die
  <2>2. CASE HandlerEnters(m)
    BY <1>0, <2>2
    DEF HandlerEnters, Start, HandlerSelect, HandlerReplay, HandlerReplayed
  <2> QED
    BY <1>2, <2>1, <2>2
<1>3. ASSUME NEW m \in Members,
             HandlerLeaves(m) \/ HandlerFails(m) \/ HandlerSent(m) \/ HandlerStore(m)
      PROVE  hpc[a] = "send" /\ sd'[a] = sd[a]
  <2>1. sd' = sd /\ \E pc \in {"leave", "exited", "failed", "store", "read"} :
                      hpc' = [hpc EXCEPT ![m] = pc]
    BY <1>3
    DEF HandlerLeaves, HandlerReadError, HandlerLeave, HandlerFails,
        HandlerSelectFail, HandlerStoreFail, HandlerSent, HandlerStore
  <2> QED
    BY <1>0, <2>1
<1>4. ASSUME NEW m \in Members, HandlerRead(m), m # a
      PROVE  hpc[a] = "send" /\ sd'[a] = sd[a]
  BY <1>0, <1>4 DEF HandlerRead
<1>5. ASSUME NEW m \in Members, HandlerSend(m)
      PROVE  /\ hpc[a] = "send"
             /\ IF m = a THEN sd'[a] = sd[a] + 1 ELSE sd'[a] = sd[a]
  <2>1. hpc' = hpc /\ sd' = [sd EXCEPT ![m] = sd[m] + 1]
    BY <1>5 DEF HandlerSend
  <2> QED
    BY <1>0, <2>1
<1>6. UNCHANGED vars => hpc[a] = "send" /\ sd'[a] = sd[a]
  BY DEF vars
<1> QED
  BY <1>1, <1>2, <1>3, <1>4, <1>5, <1>6 DEF Next, HandlerRuns, HandlerChats

\* What a step adds to the screen of c.
LEMMA ScreenGrows ==
  ASSUME TypeOK, Placed, LinesInOrder, [Next]_vars, NEW c \in Members,
         screen'[c] # screen[c]
  PROVE  /\ net[c] = "open" /\ hpc[c] # "none"
         /\ \/ /\ HandlerReplay(c) /\ Head(result[c]) \in Lines
               /\ screen'[c] = Append(screen[c], Stored(Head(result[c])))
            \/ \E a \in Members :
                 /\ HandlerSend(a) /\ hpc[a] = "send" /\ Handles(a)
                 /\ sd[a] = clnt_num[c] /\ sd'[a] = sd[a] + 1
                 /\ screen'[c] = Append(screen[c], Live(buf[a]))
<1>0. DOMAIN sd = Members
  BY DEF TypeOK, ThreadsOK
<1>1. ASSUME NEW m \in Members, HandlerReplay(m), Head(result[m]) \in Lines,
             WriteTo(m, Stored(Head(result[m])))
      PROVE  /\ m = c /\ net[c] = "open"
             /\ screen'[c] = Append(screen[c], Stored(Head(result[c])))
  <2> DEFINE shown == Stored(Head(result[m]))
  <2>1. shown \in Shown /\ WriteTo(m, shown)
    BY <1>1, RecordsOfLines
  <2> HIDE DEF shown
  <2>2. /\ \A n \in Members : n # m => screen'[n] = screen[n]
        /\ IF net[m] = "open" THEN screen'[m] = Append(screen[m], shown)
                              ELSE screen'[m] = screen[m]
    BY <2>1, WriteEffect
  <2>3. m = c
    BY <2>2
  <2> QED
    BY <2>2, <2>3 DEF shown
<1>2. ASSUME NEW a \in Members, NEW d \in Members, HandlerSend(a), sd[a] \in Slots,
             d = clnt_socks[sd[a]], Handles(a), WriteTo(d, Live(buf[a]))
      PROVE  /\ d = c /\ net[c] = "open"
             /\ hpc[a] = "send" /\ sd[a] = clnt_num[c] /\ sd'[a] = sd[a] + 1
             /\ screen'[c] = Append(screen[c], Live(buf[a]))
  <2> DEFINE shown == Live(buf[a])
  <2>1. shown \in Shown /\ WriteTo(d, shown)
    BY <1>2, BufIsLine, RecordsOfLines
  <2>2. d = c /\ net[c] = "open" /\ screen'[c] = Append(screen[c], Live(buf[a]))
    <3> HIDE DEF shown
    <3>1. /\ \A n \in Members : n # d => screen'[n] = screen[n]
          /\ IF net[d] = "open" THEN screen'[d] = Append(screen[d], shown)
                                ELSE screen'[d] = screen[d]
      BY <2>1, WriteEffect
    <3>2. d = c
      BY <3>1
    <3> QED
      BY <3>1, <3>2 DEF shown
  <2>3. clnt_num[c] = sd[a]
    <3>1. clnt_socks[sd[a]] = c /\ c # None /\ sd[a] \in Slots
      BY <1>2, <2>2, ChatAssumption DEF ChatAssumption
    <3>2. \A k \in Slots : clnt_socks[k] # None => clnt_num[clnt_socks[k]] = k
      BY DEF Placed
    <3> QED
      BY <3>1, <3>2
  <2>4. hpc[a] = "send" /\ sd'[a] = sd[a] + 1
    BY <1>0, <1>2 DEF HandlerSend, HandlerAt
  <2> QED
    BY <2>2, <2>3, <2>4
<1>3. net[c] = "open" => hpc[c] # "none"
  BY DEF Placed
<1> QED
  BY <1>1, <1>2, <1>3, ScreenFrame

\* The line appended to a screen is at its end.
LEMMA ScreenAppend ==
  ASSUME TypeOK, NEW c \in Members, NEW shown \in Shown,
         screen'[c] = Append(screen[c], shown)
  PROVE  /\ Len(screen[c]) \in Nat /\ DOMAIN screen[c] = 1 .. Len(screen[c])
         /\ DOMAIN screen'[c] = 1 .. Len(screen[c]) + 1
         /\ \A i \in DOMAIN screen[c] : screen'[c][i] = screen[c][i]
         /\ screen'[c][Len(screen[c]) + 1] = shown
<1>1. screen[c] \in Seq(Shown)
  BY DEF TypeOK, TalkOK, Shown
<1> HIDE DEF Shown
<1> QED
  BY <1>1, AppendProperties, LenProperties

\* No screen is ahead of what was read, nor of the loop that writes to it.
LEMMA ScreensBehindLoopStep ==
  ASSUME TypeOK, Placed, LinesInOrder, ScreensBehindLoop, [Next]_vars
  PROVE  ScreensBehindLoop'
<1> SUFFICES ASSUME NEW m \in Members, NEW i \in DOMAIN screen'[m],
                    screen'[m][i].live,
                    NEW line, line = screen'[m][i].line, NEW a, a = line.from
             PROVE  /\ line.n <= Heard(a)'
                    /\ hpc'[a] = "send" /\ line.n = Heard(a)'
                         => hpc'[m] # "none" /\ clnt_num'[m] < sd'[a]
  BY DEF ScreensBehindLoop, Heard
<1>0. sd \in [Members -> 0 .. MEMBER_MAX] /\ clnt_num \in [Members -> Slots]
      /\ MEMBER_MAX \in Nat
  BY ChatAssumption DEF ChatAssumption, TypeOK, ThreadsOK
<1>1. CASE i \in DOMAIN screen[m] /\ screen'[m][i] = screen[m][i]
  <2>1. line \in Lines /\ a \in Members /\ line.n \in Nat
    <3>1. screen[m] \in Seq(Shown)
      BY DEF TypeOK, TalkOK, Shown
    <3>2. screen[m][i] \in Shown
      BY <1>1, <3>1, LenProperties, ElementOfSeq
    <3>3. line \in Lines
      BY <1>1, <3>2 DEF Shown
    <3> QED
      BY <3>3, RecordsOfLines, ChatAssumption DEF ChatAssumption
  <2>2. /\ line.n <= Heard(a)
        /\ hpc[a] = "send" /\ line.n = Heard(a)
             => hpc[m] # "none" /\ clnt_num[m] < sd[a]
    BY <1>1 DEF ScreensBehindLoop
  <2>3. /\ Heard(a) \in Nat
        /\ HandlerRead(a) => Heard(a)' = Heard(a) + 1
        /\ ~HandlerRead(a) => Heard(a)' = Heard(a)
    BY <2>1, HeardStep, BufIsLine
  <2>4. line.n <= Heard(a)'
    BY <2>1, <2>2, <2>3
  <2>5. ASSUME hpc'[a] = "send", line.n = Heard(a)'
        PROVE  hpc'[m] # "none" /\ clnt_num'[m] < sd'[a]
    <3>1. ~HandlerRead(a) /\ line.n = Heard(a)
      BY <2>1, <2>2, <2>3, <2>5
    <3>2. hpc[a] = "send" /\ sd'[a] \in {sd[a], sd[a] + 1}
      BY <2>1, <2>5, <3>1, BroadcastStep
    <3>3. hpc[m] # "none" /\ clnt_num[m] < sd[a]
      BY <2>2, <3>1, <3>2
    <3>4. hpc'[m] # "none" /\ clnt_num'[m] = clnt_num[m]
      BY <3>3, StaysPlaced
    <3>5. sd[a] \in Nat /\ clnt_num[m] \in Nat
      BY <1>0, <2>1 DEF Slots
    <3> QED
      BY <3>2, <3>3, <3>4, <3>5
  <2> QED
    BY <2>4, <2>5
<1>2. CASE ~(i \in DOMAIN screen[m] /\ screen'[m][i] = screen[m][i])
  <2>1. screen'[m] # screen[m]
    BY <1>2
  <2>2. ~ /\ HandlerReplay(m) /\ Head(result[m]) \in Lines
          /\ screen'[m] = Append(screen[m], Stored(Head(result[m])))
    <3> SUFFICES ASSUME Head(result[m]) \in Lines,
                        screen'[m] = Append(screen[m], Stored(Head(result[m])))
                 PROVE  FALSE
      OBVIOUS
    <3>1. /\ Stored(Head(result[m])) \in Shown
          /\ ~Stored(Head(result[m])).live
      BY RecordsOfLines
    <3>2. screen'[m][i] = Stored(Head(result[m]))
      BY <1>2, <3>1, ScreenAppend
    <3> QED
      BY <3>1, <3>2
  <2>3. PICK b \in Members :
          /\ HandlerSend(b) /\ hpc[b] = "send" /\ Handles(b)
          /\ sd[b] = clnt_num[m] /\ sd'[b] = sd[b] + 1
          /\ screen'[m] = Append(screen[m], Live(buf[b]))
    BY <2>1, <2>2, ScreenGrows
  <2>4. buf[b] \in Lines /\ buf[b].from = b /\ buf[b].n = Heard(b)
    BY <2>3, BufIsLine
  <2>5. Live(buf[b]) \in Shown /\ Live(buf[b]).line = buf[b]
    BY <2>4, RecordsOfLines
  <2>6. screen'[m][i] = Live(buf[b])
    BY <1>2, <2>3, <2>5, ScreenAppend
  <2>7. line = buf[b] /\ a = b /\ line.n = Heard(b)
    BY <2>4, <2>5, <2>6
  <2>8. Heard(b)' = Heard(b) /\ Heard(b) \in Nat
    <3>1. ~HandlerRead(b)
      BY <2>3 DEF HandlerRead, HandlerAt
    <3> QED
      BY <3>1, HeardStep, BufIsLine
  <2>9. hpc'[m] # "none" /\ clnt_num'[m] = clnt_num[m]
    BY <2>1, ScreenGrows, StaysPlaced
  <2>10. sd[b] \in Nat
    BY <1>0
  <2>11. clnt_num'[m] < sd'[b]
    BY <2>3, <2>9, <2>10
  <2> QED
    BY <2>7, <2>8, <2>9, <2>11
<1> QED
  BY <1>1, <1>2

-----------------------------------------------------------------------------
(* The replay of the table.                                                *)

\* What a client was sent of the table, before and after a line is appended.
LEMMA ReplayedAppend ==
  ASSUME TypeOK, NEW c \in Members, NEW shown \in Shown,
         screen'[c] = Append(screen[c], shown)
  PROVE  /\ Room!Replayed(c) \in Nat
         /\ Room!Replayed(c)' = Room!Replayed(c) + (IF shown.live THEN 0 ELSE 1)
<1> DEFINE T == {s \in Shown : ~s.live}
           Count(s) == Cardinality({i \in DOMAIN s : s[i] \in T})
<1>1. screen[c] \in Seq(Shown) /\ Append(screen[c], shown) \in Seq(Shown)
  <2>1. screen[c] \in Seq(Shown)
    BY DEF TypeOK, TalkOK, Shown
  <2> QED
    BY <2>1, AppendProperties
<1>2. \A s \in Seq(Shown) :
        {i \in DOMAIN s : s[i] \in T} = {i \in DOMAIN s : ~s[i].live}
  BY LenProperties, ElementOfSeq
<1>3. /\ Count(screen[c]) \in Nat
      /\ Count(Append(screen[c], shown))
           = Count(screen[c]) + (IF shown \in T THEN 1 ELSE 0)
  <2> DEFINE old == screen[c]
  <2>1. old \in Seq(Shown) /\ shown \in Shown
    BY <1>1
  <2> HIDE DEF T, old
  <2>2. /\ Cardinality({i \in DOMAIN old : old[i] \in T}) \in Nat
        /\ Cardinality({i \in DOMAIN Append(old, shown) :
                          Append(old, shown)[i] \in T})
             = Cardinality({i \in DOMAIN old : old[i] \in T})
                 + (IF shown \in T THEN 1 ELSE 0)
    BY <2>1, CountAppend
  <2> QED
    BY <2>2 DEF old
<1>4. Room!Replayed(c) = Count(screen[c])
  BY <1>1, <1>2, RoomCardinality DEF Room!Replayed
<1>5. Room!Replayed(c)' = Count(Append(screen[c], shown))
  <2>1. Room!Replayed(c)' = Cardinality({i \in DOMAIN screen'[c] : ~screen'[c][i].live})
    BY RoomCardinality DEF Room!Replayed
  <2> QED
    BY <1>1, <1>2, <2>1
<1>6. shown \in T <=> ~shown.live
  OBVIOUS
<1> HIDE DEF T, Count
<1> QED
  BY <1>3, <1>4, <1>5, <1>6

\* How a thread goes from the query to the replay and to the loop.
LEMMA PhaseStep ==
  ASSUME TypeOK, Placed, [Next]_vars, NEW m \in Members
  PROVE  /\ hpc'[m] \in {"none", "placed", "query"}
              => hpc[m] \in {"none", "placed", "query"}
         /\ hpc'[m] = "replay" =>
              \/ HandlerSelect(m)
              \/ HandlerReplay(m)
              \/ hpc[m] = "replay" /\ result'[m] = result[m]
         /\ hpc'[m] \in {"read", "send", "store"} =>
              HandlerReplayed(m) \/ hpc[m] \in {"read", "send", "store"}
         /\ ~HandlerSelect(m) => missed'[m] = missed[m]
         /\ ~HandlerRead(m) => audience'[m] = audience[m] /\ buf'[m] = buf[m]
<1> DEFINE Phase ==
      /\ hpc'[m] \in {"none", "placed", "query"}
           => hpc[m] \in {"none", "placed", "query"}
      /\ hpc'[m] = "replay" =>
           \/ HandlerSelect(m)
           \/ HandlerReplay(m)
           \/ hpc[m] = "replay" /\ result'[m] = result[m]
      /\ hpc'[m] \in {"read", "send", "store"} =>
           HandlerReplayed(m) \/ hpc[m] \in {"read", "send", "store"}
      /\ ~HandlerSelect(m) => missed'[m] = missed[m]
      /\ ~HandlerRead(m) => audience'[m] = audience[m] /\ buf'[m] = buf[m]
<1>0. /\ DOMAIN hpc = Members /\ DOMAIN result = Members /\ DOMAIN missed = Members
      /\ DOMAIN audience = Members /\ DOMAIN buf = Members
  BY DEF TypeOK, ThreadsOK, TalkOK
<1>1. ASSUME UNCHANGED <<result, missed, audience, buf>>, UNCHANGED hpc
      PROVE  Phase
  BY <1>1
<1>2. ASSUME UNCHANGED <<result, missed, audience, buf>>, NEW n \in Members,
             NEW pc, hpc' = [hpc EXCEPT ![n] = pc],
             \/ hpc[n] \in {"none", "placed"} /\ pc \in {"placed", "query"}
             \/ pc \in {"leave", "exited", "failed"}
             \/ hpc[n] \in {"send", "store"} /\ pc \in {"read", "store"}
      PROVE  Phase
  BY <1>0, <1>2
<1> HIDE DEF Phase
<1>3. ASSUME NEW n \in Members, ClientActs(n)
      PROVE  Phase
  <2>1. UNCHANGED <<result, missed, audience, buf>>
    BY <1>3 DEF ClientActs, Place, Speak, Die, historyVars
  <2>2. \/ UNCHANGED hpc
        \/ hpc[n] = "none" /\ hpc' = [hpc EXCEPT ![n] = "placed"]
    <3>1. \A p \in Members : net[p] = "none" => hpc[p] = "none"
      BY DEF Placed
    <3>2. CASE Place(n)
      BY <3>1, <3>2 DEF Place
    <3>3. Speak(n) => UNCHANGED hpc
      BY DEF Speak
    <3>4. (\E how \in Deaths : Die(n, how)) => UNCHANGED hpc
      BY DEF Die
    <3> QED
      BY <1>3, <3>2, <3>3, <3>4 DEF ClientActs
  <2>3. CASE hpc[n] = "none" /\ hpc' = [hpc EXCEPT ![n] = "placed"]
    BY <1>2, <2>1, <2>3
  <2> QED
    BY <1>1, <2>1, <2>2, <2>3
<1>4. ASSUME NEW n \in Members, HandlerLeaves(n) \/ HandlerFails(n)
      PROVE  Phase
  <2>1. UNCHANGED <<result, missed, audience, buf>>
    BY <1>4
    DEF HandlerLeaves, HandlerReadError, HandlerLeave, HandlerFails,
        HandlerSelectFail, HandlerStoreFail, historyVars
  <2>2. \/ \E pc \in {"leave", "exited", "failed"} : hpc' = [hpc EXCEPT ![n] = pc]
        \/ hpc[n] = "store" /\ hpc' = [hpc EXCEPT ![n] = "read"]
    BY <1>4
    DEF HandlerLeaves, HandlerReadError, HandlerLeave, HandlerFails,
        HandlerSelectFail, HandlerStoreFail, HandlerAt
  <2> QED
    BY <1>2, <2>1, <2>2
<1>5. ASSUME NEW n \in Members,
             Start(n) \/ HandlerSend(n) \/ HandlerSent(n) \/ HandlerStore(n)
      PROVE  Phase
  <2>1. UNCHANGED <<result, missed, audience, buf>>
    BY <1>5 DEF Start, HandlerSend, HandlerSent, HandlerStore, historyVars
  <2>2. \/ UNCHANGED hpc
        \/ hpc[n] = "placed" /\ hpc' = [hpc EXCEPT ![n] = "query"]
        \/ hpc[n] = "send" /\ hpc' = [hpc EXCEPT ![n] = "store"]
        \/ hpc[n] = "store" /\ hpc' = [hpc EXCEPT ![n] = "read"]
    BY <1>5 DEF Start, HandlerSend, HandlerSent, HandlerStore, HandlerAt
  <2> QED
    BY <1>1, <1>2, <2>1, <2>2
<1>6. ASSUME NEW n \in Members,
             HandlerSelect(n) \/ HandlerReplay(n) \/ HandlerReplayed(n)
      PROVE  Phase
  <2>1. CASE HandlerSelect(n)
    BY <1>0, <2>1 DEF HandlerSelect, HandlerAt, Phase
  <2>2. CASE HandlerReplay(n)
    <3>1. /\ UNCHANGED <<hpc, missed, audience, buf>>
          /\ n # m => result'[m] = result[m]
      BY <1>0, <2>2 DEF HandlerReplay, historyVars
    <3> QED
      BY <2>2, <3>1 DEF Phase
  <2>3. CASE HandlerReplayed(n)
    <3>1. /\ hpc' = [hpc EXCEPT ![n] = "read"]
          /\ UNCHANGED <<missed, audience, buf>>
          /\ n # m => result'[m] = result[m]
      BY <1>0, <2>3 DEF HandlerReplayed, historyVars
    <3> QED
      BY <1>0, <2>3, <3>1 DEF Phase
  <2> QED
    BY <1>6, <2>1, <2>2, <2>3
<1>7. ASSUME NEW n \in Members, HandlerRead(n)
      PROVE  Phase
  <2>1. /\ hpc[n] = "read" /\ hpc' = [hpc EXCEPT ![n] = "send"]
        /\ UNCHANGED <<result, missed>>
        /\ n # m => audience'[m] = audience[m] /\ buf'[m] = buf[m]
    BY <1>0, <1>7 DEF HandlerRead, HandlerAt
  <2> QED
    BY <1>0, <1>7, <2>1 DEF Phase
<1>8. ASSUME UNCHANGED vars
      PROVE  Phase
  BY <1>1, <1>8 DEF vars, historyVars
<1>9. Phase
  BY <1>3, <1>4, <1>5, <1>6, <1>7, <1>8
  DEF Next, HandlerRuns, HandlerEnters, HandlerChats
<1> QED
  BY <1>9 DEF Phase

\* Whose connection is open, or is opened.
LEMMA OpenStep ==
  ASSUME TypeOK, LinesInOrder, [Next]_vars, NEW m \in Members, net'[m] = "open"
  PROVE  net[m] = "open" \/ (Place(m) /\ hpc'[m] = "placed")
<1>0. DOMAIN net = Members /\ DOMAIN hpc = Members
  BY DEF TypeOK, RoomOK, ThreadsOK
<1>1. CASE \E p \in Members : Place(p)
  BY <1>0, <1>1 DEF Place
<1>2. CASE \E p \in Members : HandlerLeave(p)
  BY <1>0, <1>2 DEF HandlerLeave
<1>3. CASE \A p \in Members : ~Place(p) /\ ~HandlerLeave(p)
  BY <1>3, QuietStep
<1> QED
  BY <1>1, <1>2, <1>3

\* Rows are only added to the table, each the line that a thread handles.
LEMMA TableGrows ==
  ASSUME TypeOK, LinesInOrder, [Next]_vars
  PROVE  /\ Len(chat_tb) \in Nat /\ Len(chat_tb') \in Nat
         /\ Len(chat_tb) <= Len(chat_tb')
         /\ DOMAIN chat_tb = 1 .. Len(chat_tb)
         /\ DOMAIN chat_tb' = 1 .. Len(chat_tb')
         /\ \A i \in 1 .. Len(chat_tb) : chat_tb'[i] = chat_tb[i]
         /\ \/ chat_tb' = chat_tb
            \/ \E a \in Members :
                 /\ HandlerStore(a) /\ hpc[a] = "store" /\ Handles(a)
                 /\ Len(chat_tb') = Len(chat_tb) + 1
                 /\ chat_tb'[Len(chat_tb) + 1] = buf[a]
<1>0. /\ chat_tb \in Seq(Lines) /\ Len(chat_tb) \in Nat
      /\ DOMAIN chat_tb = 1 .. Len(chat_tb)
  BY LenProperties DEF TypeOK, TalkOK
<1>1. CASE chat_tb' = chat_tb
  BY <1>0, <1>1
<1>2. ASSUME NEW a \in Members, HandlerStore(a)
      PROVE  /\ hpc[a] = "store" /\ Handles(a)
             /\ DOMAIN chat_tb' = 1 .. Len(chat_tb')
             /\ Len(chat_tb') = Len(chat_tb) + 1
             /\ \A i \in 1 .. Len(chat_tb) : chat_tb'[i] = chat_tb[i]
             /\ chat_tb'[Len(chat_tb) + 1] = buf[a]
  <2>1. hpc[a] = "store" /\ Handles(a) /\ chat_tb' = Append(chat_tb, buf[a])
    BY <1>2 DEF HandlerStore, HandlerAt, Handles
  <2>2. buf[a] \in Lines
    BY <2>1, BufIsLine
  <2> QED
    BY <1>0, <2>1, <2>2, AppendProperties, LenProperties
<1>3. ASSUME NEW a \in Members, HandlerStoreFail(a)
      PROVE  chat_tb' = chat_tb
  BY <1>3 DEF HandlerStoreFail
<1>4. CASE \E a \in Members : HandlerStore(a)
  BY <1>0, <1>2, <1>4
<1> QED
  BY <1>1, <1>3, <1>4, TableStep

\* What a thread has still to send of the table follows what its client was sent.
LEMMA ReplayInOrderStep ==
  ASSUME TypeOK, Placed, LinesInOrder, ReplayInOrder, [Next]_vars
  PROVE  ReplayInOrder'
<1> SUFFICES
      ASSUME NEW m \in Members
      PROVE  /\ hpc'[m] \in {"none", "placed", "query"} => Room!Replayed(m)' = 0
             /\ net'[m] = "open" /\ hpc'[m] = "replay" =>
                  /\ Room!Replayed(m)' + Len(result'[m]) <= Len(chat_tb')
                  /\ \A i \in 1 .. Len(result'[m]) :
                       result'[m][i] = chat_tb'[Room!Replayed(m)' + i]
  BY DEF ReplayInOrder
<1>0. /\ result \in [Members -> Seq(Lines)] /\ DOMAIN hpc = Members
      /\ chat_tb \in Seq(Lines) /\ Len(chat_tb) \in Nat /\ Len(result[m]) \in Nat
  BY LenProperties DEF TypeOK, ThreadsOK, TalkOK
<1>a. Room!Replayed(m) \in Nat
  <2>1. IsFiniteSet({i \in DOMAIN screen[m] : ~screen[m][i].live})
    <3>1. screen[m] \in Seq(Shown)
      BY DEF TypeOK, TalkOK, Shown
    <3>2. IsFiniteSet(1 .. Len(screen[m])) /\ DOMAIN screen[m] = 1 .. Len(screen[m])
      BY <3>1, LenProperties, FS_Interval
    <3> QED
      BY <3>2, FS_Subset
  <2> QED
    BY <2>1, FS_CardinalityType, RoomCardinality DEF Room!Replayed
<1>b. /\ hpc[m] \in {"none", "placed", "query"} => Room!Replayed(m) = 0
      /\ net[m] = "open" /\ hpc[m] = "replay" =>
           /\ Room!Replayed(m) + Len(result[m]) <= Len(chat_tb)
           /\ \A i \in 1 .. Len(result[m]) :
                result[m][i] = chat_tb[Room!Replayed(m) + i]
  BY DEF ReplayInOrder
<1>1. CASE HandlerReplay(m)
  <2>1. /\ hpc[m] = "replay" /\ hpc' = hpc /\ chat_tb' = chat_tb
        /\ result[m] # <<>> /\ Head(result[m]) \in Lines
        /\ result' = [result EXCEPT ![m] = Tail(result[m])]
        /\ WriteTo(m, Stored(Head(result[m])))
    BY <1>0, <1>1, HeadTailProperties DEF HandlerReplay, HandlerAt, dbVars
  <2>2. Stored(Head(result[m])) \in Shown /\ ~Stored(Head(result[m])).live
    BY <2>1, RecordsOfLines
  <2>3. CASE net[m] # "open"
    BY <2>1, <2>2, <2>3, WriteEffect
  <2>4. CASE net[m] = "open"
    <3>1. screen'[m] = Append(screen[m], Stored(Head(result[m])))
      BY <2>1, <2>2, <2>4, WriteEffect
    <3>2. Room!Replayed(m)' = Room!Replayed(m) + 1
      BY <1>a, <2>2, <3>1, ReplayedAppend
    <3>3. /\ Len(result'[m]) = Len(result[m]) - 1
          /\ \A i \in 1 .. Len(result[m]) - 1 : result'[m][i] = result[m][i + 1]
      BY <1>0, <2>1, HeadTailProperties
    <3>4. Room!Replayed(m)' + Len(result'[m]) <= Len(chat_tb')
      BY <1>0, <1>a, <1>b, <2>1, <2>4, <3>2, <3>3
    <3>5. ASSUME NEW i \in 1 .. Len(result'[m])
          PROVE  result'[m][i] = chat_tb'[Room!Replayed(m)' + i]
      <4>1. i + 1 \in 1 .. Len(result[m]) /\ result'[m][i] = result[m][i + 1]
        BY <1>0, <3>3
      <4>2. Room!Replayed(m) + (i + 1) = Room!Replayed(m)' + i
        BY <1>a, <3>2
      <4>3. result[m][i + 1] = chat_tb[Room!Replayed(m) + (i + 1)]
        BY <1>b, <2>1, <2>4, <4>1
      <4> QED
        BY <2>1, <4>1, <4>2, <4>3
    <3> QED
      BY <2>1, <3>4, <3>5
  <2> QED
    BY <2>3, <2>4
<1>2. ASSUME ~HandlerReplay(m)
      PROVE  Room!Replayed(m)' = Room!Replayed(m)
  <2>1. CASE screen'[m] = screen[m]
    BY <2>1 DEF Room!Replayed
  <2>2. CASE screen'[m] # screen[m]
    <3>1. PICK a \in Members : Handles(a) /\ screen'[m] = Append(screen[m], Live(buf[a]))
      BY <1>2, <2>2, ScreenGrows
    <3>2. Live(buf[a]) \in Shown /\ Live(buf[a]).live
      BY <3>1, BufIsLine, RecordsOfLines
    <3> QED
      BY <1>a, <3>1, <3>2, ReplayedAppend
  <2> QED
    BY <2>1, <2>2
<1>3. CASE HandlerSelect(m)
  <2>1. /\ hpc[m] = "query" /\ hpc' = [hpc EXCEPT ![m] = "replay"]
        /\ result' = [result EXCEPT ![m] = chat_tb] /\ chat_tb' = chat_tb
        /\ ~HandlerReplay(m)
    BY <1>3 DEF HandlerSelect, HandlerReplay, HandlerAt
  <2>2. Room!Replayed(m)' = 0 /\ result'[m] = chat_tb
    BY <1>0, <1>2, <1>b, <2>1
  <2> QED
    BY <1>0, <2>1, <2>2
<1>4. CASE ~HandlerReplay(m) /\ ~HandlerSelect(m)
  <2>1. Room!Replayed(m)' = Room!Replayed(m)
    BY <1>2, <1>4
  <2>2. CASE net'[m] = "open" /\ hpc'[m] = "replay"
    <3>1. net[m] = "open" /\ hpc[m] = "replay" /\ result'[m] = result[m]
      BY <1>4, <2>2, PhaseStep, OpenStep
    <3>2. /\ Room!Replayed(m) + Len(result[m]) <= Len(chat_tb)
          /\ \A i \in 1 .. Len(result[m]) :
               result[m][i] = chat_tb[Room!Replayed(m) + i]
      BY <1>b, <3>1
    <3>3. /\ Len(chat_tb) <= Len(chat_tb') /\ Len(chat_tb') \in Nat
          /\ \A i \in 1 .. Len(chat_tb) : chat_tb'[i] = chat_tb[i]
      BY TableGrows
    <3>4. \A i \in 1 .. Len(result[m]) : Room!Replayed(m) + i \in 1 .. Len(chat_tb)
      BY <1>0, <1>a, <3>2
    <3>5. Room!Replayed(m)' + Len(result'[m]) <= Len(chat_tb')
      BY <1>0, <1>a, <2>1, <3>1, <3>2, <3>3
    <3>6. \A i \in 1 .. Len(result'[m]) :
            result'[m][i] = chat_tb'[Room!Replayed(m)' + i]
      BY <2>1, <3>1, <3>2, <3>3, <3>4
    <3> QED
      BY <2>2, <3>5, <3>6
  <2>3. CASE ~(net'[m] = "open" /\ hpc'[m] = "replay")
    BY <1>b, <2>1, <2>3, PhaseStep
  <2> QED
    BY <2>2, <2>3
<1> QED
  BY <1>1, <1>3, <1>4

\* The row that is replayed next is the one after those that were replayed.
LEMMA NextReplayed ==
  ASSUME TypeOK, ReplayInOrder, NEW m \in Members, net[m] = "open", HandlerReplay(m)
  PROVE  /\ Room!Replayed(m) + 1 \in DOMAIN chat_tb
         /\ chat_tb[Room!Replayed(m) + 1] = Head(result[m])
<1>1. /\ result[m] \in Seq(Lines) /\ result[m] # <<>> /\ hpc[m] = "replay"
      /\ Len(chat_tb) \in Nat /\ DOMAIN chat_tb = 1 .. Len(chat_tb)
  BY LenProperties DEF HandlerReplay, HandlerAt, TypeOK, ThreadsOK, TalkOK
<1>2. Len(result[m]) \in Nat \ {0} /\ Head(result[m]) = result[m][1]
  BY <1>1, HeadTailProperties, LenProperties, EmptySeq
<1>3. Room!Replayed(m) \in Nat
  <2>1. screen[m] \in Seq(Shown)
    BY DEF TypeOK, TalkOK, Shown
  <2>2. IsFiniteSet(1 .. Len(screen[m])) /\ DOMAIN screen[m] = 1 .. Len(screen[m])
    BY <2>1, LenProperties, FS_Interval
  <2>3. IsFiniteSet({i \in DOMAIN screen[m] : ~screen[m][i].live})
    BY <2>2, FS_Subset
  <2> QED
    BY <2>3, FS_CardinalityType, RoomCardinality DEF Room!Replayed
<1>4. /\ Room!Replayed(m) + Len(result[m]) <= Len(chat_tb)
      /\ result[m][1] = chat_tb[Room!Replayed(m) + 1]
  BY <1>1, <1>2 DEF ReplayInOrder
<1> QED
  BY <1>1, <1>2, <1>3, <1>4

\* How much a step sends a client of the table.
LEMMA ReplayedStep ==
  ASSUME TypeOK, Placed, LinesInOrder, [Next]_vars, NEW m \in Members
  PROVE  /\ Room!Replayed(m) \in Nat
         /\ Room!Replayed(m)' \in {Room!Replayed(m), Room!Replayed(m) + 1}
         /\ HandlerReplay(m) /\ screen'[m] # screen[m]
              => Room!Replayed(m)' = Room!Replayed(m) + 1
<1>1. Room!Replayed(m) \in Nat
  <2>1. screen[m] \in Seq(Shown)
    BY DEF TypeOK, TalkOK, Shown
  <2>2. IsFiniteSet(1 .. Len(screen[m])) /\ DOMAIN screen[m] = 1 .. Len(screen[m])
    BY <2>1, LenProperties, FS_Interval
  <2>3. IsFiniteSet({i \in DOMAIN screen[m] : ~screen[m][i].live})
    BY <2>2, FS_Subset
  <2> QED
    BY <2>3, FS_CardinalityType, RoomCardinality DEF Room!Replayed
<1>2. screen'[m] = screen[m] => Room!Replayed(m)' = Room!Replayed(m)
  BY DEF Room!Replayed
<1>3. ASSUME NEW line \in Lines, screen'[m] = Append(screen[m], Stored(line))
      PROVE  Room!Replayed(m)' = Room!Replayed(m) + 1
  BY <1>1, <1>3, RecordsOfLines, ReplayedAppend
<1>4. ASSUME NEW line \in Lines, screen'[m] = Append(screen[m], Live(line))
      PROVE  Room!Replayed(m)' = Room!Replayed(m)
  BY <1>1, <1>4, RecordsOfLines, ReplayedAppend
<1>5. ASSUME HandlerReplay(m)
      PROVE  \A a \in Members : ~(HandlerSend(a) /\ sd'[a] = sd[a] + 1 /\ Handles(a))
  <2> SUFFICES ASSUME NEW a \in Members, HandlerSend(a), sd'[a] = sd[a] + 1
               PROVE  FALSE
    OBVIOUS
  <2>1. sd' = sd
    BY <1>5 DEF HandlerReplay
  <2>2. sd[a] \in Nat
    BY ChatAssumption DEF ChatAssumption, TypeOK, ThreadsOK
  <2> QED
    BY <2>1, <2>2
<1> QED
  BY <1>1, <1>2, <1>3, <1>4, <1>5, ScreenGrows, BufIsLine

\* What was replayed stays in the table, and what is replayed is its next line.
LEMMA ReplayedIsKeptStep ==
  ASSUME TypeOK, Placed, LinesInOrder, ReplayInOrder, ReplayedIsKept, [Next]_vars
  PROVE  ReplayedIsKept'
<1> SUFFICES ASSUME NEW m \in Members, NEW i \in DOMAIN screen'[m],
                    ~screen'[m][i].live
             PROVE  \E k \in DOMAIN chat_tb' :
                      /\ k <= Room!Replayed(m)'
                      /\ chat_tb'[k] = screen'[m][i].line
  BY DEF ReplayedIsKept
<1>1. /\ chat_tb \in Seq(Lines) /\ Len(chat_tb) \in Nat
      /\ DOMAIN chat_tb = 1 .. Len(chat_tb)
      /\ \A k \in DOMAIN chat_tb : k \in DOMAIN chat_tb' /\ chat_tb'[k] = chat_tb[k]
  <2>1. chat_tb \in Seq(Lines) /\ chat_tb' \in Seq(Lines)
    BY TalkOKStep DEF TypeOK, TalkOK
  <2> QED
    BY <2>1, TableGrows, LenProperties
<1>2. Room!Replayed(m) \in Nat /\ Room!Replayed(m) <= Room!Replayed(m)'
  BY ReplayedStep
<1>3. CASE i \in DOMAIN screen[m] /\ screen'[m][i] = screen[m][i]
  <2>1. PICK k \in DOMAIN chat_tb :
          k <= Room!Replayed(m) /\ chat_tb[k] = screen[m][i].line
    BY <1>3 DEF ReplayedIsKept
  <2>2. k <= Room!Replayed(m)'
    BY <1>1, <1>2, <2>1, ReplayedStep
  <2> QED
    BY <1>1, <1>3, <2>1, <2>2
<1>4. CASE ~(i \in DOMAIN screen[m] /\ screen'[m][i] = screen[m][i])
  <2>1. screen'[m] # screen[m]
    BY <1>4
  <2>2. ~\E a \in Members :
           Handles(a) /\ screen'[m] = Append(screen[m], Live(buf[a]))
    <3> SUFFICES ASSUME NEW a \in Members, Handles(a),
                        screen'[m] = Append(screen[m], Live(buf[a]))
                 PROVE  FALSE
      OBVIOUS
    <3>1. Live(buf[a]) \in Shown /\ Live(buf[a]).live
      BY BufIsLine, RecordsOfLines
    <3>2. screen'[m][i] = Live(buf[a])
      BY <1>4, <3>1, ScreenAppend
    <3> QED
      BY <3>1, <3>2
  <2>3. /\ net[m] = "open" /\ HandlerReplay(m) /\ Head(result[m]) \in Lines
        /\ screen'[m] = Append(screen[m], Stored(Head(result[m])))
    BY <2>1, <2>2, ScreenGrows
  <2>4. screen'[m][i].line = Head(result[m])
    <3>1. /\ Stored(Head(result[m])) \in Shown
          /\ Stored(Head(result[m])).line = Head(result[m])
      BY <2>3, RecordsOfLines
    <3>2. screen'[m][i] = Stored(Head(result[m]))
      BY <1>4, <2>3, <3>1, ScreenAppend
    <3> QED
      BY <3>1, <3>2
  <2>5. /\ Room!Replayed(m) + 1 \in DOMAIN chat_tb
        /\ chat_tb[Room!Replayed(m) + 1] = Head(result[m])
    BY <1>1, <1>2, <2>3, NextReplayed
  <2>6. Room!Replayed(m)' = Room!Replayed(m) + 1
    BY <2>1, <2>3, ReplayedStep
  <2> QED
    BY <1>1, <1>2, <2>4, <2>5, <2>6
<1> QED
  BY <1>3, <1>4

\* When a line is sent to a member, what it was shown of the same author is older.
LEMMA OlderShown ==
  ASSUME TypeOK, LinesInOrder, HeardIsKept, LogIsPrefix, ScreensBehindLoop,
         ReplayedIsKept, NEW m \in Members, NEW a \in Members,
         hpc[a] = "send", Handles(a), sd[a] = clnt_num[m],
         NEW i \in DOMAIN screen[m], screen[m][i].line.from = a
  PROVE  screen[m][i].line.n < Heard(a)
<1> DEFINE line == screen[m][i].line
<1>1. line.n \in Nat
  <2>1. screen[m] \in Seq(Shown)
    BY DEF TypeOK, TalkOK, Shown
  <2>2. screen[m][i] \in Shown
    BY <2>1, LenProperties, ElementOfSeq
  <2>3. line \in Lines
    BY <2>2 DEF Shown
  <2> QED
    BY <2>3, RecordsOfLines, ChatAssumption DEF ChatAssumption
<1>2. Heard(a) \in Nat /\ sd[a] \in Nat
  BY BufIsLine, ChatAssumption DEF ChatAssumption, TypeOK, ThreadsOK
<1>3. CASE screen[m][i].live
  BY <1>1, <1>2, <1>3 DEF ScreensBehindLoop
<1>4. CASE ~screen[m][i].live
  <2>1. PICK k \in DOMAIN chat_tb : chat_tb[k] = line
    BY <1>4 DEF ReplayedIsKept
  <2>2. line.n <= Room!Kept(a)
    BY <2>1, KeptInOrder
  <2>3. PICK lost \in {0, 1} : Heard(a) = Room!Kept(a) + lost + 1
    BY DEF HeardIsKept
  <2>4. Room!Kept(a) \in Nat
    BY BufIsLine, KeptAppend
  <2> QED
    BY <1>1, <1>2, <2>2, <2>3, <2>4
<1> QED
  BY <1>3, <1>4

\* Every line that is shown comes after the older ones of its author, and before the
\* newer; a replay may come after lines that were shown live.
LEMMA SenderOrderStep ==
  ASSUME TypeOK, Placed, LinesInOrder, HeardIsKept, LogIsPrefix, ScreensBehindLoop,
         SenderOrder, ReplayInOrder, ReplayedIsKept, [Next]_vars
  PROVE  SenderOrder'
<1> SUFFICES ASSUME NEW m \in Members,
                    NEW i \in DOMAIN screen'[m], NEW j \in DOMAIN screen'[m],
                    i < j, screen'[m][i].live => screen'[m][j].live,
                    screen'[m][i].line.from = screen'[m][j].line.from
             PROVE  screen'[m][i].line.n < screen'[m][j].line.n
  BY DEF SenderOrder
<1>1. CASE screen'[m] = screen[m]
  BY <1>1 DEF SenderOrder
<1>2. ASSUME NEW shown \in Shown, screen'[m] = Append(screen[m], shown)
      PROVE  /\ i \in DOMAIN screen[m] /\ screen'[m][i] = screen[m][i]
             /\ \/ j \in DOMAIN screen[m] /\ screen'[m][j] = screen[m][j]
                \/ screen'[m][j] = shown
  <2>1. /\ Len(screen[m]) \in Nat /\ DOMAIN screen[m] = 1 .. Len(screen[m])
        /\ DOMAIN screen'[m] = 1 .. Len(screen[m]) + 1
        /\ \A k \in DOMAIN screen[m] : screen'[m][k] = screen[m][k]
        /\ screen'[m][Len(screen[m]) + 1] = shown
    BY <1>2, ScreenAppend
  <2>2. i \in DOMAIN screen[m] /\ (j \in DOMAIN screen[m] \/ j = Len(screen[m]) + 1)
    BY <2>1
  <2> QED
    BY <2>1, <2>2
<1>3. ASSUME net[m] = "open", HandlerReplay(m), Head(result[m]) \in Lines,
             screen'[m] = Append(screen[m], Stored(Head(result[m])))
      PROVE  screen'[m][i].line.n < screen'[m][j].line.n
  <2> DEFINE shown == Stored(Head(result[m]))
  <2>1. shown \in Shown /\ ~shown.live /\ shown.line = Head(result[m])
    BY <1>3, RecordsOfLines
  <2> HIDE DEF shown
  <2>2. CASE j \in DOMAIN screen[m] /\ screen'[m][j] = screen[m][j]
    BY <1>2, <1>3, <2>1, <2>2 DEF SenderOrder, shown
  <2>3. CASE screen'[m][j] = shown
    <3>1. /\ i \in DOMAIN screen[m] /\ screen'[m][i] = screen[m][i]
          /\ ~screen[m][i].live
      BY <1>2, <1>3, <2>1, <2>3 DEF shown
    <3>2. PICK k \in DOMAIN chat_tb :
            k <= Room!Replayed(m) /\ chat_tb[k] = screen[m][i].line
      BY <3>1 DEF ReplayedIsKept
    <3>3. /\ Room!Replayed(m) + 1 \in DOMAIN chat_tb
          /\ chat_tb[Room!Replayed(m) + 1] = Head(result[m])
      BY <1>3, NextReplayed
    <3>4. k < Room!Replayed(m) + 1
      <4>1. Room!Replayed(m) \in Nat
        BY ReplayedStep
      <4>2. DOMAIN chat_tb = 1 .. Len(chat_tb) /\ Len(chat_tb) \in Nat
        BY LenProperties DEF TypeOK, TalkOK
      <4> QED
        BY <3>2, <4>1, <4>2
    <3> QED
      BY <2>1, <2>3, <3>1, <3>2, <3>3, <3>4, KeptInOrder
  <2> QED
    BY <1>2, <1>3, <2>1, <2>2, <2>3 DEF shown
<1>4. ASSUME NEW a \in Members, hpc[a] = "send", Handles(a), sd[a] = clnt_num[m],
             screen'[m] = Append(screen[m], Live(buf[a]))
      PROVE  screen'[m][i].line.n < screen'[m][j].line.n
  <2> DEFINE shown == Live(buf[a])
  <2>1. /\ shown \in Shown /\ shown.live /\ shown.line = buf[a]
        /\ buf[a].from = a /\ buf[a].n = Heard(a)
    BY <1>4, BufIsLine, RecordsOfLines
  <2> HIDE DEF shown
  <2>2. CASE j \in DOMAIN screen[m] /\ screen'[m][j] = screen[m][j]
    BY <1>2, <1>4, <2>1, <2>2 DEF SenderOrder, shown
  <2>3. CASE screen'[m][j] = shown
    <3>1. i \in DOMAIN screen[m] /\ screen'[m][i] = screen[m][i]
      BY <1>2, <1>4, <2>1 DEF shown
    <3>2. screen[m][i].line.from = a
      BY <2>1, <2>3, <3>1
    <3> QED
      BY <1>4, <2>1, <2>3, <3>1, <3>2, OlderShown
  <2> QED
    BY <1>2, <1>4, <2>1, <2>2, <2>3 DEF shown
<1> QED
  BY <1>1, <1>3, <1>4, ScreenGrows

-----------------------------------------------------------------------------
(* Nothing is lost while nobody leaves.                                    *)

\* Who was in the room when a line was read is somebody who had entered.
LEMMA AudienceEnteredStep ==
  ASSUME TypeOK, Placed, LinesInOrder, AudienceEntered, [Next]_vars
  PROVE  AudienceEntered'
<1> SUFFICES ASSUME NEW a \in Members, NEW m \in audience'[a]
             PROVE  hpc'[m] # "none"
  BY DEF AudienceEntered
<1>1. m \in audience[a] \/ (HandlerRead(a) /\ m \in InReach)
  <2>1. HandlerRead(a) => audience'[a] = InReach
    BY DEF HandlerRead, TypeOK, TalkOK
  <2> QED
    BY <2>1, PhaseStep
<1>2. m \in Members /\ hpc[m] # "none"
  <2>1. CASE m \in audience[a]
    <3>1. audience[a] \in SUBSET Members
      BY DEF TypeOK, TalkOK
    <3> QED
      BY <2>1, <3>1 DEF AudienceEntered
  <2>2. CASE m \in InReach
    BY <2>2 DEF InReach, Placed, Present
  <2> QED
    BY <1>1, <2>1, <2>2
<1> QED
  BY <1>2, StaysPlaced

\* Whatever is on a screen stays on it.
LEMMA OnScreenStays ==
  ASSUME TypeOK, Placed, LinesInOrder, [Next]_vars, NEW m \in Members
  PROVE  /\ OnScreen(m) \subseteq OnScreen(m)'
         /\ \A line \in Lines, live \in BOOLEAN :
              screen'[m] = Append(screen[m], [line |-> line, live |-> live])
                => line \in OnScreen(m)'
<1>1. ASSUME NEW shown \in Shown, screen'[m] = Append(screen[m], shown)
      PROVE  OnScreen(m) \subseteq OnScreen(m)' /\ shown.line \in OnScreen(m)'
  BY <1>1, ScreenAppend DEF OnScreen
<1>2. \A line \in Lines, live \in BOOLEAN : [line |-> line, live |-> live] \in Shown
  BY DEF Shown
<1>3. CASE screen'[m] = screen[m]
  <2>1. OnScreen(m)' = OnScreen(m)
    BY <1>3 DEF OnScreen
  <2>2. ASSUME NEW shown \in Shown
        PROVE  screen[m] # Append(screen[m], shown)
    <3>1. screen[m] \in Seq(Shown)
      BY DEF TypeOK, TalkOK, Shown
    <3> HIDE DEF Shown
    <3> QED
      BY <3>1, AppendProperties, LenProperties
  <2> QED
    BY <1>2, <1>3, <2>1, <2>2
<1>4. CASE screen'[m] # screen[m]
  <2>1. PICK shown \in Shown : screen'[m] = Append(screen[m], shown)
    BY <1>4, ScreenGrows, BufIsLine, RecordsOfLines
  <2>2. OnScreen(m) \subseteq OnScreen(m)'
    BY <1>1, <2>1
  <2>3. ASSUME NEW line \in Lines, NEW live \in BOOLEAN,
               screen'[m] = Append(screen[m], [line |-> line, live |-> live])
        PROVE  line \in OnScreen(m)'
    BY <1>1, <1>2, <2>3
  <2> QED
    BY <2>2, <2>3
<1> QED
  BY <1>3, <1>4

\* A broadcast ends when the loop does.
LEMMA SentStep ==
  ASSUME TypeOK, Placed, [Next]_vars, NEW a \in Members,
         hpc[a] = "send", hpc'[a] # "send"
  PROVE  HandlerSent(a)
<1>0. DOMAIN hpc = Members
  BY DEF TypeOK, ThreadsOK
<1>1. ASSUME NEW m \in Members, HandlerSent(m)
      PROVE  m = a
  BY <1>0, <1>1 DEF HandlerSent
<1>2. ASSUME NEW m \in Members, ClientActs(m)
      PROVE  FALSE
  <2>1. \A p \in Members : net[p] = "none" => hpc[p] = "none"
    BY DEF Placed
  <2>2. CASE Place(m)
    BY <1>0, <2>1, <2>2 DEF Place
  <2>3. CASE Speak(m) \/ \E how \in Deaths : Die(m, how)
    BY <2>3 DEF Speak, Die
  <2> QED
    BY <1>2, <2>2, <2>3 DEF ClientActs
<1>3. ASSUME NEW m \in Members, HandlerEnters(m)
      PROVE  FALSE
  BY <1>0, <1>3
  DEF HandlerEnters, Start, HandlerSelect, HandlerReplay, HandlerReplayed, HandlerAt
<1>4. ASSUME NEW m \in Members, HandlerLeaves(m) \/ HandlerFails(m)
      PROVE  FALSE
  <2>1. hpc[m] # "send" /\ \E pc \in {"leave", "exited", "failed", "read"} :
                             hpc' = [hpc EXCEPT ![m] = pc]
    BY <1>4
    DEF HandlerLeaves, HandlerReadError, HandlerLeave, HandlerFails,
        HandlerSelectFail, HandlerStoreFail, HandlerAt
  <2> QED
    BY <1>0, <2>1
<1>5. ASSUME NEW m \in Members, HandlerRead(m) \/ HandlerSend(m) \/ HandlerStore(m)
      PROVE  FALSE
  BY <1>0, <1>5 DEF HandlerRead, HandlerSend, HandlerStore, HandlerAt
<1>6. ~UNCHANGED vars
  BY DEF vars
<1> QED
  BY <1>1, <1>2, <1>3, <1>4, <1>5, <1>6 DEF Next, HandlerRuns, HandlerChats

\* While nobody leaves, a line on its way is on the screen of everybody who was
\* there when it was read, or the loop has still to come to them.
LEMMA UnderwayReachesStep ==
  ASSUME TypeOK, Placed, StableInReach, LinesInOrder, AudienceEntered,
         UnderwayReaches, [Next]_vars
  PROVE  UnderwayReaches'
<1> SUFFICES ASSUME stable', NEW m \in Members, NEW a \in Members,
                    net'[m] = "open", Handles(a)'
             PROVE  IF m \in audience'[a] THEN OnItsWay(m, a)'
                    ELSE hpc'[m] \in {"replay", "read", "send", "store"}
                           => buf'[a] \in missed'[m]
  BY DEF UnderwayReaches
<1>0. /\ DOMAIN hpc = Members /\ DOMAIN sd = Members
      /\ clnt_num \in [Members -> Slots] /\ sd \in [Members -> 0 .. MEMBER_MAX]
      /\ count \in Int /\ MEMBER_MAX \in Nat
  BY ChatAssumption DEF ChatAssumption, TypeOK, RoomOK, ThreadsOK
<1>1. stable /\ \A p \in Members : ~HandlerLeave(p)
  <2>1. \A p \in Members : ~HandlerLeave(p)
    BY DEF HandlerLeave
  <2>2. (\E p \in Members : Place(p)) => stable
    BY DEF Place, historyVars
  <2> QED
    BY <2>1, <2>2, QuietStep
<1>2. CASE Place(m)
  <2>1. hpc[m] = "none" /\ hpc'[m] = "placed" /\ audience' = audience
    BY <1>0, <1>2 DEF Place, Placed, historyVars
  <2>2. m \notin audience'[a]
    BY <2>1 DEF AudienceEntered
  <2> QED
    BY <2>1, <2>2
<1>3. CASE ~Place(m)
  <2>1. net[m] = "open"
    BY <1>3, OpenStep
  <2>2. hpc[m] # "none" /\ clnt_num'[m] = clnt_num[m] /\ hpc'[m] # "none"
    <3>1. hpc[m] # "none"
      BY <2>1 DEF Placed
    <3> QED
      BY <3>1, StaysPlaced
  <2>3. m \in Present => m \in Present'
    <3>1. hpc[m] # "exited" => hpc'[m] # "exited"
      <4>1. CASE \E p \in Members : Place(p)
        BY <1>0, <4>1 DEF Place
      <4>2. CASE \A p \in Members : ~Place(p)
        BY <1>1, <4>2, QuietStep
      <4> QED
        BY <4>1, <4>2
    <3> QED
      BY <2>2, <3>1 DEF Present
  <2>4. CASE HandlerRead(a)
    <3>1. /\ audience'[a] = InReach /\ sd'[a] = 0
          /\ hpc' = [hpc EXCEPT ![a] = "send"] /\ hpc[a] = "read"
          /\ UNCHANGED <<count, clnt_socks, clnt_num>>
      BY <1>0, <2>4 DEF HandlerRead, HandlerAt, TypeOK, TalkOK, roomVars
    <3>2. CASE m \in Present
      <4>1. m \in InReach
        <5>1. clnt_num[m] \in Slots /\ clnt_num[m] <= count
              /\ clnt_socks[clnt_num[m]] = m /\ m # None
          BY <1>0, <1>1, <3>2, ChatAssumption
          DEF StableInReach, Placed, ChatAssumption
        <5> QED
          BY <5>1 DEF InReach
      <4>2. OnItsWay(m, a)'
        BY <1>0, <2>2, <2>3, <3>1, <3>2 DEF OnItsWay, Slots
      <4> QED
        BY <3>1, <4>1, <4>2
    <3>3. CASE m \notin Present
      <4>1. hpc[m] = "exited"
        BY <2>2, <3>3 DEF Present
      <4>2. hpc'[m] = "exited"
        BY <1>0, <3>1, <4>1
      <4>3. m \notin InReach
        BY <3>3 DEF InReach, Placed
      <4> QED
        BY <3>1, <4>2, <4>3
    <3> QED
      BY <3>2, <3>3
  <2>5. CASE ~HandlerRead(a)
    <3>1. Handles(a)
      BY <2>5, HandlesStep
    <3>2. audience'[a] = audience[a] /\ buf'[a] = buf[a] /\ buf[a] \in Lines
      BY <2>5, <3>1, PhaseStep, BufIsLine
    <3>3. CASE m \in audience[a]
      <4>1. OnItsWay(m, a)
        BY <1>1, <2>1, <3>1, <3>3 DEF UnderwayReaches
      <4>2. CASE buf[a] \in OnScreen(m)
        <5>1. buf[a] \in OnScreen(m)'
          BY <4>2, OnScreenStays
        <5>2. OnItsWay(m, a)'
          BY <3>2, <5>1 DEF OnItsWay
        <5> QED
          BY <3>2, <3>3, <5>2
      <4>3. CASE hpc[a] = "send" /\ m \in Present /\ sd[a] <= clnt_num[m]
        <5>1. CASE HandlerSend(a) /\ sd[a] = clnt_num[m]
          <6>1. /\ hpc' = hpc /\ clnt_socks[sd[a]] = m /\ m # None
                /\ WriteTo(m, Live(buf[a]))
            BY <4>3, <5>1, ChatAssumption DEF HandlerSend, Placed, ChatAssumption
          <6>2. Live(buf[a]) \in Shown
            BY <3>2, RecordsOfLines
          <6>3. screen'[m] = Append(screen[m], Live(buf[a]))
            BY <2>1, <6>1, <6>2, WriteEffect
          <6>4. buf[a] \in OnScreen(m)'
            BY <3>2, <6>3, OnScreenStays DEF Live
          <6>5. OnItsWay(m, a)'
            BY <3>2, <6>4 DEF OnItsWay
          <6> QED
            BY <3>2, <3>3, <6>5
        <5>2. CASE ~(HandlerSend(a) /\ sd[a] = clnt_num[m]) /\ hpc'[a] = "send"
          <6>1. sd'[a] = sd[a] \/ (HandlerSend(a) /\ sd'[a] = sd[a] + 1)
            BY <2>5, <5>2, BroadcastStep
          <6>2. sd[a] \in Int /\ clnt_num[m] \in Int
            BY <1>0 DEF Slots
          <6>3. sd'[a] <= clnt_num'[m]
            BY <2>2, <4>3, <5>2, <6>1, <6>2
          <6>4. OnItsWay(m, a)'
            BY <2>3, <4>3, <5>2, <6>3 DEF OnItsWay
          <6> QED
            BY <3>2, <3>3, <6>4
        <5>3. CASE hpc'[a] # "send"
          <6>1. HandlerSent(a)
            BY <1>0, <4>3, <5>3, SentStep
          <6>2. ~(sd[a] <= count)
            BY <6>1 DEF HandlerSent, SlotsLeft
          <6>3. clnt_num[m] <= count
            BY <1>1, <4>3 DEF StableInReach
          <6>4. sd[a] \in Int /\ clnt_num[m] \in Int
            BY <1>0 DEF Slots
          <6> QED
            BY <1>0, <4>3, <6>2, <6>3, <6>4
        <5> QED
          BY <5>1, <5>2, <5>3
      <4> QED
        BY <4>1, <4>2, <4>3 DEF OnItsWay
    <3>4. CASE m \notin audience[a]
      <4>1. ASSUME hpc'[m] \in {"replay", "read", "send", "store"}
            PROVE  buf[a] \in missed'[m]
        <5>1. CASE HandlerSelect(m)
          <6>1. missed'[m] = {buf[n] : n \in {k \in Members :
                                /\ hpc[k] \in {"send", "store"}
                                /\ m \notin audience[k]}}
            BY <5>1 DEF HandlerSelect, TypeOK, TalkOK
          <6> QED
            BY <3>1, <3>4, <6>1 DEF Handles
        <5>2. CASE ~HandlerSelect(m)
          <6>1. missed'[m] = missed[m]
            BY <5>2, PhaseStep
          <6>2. hpc[m] \in {"replay", "read", "send", "store"}
            BY <4>1, <5>2, PhaseStep DEF HandlerReplay, HandlerReplayed, HandlerAt
          <6> QED
            BY <1>1, <2>1, <3>1, <3>4, <6>1, <6>2 DEF UnderwayReaches
        <5> QED
          BY <5>1, <5>2
      <4> QED
        BY <3>2, <3>4, <4>1
    <3> QED
      BY <3>3, <3>4
  <2> QED
    BY <2>4, <2>5
<1> QED
  BY <1>2, <1>3

\* What the table has was on its way, so that it is on the screens, or missed, or
\* about to be replayed.
LEMMA KeptReachesStep ==
  ASSUME TypeOK, Placed, LinesInOrder, UnderwayReaches, KeptReaches, [Next]_vars
  PROVE  KeptReaches'
<1> SUFFICES ASSUME stable', NEW m \in Members, net'[m] = "open",
                    hpc'[m] \in {"replay", "read", "send", "store"},
                    NEW i \in DOMAIN chat_tb'
             PROVE  \/ chat_tb'[i] \in OnScreen(m)' \cup missed'[m]
                    \/ /\ hpc'[m] = "replay"
                       /\ \E j \in DOMAIN result'[m] : result'[m][j] = chat_tb'[i]
  BY DEF KeptReaches
<1>0. /\ result \in [Members -> Seq(Lines)] /\ DOMAIN hpc = Members
      /\ DOMAIN net = Members
  BY DEF TypeOK, RoomOK, ThreadsOK
<1>1. stable
  <2>1. \A p \in Members : ~HandlerLeave(p)
    BY DEF HandlerLeave
  <2>2. (\E p \in Members : Place(p)) => stable
    BY DEF Place, historyVars
  <2> QED
    BY <2>1, <2>2, QuietStep
<1>2. net[m] = "open"
  BY OpenStep
<1>3. CASE HandlerSelect(m)
  <2>1. /\ hpc'[m] = "replay" /\ result'[m] = chat_tb /\ chat_tb' = chat_tb
    BY <1>0, <1>3 DEF HandlerSelect
  <2> QED
    BY <2>1
<1>4. CASE ~HandlerSelect(m)
  <2>1. missed'[m] = missed[m] /\ OnScreen(m) \subseteq OnScreen(m)'
    BY <1>4, PhaseStep, OnScreenStays
  <2>2. hpc[m] \in {"replay", "read", "send", "store"}
    BY <1>4, PhaseStep DEF HandlerReplay, HandlerReplayed, HandlerAt
  <2>3. CASE i \in DOMAIN chat_tb
    <3>1. chat_tb'[i] = chat_tb[i]
      BY <2>3, TableGrows
    <3>2. \/ chat_tb[i] \in OnScreen(m) \cup missed[m]
          \/ hpc[m] = "replay" /\ \E j \in DOMAIN result[m] : result[m][j] = chat_tb[i]
      BY <1>1, <1>2, <2>2, <2>3 DEF KeptReaches
    <3>3. CASE chat_tb[i] \in OnScreen(m) \cup missed[m]
      BY <2>1, <3>1, <3>3
    <3>4. ASSUME hpc[m] = "replay", NEW j \in DOMAIN result[m],
                 result[m][j] = chat_tb[i]
          PROVE  \/ chat_tb[i] \in OnScreen(m)'
                 \/ /\ hpc'[m] = "replay"
                    /\ \E k \in DOMAIN result'[m] : result'[m][k] = chat_tb[i]
      <4>1. /\ Len(result[m]) \in Nat /\ j \in 1 .. Len(result[m])
            /\ result[m] # <<>>
        BY <1>0, <3>4, LenProperties, EmptySeq
      <4>2. CASE HandlerReplay(m)
        <5>1. /\ hpc' = hpc /\ WriteTo(m, Stored(Head(result[m])))
              /\ result' = [result EXCEPT ![m] = Tail(result[m])]
          BY <4>2 DEF HandlerReplay
        <5>2. /\ Head(result[m]) = result[m][1] /\ Head(result[m]) \in Lines
              /\ DOMAIN result'[m] = 1 .. Len(result[m]) - 1
              /\ \A k \in 1 .. Len(result[m]) - 1 : result'[m][k] = result[m][k + 1]
          BY <1>0, <4>1, <5>1, HeadTailProperties, LenProperties
        <5>3. CASE j = 1
          <6>1. Stored(Head(result[m])) \in Shown
            BY <5>2, RecordsOfLines
          <6>2. screen'[m] = Append(screen[m], Stored(Head(result[m])))
            BY <1>2, <5>1, <6>1, WriteEffect
          <6>3. Head(result[m]) \in OnScreen(m)'
            BY <5>2, <6>2, OnScreenStays DEF Stored
          <6> QED
            BY <3>4, <5>2, <5>3, <6>3
        <5>4. CASE j # 1
          <6>1. j - 1 \in 1 .. Len(result[m]) - 1 /\ (j - 1) + 1 = j
            BY <4>1, <5>4
          <6>2. j - 1 \in DOMAIN result'[m] /\ result'[m][j - 1] = result[m][j]
            BY <5>2, <6>1
          <6> QED
            BY <3>4, <5>1, <6>2
        <5> QED
          BY <5>3, <5>4
      <4>3. CASE ~HandlerReplay(m)
        <5>1. ~HandlerReplayed(m)
          <6>1. HandlerReplayed(m) => net'[m] # "open"
            BY <1>0, <4>1 DEF HandlerReplayed, AfterWrites
          <6> QED
            BY <6>1
        <5>2. hpc'[m] = "replay" /\ result'[m] = result[m]
          BY <1>4, <3>4, <4>3, <5>1, PhaseStep
        <5> QED
          BY <3>4, <5>2
      <4> QED
        BY <4>2, <4>3
    <3> QED
      BY <3>1, <3>2, <3>3, <3>4
  <2>4. CASE i \notin DOMAIN chat_tb
    <3>1. PICK a \in Members : /\ HandlerStore(a) /\ hpc[a] = "store" /\ Handles(a)
                               /\ chat_tb'[i] = buf[a]
      BY <2>4, TableGrows
    <3>2. buf[a] \in OnScreen(m) \cup missed[m]
      BY <1>1, <1>2, <2>2, <3>1 DEF UnderwayReaches, OnItsWay
    <3> QED
      BY <2>1, <3>1, <3>2
  <2> QED
    BY <2>3, <2>4
<1> QED
  BY <1>3, <1>4

-----------------------------------------------------------------------------
(* The invariant.                                                          *)

\* The inductive invariant holds when the room is made (serv_init).
LEMMA InitIInv == Init => IInv
<1> SUFFICES ASSUME Init
             PROVE  IInv
  OBVIOUS
<1>0. /\ None \notin Members /\ MEMBER_MAX \in Nat \ {0}
      /\ MaxConns \in Nat /\ MaxLines \in Nat /\ MaxFailures \in Nat
  BY ChatAssumption DEF ChatAssumption
<1>1. RoomOK
  <2>1. -1 \in -1 .. MEMBER_MAX - 1
    BY <1>0
  <2> QED
    BY <2>1 DEF Init, RoomOK, NetStates
<1>2. ThreadsOK
  BY <1>0, EmptySeq DEF Init, ThreadsOK, Slots
<1>3. TalkOK
  BY <1>0, EmptySeq DEF Init, TalkOK
<1>4. Present = {}
  BY DEF Init, Present
<1>5. Placed /\ StableInReach
  <2>1. count + 1 = Cardinality(Present)
    BY <1>4, FS_EmptySet DEF Init
  <2> QED
    BY <1>4, <2>1 DEF Init, Placed, StableInReach
<1>6. \A m \in Members : Room!Replayed(m) = 0 /\ Room!Kept(m) = 0
  <2>1. \A m \in Members : screen[m] = <<>>
    BY DEF Init
  <2>2. {i \in DOMAIN chat_tb : TRUE} = {}
    BY DEF Init
  <2>3. \A m \in Members : {i \in DOMAIN screen[m] : ~screen[m][i].live} = {}
    BY <2>1
  <2>4. \A m \in Members : {i \in DOMAIN chat_tb : chat_tb[i].from = m} = {}
    BY <2>2
  <2> QED
    BY <2>3, <2>4, FS_EmptySet, RoomCardinality DEF Room!Replayed, Room!Kept
<1>7. LinesInOrder
  BY EmptySeq DEF Init, LinesInOrder, Handles
<1>8. HeardIsKept
  <2>1. \A m \in Members : Heard(m) = 0 /\ ~Handles(m)
    BY EmptySeq DEF Init, Heard, Handles
  <2> QED
    BY <1>6, <2>1 DEF HeardIsKept
<1>9. LogIsPrefix
  BY DEF Init, LogIsPrefix
<1>10. ScreensBehindLoop /\ SenderOrder
  BY DEF Init, ScreensBehindLoop, SenderOrder
<1>11. ReplayInOrder /\ ReplayedIsKept
  BY <1>6 DEF Init, ReplayInOrder, ReplayedIsKept
<1>12. AudienceEntered /\ UnderwayReaches /\ KeptReaches
  BY DEF Init, AudienceEntered, UnderwayReaches, KeptReaches, Handles
<1> QED
  BY <1>1, <1>2, <1>3, <1>5, <1>7, <1>8, <1>9, <1>10, <1>11, <1>12
  DEF IInv, TypeOK

\* Every step of a client or of a thread keeps it.
LEMMA StepIInv == IInv /\ [Next]_vars => IInv'
<1> SUFFICES ASSUME IInv, [Next]_vars
             PROVE  IInv'
  OBVIOUS
<1>1. /\ TypeOK /\ Placed /\ StableInReach
      /\ LinesInOrder /\ HeardIsKept /\ LogIsPrefix
      /\ ScreensBehindLoop /\ SenderOrder /\ ReplayInOrder /\ ReplayedIsKept
      /\ AudienceEntered /\ UnderwayReaches /\ KeptReaches
  BY DEF IInv
<1>2. TypeOK'
  BY <1>1, RoomOKStep, ThreadsOKStep, TalkOKStep DEF TypeOK
<1>3. Placed' /\ StableInReach'
  BY <1>1, PlacedStep, StableInReachStep
<1>4. LinesInOrder' /\ HeardIsKept' /\ LogIsPrefix'
  BY <1>1, LinesInOrderStep, HeardIsKeptStep, LogIsPrefixStep
<1>5. ScreensBehindLoop' /\ SenderOrder' /\ ReplayInOrder' /\ ReplayedIsKept'
  BY <1>1, ScreensBehindLoopStep, SenderOrderStep, ReplayInOrderStep,
     ReplayedIsKeptStep
<1>6. AudienceEntered' /\ UnderwayReaches' /\ KeptReaches'
  BY <1>1, AudienceEnteredStep, UnderwayReachesStep, KeptReachesStep
<1> QED
  BY <1>2, <1>3, <1>4, <1>5, <1>6 DEF IInv

-----------------------------------------------------------------------------
(* The steps of Chat as steps of ChatRoom.                                 *)

\* A line that is broadcast is the next one of its author, and new to the screen.
LEMMA SendShows ==
  ASSUME IInv, NEW m \in Members, NEW a \in Members,
         hpc[a] = "send", Handles(a), sd[a] = clnt_num[m]
  PROVE  Room!Underway(buf[a]) /\ Room!NewTo(m, buf[a])
<1>0. /\ TypeOK /\ LinesInOrder /\ HeardIsKept /\ LogIsPrefix
      /\ ScreensBehindLoop /\ ReplayedIsKept
      /\ sd \in [Members -> 0 .. MEMBER_MAX] /\ MEMBER_MAX \in Nat
  BY ChatAssumption DEF ChatAssumption, IInv, TypeOK, ThreadsOK
<1>1. /\ buf[a] \in Lines /\ buf[a].from = a /\ buf[a].n = Heard(a)
      /\ Heard(a) \in Nat /\ Heard(a) <= said[a]
  BY <1>0, BufIsLine
<1>2. Room!Underway(buf[a])
  <2>1. PICK lost \in {0, 1} : /\ mutex = "free" => lost = 0
                               /\ Heard(a) = Room!Kept(a) + lost + 1
    BY <1>0 DEF HeardIsKept
  <2>2. Room!Kept(a) \in Nat
    BY <1>0, <1>1, KeptAppend
  <2>3. buf[a].n = Room!Kept(a) + 1
        \/ (mutex # "free" /\ buf[a].n = Room!Kept(a) + 2)
    BY <1>1, <2>1, <2>2
  <2> QED
    BY <1>1, <2>3 DEF Room!Underway
<1>3. ASSUME NEW i \in DOMAIN screen[m], screen[m][i].line.from = buf[a].from
      PROVE  screen[m][i].line.n < buf[a].n
  BY <1>0, <1>1, <1>3, OlderShown
<1> QED
  BY <1>2, <1>3 DEF Room!NewTo

\* A step that adds to no screen says a line, keeps one, seals the record, or is
\* not seen.
LEMMA SilentStep ==
  ASSUME IInv, [Next]_vars, UNCHANGED screen
  PROVE  [Room!Next]_(Room!vars)
<1>0. TypeOK /\ Placed /\ LinesInOrder /\ HeardIsKept
  BY DEF IInv
<1>1. ASSUME NEW m \in Members, Speak(m)
      PROVE  Room!Say(m)
  BY <1>1 DEF Speak, Room!Say, dbVars
<1>2. ASSUME NEW a \in Members, HandlerStore(a)
      PROVE  Room!Keep(a)
  <2>1. /\ mutex = "free" /\ Handles(a) /\ mutex' = mutex /\ UNCHANGED said
        /\ chat_tb' = Append(chat_tb, buf[a])
    BY <1>2 DEF HandlerStore, HandlerAt, Handles, clientVars
  <2>2. /\ buf[a] \in Lines /\ buf[a].from = a /\ buf[a].n = Heard(a)
        /\ buf[a] = [from |-> a, n |-> buf[a].n]
        /\ Heard(a) <= said[a] /\ said[a] \in Nat
    BY <1>0, <2>1, BufIsLine, RecordsOfLines
  <2>3. Room!Kept(a) \in Nat
    BY <1>0, <2>2, KeptAppend
  <2>4. Heard(a) = Room!Kept(a) + 1
    BY <1>0, <2>1, <2>3 DEF HeardIsKept
  <2>5. /\ Room!Kept(a) < said[a]
        /\ chat_tb' = Append(chat_tb, [from |-> a, n |-> Room!Kept(a) + 1])
    BY <2>1, <2>2, <2>3, <2>4
  <2> QED
    BY <2>1, <2>5 DEF Room!Keep
<1>3. ASSUME NEW m \in Members, HandlerStoreFail(m)
      PROVE  Room!Seal
  BY <1>3 DEF HandlerStoreFail, MutexAfterFailure, clientVars, Room!Seal
<1>4. CASE UNCHANGED <<said, chat_tb, mutex>>
  BY <1>4 DEF Room!vars
<1>5. \/ UNCHANGED said
      \/ \E m \in Members : Speak(m)
  <2>1. ASSUME NEW m \in Members, ~Speak(m), ClientActs(m) \/ HandlerRuns(m)
        PROVE  UNCHANGED said
    <3>1. CASE Place(m) \/ \E how \in Deaths : Die(m, how)
      BY <3>1 DEF Place, Die, clientVars
    <3>2. CASE HandlerEnters(m) \/ HandlerLeaves(m) \/ HandlerFails(m)
      BY <3>2
      DEF HandlerEnters, Start, HandlerSelect, HandlerReplay, HandlerReplayed,
          HandlerLeaves, HandlerReadError, HandlerLeave, HandlerFails,
          HandlerSelectFail, HandlerStoreFail, clientVars
    <3>3. CASE HandlerChats(m)
      BY <3>3
      DEF HandlerChats, HandlerRead, HandlerSend, HandlerSent, HandlerStore,
          clientVars
    <3> QED
      BY <2>1, <3>1, <3>2, <3>3 DEF ClientActs, HandlerRuns
  <2>2. UNCHANGED vars => UNCHANGED said
    BY DEF vars, clientVars
  <2> QED
    BY <2>1, <2>2 DEF Next
<1> QED
  BY <1>0, <1>1, <1>2, <1>3, <1>4, <1>5, TableStep DEF Room!Next

\* A write to a client that is there is a line shown, or one replayed.
LEMMA WritingStep ==
  ASSUME IInv, [Next]_vars, NEW c \in Members, screen'[c] # screen[c]
  PROVE  Room!Next
<1>0. /\ TypeOK /\ Placed /\ LinesInOrder /\ ReplayInOrder
      /\ screen \in [Members -> Seq(Shown)]
      /\ result \in [Members -> Seq(Lines)] /\ DOMAIN screen = Members
      /\ chat_tb \in Seq(Lines) /\ Len(chat_tb) \in Nat
  BY LenProperties DEF IInv, TypeOK, ThreadsOK, TalkOK, Shown
<1>1. /\ net[c] = "open"
      /\ \/ /\ HandlerReplay(c) /\ Head(result[c]) \in Lines
            /\ screen'[c] = Append(screen[c], Stored(Head(result[c])))
         \/ \E a \in Members :
              /\ HandlerSend(a) /\ hpc[a] = "send" /\ Handles(a)
              /\ sd[a] = clnt_num[c]
              /\ screen'[c] = Append(screen[c], Live(buf[a]))
  BY <1>0, ScreenGrows
<1>2. CASE HandlerReplay(c)
  <2>1. /\ hpc[c] = "replay" /\ result[c] # <<>>
        /\ UNCHANGED <<said, chat_tb, mutex>>
        /\ WriteTo(c, Stored(Head(result[c])))
    BY <1>2 DEF HandlerReplay, HandlerAt, dbVars, clientVars
  <2>2. /\ Room!Replayed(c) + 1 \in DOMAIN chat_tb
        /\ chat_tb[Room!Replayed(c) + 1] = Head(result[c])
        /\ Room!Replayed(c) \in Nat
    BY <1>0, <1>1, <1>2, NextReplayed, ReplayedStep
  <2>3. Room!Replayed(c) < Len(chat_tb)
    BY <1>0, <2>2, LenProperties
  <2>4. screen' = [screen EXCEPT ![c] =
          Append(screen[c], [line |-> chat_tb[Room!Replayed(c) + 1], live |-> FALSE])]
    BY <1>1, <2>1, <2>2 DEF WriteTo, Stored
  <2> QED
    BY <2>1, <2>3, <2>4 DEF Room!Next, Room!Replay
<1>3. ASSUME NEW a \in Members, HandlerSend(a), hpc[a] = "send", Handles(a),
             sd[a] = clnt_num[c],
             screen'[c] = Append(screen[c], Live(buf[a]))
      PROVE  Room!Next
  <2>1. UNCHANGED <<said, chat_tb, mutex>>
    BY <1>3 DEF HandlerSend, dbVars, clientVars
  <2>2. buf[a] \in Lines
    BY <1>0, <1>3, BufIsLine
  <2>3. screen' = [screen EXCEPT ![c] = Append(screen[c], Live(buf[a]))]
    <3>1. \/ screen' = screen
          \/ \E d : screen' = [screen EXCEPT ![d] = Append(screen[d], Live(buf[a]))]
      BY <1>3 DEF HandlerSend, WriteTo
    <3>2. PICK d : screen' = [screen EXCEPT ![d] = Append(screen[d], Live(buf[a]))]
      BY <3>1
    <3>3. d = c
      BY <1>0, <3>2
    <3> QED
      BY <3>2, <3>3
  <2>4. Room!Show(c, buf[a])
    BY <1>3, <2>1, <2>3, SendShows DEF Room!Show, Live
  <2>5. buf[a] \in Room!Lines
    BY <2>2 DEF Lines, Room!Lines
  <2> QED
    BY <2>4, <2>5 DEF Room!Next
<1> QED
  BY <1>1, <1>2, <1>3

\* A room starts as ChatRoom does, and every step is one of its steps or a stutter.
LEMMA RoomInit == Init => Room!Init
BY DEF Init, Room!Init

LEMMA RoomStep == IInv /\ [Next]_vars => [Room!Next]_(Room!vars)
<1> SUFFICES ASSUME IInv, [Next]_vars
             PROVE  [Room!Next]_(Room!vars)
  OBVIOUS
<1>1. CASE UNCHANGED screen
  BY <1>1, SilentStep
<1>2. CASE \E c \in Members : screen'[c] # screen[c]
  BY <1>2, WritingStep
<1>3. UNCHANGED screen \/ \E c \in Members : screen'[c] # screen[c]
  <2>1. screen \in [Members -> Seq(Shown)] /\ screen' \in [Members -> Seq(Shown)]
    BY ScreenType DEF IInv, TypeOK, TalkOK, Shown
  <2> QED
    BY <2>1
<1> QED
  BY <1>1, <1>2, <1>3

-----------------------------------------------------------------------------
(* The theorems.                                                           *)

\* Every behaviour of a room keeps the inductive invariant.
THEOREM Invariance == Spec => []IInv
BY InitIInv, StepIInv, PTL DEF Spec

\* Every variable keeps to the values the code can store in it.
THEOREM TypeCorrect == Spec => []TypeOK
<1>1. IInv => TypeOK
  BY DEF IInv
<1> QED
  BY Invariance, <1>1, PTL

\* The table holds, of each author, the first lines it said, in order and without
\* a hole, whichever INSERTs fail.
THEOREM LogKept == Spec => []LogIsPrefix
<1>1. IInv => LogIsPrefix
  BY DEF IInv
<1> QED
  BY Invariance, <1>1, PTL

\* Whatever is shown to a member, live or replayed, comes after the older lines of
\* its author and is not repeated, but for what is replayed after it was shown live.
THEOREM OrderKept == Spec => []SenderOrder
<1>1. IInv => SenderOrder
  BY DEF IInv
<1> QED
  BY Invariance, <1>1, PTL

\* While nobody leaves, a member that has been sent the log has the whole table on
\* its screen, but for lines read before it came and stored after its SELECT.
THEOREM LinesKept == Spec => []NoLineLost
<1>1. IInv => NoLineLost
  BY DEF IInv, KeptReaches, NoLineLost
<1> QED
  BY Invariance, <1>1, PTL

\* The loops, locks and queries of a room implement ChatRoom.
THEOREM Implementation == Spec => ImplementsChatRoom
<1>1. Init => Room!Init
  BY RoomInit
<1>2. IInv /\ [Next]_vars => [Room!Next]_(Room!vars)
  BY RoomStep
<1> QED
  BY Invariance, <1>1, <1>2, PTL DEF Spec, ImplementsChatRoom, Room!Spec

=============================================================================

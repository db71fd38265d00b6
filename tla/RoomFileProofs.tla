--------------------------- MODULE RoomFileProofs ---------------------------
(***************************************************************************)
(* Proofs about RoomFile, for every number of rooms, members, files, texts,*)
(* commands and failures.  First what the helpers of the model do, then    *)
(* what any step leaves alone, then one lemma per part of IInv             *)
(* (RoomFileInductive); the theorems are at the end.                       *)
(***************************************************************************)
EXTENDS RoomFileInductive, SequenceTheorems, WellFoundedInduction, TLAPS

Streams == [name : Names, room : Rooms, open : BOOLEAN]

Files == Seq(Chars) \cup {None}

\* A step of m.
Acts(m) ==
  \/ HandlerEnters(m) \/ HandlerCommanded(m)
  \/ HandlerOpens(m) \/ HandlerCreates(m) \/ HandlerCompiles(m)

-----------------------------------------------------------------------------
(* Helpers.                                                                *)
LEMMA MarkedAdds ==
  ASSUME NEW ms \in [Rooms -> SUBSET Marks], NEW rs, NEW mark \in Marks
  PROVE  /\ Marked(ms, rs, mark) \in [Rooms -> SUBSET Marks]
         /\ \A r \in Rooms :
              /\ ms[r] \subseteq Marked(ms, rs, mark)[r]
              /\ \A x : x # mark => (x \in Marked(ms, rs, mark)[r] <=> x \in ms[r])
              /\ r \in rs => mark \in Marked(ms, rs, mark)[r]
              /\ r \notin rs => Marked(ms, rs, mark)[r] = ms[r]
BY DEF Marked

LEMMA Overlaps ==
  ASSUME TypeOK, NEW m \in Members
  PROVE  /\ MarkOverlap(m) \in [Rooms -> SUBSET Marks]
         /\ \A r \in Rooms : marks[r] \subseteq MarkOverlap(m)[r]
         /\ "overlap" \notin MarkOverlap(m)[RoomOf[m]] =>
              \A k \in Members : RoomOf[k] = RoomOf[m] /\ Busy(k) => k = m
         /\ \A r \in Rooms : \A x :
              x # "overlap" => (x \in MarkOverlap(m)[r] <=> x \in marks[r])
<1>1. marks \in [Rooms -> SUBSET Marks] /\ RoomOf[m] \in Rooms /\ "overlap" \in Marks
  BY RoomFileAssumption DEF RoomFileAssumption, TypeOK, FilesOK, Marks
<1>2. CASE \E k \in Members \ {m} : RoomOf[k] = RoomOf[m] /\ Busy(k)
  <2>1. MarkOverlap(m) = Marked(marks, {RoomOf[m]}, "overlap")
    BY <1>2 DEF MarkOverlap
  <2>2. /\ MarkOverlap(m) \in [Rooms -> SUBSET Marks]
        /\ \A r \in Rooms :
             /\ marks[r] \subseteq MarkOverlap(m)[r]
             /\ \A x : x # "overlap" => (x \in MarkOverlap(m)[r] <=> x \in marks[r])
             /\ r \in {RoomOf[m]} => "overlap" \in MarkOverlap(m)[r]
    BY <1>1, <2>1, MarkedAdds
  <2> HIDE DEF MarkOverlap, Marks
  <2>3. "overlap" \in MarkOverlap(m)[RoomOf[m]]
    BY <1>1, <2>2
  <2> QED
    BY <2>2, <2>3
<1>3. CASE ~\E k \in Members \ {m} : RoomOf[k] = RoomOf[m] /\ Busy(k)
  <2>1. MarkOverlap(m) = marks
    BY <1>3 DEF MarkOverlap
  <2> QED
    BY <1>1, <1>3, <2>1
<1> QED
  BY <1>2, <1>3

\* fclose() of the FILE of a room.
LEMMA StreamClosed ==
  ASSUME TypeOK, NEW r \in Rooms, fp[r] # NULL
  PROVE  /\ ClosedStreams(r) \in Seq(Streams)
         /\ Len(ClosedStreams(r)) = Len(streams)
         /\ \A i \in 1 .. Len(streams) :
              /\ ClosedStreams(r)[i].name = streams[i].name
              /\ ClosedStreams(r)[i].room = streams[i].room
              /\ ClosedStreams(r)[i].open = (streams[i].open /\ i # fp[r])
<1> DEFINE s == streams
           e == [s[fp[r]] EXCEPT !.open = FALSE]
<1>1. s \in Seq(Streams) /\ fp[r] \in 1 .. Len(s) /\ Len(s) \in Nat
  BY LenProperties DEF TypeOK, FilesOK, Streams, NULL
<1>2. s[fp[r]] \in Streams
  BY <1>1, ElementOfSeq
<1>3. e \in Streams /\ e.name = s[fp[r]].name /\ e.room = s[fp[r]].room /\ e.open = FALSE
  BY <1>2 DEF Streams
<1>4. ClosedStreams(r) = [s EXCEPT ![fp[r]] = e]
  BY DEF ClosedStreams
<1>5. ASSUME NEW i \in 1 .. Len(s) PROVE s[i] \in Streams /\ s[i].open \in BOOLEAN
  <2>1. s[i] \in Streams
    BY <1>1, ElementOfSeq
  <2> QED
    BY <2>1 DEF Streams
<1> HIDE DEF e, s
<1>6. /\ [s EXCEPT ![fp[r]] = e] \in Seq(Streams)
      /\ Len([s EXCEPT ![fp[r]] = e]) = Len(s)
      /\ \A j \in 1 .. Len(s) : [s EXCEPT ![fp[r]] = e][j] = IF j = fp[r] THEN e ELSE s[j]
  BY <1>1, <1>3, ExceptSeq
<1>7. ASSUME NEW i \in 1 .. Len(s)
      PROVE  /\ ClosedStreams(r)[i].name = s[i].name
             /\ ClosedStreams(r)[i].room = s[i].room
             /\ ClosedStreams(r)[i].open = (s[i].open /\ i # fp[r])
  <2>1. CASE i = fp[r]
    BY <1>3, <1>4, <1>6, <2>1
  <2>2. CASE i # fp[r]
    BY <1>4, <1>5, <1>6, <2>2, Zenon
  <2> QED
    BY <2>1, <2>2
<1> QED
  BY <1>4, <1>6, <1>7 DEF s

\* fopen() of a file for a room.
LEMMA StreamOpened ==
  ASSUME TypeOK, NEW r \in Rooms, NEW n \in Names, OpenStream(r, n)
  PROVE  /\ streams' \in Seq(Streams)
         /\ Len(streams') = Len(streams) + 1 /\ Len(streams) \in Nat
         /\ \A i \in 1 .. Len(streams) : streams'[i] = streams[i]
         /\ streams'[Len(streams) + 1] = [name |-> n, room |-> r, open |-> TRUE]
         /\ fp' = [fp EXCEPT ![r] = Len(streams) + 1]
         /\ marks' \in [Rooms -> SUBSET Marks]
         /\ \A q \in Rooms :
              /\ marks[q] \subseteq marks'[q]
              /\ \A x : x # "shared" => (x \in marks'[q] <=> x \in marks[q])
              /\ q # r /\ q \in Holders(n)
                   => "shared" \in marks'[q] /\ "shared" \in marks'[r]
<1>1. streams \in Seq(Streams) /\ marks \in [Rooms -> SUBSET Marks] /\ "shared" \in Marks
  BY DEF TypeOK, FilesOK, Streams, Marks
<1>2. [name |-> n, room |-> r, open |-> TRUE] \in Streams
  BY DEF Streams
<1>3. /\ streams' = Append(streams, [name |-> n, room |-> r, open |-> TRUE])
      /\ fp' = [fp EXCEPT ![r] = Len(streams')]
  BY DEF OpenStream
<1>4. /\ streams' \in Seq(Streams)
      /\ Len(streams') = Len(streams) + 1 /\ Len(streams) \in Nat
      /\ \A i \in 1 .. Len(streams) : streams'[i] = streams[i]
      /\ streams'[Len(streams) + 1] = [name |-> n, room |-> r, open |-> TRUE]
  BY <1>1, <1>2, <1>3, AppendProperties, LenProperties
<1>5. \E rs : /\ marks' = Marked(marks, rs, "shared")
              /\ \A q \in Rooms : q # r /\ q \in Holders(n) => q \in rs /\ r \in rs
  <2> DEFINE others == Holders(n) \ {r}
             rs == IF others = {} THEN {} ELSE others \cup {r}
  <2>1. marks' = Marked(marks, rs, "shared")
    BY DEF OpenStream
  <2>2. \A q \in Rooms : q # r /\ q \in Holders(n) => q \in rs /\ r \in rs
    OBVIOUS
  <2> QED
    BY <2>1, <2>2
<1>6. PICK rs : /\ marks' = Marked(marks, rs, "shared")
               /\ \A q \in Rooms : q # r /\ q \in Holders(n) => q \in rs /\ r \in rs
  BY <1>5
<1>7. /\ marks' \in [Rooms -> SUBSET Marks]
      /\ \A q \in Rooms :
           /\ marks[q] \subseteq marks'[q]
           /\ \A x : x # "shared" => (x \in marks'[q] <=> x \in marks[q])
           /\ q \in rs => "shared" \in marks'[q]
  BY <1>1, <1>6, MarkedAdds, Zenon
<1>8. fp' = [fp EXCEPT ![r] = Len(streams) + 1]
  BY <1>3, <1>4
<1> QED
  BY <1>4, <1>6, <1>7, <1>8, Zenon

\* A bounded set of numbers has a largest one: the induction behind LastLine.
LEMMA Largest ==
  ASSUME NEW n \in Nat, NEW S \in SUBSET (0 .. n), S # {}
  PROVE  \E x \in S : \A y \in S : y <= x
<1> DEFINE T == {n - x : x \in S}
           Less == OpToRel(<, Nat)
<1>1. T \subseteq Nat /\ T # {}
  <2>1. \A x \in S : x \in 0 .. n
    OBVIOUS
  <2>2. \A x \in S : n - x \in Nat
    BY <2>1
  <2> QED
    BY <2>2, Zenon
<1>2. IsWellFoundedOn(Less, Nat)
  BY NatLessThanWellFounded
<1>3. PICK d \in T : \A e \in T : ~(<<e, d>> \in Less)
  <2> HIDE DEF T, Less
  <2> QED
    BY <1>1, <1>2, WFMin
<1>4. \A e \in T : ~(e < d)
  <2> HIDE DEF T
  <2> QED
    BY <1>1, <1>3 DEF OpToRel
<1>5. PICK x \in S : d = n - x
  BY <1>3
<1>6. \A y \in S : n - y \in T /\ y \in Nat
  OBVIOUS
<1> QED
  <2> HIDE DEF T
  <2> QED
    BY <1>4, <1>5, <1>6

\* FileSave() writes characters.
LEMMA CopyTyped ==
  ASSUME NEW t \in Seq(Chars), t # <<>>
  PROVE  Copy(t) \in Seq(Chars)
<1> DEFINE starts == {1} \cup {i + 1 : i \in {j \in 1 .. Len(t) - 1 : t[j] = NewLine}}
           last == CHOOSE i \in starts : \A j \in starts : j <= i
<1>1. Len(t) \in Nat \ {0} /\ \A i \in 1 .. Len(t) : t[i] \in Chars
  BY EmptySeq, LenProperties, ElementOfSeq
<1>2. starts \in SUBSET (0 .. Len(t)) /\ starts # {} /\ 0 \notin starts
  BY <1>1
<1>3. last \in starts
  <2>1. \E i \in starts : \A j \in starts : j <= i
    <3> HIDE DEF starts
    <3> QED
      BY <1>1, <1>2, Largest
  <2> QED
    BY <2>1
<1>4. last \in 1 .. Len(t)
  <2> HIDE DEF last, starts
  <2> QED
    BY <1>1, <1>2, <1>3
<1>5. LastLine(t) = SubSeq(t, last, Len(t))
  BY DEF LastLine
<1>6. LastLine(t) \in Seq(Chars)
  <2> HIDE DEF last
  <2>1. \A i \in last .. Len(t) : t[i] \in Chars
    BY <1>1, <1>4
  <2> QED
    BY <1>1, <1>4, <1>5, <2>1, SubSeqProperties
<1> QED
  BY <1>6, ConcatProperties DEF Copy

\* FMmodified() writes characters, and the whole file when nothing of it is left.
LEMMA OverwriteTyped ==
  ASSUME NEW t \in Seq(Chars), NEW old \in Seq(Chars)
  PROVE  /\ Overwrite(t, old) \in Seq(Chars)
         /\ Len(t) >= Len(old) => Overwrite(t, old) = t
<1>1. Len(t) \in Nat /\ Len(old) \in Nat /\ \A i \in 1 .. Len(old) : old[i] \in Chars
  BY LenProperties, ElementOfSeq
<1>2. \A i \in Len(t) + 1 .. Len(old) : old[i] \in Chars
  BY <1>1
<1>3. SubSeq(old, Len(t) + 1, Len(old)) \in Seq(Chars)
  BY <1>1, <1>2, SubSeqProperties
<1>4. Len(t) >= Len(old) => SubSeq(old, Len(t) + 1, Len(old)) = <<>>
  BY <1>1, SubSeqEmpty
<1> QED
  BY <1>3, <1>4, ConcatProperties, ConcatEmptySeq DEF Overwrite

\* The actions, one by one.
LEMMA ActsCases ==
  ASSUME NEW m \in Members, Acts(m)
  PROVE  \/ Enter(m) \/ HandlerFresh(m) \/ HandlerRow(m) \/ HandlerLoad(m)
         \/ \E n \in Names : HandlerRead(m, "open", n) \/ HandlerRead(m, "create", n)
         \/ HandlerRead(m, "compile", None)
         \/ \E t \in Texts : HandlerEdit(m, t)
         \/ HandlerOpen(m) \/ HandlerRefuseOpen(m) \/ HandlerReopen(m)
         \/ HandlerTransfer(m)
         \/ HandlerCreate(m) \/ HandlerRefuseCreate(m) \/ HandlerAbsent(m)
         \/ HandlerMake(m) \/ HandlerInsert(m)
         \/ HandlerCompile(m) \/ HandlerBuilds(m)
<1>1. Openable \subseteq Names /\ Creatable \subseteq Names
  BY RoomFileAssumption DEF RoomFileAssumption
<1> QED
  BY <1>1 DEF Acts, HandlerEnters, HandlerCommanded, OpenWanted, CreateWanted,
       CompileWanted, HandlerOpens, HandlerCreates, HandlerCompiles

\* What system() and what follows it do has nothing to do with the file of a room.
LEMMA BuildQuiet ==
  ASSUME NEW m \in Members, HandlerBuilds(m)
  PROVE  /\ UNCHANGED <<disk, backup, streams, fp, fname, rows>>
         /\ UNCHANGED <<arg, shown, budget, failures, marks>>
         /\ status = "up"
         /\ hpc[m] \in {"system", "gcc", "errors", "report", "discard", "run", "exec",
                        "result", "clean"}
         /\ \/ status' = "undefined" /\ hpc' = hpc /\ UNCHANGED buildVars
               /\ hpc[m] \in {"errors", "result"}
            \/ status' = status /\ \E pc \in {"read", "gcc", "errors", "report", "discard",
                                  "run", "exec", "result", "clean"} :
                                  hpc' = [hpc EXCEPT ![m] = pc]
         /\ mine' = mine \/ \E b : mine' = [mine EXCEPT ![m] = b]
         /\ answer' = answer \/ \E b : answer' = [answer EXCEPT ![m] = b]
         /\ redir' = redir \/ \E i : redir' = [redir EXCEPT ![m] = i]
<1> USE DEF HandlerAt, Go, Redirected, Ended, diskVars, roomVars, buildVars, fileVars,
        boundVars
<1>1. CASE HandlerSystem(m)
  BY <1>1 DEF HandlerSystem
<1>2. CASE HandlerGcc(m)
  BY <1>2 DEF HandlerGcc
<1>3. CASE HandlerErrors(m)
  BY <1>3 DEF HandlerErrors, Undefined
<1>4. CASE HandlerReport(m) \/ HandlerDiscard(m)
  BY <1>4 DEF HandlerReport, HandlerDiscard, Answered
<1>5. CASE HandlerRun(m) \/ HandlerExec(m)
  BY <1>5 DEF HandlerRun, HandlerExec
<1>6. CASE HandlerResult(m) \/ HandlerClean(m)
  BY <1>6 DEF HandlerResult, HandlerClean, Answered, Undefined
<1> QED
  BY <1>1, <1>2, <1>3, <1>4, <1>5, <1>6 DEF HandlerBuilds

\* A step of m changes the thread of m, the room of m, and adds marks.
LEMMA OwnThread ==
  ASSUME TypeOK, NEW m \in Members, Acts(m), NEW k \in Members, k # m
  PROVE  /\ hpc'[k] = hpc[k] /\ arg'[k] = arg[k]
         /\ mine'[k] = mine[k] /\ answer'[k] = answer[k] /\ redir'[k] = redir[k]
<1> USE DEF Go, Done, vars, diskVars, roomVars, buildVars, fileVars, boundVars
<1>0. /\ DOMAIN hpc = Members /\ DOMAIN arg = Members
      /\ DOMAIN mine = Members /\ DOMAIN answer = Members /\ DOMAIN redir = Members
  BY DEF TypeOK, ThreadsOK, BuildsOK
<1>1. CASE HandlerEnters(m)
  BY <1>0, <1>1 DEF HandlerEnters, Enter, HandlerFresh, HandlerRow, HandlerLoad,
       Transfer, Undefined
<1>2. CASE HandlerCommanded(m)
  BY <1>0, <1>2 DEF HandlerCommanded, OpenWanted, CreateWanted, CompileWanted,
       HandlerRead, HandlerEdit
<1>3. CASE HandlerOpens(m)
  BY <1>0, <1>3 DEF HandlerOpens, HandlerOpen, Close, Undefined, HandlerRefuseOpen,
       HandlerReopen, HandlerTransfer, Transfer
<1>4. CASE HandlerCreates(m)
  BY <1>0, <1>4 DEF HandlerCreates, HandlerCreate, Close, Undefined,
       HandlerRefuseCreate, HandlerAbsent, HandlerMake, HandlerInsert
<1>5. CASE HandlerCompiles(m)
  BY <1>0, <1>5, BuildQuiet DEF HandlerCompiles, HandlerCompile, Undefined
<1> QED
  BY <1>1, <1>2, <1>3, <1>4, <1>5 DEF Acts

LEMMA MarksGrow ==
  ASSUME TypeOK, Named, NEW m \in Members, Acts(m)
  PROVE  /\ marks' \in [Rooms -> SUBSET Marks]
         /\ \A r \in Rooms : marks[r] \subseteq marks'[r]
<1> USE DEF diskVars, roomVars, buildVars, boundVars
<1>0. marks \in [Rooms -> SUBSET Marks] /\ RoomOf[m] \in Rooms
  BY RoomFileAssumption DEF RoomFileAssumption, TypeOK, FilesOK
<1>1. ASSUME NEW ms \in [Rooms -> SUBSET Marks],
             \A r \in Rooms : marks[r] \subseteq ms[r],
             NEW rs, NEW mark \in Marks, marks' = Marked(ms, rs, mark)
      PROVE  /\ marks' \in [Rooms -> SUBSET Marks]
             /\ \A r \in Rooms : marks[r] \subseteq marks'[r]
  <2>1. /\ Marked(ms, rs, mark) \in [Rooms -> SUBSET Marks]
        /\ \A r \in Rooms : ms[r] \subseteq Marked(ms, rs, mark)[r]
    BY MarkedAdds
  <2> QED
    BY <1>1, <2>1
<1>2. /\ MarkOverlap(m) \in [Rooms -> SUBSET Marks]
      /\ \A r \in Rooms : marks[r] \subseteq MarkOverlap(m)[r]
  BY Overlaps
<1>3. {"compiled", "refused", "failed", "four", "short", "shared"} \subseteq Marks
  BY DEF Marks
<1>4. ASSUME NEW r \in Rooms, OpenFails(r)
      PROVE  /\ marks' \in [Rooms -> SUBSET Marks]
             /\ \A q \in Rooms : marks[q] \subseteq marks'[q]
  BY <1>0, <1>1, <1>3, <1>4 DEF OpenFails
<1>5. ASSUME NEW r \in Rooms, NEW n \in Names, OpenStream(r, n)
      PROVE  /\ marks' \in [Rooms -> SUBSET Marks]
             /\ \A q \in Rooms : marks[q] \subseteq marks'[q]
  BY <1>5, StreamOpened
<1> HIDE DEF Marks
<1>6. CASE marks' = marks
  BY <1>0, <1>6
<1>7. CASE Enter(m)
  BY <1>1, <1>2, <1>3, <1>7 DEF Enter
<1>8. CASE HandlerFresh(m)
  <2>1. OwnName[RoomOf[m]] \in Names
    BY <1>0, RoomFileAssumption DEF RoomFileAssumption
  <2> QED
    BY <1>0, <1>4, <1>5, <1>8, <2>1 DEF HandlerFresh
<1>9. CASE \E c, n : HandlerRead(m, c, n)
  BY <1>2, <1>9 DEF HandlerRead
<1>10. CASE \E t \in Texts : HandlerEdit(m, t)
  BY <1>1, <1>2, <1>3, <1>10 DEF HandlerEdit
<1>11. CASE HandlerOpen(m) \/ HandlerCreate(m)
  BY <1>6, <1>11 DEF HandlerOpen, HandlerCreate, Close, Undefined
<1>12. CASE HandlerRefuseOpen(m) \/ HandlerRefuseCreate(m)
  BY <1>0, <1>1, <1>3, <1>12 DEF HandlerRefuseOpen, HandlerRefuseCreate
<1>13. CASE HandlerReopen(m)
  <2>1. arg[m] \in Names
    BY <1>13 DEF Named, HandlerReopen, HandlerAt
  <2> QED
    BY <1>0, <1>4, <1>5, <1>13, <2>1 DEF HandlerReopen
<1>14. CASE HandlerMake(m)
  <2>1. arg[m] \in Names
    BY <1>14 DEF Named, HandlerMake, HandlerAt
  <2> QED
    BY <1>0, <1>4, <1>5, <1>14, <2>1 DEF HandlerMake
<1>15. CASE HandlerInsert(m)
  BY <1>0, <1>1, <1>3, <1>6, <1>15 DEF HandlerInsert
<1>16. CASE HandlerCompile(m)
  BY <1>0, <1>1, <1>3, <1>6, <1>16 DEF HandlerCompile, Undefined
<1>17. CASE HandlerBuilds(m)
  BY <1>6, <1>17, BuildQuiet
<1>18. CASE HandlerRow(m) \/ HandlerLoad(m) \/ HandlerTransfer(m) \/ HandlerAbsent(m)
  BY <1>6, <1>18 DEF HandlerRow, HandlerLoad, HandlerTransfer, Transfer, Undefined,
       HandlerAbsent
<1> QED
  BY <1>7, <1>8, <1>9, <1>10, <1>11, <1>12, <1>13, <1>14, <1>15, <1>16, <1>17,
     <1>18, ActsCases

\* Only the room of m changes, and of the FILEs only those that it opens or has
\* in its fp; FILEs keep their names and their rooms and are not opened again.
LEMMA OwnRoom ==
  ASSUME TypeOK, Named, NEW m \in Members, Acts(m)
  PROVE  /\ streams' \in Seq(Streams)
         /\ Len(streams) \in Nat /\ Len(streams') \in Nat
         /\ Len(streams) <= Len(streams')
         /\ \A i \in 1 .. Len(streams) :
              /\ streams'[i].name = streams[i].name
              /\ streams'[i].room = streams[i].room
              /\ streams'[i].open => streams[i].open
              /\ i # fp[RoomOf[m]] => streams'[i] = streams[i]
         /\ \A i \in 1 .. Len(streams') :
              i > Len(streams) => streams'[i].room = RoomOf[m] /\ fp'[RoomOf[m]] = i
         /\ fp' \in [Rooms -> 0 .. Len(streams')]
         /\ \A r \in Rooms : r # RoomOf[m] => fp'[r] = fp[r] /\ fname'[r] = fname[r]
         /\ \/ fp'[RoomOf[m]] \in {fp[RoomOf[m]], NULL}
            \/ fp'[RoomOf[m]] = Len(streams') /\ Len(streams') = Len(streams) + 1
<1> DEFINE R == RoomOf[m]
<1> USE DEF diskVars, roomVars, buildVars, boundVars
<1>0. /\ fp \in [Rooms -> 0 .. Len(streams)] /\ RoomOf[m] \in Rooms
      /\ streams \in Seq(Streams) /\ Len(streams) \in Nat /\ fname \in [Rooms -> Names \cup {None}]
  BY RoomFileAssumption, LenProperties DEF RoomFileAssumption, TypeOK, FilesOK, Streams
<1>1. CASE streams' = streams /\ fp' = fp /\ \A r \in Rooms : r # R => fname'[r] = fname[r]
  <2>1. fp'[R] = fp[R] /\ Len(streams') = Len(streams) /\ \A i : streams'[i] = streams[i]
    BY <1>1
  <2>2. ~\E i \in 1 .. Len(streams') : i > Len(streams)
    BY <1>0, <2>1
  <2>3. fp' \in [Rooms -> 0 .. Len(streams')] /\ streams' \in Seq(Streams)
    BY <1>0, <1>1
  <2>4. Len(streams) <= Len(streams') /\ Len(streams') \in Nat
    BY <1>0, <2>1
  <2> QED
    BY <1>0, <1>1, <2>1, <2>2, <2>3, <2>4
<1>2. CASE /\ fp[R] # NULL /\ streams' = ClosedStreams(R) /\ fp' = fp
           /\ \A r \in Rooms : r # R => fname'[r] = fname[r]
  <2>1. /\ streams' \in Seq(Streams) /\ Len(streams') = Len(streams)
        /\ \A i \in 1 .. Len(streams) :
              /\ streams'[i].name = streams[i].name
              /\ streams'[i].room = streams[i].room
              /\ streams'[i].open => streams[i].open
    BY <1>0, <1>2, StreamClosed
  <2>2. \A i \in 1 .. Len(streams) : i # fp[R] => streams'[i] = streams[i]
    <3>1. fp[R] \in 1 .. Len(streams)
      BY <1>0, <1>2 DEF NULL
    <3> QED
      BY <1>0, <1>2, <3>1 DEF ClosedStreams
  <2>3. fp'[R] = fp[R]
    BY <1>2
  <2>4. ~\E i \in 1 .. Len(streams') : i > Len(streams)
    BY <1>0, <2>1
  <2>5. fp' \in [Rooms -> 0 .. Len(streams')]
    BY <1>0, <1>2, <2>1
  <2> QED
    BY <1>0, <1>2, <2>1, <2>2, <2>3, <2>4, <2>5
<1>3. CASE /\ \E n \in Names : OpenStream(R, n)
           /\ \A r \in Rooms : r # R => fname'[r] = fname[r]
  <2>1. PICK n \in Names : OpenStream(R, n)
    BY <1>3
  <2>2. /\ streams' \in Seq(Streams)
        /\ Len(streams') = Len(streams) + 1
        /\ \A i \in 1 .. Len(streams) : streams'[i] = streams[i]
        /\ streams'[Len(streams) + 1] = [name |-> n, room |-> R, open |-> TRUE]
        /\ fp' = [fp EXCEPT ![R] = Len(streams) + 1]
    BY <1>0, <2>1, StreamOpened, Zenon
  <2>3. \A i \in 1 .. Len(streams') :
          i > Len(streams) => streams'[i].room = R /\ fp'[R] = i
    BY <1>0, <2>2
  <2>4. fp' \in [Rooms -> 0 .. Len(streams')] /\ fp'[R] = Len(streams')
        /\ \A r \in Rooms : r # R => fp'[r] = fp[r]
    BY <1>0, <2>2
  <2> QED
    BY <1>0, <1>3, <2>2, <2>3, <2>4
<1>4. CASE OpenFails(R) /\ \A r \in Rooms : r # R => fname'[r] = fname[r]
  <2>1. streams' = streams /\ fp' = [fp EXCEPT ![R] = NULL]
    BY <1>4 DEF OpenFails
  <2>2. fp' \in [Rooms -> 0 .. Len(streams')] /\ fp'[R] = NULL
        /\ \A r \in Rooms : r # R => fp'[r] = fp[r]
    BY <1>0, <2>1 DEF NULL
  <2>3. Len(streams) <= Len(streams') /\ Len(streams') \in Nat
        /\ ~\E i \in 1 .. Len(streams') : i > Len(streams)
    BY <1>0, <2>1
  <2> QED
    BY <1>0, <1>4, <2>1, <2>2, <2>3
<1>5. CASE Enter(m) \/ HandlerRow(m) \/ HandlerLoad(m) \/ HandlerTransfer(m)
           \/ HandlerAbsent(m) \/ HandlerRefuseCreate(m)
  BY <1>1, <1>5 DEF Enter, HandlerRow, HandlerLoad, HandlerTransfer, Transfer,
       Undefined, HandlerAbsent, HandlerRefuseCreate
<1>6. CASE (\E c, n : HandlerRead(m, c, n)) \/ (\E t \in Texts : HandlerEdit(m, t))
  BY <1>1, <1>6 DEF HandlerRead, HandlerEdit
<1>7. CASE HandlerBuilds(m)
  BY <1>1, <1>7, BuildQuiet
<1>8. CASE HandlerFresh(m)
  <2>1. OwnName[RoomOf[m]] \in Names
    BY <1>0, RoomFileAssumption DEF RoomFileAssumption
  <2> QED
    BY <1>0, <1>3, <1>4, <1>8, <2>1 DEF HandlerFresh
<1>9. CASE HandlerOpen(m) \/ HandlerCreate(m)
  BY <1>1, <1>2, <1>9 DEF HandlerOpen, HandlerCreate, Close, Undefined, Usable
<1>10. CASE HandlerRefuseOpen(m)
  BY <1>0, <1>1, <1>10 DEF HandlerRefuseOpen
<1>11. CASE HandlerReopen(m)
  <2>1. arg[m] \in Names
    BY <1>11 DEF Named, HandlerReopen, HandlerAt
  <2> QED
    BY <1>0, <1>3, <1>4, <1>11, <2>1 DEF HandlerReopen
<1>12. CASE HandlerMake(m)
  <2>1. arg[m] \in Names
    BY <1>12 DEF Named, HandlerMake, HandlerAt
  <2> QED
    BY <1>0, <1>3, <1>4, <1>12, <2>1 DEF HandlerMake
<1>13. CASE HandlerInsert(m)
  BY <1>0, <1>1, <1>13 DEF HandlerInsert
<1>14. CASE HandlerCompile(m)
  BY <1>1, <1>2, <1>14 DEF HandlerCompile, Undefined, Usable
<1> QED
  BY <1>5, <1>6, <1>7, <1>8, <1>9, <1>10, <1>11, <1>12, <1>13, <1>14, ActsCases

-----------------------------------------------------------------------------
(* Type correctness.                                                       *)

\* What the types say of the file of a room.
LEMMA OpenFile ==
  ASSUME TypeOK, Named, NEW r \in Rooms, fp[r] # NULL
  PROVE  /\ fp[r] \in 1 .. Len(streams) /\ fp[r] \in DOMAIN streams
         /\ streams[fp[r]].name \in Names
         /\ streams[fp[r]].room = r
         /\ streams[fp[r]].open \in BOOLEAN
         /\ Content(r) \in Seq(Chars)
<1>1. /\ streams \in Seq(Streams) /\ fp[r] \in 0 .. Len(streams)
      /\ streams[fp[r]].room = r /\ Len(streams) \in Nat
      /\ DOMAIN streams = 1 .. Len(streams)
  BY LenProperties DEF TypeOK, FilesOK, Streams
<1>2. fp[r] \in 1 .. Len(streams)
  BY <1>1 DEF NULL
<1>3. streams[fp[r]] \in Streams
  BY <1>1, <1>2, ElementOfSeq
<1> QED
  BY <1>1, <1>2, <1>3 DEF Streams, Named, Content

LEMMA NamedStep ==
  ASSUME TypeOK, Named, NEW m \in Members, Acts(m)
  PROVE  /\ disk' \in [Names -> Files] /\ backup' \in [Names -> Files]
         /\ fname' \in [Rooms -> Names \cup {None}]
         /\ arg' \in [Members -> Names \cup {None}]
         /\ Named'
<1> DEFINE Held == {"open", "access", "create", "exists", "make", "insert"}
           R == RoomOf[m]
<1> USE DEF diskVars, roomVars, buildVars, boundVars
<1>0. /\ disk \in [Names -> Files] /\ backup \in [Names -> Files]
      /\ fname \in [Rooms -> Names \cup {None}]
      /\ arg \in [Members -> Names \cup {None}]
      /\ streams \in Seq(Streams) /\ Len(streams) \in Nat
      /\ DOMAIN streams = 1 .. Len(streams)
      /\ R \in Rooms /\ OwnName \in [Rooms -> Names]
      /\ Texts \subseteq Seq(Chars) /\ DOMAIN hpc = Members
  BY RoomFileAssumption, LenProperties
     DEF RoomFileAssumption, TypeOK, FilesOK, ThreadsOK, Streams, Files
<1>1. /\ streams' \in Seq(Streams) /\ Len(streams') \in Nat
      /\ DOMAIN streams' = 1 .. Len(streams')
      /\ \A i \in 1 .. Len(streams) : streams'[i].name = streams[i].name
      /\ \A i \in 1 .. Len(streams') : streams'[i].name \in Names
  <2>1. /\ streams' \in Seq(Streams) /\ Len(streams') \in Nat
        /\ \A i \in 1 .. Len(streams) : streams'[i].name = streams[i].name
    BY OwnRoom
  <2>2. \A i \in 1 .. Len(streams') : streams'[i] \in Streams
    BY <2>1, ElementOfSeq
  <2> QED
    BY <2>1, <2>2, LenProperties DEF Streams
<1>2. ASSUME fp[R] # NULL
      PROVE  Content(R) \in Seq(Chars) /\ streams[fp[R]].name \in Names
  BY <1>0, <1>2, OpenFile
<1>3. ASSUME Len(streams') = Len(streams), disk' = disk
      PROVE  \A i \in DOMAIN streams' : disk'[streams'[i].name] \in Seq(Chars)
  BY <1>0, <1>1, <1>3 DEF Named
<1>4. ASSUME NEW n \in Names, OpenStream(R, n),
             \/ disk' = [disk EXCEPT ![n] = <<>>]
             \/ disk' = disk /\ disk[n] \in Seq(Chars)
      PROVE  \A i \in DOMAIN streams' : disk'[streams'[i].name] \in Seq(Chars)
  <2>1. /\ Len(streams') = Len(streams) + 1
        /\ streams'[Len(streams) + 1].name = n
    <3>1. /\ Len(streams') = Len(streams) + 1
          /\ streams'[Len(streams) + 1] = [name |-> n, room |-> R, open |-> TRUE]
      BY <1>0, <1>4, StreamOpened, Zenon
    <3> QED
      BY <3>1
  <2>2. <<>> \in Seq(Chars)
    OBVIOUS
  <2>3. \A k \in Names : disk[k] \in Seq(Chars) => disk'[k] \in Seq(Chars)
    BY <1>0, <1>4, <2>2
  <2>4. disk'[n] \in Seq(Chars)
    BY <1>0, <1>4, <2>2
  <2>5. ASSUME NEW i \in 1 .. Len(streams')
        PROVE  disk'[streams'[i].name] \in Seq(Chars)
    <3>1. CASE i = Len(streams) + 1
      BY <2>1, <2>4, <3>1
    <3>2. CASE i \in 1 .. Len(streams)
      BY <1>0, <1>1, <2>3, <3>2 DEF Named
    <3> QED
      BY <1>0, <2>1, <3>1, <3>2
  <2> QED
    BY <1>1, <2>5
<1>5. ASSUME \A i \in DOMAIN streams' : disk'[streams'[i].name] \in Seq(Chars),
             \A k \in Members : k # m => hpc'[k] = hpc[k] /\ arg'[k] = arg[k],
             hpc'[m] \in Held => arg'[m] \in Names
      PROVE  Named'
  BY <1>5 DEF Named
<1>6. \A k \in Members : k # m => hpc'[k] = hpc[k] /\ arg'[k] = arg[k]
  BY OwnThread
<1>7. hpc[m] \in Held => arg[m] \in Names
  BY DEF Named
<1> HIDE DEF Files, Streams
<1>8. ASSUME disk' = disk, backup' = backup, fname' = fname, streams' = streams,
             arg' \in [Members -> Names \cup {None}],
             hpc'[m] \in Held => (hpc'[m] = hpc[m] /\ arg' = arg)
      PROVE  /\ disk' \in [Names -> Files] /\ backup' \in [Names -> Files]
             /\ fname' \in [Rooms -> Names \cup {None}]
             /\ Named'
  BY <1>0, <1>3, <1>5, <1>6, <1>7, <1>8
<1>9. [arg EXCEPT ![m] = None] \in [Members -> Names \cup {None}]
  BY <1>0
<1>10. CASE Enter(m) \/ HandlerRow(m)
  BY <1>0, <1>8, <1>10 DEF Enter, HandlerRow, Go
<1>11. CASE HandlerBuilds(m)
  BY <1>0, <1>8, <1>11, BuildQuiet
<1>12. CASE HandlerLoad(m) \/ HandlerTransfer(m)
  BY <1>0, <1>8, <1>9, <1>12 DEF HandlerLoad, HandlerTransfer, Transfer, Undefined,
       Go, Done
<1>13. CASE HandlerRefuseCreate(m)
  BY <1>0, <1>8, <1>9, <1>13 DEF HandlerRefuseCreate, Go, Done
<1>14. CASE \E n \in Names : HandlerRead(m, "open", n) \/ HandlerRead(m, "create", n)
  <2>1. PICK n \in Names : HandlerRead(m, "open", n) \/ HandlerRead(m, "create", n)
    BY <1>14
  <2>2. arg' \in [Members -> Names \cup {None}] /\ arg'[m] \in Names
    BY <1>0, <2>1 DEF HandlerRead
  <2>3. disk' = disk /\ backup' = backup /\ fname' = fname /\ streams' = streams
    BY <2>1 DEF HandlerRead
  <2> QED
    BY <1>0, <1>3, <1>5, <1>6, <2>2, <2>3
<1>15. CASE HandlerRead(m, "compile", None)
  BY <1>0, <1>8, <1>9, <1>15 DEF HandlerRead, Go
<1>16. CASE \E t \in Texts : HandlerEdit(m, t)
  <2>1. PICK t \in Texts : HandlerEdit(m, t)
    BY <1>16
  <2>2. /\ backup' = backup /\ fname' = fname /\ streams' = streams
        /\ arg' = arg /\ hpc' = hpc
    BY <2>1 DEF HandlerEdit
  <2>3. CASE disk' = disk
    BY <1>0, <1>8, <2>2, <2>3
  <2>4. CASE /\ fp[R] # NULL
             /\ disk' = [disk EXCEPT ![streams[fp[R]].name] =
                           Overwrite(t, disk[streams[fp[R]].name])]
    <3>1. /\ Overwrite(t, disk[streams[fp[R]].name]) \in Seq(Chars)
          /\ streams[fp[R]].name \in Names
      BY <1>0, <1>2, <2>4, OverwriteTyped DEF Content
    <3> DEFINE v == Overwrite(t, disk[streams[fp[R]].name])
               f == streams[fp[R]].name
    <3> HIDE DEF v, f
    <3>2. v \in Seq(Chars) /\ f \in Names /\ disk' = [disk EXCEPT ![f] = v]
      BY <2>4, <3>1 DEF v, f
    <3>3. disk' \in [Names -> Files]
      BY <1>0, <3>2 DEF Files
    <3>4. \A k \in Names : disk[k] \in Seq(Chars) => disk'[k] \in Seq(Chars)
      BY <1>0, <3>2
    <3>5. \A i \in DOMAIN streams' : disk'[streams'[i].name] \in Seq(Chars)
      BY <1>1, <2>2, <3>4 DEF Named
    <3> QED
      BY <1>0, <1>5, <1>6, <1>7, <2>2, <3>3, <3>5
  <2> QED
    BY <2>1, <2>3, <2>4 DEF HandlerEdit
<1>17. CASE HandlerRefuseOpen(m)
  <2>1. /\ disk' = disk /\ backup' = backup /\ streams' = streams
        /\ fname' \in [Rooms -> Names \cup {None}] /\ hpc'[m] = "read"
        /\ arg' = [arg EXCEPT ![m] = None]
    BY <1>0, <1>17 DEF HandlerRefuseOpen, Done, Go
  <2> QED
    BY <1>0, <1>3, <1>5, <1>6, <1>9, <2>1
<1>18. CASE HandlerAbsent(m)
  <2>1. /\ disk' = disk /\ backup' = backup /\ streams' = streams
        /\ fname' = fname /\ arg' = arg /\ hpc[m] = "exists"
    BY <1>18 DEF HandlerAbsent, HandlerAt
  <2> QED
    BY <1>0, <1>3, <1>5, <1>6, <1>7, <2>1
<1>19. CASE HandlerInsert(m)
  <2>1. /\ disk' = disk /\ backup' = backup /\ streams' = streams
        /\ hpc[m] = "insert" /\ hpc'[m] \in {"transfer", "read"}
        /\ arg' \in {arg, [arg EXCEPT ![m] = None]}
        /\ fname' \in {fname, [fname EXCEPT ![R] = arg[m]]}
    BY <1>0, <1>19 DEF HandlerInsert, HandlerAt, Done, Go
  <2>2. fname' \in [Rooms -> Names \cup {None}]
    BY <1>0, <1>7, <2>1
  <2> QED
    BY <1>0, <1>3, <1>5, <1>6, <1>9, <2>1, <2>2
<1>20. CASE HandlerOpen(m) \/ HandlerCreate(m)
  <2>1. PICK next \in {"access", "exists"} : Close(m, next) /\ hpc[m] \in Held
    BY <1>20 DEF HandlerOpen, HandlerCreate, HandlerAt
  <2>2. disk' = disk /\ fname' = fname /\ arg' = arg
    BY <2>1 DEF Close, Undefined
  <2>3. Len(streams') = Len(streams)
    <3>1. CASE fp[R] # NULL /\ streams' = ClosedStreams(R)
      BY <1>0, <3>1, StreamClosed
    <3> QED
      BY <2>1, <3>1 DEF Close, Undefined, Usable
  <2>4. backup' = backup \/ \E n \in Names : \E v \in Files :
                              backup' = [backup EXCEPT ![n] = v]
    <3>1. CASE /\ fp[R] # NULL /\ CanSave(R) /\ FileSave(R)
      <4>1. CASE Content(R) = <<>>
        BY <3>1, <4>1 DEF FileSave
      <4>2. CASE Content(R) # <<>>
        <5>1. backup' = [backup EXCEPT ![fname[R]] = Copy(Content(R))]
          BY <3>1, <4>2 DEF FileSave
        <5>2. Copy(Content(R)) \in Files
          BY <1>2, <3>1, <4>2, CopyTyped DEF Files
        <5>3. fname[R] \in Names
          BY <3>1, <4>2 DEF CanSave
        <5> QED
          BY <5>1, <5>2, <5>3
      <4> QED
        BY <4>1, <4>2
    <3> QED
      BY <2>1, <3>1 DEF Close, Undefined, Usable
  <2>5. backup' \in [Names -> Files]
    BY <1>0, <2>4
  <2> QED
    BY <1>0, <1>3, <1>5, <1>6, <1>7, <2>1, <2>2, <2>3, <2>5
<1>21. CASE HandlerCompile(m)
  <2>1. disk' = disk /\ backup' = backup /\ fname' = fname /\ arg' = arg
        /\ hpc'[m] \notin Held
    BY <1>0, <1>21 DEF HandlerCompile, Undefined, Go, HandlerAt
  <2>2. Len(streams') = Len(streams)
    BY <1>0, <1>21, StreamClosed DEF HandlerCompile, Undefined
  <2> QED
    BY <1>0, <1>3, <1>5, <1>6, <2>1, <2>2
<1>22. CASE HandlerFresh(m)
  <2>1. OwnName[R] \in Names
    BY <1>0
  <2>2. /\ backup' = backup /\ fname' = [fname EXCEPT ![R] = OwnName[R]]
        /\ arg' = arg /\ hpc'[m] \notin Held
        /\ \/ /\ OpenStream(R, OwnName[R])
              /\ disk' = [disk EXCEPT ![OwnName[R]] = <<>>]
           \/ OpenFails(R) /\ disk' = disk
    BY <1>0, <1>22 DEF HandlerFresh, Go
  <2>3. /\ disk' \in [Names -> Files]
        /\ fname' \in [Rooms -> Names \cup {None}]
    <3>1. <<>> \in Files
      BY DEF Files
    <3> QED
      BY <1>0, <2>1, <2>2, <3>1
  <2>4. \A i \in DOMAIN streams' : disk'[streams'[i].name] \in Seq(Chars)
    BY <1>3, <1>4, <2>1, <2>2 DEF OpenFails
  <2> QED
    BY <1>0, <1>5, <1>6, <2>2, <2>3, <2>4
<1>23. CASE HandlerReopen(m)
  <2>1. arg[m] \in Names /\ disk[arg[m]] \in Seq(Chars)
    BY <1>0, <1>7, <1>23 DEF HandlerReopen, HandlerAt, OnDisk, Files
  <2>2. /\ disk' = disk /\ backup' = backup /\ fname' = [fname EXCEPT ![R] = arg[m]]
        /\ arg' = arg /\ hpc'[m] \notin Held
        /\ OpenStream(R, arg[m]) \/ OpenFails(R)
    BY <1>0, <1>23 DEF HandlerReopen, NameAfterOpen, Go
  <2>3. fname' \in [Rooms -> Names \cup {None}]
    BY <1>0, <2>1, <2>2
  <2>4. \A i \in DOMAIN streams' : disk'[streams'[i].name] \in Seq(Chars)
    BY <1>3, <1>4, <2>1, <2>2 DEF OpenFails
  <2> QED
    BY <1>0, <1>5, <1>6, <2>2, <2>3, <2>4
<1>24. CASE HandlerMake(m)
  <2>1. arg[m] \in Names
    BY <1>7, <1>24 DEF HandlerMake, HandlerAt
  <2>2. /\ backup' = backup /\ fname' = fname
        /\ \/ /\ OpenStream(R, arg[m]) /\ arg' = arg
              /\ disk' = [disk EXCEPT ![arg[m]] = <<>>]
           \/ /\ OpenFails(R) /\ disk' = disk
              /\ hpc'[m] \notin Held /\ arg' = [arg EXCEPT ![m] = None]
    BY <1>0, <1>24 DEF HandlerMake, Go, Done
  <2>3. disk' \in [Names -> Files]
    <3>1. <<>> \in Files
      BY DEF Files
    <3> QED
      BY <1>0, <2>1, <2>2, <3>1
  <2>4. \A i \in DOMAIN streams' : disk'[streams'[i].name] \in Seq(Chars)
    BY <1>3, <1>4, <2>1, <2>2 DEF OpenFails
  <2> QED
    BY <1>0, <1>5, <1>6, <1>9, <2>1, <2>2, <2>3, <2>4
<1> QED
  BY <1>8, <1>10, <1>11, <1>12, <1>13, <1>14, <1>15, <1>16, <1>17, <1>18, <1>19,
     <1>20, <1>21, <1>22, <1>23, <1>24, ActsCases

LEMMA FilesStep ==
  ASSUME TypeOK, Named, NEW m \in Members, Acts(m)
  PROVE  FilesOK'
<1> DEFINE R == RoomOf[m]
<1> USE DEF diskVars, roomVars, buildVars, boundVars
<1>1. /\ disk' \in [Names -> Seq(Chars) \cup {None}]
      /\ backup' \in [Names -> Seq(Chars) \cup {None}]
      /\ fname' \in [Rooms -> Names \cup {None}]
  BY NamedStep DEF Files
<1>2. /\ streams' \in Seq([name : Names, room : Rooms, open : BOOLEAN])
      /\ fp' \in [Rooms -> 0 .. Len(streams')]
  BY OwnRoom DEF Streams
<1>3. marks' \in [Rooms -> SUBSET Marks]
  BY MarksGrow
<1>4. ASSUME NEW r \in Rooms, fp'[r] # NULL
      PROVE  streams'[fp'[r]].room = r
  <2>1. fp \in [Rooms -> 0 .. Len(streams)] /\ (fp[r] # NULL => streams[fp[r]].room = r)
    BY DEF TypeOK, FilesOK
  <2>2. CASE fp'[r] = fp[r]
    <3>1. fp[r] \in 1 .. Len(streams)
      BY <1>4, <2>1, <2>2, OwnRoom DEF NULL
    <3>2. streams'[fp[r]].room = streams[fp[r]].room
      BY <3>1, OwnRoom
    <3> QED
      BY <1>4, <2>1, <2>2, <3>2
  <2>3. CASE r = R /\ fp'[R] = Len(streams') /\ Len(streams') = Len(streams) + 1
    <3>1. Len(streams') \in 1 .. Len(streams') /\ Len(streams') > Len(streams)
      BY <2>3, OwnRoom
    <3> QED
      BY <2>3, <3>1, OwnRoom
  <2>4. r # R => fp'[r] = fp[r]
    BY OwnRoom
  <2> QED
    BY <1>4, <2>2, <2>3, <2>4, OwnRoom
<1>5. rows' \subseteq Rooms \X Names
  <2>1. rows \subseteq Rooms \X Names /\ fname \in [Rooms -> Names \cup {None}] /\ R \in Rooms
    BY RoomFileAssumption DEF RoomFileAssumption, TypeOK, FilesOK
  <2>2. CASE rows' = rows
    BY <2>1, <2>2
  <2>3. CASE RealPathFound(R) /\ rows' = rows \cup {<<R, fname[R]>>}
    BY <2>1, <2>3 DEF RealPathFound, OnDisk
  <2>4. CASE HandlerRow(m) \/ HandlerInsert(m)
    BY <2>2, <2>3, <2>4 DEF HandlerRow, HandlerInsert
  <2>5. CASE HandlerEnters(m) /\ ~HandlerRow(m)
    BY <2>2, <2>5 DEF HandlerEnters, Enter, HandlerFresh, HandlerLoad, Transfer, Undefined
  <2>6. CASE HandlerCommanded(m)
    BY <2>2, <2>6 DEF HandlerCommanded, OpenWanted, CreateWanted, CompileWanted,
         HandlerRead, HandlerEdit
  <2>7. CASE HandlerOpens(m)
    BY <2>2, <2>7 DEF HandlerOpens, HandlerOpen, Close, Undefined, HandlerRefuseOpen,
         HandlerReopen, HandlerTransfer, Transfer
  <2>8. CASE HandlerCreates(m) /\ ~HandlerInsert(m)
    BY <2>2, <2>8 DEF HandlerCreates, HandlerCreate, Close, Undefined,
         HandlerRefuseCreate, HandlerAbsent, HandlerMake
  <2>9. CASE HandlerCompiles(m)
    BY <2>2, <2>9, BuildQuiet DEF HandlerCompiles, HandlerCompile, Undefined
  <2> QED
    BY <2>4, <2>5, <2>6, <2>7, <2>8, <2>9 DEF Acts
<1> QED
  BY <1>1, <1>2, <1>3, <1>4, <1>5 DEF FilesOK

\* The shell of a system() makes or empties the file for the messages.
LEMMA Redirection ==
  ASSUME TypeOK, NEW m \in Members, NEW file \in 0 .. Len(outputs), Redirected(m, file)
  PROVE  /\ outputs' \in Seq(0 .. Len(builds))
         /\ Len(outputs) \in Nat /\ Len(outputs') \in Nat /\ Len(outputs) <= Len(outputs')
         /\ redir' \in [Members -> 0 .. Len(outputs')]
         /\ redir'[m] \in 1 .. Len(outputs') /\ outputs'[redir'[m]] = Empty
<1>1. /\ outputs \in Seq(0 .. Len(builds)) /\ Len(outputs) \in Nat
      /\ redir \in [Members -> 0 .. Len(outputs)] /\ Empty \in 0 .. Len(builds)
  BY LenProperties DEF TypeOK, BuildsOK, Empty
<1>2. CASE file = NULL
  <2>1. outputs' = Append(outputs, Empty) /\ redir' = [redir EXCEPT ![m] = Len(outputs) + 1]
    BY <1>2 DEF Redirected
  <2> HIDE DEF Empty
  <2>2. outputs' \in Seq(0 .. Len(builds)) /\ Len(outputs') = Len(outputs) + 1
        /\ outputs'[Len(outputs) + 1] = Empty
    BY <1>1, <2>1, AppendProperties
  <2> QED
    BY <1>1, <2>1, <2>2
<1>3. CASE file # NULL
  <2>1. /\ outputs' = [outputs EXCEPT ![file] = Empty]
        /\ redir' = [redir EXCEPT ![m] = file] /\ file \in 1 .. Len(outputs)
    BY <1>1, <1>3 DEF Redirected, NULL
  <2> HIDE DEF Empty
  <2>2. outputs' \in Seq(0 .. Len(builds)) /\ Len(outputs') = Len(outputs)
        /\ outputs'[file] = Empty
    BY <1>1, <2>1, ExceptSeq
  <2> QED
    BY <1>1, <2>1, <2>2
<1> QED
  BY <1>2, <1>3

\* gcc's build is the newest one.  Either a.out is from it, or its messages are.
LEMMA NewBuild ==
  ASSUME TypeOK, BuildsUnderway, NEW m \in Members, HandlerGcc(m)
  PROVE  /\ builds' \in Seq(Seq(Chars) \cup {None})
         /\ Len(builds) \in Nat /\ Len(builds') = Len(builds) + 1
         /\ aout' \in 0 .. Len(builds')
         /\ outputs' \in Seq(0 .. Len(builds')) /\ Len(outputs') = Len(outputs)
         /\ mine' = [mine EXCEPT ![m] = Len(builds')]
         /\ redir[m] \in 1 .. Len(outputs)
         /\ IF Builds(Len(builds))'
            THEN aout' = Len(builds') /\ outputs' = outputs
            ELSE aout' = aout /\ outputs'[redir[m]] = Len(builds')
<1> DEFINE n == fname[RoomOf[m]]
           text == IF OnDisk(n) /\ n \notin NotC THEN disk[n] ELSE None
<1>1. /\ Len(builds) \in Nat /\ builds \in Seq(Seq(Chars) \cup {None})
      /\ disk \in [Names -> Seq(Chars) \cup {None}] /\ aout \in 0 .. Len(builds)
      /\ fname \in [Rooms -> Names \cup {None}] /\ RoomOf[m] \in Rooms
      /\ outputs \in Seq(0 .. Len(builds)) /\ redir[m] \in 0 .. Len(outputs)
      /\ Len(outputs) \in Nat
  BY RoomFileAssumption, LenProperties DEF RoomFileAssumption, TypeOK, BuildsOK, FilesOK
<1>2. text \in Seq(Chars) \cup {None}
  BY <1>1 DEF OnDisk
<1>3. redir[m] \in 1 .. Len(outputs)
  BY <1>1 DEF HandlerGcc, HandlerAt, BuildsUnderway, NULL
<1>4. /\ builds' = Append(builds, text) /\ mine' = [mine EXCEPT ![m] = Len(builds')]
      /\ IF text \in Compilable
         THEN aout' = Len(builds') /\ outputs' = outputs
         ELSE aout' = aout /\ outputs' = [outputs EXCEPT ![redir[m]] = Len(builds')]
  BY DEF HandlerGcc
<1> HIDE DEF text
<1>5. /\ builds' \in Seq(Seq(Chars) \cup {None})
      /\ Len(builds') = Len(builds) + 1 /\ builds'[Len(builds')] = text
  BY <1>1, <1>2, <1>4, AppendProperties
<1>6. Builds(Len(builds))' <=> text \in Compilable
  BY <1>5 DEF Builds
<1>7. outputs \in Seq(0 .. Len(builds'))
  BY <1>1, <1>5, SeqMonotonic
<1>8. text \notin Compilable =>
        /\ outputs' \in Seq(0 .. Len(builds')) /\ Len(outputs') = Len(outputs)
        /\ outputs'[redir[m]] = Len(builds')
  <2> DEFINE b == Len(builds')
  <2>1. b \in 0 .. b /\ outputs \in Seq(0 .. b)
    BY <1>1, <1>5, <1>7
  <2>2. text \notin Compilable => outputs' = [outputs EXCEPT ![redir[m]] = b]
    BY <1>4
  <2> HIDE DEF b
  <2>3. text \notin Compilable =>
          /\ outputs' \in Seq(0 .. b) /\ Len(outputs') = Len(outputs)
          /\ outputs'[redir[m]] = b
    BY <1>3, <2>1, <2>2, ExceptSeq
  <2> QED
    BY <2>3 DEF b
<1>9. /\ aout' \in 0 .. Len(builds')
      /\ outputs' \in Seq(0 .. Len(builds')) /\ Len(outputs') = Len(outputs)
  BY <1>1, <1>4, <1>5, <1>7, <1>8
<1>10. IF Builds(Len(builds))'
       THEN aout' = Len(builds') /\ outputs' = outputs
       ELSE aout' = aout /\ outputs'[redir[m]] = Len(builds')
  BY <1>4, <1>6, <1>8
<1> QED
  BY <1>1, <1>3, <1>4, <1>5, <1>9, <1>10

\* a.out writes to its file.
LEMMA NewResult ==
  ASSUME TypeOK, BuildsUnderway, NEW m \in Members, HandlerExec(m)
  PROVE  /\ outputs' \in Seq(0 .. Len(builds)) /\ Len(outputs') = Len(outputs)
         /\ redir[m] \in 1 .. Len(outputs) /\ outputs'[redir[m]] = aout
<1>1. /\ outputs \in Seq(0 .. Len(builds)) /\ redir[m] \in 0 .. Len(outputs)
      /\ Len(outputs) \in Nat /\ aout \in 0 .. Len(builds)
  BY LenProperties DEF TypeOK, BuildsOK
<1>2. redir[m] \in 1 .. Len(outputs)
  BY <1>1 DEF HandlerExec, HandlerAt, BuildsUnderway, NULL
<1>3. outputs' = [outputs EXCEPT ![redir[m]] = aout]
  BY DEF HandlerExec
<1> QED
  BY <1>1, <1>2, <1>3, ExceptSeq

LEMMA BuildsStep ==
  ASSUME TypeOK, BuildsUnderway, NEW m \in Members, Acts(m)
  PROVE  BuildsOK'
<1> USE DEF diskVars, roomVars, buildVars, fileVars, boundVars
<1>0. /\ BuildsOK /\ Len(builds) \in Nat /\ Len(outputs) \in Nat
      /\ NULL \in 0 .. Len(outputs)
  BY LenProperties DEF TypeOK, BuildsOK, NULL
<1>1. CASE UNCHANGED buildVars
  BY <1>0, <1>1 DEF BuildsOK
<1>2. CASE /\ UNCHANGED <<builds, aout, outputs, mine, mixed>>
           /\ errRedir' \in 0 .. Len(outputs) /\ resRedir' \in 0 .. Len(outputs)
           /\ \/ redir' = redir
              \/ \E i \in 0 .. Len(outputs) : redir' = [redir EXCEPT ![m] = i]
           /\ \/ answer' = answer
              \/ \E b \in -1 .. Len(builds) : answer' = [answer EXCEPT ![m] = b]
  BY <1>0, <1>2 DEF BuildsOK
<1>3. CASE HandlerEnters(m)
  BY <1>1, <1>3 DEF HandlerEnters, Enter, HandlerFresh, HandlerRow, HandlerLoad,
       Transfer, Undefined
<1>4. CASE HandlerCommanded(m)
  <2>1. CASE \E t \in Texts : HandlerEdit(m, t)
    BY <1>1, <2>1 DEF HandlerEdit
  <2>2. CASE \E c, n : HandlerRead(m, c, n)
    <3>1. /\ UNCHANGED <<builds, aout, fileVars, mine, mixed>>
          /\ answer' = [answer EXCEPT ![m] = -1]
      BY <2>2 DEF HandlerRead, Unanswered
    <3>2. -1 \in -1 .. Len(builds)
      BY <1>0
    <3> QED
      BY <1>0, <1>2, <3>1, <3>2 DEF BuildsOK
  <2> QED
    BY <1>4, <2>1, <2>2 DEF HandlerCommanded, OpenWanted, CreateWanted, CompileWanted
<1>5. CASE HandlerOpens(m)
  BY <1>1, <1>5 DEF HandlerOpens, HandlerOpen, Close, Undefined, HandlerRefuseOpen,
       HandlerReopen, HandlerTransfer, Transfer
<1>6. CASE HandlerCreates(m)
  BY <1>1, <1>6 DEF HandlerCreates, HandlerCreate, Close, Undefined,
       HandlerRefuseCreate, HandlerAbsent, HandlerMake, HandlerInsert
<1>7. CASE HandlerCompile(m)
  BY <1>1, <1>7 DEF HandlerCompile, Undefined
<1>8. CASE HandlerSystem(m)
  <2>1. /\ Redirected(m, errRedir) /\ errRedir' = redir'[m] /\ mixed' \subseteq Members
        /\ UNCHANGED <<builds, aout, resRedir, mine, answer>>
    BY <1>0, <1>8 DEF HandlerSystem, BuildsOK
  <2>2. errRedir \in 0 .. Len(outputs)
    BY <1>0 DEF BuildsOK
  <2> QED
    BY <1>0, <2>1, <2>2, Redirection DEF BuildsOK
<1>9. CASE HandlerGcc(m)
  <2>1. /\ redir' = [redir EXCEPT ![m] = NULL]
        /\ UNCHANGED <<errRedir, resRedir, answer, mixed>>
    BY <1>9 DEF HandlerGcc, Ended
  <2>2. /\ builds' \in Seq(Seq(Chars) \cup {None}) /\ Len(builds') = Len(builds) + 1
        /\ aout' \in 0 .. Len(builds')
        /\ outputs' \in Seq(0 .. Len(builds')) /\ Len(outputs') = Len(outputs)
        /\ mine' = [mine EXCEPT ![m] = Len(builds')]
    BY <1>9, NewBuild
  <2> QED
    BY <1>0, <2>1, <2>2 DEF BuildsOK
<1>10. CASE HandlerErrors(m)
  <2>1. errRedir \in 0 .. Len(outputs) /\ resRedir \in 0 .. Len(outputs)
    BY <1>0 DEF BuildsOK
  <2> QED
    BY <1>0, <1>1, <1>2, <1>10, <2>1 DEF HandlerErrors, Undefined, Ended
<1>11. CASE HandlerReport(m)
  <2>1. redir[m] \in 1 .. Len(outputs)
    BY <1>0, <1>11 DEF HandlerReport, HandlerAt, BuildsUnderway, BuildsOK, NULL
  <2>2. outputs[redir[m]] \in -1 .. Len(builds)
    BY <1>0, <2>1, ElementOfSeq DEF BuildsOK
  <2> QED
    BY <1>0, <1>2, <1>11, <2>2 DEF HandlerReport, Answered, Ended, BuildsOK
<1>12. CASE HandlerDiscard(m) \/ HandlerClean(m)
  BY <1>0, <1>2, <1>12 DEF HandlerDiscard, HandlerClean, BuildsOK
<1>13. CASE HandlerRun(m)
  <2>1. /\ Redirected(m, resRedir) /\ resRedir' = redir'[m]
        /\ UNCHANGED <<builds, aout, errRedir, mine, answer, mixed>>
    BY <1>13 DEF HandlerRun
  <2>2. resRedir \in 0 .. Len(outputs)
    BY <1>0 DEF BuildsOK
  <2> QED
    BY <1>0, <2>1, <2>2, Redirection DEF BuildsOK
<1>14. CASE HandlerExec(m)
  <2>1. /\ redir' = [redir EXCEPT ![m] = NULL]
        /\ UNCHANGED <<builds, aout, errRedir, resRedir, mine, answer, mixed>>
    BY <1>14 DEF HandlerExec, Ended
  <2> QED
    BY <1>0, <1>14, <2>1, NewResult DEF BuildsOK
<1>15. CASE HandlerResult(m)
  <2>1. resRedir # NULL => outputs[resRedir] \in -1 .. Len(builds)
    <3>1. resRedir # NULL => resRedir \in 1 .. Len(outputs)
      BY <1>0 DEF BuildsOK, NULL
    <3> QED
      BY <1>0, <3>1, ElementOfSeq DEF BuildsOK
  <2> QED
    BY <1>0, <1>1, <1>2, <1>15, <2>1 DEF HandlerResult, Undefined, Answered, BuildsOK
<1> QED
  BY <1>3, <1>4, <1>5, <1>6, <1>7, <1>8, <1>9, <1>10, <1>11, <1>12, <1>13, <1>14, <1>15
     DEF Acts, HandlerCompiles, HandlerBuilds

LEMMA ThreadsStep ==
  ASSUME TypeOK, Named, NEW m \in Members, Acts(m)
  PROVE  ThreadsOK'
<1> DEFINE Pcs == {"away", "fresh", "row", "load", "read", "returned",
                   "open", "access", "transfer", "create", "exists", "make", "insert",
                   "compile", "system", "gcc", "errors", "report", "discard", "run",
                   "exec", "result", "clean"}
           R == RoomOf[m]
<1> USE DEF diskVars, roomVars, buildVars, boundVars
<1>0. /\ ThreadsOK /\ R \in Rooms /\ Texts \subseteq Seq(Chars)
      /\ MaxFailures \in Nat
      /\ fp[R] # NULL => Content(R) \in Seq(Chars)
  BY RoomFileAssumption, OpenFile DEF RoomFileAssumption, TypeOK
<1>1. status' \in {"up", "undefined"}
  BY <1>0, ActsCases, BuildQuiet DEF ThreadsOK, Enter, HandlerFresh, HandlerRow,
       HandlerLoad, Transfer, Undefined, HandlerRead, HandlerEdit, HandlerOpen,
       HandlerCreate, Close, HandlerRefuseOpen, HandlerReopen, HandlerTransfer,
       HandlerRefuseCreate, HandlerAbsent, HandlerMake, HandlerInsert, HandlerCompile
<1>2. hpc' \in [Members -> Pcs]
  <2>1. hpc \in [Members -> Pcs]
    BY <1>0 DEF ThreadsOK
  <2>2. hpc' = hpc \/ \E pc \in Pcs : hpc' = [hpc EXCEPT ![m] = pc]
    <3>1. CASE HandlerEnters(m)
      BY <3>1 DEF HandlerEnters, Enter, HandlerFresh, HandlerRow, HandlerLoad,
           Transfer, Undefined, Go, Done
    <3>2. CASE HandlerCommanded(m)
      BY <3>2 DEF HandlerCommanded, OpenWanted, CreateWanted, CompileWanted,
           HandlerRead, HandlerEdit, Go
    <3>3. CASE HandlerOpens(m)
      BY <3>3 DEF HandlerOpens, HandlerOpen, Close, Undefined, HandlerRefuseOpen,
           HandlerReopen, HandlerTransfer, Transfer, Go, Done
    <3>4. CASE HandlerCreates(m)
      BY <3>4 DEF HandlerCreates, HandlerCreate, Close, Undefined,
           HandlerRefuseCreate, HandlerAbsent, HandlerMake, HandlerInsert, Go, Done
    <3>5. CASE HandlerCompiles(m)
      BY <3>5, BuildQuiet DEF HandlerCompiles, HandlerCompile, Undefined, Go
    <3> QED
      BY <3>1, <3>2, <3>3, <3>4, <3>5 DEF Acts
  <2> HIDE DEF Pcs
  <2> QED
    BY <2>1, <2>2
<1>3. arg' \in [Members -> Names \cup {None}]
  BY NamedStep
<1>4. shown' \in [Members -> Seq(Chars)]
  <2>1. shown \in [Members -> Seq(Chars)]
    BY <1>0 DEF ThreadsOK
  <2>2. shown' = shown \/ \E t \in Seq(Chars) : \E S \in SUBSET Members :
          shown' = [c \in Members |-> IF c \in S THEN t ELSE shown[c]]
    <3>1. ASSUME NEW S \in SUBSET Members, Transfer(m, S)
          PROVE  shown' = shown \/ \E t \in Seq(Chars) :
                   shown' = [c \in Members |-> IF c \in S THEN t ELSE shown[c]]
      BY <1>0, <3>1 DEF Transfer, Undefined, Usable
    <3>2. CASE HandlerLoad(m) \/ HandlerTransfer(m)
      <4>1. {m} \in SUBSET Members /\ Audience(m) \in SUBSET Members
        BY DEF Audience, Inside
      <4>2. Transfer(m, {m}) \/ Transfer(m, Audience(m))
        BY <3>2 DEF HandlerLoad, HandlerTransfer
      <4>3. PICK S \in SUBSET Members : Transfer(m, S)
        BY <4>1, <4>2, Zenon
      <4>4. \/ shown' = shown
            \/ \E t \in Seq(Chars) : shown' = [c \in Members |-> IF c \in S THEN t ELSE shown[c]]
        BY <3>1, <4>3, Zenon
      <4> QED
        BY <4>4, Zenon
    <3>3. CASE \E t \in Texts : HandlerEdit(m, t)
      <4>1. PICK t \in Texts : HandlerEdit(m, t)
        BY <3>3
      <4>2. CASE shown' = shown
        BY <4>2
      <4>3. CASE shown' = [c \in Members |->
                   IF c = m \/ (fp[R] # NULL /\ c \in Inside(R)) THEN t ELSE shown[c]]
        <5> DEFINE S == {m} \cup IF fp[R] # NULL THEN Inside(R) ELSE {}
        <5>1. \A c \in Members : c \in S <=> (c = m \/ (fp[R] # NULL /\ c \in Inside(R)))
          OBVIOUS
        <5>3. S \in SUBSET Members
          BY DEF Inside
        <5> HIDE DEF S
        <5>2. shown' = [c \in Members |-> IF c \in S THEN t ELSE shown[c]]
          BY <4>3, <5>1
        <5> QED
          BY <1>0, <5>2, <5>3
      <4> QED
        BY <4>1, <4>2, <4>3 DEF HandlerEdit
    <3>4. CASE HandlerEnters(m) /\ ~HandlerLoad(m)
      BY <3>4 DEF HandlerEnters, Enter, HandlerFresh, HandlerRow
    <3>5. CASE HandlerCommanded(m) /\ ~(\E t \in Texts : HandlerEdit(m, t))
      BY <3>5 DEF HandlerCommanded, OpenWanted, CreateWanted, CompileWanted, HandlerRead
    <3>6. CASE HandlerOpens(m) /\ ~HandlerTransfer(m)
      BY <3>6 DEF HandlerOpens, HandlerOpen, Close, Undefined, HandlerRefuseOpen,
           HandlerReopen
    <3>7. CASE HandlerCreates(m)
      BY <3>7 DEF HandlerCreates, HandlerCreate, Close, Undefined,
           HandlerRefuseCreate, HandlerAbsent, HandlerMake, HandlerInsert
    <3>8. CASE HandlerCompiles(m)
      BY <3>8, BuildQuiet DEF HandlerCompiles, HandlerCompile, Undefined
    <3> QED
      BY <3>2, <3>3, <3>4, <3>5, <3>6, <3>7, <3>8 DEF Acts
  <2> QED
    BY <2>1, <2>2
<1>5. budget' \in [Members -> Nat]
  <2>1. budget \in [Members -> Nat]
    BY <1>0 DEF ThreadsOK
  <2>2. CASE budget' = budget
    BY <2>1, <2>2
  <2>3. CASE budget[m] > 0 /\ budget' = [budget EXCEPT ![m] = @ - 1]
    BY <2>1, <2>3
  <2>4. budget' = budget \/ (budget[m] > 0 /\ budget' = [budget EXCEPT ![m] = @ - 1])
    <3>1. CASE HandlerCommanded(m)
      BY <3>1 DEF HandlerCommanded, OpenWanted, CreateWanted, CompileWanted,
           HandlerRead, HandlerEdit
    <3>2. CASE ~HandlerCommanded(m)
      BY <3>2, BuildQuiet DEF Acts, HandlerEnters, Enter, HandlerFresh, HandlerRow,
           HandlerLoad, Transfer, Undefined, HandlerOpens, HandlerOpen, Close,
           HandlerRefuseOpen, HandlerReopen, HandlerTransfer, HandlerCreates,
           HandlerCreate, HandlerRefuseCreate, HandlerAbsent, HandlerMake,
           HandlerInsert, HandlerCompiles, HandlerCompile
    <3> QED
      BY <3>1, <3>2
  <2> QED
    BY <2>2, <2>3, <2>4
<1>6. failures' \in 0 .. MaxFailures
  <2>1. failures' = failures \/ Fails
    <3>1. CASE HandlerEnters(m)
      BY <3>1 DEF HandlerEnters, Enter, HandlerFresh, HandlerRow, HandlerLoad,
           Transfer, Undefined, OpenFails
    <3>2. CASE HandlerCommanded(m)
      BY <3>2 DEF HandlerCommanded, OpenWanted, CreateWanted, CompileWanted,
           HandlerRead, HandlerEdit
    <3>3. CASE HandlerOpens(m)
      BY <3>3 DEF HandlerOpens, HandlerOpen, Close, Undefined, HandlerRefuseOpen,
           HandlerReopen, HandlerTransfer, Transfer, OpenFails
    <3>4. CASE HandlerCreates(m)
      BY <3>4 DEF HandlerCreates, HandlerCreate, Close, Undefined,
           HandlerRefuseCreate, HandlerAbsent, HandlerMake, HandlerInsert, OpenFails
    <3>5. CASE HandlerCompiles(m)
      BY <3>5, BuildQuiet DEF HandlerCompiles, HandlerCompile, Undefined
    <3> QED
      BY <3>1, <3>2, <3>3, <3>4, <3>5 DEF Acts
  <2> QED
    BY <1>0, <2>1 DEF Fails, ThreadsOK
<1> QED
  BY <1>1, <1>2, <1>3, <1>4, <1>5, <1>6 DEF ThreadsOK

LEMMA TypesStep ==
  ASSUME TypeOK, Named, BuildsUnderway, NEW m \in Members, Acts(m)
  PROVE  TypeOK'
BY FilesStep, BuildsStep, ThreadsStep DEF TypeOK

-----------------------------------------------------------------------------
(* What a step of m means for its own room, and for the others.            *)
LEMMA WithoutShrinks ==
  ASSUME TypeOK, Named, NEW m \in Members, Acts(m), NEW r \in Rooms, NEW causes,
         Without(r, causes)'
  PROVE  Without(r, causes)
BY MarksGrow DEF Without

LEMMA RoomOfMember ==
  ASSUME NEW m \in Members
  PROVE  RoomOf[m] \in Rooms
BY RoomFileAssumption DEF RoomFileAssumption

\* As long as no overlap is marked, m is alone at work in its room.
LEMMA Alone ==
  ASSUME TypeOK, Named, OneAtATime, NEW m \in Members, Acts(m),
         "overlap" \notin marks'[RoomOf[m]]
  PROVE  \A k \in Members :
           k # m /\ RoomOf[k] = RoomOf[m]
             => /\ hpc[k] \in {"away", "read", "returned"}
                /\ hpc'[k] = hpc[k] /\ arg'[k] = arg[k]
<1> DEFINE R == RoomOf[m]
<1>1. R \in Rooms /\ Without(R, {"overlap"})
  <2>1. R \in Rooms
    BY RoomOfMember
  <2> QED
    BY <2>1, MarksGrow DEF Without
<1>2. CASE Busy(m)
  <2>1. \A k \in Members : k # m /\ RoomOf[k] = R => ~Busy(k)
    BY <1>1, <1>2 DEF OneAtATime
  <2> QED
    BY <2>1, OwnThread DEF Busy
<1>3. CASE ~Busy(m)
  <2>1. Enter(m) \/ (\E c, n : HandlerRead(m, c, n)) \/ (\E t \in Texts : HandlerEdit(m, t))
    BY <1>3, ActsCases, BuildQuiet DEF Busy, HandlerAt, HandlerFresh, HandlerRow,
         HandlerLoad, HandlerOpen, HandlerRefuseOpen, HandlerReopen, HandlerTransfer,
         HandlerCreate, HandlerRefuseCreate, HandlerAbsent, HandlerMake, HandlerInsert,
         HandlerCompile
  <2>2. /\ MarkOverlap(m) \in [Rooms -> SUBSET Marks]
        /\ "overlap" \notin MarkOverlap(m)[R]
             => \A k \in Members : RoomOf[k] = R /\ Busy(k) => k = m
    BY Overlaps
  <2>3. ASSUME NEW rs, NEW mark \in Marks, marks' = Marked(MarkOverlap(m), rs, mark)
        PROVE  "overlap" \notin MarkOverlap(m)[R]
    <3>1. MarkOverlap(m)[R] \subseteq marks'[R]
      BY <1>1, <2>2, <2>3, MarkedAdds
    <3> QED
      BY <3>1
  <2>4. "four" \in Marks /\ "short" \in Marks
    BY DEF Marks
  <2>5. "overlap" \notin MarkOverlap(m)[R]
    <3>1. CASE Enter(m)
      BY <2>3, <2>4, <3>1 DEF Enter
    <3>2. CASE \E c, n : HandlerRead(m, c, n)
      BY <3>2 DEF HandlerRead
    <3>3. CASE \E t \in Texts : HandlerEdit(m, t)
      BY <2>3, <2>4, <3>3 DEF HandlerEdit
    <3> QED
      BY <2>1, <3>1, <3>2, <3>3
  <2> QED
    BY <2>2, <2>5, OwnThread DEF Busy
<1> QED
  BY <1>2, <1>3

\* The other rooms keep their file.
LEMMA OtherRooms ==
  ASSUME TypeOK, Named, NEW m \in Members, Acts(m), NEW r \in Rooms, r # RoomOf[m]
  PROVE  /\ fp'[r] = fp[r] /\ fname'[r] = fname[r]
         /\ fp[r] # NULL => streams'[fp[r]] = streams[fp[r]]
         /\ Usable(r)' <=> Usable(r)
         /\ \A k \in Members : RoomOf[k] = r => hpc'[k] = hpc[k] /\ arg'[k] = arg[k]
<1>1. RoomOf[m] \in Rooms
  BY RoomOfMember
<1>2. fp'[r] = fp[r] /\ fname'[r] = fname[r]
  BY OwnRoom
<1>3. ASSUME fp[r] # NULL
      PROVE  streams'[fp[r]] = streams[fp[r]]
  <2>1. fp[r] \in 1 .. Len(streams) /\ streams[fp[r]].room = r
    BY <1>3, OpenFile
  <2>2. fp[r] # fp[RoomOf[m]]
    BY <1>1, <1>3, <2>1 DEF TypeOK, FilesOK
  <2> QED
    BY <2>1, <2>2, OwnRoom
<1>4. \A k \in Members : RoomOf[k] = r => hpc'[k] = hpc[k] /\ arg'[k] = arg[k]
  BY OwnThread
<1> QED
  BY <1>2, <1>3, <1>4 DEF Usable

\* What a step may do to the file of its room.
LEMMA Moves ==
  ASSUME TypeOK, Named, NEW m \in Members, Acts(m)
  PROVE  \/ streams' = streams /\ fp' = fp
         \/ /\ hpc[m] \in {"open", "create", "compile"} /\ Usable(RoomOf[m])
            /\ streams' = ClosedStreams(RoomOf[m]) /\ fp' = fp
         \/ /\ hpc[m] \in {"fresh", "access", "make"}
            /\ \E n \in Names : OpenStream(RoomOf[m], n)
         \/ hpc[m] \in {"fresh", "access", "make"} /\ OpenFails(RoomOf[m])
<1> USE DEF diskVars, roomVars, buildVars, boundVars
<1>1. CASE Enter(m) \/ HandlerRow(m) \/ HandlerLoad(m) \/ HandlerTransfer(m)
           \/ HandlerAbsent(m) \/ HandlerRefuseCreate(m) \/ HandlerRefuseOpen(m)
           \/ HandlerInsert(m)
  BY <1>1 DEF Enter, HandlerRow, HandlerLoad, HandlerTransfer, Transfer,
       Undefined, HandlerAbsent, HandlerRefuseCreate, HandlerRefuseOpen, HandlerInsert
<1>2. CASE (\E c, n : HandlerRead(m, c, n)) \/ (\E t \in Texts : HandlerEdit(m, t))
  BY <1>2 DEF HandlerRead, HandlerEdit
<1>3. CASE HandlerBuilds(m)
  BY <1>3, BuildQuiet
<1>4. CASE HandlerFresh(m)
  <2>1. OwnName[RoomOf[m]] \in Names
    BY RoomFileAssumption DEF RoomFileAssumption
  <2> QED
    BY <1>4, <2>1 DEF HandlerFresh, HandlerAt
<1>5. CASE HandlerOpen(m) \/ HandlerCreate(m)
  BY <1>5 DEF HandlerOpen, HandlerCreate, Close, Undefined, HandlerAt
<1>6. CASE HandlerReopen(m)
  <2>1. arg[m] \in Names
    BY <1>6 DEF Named, HandlerReopen, HandlerAt
  <2> QED
    BY <1>6, <2>1 DEF HandlerReopen, HandlerAt
<1>7. CASE HandlerMake(m)
  <2>1. arg[m] \in Names
    BY <1>7 DEF Named, HandlerMake, HandlerAt
  <2> QED
    BY <1>7, <2>1 DEF HandlerMake, HandlerAt
<1>8. CASE HandlerCompile(m)
  BY <1>8 DEF HandlerCompile, Undefined, HandlerAt
<1> QED
  BY <1>1, <1>2, <1>3, <1>4, <1>5, <1>6, <1>7, <1>8, ActsCases

\* fclose() leaves nothing to use, fopen() a file to use; a failed one has its mark.
LEMMA Closed ==
  ASSUME TypeOK, NEW r \in Rooms, fp[r] # NULL,
         streams' = ClosedStreams(r), fp' = fp
  PROVE  ~Usable(r)'
<1>1. fp[r] \in 1 .. Len(streams)
  BY LenProperties DEF TypeOK, FilesOK, NULL
<1>2. streams'[fp[r]].open = (streams[fp[r]].open /\ fp[r] # fp[r])
  BY <1>1, StreamClosed, Zenon
<1> QED
  BY <1>2 DEF Usable

LEMMA Opened ==
  ASSUME TypeOK, NEW r \in Rooms, NEW n \in Names, OpenStream(r, n)
  PROVE  /\ Usable(r)' /\ streams'[fp'[r]].name = n
         /\ fp'[r] = Len(streams) + 1 /\ fp'[r] # NULL
         /\ \A q \in Rooms : q # r => fp'[q] = fp[q]
<1>1. /\ Len(streams) \in Nat /\ fp' = [fp EXCEPT ![r] = Len(streams) + 1]
      /\ streams'[Len(streams) + 1] = [name |-> n, room |-> r, open |-> TRUE]
  BY StreamOpened, Zenon
<1>2. fp \in [Rooms -> 0 .. Len(streams)]
  BY DEF TypeOK, FilesOK
<1>3. fp'[r] = Len(streams) + 1
  BY <1>1, <1>2
<1> QED
  BY <1>1, <1>2, <1>3 DEF Usable, NULL

LEMMA Failed ==
  ASSUME TypeOK, NEW r \in Rooms, OpenFails(r)
  PROVE  fp'[r] = NULL /\ ~Usable(r)' /\ streams' = streams /\ "failed" \in marks'[r]
<1>1. marks \in [Rooms -> SUBSET Marks] /\ fp \in [Rooms -> 0 .. Len(streams)]
      /\ "failed" \in Marks
  BY DEF TypeOK, FilesOK, Marks
<1>2. marks' = Marked(marks, {r}, "failed") /\ fp'[r] = NULL /\ streams' = streams
  BY <1>1 DEF OpenFails
<1>3. "failed" \in marks'[r]
  BY <1>1, <1>2, MarkedAdds
<1> QED
  BY <1>2, <1>3 DEF Usable

\* The mark that a step gives its room.
LEMMA Noted ==
  ASSUME TypeOK, NEW r \in Rooms, NEW mark \in Marks, marks' = Marked(marks, {r}, mark)
  PROVE  mark \in marks'[r]
<1>1. marks \in [Rooms -> SUBSET Marks]
  BY DEF TypeOK, FilesOK
<1> QED
  BY <1>1, MarkedAdds

-----------------------------------------------------------------------------
(* One lemma per part of the invariant.                                    *)
LEMMA OneAtATimeStep ==
  ASSUME TypeOK, Named, OneAtATime, NEW m \in Members, Acts(m)
  PROVE  OneAtATime'
<1> SUFFICES ASSUME NEW l \in Members, NEW k \in Members, RoomOf[l] = RoomOf[k],
                    Busy(l)', Busy(k)', Without(RoomOf[l], {"overlap"})'
             PROVE  l = k
  BY DEF OneAtATime, Without
<1>1. RoomOf[l] \in Rooms /\ RoomOf[m] \in Rooms
  BY RoomOfMember
<1>2. CASE RoomOf[l] = RoomOf[m]
  BY <1>2, Alone DEF Busy, Without
<1>3. CASE RoomOf[l] # RoomOf[m]
  <2>1. Busy(l) /\ Busy(k)
    BY <1>1, <1>3, OtherRooms DEF Busy
  <2>2. Without(RoomOf[l], {"overlap"})
    BY <1>1, WithoutShrinks
  <2> QED
    BY <2>1, <2>2 DEF OneAtATime
<1> QED
  BY <1>2, <1>3

LEMMA ClosedBetweenStep ==
  ASSUME TypeOK, Named, OneAtATime, ClosedBetween, NEW m \in Members, Acts(m)
  PROVE  ClosedBetween'
<1> DEFINE Closing == {"access", "exists", "make"}
<1> SUFFICES ASSUME NEW k \in Members, hpc'[k] \in Closing,
                    Without(RoomOf[k], {"overlap"})'
             PROVE  ~Usable(RoomOf[k])'
  BY DEF ClosedBetween, Usable, Without
<1> USE DEF diskVars, roomVars, buildVars, boundVars
<1>1. RoomOf[k] \in Rooms /\ RoomOf[m] \in Rooms /\ DOMAIN hpc = Members
  BY RoomOfMember DEF TypeOK, ThreadsOK
<1>2. Without(RoomOf[k], {"overlap"})
  BY <1>1, WithoutShrinks
<1>3. CASE RoomOf[k] # RoomOf[m]
  <2>1. hpc[k] \in Closing
    BY <1>1, <1>3, OtherRooms
  <2> QED
    BY <1>1, <1>2, <1>3, <2>1, OtherRooms DEF ClosedBetween
<1>4. CASE k = m
  <2>1. CASE HandlerOpen(m) \/ HandlerCreate(m)
    <3>1. CASE fp[RoomOf[m]] = NULL /\ fp' = fp
      BY <1>4, <3>1 DEF Usable
    <3>2. CASE fp[RoomOf[m]] # NULL /\ streams' = ClosedStreams(RoomOf[m]) /\ fp' = fp
      BY <1>1, <1>4, <3>2, Closed
    <3>3. CASE hpc' = hpc
      BY <1>4, <2>1, <3>3 DEF HandlerOpen, HandlerCreate, HandlerAt
    <3> QED
      BY <2>1, <3>1, <3>2, <3>3 DEF HandlerOpen, HandlerCreate, Close, Usable, Undefined
  <2>2. CASE HandlerAbsent(m)
    <3>1. ~Usable(RoomOf[m])
      BY <1>2, <1>4, <2>2 DEF HandlerAbsent, HandlerAt, ClosedBetween
    <3> QED
      BY <1>4, <2>2, <3>1 DEF HandlerAbsent, Usable
  <2>3. CASE HandlerEnters(m)
    BY <1>1, <1>4, <2>3 DEF HandlerEnters, Enter, HandlerFresh, HandlerRow, HandlerLoad,
         Transfer, Undefined, Go, Done, HandlerAt
  <2>4. CASE HandlerCommanded(m)
    BY <1>1, <1>4, <2>4 DEF HandlerCommanded, OpenWanted, CreateWanted, CompileWanted,
         HandlerRead, HandlerEdit, Go, HandlerAt
  <2>5. CASE HandlerRefuseOpen(m) \/ HandlerReopen(m) \/ HandlerTransfer(m)
    BY <1>1, <1>4, <2>5 DEF HandlerRefuseOpen, HandlerReopen, HandlerTransfer, Transfer,
         Undefined, Go, Done, HandlerAt
  <2>6. CASE HandlerRefuseCreate(m) \/ HandlerMake(m) \/ HandlerInsert(m)
    BY <1>1, <1>4, <2>6 DEF HandlerRefuseCreate, HandlerMake, HandlerInsert, Go, Done
  <2>7. CASE HandlerCompiles(m)
    BY <1>1, <1>4, <2>7, BuildQuiet DEF HandlerCompiles, HandlerCompile, Undefined, Go,
         HandlerAt
  <2> QED
    BY <2>1, <2>2, <2>3, <2>4, <2>5, <2>6, <2>7 DEF Acts, HandlerOpens, HandlerCreates
<1>5. CASE k # m /\ RoomOf[k] = RoomOf[m]
  <2>1. "overlap" \notin marks'[RoomOf[m]]
    BY <1>5 DEF Without
  <2>2. hpc'[k] \in {"away", "read", "returned"}
    BY <1>5, <2>1, Alone
  <2> QED
    BY <2>2
<1> QED
  BY <1>3, <1>4, <1>5

\* The steps that leave fp, its FILE and fname as they are, and the others.
LEMMA Still ==
  ASSUME NEW m \in Members, Acts(m)
  PROVE  \/ UNCHANGED <<streams, fp, fname>> /\ hpc[m] # "insert"
         \/ HandlerFresh(m) \/ HandlerReopen(m) \/ HandlerMake(m)
         \/ HandlerOpen(m) \/ HandlerCreate(m) \/ HandlerCompile(m)
         \/ HandlerRefuseOpen(m) \/ HandlerInsert(m)
<1> USE DEF diskVars, roomVars, buildVars, boundVars
<1>1. CASE Enter(m) \/ HandlerRow(m) \/ HandlerLoad(m) \/ HandlerTransfer(m)
           \/ HandlerAbsent(m) \/ HandlerRefuseCreate(m)
  BY <1>1 DEF Enter, HandlerRow, HandlerLoad, HandlerTransfer, Transfer,
       Undefined, HandlerAbsent, HandlerRefuseCreate, HandlerAt
<1>2. CASE (\E c, n : HandlerRead(m, c, n)) \/ (\E t \in Texts : HandlerEdit(m, t))
  BY <1>2 DEF HandlerRead, HandlerEdit, HandlerAt
<1>3. CASE HandlerBuilds(m)
  BY <1>3, BuildQuiet
<1> QED
  BY <1>1, <1>2, <1>3, ActsCases

LEMMA InsertStep ==
  ASSUME TypeOK, Named, OneAtATime, NameMatches, NEW m \in Members, Acts(m),
         NEW k \in Members, hpc'[k] = "insert", Without(RoomOf[k], {"overlap"})'
  PROVE  Usable(RoomOf[k])' /\ streams'[fp'[RoomOf[k]]].name = arg'[k]
<1> DEFINE q == RoomOf[k]
<1> USE DEF diskVars, roomVars, buildVars, boundVars
<1>1. q \in Rooms /\ RoomOf[m] \in Rooms /\ DOMAIN hpc = Members
  BY RoomOfMember DEF TypeOK, ThreadsOK
<1>2. Without(q, {"overlap"})
  BY <1>1, WithoutShrinks
<1>3. CASE q # RoomOf[m]
  <2>1. hpc[k] = "insert" /\ arg'[k] = arg[k]
    BY <1>1, <1>3, OtherRooms
  <2>2. Usable(q) /\ streams[fp[q]].name = arg[k]
    BY <1>2, <2>1 DEF NameMatches
  <2>3. fp[q] # NULL
    BY <2>2 DEF Usable
  <2> QED
    BY <1>1, <1>3, <2>1, <2>2, <2>3, OtherRooms
<1>4. CASE q = RoomOf[m]
  <2>1. k = m
    BY <1>4, Alone DEF Without
  <2>2. HandlerMake(m) \/ hpc'[m] # "insert"
    <3>1. CASE HandlerEnters(m)
      BY <1>1, <3>1 DEF HandlerEnters, Enter, HandlerFresh, HandlerRow, HandlerLoad,
           Transfer, Undefined, Go, Done, HandlerAt
    <3>2. CASE HandlerCommanded(m)
      BY <1>1, <3>2 DEF HandlerCommanded, OpenWanted, CreateWanted, CompileWanted,
           HandlerRead, HandlerEdit, Go, HandlerAt
    <3>3. CASE HandlerOpens(m)
      BY <1>1, <3>3 DEF HandlerOpens, HandlerOpen, Close, HandlerRefuseOpen, HandlerReopen,
           HandlerTransfer, Transfer, Undefined, Go, Done, HandlerAt
    <3>4. CASE HandlerCreates(m)
      BY <1>1, <3>4 DEF HandlerCreates, HandlerCreate, Close, Undefined,
           HandlerRefuseCreate, HandlerAbsent, HandlerInsert, Go, Done, HandlerAt
    <3>5. CASE HandlerCompiles(m)
      BY <1>1, <3>5, BuildQuiet DEF HandlerCompiles, HandlerCompile, Undefined, Go,
           HandlerAt
    <3> QED
      BY <3>1, <3>2, <3>3, <3>4, <3>5 DEF Acts
  <2>3. HandlerMake(m) /\ OpenStream(q, arg[m]) /\ arg' = arg
    BY <1>1, <1>4, <2>1, <2>2 DEF HandlerMake, Go, Done
  <2>4. arg[m] \in Names
    BY <2>3 DEF Named, HandlerMake, HandlerAt
  <2> QED
    BY <1>1, <2>1, <2>3, <2>4, Opened
<1> QED
  BY <1>3, <1>4

LEMMA NameStep ==
  ASSUME TypeOK, Named, OneAtATime, ClosedBetween, NameMatches,
         NEW m \in Members, Acts(m), NEW r \in Rooms,
         Usable(r)', ~Creating(r)', Without(r, {"overlap", "failed"})'
  PROVE  streams'[fp'[r]].name = fname'[r]
<1> DEFINE R == RoomOf[m]
<1> USE DEF diskVars, roomVars, buildVars, boundVars
<1>1. R \in Rooms /\ DOMAIN hpc = Members /\ DOMAIN fname = Rooms
  BY RoomOfMember DEF TypeOK, ThreadsOK, FilesOK
<1>2. Without(r, {"overlap", "failed"}) /\ Without(r, {"overlap"})
  BY WithoutShrinks DEF Without
<1>3. CASE r # R
  <2>1. Usable(r) /\ ~Creating(r) /\ fp[r] # NULL
    BY <1>3, OtherRooms DEF Creating, Usable
  <2>2. streams[fp[r]].name = fname[r]
    BY <1>2, <2>1 DEF NameMatches
  <2> QED
    BY <1>3, <2>1, <2>2, OtherRooms
<1>4. CASE r = R
  <2>1. \A k \in Members : k # m /\ RoomOf[k] = R => hpc[k] # "insert"
    BY <1>4, Alone DEF Without
  <2>2. CASE UNCHANGED <<streams, fp, fname>> /\ hpc[m] # "insert"
    <3>1. Usable(r) /\ ~Creating(r)
      BY <1>4, <2>1, <2>2 DEF Creating, Usable
    <3> QED
      BY <1>2, <2>2, <3>1 DEF NameMatches
  <2>3. CASE HandlerFresh(m)
    <3>1. OwnName[R] \in Names
      BY <1>1, RoomFileAssumption DEF RoomFileAssumption
    <3>2. fname'[R] = OwnName[R] /\ (OpenStream(R, OwnName[R]) \/ OpenFails(R))
      BY <1>1, <2>3 DEF HandlerFresh
    <3> QED
      BY <1>1, <1>4, <3>1, <3>2, Opened, Failed, ZenonT(30)
  <2>4. CASE HandlerReopen(m)
    <3>1. arg[m] \in Names
      BY <2>4 DEF Named, HandlerReopen, HandlerAt
    <3>2. fname'[R] = arg[m] /\ (OpenStream(R, arg[m]) \/ OpenFails(R))
      BY <1>1, <2>4 DEF HandlerReopen, NameAfterOpen
    <3> QED
      BY <1>1, <1>4, <3>1, <3>2, Opened, Failed, ZenonT(30)
  <2>5. CASE HandlerMake(m)
    <3>1. ~OpenFails(R)
      BY <1>1, <1>4, Failed
    <3>2. hpc'[m] = "insert"
      BY <1>1, <2>5, <3>1 DEF HandlerMake, Go
    <3> QED
      BY <1>4, <3>2 DEF Creating
  <2>6. CASE HandlerOpen(m) \/ HandlerCreate(m) \/ HandlerCompile(m)
    <3>1. CASE UNCHANGED <<streams, fp, fname>>
      BY <2>2, <2>6, <3>1 DEF HandlerOpen, HandlerCreate, HandlerCompile, HandlerAt
    <3>2. CASE fp[R] # NULL /\ streams' = ClosedStreams(R) /\ fp' = fp
      BY <1>1, <1>4, <3>2, Closed
    <3> QED
      BY <2>6, <3>1, <3>2 DEF HandlerOpen, HandlerCreate, Close, HandlerCompile, Usable,
           Undefined
  <2>7. CASE HandlerRefuseOpen(m)
    <3>1. ~Usable(R)
      BY <1>2, <1>4, <2>7 DEF HandlerRefuseOpen, HandlerAt, ClosedBetween
    <3> QED
      BY <1>4, <2>7, <3>1 DEF HandlerRefuseOpen, Usable
  <2>8. CASE HandlerInsert(m)
    <3>1. streams[fp[R]].name = arg[m]
      BY <1>2, <1>4, <2>8 DEF HandlerInsert, HandlerAt, NameMatches
    <3>2. CASE fname' = [fname EXCEPT ![R] = arg[m]]
      BY <1>1, <1>4, <2>8, <3>1, <3>2 DEF HandlerInsert
    <3>3. CASE marks' = Marked(marks, {R}, "failed")
      <4>1. "failed" \in marks'[R]
        BY <1>1, <3>3, Noted DEF Marks
      <4> QED
        BY <1>4, <4>1 DEF Without
    <3> QED
      BY <2>8, <3>2, <3>3 DEF HandlerInsert
  <2> QED
    BY <2>2, <2>3, <2>4, <2>5, <2>6, <2>7, <2>8, Still
<1> QED
  BY <1>3, <1>4

LEMMA NameMatchesStep ==
  ASSUME TypeOK, Named, OneAtATime, ClosedBetween, NameMatches,
         NEW m \in Members, Acts(m)
  PROVE  NameMatches'
<1>1. \A r \in Rooms :
        (Usable(r)' /\ ~Creating(r)' /\ Without(r, {"overlap", "failed"})')
          => streams'[fp'[r]].name = fname'[r]
  BY NameStep
<1>2. \A k \in Members :
        (hpc'[k] = "insert" /\ Without(RoomOf[k], {"overlap"})')
          => Usable(RoomOf[k])' /\ streams'[fp'[RoomOf[k]]].name = arg'[k]
  BY InsertStep
<1> QED
  BY <1>1, <1>2 DEF NameMatches, Usable, Creating, Without

LEMMA FileReadyStep ==
  ASSUME TypeOK, Named, OneAtATime, NameMatches, FileReady, NEW m \in Members, Acts(m)
  PROVE  FileReady'
<1> DEFINE R == RoomOf[m]
           causes == {"overlap", "compiled", "refused", "failed"}
<1> USE DEF diskVars, roomVars, buildVars, boundVars
<1> SUFFICES ASSUME NEW r \in Rooms, Without(r, causes)'
             PROVE  IF fp'[r] = NULL
                    THEN /\ fname'[r] = None
                         /\ \A k \in Members : RoomOf[k] = r => hpc'[k] \in {"away", "fresh"}
                    ELSE ~Between(r)' => Usable(r)'
  BY DEF FileReady, Without, Between, Usable
<1>1. R \in Rooms /\ DOMAIN hpc = Members /\ DOMAIN fname = Rooms
  BY RoomOfMember DEF TypeOK, ThreadsOK, FilesOK
<1>2. Without(r, causes) /\ Without(r, {"overlap"})
  BY WithoutShrinks DEF Without
<1>3. IF fp[r] = NULL
      THEN /\ fname[r] = None
           /\ \A k \in Members : RoomOf[k] = r => hpc[k] \in {"away", "fresh"}
      ELSE ~Between(r) => Usable(r)
  BY <1>2 DEF FileReady
<1>4. CASE r # R
  BY <1>3, <1>4, OtherRooms DEF Between
<1>5. CASE r = R
  <2>1. \A k \in Members : k # m /\ RoomOf[k] = R
          => /\ hpc[k] \in {"away", "read", "returned"} /\ hpc'[k] = hpc[k]
    BY <1>5, Alone DEF Without
  <2>2. /\ \A mark \in Marks : marks' = Marked(marks, {R}, mark) => mark \notin causes
        /\ ~OpenFails(R)
    <3>1. \A mark \in Marks : marks' = Marked(marks, {R}, mark) => mark \in marks'[R]
      BY <1>1, Noted
    <3>2. OpenFails(R) => "failed" \in marks'[R]
      BY <1>1, Failed
    <3> QED
      BY <1>5, <3>1, <3>2 DEF Without
  <2>3. {"refused", "compiled", "failed"} \subseteq Marks
    BY DEF Marks
  <2> HIDE DEF Marks
  <2>4. CASE HandlerFresh(m) \/ HandlerReopen(m) \/ HandlerMake(m)
    <3>1. PICK n \in Names : OpenStream(R, n)
      <4>1. hpc[m] \in {"fresh", "access", "make"}
        BY <2>4 DEF HandlerFresh, HandlerReopen, HandlerMake, HandlerAt
      <4>2. OwnName[R] \in Names /\ (hpc[m] # "fresh" => arg[m] \in Names)
        BY <1>1, <4>1, RoomFileAssumption DEF RoomFileAssumption, Named
      <4> QED
        BY <2>2, <2>4, <4>2 DEF HandlerFresh, HandlerReopen, HandlerMake, HandlerAt
    <3> QED
      BY <1>1, <1>5, <3>1, Opened
  <2>5. CASE HandlerRefuseOpen(m) \/ HandlerRefuseCreate(m)
    BY <2>2, <2>3, <2>5 DEF HandlerRefuseOpen, HandlerRefuseCreate
  <2>6. CASE HandlerCompile(m)
    <3>1. UNCHANGED <<streams, fp, fname, hpc>>
      BY <2>2, <2>3, <2>6 DEF HandlerCompile, Undefined
    <3> QED
      BY <1>3, <3>1 DEF Between, Usable
  <2>7. CASE HandlerInsert(m)
    <3>1. fp' = fp /\ streams' = streams /\ hpc[m] = "insert"
      BY <2>7 DEF HandlerInsert, HandlerAt
    <3>2. Usable(R)
      BY <1>2, <1>5, <3>1 DEF NameMatches
    <3> QED
      BY <1>5, <3>1, <3>2 DEF Usable
  <2>8. CASE HandlerOpen(m) \/ HandlerCreate(m)
    <3>1. fp' = fp /\ fname' = fname /\ hpc[m] \in {"open", "create"}
      BY <2>8 DEF HandlerOpen, HandlerCreate, Close, Undefined, HandlerAt
    <3>2. fp[R] # NULL
      BY <1>3, <1>5, <3>1
    <3>3. CASE hpc'[m] \in {"access", "exists"}
      BY <1>5, <3>1, <3>2, <3>3 DEF Between
    <3>4. CASE UNCHANGED <<hpc, streams>>
      BY <1>3, <3>1, <3>2, <3>4 DEF Between, Usable
    <3> QED
      BY <1>1, <2>8, <3>3, <3>4 DEF HandlerOpen, HandlerCreate, Close, Undefined, Go
  <2>9. CASE HandlerAbsent(m)
    <3>1. fp' = fp /\ hpc'[m] = "make" /\ hpc[m] = "exists"
      BY <1>1, <2>9 DEF HandlerAbsent, HandlerAt, Go
    <3>2. fp[R] # NULL
      BY <1>3, <1>5, <3>1
    <3> QED
      BY <1>5, <3>1, <3>2 DEF Between
  <2>10. CASE /\ UNCHANGED <<streams, fp, fname>>
              /\ hpc[m] \notin {"access", "exists", "make", "insert"}
              /\ fp[R] = NULL => hpc'[m] \in {"away", "fresh"}
    <3>1. Between(R) => Between(R)'
      BY <2>1, <2>10 DEF Between
    <3> QED
      BY <1>3, <1>5, <2>1, <2>10, <3>1 DEF Usable
  <2>11. fp[R] = NULL => hpc[m] \in {"away", "fresh"}
    BY <1>3, <1>5
  <2>12. CASE Enter(m)
    BY <1>1, <2>10, <2>12 DEF Enter, HandlerAt, OpensOwnFile, Go
  <2>13. CASE HandlerRow(m) \/ HandlerLoad(m) \/ HandlerTransfer(m)
              \/ (\E c, n : HandlerRead(m, c, n)) \/ (\E t \in Texts : HandlerEdit(m, t))
    BY <2>10, <2>11, <2>13 DEF HandlerRow, HandlerLoad, HandlerTransfer, Transfer,
         Undefined, HandlerRead, HandlerEdit, HandlerAt
  <2>14. CASE HandlerBuilds(m)
    BY <2>10, <2>11, <2>14, BuildQuiet
  <2> QED
    BY <2>4, <2>5, <2>6, <2>7, <2>8, <2>9, <2>12, <2>13, <2>14, ActsCases
<1> QED
  BY <1>4, <1>5

LEMMA OneStreamStep ==
  ASSUME TypeOK, Named, OneAtATime, ClosedBetween, OneStream, NEW m \in Members, Acts(m)
  PROVE  OneStream'
<1> DEFINE R == RoomOf[m]
<1> USE DEF diskVars, roomVars, buildVars, boundVars
<1> SUFFICES ASSUME NEW r \in Rooms, Without(r, {"overlap", "four"})'
             PROVE  /\ \A i \in DOMAIN streams' :
                         streams'[i].room = r /\ streams'[i].open => fp'[r] = i
                    /\ \A k \in Members : RoomOf[k] = r /\ hpc'[k] = "fresh" => fp'[r] = NULL
  BY DEF OneStream, Without
<1>1. R \in Rooms /\ DOMAIN hpc = Members
  BY RoomOfMember DEF TypeOK, ThreadsOK
<1>2. Without(r, {"overlap", "four"}) /\ Without(r, {"overlap"})
  BY WithoutShrinks DEF Without
<1>3. /\ \A i \in DOMAIN streams : streams[i].room = r /\ streams[i].open => fp[r] = i
      /\ \A k \in Members : RoomOf[k] = r /\ hpc[k] = "fresh" => fp[r] = NULL
  BY <1>2 DEF OneStream
<1>4. DOMAIN streams = 1 .. Len(streams) /\ DOMAIN streams' = 1 .. Len(streams')
      /\ Len(streams) \in Nat /\ Len(streams') \in Nat
  BY OwnRoom, LenProperties DEF TypeOK, FilesOK
<1>5. ASSUME NEW i \in 1 .. Len(streams), streams'[i].room = r, streams'[i].open
      PROVE  streams[i].room = r /\ streams[i].open /\ fp[r] = i
  BY <1>3, <1>4, <1>5, OwnRoom
<1>6. CASE r # R
  <2>1. \A i \in 1 .. Len(streams') :
          streams'[i].room = r /\ streams'[i].open => i \in 1 .. Len(streams)
    <3>1. \A i \in 1 .. Len(streams') : i > Len(streams) => streams'[i].room = R
      BY OwnRoom
    <3>2. \A i \in 1 .. Len(streams') : i > Len(streams) \/ i \in 1 .. Len(streams)
      BY <1>4
    <3> QED
      BY <1>6, <3>1, <3>2
  <2>2. fp'[r] = fp[r] /\ \A k \in Members : RoomOf[k] = r => hpc'[k] = hpc[k]
    BY <1>6, OtherRooms
  <2> QED
    BY <1>3, <1>4, <1>5, <2>1, <2>2
<1>7. CASE r = R
  <2>1. \A k \in Members : k # m /\ RoomOf[k] = R => hpc'[k] \in {"away", "read", "returned"}
    BY <1>7, Alone DEF Without
  <2>2. fp'[R] = fp[R] \/ ~Usable(R)
    <3>1. hpc[m] = "fresh" => fp[R] = NULL
      BY <1>3, <1>7
    <3>2. hpc[m] \in {"access", "make"} => ~Usable(R)
      BY <1>2, <1>7 DEF ClosedBetween
    <3> QED
      BY <3>1, <3>2, Moves DEF Usable
  <2>3. ASSUME NEW i \in 1 .. Len(streams'), streams'[i].room = r, streams'[i].open
        PROVE  fp'[r] = i
    <3>1. CASE i > Len(streams)
      BY <1>7, <3>1, OwnRoom
    <3>2. CASE i \in 1 .. Len(streams)
      <4>1. fp[R] = i /\ streams[i].open
        BY <1>5, <1>7, <2>3, <3>2
      <4>2. Usable(R)
        BY <1>4, <3>2, <4>1 DEF Usable, NULL
      <4> QED
        BY <1>7, <2>2, <4>1, <4>2
    <3> QED
      BY <1>4, <3>1, <3>2
  <2>4. ASSUME hpc'[m] = "fresh"
        PROVE  fp'[R] = NULL
    <3>1. Enter(m)
      <4>1. CASE HandlerEnters(m)
        BY <1>1, <2>4, <4>1 DEF HandlerEnters, HandlerFresh, HandlerRow, HandlerLoad,
             Transfer, Undefined, Go, Done, HandlerAt
      <4>2. CASE HandlerCommanded(m)
        BY <1>1, <2>4, <4>2 DEF HandlerCommanded, OpenWanted, CreateWanted, CompileWanted,
             HandlerRead, HandlerEdit, Go, HandlerAt
      <4>3. CASE HandlerOpens(m)
        BY <1>1, <2>4, <4>3 DEF HandlerOpens, HandlerOpen, Close, HandlerRefuseOpen,
             HandlerReopen, HandlerTransfer, Transfer, Undefined, Go, Done, HandlerAt
      <4>4. CASE HandlerCreates(m)
        BY <1>1, <2>4, <4>4 DEF HandlerCreates, HandlerCreate, Close, Undefined,
             HandlerRefuseCreate, HandlerAbsent, HandlerMake, HandlerInsert, Go, Done,
             HandlerAt
      <4>5. CASE HandlerCompiles(m)
        BY <1>1, <2>4, <4>5, BuildQuiet DEF HandlerCompiles, HandlerCompile, Undefined,
             Go, HandlerAt
      <4> QED
        BY <4>1, <4>2, <4>3, <4>4, <4>5 DEF Acts
    <3>2. fp' = fp /\ (m = Four \/ fp[R] = NULL)
      BY <1>1, <2>4, <3>1 DEF Enter, OpensOwnFile, Go
    <3>3. ~(m = Four /\ fp[R] # NULL)
      <4>1. ASSUME m = Four, fp[R] # NULL
            PROVE  "four" \in marks'[R]
        <5>1. marks' = Marked(MarkOverlap(m), {R}, "four")
          BY <3>1, <4>1 DEF Enter
        <5>2. MarkOverlap(m) \in [Rooms -> SUBSET Marks] /\ "four" \in Marks
          BY Overlaps DEF Marks
        <5> QED
          BY <1>1, <5>1, <5>2, MarkedAdds
      <4> QED
        BY <1>7, <4>1 DEF Without
    <3> QED
      BY <3>2, <3>3
  <2> QED
    BY <1>4, <1>7, <2>1, <2>3, <2>4
<1> QED
  BY <1>6, <1>7

LEMMA SharedIsMarkedStep ==
  ASSUME TypeOK, Named, SharedIsMarked, NEW m \in Members, Acts(m)
  PROVE  SharedIsMarked'
<1> DEFINE R == RoomOf[m]
<1> SUFFICES ASSUME NEW r \in Rooms, NEW q \in Rooms, r # q, Usable(r)', Usable(q)',
                    streams'[fp'[r]].name = streams'[fp'[q]].name
             PROVE  "shared" \in marks'[r]
  BY DEF SharedIsMarked, Usable
<1>1. R \in Rooms
  BY RoomOfMember
<1>2. \A s \in Rooms : marks[s] \subseteq marks'[s]
  BY MarksGrow
<1>3. CASE fp'[R] = fp[R]
  <2>1. ASSUME NEW s \in Rooms, Usable(s)'
        PROVE  Usable(s) /\ streams'[fp'[s]].name = streams[fp[s]].name
    <3>1. fp'[s] = fp[s] /\ fp[s] # NULL
      BY <1>3, <2>1, OwnRoom DEF Usable
    <3>2. fp[s] \in 1 .. Len(streams)
      BY <3>1, OpenFile
    <3> QED
      BY <2>1, <3>1, <3>2, OwnRoom DEF Usable
  <2> QED
    BY <1>2, <2>1 DEF SharedIsMarked
<1>4. CASE \E n \in Names : OpenStream(R, n)
  <2>1. PICK n \in Names : OpenStream(R, n)
    BY <1>4
  <2>2. streams'[fp'[R]].name = n
    BY <1>1, <2>1, Opened
  <2>3. ASSUME NEW s \in Rooms, s # R, Usable(s)'
        PROVE  Usable(s) /\ streams'[fp'[s]].name = streams[fp[s]].name
    BY <2>3, OtherRooms DEF Usable
  <2>4. ASSUME NEW s \in Rooms, s # R, Usable(s)', streams'[fp'[s]].name = n
        PROVE  "shared" \in marks'[s] /\ "shared" \in marks'[R]
    <3>1. s \in Holders(n)
      BY <2>3, <2>4 DEF Holders
    <3>2. \A x \in Rooms : x # R /\ x \in Holders(n)
             => "shared" \in marks'[x] /\ "shared" \in marks'[R]
      BY <1>1, <2>1, StreamOpened, Zenon
    <3> QED
      BY <2>4, <3>1, <3>2
  <2>5. CASE r # R /\ q # R
    BY <1>2, <2>3, <2>5 DEF SharedIsMarked
  <2> QED
    BY <2>2, <2>4, <2>5
<1>5. CASE OpenFails(R)
  <2>1. ~Usable(R)' /\ streams' = streams
    BY <1>1, <1>5, Failed
  <2>2. r # R /\ q # R
    BY <2>1
  <2> QED
    BY <1>2, <2>1, <2>2, OtherRooms DEF SharedIsMarked, Usable
<1> QED
  BY <1>3, <1>4, <1>5, Moves

\* What FileSave() leaves in BACKUP when fname names the file that is open.
LEMMA SavedUnderItsName ==
  ASSUME TypeOK, Named, NEW r \in Rooms, Usable(r), streams[fp[r]].name = fname[r],
         FileSave(r)
  PROVE  /\ disk[fname[r]] # <<>> => backup'[fname[r]] = Copy(disk[fname[r]])
         /\ \A n \in Names : n # fname[r] => backup'[n] = backup[n]
<1>1. fname[r] \in Names /\ Content(r) = disk[fname[r]]
  BY OpenFile DEF Usable, Content
<1>2. backup \in [Names -> Seq(Chars) \cup {None}]
  BY DEF TypeOK, FilesOK
<1>3. CASE Content(r) = <<>>
  BY <1>1, <1>3 DEF FileSave
<1>4. CASE Content(r) # <<>>
  <2>1. backup' = [backup EXCEPT ![fname[r]] = Copy(Content(r))]
    BY <1>4 DEF FileSave
  <2> QED
    BY <1>1, <1>2, <2>1
<1> QED
  BY <1>3, <1>4

LEMMA StreamNames ==
  ASSUME NEW s \in Seq(Streams)
  PROVE  /\ DOMAIN s = 1 .. Len(s)
         /\ \A i \in 1 .. Len(s) : s[i].name \in Names /\ s[i].room \in Rooms
<1>1. \A i \in 1 .. Len(s) : s[i] \in Streams
  BY ElementOfSeq
<1> QED
  BY <1>1, LenProperties DEF Streams

LEMMA BackedUpStep ==
  ASSUME TypeOK, Named, OneAtATime, NameMatches, FileReady, BackedUp,
         NEW m \in Members, Acts(m)
  PROVE  BackedUp'
<1> DEFINE R == RoomOf[m]
           causes == {"overlap", "compiled", "failed", "four"}
<1> USE DEF diskVars, roomVars, buildVars, boundVars
<1> SUFFICES ASSUME \A r \in Rooms : Without(r, causes)',
                    NEW i \in DOMAIN streams', NEW n, n = streams'[i].name,
                    disk'[n] # <<>>,
                    \A j \in DOMAIN streams' : streams'[j].name = n => ~streams'[j].open
             PROVE  backup'[n] = Copy(disk'[n])
  BY DEF BackedUp, Without
<1>1. R \in Rooms
  BY RoomOfMember
<1>2. \A r \in Rooms : Without(r, causes)
  BY WithoutShrinks
<1>3. /\ DOMAIN streams = 1 .. Len(streams) /\ DOMAIN streams' = 1 .. Len(streams')
      /\ Len(streams) \in Nat /\ Len(streams') \in Nat
      /\ Len(streams) <= Len(streams')
      /\ \A j \in 1 .. Len(streams) : streams'[j].name = streams[j].name
  BY OwnRoom, LenProperties DEF TypeOK, FilesOK
<1>0. n \in Names
  BY <1>3, StreamNames, OwnRoom
<1>4. /\ disk \in [Names -> Seq(Chars) \cup {None}]
      /\ backup \in [Names -> Seq(Chars) \cup {None}]
  BY DEF TypeOK, FilesOK
<1>5. ASSUME i \in 1 .. Len(streams), disk'[n] = disk[n], backup'[n] = backup[n],
             \A j \in 1 .. Len(streams) :
               streams[j].name = n /\ streams[j].open => streams'[j].open
      PROVE  backup'[n] = Copy(disk'[n])
  <2>1. \A j \in DOMAIN streams : streams[j].name = n => ~streams[j].open
    BY <1>3, <1>5
  <2>2. streams[i].name = n /\ i \in DOMAIN streams
    BY <1>3, <1>5
  <2> QED
    BY <1>2, <1>5, <2>1, <2>2 DEF BackedUp
<1>6. CASE UNCHANGED <<disk, backup, streams>>
  BY <1>3, <1>5, <1>6
<1>7. ASSUME NEW f \in Names, OpenStream(R, f),
             \A g \in Names : g # f => disk'[g] = disk[g], backup' = backup
      PROVE  backup'[n] = Copy(disk'[n])
  <2>1. /\ Len(streams') = Len(streams) + 1
        /\ \A j \in 1 .. Len(streams) : streams'[j] = streams[j]
        /\ streams'[Len(streams) + 1] = [name |-> f, room |-> R, open |-> TRUE]
    BY <1>1, <1>7, StreamOpened, Zenon
  <2>2. n # f
    <3>1. Len(streams) + 1 \in DOMAIN streams'
      BY <1>3, <2>1
    <3>2. streams'[Len(streams) + 1].name = f /\ streams'[Len(streams) + 1].open
      BY <2>1
    <3> QED
      BY <3>1, <3>2
  <2>3. i \in 1 .. Len(streams)
    <3>1. i # Len(streams) + 1
      BY <2>1, <2>2
    <3> QED
      BY <1>3, <2>1, <3>1
  <2> QED
    BY <1>0, <1>5, <1>7, <2>1, <2>2, <2>3
<1>8. ~OpenFails(R)
  BY <1>1, Failed DEF Without
<1>9. CASE HandlerFresh(m)
  <2>1. OwnName[R] \in Names
    BY <1>1, RoomFileAssumption DEF RoomFileAssumption
  <2>2. /\ OpenStream(R, OwnName[R]) /\ disk' = [disk EXCEPT ![OwnName[R]] = <<>>]
        /\ backup' = backup
    BY <1>8, <1>9 DEF HandlerFresh
  <2> QED
    BY <1>4, <1>7, <2>1, <2>2
<1>10. CASE HandlerReopen(m)
  BY <1>7, <1>8, <1>10 DEF HandlerReopen, HandlerAt, Named
<1>11. CASE HandlerMake(m)
  <2>1. arg[m] \in Names
    BY <1>11 DEF HandlerMake, HandlerAt, Named
  <2>2. /\ OpenStream(R, arg[m]) /\ disk' = [disk EXCEPT ![arg[m]] = <<>>]
        /\ backup' = backup
    BY <1>8, <1>11 DEF HandlerMake
  <2> QED
    BY <1>4, <1>7, <2>1, <2>2
<1>12. CASE HandlerCompile(m)
  <2>1. ~(marks' = Marked(marks, {R}, "compiled"))
    <3>1. marks' = Marked(marks, {R}, "compiled") => "compiled" \in marks'[R]
      BY <1>1, Noted DEF Marks
    <3> QED
      BY <1>1, <3>1 DEF Without
  <2> QED
    BY <1>6, <1>12, <2>1 DEF HandlerCompile, Undefined
<1>13. CASE \E t \in Texts : HandlerEdit(m, t)
  <2>1. CASE disk' = disk
    BY <1>6, <1>13, <2>1 DEF HandlerEdit
  <2>2. CASE \E v : Usable(R) /\ disk' = [disk EXCEPT ![streams[fp[R]].name] = v]
    <3> DEFINE f == streams[fp[R]].name
    <3>1. streams' = streams /\ backup' = backup
      BY <1>13 DEF HandlerEdit
    <3>2. fp[R] \in DOMAIN streams /\ streams[fp[R]].open
      BY <1>1, <2>2, OpenFile DEF Usable
    <3>3. n # f
      BY <3>1, <3>2
    <3>4. disk'[n] = disk[n]
      BY <1>0, <1>4, <2>2, <3>3
    <3> QED
      BY <1>3, <1>5, <3>1, <3>4
  <2> QED
    BY <1>13, <2>1, <2>2 DEF HandlerEdit
<1>14. CASE HandlerOpen(m) \/ HandlerCreate(m)
  <2>1. CASE UNCHANGED <<disk, backup, streams>>
    BY <1>6, <2>1
  <2>2. CASE Usable(R) /\ FileSave(R) /\ streams' = ClosedStreams(R) /\ disk' = disk
    <3>1. ~Creating(R)
      <4>1. hpc[m] \in {"open", "create"}
        BY <1>14 DEF HandlerOpen, HandlerCreate, HandlerAt
      <4>2. \A k \in Members : k # m /\ RoomOf[k] = R => hpc[k] # "insert"
        BY <1>1, Alone DEF Without
      <4> QED
        BY <4>1, <4>2 DEF Creating
    <3>2. streams[fp[R]].name = fname[R]
      <4>1. Without(R, {"overlap", "failed"})
        BY <1>1, <1>2 DEF Without
      <4> QED
        BY <1>1, <2>2, <3>1, <4>1 DEF NameMatches
    <3>3. /\ disk[fname[R]] # <<>> => backup'[fname[R]] = Copy(disk[fname[R]])
          /\ \A f \in Names : f # fname[R] => backup'[f] = backup[f]
      BY <1>1, <2>2, <3>2, SavedUnderItsName
    <3>4. CASE n = fname[R]
      BY <2>2, <3>3, <3>4
    <3>5. CASE n # fname[R]
      <4>1. fp[R] # NULL
        BY <2>2 DEF Usable
      <4>2. /\ Len(streams') = Len(streams)
            /\ \A j \in 1 .. Len(streams) :
                 streams'[j].open = (streams[j].open /\ j # fp[R])
        BY <1>1, <2>2, <4>1, StreamClosed
      <4>3. i \in 1 .. Len(streams)
        BY <1>3, <4>2
      <4>4. \A j \in 1 .. Len(streams) :
              streams[j].name = n /\ streams[j].open => streams'[j].open
        <5>1. \A j \in 1 .. Len(streams) : streams[j].name = n => j # fp[R]
          BY <3>2, <3>5
        <5> QED
          BY <4>2, <5>1
      <4> QED
        BY <1>0, <1>5, <2>2, <3>3, <3>5, <4>3, <4>4
    <3> QED
      BY <3>4, <3>5
  <2> QED
    BY <1>14, <2>1, <2>2 DEF HandlerOpen, HandlerCreate, Close, Undefined
<1>15. CASE \/ Enter(m) \/ HandlerRow(m) \/ HandlerLoad(m) \/ HandlerTransfer(m)
            \/ HandlerRefuseOpen(m) \/ HandlerRefuseCreate(m) \/ HandlerAbsent(m)
            \/ HandlerInsert(m) \/ \E c, f : HandlerRead(m, c, f)
  BY <1>6, <1>15 DEF Enter, HandlerRow, HandlerLoad, HandlerTransfer, Transfer, Undefined,
       HandlerRefuseOpen, HandlerRefuseCreate, HandlerAbsent, HandlerInsert, HandlerRead
<1>16. CASE HandlerBuilds(m)
  BY <1>6, <1>16, BuildQuiet
<1> QED
  BY <1>9, <1>10, <1>11, <1>12, <1>13, <1>14, <1>15, <1>16, ActsCases

\* The edit boxes that a step may change are those of m and of its room.
LEMMA ShownElsewhere ==
  ASSUME TypeOK, NEW m \in Members, Acts(m), NEW k \in Members, k # m,
         RoomOf[k] # RoomOf[m] \/ hpc[k] = "away"
  PROVE  shown'[k] = shown[k]
<1> USE DEF diskVars, roomVars, buildVars, boundVars
<1>1. shown \in [Members -> Seq(Chars)] /\ k \notin Inside(RoomOf[m])
  BY DEF TypeOK, ThreadsOK, Inside
<1>2. CASE shown' = shown
  BY <1>2
<1>3. CASE HandlerLoad(m) \/ HandlerTransfer(m)
  BY <1>1, <1>3 DEF HandlerLoad, HandlerTransfer, Transfer, Audience, Undefined
<1>4. CASE \E t \in Texts : HandlerEdit(m, t)
  BY <1>1, <1>4 DEF HandlerEdit
<1>5. CASE \/ Enter(m) \/ HandlerFresh(m) \/ HandlerRow(m) \/ HandlerOpen(m)
           \/ HandlerCreate(m) \/ \E c, n : HandlerRead(m, c, n)
  BY <1>2, <1>5 DEF Enter, HandlerFresh, HandlerRow, HandlerOpen, HandlerCreate, Close,
       Undefined, HandlerRead
<1>6. CASE HandlerRefuseOpen(m) \/ HandlerReopen(m) \/ HandlerRefuseCreate(m)
           \/ HandlerAbsent(m) \/ HandlerMake(m) \/ HandlerInsert(m)
  BY <1>2, <1>6 DEF HandlerRefuseOpen, HandlerReopen, HandlerRefuseCreate, HandlerAbsent,
       HandlerMake, HandlerInsert
<1>7. CASE HandlerCompiles(m)
  BY <1>2, <1>7, BuildQuiet DEF HandlerCompiles, HandlerCompile, Undefined
<1> QED
  BY <1>3, <1>4, <1>5, <1>6, <1>7, ActsCases DEF HandlerCompiles

\* A file that another room has open is changed only under the mark "shared".
LEMMA TextElsewhere ==
  ASSUME TypeOK, Named, SharedIsMarked, NEW m \in Members, Acts(m),
         NEW r \in Rooms, r # RoomOf[m], Usable(r), "shared" \notin marks'[r]
  PROVE  Content(r)' = Content(r)
<1> DEFINE R == RoomOf[m]
           f == streams[fp[r]].name
<1> USE DEF diskVars, roomVars, buildVars, boundVars
<1>1. R \in Rooms /\ f \in Names /\ disk \in [Names -> Seq(Chars) \cup {None}]
  BY RoomOfMember, OpenFile DEF TypeOK, FilesOK, Usable
<1>2. streams'[fp'[r]] = streams[fp[r]]
  BY OtherRooms DEF Usable
<1>3. marks[r] \subseteq marks'[r]
  BY MarksGrow
<1>4. ASSUME NEW n \in Names, OpenStream(R, n)
      PROVE  n # f
  <2>1. \A q \in Rooms : q # R /\ q \in Holders(n) => "shared" \in marks'[q]
    BY <1>1, <1>4, StreamOpened, Zenon
  <2> QED
    BY <2>1 DEF Holders
<1>5. CASE disk' = disk
  BY <1>2, <1>5 DEF Content
<1>6. CASE \E n \in Names : OpenStream(R, n) /\ disk' = [disk EXCEPT ![n] = <<>>]
  BY <1>1, <1>2, <1>4, <1>6 DEF Content
<1>7. CASE HandlerFresh(m)
  <2>1. OwnName[R] \in Names
    BY <1>1, RoomFileAssumption DEF RoomFileAssumption
  <2> QED
    BY <1>5, <1>6, <1>7, <2>1 DEF HandlerFresh
<1>8. CASE HandlerMake(m)
  BY <1>5, <1>6, <1>8 DEF HandlerMake, HandlerAt, Named
<1>9. CASE \E t \in Texts : HandlerEdit(m, t)
  <2>1. CASE \E v : Usable(R) /\ disk' = [disk EXCEPT ![streams[fp[R]].name] = v]
    <3>1. streams[fp[R]].name # f
      BY <1>1, <1>3, <2>1 DEF SharedIsMarked
    <3> QED
      BY <1>1, <1>2, <2>1, <3>1 DEF Content
  <2> QED
    BY <1>5, <1>9, <2>1 DEF HandlerEdit
<1>10. CASE \/ Enter(m) \/ HandlerRow(m) \/ HandlerLoad(m) \/ HandlerTransfer(m)
            \/ HandlerOpen(m) \/ HandlerCreate(m) \/ \E c, n : HandlerRead(m, c, n)
  BY <1>5, <1>10 DEF Enter, HandlerRow, HandlerLoad, HandlerTransfer, Transfer,
       HandlerOpen, HandlerCreate, Close, Undefined, HandlerRead
<1>11. CASE HandlerRefuseOpen(m) \/ HandlerReopen(m) \/ HandlerRefuseCreate(m)
            \/ HandlerAbsent(m) \/ HandlerInsert(m)
  BY <1>5, <1>11 DEF HandlerRefuseOpen, HandlerReopen, HandlerRefuseCreate, HandlerAbsent,
       HandlerInsert
<1>12. CASE HandlerCompiles(m)
  BY <1>5, <1>12, BuildQuiet DEF HandlerCompiles, HandlerCompile, Undefined
<1> QED
  BY <1>7, <1>8, <1>9, <1>10, <1>11, <1>12, ActsCases DEF HandlerCompiles

\* A member that has not entered, or opens the first file, has an empty edit box.
LEMMA EmptyStep ==
  ASSUME TypeOK, Named, OneAtATime, ShownFollows, NEW m \in Members, Acts(m),
         NEW k \in Members,
         hpc'[k] = "away" \/ (hpc'[k] = "fresh" /\ Without(RoomOf[k], {"overlap"})')
  PROVE  shown'[k] = <<>>
<1> USE DEF diskVars, roomVars, buildVars, boundVars
<1>1. DOMAIN hpc = Members /\ RoomOf[m] \in Rooms /\ RoomOf[k] \in Rooms
  BY RoomOfMember DEF TypeOK, ThreadsOK
<1>2. CASE k = m
  <2>1. Enter(m) \/ hpc'[m] \notin {"away", "fresh"}
    <3>1. CASE HandlerEnters(m)
      BY <1>1, <3>1 DEF HandlerEnters, HandlerFresh, HandlerRow, HandlerLoad,
           Transfer, Undefined, Go, Done, HandlerAt
    <3>2. CASE HandlerCommanded(m)
      BY <1>1, <3>2 DEF HandlerCommanded, OpenWanted, CreateWanted, CompileWanted,
           HandlerRead, HandlerEdit, Go, HandlerAt
    <3>3. CASE HandlerOpens(m)
      BY <1>1, <3>3 DEF HandlerOpens, HandlerOpen, Close, HandlerRefuseOpen,
           HandlerReopen, HandlerTransfer, Transfer, Undefined, Go, Done, HandlerAt
    <3>4. CASE HandlerCreates(m)
      BY <1>1, <3>4 DEF HandlerCreates, HandlerCreate, Close, Undefined,
           HandlerRefuseCreate, HandlerAbsent, HandlerMake, HandlerInsert, Go, Done,
           HandlerAt
    <3>5. CASE HandlerCompiles(m)
      BY <1>1, <3>5, BuildQuiet DEF HandlerCompiles, HandlerCompile, Undefined, Go,
           HandlerAt
    <3> QED
      BY <3>1, <3>2, <3>3, <3>4, <3>5 DEF Acts
  <2>2. hpc[m] = "away" /\ shown' = shown
    BY <1>2, <2>1 DEF Enter, HandlerAt
  <2> QED
    BY <1>2, <2>2 DEF ShownFollows
<1>3. CASE k # m
  <2>1. hpc'[k] = hpc[k]
    BY <1>3, OwnThread
  <2>2. Without(RoomOf[k], {"overlap"})' => Without(RoomOf[k], {"overlap"})
    BY <1>1, WithoutShrinks
  <2>3. shown[k] = <<>>
    BY <2>1, <2>2 DEF ShownFollows
  <2>4. RoomOf[k] # RoomOf[m] \/ hpc[k] = "away"
    BY <1>3, <2>1, Alone DEF Without
  <2> QED
    BY <1>3, <2>3, <2>4, ShownElsewhere
<1> QED
  BY <1>2, <1>3

LEMMA ShownStep ==
  ASSUME TypeOK, Named, OneAtATime, FileReady, OneStream, SharedIsMarked, ShownFollows,
         NEW m \in Members, Acts(m), NEW r \in Rooms, Usable(r)', ~Changing(r)',
         Without(r, {"overlap", "compiled", "refused", "failed", "four", "shared", "short"})',
         NEW k \in Members, k \in Inside(r)', hpc'[k] # "load"
  PROVE  shown'[k] = Content(r)'
<1> DEFINE R == RoomOf[m]
           causes == {"overlap", "compiled", "refused", "failed", "four", "shared", "short"}
<1> USE DEF diskVars, roomVars, buildVars, boundVars
<1>1. /\ R \in Rooms /\ DOMAIN hpc = Members /\ shown \in [Members -> Seq(Chars)]
      /\ DOMAIN fp = Rooms /\ Texts \subseteq Seq(Chars)
      /\ disk \in [Names -> Seq(Chars) \cup {None}]
  BY RoomOfMember, RoomFileAssumption DEF TypeOK, ThreadsOK, FilesOK, RoomFileAssumption
<1>2. Without(r, causes)
  BY WithoutShrinks
<1>3. RoomOf[k] = r /\ hpc'[k] # "away"
  BY DEF Inside
<1>4. ASSUME Usable(r), ~Changing(r), NEW l \in Members, RoomOf[l] = r,
             hpc[l] \notin {"away", "load"}
      PROVE  shown[l] = Content(r)
  BY <1>2, <1>4 DEF ShownFollows, Inside
<1>5. CASE r # R
  <2>1. Usable(r) /\ ~Changing(r) /\ hpc'[k] = hpc[k]
    BY <1>3, <1>5, OtherRooms DEF Changing, Between
  <2>2. shown'[k] = shown[k]
    BY <1>3, <1>5, ShownElsewhere
  <2>3. Content(r)' = Content(r)
    BY <1>5, <2>1, TextElsewhere DEF Without
  <2> QED
    BY <1>3, <1>4, <2>1, <2>2, <2>3
<1>6. CASE r = R
  <2>1. \A l \in Members : l # m /\ RoomOf[l] = R
          => hpc[l] \in {"away", "read", "returned"} /\ hpc'[l] = hpc[l]
    BY <1>6, Alone DEF Without
  <2>2. /\ \A mark \in Marks : marks' = Marked(marks, {R}, mark) => mark \notin causes
        /\ ~OpenFails(R)
    <3>1. \A mark \in Marks : marks' = Marked(marks, {R}, mark) => mark \in marks'[R]
      BY <1>1, Noted
    <3>2. OpenFails(R) => "failed" \in marks'[R]
      BY <1>1, Failed
    <3> QED
      BY <1>6, <3>1, <3>2 DEF Without
  <2>3. {"refused", "compiled", "failed", "four", "short"} \subseteq Marks
    BY DEF Marks
  <2> HIDE DEF Marks
  <2>4. hpc'[m] \notin {"access", "exists", "make", "insert", "transfer"}
    BY <1>6 DEF Changing, Between
  <2>5. CASE /\ UNCHANGED <<disk, streams, fp, shown>>
             /\ hpc[m] \notin {"access", "exists", "make", "insert", "transfer"}
             /\ k = m => hpc[m] \notin {"away", "load"}
    <3>1. Usable(r) /\ Content(r)' = Content(r)
      BY <2>5 DEF Usable, Content
    <3>2. ~Changing(r)
      BY <1>6, <2>1, <2>5 DEF Changing, Between
    <3>3. hpc[k] \notin {"away", "load"}
      BY <1>3, <1>6, <2>1, <2>5
    <3> QED
      BY <1>3, <1>4, <2>5, <3>1, <3>2, <3>3
  <2>6. CASE Enter(m)
    <3>1. hpc'[m] = "load"
      <4>1. ASSUME m = Four, fp[R] # NULL
            PROVE  "four" \in marks'[R]
        <5>1. marks' = Marked(MarkOverlap(m), {R}, "four")
          BY <2>6, <4>1 DEF Enter
        <5>2. MarkOverlap(m) \in [Rooms -> SUBSET Marks]
          BY Overlaps
        <5> QED
          BY <1>1, <2>3, <5>1, <5>2, MarkedAdds
      <4>2. fp[R] # NULL
        BY <1>6, <2>6 DEF Enter, Usable
      <4>3. ~OpensOwnFile(m)
        BY <1>6, <4>1, <4>2 DEF OpensOwnFile, Without
      <4> QED
        BY <1>1, <2>6, <4>3 DEF Enter, Go
    <3>2. UNCHANGED <<disk, streams, fp, shown>> /\ hpc[m] = "away"
      BY <2>6 DEF Enter, HandlerAt
    <3> QED
      BY <2>5, <3>1, <3>2
  <2>7. CASE HandlerFresh(m)
    <3>1. hpc[m] = "fresh" /\ shown' = shown
      BY <2>7 DEF HandlerFresh, HandlerAt
    <3>2. fp[R] = NULL
      <4>1. Without(R, {"overlap", "four"})
        BY <1>2, <1>6 DEF Without
      <4> QED
        BY <1>1, <3>1, <4>1 DEF OneStream
    <3>3. \A l \in Members : RoomOf[l] = R => hpc[l] \in {"away", "fresh"}
      <4>1. Without(R, {"overlap", "compiled", "refused", "failed"})
        BY <1>2, <1>6 DEF Without
      <4> QED
        BY <1>1, <3>2, <4>1 DEF FileReady
    <3>4. k = m
      BY <1>3, <1>6, <2>1, <3>3
    <3>5. shown[m] = <<>>
      <4>1. Without(R, {"overlap"})
        BY <1>2, <1>6 DEF Without
      <4> QED
        BY <3>1, <4>1 DEF ShownFollows
    <3>6. OwnName[R] \in Names
      BY <1>1, RoomFileAssumption DEF RoomFileAssumption
    <3>7. OpenStream(R, OwnName[R]) /\ disk' = [disk EXCEPT ![OwnName[R]] = <<>>]
      BY <2>2, <2>7 DEF HandlerFresh
    <3>8. streams'[fp'[R]].name = OwnName[R]
      BY <1>1, <3>6, <3>7, Opened
    <3>9. Content(R)' = <<>>
      BY <1>1, <3>6, <3>7, <3>8 DEF Content
    <3> QED
      BY <1>6, <3>1, <3>4, <3>5, <3>9
  <2>8. CASE HandlerLoad(m)
    <3>1. CASE /\ UNCHANGED <<disk, streams, fp>> /\ Usable(R) /\ hpc[m] = "load"
               /\ shown' = [c \in Members |-> IF c \in {m} THEN Content(R) ELSE shown[c]]
      <4>1. Content(R)' = Content(R)
        BY <3>1 DEF Content
      <4>2. CASE k = m
        BY <1>6, <3>1, <4>1, <4>2
      <4>3. CASE k # m
        <5>1. ~Changing(R)
          BY <2>1, <3>1 DEF Changing, Between
        <5>2. shown[k] = Content(R)
          BY <1>3, <1>4, <1>6, <2>1, <3>1, <4>3, <5>1
        <5> QED
          BY <1>6, <3>1, <4>1, <4>3, <5>2
      <4> QED
        BY <4>2, <4>3
    <3>2. CASE UNCHANGED <<disk, streams, fp, shown, hpc>> /\ hpc[m] = "load"
      BY <2>5, <3>2
    <3> QED
      BY <2>8, <3>1, <3>2 DEF HandlerLoad, HandlerAt, Transfer, Undefined
  <2>9. CASE HandlerTransfer(m)
    <3>1. /\ UNCHANGED <<disk, streams, fp>>
          /\ shown' = [c \in Members |-> IF c \in Inside(R) THEN Content(R) ELSE shown[c]]
          /\ hpc[m] = "transfer"
      BY <1>1, <2>4, <2>9 DEF HandlerTransfer, HandlerAt, Transfer, Undefined, Audience
    <3>2. k \in Inside(R)
      BY <1>3, <1>6, <2>1, <3>1 DEF Inside
    <3> QED
      BY <1>6, <3>1, <3>2 DEF Content
  <2>10. CASE \E t \in Texts : HandlerEdit(m, t)
    <3>1. PICK t \in Texts : HandlerEdit(m, t)
      BY <2>10
    <3>2. hpc[m] = "read" /\ UNCHANGED <<streams, fp, hpc>>
      BY <3>1 DEF HandlerEdit, HandlerAt
    <3>3. Usable(R) /\ fp[R] # NULL
      BY <1>6, <3>2 DEF Usable
    <3> DEFINE f == streams[fp[R]].name
    <3>4. f \in Names /\ Content(R) = disk[f] /\ Content(R) \in Seq(Chars)
      BY <1>1, <3>3, OpenFile DEF Content
    <3>5. /\ disk' = [disk EXCEPT ![f] = Overwrite(t, disk[f])]
          /\ shown' = [c \in Members |-> IF c = m \/ c \in Inside(R) THEN t ELSE shown[c]]
          /\ marks' = Marked(MarkOverlap(m), IF Len(t) < Len(Content(R)) THEN {R} ELSE {}, "short")
      BY <3>1, <3>3 DEF HandlerEdit
    <3>6. ~(Len(t) < Len(Content(R)))
      <4>1. ASSUME Len(t) < Len(Content(R))
            PROVE  "short" \in marks'[R]
        <5>1. marks' = Marked(MarkOverlap(m), {R}, "short")
          BY <3>5, <4>1
        <5>2. MarkOverlap(m) \in [Rooms -> SUBSET Marks]
          BY Overlaps
        <5> QED
          BY <1>1, <2>3, <5>1, <5>2, MarkedAdds
      <4> QED
        BY <1>6, <4>1 DEF Without
    <3>7. Overwrite(t, disk[f]) = t
      <4>1. t \in Seq(Chars) /\ Len(t) \in Nat /\ Len(disk[f]) \in Nat
        BY <1>1, <3>4, LenProperties
      <4>2. Len(t) >= Len(disk[f])
        BY <3>4, <3>6, <4>1
      <4> QED
        BY <3>4, <4>1, <4>2, OverwriteTyped
    <3>8. Content(R)' = t
      BY <1>1, <3>2, <3>4, <3>5, <3>7 DEF Content
    <3>9. shown'[k] = t
      <4>1. k \in Inside(R)
        BY <1>3, <1>6, <3>2 DEF Inside
      <4> QED
        BY <3>5, <4>1
    <3> QED
      BY <1>6, <3>8, <3>9
  <2>11. CASE HandlerOpen(m) \/ HandlerCreate(m) \/ HandlerCompile(m)
    <3>1. CASE UNCHANGED <<disk, streams, fp, shown>>
      BY <2>5, <2>11, <3>1 DEF HandlerOpen, HandlerCreate, HandlerCompile, HandlerAt
    <3>2. CASE fp[R] # NULL /\ streams' = ClosedStreams(R) /\ fp' = fp
      BY <1>1, <1>6, <3>2, Closed
    <3> QED
      BY <2>11, <3>1, <3>2 DEF HandlerOpen, HandlerCreate, Close, HandlerCompile, Usable,
           Undefined
  <2>12. CASE HandlerRefuseOpen(m) \/ HandlerRefuseCreate(m)
    BY <2>2, <2>3, <2>12 DEF HandlerRefuseOpen, HandlerRefuseCreate
  <2>13. CASE HandlerReopen(m) \/ HandlerAbsent(m)
    BY <1>1, <2>4, <2>13 DEF HandlerReopen, HandlerAbsent, Go
  <2>14. CASE HandlerMake(m) \/ HandlerInsert(m)
    BY <1>1, <2>2, <2>3, <2>4, <2>14 DEF HandlerMake, HandlerInsert, Go
  <2>15. CASE HandlerRow(m) \/ \E c, n : HandlerRead(m, c, n)
    BY <2>5, <2>15 DEF HandlerRow, HandlerRead, HandlerAt
  <2>16. CASE HandlerBuilds(m)
    BY <2>5, <2>16, BuildQuiet
  <2> QED
    BY <2>6, <2>7, <2>8, <2>9, <2>10, <2>11, <2>12, <2>13, <2>14, <2>15, <2>16, ActsCases
<1> QED
  BY <1>5, <1>6

LEMMA ShownFollowsStep ==
  ASSUME TypeOK, Named, OneAtATime, FileReady, OneStream, SharedIsMarked, ShownFollows,
         NEW m \in Members, Acts(m)
  PROVE  ShownFollows'
<1>1. \A k \in Members :
        (hpc'[k] = "away" \/ (hpc'[k] = "fresh" /\ Without(RoomOf[k], {"overlap"})'))
          => shown'[k] = <<>>
  BY EmptyStep
<1>2. \A r \in Rooms :
        (Usable(r)' /\ ~Changing(r)' /\ Without(r, {"overlap", "compiled", "refused",
                                           "failed", "four", "shared", "short"})')
          => \A k \in Inside(r)' : hpc'[k] # "load" => shown'[k] = Content(r)'
  <2>1. \A r \in Rooms : \A k \in Inside(r)' : k \in Members
    BY DEF Inside
  <2> QED
    BY <2>1, ShownStep
<1> QED
  BY <1>1, <1>2 DEF ShownFollows, Without, Usable, Changing, Between, Inside, Content

\* The other steps leave the builds alone, and take no thread into one.
LEMMA BuildMoves ==
  ASSUME TypeOK, NEW m \in Members, Acts(m)
  PROVE  \/ HandlerBuilds(m)
         \/ /\ UNCHANGED <<builds, aout, outputs, errRedir, resRedir, redir, mine, mixed>>
            /\ ~Building(m) /\ ~Building(m)'
            /\ \/ answer' = [answer EXCEPT ![m] = Unanswered]
               \/ answer' = answer /\ ~Waiting(m)'
               \/ answer' = answer /\ hpc[m] = "compile"
            /\ hpc'[m] = "system" =>
                 HandlerCompile(m) /\ marks' = Marked(marks, {RoomOf[m]}, "compiled")
<1> USE DEF diskVars, roomVars, buildVars, fileVars, boundVars, Building, Waiting
<1>1. DOMAIN hpc = Members
  BY DEF TypeOK, ThreadsOK
<1>2. CASE HandlerEnters(m)
  BY <1>1, <1>2 DEF HandlerEnters, Enter, HandlerFresh, HandlerRow, HandlerLoad,
       Transfer, Undefined, Go, Done, HandlerAt
<1>3. CASE HandlerCommanded(m)
  BY <1>1, <1>3 DEF HandlerCommanded, OpenWanted, CreateWanted, CompileWanted,
       HandlerRead, HandlerEdit, Go, HandlerAt
<1>4. CASE HandlerOpens(m)
  BY <1>1, <1>4 DEF HandlerOpens, HandlerOpen, Close, HandlerRefuseOpen,
       HandlerReopen, HandlerTransfer, Transfer, Undefined, Go, Done, HandlerAt
<1>5. CASE HandlerCreates(m)
  BY <1>1, <1>5 DEF HandlerCreates, HandlerCreate, Close, Undefined,
       HandlerRefuseCreate, HandlerAbsent, HandlerMake, HandlerInsert, Go, Done, HandlerAt
<1>6. CASE HandlerCompile(m)
  BY <1>1, <1>6 DEF HandlerCompile, Undefined, Go, HandlerAt
<1> QED
  BY <1>2, <1>3, <1>4, <1>5, <1>6 DEF Acts, HandlerCompiles

LEMMA BuildsUnderwayStep ==
  ASSUME TypeOK, Named, BuildsUnderway, NEW m \in Members, Acts(m)
  PROVE  BuildsUnderway'
<1> USE DEF diskVars, roomVars, buildVars, fileVars, boundVars
<1> SUFFICES ASSUME NEW k \in Members
             PROVE  /\ hpc'[k] \in {"gcc", "report", "exec"} => redir'[k] # NULL
                    /\ Waiting(k)' => answer'[k] = Unanswered
                    /\ Waiting(k)' /\ hpc'[k] # "compile" => "compiled" \in marks'[RoomOf[k]]
  BY DEF BuildsUnderway, Waiting
<1>0. /\ DOMAIN hpc = Members /\ DOMAIN answer = Members /\ DOMAIN redir = Members
      /\ errRedir \in 0 .. Len(outputs) /\ resRedir \in 0 .. Len(outputs)
  BY DEF TypeOK, ThreadsOK, BuildsOK
<1>1. /\ hpc[k] \in {"gcc", "report", "exec"} => redir[k] # NULL
      /\ Waiting(k) => answer[k] = Unanswered
      /\ Waiting(k) /\ hpc[k] # "compile" => "compiled" \in marks[RoomOf[k]]
  BY DEF BuildsUnderway
<1>2. marks[RoomOf[k]] \subseteq marks'[RoomOf[k]]
  BY RoomOfMember, MarksGrow
<1>3. CASE k # m
  BY <1>1, <1>2, <1>3, OwnThread DEF Waiting
<1>4. CASE k = m /\ HandlerBuilds(m)
  <2>1. CASE HandlerSystem(m)
    <3>1. redir'[m] # NULL
      BY <1>0, <2>1, Redirection DEF HandlerSystem, NULL
    <3> QED
      BY <1>0, <1>1, <1>2, <1>4, <2>1, <3>1 DEF HandlerSystem, HandlerAt, Go, Waiting
  <2>2. CASE HandlerGcc(m) \/ HandlerExec(m)
    BY <1>0, <1>1, <1>2, <1>4, <2>2 DEF HandlerGcc, HandlerExec, HandlerAt, Go, Waiting
  <2>3. CASE HandlerErrors(m)
    BY <1>0, <1>1, <1>2, <1>4, <2>3 DEF HandlerErrors, Undefined, HandlerAt, Go, Waiting
  <2>4. CASE HandlerReport(m) \/ HandlerDiscard(m) \/ HandlerClean(m)
    BY <1>0, <1>4, <2>4 DEF HandlerReport, HandlerDiscard, HandlerClean, Go, Waiting
  <2>5. CASE HandlerRun(m)
    <3>1. redir'[m] # NULL
      BY <1>0, <2>5, Redirection DEF HandlerRun, NULL
    <3> QED
      BY <1>0, <1>1, <1>2, <1>4, <2>5, <3>1 DEF HandlerRun, HandlerAt, Go, Waiting
  <2>6. CASE HandlerResult(m)
    BY <1>0, <1>1, <1>2, <1>4, <2>6 DEF HandlerResult, Undefined, HandlerAt, Go, Waiting
  <2> QED
    BY <1>4, <2>1, <2>2, <2>3, <2>4, <2>5, <2>6 DEF HandlerBuilds
<1>5. CASE k = m /\ ~HandlerBuilds(m)
  <2>1. /\ ~Building(m)'
        /\ \/ answer' = [answer EXCEPT ![m] = Unanswered]
           \/ answer' = answer /\ ~Waiting(m)'
           \/ answer' = answer /\ hpc[m] = "compile"
        /\ hpc'[m] = "system" => marks' = Marked(marks, {RoomOf[m]}, "compiled")
    BY <1>5, BuildMoves
  <2>2. Waiting(m)' /\ hpc'[m] # "compile" => hpc'[m] = "system"
    BY <2>1 DEF Waiting, Building
  <2>3. hpc'[m] = "system" => "compiled" \in marks'[RoomOf[m]]
    <3>1. RoomOf[m] \in Rooms /\ "compiled" \in Marks
      BY RoomOfMember DEF Marks
    <3> QED
      BY <2>1, <3>1, Noted
  <2>4. Waiting(m)' => answer'[m] = Unanswered
    BY <1>0, <1>1, <1>5, <2>1 DEF Waiting
  <2> QED
    BY <1>5, <2>1, <2>2, <2>3, <2>4 DEF Building
<1> QED
  BY <1>3, <1>4, <1>5

\* As soon as two builds meet, both members are in mixed; none leaves it otherwise
\* than by a build of its own.
LEMMA MixedGrows ==
  ASSUME TypeOK, NEW m \in Members, Acts(m)
  PROVE  /\ \A k \in Members : k # m /\ k \notin mixed' => k \notin mixed
         /\ ~HandlerSystem(m) => mixed' = mixed
         /\ \A k \in Members :
              HandlerSystem(m) /\ k # m /\ Building(k) => k \in mixed' /\ m \in mixed'
<1> USE DEF diskVars, roomVars, buildVars, fileVars, boundVars
<1>1. CASE HandlerSystem(m)
  <2> DEFINE others == {k \in Members \ {m} : Building(k)}
  <2>1. mixed' = IF others = {} THEN mixed \ {m} ELSE mixed \cup others \cup {m}
    BY <1>1 DEF HandlerSystem
  <2>2. \A k \in Members : k # m /\ Building(k) => k \in others
    OBVIOUS
  <2> HIDE DEF others
  <2> QED
    BY <1>1, <2>1, <2>2
<1>2. CASE HandlerBuilds(m) /\ ~HandlerSystem(m)
  BY <1>2 DEF HandlerBuilds, HandlerGcc, HandlerErrors, HandlerReport, HandlerDiscard,
       HandlerRun, HandlerExec, HandlerResult, HandlerClean, Undefined
<1>3. CASE ~HandlerBuilds(m)
  BY <1>3, BuildMoves DEF HandlerBuilds
<1> QED
  BY <1>1, <1>2, <1>3

LEMMA BuildsApartStep ==
  ASSUME TypeOK, Named, BuildsUnderway, BuildsApart, NEW m \in Members, Acts(m)
  PROVE  BuildsApart'
<1> DEFINE Apart(k) ==
      /\ hpc[k] = "gcc" => redir[k] = errRedir /\ outputs[errRedir] = Empty
      /\ hpc[k] # "gcc" => mine[k] # 0
      /\ hpc[k] = "errors" =>
           /\ errRedir # NULL
           /\ IF Builds(mine[k]) THEN outputs[errRedir] = Empty /\ aout = mine[k]
                                ELSE outputs[errRedir] = mine[k]
      /\ hpc[k] = "report" => outputs[redir[k]] = mine[k]
      /\ hpc[k] \in {"run", "exec"} => aout = mine[k]
      /\ hpc[k] = "exec" => redir[k] = resRedir
      /\ hpc[k] = "result" => resRedir # NULL /\ outputs[resRedir] = mine[k]
<1> USE DEF diskVars, roomVars, buildVars, fileVars, boundVars
<1>0. /\ DOMAIN hpc = Members /\ DOMAIN mine = Members /\ DOMAIN redir = Members
      /\ errRedir \in 0 .. Len(outputs) /\ resRedir \in 0 .. Len(outputs)
      /\ Len(builds) \in Nat
  BY LenProperties DEF TypeOK, ThreadsOK, BuildsOK
<1>1. SUFFICES ASSUME NEW k \in Members, k \notin mixed', Building(k)'
               PROVE  (\A l \in Members \ {k} : ~Building(l)') /\ Apart(k)'
  <2>1. \A k \in Members : k \notin mixed' /\ Building(k)' =>
                             (\A l \in Members \ {k} : ~Building(l)') /\ Apart(k)'
    BY <1>1
  <2> QED
    BY <2>1 DEF BuildsApart, Building, Builds
<1>2. \A l \in Members : l # m => /\ hpc'[l] = hpc[l] /\ redir'[l] = redir[l]
                                 /\ mine'[l] = mine[l] /\ (Building(l)' <=> Building(l))
  BY OwnThread DEF Building
<1>3. \A l \in Members : l \notin mixed /\ Building(l) =>
        (\A j \in Members \ {l} : ~Building(j)) /\ Apart(l)
  BY DEF BuildsApart
<1>4. CASE HandlerSystem(m)
  <2>1. k = m /\ \A l \in Members \ {m} : ~Building(l)
    BY <1>1, <1>2, <1>4, MixedGrows
  <2>2. hpc'[m] = "gcc" /\ redir'[m] = errRedir' /\ outputs'[errRedir'] = Empty
    BY <1>0, <1>4, Redirection DEF HandlerSystem, Go
  <2> QED
    BY <1>2, <2>1, <2>2
<1>5. CASE HandlerBuilds(m) /\ ~HandlerSystem(m)
  <2>1. Building(m)
    BY <1>5 DEF HandlerBuilds, HandlerGcc, HandlerErrors, HandlerReport, HandlerDiscard,
         HandlerRun, HandlerExec, HandlerResult, HandlerClean, HandlerAt, Building
  <2>2. k = m /\ m \notin mixed /\ \A l \in Members \ {m} : ~Building(l)
    BY <1>1, <1>2, <1>3, <1>5, <2>1, MixedGrows
  <2>3. Apart(m) /\ \A l \in Members \ {k} : ~Building(l)'
    BY <1>2, <1>3, <2>1, <2>2
  <2> SUFFICES Apart(m)'
    BY <2>2, <2>3
  <2>4. CASE HandlerGcc(m)
    <3>1. hpc[m] = "gcc" /\ hpc'[m] = "errors" /\ errRedir' = errRedir
      BY <1>0, <2>4 DEF HandlerGcc, HandlerAt, Go
    <3>2. redir[m] = errRedir /\ outputs[errRedir] = Empty
      BY <2>3, <3>1
    <3>3. /\ Len(builds') = Len(builds) + 1
          /\ mine' = [mine EXCEPT ![m] = Len(builds')]
          /\ redir[m] \in 1 .. Len(outputs)
          /\ IF Builds(Len(builds))'
             THEN aout' = Len(builds') /\ outputs' = outputs
             ELSE aout' = aout /\ outputs'[redir[m]] = Len(builds')
      BY <2>4, NewBuild
    <3>4. mine'[m] = Len(builds') /\ mine'[m] # 0 /\ errRedir' # NULL
      BY <1>0, <3>1, <3>2, <3>3 DEF NULL
    <3>5. Builds(mine[m])' <=> Builds(Len(builds))'
      BY <3>4 DEF Builds
    <3> QED
      BY <3>1, <3>2, <3>3, <3>4, <3>5
  <2>5. CASE HandlerErrors(m)
    <3>1. hpc[m] = "errors" /\ UNCHANGED <<builds, aout, outputs, errRedir, resRedir, mine>>
      BY <2>5 DEF HandlerErrors, HandlerAt, Undefined
    <3>2. errRedir # NULL
      BY <2>3, <3>1
    <3>3. CASE ErrorsSent /\ redir'[m] = errRedir /\ hpc'[m] = "report"
      <4>1. outputs[errRedir] = mine[m]
        BY <2>3, <3>1, <3>3 DEF ErrorsSent
      <4> QED
        BY <2>3, <3>1, <3>3, <4>1
    <3>4. CASE ~ErrorsSent /\ hpc'[m] = "run"
      <4>1. outputs[errRedir] # mine[m]
        BY <2>3, <3>1, <3>4 DEF ErrorsSent, Empty
      <4>2. aout = mine[m]
        BY <2>3, <3>1, <4>1
      <4> QED
        BY <2>3, <3>1, <3>4, <4>2
    <3> QED
      BY <1>0, <2>5, <3>2, <3>3, <3>4 DEF HandlerErrors, Ended, Go
  <2>6. CASE HandlerReport(m) \/ HandlerDiscard(m) \/ HandlerClean(m)
    <3>1. /\ hpc'[m] \in {"discard", "read"} /\ mine' = mine
          /\ hpc[m] \in {"report", "discard", "clean"}
      BY <1>0, <2>6 DEF HandlerReport, HandlerDiscard, HandlerClean, HandlerAt, Go
    <3> QED
      BY <2>3, <3>1
  <2>7. CASE HandlerRun(m)
    <3>1. /\ hpc[m] = "run" /\ hpc'[m] = "exec" /\ redir'[m] = resRedir'
          /\ UNCHANGED <<builds, aout, mine>>
      BY <1>0, <2>7 DEF HandlerRun, HandlerAt, Go
    <3> QED
      BY <2>3, <3>1
  <2>8. CASE HandlerExec(m)
    <3>1. /\ hpc[m] = "exec" /\ hpc'[m] = "result" /\ UNCHANGED <<mine, resRedir>>
      BY <1>0, <2>8 DEF HandlerExec, HandlerAt, Go
    <3>2. redir[m] \in 1 .. Len(outputs) /\ outputs'[redir[m]] = aout
      BY <2>8, NewResult
    <3>3. redir[m] = resRedir /\ aout = mine[m] /\ mine[m] # 0
      BY <2>3, <3>1
    <3> QED
      BY <3>1, <3>2, <3>3 DEF NULL
  <2>9. CASE HandlerResult(m)
    <3>1. /\ hpc[m] = "result" /\ hpc'[m] \in {"clean", "result"}
          /\ UNCHANGED <<mine, resRedir, outputs>>
      BY <1>0, <2>9 DEF HandlerResult, HandlerAt, Go, Undefined
    <3> QED
      BY <2>3, <3>1
  <2> QED
    BY <1>5, <2>4, <2>5, <2>6, <2>7, <2>8, <2>9 DEF HandlerBuilds
<1>6. CASE ~HandlerBuilds(m)
  <2>1. /\ UNCHANGED <<builds, aout, outputs, errRedir, resRedir, redir, mine, mixed>>
        /\ ~Building(m) /\ ~Building(m)'
    BY <1>6, BuildMoves
  <2>2. k # m /\ k \notin mixed /\ Building(k)
    BY <1>1, <1>2, <2>1
  <2>3. \A l \in Members \ {k} : ~Building(l)'
    BY <1>2, <1>3, <2>1, <2>2
  <2>4. Builds(mine[k])' <=> Builds(mine[k])
    BY <2>1 DEF Builds
  <2>5. Apart(k)
    BY <1>3, <2>2
  <2> QED
    BY <1>2, <2>1, <2>2, <2>3, <2>4, <2>5
<1> QED
  BY <1>4, <1>5, <1>6

LEMMA AnswersFreshStep ==
  ASSUME TypeOK, BuildsUnderway, BuildsApart, AnswersFresh, NEW m \in Members, Acts(m)
  PROVE  AnswersFresh'
<1> USE DEF diskVars, roomVars, buildVars, fileVars, boundVars
<1> SUFFICES ASSUME NEW k \in Members, k \notin mixed', answer'[k] # Unanswered
             PROVE  answer'[k] = mine'[k]
  BY DEF AnswersFresh
<1>1. k \notin mixed /\ answer[k] # Unanswered => answer[k] = mine[k]
  BY DEF AnswersFresh
<1>2. CASE k # m
  BY <1>1, <1>2, MixedGrows, OwnThread
<1>3. DOMAIN answer = Members
  BY DEF TypeOK, BuildsOK
<1>4. CASE k = m
  <2>1. CASE HandlerSystem(m) \/ HandlerGcc(m)
    <3>1. Waiting(m) /\ answer' = answer
      BY <2>1 DEF HandlerSystem, HandlerGcc, HandlerAt, Waiting
    <3> QED
      BY <1>4, <3>1 DEF BuildsUnderway
  <2>2. CASE HandlerReport(m)
    <3>1. /\ hpc[m] = "report" /\ mine' = mine /\ m \notin mixed /\ Building(m)
          /\ answer'[m] = outputs[redir[m]]
      BY <1>3, <1>4, <2>2 DEF HandlerReport, HandlerAt, Answered, Building
    <3> QED
      BY <1>4, <3>1 DEF BuildsApart
  <2>3. CASE HandlerResult(m) /\ resRedir # NULL
    <3>1. /\ hpc[m] = "result" /\ mine' = mine /\ m \notin mixed /\ Building(m)
          /\ answer'[m] = outputs[resRedir]
      BY <1>3, <1>4, <2>3 DEF HandlerResult, HandlerAt, Answered, Building
    <3> QED
      BY <1>4, <3>1 DEF BuildsApart
  <2>4. CASE UNCHANGED <<answer, mine, mixed>>
    BY <1>1, <1>4, <2>4
  <2>5. CASE \/ HandlerErrors(m) \/ HandlerDiscard(m) \/ HandlerRun(m) \/ HandlerExec(m)
             \/ HandlerClean(m) \/ (HandlerResult(m) /\ resRedir = NULL)
    BY <2>4, <2>5 DEF HandlerErrors, HandlerDiscard, HandlerRun, HandlerExec, HandlerClean,
         HandlerResult, Undefined
  <2>6. CASE ~HandlerBuilds(m)
    <3>1. /\ UNCHANGED <<mine, mixed>>
          /\ answer' = answer \/ answer' = [answer EXCEPT ![m] = Unanswered]
      BY <2>6, BuildMoves
    <3> QED
      BY <1>3, <1>4, <2>4, <3>1
  <2> QED
    BY <2>1, <2>2, <2>3, <2>5, <2>6 DEF HandlerBuilds
<1> QED
  BY <1>2, <1>4

LEMMA UndefinedHasCauseStep ==
  ASSUME TypeOK, Named, OneAtATime, NameMatches, FileReady, BuildsUnderway,
         NEW m \in Members, Acts(m)
  PROVE  UndefinedHasCause'
<1> DEFINE R == RoomOf[m]
<1> USE DEF diskVars, roomVars, buildVars, boundVars
<1> SUFFICES ASSUME status' = "undefined",
                    \A r \in Rooms :
                      /\ Without(r, {"overlap", "compiled", "refused", "failed"})'
                      /\ fname'[r] \notin NotC
             PROVE  FALSE
  BY DEF UndefinedHasCause, Without
<1>1. R \in Rooms /\ status # "undefined"
  BY RoomOfMember, ActsCases, BuildQuiet DEF Enter, HandlerFresh, HandlerRow, HandlerLoad, HandlerRead,
       HandlerEdit, HandlerOpen, HandlerRefuseOpen, HandlerReopen, HandlerTransfer,
       HandlerCreate, HandlerRefuseCreate, HandlerAbsent, HandlerMake, HandlerInsert,
       HandlerCompile, HandlerAt
<1>2. Without(R, {"overlap", "compiled", "refused", "failed"})
  BY <1>1, WithoutShrinks
<1>3. /\ Without(R, {"overlap", "compiled", "refused", "failed"})
      /\ Without(R, {"overlap", "failed"})
      /\ "compiled" \notin marks[R]
  BY <1>2 DEF Without
<1>4. \A k \in Members : k # m /\ RoomOf[k] = R => hpc[k] \in {"away", "read", "returned"}
  BY <1>1, Alone DEF Without
<1>5. ASSUME hpc[m] \notin {"away", "fresh", "access", "exists", "make", "insert"}
      PROVE  /\ Usable(R)
             /\ streams[fp[R]].name = fname[R]
  <2>1. fp[R] # NULL
    BY <1>1, <1>3, <1>5 DEF FileReady
  <2>2. ~Between(R) /\ ~Creating(R)
    BY <1>4, <1>5 DEF Between, Creating
  <2>3. Usable(R)
    BY <1>1, <1>3, <2>1, <2>2 DEF FileReady
  <2> QED
    BY <1>1, <1>3, <2>2, <2>3 DEF NameMatches
<1>6. CASE HandlerLoad(m) \/ HandlerTransfer(m)
  BY <1>1, <1>5, <1>6 DEF HandlerLoad, HandlerTransfer, HandlerAt, Transfer
<1>7. CASE \E t \in Texts : HandlerEdit(m, t)
  BY <1>1, <1>5, <1>7 DEF HandlerEdit, HandlerAt
<1>8. CASE HandlerOpen(m) \/ HandlerCreate(m)
  <2>1. hpc[m] \in {"open", "create"} /\ fname' = fname /\ ~(Usable(R) /\ CanSave(R))
    BY <1>1, <1>8 DEF HandlerOpen, HandlerCreate, HandlerAt, Close, Undefined
  <2>2. Usable(R) /\ streams[fp[R]].name = fname[R]
    BY <1>5, <2>1
  <2>3. fname[R] \in Names
    BY <1>1, <2>2, OpenFile DEF Usable
  <2> QED
    BY <1>1, <2>1, <2>2, <2>3 DEF CanSave
<1>9. CASE HandlerCompile(m)
  BY <1>1, <1>5, <1>9 DEF HandlerCompile, HandlerAt
<1>10. CASE HandlerBuilds(m)
  <2>1. Waiting(m) /\ hpc[m] # "compile"
    BY <1>1, <1>10, BuildQuiet DEF Waiting
  <2> QED
    BY <1>3, <2>1 DEF BuildsUnderway
<1>11. CASE Enter(m) \/ HandlerFresh(m) \/ HandlerRow(m) \/ \E c, n : HandlerRead(m, c, n)
  BY <1>1, <1>11 DEF Enter, HandlerFresh, HandlerRow, HandlerRead
<1>12. CASE HandlerRefuseOpen(m) \/ HandlerReopen(m) \/ HandlerRefuseCreate(m)
            \/ HandlerAbsent(m) \/ HandlerMake(m) \/ HandlerInsert(m)
  BY <1>1, <1>12 DEF HandlerRefuseOpen, HandlerReopen, HandlerRefuseCreate, HandlerAbsent,
       HandlerMake, HandlerInsert
<1> QED
  BY <1>6, <1>7, <1>8, <1>9, <1>10, <1>11, <1>12, ActsCases

-----------------------------------------------------------------------------
(* The invariant, and what follows from it.                                *)
LEMMA InitIInv == Init => IInv
<1> SUFFICES ASSUME Init
             PROVE  IInv
  OBVIOUS
<1> USE RoomFileAssumption DEF RoomFileAssumption
<1>1. TypeOK
  <2>1. FilesOK
    <3>1. streams = <<>> /\ Len(streams) = 0 /\ fp = [r \in Rooms |-> 0]
      BY EmptySeq DEF Init, NULL
    <3>2. streams \in Seq([name : Names, room : Rooms, open : BOOLEAN])
      BY <3>1
    <3>3. fp \in [Rooms -> 0 .. Len(streams)] /\ \A r \in Rooms : fp[r] = NULL
      BY <3>1 DEF NULL
    <3>4. disk \in [Names -> Seq(Chars) \cup {None}]
          /\ backup \in [Names -> Seq(Chars) \cup {None}]
      BY DEF Init
    <3>5. fname \in [Rooms -> Names \cup {None}] /\ rows \subseteq Rooms \X Names
          /\ marks \in [Rooms -> SUBSET Marks]
      BY DEF Init
    <3> QED
      BY <3>2, <3>3, <3>4, <3>5 DEF FilesOK
  <2>2. BuildsOK
    <3>1. builds = <<>> /\ Len(builds) = 0 /\ outputs = <<>> /\ Len(outputs) = 0
      BY EmptySeq DEF Init
    <3>2. builds \in Seq(Seq(Chars) \cup {None}) /\ outputs \in Seq(0 .. Len(builds))
      BY <3>1
    <3> QED
      BY <3>1, <3>2 DEF Init, BuildsOK, NULL, Empty, Unanswered
  <2>3. ThreadsOK
    <3>1. <<>> \in Seq(Chars)
      OBVIOUS
    <3>2. shown \in [Members -> Seq(Chars)]
      BY <3>1 DEF Init
    <3> QED
      BY <3>2 DEF Init, ThreadsOK
  <2> QED
    BY <2>1, <2>2, <2>3 DEF TypeOK
<1>2. DOMAIN streams = {} /\ \A r \in Rooms : ~Usable(r)
  <2>1. streams = <<>> /\ \A r \in Rooms : fp[r] = NULL
    BY DEF Init
  <2> QED
    BY <2>1 DEF Usable
<1>3. \A k \in Members : /\ hpc[k] = "away" /\ answer[k] = Unanswered /\ shown[k] = <<>>
                         /\ RoomOf[k] \in Rooms
  BY DEF Init
<1>4. \A r \in Rooms : fp[r] = NULL /\ fname[r] = None
  BY DEF Init
<1>5. status = "up"
  BY DEF Init
<1>6. Named /\ OneAtATime /\ ClosedBetween /\ NameMatches
  BY <1>2, <1>3 DEF Named, OneAtATime, Busy, ClosedBetween, NameMatches
<1>7. FileReady /\ OneStream /\ BackedUp /\ SharedIsMarked
  BY <1>2, <1>3, <1>4 DEF FileReady, OneStream, BackedUp, SharedIsMarked
<1>8. ShownFollows /\ BuildsUnderway /\ BuildsApart
  BY <1>2, <1>3 DEF ShownFollows, BuildsUnderway, Waiting, BuildsApart, Building
<1>9. AnswersFresh /\ UndefinedHasCause
  BY <1>3, <1>5 DEF AnswersFresh, UndefinedHasCause
<1> QED
  BY <1>1, <1>6, <1>7, <1>8, <1>9 DEF IInv

LEMMA StepIInv == IInv /\ [Next]_vars => IInv'
<1> SUFFICES ASSUME IInv, [Next]_vars
             PROVE  IInv'
  OBVIOUS
<1>1. CASE UNCHANGED vars
  <2>1. /\ UNCHANGED <<status, disk, backup, streams, fp, fname, rows, builds, aout>>
        /\ UNCHANGED <<outputs, errRedir, resRedir, redir, mine, answer, mixed>>
        /\ UNCHANGED <<hpc, arg, shown, budget, failures, marks>>
    BY <1>1 DEF vars, diskVars, roomVars, buildVars, fileVars, boundVars
  <2>2. TypeOK'
    BY <2>1 DEF IInv, TypeOK, FilesOK, BuildsOK, ThreadsOK
  <2>3. Named' /\ OneAtATime' /\ ClosedBetween' /\ NameMatches'
    BY <2>1 DEF IInv, Named, OneAtATime, ClosedBetween, NameMatches, Busy, Without, Usable,
         Creating
  <2>4. FileReady' /\ OneStream' /\ BackedUp' /\ SharedIsMarked'
    BY <2>1 DEF IInv, FileReady, OneStream, BackedUp, SharedIsMarked, Without, Usable, Between
  <2>5. ShownFollows'
    BY <2>1 DEF IInv, ShownFollows, Without, Usable, Changing, Between, Inside, Content
  <2>6. BuildsUnderway' /\ BuildsApart' /\ AnswersFresh' /\ UndefinedHasCause'
    BY <2>1 DEF IInv, BuildsUnderway, BuildsApart, AnswersFresh, UndefinedHasCause, Waiting,
         Building, Builds
  <2> QED
    BY <2>2, <2>3, <2>4, <2>5, <2>6 DEF IInv
<1>2. CASE Next
  <2>1. PICK m \in Members : Acts(m)
    BY <1>2 DEF Next, Acts
  <2>2. /\ TypeOK /\ Named /\ OneAtATime /\ ClosedBetween /\ NameMatches /\ FileReady
        /\ OneStream /\ BackedUp /\ SharedIsMarked /\ ShownFollows /\ BuildsUnderway
        /\ BuildsApart /\ AnswersFresh
    BY DEF IInv
  <2>3. TypeOK' /\ Named' /\ OneAtATime' /\ ClosedBetween'
    BY <2>1, <2>2, TypesStep, NamedStep, OneAtATimeStep, ClosedBetweenStep
  <2>4. NameMatches' /\ FileReady' /\ OneStream' /\ BackedUp'
    BY <2>1, <2>2, NameMatchesStep, FileReadyStep, OneStreamStep, BackedUpStep
  <2>5. SharedIsMarked' /\ ShownFollows'
    BY <2>1, <2>2, SharedIsMarkedStep, ShownFollowsStep
  <2>6. BuildsUnderway' /\ BuildsApart' /\ AnswersFresh' /\ UndefinedHasCause'
    BY <2>1, <2>2, BuildsUnderwayStep, BuildsApartStep, AnswersFreshStep,
       UndefinedHasCauseStep
  <2> QED
    BY <2>3, <2>4, <2>5, <2>6 DEF IInv
<1> QED
  BY <1>1, <1>2

\* In every behaviour, for any rooms, members, files and texts, the inductive
\* invariant holds: it is what the code keeps true of a room's FILE, its name, its
\* copies and the common files of the compilations between any two steps.
THEOREM Invariance == Spec => []IInv
<1>1. Init => IInv
  BY InitIInv
<1>2. IInv /\ [Next]_vars => IInv'
  BY StepIInv
<1> QED
  BY <1>1, <1>2, PTL DEF Spec

\* Every variable keeps to its type; fp is NULL or one of the FILEs that were
\* opened for its own room.
THEOREM TypeCorrect == Spec => []TypeOK
<1>1. IInv => TypeOK
  BY DEF IInv
<1> QED
  BY <1>1, Invariance, PTL

\* What a settled room is: nobody is at work in it.
LEMMA SettledIsIdle ==
  ASSUME NEW r \in Rooms, Settled(r)
  PROVE  ~Between(r) /\ ~Creating(r) /\ ~Changing(r)
         /\ \A k \in Inside(r) : hpc[k] # "load"
<1>1. \A k \in Members : RoomOf[k] = r => hpc[k] = "away" \/ ~Busy(k)
  BY DEF Settled, Inside
<1>2. \A k \in Members : RoomOf[k] = r => hpc[k] \in {"away", "read", "returned"}
  BY <1>1 DEF Busy
<1> QED
  BY <1>2 DEF Between, Creating, Changing, Inside

\* Between commands fp is open on the file that fname names, unless a compile, a
\* refusal, a failed call or two commands at once have come between them.
THEOREM FileKept == Spec => []FileMatchesName
<1>1. IInv => FileMatchesName
  <2> SUFFICES ASSUME IInv, NEW r \in Rooms, Settled(r),
                      marks[r] \cap {"overlap", "compiled", "refused", "failed"} = {}
               PROVE  Usable(r) /\ streams[fp[r]].name = fname[r]
    BY DEF FileMatchesName
  <2>1. /\ Without(r, {"overlap", "compiled", "refused", "failed"})
        /\ Without(r, {"overlap", "failed"})
    BY DEF Without
  <2>2. ~Between(r) /\ ~Creating(r) /\ fname[r] # None
    BY SettledIsIdle DEF Settled
  <2>3. Usable(r)
    BY <2>1, <2>2 DEF IInv, FileReady
  <2> QED
    BY <2>1, <2>2, <2>3 DEF IInv, NameMatches
<1> QED
  BY <1>1, Invariance, PTL

\* Between commands no FILE is open but those that fp points to: none is lost, not
\* even on the error paths.
THEOREM StreamsKept == Spec => []NoStreamLeak
<1>1. IInv => NoStreamLeak
  <2> SUFFICES ASSUME IInv, NEW i \in DOMAIN streams, streams[i].open,
                      marks[streams[i].room] \cap {"overlap", "four"} = {}
               PROVE  fp[streams[i].room] = i
    BY DEF NoStreamLeak
  <2>1. streams[i].room \in Rooms
    BY StreamNames DEF IInv, TypeOK, FilesOK, Streams
  <2> QED
    BY <2>1 DEF IInv, OneStream, Without
<1> QED
  BY <1>1, Invariance, PTL

\* A file that was open and is so no more has its last text in BACKUP under its own
\* name, unless a compile, an overlap, a failed call or descriptor 4 interfered.
THEOREM BackupKept == Spec => []BackupCurrent
<1>1. IInv => BackupCurrent
  BY DEF IInv, BackedUp, BackupCurrent, Without
<1> QED
  BY <1>1, Invariance, PTL

\* Between commands every member's edit box has the text of the open file, unless
\* one of the listed events has come between them.
THEOREM ScreensKept == Spec => []ShownIsOpen
<1>1. IInv => ShownIsOpen
  <2> SUFFICES ASSUME IInv, NEW r \in Rooms, Settled(r),
                      Without(r, {"overlap", "compiled", "refused", "failed",
                                  "four", "shared", "short"}),
                      NEW k \in Inside(r)
               PROVE  shown[k] = Content(r)
    BY DEF ShownIsOpen, Without
  <2>1. Without(r, {"overlap", "compiled", "refused", "failed"})
    BY DEF Without
  <2>2. ~Between(r) /\ ~Changing(r) /\ fname[r] # None /\ hpc[k] # "load"
    BY SettledIsIdle DEF Settled
  <2>3. Usable(r)
    BY <2>1, <2>2 DEF IInv, FileReady
  <2> QED
    BY <2>2, <2>3 DEF IInv, ShownFollows
<1> QED
  BY <1>1, Invariance, PTL

\* A member that asked for a compilation is told how its own build ended, unless the
\* build met another one; what earlier builds have left in the common files, in any
\* room and however they were mixed, it is not told.
THEOREM AnswersKept == Spec => []AnswersFresh
<1>1. IInv => AnswersFresh
  BY DEF IInv
<1> QED
  BY <1>1, Invariance, PTL

\* No order of successful opens, creates, edits and entries, one at a time, makes
\* the server use a FILE that is closed or NULL.
THEOREM CausesKnown == Spec => []UndefinedHasCause
<1>1. IInv => UndefinedHasCause
  BY DEF IInv
<1> QED
  BY <1>1, Invariance, PTL

=============================================================================

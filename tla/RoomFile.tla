------------------------------ MODULE RoomFile ------------------------------
(***************************************************************************)
(* Which file a room has open: the FILE pointer and the name that rooms[r] *)
(* keeps, through entering, FM_OPEN, FM_CREATE, FM_MODIFIED and FM_COMPILE *)
(* (filemodule.c, blackboard.c:144-178).  The rooms share the working      *)
(* directory: the files, BACKUP/, errRedir.txt, resRedir.txt and a.out.    *)
(*                                                                         *)
(* No lock is held.  A step is one call that another thread can see, or a  *)
(* few that only it can.  SharedFile has the offset of the FILE and the    *)
(* right to modify; here an edit is that of a member that holds the right. *)
(***************************************************************************)
EXTENDS Integers, Sequences, FiniteSets, Functions

CONSTANTS
  Members, Rooms,
  RoomOf,       \* the room that a member enters
  Names,        \* names of files in the working directory
  OwnName,      \* "<r>.c", the name that a room's first file gets
  NotC,         \* those of Names that do not contain ".c"
  Chars, NewLine,
  Texts,        \* what a member may leave in its edit box
  Compilable,   \* the texts that gcc compiles without a message
  Kept,         \* the files that an earlier run of the server has left
  None,         \* no file, no name
  Four,         \* the client whose descriptor is 4, if one of Members has it
  Openable,     \* the names that members ask to open,
  Creatable,    \* and to create
  Budgets,      \* how many commands each member sends in a behaviour
  MaxFailures   \* how many fopen()s and queries fail in a behaviour

ASSUME RoomFileAssumption ==
  /\ RoomOf \in [Members -> Rooms]
  /\ OwnName \in [Rooms -> Names] /\ IsInjective(OwnName)
  /\ NotC \subseteq Names /\ None \notin Names \cup Members
  /\ NewLine \in Chars /\ Texts \subseteq Seq(Chars)
  /\ Kept \in [Names -> Seq(Chars) \cup {None}]
  /\ Openable \subseteq Names /\ Creatable \subseteq Names
  /\ Budgets \subseteq [Members -> Nat] /\ MaxFailures \in Nat

NULL == 0
Empty == 0
Unanswered == -1

VARIABLES
  status,               \* "undefined": C says no more what the server does
  disk, backup,         \* the files in the directory and in BACKUP/
  streams,              \* every FILE that fopen() has returned, by number
  fp, fname,            \* of rooms[r]; a name is None when its first byte is 0
  rows,                 \* the table `file`: room number and path
  builds,               \* the texts that gcc was given, in order
  aout,                 \* the build that a.out is from, or Empty: none yet
  outputs,              \* every file that a shell has made for the messages of
                        \* gcc or of a.out: the build they are from, or Empty
  errRedir, resRedir,   \* the two that have a name now, or NULL
  redir,                \* the one that a thread, or its gcc or a.out, has open
  hpc, arg,             \* socket_handler: pc, and the file its command names
  shown,                \* the text that a member has in its edit box
  mine, answer,         \* its last build; the build it has been told about
  budget, failures,     \* commands left, and calls that have failed
  marks,                \* history: what has happened in a room
  mixed                 \* history: members whose last build met another one

diskVars == <<disk, backup>>
roomVars == <<streams, fp, fname>>
fileVars == <<outputs, errRedir, resRedir, redir>>
buildVars == <<builds, aout, fileVars, mine, answer, mixed>>
boundVars == <<budget, failures>>
vars == <<status, diskVars, roomVars, rows, buildVars, hpc, arg, shown,
          boundVars, marks>>

Marks == {"overlap", "compiled", "refused", "failed", "four", "shared",
          "short"}

Marked(ms, rs, mark) ==
  [r \in Rooms |-> IF r \in rs THEN ms[r] \cup {mark} ELSE ms[r]]

HandlerAt(m, pc) == status = "up" /\ hpc[m] = pc

Go(m, pc) == hpc' = [hpc EXCEPT ![m] = pc]

\* The thread goes back to read(); what its command named is forgotten.
Done(m) == Go(m, "read") /\ arg' = [arg EXCEPT ![m] = None]

Busy(m) == hpc[m] \notin {"away", "read", "returned"}

Inside(r) == {m \in Members : RoomOf[m] = r /\ hpc[m] # "away"}

\* Room r may use its fp.
Usable(r) == fp[r] # NULL /\ streams[fp[r]].open

Content(r) == disk[streams[fp[r]].name]

\* The rooms that have file n open.
Holders(n) == {r \in Rooms : Usable(r) /\ streams[fp[r]].name = n}

\* C says nothing of a call on a FILE that is closed, or on NULL.
Undefined ==
  /\ status' = "undefined"
  /\ UNCHANGED <<diskVars, roomVars, rows, buildVars, hpc, arg, shown, boundVars,
                 marks>>

Fails == failures < MaxFailures /\ failures' = failures + 1

\* Room r opens file n.
OpenStream(r, n) ==
  /\ streams' = Append(streams, [name |-> n, room |-> r, open |-> TRUE])
  /\ fp' = [fp EXCEPT ![r] = Len(streams')]
  /\ marks' = LET others == Holders(n) \ {r} IN
                Marked(marks, IF others = {} THEN {} ELSE others \cup {r}, "shared")

OpenFails(r) ==
  /\ Fails
  /\ fp' = [fp EXCEPT ![r] = NULL]
  /\ marks' = Marked(marks, {r}, "failed")
  /\ UNCHANGED streams

-----------------------------------------------------------------------------
(***************************************************************************)
(* FileSave().  Its loop tests feof() before fgets(): after a last line    *)
(* that is ended, one more fgets() finds the end of the file, leaves the   *)
(* buffer alone, and the line is written again.                            *)
(*                                                                         *)
(* A definition that ends in _Fault is a plausible bug of the definition   *)
(* that follows it; the project substitutes it to see which property       *)
(* notices.  No action uses one.                                           *)
(***************************************************************************)
LastLine(t) ==
  LET starts == {1} \cup {i + 1 : i \in {j \in 1 .. Len(t) - 1 : t[j] = NewLine}}
      last == CHOOSE i \in starts : \A j \in starts : j <= i
  IN  SubSeq(t, last, Len(t))

Copy(t) == IF t[Len(t)] = NewLine THEN t \o LastLine(t) ELSE t

\* A name without ".c" makes strstr() return NULL, which strcpy() writes to.
CanSave(r) == Content(r) = <<>> \/ fname[r] \in Names \ NotC

FileSave_Fault(r) ==
  backup' = IF Content(r) = <<>> THEN backup
            ELSE [backup EXCEPT ![OwnName[r]] = Copy(Content(r))]

FileSave(r) ==
  backup' = IF Content(r) = <<>> THEN backup
            ELSE [backup EXCEPT ![fname[r]] = Copy(Content(r))]

ClosedStreams_Fault(r) == streams

ClosedStreams(r) == [streams EXCEPT ![fp[r]].open = FALSE]

\* What FM_OPEN and FM_CREATE do first.  The room's fp keeps its value.
Close(m, next) ==
  LET r == RoomOf[m] IN
  \/ /\ fp[r] = NULL
     /\ Go(m, next)
     /\ UNCHANGED <<status, diskVars, roomVars, rows, buildVars, arg, shown,
                    boundVars, marks>>
  \/ /\ Usable(r) /\ CanSave(r)
     /\ FileSave(r)
     /\ streams' = ClosedStreams(r)
     /\ Go(m, next)
     /\ UNCHANGED <<status, disk, fp, fname, rows, buildVars, arg, shown,
                    boundVars, marks>>
  \/ /\ fp[r] # NULL /\ ~(Usable(r) /\ CanSave(r))
     /\ Undefined

\* TransFileData(): the open file goes to some members.
Transfer(m, audience) ==
  LET r == RoomOf[m] IN
  \/ /\ Usable(r)
     /\ shown' = [c \in Members |-> IF c \in audience THEN Content(r) ELSE shown[c]]
     /\ Done(m)
     /\ UNCHANGED <<status, diskVars, roomVars, rows, buildVars, boundVars, marks>>
  \/ ~Usable(r) /\ Undefined

-----------------------------------------------------------------------------
(* Entering.                                                               *)
\* Two threads of one room use its fp and fname at the same time.
MarkOverlap(m) ==
  IF \E k \in Members \ {m} : RoomOf[k] = RoomOf[m] /\ Busy(k)
  THEN Marked(marks, {RoomOf[m]}, "overlap") ELSE marks

OpensOwnFile_Fault(m) == m = Four

OpensOwnFile(m) == m = Four \/ fp[RoomOf[m]] = NULL

Enter(m) ==
  /\ HandlerAt(m, "away")
  /\ LET r == RoomOf[m] IN
       /\ Go(m, IF OpensOwnFile(m) THEN "fresh" ELSE "load")
       /\ marks' = Marked(MarkOverlap(m),
                          IF m = Four /\ fp[r] # NULL THEN {r} ELSE {}, "four")
  /\ UNCHANGED <<status, diskVars, roomVars, rows, buildVars, arg, shown,
                 boundVars>>

HandlerFresh(m) ==
  /\ HandlerAt(m, "fresh")
  /\ LET r == RoomOf[m] IN
       /\ fname' = [fname EXCEPT ![r] = OwnName[r]]
       /\ \/ /\ OpenStream(r, OwnName[r])
             /\ disk' = [disk EXCEPT ![OwnName[r]] = <<>>]
             /\ UNCHANGED failures
          \/ OpenFails(r) /\ UNCHANGED disk
  /\ Go(m, "row")
  /\ UNCHANGED <<status, backup, rows, buildVars, arg, shown, budget>>

OnDisk(n) == n # None /\ disk[n] # None

RealPathFound_Fault(r) == TRUE

RealPathFound(r) == OnDisk(fname[r])

\* A failure ends the thread, with the file open and the member in the room.
HandlerRow(m) ==
  /\ HandlerAt(m, "row")
  /\ LET r == RoomOf[m] IN
       \/ /\ RealPathFound(r)
          /\ rows' = rows \cup {<<r, fname[r]>>}
          /\ Go(m, "read")
          /\ UNCHANGED failures
       \/ /\ (~RealPathFound(r) /\ UNCHANGED failures) \/ Fails
          /\ Go(m, "returned")
          /\ UNCHANGED rows
  /\ UNCHANGED <<status, diskVars, roomVars, buildVars, arg, shown, budget,
                 marks>>

HandlerLoad(m) == HandlerAt(m, "load") /\ Transfer(m, {m})

-----------------------------------------------------------------------------
(* Reading a command.                                                      *)
HandlerRead(m, command, n) ==
  /\ HandlerAt(m, "read")
  /\ budget[m] > 0
  /\ budget' = [budget EXCEPT ![m] = @ - 1]
  /\ arg' = [arg EXCEPT ![m] = n]
  /\ answer' = [answer EXCEPT ![m] = Unanswered]
  /\ marks' = MarkOverlap(m)
  /\ Go(m, command)
  /\ UNCHANGED <<status, diskVars, roomVars, rows, builds, aout, fileVars, mine,
                 mixed, shown, failures>>

\* FMmodified(): the others are sent the text, and it is written from the
\* beginning of the file.  With fp NULL it goes no further than the author.
Overwrite(t, old) == t \o SubSeq(old, Len(t) + 1, Len(old))

HandlerEdit(m, t) ==
  /\ HandlerAt(m, "read")
  /\ budget[m] > 0
  /\ LET r == RoomOf[m] IN
     \/ /\ fp[r] = NULL \/ Usable(r)
        /\ budget' = [budget EXCEPT ![m] = @ - 1]
        /\ disk' = IF fp[r] = NULL THEN disk
                   ELSE [disk EXCEPT ![streams[fp[r]].name] = Overwrite(t, @)]
        /\ shown' = [c \in Members |->
             IF c = m \/ (fp[r] # NULL /\ c \in Inside(r)) THEN t ELSE shown[c]]
        /\ marks' = Marked(MarkOverlap(m),
             IF fp[r] # NULL /\ Len(t) < Len(Content(r)) THEN {r} ELSE {}, "short")
        /\ UNCHANGED <<status, backup, roomVars, rows, buildVars, hpc, arg,
                       failures>>
     \/ /\ fp[r] # NULL /\ ~Usable(r)
        /\ status' = "undefined"
        /\ marks' = MarkOverlap(m)
        /\ UNCHANGED <<diskVars, roomVars, rows, buildVars, hpc, arg, shown,
                       boundVars>>

-----------------------------------------------------------------------------
(* FM_OPEN.                                                                *)
HandlerOpen(m) == HandlerAt(m, "open") /\ Close(m, "access")

HandlerRefuseOpen(m) ==
  /\ HandlerAt(m, "access")
  /\ ~OnDisk(arg[m])
  /\ fname' = [fname EXCEPT ![RoomOf[m]] = None]
  /\ marks' = Marked(marks, {RoomOf[m]}, "refused")
  /\ Done(m)
  /\ UNCHANGED <<status, diskVars, streams, fp, rows, buildVars, shown, boundVars>>

NameAfterOpen_Fault(m) == fname[RoomOf[m]]

NameAfterOpen(m) == arg[m]

HandlerReopen(m) ==
  /\ HandlerAt(m, "access")
  /\ OnDisk(arg[m])
  /\ fname' = [fname EXCEPT ![RoomOf[m]] = NameAfterOpen(m)]
  /\ \/ OpenStream(RoomOf[m], arg[m]) /\ UNCHANGED failures
     \/ OpenFails(RoomOf[m])
  /\ Go(m, "transfer")
  /\ UNCHANGED <<status, diskVars, rows, buildVars, arg, shown, budget>>

Audience_Fault(m) == {m}

Audience(m) == Inside(RoomOf[m])

HandlerTransfer(m) == HandlerAt(m, "transfer") /\ Transfer(m, Audience(m))

-----------------------------------------------------------------------------
(* FM_CREATE.                                                              *)
HandlerCreate(m) == HandlerAt(m, "create") /\ Close(m, "exists")

HandlerRefuseCreate(m) ==
  /\ HandlerAt(m, "exists")
  /\ OnDisk(arg[m])
  /\ marks' = Marked(marks, {RoomOf[m]}, "refused")
  /\ Done(m)
  /\ UNCHANGED <<status, diskVars, roomVars, rows, buildVars, shown, boundVars>>

HandlerAbsent(m) ==
  /\ HandlerAt(m, "exists")
  /\ ~OnDisk(arg[m])
  /\ Go(m, "make")
  /\ UNCHANGED <<status, diskVars, roomVars, rows, buildVars, arg, shown,
                 boundVars, marks>>

HandlerMake(m) ==
  /\ HandlerAt(m, "make")
  /\ LET r == RoomOf[m] IN
       \/ /\ OpenStream(r, arg[m])
          /\ disk' = [disk EXCEPT ![arg[m]] = <<>>]
          /\ Go(m, "insert")
          /\ UNCHANGED <<arg, failures>>
       \/ OpenFails(r) /\ Done(m) /\ UNCHANGED disk
  /\ UNCHANGED <<status, backup, fname, rows, buildVars, shown, budget>>

\* The path stored is that of fname, which still names the file before.
HandlerInsert(m) ==
  /\ HandlerAt(m, "insert")
  /\ LET r == RoomOf[m] IN
       \/ /\ RealPathFound(r)
          /\ rows' = rows \cup {<<r, fname[r]>>}
          /\ fname' = [fname EXCEPT ![r] = arg[m]]
          /\ Go(m, "transfer")
          /\ UNCHANGED <<arg, failures, marks>>
       \/ /\ (~RealPathFound(r) /\ UNCHANGED failures) \/ Fails
          /\ marks' = Marked(marks, {r}, "failed")
          /\ Done(m)
          /\ UNCHANGED <<rows, fname>>
  /\ UNCHANGED <<status, diskVars, streams, fp, buildVars, shown, budget>>

-----------------------------------------------------------------------------
(* FM_COMPILE.  The client sends "8" and nothing else: always gcc.         *)
HandlerCompile(m) ==
  /\ HandlerAt(m, "compile")
  /\ LET r == RoomOf[m] IN
     \/ /\ fp[r] = NULL \/ Usable(r)
        /\ streams' = IF fp[r] = NULL THEN streams ELSE ClosedStreams(r)
        /\ marks' = Marked(marks, {r}, "compiled")
        /\ Go(m, "system")
        /\ UNCHANGED <<status, diskVars, fp, fname, rows, buildVars, arg, shown,
                       boundVars>>
     \/ fp[r] # NULL /\ ~Usable(r) /\ Undefined

Building(m) ==
  hpc[m] \in {"gcc", "errors", "report", "discard", "run", "exec", "result", "clean"}

\* The shell of system() opens the file for the messages of its program: it makes
\* the file, or empties the one that is there.
Redirected(m, file) ==
  LET target == IF file = NULL THEN Len(outputs) + 1 ELSE file IN
    /\ outputs' = IF file = NULL THEN Append(outputs, Empty)
                                 ELSE [outputs EXCEPT ![file] = Empty]
    /\ redir' = [redir EXCEPT ![m] = target]

\* A program ends, or a thread closes what it has read.
Ended(m) == redir' = [redir EXCEPT ![m] = NULL]

\* gcc <fname> 2> errRedir.txt: the shell, and then gcc.
HandlerSystem(m) ==
  /\ HandlerAt(m, "system")
  /\ Redirected(m, errRedir)
  /\ errRedir' = redir'[m]
  /\ mixed' = LET others == {k \in Members \ {m} : Building(k)} IN
                IF others = {} THEN mixed \ {m} ELSE mixed \cup others \cup {m}
  /\ Go(m, "gcc")
  /\ UNCHANGED <<status, diskVars, roomVars, rows, builds, aout, resRedir, mine,
                 answer, arg, shown, boundVars, marks>>

\* gcc leaves a.out alone when it complains, as it does of a file that is not there
\* or is no C file, and writes no message when it does not.
HandlerGcc(m) ==
  /\ HandlerAt(m, "gcc")
  /\ LET n == fname[RoomOf[m]]
         text == IF OnDisk(n) /\ n \notin NotC THEN disk[n] ELSE None
     IN
       /\ builds' = Append(builds, text)
       /\ mine' = [mine EXCEPT ![m] = Len(builds')]
       /\ \/ /\ text \in Compilable
             /\ aout' = Len(builds')
             /\ UNCHANGED outputs
          \/ /\ text \notin Compilable
             /\ outputs' = [outputs EXCEPT ![redir[m]] = Len(builds')]
             /\ UNCHANGED aout
  /\ Ended(m)
  /\ Go(m, "errors")
  /\ UNCHANGED <<status, diskVars, roomVars, rows, errRedir, resRedir, answer,
                 mixed, arg, shown, boundVars, marks>>

ErrorsSent_Fault == FALSE

\* errRedir.txt is not empty.
ErrorsSent == outputs[errRedir] # Empty

\* fopen(), which may find no file, and ftell().
HandlerErrors(m) ==
  /\ HandlerAt(m, "errors")
  /\ \/ /\ errRedir # NULL
        /\ \/ /\ ErrorsSent
              /\ redir' = [redir EXCEPT ![m] = errRedir]
              /\ Go(m, "report")
           \/ ~ErrorsSent /\ Ended(m) /\ Go(m, "run")
        /\ UNCHANGED <<status, diskVars, roomVars, rows, builds, aout, outputs,
                       errRedir, resRedir, mine, answer, mixed, arg, shown,
                       boundVars, marks>>
     \/ errRedir = NULL /\ Undefined

\* What a thread reads from the file it has open, or opens, goes to its client.
Answered(m, file) == answer' = [answer EXCEPT ![m] = outputs[file]]

HandlerReport(m) ==
  /\ HandlerAt(m, "report")
  /\ Answered(m, redir[m])
  /\ Ended(m)
  /\ Go(m, "discard")
  /\ UNCHANGED <<status, diskVars, roomVars, rows, builds, aout, outputs, errRedir,
                 resRedir, mine, mixed, arg, shown, boundVars, marks>>

\* remove("errRedir.txt"): the name goes, whichever build the file is from.
HandlerDiscard(m) ==
  /\ HandlerAt(m, "discard")
  /\ errRedir' = NULL
  /\ Go(m, "read")
  /\ UNCHANGED <<status, diskVars, roomVars, rows, builds, aout, outputs, resRedir,
                 redir, mine, answer, mixed, arg, shown, boundVars, marks>>

\* ./a.out > resRedir.txt, of a program that ends: the shell, and then a.out.
HandlerRun(m) ==
  /\ HandlerAt(m, "run")
  /\ Redirected(m, resRedir)
  /\ resRedir' = redir'[m]
  /\ Go(m, "exec")
  /\ UNCHANGED <<status, diskVars, roomVars, rows, builds, aout, errRedir, mine,
                 answer, mixed, arg, shown, boundVars, marks>>

HandlerExec(m) ==
  /\ HandlerAt(m, "exec")
  /\ outputs' = [outputs EXCEPT ![redir[m]] = aout]
  /\ Ended(m)
  /\ Go(m, "result")
  /\ UNCHANGED <<status, diskVars, roomVars, rows, builds, aout, errRedir,
                 resRedir, mine, answer, mixed, arg, shown, boundVars, marks>>

HandlerResult(m) ==
  /\ HandlerAt(m, "result")
  /\ \/ /\ resRedir # NULL
        /\ Answered(m, resRedir)
        /\ Go(m, "clean")
        /\ UNCHANGED <<status, diskVars, roomVars, rows, builds, aout, fileVars,
                       mine, mixed, arg, shown, boundVars, marks>>
     \/ resRedir = NULL /\ Undefined

HandlerClean(m) ==
  /\ HandlerAt(m, "clean")
  /\ resRedir' = NULL
  /\ Go(m, "read")
  /\ UNCHANGED <<status, diskVars, roomVars, rows, builds, aout, outputs, errRedir,
                 redir, mine, answer, mixed, arg, shown, boundVars, marks>>

-----------------------------------------------------------------------------
Init ==
  /\ status = "up"
  /\ disk = Kept
  /\ backup = [n \in Names |-> None]
  /\ streams = <<>>
  /\ fp = [r \in Rooms |-> NULL]
  /\ fname = [r \in Rooms |-> None]
  /\ rows = {}
  /\ builds = <<>> /\ aout = Empty
  /\ outputs = <<>> /\ errRedir = NULL /\ resRedir = NULL
  /\ redir = [m \in Members |-> NULL]
  /\ hpc = [m \in Members |-> "away"]
  /\ arg = [m \in Members |-> None]
  /\ shown = [m \in Members |-> <<>>]
  /\ mine = [m \in Members |-> 0]
  /\ answer = [m \in Members |-> Unanswered]
  /\ budget \in Budgets /\ failures = 0
  /\ marks = [r \in Rooms |-> {}] /\ mixed = {}

HandlerEnters(m) ==
  \/ Enter(m) \/ HandlerFresh(m) \/ HandlerRow(m) \/ HandlerLoad(m)

\* What the dialogs of the client send.
OpenWanted(m) == \E n \in Openable : HandlerRead(m, "open", n)

CreateWanted(m) == \E n \in Creatable : HandlerRead(m, "create", n)

CompileWanted(m) == HandlerRead(m, "compile", None)

HandlerCommanded(m) ==
  \/ OpenWanted(m) \/ CreateWanted(m) \/ CompileWanted(m)
  \/ \E t \in Texts : HandlerEdit(m, t)

HandlerOpens(m) ==
  HandlerOpen(m) \/ HandlerRefuseOpen(m) \/ HandlerReopen(m) \/ HandlerTransfer(m)

HandlerCreates(m) ==
  \/ HandlerCreate(m) \/ HandlerRefuseCreate(m) \/ HandlerAbsent(m)
  \/ HandlerMake(m) \/ HandlerInsert(m)

HandlerBuilds(m) ==
  \/ HandlerSystem(m) \/ HandlerGcc(m) \/ HandlerErrors(m)
  \/ HandlerReport(m) \/ HandlerDiscard(m)
  \/ HandlerRun(m) \/ HandlerExec(m) \/ HandlerResult(m) \/ HandlerClean(m)

HandlerCompiles(m) == HandlerCompile(m) \/ HandlerBuilds(m)

Next ==
  \E m \in Members :
    \/ HandlerEnters(m) \/ HandlerCommanded(m)
    \/ HandlerOpens(m) \/ HandlerCreates(m) \/ HandlerCompiles(m)

Spec == Init /\ [][Next]_vars

-----------------------------------------------------------------------------
(* Properties.                                                             *)

\* Every variable keeps to the values the code can store in it; fp is NULL or
\* one of the FILEs that were opened for the room.
FilesOK ==
  /\ disk \in [Names -> Seq(Chars) \cup {None}]
  /\ backup \in [Names -> Seq(Chars) \cup {None}]
  /\ streams \in Seq([name : Names, room : Rooms, open : BOOLEAN])
  /\ fp \in [Rooms -> 0 .. Len(streams)]
  /\ \A r \in Rooms : fp[r] # NULL => streams[fp[r]].room = r
  /\ fname \in [Rooms -> Names \cup {None}]
  /\ rows \subseteq Rooms \X Names
  /\ marks \in [Rooms -> SUBSET Marks]

BuildsOK ==
  /\ builds \in Seq(Seq(Chars) \cup {None})
  /\ aout \in 0 .. Len(builds)
  /\ outputs \in Seq(0 .. Len(builds))
  /\ errRedir \in 0 .. Len(outputs) /\ resRedir \in 0 .. Len(outputs)
  /\ redir \in [Members -> 0 .. Len(outputs)]
  /\ mine \in [Members -> 0 .. Len(builds)]
  /\ answer \in [Members -> -1 .. Len(builds)]
  /\ mixed \subseteq Members

ThreadsOK ==
  /\ status \in {"up", "undefined"}
  /\ hpc \in [Members -> {"away", "fresh", "row", "load", "read", "returned",
       "open", "access", "transfer", "create", "exists", "make", "insert",
       "compile", "system", "gcc", "errors", "report", "discard", "run", "exec",
       "result", "clean"}]
  /\ arg \in [Members -> Names \cup {None}]
  /\ shown \in [Members -> Seq(Chars)]
  /\ budget \in [Members -> Nat] /\ failures \in 0 .. MaxFailures

TypeOK == FilesOK /\ BuildsOK /\ ThreadsOK

\* Between commands, and once its first member has opened its file.
Settled(r) == status = "up" /\ fname[r] # None
                            /\ \A m \in Inside(r) : ~Busy(m)

\* Between commands fp is open on the file that fname names, unless a compile, a
\* refusal, a failed call or two commands at once have come between them.
FileMatchesName ==
  \A r \in Rooms :
    Settled(r) /\ marks[r] \cap {"overlap", "compiled", "refused", "failed"} = {}
      => Usable(r) /\ streams[fp[r]].name = fname[r]

\* Between commands no FILE is open but those that fp points to: none is lost,
\* not even on the error paths.
NoStreamLeak ==
  \A i \in DOMAIN streams :
    LET r == streams[i].room IN
      (streams[i].open /\ Settled(r) /\ marks[r] \cap {"overlap", "four"} = {})
        => fp[r] = i

\* A file that was open and is so no more has its last text in BACKUP, under its
\* own name, wherever it was edited and by whom it was closed.
BackupCurrent ==
  (status = "up" /\ \A r \in Rooms :
     marks[r] \cap {"overlap", "compiled", "failed", "four"} = {}) =>
    \A i \in DOMAIN streams :
      LET n == streams[i].name IN
        (disk[n] # <<>> /\ \A j \in DOMAIN streams : streams[j].name = n
                                                  => ~streams[j].open)
          => backup[n] = Copy(disk[n])

\* Between commands every member has in its edit box what the open file holds.
ShownIsOpen ==
  \A r \in Rooms :
    Settled(r) /\ marks[r] \cap {"overlap", "compiled", "refused", "failed",
                                 "four", "shared", "short"} = {}
      => \A m \in Inside(r) : shown[m] = Content(r)

\* A member that asked for a compilation is told how its own build ended.  The rooms
\* have errRedir.txt, resRedir.txt and a.out in common, so this is of a build that
\* met no other between the start of its shell and its last remove(); but whatever
\* builds before it have left in the three, mixed or not, it is never told.
AnswersFresh ==
  \A m \in Members \ mixed : answer[m] # Unanswered => answer[m] = mine[m]

\* A closed or NULL FILE is used only after two commands at once, a compile, a
\* refusal, a failed call, or a name that FileSave() cannot handle: no order of
\* successful opens, creates, edits and entries reaches one.
UndefinedHasCause ==
  status = "undefined" =>
    \E r \in Rooms :
      \/ marks[r] \cap {"overlap", "compiled", "refused", "failed"} # {}
      \/ fname[r] \in NotC

\* What the comments "if the file is open" of FileModule() say of its tests
\* fp != NULL (filemodule.c:13, 24).
NonNullIsOpen ==
  \A r \in Rooms :
    (status = "up" /\ fp[r] # NULL /\ \A m \in Inside(r) : ~Busy(m))
      => streams[fp[r]].open

=============================================================================

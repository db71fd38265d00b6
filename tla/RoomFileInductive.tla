-------------------------- MODULE RoomFileInductive --------------------------
(* The inductive invariant behind the theorems of RoomFileProofs.          *)
EXTENDS RoomFile

\* None of these things has happened in room r.
Without(r, causes) == marks[r] \cap causes = {}

\* The names that the threads, the FILEs and the rooms hold are those of files.
Named ==
  /\ \A m \in Members :
       hpc[m] \in {"open", "access", "create", "exists", "make", "insert"}
         => arg[m] \in Names
  /\ \A i \in DOMAIN streams : disk[streams[i].name] \in Seq(Chars)

\* Two commands of one room at once are an overlap.
OneAtATime ==
  \A m, k \in Members :
    (RoomOf[m] = RoomOf[k] /\ Busy(m) /\ Busy(k) /\ Without(RoomOf[m], {"overlap"}))
      => m = k

\* A command that has closed the FILE leaves it closed until it opens the next.
ClosedBetween ==
  \A m \in Members :
    (hpc[m] \in {"access", "exists", "make"} /\ Without(RoomOf[m], {"overlap"}))
      => ~Usable(RoomOf[m])

\* fname names the file that is open, except for the time between the fopen() of
\* a create and its end.
Creating(r) == \E m \in Members : RoomOf[m] = r /\ hpc[m] = "insert"

NameMatches ==
  /\ \A r \in Rooms :
       (Usable(r) /\ ~Creating(r) /\ Without(r, {"overlap", "failed"}))
         => streams[fp[r]].name = fname[r]
  /\ \A m \in Members :
       (hpc[m] = "insert" /\ Without(RoomOf[m], {"overlap"}))
         => Usable(RoomOf[m]) /\ streams[fp[RoomOf[m]]].name = arg[m]

\* Once the first member is in, the file is open but for the time in which a
\* command changes it.
Between(r) ==
  \E m \in Members :
    RoomOf[m] = r /\ hpc[m] \in {"access", "exists", "make", "insert"}

FileReady ==
  \A r \in Rooms :
    Without(r, {"overlap", "compiled", "refused", "failed"}) =>
      IF fp[r] = NULL
      THEN /\ fname[r] = None
           /\ \A m \in Members : RoomOf[m] = r => hpc[m] \in {"away", "fresh"}
      ELSE ~Between(r) => Usable(r)

\* Every FILE that is open is the room's.
OneStream ==
  \A r \in Rooms :
    Without(r, {"overlap", "four"}) =>
      /\ \A i \in DOMAIN streams :
           streams[i].room = r /\ streams[i].open => fp[r] = i
      /\ \A m \in Members : RoomOf[m] = r /\ hpc[m] = "fresh" => fp[r] = NULL

\* BackupCurrent, also when the server has come to an undefined call.
BackedUp ==
  (\A r \in Rooms : Without(r, {"overlap", "compiled", "failed", "four"})) =>
    \A i \in DOMAIN streams :
      LET n == streams[i].name IN
        (disk[n] # <<>> /\ \A j \in DOMAIN streams : streams[j].name = n
                                                  => ~streams[j].open)
          => backup[n] = Copy(disk[n])

\* Rooms that have one file open are marked.
SharedIsMarked ==
  \A r, q \in Rooms :
    (r # q /\ Usable(r) /\ Usable(q) /\ streams[fp[r]].name = streams[fp[q]].name)
      => "shared" \in marks[r]

\* The edit boxes show the open file but for the time in which a command changes
\* it, or a member waits for its first copy.
Changing(r) ==
  Between(r) \/ \E m \in Members : RoomOf[m] = r /\ hpc[m] = "transfer"

ShownFollows ==
  /\ \A m \in Members :
       (hpc[m] = "away" \/ (hpc[m] = "fresh" /\ Without(RoomOf[m], {"overlap"})))
         => shown[m] = <<>>
  /\ \A r \in Rooms :
       (Usable(r) /\ ~Changing(r) /\ Without(r, {"overlap", "compiled", "refused",
                                         "failed", "four", "shared", "short"}))
         => \A m \in Inside(r) : hpc[m] # "load" => shown[m] = Content(r)

\* What a thread, or its program, writes to or has still to read is a file, and its
\* client is told nothing before it has been read.
Waiting(m) ==
  hpc[m] \in {"compile", "system", "gcc", "errors", "report", "run", "exec", "result"}

BuildsUnderway ==
  \A m \in Members :
    /\ hpc[m] \in {"gcc", "report", "exec"} => redir[m] # NULL
    /\ Waiting(m) => answer[m] = Unanswered
    /\ Waiting(m) /\ hpc[m] # "compile" => "compiled" \in marks[RoomOf[m]]

Builds(b) == builds[b] \in Compilable

\* A build that met no other has the common files to itself, and has them as it and
\* its programs have left them.
BuildsApart ==
  \A m \in Members \ mixed :
    Building(m) =>
      /\ \A k \in Members \ {m} : ~Building(k)
      /\ hpc[m] = "gcc" => redir[m] = errRedir /\ outputs[errRedir] = Empty
      /\ hpc[m] # "gcc" => mine[m] # 0
      /\ hpc[m] = "errors" =>
           /\ errRedir # NULL
           /\ IF Builds(mine[m]) THEN outputs[errRedir] = Empty /\ aout = mine[m]
                                ELSE outputs[errRedir] = mine[m]
      /\ hpc[m] = "report" => outputs[redir[m]] = mine[m]
      /\ hpc[m] \in {"run", "exec"} => aout = mine[m]
      /\ hpc[m] = "exec" => redir[m] = resRedir
      /\ hpc[m] = "result" => resRedir # NULL /\ outputs[resRedir] = mine[m]

IInv ==
  /\ TypeOK /\ Named /\ OneAtATime
  /\ ClosedBetween /\ NameMatches /\ FileReady /\ OneStream
  /\ BackedUp /\ SharedIsMarked /\ ShownFollows
  /\ BuildsUnderway /\ BuildsApart /\ AnswersFresh
  /\ UndefinedHasCause

=============================================================================

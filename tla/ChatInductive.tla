--------------------------- MODULE ChatInductive ---------------------------
(* The inductive invariant behind the theorems of ChatProofs.              *)
EXTENDS Chat

\* The clients between their placement and the end of their thread.
Present == {m \in Members : hpc[m] \notin {"none", "exited"}}

\* Each of them is counted once, and has the slot that it was given.
Placed ==
  /\ count + 1 = Cardinality(Present)
  /\ \A m \in Members : net[m] = "none" <=> hpc[m] = "none"
  /\ \A m \in Present : clnt_socks[clnt_num[m]] = m
  /\ \A k \in Slots : clnt_socks[k] # None =>
       clnt_socks[k] \in Present /\ clnt_num[clnt_socks[k]] = k

\* While nobody leaves, the slots of those who are present are within the count.
StableInReach == stable => \A m \in Present : clnt_num[m] <= count

\* The lines of m that its thread has read, and the one that it handles.
Heard(m) == said[m] - Len(outbox[m])
Handles(m) == hpc[m] \in {"send", "store"}

\* What a client said is read in order: buf is the last line that was read, the
\* outbox has those after it.
LinesInOrder ==
  \A m \in Members :
    /\ Len(outbox[m]) <= said[m]
    /\ \A i \in 1 .. Len(outbox[m]) :
         outbox[m][i] = [from |-> m, n |-> Heard(m) + i]
    /\ Handles(m) => Heard(m) > 0 /\ buf[m] = [from |-> m, n |-> Heard(m)]

\* All that was read and is not handled is in the table, except for one line when
\* a failure has left the mutex locked.
HeardIsKept ==
  \A m \in Members : \E lost \in {0, 1} :
    /\ mutex = "free" => lost = 0
    /\ Heard(m) = Room!Kept(m) + lost + (IF Handles(m) THEN 1 ELSE 0)

\* A line that is being sent is shown live in the slots already visited only, and no
\* screen shows live a line that has not been read.
ScreensBehindLoop ==
  \A m \in Members : \A i \in DOMAIN screen[m] :
    LET line == screen[m][i].line IN
      screen[m][i].live =>
        /\ line.n <= Heard(line.from)
        /\ hpc[line.from] = "send" /\ line.n = Heard(line.from)
             => hpc[m] # "none" /\ clnt_num[m] < sd[line.from]

\* What a thread has still to send of the table follows what its client was sent.
ReplayInOrder ==
  \A m \in Members :
    /\ hpc[m] \in {"none", "placed", "query"} => Room!Replayed(m) = 0
    /\ net[m] = "open" /\ hpc[m] = "replay" =>
         /\ Room!Replayed(m) + Len(result[m]) <= Len(chat_tb)
         /\ \A i \in 1 .. Len(result[m]) :
              result[m][i] = chat_tb[Room!Replayed(m) + i]

\* A line that was replayed is one of the lines of the table that were replayed.
ReplayedIsKept ==
  \A m \in Members : \A i \in DOMAIN screen[m] :
    ~screen[m][i].live =>
      \E k \in DOMAIN chat_tb :
        k <= Room!Replayed(m) /\ chat_tb[k] = screen[m][i].line

\* While nobody leaves, a line that is on its way is on the screen of everybody
\* who was present when it was read, or will be; it is missed by the others.
OnItsWay(m, a) ==
  \/ buf[a] \in OnScreen(m)
  \/ hpc[a] = "send" /\ m \in Present /\ sd[a] <= clnt_num[m]

AudienceEntered == \A a \in Members : \A m \in audience[a] : hpc[m] # "none"

UnderwayReaches ==
  stable => \A m, a \in Members :
    (net[m] = "open" /\ Handles(a)) =>
      IF m \in audience[a] THEN OnItsWay(m, a)
      ELSE hpc[m] \in {"replay", "read", "send", "store"} => buf[a] \in missed[m]

\* What the table has is on the screen, missed, or about to be replayed.
KeptReaches ==
  stable => \A m \in Members :
    (net[m] = "open" /\ hpc[m] \in {"replay", "read", "send", "store"}) =>
      \A i \in DOMAIN chat_tb :
        \/ chat_tb[i] \in OnScreen(m) \cup missed[m]
        \/ hpc[m] = "replay" /\ \E j \in DOMAIN result[m] : result[m][j] = chat_tb[i]

IInv ==
  /\ TypeOK /\ Placed /\ StableInReach
  /\ LinesInOrder /\ HeardIsKept /\ LogIsPrefix
  /\ ScreensBehindLoop /\ SenderOrder /\ ReplayInOrder
  /\ ReplayedIsKept
  /\ AudienceEntered /\ UnderwayReaches /\ KeptReaches

=============================================================================

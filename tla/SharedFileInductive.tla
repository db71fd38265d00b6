------------------------ MODULE SharedFileInductive ------------------------
(* The inductive invariant behind the theorems of SharedFileProofs.        *)
EXTENDS SharedFile

\* The clients between their placement and the end of their thread.
Present == {m \in Members : hpc[m] \notin {"none", "exited"}}

\* Each of them is counted once: count, which bounds every loop over the
\* slots, neither drifts nor falls below -1.
Counted ==
  /\ count + 1 = Cardinality(Present)
  /\ \A m \in Members : net[m] = "none" <=> hpc[m] = "none"

\* A thread gives back only a right that it holds, and what is written to a
\* socket outside FMrights is never a verdict.
Underway ==
  \A m \in Members :
    /\ hpc[m] = "release" => ud[m]
    /\ hpc[m] \in {"deliver", "broadcast", "put"} => buf[m].kind = "7"
    /\ hpc[m] = "none" => ~ud[m] /\ inbox[m] = <<>> /\ readonly[m]

CleanIsUndisturbed == clean => Undisturbed

\* The last text in s is t; an edit box with the text v has t when its owner has
\* read s.
LastText(s, t) ==
  \E i \in DOMAIN s :
    /\ s[i].kind = "7" /\ s[i].text = t
    /\ \A j \in DOMAIN s : j > i => s[j].kind # "7"

Shows(v, s, t) == LastText(s, t) \/ (~HasText(s) /\ v = t)

\* A member that has its first copy of the file; one that has not, or is not there.
Inside(m) == hpc[m] \in {"read", "grant", "release", "reply", "broadcast", "put"}

Outside(m) == hpc[m] \in {"none", "init", "open", "load", "fetch", "deliver"}

\* In a clean run every member keeps its slot, within the reach of the loops, and
\* one that has no copy yet has been sent nothing and has typed nothing.
Seated ==
  clean => \A m \in Members :
    /\ Inside(m) \/ Outside(m)
    /\ hpc[m] # "none" => clnt_num[m] <= count /\ clnt_socks[clnt_num[m]] = m
    /\ \A k \in Slots : clnt_socks[k] = m => hpc[m] # "none" /\ clnt_num[m] = k
    /\ Outside(m) => /\ readonly[m] /\ view[m] = <<>> /\ inbox[m] = <<>>
                     /\ ~HasText(outbox[m])

\* In a clean run the FILE is open when it is used, at its start when it is read
\* or written, and a message that is about to be sent is what it should be.
FileInUse ==
  clean => \A m \in Members :
    /\ Inside(m) \/ hpc[m] \in {"load", "fetch", "deliver"} => fp
    /\ hpc[m] \in {"fetch", "put"} => pos = 0
    /\ hpc[m] = "deliver" => buf[m].text = file
    /\ hpc[m] = "put" => Len(buf[m].text) >= Len(file)
    /\ hpc[m] = "reply" => buf[m].kind # "7"

\* A member with edits under way has the last of them in its edit box, and nothing
\* will take its place.
EditsFollow ==
  /\ Crossing \subseteq adrift
  /\ clean => \A m \in Members \ adrift :
       HasText(outbox[m]) => LastText(outbox[m], view[m])

\* The edit of w has come to m: it is m's own, the loop has passed m, or is over.
HasReached(w, m) ==
  \/ hpc[w] = "put"
  \/ hpc[w] = "broadcast" /\ (m = w \/ clnt_num[m] < sd[w])

\* The edit that has reached m, or the file when none has, is what m sees or will
\* see once it has read its messages.
SeesLatest(m) ==
  /\ \A w \in Members : HasReached(w, m) => Shows(view[m], inbox[m], buf[w].text)
  /\ (\A w \in Members : ~HasReached(w, m)) => Shows(view[m], inbox[m], file)

TextsFollow ==
  clean => \A m \in Members \ adrift :
    (Inside(m) /\ ~HasText(outbox[m])) => SeesLatest(m)

IInv ==
  /\ TypeOK /\ Counted /\ Underway /\ CleanIsUndisturbed
  /\ RightsAccounted /\ RepliesAgree
  /\ Seated /\ FileInUse /\ EditsFollow /\ TextsFollow

=============================================================================

------------------------------ MODULE ChatRoom ------------------------------
(***************************************************************************)
(* What a room promises about chat, whatever the loops, the locks and the  *)
(* connections do: of each author at most one line is on its way at a      *)
(* time; it may be shown to a member while it is on its way, at most once  *)
(* and never after a later line or after the record's copy of it; the      *)
(* record is kept in the order of each author, without holes, until a      *)
(* failure seals it for good; and a member is shown the record from its    *)
(* first line on, each line once, the ones it was shown before included.   *)
(* It does not promise that a line is shown to everybody.  Chat implements *)
(* it.                                                                     *)
(***************************************************************************)
EXTENDS Naturals, Sequences, FiniteSets

CONSTANTS
  Members,
  MaxLines      \* how many lines one client says in a behaviour

VARIABLES
  said,         \* how many lines each member has said
  record,       \* the lines that are kept, in order
  sealed,       \* nothing will be added to the record any more
  screen        \* what each member was shown, in order

vars == <<said, record, sealed, screen>>

Lines == [from : Members, n : 1 .. MaxLines]

\* The lines of an author in the record.
Kept(a) == Cardinality({i \in DOMAIN record : record[i].from = a})

\* The lines of the record that m has been shown.
Replayed(m) == Cardinality({i \in DOMAIN screen[m] : ~screen[m][i].live})

\* The line of a that is on its way: the one after those that are kept, or, when
\* that one is what could not be kept, the one after it.
Underway(line) ==
  /\ line.n <= said[line.from]
  /\ \/ line.n = Kept(line.from) + 1
     \/ sealed /\ line.n = Kept(line.from) + 2

\* m was shown nothing of this line's author from this line on, in either way.
NewTo(m, line) ==
  \A i \in DOMAIN screen[m] :
    screen[m][i].line.from = line.from => screen[m][i].line.n < line.n

Init ==
  /\ said = [m \in Members |-> 0]
  /\ record = <<>>
  /\ sealed = FALSE
  /\ screen = [m \in Members |-> <<>>]

Say(m) ==
  /\ said[m] < MaxLines
  /\ said' = [said EXCEPT ![m] = @ + 1]
  /\ UNCHANGED <<record, sealed, screen>>

Show(m, line) ==
  /\ Underway(line) /\ NewTo(m, line)
  /\ screen' = [screen EXCEPT ![m] = Append(@, [line |-> line, live |-> TRUE])]
  /\ UNCHANGED <<said, record, sealed>>

Replay(m) ==
  /\ Replayed(m) < Len(record)
  /\ screen' = [screen EXCEPT ![m] =
       Append(@, [line |-> record[Replayed(m) + 1], live |-> FALSE])]
  /\ UNCHANGED <<said, record, sealed>>

Keep(a) ==
  /\ ~sealed /\ Kept(a) < said[a]
  /\ record' = Append(record, [from |-> a, n |-> Kept(a) + 1])
  /\ UNCHANGED <<said, sealed, screen>>

Seal ==
  /\ ~sealed
  /\ sealed' = TRUE
  /\ UNCHANGED <<said, record, screen>>

Next ==
  \/ \E m \in Members : Say(m) \/ Replay(m) \/ Keep(m)
  \/ \E m \in Members : \E line \in Lines : Show(m, line)
  \/ Seal

Spec == Init /\ [][Next]_vars

=============================================================================

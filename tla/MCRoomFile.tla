----------------------------- MODULE MCRoomFile -----------------------------
(* Two rooms, their files and the texts for the runs of RoomFile.          *)
EXTENDS RoomFileInductive, TLC

CONSTANTS r1, r2, m1, m2, m3, a, b, nl

\* m1 and m2 enter r1, m3 enters r2.
FirstRoom(m) == IF m = m3 THEN r2 ELSE r1
RoomOfEach == [m \in Members |-> FirstRoom(m)]

Budget(i, j, k) == (m1 :> i @@ m2 :> j @@ m3 :> k)
FewCommands == {Budget(2, 1, 0), Budget(1, 0, 1)}

OwnNames == (r1 :> "0.c" @@ r2 :> "1.c")

\* new.c is not there yet; notes is.
OneText == {<<a, nl>>}
TwoTexts == {<<a, nl>>, <<b>>}
FewNames == {"0.c", "1.c", "new.c", "notes"}
SomeKept == [n \in Names |-> IF n = "notes" THEN <<b, nl>> ELSE None]

=============================================================================

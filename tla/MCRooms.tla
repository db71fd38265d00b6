------------------------------ MODULE MCRooms ------------------------------
(* Model values and symmetry for the runs of Rooms.                        *)
EXTENDS RoomsInductive, TLC

Symmetry ==
  Permutations(Clients) \cup Permutations(Descriptors) \cup Permutations(Threads)

=============================================================================

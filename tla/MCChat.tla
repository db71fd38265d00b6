------------------------------- MODULE MCChat -------------------------------
(* Symmetry for the runs of Chat.                                          *)
EXTENDS ChatInductive, TLC

Symmetry == Permutations(Members)

=============================================================================

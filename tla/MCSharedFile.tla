---------------------------- MODULE MCSharedFile ----------------------------
(* Texts and symmetry for the runs of SharedFile.                          *)
EXTENDS SharedFileInductive, TLC

CONSTANTS a, b

OneLength == {<<a>>, <<b>>}
TwoLengths == {<<a, a>>, <<b>>}
Symmetry == Permutations(Members)

=============================================================================

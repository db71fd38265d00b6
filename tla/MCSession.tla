----------------------------- MODULE MCSession ------------------------------
(* What may happen in the run of Session: a client talks, or is told        *)
(* something; or both press OK twice, or once with MySQL failing.  There is *)
(* room for both, or for one, or for one only in each of two rooms.         *)
EXTENDS SessionInductive, TLC

CONSTANTS c1, c2

Limit(n, i, t, f, r, p) ==
  [attempts |-> n, commands |-> (c1 :> 0 @@ c2 :> i), told |-> t, failures |-> f,
   rooms |-> r, places |-> p]

Some == {Limit(1, 2, 0, 0, 1, 2), Limit(1, 0, 1, 0, 2, 2), Limit(1, 0, 1, 0, 2, 1),
         Limit(2, 0, 0, 0, 1, 2), Limit(1, 0, 0, 1, 1, 1)}

=============================================================================

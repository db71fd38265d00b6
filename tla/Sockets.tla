------------------------------ MODULE Sockets ------------------------------
(* What the server's calls do to a TCP connection; the code of the kernel. *)
EXTENDS Integers

(***************************************************************************)
(* The kernel's TCP sockets.  "fin": the peer closed, read() returns 0 and *)
(* a write provokes an RST.  "rst": the next call on the socket returns -1 *)
(* and clears the error.  "gone": read() returns 0 and a write raises      *)
(* SIGPIPE, which the server neither handles nor ignores.  "closed": the   *)
(* server closed the descriptor and every call on it returns -1.           *)
(***************************************************************************)
NetStates == {"none", "open", "fin", "rst", "gone", "closed"}

AfterWrites(s, n) == IF n > 0 /\ s \in {"fin", "rst"} THEN "gone" ELSE s

RaisesSigpipe(s, n) ==
  \/ n > 0 /\ s = "gone"
  \/ n > 1 /\ s \in {"fin", "rst"}

=============================================================================

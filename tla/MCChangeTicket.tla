--------------------------- MODULE MCChangeTicket ---------------------------
(* Instances of ChangeTicket for TLC: which numbers and requests are alike. *)
EXTENDS ChangeTicket, TLC

CONSTANTS r1, r2, n1, n2, n3

Alike == Permutations(Requests) \cup Permutations(Numbers)
=============================================================================

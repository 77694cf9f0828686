------------------------------ MODULE MCDistLock ------------------------------
(* Instances of DistLock for TLC: the threads.                              *)
EXTENDS DistLock, TLC

CONSTANTS t1, t2
=============================================================================

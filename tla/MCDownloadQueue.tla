-------------------------- MODULE MCDownloadQueue --------------------------
(* Small instances of DownloadQueue: two ids for one book, one for a novel. *)
EXTENDS DownloadQueue, TLC

CONSTANTS t1, t2, t3, b1, n1, a0, a1

MCKeyOf == [t \in Task |-> IF t = t3 THEN n1 ELSE b1]
=============================================================================

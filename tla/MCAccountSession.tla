------------------------- MODULE MCAccountSession -------------------------
(* Small instances of AccountSession: the legacy account and another one.   *)
EXTENDS AccountSession, TLC

CONSTANTS a0, a1, c1, c2

\* Sign-in chains are interchangeable; no liveness is checked here.
ChainSymmetry == Permutations(Chain)

(* No action looks at the history variable, nor at which server answered;   *)
(* a run whose properties do not either may take such states as one.        *)
Observed ==
  <<storeVars, dir, sessionOk, promise, probing, mode, restarts,
    [c \in Chain |-> [chain[c] EXCEPT !.server = @ # None]]>>

\* Bound of the runs: one probe of the server's kind at a time.
OneProbe == Cardinality(probing) <= 1
=============================================================================

--------------------------- MODULE MCJsonStore ---------------------------
(* Small instances of JsonStore: the global root and that of one account.   *)
EXTENDS JsonStore, TLC

CONSTANTS g, r1, u1, u2, p1, p2, w1

\* Addresses, and contents of the preferences, are interchangeable.
ValueSymmetry == Permutations(Url) \cup Permutations(Pref)

\* What the later steps and the invariants but TypeOK depend on: no guard
\* reads the addresses of the HTTP client or what a worker got.
Observed ==
  <<identity, file, cache, gcache, pref, prefFile, todo, failures, restarts,
    [w \in Worker |-> <<worker[w].pc, worker[w].key, worker[w].path>>]>>
=============================================================================

--------------------------- MODULE MCHttpClient ---------------------------
(* Small instances of HttpClient: the JS thread and one thread of the pool. *)
EXTENDS HttpClient, TLC

CONSTANTS g, r1, w1, w2, i1, i2, js
=============================================================================

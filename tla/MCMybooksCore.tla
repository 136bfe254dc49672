---------------------------- MODULE MCMybooksCore ----------------------------
EXTENDS MybooksLibrary, TLC
CONSTANTS r1, r2, w1, w2, u1, u2, b1, b2

MCFormat == b1 :> "epub" @@ b2 :> "txt"

\* The first account has a server for each service, the second none.
MCSaved == r1 :> [talebook |-> u1, sonovel |-> u2] @@ r2 :> [talebook |-> None, sonovel |-> None]

Symmetry == Permutations(Worker)

\* Texts of up to two characters, and the files of a batch.
MCChar == Written \cup Keys \cup {"a", "q"}
MCTexts == SeqOf({"a", Quote, Back, Line, "{", "}"}, 2)
MCFieldTexts == {<<>>, <<"a">>, <<"a", Bar>>}
MCBatches == SeqOf([path : {"", "p"}, name : {"n", ""}, relative : {"", "r", "s"}], 2)
MCHosts == {<<"a">>}
MCRoutes == {<<"p", "q">>, <<>>}

\* Directories of up to three headers.
MCDirectories == SeqOf([name : {<<>>, <<"i">>, <<"c", "x">>}, rest : {0, 2}], 3)
=============================================================================

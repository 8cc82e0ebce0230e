--------------------------- MODULE MCBackfillQueue ---------------------------
(* Two slots; the first one changes hands.                                 *)
EXTENDS BackfillQueue

Of == [i |-> 1, k |-> 1, j |-> 2]
=============================================================================

---------------------------- MODULE MCWriteOrder ----------------------------
(* Connections and batches for the runs of WriteOrder.                     *)
EXTENDS WriteOrder, TLC

\* Two connections of the enforcer source (an old process and its successor)
\* and one of the node source.
ThreeSourceOf == [e1 |-> "enforcer", e2 |-> "enforcer", n |-> "node"]

\* A batch repeats a fact, another overlaps with it.
Batches == {<<"f">>, <<"g", "f">>, <<"f", "f">>}
=============================================================================

------------------------------ MODULE MCSchema ------------------------------
(* Three starts: two of an old build, one of a newer build and contract.    *)
EXTENDS Schema

CONSTANTS old1, old2, new

MCContract == [p \in Process |-> IF p = new THEN 9 ELSE 8]

MCKnown == [p \in Process |-> IF p = new THEN 3 ELSE 2]
=============================================================================

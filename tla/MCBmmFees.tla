------------------------------ MODULE MCBmmFees ------------------------------
EXTENDS BmmFees

FromTheFirst == [s \in Slot |-> 1]
=============================================================================

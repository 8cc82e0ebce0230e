----------------------------- MODULE MCLifecycle -----------------------------
(* A block tree and the sidechains of its branches.                        *)
EXTENDS Lifecycle

\* g - a - b     a activates i in an unused slot, c on the other branch j;
\*   \ c         b replaces i by k
Tree == [g |-> "none", a |-> "g", b |-> "a", c |-> "g"]
Slot == [i |-> 1, j |-> 1, k |-> 1]
Active == [g |-> {}, a |-> {"i"}, b |-> {"k"}, c |-> {"j"}]
=============================================================================

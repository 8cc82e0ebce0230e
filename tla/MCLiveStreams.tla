---------------------------- MODULE MCLiveStreams ----------------------------
(* Transitions of a chain that grows, and of one that also disconnects.     *)
EXTENDS LiveStreams

Growing == [p \in Position |-> p]

\* connect 1, disconnect it, connect 2, connect 3
Reorg == [p \in Position |-> <<0, 1, 0, 2, 3>>[p + 1]]
=============================================================================

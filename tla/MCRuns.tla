------------------------------- MODULE MCRuns -------------------------------
(* Sessions and workers for the runs of Runs.                              *)
EXTENDS Runs, TLC

CONSTANTS e, n1, n2

\* Node sessions that follow one another or overlap, beside an enforcer session.
Sources == [p \in Session |-> IF p = e THEN "enforcer" ELSE "node"]

\* The node sessions, and the tips, behave alike.
Alike == Permutations({n1, n2}) \cup Permutations(Tip)

\* tip: initialized at startup; degraded by its first failure.
\* history: reports a quarantine, and nobody initializes its row.
\* fees: initializes its own row, in the node session.
AtStartup == [enforcer |-> {"tip"}, node |-> {}]
OnItsOwn == [enforcer |-> {}, node |-> {"fees"}]
Reporters == [enforcer |-> {"tip", "history"}, node |-> {}]
AfterOne == [w \in Worker |-> 1]
=============================================================================

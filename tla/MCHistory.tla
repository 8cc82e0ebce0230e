----------------------------- MODULE MCHistory -----------------------------
(* Small block trees for the runs of History.                              *)
EXTENDS History, TLC

\* g - a1 - a2
\*   \ b1 - b2 - b3
ForkBlock == {"g", "a1", "a2", "b1", "b2", "b3"}
ForkParent == [g |-> "none", a1 |-> "g", a2 |-> "a1", b1 |-> "g", b2 |-> "b1", b3 |-> "b2"]
ForkHeight == [g |-> 0, a1 |-> 1, a2 |-> 2, b1 |-> 1, b2 |-> 2, b3 |-> 3]
ForkAncestors ==
    [g |-> {"g"}, a1 |-> {"g", "a1"}, a2 |-> {"g", "a1", "a2"}, b1 |-> {"g", "b1"},
     b2 |-> {"g", "b1", "b2"}, b3 |-> {"g", "b1", "b2", "b3"}]

\* Genuine pages, a page longer than asked for, a page with a hole.
ForkPage ==
    {<<"a1">>, <<"a2">>, <<"a2", "a1">>, <<"a2", "a1", "g">>, <<"b1">>, <<"b2">>, <<"b2", "b1">>,
     <<"b3">>, <<"b3", "b2">>, <<"b3", "b2", "b1">>, <<"b3", "b1">>}

OneFact == [b \in Block |-> {"f"}]
ForkReports == [OneFact EXCEPT !["b2"] = {"f", "f2"}]

\* g - a1
\*   \ b1 - b2 - b3
HookBlock == ForkBlock \ {"a2"}
HookParent == [b \in HookBlock |-> ForkParent[b]]
HookHeight == [b \in HookBlock |-> ForkHeight[b]]
HookAncestors == [b \in HookBlock |-> ForkAncestors[b]]
\* Genuine pages, a short one, a page longer than asked for, a page with a hole.
HookPage ==
    {<<"a1">>, <<"b1">>, <<"b2", "b1">>, <<"b3">>, <<"b3", "b2">>, <<"b3", "b2", "b1">>,
     <<"b3", "b1">>}
HookReports == [b \in HookBlock |-> ForkReports[b]]

\* g - a1
\*   \ b1 - b2
ShortBlock == {"g", "a1", "b1", "b2"}
ShortParent == [b \in ShortBlock |-> ForkParent[b]]
ShortHeight == [b \in ShortBlock |-> ForkHeight[b]]
ShortAncestors == [b \in ShortBlock |-> ForkAncestors[b]]
ShortPage == {<<"a1">>, <<"b1">>, <<"b2">>, <<"b2", "b1">>}
ShortReports == [OneFact EXCEPT !["b2"] = {"f", "f2"}]

Processes == Permutations(Process)
=============================================================================

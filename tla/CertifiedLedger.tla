-------------------------- MODULE CertifiedLedger --------------------------
(***************************************************************************)
(* What the record promises a reader of one history scope: a set of        *)
(* recorded blocks, a set of certified blocks and the covered tip.         *)
(* Recording proves nothing.  Certification adds a stretch of recorded     *)
(* blocks that hangs on what is certified already or on the start of the   *)
(* scope, and never withdraws a block.  The covered tip is always one that *)
(* was certified.                                                          *)
(***************************************************************************)
EXTENDS Chain

CONSTANT StartHeight

VARIABLES recorded, certified, covered

ledgerVars == <<recorded, certified, covered>>

LedgerInit ==
    /\ recorded = {}
    /\ certified = {}
    /\ covered = NoBlock

Record ==
    /\ recorded' \in SUBSET Block
    /\ recorded \subseteq recorded'
    /\ UNCHANGED <<certified, covered>>

\* S is proved together with the tip t; the last facts of S may be recorded in
\* the same transaction.
Certify(t, S) ==
    /\ t \in certified \cup S
    /\ recorded' \in SUBSET Block
    /\ recorded \cup S \subseteq recorded'
    /\ \A b \in S : /\ Height[b] >= StartHeight
                    /\ Height[b] > StartHeight => Parent[b] \in certified \cup S
    /\ certified' = certified \cup S
    /\ covered' = t

\* The covered tip moves back to an earlier one.
Reposition(t) ==
    /\ t \in certified
    /\ covered' = t
    /\ UNCHANGED <<recorded, certified>>

LedgerNext ==
    \/ Record
    \/ \E t \in Block, S \in SUBSET Block : Certify(t, S)
    \/ \E t \in Block : Reposition(t)

LedgerSpec == LedgerInit /\ [][LedgerNext]_ledgerVars
=============================================================================

------------------------------- MODULE Schema -------------------------------
(***************************************************************************)
(* The startup of a process on the record: the compatibility of its         *)
(* contract, the migrations under a session lock, and the identity of the   *)
(* dataset.  The enforcer and the node side of one service start so at the  *)
(* same time, and during an upgrade old and new builds do.                  *)
(*                                                                         *)
(* All processes are about one network, activation height and block, so     *)
(* there is at most one dataset; contracts are those from 8 on.             *)
(*                                                                         *)
(* The specification's own definitions carry the module's name: its proofs  *)
(* stand in one module with those of Supervision, the rest of the service.  *)
(***************************************************************************)
EXTENDS Integers

CONSTANTS
    Process,    \* connections to the record, each used once
    Contract,   \* the event contract of each one's build
    None,
    Last,       \* the migrations of the newest build
    Known       \* the migrations of each one's build

ASSUME SchemaAssumption ==
    /\ Last \in Nat
    /\ Known \in [Process -> 1..Last]
    /\ None \notin Process
    /\ \A p \in Process : Contract[p] # None

VARIABLES
    applied,  \* the migrations whose statements were committed
    version,  \* schema_version
    dataset,  \* the contract of the dataset manifest, if there is one
    facts,    \* the contracts whose facts are recorded
    holder,   \* the session that has the migration lock
    proc      \* where each process is, and at which migration

schemaVars == <<applied, version, dataset, facts, holder, proc>>

Migration == 1..Last

Place(pc, n) == [pc |-> pc, at |-> n]

SchemaInit ==
    /\ applied = {}
    /\ version = {}
    /\ dataset = None
    /\ facts = {}
    /\ holder = None
    /\ proc = [p \in Process |-> Place("connect", 1)]

Step(p, pc, next) ==
    /\ proc[p].pc = pc
    /\ proc' = [proc EXCEPT ![p] = next]
-----------------------------------------------------------------------------
\* The manifest is there, and of another contract.
Foreign(p) == dataset \notin {None, Contract[p]}

\* connect_with_manifest: nothing is migrated for a contract that is known to
\* be another one.  This is not under the lock.
Connect(p) ==
    /\ Step(p, "connect", Place(IF Foreign(p) THEN "refused" ELSE "lock", 1))
    /\ UNCHANGED <<applied, version, dataset, facts, holder>>

\* Mutant: no lock.
TakeLockUnasked(p) ==
    /\ Step(p, "lock", Place("read", 1))
    /\ UNCHANGED <<applied, version, dataset, facts, holder>>

TakeLock(p) ==
    /\ holder = None
    /\ holder' = p
    /\ Step(p, "lock", Place("read", 1))
    /\ UNCHANGED <<applied, version, dataset, facts>>

ReadVersion(p) ==
    LET n == proc[p].at IN
    /\ n <= Known[p]
    /\ Step(p, "read", IF n \in version THEN Place("read", n + 1) ELSE Place("apply", n))
    /\ UNCHANGED <<applied, version, dataset, facts, holder>>

\* The statements and their version commit together.
Apply(p) ==
    LET n == proc[p].at IN
    /\ Step(p, "apply", Place("read", n + 1))
    /\ n \notin applied
    /\ applied' = applied \cup {n}
    /\ version' = version \cup {n}
    /\ UNCHANGED <<dataset, facts, holder>>

\* The statements roll back: they were run before, or the data forbid them.
ApplyFails(p) ==
    /\ Step(p, "apply", Place("failed", proc[p].at))
    /\ UNCHANGED <<applied, version, dataset, facts, holder>>

\* migrate unlocks whatever came of the migrations.
Unlocking(p) ==
    /\ proc[p].pc \in {"read", "failed"}
    /\ proc[p].pc = "read" => proc[p].at > Known[p]
    /\ proc' = [proc EXCEPT ![p] = Place(IF @.pc = "read" THEN "identity" ELSE "refused", 1)]

\* Mutant: the lock is kept until the process ends.
UnlockLate(p) ==
    /\ Unlocking(p)
    /\ UNCHANGED <<applied, version, dataset, facts, holder>>

Unlock(p) ==
    /\ Unlocking(p)
    /\ holder' = None
    /\ UNCHANGED <<applied, version, dataset, facts>>

\* Mutant: the contract is compared only before the migrations.
IdentityUnchecked(p) ==
    /\ Step(p, "identity", Place("run", 1))
    /\ dataset' = IF dataset = None THEN Contract[p] ELSE dataset
    /\ UNCHANGED <<applied, version, facts, holder>>

\* initialize_identity under the write lock: the manifest of the dataset is
\* that of the first process that gets here.
Identity(p) ==
    /\ Step(p, "identity", Place(IF Foreign(p) THEN "refused" ELSE "run", 1))
    /\ dataset' = IF dataset = None THEN Contract[p] ELSE dataset
    /\ UNCHANGED <<applied, version, facts, holder>>

Record(p) ==
    /\ Step(p, "run", proc[p])
    /\ facts' = facts \cup {Contract[p]}
    /\ UNCHANGED <<applied, version, dataset, holder>>

\* A process ends, at any point: refused, stopped, or by a crash.
End(p) ==
    /\ proc[p].pc \notin {"connect", "gone"}
    /\ proc' = [proc EXCEPT ![p] = Place("gone", 1)]
    /\ UNCHANGED <<applied, version, dataset, facts, holder>>

\* The server notices that the session is gone.
SessionEnds(p) ==
    /\ proc[p].pc = "gone" /\ holder = p
    /\ holder' = None
    /\ UNCHANGED <<applied, version, dataset, facts, proc>>
-----------------------------------------------------------------------------
Migrate(p) == ReadVersion(p) \/ Apply(p) \/ ApplyFails(p) \/ Unlock(p)

SchemaNext ==
    \E p \in Process :
        \/ Connect(p) \/ TakeLock(p) \/ Migrate(p)
        \/ Identity(p) \/ Record(p) \/ End(p) \/ SessionEnds(p)

SchemaSpec == SchemaInit /\ [][SchemaNext]_schemaVars

\* The statements of a live process go on, the server notices ended sessions
\* and grants the lock in the order of its queue.
SchemaFairness ==
    \A p \in Process :
        /\ WF_schemaVars(Migrate(p)) /\ WF_schemaVars(Identity(p)) /\ WF_schemaVars(SessionEnds(p))
        /\ SF_schemaVars(TakeLock(p))

SchemaLiveSpec == SchemaSpec /\ SchemaFairness
-----------------------------------------------------------------------------
(* Properties.                                                             *)

ProcState ==
    [pc : {"connect", "refused", "lock", "read", "apply", "failed", "identity", "run", "gone"},
     at : 1..Last + 1]

SchemaTypeOK ==
    /\ applied \subseteq Migration /\ version \subseteq Migration
    /\ dataset = None \/ \E p \in Process : dataset = Contract[p]
    /\ \A c \in facts : \E p \in Process : c = Contract[p]
    /\ holder \in Process \cup {None}
    /\ proc \in [Process -> ProcState]

\* Two processes that start at once, or one that follows a crash, do not run a
\* migration again: check and apply are two statements, and in between no one
\* else applies what was found to be missing.
NoMigrationRepeats ==
    /\ version = applied
    /\ \A p \in Process : proc[p].pc = "apply" => proc[p].at \notin applied

\* Who is past its migrations finds all that its build knows, whichever build
\* applied them.
SchemaIsReady ==
    \A p \in Process : proc[p].pc \in {"identity", "run"} => 1..Known[p] \subseteq version

\* Facts of different contracts are never in one dataset: the comparison before
\* the migrations may be outdated when the identity is initialized.
OneContract == facts \subseteq {dataset}

\* No startup waits forever for one that crashed or was refused.
StartupEnds ==
    \A p \in Process : proc[p].pc = "lock" ~> proc[p].pc \in {"run", "refused", "gone"}
=============================================================================

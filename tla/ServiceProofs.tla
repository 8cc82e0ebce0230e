---------------------------- MODULE ServiceProofs ----------------------------
(***************************************************************************)
(* The proofs about the service as a whole: how its processes start on the *)
(* record (Schema), and how the two sides of a process stop each other     *)
(* (Supervision).  The two specifications are proved one after the other.  *)
(***************************************************************************)
EXTENDS Schema, Supervision, TLAPS

(* Schema: for any processes, builds and contracts.                        *)

Migrating == {"read", "apply", "failed"}

\* Who migrates has the lock, and has seen every migration before its own
\* applied.
Holding ==
    \A p \in Process :
        /\ proc[p].pc \in Migrating => holder = p /\ 1..(proc[p].at - 1) \subseteq version
        /\ proc[p].pc = "read" => proc[p].at <= Known[p] + 1
        /\ proc[p].pc = "apply" => proc[p].at <= Known[p]

\* Who records does so in a dataset of its own contract.
Owned == \A p \in Process : proc[p].pc = "run" => dataset = Contract[p]

SchemaInv ==
    SchemaTypeOK /\ Holding /\ NoMigrationRepeats /\ SchemaIsReady /\ Owned /\ OneContract

LEMMA Constants ==
    /\ Last \in Nat
    /\ \A p \in Process : Known[p] \in 1..Last /\ Contract[p] # None
    /\ None \notin Process
BY SchemaAssumption DEF SchemaAssumption

LEMMA PlaceType ==
  ASSUME NEW pc \in {"connect", "refused", "lock", "read", "apply", "failed", "identity",
                     "run", "gone"},
         NEW n \in 1..Last + 1
  PROVE  Place(pc, n) \in ProcState /\ Place(pc, n).pc = pc /\ Place(pc, n).at = n
BY DEF Place, ProcState

LEMMA OneIsIndex == 1 \in 1..Last + 1
BY Constants

LEMMA ProcFields ==
  ASSUME NEW x \in ProcState
  PROVE  x.at \in 1..Last + 1
BY DEF ProcState

LEMMA SchemaInvInit == SchemaInit => SchemaInv
<1> SUFFICES ASSUME SchemaInit PROVE SchemaInv
  OBVIOUS
<1>1. \A p \in Process : proc[p] = Place("connect", 1)
  BY DEF SchemaInit
<1>2. \A p \in Process : proc[p] \in ProcState /\ proc[p].pc = "connect"
  <2>1. Place("connect", 1) \in ProcState /\ Place("connect", 1).pc = "connect"
    BY OneIsIndex, PlaceType
  <2>2. QED
    BY <1>1, <2>1
<1>3. proc \in [Process -> ProcState]
  BY <1>2 DEF SchemaInit
<1>4. applied = {} /\ version = {} /\ facts = {} /\ dataset = None /\ holder = None
  BY DEF SchemaInit
<1>5. SchemaTypeOK
  BY <1>3, <1>4 DEF SchemaTypeOK
<1>6. Holding /\ Owned /\ NoMigrationRepeats /\ SchemaIsReady /\ OneContract
  BY <1>2, <1>4 DEF Holding, Migrating, Owned, NoMigrationRepeats, SchemaIsReady, OneContract
<1>7. QED
  BY <1>5, <1>6 DEF SchemaInv

\* What a step shows of its process, when all the others stay where they are.
LEMMA OneStep ==
  ASSUME SchemaInv, NEW p \in Process, NEW x \in ProcState,
         proc' = [proc EXCEPT ![p] = x],
         applied' \subseteq Migration, version' = applied', version \subseteq version',
         dataset' = None \/ \E q \in Process : dataset' = Contract[q],
         dataset # None => dataset' = dataset,
         \A c \in facts' : \E q \in Process : c = Contract[q],
         facts' \subseteq {dataset'},
         holder' \in Process \cup {None},
         \A q \in Process : q # p /\ proc[q].pc \in Migrating =>
             holder' = holder /\ version' = version,
         x.pc \in Migrating => holder' = p /\ 1..(x.at - 1) \subseteq version',
         x.pc = "read" => x.at <= Known[p] + 1,
         x.pc = "apply" => x.at <= Known[p] /\ x.at \notin applied',
         x.pc \in {"identity", "run"} => 1..Known[p] \subseteq version',
         x.pc = "run" => dataset' = Contract[p]
  PROVE  SchemaInv'
<1>1. /\ SchemaTypeOK /\ Holding /\ NoMigrationRepeats /\ SchemaIsReady /\ Owned
      /\ proc \in [Process -> ProcState]
  BY DEF SchemaInv, SchemaTypeOK
<1>2. /\ proc'[p] = x /\ proc' \in [Process -> ProcState]
      /\ \A q \in Process : q # p => proc'[q] = proc[q]
  BY <1>1
<1>3. SchemaTypeOK'
  BY <1>1, <1>2 DEF SchemaTypeOK
<1>4. Holding'
  <2> SUFFICES ASSUME NEW q \in Process
               PROVE  /\ proc'[q].pc \in Migrating =>
                            holder' = q /\ 1..(proc'[q].at - 1) \subseteq version'
                      /\ proc'[q].pc = "read" => proc'[q].at <= Known[q] + 1
                      /\ proc'[q].pc = "apply" => proc'[q].at <= Known[q]
    BY DEF Holding
  <2>1. CASE q = p
    BY <1>2, <2>1
  <2>2. CASE q # p
    BY <1>1, <1>2, <2>2 DEF Holding
  <2>3. QED
    BY <2>1, <2>2
<1>5. NoMigrationRepeats'
  <2> SUFFICES ASSUME NEW q \in Process, proc'[q].pc = "apply"
               PROVE  proc'[q].at \notin applied'
    BY DEF NoMigrationRepeats
  <2>1. CASE q = p
    BY <1>2, <2>1
  <2>2. CASE q # p
    <3>1. proc[q].pc = "apply" /\ proc'[q].at = proc[q].at
      BY <1>2, <2>2
    <3>2. version' = version
      BY <2>2, <3>1 DEF Migrating
    <3>3. QED
      BY <1>1, <3>1, <3>2 DEF NoMigrationRepeats
  <2>3. QED
    BY <2>1, <2>2
<1>6. SchemaIsReady'
  BY <1>1, <1>2 DEF SchemaIsReady
<1>7. Owned'
  <2>1. \A q \in Process : q # p /\ proc[q].pc = "run" => dataset' = Contract[q]
    BY <1>1, Constants DEF Owned
  <2>2. QED
    BY <1>2, <2>1 DEF Owned
<1>8. OneContract'
  BY DEF OneContract
<1>9. QED
  BY <1>3, <1>4, <1>5, <1>6, <1>7, <1>8 DEF SchemaInv

\* The steps before the lock and after the migrations.
LEMMA OutsideStep ==
  ASSUME SchemaInv, NEW p \in Process,
         Connect(p) \/ Identity(p) \/ Record(p) \/ End(p)
  PROVE  SchemaInv'
<1>1. /\ SchemaTypeOK /\ NoMigrationRepeats /\ SchemaIsReady /\ Owned /\ OneContract
      /\ proc[p] \in ProcState
  BY DEF SchemaInv, SchemaTypeOK
<1>2. CASE Connect(p)
  <2> DEFINE x == Place(IF Foreign(p) THEN "refused" ELSE "lock", 1)
  <2>1. x \in ProcState /\ x.pc \in {"refused", "lock"}
    BY OneIsIndex, PlaceType
  <2>2. /\ proc' = [proc EXCEPT ![p] = x]
        /\ UNCHANGED <<applied, version, dataset, facts, holder>>
    BY <1>2 DEF Connect, Step
  <2> HIDE DEF x
  <2>3. QED
    BY <1>1, <2>1, <2>2, OneStep DEF SchemaTypeOK, NoMigrationRepeats, OneContract, Migrating
<1>3. CASE Identity(p)
  <2> DEFINE x == Place(IF Foreign(p) THEN "refused" ELSE "run", 1)
  <2>1. x \in ProcState /\ x.pc = IF Foreign(p) THEN "refused" ELSE "run"
    BY OneIsIndex, PlaceType
  <2>2. /\ proc[p].pc = "identity" /\ proc' = [proc EXCEPT ![p] = x]
        /\ dataset' = IF dataset = None THEN Contract[p] ELSE dataset
        /\ UNCHANGED <<applied, version, facts, holder>>
    BY <1>3 DEF Identity, Step
  <2> HIDE DEF x
  <2>3. x.pc = "run" => dataset' = Contract[p]
    BY <2>1, <2>2 DEF Foreign
  <2>4. 1..Known[p] \subseteq version
    BY <1>1, <2>2 DEF SchemaIsReady
  <2>5. facts' \subseteq {dataset'}
    BY <1>1, <2>2, Constants DEF OneContract, SchemaTypeOK
  <2>6. dataset' = None \/ \E q \in Process : dataset' = Contract[q]
    BY <1>1, <2>2 DEF SchemaTypeOK
  <2>7. QED
    BY <1>1, <2>1, <2>2, <2>3, <2>4, <2>5, <2>6, OneStep DEF SchemaTypeOK, NoMigrationRepeats, Migrating
<1>4. CASE Record(p)
  <2>1. /\ proc[p].pc = "run" /\ proc' = [proc EXCEPT ![p] = proc[p]]
        /\ facts' = facts \cup {Contract[p]}
        /\ UNCHANGED <<applied, version, dataset, holder>>
    BY <1>4 DEF Record, Step
  <2>2. dataset = Contract[p] /\ 1..Known[p] \subseteq version
    BY <1>1, <2>1 DEF Owned, SchemaIsReady
  <2>3. QED
    BY <1>1, <2>1, <2>2, OneStep DEF SchemaTypeOK, NoMigrationRepeats, OneContract, Migrating
<1>5. CASE End(p)
  <2> DEFINE x == Place("gone", 1)
  <2>1. x \in ProcState /\ x.pc = "gone"
    BY OneIsIndex, PlaceType
  <2>2. /\ proc' = [proc EXCEPT ![p] = x]
        /\ UNCHANGED <<applied, version, dataset, facts, holder>>
    BY <1>5 DEF End
  <2> HIDE DEF x
  <2>3. QED
    BY <1>1, <2>1, <2>2, OneStep DEF SchemaTypeOK, NoMigrationRepeats, OneContract, Migrating
<1>6. QED
  BY <1>2, <1>3, <1>4, <1>5

LEMMA LockStep ==
  ASSUME SchemaInv, NEW p \in Process, TakeLock(p) \/ SessionEnds(p)
  PROVE  SchemaInv'
<1>1. /\ SchemaTypeOK /\ Holding /\ NoMigrationRepeats /\ SchemaIsReady /\ Owned /\ OneContract
      /\ proc[p] \in ProcState /\ proc \in [Process -> ProcState]
  BY DEF SchemaInv, SchemaTypeOK
<1>2. CASE TakeLock(p)
  <2> DEFINE x == Place("read", 1)
  <2>1. x \in ProcState /\ x.pc = "read" /\ x.at = 1
    BY OneIsIndex, PlaceType
  <2>2. /\ holder = None /\ holder' = p /\ proc' = [proc EXCEPT ![p] = x]
        /\ UNCHANGED <<applied, version, dataset, facts>>
    BY <1>2 DEF TakeLock, Step
  <2> HIDE DEF x
  <2>3. \A q \in Process : proc[q].pc \notin Migrating
    BY <1>1, <2>2, Constants DEF Holding
  <2>4. 1 <= Known[p] + 1 /\ 1..(1 - 1) = {}
    BY Constants
  <2>5. QED
    BY <1>1, <2>1, <2>2, <2>3, <2>4, OneStep DEF SchemaTypeOK, NoMigrationRepeats, OneContract
<1>3. CASE SessionEnds(p)
  <2>1. /\ proc[p].pc = "gone" /\ holder = p /\ holder' = None
        /\ UNCHANGED <<applied, version, dataset, facts, proc>>
    BY <1>3 DEF SessionEnds
  <2>2. proc' = [proc EXCEPT ![p] = proc[p]]
    BY <1>1, <2>1
  <2>3. \A q \in Process : q # p => proc[q].pc \notin Migrating
    BY <1>1, <2>1 DEF Holding
  <2>4. QED
    BY <1>1, <2>1, <2>2, <2>3, OneStep DEF SchemaTypeOK, NoMigrationRepeats, OneContract, Migrating
<1>4. QED
  BY <1>2, <1>3

LEMMA MigrateStep ==
  ASSUME SchemaInv, NEW p \in Process, Migrate(p)
  PROVE  SchemaInv'
<1> DEFINE n == proc[p].at
<1>1. /\ SchemaTypeOK /\ Holding /\ NoMigrationRepeats /\ SchemaIsReady /\ Owned /\ OneContract
      /\ proc[p] \in ProcState /\ proc \in [Process -> ProcState] /\ n \in 1..Last + 1
  BY ProcFields DEF SchemaInv, SchemaTypeOK
<1>2. proc[p].pc \in Migrating
  BY DEF Migrate, ReadVersion, Apply, ApplyFails, Unlock, Unlocking, Step, Migrating
<1>3. /\ holder = p /\ 1..(n - 1) \subseteq version
      /\ \A q \in Process : q # p => proc[q].pc \notin Migrating
  BY <1>1, <1>2 DEF Holding
<1>4. CASE ReadVersion(p)
  <2> DEFINE x == IF n \in version THEN Place("read", n + 1) ELSE Place("apply", n)
  <2>1. /\ n <= Known[p] /\ proc' = [proc EXCEPT ![p] = x]
        /\ UNCHANGED <<applied, version, dataset, facts, holder>>
    BY <1>4 DEF ReadVersion, Step
  <2>2. n + 1 \in 1..Last + 1 /\ n + 1 <= Known[p] + 1 /\ Known[p] \in Nat /\ Last \in Nat
    BY <1>1, <2>1, Constants
  <2>3. CASE n \in version
    <3>1. x = Place("read", n + 1) /\ x \in ProcState /\ x.pc = "read" /\ x.at = n + 1
      BY <2>2, <2>3, PlaceType
    <3>2. 1..(x.at - 1) \subseteq version
      BY <1>1, <1>3, <2>2, <2>3, <3>1
    <3> HIDE DEF x, n
    <3>3. QED
      BY <1>1, <1>3, <2>1, <2>2, <3>1, <3>2, OneStep DEF SchemaTypeOK, NoMigrationRepeats, OneContract
  <2>4. CASE n \notin version
    <3>1. x = Place("apply", n) /\ x \in ProcState /\ x.pc = "apply" /\ x.at = n
      BY <1>1, <2>4, PlaceType
    <3> HIDE DEF x, n
    <3>2. QED
      BY <1>1, <1>3, <2>1, <2>4, <3>1, OneStep DEF SchemaTypeOK, NoMigrationRepeats, OneContract
  <2>5. QED
    BY <2>3, <2>4
<1>5. CASE Apply(p)
  <2> DEFINE x == Place("read", n + 1)
  <2>1. /\ proc[p].pc = "apply" /\ proc' = [proc EXCEPT ![p] = x]
        /\ applied' = applied \cup {n} /\ version' = version \cup {n}
        /\ UNCHANGED <<dataset, facts, holder>>
    BY <1>5 DEF Apply, Step
  <2>2. n <= Known[p]
    BY <1>1, <2>1 DEF Holding
  <2>3. /\ n + 1 \in 1..Last + 1 /\ n + 1 <= Known[p] + 1 /\ n \in Migration
        /\ (n + 1) - 1 = n /\ 1..n \subseteq 1..(n - 1) \cup {n}
    BY <1>1, <2>2, Constants DEF Migration
  <2>4. x \in ProcState /\ x.pc = "read" /\ x.at = n + 1
    BY <2>3, PlaceType
  <2> HIDE DEF x, n
  <2>5. 1..(x.at - 1) \subseteq version'
    BY <1>3, <2>1, <2>3, <2>4
  <2>6. applied' \subseteq Migration /\ version' = applied'
    BY <1>1, <2>1, <2>3 DEF SchemaTypeOK, NoMigrationRepeats
  <2>7. QED
    BY <1>1, <1>3, <2>1, <2>3, <2>4, <2>5, <2>6, OneStep DEF SchemaTypeOK, OneContract
<1>6. CASE ApplyFails(p)
  <2> DEFINE x == Place("failed", n)
  <2>1. /\ proc' = [proc EXCEPT ![p] = x]
        /\ UNCHANGED <<applied, version, dataset, facts, holder>>
    BY <1>6 DEF ApplyFails, Step
  <2>2. x \in ProcState /\ x.pc = "failed" /\ x.at = n
    BY <1>1, PlaceType
  <2> HIDE DEF x, n
  <2>3. QED
    BY <1>1, <1>3, <2>1, <2>2, OneStep DEF SchemaTypeOK, NoMigrationRepeats, OneContract
<1>7. CASE Unlock(p)
  <2> DEFINE x == Place(IF proc[p].pc = "read" THEN "identity" ELSE "refused", 1)
  <2>1. x \in ProcState /\ x.pc = IF proc[p].pc = "read" THEN "identity" ELSE "refused"
    BY OneIsIndex, PlaceType
  <2>2. /\ proc[p].pc = "read" => n > Known[p]
        /\ proc' = [proc EXCEPT ![p] = x] /\ holder' = None
        /\ UNCHANGED <<applied, version, dataset, facts>>
    BY <1>1, <1>7 DEF Unlock, Unlocking
  <2>3. x.pc \in {"identity", "run"} => 1..Known[p] \subseteq version
    <3>1. ASSUME proc[p].pc = "read" PROVE 1..Known[p] \subseteq version
      BY <1>1, <1>3, <2>2, <3>1, Constants
    <3>2. QED
      BY <2>1, <3>1
  <2> HIDE DEF x, n
  <2>4. QED
    BY <1>1, <1>3, <2>1, <2>2, <2>3, OneStep
    DEF SchemaTypeOK, NoMigrationRepeats, OneContract, Migrating
<1>8. QED
  BY <1>4, <1>5, <1>6, <1>7 DEF Migrate
-----------------------------------------------------------------------------
LEMMA SchemaStep == SchemaInv /\ [SchemaNext]_schemaVars => SchemaInv'
<1> SUFFICES ASSUME SchemaInv, [SchemaNext]_schemaVars PROVE SchemaInv'
  OBVIOUS
<1>1. CASE UNCHANGED schemaVars
  BY <1>1 DEF schemaVars, SchemaInv, SchemaTypeOK, Holding, NoMigrationRepeats, SchemaIsReady, Owned, OneContract
<1>2. ASSUME NEW p \in Process,
             \/ Connect(p) \/ TakeLock(p) \/ Migrate(p)
             \/ Identity(p) \/ Record(p) \/ End(p) \/ SessionEnds(p)
      PROVE  SchemaInv'
  BY <1>2, OutsideStep, LockStep, MigrateStep
<1>3. QED
  BY <1>1, <1>2 DEF SchemaNext

LEMMA SchemaInvariant == SchemaSpec => []SchemaInv
<1>1. QED
  BY SchemaInvInit, SchemaStep, PTL DEF SchemaSpec

\* The variables keep their types, whatever the builds know.
THEOREM SchemaTypes == SchemaSpec => []SchemaTypeOK
<1>1. SchemaInv => SchemaTypeOK
  BY DEF SchemaInv
<1>2. QED
  BY <1>1, SchemaInvariant, PTL

\* apply_migrations checks and applies in two statements; the session lock of
\* migrate and the shared transaction make it run each migration once, for any
\* number of overlapping startups and crashes.
THEOREM AppliedOnce == SchemaSpec => []NoMigrationRepeats
<1>1. SchemaInv => NoMigrationRepeats
  BY DEF SchemaInv
<1>2. QED
  BY <1>1, SchemaInvariant, PTL

\* A process that initializes its identity or records has the schema of its
\* build, also when builds of different age start at once.
THEOREM ReadyWhenUsed == SchemaSpec => []SchemaIsReady
<1>1. SchemaInv => SchemaIsReady
  BY DEF SchemaInv
<1>2. QED
  BY <1>1, SchemaInvariant, PTL

\* initialize_identity keeps the facts of different contracts apart.
THEOREM ContractsApart == SchemaSpec => []OneContract
<1>1. SchemaInv => OneContract
  BY DEF SchemaInv
<1>2. QED
  BY <1>1, SchemaInvariant, PTL
-----------------------------------------------------------------------------
(* Supervision: for any errors and any number of faults and restarts.      *)

\* A run that is being closed has an outcome.
OutcomeKnown == \A s \in Side : side[s].pc = "finish" => side[s].result \in {"ok"} \cup Error

\* A run is running while its side is between opening and closing it, or when
\* its startup was cut.
RunFollowsSide ==
    \A s \in Side : run[s] = "running" =>
        \/ side[s].pc \in {"open", "work", "finish"}
        \/ s = "enforcer" /\ side[s] = At("over", "cut")

\* The service returns when both sides are over.
BothOver == main \in {"ok", "failed"} => \A s \in Side : Over(s)

SupervisionInv ==
    TypeOK /\ OutcomeKnown /\ RunFollowsSide /\ BothOver /\ StopHasCause

\* The initial states satisfy the invariant.
LEMMA SupervisionInit == Init => SupervisionInv
<1> SUFFICES ASSUME Init
             PROVE  SupervisionInv
  OBVIOUS
<1>1. TypeOK
  <2>1. At("idle", "none") \in SideState
    BY DEF At, SideState
  <2>2. stop \in BOOLEAN
    BY DEF Init
  <2>3. side \in [Side -> SideState]
    BY <2>1 DEF Init, Fresh
  <2> QED
    BY <2>2, <2>3, SupervisionAssumption DEF Init, TypeOK
<1>2. OutcomeKnown /\ RunFollowsSide /\ BothOver /\ StopHasCause
  BY DEF Init, Fresh, At, OutcomeKnown, RunFollowsSide, BothOver, StopHasCause
<1> QED
  BY <1>1, <1>2 DEF SupervisionInv

\* What a step of a side leaves to check: the new place of that side, its run,
\* and that the channel is set only by a failure that must stop the other one.
LEMMA SideMoves ==
    ASSUME SupervisionInv, NEW s \in Side, NEW pc, pc # "over",
           NEW next \in SideState, Move(s, pc, next),
           faults' \in 0..MaxFaults,
           next.pc = "finish" => next.result \in {"ok"} \cup Error,
           NEW r \in {"none", "running", "stuck", "completed", "failed", "orphan"},
           run' = [run EXCEPT ![s] = r],
           r = "running" => \/ next.pc \in {"open", "work", "finish"}
                            \/ s = "enforcer" /\ next = At("over", "cut"),
           \/ UNCHANGED stop
           \/ /\ stop' = TRUE
              /\ next.pc = "over" /\ next.result \in Error
              /\ s = "node" \/ next.result # "upstream"
    PROVE  SupervisionInv'
<1>1. /\ Alive /\ side[s].pc = pc /\ side' = [side EXCEPT ![s] = next]
      /\ main' = main /\ starts' = starts
  BY DEF Move
<1>2. /\ side \in [Side -> SideState] /\ side'[s] = next
      /\ \A t \in Side \ {s} : side'[t] = side[t] /\ run'[t] = run[t]
      /\ run'[s] = r
  BY <1>1 DEF SupervisionInv, TypeOK
<1>3. TypeOK'
  BY <1>1, <1>2 DEF SupervisionInv, TypeOK
<1>4. OutcomeKnown' /\ RunFollowsSide'
  BY <1>1, <1>2 DEF SupervisionInv, OutcomeKnown, RunFollowsSide
<1>5. BothOver'
  BY <1>1 DEF Alive, BothOver
<1>6. StopHasCause'
  <2> SUFFICES ASSUME main' = "up", stop'
               PROVE  \E t \in Side : Failed(t)' /\ (t = "node" \/ side'[t].result # "upstream")
    BY DEF StopHasCause
  <2>1. CASE UNCHANGED stop
    <3>1. PICK t \in Side : Failed(t) /\ (t = "node" \/ side[t].result # "upstream")
      BY <1>1, <2>1 DEF SupervisionInv, StopHasCause
    <3>2. t # s
      BY <1>1, <3>1 DEF Failed, Over
    <3> QED
      BY <1>2, <3>1, <3>2 DEF Failed, Over
  <2>2. CASE ~UNCHANGED stop
    BY <1>2, <2>2 DEF Failed, Over
  <2> QED
    BY <2>1, <2>2
<1> QED
  BY <1>3, <1>4, <1>5, <1>6 DEF SupervisionInv
-----------------------------------------------------------------------------
\* Where an error takes a side.
LEMMA ErrorLeaves ==
    ASSUME SupervisionInv, NEW s \in Side, NEW pc, pc # "over", NEW e \in Error,
           Leaves(s, pc, e),
           faults' \in 0..MaxFaults,
           NEW r \in {"none", "stuck", "completed", "failed", "orphan"},
           run' = [run EXCEPT ![s] = r]
    PROVE  SupervisionInv'
<1> DEFINE next == IF Ends(s, e) THEN At("over", e) ELSE At("wait", "none")
<1>1. next \in SideState /\ next.pc \in {"over", "wait"}
  BY DEF At, SideState
<1>2. Move(s, pc, next)
  BY DEF Leaves
<1>3. \/ UNCHANGED stop
      \/ stop' = TRUE /\ next.pc = "over" /\ next.result \in Error
         /\ (s = "node" \/ next.result # "upstream")
  <2>1. CASE Ends(s, e)
    BY <2>1 DEF Leaves, At, Ends
  <2>2. CASE ~Ends(s, e)
    <3>1. stop' = stop
      BY <2>2 DEF Leaves, SupervisionInv, TypeOK
    <3> QED
      BY <3>1
  <2> QED
    BY <2>1, <2>2
<1> HIDE DEF next
<1> QED
  BY <1>1, <1>2, <1>3, SideMoves

\* A step of a side in which no call fails and the channel stays as it is.
LEMMA CalmMoves ==
    ASSUME SupervisionInv, NEW s \in Side, NEW pc, pc # "over",
           NEW next \in SideState, Move(s, pc, next), UNCHANGED stop, Calm,
           next.pc = "finish" => next.result \in {"ok"} \cup Error,
           NEW r \in {"none", "running", "stuck", "completed", "failed", "orphan"},
           run' = [run EXCEPT ![s] = r],
           r = "running" => \/ next.pc \in {"open", "work", "finish"}
                            \/ s = "enforcer" /\ next = At("over", "cut")
    PROVE  SupervisionInv'
<1>1. faults' \in 0..MaxFaults
  BY DEF Calm, SupervisionInv, TypeOK
<1> QED
  BY <1>1, SideMoves

\* A failing call leaves their counter in its range.
LEMMA FaultCounts == SupervisionInv /\ Fault => faults' \in 0..MaxFaults
BY SupervisionAssumption DEF Fault, SupervisionInv, TypeOK

\* A run that a step leaves alone.
LEMMA RunKept ==
    ASSUME SupervisionInv, NEW s \in Side, UNCHANGED run
    PROVE  /\ run[s] \in {"none", "running", "stuck", "completed", "failed", "orphan"}
           /\ run' = [run EXCEPT ![s] = run[s]]
BY DEF SupervisionInv, TypeOK

\* Steps between the attempts, in the startup and when it is cut.
LEMMA StartupStep ==
    ASSUME SupervisionInv,
           \/ Loop \/ Wake \/ NodeProbe
           \/ \E pc \in {"probe", "open"} : Cut(pc)
           \/ \E s \in Side : OpenRun(s) \/ Begin(s)
    PROVE  SupervisionInv'
<1>1. ASSUME NEW pc \in {"idle", "wait", "probe", "open"}, NEW s \in Side,
             NEW next \in SideState, next.pc \in {"idle", "probe", "work", "over"},
             pc = "open" => (s = "enforcer" /\ next = At("over", "cut")) \/ next.pc = "work",
             Move(s, pc, next), UNCHANGED <<stop, run>>, Calm
      PROVE  SupervisionInv'
  <2>1. side[s].pc = pc
    BY <1>1 DEF Move
  <2>2. run[s] = "running" => pc = "open"
    BY <2>1, <1>1 DEF SupervisionInv, RunFollowsSide, At
  <2> QED
    BY <1>1, <2>2, RunKept, CalmMoves
<1>2. \A pc \in {"idle", "probe", "work"} : At(pc, "none") \in SideState /\ At(pc, "none").pc = pc
  BY DEF At, SideState
<1>3. \A r \in {"ok", "cut"} : At("over", r) \in SideState /\ At("over", r).pc = "over"
  BY DEF At, SideState
<1>4. "enforcer" \in Side /\ "node" \in Side
  BY DEF Side
<1>5. CASE Loop
  BY <1>1, <1>2, <1>3, <1>4, <1>5 DEF Loop
<1>6. CASE Wake
  BY <1>1, <1>2, <1>4, <1>6 DEF Wake
<1>7. CASE NodeProbe
  BY <1>1, <1>2, <1>4, <1>7 DEF NodeProbe
<1>8. CASE \E pc \in {"probe", "open"} : Cut(pc)
  BY <1>1, <1>3, <1>4, <1>8 DEF Cut
<1>9. ASSUME NEW s \in Side, OpenRun(s)
      PROVE  SupervisionInv'
  <2>1. At("open", "none") \in SideState /\ At("open", "none").pc = "open"
    BY DEF At, SideState
  <2> QED
    BY <1>9, <2>1, CalmMoves DEF OpenRun
<1>10. ASSUME NEW s \in Side, Begin(s)
       PROVE  SupervisionInv'
  BY <1>1, <1>2, <1>10 DEF Begin
<1> QED
  BY <1>5, <1>6, <1>7, <1>8, <1>9, <1>10

\* Failures before there are workers.
LEMMA StartupFails ==
    ASSUME SupervisionInv, NEW s \in Side,
           \/ \E e \in Error : ProbeFails(s, e)
           \/ \E pc \in {"probe", "open"} : OpenFails(s, pc)
    PROVE  SupervisionInv'
<1>1. side[s].pc = "probe" => run[s] # "running"
  BY DEF SupervisionInv, RunFollowsSide, At
<1>2. ASSUME NEW e \in Error, ProbeFails(s, e)
      PROVE  SupervisionInv'
  <2>1. side[s].pc = "probe"
    BY <1>2 DEF ProbeFails, Leaves, Move
  <2> QED
    BY <1>1, <1>2, <2>1, RunKept, FaultCounts, ErrorLeaves DEF ProbeFails
<1>3. ASSUME NEW pc \in {"probe", "open"}, OpenFails(s, pc)
      PROVE  SupervisionInv'
  <2>1. "record" \in Error
    BY DEF Error
  <2>2. side[s].pc = pc
    BY <1>3 DEF OpenFails, Leaves, Move
  <2>3. CASE pc = "probe"
    <3>1. run' = run
      BY <1>3, <2>3 DEF OpenFails
    <3> QED
      BY <1>1, <1>3, <2>1, <2>2, <2>3, <3>1, RunKept, FaultCounts, ErrorLeaves DEF OpenFails
  <2>4. CASE pc = "open"
    BY <1>3, <2>1, <2>4, FaultCounts, ErrorLeaves DEF OpenFails
  <2> QED
    BY <2>3, <2>4
<1> QED
  BY <1>2, <1>3

\* The workers end, and the run is closed.
LEMMA EndStep ==
    ASSUME SupervisionInv, NEW s \in Side,
           \/ WorkStops(s) \/ (\E e \in Error : WorkFails(s, e))
           \/ FinishRun(s) \/ FinishFails(s)
    PROVE  SupervisionInv'
<1>1. \A r \in {"ok"} \cup Error :
          At("finish", r) \in SideState /\ At("finish", r).pc = "finish" /\ At("finish", r).result = r
  BY DEF At, SideState
<1>2. side[s].pc = "finish" => side[s].result \in {"ok"} \cup Error
  BY DEF SupervisionInv, OutcomeKnown
<1>3. CASE WorkStops(s)
  BY <1>1, <1>3, RunKept, CalmMoves DEF WorkStops
<1>4. ASSUME NEW e \in Error, WorkFails(s, e)
      PROVE  SupervisionInv'
  <2> DEFINE next == At("finish", e)
  <2>1. next \in SideState /\ next.pc = "finish" /\ next.result \in {"ok"} \cup Error
    BY <1>1
  <2>2. Move(s, "work", next) /\ UNCHANGED <<stop, run>> /\ faults' \in 0..MaxFaults
    BY <1>4, FaultCounts DEF WorkFails
  <2> HIDE DEF next
  <2> QED
    BY <2>1, <2>2, RunKept, SideMoves
<1>5. CASE FinishRun(s)
  <2>1. Closed(s) \in {"completed", "failed"}
    BY DEF Closed
  <2>2. CASE side[s].result = "ok"
    <3>1. At("over", "ok") \in SideState /\ At("over", "ok").pc = "over"
      BY DEF At, SideState
    <3>2. Move(s, "finish", At("over", "ok")) /\ UNCHANGED stop /\ Calm
      BY <1>5, <2>2 DEF FinishRun
    <3> QED
      BY <1>5, <2>1, <3>1, <3>2, CalmMoves DEF FinishRun
  <2>3. CASE side[s].result # "ok"
    <3>1. Leaves(s, "finish", side[s].result) /\ Calm
      BY <1>5, <2>3 DEF FinishRun
    <3>2. side[s].result \in Error
      BY <1>2, <2>3, <3>1 DEF Leaves, Move
    <3>3. faults' \in 0..MaxFaults
      BY <3>1 DEF Calm, SupervisionInv, TypeOK
    <3> QED
      BY <1>5, <2>1, <3>1, <3>2, <3>3, ErrorLeaves DEF FinishRun
  <2> QED
    BY <2>2, <2>3
<1>6. CASE FinishFails(s)
  <2> DEFINE e == IF s = "enforcer" /\ side[s].result # "ok" THEN side[s].result ELSE "record"
  <2>1. Leaves(s, "finish", e) /\ Fault /\ run' = [run EXCEPT ![s] = "stuck"]
    BY <1>6 DEF FinishFails
  <2>2. e \in Error
    BY <1>2, <2>1 DEF Leaves, Move, Error
  <2> HIDE DEF e
  <2> QED
    BY <2>1, <2>2, FaultCounts, ErrorLeaves
<1> QED
  BY <1>3, <1>4, <1>5, <1>6

\* The process itself: signals, its end, and a new start.
LEMMA ProcessStep ==
    ASSUME SupervisionInv, Signal \/ Forward \/ Return \/ Abort \/ Restart
    PROVE  SupervisionInv'
<1> USE DEF SupervisionInv
<1>1. CASE Signal
  BY <1>1 DEF Signal, TypeOK, OutcomeKnown, RunFollowsSide, BothOver, StopHasCause
<1>2. CASE Forward
  BY <1>2 DEF Forward, TypeOK, OutcomeKnown, RunFollowsSide, BothOver, StopHasCause
<1>3. CASE Return
  BY <1>3 DEF Return, Over, TypeOK, OutcomeKnown, RunFollowsSide, BothOver, StopHasCause
<1>4. CASE Abort
  BY <1>4 DEF Abort, TypeOK, OutcomeKnown, RunFollowsSide, BothOver, StopHasCause
<1>5. CASE Restart
  <2>1. /\ main' = "up" /\ stop' = FALSE /\ faults' = faults
        /\ side' = [s \in Side |-> At("idle", "none")]
        /\ starts' \in 0..MaxStarts
        /\ run' \in [Side -> {"none", "completed", "failed", "orphan"}]
    BY <1>5, SupervisionAssumption DEF Restart, Fresh, TypeOK
  <2>2. At("idle", "none") \in SideState
    BY DEF At, SideState
  <2>3. TypeOK'
    BY <2>1, <2>2 DEF TypeOK
  <2>4. OutcomeKnown' /\ RunFollowsSide' /\ BothOver' /\ StopHasCause'
    BY <2>1 DEF At, OutcomeKnown, RunFollowsSide, BothOver, StopHasCause
  <2> QED
    BY <2>3, <2>4
<1> QED
  BY <1>1, <1>2, <1>3, <1>4, <1>5

\* Every step keeps the invariant.
LEMMA SupervisionStep == SupervisionInv /\ [Next]_vars => SupervisionInv'
<1> SUFFICES ASSUME SupervisionInv, [Next]_vars
             PROVE  SupervisionInv'
  OBVIOUS
<1>1. CASE UNCHANGED vars
  BY <1>1 DEF vars, SupervisionInv, TypeOK, OutcomeKnown, RunFollowsSide, BothOver, Over,
              StopHasCause, Failed
<1>2. CASE Next
  <2>1. "enforcer" \in Side /\ "node" \in Side
    BY DEF Side
  <2>2. CASE EnforcerGoesOn
    BY <2>1, <2>2, StartupStep, EndStep DEF EnforcerGoesOn, GoesOn
  <2>3. CASE NodeGoesOn
    BY <2>1, <2>3, StartupStep, EndStep DEF NodeGoesOn, GoesOn
  <2>4. CASE \E s \in Side : Breaks(s)
    BY <2>4, StartupFails, EndStep DEF Breaks
  <2>5. CASE Signal \/ Forward \/ Return \/ Abort \/ Restart
    BY <2>5, ProcessStep
  <2> QED
    BY <1>2, <2>2, <2>3, <2>4, <2>5 DEF Next
<1> QED
  BY <1>1, <1>2

\* The invariant holds in every behaviour.
LEMMA SupervisionHolds == Spec => []SupervisionInv
BY SupervisionInit, SupervisionStep, PTL DEF Spec
-----------------------------------------------------------------------------
\* Types of the service process: sides, runs, faults and starts.
THEOREM SupervisionTypes == Spec => []TypeOK
<1>1. SupervisionInv => TypeOK
  BY DEF SupervisionInv
<1> QED
  BY <1>1, SupervisionHolds, PTL

\* Without a signal the sides are stopped only by an error that is none of the
\* enforcer's upstream (stop_on_error in run of node.rs).
THEOREM CauseOfStop == Spec => []StopHasCause
<1>1. SupervisionInv => StopHasCause
  BY DEF SupervisionInv
<1> QED
  BY <1>1, SupervisionHolds, PTL

\* When the service returns, only a startup that was cut leaves a run running
\* that the record would have closed (finish_run in run and monitor).
THEOREM RunsAreClosed == Spec => []UnclosedIsExplained
<1>1. SupervisionInv => UnclosedIsExplained
  BY DEF SupervisionInv, RunFollowsSide, BothOver, Over, At, UnclosedIsExplained
<1> QED
  BY <1>1, SupervisionHolds, PTL

=============================================================================

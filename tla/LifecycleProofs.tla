--------------------------- MODULE LifecycleProofs ---------------------------
(***************************************************************************)
(* The proofs about the lifecycle of the sidechains: the types, that no    *)
(* activation is lost, and that the history of a stream meets its blocks.  *)
(*                                                                         *)
(* The invariant relates three copies of the active sidechains - what the  *)
(* node says at its tip, what the state reader published last, and what    *)
(* the monitor took as its baseline - to the streams that are open.  The   *)
(* monitor may be behind the reader, but only while the reader has told it *)
(* so (Untold): whenever it has nothing left to hear, the streams and the  *)
(* additions it still has to make are exactly the selected sidechains of   *)
(* its baseline, the ones it put off aside.                                *)
(***************************************************************************)
EXTENDS Lifecycle, TLAPS

\* No two instances of one slot.
Apart(instances) == \A i, j \in instances : SlotOf[i] = SlotOf[j] => i = j

\* Every copy of the instances has at most one of each slot, and what a startup
\* expects is selected already.
SetsApart ==
    /\ Apart(current) /\ Apart(st.read) /\ Apart(st.expected) /\ Apart(st.baseline)
    /\ Selected(st.expected) = st.expected

\* Where the reader stands.
ReaderOK ==
    /\ st.live => st.pc \in {"before", "active", "after", "record", "announce", "wait"}
    /\ st.pc \in {"announce", "wait"} => st.live
    /\ ~st.live /\ st.pc = "record" => Selected(st.read) = st.expected
    /\ st.from <= Len(log)
    /\ ~st.live /\ st.pc \in {"active", "after", "record"} => st.from <= st.target

\* Before the startup is over, nothing is managed.
NothingManaged ==
    ~st.live =>
        /\ mon = Idle /\ deferred = {} /\ ~notified
        /\ \A s \in Slots : managed[s] = 0
        /\ \A w \in WorkerId : worker[w] = Free

\* A managed slot has a spawned worker, of an instance of that slot.
WorkersOK ==
    /\ \A s \in Slots : managed[s] # 0 =>
          /\ worker[managed[s]].exit # "free"
          /\ SlotOf[worker[managed[s]].inst] = s
    /\ \A w \in WorkerId : worker[w].exit # "free" =>
          worker[w].inst \in Instance /\ SlotOf[worker[w].inst] \in Slots

\* What the monitor still has to add is not there yet and was not put off.
MonitorOK ==
    /\ mon.from <= Len(log)
    /\ mon.pc \in {"wait", "read"} => mon.todo = {}
    /\ Apart(mon.todo)
    /\ \A i \in mon.todo : SlotOf[i] \in Slots /\ managed[SlotOf[i]] = 0 /\ i \notin deferred
    /\ Observed \cap deferred = {}

\* A change of the current instances that the monitor has not been told of.
Untold == notified \/ (st.pc = "announce" /\ st.changed)

\* The baseline is what is current, but for the time before the first reading
\* with one tip, in which the monitor rests.
BaselineOK ==
    st.live /\ current # st.baseline =>
        /\ st.retry /\ mon.pc = "wait" /\ ~Untold /\ deferred = {}
        /\ \A w \in WorkerId : ~worker[w].stop /\ worker[w].exit # "stopped"

\* The streams follow the baseline.
StreamsFollow ==
    st.live /\ mon.pc # "read" /\ ~Untold =>
        Observed \cup mon.todo = Selected(st.baseline) \ deferred

\* The inductive invariant.
LifeInv ==
    /\ TypeOK /\ SetsApart /\ ReaderOK /\ NothingManaged /\ WorkersOK /\ MonitorOK
    /\ BaselineOK /\ StreamsFollow /\ NoBlockBetween
-----------------------------------------------------------------------------
\* What the assumption says of the constants, fact by fact.
LEMMA Constants ==
  /\ \A b \in Block : Parent[b] \in Block \cup {NoBlock}
  /\ NoBlock \notin Block /\ Genesis \in Block
  /\ \A b \in Block : ActiveAt[b] \subseteq Instance
  /\ 0 \notin WorkerId /\ 1 \in 1..Attempts /\ Attempts \in Nat
  /\ MaxMoves \in Nat /\ MaxFaults \in Nat
  /\ 0 \in Position /\ Position \subseteq Nat
<1>1. /\ \A b \in Block : Parent[b] \in Block \cup {NoBlock}
      /\ NoBlock \notin Block /\ Genesis \in Block
      /\ \A b \in Block : ActiveAt[b] \subseteq Instance
      /\ 0 \notin WorkerId
  BY LifecycleAssumption DEF LifecycleAssumption
<1>2. Attempts \in Nat \ {0} /\ MaxMoves \in Nat /\ MaxFaults \in Nat
  BY LifecycleAssumption DEF LifecycleAssumption
<1>3. 1 \in 1..Attempts /\ 0 \in Position /\ Position \subseteq Nat
  BY <1>2 DEF Position
<1>4. QED
  BY <1>1, <1>2, <1>3

\* The active instances have slots of their own, and so have parts of them.
LEMMA ActiveApart == \A b \in Block : Apart(ActiveAt[b])
BY LifecycleAssumption DEF LifecycleAssumption, Apart

\* A part of a set of instances apart is apart.
LEMMA PartApart ==
  ASSUME NEW T, Apart(T), NEW S \in SUBSET T PROVE Apart(S)
BY DEF Apart

\* Selecting is idempotent, and what is selected is a part of the set.
LEMMA SelectedParts ==
  ASSUME NEW T
  PROVE  /\ Selected(T) \subseteq T
         /\ Selected(Selected(T)) = Selected(T)
         /\ Apart(T) => Apart(Selected(T))
BY DEF Selected, Apart

\* The reader of a process that is not running.
LEMMA AsleepFields ==
  /\ Asleep \in State
  /\ Asleep.pc = "down" /\ Asleep.live = FALSE /\ Asleep.from = 0 /\ Asleep.target = 0
  /\ Asleep.expected = {} /\ Asleep.read = {} /\ Asleep.baseline = {}
<1>1. Asleep \in State
  BY Constants DEF Asleep, State
<1>2. QED
  BY <1>1 DEF Asleep

\* A worker that was never spawned, or whose exit was taken.
LEMMA FreeFields ==
  Free \in Worker /\ Free.exit = "free" /\ Free.covered = TRUE /\ Free.stop = FALSE
BY Constants DEF Free, Worker

\* The monitor with nothing to do.
LEMMA IdleFields ==
  /\ Idle \in [pc : {"wait", "read", "open", "target"}, todo : SUBSET Instance, from : Position]
  /\ Idle.pc = "wait" /\ Idle.todo = {} /\ Idle.from = 0
BY Constants DEF Idle

\* The process is off: whatever is current is in the record only.
LEMMA GoneOff ==
  ASSUME LifeInv, NEW pc \in {"down", "refused"}, Gone(pc),
         UNCHANGED <<tip, log, current>>, faults' \in 0..MaxFaults
  PROVE  LifeInv'
<1>1. /\ st' \in State /\ st'.pc = pc /\ st'.live = FALSE /\ st'.from = 0
      /\ st'.expected = {} /\ st'.read = {} /\ st'.baseline = {}
  BY AsleepFields DEF Gone, State
<1>2. /\ mon' = Idle /\ deferred' = {} /\ notified' = FALSE
      /\ managed' = [s \in Slots |-> 0] /\ worker' = [w \in WorkerId |-> Free]
      /\ block' = [hash |-> Genesis, fresh |-> FALSE] /\ poll' = NoBlock
  BY DEF Gone
<1>3. Observed' = {}
  BY <1>2 DEF Observed
<1>4. TypeOK'
  <2>1. /\ block' \in [hash : Block, fresh : BOOLEAN] /\ poll' \in Block \cup {NoBlock}
        /\ mon' \in [pc : {"wait", "read", "open", "target"}, todo : SUBSET Instance,
                     from : Position]
        /\ managed' \in [Slots -> WorkerId \cup {0}] /\ worker' \in [WorkerId -> Worker]
    BY <1>2, Constants, IdleFields, FreeFields
  <2>2. QED
    BY <1>1, <1>2, <2>1 DEF LifeInv, TypeOK
<1>5. SetsApart'
  BY <1>1 DEF LifeInv, SetsApart, Apart, Selected
<1>6. ReaderOK'
  <2>1. Len(log') \in Nat
    BY DEF LifeInv, TypeOK
  <2>2. QED
    BY <1>1, <2>1 DEF ReaderOK
<1>7. NothingManaged'
  BY <1>2 DEF NothingManaged
<1>8. WorkersOK'
  BY <1>2, FreeFields DEF WorkersOK
<1>9. MonitorOK'
  <2>1. Len(log') \in Nat
    BY DEF LifeInv, TypeOK
  <2>2. QED
    BY <1>2, <2>1, IdleFields DEF MonitorOK, Apart
<1>10. BaselineOK' /\ StreamsFollow'
  BY <1>1 DEF BaselineOK, StreamsFollow
<1>11. NoBlockBetween'
  BY <1>2, FreeFields DEF NoBlockBetween
<1>12. QED
  BY <1>4, <1>5, <1>6, <1>7, <1>8, <1>9, <1>10, <1>11 DEF LifeInv

\* The invariant holds before the first startup.
LEMMA LifeInit == Init => LifeInv
<1> SUFFICES ASSUME Init PROVE LifeInv
  OBVIOUS
<1>1. /\ st.pc = "down" /\ st.live = FALSE /\ st.from = 0
      /\ st.expected = {} /\ st.read = {} /\ st.baseline = {}
  BY AsleepFields DEF Init
<1>2. /\ mon = Idle /\ deferred = {} /\ notified = FALSE /\ current = {} /\ log = <<>>
      /\ managed = [s \in Slots |-> 0] /\ worker = [w \in WorkerId |-> Free]
  BY DEF Init
<1>3. Observed = {}
  BY <1>2 DEF Observed
<1>4. Len(log) = 0
  BY <1>2
<1>5. TypeOK
  <2>1. /\ block \in [hash : Block, fresh : BOOLEAN] /\ poll \in Block \cup {NoBlock}
        /\ mon \in [pc : {"wait", "read", "open", "target"}, todo : SUBSET Instance,
                     from : Position]
        /\ managed \in [Slots -> WorkerId \cup {0}] /\ worker \in [WorkerId -> Worker]
    BY <1>2, Constants, IdleFields, FreeFields DEF Init
  <2>2. tip \in Block /\ log \in Seq(Block) /\ Len(log) <= MaxMoves /\ faults \in 0..MaxFaults
    BY <1>2, <1>4, Constants DEF Init
  <2>3. QED
    BY <1>2, <2>1, <2>2, AsleepFields DEF TypeOK, Init
<1>6. SetsApart
  BY <1>1, <1>2 DEF SetsApart, Apart, Selected
<1>7. ReaderOK
  BY <1>1, <1>4 DEF ReaderOK
<1>8. NothingManaged
  BY <1>2 DEF NothingManaged
<1>9. WorkersOK
  BY <1>2, FreeFields DEF WorkersOK
<1>10. MonitorOK
  BY <1>2, <1>4, IdleFields DEF MonitorOK, Apart
<1>11. BaselineOK /\ StreamsFollow
  BY <1>1 DEF BaselineOK, StreamsFollow
<1>12. NoBlockBetween
  BY <1>2, FreeFields DEF NoBlockBetween
<1>13. QED
  BY <1>5, <1>6, <1>7, <1>8, <1>9, <1>10, <1>11, <1>12 DEF LifeInv

\* A step that leaves the current instances, the monitor and the workers alone.
LEMMA QuietStep ==
  ASSUME LifeInv,
         UNCHANGED <<current, mon, managed, worker, deferred, notified>>,
         tip' \in Block, log' \in Seq(Block), Len(log') <= MaxMoves, Len(log) <= Len(log'),
         faults' \in 0..MaxFaults, st' \in State,
         block' \in [hash : Block, fresh : BOOLEAN], poll' \in Block \cup {NoBlock},
         ReaderOK', SetsApart',
         st'.live = st.live,
         st.live => st'.baseline = st.baseline /\ st'.retry = st.retry,
         Untold' <=> Untold
  PROVE  LifeInv'
<1>1. TypeOK'
  BY DEF LifeInv, TypeOK
<1>2. NothingManaged'
  BY DEF LifeInv, NothingManaged
<1>3. WorkersOK'
  BY DEF LifeInv, WorkersOK
<1>4. Observed' = Observed
  BY DEF Observed
<1>5. MonitorOK'
  <2>1. mon.from \in Nat /\ Len(log) \in Nat /\ Len(log') \in Nat
    <3>1. mon.from \in Position
      BY DEF LifeInv, TypeOK
    <3>2. Len(log) \in Nat /\ Len(log') \in Nat
      BY DEF LifeInv, TypeOK
    <3>3. QED
      BY <3>1, <3>2, Constants
  <2>2. mon'.from <= Len(log')
    BY <2>1 DEF LifeInv, MonitorOK
  <2>3. QED
    BY <1>4, <2>2 DEF LifeInv, MonitorOK
<1>6. BaselineOK'
  BY DEF LifeInv, BaselineOK
<1>7. StreamsFollow'
  BY <1>4 DEF LifeInv, StreamsFollow
<1>8. NoBlockBetween'
  BY DEF LifeInv, NoBlockBetween
<1>9. QED
  BY <1>1, <1>2, <1>3, <1>5, <1>6, <1>7, <1>8 DEF LifeInv

\* A step of the reader that changes nothing but where it stands.
LEMMA ReaderStep ==
  ASSUME LifeInv, NEW e \in State, st' = e,
         UNCHANGED <<world, faults, current, block, poll, notified, streams>>,
         Apart(e.read), Apart(e.expected), Apart(e.baseline),
         Selected(e.expected) = e.expected,
         e.live = st.live, st.live => e.baseline = st.baseline /\ e.retry = st.retry,
         st.live => e.pc \in {"before", "active", "after", "record", "wait"},
         ~st.live => e.pc \notin {"announce", "wait"},
         ~st.live /\ e.pc = "record" => Selected(e.read) = e.expected,
         e.from <= Len(log),
         ~st.live /\ e.pc \in {"active", "after", "record"} => e.from <= e.target,
         st.pc # "announce"
  PROVE  LifeInv'
<1>1. UNCHANGED <<tip, log, faults, current, block, poll, notified, mon, managed, worker, deferred>>
  BY DEF world, streams
<1>2. /\ tip' \in Block /\ log' \in Seq(Block) /\ Len(log') <= MaxMoves /\ Len(log) <= Len(log')
      /\ faults' \in 0..MaxFaults
      /\ block' \in [hash : Block, fresh : BOOLEAN] /\ poll' \in Block \cup {NoBlock}
  BY <1>1 DEF LifeInv, TypeOK
<1>3. ReaderOK'
  BY <1>1 DEF ReaderOK
<1>4. SetsApart'
  BY <1>1 DEF LifeInv, SetsApart
<1>5. Untold' <=> Untold
  BY <1>1 DEF Untold
<1>6. QED
  BY <1>1, <1>2, <1>3, <1>4, <1>5, QuietStep

\* What the reader's state says at any time.
LEMMA ReaderFacts ==
  ASSUME LifeInv
  PROVE  /\ st \in State /\ tip \in Block /\ Len(log) \in Nat /\ Len(log) \in Position
         /\ Apart(st.read) /\ Apart(st.expected) /\ Apart(st.baseline) /\ Apart(current)
         /\ Selected(st.expected) = st.expected
         /\ Apart(ActiveAt[tip]) /\ ActiveAt[tip] \subseteq Instance
         /\ st.live => st.pc \in {"before", "active", "after", "record", "announce", "wait"}
         /\ st.pc \in {"announce", "wait"} => st.live
         /\ ~st.live /\ st.pc = "record" => Selected(st.read) = st.expected
         /\ st.from <= Len(log)
         /\ ~st.live /\ st.pc \in {"active", "after", "record"} => st.from <= st.target
<1>1. st \in State /\ tip \in Block /\ log \in Seq(Block) /\ Len(log) <= MaxMoves
  BY DEF LifeInv, TypeOK
<1>2. Len(log) \in Nat /\ Len(log) \in Position
  BY <1>1, Constants DEF Position
<1>3. Apart(ActiveAt[tip]) /\ ActiveAt[tip] \subseteq Instance
  BY <1>1, Constants, ActiveApart
<1>4. QED
  BY <1>1, <1>2, <1>3 DEF LifeInv, ReaderOK, SetsApart

\* Before the startup is over: the first reading.
LEMMA PreparingStep ==
  ASSUME LifeInv, Start \/ Expect \/ Subscribe \/ IdentitiesMoved \/ SnapshotMoved \/ AcceptSnapshot
  PROVE  LifeInv'
<1>1. CASE Start
  <2> DEFINE e == [Asleep EXCEPT !.pc = "expect"]
  <2>1. /\ e \in State /\ e.pc = "expect" /\ e.live = FALSE /\ e.from = 0
        /\ e.read = {} /\ e.expected = {} /\ e.baseline = {}
    BY AsleepFields DEF State
  <2>2. st' = e /\ st.pc \in {"down", "refused"} /\ UNCHANGED <<world, faults, current, block, poll, notified, streams>>
    BY <1>1 DEF Start, Stepping
  <2> HIDE DEF e
  <2>3. ~st.live
    BY <2>2, ReaderFacts
  <2>4. /\ Apart(e.read) /\ Apart(e.expected) /\ Apart(e.baseline)
        /\ Selected(e.expected) = e.expected
    BY <2>1 DEF Apart, Selected
  <2>5. e.from <= Len(log) /\ st.pc # "announce" /\ e.live = st.live
    <3>1. e.from <= Len(log) /\ st.pc # "announce" /\ ~st.live /\ st.live \in BOOLEAN
      BY <2>1, <2>2, ReaderFacts DEF State
    <3>2. QED
      BY <2>1, <3>1
  <2>6. QED
    BY <2>1, <2>2, <2>3, <2>4, <2>5, ReaderStep
<1>2. CASE Expect
  <2> DEFINE e == [st EXCEPT !.pc = "subscribe", !.expected = Selected(ActiveAt[tip])]
  <2>0. Selected(ActiveAt[tip]) \subseteq Instance /\ Apart(Selected(ActiveAt[tip]))
        /\ Selected(Selected(ActiveAt[tip])) = Selected(ActiveAt[tip])
    BY ReaderFacts, SelectedParts
  <2>1. /\ e \in State /\ e.pc = "subscribe" /\ e.live = st.live /\ e.from = st.from
        /\ e.read = st.read /\ e.expected = Selected(ActiveAt[tip]) /\ e.baseline = st.baseline
        /\ e.retry = st.retry
    BY <2>0, ReaderFacts DEF State
  <2>2. st' = e /\ st.pc = "expect" /\ UNCHANGED <<world, faults, current, block, poll, notified, streams>>
    BY <1>2 DEF Expect, Stepping
  <2> HIDE DEF e
  <2>3. ~st.live
    BY <2>2, ReaderFacts
  <2>4. QED
    BY <2>0, <2>1, <2>2, <2>3, ReaderFacts, ReaderStep
<1>3. CASE Subscribe
  <2> DEFINE e == [st EXCEPT !.pc = "before", !.attempt = 1, !.from = Len(log)]
  <2>1. /\ e \in State /\ e.pc = "before" /\ e.live = st.live /\ e.from = Len(log)
        /\ e.read = st.read /\ e.expected = st.expected /\ e.baseline = st.baseline
        /\ e.retry = st.retry
    BY Constants, ReaderFacts DEF State
  <2>2. st' = e /\ st.pc = "subscribe" /\ UNCHANGED <<world, faults, current, block, poll, notified, streams>>
    BY <1>3 DEF Subscribe, Stepping
  <2> HIDE DEF e
  <2>3. ~st.live /\ Len(log) <= Len(log)
    BY <2>2, ReaderFacts
  <2>4. QED
    BY <2>1, <2>2, <2>3, ReaderFacts, ReaderStep
<1>4. CASE IdentitiesMoved
  <2> DEFINE e == [Asleep EXCEPT !.pc = "expect", !.round = st.round + 1]
  <2>0. st.round + 1 \in 1..Attempts
    <3>1. st.round \in 1..Attempts /\ st.round < Attempts
      BY <1>4, ReaderFacts DEF IdentitiesMoved, State
    <3>2. QED
      BY <3>1, Constants
  <2>1. /\ e \in State /\ e.pc = "expect" /\ e.live = FALSE /\ e.from = 0
        /\ e.read = {} /\ e.expected = {} /\ e.baseline = {}
    BY <2>0, AsleepFields DEF State
  <2>2. st' = e /\ st.pc = "after" /\ ~st.live /\ UNCHANGED <<world, faults, current, block, poll, notified, streams>>
    BY <1>4 DEF IdentitiesMoved, SnapshotTaken, Stepping
  <2> HIDE DEF e
  <2>4. /\ Apart(e.read) /\ Apart(e.expected) /\ Apart(e.baseline)
        /\ Selected(e.expected) = e.expected
    BY <2>1 DEF Apart, Selected
  <2>5. e.from <= Len(log) /\ st.pc # "announce" /\ e.live = st.live
    <3>1. e.from <= Len(log) /\ st.pc # "announce" /\ ~st.live /\ st.live \in BOOLEAN
      BY <2>1, <2>2, ReaderFacts DEF State
    <3>2. QED
      BY <2>1, <3>1
  <2>6. QED
    BY <2>1, <2>2, <2>4, <2>5, ReaderStep
<1>5. CASE SnapshotMoved
  <2> DEFINE e == [st EXCEPT !.pc = "before", !.attempt = @ + 1, !.read = {}]
  <2>0. st.attempt + 1 \in 1..Attempts
    <3>1. st.attempt \in 1..Attempts /\ st.attempt < Attempts
      BY <1>5, ReaderFacts DEF SnapshotMoved, State
    <3>2. QED
      BY <3>1, Constants
  <2>1. /\ e \in State /\ e.pc = "before" /\ e.live = st.live /\ e.from = st.from
        /\ e.read = {} /\ e.expected = st.expected /\ e.baseline = st.baseline
        /\ e.retry = st.retry
    BY <2>0, ReaderFacts DEF State
  <2>2. st' = e /\ st.pc = "after" /\ ~st.live /\ UNCHANGED <<world, faults, current, block, poll, notified, streams>>
    BY <1>5 DEF SnapshotMoved, Stepping
  <2> HIDE DEF e
  <2>4. Apart({})
    BY DEF Apart
  <2>5. QED
    BY <2>1, <2>2, <2>4, ReaderFacts, ReaderStep
<1>6. CASE AcceptSnapshot
  <2> DEFINE e == [st EXCEPT !.pc = "record", !.matched = SnapshotMatches]
  <2>0. SnapshotMatches \in BOOLEAN
    BY DEF SnapshotMatches
  <2>1. /\ e \in State /\ e.pc = "record" /\ e.live = st.live /\ e.from = st.from
        /\ e.read = st.read /\ e.expected = st.expected /\ e.baseline = st.baseline
        /\ e.retry = st.retry /\ e.target = st.target
    <3> HIDE DEF SnapshotMatches
    <3>1. QED
      BY <2>0, ReaderFacts DEF State
  <2>2. /\ st' = e /\ st.pc = "after" /\ ~st.live /\ Selected(st.read) = st.expected
        /\ UNCHANGED <<world, faults, current, block, poll, notified, streams>>
    BY <1>6 DEF AcceptSnapshot, SnapshotTaken, Stepping
  <2> HIDE DEF e
  <2>5. QED
    BY <2>1, <2>2, ReaderFacts, ReaderStep
<1>7. QED
  BY <1>1, <1>2, <1>3, <1>4, <1>5, <1>6

\* The calls of a reading.
LEMMA ReadingStep ==
  ASSUME LifeInv, ReadBefore \/ ReadAnchor \/ ReadActive \/ ReadAfter
  PROVE  LifeInv'
<1>1. CASE ReadBefore
  <2> DEFINE next == IF st.live THEN "active" ELSE "anchor"
             e == [st EXCEPT !.pc = next, !.before = tip]
  <2>0. next \in {"active", "anchor"} /\ (st.live => next = "active") /\ (~st.live => next = "anchor")
    BY ReaderFacts DEF State
  <2>1. /\ e \in State /\ e.pc = next /\ e.live = st.live /\ e.from = st.from
        /\ e.read = st.read /\ e.expected = st.expected /\ e.baseline = st.baseline
        /\ e.retry = st.retry /\ e.target = st.target
    <3> HIDE DEF next
    <3>1. QED
      BY <2>0, ReaderFacts DEF State
  <2>2. st' = e /\ st.pc = "before" /\ UNCHANGED <<world, faults, current, block, poll, notified, streams>>
    BY <1>1 DEF ReadBefore, Stepping
  <2> HIDE DEF e, next
  <2>3. QED
    BY <2>0, <2>1, <2>2, ReaderFacts, ReaderStep
<1>2. CASE ReadAnchor
  <2> DEFINE e == [st EXCEPT !.pc = "active", !.anchor = tip, !.target = Len(log)]
  <2>1. /\ e \in State /\ e.pc = "active" /\ e.live = st.live /\ e.from = st.from
        /\ e.read = st.read /\ e.expected = st.expected /\ e.baseline = st.baseline
        /\ e.retry = st.retry /\ e.target = Len(log)
    BY ReaderFacts DEF State
  <2>2. st' = e /\ st.pc = "anchor" /\ UNCHANGED <<world, faults, current, block, poll, notified, streams>>
    BY <1>2 DEF ReadAnchor, Stepping
  <2> HIDE DEF e
  <2>3. QED
    BY <2>1, <2>2, ReaderFacts, ReaderStep
<1>3. CASE ReadActive
  <2> DEFINE e == [st EXCEPT !.pc = "after", !.read = ActiveAt[tip]]
  <2>1. /\ e \in State /\ e.pc = "after" /\ e.live = st.live /\ e.from = st.from
        /\ e.read = ActiveAt[tip] /\ e.expected = st.expected /\ e.baseline = st.baseline
        /\ e.retry = st.retry /\ e.target = st.target
    BY ReaderFacts DEF State
  <2>2. st' = e /\ st.pc = "active" /\ UNCHANGED <<world, faults, current, block, poll, notified, streams>>
    BY <1>3 DEF ReadActive, Stepping
  <2> HIDE DEF e
  <2>3. QED
    BY <2>1, <2>2, ReaderFacts, ReaderStep
<1>4. CASE ReadAfter
  <2> DEFINE same == st.before = tip
             e == [st EXCEPT !.pc = "record", !.matched = same]
  <2>0. same \in BOOLEAN
    OBVIOUS
  <2>1. /\ e \in State /\ e.pc = "record" /\ e.live = st.live /\ e.from = st.from
        /\ e.read = st.read /\ e.expected = st.expected /\ e.baseline = st.baseline
        /\ e.retry = st.retry /\ e.target = st.target
    <3> HIDE DEF same
    <3>1. QED
      BY <2>0, ReaderFacts DEF State
  <2>2. st' = e /\ st.pc = "after" /\ st.live /\ UNCHANGED <<world, faults, current, block, poll, notified, streams>>
    BY <1>4 DEF ReadAfter, Stepping
  <2> HIDE DEF e, same
  <2>3. QED
    BY <2>1, <2>2, ReaderFacts, ReaderStep
<1>5. QED
  BY <1>1, <1>2, <1>3, <1>4

\* A step of the running reader that leaves the monitor and the workers alone.
LEMMA StreamsKept ==
  ASSUME LifeInv,
         UNCHANGED <<tip, log, faults, block, poll, mon, managed, worker, deferred>>,
         st.live, current' \in SUBSET Instance, notified' \in BOOLEAN,
         st' \in State, st'.live = TRUE, ReaderOK', SetsApart', BaselineOK', StreamsFollow'
  PROVE  LifeInv'
<1>1. TypeOK'
  BY DEF LifeInv, TypeOK
<1>2. NothingManaged'
  BY DEF NothingManaged
<1>3. WorkersOK'
  BY DEF LifeInv, WorkersOK
<1>4. MonitorOK'
  BY DEF LifeInv, MonitorOK, Observed
<1>5. NoBlockBetween'
  BY DEF LifeInv, NoBlockBetween
<1>6. QED
  BY <1>1, <1>2, <1>3, <1>4, <1>5 DEF LifeInv

\* The reader that waits keeps the baseline and the retry it was left with.
LEMMA RestingFields ==
  ASSUME LifeInv
  PROVE  /\ Resting \in State /\ Resting.pc = "wait" /\ Resting.live = TRUE
         /\ Resting.baseline = st.baseline /\ Resting.retry = st.retry
         /\ Resting.read = {} /\ Resting.expected = {} /\ Resting.from = 0
BY ReaderFacts, AsleepFields DEF Resting, State

\* What is recorded becomes current and the baseline at once.
LEMMA RecordReadingStep ==
  ASSUME LifeInv, RecordReading
  PROVE  LifeInv'
<1> DEFINE changed == st.matched /\ st.read # st.baseline
           again == ~st.matched
           e == [st EXCEPT !.pc = "announce", !.failed = FALSE, !.refreshed = st.trigger,
                           !.retry = again, !.baseline = BaselineAfter, !.changed = changed]
<1>0. st \in State /\ st.read \in SUBSET Instance /\ st.baseline \in SUBSET Instance
      /\ current \in SUBSET Instance /\ Apart(st.read) /\ Apart(st.baseline) /\ Apart(current)
      /\ st.matched \in BOOLEAN /\ st.trigger \in Block
  BY ReaderFacts DEF State, LifeInv, TypeOK
<1>1. /\ BaselineAfter \in SUBSET Instance /\ Apart(BaselineAfter)
      /\ CurrentAfter \in SUBSET Instance /\ Apart(CurrentAfter)
      /\ (st.matched => BaselineAfter = st.read /\ CurrentAfter = st.read)
      /\ (~st.matched => BaselineAfter = st.baseline /\ CurrentAfter = current)
  BY <1>0 DEF BaselineAfter, CurrentAfter
<1>2. changed \in BOOLEAN /\ again \in BOOLEAN
      /\ (changed => st.matched) /\ (~changed /\ st.matched => st.read = st.baseline)
      /\ (~st.matched => again /\ ~changed)
  OBVIOUS
<1>3. /\ st' = e /\ st.pc = "record" /\ st.live /\ current' = CurrentAfter
      /\ UNCHANGED <<tip, log, faults, block, poll, notified, mon, managed, worker, deferred>>
  BY DEF RecordReading, world, streams
<1> HIDE DEF changed, again
<1>4. /\ e \in State /\ e.pc = "announce" /\ e.live = st.live /\ e.from = st.from
      /\ e.read = st.read /\ e.expected = st.expected /\ e.baseline = BaselineAfter
      /\ e.retry = again /\ e.changed = changed
  BY <1>0, <1>1, <1>2 DEF State
<1> HIDE DEF e
<1>5. ReaderOK'
  BY <1>3, <1>4, ReaderFacts DEF ReaderOK
<1>6. SetsApart'
  BY <1>1, <1>3, <1>4, ReaderFacts DEF SetsApart
<1>7. BaselineOK'
  <2>1. CASE st.matched
    BY <1>1, <1>3, <1>4, <2>1 DEF BaselineOK
  <2>2. CASE ~st.matched
    <3>1. ~Untold' <=> ~notified
      BY <1>2, <1>3, <1>4, <2>2 DEF Untold
    <3>2. Untold => notified
      BY <1>3 DEF Untold
    <3>3. QED
      BY <1>1, <1>2, <1>3, <1>4, <2>2, <3>1, <3>2 DEF LifeInv, BaselineOK, Untold
  <2>3. QED
    BY <2>1, <2>2
<1>8. StreamsFollow'
  <2>1. Observed' = Observed
    BY <1>3 DEF Observed
  <2>2. Untold => notified
    BY <1>3 DEF Untold
  <2>3. ~Untold' => BaselineAfter = st.baseline /\ ~Untold
    BY <1>1, <1>2, <1>3, <1>4, <2>2 DEF Untold
  <2>4. QED
    BY <1>3, <1>4, <2>1, <2>3 DEF LifeInv, StreamsFollow
<1>9. e.live = TRUE
  BY <1>0, <1>3, <1>4 DEF State
<1>10. notified' \in BOOLEAN
  BY <1>3 DEF LifeInv, TypeOK
<1>11. QED
  BY <1>1, <1>3, <1>4, <1>5, <1>6, <1>7, <1>8, <1>9, <1>10, StreamsKept

\* The monitor is told, or nothing has changed for it.
LEMMA AnnounceStep ==
  ASSUME LifeInv, Announce
  PROVE  LifeInv'
<1> DEFINE again == [Resting EXCEPT !.pc = "before", !.attempt = st.attempt + 1,
                                    !.trigger = st.trigger]
<1>0. st \in State /\ st.live = TRUE /\ st.pc = "announce" /\ st.trigger \in Block
      /\ st.attempt \in 1..Attempts /\ st.changed \in BOOLEAN /\ notified \in BOOLEAN
  BY ReaderFacts DEF State, Announce, LifeInv, TypeOK
<1>1. PICK pc \in {"wait", "before"} :
         /\ st'.pc = pc /\ st' \in State /\ st'.live = TRUE
         /\ st'.baseline = st.baseline /\ st'.retry = st.retry
         /\ st'.read = {} /\ st'.expected = {} /\ st'.from = 0
  <2>1. CASE st' = Resting
    BY <2>1, RestingFields
  <2>2. CASE st' = again /\ st.attempt < Attempts
    <3>1. st.attempt + 1 \in 1..Attempts
      BY <1>0, <2>2, Constants
    <3>2. /\ again.pc = "before" /\ again \in State /\ again.live = TRUE
          /\ again.baseline = st.baseline /\ again.retry = st.retry
          /\ again.read = {} /\ again.expected = {} /\ again.from = 0
      BY <1>0, <3>1, RestingFields DEF State
    <3> HIDE DEF again
    <3>3. QED
      BY <2>2, <3>2
  <2>3. QED
    BY <2>1, <2>2 DEF Announce
<1>2. /\ notified' = (notified \/ st.changed) /\ current' = current
      /\ UNCHANGED <<tip, log, faults, block, poll, mon, managed, worker, deferred>>
  BY DEF Announce, world, streams
<1>3. Untold' <=> Untold
  BY <1>0, <1>1, <1>2 DEF Untold
<1>4. ReaderOK'
  BY <1>1, <1>2, ReaderFacts DEF ReaderOK
<1>5. SetsApart'
  <2>1. Apart(st'.read) /\ Apart(st'.expected) /\ Selected(st'.expected) = st'.expected
    BY <1>1 DEF Apart, Selected
  <2>2. QED
    BY <1>1, <1>2, <2>1, ReaderFacts DEF SetsApart
<1>6. BaselineOK'
  BY <1>0, <1>1, <1>2, <1>3 DEF LifeInv, BaselineOK
<1>7. Observed' = Observed
  BY <1>2 DEF Observed
<1>8. StreamsFollow'
  BY <1>0, <1>1, <1>2, <1>3, <1>7 DEF LifeInv, StreamsFollow
<1>9. notified' \in BOOLEAN /\ current' \in SUBSET Instance
  BY <1>0, <1>2 DEF LifeInv, TypeOK
<1>10. QED
  BY <1>0, <1>1, <1>2, <1>4, <1>5, <1>6, <1>8, <1>9, StreamsKept

\* A report or a timer starts a reading; a failed call ends one; the poll and the
\* chain go on.
LEMMA OutsideStep ==
  ASSUME LifeInv,
         Wake \/ ReadFails \/ PollRead \/ PollReport \/ Disconnect \/ \E b \in Block : Connect(b)
  PROVE  LifeInv'
<1>0. /\ tip \in Block /\ log \in Seq(Block) /\ Len(log) <= MaxMoves /\ Len(log) \in Nat
      /\ Len(log) <= Len(log) /\ MaxMoves \in Nat /\ MaxFaults \in Nat
      /\ faults \in 0..MaxFaults /\ st \in State
      /\ block \in [hash : Block, fresh : BOOLEAN] /\ poll \in Block \cup {NoBlock}
      /\ ReaderOK /\ SetsApart
  BY Constants DEF LifeInv, TypeOK
<1>1. CASE Wake
  <2> DEFINE e == [st EXCEPT !.pc = "before", !.trigger = block.hash]
  <2>0. block.hash \in Block /\ [block EXCEPT !.fresh = FALSE] \in [hash : Block, fresh : BOOLEAN]
    BY <1>0
  <2>1. /\ e \in State /\ e.pc = "before" /\ e.live = st.live /\ e.from = st.from
        /\ e.read = st.read /\ e.expected = st.expected /\ e.baseline = st.baseline
        /\ e.retry = st.retry /\ e.target = st.target
    BY <1>0, <2>0 DEF State
  <2>2. /\ st' = e \/ st' = st
        /\ st.pc = "wait" /\ block' = [block EXCEPT !.fresh = FALSE]
        /\ UNCHANGED <<tip, log, faults, current, poll, notified, mon, managed, worker, deferred>>
    BY <1>1 DEF Wake, world, streams
  <2> HIDE DEF e
  <2>3. ReaderOK'
    BY <1>0, <2>1, <2>2 DEF ReaderOK
  <2>4. SetsApart'
    BY <1>0, <2>1, <2>2 DEF SetsApart
  <2>5. Untold' <=> Untold
    BY <2>1, <2>2 DEF Untold
  <2>6. st' \in State /\ st'.live = st.live /\ st'.baseline = st.baseline /\ st'.retry = st.retry
    BY <1>0, <2>1, <2>2
  <2>7. block' \in [hash : Block, fresh : BOOLEAN]
    BY <2>0, <2>2
  <2>8. QED
    BY <1>0, <2>2, <2>3, <2>4, <2>5, <2>6, <2>7, QuietStep
<1>2. CASE ReadFails
  <2>0. faults' \in 0..MaxFaults
    BY <1>0, <1>2 DEF ReadFails, Fault
  <2>1. CASE Gone("down")
    BY <1>2, <2>0, <2>1, GoneOff DEF ReadFails, world
  <2>2. CASE st.live /\ st' = [Resting EXCEPT !.failed = TRUE]
             /\ UNCHANGED <<block, poll, notified, streams>>
    <3> DEFINE e == [Resting EXCEPT !.failed = TRUE]
    <3>1. /\ e \in State /\ e.pc = "wait" /\ e.live = TRUE
          /\ e.baseline = st.baseline /\ e.retry = st.retry
          /\ e.read = {} /\ e.expected = {} /\ e.from = 0
      BY RestingFields DEF State
    <3>2. /\ st' = e /\ st.pc # "announce"
          /\ UNCHANGED <<tip, log, current, block, poll, notified, mon, managed, worker, deferred>>
      BY <1>2, <2>2 DEF ReadFails, Reading, world, streams
    <3> HIDE DEF e
    <3>3. ReaderOK'
      BY <1>0, <3>1, <3>2 DEF ReaderOK
    <3>4. SetsApart'
      <4>1. Apart(e.read) /\ Apart(e.expected) /\ Selected(e.expected) = e.expected
        BY <3>1 DEF Apart, Selected
      <4>2. QED
        BY <3>1, <3>2, <4>1, ReaderFacts DEF SetsApart
    <3>5. Untold' <=> Untold
      BY <3>1, <3>2 DEF Untold
    <3>6. st'.live = st.live
      BY <1>0, <2>2, <3>1, <3>2 DEF State
    <3>7. QED
      BY <1>0, <2>0, <3>1, <3>2, <3>3, <3>4, <3>5, <3>6, QuietStep
  <2>3. QED
    BY <1>2, <2>1, <2>2 DEF ReadFails
<1>3. CASE PollRead \/ PollReport
  <2>1. UNCHANGED <<tip, log, faults, current, st, notified, mon, managed, worker, deferred>>
    BY <1>3 DEF PollRead, PollReport, world, streams
  <2>2. poll' \in Block \cup {NoBlock} /\ block' \in [hash : Block, fresh : BOOLEAN]
    <3>1. CASE PollRead
      BY <1>0, <3>1 DEF PollRead
    <3>2. CASE PollReport
      <4>1. poll \in Block /\ poll' = NoBlock
        BY <1>0, <3>2 DEF PollReport
      <4>2. block' = block \/ block' = [hash |-> poll, fresh |-> TRUE]
        BY <3>2 DEF PollReport
      <4>3. [hash |-> poll, fresh |-> TRUE] \in [hash : Block, fresh : BOOLEAN]
        BY <4>1
      <4>4. block' \in [hash : Block, fresh : BOOLEAN]
        BY <1>0, <4>2, <4>3
      <4>5. QED
        BY <4>1, <4>4
    <3>3. QED
      BY <1>3, <3>1, <3>2
  <2>3. ReaderOK' /\ SetsApart' /\ (Untold' <=> Untold)
    BY <1>0, <2>1 DEF ReaderOK, SetsApart, Untold
  <2>4. QED
    BY <1>0, <2>1, <2>2, <2>3, QuietStep
<1>4. CASE Disconnect \/ \E b \in Block : Connect(b)
  <2>1. /\ UNCHANGED <<faults, current, st, block, poll, notified, mon, managed, worker, deferred>>
        /\ tip' \in Block /\ \E b \in Block : log' = Append(log, b)
        /\ Len(log) < MaxMoves
    BY <1>0, <1>4, Constants DEF Disconnect, Connect, streams
  <2>2. log' \in Seq(Block) /\ Len(log') = Len(log) + 1
    BY <1>0, <2>1
  <2>3. Len(log') <= MaxMoves /\ Len(log) <= Len(log')
    BY <1>0, <2>1, <2>2
  <2>4. st.from \in Nat /\ SetsApart' /\ (Untold' <=> Untold)
    <3>1. st.from \in Position
      BY <1>0 DEF State
    <3>2. QED
      BY <1>0, <2>1, <3>1, Constants DEF SetsApart, Untold
  <2>5. ReaderOK'
    BY <1>0, <2>1, <2>2, <2>4 DEF ReaderOK
  <2>6. QED
    BY <1>0, <2>1, <2>2, <2>3, <2>4, <2>5, QuietStep
<1>5. QED
  BY <1>1, <1>2, <1>3, <1>4

\* There is a worker of its own for every instance of different slots.
LEMMA WorkersEnough ==
  ASSUME NEW S \in SUBSET Instance, Apart(S), Selected(S) = S
  PROVE  \E f \in [S -> WorkerId] : \A i, j \in S : f[i] = f[j] => i = j
<1>1. PICK h \in [Slots -> WorkerId] : \A s, t \in Slots : h[s] = h[t] => s = t
  BY LifecycleAssumption DEF LifecycleAssumption
<1>2. \A i \in S : SlotOf[i] \in Slots
  BY DEF Selected
<1> DEFINE f == [i \in S |-> h[SlotOf[i]]]
<1>3. f \in [S -> WorkerId]
  BY <1>1, <1>2
<1>4. \A i, j \in S : f[i] = f[j] => i = j
  BY <1>1, <1>2 DEF Apart
<1>5. QED
  BY <1>3, <1>4

\* A worker as it is spawned.
LEMMA RunningFields ==
  ASSUME NEW i \in Instance, NEW at \in Position, NEW covered \in BOOLEAN
  PROVE  /\ Running(i, at, covered) \in Worker
         /\ Running(i, at, covered).exit = "running" /\ Running(i, at, covered).inst = i
         /\ Running(i, at, covered).stop = FALSE /\ Running(i, at, covered).covered = covered
BY DEF Running, Worker

\* The streams that a startup leaves: each expected instance has a worker of its
\* own, by which its slot is managed.
LEMMA StartedStreams ==
  ASSUME LifeInv, RecordSnapshot
  PROVE  \E id \in [st.expected -> WorkerId] :
           /\ \A i \in st.expected :
                 /\ SlotOf[i] \in Slots /\ id[i] \in WorkerId /\ id[i] # 0
                 /\ worker'[id[i]] = Running(i, st.from, TRUE)
                 /\ managed'[SlotOf[i]] = id[i]
           /\ \A s \in Slots : \/ managed'[s] = 0
                               \/ \E i \in st.expected : SlotOf[i] = s /\ managed'[s] = id[i]
           /\ \A w \in WorkerId : \/ worker'[w] = Free
                                  \/ \E i \in st.expected :
                                        id[i] = w /\ worker'[w] = Running(i, st.from, TRUE)
<1> DEFINE E == st.expected
           id == CHOOSE f \in [E -> WorkerId] : \A i, j \in E : f[i] = f[j] => i = j
           covered == st.from <= st.target
<1>0. /\ st \in State /\ st.pc = "record" /\ ~st.live /\ E \in SUBSET Instance
      /\ st.read \in SUBSET Instance /\ current \in SUBSET Instance
      /\ Apart(E) /\ Selected(E) = E /\ Apart(st.read) /\ Apart(current)
      /\ Selected(st.read) = E
      /\ st.from \in Position /\ covered = TRUE /\ st.anchor \in Block
      /\ Len(log) \in Nat
  <2>1. st \in State /\ st.pc = "record" /\ ~st.live /\ covered
    BY ReaderFacts DEF RecordSnapshot
  <2>2. current \in SUBSET Instance
    BY DEF LifeInv, TypeOK
  <2>3. covered \in BOOLEAN
    OBVIOUS
  <2> HIDE DEF covered
  <2>4. QED
    BY <2>1, <2>2, <2>3, ReaderFacts DEF State
<1>1. id \in [E -> WorkerId] /\ \A i, j \in E : id[i] = id[j] => i = j
  BY <1>0, WorkersEnough
<1>2. /\ worker' = [w \in WorkerId |->
                       IF \E i \in E : id[i] = w
                       THEN Running(CHOOSE i \in E : id[i] = w, st.from, covered)
                       ELSE Free]
      /\ managed' = [s \in Slots |-> IF s \in SlotsOf(E)
                                     THEN id[CHOOSE i \in E : SlotOf[i] = s] ELSE 0]
  BY DEF RecordSnapshot
<1> HIDE DEF id, covered
<1>5. \A i \in E : /\ SlotOf[i] \in Slots /\ id[i] \in WorkerId /\ id[i] # 0
                   /\ worker'[id[i]] = Running(i, st.from, TRUE)
                   /\ managed'[SlotOf[i]] = id[i]
  <2> SUFFICES ASSUME NEW i \in E
               PROVE  /\ SlotOf[i] \in Slots /\ id[i] \in WorkerId /\ id[i] # 0
                      /\ worker'[id[i]] = Running(i, st.from, TRUE)
                      /\ managed'[SlotOf[i]] = id[i]
    OBVIOUS
  <2>1. SlotOf[i] \in Slots /\ id[i] \in WorkerId /\ id[i] # 0
    BY <1>0, <1>1, Constants DEF Selected
  <2>2. (CHOOSE j \in E : id[j] = id[i]) = i
    <3> DEFINE c == CHOOSE j \in E : id[j] = id[i]
    <3>1. c \in E /\ id[c] = id[i]
      OBVIOUS
    <3> HIDE DEF c
    <3>2. c = i
      BY <1>1, <3>1
    <3>3. QED
      BY <3>2 DEF c
  <2>3. (CHOOSE j \in E : SlotOf[j] = SlotOf[i]) = i
    <3> DEFINE c == CHOOSE j \in E : SlotOf[j] = SlotOf[i]
    <3>1. c \in E /\ SlotOf[c] = SlotOf[i]
      OBVIOUS
    <3> HIDE DEF c
    <3>2. c = i
      BY <1>0, <3>1 DEF Apart
    <3>3. QED
      BY <3>2 DEF c
  <2>4. SlotOf[i] \in SlotsOf(E)
    BY DEF SlotsOf
  <2>5. worker'[id[i]] = Running(i, st.from, TRUE)
    BY <1>0, <1>2, <2>1, <2>2
  <2>6. managed'[SlotOf[i]] = id[i]
    BY <1>2, <2>1, <2>3, <2>4
  <2>7. QED
    BY <2>1, <2>5, <2>6
<1>6. \A s \in Slots : \/ managed'[s] = 0
                       \/ \E i \in E : SlotOf[i] = s /\ managed'[s] = id[i]
  <2> SUFFICES ASSUME NEW s \in Slots, s \in SlotsOf(E)
               PROVE  \E i \in E : SlotOf[i] = s /\ managed'[s] = id[i]
    BY <1>2
  <2>1. PICK i \in E : SlotOf[i] = s
    BY DEF SlotsOf
  <2>2. QED
    BY <1>5, <2>1
<1>7. \A w \in WorkerId : \/ worker'[w] = Free
                            \/ \E i \in E : id[i] = w /\ worker'[w] = Running(i, st.from, TRUE)
  <2> SUFFICES ASSUME NEW w \in WorkerId, \E i \in E : id[i] = w
               PROVE  \E i \in E : id[i] = w /\ worker'[w] = Running(i, st.from, TRUE)
    BY <1>2
  <2>1. PICK i \in E : id[i] = w
    OBVIOUS
  <2>2. QED
    BY <1>5, <2>1
<1>8. QED
  BY <1>1, <1>5, <1>6, <1>7

\* The streams that a startup leaves are those of its reading.
LEMMA StartupStep ==
  ASSUME LifeInv, RecordSnapshot
  PROVE  LifeInv'
<1> DEFINE E == st.expected
           retry == ~st.matched
           e == [Asleep EXCEPT !.pc = "wait", !.live = TRUE, !.baseline = st.read,
                               !.retry = retry, !.refreshed = st.anchor]
<1>0. /\ st \in State /\ st.pc = "record" /\ ~st.live /\ E \in SUBSET Instance
      /\ st.read \in SUBSET Instance /\ current \in SUBSET Instance
      /\ Apart(E) /\ Selected(E) = E /\ Apart(st.read) /\ Apart(current)
      /\ Selected(st.read) = E
      /\ st.from \in Position /\ st.anchor \in Block
      /\ Len(log) \in Nat
  <2>1. st \in State /\ st.pc = "record" /\ ~st.live
    BY ReaderFacts DEF RecordSnapshot
  <2>2. current \in SUBSET Instance
    BY DEF LifeInv, TypeOK
  <2>3. QED
    BY <2>1, <2>2, ReaderFacts DEF State
<1>2. /\ DOMAIN worker' = WorkerId /\ worker' = [w \in WorkerId |-> worker'[w]]
      /\ managed' = [s \in Slots |-> managed'[s]]
      /\ st' = e /\ current' = CurrentAfter /\ block' = [hash |-> st.anchor, fresh |-> FALSE]
      /\ UNCHANGED <<tip, log, faults, poll, notified, mon, deferred>>
  BY DEF RecordSnapshot, world
<1>3. mon = Idle /\ deferred = {} /\ ~notified /\ notified \in BOOLEAN
  BY <1>0 DEF LifeInv, NothingManaged, TypeOK
<1>4. /\ e \in State /\ e.pc = "wait" /\ e.live = TRUE /\ e.baseline = st.read
      /\ e.retry = retry /\ e.read = {} /\ e.expected = {} /\ e.from = 0
  <2>1. retry \in BOOLEAN
    OBVIOUS
  <2> HIDE DEF retry
  <2>2. QED
    BY <1>0, <2>1, AsleepFields DEF State
<1> HIDE DEF e
<1>5. PICK id \in [E -> WorkerId] :
         /\ \A i \in E : /\ SlotOf[i] \in Slots /\ id[i] \in WorkerId /\ id[i] # 0
                         /\ worker'[id[i]] = Running(i, st.from, TRUE)
                         /\ managed'[SlotOf[i]] = id[i]
         /\ \A s \in Slots : \/ managed'[s] = 0
                             \/ \E i \in E : SlotOf[i] = s /\ managed'[s] = id[i]
         /\ \A w \in WorkerId : \/ worker'[w] = Free
                                \/ \E i \in E : id[i] = w /\ worker'[w] = Running(i, st.from, TRUE)
  BY StartedStreams
<1>6. \A s \in Slots : \/ managed'[s] = 0
                       \/ \E i \in E : SlotOf[i] = s /\ managed'[s] = id[i]
  BY <1>5
<1>7. \A w \in WorkerId : worker'[w] = Free \/ \E i \in E : worker'[w] = Running(i, st.from, TRUE)
  BY <1>5
<1>8. \A i \in E : /\ Running(i, st.from, TRUE) \in Worker
                   /\ Running(i, st.from, TRUE).exit = "running"
                   /\ Running(i, st.from, TRUE).inst = i
                   /\ Running(i, st.from, TRUE).stop = FALSE
                   /\ Running(i, st.from, TRUE).covered = TRUE
  BY <1>0, RunningFields
<1>a. \A i \in E : worker'[id[i]].inst = i /\ worker'[id[i]].exit = "running"
  <2> SUFFICES ASSUME NEW i \in E PROVE worker'[id[i]].inst = i /\ worker'[id[i]].exit = "running"
    OBVIOUS
  <2>1. worker'[id[i]] = Running(i, st.from, TRUE)
    BY <1>5
  <2>2. QED
    BY <1>8, <2>1, Zenon
<1>b. \A w \in WorkerId : /\ worker'[w] \in Worker /\ worker'[w].covered
                          /\ ~worker'[w].stop /\ worker'[w].exit # "stopped"
                          /\ worker'[w].exit # "free" =>
                                worker'[w].inst \in Instance /\ SlotOf[worker'[w].inst] \in Slots
  <2> SUFFICES ASSUME NEW w \in WorkerId
               PROVE  /\ worker'[w] \in Worker /\ worker'[w].covered
                      /\ ~worker'[w].stop /\ worker'[w].exit # "stopped"
                      /\ worker'[w].exit # "free" =>
                            worker'[w].inst \in Instance /\ SlotOf[worker'[w].inst] \in Slots
    OBVIOUS
  <2>1. CASE worker'[w] = Free
    BY <2>1, FreeFields
  <2>2. ASSUME NEW i \in E, worker'[w] = Running(i, st.from, TRUE)
        PROVE  /\ worker'[w] \in Worker /\ worker'[w].covered
               /\ worker'[w].stop = FALSE /\ worker'[w].exit = "running"
               /\ worker'[w].inst = i
    BY <1>8, <2>2, Zenon
  <2>3. ASSUME NEW i \in E, worker'[w] = Running(i, st.from, TRUE)
        PROVE  /\ worker'[w] \in Worker /\ worker'[w].covered
               /\ ~worker'[w].stop /\ worker'[w].exit # "stopped"
               /\ worker'[w].inst \in Instance /\ SlotOf[worker'[w].inst] \in Slots
    <3>1. i \in Instance /\ SlotOf[i] \in Slots
      BY <1>0, <1>5
    <3>2. QED
      BY <2>2, <2>3, <3>1
  <2>4. QED
    BY <1>7, <2>1, <2>3
<1>9. TypeOK'
  <2>1. worker' \in [WorkerId -> Worker]
    <3>1. \A w \in WorkerId : worker'[w] \in Worker
      BY <1>b
    <3>2. DOMAIN worker' = WorkerId /\ worker' = [w \in WorkerId |-> worker'[w]]
      BY <1>2
    <3>3. QED
      BY <3>1, <3>2
  <2>2. managed' \in [Slots -> WorkerId \cup {0}]
    <3>1. \A s \in Slots : managed'[s] \in WorkerId \cup {0}
      BY <1>5, <1>6
    <3>2. managed' = [s \in Slots |-> managed'[s]]
      BY <1>2
    <3>3. QED
      BY <3>1, <3>2
  <2>3. current' \in SUBSET Instance /\ block' \in [hash : Block, fresh : BOOLEAN]
    BY <1>0, <1>2 DEF CurrentAfter
  <2>4. QED
    BY <1>2, <1>4, <2>1, <2>2, <2>3 DEF LifeInv, TypeOK
<1>10. Observed' = E
  <2>1. ASSUME NEW x \in Observed' PROVE x \in E
    <3>1. PICK s \in Slots : managed'[s] # 0 /\ worker'[managed'[s]].inst = x
      BY DEF Observed
    <3>2. PICK i \in E : managed'[s] = id[i]
      BY <1>6, <3>1
    <3>3. QED
      BY <1>a, <3>1, <3>2
  <2>2. ASSUME NEW i \in E PROVE i \in Observed'
    <3>1. /\ SlotOf[i] \in Slots /\ managed'[SlotOf[i]] # 0
          /\ worker'[managed'[SlotOf[i]]].inst = i
      BY <1>5, <1>a
    <3>2. QED
      BY <3>1 DEF Observed
  <2>3. QED
    BY <2>1, <2>2
<1>11. ReaderOK'
  BY <1>0, <1>2, <1>4 DEF ReaderOK
<1>12. SetsApart'
  <2>1. Apart({}) /\ Selected({}) = {}
    BY DEF Apart, Selected
  <2>2. Apart(CurrentAfter)
    BY <1>0 DEF CurrentAfter
  <2>3. QED
    BY <1>0, <1>2, <1>4, <2>1, <2>2 DEF SetsApart
<1>13. NothingManaged'
  BY <1>2, <1>4 DEF NothingManaged
<1>14. WorkersOK'
  <2>1. \A s \in Slots : managed'[s] # 0 =>
           worker'[managed'[s]].exit # "free" /\ SlotOf[worker'[managed'[s]].inst] = s
    <3> SUFFICES ASSUME NEW s \in Slots, managed'[s] # 0
                 PROVE  worker'[managed'[s]].exit # "free" /\ SlotOf[worker'[managed'[s]].inst] = s
      OBVIOUS
    <3>1. PICK i \in E : SlotOf[i] = s /\ managed'[s] = id[i]
      BY <1>6
    <3>2. QED
      BY <1>a, <3>1
  <2>2. \A w \in WorkerId : worker'[w].exit # "free" =>
           worker'[w].inst \in Instance /\ SlotOf[worker'[w].inst] \in Slots
    BY <1>b
  <2>3. QED
    BY <2>1, <2>2 DEF WorkersOK
<1>15. MonitorOK'
  <2>1. mon' = Idle /\ deferred' = {} /\ Len(log') = Len(log)
    BY <1>2, <1>3
  <2>2. QED
    BY <1>0, <2>1, IdleFields DEF MonitorOK, Apart
<1>16. ~Untold'
  BY <1>2, <1>3, <1>4 DEF Untold
<1>17. BaselineOK'
  <2>1. \A w \in WorkerId : ~worker'[w].stop /\ worker'[w].exit # "stopped"
    BY <1>b
  <2>2. current' # st'.baseline => st'.retry
    BY <1>2, <1>4 DEF CurrentAfter
  <2>3. mon'.pc = "wait" /\ deferred' = {}
    BY <1>2, <1>3, IdleFields
  <2>4. QED
    BY <1>16, <2>1, <2>2, <2>3 DEF BaselineOK
<1>18. StreamsFollow'
  <2>1. mon'.todo = {} /\ deferred' = {} /\ Selected(st'.baseline) = E
    BY <1>0, <1>2, <1>3, <1>4, IdleFields
  <2>2. QED
    BY <1>10, <2>1 DEF StreamsFollow
<1>19. NoBlockBetween'
  BY <1>b DEF NoBlockBetween
<1>20. QED
  BY <1>9, <1>11, <1>12, <1>13, <1>14, <1>15, <1>17, <1>18, <1>19 DEF LifeInv
-----------------------------------------------------------------------------
\* The states of the monitor.
MonitorState ==
    [pc : {"wait", "read", "open", "target"}, todo : SUBSET Instance, from : Position]

\* A step of the monitor or of a worker, while the reader stands still.
LEMMA TableStep ==
  ASSUME LifeInv, st.live, UNCHANGED <<tip, log, current, st, poll>>,
         faults' \in 0..MaxFaults, notified' \in BOOLEAN,
         block' \in [hash : Block, fresh : BOOLEAN],
         mon' \in MonitorState, managed' \in [Slots -> WorkerId \cup {0}],
         worker' \in [WorkerId -> Worker], deferred' \in SUBSET Instance,
         WorkersOK', MonitorOK', BaselineOK', StreamsFollow', NoBlockBetween'
  PROVE  LifeInv'
<1>1. TypeOK'
  BY DEF LifeInv, TypeOK, MonitorState
<1>2. SetsApart' /\ ReaderOK'
  BY DEF LifeInv, SetsApart, ReaderOK
<1>3. NothingManaged'
  BY DEF NothingManaged
<1>4. QED
  BY <1>1, <1>2, <1>3 DEF LifeInv

\* What the invariant says of the table of the streams and their workers.
LEMMA TableFacts ==
  ASSUME LifeInv
  PROVE  /\ mon \in MonitorState /\ managed \in [Slots -> WorkerId \cup {0}]
         /\ worker \in [WorkerId -> Worker] /\ deferred \in SUBSET Instance
         /\ notified \in BOOLEAN /\ faults \in 0..MaxFaults /\ current \in SUBSET Instance
         /\ block \in [hash : Block, fresh : BOOLEAN]
         /\ 0 \notin WorkerId
         /\ \A s \in Slots : managed[s] # 0 =>
               /\ managed[s] \in WorkerId /\ worker[managed[s]].exit # "free"
               /\ SlotOf[worker[managed[s]].inst] = s
               /\ worker[managed[s]].inst \in Instance
         /\ \A w \in WorkerId : worker[w].exit # "free" =>
               /\ worker[w].inst \in Instance /\ SlotOf[worker[w].inst] \in Slots
               /\ st.live
         /\ mon.pc # "wait" \/ deferred # {} => st.live
         /\ \A w \in WorkerId : worker[w].covered
         /\ Apart(current)
<1>1. /\ mon \in MonitorState /\ managed \in [Slots -> WorkerId \cup {0}]
      /\ worker \in [WorkerId -> Worker] /\ deferred \in SUBSET Instance
      /\ notified \in BOOLEAN /\ faults \in 0..MaxFaults /\ current \in SUBSET Instance
      /\ block \in [hash : Block, fresh : BOOLEAN]
  BY DEF LifeInv, TypeOK, MonitorState
<1>2. \A w \in WorkerId : worker[w].exit # "free" =>
         worker[w].inst \in Instance /\ SlotOf[worker[w].inst] \in Slots
  BY DEF LifeInv, WorkersOK
<1>3. \A w \in WorkerId : worker[w].exit # "free" => st.live
  BY FreeFields DEF LifeInv, NothingManaged
<1>4. mon.pc # "wait" \/ deferred # {} => st.live
  BY IdleFields DEF LifeInv, NothingManaged
<1>5. \A s \in Slots : managed[s] # 0 =>
         /\ managed[s] \in WorkerId /\ worker[managed[s]].exit # "free"
         /\ SlotOf[worker[managed[s]].inst] = s
  BY <1>1 DEF LifeInv, WorkersOK
<1>6. (\A w \in WorkerId : worker[w].covered) /\ Apart(current)
  BY DEF LifeInv, NoBlockBetween, SetsApart
<1>7. QED
  BY <1>1, <1>2, <1>3, <1>4, <1>5, <1>6, Constants

\* A worker that goes on or ends keeps its instance: it is managed as before.
LEMMA WorkerMoves ==
  ASSUME LifeInv, NEW w \in WorkerId, NEW v \in Worker, worker' = [worker EXCEPT ![w] = v],
         worker[w].exit = "running", v.exit \in {"running", "stopped", "error"},
         v.exit = "stopped" => worker[w].stop,
         v.inst = worker[w].inst, v.stop = worker[w].stop, v.covered = worker[w].covered,
         UNCHANGED <<tip, log, current, st, poll, notified, mon, managed, deferred>>,
         faults' \in 0..MaxFaults, block' \in [hash : Block, fresh : BOOLEAN]
  PROVE  LifeInv'
<1>1. /\ worker' \in [WorkerId -> Worker] /\ worker'[w] = v
      /\ \A u \in WorkerId \ {w} : worker'[u] = worker[u]
  BY TableFacts
<1>2. st.live
  BY TableFacts
<1>3. \A u \in WorkerId : /\ worker'[u].inst = worker[u].inst
                          /\ worker'[u].exit = "free" <=> worker[u].exit = "free"
                          /\ worker'[u].covered = worker[u].covered
                          /\ worker'[u].stop = worker[u].stop
                          /\ worker'[u].exit = "stopped" => worker[u].exit = "stopped" \/ worker[u].stop
  BY <1>1
<1>4. Observed' = Observed
  BY <1>3, TableFacts DEF Observed
<1>5. WorkersOK'
  BY <1>3, TableFacts DEF WorkersOK
<1>6. MonitorOK'
  BY <1>4 DEF LifeInv, MonitorOK
<1>7. BaselineOK'
  <2>1. Untold' <=> Untold
    BY DEF Untold
  <2>2. QED
    BY <1>3, <2>1 DEF LifeInv, BaselineOK
<1>8. StreamsFollow'
  BY <1>4 DEF LifeInv, StreamsFollow, Untold
<1>9. NoBlockBetween'
  BY <1>3, TableFacts DEF NoBlockBetween
<1>10. QED
  BY <1>1, <1>2, <1>5, <1>6, <1>7, <1>8, <1>9, TableFacts, TableStep

\* An event, a stop or a failure of one worker leaves the table alone.
LEMMA WorkerStep ==
  ASSUME LifeInv, NEW w \in WorkerId, LiveEvent(w) \/ WorkerStops(w) \/ StreamFails(w)
  PROVE  LifeInv'
<1>0. worker[w] \in Worker
  BY TableFacts
<1>1. CASE LiveEvent(w)
  <2> DEFINE v == [worker[w] EXCEPT !.at = worker[w].at + 1]
  <2>1. log \in Seq(Block) /\ Len(log) \in Nat /\ Len(log) <= MaxMoves /\ worker[w].at < Len(log)
    BY <1>1 DEF LiveEvent, LifeInv, TypeOK
  <2>2. worker[w].at \in Nat /\ worker[w].at + 1 \in Position
    <3>1. worker[w].at \in Position
      BY <1>0 DEF Worker
    <3>2. QED
      BY <2>1, <3>1, Constants DEF Position
  <2>3. /\ v \in Worker /\ v.exit = worker[w].exit /\ v.inst = worker[w].inst
        /\ v.stop = worker[w].stop /\ v.covered = worker[w].covered
    BY <1>0, <2>2 DEF Worker
  <2>4. log[worker[w].at + 1] \in Block
    BY <2>1, <2>2
  <2>5. /\ worker' = [worker EXCEPT ![w] = v] /\ worker[w].exit = "running"
        /\ block' = [hash |-> log[worker[w].at + 1], fresh |-> TRUE]
        /\ UNCHANGED <<tip, log, faults, current, st, poll, notified, mon, managed, deferred>>
    BY <1>1 DEF LiveEvent, world
  <2> HIDE DEF v
  <2>6. block' \in [hash : Block, fresh : BOOLEAN]
    BY <2>4, <2>5
  <2>7. QED
    BY <2>3, <2>5, <2>6, TableFacts, WorkerMoves
<1>2. ASSUME NEW x \in {"stopped", "error"}, worker' = [worker EXCEPT ![w].exit = x],
             worker[w].exit = "running", x = "stopped" => worker[w].stop,
             UNCHANGED <<tip, log, current, st, block, poll, notified, mon, managed, deferred>>,
             faults' \in 0..MaxFaults
      PROVE  LifeInv'
  <2> DEFINE v == [worker[w] EXCEPT !.exit = x]
  <2>1. /\ v \in Worker /\ v.exit = x /\ v.inst = worker[w].inst
        /\ v.stop = worker[w].stop /\ v.covered = worker[w].covered
    BY <1>0 DEF Worker
  <2>2. worker' = [worker EXCEPT ![w] = v]
    BY <1>2
  <2>3. block' \in [hash : Block, fresh : BOOLEAN]
    BY <1>2, TableFacts
  <2> HIDE DEF v
  <2>4. QED
    BY <1>2, <2>1, <2>2, <2>3, WorkerMoves
<1>3. CASE WorkerStops(w)
  <2>1. faults' \in 0..MaxFaults
    BY <1>3, TableFacts DEF WorkerStops
  <2>2. QED
    BY <1>2, <1>3, <2>1 DEF WorkerStops, world
<1>4. CASE StreamFails(w)
  <2>1. faults' \in 0..MaxFaults
    BY <1>4, TableFacts, Constants DEF StreamFails, Fault
  <2>2. QED
    BY <1>2, <1>4, <2>1 DEF StreamFails, world
<1>5. QED
  BY <1>1, <1>3, <1>4

\* Once the monitor has anything to do, the baseline is what is current.
LEMMA BaselineKnown ==
  ASSUME LifeInv, st.live,
         \/ mon.pc # "wait" \/ notified \/ deferred # {}
         \/ \E w \in WorkerId : worker[w].exit = "stopped"
  PROVE  current = st.baseline
BY DEF LifeInv, BaselineOK, Untold

\* The place of the monitor moves without its other fields.
LEMMA MonitorFields ==
  ASSUME NEW m \in MonitorState
  PROVE  /\ \A pc \in {"wait", "read", "open", "target"} :
               /\ [m EXCEPT !.pc = pc] \in MonitorState
               /\ [m EXCEPT !.pc = pc].pc = pc
               /\ [m EXCEPT !.pc = pc].todo = m.todo
               /\ [m EXCEPT !.pc = pc].from = m.from
BY DEF MonitorState

\* A stop request changes nothing else of the worker.
LEMMA StoppedFields ==
  ASSUME NEW v \in Worker
  PROVE  /\ [v EXCEPT !.stop = TRUE] \in Worker
         /\ [v EXCEPT !.stop = TRUE].exit = v.exit
         /\ [v EXCEPT !.stop = TRUE].inst = v.inst
         /\ [v EXCEPT !.stop = TRUE].covered = v.covered
BY DEF Worker

\* The steps that send the monitor to read the durable instances.
LEMMA RousedStep ==
  ASSUME LifeInv, TakeNotice \/ \E i \in Instance : RetryActivation(i)
  PROVE  LifeInv'
<1>1. /\ mon.pc = "wait" /\ mon' = [mon EXCEPT !.pc = "read"]
      /\ UNCHANGED <<tip, log, faults, current, st, block, poll, managed, worker>>
      /\ notified' \in BOOLEAN /\ deferred' \in SUBSET deferred
      /\ notified \/ deferred # {}
      /\ st.live
  BY TableFacts DEF TakeNotice, RetryActivation, world
<1>2. current = st.baseline
  BY <1>1, BaselineKnown
<1>3. /\ mon' \in MonitorState /\ mon'.pc = "read" /\ mon'.todo = mon.todo
      /\ mon'.from = mon.from
  BY <1>1, TableFacts, MonitorFields
<1>4. WorkersOK'
  BY <1>1 DEF LifeInv, WorkersOK
<1>5. MonitorOK'
  <2>1. Observed' = Observed
    BY <1>1 DEF Observed
  <2>2. QED
    BY <1>1, <1>3, <2>1 DEF LifeInv, MonitorOK
<1>6. BaselineOK' /\ StreamsFollow'
  BY <1>1, <1>2, <1>3 DEF BaselineOK, StreamsFollow
<1>7. NoBlockBetween'
  BY <1>1 DEF LifeInv, NoBlockBetween
<1>8. QED
  BY <1>1, <1>3, <1>4, <1>5, <1>6, <1>7, TableFacts, TableStep

\* Joining a worker removes it, and with it at most the entry of its slot.
LEMMA JoinStep ==
  ASSUME LifeInv, NEW w \in WorkerId, JoinStopped(w) \/ JoinRetiredError(w) \/ JoinError(w)
  PROVE  LifeInv'
<1> DEFINE s == SlotOf[worker[w].inst]
<1>1. CASE JoinError(w)
  BY <1>1, GoneOff, TableFacts DEF JoinError, world
<1>2. CASE JoinStopped(w)
  <2> DEFINE heir == IF StillManaged(w) THEN managed[s] ELSE 0
  <2>1. /\ mon.pc = "wait" /\ worker[w].exit = "stopped" /\ s \in Slots /\ st.live
        /\ mon' = [mon EXCEPT !.pc = "read"]
        /\ managed' = IF heir = 0 THEN managed ELSE [managed EXCEPT ![s] = 0]
        /\ worker' = [v \in WorkerId |-> IF v = w THEN Free
                                         ELSE IF v = heir THEN [worker[v] EXCEPT !.stop = TRUE]
                                         ELSE worker[v]]
        /\ UNCHANGED <<tip, log, faults, current, st, block, poll, notified, deferred>>
    BY <1>2, TableFacts DEF JoinStopped, world
  <2>2. current = st.baseline
    BY <2>1, BaselineKnown
  <2>3. /\ mon' \in MonitorState /\ mon'.pc = "read" /\ mon'.todo = mon.todo
        /\ mon'.from = mon.from
    BY <2>1, TableFacts, MonitorFields
  <2>4. \A v \in WorkerId : /\ [worker[v] EXCEPT !.stop = TRUE] \in Worker
                            /\ [worker[v] EXCEPT !.stop = TRUE].exit = worker[v].exit
                            /\ [worker[v] EXCEPT !.stop = TRUE].inst = worker[v].inst
                            /\ [worker[v] EXCEPT !.stop = TRUE].covered = worker[v].covered
    BY TableFacts, StoppedFields
  <2>5. /\ worker' \in [WorkerId -> Worker] /\ worker'[w] = Free
        /\ \A v \in WorkerId \ {w} : /\ worker'[v].exit = worker[v].exit
                                     /\ worker'[v].inst = worker[v].inst
                                     /\ worker'[v].covered = worker[v].covered
    <3> HIDE DEF heir
    <3>1. QED
      BY <2>1, <2>4, FreeFields, TableFacts
  <2>6. /\ managed' \in [Slots -> WorkerId \cup {0}]
        /\ \A t \in Slots : managed'[t] # 0 => managed'[t] = managed[t] /\ managed[t] # w
    <3>1. managed' \in [Slots -> WorkerId \cup {0}]
      BY <2>1, TableFacts
    <3>2. ASSUME NEW t \in Slots, managed'[t] # 0 PROVE managed'[t] = managed[t]
      BY <2>1, <3>2, TableFacts
    <3>3. ASSUME NEW t \in Slots, managed'[t] # 0, managed[t] = w PROVE FALSE
      <4>1. t = s /\ managed[s] = w /\ w # 0
        BY <3>2, <3>3, TableFacts
      <4>2. StillManaged(w)
        BY <4>1 DEF StillManaged
      <4>3. managed'[s] = 0
        BY <2>1, <4>1, <4>2, TableFacts
      <4>4. QED
        BY <3>3, <4>1, <4>3
    <3>4. QED
      BY <3>1, <3>2, <3>3
  <2>7. \A t \in Slots : managed'[t] # 0 =>
           /\ managed[t] # 0 /\ managed'[t] \in WorkerId
           /\ worker'[managed'[t]].exit = worker[managed[t]].exit
           /\ worker'[managed'[t]].inst = worker[managed[t]].inst
    BY <2>5, <2>6, TableFacts
  <2>8. WorkersOK'
    <3>1. \A t \in Slots : managed'[t] # 0 =>
             worker'[managed'[t]].exit # "free" /\ SlotOf[worker'[managed'[t]].inst] = t
      BY <2>7, TableFacts
    <3>2. \A v \in WorkerId : worker'[v].exit # "free" =>
             worker'[v].inst \in Instance /\ SlotOf[worker'[v].inst] \in Slots
      BY <2>5, FreeFields, TableFacts
    <3>3. QED
      BY <3>1, <3>2 DEF WorkersOK
  <2>9. Observed' \subseteq Observed
    BY <2>7 DEF Observed
  <2>10. mon'.todo = {} /\ mon'.from <= Len(log')
    BY <2>1, <2>3 DEF LifeInv, MonitorOK
  <2>11. Observed' \cap deferred' = {}
    BY <2>1, <2>9 DEF LifeInv, MonitorOK
  <2>12. MonitorOK'
    BY <2>10, <2>11 DEF MonitorOK, Apart
  <2>13. BaselineOK' /\ StreamsFollow'
    BY <2>1, <2>2, <2>3 DEF BaselineOK, StreamsFollow
  <2>14. NoBlockBetween'
    BY <2>5, FreeFields, TableFacts DEF NoBlockBetween
  <2> HIDE DEF heir
  <2>15. QED
    BY <2>1, <2>3, <2>5, <2>6, <2>8, <2>12, <2>13, <2>14, TableFacts, TableStep
<1>3. CASE JoinRetiredError(w)
  <2>1. /\ worker[w].exit = "error" /\ ~StillManaged(w) /\ s \in Slots /\ st.live
        /\ worker' = [worker EXCEPT ![w] = Free]
        /\ UNCHANGED <<tip, log, faults, current, st, block, poll, notified, mon, managed, deferred>>
    BY <1>3, TableFacts DEF JoinRetiredError, world
  <2>2. /\ worker' \in [WorkerId -> Worker] /\ worker'[w] = Free
        /\ \A v \in WorkerId \ {w} : worker'[v] = worker[v]
    BY <2>1, FreeFields, TableFacts
  <2>3. \A t \in Slots : managed[t] # 0 => managed[t] # w /\ worker'[managed[t]] = worker[managed[t]]
    <3>1. ASSUME NEW t \in Slots, managed[t] = w PROVE FALSE
      <4>1. t = s /\ managed[s] = w /\ w # 0
        BY <3>1, TableFacts
      <4>2. QED
        BY <2>1, <4>1 DEF StillManaged
    <3>2. QED
      BY <2>2, <3>1, TableFacts
  <2>4. Observed' = Observed
    BY <2>1, <2>3 DEF Observed
  <2>5. WorkersOK'
    BY <2>1, <2>2, <2>3, FreeFields, TableFacts DEF WorkersOK
  <2>6. MonitorOK'
    BY <2>1, <2>4 DEF LifeInv, MonitorOK
  <2>7. Untold' <=> Untold
    BY <2>1 DEF Untold
  <2>8. BaselineOK'
    BY <2>1, <2>2, <2>7, FreeFields DEF LifeInv, BaselineOK
  <2>9. StreamsFollow'
    BY <2>1, <2>4, <2>7 DEF LifeInv, StreamsFollow
  <2>10. NoBlockBetween'
    BY <2>2, FreeFields, TableFacts DEF NoBlockBetween
  <2>11. QED
    BY <2>1, <2>2, <2>5, <2>6, <2>8, <2>9, <2>10, TableFacts, TableStep
<1>4. QED
  BY <1>1, <1>2, <1>3

\* The monitor compares what it manages with what is current: afterwards every
\* current instance is observed, to be activated, or deferred.
LEMMA ReadCurrentStep ==
  ASSUME LifeInv, ReadCurrent
  PROVE  LifeInv'
<1> DEFINE kept == [s \in Slots |-> IF s \in Retired THEN 0 ELSE managed[s]]
           todo == {i \in Selected(current) : kept[SlotOf[i]] = 0 /\ i \notin deferred}
<1>1. /\ mon.pc = "read" /\ st.live /\ managed' = kept
      /\ worker' = [w \in WorkerId |-> IF \E s \in Retired : managed[s] = w
                                       THEN [worker[w] EXCEPT !.stop = TRUE] ELSE worker[w]]
      /\ mon' = IF todo = {} THEN Idle ELSE [pc |-> "open", todo |-> todo, from |-> 0]
      /\ UNCHANGED <<tip, log, faults, current, st, block, poll, notified, deferred>>
  BY TableFacts DEF ReadCurrent, world
<1>2. current = st.baseline
  BY <1>1, BaselineKnown
<1>3. /\ kept \in [Slots -> WorkerId \cup {0}]
      /\ \A s \in Slots : kept[s] # 0 <=> managed[s] # 0 /\ s \notin Retired
      /\ \A s \in Slots : kept[s] # 0 => kept[s] = managed[s]
  BY TableFacts
<1>4. \A s \in Slots : kept[s] # 0 => worker[kept[s]].inst \in Selected(current)
  BY <1>3 DEF Retired
<1>5. /\ todo \in SUBSET Instance /\ Apart(todo) /\ todo \subseteq Selected(current)
      /\ \A i \in todo : SlotOf[i] \in Slots /\ kept[SlotOf[i]] = 0 /\ i \notin deferred
  <2>1. todo \subseteq Selected(current) /\ Selected(current) \subseteq current
    BY DEF Selected
  <2>2. \A i \in todo : SlotOf[i] \in Slots /\ kept[SlotOf[i]] = 0 /\ i \notin deferred
    BY DEF Selected
  <2> HIDE DEF todo
  <2>3. QED
    BY <2>1, <2>2, TableFacts, PartApart
<1>6. /\ worker' \in [WorkerId -> Worker]
      /\ \A w \in WorkerId : /\ worker'[w].exit = worker[w].exit
                             /\ worker'[w].inst = worker[w].inst
                             /\ worker'[w].covered = worker[w].covered
  <2>1. \A v \in WorkerId : /\ [worker[v] EXCEPT !.stop = TRUE] \in Worker
                            /\ [worker[v] EXCEPT !.stop = TRUE].exit = worker[v].exit
                            /\ [worker[v] EXCEPT !.stop = TRUE].inst = worker[v].inst
                            /\ [worker[v] EXCEPT !.stop = TRUE].covered = worker[v].covered
    BY TableFacts, StoppedFields
  <2>2. QED
    BY <1>1, <2>1, TableFacts
<1>7. ASSUME NEW i \in Selected(current), i \notin deferred
      PROVE  i \in todo \/ \E s \in Slots : kept[s] # 0 /\ worker[kept[s]].inst = i
  <2>1. SlotOf[i] \in Slots
    BY DEF Selected
  <2>2. CASE kept[SlotOf[i]] = 0
    BY <1>7, <2>2
  <2>3. CASE kept[SlotOf[i]] # 0
    <3>1. /\ worker[kept[SlotOf[i]]].inst \in Selected(current)
          /\ SlotOf[worker[kept[SlotOf[i]]].inst] = SlotOf[i]
      BY <1>3, <1>4, <2>1, <2>3, TableFacts
    <3>2. worker[kept[SlotOf[i]]].inst = i
      BY <3>1, TableFacts DEF Apart, Selected
    <3>3. QED
      BY <2>1, <2>3, <3>2
  <2>4. QED
    BY <2>2, <2>3
<1> HIDE DEF kept, todo
<1>8. \A s \in Slots : managed'[s] # 0 =>
         /\ managed[s] # 0 /\ managed'[s] = managed[s]
         /\ worker'[managed'[s]].exit = worker[managed[s]].exit
         /\ worker'[managed'[s]].inst = worker[managed[s]].inst
  BY <1>1, <1>3, <1>6, TableFacts
<1>9. WorkersOK'
  <2>1. \A s \in Slots : managed'[s] # 0 =>
           worker'[managed'[s]].exit # "free" /\ SlotOf[worker'[managed'[s]].inst] = s
    BY <1>8, TableFacts
  <2>2. \A v \in WorkerId : worker'[v].exit # "free" =>
           worker'[v].inst \in Instance /\ SlotOf[worker'[v].inst] \in Slots
    BY <1>6, TableFacts
  <2>3. QED
    BY <2>1, <2>2 DEF WorkersOK
<1>10. Observed' \subseteq Observed
  BY <1>8 DEF Observed
<1>11. /\ \A s \in Slots : kept[s] # 0 => worker[kept[s]].inst \in Observed'
       /\ \A i \in Observed' : \E s \in Slots : kept[s] # 0 /\ worker[kept[s]].inst = i
  <2>1. \A s \in Slots : kept[s] # 0 =>
           managed'[s] # 0 /\ worker'[managed'[s]].inst = worker[kept[s]].inst
    BY <1>1, <1>3, <1>8
  <2>2. ASSUME NEW i \in Observed'
        PROVE  \E s \in Slots : kept[s] # 0 /\ worker[kept[s]].inst = i
    <3>1. PICK s \in Slots : managed'[s] # 0 /\ worker'[managed'[s]].inst = i
      BY DEF Observed
    <3>2. QED
      BY <1>1, <2>1, <3>1
  <2>3. \A s \in Slots : kept[s] # 0 => worker[kept[s]].inst \in Observed'
    BY <2>1 DEF Observed
  <2>4. QED
    BY <2>2, <2>3
<1>12. /\ mon' \in MonitorState /\ mon'.from = 0 /\ mon'.todo = todo
       /\ mon'.pc = IF todo = {} THEN "wait" ELSE "open"
  <2>1. CASE todo = {}
    BY <1>1, <2>1, IdleFields DEF MonitorState
  <2>2. CASE todo # {}
    <3>1. mon' = [pc |-> "open", todo |-> todo, from |-> 0]
      BY <1>1, <2>2
    <3>2. QED
      BY <1>5, <2>2, <3>1, Constants DEF MonitorState
  <2>3. QED
    BY <2>1, <2>2
<1>13. MonitorOK'
  <2>1. mon'.from <= Len(log')
    BY <1>1, <1>12, ReaderFacts
  <2>2. mon'.pc \in {"wait", "read"} => mon'.todo = {}
    BY <1>12
  <2>3. Observed' \cap deferred' = {}
    BY <1>1, <1>10 DEF LifeInv, MonitorOK
  <2>4. QED
    BY <1>1, <1>5, <1>12, <2>1, <2>2, <2>3 DEF MonitorOK
<1>14. BaselineOK'
  BY <1>1, <1>2 DEF BaselineOK
<1>15. StreamsFollow'
  <2>1. ASSUME NEW i \in Observed' \cup todo PROVE i \in Selected(current) \ deferred
    BY <1>1, <1>4, <1>5, <1>10, <1>11 DEF LifeInv, MonitorOK
  <2>2. ASSUME NEW i \in Selected(current) \ deferred PROVE i \in Observed' \cup todo
    BY <1>7, <1>11
  <2>3. Observed' \cup todo = Selected(current) \ deferred
    BY <2>1, <2>2
  <2>4. QED
    BY <1>1, <1>2, <1>12, <2>3 DEF StreamsFollow
<1>16. NoBlockBetween'
  BY <1>6, TableFacts DEF NoBlockBetween
<1>17. managed' \in [Slots -> WorkerId \cup {0}]
  BY <1>1, <1>3
<1>18. QED
  BY <1>1, <1>6, <1>9, <1>12, <1>13, <1>14, <1>15, <1>16, <1>17, TableFacts, TableStep

\* An addition that was made or put off is no longer to be made.
LEMMA AddedFields ==
  ASSUME LifeInv, NEW i \in mon.todo
  PROVE  /\ Added(i) \in MonitorState /\ Added(i).todo = mon.todo \ {i}
         /\ Added(i).pc \in {"wait", "open"}
         /\ Added(i).pc = "wait" => mon.todo \ {i} = {}
         /\ Added(i).from <= Len(log)
<1>0. mon \in MonitorState /\ mon.todo \in SUBSET Instance /\ Len(log) \in Nat
  BY TableFacts, ReaderFacts DEF MonitorState
<1>1. CASE mon.todo = {i}
  <2>1. Added(i) = Idle
    BY <1>1 DEF Added
  <2>2. QED
    BY <1>0, <1>1, <2>1, IdleFields DEF MonitorState
<1>2. CASE mon.todo # {i}
  <2>1. Added(i) = [mon EXCEPT !.pc = "open", !.todo = mon.todo \ {i}]
    BY <1>2 DEF Added
  <2>2. mon.todo \ {i} \in SUBSET Instance
    BY <1>0
  <2>3. /\ Added(i) \in MonitorState /\ Added(i).pc = "open"
        /\ Added(i).todo = mon.todo \ {i} /\ Added(i).from = mon.from
    BY <1>0, <2>1, <2>2 DEF MonitorState
  <2>4. mon.from <= Len(log)
    BY DEF LifeInv, MonitorOK
  <2>5. QED
    BY <2>3, <2>4
<1>3. QED
  BY <1>1, <1>2

\* Opening, starting and putting off a stream.
LEMMA AdditionStep ==
  ASSUME LifeInv,
         OpenStream \/ \E i \in Instance : Activate(i) \/ ActivationDeferred(i)
  PROVE  LifeInv'
<1>0. mon.pc \in {"open", "target"} /\ st.live /\ current = st.baseline
      /\ UNCHANGED <<tip, log, current, st, block, poll, notified>>
  <2>1. mon.pc \in {"open", "target"}
        /\ UNCHANGED <<tip, log, current, st, block, poll, notified>>
    BY DEF OpenStream, Activate, ActivationDeferred, world
  <2>2. QED
    BY <2>1, TableFacts, BaselineKnown
<1>1. BaselineOK'
  BY <1>0 DEF BaselineOK
<1>2. Untold' <=> Untold
  BY <1>0 DEF Untold
<1>3. /\ Apart(mon.todo) /\ mon.from \in Nat /\ mon.from <= Len(log) /\ Len(log) \in Position
      /\ \A i \in mon.todo : SlotOf[i] \in Slots /\ managed[SlotOf[i]] = 0 /\ i \notin deferred
      /\ Observed \cap deferred = {} /\ mon.todo \in SUBSET Instance /\ mon.from \in Position
  <2>1. mon.from \in Position /\ mon.todo \in SUBSET Instance
    BY TableFacts DEF MonitorState
  <2>2. QED
    BY <2>1, ReaderFacts, Constants DEF LifeInv, MonitorOK
<1>4. ~Untold => Observed \cup mon.todo = Selected(st.baseline) \ deferred
  BY <1>0 DEF LifeInv, StreamsFollow
<1>5. CASE OpenStream
  <2>1. /\ mon' = [mon EXCEPT !.pc = "target", !.from = Len(log)]
        /\ UNCHANGED <<faults, managed, worker, deferred>>
    BY <1>5 DEF OpenStream
  <2>2. /\ mon' \in MonitorState /\ mon'.pc = "target" /\ mon'.todo = mon.todo
        /\ mon'.from = Len(log)
    <3>1. /\ mon \in MonitorState /\ Len(log) \in Position
          /\ mon' = [mon EXCEPT !.pc = "target", !.from = Len(log)]
      BY <1>3, <2>1, TableFacts
    <3>2. QED
      BY <3>1 DEF MonitorState
  <2>3. Observed' = Observed
    BY <2>1 DEF Observed
  <2>4. MonitorOK'
    BY <1>0, <1>3, <2>1, <2>2, <2>3, ReaderFacts DEF MonitorOK
  <2>5. WorkersOK' /\ NoBlockBetween'
    BY <2>1 DEF LifeInv, WorkersOK, NoBlockBetween
  <2>6. StreamsFollow'
    BY <1>0, <1>2, <1>4, <2>1, <2>2, <2>3 DEF StreamsFollow
  <2>7. QED
    BY <1>0, <1>1, <2>1, <2>2, <2>4, <2>5, <2>6, TableFacts, TableStep
<1>6. ASSUME NEW i \in Instance, ActivationDeferred(i) PROVE LifeInv'
  <2>1. /\ i \in mon.todo /\ deferred' = deferred \cup {i} /\ mon' = Added(i)
        /\ UNCHANGED <<managed, worker>> /\ faults' \in 0..MaxFaults
    BY <1>6, TableFacts, Constants DEF ActivationDeferred, NextAddition, Fault
  <2>2. /\ mon' \in MonitorState /\ mon'.todo = mon.todo \ {i}
        /\ mon'.pc \in {"wait", "open"} /\ (mon'.pc = "wait" => mon'.todo = {})
        /\ mon'.from <= Len(log)
    BY <2>1, AddedFields
  <2>3. Observed' = Observed
    BY <2>1 DEF Observed
  <2>4. i \notin Observed
    <3>1. SUFFICES ASSUME NEW s \in Slots, managed[s] # 0, worker[managed[s]].inst = i
                   PROVE  FALSE
      BY DEF Observed
    <3>2. SlotOf[i] = s
      BY <3>1, TableFacts
    <3>3. QED
      BY <1>3, <2>1, <3>1, <3>2
  <2>5. MonitorOK'
    <3>1. Apart(mon'.todo)
      BY <1>3, <2>2 DEF Apart
    <3>2. \A j \in mon'.todo : SlotOf[j] \in Slots /\ managed'[SlotOf[j]] = 0 /\ j \notin deferred'
      BY <1>3, <2>1, <2>2
    <3>3. Observed' \cap deferred' = {}
      BY <1>3, <2>1, <2>3, <2>4
    <3>4. QED
      BY <1>0, <2>2, <3>1, <3>2, <3>3 DEF MonitorOK
  <2>6. WorkersOK' /\ NoBlockBetween'
    BY <2>1 DEF LifeInv, WorkersOK, NoBlockBetween
  <2>7. StreamsFollow'
    <3>1. ~Untold => Observed \cup (mon.todo \ {i}) = Selected(st.baseline) \ (deferred \cup {i})
      BY <1>4, <2>4
    <3>2. QED
      BY <1>0, <1>2, <2>1, <2>2, <2>3, <3>1 DEF StreamsFollow
  <2>8. deferred' \in SUBSET Instance
    BY <2>1, TableFacts
  <2>9. QED
    BY <1>0, <1>1, <2>1, <2>2, <2>5, <2>6, <2>7, <2>8, TableFacts, TableStep
<1>7. ASSUME NEW i \in Instance, Activate(i) PROVE LifeInv'
  <2> DEFINE covered == mon.from <= Len(log)
             w == CHOOSE v \in WorkerId : worker[v].exit = "free"
             r == Running(i, mon.from, covered)
  <2>1. /\ i \in mon.todo /\ w \in WorkerId /\ worker[w].exit = "free"
        /\ worker' = [worker EXCEPT ![w] = r]
        /\ managed' = [managed EXCEPT ![SlotOf[i]] = w]
        /\ mon' = Added(i) /\ UNCHANGED <<faults, deferred>>
    BY <1>7 DEF Activate, NextAddition
  <2>2. covered = TRUE
    BY <1>3
  <2>3. /\ r \in Worker /\ r.exit = "running" /\ r.inst = i /\ r.stop = FALSE /\ r.covered = TRUE
    BY <1>3, <2>2, RunningFields
  <2> HIDE DEF w, r, covered
  <2>4. /\ mon' \in MonitorState /\ mon'.todo = mon.todo \ {i}
        /\ mon'.pc \in {"wait", "open"} /\ (mon'.pc = "wait" => mon'.todo = {})
        /\ mon'.from <= Len(log)
    BY <2>1, AddedFields
  <2>5. /\ worker' \in [WorkerId -> Worker] /\ worker'[w] = r
        /\ \A v \in WorkerId \ {w} : worker'[v] = worker[v]
    BY <2>1, <2>3, TableFacts
  <2>6. SlotOf[i] \in Slots /\ managed[SlotOf[i]] = 0 /\ w # 0
    BY <1>3, <2>1, TableFacts
  <2>7. /\ managed' \in [Slots -> WorkerId \cup {0}] /\ managed'[SlotOf[i]] = w
        /\ \A s \in Slots \ {SlotOf[i]} : managed'[s] = managed[s]
    BY <2>1, <2>6, TableFacts
  <2>8. \A s \in Slots \ {SlotOf[i]} : managed[s] # 0 => worker'[managed'[s]] = worker[managed[s]]
    BY <2>1, <2>5, <2>7, TableFacts
  <2>9. Observed' = Observed \cup {i}
    <3>1. ASSUME NEW x \in Observed' PROVE x \in Observed \cup {i}
      <4>1. PICK s \in Slots : managed'[s] # 0 /\ worker'[managed'[s]].inst = x
        BY DEF Observed
      <4>2. CASE s = SlotOf[i]
        BY <2>3, <2>5, <2>7, <4>1, <4>2
      <4>3. CASE s # SlotOf[i]
        <5>1. managed[s] # 0 /\ worker[managed[s]].inst = x
          BY <2>7, <2>8, <4>1, <4>3
        <5>2. QED
          BY <5>1 DEF Observed
      <4>4. QED
        BY <4>2, <4>3
    <3>2. i \in Observed'
      <4>1. managed'[SlotOf[i]] # 0 /\ worker'[managed'[SlotOf[i]]].inst = i
        BY <2>3, <2>5, <2>6, <2>7
      <4>2. QED
        BY <2>6, <4>1 DEF Observed
    <3>3. ASSUME NEW x \in Observed PROVE x \in Observed'
      <4>1. PICK s \in Slots : managed[s] # 0 /\ worker[managed[s]].inst = x
        BY DEF Observed
      <4>2. s # SlotOf[i]
        BY <2>6, <4>1
      <4>3. managed'[s] # 0 /\ worker'[managed'[s]].inst = x
        BY <2>7, <2>8, <4>1, <4>2
      <4>4. QED
        BY <4>3 DEF Observed
    <3>4. QED
      BY <3>1, <3>2, <3>3
  <2>10. WorkersOK'
    <3>1. \A s \in Slots : managed'[s] # 0 =>
             worker'[managed'[s]].exit # "free" /\ SlotOf[worker'[managed'[s]].inst] = s
      <4> SUFFICES ASSUME NEW s \in Slots, managed'[s] # 0
                   PROVE  worker'[managed'[s]].exit # "free" /\ SlotOf[worker'[managed'[s]].inst] = s
        OBVIOUS
      <4>1. CASE s = SlotOf[i]
        BY <2>3, <2>5, <2>7, <4>1
      <4>2. CASE s # SlotOf[i]
        BY <2>7, <2>8, <4>2, TableFacts
      <4>3. QED
        BY <4>1, <4>2
    <3>2. \A v \in WorkerId : worker'[v].exit # "free" =>
             worker'[v].inst \in Instance /\ SlotOf[worker'[v].inst] \in Slots
      BY <2>3, <2>5, <2>6, TableFacts
    <3>3. QED
      BY <3>1, <3>2 DEF WorkersOK
  <2>11. MonitorOK'
    <3>1. Apart(mon'.todo)
      BY <1>3, <2>4 DEF Apart
    <3>2. \A j \in mon'.todo : SlotOf[j] \in Slots /\ managed'[SlotOf[j]] = 0 /\ j \notin deferred'
      <4> SUFFICES ASSUME NEW j \in mon.todo, j # i
                   PROVE  SlotOf[j] \in Slots /\ managed'[SlotOf[j]] = 0 /\ j \notin deferred'
        BY <2>4
      <4>1. SlotOf[j] # SlotOf[i]
        BY <1>3, <2>1 DEF Apart
      <4>2. QED
        BY <1>3, <2>1, <2>7, <4>1
    <3>3. Observed' \cap deferred' = {}
      BY <1>3, <2>1, <2>9
    <3>4. QED
      BY <1>0, <2>4, <3>1, <3>2, <3>3 DEF MonitorOK
  <2>12. NoBlockBetween'
    BY <2>3, <2>5, TableFacts DEF NoBlockBetween
  <2>13. StreamsFollow'
    <3>1. ~Untold => (Observed \cup {i}) \cup (mon.todo \ {i}) = Selected(st.baseline) \ deferred
      BY <1>4, <2>1
    <3>2. QED
      BY <1>0, <1>2, <2>1, <2>4, <2>9, <3>1 DEF StreamsFollow
  <2>14. QED
    BY <1>0, <1>1, <2>1, <2>4, <2>5, <2>7, <2>10, <2>11, <2>12, <2>13, TableFacts, TableStep
<1>8. QED
  BY <1>5, <1>6, <1>7

\* Every step keeps the invariant.
LEMMA LifeStep == LifeInv /\ [Next]_vars => LifeInv'
<1> SUFFICES ASSUME LifeInv, [Next]_vars PROVE LifeInv'
  OBVIOUS
<1>1. CASE UNCHANGED vars
  BY <1>1 DEF vars, LifeInv, TypeOK, SetsApart, ReaderOK, NothingManaged, WorkersOK, MonitorOK,
              Observed, BaselineOK, StreamsFollow, Untold, NoBlockBetween
<1>2. CASE Reader
  <2>1. CASE IdentitiesKeepMoving
    BY <2>1, GoneOff, TableFacts DEF IdentitiesKeepMoving, world
  <2>2. CASE RecordRefused
    BY <2>2, GoneOff, TableFacts DEF RecordRefused, world
  <2>3. QED
    BY <1>2, <2>1, <2>2, PreparingStep, ReadingStep, StartupStep, RecordReadingStep,
       AnnounceStep, OutsideStep DEF Reader
<1>3. CASE Monitor
  BY <1>3, RousedStep, ReadCurrentStep, AdditionStep DEF Monitor
<1>4. CASE Crash
  <2>1. faults' \in 0..MaxFaults
    BY <1>4, TableFacts, Constants DEF Crash, Fault
  <2>2. QED
    BY <1>4, <2>1, GoneOff DEF Crash, world
<1>5. ASSUME NEW w \in WorkerId, Join(w) PROVE LifeInv'
  BY <1>5, JoinStep DEF Join
<1>6. CASE Next
  BY <1>2, <1>3, <1>4, <1>5, <1>6, OutsideStep, WorkerStep, AdditionStep DEF Next
<1>7. QED
  BY <1>1, <1>6

\* The invariant holds of every behaviour.
LEMMA LifeAlways == Spec => []LifeInv
BY LifeInit, LifeStep, PTL DEF Spec

-----------------------------------------------------------------------------
(* One stream per slot.                                                    *)

\* Steps that start, stop and retire no worker.
LEMMA OwnKept ==
  ASSUME OneStreamPerSlot, managed' = managed,
         \A v \in WorkerId : \/ worker'[v].exit = "free"
                             \/ /\ worker[v].exit # "free"
                                /\ worker'[v].inst = worker[v].inst
                                /\ worker'[v].stop = worker[v].stop
  PROVE  OneStreamPerSlot'
BY DEF OneStreamPerSlot

\* A process that is off has no worker.
LEMMA OwnGone ==
  ASSUME worker' = [w \in WorkerId |-> Free] PROVE OneStreamPerSlot'
<1>1. \A w \in WorkerId : worker'[w].exit = "free"
  BY FreeFields
<1>2. QED
  BY <1>1 DEF OneStreamPerSlot

\* The worker that a slot is managed by is the first of its instance.
LEMMA OwnStartup ==
  ASSUME LifeInv, RecordSnapshot PROVE OneStreamPerSlot'
<1> SUFFICES ASSUME NEW w \in WorkerId, worker'[w].exit # "free"
             PROVE  managed'[SlotOf[worker'[w].inst]] = w /\ ~worker'[w].stop
  BY DEF OneStreamPerSlot
<1>1. PICK i \in st.expected : /\ worker'[w] = Running(i, st.from, TRUE)
                               /\ managed'[SlotOf[i]] = w
  <2>1. worker'[w] # Free
    BY FreeFields
  <2>2. PICK id \in [st.expected -> WorkerId] :
           /\ \A i \in st.expected : managed'[SlotOf[i]] = id[i]
           /\ \A v \in WorkerId : \/ worker'[v] = Free
                                  \/ \E i \in st.expected :
                                        id[i] = v /\ worker'[v] = Running(i, st.from, TRUE)
    <3>1. LifeInv /\ RecordSnapshot
      OBVIOUS
    <3>2. QED
      BY <3>1, StartedStreams, Zenon
  <2>3. QED
    BY <2>1, <2>2, ZenonT(60)
<1>2. /\ i \in Instance /\ st.from \in Position
  BY ReaderFacts DEF State
<1>3. worker'[w].inst = i /\ worker'[w].stop = FALSE
  <2>1. Running(i, st.from, TRUE).inst = i /\ Running(i, st.from, TRUE).stop = FALSE
    BY <1>2, RunningFields
  <2>2. QED
    BY <1>1, <2>1, Zenon
<1>4. QED
  <2>1. SlotOf[worker'[w].inst] = SlotOf[i]
    BY <1>3, Zenon
  <2>2. QED
    BY <1>1, <1>3, <2>1

\* A stopped worker's exit takes the entry of its instance with it, if there is
\* one, and stops the worker of that entry.
LEMMA OwnJoin ==
  ASSUME LifeInv, OneStreamPerSlot, NEW w \in WorkerId, JoinStopped(w)
  PROVE  OneStreamPerSlot'
<1> DEFINE s == SlotOf[worker[w].inst]
           heir == IF StillManaged(w) THEN managed[s] ELSE 0
<1>1. /\ worker[w].exit = "stopped" /\ s \in Slots
      /\ managed' = IF heir = 0 THEN managed ELSE [managed EXCEPT ![s] = 0]
      /\ worker' = [v \in WorkerId |-> IF v = w THEN Free
                                       ELSE IF v = heir THEN [worker[v] EXCEPT !.stop = TRUE]
                                       ELSE worker[v]]
  BY TableFacts DEF JoinStopped
<1>2. /\ heir = 0 \/ (heir = managed[s] /\ heir \in WorkerId)
      /\ managed \in [Slots -> WorkerId \cup {0}] /\ 0 \notin WorkerId
  BY <1>1, TableFacts
<1> SUFFICES ASSUME NEW v \in WorkerId, worker'[v].exit # "free"
             PROVE  managed'[SlotOf[worker'[v].inst]] = v <=> ~worker'[v].stop
  BY DEF OneStreamPerSlot
<1> HIDE DEF heir
<1>3. v # w
  BY <1>1, FreeFields
<1>4. CASE v = heir
  <2>1. worker'[v] = [worker[v] EXCEPT !.stop = TRUE]
    BY <1>1, <1>3, <1>4
  <2>2. worker'[v].stop = TRUE /\ worker'[v].inst = worker[v].inst
    BY <2>1, StoppedFields, TableFacts DEF Worker
  <2>3. heir = managed[s] /\ SlotOf[worker[v].inst] = s
    BY <1>1, <1>2, <1>4, TableFacts
  <2>4. managed'[s] = 0
    BY <1>1, <1>2, <1>4
  <2>5. QED
    BY <1>2, <2>2, <2>3, <2>4
<1>5. CASE v # heir
  <2>1. worker'[v] = worker[v]
    BY <1>1, <1>3, <1>5
  <2>2. SlotOf[worker[v].inst] \in Slots
    BY <2>1, TableFacts
  <2>3. managed'[SlotOf[worker[v].inst]] = v <=> managed[SlotOf[worker[v].inst]] = v
    BY <1>1, <1>2, <1>5, <2>2
  <2>4. QED
    BY <2>1, <2>3 DEF OneStreamPerSlot
<1>6. QED
  BY <1>4, <1>5

\* Whose instance is not current any more leaves the table and is told to stop.
LEMMA OwnReadCurrent ==
  ASSUME LifeInv, OneStreamPerSlot, ReadCurrent PROVE OneStreamPerSlot'
<1>1. /\ managed' = [s \in Slots |-> IF s \in Retired THEN 0 ELSE managed[s]]
      /\ worker' = [w \in WorkerId |-> IF \E s \in Retired : managed[s] = w
                                       THEN [worker[w] EXCEPT !.stop = TRUE] ELSE worker[w]]
  BY DEF ReadCurrent
<1>2. /\ \A s \in Retired : s \in Slots /\ managed[s] # 0
      /\ 0 \notin WorkerId
  BY TableFacts DEF Retired
<1> SUFFICES ASSUME NEW v \in WorkerId, worker'[v].exit # "free"
             PROVE  managed'[SlotOf[worker'[v].inst]] = v <=> ~worker'[v].stop
  BY DEF OneStreamPerSlot
<1>3. CASE \E s \in Retired : managed[s] = v
  <2>1. PICK s \in Retired : managed[s] = v
    BY <1>3
  <2>2. worker'[v].stop = TRUE /\ worker'[v].inst = worker[v].inst
    BY <1>1, <1>3, StoppedFields, TableFacts DEF Worker
  <2>3. SlotOf[worker[v].inst] = s /\ managed'[s] = 0
    BY <1>1, <1>2, <2>1, TableFacts
  <2>4. QED
    BY <1>2, <2>2, <2>3
<1>4. CASE ~\E s \in Retired : managed[s] = v
  <2>1. worker'[v] = worker[v]
    BY <1>1, <1>4
  <2>2. SlotOf[worker[v].inst] \in Slots
    BY <2>1, TableFacts
  <2>3. managed'[SlotOf[worker[v].inst]] = v <=> managed[SlotOf[worker[v].inst]] = v
    BY <1>1, <1>2, <1>4, <2>2
  <2>4. QED
    BY <2>1, <2>3 DEF OneStreamPerSlot
<1>5. QED
  BY <1>3, <1>4

\* An addition is for a slot that is not managed.
LEMMA OwnActivate ==
  ASSUME LifeInv, OneStreamPerSlot, NEW i \in Instance, Activate(i)
  PROVE  OneStreamPerSlot'
<1>1. PICK w \in WorkerId : /\ worker[w].exit = "free"
                            /\ worker' = [worker EXCEPT ![w] = Running(i, mon.from, mon.from <= Len(log))]
                            /\ managed' = [managed EXCEPT ![SlotOf[i]] = w]
  <2> DEFINE free == CHOOSE v \in WorkerId : worker[v].exit = "free"
  <2>1. free \in WorkerId /\ worker[free].exit = "free"
    BY DEF Activate
  <2>2. /\ worker' = [worker EXCEPT ![free] = Running(i, mon.from, mon.from <= Len(log))]
        /\ managed' = [managed EXCEPT ![SlotOf[i]] = free]
    BY DEF Activate
  <2> HIDE DEF free
  <2>3. QED
    BY <2>1, <2>2
<1>2. SlotOf[i] \in Slots /\ managed[SlotOf[i]] = 0
  BY DEF Activate, NextAddition, LifeInv, MonitorOK
<1>3. mon.from \in Position /\ (mon.from <= Len(log)) \in BOOLEAN
  BY TableFacts DEF MonitorState
<1>4. worker \in [WorkerId -> Worker] /\ managed \in [Slots -> WorkerId \cup {0}] /\ 0 \notin WorkerId
  BY TableFacts
<1> SUFFICES ASSUME NEW v \in WorkerId, worker'[v].exit # "free"
             PROVE  managed'[SlotOf[worker'[v].inst]] = v <=> ~worker'[v].stop
  BY DEF OneStreamPerSlot
<1>5. CASE v = w
  <2> DEFINE on == mon.from <= Len(log)
  <2>1. worker'[v] = Running(i, mon.from, on) /\ managed'[SlotOf[i]] = v
    BY <1>1, <1>2, <1>4, <1>5
  <2>2. Running(i, mon.from, on).inst = i /\ Running(i, mon.from, on).stop = FALSE
    BY <1>3, RunningFields
  <2> HIDE DEF on
  <2>3. QED
    BY <2>1, <2>2
<1>6. CASE v # w
  <2>1. worker'[v] = worker[v]
    BY <1>1, <1>4, <1>6
  <2>2. SlotOf[worker[v].inst] \in Slots
    BY <2>1, TableFacts
  <2>3. managed'[SlotOf[worker[v].inst]] = v <=> managed[SlotOf[worker[v].inst]] = v
    BY <1>1, <1>2, <1>4, <1>6, <2>2
  <2>4. QED
    BY <2>1, <2>3 DEF OneStreamPerSlot
<1>7. QED
  BY <1>5, <1>6

LEMMA OwnInit == Init => OneStreamPerSlot
BY FreeFields DEF Init, OneStreamPerSlot

\* The steps of one worker, or of the other tasks, that leave the table alone.
LEMMA OwnElsewhere ==
  ASSUME LifeInv, OneStreamPerSlot, UNCHANGED <<managed, worker>> PROVE OneStreamPerSlot'
BY DEF OneStreamPerSlot

LEMMA OwnStep == LifeInv /\ OneStreamPerSlot /\ [Next]_vars => OneStreamPerSlot'
<1> SUFFICES ASSUME LifeInv, OneStreamPerSlot, [Next]_vars PROVE OneStreamPerSlot'
  OBVIOUS
<1>1. CASE UNCHANGED vars
  BY <1>1, OwnElsewhere DEF vars
<1>2. CASE Reader
  <2>1. CASE IdentitiesKeepMoving \/ RecordRefused
    BY <2>1, OwnGone DEF IdentitiesKeepMoving, RecordRefused, Gone
  <2>2. CASE RecordSnapshot
    BY <2>2, OwnStartup
  <2>3. CASE ~(IdentitiesKeepMoving \/ RecordRefused \/ RecordSnapshot)
    <3>1. UNCHANGED <<managed, worker>>
      BY <1>2, <2>3 DEF Reader, Start, Expect, Subscribe, ReadBefore, ReadAnchor, ReadActive,
         ReadAfter, SnapshotMoved, AcceptSnapshot, IdentitiesMoved, RecordReading, Announce,
         Wake, Stepping, streams
    <3>2. QED
      BY <3>1, OwnElsewhere
  <2>4. QED
    BY <2>1, <2>2, <2>3
<1>3. CASE \/ \E b \in Block : Connect(b)
           \/ Disconnect \/ PollRead \/ PollReport
           \/ TakeNotice \/ OpenStream
           \/ \E i \in Instance : RetryActivation(i) \/ ActivationDeferred(i)
  <2>1. UNCHANGED <<managed, worker>>
    BY <1>3 DEF Connect, Disconnect, PollRead, PollReport, TakeNotice, OpenStream,
       RetryActivation, ActivationDeferred, streams
  <2>2. QED
    BY <2>1, OwnElsewhere
<1>4. CASE ReadFails \/ Crash
  <2>1. UNCHANGED <<managed, worker>> \/ worker' = [w \in WorkerId |-> Free]
    BY <1>4 DEF ReadFails, Crash, Gone, streams
  <2>2. QED
    BY <2>1, OwnElsewhere, OwnGone
<1>5. ASSUME NEW w \in WorkerId, LiveEvent(w) \/ WorkerStops(w) \/ StreamFails(w)
      PROVE  OneStreamPerSlot'
  <2>1. /\ worker \in [WorkerId -> Worker] /\ worker[w] \in Worker
        /\ worker[w].exit = "running" /\ managed' = managed
    BY <1>5, TableFacts DEF LiveEvent, WorkerStops, StreamFails
  <2>2. \A x : /\ [worker[w] EXCEPT !.exit = x].inst = worker[w].inst
               /\ [worker[w] EXCEPT !.exit = x].stop = worker[w].stop
               /\ [worker[w] EXCEPT !.at = x].inst = worker[w].inst
               /\ [worker[w] EXCEPT !.at = x].stop = worker[w].stop
    BY <2>1 DEF Worker
  <2>3. \E x : \/ worker' = [worker EXCEPT ![w] = [worker[w] EXCEPT !.exit = x]]
               \/ worker' = [worker EXCEPT ![w] = [worker[w] EXCEPT !.at = x]]
    BY <1>5 DEF LiveEvent, WorkerStops, StreamFails
  <2>4. \E y : /\ worker' = [worker EXCEPT ![w] = y]
               /\ y.inst = worker[w].inst /\ y.stop = worker[w].stop
    <3>1. PICK x : \/ worker' = [worker EXCEPT ![w] = [worker[w] EXCEPT !.exit = x]]
                   \/ worker' = [worker EXCEPT ![w] = [worker[w] EXCEPT !.at = x]]
      BY <2>3
    <3> DEFINE exits == [worker[w] EXCEPT !.exit = x]
               moves == [worker[w] EXCEPT !.at = x]
    <3>2. /\ exits.inst = worker[w].inst /\ exits.stop = worker[w].stop
          /\ moves.inst = worker[w].inst /\ moves.stop = worker[w].stop
      BY <2>2
    <3>3. worker' = [worker EXCEPT ![w] = exits] \/ worker' = [worker EXCEPT ![w] = moves]
      BY <3>1
    <3> HIDE DEF exits, moves
    <3>4. QED
      BY <3>2, <3>3
  <2>5. \A v \in WorkerId : worker'[v].inst = worker[v].inst /\ worker'[v].stop = worker[v].stop
    BY <2>1, <2>4
  <2>6. \A v \in WorkerId \ {w} : worker'[v] = worker[v]
    BY <2>1, <2>4
  <2>7. QED
    BY <2>1, <2>5, <2>6, OwnKept
<1>6. ASSUME NEW w \in WorkerId, Join(w) PROVE OneStreamPerSlot'
  <2>1. CASE JoinStopped(w)
    BY <2>1, OwnJoin
  <2>2. CASE JoinRetiredError(w)
    <3>1. worker' = [worker EXCEPT ![w] = Free] /\ managed' = managed
          /\ worker \in [WorkerId -> Worker]
      BY <2>2, TableFacts DEF JoinRetiredError
    <3>2. QED
      BY <3>1, OwnKept, FreeFields
  <2>3. CASE JoinError(w)
    BY <2>3, OwnGone DEF JoinError, Gone
  <2>4. QED
    BY <1>6, <2>1, <2>2, <2>3 DEF Join
<1>7. CASE ReadCurrent
  BY <1>7, OwnReadCurrent
<1>8. ASSUME NEW i \in Instance, Activate(i) PROVE OneStreamPerSlot'
  BY <1>8, OwnActivate
<1>9. CASE Next
  BY <1>2, <1>3, <1>4, <1>5, <1>6, <1>7, <1>8, <1>9 DEF Next, Monitor
<1>10. QED
  BY <1>1, <1>9

\* A slot is observed by the stream it is managed by and by no other, although a
\* stopped worker's exit is matched by its instance and may take the entry of a
\* later worker with it (monitor_sidechains, OneStreamPerSlot).
THEOREM StreamsAreManaged == Spec => []OneStreamPerSlot
BY LifeInit, LifeStep, OwnInit, OwnStep, PTL DEF Spec
-----------------------------------------------------------------------------
\* Every variable of the reader, the monitor and the workers keeps its type, for
\* any chain of blocks and any number of slots (TypeOK).
THEOREM LifecycleTypes == Spec => []TypeOK
<1>1. LifeInv => TypeOK
  BY DEF LifeInv
<1>2. QED
  BY <1>1, LifeAlways, PTL

\* Whenever reader and monitor rest, the streams are those of the selected current
\* instances but for the deferred ones: no activation or retirement is lost between
\* Tracker::take_observation, update_sidechain_instances and monitor_sidechains,
\* whatever the chain does meanwhile (NoActivationLost).
THEOREM ActivationsArrive == Spec => []NoActivationLost
<1>1. LifeInv => NoActivationLost
  <2> SUFFICES ASSUME LifeInv, st.live, st.pc = "wait", ~st.retry, mon.pc = "wait", ~notified
               PROVE  Observed = Selected(current) \ deferred
    BY DEF NoActivationLost
  <2>1. current = st.baseline
    BY DEF LifeInv, BaselineOK
  <2>2. mon.todo = {} /\ ~Untold
    BY DEF LifeInv, MonitorOK, Untold
  <2>3. QED
    BY <2>1, <2>2 DEF LifeInv, StreamsFollow
<1>2. QED
  BY <1>1, LifeAlways, PTL

\* No stream begins after the history request made for it ends: a block falls into
\* one or the other (subscribe before the target is read, NoBlockBetween).
THEOREM StreamMeetsHistory == Spec => []NoBlockBetween
<1>1. LifeInv => NoBlockBetween
  BY DEF LifeInv
<1>2. QED
  BY <1>1, LifeAlways, PTL

=============================================================================

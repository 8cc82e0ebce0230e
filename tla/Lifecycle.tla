------------------------------ MODULE Lifecycle ------------------------------
(***************************************************************************)
(* Which sidechain instances the extractor observes: the startup snapshot,  *)
(* the state worker that re-reads the active sidechains when a block is     *)
(* reported, the current instances it leaves in the record, and the monitor *)
(* that opens and closes one event stream per selected instance.            *)
(*                                                                         *)
(* The enforcer's chain moves one block at a time while a reading of three  *)
(* or four unary calls is under way.  Reports of blocks are watch channels: *)
(* a receiver sees the last value only.  A reading whose two tips differ is *)
(* recorded, but changes neither the current instances nor the baseline.    *)
(***************************************************************************)
EXTENDS Integers, Sequences

CONSTANTS
    Block, Parent, NoBlock,
    Genesis,      \* the tip at which the behaviour begins
    Instance, SlotOf,
    ActiveAt,     \* the instances that are active after a block
    Slots,        \* the slots that are observed
    WorkerId,     \* bound: stream workers that exist at once
    Attempts,     \* SNAPSHOT_MAX_ATTEMPTS
    MaxMoves,     \* bound on the moves of the tip
    MaxFaults     \* bound on failed calls, lost streams and crashes

ASSUME LifecycleAssumption ==
    /\ Parent \in [Block -> Block \cup {NoBlock}] /\ NoBlock \notin Block
    /\ Genesis \in Block
    /\ SlotOf \in [Instance -> Nat]
    /\ ActiveAt \in [Block -> SUBSET Instance]
    /\ \A b \in Block : \A i, j \in ActiveAt[b] : SlotOf[i] = SlotOf[j] => i = j
    /\ Slots \subseteq Nat /\ 0 \notin WorkerId
    /\ \E f \in [Slots -> WorkerId] : \A s, t \in Slots : f[s] = f[t] => s = t
    /\ Attempts \in Nat \ {0} /\ {MaxMoves, MaxFaults} \subseteq Nat

VARIABLES
    tip,       \* the enforcer's tip
    log,       \* the block that each move of the tip connected or disconnected
    faults,
    current,   \* current_sidechain_instance
    st,        \* the startup, then the state worker
    block,     \* the channel of reported blocks
    poll,      \* the tip that monitor_tip has read and not yet reported
    notified,  \* the channel of durable lifecycle changes has a new value
    mon,       \* monitor_sidechains
    managed,   \* the worker of each slot, 0 for none
    worker,    \* its join set
    deferred   \* instances whose activation is retried later

world == <<tip, log>>
streams == <<mon, managed, worker, deferred>>
vars == <<tip, log, faults, current, st, block, poll, notified, mon, managed, worker, deferred>>

Selected(instances) == {i \in instances : SlotOf[i] \in Slots}

Position == 0..MaxMoves

State ==
    [pc : {"down", "expect", "subscribe", "before", "anchor", "active", "after", "record",
           "announce", "wait", "refused"},
     live : BOOLEAN,             \* the startup is over
     round : 1..Attempts, attempt : 1..Attempts,
     expected : SUBSET Instance,
     from : Position, target : Position,
     before : Block, anchor : Block, read : SUBSET Instance, matched : BOOLEAN,
     changed : BOOLEAN,          \* the reading is to be announced
     baseline : SUBSET Instance, \* Tracker.last
     retry : BOOLEAN, failed : BOOLEAN,
     trigger : Block, refreshed : Block]

Asleep ==
    [pc |-> "down", live |-> FALSE, round |-> 1, attempt |-> 1, expected |-> {}, from |-> 0,
     target |-> 0, before |-> Genesis, anchor |-> Genesis, read |-> {}, matched |-> FALSE,
     changed |-> FALSE, baseline |-> {}, retry |-> FALSE, failed |-> FALSE,
     trigger |-> Genesis, refreshed |-> Genesis]

\* covered: the stream began no later than the target of the history request.
Worker ==
    [exit : {"free", "running", "stopped", "error"}, inst : Instance \cup {NoBlock},
     at : Position, stop : BOOLEAN, covered : BOOLEAN]

Free == [exit |-> "free", inst |-> NoBlock, at |-> 0, stop |-> FALSE, covered |-> TRUE]

Running(i, at, covered) ==
    [exit |-> "running", inst |-> i, at |-> at, stop |-> FALSE, covered |-> covered]

Idle == [pc |-> "wait", todo |-> {}, from |-> 0]

Init ==
    /\ tip = Genesis
    /\ log = <<>>
    /\ faults = 0
    /\ current = {}
    /\ st = Asleep
    /\ block = [hash |-> Genesis, fresh |-> FALSE]
    /\ poll = NoBlock
    /\ notified = FALSE
    /\ mon = Idle
    /\ managed = [s \in Slots |-> 0]
    /\ worker = [w \in WorkerId |-> Free]
    /\ deferred = {}

\* The process is gone, and everything but the record with it.
Gone(pc) ==
    /\ st' = [Asleep EXCEPT !.pc = pc]
    /\ block' = [hash |-> Genesis, fresh |-> FALSE]
    /\ poll' = NoBlock
    /\ notified' = FALSE
    /\ mon' = Idle
    /\ managed' = [s \in Slots |-> 0]
    /\ worker' = [w \in WorkerId |-> Free]
    /\ deferred' = {}

Fault ==
    /\ faults < MaxFaults
    /\ faults' = faults + 1
-----------------------------------------------------------------------------
(* The enforcer.                                                           *)

Connect(b) ==
    /\ Parent[b] = tip
    /\ Len(log) < MaxMoves
    /\ tip' = b
    /\ log' = Append(log, b)
    /\ UNCHANGED <<faults, current, st, block, poll, notified, streams>>

\* A disconnect names the block that goes away, not the tip it leaves.
Disconnect ==
    /\ Parent[tip] # NoBlock
    /\ Len(log) < MaxMoves
    /\ tip' = Parent[tip]
    /\ log' = Append(log, tip)
    /\ UNCHANGED <<faults, current, st, block, poll, notified, streams>>
-----------------------------------------------------------------------------
(* One reading of the state: startup and state worker make the same calls,  *)
(* the startup reads the anchor once more.                                 *)

Stepping(pc, next) ==
    /\ st.pc = pc
    /\ st' = next
    /\ UNCHANGED <<world, faults, current, block, poll, notified, streams>>

Start ==
    /\ st.pc \in {"down", "refused"}
    /\ Stepping(st.pc, [Asleep EXCEPT !.pc = "expect"])

Expect == Stepping("expect", [st EXCEPT !.pc = "subscribe", !.expected = Selected(ActiveAt[tip])])

\* Every expected slot, before the snapshot.
Subscribe ==
    Stepping("subscribe", [st EXCEPT !.pc = "before", !.attempt = 1, !.from = Len(log)])

ReadBefore ==
    Stepping("before", [st EXCEPT !.pc = IF st.live THEN "active" ELSE "anchor", !.before = tip])

ReadAnchor ==
    Stepping("anchor", [st EXCEPT !.pc = "active", !.anchor = tip, !.target = Len(log)])

ReadActive == Stepping("active", [st EXCEPT !.pc = "after", !.read = ActiveAt[tip]])

\* The state worker records whatever it read.
ReadAfter ==
    /\ st.live
    /\ Stepping("after", [st EXCEPT !.pc = "record", !.matched = st.before = tip])

SnapshotMatches == st.before = st.anchor /\ st.anchor = tip

\* The startup repeats a snapshot whose tips differ, but not for ever.
SnapshotMoved ==
    /\ ~st.live
    /\ ~SnapshotMatches
    /\ st.attempt < Attempts
    /\ Stepping("after", [st EXCEPT !.pc = "before", !.attempt = @ + 1, !.read = {}])

SnapshotTaken == ~st.live /\ (SnapshotMatches \/ st.attempt = Attempts)

AcceptSnapshot ==
    /\ SnapshotTaken
    /\ Selected(st.read) = st.expected
    /\ Stepping("after", [st EXCEPT !.pc = "record", !.matched = SnapshotMatches])

\* "active sidechain identities changed while preparing subscriptions"
IdentitiesMoved ==
    /\ SnapshotTaken
    /\ Selected(st.read) # st.expected
    /\ st.round < Attempts
    /\ Stepping("after", [Asleep EXCEPT !.pc = "expect", !.round = st.round + 1])

IdentitiesKeepMoving ==
    /\ SnapshotTaken
    /\ Selected(st.read) # st.expected
    /\ st.round = Attempts
    /\ st.pc = "after"
    /\ Gone("down")
    /\ UNCHANGED <<world, faults, current>>

\* What the state worker keeps between two readings.
Resting ==
    [Asleep EXCEPT !.pc = "wait", !.live = TRUE, !.baseline = st.baseline, !.retry = st.retry,
                   !.failed = st.failed, !.refreshed = st.refreshed]

Reading == {"before", "anchor", "active", "after"}

\* A failed call ends the startup; the state worker tries again later.
ReadFails ==
    /\ st.pc \in Reading \cup {"expect", "subscribe"}
    /\ Fault
    /\ \/ ~st.live /\ Gone("down")
       \/ /\ st.live
          /\ st' = [Resting EXCEPT !.failed = TRUE]
          /\ UNCHANGED <<block, poll, notified, streams>>
    /\ UNCHANGED <<world, current>>
-----------------------------------------------------------------------------
(* Recording a reading.                                                    *)

\* The ctip of a selected slot is tagged with the current instance of the slot;
\* only a reading with one tip may make an instance current before that.
Untagged ==
    /\ ~st.matched
    /\ \E i \in Selected(st.read) : \A j \in current : SlotOf[j] # SlotOf[i]

\* "no active sidechain instance is registered for slot": the transaction is
\* rolled back and the error ends the process.
RecordRefused ==
    /\ st.pc = "record"
    /\ Untagged
    /\ Gone("refused")
    /\ UNCHANGED <<world, faults, current>>

\* update_sidechain_instances
CurrentAfter == IF st.matched THEN st.read ELSE current

SlotsOf(instances) == {SlotOf[i] : i \in instances}

\* The snapshot is durable: the channels and the workers are set up.
RecordSnapshot ==
    LET id == CHOOSE f \in [st.expected -> WorkerId] :
                  \A i, j \in st.expected : f[i] = f[j] => i = j
        covered == st.from <= st.target
    IN  /\ st.pc = "record"
        /\ ~st.live
        /\ ~Untagged
        /\ current' = CurrentAfter
        /\ block' = [hash |-> st.anchor, fresh |-> FALSE]
        /\ worker' = [w \in WorkerId |->
                         IF \E i \in st.expected : id[i] = w
                         THEN Running(CHOOSE i \in st.expected : id[i] = w, st.from, covered)
                         ELSE Free]
        /\ managed' = [s \in Slots |->
                          IF s \in SlotsOf(st.expected)
                          THEN id[CHOOSE i \in st.expected : SlotOf[i] = s]
                          ELSE 0]
        /\ st' = [Asleep EXCEPT !.pc = "wait", !.live = TRUE, !.baseline = st.read,
                                !.retry = ~st.matched, !.refreshed = st.anchor]
        /\ UNCHANGED <<world, faults, poll, notified, mon, deferred>>

\* Mutant: a reading whose tips differ becomes the baseline as well.
BaselineAfterAlways == st.read

\* Tracker::take_observation
BaselineAfter == IF st.matched THEN st.read ELSE st.baseline

RecordReading ==
    /\ st.pc = "record"
    /\ st.live
    /\ ~Untagged
    /\ current' = CurrentAfter
    /\ st' = [st EXCEPT !.pc = "announce", !.failed = FALSE, !.refreshed = st.trigger,
                        !.retry = ~st.matched, !.baseline = BaselineAfter,
                        !.changed = st.matched /\ st.read # st.baseline]
    /\ UNCHANGED <<world, faults, block, poll, notified, streams>>

\* After the commit; then the next attempt, if the tips differed.
Announce ==
    /\ st.pc = "announce"
    /\ notified' = (notified \/ st.changed)
    /\ st' = IF st.retry /\ st.attempt < Attempts
             THEN [Resting EXCEPT !.pc = "before", !.attempt = st.attempt + 1,
                                  !.trigger = st.trigger]
             ELSE Resting
    /\ UNCHANGED <<world, faults, current, block, poll, streams>>

\* Mutant: nothing but a reported block wakes the state worker.
WakeOnBlock == block.fresh

\* A reported block, or the timer of a reading that has to be repeated.
WakeUp == block.fresh \/ st.retry \/ st.failed

\* Only the first report of a block makes it read.
Wake ==
    /\ st.pc = "wait"
    /\ WakeUp
    /\ block' = [block EXCEPT !.fresh = FALSE]
    /\ st' = IF block.hash = st.refreshed /\ ~st.retry /\ ~st.failed
             THEN st
             ELSE [st EXCEPT !.pc = "before", !.trigger = block.hash]
    /\ UNCHANGED <<world, faults, current, poll, notified, streams>>
-----------------------------------------------------------------------------
(* Reports of blocks: by the tip poll and by the streams.                   *)

PollRead ==
    /\ st.live
    /\ poll = NoBlock
    /\ poll' = tip
    /\ UNCHANGED <<world, faults, current, st, block, notified, streams>>

\* After the observation is recorded; only what the channel does not hold.
PollReport ==
    /\ poll # NoBlock
    /\ block' = IF block.hash = poll THEN block ELSE [hash |-> poll, fresh |-> TRUE]
    /\ poll' = NoBlock
    /\ UNCHANGED <<world, faults, current, st, notified, streams>>

LiveEvent(w) ==
    /\ worker[w].exit = "running"
    /\ ~worker[w].stop
    /\ worker[w].at < Len(log)
    /\ worker' = [worker EXCEPT ![w].at = @ + 1]
    /\ block' = [hash |-> log[worker[w].at + 1], fresh |-> TRUE]
    /\ UNCHANGED <<world, faults, current, st, poll, notified, mon, managed, deferred>>
-----------------------------------------------------------------------------
(* The stream workers and their monitor.                                   *)

\* Told to stop, or the sender of its stop signal was dropped.
WorkerStops(w) ==
    /\ worker[w].exit = "running"
    /\ worker[w].stop
    /\ worker' = [worker EXCEPT ![w].exit = "stopped"]
    /\ UNCHANGED <<world, faults, current, st, block, poll, notified, mon, managed, deferred>>

\* The stream ends, fails or stalls, or an event of it cannot be recorded.
StreamFails(w) ==
    /\ worker[w].exit = "running"
    /\ ~worker[w].stop
    /\ Fault
    /\ worker' = [worker EXCEPT ![w].exit = "error"]
    /\ UNCHANGED <<world, current, st, block, poll, notified, mon, managed, deferred>>

Exited == {w \in WorkerId : worker[w].exit \in {"stopped", "error"}}

\* The slot of w is managed for the instance of w, by w or by a later worker.
StillManaged(w) ==
    LET s == SlotOf[worker[w].inst]
    IN  managed[s] # 0 /\ worker[managed[s]].inst = worker[w].inst

\* Mutant: an entry that goes with the exit of another worker keeps its stop
\* sender.
JoinLeavesHeir(w) ==
    LET s == SlotOf[worker[w].inst]
    IN  /\ mon.pc = "wait"
        /\ worker[w].exit = "stopped"
        /\ managed' = IF StillManaged(w) THEN [managed EXCEPT ![s] = 0] ELSE managed
        /\ worker' = [worker EXCEPT ![w] = Free]
        /\ mon' = [mon EXCEPT !.pc = "read"]
        /\ UNCHANGED <<world, faults, current, st, block, poll, notified, deferred>>

\* Dropping the entry drops its stop sender.
JoinStopped(w) ==
    LET s == SlotOf[worker[w].inst]
        heir == IF StillManaged(w) THEN managed[s] ELSE 0
    IN  /\ mon.pc = "wait"
        /\ worker[w].exit = "stopped"
        /\ managed' = IF heir = 0 THEN managed ELSE [managed EXCEPT ![s] = 0]
        /\ worker' = [v \in WorkerId |-> IF v = w THEN Free
                                         ELSE IF v = heir THEN [worker[v] EXCEPT !.stop = TRUE]
                                         ELSE worker[v]]
        /\ mon' = [mon EXCEPT !.pc = "read"]
        /\ UNCHANGED <<world, faults, current, st, block, poll, notified, deferred>>

\* "ignored failure from a retired sidechain worker"
JoinRetiredError(w) ==
    /\ mon.pc = "wait"
    /\ worker[w].exit = "error"
    /\ ~StillManaged(w)
    /\ worker' = [worker EXCEPT ![w] = Free]
    /\ UNCHANGED <<world, faults, current, st, block, poll, notified, mon, managed, deferred>>

JoinError(w) ==
    /\ mon.pc = "wait"
    /\ worker[w].exit = "error"
    /\ StillManaged(w)
    /\ Gone("down")
    /\ UNCHANGED <<world, faults, current>>

TakeNotice ==
    /\ st.live
    /\ mon.pc = "wait"
    /\ Exited = {}
    /\ notified
    /\ notified' = FALSE
    /\ mon' = [mon EXCEPT !.pc = "read"]
    /\ UNCHANGED <<world, faults, current, st, block, poll, managed, worker, deferred>>

RetryActivation(i) ==
    /\ mon.pc = "wait"
    /\ Exited = {}
    /\ ~notified
    /\ i \in deferred
    /\ deferred' = deferred \ {i}
    /\ mon' = [mon EXCEPT !.pc = "read"]
    /\ UNCHANGED <<world, faults, current, st, block, poll, notified, managed, worker>>

\* Slots whose worker observes an instance that is not current any more.
Retired == {s \in Slots : managed[s] # 0 /\ worker[managed[s]].inst \notin Selected(current)}

\* The durable instances: retire first, then see what is missing.
ReadCurrent ==
    LET kept == [s \in Slots |-> IF s \in Retired THEN 0 ELSE managed[s]]
        todo == {i \in Selected(current) : kept[SlotOf[i]] = 0 /\ i \notin deferred}
    IN  /\ mon.pc = "read"
        /\ managed' = kept
        /\ worker' = [w \in WorkerId |->
                         IF \E s \in Retired : managed[s] = w
                         THEN [worker[w] EXCEPT !.stop = TRUE]
                         ELSE worker[w]]
        /\ mon' = IF todo = {} THEN Idle ELSE [pc |-> "open", todo |-> todo, from |-> 0]
        /\ UNCHANGED <<world, faults, current, st, block, poll, notified, deferred>>

\* The additions in the order of their slots.
NextAddition(i) == i \in mon.todo /\ \A j \in mon.todo : SlotOf[i] <= SlotOf[j]

OpenStream ==
    /\ mon.pc = "open"
    /\ mon' = [mon EXCEPT !.pc = "target", !.from = Len(log)]
    /\ UNCHANGED <<world, faults, current, st, block, poll, notified, managed, worker, deferred>>

Added(i) ==
    IF mon.todo = {i} THEN Idle ELSE [mon EXCEPT !.pc = "open", !.todo = @ \ {i}]

\* Mutant: the history target is read first, then the stream is opened.
ActivateSwapped(i) ==
    /\ mon.pc = "target"
    /\ NextAddition(i)
    /\ \E w \in WorkerId : worker[w].exit = "free"
    /\ LET w == CHOOSE v \in WorkerId : worker[v].exit = "free"
       IN  /\ worker' = [worker EXCEPT ![w] = Running(i, Len(log), Len(log) <= mon.from)]
           /\ managed' = [managed EXCEPT ![SlotOf[i]] = w]
    /\ mon' = Added(i)
    /\ UNCHANGED <<world, faults, current, st, block, poll, notified, deferred>>

\* The tip is read, which is the history target, and the worker is started.
Activate(i) ==
    /\ mon.pc = "target"
    /\ NextAddition(i)
    /\ \E w \in WorkerId : worker[w].exit = "free"
    /\ LET w == CHOOSE v \in WorkerId : worker[v].exit = "free"
       IN  /\ worker' = [worker EXCEPT ![w] = Running(i, mon.from, mon.from <= Len(log))]
           /\ managed' = [managed EXCEPT ![SlotOf[i]] = w]
    /\ mon' = Added(i)
    /\ UNCHANGED <<world, faults, current, st, block, poll, notified, deferred>>

ActivationDeferred(i) ==
    /\ mon.pc \in {"open", "target"}
    /\ NextAddition(i)
    /\ Fault
    /\ deferred' = deferred \cup {i}
    /\ mon' = Added(i)
    /\ UNCHANGED <<world, current, st, block, poll, notified, managed, worker>>

\* A crash, an error that is not retried, or a failed write.
Crash ==
    /\ st.pc # "down"
    /\ Fault
    /\ Gone("down")
    /\ UNCHANGED <<world, current>>
-----------------------------------------------------------------------------
Reader ==
    \/ Start \/ Expect \/ Subscribe
    \/ ReadBefore \/ ReadAnchor \/ ReadActive \/ ReadAfter
    \/ SnapshotMoved \/ AcceptSnapshot \/ IdentitiesMoved \/ IdentitiesKeepMoving
    \/ RecordRefused \/ RecordSnapshot \/ RecordReading \/ Announce \/ Wake

Join(w) == JoinStopped(w) \/ JoinRetiredError(w) \/ JoinError(w)

Monitor ==
    \/ TakeNotice \/ ReadCurrent \/ OpenStream
    \/ \E i \in Instance : RetryActivation(i) \/ Activate(i)

Next ==
    \/ \E b \in Block : Connect(b)
    \/ Disconnect
    \/ Reader
    \/ ReadFails
    \/ PollRead
    \/ PollReport
    \/ Monitor
    \/ \E w \in WorkerId : LiveEvent(w) \/ WorkerStops(w) \/ StreamFails(w) \/ Join(w)
    \/ \E i \in Instance : ActivationDeferred(i)
    \/ Crash

Spec == Init /\ [][Next]_vars

\* Every task of the process is scheduled, calls are answered, timers fire, and
\* the process is started again. The streams themselves may stay silent.
Fairness ==
    /\ WF_vars(Reader)
    /\ WF_vars(PollRead) /\ WF_vars(PollReport)
    /\ WF_vars(Monitor)
    /\ \A w \in WorkerId : WF_vars(WorkerStops(w)) /\ WF_vars(Join(w))

LiveSpec == Spec /\ Fairness
-----------------------------------------------------------------------------
TypeOK ==
    /\ tip \in Block
    /\ log \in Seq(Block) /\ Len(log) <= MaxMoves
    /\ faults \in 0..MaxFaults
    /\ current \subseteq Instance
    /\ st \in State
    /\ block \in [hash : Block, fresh : BOOLEAN]
    /\ poll \in Block \cup {NoBlock}
    /\ notified \in BOOLEAN
    /\ mon \in [pc : {"wait", "read", "open", "target"}, todo : SUBSET Instance, from : Position]
    /\ managed \in [Slots -> WorkerId \cup {0}]
    /\ worker \in [WorkerId -> Worker]
    /\ deferred \subseteq Instance

Observed == {worker[managed[s]].inst : s \in {t \in Slots : managed[t] # 0}}

\* No activation or retirement is lost between the tracker, the record and the
\* monitor: when all of them rest, the managed streams are those of the current
\* instances, but for the ones whose activation is being retried.
NoActivationLost ==
    st.live /\ st.pc = "wait" /\ ~st.retry /\ mon.pc = "wait" /\ ~notified =>
        Observed = Selected(current) \ deferred

\* A stream that was not told to stop is the one by which its slot is managed, and
\* a managed one was not: no slot is observed twice, or by a stream about to stop,
\* although the exit of a stopped worker is matched by its instance and may remove
\* the entry of a later worker (monitor_sidechains).
OneStreamPerSlot ==
    \A w \in WorkerId : worker[w].exit # "free" =>
        (managed[SlotOf[worker[w].inst]] = w <=> ~worker[w].stop)

\* A stream begins no later than the history request for it ends: a block is
\* either delivered live or part of the requested history (runtime.rs,
\* "Subscribe before fixing the backfill target").
NoBlockBetween == \A w \in WorkerId : worker[w].covered

\* Every reading is recorded (docs/official-sources.md, "Snapshot consistency").
\* It does not hold: a reading that meets an activation while the tip moves has
\* payloads of an instance that is not current, and the insert is refused.
EveryReadingRecorded == st.pc # "refused"

\* The tip has never been the tip before.
NewTip ==
    \/ log = <<>>
    \/ /\ log[Len(log)] = tip
       /\ tip # Genesis
       /\ \A k \in 1..(Len(log) - 1) : log[k] # tip

Settled ==
    /\ current = ActiveAt[tip]
    /\ Observed = Selected(current)
    /\ \A s \in Slots : managed[s] # 0 => worker[managed[s]].exit = "running"

\* When the chain comes to rest at a new block and nothing fails any more, every
\* selected instance that is active there has its stream, and no other has one.
StreamsSettle == <>[](NewTip => Settled)

\* The state is "re-read whenever a block moves the tip" (state.rs): also when
\* it moves back.
StateFollowsTip == <>[](current = ActiveAt[tip])
=============================================================================

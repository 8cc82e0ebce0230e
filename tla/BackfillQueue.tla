---------------------------- MODULE BackfillQueue ----------------------------
(***************************************************************************)
(* The driver of the history engine: one task that takes history work from  *)
(* three sources (requests of the monitor, retries whose delay is over, and *)
(* tip changes that concern every activation), runs one pass at a time and  *)
(* follows it to the tip.                                                  *)
(*                                                                         *)
(* A pass of the engine (module History) is known here by its outcome.  The *)
(* sidechain a slot holds changes in the record under the driver's feet;    *)
(* the monitor (module Lifecycle) learns of it later and asks for the       *)
(* history of what it finds new.                                           *)
(***************************************************************************)
EXTENDS Integers, Sequences, FiniteSets, Functions

CONSTANTS
    Slot, Instance, SlotOf, None,
    MayReturn,    \* a retired instance may become current again
    MaxMoves,     \* bound on the moves of the tip
    MaxChanges,   \* bound on the changes of the current instances
    MaxFaults     \* bound on deferred passes, failed calls and restarts

Tip == 0..MaxMoves

\* A request is work for an instance, up to a target.
Wanted == [instance : Instance, target : Tip]

ASSUME QueueAssumption ==
    /\ Slot \subseteq Nat /\ IsFiniteSet(Slot)
    /\ SlotOf \in [Instance -> Slot]
    /\ None \notin Instance /\ None \notin Nat /\ None \notin Wanted
    /\ MayReturn \in BOOLEAN
    /\ {MaxMoves, MaxChanges, MaxFaults} \subseteq Nat

VARIABLES
    tip,          \* the enforcer's tip
    current,      \* current_sidechain_instance of each slot
    retired,      \* instances that were current
    changes, faults,
    reached,      \* the tip each instance's history has reached
    held,         \* the unfinished target each instance's history keeps
    conflict,     \* instances whose history is quarantined
    chan,         \* the tip channel: its value, and whether the driver saw it
    mon,          \* monitor_sidechains: a notice, its workers, what it is to add
    requests,     \* the channel of backfill requests
    activations, pending, retries, deferred,
    driver        \* "down", "idle", or where it is with which request

record == <<current, retired, changes, reached, held, conflict>>
queues == <<activations, pending, retries, deferred>>
vars == <<tip, faults, record, chan, mon, requests, queues, driver>>

Request(i, t) == [instance |-> i, target |-> t]

NoRequest == [instance |-> None, target |-> 0]

At(pc, request) == [pc |-> pc, instance |-> request.instance, target |-> request.target]

Idle == At("idle", NoRequest)

Nothing == [s \in Slot |-> None]

Init ==
    /\ tip = 0
    /\ current \in {f \in [Slot -> Instance \cup {None}] :
                        \A s \in Slot : f[s] # None => SlotOf[f[s]] = s}
    /\ retired = {}
    /\ changes = 0
    /\ faults = 0
    /\ reached = [i \in Instance |-> None]
    /\ held = [i \in Instance |-> None]
    /\ conflict = {}
    /\ chan = [tip |-> 0, fresh |-> FALSE]
    /\ mon = [notice |-> FALSE, workers |-> Nothing, adds |-> {}]
    /\ requests = <<>>
    /\ activations = Nothing
    /\ pending = Nothing
    /\ retries = [i \in Instance |-> None]
    /\ deferred = {}
    /\ driver = At("down", NoRequest)

Up == driver.pc # "down"

Fault ==
    /\ faults < MaxFaults
    /\ faults' = faults + 1

\* The instances of a set, in the order of their slots.
InOrder(is) ==
    {q \in Bijection(1..Cardinality(is), is) :
        \A m, n \in DOMAIN q : m < n => SlotOf[q[m]] < SlotOf[q[n]]}
-----------------------------------------------------------------------------
(* The world: the enforcer's tip, and the state worker that keeps the       *)
(* current instances.                                                      *)

Move ==
    /\ tip < MaxMoves
    /\ tip' = tip + 1
    /\ UNCHANGED <<faults, record, chan, mon, requests, queues, driver>>

\* A reading of the state is recorded and announced.
Change(s, i) ==
    /\ Up
    /\ changes < MaxChanges
    /\ changes' = changes + 1
    /\ i # current[s]
    /\ i # None => SlotOf[i] = s
    /\ i \in retired => MayReturn
    /\ current' = [current EXCEPT ![s] = i]
    /\ retired' = retired \cup ({current[s]} \ {None})
    /\ mon' = [mon EXCEPT !.notice = TRUE]
    /\ UNCHANGED <<tip, faults, reached, held, conflict, chan, requests, queues, driver>>

\* The tip poll reports a move.
Publish ==
    /\ Up
    /\ chan.tip # tip
    /\ chan' = [tip |-> tip, fresh |-> TRUE]
    /\ UNCHANGED <<tip, faults, record, mon, requests, queues, driver>>

\* A conflicting fact quarantines the history of an instance.
Conflict(i) ==
    /\ Fault
    /\ i \notin conflict
    /\ conflict' = conflict \cup {i}
    /\ UNCHANGED <<tip, current, retired, changes, reached, held, chan, mon, requests, queues,
                   driver>>
-----------------------------------------------------------------------------
(* The process.                                                            *)

\* Each instance of the startup snapshot has a stream, and its history is
\* requested up to the snapshot's tip.
Start ==
    LET is == {current[s] : s \in Slot} \ {None} IN
    /\ ~Up
    /\ chan' = [tip |-> tip, fresh |-> FALSE]
    /\ mon' = [notice |-> FALSE, workers |-> current, adds |-> {}]
    /\ \E q \in InOrder(is) : requests' = [n \in DOMAIN q |-> Request(q[n], tip)]
    /\ driver' = Idle
    /\ UNCHANGED <<tip, faults, record, queues>>

\* The supervisor drops every worker; the record stays.
Gone ==
    /\ chan' = [tip |-> 0, fresh |-> FALSE]
    /\ mon' = [notice |-> FALSE, workers |-> Nothing, adds |-> {}]
    /\ requests' = <<>>
    /\ activations' = Nothing
    /\ pending' = Nothing
    /\ retries' = [i \in Instance |-> None]
    /\ deferred' = {}
    /\ driver' = At("down", NoRequest)
    /\ UNCHANGED <<tip, record>>

Stop ==
    /\ Up
    /\ Fault
    /\ Gone

\* The monitor reads the current instances and drops the workers of others.
MonitorReads ==
    /\ Up
    /\ mon.notice
    /\ mon' = [notice |-> FALSE,
               workers |-> [s \in Slot |-> IF mon.workers[s] = current[s]
                                               THEN current[s] ELSE None],
               adds |-> {current[s] : s \in {t \in Slot : mon.workers[t] # current[t]}} \ {None}]
    /\ UNCHANGED <<tip, faults, record, chan, requests, queues, driver>>

\* It opens the stream of a new instance, at once or after a retry, and asks
\* for its history up to the tip it reads then.
MonitorAdds(i) ==
    /\ Up
    /\ i \in mon.adds
    /\ mon' = [mon EXCEPT !.adds = @ \ {i}, !.workers[SlotOf[i]] = i]
    /\ requests' = Append(requests, Request(i, tip))
    /\ UNCHANGED <<tip, faults, record, chan, queues, driver>>
-----------------------------------------------------------------------------
(* Where the driver takes its next request from: what a tip change queued    *)
(* comes first, and then the monitor's requests before retries and tips.    *)

Queued == {s \in Slot : pending[s] # None}

TakePending ==
    LET s == CHOOSE n \in Queued : \A m \in Queued : n <= m IN
    /\ driver.pc = "idle"
    /\ Queued # {}
    /\ driver' = At("check", pending[s])
    /\ pending' = [pending EXCEPT ![s] = None]
    /\ UNCHANGED <<tip, faults, record, chan, mon, requests, activations, retries, deferred>>

Waiting ==
    /\ driver.pc = "idle"
    /\ Queued = {}
    /\ UNCHANGED <<tip, faults, record, mon>>

TakeRequest ==
    /\ Waiting
    /\ requests # <<>>
    /\ driver' = At("check", Head(requests))
    /\ requests' = Tail(requests)
    /\ UNCHANGED <<chan, queues>>

\* Mutant: the instance stays marked as deferred.
TakeRetryUnmarked(i) ==
    /\ Waiting
    /\ requests = <<>>
    /\ retries[i] # None
    /\ driver' = At("check", Request(i, retries[i]))
    /\ retries' = [retries EXCEPT ![i] = None]
    /\ UNCHANGED <<chan, requests, activations, pending, deferred>>

TakeRetry(i) ==
    /\ Waiting
    /\ requests = <<>>
    /\ retries[i] # None
    /\ driver' = At("check", Request(i, retries[i]))
    /\ retries' = [retries EXCEPT ![i] = None]
    /\ deferred' = deferred \ {i}
    /\ UNCHANGED <<chan, requests, activations, pending>>

\* queue_tip_reconciliations: work for every activation.
TakeTip ==
    /\ Waiting
    /\ requests = <<>>
    /\ chan.fresh
    /\ chan' = [chan EXCEPT !.fresh = FALSE]
    /\ pending' = [s \in Slot |-> IF activations[s] = None THEN pending[s]
                                  ELSE Request(activations[s], chan.tip)]
    /\ UNCHANGED <<requests, activations, retries, deferred, driver>>
-----------------------------------------------------------------------------
(* What it does with a request.                                            *)

MySlot == SlotOf[driver.instance]

IsCurrent == current[MySlot] = driver.instance

Driving(pc) ==
    /\ driver.pc = pc
    /\ UNCHANGED <<tip, current, retired, changes, conflict, chan, mon, requests>>

\* Mutant: the activation is not remembered.
AcceptOnce ==
    /\ Driving("check")
    /\ IsCurrent
    /\ driver' = [driver EXCEPT !.pc = "pass"]
    /\ UNCHANGED <<faults, reached, held, queues>>

\* Queued work of the same instance is subsumed by this request.
Accept ==
    /\ Driving("check")
    /\ IsCurrent
    /\ activations' = [activations EXCEPT ![MySlot] = driver.instance]
    /\ pending' = [pending EXCEPT ![MySlot] =
                      IF @ # None /\ @.instance = driver.instance THEN None ELSE @]
    /\ driver' = [driver EXCEPT !.pc = "pass"]
    /\ UNCHANGED <<faults, reached, held, retries, deferred>>

Discard ==
    /\ Driving("check")
    /\ ~IsCurrent
    /\ activations' = [activations EXCEPT ![MySlot] = IF @ = driver.instance THEN None ELSE @]
    /\ driver' = Idle
    /\ UNCHANGED <<faults, reached, held, pending, retries, deferred>>

\* The engine found that the instance is not current any more.
PassSuperseded ==
    /\ Driving("pass")
    /\ ~IsCurrent
    /\ activations' = [activations EXCEPT ![MySlot] = None]
    /\ driver' = Idle
    /\ UNCHANGED <<faults, reached, held, pending, retries, deferred>>

\* The history is quarantined.  The driver reports it for a worker that has no
\* status row, the report is refused (module Runs), and the process ends.
PassQuarantined ==
    /\ driver.pc = "pass"
    /\ driver.instance \in conflict
    /\ Gone
    /\ UNCHANGED faults

\* schedule_backfill_retry: an instance has one retry at a time.
Schedule(target) ==
    /\ retries' = IF driver.instance \in deferred THEN retries
                  ELSE [retries EXCEPT ![driver.instance] = target]
    /\ deferred' = deferred \cup {driver.instance}
    /\ driver' = Idle
    /\ UNCHANGED <<activations, pending>>

\* An unfinished target comes before the requested one.
PassTarget == IF held[driver.instance] = None THEN driver.target ELSE held[driver.instance]

PassDeferred ==
    /\ Driving("pass")
    /\ Fault
    /\ held' = [held EXCEPT ![driver.instance] = PassTarget]
    /\ Schedule(PassTarget)
    /\ UNCHANGED reached

\* UpToDate and Completed.  A target that left the chain is replaced.
PassReaches(target) ==
    /\ Driving("pass")
    /\ driver.instance \notin conflict
    /\ target \in {PassTarget, driver.target}
    /\ reached' = [reached EXCEPT ![driver.instance] = target]
    /\ held' = [held EXCEPT ![driver.instance] = None]
    /\ driver' = [driver EXCEPT !.pc = "recheck", !.target = target]
    /\ UNCHANGED <<faults, queues>>

Recheck ==
    /\ Driving("recheck")
    /\ IF IsCurrent
           THEN /\ driver' = [driver EXCEPT !.pc = "tip"]
                /\ UNCHANGED activations
           ELSE /\ driver' = Idle
                /\ activations' = [activations EXCEPT ![MySlot] = None]
    /\ UNCHANGED <<faults, reached, held, pending, retries, deferred>>

\* Mutant: a reached target is never followed up.
ReadTipOnce ==
    /\ Driving("tip")
    /\ driver' = Idle
    /\ UNCHANGED <<faults, reached, held, queues>>

\* The pass is followed by another one until it reached the tip.
ReadTip ==
    /\ Driving("tip")
    /\ driver' = IF tip = driver.target THEN Idle
                 ELSE [driver EXCEPT !.pc = "pass", !.target = tip]
    /\ UNCHANGED <<faults, reached, held, queues>>

ReadTipFails ==
    /\ Driving("tip")
    /\ Fault
    /\ Schedule(driver.target)
    /\ UNCHANGED <<reached, held>>
-----------------------------------------------------------------------------
Take == TakePending \/ TakeRequest \/ (\E i \in Instance : TakeRetry(i)) \/ TakeTip

Work ==
    \/ Accept \/ Discard
    \/ PassSuperseded \/ PassQuarantined \/ (\E t \in Tip : PassReaches(t))
    \/ Recheck \/ ReadTip

Next ==
    \/ Move
    \/ \E s \in Slot, i \in Instance \cup {None} : Change(s, i)
    \/ Publish
    \/ \E i \in Instance : Conflict(i)
    \/ Start
    \/ Stop
    \/ MonitorReads
    \/ \E i \in Instance : MonitorAdds(i)
    \/ Take
    \/ Work
    \/ PassDeferred
    \/ ReadTipFails

Spec == Init /\ [][Next]_vars

\* The tasks are scheduled, delays end, and the poll reports the tip.
Fairness ==
    /\ WF_vars(Start)
    /\ WF_vars(Publish)
    /\ WF_vars(MonitorReads)
    /\ \A i \in Instance : WF_vars(MonitorAdds(i))
    /\ WF_vars(Take)
    /\ WF_vars(Work)

LiveSpec == Spec /\ Fairness
-----------------------------------------------------------------------------
(* Properties.                                                             *)

MonitorState ==
    [notice : BOOLEAN, workers : [Slot -> Instance \cup {None}], adds : SUBSET Instance]

Busy == {"check", "pass", "recheck", "tip"}

DriverState ==
    [pc : {"down", "idle"} \cup Busy, instance : Instance \cup {None}, target : Tip]

TypeOK ==
    /\ tip \in Tip
    /\ current \in [Slot -> Instance \cup {None}]
    /\ \A s \in Slot : current[s] # None => SlotOf[current[s]] = s
    /\ retired \subseteq Instance
    /\ changes \in 0..MaxChanges
    /\ faults \in 0..MaxFaults
    /\ reached \in [Instance -> Tip \cup {None}]
    /\ held \in [Instance -> Tip \cup {None}]
    /\ conflict \subseteq Instance
    /\ chan \in [tip : Tip, fresh : BOOLEAN]
    /\ mon \in MonitorState
    /\ requests \in Seq(Wanted)
    /\ activations \in [Slot -> Instance \cup {None}]
    /\ pending \in [Slot -> Wanted \cup {None}]
    /\ retries \in [Instance -> Tip \cup {None}]
    /\ deferred \subseteq Instance
    /\ driver \in DriverState
    /\ driver.pc \in Busy => driver.instance # None

\* Something will still make the driver look at the history of i.
Carried(i) ==
    \/ mon.notice
    \/ i \in mon.adds
    \/ \E n \in 1..Len(requests) : requests[n].instance = i
    \/ \E s \in Slot : pending[s] # None /\ pending[s].instance = i
    \/ retries[i] # None
    \/ driver.instance = i
    \/ activations[SlotOf[i]] = i /\ (chan.fresh \/ chan.tip # tip)

\* History work is never lost: while a current instance is behind the tip, a
\* queue, a delay, the monitor or a tip change still carries it, whatever was
\* discarded, superseded, deferred or subsumed in between.
WorkIsCarried ==
    Up => \A s \in Slot :
        LET i == current[s] IN
        i # None /\ i \notin conflict /\ reached[i] # tip => Carried(i)

\* The set that keeps an instance from being deferred twice names exactly the
\* instances whose delay is running; otherwise a deferral would be dropped.
DeferredIsScheduled == deferred = {i \in Instance : retries[i] # None}

AtTip(s) == current[s] # None /\ current[s] \notin conflict => reached[current[s]] = tip

\* While no history is quarantined, all of them settle at the tip.
HistoryReachesTip == <>[](Up /\ conflict = {} => \A s \in Slot : AtTip(s))

\* A quarantined history does not keep the others from the tip.
OthersReachTip == <>[](\A s \in Slot : AtTip(s))
=============================================================================

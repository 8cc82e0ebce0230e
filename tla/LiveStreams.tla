----------------------------- MODULE LiveStreams -----------------------------
(***************************************************************************)
(* The live side of one enforcer process: the tip channel with its two      *)
(* writers (the tip poll, and the reconciliation after an event of the      *)
(* global stream), the global stream with its subscription boundaries, and  *)
(* the stall watchdog of one slot stream.                                  *)
(*                                                                         *)
(* The enforcer makes transitions 1, 2, ... and replays none of them.  A    *)
(* tip is known here by the number of transitions before the enforcer's     *)
(* answer; the code sees its block only, so two tips are the same to it     *)
(* when TipAt agrees (a disconnect brings an earlier block back).           *)
(***************************************************************************)
EXTENDS Naturals

CONSTANTS
    MaxMoves,    \* bound on the enforcer's transitions
    TipAt,       \* the block at the tip after a number of transitions
    MayStop,     \* the process may end otherwise than by a stall
    MaxFaults    \* bound on lost streams, failed calls and ended processes

Position == 0..MaxMoves

ASSUME LiveAssumption ==
    /\ {MaxMoves, MaxFaults} \subseteq Nat
    /\ MayStop \in BOOLEAN
    /\ TipAt \in [Position -> Nat]
    /\ \A p \in 1..MaxMoves : TipAt[p] # TipAt[p - 1]

VARIABLES
    pos,        \* transitions the enforcer has made
    faults,
    recorded,   \* transitions recorded by the global stream
    bounds,     \* recorded subscription boundaries
    lastTip,    \* the tip of the status row, left by the last observation
    chan,       \* the value of the tip channel
    poll,       \* monitor_tip
    glob,       \* mainchain::monitor
    slot,       \* forward_stream of one slot
    dark        \* transitions made while this run knew of no subscription

vars == <<pos, faults, recorded, bounds, lastTip, chan, poll, glob, slot, dark>>
record == <<recorded, bounds, lastTip>>

Same(p, q) == TipAt[p] = TipAt[q]

\* A field is zero where the code has no such variable, or sets it before the
\* next use.
Poll == [pc : {"rest", "compare", "record", "publish"}, tip : Position]

\* got: the last transition this subscription has delivered or began after.
\* gap: the start of the gap that the next boundary ends.
Glob ==
    [pc : {"down", "start", "boundary", "bound", "listen", "ask", "compare", "record", "publish",
           "broken"},
     got : Position, gap : Position, tip : Position]

\* fresh: the channel has a value this receiver has not seen.
\* active: live_events # checked_live_events.  armed: a deadline is set.
\* silent: the stream will deliver nothing more, without closing.
\* changes: tip changes seen since it is silent, counted to two.
Slot ==
    [got : Position, fresh : BOOLEAN, active : BOOLEAN, armed : BOOLEAN,
     silent : BOOLEAN, changes : 0..2, stalled : BOOLEAN]

AtRest == [pc |-> "rest", tip |-> 0]

Attentive == [glob EXCEPT !.pc = "listen", !.tip = 0]

NewStream(p) ==
    [got |-> p, fresh |-> FALSE, active |-> FALSE, armed |-> FALSE,
     silent |-> FALSE, changes |-> 0, stalled |-> FALSE]

Up == glob.pc # "down"

\* The startup is over and the workers run.
Running == glob.pc \notin {"down", "start"}

\* Outage: no subscription is open, or none that its boundary's tip was read for.
Outage == glob.pc \in {"down", "start", "broken", "boundary"}

Init ==
    /\ pos = 0
    /\ faults = 0
    /\ recorded = {}
    /\ bounds = {}
    /\ lastTip = 0
    /\ chan = 0
    /\ poll = AtRest
    /\ glob = [pc |-> "down", got |-> 0, gap |-> 0, tip |-> 0]
    /\ slot = NewStream(0)
    /\ dark = {}

Fault ==
    /\ faults < MaxFaults
    /\ faults' = faults + 1

\* The enforcer connects or disconnects a block.
Move ==
    /\ pos < MaxMoves
    /\ pos' = pos + 1
    /\ dark' = IF Outage THEN dark \cup {pos + 1} ELSE dark
    /\ UNCHANGED <<faults, record, chan, poll, glob, slot>>

\* send and send_replace: every receiver sees a change, whatever the value.
Send(p) ==
    /\ chan' = p
    /\ slot' = [slot EXCEPT !.fresh = TRUE]
-----------------------------------------------------------------------------
(* Start and end of a process.                                             *)

\* Both streams are subscribed before the snapshot is read.
Subscribe ==
    /\ ~Up
    /\ glob' = [pc |-> "start", got |-> pos, gap |-> 0, tip |-> 0]
    /\ slot' = NewStream(pos)
    /\ UNCHANGED <<pos, faults, record, chan, poll, dark>>

\* The run takes over the tip that its predecessor left, and then observes the
\* tip of its snapshot, which is the first value of the channel.
Startup ==
    /\ glob.pc = "start"
    /\ glob' = [glob EXCEPT !.pc = "boundary", !.gap = lastTip]
    /\ lastTip' = pos
    /\ chan' = pos
    /\ poll' = AtRest
    /\ UNCHANGED <<pos, faults, recorded, bounds, slot, dark>>

\* The supervisor drops every worker.  An outage that the run had not bounded
\* is lost with its gap_start.
Gone ==
    /\ glob' = [pc |-> "down", got |-> 0, gap |-> 0, tip |-> 0]
    /\ poll' = AtRest
    /\ chan' = 0
    /\ dark' = {}
    /\ UNCHANGED <<pos, record>>

\* A shutdown, a crash, a failed write, or a slot stream that ends.
Stop ==
    /\ Up /\ MayStop
    /\ Fault
    /\ Gone
    /\ slot' = NewStream(0)
-----------------------------------------------------------------------------
(* announce_tip_changes.                                                   *)

Polling(pc, next) ==
    /\ Running
    /\ poll.pc = pc
    /\ poll' = next

PollRead ==
    /\ Polling("rest", [pc |-> "compare", tip |-> pos])
    /\ UNCHANGED <<pos, faults, record, chan, glob, slot, dark>>

\* Mutant: the answer is compared with the tip recorded last.
PollCompareRecorded ==
    /\ Polling("compare", IF Same(lastTip, poll.tip) THEN AtRest ELSE [poll EXCEPT !.pc = "record"])
    /\ UNCHANGED <<pos, faults, record, chan, glob, slot, dark>>

\* The answer is compared with what the channel holds by then.
PollCompare ==
    /\ Polling("compare", IF Same(chan, poll.tip) THEN AtRest ELSE [poll EXCEPT !.pc = "record"])
    /\ UNCHANGED <<pos, faults, record, chan, glob, slot, dark>>

PollRecord ==
    /\ Polling("record", [poll EXCEPT !.pc = "publish"])
    /\ lastTip' = poll.tip
    /\ UNCHANGED <<pos, faults, recorded, bounds, chan, glob, slot, dark>>

\* Sent because it was a move when it was compared.
PollPublish ==
    /\ Polling("publish", AtRest)
    /\ Send(poll.tip)
    /\ UNCHANGED <<pos, faults, record, glob, dark>>
-----------------------------------------------------------------------------
(* mainchain::monitor.                                                     *)

Listening(pc, next) ==
    /\ glob.pc = pc
    /\ glob' = next

\* subscription_boundary: the tip read now ends the gap.
ReadBoundary ==
    /\ Listening("boundary", [glob EXCEPT !.pc = "bound", !.tip = pos])
    /\ UNCHANGED <<pos, faults, record, chan, poll, slot, dark>>

RecordBoundary ==
    /\ Listening("bound", [Attentive EXCEPT !.gap = 0])
    /\ bounds' = bounds \cup {[start |-> glob.gap, end |-> glob.tip]}
    /\ UNCHANGED <<pos, faults, recorded, lastTip, chan, poll, slot, dark>>

\* Mutant: a failed boundary restarts the gap at the channel's tip.
BoundaryFailsAtTip ==
    /\ Fault
    /\ Listening("boundary", [glob EXCEPT !.pc = "broken", !.gap = chan])
    /\ UNCHANGED <<pos, record, chan, poll, slot, dark>>

\* Nothing was bounded: the gap keeps its start.
BoundaryFails ==
    /\ Fault
    /\ Listening("boundary", [glob EXCEPT !.pc = "broken"])
    /\ UNCHANGED <<pos, record, chan, poll, slot, dark>>

\* The next transition of this subscription is recorded.
GlobalEvent ==
    /\ glob.got < pos
    /\ Listening("listen", [glob EXCEPT !.pc = "ask", !.got = @ + 1])
    /\ recorded' = recorded \cup {glob.got + 1}
    /\ UNCHANGED <<pos, faults, bounds, lastTip, chan, poll, slot, dark>>

\* reconcile_tip: the enforcer's tip, not the event's block.
AskTip ==
    /\ Listening("ask", [glob EXCEPT !.pc = "compare", !.tip = pos])
    /\ UNCHANGED <<pos, faults, record, chan, poll, slot, dark>>

AskFails ==
    /\ Fault
    /\ Listening("ask", [glob EXCEPT !.pc = "listen"])
    /\ UNCHANGED <<pos, record, chan, poll, slot, dark>>

CompareTip ==
    /\ Listening("compare", IF Same(chan, glob.tip) THEN Attentive
                          ELSE [glob EXCEPT !.pc = "record"])
    /\ UNCHANGED <<pos, faults, record, chan, poll, slot, dark>>

RecordTip ==
    /\ Listening("record", [glob EXCEPT !.pc = "publish"])
    /\ lastTip' = glob.tip
    /\ UNCHANGED <<pos, faults, recorded, bounds, chan, poll, slot, dark>>

PublishTip ==
    /\ Listening("publish", Attentive)
    /\ Send(glob.tip)
    /\ UNCHANGED <<pos, faults, record, poll, dark>>

\* The stream ends or fails: what it had not delivered is lost.  The gap
\* starts at the tip the channel holds now.
StreamBreaks ==
    /\ Fault
    /\ Listening("listen", [glob EXCEPT !.pc = "broken", !.gap = chan])
    /\ UNCHANGED <<pos, record, chan, poll, slot, dark>>

Resubscribe ==
    /\ Listening("broken", [glob EXCEPT !.pc = "boundary", !.got = pos])
    /\ UNCHANGED <<pos, faults, record, chan, poll, slot, dark>>
-----------------------------------------------------------------------------
(* forward_stream.  Its select is biased: a tip change comes first, then    *)
(* the deadline, then the stream.                                          *)

Forwarding ==
    /\ Running
    /\ UNCHANGED <<pos, faults, record, chan, poll, glob, dark>>

\* Mutant: the events counted are not marked as checked.
SlotTipUnchecked ==
    /\ Forwarding
    /\ slot.fresh
    /\ slot' = [slot EXCEPT !.fresh = FALSE, !.armed = ~slot.active,
                            !.changes = IF slot.silent /\ @ < 2 THEN @ + 1 ELSE @]

SlotTip ==
    /\ Forwarding
    /\ slot.fresh
    /\ slot' = [slot EXCEPT !.fresh = FALSE, !.active = FALSE, !.armed = ~slot.active,
                            !.changes = IF slot.silent /\ @ < 2 THEN @ + 1 ELSE @]

SlotEvent ==
    /\ Forwarding
    /\ ~slot.fresh /\ ~slot.silent
    /\ slot.got < pos
    /\ slot' = [slot EXCEPT !.got = @ + 1, !.active = TRUE, !.armed = FALSE]

\* The deadline passes and the process ends with it.  The timeout is taken to
\* be longer than the delay of an event: it passes only on a stream that has
\* nothing left to deliver.
Stall ==
    /\ Running /\ slot.armed /\ ~slot.fresh
    /\ slot.silent \/ slot.got = pos
    /\ Gone
    /\ slot' = [slot EXCEPT !.stalled = TRUE]
    /\ UNCHANGED faults

\* The enforcer stops delivering without closing the stream.
Silence ==
    /\ Running /\ ~slot.silent
    /\ Fault
    /\ slot' = [slot EXCEPT !.silent = TRUE]
    /\ UNCHANGED <<pos, record, chan, poll, glob, dark>>
-----------------------------------------------------------------------------
PollStep == PollRead \/ PollCompare \/ PollRecord \/ PollPublish

GlobalStep ==
    \/ ReadBoundary \/ RecordBoundary \/ BoundaryFails \/ GlobalEvent
    \/ AskTip \/ AskFails \/ CompareTip \/ RecordTip \/ PublishTip
    \/ StreamBreaks \/ Resubscribe

SlotStep == SlotTip \/ SlotEvent \/ Stall

Next ==
    \/ Move \/ Subscribe \/ Startup \/ Stop
    \/ PollStep \/ GlobalStep \/ SlotStep \/ Silence

Spec == Init /\ [][Next]_vars

\* The workers are scheduled, and their calls are answered again and again.
Fairness ==
    /\ WF_vars(PollStep)
    /\ WF_vars(AskTip \/ CompareTip \/ RecordTip \/ PublishTip)
    /\ WF_vars(SlotTip)
    /\ WF_vars(Stall)

LiveSpec == Spec /\ Fairness
-----------------------------------------------------------------------------
(* Properties.                                                             *)

TypeOK ==
    /\ pos \in Position
    /\ faults \in 0..MaxFaults
    /\ recorded \subseteq 1..MaxMoves
    /\ bounds \subseteq [start : Position, end : Position]
    /\ lastTip \in Position
    /\ chan \in Position
    /\ poll \in Poll
    /\ glob \in Glob
    /\ slot \in Slot
    /\ dark \subseteq 1..pos

InGap(t) == \E b \in bounds : b.start < t /\ t <= b.end

\* Once a subscription has its boundary, every transition made in the outage
\* before it is recorded or inside a recorded gap: the boundary's tip is read
\* after the subscription is open, and failed attempts keep the gap's start.
OutageIsBounded ==
    Up /\ glob.pc # "bound" /\ ~Outage => \A t \in dark : t \in recorded \/ InGap(t)

\* Every transition that no subscription delivered is inside a recorded gap.  It
\* does not hold: StreamBreaks takes the channel's value as the start of the gap,
\* which the tip poll may have moved past what the stream still had to deliver.
MissedIsBounded ==
    glob.pc = "listen" => \A t \in 1..glob.got : t \in recorded \/ InGap(t)

\* The watchdog ends the process only if the stream stopped delivering.
QuietTipIsNoStall == slot.stalled => slot.silent

\* The channel settles on the enforcer's tip: an older answer that overwrites
\* a newer one is repaired by the next poll.
TipSettles == <>[](Running => Same(chan, pos))

\* The status row settles on the enforcer's tip.
RecordSettles == <>[](Running => Same(lastTip, pos))

\* A stream that fell silent is failed after it missed two tip changes.
SilentStreamFails == (Running /\ slot.silent /\ slot.changes = 2) ~> ~Up
=============================================================================

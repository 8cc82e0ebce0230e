------------------------- MODULE LiveStreamsProofs -------------------------
(***************************************************************************)
(* Proofs about LiveStreams, for any chain and any number of faults.        *)
(***************************************************************************)
EXTENDS LiveStreams, TLAPS

\* Every tip that was read, published or recorded was the enforcer's once.
NothingAhead ==
    /\ lastTip <= pos /\ chan <= pos /\ poll.tip <= pos
    /\ glob.tip <= pos /\ glob.gap <= pos

Closed(t) == t \in recorded \/ InGap(t)

\* Where the gap that is still to be recorded begins and ends.
OpenGap ==
    /\ glob.pc \in {"down", "start"} => \A t \in dark : lastTip < t
    /\ glob.pc \in {"boundary", "broken"} => \A t \in dark : Closed(t) \/ glob.gap < t
    /\ glob.pc = "bound" => \A t \in dark : Closed(t) \/ (glob.gap < t /\ t <= glob.tip)
    /\ ~Outage /\ glob.pc # "bound" => \A t \in dark : Closed(t)

GapInv == TypeOK /\ NothingAhead /\ OpenGap

LEMMA Bounds == /\ MaxMoves \in Nat /\ MaxFaults \in Nat
                /\ Position \subseteq Nat /\ 0 \in Position
BY LiveAssumption DEF LiveAssumption, Position

LEMMA GapInit == Init => GapInv
<1> SUFFICES ASSUME Init PROVE GapInv
  OBVIOUS
<1>1. TypeOK
  BY Bounds DEF Init, TypeOK, Poll, Glob, Slot, AtRest, NewStream, Position
<1>2. NothingAhead
  BY DEF Init, NothingAhead, AtRest
<1>3. OpenGap
  BY DEF Init, OpenGap, Outage
<1>4. QED
  BY <1>1, <1>2, <1>3 DEF GapInv

LEMMA FaultType == TypeOK /\ Fault => faults' \in 0..MaxFaults
BY Bounds DEF TypeOK, Fault

LEMMA SlotUpdate ==
  ASSUME NEW s \in Slot, NEW f \in BOOLEAN, NEW a \in BOOLEAN, NEW r \in BOOLEAN, NEW n \in 0..2
  PROVE  [s EXCEPT !.fresh = f, !.active = a, !.armed = r, !.changes = n] \in Slot
BY DEF Slot

LEMMA SlotFields ==
  ASSUME NEW s \in Slot
  PROVE  /\ s.got \in Position /\ s.changes \in 0..2
         /\ s.fresh \in BOOLEAN /\ s.active \in BOOLEAN /\ s.armed \in BOOLEAN
         /\ s.silent \in BOOLEAN
BY DEF Slot

LEMMA GlobFields ==
  ASSUME NEW g \in Glob
  PROVE  g.got \in Position /\ g.gap \in Position /\ g.tip \in Position
BY DEF Glob

LEMMA TypeStep == TypeOK /\ [Next]_vars => TypeOK'
<1> SUFFICES ASSUME TypeOK, [Next]_vars PROVE TypeOK'
  OBVIOUS
<1> USE Bounds DEF TypeOK, record
<1>1. CASE Move
  BY <1>1 DEF Move, Position
<1>2. CASE Subscribe
  <2>1. glob' \in Glob
    BY <1>2 DEF Subscribe, Glob
  <2>2. slot' \in Slot
    BY <1>2 DEF Subscribe, Slot, NewStream
  <2>3. QED
    BY <1>2, <2>1, <2>2 DEF Subscribe
<1>3. CASE Startup
  <2>1. glob' \in Glob
    BY <1>3 DEF Startup, Glob
  <2>2. poll' \in Poll
    BY <1>3 DEF Startup, Poll, AtRest
  <2>3. QED
    BY <1>3, <2>1, <2>2 DEF Startup
<1>4. ASSUME Gone PROVE glob' \in Glob /\ poll' \in Poll /\ chan' \in Position /\ dark' = {}
  BY <1>4 DEF Gone, Glob, Poll, AtRest
<1>5. CASE Stop
  <2>1. slot' \in Slot
    BY <1>5 DEF Stop, Slot, NewStream
  <2>2. faults' \in 0..MaxFaults
    BY <1>5, FaultType DEF Stop
  <2>3. QED
    BY <1>4, <1>5, <2>1, <2>2 DEF Stop, Gone
<1>6. CASE Stall
  <2>1. slot' \in Slot
    BY <1>6 DEF Stall, Slot
  <2>2. QED
    BY <1>4, <1>6, <2>1 DEF Stall, Gone
<1>7. CASE PollStep
  <2>1. poll' \in Poll
    BY <1>7 DEF PollStep, PollRead, PollCompare, PollRecord, PollPublish, Polling, Poll, AtRest
  <2>2. poll.tip \in Position
    BY DEF Poll
  <2>3. CASE PollPublish
    <3>1. slot' \in Slot
      BY <2>3 DEF PollPublish, Send, Slot
    <3>2. QED
      BY <2>1, <2>2, <2>3, <3>1 DEF PollPublish, Send
  <2>4. QED
    BY <1>7, <2>1, <2>2, <2>3 DEF PollStep, PollRead, PollCompare, PollRecord
<1>8. CASE GlobalStep
  <2>1. glob.got \in Position /\ glob.gap \in Position /\ glob.tip \in Position
    BY GlobFields
  <2>2. CASE ReadBoundary \/ RecordBoundary
    <3>1. glob' \in Glob
      BY <2>2 DEF ReadBoundary, RecordBoundary, Listening, Attentive, Glob
    <3>2. QED
      BY <2>1, <2>2, <3>1 DEF ReadBoundary, RecordBoundary
  <2>3. CASE BoundaryFails \/ StreamBreaks \/ AskFails
    <3>1. glob' \in Glob
      BY <2>3 DEF BoundaryFails, StreamBreaks, AskFails, Listening, Glob
    <3>2. faults' \in 0..MaxFaults
      BY <2>3, FaultType DEF BoundaryFails, StreamBreaks, AskFails
    <3>3. QED
      BY <2>3, <3>1, <3>2 DEF BoundaryFails, StreamBreaks, AskFails
  <2>4. CASE GlobalEvent
    <3>1. glob.got + 1 \in 1..MaxMoves /\ glob.got + 1 \in Position
      BY <2>1, <2>4 DEF GlobalEvent, Position
    <3>2. glob' \in Glob
      BY <2>4, <3>1 DEF GlobalEvent, Listening, Glob
    <3>3. QED
      BY <2>4, <3>1, <3>2 DEF GlobalEvent
  <2>5. CASE AskTip \/ CompareTip \/ RecordTip \/ Resubscribe
    <3>1. glob' \in Glob
      BY <2>5 DEF AskTip, CompareTip, RecordTip, Resubscribe, Listening, Attentive, Glob
    <3>2. QED
      BY <2>1, <2>5, <3>1 DEF AskTip, CompareTip, RecordTip, Resubscribe
  <2>6. CASE PublishTip
    <3>1. glob' \in Glob
      BY <2>6 DEF PublishTip, Listening, Attentive, Glob
    <3>2. slot' \in Slot
      BY <2>6 DEF PublishTip, Send, Slot
    <3>3. QED
      BY <2>1, <2>6, <3>1, <3>2 DEF PublishTip, Send
  <2>7. QED
    BY <1>8, <2>2, <2>3, <2>4, <2>5, <2>6 DEF GlobalStep
<1>9. CASE SlotTip
  <2>1. (~slot.active) \in BOOLEAN
    BY SlotFields
  <2>2. (IF slot.silent /\ slot.changes < 2 THEN slot.changes + 1 ELSE slot.changes) \in 0..2
    BY SlotFields
  <2>3. slot' \in Slot
    BY <1>9, <2>1, <2>2, SlotUpdate DEF SlotTip
  <2>4. QED
    BY <1>9, <2>3 DEF SlotTip, Forwarding
<1>10. CASE SlotEvent
  <2>1. slot.got + 1 \in Position
    BY <1>10, SlotFields DEF SlotEvent, Position
  <2>2. slot' \in Slot
    BY <1>10, <2>1 DEF SlotEvent, Slot
  <2>3. QED
    BY <1>10, <2>2 DEF SlotEvent, Forwarding
<1>11. CASE Silence
  <2>1. slot' \in Slot
    BY <1>11 DEF Silence, Slot
  <2>2. QED
    BY <1>11, <2>1, FaultType DEF Silence
<1>12. CASE UNCHANGED vars
  BY <1>12 DEF vars
<1>13. QED
  BY <1>1, <1>2, <1>3, <1>5, <1>6, <1>7, <1>8, <1>9, <1>10, <1>11, <1>12 DEF Next, SlotStep

LEMMA AheadStep == TypeOK /\ NothingAhead /\ [Next]_vars => NothingAhead'
<1> SUFFICES ASSUME TypeOK, NothingAhead, [Next]_vars PROVE NothingAhead'
  OBVIOUS
<1>1. /\ pos \in Nat /\ lastTip \in Nat /\ chan \in Nat /\ poll.tip \in Nat
      /\ glob.tip \in Nat /\ glob.gap \in Nat
      /\ glob \in Glob /\ poll \in Poll
  BY Bounds DEF TypeOK, Poll, Glob
<1> USE <1>1 DEF NothingAhead, record
<1>2. CASE Move \/ Silence \/ SlotTip \/ SlotEvent
  BY <1>2 DEF Move, Silence, SlotTip, SlotEvent, Forwarding
<1>3. CASE Subscribe
  BY <1>3 DEF Subscribe
<1>4. CASE Startup
  BY <1>4 DEF Startup, AtRest, Glob
<1>5. CASE Stop \/ Stall
  BY <1>5 DEF Stop, Stall, Gone, AtRest
<1>6. CASE PollStep
  <2>1. poll'.tip <= pos /\ UNCHANGED <<pos, glob>>
    BY <1>6 DEF PollStep, PollRead, PollCompare, PollRecord, PollPublish, Polling, AtRest, Poll
  <2>2. lastTip' <= pos /\ chan' <= pos
    BY <1>6 DEF PollStep, PollRead, PollCompare, PollRecord, PollPublish, Send
  <2>3. QED
    BY <2>1, <2>2
<1>7. CASE GlobalStep
  <2>1. UNCHANGED <<pos, poll>> /\ lastTip' <= pos /\ chan' <= pos
    BY <1>7 DEF GlobalStep, ReadBoundary, RecordBoundary, BoundaryFails, GlobalEvent, AskTip,
                AskFails, CompareTip, RecordTip, PublishTip, StreamBreaks, Resubscribe, Send
  <2>2. glob'.tip <= pos /\ glob'.gap <= pos
    <3>1. CASE ReadBoundary \/ AskTip
      <4>1. glob'.tip = pos /\ glob'.gap = glob.gap
        BY <3>1 DEF ReadBoundary, AskTip, Listening, Glob
      <4>2. QED
        BY <4>1
    <3>2. CASE RecordBoundary \/ PublishTip
      <4>1. glob'.tip = 0 /\ glob'.gap \in {0, glob.gap}
        BY <3>2 DEF RecordBoundary, PublishTip, Listening, Attentive, Glob
      <4>2. QED
        BY <4>1
    <3>3. CASE BoundaryFails \/ AskFails \/ RecordTip
      BY <3>3 DEF BoundaryFails, AskFails, RecordTip, Listening, Glob
    <3>4. CASE GlobalEvent \/ Resubscribe
      BY <3>4 DEF GlobalEvent, Resubscribe, Listening, Glob
    <3>5. CASE CompareTip
      BY <3>5 DEF CompareTip, Listening, Attentive, Glob
    <3>6. CASE StreamBreaks
      BY <3>6 DEF StreamBreaks, Listening, Glob
    <3>7. QED
      BY <1>7, <3>1, <3>2, <3>3, <3>4, <3>5, <3>6 DEF GlobalStep
  <2>3. QED
    BY <2>1, <2>2
<1>8. CASE UNCHANGED vars
  BY <1>8 DEF vars
<1>9. QED
  BY <1>2, <1>3, <1>4, <1>5, <1>6, <1>7, <1>8 DEF Next, SlotStep

\* What is recorded stays recorded.
LEMMA ClosedStays ==
  ASSUME recorded \subseteq recorded', bounds \subseteq bounds', NEW t, Closed(t)
  PROVE  Closed(t)'
BY DEF Closed, InGap

LEMMA GapStep == GapInv /\ [Next]_vars => OpenGap'
<1> SUFFICES ASSUME GapInv, [Next]_vars PROVE OpenGap'
  OBVIOUS
<1>1. /\ {pos, lastTip, chan, glob.tip, glob.gap, glob.got} \subseteq Nat
      /\ glob \in Glob /\ dark \subseteq 1..pos
      /\ lastTip <= pos /\ glob.gap <= pos /\ chan <= pos
  BY Bounds DEF GapInv, TypeOK, NothingAhead, Glob
<1>2. OpenGap
  BY DEF GapInv
<1>3. \A t \in 1..pos : Closed(t) => Closed(t)'
  <2>1. recorded \subseteq recorded' /\ bounds \subseteq bounds'
    BY DEF Next, vars, Move, Subscribe, Startup, Stop, Stall, Silence, SlotTip, SlotEvent, Forwarding,
           SlotStep, PollStep, PollRead, PollCompare, PollRecord, PollPublish, GlobalStep,
           ReadBoundary, RecordBoundary, BoundaryFails, GlobalEvent, AskTip, AskFails, CompareTip,
           RecordTip, PublishTip, StreamBreaks, Resubscribe, Gone, record
  <2>2. QED
    BY <2>1, ClosedStays
<1>4. CASE Move
  <2>1. UNCHANGED <<lastTip, glob>> /\ dark' \subseteq dark \cup {pos + 1}
        /\ (~Outage => dark' = dark)
    BY <1>4 DEF Move, record
  <2>2. CASE Outage
    <3>1. lastTip < pos + 1 /\ glob.gap < pos + 1
      BY <1>1
    <3>2. QED
      BY <1>1, <1>2, <1>3, <2>1, <2>2, <3>1 DEF OpenGap, Outage
  <2>3. CASE ~Outage
    BY <1>1, <1>2, <1>3, <2>1, <2>3 DEF OpenGap, Outage
  <2>4. QED
    BY <2>2, <2>3
<1>5. CASE Subscribe
  BY <1>1, <1>2, <1>5 DEF Subscribe, OpenGap, Outage, Up, record
<1>6. CASE Startup
  <2>1. glob.pc = "start" /\ glob'.pc = "boundary" /\ glob'.gap = lastTip /\ dark' = dark
    BY <1>1, <1>6 DEF Startup, Glob
  <2>2. QED
    BY <1>2, <2>1 DEF OpenGap, Outage
<1>7. CASE Stop \/ Stall
  BY <1>7 DEF Stop, Stall, Gone, OpenGap
<1>8. CASE PollStep
  <2>1. glob.pc \notin {"down", "start"} /\ UNCHANGED <<dark, glob>>
    BY <1>8 DEF PollStep, PollRead, PollCompare, PollRecord, PollPublish, Polling, Running
  <2>2. QED
    BY <1>1, <1>2, <1>3, <2>1 DEF OpenGap, Outage
<1>9. CASE GlobalStep
  <2>1. dark' = dark
    BY <1>9 DEF GlobalStep, ReadBoundary, RecordBoundary, BoundaryFails, GlobalEvent, AskTip,
                AskFails, CompareTip, RecordTip, PublishTip, StreamBreaks, Resubscribe
  <2>2. CASE ReadBoundary
    <3>1. /\ glob.pc = "boundary" /\ glob'.pc = "bound"
          /\ glob'.gap = glob.gap /\ glob'.tip = pos
      BY <1>1, <2>2 DEF ReadBoundary, Listening, Glob
    <3>2. QED
      BY <1>1, <1>2, <1>3, <2>1, <3>1 DEF OpenGap, Outage
  <2>3. CASE RecordBoundary
    <3>1. /\ glob.pc = "bound" /\ glob'.pc = "listen"
          /\ bounds' = bounds \cup {[start |-> glob.gap, end |-> glob.tip]}
      BY <1>1, <2>3 DEF RecordBoundary, Listening, Attentive, Glob
    <3>2. ASSUME NEW t, glob.gap < t, t <= glob.tip PROVE Closed(t)'
      <4> DEFINE b == [start |-> glob.gap, end |-> glob.tip]
      <4>1. b \in bounds' /\ b.start < t /\ t <= b.end
        BY <3>1, <3>2
      <4>2. QED
        BY <4>1 DEF Closed, InGap
    <3>3. QED
      BY <1>1, <1>2, <1>3, <2>1, <3>1, <3>2 DEF OpenGap, Outage
  <2>4. CASE BoundaryFails \/ Resubscribe
    <3>1. /\ glob.pc \in {"boundary", "broken"} /\ glob'.pc \in {"boundary", "broken"}
          /\ glob'.gap = glob.gap
      BY <1>1, <2>4 DEF BoundaryFails, Resubscribe, Listening, Glob
    <3>2. QED
      BY <1>1, <1>2, <1>3, <2>1, <3>1 DEF OpenGap, Outage
  <2>5. CASE StreamBreaks
    <3>1. glob.pc = "listen" /\ glob'.pc = "broken"
      BY <1>1, <2>5 DEF StreamBreaks, Listening, Glob
    <3>2. QED
      BY <1>1, <1>2, <1>3, <2>1, <3>1 DEF OpenGap, Outage
  <2>6. CASE GlobalEvent \/ AskTip \/ AskFails \/ CompareTip \/ RecordTip \/ PublishTip
    <3>1. /\ glob.pc \in {"listen", "ask", "compare", "record", "publish"}
          /\ glob'.pc \in {"listen", "ask", "compare", "record", "publish"}
      BY <1>1, <2>6 DEF GlobalEvent, AskTip, AskFails, CompareTip, RecordTip, PublishTip, Listening,
                        Attentive, Glob
    <3>2. QED
      BY <1>1, <1>2, <1>3, <2>1, <3>1 DEF OpenGap, Outage
  <2>7. QED
    BY <1>9, <2>2, <2>3, <2>4, <2>5, <2>6 DEF GlobalStep
<1>10. CASE SlotTip \/ SlotEvent \/ Silence
  <2>1. UNCHANGED <<glob, dark, lastTip>>
    BY <1>10 DEF SlotTip, SlotEvent, Silence, Forwarding, record
  <2>2. QED
    BY <1>1, <1>2, <1>3, <2>1 DEF OpenGap, Outage
<1>11. CASE UNCHANGED vars
  BY <1>1, <1>2, <1>3, <1>11 DEF vars, OpenGap, Outage
<1>12. QED
  BY <1>4, <1>5, <1>6, <1>7, <1>8, <1>9, <1>10, <1>11 DEF Next, SlotStep

LEMMA GapInvariant == Spec => []GapInv
<1>1. GapInv /\ [Next]_vars => GapInv'
  BY TypeStep, AheadStep, GapStep DEF GapInv
<1>2. QED
  BY GapInit, <1>1, PTL DEF Spec

\* The variables keep their types, for every chain: in particular no tip, gap
\* or boundary lies beyond the transitions made.
THEOREM StreamTypes == Spec => []TypeOK
<1>1. GapInv => TypeOK
  BY DEF GapInv
<1>2. QED
  BY GapInvariant, <1>1, PTL

\* mainchain::monitor never listens again before the transitions of the outage
\* are recorded or inside a recorded gap.
THEOREM OutageCovered == Spec => []OutageIsBounded
<1>1. GapInv => OutageIsBounded
  BY DEF GapInv, OpenGap, OutageIsBounded, Closed
<1>2. QED
  BY GapInvariant, <1>1, PTL
=============================================================================

------------------------ MODULE BackfillQueueProofs ------------------------
(***************************************************************************)
(* Proofs about BackfillQueue, for any number of slots and instances.       *)
(***************************************************************************)
EXTENDS BackfillQueue, TLAPS, FiniteSetTheorems, SequenceTheorems,
        WellFoundedInduction

LEMMA Constants ==
    /\ MaxMoves \in Nat /\ MaxChanges \in Nat /\ MaxFaults \in Nat
    /\ Slot \subseteq Nat /\ IsFiniteSet(Slot)
    /\ SlotOf \in [Instance -> Slot]
    /\ None \notin Instance /\ None \notin Tip /\ None \notin Wanted
    /\ Tip \subseteq Nat /\ 0 \in Tip
BY QueueAssumption DEF QueueAssumption, Tip

LEMMA SmallestOf ==
  ASSUME NEW S, S \subseteq Nat, S # {}
  PROVE  \E n \in S : \A m \in S : n <= m
<1>1. PICK n \in S : \A m \in S : ~ (<<m, n>> \in OpToRel(<, Nat))
  BY WFMin, NatLessThanWellFounded
<1>2. \A m \in S : m < n => <<m, n>> \in OpToRel(<, Nat)
  BY DEF OpToRel
<1>3. \A m \in S : ~ (m < n)
  BY <1>1, <1>2
<1>4. QED
  BY <1>3

LEMMA RequestType ==
  ASSUME NEW i \in Instance, NEW t \in Tip
  PROVE  /\ Request(i, t) \in Wanted
         /\ Request(i, t).instance = i /\ Request(i, t).target = t
BY DEF Request, Wanted

LEMMA AtType ==
  ASSUME NEW w \in Wanted, NEW pc \in Busy
  PROVE  /\ At(pc, w) \in DriverState
         /\ At(pc, w).pc = pc /\ At(pc, w).instance = w.instance
         /\ w.instance \in Instance /\ w.target \in Tip
BY DEF At, Wanted, DriverState

LEMMA RestType ==
  /\ Idle \in DriverState /\ Idle.pc = "idle" /\ Idle.instance = None
  /\ At("down", NoRequest) \in DriverState /\ At("down", NoRequest).pc = "down"
  /\ At("down", NoRequest).instance = None
BY Constants DEF Idle, At, NoRequest, DriverState

LEMMA DriverFields ==
  ASSUME NEW d \in DriverState, d.pc \in Busy => d.instance # None
  PROVE  /\ d.target \in Tip /\ d.instance \in Instance \cup {None}
         /\ d.pc \in Busy => d.instance \in Instance /\ SlotOf[d.instance] \in Slot
BY Constants DEF DriverState

LEMMA DriverStays ==
  ASSUME NEW pc \in Busy, driver \in DriverState, driver' = [driver EXCEPT !.pc = pc]
  PROVE  /\ driver' \in DriverState
         /\ driver'.pc = pc /\ driver'.instance = driver.instance /\ driver'.target = driver.target
BY DEF DriverState

LEMMA DriverMoves ==
  ASSUME NEW pc \in Busy, NEW t \in Tip, driver \in DriverState,
         driver' = [driver EXCEPT !.pc = pc, !.target = t]
  PROVE  /\ driver' \in DriverState
         /\ driver'.pc = pc /\ driver'.instance = driver.instance /\ driver'.target = t
BY DEF DriverState
-----------------------------------------------------------------------------
(* Sets of instances in the order of their slots.                          *)

CurrentOnes == {current[s] : s \in Slot} \ {None}

LEMMA OrderType ==
  ASSUME current \in [Slot -> Instance \cup {None}], NEW q \in InOrder(CurrentOnes)
  PROVE  /\ Cardinality(CurrentOnes) \in Nat
         /\ DOMAIN q = 1..Cardinality(CurrentOnes)
         /\ \A n \in DOMAIN q : q[n] \in Instance
         /\ \A s \in Slot : current[s] # None => \E n \in DOMAIN q : q[n] = current[s]
<1>1. IsFiniteSet({current[s] : s \in Slot})
  <2> DEFINE T == {current[s] : s \in Slot}
  <2>1. current \in Surjection(Slot, T)
    BY DEF Surjection
  <2>2. QED
    BY <2>1, Constants, FS_Surjection
<1>2. IsFiniteSet(CurrentOnes)
  BY <1>1, FS_Subset DEF CurrentOnes
<1>3. Cardinality(CurrentOnes) \in Nat
  BY <1>2, FS_CardinalityType
<1>4. /\ q \in [1..Cardinality(CurrentOnes) -> CurrentOnes]
      /\ \A i \in CurrentOnes : \E n \in 1..Cardinality(CurrentOnes) : q[n] = i
  BY DEF InOrder, Bijection, Surjection, Injection
<1>5. CurrentOnes \subseteq Instance
  BY DEF CurrentOnes
<1>6. \A s \in Slot : current[s] # None => current[s] \in CurrentOnes
  BY DEF CurrentOnes
<1>7. QED
  BY <1>3, <1>4, <1>5, <1>6
-----------------------------------------------------------------------------
(* Types.                                                                  *)

LEMMA TypeInit == Init => TypeOK
<1> SUFFICES ASSUME Init PROVE TypeOK
  OBVIOUS
<1>1. requests \in Seq(Wanted)
  BY DEF Init
<1>2. /\ tip \in Tip /\ current \in [Slot -> Instance \cup {None}]
      /\ \A s \in Slot : current[s] # None => SlotOf[current[s]] = s
      /\ retired \subseteq Instance /\ changes \in 0..MaxChanges /\ faults \in 0..MaxFaults
      /\ conflict \subseteq Instance /\ deferred \subseteq Instance
  BY Constants DEF Init
<1>3. /\ reached \in [Instance -> Tip \cup {None}] /\ held \in [Instance -> Tip \cup {None}]
      /\ retries \in [Instance -> Tip \cup {None}]
  BY DEF Init
<1>4. /\ activations \in [Slot -> Instance \cup {None}]
      /\ pending \in [Slot -> Wanted \cup {None}]
      /\ chan \in [tip : Tip, fresh : BOOLEAN]
      /\ mon \in MonitorState
  BY Constants DEF Init, Nothing, MonitorState
<1>5. driver \in DriverState /\ driver.pc \notin Busy
  BY RestType DEF Init, Busy
<1>6. QED
  BY <1>1, <1>2, <1>3, <1>4, <1>5 DEF TypeOK

LEMMA FaultType == TypeOK /\ Fault => faults' \in 0..MaxFaults
BY Constants DEF TypeOK, Fault

LEMMA MonitorFields ==
  ASSUME NEW m \in MonitorState
  PROVE  m.notice \in BOOLEAN /\ m.workers \in [Slot -> Instance \cup {None}] /\ m.adds \subseteq Instance
BY DEF MonitorState

LEMMA WantedFields ==
  ASSUME NEW w \in Wanted
  PROVE  w.instance \in Instance /\ w.target \in Tip /\ w # None
BY Constants DEF Wanted

LEMMA GoneType ==
  ASSUME TypeOK, Gone, faults' \in 0..MaxFaults PROVE TypeOK'
<1>1. driver' \in DriverState /\ driver'.pc = "down"
  BY RestType DEF Gone
<1>2. /\ chan' \in [tip : Tip, fresh : BOOLEAN] /\ mon' \in MonitorState /\ requests' \in Seq(Wanted)
      /\ activations' \in [Slot -> Instance \cup {None}]
      /\ pending' \in [Slot -> Wanted \cup {None}]
      /\ retries' \in [Instance -> Tip \cup {None}] /\ deferred' \subseteq Instance
  BY Constants DEF Gone, Nothing, MonitorState
<1>3. QED
  BY <1>1, <1>2 DEF TypeOK, Gone, record, Busy

\* The world, the monitor, and the start of the process.
LEMMA WorldType ==
  ASSUME TypeOK,
         \/ Move \/ Publish \/ Start \/ MonitorReads
         \/ \E s \in Slot, i \in Instance \cup {None} : Change(s, i)
         \/ \E i \in Instance : Conflict(i) \/ MonitorAdds(i)
  PROVE  TypeOK'
<1> USE DEF TypeOK
<1>1. CASE Move
  <2>1. tip' \in Tip
    BY <1>1, Constants DEF Move, Tip
  <2>2. QED
    BY <1>1, <2>1 DEF Move, record, queues
<1>2. CASE Publish
  <2>1. chan' \in [tip : Tip, fresh : BOOLEAN]
    BY <1>2 DEF Publish
  <2>2. QED
    BY <1>2, <2>1 DEF Publish, record, queues
<1>3. CASE Start
  <2> DEFINE is == CurrentOnes
  <2>1. PICK q \in InOrder(is) : requests' = [n \in DOMAIN q |-> Request(q[n], tip)]
    BY <1>3 DEF Start, CurrentOnes
  <2>2. /\ Cardinality(is) \in Nat /\ DOMAIN q = 1..Cardinality(is)
        /\ \A n \in DOMAIN q : q[n] \in Instance
    BY OrderType
  <2>3. \A n \in DOMAIN q : Request(q[n], tip) \in Wanted
    BY <2>2, RequestType
  <2>4. requests' \in Seq(Wanted)
    <3> DEFINE N == Cardinality(is)
    <3>1. N \in Nat /\ requests' = [n \in 1..N |-> Request(q[n], tip)]
      BY <2>1, <2>2
    <3>2. \A n \in 1..N : Request(q[n], tip) \in Wanted
      BY <2>2, <2>3
    <3> HIDE DEF N
    <3>3. QED
      BY <3>1, <3>2
  <2>5. driver' \in DriverState /\ driver'.pc = "idle"
    BY <1>3, RestType DEF Start
  <2>6. mon' \in MonitorState
    BY <1>3 DEF Start, MonitorState
  <2>7. chan' \in [tip : Tip, fresh : BOOLEAN]
    BY <1>3 DEF Start
  <2>8. QED
    BY <1>3, <2>4, <2>5, <2>6, <2>7 DEF Start, record, queues, Busy
<1>4. CASE MonitorReads
  <2>1. /\ [s \in Slot |-> IF mon.workers[s] = current[s] THEN current[s] ELSE None]
              \in [Slot -> Instance \cup {None}]
        /\ {current[s] : s \in {t \in Slot : mon.workers[t] # current[t]}} \ {None} \subseteq Instance
    OBVIOUS
  <2>2. mon' \in MonitorState
    BY <1>4, <2>1 DEF MonitorReads, MonitorState
  <2>3. QED
    BY <1>4, <2>2 DEF MonitorReads, record, queues
<1>5. ASSUME NEW s \in Slot, NEW i \in Instance \cup {None}, Change(s, i) PROVE TypeOK'
  <2>1. changes' \in 0..MaxChanges
    BY <1>5, Constants DEF Change
  <2>2. /\ current' \in [Slot -> Instance \cup {None}]
        /\ \A t \in Slot : current'[t] # None => SlotOf[current'[t]] = t
    BY <1>5 DEF Change
  <2>3. retired' \subseteq Instance
    BY <1>5 DEF Change
  <2>4. mon' \in MonitorState
    BY <1>5 DEF Change, MonitorState
  <2>5. QED
    BY <1>5, <2>1, <2>2, <2>3, <2>4 DEF Change, queues
<1>6. ASSUME NEW i \in Instance, Conflict(i) PROVE TypeOK'
  <2>1. faults' \in 0..MaxFaults
    BY <1>6, FaultType DEF Conflict
  <2>2. QED
    BY <1>6, <2>1 DEF Conflict, queues
<1>7. ASSUME NEW i \in Instance, MonitorAdds(i) PROVE TypeOK'
  <2>1. mon' \in MonitorState
    BY <1>7, Constants DEF MonitorAdds, MonitorState
  <2>2. requests' \in Seq(Wanted)
    <3>1. requests' = Append(requests, Request(i, tip)) /\ Request(i, tip) \in Wanted
      BY <1>7, RequestType DEF MonitorAdds
    <3>2. QED
      BY <3>1, AppendProperties
  <2>3. QED
    BY <1>7, <2>1, <2>2 DEF MonitorAdds, record, queues
<1>8. QED
  BY <1>1, <1>2, <1>3, <1>4, <1>5, <1>6, <1>7

LEMMA TakeType == ASSUME TypeOK, Take PROVE TypeOK'
<1> USE DEF TypeOK
<1>1. CASE TakePending
  <2> DEFINE s == CHOOSE n \in Queued : \A m \in Queued : n <= m
  <2>1. s \in Queued
    <3>1. Queued \subseteq Nat /\ Queued # {}
      BY <1>1, Constants DEF TakePending, Queued
    <3>2. \E n \in Queued : \A m \in Queued : n <= m
      BY <3>1, SmallestOf
    <3>3. QED
      BY <3>2
  <2>2. s \in Slot /\ pending[s] \in Wanted
    BY <2>1 DEF Queued
  <2>3. driver' \in DriverState /\ driver'.instance # None
    BY <1>1, <2>2, AtType, Constants DEF TakePending, Busy
  <2>4. pending' \in [Slot -> Wanted \cup {None}]
    BY <1>1, <2>2 DEF TakePending
  <2>5. QED
    BY <1>1, <2>3, <2>4 DEF TakePending, record
<1>2. CASE TakeRequest
  <2>1. Head(requests) \in Wanted /\ requests' \in Seq(Wanted)
    BY <1>2, HeadTailProperties DEF TakeRequest
  <2>2. driver' \in DriverState /\ driver'.instance # None
    BY <1>2, <2>1, AtType, Constants DEF TakeRequest, Busy
  <2>3. QED
    BY <1>2, <2>1, <2>2 DEF TakeRequest, Waiting, record, queues
<1>3. ASSUME NEW i \in Instance, TakeRetry(i) PROVE TypeOK'
  <2>1. Request(i, retries[i]) \in Wanted
    BY <1>3, RequestType DEF TakeRetry
  <2>2. driver' \in DriverState /\ driver'.instance # None
    BY <1>3, <2>1, AtType, Constants DEF TakeRetry, Busy
  <2>3. retries' \in [Instance -> Tip \cup {None}] /\ deferred' \subseteq Instance
    BY <1>3 DEF TakeRetry
  <2>4. QED
    BY <1>3, <2>2, <2>3 DEF TakeRetry, Waiting, record
<1>4. CASE TakeTip
  <2>1. chan' \in [tip : Tip, fresh : BOOLEAN] /\ chan.tip \in Tip
    BY <1>4 DEF TakeTip
  <2>2. \A s \in Slot : activations[s] # None => Request(activations[s], chan.tip) \in Wanted
    BY <2>1, RequestType
  <2>3. pending' \in [Slot -> Wanted \cup {None}]
    BY <1>4, <2>2 DEF TakeTip
  <2>4. QED
    BY <1>4, <2>1, <2>3 DEF TakeTip, Waiting, record
<1>5. QED
  BY <1>1, <1>2, <1>3, <1>4 DEF Take

LEMMA ScheduleType ==
  ASSUME TypeOK, NEW t \in Tip, driver.instance \in Instance, Schedule(t)
  PROVE  /\ retries' \in [Instance -> Tip \cup {None}] /\ deferred' \subseteq Instance
         /\ driver' \in DriverState /\ driver'.pc \notin Busy
         /\ activations' = activations /\ pending' = pending
BY RestType DEF Schedule, TypeOK, Busy

LEMMA WorkType == ASSUME TypeOK, Work \/ PassDeferred \/ ReadTipFails PROVE TypeOK'
<1> USE DEF TypeOK
<1>1. /\ driver.instance \in Instance /\ MySlot \in Slot /\ driver.target \in Tip
  <2>1. driver.pc \in Busy
    BY DEF Work, Accept, Discard, PassSuperseded, PassQuarantined, PassReaches, Recheck, ReadTip,
           PassDeferred, ReadTipFails, Driving, Busy
  <2>2. QED
    BY <2>1, DriverFields DEF MySlot
<1>2. PassTarget \in Tip
  BY <1>1 DEF PassTarget
<1>3. CASE Accept
  <2>1. driver' \in DriverState /\ driver'.instance = driver.instance
    BY <1>3, DriverStays DEF Accept, Busy
  <2>2. activations' \in [Slot -> Instance \cup {None}]
    BY <1>1, <1>3 DEF Accept
  <2>3. pending' \in [Slot -> Wanted \cup {None}]
    BY <1>1, <1>3 DEF Accept
  <2>4. QED
    BY <1>1, <1>3, <2>1, <2>2, <2>3, Constants DEF Accept, Driving
<1>4. CASE Discard \/ PassSuperseded
  <2>1. driver' \in DriverState /\ driver'.pc \notin Busy
    BY <1>4, RestType DEF Discard, PassSuperseded, Busy
  <2>2. activations' \in [Slot -> Instance \cup {None}]
    BY <1>1, <1>4 DEF Discard, PassSuperseded
  <2>3. QED
    BY <1>4, <2>1, <2>2 DEF Discard, PassSuperseded, Driving
<1>5. CASE PassQuarantined
  BY <1>5, GoneType DEF PassQuarantined
<1>6. ASSUME NEW t \in Tip, PassReaches(t) PROVE TypeOK'
  <2>1. driver' \in DriverState /\ driver'.instance = driver.instance
    <3>1. driver' = [driver EXCEPT !.pc = "recheck", !.target = t]
      BY <1>6 DEF PassReaches
    <3>2. QED
      BY <3>1, DriverMoves DEF Busy
  <2>2. reached' \in [Instance -> Tip \cup {None}] /\ held' \in [Instance -> Tip \cup {None}]
    BY <1>1, <1>6 DEF PassReaches
  <2>3. QED
    BY <1>1, <1>6, <2>1, <2>2, Constants DEF PassReaches, Driving, queues
<1>7. CASE Recheck
  <2>1. /\ driver' \in DriverState
        /\ driver'.instance = driver.instance \/ driver'.pc \notin Busy
    <3>1. driver' = [driver EXCEPT !.pc = "tip"] \/ driver' = Idle
      BY <1>7 DEF Recheck
    <3>2. CASE driver' = [driver EXCEPT !.pc = "tip"]
      BY <3>2, DriverStays DEF Busy
    <3>3. CASE driver' = Idle
      BY <3>3, RestType DEF Busy
    <3>4. QED
      BY <3>1, <3>2, <3>3
  <2>2. activations' \in [Slot -> Instance \cup {None}]
    BY <1>1, <1>7 DEF Recheck
  <2>3. QED
    BY <1>1, <1>7, <2>1, <2>2, Constants DEF Recheck, Driving
<1>8. CASE ReadTip
  <2>1. /\ driver' \in DriverState
        /\ driver'.instance = driver.instance \/ driver'.pc \notin Busy
    <3>1. driver' = [driver EXCEPT !.pc = "pass", !.target = tip] \/ driver' = Idle
      BY <1>8 DEF ReadTip
    <3>2. CASE driver' = [driver EXCEPT !.pc = "pass", !.target = tip]
      BY <3>2, DriverMoves DEF Busy
    <3>3. CASE driver' = Idle
      BY <3>3, RestType DEF Busy
    <3>4. QED
      BY <3>1, <3>2, <3>3
  <2>2. QED
    BY <1>1, <1>8, <2>1, Constants DEF ReadTip, Driving, queues
<1>9. CASE PassDeferred
  <2>1. held' \in [Instance -> Tip \cup {None}]
    BY <1>1, <1>2, <1>9 DEF PassDeferred
  <2>2. faults' \in 0..MaxFaults
    BY <1>9, FaultType DEF PassDeferred
  <2>3. QED
    BY <1>1, <1>2, <1>9, <2>1, <2>2, ScheduleType DEF PassDeferred, Driving
<1>10. CASE ReadTipFails
  <2>1. faults' \in 0..MaxFaults
    BY <1>10, FaultType DEF ReadTipFails
  <2>2. QED
    BY <1>1, <1>10, <2>1, ScheduleType DEF ReadTipFails, Driving
<1>11. QED
  BY <1>3, <1>4, <1>5, <1>6, <1>7, <1>8, <1>9, <1>10 DEF Work

LEMMA TypeStep == TypeOK /\ [Next]_vars => TypeOK'
<1> SUFFICES ASSUME TypeOK, [Next]_vars PROVE TypeOK'
  OBVIOUS
<1>1. CASE Stop
  BY <1>1, FaultType, GoneType DEF Stop
<1>2. CASE UNCHANGED vars
  BY <1>2 DEF TypeOK, vars, record, queues
<1>3. QED
  BY <1>1, <1>2, WorldType, TakeType, WorkType DEF Next
-----------------------------------------------------------------------------
(* Deferrals, and what else ties the driver's variables together.          *)

OwnSlots ==
    /\ \A s \in Slot : activations[s] # None => SlotOf[activations[s]] = s
    /\ \A s \in Slot : pending[s] # None => SlotOf[pending[s].instance] = s

\* A pass is made for an activation, and is followed by the tip it reached.
AtWork ==
    /\ driver.pc \notin Busy => driver.instance = None
    /\ driver.pc \in {"pass", "recheck", "tip"} => activations[MySlot] = driver.instance
    /\ driver.pc \in {"recheck", "tip"} => reached[driver.instance] = driver.target

QueueInv == TypeOK /\ chan.tip <= tip /\ OwnSlots /\ AtWork /\ DeferredIsScheduled

LEMMA QueueInit == Init => QueueInv
<1> SUFFICES ASSUME Init PROVE QueueInv
  OBVIOUS
<1>1. TypeOK
  BY TypeInit
<1>2. chan.tip <= tip
  BY DEF Init
<1>3. OwnSlots
  BY DEF Init, OwnSlots, Nothing
<1>4. AtWork
  BY RestType DEF Init, AtWork, Busy
<1>5. DeferredIsScheduled
  BY DEF Init, DeferredIsScheduled
<1>6. QED
  BY <1>1, <1>2, <1>3, <1>4, <1>5 DEF QueueInv

LEMMA ChanStep == TypeOK /\ chan.tip <= tip /\ [Next]_vars => chan'.tip <= tip'
<1> SUFFICES ASSUME TypeOK, chan.tip <= tip, [Next]_vars PROVE chan'.tip <= tip'
  OBVIOUS
<1>1. tip \in Nat /\ chan.tip \in Nat /\ chan \in [tip : Tip, fresh : BOOLEAN]
  BY Constants DEF TypeOK
<1>2. CASE Move
  BY <1>1, <1>2 DEF Move
<1>3. CASE Publish \/ Start
  BY <1>1, <1>3 DEF Publish, Start
<1>4. CASE Stop \/ PassQuarantined
  BY <1>1, <1>4 DEF Stop, PassQuarantined, Gone
<1>5. CASE TakeTip
  <2>1. chan'.tip = chan.tip /\ tip' = tip
    BY <1>1, <1>5 DEF TakeTip, Waiting
  <2>2. QED
    BY <2>1
<1>6. ASSUME ~Move, ~Publish, ~Start, ~Stop, ~PassQuarantined, ~TakeTip PROVE UNCHANGED <<chan, tip>>
  BY <1>6 DEF Next, vars, Change, Conflict, MonitorReads, MonitorAdds, Take, TakePending, TakeRequest,
      TakeRetry, Waiting, Work, Accept, Discard, PassSuperseded, PassReaches, Recheck, ReadTip,
      PassDeferred, ReadTipFails, Driving, queues
<1>7. QED
  BY <1>2, <1>3, <1>4, <1>5, <1>6

\* The driver waits for nobody in particular: world, monitor, start and stop.
LEMMA WorldInv ==
  ASSUME QueueInv,
         \/ Move \/ Publish \/ Start \/ Stop \/ MonitorReads \/ PassQuarantined
         \/ \E s \in Slot, i \in Instance \cup {None} : Change(s, i)
         \/ \E i \in Instance : Conflict(i) \/ MonitorAdds(i)
         \/ UNCHANGED vars
  PROVE  OwnSlots' /\ AtWork' /\ DeferredIsScheduled'
<1> USE DEF QueueInv
<1>1. CASE Start
  <2>1. UNCHANGED queues /\ driver' = Idle
    BY <1>1 DEF Start
  <2>2. AtWork'
    BY <2>1, RestType DEF AtWork, Busy
  <2>3. QED
    BY <2>1, <2>2 DEF queues, OwnSlots, DeferredIsScheduled
<1>2. CASE Stop \/ PassQuarantined
  <2>1. Gone
    BY <1>2 DEF Stop, PassQuarantined
  <2>2. AtWork'
    BY <2>1, RestType DEF Gone, AtWork, Busy
  <2>3. QED
    BY <2>1, <2>2 DEF Gone, Nothing, OwnSlots, DeferredIsScheduled
<1>3. CASE ~Start /\ ~Stop /\ ~PassQuarantined
  <2>1. UNCHANGED <<queues, driver, reached>>
    BY <1>3 DEF vars, Move, Publish, MonitorReads, Change, Conflict, MonitorAdds, record
  <2>2. QED
    BY <2>1 DEF queues, OwnSlots, AtWork, DeferredIsScheduled, MySlot
<1>4. QED
  BY <1>1, <1>2, <1>3

LEMMA TakeInv ==
  ASSUME QueueInv, Take
  PROVE  OwnSlots' /\ AtWork' /\ DeferredIsScheduled'
<1> USE DEF QueueInv
<1>1. \A w \in Wanted : At("check", w).pc = "check"
  BY AtType DEF Busy
<1>2. CASE TakePending
  <2>1. PICK s \in Slot : /\ pending[s] \in Wanted /\ driver' = At("check", pending[s])
                          /\ pending' = [pending EXCEPT ![s] = None]
    <3>1. Queued \subseteq Nat /\ Queued # {}
      BY <1>2, Constants DEF TakePending, Queued
    <3>2. \E n \in Queued : \A m \in Queued : n <= m
      BY <3>1, SmallestOf
    <3>3. QED
      BY <1>2, <3>2 DEF TakePending, Queued, TypeOK
  <2>2. AtWork'
    BY <1>1, <2>1 DEF AtWork, Busy
  <2>3. OwnSlots'
    BY <1>2, <2>1 DEF TakePending, OwnSlots, TypeOK
  <2>4. QED
    BY <1>2, <2>2, <2>3 DEF TakePending, DeferredIsScheduled
<1>3. CASE TakeRequest
  <2>1. Head(requests) \in Wanted
    BY <1>3, HeadTailProperties DEF TakeRequest, TypeOK
  <2>2. AtWork'
    BY <1>1, <1>3, <2>1 DEF TakeRequest, AtWork, Busy
  <2>3. QED
    BY <1>3, <2>2 DEF TakeRequest, queues, OwnSlots, DeferredIsScheduled
<1>4. ASSUME NEW i \in Instance, TakeRetry(i) PROVE OwnSlots' /\ AtWork' /\ DeferredIsScheduled'
  <2>1. Request(i, retries[i]) \in Wanted
    BY <1>4, RequestType DEF TakeRetry, TypeOK
  <2>2. AtWork'
    BY <1>1, <1>4, <2>1 DEF TakeRetry, AtWork, Busy
  <2>3. DeferredIsScheduled'
    BY <1>4 DEF TakeRetry, DeferredIsScheduled, TypeOK
  <2>4. QED
    BY <1>4, <2>2, <2>3 DEF TakeRetry, OwnSlots
<1>5. CASE TakeTip
  <2>1. AtWork'
    BY <1>5 DEF TakeTip, Waiting, AtWork, Busy, record, MySlot
  <2>2. chan.tip \in Tip
    BY DEF TypeOK
  <2>3. \A s \in Slot : pending'[s] # None => SlotOf[pending'[s].instance] = s
    <3> SUFFICES ASSUME NEW s \in Slot, pending'[s] # None PROVE SlotOf[pending'[s].instance] = s
      OBVIOUS
    <3>1. CASE activations[s] = None
      BY <1>5, <3>1 DEF TakeTip, OwnSlots
    <3>2. CASE activations[s] # None
      <4>1. activations[s] \in Instance /\ pending'[s] = Request(activations[s], chan.tip)
        BY <1>5, <3>2 DEF TakeTip, TypeOK
      <4>2. QED
        BY <2>2, <3>2, <4>1, RequestType DEF OwnSlots
    <3>3. QED
      BY <3>1, <3>2
  <2>4. QED
    BY <1>5, <2>1, <2>3 DEF TakeTip, OwnSlots, DeferredIsScheduled
<1>6. QED
  BY <1>2, <1>3, <1>4, <1>5 DEF Take

LEMMA AtBusy ==
  ASSUME TypeOK, Work \/ PassDeferred \/ ReadTipFails
  PROVE  /\ driver.pc \in Busy /\ driver.instance \in Instance /\ driver.instance # None
         /\ MySlot \in Slot /\ MySlot = SlotOf[driver.instance]
         /\ driver.target \in Tip /\ PassTarget \in Tip
<1>1. driver.pc \in Busy
  BY DEF Work, Accept, Discard, PassSuperseded, PassQuarantined, PassReaches, Recheck, ReadTip,
         PassDeferred, ReadTipFails, Driving, Busy
<1>2. QED
  BY <1>1, DriverFields, Constants DEF MySlot, TypeOK, PassTarget

\* Where each step of the driver takes it.
LEMMA DriverSteps ==
  ASSUME TypeOK
  PROVE  /\ Accept => driver'.pc = "pass" /\ driver'.instance = driver.instance
         /\ Discard \/ PassSuperseded \/ PassDeferred \/ ReadTipFails
               => driver'.pc = "idle" /\ driver'.instance = None
         /\ \A t \in Tip : PassReaches(t) =>
               driver'.pc = "recheck" /\ driver'.instance = driver.instance /\ driver'.target = t
         /\ Recheck => IF IsCurrent THEN /\ driver'.pc = "tip" /\ driver'.target = driver.target
                                         /\ driver'.instance = driver.instance
                       ELSE driver'.pc = "idle" /\ driver'.instance = None
         /\ ReadTip => IF tip = driver.target THEN driver'.pc = "idle" /\ driver'.instance = None
                       ELSE driver'.pc = "pass" /\ driver'.instance = driver.instance
<1> USE DEF TypeOK, Busy
<1>1. Accept => driver'.pc = "pass" /\ driver'.instance = driver.instance
  BY DriverStays DEF Accept
<1>2. Discard \/ PassSuperseded \/ PassDeferred \/ ReadTipFails
         => driver'.pc = "idle" /\ driver'.instance = None
  BY RestType DEF Discard, PassSuperseded, PassDeferred, ReadTipFails, Schedule
<1>3. ASSUME NEW t \in Tip, PassReaches(t)
      PROVE  driver'.pc = "recheck" /\ driver'.instance = driver.instance /\ driver'.target = t
  <2>1. driver' = [driver EXCEPT !.pc = "recheck", !.target = t]
    BY <1>3 DEF PassReaches
  <2>2. QED
    BY <2>1, DriverMoves
<1>4. ASSUME Recheck
      PROVE  IF IsCurrent THEN /\ driver'.pc = "tip" /\ driver'.target = driver.target
                               /\ driver'.instance = driver.instance
             ELSE driver'.pc = "idle" /\ driver'.instance = None
  <2>1. CASE IsCurrent
    <3>1. driver' = [driver EXCEPT !.pc = "tip"]
      BY <1>4, <2>1 DEF Recheck
    <3>2. QED
      BY <2>1, <3>1, DriverStays
  <2>2. CASE ~IsCurrent
    BY <1>4, <2>2, RestType DEF Recheck
  <2>3. QED
    BY <2>1, <2>2
<1>5. ASSUME ReadTip
      PROVE  IF tip = driver.target THEN driver'.pc = "idle" /\ driver'.instance = None
             ELSE driver'.pc = "pass" /\ driver'.instance = driver.instance
  <2>1. CASE tip = driver.target
    BY <1>5, <2>1, RestType DEF ReadTip
  <2>2. CASE tip # driver.target
    <3>1. driver' = [driver EXCEPT !.pc = "pass", !.target = tip]
      BY <1>5, <2>2 DEF ReadTip
    <3>2. QED
      BY <2>2, <3>1, DriverMoves
  <2>3. QED
    BY <2>1, <2>2
<1>6. QED
  BY <1>1, <1>2, <1>3, <1>4, <1>5

LEMMA WorkInv ==
  ASSUME QueueInv,
         \/ Accept \/ Discard \/ PassSuperseded \/ Recheck \/ ReadTip \/ PassDeferred \/ ReadTipFails
         \/ \E t \in Tip : PassReaches(t)
  PROVE  OwnSlots' /\ AtWork' /\ DeferredIsScheduled'
<1> USE DEF QueueInv
<1>1. /\ driver.instance \in Instance /\ driver.instance # None
      /\ MySlot \in Slot /\ MySlot = SlotOf[driver.instance]
      /\ driver.target \in Tip /\ PassTarget \in Tip
  BY AtBusy DEF Work
<1>2. /\ activations \in [Slot -> Instance \cup {None}]
      /\ pending \in [Slot -> Wanted \cup {None}]
      /\ reached \in [Instance -> Tip \cup {None}]
      /\ retries \in [Instance -> Tip \cup {None}]
      /\ deferred \subseteq Instance
  BY DEF TypeOK
<1>3. CASE Accept
  <2>1. driver'.pc = "pass" /\ driver'.instance = driver.instance
    BY <1>3, DriverSteps
  <2>2. AtWork'
    BY <1>1, <1>2, <1>3, <2>1 DEF Accept, AtWork, MySlot, Busy
  <2>3. OwnSlots'
    BY <1>1, <1>2, <1>3 DEF Accept, OwnSlots
  <2>4. QED
    BY <1>3, <2>2, <2>3 DEF Accept, DeferredIsScheduled
<1>4. CASE Discard \/ PassSuperseded
  <2>1. driver'.pc = "idle" /\ driver'.instance = None
    BY <1>4, DriverSteps
  <2>2. AtWork'
    BY <2>1 DEF AtWork, Busy
  <2>3. OwnSlots'
    BY <1>1, <1>2, <1>4 DEF Discard, PassSuperseded, OwnSlots
  <2>4. QED
    BY <1>4, <2>2, <2>3 DEF Discard, PassSuperseded, DeferredIsScheduled
<1>5. ASSUME NEW t \in Tip, PassReaches(t) PROVE OwnSlots' /\ AtWork' /\ DeferredIsScheduled'
  <2>1. driver.pc = "pass" /\ UNCHANGED queues
    BY <1>5 DEF PassReaches, Driving
  <2>2. driver'.pc = "recheck" /\ driver'.instance = driver.instance /\ driver'.target = t
    BY <1>5, DriverSteps
  <2>3. AtWork'
    BY <1>1, <1>2, <1>5, <2>1, <2>2 DEF PassReaches, AtWork, MySlot, Busy, queues
  <2>4. QED
    BY <2>1, <2>3 DEF queues, OwnSlots, DeferredIsScheduled
<1>6. CASE Recheck
  <2>1. AtWork'
    <3>1. CASE IsCurrent
      <4>1. driver'.pc = "tip" /\ driver'.target = driver.target /\ driver'.instance = driver.instance
        BY <1>6, <3>1, DriverSteps
      <4>2. QED
        BY <1>6, <3>1, <4>1 DEF Recheck, Driving, AtWork, MySlot, Busy
    <3>2. CASE ~IsCurrent
      <4>1. driver'.pc = "idle" /\ driver'.instance = None
        BY <1>6, <3>2, DriverSteps
      <4>2. QED
        BY <4>1 DEF AtWork, Busy
    <3>3. QED
      BY <3>1, <3>2
  <2>2. OwnSlots'
    BY <1>1, <1>2, <1>6 DEF Recheck, OwnSlots
  <2>3. QED
    BY <1>6, <2>1, <2>2 DEF Recheck, DeferredIsScheduled
<1>7. CASE ReadTip
  <2>1. UNCHANGED queues /\ driver.pc = "tip"
    BY <1>7 DEF ReadTip, Driving
  <2>2. AtWork'
    <3>1. CASE tip = driver.target
      <4>1. driver'.pc = "idle" /\ driver'.instance = None
        BY <1>7, <3>1, DriverSteps
      <4>2. QED
        BY <4>1 DEF AtWork, Busy
    <3>2. CASE tip # driver.target
      <4>1. driver'.pc = "pass" /\ driver'.instance = driver.instance
        BY <1>7, <3>2, DriverSteps
      <4>2. QED
        BY <2>1, <4>1 DEF AtWork, MySlot, Busy, queues
    <3>3. QED
      BY <3>1, <3>2
  <2>3. QED
    BY <2>1, <2>2 DEF queues, OwnSlots, DeferredIsScheduled
<1>8. CASE PassDeferred \/ ReadTipFails
  <2>1. PICK t \in Tip : Schedule(t)
    BY <1>1, <1>8 DEF PassDeferred, ReadTipFails
  <2>2. driver'.pc = "idle" /\ driver'.instance = None
    BY <1>8, DriverSteps
  <2>3. AtWork'
    BY <2>2 DEF AtWork, Busy
  <2>4. DeferredIsScheduled'
    <3>1. t # None
      BY Constants
    <3>2. QED
      BY <1>1, <1>2, <2>1, <3>1 DEF Schedule, DeferredIsScheduled
  <2>5. QED
    BY <2>1, <2>3, <2>4 DEF Schedule, OwnSlots
<1>9. QED
  BY <1>3, <1>4, <1>5, <1>6, <1>7, <1>8

LEMMA QueueInvariant == Spec => []QueueInv
<1>1. QueueInv /\ [Next]_vars => QueueInv'
  <2> SUFFICES ASSUME QueueInv, [Next]_vars PROVE QueueInv'
    OBVIOUS
  <2>1. TypeOK' /\ chan'.tip <= tip'
    BY TypeStep, ChanStep DEF QueueInv
  <2>2. OwnSlots' /\ AtWork' /\ DeferredIsScheduled'
    BY WorldInv, TakeInv, WorkInv DEF Next, Work
  <2>3. QED
    BY <2>1, <2>2 DEF QueueInv
<1>2. QED
  BY QueueInit, <1>1, PTL DEF Spec

\* The variables keep their types, for any number of slots, moves and faults.
THEOREM QueueTypes == Spec => []TypeOK
<1>1. QueueInv => TypeOK
  BY DEF QueueInv
<1>2. QED
  BY QueueInvariant, <1>1, PTL

\* An instance is in the set of deferred ones exactly while its delay runs, so
\* schedule_backfill_retry never drops a deferral for good.
THEOREM DeferralsAgree == Spec => []DeferredIsScheduled
<1>1. QueueInv => DeferredIsScheduled
  BY DEF QueueInv
<1>2. QED
  BY QueueInvariant, <1>1, PTL
-----------------------------------------------------------------------------
(* No work is lost, provided no instance becomes current twice.            *)

Requested(i) == \E n \in 1..Len(requests) : requests[n].instance = i

Queueing(i) == \E s \in Slot : pending[s] # None /\ pending[s].instance = i

Activated(i) ==
    activations[SlotOf[i]] = i /\ (chan.fresh \/ chan.tip # tip \/ reached[i] = tip)

\* What Carried says without the monitor.
Followed(i) ==
    Requested(i) \/ Queueing(i) \/ retries[i] # None \/ driver.instance = i \/ Activated(i)

\* A worker the monitor knows has the instance that is current or one that was.
Past ==
    /\ \A s \in Slot : current[s] # None => current[s] \notin retired
    /\ \A s \in Slot : mon.workers[s] = current[s] \/ mon.workers[s] \in retired \cup {None}
    /\ \A i \in mon.adds : current[SlotOf[i]] = i \/ i \in retired

\* i is what a slot holds now, and not quarantined.
Alive(i) == i \in Instance /\ current[SlotOf[i]] = i /\ i \notin conflict

Following ==
    Up => \A i \in Instance : Alive(i) =>
        /\ mon.workers[SlotOf[i]] = i => Followed(i)
        /\ mon.notice \/ i \in mon.adds \/ Followed(i)

CarryInv == QueueInv /\ Past /\ Following

LEMMA Unchanged ==
  ASSUME NEW i, UNCHANGED <<requests, pending, retries, driver, activations, chan, tip, reached>>,
         Followed(i)
  PROVE  Followed(i)'
BY DEF Followed, Requested, Queueing, Activated

\* The steps of the world and of the monitor that leave the driver alone.
LEMMA FollowedWorld ==
  ASSUME CarryInv, NEW i \in Instance, Followed(i),
         \/ Move \/ Publish \/ MonitorReads
         \/ \E s \in Slot, j \in Instance \cup {None} : Change(s, j)
         \/ \E j \in Instance : Conflict(j) \/ MonitorAdds(j)
  PROVE  Followed(i)'
<1>1. TypeOK /\ chan.tip <= tip
  BY DEF CarryInv, QueueInv
<1>2. CASE Move
  <2>1. tip' = tip + 1 /\ tip \in Nat /\ chan.tip \in Nat /\ chan' = chan
    BY <1>1, <1>2, Constants DEF TypeOK, Move
  <2>2. chan'.tip # tip'
    BY <1>1, <2>1
  <2>3. UNCHANGED <<requests, pending, retries, driver, activations>>
    BY <1>2 DEF Move, queues
  <2>4. QED
    BY <2>2, <2>3 DEF Followed, Requested, Queueing, Activated
<1>3. CASE Publish
  <2>1. chan'.fresh
    BY <1>3 DEF Publish
  <2>2. UNCHANGED <<requests, pending, retries, driver, activations>>
    BY <1>3 DEF Publish, queues
  <2>3. QED
    BY <2>1, <2>2 DEF Followed, Requested, Queueing, Activated
<1>4. CASE MonitorReads
  BY <1>4, Unchanged DEF MonitorReads, record, queues
<1>5. ASSUME NEW s \in Slot, NEW j \in Instance \cup {None}, Change(s, j) PROVE Followed(i)'
  BY <1>5, Unchanged DEF Change, queues
<1>6. ASSUME NEW j \in Instance, Conflict(j) PROVE Followed(i)'
  BY <1>6, Unchanged DEF Conflict, queues
<1>7. ASSUME NEW j \in Instance, MonitorAdds(j) PROVE Followed(i)'
  <2>1. requests' = Append(requests, Request(j, tip)) /\ requests \in Seq(Wanted)
    BY <1>1, <1>7 DEF MonitorAdds, TypeOK
  <2>2. Requested(i) => Requested(i)'
    BY <2>1, AppendProperties DEF Requested
  <2>3. UNCHANGED <<pending, retries, driver, activations, chan, tip, reached>>
    BY <1>7 DEF MonitorAdds, record, queues
  <2>4. QED
    BY <2>2, <2>3 DEF Followed, Queueing, Activated
<1>8. QED
  BY <1>2, <1>3, <1>4, <1>5, <1>6, <1>7

\* Taking a request only moves it, and a tip change becomes work for every
\* activation before it counts as seen.
LEMMA FollowedTake ==
  ASSUME CarryInv, NEW i \in Instance, Followed(i), Take
  PROVE  Followed(i)'
<1>1. TypeOK /\ OwnSlots /\ AtWork
  BY DEF CarryInv, QueueInv
<1>2. driver.instance # i
  BY <1>1, Constants DEF Take, TakePending, TakeRequest, TakeRetry, TakeTip, Waiting, AtWork, Busy
<1>3. CASE TakePending
  <2>1. PICK s \in Slot : /\ pending[s] \in Wanted /\ driver' = At("check", pending[s])
                          /\ pending' = [pending EXCEPT ![s] = None]
    <3>1. Queued \subseteq Nat /\ Queued # {}
      BY <1>3, Constants DEF TakePending, Queued
    <3>2. \E n \in Queued : \A m \in Queued : n <= m
      BY <3>1, SmallestOf
    <3>3. QED
      BY <1>1, <1>3, <3>2 DEF TakePending, Queued, TypeOK
  <2>2. driver'.instance = pending[s].instance
    BY <2>1, AtType DEF Busy
  <2>3. Queueing(i) => driver'.instance = i \/ Queueing(i)'
    BY <1>1, <2>1, <2>2 DEF Queueing, TypeOK
  <2>4. UNCHANGED <<requests, retries, activations, chan, tip, reached>>
    BY <1>3 DEF TakePending, record
  <2>5. QED
    BY <1>2, <2>3, <2>4 DEF Followed, Requested, Activated
<1>4. CASE TakeRequest
  <2>1. /\ Head(requests) \in Wanted /\ Head(requests) = requests[1] /\ Len(requests) \in Nat
        /\ Len(Tail(requests)) = Len(requests) - 1
        /\ \A n \in 1..Len(Tail(requests)) : Tail(requests)[n] = requests[n + 1]
    BY <1>1, <1>4, HeadTailProperties, LenProperties DEF TakeRequest, TypeOK
  <2>2. driver'.instance = requests[1].instance /\ requests' = Tail(requests)
    BY <1>4, <2>1, AtType DEF TakeRequest, Busy
  <2>3. ASSUME Requested(i) PROVE driver'.instance = i \/ Requested(i)'
    <3>1. PICK n \in 1..Len(requests) : requests[n].instance = i
      BY <2>3 DEF Requested
    <3>2. CASE n = 1
      BY <2>2, <3>1, <3>2
    <3>3. CASE n # 1
      <4>1. n - 1 \in 1..Len(Tail(requests)) /\ (n - 1) + 1 = n
        BY <2>1, <3>3
      <4>2. Tail(requests)[n - 1] = requests[n]
        BY <2>1, <4>1
      <4>3. QED
        BY <2>2, <3>1, <4>1, <4>2 DEF Requested
    <3>4. QED
      BY <3>2, <3>3
  <2>4. UNCHANGED <<pending, retries, activations, chan, tip, reached>>
    BY <1>4 DEF TakeRequest, Waiting, record, queues
  <2>5. QED
    BY <1>2, <2>3, <2>4 DEF Followed, Queueing, Activated
<1>5. ASSUME NEW j \in Instance, TakeRetry(j) PROVE Followed(i)'
  <2>1. driver'.instance = j
    BY <1>1, <1>5, RequestType, AtType, SMTT(30) DEF TakeRetry, TypeOK, Busy
  <2>2. i # j => retries'[i] = retries[i]
    BY <1>1, <1>5 DEF TakeRetry, TypeOK
  <2>3. UNCHANGED <<requests, pending, activations, chan, tip, reached>>
    BY <1>5 DEF TakeRetry, Waiting, record
  <2>4. QED
    BY <1>2, <2>1, <2>2, <2>3 DEF Followed, Requested, Queueing, Activated
<1>6. CASE TakeTip
  <2>1. ~Queueing(i)
    BY <1>6 DEF TakeTip, Waiting, Queued, Queueing
  <2>2. ASSUME Activated(i) PROVE Queueing(i)'
    <3> DEFINE s == SlotOf[i]
    <3>1. s \in Slot /\ activations[s] = i /\ chan.tip \in Tip
      BY <1>1, <2>2, Constants DEF Activated, TypeOK
    <3>2. pending'[s] = Request(i, chan.tip)
      BY <1>6, <3>1, Constants DEF TakeTip
    <3>3. Request(i, chan.tip).instance = i /\ Request(i, chan.tip) # None
      BY <3>1, RequestType, Constants
    <3>4. QED
      BY <3>1, <3>2, <3>3 DEF Queueing
  <2>3. UNCHANGED <<requests, retries, driver>>
    BY <1>6 DEF TakeTip
  <2>4. QED
    BY <2>1, <2>2, <2>3 DEF Followed, Requested
<1>7. QED
  BY <1>3, <1>4, <1>5, <1>6 DEF Take

\* The driver forgets an activation only when the instance is not current, and
\* leaves an instance only when it reached the tip or has a delay running.
LEMMA FollowedWork ==
  ASSUME CarryInv, NEW i \in Instance, Followed(i), current[SlotOf[i]] = i,
         \/ Accept \/ Discard \/ PassSuperseded \/ Recheck \/ ReadTip \/ PassDeferred \/ ReadTipFails
         \/ \E t \in Tip : PassReaches(t)
  PROVE  Followed(i)'
<1>1. /\ driver.instance \in Instance /\ driver.instance # None
      /\ MySlot \in Slot /\ MySlot = SlotOf[driver.instance]
      /\ driver.target \in Tip /\ PassTarget \in Tip
  BY AtBusy DEF Work, CarryInv, QueueInv
<1>2. /\ TypeOK /\ AtWork
      /\ activations \in [Slot -> Instance \cup {None}]
      /\ pending \in [Slot -> Wanted \cup {None}]
      /\ reached \in [Instance -> Tip \cup {None}]
      /\ retries \in [Instance -> Tip \cup {None}]
      /\ SlotOf[i] \in Slot
  BY Constants DEF CarryInv, QueueInv, TypeOK
<1>3. driver.instance = i => IsCurrent
  BY <1>1 DEF IsCurrent
<1>4. CASE Accept
  <2>1. driver'.instance = driver.instance
    BY <1>2, <1>4, DriverSteps
  <2>2. UNCHANGED <<requests, retries, chan, tip, reached>>
    BY <1>4 DEF Accept, Driving
  <2>3. CASE driver.instance # i
    <3>1. SlotOf[i] # MySlot
      BY <1>4, <2>3 DEF Accept, IsCurrent
    <3>2. activations'[SlotOf[i]] = activations[SlotOf[i]]
      BY <1>1, <1>2, <1>4, <3>1 DEF Accept
    <3>3. Queueing(i) => Queueing(i)'
      BY <1>1, <1>2, <1>4, <2>3 DEF Accept, Queueing
    <3>4. QED
      BY <2>2, <2>3, <3>2, <3>3 DEF Followed, Requested, Activated
  <2>4. QED
    BY <2>1, <2>3 DEF Followed
<1>5. ASSUME Discard \/ PassSuperseded \/ (Recheck /\ ~IsCurrent) PROVE Followed(i)'
  <2>1. driver.instance # i
    BY <1>3, <1>5 DEF Discard, PassSuperseded
  <2>2. activations[SlotOf[i]] = i => activations'[SlotOf[i]] = i
    <3>1. CASE Discard
      BY <1>1, <1>2, <2>1, <3>1 DEF Discard
    <3>2. CASE PassSuperseded \/ (Recheck /\ ~IsCurrent)
      <4>1. activations[MySlot] = driver.instance
        BY <1>2, <3>2 DEF PassSuperseded, Recheck, Driving, AtWork
      <4>2. activations' = [activations EXCEPT ![MySlot] = None]
        BY <3>2 DEF PassSuperseded, Recheck
      <4>3. QED
        BY <1>1, <1>2, <2>1, <4>1, <4>2
    <3>3. QED
      BY <1>5, <3>1, <3>2
  <2>3. UNCHANGED <<requests, pending, retries, chan, tip, reached>>
    BY <1>5 DEF Discard, PassSuperseded, Recheck, Driving
  <2>4. QED
    BY <2>1, <2>2, <2>3 DEF Followed, Requested, Queueing, Activated
<1>6. ASSUME NEW t \in Tip, PassReaches(t) PROVE Followed(i)'
  <2>1. driver'.instance = driver.instance
    BY <1>2, <1>6, DriverSteps
  <2>2. driver.instance # i => reached'[i] = reached[i]
    BY <1>2, <1>6 DEF PassReaches
  <2>3. UNCHANGED <<requests, pending, retries, activations, chan, tip>>
    BY <1>6 DEF PassReaches, Driving, queues
  <2>4. QED
    BY <2>1, <2>2, <2>3 DEF Followed, Requested, Queueing, Activated
<1>7. ASSUME Recheck, IsCurrent PROVE Followed(i)'
  <2>1. driver'.instance = driver.instance
    BY <1>2, <1>7, DriverSteps
  <2>2. UNCHANGED <<requests, pending, retries, activations, chan, tip, reached>>
    BY <1>7 DEF Recheck, Driving
  <2>3. QED
    BY <2>1, <2>2 DEF Followed, Requested, Queueing, Activated
<1>8. CASE ReadTip
  <2>1. UNCHANGED <<requests, pending, retries, activations, chan, tip, reached>>
    BY <1>8 DEF ReadTip, Driving, queues
  <2>2. driver.pc = "tip"
    BY <1>8 DEF ReadTip, Driving
  <2>3. driver.instance = i /\ tip = driver.target => Activated(i)'
    BY <1>1, <1>2, <2>1, <2>2 DEF AtWork, Activated
  <2>4. tip # driver.target => driver'.instance = driver.instance
    BY <1>2, <1>8, DriverSteps
  <2>5. QED
    BY <2>1, <2>3, <2>4 DEF Followed, Requested, Queueing, Activated
<1>9. CASE PassDeferred \/ ReadTipFails
  <2>1. PICK t \in Tip : Schedule(t)
    BY <1>1, <1>9 DEF PassDeferred, ReadTipFails
  <2>2. DeferredIsScheduled'
    BY <1>9, WorkInv DEF CarryInv
  <2>3. driver.instance \in deferred'
    BY <2>1 DEF Schedule
  <2>4. driver.instance = i => retries'[i] # None
    BY <2>2, <2>3 DEF DeferredIsScheduled
  <2>5. driver.instance # i => retries'[i] = retries[i]
    BY <1>1, <1>2, <2>1 DEF Schedule
  <2>6. UNCHANGED <<requests, pending, activations, chan, tip, reached>>
    BY <1>9, <2>1 DEF PassDeferred, ReadTipFails, Driving, Schedule
  <2>7. QED
    BY <2>4, <2>5, <2>6 DEF Followed, Requested, Queueing, Activated
<1>10. QED
  BY <1>4, <1>5, <1>6, <1>7, <1>8, <1>9

LEMMA PastStep ==
  ASSUME CarryInv, ~MayReturn, [Next]_vars
  PROVE  Past'
<1>1. TypeOK /\ Past
  BY DEF CarryInv, QueueInv
<1>2. CASE Start \/ Stop \/ PassQuarantined
  <2>1. UNCHANGED <<current, retired>> /\ mon'.adds = {}
        /\ (mon'.workers = current \/ mon'.workers = Nothing)
    BY <1>2 DEF Start, Stop, PassQuarantined, Gone, record
  <2>2. QED
    BY <1>1, <2>1 DEF Past, Nothing
<1>3. CASE MonitorReads
  <2>1. /\ UNCHANGED <<current, retired>>
        /\ \A s \in Slot : mon'.workers[s] = current[s] \/ mon'.workers[s] = None
        /\ mon'.adds \subseteq {current[s] : s \in Slot} \ {None}
    BY <1>3 DEF MonitorReads, record
  <2>2. \A i \in mon'.adds : current[SlotOf[i]] = i
    BY <1>1, <2>1 DEF TypeOK
  <2>3. QED
    BY <1>1, <2>1, <2>2 DEF Past
<1>4. ASSUME NEW i \in Instance, MonitorAdds(i) PROVE Past'
  <2>1. /\ UNCHANGED <<current, retired>>
        /\ i \in mon.adds /\ mon'.adds = mon.adds \ {i}
        /\ mon'.workers = [mon.workers EXCEPT ![SlotOf[i]] = i]
    BY <1>1, <1>4 DEF MonitorAdds, record, TypeOK, MonitorState
  <2>2. mon.workers \in [Slot -> Instance \cup {None}] /\ SlotOf[i] \in Slot
    BY <1>1, Constants, MonitorFields DEF TypeOK
  <2>3. QED
    BY <1>1, <2>1, <2>2 DEF Past
<1>5. ASSUME NEW s \in Slot, NEW j \in Instance \cup {None}, Change(s, j) PROVE Past'
  <2>1. /\ j # current[s] /\ (j # None => SlotOf[j] = s) /\ j \notin retired
        /\ current' = [current EXCEPT ![s] = j]
        /\ retired' = retired \cup ({current[s]} \ {None})
        /\ mon'.workers = mon.workers /\ mon'.adds = mon.adds
    BY <1>1, <1>5 DEF Change, TypeOK, MonitorState
  <2>2. /\ current \in [Slot -> Instance \cup {None}]
        /\ \A t \in Slot : current[t] # None => SlotOf[current[t]] = t
        /\ mon.adds \subseteq Instance
    BY <1>1, MonitorFields DEF TypeOK
  <2>3. \A t \in Slot : current'[t] # None => current'[t] \notin retired'
    BY <1>1, <2>1, <2>2 DEF Past
  <2>4. \A t \in Slot : mon.workers[t] = current'[t] \/ mon.workers[t] \in retired' \cup {None}
    BY <1>1, <2>1, <2>2 DEF Past
  <2>5. \A i \in mon.adds : current'[SlotOf[i]] = i \/ i \in retired'
    BY <1>1, <2>1, <2>2, Constants DEF Past
  <2>6. QED
    BY <2>1, <2>3, <2>4, <2>5 DEF Past
<1>6. ASSUME UNCHANGED <<current, retired, mon>> PROVE Past'
  BY <1>1, <1>6 DEF Past
<1>7. ASSUME ~Start, ~Stop, ~PassQuarantined, ~MonitorReads, \A i \in Instance : ~MonitorAdds(i),
             \A s \in Slot, j \in Instance \cup {None} : ~Change(s, j)
      PROVE  UNCHANGED <<current, retired, mon>>
  BY <1>7 DEF Next, vars, Move, Publish, Conflict, Take, TakePending, TakeRequest, TakeRetry, TakeTip,
      Waiting, Work, Accept, Discard, PassSuperseded, PassReaches, Recheck, ReadTip, PassDeferred,
      ReadTipFails, Driving, record
<1>8. QED
  BY <1>2, <1>3, <1>4, <1>5, <1>6, <1>7

LEMMA FollowingStep ==
  ASSUME CarryInv, ~MayReturn, [Next]_vars
  PROVE  Following'
<1>1. /\ TypeOK /\ Past /\ Following
      /\ current \in [Slot -> Instance \cup {None}]
      /\ mon \in MonitorState /\ mon.workers \in [Slot -> Instance \cup {None}]
      /\ \A i \in Instance : SlotOf[i] \in Slot
  BY MonitorFields, Constants DEF CarryInv, QueueInv, TypeOK
<1> SUFFICES ASSUME Up', NEW i \in Instance, Alive(i)'
             PROVE  /\ mon'.workers[SlotOf[i]] = i => Followed(i)'
                    /\ mon'.notice \/ i \in mon'.adds \/ Followed(i)'
  BY DEF Following
<1> DEFINE s == SlotOf[i]
<1>2. current'[s] = i /\ i \notin conflict' /\ i # None
  BY Constants DEF Alive
<1>3. CASE Start
  <2>1. PICK q \in InOrder(CurrentOnes) : requests' = [n \in DOMAIN q |-> Request(q[n], tip)]
    BY <1>3 DEF Start, CurrentOnes
  <2>2. current[s] = i
    BY <1>2, <1>3 DEF Start, record
  <2>3. /\ Cardinality(CurrentOnes) \in Nat /\ DOMAIN q = 1..Cardinality(CurrentOnes)
        /\ \E n \in DOMAIN q : q[n] = current[s]
    BY <1>1, <1>2, <2>2, OrderType
  <2>4. PICK n \in 1..Cardinality(CurrentOnes) : q[n] = i
    BY <2>2, <2>3
  <2>5. Request(i, tip).instance = i
    BY <1>1, RequestType DEF TypeOK
  <2>6. Len(requests') = Cardinality(CurrentOnes) /\ requests'[n].instance = i
    BY <2>1, <2>3, <2>4, <2>5
  <2>7. Requested(i)'
    BY <2>4, <2>6 DEF Requested
  <2>8. QED
    BY <2>7 DEF Followed
<1>4. CASE Stop \/ PassQuarantined
  BY <1>4, RestType DEF Stop, PassQuarantined, Gone, Up
<1>5. ASSUME NEW t \in Slot, NEW j \in Instance \cup {None}, Change(t, j)
      PROVE  /\ mon'.workers[s] = i => Followed(i)'
             /\ mon'.notice
  <2>1. /\ mon'.notice /\ mon'.workers = mon.workers /\ Up
        /\ j # current[t] /\ (j # None => SlotOf[j] = t) /\ j \notin retired
        /\ current' = [current EXCEPT ![t] = j] /\ conflict' = conflict
    BY <1>1, <1>5 DEF Change, TypeOK, MonitorState
  <2>2. CASE s = t
    <3>1. i = j
      BY <1>1, <1>2, <2>1, <2>2
    <3>2. mon.workers[s] # i
      BY <1>1, <1>2, <2>1, <2>2, <3>1 DEF Past
    <3>3. QED
      BY <2>1, <3>2
  <2>3. CASE s # t
    <3>1. Alive(i)
      BY <1>1, <1>2, <2>1, <2>3 DEF Alive
    <3>2. mon.workers[s] = i => Followed(i)
      BY <1>1, <2>1, <3>1 DEF Following
    <3>3. QED
      BY <1>5, <2>1, <3>2, FollowedWorld
  <2>4. QED
    BY <2>2, <2>3
<1>6. CASE MonitorReads
  <2>1. /\ Alive(i) /\ Up
        /\ mon'.workers[s] = IF mon.workers[s] = current[s] THEN current[s] ELSE None
        /\ mon.workers[s] # current[s] => i \in mon'.adds
    <3>1. UNCHANGED <<current, conflict>> /\ Up
      BY <1>6 DEF MonitorReads, record
    <3>2. /\ mon'.workers = [t \in Slot |-> IF mon.workers[t] = current[t] THEN current[t] ELSE None]
          /\ mon'.adds = {current[t] : t \in {u \in Slot : mon.workers[u] # current[u]}} \ {None}
      BY <1>6 DEF MonitorReads
    <3>3. current[s] = i /\ s \in Slot
      BY <1>1, <1>2, <3>1
    <3>4. Alive(i)
      BY <1>2, <3>1, <3>3 DEF Alive
    <3>5. QED
      BY <1>2, <3>1, <3>2, <3>3, <3>4
  <2>2. mon.workers[s] = i => Followed(i)'
    BY <1>1, <1>6, <2>1, FollowedWorld DEF Following
  <2>3. QED
    BY <1>2, <2>1, <2>2 DEF Alive
<1>7. ASSUME NEW j \in Instance, MonitorAdds(j)
      PROVE  /\ mon'.workers[s] = i => Followed(i)'
             /\ mon'.notice \/ i \in mon'.adds \/ Followed(i)'
  <2>1. /\ Up /\ UNCHANGED <<current, conflict>>
        /\ mon'.notice = mon.notice /\ mon'.adds = mon.adds \ {j}
        /\ mon'.workers = [mon.workers EXCEPT ![SlotOf[j]] = j]
        /\ requests' = Append(requests, Request(j, tip))
    BY <1>1, <1>7 DEF MonitorAdds, record, MonitorState
  <2>2. Alive(i)
    BY <1>2, <2>1 DEF Alive
  <2>3. CASE i = j
    <3>1. /\ Request(j, tip) \in Wanted /\ Request(j, tip).instance = j
          /\ requests \in Seq(Wanted)
      BY <1>1, RequestType DEF TypeOK
    <3>2. /\ Len(requests') = Len(requests) + 1 /\ Len(requests) \in Nat
          /\ requests'[Len(requests) + 1] = Request(j, tip)
      BY <2>1, <3>1, AppendProperties, LenProperties
    <3>3. Requested(i)'
      BY <2>3, <3>1, <3>2 DEF Requested
    <3>4. QED
      BY <3>3 DEF Followed
  <2>4. CASE i # j
    <3>1. Followed(i) => Followed(i)'
      BY <1>7, FollowedWorld
    <3>2. mon'.workers[s] = i => mon.workers[s] = i
      BY <1>1, <2>1, <2>4
    <3>3. QED
      BY <1>1, <2>1, <2>2, <2>4, <3>1, <3>2 DEF Following
  <2>5. QED
    BY <2>3, <2>4
<1>8. ASSUME Up, Alive(i), UNCHANGED mon, Followed(i) => Followed(i)'
      PROVE  /\ mon'.workers[s] = i => Followed(i)'
             /\ mon'.notice \/ i \in mon'.adds \/ Followed(i)'
  BY <1>1, <1>8 DEF Following
<1>9. CASE Move \/ Publish \/ \E j \in Instance : Conflict(j)
  <2>1. UNCHANGED <<current, mon, driver>> /\ conflict \subseteq conflict'
    BY <1>9 DEF Move, Publish, Conflict, record
  <2>2. Up /\ Alive(i)
    BY <1>2, <2>1 DEF Up, Alive
  <2>3. Followed(i) => Followed(i)'
    BY <1>9, FollowedWorld
  <2>4. QED
    BY <1>8, <2>1, <2>2, <2>3
<1>10. CASE Take
  <2>1. UNCHANGED <<current, conflict, mon>> /\ Up
    BY <1>10 DEF Take, TakePending, TakeRequest, TakeRetry, TakeTip, Waiting, record, Up
  <2>2. Alive(i)
    BY <1>2, <2>1 DEF Alive
  <2>3. QED
    BY <1>8, <1>10, <2>1, <2>2, FollowedTake
<1>11. CASE \/ Accept \/ Discard \/ PassSuperseded \/ Recheck \/ ReadTip \/ PassDeferred
            \/ ReadTipFails \/ \E t \in Tip : PassReaches(t)
  <2>1. UNCHANGED <<current, conflict, mon>> /\ Up
    BY <1>11 DEF Accept, Discard, PassSuperseded, Recheck, ReadTip, PassDeferred, ReadTipFails,
                 PassReaches, Driving, Up
  <2>2. Alive(i) /\ current[s] = i
    BY <1>2, <2>1 DEF Alive
  <2>3. Followed(i) => Followed(i)'
    BY <1>11, <2>2, FollowedWork
  <2>4. QED
    BY <1>8, <2>1, <2>2, <2>3
<1>12. CASE UNCHANGED vars
  <2>1. Up /\ Alive(i) /\ UNCHANGED mon
    BY <1>2, <1>12 DEF vars, record, Up, Alive
  <2>2. Followed(i) => Followed(i)'
    BY <1>12, Unchanged DEF vars, record, queues
  <2>3. QED
    BY <1>8, <2>1, <2>2
<1>13. QED
  BY <1>3, <1>4, <1>5, <1>6, <1>7, <1>9, <1>10, <1>11, <1>12 DEF Next, Work

LEMMA CarryInit == Init => CarryInv
<1> SUFFICES ASSUME Init PROVE CarryInv
  OBVIOUS
<1>1. Past
  BY DEF Init, Past, Nothing
<1>2. Following
  BY RestType DEF Init, Following, Up
<1>3. QED
  BY <1>1, <1>2, QueueInit DEF CarryInv

LEMMA CarriedOnes == CarryInv => WorkIsCarried
<1> SUFFICES ASSUME CarryInv, Up, NEW s \in Slot, current[s] # None, current[s] \notin conflict,
                    reached[current[s]] # tip
             PROVE  Carried(current[s])
  BY DEF WorkIsCarried
<1> DEFINE i == current[s]
<1>1. i \in Instance /\ SlotOf[i] = s
  BY DEF CarryInv, QueueInv, TypeOK
<1>2. mon.notice \/ i \in mon.adds \/ Followed(i)
  BY <1>1 DEF CarryInv, Following, Alive
<1>3. QED
  BY <1>2 DEF Carried, Followed, Requested, Queueing, Activated

\* As long as no instance becomes current twice, a current instance that is
\* behind the tip is always carried by a queue, a delay, the monitor or a tip
\* change: backfill_sidechains and monitor_sidechains lose no history work.
THEOREM NoWorkLost == ASSUME ~MayReturn PROVE Spec => []WorkIsCarried
<1>1. CarryInv /\ [Next]_vars => CarryInv'
  <2> SUFFICES ASSUME CarryInv, [Next]_vars PROVE CarryInv'
    OBVIOUS
  <2>1. TypeOK' /\ chan'.tip <= tip'
    BY TypeStep, ChanStep DEF CarryInv, QueueInv
  <2>2. OwnSlots' /\ AtWork' /\ DeferredIsScheduled'
    BY WorldInv, TakeInv, WorkInv DEF Next, Work, CarryInv
  <2>3. QED
    BY <2>1, <2>2, PastStep, FollowingStep DEF CarryInv, QueueInv
<1>2. QED
  BY CarryInit, <1>1, CarriedOnes, PTL DEF Spec
=============================================================================

--------------------------- MODULE BmmFeesProofs ---------------------------
(***************************************************************************)
(* Proofs about BmmFees, for any number of blocks, slots and processes.     *)
(***************************************************************************)
EXTENDS BmmFees, TLAPS, FiniteSetTheorems, SequenceTheorems

\* A block is recorded once.
Distinct == \A m, n \in 1..Len(blocks) : blocks[m] = blocks[n] => m = n

\* The jobs are those of the first blocks.
Prefix == \E k \in 0..Len(blocks) : Jobs = 1..k

\* A worker has a block in its hands only during an attempt, and the blocks
\* before it have their jobs.
InPlace ==
    \A p \in Process :
        /\ worker[p].pc \in {"look", "fetch", "record"} =>
              worker[p].n \in 1..Len(blocks) /\ 1..(worker[p].n - 1) \subseteq Jobs
        /\ worker[p].pc \in {"off", "rest"} => worker[p].n = 0

InHand(n) == {p \in Process : worker[p].n = n}

\* A worker that has picked a block will count one attempt more, also when the
\* limit is reached meanwhile.
Budget ==
    \A n \in Block :
        /\ job[n].status = "none" => job[n].attempts = 0
        /\ job[n].status = "pending" => job[n].attempts <= FeeTries
        /\ job[n].attempts + Cardinality(InHand(n)) <= FeeTries + MaxFaults + 1

FeeInv == TypeOK /\ Distinct /\ Prefix /\ InPlace /\ Budget

LEMMA Constants ==
    /\ MaxBlocks \in Nat /\ MaxFaults \in Nat
    /\ FeeTries \in Nat /\ FeeTries >= 1 /\ SampleTries \in Nat /\ SampleTries >= 1
BY FeeAssumption DEF FeeAssumption

LEMMA ProcessSize == IsFiniteSet(Process) /\ Cardinality(Process) = MaxFaults + 1
BY Constants, FS_Interval DEF Process

LEMMA HandSize ==
  ASSUME NEW n
  PROVE  /\ IsFiniteSet(InHand(n)) /\ Cardinality(InHand(n)) \in Nat
         /\ Cardinality(InHand(n)) <= MaxFaults + 1
<1>1. InHand(n) \subseteq Process
  BY DEF InHand
<1>2. QED
  BY <1>1, ProcessSize, FS_Subset, FS_CardinalityType

LEMMA WorkerFields ==
  ASSUME NEW w \in WorkerState
  PROVE  /\ w.pc \in {"off", "rest", "look", "fetch", "record"} /\ w.open \in BOOLEAN
         /\ w.n \in 0..MaxBlocks /\ w.candidates \subseteq Slot
BY DEF WorkerState

LEMMA OffType == Off \in WorkerState /\ Off.pc = "off" /\ Off.n = 0
BY Constants DEF Off, WorkerState

LEMMA FeeInit == Init => FeeInv
<1> SUFFICES ASSUME Init PROVE FeeInv
  OBVIOUS
<1>1. TypeOK
  <2>1. sampler \in SamplerState
    BY Constants DEF Init, Resting, SamplerState
  <2>2. job \in [Block -> JobState]
    BY Constants DEF Init, NoJob, JobState
  <2>3. worker \in [Process -> WorkerState]
    BY OffType DEF Init
  <2>4. blocks \in Seq(Block) /\ Len(blocks) <= MaxBlocks
    BY Constants DEF Init
  <2>5. tip \in 0..MaxBlocks /\ starts \in 0..MaxFaults + 1
    <3>1. tip = 0 /\ starts = 0
      BY DEF Init
    <3>2. QED
      BY <3>1, Constants
  <2>6. ready \in BOOLEAN /\ samples = {} /\ facts = {} /\ conflicts = {} /\ current = {} /\ fees = {}
    BY Zenon DEF Init
  <2>7. QED
    BY <2>1, <2>2, <2>3, <2>4, <2>5, <2>6 DEF TypeOK
<1>2. Len(blocks) = 0
  BY DEF Init
<1>3. Jobs = {}
  BY DEF Init, Jobs, NoJob
<1>4. \A p \in Process : worker[p] = Off
  BY DEF Init
<1>5. Distinct
  BY <1>2 DEF Distinct
<1>6. Prefix
  BY <1>2, <1>3 DEF Prefix
<1>7. InPlace
  BY <1>4, OffType DEF InPlace
<1>8. Budget
  <2>1. \A n \in Block : job[n].attempts = 0
    BY DEF Init, NoJob
  <2>2. QED
    BY <2>1, HandSize, Constants DEF Budget
<1>9. QED
  BY <1>1, <1>5, <1>6, <1>7, <1>8 DEF FeeInv
-----------------------------------------------------------------------------
(* The other workers.                                                      *)

LEMMA SamplerFields ==
  ASSUME NEW x \in SamplerState
  PROVE  /\ x.pc \in {"rest", "requests", "record"} /\ x.before \in 0..MaxBlocks
         /\ x.try \in 1..SampleTries /\ x.seen \subseteq Slot
BY DEF SamplerState

LEMMA SamplerMatched ==
  ASSUME NEW x \in SamplerState, NEW seen \in SUBSET Slot
  PROVE  [x EXCEPT !.pc = "record", !.try = 1, !.seen = seen] \in SamplerState
<1>1. 1 \in 1..SampleTries
  BY Constants
<1>2. QED
  BY <1>1 DEF SamplerState

LEMMA SampleType ==
  ASSUME TypeOK, Sample
  PROVE  /\ sampler' \in SamplerState /\ samples' \subseteq Slot \X (1..MaxBlocks + 1)
         /\ ready' \in BOOLEAN
         /\ UNCHANGED <<tip, facts, conflicts, current, blocks, job, fees, worker, starts>>
<1>1. /\ sampler \in SamplerState /\ tip \in 0..MaxBlocks /\ ready \in BOOLEAN
      /\ samples \subseteq Slot \X (1..MaxBlocks + 1)
  BY DEF TypeOK
<1>2. Resting \in SamplerState
  BY Constants DEF Resting, SamplerState
<1>3. CASE SampleBefore
  <2>1. sampler' \in SamplerState
    BY <1>1, <1>3 DEF SampleBefore, Sampling, SamplerState
  <2>2. QED
    BY <1>1, <1>3, <2>1 DEF SampleBefore, Sampling
<1>4. ASSUME NEW seen \in SUBSET Slot, SampleMatches(seen)
      PROVE  /\ sampler' \in SamplerState
             /\ UNCHANGED <<samples, ready, tip, facts, conflicts, current, blocks, job, fees, worker, starts>>
  <2>1. (IF ready THEN seen ELSE {}) \in SUBSET Slot
    OBVIOUS
  <2>2. sampler' \in SamplerState
    <3> DEFINE kept == IF ready THEN seen ELSE {}
    <3>1. sampler' = [sampler EXCEPT !.pc = "record", !.try = 1, !.seen = kept]
      BY <1>4 DEF SampleMatches, Sampling
    <3>2. kept \in SUBSET Slot
      BY <2>1
    <3> HIDE DEF kept
    <3>3. QED
      BY <1>1, <3>1, <3>2, SamplerMatched
  <2>3. QED
    BY <1>4, <2>2 DEF SampleMatches, Sampling
<1>5. CASE SampleMoved
  <2>1. sampler.try < SampleTries => sampler.try + 1 \in 1..SampleTries
    BY <1>1, SamplerFields, Constants
  <2>2. sampler' \in SamplerState
    <3>1. CASE sampler.try < SampleTries
      BY <1>2, <1>5, <2>1, <3>1 DEF SampleMoved, Sampling, SamplerState
    <3>2. CASE ~(sampler.try < SampleTries)
      BY <1>2, <1>5, <3>2 DEF SampleMoved, Sampling
    <3>3. QED
      BY <3>1, <3>2
  <2>3. QED
    BY <1>1, <1>5, <2>2 DEF SampleMoved, Sampling
<1>6. CASE SampleFails
  BY <1>1, <1>2, <1>6 DEF SampleFails, Sampling
<1>7. CASE RecordSample
  <2>1. sampler.before + 1 \in 1..MaxBlocks + 1 /\ sampler.seen \subseteq Slot
    BY <1>1, SamplerFields, Constants
  <2>2. QED
    BY <1>1, <1>2, <1>7, <2>1 DEF RecordSample, Sampling
<1>8. CASE GraceEnds
  BY <1>1, <1>8 DEF GraceEnds
<1>9. QED
  BY <1>1, <1>3, <1>4, <1>5, <1>6, <1>7, <1>8 DEF Sample

\* Jobs and workers are untouched, and the recorded blocks only grow.
LEMMA Untouched ==
  ASSUME FeeInv, UNCHANGED <<job, worker>>,
         Len(blocks) \in Nat, Len(blocks') \in Nat, Len(blocks) <= Len(blocks')
  PROVE  Prefix' /\ InPlace' /\ Budget'
<1>1. Jobs' = Jobs
  BY DEF Jobs
<1>2. \A n \in Block : InHand(n)' = InHand(n)
  BY DEF InHand
<1>3. 1..Len(blocks) \subseteq 1..Len(blocks') /\ 0..Len(blocks) \subseteq 0..Len(blocks')
  OBVIOUS
<1>4. Prefix'
  BY <1>1, <1>3 DEF FeeInv, Prefix
<1>5. InPlace'
  BY <1>1, <1>3 DEF FeeInv, InPlace
<1>6. Budget'
  BY <1>2 DEF FeeInv, Budget
<1>7. QED
  BY <1>4, <1>5, <1>6

LEMMA RecordBlockStep ==
  ASSUME FeeInv, NEW b \in Block, RecordBlock(b)
  PROVE  FeeInv'
<1>1. TypeOK /\ Distinct /\ blocks \in Seq(Block) /\ Len(blocks) \in Nat
  BY LenProperties DEF FeeInv, TypeOK
<1>2. /\ blocks' = Append(blocks, b) /\ \A n \in 1..Len(blocks) : blocks[n] # b
      /\ UNCHANGED <<tip, sampler, ready, samples, facts, conflicts, current, job, fees, worker, starts>>
  BY <1>1 DEF RecordBlock
<1>3. /\ blocks' \in Seq(Block) /\ Len(blocks') = Len(blocks) + 1
      /\ \A n \in 1..Len(blocks) : blocks'[n] = blocks[n]
      /\ blocks'[Len(blocks) + 1] = b
  BY <1>1, <1>2, AppendProperties
<1>4. Distinct'
  BY <1>1, <1>2, <1>3 DEF Distinct
<1>5. Len(blocks') <= MaxBlocks
  <2> DEFINE N == Len(blocks')
  <2>1. N \in Nat /\ blocks' \in [1..N -> Block]
    BY <1>1, <1>3, LenProperties
  <2>2. blocks' \in Injection(1..N, Block)
    BY <1>4, <2>1 DEF Distinct, Injection, IsInjective
  <2>3. /\ IsFiniteSet(Block) /\ Cardinality(Block) = MaxBlocks /\ Cardinality(1..N) = N
    <3>1. N \in Nat
      BY <2>1
    <3> HIDE DEF N
    <3>2. Cardinality(1..N) = N
      BY <3>1, FS_Interval
    <3>3. IsFiniteSet(1..MaxBlocks) /\ Cardinality(1..MaxBlocks) = MaxBlocks
      BY Constants, FS_Interval
    <3>4. QED
      BY <3>2, <3>3 DEF Block
  <2>4. Cardinality(1..N) <= Cardinality(Block)
    BY <2>2, <2>3, FS_Injection
  <2>5. QED
    BY <2>3, <2>4
<1>6. TypeOK'
  BY <1>1, <1>2, <1>3, <1>5 DEF TypeOK
<1>7. Prefix' /\ InPlace' /\ Budget'
  BY <1>1, <1>2, <1>3, Untouched
<1>8. QED
  BY <1>4, <1>6, <1>7 DEF FeeInv

LEMMA EvidenceStep ==
  ASSUME FeeInv,
         \/ Mine \/ Sample
         \/ \E s \in Slot, b \in Block : RecordFact(s, b) \/ RecordConflict(s, b)
         \/ \E s \in Slot : Register(s)
         \/ \E b \in Block : RecordBlock(b)
         \/ UNCHANGED vars
  PROVE  FeeInv'
<1>1. TypeOK /\ Distinct /\ Len(blocks) \in Nat
  BY LenProperties DEF FeeInv, TypeOK
<1>2. ASSUME NEW b \in Block, RecordBlock(b) PROVE FeeInv'
  BY <1>2, RecordBlockStep
<1>3. ASSUME TypeOK', UNCHANGED <<blocks, job, worker>> PROVE FeeInv'
  <2>1. Distinct'
    BY <1>1, <1>3 DEF Distinct
  <2>2. Prefix' /\ InPlace' /\ Budget'
    BY <1>1, <1>3, Untouched
  <2>3. QED
    BY <1>3, <2>1, <2>2 DEF FeeInv
<1>4. CASE Mine
  <2>1. tip' \in 0..MaxBlocks
    BY <1>1, <1>4, Constants DEF Mine, TypeOK
  <2>2. QED
    BY <1>1, <1>3, <1>4, <2>1 DEF Mine, TypeOK
<1>5. CASE Sample
  BY <1>1, <1>3, <1>5, SampleType DEF TypeOK
<1>6. ASSUME NEW s \in Slot, NEW b \in Block, RecordFact(s, b) PROVE FeeInv'
  BY <1>1, <1>3, <1>6 DEF RecordFact, TypeOK, Pair
<1>10. ASSUME NEW s \in Slot, NEW b \in Block, RecordConflict(s, b) PROVE FeeInv'
  BY <1>1, <1>3, <1>10 DEF RecordConflict, TypeOK, Pair
<1>7. ASSUME NEW s \in Slot, Register(s) PROVE FeeInv'
  BY <1>1, <1>3, <1>7 DEF Register, TypeOK
<1>8. CASE UNCHANGED vars
  BY <1>1, <1>3, <1>8 DEF vars, evidence, TypeOK
<1>9. QED
  BY <1>2, <1>4, <1>5, <1>6, <1>7, <1>8, <1>10
-----------------------------------------------------------------------------
(* The fee worker.                                                         *)

\* What a step that writes no job has to show of the workers.
LEMMA HandsOnly ==
  ASSUME FeeInv, TypeOK', InPlace', UNCHANGED <<blocks, job>>,
         \A n \in Block : InHand(n)' \subseteq InHand(n)
  PROVE  FeeInv'
<1>1. Jobs' = Jobs
  BY DEF Jobs
<1>2. Distinct' /\ Prefix'
  BY <1>1 DEF FeeInv, Distinct, Prefix
<1>3. Budget'
  <2> SUFFICES ASSUME NEW n \in Block
               PROVE  /\ (job[n].status = "none" => job[n].attempts = 0)'
                      /\ (job[n].status = "pending" => job[n].attempts <= FeeTries)'
                      /\ (job[n].attempts + Cardinality(InHand(n)) <= FeeTries + MaxFaults + 1)'
    BY DEF Budget
  <2>1. IsFiniteSet(InHand(n)) /\ Cardinality(InHand(n)) \in Nat
    BY HandSize
  <2>2. /\ Cardinality(InHand(n)') \in Nat
        /\ Cardinality(InHand(n)') <= Cardinality(InHand(n))
    BY <2>1, FS_Subset, FS_CardinalityType
  <2>3. job[n].attempts \in Nat
    BY Constants DEF FeeInv, TypeOK, JobState
  <2>4. /\ job[n].status = "none" => job[n].attempts = 0
        /\ job[n].status = "pending" => job[n].attempts <= FeeTries
        /\ job[n].attempts + Cardinality(InHand(n)) <= FeeTries + MaxFaults + 1
    BY DEF FeeInv, Budget
  <2>5. job'[n] = job[n]
    OBVIOUS
  <2>6. QED
    BY <2>1, <2>2, <2>3, <2>4, <2>5, Constants
<1>4. QED
  BY <1>2, <1>3 DEF FeeInv

LEMMA StartStep ==
  ASSUME FeeInv, NEW p \in Process, Start(p)
  PROVE  FeeInv'
<1>1. TypeOK /\ InPlace /\ worker \in [Process -> WorkerState]
  BY DEF FeeInv, TypeOK
<1>2. /\ worker[p].pc = "off" /\ p = starts + 1 /\ starts' = p
      /\ worker' = [q \in Process |-> IF q = p THEN [Off EXCEPT !.pc = "rest", !.open = TRUE]
                                      ELSE [worker[q] EXCEPT !.open = FALSE]]
      /\ UNCHANGED <<tip, sampler, ready, samples, facts, conflicts, current, blocks, job, fees>>
  BY DEF Start, evidence
<1>3. \A q \in Process :
          /\ worker'[q] \in WorkerState /\ worker'[q].n = worker[q].n
          /\ q # p => worker'[q].pc = worker[q].pc
          /\ q = p => worker'[q].pc = "rest"
  <2> SUFFICES ASSUME NEW q \in Process
               PROVE  /\ worker'[q] \in WorkerState /\ worker'[q].n = worker[q].n
                      /\ q # p => worker'[q].pc = worker[q].pc
                      /\ q = p => worker'[q].pc = "rest"
    OBVIOUS
  <2>1. CASE q = p
    <3>1. worker[p].n = 0
      BY <1>1, <1>2 DEF InPlace
    <3>2. worker'[q] = [Off EXCEPT !.pc = "rest", !.open = TRUE]
      BY <1>2, <2>1
    <3>3. worker'[q] = [pc |-> "rest", open |-> TRUE, n |-> 0, candidates |-> {}]
      BY <3>2 DEF Off
    <3>4. 0 \in 0..MaxBlocks
      BY Constants
    <3>5. QED
      BY <2>1, <3>1, <3>3, <3>4 DEF WorkerState
  <2>2. CASE q # p
    <3>1. worker'[q] = [worker[q] EXCEPT !.open = FALSE] /\ worker[q] \in WorkerState
      BY <1>1, <1>2, <2>2
    <3>2. QED
      BY <2>2, <3>1 DEF WorkerState
  <2>3. QED
    BY <2>1, <2>2
<1>4. worker' \in [Process -> WorkerState]
  BY <1>2, <1>3
<1>5. starts' \in 0..MaxFaults + 1
  BY <1>2, Constants DEF Process
<1>6. TypeOK'
  BY <1>1, <1>2, <1>4, <1>5 DEF TypeOK
<1>7. Jobs' = Jobs
  BY <1>2 DEF Jobs
<1>8. InPlace'
  <2>1. worker[p].n = 0
    BY <1>1, <1>2 DEF InPlace
  <2>2. QED
    BY <1>1, <1>2, <1>3, <1>7, <2>1 DEF InPlace
<1>9. \A n \in Block : InHand(n)' \subseteq InHand(n)
  BY <1>3 DEF InHand
<1>10. QED
  BY <1>2, <1>6, <1>8, <1>9, HandsOnly

\* A worker that puts down what it had.
LEMMA LetGo ==
  ASSUME FeeInv, NEW p \in Process, NEW w \in WorkerState, w.n = 0, w.pc \in {"off", "rest"},
         worker' = [worker EXCEPT ![p] = w]
  PROVE  /\ worker' \in [Process -> WorkerState]
         /\ \A q \in Process : q # p => worker'[q] = worker[q]
         /\ worker'[p] = w
         /\ \A n \in Block : InHand(n)' = InHand(n) \ {p}
<1>1. worker \in [Process -> WorkerState]
  BY DEF FeeInv, TypeOK
<1>2. \A q \in Process : q # p => worker'[q] = worker[q]
  BY <1>1
<1>3. worker'[p] = w /\ worker' \in [Process -> WorkerState]
  BY <1>1
<1>4. \A n \in Block : n # 0
  BY Constants DEF Block
<1>5. \A n \in Block : InHand(n)' = InHand(n) \ {p}
  BY <1>2, <1>3, <1>4 DEF InHand
<1>6. QED
  BY <1>2, <1>3, <1>5

LEMMA StopStep ==
  ASSUME FeeInv, NEW p \in Process, Stop(p)
  PROVE  FeeInv'
<1>1. TypeOK /\ InPlace
  BY DEF FeeInv
<1>2. /\ worker' = [worker EXCEPT ![p] = Off]
      /\ UNCHANGED <<tip, sampler, ready, samples, facts, conflicts, current, blocks, job, fees, starts>>
  BY DEF Stop, evidence
<1>3. /\ worker' \in [Process -> WorkerState] /\ worker'[p] = Off
      /\ \A q \in Process : q # p => worker'[q] = worker[q]
      /\ \A n \in Block : InHand(n)' = InHand(n) \ {p}
  BY <1>2, OffType, LetGo
<1>4. TypeOK'
  BY <1>1, <1>2, <1>3 DEF TypeOK
<1>5. Jobs' = Jobs
  BY <1>2 DEF Jobs
<1>6. InPlace'
  BY <1>1, <1>2, <1>3, <1>5, OffType DEF InPlace
<1>7. QED
  BY <1>2, <1>3, <1>4, <1>6, HandsOnly

LEMMA LookStep ==
  ASSUME FeeInv, NEW p \in Process, Look(p)
  PROVE  FeeInv'
<1>1. TypeOK /\ InPlace /\ worker \in [Process -> WorkerState]
  BY DEF FeeInv, TypeOK
<1> DEFINE found == Candidates(blocks[worker[p].n])
<1>2. /\ worker[p].pc = "look"
      /\ worker' = [worker EXCEPT ![p] = [worker[p] EXCEPT !.pc = "fetch", !.candidates = found]]
      /\ UNCHANGED <<tip, sampler, ready, samples, facts, conflicts, current, blocks, job, fees, starts>>
  BY DEF Look, Working, evidence
<1>3. found \subseteq Slot
  BY DEF Candidates
<1> HIDE DEF found
<1>4. /\ worker'[p] \in WorkerState /\ worker'[p].n = worker[p].n
      /\ worker'[p].pc = "fetch"
  <2>1. worker'[p] = [worker[p] EXCEPT !.pc = "fetch", !.candidates = found]
        /\ worker[p] \in WorkerState
    BY <1>1, <1>2
  <2>2. QED
    BY <1>3, <2>1 DEF WorkerState
<1>5. /\ worker' \in [Process -> WorkerState]
      /\ \A q \in Process : q # p => worker'[q] = worker[q]
  BY <1>1, <1>2, <1>4
<1>6. TypeOK'
  BY <1>1, <1>2, <1>5 DEF TypeOK
<1>7. Jobs' = Jobs
  BY <1>2 DEF Jobs
<1>8. InPlace'
  <2> SUFFICES ASSUME NEW q \in Process
               PROVE  /\ worker'[q].pc \in {"look", "fetch", "record"} =>
                             worker'[q].n \in 1..Len(blocks) /\ 1..(worker'[q].n - 1) \subseteq Jobs
                      /\ worker'[q].pc \in {"off", "rest"} => worker'[q].n = 0
    BY <1>2, <1>7 DEF InPlace
  <2>1. CASE q = p
    BY <1>1, <1>2, <1>4, <2>1 DEF InPlace
  <2>2. CASE q # p
    BY <1>1, <1>5, <2>2 DEF InPlace
  <2>3. QED
    BY <2>1, <2>2
<1>9. \A n \in Block : InHand(n)' \subseteq InHand(n)
  BY <1>4, <1>5 DEF InHand
<1>10. QED
  BY <1>2, <1>6, <1>8, <1>9, HandsOnly

LEMMA ConfirmStep ==
  ASSUME FeeInv, NEW p \in Process, Confirm(p)
  PROVE  FeeInv'
<1>1. TypeOK /\ InPlace /\ worker \in [Process -> WorkerState]
  BY DEF FeeInv, TypeOK
<1>2. /\ worker[p].pc = "fetch"
      /\ worker' = [worker EXCEPT ![p] = [worker[p] EXCEPT !.pc = "record"]]
      /\ UNCHANGED <<tip, sampler, ready, samples, facts, conflicts, current, blocks, job, fees, starts>>
  BY DEF Confirm, Working, evidence
<1>3. /\ worker'[p] \in WorkerState /\ worker'[p].n = worker[p].n
      /\ worker'[p].pc = "record"
  <2>1. worker'[p] = [worker[p] EXCEPT !.pc = "record"] /\ worker[p] \in WorkerState
    BY <1>1, <1>2
  <2>2. QED
    BY <2>1 DEF WorkerState
<1>4. /\ worker' \in [Process -> WorkerState]
      /\ \A q \in Process : q # p => worker'[q] = worker[q]
  BY <1>1, <1>2, <1>3
<1>5. TypeOK'
  BY <1>1, <1>2, <1>4 DEF TypeOK
<1>6. Jobs' = Jobs
  BY <1>2 DEF Jobs
<1>7. InPlace'
  <2> SUFFICES ASSUME NEW q \in Process
               PROVE  /\ worker'[q].pc \in {"look", "fetch", "record"} =>
                             worker'[q].n \in 1..Len(blocks) /\ 1..(worker'[q].n - 1) \subseteq Jobs
                      /\ worker'[q].pc \in {"off", "rest"} => worker'[q].n = 0
    BY <1>2, <1>6 DEF InPlace
  <2>1. CASE q = p
    BY <1>1, <1>2, <1>3, <2>1 DEF InPlace
  <2>2. CASE q # p
    BY <1>1, <1>4, <2>2 DEF InPlace
  <2>3. QED
    BY <2>1, <2>2
<1>8. \A n \in Block : InHand(n)' \subseteq InHand(n)
  BY <1>3, <1>4 DEF InHand
<1>9. QED
  BY <1>2, <1>5, <1>7, <1>8, HandsOnly

LEMMA PickStep ==
  ASSUME FeeInv, NEW p \in Process, NEW n \in Block, Pick(p, n)
  PROVE  FeeInv'
<1>1. /\ TypeOK /\ InPlace /\ Distinct /\ Prefix /\ Budget /\ worker \in [Process -> WorkerState]
      /\ job \in [Block -> JobState] /\ Len(blocks) \in Nat
  BY LenProperties DEF FeeInv, TypeOK
<1>2. /\ n \in NextFeeBlock /\ worker[p].pc = "rest"
      /\ worker' = [worker EXCEPT ![p] = [worker[p] EXCEPT !.pc = "look", !.n = n]]
      /\ UNCHANGED <<tip, sampler, ready, samples, facts, conflicts, current, blocks, job, fees, starts>>
  BY DEF Pick, Working, evidence
<1>3. /\ worker'[p] \in WorkerState /\ worker'[p].n = n /\ worker'[p].pc = "look"
  <2>1. worker'[p] = [worker[p] EXCEPT !.pc = "look", !.n = n] /\ worker[p] \in WorkerState
    BY <1>1, <1>2
  <2>2. n \in 0..MaxBlocks
    BY Constants DEF Block
  <2>3. QED
    BY <2>1, <2>2 DEF WorkerState
<1>4. /\ worker' \in [Process -> WorkerState]
      /\ \A q \in Process : q # p => worker'[q] = worker[q]
  BY <1>1, <1>2, <1>3
<1>5. TypeOK'
  BY <1>1, <1>2, <1>4 DEF TypeOK
<1>6. Jobs' = Jobs
  BY <1>2 DEF Jobs
<1>7. PICK k \in 0..Len(blocks) : Jobs = 1..k
  BY <1>1 DEF Prefix
<1>8. /\ n \in 1..Len(blocks) /\ 1..(n - 1) \subseteq Jobs
      /\ job[n].status \in {"none", "pending"}
  <2>1. CASE NewBlocks # {}
    <3>1. NewBlocks = (k + 1)..Len(blocks)
      BY <1>1, <1>7 DEF NewBlocks
    <3>2. k + 1 \in NewBlocks /\ \A m \in NewBlocks : k + 1 <= m
      BY <1>1, <1>7, <2>1, <3>1
    <3>3. n = CHOOSE i \in NewBlocks : \A m \in NewBlocks : i <= m
      BY <1>2, <2>1 DEF NextFeeBlock
    <3>4. n \in NewBlocks /\ \A m \in NewBlocks : n <= m
      BY <3>2, <3>3
    <3>5. n = k + 1
      BY <1>1, <1>7, <3>1, <3>2, <3>4
    <3>6. n \notin Jobs
      BY <1>7, <3>5
    <3>7. QED
      BY <1>1, <1>7, <3>1, <3>4, <3>5, <3>6 DEF Jobs
  <2>2. CASE NewBlocks = {}
    <3>1. n \in Jobs /\ job[n].status = "pending"
      BY <1>2, <2>2 DEF NextFeeBlock
    <3>2. QED
      BY <1>1, <1>7, <3>1
  <2>3. QED
    BY <2>1, <2>2
<1>9. InPlace'
  <2> SUFFICES ASSUME NEW q \in Process
               PROVE  /\ worker'[q].pc \in {"look", "fetch", "record"} =>
                             worker'[q].n \in 1..Len(blocks) /\ 1..(worker'[q].n - 1) \subseteq Jobs
                      /\ worker'[q].pc \in {"off", "rest"} => worker'[q].n = 0
    BY <1>2, <1>6 DEF InPlace
  <2>1. CASE q = p
    BY <1>3, <1>8, <2>1
  <2>2. CASE q # p
    BY <1>1, <1>4, <2>2 DEF InPlace
  <2>3. QED
    BY <2>1, <2>2
<1>10. Budget'
  <2> SUFFICES ASSUME NEW m \in Block
               PROVE  job[m].attempts + Cardinality(InHand(m)') <= FeeTries + MaxFaults + 1
    BY <1>1, <1>2 DEF Budget
  <2>1. job[m].attempts \in Nat
    BY <1>1, Constants DEF JobState
  <2>2. CASE m = n
    <3>1. worker[p].n # n
      BY <1>1, <1>2, Constants DEF InPlace, Block
    <3>2. InHand(n)' = InHand(n) \cup {p} /\ p \notin InHand(n)
      BY <1>3, <1>4, <3>1 DEF InHand
    <3>3. InHand(n)' \subseteq Process
      BY DEF InHand
    <3>4. Cardinality(InHand(n)') \in Nat /\ Cardinality(InHand(n)') <= MaxFaults + 1
      BY <3>3, ProcessSize, FS_Subset, FS_CardinalityType
    <3>5. job[n].attempts <= FeeTries
      BY <1>1, <1>8, Constants DEF Budget
    <3>6. QED
      BY <2>1, <2>2, <3>4, <3>5, Constants
  <2>3. CASE m # n
    <3>1. InHand(m)' \subseteq InHand(m)
      BY <1>3, <1>4, <2>3 DEF InHand
    <3>2. /\ Cardinality(InHand(m)) \in Nat /\ Cardinality(InHand(m)') \in Nat
          /\ Cardinality(InHand(m)') <= Cardinality(InHand(m))
      BY <3>1, HandSize, FS_Subset, FS_CardinalityType
    <3>3. job[m].attempts + Cardinality(InHand(m)) <= FeeTries + MaxFaults + 1
      BY <1>1 DEF Budget
    <3>4. QED
      BY <2>1, <3>2, <3>3, Constants
  <2>4. QED
    BY <2>2, <2>3
<1>11. Distinct' /\ Prefix'
  BY <1>1, <1>2, <1>6 DEF Distinct, Prefix
<1>12. QED
  BY <1>5, <1>9, <1>10, <1>11 DEF FeeInv

\* The row after an attempt.
LEMMA ScheduledRow ==
  ASSUME NEW n \in Block, job[n] \in JobState, NEW d \in BOOLEAN,
         job[n].attempts <= FeeTries + MaxFaults,
         job[n].status = "none" => job[n].attempts = 0
  PROVE  /\ Scheduled(n, d) \in JobState
         /\ Scheduled(n, d).attempts = job[n].attempts + 1
         /\ Scheduled(n, d).status # "none"
         /\ Scheduled(n, d).status = "pending" => job[n].attempts + 1 <= FeeTries
<1>1. job[n].attempts \in Nat /\ job[n].attempts + 1 \in 0..FeeTries + MaxFaults + 1
  BY Constants DEF JobState
<1>2. /\ Scheduled(n, d).attempts = job[n].attempts + 1
      /\ Scheduled(n, d).status \in {"pending", "done", "abandoned"}
  BY DEF Scheduled
<1>3. Scheduled(n, d) \in JobState
  BY <1>1 DEF Scheduled, JobState
<1>4. ASSUME Scheduled(n, d).status = "pending" PROVE job[n].attempts + 1 <= FeeTries
  <2>1. ~(n \in Jobs /\ job[n].attempts + 1 >= FeeTries)
    BY <1>4 DEF Scheduled
  <2>2. CASE n \in Jobs
    BY <1>1, <2>1, <2>2, Constants
  <2>3. CASE n \notin Jobs
    BY <2>3, Constants DEF Jobs
  <2>4. QED
    BY <2>2, <2>3
<1>5. QED
  BY <1>2, <1>3, <1>4

\* An attempt ends: its job is counted once, and the worker lets it go.
LEMMA AttemptEnds ==
  ASSUME FeeInv, NEW p \in Process, worker[p].pc \in {"look", "fetch", "record"}, NEW d \in BOOLEAN,
         worker' = [worker EXCEPT ![p] = Rest(p)],
         job' = [job EXCEPT ![worker[p].n] = Scheduled(worker[p].n, d)],
         fees' \subseteq Pair,
         UNCHANGED <<tip, sampler, ready, samples, facts, conflicts, current, blocks, starts>>
  PROVE  FeeInv'
<1> DEFINE n == worker[p].n
           row == Scheduled(n, d)
<1>1. /\ TypeOK /\ InPlace /\ Distinct /\ Prefix /\ Budget /\ worker \in [Process -> WorkerState]
      /\ job \in [Block -> JobState] /\ Len(blocks) \in Nat /\ Len(blocks) <= MaxBlocks
  BY LenProperties DEF FeeInv, TypeOK
<1>2. n \in 1..Len(blocks) /\ 1..(n - 1) \subseteq Jobs /\ n \in Block
  <2>1. n \in 1..Len(blocks) /\ 1..(n - 1) \subseteq Jobs
    BY <1>1 DEF InPlace
  <2>2. n \in Block
    BY <1>1, <2>1, Constants DEF Block
  <2>3. QED
    BY <2>1, <2>2
<1>3. Rest(p) \in WorkerState /\ Rest(p).pc = "rest" /\ Rest(p).n = 0
  <2>1. worker[p] \in WorkerState /\ 0 \in 0..MaxBlocks
    BY <1>1, Constants
  <2>2. QED
    BY <2>1 DEF Rest, WorkerState
<1>4. /\ worker' \in [Process -> WorkerState] /\ worker'[p] = Rest(p)
      /\ \A q \in Process : q # p => worker'[q] = worker[q]
      /\ \A m \in Block : InHand(m)' = InHand(m) \ {p}
  BY <1>3, LetGo
<1>5. /\ IsFiniteSet(InHand(n)) /\ p \in InHand(n) /\ Cardinality(InHand(n)) \in Nat
      /\ Cardinality(InHand(n) \ {p}) = Cardinality(InHand(n)) - 1
      /\ Cardinality(InHand(n)) >= 1
  <2>1. p \in InHand(n)
    BY DEF InHand
  <2>2. IsFiniteSet(InHand(n)) /\ Cardinality(InHand(n)) \in Nat
    BY HandSize
  <2>3. Cardinality(InHand(n) \ {p}) = Cardinality(InHand(n)) - 1
    BY <2>1, <2>2, FS_RemoveElement
  <2>4. Cardinality(InHand(n) \ {p}) \in Nat
    BY <2>2, FS_Subset, FS_CardinalityType
  <2>5. QED
    BY <2>1, <2>2, <2>3, <2>4
<1>6. /\ job[n] \in JobState /\ job[n].attempts \in Nat
      /\ job[n].attempts + Cardinality(InHand(n)) <= FeeTries + MaxFaults + 1
      /\ job[n].status = "none" => job[n].attempts = 0
  <2>1. job[n] \in JobState
    BY <1>1, <1>2
  <2>2. job[n].attempts \in Nat
    BY <2>1, Constants DEF JobState
  <2>3. QED
    BY <1>1, <1>2, <2>1, <2>2 DEF Budget
<1>7. /\ row \in JobState /\ row.attempts = job[n].attempts + 1 /\ row.status # "none"
      /\ row.status = "pending" => job[n].attempts + 1 <= FeeTries
  <2>1. job[n].attempts <= FeeTries + MaxFaults
    BY <1>5, <1>6, Constants
  <2>2. QED
    BY <1>2, <1>6, <2>1, ScheduledRow
<1> HIDE DEF row, n
<1>8. /\ job' = [job EXCEPT ![n] = row] /\ job'[n] = row
      /\ \A m \in Block : m # n => job'[m] = job[m]
      /\ job' \in [Block -> JobState]
  <2>1. job' = [job EXCEPT ![n] = row]
    BY DEF n, row
  <2>2. QED
    BY <1>1, <1>2, <1>7, <2>1
<1>9. TypeOK'
  BY <1>1, <1>4, <1>8 DEF TypeOK
<1>10. Jobs' = Jobs \cup {n}
  BY <1>2, <1>7, <1>8 DEF Jobs
<1>11. Prefix'
  <2>1. PICK k \in 0..Len(blocks) : Jobs = 1..k
    BY <1>1 DEF Prefix
  <2>2. CASE n <= k
    <3>1. Jobs' = 1..k
      BY <1>1, <1>2, <1>10, <2>1, <2>2
    <3>2. QED
      BY <2>1, <3>1 DEF Prefix
  <2>3. CASE ~(n <= k)
    <3>1. n = k + 1
      <4>1. n - 1 \in 1..(n - 1) \/ n = 1
        BY <1>1, <1>2
      <4>2. n - 1 <= k
        BY <1>1, <1>2, <2>1, <4>1
      <4>3. QED
        BY <1>1, <1>2, <2>1, <2>3, <4>2
    <3>2. Jobs' = 1..(k + 1)
      BY <1>1, <1>10, <2>1, <3>1
    <3>3. k + 1 \in 0..Len(blocks)
      BY <1>1, <1>2, <2>1, <3>1
    <3>4. QED
      BY <3>2, <3>3 DEF Prefix
  <2>4. QED
    BY <2>2, <2>3
<1>12. InPlace'
  <2> SUFFICES ASSUME NEW q \in Process
               PROVE  /\ worker'[q].pc \in {"look", "fetch", "record"} =>
                             worker'[q].n \in 1..Len(blocks) /\ 1..(worker'[q].n - 1) \subseteq Jobs'
                      /\ worker'[q].pc \in {"off", "rest"} => worker'[q].n = 0
    BY DEF InPlace
  <2>1. CASE q = p
    BY <1>3, <1>4, <2>1
  <2>2. CASE q # p
    BY <1>1, <1>4, <1>10, <2>2 DEF InPlace
  <2>3. QED
    BY <2>1, <2>2
<1>13. Budget'
  <2> SUFFICES ASSUME NEW m \in Block
               PROVE  /\ job'[m].status = "none" => job'[m].attempts = 0
                      /\ job'[m].status = "pending" => job'[m].attempts <= FeeTries
                      /\ job'[m].attempts + Cardinality(InHand(m)') <= FeeTries + MaxFaults + 1
    BY DEF Budget
  <2>1. CASE m = n
    <3>1. InHand(m)' = InHand(m) \ {p}
      BY <1>4
    <3>2. Cardinality(InHand(m)') = Cardinality(InHand(n)) - 1
      BY <1>5, <2>1, <3>1
    <3>3. job'[m] = row
      BY <1>8, <2>1
    <3>4. row.status # "none" /\ (row.status = "pending" => row.attempts <= FeeTries)
      BY <1>7
    <3>5. row.attempts + (Cardinality(InHand(n)) - 1) <= FeeTries + MaxFaults + 1
      BY <1>5, <1>6, <1>7, Constants
    <3>6. QED
      BY <3>2, <3>3, <3>4, <3>5
  <2>2. CASE m # n
    <3>1. job'[m] = job[m] /\ job[m].attempts \in Nat
      BY <1>1, <1>8, <2>2, Constants DEF JobState
    <3>2. /\ Cardinality(InHand(m)) \in Nat /\ Cardinality(InHand(m)') \in Nat
          /\ Cardinality(InHand(m)') <= Cardinality(InHand(m))
      <4>1. InHand(m)' \subseteq InHand(m)
        BY <1>4
      <4>2. QED
        BY <4>1, HandSize, FS_Subset, FS_CardinalityType
    <3>3. /\ job[m].status = "none" => job[m].attempts = 0
          /\ job[m].status = "pending" => job[m].attempts <= FeeTries
          /\ job[m].attempts + Cardinality(InHand(m)) <= FeeTries + MaxFaults + 1
      BY <1>1 DEF Budget
    <3>4. QED
      BY <3>1, <3>2, <3>3, Constants
  <2>3. QED
    BY <2>1, <2>2
<1>14. Distinct'
  BY <1>1 DEF Distinct
<1>15. QED
  BY <1>9, <1>11, <1>12, <1>13, <1>14 DEF FeeInv

LEMMA AttemptStep ==
  ASSUME FeeInv, NEW p \in Process, RecordFees(p) \/ FeeFails(p)
  PROVE  FeeInv'
<1>1. TypeOK /\ InPlace /\ Len(blocks) \in Nat
  BY LenProperties DEF FeeInv, TypeOK
<1>2. CASE RecordFees(p)
  <2> DEFINE b == blocks[worker[p].n]
             d == FinalCandidates(b)
  <2>1. /\ worker[p].pc = "record" /\ worker' = [worker EXCEPT ![p] = Rest(p)]
        /\ fees' = fees \cup {<<s, b>> : s \in worker[p].candidates}
        /\ job' = [job EXCEPT ![worker[p].n] = Scheduled(worker[p].n, d)]
        /\ UNCHANGED <<tip, sampler, ready, samples, facts, conflicts, current, blocks, starts>>
    BY <1>2 DEF RecordFees, Working, evidence
  <2>2. d \in BOOLEAN
    BY DEF FinalCandidates
  <2>3. b \in Block
    <3>1. worker[p].n \in 1..Len(blocks)
      BY <1>1, <2>1 DEF InPlace
    <3>2. QED
      BY <1>1, <3>1, ElementOfSeq DEF TypeOK
  <2>4. fees \subseteq Pair /\ worker[p].candidates \subseteq Slot
    BY <1>1, WorkerFields DEF TypeOK
  <2> HIDE DEF b, d
  <2>5. fees' \subseteq Pair
    BY <2>1, <2>3, <2>4 DEF Pair
  <2>6. QED
    BY <2>1, <2>2, <2>5, AttemptEnds
<1>3. CASE FeeFails(p)
  <2>1. /\ worker[p].pc \in {"look", "fetch", "record"} /\ worker' = [worker EXCEPT ![p] = Rest(p)]
        /\ job' = [job EXCEPT ![worker[p].n] = Scheduled(worker[p].n, FALSE)]
        /\ UNCHANGED <<tip, sampler, ready, samples, facts, conflicts, current, blocks, starts, fees>>
    BY <1>3 DEF FeeFails, Working, evidence
  <2>2. fees' \subseteq Pair
    BY <1>1, <2>1 DEF TypeOK
  <2>3. QED
    BY <2>1, <2>2, AttemptEnds
<1>4. QED
  BY <1>2, <1>3
-----------------------------------------------------------------------------
(* The theorems.                                                           *)

LEMMA FeeStep == FeeInv /\ [Next]_vars => FeeInv'
<1> SUFFICES ASSUME FeeInv, [Next]_vars PROVE FeeInv'
  OBVIOUS
<1>1. ASSUME NEW p \in Process, Start(p) \/ Stop(p) \/ Enrich(p) PROVE FeeInv'
  <2>1. CASE Start(p)
    BY <2>1, StartStep
  <2>2. CASE Stop(p)
    BY <2>2, StopStep
  <2>3. ASSUME NEW n \in Block, Pick(p, n) PROVE FeeInv'
    BY <2>3, PickStep
  <2>4. CASE Look(p)
    BY <2>4, LookStep
  <2>7. CASE Confirm(p)
    BY <2>7, ConfirmStep
  <2>5. CASE RecordFees(p) \/ FeeFails(p)
    BY <2>5, AttemptStep
  <2>6. QED
    BY <1>1, <2>1, <2>2, <2>3, <2>4, <2>5, <2>7 DEF Enrich, Attempt
<1>2. QED
  BY <1>1, EvidenceStep DEF Next

LEMMA FeeInvariant == Spec => []FeeInv
<1>1. QED
  BY FeeInit, FeeStep, PTL DEF Spec

\* The variables keep their types; an attempt is counted for each worker that
\* has picked a block (next_fee_block, schedule_fee_job), so that the attempts
\* of a job exceed FEE_JOB_MAX_ATTEMPTS by at most one per process.
THEOREM FeeTypes == Spec => []TypeOK
<1>1. FeeInv => TypeOK
  BY DEF FeeInv
<1>2. QED
  BY <1>1, FeeInvariant, PTL

\* next_fee_block hands out the blocks in the order of their event ids, and
\* schedule_fee_job writes their jobs in that order, also when two processes
\* have the same block in their hands: no recorded block is passed over.
THEOREM NoneSkipped == Spec => []NoBlockSkipped
<1>1. FeeInv => NoBlockSkipped
  <2> SUFFICES ASSUME FeeInv, NEW n \in Jobs PROVE 1..n \subseteq Jobs
    BY DEF NoBlockSkipped
  <2>1. Len(blocks) \in Nat
    BY LenProperties DEF FeeInv, TypeOK
  <2>2. PICK k \in 0..Len(blocks) : Jobs = 1..k
    BY DEF FeeInv, Prefix
  <2>3. QED
    BY <2>1, <2>2
<1>2. QED
  BY <1>1, FeeInvariant, PTL
=============================================================================

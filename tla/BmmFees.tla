------------------------------- MODULE BmmFees -------------------------------
(***************************************************************************)
(* The fees of confirmed BMM bids.  The enforcer process samples the bids   *)
(* for the next block and records the slots' block facts; the node process  *)
(* records the blocks; its fee worker joins the three: for each recorded    *)
(* block it looks up the bids that have official evidence, reads the block  *)
(* once more and records their fees, with one job row per block that bounds *)
(* its attempts.                                                           *)
(*                                                                         *)
(* Block b is the child of block b - 1.  A slot stands for its bid that the *)
(* block commits to; bids that lose are no candidates and are left out.     *)
(* Two node processes may overlap: the run of the older one is closed.      *)
(***************************************************************************)
EXTENDS Integers, Sequences

CONSTANTS
    MaxBlocks,     \* bound on the blocks
    Slot,
    Activation,    \* the first block at which a slot is active
    SampleTries,   \* SNAPSHOT_MAX_ATTEMPTS
    FeeTries,      \* FEE_JOB_MAX_ATTEMPTS
    Disputed,      \* the blocks about which differing facts may be reported
    MaxFaults      \* bound on the starts after the first

ASSUME FeeAssumption ==
    /\ Activation \in [Slot -> Nat]
    /\ {SampleTries, FeeTries} \subseteq Nat \ {0}
    /\ {MaxBlocks, MaxFaults} \subseteq Nat
    /\ Disputed \subseteq 1..MaxBlocks

VARIABLES
    tip,       \* the last block
    sampler,   \* collect_bmm_sample
    ready,     \* the readiness grace is over
    samples,   \* recorded bids with a tip-matched sample: <<slot, block>>
    facts,     \* recorded block facts of the enforcer: <<slot, block>>
    conflicts, \* those of them with an event_conflict: a second, differing fact
    current,   \* slots with a current instance
    blocks,    \* recorded node blocks, in the order of their event ids
    job,       \* bmm_fee_job of each of them
    fees,      \* recorded fees: <<slot, block>>
    worker,    \* the fee worker of each node process
    starts

evidence == <<tip, sampler, ready, samples, facts, conflicts, current, blocks>>
vars == <<evidence, job, fees, worker, starts>>

Block == 1..MaxBlocks

Process == 1..MaxFaults + 1   \* node processes in the order of their starts

NoJob == [status |-> "none", attempts |-> 0]

Resting == [pc |-> "rest", before |-> 0, try |-> 1, seen |-> {}]

Off == [pc |-> "off", open |-> FALSE, n |-> 0, candidates |-> {}]

Init ==
    /\ tip = 0
    /\ sampler = Resting
    /\ ready = FALSE
    /\ samples = {}
    /\ facts = {}
    /\ conflicts = {}
    /\ current = {}
    /\ blocks = <<>>
    /\ job = [n \in Block |-> NoJob]
    /\ fees = {}
    /\ worker = [p \in Process |-> Off]
    /\ starts = 0
-----------------------------------------------------------------------------
(* The chain, and what the other workers record of it.                     *)

Mine ==
    /\ tip < MaxBlocks
    /\ tip' = tip + 1
    /\ UNCHANGED <<sampler, ready, samples, facts, conflicts, current, blocks, job, fees, worker, starts>>

\* A fact belongs to the current instance of its slot.
RecordFact(s, b) ==
    /\ b <= tip /\ s \in current
    /\ <<s, b>> \notin facts
    /\ facts' = facts \cup {<<s, b>>}
    /\ UNCHANGED <<tip, sampler, ready, samples, conflicts, current, blocks, job, fees, worker, starts>>

\* The trigger observe_block_fact: a fact that differs from the one recorded of
\* the same block casts doubt on both.
RecordConflict(s, b) ==
    /\ b \in Disputed /\ s \in current
    /\ <<s, b>> \in facts \ conflicts
    /\ conflicts' = conflicts \cup {<<s, b>>}
    /\ UNCHANGED <<tip, sampler, ready, samples, facts, current, blocks, job, fees, worker, starts>>

\* A reading of the state makes the slot's instance current.
Register(s) ==
    /\ s \notin current
    /\ current' = current \cup {s}
    /\ UNCHANGED <<tip, sampler, ready, samples, facts, conflicts, blocks, job, fees, worker, starts>>

\* The node's history is walked from the tip down, so in any order.
RecordBlock(b) ==
    /\ b <= tip
    /\ \A n \in 1..Len(blocks) : blocks[n] # b
    /\ blocks' = Append(blocks, b)
    /\ UNCHANGED <<tip, sampler, ready, samples, facts, conflicts, current, job, fees, worker, starts>>
-----------------------------------------------------------------------------
(* monitor_bmm_requests: tip, requests for that tip, tip again.            *)

Sampling(pc, next) ==
    /\ sampler.pc = pc
    /\ sampler' = next
    /\ UNCHANGED <<tip, facts, conflicts, current, blocks, job, fees, worker, starts>>

\* Bids for a block beyond the bound are not sampled.
SampleBefore ==
    /\ tip < MaxBlocks
    /\ Sampling("rest", [sampler EXCEPT !.pc = "requests", !.before = tip])
    /\ UNCHANGED <<ready, samples>>

\* The tip is still the one that the requests were asked for.  A sample within
\* the readiness grace is recorded too, but no evidence.
SampleMatches(seen) ==
    /\ tip = sampler.before
    /\ Sampling("requests", [sampler EXCEPT !.pc = "record", !.try = 1,
                                          !.seen = IF ready THEN seen ELSE {}])
    /\ UNCHANGED <<ready, samples>>

\* A response around which the tip moved, or the revision that the enforcer
\* reports, is discarded and asked for again until the attempts are used up.
SampleMoved ==
    /\ Sampling("requests", IF sampler.try < SampleTries
                                THEN [Resting EXCEPT !.try = sampler.try + 1]
                                ELSE Resting)
    /\ UNCHANGED <<ready, samples>>

\* A call fails: nothing is recorded.
SampleFails ==
    /\ Sampling("requests", Resting)
    /\ UNCHANGED <<ready, samples>>

RecordSample ==
    /\ Sampling("record", Resting)
    /\ samples' = samples \cup {<<s, sampler.before + 1>> : s \in sampler.seen}
    /\ UNCHANGED ready

GraceEnds ==
    /\ ~ready
    /\ ready' = TRUE
    /\ UNCHANGED <<tip, sampler, samples, facts, conflicts, current, blocks, job, fees, worker, starts>>
-----------------------------------------------------------------------------
(* The job table.                                                          *)

Jobs == {n \in Block : job[n].status # "none"}

\* next_fee_block: the first block after the last one that has a job, and
\* only when there is none a job whose retry is due.
NewBlocks == {n \in 1..Len(blocks) : \A m \in Jobs : m < n}

\* Mutant: no order among the new blocks.
NextFeeBlockAny == IF NewBlocks # {} THEN NewBlocks ELSE {n \in Jobs : job[n].status = "pending"}

\* Mutant: pending jobs are never tried again.
NextFeeBlockNew == IF NewBlocks # {} THEN {CHOOSE n \in NewBlocks : \A m \in NewBlocks : n <= m} ELSE {}

NextFeeBlock ==
    IF NewBlocks # {} THEN {CHOOSE n \in NewBlocks : \A m \in NewBlocks : n <= m}
    ELSE {n \in Jobs : job[n].status = "pending"}

\* schedule_fee_job: the row of the n-th block after an attempt.
Scheduled(n, done) ==
    [attempts |-> job[n].attempts + 1,
     status |-> IF done THEN "done"
                ELSE IF n \in Jobs /\ job[n].attempts + 1 >= FeeTries THEN "abandoned"
                ELSE "pending"]

\* observed_bmm_candidates: a sampled bid that the block's fact commits to.  A
\* conflict about that fact withdraws the candidate.
Candidates(b) == {s \in Slot : <<s, b>> \in samples /\ <<s, b>> \in facts \ conflicts}

\* Every active slot has the block's fact, be it in conflict or not.
FinalCandidates(b) == \A s \in current : Activation[s] <= b => <<s, b>> \in facts
-----------------------------------------------------------------------------
(* The fee worker.                                                         *)

\* The run of the process that was there before is closed, whether it is still
\* at work or not.
Start(p) ==
    /\ worker[p].pc = "off"
    /\ p = starts + 1
    /\ starts' = p
    /\ worker' = [q \in Process |-> IF q = p THEN [Off EXCEPT !.pc = "rest", !.open = TRUE]
                                    ELSE [worker[q] EXCEPT !.open = FALSE]]
    /\ UNCHANGED <<evidence, job, fees>>

\* A process that crashed is one that stops as soon as it has a successor.
Stop(p) ==
    /\ worker[p].pc # "off" /\ ~worker[p].open
    /\ worker' = [worker EXCEPT ![p] = Off]
    /\ UNCHANGED <<evidence, job, fees, starts>>

Working(p, pc, next) ==
    /\ worker[p].pc = pc
    /\ worker' = [worker EXCEPT ![p] = next]
    /\ UNCHANGED <<evidence, starts>>

Pick(p, n) ==
    /\ n \in NextFeeBlock
    /\ Working(p, "rest", [worker[p] EXCEPT !.pc = "look", !.n = n])
    /\ UNCHANGED <<job, fees>>

\* The candidates are read before the block is, which may take long.
Look(p) ==
    /\ Working(p, "look", [worker[p] EXCEPT !.pc = "fetch",
                                            !.candidates = Candidates(blocks[worker[p].n])])
    /\ UNCHANGED <<job, fees>>

Rest(p) == [worker[p] EXCEPT !.pc = "rest", !.n = 0, !.candidates = {}]

\* record_node_fees reads the candidates again before its transaction.
Confirm(p) ==
    /\ Working(p, "fetch", [worker[p] EXCEPT !.pc = "record"])
    /\ worker[p].candidates \subseteq Candidates(blocks[worker[p].n])
    /\ UNCHANGED <<job, fees>>

\* Mutant: a retry records no fees.
RecordFeesOnce(p) ==
    LET n == worker[p].n
        b == blocks[n] IN
    /\ Working(p, "record", Rest(p))
    /\ worker[p].open
    /\ fees' = IF n \in Jobs THEN fees ELSE fees \cup {<<s, b>> : s \in worker[p].candidates}
    /\ job' = [job EXCEPT ![n] = Scheduled(n, FinalCandidates(b))]

\* The transaction of record_node_fees: fees, and the job with what is known of
\* the block now.
RecordFees(p) ==
    LET n == worker[p].n
        b == blocks[n] IN
    /\ Working(p, "record", Rest(p))
    /\ worker[p].open
    /\ fees' = fees \cup {<<s, b>> : s \in worker[p].candidates}
    /\ job' = [job EXCEPT ![n] = Scheduled(n, FinalCandidates(b))]

\* A call fails, or the record refuses the fees of a closed run or of a
\* withdrawn candidate: the attempt is counted either way.
FeeFails(p) ==
    /\ worker[p].pc \in {"look", "fetch", "record"}
    /\ Working(p, worker[p].pc, Rest(p))
    /\ job' = [job EXCEPT ![worker[p].n] = Scheduled(worker[p].n, FALSE)]
    /\ UNCHANGED fees
-----------------------------------------------------------------------------
Sample ==
    \/ SampleBefore
    \/ \E seen \in SUBSET Slot : SampleMatches(seen)
    \/ SampleMoved \/ SampleFails \/ RecordSample \/ GraceEnds

Attempt(p) == Look(p) \/ Confirm(p) \/ RecordFees(p) \/ FeeFails(p)

Enrich(p) == (\E n \in Block : Pick(p, n)) \/ Attempt(p)

Next ==
    \/ Mine
    \/ \E s \in Slot, b \in Block : RecordFact(s, b) \/ RecordConflict(s, b)
    \/ \E s \in Slot : Register(s)
    \/ \E b \in Block : RecordBlock(b)
    \/ Sample
    \/ \E p \in Process : Start(p) \/ Stop(p) \/ Enrich(p)

Spec == Init /\ [][Next]_vars

\* A node process is kept running, and its worker goes on: a retry becomes due.
Fairness ==
    /\ WF_vars(\E p \in Process : Enrich(p))
    /\ WF_vars(Start(1))

LiveSpec == Spec /\ Fairness
-----------------------------------------------------------------------------
(* Properties.                                                             *)

Pair == Slot \X Block

SamplerState ==
    [pc : {"rest", "requests", "record"}, before : 0..MaxBlocks,
     try : 1..SampleTries, seen : SUBSET Slot]

JobState ==
    [status : {"none", "pending", "done", "abandoned"}, attempts : 0..FeeTries + MaxFaults + 1]

WorkerState ==
    [pc : {"off", "rest", "look", "fetch", "record"}, open : BOOLEAN,
     n : 0..MaxBlocks, candidates : SUBSET Slot]

\* Processes that overlap may each count an attempt beyond the limit.
TypeOK ==
    /\ tip \in 0..MaxBlocks
    /\ sampler \in SamplerState
    /\ ready \in BOOLEAN
    /\ samples \subseteq Slot \X (1..MaxBlocks + 1)
    /\ facts \subseteq Pair
    /\ conflicts \subseteq Pair
    /\ current \subseteq Slot
    /\ blocks \in Seq(Block) /\ Len(blocks) <= MaxBlocks
    /\ job \in [Block -> JobState]
    /\ fees \subseteq Pair
    /\ worker \in [Process -> WorkerState]
    /\ starts \in 0..MaxFaults + 1

\* Blocks get their jobs in the order of their ids: next_fee_block looks only
\* beyond the last job, so a block passed over would never be enriched.
NoBlockSkipped == \A n \in Jobs : 1..n \subseteq Jobs

\* Jobs end, done or abandoned, also when processes overlap and fail.
JobsEnd == <>[](\A n \in 1..Len(blocks) : job[n].status \in {"done", "abandoned"})

InFlight(n) == \E p \in Process : worker[p].n = n

\* A retry uses the evidence that was late: once a bid is a candidate of a
\* pending block, its fee is recorded, unless the attempts are used up or a
\* conflict about the slot's fact withdraws the candidate.
LateEvidenceIsUsed ==
    \A n \in Block, s \in Slot :
        (/\ n \in Jobs /\ job[n].status = "pending" /\ ~InFlight(n)
         /\ s \in Candidates(blocks[n]))
        ~> (/\ n \in Jobs
            /\ \/ job[n].status = "abandoned"
               \/ <<s, blocks[n]>> \in fees \cup conflicts)

\* A block whose job is closed as done has a fee record for every candidate
\* that the record holds at that moment.
DoneHasEveryCandidate ==
    [][\A n \in Block : job[n].status # "done" /\ job'[n].status = "done" =>
           {<<s, blocks[n]>> : s \in Candidates(blocks[n])} \subseteq fees']_vars
=============================================================================

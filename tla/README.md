# A TLA+ model of bip300-monitor

bip300-monitor records what BIP300/301 sidechain activity an enforcer (and, as
a second source, a Bitcoin node) reports. It keeps the observations in Postgres
and fans them out over NATS. The record is meant to be evidence: a consumer may
page through it by id, may rely on certified history, and may see from it when
and why capture was interrupted. The modules in this directory model the parts
of the program on which those promises rest; TLC checks them on small instances
and TLAPS proves the central ones for all instances.

Paths below are relative to `src/`; `runtime.rs`, `backfill.rs`, `state.rs`,
`mainchain.rs`, `fees.rs`, `node.rs` and `snapshot.rs` are in
`extractors/enforcer/src/`, `store.rs`, `recorder.rs`, `nats.rs` and
`process.rs` in `shared/src/`, the SQL files in `shared/schema/`.

## The system

| part | state | operations | how it meets the others |
|---|---|---|---|
| History engine (`backfill.rs`) | a cursor in memory (`progress`), the page in hand | `run_history`: check scope, check quarantine, `prepare_cycle`, page loop, join, repair, commit, `settle_failure` | reads pages and tips from the source, writes the coverage row and block facts through the store |
| History certification (`store.rs`, `0010_*.sql`) | `history_coverage`, `history_certified_block`, block facts and conflicts | `begin_history_cycle`, `resume_history`, `resize_history_page`, `set_history_floor`, `record_history_page`, `settle_history_failure`, `supersede_history`, trigger `certify_history` | a trigger in the page transaction; consumers read the covered tip |
| Record writes (`store.rs`, `recorder.rs`) | `event`, the identity sequence, an advisory lock | `write_tx`, `record_batch`, `insert`, commit | every writer of every source takes the same lock |
| Live fan-out (`recorder.rs`, `nats.rs`) | none that is durable | `fan_out`, `publish_batch` | after the commit, best effort |
| Run lifecycle and worker health (`store.rs`, `runtime.rs`, `node.rs`) | `extractor_run`, `extractor_status`, `extractor_worker_status`, occurrences with capture sequences | `initialize_identity`, `reserve_capture_sequences`, `record_tip_observation`, `record_worker_failure`/`_success`, `finish_run` | fences every write by run; the status row is what operators see |
| Backfill driver (`runtime.rs`, `backfill_sidechains`) | pending, deferred and retry queues | schedule, defer, reconcile with the tip | calls the history engine |
| Sidechain lifecycle (`state.rs`, `runtime.rs`, `store.rs`) | tracker baseline, current instances, one stream per slot | `monitor_state`, `monitor_sidechains`, `update_sidechain_instances` | retires scopes, starts and stops streams |
| Global stream and tip (`mainchain.rs`, `runtime.rs`) | gap start, tip channel | subscribe, read and record the boundary, `reconcile_tip`, `announce_tip_changes` | wakes every tip consumer |
| Slot streams (`forward_stream`, `monitor_sidechain_stream` in `runtime.rs`) | event counter, stall deadline | forward, mark a reorg, arm and disarm the deadline | records block facts; a stall ends the process |
| Fee enrichment (`fees.rs`, `store.rs`) | `bmm_fee_job` | `next_fee_block`, `observed_bmm_candidates`, `record_node_fees`, `schedule_fee_job` | reads events of both sources, writes derived facts |
| Snapshots and BMM sampling (`snapshot.rs`, `runtime.rs`) | none | bracket unary reads by two tip reads | writes snapshot groups, the evidence of the fee jobs |
| Node source (`node.rs`) | tip, history scope | poll, reconcile, walk | the same store, as another source |
| Supervision (`runtime.rs`, `node.rs`, `process.rs`, `liveness.rs`) | worker set, stop channel, heartbeat file | stop all on the first error, reconnect the enforcer side, shutdown with a grace period | ends runs |
| Schema migrations (`store.rs`) | `schema_version`, `dataset_manifest`, a session lock | compare the contract, migrate, open the identity | every startup of every source, old and new builds at once |
| Conversions, configuration, logging, gRPC and NATS transport, event logger, deployment | - | - | no state of their own, or pure I/O |

What is hard about it:

* a walk takes hours and is resumed from the record: the chain reorganises, the
  instance is retired, the process dies, or a successor starts, between any two
  of its statements;
* two processes of one source may overlap (an old one that has not noticed that
  its run was closed, and its successor);
* ids are drawn at insert and become visible at commit;
* a commit may succeed without its sender ever hearing of it;
* health reports, shutdowns and failures end more, or less, than they are about.

`PROJECT.json` lists the hazards line by line with the property that watches
each one.

## Modules

| module | models |
|---|---|
| `Chain` | the tree of blocks: parent, height, ancestors |
| `History` | one history scope: the engine of every process, the coverage row, facts, certification, the source, the instance's retirement, operator, crashes |
| `CertifiedLedger` | abstract: what a reader of a scope is promised |
| `HistoryProofs` | theorems about `History` |
| `WriteOrder` | record transactions statement by statement, the lock, the fan-out, a paging consumer |
| `EventFeed` | abstract: an append-only feed read by cursor |
| `WriteOrderProofs` | theorems about `WriteOrder` |
| `Runs` | runs, capture sequences, the status row, worker health, sessions that overlap, crash, shut down |
| `RunsProofs` | theorems about `Runs` |
| `Lifecycle` | startup snapshot, state worker, current instances, one stream per selected instance, block reports, restarts |
| `LifecycleProofs` | theorems about `Lifecycle` |
| `LiveStreams` | the tip channel and its two writers, the global stream with its recorded boundaries, the stall watchdog of a slot stream |
| `LiveStreamsProofs` | theorems about `LiveStreams` |
| `BackfillQueue` | the driver of the history engine: requests, tip changes, retries, one pass at a time |
| `BackfillQueueProofs` | theorems about `BackfillQueue` |
| `BmmFees` | bid sampling, the evidence of a fee, fee jobs and the workers that overlap |
| `BmmFeesProofs` | theorems about `BmmFees` |
| `Schema` | what a startup does to the database: compatibility, migrations under the lock, dataset identity; several builds at once, crashes |
| `Supervision` | the service process: enforcer side, node side, the channel that stops both, signals, restarts |
| `ServiceProofs` | theorems about `Schema` and `Supervision` |
| `MCHistory`, `MCWriteOrder`, `MCRuns`, `MCLifecycle`, `MCLiveStreams`, `MCBackfillQueue`, `MCBmmFees`, `MCSchema` | block trees, batches, sessions, chains, slots and builds for the runs (`Supervision` needs none) |

### History

One variable per table or actor: `row` is the `history_coverage` row (status,
whether `last_error` is `HISTORY_CONFLICT`, and the cursor: target, next,
covered, floor hash and exclusive floor height, page size), `facts[b]` the
distinct facts recorded about a block, `certified` the proof table, `current`
whether the instance is in `current_sidechain_instance`, `activeRun` the process
whose run is `running`, `best`, `known` and `seen` the source's tip, the blocks
it still serves and the tips it has had. `eng[p]` is the engine of process `p`;
its `pc` names the statement it is about to execute, and every awaited call is
one step: `CheckScope`, `CheckQuarantine`, `PrepareCycle`, `BeginHistoryCycle`,
`ResumeHistory`, `FetchPage` with its three failures (`FetchUnavailable`,
`FetchTooLarge`, `RpcFailure`), `ResizeHistoryPage`, `ReadTip`, `ProbeTarget`,
`FindCertifiedFloor`, `SetHistoryFloor`, `RejectStart`, `RepairBranch`,
`RecordHistoryPage` (progress, completion with the trigger, or conflict),
`RefuseHistoryPage`, `SettleFailure`, `MarkSuperseded`. A database transaction is
one step: that transactions are serial is what `WriteOrder` is about.

Data are abstracted: a hash is a block, a payload is a fact, an error text is
"conflict or not". A hash commits to its header, so a page with a wrong link is
a page of wrong blocks (`ForkPage` and `HookPage` have one with a hole and one that is too long).

`CertifiedLedger` says what a consumer may rely on: recording proves nothing,
certification adds a stretch that hangs on what is certified or on the start of
the scope and never withdraws one, the covered tip is a certified one.
`LedgerSpec` is the refinement (`recorded <- Recorded(facts)`,
`covered <- row.cur.covered`).

### WriteOrder

A connection opens a batch, waits for the advisory lock, inserts event by event
(an id is drawn even when the fact is known already), sends its commit, and
fans out once the commit is acknowledged. `Die` may come at any point: the
server notices later (`ServerRollback`) or has the commit already
(`ServerCommit`). A consumer reads pages of `id > cursor`. `EventFeed` is the
abstract feed: rows are only appended above everything committed and above the
cursor. Postgres itself is external and modelled from how `store.rs` uses it.

### Runs

`runs` is the table of runs in commit order, with the last capture sequence and
the worker health of each; `captured` the event and tip occurrences; `gaps` the
marks of restarted subscriptions; `status` the one row per source; `sess` the
sessions. `Begin` fixes `started_at` (the transaction's `now()`) and `OpenRun`
is the rest of `initialize_identity` once the lock is granted, so two startups
may open their runs in the opposite order of their `started_at`. A session that
was superseded goes on until a write is refused (`RecordRefused`). `RecordEvents`
is `record_batch`, `RecordSnapshot` and `RecordTip` also update the tip of the
status row.

### Lifecycle

`st` is first the startup (`prepare_stable_observation` and the bounded snapshot
attempts inside it, then `record_snapshot`), then the state worker
(`refresh_on_new_blocks`): its `pc` names the next call, so the tip may move
between any two of the reads. `baseline` is `Tracker.last`, `retry` and `failed`
arm the 30 second timer, `refreshed` is the block the last reading was woken
for. `current` is `current_sidechain_instance`. `block` is the watch channel of
reported blocks, whose receiver sees only the last value; the tip poll
(`PollRead`, `PollReport`, with the recording of the tip in between) and every
slot stream (`LiveEvent`; a disconnect reports the block that went away) write
it. `mon`, `managed`, `worker` and `deferred` are `monitor_sidechains`: it joins
exits before it takes a notice and a notice before a retry (the biased select),
reads the durable instances, retires, and opens what is missing. A stop sender
that is dropped stops its worker. `Gone` is the end of the process: only the
record stays. `reconcile_tip`, by which the global stream reports the tip as well, is left out,
as if that stream were silent; `LiveStreams` has it. Shutdowns are in `Runs`;
here they would be a crash.

### LiveStreams

The enforcer makes transitions 1, 2, ... (`pos` of them so far) and replays none.
A tip is the number of transitions before the enforcer's answer; the code sees
its block, so two tips are the `Same` when `TipAt` says so: a disconnect brings
an earlier block back. `chan` is the watch channel, `lastTip` the tip of the
status row, `recorded` the transitions the global stream recorded, `bounds` the
recorded `gap_start`/header pairs. `poll` is `announce_tip_changes` (`PollRead`,
`PollCompare`, `PollRecord`, `PollPublish`: the value it compares with is read
from the channel after the answer, and another writer may come in before each of
the later steps). `glob` is `mainchain::monitor`: a subscription is open
(`Subscribe`, `Resubscribe`) before its boundary is read (`ReadBoundary`) and
recorded (`RecordBoundary`); `GlobalEvent` delivers the next transition of the
subscription and is followed by `reconcile_tip` (`AskTip`, `CompareTip`,
`RecordTip`, `PublishTip`); `StreamBreaks` takes the channel's value as the start
of the gap. `slot` is `forward_stream` with its biased select: a fresh tip
(`SlotTip`) comes before the deadline (`Stall`) and the stream (`SlotEvent`).
`Silence` is the failure it exists for, a stream that stops without closing.
`dark` is a ghost: the transitions made while the run knew of no subscription.

### BackfillQueue

The record is `current`, and for each instance what its history has `reached`,
the unfinished target it has `held`, and whether a conflict quarantined it. `mon`
is `monitor_sidechains` as far as it asks for history; `requests` its channel to
the driver. `activations`, `pending`, `retries` and `deferred` are the locals of
`backfill_sidechains`, `driver` its position: `check` (is the instance current),
`pass` (`run_history`, known by its outcome: reached, deferred, superseded,
quarantined), `recheck`, `tip` (read it again and go on). `Take` follows the order
of the biased select. The retirement of an instance changes `current` at once and
the monitor's and the driver's knowledge of it later. `PassQuarantined` ends the
process, because the report of it is refused (see Findings).

### BmmFees

`sampler` is `collect_bmm_sample`: the tip, the requests, the tip again, at most
`SampleTries` times; a sample within the readiness grace is recorded as not
ready and is no evidence. `samples`, `facts`, `current` and `blocks` are what the
other workers have recorded, each in any order; `conflicts` are the facts that a
second, differing one has put in doubt (`event_conflict`): such a fact backs no
candidate any more, yet still counts as the slot's fact when a job is closed;
`blocks` is ordered by event id,
as `next_fee_block` sees it. `job` is `bmm_fee_job` (`Scheduled` is
`schedule_fee_job`), `fees` the derived facts. `worker[p]` is the fee worker of
process `p`: it picks a block, reads the candidates, fetches the block, and
compares them with the candidates of that moment (`Confirm`), and records fees
and job in one transaction that is refused when the run is closed; a withdrawn
candidate stops it at `Confirm`. A failure counts an attempt in a transaction
that is not fenced.

### Schema

`applied` is what the database has been through, `version` what `schema_version`
says of it, `dataset` the contract of the manifest, `holder` the session that has
the advisory lock. `proc[p]` is where a startup is: the comparison of the
contracts before anything is migrated (`Connect`), the lock (`TakeLock`), and for
each version the query (`ReadVersion`) and the transaction (`Apply`,
`ApplyFails`), `Unlock` whatever came of them, and `Identity`, which compares
again under the write lock. `End` is the end of the process anywhere in between;
the lock is free when the server notices (`SessionEnds`). `Apply` is enabled only
where its statements can succeed; to run a migration again fails
(`ApplyFails`). The lock shows in `NoMigrationRepeats`, which speaks of the moment
before.

### Supervision

`side[s].pc` is where a side is: between attempts (`idle`, `wait`), in the
read-only probes of its startup (`probe`), with an open run but no worker
(`open`), at work, closing its run, or over. The two sides are futures of one
task, so what one does between two awaits is a step. `Leaves` is an error as the
loop and `stop_on_error` of `run` see it: the enforcer side waits and tries again
after a transport error, any other error ends it and sets `stop`. `Cut` is the
biased select around the startup. `Signal`, `Forward` and `Abort` are
`run_until_shutdown`. `run[s]` is the run of the side in the record; what happens
within it is in `Runs`. A slot stream that merely ends, or stalls, gives no
transport error, so it stops both sides (`WorkFails` with `"other"`). Without a
node endpoint `runtime::run` is alone; that case is not in the module.

## Runs of TLC

| run | checks | instance |
|---|---|---|
| `history_slot` | `CoveredTipCertified`, `WalkRecorded`, `OneRepairSuffices`, `LedgerSpec`, `QuarantineHolds`, `HistoryCatchesUp` | one process, a slot's scope, branches of 1 and 3 blocks above genesis, pages of 2; 1.3 million states |
| `history_node` | `StartIdentity` | global scope with a known start block, tips on both branches and below the start; 0.6 million |
| `history_overlap` | `CertifiedPrefix`, `CompletionIsCertifiable`, `CertifiedUnambiguously` | two processes, pages of 1; 2.1 million (symmetry over processes) |
| `write_order` | `NothingSkipped`, `DurableBeforeLive`, `FeedSpec`, `WriterNotBlocked` | three connections of two sources; 0.4 million |
| `runs_record` | `StatusOwned`, `StatusTipIsLast`, `ErrorTellsOutcome`, `SequencesDense`, `GapStartsAtLastTip`, `ClosedRunsFrozen` | two node sessions and an enforcer session, 3 startups, 2 occurrences, 2 tips; 2.8 million (symmetry over the node sessions and the tips) |
| `lifecycle` | `OneStreamPerSlot`, `NoActivationLost`, `NoBlockBetween`, `StreamsSettle` | one slot, a tip with a child and a sibling, each with another instance, 2 moves of the tip, 2 faults; 0.4 million |
| `live_streams` | `OutageIsBounded`, `TipSettles`, `SilentStreamFails` | three transitions, one of them a disconnect, one fault; 1.4 million |
| `backfill_queue` | `WorkIsCarried`, `DeferredIsScheduled`, `HistoryReachesTip` | two slots, one change of an instance, two moves of the tip, two faults; 1.3 million |
| `bmm_fees` | `NoBlockSkipped`, `JobsEnd`, `LateEvidenceIsUsed` | two blocks, one slot, two attempts, two overlapping workers, differing facts about one of the blocks; 0.7 million |
| `schema` | `NoMigrationRepeats`, `OneContract`, `StartupEnds` | two processes of a build with two migrations, one of a newer build and contract with three; 2 thousand |
| `supervision` | `StopHasCause`, `UnclosedIsExplained`, `ServiceEnds`, `EnforcerReturns` | both sides, three failing calls, one restart; 14 thousand |
| `queue_quarantine` | `OthersReachTip`, violated | see Findings |

The type invariants of the modules, and `SchemaIsReady`, are proved for all
instances (see Theorems) and not repeated in the runs.

What they show, beyond the names:

* a resumed walk leaves no hole behind it (`WalkRecorded`), whatever target the
  request named and however the branch moved under it;
* the trigger never refuses a page the engine believes to be its last
  (`CompletionIsCertifiable`), so its exception is a defence that is not needed
  even when a stale process rewrites the cursor;
* the branch repair never needs a second one (`OneRepairSuffices`), so the error
  for that case is out of reach;
* although only a walk without a floor hash compares the configured start hash,
  no other start is ever certified (`StartIdentity`);
* a run that was closed by its successor stays as it was closed, and the
  successor's first transition is bounded by the last tip anybody observed
  (`ClosedRunsFrozen`, `GapStartsAtLastTip`);
* an activation that is first seen by an inconsistent reading, by an accepted
  but inconsistent startup snapshot, or while another activation is being
  prepared, still reaches the monitor (`NoActivationLost`), and after the last
  fault the streams are those of the tip (`StreamsSettle`);
* an instance that leaves and returns while its old worker is still stopping loses
  the entry of its new worker to the old one's exit, two moves of the tip are
  enough; the new worker then stops as well and a third is started, so that no
  slot is left with two streams (`OneStreamPerSlot`);
* a failed boundary keeps the start of its gap, and the boundary's tip is read
  only once the subscription is open, so that no transition falls between the
  two (`OutageIsBounded`); an older tip that overwrites a newer one in the
  channel is repaired by the next poll (`TipSettles`);
* the driver may drop a newer target of a deferred instance, and subsume or
  discard queued work, and still somebody carries the work (`WorkIsCarried`),
  because a pass is followed to the tip that is read after it
  (`HistoryReachesTip`);
* looking for new blocks beyond the last job never passes one over, although
  workers overlap and both may pick the same block (`NoBlockSkipped`);
* the lock, and not the query, keeps a migration from being run twice
  (`NoMigrationRepeats`), and only the second comparison of the contracts keeps
  two of them apart when builds start together (`OneContract`);
* wherever one side fails, the other one stops and the process ends
  (`ServiceEnds`), while an upstream that comes and goes stops neither
  (`StopHasCause`, `EnforcerReturns`).

### Bounds

* Trees of `History`: a fork needs one branch the walk has covered and one it moves to; two
  and three blocks are enough for a walk of several pages, a join in the middle
  of a page, an extension, a shorter and a longer competing branch, and a tip of
  the covered height on the other branch. One block may be reported under two
  facts, on the branch that can be walked twice.
* `PageBlocks` 2 lets a page be too large and shrink to one; with 1 every page
  boundary is a point at which the other process may come in.
* `MaxId` stops new batches once that id is drawn; by then all three connections
  may have one waiting, and a batch may have two events, so several rows commit
  and one could commit below another. Three connections are the fewest for an
  old process, its successor and another source. `PageLimit` 1 makes the
  consumer's cursor stop between rows.
* `MaxClock` bounds the startups: three are a predecessor, a successor that
  overlaps it, and the one that reads what the two left. `MaxCaptured` bounds
  the occurrences: two let a run and its successor each observe a tip, or one
  run reserve twice. `MaxFailures` bounds the failures in a row; one degrades a
  worker (`DEGRADED_AFTER_FAILURES` is 3 for BMM sampling; the theorem
  `ErrorIsOwn` is for every threshold, and for reports of sessions that
  overlap: in the run only the enforcer session reports).
* `MaxMoves` 2 is a connect, a replacement, a return, or a reorganisation of one
  block; `Attempts` 2 stands for `SNAPSHOT_MAX_ATTEMPTS` (3), so that two moves
  can spoil every attempt. `MaxFaults` 2 lets a second failure hit the recovery
  from the first. Three worker ids are never all in use, so the bound does not
  delay an activation.
* `LiveStreams`: the shortest loss needs one transition, a return of the same
  block two, a tip that overwrites a newer one three; one fault is a lost
  stream, a failed boundary, a silence or a restart, each with everything that
  races with it. Restarts can be left out (`MayStop`).
* `BackfillQueue`: two slots give the order of the queues something to decide,
  a change of the first one a request that is stale; two faults let a deferral
  be followed by another, by a failed tip read or by a restart. Instances do not
  return (`MayReturn`); see Findings.
* `BmmFees`: `FeeTries` 2 stands for 10 and `SampleTries` 2 for 3: a first
  attempt that finds evidence incomplete and a last one. Two blocks are the
  fewest of which one may be passed over; two processes the fewest that overlap.
  Only the first block is `Disputed`, so that one fact may be in conflict while
  the other is not; the blocks are recorded in either order.
* `Schema`: two equal builds may race for one migration, and a newer one may
  come between two of theirs; three migrations are a last one the old build does
  not know. A process starts once; a restart is another process.
* `Supervision`: one failure starts a stop, a second one hits it, a third one the
  closing of a run; one restart shows what an earlier process left.
* `CHECK_DEADLOCK FALSE` is said where the bounds let everything end: the
  sessions of `Runs` within `MaxClock`, the processes and transitions of
  `LiveStreams`, and the work of `BackfillQueue` and of `BmmFees` once the tip
  has made its last move; and for the processes of `Schema` and `Supervision`, which
  end. The others check for deadlock.

### Fairness

`HistoryCatchesUp` assumes weak fairness of starting a dead process (the service
is restarted on failure) and of the steps of an engine (its task is polled as
long as the process lives). That an idle engine is asked for the current tip
(`Asked`) is no fairness of the specification, because the code does not grant it
always: `backfill_sidechains` forgets an activation whose pass found the scope
superseded (`runtime.rs:500`, `:565`), queues tips only for the activations it
holds (`:621`), and `monitor_sidechains` does not ask again for an instance that
returned unnoticed (`:1102`). It is a premise of the property, next to
`StartsCalmly`, for which the code does grant it: at some moment no process runs,
and from then on the instance stays current, the tip stays and the scope is not
quarantined. A process that starts then asks for every current instance
(`runtime.rs:265`), and the driver asks again until a pass ends at the tip it
reads (`:519`, `:569`); the loop of the node asks always (`node.rs:289`). What came before
that moment is not assumed away: whatever state retirements, reorganisations,
operators and crashes left the row in, it is walked to the tip. That a tip which
moves while the driver is at work reaches it is `HistoryReachesTip`.

`WriterNotBlocked` assumes strong fairness of `Acquire` (Postgres grants a lock
in the order of the queue) and weak fairness of the server's commit or rollback
and of the statements of a live process.

`StreamsSettle` assumes weak fairness of the state worker and the startup
(`Reader`, which includes the restart: `restart: on-failure` in
`deployments/ecash/compose.yaml`), of the tip poll, of the monitor, and of each
worker's exit and its joining. The slot streams are not assumed to deliver. Its
conclusion is about a tip that was never the tip before (`NewTip`); what happens
when the tip returns is stated by `StateFollowsTip`, see Findings.

`TipSettles` assumes weak fairness of the tip poll and of `reconcile_tip` after an
event; `SilentStreamFails` adds the tip branch of the slot stream's select and its
deadline. Nothing is assumed of the streams, of subscriptions or of restarts.
`HistoryReachesTip` assumes weak fairness of the restart, of the poll, of the
monitor's reading and of each of its activations, of the driver taking a request
and of its steps other than deferrals: a pass that is deferred again and again
gets nowhere, and `MaxFaults` bounds that. `JobsEnd` and `LateEvidenceIsUsed`
assume that a first node process starts and that some worker goes on; an attempt
may still fail as long as attempts are left. The conclusion of
`LateEvidenceIsUsed` leaves out a candidate whose fact is in conflict: the code
refuses or never offers its fee, and closes the job all the same.

`StartupEnds` assumes that the statements of a live process go on, that the server
notices an ended session, and strong fairness of `TakeLock`, as Postgres queues.
`ServiceEnds` and `EnforcerReturns` assume weak fairness of the two sides, of
`Forward` and of `Return` (the task is polled as long as the process lives);
nothing is assumed of aborts, restarts and failures. `EnforcerReturns` holds
because `MaxFaults` bounds the failures; what it shows is that the loop is never
left for good.

`Runs` states no liveness property.

## Theorems

Every theorem is for all values of the constants under the named assumptions of
its module; TLC evaluates those assumptions in every run.

* `HistoryProofs`, from `ChainAssumption` and `HistoryAssumption`.
  `TypeCorrect`; `CertifiedPrefixHolds`, `CoveredTipHolds`,
  `CertificationIsUnambiguous`, `HistoryImplementsLedger`. The inductive
  invariant is `CertInv`: types, `CertifiedPrefix`, `CoveredTipCertified` and
  `RememberedCertified`. The last is needed because a cycle is begun with the
  covered tip the engine read some steps earlier; without it an old engine could
  write an uncertified one back. `TypeOK` needs `Shape`: a completed row has a
  covered block, an accepted page is not empty. The core of the argument is one
  lemma about the trigger: the path of an accepted walk is closed under `Parent`
  together with what is certified.
  `WalkRecordedHolds`, `StartIdentityHolds`, `CompletionAccepted` and
  `RepairIsFinal` follow from `WalkInv`, for any number of overlapping processes.
  It says what every open cursor stands on, in the row and in each engine: its
  floor is the start of the scope, a certified block at its height, or the block
  below a certified start (`FloorOK`); a verified page begins at the cursor, is
  linked and does not reach below the floor, and one that was cut ends at a
  certified block whose parent became the floor (`PageOK`); and a walk that was
  restarted by a repair has no floor hash until it joins (`EngineOK`), which is
  why no second repair comes. Without the third kind of floor the invariant is not
  inductive: a page cut at a certified block of the start height leaves it.
  That a linked page covers every ancestor between its ends (`LinkedPage`,
  `LowerIsAncestor`) is proved by the least counterexample, not by induction.
  `QuarantineIsKept` is for one process, and says so in its hypothesis: while a
  history is quarantined its engine is at a step that does not write
  (`QuarantineKept`). Two processes break it, see Findings.
* `WriteOrderProofs`, from `WriteOrderAssumption`. `WriteTypes`,
  `PagingMissesNothing`, `RecordIsFeed`, `DurableFirst`. The invariant `OrderInv`
  says that who writes holds the lock, that uncommitted rows lie above every
  committed row and the cursor, and that the consumer has exactly the rows up to
  its cursor. `DurableFirst` adds `BatchesAccounted`: each event of a batch is
  still to be inserted, pending, or committed.
* `RunsProofs`, from `RunsAssumption`. `RunTypes`, `OneRunningRun`, `ErrorIsOwn`.
  The invariant `RunsInv` adds `SessionsOwn` to the stated ones: no two live
  sessions share a run, and a live session whose run owns the status row has a
  running one. Without it a report or a `finish_run` could meet a row that
  already shows the outcome of a closed run.
  `StatusShowsLastTip`, `SequencesAreDense`, `GapStartIsLast` and
  `ClosedRunsAreFrozen` follow from `RecordInv`, which adds that every occurrence
  is of a run that was opened (`CapturesKnown`). A session can only record under a
  running run, and the running run of a source is its newest (`StatusOwned`): so
  what is recorded last is the status row's, and nothing is recorded below a gap
  that was opened. The steps are sorted by what they do to the record: they leave
  it and the closed runs alone (`Still`, `Frozen`), or append the occurrences of
  one running run (`Captures`, `Appended`).

* `LiveStreamsProofs`, from `LiveAssumption`. `StreamTypes`, `OutageCovered`.
  `GapInv` adds two things to the types: `NothingAhead`, that no tip, gap or
  boundary is beyond the transitions made, and `OpenGap`, what the stream knows at
  each of its steps: while no subscription is known, the transitions since then
  begin after the gap start it holds; between the subscription and its boundary,
  they lie between the two. `OutageIsBounded` speaks of a stream that listens, and
  says nothing of the steps that lead there.
* `BackfillQueueProofs`, from `QueueAssumption`. `QueueTypes`, `DeferralsAgree`,
  `NoWorkLost`. `QueueInv`: the tip channel is not ahead of the tip, queues hold
  instances of their slots (`OwnSlots`), a pass is made for the slot's activation
  and followed by the tip it reached (`AtWork`). `CarryInv` adds that what the
  monitor still holds of the past is retired (`Past`), and that what it has a
  worker for is followed by the driver, while what is current without one has a
  notice or an activation under way (`Following`). `NoWorkLost` assumes
  `~MayReturn`; with `MayReturn` a retired instance is current again and the
  monitor's worker for it proves nothing (see Findings).
* `BmmFeesProofs`, from `FeeAssumption`. `FeeTypes`, `NoneSkipped`. In `FeeInv`
  the jobs are those of the first blocks (`Prefix`), the blocks before one that a
  worker has in its hands have theirs (`InPlace`), and the attempts of a job and
  the workers that have it in their hands add up to at most
  `FeeTries + MaxFaults + 1` (`Budget`): the sum is what an attempt keeps, and
  without it the attempts of overlapping workers would have no bound.

* `LifecycleProofs`, from `LifecycleAssumption`. `LifecycleTypes`,
  `ActivationsArrive`, `StreamMeetsHistory`, `StreamsAreManaged`, for any chain, any number of slots,
  workers, moves and faults. `NoActivationLost` speaks of the moments in which
  reader and monitor rest; it is not inductive, since it says nothing of the steps
  that lead there. `LifeInv` follows the active instances through their copies:
  what is current is the reader's baseline, but for a reader that could not yet
  compare one (`BaselineOK`: then it retries, and the monitor has done nothing);
  and unless a change is still to be announced or taken (`Untold`), the instances
  with a stream and those still to be added are exactly the selected ones of the
  baseline that were not put off (`StreamsFollow`). `SetsApart`, `WorkersOK` and
  `MonitorOK` keep the slots apart, so that an addition never meets a taken one;
  `NothingManaged` says what a process begins with. That each stream of a startup
  has a worker of its own follows from the assumption, an injection of the slots
  into the workers. `OneStreamPerSlot` is inductive next to `LifeInv`, which says
  that an addition is made for a slot without an entry.
  TLC checks `LifeInv` on the instance of the run and on one with two slots.
* `ServiceProofs`, from `SchemaAssumption` and `SupervisionAssumption`: the
  definitions of `Schema` carry its name (`SchemaSpec`, `SchemaInit`, ...) so that
  both can be proved about in one module.
  `SchemaTypes`, `AppliedOnce`, `ReadyWhenUsed`, `ContractsApart`: `SchemaInv` adds
  `Holding`, that who migrates has the lock and finds everything before its
  migration applied, and `Owned`, that who runs is of the dataset's contract:
  neither a check nor a statement is atomic with the one before it, and these say
  what cannot change in between.
  `SupervisionTypes`, `CauseOfStop`, `RunsAreClosed`, for any number of faults and
  restarts: `SupervisionInv` adds that a run being closed has an outcome
  (`OutcomeKnown`), that a run is running only while its side is between opening
  and closing it or after a cut (`RunFollowsSide`), and that the service returns
  with both sides over (`BothOver`).

`ChainAssumption` assumes what would need an induction over the tree: that
`Ancestors` holds one block per height and is transitive.

Only model-checked: the liveness properties (`HistoryCatchesUp`,
`WriterNotBlocked`, `StreamsSettle`, `TipSettles`, `SilentStreamFails`,
`HistoryReachesTip`, `JobsEnd`, `LateEvidenceIsUsed`, `StartupEnds`, `ServiceEnds`,
`EnforcerReturns`), which are beyond the prover: they need fairness and `ENABLED`.
Every invariant and every action property of the passing runs is a theorem. The
last tip and the sequences of `Runs` are stated by positions in the record, so
that no law of a subsequence, which would need an induction, is called for.

## Findings

**A quarantined history stops the capture** (`queue_quarantine`). The report of
a quarantined slot is refused because no one initialized the status row of
`block_history`; the error ends all workers, and after every restart the same
slot comes first again, so the slots behind it never get to the tip. It is quoted
with its lines in `PROJECT.json`.

Other properties are stated in the modules although the code does not ensure
them, and have no run of their own; the comment of each says what breaks it:

* `EveryReadingRecorded` (`Lifecycle`): a reading that meets an activation while
  the tip moves ends the process. Its scoped payloads are tagged with the current
  instance of the slot (`store.rs:2188`), and only a consistent reading may create
  that; `docs/official-sources.md:60` says every reading is recorded.
* `MissedIsBounded` (`LiveStreams`): when the global stream breaks, the gap starts
  at the tip of the channel (`mainchain.rs:62`), which the poll may have advanced
  past transitions the stream had not delivered; `RELEASE_OFFICIAL.md:17` says the
  gap bounds the unknown transitions.
* `BothRunsFinished` (`Supervision`): the stop channel drops the enforcer side's
  startup and the side returns `Ok(())` (`runtime.rs:195`); a run it had opened is
  closed only by the next startup, as an orphan. `node.rs:415` says both runs are
  finished explicitly.

* `CursorAboveFloor` (`History`): the replacement target of a walk
  (`backfill.rs:368`) is not compared with the start of the scope, as the first
  target is. A tip below the start leaves a `running` row whose cursor is at or
  below its floor.
* `QuarantineHolds` (`History`) holds for one process and is checked for it in
  `history_slot`. With an overlapping one it does not: `begin_history_cycle`
  (`store.rs:1486`) and `resume_history` are fenced neither by run nor by status,
  so a stale process lifts a quarantine.
* `StateFollowsTip` (`Lifecycle`): the state worker remembers the block it was
  woken for, not the tip it read (`runtime.rs:1748`); after a disconnect the
  record may keep the instances of the abandoned block until the next one.
* `HistoryReachesTip` (`BackfillQueue`) with `MayReturn`: an instance that left
  and returned while the monitor did not look is not activated again, and the
  driver, which has forgotten it, is not asked for its history until the process
  restarts (`deployments/ecash/README.md:304`).
* `RecordSettles` and `QuietTipIsNoStall` (`LiveStreams`). The status row's tip
  may stay the older of two that were recorded out of order: the poll compares
  with the channel, not with the record. And the deadline of a slot stream may
  be armed by two reports of which only the first has an event, so that a quiet
  tip ends the process (`deployments/ecash/README.md:310` says it never does).
* `DoneHasEveryCandidate` (`BmmFees`): the candidates are read before the block is
  fetched and the job is closed with the evidence of a later moment
  (`fees.rs:33`, `store.rs:1382`); a bid that became a candidate in between gets
  no fee although its job is done.
* `GapNamesPredecessor` (`Runs`): `started_at` is fixed before a startup waits
  for the lock, so after two overlapping startups the next gap mark names the
  wrong predecessor. `CleanExitCloses` (`Runs`) is
  `BothRunsFinished` for one session.
* `ReportsAreHarmless` (`Runs`): the report behind the finding.

Three observations without a property. The enforcer side only logs that
`finish_run` was refused when it failed before (`runtime.rs:361`), so after an
upstream error a failing record is retried although `node.rs:408` calls it fatal. `monitor_sidechains` matches the exit of a
stopped worker by instance: should an instance return before its old worker has
been joined, that exit removes the new worker's entry, which stops it, and so
on; nothing in the code bounds how often (`OneStreamPerSlot` says what holds
meanwhile). And an outage whose
boundary was not recorded before the process ended (`Gone` of `LiveStreams`) is
covered by the next run only as far as the last observed tip reaches.

## Not modelled

Message conversion, configuration, logging, the gRPC and NATS transports and the
event logger keep no state worth checking; their failures appear as failing
steps. Deployment scripts are outside the program. Real time appears only as
order: timeouts may fire whenever their guard allows, with one exception:
`Stall` takes the timeout to be longer than the delay of an event on its way.

Left out of modelled parts: the timers of `node.rs` and the RPC client behind it
(`History`, `Runs` and `BmmFees` have their effects on the record); the heartbeat of
`liveness.rs`; the validation of the chain's identity at startup, other than as a
call that may fail; the amount of a fee and the checks of the bytes of its block;
what the SQL of a migration does.

## Plan

In this order:

1. Proofs of the parts of the liveness properties that are safety: that a step
   towards the goal is never undone, where a variant says so.
2. Retirements of `Lifecycle` in place of `ChangeCurrent` of `History`.

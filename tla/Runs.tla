-------------------------------- MODULE Runs --------------------------------
(***************************************************************************)
(* Extractor runs, their capture sequences and their health, as the        *)
(* transactions of the store leave them in the record.                     *)
(*                                                                         *)
(* A session is one process writing for one source.  Sessions of the same  *)
(* source may overlap: the one that starts later closes the run of the     *)
(* earlier one, which finds out when it next writes.  Every action is one  *)
(* transaction under the write lock (WriteOrder), except that started_at   *)
(* is the time at which the transaction was begun, before it waited.       *)
(***************************************************************************)
EXTENDS Integers, Sequences, FiniteSets

CONSTANTS
    Session, Source, SourceOf,
    Streaming,     \* the source with a live subscription: `enforcer`
    Tip, NoTip,    \* observed tips; SQL NULL
    Worker,        \* ExtractorWorker
    Startup,       \* workers whose status a source initializes when it starts
    Late,          \* workers that initialize their own status (fees.rs)
    Reports,       \* workers that report success or failure for a source
    LoggedOnly,    \* workers for which a failed report is only a warning
    DegradedAfter, \* failures in a row that make a worker degraded
    Terminal,      \* the reason of a failed run, as an error
    MaxClock, MaxCaptured, MaxFailures   \* bounds

ASSUME RunsAssumption ==
    /\ SourceOf \in [Session -> Source]
    /\ NoTip \notin Tip /\ Terminal \notin Worker
    /\ {Startup, Late, Reports} \subseteq [Source -> SUBSET Worker]
    /\ LoggedOnly \subseteq Worker
    /\ DegradedAfter \in [Worker -> Nat \ {0}]
    /\ {MaxClock, MaxCaptured, MaxFailures} \subseteq Nat

VARIABLES
    clock,     \* the server's clock
    runs,      \* extractor_run and extractor_worker_status, in commit order
    captured,  \* event_observation and tip_observation, in commit order, with the
               \* tip that the row or its snapshot group observed
    gaps,      \* observation_failure rows that mark a restarted subscription
    status,    \* extractor_status, one row per source
    sess       \* the sessions

vars == <<clock, runs, captured, gaps, status, sess>>

Health == [known : BOOLEAN, failures : Nat, degraded : BOOLEAN]

Run == [source : Source, started : Nat, status : {"running", "completed", "failed"},
        lastSeq : Nat, health : [Worker -> Health]]

Capture == [run : Nat, seq : Nat, tip : Tip \cup {NoTip}]

\* run = 0: the source has no row yet.
Status == [run : Nat, tip : Tip \cup {NoTip}, error : SUBSET (Worker \cup {Terminal})]

SessionState ==
    [pc : {"down", "opening", "starting", "capturing", "failing", "stopping", "exited"},
     begun : Nat, run : Nat, previous : Tip \cup {NoTip}, refused : BOOLEAN]

Down == [pc |-> "down", begun |-> 0, run |-> 0, previous |-> NoTip, refused |-> FALSE]

Init ==
    /\ clock = 0
    /\ runs = <<>>
    /\ captured = <<>>
    /\ gaps = {}
    /\ status = [s \in Source |-> [run |-> 0, tip |-> NoTip, error |-> {}]]
    /\ sess = [p \in Session |-> Down]

RunsOf(s) == {r \in DOMAIN runs : runs[r].source = s}

Unknown == [w \in Worker |-> [known |-> FALSE, failures |-> 0, degraded |-> FALSE]]

\* The transaction of initialize_identity is begun; it still has to wait for
\* its turn, but now() and with it started_at is fixed.
Begin(p) ==
    /\ sess[p].pc \in {"down", "exited"}
    /\ clock < MaxClock
    /\ clock' = clock + 1
    /\ sess' = [sess EXCEPT ![p] = [Down EXCEPT !.pc = "opening", !.begun = clock + 1]]
    /\ UNCHANGED <<runs, captured, gaps, status>>

\* Mutant: the startup leaves the run of its predecessor open.
SupersededNone(s) == runs

Superseded(s) ==
    [r \in DOMAIN runs |->
        IF runs[r].source = s /\ runs[r].status = "running"
        THEN [runs[r] EXCEPT !.status = "failed"]
        ELSE runs[r]]

\* ORDER BY started_at DESC LIMIT 1
NewestStarted(s) ==
    {r \in RunsOf(s) : \A q \in RunsOf(s) : runs[q].started <= runs[r].started}

GapMarks(s, new) ==
    IF s = Streaming THEN {[run |-> new, after |-> r] : r \in NewestStarted(s)} ELSE {}

\* Mutant: only the tip of a predecessor that was closed cleanly counts.
PreviousRunTipIfClean(s) ==
    IF status[s].run # 0 /\ runs[status[s].run].status = "completed" THEN status[s].tip ELSE NoTip

PreviousRunTip(s) == status[s].tip

\* Mutant: the startup clears the tip together with the error.
ClaimedStatusWithoutTip(s, new) == [run |-> new, tip |-> NoTip, error |-> {}]

\* Mutant: the startup leaves the error of the predecessor.
ClaimedStatusWithError(s, new) == [status[s] EXCEPT !.run = new]

ClaimedStatus(s, new) == [status[s] EXCEPT !.run = new, !.error = {}]

OpenRun(p) ==
    LET s == SourceOf[p]
        new == Len(runs) + 1
    IN  /\ sess[p].pc = "opening"
        /\ runs' = Append(Superseded(s),
                          [source |-> s, started |-> sess[p].begun, status |-> "running",
                           lastSeq |-> 0, health |-> Unknown])
        /\ gaps' = gaps \cup GapMarks(s, new)
        /\ status' = [status EXCEPT ![s] = ClaimedStatus(s, new)]
        /\ sess' = [sess EXCEPT ![p].pc = "starting", ![p].run = new,
                                ![p].previous = PreviousRunTip(s)]
        /\ UNCHANGED <<clock, captured>>

Degraded(health) == {w \in Worker : health[w].degraded}

\* recompute_extractor_error: only the row of this run.
Recomputed(s, r, health) ==
    IF status[s].run = r THEN [status EXCEPT ![s].error = Degraded(health)] ELSE status

\* initialize_worker_statuses: ON CONFLICT DO NOTHING.
Initialized(health, workers) ==
    [w \in Worker |-> IF w \in workers THEN [health[w] EXCEPT !.known = TRUE] ELSE health[w]]

SetHealth(p, health) ==
    LET r == sess[p].run
    IN  /\ runs' = [runs EXCEPT ![r].health = health]
        /\ status' = Recomputed(SourceOf[p], r, health)

InitializeWorkers(p) ==
    /\ sess[p].pc = "starting"
    /\ SetHealth(p, Initialized(runs[sess[p].run].health, Startup[SourceOf[p]]))
    /\ sess' = [sess EXCEPT ![p].pc = "capturing"]
    /\ UNCHANGED <<clock, captured, gaps>>

InitializeLate(p, w) ==
    /\ sess[p].pc = "capturing"
    /\ w \in Late[SourceOf[p]]
    /\ ~runs[sess[p].run].health[w].known
    /\ SetHealth(p, Initialized(runs[sess[p].run].health, {w}))
    /\ UNCHANGED <<clock, captured, gaps, sess>>

\* reserve_capture_sequences: `WHERE status = 'running'`.
Active(r) == runs[r].status = "running"

\* Mutant: `RETURNING last_capture_seq - $2`.
FirstSeqFromZero(r) == runs[r].lastSeq

FirstSeq(r) == runs[r].lastSeq + 1

Reserved(r, count) == [runs EXCEPT ![r].lastSeq = @ + count]

\* `count` rows with the next sequences of run r.
Occurrences(r, count, tip) ==
    [i \in 1..count |-> [run |-> r, seq |-> FirstSeq(r) + i - 1, tip |-> tip]]

\* update_extractor_status: only the row of this run.
Noted(s, r, tip) ==
    IF status[s].run = r THEN [status EXCEPT ![s].tip = tip] ELSE status

Recording(p, count) ==
    /\ sess[p].pc = "capturing"
    /\ Active(sess[p].run)
    /\ Len(captured) + count <= MaxCaptured
    /\ runs' = Reserved(sess[p].run, count)
    /\ UNCHANGED <<clock, gaps, sess>>

\* record_batch: an occurrence per event.
RecordEvents(p, count) ==
    /\ Recording(p, count)
    /\ captured' = captured \o Occurrences(sess[p].run, count, NoTip)
    /\ UNCHANGED status

\* record_snapshot: an occurrence per event of the group, whose tip_after is
\* what the status row shows next.
RecordSnapshot(p, count, tip) ==
    /\ Recording(p, count)
    /\ captured' = captured \o Occurrences(sess[p].run, count, tip)
    /\ status' = Noted(SourceOf[p], sess[p].run, tip)

\* record_tip_observation
RecordTip(p, tip) ==
    /\ Recording(p, 1)
    /\ captured' = captured \o Occurrences(sess[p].run, 1, tip)
    /\ status' = Noted(SourceOf[p], sess[p].run, tip)

\* "extractor run is not active": the first write of a superseded session fails.
RecordRefused(p) ==
    /\ sess[p].pc = "capturing"
    /\ ~Active(sess[p].run)
    /\ sess' = [sess EXCEPT ![p].pc = "failing"]
    /\ UNCHANGED <<clock, runs, captured, gaps, status>>

Reporting(p, w) ==
    /\ sess[p].pc = "capturing"
    /\ w \in Reports[SourceOf[p]]
    /\ w \in Late[SourceOf[p]] => runs[sess[p].run].health[w].known

Failed(health, w) ==
    [health EXCEPT ![w].failures = @ + 1,
                   ![w].degraded = health[w].failures + 1 >= DegradedAfter[w]]

WorkerFailure(p, w) ==
    LET health == runs[sess[p].run].health
    IN  /\ Reporting(p, w)
        /\ health[w].known
        /\ health[w].failures < MaxFailures
        /\ SetHealth(p, Failed(health, w))
        /\ UNCHANGED <<clock, captured, gaps, sess>>

Healthy(health, w) == [health EXCEPT ![w].failures = 0, ![w].degraded = FALSE]

WorkerSuccess(p, w) ==
    LET health == runs[sess[p].run].health
    IN  /\ Reporting(p, w)
        /\ health[w].known
        /\ SetHealth(p, Healthy(health, w))
        /\ UNCHANGED <<clock, captured, gaps, sess>>

\* "worker status was not initialized": the worker returns the error, and
\* supervise_workers stops the others with it.
ReportRefused(p, w) ==
    /\ Reporting(p, w)
    /\ ~runs[sess[p].run].health[w].known
    /\ w \notin LoggedOnly
    /\ sess' = [sess EXCEPT ![p].pc = "failing", ![p].refused = TRUE]
    /\ UNCHANGED <<clock, runs, captured, gaps, status>>

\* A worker ends with another error.
WorkerError(p) ==
    /\ sess[p].pc = "capturing"
    /\ sess' = [sess EXCEPT ![p].pc = "failing"]
    /\ UNCHANGED <<clock, runs, captured, gaps, status>>

\* A shutdown request: the workers return and the run is still to be finished.
Shutdown(p) ==
    /\ sess[p].pc = "capturing"
    /\ sess' = [sess EXCEPT ![p].pc = "stopping"]
    /\ UNCHANGED <<clock, runs, captured, gaps, status>>

\* A shutdown request while the enforcer side is still starting: the startup is
\* dropped and the process ends with success.
ShutdownInStartup(p) ==
    /\ sess[p].pc \in {"opening", "starting"}
    /\ SourceOf[p] = Streaming
    /\ sess' = [sess EXCEPT ![p].pc = "exited"]
    /\ UNCHANGED <<clock, runs, captured, gaps, status>>

Outcome(p) == IF sess[p].pc = "failing" THEN "failed" ELSE "completed"

\* Mutant: a run that was closed by its successor is finished again.
FinishedRunsAlways(r, outcome) == [runs EXCEPT ![r].status = outcome]

\* finish_run: only a run that is still running, only the row of this run.
FinishedRuns(r, outcome) ==
    [runs EXCEPT ![r].status = IF @ = "running" THEN outcome ELSE @]

FinishRun(p) ==
    LET r == sess[p].run
        s == SourceOf[p]
    IN  /\ sess[p].pc \in {"failing", "stopping"}
        /\ runs' = FinishedRuns(r, Outcome(p))
        /\ status' = IF status[s].run = r
                     THEN [status EXCEPT ![s].error = IF Outcome(p) = "failed" THEN {Terminal}
                                                      ELSE {}]
                     ELSE status
        /\ sess' = [sess EXCEPT ![p] = IF Outcome(p) = "failed" THEN Down
                                       ELSE [@ EXCEPT !.pc = "exited"]]
        /\ UNCHANGED <<clock, captured, gaps>>

\* The process dies, or loses its connection and cannot finish its run.
Crash(p) ==
    /\ sess[p].pc \notin {"down", "exited"}
    /\ sess' = [sess EXCEPT ![p] = Down]
    /\ UNCHANGED <<clock, runs, captured, gaps, status>>

Next ==
    \E p \in Session :
        \/ Begin(p)
        \/ OpenRun(p)
        \/ InitializeWorkers(p)
        \/ \E w \in Worker : \/ InitializeLate(p, w)
                             \/ WorkerFailure(p, w)
                             \/ WorkerSuccess(p, w)
                             \/ ReportRefused(p, w)
        \/ \E count \in {1, 2} : \/ RecordEvents(p, count)
                                 \/ \E tip \in Tip : RecordSnapshot(p, count, tip)
        \/ \E tip \in Tip : RecordTip(p, tip)
        \/ RecordRefused(p)
        \/ WorkerError(p)
        \/ Shutdown(p)
        \/ ShutdownInStartup(p)
        \/ FinishRun(p)
        \/ Crash(p)

Spec == Init /\ [][Next]_vars
-----------------------------------------------------------------------------
TypeOK ==
    /\ clock \in Nat
    /\ runs \in Seq(Run)
    /\ captured \in Seq(Capture)
    /\ gaps \subseteq [run : Nat, after : Nat]
    /\ status \in [Source -> Status]
    /\ sess \in [Session -> SessionState]
    /\ \A p \in Session : sess[p].pc \in {"starting", "capturing", "failing", "stopping"} =>
          sess[p].run \in RunsOf(SourceOf[p])

\* The last tip that source s observed in a run below `bound`.
LastTipBefore(s, bound) ==
    LET seen == {k \in DOMAIN captured : /\ captured[k].tip # NoTip
                                         /\ captured[k].run < bound
                                         /\ runs[captured[k].run].source = s}
    IN  IF seen = {} THEN NoTip
        ELSE captured[CHOOSE k \in seen : \A j \in seen : j <= k].tip

\* The status row belongs to the newest run of its source, and only that run may
\* be running: a startup never meets the unique index extractor_run_one_running,
\* and it never closes a run of another source.
StatusOwned ==
    \A s \in Source :
        /\ status[s].run # 0 => status[s].run \in RunsOf(s)
        /\ \A r \in RunsOf(s) : /\ r <= status[s].run
                                /\ Active(r) => r = status[s].run

\* The status row shows the tip that the source observed last, by a poll or a
\* snapshot, whichever run observed it and whoever has been closed since.
StatusTipIsLast ==
    \A s \in Source : status[s].tip = LastTipBefore(s, Len(runs) + 1)

\* The error of the status row is what its run says: the degraded workers of a
\* running one, the reason of a failed one, nothing for a completed one. The
\* worker failures of a session that was superseded never show in it.
ErrorTellsOutcome ==
    \A s \in Source : status[s].run # 0 =>
        LET r == runs[status[s].run]
        IN  status[s].error = CASE r.status = "running" -> Degraded(r.health)
                                [] r.status = "failed" -> {Terminal}
                                [] OTHER -> {}

\* The positions in the record of what run r captured.
CapturedBy(r) == {k \in DOMAIN captured : captured[k].run = r}

\* The occurrences of a run are numbered 1, 2, ... in commit order, without a gap
\* or a number used twice, across refused writes, crashes and overlapping sessions.
SequencesDense ==
    \A r \in DOMAIN runs :
        /\ {captured[k].seq : k \in CapturedBy(r)} = 1..runs[r].lastSeq
        /\ \A j, k \in CapturedBy(r) : j < k => captured[j].seq < captured[k].seq

\* The gap that a new subscription records starts at the last tip of all earlier
\* runs, and stays that: none of them can add a tip once it is superseded
\* (mainchain.rs, gap_start).
GapStartsAtLastTip ==
    \A p \in Session : sess[p].pc \in {"starting", "capturing"} =>
        sess[p].previous = LastTipBefore(SourceOf[p], sess[p].run)

\* A closed run is history: neither its outcome nor its sequence nor its
\* occurrences change, although the session behind it may go on.
ClosedRunsFrozen ==
    [][\A r \in DOMAIN runs : ~Active(r) =>
          /\ runs'[r].status = runs[r].status
          /\ runs'[r].lastSeq = runs[r].lastSeq
          /\ CapturedBy(r)' = CapturedBy(r)
          /\ \A k \in CapturedBy(r) : captured'[k] = captured[k]]_vars

\* A session that ended with success has closed its run (store.rs, finish_run:
\* "a row left `running` documents an unclean exit").
CleanExitCloses ==
    \A p \in Session : sess[p].pc = "exited" /\ sess[p].run # 0 => ~Active(sess[p].run)

\* No session is ended by the report of its own worker's health: a quarantined
\* history is reported and "live capture continues" (runtime.rs).
ReportsAreHarmless == \A p \in Session : ~sess[p].refused

\* The mark of a restarted subscription names the run that the new one follows
\* ("subscription restarted after run ...").
GapNamesPredecessor ==
    \A g \in gaps : /\ g.after < g.run
                    /\ \A r \in RunsOf(runs[g.run].source) : r < g.run => r <= g.after
=============================================================================

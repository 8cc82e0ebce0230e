------------------------------ MODULE History ------------------------------
(***************************************************************************)
(* The resumable newest-first history walk of one scope (one slot instance *)
(* of stream `block`, or the global `mainchain_block` stream), the row of  *)
(* history_coverage it advances, the block facts it records and the proof  *)
(* table history_certified_block that a database trigger fills.            *)
(*                                                                         *)
(* Every call the engine awaits is a step of its own, so that a reorg, a   *)
(* retirement of the instance, a live event, an operator, a crash or a     *)
(* second process may come between any two of them.  Every database        *)
(* transaction is one step: it takes the write lock and commits or aborts. *)
(*                                                                         *)
(* Abstracted: hashes are blocks; the payload of a block is a fact; error  *)
(* texts are reduced to "is it HISTORY_CONFLICT"; rows_recorded, timestamps *)
(* and logging are left out.                                               *)
(***************************************************************************)
EXTENDS Chain, Sequences

CONSTANTS
    StartHeight,   \* activation_height of the scope
    StartHash,     \* expected_start_hash, or NoBlock when the stream has none
    GlobalScope,   \* TRUE for a scope without sidechain instance
    PageBlocks,    \* configured page size
    Tip,           \* the blocks that may become the mainchain tip
    Page,          \* the pages the source may return, newest block first
    Fact,          \* the facts that can be reported about a block
    Reports,       \* Reports[b]: the facts a source may report about b
    Process,       \* extractor processes
    NoProcess

ASSUME HistoryAssumption ==
    /\ StartHeight \in Nat
    /\ StartHash \in Block \cup {NoBlock}
    /\ GlobalScope \in BOOLEAN
    /\ PageBlocks \in Nat \ {0}
    /\ Tip \subseteq Block
    /\ Page \subseteq Seq(Block)
    /\ Reports \in [Block -> SUBSET Fact]
    /\ NoProcess \notin Process

VARIABLES
    best,        \* the source's current tip
    known,       \* the blocks the source can still serve
    seen,        \* every tip the source has had: a request may be stale
    facts,       \* facts[b]: the distinct facts recorded about b in this scope
    certified,   \* history_certified_block of this scope
    row,         \* the history_coverage row of this scope
    current,     \* the scope's instance is in current_sidechain_instance
    activeRun,   \* the process whose extractor_run is `running`
    eng          \* eng[p]: the history engine of process p

upstreamVars == <<best, known, seen>>
recordVars == <<facts, certified, row>>
vars == <<best, known, seen, facts, certified, row, current, activeRun, eng>>

-----------------------------------------------------------------------------
(* The record.                                                             *)

RowStatus == {"absent", "running", "complete", "error", "superseded"}

\* The cursor of a walk: what begin_history_cycle writes and the engine keeps
\* in memory as `progress`.  floorHeight is exclusive; -1 stands for None.
Cursor ==
    [target : Block \cup {NoBlock}, next : Block \cup {NoBlock},
     covered : Block \cup {NoBlock}, floorHash : Block \cup {NoBlock},
     floorHeight : Int, pageBlocks : 0..PageBlocks]

NoCursor ==
    [target |-> NoBlock, next |-> NoBlock, covered |-> NoBlock,
     floorHash |-> NoBlock, floorHeight |-> -1, pageBlocks |-> 0]

\* last_error = HISTORY_CONFLICT is `conflict`.
NoRow == [status |-> "absent", conflict |-> FALSE, cur |-> NoCursor]

Recorded(f) == {b \in Block : f[b] # {}}

\* event_conflict: a block about which two different facts were recorded.
Conflicted(f) == {b \in Block : \E x, y \in f[b] : x # y}

ScopeIsCurrent == GlobalScope \/ current

Quarantined == row.status = "error" /\ row.conflict
-----------------------------------------------------------------------------
(* The certification trigger, certify_history.                             *)

\* The recursive walk from the target: it goes on below a block only if that
\* block is not certified and lies above the start of the scope.
CertifyPath(target, f, c) ==
    {a \in Ancestors[target] \cap Recorded(f) :
        \A x \in Ancestors[target] :
            Height[x] > Height[a] => /\ x \in Recorded(f) \ c
                                     /\ Height[x] > StartHeight}

\* The walk is accepted if it starts at the target, meets no ambiguous fact
\* and ends at a certified block or at the start of the scope.
Certifiable(target, f, c) ==
    LET path == CertifyPath(target, f, c)
    IN  /\ target \in path
        /\ path \cap Conflicted(f) = {}
        /\ \E a \in path : a \in c \/ Height[a] = StartHeight
-----------------------------------------------------------------------------
(* The engine.                                                             *)

PC == {"dead", "idle", "scope", "quarantine", "prepare", "begin", "resume",
       "loop", "fetch", "resize", "unavailable", "probe", "floor", "setfloor",
       "close", "settle", "supersede"}

Mode == {"deferred", "fatal"}

EngineAt(pc) ==
    [pc |-> pc, tip |-> NoBlock, prog |-> NoCursor, page |-> <<>>,
     joined |-> FALSE, restarted |-> FALSE, mode |-> "deferred"]

\* Mutant: a cycle that begins already counts as covered.
FullCycleCovered(tip, pageBlocks) ==
    [target |-> tip, next |-> tip, covered |-> tip, floorHash |-> NoBlock,
     floorHeight |-> StartHeight - 1, pageBlocks |-> pageBlocks]

\* begin_full_cycle: no floor hash, the floor is just below the start.
FullCycle(tip, pageBlocks) ==
    [target |-> tip, next |-> tip, covered |-> NoBlock, floorHash |-> NoBlock,
     floorHeight |-> StartHeight - 1, pageBlocks |-> pageBlocks]

\* The extension of a completed walk down to its covered tip.
ExtendCycle(tip, covered, pageBlocks) ==
    [target |-> tip, next |-> tip, covered |-> covered, floorHash |-> covered,
     floorHeight |-> Height[covered], pageBlocks |-> pageBlocks]

Smaller(m, n) == IF m <= n THEN m ELSE n

\* blocks_through_floor
Remaining(cursor) == Height[cursor.next] - cursor.floorHeight

Requested(cursor) == Smaller(Remaining(cursor), cursor.pageBlocks)

Oldest(page) == page[Len(page)]

PageSet(page) == {page[i] : i \in DOMAIN page}

\* Mutant: the links between the blocks of a page are not compared.
VerifyPageUnlinked(page, next, requested) ==
    /\ Len(page) \in 1..requested
    /\ page[1] = next

\* verify_page_with
VerifyPage(page, next, requested) ==
    /\ Len(page) \in 1..requested
    /\ page[1] = next
    /\ \A i \in 1..(Len(page) - 1) : page[i + 1] = Parent[page[i]]

\* completes_cycle
Completes(e) == e.joined \/ Len(e.page) = Remaining(e.prog)

\* Mutant: any start block will do.
StartMismatchIgnored(e) == FALSE

\* validate_expected_start_hash
StartMismatch(e) ==
    /\ Completes(e)
    /\ e.prog.floorHash = NoBlock
    /\ StartHash # NoBlock
    /\ Oldest(e.page) # StartHash

FloorMismatch(e) ==
    /\ Completes(e)
    /\ e.prog.floorHash # NoBlock
    /\ Parent[Oldest(e.page)] # e.prog.floorHash

\* settle_failure is the engine's next step; the failure is `mode`.
Failing(e, mode) == [e EXCEPT !.pc = "settle", !.mode = mode, !.page = <<>>]

-----------------------------------------------------------------------------
Init ==
    /\ best \in Tip
    /\ known = Ancestors[best]
    /\ seen = {best}
    /\ facts = [b \in Block |-> {}]
    /\ certified = {}
    /\ row = NoRow
    /\ current = TRUE
    /\ activeRun = NoProcess
    /\ eng = [p \in Process |-> EngineAt("dead")]

(***************************************************************************)
(* The source.                                                             *)
(***************************************************************************)

\* A block connects or the branch is reorganised.  The source may forget the
\* branch it left, or still serve it.
NewTip(t) ==
    /\ t # best
    /\ best' = t
    /\ seen' = seen \cup {t}
    /\ known' \in {known \cup Ancestors[t], Ancestors[t]}
    /\ UNCHANGED <<facts, certified, row, current, activeRun, eng>>

(***************************************************************************)
(* Processes and runs.                                                     *)
(***************************************************************************)

\* initialize_identity closes any running run of the source and opens its own.
StartProcess(p) ==
    /\ eng[p].pc = "dead"
    /\ eng' = [eng EXCEPT ![p] = EngineAt("idle")]
    /\ activeRun' = p
    /\ UNCHANGED <<upstreamVars, recordVars, current>>

\* The process dies without finishing its run.
Crash(p) ==
    /\ eng[p].pc # "dead"
    /\ eng' = [eng EXCEPT ![p] = EngineAt("dead")]
    /\ UNCHANGED <<upstreamVars, recordVars, current, activeRun>>

\* finish_run only touches a run that is still running.
Finished(p) == IF activeRun = p THEN NoProcess ELSE activeRun

\* An error returned by the engine ends its process.
Fail(p) ==
    /\ eng' = [eng EXCEPT ![p] = EngineAt("dead")]
    /\ activeRun' = Finished(p)

\* Shutdown is looked at before each page; the cursor stays where it is.
Interrupt(p) ==
    /\ eng[p].pc = "loop"
    /\ Fail(p)
    /\ UNCHANGED <<upstreamVars, recordVars, current>>

(***************************************************************************)
(* The scope's lifecycle, live capture and the operator.                   *)
(***************************************************************************)

\* An authoritative state reading retires or re-registers the instance.
ChangeCurrent ==
    /\ ~GlobalScope
    /\ activeRun # NoProcess
    /\ current' = ~current
    /\ UNCHANGED <<upstreamVars, recordVars, activeRun, eng>>

\* A live event records a fact about the new tip: no cursor is involved.
LiveFact(p, r) ==
    /\ activeRun = p
    /\ eng[p].pc # "dead"
    /\ Height[best] >= StartHeight
    /\ r \in Reports[best]
    /\ facts' = [facts EXCEPT ![best] = @ \cup {r}]
    /\ UNCHANGED <<upstreamVars, certified, row, current, activeRun, eng>>

\* "An operator may have resumed a quarantined cursor without resolving" it.
OperatorResume ==
    /\ Quarantined
    /\ row' = [row EXCEPT !.status = "running", !.conflict = FALSE]
    /\ UNCHANGED <<upstreamVars, facts, certified, current, activeRun, eng>>

(***************************************************************************)
(* The engine, run_history.                                                *)
(***************************************************************************)

At(p, pc) == eng[p].pc = pc

\* The engine of p moves to e; nothing else changes.
Step(p, e) ==
    /\ eng' = [eng EXCEPT ![p] = e]
    /\ UNCHANGED <<upstreamVars, recordVars, current, activeRun>>

\* A request for history up to a tip that was read earlier.
RunHistory(p, t) ==
    /\ At(p, "idle")
    /\ t \in seen
    /\ Step(p, [EngineAt("scope") EXCEPT !.tip = t])

\* scope_is_current, on entry and again before each page.
CheckScope(p) ==
    \/ /\ At(p, "scope")
       /\ Step(p, [eng[p] EXCEPT
                     !.pc = IF ScopeIsCurrent THEN "quarantine" ELSE "supersede"])
    \/ /\ At(p, "loop")
       /\ Step(p, [eng[p] EXCEPT
                     !.pc = IF ScopeIsCurrent THEN "fetch" ELSE "supersede"])

\* supersede_history: completed coverage stays.
MarkSuperseded(p) ==
    /\ At(p, "supersede")
    /\ eng' = [eng EXCEPT ![p] = EngineAt("idle")]
    /\ row' = IF row.status \in {"running", "error"}
              THEN [row EXCEPT !.status = "superseded", !.conflict = FALSE]
              ELSE row
    /\ UNCHANGED <<upstreamVars, facts, certified, current, activeRun>>

\* Mutant: a quarantined scope is walked like any other.
CheckQuarantineSkipped(p) ==
    /\ At(p, "quarantine")
    /\ Step(p, [eng[p] EXCEPT !.pc = "prepare"])

\* is_quarantined
CheckQuarantine(p) ==
    /\ At(p, "quarantine")
    /\ Step(p, IF Quarantined THEN EngineAt("idle") ELSE [eng[p] EXCEPT !.pc = "prepare"])

(***************************************************************************)
(* prepare_cycle reads the coverage row and decides; what it decides to    *)
(* write is the next step.                                                 *)
(***************************************************************************)
PrepareBelowStart(p) ==
    /\ At(p, "prepare")
    /\ Height[eng[p].tip] < StartHeight
    /\ Fail(p)
    /\ UNCHANGED <<upstreamVars, recordVars, current>>

\* The cursor prepare_cycle goes on with, given the row it read.
PreparedCycle(tip) ==
    LET cur == row.cur
        pageBlocks == Smaller(cur.pageBlocks, PageBlocks)
    IN  IF row.status = "absent" THEN FullCycle(tip, PageBlocks)
        ELSE IF row.status # "complete" THEN cur
        ELSE IF Height[tip] > Height[cur.covered]
             THEN ExtendCycle(tip, cur.covered, pageBlocks)
             ELSE FullCycle(tip, pageBlocks)

\* Mutant: a superseded row is walked on without being resumed.
PrepareNextUnresumed(status) ==
    CASE status \in {"running", "superseded"}  -> "loop"
      [] status = "error"                      -> "resume"
      [] OTHER                                 -> "begin"

\* Where prepare_cycle continues for a row of the given status.
PrepareNext(status) ==
    CASE status = "running"                    -> "loop"
      [] status \in {"error", "superseded"}    -> "resume"
      [] OTHER                                 -> "begin"

PrepareCycle(p) ==
    /\ At(p, "prepare")
    /\ Height[eng[p].tip] >= StartHeight
    /\ LET tip == eng[p].tip
           cycle == PreparedCycle(tip)
       IN  Step(p, IF row.status = "complete" /\ row.cur.covered = tip
                   THEN EngineAt("idle")
                   ELSE [EngineAt(PrepareNext(row.status)) EXCEPT
                           !.prog = cycle,
                           !.restarted = (cycle.floorHash = NoBlock)])

\* Mutant: the upsert overwrites the covered tip with NULL.
BeginHistoryCycleForgets(p) ==
    /\ At(p, "begin")
    /\ LET cur == eng[p].prog
       IN  /\ row' = [status |-> "running", conflict |-> FALSE, cur |-> cur]
           /\ eng' = [eng EXCEPT ![p] = [EngineAt("loop") EXCEPT
                                           !.prog = cur,
                                           !.restarted = (cur.floorHash = NoBlock)]]
    /\ UNCHANGED <<upstreamVars, facts, certified, current, activeRun>>

\* begin_history_cycle: an upsert that no run, status or cursor guards.
BeginHistoryCycle(p) ==
    /\ At(p, "begin")
    /\ LET cycle == eng[p].prog
           covered == IF cycle.covered # NoBlock THEN cycle.covered ELSE row.cur.covered
           cur == [cycle EXCEPT !.covered = covered]
       IN  /\ row' = [status |-> "running", conflict |-> FALSE, cur |-> cur]
           /\ eng' = [eng EXCEPT ![p] = [EngineAt("loop") EXCEPT
                                           !.prog = cur,
                                           !.restarted = (cur.floorHash = NoBlock)]]
    /\ UNCHANGED <<upstreamVars, facts, certified, current, activeRun>>

\* resume_history, with the cursor read before.
ResumeHistory(p) ==
    /\ At(p, "resume")
    /\ IF row.status \in {"error", "superseded"}
       THEN /\ row' = [row EXCEPT !.status = "running", !.conflict = FALSE]
            /\ eng' = [eng EXCEPT ![p].pc = "loop"]
            /\ UNCHANGED activeRun
       ELSE Fail(p) /\ UNCHANGED row
    /\ UNCHANGED <<upstreamVars, facts, certified, current>>

(***************************************************************************)
(* One page.                                                               *)
(***************************************************************************)

\* blocks_through_floor refuses a cursor that is not above its floor.  The error
\* is returned as it is: the row stays running.
CursorBelowFloor(p) ==
    /\ At(p, "fetch")
    /\ Remaining(eng[p].prog) <= 0
    /\ Fail(p)
    /\ UNCHANGED <<upstreamVars, recordVars, current>>

\* A page can be asked for.
Fetching(p) == At(p, "fetch") /\ Remaining(eng[p].prog) > 0

\* The source answers the page request; the page is verified at once.
FetchPage(p, page) ==
    /\ Fetching(p)
    /\ page # <<>>
    /\ page[1] \in known
    /\ LET e == eng[p]
       IN  Step(p, IF VerifyPage(page, e.prog.next, Requested(e.prog))
                   THEN [e EXCEPT !.pc = "floor", !.page = page]
                   ELSE Failing(e, "fatal"))

\* An empty answer or NotFound: the cursor left the source's branch.
FetchUnavailable(p) ==
    /\ Fetching(p)
    /\ eng[p].prog.next \notin known
    /\ Step(p, [eng[p] EXCEPT !.pc = "unavailable"])

\* DeadlineExceeded or ResourceExhausted with more than one block per page.
FetchTooLarge(p) ==
    /\ Fetching(p)
    /\ eng[p].prog.pageBlocks > 1
    /\ Step(p, [eng[p] EXCEPT !.pc = "resize"])

\* Any other failure of the page request or of the tip read after it.
RpcFailure(p, mode) ==
    /\ Fetching(p) \/ At(p, "unavailable")
    /\ Step(p, Failing(eng[p], mode))

\* Half of the page, but one block at least.
ReducedPage(n) == IF n \div 2 > 1 THEN n \div 2 ELSE 1

\* resize_history_page, then the loop starts over at the same cursor.
ResizeHistoryPage(p) ==
    /\ At(p, "resize")
    /\ LET reduced == ReducedPage(eng[p].prog.pageBlocks)
       IN  IF row.status = "running"
           THEN /\ row' = [row EXCEPT !.cur.pageBlocks = reduced]
                /\ eng' = [eng EXCEPT ![p].prog.pageBlocks = reduced, ![p].pc = "loop"]
           ELSE /\ eng' = [eng EXCEPT ![p] = Failing(@, "fatal")]
                /\ UNCHANGED row
    /\ UNCHANGED <<upstreamVars, facts, certified, current, activeRun>>

\* The current tip is read after an unavailable cursor.
ReadTip(p) ==
    /\ At(p, "unavailable")
    /\ Step(p, [eng[p] EXCEPT !.pc = "probe", !.tip = best])

\* target_is_available and replacement_target.  An inconclusive probe keeps
\* the target.
ProbeTarget(p, conclusive) ==
    /\ At(p, "probe")
    /\ LET e == eng[p]
           replace == e.tip # e.prog.target /\ conclusive /\ e.prog.target \notin known
       IN  Step(p, IF replace
                   THEN [EngineAt("begin") EXCEPT
                           !.prog = FullCycle(e.tip, e.prog.pageBlocks)]
                   ELSE Failing(e, "deferred"))

\* Mutant: the floor hash is that of the certified block, not of the one below.
JoinAtBlock(e, index) ==
    [e EXCEPT !.pc = "setfloor",
              !.joined = TRUE,
              !.page = SubSeq(e.page, 1, index),
              !.prog.floorHash = e.page[index],
              !.prog.floorHeight = Height[e.page[index]] - 1]

\* The page ends at its certified block; the floor is the block below that one.
JoinAt(e, index) ==
    [e EXCEPT !.pc = "setfloor",
              !.joined = TRUE,
              !.page = SubSeq(e.page, 1, index),
              !.prog.floorHash = Parent[e.page[index]],
              !.prog.floorHeight = Height[e.page[index]] - 1]

\* certified_history_floor: the newest certified block of the page.
FindCertifiedFloor(p) ==
    /\ At(p, "floor")
    /\ LET e == eng[p]
           hits == {i \in DOMAIN e.page : e.page[i] \in certified}
       IN  Step(p, IF hits = {}
                   THEN [e EXCEPT !.pc = "close"]
                   ELSE JoinAt(e, CHOOSE i \in hits : \A j \in hits : i <= j))

\* set_history_floor fails the engine if the cursor moved under it.
SetHistoryFloor(p) ==
    /\ At(p, "setfloor")
    /\ LET prog == eng[p].prog
       IN  IF row.status = "running" /\ row.cur.next = prog.next
           THEN /\ row' = [row EXCEPT !.cur.floorHash = prog.floorHash,
                                      !.cur.floorHeight = prog.floorHeight]
                /\ eng' = [eng EXCEPT ![p].pc = "close"]
                /\ UNCHANGED activeRun
           ELSE Fail(p) /\ UNCHANGED row
    /\ UNCHANGED <<upstreamVars, facts, certified, current>>

\* The walk ended at another start block than the expected one.
RejectStart(p) ==
    /\ At(p, "close")
    /\ StartMismatch(eng[p])
    /\ Step(p, Failing(eng[p], "fatal"))

\* The covered tip is no ancestor of the target: walk again from the target
\* toward a certified ancestor, once.
RepairBranch(p) ==
    /\ At(p, "close")
    /\ ~StartMismatch(eng[p])
    /\ FloorMismatch(eng[p])
    /\ LET e == eng[p]
       IN  Step(p, IF e.restarted
                   THEN Failing(e, "fatal")
                   ELSE [EngineAt("begin") EXCEPT
                           !.prog = FullCycle(e.prog.target, e.prog.pageBlocks)])

\* The facts after a page whose blocks were reported as r.
WithPage(page, r) ==
    [b \in Block |-> IF b \in PageSet(page) THEN facts[b] \cup {r[b]} ELSE facts[b]]

\* Mutant: the cursor is not compared.
PageAcceptedAnyCursor(p) ==
    /\ activeRun = p
    /\ row.status = "running"

\* Only a running run may capture, and only the expected cursor advances.
PageAccepted(p) ==
    /\ activeRun = p
    /\ row.status = "running"
    /\ row.cur.next = eng[p].prog.next

\* Mutant: the last page looks no further than its own blocks.
PageConflictInPage(e, f) == PageSet(e.page) \cap Conflicted(f) # {}

\* A final page looks for conflicts in the whole scope, another page only in
\* its own blocks.
PageConflict(e, f) ==
    \/ PageSet(e.page) \cap Conflicted(f) # {}
    \/ Completes(e) /\ Conflicted(f) # {}

\* What the page transaction does, given the facts f it would leave behind.
CommitConflict(p, f) ==
    /\ PageConflict(eng[p], f)
    /\ facts' = f
    /\ row' = [row EXCEPT !.status = "error", !.conflict = TRUE]
    /\ eng' = [eng EXCEPT ![p] = EngineAt("idle")]
    /\ UNCHANGED certified

CommitProgress(p, f) ==
    LET e == eng[p]
        next == Parent[Oldest(e.page)]
    IN  /\ ~PageConflict(e, f)
        /\ ~Completes(e)
        /\ facts' = f
        /\ row' = [row EXCEPT !.cur.next = next]
        /\ eng' = [eng EXCEPT ![p] = [e EXCEPT !.pc = "loop", !.page = <<>>,
                                               !.prog.next = next]]
        /\ UNCHANGED certified

\* Mutant: the walk is completed before the facts of its last page are stored.
CommitCompleteWithoutFacts(p, f) ==
    LET target == row.cur.target
    IN  /\ ~PageConflict(eng[p], f)
        /\ Completes(eng[p])
        /\ Certifiable(target, f, certified)
        /\ UNCHANGED facts
        /\ row' = [row EXCEPT !.status = "complete",
                              !.cur.next = NoBlock,
                              !.cur.covered = target]
        /\ certified' = certified \cup CertifyPath(target, f, certified)
        /\ eng' = [eng EXCEPT ![p] = EngineAt("idle")]

\* The trigger runs in the same transaction: its exception aborts everything.
CommitComplete(p, f) ==
    LET target == row.cur.target
    IN  /\ ~PageConflict(eng[p], f)
        /\ Completes(eng[p])
        /\ IF Certifiable(target, f, certified)
           THEN /\ facts' = f
                /\ row' = [row EXCEPT !.status = "complete",
                                      !.cur.next = NoBlock,
                                      !.cur.covered = target]
                /\ certified' = certified \cup CertifyPath(target, f, certified)
                /\ eng' = [eng EXCEPT ![p] = EngineAt("idle")]
           ELSE /\ eng' = [eng EXCEPT ![p] = Failing(@, "fatal")]
                /\ UNCHANGED recordVars

\* record_history_page
RecordHistoryPage(p) ==
    /\ At(p, "close")
    /\ ~StartMismatch(eng[p])
    /\ ~FloorMismatch(eng[p])
    /\ PageAccepted(p)
    /\ \E r \in [PageSet(eng[p].page) -> Fact] :
          /\ \A b \in PageSet(eng[p].page) : r[b] \in Reports[b]
          /\ LET f == WithPage(eng[p].page, r)
             IN  \/ CommitConflict(p, f)
                 \/ CommitProgress(p, f)
                 \/ CommitComplete(p, f)
    /\ UNCHANGED <<upstreamVars, current, activeRun>>

\* The page transaction aborts: the run was closed by another process, or the
\* cursor is no longer the expected one.
RefuseHistoryPage(p) ==
    /\ At(p, "close")
    /\ ~StartMismatch(eng[p])
    /\ ~FloorMismatch(eng[p])
    /\ ~PageAccepted(p)
    /\ Step(p, Failing(eng[p], "fatal"))

\* settle_failure over settle_history_failure.
SettledStatus ==
    IF row.status # "running" THEN row.status
    ELSE IF ScopeIsCurrent THEN "error" ELSE "superseded"

SettleFailure(p) ==
    /\ At(p, "settle")
    /\ row' = [row EXCEPT !.status = SettledStatus]
    /\ IF \/ SettledStatus = "superseded"
          \/ SettledStatus = "error" /\ eng[p].mode = "deferred"
       THEN eng' = [eng EXCEPT ![p] = EngineAt("idle")] /\ UNCHANGED activeRun
       ELSE Fail(p)
    /\ UNCHANGED <<upstreamVars, facts, certified, current>>
-----------------------------------------------------------------------------
EngineStep(p) ==
    \/ CheckScope(p)
    \/ MarkSuperseded(p)
    \/ CheckQuarantine(p)
    \/ PrepareBelowStart(p)
    \/ PrepareCycle(p)
    \/ BeginHistoryCycle(p)
    \/ ResumeHistory(p)
    \/ CursorBelowFloor(p)
    \/ \E page \in Page : FetchPage(p, page)
    \/ FetchUnavailable(p)
    \/ FetchTooLarge(p)
    \/ \E mode \in Mode : RpcFailure(p, mode)
    \/ ResizeHistoryPage(p)
    \/ ReadTip(p)
    \/ \E conclusive \in BOOLEAN : ProbeTarget(p, conclusive)
    \/ FindCertifiedFloor(p)
    \/ SetHistoryFloor(p)
    \/ RejectStart(p)
    \/ RepairBranch(p)
    \/ RecordHistoryPage(p)
    \/ RefuseHistoryPage(p)
    \/ SettleFailure(p)

ProcessStep(p) ==
    \/ StartProcess(p)
    \/ Crash(p)
    \/ Interrupt(p)
    \/ \E t \in Tip : RunHistory(p, t)
    \/ \E r \in Fact : LiveFact(p, r)

Environment ==
    \/ \E t \in Tip : NewTip(t)
    \/ ChangeCurrent
    \/ OperatorResume

Next ==
    \/ \E p \in Process : EngineStep(p) \/ ProcessStep(p)
    \/ Environment

Spec == Init /\ [][Next]_vars
-----------------------------------------------------------------------------
(* Properties.                                                             *)

EngineType ==
    [pc : PC, tip : Block \cup {NoBlock}, prog : Cursor, page : Seq(Block),
     joined : BOOLEAN, restarted : BOOLEAN, mode : Mode]

\* Every variable has its type, engines and the coverage row included.
TypeOK ==
    /\ best \in Tip
    /\ known \subseteq Block
    /\ seen \subseteq Tip
    /\ facts \in [Block -> SUBSET Fact]
    /\ certified \subseteq Block
    /\ row \in [status : RowStatus, conflict : BOOLEAN, cur : Cursor]
    /\ current \in BOOLEAN
    /\ activeRun \in Process \cup {NoProcess}
    /\ eng \in [Process -> EngineType]

\* A block in history_certified_block has its whole prefix proved down to the
\* start of the scope: it has a recorded fact and its parent is certified too
\* (docs/official-sources.md, "History and certification").
CertifiedPrefix ==
    \A b \in certified :
        /\ b \in Recorded(facts)
        /\ Height[b] >= StartHeight
        /\ Height[b] > StartHeight => Parent[b] \in certified

\* The covered tip a consumer reads is certified, through every extension,
\* repair, conflict and restart; a completed row covers exactly its target.
CoveredTipCertified ==
    /\ row.cur.covered # NoBlock => row.cur.covered \in certified
    /\ row.status = "complete" => /\ row.cur.covered = row.cur.target
                                  /\ row.cur.target \in certified

\* An open cursor lies on the branch of its target, and everything between
\* the two is recorded: a resumed walk never leaves a hole behind it.
WalkRecorded ==
    row.status \in {"running", "error", "superseded"} =>
        /\ row.cur.next \in Ancestors[row.cur.target]
        /\ \A b \in Ancestors[row.cur.target] :
              Height[b] > Height[row.cur.next] => b \in Recorded(facts)

\* The certification trigger never refuses a page that the engine offers as
\* the last one of its walk: its exception would stop the process.
CompletionIsCertifiable ==
    \A p \in Process :
        (/\ At(p, "close") /\ PageAccepted(p) /\ Completes(eng[p])
         /\ ~StartMismatch(eng[p]) /\ ~FloorMismatch(eng[p]))
        => \A r \in [PageSet(eng[p].page) -> Fact] :
              LET f == WithPage(eng[p].page, r)
              IN  ~PageConflict(eng[p], f) => Certifiable(row.cur.target, f, certified)

\* When the scope's start block is known, no other block of that height is ever
\* certified, although only walks without a floor hash compare it.
StartIdentity ==
    \A b \in certified : Height[b] = StartHeight /\ StartHash # NoBlock => b = StartHash

\* A row can always be walked on: its cursor is above its exclusive floor.  It
\* does not hold once the tip falls below the scope's start: ProbeTarget begins a
\* cycle toward that tip without comparing the two.
CursorAboveFloor ==
    row.status \in {"running", "error", "superseded"} => Remaining(row.cur) > 0

\* The walk that repairs a reorganised branch never needs a second repair, so
\* the "still failed to reach its floor" error is out of reach.
OneRepairSuffices ==
    \A p \in Process :
        At(p, "close") /\ eng[p].restarted /\ ~StartMismatch(eng[p]) => ~FloorMismatch(eng[p])

\* Certification only grows, and when it does no block of the scope is known
\* under two facts.
CertifiedUnambiguously ==
    [][/\ certified \subseteq certified'
       /\ certified' # certified => Conflicted(facts') = {}]_vars

\* Only an operator or the retirement of the instance lifts a quarantine
\* (store.rs: "suspended ... until an operator resolves it").
QuarantineHolds ==
    [][Quarantined /\ ~Quarantined' => OperatorResume \/ row'.status = "superseded"]_vars

(***************************************************************************)
(* What a reader of the record is promised.                                *)
(***************************************************************************)
Ledger == INSTANCE CertifiedLedger
             WITH recorded <- Recorded(facts), covered <- row.cur.covered

\* The engines, the trigger and everything that comes between their steps only
\* ever certify stretches that hang on a certified prefix.
LedgerSpec == Ledger!LedgerSpec

(***************************************************************************)
(* Liveness.  Weak fairness: a process that died is started again (the     *)
(* service is restarted on failure), and an engine that can take a step    *)
(* takes one.  That an idle engine is asked again is no fairness of the    *)
(* code: backfill_sidechains forgets a superseded activation, and its      *)
(* monitor does not ask again for an instance that returned unnoticed.     *)
(***************************************************************************)
Fairness ==
    \A p \in Process :
        /\ WF_vars(StartProcess(p))
        /\ WF_vars(EngineStep(p))

LiveSpec == Spec /\ Fairness

\* Somebody goes on asking for the current tip.
Asked == \A p \in Process : WF_vars(RunHistory(p, best))

\* What Asked is granted for.  A process that starts asks for every current
\* instance toward the tip it reads; backfill_sidechains asks again after each
\* pass that did not reach the tip, and keeps the activation as long as no pass
\* finds the scope superseded.  It is not told of a tip that left and came back
\* between two polls, nor of a quarantine that an operator lifts.
Calm(t) == ScopeIsCurrent /\ best = t /\ ~Quarantined

StartsCalmly == <>(\E t \in Tip : (\A p \in Process : At(p, "dead")) /\ []Calm(t))

\* A step that is no disturbance: nobody is killed, a request names the current
\* tip, and the source answers with a page that the engine accepts, with NotFound
\* for a block it no longer serves, or with a conclusive probe.
Undisturbed(p) ==
    /\ At(p, "idle") => eng'[p].tip \in {NoBlock, best}
    /\ At(p, "fetch") \/ At(p, "unavailable") => eng'[p].pc \notin {"settle", "resize"}
    /\ ~ProbeTarget(p, FALSE)
    /\ ~Crash(p) /\ ~Interrupt(p)

\* Whatever state earlier processes, retirements, tips and operators left the
\* cursor in (a half-walked orphaned branch, a floor without its page, a
\* superseded or failed row), and however often the service fails to get up:
\* once the disturbances stop, the walk covers the tip, unless the scope is
\* quarantined or its instance retired.
HistoryCatchesUp ==
    StartsCalmly /\ Asked /\ <>[][\A p \in Process : Undisturbed(p)]_vars
        => <>[](row.status = "complete" /\ row.cur.covered = best)
=============================================================================

--------------------------- MODULE HistoryProofs ---------------------------
(***************************************************************************)
(* Proofs about History, for every block tree, page size, set of processes *)
(* and behaviour of the source.                                            *)
(***************************************************************************)
EXTENDS History, WellFoundedInduction, TLAPS

\* What the type invariant needs beside the types: a completed row has a
\* covered block, and a page that was accepted has a block.
Shape ==
    /\ row.status = "complete" => row.cur.covered \in Block
    /\ \A p \in Process :
          eng[p].pc \in {"floor", "setfloor", "close"} => eng[p].page # <<>>

TypeInv == TypeOK /\ Shape

-----------------------------------------------------------------------------
(* The values that steps assign have their types.                          *)

LEMMA NoCursorType == NoCursor \in Cursor
  BY HistoryAssumption DEF NoCursor, Cursor

LEMMA EngineAtType ==
  ASSUME NEW pc \in PC
  PROVE  EngineAt(pc) \in EngineType
  BY NoCursorType DEF EngineAt, EngineType, Mode

LEMMA SmallerType ==
  ASSUME NEW m \in 0..PageBlocks
  PROVE  Smaller(m, PageBlocks) \in 0..PageBlocks
  BY HistoryAssumption DEF Smaller

LEMMA FullCycleType ==
  ASSUME NEW t \in Block \cup {NoBlock}, NEW n \in 0..PageBlocks
  PROVE  FullCycle(t, n) \in Cursor
  BY HistoryAssumption DEF FullCycle, Cursor

LEMMA ExtendCycleType ==
  ASSUME NEW t \in Block \cup {NoBlock}, NEW c \in Block, NEW n \in 0..PageBlocks
  PROVE  ExtendCycle(t, c, n) \in Cursor
  BY ChainAssumption DEF ExtendCycle, Cursor

LEMMA FailingType ==
  ASSUME NEW e \in EngineType, NEW mode \in Mode
  PROVE  Failing(e, mode) \in EngineType /\ Failing(e, mode).pc = "settle"
<1>1. <<>> \in Seq(Block) /\ "settle" \in PC
  BY DEF PC
<1>2. QED
  BY <1>1 DEF Failing, EngineType

\* A nonempty set of naturals has a least element.
LEMMA SmallestExists ==
  ASSUME NEW S \in SUBSET Nat, S # {}
  PROVE  \E i \in S : \A j \in S : i <= j
<1>1. PICK x \in S : \A y \in S : ~ (<<y, x>> \in OpToRel(<, Nat))
  BY NatLessThanWellFounded, WFMin
<1>2. ASSUME NEW y \in S PROVE x <= y
  <2>1. x \in Nat /\ y \in Nat
    OBVIOUS
  <2>2. ~ (y < x)
    BY <1>1, <2>1 DEF OpToRel
  <2>3. QED
    BY <2>1, <2>2
<1>3. QED
  BY <1>2

\* A nonempty prefix of a page is a nonempty page.
LEMMA PrefixType ==
  ASSUME NEW s \in Seq(Block), NEW i \in DOMAIN s
  PROVE  /\ s[i] \in Block
         /\ SubSeq(s, 1, i) \in Seq(Block)
         /\ SubSeq(s, 1, i) # <<>>
<1>1. i \in 1..Len(s) /\ Len(s) \in Nat
  OBVIOUS
<1>2. SubSeq(s, 1, i) \in Seq(Block)
  BY <1>1
<1>3. Len(SubSeq(s, 1, i)) = i
  BY <1>1
<1>4. QED
  BY <1>1, <1>2, <1>3

LEMMA PreparedCycleType ==
  ASSUME TypeInv, NEW t \in Block \cup {NoBlock}
  PROVE  PreparedCycle(t) \in Cursor
<1> DEFINE n == Smaller(row.cur.pageBlocks, PageBlocks)
<1>1. row.cur \in Cursor /\ n \in 0..PageBlocks /\ PageBlocks \in 0..PageBlocks
  BY SmallerType, HistoryAssumption, SMTT(20) DEF TypeInv, TypeOK, Cursor
<1>2. CASE row.status = "complete"
  BY <1>1, <1>2, FullCycleType, ExtendCycleType
     DEF PreparedCycle, TypeInv, Shape
<1>3. CASE row.status # "complete"
  BY <1>1, <1>3, FullCycleType DEF PreparedCycle
<1>4. QED BY <1>2, <1>3

\* The step of one engine keeps the type invariant if the engine's new value
\* is well formed.
LEMMA EngineUpdate ==
  ASSUME TypeInv, NEW p \in Process, NEW e \in EngineType,
         e.pc \in {"floor", "setfloor", "close"} => e.page # <<>>,
         eng' = [eng EXCEPT ![p] = e]
  PROVE  /\ eng' \in [Process -> EngineType]
         /\ \A q \in Process :
               eng'[q].pc \in {"floor", "setfloor", "close"} => eng'[q].page # <<>>
  BY DEF TypeInv, TypeOK, Shape

LEMMA StepPreservesTypes ==
  ASSUME TypeInv, NEW p \in Process, NEW e \in EngineType,
         e.pc \in {"floor", "setfloor", "close"} => e.page # <<>>,
         Step(p, e)
  PROVE  TypeInv'
<1>1. UNCHANGED <<best, known, seen, facts, certified, row, current, activeRun>>
  BY DEF Step, upstreamVars, recordVars
<1>2. QED
  BY <1>1, EngineUpdate DEF Step, TypeInv, TypeOK, Shape

\* The facts a page leaves behind.
LEMMA WithPageType ==
  ASSUME TypeInv, NEW p \in Process, NEW r \in [PageSet(eng[p].page) -> Fact]
  PROVE  WithPage(eng[p].page, r) \in [Block -> SUBSET Fact]
  BY DEF WithPage, TypeInv, TypeOK

\* The parts of the state that no engine step touches.
LEMMA FailPreservesTypes ==
  ASSUME TypeInv, NEW p \in Process, Fail(p)
  PROVE  /\ eng' \in [Process -> EngineType]
         /\ \A q \in Process :
               eng'[q].pc \in {"floor", "setfloor", "close"} => eng'[q].page # <<>>
         /\ activeRun' \in Process \cup {NoProcess}
<1>1. EngineAt("dead") \in EngineType
  BY EngineAtType DEF PC
<1>2. EngineAt("dead").pc = "dead"
  BY DEF EngineAt
<1>3. eng' = [eng EXCEPT ![p] = EngineAt("dead")]
  BY DEF Fail
<1>4. activeRun' \in Process \cup {NoProcess}
  BY DEF Fail, Finished, TypeInv, TypeOK
<1>5. QED
  BY <1>1, <1>2, <1>3, <1>4, EngineUpdate

\* Steps of the source, the lifecycle, the operator and process starts.
LEMMA EnvironmentPreservesTypes ==
  ASSUME TypeInv, Environment
  PROVE  TypeInv'
<1>1. ASSUME NEW t \in Tip, NewTip(t) PROVE TypeInv'
  <2>1. Ancestors[t] \subseteq Block
    BY ChainAssumption, HistoryAssumption
  <2>2. QED
    BY <1>1, <2>1 DEF NewTip, TypeInv, TypeOK, Shape
<1>2. CASE ChangeCurrent
  BY <1>2 DEF ChangeCurrent, upstreamVars, recordVars, TypeInv, TypeOK, Shape
<1>3. CASE OperatorResume
  <2>1. row'.cur = row.cur /\ row'.status = "running"
        /\ row' \in [status : RowStatus, conflict : BOOLEAN, cur : Cursor]
    BY <1>3 DEF OperatorResume, TypeInv, TypeOK, RowStatus
  <2>2. QED
    BY <1>3, <2>1 DEF OperatorResume, upstreamVars, TypeInv, TypeOK, Shape
<1>4. QED
  BY <1>1, <1>2, <1>3 DEF Environment

LEMMA ProcessStepPreservesTypes ==
  ASSUME TypeInv, NEW p \in Process, ProcessStep(p)
  PROVE  TypeInv'
<1>1. /\ EngineAt("dead") \in EngineType /\ EngineAt("dead").pc = "dead"
      /\ EngineAt("idle") \in EngineType /\ EngineAt("idle").pc = "idle"
      /\ EngineAt("scope") \in EngineType /\ EngineAt("scope").pc = "scope"
  BY EngineAtType DEF PC, EngineAt
<1>2. CASE StartProcess(p)
  BY <1>1, <1>2, EngineUpdate
     DEF StartProcess, upstreamVars, recordVars, TypeInv, TypeOK, Shape
<1>3. CASE Crash(p)
  BY <1>1, <1>3, EngineUpdate
     DEF Crash, upstreamVars, recordVars, TypeInv, TypeOK, Shape
<1>4. CASE Interrupt(p)
  BY <1>4, FailPreservesTypes
     DEF Interrupt, upstreamVars, recordVars, TypeInv, TypeOK, Shape
<1>5. ASSUME NEW t \in Tip, RunHistory(p, t) PROVE TypeInv'
  <2> DEFINE e == [EngineAt("scope") EXCEPT !.tip = t]
  <2>1. e \in EngineType /\ e.pc = "scope"
    BY <1>1, HistoryAssumption DEF EngineType
  <2>2. QED
    BY <1>5, <2>1, StepPreservesTypes DEF RunHistory
<1>6. ASSUME NEW r \in Fact, LiveFact(p, r) PROVE TypeInv'
  BY <1>6, HistoryAssumption DEF LiveFact, upstreamVars, TypeInv, TypeOK, Shape
<1>7. QED
  BY <1>2, <1>3, <1>4, <1>5, <1>6 DEF ProcessStep

\* Steps of the engine that only read and decide.
LEMMA DecisionPreservesTypes ==
  ASSUME TypeInv, NEW p \in Process,
         \/ CheckScope(p) \/ CheckQuarantine(p) \/ PrepareCycle(p)
         \/ \E page \in Page : FetchPage(p, page)
         \/ FetchUnavailable(p) \/ FetchTooLarge(p)
         \/ \E mode \in Mode : RpcFailure(p, mode)
         \/ ReadTip(p) \/ \E conclusive \in BOOLEAN : ProbeTarget(p, conclusive)
         \/ FindCertifiedFloor(p) \/ RejectStart(p) \/ RepairBranch(p)
         \/ RefuseHistoryPage(p)
  PROVE  TypeInv'
<1> DEFINE e == eng[p]
<1>0. e \in EngineType /\ "fatal" \in Mode /\ "deferred" \in Mode
  BY DEF TypeInv, TypeOK, Mode
<1>a. EngineAt("idle") \in EngineType /\ EngineAt("idle").pc = "idle"
  BY EngineAtType DEF PC, EngineAt
<1>b. ASSUME NEW t \in Block \cup {NoBlock}, NEW n \in 0..PageBlocks
      PROVE  LET f == [EngineAt("begin") EXCEPT !.prog = FullCycle(t, n)]
             IN  f \in EngineType /\ f.pc = "begin"
  <2>1. EngineAt("begin") \in EngineType
    BY EngineAtType DEF PC
  <2>2. FullCycle(t, n) \in Cursor
    BY FullCycleType
  <2>3. QED
    BY <2>1, <2>2 DEF EngineType, EngineAt
<1>1. CASE CheckScope(p)
  <2> DEFINE f(pc) == [e EXCEPT !.pc = pc]
  <2>1. \A pc \in {"quarantine", "supersede", "fetch"} :
           f(pc) \in EngineType /\ f(pc).pc = pc
    BY <1>0 DEF EngineType, PC
  <2>2. \E pc \in {"quarantine", "supersede", "fetch"} : Step(p, f(pc))
    BY <1>1 DEF CheckScope
  <2>3. QED
    BY <2>1, <2>2, StepPreservesTypes
<1>2. CASE CheckQuarantine(p)
  <2> DEFINE f == [e EXCEPT !.pc = "prepare"]
  <2>1. f \in EngineType /\ f.pc = "prepare"
    BY <1>0 DEF EngineType, PC
  <2>2. Step(p, f) \/ Step(p, EngineAt("idle"))
    BY <1>2 DEF CheckQuarantine
  <2>3. QED
    BY <1>a, <2>1, <2>2, StepPreservesTypes
<1>3. CASE PrepareCycle(p)
  <2> DEFINE c == PreparedCycle(e.tip)
             f == [EngineAt(PrepareNext(row.status)) EXCEPT
                     !.prog = c, !.restarted = (c.floorHash = NoBlock)]
  <2>1. c \in Cursor
    BY <1>0, PreparedCycleType DEF EngineType
  <2>2. PrepareNext(row.status) \in {"loop", "resume", "begin"}
    BY DEF PrepareNext
  <2>3. EngineAt(PrepareNext(row.status)) \in EngineType
    BY <2>2, EngineAtType DEF PC
  <2>4. f \in EngineType /\ f.pc \in {"loop", "resume", "begin"}
    BY <2>1, <2>2, <2>3 DEF EngineType, EngineAt
  <2>5. Step(p, f) \/ Step(p, EngineAt("idle"))
    BY <1>3 DEF PrepareCycle
  <2>6. QED
    BY <1>a, <2>4, <2>5, StepPreservesTypes
<1>4. ASSUME NEW page \in Page, FetchPage(p, page) PROVE TypeInv'
  <2> DEFINE f == [e EXCEPT !.pc = "floor", !.page = page]
  <2>1. f \in EngineType /\ f.page = page /\ page # <<>>
    BY <1>0, <1>4, HistoryAssumption DEF EngineType, PC, FetchPage
  <2>2. Step(p, f) \/ Step(p, Failing(e, "fatal"))
    BY <1>4 DEF FetchPage
  <2>3. QED
    BY <1>0, <2>1, <2>2, FailingType, StepPreservesTypes
<1>5. CASE FetchUnavailable(p) \/ FetchTooLarge(p)
  <2> DEFINE f(pc) == [e EXCEPT !.pc = pc]
  <2>1. \A pc \in {"unavailable", "resize"} : f(pc) \in EngineType /\ f(pc).pc = pc
    BY <1>0 DEF EngineType, PC
  <2>2. \E pc \in {"unavailable", "resize"} : Step(p, f(pc))
    BY <1>5 DEF FetchUnavailable, FetchTooLarge
  <2>3. QED
    BY <2>1, <2>2, StepPreservesTypes
<1>6. ASSUME NEW mode \in Mode, RpcFailure(p, mode) PROVE TypeInv'
  BY <1>0, <1>6, FailingType, StepPreservesTypes DEF RpcFailure
<1>7. CASE ReadTip(p)
  <2> DEFINE f == [e EXCEPT !.pc = "probe", !.tip = best]
  <2>1. f \in EngineType /\ f.pc = "probe"
    BY <1>0, HistoryAssumption DEF EngineType, PC, TypeInv, TypeOK
  <2>2. QED
    BY <1>7, <2>1, StepPreservesTypes DEF ReadTip
<1>8. ASSUME NEW conclusive \in BOOLEAN, ProbeTarget(p, conclusive) PROVE TypeInv'
  <2> DEFINE f == [EngineAt("begin") EXCEPT !.prog = FullCycle(e.tip, e.prog.pageBlocks)]
  <2>1. e.tip \in Block \cup {NoBlock} /\ e.prog.pageBlocks \in 0..PageBlocks
    BY <1>0 DEF EngineType, Cursor
  <2>2. f \in EngineType /\ f.pc = "begin"
    BY <1>b, <2>1
  <2>3. Step(p, f) \/ Step(p, Failing(e, "deferred"))
    BY <1>8 DEF ProbeTarget
  <2>4. QED
    BY <1>0, <2>2, <2>3, FailingType, StepPreservesTypes
<1>9. CASE FindCertifiedFloor(p)
  <2> DEFINE hits == {i \in DOMAIN e.page : e.page[i] \in certified}
             index == CHOOSE i \in hits : \A j \in hits : i <= j
             found == e.page[index]
             g == [e EXCEPT !.pc = "close"]
             f == [e EXCEPT !.pc = "setfloor", !.joined = TRUE,
                            !.page = SubSeq(e.page, 1, index),
                            !.prog.floorHash = Parent[found],
                            !.prog.floorHeight = Height[found] - 1]
  <2>1. e.page \in Seq(Block) /\ e.page # <<>>
    BY <1>0, <1>9 DEF FindCertifiedFloor, At, EngineType, TypeInv, Shape
  <2>2. CASE hits = {}
    <3>1. g \in EngineType /\ g.page # <<>>
      BY <1>0, <2>1 DEF EngineType, PC
    <3>2. Step(p, g)
      BY <1>9, <2>2 DEF FindCertifiedFloor
    <3>3. QED
      BY <3>1, <3>2, StepPreservesTypes
  <2>3. CASE hits # {}
    <3>1. index \in hits
      <4>1. hits \subseteq Nat
        BY <2>1
      <4>2. \E i \in hits : \A j \in hits : i <= j
        BY <2>3, <4>1, SmallestExists
      <4>3. QED
        BY <4>2
    <3>2. index \in DOMAIN e.page
      BY <3>1
    <3> HIDE DEF index
    <3>3. /\ found \in Block
          /\ SubSeq(e.page, 1, index) \in Seq(Block)
          /\ SubSeq(e.page, 1, index) # <<>>
      BY <2>1, <3>2, PrefixType
    <3>4. Parent[found] \in Block \cup {NoBlock} /\ Height[found] - 1 \in Int
      BY <3>3, ChainAssumption
    <3>5. f \in EngineType /\ f.page = SubSeq(e.page, 1, index)
      BY <1>0, <3>3, <3>4 DEF EngineType, PC, Cursor
    <3>6. Step(p, f)
      BY <1>9, <2>3 DEF FindCertifiedFloor, JoinAt, index
    <3>7. QED
      BY <3>3, <3>5, <3>6, StepPreservesTypes
  <2>4. QED
    BY <2>2, <2>3
<1>10. CASE RejectStart(p) \/ RefuseHistoryPage(p)
  <2>1. Step(p, Failing(e, "fatal"))
    BY <1>10 DEF RejectStart, RefuseHistoryPage
  <2>2. QED
    BY <1>0, <2>1, FailingType, StepPreservesTypes
<1>11. CASE RepairBranch(p)
  <2> DEFINE f == [EngineAt("begin") EXCEPT
                     !.prog = FullCycle(e.prog.target, e.prog.pageBlocks)]
  <2>1. e.prog.target \in Block \cup {NoBlock} /\ e.prog.pageBlocks \in 0..PageBlocks
    BY <1>0 DEF EngineType, Cursor
  <2>2. f \in EngineType /\ f.pc = "begin"
    BY <1>b, <2>1
  <2>3. Step(p, f) \/ Step(p, Failing(e, "fatal"))
    BY <1>11 DEF RepairBranch
  <2>4. QED
    BY <1>0, <2>2, <2>3, FailingType, StepPreservesTypes
<1>12. QED
  BY <1>1, <1>2, <1>3, <1>4, <1>5, <1>6, <1>7, <1>8, <1>9, <1>10, <1>11

\* Steps of the engine that write the coverage row or end the process.
LEMMA WritingPreservesTypes ==
  ASSUME TypeInv, NEW p \in Process,
         \/ MarkSuperseded(p) \/ PrepareBelowStart(p) \/ BeginHistoryCycle(p)
         \/ ResumeHistory(p) \/ CursorBelowFloor(p) \/ ResizeHistoryPage(p)
         \/ SetHistoryFloor(p) \/ SettleFailure(p)
  PROVE  TypeInv'
<1> DEFINE e == eng[p]
           RowType == [status : RowStatus, conflict : BOOLEAN, cur : Cursor]
<1>0. /\ e \in EngineType /\ "fatal" \in Mode /\ row \in RowType
      /\ row.status \in RowStatus /\ row.cur \in Cursor
  BY DEF TypeInv, TypeOK, Mode
<1>a. EngineAt("idle") \in EngineType /\ EngineAt("idle").pc = "idle"
  BY EngineAtType DEF PC, EngineAt
<1>b. \A pc \in {"loop", "close"} :
         [e EXCEPT !.pc = pc] \in EngineType /\ [e EXCEPT !.pc = pc].pc = pc
                                            /\ [e EXCEPT !.pc = pc].page = e.page
  BY <1>0 DEF EngineType, PC
<1>1. CASE MarkSuperseded(p)
  <2>1. row' \in RowType /\ row'.cur = row.cur
        /\ (row'.status = "complete" => row.status = "complete")
    BY <1>0, <1>1 DEF MarkSuperseded, RowStatus
  <2>2. QED
    BY <1>1, <1>a, <2>1, EngineUpdate
       DEF MarkSuperseded, upstreamVars, TypeInv, TypeOK, Shape
<1>2. CASE PrepareBelowStart(p) \/ CursorBelowFloor(p)
  <2>1. Fail(p) /\ UNCHANGED <<best, known, seen, facts, certified, row, current>>
    BY <1>2 DEF PrepareBelowStart, CursorBelowFloor, upstreamVars, recordVars
  <2>2. QED
    BY <2>1, FailPreservesTypes DEF TypeInv, TypeOK, Shape
<1>3. CASE BeginHistoryCycle(p)
  <2> DEFINE cycle == e.prog
             covered == IF cycle.covered # NoBlock THEN cycle.covered ELSE row.cur.covered
             cur == [cycle EXCEPT !.covered = covered]
             f == [EngineAt("loop") EXCEPT !.prog = cur,
                                           !.restarted = (cur.floorHash = NoBlock)]
  <2>1. cur \in Cursor
    BY <1>0 DEF EngineType, Cursor
  <2>2. EngineAt("loop") \in EngineType
    BY EngineAtType DEF PC
  <2>3. f \in EngineType /\ f.pc = "loop"
    BY <2>1, <2>2 DEF EngineType, EngineAt
  <2>4. /\ row' = [status |-> "running", conflict |-> FALSE, cur |-> cur]
        /\ eng' = [eng EXCEPT ![p] = f]
        /\ UNCHANGED <<best, known, seen, facts, certified, current, activeRun>>
    BY <1>3 DEF BeginHistoryCycle, upstreamVars
  <2> HIDE DEF cur, f
  <2>5. row' \in RowType /\ row'.status = "running"
    BY <2>1, <2>4 DEF RowStatus
  <2>6. QED
    BY <2>3, <2>4, <2>5, EngineUpdate DEF TypeInv, TypeOK, Shape
<1>4. CASE ResumeHistory(p)
  <2>1. CASE row.status \in {"error", "superseded"}
    <3>1. row' \in RowType /\ row'.status = "running"
      BY <1>0, <1>4, <2>1 DEF ResumeHistory, RowStatus
    <3>2. eng' = [eng EXCEPT ![p] = [e EXCEPT !.pc = "loop"]]
      BY <1>4, <2>1 DEF ResumeHistory
    <3>3. QED
      BY <1>4, <2>1, <1>b, <3>1, <3>2, EngineUpdate
         DEF ResumeHistory, upstreamVars, TypeInv, TypeOK, Shape
  <2>2. CASE row.status \notin {"error", "superseded"}
    BY <1>4, <2>2, FailPreservesTypes
       DEF ResumeHistory, upstreamVars, TypeInv, TypeOK, Shape
  <2>3. QED
    BY <2>1, <2>2
<1>5. CASE ResizeHistoryPage(p)
  <2> DEFINE reduced == ReducedPage(e.prog.pageBlocks)
  <2>1. reduced \in 0..PageBlocks
    <3>1. e.prog.pageBlocks \in 0..PageBlocks
      BY <1>0 DEF EngineType, Cursor
    <3>2. QED
      BY <3>1, HistoryAssumption DEF ReducedPage
  <2>2. CASE row.status = "running"
    <3> DEFINE f == [e EXCEPT !.prog.pageBlocks = reduced, !.pc = "loop"]
    <3> HIDE DEF reduced
    <3>1. f \in EngineType /\ f.pc = "loop"
      BY <1>0, <2>1 DEF EngineType, Cursor, PC
    <3>2. eng' = [eng EXCEPT ![p] = f] /\ row' = [row EXCEPT !.cur.pageBlocks = reduced]
      BY <1>5, <2>2 DEF ResizeHistoryPage, reduced
    <3>3. row' \in RowType /\ row'.status = "running"
      BY <1>0, <2>1, <2>2, <3>2 DEF Cursor
    <3>4. QED
      BY <1>5, <3>1, <3>2, <3>3, EngineUpdate
         DEF ResizeHistoryPage, upstreamVars, TypeInv, TypeOK, Shape
  <2>3. CASE row.status # "running"
    BY <1>0, <1>5, <2>3, FailingType, EngineUpdate
       DEF ResizeHistoryPage, upstreamVars, TypeInv, TypeOK, Shape
  <2>4. QED
    BY <2>2, <2>3
<1>6. CASE SetHistoryFloor(p)
  <2> DEFINE prog == e.prog
  <2>1. prog.floorHash \in Block \cup {NoBlock} /\ prog.floorHeight \in Int
    BY <1>0 DEF EngineType, Cursor
  <2>2. e.page # <<>>
    BY <1>6 DEF SetHistoryFloor, At, TypeInv, Shape
  <2>3. CASE row.status = "running" /\ row.cur.next = prog.next
    <3>1. row' \in RowType /\ row'.status = "running"
      <4> DEFINE c == [row.cur EXCEPT !.floorHash = prog.floorHash,
                                      !.floorHeight = prog.floorHeight]
      <4>1. c \in Cursor
        BY <1>0, <2>1 DEF Cursor
      <4>2. row' = [row EXCEPT !.cur = c]
        BY <1>0, <1>6, <2>3 DEF SetHistoryFloor
      <4>3. QED
        BY <1>0, <2>3, <4>1, <4>2
    <3>2. eng' = [eng EXCEPT ![p] = [e EXCEPT !.pc = "close"]]
      BY <1>6, <2>3 DEF SetHistoryFloor
    <3>3. QED
      BY <1>6, <1>b, <2>2, <2>3, <3>1, <3>2, EngineUpdate
         DEF SetHistoryFloor, upstreamVars, TypeInv, TypeOK, Shape
  <2>4. CASE ~(row.status = "running" /\ row.cur.next = prog.next)
    BY <1>6, <2>4, FailPreservesTypes
       DEF SetHistoryFloor, upstreamVars, TypeInv, TypeOK, Shape
  <2>5. QED
    BY <2>3, <2>4
<1>7. CASE SettleFailure(p)
  <2>1. row' \in RowType /\ row'.cur = row.cur
        /\ (row'.status = "complete" => row.status = "complete")
    BY <1>0, <1>7 DEF SettleFailure, SettledStatus, RowStatus
  <2>2. /\ eng' \in [Process -> EngineType]
        /\ \A q \in Process :
              eng'[q].pc \in {"floor", "setfloor", "close"} => eng'[q].page # <<>>
        /\ activeRun' \in Process \cup {NoProcess}
    <3>1. CASE Fail(p)
      BY <3>1, FailPreservesTypes
    <3>2. CASE eng' = [eng EXCEPT ![p] = EngineAt("idle")] /\ UNCHANGED activeRun
      BY <1>a, <3>2, EngineUpdate DEF TypeInv, TypeOK
    <3>3. QED
      BY <1>7, <3>1, <3>2 DEF SettleFailure
  <2>3. QED
    BY <1>7, <2>1, <2>2 DEF SettleFailure, upstreamVars, TypeInv, TypeOK, Shape
<1>8. QED
  BY <1>1, <1>2, <1>3, <1>4, <1>5, <1>6, <1>7

\* The page transaction: its three outcomes.
LEMMA PagePreservesTypes ==
  ASSUME TypeInv, NEW p \in Process, RecordHistoryPage(p)
  PROVE  TypeInv'
<1> DEFINE e == eng[p]
           RowType == [status : RowStatus, conflict : BOOLEAN, cur : Cursor]
<1>0. /\ e \in EngineType /\ "fatal" \in Mode /\ row \in RowType
      /\ row.cur \in Cursor /\ row.status = "running"
      /\ e.page \in Seq(Block) /\ e.page # <<>>
  BY DEF TypeInv, TypeOK, Shape, Mode, RecordHistoryPage, PageAccepted, At, EngineType
<1>a. EngineAt("idle") \in EngineType /\ EngineAt("idle").pc = "idle"
  BY EngineAtType DEF PC, EngineAt
<1>b. UNCHANGED <<best, known, seen, current, activeRun>>
  BY DEF RecordHistoryPage, upstreamVars
<1>1. PICK r \in [PageSet(e.page) -> Fact] :
         LET f == WithPage(e.page, r)
         IN  CommitConflict(p, f) \/ CommitProgress(p, f) \/ CommitComplete(p, f)
  BY DEF RecordHistoryPage
<1> DEFINE f == WithPage(e.page, r)
<1>2. f \in [Block -> SUBSET Fact]
  BY WithPageType
<1> HIDE DEF f
<1>3. CASE CommitConflict(p, f)
  <2>1. row' \in RowType /\ row'.status = "error"
    BY <1>0, <1>3 DEF CommitConflict, RowStatus
  <2>2. QED
    BY <1>a, <1>b, <1>2, <1>3, <2>1, EngineUpdate
       DEF CommitConflict, TypeInv, TypeOK, Shape
<1>4. CASE CommitProgress(p, f)
  <2> DEFINE next == Parent[Oldest(e.page)]
             g == [e EXCEPT !.pc = "loop", !.page = <<>>, !.prog.next = next]
  <2>1. next \in Block \cup {NoBlock}
    <3>1. Len(e.page) \in 1..Len(e.page)
      BY <1>0
    <3>2. Oldest(e.page) \in Block
      BY <1>0, <3>1 DEF Oldest
    <3>3. QED
      BY <3>2, ChainAssumption
  <2>2. /\ row' = [row EXCEPT !.cur.next = next]
        /\ eng' = [eng EXCEPT ![p] = g]
        /\ facts' = f /\ UNCHANGED certified
    BY <1>4 DEF CommitProgress
  <2> HIDE DEF next
  <2>3. g \in EngineType /\ g.pc = "loop"
    <3>1. <<>> \in Seq(Block) /\ "loop" \in PC
      BY DEF PC
    <3>2. [e.prog EXCEPT !.next = next] \in Cursor
      BY <1>0, <2>1 DEF EngineType, Cursor
    <3>3. QED
      BY <1>0, <3>1, <3>2 DEF EngineType
  <2>4. row' \in RowType /\ row'.status = "running"
    BY <1>0, <2>1, <2>2 DEF Cursor
  <2>5. QED
    BY <1>b, <1>2, <2>2, <2>3, <2>4, EngineUpdate DEF TypeInv, TypeOK, Shape
<1>5. CASE CommitComplete(p, f)
  <2> DEFINE target == row.cur.target
  <2>1. CASE Certifiable(target, f, certified)
    <3>1. target \in Block
      BY <2>1, <1>0, ChainAssumption DEF Certifiable, CertifyPath, Recorded
    <3>2. /\ row' = [row EXCEPT !.status = "complete", !.cur.next = NoBlock,
                                !.cur.covered = target]
          /\ certified' = certified \cup CertifyPath(target, f, certified)
          /\ eng' = [eng EXCEPT ![p] = EngineAt("idle")]
          /\ facts' = f
      BY <1>5, <2>1 DEF CommitComplete
    <3>3. row' \in RowType /\ row'.cur.covered \in Block
      BY <1>0, <3>1, <3>2 DEF Cursor, RowStatus
    <3>4. certified' \subseteq Block
      BY <3>2 DEF CertifyPath, Recorded, TypeInv, TypeOK
    <3>5. QED
      BY <1>a, <1>b, <1>2, <3>2, <3>3, <3>4, EngineUpdate DEF TypeInv, TypeOK, Shape
  <2>2. CASE ~Certifiable(target, f, certified)
    <3>1. UNCHANGED <<facts, certified, row>> /\ eng' = [eng EXCEPT ![p] = Failing(e, "fatal")]
      BY <1>5, <2>2 DEF CommitComplete, recordVars
    <3>2. QED
      BY <1>0, <1>b, <3>1, FailingType, EngineUpdate DEF TypeInv, TypeOK, Shape
  <2>3. QED
    BY <2>1, <2>2
<1>6. QED
  BY <1>1, <1>3, <1>4, <1>5 DEF f

LEMMA TypeInvStep == TypeInv /\ [Next]_vars => TypeInv'
<1> SUFFICES ASSUME TypeInv, [Next]_vars PROVE TypeInv'
  OBVIOUS
<1>1. CASE UNCHANGED vars
  BY <1>1 DEF vars, TypeInv, TypeOK, Shape
<1>2. CASE Next
  BY <1>2, EnvironmentPreservesTypes, ProcessStepPreservesTypes,
     DecisionPreservesTypes, WritingPreservesTypes, PagePreservesTypes
     DEF Next, EngineStep
<1>3. QED
  BY <1>1, <1>2

\* The type invariant holds in every reachable state of the history engine, for
\* every tree, page size and set of processes (TypeOK).
THEOREM TypeCorrect == Spec => []TypeOK
<1>1. Init => TypeInv
  <2> SUFFICES ASSUME Init PROVE TypeInv
    OBVIOUS
  <2>1. EngineAt("dead") \in EngineType /\ EngineAt("dead").pc = "dead"
    BY EngineAtType DEF PC, EngineAt
  <2>2. best \in Block /\ Ancestors[best] \subseteq Block
    BY ChainAssumption, HistoryAssumption DEF Init
  <2>3. row \in [status : RowStatus, conflict : BOOLEAN, cur : Cursor]
        /\ row.status = "absent"
    BY NoCursorType DEF Init, NoRow, RowStatus
  <2>4. QED
    BY <2>1, <2>2, <2>3 DEF Init, TypeInv, TypeOK, Shape
<1>2. TypeInv => TypeOK
  BY DEF TypeInv
<1>3. QED
  BY <1>1, <1>2, TypeInvStep, PTL DEF Spec
-----------------------------------------------------------------------------
(* Certification.                                                          *)

\* What the trigger accepts hangs on the certified prefix: the path from the
\* target is recorded, and the parent of each of its blocks above the start is
\* in the path or certified already.
LEMMA CertifiedPathCloses ==
  ASSUME NEW f \in [Block -> SUBSET Fact], NEW c \in SUBSET Block,
         NEW target \in Block,
         Certifiable(target, f, c),
         \A b \in c : /\ Height[b] >= StartHeight
                      /\ Height[b] > StartHeight => Parent[b] \in c
  PROVE  \A b \in CertifyPath(target, f, c) :
            /\ b \in Recorded(f)
            /\ Height[b] >= StartHeight
            /\ Height[b] > StartHeight => Parent[b] \in c \cup CertifyPath(target, f, c)
<1> DEFINE path == CertifyPath(target, f, c)
           above == Ancestors[target]
<1>1. PICK m \in path : m \in c \/ Height[m] = StartHeight
  BY DEF Certifiable
<1>2. above \subseteq Block /\ path \subseteq above
  BY ChainAssumption DEF CertifyPath
<1>3. m \in above /\ Height[m] \in Nat /\ StartHeight \in Nat /\ Height[m] >= StartHeight
  BY <1>1, <1>2, ChainAssumption, HistoryAssumption
<1>4. \A x \in above : Height[x] > Height[m] => x \in Recorded(f) \ c
  BY <1>1 DEF CertifyPath
<1>5. \A x \in above : Height[x] > Height[m] => Height[x] > StartHeight
  BY <1>1 DEF CertifyPath
<1>6. SUFFICES ASSUME NEW b \in path
               PROVE  /\ b \in Recorded(f)
                      /\ Height[b] >= StartHeight
                      /\ Height[b] > StartHeight => Parent[b] \in c \cup path
  OBVIOUS
<1>7. b \in above /\ b \in Recorded(f) /\ b \in Block /\ Height[b] \in Nat
  BY <1>2, ChainAssumption DEF CertifyPath
<1>8. ~(Height[m] > Height[b])
  <2> SUFFICES ASSUME Height[m] > Height[b] PROVE FALSE
    OBVIOUS
  <2>1. m \notin c /\ Height[m] > StartHeight
    BY <1>3, <1>6 DEF CertifyPath
  <2>2. QED
    BY <1>1, <1>3, <2>1
<1>9. CASE Height[b] = Height[m]
  <2>1. b = m
    BY <1>3, <1>7, <1>9, ChainAssumption
  <2>2. Height[b] > StartHeight => b \in c
    BY <1>1, <1>3, <2>1
  <2>3. QED
    BY <1>3, <1>7, <1>9, <2>2
<1>10. CASE Height[b] > Height[m]
  <2> DEFINE q == Parent[b]
  <2>1. Height[b] > StartHeight /\ Height[b] # 0
    BY <1>3, <1>5, <1>7, <1>10
  <2>2. q # NoBlock /\ q \in Block
    BY <1>7, <2>1, ChainAssumption
  <2>3. Height[q] = Height[b] - 1 /\ Height[q] \in Nat
    BY <1>7, <2>2, ChainAssumption
  <2>4. q \in above
    <3>1. q \in Ancestors[q] /\ Ancestors[b] = {b} \cup Ancestors[q]
      BY <1>7, <2>2, ChainAssumption
    <3>2. Ancestors[b] \subseteq above
      BY <1>7, ChainAssumption
    <3>3. QED
      BY <3>1, <3>2
  <2>5. q \in Recorded(f)
    <3>1. CASE Height[q] = Height[m]
      <4>1. q = m
        BY <1>3, <2>4, <3>1, ChainAssumption
      <4>2. QED
        BY <1>1, <4>1 DEF CertifyPath
    <3>2. CASE Height[q] > Height[m]
      BY <1>4, <2>4, <3>2
    <3>3. QED
      BY <1>3, <1>7, <1>10, <2>3, <3>1, <3>2
  <2>6. ASSUME NEW x \in above, Height[x] > Height[q]
        PROVE  x \in Recorded(f) \ c /\ Height[x] > StartHeight
    <3>1. Height[x] \in Nat
      BY <1>2, ChainAssumption
    <3>2. Height[x] > Height[m]
      BY <1>3, <1>7, <1>10, <2>3, <2>6, <3>1
    <3>3. QED
      BY <1>4, <1>5, <3>2
  <2>7. q \in path
    BY <2>4, <2>5, <2>6 DEF CertifyPath
  <2>8. QED
    BY <1>3, <1>7, <2>1, <2>7
<1>11. QED
  BY <1>3, <1>7, <1>8, <1>9, <1>10

\* A step that certifies nothing and leaves the covered tip alone.
Quiet ==
    /\ certified' = certified
    /\ Recorded(facts) \subseteq Recorded(facts')
    /\ row'.cur.covered = row.cur.covered
    /\ row'.status = "complete" => /\ row.status = "complete"
                                   /\ row'.cur.target = row.cur.target

\* A step that puts the row back to a covered tip an engine remembers.
Restarts ==
    /\ UNCHANGED <<facts, certified>>
    /\ row'.status = "running"
    /\ row'.cur.covered = row.cur.covered
       \/ \E p \in Process : row'.cur.covered = eng[p].prog.covered
                             /\ row'.cur.covered # NoBlock

\* The step that ends a walk.
Certifies ==
    /\ row.cur.target \in Block
    /\ Recorded(facts) \subseteq Recorded(facts')
    /\ Certifiable(row.cur.target, facts', certified)
    /\ Conflicted(facts') = {}
    /\ certified' = certified \cup CertifyPath(row.cur.target, facts', certified)
    /\ row'.cur.covered = row.cur.target
    /\ row'.cur.target = row.cur.target

\* An engine never remembers a covered tip that was not in the row or with it.
Remembers ==
    \A q \in Process :
        eng'[q].prog.covered \in {NoBlock, row.cur.covered, eng[q].prog.covered}

LEMMA PageRecords ==
  ASSUME NEW page, NEW r
  PROVE  Recorded(facts) \subseteq Recorded(WithPage(page, r))
  BY DEF Recorded, WithPage

LEMMA UnchangedIsQuiet ==
  ASSUME UNCHANGED <<facts, certified, row>>
  PROVE  Quiet
<1>1. Recorded(facts') = Recorded(facts)
  BY DEF Recorded
<1>2. QED
  BY <1>1 DEF Quiet

LEMMA StepIsQuiet ==
  ASSUME TypeInv, NEW p \in Process, NEW e, Step(p, e),
         e.prog.covered \in {NoBlock, row.cur.covered, eng[p].prog.covered}
  PROVE  Quiet /\ Remembers
<1>1. eng' = [eng EXCEPT ![p] = e] /\ UNCHANGED <<facts, certified, row>>
  BY DEF Step, recordVars
<1>2. Remembers
  BY <1>1 DEF Remembers, TypeInv, TypeOK
<1>3. Quiet
  BY <1>1, UnchangedIsQuiet, Zenon
<1>4. QED
  BY <1>2, <1>3

\* Everything that is not a step of run_history.
LEMMA OutsideIsQuiet ==
  ASSUME TypeInv,
         Environment \/ \E p \in Process : ProcessStep(p)
  PROVE  Quiet /\ Remembers
<1>a. \A pc : EngineAt(pc).prog.covered = NoBlock
  BY DEF EngineAt, NoCursor
<1>b. Recorded(facts) \subseteq Recorded(facts)
  OBVIOUS
<1>1. CASE Environment
  <2>1. UNCHANGED <<eng, facts, certified>> /\ row'.cur = row.cur
        /\ (row'.status = "complete" => row.status = "complete")
    BY <1>1 DEF Environment, NewTip, ChangeCurrent, OperatorResume, recordVars,
                TypeInv, TypeOK, Cursor
  <2>2. QED
    BY <1>b, <2>1 DEF Quiet, Remembers
<1>2. ASSUME NEW p \in Process, ProcessStep(p) PROVE Quiet /\ Remembers
  <2>1. CASE StartProcess(p) \/ Crash(p) \/ Interrupt(p)
    <3>1. (\E pc : eng' = [eng EXCEPT ![p] = EngineAt(pc)])
          /\ UNCHANGED <<facts, certified, row>>
      BY <2>1 DEF StartProcess, Crash, Interrupt, Fail, recordVars
    <3>2. Remembers
      BY <1>a, <3>1 DEF Remembers, TypeInv, TypeOK
    <3>3. Quiet
      BY <3>1, UnchangedIsQuiet, Zenon
    <3>4. QED
      BY <3>2, <3>3
  <2>2. ASSUME NEW t \in Tip, RunHistory(p, t) PROVE Quiet /\ Remembers
    <3>1. [EngineAt("scope") EXCEPT !.tip = t].prog.covered = NoBlock
      BY DEF EngineAt, NoCursor
    <3>2. QED
      BY <2>2, <3>1, StepIsQuiet DEF RunHistory
  <2>3. ASSUME NEW r \in Fact, LiveFact(p, r) PROVE Quiet /\ Remembers
    <3>1. Recorded(facts) \subseteq Recorded(facts')
      BY <2>3 DEF LiveFact, Recorded, TypeInv, TypeOK
    <3>2. UNCHANGED <<certified, row, eng>>
      BY <2>3 DEF LiveFact
    <3>3. QED
      BY <3>1, <3>2 DEF Quiet, Remembers
  <2>4. QED
    BY <1>2, <2>1, <2>2, <2>3 DEF ProcessStep
<1>3. QED
  BY <1>1, <1>2

\* The steps of run_history that only read and decide.
LEMMA DecisionIsQuiet ==
  ASSUME TypeInv, NEW p \in Process,
         \/ CheckScope(p) \/ CheckQuarantine(p) \/ PrepareCycle(p)
         \/ \E page \in Page : FetchPage(p, page)
         \/ FetchUnavailable(p) \/ FetchTooLarge(p)
         \/ \E mode \in Mode : RpcFailure(p, mode)
         \/ ReadTip(p) \/ \E conclusive \in BOOLEAN : ProbeTarget(p, conclusive)
         \/ FindCertifiedFloor(p) \/ RejectStart(p) \/ RepairBranch(p)
         \/ RefuseHistoryPage(p)
  PROVE  Quiet /\ Remembers
<1> DEFINE e == eng[p]
           Known(g) == g.prog.covered \in {NoBlock, row.cur.covered, e.prog.covered}
<1>0. e \in EngineType
  BY DEF TypeInv, TypeOK
<1>a. \A pc : Known(EngineAt(pc))
  BY DEF EngineAt, NoCursor
<1>b. \A mode : Known(Failing(e, mode))
  BY <1>0 DEF Failing, EngineType
<1>c. \A pc, t : Known([e EXCEPT !.pc = pc]) /\ Known([e EXCEPT !.pc = pc, !.tip = t])
  BY <1>0 DEF EngineType
<1>d. \A t, n : Known([EngineAt("begin") EXCEPT !.prog = FullCycle(t, n)])
  BY DEF EngineAt, FullCycle
<1>1. CASE CheckScope(p) \/ CheckQuarantine(p) \/ FetchUnavailable(p) \/ FetchTooLarge(p)
           \/ ReadTip(p)
  <2>1. \/ \E pc : Step(p, EngineAt(pc)) \/ Step(p, [e EXCEPT !.pc = pc])
        \/ \E pc, t : Step(p, [e EXCEPT !.pc = pc, !.tip = t])
    BY <1>1 DEF CheckScope, CheckQuarantine, FetchUnavailable, FetchTooLarge, ReadTip
  <2>2. QED
    BY <1>a, <1>c, <2>1, StepIsQuiet
<1>2. CASE PrepareCycle(p)
  <2> DEFINE c == PreparedCycle(e.tip)
             f == [EngineAt(PrepareNext(row.status)) EXCEPT
                     !.prog = c, !.restarted = (c.floorHash = NoBlock)]
  <2>1. c.covered \in {NoBlock, row.cur.covered}
    BY DEF PreparedCycle, FullCycle, ExtendCycle
  <2>2. f.prog = c
    BY DEF EngineAt
  <2>3. Step(p, f) \/ Step(p, EngineAt("idle"))
    BY <1>2 DEF PrepareCycle
  <2>4. QED
    BY <1>a, <2>1, <2>2, <2>3, StepIsQuiet
<1>3. ASSUME NEW page \in Page, FetchPage(p, page) PROVE Quiet /\ Remembers
  <2>1. Known([e EXCEPT !.pc = "floor", !.page = page])
    BY <1>0 DEF EngineType
  <2>2. QED
    BY <1>3, <1>b, <2>1, StepIsQuiet DEF FetchPage
<1>4. CASE (\E mode \in Mode : RpcFailure(p, mode)) \/ RejectStart(p) \/ RefuseHistoryPage(p)
  BY <1>4, <1>b, StepIsQuiet DEF RpcFailure, RejectStart, RefuseHistoryPage
<1>5. CASE (\E conclusive \in BOOLEAN : ProbeTarget(p, conclusive)) \/ RepairBranch(p)
  <2>1. \/ \E mode : Step(p, Failing(e, mode))
        \/ \E t, n : Step(p, [EngineAt("begin") EXCEPT !.prog = FullCycle(t, n)])
    BY <1>5 DEF ProbeTarget, RepairBranch
  <2>2. QED
    BY <1>b, <1>d, <2>1, StepIsQuiet
<1>6. CASE FindCertifiedFloor(p)
  <2>1. \A s, h, n : Known([e EXCEPT !.pc = "setfloor", !.joined = TRUE, !.page = s,
                                     !.prog.floorHash = h, !.prog.floorHeight = n])
    BY <1>0 DEF EngineType, Cursor
  <2>2. \/ Step(p, [e EXCEPT !.pc = "close"])
        \/ \E s, h, n : Step(p, [e EXCEPT !.pc = "setfloor", !.joined = TRUE, !.page = s,
                                     !.prog.floorHash = h, !.prog.floorHeight = n])
    BY <1>6, Zenon DEF FindCertifiedFloor, JoinAt
  <2>3. QED
    BY <1>c, <2>1, <2>2, StepIsQuiet
<1>7. QED
  BY <1>1, <1>2, <1>3, <1>4, <1>5, <1>6

\* The steps of run_history that write the row without ending a walk.
LEMMA WritingKeepsCertification ==
  ASSUME TypeInv, NEW p \in Process,
         \/ MarkSuperseded(p) \/ PrepareBelowStart(p) \/ BeginHistoryCycle(p)
         \/ ResumeHistory(p) \/ CursorBelowFloor(p) \/ ResizeHistoryPage(p)
         \/ SetHistoryFloor(p) \/ SettleFailure(p)
  PROVE  (Quiet \/ Restarts) /\ Remembers
<1> DEFINE e == eng[p]
<1>0. /\ e \in EngineType /\ e.prog \in Cursor
      /\ row \in [status : RowStatus, conflict : BOOLEAN, cur : Cursor]
      /\ row.cur \in Cursor
  BY DEF TypeInv, TypeOK, EngineType
<1>a. \A pc : EngineAt(pc).prog.covered = NoBlock
  BY DEF EngineAt, NoCursor
<1>b. \A mode : Failing(e, mode).prog = e.prog
  BY <1>0 DEF Failing, EngineType
<1>1. CASE BeginHistoryCycle(p)
  <2> DEFINE covered == IF e.prog.covered # NoBlock THEN e.prog.covered ELSE row.cur.covered
             cur == [e.prog EXCEPT !.covered = covered]
             f == [EngineAt("loop") EXCEPT !.prog = cur,
                                           !.restarted = (cur.floorHash = NoBlock)]
  <2>1. /\ row' = [status |-> "running", conflict |-> FALSE, cur |-> cur]
        /\ eng' = [eng EXCEPT ![p] = f]
        /\ UNCHANGED <<facts, certified>>
    BY <1>1 DEF BeginHistoryCycle
  <2>2. cur.covered = covered
    BY <1>0 DEF Cursor
  <2>3. f.prog = cur
    BY DEF EngineAt
  <2>4. row'.status = "running" /\ row'.cur.covered = covered
    BY <2>1, <2>2
  <2>5. Restarts
    BY <2>1, <2>4 DEF Restarts
  <2>6. Remembers
    BY <2>1, <2>2, <2>3 DEF Remembers, TypeInv, TypeOK
  <2>7. QED
    BY <2>5, <2>6
<1>2. CASE ~BeginHistoryCycle(p)
  <2>1. UNCHANGED <<facts, certified>>
    BY <1>2 DEF MarkSuperseded, PrepareBelowStart, ResumeHistory, CursorBelowFloor,
                ResizeHistoryPage, SetHistoryFloor, SettleFailure, recordVars
  <2>2. Recorded(facts') = Recorded(facts)
    BY <2>1 DEF Recorded
  <2>3. /\ row'.cur.covered = row.cur.covered /\ row'.cur.target = row.cur.target
        /\ row'.status = "complete" => row.status = "complete"
    <3>1. CASE MarkSuperseded(p)
      BY <1>0, <3>1 DEF MarkSuperseded
    <3>2. CASE PrepareBelowStart(p) \/ CursorBelowFloor(p)
      BY <3>2 DEF PrepareBelowStart, CursorBelowFloor, recordVars
    <3>3. CASE ResumeHistory(p)
      BY <1>0, <3>3 DEF ResumeHistory
    <3>4. CASE ResizeHistoryPage(p)
      <4>1. row' = row \/ \E n : row' = [row EXCEPT !.cur.pageBlocks = n]
        BY <3>4 DEF ResizeHistoryPage
      <4>2. QED
        BY <1>0, <4>1 DEF Cursor
    <3>5. CASE SetHistoryFloor(p)
      <4>1. row' = row \/ \E h, n : row' = [row EXCEPT !.cur.floorHash = h,
                                                       !.cur.floorHeight = n]
        BY <3>5 DEF SetHistoryFloor
      <4>2. QED
        BY <1>0, <4>1, ZenonT(30) DEF Cursor
    <3>6. CASE SettleFailure(p)
      BY <1>0, <3>6 DEF SettleFailure, SettledStatus
    <3>7. QED
      BY <1>2, <3>1, <3>2, <3>3, <3>4, <3>5, <3>6
  <2>5. Quiet
    BY <2>1, <2>2, <2>3 DEF Quiet
  <2>6. Remembers
    <3>1. eng'[p].prog.covered \in {NoBlock, e.prog.covered}
      <4>1. CASE MarkSuperseded(p) \/ PrepareBelowStart(p) \/ CursorBelowFloor(p)
                 \/ SettleFailure(p)
        <5>1. \E pc : eng' = [eng EXCEPT ![p] = EngineAt(pc)]
          BY <4>1 DEF MarkSuperseded, PrepareBelowStart, CursorBelowFloor, SettleFailure, Fail
        <5>2. QED
          BY <1>a, <5>1 DEF TypeInv, TypeOK
      <4>2. CASE ResumeHistory(p) \/ SetHistoryFloor(p)
        <5>1. \E pc : \/ eng' = [eng EXCEPT ![p] = EngineAt(pc)]
                      \/ eng' = [eng EXCEPT ![p] = [e EXCEPT !.pc = pc]]
          BY <4>2 DEF ResumeHistory, SetHistoryFloor, Fail
        <5>2. \A pc : [e EXCEPT !.pc = pc].prog = e.prog
          BY <1>0 DEF EngineType
        <5>3. QED
          BY <1>a, <5>1, <5>2 DEF TypeInv, TypeOK
      <4>3. CASE ResizeHistoryPage(p)
        <5>1. \/ eng' = [eng EXCEPT ![p] = Failing(e, "fatal")]
              \/ \E n : eng' = [eng EXCEPT ![p] = [e EXCEPT !.prog.pageBlocks = n,
                                                            !.pc = "loop"]]
          BY <4>3 DEF ResizeHistoryPage
        <5>2. \A n : [e EXCEPT !.prog.pageBlocks = n, !.pc = "loop"].prog.covered
                       = e.prog.covered
          BY <1>0 DEF EngineType, Cursor
        <5>3. \A g : eng' = [eng EXCEPT ![p] = g] => eng'[p] = g
          BY DEF TypeInv, TypeOK
        <5>4. CASE eng' = [eng EXCEPT ![p] = Failing(e, "fatal")]
          <6>1. eng'[p] = Failing(e, "fatal")
            BY <5>3, <5>4
          <6>2. QED
            BY <1>b, <6>1
        <5>5. ASSUME NEW n, eng' = [eng EXCEPT ![p] = [e EXCEPT !.prog.pageBlocks = n,
                                                                !.pc = "loop"]]
              PROVE  eng'[p].prog.covered = e.prog.covered
          <6>1. eng'[p] = [e EXCEPT !.prog.pageBlocks = n, !.pc = "loop"]
            BY <5>3, <5>5
          <6>2. QED
            BY <5>2, <6>1
        <5>6. QED
          BY <5>1, <5>4, <5>5
      <4>4. QED
        BY <1>2, <4>1, <4>2, <4>3
    <3>2. \A q \in Process \ {p} : eng'[q] = eng[q]
      BY <1>2 DEF MarkSuperseded, PrepareBelowStart, ResumeHistory, CursorBelowFloor,
             ResizeHistoryPage, SetHistoryFloor, SettleFailure, Fail, TypeInv, TypeOK
    <3>3. QED
      BY <3>1, <3>2 DEF Remembers
  <2>7. QED
    BY <2>5, <2>6
<1>3. QED
  BY <1>1, <1>2

\* The page transaction certifies only when it ends a walk.
LEMMA PageEffect ==
  ASSUME TypeInv, NEW p \in Process, RecordHistoryPage(p)
  PROVE  (Quiet \/ Certifies) /\ Remembers
<1> DEFINE e == eng[p]
<1>0. /\ e \in EngineType /\ e.prog \in Cursor
      /\ row \in [status : RowStatus, conflict : BOOLEAN, cur : Cursor]
      /\ row.cur \in Cursor /\ row.status = "running"
  BY DEF TypeInv, TypeOK, EngineType, RecordHistoryPage, PageAccepted
<1>a. \A pc : EngineAt(pc).prog.covered = NoBlock
  BY DEF EngineAt, NoCursor
<1>b. \A mode : Failing(e, mode).prog = e.prog
  BY <1>0 DEF Failing, EngineType
<1>1. PICK r \in [PageSet(e.page) -> Fact] :
         LET f == WithPage(e.page, r)
         IN  CommitConflict(p, f) \/ CommitProgress(p, f) \/ CommitComplete(p, f)
  BY DEF RecordHistoryPage
<1> DEFINE f == WithPage(e.page, r)
<1>2. Recorded(facts) \subseteq Recorded(f)
  BY PageRecords
<1> HIDE DEF f
<1>3. CASE CommitConflict(p, f)
  <2>1. /\ facts' = f /\ certified' = certified /\ row'.status = "error"
        /\ row'.cur = row.cur /\ eng' = [eng EXCEPT ![p] = EngineAt("idle")]
    BY <1>0, <1>3 DEF CommitConflict
  <2>2. QED
    BY <1>a, <1>2, <2>1 DEF Quiet, Remembers, TypeInv, TypeOK
<1>4. CASE CommitProgress(p, f)
  <2> DEFINE next == Parent[Oldest(e.page)]
             g == [e EXCEPT !.pc = "loop", !.page = <<>>, !.prog.next = next]
  <2>1. /\ facts' = f /\ certified' = certified
        /\ row' = [row EXCEPT !.cur.next = next]
        /\ eng' = [eng EXCEPT ![p] = g]
    BY <1>4 DEF CommitProgress
  <2>2. row'.status = "running" /\ row'.cur.covered = row.cur.covered
    BY <1>0, <2>1 DEF Cursor
  <2>3. g.prog.covered = e.prog.covered
    BY <1>0 DEF EngineType, Cursor
  <2>4. QED
    BY <1>2, <2>1, <2>2, <2>3 DEF Quiet, Remembers, TypeInv, TypeOK
<1>5. CASE CommitComplete(p, f)
  <2> DEFINE target == row.cur.target
  <2>1. CASE Certifiable(target, f, certified)
    <3>1. target \in Block
      BY <2>1, <1>0, ChainAssumption DEF Certifiable, CertifyPath, Recorded
    <3>2. /\ row' = [row EXCEPT !.status = "complete", !.cur.next = NoBlock,
                                !.cur.covered = target]
          /\ certified' = certified \cup CertifyPath(target, f, certified)
          /\ eng' = [eng EXCEPT ![p] = EngineAt("idle")]
          /\ facts' = f
      BY <1>5, <2>1 DEF CommitComplete
    <3>3. Conflicted(f) = {}
      BY <1>5 DEF CommitComplete, PageConflict
    <3>4. row'.cur.covered = target /\ row'.cur.target = target
      BY <1>0, <3>2 DEF Cursor
    <3>5. QED
      BY <1>a, <1>2, <2>1, <3>1, <3>2, <3>3, <3>4
         DEF Certifies, Remembers, TypeInv, TypeOK
  <2>2. CASE ~Certifiable(target, f, certified)
    <3>1. UNCHANGED <<facts, certified, row>> /\ eng' = [eng EXCEPT ![p] = Failing(e, "fatal")]
      BY <1>5, <2>2 DEF CommitComplete, recordVars
    <3>2. Quiet
      BY <3>1, UnchangedIsQuiet, Zenon
    <3>3. Remembers
      BY <1>b, <3>1 DEF Remembers, TypeInv, TypeOK
    <3>4. QED
      BY <3>2, <3>3
  <2>3. QED
    BY <2>1, <2>2
<1>6. QED
  BY <1>1, <1>3, <1>4, <1>5 DEF f

LEMMA NextEffect ==
  ASSUME TypeInv, Next
  PROVE  (Quiet \/ Restarts \/ Certifies) /\ Remembers
<1>1. CASE Environment \/ \E p \in Process : ProcessStep(p)
  BY <1>1, OutsideIsQuiet
<1>2. ASSUME NEW p \in Process, EngineStep(p)
      PROVE  (Quiet \/ Restarts \/ Certifies) /\ Remembers
  BY <1>2, DecisionIsQuiet, WritingKeepsCertification, PageEffect DEF EngineStep
<1>3. QED
  BY <1>1, <1>2 DEF Next
-----------------------------------------------------------------------------
(* The inductive invariant.  CoveredTipCertified alone is not inductive: a  *)
(* cycle is begun with the covered tip that the engine read some steps ago, *)
(* so that one must be certified as well.                                   *)

RememberedCertified ==
    \A p \in Process : eng[p].prog.covered # NoBlock => eng[p].prog.covered \in certified

CertInv == TypeInv /\ CertifiedPrefix /\ CoveredTipCertified /\ RememberedCertified

LEMMA CertInvInit == Init => CertInv
<1> SUFFICES ASSUME Init PROVE CertInv
  OBVIOUS
<1>1. EngineAt("dead") \in EngineType /\ EngineAt("dead").pc = "dead"
      /\ EngineAt("dead").prog.covered = NoBlock
  BY EngineAtType DEF PC, EngineAt, NoCursor
<1>2. best \in Block /\ Ancestors[best] \subseteq Block
  BY ChainAssumption, HistoryAssumption DEF Init
<1>3. row \in [status : RowStatus, conflict : BOOLEAN, cur : Cursor]
      /\ row.status = "absent" /\ row.cur.covered = NoBlock
  BY NoCursorType DEF Init, NoRow, NoCursor, RowStatus
<1>4. TypeInv
  BY <1>1, <1>2, <1>3 DEF Init, TypeInv, TypeOK, Shape
<1>5. CertifiedPrefix /\ CoveredTipCertified
  BY <1>3 DEF Init, CertifiedPrefix, CoveredTipCertified
<1>6. RememberedCertified
  BY <1>1 DEF Init, RememberedCertified
<1>7. QED
  BY <1>4, <1>5, <1>6 DEF CertInv

\* What the trigger adds, in the terms of CertifiedPrefix.
LEMMA CertifiesExtendsPrefix ==
  ASSUME CertInv, TypeInv', Certifies
  PROVE  LET S == CertifyPath(row.cur.target, facts', certified)
         IN  /\ row.cur.target \in S /\ S \subseteq Block
             /\ \A b \in S : /\ b \in Recorded(facts')
                             /\ Height[b] >= StartHeight
                             /\ Height[b] > StartHeight => Parent[b] \in certified \cup S
<1> DEFINE S == CertifyPath(row.cur.target, facts', certified)
<1>1. /\ row.cur.target \in Block
      /\ Certifiable(row.cur.target, facts', certified)
      /\ facts' \in [Block -> SUBSET Fact]
      /\ certified \in SUBSET Block
  BY DEF Certifies, CertInv, TypeInv, TypeOK
<1>2. \A b \in certified : /\ Height[b] >= StartHeight
                           /\ Height[b] > StartHeight => Parent[b] \in certified
  BY DEF CertInv, CertifiedPrefix
<1>3. row.cur.target \in S
  BY <1>1 DEF Certifiable
<1>4. S \subseteq Block
  BY DEF CertifyPath, Recorded
<1>5. QED
  BY <1>1, <1>2, <1>3, <1>4, CertifiedPathCloses

LEMMA CertInvStep == CertInv /\ [Next]_vars => CertInv'
<1> SUFFICES ASSUME CertInv, [Next]_vars PROVE CertInv'
  OBVIOUS
<1>0. TypeInv /\ TypeInv'
  BY TypeInvStep DEF CertInv
<1>1. CASE UNCHANGED vars
  BY <1>0, <1>1 DEF vars, CertInv, CertifiedPrefix, CoveredTipCertified,
                    RememberedCertified, Recorded
<1>2. CASE Next
  <2>1. (Quiet \/ Restarts \/ Certifies) /\ Remembers
    BY <1>0, <1>2, NextEffect
  <2>2. certified \subseteq certified' /\ Recorded(facts) \subseteq Recorded(facts')
    <3>1. CASE Restarts
      BY <3>1 DEF Restarts, Recorded
    <3>2. QED
      BY <2>1, <3>1 DEF Quiet, Certifies
  <2>3. CertifiedPrefix'
    <3>1. CASE Quiet \/ Restarts
      <4>1. certified' = certified
        BY <3>1 DEF Quiet, Restarts
      <4>2. QED
        BY <2>2, <4>1 DEF CertInv, CertifiedPrefix
    <3>2. CASE Certifies
      <4> DEFINE S == CertifyPath(row.cur.target, facts', certified)
      <4>1. certified' = certified \cup S
        BY <3>2 DEF Certifies
      <4>2. \A b \in S : /\ b \in Recorded(facts')
                         /\ Height[b] >= StartHeight
                         /\ Height[b] > StartHeight => Parent[b] \in certified \cup S
        BY <1>0, <3>2, CertifiesExtendsPrefix
      <4> HIDE DEF S
      <4>3. QED
        BY <2>2, <4>1, <4>2 DEF CertInv, CertifiedPrefix
    <3>3. QED
      BY <2>1, <3>1, <3>2
  <2>4. CoveredTipCertified'
    <3>1. CASE Quiet
      BY <3>1 DEF Quiet, CertInv, CoveredTipCertified
    <3>2. CASE Restarts
      BY <3>2 DEF Restarts, CertInv, CoveredTipCertified, RememberedCertified
    <3>3. CASE Certifies
      <4>1. row.cur.target \in certified'
        BY <1>0, <3>3, CertifiesExtendsPrefix DEF Certifies
      <4>2. QED
        BY <3>3, <4>1 DEF Certifies, CoveredTipCertified
    <3>4. QED
      BY <2>1, <3>1, <3>2, <3>3
  <2>5. RememberedCertified'
    BY <2>1, <2>2 DEF Remembers, CertInv, CoveredTipCertified, RememberedCertified
  <2>6. QED
    BY <1>0, <2>3, <2>4, <2>5 DEF CertInv
<1>3. QED
  BY <1>1, <1>2

\* Every block in history_certified_block has a fact recorded in its scope and
\* a certified parent, down to the start of the scope: whatever the source
\* answers, however often it reorganises, and whichever processes overlap
\* (certify_history and the walk, CertifiedPrefix).
THEOREM CertifiedPrefixHolds == Spec => []CertifiedPrefix
<1>1. CertInv => CertifiedPrefix
  BY DEF CertInv
<1>2. QED
  BY <1>1, CertInvInit, CertInvStep, PTL DEF Spec

\* The covered tip in history_coverage is always certified, and a row that
\* says complete covers its target (CoveredTipCertified).
THEOREM CoveredTipHolds == Spec => []CoveredTipCertified
<1>1. CertInv => CoveredTipCertified
  BY DEF CertInv
<1>2. QED
  BY <1>1, CertInvInit, CertInvStep, PTL DEF Spec

\* No step withdraws a certification, and a step that certifies leaves no block
\* of the scope with two facts (record_history_page checks the whole scope on
\* its last page; CertifiedUnambiguously).
THEOREM CertificationIsUnambiguous == Spec => CertifiedUnambiguously
<1> DEFINE A == /\ certified \subseteq certified'
                /\ certified' # certified => Conflicted(facts') = {}
<1>1. CertInv /\ [Next]_vars => [A]_vars
  <2> SUFFICES ASSUME CertInv, Next PROVE A
    OBVIOUS
  <2>1. Quiet \/ Restarts \/ Certifies
    BY NextEffect DEF CertInv
  <2>2. QED
    BY <2>1 DEF Quiet, Restarts, Certifies
<1>2. QED
  BY <1>1, CertInvInit, CertInvStep, PTL DEF Spec, CertifiedUnambiguously

\* The engines, the coverage row and the trigger together implement the ledger a
\* reader of the record is promised (CertifiedLedger): recording proves nothing,
\* certification only extends a certified prefix, and the covered tip is one
\* that was certified (LedgerSpec).
THEOREM HistoryImplementsLedger == Spec => LedgerSpec
<1>1. Init => Ledger!LedgerInit
  BY DEF Init, Ledger!LedgerInit, Recorded, NoRow, NoCursor
<1>2. CertInv /\ [Next]_vars => [Ledger!LedgerNext]_(Ledger!ledgerVars)
  <2> SUFFICES ASSUME CertInv, [Next]_vars
               PROVE  [Ledger!LedgerNext]_(Ledger!ledgerVars)
    OBVIOUS
  <2>0. CertInv' /\ TypeInv'
    BY CertInvStep DEF CertInv
  <2>a. Recorded(facts') \in SUBSET Block
    BY DEF Recorded
  <2>1. CASE UNCHANGED vars
    BY <2>1 DEF vars, Ledger!ledgerVars, Recorded
  <2>2. CASE Next
    <3>1. Quiet \/ Restarts \/ Certifies
      BY <2>2, NextEffect DEF CertInv
    <3>2. CASE Quiet
      BY <2>a, <3>2 DEF Quiet, Ledger!LedgerNext, Ledger!Record
    <3>3. CASE Restarts
      <4>1. Recorded(facts') = Recorded(facts) /\ certified' = certified
        BY <3>3 DEF Restarts, Recorded
      <4>2. CASE row'.cur.covered = row.cur.covered
        BY <4>1, <4>2 DEF Ledger!ledgerVars
      <4>3. CASE \E p \in Process : row'.cur.covered = eng[p].prog.covered
                                    /\ row'.cur.covered # NoBlock
        <5>1. row'.cur.covered \in certified /\ row'.cur.covered \in Block
          BY <4>3 DEF CertInv, RememberedCertified, TypeInv, TypeOK
        <5>2. QED
          BY <4>1, <5>1 DEF Ledger!LedgerNext, Ledger!Reposition
      <4>4. QED
        BY <3>3, <4>2, <4>3 DEF Restarts
    <3>4. CASE Certifies
      <4> DEFINE S == CertifyPath(row.cur.target, facts', certified)
                 t == row.cur.target
      <4>1. /\ t \in S /\ S \in SUBSET Block
            /\ \A b \in S : /\ b \in Recorded(facts')
                            /\ Height[b] >= StartHeight
                            /\ Height[b] > StartHeight => Parent[b] \in certified \cup S
        BY <2>0, <3>4, CertifiesExtendsPrefix
      <4>2. /\ t \in Block /\ Recorded(facts) \subseteq Recorded(facts')
            /\ certified' = certified \cup S /\ row'.cur.covered = t
        BY <3>4 DEF Certifies
      <4> HIDE DEF S, t
      <4>3. Ledger!Certify(t, S)
        BY <2>a, <4>1, <4>2 DEF Ledger!Certify
      <4>4. QED
        BY <4>1, <4>2, <4>3 DEF Ledger!LedgerNext
    <3>5. QED
      BY <3>1, <3>2, <3>3, <3>4
  <2>3. QED
    BY <2>1, <2>2
<1>3. QED
  BY <1>1, <1>2, CertInvInit, CertInvStep, PTL
     DEF Spec, LedgerSpec, Ledger!LedgerSpec
-----------------------------------------------------------------------------
(***************************************************************************)
(* The walk.  What an open cursor stands on, so that the page that ends a  *)
(* walk always meets the trigger's demands.                                *)
(***************************************************************************)

OpenStatus == {"running", "error", "superseded"}

Walking == {"begin", "resume", "loop", "fetch", "resize", "unavailable",
            "probe", "floor", "setfloor", "close"}

HasPage == {"floor", "setfloor", "close"}

\* The three floors a cursor may have: the start of the scope, a certified
\* block, or the block below a certified one that is itself the start.
FloorOK(cur, c) ==
    \/ cur.floorHash = NoBlock /\ cur.floorHeight = StartHeight - 1
    \/ cur.floorHash \in c /\ cur.floorHeight = Height[cur.floorHash]
    \/ \E b \in c \cap Ancestors[cur.next] :
          /\ Height[b] = StartHeight
          /\ cur.floorHash = Parent[b]
          /\ cur.floorHeight = StartHeight - 1

CursorOK(cur, c) == cur.target \in Block /\ cur.next \in Block /\ FloorOK(cur, c)

Linked(page) == \A i \in 1..(Len(page) - 1) : page[i + 1] = Parent[page[i]]

\* A verified page starts at the cursor and does not go below the floor; a
\* page that was cut ends at a certified block and its floor is the one below.
PageOK(e, c) ==
    /\ e.page[1] = e.prog.next
    /\ Linked(e.page)
    /\ ~e.joined => Len(e.page) <= Remaining(e.prog)
    /\ e.joined => Oldest(e.page) \in c /\ e.prog.floorHash = Parent[Oldest(e.page)]

EngineOK(e, c) ==
    /\ e.joined => e.pc \in {"setfloor", "close", "settle"}
    /\ e.restarted /\ ~e.joined => e.prog.floorHash = NoBlock
    /\ e.pc \in Walking => CursorOK(e.prog, c)
    /\ e.pc = "begin" => e.prog.next = e.prog.target
    /\ e.pc \in {"scope", "quarantine", "prepare", "probe"} => e.tip \in Block
    /\ e.pc \in HasPage => PageOK(e, c)

RowOK == row.status \in OpenStatus => CursorOK(row.cur, certified)

EnginesOK == \A p \in Process : EngineOK(eng[p], certified)

WalkInv == WalkRecorded /\ StartIdentity /\ RowOK /\ EnginesOK

-----------------------------------------------------------------------------
(* The branch below a block, and a page of it.                             *)

\* The parent of a block on a branch is on that branch, one lower.
LEMMA ParentOnBranch ==
  ASSUME NEW n \in Block, NEW x \in Ancestors[n], Parent[x] # NoBlock
  PROVE  /\ Parent[x] \in Block
         /\ Parent[x] \in Ancestors[n]
         /\ Height[Parent[x]] = Height[x] - 1
<1>1. x \in Block /\ Parent[x] \in Block
  BY ChainAssumption
<1>2. Parent[x] \in Ancestors[Parent[x]] /\ Ancestors[Parent[x]] \subseteq Ancestors[x]
  BY <1>1, ChainAssumption
<1>3. Ancestors[x] \subseteq Ancestors[n]
  BY ChainAssumption
<1>4. QED
  BY <1>1, <1>2, <1>3, ChainAssumption

\* Of two blocks on one branch the lower one is an ancestor of the higher one.
LEMMA LowerIsAncestor ==
  ASSUME NEW n \in Block, NEW x \in Ancestors[n], NEW y \in Ancestors[n],
         Height[x] <= Height[y]
  PROVE  x \in Ancestors[y]
<1> DEFINE Z == {z \in Ancestors[n] : x \in Ancestors[z] /\ Height[z] >= Height[y]}
           S == {Height[z] : z \in Z}
<1>1. Ancestors[n] \subseteq Block /\ n \in Ancestors[n] /\ x \in Block /\ y \in Block
  BY ChainAssumption
<1>2. \A z \in Block : Height[z] \in Nat
  BY ChainAssumption
<1>3. n \in Z
  BY <1>1, ChainAssumption
<1>4. S \in SUBSET Nat /\ S # {}
  BY <1>1, <1>2, <1>3
<1>5. PICK m \in S : \A k \in S : m <= k
  BY <1>4, SmallestExists
<1>6. PICK z \in Z : Height[z] = m
  BY <1>5
<1>7. z \in Block /\ x \in Ancestors[z] /\ Height[z] >= Height[y] /\ z \in Ancestors[n]
  BY <1>1, <1>6
<1>8. CASE Height[z] = Height[y]
  <2>1. z = y
    BY <1>7, <1>8, ChainAssumption
  <2>2. QED
    BY <1>7, <2>1
<1>9. CASE Height[z] # Height[y]
  <2>1. x # z /\ Height[z] > Height[y]
    BY <1>1, <1>2, <1>7, <1>9
  <2>2. Parent[z] # NoBlock /\ x \in Ancestors[Parent[z]]
    BY <1>7, <2>1, ChainAssumption
  <2>3. Parent[z] \in Ancestors[n] /\ Height[Parent[z]] = Height[z] - 1
    BY <1>7, <2>2, ParentOnBranch
  <2>4. Height[Parent[z]] >= Height[y] /\ ~ (m <= Height[Parent[z]])
    BY <1>1, <1>2, <1>6, <1>7, <2>1, <2>3
  <2>5. Height[Parent[z]] \in S
    BY <2>2, <2>3, <2>4
  <2>6. QED
    BY <1>5, <2>4, <2>5
<1>10. QED
  BY <1>8, <1>9

\* A linked page follows the branch of its first block, one height at a time.
LEMMA LinkedPage ==
  ASSUME NEW page \in Seq(Block), page # <<>>, Linked(page)
  PROVE  \A i \in 1..Len(page) : /\ page[i] \in Ancestors[page[1]]
                                 /\ Height[page[i]] = Height[page[1]] - (i - 1)
<1> DEFINE Good(i) == /\ page[i] \in Ancestors[page[1]]
                      /\ Height[page[i]] = Height[page[1]] - (i - 1)
           Bad == {i \in 1..Len(page) : ~Good(i)}
<1>1. Len(page) \in Nat /\ Len(page) >= 1 /\ \A i \in 1..Len(page) : page[i] \in Block
  OBVIOUS
<1>2. SUFFICES ASSUME Bad # {} PROVE FALSE
  OBVIOUS
<1>3. Bad \in SUBSET Nat
  BY <1>1
<1>4. PICK i \in Bad : \A j \in Bad : i <= j
  BY <1>2, <1>3, SmallestExists
<1>5. i \in 1..Len(page) /\ ~Good(i) /\ page[1] \in Block
  BY <1>1, <1>4
<1>6. Height[page[1]] \in Nat /\ page[1] \in Ancestors[page[1]]
  BY <1>5, ChainAssumption
<1>7. i # 1
  <2>1. Good(1)
    BY <1>6
  <2>2. QED
    BY <1>5, <2>1
<1>8. i - 1 \in 1..(Len(page) - 1) /\ i - 1 \in 1..Len(page)
  BY <1>1, <1>5, <1>7
<1>9. Good(i - 1)
  <2>1. ~(i <= i - 1)
    BY <1>8
  <2>2. i - 1 \notin Bad
    BY <1>4, <2>1
  <2>3. QED
    BY <1>8, <2>2
<1>10. page[i] = Parent[page[i - 1]]
  <2>1. page[(i - 1) + 1] = Parent[page[i - 1]]
    BY <1>8 DEF Linked
  <2>2. (i - 1) + 1 = i
    BY <1>8
  <2>3. QED
    BY <2>1, <2>2
<1>11. Parent[page[i - 1]] # NoBlock
  BY <1>1, <1>5, <1>10, ChainAssumption
<1>12. page[i] \in Ancestors[page[1]] /\ Height[page[i]] = Height[page[i - 1]] - 1
  BY <1>5, <1>9, <1>10, <1>11, ParentOnBranch
<1>13. Height[page[i]] = Height[page[1]] - (i - 1)
  BY <1>6, <1>8, <1>9, <1>12
<1>14. QED
  BY <1>5, <1>12, <1>13

\* The oldest block of a page and the blocks between it and the first one.
LEMMA PageReaches ==
  ASSUME NEW page \in Seq(Block), page # <<>>, Linked(page)
  PROVE  /\ Oldest(page) \in PageSet(page)
         /\ Oldest(page) \in Ancestors[page[1]]
         /\ Height[Oldest(page)] = Height[page[1]] - (Len(page) - 1)
         /\ PageSet(page) \subseteq Ancestors[page[1]]
         /\ \A x \in Ancestors[page[1]] : Height[x] >= Height[Oldest(page)] => x \in PageSet(page)
<1>1. Len(page) \in Nat /\ Len(page) \in 1..Len(page) /\ DOMAIN page = 1..Len(page)
  OBVIOUS
<1>2. \A i \in 1..Len(page) : /\ page[i] \in Ancestors[page[1]]
                              /\ Height[page[i]] = Height[page[1]] - (i - 1)
  BY LinkedPage
<1>3. ASSUME NEW x \in Ancestors[page[1]], Height[x] >= Height[Oldest(page)]
      PROVE  x \in PageSet(page)
  <2> DEFINE i == Height[page[1]] - Height[x] + 1
  <2>1. page[1] \in Block /\ x \in Block
    BY <1>1, ChainAssumption
  <2>2. Height[page[1]] \in Nat /\ Height[x] \in Nat /\ Height[x] <= Height[page[1]]
    BY <2>1, ChainAssumption
  <2>3. Height[Oldest(page)] = Height[page[1]] - (Len(page) - 1)
    BY <1>1, <1>2 DEF Oldest
  <2>4. i \in 1..Len(page) /\ Height[x] = Height[page[1]] - (i - 1)
    BY <1>1, <1>3, <2>2, <2>3
  <2>5. page[i] \in Ancestors[page[1]] /\ Height[page[i]] = Height[x]
    BY <1>2, <2>4
  <2>6. page[i] = x
    BY <2>1, <2>5, ChainAssumption
  <2>7. QED
    BY <1>1, <2>4, <2>6 DEF PageSet
<1>4. QED
  BY <1>1, <1>2, <1>3 DEF Oldest, PageSet
-----------------------------------------------------------------------------
(* Engine values that steps assign are sound.                              *)

\* Certification only grows, so what an engine relies on stays true.
LEMMA EngineKeeps ==
  ASSUME NEW e, NEW c, NEW d, c \subseteq d, EngineOK(e, c)
  PROVE  EngineOK(e, d)
<1>1. FloorOK(e.prog, c) => FloorOK(e.prog, d)
  BY DEF FloorOK
<1>2. PageOK(e, c) => PageOK(e, d)
  BY DEF PageOK
<1>3. QED
  BY <1>1, <1>2 DEF EngineOK, CursorOK

LEMMA RestingOK ==
  ASSUME NEW pc \in {"dead", "idle"}, NEW c
  PROVE  EngineOK(EngineAt(pc), c)
  BY DEF EngineAt, EngineOK, Walking, HasPage

LEMMA FailingOK ==
  ASSUME NEW e \in EngineType, NEW mode, NEW c, EngineOK(e, c)
  PROVE  EngineOK(Failing(e, mode), c)
<1> DEFINE f == Failing(e, mode)
<1>1. f.pc = "settle" /\ f.joined = e.joined /\ f.restarted = e.restarted /\ f.prog = e.prog
  BY DEF Failing, EngineType
<1> HIDE DEF f
<1>2. f.pc \notin Walking \cup HasPage \cup {"scope", "quarantine", "prepare"}
  BY <1>1 DEF Walking, HasPage
<1>3. QED
  BY <1>1, <1>2 DEF EngineOK, Walking, f

\* A cycle from a block of the chain down to the start of the scope.
LEMMA FullCycleOK ==
  ASSUME NEW t \in Block, NEW n, NEW c
  PROVE  /\ CursorOK(FullCycle(t, n), c)
         /\ EngineOK([EngineAt("begin") EXCEPT !.prog = FullCycle(t, n)], c)
<1>1. CursorOK(FullCycle(t, n), c) /\ FullCycle(t, n).next = FullCycle(t, n).target
  BY DEF FullCycle, CursorOK, FloorOK
<1>2. QED
  BY <1>1 DEF EngineAt, EngineOK, HasPage

\* The engine keeps its cursor and goes to a step that has no page.
LEMMA MoveOK ==
  ASSUME NEW e \in EngineType, NEW c, EngineOK(e, c),
         e.pc \in Walking \ HasPage,
         NEW pc \in {"loop", "fetch", "resize", "unavailable", "supersede"}
  PROVE  EngineOK([e EXCEPT !.pc = pc], c)
<1> DEFINE f == [e EXCEPT !.pc = pc]
<1>1. f.pc = pc /\ f.joined = e.joined /\ f.restarted = e.restarted /\ f.prog = e.prog
  BY DEF EngineType
<1>2. ~e.joined
  BY DEF EngineOK, HasPage, Walking
<1> HIDE DEF f
<1>3. QED
  BY <1>1, <1>2 DEF EngineOK, HasPage

\* Nothing but the engine of p moves.
LEMMA WalkStep ==
  ASSUME TypeInv, WalkInv, NEW p \in Process, NEW e, Step(p, e), EngineOK(e, certified)
  PROVE  WalkInv'
<1>1. eng' = [eng EXCEPT ![p] = e] /\ UNCHANGED <<facts, certified, row>>
  BY DEF Step, recordVars
<1>2. EnginesOK'
  BY <1>1 DEF WalkInv, EnginesOK, TypeInv, TypeOK
<1>3. QED
  BY <1>1, <1>2 DEF WalkInv, WalkRecorded, StartIdentity, RowOK, Recorded

-----------------------------------------------------------------------------
(* Steps of the source, the lifecycle, the operator and process starts.    *)

LEMMA OutsideKeepsWalk ==
  ASSUME TypeInv, WalkInv, Environment \/ \E p \in Process : ProcessStep(p)
  PROVE  WalkInv'
<1>1. ASSUME NEW t \in Tip, NewTip(t) PROVE WalkInv'
  BY <1>1 DEF NewTip, WalkInv, WalkRecorded, StartIdentity, RowOK, EnginesOK, Recorded
<1>2. CASE ChangeCurrent
  BY <1>2 DEF ChangeCurrent, recordVars,
              WalkInv, WalkRecorded, StartIdentity, RowOK, EnginesOK, Recorded
<1>3. CASE OperatorResume
  <2>1. /\ row'.cur = row.cur /\ row.status \in OpenStatus
        /\ UNCHANGED <<facts, certified, eng>>
    BY <1>3 DEF OperatorResume, Quarantined, OpenStatus, TypeInv, TypeOK
  <2>2. QED
    BY <2>1 DEF WalkInv, WalkRecorded, StartIdentity, RowOK, EnginesOK, Recorded, OpenStatus
<1>4. ASSUME NEW p \in Process, StartProcess(p) \/ Crash(p) \/ Interrupt(p) PROVE WalkInv'
  <2>1. \E pc \in {"dead", "idle"} : eng' = [eng EXCEPT ![p] = EngineAt(pc)]
    BY <1>4 DEF StartProcess, Crash, Interrupt, Fail
  <2>2. UNCHANGED <<facts, certified, row>>
    BY <1>4 DEF StartProcess, Crash, Interrupt, recordVars
  <2>3. EnginesOK'
    BY <2>1, <2>2, RestingOK DEF WalkInv, EnginesOK, TypeInv, TypeOK
  <2>4. QED
    BY <2>2, <2>3 DEF WalkInv, WalkRecorded, StartIdentity, RowOK, Recorded
<1>5. ASSUME NEW p \in Process, NEW t \in Tip, RunHistory(p, t) PROVE WalkInv'
  <2> DEFINE e == [EngineAt("scope") EXCEPT !.tip = t]
  <2>1. EngineOK(e, certified)
    BY HistoryAssumption DEF EngineAt, EngineOK, Walking, HasPage
  <2>2. Step(p, e)
    BY <1>5 DEF RunHistory
  <2> HIDE DEF e
  <2>3. QED
    BY <2>1, <2>2, WalkStep
<1>6. ASSUME NEW p \in Process, NEW r \in Fact, LiveFact(p, r) PROVE WalkInv'
  <2>1. UNCHANGED <<certified, row, eng>> /\ Recorded(facts) \subseteq Recorded(facts')
    BY <1>6 DEF LiveFact, Recorded, TypeInv, TypeOK
  <2>2. QED
    BY <2>1 DEF WalkInv, WalkRecorded, StartIdentity, RowOK, EnginesOK
<1>7. QED
  BY <1>1, <1>2, <1>3, <1>4, <1>5, <1>6 DEF Environment, ProcessStep

-----------------------------------------------------------------------------
(* Steps of the engine that only read and decide.                          *)

\* The cursor a cycle is prepared with.
LEMMA PreparedCycleOK ==
  ASSUME CertInv, WalkInv, NEW t \in Block
  PROVE  /\ CursorOK(PreparedCycle(t), certified)
         /\ PrepareNext(row.status) = "begin" =>
              PreparedCycle(t).next = PreparedCycle(t).target
<1>1. CASE row.status \in OpenStatus
  <2>1. PreparedCycle(t) = row.cur /\ PrepareNext(row.status) \in {"loop", "resume"}
    BY <1>1 DEF PreparedCycle, PrepareNext, OpenStatus
  <2>2. QED
    BY <1>1, <2>1 DEF WalkInv, RowOK
<1>2. CASE row.status = "complete"
  <2>1. row.cur.covered \in certified /\ row.cur.covered \in Block
    BY <1>2 DEF CertInv, CoveredTipCertified, TypeInv, TypeOK
  <2>2. \A n : CursorOK(ExtendCycle(t, row.cur.covered, n), certified)
    BY <2>1 DEF ExtendCycle, CursorOK, FloorOK
  <2>3. QED
    BY <1>2, <2>2, FullCycleOK DEF PreparedCycle, ExtendCycle, FullCycle
<1>3. CASE row.status = "absent"
  BY <1>3, FullCycleOK DEF PreparedCycle, FullCycle
<1>4. QED
  BY <1>1, <1>2, <1>3 DEF CertInv, TypeInv, TypeOK, RowStatus, OpenStatus

\* A block that is certified or at the start of the scope, and lies on the
\* branch of a cursor, gives that cursor a floor just below it.
LEMMA FloorBelowCertified ==
  ASSUME CertInv, NEW b \in certified, NEW cur, b \in Ancestors[cur.next],
         cur.floorHash = Parent[b], cur.floorHeight = Height[b] - 1
  PROVE  FloorOK(cur, certified)
<1>1. b \in Block /\ Height[b] \in Nat /\ Height[b] >= StartHeight /\ StartHeight \in Nat
  BY ChainAssumption, HistoryAssumption DEF CertInv, CertifiedPrefix, TypeInv, TypeOK
<1>2. CASE Height[b] = StartHeight
  BY <1>2 DEF FloorOK
<1>3. CASE Height[b] > StartHeight
  <2>1. Parent[b] \in certified /\ Parent[b] \in Block
    BY <1>3 DEF CertInv, CertifiedPrefix, TypeInv, TypeOK
  <2>2. Height[Parent[b]] = Height[b] - 1
    BY <1>1, <2>1, ChainAssumption
  <2>3. QED
    BY <2>1, <2>2 DEF FloorOK
<1>4. QED
  BY <1>1, <1>2, <1>3

\* find_certified_floor cuts the page at its newest certified block.
LEMMA JoinOK ==
  ASSUME CertInv, NEW e \in EngineType, EngineOK(e, certified), e.pc = "floor",
         e.page # <<>>, NEW i \in DOMAIN e.page, e.page[i] \in certified
  PROVE  EngineOK(JoinAt(e, i), certified)
<1> DEFINE f == JoinAt(e, i)
           s == SubSeq(e.page, 1, i)
           b == e.page[i]
<1>1. /\ e.prog \in Cursor /\ e.page \in Seq(Block) /\ e.page[1] = e.prog.next
      /\ Linked(e.page) /\ e.prog.target \in Block /\ e.prog.next \in Block
  BY DEF EngineType, EngineOK, Walking, HasPage, PageOK, CursorOK
<1>2. i \in 1..Len(e.page) /\ Len(e.page) \in Nat
  BY <1>1
<1>3. /\ f.pc = "setfloor" /\ f.joined = TRUE /\ f.page = s
      /\ f.prog.target = e.prog.target /\ f.prog.next = e.prog.next
      /\ f.prog.floorHash = Parent[b] /\ f.prog.floorHeight = Height[b] - 1
  BY <1>1 DEF JoinAt, EngineType, Cursor
<1>4. Len(s) = i /\ \A j \in 1..i : s[j] = e.page[j]
  BY <1>1, <1>2
<1>5. s[1] = e.page[1] /\ Oldest(s) = b
  BY <1>2, <1>4 DEF Oldest
<1>6. Linked(s)
  <2> SUFFICES ASSUME NEW j \in 1..(i - 1) PROVE s[j + 1] = Parent[s[j]]
    BY <1>4 DEF Linked
  <2>1. /\ j \in 1..i /\ j + 1 \in 1..i /\ j \in 1..(Len(e.page) - 1)
    BY <1>2
  <2>2. s[j] = e.page[j] /\ s[j + 1] = e.page[j + 1]
    BY <1>4, <2>1
  <2>3. e.page[j + 1] = Parent[e.page[j]]
    BY <1>1, <2>1 DEF Linked
  <2>4. QED
    BY <2>2, <2>3
<1>7. b \in Ancestors[e.prog.next]
  BY <1>1, <1>2, LinkedPage
<1> HIDE DEF f, s, b
<1>8. FloorOK(f.prog, certified)
  BY <1>3, <1>7, FloorBelowCertified DEF b
<1>9. PageOK(f, certified)
  BY <1>1, <1>3, <1>5, <1>6 DEF PageOK, b
<1>10. QED
  BY <1>1, <1>3, <1>8, <1>9 DEF EngineOK, CursorOK, f

LEMMA DecisionKeepsWalk ==
  ASSUME CertInv, WalkInv, NEW p \in Process,
         \/ CheckScope(p) \/ CheckQuarantine(p) \/ PrepareCycle(p)
         \/ \E page \in Page : FetchPage(p, page)
         \/ FetchUnavailable(p) \/ FetchTooLarge(p)
         \/ \E mode \in Mode : RpcFailure(p, mode)
         \/ ReadTip(p) \/ \E conclusive \in BOOLEAN : ProbeTarget(p, conclusive)
         \/ FindCertifiedFloor(p) \/ RejectStart(p) \/ RepairBranch(p)
         \/ RefuseHistoryPage(p)
  PROVE  WalkInv'
<1> DEFINE e == eng[p]
<1>0. TypeInv /\ e \in EngineType /\ EngineOK(e, certified)
  BY DEF CertInv, TypeInv, TypeOK, WalkInv, EnginesOK
<1>a. \A f : Step(p, f) /\ EngineOK(f, certified) => WalkInv'
  BY <1>0, WalkStep
<1>b. \A mode : EngineOK(Failing(e, mode), certified)
  BY <1>0, FailingOK
<1>c. EngineOK(EngineAt("idle"), certified)
  BY RestingOK
<1>1. CASE CheckScope(p)
  <2>1. CASE At(p, "scope")
    <3> DEFINE f(pc) == [e EXCEPT !.pc = pc]
    <3>1. \A pc \in {"quarantine", "supersede"} : EngineOK(f(pc), certified)
      BY <1>0, <2>1 DEF At, EngineOK, EngineType, Walking, HasPage
    <3>2. \E pc \in {"quarantine", "supersede"} : Step(p, f(pc))
      BY <1>1, <2>1 DEF CheckScope, At
    <3> HIDE DEF f
    <3>3. QED
      BY <1>a, <3>1, <3>2
  <2>2. CASE At(p, "loop")
    <3> DEFINE f(pc) == [e EXCEPT !.pc = pc]
    <3>1. \A pc \in {"fetch", "supersede"} : EngineOK(f(pc), certified)
      BY <1>0, <2>2, MoveOK DEF At, Walking, HasPage
    <3>2. \E pc \in {"fetch", "supersede"} : Step(p, f(pc))
      BY <1>1, <2>2 DEF CheckScope, At
    <3> HIDE DEF f
    <3>3. QED
      BY <1>a, <3>1, <3>2
  <2>3. QED
    BY <1>1, <2>1, <2>2 DEF CheckScope
<1>2. CASE CheckQuarantine(p)
  <2> DEFINE f == [e EXCEPT !.pc = "prepare"]
  <2>1. EngineOK(f, certified)
    BY <1>0, <1>2 DEF CheckQuarantine, At, EngineOK, EngineType, Walking, HasPage
  <2>2. Step(p, f) \/ Step(p, EngineAt("idle"))
    BY <1>2 DEF CheckQuarantine
  <2> HIDE DEF f
  <2>3. QED
    BY <1>a, <1>c, <2>1, <2>2
<1>3. CASE PrepareCycle(p)
  <2> DEFINE c == PreparedCycle(e.tip)
             n == PrepareNext(row.status)
             f == [EngineAt(n) EXCEPT !.prog = c, !.restarted = (c.floorHash = NoBlock)]
  <2>1. e.tip \in Block
    BY <1>0, <1>3 DEF PrepareCycle, At, EngineOK
  <2>2. CursorOK(c, certified) /\ (n = "begin" => c.next = c.target)
    BY <2>1, PreparedCycleOK
  <2>3. n \in {"loop", "resume", "begin"}
    BY DEF PrepareNext
  <2> HIDE DEF c, n
  <2>4. /\ f.pc = n /\ f.prog = c /\ f.joined = FALSE
        /\ f.restarted = (c.floorHash = NoBlock)
    BY DEF EngineAt
  <2>5. Step(p, f) \/ Step(p, EngineAt("idle"))
    BY <1>3 DEF PrepareCycle, c, n
  <2> HIDE DEF f
  <2>6. EngineOK(f, certified)
    BY <2>2, <2>3, <2>4 DEF EngineOK, HasPage
  <2>7. QED
    BY <1>a, <1>c, <2>5, <2>6
<1>4. ASSUME NEW page \in Page, FetchPage(p, page) PROVE WalkInv'
  <2> DEFINE f == [e EXCEPT !.pc = "floor", !.page = page]
  <2>1. \/ Step(p, Failing(e, "fatal"))
        \/ Step(p, f) /\ VerifyPage(page, e.prog.next, Requested(e.prog))
    BY <1>4 DEF FetchPage
  <2>2. ASSUME VerifyPage(page, e.prog.next, Requested(e.prog))
        PROVE  EngineOK(f, certified)
    <3>1. /\ f.pc = "floor" /\ f.page = page /\ f.prog = e.prog
          /\ f.joined = e.joined /\ f.restarted = e.restarted
      BY <1>0 DEF EngineType
    <3>2. e.pc = "fetch" /\ ~e.joined /\ CursorOK(e.prog, certified)
      BY <1>0, <1>4 DEF FetchPage, Fetching, At, EngineOK, Walking
    <3>3. page[1] = e.prog.next /\ Linked(page)
      BY <2>2 DEF VerifyPage, Linked
    <3>4. Len(page) <= Remaining(e.prog)
      <4>1. e.prog \in Cursor /\ Height[e.prog.next] \in Nat
        BY <1>0, <3>2, ChainAssumption DEF EngineType, CursorOK
      <4>2. Remaining(e.prog) \in Int /\ e.prog.pageBlocks \in Int
        BY <4>1 DEF Remaining, Cursor
      <4>3. page \in Seq(Block) /\ Len(page) \in Nat
        BY HistoryAssumption
      <4>4. QED
        BY <2>2, <4>2, <4>3 DEF VerifyPage, Requested, Smaller
    <3> HIDE DEF f
    <3>5. PageOK(f, certified)
      BY <3>1, <3>2, <3>3, <3>4 DEF PageOK
    <3>6. QED
      BY <1>0, <3>1, <3>2, <3>5 DEF EngineOK
  <2> HIDE DEF f
  <2>3. QED
    BY <1>a, <1>b, <2>1, <2>2
<1>5. CASE FetchUnavailable(p) \/ FetchTooLarge(p)
  <2> DEFINE f(pc) == [e EXCEPT !.pc = pc]
  <2>1. e.pc = "fetch"
    BY <1>5 DEF FetchUnavailable, FetchTooLarge, Fetching, At
  <2>2. \A pc \in {"unavailable", "resize"} : EngineOK(f(pc), certified)
    BY <1>0, <2>1, MoveOK DEF Walking, HasPage
  <2>3. \E pc \in {"unavailable", "resize"} : Step(p, f(pc))
    BY <1>5 DEF FetchUnavailable, FetchTooLarge
  <2> HIDE DEF f
  <2>4. QED
    BY <1>a, <2>2, <2>3
<1>6. ASSUME NEW mode \in Mode, RpcFailure(p, mode) PROVE WalkInv'
  BY <1>a, <1>b, <1>6 DEF RpcFailure
<1>7. CASE ReadTip(p)
  <2> DEFINE f == [e EXCEPT !.pc = "probe", !.tip = best]
  <2>1. Step(p, f) /\ e.pc = "unavailable"
    BY <1>7 DEF ReadTip, At
  <2>2. best \in Block
    BY <1>0, HistoryAssumption DEF TypeInv, TypeOK
  <2>3. EngineOK(f, certified)
    BY <1>0, <2>1, <2>2 DEF EngineOK, EngineType, Walking, HasPage
  <2> HIDE DEF f
  <2>4. QED
    BY <1>a, <2>1, <2>3
<1>8. ASSUME NEW conclusive \in BOOLEAN, ProbeTarget(p, conclusive) PROVE WalkInv'
  <2> DEFINE f == [EngineAt("begin") EXCEPT !.prog = FullCycle(e.tip, e.prog.pageBlocks)]
  <2>1. e.tip \in Block
    BY <1>0, <1>8 DEF ProbeTarget, At, EngineOK
  <2>2. EngineOK(f, certified)
    BY <2>1, FullCycleOK
  <2>3. Step(p, f) \/ Step(p, Failing(e, "deferred"))
    BY <1>8 DEF ProbeTarget
  <2> HIDE DEF f
  <2>4. QED
    BY <1>a, <1>b, <2>2, <2>3
<1>9. CASE FindCertifiedFloor(p)
  <2> DEFINE hits == {i \in DOMAIN e.page : e.page[i] \in certified}
             index == CHOOSE i \in hits : \A j \in hits : i <= j
             g == [e EXCEPT !.pc = "close"]
  <2>1. e.pc = "floor" /\ e.page \in Seq(Block) /\ e.page # <<>>
    BY <1>0, <1>9 DEF FindCertifiedFloor, At, EngineType, TypeInv, Shape
  <2>2. CASE hits = {}
    <3>1. Step(p, g)
      BY <1>9, <2>2 DEF FindCertifiedFloor
    <3>2. /\ g.pc = "close" /\ g.page = e.page /\ g.prog = e.prog
          /\ g.joined = e.joined /\ g.restarted = e.restarted
      BY <1>0 DEF EngineType
    <3> HIDE DEF g
    <3>3. EngineOK(g, certified)
      BY <1>0, <2>1, <3>2 DEF EngineOK, PageOK, Walking, HasPage
    <3>4. QED
      BY <1>a, <3>1, <3>3
  <2>3. CASE hits # {}
    <3>1. hits \subseteq Nat
      BY <2>1
    <3>2. \E i \in hits : \A j \in hits : i <= j
      BY <2>3, <3>1, SmallestExists
    <3>3. index \in hits
      BY <3>2
    <3>4. index \in DOMAIN e.page /\ e.page[index] \in certified
      BY <3>3
    <3>5. Step(p, JoinAt(e, index))
      BY <1>9, <2>3 DEF FindCertifiedFloor
    <3> HIDE DEF index
    <3>6. EngineOK(JoinAt(e, index), certified)
      BY <1>0, <2>1, <3>4, JoinOK
    <3>7. QED
      BY <1>a, <3>5, <3>6
  <2>4. QED
    BY <2>2, <2>3
<1>10. CASE RejectStart(p) \/ RefuseHistoryPage(p)
  BY <1>a, <1>b, <1>10 DEF RejectStart, RefuseHistoryPage
<1>11. CASE RepairBranch(p)
  <2> DEFINE f == [EngineAt("begin") EXCEPT
                     !.prog = FullCycle(e.prog.target, e.prog.pageBlocks)]
  <2>1. e.prog.target \in Block
    BY <1>0, <1>11 DEF RepairBranch, At, EngineOK, Walking, CursorOK
  <2>2. EngineOK(f, certified)
    BY <2>1, FullCycleOK
  <2>3. Step(p, f) \/ Step(p, Failing(e, "fatal"))
    BY <1>11 DEF RepairBranch
  <2> HIDE DEF f
  <2>4. QED
    BY <1>a, <1>b, <2>2, <2>3
<1>12. QED
  BY <1>1, <1>2, <1>3, <1>4, <1>5, <1>6, <1>7, <1>8, <1>9, <1>10, <1>11
-----------------------------------------------------------------------------
(* Steps of the engine that write the coverage row or end the process.     *)

LEMMA EnginesMove ==
  ASSUME TypeInv, WalkInv, NEW p \in Process, NEW e, eng' = [eng EXCEPT ![p] = e],
         certified \subseteq certified', EngineOK(e, certified')
  PROVE  EnginesOK'
<1>1. \A q \in Process : eng'[q] = IF q = p THEN e ELSE eng[q]
  BY DEF TypeInv, TypeOK
<1>2. \A q \in Process : EngineOK(eng[q], certified')
  BY EngineKeeps DEF WalkInv, EnginesOK
<1>3. QED
  BY <1>1, <1>2 DEF EnginesOK

\* An open row whose cursor did not move stays sound while the record grows.
LEMMA SameCursor ==
  ASSUME WalkInv, certified' = certified, Recorded(facts) \subseteq Recorded(facts'),
         row'.status \in OpenStatus =>
            /\ row.status \in OpenStatus
            /\ row'.cur.target = row.cur.target /\ row'.cur.next = row.cur.next
            /\ CursorOK(row'.cur, certified)
  PROVE  WalkRecorded' /\ StartIdentity' /\ RowOK'
<1>1. WalkRecorded'
  BY DEF WalkInv, WalkRecorded, OpenStatus
<1>2. QED
  BY <1>1 DEF WalkInv, StartIdentity, RowOK

LEMMA WritingKeepsWalk ==
  ASSUME CertInv, WalkInv, NEW p \in Process,
         \/ MarkSuperseded(p) \/ PrepareBelowStart(p) \/ BeginHistoryCycle(p)
         \/ ResumeHistory(p) \/ CursorBelowFloor(p) \/ ResizeHistoryPage(p)
         \/ SetHistoryFloor(p) \/ SettleFailure(p)
  PROVE  WalkInv'
<1> DEFINE e == eng[p]
<1>0. /\ TypeInv /\ e \in EngineType /\ EngineOK(e, certified) /\ e.prog \in Cursor
      /\ row \in [status : RowStatus, conflict : BOOLEAN, cur : Cursor] /\ row.cur \in Cursor
  BY DEF CertInv, TypeInv, TypeOK, WalkInv, EnginesOK, EngineType
<1>a. /\ EngineOK(EngineAt("dead"), certified) /\ EngineOK(EngineAt("idle"), certified)
      /\ \A mode : EngineOK(Failing(e, mode), certified)
  BY <1>0, RestingOK, FailingOK
<1>b. UNCHANGED <<facts, certified>>
  BY DEF MarkSuperseded, PrepareBelowStart, BeginHistoryCycle, ResumeHistory,
         CursorBelowFloor, ResizeHistoryPage, SetHistoryFloor, SettleFailure, recordVars
<1>c. ASSUME NEW f, eng' = [eng EXCEPT ![p] = f], EngineOK(f, certified) PROVE EnginesOK'
  BY <1>0, <1>b, <1>c, EnginesMove
<1>d. ASSUME Fail(p) PROVE EnginesOK'
  BY <1>a, <1>c, <1>d DEF Fail
<1>e. ASSUME EnginesOK',
             row'.status \in OpenStatus =>
                /\ row.status \in OpenStatus
                /\ row'.cur.target = row.cur.target /\ row'.cur.next = row.cur.next
                /\ CursorOK(row'.cur, certified)
      PROVE  WalkInv'
  <2>1. Recorded(facts) \subseteq Recorded(facts')
    BY <1>b
  <2>2. WalkRecorded' /\ StartIdentity' /\ RowOK'
    BY <1>b, <1>e, <2>1, SameCursor
  <2>3. QED
    BY <1>e, <2>2 DEF WalkInv
<1>f. ASSUME EnginesOK', row'.cur = row.cur,
             row'.status \in OpenStatus => row.status \in OpenStatus
      PROVE  WalkInv'
  BY <1>e, <1>f DEF WalkInv, RowOK
<1>1. CASE MarkSuperseded(p)
  <2>1. row'.cur = row.cur /\ (row'.status \in OpenStatus => row.status \in OpenStatus)
    BY <1>0, <1>1 DEF MarkSuperseded, OpenStatus
  <2>2. EnginesOK'
    BY <1>1, <1>a, <1>c DEF MarkSuperseded
  <2>3. QED
    BY <1>f, <2>1, <2>2
<1>2. CASE PrepareBelowStart(p) \/ CursorBelowFloor(p)
  <2>1. Fail(p) /\ row' = row
    BY <1>2 DEF PrepareBelowStart, CursorBelowFloor, recordVars
  <2>2. QED
    BY <1>d, <1>f, <2>1
<1>3. CASE BeginHistoryCycle(p)
  <2> DEFINE cycle == e.prog
             covered == IF cycle.covered # NoBlock THEN cycle.covered ELSE row.cur.covered
             cur == [cycle EXCEPT !.covered = covered]
             f == [EngineAt("loop") EXCEPT !.prog = cur,
                                           !.restarted = (cur.floorHash = NoBlock)]
  <2>1. CursorOK(cycle, certified) /\ cycle.next = cycle.target
    BY <1>0, <1>3 DEF BeginHistoryCycle, At, EngineOK, Walking
  <2>2. /\ cur.target = cycle.target /\ cur.next = cycle.next
        /\ cur.floorHash = cycle.floorHash /\ cur.floorHeight = cycle.floorHeight
    BY <1>0 DEF Cursor
  <2>3. /\ row' = [status |-> "running", conflict |-> FALSE, cur |-> cur]
        /\ eng' = [eng EXCEPT ![p] = f]
    BY <1>3 DEF BeginHistoryCycle
  <2> HIDE DEF cur
  <2>4. CursorOK(cur, certified) /\ cur.next = cur.target /\ cur.target \in Block
    BY <2>1, <2>2 DEF CursorOK, FloorOK
  <2>5. /\ f.pc = "loop" /\ f.prog = cur /\ f.joined = FALSE
        /\ f.restarted = (cur.floorHash = NoBlock)
    BY DEF EngineAt
  <2> HIDE DEF f
  <2>6. EngineOK(f, certified)
    BY <2>4, <2>5 DEF EngineOK, HasPage
  <2>7. EnginesOK'
    BY <1>c, <2>3, <2>6
  <2>8. row'.cur = cur
    BY <2>3
  <2>9. WalkRecorded'
    <3>1. cur.next \in Ancestors[cur.target]
      BY <2>4, ChainAssumption
    <3>2. \A b \in Ancestors[cur.target] : ~(Height[b] > Height[cur.next])
      <4>1. ASSUME NEW b \in Ancestors[cur.target] PROVE ~(Height[b] > Height[cur.next])
        <5>1. b \in Block
          BY <2>4, ChainAssumption
        <5>2. Height[b] \in Nat /\ Height[cur.next] \in Nat /\ Height[b] <= Height[cur.next]
          BY <2>4, <5>1, ChainAssumption
        <5>3. QED
          BY <5>2
      <4>2. QED
        BY <4>1
    <3>3. QED
      BY <2>8, <3>1, <3>2 DEF WalkRecorded
  <2>10. RowOK' /\ StartIdentity'
    BY <1>b, <2>4, <2>8 DEF RowOK, StartIdentity, WalkInv
  <2>11. QED
    BY <2>7, <2>9, <2>10 DEF WalkInv
<1>4. CASE ResumeHistory(p)
  <2>1. CASE row.status \in {"error", "superseded"}
    <3>1. /\ eng' = [eng EXCEPT ![p] = [e EXCEPT !.pc = "loop"]]
          /\ row' = [row EXCEPT !.status = "running", !.conflict = FALSE]
      BY <1>4, <2>1 DEF ResumeHistory
    <3>2. EngineOK([e EXCEPT !.pc = "loop"], certified)
      BY <1>0, <1>4, MoveOK DEF ResumeHistory, At, Walking, HasPage
    <3>3. EnginesOK'
      BY <1>c, <3>1, <3>2
    <3>4. row'.cur = row.cur /\ row.status \in OpenStatus
      BY <1>0, <2>1, <3>1 DEF OpenStatus
    <3>5. QED
      BY <1>f, <3>3, <3>4
  <2>2. CASE row.status \notin {"error", "superseded"}
    <3>1. Fail(p) /\ row' = row
      BY <1>4, <2>2 DEF ResumeHistory
    <3>2. QED
      BY <1>d, <1>f, <3>1
  <2>3. QED
    BY <2>1, <2>2
<1>5. CASE ResizeHistoryPage(p)
  <2> DEFINE n == ReducedPage(e.prog.pageBlocks)
             f == [e EXCEPT !.prog.pageBlocks = n, !.pc = "loop"]
  <2>1. CASE row.status = "running"
    <3>1. row' = [row EXCEPT !.cur.pageBlocks = n] /\ eng' = [eng EXCEPT ![p] = f]
      BY <1>5, <2>1 DEF ResizeHistoryPage
    <3>2. /\ f.pc = "loop" /\ f.joined = e.joined /\ f.restarted = e.restarted
          /\ f.prog.target = e.prog.target /\ f.prog.next = e.prog.next
          /\ f.prog.floorHash = e.prog.floorHash /\ f.prog.floorHeight = e.prog.floorHeight
      BY <1>0 DEF EngineType, Cursor
    <3>3. /\ row'.cur.target = row.cur.target /\ row'.cur.next = row.cur.next
          /\ row'.cur.floorHash = row.cur.floorHash
          /\ row'.cur.floorHeight = row.cur.floorHeight
      BY <1>0, <3>1 DEF Cursor
    <3> HIDE DEF f
    <3>4. e.pc = "resize" /\ ~e.joined /\ CursorOK(e.prog, certified)
      BY <1>0, <1>5 DEF ResizeHistoryPage, At, EngineOK, Walking
    <3>5. CursorOK(f.prog, certified)
      BY <3>2, <3>4 DEF CursorOK, FloorOK
    <3>6. EngineOK(f, certified)
      BY <1>0, <3>2, <3>4, <3>5 DEF EngineOK, HasPage
    <3>7. EnginesOK'
      BY <1>c, <3>1, <3>6
    <3>8. row.status \in OpenStatus /\ CursorOK(row.cur, certified)
      BY <2>1 DEF OpenStatus, WalkInv, RowOK
    <3>9. CursorOK(row'.cur, certified)
      BY <3>3, <3>8 DEF CursorOK, FloorOK
    <3>10. QED
      BY <1>e, <3>3, <3>7, <3>8, <3>9
  <2>2. CASE row.status # "running"
    <3>1. row' = row /\ eng' = [eng EXCEPT ![p] = Failing(e, "fatal")]
      BY <1>5, <2>2 DEF ResizeHistoryPage
    <3>2. EnginesOK'
      BY <1>a, <1>c, <3>1
    <3>3. QED
      BY <1>f, <3>1, <3>2
  <2>3. QED
    BY <2>1, <2>2
<1>6. CASE SetHistoryFloor(p)
  <2> DEFINE f == [e EXCEPT !.pc = "close"]
  <2>1. CASE row.status = "running" /\ row.cur.next = e.prog.next
    <3>1. /\ row' = [row EXCEPT !.cur.floorHash = e.prog.floorHash,
                                !.cur.floorHeight = e.prog.floorHeight]
          /\ eng' = [eng EXCEPT ![p] = f]
      BY <1>6, <2>1 DEF SetHistoryFloor
    <3>2. /\ f.pc = "close" /\ f.page = e.page /\ f.prog = e.prog
          /\ f.joined = e.joined /\ f.restarted = e.restarted
      BY <1>0 DEF EngineType
    <3>3. /\ row'.cur.target = row.cur.target /\ row'.cur.next = row.cur.next
          /\ row'.cur.floorHash = e.prog.floorHash
          /\ row'.cur.floorHeight = e.prog.floorHeight
      BY <1>0, <3>1 DEF Cursor
    <3> HIDE DEF f
    <3>4. e.pc = "setfloor" /\ CursorOK(e.prog, certified) /\ PageOK(e, certified)
      BY <1>0, <1>6 DEF SetHistoryFloor, At, EngineOK, Walking, HasPage
    <3>5. PageOK(f, certified)
      BY <3>2, <3>4 DEF PageOK
    <3>6. EngineOK(f, certified)
      BY <1>0, <3>2, <3>4, <3>5 DEF EngineOK
    <3>7. EnginesOK'
      BY <1>c, <3>1, <3>6
    <3>8. row.status \in OpenStatus /\ CursorOK(row.cur, certified)
      BY <2>1 DEF OpenStatus, WalkInv, RowOK
    <3>9. CursorOK(row'.cur, certified)
      BY <2>1, <3>3, <3>4, <3>8 DEF CursorOK, FloorOK
    <3>10. QED
      BY <1>e, <3>3, <3>7, <3>8, <3>9
  <2>2. CASE ~(row.status = "running" /\ row.cur.next = e.prog.next)
    <3>1. Fail(p) /\ row' = row
      BY <1>6, <2>2 DEF SetHistoryFloor
    <3>2. QED
      BY <1>d, <1>f, <3>1
  <2>3. QED
    BY <2>1, <2>2
<1>7. CASE SettleFailure(p)
  <2>1. row'.cur = row.cur /\ (row'.status \in OpenStatus => row.status \in OpenStatus)
    BY <1>0, <1>7 DEF SettleFailure, SettledStatus, OpenStatus
  <2>2. Fail(p) \/ eng' = [eng EXCEPT ![p] = EngineAt("idle")]
    BY <1>7 DEF SettleFailure
  <2>3. EnginesOK'
    BY <1>a, <1>c, <1>d, <2>2
  <2>4. QED
    BY <1>f, <2>1, <2>3
<1>8. QED
  BY <1>1, <1>2, <1>3, <1>4, <1>5, <1>6, <1>7

-----------------------------------------------------------------------------
(* The page that ends a walk.                                              *)

\* What an engine about to write its page knows of it, of the row and of the
\* branch of the row's target.
LEMMA ClosingPage ==
  ASSUME CertInv, WalkInv, NEW p \in Process, At(p, "close"), PageAccepted(p)
  PROVE  LET e == eng[p]
             old == Oldest(e.page)
         IN  /\ e \in EngineType /\ e.page \in Seq(Block) /\ e.page # <<>>
             /\ Linked(e.page) /\ e.page[1] = e.prog.next
             /\ row.cur.next = e.prog.next
             /\ row.cur.target \in Block /\ row.cur.next \in Ancestors[row.cur.target]
             /\ old \in PageSet(e.page) /\ old \in Ancestors[row.cur.next]
             /\ old \in Ancestors[row.cur.target] /\ old \in Block
             /\ Height[old] = Height[row.cur.next] - (Len(e.page) - 1)
             /\ FloorOK(e.prog, certified) /\ FloorOK(row.cur, certified)
<1> DEFINE e == eng[p]
<1>1. /\ e \in EngineType /\ e.page \in Seq(Block) /\ e.page # <<>>
      /\ EngineOK(e, certified) /\ e.pc = "close"
  BY DEF At, CertInv, TypeInv, TypeOK, Shape, WalkInv, EnginesOK, EngineType
<1>2. Linked(e.page) /\ e.page[1] = e.prog.next /\ CursorOK(e.prog, certified)
  BY <1>1 DEF EngineOK, Walking, HasPage, PageOK
<1>3. row.status = "running" /\ row.cur.next = e.prog.next /\ CursorOK(row.cur, certified)
  BY DEF PageAccepted, WalkInv, RowOK, OpenStatus
<1>4. row.cur.target \in Block /\ row.cur.next \in Ancestors[row.cur.target]
  BY <1>3 DEF CursorOK, WalkInv, WalkRecorded
<1>5. /\ Oldest(e.page) \in PageSet(e.page) /\ Oldest(e.page) \in Ancestors[row.cur.next]
      /\ Height[Oldest(e.page)] = Height[row.cur.next] - (Len(e.page) - 1)
  BY <1>1, <1>2, <1>3, PageReaches
<1>6. Oldest(e.page) \in Ancestors[row.cur.target] /\ Oldest(e.page) \in Block
  BY <1>4, <1>5, ChainAssumption
<1>7. QED
  BY <1>1, <1>2, <1>3, <1>4, <1>5, <1>6 DEF CursorOK

\* With the page, the branch of the target is recorded down to its oldest block.
LEMMA PageFillsBranch ==
  ASSUME CertInv, WalkInv, NEW p \in Process, At(p, "close"), PageAccepted(p),
         NEW r \in [PageSet(eng[p].page) -> Fact],
         NEW x \in Ancestors[row.cur.target], Height[x] >= Height[Oldest(eng[p].page)]
  PROVE  x \in Recorded(WithPage(eng[p].page, r))
<1> DEFINE e == eng[p]
           t == row.cur.target
           n == row.cur.next
<1>1. /\ e.page \in Seq(Block) /\ e.page # <<>> /\ Linked(e.page) /\ e.page[1] = n
      /\ t \in Block /\ n \in Ancestors[t]
  BY ClosingPage
<1>2. x \in Block /\ n \in Block
  BY <1>1, ChainAssumption
<1>3. Height[x] \in Nat /\ Height[n] \in Nat
  BY <1>2, ChainAssumption
<1>4. CASE Height[x] > Height[n]
  <2>1. x \in Recorded(facts)
    BY <1>4 DEF PageAccepted, WalkInv, WalkRecorded
  <2>2. QED
    BY <2>1, PageRecords
<1>5. CASE Height[x] <= Height[n]
  <2>1. x \in Ancestors[n]
    BY <1>1, <1>5, LowerIsAncestor
  <2>2. x \in PageSet(e.page)
    BY <1>1, <2>1, PageReaches
  <2>3. QED
    BY <1>2, <2>2 DEF Recorded, WithPage
<1>6. QED
  BY <1>3, <1>4, <1>5

\* Under the last page the walk stands on a certified block of the target's
\* branch, or has reached the start of the scope, at the expected block.
LEMMA FinalAnchor ==
  ASSUME CertInv, WalkInv, NEW p \in Process, At(p, "close"), PageAccepted(p),
         Completes(eng[p]), ~FloorMismatch(eng[p])
  PROVE  \E a \in Ancestors[row.cur.target] :
            /\ a \in certified \/ Height[a] = StartHeight
            /\ a \in certified \/ Height[a] >= Height[Oldest(eng[p].page)]
            /\ Height[a] >= Height[Oldest(eng[p].page)] - 1
            /\ ~StartMismatch(eng[p]) /\ StartHash # NoBlock /\ a \notin certified
                  => a = StartHash
<1> DEFINE e == eng[p]
           t == row.cur.target
           old == Oldest(e.page)
<1>1. /\ e \in EngineType /\ e.page \in Seq(Block) /\ e.page # <<>>
      /\ row.cur.next = e.prog.next /\ t \in Block /\ e.prog.next \in Ancestors[t]
      /\ old \in Ancestors[e.prog.next] /\ old \in Ancestors[t] /\ old \in Block
      /\ Height[old] = Height[e.prog.next] - (Len(e.page) - 1)
      /\ FloorOK(e.prog, certified)
  BY ClosingPage
<1>2. /\ EngineOK(e, certified) /\ e.pc = "close" /\ e.prog.next \in Block
      /\ certified \subseteq Block
  BY <1>1, ChainAssumption DEF At, CertInv, TypeInv, TypeOK, WalkInv, EnginesOK
<1>3. Height[old] \in Nat /\ Height[e.prog.next] \in Nat /\ Len(e.page) \in Nat
      /\ StartHeight \in Nat
  BY <1>1, <1>2, ChainAssumption, HistoryAssumption
<1> HIDE DEF old, t
<1>4. CASE e.joined
  <2>1. old \in certified
    BY <1>2, <1>4 DEF EngineOK, HasPage, PageOK, old
  <2>2. QED
    BY <1>1, <1>3, <2>1 DEF old, t
<1>5. CASE ~e.joined
  <2>1. Len(e.page) = Remaining(e.prog)
    BY <1>5 DEF Completes
  <2>2. e.prog.floorHeight \in Int
    BY <1>1 DEF EngineType, Cursor
  <2>3. Height[old] = e.prog.floorHeight + 1
    BY <1>1, <1>3, <2>1, <2>2 DEF Remaining
  <2>4. CASE e.prog.floorHash = NoBlock /\ e.prog.floorHeight = StartHeight - 1
    <3>1. Height[old] = StartHeight
      BY <1>3, <2>3, <2>4
    <3>2. ~StartMismatch(e) /\ StartHash # NoBlock => old = StartHash
      BY <2>4 DEF StartMismatch, old
    <3>3. QED
      BY <1>1, <1>3, <3>1, <3>2 DEF old, t
  <2>5. CASE e.prog.floorHash \in certified /\ e.prog.floorHeight = Height[e.prog.floorHash]
    <3>1. e.prog.floorHash # NoBlock
      BY <1>2, <2>5, ChainAssumption
    <3>2. Parent[old] = e.prog.floorHash
      BY <3>1 DEF FloorMismatch, old
    <3>3. Parent[old] \in Ancestors[t] /\ Height[Parent[old]] = Height[old] - 1
      BY <1>1, <3>1, <3>2, ParentOnBranch
    <3>4. QED
      BY <1>3, <2>5, <3>2, <3>3 DEF old, t
  <2>6. ASSUME NEW b \in certified \cap Ancestors[e.prog.next], Height[b] = StartHeight,
               e.prog.floorHeight = StartHeight - 1
        PROVE  old \in certified
    <3>1. Height[old] = Height[b]
      BY <1>3, <2>3, <2>6
    <3>2. old = b
      BY <1>1, <1>2, <3>1, ChainAssumption
    <3>3. QED
      BY <3>2
  <2>7. CASE old \in certified
    BY <1>1, <1>3, <2>7 DEF old, t
  <2>8. QED
    BY <1>1, <2>4, <2>5, <2>6, <2>7 DEF FloorOK
<1>6. QED
  BY <1>4, <1>5

\* The trigger accepts the page that the engine offers as the last one.
LEMMA LastPageCertifiable ==
  ASSUME CertInv, WalkInv, NEW p \in Process, At(p, "close"), PageAccepted(p),
         Completes(eng[p]), ~FloorMismatch(eng[p]),
         NEW r \in [PageSet(eng[p].page) -> Fact],
         ~PageConflict(eng[p], WithPage(eng[p].page, r))
  PROVE  Certifiable(row.cur.target, WithPage(eng[p].page, r), certified)
<1> DEFINE e == eng[p]
           t == row.cur.target
           old == Oldest(e.page)
           f == WithPage(e.page, r)
           Stop == {x \in Ancestors[t] : x \in certified \/ Height[x] = StartHeight}
           Depth(x) == Height[t] - Height[x]
           S == {Depth(x) : x \in Stop}
<1>1. /\ t \in Block /\ old \in Block /\ old \in Ancestors[t]
      /\ Ancestors[t] \subseteq Block /\ t \in Ancestors[t]
  BY ClosingPage, ChainAssumption
<1>2. \A x \in Ancestors[t] : Height[x] \in Nat /\ Height[x] <= Height[t] /\ Height[t] \in Nat
  BY <1>1, ChainAssumption
<1>3. \A x \in Ancestors[t] : Height[x] >= Height[old] => x \in Recorded(f)
  BY PageFillsBranch
<1>4. PICK a \in Ancestors[t] :
         /\ a \in certified \/ Height[a] = StartHeight
         /\ a \in certified \/ Height[a] >= Height[old]
         /\ Height[a] >= Height[old] - 1
  BY FinalAnchor
<1>5. Recorded(facts) \subseteq Recorded(f)
  BY PageRecords
<1>6. \A x \in certified : x \in Recorded(f) /\ Height[x] >= StartHeight
  BY <1>5 DEF CertInv, CertifiedPrefix
<1>7. Conflicted(f) = {}
  BY DEF PageConflict
<1> HIDE DEF f, old, t
<1>8. \A x \in Ancestors[t] : Height[x] >= Height[a] => x \in Recorded(f)
  <2> SUFFICES ASSUME NEW x \in Ancestors[t], Height[x] >= Height[a] PROVE x \in Recorded(f)
    OBVIOUS
  <2>1. CASE Height[x] = Height[a]
    <3>1. x = a
      BY <1>1, <2>1, ChainAssumption
    <3>2. QED
      BY <1>3, <1>4, <1>6, <3>1
  <2>2. CASE Height[x] # Height[a]
    <3>1. Height[old] \in Nat /\ Height[a] \in Nat /\ Height[x] \in Nat
      BY <1>1, <1>2
    <3>2. Height[x] >= Height[old]
      BY <1>4, <2>2, <3>1
    <3>3. QED
      BY <1>3, <3>2
  <2>3. QED
    BY <2>1, <2>2
<1>9. S \in SUBSET Nat /\ S # {}
  <2>1. \A x \in Stop : Depth(x) \in Nat
    BY <1>2
  <2>2. a \in Stop
    BY <1>4
  <2>3. QED
    BY <2>1, <2>2
<1>10. PICK m \in S : \A k \in S : m <= k
  BY <1>9, SmallestExists
<1>11. PICK top \in Stop : Depth(top) = m
  BY <1>10
<1>12. \A x \in Stop : Height[x] <= Height[top]
  <2> SUFFICES ASSUME NEW x \in Stop PROVE Height[x] <= Height[top]
    OBVIOUS
  <2>1. Depth(top) <= Depth(x)
    BY <1>10, <1>11
  <2>2. QED
    BY <1>2, <2>1
<1>13. top \in Ancestors[t] /\ a \in Stop /\ Height[top] >= StartHeight
  <2>1. Height[top] \in Nat /\ StartHeight \in Nat
    BY <1>2, HistoryAssumption
  <2>2. QED
    BY <1>4, <1>6, <2>1
<1>14. top \in CertifyPath(t, f, certified)
  <2>1. top \in Recorded(f)
    <3>1. Height[top] >= Height[a]
      BY <1>2, <1>12, <1>13
    <3>2. QED
      BY <1>8, <1>13, <3>1
  <2>2. ASSUME NEW x \in Ancestors[t], Height[x] > Height[top]
        PROVE  x \in Recorded(f) \ certified /\ Height[x] > StartHeight
    <3>1. /\ Height[x] \in Nat /\ Height[top] \in Nat /\ Height[a] \in Nat
          /\ StartHeight \in Nat
      BY <1>2, <1>13, HistoryAssumption
    <3>2. x \notin Stop
      BY <1>12, <2>2, <3>1
    <3>3. Height[x] >= Height[a] /\ Height[x] > StartHeight
      BY <1>12, <1>13, <2>2, <3>1
    <3>4. QED
      BY <1>8, <3>2, <3>3
  <2>3. QED
    BY <1>13, <2>1, <2>2 DEF CertifyPath
<1>15. t \in CertifyPath(t, f, certified)
  <2>1. t \in Recorded(f)
    BY <1>1, <1>2, <1>8
  <2>2. \A x \in Ancestors[t] : ~(Height[x] > Height[t])
    BY <1>2
  <2>3. QED
    BY <1>1, <2>1, <2>2 DEF CertifyPath
<1>16. CertifyPath(t, f, certified) \cap Conflicted(f) = {}
  BY <1>7
<1>17. QED
  BY <1>11, <1>14, <1>15, <1>16 DEF Certifiable, f, t

\* What the last page adds to the proof table has the expected start block.
LEMMA LastPageStart ==
  ASSUME CertInv, WalkInv, NEW p \in Process, At(p, "close"), PageAccepted(p),
         Completes(eng[p]), ~StartMismatch(eng[p]), ~FloorMismatch(eng[p]), NEW f,
         StartHash # NoBlock,
         NEW b \in CertifyPath(row.cur.target, f, certified), Height[b] = StartHeight
  PROVE  b = StartHash
<1> DEFINE t == row.cur.target
<1>1. t \in Block /\ certified \subseteq Block
  BY ClosingPage DEF CertInv, TypeInv, TypeOK
<1>2. PICK a \in Ancestors[t] :
         /\ a \in certified \/ Height[a] = StartHeight
         /\ a \notin certified => a = StartHash
  BY FinalAnchor
<1>3. b \in Ancestors[t] /\ (Height[a] > Height[b] => a \notin certified)
  BY <1>2 DEF CertifyPath
<1>4. a \in Block /\ Height[a] \in Nat /\ StartHeight \in Nat
  BY <1>1, <1>2, ChainAssumption, HistoryAssumption
<1> HIDE DEF t
<1>5. CASE a \in certified
  <2>1. Height[a] >= StartHeight
    BY <1>5 DEF CertInv, CertifiedPrefix
  <2>2. Height[a] = Height[b]
    BY <1>3, <1>4, <1>5, <2>1
  <2>3. a = b
    BY <1>1, <1>2, <1>3, <2>2, ChainAssumption
  <2>4. QED
    BY <1>5, <2>3 DEF WalkInv, StartIdentity
<1>6. CASE a \notin certified
  <2>1. Height[a] = Height[b] /\ a = StartHash
    BY <1>2, <1>6
  <2>2. QED
    BY <1>1, <1>2, <1>3, <2>1, ChainAssumption
<1>7. QED
  BY <1>5, <1>6

\* A page that does not end the walk moves both cursors to the block below it.
LEMMA ProgressKeepsWalk ==
  ASSUME CertInv, WalkInv, NEW p \in Process, At(p, "close"), PageAccepted(p),
         NEW r \in [PageSet(eng[p].page) -> Fact],
         CommitProgress(p, WithPage(eng[p].page, r))
  PROVE  WalkInv'
<1> DEFINE e == eng[p]
           t == row.cur.target
           n == row.cur.next
           old == Oldest(e.page)
           next == Parent[old]
           f == WithPage(e.page, r)
           g == [e EXCEPT !.pc = "loop", !.page = <<>>, !.prog.next = next]
<1>0. /\ TypeInv /\ row.cur \in Cursor /\ e.prog \in Cursor /\ row.status = "running"
      /\ row \in [status : RowStatus, conflict : BOOLEAN, cur : Cursor]
      /\ EngineOK(e, certified) /\ e.pc = "close"
  BY DEF CertInv, TypeInv, TypeOK, EngineType, PageAccepted, At, WalkInv, EnginesOK
<1>1. /\ e \in EngineType /\ e.page \in Seq(Block) /\ e.page # <<>>
      /\ n = e.prog.next /\ t \in Block /\ n \in Ancestors[t]
      /\ old \in Ancestors[n] /\ old \in Ancestors[t] /\ old \in Block
      /\ Height[old] = Height[n] - (Len(e.page) - 1)
      /\ FloorOK(e.prog, certified) /\ FloorOK(row.cur, certified)
  BY ClosingPage
<1>2. /\ facts' = f /\ certified' = certified /\ ~Completes(e)
      /\ row' = [row EXCEPT !.cur.next = next] /\ eng' = [eng EXCEPT ![p] = g]
  BY DEF CommitProgress
<1>3. /\ row'.cur.target = t /\ row'.cur.next = next
      /\ row'.cur.floorHash = row.cur.floorHash
      /\ row'.cur.floorHeight = row.cur.floorHeight
  BY <1>0, <1>2 DEF Cursor
<1>4. /\ g.pc = "loop" /\ g.joined = e.joined /\ g.restarted = e.restarted
      /\ g.prog.target = e.prog.target /\ g.prog.next = next
      /\ g.prog.floorHash = e.prog.floorHash /\ g.prog.floorHeight = e.prog.floorHeight
  BY <1>0, <1>1 DEF EngineType, Cursor
<1>5. \A x \in Ancestors[t] : Height[x] >= Height[old] => x \in Recorded(f)
  BY PageFillsBranch
<1> HIDE DEF f, g, old
<1>6. /\ n \in Block /\ Height[n] \in Nat /\ Height[old] \in Nat /\ StartHeight \in Nat
      /\ Len(e.page) \in Nat /\ e.prog.floorHeight \in Int
  <2>1. n \in Block
    BY <1>1, ChainAssumption
  <2>2. Height[n] \in Nat /\ Height[old] \in Nat
    BY <1>1, <2>1, ChainAssumption
  <2>3. Len(e.page) \in Nat /\ e.prog.floorHeight \in Int
    BY <1>0, <1>1 DEF Cursor
  <2>4. QED
    BY <2>1, <2>2, <2>3, HistoryAssumption
\* The page stops above the floor, and no floor lies below the scope's start.
<1>7. ~e.joined /\ Len(e.page) < Remaining(e.prog)
  <2>1. ~e.joined /\ Len(e.page) # Remaining(e.prog)
    BY <1>2 DEF Completes
  <2>2. Len(e.page) <= Remaining(e.prog)
    BY <1>0, <2>1 DEF EngineOK, HasPage, PageOK
  <2>3. Remaining(e.prog) \in Int
    BY <1>1, <1>6 DEF Remaining
  <2>4. QED
    BY <1>6, <2>1, <2>2, <2>3
<1>8. e.prog.floorHeight >= StartHeight - 1
  <2>1. \A b \in certified : Height[b] \in Nat /\ Height[b] >= StartHeight
    BY <1>0, ChainAssumption DEF CertInv, CertifiedPrefix, TypeInv, TypeOK
  <2>2. QED
    BY <1>1, <1>6, <2>1 DEF FloorOK
<1>9. Height[old] > StartHeight
  BY <1>1, <1>6, <1>7, <1>8 DEF Remaining
<1>10. next # NoBlock
  BY <1>1, <1>6, <1>9, ChainAssumption
<1>11. /\ next \in Block /\ next \in Ancestors[t] /\ next \in Ancestors[n]
       /\ Height[next] = Height[old] - 1
  BY <1>1, <1>6, <1>10, ParentOnBranch
<1>12. ASSUME NEW cur, NEW new, cur.next = n, FloorOK(cur, certified), new.next = next,
              new.floorHash = cur.floorHash, new.floorHeight = cur.floorHeight
       PROVE  FloorOK(new, certified)
  <2>1. ASSUME NEW b \in certified \cap Ancestors[n], Height[b] = StartHeight
        PROVE  b \in Ancestors[next]
    <3>1. Height[b] <= Height[next]
      BY <1>6, <1>9, <1>11, <2>1
    <3>2. QED
      BY <1>6, <1>11, <3>1, LowerIsAncestor
  <2> HIDE DEF n, next
  <2>2. QED
    BY <1>12, <2>1 DEF FloorOK
<1>13. CursorOK(row'.cur, certified)
  BY <1>1, <1>3, <1>11, <1>12 DEF CursorOK
<1>14. EngineOK(g, certified)
  <2>1. e.prog.target \in Block
    BY <1>0 DEF EngineOK, Walking, CursorOK
  <2>2. FloorOK(g.prog, certified)
    BY <1>1, <1>4, <1>12
  <2>3. CursorOK(g.prog, certified)
    BY <1>4, <1>11, <2>1, <2>2 DEF CursorOK
  <2>4. QED
    BY <1>0, <1>4, <1>7, <2>3 DEF EngineOK, HasPage
<1>15. EnginesOK'
  BY <1>0, <1>2, <1>14, EnginesMove
<1>16. WalkRecorded'
  <2>1. ASSUME NEW b \in Ancestors[t], Height[b] > Height[next] PROVE b \in Recorded(f)
    <3>1. b \in Block /\ Height[b] \in Nat
      BY <1>1, ChainAssumption
    <3>2. Height[b] >= Height[old]
      BY <1>6, <1>11, <2>1, <3>1
    <3>3. QED
      BY <1>5, <3>2
  <2>2. row'.cur.next \in Ancestors[row'.cur.target]
    BY <1>3, <1>11
  <2>3. \A b \in Ancestors[row'.cur.target] :
           Height[b] > Height[row'.cur.next] => b \in Recorded(facts')
    BY <1>2, <1>3, <2>1
  <2>4. QED
    BY <2>2, <2>3 DEF WalkRecorded
<1>17. RowOK' /\ StartIdentity'
  BY <1>2, <1>13 DEF RowOK, WalkInv, StartIdentity
<1>18. QED
  BY <1>15, <1>16, <1>17 DEF WalkInv

LEMMA PageKeepsWalk ==
  ASSUME CertInv, WalkInv, NEW p \in Process, RecordHistoryPage(p)
  PROVE  WalkInv'
<1> DEFINE e == eng[p]
<1>0. /\ TypeInv /\ e \in EngineType /\ EngineOK(e, certified)
      /\ row \in [status : RowStatus, conflict : BOOLEAN, cur : Cursor]
      /\ row.cur \in Cursor /\ row.status = "running"
  BY DEF CertInv, TypeInv, TypeOK, WalkInv, EnginesOK, RecordHistoryPage, PageAccepted
<1>1. At(p, "close") /\ PageAccepted(p) /\ ~StartMismatch(e) /\ ~FloorMismatch(e)
  BY DEF RecordHistoryPage
<1>2. PICK r \in [PageSet(e.page) -> Fact] :
         LET f == WithPage(e.page, r)
         IN  CommitConflict(p, f) \/ CommitProgress(p, f) \/ CommitComplete(p, f)
  BY DEF RecordHistoryPage
<1> DEFINE f == WithPage(e.page, r)
<1>3. Recorded(facts) \subseteq Recorded(f)
  BY PageRecords
<1>4. EngineOK(EngineAt("idle"), certified') /\ EngineOK(Failing(e, "fatal"), certified)
  BY <1>0, RestingOK, FailingOK
<1>5. CASE CommitConflict(p, f)
  <2>1. /\ facts' = f /\ certified' = certified
        /\ row' = [row EXCEPT !.status = "error", !.conflict = TRUE]
        /\ eng' = [eng EXCEPT ![p] = EngineAt("idle")]
    BY <1>5 DEF CommitConflict
  <2>2. row'.cur = row.cur /\ row.status \in OpenStatus
    BY <1>0, <2>1 DEF OpenStatus
  <2>3. EnginesOK'
    BY <1>0, <1>4, <2>1, EnginesMove
  <2>4. WalkRecorded' /\ StartIdentity' /\ RowOK'
    BY <1>3, <2>1, <2>2, SameCursor DEF WalkInv, RowOK
  <2>5. QED
    BY <2>3, <2>4 DEF WalkInv
<1>6. CASE CommitProgress(p, f)
  BY <1>1, <1>6, ProgressKeepsWalk
<1>7. CASE CommitComplete(p, f)
  <2> DEFINE t == row.cur.target
             S == CertifyPath(t, f, certified)
  <2>1. CASE Certifiable(t, f, certified)
    <3>1. /\ facts' = f /\ certified' = certified \cup S /\ Completes(e)
          /\ row' = [row EXCEPT !.status = "complete", !.cur.next = NoBlock,
                                !.cur.covered = t]
          /\ eng' = [eng EXCEPT ![p] = EngineAt("idle")]
      BY <1>7, <2>1 DEF CommitComplete
    <3>2. row'.status = "complete"
      BY <1>0, <3>1
    <3>3. EnginesOK'
      BY <1>0, <1>4, <3>1, EnginesMove
    <3>4. ASSUME NEW b \in S, Height[b] = StartHeight, StartHash # NoBlock
          PROVE  b = StartHash
      BY <1>1, <3>1, <3>4, LastPageStart
    <3> HIDE DEF S
    <3>5. StartIdentity'
      BY <3>1, <3>4 DEF WalkInv, StartIdentity
    <3>6. QED
      BY <3>2, <3>3, <3>5 DEF WalkInv, WalkRecorded, RowOK, OpenStatus
  <2>2. CASE ~Certifiable(t, f, certified)
    <3>1. UNCHANGED <<facts, certified, row>> /\ eng' = [eng EXCEPT ![p] = Failing(e, "fatal")]
      BY <1>7, <2>2 DEF CommitComplete, recordVars
    <3>2. EnginesOK'
      BY <1>0, <1>4, <3>1, EnginesMove
    <3>3. QED
      BY <3>1, <3>2 DEF WalkInv, WalkRecorded, StartIdentity, RowOK, Recorded
  <2>3. QED
    BY <2>1, <2>2
<1>8. QED
  BY <1>2, <1>5, <1>6, <1>7

LEMMA WalkInvInit == Init => WalkInv
<1> SUFFICES ASSUME Init PROVE WalkInv
  OBVIOUS
<1>1. row.status \notin OpenStatus /\ certified = {}
  BY DEF Init, NoRow, OpenStatus
<1>2. EnginesOK
  BY RestingOK DEF Init, EnginesOK
<1>3. QED
  BY <1>1, <1>2 DEF WalkInv, WalkRecorded, StartIdentity, RowOK, OpenStatus

LEMMA WalkInvStep == CertInv /\ WalkInv /\ [Next]_vars => WalkInv'
<1> SUFFICES ASSUME CertInv, WalkInv, [Next]_vars PROVE WalkInv'
  OBVIOUS
<1>1. CASE UNCHANGED vars
  BY <1>1 DEF vars, WalkInv, WalkRecorded, StartIdentity, RowOK, EnginesOK, Recorded
<1>2. CASE Environment \/ \E p \in Process : ProcessStep(p)
  BY <1>2, OutsideKeepsWalk DEF CertInv
<1>3. ASSUME NEW p \in Process, EngineStep(p) PROVE WalkInv'
  BY <1>3, DecisionKeepsWalk, WritingKeepsWalk, PageKeepsWalk DEF EngineStep
<1>4. QED
  BY <1>1, <1>2, <1>3 DEF Next

LEMMA WalkInvHolds == Spec => [](CertInv /\ WalkInv)
  BY CertInvInit, CertInvStep, WalkInvInit, WalkInvStep, PTL DEF Spec

\* An open cursor lies on its target's branch and everything above it is
\* recorded, whatever the page sizes, reorganisations, restarts and overlapping
\* processes did before (WalkRecorded).
THEOREM WalkRecordedHolds == Spec => []WalkRecorded
<1>1. WalkInv => WalkRecorded
  BY DEF WalkInv
<1>2. QED
  BY <1>1, WalkInvHolds, PTL

\* No block but the expected one is ever certified at the start of the scope,
\* though the engine compares it only on walks without a floor hash
\* (validate_expected_start_hash; StartIdentity).
THEOREM StartIdentityHolds == Spec => []StartIdentity
<1>1. WalkInv => StartIdentity
  BY DEF WalkInv
<1>2. QED
  BY <1>1, WalkInvHolds, PTL

\* The certification trigger accepts every page an engine offers as the last one
\* of its walk, so its exception never stops the process
\* (CompletionIsCertifiable).
THEOREM CompletionAccepted == Spec => []CompletionIsCertifiable
<1>1. CertInv /\ WalkInv => CompletionIsCertifiable
  BY LastPageCertifiable DEF CompletionIsCertifiable
<1>2. QED
  BY <1>1, WalkInvHolds, PTL

\* The walk that repairs a reorganised branch never meets a second floor it
\* cannot reach (repair_branch, OneRepairSuffices).
THEOREM RepairIsFinal == Spec => []OneRepairSuffices
<1>1. WalkInv => OneRepairSuffices
  <2> SUFFICES ASSUME WalkInv, NEW p \in Process, At(p, "close"), eng[p].restarted
               PROVE  ~FloorMismatch(eng[p])
    BY DEF OneRepairSuffices
  <2>1. EngineOK(eng[p], certified) /\ eng[p].pc = "close"
    BY DEF WalkInv, EnginesOK, At
  <2>2. CASE eng[p].joined
    BY <2>1, <2>2 DEF EngineOK, HasPage, PageOK, FloorMismatch
  <2>3. CASE ~eng[p].joined
    BY <2>1, <2>3 DEF EngineOK, FloorMismatch
  <2>4. QED
    BY <2>2, <2>3
<1>2. QED
  BY <1>1, WalkInvHolds, PTL
-----------------------------------------------------------------------------
(* The quarantine, for one process.  Two that overlap break it: one that    *)
(* looked before the other found the conflict restarts the walk.            *)

QuarantineKept ==
    Quarantined =>
        \A p \in Process : eng[p].pc \in {"dead", "idle", "scope", "quarantine", "supersede"}

\* With one process, a quarantine is lifted only by an operator or by the
\* retirement of the instance (QuarantineHolds; is_quarantined is read once per
\* walk, some steps before the walk writes).
THEOREM QuarantineIsKept ==
  ASSUME NEW only, Process = {only}
  PROVE  Spec => QuarantineHolds
<1> DEFINE e == eng[only]
           Rest == {"dead", "idle", "scope", "quarantine", "supersede"}
           A == Quarantined /\ ~Quarantined' => OperatorResume \/ row'.status = "superseded"
<1>1. Init => QuarantineKept
  BY DEF Init, NoRow, QuarantineKept, Quarantined
<1>2. ASSUME TypeInv, QuarantineKept, [Next]_vars PROVE QuarantineKept' /\ (A \/ UNCHANGED vars)
  <2>0. /\ e \in EngineType /\ eng \in [{only} -> EngineType]
        /\ row \in [status : RowStatus, conflict : BOOLEAN, cur : Cursor]
    BY <1>2 DEF TypeInv, TypeOK
  <2>a. Quarantined => e.pc \in Rest
    BY <1>2 DEF QuarantineKept
  <2>b. (Quarantined' => eng'[only].pc \in Rest) => QuarantineKept'
    BY DEF QuarantineKept
  <2>c. \A f : eng' = [eng EXCEPT ![only] = f] => eng'[only] = f
    BY <2>0
  <2>d. \A pc : EngineAt(pc).pc = pc
    BY DEF EngineAt
  <2>e. \A mode : Failing(e, mode).pc = "settle"
    BY <2>0 DEF Failing, EngineType
  <2>f. ASSUME NEW pc \in {"dead", "idle"}, eng' = [eng EXCEPT ![only] = EngineAt(pc)]
        PROVE  QuarantineKept'
    <3>1. eng'[only] = EngineAt(pc)
      BY <2>c, <2>f
    <3>2. eng'[only].pc \in Rest
      BY <2>d, <3>1
    <3>3. QED
      BY <2>b, <3>2
  <2>g. ASSUME Fail(only) PROVE QuarantineKept'
    BY <2>f, <2>g DEF Fail
  <2>1. CASE UNCHANGED vars
    BY <1>2, <2>1 DEF vars, QuarantineKept, Quarantined
  <2>2. CASE Environment
    BY <1>2, <2>2 DEF Environment, NewTip, ChangeCurrent, OperatorResume,
                      recordVars, upstreamVars, QuarantineKept, Quarantined
  <2>3. CASE ProcessStep(only)
    <3>1. CASE StartProcess(only) \/ Crash(only) \/ Interrupt(only)
      <4>1. row' = row /\ \E pc \in {"dead", "idle"} : eng' = [eng EXCEPT ![only] = EngineAt(pc)]
        BY <3>1 DEF StartProcess, Crash, Interrupt, Fail, recordVars
      <4>2. QED
        BY <2>f, <4>1 DEF Quarantined
    <3>2. ASSUME NEW t \in Tip, RunHistory(only, t) PROVE QuarantineKept' /\ A
      <4>1. row' = row /\ eng'[only] = [EngineAt("scope") EXCEPT !.tip = t]
        BY <2>c, <3>2 DEF RunHistory, Step, recordVars
      <4>2. eng'[only].pc = "scope"
        BY <4>1 DEF EngineAt
      <4>3. QED
        BY <2>b, <4>1, <4>2 DEF Quarantined
    <3>3. ASSUME NEW r \in Fact, LiveFact(only, r) PROVE QuarantineKept' /\ A
      BY <1>2, <3>3 DEF LiveFact, QuarantineKept, Quarantined
    <3>4. QED
      BY <2>3, <3>1, <3>2, <3>3 DEF ProcessStep
  <2>4. CASE EngineStep(only)
    \* A process that looks at the row finds the quarantine and rests.
    <3>1. CASE CheckScope(only)
      <4>1. row' = row /\ \E pc \in {"quarantine", "supersede", "fetch"} :
                             /\ eng'[only] = [e EXCEPT !.pc = pc]
                             /\ pc = "fetch" => e.pc = "loop"
        BY <2>c, <3>1 DEF CheckScope, Step, At, recordVars
      <4>2. Quarantined => eng'[only].pc \in Rest
        BY <2>0, <2>a, <4>1 DEF EngineType
      <4>3. QED
        BY <2>b, <4>1, <4>2 DEF Quarantined
    <3>2. CASE MarkSuperseded(only)
      <4>1. row'.status = "superseded" \/ row' = row
        BY <2>0, <3>2 DEF MarkSuperseded
      <4>2. QED
        BY <2>f, <3>2, <4>1 DEF MarkSuperseded, Quarantined
    <3>3. CASE CheckQuarantine(only)
      <4>1. row' = row /\ (Quarantined => eng' = [eng EXCEPT ![only] = EngineAt("idle")])
        BY <3>3 DEF CheckQuarantine, Step, recordVars
      <4>2. Quarantined => QuarantineKept'
        BY <2>f, <4>1
      <4>3. ~Quarantined => QuarantineKept'
        BY <2>b, <4>1 DEF Quarantined
      <4>4. QED
        BY <4>1, <4>2, <4>3 DEF Quarantined
    \* The other steps start where no engine stands while the quarantine lasts.
    <3>4. CASE \/ PrepareBelowStart(only) \/ PrepareCycle(only)
               \/ BeginHistoryCycle(only) \/ ResumeHistory(only) \/ CursorBelowFloor(only)
               \/ \E page \in Page : FetchPage(only, page)
               \/ FetchUnavailable(only) \/ FetchTooLarge(only)
               \/ \E mode \in Mode : RpcFailure(only, mode)
               \/ ResizeHistoryPage(only) \/ ReadTip(only)
               \/ \E conclusive \in BOOLEAN : ProbeTarget(only, conclusive)
               \/ FindCertifiedFloor(only) \/ SetHistoryFloor(only)
               \/ RejectStart(only) \/ RepairBranch(only) \/ RefuseHistoryPage(only)
      <4>1. e.pc \notin Rest
        BY <3>4 DEF PrepareBelowStart, PrepareCycle, BeginHistoryCycle, ResumeHistory,
               CursorBelowFloor, FetchPage, FetchUnavailable, FetchTooLarge, RpcFailure,
               Fetching, ResizeHistoryPage, ReadTip, ProbeTarget, FindCertifiedFloor,
               SetHistoryFloor, RejectStart, RepairBranch, RefuseHistoryPage, At
      <4>2. ~Quarantined
        BY <2>a, <4>1
      <4>3. row'.status = "running" \/ row' = row
        <5>1. CASE BeginHistoryCycle(only) \/ ResumeHistory(only) \/ ResizeHistoryPage(only)
                   \/ SetHistoryFloor(only)
          <6>1. CASE BeginHistoryCycle(only)
            <7>1. \E c : row' = [status |-> "running", conflict |-> FALSE, cur |-> c]
              BY <6>1 DEF BeginHistoryCycle
            <7>2. QED
              BY <7>1
          <6>2. CASE ResumeHistory(only)
            BY <2>0, <6>2 DEF ResumeHistory
          <6>3. CASE ResizeHistoryPage(only)
            BY <2>0, <6>3 DEF ResizeHistoryPage
          <6>4. CASE SetHistoryFloor(only)
            BY <2>0, <6>4 DEF SetHistoryFloor
          <6>5. QED
            BY <5>1, <6>1, <6>2, <6>3, <6>4
        <5>2. CASE ~(BeginHistoryCycle(only) \/ ResumeHistory(only)
                     \/ ResizeHistoryPage(only) \/ SetHistoryFloor(only))
          BY <3>4, <5>2 DEF PrepareBelowStart, PrepareCycle,
               CursorBelowFloor, FetchPage, FetchUnavailable, FetchTooLarge, RpcFailure,
               ReadTip, ProbeTarget, FindCertifiedFloor,
               RejectStart, RepairBranch, RefuseHistoryPage, Step, recordVars
        <5>3. QED
          BY <5>1, <5>2
      <4>4. ~Quarantined'
        BY <4>2, <4>3 DEF Quarantined
      <4>5. QED
        BY <2>b, <4>2, <4>4
    <3>5. CASE RecordHistoryPage(only)
      <4>1. ~Quarantined
        BY <3>5 DEF RecordHistoryPage, PageAccepted, Quarantined
      <4>2. PICK f : CommitConflict(only, f) \/ CommitProgress(only, f) \/ CommitComplete(only, f)
        BY <3>5 DEF RecordHistoryPage
      <4>3. row.status = "running"
        BY <3>5 DEF RecordHistoryPage, PageAccepted
      <4>4. CASE CommitConflict(only, f)
        BY <2>f, <4>1, <4>4 DEF CommitConflict
      <4>5. CASE CommitProgress(only, f) \/ CommitComplete(only, f)
        <5>1. row'.status # "error"
          BY <2>0, <4>3, <4>5 DEF CommitProgress, CommitComplete, recordVars
        <5>2. QED
          BY <2>b, <4>1, <5>1 DEF Quarantined
      <4>6. QED
        BY <4>2, <4>4, <4>5
    <3>6. CASE SettleFailure(only)
      <4>1. ~Quarantined
        BY <2>a, <3>6 DEF SettleFailure, At
      <4>2. Fail(only) \/ eng' = [eng EXCEPT ![only] = EngineAt("idle")]
        BY <3>6 DEF SettleFailure
      <4>3. QED
        BY <2>f, <2>g, <4>1, <4>2
    <3>7. QED
      BY <2>4, <3>1, <3>2, <3>3, <3>4, <3>5, <3>6 DEF EngineStep
  <2>5. QED
    BY <1>2, <2>1, <2>2, <2>3, <2>4 DEF Next
<1>3. TypeInv /\ QuarantineKept /\ [Next]_vars => QuarantineKept' /\ [A]_vars
  BY <1>2
<1>4. Init => TypeInv
  BY CertInvInit DEF CertInv
<1>5. QED
  BY <1>1, <1>3, <1>4, TypeInvStep, PTL DEF Spec, QuarantineHolds
=============================================================================

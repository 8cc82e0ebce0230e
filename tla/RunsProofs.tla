----------------------------- MODULE RunsProofs -----------------------------
(***************************************************************************)
(* Proofs about Runs, for any number of sessions, sources and workers.     *)
(***************************************************************************)
EXTENDS Runs, TLAPS, WellFoundedInduction

Live == {"starting", "capturing", "failing", "stopping"}

\* A live session owns its run alone, and the row of its source shows that run
\* only while it is running.
SessionsOwn ==
    /\ \A p \in Session : sess[p].pc \in Live =>
          (status[SourceOf[p]].run = sess[p].run => Active(sess[p].run))
    /\ \A p, q \in Session :
          sess[p].pc \in Live /\ sess[q].pc \in Live /\ sess[p].run = sess[q].run => p = q

RunsInv == TypeOK /\ StatusOwned /\ SessionsOwn /\ ErrorTellsOutcome

LEMMA DownType == Down \in SessionState /\ Down.pc = "down"
BY DEF Down, SessionState

LEMMA UnknownType == Unknown \in [Worker -> Health] /\ Degraded(Unknown) = {}
BY DEF Unknown, Health, Degraded

LEMMA RunsInit == Init => RunsInv
<1> SUFFICES ASSUME Init PROVE RunsInv
  OBVIOUS
<1>1. runs = <<>> /\ captured = <<>> /\ DOMAIN runs = {}
  BY DEF Init
<1>2. \A p \in Session : sess[p] = Down
  BY DEF Init
<1>3. \A s \in Source : status[s].run = 0
  BY DEF Init
<1>4. TypeOK
  <2>1. runs \in Seq(Run) /\ captured \in Seq(Capture) /\ gaps \subseteq [run : Nat, after : Nat]
    BY <1>1 DEF Init
  <2>2. status \in [Source -> Status]
    BY DEF Init, Status
  <2>3. sess \in [Session -> SessionState] /\ clock \in Nat
    BY DownType DEF Init
  <2>4. \A p \in Session : sess[p].pc = "down"
    BY <1>2, DownType
  <2>5. QED
    BY <2>1, <2>2, <2>3, <2>4 DEF TypeOK
<1>5. StatusOwned
  BY <1>1, <1>3 DEF StatusOwned, RunsOf
<1>6. SessionsOwn
  BY <1>2, DownType DEF SessionsOwn, Live
<1>7. ErrorTellsOutcome
  BY <1>3 DEF ErrorTellsOutcome
<1>8. QED
  BY <1>4, <1>5, <1>6, <1>7 DEF RunsInv

\* A step that touches neither runs nor the status rows, and moves one session
\* inside its life or out of it.
LEMMA SessionMove ==
  ASSUME RunsInv, NEW p \in Session, NEW e \in SessionState,
         sess' = [sess EXCEPT ![p] = e],
         e.pc \in Live => sess[p].pc \in Live /\ e.run = sess[p].run,
         clock' \in Nat,
         UNCHANGED <<runs, captured, gaps, status>>
  PROVE  RunsInv'
<1>1. sess'[p] = e /\ \A q \in Session \ {p} : sess'[q] = sess[q]
  BY DEF RunsInv, TypeOK
<1>2. \A q \in Session : sess'[q].pc \in Live => sess[q].pc \in Live /\ sess'[q].run = sess[q].run
  BY <1>1
<1>3. TypeOK'
  <2>1. sess' \in [Session -> SessionState]
    BY DEF RunsInv, TypeOK
  <2>2. \A q \in Session : sess'[q].pc \in Live => sess'[q].run \in RunsOf(SourceOf[q])
    BY <1>2 DEF RunsInv, TypeOK, Live
  <2>3. QED
    BY <2>1, <2>2 DEF RunsInv, TypeOK, Live, RunsOf
<1>4. StatusOwned'
  BY DEF RunsInv, StatusOwned, RunsOf, Active
<1>5. SessionsOwn'
  BY <1>2 DEF RunsInv, SessionsOwn, Active
<1>6. ErrorTellsOutcome'
  BY DEF RunsInv, ErrorTellsOutcome
<1>7. QED
  BY <1>3, <1>4, <1>5, <1>6 DEF RunsInv

\* A step of a live session that rewrites its own run and the row of its source.
LEMMA RunUpdate ==
  ASSUME RunsInv, NEW p \in Session, sess[p].pc \in Live,
         NEW run \in Run, NEW row \in Status,
         run.source = SourceOf[p],
         run.status = "running" => Active(sess[p].run),
         row.run = status[SourceOf[p]].run,
         runs' = [runs EXCEPT ![sess[p].run] = run],
         status' = [status EXCEPT ![SourceOf[p]] = row],
         row.run # sess[p].run => row = status[SourceOf[p]],
         row.run = sess[p].run =>
            row.error = CASE run.status = "running" -> Degraded(run.health)
                          [] run.status = "failed" -> {Terminal}
                          [] OTHER -> {},
         captured' \in Seq(Capture), clock' = clock, gaps' = gaps,
         NEW e \in SessionState, sess' = [sess EXCEPT ![p] = e],
         e.pc \in Live => e.run = sess[p].run /\ run.status = runs[sess[p].run].status
  PROVE  RunsInv'
<1> DEFINE r == sess[p].run
           s == SourceOf[p]
<1>0. /\ s \in Source /\ runs \in Seq(Run) /\ status \in [Source -> Status]
      /\ r \in DOMAIN runs /\ runs[r].source = s
  BY RunsAssumption DEF RunsInv, TypeOK, RunsOf, Live
<1>1. /\ DOMAIN runs' = DOMAIN runs /\ runs'[r] = run
      /\ \A q \in DOMAIN runs \ {r} : runs'[q] = runs[q]
  BY <1>0
<1>2. status'[s] = row /\ \A t \in Source \ {s} : status'[t] = status[t]
  BY <1>0
<1>3. \A t \in Source : status'[t].run = status[t].run
  BY <1>2
<1>4. \A t \in Source : RunsOf(t)' = RunsOf(t)
  BY <1>0, <1>1 DEF RunsOf
<1>5. \A q \in DOMAIN runs : Active(q)' => Active(q)
  BY <1>0, <1>1 DEF Active
<1>6. sess'[p] = e /\ \A q \in Session \ {p} : sess'[q] = sess[q]
  BY DEF RunsInv, TypeOK
<1>7. \A q \in Session : sess'[q].pc \in Live => sess[q].pc \in Live /\ sess'[q].run = sess[q].run
  BY <1>6
<1>8. TypeOK'
  <2>1. runs' \in Seq(Run)
    BY <1>0
  <2>2. status' \in [Source -> Status]
    BY <1>0
  <2>3. sess' \in [Session -> SessionState]
    BY DEF RunsInv, TypeOK
  <2>4. \A q \in Session : sess'[q].pc \in Live => sess'[q].run \in RunsOf(SourceOf[q])
    BY <1>7 DEF RunsInv, TypeOK, Live
  <2>5. \A q \in Session : sess'[q].pc \in Live => sess'[q].run \in RunsOf(SourceOf[q])'
    BY <1>4, <2>4, RunsAssumption
  <2>6. QED
    BY <2>1, <2>2, <2>3, <2>5 DEF RunsInv, TypeOK, Live
<1>9. StatusOwned'
  <2>1. ASSUME NEW t \in Source
        PROVE  /\ status'[t].run # 0 => status'[t].run \in RunsOf(t)'
               /\ \A q \in RunsOf(t)' : q <= status'[t].run /\ (Active(q)' => q = status'[t].run)
    <3>1. RunsOf(t)' = RunsOf(t) /\ RunsOf(t) \subseteq DOMAIN runs /\ status'[t].run = status[t].run
      BY <1>3, <1>4 DEF RunsOf
    <3>2. /\ status[t].run # 0 => status[t].run \in RunsOf(t)
          /\ \A q \in RunsOf(t) : q <= status[t].run /\ (Active(q) => q = status[t].run)
      BY DEF RunsInv, StatusOwned
    <3>3. QED
      BY <1>5, <3>1, <3>2
  <2>2. QED
    BY <2>1 DEF StatusOwned
<1>10. SessionsOwn'
  <2>1. ASSUME NEW q \in Session, sess'[q].pc \in Live, status'[SourceOf[q]].run = sess'[q].run
        PROVE  runs'[sess'[q].run].status = "running"
    <3>1. /\ SourceOf[q] \in Source /\ sess[q].pc \in Live /\ sess'[q].run = sess[q].run
          /\ status[SourceOf[q]].run = sess[q].run
      BY <1>3, <1>7, <2>1, RunsAssumption
    <3>2. Active(sess[q].run) /\ sess[q].run \in DOMAIN runs
      BY <3>1 DEF RunsInv, SessionsOwn, TypeOK, RunsOf, Live
    <3>3. CASE sess[q].run # r
      BY <1>1, <3>1, <3>2, <3>3 DEF Active
    <3>4. CASE sess[q].run = r
      <4>1. q = p
        BY <3>1, <3>4 DEF RunsInv, SessionsOwn
      <4>2. run.status = runs[r].status
        BY <1>6, <2>1, <4>1
      <4>3. QED
        BY <1>1, <3>1, <3>2, <3>4, <4>2 DEF Active
    <3>5. QED
      BY <3>3, <3>4
  <2>2. QED
    BY <1>7, <2>1 DEF RunsInv, SessionsOwn, Active
<1>11. ErrorTellsOutcome'
  <2>1. ASSUME NEW t \in Source, status'[t].run # 0
        PROVE  status'[t].error =
                  CASE runs'[status'[t].run].status = "running"
                          -> Degraded(runs'[status'[t].run].health)
                    [] runs'[status'[t].run].status = "failed" -> {Terminal}
                    [] OTHER -> {}
    <3>1. status[t].run \in DOMAIN runs /\ runs[status[t].run].source = t
      BY <1>3, <2>1 DEF RunsInv, StatusOwned, RunsOf
    <3>2. status[t].error =
             CASE runs[status[t].run].status = "running" -> Degraded(runs[status[t].run].health)
               [] runs[status[t].run].status = "failed" -> {Terminal}
               [] OTHER -> {}
      BY <1>3, <2>1 DEF RunsInv, ErrorTellsOutcome
    <3>3. CASE status[t].run = r
      <4>1. t = s
        BY <1>0, <3>1, <3>3
      <4>2. QED
        BY <1>1, <1>2, <3>3, <4>1
    <3>4. CASE status[t].run # r
      <4>1. status'[t] = status[t]
        BY <1>2, <3>4
      <4>2. runs'[status[t].run] = runs[status[t].run]
        BY <1>1, <3>1, <3>4
      <4>3. QED
        BY <3>2, <4>1, <4>2
    <3>5. QED
      BY <3>3, <3>4
  <2>2. QED
    BY <2>1 DEF ErrorTellsOutcome
<1>12. QED
  BY <1>8, <1>9, <1>10, <1>11 DEF RunsInv

\* What a live session knows about its run and its source.
LEMMA LiveSession ==
  ASSUME RunsInv, NEW p \in Session, sess[p].pc \in Live
  PROVE  /\ SourceOf[p] \in Source /\ status[SourceOf[p]] \in Status
         /\ sess[p] \in SessionState
         /\ sess[p].run \in DOMAIN runs /\ sess[p].run \in Nat \ {0}
         /\ runs[sess[p].run] \in Run /\ runs[sess[p].run].source = SourceOf[p]
         /\ status[SourceOf[p]].run = sess[p].run => runs[sess[p].run].status = "running"
<1>1. runs \in Seq(Run) /\ sess[p].run \in DOMAIN runs /\ runs[sess[p].run].source = SourceOf[p]
  BY DEF RunsInv, TypeOK, RunsOf, Live
<1>2. sess[p].run \in Nat \ {0} /\ runs[sess[p].run] \in Run
  BY <1>1
<1>3. SourceOf[p] \in Source /\ status[SourceOf[p]] \in Status /\ sess[p] \in SessionState
  BY RunsAssumption DEF RunsInv, TypeOK
<1>4. status[SourceOf[p]].run = sess[p].run => runs[sess[p].run].status = "running"
  BY DEF RunsInv, SessionsOwn, Active
<1>5. QED
  BY <1>1, <1>2, <1>3, <1>4

LEMMA HealthUpdate ==
  ASSUME RunsInv, NEW p \in Session, sess[p].pc \in Live,
         NEW health \in [Worker -> Health], SetHealth(p, health),
         UNCHANGED <<clock, captured, gaps>>,
         NEW e \in SessionState, sess' = [sess EXCEPT ![p] = e], e.run = sess[p].run
  PROVE  RunsInv'
<1> DEFINE r == sess[p].run
           s == SourceOf[p]
           run == [runs[r] EXCEPT !.health = health]
           row == IF status[s].run = r THEN [status[s] EXCEPT !.error = Degraded(health)]
                  ELSE status[s]
<1>1. /\ s \in Source /\ status[s] \in Status /\ r \in DOMAIN runs /\ runs[r] \in Run
      /\ runs[r].source = s /\ (status[s].run = r => runs[r].status = "running")
  BY LiveSession
<1>2. /\ run \in Run /\ run.source = s /\ run.status = runs[r].status /\ run.health = health
  BY <1>1 DEF Run
<1>3. row \in Status /\ row.run = status[s].run
      /\ (status[s].run = r => row.error = Degraded(health))
  BY <1>1 DEF Status, Degraded
<1>4. runs' = [runs EXCEPT ![r] = run]
  BY DEF SetHealth
<1>5. status' = [status EXCEPT ![s] = row]
  BY <1>1 DEF SetHealth, Recomputed, RunsInv, TypeOK
<1>6. row.run # r => row = status[s]
  BY <1>3
<1>7. captured' \in Seq(Capture) /\ clock' = clock /\ gaps' = gaps
  BY DEF RunsInv, TypeOK
<1>8. run.status = "running" => Active(r)
  BY <1>2 DEF Active
<1> HIDE DEF run, row
<1>9. row.run = r => row.error = CASE run.status = "running" -> Degraded(run.health)
                                   [] run.status = "failed" -> {Terminal}
                                   [] OTHER -> {}
  BY <1>1, <1>2, <1>3
<1>10. QED
  BY <1>1, <1>2, <1>3, <1>4, <1>5, <1>6, <1>7, <1>8, <1>9, RunUpdate, ZenonT(60)

LEMMA WorkersPreserve ==
  ASSUME RunsInv, NEW p \in Session,
         \/ InitializeWorkers(p)
         \/ \E w \in Worker : InitializeLate(p, w) \/ WorkerFailure(p, w) \/ WorkerSuccess(p, w)
  PROVE  RunsInv'
<1> DEFINE health == runs[sess[p].run].health
<1>0. sess[p].pc \in Live /\ sess[p] \in SessionState /\ health \in [Worker -> Health]
      /\ sess[p].pc \in {"starting", "capturing"}
  <2>1. sess[p].pc \in Live /\ sess[p].pc \in {"starting", "capturing"}
    BY DEF InitializeWorkers, InitializeLate, WorkerFailure, WorkerSuccess, Reporting, Live
  <2>2. QED
    BY <2>1, LiveSession DEF Run
<1>1. \A ws : Initialized(health, ws) \in [Worker -> Health]
  BY <1>0 DEF Initialized, Health
<1>2. sess = [sess EXCEPT ![p] = sess[p]]
  BY DEF RunsInv, TypeOK
<1>3. CASE InitializeWorkers(p)
  <2> DEFINE e == [sess[p] EXCEPT !.pc = "capturing"]
  <2>1. e \in SessionState /\ e.run = sess[p].run
    BY <1>0 DEF SessionState
  <2>2. sess' = [sess EXCEPT ![p] = e]
    BY <1>3 DEF InitializeWorkers
  <2> HIDE DEF e
  <2>3. QED
    BY <1>0, <1>1, <1>3, <2>1, <2>2, HealthUpdate DEF InitializeWorkers
<1>4. ASSUME NEW w \in Worker, InitializeLate(p, w) PROVE RunsInv'
  BY <1>0, <1>1, <1>2, <1>4, HealthUpdate DEF InitializeLate
<1>5. ASSUME NEW w \in Worker, WorkerFailure(p, w) PROVE RunsInv'
  <2>1. Failed(health, w) \in [Worker -> Health]
    <3>1. health[w] \in Health /\ health[w].failures + 1 \in Nat
      BY <1>0 DEF Health
    <3> DEFINE bad == health[w].failures + 1 >= DegradedAfter[w]
    <3>a. bad \in BOOLEAN
      OBVIOUS
    <3> HIDE DEF bad
    <3>2. [health[w] EXCEPT !.failures = health[w].failures + 1,
                            !.degraded = bad] \in Health
      BY <3>1, <3>a DEF Health
    <3>3. QED
      BY <1>0, <3>2 DEF Failed, bad
  <2>2. QED
    BY <1>0, <1>2, <1>5, <2>1, HealthUpdate, SMTT(30) DEF WorkerFailure
<1>6. ASSUME NEW w \in Worker, WorkerSuccess(p, w) PROVE RunsInv'
  <2>1. Healthy(health, w) \in [Worker -> Health]
    BY <1>0 DEF Healthy, Health
  <2>2. QED
    BY <1>0, <1>2, <1>6, <2>1, HealthUpdate DEF WorkerSuccess
<1>7. QED
  BY <1>3, <1>4, <1>5, <1>6

\* The status row after p has observed a tip.
TipNoted(p, tip) == status' = Noted(SourceOf[p], sess[p].run, tip)

LEMMA CapturePreserves ==
  ASSUME RunsInv, NEW p \in Session, NEW count \in Nat, sess[p].pc = "capturing",
         runs' = Reserved(sess[p].run, count), captured' \in Seq(Capture),
         NEW tip \in Tip \cup {NoTip}, TipNoted(p, tip),
         UNCHANGED <<clock, gaps, sess>>
  PROVE  RunsInv'
<1> DEFINE r == sess[p].run
           s == SourceOf[p]
           run == [runs[r] EXCEPT !.lastSeq = @ + count]
           row == IF status[s].run = r THEN [status[s] EXCEPT !.tip = tip] ELSE status[s]
<1>0. sess[p].pc \in Live
  BY DEF Live
<1>1. /\ s \in Source /\ status[s] \in Status /\ r \in DOMAIN runs /\ runs[r] \in Run
      /\ runs[r].source = s /\ r # 0 /\ sess[p] \in SessionState
  BY <1>0, LiveSession
<1>2. /\ run \in Run /\ run.source = s /\ run.status = runs[r].status
      /\ run.health = runs[r].health
  BY <1>1 DEF Run
<1>3. row \in Status /\ row.run = status[s].run /\ row.error = status[s].error
  BY <1>1 DEF Status
<1>4. runs' = [runs EXCEPT ![r] = run]
  BY DEF Reserved
<1>5. status' = [status EXCEPT ![s] = row]
  BY <1>1 DEF RunsInv, TypeOK, TipNoted, Noted
<1>6. sess' = [sess EXCEPT ![p] = sess[p]]
  BY DEF RunsInv, TypeOK
<1>7. row.run # r => row = status[s]
  BY <1>3
<1>8. run.status = "running" => Active(r)
  BY <1>2 DEF Active
<1> HIDE DEF run, row
<1>9. row.run = r => row.error = CASE run.status = "running" -> Degraded(run.health)
                                   [] run.status = "failed" -> {Terminal}
                                   [] OTHER -> {}
  BY <1>1, <1>2, <1>3 DEF RunsInv, ErrorTellsOutcome
<1>10. QED
  BY <1>0, <1>1, <1>2, <1>3, <1>4, <1>5, <1>6, <1>7, <1>8, <1>9, RunUpdate, ZenonT(60)

LEMMA OccurrencesType ==
  ASSUME RunsInv, NEW p \in Session, NEW count \in {1, 2}, Recording(p, count),
         NEW tip \in Tip \cup {NoTip},
         captured' = captured \o Occurrences(sess[p].run, count, tip)
  PROVE  captured' \in Seq(Capture)
<1>0. sess[p].pc = "capturing" /\ sess[p].pc \in Live
  BY DEF Recording, Live
<1>1. runs[sess[p].run] \in Run /\ sess[p].run \in Nat /\ captured \in Seq(Capture)
  BY <1>0, LiveSession DEF RunsInv, TypeOK
<1>2. FirstSeq(sess[p].run) \in Nat
  BY <1>1 DEF FirstSeq, Run
<1> DEFINE new == [i \in 1..count |->
                     [run |-> sess[p].run, seq |-> FirstSeq(sess[p].run) + i - 1, tip |-> tip]]
<1>3. \A i \in 1..count : new[i] \in Capture
  BY <1>1, <1>2 DEF Capture
<1>4. new \in Seq(Capture)
  BY <1>3
<1>5. Occurrences(sess[p].run, count, tip) = new
  BY DEF Occurrences
<1> HIDE DEF new
<1>6. QED
  BY <1>1, <1>4, <1>5

LEMMA RecordPreserves ==
  ASSUME RunsInv, NEW p \in Session,
         \/ \E count \in {1, 2} : \/ RecordEvents(p, count)
                                  \/ \E tip \in Tip : RecordSnapshot(p, count, tip)
         \/ \E tip \in Tip : RecordTip(p, tip)
  PROVE  RunsInv'
<1>1. ASSUME NEW count \in {1, 2}, Recording(p, count), NEW tip \in Tip \cup {NoTip},
             captured' = captured \o Occurrences(sess[p].run, count, tip),
             NEW shown \in Tip \cup {NoTip}, TipNoted(p, shown)
      PROVE  RunsInv'
  <2>1. captured' \in Seq(Capture)
    BY <1>1, OccurrencesType
  <2>2. QED
    BY <1>1, <2>1, CapturePreserves DEF Recording
<1>2. ASSUME NEW count \in {1, 2}, RecordEvents(p, count) PROVE RunsInv'
  <2>1. SourceOf[p] \in Source /\ status \in [Source -> Status]
    BY RunsAssumption DEF RunsInv, TypeOK
  <2>2. /\ status[SourceOf[p]].tip \in Tip \cup {NoTip}
        /\ status = Noted(SourceOf[p], sess[p].run, status[SourceOf[p]].tip)
    BY <2>1 DEF Noted, Status
  <2>3. QED
    BY <1>1, <1>2, <2>2 DEF RecordEvents, TipNoted
<1>3. ASSUME NEW count \in {1, 2}, NEW tip \in Tip, RecordSnapshot(p, count, tip)
      PROVE  RunsInv'
  BY <1>1, <1>3 DEF RecordSnapshot, TipNoted
<1>4. ASSUME NEW tip \in Tip, RecordTip(p, tip) PROVE RunsInv'
  BY <1>1, <1>4 DEF RecordTip, TipNoted
<1>5. QED
  BY <1>2, <1>3, <1>4

LEMMA FinishPreserves ==
  ASSUME RunsInv, NEW p \in Session, FinishRun(p)
  PROVE  RunsInv'
<1> DEFINE r == sess[p].run
           s == SourceOf[p]
           run == [runs[r] EXCEPT !.status = IF @ = "running" THEN Outcome(p) ELSE @]
           err == IF Outcome(p) = "failed" THEN {Terminal} ELSE {}
           row == IF status[s].run = r THEN [status[s] EXCEPT !.error = err] ELSE status[s]
           e == IF Outcome(p) = "failed" THEN Down ELSE [sess[p] EXCEPT !.pc = "exited"]
<1>0. sess[p].pc \in Live
  BY DEF FinishRun, Live
<1>1. /\ s \in Source /\ status[s] \in Status /\ r \in DOMAIN runs /\ runs[r] \in Run
      /\ runs[r].source = s /\ sess[p] \in SessionState
      /\ (status[s].run = r => runs[r].status = "running")
  BY <1>0, LiveSession
<1>2. Outcome(p) \in {"failed", "completed"}
  BY DEF Outcome
<1>3. /\ run \in Run /\ run.source = s
      /\ run.status = (IF runs[r].status = "running" THEN Outcome(p) ELSE runs[r].status)
  BY <1>1, <1>2 DEF Run
<1>4. row \in Status /\ row.run = status[s].run /\ (status[s].run = r => row.error = err)
  BY <1>1 DEF Status
<1>5. e \in SessionState /\ e.pc \notin Live
  BY <1>1, DownType DEF SessionState, Live
<1>6. runs' = [runs EXCEPT ![r] = run] /\ sess' = [sess EXCEPT ![p] = e]
  BY DEF FinishRun, FinishedRuns
<1>7. status' = [status EXCEPT ![s] = row]
  BY <1>1 DEF FinishRun, RunsInv, TypeOK
<1>8. captured' \in Seq(Capture) /\ clock' = clock /\ gaps' = gaps
  BY DEF FinishRun, RunsInv, TypeOK
<1>9. row.run # r => row = status[s]
  BY <1>4
<1> HIDE DEF run, row, e
<1>10. run.status = "running" => Active(r)
  BY <1>2, <1>3 DEF Active
<1>11. row.run = r => row.error = CASE run.status = "running" -> Degraded(run.health)
                                    [] run.status = "failed" -> {Terminal}
                                    [] OTHER -> {}
  BY <1>1, <1>2, <1>3, <1>4
<1>12. QED
  BY <1>0, <1>1, <1>3, <1>4, <1>5, <1>6, <1>7, <1>8, <1>9, <1>10, <1>11, RunUpdate, ZenonT(60)

\* The session that OpenRun leaves has its type.
LEMMA OpenedSession ==
  ASSUME NEW ss \in SessionState, NEW k \in Nat, NEW t \in Tip \cup {NoTip}
  PROVE  /\ [ss EXCEPT !.pc = "starting", !.run = k, !.previous = t] \in SessionState
         /\ [ss EXCEPT !.pc = "starting", !.run = k, !.previous = t].run = k
  BY DEF SessionState

\* The other records that OpenRun and Begin build have their types.
LEMMA RecordTypes ==
  /\ \A run \in Run : /\ [run EXCEPT !.status = "failed"] \in Run
                      /\ [run EXCEPT !.status = "failed"].source = run.source
                      /\ [run EXCEPT !.status = "failed"].status = "failed"
  /\ \A st \in Status, k \in Nat : /\ [st EXCEPT !.run = k, !.error = {}] \in Status
                                  /\ [st EXCEPT !.run = k, !.error = {}].run = k
                                  /\ [st EXCEPT !.run = k, !.error = {}].error = {}
  /\ \A ss \in SessionState, k \in Nat :
        /\ [ss EXCEPT !.pc = "opening", !.begun = k] \in SessionState
        /\ [ss EXCEPT !.pc = "opening", !.begun = k].pc = "opening"
<1>1. ASSUME NEW run \in Run
      PROVE  /\ [run EXCEPT !.status = "failed"] \in Run
             /\ [run EXCEPT !.status = "failed"].source = run.source
             /\ [run EXCEPT !.status = "failed"].status = "failed"
  BY DEF Run
<1>2. ASSUME NEW st \in Status, NEW k \in Nat
      PROVE  /\ [st EXCEPT !.run = k, !.error = {}] \in Status
             /\ [st EXCEPT !.run = k, !.error = {}].run = k
             /\ [st EXCEPT !.run = k, !.error = {}].error = {}
  BY DEF Status
<1>3. ASSUME NEW ss \in SessionState, NEW k \in Nat
      PROVE  /\ [ss EXCEPT !.pc = "opening", !.begun = k] \in SessionState
             /\ [ss EXCEPT !.pc = "opening", !.begun = k].pc = "opening"
  BY DEF SessionState
<1>4. QED
  BY <1>1, <1>2, <1>3

LEMMA OpenPreserves ==
  ASSUME RunsInv, NEW p \in Session, OpenRun(p)
  PROVE  RunsInv'
<1> DEFINE s == SourceOf[p]
           n == Len(runs)
           fresh == [source |-> s, started |-> sess[p].begun, status |-> "running",
                     lastSeq |-> 0, health |-> Unknown]
           row == ClaimedStatus(s, n + 1)
           e == [sess[p] EXCEPT !.pc = "starting", !.run = n + 1, !.previous = PreviousRunTip(s)]
<1>0. /\ s \in Source /\ runs \in Seq(Run) /\ n \in Nat /\ DOMAIN runs = 1..n
      /\ sess[p] \in SessionState /\ status[s] \in Status /\ status \in [Source -> Status]
      /\ sess \in [Session -> SessionState]
  BY RunsAssumption DEF RunsInv, TypeOK
<1>1. /\ Superseded(s) \in Seq(Run) /\ Len(Superseded(s)) = n
      /\ \A q \in 1..n : /\ Superseded(s)[q].source = runs[q].source
                         /\ Superseded(s)[q].source = s => Superseded(s)[q].status # "running"
                         /\ Superseded(s)[q].source # s => Superseded(s)[q] = runs[q]
  <2>1. \A q \in 1..n : /\ runs[q] \in Run
                        /\ [runs[q] EXCEPT !.status = "failed"] \in Run
                        /\ [runs[q] EXCEPT !.status = "failed"].source = runs[q].source
                        /\ [runs[q] EXCEPT !.status = "failed"].status = "failed"
    <3>1. \A q \in 1..n : runs[q] \in Run
      BY <1>0
    <3>2. QED
      BY <3>1, RecordTypes
  <2>2. Superseded(s) = [q \in 1..n |-> IF runs[q].source = s /\ runs[q].status = "running"
                                        THEN [runs[q] EXCEPT !.status = "failed"] ELSE runs[q]]
    BY <1>0 DEF Superseded
  <2>3. QED
    BY <1>0, <2>1, <2>2
<1>2. fresh \in Run /\ fresh.source = s /\ fresh.status = "running" /\ fresh.health = Unknown
  BY <1>0, UnknownType DEF Run, SessionState
<1>3. row \in Status /\ row.run = n + 1 /\ row.error = {}
  <2>1. n + 1 \in Nat /\ status[s] \in Status
    BY <1>0
  <2>2. row = [status[s] EXCEPT !.run = n + 1, !.error = {}]
    BY Zenon DEF ClaimedStatus
  <2> HIDE DEF row, n, s
  <2>3. QED
    BY <2>1, <2>2, RecordTypes, Zenon
<1>4. e \in SessionState /\ e.run = n + 1
  <2>1. PreviousRunTip(s) \in Tip \cup {NoTip}
    BY <1>0 DEF PreviousRunTip, Status
  <2>2. n + 1 \in Nat /\ sess[p] \in SessionState
    BY <1>0
  <2> HIDE DEF n, s
  <2>3. QED
    BY <2>1, <2>2, OpenedSession, Zenon
<1>5. /\ runs' = Append(Superseded(s), fresh)
      /\ status' = [status EXCEPT ![s] = row]
      /\ sess' = [sess EXCEPT ![p] = e]
      /\ gaps' = gaps \cup GapMarks(s, n + 1)
      /\ UNCHANGED <<clock, captured>>
  BY DEF OpenRun
<1> HIDE DEF n, fresh, row, e, s
<1>6. /\ runs' \in Seq(Run) /\ DOMAIN runs' = 1..(n + 1) /\ runs'[n + 1] = fresh
      /\ \A q \in 1..n : runs'[q] = Superseded(s)[q]
  BY <1>0, <1>1, <1>2, <1>5
<1>7. status'[s] = row /\ \A t \in Source \ {s} : status'[t] = status[t]
  BY <1>0, <1>5
<1>8. sess'[p] = e /\ \A q \in Session \ {p} : sess'[q] = sess[q]
  BY <1>0, <1>5
<1>9. \A t \in Source : \A q \in RunsOf(t) :
         q \in 1..n /\ q \in RunsOf(t)' /\ (t # s => runs'[q] = runs[q])
  BY <1>0, <1>1, <1>6 DEF RunsOf
<1>10. \A t \in Source : \A q \in RunsOf(t)' : q \in RunsOf(t) \/ (t = s /\ q = n + 1)
  BY <1>0, <1>1, <1>2, <1>6 DEF RunsOf
<1>11. n + 1 \in RunsOf(s)'
  BY <1>0, <1>2, <1>6 DEF RunsOf
<1>12. \A q \in RunsOf(s) : runs'[q].status # "running"
  BY <1>0, <1>1, <1>6 DEF RunsOf
<1>13. \A q \in Session \ {p} : sess'[q].pc \in Live =>
          /\ sess[q].pc \in Live /\ sess'[q].run = sess[q].run /\ SourceOf[q] \in Source
          /\ sess[q].run \in RunsOf(SourceOf[q]) /\ sess[q].run \in 1..n
  <2>1. \A q \in Session \ {p} : sess'[q].pc \in Live =>
          /\ sess[q].pc \in Live /\ sess'[q].run = sess[q].run /\ SourceOf[q] \in Source
          /\ sess[q].run \in RunsOf(SourceOf[q])
    BY <1>8, RunsAssumption DEF RunsInv, TypeOK, Live
  <2>2. QED
    BY <1>9, <2>1
<1>14. TypeOK'
  <2>1. gaps' \subseteq [run : Nat, after : Nat]
    <3>1. \A q \in NewestStarted(s) : q \in Nat
      BY <1>0 DEF NewestStarted, RunsOf
    <3>2. GapMarks(s, n + 1) \subseteq [run : Nat, after : Nat]
      BY <1>0, <3>1 DEF GapMarks
    <3>3. QED
      BY <1>5, <3>2 DEF RunsInv, TypeOK
  <2>2. status' \in [Source -> Status] /\ sess' \in [Session -> SessionState]
    BY <1>0, <1>3, <1>4, <1>5
  <2>3. \A q \in Session : sess'[q].pc \in Live => sess'[q].run \in RunsOf(SourceOf[q])'
    <3>1. \A q \in Session \ {p} : sess'[q].pc \in Live => sess'[q].run \in RunsOf(SourceOf[q])'
      BY <1>9, <1>13
    <3>2. sess'[p].run \in RunsOf(SourceOf[p])'
      BY <1>4, <1>8, <1>11 DEF s
    <3>3. QED
      BY <3>1, <3>2
  <2>4. clock' \in Nat /\ captured' \in Seq(Capture)
    BY <1>5 DEF RunsInv, TypeOK
  <2>5. QED
    BY <1>6, <2>1, <2>2, <2>3, <2>4 DEF TypeOK, Live
<1>15. StatusOwned'
  <2>1. ASSUME NEW t \in Source
        PROVE  /\ status'[t].run # 0 => status'[t].run \in RunsOf(t)'
               /\ \A q \in RunsOf(t)' : q <= status'[t].run /\ (Active(q)' => q = status'[t].run)
    <3>1. CASE t = s
      BY <1>0, <1>3, <1>7, <1>9, <1>10, <1>11, <1>12, <3>1 DEF Active
    <3>2. CASE t # s
      <4>1. RunsOf(t)' = RunsOf(t) /\ status'[t] = status[t]
        BY <1>7, <1>9, <1>10, <3>2
      <4>2. \A q \in RunsOf(t) : Active(q)' => Active(q)
        BY <1>9, <3>2 DEF Active
      <4>3. /\ status[t].run # 0 => status[t].run \in RunsOf(t)
            /\ \A q \in RunsOf(t) : q <= status[t].run /\ (Active(q) => q = status[t].run)
        BY DEF RunsInv, StatusOwned
      <4>4. QED
        BY <4>1, <4>2, <4>3
    <3>3. QED
      BY <3>1, <3>2
  <2>2. QED
    BY <2>1 DEF StatusOwned
<1>16. SessionsOwn'
  <2>1. ASSUME NEW q \in Session, sess'[q].pc \in Live, status'[SourceOf[q]].run = sess'[q].run
        PROVE  runs'[sess'[q].run].status = "running"
    <3>1. CASE q = p
      BY <1>2, <1>4, <1>6, <1>8, <3>1
    <3>2. CASE q # p /\ SourceOf[q] = s
      BY <1>0, <1>3, <1>7, <1>13, <2>1, <3>2
    <3>3. CASE q # p /\ SourceOf[q] # s
      <4>1. status'[SourceOf[q]] = status[SourceOf[q]] /\ runs'[sess[q].run] = runs[sess[q].run]
        BY <1>7, <1>9, <1>13, <2>1, <3>3
      <4>2. QED
        BY <1>13, <2>1, <3>3, <4>1 DEF RunsInv, SessionsOwn, Active
    <3>4. QED
      BY <3>1, <3>2, <3>3
  <2>2. ASSUME NEW q \in Session, NEW u \in Session, sess'[q].pc \in Live, sess'[u].pc \in Live,
               sess'[q].run = sess'[u].run
        PROVE  q = u
    <3>1. \A v \in Session \ {p} : sess'[v].pc \in Live => sess'[v].run # sess'[p].run
      BY <1>0, <1>4, <1>8, <1>13
    <3>2. CASE q # p /\ u # p
      BY <1>13, <2>2, <3>2 DEF RunsInv, SessionsOwn
    <3>3. QED
      BY <2>2, <3>1, <3>2
  <2>3. QED
    BY <2>1, <2>2 DEF SessionsOwn, Active
<1>17. ErrorTellsOutcome'
  <2>1. ASSUME NEW t \in Source, status'[t].run # 0
        PROVE  status'[t].error =
                  CASE runs'[status'[t].run].status = "running"
                          -> Degraded(runs'[status'[t].run].health)
                    [] runs'[status'[t].run].status = "failed" -> {Terminal}
                    [] OTHER -> {}
    <3>1. CASE t = s
      BY <1>2, <1>3, <1>6, <1>7, <3>1, UnknownType
    <3>2. CASE t # s
      <4>1. status'[t] = status[t] /\ status[t].run \in RunsOf(t)
        BY <1>7, <2>1, <3>2 DEF RunsInv, StatusOwned
      <4>2. runs'[status[t].run] = runs[status[t].run]
        BY <1>9, <3>2, <4>1
      <4>3. QED
        BY <2>1, <4>1, <4>2 DEF RunsInv, ErrorTellsOutcome
    <3>3. QED
      BY <3>1, <3>2
  <2>2. QED
    BY <2>1 DEF ErrorTellsOutcome
<1>18. QED
  BY <1>14, <1>15, <1>16, <1>17 DEF RunsInv

LEMMA SessionPreserves ==
  ASSUME RunsInv, NEW p \in Session,
         \/ Begin(p) \/ RecordRefused(p) \/ WorkerError(p) \/ Shutdown(p)
         \/ ShutdownInStartup(p) \/ Crash(p)
         \/ \E w \in Worker : ReportRefused(p, w)
  PROVE  RunsInv'
<1>0. sess[p] \in SessionState /\ clock \in Nat
  BY DEF RunsInv, TypeOK
<1>1. CASE Begin(p)
  <2> DEFINE e == [Down EXCEPT !.pc = "opening", !.begun = clock + 1]
  <2>1. e \in SessionState /\ e.pc = "opening"
    <3>1. clock + 1 \in Nat /\ Down \in SessionState
      BY <1>0, DownType
    <3>2. QED
      BY <3>1, RecordTypes, Zenon
  <2>2. sess' = [sess EXCEPT ![p] = e] /\ clock' = clock + 1
        /\ UNCHANGED <<runs, captured, gaps, status>>
    BY <1>1 DEF Begin
  <2> HIDE DEF e
  <2>3. clock' \in Nat /\ e.pc \notin Live
    BY <1>0, <2>1, <2>2 DEF Live
  <2>4. QED
    BY <2>1, <2>2, <2>3, SessionMove
<1>2. ASSUME NEW pc \in {"failing", "stopping", "exited"}, NEW bad \in BOOLEAN,
             sess' = [sess EXCEPT ![p].pc = pc, ![p].refused = bad]
                \/ sess' = [sess EXCEPT ![p].pc = pc],
             sess[p].pc \in Live \/ pc = "exited",
             UNCHANGED <<clock, runs, captured, gaps, status>>
      PROVE  RunsInv'
  <2> DEFINE e == [sess[p] EXCEPT !.pc = pc, !.refused = bad]
             f == [sess[p] EXCEPT !.pc = pc]
  <2>1. /\ e \in SessionState /\ e.pc = pc /\ e.run = sess[p].run
        /\ f \in SessionState /\ f.pc = pc /\ f.run = sess[p].run
    BY <1>0, <1>2 DEF SessionState
  <2>2. sess' = [sess EXCEPT ![p] = e] \/ sess' = [sess EXCEPT ![p] = f]
    BY <1>2
  <2>3. clock' \in Nat /\ (pc \in Live => sess[p].pc \in Live)
    BY <1>0, <1>2 DEF Live
  <2>4. UNCHANGED <<runs, captured, gaps, status>>
    BY <1>2
  <2> HIDE DEF e, f
  <2>5. QED
    BY <2>1, <2>2, <2>3, <2>4, SessionMove
<1>3. CASE RecordRefused(p) \/ WorkerError(p)
  BY <1>2, <1>3 DEF RecordRefused, WorkerError, Live
<1>4. ASSUME NEW w \in Worker, ReportRefused(p, w) PROVE RunsInv'
  BY <1>2, <1>4 DEF ReportRefused, Reporting, Live
<1>5. CASE Shutdown(p) \/ ShutdownInStartup(p)
  BY <1>2, <1>5 DEF Shutdown, ShutdownInStartup, Live
<1>6. CASE Crash(p)
  BY <1>0, <1>6, DownType, SessionMove DEF Crash, Live
<1>7. QED
  BY <1>1, <1>3, <1>4, <1>5, <1>6

LEMMA RunsStep == RunsInv /\ [Next]_vars => RunsInv'
<1> SUFFICES ASSUME RunsInv, [Next]_vars PROVE RunsInv'
  OBVIOUS
<1>1. CASE UNCHANGED vars
  BY <1>1 DEF vars, RunsInv, TypeOK, StatusOwned, SessionsOwn, ErrorTellsOutcome, RunsOf, Active
<1>2. CASE Next
  BY <1>2, OpenPreserves, SessionPreserves, WorkersPreserve, RecordPreserves, FinishPreserves
     DEF Next
<1>3. QED
  BY <1>1, <1>2

\* Every variable keeps its type, and a live session has a run of its own source
\* (TypeOK).
THEOREM RunTypes == Spec => []TypeOK
<1>1. RunsInv => TypeOK
  BY DEF RunsInv
<1>2. QED
  BY <1>1, RunsInit, RunsStep, PTL DEF Spec

\* A source never has two running runs, and its status row belongs to the newest
\* one, however sessions overlap (initialize_identity, StatusOwned).
THEOREM OneRunningRun == Spec => []StatusOwned
<1>1. RunsInv => StatusOwned
  BY DEF RunsInv
<1>2. QED
  BY <1>1, RunsInit, RunsStep, PTL DEF Spec

\* The error of a status row is that of the run that owns it: no report of a
\* superseded session ever reaches it (recompute_extractor_error, finish_run,
\* ErrorTellsOutcome).
THEOREM ErrorIsOwn == Spec => []ErrorTellsOutcome
<1>1. RunsInv => ErrorTellsOutcome
  BY DEF RunsInv
<1>2. QED
  BY <1>1, RunsInit, RunsStep, PTL DEF Spec

-----------------------------------------------------------------------------
(* What the record says.  The occurrences of the runs and the last tip of  *)
(* a source as functions of the record, so that a step can be compared     *)
(* with the step before it.                                                *)

\* The positions in record c of what run r captured.
By(c, r) == {k \in DOMAIN c : c[k].run = r}

\* Run r has exactly the sequences 1..last in record c, in commit order.
Dense(c, r, last) ==
    /\ {c[k].seq : k \in By(c, r)} = 1..last
    /\ \A j, k \in By(c, r) : j < k => c[j].seq < c[k].seq

\* The positions in record c of a tip that source s observed in a run below bound.
TipRows(c, rs, s, bound) ==
    {k \in DOMAIN c : /\ c[k].tip # NoTip
                      /\ c[k].run < bound
                      /\ rs[c[k].run].source = s}

LastTip(c, rs, s, bound) ==
    LET seen == TipRows(c, rs, s, bound)
    IN  IF seen = {} THEN NoTip
        ELSE c[CHOOSE k \in seen : \A j \in seen : j <= k].tip

\* A nonempty set of positions has a last one.
LEMMA LastPosition ==
  ASSUME NEW n \in Nat, NEW S \in SUBSET (1..n), S # {}
  PROVE  \E k \in S : \A j \in S : j <= k
<1> DEFINE D == {n - k : k \in S}
<1>1. D \in SUBSET Nat /\ D # {}
  <2>1. \A k \in S : n - k \in Nat
    OBVIOUS
  <2>2. QED
    BY <2>1
<1>2. PICK x \in D : \A y \in D : ~ (<<y, x>> \in OpToRel(<, Nat))
  BY <1>1, NatLessThanWellFounded, WFMin
<1>3. PICK k \in S : x = n - k
  BY <1>2
<1>4. ASSUME NEW j \in S PROVE j <= k
  <2>1. n - j \in D /\ n - j \in Nat /\ n - k \in Nat
    BY <1>1
  <2>2. ~ (n - j < n - k)
    BY <1>2, <1>3, <2>1 DEF OpToRel
  <2>3. QED
    BY <2>2
<1>5. QED
  BY <1>4

\* The last tip is that of the last of its rows.
LEMMA LastTipValue ==
  ASSUME NEW c \in Seq(Capture), NEW rs, NEW s, NEW b,
         NEW k \in TipRows(c, rs, s, b), \A j \in TipRows(c, rs, s, b) : j <= k
  PROVE  LastTip(c, rs, s, b) = c[k].tip
<1> DEFINE S == TipRows(c, rs, s, b)
           m == CHOOSE i \in S : \A j \in S : j <= i
<1>1. S \subseteq Nat
  BY DEF TipRows
<1>2. m \in S /\ \A j \in S : j <= m
  OBVIOUS
<1> HIDE DEF S, m
<1>3. k \in S /\ k \in Nat /\ m \in Nat /\ k <= m /\ m <= k
  BY <1>1, <1>2 DEF S
<1>4. m = k
  BY <1>3
<1>5. QED
  BY <1>3, <1>4 DEF LastTip, S, m

\* Records with the same rows of tips have the same last tip.
LEMMA LastTipSame ==
  ASSUME NEW c \in Seq(Capture), NEW d \in Seq(Capture), NEW rs, NEW ss, NEW s,
         NEW b, NEW b2, TipRows(d, ss, s, b2) = TipRows(c, rs, s, b),
         \A k \in TipRows(c, rs, s, b) : d[k] = c[k]
  PROVE  LastTip(d, ss, s, b2) = LastTip(c, rs, s, b)
<1> DEFINE S == TipRows(c, rs, s, b)
<1>1. CASE S = {}
  BY <1>1 DEF LastTip
<1>2. CASE S # {}
  <2>1. S \in SUBSET (1..Len(c)) /\ Len(c) \in Nat
    BY DEF TipRows
  <2>2. PICK k \in S : \A j \in S : j <= k
    BY <1>2, <2>1, LastPosition
  <2>3. LastTip(c, rs, s, b) = c[k].tip
    BY <2>2, LastTipValue
  <2>4. LastTip(d, ss, s, b2) = d[k].tip
    BY <2>2, LastTipValue
  <2>5. QED
    BY <2>2, <2>3, <2>4
<1>3. QED
  BY <1>1, <1>2

\* The rows that a capture of run r appends, numbered on from `last`.
Appended(c, d, r, last, count, tip) ==
    /\ DOMAIN d = 1..(Len(c) + count)
    /\ \A k \in 1..Len(c) : d[k] = c[k]
    /\ \A k \in (Len(c) + 1)..(Len(c) + count) :
          d[k].run = r /\ d[k].seq = last + (k - Len(c)) /\ d[k].tip = tip

\* They go on where the run's numbers end.
LEMMA DenseGrows ==
  ASSUME NEW c \in Seq(Capture), NEW d, NEW r, NEW last \in Nat, NEW count \in Nat, NEW tip,
         Appended(c, d, r, last, count, tip)
  PROVE  Dense(c, r, last) => Dense(d, r, last + count)
<1> DEFINE n == Len(c)
           New == (n + 1)..(n + count)
<1>0. /\ n \in Nat /\ DOMAIN c = 1..n /\ DOMAIN d = 1..n \cup New
      /\ \A k \in 1..n : d[k] = c[k]
      /\ \A k \in New : d[k].run = r /\ d[k].seq = last + (k - n)
  <2>1. n \in Nat /\ DOMAIN c = 1..n
    OBVIOUS
  <2>2. 1..(n + count) = 1..n \cup New
    BY <2>1
  <2>3. DOMAIN d = 1..(n + count) /\ \A k \in 1..n : d[k] = c[k]
    BY DEF Appended
  <2>4. \A k \in New : d[k].run = r /\ d[k].seq = last + (k - n)
    BY DEF Appended
  <2>5. DOMAIN d = 1..n \cup New
    BY <2>2, <2>3
  <2>6. QED
    BY <2>1, <2>3, <2>4, <2>5
<1>2. By(d, r) = By(c, r) \cup New
  BY <1>0 DEF By
<1>3. /\ By(c, r) \subseteq 1..n /\ \A k \in By(c, r) : d[k] = c[k]
  BY <1>0 DEF By
<1>4. ASSUME Dense(c, r, last) PROVE Dense(d, r, last + count)
  <2>1. /\ \A k \in By(c, r) : c[k].seq \in 1..last
        /\ \A i \in 1..last : \E k \in By(c, r) : c[k].seq = i
        /\ \A j, k \in By(c, r) : j < k => c[j].seq < c[k].seq
    BY <1>4 DEF Dense
  <2>2. {d[k].seq : k \in By(d, r)} \subseteq 1..(last + count)
    BY <1>0, <1>2, <1>3, <2>1
  <2>3. ASSUME NEW i \in 1..(last + count) PROVE \E k \in By(d, r) : d[k].seq = i
    <3>1. CASE i <= last
      BY <1>2, <1>3, <2>1, <3>1
    <3>2. CASE i > last
      <4>1. n + (i - last) \in New /\ last + ((n + (i - last)) - n) = i
        BY <1>0, <3>2
      <4>2. QED
        BY <1>0, <1>2, <4>1
    <3>3. QED
      BY <3>1, <3>2
  <2>4. ASSUME NEW j \in By(d, r), NEW k \in By(d, r), j < k PROVE d[j].seq < d[k].seq
    <3>1. CASE k \in By(c, r)
      <4>1. j \in By(c, r)
        BY <1>0, <1>2, <1>3, <2>4, <3>1
      <4>2. QED
        BY <1>3, <2>1, <2>4, <3>1, <4>1
    <3>2. CASE k \in New /\ j \in By(c, r)
      <4>1. d[j].seq \in 1..last /\ d[k].seq = last + (k - n) /\ k - n \in 1..count
        BY <1>0, <1>3, <2>1, <3>2
      <4>2. QED
        BY <4>1
    <3>3. CASE k \in New /\ j \in New
      BY <1>0, <2>4, <3>3
    <3>4. QED
      BY <1>2, <3>1, <3>2, <3>3
  <2>5. QED
    BY <2>2, <2>3, <2>4 DEF Dense
<1>5. QED
  BY <1>4

\* They leave the other runs alone.
LEMMA OtherRunKept ==
  ASSUME NEW c \in Seq(Capture), NEW d \in Seq(Capture), NEW r \in Nat, NEW last \in Nat, NEW count \in Nat, NEW tip,
         Appended(c, d, r, last, count, tip), NEW q \in Nat, q # r
  PROVE  By(d, q) = By(c, q) /\ \A k \in By(c, q) : d[k] = c[k]
<1> DEFINE n == Len(c)
           New == (n + 1)..(n + count)
<1>1. n \in Nat /\ DOMAIN c = 1..n
  OBVIOUS
<1>2. DOMAIN d = 1..(n + count) /\ \A k \in 1..n : d[k] = c[k]
  BY DEF Appended
<1>3. \A k \in New : d[k].run = r
  BY DEF Appended
<1>4. DOMAIN d = 1..n \cup New
  BY <1>1, <1>2
<1>5. QED
  BY <1>1, <1>2, <1>3, <1>4 DEF By

\* A capture makes the last tip of its source its own, if it has one, and leaves
\* the last tip of every other source and of every earlier bound.
LEMMA LastTipGrows ==
  ASSUME NEW c \in Seq(Capture), NEW d \in Seq(Capture), NEW r \in Nat, NEW last \in Nat,
         NEW count \in Nat \ {0}, NEW tip, Appended(c, d, r, last, count, tip),
         NEW rs, NEW s, NEW b
  PROVE  /\ tip = NoTip \/ rs[r].source # s \/ ~(r < b)
               => LastTip(d, rs, s, b) = LastTip(c, rs, s, b)
         /\ tip # NoTip /\ rs[r].source = s /\ r < b => LastTip(d, rs, s, b) = tip
<1> DEFINE n == Len(c)
           New == (n + 1)..(n + count)
<1>0. /\ n \in Nat /\ DOMAIN c = 1..n /\ DOMAIN d = 1..n \cup New
      /\ \A k \in 1..n : d[k] = c[k]
      /\ \A k \in New : d[k].run = r /\ d[k].tip = tip
  <2>1. n \in Nat /\ DOMAIN c = 1..n
    OBVIOUS
  <2>2. 1..(n + count) = 1..n \cup New
    BY <2>1
  <2>3. DOMAIN d = 1..(n + count) /\ \A k \in 1..n : d[k] = c[k]
    BY DEF Appended
  <2>4. \A k \in New : d[k].run = r /\ d[k].tip = tip
    BY DEF Appended
  <2>5. DOMAIN d = 1..n \cup New
    BY <2>2, <2>3
  <2>6. QED
    BY <2>1, <2>3, <2>4, <2>5
<1>1. ASSUME tip = NoTip \/ rs[r].source # s \/ ~(r < b)
      PROVE  LastTip(d, rs, s, b) = LastTip(c, rs, s, b)
  <2>1. TipRows(d, rs, s, b) = TipRows(c, rs, s, b)
    BY <1>0, <1>1 DEF TipRows
  <2>2. \A k \in TipRows(c, rs, s, b) : d[k] = c[k]
    BY <1>0 DEF TipRows
  <2>3. QED
    BY <2>1, <2>2, LastTipSame
<1>2. ASSUME tip # NoTip, rs[r].source = s, r < b
      PROVE  LastTip(d, rs, s, b) = tip
  <2>1. n + count \in New /\ n + count \in TipRows(d, rs, s, b) /\ d[n + count].tip = tip
    BY <1>0, <1>2 DEF TipRows
  <2>2. \A j \in TipRows(d, rs, s, b) : j <= n + count
    BY <1>0 DEF TipRows
  <2>3. QED
    BY <2>1, <2>2, LastTipValue
<1>3. QED
  BY <1>1, <1>2

\* Every captured row belongs to a run.
CapturesKnown == \A k \in DOMAIN captured : captured[k].run \in DOMAIN runs

RecordInv ==
    RunsInv /\ CapturesKnown /\ StatusTipIsLast /\ SequencesDense /\ GapStartsAtLastTip

\* Sessions whose gap start is still used.
Starting == {"starting", "capturing"}

LEMMA RecordForms ==
  /\ StatusTipIsLast <=>
       \A s \in Source : status[s].tip = LastTip(captured, runs, s, Len(runs) + 1)
  /\ StatusTipIsLast' <=>
       \A s \in Source : status'[s].tip = LastTip(captured', runs', s, Len(runs') + 1)
  /\ SequencesDense <=> \A r \in DOMAIN runs : Dense(captured, r, runs[r].lastSeq)
  /\ SequencesDense' <=> \A r \in DOMAIN runs' : Dense(captured', r, runs'[r].lastSeq)
  /\ GapStartsAtLastTip <=>
       \A p \in Session : sess[p].pc \in Starting =>
          sess[p].previous = LastTip(captured, runs, SourceOf[p], sess[p].run)
  /\ GapStartsAtLastTip' <=>
       \A p \in Session : sess'[p].pc \in Starting =>
          sess'[p].previous = LastTip(captured', runs', SourceOf[p], sess'[p].run)
<1>1. /\ StatusTipIsLast <=>
           \A s \in Source : status[s].tip = LastTip(captured, runs, s, Len(runs) + 1)
      /\ StatusTipIsLast' <=>
           \A s \in Source : status'[s].tip = LastTip(captured', runs', s, Len(runs') + 1)
  BY Zenon DEF StatusTipIsLast, LastTipBefore, LastTip, TipRows
<1>2. /\ SequencesDense <=> \A r \in DOMAIN runs : Dense(captured, r, runs[r].lastSeq)
      /\ SequencesDense' <=> \A r \in DOMAIN runs' : Dense(captured', r, runs'[r].lastSeq)
  BY Zenon DEF SequencesDense, CapturedBy, Dense, By
<1>3. /\ GapStartsAtLastTip <=>
           \A p \in Session : sess[p].pc \in Starting =>
              sess[p].previous = LastTip(captured, runs, SourceOf[p], sess[p].run)
      /\ GapStartsAtLastTip' <=>
           \A p \in Session : sess'[p].pc \in Starting =>
              sess'[p].previous = LastTip(captured', runs', SourceOf[p], sess'[p].run)
  BY Zenon DEF GapStartsAtLastTip, LastTipBefore, LastTip, TipRows, Starting
<1>4. QED
  BY <1>1, <1>2, <1>3

LEMMA RecordInit == Init => RecordInv
<1> SUFFICES ASSUME Init PROVE RecordInv
  OBVIOUS
<1>1. RunsInv
  BY RunsInit
<1>2. captured = <<>> /\ DOMAIN captured = {} /\ runs = <<>> /\ DOMAIN runs = {}
  BY DEF Init
<1>3. \A s, b : LastTip(captured, runs, s, b) = NoTip
  BY <1>2 DEF LastTip, TipRows
<1>4. StatusTipIsLast
  BY <1>3, RecordForms DEF Init
<1>5. SequencesDense
  BY <1>2 DEF SequencesDense
<1>6. GapStartsAtLastTip
  BY DownType DEF Init, GapStartsAtLastTip
<1>7. QED
  BY <1>1, <1>2, <1>4, <1>5, <1>6 DEF RecordInv, CapturesKnown

\* What no step does to a closed run, and what steps other than a start or a
\* capture do to the record.
Frozen ==
    \A r \in DOMAIN runs : ~Active(r) =>
        runs'[r].status = runs[r].status /\ runs'[r].lastSeq = runs[r].lastSeq

Still ==
    /\ captured' = captured
    /\ Len(runs') = Len(runs) /\ DOMAIN runs' = DOMAIN runs
    /\ \A r \in DOMAIN runs : /\ runs'[r].source = runs[r].source
                              /\ runs'[r].lastSeq = runs[r].lastSeq
    /\ \A s \in Source : status'[s].tip = status[s].tip
    /\ \A p \in Session : sess'[p].pc \in Starting =>
          /\ sess[p].pc \in Starting
          /\ sess'[p].run = sess[p].run /\ sess'[p].previous = sess[p].previous

\* A capture of session p.
Captures(p, count, tip) ==
    /\ sess[p].pc = "capturing" /\ Active(sess[p].run)
    /\ runs' = Reserved(sess[p].run, count)
    /\ captured' = captured \o Occurrences(sess[p].run, count, tip)
    /\ tip = NoTip => status' = status
    /\ tip # NoTip => status' = Noted(SourceOf[p], sess[p].run, tip)
    /\ sess' = sess

LEMMA StillKeeps ==
  ASSUME RecordInv, RunsInv', Still
  PROVE  RecordInv'
<1>0. captured \in Seq(Capture) /\ CapturesKnown
  BY DEF RecordInv, RunsInv, TypeOK
<1>1. \A s, b : LastTip(captured', runs', s, b) = LastTip(captured, runs, s, b)
  <2> SUFFICES ASSUME NEW s, NEW b
               PROVE  LastTip(captured', runs', s, b) = LastTip(captured, runs, s, b)
    OBVIOUS
  <2>1. TipRows(captured', runs', s, b) = TipRows(captured, runs, s, b)
    BY <1>0 DEF Still, TipRows, CapturesKnown
  <2>2. QED
    BY <1>0, <2>1, LastTipSame DEF Still
<1>2. StatusTipIsLast'
  BY <1>1, RecordForms DEF RecordInv, Still
<1>3. SequencesDense'
  BY RecordForms DEF RecordInv, Still
<1>4. GapStartsAtLastTip'
  BY <1>1, RecordForms DEF RecordInv, Still
<1>5. CapturesKnown'
  BY <1>0 DEF Still, CapturesKnown
<1>6. QED
  BY <1>2, <1>3, <1>4, <1>5 DEF RecordInv

\* A new run of its source has no rows yet, and its session takes over the last
\* tip of all the runs before it.
LEMMA OpenKeeps ==
  ASSUME RecordInv, RunsInv', NEW p \in Session, OpenRun(p)
  PROVE  RecordInv' /\ Frozen
<1> DEFINE s == SourceOf[p]
           n == Len(runs)
<1>0. /\ runs \in Seq(Run) /\ n \in Nat /\ DOMAIN runs = 1..n /\ captured \in Seq(Capture)
      /\ \A k \in DOMAIN captured : captured[k].run \in 1..n
      /\ s \in Source /\ status \in [Source -> Status] /\ sess \in [Session -> SessionState]
      /\ sess[p] \in SessionState
  BY RunsAssumption DEF RecordInv, RunsInv, TypeOK, CapturesKnown
<1>1. /\ captured' = captured
      /\ Len(runs') = n + 1 /\ DOMAIN runs' = 1..(n + 1) /\ runs'[n + 1].lastSeq = 0
      /\ \A r \in 1..n : runs'[r] = Superseded(s)[r]
  <2>1. Superseded(s) \in Seq(Run) /\ Len(Superseded(s)) = n
    <3>1. \A q \in 1..n : runs[q] \in Run /\ [runs[q] EXCEPT !.status = "failed"] \in Run
      <4>1. \A q \in 1..n : runs[q] \in Run
        BY <1>0
      <4>2. QED
        BY <4>1, RecordTypes
    <3>2. Superseded(s) = [q \in 1..n |-> IF runs[q].source = s /\ runs[q].status = "running"
                                          THEN [runs[q] EXCEPT !.status = "failed"] ELSE runs[q]]
      BY <1>0 DEF Superseded
    <3>3. QED
      BY <1>0, <3>1, <3>2
  <2>2. runs' = Append(Superseded(s), [source |-> s, started |-> sess[p].begun,
                 status |-> "running", lastSeq |-> 0, health |-> Unknown])
    BY DEF OpenRun
  <2>3. QED
    BY <1>0, <2>1, <2>2 DEF OpenRun
<1>2. \A r \in 1..n : /\ runs'[r].source = runs[r].source
                      /\ runs'[r].lastSeq = runs[r].lastSeq
                      /\ runs[r].status # "running" => runs'[r].status = runs[r].status
  <2>1. \A r \in 1..n : runs[r] \in Run
    BY <1>0
  <2>2. \A r \in 1..n : runs'[r] = IF runs[r].source = s /\ runs[r].status = "running"
                                   THEN [runs[r] EXCEPT !.status = "failed"] ELSE runs[r]
    BY <1>0, <1>1 DEF Superseded
  <2>3. QED
    BY <2>1, <2>2 DEF Run
<1>3. status' = [status EXCEPT ![s] = ClaimedStatus(s, n + 1)]
      /\ sess' = [sess EXCEPT ![p] = [sess[p] EXCEPT !.pc = "starting", !.run = n + 1,
                                                     !.previous = status[s].tip]]
  BY DEF OpenRun, PreviousRunTip
<1>4. \A t \in Source : status'[t].tip = status[t].tip
  <2>1. ClaimedStatus(s, n + 1).tip = status[s].tip
    BY <1>0 DEF ClaimedStatus, Status
  <2>2. QED
    BY <1>0, <1>3, <2>1
<1>5. /\ sess'[p].run = n + 1 /\ sess'[p].previous = status[s].tip
      /\ \A q \in Session \ {p} : sess'[q] = sess[q]
  BY <1>0, <1>3 DEF SessionState
<1> HIDE DEF n, s
<1>6. \A t, b, b2 : (b2 = b \/ (b = n + 1 /\ b2 = n + 2))
         => LastTip(captured', runs', t, b2) = LastTip(captured, runs, t, b)
  <2> SUFFICES ASSUME NEW t, NEW b, NEW b2, b2 = b \/ (b = n + 1 /\ b2 = n + 2)
               PROVE  LastTip(captured', runs', t, b2) = LastTip(captured, runs, t, b)
    OBVIOUS
  <2>1. TipRows(captured', runs', t, b2) = TipRows(captured, runs, t, b)
    BY <1>0, <1>1, <1>2 DEF TipRows
  <2>2. QED
    BY <1>0, <1>1, <2>1, LastTipSame
<1>7. \A t \in Source : status[t].tip = LastTip(captured, runs, t, n + 1)
  BY RecordForms DEF RecordInv, n
<1>8. StatusTipIsLast'
  <2>1. Len(runs') + 1 = n + 2
    BY <1>0, <1>1
  <2>2. QED
    BY <1>4, <1>6, <1>7, <2>1, RecordForms
<1>9. SequencesDense'
  <2>1. \A r \in 1..n : Dense(captured', r, runs'[r].lastSeq)
    BY <1>0, <1>1, <1>2, RecordForms DEF RecordInv
  <2>2. By(captured', n + 1) = {}
    BY <1>0, <1>1 DEF By
  <2>3. Dense(captured', n + 1, 0)
    BY <2>2 DEF Dense
  <2>4. \A r \in DOMAIN runs' : r \in 1..n \/ r = n + 1
    BY <1>0, <1>1
  <2>5. QED
    BY <1>1, <2>1, <2>3, <2>4, RecordForms
<1>10. GapStartsAtLastTip'
  <2>1. sess'[p].previous = LastTip(captured', runs', SourceOf[p], sess'[p].run)
    BY <1>0, <1>5, <1>6, <1>7 DEF s
  <2>2. \A q \in Session \ {p} : sess'[q].pc \in Starting =>
           sess'[q].previous = LastTip(captured', runs', SourceOf[q], sess'[q].run)
    BY <1>5, <1>6, RecordForms DEF RecordInv
  <2>3. QED
    BY <2>1, <2>2, RecordForms
<1>11. CapturesKnown'
  BY <1>0, <1>1 DEF CapturesKnown
<1>12. Frozen
  BY <1>0, <1>2 DEF Frozen, Active
<1>13. QED
  BY <1>8, <1>9, <1>10, <1>11, <1>12 DEF RecordInv

\* Only the running run of a source captures, so the tip it observed is the last
\* of its source, and no session has started after it.
LEMMA CaptureKeeps ==
  ASSUME RecordInv, RunsInv', NEW p \in Session, NEW count \in {1, 2},
         NEW tip \in Tip \cup {NoTip}, Captures(p, count, tip)
  PROVE  /\ RecordInv' /\ Frozen
         /\ \A q \in DOMAIN runs : ~Active(q) =>
               By(captured', q) = By(captured, q)
               /\ \A k \in By(captured, q) : captured'[k] = captured[k]
<1> DEFINE r == sess[p].run
           s == SourceOf[p]
           last == runs[r].lastSeq
           c == captured
           d == captured'
<1>0. /\ runs \in Seq(Run) /\ c \in Seq(Capture) /\ d \in Seq(Capture)
      /\ status \in [Source -> Status] /\ CapturesKnown /\ StatusOwned
      /\ DOMAIN runs = 1..Len(runs) /\ Len(runs) \in Nat
  BY DEF RecordInv, RunsInv, TypeOK
<1>1. /\ s \in Source /\ status[s] \in Status /\ r \in DOMAIN runs /\ r \in Nat \ {0}
      /\ runs[r] \in Run /\ runs[r].source = s
  BY LiveSession DEF RecordInv, Captures, Live
<1>2. last \in Nat /\ count \in Nat \ {0}
  BY <1>1 DEF Run
<1>3. /\ Len(runs') = Len(runs) /\ DOMAIN runs' = DOMAIN runs
      /\ \A q \in DOMAIN runs : runs'[q].source = runs[q].source /\ runs'[q].status = runs[q].status
      /\ \A q \in DOMAIN runs \ {r} : runs'[q] = runs[q]
      /\ runs'[r].lastSeq = last + count
  <2>1. runs' = [runs EXCEPT ![r] = [runs[r] EXCEPT !.lastSeq = last + count]]
    BY <1>0 DEF Captures, Reserved
  <2>2. [runs[r] EXCEPT !.lastSeq = last + count] \in Run
    BY <1>1, <1>2 DEF Run
  <2> DEFINE e == [runs[r] EXCEPT !.lastSeq = last + count]
  <2>a. e \in Run /\ runs' = [runs EXCEPT ![r] = e] /\ runs \in Seq(Run) /\ r \in DOMAIN runs
    BY <1>0, <1>1, <2>1, <2>2
  <2> HIDE DEF e, r
  <2>3. runs' \in Seq(Run) /\ DOMAIN runs' = DOMAIN runs
    BY <2>a
  <2> USE DEF e, r
  <2>4. Len(runs') = Len(runs)
    BY <1>0, <2>3
  <2>5. runs'[r] = [runs[r] EXCEPT !.lastSeq = last + count]
        /\ \A q \in DOMAIN runs \ {r} : runs'[q] = runs[q]
    BY <1>0, <1>1, <2>1
  <2>6. QED
    BY <1>1, <2>3, <2>4, <2>5 DEF Run
<1>4. Appended(c, d, r, last, count, tip)
  <2> DEFINE new == Occurrences(r, count, tip)
  <2>1. /\ new = [i \in 1..count |-> [run |-> r, seq |-> last + i, tip |-> tip]]
    <3>1. \A i \in 1..count : FirstSeq(r) + i - 1 = last + i
      BY <1>2 DEF FirstSeq
    <3>2. QED
      BY <3>1 DEF Occurrences
  <2>2. \A i \in 1..count : new[i].run = r /\ new[i].seq = last + i /\ new[i].tip = tip
    BY <2>1
  <2>3. new \in Seq(Capture) /\ Len(new) = count
    <3>1. \A i \in 1..count : [run |-> r, seq |-> last + i, tip |-> tip] \in Capture
      BY <1>1, <1>2 DEF Capture
    <3>2. QED
      BY <1>2, <2>1, <3>1
  <2> HIDE DEF new
  <2>4. d = c \o new
    BY DEF Captures, new
  <2>5. DOMAIN d = 1..(Len(c) + count) /\ \A k \in 1..Len(c) : d[k] = c[k]
    BY <1>0, <2>3, <2>4
  <2>6. ASSUME NEW k \in (Len(c) + 1)..(Len(c) + count)
        PROVE  d[k].run = r /\ d[k].seq = last + (k - Len(c)) /\ d[k].tip = tip
    <3>1. k - Len(c) \in 1..count
      BY <1>0, <1>2
    <3>2. d[k] = new[k - Len(c)]
      BY <1>0, <1>2, <2>3, <2>4, <3>1
    <3>3. QED
      BY <2>2, <3>1, <3>2
  <2>7. QED
    BY <2>5, <2>6 DEF Appended
<1>5. /\ status[s].run = r /\ \A q \in DOMAIN runs : runs[q].source = s => q <= r
  BY <1>0, <1>1 DEF StatusOwned, RunsOf, Captures
<1> HIDE DEF r, s, last, c, d
<1>6. \A t, b : LastTip(d, runs', t, b) = LastTip(d, runs, t, b)
  <2> SUFFICES ASSUME NEW t, NEW b PROVE LastTip(d, runs', t, b) = LastTip(d, runs, t, b)
    OBVIOUS
  <2>1. \A k \in DOMAIN d : d[k].run \in DOMAIN runs
    <3>1. \A k \in 1..Len(c) : c[k].run \in DOMAIN runs
      BY <1>0 DEF CapturesKnown, c
    <3>2. \A k \in DOMAIN d : k \in 1..Len(c) \/ k \in (Len(c) + 1)..(Len(c) + count)
      BY <1>0, <1>2, <1>4 DEF Appended
    <3>3. \A k \in DOMAIN d : d[k].run = r \/ (k \in 1..Len(c) /\ d[k] = c[k])
      BY <1>4, <3>2 DEF Appended
    <3>4. QED
      BY <1>1, <3>1, <3>3
  <2>2. TipRows(d, runs', t, b) = TipRows(d, runs, t, b)
    BY <1>3, <2>1 DEF TipRows
  <2>3. QED
    BY <1>0, <2>2, LastTipSame
<1>7. \A t, b : tip = NoTip \/ s # t \/ ~(r < b) =>
                  LastTip(d, runs', t, b) = LastTip(c, runs, t, b)
  BY <1>0, <1>1, <1>2, <1>4, <1>6, LastTipGrows
<1>8. \A b : tip # NoTip /\ r < b => LastTip(d, runs', s, b) = tip
  BY <1>0, <1>1, <1>2, <1>4, <1>6, LastTipGrows, SMTT(30)
<1>9. StatusTipIsLast'
  <2>1. \A t \in Source : status[t].tip = LastTip(c, runs, t, Len(runs) + 1)
    BY RecordForms DEF RecordInv, c
  <2>2. ASSUME NEW t \in Source PROVE status'[t].tip = LastTip(d, runs', t, Len(runs') + 1)
    <3>1. CASE tip = NoTip
      BY <1>3, <1>7, <2>1, <3>1 DEF Captures
    <3>2. CASE tip # NoTip
      <4>1. status' = [status EXCEPT ![s].tip = tip]
        BY <1>5, <3>2 DEF Captures, Noted, r, s
      <4>2. CASE t = s
        <5>1. status'[t].tip = tip
          BY <1>0, <1>1, <4>1, <4>2 DEF Status
        <5>2. r < Len(runs') + 1
          BY <1>0, <1>1, <1>3
        <5>3. QED
          BY <1>8, <3>2, <4>2, <5>1, <5>2
      <4>3. CASE t # s
        <5>1. status'[t] = status[t]
          BY <1>0, <1>1, <4>1, <4>3
        <5>2. QED
          BY <1>3, <1>7, <2>1, <4>3, <5>1
      <4>4. QED
        BY <4>2, <4>3
    <3>3. QED
      BY <3>1, <3>2
  <2>3. QED
    BY <2>2, RecordForms DEF d
<1>10. \A q \in Nat : q # r => By(d, q) = By(c, q) /\ \A k \in By(c, q) : d[k] = c[k]
  <2>1. c \in Seq(Capture) /\ last \in Nat /\ count \in Nat
    BY <1>0, <1>2
  <2>2. ASSUME NEW q \in Nat, q # r PROVE By(d, q) = By(c, q) /\ \A k \in By(c, q) : d[k] = c[k]
    <3>1. Appended(c, d, r, last, count, tip)
      BY <1>4
    <3>2. c \in Seq(Capture) /\ d \in Seq(Capture) /\ last \in Nat /\ count \in Nat /\ r \in Nat
      BY <1>0, <1>1, <2>1
    <3> HIDE <1>4
    <3>3. QED
      BY <2>2, <3>1, <3>2, OtherRunKept, SMTT(30)
  <2>3. QED
    BY <2>2
<1>11. SequencesDense'
  <2>1. \A q \in DOMAIN runs : Dense(c, q, runs[q].lastSeq)
    BY RecordForms DEF RecordInv, c
  <2>2. Dense(d, r, last + count)
    BY <1>0, <1>1, <1>2, <1>4, <2>1, DenseGrows DEF last
  <2>3. ASSUME NEW q \in DOMAIN runs \ {r} PROVE Dense(d, q, runs[q].lastSeq)
    <3>1. By(d, q) = By(c, q) /\ \A k \in By(c, q) : d[k] = c[k]
      BY <1>0, <1>10
    <3>2. Dense(c, q, runs[q].lastSeq)
      BY <2>1
    <3>3. {d[k].seq : k \in By(d, q)} = {c[k].seq : k \in By(c, q)}
      BY <3>1
    <3>4. QED
      BY <3>1, <3>2, <3>3 DEF Dense
  <2>4. \A q \in DOMAIN runs' : Dense(d, q, runs'[q].lastSeq)
    BY <1>3, <2>2, <2>3
  <2>5. QED
    BY <2>4, RecordForms DEF d
<1>12. GapStartsAtLastTip'
  <2>1. ASSUME NEW q \in Session, sess'[q].pc \in Starting
        PROVE  sess'[q].previous = LastTip(d, runs', SourceOf[q], sess'[q].run)
    <3>1. sess' = sess
      BY DEF Captures
    <3>2. sess[q].previous = LastTip(c, runs, SourceOf[q], sess[q].run)
      BY <2>1, <3>1, RecordForms DEF RecordInv, c
    <3>3. sess[q].run \in DOMAIN runs /\ runs[sess[q].run].source = SourceOf[q]
      BY <2>1, <3>1, LiveSession DEF RecordInv, Live, Starting
    <3>4. s = SourceOf[q] => ~(r < sess[q].run)
      BY <1>0, <1>1, <1>5, <3>3
    <3>5. QED
      BY <1>7, <3>1, <3>2, <3>4
  <2>2. QED
    BY <2>1, RecordForms DEF d
<1>13. CapturesKnown'
  <2>1. \A k \in DOMAIN d : d[k].run \in DOMAIN runs
    <3>1. \A k \in 1..Len(c) : c[k].run \in DOMAIN runs
      BY <1>0 DEF CapturesKnown, c
    <3>2. \A k \in DOMAIN d : k \in 1..Len(c) \/ k \in (Len(c) + 1)..(Len(c) + count)
      BY <1>0, <1>2, <1>4 DEF Appended
    <3>3. \A k \in DOMAIN d : d[k].run = r \/ (k \in 1..Len(c) /\ d[k] = c[k])
      BY <1>4, <3>2 DEF Appended
    <3>4. QED
      BY <1>1, <3>1, <3>3
  <2>2. QED
    BY <1>3, <2>1 DEF CapturesKnown, d
<1>14. Frozen
  BY <1>3 DEF Frozen, Active, Captures, r
<1>15. \A q \in DOMAIN runs : q \in Nat /\ (~Active(q) => q # r)
  BY <1>0 DEF Captures, r
<1>16. QED
  BY <1>9, <1>10, <1>11, <1>12, <1>13, <1>14, <1>15 DEF RecordInv, c, d

\* A step that moves one session and leaves the runs and the rows alone is still.
LEMMA SessionStill ==
  ASSUME RecordInv, NEW p \in Session, NEW e \in SessionState,
         sess' = [sess EXCEPT ![p] = e],
         e.pc \in Starting => /\ sess[p].pc \in Starting
                              /\ e.run = sess[p].run /\ e.previous = sess[p].previous,
         UNCHANGED <<runs, captured, status>>
  PROVE  Still /\ Frozen
<1>0. sess \in [Session -> SessionState]
  BY DEF RecordInv, RunsInv, TypeOK
<1>1. \A q \in Session : sess'[q].pc \in Starting =>
         /\ sess[q].pc \in Starting
         /\ sess'[q].run = sess[q].run /\ sess'[q].previous = sess[q].previous
  BY <1>0
<1>2. QED
  BY <1>1 DEF Still, Frozen

\* The session moves that keep run and previous tip.
LEMMA MovedSession ==
  ASSUME NEW ss \in SessionState, NEW pc \in {"capturing", "failing", "stopping", "exited"}
  PROVE  /\ [ss EXCEPT !.pc = pc] \in SessionState
         /\ [ss EXCEPT !.pc = pc].pc = pc /\ [ss EXCEPT !.pc = pc].run = ss.run
         /\ [ss EXCEPT !.pc = pc].previous = ss.previous
BY DEF SessionState

\* Moving a session, starting it again, ending it.
LEMMA SessionKeeps ==
  ASSUME RecordInv, NEW p \in Session,
         \/ Begin(p) \/ RecordRefused(p) \/ WorkerError(p) \/ Shutdown(p)
         \/ ShutdownInStartup(p) \/ Crash(p)
         \/ \E w \in Worker : ReportRefused(p, w)
  PROVE  Still /\ Frozen
<1>0. sess[p] \in SessionState /\ clock \in Nat
  BY DEF RecordInv, RunsInv, TypeOK
<1>1. CASE Begin(p)
  <2> DEFINE e == [Down EXCEPT !.pc = "opening", !.begun = clock + 1]
  <2>1. e \in SessionState /\ e.pc = "opening"
    <3>1. clock + 1 \in Nat /\ Down \in SessionState
      BY <1>0, DownType
    <3>2. QED
      BY <3>1, RecordTypes, Zenon
  <2>2. sess' = [sess EXCEPT ![p] = e] /\ UNCHANGED <<runs, captured, status>>
    BY <1>1 DEF Begin
  <2> HIDE DEF e
  <2>3. e.pc \notin Starting
    BY <2>1 DEF Starting
  <2>4. QED
    BY <2>1, <2>2, <2>3, SessionStill
<1>2. ASSUME NEW pc \in {"failing", "stopping", "exited"}, NEW bad \in BOOLEAN,
             sess' = [sess EXCEPT ![p].pc = pc, ![p].refused = bad]
                \/ sess' = [sess EXCEPT ![p].pc = pc],
             UNCHANGED <<runs, captured, status>>
      PROVE  Still /\ Frozen
  <2> DEFINE e == [sess[p] EXCEPT !.pc = pc, !.refused = bad]
             f == [sess[p] EXCEPT !.pc = pc]
  <2>1. e \in SessionState /\ e.pc = pc /\ f \in SessionState /\ f.pc = pc
    <3>1. e \in SessionState /\ e.pc = pc
      BY <1>0 DEF SessionState
    <3>2. f \in SessionState /\ f.pc = pc
      BY <1>0 DEF SessionState
    <3>3. QED
      BY <3>1, <3>2
  <2>2. sess' = [sess EXCEPT ![p] = e] \/ sess' = [sess EXCEPT ![p] = f]
    BY <1>2
  <2>3. UNCHANGED <<runs, captured, status>>
    BY <1>2
  <2> HIDE DEF e, f
  <2>4. e.pc \notin Starting /\ f.pc \notin Starting
    BY <2>1 DEF Starting
  <2>5. QED
    BY <2>1, <2>2, <2>3, <2>4, SessionStill
<1>3. CASE RecordRefused(p) \/ WorkerError(p)
  BY <1>2, <1>3 DEF RecordRefused, WorkerError
<1>4. ASSUME NEW w \in Worker, ReportRefused(p, w) PROVE Still /\ Frozen
  BY <1>2, <1>4 DEF ReportRefused
<1>5. CASE Shutdown(p) \/ ShutdownInStartup(p)
  BY <1>2, <1>5 DEF Shutdown, ShutdownInStartup
<1>6. CASE Crash(p)
  <2>1. sess' = [sess EXCEPT ![p] = Down] /\ UNCHANGED <<runs, captured, status>>
    BY <1>6 DEF Crash
  <2>2. QED
    BY <2>1, DownType, SessionStill DEF Starting
<1>7. QED
  BY <1>1, <1>3, <1>4, <1>5, <1>6

\* The reports of the workers rewrite the health of a run and the error of its row.
LEMMA WorkersKeep ==
  ASSUME RecordInv, NEW p \in Session,
         \/ InitializeWorkers(p)
         \/ \E w \in Worker : InitializeLate(p, w) \/ WorkerFailure(p, w) \/ WorkerSuccess(p, w)
  PROVE  Still /\ Frozen
<1> DEFINE r == sess[p].run
           s == SourceOf[p]
<1>0. /\ sess[p].pc \in Starting /\ sess[p].pc \in Live /\ sess \in [Session -> SessionState]
      /\ captured' = captured /\ status \in [Source -> Status] /\ runs \in Seq(Run)
  BY DEF InitializeWorkers, InitializeLate, WorkerFailure, WorkerSuccess, Reporting, Live,
         Starting, RecordInv, RunsInv, TypeOK
<1>1. /\ s \in Source /\ status[s] \in Status /\ r \in DOMAIN runs /\ runs[r] \in Run
      /\ sess[p] \in SessionState
  BY <1>0, LiveSession, SMTT(30) DEF RecordInv
<1>2. \E health : SetHealth(p, health)
  BY DEF InitializeWorkers, InitializeLate, WorkerFailure, WorkerSuccess
<1>3. PICK health : SetHealth(p, health)
  BY <1>2
<1>4. /\ DOMAIN runs' = DOMAIN runs
      /\ \A q \in DOMAIN runs : /\ runs'[q].source = runs[q].source
                                /\ runs'[q].lastSeq = runs[q].lastSeq
                                /\ runs'[q].status = runs[q].status
  <2>1. runs' = [runs EXCEPT ![r] = [runs[r] EXCEPT !.health = health]]
    BY <1>3 DEF SetHealth
  <2>2. /\ [runs[r] EXCEPT !.health = health].source = runs[r].source
        /\ [runs[r] EXCEPT !.health = health].lastSeq = runs[r].lastSeq
        /\ [runs[r] EXCEPT !.health = health].status = runs[r].status
    BY <1>1 DEF Run
  <2>3. QED
    BY <1>0, <1>1, <2>1, <2>2
<1>5. Len(runs') = Len(runs)
  BY <1>0, <1>3 DEF SetHealth
<1>6. \A t \in Source : status'[t].tip = status[t].tip
  <2>1. [status[s] EXCEPT !.error = Degraded(health)].tip = status[s].tip
    BY <1>1 DEF Status
  <2>2. status' = status \/ status' = [status EXCEPT ![s] = [status[s] EXCEPT !.error = Degraded(health)]]
    BY <1>3 DEF SetHealth, Recomputed
  <2>3. QED
    BY <1>0, <1>1, <2>1, <2>2
<1>7. \A q \in Session : /\ sess'[q].run = sess[q].run /\ sess'[q].previous = sess[q].previous
                         /\ sess'[q].pc \in Starting => sess[q].pc \in Starting
  <2>1. sess' = sess \/ sess' = [sess EXCEPT ![p] = [sess[p] EXCEPT !.pc = "capturing"]]
    BY DEF InitializeWorkers, InitializeLate, WorkerFailure, WorkerSuccess
  <2>2. /\ [sess[p] EXCEPT !.pc = "capturing"].run = sess[p].run
        /\ [sess[p] EXCEPT !.pc = "capturing"].previous = sess[p].previous
    BY <1>1, MovedSession
  <2>3. QED
    BY <1>0, <2>1, <2>2
<1>8. QED
  BY <1>0, <1>4, <1>5, <1>6, <1>7 DEF Still, Frozen

\* Finishing a run changes only a status that is still running, and the error of
\* the row.
LEMMA FinishKeeps ==
  ASSUME RecordInv, NEW p \in Session, FinishRun(p)
  PROVE  Still /\ Frozen
<1> DEFINE r == sess[p].run
           s == SourceOf[p]
           done == IF runs[r].status = "running" THEN Outcome(p) ELSE runs[r].status
<1>0. /\ sess[p].pc \in Live /\ sess \in [Session -> SessionState]
      /\ captured' = captured /\ status \in [Source -> Status] /\ runs \in Seq(Run)
  BY DEF FinishRun, Live, RecordInv, RunsInv, TypeOK
<1>1. /\ s \in Source /\ status[s] \in Status /\ r \in DOMAIN runs /\ runs[r] \in Run
      /\ sess[p] \in SessionState
  BY <1>0, LiveSession DEF RecordInv
<1>2. runs' = [runs EXCEPT ![r] = [runs[r] EXCEPT !.status = done]]
  BY DEF FinishRun, FinishedRuns
<1>3. /\ DOMAIN runs' = DOMAIN runs
      /\ \A q \in DOMAIN runs : /\ runs'[q].source = runs[q].source
                                /\ runs'[q].lastSeq = runs[q].lastSeq
                                /\ ~Active(q) => runs'[q].status = runs[q].status
  <2>1. /\ [runs[r] EXCEPT !.status = done].source = runs[r].source
        /\ [runs[r] EXCEPT !.status = done].lastSeq = runs[r].lastSeq
        /\ [runs[r] EXCEPT !.status = done].status = done
    BY <1>1 DEF Run
  <2>2. ~Active(r) => done = runs[r].status
    BY DEF Active
  <2> HIDE DEF done
  <2>3. QED
    BY <1>0, <1>1, <1>2, <2>1, <2>2
<1>4. Len(runs') = Len(runs)
  BY <1>0, <1>2
<1>5. \A t \in Source : status'[t].tip = status[t].tip
  <2> DEFINE err == IF Outcome(p) = "failed" THEN {Terminal} ELSE {}
  <2>1. [status[s] EXCEPT !.error = err].tip = status[s].tip
    BY <1>1 DEF Status
  <2>2. status' = status \/ status' = [status EXCEPT ![s] = [status[s] EXCEPT !.error = err]]
    BY DEF FinishRun
  <2> HIDE DEF err
  <2>3. QED
    BY <1>0, <1>1, <2>1, <2>2
<1>6. \A q \in Session : sess'[q].pc \in Starting => sess'[q] = sess[q]
  <2>1. Down.pc \notin Starting
    BY DownType DEF Starting
  <2>2. [sess[p] EXCEPT !.pc = "exited"].pc \notin Starting
    BY <1>1, MovedSession DEF Starting
  <2>3. \/ sess' = [sess EXCEPT ![p] = Down]
        \/ sess' = [sess EXCEPT ![p] = [sess[p] EXCEPT !.pc = "exited"]]
    BY DEF FinishRun
  <2>4. QED
    BY <1>0, <2>1, <2>2, <2>3
<1>7. QED
  BY <1>0, <1>3, <1>4, <1>5, <1>6 DEF Still, Frozen

\* What a step does to the rows and the outcome of a closed run.
ClosedKept ==
    \A r \in DOMAIN runs : ~Active(r) =>
        /\ runs'[r].status = runs[r].status
        /\ runs'[r].lastSeq = runs[r].lastSeq
        /\ By(captured', r) = By(captured, r)
        /\ \A k \in By(captured, r) : captured'[k] = captured[k]

LEMMA RecordStep == RecordInv /\ [Next]_vars => RecordInv' /\ ClosedKept
<1> SUFFICES ASSUME RecordInv, [Next]_vars PROVE RecordInv' /\ ClosedKept
  OBVIOUS
<1>0. RunsInv /\ RunsInv'
  BY RunsStep DEF RecordInv
<1>1. ASSUME Still, Frozen PROVE RecordInv' /\ ClosedKept
  BY <1>0, <1>1, StillKeeps DEF Still, Frozen, ClosedKept
<1>2. CASE UNCHANGED vars
  BY <1>1, <1>2 DEF vars, Still, Frozen
<1>3. ASSUME NEW p \in Session, OpenRun(p) PROVE RecordInv' /\ ClosedKept
  <2>1. RecordInv' /\ Frozen
    BY <1>0, <1>3, OpenKeeps
  <2>2. captured' = captured
    BY <1>3 DEF OpenRun
  <2>3. QED
    BY <2>1, <2>2 DEF Frozen, ClosedKept
<1>4. ASSUME NEW p \in Session, NEW count \in {1, 2}, NEW tip \in Tip \cup {NoTip},
             Captures(p, count, tip)
      PROVE  RecordInv' /\ ClosedKept
  BY <1>0, <1>4, CaptureKeeps DEF Frozen, ClosedKept
<1>5. ASSUME NEW p \in Session, NEW count \in {1, 2}, RecordEvents(p, count)
      PROVE  RecordInv' /\ ClosedKept
  <2>1. Captures(p, count, NoTip)
    BY <1>5 DEF RecordEvents, Recording, Captures
  <2>2. QED
    BY <1>4, <2>1
<1>6. ASSUME NEW p \in Session, NEW count \in {1, 2}, NEW tip \in Tip,
             RecordSnapshot(p, count, tip) \/ (count = 1 /\ RecordTip(p, tip))
      PROVE  RecordInv' /\ ClosedKept
  <2>1. Captures(p, count, tip)
    BY <1>6, RunsAssumption DEF RecordSnapshot, RecordTip, Recording, Captures
  <2>2. QED
    BY <1>4, <2>1
<1>7. CASE Next
  BY <1>1, <1>3, <1>5, <1>6, <1>7, SessionKeeps, WorkersKeep, FinishKeeps DEF Next
<1>8. QED
  BY <1>2, <1>7

LEMMA RecordAlways == Spec => []RecordInv
BY RecordInit, RecordStep, PTL DEF Spec

\* The status row of a source shows the tip it observed last, whichever run
\* observed it and however the sessions overlap (update_extractor_status,
\* initialize_identity, StatusTipIsLast).
THEOREM StatusShowsLastTip == Spec => []StatusTipIsLast
<1>1. RecordInv => StatusTipIsLast
  BY DEF RecordInv
<1>2. QED
  BY <1>1, RecordAlways, PTL

\* Every run's occurrences are numbered 1, 2, ... in commit order without a gap or
\* a repetition, for any number of sessions and any interleaving of their writes,
\* refusals and crashes (reserve_capture_sequences, SequencesDense).
THEOREM SequencesAreDense == Spec => []SequencesDense
<1>1. RecordInv => SequencesDense
  BY DEF RecordInv
<1>2. QED
  BY <1>1, RecordAlways, PTL

\* The start of the gap that a new subscription records is the last tip of all the
\* runs before it, and remains so while it runs (previous_run_tip, gap_start,
\* GapStartsAtLastTip).
THEOREM GapStartIsLast == Spec => []GapStartsAtLastTip
<1>1. RecordInv => GapStartsAtLastTip
  BY DEF RecordInv
<1>2. QED
  BY <1>1, RecordAlways, PTL

\* What a closed run says is never rewritten: neither its outcome nor its sequence
\* nor any of its occurrences (finish_run, reserve_capture_sequences,
\* ClosedRunsFrozen).
THEOREM ClosedRunsAreFrozen == Spec => ClosedRunsFrozen
<1>1. RecordInv /\ [Next]_vars =>
         [\A r \in DOMAIN runs : ~Active(r) =>
             /\ runs'[r].status = runs[r].status
             /\ runs'[r].lastSeq = runs[r].lastSeq
             /\ CapturedBy(r)' = CapturedBy(r)
             /\ \A k \in CapturedBy(r) : captured'[k] = captured[k]]_vars
  BY RecordStep DEF ClosedKept, CapturedBy, By
<1>2. QED
  BY <1>1, RecordAlways, PTL DEF Spec, ClosedRunsFrozen
=============================================================================

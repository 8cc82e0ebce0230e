-------------------------- MODULE WriteOrderProofs --------------------------
(***************************************************************************)
(* Proofs about WriteOrder, for any number of connections and any batches. *)
(***************************************************************************)
EXTENDS WriteOrder, TLAPS

Writing(w) == tx[w].phase \in {"writing", "committing"}

\* Only the holder of the lock has a transaction with rows in it.
LockHeld ==
    \A w \in Writer : /\ Writing(w) => lock = w
                      /\ ~Writing(w) => tx[w].pending = {}

\* Rows that are not committed yet lie above every committed row and above the
\* consumer's cursor, and everything lies below the next id.
PendingAbove ==
    /\ nextId > 0 /\ cursor < nextId
    /\ \A r \in rows : r.id < nextId
    /\ \A w \in Writer : \A r \in tx[w].pending :
          /\ r.id < nextId /\ r.id > cursor
          /\ \A s \in rows : r.id > s.id

\* What the consumer has is what lies up to its cursor.
ReaderExact == delivered = {r \in rows : r.id <= cursor}

OrderInv == TypeOK /\ LockHeld /\ PendingAbove /\ ReaderExact

LEMMA NoTransactionType ==
  ASSUME NEW phase \in Phase, NEW alive \in BOOLEAN
  PROVE  /\ NoTransaction(phase, alive) \in Transaction
         /\ NoTransaction(phase, alive).phase = phase
         /\ NoTransaction(phase, alive).pending = {}
<1>1. <<>> \in Seq(Fact)
  OBVIOUS
<1>2. QED
  BY <1>1 DEF NoTransaction, Transaction

LEMMA OrderInit == Init => OrderInv
<1> SUFFICES ASSUME Init PROVE OrderInv
  OBVIOUS
<1>1. "idle" \in Phase
  BY DEF Phase
<1>2. \A w \in Writer : tx[w].phase = "idle" /\ tx[w].pending = {}
  BY <1>1, NoTransactionType DEF Init
<1>3. TypeOK
  BY <1>1, NoTransactionType DEF Init, TypeOK
<1>4. LockHeld
  BY <1>2 DEF LockHeld, Writing
<1>5. PendingAbove
  <2>1. nextId > 0 /\ cursor < nextId /\ rows = {}
    BY DEF Init
  <2>2. QED
    BY <1>2, <2>1 DEF PendingAbove
<1>6. ReaderExact
  BY DEF Init, ReaderExact
<1>7. QED
  BY <1>3, <1>4, <1>5, <1>6 DEF OrderInv

\* A step that changes neither rows nor cursor nor ids keeps the invariant if
\* the changed transaction holds the lock when it writes and has lost nothing
\* but rows.
LEMMA TransactionUpdate ==
  ASSUME OrderInv, NEW w \in Writer, NEW t \in Transaction,
         tx' = [tx EXCEPT ![w] = t],
         t.pending \subseteq tx[w].pending,
         t.phase \in {"writing", "committing"} => lock' = w,
         t.phase \notin {"writing", "committing"} => t.pending = {},
         lock' \in Writer \cup {Nobody},
         \A v \in Writer \ {w} : lock = v => lock' = v,
         UNCHANGED <<nextId, rows, cursor, delivered>>,
         live' \subseteq [source : Source, fact : Fact]
  PROVE  OrderInv'
<1>1. TypeOK'
  BY DEF OrderInv, TypeOK
<1>2. tx'[w] = t /\ \A v \in Writer \ {w} : tx'[v] = tx[v]
  BY DEF OrderInv, TypeOK
<1>3. LockHeld'
  BY <1>2 DEF OrderInv, LockHeld, Writing
<1>4. PendingAbove'
  BY <1>2 DEF OrderInv, PendingAbove
<1>5. ReaderExact'
  BY DEF OrderInv, ReaderExact
<1>6. QED
  BY <1>1, <1>3, <1>4, <1>5 DEF OrderInv

LEMMA WriterPreservesOrder ==
  ASSUME OrderInv, NEW w \in Writer,
         \/ \E batch \in Batch : Open(w, batch)
         \/ Acquire(w) \/ FailWrite(w) \/ SendCommit(w) \/ Die(w)
         \/ ServerRollback(w) \/ Restart(w)
         \/ \E taken \in SUBSET Fact : FanOut(w, taken)
  PROVE  OrderInv'
<1>0. /\ tx[w] \in Transaction /\ lock \in Writer \cup {Nobody}
      /\ live \subseteq [source : Source, fact : Fact]
      /\ (tx[w].phase \in {"writing", "committing"} => lock = w)
      /\ (tx[w].phase \notin {"writing", "committing"} => tx[w].pending = {})
  BY DEF OrderInv, TypeOK, LockHeld, Writing
<1>a. \A phase \in {"dead", "idle"} : \A alive \in BOOLEAN :
         /\ NoTransaction(phase, alive) \in Transaction
         /\ NoTransaction(phase, alive).phase = phase
         /\ NoTransaction(phase, alive).pending = {}
  BY NoTransactionType DEF Phase
<1>b. Released(w) \in Writer \cup {Nobody} /\ \A v \in Writer \ {w} : lock = v => Released(w) = v
  BY <1>0 DEF Released
<1>1. ASSUME NEW batch \in Batch, Open(w, batch) PROVE OrderInv'
  <2> DEFINE t == [tx[w] EXCEPT !.phase = "waiting", !.todo = batch, !.batch = batch]
  <2>1. t \in Transaction /\ t.phase = "waiting" /\ t.pending = tx[w].pending
    BY <1>0, WriteOrderAssumption DEF Transaction, Phase
  <2>2. tx' = [tx EXCEPT ![w] = t]
    BY <1>1 DEF Open
  <2>3. tx[w].phase = "idle"
    BY <1>1 DEF Open
  <2> HIDE DEF t
  <2>4. QED
    BY <1>0, <1>1, <2>1, <2>2, <2>3, TransactionUpdate DEF Open
<1>2. CASE Acquire(w)
  <2> DEFINE t == [tx[w] EXCEPT !.phase = "writing"]
  <2>1. t \in Transaction /\ t.phase = "writing" /\ t.pending = tx[w].pending
    BY <1>0 DEF Transaction, Phase
  <2>2. tx' = [tx EXCEPT ![w] = t]
    BY <1>2 DEF Acquire
  <2> HIDE DEF t
  <2>3. QED
    BY <1>0, <1>2, <2>1, <2>2, WriteOrderAssumption, TransactionUpdate DEF Acquire
<1>3. CASE FailWrite(w) \/ ServerRollback(w)
  BY <1>0, <1>a, <1>b, <1>3, TransactionUpdate DEF FailWrite, ServerRollback
<1>4. CASE SendCommit(w)
  <2> DEFINE t == [tx[w] EXCEPT !.phase = "committing"]
  <2>1. t \in Transaction /\ t.phase = "committing" /\ t.pending = tx[w].pending
    BY <1>0 DEF Transaction, Phase
  <2>2. tx' = [tx EXCEPT ![w] = t]
    BY <1>4 DEF SendCommit
  <2> HIDE DEF t
  <2>3. QED
    BY <1>0, <1>4, <2>1, <2>2, TransactionUpdate DEF SendCommit
<1>5. CASE Die(w)
  <2> DEFINE t == [tx[w] EXCEPT !.alive = FALSE]
  <2>1. t \in Transaction /\ t.phase = tx[w].phase /\ t.pending = tx[w].pending
    BY <1>0 DEF Transaction
  <2>2. tx' = [tx EXCEPT ![w] = t] \/ tx' = [tx EXCEPT ![w] = NoTransaction("dead", FALSE)]
    BY <1>5 DEF Die
  <2>3. UNCHANGED <<lock, nextId, rows, cursor, delivered, live>>
    BY <1>5 DEF Die
  <2>4. tx' = [tx EXCEPT ![w] = NoTransaction("dead", FALSE)] => tx[w].pending = {}
    BY <1>0, <1>5 DEF Die, OrderInv, TypeOK, NoTransaction
  <2> HIDE DEF t
  <2>5. QED
    BY <1>0, <1>a, <2>1, <2>2, <2>3, TransactionUpdate
<1>6. CASE Restart(w)
  BY <1>0, <1>a, <1>6, TransactionUpdate DEF Restart
<1>7. ASSUME NEW taken \in SUBSET Fact, FanOut(w, taken) PROVE OrderInv'
  <2>1. live' \subseteq [source : Source, fact : Fact]
    BY <1>0, <1>7, WriteOrderAssumption DEF FanOut
  <2>2. QED
    BY <1>0, <1>a, <1>7, <2>1, TransactionUpdate DEF FanOut
<1>8. QED
  BY <1>1, <1>2, <1>3, <1>4, <1>5, <1>6, <1>7

LEMMA InsertPreservesOrder ==
  ASSUME OrderInv, NEW w \in Writer, InsertFact(w)
  PROVE  OrderInv'
<1> DEFINE fact == Head(tx[w].todo)
           row == [id |-> nextId, source |-> SourceOf[w], fact |-> fact]
           p == IF Resolved(w, fact) THEN tx[w].pending ELSE tx[w].pending \cup {row}
           t == [tx[w] EXCEPT !.todo = Tail(@), !.pending = p]
<1>0. tx[w] \in Transaction /\ tx[w].phase = "writing" /\ tx[w].todo \in Seq(Fact)
      /\ tx[w].todo # <<>>
  BY DEF OrderInv, TypeOK, Transaction, InsertFact
<1>1. /\ tx' = [tx EXCEPT ![w] = t]
      /\ nextId' = nextId + 1
      /\ UNCHANGED <<lock, rows, cursor, delivered, live>>
  BY DEF InsertFact
<1>2. row \in Row /\ row.id = nextId
  BY <1>0, WriteOrderAssumption DEF Row, OrderInv, TypeOK
<1>3. p \subseteq tx[w].pending \cup {row}
  OBVIOUS
<1>4. t \in Transaction /\ t.phase = "writing" /\ t.pending = p
  <2>1. Tail(tx[w].todo) \in Seq(Fact)
    BY <1>0
  <2>2. p \subseteq Row
    BY <1>0, <1>2, <1>3 DEF Transaction
  <2> HIDE DEF p
  <2>3. QED
    BY <1>0, <2>1, <2>2 DEF Transaction
<1> HIDE DEF t, p, row
<1>5. tx'[w] = t /\ \A v \in Writer \ {w} : tx'[v] = tx[v]
  BY <1>1 DEF OrderInv, TypeOK
<1>6. TypeOK'
  BY <1>1, <1>4 DEF OrderInv, TypeOK
<1>7. LockHeld'
  BY <1>0, <1>1, <1>4, <1>5 DEF OrderInv, LockHeld, Writing
<1>8. PendingAbove'
  <2>1. nextId \in Nat /\ cursor \in Nat /\ rows \subseteq Row
        /\ \A v \in Writer : tx[v].pending \subseteq Row
    BY DEF OrderInv, TypeOK, Transaction
  <2>2. \A v \in Writer : tx'[v].pending \subseteq tx[v].pending \cup {row}
    BY <1>3, <1>4, <1>5
  <2>3. \A r \in Row : r.id \in Nat
    BY DEF Row
  <2>4. /\ nextId' > 0 /\ cursor' < nextId'
        /\ \A r \in rows' : r.id < nextId'
    BY <1>1, <2>1, <2>3 DEF OrderInv, PendingAbove
  <2>5. ASSUME NEW v \in Writer, NEW r \in tx'[v].pending
        PROVE  /\ r.id < nextId' /\ r.id > cursor'
               /\ \A s \in rows' : r.id > s.id
    <3>1. CASE r = row
      BY <1>1, <1>2, <2>1, <2>3, <3>1 DEF OrderInv, PendingAbove
    <3>2. CASE r \in tx[v].pending
      BY <1>1, <2>1, <2>3, <3>2 DEF OrderInv, PendingAbove
    <3>3. QED
      BY <2>2, <3>1, <3>2
  <2>6. QED
    BY <2>4, <2>5 DEF PendingAbove
<1>9. ReaderExact'
  BY <1>1 DEF OrderInv, ReaderExact
<1>10. QED
  BY <1>6, <1>7, <1>8, <1>9 DEF OrderInv

LEMMA CommitPreservesOrder ==
  ASSUME OrderInv, NEW w \in Writer, ServerCommit(w)
  PROVE  OrderInv'
<1> DEFINE t == IF tx[w].alive THEN [tx[w] EXCEPT !.phase = "fanout", !.pending = {}]
                ELSE NoTransaction("dead", FALSE)
<1>0. tx[w] \in Transaction /\ lock = w /\ lock' = Nobody
  BY DEF OrderInv, TypeOK, LockHeld, Writing, ServerCommit, Released
<1>1. /\ tx' = [tx EXCEPT ![w] = t]
      /\ rows' = rows \cup tx[w].pending
      /\ UNCHANGED <<nextId, cursor, delivered, live>>
  BY DEF ServerCommit
<1>2. t \in Transaction /\ t.phase \in {"fanout", "dead"} /\ t.pending = {}
  <2>1. NoTransaction("dead", FALSE) \in Transaction
        /\ NoTransaction("dead", FALSE).phase = "dead"
        /\ NoTransaction("dead", FALSE).pending = {}
    BY NoTransactionType DEF Phase
  <2>2. [tx[w] EXCEPT !.phase = "fanout", !.pending = {}] \in Transaction
    BY <1>0 DEF Transaction, Phase
  <2>3. QED
    BY <1>0, <2>1, <2>2 DEF Transaction
<1> HIDE DEF t
<1>3. tx'[w] = t /\ \A v \in Writer \ {w} : tx'[v] = tx[v]
  BY <1>1 DEF OrderInv, TypeOK
<1>4. \A v \in Writer : tx'[v].pending = {} /\ ~(Writing(v)')
  BY <1>0, <1>2, <1>3, WriteOrderAssumption DEF OrderInv, LockHeld, Writing
<1>5. TypeOK'
  <2>1. tx[w].pending \subseteq Row
    BY <1>0 DEF Transaction
  <2>2. QED
    BY <1>0, <1>1, <1>2, <2>1 DEF OrderInv, TypeOK
<1>6. LockHeld'
  BY <1>4 DEF LockHeld
<1>7. PendingAbove'
  BY <1>1, <1>4 DEF OrderInv, PendingAbove
<1>8. ReaderExact'
  <2>1. \A r \in tx[w].pending : r.id \in Nat /\ cursor \in Nat /\ r.id > cursor
    BY <1>0 DEF OrderInv, PendingAbove, TypeOK, Transaction, Row
  <2>2. QED
    BY <1>1, <2>1 DEF OrderInv, ReaderExact
<1>9. QED
  BY <1>5, <1>6, <1>7, <1>8 DEF OrderInv

LEMMA ReadPreservesOrder ==
  ASSUME OrderInv, NEW page \in SUBSET rows, ReadPage(page)
  PROVE  OrderInv' /\ cursor' > cursor
<1>1. PICK last \in page : cursor' = last.id
  BY DEF ReadPage
<1>2. /\ rows \subseteq Row /\ \A r \in Row : r.id \in Nat
      /\ cursor \in Nat /\ nextId \in Nat
      /\ \A v \in Writer : tx[v].pending \subseteq Row
  BY DEF OrderInv, TypeOK, Row, Transaction
<1>3. UNCHANGED <<lock, nextId, rows, tx, live>>
  BY DEF ReadPage
<1>4. last.id > cursor /\ last \in rows /\ last.id \in Nat
  BY <1>1, <1>2 DEF ReadPage
<1>5. TypeOK'
  BY <1>1, <1>3, <1>4 DEF OrderInv, TypeOK, ReadPage
<1>6. LockHeld'
  BY <1>3 DEF OrderInv, LockHeld, Writing
<1>7. PendingAbove'
  BY <1>1, <1>2, <1>3, <1>4 DEF OrderInv, PendingAbove
<1>8. ReaderExact'
  <2>1. ASSUME NEW r \in rows PROVE r \in delivered' <=> r.id <= cursor'
    <3>1. delivered' = delivered \cup page
      BY DEF ReadPage
    <3>2. CASE r.id <= cursor
      BY <1>1, <1>2, <1>4, <3>1, <3>2 DEF OrderInv, ReaderExact
    <3>3. CASE r.id > cursor
      <4>1. r \notin delivered
        BY <1>2, <3>3 DEF OrderInv, ReaderExact
      <4>2. r \in page => r.id <= cursor'
        BY DEF ReadPage
      <4>3. r \notin page => last.id < r.id
        BY <1>1, <3>3 DEF ReadPage
      <4>4. QED
        BY <1>1, <1>2, <1>4, <3>1, <4>1, <4>2, <4>3
    <3>4. QED
      BY <1>2, <3>2, <3>3
  <2>2. delivered' \subseteq rows
    BY DEF ReadPage, OrderInv, ReaderExact
  <2>3. QED
    BY <1>3, <2>1, <2>2 DEF ReaderExact
<1>9. QED
  BY <1>1, <1>4, <1>5, <1>6, <1>7, <1>8 DEF OrderInv

LEMMA OrderStep == OrderInv /\ [Next]_vars => OrderInv'
<1> SUFFICES ASSUME OrderInv, [Next]_vars PROVE OrderInv'
  OBVIOUS
<1>1. CASE UNCHANGED vars
  BY <1>1 DEF vars, OrderInv, TypeOK, LockHeld, Writing, PendingAbove, ReaderExact
<1>2. CASE Next
  BY <1>2, WriterPreservesOrder, InsertPreservesOrder, CommitPreservesOrder,
     ReadPreservesOrder DEF Next, WriterStep
<1>3. QED
  BY <1>1, <1>2

\* Every variable of the record writers keeps its type (TypeOK).
THEOREM WriteTypes == Spec => []TypeOK
<1>1. OrderInv => TypeOK
  BY DEF OrderInv
<1>2. QED
  BY <1>1, OrderInit, OrderStep, PTL DEF Spec

\* A consumer that pages by id never misses a committed row, however many
\* connections write, fail, die or commit late (write_tx, NothingSkipped).
THEOREM PagingMissesNothing == Spec => []NothingSkipped
<1>1. OrderInv => NothingSkipped
  BY DEF OrderInv, ReaderExact, NothingSkipped
<1>2. QED
  BY <1>1, OrderInit, OrderStep, PTL DEF Spec

\* The event table implements the append-only feed (EventFeed): every commit
\* lies above all committed rows and above the consumer's cursor (FeedSpec).
THEOREM RecordIsFeed == Spec => FeedSpec
<1>1. Init => Feed!FeedInit
  BY DEF Init, Feed!FeedInit
<1>2. OrderInv /\ [Next]_vars => [Feed!FeedNext]_(Feed!feedVars)
  <2> SUFFICES ASSUME OrderInv, [Next]_vars
               PROVE  [Feed!FeedNext]_(Feed!feedVars)
    OBVIOUS
  <2>1. OrderInv'
    BY OrderStep
  <2>2. ASSUME NEW page \in SUBSET rows, ReadPage(page)
        PROVE  Feed!Read
    <3>1. cursor' > cursor /\ cursor' \in Nat /\ rows' = rows
      BY <2>1, <2>2, ReadPreservesOrder DEF ReadPage, OrderInv, TypeOK
    <3>2. QED
      BY <2>1, <3>1 DEF Feed!Read, OrderInv, ReaderExact
  <2>3. ASSUME NEW w \in Writer, ServerCommit(w)
        PROVE  Feed!Append
    <3>1. rows' = rows \cup tx[w].pending /\ UNCHANGED <<cursor, delivered>>
      BY <2>3 DEF ServerCommit
    <3>2. rows' \in SUBSET Row
      BY <2>1 DEF OrderInv, TypeOK
    <3>3. QED
      BY <3>1, <3>2 DEF Feed!Append, OrderInv, PendingAbove
  <2>4. ASSUME NEW w \in Writer,
               \/ \E batch \in Batch : Open(w, batch)
               \/ Acquire(w) \/ InsertFact(w) \/ FailWrite(w) \/ SendCommit(w) \/ Die(w)
               \/ ServerRollback(w) \/ Restart(w)
               \/ \E taken \in SUBSET Fact : FanOut(w, taken)
        PROVE  UNCHANGED Feed!feedVars
    BY <2>4 DEF Open, Acquire, InsertFact, FailWrite, SendCommit, Die, ServerRollback,
                Restart, FanOut, Feed!feedVars
  <2>5. CASE UNCHANGED vars
    BY <2>5 DEF vars, Feed!feedVars
  <2>6. QED
    BY <2>2, <2>3, <2>4, <2>5 DEF Next, WriterStep, Feed!FeedNext
<1>3. QED
  BY <1>1, <1>2, OrderInit, OrderStep, PTL DEF Spec, FeedSpec, Feed!FeedSpec

-----------------------------------------------------------------------------
\* Fact f is visible to the transaction t of connection w when rs is committed.
Known(w, t, rs, f) == \E r \in rs \cup t.pending : r.source = SourceOf[w] /\ r.fact = f

\* The transaction t still accounts for its whole batch: every event is known or
\* still to be inserted, and when the commit is sent nothing is left to insert.
Accounted(w, t, rs) ==
    /\ t.phase = "waiting" => t.todo = t.batch
    /\ t.phase = "committing" => t.todo = <<>>
    /\ t.phase \in {"writing", "committing"} =>
          \A i \in DOMAIN t.batch : \/ Known(w, t, rs, t.batch[i])
                                    \/ \E j \in DOMAIN t.todo : t.todo[j] = t.batch[i]
    /\ t.phase = "fanout" => \A i \in DOMAIN t.batch : Known(w, t, rs, t.batch[i])
    /\ t.phase = "fanout" => t.pending = {}

BatchesAccounted == \A w \in Writer : Accounted(w, tx[w], rows)

LEMMA AccountedMonotone ==
  ASSUME NEW w, NEW t, NEW rs, NEW rt, rs \subseteq rt, Accounted(w, t, rs)
  PROVE  Accounted(w, t, rt)
<1>1. \A f : Known(w, t, rs, f) => Known(w, t, rt, f)
  BY DEF Known
<1>2. QED
  BY <1>1 DEF Accounted

LEMMA EndedAccounted ==
  ASSUME NEW w, NEW rs, NEW phase \in {"idle", "dead"}, NEW alive
  PROVE  Accounted(w, NoTransaction(phase, alive), rs)
BY DEF Accounted, NoTransaction

\* One connection moves from its transaction to t, and t accounts for its batch.
LEMMA AccountedUpdate ==
  ASSUME TypeOK, BatchesAccounted, NEW w \in Writer, NEW t,
         tx' = [tx EXCEPT ![w] = t], rows \subseteq rows', Accounted(w, t, rows')
  PROVE  BatchesAccounted'
<1>1. tx'[w] = t /\ \A v \in Writer \ {w} : tx'[v] = tx[v]
  BY DEF TypeOK
<1>2. ASSUME NEW v \in Writer PROVE Accounted(v, tx'[v], rows')
  <2>1. CASE v = w
    BY <1>1, <2>1
  <2>2. CASE v # w
    BY <1>1, <2>2, AccountedMonotone DEF BatchesAccounted
  <2>3. QED
    BY <2>1, <2>2
<1>3. QED
  BY <1>2 DEF BatchesAccounted

LEMMA WriterAccounts ==
  ASSUME TypeOK, BatchesAccounted, NEW w \in Writer,
         \/ \E batch \in Batch : Open(w, batch)
         \/ Acquire(w) \/ FailWrite(w) \/ SendCommit(w) \/ Die(w)
         \/ ServerRollback(w) \/ Restart(w)
         \/ \E taken \in SUBSET Fact : FanOut(w, taken)
  PROVE  BatchesAccounted'
<1>0. tx[w] \in Transaction /\ Accounted(w, tx[w], rows)
  BY DEF TypeOK, BatchesAccounted
<1>1. ASSUME NEW batch \in Batch, Open(w, batch) PROVE BatchesAccounted'
  <2> DEFINE t == [tx[w] EXCEPT !.phase = "waiting", !.todo = batch, !.batch = batch]
  <2>1. t.phase = "waiting" /\ t.todo = batch /\ t.batch = batch
    BY <1>0 DEF Transaction
  <2>2. tx' = [tx EXCEPT ![w] = t] /\ rows' = rows
    BY <1>1 DEF Open
  <2> HIDE DEF t
  <2>3. Accounted(w, t, rows')
    BY <2>1 DEF Accounted
  <2>4. QED
    BY <2>2, <2>3, AccountedUpdate
<1>2. CASE Acquire(w)
  <2> DEFINE t == [tx[w] EXCEPT !.phase = "writing"]
  <2>1. t.phase = "writing" /\ t.todo = tx[w].todo /\ t.batch = tx[w].batch
    BY <1>0 DEF Transaction
  <2>2. tx' = [tx EXCEPT ![w] = t] /\ rows' = rows /\ tx[w].phase = "waiting"
    BY <1>2 DEF Acquire
  <2>3. t.todo = t.batch
    BY <1>0, <2>1, <2>2 DEF Accounted
  <2> HIDE DEF t
  <2>4. Accounted(w, t, rows')
    BY <2>1, <2>3 DEF Accounted
  <2>5. QED
    BY <2>2, <2>4, AccountedUpdate
<1>3. CASE SendCommit(w)
  <2> DEFINE t == [tx[w] EXCEPT !.phase = "committing"]
  <2>1. /\ t.phase = "committing" /\ t.todo = tx[w].todo /\ t.batch = tx[w].batch
        /\ t.pending = tx[w].pending
    BY <1>0 DEF Transaction
  <2>2. tx' = [tx EXCEPT ![w] = t] /\ rows' = rows
        /\ tx[w].phase = "writing" /\ tx[w].todo = <<>>
    BY <1>3 DEF SendCommit
  <2> HIDE DEF t
  <2>3. Accounted(w, t, rows')
    BY <1>0, <2>1, <2>2 DEF Accounted, Known
  <2>4. QED
    BY <2>2, <2>3, AccountedUpdate
<1>4. CASE Die(w)
  <2> DEFINE t == [tx[w] EXCEPT !.alive = FALSE]
  <2>1. /\ t.phase = tx[w].phase /\ t.todo = tx[w].todo /\ t.batch = tx[w].batch
        /\ t.pending = tx[w].pending
    BY <1>0 DEF Transaction
  <2>2. /\ tx' = [tx EXCEPT ![w] = t] \/ tx' = [tx EXCEPT ![w] = NoTransaction("dead", FALSE)]
        /\ rows' = rows
    BY <1>4 DEF Die
  <2> HIDE DEF t
  <2>3. Accounted(w, t, rows')
    BY <1>0, <2>1, <2>2 DEF Accounted, Known
  <2>4. QED
    BY <2>2, <2>3, EndedAccounted, AccountedUpdate
<1>5. CASE FailWrite(w) \/ ServerRollback(w) \/ Restart(w)
  BY <1>5, EndedAccounted, AccountedUpdate DEF FailWrite, ServerRollback, Restart
<1>6. ASSUME NEW taken \in SUBSET Fact, FanOut(w, taken) PROVE BatchesAccounted'
  BY <1>6, EndedAccounted, AccountedUpdate DEF FanOut
<1>7. QED
  BY <1>1, <1>2, <1>3, <1>4, <1>5, <1>6

LEMMA InsertAccounts ==
  ASSUME TypeOK, BatchesAccounted, NEW w \in Writer, InsertFact(w)
  PROVE  BatchesAccounted'
<1> DEFINE fact == Head(tx[w].todo)
           row == [id |-> nextId, source |-> SourceOf[w], fact |-> fact]
           p == IF Resolved(w, fact) THEN tx[w].pending ELSE tx[w].pending \cup {row}
           t == [tx[w] EXCEPT !.todo = Tail(@), !.pending = p]
<1>0. /\ tx[w] \in Transaction /\ Accounted(w, tx[w], rows) /\ tx[w].phase = "writing"
      /\ tx[w].todo \in Seq(Fact) /\ tx[w].todo # <<>>
  BY DEF TypeOK, BatchesAccounted, Transaction, InsertFact
<1>1. tx' = [tx EXCEPT ![w] = t] /\ rows' = rows
  BY DEF InsertFact
<1>2. /\ t.phase = "writing" /\ t.todo = Tail(tx[w].todo) /\ t.batch = tx[w].batch
      /\ t.pending = p
  BY <1>0 DEF Transaction
<1>3. Known(w, t, rows, fact)
  <2>1. row.source = SourceOf[w] /\ row.fact = fact
    OBVIOUS
  <2>2. \E r \in rows \cup p : r.source = SourceOf[w] /\ r.fact = fact
    BY <2>1 DEF Resolved
  <2>3. QED
    BY <1>2, <2>2 DEF Known
<1>4. \A f : Known(w, tx[w], rows, f) => Known(w, t, rows, f)
  BY <1>2 DEF Known
<1> HIDE DEF t, p, row
<1>5. ASSUME NEW i \in DOMAIN t.batch
      PROVE  Known(w, t, rows, t.batch[i]) \/ \E j \in DOMAIN t.todo : t.todo[j] = t.batch[i]
  <2>1. CASE Known(w, tx[w], rows, t.batch[i])
    BY <1>4, <2>1
  <2>2. CASE \E j \in DOMAIN tx[w].todo : tx[w].todo[j] = t.batch[i]
    <3>1. PICK j \in DOMAIN tx[w].todo : tx[w].todo[j] = t.batch[i]
      BY <2>2
    <3>2. CASE j = 1
      BY <1>0, <1>3, <3>1, <3>2
    <3>3. CASE j # 1
      <4>1. j - 1 \in DOMAIN Tail(tx[w].todo) /\ Tail(tx[w].todo)[j - 1] = tx[w].todo[j]
        BY <1>0, <3>1, <3>3
      <4>2. QED
        BY <1>2, <3>1, <4>1
    <3>4. QED
      BY <3>2, <3>3
  <2>3. QED
    BY <1>0, <1>2, <2>1, <2>2 DEF Accounted
<1>6. Accounted(w, t, rows')
  BY <1>1, <1>2, <1>5 DEF Accounted
<1>7. QED
  BY <1>1, <1>6, AccountedUpdate

LEMMA CommitAccounts ==
  ASSUME TypeOK, BatchesAccounted, NEW w \in Writer, ServerCommit(w)
  PROVE  BatchesAccounted'
<1> DEFINE s == [tx[w] EXCEPT !.phase = "fanout", !.pending = {}]
           t == IF tx[w].alive THEN s ELSE NoTransaction("dead", FALSE)
<1>0. /\ tx[w] \in Transaction /\ Accounted(w, tx[w], rows) /\ tx[w].phase = "committing"
      /\ tx[w].todo = <<>>
  BY DEF TypeOK, BatchesAccounted, ServerCommit, Accounted
<1>1. tx' = [tx EXCEPT ![w] = t] /\ rows' = rows \cup tx[w].pending
  BY DEF ServerCommit
<1>2. s.phase = "fanout" /\ s.batch = tx[w].batch /\ s.pending = {}
  BY <1>0 DEF Transaction
<1> HIDE DEF s
<1>3. \A i \in DOMAIN s.batch : Known(w, s, rows', s.batch[i])
  BY <1>0, <1>1, <1>2 DEF Accounted, Known
<1>4. Accounted(w, s, rows')
  BY <1>2, <1>3 DEF Accounted
<1>5. Accounted(w, t, rows')
  BY <1>4, EndedAccounted
<1> HIDE DEF t
<1>6. QED
  BY <1>1, <1>5, AccountedUpdate

\* Only FanOut adds to the live stream, and it adds what is committed.
LEMMA LiveStep ==
  ASSUME TypeOK, BatchesAccounted, DurableBeforeLive, [Next]_vars
  PROVE  DurableBeforeLive'
<1>1. ASSUME rows \subseteq rows', live' = live PROVE DurableBeforeLive'
  BY <1>1 DEF DurableBeforeLive
<1>2. ASSUME NEW w \in Writer, NEW taken \in SUBSET Fact, FanOut(w, taken)
      PROVE  DurableBeforeLive'
  <2>1. \A f \in taken : \E r \in rows : r.source = SourceOf[w] /\ r.fact = f
    BY <1>2 DEF FanOut, BatchesAccounted, Accounted, Known
  <2>2. live' = live \cup {[source |-> SourceOf[w], fact |-> f] : f \in taken} /\ rows' = rows
    BY <1>2 DEF FanOut
  <2>3. QED
    BY <2>1, <2>2 DEF DurableBeforeLive
<1>3. ASSUME NEW w \in Writer,
             \/ \E batch \in Batch : Open(w, batch)
             \/ Acquire(w) \/ InsertFact(w) \/ FailWrite(w) \/ SendCommit(w) \/ Die(w)
             \/ ServerCommit(w) \/ ServerRollback(w) \/ Restart(w)
      PROVE  rows \subseteq rows' /\ live' = live
  BY <1>3 DEF Open, Acquire, InsertFact, FailWrite, SendCommit, Die, ServerCommit,
              ServerRollback, Restart
<1>4. ASSUME NEW page \in SUBSET rows, ReadPage(page)
      PROVE  rows \subseteq rows' /\ live' = live
  BY <1>4 DEF ReadPage
<1>5. CASE UNCHANGED vars
  BY <1>1, <1>5 DEF vars
<1>6. QED
  BY <1>1, <1>2, <1>3, <1>4, <1>5 DEF Next, WriterStep

LEMMA DurableStep ==
  ASSUME TypeOK, TypeOK', BatchesAccounted, DurableBeforeLive, [Next]_vars
  PROVE  BatchesAccounted' /\ DurableBeforeLive'
<1>1. ASSUME NEW page \in SUBSET rows, ReadPage(page) PROVE BatchesAccounted'
  BY <1>1 DEF ReadPage, BatchesAccounted
<1>2. CASE UNCHANGED vars
  BY <1>2, LiveStep DEF vars, BatchesAccounted
<1>3. QED
  BY <1>1, <1>2, WriterAccounts, InsertAccounts, CommitAccounts, LiveStep DEF Next, WriterStep

\* Nothing is fanned out before it is durable: a connection reaches its fan-out
\* only after a commit in which its whole batch is accounted for (DurableBeforeLive).
THEOREM DurableFirst == Spec => []DurableBeforeLive
<1>1. Init => BatchesAccounted /\ DurableBeforeLive
  BY EndedAccounted DEF Init, BatchesAccounted, DurableBeforeLive
<1>2. TypeOK /\ TypeOK' /\ BatchesAccounted /\ DurableBeforeLive /\ [Next]_vars
        => BatchesAccounted' /\ DurableBeforeLive'
  BY DurableStep
<1>3. QED
  BY <1>1, <1>2, WriteTypes, PTL DEF Spec
=============================================================================

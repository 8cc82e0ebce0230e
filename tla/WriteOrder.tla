----------------------------- MODULE WriteOrder -----------------------------
(***************************************************************************)
(* Record writes as Postgres executes them: transactions of several        *)
(* connections that allocate identity ids when they insert and become      *)
(* visible when they commit, the advisory lock that write_tx takes first,  *)
(* the fan-out after the commit, and a consumer that pages by id.          *)
(*                                                                         *)
(* A connection belongs to one process and carries one transaction at a    *)
(* time (the client mutex).  A process may die at any point; the server    *)
(* finds out later, and until then the transaction keeps its lock.  A      *)
(* commit that was sent may or may not have reached the server.            *)
(***************************************************************************)
EXTENDS Integers, Sequences, FiniteSets

CONSTANTS
    Writer,      \* connections: the enforcer's, the node's, a restarted process's
    Source,      \* `enforcer`, `node`
    SourceOf,    \* the source a connection writes for
    Fact,        \* event facts, as their identity distinguishes them
    Batch,       \* the batches of events that a connection may record
    MaxId,       \* bound: no batch is opened beyond this identity id
    PageLimit,   \* rows per page of the consumer
    Nobody       \* the lock is free

ASSUME WriteOrderAssumption ==
    /\ SourceOf \in [Writer -> Source]
    /\ Batch \subseteq Seq(Fact)
    /\ <<>> \notin Batch
    /\ MaxId \in Nat
    /\ PageLimit \in Nat \ {0}
    /\ Nobody \notin Writer

VARIABLES
    lock,        \* holder of WRITE_ORDER_LOCK_KEY
    nextId,      \* the identity sequence of `event`; no rollback gives an id back
    rows,        \* committed rows of `event`
    tx,          \* tx[w]: the transaction of connection w
    cursor,      \* the consumer's cursor
    delivered,   \* the rows it was given
    live         \* facts fanned out over NATS, by source

vars == <<lock, nextId, rows, tx, cursor, delivered, live>>

Row == [id : Nat, source : Source, fact : Fact]

Phase == {"idle", "waiting", "writing", "committing", "fanout", "dead"}

\* A transaction: the events still to insert, the rows it inserted, the events
\* it will fan out, and whether the process behind it is alive.
Transaction ==
    [phase : Phase, todo : Seq(Fact), pending : SUBSET Row, batch : Seq(Fact), alive : BOOLEAN]

NoTransaction(phase, alive) ==
    [phase |-> phase, todo |-> <<>>, pending |-> {}, batch |-> <<>>, alive |-> alive]

Init ==
    /\ lock = Nobody
    /\ nextId = 1
    /\ rows = {}
    /\ tx = [w \in Writer |-> NoTransaction("idle", TRUE)]
    /\ cursor = 0
    /\ delivered = {}
    /\ live = {}

Open(w, batch) ==
    /\ tx[w].phase = "idle"
    /\ nextId <= MaxId
    /\ tx' = [tx EXCEPT ![w].phase = "waiting", ![w].todo = batch, ![w].batch = batch]
    /\ UNCHANGED <<lock, nextId, rows, cursor, delivered, live>>

\* Mutant: the transaction does not wait for the lock.
AcquireUnordered(w) ==
    /\ tx[w].phase = "waiting"
    /\ tx' = [tx EXCEPT ![w].phase = "writing"]
    /\ UNCHANGED <<lock, nextId, rows, cursor, delivered, live>>

\* pg_advisory_xact_lock, the first statement of every record write.
Acquire(w) ==
    /\ tx[w].phase = "waiting"
    /\ lock = Nobody
    /\ lock' = w
    /\ tx' = [tx EXCEPT ![w].phase = "writing"]
    /\ UNCHANGED <<nextId, rows, cursor, delivered, live>>

\* The fact is recorded already, or was inserted earlier in this transaction.
Resolved(w, fact) ==
    \E r \in rows \cup tx[w].pending : r.source = SourceOf[w] /\ r.fact = fact

\* One event of the batch: the id is drawn before the conflict is noticed.
InsertFact(w) ==
    /\ tx[w].phase = "writing"
    /\ tx[w].alive
    /\ tx[w].todo # <<>>
    /\ LET fact == Head(tx[w].todo)
           row == [id |-> nextId, source |-> SourceOf[w], fact |-> fact]
       IN  tx' = [tx EXCEPT ![w].todo = Tail(@),
                            ![w].pending = IF Resolved(w, fact) THEN @ ELSE @ \cup {row}]
    /\ nextId' = nextId + 1
    /\ UNCHANGED <<lock, rows, cursor, delivered, live>>

Released(w) == IF lock = w THEN Nobody ELSE lock

\* Mutant: the error path leaves the session of the failed transaction open.
FailWriteKeepsLock(w) ==
    /\ tx[w].phase = "writing"
    /\ tx[w].alive
    /\ tx' = [tx EXCEPT ![w] = NoTransaction("dead", FALSE)]
    /\ UNCHANGED <<lock, nextId, rows, cursor, delivered, live>>

\* A statement fails: the write is fatal, the process drops its connection.
FailWrite(w) ==
    /\ tx[w].phase = "writing"
    /\ tx[w].alive
    /\ tx' = [tx EXCEPT ![w] = NoTransaction("dead", FALSE)]
    /\ lock' = Released(w)
    /\ UNCHANGED <<nextId, rows, cursor, delivered, live>>

\* Mutant: the batch is fanned out while its commit is still on the way.
SendCommitAndPublish(w) ==
    /\ tx[w].phase = "writing"
    /\ tx[w].alive
    /\ tx[w].todo = <<>>
    /\ tx' = [tx EXCEPT ![w].phase = "committing"]
    /\ live' = live \cup {[source |-> SourceOf[w], fact |-> tx[w].batch[i]] :
                             i \in DOMAIN tx[w].batch}
    /\ UNCHANGED <<lock, nextId, rows, cursor, delivered>>

SendCommit(w) ==
    /\ tx[w].phase = "writing"
    /\ tx[w].alive
    /\ tx[w].todo = <<>>
    /\ tx' = [tx EXCEPT ![w].phase = "committing"]
    /\ UNCHANGED <<lock, nextId, rows, cursor, delivered, live>>

\* The server commits, whether or not somebody still waits for the answer.
ServerCommit(w) ==
    /\ tx[w].phase = "committing"
    /\ rows' = rows \cup tx[w].pending
    /\ lock' = Released(w)
    /\ tx' = [tx EXCEPT ![w] = IF @.alive
                               THEN [@ EXCEPT !.phase = "fanout", !.pending = {}]
                               ELSE NoTransaction("dead", FALSE)]
    /\ UNCHANGED <<nextId, cursor, delivered, live>>

Die(w) ==
    /\ tx[w].alive
    /\ tx' = [tx EXCEPT ![w] = IF @.phase \in {"waiting", "writing", "committing"}
                               THEN [@ EXCEPT !.alive = FALSE]
                               ELSE NoTransaction("dead", FALSE)]
    /\ UNCHANGED <<lock, nextId, rows, cursor, delivered, live>>

\* The server notices a lost connection: the session ends, and its lock with it.
ServerRollback(w) ==
    /\ ~tx[w].alive
    /\ tx[w].phase # "dead"
    /\ tx' = [tx EXCEPT ![w] = NoTransaction("dead", FALSE)]
    /\ lock' = Released(w)
    /\ UNCHANGED <<nextId, rows, cursor, delivered, live>>

Restart(w) ==
    /\ tx[w].phase = "dead"
    /\ tx' = [tx EXCEPT ![w] = NoTransaction("idle", TRUE)]
    /\ UNCHANGED <<lock, nextId, rows, cursor, delivered, live>>

\* fan_out: any part of the batch may be dropped, with a warning.
FanOut(w, taken) ==
    /\ tx[w].phase = "fanout"
    /\ taken \subseteq {tx[w].batch[i] : i \in DOMAIN tx[w].batch}
    /\ live' = live \cup {[source |-> SourceOf[w], fact |-> f] : f \in taken}
    /\ tx' = [tx EXCEPT ![w] = NoTransaction("idle", TRUE)]
    /\ UNCHANGED <<lock, nextId, rows, cursor, delivered>>

\* SELECT ... WHERE id > cursor ORDER BY id LIMIT PageLimit
ReadPage(page) ==
    LET fresh == {r \in rows : r.id > cursor}
    IN  /\ page # {}
        /\ page \subseteq fresh
        /\ Cardinality(page) <= PageLimit
        /\ \A r \in page, s \in fresh \ page : r.id < s.id
        /\ cursor' \in {r.id : r \in page}
        /\ \A r \in page : r.id <= cursor'
        /\ delivered' = delivered \cup page
        /\ UNCHANGED <<lock, nextId, rows, tx, live>>

WriterStep(w) ==
    \/ Acquire(w)
    \/ InsertFact(w)
    \/ SendCommit(w)
    \/ ServerCommit(w)
    \/ ServerRollback(w)
    \/ Restart(w)
    \/ \E taken \in SUBSET Fact : FanOut(w, taken)

Next ==
    \/ \E w \in Writer : \/ WriterStep(w)
                         \/ \E batch \in Batch : Open(w, batch)
                         \/ FailWrite(w)
                         \/ Die(w)
    \/ \E page \in SUBSET rows : ReadPage(page)

Spec == Init /\ [][Next]_vars
-----------------------------------------------------------------------------
TypeOK ==
    /\ lock \in Writer \cup {Nobody}
    /\ nextId \in Nat
    /\ rows \subseteq Row
    /\ tx \in [Writer -> Transaction]
    /\ cursor \in Nat
    /\ delivered \subseteq Row
    /\ live \subseteq [source : Source, fact : Fact]

\* A consumer that pages by id has been given every committed row up to its
\* cursor: no row commits below a cursor that has passed it (store.rs,
\* WRITE_ORDER_LOCK_KEY; docs/official-sources.md, "may page by `id > cursor`").
NothingSkipped == {r \in rows : r.id <= cursor} \subseteq delivered

\* A live consumer never sees an event before it is durable, even if the process
\* or its connection dies around the commit (recorder.rs).
DurableBeforeLive ==
    \A e \in live : \E r \in rows : r.source = e.source /\ r.fact = e.fact

Feed == INSTANCE EventFeed WITH RowType <- Row

\* The event table is the append-only feed that its consumers rely on.
FeedSpec == Feed!FeedSpec

\* The server finishes what it was told, notices lost connections and grants the
\* lock in the order it was asked for; a live process goes on with its batch.
Fairness ==
    \A w \in Writer :
        /\ SF_vars(Acquire(w))
        /\ WF_vars(InsertFact(w))
        /\ WF_vars(SendCommit(w))
        /\ WF_vars(ServerCommit(w) \/ ServerRollback(w))

LiveSpec == Spec /\ Fairness

\* Nobody waits for the write lock forever, whoever dies holding it.
WriterNotBlocked ==
    \A w \in Writer : tx[w].phase = "waiting" ~> tx[w].phase # "waiting"
=============================================================================

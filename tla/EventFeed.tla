----------------------------- MODULE EventFeed -----------------------------
(***************************************************************************)
(* What the event table promises a consumer that pages by `id > cursor`:   *)
(* rows are only ever appended above everything committed so far, so the   *)
(* rows a consumer was given are always all the rows up to its cursor.     *)
(***************************************************************************)
EXTENDS Integers

CONSTANT RowType     \* the rows, records with a field id

VARIABLES rows, cursor, delivered

feedVars == <<rows, cursor, delivered>>

FeedInit ==
    /\ rows = {}
    /\ cursor = 0
    /\ delivered = {}

Append ==
    /\ rows' \in SUBSET RowType
    /\ rows \subseteq rows'
    /\ \A new \in rows' \ rows : new.id > cursor /\ \A old \in rows : new.id > old.id
    /\ UNCHANGED <<cursor, delivered>>

Read ==
    /\ cursor' \in Nat
    /\ cursor' > cursor
    /\ delivered' = {r \in rows : r.id <= cursor'}
    /\ UNCHANGED rows

FeedNext == Append \/ Read

FeedSpec == FeedInit /\ [][FeedNext]_feedVars
=============================================================================

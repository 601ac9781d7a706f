--------------------------- MODULE ConnectionPool ---------------------------
(***************************************************************************)
(* The connections order requests share (db.go, WithTx): a request waits   *)
(* for one of a few connections, first come first served, and keeps it to  *)
(* the end of its transaction, while it waits for the rows of others too.  *)
(***************************************************************************)
EXTENDS Marketplace, Functions

CONSTANT Connections    \* how many the pool opens

ASSUME PoolAssumption == Connections \in Nat \ {0}

VARIABLE queue          \* the requests that wait for a connection

qvars == <<vars, queue>>

Queued == Range(queue)

\* HasActiveOrder asked over the pool, not over the transaction.
FaultyBorrows(w) == IF pc[w] = "active" THEN 1 ELSE 0

\* Connections the next statement takes beside its transaction's own: each is
\* handed `tx` and none goes back to the pool.
Borrows(w) == 0

Free == Connections - Cardinality({w \in Workers : pc[w] # "idle"})

Arrive(w) == /\ pc[w] = "idle" /\ w \notin Queued
             /\ queue' = Append(queue, w)
             /\ UNCHANGED vars

\* pool.Begin returns to the first that waits.
Admit == /\ queue # << >> /\ Free > 0
         /\ OrderRequest(Head(queue))
         /\ queue' = Tail(queue)
         /\ UNCHANGED edits

\* A client does not want to wait any longer.
Leave(w) == /\ w \in Queued
            /\ queue' = SelectSeq(queue, LAMBDA v : v # w)
            /\ UNCHANGED vars

Step(w) == Borrows(w) <= Free /\ Serve(w) /\ UNCHANGED queue

PoolInit == Init /\ queue = << >>

OrdersPooled == \/ \E w \in Workers : \/ Arrive(w) \/ Leave(w) \/ Step(w)
                                      \/ Abort(w) /\ UNCHANGED queue
                \/ Admit

PoolNext == \/ OrdersPooled
            \/ (CatalogRequest \/ CatalogStep \/ Tick) /\ UNCHANGED queue

\* Nobody has to send a request, and nothing has to fail.  A free connection is
\* not kept from the first in line.  A request that has begun is served: Postgres
\* queues the waiters of a row, so a statement that can get its lock again and
\* again gets it; and it breaks every deadlock.
PoolFairness ==
    /\ WF_qvars(Admit)
    /\ \A w \in Workers : SF_qvars(Step(w))
    /\ \A e \in Editors : SF_qvars(WriteProduct(e) /\ UNCHANGED queue)
    /\ WF_qvars(\E w \in Workers : DeadlockVictim(w) /\ UNCHANGED <<now, edits, queue>>)

PoolSpec == PoolInit /\ [][PoolNext]_qvars /\ PoolFairness

-----------------------------------------------------------------------------

\* Every order request that has arrived ends, with an answer or a rollback, and
\* so does every PUT: though all connections may be held by transactions that
\* wait for rows, or for one another.
EveryRequestEnds ==
    /\ \A w \in Workers : w \in Queued \/ pc[w] # "idle" ~> w \notin Queued /\ pc[w] = "idle"
    /\ \A e \in Editors : edits[e] # NoEdit ~> edits[e] = NoEdit
=============================================================================

----------------------------- MODULE OrderReads -----------------------------
(***************************************************************************)
(* GET /orders/{id}: the row of the order, then its items, in two queries  *)
(* that share no transaction (repository/order.go, GetByID and getItems),  *)
(* while orders are changed and canceled.                                  *)
(***************************************************************************)
EXTENDS Marketplace

CONSTANT Readers    \* GET requests being served at once

VARIABLE reads      \* what each of them has read so far, and its answer

rvars == <<vars, reads>>

NoRead == [user |-> None, order |-> None, step |-> 0, header |-> NoOrder,
           items |-> NoQuantity, cut |-> FALSE]

\* The items first, the order after them.
FaultyQueries == <<"items", "order">>

\* The queries of GetByID, in their order.
Queries == <<"order", "items">>

Header(o) == [orders[o] EXCEPT !.items = NoQuantity]

\* The row of the order, if it is there.
OrderRead(read) ==
    IF orders[read.order].status = "NONE" THEN {}
    ELSE {[read EXCEPT !.header = Header(read.order)]}

\* The loop over the rows does not look at rows.Err(): when the connection is
\* lost it ends early, with any part of the items.
ItemsRead(read) ==
    LET o == read.order IN
    {[read EXCEPT !.items = [p \in Products |-> IF p \in got THEN orders[o].items[p] ELSE 0],
                  !.cut = got # OldItems(o)] : got \in SUBSET OldItems(o)}

Finished(read) == read.step = Len(Queries)

\* The owner check of the use case comes after both queries.
MaySee(read) == Role[read.user] = "ADMIN" \/ read.header.user = read.user

\* The next query of a read.  It may find nothing or fail: an error is answered,
\* and the client knows no more than before.
Query(r, read) ==
    LET q == [read EXCEPT !.step = @ + 1]
        results == IF Queries[q.step] = "order" THEN OrderRead(q) ELSE ItemsRead(q)
    IN  /\ \E result \in results \cup {NoRead} :
             reads' = [reads EXCEPT ![r] = IF Finished(result) /\ ~MaySee(result) THEN NoRead
                                                                              ELSE result]
        /\ UNCHANGED vars

Reading(r) == reads[r] # NoRead /\ ~Finished(reads[r])

\* Between the arrival and the first query nothing can be told apart: one step.
BeginRead(r, u, o) == /\ ~Reading(r)
                      /\ Query(r, [NoRead EXCEPT !.user = u, !.order = o])

ContinueRead(r) == Reading(r) /\ Query(r, reads[r])

ReadsInit == Init /\ reads = [r \in Readers |-> NoRead]

ReadStep(r) == \/ \E u \in Users, o \in OrderIds : BeginRead(r, u, o)
               \/ ContinueRead(r)

\* A client forgets an answer with the next step of the service.
ReadsForgotten == reads' = [r \in Readers |-> IF Reading(r) THEN reads[r] ELSE NoRead]

ReadsNext == \/ Next /\ ReadsForgotten
             \/ \E r \in Readers : ReadStep(r)

ReadsSpec == ReadsInit /\ [][ReadsNext]_rvars

-----------------------------------------------------------------------------
(* Properties.                                                             *)

\* Who is told that an order is canceled is told what was canceled: though the
\* order may have been updated and canceled between the two queries, header and
\* items are those of the canceled order.  (Of an active order they may be of two
\* versions.)  It rests on the order of the queries and on canceled orders being
\* final.
CanceledReadExact ==
    \A r \in Readers :
      LET read == reads[r] IN
      Finished(read) /\ read.header.status = "CANCELED" =>
        /\ read.header = Header(read.order)
        /\ ~read.cut => read.items = orders[read.order].items
=============================================================================

---------------------------- MODULE Marketplace ----------------------------
(***************************************************************************)
(* marketplace-api: order requests and catalog requests over one database, *)
(* what must hold of it and what it implements.                            *)
(***************************************************************************)
EXTENDS Orders, Catalog, FiniteSetsExt

CONSTANT MaxTime    \* the clock stops here

ASSUME ClockAssumption == MaxTime \in Nat

vars == <<products, issued, uses, orders, ops, now, pc, tx, rows, edits>>

Catalogs == [Products -> {NoProduct} \cup
               {[status |-> r.status, price |-> r.price, stock |-> r.stock, seller |-> u] :
                  r \in NewRows, u \in {v \in Users : Seller(v)}}]

\* The sellers have been at work; nobody has ordered yet.
Init == /\ products \in Catalogs
        /\ issued \in SUBSET Promos
        /\ uses = [c \in Promos |-> 0]
        /\ orders = [o \in OrderIds |-> NoOrder]
        /\ ops = {}
        /\ now = 0
        /\ pc = [w \in Workers |-> "idle"]
        /\ tx = [w \in Workers |-> NoTx]
        /\ rows = [w \in Workers |-> {}]
        /\ edits = [e \in Editors |-> NoEdit]

Tick == /\ now < MaxTime
        /\ now' = now + 1
        /\ UNCHANGED <<products, issued, uses, orders, ops, pc, tx, rows, edits>>

\* The server's side of an order request; a step of it.
Serve(w) == Statement(w) /\ UNCHANGED <<now, edits>>
Abort(w) == (DeadlockVictim(w) \/ Interrupt(w)) /\ UNCHANGED <<now, edits>>

OrdersNext == \E w \in Workers : \/ OrderRequest(w) /\ UNCHANGED edits
                                 \/ Serve(w)
                                 \/ Abort(w)

Next == OrdersNext \/ CatalogRequest \/ CatalogStep \/ Tick

Spec == Init /\ [][Next]_vars

-----------------------------------------------------------------------------
(* Types.                                                                  *)

Count == [Products -> Nat]

ProductRecord == [status : ProductStatus, price : Nat, stock : 0 .. MaxInt,
                  seller : Users \cup {None}]

OrderRecord == [status : OrderStatus, user : Users \cup {None}, items : Count, total : Nat,
                discount : Nat, promo : Promos \cup {None}, created : Nat]

TxRecord == [kind : {"none", "create", "update", "cancel"}, user : Users \cup {None},
             order : OrderIds \cup {None}, began : Nat, olds : Seq(Products), todo : Seq(Line),
             back : Count, took : Count, total : Nat, code : Promos \cup {None},
             promo : Promos \cup {None}, discount : Nat, used : {-1, 0, 1}]

Label == {"idle", "lock", "rate", "active", "release", "reserve", "promo", "commit"}

RowSet == {"order", "product", "promo"} \X (OrderIds \cup Products \cup Promos)

EditRecord == [product : Products \cup {None}, body : Bodies \cup {None}, row : ProductRecord]

\* The type invariant.  Its hard part is `stock \in 0 .. MaxInt`: the table has
\* no CHECK, so only the locking of usecases/order.go keeps two requests from
\* selling the same last unit.
TypeOK == /\ products \in [Products -> ProductRecord]
          /\ issued \subseteq Promos
          /\ uses \in [Promos -> Nat]
          /\ orders \in [OrderIds -> OrderRecord]
          /\ \A op \in ops : op \in [user : Users, type : {"CREATE_ORDER", "UPDATE_ORDER"}, at : Nat]
          /\ now \in Nat
          /\ pc \in [Workers -> Label]
          /\ tx \in [Workers -> TxRecord]
          /\ rows \in [Workers -> SUBSET RowSet]
          /\ edits \in [Editors -> EditRecord]

-----------------------------------------------------------------------------
(* Safety.                                                                 *)

Active(o) == orders[o].status = "CREATED"

\* current_uses of a code is the number of active orders that carry it: each
\* use is taken once and given back once, by Cancel or by an Update that falls
\* below the minimum, whatever is interrupted (the GREATEST in
\* DecrementPromoUses would hide a second return).
PromoUsesExact == \A c \in Promos :
                    uses[c] = Cardinality({o \in OrderIds : Active(o) /\ orders[o].promo = c})

\* No code is used more often than max_uses, however many orders race for it.
PromoCap == \A c \in Promos : uses[c] <= Terms[c].max

\* Every order, through all its updates and after its cancellation, carries a
\* discount that its own total and promo code justify: nothing without a promo,
\* never more than the total, at most 70% of it (to a cent's rounding) or the
\* fixed amount, and a total that reaches the minimum.
DiscountJustified ==
    \A o \in OrderIds :
      LET d == orders[o].discount
          t == orders[o].total
      IN  IF orders[o].promo = None
            THEN d = 0
            ELSE LET terms == Terms[orders[o].promo] IN
                 /\ terms.min <= t /\ d <= t
                 /\ IF terms.type = "PERCENTAGE" THEN 10 * d <= 7 * t + 5
                                                ELSE d <= terms.value

\* When transactions wait for one another in a circle, each of them waits for a
\* product row: order and promo rows are never part of a deadlock.
DeadlocksOverProducts ==
    \A S \in SUBSET Workers : WaitCycle(S) => \A w \in S : pc[w] \in {"release", "reserve"}

\* As long as requests are under way, one of them waits for nobody, or some wait
\* for one another in a circle, which Postgres finds and breaks: no row stays
\* locked by a request that has ended.
NoStandstill ==
    (\E w \in Workers : pc[w] # "idle") =>
      \/ \E w \in Workers : pc[w] # "idle" /\ \A v \in Workers : ~WaitsOn(w, v)
      \/ \E S \in SUBSET Workers : S # {} /\ WaitCycle(S)

\* A user has at most one active order.
OneActiveOrder == \A o, i \in OrderIds :
                    Active(o) /\ Active(i) /\ orders[o].user = orders[i].user => o = i

-----------------------------------------------------------------------------
(* What a step may not do.                                                 *)

\* Units an order keeps off the shelf.
Holds(o, p) == IF Active(o) THEN orders[o].items[p] ELSE 0

\* A step of an order request that changes an order moves exactly the units the
\* order gains or loses; one that changes no order leaves the shelf alone.
UnitsConserved ==
    [][ \/ orders' = orders /\ (pc' # pc => products' = products)
        \/ \E o \in OrderIds :
             /\ \A i \in OrderIds \ {o} : orders'[i] = orders[i]
             /\ \A p \in Products :
                  products'[p].stock + Holds(o, p)' = products[p].stock + Holds(o, p) ]_vars

\* At listed prices, what a basket costs.
Cost(items) == MapThenSumSet(LAMBDA p : products[p].price * items[p], Products)

\* An order is only ever written with products that are on sale, at the prices
\* they are sold for, at the moment it commits: no archiving and no price
\* change slips in between the check of reserveItems and the commit.
SoldAsListed ==
    [][ \A o \in OrderIds :
          orders'[o] # orders[o] /\ orders'[o].status = "CREATED" =>
            /\ orders'[o].total = Cost(orders'[o].items)
            /\ \A p \in Products : orders'[o].items[p] > 0 => products[p].status = "ACTIVE" ]_vars

\* The transitions of domain.validTransitions that the code can take, and a
\* canceled order never changes again, even when updates and cancellations of
\* it overlap: its units and its promo use have been given back.
OrderLifecycle ==
    [][ \A o \in OrderIds :
          /\ orders[o].status = "NONE" => orders'[o].status \in {"NONE", "CREATED"}
          /\ orders[o].status = "CREATED" => /\ orders'[o].status # "NONE"
                                             /\ orders'[o].user = orders[o].user
          /\ orders[o].status = "CANCELED" => orders'[o] = orders[o] ]_vars

\* No order commits within the rate limit of an earlier order of its user.
Spaced ==
    \A o, i \in OrderIds :
      /\ orders[o].status = "NONE" /\ orders'[o].status = "CREATED"
      /\ orders[i].status # "NONE" /\ orders[i].user = orders'[o].user
      => orders[i].created + RateLimit <= now

OrderSpacing == [][Spaced]_vars

\* Both limits (docs/defense-notes.md: one order a minute and at most one active
\* order for each user).
LimitsKept == [][ OneActiveOrder' /\ Spaced ]_vars

\* A PUT that leaves the stock out does not touch it.
OmittedStockKept ==
    [][ \A e \in Editors, p \in Products :
          edits[e].product = p /\ edits[e].body.stock = None /\ edits'[e] = NoEdit
            => products'[p].stock = products[p].stock ]_vars

\* A product leaves ARCHIVED only by a PUT that names another status.
ArchivedStays ==
    [][ \A p \in Products :
          products[p].status = "ARCHIVED" /\ products'[p].status # "ARCHIVED" =>
            \E e \in Editors : edits[e].product = p /\ edits[e].body.status # None ]_vars

-----------------------------------------------------------------------------
(* Refinement.                                                              *)

Shelf == [p \in Products |-> [open |-> products[p].status = "ACTIVE", units |-> products[p].stock]]

UsesLeft == [c \in Promos |-> IF c \in issued THEN Terms[c].max - uses[c] ELSE None]

\* Requests, locks and transactions taken away, the marketplace is the order
\* book: each order request takes effect at its commit, as one step, with
\* conditions that hold at that moment.
Book == INSTANCE OrderBook WITH shelf <- Shelf, left <- UsesLeft

OrdersAreAtomic == Book!Spec
=============================================================================

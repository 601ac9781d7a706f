------------------------------- MODULE Orders -------------------------------
(***************************************************************************)
(* POST /orders, PUT /orders/{id} and POST /orders/{id}/cancel: the order  *)
(* use case (usecases/order.go), one action for each statement that reads  *)
(* committed data or can wait for a row lock.  A lock, the checks on the   *)
(* locked row and the private write that follows are one action: nobody    *)
(* else can see or change that row in between.                             *)
(***************************************************************************)
EXTENDS MarketDB, Discount

CONSTANTS
    Baskets,    \* item lists a client may send: sequences of lines
    OneAtATime  \* TRUE: a user waits for an answer before the next request

Line == [product : Products, quantity : Nat \ {0}]

ASSUME BasketsAssumption ==
    /\ Baskets \subseteq Seq(Line) \ {<< >>}
    /\ OneAtATime \in BOOLEAN

unserved == <<products, issued, uses, orders, ops, now, rows>>

Busy(u) == \E v \in Workers : tx[v].user = u

\* The statement a transaction comes to next.
NextStatement(t) == IF t.olds # << >> THEN "release"
                    ELSE IF t.todo # << >> THEN "reserve"
                    ELSE IF t.code # None THEN "promo"
                    ELSE "commit"

Proceed(w, t) == /\ tx' = [tx EXCEPT ![w] = t]
                 /\ pc' = [pc EXCEPT ![w] = NextStatement(t)]

-----------------------------------------------------------------------------
(* A request arrives: WithTx begins its transaction.                       *)

Begin(w, label, t) == /\ pc[w] = "idle"
                      /\ OneAtATime => ~Busy(t.user)
                      /\ tx' = [tx EXCEPT ![w] = t]
                      /\ Goto(w, label)
                      /\ UNCHANGED unserved

\* The bound on orders: an id is left for every order that is being placed.
OrderIdsLeft == Cardinality({v \in Workers : tx[v].kind = "create"})
                  < Cardinality({o \in OrderIds : orders[o].status = "NONE"})

BeginCreate(w, u, basket, code) ==
    /\ OrderIdsLeft
    /\ Begin(w, "rate", [NoTx EXCEPT !.kind = "create", !.user = u, !.began = now,
                                     !.todo = basket, !.code = code])

BeginUpdate(w, u, o, basket) ==
    Begin(w, "lock", [NoTx EXCEPT !.kind = "update", !.user = u, !.order = o,
                                  !.began = now, !.todo = basket])

BeginCancel(w, u, o) ==
    Begin(w, "lock", [NoTx EXCEPT !.kind = "cancel", !.user = u, !.order = o, !.began = now])

-----------------------------------------------------------------------------
(* What the statements do.                                                 *)

Advance(w, label) == Goto(w, label) /\ UNCHANGED <<tx, rows, db>>

Operation(w) == IF tx[w].kind = "create" THEN "CREATE_ORDER" ELSE "UPDATE_ORDER"

CreateRateLimit(w) ==
    /\ pc[w] = "rate" /\ tx[w].kind = "create"
    /\ IF RateLimited(tx[w].user, Operation(w)) THEN Rollback(w) ELSE Advance(w, "active")

CheckNoActiveOrder(w) ==
    /\ pc[w] = "active"
    /\ IF HasActiveOrder(tx[w].user) THEN Rollback(w) ELSE Advance(w, "reserve")

\* The old items, in whatever order the query returns them.
OldItems(o) == {p \in Products : orders[o].items[p] > 0}
Orderings(S) == {s \in [1 .. Cardinality(S) -> S] : \A i, j \in DOMAIN s : s[i] = s[j] => i = j}

\* No status check: the order only has to be there.
FaultyChangeable(o) == orders[o].status # "NONE"

\* The status check of Update and of Cancel; no order is ever PAYMENT_PENDING.
Changeable(o) == orders[o].status = "CREATED"

MayChange(w, o) == Role[tx[w].user] = "ADMIN" \/ orders[o].user = tx[w].user

\* Locking the order's promo code along with the order, before any product.
FaultyUpdateLockOrder(w) ==
    LET o == tx[w].order
        needed == {OrderRow(o)} \cup
                    {PromoRow(c) : c \in {orders[o].promo} \cap Promos}
    IN  /\ pc[w] = "lock" /\ tx[w].kind = "update"
        /\ \A r \in needed : RowFree(w, r)
        /\ IF Changeable(o) /\ MayChange(w, o)
             THEN /\ rows' = [rows EXCEPT ![w] = needed]
                  /\ tx' = [tx EXCEPT ![w].code = orders[o].promo]
                  /\ Goto(w, "rate")
                  /\ UNCHANGED db
             ELSE Rollback(w)

\* GetOrderForUpdate in Update, with the owner and status checks after it.
UpdateLockOrder(w) ==
    LET o == tx[w].order IN
    /\ pc[w] = "lock" /\ tx[w].kind = "update"
    /\ RowFree(w, OrderRow(o))
    /\ IF Changeable(o) /\ MayChange(w, o)
         THEN /\ LockRow(w, OrderRow(o))
              /\ tx' = [tx EXCEPT ![w].code = orders[o].promo]
              /\ Goto(w, "rate")
              /\ UNCHANGED db
         ELSE Rollback(w)

\* The rate limit is the caller's, who is not the order's owner for an ADMIN.
UpdateRateLimit(w) ==
    /\ pc[w] = "rate" /\ tx[w].kind = "update"
    /\ IF RateLimited(tx[w].user, Operation(w))
         THEN Rollback(w)
         ELSE \E s \in Orderings(OldItems(tx[w].order)) :
                /\ Proceed(w, [tx[w] EXCEPT !.olds = s])
                /\ UNCHANGED <<rows, db>>

CancelLockOrder(w) ==
    LET o == tx[w].order IN
    /\ pc[w] = "lock" /\ tx[w].kind = "cancel"
    /\ RowFree(w, OrderRow(o))
    /\ IF Changeable(o) /\ MayChange(w, o)
         THEN \E s \in Orderings(OldItems(o)) :
                /\ LockRow(w, OrderRow(o))
                /\ Proceed(w, [tx[w] EXCEPT !.olds = s, !.code = orders[o].promo])
                /\ UNCHANGED db
         ELSE Rollback(w)

\* IncreaseStock for the next old item.
ReleaseItem(w) ==
    LET p == Head(tx[w].olds)
        n == orders[tx[w].order].items[p]
    IN  /\ pc[w] = "release"
        /\ RowFree(w, ProductRow(p))
        /\ IF StockOverflows(w, p, n)
             THEN Rollback(w)
             ELSE /\ LockRow(w, ProductRow(p))
                  /\ Proceed(w, [tx[w] EXCEPT !.olds = Tail(@), !.back[p] = @ + n])
                  /\ UNCHANGED db

\* A sale without a look at the stock.
FaultyCanReserve(w, line) == products[line.product].status = "ACTIVE"

\* A sale without a look at the status.
FaultyOnSale(w, line) == Stock(w, line.product) >= line.quantity

\* One round of reserveItems: LockProduct, the checks, DecreaseStock.
CanReserve(w, line) == /\ products[line.product].status = "ACTIVE"
                       /\ Stock(w, line.product) >= line.quantity

ReserveItem(w) ==
    LET line == Head(tx[w].todo)
        p == line.product
    IN  /\ pc[w] = "reserve"
        /\ RowFree(w, ProductRow(p))
        /\ IF CanReserve(w, line)
             THEN /\ LockRow(w, ProductRow(p))
                  /\ Proceed(w, [tx[w] EXCEPT !.todo = Tail(@),
                                   !.took[p] = @ + line.quantity,
                                   !.total = @ + products[p].price * line.quantity])
                  /\ UNCHANGED db
             ELSE Rollback(w)

\* One use too many.
FaultyRedeemable(c) == /\ c \in issued
                       /\ uses[c] <= Terms[c].max
                       /\ Terms[c].from <= now /\ now <= Terms[c].until

\* The checks of Create on the locked promo row.  `active` has no writer.
Redeemable(c) == /\ c \in issued
                 /\ uses[c] < Terms[c].max
                 /\ Terms[c].from <= now /\ now <= Terms[c].until

RedeemPromo(w) ==
    LET c == tx[w].code IN
    /\ pc[w] = "promo" /\ tx[w].kind = "create"
    /\ RowFree(w, PromoRow(c))
    /\ \E below \in BelowMinimum(Terms[c], tx[w].total) :
         IF Redeemable(c) /\ ~below
           THEN \E d \in CalcDiscount(Terms[c], tx[w].total) :
                  /\ LockRow(w, PromoRow(c))
                  /\ tx' = [tx EXCEPT ![w].promo = c, ![w].discount = d, ![w].used = 1]
                  /\ Goto(w, "commit")
                  /\ UNCHANGED db
           ELSE Rollback(w)

\* Update keeps the order's promo while the new total reaches the minimum, and
\* gives the use back otherwise; validity and uses are not looked at again.
ReviewPromo(w) ==
    LET c == tx[w].code IN
    /\ pc[w] = "promo" /\ tx[w].kind = "update"
    /\ RowFree(w, PromoRow(c))
    /\ LockRow(w, PromoRow(c))
    /\ \E below \in BelowMinimum(Terms[c], tx[w].total) :
         IF below
           THEN tx' = [tx EXCEPT ![w].used = OneUseLess(c)]
           ELSE \E d \in CalcDiscount(Terms[c], tx[w].total) :
                  tx' = [tx EXCEPT ![w].promo = c, ![w].discount = d]
    /\ Goto(w, "commit")
    /\ UNCHANGED db

ReturnPromo(w) ==
    LET c == tx[w].code IN
    /\ pc[w] = "promo" /\ tx[w].kind = "cancel"
    /\ RowFree(w, PromoRow(c))
    /\ LockRow(w, PromoRow(c))
    /\ tx' = [tx EXCEPT ![w].used = OneUseLess(c)]
    /\ Goto(w, "commit")
    /\ UNCHANGED db

-----------------------------------------------------------------------------
(* The last writes and the commit: what was private becomes visible.       *)

Commit(w) == /\ pc[w] = "commit"
             /\ products' = StockWritten(w)
             /\ uses' = UsesWritten(w)
             /\ EndTx(w)
             /\ UNCHANGED issued

LogOperation(w) ==
    ops' = ops \cup {[user |-> tx[w].user, type |-> Operation(w), at |-> tx[w].began]}

\* InsertOrder and InsertOrderItems.
Placed(w) == [status |-> "CREATED", user |-> tx[w].user, items |-> tx[w].took,
              total |-> tx[w].total, discount |-> tx[w].discount, promo |-> tx[w].promo,
              created |-> tx[w].began]

CommitCreate(w) ==
    /\ tx[w].kind = "create"
    /\ Commit(w)
    /\ LogOperation(w)
    /\ \E o \in {i \in OrderIds : orders[i].status = "NONE"} :
         orders' = [orders EXCEPT ![o] = Placed(w)]

\* The discount of the old total is kept.
FaultyRevised(w, order) == [order EXCEPT !.items = tx[w].took, !.total = tx[w].total,
                                         !.promo = tx[w].promo]

\* DeleteOrderItems, InsertOrderItems and UpdateOrderTx.
Revised(w, order) == [order EXCEPT !.items = tx[w].took, !.total = tx[w].total,
                                   !.discount = tx[w].discount, !.promo = tx[w].promo]

CommitUpdate(w) ==
    /\ tx[w].kind = "update"
    /\ Commit(w)
    /\ LogOperation(w)
    /\ orders' = [orders EXCEPT ![tx[w].order] = Revised(w, @)]

\* The canceled order keeps its items, its promo and its discount.
CommitCancel(w) ==
    /\ tx[w].kind = "cancel"
    /\ Commit(w)
    /\ UNCHANGED ops
    /\ orders' = [orders EXCEPT ![tx[w].order].status = "CANCELED"]

-----------------------------------------------------------------------------
(* Waiting, deadlock and failure.                                          *)

\* The row the next statement of w needs.
Wanted(w) == CASE pc[w] = "lock"    -> {OrderRow(tx[w].order)}
               [] pc[w] = "release" -> {ProductRow(Head(tx[w].olds))}
               [] pc[w] = "reserve" -> {ProductRow(Head(tx[w].todo).product)}
               [] pc[w] = "promo"   -> {PromoRow(tx[w].code)}
               [] OTHER             -> {}

WaitsOn(v, w) == v # w /\ Wanted(v) \cap rows[w] # {}

\* A set of transactions in which everyone waits and everyone is waited for.  A
\* row has one holder, so the members of such a set are all on a cycle.
WaitCycle(S) == \A v \in S : /\ \E w \in S : WaitsOn(v, w)
                             /\ \E w \in S : WaitsOn(w, v)

\* Postgres aborts one transaction of a cycle.
DeadlockVictim(w) == /\ \E S \in SUBSET Workers : w \in S /\ WaitCycle(S)
                     /\ Rollback(w)

\* The client goes away, a statement or the commit fails, or the process dies.
Interrupt(w) == pc[w] # "idle" /\ Rollback(w)

Statement(w) == \/ CreateRateLimit(w) \/ CheckNoActiveOrder(w)
                \/ UpdateLockOrder(w) \/ UpdateRateLimit(w) \/ CancelLockOrder(w)
                \/ ReleaseItem(w) \/ ReserveItem(w)
                \/ RedeemPromo(w) \/ ReviewPromo(w) \/ ReturnPromo(w)
                \/ CommitCreate(w) \/ CommitUpdate(w) \/ CommitCancel(w)

OrderRequest(w) ==
    \E u \in Users :
      \/ \E basket \in Baskets, code \in Promos \cup {None} : BeginCreate(w, u, basket, code)
      \/ \E o \in OrderIds, basket \in Baskets : BeginUpdate(w, u, o, basket)
      \/ \E o \in OrderIds : BeginCancel(w, u, o)
=============================================================================

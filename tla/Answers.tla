------------------------------ MODULE Answers ------------------------------
(***************************************************************************)
(* What the caller of POST /orders, PUT /orders/{id} and POST              *)
(* /orders/{id}/cancel is told (handlers/order.go, mapDomainError), on top *)
(* of the marketplace.                                                     *)
(***************************************************************************)
EXTENDS Marketplace

VARIABLE told       \* the answer given in the last step: to which worker, which code

avars == <<vars, told>>

Silence == [worker |-> None, code |-> "none"]

\* The domain error for which the use case gives up at its next statement.
Refusal(w) ==
    LET o == tx[w].order
        p == Head(tx[w].todo).product
    IN  CASE pc[w] = "lock" /\ orders[o].status = "NONE"      -> "NOT_FOUND"
          [] pc[w] = "lock" /\ orders[o].status # "NONE"
                            /\ ~MayChange(w, o)                -> "ACCESS_DENIED"
          [] pc[w] = "lock" /\ MayChange(w, o)
                            /\ orders[o].status = "CANCELED"   -> "INVALID_STATE_TRANSITION"
          [] pc[w] = "rate"                                    -> "ORDER_LIMIT_EXCEEDED"
          [] pc[w] = "active"                                  -> "ORDER_HAS_ACTIVE"
          [] pc[w] = "release"                                 -> "INTERNAL_ERROR"
          [] pc[w] = "reserve" /\ ~Exists(p)                   -> "NOT_FOUND"
          [] pc[w] = "reserve" /\ products[p].status \in {"INACTIVE", "ARCHIVED"}
                                                               -> "PRODUCT_INACTIVE"
          [] pc[w] = "reserve" /\ products[p].status = "ACTIVE" -> "INSUFFICIENT_STOCK"
          [] pc[w] = "promo" /\ ~Redeemable(tx[w].code)        -> "PROMO_CODE_INVALID"
          [] pc[w] = "promo" /\ Redeemable(tx[w].code)         -> "PROMO_CODE_MIN_AMOUNT"

\* What a failure of the database is reported as: Create takes any error of
\* LockPromo for a bad code.
FailureCodes(w) == {"INTERNAL_ERROR"} \cup
                     IF pc[w] = "promo" /\ tx[w].kind = "create" THEN {"PROMO_CODE_INVALID"} ELSE {}

\* A request that has come to its commit succeeds, or the commit's own answer is
\* lost and nobody knows.
Outcomes(w) == IF pc[w] = "commit" THEN {"OK", "INTERNAL_ERROR"} ELSE {Refusal(w)}

Reply(w, codes) == \E c \in codes : told' = [worker |-> w, code |-> c]

AnswersInit == Init /\ told = Silence

Ask(w)      == OrderRequest(w) /\ UNCHANGED edits /\ told' = Silence
Continue(w) == Serve(w) /\ pc'[w] # "idle" /\ told' = Silence
Finish(w)   == Serve(w) /\ pc'[w] = "idle" /\ Reply(w, Outcomes(w))
GiveUp(w)   == Abort(w) /\ Reply(w, FailureCodes(w))

AnswersNext == \/ \E w \in Workers : Ask(w) \/ Continue(w) \/ Finish(w) \/ GiveUp(w)
               \/ (CatalogRequest \/ CatalogStep \/ Tick) /\ told' = Silence

AnswersSpec == AnswersInit /\ [][AnswersNext]_avars

-----------------------------------------------------------------------------
(* Properties.                                                             *)

\* A step ends the request of w with this code.
Told(w, c) == told' = [worker |-> w, code |-> c]

\* All a request asks for of p: the units taken and those still to be taken.
Demand(w, p) ==
    tx[w].took[p] + MapThenSumSet(LAMBDA i : IF tx[w].todo[i].product = p
                                              THEN tx[w].todo[i].quantity ELSE 0,
                                  DOMAIN tx[w].todo)

\* Units the order a request changes holds.
Held(w, p) == IF tx[w].kind = "update" THEN orders[tx[w].order].items[p] ELSE 0

\* A refusal is right at the moment it is given, whatever else is under way.
\* "Insufficient stock" in particular: the shelf and what the order already
\* holds do not cover the basket, though the old items have been put back and
\* part of the new ones taken by then.
RefusalJustified ==
    [][ \A w \in Workers :
          /\ Told(w, "INSUFFICIENT_STOCK") =>
               \E p \in Products : Demand(w, p) > products[p].stock + Held(w, p)
          /\ Told(w, "PRODUCT_INACTIVE") =>
               \E p \in Products : Demand(w, p) > 0 /\ products[p].status \in {"INACTIVE", "ARCHIVED"}
          /\ Told(w, "ORDER_HAS_ACTIVE") =>
               \E o \in OrderIds : Active(o) /\ orders[o].user = tx[w].user
          /\ Told(w, "INVALID_STATE_TRANSITION") => ~Active(tx[w].order) ]_avars
=============================================================================

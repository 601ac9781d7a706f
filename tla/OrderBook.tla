----------------------------- MODULE OrderBook -----------------------------
(***************************************************************************)
(* What the marketplace promises about orders: placing, changing or        *)
(* canceling one is a single step that moves the units between the shelf   *)
(* and the order and the use between the promo code and the order.  There  *)
(* are no requests, locks or transactions here.  An order that changes is  *)
(* described by the row it becomes, orders'[o].                            *)
(***************************************************************************)
EXTENDS Discount, FiniteSets

CONSTANTS Users, Products, Promos, Terms, OrderIds, None, MaxInt

VARIABLES
    shelf,      \* of each product: is it open for orders, and how many units are there
    left,       \* the uses left of each promo code; None before it is issued
    orders      \* what each order id stands for

vars == <<shelf, left, orders>>

Becomes(o, new) == orders' = [orders EXCEPT ![o] = new]

MoveUnits(back, taken) ==
    shelf' = [p \in Products |-> [shelf[p] EXCEPT !.units = @ + back[p] - taken[p]]]

Nothing == [p \in Products |-> 0]

GiveBack(c) == left' = IF c = None THEN left ELSE [left EXCEPT ![c] = @ + 1]

\* What an order may hold once it is written: open products that the shelf
\* can cover, and a discount its promo code justifies.
Sellable(items, back) ==
    \A p \in Products : items[p] > 0 => /\ shelf[p].open
                                        /\ items[p] <= shelf[p].units + back[p]

Priced(new) == IF new.promo = None
                 THEN new.discount = 0
                 ELSE /\ new.total >= Terms[new.promo].min
                      /\ new.discount \in CalcDiscount(Terms[new.promo], new.total)

Place(o) ==
    LET new == orders'[o] IN
    /\ orders[o].status = "NONE"
    /\ new.status = "CREATED" /\ new.user \in Users
    /\ Becomes(o, new)
    /\ Sellable(new.items, Nothing) /\ Priced(new)
    /\ MoveUnits(Nothing, new.items)
    /\ IF new.promo = None
         THEN left' = left
         ELSE /\ left[new.promo] \in Nat \ {0}
              /\ left' = [left EXCEPT ![new.promo] = @ - 1]

Revise(o) ==
    LET old == orders[o]
        new == orders'[o]
    IN  /\ old.status = "CREATED" /\ new.status = "CREATED"
        /\ new.user = old.user /\ new.created = old.created
        /\ Becomes(o, new)
        /\ Sellable(new.items, old.items) /\ Priced(new)
        /\ MoveUnits(old.items, new.items)
        /\ \/ new.promo = old.promo /\ left' = left
           \/ /\ new.promo = None
              /\ GiveBack(old.promo)

Cancel(o) ==
    LET old == orders[o] IN
    /\ old.status = "CREATED"
    /\ Becomes(o, [old EXCEPT !.status = "CANCELED"])
    /\ MoveUnits(old.items, Nothing)
    /\ GiveBack(old.promo)

\* A seller writes one product row, as he likes; the orders do not move.
WriteShelf(p) ==
    /\ \E open \in BOOLEAN, n \in 0 .. MaxInt :
         shelf' = [shelf EXCEPT ![p] = [open |-> open, units |-> n]]
    /\ UNCHANGED <<left, orders>>

Issue(c) == /\ left[c] = None
            /\ left' = [left EXCEPT ![c] = Terms[c].max]
            /\ UNCHANGED <<shelf, orders>>

Init == /\ \A c \in Promos : left[c] \in {None, Terms[c].max}
        /\ \A o \in OrderIds : orders[o].status = "NONE"

Next == \/ \E o \in OrderIds : Place(o) \/ Revise(o) \/ Cancel(o)
        \/ \E p \in Products : WriteShelf(p)
        \/ \E c \in Promos : Issue(c)

Spec == Init /\ [][Next]_vars
=============================================================================

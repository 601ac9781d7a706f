------------------------------ MODULE MCOrders ------------------------------
(***************************************************************************)
(* Order requests on a stocked catalog that nobody edits: two requests at  *)
(* once, a customer and an ADMIN who may change the customer's orders.     *)
(***************************************************************************)
EXTENDS Marketplace, TLC

CONSTANTS alice, root,      \* users
          a, b,             \* products
          half, flat        \* promo codes

MCRole == [u \in Users |-> IF u = alice THEN "USER" ELSE "ADMIN"]

\* flat is worth more than the cheapest order, which is below its minimum;
\* half is capped at 70 per cent and has an odd cent to round.
MCTerms == [c \in Promos |->
              IF c = flat
                THEN [type |-> "FIXED_AMOUNT", value |-> 4, min |-> 3, max |-> 1,
                      from |-> 0, until |-> 0]
                ELSE [type |-> "PERCENTAGE", value |-> 9000, min |-> 5, max |-> 1,
                      from |-> 0, until |-> 0]]

One(p) == [product |-> p, quantity |-> 1]

SmallBaskets == {<<One(a)>>, <<One(a), One(b)>>, <<One(b), One(a)>>}
ShelfRows == [price : {3}, stock : 1 .. 2, status : {"ACTIVE"}]

\* Two units of each product, n of b: with one, the second order of b finds none.
Stocked(n) == /\ Init
              /\ issued = Promos
              /\ \A p \in Products : /\ products[p].stock = IF p = b THEN n ELSE 2
                                     /\ products[p].seller = root

OneBasket == {<<One(a)>>}

OrdersSpec == Stocked(1) /\ [][OrdersNext]_vars

Symmetric == Permutations(Workers) \cup Permutations(OrderIds)
=============================================================================

----------------------------- MODULE MCCatalog -----------------------------
(***************************************************************************)
(* The whole service from an empty or stocked catalog: a seller edits and  *)
(* archives products and issues a promo code while orders are served.      *)
(***************************************************************************)
EXTENDS Marketplace, TLC

CONSTANTS alice, shop,      \* users
          a, b,             \* products
          code              \* the promo code

MCRole == [u \in Users |-> IF u = alice THEN "USER" ELSE "SELLER"]

\* 90 per cent, of which 70 are given; its time is the first tick of the clock only.
MCTerms == [c \in Promos |-> [type |-> "PERCENTAGE", value |-> 9000, min |-> 2, max |-> 1,
                              from |-> 1, until |-> 1]]

One(p) == [product |-> p, quantity |-> 1]

MCBaskets == {<<One(a)>>, <<One(a), One(a)>>} \cup
             (IF b \in Products THEN {<<One(a), One(b)>>} ELSE {})

Stocked(n) == {[price |-> 2, stock |-> n, status |-> "ACTIVE"]}
TwoEach == Stocked(2)

Body(p, n, s) == [price |-> p, stock |-> n, status |-> s]

\* Full bodies (a client that fills in every field), and one without a stock.
FullBodies == {Body(1, 1, "ACTIVE"), Body(2, 2, "INACTIVE")}
PriceOnly == {Body(1, None, None)}
StockOnly == {Body(None, 1, None)}
AllBodies == FullBodies \cup PriceOnly \cup StockOnly
=============================================================================

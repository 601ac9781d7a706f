--------------------------- MODULE MCProductPages ---------------------------
(***************************************************************************)
(* Walks through a list of up to three products that a seller extends,     *)
(* archives from and puts back on sale.                                    *)
(***************************************************************************)
EXTENDS ProductPages, TLC

CONSTANT shop

MCRole == [u \in Users |-> "SELLER"]

AllAndActive == {[status |-> None, seller |-> None], [status |-> "ACTIVE", seller |-> None]}

OneRow == {[price |-> 1, stock |-> 1, status |-> "ACTIVE"]}
BackOnSale == {[price |-> None, stock |-> 1, status |-> "ACTIVE"]}

NoTerms == << >>
NoBaskets == {}

Symmetric == Permutations(Products)
=============================================================================

-------------------------- MODULE MCConnectionPool --------------------------
(***************************************************************************)
(* More order requests than connections, which lock the same products in   *)
(* either order, and a PUT that waits for them.                            *)
(***************************************************************************)
EXTENDS ConnectionPool, MCOrders

\* A change puts the old items back in either order, so it and another request
\* may lock them crosswise.
PairBasket == {<<One(a), One(b)>>}

\* New units arrive.
StockBody == {[price |-> None, stock |-> 1, status |-> None]}

OneRow == [price : {3}, stock : {1}, status : {"ACTIVE"}]

\* One unit of each product.
OneEach == /\ PoolInit
           /\ \A p \in Products : products[p].stock = 1 /\ products[p].seller = root

PooledNext == \/ OrdersPooled
              \/ /\ \/ \E e \in Editors, body \in Bodies : BeginEdit(e, root, a, body)
                    \/ CatalogStep
                 /\ UNCHANGED queue

PooledSpec == OneEach /\ [][PooledNext]_qvars /\ PoolFairness
=============================================================================

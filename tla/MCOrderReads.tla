---------------------------- MODULE MCOrderReads ----------------------------
(***************************************************************************)
(* Orders of users who wait for their answers, a clock, and reads.         *)
(***************************************************************************)
EXTENDS OrderReads, MCOrders

\* One unit, or two on two lines.
OneOrTwo == {<<One(a)>>, <<One(a), One(a)>>}

\* The ADMIN, whose reads are not refused, reads an order of the customer; a
\* read worth following begins before the order is canceled.
ReadOfCustomer(r) == \E o \in OrderIds : /\ Active(o) /\ orders[o].user = alice
                                        /\ BeginRead(r, root, o)

ClientsNext == \/ (OrdersNext \/ Tick) /\ ReadsForgotten
               \/ \E r \in Readers : ReadOfCustomer(r) \/ ContinueRead(r)

ClientsSpec == Stocked(1) /\ reads = [r \in Readers |-> NoRead] /\ [][ClientsNext]_rvars
=============================================================================

----------------------------- MODULE MCAnswers -----------------------------
(***************************************************************************)
(* Order requests and their answers; one of the products may be out of the *)
(* shop from the start.                                                    *)
(***************************************************************************)
EXTENDS Answers, MCOrders

ShelfOrHidden == [price : {3}, stock : 1 .. 2, status : {"ACTIVE", "INACTIVE"}]

AnsweredOrders == \E w \in Workers : Ask(w) \/ Continue(w) \/ Finish(w) \/ GiveUp(w)

AnsweredSpec == /\ Stocked(1) /\ products[a].status = "ACTIVE"
                /\ told = Silence
                /\ [][AnsweredOrders]_avars
=============================================================================

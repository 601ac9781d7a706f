---------------------------- MODULE OrderProofs ----------------------------
(***************************************************************************)
(* What the marketplace promises about orders, for any number of requests, *)
(* users, products, codes and orders: uses and discounts, deadlocks, the   *)
(* life of an order, and that it implements the order book.                *)
(***************************************************************************)
EXTENDS MarketplaceProofs, DiscountProofs

\* A request that has locked the order it changes.
Changing(w) == tx[w].kind \in {"update", "cancel"} /\ pc[w] \notin {"idle", "lock"}

\* It found the order active and keeps it so: nobody else can lock its row.
HoldsOrder(w) == Changing(w) => /\ OrderRow(tx[w].order) \in rows[w]
                                /\ Active(tx[w].order)
                                /\ tx[w].code = orders[tx[w].order].promo

\* Order row first, promo row last.
LocksInOrder(w) == /\ pc[w] = "lock" => rows[w] = {}
                   /\ pc[w] # "commit" => \A c \in Promos : PromoRow(c) \notin rows[w]
                   /\ pc[w] = "rate" => tx[w].kind # "cancel"
                   /\ pc[w] = "active" => tx[w].kind = "create"
                   /\ pc[w] = "lock" => tx[w].kind \in {"update", "cancel"}

\* An old item that is still to be put back.
Due(w, p) == \E i \in 1 .. Len(tx[w].olds) : tx[w].olds[i] = p

\* What has been put back is exactly what the order holds of the products that
\* are not due any more.
PutBack(w) ==
    /\ tx[w].olds # << >> => pc[w] = "release"
    /\ \A i, j \in 1 .. Len(tx[w].olds) : tx[w].olds[i] = tx[w].olds[j] => i = j
    /\ \A p \in Products :
         tx[w].back[p] = IF Changing(w) /\ pc[w] # "rate" /\ ~Due(w, p)
                           THEN orders[tx[w].order].items[p] ELSE 0

\* Units are taken of products on sale, and a cancellation takes none.
TakenOnSale(w) ==
    /\ tx[w].kind = "cancel" => tx[w].todo = << >>
    /\ \A p \in Products : tx[w].took[p] # 0 => /\ products[p].status = "ACTIVE"
                                                /\ tx[w].kind # "cancel"

\* A discount (of an order, or of a transaction that will write one) is the one
\* its promo code and its total give.
Priced(r) == IF r.promo = None
               THEN r.discount = 0
               ELSE /\ r.promo \in issued
                    /\ Terms[r.promo].min <= r.total
                    /\ r.discount \in CalcDiscount(Terms[r.promo], r.total)

\* What becomes of the promo code is decided at its row, the last before the
\* commit: a new order takes a use, an updated one keeps it or gives it back, a
\* canceled one gives it back.
Settled(w) ==
    /\ Priced(tx[w])
    /\ pc[w] # "commit" => tx[w].promo = None
    /\ pc[w] = "commit" =>
         IF tx[w].code = None
           THEN tx[w].promo = None /\ tx[w].used = 0
           ELSE /\ PromoRow(tx[w].code) \in rows[w]
                /\ IF tx[w].promo = None
                     THEN tx[w].kind # "create" /\ tx[w].used = -1
                     ELSE /\ tx[w].kind # "cancel" /\ tx[w].promo = tx[w].code
                          /\ tx[w].used = IF tx[w].kind = "create" THEN 1 ELSE 0

RequestOK(w) == /\ HoldsOrder(w)
                /\ LocksInOrder(w)
                /\ PutBack(w)
                /\ TakenOnSale(w)
                /\ Settled(w)

Ledger == PromoUsesExact /\ \A o \in OrderIds : Priced(orders[o])

OInv == /\ IInv
        /\ Ledger
        /\ \A w \in Workers : RequestOK(w)

-----------------------------------------------------------------------------
(* A step of one worker leaves what the others rely on.                     *)

\* Only w moves on; nobody else's request, position or locks change.
OnlyMoves(w) == \A v \in Workers \ {w} : /\ tx'[v] = tx[v] /\ pc'[v] = pc[v]
                                         /\ rows'[v] = rows[v]

\* What a request relies on: the order it holds, the status of the products it
\* holds, and codes that stay issued.
LEMMA Undisturbed ==
    ASSUME IInv, NEW v \in Workers, RequestOK(v),
           tx'[v] = tx[v], pc'[v] = pc[v], rows'[v] = rows[v],
           Changing(v) => orders'[tx[v].order] = orders[tx[v].order],
           \A p \in Products : ProductRow(p) \in rows[v] => products'[p].status = products[p].status,
           issued \subseteq issued'
    PROVE  RequestOK(v)'
<1>1. Changing(v)' <=> Changing(v)
  BY DEF Changing
<1>2. HoldsOrder(v)'
  BY <1>1 DEF HoldsOrder, Active, RequestOK
<1>3. LocksInOrder(v)'
  BY DEF LocksInOrder, RequestOK
<1>4. PutBack(v)'
  <2>1. \A p \in Products : Due(v, p)' <=> Due(v, p)
    BY DEF Due
  <2> QED BY <1>1, <2>1 DEF PutBack, RequestOK
<1>5. TakenOnSale(v)'
  BY DEF TakenOnSale, RequestOK, IInv, WorkerOK, Covered
<1>6. Settled(v)'
  BY DEF Settled, Priced, RequestOK
<1> QED BY <1>2, <1>3, <1>4, <1>5, <1>6 DEF RequestOK

\* A step inside a transaction: only the worker itself has to be looked at.
LEMMA InsideStep ==
    ASSUME OInv, IInv', NEW w \in Workers, OnlyMoves(w), UNCHANGED db, RequestOK(w)'
    PROVE  OInv'
<1>1. Ledger'
  BY DEF db, OInv, Ledger, PromoUsesExact, Priced, Active
<1>2. ASSUME NEW v \in Workers PROVE RequestOK(v)'
  <2>1. CASE v = w
    BY <2>1
  <2>2. CASE v # w
    BY <2>2, Undisturbed DEF OnlyMoves, db, OInv
  <2> QED BY <2>1, <2>2
<1> QED BY <1>1, <1>2 DEF OInv

LEMMA IdleOK ==
    ASSUME NEW w \in Workers, tx'[w] = NoTx, pc'[w] = "idle", rows'[w] = {}
    PROVE  RequestOK(w)'
<1>1. HoldsOrder(w)' /\ LocksInOrder(w)'
  BY DEF HoldsOrder, Changing, LocksInOrder
<1>2. PutBack(w)' /\ TakenOnSale(w)'
  BY DEF PutBack, TakenOnSale, Changing, NoTx, NoQuantity
<1>3. Settled(w)'
  BY DEF Settled, Priced, NoTx
<1> QED BY <1>1, <1>2, <1>3 DEF RequestOK

LEMMA EndsIdle ==
    ASSUME IInv, NEW w \in Workers, EndTx(w)
    PROVE  OnlyMoves(w) /\ RequestOK(w)'
<1>1. tx'[w] = NoTx /\ pc'[w] = "idle" /\ rows'[w] = {} /\ OnlyMoves(w)
  BY DEF EndTx, OnlyMoves, IInv, TypeOK
<1> QED BY <1>1, IdleOK

LEMMA RollbackOK ==
    ASSUME OInv, IInv', NEW w \in Workers, Rollback(w)
    PROVE  OInv'
  BY EndsIdle, InsideStep DEF Rollback, OInv

LEMMA BeginOK ==
    ASSUME OInv, IInv', NEW w \in Workers, NEW t, NEW l, Begin(w, l, t),
           (l = "rate" /\ t.kind = "create") \/ (l = "lock" /\ t.kind \in {"update", "cancel"}),
           t.olds = << >>, t.back = NoQuantity, t.took = NoQuantity,
           t.promo = None, t.discount = 0,
           t.kind = "cancel" => t.todo = << >>
    PROVE  OInv'
<1>1. tx'[w] = t /\ pc'[w] = l /\ rows'[w] = {} /\ OnlyMoves(w) /\ UNCHANGED db
  BY DEF Begin, Goto, OnlyMoves, unserved, db, OInv, IInv, TypeOK, WorkerOK, Underway
<1>2. HoldsOrder(w)' /\ LocksInOrder(w)'
  BY <1>1 DEF HoldsOrder, Changing, LocksInOrder
<1>3. PutBack(w)' /\ TakenOnSale(w)'
  BY <1>1 DEF PutBack, TakenOnSale, Changing, NoQuantity
<1>4. Settled(w)'
  BY <1>1 DEF Settled, Priced
<1>5. RequestOK(w)'
  BY <1>2, <1>3, <1>4 DEF RequestOK
<1> QED BY <1>1, <1>5, InsideStep

LEMMA OrderRequestOK ==
    ASSUME OInv, IInv', NEW w \in Workers, OrderRequest(w)
    PROVE  OInv'
<1>1. ASSUME NEW u \in Users, NEW basket \in Baskets, NEW code \in Promos \cup {None},
             BeginCreate(w, u, basket, code)
      PROVE  OInv'
  <2> DEFINE t == [NoTx EXCEPT !.kind = "create", !.user = u, !.began = now,
                               !.todo = basket, !.code = code]
  <2>1. /\ t.kind = "create" /\ t.olds = << >> /\ t.back = NoQuantity /\ t.took = NoQuantity
        /\ t.promo = None /\ t.discount = 0
    BY DEF NoTx
  <2>2. Begin(w, "rate", t)
    BY <1>1 DEF BeginCreate
  <2> HIDE DEF t
  <2> QED BY <2>1, <2>2, BeginOK
<1>2. ASSUME NEW u \in Users, NEW o \in OrderIds, NEW basket \in Baskets,
             BeginUpdate(w, u, o, basket)
      PROVE  OInv'
  <2> DEFINE t == [NoTx EXCEPT !.kind = "update", !.user = u, !.order = o,
                               !.began = now, !.todo = basket]
  <2>1. /\ t.kind = "update" /\ t.olds = << >> /\ t.back = NoQuantity /\ t.took = NoQuantity
        /\ t.promo = None /\ t.discount = 0
    BY DEF NoTx
  <2>2. Begin(w, "lock", t)
    BY <1>2 DEF BeginUpdate
  <2> HIDE DEF t
  <2> QED BY <2>1, <2>2, BeginOK
<1>3. ASSUME NEW u \in Users, NEW o \in OrderIds, BeginCancel(w, u, o)
      PROVE  OInv'
  <2> DEFINE t == [NoTx EXCEPT !.kind = "cancel", !.user = u, !.order = o, !.began = now]
  <2>1. /\ t.kind = "cancel" /\ t.olds = << >> /\ t.back = NoQuantity /\ t.took = NoQuantity
        /\ t.promo = None /\ t.discount = 0 /\ t.todo = << >>
    BY DEF NoTx
  <2>2. Begin(w, "lock", t)
    BY <1>3 DEF BeginCancel
  <2> HIDE DEF t
  <2> QED BY <2>1, <2>2, BeginOK
<1> QED BY <1>1, <1>2, <1>3 DEF OrderRequest

-----------------------------------------------------------------------------
(* The statements before the commit.                                       *)

LEMMA AdvanceOK ==
    ASSUME OInv, IInv', NEW w \in Workers, NEW l \in {"active", "reserve"}, Advance(w, l),
           tx[w].kind = "create", pc[w] \in {"rate", "active"}
    PROVE  OInv'
<1>1. tx'[w] = tx[w] /\ pc'[w] = l /\ rows'[w] = rows[w] /\ OnlyMoves(w) /\ UNCHANGED db
  BY DEF Advance, Goto, OnlyMoves, OInv, IInv, TypeOK
<1>2. HoldsOrder(w)' /\ LocksInOrder(w)'
  BY <1>1 DEF HoldsOrder, Changing, LocksInOrder, OInv, RequestOK
<1>3. PutBack(w)' /\ TakenOnSale(w)'
  BY <1>1 DEF PutBack, TakenOnSale, Changing, db, OInv, RequestOK
<1>4. Settled(w)'
  BY <1>1 DEF Settled, Priced, db, OInv, RequestOK
<1>5. RequestOK(w)'
  BY <1>2, <1>3, <1>4 DEF RequestOK
<1> QED BY <1>1, <1>5, InsideStep

LEMMA UpdateLockOrderOK ==
    ASSUME OInv, IInv', NEW w \in Workers, UpdateLockOrder(w)
    PROVE  OInv'
<1> DEFINE o == tx[w].order
           t == [tx[w] EXCEPT !.code = orders[o].promo]
<1>1. CASE ~(Changeable(o) /\ MayChange(w, o))
  BY <1>1, RollbackOK DEF UpdateLockOrder
<1>2. CASE Changeable(o) /\ MayChange(w, o)
  <2>0. tx[w] \in TxRecord /\ pc[w] = "lock" /\ tx[w].kind = "update"
    BY DEF UpdateLockOrder, OInv, IInv, TypeOK
  <2>1. /\ tx'[w] = t /\ pc'[w] = "rate" /\ rows'[w] = rows[w] \cup {OrderRow(o)}
        /\ OnlyMoves(w) /\ UNCHANGED db
    BY <1>2 DEF UpdateLockOrder, LockRow, Goto, OnlyMoves, OInv, IInv, TypeOK
  <2>2. /\ t.kind = "update" /\ t.order = o /\ t.code = orders[o].promo
        /\ t.olds = tx[w].olds /\ t.todo = tx[w].todo /\ t.back = tx[w].back
        /\ t.took = tx[w].took /\ t.promo = tx[w].promo /\ t.discount = tx[w].discount
        /\ t.total = tx[w].total
    BY <2>0 DEF TxRecord
  <2> HIDE DEF t
  <2>3. HoldsOrder(w)'
    BY <1>2, <2>1, <2>2 DEF HoldsOrder, Active, Changeable, db
  <2>4. LocksInOrder(w)'
    BY <2>0, <2>1, <2>2 DEF LocksInOrder, OrderRow, PromoRow, OInv, RequestOK
  <2>5. PutBack(w)' /\ TakenOnSale(w)'
    BY <2>0, <2>1, <2>2 DEF PutBack, TakenOnSale, Changing, db, OInv, RequestOK
  <2>6. Settled(w)'
    BY <2>0, <2>1, <2>2 DEF Settled, Priced, db, OInv, RequestOK
  <2>7. RequestOK(w)'
    BY <2>3, <2>4, <2>5, <2>6 DEF RequestOK
  <2> QED BY <2>1, <2>7, InsideStep
<1> QED BY <1>1, <1>2

\* A statement that ends in Proceed: it has locked a row, taken or put back
\* units, and what is left to do says where the request is.
LEMMA ProceedOK ==
    ASSUME OInv, IInv', NEW w \in Workers, NEW t \in TxRecord, Proceed(w, t), UNCHANGED db,
           pc[w] # "commit",
           t.promo = tx[w].promo, t.discount = tx[w].discount, t.total \in Nat, t.used = 0,
           rows' \in [Workers -> SUBSET RowSet],
           \A v \in Workers \ {w} : rows'[v] = rows[v],
           \A c \in Promos : PromoRow(c) \notin rows'[w],
           t.kind \in {"update", "cancel"} => /\ OrderRow(t.order) \in rows'[w]
                                              /\ Active(t.order)
                                              /\ t.code = orders[t.order].promo,
           \A i, j \in 1 .. Len(t.olds) : t.olds[i] = t.olds[j] => i = j,
           \A p \in Products :
             t.back[p] = IF /\ t.kind \in {"update", "cancel"}
                            /\ ~ \E i \in 1 .. Len(t.olds) : t.olds[i] = p
                           THEN orders[t.order].items[p] ELSE 0,
           t.kind = "cancel" => t.todo = << >>,
           \A p \in Products : t.took[p] # 0 => /\ products[p].status = "ACTIVE"
                                                /\ t.kind # "cancel"
    PROVE  OInv'
<1>1. tx'[w] = t /\ pc'[w] = NextStatement(t) /\ OnlyMoves(w)
  BY DEF Proceed, OnlyMoves, OInv, IInv, TypeOK
<1>2. /\ pc'[w] \in {"release", "reserve", "promo", "commit"}
      /\ t.olds # << >> => pc'[w] = "release"
      /\ pc'[w] = "commit" => t.code = None
  BY <1>1 DEF NextStatement
<1>3. tx[w].promo = None /\ tx[w].discount = 0
  BY DEF OInv, RequestOK, Settled, Priced
<1>4. HoldsOrder(w)'
  BY <1>1, <1>2 DEF HoldsOrder, Changing, Active, db
<1>5. LocksInOrder(w)'
  BY <1>1, <1>2 DEF LocksInOrder
<1>6. PutBack(w)'
  <2>1. Changing(w)' <=> t.kind \in {"update", "cancel"}
    BY <1>1, <1>2 DEF Changing
  <2>2. \A p \in Products : Due(w, p)' <=> \E i \in 1 .. Len(t.olds) : t.olds[i] = p
    BY <1>1 DEF Due
  <2> QED BY <1>1, <1>2, <2>1, <2>2 DEF PutBack, db
<1>7. TakenOnSale(w)'
  BY <1>1 DEF TakenOnSale, db
<1>8. Settled(w)'
  BY <1>1, <1>2, <1>3 DEF Settled, Priced
<1>9. RequestOK(w)'
  BY <1>4, <1>5, <1>6, <1>7, <1>8 DEF RequestOK
<1> QED BY <1>1, <1>9, InsideStep

\* The query for the old items names each of them once.
LEMMA OldItemsOnce ==
    ASSUME IInv, NEW o \in OrderIds, NEW s \in Orderings(OldItems(o))
    PROVE  /\ s \in Seq(Products)
           /\ \A i, j \in 1 .. Len(s) : s[i] = s[j] => i = j
           /\ \A p \in Products : orders[o].items[p] # 0 => \E i \in 1 .. Len(s) : s[i] = p
<1> DEFINE S == OldItems(o)
<1>1. S \in SUBSET Products /\ IsFiniteSet(S) /\ Cardinality(S) \in Nat
  BY RowsAssumption, FS_Subset, FS_CardinalityType DEF OldItems
<1>2. s \in Seq(Products)
  BY <1>1, OrderingsAreSequences
<1>3. /\ s \in [1 .. Cardinality(S) -> S]
      /\ \A i, j \in DOMAIN s : s[i] = s[j] => i = j
  BY DEF Orderings
<1>4. DOMAIN s = 1 .. Cardinality(S) /\ Len(s) = Cardinality(S)
  BY <1>1, <1>2, <1>3
<1>5. \A p \in S : \E i \in 1 .. Len(s) : s[i] = p
  <2>1. s \in Injection(1 .. Cardinality(S), S)
    BY <1>3 DEF Injection, IsInjective
  <2>2. Cardinality(1 .. Cardinality(S)) = Cardinality(S)
    BY <1>1, FS_Interval
  <2>3. s \in Surjection(1 .. Cardinality(S), S)
    BY <1>1, <2>1, <2>2, FS_Injection
  <2> QED BY <1>4, <2>3 DEF Surjection
<1>6. \A p \in Products : orders[o].items[p] # 0 => p \in S
  BY DEF OldItems, IInv, TypeOK, OrderRecord, Count
<1> QED BY <1>2, <1>3, <1>4, <1>5, <1>6

LEMMA UpdateRateLimitOK ==
    ASSUME OInv, IInv', NEW w \in Workers, UpdateRateLimit(w)
    PROVE  OInv'
<1> DEFINE o == tx[w].order
<1>1. CASE RateLimited(tx[w].user, Operation(w))
  BY <1>1, RollbackOK DEF UpdateRateLimit
<1>2. CASE ~RateLimited(tx[w].user, Operation(w))
  <2>1. PICK s \in Orderings(OldItems(o)) :
           Proceed(w, [tx[w] EXCEPT !.olds = s]) /\ UNCHANGED <<rows, db>>
    BY <1>2 DEF UpdateRateLimit
  <2> DEFINE t == [tx[w] EXCEPT !.olds = s]
  <2>2. /\ tx[w] \in TxRecord /\ o \in OrderIds /\ tx[w].total \in Nat /\ tx[w].used = 0
        /\ pc[w] = "rate" /\ tx[w].kind = "update"
    BY DEF UpdateRateLimit, OInv, IInv, TypeOK, WorkerOK, Underway, TxRecord
  <2>3. /\ s \in Seq(Products)
        /\ \A i, j \in 1 .. Len(s) : s[i] = s[j] => i = j
        /\ \A p \in Products : orders[o].items[p] # 0 => \E i \in 1 .. Len(s) : s[i] = p
    BY <2>2, OldItemsOnce DEF OInv
  <2>4. t \in TxRecord
    BY <2>2, <2>3 DEF TxRecord
  <2>5. /\ t.kind = "update" /\ t.order = o /\ t.code = tx[w].code /\ t.olds = s
        /\ t.back = tx[w].back /\ t.took = tx[w].took /\ t.promo = tx[w].promo
        /\ t.discount = tx[w].discount /\ t.total = tx[w].total /\ t.used = tx[w].used
    BY <2>2 DEF TxRecord
  <2>6. Proceed(w, t)
    BY <2>1
  <2> HIDE DEF t
  <2>7. OrderRow(o) \in rows[w] /\ Active(o) /\ tx[w].code = orders[o].promo
    BY <2>2 DEF OInv, RequestOK, HoldsOrder, Changing
  <2>8. \A p \in Products : tx[w].back[p] = 0
    BY <2>2 DEF OInv, RequestOK, PutBack
  <2>9. \A p \in Products :
          t.back[p] = IF ~ \E i \in 1 .. Len(t.olds) : t.olds[i] = p
                        THEN orders[o].items[p] ELSE 0
    BY <2>3, <2>5, <2>8
  <2>10. /\ rows' = rows /\ rows \in [Workers -> SUBSET RowSet]
         /\ \A c \in Promos : PromoRow(c) \notin rows[w]
         /\ \A p \in Products : tx[w].took[p] # 0 => /\ products[p].status = "ACTIVE"
                                                     /\ tx[w].kind # "cancel"
    BY <2>1, <2>2 DEF OInv, IInv, TypeOK, RequestOK, LocksInOrder, TakenOnSale
  <2> QED BY <2>1, <2>2, <2>3, <2>4, <2>5, <2>6, <2>7, <2>9, <2>10, ProceedOK
<1> QED BY <1>1, <1>2

LEMMA CancelLockOrderOK ==
    ASSUME OInv, IInv', NEW w \in Workers, CancelLockOrder(w)
    PROVE  OInv'
<1> DEFINE o == tx[w].order
<1>1. CASE ~(Changeable(o) /\ MayChange(w, o))
  BY <1>1, RollbackOK DEF CancelLockOrder
<1>2. CASE Changeable(o) /\ MayChange(w, o)
  <2>1. PICK s \in Orderings(OldItems(o)) :
           /\ LockRow(w, OrderRow(o))
           /\ Proceed(w, [tx[w] EXCEPT !.olds = s, !.code = orders[o].promo])
           /\ UNCHANGED db
    BY <1>2 DEF CancelLockOrder
  <2> DEFINE t == [tx[w] EXCEPT !.olds = s, !.code = orders[o].promo]
  <2>2. /\ tx[w] \in TxRecord /\ o \in OrderIds /\ tx[w].total \in Nat /\ tx[w].used = 0
        /\ pc[w] = "lock" /\ tx[w].kind = "cancel" /\ orders[o].promo \in Promos \cup {None}
    BY DEF CancelLockOrder, OInv, IInv, TypeOK, WorkerOK, Underway, TxRecord, OrderRecord
  <2>3. /\ s \in Seq(Products)
        /\ \A i, j \in 1 .. Len(s) : s[i] = s[j] => i = j
        /\ \A p \in Products : orders[o].items[p] # 0 => \E i \in 1 .. Len(s) : s[i] = p
    BY <2>2, OldItemsOnce DEF OInv
  <2>4. t \in TxRecord
    BY <2>2, <2>3 DEF TxRecord
  <2>5. /\ t.kind = "cancel" /\ t.order = o /\ t.code = orders[o].promo /\ t.olds = s
        /\ t.back = tx[w].back /\ t.took = tx[w].took /\ t.promo = tx[w].promo
        /\ t.discount = tx[w].discount /\ t.total = tx[w].total /\ t.used = tx[w].used
        /\ t.todo = tx[w].todo
    BY <2>2 DEF TxRecord
  <2>6. Proceed(w, t)
    BY <2>1
  <2> HIDE DEF t
  <2>7. /\ rows[w] = {} /\ tx[w].todo = << >> /\ Active(o)
        /\ \A p \in Products : tx[w].took[p] = 0 /\ tx[w].back[p] = 0
    BY <1>2, <2>2 DEF OInv, RequestOK, LocksInOrder, TakenOnSale, PutBack, Changing, Changeable, Active
  <2>8. \A p \in Products :
          t.back[p] = IF ~ \E i \in 1 .. Len(t.olds) : t.olds[i] = p
                        THEN orders[o].items[p] ELSE 0
    BY <2>3, <2>5, <2>7
  <2>9. /\ rows'[w] = {OrderRow(o)} /\ \A v \in Workers \ {w} : rows'[v] = rows[v]
        /\ rows' \in [Workers -> SUBSET RowSet]
    BY <2>1, <2>2, <2>7 DEF LockRow, OInv, IInv, TypeOK, OrderRow, RowSet
  <2>10. \A c \in Promos : PromoRow(c) \notin rows'[w]
    BY <2>9 DEF PromoRow, OrderRow
  <2> QED BY <2>1, <2>2, <2>3, <2>4, <2>5, <2>6, <2>7, <2>8, <2>9, <2>10, ProceedOK
<1> QED BY <1>1, <1>2

LEMMA ReleaseItemOK ==
    ASSUME OInv, IInv', NEW w \in Workers, ReleaseItem(w)
    PROVE  OInv'
<1> DEFINE o == tx[w].order
           p == Head(tx[w].olds)
           n == orders[o].items[p]
           t == [tx[w] EXCEPT !.olds = Tail(tx[w].olds), !.back[p] = tx[w].back[p] + n]
<1>1. CASE StockOverflows(w, p, n)
  BY <1>1, RollbackOK DEF ReleaseItem
<1>2. CASE ~StockOverflows(w, p, n)
  <2>1. LockRow(w, ProductRow(p)) /\ Proceed(w, t) /\ UNCHANGED db
    BY <1>2 DEF ReleaseItem
  <2>2. /\ tx[w] \in TxRecord /\ pc[w] = "release" /\ tx[w].used = 0 /\ tx[w].total \in Nat
        /\ tx[w].kind \in {"update", "cancel"} /\ o \in OrderIds
        /\ tx[w].olds \in Seq(Products) /\ tx[w].olds # << >>
        /\ tx[w].back \in [Products -> Nat]
    BY DEF ReleaseItem, OInv, IInv, TypeOK, TxRecord, Count, WorkerOK, Underway
  <2>3. /\ Len(tx[w].olds) \in Nat \ {0} /\ p = tx[w].olds[1] /\ p \in Products
        /\ Tail(tx[w].olds) \in Seq(Products)
        /\ Len(Tail(tx[w].olds)) = Len(tx[w].olds) - 1
        /\ \A i \in 1 .. Len(Tail(tx[w].olds)) : Tail(tx[w].olds)[i] = tx[w].olds[i + 1]
    BY <2>2, HeadTailProperties, EmptySeq
  <2>4. Changing(w) /\ OrderRow(o) \in rows[w] /\ Active(o) /\ tx[w].code = orders[o].promo
    BY <2>2 DEF OInv, RequestOK, HoldsOrder, Changing
  <2>5. /\ \A i, j \in 1 .. Len(tx[w].olds) : tx[w].olds[i] = tx[w].olds[j] => i = j
        /\ \A q \in Products : tx[w].back[q] = IF ~Due(w, q) THEN orders[o].items[q] ELSE 0
    BY <2>2, <2>4 DEF OInv, RequestOK, PutBack
  <2>6. \A q \in Products :
          (\E i \in 1 .. Len(Tail(tx[w].olds)) : Tail(tx[w].olds)[i] = q) <=> Due(w, q) /\ q # p
    <3>1. ASSUME NEW q \in Products, NEW i \in 1 .. Len(Tail(tx[w].olds)), Tail(tx[w].olds)[i] = q
          PROVE  Due(w, q) /\ q # p
      <4>1. i + 1 \in 1 .. Len(tx[w].olds) /\ 1 \in 1 .. Len(tx[w].olds) /\ i + 1 # 1
        BY <2>3
      <4> QED BY <2>3, <2>5, <3>1, <4>1 DEF Due
    <3>2. ASSUME NEW q \in Products, NEW i \in 1 .. Len(tx[w].olds), tx[w].olds[i] = q, q # p
          PROVE  \E j \in 1 .. Len(Tail(tx[w].olds)) : Tail(tx[w].olds)[j] = q
      <4>1. i - 1 \in 1 .. Len(Tail(tx[w].olds)) /\ (i - 1) + 1 = i
        BY <2>3, <3>2
      <4> QED BY <2>3, <3>2, <4>1
    <3> QED BY <3>1, <3>2 DEF Due
  <2>7. \A i, j \in 1 .. Len(Tail(tx[w].olds)) : Tail(tx[w].olds)[i] = Tail(tx[w].olds)[j] => i = j
    <3> TAKE i, j \in 1 .. Len(Tail(tx[w].olds))
    <3>1. i + 1 \in 1 .. Len(tx[w].olds) /\ j + 1 \in 1 .. Len(tx[w].olds)
      BY <2>3
    <3> QED BY <2>3, <2>5, <3>1
  <2>8. n \in Nat /\ t \in TxRecord
    <3>1. n \in Nat
      BY <2>2, <2>3 DEF OInv, IInv, TypeOK, OrderRecord, Count
    <3>2. [tx[w].back EXCEPT ![p] = tx[w].back[p] + n] \in Count
      BY <2>2, <2>3, <3>1, AddUnits
    <3>3. t = [tx[w] EXCEPT !.olds = Tail(tx[w].olds),
                            !.back = [tx[w].back EXCEPT ![p] = tx[w].back[p] + n]]
      BY <2>2 DEF TxRecord
    <3> QED BY <2>2, <2>3, <3>1, <3>2, <3>3 DEF TxRecord
  <2>9. /\ t.kind = tx[w].kind /\ t.order = o /\ t.code = tx[w].code
        /\ t.olds = Tail(tx[w].olds) /\ t.todo = tx[w].todo
        /\ t.back = [tx[w].back EXCEPT ![p] = tx[w].back[p] + n]
        /\ t.took = tx[w].took /\ t.promo = tx[w].promo /\ t.discount = tx[w].discount
        /\ t.total = tx[w].total /\ t.used = tx[w].used
    BY <2>2 DEF TxRecord
  <2> HIDE DEF t
  <2>10. \A q \in Products :
           t.back[q] = IF /\ t.kind \in {"update", "cancel"}
                          /\ ~ \E i \in 1 .. Len(t.olds) : t.olds[i] = q
                         THEN orders[t.order].items[q] ELSE 0
    <3> TAKE q \in Products
    <3>1. CASE q = p
      <4>1. tx[w].back[p] = 0
        BY <2>3, <2>5 DEF Due
      <4> QED BY <2>2, <2>6, <2>8, <2>9, <3>1, <4>1
    <3>2. CASE q # p
      BY <2>2, <2>5, <2>6, <2>9, <3>2
    <3> QED BY <3>1, <3>2
  <2>11. /\ rows'[w] = rows[w] \cup {ProductRow(p)} /\ \A v \in Workers \ {w} : rows'[v] = rows[v]
         /\ rows' \in [Workers -> SUBSET RowSet]
    BY <2>1, <2>3 DEF LockRow, OInv, IInv, TypeOK, ProductRow, RowSet
  <2>12. \A c \in Promos : PromoRow(c) \notin rows'[w]
    BY <2>2, <2>11 DEF PromoRow, ProductRow, OInv, RequestOK, LocksInOrder
  <2>13. /\ t.kind = "cancel" => t.todo = << >>
         /\ \A q \in Products : t.took[q] # 0 => /\ products[q].status = "ACTIVE"
                                                 /\ t.kind # "cancel"
    BY <2>9 DEF OInv, RequestOK, TakenOnSale
  <2>14. \A i, j \in 1 .. Len(t.olds) : t.olds[i] = t.olds[j] => i = j
    BY <2>7, <2>9
  <2>15. OrderRow(t.order) \in rows'[w] /\ Active(t.order) /\ t.code = orders[t.order].promo
    BY <2>4, <2>9, <2>11
  <2>16. t.promo = tx[w].promo /\ t.discount = tx[w].discount /\ t.total \in Nat /\ t.used = 0
    BY <2>2, <2>9
  <2>17. /\ t \in TxRecord /\ Proceed(w, t) /\ UNCHANGED db /\ pc[w] # "commit"
         /\ rows' \in [Workers -> SUBSET RowSet] /\ \A v \in Workers \ {w} : rows'[v] = rows[v]
    BY <2>1, <2>2, <2>8, <2>11
  <2> HIDE DEF o, p, n
  <2> QED BY <2>10, <2>12, <2>13, <2>14, <2>15, <2>16, <2>17, ProceedOK
<1> QED BY <1>1, <1>2

LEMMA ReserveItemOK ==
    ASSUME OInv, IInv', NEW w \in Workers, ReserveItem(w)
    PROVE  OInv'
<1> DEFINE line == Head(tx[w].todo)
           p == line.product
           t == [tx[w] EXCEPT !.todo = Tail(tx[w].todo),
                              !.took[p] = tx[w].took[p] + line.quantity,
                              !.total = tx[w].total + products[p].price * line.quantity]
<1>1. CASE ~CanReserve(w, line)
  BY <1>1, RollbackOK DEF ReserveItem
<1>2. CASE CanReserve(w, line)
  <2>1. LockRow(w, ProductRow(p)) /\ Proceed(w, t) /\ UNCHANGED db
    BY <1>2 DEF ReserveItem
  <2>2. /\ tx[w] \in TxRecord /\ pc[w] = "reserve" /\ tx[w].used = 0 /\ tx[w].kind # "none"
        /\ tx[w].todo \in Seq(Line) /\ tx[w].todo # << >> /\ tx[w].total \in Nat
        /\ tx[w].took \in [Products -> Nat]
    BY DEF ReserveItem, OInv, IInv, TypeOK, TxRecord, Count, WorkerOK, Underway
  <2>3. line \in Line /\ Tail(tx[w].todo) \in Seq(Line)
    BY <2>2, HeadTailProperties
  <2>4. p \in Products /\ line.quantity \in Nat /\ products[p].status = "ACTIVE"
    BY <1>2, <2>3 DEF Line, CanReserve
  <2>5. t \in TxRecord
    <3>1. products[p].price * line.quantity \in Nat
      BY <2>4 DEF OInv, IInv, TypeOK, ProductRecord
    <3>2. [tx[w].took EXCEPT ![p] = tx[w].took[p] + line.quantity] \in Count
      BY <2>2, <2>4, AddUnits
    <3>3. t = [tx[w] EXCEPT !.todo = Tail(tx[w].todo),
                            !.took = [tx[w].took EXCEPT ![p] = tx[w].took[p] + line.quantity],
                            !.total = tx[w].total + products[p].price * line.quantity]
      BY <2>2 DEF TxRecord
    <3>4. tx[w].total + products[p].price * line.quantity \in Nat
      BY <2>2, <3>1
    <3> QED BY <2>2, <2>3, <3>2, <3>3, <3>4 DEF TxRecord
  <2>6. /\ t.kind = tx[w].kind /\ t.order = tx[w].order /\ t.code = tx[w].code
        /\ t.olds = tx[w].olds /\ t.back = tx[w].back /\ t.promo = tx[w].promo
        /\ t.took = [tx[w].took EXCEPT ![p] = tx[w].took[p] + line.quantity]
        /\ t.discount = tx[w].discount /\ t.used = 0
    BY <2>2 DEF TxRecord
  <2>7. t.total \in Nat
    BY <2>5 DEF TxRecord
  <2> HIDE DEF t
  <2>8. tx[w].kind # "cancel" /\ tx[w].olds = << >>
    BY <2>2 DEF OInv, RequestOK, TakenOnSale, PutBack
  <2>9. \A q \in Products : t.took[q] # 0 => products[q].status = "ACTIVE" /\ t.kind # "cancel"
    BY <2>2, <2>4, <2>6, <2>8 DEF OInv, RequestOK, TakenOnSale
  <2>10. /\ rows'[w] = rows[w] \cup {ProductRow(p)} /\ \A v \in Workers \ {w} : rows'[v] = rows[v]
         /\ rows' \in [Workers -> SUBSET RowSet]
    BY <2>1, <2>4 DEF LockRow, OInv, IInv, TypeOK, ProductRow, RowSet
  <2>11. \A c \in Promos : PromoRow(c) \notin rows'[w]
    BY <2>2, <2>10 DEF PromoRow, ProductRow, OInv, RequestOK, LocksInOrder
  <2>12. t.kind \in {"update", "cancel"} => /\ OrderRow(t.order) \in rows'[w]
                                            /\ Active(t.order)
                                            /\ t.code = orders[t.order].promo
    BY <2>2, <2>6, <2>10 DEF OInv, RequestOK, HoldsOrder, Changing
  <2>13. \A i \in 1 .. Len(t.olds) : FALSE
    BY <2>6, <2>8
  <2>14. \A q \in Products :
           t.back[q] = IF /\ t.kind \in {"update", "cancel"}
                          /\ ~ \E i \in 1 .. Len(t.olds) : t.olds[i] = q
                         THEN orders[t.order].items[q] ELSE 0
    BY <2>2, <2>6, <2>8, <2>13 DEF OInv, RequestOK, PutBack, Changing, Due
  <2>15. /\ Proceed(w, t) /\ UNCHANGED db /\ pc[w] # "commit"
         /\ t.promo = tx[w].promo /\ t.discount = tx[w].discount /\ t.used = 0
         /\ t.kind = "cancel" => t.todo = << >>
    BY <2>1, <2>2, <2>6, <2>8
  <2> HIDE DEF p, line
  <2> QED BY <2>5, <2>7, <2>9, <2>10, <2>11, <2>12, <2>13, <2>14, <2>15, ProceedOK
<1> QED BY <1>1, <1>2

\* A statement on the promo row decides which code is kept (q), for what
\* discount (d), and what that means for its uses (n).
Decided(w, q, d, n) ==
    /\ tx' = [tx EXCEPT ![w] = [tx[w] EXCEPT !.promo = q, !.discount = d, !.used = n]]
    /\ IF q = None
         THEN tx[w].kind # "create" /\ n = -1 /\ d = 0
         ELSE /\ tx[w].kind # "cancel" /\ q = tx[w].code
              /\ n = IF tx[w].kind = "create" THEN 1 ELSE 0
              /\ q \in issued /\ Terms[q].min <= tx[w].total
              /\ d \in CalcDiscount(Terms[q], tx[w].total)

LEMMA PromoOK ==
    ASSUME OInv, IInv', NEW w \in Workers, pc[w] = "promo",
           LockRow(w, PromoRow(tx[w].code)), Goto(w, "commit"), UNCHANGED db,
           NEW q, NEW d, NEW n, Decided(w, q, d, n)
    PROVE  OInv'
<1> DEFINE t == [tx[w] EXCEPT !.promo = q, !.discount = d, !.used = n]
<1>1. tx[w] \in TxRecord /\ tx[w].code \in Promos /\ tx[w].kind # "none"
  BY DEF OInv, IInv, TypeOK, WorkerOK, Underway
<1>2. /\ t.kind = tx[w].kind /\ t.order = tx[w].order /\ t.olds = tx[w].olds
      /\ t.todo = tx[w].todo /\ t.code = tx[w].code /\ t.back = tx[w].back
      /\ t.took = tx[w].took /\ t.total = tx[w].total
      /\ t.promo = q /\ t.discount = d /\ t.used = n
  BY <1>1 DEF TxRecord
<1>3. /\ tx'[w] = t /\ pc'[w] = "commit" /\ rows'[w] = rows[w] \cup {PromoRow(tx[w].code)}
      /\ OnlyMoves(w) /\ UNCHANGED db
  BY DEF Decided, Goto, LockRow, OnlyMoves, OInv, IInv, TypeOK
<1> HIDE DEF t
<1>4. Changing(w)' <=> Changing(w)
  BY <1>2, <1>3 DEF Changing
<1>5. HoldsOrder(w)'
  BY <1>2, <1>3, <1>4 DEF HoldsOrder, Active, db, OInv, RequestOK
<1>6. LocksInOrder(w)'
  BY <1>3 DEF LocksInOrder
<1>7. PutBack(w)'
  <2>1. tx[w].olds = << >>
    BY DEF OInv, RequestOK, PutBack
  <2>2. \A p \in Products : Due(w, p)' <=> Due(w, p)
    BY <1>2, <1>3 DEF Due
  <2>3. \A p \in Products :
          tx[w].back[p] = IF Changing(w) /\ ~Due(w, p) THEN orders[tx[w].order].items[p] ELSE 0
    BY DEF OInv, RequestOK, PutBack
  <2> QED BY <1>2, <1>3, <1>4, <2>1, <2>2, <2>3 DEF PutBack, db
<1>8. TakenOnSale(w)'
  BY <1>2, <1>3 DEF TakenOnSale, db, OInv, RequestOK
<1>9. Settled(w)'
  <2>1. Priced(tx[w])'
    BY <1>2, <1>3 DEF Priced, Decided, db
  <2>2. tx[w].code # None
    BY <1>1, RowsAssumption
  <2> QED BY <1>1, <1>2, <1>3, <2>1, <2>2 DEF Settled, Decided
<1>10. RequestOK(w)'
  BY <1>5, <1>6, <1>7, <1>8, <1>9 DEF RequestOK
<1> QED BY <1>3, <1>10, InsideStep

LEMMA NotBelow ==
    ASSUME NEW c \in Promos, NEW total \in Nat, FALSE \in BelowMinimum(Terms[c], total)
    PROVE  Terms[c].min <= total
<1>1. Terms[c].min \in Nat
  BY TermsAssumption
<1> QED BY <1>1 DEF BelowMinimum

LEMMA RedeemPromoOK ==
    ASSUME OInv, IInv', NEW w \in Workers, RedeemPromo(w)
    PROVE  OInv'
<1> DEFINE c == tx[w].code
<1>0. /\ pc[w] = "promo" /\ tx[w].kind = "create" /\ c \in Promos /\ tx[w].total \in Nat
      /\ c # None
  BY RowsAssumption DEF RedeemPromo, OInv, IInv, TypeOK, WorkerOK, Underway, TxRecord
<1>1. CASE Rollback(w)
  BY <1>1, RollbackOK
<1>2. CASE ~Rollback(w)
  <2>1. PICK d \in CalcDiscount(Terms[c], tx[w].total) :
           /\ Redeemable(c)
           /\ FALSE \in BelowMinimum(Terms[c], tx[w].total)
           /\ LockRow(w, PromoRow(c))
           /\ tx' = [tx EXCEPT ![w].promo = c, ![w].discount = d, ![w].used = 1]
           /\ Goto(w, "commit")
           /\ UNCHANGED db
    <3>1. PICK below \in BelowMinimum(Terms[c], tx[w].total) :
            IF Redeemable(c) /\ ~below
              THEN \E d \in CalcDiscount(Terms[c], tx[w].total) :
                     /\ LockRow(w, PromoRow(c))
                     /\ tx' = [tx EXCEPT ![w].promo = c, ![w].discount = d, ![w].used = 1]
                     /\ Goto(w, "commit")
                     /\ UNCHANGED db
              ELSE Rollback(w)
      BY DEF RedeemPromo
    <3>2. below \in BOOLEAN
      BY DEF BelowMinimum
    <3> QED BY <1>2, <3>1, <3>2
  <2>2. tx' = [tx EXCEPT ![w] = [tx[w] EXCEPT !.promo = c, !.discount = d, !.used = 1]]
    BY <2>1 DEF OInv, IInv, TypeOK
  <2>3. c \in issued /\ Terms[c].min <= tx[w].total
    BY <1>0, <2>1, NotBelow DEF Redeemable
  <2>4. Decided(w, c, d, 1)
    BY <1>0, <2>1, <2>2, <2>3 DEF Decided
  <2> QED BY <1>0, <2>1, <2>4, PromoOK
<1> QED BY <1>1, <1>2

\* Of a code an active order carries, a use is there to be given back.
LEMMA CarriedIsUsed ==
    ASSUME OInv, NEW o \in OrderIds, Active(o), orders[o].promo \in Promos
    PROVE  OneUseLess(orders[o].promo) = -1
<1> DEFINE c == orders[o].promo
           S == {i \in OrderIds : Active(i) /\ orders[i].promo = c}
<1>1. uses[c] = Cardinality(S) /\ uses[c] \in Nat
  BY DEF OInv, Ledger, PromoUsesExact, IInv, TypeOK
<1>2. IsFiniteSet(S)
  BY RowsAssumption, FS_Subset
<1>3. o \in S
  OBVIOUS
<1>4. Cardinality(S) # 0
  BY <1>2, <1>3, FS_EmptySet
<1> QED BY <1>1, <1>4 DEF OneUseLess

LEMMA ChangingAtPromo ==
    ASSUME OInv, NEW w \in Workers, pc[w] = "promo", tx[w].kind \in {"update", "cancel"}
    PROVE  /\ tx[w] \in TxRecord /\ tx[w].code \in Promos /\ tx[w].code # None
           /\ tx[w].total \in Nat /\ tx[w].promo = None /\ tx[w].discount = 0 /\ tx[w].used = 0
           /\ tx[w].code \in issued /\ OneUseLess(tx[w].code) = -1
<1>1. /\ tx[w] \in TxRecord /\ tx[w].code \in Promos /\ tx[w].order \in OrderIds
      /\ tx[w].total \in Nat /\ tx[w].used = 0
  BY DEF OInv, IInv, TypeOK, WorkerOK, Underway, TxRecord
<1>2. tx[w].promo = None /\ tx[w].discount = 0
  BY DEF OInv, RequestOK, Settled, Priced
<1>3. Active(tx[w].order) /\ tx[w].code = orders[tx[w].order].promo
  BY DEF OInv, RequestOK, HoldsOrder, Changing
<1>4. tx[w].code # None
  BY <1>1, RowsAssumption
<1>5. tx[w].code \in issued
  BY <1>1, <1>3, <1>4 DEF OInv, Ledger, Priced
<1> QED BY <1>1, <1>2, <1>3, <1>4, <1>5, CarriedIsUsed

LEMMA ReviewPromoOK ==
    ASSUME OInv, IInv', NEW w \in Workers, ReviewPromo(w)
    PROVE  OInv'
<1> DEFINE c == tx[w].code
<1>0. pc[w] = "promo" /\ tx[w].kind = "update" /\ tx \in [Workers -> TxRecord]
  BY DEF ReviewPromo, OInv, IInv, TypeOK
<1>1. LockRow(w, PromoRow(c)) /\ Goto(w, "commit") /\ UNCHANGED db
  BY DEF ReviewPromo
<1>2. CASE tx' = [tx EXCEPT ![w].used = OneUseLess(c)]
  <2>1. tx' = [tx EXCEPT ![w] = [tx[w] EXCEPT !.promo = None, !.discount = 0, !.used = -1]]
    <3>1. [tx[w] EXCEPT !.used = OneUseLess(c)] =
             [tx[w] EXCEPT !.promo = None, !.discount = 0, !.used = -1]
      BY <1>0, ChangingAtPromo DEF TxRecord
    <3> QED BY <1>0, <1>2, <3>1
  <2>2. Decided(w, None, 0, -1)
    BY <1>0, <2>1 DEF Decided
  <2> QED BY <1>0, <1>1, <2>2, PromoOK
<1>3. ASSUME NEW d \in CalcDiscount(Terms[c], tx[w].total), FALSE \in BelowMinimum(Terms[c], tx[w].total),
             tx' = [tx EXCEPT ![w].promo = c, ![w].discount = d]
      PROVE  OInv'
  <2>1. tx' = [tx EXCEPT ![w] = [tx[w] EXCEPT !.promo = c, !.discount = d, !.used = 0]]
    <3>1. [[tx[w] EXCEPT !.promo = c] EXCEPT !.discount = d] =
             [tx[w] EXCEPT !.promo = c, !.discount = d, !.used = 0]
      BY <1>0, ChangingAtPromo DEF TxRecord
    <3> QED BY <1>0, <1>3, <3>1
  <2>2. Terms[c].min <= tx[w].total
    BY <1>0, <1>3, ChangingAtPromo, NotBelow
  <2>3. Decided(w, c, d, 0)
    BY <1>0, <1>3, <2>1, <2>2, ChangingAtPromo DEF Decided
  <2> QED BY <1>0, <1>1, <2>3, PromoOK
<1>4. PICK below \in BelowMinimum(Terms[c], tx[w].total) :
        IF below
          THEN tx' = [tx EXCEPT ![w].used = OneUseLess(c)]
          ELSE \E d \in CalcDiscount(Terms[c], tx[w].total) :
                 tx' = [tx EXCEPT ![w].promo = c, ![w].discount = d]
  BY DEF ReviewPromo
<1>5. below \in BOOLEAN
  BY DEF BelowMinimum
<1> QED BY <1>2, <1>3, <1>4, <1>5

LEMMA ReturnPromoOK ==
    ASSUME OInv, IInv', NEW w \in Workers, ReturnPromo(w)
    PROVE  OInv'
<1> DEFINE c == tx[w].code
<1>0. pc[w] = "promo" /\ tx[w].kind = "cancel" /\ tx \in [Workers -> TxRecord]
  BY DEF ReturnPromo, OInv, IInv, TypeOK
<1>1. LockRow(w, PromoRow(c)) /\ Goto(w, "commit") /\ UNCHANGED db
  BY DEF ReturnPromo
<1>2. tx' = [tx EXCEPT ![w] = [tx[w] EXCEPT !.promo = None, !.discount = 0, !.used = -1]]
  <2>1. [tx[w] EXCEPT !.used = OneUseLess(c)] =
           [tx[w] EXCEPT !.promo = None, !.discount = 0, !.used = -1]
    BY <1>0, ChangingAtPromo DEF TxRecord
  <2> QED BY <1>0, <2>1 DEF ReturnPromo
<1>3. Decided(w, None, 0, -1)
  BY <1>0, <1>2 DEF Decided
<1> QED BY <1>0, <1>1, <1>3, PromoOK

-----------------------------------------------------------------------------
(* The commit: one order changes, with the units and the use it moves.      *)

\* What a request knows when it comes to its commit.
LEMMA AtCommit ==
    ASSUME OInv, NEW w \in Workers, pc[w] = "commit"
    PROVE  /\ tx[w] \in TxRecord /\ tx[w].kind \in {"create", "update", "cancel"}
           /\ tx[w].user \in Users
           /\ tx[w].kind \in {"update", "cancel"} =>
                /\ tx[w].order \in OrderIds /\ OrderRow(tx[w].order) \in rows[w]
                /\ Active(tx[w].order) /\ tx[w].code = orders[tx[w].order].promo
           /\ \A p \in Products :
                tx[w].back[p] = IF tx[w].kind = "create" THEN 0 ELSE orders[tx[w].order].items[p]
           /\ \A p \in Products : tx[w].took[p] # 0 => /\ products[p].status = "ACTIVE"
                                                       /\ tx[w].kind # "cancel"
           /\ Priced(tx[w]) /\ tx[w].promo \in {None, tx[w].code}
           /\ tx[w].used = IF tx[w].promo = None
                             THEN IF tx[w].code = None THEN 0 ELSE -1
                             ELSE IF tx[w].kind = "create" THEN 1 ELSE 0
           /\ tx[w].kind = "create" => tx[w].promo = tx[w].code
           /\ tx[w].kind = "cancel" => tx[w].promo = None
<1>1. /\ tx[w] \in TxRecord /\ tx[w].kind # "none" /\ tx[w].user \in Users
      /\ tx[w].kind \in {"update", "cancel"} => tx[w].order \in OrderIds
  BY DEF OInv, IInv, TypeOK, WorkerOK, Underway
<1>2. tx[w].kind \in {"create", "update", "cancel"}
  BY <1>1 DEF TxRecord
<1>3. Changing(w) <=> tx[w].kind # "create"
  BY <1>2 DEF Changing
<1>4. tx[w].kind \in {"update", "cancel"} =>
        /\ OrderRow(tx[w].order) \in rows[w]
        /\ Active(tx[w].order) /\ tx[w].code = orders[tx[w].order].promo
  BY <1>3 DEF OInv, RequestOK, HoldsOrder
<1>5. \A p \in Products : ~Due(w, p)
  BY DEF OInv, RequestOK, PutBack, Due
<1>6. \A p \in Products :
        tx[w].back[p] = IF tx[w].kind = "create" THEN 0 ELSE orders[tx[w].order].items[p]
  BY <1>3, <1>5 DEF OInv, RequestOK, PutBack
<1>7. \A p \in Products : tx[w].took[p] # 0 => products[p].status = "ACTIVE" /\ tx[w].kind # "cancel"
  BY DEF OInv, RequestOK, TakenOnSale
<1>8. /\ Priced(tx[w]) /\ tx[w].promo \in {None, tx[w].code}
      /\ tx[w].used = IF tx[w].promo = None
                        THEN IF tx[w].code = None THEN 0 ELSE -1
                        ELSE IF tx[w].kind = "create" THEN 1 ELSE 0
      /\ tx[w].kind = "create" => tx[w].promo = tx[w].code
      /\ tx[w].kind = "cancel" => tx[w].promo = None
  BY DEF OInv, RequestOK, Settled
<1> QED BY <1>1, <1>2, <1>4, <1>6, <1>7, <1>8

\* What the commit writes to the shelf and to the uses.
LEMMA CommitWrites ==
    ASSUME OInv, NEW w \in Workers, Commit(w)
    PROVE  /\ \A p \in Products :
                /\ products'[p] = [products[p] EXCEPT
                     !.stock = products[p].stock + tx[w].back[p] - tx[w].took[p]]
                /\ products'[p].status = products[p].status
                /\ products'[p].stock = products[p].stock + tx[w].back[p] - tx[w].took[p]
           /\ \A c \in Promos :
                uses'[c] = IF c = tx[w].code THEN uses[c] + tx[w].used ELSE uses[c]
           /\ issued' = issued /\ OnlyMoves(w) /\ RequestOK(w)'
<1>1. ASSUME NEW p \in Products
      PROVE  /\ products'[p] = [products[p] EXCEPT
                  !.stock = products[p].stock + tx[w].back[p] - tx[w].took[p]]
             /\ products'[p].status = products[p].status
             /\ products'[p].stock = products[p].stock + tx[w].back[p] - tx[w].took[p]
  <2>1. products[p] \in ProductRecord
    BY DEF OInv, IInv, TypeOK
  <2>2. products'[p] = [products[p] EXCEPT !.stock = Stock(w, p)]
    BY DEF Commit, StockWritten
  <2> QED BY <2>1, <2>2 DEF Stock, ProductRecord
<1>2. \A c \in Promos : uses'[c] = IF c = tx[w].code THEN uses[c] + tx[w].used ELSE uses[c]
  BY DEF Commit, UsesWritten
<1>3. issued' = issued /\ OnlyMoves(w) /\ RequestOK(w)'
  BY EndsIdle DEF Commit, OInv
<1> QED BY <1>1, <1>2, <1>3

\* Counting the active orders that carry a code, before and after one changes.
LEMMA CarriersChange ==
    ASSUME OInv, NEW o \in OrderIds, NEW new, orders' = [orders EXCEPT ![o] = new],
           NEW c \in Promos
    PROVE  Cardinality({i \in OrderIds : Active(i) /\ orders[i].promo = c})' =
             uses[c] + (IF new.status = "CREATED" /\ new.promo = c THEN 1 ELSE 0)
                     - (IF Active(o) /\ orders[o].promo = c THEN 1 ELSE 0)
<1> DEFINE S == {i \in OrderIds : Active(i) /\ orders[i].promo = c}
           Rest == S \ {o}
<1>1. uses[c] = Cardinality(S) /\ uses[c] \in Nat
  BY DEF OInv, Ledger, PromoUsesExact, IInv, TypeOK
<1>2. IsFiniteSet(S)
  BY RowsAssumption, FS_Subset
<1>3. IsFiniteSet(Rest) /\ Cardinality(Rest) = IF o \in S THEN Cardinality(S) - 1 ELSE Cardinality(S)
  BY <1>2, FS_RemoveElement
<1>4. Cardinality(Rest \cup {o}) = Cardinality(Rest) + 1
  BY <1>3, FS_AddElement
<1>5. o \in S <=> Active(o) /\ orders[o].promo = c
  OBVIOUS
<1>6. S' = IF new.status = "CREATED" /\ new.promo = c THEN Rest \cup {o} ELSE Rest
  <2>1. orders'[o] = new /\ \A i \in OrderIds \ {o} : orders'[i] = orders[i]
    BY DEF OInv, IInv, TypeOK
  <2>2. \A i \in OrderIds : i \in S' <=> orders'[i].status = "CREATED" /\ orders'[i].promo = c
    BY DEF Active
  <2>3. \A i \in OrderIds : i \in S <=> orders[i].status = "CREATED" /\ orders[i].promo = c
    BY DEF Active
  <2>4. S' \subseteq OrderIds /\ S \subseteq OrderIds
    OBVIOUS
  <2> HIDE DEF S
  <2> QED BY <2>1, <2>2, <2>3, <2>4
<1> HIDE DEF S, Rest
<1>7. Cardinality(S)' = uses[c] + (IF new.status = "CREATED" /\ new.promo = c THEN 1 ELSE 0)
                                - (IF o \in S THEN 1 ELSE 0)
  BY <1>1, <1>3, <1>4, <1>6
<1> QED BY <1>5, <1>7 DEF S

LEMMA CommitOK ==
    ASSUME OInv, IInv', NEW w \in Workers, Commit(w),
           NEW o \in OrderIds, NEW new, orders' = [orders EXCEPT ![o] = new],
           \A v \in Workers \ {w} : Changing(v) => tx[v].order # o,
           Priced(new),
           \A c \in Promos :
             (IF c = tx[w].code THEN tx[w].used ELSE 0) =
               (IF new.status = "CREATED" /\ new.promo = c THEN 1 ELSE 0)
               - (IF Active(o) /\ orders[o].promo = c THEN 1 ELSE 0)
    PROVE  OInv'
<1>1. PromoUsesExact'
  <2> SUFFICES ASSUME NEW c \in Promos
               PROVE  uses'[c] = Cardinality({i \in OrderIds : Active(i) /\ orders[i].promo = c})'
    BY DEF PromoUsesExact
  <2>1. uses[c] \in Nat /\ tx[w].used \in Int
    BY DEF OInv, IInv, TypeOK, TxRecord
  <2>2. uses'[c] = uses[c] + (IF c = tx[w].code THEN tx[w].used ELSE 0)
    BY <2>1, CommitWrites
  <2> DEFINE gained == IF new.status = "CREATED" /\ new.promo = c THEN 1 ELSE 0
             lost == IF Active(o) /\ orders[o].promo = c THEN 1 ELSE 0
             N == Cardinality({i \in OrderIds : Active(i) /\ orders[i].promo = c})
  <2>3. N' = uses[c] + gained - lost
    BY CarriersChange
  <2>4. (IF c = tx[w].code THEN tx[w].used ELSE 0) = gained - lost
    OBVIOUS
  <2>5. gained \in Int /\ lost \in Int
    OBVIOUS
  <2> HIDE DEF N, gained, lost
  <2>6. uses'[c] = N'
    BY <2>1, <2>2, <2>3, <2>4, <2>5
  <2> QED BY <2>6 DEF N
<1>2. \A i \in OrderIds : Priced(orders[i])'
  <2>1. orders'[o] = new /\ \A i \in OrderIds \ {o} : orders'[i] = orders[i]
    BY DEF OInv, IInv, TypeOK
  <2> QED BY <2>1, CommitWrites DEF Priced, OInv, Ledger
<1>3. ASSUME NEW v \in Workers PROVE RequestOK(v)'
  <2>1. CASE v = w
    BY <2>1, CommitWrites
  <2>2. CASE v # w
    <3>1. tx'[v] = tx[v] /\ pc'[v] = pc[v] /\ rows'[v] = rows[v]
      BY <2>2, CommitWrites DEF OnlyMoves
    <3>2. Changing(v) => orders'[tx[v].order] = orders[tx[v].order]
      BY <2>2 DEF OInv, IInv, TypeOK, WorkerOK, Underway, Changing
    <3>3. \A p \in Products : products'[p].status = products[p].status
      BY CommitWrites
    <3> QED BY <3>1, <3>2, <3>3, CommitWrites, Undisturbed DEF OInv
  <2> QED BY <2>1, <2>2
<1> QED BY <1>1, <1>2, <1>3 DEF OInv, Ledger

\* The order of an update or of a cancellation is nobody else's.
LEMMA OrderIsMine ==
    ASSUME OInv, NEW w \in Workers, NEW o \in OrderIds, OrderRow(o) \in rows[w] \/ ~Active(o)
    PROVE  \A v \in Workers \ {w} : Changing(v) => tx[v].order # o
BY DEF OInv, RequestOK, HoldsOrder, IInv, Exclusive

\* The three commits: what order is written, and what becomes of it.
LEMMA CommitCreateFacts ==
    ASSUME OInv, NEW w \in Workers, CommitCreate(w)
    PROVE  /\ pc[w] = "commit" /\ Commit(w) /\ Placed(w) \in OrderRecord
           /\ \E o \in OrderIds : /\ orders[o].status = "NONE"
                                  /\ orders' = [orders EXCEPT ![o] = Placed(w)]
<1>1. pc[w] = "commit" /\ Commit(w)
  BY DEF CommitCreate, Commit
<1>2. Placed(w) \in OrderRecord
  BY TookExists DEF Placed, OrderRecord, OrderStatus, OInv
<1> QED BY <1>1, <1>2 DEF CommitCreate

LEMMA CommitUpdateFacts ==
    ASSUME OInv, NEW w \in Workers, CommitUpdate(w), NEW o, o = tx[w].order
    PROVE  /\ pc[w] = "commit" /\ Commit(w) /\ o \in OrderIds /\ Active(o)
           /\ OrderRow(o) \in rows[w]
           /\ orders' = [orders EXCEPT ![o] = Revised(w, orders[o])]
           /\ Revised(w, orders[o]).status = "CREATED"
           /\ Revised(w, orders[o]).user = orders[o].user
           /\ Revised(w, orders[o]).created = orders[o].created
           /\ Revised(w, orders[o]).items = tx[w].took
           /\ Revised(w, orders[o]).total = tx[w].total
           /\ Revised(w, orders[o]).discount = tx[w].discount
           /\ Revised(w, orders[o]).promo = tx[w].promo
<1>1. /\ pc[w] = "commit" /\ Commit(w) /\ tx[w].kind = "update"
      /\ orders' = [orders EXCEPT ![o] = Revised(w, orders[o])]
  BY DEF CommitUpdate, Commit
<1>2. o \in OrderIds /\ Active(o) /\ OrderRow(o) \in rows[w]
  BY <1>1, AtCommit
<1>3. orders[o] \in OrderRecord /\ orders[o].status = "CREATED"
  BY <1>2 DEF OInv, IInv, TypeOK, Active
<1> QED BY <1>1, <1>2, <1>3 DEF Revised, OrderRecord

LEMMA CommitCancelFacts ==
    ASSUME OInv, NEW w \in Workers, CommitCancel(w), NEW o, o = tx[w].order
    PROVE  /\ pc[w] = "commit" /\ Commit(w) /\ o \in OrderIds /\ Active(o)
           /\ OrderRow(o) \in rows[w]
           /\ orders' = [orders EXCEPT ![o] = [orders[o] EXCEPT !.status = "CANCELED"]]
           /\ [orders[o] EXCEPT !.status = "CANCELED"].status = "CANCELED"
           /\ [orders[o] EXCEPT !.status = "CANCELED"].promo = orders[o].promo
           /\ [orders[o] EXCEPT !.status = "CANCELED"].discount = orders[o].discount
           /\ [orders[o] EXCEPT !.status = "CANCELED"].total = orders[o].total
<1>1. pc[w] = "commit" /\ Commit(w) /\ tx[w].kind = "cancel"
  BY DEF CommitCancel, Commit
<1>2. o \in OrderIds /\ Active(o) /\ OrderRow(o) \in rows[w]
  BY <1>1, AtCommit
<1>3. orders' = [orders EXCEPT ![o] = [orders[o] EXCEPT !.status = "CANCELED"]]
  BY DEF CommitCancel
<1>4. orders[o] \in OrderRecord
  BY <1>2 DEF OInv, IInv, TypeOK
<1> QED BY <1>1, <1>2, <1>3, <1>4 DEF OrderRecord

LEMMA CommitCreateOK ==
    ASSUME OInv, IInv', NEW w \in Workers, CommitCreate(w)
    PROVE  OInv'
<1>1. PICK o \in OrderIds : /\ orders[o].status = "NONE"
                            /\ orders' = [orders EXCEPT ![o] = Placed(w)]
  BY CommitCreateFacts
<1>2. /\ Placed(w).status = "CREATED" /\ Placed(w).promo = tx[w].promo
      /\ Placed(w).total = tx[w].total /\ Placed(w).discount = tx[w].discount
  BY DEF Placed
<1>3. Priced(Placed(w))
  BY <1>2, CommitCreateFacts, AtCommit DEF Priced
<1>4. ~Active(o)
  BY <1>1 DEF Active
<1>5. \A c \in Promos :
        (IF c = tx[w].code THEN tx[w].used ELSE 0) =
          (IF Placed(w).status = "CREATED" /\ Placed(w).promo = c THEN 1 ELSE 0)
          - (IF Active(o) /\ orders[o].promo = c THEN 1 ELSE 0)
  <2>1. pc[w] = "commit"
    BY CommitCreateFacts
  <2>2. tx[w].kind = "create"
    BY DEF CommitCreate
  <2>3. /\ tx[w].promo = tx[w].code
        /\ tx[w].used = IF tx[w].code = None THEN 0 ELSE 1
    BY <2>1, <2>2, AtCommit
  <2> SUFFICES ASSUME NEW c \in Promos
               PROVE  (IF c = tx[w].code THEN tx[w].used ELSE 0) =
                        (IF tx[w].promo = c THEN 1 ELSE 0) - 0
    BY <1>2, <1>4
  <2>4. c # None
    BY RowsAssumption
  <2> QED BY <2>3, <2>4
<1>6. \A v \in Workers \ {w} : Changing(v) => tx[v].order # o
  BY <1>4, OrderIsMine
<1> QED BY <1>1, <1>3, <1>5, <1>6, CommitCreateFacts, CommitOK

LEMMA CommitUpdateOK ==
    ASSUME OInv, IInv', NEW w \in Workers, CommitUpdate(w)
    PROVE  OInv'
<1> DEFINE o == tx[w].order
           new == Revised(w, orders[o])
<1>0. tx[w].kind = "update"
  BY DEF CommitUpdate
<1>1. /\ pc[w] = "commit" /\ Commit(w) /\ o \in OrderIds /\ Active(o)
      /\ OrderRow(o) \in rows[w] /\ tx[w].kind = "update"
      /\ orders' = [orders EXCEPT ![o] = new]
      /\ new.status = "CREATED" /\ new.total = tx[w].total
      /\ new.discount = tx[w].discount /\ new.promo = tx[w].promo
  BY <1>0, CommitUpdateFacts
<1> HIDE DEF new
<1>2. Priced(new)
  BY <1>1, AtCommit DEF Priced
<1>3. \A c \in Promos :
        (IF c = tx[w].code THEN tx[w].used ELSE 0) =
          (IF new.status = "CREATED" /\ new.promo = c THEN 1 ELSE 0)
          - (IF Active(o) /\ orders[o].promo = c THEN 1 ELSE 0)
  BY <1>1, AtCommit, RowsAssumption
<1>4. \A v \in Workers \ {w} : Changing(v) => tx[v].order # o
  BY <1>1, OrderIsMine
<1> QED BY <1>1, <1>2, <1>3, <1>4, CommitOK

LEMMA CommitCancelOK ==
    ASSUME OInv, IInv', NEW w \in Workers, CommitCancel(w)
    PROVE  OInv'
<1> DEFINE o == tx[w].order
           new == [orders[o] EXCEPT !.status = "CANCELED"]
<1>1. /\ pc[w] = "commit" /\ Commit(w) /\ o \in OrderIds /\ Active(o)
      /\ OrderRow(o) \in rows[w] /\ tx[w].kind = "cancel"
      /\ orders' = [orders EXCEPT ![o] = new]
      /\ new.status = "CANCELED" /\ new.total = orders[o].total
      /\ new.discount = orders[o].discount /\ new.promo = orders[o].promo
  BY CommitCancelFacts DEF CommitCancel
<1> HIDE DEF new
<1>2. Priced(new)
  BY <1>1 DEF Priced, OInv, Ledger
<1>3. \A c \in Promos :
        (IF c = tx[w].code THEN tx[w].used ELSE 0) =
          (IF new.status = "CREATED" /\ new.promo = c THEN 1 ELSE 0)
          - (IF Active(o) /\ orders[o].promo = c THEN 1 ELSE 0)
  BY <1>1, AtCommit, RowsAssumption
<1>4. \A v \in Workers \ {w} : Changing(v) => tx[v].order # o
  BY <1>1, OrderIsMine
<1> QED BY <1>1, <1>2, <1>3, <1>4, CommitOK

-----------------------------------------------------------------------------
(* Every step keeps the invariant.                                          *)

\* A step that no request takes: one product row may change that nobody holds,
\* or keeps its status; codes may be issued.
LEMMA OutsideStep ==
    ASSUME OInv, IInv', UNCHANGED <<uses, orders, pc, tx, rows>>, issued \subseteq issued',
           \A w \in Workers, p \in Products :
             ProductRow(p) \in rows[w] => products'[p].status = products[p].status
    PROVE  OInv'
<1>1. Ledger'
  BY DEF OInv, Ledger, PromoUsesExact, Priced, Active
<1>2. ASSUME NEW v \in Workers PROVE RequestOK(v)'
  BY Undisturbed DEF OInv
<1> QED BY <1>1, <1>2 DEF OInv

LEMMA CatalogRequestOK ==
    ASSUME OInv, IInv', CatalogRequest
    PROVE  OInv'
<1> USE DEF others
<1>1. ASSUME NEW u \in Users, NEW p \in Products, NEW row \in NewRows, CreateProduct(u, p, row)
      PROVE  OInv'
  <2>1. \A w \in Workers : ProductRow(p) \notin rows[w]
    BY <1>1 DEF CreateProduct, OInv, IInv, WorkerOK, Covered
  <2>2. \A q \in Products \ {p} : products'[q] = products[q]
    BY <1>1 DEF CreateProduct, OInv, IInv, TypeOK
  <2> QED BY <1>1, <2>1, <2>2, OutsideStep DEF CreateProduct
<1>2. ASSUME NEW u \in Users, NEW p \in Products, NEW e \in Editors, NEW body \in Bodies,
             BeginEdit(e, u, p, body)
      PROVE  OInv'
  BY <1>2, OutsideStep DEF BeginEdit
<1>3. ASSUME NEW u \in Users, NEW p \in Products, DeleteProduct(u, p)
      PROVE  OInv'
  <2>1. \A q \in Products \ {p} : products'[q] = products[q]
    BY <1>3 DEF DeleteProduct, OInv, IInv, TypeOK
  <2> QED BY <1>3, <2>1, OutsideStep DEF DeleteProduct, Unlocked
<1>4. ASSUME NEW u \in Users, NEW c \in Promos, CreatePromoCode(u, c)
      PROVE  OInv'
  BY <1>4, OutsideStep DEF CreatePromoCode
<1> QED BY <1>1, <1>2, <1>3, <1>4 DEF CatalogRequest

LEMMA CatalogStepOK ==
    ASSUME OInv, IInv', CatalogStep
    PROVE  OInv'
<1> USE DEF others
<1>1. ASSUME NEW e \in Editors, WriteProduct(e)
      PROVE  OInv'
  <2>1. \A q \in Products : q # edits[e].product => products'[q] = products[q]
    BY <1>1 DEF WriteProduct, OInv, IInv, TypeOK
  <2> QED BY <1>1, <2>1, OutsideStep DEF WriteProduct, Unlocked
<1>2. ASSUME NEW e \in Editors, EditFails(e)
      PROVE  OInv'
  BY <1>2, OutsideStep DEF EditFails
<1> QED BY <1>1, <1>2 DEF CatalogStep

LEMMA StatementOK ==
    ASSUME OInv, IInv', NEW w \in Workers, Statement(w)
    PROVE  OInv'
<1>1. CASE CreateRateLimit(w)
  BY <1>1, RollbackOK, AdvanceOK DEF CreateRateLimit
<1>2. CASE CheckNoActiveOrder(w)
  BY <1>2, RollbackOK, AdvanceOK DEF CheckNoActiveOrder, OInv, RequestOK, LocksInOrder
<1>3. CASE UpdateLockOrder(w) \/ UpdateRateLimit(w) \/ CancelLockOrder(w)
  BY <1>3, UpdateLockOrderOK, UpdateRateLimitOK, CancelLockOrderOK
<1>4. CASE ReleaseItem(w) \/ ReserveItem(w)
  BY <1>4, ReleaseItemOK, ReserveItemOK
<1>5. CASE RedeemPromo(w) \/ ReviewPromo(w) \/ ReturnPromo(w)
  BY <1>5, RedeemPromoOK, ReviewPromoOK, ReturnPromoOK
<1>6. CASE CommitCreate(w) \/ CommitUpdate(w) \/ CommitCancel(w)
  BY <1>6, CommitCreateOK, CommitUpdateOK, CommitCancelOK
<1> QED BY <1>1, <1>2, <1>3, <1>4, <1>5, <1>6 DEF Statement

LEMMA InitOrders == Init => OInv
<1> SUFFICES ASSUME Init PROVE OInv
  OBVIOUS
<1>1. IInv
  BY InitInvariant
<1>2. \A o \in OrderIds : Priced(orders[o]) /\ ~Active(o)
  BY DEF Init, NoOrder, Priced, Active
<1>3. PromoUsesExact
  <2> SUFFICES ASSUME NEW c \in Promos
               PROVE  uses[c] = Cardinality({o \in OrderIds : Active(o) /\ orders[o].promo = c})
    BY DEF PromoUsesExact
  <2>1. {o \in OrderIds : Active(o) /\ orders[o].promo = c} = {}
    BY <1>2
  <2> QED BY <2>1, FS_EmptySet DEF Init
<1>4. ASSUME NEW w \in Workers PROVE RequestOK(w)
  <2>1. tx[w] = NoTx /\ pc[w] = "idle" /\ rows[w] = {}
    BY DEF Init
  <2>2. HoldsOrder(w) /\ LocksInOrder(w)
    BY <2>1 DEF HoldsOrder, Changing, LocksInOrder
  <2>3. PutBack(w) /\ TakenOnSale(w)
    BY <2>1 DEF PutBack, TakenOnSale, Changing, NoTx, NoQuantity
  <2>4. Settled(w)
    BY <2>1 DEF Settled, Priced, NoTx
  <2> QED BY <2>2, <2>3, <2>4 DEF RequestOK
<1> QED BY <1>1, <1>2, <1>3, <1>4 DEF OInv, Ledger

LEMMA NextOrders == OInv /\ [Next]_vars => OInv'
<1> SUFFICES ASSUME OInv, [Next]_vars PROVE OInv'
  OBVIOUS
<1>0. IInv'
  BY NextInvariant DEF OInv
<1>1. ASSUME NEW w \in Workers, OrderRequest(w) PROVE OInv'
  BY <1>0, <1>1, OrderRequestOK
<1>2. ASSUME NEW w \in Workers, Serve(w) PROVE OInv'
  BY <1>0, <1>2, StatementOK DEF Serve
<1>3. ASSUME NEW w \in Workers, Abort(w) PROVE OInv'
  BY <1>0, <1>3, RollbackOK DEF Abort, DeadlockVictim, Interrupt
<1>4. CASE CatalogRequest \/ CatalogStep
  BY <1>0, <1>4, CatalogRequestOK, CatalogStepOK
<1>5. CASE Tick
  BY <1>0, <1>5, OutsideStep DEF Tick
<1>6. CASE UNCHANGED vars
  BY <1>0, <1>6, OutsideStep DEF vars
<1> QED BY <1>1, <1>2, <1>3, <1>4, <1>5, <1>6 DEF Next, OrdersNext

\* What requests know while they run, and that the ledger is right, holds in
\* every reachable state.
THEOREM OrdersInvariance == Spec => []OInv
  BY InitOrders, NextOrders, PTL DEF Spec

-----------------------------------------------------------------------------
(* What follows from it.                                                    *)

\* The uses counted at a promo code are the active orders that carry it: in no
\* interleaving of creations, updates, cancellations and failures is a use
\* taken or given back twice, or forgotten.
THEOREM PromoUsesExactHolds == Spec => []PromoUsesExact
<1>1. OInv => PromoUsesExact
  BY DEF OInv, Ledger
<1> QED BY <1>1, OrdersInvariance, PTL

\* The discount an order carries, however often it was updated, is one its own
\* total and promo code justify, never more than 70 per cent or the fixed
\* amount, and only when its total reaches the minimum.
THEOREM DiscountJustifiedHolds == Spec => []DiscountJustified
<1>1. OInv => DiscountJustified
  <2> SUFFICES ASSUME OInv, NEW o \in OrderIds, orders[o].promo # None
               PROVE  LET d == orders[o].discount
                          t == orders[o].total
                          terms == Terms[orders[o].promo]
                      IN  /\ terms.min <= t /\ d <= t
                          /\ IF terms.type = "PERCENTAGE" THEN 10 * d <= 7 * t + 5
                                                         ELSE d <= terms.value
    BY DEF DiscountJustified, OInv, Ledger, Priced
  <2> DEFINE d == orders[o].discount
             t == orders[o].total
             terms == Terms[orders[o].promo]
  <2>1. terms.min <= t /\ d \in CalcDiscount(terms, t)
    BY DEF OInv, Ledger, Priced
  <2>2. orders[o].promo \in Promos /\ t \in Nat
    BY DEF OInv, IInv, TypeOK, OrderRecord
  <2>3. terms.value \in Nat
    BY <2>2, TermsAssumption
  <2> HIDE DEF d, t, terms
  <2>4. /\ d \in 0 .. t
        /\ terms.type = "PERCENTAGE" => 10 * d <= 7 * t + 5
        /\ terms.type # "PERCENTAGE" => d <= terms.value
    BY <2>1, <2>2, <2>3, DiscountBounded
  <2>5. d <= t
    BY <2>2, <2>4
  <2> QED BY <2>1, <2>4, <2>5 DEF d, t, terms
<1> QED BY <1>1, OrdersInvariance, PTL

\* A transaction that is waited for holds a row, and one that holds a row waits
\* for nothing but a product or a promo row; a promo row is held at the commit.
LEMMA WaitersAtProducts ==
    ASSUME OInv, NEW S \in SUBSET Workers, WaitCycle(S), NEW w \in S
    PROVE  pc[w] \in {"release", "reserve"}
<1>1. PICK v \in S : WaitsOn(w, v)
  BY DEF WaitCycle
<1>2. PICK x \in S : WaitsOn(v, x)
  BY DEF WaitCycle
<1>3. PICK y \in S : WaitsOn(y, w)
  BY DEF WaitCycle
<1>4. rows[w] # {}
  BY <1>3 DEF WaitsOn
<1>5. pc[w] # "lock"
  BY <1>4 DEF OInv, RequestOK, LocksInOrder
<1>6. pc[w] \in {"lock", "release", "reserve", "promo"}
  BY <1>1 DEF WaitsOn, Wanted
<1>7. pc[v] \in {"lock", "release", "reserve", "promo"}
  BY <1>2 DEF WaitsOn, Wanted
<1>8. pc[w] # "promo"
  <2> SUFFICES ASSUME pc[w] = "promo" PROVE FALSE
    OBVIOUS
  <2>1. PromoRow(tx[w].code) \in rows[v]
    BY <1>1 DEF WaitsOn, Wanted
  <2>2. tx[w].code \in Promos
    BY DEF OInv, IInv, WorkerOK, Underway
  <2> QED BY <1>7, <2>1, <2>2 DEF OInv, RequestOK, LocksInOrder
<1> QED BY <1>5, <1>6, <1>8

\* Only the order in which product rows are locked can make transactions wait
\* for one another: order rows are locked first and promo rows last.
THEOREM DeadlocksOverProductsHolds == Spec => []DeadlocksOverProducts
<1>1. OInv => DeadlocksOverProducts
  BY WaitersAtProducts DEF DeadlocksOverProducts
<1> QED BY <1>1, OrdersInvariance, PTL

\* Among requests that all wait, some wait for one another: of the sets whose
\* members each wait for a member, a smallest one has nobody that is not waited
\* for.
LEMMA WaitersCircle ==
    ASSUME IsFiniteSet(Workers), NEW W \in SUBSET Workers, W # {},
           \A w \in W : \E v \in W : WaitsOn(w, v)
    PROVE  \E S \in SUBSET Workers : S # {} /\ WaitCycle(S)
<1> DEFINE Stuck == {S \in SUBSET Workers : S # {} /\ \A w \in S : \E v \in S : WaitsOn(w, v)}
<1>1. W \in Stuck /\ Stuck \subseteq SUBSET Workers
  OBVIOUS
<1>2. IsWellFoundedOn(StrictSubsetOrdering(Workers), SUBSET Workers)
  BY FS_StrictSubsetOrderingWellFounded, FS_FiniteSubsetsOfFinite
<1> HIDE DEF Stuck
<1>3. PICK S \in Stuck : \A T \in Stuck : <<T, S>> \notin StrictSubsetOrdering(Workers)
  BY <1>1, <1>2, WFMin
<1>4. /\ S \in SUBSET Workers /\ S # {}
      /\ \A w \in S : \E v \in S : WaitsOn(w, v)
  BY <1>3 DEF Stuck
<1>5. ASSUME NEW w \in S, \A v \in S : ~WaitsOn(v, w)
      PROVE  FALSE
  <2>1. PICK T : T = S \ {w}
    OBVIOUS
  <2>2. PICK v \in S : WaitsOn(w, v)
    BY <1>4
  <2>3. v \in T
    BY <2>1, <2>2 DEF WaitsOn
  <2>4. \A x \in T : \E y \in T : WaitsOn(x, y)
    BY <1>4, <1>5, <2>1
  <2>5. T \in Stuck
    BY <1>4, <2>1, <2>3, <2>4 DEF Stuck
  <2>6. <<T, S>> \in StrictSubsetOrdering(Workers)
    BY <1>4, <2>1 DEF StrictSubsetOrdering
  <2> QED BY <1>3, <2>5, <2>6
<1> QED BY <1>4, <1>5 DEF WaitCycle

\* Rows are locked by requests under way only, so however many there are and
\* whatever they wait for, one of them can get its row, or Postgres finds a
\* deadlock to break.
THEOREM NoStandstillHolds ==
    ASSUME IsFiniteSet(Workers)
    PROVE  Spec => []NoStandstill
<1>1. ASSUME IInv PROVE NoStandstill
  <2> DEFINE W == {w \in Workers : pc[w] # "idle"}
  <2>1. SUFFICES ASSUME W # {}, \A w \in W : \E v \in Workers : WaitsOn(w, v)
                 PROVE  \E S \in SUBSET Workers : S # {} /\ WaitCycle(S)
    BY DEF NoStandstill
  <2>2. ASSUME NEW w \in W, NEW v \in Workers, WaitsOn(w, v) PROVE v \in W
    BY <1>1, <2>2 DEF WaitsOn, IInv, WorkerOK, Underway
  <2>3. W \in SUBSET Workers /\ \A w \in W : \E v \in W : WaitsOn(w, v)
    BY <2>1, <2>2
  <2> HIDE DEF W
  <2> QED BY <2>1, <2>3, WaitersCircle
<1>2. IInv => NoStandstill
  BY <1>1
<1> QED BY <1>2, Invariance, PTL

-----------------------------------------------------------------------------
(* The kinds of step there are, as the tables see them.                     *)

Commits(w) == CommitCreate(w) \/ CommitUpdate(w) \/ CommitCancel(w)

\* Before its commit, a request changes no table.
LEMMA StatementKinds ==
    ASSUME NEW w \in Workers, Statement(w)
    PROVE  Commits(w) \/ UNCHANGED db
<1>1. CASE CreateRateLimit(w) \/ CheckNoActiveOrder(w)
  BY <1>1 DEF CreateRateLimit, CheckNoActiveOrder, Rollback, Advance
<1>2. CASE UpdateLockOrder(w) \/ UpdateRateLimit(w) \/ CancelLockOrder(w)
  BY <1>2 DEF UpdateLockOrder, UpdateRateLimit, CancelLockOrder, Rollback
<1>3. CASE ReleaseItem(w) \/ ReserveItem(w)
  BY <1>3 DEF ReleaseItem, ReserveItem, Rollback
<1>4. CASE RedeemPromo(w)
  BY <1>4 DEF RedeemPromo, Rollback
<1>5. CASE ReviewPromo(w) \/ ReturnPromo(w)
  BY <1>5 DEF ReviewPromo, ReturnPromo
<1>6. CASE Commits(w)
  BY <1>6
<1> QED BY <1>1, <1>2, <1>3, <1>4, <1>5, <1>6 DEF Statement, Commits

LEMMA NextKinds ==
    ASSUME [Next]_vars
    PROVE  \/ UNCHANGED db
           \/ \E w \in Workers : Commits(w)
           \/ CatalogRequest \/ CatalogStep
<1>1. ASSUME NEW w \in Workers, OrderRequest(w) PROVE UNCHANGED db
  BY <1>1 DEF OrderRequest, BeginCreate, BeginUpdate, BeginCancel, Begin, unserved, db
<1>2. ASSUME NEW w \in Workers, Serve(w) PROVE Commits(w) \/ UNCHANGED db
  BY <1>2, StatementKinds DEF Serve
<1>3. ASSUME NEW w \in Workers, Abort(w) PROVE UNCHANGED db
  BY <1>3 DEF Abort, DeadlockVictim, Interrupt, Rollback
<1>4. CASE Tick
  BY <1>4 DEF Tick, db
<1>5. CASE UNCHANGED vars
  BY <1>5 DEF vars, db
<1> QED BY <1>1, <1>2, <1>3, <1>4, <1>5 DEF Next, OrdersNext

\* No catalog request touches an order, a use of a code or a transaction.
LEMMA CatalogLeavesOrders ==
    ASSUME CatalogRequest \/ CatalogStep
    PROVE  UNCHANGED <<uses, orders, ops, now, pc, tx, rows>>
<1>1. CASE CatalogRequest
  BY <1>1 DEF CatalogRequest, CreateProduct, BeginEdit, DeleteProduct, CreatePromoCode, others
<1>2. CASE CatalogStep
  BY <1>2 DEF CatalogStep, WriteProduct, EditFails, others
<1> QED BY <1>1, <1>2

-----------------------------------------------------------------------------
(* The marketplace implements the order book.                               *)

\* The shelf and the uses left follow from the tables alone.
LEMMA BookStutter == UNCHANGED db => UNCHANGED Book!vars
  BY DEF db, Book!vars, Shelf, UsesLeft

LEMMA SamePrices ==
    ASSUME NEW r, Priced(r)
    PROVE  Book!Priced(r)
BY DEF Priced, Book!Priced, CalcDiscount, NearestCent, PercentOff, Smaller,
       Book!CalcDiscount, Book!NearestCent, Book!PercentOff, Book!Smaller

\* A commit moves the units put back and the units taken, and nothing else.
LEMMA CommitMovesUnits ==
    ASSUME OInv, NEW w \in Workers, Commit(w), NEW back, NEW taken,
           \A p \in Products : back[p] = tx[w].back[p] /\ taken[p] = tx[w].took[p]
    PROVE  Book!MoveUnits(back, taken)
<1>1. ASSUME NEW p \in Products
      PROVE  Shelf'[p] = [Shelf[p] EXCEPT !.units = Shelf[p].units + back[p] - taken[p]]
  <2>1. /\ products'[p].status = products[p].status
        /\ products'[p].stock = products[p].stock + back[p] - taken[p]
    <3>1. /\ products'[p].status = products[p].status
          /\ products'[p].stock = products[p].stock + tx[w].back[p] - tx[w].took[p]
      BY CommitWrites
    <3>2. back[p] = tx[w].back[p] /\ taken[p] = tx[w].took[p]
      OBVIOUS
    <3> QED BY <3>1, <3>2
  <2>2. Shelf'[p] = [open |-> products'[p].status = "ACTIVE", units |-> products'[p].stock]
    BY DEF Shelf
  <2>3. Shelf[p] = [open |-> products[p].status = "ACTIVE", units |-> products[p].stock]
    BY DEF Shelf
  <2> HIDE DEF Shelf
  <2> QED BY <2>1, <2>2, <2>3
<1>2. Shelf' = [p \in Products |->
                  [Shelf[p] EXCEPT !.units = Shelf[p].units + back[p] - taken[p]]]
  BY <1>1 DEF Shelf
<1> QED BY <1>2 DEF Book!MoveUnits

\* What is taken was there, on sale.
LEMMA CommitSells ==
    ASSUME OInv, NEW w \in Workers, pc[w] = "commit", NEW back,
           \A p \in Products : back[p] = tx[w].back[p]
    PROVE  Book!Sellable(tx[w].took, back)
<1> SUFFICES ASSUME NEW p \in Products, tx[w].took[p] > 0
             PROVE  Shelf[p].open /\ tx[w].took[p] <= Shelf[p].units + back[p]
  BY DEF Book!Sellable
<1>1. products[p].status = "ACTIVE"
  BY AtCommit
<1>2. Stock(w, p) \in 0 .. MaxInt
  BY DEF OInv, IInv, WorkerOK, Covered
<1>3. products[p].stock \in Int /\ tx[w].took[p] \in Int /\ tx[w].back[p] \in Int
  BY RowsAssumption DEF OInv, IInv, TypeOK, ProductRecord, TxRecord, Count
<1>4. tx[w].took[p] <= products[p].stock + tx[w].back[p]
  BY <1>2, <1>3, RowsAssumption DEF Stock
<1> QED BY <1>1, <1>4 DEF Shelf

\* The uses left of a code after a commit.
LEMMA CommitMovesUses ==
    ASSUME OInv, NEW w \in Workers, Commit(w)
    PROVE  UsesLeft' = [c \in Promos |->
                          IF c \in issued
                            THEN Terms[c].max - (uses[c] + IF c = tx[w].code THEN tx[w].used ELSE 0)
                            ELSE None]
<1>1. ASSUME NEW c \in Promos
      PROVE  uses'[c] = uses[c] + IF c = tx[w].code THEN tx[w].used ELSE 0
  <2>1. uses[c] \in Nat
    BY DEF OInv, IInv, TypeOK
  <2> QED BY <2>1, CommitWrites
<1> QED BY <1>1, CommitWrites DEF UsesLeft

LEMMA UsesKept ==
    ASSUME OInv, NEW w \in Workers, Commit(w), tx[w].used = 0
    PROVE  UsesLeft' = UsesLeft
<1>1. ASSUME NEW c \in Promos
      PROVE  uses[c] + (IF c = tx[w].code THEN tx[w].used ELSE 0) = uses[c]
  BY DEF OInv, IInv, TypeOK
<1> QED BY <1>1, CommitMovesUses DEF UsesLeft

LEMMA UseMoved ==
    ASSUME OInv, NEW w \in Workers, Commit(w), NEW c \in Promos, c = tx[w].code, c \in issued
    PROVE  /\ UsesLeft[c] \in Int
           /\ UsesLeft' = [UsesLeft EXCEPT ![c] = UsesLeft[c] - tx[w].used]
<1>1. /\ Terms[c].max \in Nat /\ tx[w].used \in Int
      /\ \A i \in Promos : uses[i] \in Nat
  BY TermsOK DEF OInv, IInv, TypeOK, TxRecord
<1>2. UsesLeft[c] = Terms[c].max - uses[c]
  BY DEF UsesLeft
<1>3. Terms[c].max - (uses[c] + tx[w].used) = UsesLeft[c] - tx[w].used
  BY <1>1, <1>2
<1>4. \A i \in Promos : i # c => uses[i] + (IF i = tx[w].code THEN tx[w].used ELSE 0) = uses[i]
  BY <1>1
<1>5. ASSUME NEW i \in Promos
      PROVE  UsesLeft'[i] = [UsesLeft EXCEPT ![c] = UsesLeft[c] - tx[w].used][i]
  <2>1. UsesLeft'[i] = IF i \in issued
                         THEN Terms[i].max - (uses[i] + IF i = tx[w].code THEN tx[w].used ELSE 0)
                         ELSE None
    BY CommitMovesUses
  <2>2. CASE i = c
    BY <2>1, <2>2, <1>3 DEF UsesLeft
  <2>3. CASE i # c
    BY <2>1, <2>3, <1>4 DEF UsesLeft
  <2> QED BY <2>2, <2>3
<1>6. UsesLeft' = [UsesLeft EXCEPT ![c] = UsesLeft[c] - tx[w].used]
  BY <1>5 DEF UsesLeft
<1> QED BY <1>1, <1>2, <1>6

\* Each commit is one step of the order book.
LEMMA CommitPlaces ==
    ASSUME OInv, NEW w \in Workers, CommitCreate(w)
    PROVE  \E o \in OrderIds : Book!Place(o)
<1>1. pc[w] = "commit" /\ Commit(w)
  BY CommitCreateFacts
<1>2. tx[w].kind = "create"
  BY DEF CommitCreate
<1>3. PICK o \in OrderIds : /\ orders[o].status = "NONE"
                            /\ orders' = [orders EXCEPT ![o] = Placed(w)]
  BY CommitCreateFacts
<1> DEFINE new == orders'[o]
<1>4. new = Placed(w)
  BY <1>3 DEF OInv, IInv, TypeOK
<1>5. /\ new.status = "CREATED" /\ new.user = tx[w].user /\ new.items = tx[w].took
      /\ new.promo = tx[w].promo /\ new.total = tx[w].total /\ new.discount = tx[w].discount
  BY <1>4 DEF Placed
<1>6. Book!Becomes(o, new)
  BY <1>3, <1>4 DEF Book!Becomes
<1>7. \A p \in Products : Book!Nothing[p] = tx[w].back[p]
  BY <1>1, <1>2, AtCommit DEF Book!Nothing
<1> HIDE DEF new
<1>8. Book!Sellable(new.items, Book!Nothing)
  BY <1>1, <1>5, <1>7, CommitSells
<1>9. Priced(tx[w]) /\ tx[w].user \in Users
  BY <1>1, AtCommit
<1>10. Book!Priced(new)
  BY <1>5, <1>9, SamePrices DEF Priced
<1>11. Book!MoveUnits(Book!Nothing, new.items)
  BY <1>1, <1>5, <1>7, CommitMovesUnits
<1>12. IF new.promo = None
         THEN UsesLeft' = UsesLeft
         ELSE /\ UsesLeft[new.promo] \in Nat \ {0}
              /\ UsesLeft' = [UsesLeft EXCEPT ![new.promo] = UsesLeft[new.promo] - 1]
  <2>1. tx[w].promo = tx[w].code /\ tx[w].used = IF tx[w].promo = None THEN 0 ELSE 1
    BY <1>1, <1>2, AtCommit
  <2>2. CASE new.promo = None
    BY <2>1, <2>2, <1>1, <1>5, UsesKept
  <2>3. CASE new.promo # None
    <3> DEFINE c == tx[w].code
    <3>1. c # None /\ c = new.promo /\ c \in issued /\ tx[w].used = 1
      BY <2>1, <2>3, <1>5, <1>9 DEF Priced
    <3>2. c \in Promos /\ uses[c] + 1 <= Terms[c].max
      BY <3>1, TermsOK DEF OInv, IInv, WorkerOK, UseCovered
    <3>3. uses[c] \in Nat /\ Terms[c].max \in Nat
      BY <3>2, TermsOK DEF OInv, IInv, TypeOK
    <3>4. UsesLeft[c] = Terms[c].max - uses[c]
      BY <3>1, <3>2 DEF UsesLeft
    <3>5. UsesLeft' = [UsesLeft EXCEPT ![c] = UsesLeft[c] - 1]
      BY <3>1, <3>2, <1>1, UseMoved
    <3>6. UsesLeft[c] \in Nat \ {0}
      BY <3>2, <3>3, <3>4
    <3> QED BY <2>3, <3>1, <3>5, <3>6
  <2> QED BY <2>2, <2>3
<1> QED BY <1>3, <1>5, <1>6, <1>8, <1>9, <1>10, <1>11, <1>12 DEF Book!Place, new

\* The use of an order's code, when it is given back.
LEMMA UseGivenBack ==
    ASSUME OInv, NEW w \in Workers, Commit(w), tx[w].code \in Promos \cup {None},
           tx[w].used = IF tx[w].code = None THEN 0 ELSE -1,
           tx[w].code # None => tx[w].code \in issued
    PROVE  Book!GiveBack(tx[w].code)
<1>1. CASE tx[w].code = None
  BY <1>1, UsesKept DEF Book!GiveBack
<1>2. CASE tx[w].code # None
  <2> DEFINE c == tx[w].code
  <2>1. c \in Promos /\ c \in issued /\ tx[w].used = -1
    BY <1>2
  <2>2. UsesLeft[c] \in Int /\ UsesLeft' = [UsesLeft EXCEPT ![c] = UsesLeft[c] - tx[w].used]
    BY <2>1, UseMoved
  <2>3. UsesLeft[c] - tx[w].used = UsesLeft[c] + 1
    BY <2>1, <2>2
  <2> QED BY <1>2, <2>2, <2>3 DEF Book!GiveBack
<1> QED BY <1>1, <1>2

\* A code that an order carries has been issued.
LEMMA CarriedIsIssued ==
    ASSUME OInv, NEW o \in OrderIds
    PROVE  /\ orders[o].promo \in Promos \cup {None}
           /\ orders[o].promo # None => orders[o].promo \in issued
BY DEF OInv, Ledger, Priced, IInv, TypeOK, OrderRecord

LEMMA CommitRevises ==
    ASSUME OInv, NEW w \in Workers, CommitUpdate(w)
    PROVE  \E o \in OrderIds : Book!Revise(o)
<1> DEFINE o == tx[w].order
           new == Revised(w, orders[o])
<1>1. tx[w].kind = "update"
  BY DEF CommitUpdate
<1>2. /\ pc[w] = "commit" /\ Commit(w) /\ o \in OrderIds /\ Active(o)
      /\ orders' = [orders EXCEPT ![o] = new]
      /\ new.status = "CREATED" /\ new.user = orders[o].user /\ new.created = orders[o].created
      /\ new.items = tx[w].took /\ new.promo = tx[w].promo
      /\ new.total = tx[w].total /\ new.discount = tx[w].discount
  BY CommitUpdateFacts
<1> HIDE DEF new
<1>3. orders'[o] = new /\ Book!Becomes(o, orders'[o])
  BY <1>2 DEF OInv, IInv, TypeOK, Book!Becomes
<1>4. /\ \A p \in Products : orders[o].items[p] = tx[w].back[p]
      /\ Priced(tx[w]) /\ tx[w].code = orders[o].promo
      /\ tx[w].promo \in {None, tx[w].code}
      /\ tx[w].used = IF tx[w].promo = None THEN IF tx[w].code = None THEN 0 ELSE -1
                                            ELSE 0
  BY <1>1, <1>2, AtCommit
<1>5. Book!Sellable(new.items, orders[o].items)
  BY <1>2, <1>4, CommitSells
<1>6. Book!Priced(new)
  BY <1>2, <1>4, SamePrices DEF Priced
<1>7. Book!MoveUnits(orders[o].items, new.items)
  BY <1>2, <1>4, CommitMovesUnits
<1>8. \/ new.promo = orders[o].promo /\ UsesLeft' = UsesLeft
      \/ new.promo = None /\ Book!GiveBack(orders[o].promo)
  <2>1. CASE tx[w].promo = tx[w].code
    <3>1. tx[w].used = 0
      BY <1>4, <2>1
    <3> QED BY <1>2, <1>4, <2>1, <3>1, UsesKept
  <2>2. CASE tx[w].promo # tx[w].code
    <3>1. tx[w].promo = None
      BY <1>4, <2>2
    <3>2. tx[w].used = IF tx[w].code = None THEN 0 ELSE -1
      BY <1>4, <3>1
    <3>3. /\ tx[w].code \in Promos \cup {None}
          /\ tx[w].code # None => tx[w].code \in issued
      BY <1>2, <1>4, CarriedIsIssued
    <3> QED BY <1>2, <1>4, <3>1, <3>2, <3>3, UseGivenBack
  <2> QED BY <2>1, <2>2
<1>9. orders[o].status = "CREATED"
  BY <1>2 DEF Active
<1>10. Book!Revise(o)
  BY <1>2, <1>3, <1>5, <1>6, <1>7, <1>8, <1>9 DEF Book!Revise
<1> QED BY <1>2, <1>10

LEMMA CommitCancels ==
    ASSUME OInv, NEW w \in Workers, CommitCancel(w)
    PROVE  \E o \in OrderIds : Book!Cancel(o)
<1> DEFINE o == tx[w].order
<1>1. tx[w].kind = "cancel"
  BY DEF CommitCancel
<1>2. /\ pc[w] = "commit" /\ Commit(w) /\ o \in OrderIds /\ Active(o)
      /\ orders' = [orders EXCEPT ![o] = [orders[o] EXCEPT !.status = "CANCELED"]]
  BY CommitCancelFacts
<1>3. /\ \A p \in Products : orders[o].items[p] = tx[w].back[p]
      /\ \A p \in Products : tx[w].took[p] = 0
      /\ tx[w].code = orders[o].promo
      /\ tx[w].used = IF tx[w].code = None THEN 0 ELSE -1
  BY <1>1, <1>2, AtCommit
<1>4. \A p \in Products : Book!Nothing[p] = tx[w].took[p]
  BY <1>3 DEF Book!Nothing
<1>5. Book!MoveUnits(orders[o].items, Book!Nothing)
  BY <1>2, <1>3, <1>4, CommitMovesUnits
<1>6. Book!GiveBack(orders[o].promo)
  BY <1>2, <1>3, CarriedIsIssued, UseGivenBack
<1>7. orders[o].status = "CREATED"
  BY <1>2 DEF Active
<1>8. Book!Cancel(o)
  BY <1>2, <1>5, <1>6, <1>7 DEF Book!Cancel, Book!Becomes
<1> QED BY <1>2, <1>8

\* A catalog request writes one product row, or issues a code.
LEMMA ShelfWritten ==
    ASSUME OInv, NEW p \in Products, NEW row \in ProductRecord,
           products' = [products EXCEPT ![p] = row], UNCHANGED <<issued, uses, orders>>
    PROVE  Book!WriteShelf(p)
<1> DEFINE open == row.status = "ACTIVE"
           n == row.stock
<1>1. open \in BOOLEAN /\ n \in 0 .. MaxInt
  BY DEF ProductRecord
<1>2. products \in [Products -> ProductRecord]
  BY DEF OInv, IInv, TypeOK
<1>3. Shelf' = [Shelf EXCEPT ![p] = [open |-> open, units |-> n]]
  BY <1>2 DEF Shelf
<1>4. UNCHANGED <<UsesLeft, orders>>
  BY DEF UsesLeft
<1> HIDE DEF open, n
<1> QED BY <1>1, <1>3, <1>4 DEF Book!WriteShelf

\* Nobody has used a code that is not issued yet.
LEMMA UnissuedUnused ==
    ASSUME OInv, NEW c \in Promos, c \notin issued
    PROVE  uses[c] = 0
<1>1. {o \in OrderIds : Active(o) /\ orders[o].promo = c} = {}
  BY RowsAssumption DEF OInv, Ledger, Priced
<1>2. uses[c] = Cardinality({o \in OrderIds : Active(o) /\ orders[o].promo = c})
  BY DEF OInv, Ledger, PromoUsesExact
<1> QED BY <1>1, <1>2, FS_EmptySet

LEMMA CatalogInBook ==
    ASSUME OInv, CatalogRequest \/ CatalogStep
    PROVE  [Book!Next]_(Book!vars)
<1>1. ASSUME NEW p \in Products, Book!WriteShelf(p)
      PROVE  Book!Next
  BY <1>1 DEF Book!Next
<1>2. ASSUME NEW u \in Users, NEW p \in Products, NEW row \in NewRows, CreateProduct(u, p, row)
      PROVE  \E q \in Products : Book!WriteShelf(q)
  <2> DEFINE new == [status |-> row.status, price |-> row.price, stock |-> row.stock, seller |-> u]
  <2>1. new \in ProductRecord
    BY CatalogAssumption DEF ProductRecord
  <2>2. products' = [products EXCEPT ![p] = new] /\ UNCHANGED <<issued, uses, orders>>
    BY <1>2 DEF CreateProduct, others
  <2> HIDE DEF new
  <2> QED BY <2>1, <2>2, ShelfWritten
<1>3. ASSUME NEW u \in Users, NEW p \in Products, NEW e \in Editors, NEW body \in Bodies,
             BeginEdit(e, u, p, body)
      PROVE  UNCHANGED Book!vars
  BY <1>3, BookStutter DEF BeginEdit, others, db
<1>4. ASSUME NEW u \in Users, NEW p \in Products, DeleteProduct(u, p)
      PROVE  \E q \in Products : Book!WriteShelf(q)
  <2> DEFINE new == [products[p] EXCEPT !.status = "ARCHIVED"]
  <2>1. new \in ProductRecord
    BY DEF OInv, IInv, TypeOK, ProductRecord, ProductStatus
  <2>2. products' = [products EXCEPT ![p] = new] /\ UNCHANGED <<issued, uses, orders>>
    BY <1>4 DEF DeleteProduct, others
  <2> HIDE DEF new
  <2> QED BY <2>1, <2>2, ShelfWritten
<1>5. ASSUME NEW u \in Users, NEW c \in Promos, CreatePromoCode(u, c)
      PROVE  Book!Issue(c)
  <2>1. c \notin issued /\ issued' = issued \cup {c} /\ UNCHANGED <<products, uses, orders>>
    BY <1>5 DEF CreatePromoCode
  <2>2. uses[c] = 0 /\ Terms[c].max \in Nat
    BY <2>1, UnissuedUnused, TermsOK
  <2>3. UsesLeft[c] = None /\ UsesLeft' = [UsesLeft EXCEPT ![c] = Terms[c].max]
    <3>1. UsesLeft[c] = None
      BY <2>1 DEF UsesLeft
    <3>2. UsesLeft'[c] = Terms[c].max
      <4>1. UsesLeft'[c] = Terms[c].max - uses[c]
        BY <2>1 DEF UsesLeft
      <4> QED BY <2>2, <4>1
    <3>3. \A i \in Promos \ {c} : UsesLeft'[i] = UsesLeft[i]
      BY <2>1 DEF UsesLeft
    <3>4. /\ UsesLeft = [i \in Promos |-> UsesLeft[i]]
          /\ UsesLeft' = [i \in Promos |-> UsesLeft'[i]]
      BY DEF UsesLeft
    <3> HIDE DEF UsesLeft
    <3> QED BY <3>1, <3>2, <3>3, <3>4
  <2>4. UNCHANGED <<Shelf, orders>>
    BY <2>1 DEF Shelf
  <2> QED BY <2>3, <2>4 DEF Book!Issue
<1>6. ASSUME NEW e \in Editors, WriteProduct(e)
      PROVE  \E q \in Products : Book!WriteShelf(q)
  <2>1. edits[e].product \in Products /\ edits[e].row \in ProductRecord
    BY <1>6, EditsOK DEF WriteProduct, EditRecord, OInv
  <2>2. /\ products' = [products EXCEPT ![edits[e].product] = edits[e].row]
        /\ UNCHANGED <<issued, uses, orders>>
    BY <1>6 DEF WriteProduct, others
  <2> QED BY <2>1, <2>2, ShelfWritten
<1>7. ASSUME NEW e \in Editors, EditFails(e)
      PROVE  UNCHANGED Book!vars
  BY <1>7, BookStutter DEF EditFails, others, db
<1>8. CASE CatalogRequest
  BY <1>1, <1>2, <1>3, <1>4, <1>5, <1>8 DEF CatalogRequest, Book!Next
<1>9. CASE CatalogStep
  BY <1>1, <1>6, <1>7, <1>9 DEF CatalogStep
<1> QED BY <1>8, <1>9

LEMMA StepInBook == OInv /\ [Next]_vars => [Book!Next]_(Book!vars)
<1> SUFFICES ASSUME OInv, [Next]_vars PROVE [Book!Next]_(Book!vars)
  OBVIOUS
<1>1. CASE UNCHANGED db
  BY <1>1, BookStutter
<1>2. ASSUME NEW w \in Workers, Commits(w)
      PROVE  Book!Next
  <2>1. CASE CommitCreate(w)
    BY <2>1, CommitPlaces DEF Book!Next
  <2>2. CASE CommitUpdate(w)
    BY <2>2, CommitRevises DEF Book!Next
  <2>3. CASE CommitCancel(w)
    BY <2>3, CommitCancels DEF Book!Next
  <2> QED BY <1>2, <2>1, <2>2, <2>3 DEF Commits
<1>3. CASE CatalogRequest \/ CatalogStep
  BY <1>3, CatalogInBook
<1> QED BY <1>1, <1>2, <1>3, NextKinds

LEMMA InitInBook == Init => Book!Init
<1> SUFFICES ASSUME Init PROVE Book!Init
  OBVIOUS
<1>1. ASSUME NEW c \in Promos PROVE UsesLeft[c] \in {None, Terms[c].max}
  BY TermsOK DEF Init, UsesLeft
<1>2. ASSUME NEW o \in OrderIds PROVE orders[o].status = "NONE"
  BY DEF Init, NoOrder
<1> QED BY <1>1, <1>2 DEF Book!Init

\* Requests, row locks, private writes, deadlocks and failures taken away, the
\* marketplace is the order book: every order request takes effect in one step,
\* its commit, under conditions that hold at that very moment.
THEOREM Refinement == Spec => OrdersAreAtomic
<1>1. Init => Book!Init
  BY InitInBook
<1>2. OInv /\ [Next]_vars => [Book!Next]_(Book!vars)
  BY StepInBook
<1> QED BY <1>1, <1>2, OrdersInvariance, PTL DEF Spec, OrdersAreAtomic, Book!Spec

-----------------------------------------------------------------------------
(* The life of an order and the units it holds.                             *)

Lifecycle(o) ==
    /\ orders[o].status = "NONE" => orders'[o].status \in {"NONE", "CREATED"}
    /\ orders[o].status = "CREATED" => /\ orders'[o].status # "NONE"
                                       /\ orders'[o].user = orders[o].user
    /\ orders[o].status = "CANCELED" => orders'[o] = orders[o]

\* Units an order gains or loses are units the shelf loses or gains.
Conserved(o) ==
    /\ \A i \in OrderIds \ {o} : orders'[i] = orders[i]
    /\ \A p \in Products :
         products'[p].stock + Holds(o, p)' = products[p].stock + Holds(o, p)

\* A commit changes one order, by one of the transitions it may take.
LEMMA CommitKeepsBooks ==
    ASSUME OInv, NEW w \in Workers, Commits(w)
    PROVE  \E o \in OrderIds : Lifecycle(o) /\ Conserved(o)
<1>0. /\ orders \in [OrderIds -> OrderRecord] /\ products \in [Products -> ProductRecord]
      /\ tx[w] \in TxRecord
  BY DEF OInv, IInv, TypeOK
<1>1. \A p \in Products : products[p].stock \in Int /\ tx[w].back[p] \in Int /\ tx[w].took[p] \in Int
  BY <1>0, RowsAssumption DEF ProductRecord, TxRecord, Count
<1>2. CASE CommitCreate(w)
  <2>1. PICK o \in OrderIds : /\ orders[o].status = "NONE"
                              /\ orders' = [orders EXCEPT ![o] = Placed(w)]
    BY <1>2, CommitCreateFacts
  <2>2. orders'[o] = Placed(w) /\ \A i \in OrderIds \ {o} : orders'[i] = orders[i]
    BY <2>1, <1>0
  <2>3. Placed(w).status = "CREATED" /\ Placed(w).items = tx[w].took
    BY DEF Placed
  <2>4. pc[w] = "commit" /\ Commit(w)
    BY <1>2, CommitCreateFacts
  <2>5. tx[w].kind = "create"
    BY <1>2 DEF CommitCreate
  <2>6. ASSUME NEW p \in Products
        PROVE  products'[p].stock + Holds(o, p)' = products[p].stock + Holds(o, p)
    <3>1. Holds(o, p) = 0 /\ Holds(o, p)' = tx[w].took[p]
      BY <2>1, <2>2, <2>3 DEF Holds, Active
    <3>2. products'[p].stock = products[p].stock + tx[w].back[p] - tx[w].took[p]
      BY <2>4, CommitWrites
    <3>3. tx[w].back[p] = 0
      BY <2>4, <2>5, AtCommit
    <3> QED BY <3>1, <3>2, <3>3, <1>1
  <2>7. Lifecycle(o)
    BY <2>1, <2>2, <2>3 DEF Lifecycle
  <2> QED BY <2>2, <2>6, <2>7 DEF Conserved
<1>3. CASE CommitUpdate(w)
  <2>0. PICK o : o = tx[w].order
    OBVIOUS
  <2> DEFINE new == Revised(w, orders[o])
  <2>1. /\ pc[w] = "commit" /\ Commit(w) /\ o \in OrderIds /\ Active(o)
        /\ orders' = [orders EXCEPT ![o] = new]
        /\ new.status = "CREATED" /\ new.user = orders[o].user /\ new.items = tx[w].took
    BY <1>3, <2>0, CommitUpdateFacts
  <2>2. tx[w].kind = "update"
    BY <1>3 DEF CommitUpdate
  <2> HIDE DEF new
  <2>3. orders'[o] = new /\ \A i \in OrderIds \ {o} : orders'[i] = orders[i]
    BY <2>1, <1>0
  <2>4. ASSUME NEW p \in Products
        PROVE  products'[p].stock + Holds(o, p)' = products[p].stock + Holds(o, p)
    <3>1. Holds(o, p) = orders[o].items[p]
      BY <2>1 DEF Holds
    <3>2. Holds(o, p)' = tx[w].took[p]
      BY <2>1, <2>3 DEF Holds, Active
    <3>3. products'[p].stock = products[p].stock + tx[w].back[p] - tx[w].took[p]
      BY <2>1, CommitWrites
    <3>4. tx[w].back[p] = orders[o].items[p]
      BY <2>0, <2>1, <2>2, AtCommit
    <3> QED BY <3>1, <3>2, <3>3, <3>4, <1>1
  <2>5. Lifecycle(o)
    BY <2>1, <2>3 DEF Lifecycle, Active
  <2> QED BY <2>1, <2>3, <2>4, <2>5 DEF Conserved
<1>4. CASE CommitCancel(w)
  <2>0. PICK o : o = tx[w].order
    OBVIOUS
  <2> DEFINE new == [orders[o] EXCEPT !.status = "CANCELED"]
  <2>1. /\ pc[w] = "commit" /\ Commit(w) /\ o \in OrderIds /\ Active(o)
        /\ orders' = [orders EXCEPT ![o] = new] /\ new.status = "CANCELED"
    BY <1>4, <2>0, CommitCancelFacts
  <2>2. tx[w].kind = "cancel"
    BY <1>4 DEF CommitCancel
  <2>3. new.user = orders[o].user
    BY <2>1, <1>0 DEF OrderRecord
  <2> HIDE DEF new
  <2>4. orders'[o] = new /\ \A i \in OrderIds \ {o} : orders'[i] = orders[i]
    BY <2>1, <1>0
  <2>5. ASSUME NEW p \in Products
        PROVE  products'[p].stock + Holds(o, p)' = products[p].stock + Holds(o, p)
    <3>1. Holds(o, p) = orders[o].items[p]
      BY <2>1 DEF Holds
    <3>2. Holds(o, p)' = 0
      BY <2>1, <2>4 DEF Holds, Active
    <3>3. products'[p].stock = products[p].stock + tx[w].back[p] - tx[w].took[p]
      BY <2>1, CommitWrites
    <3>4. tx[w].back[p] = orders[o].items[p] /\ tx[w].took[p] = 0
      BY <2>0, <2>1, <2>2, AtCommit
    <3> QED BY <3>1, <3>2, <3>3, <3>4, <1>1
  <2>6. Lifecycle(o)
    BY <2>1, <2>3, <2>4 DEF Lifecycle, Active
  <2> QED BY <2>1, <2>4, <2>5, <2>6 DEF Conserved
<1> QED BY <1>2, <1>3, <1>4 DEF Commits

LEMMA StepLifecycle == OInv /\ [Next]_vars => \A o \in OrderIds : Lifecycle(o)
<1> SUFFICES ASSUME OInv, [Next]_vars, NEW o \in OrderIds PROVE Lifecycle(o)
  OBVIOUS
<1>0. orders[o].status \in {"NONE", "CREATED", "CANCELED"}
  BY DEF OInv, IInv, TypeOK, OrderRecord, OrderStatus
<1>1. CASE orders'[o] = orders[o]
  BY <1>0, <1>1 DEF Lifecycle
<1>2. CASE UNCHANGED db \/ CatalogRequest \/ CatalogStep
  BY <1>1, <1>2, CatalogLeavesOrders DEF db
<1>3. ASSUME NEW w \in Workers, Commits(w) PROVE Lifecycle(o)
  <2>1. PICK i \in OrderIds : Lifecycle(i) /\ Conserved(i)
    BY <1>3, CommitKeepsBooks
  <2> QED BY <1>1, <2>1 DEF Conserved
<1> QED BY <1>2, <1>3, NextKinds

\* An order is created once, keeps its owner while it is active, and is never
\* changed again once it is canceled, whatever updates and cancellations of it
\* overlap.
THEOREM OrderLifecycleHolds == Spec => OrderLifecycle
<1>1. OInv /\ [Next]_vars => \A o \in OrderIds : Lifecycle(o)
  BY StepLifecycle
<1>2. Spec => [][\A o \in OrderIds : Lifecycle(o)]_vars
  BY <1>1, OrdersInvariance, PTL DEF Spec
<1> QED BY <1>2 DEF OrderLifecycle, Lifecycle

\* No unit appears or disappears: a step of an order request that changes an
\* order moves exactly the units the order gains or loses, and one that changes
\* no order leaves the stock alone.
THEOREM UnitsConservedHolds == Spec => UnitsConserved
<1> DEFINE Step ==
      \/ orders' = orders /\ (pc' # pc => products' = products)
      \/ \E o \in OrderIds :
           /\ \A i \in OrderIds \ {o} : orders'[i] = orders[i]
           /\ \A p \in Products :
                products'[p].stock + Holds(o, p)' = products[p].stock + Holds(o, p)
<1>1. OInv /\ [Next]_vars => Step
  <2> SUFFICES ASSUME OInv, [Next]_vars PROVE Step
    OBVIOUS
  <2>1. CASE UNCHANGED db
    BY <2>1 DEF db
  <2>2. CASE CatalogRequest \/ CatalogStep
    BY <2>2, CatalogLeavesOrders
  <2>3. ASSUME NEW w \in Workers, Commits(w) PROVE Step
    BY <2>3, CommitKeepsBooks DEF Conserved
  <2> QED BY <2>1, <2>2, <2>3, NextKinds
<1> HIDE DEF Step
<1>2. Spec => [][Step]_vars
  BY <1>1, OrdersInvariance, PTL DEF Spec
<1> QED BY <1>2 DEF UnitsConserved, Step

-----------------------------------------------------------------------------
(* The two limits of a user who waits for each answer.                      *)

\* No two requests under way are of one user.
OneEach == \A v, w \in Workers :
             v # w /\ tx[v].kind # "none" /\ tx[w].kind # "none" => tx[v].user # tx[w].user

\* A creation that has passed the rate limit, and one past the check of active
\* orders too: what they have read stays true until they commit.
Rested(w) == tx[w].kind = "create" /\ pc[w] \notin {"idle", "rate"} =>
               \A op \in ops : op.user = tx[w].user /\ op.type = "CREATE_ORDER"
                                 => op.at + RateLimit <= now

Clear(w) == tx[w].kind = "create" /\ pc[w] \notin {"idle", "rate", "active"} =>
              ~HasActiveOrder(tx[w].user)

\* The log that RateLimitCheck reads knows of every order.
Logged(o) == orders[o].status # "NONE" =>
               \E op \in ops : /\ op.user = orders[o].user /\ op.type = "CREATE_ORDER"
                               /\ op.at = orders[o].created

LimitsInv == /\ OneEach
             /\ OneActiveOrder
             /\ \A w \in Workers : Rested(w) /\ Clear(w)
             /\ \A o \in OrderIds : Logged(o)

LEMMA InitLimits == Init => LimitsInv
<1> SUFFICES ASSUME Init PROVE LimitsInv
  OBVIOUS
<1>1. \A w \in Workers : tx[w].kind = "none"
  BY DEF Init, NoTx
<1>2. \A o \in OrderIds : orders[o].status = "NONE"
  BY DEF Init, NoOrder
<1> QED BY <1>1, <1>2 DEF LimitsInv, OneEach, OneActiveOrder, Rested, Clear, Logged, Active

\* A statement before the commit: whose turn it is, and what a creation has
\* just read when it passes a check.
LEMMA StatementReads ==
    ASSUME IInv, NEW w \in Workers, Statement(w), ~Commits(w)
    PROVE  /\ OnlyMoves(w)
           /\ \/ tx'[w].kind = "none"
              \/ /\ tx'[w].kind = tx[w].kind /\ tx'[w].user = tx[w].user
                 /\ tx[w].kind = "create" =>
                      /\ \/ pc[w] \notin {"idle", "rate"}
                         \/ pc[w] = "rate" /\ ~RateLimited(tx[w].user, "CREATE_ORDER")
                      /\ \/ pc[w] \notin {"idle", "rate", "active"}
                         \/ pc'[w] \in {"idle", "rate", "active"}
                         \/ ~HasActiveOrder(tx[w].user)
<1>0. /\ tx \in [Workers -> TxRecord] /\ pc \in [Workers -> Label]
      /\ rows \in [Workers -> SUBSET RowSet]
  BY DEF IInv, TypeOK
<1>1. CASE Rollback(w)
  <2>1. tx'[w] = NoTx /\ OnlyMoves(w)
    BY <1>0, <1>1 DEF Rollback, EndTx, OnlyMoves
  <2> QED BY <2>1 DEF NoTx
<1>2. CASE CreateRateLimit(w) /\ ~Rollback(w)
  <2>1. pc[w] = "rate" /\ tx[w].kind = "create" /\ ~RateLimited(tx[w].user, "CREATE_ORDER")
    BY <1>2 DEF CreateRateLimit, Operation
  <2>2. tx' = tx /\ rows' = rows /\ pc' = [pc EXCEPT ![w] = "active"]
    BY <1>2 DEF CreateRateLimit, Advance, Goto
  <2> QED BY <1>0, <2>1, <2>2 DEF OnlyMoves
<1>3. CASE CheckNoActiveOrder(w) /\ ~Rollback(w)
  <2>1. pc[w] = "active" /\ ~HasActiveOrder(tx[w].user)
    BY <1>3 DEF CheckNoActiveOrder
  <2>2. tx' = tx /\ rows' = rows /\ pc' = [pc EXCEPT ![w] = "reserve"]
    BY <1>3 DEF CheckNoActiveOrder, Advance, Goto
  <2> QED BY <1>0, <2>1, <2>2 DEF OnlyMoves
<1>4. CASE UpdateLockOrder(w) /\ ~Rollback(w)
  BY <1>0, <1>4 DEF UpdateLockOrder, LockRow, Goto, OnlyMoves, TxRecord
<1>5. CASE UpdateRateLimit(w) /\ ~Rollback(w)
  BY <1>0, <1>5 DEF UpdateRateLimit, Proceed, OnlyMoves, TxRecord
<1>6. CASE CancelLockOrder(w) /\ ~Rollback(w)
  <2>1. tx[w].kind = "cancel"
    BY <1>6 DEF CancelLockOrder
  <2>2. PICK s : /\ LockRow(w, OrderRow(tx[w].order))
                 /\ Proceed(w, [tx[w] EXCEPT !.olds = s, !.code = orders[tx[w].order].promo])
    BY <1>6 DEF CancelLockOrder
  <2>3. OnlyMoves(w)
    BY <1>0, <2>2 DEF LockRow, Proceed, OnlyMoves
  <2>4. tx'[w].kind = "cancel" /\ tx'[w].user = tx[w].user
    BY <1>0, <2>1, <2>2 DEF Proceed, TxRecord
  <2> QED BY <2>1, <2>3, <2>4
<1>7. CASE ReleaseItem(w) /\ ~Rollback(w)
  <2> DEFINE p == Head(tx[w].olds)
             n == orders[tx[w].order].items[p]
  <2>1. /\ pc[w] = "release" /\ LockRow(w, ProductRow(p))
        /\ Proceed(w, [tx[w] EXCEPT !.olds = Tail(@), !.back[p] = @ + n])
    BY <1>7 DEF ReleaseItem
  <2> HIDE DEF p, n
  <2>2. OnlyMoves(w)
    BY <1>0, <2>1 DEF LockRow, Proceed, OnlyMoves
  <2>3. tx'[w].kind = tx[w].kind /\ tx'[w].user = tx[w].user
    BY <1>0, <2>1 DEF Proceed, TxRecord
  <2> QED BY <2>1, <2>2, <2>3
<1>8. CASE ReserveItem(w) /\ ~Rollback(w)
  <2> DEFINE line == Head(tx[w].todo)
             p == line.product
  <2>1. /\ pc[w] = "reserve" /\ LockRow(w, ProductRow(p))
        /\ Proceed(w, [tx[w] EXCEPT !.todo = Tail(@), !.took[p] = @ + line.quantity,
                                    !.total = @ + products[p].price * line.quantity])
    BY <1>8 DEF ReserveItem
  <2> HIDE DEF line, p
  <2>2. OnlyMoves(w)
    BY <1>0, <2>1 DEF LockRow, Proceed, OnlyMoves
  <2>3. tx'[w].kind = tx[w].kind /\ tx'[w].user = tx[w].user
    BY <1>0, <2>1 DEF Proceed, TxRecord
  <2> QED BY <2>1, <2>2, <2>3
<1>9. CASE RedeemPromo(w) /\ ~Rollback(w)
  <2> DEFINE c == tx[w].code
  <2>1. pc[w] = "promo"
    BY <1>9 DEF RedeemPromo
  <2>2. PICK d : /\ LockRow(w, PromoRow(c)) /\ Goto(w, "commit")
                 /\ tx' = [tx EXCEPT ![w].promo = c, ![w].discount = d, ![w].used = 1]
    BY <1>9 DEF RedeemPromo
  <2> HIDE DEF c
  <2>3. OnlyMoves(w)
    BY <1>0, <2>2 DEF LockRow, Goto, OnlyMoves
  <2>4. tx'[w].kind = tx[w].kind /\ tx'[w].user = tx[w].user
    BY <1>0, <2>2 DEF TxRecord
  <2> QED BY <2>1, <2>3, <2>4
<1>10. CASE ReviewPromo(w)
  BY <1>0, <1>10 DEF ReviewPromo, LockRow, Goto, OnlyMoves, TxRecord
<1>11. CASE ReturnPromo(w)
  BY <1>0, <1>11 DEF ReturnPromo, LockRow, Goto, OnlyMoves, TxRecord
<1> QED BY <1>1, <1>2, <1>3, <1>4, <1>5, <1>6, <1>7, <1>8, <1>9, <1>10, <1>11
        DEF Statement, Commits

\* Reading the log: RateLimitCheck passes when every creation of the user is at
\* least RateLimit old.
LEMMA PassedRateLimit ==
    ASSUME TypeOK, NEW u, ~RateLimited(u, "CREATE_ORDER"), NEW op \in ops,
           op.user = u, op.type = "CREATE_ORDER"
    PROVE  op.at + RateLimit <= now
<1>1. op.at \in Nat /\ now \in Nat /\ RateLimit \in Nat
  BY RowsAssumption DEF TypeOK
<1>2. ~(op.at > now - RateLimit)
  BY DEF RateLimited
<1> QED BY <1>1, <1>2

LEMMA StatementLimits ==
    ASSUME IInv, LimitsInv, NEW w \in Workers, Statement(w), ~Commits(w), UNCHANGED now
    PROVE  LimitsInv'
<1>1. UNCHANGED <<orders, ops, now>>
  BY StatementKinds DEF db
<1>2. OneActiveOrder' /\ \A o \in OrderIds : Logged(o)'
  BY <1>1 DEF LimitsInv, OneActiveOrder, Logged, Active
<1>3. OnlyMoves(w) /\ (tx'[w].kind = "none" \/ (tx'[w].kind = tx[w].kind /\ tx'[w].user = tx[w].user))
  BY StatementReads
<1>4. OneEach'
  BY <1>3 DEF LimitsInv, OneEach, OnlyMoves
<1>5. ASSUME NEW v \in Workers PROVE Rested(v)' /\ Clear(v)'
  <2>1. CASE v # w
    <3>1. tx'[v] = tx[v] /\ pc'[v] = pc[v]
      BY <2>1, <1>3 DEF OnlyMoves
    <3> QED BY <3>1, <1>1 DEF LimitsInv, Rested, Clear, HasActiveOrder
  <2>2. CASE v = w /\ tx'[w].kind # "none"
    <3>1. /\ tx'[w].kind = tx[w].kind /\ tx'[w].user = tx[w].user
          /\ tx[w].kind = "create" =>
               /\ \/ pc[w] \notin {"idle", "rate"}
                  \/ pc[w] = "rate" /\ ~RateLimited(tx[w].user, "CREATE_ORDER")
               /\ \/ pc[w] \notin {"idle", "rate", "active"}
                  \/ pc'[w] \in {"idle", "rate", "active"}
                  \/ ~HasActiveOrder(tx[w].user)
      BY <2>2, StatementReads
    <3>2. ASSUME tx[w].kind = "create", NEW op \in ops, op.user = tx[w].user,
                 op.type = "CREATE_ORDER"
          PROVE  op.at + RateLimit <= now
      <4>1. TypeOK
        BY DEF IInv
      <4>2. CASE pc[w] \notin {"idle", "rate"}
        BY <3>2, <4>2 DEF LimitsInv, Rested
      <4>3. CASE ~RateLimited(tx[w].user, "CREATE_ORDER")
        BY <3>2, <4>1, <4>3, PassedRateLimit
      <4> QED BY <3>1, <3>2, <4>2, <4>3
    <3>3. Rested(v)'
      BY <2>2, <3>1, <3>2, <1>1 DEF Rested
    <3>4. Clear(v)'
      BY <2>2, <3>1, <1>1 DEF LimitsInv, Clear, HasActiveOrder
    <3> QED BY <3>3, <3>4
  <2>3. CASE v = w /\ tx'[w].kind = "none"
    BY <2>3 DEF Rested, Clear
  <2> QED BY <2>1, <2>2, <2>3
<1> QED BY <1>2, <1>4, <1>5 DEF LimitsInv

\* An order is created for a user who has none, or changed in place.
LEMMA CommitLimits ==
    ASSUME OInv, LimitsInv, NEW w \in Workers, Commits(w), UNCHANGED now
    PROVE  LimitsInv' /\ Spaced
<1>0. /\ orders \in [OrderIds -> OrderRecord] /\ tx[w] \in TxRecord
      /\ \A v \in Workers : pc[v] = "idle" => tx[v] = NoTx
  BY DEF OInv, IInv, TypeOK, WorkerOK, Underway
<1>1. pc[w] = "commit" /\ Commit(w)
  BY DEF Commits, CommitCreate, CommitUpdate, CommitCancel, Commit
<1>2. OnlyMoves(w) /\ tx'[w].kind = "none"
  BY <1>1, EndsIdle DEF Commit, EndTx, NoTx, OInv, IInv, TypeOK
<1>3. OneEach'
  BY <1>2 DEF LimitsInv, OneEach, OnlyMoves
<1>4. CASE CommitCreate(w)
  <2> DEFINE u == tx[w].user
             entry == [user |-> u, type |-> "CREATE_ORDER", at |-> tx[w].began]
  <2>1. PICK o \in OrderIds : /\ orders[o].status = "NONE"
                              /\ orders' = [orders EXCEPT ![o] = Placed(w)]
    BY <1>4, CommitCreateFacts
  <2>2. /\ orders'[o].status = "CREATED" /\ orders'[o].user = u
        /\ orders'[o].created = tx[w].began
        /\ \A i \in OrderIds \ {o} : orders'[i] = orders[i]
    BY <2>1, <1>0 DEF Placed
  <2>3. tx[w].kind = "create"
    BY <1>4 DEF CommitCreate
  <2>4. ops' = ops \cup {entry}
    BY <1>4, <2>3 DEF CommitCreate, LogOperation, Operation
  <2>5. /\ \A i \in OrderIds : ~(orders[i].user = u /\ orders[i].status = "CREATED")
        /\ \A op \in ops : op.user = u /\ op.type = "CREATE_ORDER" => op.at + RateLimit <= now
    BY <1>1, <2>3 DEF LimitsInv, Clear, Rested, HasActiveOrder
  <2>6. entry.user = u /\ entry.type = "CREATE_ORDER" /\ entry.at = tx[w].began
    OBVIOUS
  <2> HIDE DEF u, entry
  <2>7. OneActiveOrder'
    BY <2>2, <2>5 DEF LimitsInv, OneActiveOrder, Active
  <2>8. ASSUME NEW i \in OrderIds PROVE Logged(i)'
    <3>1. CASE i = o
      BY <3>1, <2>2, <2>4, <2>6 DEF Logged
    <3>2. CASE i # o
      BY <3>2, <2>2, <2>4 DEF LimitsInv, Logged
    <3> QED BY <3>1, <3>2
  <2>9. ASSUME NEW v \in Workers PROVE Rested(v)' /\ Clear(v)'
    <3>1. CASE v = w
      BY <3>1, <1>2 DEF Rested, Clear
    <3>2. CASE v # w /\ tx[v].kind = "create" /\ pc[v] # "idle"
      <4>1. tx'[v] = tx[v] /\ pc'[v] = pc[v]
        BY <3>2, <1>2 DEF OnlyMoves
      <4>2. tx[v].user # u
        BY <3>2, <2>3 DEF LimitsInv, OneEach, u
      <4>3. Rested(v)'
        BY <4>1, <4>2, <2>4, <2>6 DEF LimitsInv, Rested
      <4>4. Clear(v)'
        BY <4>1, <4>2, <2>2 DEF LimitsInv, Clear, HasActiveOrder
      <4> QED BY <4>3, <4>4
    <3>3. CASE v # w /\ (tx[v].kind # "create" \/ pc[v] = "idle")
      <4>1. tx'[v] = tx[v] /\ pc'[v] = pc[v]
        BY <3>3, <1>2 DEF OnlyMoves
      <4> QED BY <3>3, <4>1 DEF Rested, Clear
    <3> QED BY <3>1, <3>2, <3>3
  <2>10. Spaced
    <3> SUFFICES ASSUME NEW i \in OrderIds, NEW j \in OrderIds,
                        orders[i].status = "NONE", orders'[i].status = "CREATED",
                        orders[j].status # "NONE", orders[j].user = orders'[i].user
                 PROVE  orders[j].created + RateLimit <= now
      BY DEF Spaced
    <3>1. i = o
      BY <2>2
    <3>2. PICK op \in ops : /\ op.user = orders[j].user /\ op.type = "CREATE_ORDER"
                            /\ op.at = orders[j].created
      BY DEF LimitsInv, Logged
    <3> QED BY <3>1, <3>2, <2>2, <2>5
  <2> QED BY <1>3, <2>7, <2>8, <2>9, <2>10 DEF LimitsInv
<1>5. CASE CommitUpdate(w) \/ CommitCancel(w)
  <2>1. PICK o \in OrderIds : /\ Active(o)
                              /\ orders'[o].user = orders[o].user
                              /\ orders'[o].created = orders[o].created
                              /\ \A i \in OrderIds \ {o} : orders'[i] = orders[i]
    <3>1. CASE CommitUpdate(w)
      BY <3>1, <1>0, CommitUpdateFacts
    <3>2. CASE CommitCancel(w)
      <4> DEFINE i == tx[w].order
                 new == [orders[i] EXCEPT !.status = "CANCELED"]
      <4>1. i \in OrderIds /\ Active(i) /\ orders' = [orders EXCEPT ![i] = new]
        BY <3>2, CommitCancelFacts
      <4>2. new.user = orders[i].user /\ new.created = orders[i].created
        BY <4>1, <1>0 DEF OrderRecord
      <4> HIDE DEF new
      <4> QED BY <4>1, <4>2, <1>0
    <3> QED BY <1>5, <3>1, <3>2
  <2>2. ops \subseteq ops' /\ \A op \in ops' \ ops : op.type = "UPDATE_ORDER"
    BY <1>5 DEF CommitUpdate, CommitCancel, LogOperation, Operation
  <2>3. \A i \in OrderIds :
          /\ orders'[i].user = orders[i].user /\ orders'[i].created = orders[i].created
          /\ orders'[i].status = "CREATED" => orders[i].status = "CREATED"
          /\ orders[i].status = "NONE" => orders'[i].status = "NONE"
          /\ orders'[i].status # "NONE" => orders[i].status # "NONE"
    BY <2>1 DEF Active
  <2>4. OneActiveOrder'
    BY <2>3 DEF LimitsInv, OneActiveOrder, Active
  <2>5. \A i \in OrderIds : Logged(i)'
    BY <2>2, <2>3 DEF LimitsInv, Logged
  <2>6. ASSUME NEW v \in Workers PROVE Rested(v)' /\ Clear(v)'
    <3>1. CASE v = w
      BY <3>1, <1>2 DEF Rested, Clear
    <3>2. CASE v # w
      <4>1. tx'[v] = tx[v] /\ pc'[v] = pc[v]
        BY <3>2, <1>2 DEF OnlyMoves
      <4>2. Rested(v)'
        BY <4>1, <2>2 DEF LimitsInv, Rested
      <4>3. Clear(v)'
        BY <4>1, <2>3 DEF LimitsInv, Clear, HasActiveOrder
      <4> QED BY <4>2, <4>3
    <3> QED BY <3>1, <3>2
  <2>7. Spaced
    BY <2>3 DEF Spaced
  <2> QED BY <1>3, <2>4, <2>5, <2>6, <2>7 DEF LimitsInv
<1> QED BY <1>4, <1>5 DEF Commits

\* A request arrives: its user has no other.
LEMMA ArrivalLimits ==
    ASSUME IInv, LimitsInv, OneAtATime, NEW w \in Workers,
           NEW l \in {"rate", "lock"}, NEW t, Begin(w, l, t), t.kind = "create" => l = "rate"
    PROVE  LimitsInv'
<1>0. tx \in [Workers -> TxRecord] /\ pc \in [Workers -> Label]
  BY DEF IInv, TypeOK
<1>1. /\ \A v \in Workers : tx[v].user # t.user
      /\ tx' = [tx EXCEPT ![w] = t] /\ pc' = [pc EXCEPT ![w] = l]
      /\ UNCHANGED <<orders, ops, now>>
  BY DEF Begin, Busy, Goto, unserved
<1>2. tx'[w] = t /\ pc'[w] = l /\ \A v \in Workers \ {w} : tx'[v] = tx[v] /\ pc'[v] = pc[v]
  BY <1>0, <1>1
<1>3. OneActiveOrder' /\ \A o \in OrderIds : Logged(o)'
  BY <1>1 DEF LimitsInv, OneActiveOrder, Logged, Active
<1>4. OneEach'
  BY <1>1, <1>2 DEF LimitsInv, OneEach
<1>5. ASSUME NEW v \in Workers PROVE Rested(v)' /\ Clear(v)'
  <2>1. CASE v = w
    BY <2>1, <1>2 DEF Rested, Clear
  <2>2. CASE v # w
    BY <2>2, <1>1, <1>2 DEF LimitsInv, Rested, Clear, HasActiveOrder
  <2> QED BY <2>1, <2>2
<1> QED BY <1>3, <1>4, <1>5 DEF LimitsInv

LEMMA BeginLimits ==
    ASSUME IInv, LimitsInv, OneAtATime, NEW w \in Workers, OrderRequest(w)
    PROVE  LimitsInv'
<1>1. ASSUME NEW u, NEW basket, NEW code, BeginCreate(w, u, basket, code)
      PROVE  LimitsInv'
  BY <1>1, ArrivalLimits DEF BeginCreate
<1>2. ASSUME NEW u, NEW o, NEW basket, BeginUpdate(w, u, o, basket)
      PROVE  LimitsInv'
  <2> DEFINE t == [NoTx EXCEPT !.kind = "update", !.user = u, !.order = o,
                               !.began = now, !.todo = basket]
  <2>1. t.kind # "create"
    BY DEF NoTx
  <2>2. Begin(w, "lock", t)
    BY <1>2 DEF BeginUpdate
  <2> HIDE DEF t
  <2> QED BY <2>1, <2>2, ArrivalLimits
<1>3. ASSUME NEW u, NEW o, BeginCancel(w, u, o)
      PROVE  LimitsInv'
  <2> DEFINE t == [NoTx EXCEPT !.kind = "cancel", !.user = u, !.order = o, !.began = now]
  <2>1. t.kind # "create"
    BY DEF NoTx
  <2>2. Begin(w, "lock", t)
    BY <1>3 DEF BeginCancel
  <2> HIDE DEF t
  <2> QED BY <2>1, <2>2, ArrivalLimits
<1> QED BY <1>1, <1>2, <1>3 DEF OrderRequest

\* What happens outside the transactions: time passes, the catalog changes.
LEMMA QuietLimits ==
    ASSUME TypeOK, LimitsInv, UNCHANGED <<orders, ops, pc, tx>>, now' \in {now, now + 1}
    PROVE  LimitsInv'
<1>1. ASSUME NEW w \in Workers PROVE Rested(w)'
  <2>1. \A op \in ops : op.at + RateLimit <= now => op.at + RateLimit <= now'
    BY RowsAssumption DEF TypeOK
  <2> QED BY <2>1 DEF LimitsInv, Rested
<1>2. ASSUME NEW w \in Workers PROVE Clear(w)'
  BY DEF LimitsInv, Clear, HasActiveOrder
<1>3. OneEach' /\ OneActiveOrder' /\ \A o \in OrderIds : Logged(o)'
  BY DEF LimitsInv, OneEach, OneActiveOrder, Logged, Active
<1> QED BY <1>1, <1>2, <1>3 DEF LimitsInv

\* Abandoning a request takes nothing from the others.
LEMMA AbortLimits ==
    ASSUME IInv, LimitsInv, NEW w \in Workers, Rollback(w), UNCHANGED now
    PROVE  LimitsInv'
<1>1. OnlyMoves(w) /\ tx'[w].kind = "none"
  BY EndsIdle DEF Rollback, EndTx, NoTx, IInv, TypeOK
<1>2. UNCHANGED <<orders, ops>>
  BY DEF Rollback, db
<1>3. OneEach'
  BY <1>1 DEF LimitsInv, OneEach, OnlyMoves
<1>4. OneActiveOrder' /\ \A o \in OrderIds : Logged(o)'
  BY <1>2 DEF LimitsInv, OneActiveOrder, Logged, Active
<1>5. ASSUME NEW v \in Workers PROVE Rested(v)' /\ Clear(v)'
  BY <1>1, <1>2 DEF LimitsInv, Rested, Clear, HasActiveOrder, OnlyMoves
<1> QED BY <1>3, <1>4, <1>5 DEF LimitsInv

LEMMA NextLimits ==
    ASSUME OneAtATime
    PROVE  OInv /\ LimitsInv /\ [Next]_vars => LimitsInv' /\ Spaced
<1> SUFFICES ASSUME OInv, LimitsInv, [Next]_vars PROVE LimitsInv' /\ Spaced
  OBVIOUS
<1>0. IInv /\ TypeOK
  BY DEF OInv, IInv
<1>1. ASSUME NEW w \in Workers, Commits(w), UNCHANGED now PROVE LimitsInv' /\ Spaced
  BY <1>1, CommitLimits
<1>2. ASSUME orders' = orders PROVE Spaced
  BY <1>2 DEF Spaced
<1>3. CASE UNCHANGED orders
  <2>1. ASSUME NEW w \in Workers, OrderRequest(w) PROVE LimitsInv'
    BY <1>0, <2>1, BeginLimits
  <2>2. ASSUME NEW w \in Workers, Serve(w) PROVE LimitsInv'
    BY <1>0, <1>1, <2>2, StatementLimits DEF Serve
  <2>3. ASSUME NEW w \in Workers, Abort(w) PROVE LimitsInv'
    BY <1>0, <2>3, AbortLimits DEF Abort, DeadlockVictim, Interrupt
  <2>4. ASSUME CatalogRequest \/ CatalogStep PROVE LimitsInv'
    BY <1>0, <2>4, CatalogLeavesOrders, QuietLimits
  <2>5. ASSUME Tick PROVE LimitsInv'
    BY <1>0, <2>5, QuietLimits DEF Tick
  <2>6. ASSUME UNCHANGED vars PROVE LimitsInv'
    BY <1>0, <2>6, QuietLimits DEF vars
  <2>7. LimitsInv'
    BY <2>1, <2>2, <2>3, <2>4, <2>5, <2>6 DEF Next, OrdersNext
  <2> QED BY <1>2, <1>3, <2>7
<1>4. CASE orders' # orders
  <2>1. PICK w \in Workers : Commits(w) /\ UNCHANGED now
    <3>1. ASSUME NEW w \in Workers, Serve(w) PROVE Commits(w) /\ UNCHANGED now
      BY <1>4, <3>1, StatementKinds DEF Serve, db
    <3>2. ASSUME NEW w \in Workers, OrderRequest(w) PROVE FALSE
      BY <1>4, <3>2 DEF OrderRequest, BeginCreate, BeginUpdate, BeginCancel, Begin, unserved
    <3>3. ASSUME NEW w \in Workers, Abort(w) PROVE FALSE
      BY <1>4, <3>3 DEF Abort, DeadlockVictim, Interrupt, Rollback, db
    <3>4. ~(CatalogRequest \/ CatalogStep) /\ ~Tick /\ ~UNCHANGED vars
      BY <1>4, CatalogLeavesOrders DEF Tick, vars
    <3> QED BY <3>1, <3>2, <3>3, <3>4 DEF Next, OrdersNext
  <2> QED BY <1>1, <2>1
<1> QED BY <1>3, <1>4

\* A user who waits for each answer before the next request never has two
\* active orders, whoever else orders, and whoever changes his orders for him.
\* (MCRaceLimits shows that two creations of one user at once get past the
\* check.)
THEOREM OneActiveOrderHolds ==
    ASSUME OneAtATime
    PROVE  Spec => []OneActiveOrder
<1>1. Init => LimitsInv
  BY InitLimits
<1>2. OInv /\ LimitsInv /\ [Next]_vars => LimitsInv'
  BY NextLimits
<1>3. LimitsInv => OneActiveOrder
  BY DEF LimitsInv
<1> QED BY <1>1, <1>2, <1>3, OrdersInvariance, PTL DEF Spec

\* Nor does such a user's order commit within the rate limit of an earlier one.
THEOREM OrderSpacingHolds ==
    ASSUME OneAtATime
    PROVE  Spec => OrderSpacing
<1>1. Init => LimitsInv
  BY InitLimits
<1>2. OInv /\ LimitsInv /\ [Next]_vars => LimitsInv' /\ Spaced
  BY NextLimits
<1> QED BY <1>1, <1>2, OrdersInvariance, PTL DEF Spec, OrderSpacing

=============================================================================

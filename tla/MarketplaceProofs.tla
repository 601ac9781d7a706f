------------------------- MODULE MarketplaceProofs -------------------------
(***************************************************************************)
(* Type correctness (no unit is sold twice) and the cap on promo codes,    *)
(* for any number of requests, users, products, codes and orders.          *)
(***************************************************************************)
EXTENDS Marketplace, FiniteSetTheorems, SequenceTheorems, TLAPS

\* A row has at most one holder.
Exclusive == \A v, w \in Workers : v # w => rows[v] \cap rows[w] = {}

\* What the position of a worker says about its request.
Underway(w) ==
    /\ pc[w] = "idle" => tx[w] = NoTx /\ rows[w] = {}
    /\ pc[w] # "idle" => tx[w].kind # "none" /\ tx[w].user \in Users
    /\ tx[w].kind \in {"update", "cancel"} => tx[w].order \in OrderIds
    /\ pc[w] \in {"rate", "active", "reserve"} => tx[w].todo # << >>
    /\ pc[w] = "lock" /\ tx[w].kind = "update" => tx[w].todo # << >>
    /\ pc[w] = "release" => tx[w].olds # << >>
    /\ tx[w].olds # << >> => tx[w].kind \in {"update", "cancel"}
    /\ pc[w] # "commit" => tx[w].used = 0
    /\ pc[w] = "promo" => tx[w].code \in Promos
    /\ \A i \in 1 .. Len(tx[w].olds) : Exists(tx[w].olds[i])

\* The units a worker has moved privately are of products it holds, and the
\* stock it would commit is one the column can keep.
Covered(w) ==
    \A p \in Products :
      /\ tx[w].back[p] # 0 \/ tx[w].took[p] # 0 => ProductRow(p) \in rows[w]
      /\ ProductRow(p) \in rows[w] => Exists(p)
      /\ Stock(w, p) \in 0 .. MaxInt

\* A pending use is of a code the worker holds, and stays within its maximum.
UseCovered(w) ==
    tx[w].used # 0 =>
      /\ tx[w].code \in Promos
      /\ PromoRow(tx[w].code) \in rows[w]
      /\ uses[tx[w].code] + tx[w].used \in 0 .. Terms[tx[w].code].max

WorkerOK(w) == Underway(w) /\ Covered(w) /\ UseCovered(w)

\* Products on an order, or about to be overwritten by a PUT, exist.
CatalogOK ==
    /\ \A o \in OrderIds, p \in Products : orders[o].items[p] # 0 => Exists(p)
    /\ \A e \in Editors : edits[e] # NoEdit => /\ edits[e].product \in Products
                                               /\ edits[e].row.status # "NONE"

IInv == /\ TypeOK
        /\ PromoCap
        /\ Exclusive
        /\ CatalogOK
        /\ \A w \in Workers : WorkerOK(w)

-----------------------------------------------------------------------------
LEMMA NoTxType == NoTx \in TxRecord
  BY DEF NoTx, TxRecord, NoQuantity, Count

LEMMA InitInvariant == Init => IInv
<1> SUFFICES ASSUME Init PROVE IInv
  OBVIOUS
<1> USE RowsAssumption, TermsAssumption, CatalogAssumption
<1>1. products \in [Products -> ProductRecord]
  BY DEF Init, Catalogs, NoProduct, ProductRecord, ProductStatus
<1>2. orders \in [OrderIds -> OrderRecord]
  BY DEF Init, NoOrder, OrderRecord, OrderStatus, NoQuantity, Count
<1>3. edits \in [Editors -> EditRecord]
  BY DEF Init, NoEdit, EditRecord, ProductRecord, NoProduct, ProductStatus
<1>4. TypeOK
  BY <1>1, <1>2, <1>3, NoTxType DEF Init, TypeOK, Label, RowSet
<1>5. PromoCap
  BY DEF Init, PromoCap
<1>6. Exclusive
  BY DEF Init, Exclusive
<1>7. CatalogOK
  BY DEF Init, CatalogOK, NoOrder, NoQuantity
<1>8. ASSUME NEW w \in Workers PROVE WorkerOK(w)
  <2>1. tx[w] = NoTx /\ rows[w] = {} /\ pc[w] = "idle"
    BY DEF Init
  <2>2. Underway(w)
    BY <2>1 DEF Underway, NoTx
  <2>3. Covered(w)
    BY <2>1, <1>1 DEF Covered, NoTx, NoQuantity, Stock, ProductRecord
  <2>4. UseCovered(w)
    BY <2>1 DEF UseCovered, NoTx
  <2> QED BY <2>2, <2>3, <2>4 DEF WorkerOK
<1> QED BY <1>4, <1>5, <1>6, <1>7, <1>8 DEF IInv

-----------------------------------------------------------------------------
(* A step of one worker that leaves the tables alone.                      *)

LEMMA LocalStep ==
    ASSUME IInv, NEW w \in Workers, NEW t \in TxRecord, NEW l \in Label, NEW R \in SUBSET RowSet,
           tx' = [tx EXCEPT ![w] = t],
           pc' = [pc EXCEPT ![w] = l],
           rows' = [rows EXCEPT ![w] = R],
           \A r \in R : RowFree(w, r),
           UNCHANGED <<db, edits>>, now' \in Nat,
           WorkerOK(w)'
    PROVE  IInv'
<1>1. TypeOK'
  BY DEF IInv, TypeOK, db
<1>2. PromoCap'
  BY DEF IInv, PromoCap, db
<1>3. Exclusive'
  BY DEF IInv, TypeOK, Exclusive, RowFree
<1>4. CatalogOK'
  BY DEF IInv, CatalogOK, Exists, db
<1>5. ASSUME NEW v \in Workers PROVE WorkerOK(v)'
  <2>1. CASE v = w
    BY <2>1
  <2>2. CASE v # w
    <3>1. tx'[v] = tx[v] /\ pc'[v] = pc[v] /\ rows'[v] = rows[v]
      BY <2>2 DEF IInv, TypeOK
    <3> QED BY <3>1 DEF IInv, WorkerOK, Underway, Covered, UseCovered, Stock, Exists, db
  <2> QED BY <2>1, <2>2
<1> QED BY <1>1, <1>2, <1>3, <1>4, <1>5 DEF IInv

LEMMA RollbackStep ==
    ASSUME IInv, NEW w \in Workers, Rollback(w), UNCHANGED <<now, edits>>
    PROVE  IInv'
<1>1. tx'[w] = NoTx /\ rows'[w] = {} /\ pc'[w] = "idle"
  BY DEF Rollback, EndTx, IInv, TypeOK
<1>2. Underway(w)'
  BY <1>1 DEF Underway, NoTx
<1>3. Covered(w)'
  BY <1>1 DEF Covered, NoTx, NoQuantity, Stock, IInv, TypeOK, ProductRecord, Rollback, db
<1>4. UseCovered(w)'
  BY <1>1 DEF UseCovered, NoTx
<1>5. WorkerOK(w)'
  BY <1>2, <1>3, <1>4 DEF WorkerOK
<1>6. /\ tx' = [tx EXCEPT ![w] = NoTx]
      /\ pc' = [pc EXCEPT ![w] = "idle"]
      /\ rows' = [rows EXCEPT ![w] = {}]
      /\ UNCHANGED <<db, edits>> /\ now' \in Nat
  BY DEF Rollback, EndTx, IInv, TypeOK
<1>7. "idle" \in Label
  BY DEF Label
<1>8. {} \in SUBSET RowSet /\ \A r \in {} : RowFree(w, r)
  OBVIOUS
<1> QED BY <1>5, <1>6, <1>7, <1>8, NoTxType, LocalStep

LEMMA HeldRowsFree ==
    ASSUME IInv, NEW w \in Workers, NEW r, RowFree(w, r)
    PROVE  \A x \in rows[w] \cup {r} : RowFree(w, x)
BY DEF IInv, Exclusive, RowFree

LEMMA BeginStep ==
    ASSUME IInv, NEW w \in Workers, NEW t \in TxRecord, NEW l \in {"rate", "lock"},
           Begin(w, l, t), UNCHANGED edits,
           t.kind # "none", t.user \in Users, t.olds = << >>,
           t.back = NoQuantity, t.took = NoQuantity, t.used = 0,
           t.kind \in {"update", "cancel"} => t.order \in OrderIds,
           l = "rate" \/ t.kind = "update" => t.todo # << >>
    PROVE  IInv'
<1>1. /\ tx' = [tx EXCEPT ![w] = t]
      /\ pc' = [pc EXCEPT ![w] = l]
      /\ rows' = [rows EXCEPT ![w] = {}]
      /\ UNCHANGED <<db, edits>> /\ now' \in Nat
  <2>1. rows[w] = {}
    BY DEF Begin, IInv, WorkerOK, Underway
  <2> QED BY <2>1 DEF Begin, Goto, unserved, db, IInv, TypeOK
<1>2. tx'[w] = t /\ rows'[w] = {} /\ pc'[w] = l
  BY <1>1 DEF IInv, TypeOK
<1>3. Underway(w)'
  BY <1>2 DEF Underway
<1>4. Covered(w)'
  BY <1>1, <1>2 DEF Covered, NoQuantity, Stock, IInv, TypeOK, ProductRecord, db
<1>5. UseCovered(w)'
  BY <1>2 DEF UseCovered
<1>6. WorkerOK(w)'
  BY <1>3, <1>4, <1>5 DEF WorkerOK
<1>7. l \in Label /\ {} \in SUBSET RowSet /\ \A r \in {} : RowFree(w, r)
  BY DEF Label
<1> QED BY <1>1, <1>6, <1>7, LocalStep

LEMMA OrderRequestStep ==
    ASSUME IInv, NEW w \in Workers, OrderRequest(w), UNCHANGED edits
    PROVE  IInv'
<1> USE RowsAssumption, BasketsAssumption
<1>1. now \in Nat
  BY DEF IInv, TypeOK
<1>2. ASSUME NEW u \in Users, NEW basket \in Baskets, NEW code \in Promos \cup {None},
             BeginCreate(w, u, basket, code)
      PROVE  IInv'
  <2> DEFINE t == [NoTx EXCEPT !.kind = "create", !.user = u, !.began = now,
                               !.todo = basket, !.code = code]
  <2>1. t \in TxRecord
    BY <1>1, NoTxType DEF TxRecord
  <2>2. /\ t.kind = "create" /\ t.user = u /\ t.olds = << >> /\ t.todo = basket
        /\ t.back = NoQuantity /\ t.took = NoQuantity /\ t.used = 0
    BY DEF NoTx
  <2>3. Begin(w, "rate", t) /\ basket # << >>
    BY <1>2 DEF BeginCreate
  <2> HIDE DEF t
  <2>4. /\ t.kind # "none" /\ t.user \in Users
        /\ t.kind \in {"update", "cancel"} => t.order \in OrderIds
        /\ "rate" = "rate" \/ t.kind = "update" => t.todo # << >>
        /\ "rate" \in {"rate", "lock"}
    BY <2>2, <2>3
  <2> QED BY <2>1, <2>2, <2>3, <2>4, BeginStep
<1>3. ASSUME NEW u \in Users, NEW o \in OrderIds, NEW basket \in Baskets,
             BeginUpdate(w, u, o, basket)
      PROVE  IInv'
  <2> DEFINE t == [NoTx EXCEPT !.kind = "update", !.user = u, !.order = o,
                               !.began = now, !.todo = basket]
  <2>1. t \in TxRecord
    BY <1>1, NoTxType DEF TxRecord
  <2>2. /\ t.kind = "update" /\ t.user = u /\ t.olds = << >> /\ t.todo = basket
        /\ t.order = o /\ t.back = NoQuantity /\ t.took = NoQuantity /\ t.used = 0
    BY DEF NoTx
  <2>3. Begin(w, "lock", t) /\ basket # << >>
    BY <1>3 DEF BeginUpdate
  <2> HIDE DEF t
  <2>4. /\ t.kind # "none" /\ t.user \in Users
        /\ t.kind \in {"update", "cancel"} => t.order \in OrderIds
        /\ "lock" = "rate" \/ t.kind = "update" => t.todo # << >>
        /\ "lock" \in {"rate", "lock"}
    BY <2>2, <2>3
  <2> QED BY <2>1, <2>2, <2>3, <2>4, BeginStep
<1>4. ASSUME NEW u \in Users, NEW o \in OrderIds, BeginCancel(w, u, o)
      PROVE  IInv'
  <2> DEFINE t == [NoTx EXCEPT !.kind = "cancel", !.user = u, !.order = o, !.began = now]
  <2>1. t \in TxRecord
    BY <1>1, NoTxType DEF TxRecord
  <2>2. /\ t.kind = "cancel" /\ t.user = u /\ t.olds = << >> /\ t.order = o
        /\ t.back = NoQuantity /\ t.took = NoQuantity /\ t.used = 0
    BY DEF NoTx
  <2>3. Begin(w, "lock", t)
    BY <1>4 DEF BeginCancel
  <2> HIDE DEF t
  <2>4. /\ t.kind # "none" /\ t.user \in Users
        /\ t.kind \in {"update", "cancel"} => t.order \in OrderIds
        /\ "lock" = "rate" \/ t.kind = "update" => t.todo # << >>
        /\ "lock" \in {"rate", "lock"}
    BY <2>2, <2>3
  <2> QED BY <2>1, <2>2, <2>3, <2>4, BeginStep
<1> QED BY <1>2, <1>3, <1>4 DEF OrderRequest

-----------------------------------------------------------------------------
(* The statements before the commit.                                       *)

LEMMA AdvanceStep ==
    ASSUME IInv, NEW w \in Workers, NEW l \in {"active", "reserve"}, Advance(w, l),
           UNCHANGED <<now, edits>>, pc[w] \in {"rate", "active"}
    PROVE  IInv'
<1>1. /\ tx' = [tx EXCEPT ![w] = tx[w]]
      /\ pc' = [pc EXCEPT ![w] = l]
      /\ rows' = [rows EXCEPT ![w] = rows[w]]
      /\ UNCHANGED <<db, edits>> /\ now' \in Nat
  BY DEF Advance, Goto, IInv, TypeOK
<1>2. tx'[w] = tx[w] /\ rows'[w] = rows[w] /\ pc'[w] = l
  BY <1>1 DEF IInv, TypeOK
<1>3. Underway(w)'
  BY <1>1, <1>2 DEF Underway, IInv, WorkerOK, Exists, db
<1>4. Covered(w)'
  BY <1>1, <1>2 DEF Covered, Stock, IInv, WorkerOK, Exists, db
<1>5. UseCovered(w)'
  BY <1>1, <1>2 DEF UseCovered, IInv, WorkerOK, db
<1>6. WorkerOK(w)'
  BY <1>3, <1>4, <1>5 DEF WorkerOK
<1>7. l \in Label /\ tx[w] \in TxRecord /\ rows[w] \in SUBSET RowSet
  BY DEF Label, IInv, TypeOK
<1>8. \A r \in rows[w] : RowFree(w, r)
  BY DEF IInv, Exclusive, RowFree
<1> QED BY <1>1, <1>6, <1>7, <1>8, LocalStep

\* A statement that ends in Proceed: it may lock a row and move units, and the
\* next statement is chosen by what is left to do.
LEMMA ProceedStep ==
    ASSUME IInv, NEW w \in Workers, NEW t \in TxRecord, NEW R \in SUBSET RowSet,
           Proceed(w, t), rows' = [rows EXCEPT ![w] = R], \A r \in R : RowFree(w, r),
           UNCHANGED <<db, now, edits>>,
           pc[w] # "idle", t.kind = tx[w].kind, t.user = tx[w].user, t.order = tx[w].order,
           t.used = 0, t.olds # << >> => t.kind \in {"update", "cancel"},
           \A i \in 1 .. Len(t.olds) : Exists(t.olds[i]),
           Covered(w)'
    PROVE  IInv'
<1> DEFINE l == NextStatement(t)
<1>1. /\ tx' = [tx EXCEPT ![w] = t]
      /\ pc' = [pc EXCEPT ![w] = l]
      /\ UNCHANGED <<db, edits>> /\ now' \in Nat
  BY DEF Proceed, IInv, TypeOK
<1>2. tx'[w] = t /\ pc'[w] = l
  BY <1>1 DEF IInv, TypeOK
<1>3. /\ l \in {"release", "reserve", "promo", "commit"}
      /\ l = "release" => t.olds # << >>
      /\ l = "reserve" => t.todo # << >>
      /\ l = "promo" => t.code \in Promos
  BY DEF NextStatement, TxRecord
<1> HIDE DEF l
<1>4. Underway(w)'
  <2>1. t.kind # "none" /\ t.user \in Users
    BY DEF IInv, WorkerOK, Underway
  <2>2. t.kind \in {"update", "cancel"} => t.order \in OrderIds
    BY DEF IInv, WorkerOK, Underway
  <2>3. (\A i \in 1 .. Len(tx[w].olds) : Exists(tx[w].olds[i]))'
    BY <1>1, <1>2 DEF Exists, db
  <2> QED BY <1>2, <1>3, <2>1, <2>2, <2>3 DEF Underway
<1>5. UseCovered(w)'
  BY <1>2 DEF UseCovered
<1>6. WorkerOK(w)'
  BY <1>4, <1>5 DEF WorkerOK
<1>7. l \in Label
  BY <1>3 DEF Label
<1> QED BY <1>1, <1>6, <1>7, LocalStep

\* A statement on the promo row: the last before the commit.
LEMMA PromoStep ==
    ASSUME IInv, NEW w \in Workers, pc[w] = "promo",
           RowFree(w, PromoRow(tx[w].code)), LockRow(w, PromoRow(tx[w].code)),
           Goto(w, "commit"), UNCHANGED <<db, now, edits>>,
           NEW q \in Promos \cup {None}, NEW d \in Nat, NEW n \in {-1, 0, 1},
           tx' = [tx EXCEPT ![w] = [tx[w] EXCEPT !.promo = q, !.discount = d, !.used = n]],
           uses[tx[w].code] + n \in 0 .. Terms[tx[w].code].max
    PROVE  IInv'
<1> DEFINE t == [tx[w] EXCEPT !.promo = q, !.discount = d, !.used = n]
           R == rows[w] \cup {PromoRow(tx[w].code)}
<1>1. tx[w] \in TxRecord /\ tx[w].code \in Promos
  BY DEF IInv, TypeOK, WorkerOK, Underway
<1>2. t \in TxRecord /\ R \in SUBSET RowSet
  <2>1. t \in TxRecord
    BY <1>1 DEF TxRecord
  <2>2. rows[w] \in SUBSET RowSet /\ PromoRow(tx[w].code) \in RowSet
    BY <1>1 DEF IInv, TypeOK, PromoRow, RowSet
  <2> QED BY <2>1, <2>2
<1>3. /\ t.kind = tx[w].kind /\ t.user = tx[w].user /\ t.order = tx[w].order
      /\ t.olds = tx[w].olds /\ t.code = tx[w].code /\ t.back = tx[w].back
      /\ t.took = tx[w].took /\ t.used = n
  BY <1>1 DEF TxRecord
<1>4. /\ tx' = [tx EXCEPT ![w] = t]
      /\ pc' = [pc EXCEPT ![w] = "commit"]
      /\ rows' = [rows EXCEPT ![w] = R]
      /\ UNCHANGED <<db, edits>> /\ now' \in Nat
  BY DEF Goto, LockRow, IInv, TypeOK
<1> HIDE DEF t
<1>5. tx'[w] = t /\ pc'[w] = "commit" /\ rows'[w] = R
  BY <1>4 DEF IInv, TypeOK
<1>6. Underway(w)'
  BY <1>3, <1>4, <1>5 DEF Underway, IInv, WorkerOK, Exists, db
<1>7. Covered(w)'
  BY <1>3, <1>4, <1>5 DEF Covered, Stock, IInv, WorkerOK, Exists, db, PromoRow, ProductRow
<1>8. UseCovered(w)'
  BY <1>1, <1>3, <1>4, <1>5 DEF UseCovered, db
<1>9. WorkerOK(w)'
  BY <1>6, <1>7, <1>8 DEF WorkerOK
<1>10. "commit" \in Label /\ \A r \in R : RowFree(w, r)
  BY HeldRowsFree DEF Label
<1> HIDE DEF R
<1> QED
  <2>1. \A r \in R : RowFree(w, r)
    BY <1>10
  <2> QED BY <1>2, <1>4, <1>9, <1>10, <2>1, LocalStep

LEMMA OrderingsAreSequences ==
    ASSUME NEW S \in SUBSET Products, NEW s \in Orderings(S)
    PROVE  s \in Seq(Products) /\ \A i \in 1 .. Len(s) : s[i] \in S
<1>1. Cardinality(S) \in Nat
  BY RowsAssumption, FS_Subset, FS_CardinalityType
<1>2. PICK n \in Nat : s \in [1 .. n -> S]
  BY <1>1 DEF Orderings
<1>3. s \in Seq(S)
  BY <1>2
<1>4. \A i \in 1 .. Len(s) : s[i] \in S
  BY <1>3, ElementOfSeq
<1>5. s \in Seq(Products)
  BY <1>3, SeqMonotonic
<1> QED BY <1>4, <1>5

\* The order's old items are products that exist.
LEMMA OldItemsExist ==
    ASSUME IInv, NEW o \in OrderIds, NEW s \in Orderings(OldItems(o))
    PROVE  s \in Seq(Products) /\ \A i \in 1 .. Len(s) : Exists(s[i])
<1>1. OldItems(o) \in SUBSET Products
  BY DEF OldItems
<1>2. s \in Seq(Products) /\ \A i \in 1 .. Len(s) : s[i] \in OldItems(o)
  BY <1>1, OrderingsAreSequences
<1>3. \A p \in OldItems(o) : Exists(p)
  BY DEF OldItems, IInv, CatalogOK, TypeOK, OrderRecord, Count
<1> QED BY <1>2, <1>3

LEMMA UpdateLockOrderStep ==
    ASSUME IInv, NEW w \in Workers, UpdateLockOrder(w), UNCHANGED <<now, edits>>
    PROVE  IInv'
<1> DEFINE o == tx[w].order
           t == [tx[w] EXCEPT !.code = orders[o].promo]
           R == rows[w] \cup {OrderRow(o)}
<1>0. tx[w] \in TxRecord /\ o \in OrderIds /\ pc[w] = "lock"
  BY DEF UpdateLockOrder, IInv, TypeOK, WorkerOK, Underway
<1>1. CASE ~(Changeable(o) /\ MayChange(w, o))
  BY <1>1, RollbackStep DEF UpdateLockOrder
<1>2. CASE Changeable(o) /\ MayChange(w, o)
  <2>1. /\ RowFree(w, OrderRow(o))
        /\ rows' = [rows EXCEPT ![w] = R]
        /\ tx' = [tx EXCEPT ![w] = t]
        /\ pc' = [pc EXCEPT ![w] = "rate"]
        /\ UNCHANGED <<db, edits>> /\ now' \in Nat
    BY <1>2 DEF UpdateLockOrder, LockRow, Goto, IInv, TypeOK
  <2>2. orders[o].promo \in Promos \cup {None}
    BY <1>0 DEF IInv, TypeOK, OrderRecord
  <2>3. t \in TxRecord
    BY <1>0, <2>2 DEF TxRecord
  <2>4. rows[w] \in SUBSET RowSet /\ OrderRow(o) \in RowSet
    BY <1>0 DEF IInv, TypeOK, OrderRow, RowSet
  <2>5. /\ t.kind = tx[w].kind /\ t.user = tx[w].user /\ t.order = tx[w].order
        /\ t.olds = tx[w].olds /\ t.todo = tx[w].todo /\ t.back = tx[w].back
        /\ t.took = tx[w].took /\ t.used = tx[w].used
    BY <1>0 DEF TxRecord
  <2> HIDE DEF t
  <2>6. tx'[w] = t /\ pc'[w] = "rate" /\ rows'[w] = R
    BY <2>1 DEF IInv, TypeOK
  <2>7. Underway(w)'
    BY <1>0, <2>1, <2>5, <2>6 DEF UpdateLockOrder, Underway, IInv, WorkerOK, Exists, db
  <2>8. Covered(w)'
    BY <2>1, <2>5, <2>6 DEF Covered, Stock, IInv, WorkerOK, Exists, db, OrderRow, ProductRow
  <2>9. UseCovered(w)'
    BY <1>0, <2>5, <2>6 DEF UseCovered, IInv, WorkerOK, Underway
  <2>10. WorkerOK(w)'
    BY <2>7, <2>8, <2>9 DEF WorkerOK
  <2>11. "rate" \in Label /\ R \in SUBSET RowSet /\ \A r \in R : RowFree(w, r)
    BY <2>1, <2>4, HeldRowsFree DEF Label
  <2> HIDE DEF R
  <2> QED BY <2>1, <2>3, <2>10, <2>11, LocalStep
<1> QED BY <1>1, <1>2

LEMMA UpdateRateLimitStep ==
    ASSUME IInv, NEW w \in Workers, UpdateRateLimit(w), UNCHANGED <<now, edits>>
    PROVE  IInv'
<1>1. CASE RateLimited(tx[w].user, Operation(w))
  BY <1>1, RollbackStep DEF UpdateRateLimit
<1>2. CASE ~RateLimited(tx[w].user, Operation(w))
  <2>1. PICK s \in Orderings(OldItems(tx[w].order)) :
           Proceed(w, [tx[w] EXCEPT !.olds = s]) /\ UNCHANGED <<rows, db>>
    BY <1>2 DEF UpdateRateLimit
  <2> DEFINE t == [tx[w] EXCEPT !.olds = s]
  <2>2. tx[w] \in TxRecord /\ tx[w].order \in OrderIds /\ pc[w] = "rate" /\ tx[w].kind = "update"
    BY DEF UpdateRateLimit, IInv, TypeOK, WorkerOK, Underway
  <2>3. s \in Seq(Products) /\ \A i \in 1 .. Len(s) : Exists(s[i])
    BY <2>2, OldItemsExist
  <2>4. t \in TxRecord
    BY <2>2, <2>3 DEF TxRecord
  <2>5. /\ t.kind = tx[w].kind /\ t.user = tx[w].user /\ t.order = tx[w].order /\ t.olds = s
        /\ t.back = tx[w].back /\ t.took = tx[w].took /\ t.used = tx[w].used
    BY <2>2 DEF TxRecord
  <2>6. Proceed(w, t)
    BY <2>1
  <2> HIDE DEF t
  <2>7. /\ rows' = [rows EXCEPT ![w] = rows[w]] /\ rows[w] \in SUBSET RowSet
        /\ tx'[w] = t /\ t.used = 0 /\ UNCHANGED <<db, now, edits>>
    BY <2>1, <2>2, <2>5, <2>6 DEF Proceed, IInv, TypeOK, WorkerOK, Underway
  <2>8. \A r \in rows[w] : RowFree(w, r)
    BY DEF IInv, Exclusive, RowFree
  <2>9. Covered(w)'
    BY <2>1, <2>5, <2>7 DEF Covered, Stock, IInv, WorkerOK, Exists, db
  <2>10. /\ t.olds # << >> => t.kind \in {"update", "cancel"}
         /\ \A i \in 1 .. Len(t.olds) : Exists(t.olds[i])
    BY <2>2, <2>3, <2>5
  <2> QED BY <2>2, <2>4, <2>5, <2>6, <2>7, <2>8, <2>9, <2>10, ProceedStep
<1> QED BY <1>1, <1>2

LEMMA CancelLockOrderStep ==
    ASSUME IInv, NEW w \in Workers, CancelLockOrder(w), UNCHANGED <<now, edits>>
    PROVE  IInv'
<1> DEFINE o == tx[w].order
           R == rows[w] \cup {OrderRow(o)}
<1>0. tx[w] \in TxRecord /\ o \in OrderIds /\ pc[w] = "lock" /\ tx[w].kind = "cancel"
  BY DEF CancelLockOrder, IInv, TypeOK, WorkerOK, Underway
<1>1. CASE ~(Changeable(o) /\ MayChange(w, o))
  BY <1>1, RollbackStep DEF CancelLockOrder
<1>2. CASE Changeable(o) /\ MayChange(w, o)
  <2>1. PICK s \in Orderings(OldItems(o)) :
           /\ LockRow(w, OrderRow(o))
           /\ Proceed(w, [tx[w] EXCEPT !.olds = s, !.code = orders[o].promo])
           /\ UNCHANGED db
    BY <1>2 DEF CancelLockOrder
  <2> DEFINE t == [tx[w] EXCEPT !.olds = s, !.code = orders[o].promo]
  <2>2. s \in Seq(Products) /\ \A i \in 1 .. Len(s) : Exists(s[i])
    BY <1>0, OldItemsExist
  <2>3. orders[o].promo \in Promos \cup {None}
    BY <1>0 DEF IInv, TypeOK, OrderRecord
  <2>4. t \in TxRecord
    BY <1>0, <2>2, <2>3 DEF TxRecord
  <2>5. /\ t.kind = tx[w].kind /\ t.user = tx[w].user /\ t.order = tx[w].order /\ t.olds = s
        /\ t.back = tx[w].back /\ t.took = tx[w].took /\ t.used = tx[w].used
    BY <1>0 DEF TxRecord
  <2>6. Proceed(w, t)
    BY <2>1
  <2> HIDE DEF t
  <2>7. /\ rows' = [rows EXCEPT ![w] = R] /\ rows'[w] = R
        /\ tx'[w] = t /\ t.used = 0 /\ UNCHANGED <<db, now, edits>>
    BY <1>0, <2>1, <2>5, <2>6 DEF LockRow, Proceed, IInv, TypeOK, WorkerOK, Underway
  <2>8. R \in SUBSET RowSet
    BY <1>0 DEF IInv, TypeOK, OrderRow, RowSet
  <2>9. \A r \in R : RowFree(w, r)
    BY HeldRowsFree DEF CancelLockOrder
  <2>10. Covered(w)'
    BY <2>1, <2>5, <2>7 DEF Covered, Stock, IInv, WorkerOK, Exists, db, OrderRow, ProductRow
  <2>11. /\ t.olds # << >> => t.kind \in {"update", "cancel"}
         /\ \A i \in 1 .. Len(t.olds) : Exists(t.olds[i])
    BY <1>0, <2>2, <2>5
  <2> HIDE DEF R
  <2> QED BY <1>0, <2>4, <2>5, <2>6, <2>7, <2>8, <2>9, <2>10, <2>11, ProceedStep
<1> QED BY <1>1, <1>2

LEMMA AddUnits ==
    ASSUME NEW f \in [Products -> Nat], NEW p \in Products, NEW k \in Nat
    PROVE  [f EXCEPT ![p] = f[p] + k] \in Count
<1>1. f[p] + k \in Nat
  OBVIOUS
<1> QED BY <1>1 DEF Count

LEMMA ReleaseItemStep ==
    ASSUME IInv, NEW w \in Workers, ReleaseItem(w), UNCHANGED <<now, edits>>
    PROVE  IInv'
<1> DEFINE p == Head(tx[w].olds)
           n == orders[tx[w].order].items[p]
           t == [tx[w] EXCEPT !.olds = Tail(tx[w].olds), !.back[p] = tx[w].back[p] + n]
           R == rows[w] \cup {ProductRow(p)}
<1>0. /\ tx[w] \in TxRecord /\ tx[w].order \in OrderIds /\ pc[w] = "release"
      /\ tx[w].kind \in {"update", "cancel"} /\ tx[w].used = 0
      /\ tx[w].olds \in Seq(Products) /\ tx[w].olds # << >>
      /\ tx[w].back \in [Products -> Nat] /\ tx[w].took \in [Products -> Nat]
  BY DEF ReleaseItem, IInv, TypeOK, TxRecord, Count, WorkerOK, Underway
<1>1. /\ p \in Products /\ Exists(p)
      /\ Tail(tx[w].olds) \in Seq(Products)
      /\ \A i \in 1 .. Len(Tail(tx[w].olds)) : Exists(Tail(tx[w].olds)[i])
  <2>1. \A i \in 1 .. Len(tx[w].olds) : Exists(tx[w].olds[i])
    BY DEF IInv, WorkerOK, Underway
  <2>2. /\ Len(tx[w].olds) \in Nat \ {0} /\ p = tx[w].olds[1] /\ p \in Products
        /\ Tail(tx[w].olds) \in Seq(Products)
        /\ Len(Tail(tx[w].olds)) = Len(tx[w].olds) - 1
        /\ \A i \in 1 .. Len(Tail(tx[w].olds)) : Tail(tx[w].olds)[i] = tx[w].olds[i + 1]
    BY <1>0, HeadTailProperties, EmptySeq
  <2> QED BY <2>1, <2>2
<1>2. n \in Nat
  BY <1>0, <1>1 DEF IInv, TypeOK, OrderRecord, Count
<1>3. CASE StockOverflows(w, p, n)
  BY <1>3, RollbackStep DEF ReleaseItem
<1>4. CASE ~StockOverflows(w, p, n)
  <2>1. /\ RowFree(w, ProductRow(p))
        /\ rows' = [rows EXCEPT ![w] = R]
        /\ Proceed(w, t)
        /\ UNCHANGED <<db, now, edits>>
    BY <1>4 DEF ReleaseItem, LockRow
  <2>2. t \in TxRecord
    <3>1. [tx[w].back EXCEPT ![p] = tx[w].back[p] + n] \in Count
      BY <1>0, <1>1, <1>2, AddUnits
    <3>2. t = [tx[w] EXCEPT !.olds = Tail(tx[w].olds),
                            !.back = [tx[w].back EXCEPT ![p] = tx[w].back[p] + n]]
      BY <1>0 DEF TxRecord
    <3> QED BY <1>0, <1>1, <3>1, <3>2 DEF TxRecord
  <2>3. /\ t.kind = tx[w].kind /\ t.user = tx[w].user /\ t.order = tx[w].order
        /\ t.olds = Tail(tx[w].olds) /\ t.took = tx[w].took /\ t.used = tx[w].used
        /\ t.back = [tx[w].back EXCEPT ![p] = tx[w].back[p] + n]
    BY <1>0 DEF TxRecord
  <2> HIDE DEF t, n
  <2>4. tx'[w] = t /\ rows'[w] = R
    BY <2>1 DEF Proceed, IInv, TypeOK
  <2>5. R \in SUBSET RowSet
    BY <1>1 DEF IInv, TypeOK, ProductRow, RowSet
  <2>6. \A r \in R : RowFree(w, r)
    BY <2>1, HeldRowsFree
  <2>7. Covered(w)'
    <3> SUFFICES ASSUME NEW q \in Products
                 PROVE  /\ t.back[q] # 0 \/ t.took[q] # 0 => ProductRow(q) \in R
                        /\ ProductRow(q) \in R => Exists(q)
                        /\ products[q].stock + t.back[q] - t.took[q] \in 0 .. MaxInt
      BY <2>1, <2>4 DEF Covered, Stock, Exists, db
    <3>1. /\ tx[w].back[q] # 0 \/ tx[w].took[q] # 0 => ProductRow(q) \in rows[w]
          /\ ProductRow(q) \in rows[w] => Exists(q)
          /\ products[q].stock + tx[w].back[q] - tx[w].took[q] \in 0 .. MaxInt
      BY DEF IInv, WorkerOK, Covered, Stock
    <3>2. products[q].stock \in Nat /\ MaxInt \in Nat
      BY RowsAssumption DEF IInv, TypeOK, ProductRecord
    <3>3. CASE q = p
      <4>1. t.back[q] = tx[w].back[q] + n /\ t.took[q] = tx[w].took[q]
        BY <1>0, <2>3, <3>3
      <4>2. products[q].stock + tx[w].back[q] - tx[w].took[q] + n <= MaxInt
        BY <1>0, <1>2, <1>4, <3>1, <3>2, <3>3 DEF StockOverflows, Stock
      <4>3. products[q].stock + t.back[q] - t.took[q] \in 0 .. MaxInt
        <5>1. tx[w].back[q] \in Nat /\ tx[w].took[q] \in Nat
          BY <1>0
        <5> QED BY <1>2, <3>1, <3>2, <4>1, <4>2, <5>1
      <4> QED BY <1>1, <3>3, <4>3
    <3>4. CASE q # p
      <4>1. t.back[q] = tx[w].back[q] /\ t.took[q] = tx[w].took[q]
        BY <1>0, <2>3, <3>4
      <4>2. ProductRow(q) # ProductRow(p)
        BY <3>4 DEF ProductRow
      <4> QED BY <3>1, <4>1, <4>2
    <3> QED BY <3>3, <3>4
  <2>8. /\ t.olds # << >> => t.kind \in {"update", "cancel"}
        /\ \A i \in 1 .. Len(t.olds) : Exists(t.olds[i])
        /\ t.used = 0 /\ pc[w] # "idle"
    BY <1>0, <1>1, <2>3
  <2> HIDE DEF R
  <2> QED BY <2>1, <2>2, <2>3, <2>5, <2>6, <2>7, <2>8, ProceedStep
<1> QED BY <1>3, <1>4

LEMMA ReserveItemStep ==
    ASSUME IInv, NEW w \in Workers, ReserveItem(w), UNCHANGED <<now, edits>>
    PROVE  IInv'
<1> DEFINE line == Head(tx[w].todo)
           p == line.product
           t == [tx[w] EXCEPT !.todo = Tail(tx[w].todo),
                              !.took[p] = tx[w].took[p] + line.quantity,
                              !.total = tx[w].total + products[p].price * line.quantity]
           R == rows[w] \cup {ProductRow(p)}
<1>0. /\ tx[w] \in TxRecord /\ pc[w] = "reserve" /\ tx[w].used = 0
      /\ tx[w].todo \in Seq(Line) /\ tx[w].todo # << >> /\ tx[w].total \in Nat
      /\ tx[w].back \in [Products -> Nat] /\ tx[w].took \in [Products -> Nat]
  BY DEF ReserveItem, IInv, TypeOK, TxRecord, Count, WorkerOK, Underway
<1>1. line \in Line /\ Tail(tx[w].todo) \in Seq(Line)
  BY <1>0, HeadTailProperties
<1>2. p \in Products /\ line.quantity \in Nat
  BY <1>1 DEF Line
<1>3. CASE ~CanReserve(w, line)
  BY <1>3, RollbackStep DEF ReserveItem
<1>4. CASE CanReserve(w, line)
  <2>1. /\ RowFree(w, ProductRow(p))
        /\ rows' = [rows EXCEPT ![w] = R]
        /\ Proceed(w, t)
        /\ UNCHANGED <<db, now, edits>>
    BY <1>4 DEF ReserveItem, LockRow
  <2>2. t \in TxRecord
    <3>1. products[p].price * line.quantity \in Nat
      BY <1>2 DEF IInv, TypeOK, ProductRecord
    <3>2. [tx[w].took EXCEPT ![p] = tx[w].took[p] + line.quantity] \in Count
      BY <1>0, <1>2, AddUnits
    <3>3. t = [tx[w] EXCEPT !.todo = Tail(tx[w].todo),
                            !.took = [tx[w].took EXCEPT ![p] = tx[w].took[p] + line.quantity],
                            !.total = tx[w].total + products[p].price * line.quantity]
      BY <1>0 DEF TxRecord
    <3>4. tx[w].total + products[p].price * line.quantity \in Nat
      BY <1>0, <3>1
    <3> QED BY <1>0, <1>1, <3>2, <3>3, <3>4 DEF TxRecord
  <2>3. /\ t.kind = tx[w].kind /\ t.user = tx[w].user /\ t.order = tx[w].order
        /\ t.olds = tx[w].olds /\ t.back = tx[w].back /\ t.used = tx[w].used
        /\ t.took = [tx[w].took EXCEPT ![p] = tx[w].took[p] + line.quantity]
    BY <1>0 DEF TxRecord
  <2> HIDE DEF t
  <2>4. tx'[w] = t /\ rows'[w] = R
    BY <2>1 DEF Proceed, IInv, TypeOK
  <2>5. R \in SUBSET RowSet
    BY <1>2 DEF IInv, TypeOK, ProductRow, RowSet
  <2>6. \A r \in R : RowFree(w, r)
    BY <2>1, HeldRowsFree
  <2>7. Covered(w)'
    <3> SUFFICES ASSUME NEW q \in Products
                 PROVE  /\ t.back[q] # 0 \/ t.took[q] # 0 => ProductRow(q) \in R
                        /\ ProductRow(q) \in R => Exists(q)
                        /\ products[q].stock + t.back[q] - t.took[q] \in 0 .. MaxInt
      BY <2>1, <2>4 DEF Covered, Stock, Exists, db
    <3>1. /\ tx[w].back[q] # 0 \/ tx[w].took[q] # 0 => ProductRow(q) \in rows[w]
          /\ ProductRow(q) \in rows[w] => Exists(q)
          /\ products[q].stock + tx[w].back[q] - tx[w].took[q] \in 0 .. MaxInt
      BY DEF IInv, WorkerOK, Covered, Stock
    <3>2. products[q].stock \in Nat /\ MaxInt \in Nat
      BY RowsAssumption DEF IInv, TypeOK, ProductRecord
    <3>3. CASE q = p
      <4>1. t.took[q] = tx[w].took[q] + line.quantity /\ t.back[q] = tx[w].back[q]
        BY <1>0, <2>3, <3>3
      <4>2. products[q].stock + tx[w].back[q] - tx[w].took[q] >= line.quantity
        BY <1>4, <3>3 DEF CanReserve, Stock
      <4>3. products[q].stock + t.back[q] - t.took[q] \in 0 .. MaxInt
        <5>1. tx[w].back[q] \in Nat /\ tx[w].took[q] \in Nat
          BY <1>0
        <5> QED BY <1>2, <3>1, <3>2, <4>1, <4>2, <5>1
      <4>4. Exists(q)
        BY <1>4, <3>3 DEF CanReserve, Exists
      <4> QED BY <3>3, <4>3, <4>4
    <3>4. CASE q # p
      <4>1. t.back[q] = tx[w].back[q] /\ t.took[q] = tx[w].took[q]
        BY <1>0, <2>3, <3>4
      <4>2. ProductRow(q) # ProductRow(p)
        BY <3>4 DEF ProductRow
      <4> QED BY <3>1, <4>1, <4>2
    <3> QED BY <3>3, <3>4
  <2>8. /\ t.olds # << >> => t.kind \in {"update", "cancel"}
        /\ \A i \in 1 .. Len(t.olds) : Exists(t.olds[i])
        /\ t.used = 0 /\ pc[w] # "idle"
    BY <1>0, <2>3 DEF IInv, WorkerOK, Underway
  <2> HIDE DEF R
  <2> QED BY <2>1, <2>2, <2>3, <2>5, <2>6, <2>7, <2>8, ProceedStep
<1> QED BY <1>3, <1>4

LEMMA TermsOK == ASSUME NEW c \in Promos
                 PROVE  /\ Terms[c].max \in Nat /\ Terms[c].value \in Nat
                        /\ Terms[c].type \in {"PERCENTAGE", "FIXED_AMOUNT"}
  BY TermsAssumption

LEMMA DiscountType ==
    ASSUME NEW c \in Promos, NEW total \in Nat, NEW d \in CalcDiscount(Terms[c], total)
    PROVE  d \in Nat
  BY TermsOK DEF CalcDiscount, Smaller

LEMMA RedeemPromoStep ==
    ASSUME IInv, NEW w \in Workers, RedeemPromo(w), UNCHANGED <<now, edits>>
    PROVE  IInv'
<1> DEFINE c == tx[w].code
<1>0. pc[w] = "promo" /\ c \in Promos /\ tx[w].total \in Nat /\ tx[w] \in TxRecord
  BY DEF RedeemPromo, IInv, TypeOK, WorkerOK, Underway, TxRecord
<1>1. CASE Rollback(w)
  BY <1>1, RollbackStep
<1>2. CASE ~Rollback(w)
  <2>1. PICK d \in CalcDiscount(Terms[c], tx[w].total) :
           /\ Redeemable(c)
           /\ LockRow(w, PromoRow(c))
           /\ tx' = [tx EXCEPT ![w].promo = c, ![w].discount = d, ![w].used = 1]
           /\ Goto(w, "commit")
           /\ UNCHANGED db
    BY <1>2 DEF RedeemPromo
  <2>2. d \in Nat
    BY <1>0, DiscountType
  <2>3. tx' = [tx EXCEPT ![w] = [tx[w] EXCEPT !.promo = c, !.discount = d, !.used = 1]]
    BY <2>1 DEF IInv, TypeOK
  <2>4. uses[c] + 1 \in 0 .. Terms[c].max
    BY <1>0, <2>1, TermsOK DEF Redeemable, IInv, TypeOK
  <2>5. /\ RowFree(w, PromoRow(c)) /\ LockRow(w, PromoRow(c)) /\ Goto(w, "commit")
        /\ UNCHANGED <<db, now, edits>>
    BY <2>1 DEF RedeemPromo
  <2>6. c \in Promos \cup {None} /\ 1 \in {-1, 0, 1}
    BY <1>0
  <2> QED BY <1>0, <2>2, <2>3, <2>4, <2>5, <2>6, PromoStep
<1> QED BY <1>1, <1>2

\* Giving a use back never goes below zero.
LEMMA OneUseLessOK ==
    ASSUME IInv, NEW c \in Promos
    PROVE  OneUseLess(c) \in {-1, 0} /\ uses[c] + OneUseLess(c) \in 0 .. Terms[c].max
<1>1. uses[c] \in Nat /\ Terms[c].max \in Nat /\ uses[c] <= Terms[c].max
  BY TermsOK DEF IInv, TypeOK, PromoCap
<1> QED BY <1>1 DEF OneUseLess

LEMMA ReviewPromoStep ==
    ASSUME IInv, NEW w \in Workers, ReviewPromo(w), UNCHANGED <<now, edits>>
    PROVE  IInv'
<1> DEFINE c == tx[w].code
<1>0. /\ pc[w] = "promo" /\ c \in Promos /\ tx[w].total \in Nat /\ tx[w] \in TxRecord
      /\ tx[w].promo \in Promos \cup {None} /\ tx[w].discount \in Nat /\ tx[w].used = 0
  BY DEF ReviewPromo, IInv, TypeOK, WorkerOK, Underway, TxRecord
<1>1. /\ RowFree(w, PromoRow(c)) /\ LockRow(w, PromoRow(c)) /\ Goto(w, "commit")
      /\ UNCHANGED <<db, now, edits>>
  BY DEF ReviewPromo
<1>2. CASE tx' = [tx EXCEPT ![w].used = OneUseLess(c)]
  <2>1. tx' = [tx EXCEPT ![w] = [tx[w] EXCEPT !.promo = tx[w].promo, !.discount = tx[w].discount,
                                             !.used = OneUseLess(c)]]
    BY <1>0, <1>2 DEF IInv, TypeOK, TxRecord
  <2>2. OneUseLess(c) \in {-1, 0, 1} /\ uses[c] + OneUseLess(c) \in 0 .. Terms[c].max
    BY <1>0, OneUseLessOK
  <2>3. PICK q \in Promos \cup {None}, d \in Nat, n \in {-1, 0, 1} :
         /\ tx' = [tx EXCEPT ![w] = [tx[w] EXCEPT !.promo = q, !.discount = d, !.used = n]]
         /\ uses[c] + n \in 0 .. Terms[c].max
    BY <1>0, <2>1, <2>2
  <2> QED BY <1>0, <1>1, <2>3, PromoStep
<1>3. ASSUME NEW d \in CalcDiscount(Terms[c], tx[w].total),
             tx' = [tx EXCEPT ![w].promo = c, ![w].discount = d]
      PROVE  IInv'
  <2>1. tx' = [tx EXCEPT ![w] = [tx[w] EXCEPT !.promo = c, !.discount = d, !.used = 0]]
    BY <1>0, <1>3 DEF IInv, TypeOK, TxRecord
  <2>2. d \in Nat
    BY <1>0, DiscountType
  <2>3. uses[c] + 0 \in 0 .. Terms[c].max
    BY <1>0, TermsOK DEF IInv, TypeOK, PromoCap
  <2> QED BY <1>0, <1>1, <2>1, <2>2, <2>3, PromoStep
<1> QED BY <1>2, <1>3 DEF ReviewPromo

LEMMA ReturnPromoStep ==
    ASSUME IInv, NEW w \in Workers, ReturnPromo(w), UNCHANGED <<now, edits>>
    PROVE  IInv'
<1> DEFINE c == tx[w].code
<1>0. /\ pc[w] = "promo" /\ c \in Promos /\ tx[w] \in TxRecord
      /\ tx[w].promo \in Promos \cup {None} /\ tx[w].discount \in Nat
  BY DEF ReturnPromo, IInv, TypeOK, WorkerOK, Underway, TxRecord
<1>1. /\ RowFree(w, PromoRow(c)) /\ LockRow(w, PromoRow(c)) /\ Goto(w, "commit")
      /\ UNCHANGED <<db, now, edits>>
  BY DEF ReturnPromo
<1>2. tx' = [tx EXCEPT ![w] = [tx[w] EXCEPT !.promo = tx[w].promo, !.discount = tx[w].discount,
                                           !.used = OneUseLess(c)]]
  BY <1>0 DEF ReturnPromo, IInv, TypeOK, TxRecord
<1>3. OneUseLess(c) \in {-1, 0, 1} /\ uses[c] + OneUseLess(c) \in 0 .. Terms[c].max
  BY <1>0, OneUseLessOK
<1>4. PICK q \in Promos \cup {None}, d \in Nat, n \in {-1, 0, 1} :
       /\ tx' = [tx EXCEPT ![w] = [tx[w] EXCEPT !.promo = q, !.discount = d, !.used = n]]
       /\ uses[c] + n \in 0 .. Terms[c].max
  BY <1>0, <1>2, <1>3
<1> QED BY <1>0, <1>1, <1>4, PromoStep

-----------------------------------------------------------------------------
(* The commit, which publishes what one worker has kept to itself.         *)

LEMMA CommitStep ==
    ASSUME IInv, NEW w \in Workers, Commit(w), UNCHANGED <<now, edits>>,
           orders' \in [OrderIds -> OrderRecord],
           \A o \in OrderIds, p \in Products : orders'[o].items[p] # 0 => Exists(p),
           \A op \in ops' : op \in [user : Users, type : {"CREATE_ORDER", "UPDATE_ORDER"}, at : Nat]
    PROVE  IInv'
<1>0. /\ tx' = [tx EXCEPT ![w] = NoTx]
      /\ pc' = [pc EXCEPT ![w] = "idle"]
      /\ rows' = [rows EXCEPT ![w] = {}]
      /\ issued' = issued /\ now' = now /\ edits' = edits
  BY DEF Commit, EndTx
<1>1. ASSUME NEW p \in Products
      PROVE  /\ products'[p] \in ProductRecord
             /\ products'[p].status = products[p].status
             /\ products'[p].stock = Stock(w, p)
             /\ Stock(w, p) \in 0 .. MaxInt
  <2>1. Stock(w, p) \in 0 .. MaxInt
    BY DEF IInv, WorkerOK, Covered
  <2>2. products'[p] = [products[p] EXCEPT !.stock = Stock(w, p)]
    BY DEF Commit, StockWritten
  <2>3. products[p] \in ProductRecord
    BY DEF IInv, TypeOK
  <2> QED BY <2>1, <2>2, <2>3 DEF ProductRecord
<1>2. \A p \in Products : Exists(p)' <=> Exists(p)
  BY <1>1 DEF Exists
<1>3. ASSUME NEW c \in Promos
      PROVE  /\ uses'[c] \in Nat /\ uses'[c] <= Terms[c].max
             /\ c # tx[w].code \/ tx[w].used = 0 => uses'[c] = uses[c]
  <2>1. uses'[c] = IF c = tx[w].code THEN uses[c] + tx[w].used ELSE uses[c]
    BY DEF Commit, UsesWritten
  <2>2. /\ uses[c] \in Nat /\ uses[c] <= Terms[c].max /\ Terms[c].max \in Nat
        /\ tx[w].used \in {-1, 0, 1}
    BY TermsOK DEF IInv, TypeOK, PromoCap, TxRecord
  <2>3. tx[w].used # 0 /\ c = tx[w].code => uses[c] + tx[w].used \in 0 .. Terms[c].max
    BY DEF IInv, WorkerOK, UseCovered
  <2> QED BY <2>1, <2>2, <2>3
<1>4. TypeOK'
  <2>1. products' \in [Products -> ProductRecord]
    BY <1>1 DEF Commit, StockWritten
  <2>2. uses' \in [Promos -> Nat]
    BY <1>3 DEF Commit, UsesWritten
  <2>3. /\ tx' \in [Workers -> TxRecord] /\ pc' \in [Workers -> Label]
        /\ rows' \in [Workers -> SUBSET RowSet]
    BY <1>0, NoTxType DEF IInv, TypeOK, Label
  <2> QED BY <1>0, <2>1, <2>2, <2>3 DEF IInv, TypeOK
<1>5. PromoCap'
  BY <1>3 DEF PromoCap
<1>6. Exclusive'
  BY <1>0 DEF IInv, TypeOK, Exclusive
<1>7. CatalogOK'
  BY <1>0, <1>2 DEF IInv, CatalogOK
<1>8. ASSUME NEW v \in Workers PROVE WorkerOK(v)'
  <2>1. CASE v = w
    <3>1. tx'[v] = NoTx /\ rows'[v] = {} /\ pc'[v] = "idle"
      BY <1>0, <2>1 DEF IInv, TypeOK
    <3>2. Underway(v)'
      BY <3>1 DEF Underway, NoTx
    <3>3. Covered(v)'
      <4>1. MaxInt \in Nat
        BY RowsAssumption
      <4> QED BY <1>1, <3>1, <4>1 DEF Covered, NoTx, NoQuantity, Stock
    <3>4. UseCovered(v)'
      BY <3>1 DEF UseCovered, NoTx
    <3> QED BY <3>2, <3>3, <3>4 DEF WorkerOK
  <2>2. CASE v # w
    <3>1. tx'[v] = tx[v] /\ pc'[v] = pc[v] /\ rows'[v] = rows[v]
      BY <1>0, <2>2 DEF IInv, TypeOK
    <3>2. Underway(v)'
      <4>1. \A i \in 1 .. Len(tx[v].olds) : tx[v].olds[i] \in Products
        BY ElementOfSeq DEF IInv, TypeOK, TxRecord
      <4> QED BY <1>2, <3>1, <4>1 DEF Underway, IInv, WorkerOK
    <3>3. Covered(v)'
      <4> SUFFICES ASSUME NEW p \in Products
                   PROVE  /\ tx[v].back[p] # 0 \/ tx[v].took[p] # 0 => ProductRow(p) \in rows[v]
                          /\ ProductRow(p) \in rows[v] => Exists(p)
                          /\ Stock(w, p) + tx[v].back[p] - tx[v].took[p] \in 0 .. MaxInt
        BY <1>1, <1>2, <3>1 DEF Covered, Stock
      <4>1. /\ tx[v].back[p] # 0 \/ tx[v].took[p] # 0 => ProductRow(p) \in rows[v]
            /\ ProductRow(p) \in rows[v] => Exists(p)
            /\ products[p].stock + tx[v].back[p] - tx[v].took[p] \in 0 .. MaxInt
        BY DEF IInv, WorkerOK, Covered, Stock
      <4>2. tx[w].back[p] # 0 \/ tx[w].took[p] # 0 => ProductRow(p) \in rows[w]
        BY DEF IInv, WorkerOK, Covered
      <4>3. ProductRow(p) \in rows[v] => ProductRow(p) \notin rows[w]
        BY <2>2 DEF IInv, Exclusive
      <4>4. products[p].stock \in Nat
        BY DEF IInv, TypeOK, ProductRecord
      <4>5. CASE ProductRow(p) \in rows[v]
        <5>1. tx[w].back[p] = 0 /\ tx[w].took[p] = 0
          BY <4>2, <4>3, <4>5
        <5>2. Stock(w, p) = products[p].stock
          BY <4>4, <5>1 DEF Stock
        <5> QED BY <4>1, <5>2
      <4>6. CASE ProductRow(p) \notin rows[v]
        <5>1. tx[v].back[p] = 0 /\ tx[v].took[p] = 0
          BY <4>1, <4>6
        <5> QED BY <1>1, <4>1, <4>6, <5>1
      <4> QED BY <4>5, <4>6
    <3>4. UseCovered(v)'
      <4> SUFFICES ASSUME tx[v].used # 0
                   PROVE  /\ tx[v].code \in Promos /\ PromoRow(tx[v].code) \in rows[v]
                          /\ uses'[tx[v].code] + tx[v].used \in 0 .. Terms[tx[v].code].max
        BY <3>1 DEF UseCovered
      <4>1. /\ tx[v].code \in Promos /\ PromoRow(tx[v].code) \in rows[v]
            /\ uses[tx[v].code] + tx[v].used \in 0 .. Terms[tx[v].code].max
        BY DEF IInv, WorkerOK, UseCovered
      <4>2. tx[v].code # tx[w].code \/ tx[w].used = 0
        BY <2>2, <4>1 DEF IInv, WorkerOK, UseCovered, Exclusive
      <4> QED BY <1>3, <4>1, <4>2
    <3> QED BY <3>2, <3>3, <3>4 DEF WorkerOK
  <2> QED BY <2>1, <2>2
<1> QED BY <1>4, <1>5, <1>6, <1>7, <1>8 DEF IInv

LEMMA OperationType ==
    ASSUME IInv, NEW w \in Workers, pc[w] # "idle", LogOperation(w)
    PROVE  \A op \in ops' : op \in [user : Users, type : {"CREATE_ORDER", "UPDATE_ORDER"}, at : Nat]
<1>1. tx[w].user \in Users /\ tx[w].began \in Nat
  BY DEF IInv, TypeOK, WorkerOK, Underway, TxRecord
<1>2. Operation(w) \in {"CREATE_ORDER", "UPDATE_ORDER"}
  BY DEF Operation
<1> QED BY <1>1, <1>2 DEF LogOperation, IInv, TypeOK

\* What a worker has reserved exists, so the order it writes names products.
LEMMA TookExists ==
    ASSUME IInv, NEW w \in Workers
    PROVE  /\ tx[w].took \in Count /\ tx[w].total \in Nat /\ tx[w].discount \in Nat
           /\ tx[w].promo \in Promos \cup {None} /\ tx[w].began \in Nat
           /\ tx[w].user \in Users \cup {None}
           /\ \A p \in Products : tx[w].took[p] # 0 => Exists(p)
<1>1. tx[w] \in TxRecord
  BY DEF IInv, TypeOK
<1>2. \A p \in Products : tx[w].took[p] # 0 => Exists(p)
  BY DEF IInv, WorkerOK, Covered
<1> QED BY <1>1, <1>2 DEF TxRecord

LEMMA CommitCreateStep ==
    ASSUME IInv, NEW w \in Workers, CommitCreate(w), UNCHANGED <<now, edits>>
    PROVE  IInv'
<1>1. PICK o \in OrderIds : orders' = [orders EXCEPT ![o] = Placed(w)]
  BY DEF CommitCreate
<1>2. Placed(w) \in OrderRecord /\ Placed(w).items = tx[w].took
  BY TookExists DEF Placed, OrderRecord, OrderStatus
<1>3. orders' \in [OrderIds -> OrderRecord]
  BY <1>1, <1>2 DEF IInv, TypeOK
<1>4. \A i \in OrderIds, p \in Products : orders'[i].items[p] # 0 => Exists(p)
  BY <1>1, <1>2, TookExists DEF IInv, TypeOK, CatalogOK
<1>5. Commit(w) /\ LogOperation(w) /\ pc[w] # "idle"
  BY DEF CommitCreate, Commit
<1> QED BY <1>3, <1>4, <1>5, OperationType, CommitStep

LEMMA CommitUpdateStep ==
    ASSUME IInv, NEW w \in Workers, CommitUpdate(w), UNCHANGED <<now, edits>>
    PROVE  IInv'
<1> DEFINE o == tx[w].order
<1>1. o \in OrderIds /\ orders[o] \in OrderRecord
  BY DEF CommitUpdate, IInv, TypeOK, WorkerOK, Underway
<1>2. orders' = [orders EXCEPT ![o] = Revised(w, orders[o])]
  BY DEF CommitUpdate
<1>3. Revised(w, orders[o]) \in OrderRecord /\ Revised(w, orders[o]).items = tx[w].took
  BY <1>1, TookExists DEF Revised, OrderRecord
<1>4. orders' \in [OrderIds -> OrderRecord]
  BY <1>2, <1>3 DEF IInv, TypeOK
<1>5. \A i \in OrderIds, p \in Products : orders'[i].items[p] # 0 => Exists(p)
  BY <1>1, <1>2, <1>3, TookExists DEF IInv, TypeOK, CatalogOK
<1>6. Commit(w) /\ LogOperation(w) /\ pc[w] # "idle"
  BY DEF CommitUpdate, Commit
<1> QED BY <1>4, <1>5, <1>6, OperationType, CommitStep

LEMMA CommitCancelStep ==
    ASSUME IInv, NEW w \in Workers, CommitCancel(w), UNCHANGED <<now, edits>>
    PROVE  IInv'
<1> DEFINE o == tx[w].order
<1>1. o \in OrderIds /\ orders[o] \in OrderRecord
  BY DEF CommitCancel, IInv, TypeOK, WorkerOK, Underway
<1>2. orders' = [orders EXCEPT ![o] = [orders[o] EXCEPT !.status = "CANCELED"]]
  BY DEF CommitCancel
<1>3. /\ [orders[o] EXCEPT !.status = "CANCELED"] \in OrderRecord
      /\ [orders[o] EXCEPT !.status = "CANCELED"].items = orders[o].items
  BY <1>1 DEF OrderRecord, OrderStatus
<1>4. orders' \in [OrderIds -> OrderRecord]
  BY <1>2, <1>3 DEF IInv, TypeOK
<1>5. \A i \in OrderIds, p \in Products : orders'[i].items[p] # 0 => Exists(p)
  BY <1>1, <1>2, <1>3 DEF IInv, TypeOK, CatalogOK
<1>6. Commit(w) /\ ops' = ops
  BY DEF CommitCancel
<1>7. \A op \in ops' : op \in [user : Users, type : {"CREATE_ORDER", "UPDATE_ORDER"}, at : Nat]
  BY <1>6 DEF IInv, TypeOK
<1> QED BY <1>4, <1>5, <1>6, <1>7, CommitStep

LEMMA StatementStep ==
    ASSUME IInv, NEW w \in Workers, Statement(w), UNCHANGED <<now, edits>>
    PROVE  IInv'
<1>1. CASE CreateRateLimit(w)
  BY <1>1, RollbackStep, AdvanceStep DEF CreateRateLimit
<1>2. CASE CheckNoActiveOrder(w)
  BY <1>2, RollbackStep, AdvanceStep DEF CheckNoActiveOrder
<1>3. CASE UpdateLockOrder(w) \/ UpdateRateLimit(w) \/ CancelLockOrder(w)
  BY <1>3, UpdateLockOrderStep, UpdateRateLimitStep, CancelLockOrderStep
<1>4. CASE ReleaseItem(w) \/ ReserveItem(w)
  BY <1>4, ReleaseItemStep, ReserveItemStep
<1>5. CASE RedeemPromo(w) \/ ReviewPromo(w) \/ ReturnPromo(w)
  BY <1>5, RedeemPromoStep, ReviewPromoStep, ReturnPromoStep
<1>6. CASE CommitCreate(w) \/ CommitUpdate(w) \/ CommitCancel(w)
  BY <1>6, CommitCreateStep, CommitUpdateStep, CommitCancelStep
<1> QED BY <1>1, <1>2, <1>3, <1>4, <1>5, <1>6 DEF Statement

-----------------------------------------------------------------------------
(* Catalog steps.  One product row changes, and no worker holds it or it   *)
(* keeps its stock.                                                        *)

LEMMA ShelfStep ==
    ASSUME IInv, NEW p \in Products, NEW row \in ProductRecord,
           products' = [products EXCEPT ![p] = row],
           row.status # "NONE",
           Unlocked(p) \/ row.stock = products[p].stock,
           UNCHANGED others, edits' \in [Editors -> EditRecord],
           \A e \in Editors : edits'[e] # NoEdit => /\ edits'[e].product \in Products
                                                    /\ edits'[e].row.status # "NONE"
    PROVE  IInv'
<1>1. \A q \in Products : /\ Exists(q) => Exists(q)'
                          /\ q # p => products'[q] = products[q]
  BY DEF Exists, IInv, TypeOK
<1>2. products'[p] = row
  BY DEF IInv, TypeOK
<1>3. TypeOK'
  BY DEF IInv, TypeOK, others
<1>4. PromoCap' /\ Exclusive'
  BY DEF IInv, PromoCap, Exclusive, others
<1>5. CatalogOK'
  BY <1>1 DEF IInv, CatalogOK, others
<1>6. ASSUME NEW w \in Workers PROVE WorkerOK(w)'
  <2>1. Underway(w)'
    <3>1. \A i \in 1 .. Len(tx[w].olds) : tx[w].olds[i] \in Products
      BY ElementOfSeq DEF IInv, TypeOK, TxRecord
    <3> QED BY <1>1, <3>1 DEF Underway, IInv, WorkerOK, others
  <2>2. Covered(w)'
    <3> SUFFICES ASSUME NEW q \in Products
                 PROVE  /\ tx[w].back[q] # 0 \/ tx[w].took[q] # 0 => ProductRow(q) \in rows[w]
                        /\ ProductRow(q) \in rows[w] => Exists(q)'
                        /\ products'[q].stock + tx[w].back[q] - tx[w].took[q] \in 0 .. MaxInt
      BY DEF Covered, Stock, others
    <3>1. /\ tx[w].back[q] # 0 \/ tx[w].took[q] # 0 => ProductRow(q) \in rows[w]
          /\ ProductRow(q) \in rows[w] => Exists(q)
          /\ products[q].stock + tx[w].back[q] - tx[w].took[q] \in 0 .. MaxInt
      BY DEF IInv, WorkerOK, Covered, Stock
    <3>2. CASE q # p \/ row.stock = products[p].stock
      <4>1. products'[q].stock = products[q].stock
        BY <1>1, <1>2, <3>2
      <4> QED BY <1>1, <3>1, <4>1
    <3>3. CASE q = p /\ Unlocked(p)
      <4>1. tx[w].back[q] = 0 /\ tx[w].took[q] = 0
        BY <3>1, <3>3 DEF Unlocked
      <4>2. products'[q].stock \in 0 .. MaxInt /\ MaxInt \in Nat
        BY <1>2, <3>3, RowsAssumption DEF ProductRecord
      <4> QED BY <1>1, <3>1, <4>1, <4>2
    <3> QED BY <3>2, <3>3
  <2>3. UseCovered(w)'
    BY DEF UseCovered, IInv, WorkerOK, others
  <2> QED BY <2>1, <2>2, <2>3 DEF WorkerOK
<1> QED BY <1>3, <1>4, <1>5, <1>6 DEF IInv

\* A step that changes nothing the workers look at.
LEMMA QuietStep ==
    ASSUME IInv, UNCHANGED <<products, uses, orders, ops, pc, tx, rows>>,
           issued' \subseteq Promos, now' \in Nat, edits' \in [Editors -> EditRecord],
           \A e \in Editors : edits'[e] # NoEdit => /\ edits'[e].product \in Products
                                                    /\ edits'[e].row.status # "NONE"
    PROVE  IInv'
<1>1. TypeOK'
  BY DEF IInv, TypeOK
<1>2. PromoCap' /\ Exclusive' /\ CatalogOK'
  BY DEF IInv, PromoCap, Exclusive, CatalogOK, Exists
<1>3. \A w \in Workers : WorkerOK(w)'
  BY DEF IInv, WorkerOK, Underway, Covered, UseCovered, Stock, Exists
<1> QED BY <1>1, <1>2, <1>3 DEF IInv

LEMMA NoEditType == NoEdit \in EditRecord
<1>1. MaxInt \in Nat
  BY RowsAssumption
<1>2. NoProduct \in ProductRecord
  BY <1>1 DEF NoProduct, ProductRecord, ProductStatus
<1> QED BY <1>2 DEF NoEdit, EditRecord

LEMMA EditsOK ==
    ASSUME IInv
    PROVE  /\ edits \in [Editors -> EditRecord]
           /\ \A e \in Editors : edits[e] # NoEdit => /\ edits[e].product \in Products
                                                      /\ edits[e].row.status # "NONE"
  BY DEF IInv, TypeOK, CatalogOK

LEMMA OverlayType ==
    ASSUME NEW row \in ProductRecord, NEW body \in Bodies, row.status # "NONE"
    PROVE  Overlay(row, body) \in ProductRecord /\ Overlay(row, body).status # "NONE"
<1>1. body.price = None \/ body.price \in Nat
  BY CatalogAssumption
<1>2. DecodedStock(body) \in 0 .. MaxInt
  BY CatalogAssumption, RowsAssumption DEF DecodedStock
<1>3. body.status = None \/ body.status \in ProductStatus \ {"NONE"}
  BY CatalogAssumption
<1> QED BY <1>1, <1>2, <1>3 DEF Overlay, ProductRecord

LEMMA CatalogRequestStep ==
    ASSUME IInv, CatalogRequest
    PROVE  IInv'
<1>1. ASSUME NEW u \in Users, NEW p \in Products, NEW row \in NewRows, CreateProduct(u, p, row)
      PROVE  IInv'
  <2> DEFINE new == [status |-> row.status, price |-> row.price, stock |-> row.stock, seller |-> u]
  <2>1. new \in ProductRecord /\ new.status # "NONE"
    BY CatalogAssumption DEF ProductRecord
  <2>2. products' = [products EXCEPT ![p] = new] /\ UNCHANGED <<others, edits>> /\ ~Exists(p)
    BY <1>1 DEF CreateProduct
  <2>3. Unlocked(p)
    BY <2>2 DEF Unlocked, IInv, WorkerOK, Covered
  <2> HIDE DEF new
  <2> QED BY <2>1, <2>2, <2>3, EditsOK, ShelfStep
<1>2. ASSUME NEW u \in Users, NEW p \in Products, NEW e \in Editors, NEW body \in Bodies,
             BeginEdit(e, u, p, body)
      PROVE  IInv'
  <2> DEFINE new == [product |-> p, body |-> body, row |-> Overlay(products[p], body)]
  <2>1. Overlay(products[p], body) \in ProductRecord /\ Overlay(products[p], body).status # "NONE"
    BY <1>2, OverlayType DEF BeginEdit, Exists, IInv, TypeOK
  <2>2. new \in EditRecord /\ new.product = p /\ new.row.status # "NONE"
    BY <2>1 DEF EditRecord
  <2>3. edits' = [edits EXCEPT ![e] = new] /\ UNCHANGED <<others, products>>
    BY <1>2 DEF BeginEdit
  <2> HIDE DEF new
  <2>4. /\ edits' \in [Editors -> EditRecord]
        /\ \A i \in Editors : edits'[i] # NoEdit => /\ edits'[i].product \in Products
                                                    /\ edits'[i].row.status # "NONE"
    BY <2>2, <2>3, EditsOK
  <2>5. /\ UNCHANGED <<products, uses, orders, ops, pc, tx, rows>>
        /\ issued' \subseteq Promos /\ now' \in Nat
    BY <2>3 DEF others, IInv, TypeOK
  <2> QED BY <2>4, <2>5, QuietStep
<1>3. ASSUME NEW u \in Users, NEW p \in Products, DeleteProduct(u, p)
      PROVE  IInv'
  <2> DEFINE new == [products[p] EXCEPT !.status = "ARCHIVED"]
  <2>1. /\ products' = [products EXCEPT ![p] = new] /\ UNCHANGED <<others, edits>> /\ Unlocked(p)
    BY <1>3 DEF DeleteProduct
  <2>2. new \in ProductRecord /\ new.status # "NONE"
    BY DEF ProductRecord, ProductStatus, IInv, TypeOK
  <2> HIDE DEF new
  <2> QED BY <2>1, <2>2, EditsOK, ShelfStep
<1>4. ASSUME NEW u \in Users, NEW c \in Promos, CreatePromoCode(u, c)
      PROVE  IInv'
  <2>1. /\ UNCHANGED <<products, uses, orders, ops, pc, tx, rows, edits>>
        /\ issued' \subseteq Promos /\ now' \in Nat
    BY <1>4 DEF CreatePromoCode, IInv, TypeOK
  <2> QED BY <2>1, EditsOK, QuietStep
<1> QED BY <1>1, <1>2, <1>3, <1>4 DEF CatalogRequest

LEMMA CatalogStepStep ==
    ASSUME IInv, CatalogStep
    PROVE  IInv'
<1>1. PICK e \in Editors : WriteProduct(e) \/ EditFails(e)
  BY DEF CatalogStep
<1>2. edits' = [edits EXCEPT ![e] = NoEdit] /\ UNCHANGED others
  BY <1>1 DEF WriteProduct, EditFails
<1>3. /\ edits' \in [Editors -> EditRecord]
      /\ \A i \in Editors : edits'[i] # NoEdit => /\ edits'[i].product \in Products
                                                  /\ edits'[i].row.status # "NONE"
  BY <1>2, EditsOK, NoEditType
<1>4. CASE WriteProduct(e)
  <2> DEFINE p == edits[e].product
             row == edits[e].row
  <2>1. /\ p \in Products /\ row \in ProductRecord /\ row.status # "NONE"
        /\ Unlocked(p) /\ products' = [products EXCEPT ![p] = row]
    BY <1>4, EditsOK DEF WriteProduct, EditRecord
  <2> HIDE DEF p, row
  <2> QED BY <1>2, <1>3, <2>1, ShelfStep
<1>5. CASE EditFails(e)
  <2>1. /\ UNCHANGED <<products, uses, orders, ops, pc, tx, rows>>
        /\ issued' \subseteq Promos /\ now' \in Nat
    BY <1>2, <1>5 DEF EditFails, others, IInv, TypeOK
  <2> QED BY <1>3, <2>1, QuietStep
<1> QED BY <1>1, <1>4, <1>5

-----------------------------------------------------------------------------
(* The theorems.                                                           *)

LEMMA NextInvariant == IInv /\ [Next]_vars => IInv'
<1> SUFFICES ASSUME IInv, [Next]_vars PROVE IInv'
  OBVIOUS
<1>1. ASSUME NEW w \in Workers, OrderRequest(w) /\ UNCHANGED edits PROVE IInv'
  BY <1>1, OrderRequestStep
<1>2. ASSUME NEW w \in Workers, Serve(w) PROVE IInv'
  BY <1>2, StatementStep DEF Serve
<1>3. ASSUME NEW w \in Workers, Abort(w) PROVE IInv'
  BY <1>3, RollbackStep DEF Abort, DeadlockVictim, Interrupt
<1>4. CASE CatalogRequest
  BY <1>4, CatalogRequestStep
<1>5. CASE CatalogStep
  BY <1>5, CatalogStepStep
<1>6. CASE Tick
  <2>1. /\ UNCHANGED <<products, uses, orders, ops, pc, tx, rows, edits>>
        /\ issued' \subseteq Promos /\ now' \in Nat
    BY <1>6 DEF Tick, IInv, TypeOK
  <2> QED BY <2>1, EditsOK, QuietStep
<1>7. CASE UNCHANGED vars
  <2>1. /\ UNCHANGED <<products, uses, orders, ops, pc, tx, rows, edits>>
        /\ issued' \subseteq Promos /\ now' \in Nat
    BY <1>7 DEF vars, IInv, TypeOK
  <2> QED BY <2>1, EditsOK, QuietStep
<1> QED BY <1>1, <1>2, <1>3, <1>4, <1>5, <1>6, <1>7 DEF Next, OrdersNext

\* The inductive invariant holds in every reachable state.
THEOREM Invariance == Spec => []IInv
  BY InitInvariant, NextInvariant, PTL DEF Spec

\* Types are kept, and with them the shelf: no interleaving of creations,
\* updates, cancellations, PUTs and failures drives a stock below zero or past
\* the range of its column.
THEOREM TypeCorrect == Spec => []TypeOK
<1>1. IInv => TypeOK
  BY DEF IInv
<1> QED BY <1>1, Invariance, PTL

\* However many orders race for a promo code, it is never used more often than
\* its max_uses allows.
THEOREM PromoCapHolds == Spec => []PromoCap
<1>1. IInv => PromoCap
  BY DEF IInv
<1> QED BY <1>1, Invariance, PTL
=============================================================================

---------------------------- MODULE SalesProofs ----------------------------
(***************************************************************************)
(* What an order costs and why a request is refused, for any number of     *)
(* requests, users, products and codes and baskets of any length.  Both    *)
(* are about sums: over the products of an order and the lines of a basket.*)
(***************************************************************************)
EXTENDS Answers, OrderProofs

(***************************************************************************)
(* Sums over a finite set.                                                 *)
(***************************************************************************)

Some(A) == CHOOSE x \in A : TRUE

LEMMA SomeIn == \A A : A # {} => Some(A) \in A
  BY DEF Some

\* Induction over the subsets of a finite set, for the set of those that are
\* as they should be: otherwise there were a smallest one that is not.
LEMMA AllSubsets ==
    ASSUME NEW S, IsFiniteSet(S), NEW Good \in SUBSET SUBSET S,
           \A A \in SUBSET S : (\A B \in SUBSET A : B # A => B \in Good) => A \in Good
    PROVE  Good = SUBSET S
<1> DEFINE Bad == (SUBSET S) \ Good
<1>1. IsWellFoundedOn(StrictSubsetOrdering(S), SUBSET S)
  BY FS_StrictSubsetOrderingWellFounded, FS_FiniteSubsetsOfFinite
<1>2. Bad \subseteq SUBSET S
  OBVIOUS
<1> HIDE DEF Bad
<1>3. ASSUME Bad # {} PROVE FALSE
  <2>1. PICK A \in Bad : \A B \in Bad : <<B, A>> \notin StrictSubsetOrdering(S)
    BY <1>1, <1>2, <1>3, WFMin
  <2>2. \A B \in SUBSET A : B # A => B \notin Bad
    BY <1>2, <2>1 DEF StrictSubsetOrdering
  <2> QED BY <1>2, <2>1, <2>2 DEF Bad
<1> QED BY <1>3 DEF Bad

\* The same, when it is enough to look at the set without one of its members.
LEMMA AllParts ==
    ASSUME NEW S, IsFiniteSet(S), NEW Good \in SUBSET SUBSET S, {} \in Good,
           \A A \in SUBSET S : A # {} /\ A \ {Some(A)} \in Good => A \in Good
    PROVE  Good = SUBSET S
<1>1. ASSUME NEW A \in SUBSET S, \A B \in SUBSET A : B # A => B \in Good
      PROVE  A \in Good
  <2>1. CASE A = {}
    BY <2>1
  <2>2. CASE A # {}
    <3>1. A \ {Some(A)} \in SUBSET A /\ A \ {Some(A)} # A
      BY <2>2, SomeIn
    <3>2. A \ {Some(A)} \in Good
      BY <1>1, <3>1
    <3> QED BY <2>2, <3>2
  <2> QED BY <2>1, <2>2
<1> QED BY <1>1, AllSubsets

\* The equation of the fold in MapThenSumSet, for summands given by f.
Sums(it, f, S) ==
    it = [A \in SUBSET S |-> IF A = {} THEN 0 ELSE f[Some(A)] + it[A \ {Some(A)}]]

LEMMA SumsStep ==
    ASSUME NEW S, NEW f, NEW it, Sums(it, f, S)
    PROVE  /\ it[{}] = 0
           /\ \A A \in SUBSET S : A # {} => /\ Some(A) \in A
                                            /\ A \ {Some(A)} \in SUBSET S
                                            /\ it[A] = f[Some(A)] + it[A \ {Some(A)}]
<1>1. ASSUME NEW A \in SUBSET S
      PROVE  it[A] = IF A = {} THEN 0 ELSE f[Some(A)] + it[A \ {Some(A)}]
  BY DEF Sums
<1> QED BY <1>1, SomeIn

LEMMA SumsInt ==
    ASSUME NEW S, IsFiniteSet(S), NEW f \in [S -> Int], NEW it, Sums(it, f, S)
    PROVE  \A A \in SUBSET S : it[A] \in Int
<1> DEFINE Good == {A \in SUBSET S : it[A] \in Int}
<1>1. {} \in Good
  BY SumsStep
<1>2. ASSUME NEW A \in SUBSET S, A # {}, A \ {Some(A)} \in Good
      PROVE  A \in Good
  <2>1. Some(A) \in A /\ it[A] = f[Some(A)] + it[A \ {Some(A)}]
    BY <1>2, SumsStep
  <2>2. f[Some(A)] \in Int /\ it[A \ {Some(A)}] \in Int
    BY <1>2, <2>1
  <2> QED BY <2>1, <2>2
<1>3. Good \in SUBSET SUBSET S
  OBVIOUS
<1> HIDE DEF Good
<1>4. Good = SUBSET S
  BY <1>1, <1>2, <1>3, AllParts
<1> QED BY <1>4 DEF Good

\* Two tables of sums agree where they overlap.
LEMMA SumsAgree ==
    ASSUME NEW S, IsFiniteSet(S), NEW f, NEW it, Sums(it, f, S),
           NEW T, S \subseteq T, NEW jt, Sums(jt, f, T)
    PROVE  \A A \in SUBSET S : it[A] = jt[A]
<1> DEFINE Good == {A \in SUBSET S : it[A] = jt[A]}
<1>1. {} \in Good
  BY SumsStep
<1>2. ASSUME NEW A \in SUBSET S, A # {}, A \ {Some(A)} \in Good
      PROVE  A \in Good
  <2>1. it[A] = f[Some(A)] + it[A \ {Some(A)}]
    BY <1>2, SumsStep
  <2>2. A \in SUBSET T
    OBVIOUS
  <2>3. jt[A] = f[Some(A)] + jt[A \ {Some(A)}]
    BY <1>2, <2>2, SumsStep
  <2> QED BY <1>2, <2>1, <2>3
<1>3. Good \in SUBSET SUBSET S
  OBVIOUS
<1> HIDE DEF Good
<1>4. Good = SUBSET S
  BY <1>1, <1>2, <1>3, AllParts
<1> QED BY <1>4 DEF Good

\* The sum of f over S.
Total(f, S) == (CHOOSE it : Sums(it, f, S))[S]

LEMMA TotalIs ==
    ASSUME NEW S, IsFiniteSet(S), NEW f, NEW it, Sums(it, f, S)
    PROVE  Total(f, S) = it[S]
<1>1. PICK jt : jt = CHOOSE h : Sums(h, f, S)
  OBVIOUS
<1>2. Sums(jt, f, S) /\ Total(f, S) = jt[S]
  BY <1>1 DEF Total
<1>3. \A A \in SUBSET S : jt[A] = it[A]
  BY <1>2, SumsAgree
<1> QED BY <1>2, <1>3

\* There is always a sum: the table for S is put together from those of its parts.
LEMMA SumsExist ==
    ASSUME NEW S, IsFiniteSet(S), NEW f
    PROVE  \E it : Sums(it, f, S)
<1> DEFINE Good == {A \in SUBSET S : \E it : Sums(it, f, A)}
<1>1. ASSUME NEW A \in SUBSET S, \A B \in SUBSET A : B # A => B \in Good
      PROVE  A \in Good
  <2>1. \A B \in SUBSET A : B # A => \E it : Sums(it, f, B)
    BY <1>1
  <2>2. \A B \in SUBSET A : IsFiniteSet(B)
    BY FS_Subset
  <2> HIDE DEF Good
  <2> DEFINE W(B) == IF B = {} THEN 0 ELSE f[Some(B)] + Total(f, B \ {Some(B)})
             it == [B \in SUBSET A |-> W(B)]
  <2>3. ASSUME NEW B \in SUBSET A, B # A
        PROVE  W(B) = Total(f, B)
    <3>1. PICK jt : Sums(jt, f, B)
      BY <2>1, <2>3
    <3>2. Total(f, B) = jt[B]
      BY <2>2, <3>1, TotalIs
    <3>3. CASE B = {}
      BY <3>1, <3>2, <3>3, SumsStep
    <3>4. ASSUME B # {} PROVE W(B) = Total(f, B)
      <4>1. PICK C : C = B \ {Some(B)}
        OBVIOUS
      <4>2. Some(B) \in B /\ jt[B] = f[Some(B)] + jt[C]
        BY <3>1, <3>4, <4>1, SumsStep
      <4>3. C \in SUBSET A /\ C # A /\ C \subseteq B
        BY <4>1, <4>2
      <4>4. PICK kt : Sums(kt, f, C)
        BY <2>1, <4>3
      <4>5. Total(f, C) = kt[C]
        BY <2>2, <4>3, <4>4, TotalIs
      <4>6. \A D \in SUBSET C : kt[D] = jt[D]
        BY <2>2, <3>1, <4>3, <4>4, SumsAgree
      <4> QED BY <3>2, <3>4, <4>1, <4>2, <4>5, <4>6
    <3> QED BY <3>3, <3>4
  <2>4. ASSUME NEW B \in SUBSET A
        PROVE  W(B) = IF B = {} THEN 0 ELSE f[Some(B)] + it[B \ {Some(B)}]
    <3>1. CASE B = {}
      BY <3>1
    <3>2. ASSUME B # {} PROVE W(B) = f[Some(B)] + it[B \ {Some(B)}]
      <4>1. PICK C : C = B \ {Some(B)}
        OBVIOUS
      <4>2. C \in SUBSET A /\ C # A
        BY <3>2, <4>1, SomeIn
      <4>3. W(C) = Total(f, C)
        BY <2>3, <4>2
      <4>4. it[C] = W(C)
        BY <4>2
      <4>5. W(B) = f[Some(B)] + Total(f, C)
        BY <3>2, <4>1
      <4> HIDE DEF W, it
      <4> QED BY <4>1, <4>3, <4>4, <4>5
    <3> QED BY <3>1, <3>2
  <2>5. it = [B \in SUBSET A |-> IF B = {} THEN 0 ELSE f[Some(B)] + it[B \ {Some(B)}]]
    <3> HIDE DEF W
    <3> QED BY <2>4
  <2>6. Sums(it, f, A)
    BY <2>5 DEF Sums
  <2> HIDE DEF it, W
  <2> QED BY <2>6 DEF Good
<1>2. Good \in SUBSET SUBSET S
  OBVIOUS
<1> HIDE DEF Good
<1>3. Good = SUBSET S
  BY <1>1, <1>2, AllSubsets
<1> QED BY <1>3 DEF Good

LEMMA TotalIsFold ==
    ASSUME NEW S, IsFiniteSet(S), NEW f
    PROVE  MapThenSumSet(LAMBDA p : f[p], S) = Total(f, S)
<1>1. \E it : Sums(it, f, S)
  BY SumsExist
<1> QED BY <1>1 DEF MapThenSumSet, MapThenFoldSet, Sums, Total, Some

LEMMA TotalZero ==
    ASSUME NEW S, IsFiniteSet(S), NEW f \in [S -> Int], \A p \in S : f[p] = 0
    PROVE  Total(f, S) = 0
<1>1. PICK it : Sums(it, f, S)
  BY SumsExist
<1> DEFINE Good == {A \in SUBSET S : it[A] = 0}
<1>2. {} \in Good
  BY <1>1, SumsStep
<1>3. ASSUME NEW A \in SUBSET S, A # {}, A \ {Some(A)} \in Good
      PROVE  A \in Good
  <2>1. Some(A) \in A /\ it[A] = f[Some(A)] + it[A \ {Some(A)}]
    BY <1>1, <1>3, SumsStep
  <2> QED BY <1>3, <2>1
<1>4. Good \in SUBSET SUBSET S
  OBVIOUS
<1> HIDE DEF Good
<1>5. Good = SUBSET S
  BY <1>2, <1>3, <1>4, AllParts
<1>6. it[S] = 0
  BY <1>5 DEF Good
<1> QED BY <1>1, <1>6, TotalIs

\* A sum changes by as much as one of its summands.
LEMMA TotalMoves ==
    ASSUME NEW S, IsFiniteSet(S), NEW f \in [S -> Int], NEW g \in [S -> Int],
           NEW p \in S, \A q \in S \ {p} : g[q] = f[q]
    PROVE  Total(f, S) \in Int /\ Total(g, S) = Total(f, S) + (g[p] - f[p])
<1>1. PICK it : Sums(it, f, S)
  BY SumsExist
<1>2. PICK jt : Sums(jt, g, S)
  BY SumsExist
<1>3. \A A \in SUBSET S : it[A] \in Int /\ jt[A] \in Int
  BY <1>1, <1>2, SumsInt
<1>4. /\ it[{}] = 0
      /\ \A A \in SUBSET S : A # {} => /\ Some(A) \in A
                                       /\ A \ {Some(A)} \in SUBSET S
                                       /\ it[A] = f[Some(A)] + it[A \ {Some(A)}]
  BY <1>1, SumsStep
<1>5. /\ jt[{}] = 0
      /\ \A A \in SUBSET S : A # {} => /\ Some(A) \in A
                                       /\ A \ {Some(A)} \in SUBSET S
                                       /\ jt[A] = g[Some(A)] + jt[A \ {Some(A)}]
  BY <1>2, SumsStep
<1> DEFINE Gain(A) == IF p \in A THEN g[p] - f[p] ELSE 0
           Good == {A \in SUBSET S : jt[A] = it[A] + Gain(A)}
<1>6. {} \in Good
  BY <1>4, <1>5
<1>7. ASSUME NEW A \in SUBSET S, A # {}, A \ {Some(A)} \in Good
      PROVE  A \in Good
  <2>1. PICK x, B : x = Some(A) /\ B = A \ {x}
    OBVIOUS
  <2>2. x \in A /\ it[A] = f[x] + it[B]
    BY <1>4, <1>5, <1>7, <2>1
  <2>3. jt[A] = g[x] + jt[B]
    BY <1>4, <1>5, <1>7, <2>1
  <2>4. B \in SUBSET S /\ jt[B] = it[B] + Gain(B)
    BY <1>7, <2>1
  <2>5. /\ it[B] \in Int /\ jt[B] \in Int
        /\ f[x] \in Int /\ g[x] \in Int /\ f[p] \in Int /\ g[p] \in Int
    BY <1>3, <2>2, <2>4
  <2>6. jt[A] = it[A] + Gain(A)
    <3>1. CASE x = p
      BY <2>1, <2>2, <2>3, <2>4, <2>5, <3>1
    <3>2. CASE x # p
      BY <2>1, <2>2, <2>3, <2>4, <2>5, <3>2
    <3> QED BY <3>1, <3>2
  <2> QED BY <2>6
<1>8. Good \in SUBSET SUBSET S
  OBVIOUS
<1> HIDE DEF Good
<1>9. Good = SUBSET S
  BY <1>6, <1>7, <1>8, AllParts
<1>10. jt[S] = it[S] + (g[p] - f[p])
  BY <1>9 DEF Good
<1> QED BY <1>1, <1>2, <1>3, <1>10, TotalIs

\* A sum of natural numbers is at least each of them.
LEMMA TotalCovers ==
    ASSUME NEW S, IsFiniteSet(S), NEW f \in [S -> Nat], NEW p \in S
    PROVE  Total(f, S) \in Nat /\ f[p] <= Total(f, S)
<1>1. PICK it : Sums(it, f, S)
  BY SumsExist
<1> DEFINE Good == {A \in SUBSET S : it[A] \in Nat /\ (p \in A => f[p] <= it[A])}
<1>2. {} \in Good
  BY <1>1, SumsStep
<1>3. ASSUME NEW A \in SUBSET S, A # {}, A \ {Some(A)} \in Good
      PROVE  A \in Good
  <2>1. PICK x, B : x = Some(A) /\ B = A \ {x}
    OBVIOUS
  <2>2. x \in A /\ it[A] = f[x] + it[B]
    BY <1>1, <1>3, <2>1, SumsStep
  <2>3. it[B] \in Nat /\ (p \in B => f[p] <= it[B])
    BY <1>3, <2>1
  <2>4. f[x] \in Nat /\ f[p] \in Nat /\ (p \in A => p = x \/ p \in B)
    BY <2>1, <2>2
  <2> QED BY <2>2, <2>3, <2>4
<1>4. Good \in SUBSET SUBSET S
  OBVIOUS
<1> HIDE DEF Good
<1>5. Good = SUBSET S
  BY <1>2, <1>3, <1>4, AllParts
<1>6. it[S] \in Nat /\ f[p] <= it[S]
  BY <1>5 DEF Good
<1> QED BY <1>1, <1>6, TotalIs

-----------------------------------------------------------------------------
(***************************************************************************)
(* What a request has to pay.                                              *)
(***************************************************************************)

\* The units w has taken, at the prices listed now.
Bill(w) == [p \in Products |-> products[p].price * tx[w].took[p]]

\* The total of a request is its bill at every moment: the rows of what it has
\* taken are locked, so no seller can change their prices.
Billed(w) == \A bill : bill = Bill(w) => tx[w].total = Total(bill, Products)

LEMMA BillType ==
    ASSUME TypeOK, NEW w \in Workers
    PROVE  /\ Bill(w) \in [Products -> Int]
           /\ \A p \in Products : products[p].price \in Nat /\ tx[w].took[p] \in Nat
           /\ tx[w].total \in Nat
<1>1. \A p \in Products : products[p].price \in Nat /\ tx[w].took[p] \in Nat
  BY DEF TypeOK, ProductRecord, TxRecord, Count
<1>2. tx[w].total \in Nat
  BY DEF TypeOK, TxRecord
<1>3. \A a, b \in Nat : a * b \in Int
  OBVIOUS
<1> QED BY <1>1, <1>2, <1>3 DEF Bill

LEMMA NothingBilled ==
    ASSUME TypeOK', NEW w \in Workers, tx'[w].total = 0, tx'[w].took = NoQuantity
    PROVE  Billed(w)'
<1>1. PICK bill : bill = Bill(w)'
  OBVIOUS
<1>2. \A p \in Products : products'[p].price \in Nat
  BY DEF TypeOK, ProductRecord
<1>3. \A n \in Nat : n * 0 = 0
  OBVIOUS
<1>4. bill \in [Products -> Int] /\ \A p \in Products : bill[p] = 0
  BY <1>1, <1>2, <1>3 DEF Bill, NoQuantity
<1>5. Total(bill, Products) = 0
  BY <1>4, TotalZero, RowsAssumption
<1> QED BY <1>1, <1>5 DEF Billed

LEMMA StillBilled ==
    ASSUME TypeOK, TypeOK', NEW w \in Workers, Billed(w),
           tx'[w].total = tx[w].total, tx'[w].took = tx[w].took,
           \A p \in Products : tx[w].took[p] # 0 => products'[p].price = products[p].price
    PROVE  Billed(w)'
<1>1. \A p \in Products : /\ products[p].price \in Nat /\ products'[p].price \in Nat
                          /\ tx[w].took[p] \in Nat
  BY DEF TypeOK, ProductRecord, TxRecord, Count
<1>2. \A n \in Nat : n * 0 = 0
  OBVIOUS
<1>3. \A p \in Products : products'[p].price * tx[w].took[p] = products[p].price * tx[w].took[p]
  BY <1>1, <1>2
<1>4. Bill(w)' = Bill(w)
  BY <1>3 DEF Bill
<1> QED BY <1>4 DEF Billed

LEMMA MoreBilled ==
    ASSUME TypeOK, TypeOK', NEW w \in Workers, Billed(w), NEW p \in Products, NEW n \in Nat,
           products' = products,
           tx'[w].took = [tx[w].took EXCEPT ![p] = @ + n],
           tx'[w].total = tx[w].total + products[p].price * n
    PROVE  Billed(w)'
<1>1. PICK old : old = Bill(w)
  OBVIOUS
<1>2. PICK new : new = Bill(w)'
  OBVIOUS
<1>3. old \in [Products -> Int] /\ tx[w].total = Total(old, Products)
  BY <1>1, BillType DEF Billed
<1>4. \A q \in Products : products[q].price \in Nat /\ tx[w].took[q] \in Nat
  BY BillType
<1>5. tx[w].took \in [Products -> Nat]
  BY DEF TypeOK, TxRecord, Count
<1>6. \A a, b \in Nat : a * b \in Int
  OBVIOUS
<1>7. new \in [Products -> Int]
  BY <1>2, <1>4, <1>5, <1>6 DEF Bill
<1>8. \A q \in Products \ {p} : new[q] = old[q]
  BY <1>1, <1>2, <1>5 DEF Bill
<1>9. new[p] - old[p] = products[p].price * n
  <2>1. \A a, b, c \in Nat : a * (b + c) - a * b = a * c
    OBVIOUS
  <2>2. new[p] = products[p].price * (tx[w].took[p] + n) /\ old[p] = products[p].price * tx[w].took[p]
    BY <1>1, <1>2, <1>5 DEF Bill
  <2> QED BY <1>4, <2>1, <2>2
<1>10. Total(new, Products) = Total(old, Products) + (new[p] - old[p])
  BY <1>3, <1>7, <1>8, TotalMoves, RowsAssumption
<1> QED BY <1>2, <1>3, <1>9, <1>10 DEF Billed

\* Nobody changes the price of a product whose row a request has locked.
LEMMA PriceHeld ==
    ASSUME IInv, [Next]_vars, NEW w \in Workers, NEW p \in Products, ProductRow(p) \in rows[w]
    PROVE  products'[p].price = products[p].price
<1>0. products \in [Products -> ProductRecord] /\ Exists(p) /\ ~Unlocked(p)
  BY DEF IInv, TypeOK, WorkerOK, Covered, Unlocked
<1>1. CASE UNCHANGED db
  BY <1>1 DEF db
<1>2. ASSUME NEW v \in Workers, Commits(v) PROVE products'[p].price = products[p].price
  <2>1. products' = StockWritten(v)
    BY <1>2 DEF Commits, CommitCreate, CommitUpdate, CommitCancel, Commit
  <2> QED BY <1>0, <2>1 DEF StockWritten, ProductRecord
<1>3. CASE CatalogRequest
  <2>1. ASSUME NEW u \in Users, NEW i \in Products, NEW row \in NewRows, CreateProduct(u, i, row)
        PROVE  products'[p] = products[p]
    BY <1>0, <2>1 DEF CreateProduct
  <2>2. ASSUME NEW u \in Users, NEW i \in Products, DeleteProduct(u, i)
        PROVE  products'[p] = products[p]
    BY <1>0, <2>2 DEF DeleteProduct
  <2>3. ASSUME products' = products PROVE products'[p] = products[p]
    BY <2>3
  <2> QED BY <1>3, <2>1, <2>2, <2>3 DEF CatalogRequest, BeginEdit, CreatePromoCode, others
<1>4. CASE CatalogStep
  BY <1>0, <1>4 DEF CatalogStep, WriteProduct, EditFails
<1> QED BY <1>1, <1>2, <1>3, <1>4, NextKinds

\* What a statement does to the bill of its request.
KeepsBill(w)  == tx'[w].took = tx[w].took /\ tx'[w].total = tx[w].total
ClearsBill(w) == tx'[w].took = NoQuantity /\ tx'[w].total = 0
AddsTo(w, p, n) == /\ products' = products
                   /\ tx'[w].took = [tx[w].took EXCEPT ![p] = @ + n]
                   /\ tx'[w].total = tx[w].total + products[p].price * n
AddsToBill(w) == \E p \in Products, n \in Nat : AddsTo(w, p, n)

LEMMA EndClearsBill ==
    ASSUME IInv, NEW w \in Workers, EndTx(w)
    PROVE  ClearsBill(w)
BY DEF EndTx, IInv, TypeOK, NoTx, ClearsBill

LEMMA StatementBills ==
    ASSUME IInv, NEW w \in Workers, Statement(w)
    PROVE  KeepsBill(w) \/ ClearsBill(w) \/ AddsToBill(w)
<1>0. /\ tx \in [Workers -> TxRecord] /\ pc \in [Workers -> Label]
      /\ rows \in [Workers -> SUBSET RowSet]
  BY DEF IInv, TypeOK
<1>1. CASE Rollback(w) \/ Commits(w)
  BY <1>1, EndClearsBill DEF Rollback, Commits, CommitCreate, CommitUpdate, CommitCancel, Commit
<1>2. CASE (CreateRateLimit(w) \/ CheckNoActiveOrder(w)) /\ ~Rollback(w)
  BY <1>2 DEF CreateRateLimit, CheckNoActiveOrder, Advance, KeepsBill
<1>3. CASE UpdateLockOrder(w) /\ ~Rollback(w)
  BY <1>0, <1>3 DEF UpdateLockOrder, TxRecord, KeepsBill
<1>4. CASE UpdateRateLimit(w) /\ ~Rollback(w)
  BY <1>0, <1>4 DEF UpdateRateLimit, Proceed, TxRecord, KeepsBill
<1>5. CASE CancelLockOrder(w) /\ ~Rollback(w)
  <2>1. PICK s : Proceed(w, [tx[w] EXCEPT !.olds = s, !.code = orders[tx[w].order].promo])
    BY <1>5 DEF CancelLockOrder
  <2> QED BY <1>0, <2>1 DEF Proceed, TxRecord, KeepsBill
<1>6. CASE ReleaseItem(w) /\ ~Rollback(w)
  BY <1>0, <1>6 DEF ReleaseItem, Proceed, TxRecord, KeepsBill
<1>7. CASE ReserveItem(w) /\ ~Rollback(w)
  <2>1. PICK line : line = Head(tx[w].todo)
    OBVIOUS
  <2>2. /\ pc[w] = "reserve" /\ UNCHANGED db
        /\ Proceed(w, [tx[w] EXCEPT !.todo = Tail(@), !.took[line.product] = @ + line.quantity,
                                    !.total = @ + products[line.product].price * line.quantity])
    BY <1>7, <2>1 DEF ReserveItem
  <2>3. line \in Line
    <3>1. tx[w].todo # << >>
      BY <2>2 DEF IInv, WorkerOK, Underway
    <3>2. tx[w].todo \in Seq(Line)
      BY <1>0 DEF TxRecord
    <3> QED BY <2>1, <3>1, <3>2
  <2>4. line.product \in Products /\ line.quantity \in Nat
    BY <2>3 DEF Line
  <2>5. AddsTo(w, line.product, line.quantity)
    BY <1>0, <2>2 DEF Proceed, TxRecord, AddsTo, db
  <2> QED BY <2>4, <2>5 DEF AddsToBill
<1>8. CASE RedeemPromo(w) /\ ~Rollback(w)
  <2>1. PICK c, d : tx' = [tx EXCEPT ![w].promo = c, ![w].discount = d, ![w].used = 1]
    BY <1>8 DEF RedeemPromo
  <2> QED BY <1>0, <2>1 DEF TxRecord, KeepsBill
<1>9. CASE ReviewPromo(w)
  BY <1>0, <1>9 DEF ReviewPromo, TxRecord, KeepsBill
<1>10. CASE ReturnPromo(w)
  BY <1>0, <1>10 DEF ReturnPromo, TxRecord, KeepsBill
<1> QED BY <1>1, <1>2, <1>3, <1>4, <1>5, <1>6, <1>7, <1>8, <1>9, <1>10 DEF Statement, Commits

\* A statement is of one request.
LEMMA StatementMoves ==
    ASSUME IInv, NEW w \in Workers, Statement(w)
    PROVE  OnlyMoves(w)
<1>1. CASE Commits(w)
  BY <1>1, EndsIdle DEF Commits, CommitCreate, CommitUpdate, CommitCancel, Commit
<1>2. CASE ~Commits(w)
  BY <1>2, StatementReads
<1> QED BY <1>1, <1>2

LEMMA StepBills ==
    ASSUME IInv, [Next]_vars, NEW w \in Workers
    PROVE  KeepsBill(w) \/ ClearsBill(w) \/ AddsToBill(w)
<1>0. tx \in [Workers -> TxRecord]
  BY DEF IInv, TypeOK
<1>1. ASSUME NEW v \in Workers, OnlyMoves(v), v # w PROVE KeepsBill(w)
  BY <1>1 DEF OnlyMoves, KeepsBill
<1>2. ASSUME NEW v \in Workers, OrderRequest(v)
      PROVE  KeepsBill(w) \/ ClearsBill(w)
  <2>1. PICK t : tx' = [tx EXCEPT ![v] = t] /\ t.took = NoQuantity /\ t.total = 0
    <3> DEFINE New(t) == tx' = [tx EXCEPT ![v] = t] /\ t.took = NoQuantity /\ t.total = 0
    <3>1. ASSUME NEW u, NEW basket, NEW code, BeginCreate(v, u, basket, code) PROVE \E t : New(t)
      <4> DEFINE t == [NoTx EXCEPT !.kind = "create", !.user = u, !.began = now,
                                   !.todo = basket, !.code = code]
      <4>1. New(t)
        BY <3>1 DEF BeginCreate, Begin, NoTx
      <4> QED BY <4>1
    <3>2. ASSUME NEW u, NEW o, NEW basket, BeginUpdate(v, u, o, basket) PROVE \E t : New(t)
      <4> DEFINE t == [NoTx EXCEPT !.kind = "update", !.user = u, !.order = o,
                                   !.began = now, !.todo = basket]
      <4>1. New(t)
        BY <3>2 DEF BeginUpdate, Begin, NoTx
      <4> QED BY <4>1
    <3>3. ASSUME NEW u, NEW o, BeginCancel(v, u, o) PROVE \E t : New(t)
      <4> DEFINE t == [NoTx EXCEPT !.kind = "cancel", !.user = u, !.order = o, !.began = now]
      <4>1. New(t)
        BY <3>3 DEF BeginCancel, Begin, NoTx
      <4> QED BY <4>1
    <3> HIDE DEF New
    <3>4. \E t : New(t)
      BY <1>2, <3>1, <3>2, <3>3 DEF OrderRequest
    <3> QED BY <3>4 DEF New
  <2> QED BY <1>0, <2>1 DEF KeepsBill, ClearsBill
<1>3. ASSUME NEW v \in Workers, Serve(v)
      PROVE  KeepsBill(w) \/ ClearsBill(w) \/ AddsToBill(w)
  BY <1>1, <1>3, StatementMoves, StatementBills DEF Serve
<1>4. ASSUME NEW v \in Workers, Abort(v)
      PROVE  KeepsBill(w) \/ ClearsBill(w)
  BY <1>1, <1>4, EndsIdle, EndClearsBill DEF Abort, DeadlockVictim, Interrupt, Rollback
<1>5. CASE CatalogRequest \/ CatalogStep
  BY <1>5, CatalogLeavesOrders DEF KeepsBill
<1>6. CASE Tick \/ UNCHANGED vars
  BY <1>6 DEF Tick, vars, KeepsBill
<1> QED BY <1>2, <1>3, <1>4, <1>5, <1>6 DEF Next, OrdersNext

LEMMA BilledStep ==
    ASSUME IInv, IInv', [Next]_vars, NEW w \in Workers, Billed(w)
    PROVE  Billed(w)'
<1>0. TypeOK /\ TypeOK'
  BY DEF IInv
<1>1. CASE KeepsBill(w)
  <2>1. \A p \in Products : tx[w].took[p] # 0 => products'[p].price = products[p].price
    BY PriceHeld DEF IInv, WorkerOK, Covered
  <2> QED BY <1>0, <1>1, <2>1, StillBilled DEF KeepsBill
<1>2. CASE ClearsBill(w)
  BY <1>0, <1>2, NothingBilled DEF ClearsBill
<1>3. CASE AddsToBill(w)
  <2>1. PICK p \in Products, n \in Nat : AddsTo(w, p, n)
    BY <1>3 DEF AddsToBill
  <2>2. /\ products' = products
        /\ tx'[w].took = [tx[w].took EXCEPT ![p] = @ + n]
        /\ tx'[w].total = tx[w].total + products[p].price * n
    BY <2>1 DEF AddsTo
  <2> QED BY <1>0, <2>2, MoreBilled
<1> QED BY <1>1, <1>2, <1>3, StepBills

LEMMA InitBilled == Init => \A w \in Workers : Billed(w)
<1> SUFFICES ASSUME Init, NEW w \in Workers PROVE Billed(w)
  OBVIOUS
<1>0. TypeOK
  BY InitInvariant DEF IInv
<1>1. PICK bill : bill = Bill(w)
  OBVIOUS
<1>2. tx[w].total = 0 /\ tx[w].took = NoQuantity
  BY DEF Init, NoTx
<1>3. \A p \in Products : products[p].price \in Nat
  BY <1>0 DEF TypeOK, ProductRecord
<1>4. \A n \in Nat : n * 0 = 0
  OBVIOUS
<1>5. bill \in [Products -> Int] /\ \A p \in Products : bill[p] = 0
  BY <1>1, <1>2, <1>3, <1>4 DEF Bill, NoQuantity
<1>6. Total(bill, Products) = 0
  BY <1>5, TotalZero, RowsAssumption
<1> QED BY <1>1, <1>2, <1>6 DEF Billed

\* A request owes what it has taken at the prices listed at that moment, from
\* the first unit on.
LEMMA BilledInvariance == Spec => [](\A w \in Workers : Billed(w))
<1> DEFINE AllBilled == \A w \in Workers : Billed(w)
<1>1. Init => AllBilled
  BY InitBilled
<1>2. IInv /\ IInv' /\ AllBilled /\ [Next]_vars => AllBilled'
  BY BilledStep
<1> HIDE DEF AllBilled
<1>3. Spec => []AllBilled
  BY <1>1, <1>2, Invariance, PTL DEF Spec
<1> QED BY <1>3 DEF AllBilled

\* Cost, the fold, is such a sum.
CostOf(items) == [p \in Products |-> products[p].price * items[p]]

CostSums(it, items) ==
    it = [A \in SUBSET Products |->
            IF A = {} THEN 0 ELSE products[Some(A)].price * items[Some(A)] + it[A \ {Some(A)}]]

LEMMA CostIsTotal ==
    ASSUME NEW items, NEW f, f = CostOf(items)
    PROVE  Cost(items) = Total(f, Products)
<1>1. ASSUME NEW it
      PROVE  CostSums(it, items) <=> Sums(it, f, Products)
  <2>1. \A A \in SUBSET Products : A # {} =>
          f[Some(A)] = products[Some(A)].price * items[Some(A)]
    BY SomeIn DEF CostOf
  <2> QED BY <2>1 DEF CostSums, Sums
<1>2. PICK jt : Sums(jt, f, Products)
  BY SumsExist, RowsAssumption
<1>3. PICK it : it = CHOOSE h : CostSums(h, items)
  OBVIOUS
<1>4. CostSums(it, items)
  BY <1>1, <1>2, <1>3
<1>5. Cost(items) = (CHOOSE h : CostSums(h, items))[Products]
  BY DEF Cost, MapThenSumSet, MapThenFoldSet, CostSums, Some
<1>6. Total(f, Products) = it[Products]
  BY <1>1, <1>4, TotalIs, RowsAssumption
<1> QED BY <1>3, <1>5, <1>6

-----------------------------------------------------------------------------
(* What is sold, and for what.                                              *)

\* An order is only written by a request at its commit, with what it has taken.
LEMMA OrderWritten ==
    ASSUME OInv, [Next]_vars, NEW o \in OrderIds,
           orders'[o] # orders[o], orders'[o].status = "CREATED"
    PROVE  \E w \in Workers : /\ pc[w] = "commit"
                              /\ orders'[o].total = tx[w].total
                              /\ orders'[o].items = tx[w].took
<1>0. orders \in [OrderIds -> OrderRecord]
  BY DEF OInv, IInv, TypeOK
<1>1. orders' # orders
  OBVIOUS
<1>2. PICK w \in Workers : Commits(w)
  BY <1>1, NextKinds, CatalogLeavesOrders DEF db
<1>3. CASE CommitCreate(w)
  <2>1. pc[w] = "commit" /\ \E i \in OrderIds : orders' = [orders EXCEPT ![i] = Placed(w)]
    BY <1>3, CommitCreateFacts
  <2>2. orders'[o] = Placed(w)
    BY <1>0, <2>1
  <2> QED BY <2>1, <2>2 DEF Placed
<1>4. CASE CommitUpdate(w)
  <2>1. PICK i : i = tx[w].order
    OBVIOUS
  <2>2. /\ pc[w] = "commit"
        /\ orders' = [orders EXCEPT ![i] = Revised(w, orders[i])]
        /\ Revised(w, orders[i]).items = tx[w].took
        /\ Revised(w, orders[i]).total = tx[w].total
    BY <1>4, <2>1, CommitUpdateFacts
  <2>3. orders'[o] = Revised(w, orders[o]) /\ o = i
    BY <1>0, <2>2
  <2> QED BY <2>2, <2>3
<1>5. CASE CommitCancel(w)
  <2>1. orders' = [orders EXCEPT ![tx[w].order].status = "CANCELED"]
    BY <1>5 DEF CommitCancel
  <2>2. orders'[o] # orders[o] => orders'[o] = [orders[o] EXCEPT !.status = "CANCELED"]
    BY <1>0, <2>1
  <2> QED BY <1>0, <2>2 DEF OrderRecord
<1> QED BY <1>2, <1>3, <1>4, <1>5 DEF Commits

SoldListed(o) ==
    orders'[o] # orders[o] /\ orders'[o].status = "CREATED" =>
      /\ orders'[o].total = Cost(orders'[o].items)
      /\ \A p \in Products : orders'[o].items[p] > 0 => products[p].status = "ACTIVE"

LEMMA StepSells ==
    OInv /\ (\A w \in Workers : Billed(w)) /\ [Next]_vars => \A o \in OrderIds : SoldListed(o)
<1> SUFFICES ASSUME OInv, \A w \in Workers : Billed(w), [Next]_vars, NEW o \in OrderIds,
                    orders'[o] # orders[o], orders'[o].status = "CREATED"
             PROVE  /\ orders'[o].total = Cost(orders'[o].items)
                    /\ \A p \in Products : orders'[o].items[p] > 0 => products[p].status = "ACTIVE"
  BY DEF SoldListed
<1>1. PICK w \in Workers : /\ pc[w] = "commit"
                           /\ orders'[o].total = tx[w].total
                           /\ orders'[o].items = tx[w].took
  BY OrderWritten
<1>2. PICK items : items = tx[w].took
  OBVIOUS
<1>3. PICK bill : bill = Bill(w)
  OBVIOUS
<1>4. bill = CostOf(items)
  BY <1>2, <1>3 DEF Bill, CostOf
<1>5. Cost(items) = Total(bill, Products)
  BY <1>4, CostIsTotal
<1>6. PICK paid : paid = orders'[o].items
  OBVIOUS
<1>7. paid = items
  BY <1>1, <1>2, <1>6
<1>8. Cost(orders'[o].items) = Cost(paid)
  BY <1>6
<1>9. orders'[o].total = Cost(orders'[o].items)
  BY <1>1, <1>3, <1>5, <1>7, <1>8 DEF Billed
<1>10. \A p \in Products : orders'[o].items[p] > 0 => products[p].status = "ACTIVE"
  BY <1>1, AtCommit
<1> QED BY <1>9, <1>10

\* An order is written with the prices and the products that are listed when it
\* commits, however long ago the request looked at each of them and whatever
\* sellers have been doing since.
THEOREM SoldAsListedHolds == Spec => SoldAsListed
<1>1. OInv /\ (\A w \in Workers : Billed(w)) /\ [Next]_vars => \A o \in OrderIds : SoldListed(o)
  BY StepSells
<1>2. Spec => [][\A o \in OrderIds : SoldListed(o)]_vars
  BY <1>1, OrdersInvariance, BilledInvariance, PTL DEF Spec
<1> QED BY <1>2 DEF SoldAsListed, SoldListed

-----------------------------------------------------------------------------
(***************************************************************************)
(* Why a request is refused.                                               *)
(***************************************************************************)

\* The units of p that each line still asks for.
Lines(w, p) == [i \in DOMAIN tx[w].todo |->
                  IF tx[w].todo[i].product = p THEN tx[w].todo[i].quantity ELSE 0]

LineSums(it, w, p) ==
    it = [A \in SUBSET DOMAIN tx[w].todo |->
            IF A = {} THEN 0
            ELSE (IF tx[w].todo[Some(A)].product = p THEN tx[w].todo[Some(A)].quantity ELSE 0)
                   + it[A \ {Some(A)}]]

LEMMA DemandIsTotal ==
    ASSUME NEW w, NEW p, IsFiniteSet(DOMAIN tx[w].todo), NEW f, f = Lines(w, p)
    PROVE  Demand(w, p) = tx[w].took[p] + Total(f, DOMAIN tx[w].todo)
<1>1. PICK S : S = DOMAIN tx[w].todo
  OBVIOUS
<1>2. ASSUME NEW it
      PROVE  LineSums(it, w, p) <=> Sums(it, f, S)
  <2>1. \A A \in SUBSET S : A # {} =>
          f[Some(A)] = IF tx[w].todo[Some(A)].product = p THEN tx[w].todo[Some(A)].quantity ELSE 0
    BY <1>1, SomeIn DEF Lines
  <2> QED BY <1>1, <2>1 DEF LineSums, Sums
<1>3. PICK jt : Sums(jt, f, S)
  BY <1>1, SumsExist
<1>4. PICK it : it = CHOOSE h : LineSums(h, w, p)
  OBVIOUS
<1>5. LineSums(it, w, p)
  BY <1>2, <1>3, <1>4
<1>6. Demand(w, p) = tx[w].took[p] + (CHOOSE h : LineSums(h, w, p))[DOMAIN tx[w].todo]
  BY DEF Demand, MapThenSumSet, MapThenFoldSet, LineSums, Some
<1>7. Total(f, S) = it[S]
  BY <1>1, <1>2, <1>5, TotalIs
<1> QED BY <1>1, <1>4, <1>6, <1>7

\* The next line is part of the demand.
LEMMA NextIsDemanded ==
    ASSUME TypeOK, NEW w \in Workers, tx[w].todo # << >>, NEW line, line = Head(tx[w].todo)
    PROVE  /\ line.product \in Products /\ line.quantity \in Nat \ {0}
           /\ tx[w].took[line.product] \in Nat
           /\ Demand(w, line.product) \in Nat
           /\ Demand(w, line.product) >= tx[w].took[line.product] + line.quantity
<1>1. PICK s : s = tx[w].todo
  OBVIOUS
<1>2. s \in Seq(Line) /\ s # << >> /\ tx[w].took \in [Products -> Nat]
  BY <1>1 DEF TypeOK, TxRecord, Count
<1>3. /\ Len(s) \in Nat /\ Len(s) >= 1 /\ DOMAIN s = 1 .. Len(s) /\ line = s[1]
      /\ \A i \in DOMAIN s : s[i] \in Line
  BY <1>1, <1>2
<1>4. line.product \in Products /\ line.quantity \in Nat \ {0}
  BY <1>3 DEF Line
<1> DEFINE S == DOMAIN s
<1>5. IsFiniteSet(S)
  <2>1. PICK a, b : a = 1 /\ b = Len(s)
    OBVIOUS
  <2>2. a \in Int /\ b \in Int
    BY <1>3, <2>1
  <2>3. IsFiniteSet(a .. b)
    BY <2>2, FS_Interval
  <2> QED BY <1>3, <2>1, <2>3
<1>6. PICK p : p = line.product
  OBVIOUS
<1>7. PICK f : f = Lines(w, p)
  OBVIOUS
<1>8. f \in [S -> Nat]
  BY <1>1, <1>3, <1>7 DEF Lines, Line
<1>9. 1 \in S /\ f[1] = line.quantity
  BY <1>1, <1>3, <1>6, <1>7 DEF Lines
<1> HIDE DEF S
<1>10. Total(f, S) \in Nat /\ f[1] <= Total(f, S)
  BY <1>5, <1>8, <1>9, TotalCovers
<1>11. S = DOMAIN tx[w].todo
  BY <1>1 DEF S
<1>12. IsFiniteSet(DOMAIN tx[w].todo)
  BY <1>5, <1>11
<1>13. Demand(w, p) = tx[w].took[p] + Total(f, DOMAIN tx[w].todo)
  BY <1>7, <1>12, DemandIsTotal
<1>14. tx[w].took[p] \in Nat
  BY <1>2, <1>4, <1>6
<1>15. Demand(w, p) \in Nat /\ Demand(w, p) >= tx[w].took[p] + line.quantity
  BY <1>4, <1>9, <1>10, <1>11, <1>13, <1>14
<1> QED BY <1>4, <1>6, <1>14, <1>15

\* A request that ends without an answer of the database having failed, before
\* its commit: the check that turned it down.
LEMMA TurnedDown ==
    ASSUME IInv, NEW w \in Workers, Serve(w), pc'[w] = "idle", pc[w] # "commit",
           NEW o, o = tx[w].order, NEW line, line = Head(tx[w].todo)
    PROVE  \/ pc[w] = "lock" /\ o \in OrderIds /\ ~(Changeable(o) /\ MayChange(w, o))
           \/ pc[w] = "rate"
           \/ pc[w] = "active" /\ HasActiveOrder(tx[w].user)
           \/ pc[w] = "release"
           \/ pc[w] = "reserve" /\ ~CanReserve(w, line)
           \/ pc[w] = "promo"
<1>0. pc \in [Workers -> Label]
  BY DEF IInv, TypeOK
<1>1. CASE CreateRateLimit(w) \/ UpdateRateLimit(w)
  BY <1>1 DEF CreateRateLimit, UpdateRateLimit
<1>2. CASE CheckNoActiveOrder(w)
  BY <1>0, <1>2 DEF CheckNoActiveOrder, Advance, Goto
<1>3. CASE UpdateLockOrder(w)
  <2>1. pc[w] = "lock" /\ o \in OrderIds
    BY <1>3 DEF UpdateLockOrder, IInv, WorkerOK, Underway
  <2>2. ASSUME Goto(w, "rate") PROVE FALSE
    BY <1>0, <2>2 DEF Goto
  <2> QED BY <1>3, <2>1, <2>2 DEF UpdateLockOrder
<1>4. CASE CancelLockOrder(w)
  <2>1. pc[w] = "lock" /\ o \in OrderIds
    BY <1>4 DEF CancelLockOrder, IInv, WorkerOK, Underway
  <2>2. ASSUME NEW t, Proceed(w, t) PROVE FALSE
    BY <1>0, <2>2 DEF Proceed, NextStatement
  <2> QED BY <1>4, <2>1, <2>2 DEF CancelLockOrder
<1>5. CASE ReleaseItem(w)
  BY <1>5 DEF ReleaseItem
<1>6. CASE ReserveItem(w)
  <2>1. ASSUME NEW t, Proceed(w, t) PROVE FALSE
    BY <1>0, <2>1 DEF Proceed, NextStatement
  <2>2. pc[w] = "reserve" /\ ~CanReserve(w, Head(tx[w].todo))
    BY <1>6, <2>1 DEF ReserveItem
  <2> QED BY <2>2
<1>7. CASE RedeemPromo(w) \/ ReviewPromo(w) \/ ReturnPromo(w)
  BY <1>7 DEF RedeemPromo, ReviewPromo, ReturnPromo
<1>8. CASE Commits(w)
  BY <1>8 DEF Commits, CommitCreate, CommitUpdate, CommitCancel, Commit
<1> QED BY <1>1, <1>2, <1>3, <1>4, <1>5, <1>6, <1>7, <1>8 DEF Serve, Statement, Commits

\* The codes that name a reason the caller could have seen.
Reasons == {"INSUFFICIENT_STOCK", "PRODUCT_INACTIVE", "ORDER_HAS_ACTIVE",
            "INVALID_STATE_TRANSITION"}

LEMMA ReasonGiven ==
    ASSUME AnswersNext, NEW w \in Workers, NEW c \in Reasons, Told(w, c)
    PROVE  Serve(w) /\ pc'[w] = "idle" /\ pc[w] # "commit" /\ c = Refusal(w)
<1>1. told'.worker = w /\ told'.code = c /\ c \notin {"none", "OK", "INTERNAL_ERROR", "PROMO_CODE_INVALID"}
  BY DEF Told, Reasons
<1>2. told' # Silence
  BY <1>1 DEF Silence
<1>3. PICK v \in Workers : Finish(v) \/ GiveUp(v)
  BY <1>2 DEF AnswersNext, Ask, Continue
<1>4. ASSUME GiveUp(v) PROVE FALSE
  <2>1. told'.code \in {"INTERNAL_ERROR", "PROMO_CODE_INVALID"}
    BY <1>4 DEF GiveUp, Reply, FailureCodes
  <2> QED BY <1>1, <2>1
<1>5. Serve(v) /\ pc'[v] = "idle" /\ told'.worker = v /\ told'.code \in Outcomes(v)
  BY <1>3, <1>4 DEF Finish, Reply
<1>6. pc[w] # "commit" /\ c = Refusal(w)
  BY <1>1, <1>5 DEF Outcomes
<1> QED BY <1>1, <1>5, <1>6

\* A refusal of a line: the order's own units have all been put back by then.
LEMMA LineRefused ==
    ASSUME OInv, NEW w \in Workers, pc[w] = "reserve", NEW line, line = Head(tx[w].todo)
    PROVE  /\ line.product \in Products
           /\ Demand(w, line.product) > 0
           /\ ~CanReserve(w, line) /\ products[line.product].status = "ACTIVE"
                => Demand(w, line.product) > products[line.product].stock + Held(w, line.product)
<1>1. TypeOK /\ tx[w].todo # << >> /\ tx[w].kind # "none"
  BY DEF OInv, IInv, WorkerOK, Underway
<1>2. PICK p : p = line.product
  OBVIOUS
<1>3. /\ p \in Products /\ line.quantity \in Nat \ {0}
      /\ tx[w].took[p] \in Nat
      /\ Demand(w, p) \in Nat
      /\ Demand(w, p) >= tx[w].took[p] + line.quantity
  BY <1>1, <1>2, NextIsDemanded
<1>4. tx[w].kind \in {"create", "update"}
  BY <1>1 DEF OInv, RequestOK, TakenOnSale, TypeOK, TxRecord
<1>5. ~Due(w, p)
  BY DEF OInv, RequestOK, PutBack, Due
<1>6. tx[w].back[p] = Held(w, p)
  BY <1>3, <1>4, <1>5 DEF OInv, RequestOK, PutBack, Changing, Held
<1>7. products[p].stock \in Int /\ tx[w].back[p] \in Int
  BY <1>1, <1>3, RowsAssumption DEF TypeOK, ProductRecord, TxRecord, Count
<1>8. ASSUME ~CanReserve(w, line), products[p].status = "ACTIVE"
      PROVE  Demand(w, p) > products[p].stock + Held(w, p)
  <2>1. ~(Stock(w, p) >= line.quantity)
    BY <1>2, <1>8 DEF CanReserve
  <2>2. products[p].stock + tx[w].back[p] - tx[w].took[p] < line.quantity
    BY <1>3, <1>7, <2>1 DEF Stock
  <2> QED BY <1>3, <1>6, <1>7, <2>2
<1> QED BY <1>2, <1>3, <1>8

JustlyTold(w) ==
    /\ Told(w, "INSUFFICIENT_STOCK") =>
         \E p \in Products : Demand(w, p) > products[p].stock + Held(w, p)
    /\ Told(w, "PRODUCT_INACTIVE") =>
         \E p \in Products : Demand(w, p) > 0 /\ products[p].status \in {"INACTIVE", "ARCHIVED"}
    /\ Told(w, "ORDER_HAS_ACTIVE") =>
         \E o \in OrderIds : Active(o) /\ orders[o].user = tx[w].user
    /\ Told(w, "INVALID_STATE_TRANSITION") => ~Active(tx[w].order)

LEMMA AnswerJustified ==
    ASSUME OInv, AnswersNext, NEW w \in Workers
    PROVE  JustlyTold(w)
<1>1. PICK o, line, p : o = tx[w].order /\ line = Head(tx[w].todo) /\ p = line.product
  OBVIOUS
<1>2. IInv /\ TypeOK
  BY DEF OInv, IInv
<1>3. ASSUME NEW c \in Reasons, Told(w, c)
      PROVE  \/ c = "INSUFFICIENT_STOCK" /\ pc[w] = "reserve" /\ ~CanReserve(w, line)
                  /\ products[p].status = "ACTIVE"
             \/ c = "PRODUCT_INACTIVE" /\ pc[w] = "reserve"
                  /\ products[p].status \in {"INACTIVE", "ARCHIVED"}
             \/ c = "ORDER_HAS_ACTIVE" /\ HasActiveOrder(tx[w].user)
             \/ c = "INVALID_STATE_TRANSITION" /\ ~Active(o)
  <2>1. Serve(w) /\ pc'[w] = "idle" /\ pc[w] # "commit" /\ c = Refusal(w)
    BY <1>3, ReasonGiven
  <2>2. \/ pc[w] = "lock" /\ o \in OrderIds /\ ~(Changeable(o) /\ MayChange(w, o))
        \/ pc[w] = "rate"
        \/ pc[w] = "active" /\ HasActiveOrder(tx[w].user)
        \/ pc[w] = "release"
        \/ pc[w] = "reserve" /\ ~CanReserve(w, line)
        \/ pc[w] = "promo"
    BY <1>1, <1>2, <2>1, TurnedDown
  <2>3. c \notin {"NOT_FOUND", "ACCESS_DENIED", "ORDER_LIMIT_EXCEEDED", "INTERNAL_ERROR",
                  "PROMO_CODE_INVALID", "PROMO_CODE_MIN_AMOUNT"}
    BY DEF Reasons
  <2>4. CASE pc[w] = "lock" /\ o \in OrderIds /\ ~(Changeable(o) /\ MayChange(w, o))
    <3>1. orders[o].status \in {"NONE", "CREATED", "CANCELED"}
      BY <1>2, <2>4 DEF TypeOK, OrderRecord, OrderStatus
    <3>2. orders[o].status # "NONE" /\ MayChange(w, o) => orders[o].status = "CANCELED"
      BY <2>4, <3>1 DEF Changeable
    <3>3. \/ Refusal(w) \in {"NOT_FOUND", "ACCESS_DENIED"}
          \/ Refusal(w) = "INVALID_STATE_TRANSITION" /\ orders[o].status = "CANCELED"
      <4>1. CASE orders[o].status = "NONE"
        BY <1>1, <2>4, <4>1 DEF Refusal
      <4>2. CASE orders[o].status # "NONE" /\ ~MayChange(w, o)
        BY <1>1, <2>4, <4>2 DEF Refusal
      <4>3. CASE orders[o].status # "NONE" /\ MayChange(w, o)
        BY <1>1, <2>4, <3>2, <4>3 DEF Refusal
      <4> QED BY <4>1, <4>2, <4>3
    <3> QED BY <2>1, <2>3, <3>3 DEF Active
  <2>5. CASE pc[w] \in {"rate", "release"}
    BY <2>1, <2>3, <2>5 DEF Refusal
  <2>6. CASE pc[w] = "active" /\ HasActiveOrder(tx[w].user)
    BY <2>1, <2>6 DEF Refusal
  <2>7. CASE pc[w] = "promo"
    BY <2>1, <2>3, <2>7 DEF Refusal
  <2>8. CASE pc[w] = "reserve" /\ ~CanReserve(w, line)
    <3>1. p \in Products
      BY <1>1, <2>8, LineRefused
    <3>2. products[p].status \in {"NONE", "ACTIVE", "INACTIVE", "ARCHIVED"}
      BY <1>2, <3>1 DEF TypeOK, ProductRecord, ProductStatus
    <3>3. \/ Refusal(w) = "NOT_FOUND"
          \/ Refusal(w) = "PRODUCT_INACTIVE" /\ products[p].status \in {"INACTIVE", "ARCHIVED"}
          \/ Refusal(w) = "INSUFFICIENT_STOCK" /\ products[p].status = "ACTIVE"
      <4>1. CASE ~Exists(p)
        BY <1>1, <2>8, <4>1 DEF Refusal
      <4>2. CASE products[p].status \in {"INACTIVE", "ARCHIVED"}
        BY <1>1, <2>8, <4>2 DEF Refusal, Exists
      <4>3. CASE products[p].status = "ACTIVE"
        BY <1>1, <2>8, <4>3 DEF Refusal, Exists
      <4> QED BY <3>2, <4>1, <4>2, <4>3 DEF Exists
    <3> QED BY <2>1, <2>3, <2>8, <3>3
  <2> QED BY <2>2, <2>4, <2>5, <2>6, <2>7, <2>8
<1>4. pc[w] = "reserve" =>
        /\ p \in Products /\ Demand(w, p) > 0
        /\ ~CanReserve(w, line) /\ products[p].status = "ACTIVE"
             => Demand(w, p) > products[p].stock + Held(w, p)
  BY <1>1, LineRefused
<1>5. ASSUME Told(w, "INSUFFICIENT_STOCK")
      PROVE  \E q \in Products : Demand(w, q) > products[q].stock + Held(w, q)
  BY <1>3, <1>4, <1>5 DEF Reasons
<1>6. ASSUME Told(w, "PRODUCT_INACTIVE")
      PROVE  \E q \in Products : Demand(w, q) > 0 /\ products[q].status \in {"INACTIVE", "ARCHIVED"}
  BY <1>3, <1>4, <1>6 DEF Reasons
<1>7. ASSUME Told(w, "ORDER_HAS_ACTIVE")
      PROVE  \E i \in OrderIds : Active(i) /\ orders[i].user = tx[w].user
  BY <1>3, <1>7 DEF Reasons, HasActiveOrder, Active
<1>8. ASSUME Told(w, "INVALID_STATE_TRANSITION") PROVE ~Active(tx[w].order)
  BY <1>1, <1>3, <1>8 DEF Reasons
<1> QED BY <1>5, <1>6, <1>7, <1>8 DEF JustlyTold

\* Answering changes nothing of the marketplace.
LEMMA AnswersAreQuiet == [AnswersNext]_avars => [Next]_vars
  BY DEF AnswersNext, Ask, Continue, Finish, GiveUp, Next, OrdersNext, avars

\* When a request is refused for want of stock, for a product off the shelf, for
\* another active order or for a canceled one, that is so at the moment it is
\* told, whatever the requests next to it have put back, taken or changed; and
\* "insufficient stock" counts the units its own order would free.
THEOREM RefusalJustifiedHolds == AnswersSpec => RefusalJustified
<1> DEFINE Just == \A w \in Workers : JustlyTold(w)
<1>1. OInv /\ [AnswersNext]_avars => [Just]_avars
  BY AnswerJustified
<1>2. Init => OInv
  BY InitOrders
<1>3. OInv /\ [AnswersNext]_avars => OInv'
  BY AnswersAreQuiet, NextOrders
<1> HIDE DEF Just
<1>4. AnswersSpec => [][Just]_avars
  BY <1>1, <1>2, <1>3, PTL DEF AnswersSpec, AnswersInit
<1> QED BY <1>4 DEF RefusalJustified, Just, JustlyTold
=============================================================================

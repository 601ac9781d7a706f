---------------------------- MODULE ReadsProofs ----------------------------
(***************************************************************************)
(* What GET /orders/{id} says of a canceled order, and what a walk through *)
(* GET /products finds, for any number of readers, clients, products and   *)
(* of requests that change them meanwhile, and pages of any size.          *)
(***************************************************************************)
EXTENDS OrderReads, ProductPages, OrderProofs

(***************************************************************************)
(* Canceled orders.                                                        *)
(***************************************************************************)

ReadRecord == [user : Users \cup {None}, order : OrderIds \cup {None}, step : {0, 1, 2},
               header : OrderRecord, items : Count, cut : BOOLEAN]

\* A reader that has seen a canceled order has seen its last version.
SeenFinal(r) ==
    reads[r].header.status = "CANCELED" =>
      /\ reads[r].header = Header(reads[r].order)
      /\ Finished(reads[r]) /\ ~reads[r].cut => reads[r].items = orders[reads[r].order].items

ReadOK(r) == /\ reads[r] # NoRead => reads[r].order \in OrderIds /\ reads[r].step \in {1, 2}
             /\ SeenFinal(r)

ReadsInv == /\ reads \in [Readers -> ReadRecord]
            /\ \A r \in Readers : ReadOK(r)

-----------------------------------------------------------------------------
LEMMA NoReadType == NoRead \in ReadRecord /\ NoRead.header.status = "NONE" /\ NoRead.step = 0
  BY DEF NoRead, ReadRecord, NoOrder, OrderRecord, OrderStatus, NoQuantity, Count

LEMMA FinishedIsTwo == \A read : Finished(read) <=> read.step = 2
  BY DEF Finished, Queries

LEMMA InitReads == ReadsInit => ReadsInv
  BY NoReadType DEF ReadsInit, ReadsInv, ReadOK, SeenFinal

LEMMA HeaderType ==
    ASSUME TypeOK, NEW o \in OrderIds
    PROVE  /\ Header(o) \in OrderRecord
           /\ Header(o).status = orders[o].status
<1>1. orders[o] \in OrderRecord /\ NoQuantity \in Count
  BY DEF TypeOK, NoQuantity, Count
<1> QED BY <1>1 DEF Header, OrderRecord

\* All the items there are, read one by one, are the items of the order.
LEMMA ItemsAreAll ==
    ASSUME TypeOK, NEW o \in OrderIds
    PROVE  /\ [p \in Products |-> IF p \in OldItems(o) THEN orders[o].items[p] ELSE 0] = orders[o].items
           /\ \A got \in SUBSET OldItems(o) :
                [p \in Products |-> IF p \in got THEN orders[o].items[p] ELSE 0] \in Count
<1>1. orders[o].items \in [Products -> Nat]
  BY DEF TypeOK, OrderRecord, Count
<1> QED BY <1>1 DEF OldItems, Count

\* A canceled order does not change, so what was read of it stays right.
LEMMA ForgottenOK ==
    ASSUME OInv, ReadsInv, [Next]_vars, NEW r \in Readers,
           reads'[r] = reads[r] \/ reads'[r] = NoRead
    PROVE  ReadOK(r)'
<1>1. CASE reads'[r] = NoRead
  BY <1>1, NoReadType DEF ReadOK, SeenFinal
<1>2. CASE reads'[r] = reads[r] /\ reads[r] # NoRead
  <2> DEFINE o == reads[r].order
  <2>1. o \in OrderIds /\ reads[r].step \in {1, 2}
    BY <1>2 DEF ReadsInv, ReadOK
  <2>2. CASE reads[r].header.status = "CANCELED"
    <3>1. reads[r].header = Header(o)
      BY <2>2 DEF ReadsInv, ReadOK, SeenFinal
    <3>2. orders[o].status = "CANCELED"
      BY <2>1, <2>2, <3>1, HeaderType DEF OInv, IInv
    <3>3. orders'[o] = orders[o]
      BY <2>1, <3>2, StepLifecycle DEF Lifecycle
    <3> QED BY <1>2, <2>1, <2>2, <3>1, <3>3 DEF ReadsInv, ReadOK, SeenFinal, Header, Finished
  <2>3. CASE reads[r].header.status # "CANCELED"
    BY <1>2, <2>1, <2>3 DEF ReadOK, SeenFinal
  <2> QED BY <2>2, <2>3
<1> QED BY <1>1, <1>2

\* The first query finds the row; the second adds the items.
LEMMA QueryAnswers ==
    ASSUME NEW r \in Readers, NEW read \in ReadRecord, NEW q, q = [read EXCEPT !.step = @ + 1],
           read.step \in {0, 1}, Query(r, read)
    PROVE  /\ UNCHANGED vars
           /\ \E new : /\ reads' = [reads EXCEPT ![r] = new]
                       /\ \/ new = NoRead
                          \/ new \in IF read.step = 0 THEN OrderRead(q) ELSE ItemsRead(q)
<1>1. q.step = read.step + 1
  BY DEF ReadRecord
<1>2. Queries[q.step] = "order" <=> read.step = 0
  BY <1>1 DEF Queries
<1>3. /\ UNCHANGED vars
      /\ \E result \in (IF Queries[q.step] = "order" THEN OrderRead(q) ELSE ItemsRead(q)) \cup {NoRead} :
           reads' = [reads EXCEPT ![r] = IF Finished(result) /\ ~MaySee(result) THEN NoRead
                                                                               ELSE result]
  BY DEF Query
<1>4. PICK result \in (IF read.step = 0 THEN OrderRead(q) ELSE ItemsRead(q)) \cup {NoRead} :
        reads' = [reads EXCEPT ![r] = IF Finished(result) /\ ~MaySee(result) THEN NoRead
                                                                            ELSE result]
  BY <1>2, <1>3
<1> DEFINE new == IF Finished(result) /\ ~MaySee(result) THEN NoRead ELSE result
<1>5. reads' = [reads EXCEPT ![r] = new]
  BY <1>4
<1>6. new = NoRead \/ new \in IF read.step = 0 THEN OrderRead(q) ELSE ItemsRead(q)
  BY <1>4
<1> HIDE DEF new
<1> QED BY <1>3, <1>5, <1>6

LEMMA FirstQuery ==
    ASSUME TypeOK, NEW q \in ReadRecord, q.order \in OrderIds, NEW result \in OrderRead(q)
    PROVE  /\ result \in ReadRecord /\ result.order = q.order /\ result.step = q.step
           /\ result.header = Header(q.order)
<1>1. result = [q EXCEPT !.header = Header(q.order)]
  BY DEF OrderRead
<1>2. Header(q.order) \in OrderRecord
  BY HeaderType
<1> QED BY <1>1, <1>2 DEF ReadRecord

LEMMA SecondQuery ==
    ASSUME TypeOK, NEW q \in ReadRecord, q.order \in OrderIds, NEW result \in ItemsRead(q)
    PROVE  /\ result \in ReadRecord /\ result.order = q.order /\ result.step = q.step
           /\ result.header = q.header
           /\ ~result.cut => result.items = orders[q.order].items
<1> DEFINE Items(got) == [p \in Products |-> IF p \in got THEN orders[q.order].items[p] ELSE 0]
<1>1. PICK got \in SUBSET OldItems(q.order) :
        result = [q EXCEPT !.items = Items(got), !.cut = got # OldItems(q.order)]
  BY DEF ItemsRead
<1> DEFINE items == Items(got)
           cut == got # OldItems(q.order)
<1>2. items \in Count /\ (~cut => items = orders[q.order].items) /\ cut \in BOOLEAN
  BY ItemsAreAll
<1>3. result = [q EXCEPT !.items = items, !.cut = cut]
  BY <1>1
<1> HIDE DEF items, cut
<1>4. /\ result \in ReadRecord /\ result.items = items /\ result.cut = cut
      /\ result.order = q.order /\ result.step = q.step /\ result.header = q.header
  BY <1>2, <1>3 DEF ReadRecord
<1> QED BY <1>2, <1>4

\* What a reader may know after a query.
LEMMA KeepsReadsInv ==
    ASSUME OInv, ReadsInv, NEW r \in Readers, NEW new \in ReadRecord,
           reads' = [reads EXCEPT ![r] = new], UNCHANGED vars,
           new # NoRead => /\ new.order \in OrderIds /\ new.step \in {1, 2}
                           /\ new.header.status = "CANCELED" =>
                                /\ new.header = Header(new.order)
                                /\ new.step = 2 /\ ~new.cut => new.items = orders[new.order].items
    PROVE  ReadsInv'
<1>1. reads' \in [Readers -> ReadRecord] /\ reads'[r] = new
  BY DEF ReadsInv
<1>2. ReadOK(r)'
  <2>1. CASE new = NoRead
    BY <1>1, <2>1, NoReadType DEF ReadOK, SeenFinal
  <2>2. CASE new # NoRead
    BY <1>1, <2>2, FinishedIsTwo DEF ReadOK, SeenFinal, Header, vars
  <2> QED BY <2>1, <2>2
<1>3. ASSUME NEW i \in Readers, i # r PROVE ReadOK(i)'
  <2>1. reads'[i] = reads[i]
    BY <1>3 DEF ReadsInv
  <2> QED BY <2>1, ForgottenOK
<1> QED BY <1>1, <1>2, <1>3 DEF ReadsInv

LEMMA ReadStepOK ==
    ASSUME OInv, ReadsInv, NEW r \in Readers, ReadStep(r)
    PROVE  ReadsInv'
<1>0. TypeOK
  BY DEF OInv, IInv
<1>1. ASSUME NEW u \in Users, NEW o \in OrderIds, BeginRead(r, u, o)
      PROVE  ReadsInv'
  <2> DEFINE read == [NoRead EXCEPT !.user = u, !.order = o]
             q == [read EXCEPT !.step = @ + 1]
  <2>1. read \in ReadRecord /\ read.order = o /\ read.step = 0
    BY NoReadType DEF ReadRecord, NoRead
  <2>2. Query(r, read)
    BY <1>1 DEF BeginRead
  <2> HIDE DEF read
  <2>3. q \in ReadRecord /\ q.order = o /\ q.step = 1
    BY <2>1 DEF ReadRecord
  <2>4. UNCHANGED vars
    BY <2>1, <2>2, QueryAnswers
  <2>5. PICK new : /\ reads' = [reads EXCEPT ![r] = new]
                   /\ new = NoRead \/ new \in OrderRead(q)
    BY <2>1, <2>2, QueryAnswers
  <2> HIDE DEF q
  <2>6. CASE new = NoRead
    BY <2>4, <2>5, <2>6, KeepsReadsInv, NoReadType
  <2>7. CASE new \in OrderRead(q)
    <3>1. /\ new \in ReadRecord /\ new.order = q.order /\ new.step = q.step
          /\ new.header = Header(q.order)
      BY <2>3, <2>7, <1>0, FirstQuery
    <3>2. /\ new.order \in OrderIds /\ new.step \in {1, 2}
          /\ new.header.status = "CANCELED" =>
               /\ new.header = Header(new.order)
               /\ new.step = 2 /\ ~new.cut => new.items = orders[new.order].items
      BY <2>3, <3>1
    <3> QED BY <2>4, <2>5, <3>1, <3>2, KeepsReadsInv
  <2> QED BY <2>5, <2>6, <2>7
<1>2. ASSUME ContinueRead(r)
      PROVE  ReadsInv'
  <2> DEFINE read == reads[r]
             q == [read EXCEPT !.step = @ + 1]
  <2>1. /\ read \in ReadRecord /\ read.step = 1 /\ read.order \in OrderIds
        /\ read.header.status = "CANCELED" => read.header = Header(read.order)
    BY <1>2, FinishedIsTwo DEF ContinueRead, Reading, ReadsInv, ReadOK, SeenFinal
  <2>2. Query(r, read)
    BY <1>2 DEF ContinueRead
  <2> HIDE DEF read
  <2>3. /\ q \in ReadRecord /\ q.order = read.order /\ q.step = 2 /\ q.header = read.header
    BY <2>1 DEF ReadRecord
  <2>4. UNCHANGED vars
    BY <2>1, <2>2, QueryAnswers
  <2>5. PICK new : /\ reads' = [reads EXCEPT ![r] = new]
                   /\ new = NoRead \/ new \in ItemsRead(q)
    BY <2>1, <2>2, QueryAnswers
  <2> HIDE DEF q
  <2>6. CASE new = NoRead
    BY <2>4, <2>5, <2>6, KeepsReadsInv, NoReadType
  <2>7. CASE new \in ItemsRead(q)
    <3>1. /\ new \in ReadRecord /\ new.order = q.order /\ new.step = q.step
          /\ new.header = q.header
          /\ ~new.cut => new.items = orders[q.order].items
      BY <2>1, <2>3, <2>7, <1>0, SecondQuery
    <3> QED BY <2>1, <2>3, <2>4, <2>5, <3>1, KeepsReadsInv
  <2> QED BY <2>5, <2>6, <2>7
<1> QED BY <1>1, <1>2 DEF ReadStep

\* A read leaves the marketplace alone; what the marketplace does is a step of it.
LEMMA ReadsAreQuiet == [ReadsNext]_rvars => [Next]_vars
<1>1. ASSUME NEW r \in Readers, ReadStep(r) PROVE UNCHANGED vars
  BY <1>1 DEF ReadStep, BeginRead, ContinueRead, Query
<1> QED BY <1>1 DEF ReadsNext, rvars

LEMMA NextReads == OInv /\ ReadsInv /\ [ReadsNext]_rvars => ReadsInv'
<1> SUFFICES ASSUME OInv, ReadsInv, [ReadsNext]_rvars PROVE ReadsInv'
  OBVIOUS
<1>1. CASE Next /\ ReadsForgotten
  <2>1. \A r \in Readers : reads'[r] = reads[r] \/ reads'[r] = NoRead
    BY <1>1 DEF ReadsForgotten
  <2>2. reads' \in [Readers -> ReadRecord]
    BY <1>1, NoReadType DEF ReadsForgotten, ReadsInv
  <2> QED BY <1>1, <2>1, <2>2, ForgottenOK DEF ReadsInv
<1>2. ASSUME NEW r \in Readers, ReadStep(r) PROVE ReadsInv'
  BY <1>2, ReadStepOK
<1>3. CASE UNCHANGED rvars
  <2>1. reads' = reads /\ UNCHANGED vars
    BY <1>3 DEF rvars
  <2> QED BY <2>1, ForgottenOK DEF ReadsInv
<1> QED BY <1>1, <1>2, <1>3 DEF ReadsNext

\* A client that is told an order is canceled is told what was canceled, though
\* its row and its items are read by two queries with anything in between: the
\* row is read first, and a canceled order never changes again.
THEOREM CanceledReadExactHolds == ReadsSpec => []CanceledReadExact
<1>1. ReadsSpec => Spec
  <2>1. ReadsInit => Init
    BY DEF ReadsInit
  <2>2. [ReadsNext]_rvars => [Next]_vars
    BY ReadsAreQuiet
  <2> QED BY <2>1, <2>2, PTL DEF ReadsSpec, Spec
<1>2. ReadsInit => ReadsInv
  BY InitReads
<1>3. OInv /\ ReadsInv /\ [ReadsNext]_rvars => ReadsInv'
  BY NextReads
<1>4. ReadsInv => CanceledReadExact
  BY DEF ReadsInv, ReadOK, SeenFinal, CanceledReadExact
<1> QED BY <1>1, <1>2, <1>3, <1>4, OrdersInvariance, PTL DEF ReadsSpec

-----------------------------------------------------------------------------
(***************************************************************************)
(* Walks through the list of products.                                     *)
(***************************************************************************)

WalkRecord == [filter : Filters \cup {None}, at : {"idle", "count", "rows", "end"}, page : Nat,
               total : Nat, seen : SUBSET Products, start : SUBSET Products,
               left : BOOLEAN, joined : BOOLEAN, cut : BOOLEAN]

Going(w) == w.at \in {"count", "rows"}

\* The products listed before p.
Ahead(f, p) == {q \in Listed(products, f) : born[q] > born[p]}

StartExists(w) == w.at # "idle" => \A p \in w.start : Exists(p)

\* A product listed from the start has been seen, or is still ahead: it stands
\* behind all the pages read so far.
NotMissed(w) ==
    Going(w) /\ ~w.left /\ ~w.cut =>
      /\ w.start \subseteq Listed(products, w.filter)
      /\ \A p \in w.start : Alone(p) => \/ p \in w.seen
                                        \/ Cardinality(Ahead(w.filter, p)) >= Offset(w.page)

AllSeen(w) == w.at = "end" /\ ~w.left /\ ~w.cut => \A p \in w.start : Alone(p) => p \in w.seen

\* A list that nothing joins or leaves is the one the walk began with.
SameList(w) ==
    w.at # "idle" /\ ~w.left /\ ~w.joined =>
      /\ w.seen \subseteq w.start
      /\ Going(w) => Listed(products, w.filter) = w.start
      /\ w.at \in {"rows", "end"} => w.total = Cardinality(w.start)

WalkOK(w) == StartExists(w) /\ NotMissed(w) /\ AllSeen(w) /\ SameList(w)

WalksInv == /\ walks \in [Walkers -> WalkRecord]
            /\ born \in [Products -> Int]
            /\ \A c \in Walkers : WalkOK(walks[c])

-----------------------------------------------------------------------------
(* Orderings and positions.                                                 *)

\* Nothing is left out of an ordering.
LEMMA OrderingsOnto ==
    ASSUME NEW S \in SUBSET Products, NEW s \in Orderings(S)
    PROVE  /\ Cardinality(S) \in Nat
           /\ s \in [1 .. Cardinality(S) -> S] /\ DOMAIN s = 1 .. Cardinality(S)
           /\ \A i, j \in 1 .. Cardinality(S) : s[i] = s[j] => i = j
           /\ \A p \in S : \E i \in 1 .. Cardinality(S) : s[i] = p
<1>1. IsFiniteSet(S) /\ Cardinality(S) \in Nat
  BY RowsAssumption, FS_Subset, FS_CardinalityType
<1>2. /\ s \in [1 .. Cardinality(S) -> S]
      /\ \A i, j \in DOMAIN s : s[i] = s[j] => i = j
  BY DEF Orderings
<1>3. s \in Injection(1 .. Cardinality(S), S)
  BY <1>2 DEF Injection, IsInjective
<1>4. Cardinality(1 .. Cardinality(S)) = Cardinality(S)
  BY <1>1, FS_Interval
<1>5. s \in Surjection(1 .. Cardinality(S), S)
  BY <1>1, <1>3, <1>4, FS_Injection
<1> QED BY <1>1, <1>2, <1>5 DEF Surjection

\* The place of a product in any answer to the query is known from the products
\* ahead of it, when no other has its created_at.
LEMMA PlaceInList ==
    ASSUME born \in [Products -> Int], NEW f, NEW s \in Orderings(Listed(products, f)), InOrder(s),
           NEW p \in Listed(products, f), Alone(p)
    PROVE  /\ Cardinality(Ahead(f, p)) \in Nat
           /\ Cardinality(Ahead(f, p)) + 1 \in DOMAIN s
           /\ s[Cardinality(Ahead(f, p)) + 1] = p
<1> DEFINE list == Listed(products, f)
           N == Cardinality(list)
<1>1. list \in SUBSET Products /\ \A q \in list : Exists(q)
  BY DEF Listed, Exists
<1>2. /\ N \in Nat /\ s \in [1 .. N -> list] /\ DOMAIN s = 1 .. N
      /\ \A i, j \in 1 .. N : s[i] = s[j] => i = j
      /\ \A q \in list : \E i \in 1 .. N : s[i] = q
  BY <1>1, OrderingsOnto
<1>3. Ahead(f, p) = {q \in list : born[q] > born[p]}
  BY DEF Ahead
<1>4. \A q \in list : q # p => born[q] # born[p]
  BY <1>1 DEF Alone
<1>5. \A i, j \in 1 .. N : i < j => born[s[i]] >= born[s[j]]
  BY <1>2 DEF InOrder
<1>6. \A q \in list : born[q] \in Int
  BY <1>1
<1> HIDE DEF list, N
<1>7. p \in list
  BY DEF list
<1>8. PICK k \in 1 .. N : s[k] = p
  BY <1>2, <1>7
<1>9. \A i \in 1 .. N : i < k <=> born[s[i]] > born[p]
  <2> SUFFICES ASSUME NEW i \in 1 .. N PROVE i < k <=> born[s[i]] > born[p]
    OBVIOUS
  <2>1. s[i] \in list /\ born[s[i]] \in Int /\ born[p] \in Int
    BY <1>2, <1>6, <1>7
  <2>2. CASE i < k
    <3>1. born[s[i]] >= born[p] /\ s[i] # p
      BY <1>2, <1>5, <1>8, <2>2
    <3> QED BY <1>4, <2>1, <2>2, <3>1
  <2>3. CASE i = k
    BY <1>8, <2>1, <2>3
  <2>4. CASE k < i
    <3>1. born[p] >= born[s[i]]
      BY <1>5, <1>8, <2>4
    <3> QED BY <1>2, <2>1, <2>4, <3>1
  <2> QED BY <1>2, <2>2, <2>3, <2>4
<1> DEFINE A == {q \in list : born[q] > born[p]}
           g == [i \in 1 .. (k - 1) |-> s[i]]
<1>10. k \in Int /\ 1 .. (k - 1) \subseteq 1 .. N /\ \A i \in 1 .. N : i < k <=> i \in 1 .. (k - 1)
  BY <1>2
<1>11. g \in [1 .. (k - 1) -> A]
  BY <1>2, <1>9, <1>10
<1>12. g \in Injection(1 .. (k - 1), A)
  <2>1. \A i, j \in 1 .. (k - 1) : g[i] = g[j] => i = j
    BY <1>2, <1>10
  <2> QED BY <1>11, <2>1 DEF Injection, IsInjective
<1>13. g \in Surjection(1 .. (k - 1), A)
  <2>1. \A q \in A : \E i \in 1 .. (k - 1) : g[i] = q
    BY <1>2, <1>9, <1>10
  <2> QED BY <1>11, <2>1 DEF Surjection
<1>14. ExistsBijection(1 .. (k - 1), A)
  BY <1>12, <1>13 DEF ExistsBijection, Bijection
<1>15. IsFiniteSet(1 .. (k - 1)) /\ Cardinality(1 .. (k - 1)) = k - 1
  BY <1>10, FS_Interval
<1>16. Cardinality(A) = k - 1
  BY <1>14, <1>15, FS_Bijection
<1> QED BY <1>2, <1>3, <1>8, <1>10, <1>16

LEMMA AheadFinite ==
    ASSUME NEW f, NEW p
    PROVE  IsFiniteSet(Ahead(f, p)) /\ Cardinality(Ahead(f, p)) \in Nat
<1>1. Ahead(f, p) \in SUBSET Products
  BY DEF Ahead, Listed
<1> QED BY <1>1, RowsAssumption, FS_Subset, FS_CardinalityType

LEMMA NextOffset ==
    ASSUME NEW page \in Nat
    PROVE  /\ Offset(page) \in Nat /\ Offset(page + 1) = Offset(page) + Size
           /\ Offset(0) = 0 /\ Size \in Nat \ {0}
  BY PagesAssumption DEF Offset

\* A full page leaves room for what comes after it.
LEMMA PageIsFull ==
    ASSUME NEW N \in Nat, NEW first \in Nat, first + Size <= N
    PROVE  Cardinality({i \in 1 .. N : first < i /\ i <= first + Size}) = Size
<1>1. Size \in Nat \ {0}
  BY PagesAssumption
<1>2. {i \in 1 .. N : first < i /\ i <= first + Size} = (first + 1) .. (first + Size)
  BY <1>1
<1> DEFINE a == first + 1
           b == first + Size
<1>3. a \in Int /\ b \in Int /\ ~(a > b) /\ b - a + 1 = Size
  BY <1>1
<1> HIDE DEF a, b
<1>4. Cardinality(a .. b) = b - a + 1
  BY <1>3, FS_Interval
<1> QED BY <1>2, <1>3, <1>4 DEF a, b

-----------------------------------------------------------------------------
(* The first state.                                                         *)

LEMMA NoWalkOK == NoWalk \in WalkRecord /\ WalkOK(NoWalk)
  BY DEF NoWalk, WalkRecord, WalkOK, StartExists, NotMissed, AllSeen, SameList, Going

LEMMA InitWalks == PagesInit => WalksInv
<1> SUFFICES ASSUME PagesInit PROVE WalksInv
  OBVIOUS
<1> DEFINE There == {p \in Products : Exists(p)}
<1>1. PICK s \in Orderings(There) :
        born = [p \in Products |->
                  IF Exists(p) THEN -(CHOOSE i \in DOMAIN s : s[i] = p) ELSE 0]
  BY DEF PagesInit
<1>2. /\ Cardinality(There) \in Nat /\ DOMAIN s = 1 .. Cardinality(There)
      /\ \A p \in There : \E i \in 1 .. Cardinality(There) : s[i] = p
  BY OrderingsOnto
<1>3. ASSUME NEW p \in Products, Exists(p)
      PROVE  -(CHOOSE i \in DOMAIN s : s[i] = p) \in Int
  <2>1. \E i \in DOMAIN s : s[i] = p
    BY <1>2, <1>3 DEF There
  <2>2. (CHOOSE i \in DOMAIN s : s[i] = p) \in DOMAIN s
    BY <2>1
  <2> QED BY <1>2, <2>2
<1>4. born \in [Products -> Int]
  BY <1>1, <1>3
<1>5. \A c \in Walkers : walks[c] = NoWalk
  BY DEF PagesInit
<1>6. walks \in [Walkers -> WalkRecord]
  BY NoWalkOK DEF PagesInit
<1> QED BY <1>4, <1>5, <1>6, NoWalkOK DEF WalksInv

-----------------------------------------------------------------------------
(* Steps of the marketplace.                                                *)

\* A row of products is never deleted.
LEMMA ExistsStays ==
    ASSUME IInv, [Next]_vars, NEW p \in Products, Exists(p)
    PROVE  Exists(p)'
<1>0. products \in [Products -> ProductRecord]
  BY DEF IInv, TypeOK
<1>1. CASE UNCHANGED db
  BY <1>1 DEF db, Exists
<1>2. ASSUME NEW w \in Workers, Commits(w) PROVE Exists(p)'
  <2>1. products' = products \/ products' = StockWritten(w)
    BY <1>2 DEF Commits, CommitCreate, CommitUpdate, CommitCancel, Commit, EndTx
  <2> QED BY <1>0, <2>1 DEF StockWritten, Exists, ProductRecord
<1>3. CASE CatalogRequest
  <2>1. ASSUME NEW u \in Users, NEW i \in Products, NEW row \in NewRows, CreateProduct(u, i, row)
        PROVE  Exists(p)'
    <3>1. row.status # "NONE"
      BY CatalogAssumption
    <3> QED BY <1>0, <2>1, <3>1 DEF CreateProduct, Exists
  <2>2. ASSUME NEW u \in Users, NEW i \in Products, DeleteProduct(u, i)
        PROVE  Exists(p)'
    BY <1>0, <2>2 DEF DeleteProduct, Exists, ProductRecord
  <2>3. ASSUME products' = products PROVE Exists(p)'
    BY <2>3 DEF Exists
  <2> QED BY <1>3, <2>1, <2>2, <2>3 DEF CatalogRequest, BeginEdit, CreatePromoCode, others
<1>4. CASE CatalogStep
  <2>1. ASSUME NEW e \in Editors, WriteProduct(e) PROVE Exists(p)'
    <3>1. edits[e].row.status # "NONE"
      BY <2>1 DEF WriteProduct, IInv, CatalogOK
    <3> QED BY <1>0, <2>1, <3>1 DEF WriteProduct, Exists
  <2>2. ASSUME NEW e \in Editors, EditFails(e) PROVE Exists(p)'
    BY <2>2 DEF EditFails, Exists
  <2> QED BY <1>4, <2>1, <2>2 DEF CatalogStep
<1> QED BY <1>1, <1>2, <1>3, <1>4, NextKinds

\* created_at never changes, and a product alone at its created_at now has
\* always been alone.
LEMMA BornStays ==
    ASSUME IInv, [Next]_vars, Stamp, born \in [Products -> Int]
    PROVE  /\ born' \in [Products -> Int]
           /\ \A p \in Products : Exists(p) => born'[p] = born[p]
           /\ \A p \in Products : Exists(p) /\ Alone(p)' => Alone(p)
<1>1. now \in Int
  BY DEF IInv, TypeOK
<1>2. born' \in [Products -> Int] /\ \A p \in Products : Exists(p) => born'[p] = born[p]
  BY <1>1 DEF Stamp
<1>3. ASSUME NEW p \in Products, Exists(p), Alone(p)' PROVE Alone(p)
  BY <1>2, <1>3, ExistsStays DEF Alone
<1> QED BY <1>2, <1>3

\* A list that has lost no product has lost none of those ahead of another.
LEMMA AheadGrows ==
    ASSUME NEW f, NEW p, p \in Products, Exists(p),
           Listed(products, f) \subseteq Listed(products', f),
           \A q \in Products : Exists(q) => born'[q] = born[q]
    PROVE  /\ Cardinality(Ahead(f, p)') \in Nat
           /\ Cardinality(Ahead(f, p)) <= Cardinality(Ahead(f, p)')
<1>1. \A q \in Listed(products, f) : q \in Products /\ Exists(q)
  BY DEF Listed, Exists
<1>2. Ahead(f, p) \subseteq {q \in Listed(products', f) : born'[q] > born'[p]}
  BY <1>1 DEF Ahead
<1> DEFINE After == {q \in Listed(products', f) : born'[q] > born'[p]}
<1>3. Ahead(f, p)' = After
  BY DEF Ahead, Listed
<1>4. After \in SUBSET Products
  BY DEF Listed
<1>5. IsFiniteSet(After) /\ Cardinality(After) \in Nat
  BY <1>4, RowsAssumption, FS_Subset, FS_CardinalityType
<1> HIDE DEF After
<1>6. Cardinality(Ahead(f, p)) <= Cardinality(After)
  BY <1>2, <1>5, FS_Subset DEF After
<1> QED BY <1>3, <1>5, <1>6

\* A walk is right about the marketplace after a step of it that it has watched.
LEMMA WatchedOK ==
    ASSUME IInv, [Next]_vars, Stamp, born \in [Products -> Int],
           NEW w \in WalkRecord, WalkOK(w),
           NEW left \in BOOLEAN, NEW joined \in BOOLEAN,
           NEW v, v = IF Going(w) THEN [w EXCEPT !.left = @ \/ left, !.joined = @ \/ joined] ELSE w,
           ~left => Listed(products, w.filter) \subseteq Listed(products', w.filter),
           ~joined => Listed(products', w.filter) \subseteq Listed(products, w.filter)
    PROVE  v \in WalkRecord /\ WalkOK(v)'
<1>1. /\ v \in WalkRecord
      /\ v.at = w.at /\ v.filter = w.filter /\ v.page = w.page /\ v.total = w.total
      /\ v.seen = w.seen /\ v.start = w.start /\ v.cut = w.cut
      /\ ~v.left => ~w.left /\ (Going(w) => ~left)
      /\ ~v.joined => ~w.joined /\ (Going(w) => ~joined)
  BY DEF WalkRecord
<1>2. Going(v) <=> Going(w)
  BY <1>1 DEF Going
<1>3. w.start \in SUBSET Products
  BY DEF WalkRecord
<1>4. w.at # "idle" => \A p \in w.start : p \in Products /\ Exists(p)
  BY <1>3 DEF WalkOK, StartExists
<1>5. \A p \in Products : Exists(p) /\ Alone(p)' => Alone(p)
  BY BornStays
<1>6. Going(w) => w.at # "idle"
  BY DEF Going
<1>7. StartExists(v)'
  BY <1>1, <1>4, ExistsStays DEF StartExists
<1>8. NotMissed(v)'
  <2> SUFFICES ASSUME Going(w), ~v.left, ~w.cut
               PROVE  /\ w.start \subseteq Listed(products', w.filter)
                      /\ \A p \in w.start : Alone(p)' =>
                           \/ p \in w.seen
                           \/ Cardinality(Ahead(w.filter, p)') >= Offset(w.page)
    BY <1>1, <1>2 DEF NotMissed, Going, Offset
  <2>1. /\ w.start \subseteq Listed(products, w.filter)
        /\ \A p \in w.start : Alone(p) => \/ p \in w.seen
                                          \/ Cardinality(Ahead(w.filter, p)) >= Offset(w.page)
    BY <1>1 DEF WalkOK, NotMissed
  <2>2. Listed(products, w.filter) \subseteq Listed(products', w.filter)
    BY <1>1
  <2>3. ASSUME NEW p \in w.start, Alone(p)', p \notin w.seen
        PROVE  Cardinality(Ahead(w.filter, p)') >= Offset(w.page)
    <3>1. p \in Products /\ Exists(p) /\ Alone(p)
      BY <1>4, <1>5, <1>6, <2>3
    <3>2. Cardinality(Ahead(w.filter, p)) >= Offset(w.page)
      BY <2>1, <2>3, <3>1
    <3>3. \A q \in Products : Exists(q) => born'[q] = born[q]
      BY BornStays
    <3>4. /\ Cardinality(Ahead(w.filter, p)') \in Nat
          /\ Cardinality(Ahead(w.filter, p)) <= Cardinality(Ahead(w.filter, p)')
      BY <2>2, <3>1, <3>3, AheadGrows
    <3>5. Cardinality(Ahead(w.filter, p)) \in Nat
      BY AheadFinite
    <3>6. Offset(w.page) \in Nat
      BY NextOffset DEF WalkRecord
    <3> QED BY <3>2, <3>4, <3>5, <3>6
  <2> QED BY <2>1, <2>2, <2>3
<1>9. AllSeen(v)'
  BY <1>1, <1>4, <1>5 DEF WalkOK, AllSeen
<1>10. SameList(v)'
  BY <1>1, <1>2, <1>6 DEF WalkOK, SameList, Going, Listed
<1> QED BY <1>1, <1>7, <1>8, <1>9, <1>10 DEF WalkOK

LEMMA WatchKeepsWalks ==
    ASSUME IInv, WalksInv, Next, Watch, Stamp
    PROVE  WalksInv'
<1>1. born \in [Products -> Int] /\ walks \in [Walkers -> WalkRecord]
  BY DEF WalksInv
<1>2. born' \in [Products -> Int]
  BY <1>1, BornStays
<1>3. ASSUME NEW c \in Walkers
      PROVE  walks'[c] \in WalkRecord /\ WalkOK(walks[c])'
  <2>1. PICK w : w = walks[c]
    OBVIOUS
  <2>2. PICK v : v = walks'[c]
    OBVIOUS
  <2>3. w \in WalkRecord /\ WalkOK(w)
    BY <1>1, <2>1 DEF WalksInv
  <2>4. PICK left \in BOOLEAN, joined \in BOOLEAN :
          /\ left = ~(Listed(products, w.filter) \subseteq Listed(products', w.filter))
          /\ joined = ~(Listed(products', w.filter) \subseteq Listed(products, w.filter))
    OBVIOUS
  <2>5. v = IF Going(w) THEN [w EXCEPT !.left = @ \/ left, !.joined = @ \/ joined] ELSE w
    BY <2>1, <2>2, <2>4 DEF Watch, Going
  <2>6. v \in WalkRecord /\ WalkOK(v)'
    BY <1>1, <2>3, <2>4, <2>5, WatchedOK
  <2> QED BY <2>2, <2>6
           DEF WalkOK, StartExists, NotMissed, AllSeen, SameList, Going, Ahead, Listed
<1>4. walks' \in [Walkers -> WalkRecord]
  BY <1>3 DEF Watch
<1> QED BY <1>2, <1>3, <1>4 DEF WalksInv

-----------------------------------------------------------------------------
(* Steps of a client.                                                       *)

\* A client's step concerns its own walk only.
LEMMA KeepsWalks ==
    ASSUME WalksInv, NEW c \in Walkers, NEW v \in WalkRecord, WalkOK(v), Walk(c, v)
    PROVE  WalksInv'
<1>1. /\ walks' = [walks EXCEPT ![c] = v] /\ born' = born /\ products' = products
      /\ walks \in [Walkers -> WalkRecord]
  BY DEF Walk, vars, WalksInv
<1>2. /\ walks' \in [Walkers -> WalkRecord] /\ walks'[c] = v
      /\ \A i \in Walkers : i # c => walks'[i] = walks[i]
  BY <1>1
<1>3. ASSUME NEW i \in Walkers PROVE WalkOK(walks[i])'
  <2>1. PICK w : w = walks'[i]
    OBVIOUS
  <2>2. WalkOK(w)
    <3>1. CASE i = c
      BY <1>2, <2>1, <3>1
    <3>2. CASE i # c
      BY <1>2, <2>1, <3>2 DEF WalksInv
    <3> QED BY <3>1, <3>2
  <2> QED BY <1>1, <2>1, <2>2
           DEF WalkOK, StartExists, NotMissed, AllSeen, SameList, Going, Ahead, Listed, Alone, Exists
<1> QED BY <1>1, <1>2, <1>3 DEF WalksInv

LEMMA ListedFinite ==
    ASSUME NEW f
    PROVE  /\ Listed(products, f) \in SUBSET Products
           /\ \A p \in Listed(products, f) : Exists(p)
           /\ Cardinality(Listed(products, f)) \in Nat
<1>1. Listed(products, f) \in SUBSET Products
  BY DEF Listed
<1> QED BY <1>1, RowsAssumption, FS_Subset, FS_CardinalityType DEF Listed, Exists

LEMMA BeginWalkOK ==
    ASSUME WalksInv, NEW c \in Walkers, NEW f \in Filters, BeginWalk(c, f)
    PROVE  WalksInv'
<1> DEFINE list == Listed(products, f)
           v == [NoWalk EXCEPT !.filter = f, !.at = "count", !.start = list]
<1>1. list \in SUBSET Products /\ \A p \in list : Exists(p)
  BY ListedFinite
<1>2. Walk(c, v)
  BY DEF BeginWalk
<1>3. /\ v \in WalkRecord /\ v.filter = f /\ v.at = "count" /\ v.start = list
      /\ v.page = 0 /\ v.seen = {}
  BY <1>1 DEF NoWalk, WalkRecord
<1>4. \A p \in list : Cardinality(Ahead(f, p)) >= Offset(0)
  BY AheadFinite, NextOffset
<1> HIDE DEF v
<1>5. WalkOK(v)
  BY <1>1, <1>3, <1>4 DEF WalkOK, StartExists, NotMissed, AllSeen, SameList, Going
<1> QED BY <1>2, <1>3, <1>5, KeepsWalks

LEMMA CountOK ==
    ASSUME WalksInv, NEW c \in Walkers, CountProducts(c)
    PROVE  WalksInv'
<1>1. PICK w : w = walks[c]
  OBVIOUS
<1>2. w \in WalkRecord /\ WalkOK(w) /\ w.at = "count"
  BY <1>1 DEF WalksInv, CountProducts
<1> DEFINE total == Cardinality(Listed(products, w.filter))
           v == [w EXCEPT !.at = "rows", !.total = total]
<1>3. total \in Nat
  BY ListedFinite
<1>4. Walk(c, v)
  BY <1>1 DEF CountProducts, Counted
<1>5. /\ v \in WalkRecord /\ v.at = "rows" /\ v.total = total /\ v.filter = w.filter
      /\ v.page = w.page /\ v.seen = w.seen /\ v.start = w.start
      /\ v.left = w.left /\ v.joined = w.joined /\ v.cut = w.cut
  BY <1>2, <1>3 DEF WalkRecord
<1> HIDE DEF v
<1>6. WalkOK(v)
  BY <1>2, <1>5 DEF WalkOK, StartExists, NotMissed, AllSeen, SameList, Going
<1> QED BY <1>4, <1>5, <1>6, KeepsWalks

\* The places on a page, those whose rows arrive, and the walk after it.
Places(w, s) == {i \in DOMAIN s : Offset(w.page) < i /\ i <= Offset(w.page) + Size}
Arrived(w, s, n) == {i \in Places(w, s) : i <= Offset(w.page) + n}
AfterPage(w, s, n) ==
    [w EXCEPT !.at = IF Cardinality(Arrived(w, s, n)) < Size THEN "end" ELSE "count",
              !.page = @ + 1,
              !.seen = @ \cup {s[i] : i \in Arrived(w, s, n)},
              !.cut = @ \/ Arrived(w, s, n) # Places(w, s)]

LEMMA PageOK ==
    ASSUME born \in [Products -> Int], NEW w \in WalkRecord, WalkOK(w), w.at = "rows",
           NEW s \in Orderings(Listed(products, w.filter)), InOrder(s), NEW n \in 0 .. Size
    PROVE  AfterPage(w, s, n) \in WalkRecord /\ WalkOK(AfterPage(w, s, n))
<1>0. PICK page, got, v : /\ page = Places(w, s) /\ got = Arrived(w, s, n)
                          /\ v = AfterPage(w, s, n)
  OBVIOUS
<1> DEFINE list == Listed(products, w.filter)
           N == Cardinality(list)
           first == Offset(w.page)
           shown == {s[i] : i \in got}
           at == IF Cardinality(got) < Size THEN "end" ELSE "count"
<1>1. list \in SUBSET Products /\ N \in Nat
  BY ListedFinite
<1>2. s \in [1 .. N -> list] /\ DOMAIN s = 1 .. N
  BY <1>1, OrderingsOnto
<1>3. w.page \in Nat /\ first \in Nat /\ Offset(w.page + 1) = first + Size /\ Size \in Nat
  BY NextOffset DEF WalkRecord
<1>4. shown \subseteq list
  BY <1>0, <1>2 DEF Arrived, Places
<1> DEFINE cut == w.cut \/ got # page
<1>5. /\ v \in WalkRecord
      /\ v.at = at /\ v.page = w.page + 1 /\ v.seen = w.seen \cup shown
      /\ v.filter = w.filter /\ v.start = w.start /\ v.total = w.total
      /\ v.left = w.left /\ v.joined = w.joined
      /\ ~v.cut => ~w.cut /\ got = page
  <2>1. v = [w EXCEPT !.at = at, !.page = @ + 1, !.seen = @ \cup shown, !.cut = cut]
    BY <1>0 DEF AfterPage
  <2>2. /\ at \in {"end", "count"} /\ shown \in SUBSET Products /\ cut \in BOOLEAN
        /\ ~cut => ~w.cut /\ got = page
    BY <1>1, <1>4 DEF WalkRecord
  <2> HIDE DEF at, shown, cut, first
  <2>3. /\ w.page + 1 \in Nat /\ w.seen \cup shown \in SUBSET Products
        /\ at \in {"idle", "count", "rows", "end"} /\ cut \in BOOLEAN
    BY <1>3, <2>2 DEF WalkRecord
  <2>4. v \in WalkRecord
    BY <2>1, <2>3 DEF WalkRecord
  <2>5. /\ v.at = at /\ v.page = w.page + 1 /\ v.seen = w.seen \cup shown
        /\ v.filter = w.filter /\ v.start = w.start /\ v.total = w.total
        /\ v.left = w.left /\ v.joined = w.joined /\ v.cut = cut
    BY <2>1 DEF WalkRecord
  <2> QED BY <2>2, <2>4, <2>5
<1>6. /\ StartExists(w) /\ NotMissed(w) /\ SameList(w) /\ Going(w)
  BY DEF WalkOK, Going
<1>7. ASSUME ~v.left, ~v.cut, NEW p \in w.start, Alone(p), p \notin v.seen
      PROVE  Cardinality(Ahead(w.filter, p)) >= first + Size
  <2> DEFINE k == Cardinality(Ahead(w.filter, p)) + 1
  <2>1. p \in list
    BY <1>5, <1>6, <1>7 DEF NotMissed
  <2>2. Cardinality(Ahead(w.filter, p)) \in Nat /\ k \in DOMAIN s /\ s[k] = p
    BY <2>1, <1>7, PlaceInList
  <2>3. Cardinality(Ahead(w.filter, p)) >= first
    BY <1>5, <1>6, <1>7 DEF NotMissed
  <2>4. k \notin got
    BY <1>5, <1>7, <2>2
  <2> HIDE DEF first
  <2>5. ~(k <= first + Size)
    BY <1>0, <1>3, <1>5, <1>7, <2>2, <2>3, <2>4 DEF first, Places
  <2> QED BY <1>3, <2>2, <2>5
<1>8. ASSUME at = "end", ~v.left, ~v.cut, NEW p \in w.start, Alone(p)
      PROVE  p \in v.seen
  <2> SUFFICES ASSUME p \notin v.seen PROVE FALSE
    OBVIOUS
  <2> DEFINE A == Cardinality(Ahead(w.filter, p))
  <2>1. p \in list
    BY <1>5, <1>6, <1>8 DEF NotMissed
  <2>2. A \in Nat /\ A + 1 \in DOMAIN s
    BY <2>1, <1>8, PlaceInList
  <2>3. A >= first + Size
    BY <1>7, <1>8
  <2> HIDE DEF A, N
  <2>4. first + Size <= N
    BY <1>1, <1>2, <1>3, <2>2, <2>3
  <2>5. page = {i \in 1 .. N : first < i /\ i <= first + Size}
    BY <1>0, <1>2 DEF Places, first, N
  <2> HIDE DEF first
  <2>6. Cardinality(page) = Size
    BY <1>1, <1>3, <2>4, <2>5, PageIsFull
  <2>7. Cardinality(got) = Size
    BY <1>5, <1>8, <2>6
  <2> QED BY <1>3, <1>8, <2>7
<1>9. at \in {"end", "count"}
  OBVIOUS
<1> HIDE DEF at, shown
<1>10. StartExists(v)
  BY <1>5, <1>6, <1>9 DEF StartExists, Going
<1>11. NotMissed(v)
  BY <1>3, <1>5, <1>6, <1>7, <1>9 DEF NotMissed, Going
<1>12. AllSeen(v)
  BY <1>5, <1>8 DEF AllSeen
<1>13. SameList(v)
  BY <1>4, <1>5, <1>6, <1>9 DEF SameList, Going
<1> QED BY <1>0, <1>5, <1>10, <1>11, <1>12, <1>13 DEF WalkOK

LEMMA ReadPageOK ==
    ASSUME WalksInv, NEW c \in Walkers, ReadPage(c)
    PROVE  WalksInv'
<1>1. PICK w : w = walks[c]
  OBVIOUS
<1>2. born \in [Products -> Int] /\ w \in WalkRecord /\ WalkOK(w) /\ w.at = "rows"
  BY <1>1 DEF WalksInv, ReadPage
<1>3. \E s \in Orderings(Listed(products, walks[c].filter)) : \E n \in 0 .. Size :
        InOrder(s) /\ Walk(c, AfterPage(walks[c], s, n))
  BY Zenon DEF ReadPage, AfterPage, Arrived, Places
<1>4. PICK s \in Orderings(Listed(products, w.filter)), n \in 0 .. Size :
        InOrder(s) /\ Walk(c, AfterPage(w, s, n))
  BY <1>1, <1>3
<1>5. AfterPage(w, s, n) \in WalkRecord /\ WalkOK(AfterPage(w, s, n))
  BY <1>2, <1>4, PageOK
<1> QED BY <1>4, <1>5, KeepsWalks

-----------------------------------------------------------------------------
\* Whatever a client does, the marketplace does not move.
LEMMA WalksAreQuiet == [PagesNext]_pvars => [Next]_vars
  BY DEF PagesNext, pvars, Walk, BeginWalk, CountProducts, ReadPage, WalkFails

LEMMA NextWalks == IInv /\ WalksInv /\ [PagesNext]_pvars => WalksInv'
<1> SUFFICES ASSUME IInv, WalksInv, [PagesNext]_pvars PROVE WalksInv'
  OBVIOUS
<1>1. CASE Next /\ Watch /\ Stamp
  BY <1>1, WatchKeepsWalks
<1>2. ASSUME NEW c \in Walkers, NEW f \in Filters, BeginWalk(c, f) PROVE WalksInv'
  BY <1>2, BeginWalkOK
<1>3. ASSUME NEW c \in Walkers, CountProducts(c) PROVE WalksInv'
  BY <1>3, CountOK
<1>4. ASSUME NEW c \in Walkers, ReadPage(c) PROVE WalksInv'
  BY <1>4, ReadPageOK
<1>5. ASSUME NEW c \in Walkers, WalkFails(c) PROVE WalksInv'
  BY <1>5, NoWalkOK, KeepsWalks DEF WalkFails
<1>6. CASE UNCHANGED pvars
  <2>1. walks' = walks /\ born' = born /\ products' = products
    BY <1>6 DEF pvars, vars
  <2> QED BY <2>1
           DEF WalksInv, WalkOK, StartExists, NotMissed, AllSeen, SameList, Going, Ahead, Listed,
               Alone, Exists
<1> QED BY <1>1, <1>2, <1>3, <1>4, <1>5, <1>6 DEF PagesNext

LEMMA WalksInvariance == PagesSpec => []WalksInv
<1>1. PagesInit => Init
  BY DEF PagesInit
<1>2. PagesSpec => Spec
  BY <1>1, WalksAreQuiet, PTL DEF PagesSpec, Spec
<1> QED BY <1>2, InitWalks, NextWalks, Invariance, PTL DEF PagesSpec

\* A client that reads the list page by page to the end has seen every product
\* that was listed all the while and shares its created_at with no other: what
\* sellers create or change between the queries pushes products to later pages
\* only, unless one leaves the list or a page is cut short.
THEOREM WalkCompleteHolds == PagesSpec => []WalkComplete
<1>1. WalksInv => WalkComplete
  BY DEF WalksInv, WalkOK, AllSeen, WalkComplete
<1> QED BY <1>1, WalksInvariance, PTL

\* The total in the answer, which a query of its own counts before the rows are
\* read, is the number of products a finished walk has seen, when no product
\* has joined or left the list meanwhile.
THEOREM TotalAgreesHolds == PagesSpec => []TotalAgrees
<1>1. WalksInv => TotalAgrees
  <2> SUFFICES ASSUME WalksInv, NEW c \in Walkers,
                      walks[c].at = "end", ~walks[c].left, ~walks[c].joined, ~walks[c].cut,
                      \A p \in walks[c].start : Alone(p)
               PROVE  walks[c].total = Cardinality(walks[c].seen)
    BY DEF TotalAgrees
  <2>1. walks[c].start = walks[c].seen
    BY DEF WalksInv, WalkOK, AllSeen, SameList
  <2> QED BY <2>1 DEF WalksInv, WalkOK, SameList
<1> QED BY <1>1, WalksInvariance, PTL
=============================================================================

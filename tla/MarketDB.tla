------------------------------ MODULE MarketDB ------------------------------
(***************************************************************************)
(* The marketplace database: the tables of migrations/00001_init.sql, the  *)
(* row locks of Postgres under READ COMMITTED, and the transaction an      *)
(* order request runs in (repository/order.go, WithTx).                    *)
(*                                                                         *)
(* A transaction's writes are private until it commits, so a worker keeps  *)
(* what it has changed in its own record and the tables hold committed     *)
(* rows only.  Every row it has locked or changed stays locked until it    *)
(* commits or rolls back.                                                  *)
(***************************************************************************)
EXTENDS Integers, Sequences, FiniteSets

CONSTANTS
    Workers,    \* order requests being served at once (one transaction each)
    Users,      \* user ids found in access tokens
    Role,       \* the role of each user: "USER", "SELLER" or "ADMIN"
    Products,   \* ids of products, created or not yet
    Promos,     \* promo codes, issued or not yet
    Terms,      \* what each code says: type, value, min, max, from, until
    OrderIds,   \* ids the database can give to orders
    None,       \* an absent value (SQL NULL, a nil pointer)
    MaxInt,     \* the largest value of an INTEGER column
    RateLimit   \* ORDER_RATE_LIMIT_MINUTES, in ticks of the clock

ASSUME RowsAssumption ==
    /\ Role \in [Users -> {"USER", "SELLER", "ADMIN"}]
    /\ None \notin Users \cup Products \cup Promos \cup OrderIds
    /\ MaxInt \in Nat
    /\ RateLimit \in Nat
    /\ IsFiniteSet(OrderIds) /\ IsFiniteSet(Products)

ASSUME TermsAssumption ==
    Terms \in [Promos -> [type : {"PERCENTAGE", "FIXED_AMOUNT"}, value : Nat,
                          min : Nat, max : Nat, from : Nat, until : Nat]]

VARIABLES
    products,   \* table products: status, price, stock, seller
    issued,     \* the promo codes that exist
    uses,       \* promo_codes.current_uses
    orders,     \* tables orders and order_items, one record an order
    ops,        \* table user_operations
    now,        \* the clock
    pc,         \* the statement each worker is at
    tx,         \* the transaction of each worker: its request and its writes
    rows        \* the rows each worker has locked

db == <<products, issued, uses, orders, ops>>

\* order_status has more values; no statement writes any but these two.
\* "NONE" is an id not given out yet.
OrderStatus == {"NONE", "CREATED", "CANCELED"}
ProductStatus == {"NONE", "ACTIVE", "INACTIVE", "ARCHIVED"}

NoQuantity == [p \in Products |-> 0]

NoOrder == [status |-> "NONE", user |-> None, items |-> NoQuantity, total |-> 0,
            discount |-> 0, promo |-> None, created |-> 0]

NoProduct == [status |-> "NONE", price |-> 0, stock |-> 0, seller |-> None]

\* A transaction not begun.  In one that runs: `olds` are the order's old items
\* still to be put back and `todo` the requested lines still to be reserved;
\* `back` and `took` are the units put back and taken so far, `code` the promo
\* code asked for or carried by the order, `promo` the one the order keeps, and
\* `used` the pending change of that code's current_uses.
NoTx == [kind |-> "none", user |-> None, order |-> None, began |-> 0,
         olds |-> << >>, todo |-> << >>, back |-> NoQuantity, took |-> NoQuantity,
         total |-> 0, code |-> None, promo |-> None, discount |-> 0, used |-> 0]

OrderRow(o)   == <<"order", o>>
ProductRow(p) == <<"product", p>>
PromoRow(c)   == <<"promo", c>>

\* Definitions named Faulty... are slips the code might have made, kept to show
\* that the properties notice them; no action uses one.

\* A plain SELECT in place of SELECT ... FOR UPDATE.
FaultyRowFree(w, r) == TRUE

\* A locking statement of w on row r goes through: no other worker holds r.
RowFree(w, r) == \A v \in Workers \ {w} : r \notin rows[v]

\* An update that does not count the items it has put back.
FaultyStock(w, p) == products[p].stock - tx[w].took[p]

\* The stock w reads: the committed one and its own uncommitted changes.
Stock(w, p) == products[p].stock + tx[w].back[p] - tx[w].took[p]

\* A window one tick too short.
FaultyRateLimited(u, type) ==
    \E op \in ops : op.user = u /\ op.type = type /\ op.at > now - RateLimit + 1

\* RateLimitCheck.  created_at of an operation is the now() of its transaction,
\* which Postgres fixes when the transaction begins.
RateLimited(u, type) ==
    \E op \in ops : op.user = u /\ op.type = type /\ op.at > now - RateLimit

\* Looking for orders in payment only.
FaultyHasActiveOrder(u) ==
    \E o \in OrderIds : orders[o].user = u /\ orders[o].status = "PAYMENT_PENDING"

HasActiveOrder(u) == \E o \in OrderIds : orders[o].user = u /\ orders[o].status = "CREATED"

\* IncreaseStock fails when the sum leaves the INTEGER column.
StockOverflows(w, p, n) == Stock(w, p) + n > MaxInt

\* DecrementPromoUses: GREATEST(current_uses - 1, 0).
OneUseLess(c) == IF uses[c] > 0 THEN -1 ELSE 0

\* An update that forgets to put the old items back.
FaultyStockWritten(w) ==
    [p \in Products |-> [products[p] EXCEPT !.stock = @ - tx[w].took[p]]]

\* The tables after the commit of w: products and promo_codes.
StockWritten(w) == [p \in Products |-> [products[p] EXCEPT !.stock = Stock(w, p)]]
UsesWritten(w)  == [c \in Promos |-> IF c = tx[w].code THEN uses[c] + tx[w].used ELSE uses[c]]

Goto(w, label) == pc' = [pc EXCEPT ![w] = label]

\* The transaction ends: locks and private writes are gone.
EndTx(w) == /\ pc' = [pc EXCEPT ![w] = "idle"]
            /\ tx' = [tx EXCEPT ![w] = NoTx]
            /\ rows' = [rows EXCEPT ![w] = {}]

\* WithTx without its deferred Rollback: the transaction stays open.
FaultyRollback(w) == /\ pc' = [pc EXCEPT ![w] = "idle"]
                     /\ tx' = [tx EXCEPT ![w] = NoTx]
                     /\ UNCHANGED <<rows, db>>

\* WithTx when the function it runs returns an error, or the process dies and
\* the server rolls the open transaction back.
Rollback(w) == EndTx(w) /\ UNCHANGED db

LockRow(w, r) == rows' = [rows EXCEPT ![w] = @ \cup {r}]
=============================================================================

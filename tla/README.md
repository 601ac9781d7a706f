# The marketplace in TLA+

Models, checks and proofs for the marketplace service of this repository
(`services/marketplace-api`, `services/user-service`). TLC checks the models on
small instances; TLAPS proves the theorems for every value of the constants.

## 1. The system

| component | code | state | operations |
|---|---|---|---|
| order use case | `usecases/order.go`, `repository/order.go` | tables `orders`, `order_items`, `user_operations`; one transaction a request | Create, Update, Cancel, GetByID |
| discount | `calcDiscount` in `usecases/order.go` | none | percentage capped at 70%, fixed amount capped at the total |
| product catalog | `usecases/product.go`, `repository/product.go`, `handlers/product.go` | table `products` | Create, Update (PUT), Delete (archive), GetByID, List |
| promo codes | `usecases/promo.go`, `repository/promo.go` | table `promo_codes` | Create; uses taken and returned by the order use case |
| database | `migrations/00001_init.sql`, PostgreSQL | row locks, open transactions | `SELECT ... FOR UPDATE`, `UPDATE`, commit, rollback, deadlock detection |
| connection pool | `repository/db.go` (`WithTx`), pgx | the connections in use, the requests that wait for one | begin, commit, rollback |
| handlers | `handlers/*.go` | none | claims and role checks, optional fields, error to status code |
| auth middleware, user client | `middleware/auth.go`, `clients/userclient.go` | none between requests | validate a token in user-service, one retry, two timeouts |
| user-service | `usecases/auth.go`, `repository/user.go` | tables `users`, `refresh_tokens` | Register, Login, Refresh, VerifyAccessToken |
| metrics, logging, monitoring | `middleware/metrics.go`, `infra/`, `scripts/` | counters | |
| start-up | `cmd/main.go`, `config`, `db` | none | |

How they interact: a request passes the middleware (a synchronous call of
user-service), the handler, the use case and the repository. Nothing in the
process is shared between requests but the connection pool: requests meet in
the database only. Order requests run in one READ COMMITTED transaction each
(`WithTx`) and lock order, product and promo rows; catalog requests are single
statements outside transactions, and a PUT is two of them.

What is hard: overlapping requests between a check and the write it guards;
row locks taken in an order the client chooses, so deadlocks, with a pool of
connections that those who wait for locks keep occupied; a failure at any
statement after stock and promo uses have been changed; a use of a promo code
that has to be returned exactly once over a long sequence of updates; a PUT
that writes back what it read earlier; reads made of two queries without a
transaction; rounding; and in user-service, which has no transactions at all, a
refresh token that must be spent once and an email that must have one account.

What makes each component correct:

* orders: no unit sold twice, units and promo uses move exactly with the order
  that gains or loses them, a canceled order is final, one active order per
  user, the rate limit, every request ends, a refusal is true when it is given;
* discount: bounded by total, cap and fixed amount, and always that of the
  total it stands beside;
* catalog: a PUT changes what it names, archived stays archived, an order is
  only written with what is on sale at that moment;
* promo codes: never more uses than `max_uses`;
* reads: an order is read with its own items; a client that walks from page to
  page through the products misses none;
* user client: an answer within its budget, the reason of a refusal told as it
  is, a counter that agrees with it;
* user-service: one account an email, tokens for those who showed the password,
  a session that lives on in one token at a time.

## 2. Modules

| module | what it is |
|---|---|
| `Discount` | `calcDiscount` and the minimum check, pure operators |
| `MarketDB` | tables, row locks, the transaction record, what a commit writes |
| `Orders` | Create, Update, Cancel: one action per statement that reads committed data or can wait |
| `Catalog` | products and promo codes: single statements, PUT in two steps |
| `Marketplace` | both over one database and the clock; the safety properties of the service |
| `OrderBook` | the abstract specification: placing, revising, canceling as one step each |
| `Answers` | `Marketplace` with what the callers of the order requests are told |
| `ConnectionPool` | `Marketplace` with a bounded pool of connections and its queue; fairness |
| `OrderReads` | `Marketplace` with `GET /orders/{id}` in two queries |
| `ProductPages` | `Marketplace` with `GET /products` in two queries, and clients that walk through the pages |
| `UserService` | Register, Login and Refresh, one action per statement |
| `Sessions` | the abstract specification of `UserService`: sessions that pass one token on |
| `AuthCheck` | the auth middleware, the client of user-service and the verdict of user-service |
| `DiscountProofs`, `MarketplaceProofs`, `OrderProofs`, `SalesProofs`, `ReadsProofs` | the theorems about the marketplace: discounts; types and locks; orders and the refinement; totals and refusals; reads |
| `AuthCheckProofs`, `UserServiceProofs`, `SessionsProofs` | the theorems about the token check and user-service |
| `MCOrders`, `MCAnswers`, `MCConnectionPool`, `MCOrderReads`, `MCProductPages`, `MCCatalog`, `MCUserService` | instances for TLC |

`Answers`, `ConnectionPool`, `OrderReads` and `ProductPages` each add one thing to
`Marketplace` and are checked apart, as the product of all four would tell no
more: none of them changes what a transaction does.

### State and actions against the code

A worker `w` is one order request being served. `pc[w]` is the statement it is
at and `tx[w]` what its transaction has done so far. As nobody sees uncommitted
writes, these stay in `tx[w]` (`back`, `took`, `used`, ...) and reach the tables
in `Commit`; `Stock(w, p)` is the stock as the transaction itself reads it. A row
is locked from the first `FOR UPDATE` or `UPDATE` of it to the end of the
transaction (`rows[w]`).

| code | actions |
|---|---|
| `Create` | `BeginCreate`, `CreateRateLimit`, `CheckNoActiveOrder`, `ReserveItem` (once a line), `RedeemPromo`, `CommitCreate` |
| `Update` | `BeginUpdate`, `UpdateLockOrder`, `UpdateRateLimit` (with `GetOrderItems`), `ReleaseItem`, `ReserveItem`, `ReviewPromo`, `CommitUpdate` |
| `Cancel` | `BeginCancel`, `CancelLockOrder` (with `GetOrderItems`), `ReleaseItem`, `ReturnPromo`, `CommitCancel` |
| an early return with an error | the same action, ending in `Rollback` |
| an error of a statement, client or process gone | `Interrupt` |
| PostgreSQL's deadlock detection | `DeadlockVictim` |
| `ProductUseCase.Update` | `BeginEdit` (read and overlay), `WriteProduct`, `EditFails` |
| `ProductUseCase.Create`, `Delete`, `PromoUseCase.Create` | `CreateProduct`, `DeleteProduct`, `CreatePromoCode` |

A lock, the checks on the locked row and the private write after it are one
action: while the lock is held nobody can see or change the row. The last
writes of a request (`InsertOrder`, `InsertOrderItems`, `InsertUserOp`,
`UpdateOrderTx`, ...) are one action with the commit, as they need no lock that
is not held and are invisible before it; a failure between them is `Interrupt`
just before. A commit whose acknowledgement is lost is a commit.

Details that are decided on purpose:

* `created_at` of orders and operations is `now()` in SQL, which PostgreSQL
  fixes when the transaction begins (`began`); the cutoff of the rate limit is
  the time of the check.
* The rate limit of Update is looked up for the caller; an ADMIN changing a
  customer's order uses the ADMIN's own.
* `GetOrderItems` has no ORDER BY: any order (`Orderings`).
* Several lines of one product are merged in the order's `items`; the row lock
  makes the price the same for all lines of it.
* Prices and amounts are cents. `float64` sums may sit a hair beside the exact
  amount, so a total equal to the minimum may fall on either side
  (`BelowMinimum`), and half a cent may be rounded either way (`NearestCent`).
* A product id in use can only be one that exists: orders of unknown products
  end in `ErrNotFound`, which is `CanReserve` failing.
* DELETE reads the product only for its owner, which never changes, so read and
  write are one step. PUT's read matters and is a step of its own.
* DELETE and PUT by a user who is no SELLER pass the check in
  `ProductUseCase`, as in the code.
* `active` of a promo code has no writer. Of the statuses of an order only
  CREATED and CANCELED are ever written.
* Overflow of the DECIMAL columns is one more statement that fails
  (`Interrupt`). INTEGER overflow of the stock is modelled (`StockOverflows`).
* Request bodies are what the OpenAPI validation lets through: quantities from
  1, prices from a cent, stocks from 0.

### Answers

`Answers` adds the answer given in the last step, `told`. `Finish(w)` is the step
that ends a request in the use case, `GiveUp(w)` the end by a failed statement.
`Refusal(w)` is the domain error the use case returns at the statement it is at,
by the order of its checks; `mapDomainError` gives each a code of its own. A
commit whose error may be that of the connection is answered `OK` or
`INTERNAL_ERROR`. `Create` takes any error of `LockPromo` for
`PROMO_CODE_INVALID`, so a lost connection there is told as a bad code
(`FailureCodes`); Update does not.

### The pool

`WithTx` begins by taking a connection and holds it to the end. `Arrive` queues a
request, `Admit` hands a free connection to the first in line and begins the
transaction, `Leave` is a client that goes away while it waits. All statements
of a transaction run on its own connection (each is handed `tx`); `Borrows(w)` is
the number of connections the next statement would take beside it, which is 0,
and which the mutant raises: with all connections taken, requests that need one
more would wait for one another forever, and PostgreSQL would see no deadlock.
PUT and the other single statements are left out of the pool: they hold a
connection for one statement at a time.

### Reads

| code | actions |
|---|---|
| `OrderRepo.GetByID`: the row | `BeginRead` (the arrival and the first query) |
| `getItems`, then the owner check of `OrderUseCase.GetByID` | `ContinueRead` |
| `ProductRepo.List`: `COUNT(*)`, then the page | `CountProducts`, `ReadPage` |
| a query that fails | `Query` (its result `NoRead`), `WalkFails` |

Both loops over rows end without looking at `rows.Err()`, so a connection lost
in between gives a shorter list and no error: `cut` in both models. Pages are
those of `ORDER BY created_at DESC LIMIT OFFSET`: the product rows in any order that
is sorted by `born`, of which the page is a part. A walk is a client that asks
for pages 0, 1, ... until one is not full; `left`, `joined` and `cut` record what
happened to the list meanwhile, for the properties. Reads give no lock and change
no table. An answer is forgotten at the next step of the service
(`ReadsForgotten`): what it says is compared with the tables as it is given.

### User-service

`UserService` is a system of its own too: it has its own database, and the
marketplace only asks it to verify access tokens, which touches no table. A
request is at one statement (`pc`) and every statement commits by itself.

| code | actions |
|---|---|
| `Register` | `BeginRegister`, `RegisterLookup`, `InsertUser`, `IssueTokens` |
| `Login` | `BeginLogin`, `LoginLookup`, `IssueTokens` |
| `Refresh` | `BeginRefresh`, `FindToken`, `PurgeExpired` or `DeleteOld`, `IssueTokens` |
| an error of a statement | `RegisterLookupFails` (taken for "not found"), `InsertUserFails`, `LoginLookupFails`, `FindTokenFails`, `DeleteOldFails` (dropped), `IssueFails` |
| client or process gone | `Vanish` |

Details: a failed INSERT may have been executed all the same. `GetByID` in Refresh
is one step with the lookup of the token, as a user never changes or goes.
Hashes are as good as what they hash: a password or token is compared as itself.
A token is new each time (user, nanoseconds, UUID). `DELETE` of a token already
deleted succeeds, so of two refreshes with one token both may go on. `made`,
`doubled`, `kept` and `came` (whether a token was
presented before its time was over) are histories for the properties and guard nothing but the
bound `TokensLeft`.

### The token check

`AuthCheck` is a system of its own: it shares no state with the database model,
and calls share none with each other, so it serves one call after the other.
Time is counted from the beginning of the call, in ticks of 100 ms, the pause.

| code | actions |
|---|---|
| `Auth`, `AuthOptional` | `Call` (with the time its context leaves it, `budget`), and the answer in `Return` |
| `doValidate`, by what comes back | `Answered` (the verdict of user-service), `BodyLost`, `ServerError`, `OtherStatus`, `Unreachable`, `TimesOut` |
| the loop and the `select` of `VerifyAccessTokenCtx` | `Ends`, `PauseEnds`, `BudgetEnds` |
| `doValidate`, when no request can be built from the URL | `NotBuilt`, which takes no time |
| timers | `Tick`: time passes while no timer is due, so timers fire on time |

Whether `USER_SERVICE_URL` parses (`url`) is settled when the service starts; the six
other ends of an attempt suppose that a request was `Sent`. At the moment a timer is due
an answer may still win the race, as may either
channel of the `select`. The user-service itself is free: in each attempt it
answers, fails or stays silent. Its verdict is the code of
`AuthUseCase.VerifyAccessToken` over the error text of the JWT library
(`ParseError`, external), with the token's expiry at the moment of the answer.

The definitions named `Faulty...` are slips the code might have made (a missing
lock, a comparison off by one). No action uses them; put in the place of the
definition after them they make the named properties fail.

## 3. Properties

| property | what could go wrong |
|---|---|
| `TypeOK` | one each for the marketplace, `AuthCheck` and `UserService`; the hard part of the first is `stock \in 0 .. MaxInt`: no CHECK in the table, only locking keeps two requests from selling one unit |
| `PromoUsesExact` | `current_uses` is the number of active orders with the code, through updates, cancellations and failures |
| `PromoCap` | two orders race for the last use |
| `DiscountJustified` | the discount of an order is one its own total and code justify, also after updates: the minimum, the total and the fixed amount in `orders`, the 70% in `catalog` |
| `DeadlocksOverProducts` | order and promo rows never take part in a deadlock |
| `NoStandstill` | a row stays locked by a request that has ended: everybody waits, and there is no circle for PostgreSQL to break |
| `UnitsConserved` | shelf and order move together, in one step |
| `OrderLifecycle` | overlapping Update and Cancel: canceled is final |
| `OrdersAreAtomic` | the whole service implements `OrderBook`: each request takes effect in one step, under conditions that hold in that step |
| `RefusalJustified` | a request is refused for a reason that is not there: an Update puts old units back and takes new ones one by one, among others that do the same |
| `SoldAsListed` | archiving or repricing slips between check and commit |
| `OneActiveOrder`, `OrderSpacing` | the two limits per user, for users who wait for their answers; `LimitsKept` claims them of everybody |
| `OmittedStockKept`, `ArchivedStays` | what a PUT may not change |
| `EveryRequestEnds` | liveness over row locks, deadlocks and a full pool |
| `CanceledReadExact` | an order updated and canceled between the two queries of a GET is shown with items it did not have at the end |
| `WalkComplete` | a product slips from one page to another between two requests of a client and is never seen |
| `TotalAgrees` | count and page come from two queries |
| `OneAccountPerEmail` | two registrations find the email free |
| `IssuedToOwner` | the loser of that race gets tokens for the winner's account; an expired token is exchanged |
| `SpentIsGone` | a renewed token stays valid |
| `SessionsPassOn` | user-service implements `Sessions`: one session never splits, nor passes to another user, through failures and overlapping requests |
| `SpentOnce` | one token, two successors |
| `AnswerInTime` | attempts, pause and two kinds of timeout add up to more than the budget |
| `SilenceIsUnavailable` | an outage of user-service lets somebody in, or is blamed on the token: a budget that ends in the pause gives an error of another kind |
| `CounterTellsAnswer` | retries counted twice or not at all, a 503 although the token was judged |
| `ExpiryIsTold` | the reason is lost between library, user-service, client and middleware |

`CanceledReadExact` rests on two decisions nobody wrote down: the row is read
before the items, and a canceled order never changes. Read the other way round,
a canceled order may come with older items (the mutant). Of an *active* order
header and items may be of two versions; nothing in the code prevents it.
`WalkComplete` has exceptions the code cannot avoid with OFFSET: when a product
leaves the list, the next page skips one; two products of one microsecond have
no order; and a page cut short ends the walk. New products shift the others to
later pages only, so they hide nothing.

`SpentIsGone` and the refinement except tokens whose DELETE failed (`kept`), and
the refinement those that two requests present at once (`doubled`): there the
session does split. `SpentOnce` is the claim without exception, which fails.

## 4. Runs

| run | instance | result |
|---|---|---|
| `orders` (`MCAnswers.cfg`) | 2 requests, customer and ADMIN, 2 units of one product and 1 of the other, which may be hidden, 1 code with 1 use (below its minimum and capped), 2 orders, no clock | `TypeOK`, `PromoUsesExact`, `PromoCap`, `DiscountJustified`, `DeadlocksOverProducts`, `RefusalJustified`, `UnitsConserved`, `OrderLifecycle`, `OrdersAreAtomic` hold |
| `clients` (`MCOrderReads.cfg`) | 2 requests, 1 product, 2 orders of one or two units, a clock of one tick, which is the rate limit, `OneAtATime`; the ADMIN reads an order of the customer | `OneActiveOrder`, `OrderSpacing`, `CanceledReadExact` hold |
| `locks` (`MCConnectionPool.cfg`) | 3 requests of the ADMIN on 2 connections, with opposite lock orders over 2 products of one unit, and a PUT | `NoStandstill` holds, and `EveryRequestEnds` under fairness |
| `catalog` (`MCCatalog.cfg`) | the whole `Spec`: 1 order request, 1 PUT, a customer, a seller, 1 product, 1 code of 90 per cent valid for one tick | `DiscountJustified`, `SoldAsListed`, `OrdersAreAtomic` hold |
| `pages` (`MCProductPages.cfg`) | the whole `PagesSpec` without order requests: 3 products, pages of one, a walk through all or the ACTIVE, a PUT, a DELETE | `WalkComplete`, `TotalAgrees` hold |
| `sessions` (`MCSessions.cfg`) | 2 requests, 1 email, 2 passwords, 2 user ids, 3 tokens, a lifetime of one tick, a clock of two | `TypeOK`, `OneAccountPerEmail`, `IssuedToOwner`, `SpentIsGone`, `SessionsPassOn` hold |
| `auth` (`MCAuthCheck.cfg`) | the times of the code: 2 s an attempt, 100 ms of pause, 3 s in all, or 1 s; a URL that parses or does not; tokens missing, garbage, or expiring before, during and after the call | `TypeOK`, `AnswerInTime`, `SilenceIsUnavailable`, `CounterTellsAnswer` hold |
| `expiry` (`MCExpiry.cfg`) | as `auth` | `ExpiryIsTold` fails |
| `race_limits` (`MCRaceLimits.cfg`) | 2 overlapping creations of one user | `LimitsKept` fails |
| `partial_put` | a PUT with a price only | `OmittedStockKept` fails |
| `stale_put` | a PUT without a status, overlapping a DELETE | `ArchivedStays` fails |
| `spent_twice` (`MCSpentTwice.cfg`) | one account, 3 tokens, 2 requests | `SpentOnce` fails |

Why the bounds are enough. Two requests: each hazard is a conflict of two, and
row locks are pairwise; a deadlock of two shows each kind of row in turn. Two
products: the least that gives two lock orders. Two units of one product
and one of the other: two orders fit beside each other, and both "sold out" and
"just enough" happen. One use of a code and two
orders: the race for the last use, its return and its second redemption. Two
order ids: `OrderIds` is the bound on orders ever placed; a request is begun
only while an id is left (`OrderIdsLeft`), a limit of the model alone. The clock
stops at `MaxTime`; nothing waits for it. Requests are unlimited in number, so
each run covers every sequence of updates and cancellations of its orders.
`SYMMETRY` permutes names that no definition tells apart (workers, order ids; in
`sessions` requests, emails, passwords, ids and tokens; in `pages` products),
and only in runs without liveness.

`locks` has more requests than connections, so that two that wait for each other
fill the pool while a third queues; both a deadlock with a full pool and a PUT
that waits for a locked row happen in it. One user, who is ADMIN, is enough:
locks know no users. In `clients` the reads are those of the ADMIN, who is
never refused, of active orders of the customer: one that begins later reads what no
longer changes. The owner check turns an answer into none, about which
`CanceledReadExact` says nothing. One tick is exactly the rate limit of that run,
so an operation is refused before it and let through after it.

In `sessions` a request begins only while a user id (`UsersLeft`) and a token
(`TokensLeft`) would be left for it, a limit of the model alone. Three tokens
allow a sign-in and two renewals: two at once, of which both succeed, or one
after the other. Two ids and one email show both a second account and one
registration that loses.

`MaxInt` is 2 in the runs `orders`, `clients` and `catalog`, so that putting units
back after a seller has raised the stock overflows; 1 in `locks` and `pages`, where
stock decides nothing but what is sold out.

Deadlock is checked in every run: there is always a request to begin or a
transaction to interrupt, and a token check to begin or to end.

The runs of `AuthCheck` need no bound: time stops at the budget. A budget of 3 s
never ends in the pause, as 2 s and 100 ms are less (`RetryFits`); one of 1 s
does, and `AnswerInTime` holds there too. That silence is told as
`AUTH_UNAVAILABLE` is claimed only where the retry fits and the URL parses:
elsewhere the answer may be `TOKEN_INVALID`, and `SilenceIsUnavailable` says no
more than that nobody is let in.

### Where the code and what is said of it differ

* **One active order, one order a minute** (`race_limits`).
  `docs/defense-notes.md:65` states both limits. `HasActiveOrder` and
  `RateLimitCheck` read committed rows and lock nothing, so two overlapping
  creations of one user pass both. The run `clients` shows the limits hold when
  users wait for answers.
* **Optional stock** (`partial_put`). `ProductUpdate` in `openapi.yaml` has no
  required field and the handler copies only what is there, but a stock left out
  is the 0 of an empty `domain.Product`, which `upd.Stock >= 0` lets through.
* **Archiving undone** (`stale_put`). A PUT writes the whole row it read, the
  status included, over a DELETE that came in between.
* **A token spent twice** (`spent_twice`). `TestRefresh_RotatesToken` in
  `usecases/auth_test.go` says the old token must not be usable again. The error
  of its DELETE is dropped, and two requests may both find it before either
  deletes it.
* **The expired token** (`expiry`). `VerifyAccessToken` compares the text of the
  error with `token is expired`; the JWT library (v5, `go.mod`) wraps the reason
  as `token has invalid claims: token is expired`. So no access token is ever
  answered `TOKEN_EXPIRED`, for which handler, client and middleware all have a
  case; the client is told `TOKEN_INVALID`.

Also met while modelling, without a claim in the repository to set against it: the
loser of a race of two registrations is answered `INTERNAL_ERROR` and not
`EMAIL_TAKEN`; after a registration whose tokens could not be stored the retry
finds the email taken; a refresh that fails between DELETE and INSERT ends the
session; a failure of the database at the promo code of a new order is answered
`PROMO_CODE_INVALID`.

One more has a claim set against it but no run of its own, as `SilenceIsUnavailable`
and `CounterTellsAnswer` say what happens: `USER_SERVICE_URL` is not looked at when
the service starts. From one without a scheme, such as `127.0.0.1:8000`, no request
can be built; the error is none of the three the comment of `VerifyAccessToken` lists
(`userclient.go:43`), is retried, counted as `client_error` twice, and told as
`TOKEN_INVALID`, where the repository's `README.md:88` promises 503
`AUTH_UNAVAILABLE` without a live user-service. The error of a budget that ends in
the pause goes the same way.

## 5. Fairness

`PoolFairness` (in `PoolSpec` and `PooledSpec`) assumes:

* weak fairness of `Admit`: a connection that is free is given to the first in
  line (pgx's pool serves its waiters in order);
* strong fairness of `Step(w)`, the server's steps of each order request: the
  statement at hand is enabled whenever its row is free, and PostgreSQL queues
  the waiters of a row, so one that can get it again and again gets it;
* strong fairness of `WriteProduct(e)`, for the same reason;
* weak fairness of deadlock detection, which runs after `deadlock_timeout`.

Nothing is assumed of clients, of the clock or of failures: no request has to
be sent and none has to be interrupted. Without the deadlock detection
`EveryRequestEnds` would not hold. A request in the queue reaches the head
because those before it are admitted or leave.

## 6. Proofs

Assumptions, all on constants: `RowsAssumption`, `TermsAssumption` (`MarketDB`),
`BasketsAssumption` (`Orders`), `CatalogAssumption` (`Catalog`), `ClockAssumption`
(`Marketplace`), and `TimesAssumption` (`AuthCheck`: times and budgets are positive).
They say which sets the constants range over, that ids are distinct from `None`, and
that `Products` and `OrderIds` are finite.
`ServiceAssumption` (`UserService`) says that ids are distinct from `None` and times
natural numbers; `PagesAssumption` (`ProductPages`) that a page has at least one row.
Beside them, `NoStandstillHolds` assumes that requests are served in finite number,
and `OneActiveOrderHolds` and `OrderSpacingHolds` that users wait for their answers
(`OneAtATime`), without which the limits fail (`race_limits`).

`MarketplaceProofs` proves, for any number of workers, users, products, codes and
orders and the whole `Next`:

* `TypeCorrect == Spec => []TypeOK`: no stock ever leaves `0 .. MaxInt`;
* `PromoCapHolds == Spec => []PromoCap`.

Neither is inductive: that a commit writes a legal stock depends on what was
checked several steps before. `IInv` adds

* `Exclusive`: a row has one holder;
* `Underway(w)`: what the position of a worker says about its request (an idle
  one has no locks, a pending use exists only at the commit, ...);
* `Covered(w)`: private changes of stock are of rows the worker holds, and the
  stock it would commit is within the column;
* `UseCovered(w)`: a pending use is of a code row the worker holds, and within
  the maximum;
* `CatalogOK`: products on orders exist.

The argument: a change of a committed row needs the row free of other holders,
so it cannot disturb what another worker has checked under its lock. The proof
has one lemma per action; they rest on `LocalStep` (a worker's step that leaves
the tables alone), its special cases `RollbackStep`, `BeginStep`, `AdvanceStep`,
`ProceedStep` and `PromoStep`, and on `CommitStep` and `ShelfStep` (steps that
write the tables) and `QuietStep` (steps that touch neither). `NextInvariant`
puts them together and `Invariance == Spec => []IInv` follows.

`DiscountProofs` proves of `calcDiscount`, for every total and terms, that it is
bounded (`DiscountBounded`) and always gives a value (`DiscountExists`).

### Orders

`OrderProofs` proves, for the whole `Next` and any number of everything,
`PromoUsesExactHolds`, `DiscountJustifiedHolds`, `DeadlocksOverProductsHolds`,
`NoStandstillHolds`, `OrderLifecycleHolds`, `UnitsConservedHolds`, and
`Refinement == Spec => OrdersAreAtomic`. All but `NoStandstillHolds`, for which
`IInv` is enough, rest on one inductive invariant, `OInv`
(`OrdersInvariance`), which TLC has checked on the instance of `orders`. To `IInv`
it adds

* `Ledger`: `PromoUsesExact`, and every order has the discount its total and code
  give (`Priced`);
* `HoldsOrder(w)`: an update or a cancellation past its first statement holds the
  order's row, found it active, and carries its code. So nobody cancels it, and
  nobody gives its use back, before this request ends;
* `LocksInOrder(w)`: a request that waits for an order row holds nothing, and one
  that holds a promo row is at its commit and waits for nothing: neither is on a
  circle;
* `PutBack(w)`: what has been put back is exactly what the order holds of the
  products that are not due any more, in whatever order they came;
* `TakenOnSale(w)`: what is taken is of products on sale, and stays so under the
  lock;
* `Settled(w)`: at the commit, the change of the uses is what the commit does to
  the order: one more for a new order with a code, one less for an order that
  loses it.

A step of one worker keeps what another relies on, as that is all about rows it
has locked (`Undisturbed`); then there is one lemma per action (`...OK`). A commit
moves one order from one code to another, and the number of carriers with it
(`CarriersChange`).

The refinement maps the shelf to status and stock (`Shelf`) and uses to uses left
(`UsesLeft`). A commit is a step of the book: `CommitPlaces`, `CommitRevises`,
`CommitCancels`; an edit of the catalog is one of the book's (`CatalogInBook`);
whatever else leaves the tables alone is a stutter (`NextKinds`, `BookStutter`).

`NoStandstillHolds`: rows are held by requests under way only (`Underway`). If
all of these wait, each waits for one of them; take a smallest set closed in this
way. In it everyone is waited for, or it would not be smallest (`WaitersCircle`).

The two limits need `LimitsInv`: no two requests under way are of one user
(`OneEach`), so what a creation has read of its user's orders and operations is
still true when it commits (`Clear`, `Rested`), and every order is in the log
(`Logged`).

### Totals and refusals

`SalesProofs` proves `SoldAsListedHolds` and `RefusalJustifiedHolds`, which are
about sums: over the products of an order and over the lines of a basket. A sum
over a finite set is a fold, defined by recursion over its subsets, and the induction
theorems of the library cannot be instantiated here. What replaces them is
`AllSubsets`: if some subset were not as it should be there would be a smallest one
(`WFMin`, over `StrictSubsetOrdering`), which the step rules out. From it come that
sums exist, are unique, change by as much as one of their summands
(`TotalMoves`) and are at least each of them (`TotalCovers`).

`Billed(w)` is the invariant of `SoldAsListedHolds`: what a request owes is, from
the first unit on, the sum of what it has taken at the prices listed *now*. It is
kept as no seller can write a locked row (`PriceHeld`). `RefusalJustifiedHolds`
needs no invariant beyond `OInv`: at a line, all old units have been put back
(`PutBack`), so too few units on the shelf for this line are too few for the whole
basket (`LineRefused`).

### Reads

`ReadsProofs` proves `CanceledReadExactHolds` of `ReadsSpec` and `WalkCompleteHolds`
and `TotalAgreesHolds` of `PagesSpec`, that is with every step of the marketplace in
between. `ReadsInv`: a header that says CANCELED is that of the order from then on
(by `OrderLifecycle`), and so are its items. `WalksInv` has four parts: products of
the start still exist (`StartExists`); one not yet seen has at least as many others
ahead of it as the pages read so far have shown (`NotMissed`: new ones only add to
those, `AheadGrows`); so when a page is not full all have been seen (`AllSeen`); and
with nothing joining or leaving, the list is that of the start (`SameList`).
`PlaceInList` ties the place of a product in a list in order
to the number of those ahead of it. TLC has checked both invariants on the
instances of `clients` and `pages`.

### Token check and user-service

`AuthCheckProofs` proves, for all timeouts, pauses, budgets and lifetimes:
`TypeCorrect == Spec => []TypeOK`, `CallEndsInTime == Spec => []AnswerInTime`, `CounterAgrees == Spec =>
[]CounterTellsAnswer` and `SilenceTold == Spec => []SilenceIsUnavailable`, whether the URL
parses or not. The inductive invariant adds `OnTime` (how late each
stage can be: without it nothing says that a pause is over before the budget)
and `SoFar` (while a call goes on, only attempts without an answer have been
counted, or only attempts that were never built). `EndsStep` is shared by all ends of an attempt.

`UserServiceProofs` proves, for any number of requests, emails, users and tokens and
every failure, `TypeCorrect`, `EmailsUnique == Spec => []OneAccountPerEmail`,
`TokensIssuedToOwner == Spec => []IssuedToOwner` and `SpentTokensGone == Spec =>
[]SpentIsGone`. The inductive invariant `IInv` adds `Genuine` (rows of tokens agree
with what was made, and whoever holds or exchanged a token, it was made before),
that a request past the lookup presented its token in time, and
`Position(r)` (what the statement a request is at says of it; `MayIssue` at the last
one). What carries it from step to step is `Grows`: an account is never changed,
a token never made twice, and one that is gone never comes back; so no request can
take away what another has checked (`PositionKept`).

`SessionsProofs` proves the refinement, `SessionsImplemented == Spec =>
SessionsPassOn`. It needs `Handles` beside `IInv`: a request about to delete a token
finds it in the table and has it for itself, unless the token was presented twice;
of two requests with one token, one has yet to find it and will not. Without it a
session that has ended could seem to be passed on. Each step is one of `Sessions`
(`TakeStep`, `DropStep`, `OpenStep`, and `SignIn` or `PassOn` in `IssueSimulated`) or
changes nothing there (`RestStep`, `StutterStep`).

### What is only model-checked

`EveryRequestEnds`: liveness under fairness, with `ENABLED` in it, is out of the prover's
reach. `NoStandstillHolds` is a part of its argument that is not about fairness. All
other properties of the passing runs (type invariants, safety invariants, action
properties and both refinements) are theorems. The properties of the runs that end in a
violation are claims the code does not keep.

## 7. Plan

Done: the models of section 2; every safety property of the runs as a theorem.
Left:

1. that each statement brings a request nearer to its end (how many are left is
   bounded by its lines and old items): with `NoStandstill` all of the argument for
   `EveryRequestEnds` but fairness;
2. that the pool never has more transactions than connections, as a theorem of
   `ConnectionPool`.

### Not modelled

* The status of an answer (400, 404, 409, ...) and the answers of the product and
  promo handlers: they follow from the error alone and change no state. Errors a
  switch does not know end in its default, a 4xx that the metrics count as the
  client's.
* Logging, metrics, histograms: written beside the requests and never read back. The
  one counter with a meaning of its own, of token checks, is in `AuthCheck`.
* Monitoring, the SLI script, load tests: configuration of other programs.
* Start-up and configuration: straight-line wiring.
* The API description and the code generated from it: what it lets through is
  what the constants range over.
* The order statuses no code writes (payment, shipping, completion).
* Statements outside transactions in the pool: each holds a connection for itself
  only, and the row it may wait for belongs to a transaction that has its own. A PUT is in the
  liveness property as a request that ends.

# Verification of the bellezagdl backend

The backend (FastAPI handlers over SQLAlchemy and PostgreSQL, deployed with Mangum) runs a
cosmetics shop that sells through vendors: clients of a vendor's network buy at the retail
price, wholesalers at the list price, an admin moves each order to its delivery, and a vendor
earns a commission that is settled by the week. This directory holds TLA+ modules of its orders,
commissions and accounts, of its catalogue, shipments and reports and of the way its server hands
threads and connections to requests, the TLC configurations that check them, and TLAPS proofs.
Paths below are relative to `src/app/modules/` unless they start with `src/`.

## 1. The system

Every request runs one handler with one database session (`src/app/database.py:14-31`:
`autocommit=False, autoflush=False`, closed at the end of the request). Requests run in
parallel, in several workers. PostgreSQL is at its default isolation, READ COMMITTED. No query
locks a row, no table has a version column. A handler loads rows, decides in memory, and
`db.commit()` writes the columns it changed; what it decided can be stale by then. This one
pattern is the source of nearly all the hard behaviour of the system. There are no background
jobs, no queues and no messages between components: they interact by function calls inside a
request and by the tables they share.

| component | state (tables) | operations that change it | interacts with | hard behaviour | what makes it correct |
|---|---|---|---|---|---|
| Orders (`orders/`) | `orders`, `order_items`, `order_status_history` | create, change status, mark unavailable, accept or reject the reduced order, notes | prices from Catalog; Commissions at delivery; vendor and client of Auth | overlapping requests on one order, unflushed changes, numbers counted before they are unique | the history is a path to the present status, a final order stays so, totals follow the lines, dates and attempts follow the history |
| Commissions (`commissions/`, `orders/service.py:294-352`) | `commission_periods`, `commission_settings`, `vendors.commission_percentage` | accrue at delivery, recalculate last week, pay, change a percentage | called by Orders; read by Financials | two formulas for one amount, rounding, lost updates, duplicate periods, the end of the week | one period per vendor and week, its base is what was sold, an amount can be explained, closed weeks stay, payments stay |
| Delivery (`delivery/`) | `delivery_persons`, `shipments`, `orders.shipment_id` | create and edit a person, create a shipment | reads orders in `delivered_to_vendor` | an order in two shipments, lost increments of a counter | a shipment holds orders of one vendor, counters match shipments |
| Auth and invitations (`auth/`) | `users`, `invitations`, `refresh_tokens`, `clients` | login, refresh, logout, register a client, activate a vendor | invitations come from Vendors and Wholesale clients | a use checked and counted later, expiry, two commits in one request | an account is usable exactly when its link counts a use, a password is final once its link is spent and nobody holds it (a link of one use should be used once: finding 4), tokens belong to active users |
| Vendors (`vendors/`) | `vendors`, `users`, `invitations` | create, edit | issues invitations; its percentage is read by Commissions | several rows in one transaction | a vendor is created with its two invitations or not at all |
| Wholesale clients (`admin/wholesale_clients.py`) | `clients`, `users`, `invitations` | create, edit | issues an invitation | as above | as above |
| Catalog (`catalog/`) | `products`, `product_variants`, `brands`, `product_categories` | offer of a product, synchronization | prices read by Orders | overlapping runs and two unique columns of four; the log of a run that dies; an offer that begins while an answer is made | a run stores all or nothing and its log says which, nothing is stored twice, what is shown is flagged as what it is (and should be charged: finding 5) |
| Catalog import (`admin/catalog_import.py`) | the same tables | import rows, clear | the same tables as the synchronization, and `order_items` | a failing row rolls back earlier ones; what is flushed late is seen late; nothing is locked against another import, a synchronization, a clear or an order | the rows since the last failure are stored, a new product gets the price of its template |
| Financials (`financials/`) | none | reports | reads orders, lines, periods | two definitions of revenue | they differ by what can be explained |
| Sessions (`src/app/database.py`) | the session of each request, the pool of connections | commit, rollback, waiting for a connection | all | interleaving; threads and connections held in different orders | a request is stored whole or not at all, and every request ends |

`notifications/` is empty, `src/alembic` and `src/scripts` are run by hand, and `src/package` is a
deployment bundle: third-party packages and an older copy of `app/`. They are not modelled, except for
the few pages of FastAPI, anyio and SQLAlchemy behind `RequestPool`.
The full list, with the status of each, is `components` in `PROJECT.json`; the hazards, each at
its line, are `hazards` there.

## 2. The modules

```
OrderRules            pure rules: status tables, prices, the row each function computes
  OrderRulesProofs    what the rules return, proved once for both modules below
  Orders              one handler = one step, on the current row      MCOrders
    OrdersProofs      its invariants, and that the reports reconcile, proved
  OrderSessions       handlers cut at their queries, Serial == INSTANCE Orders
                                                                      MCOrderSessions
    OrderSessionsProofs   its invariants, and that exclusive sessions implement Orders, proved
Commissions           one handler = one step                          MCCommissions
  CommissionSessions  EXTENDS Commissions with the sessions           MCCommissionSessions
    CommissionsProofs     the books of Commissions, what survives overlaps, that exclusive
                          sessions implement Commissions, and how far rounding goes, proved
Accounts              users, invitations and tokens, with sessions    MCAccounts
  AccountsProofs      its properties, proved
Financials            EXTENDS Orders with the two reports             MCOrders
SyncJobs              what the log of a synchronization promises
Synchronization       overlapping runs, AbstractJobs == INSTANCE SyncJobs
  SynchronizationProofs   no twins, and the safety of the refinement, proved
RequestPool           threads and connections of the server
CatalogImport         the sheet, row by row, and the clear
Shipments             shipments by overlapping requests
Offers                what is shown and what is charged
  MCBackOffice        composes these four and Synchronization
  BackOfficeProofs    the properties of CatalogImport, Shipments and Offers, proved
SumsProofs            lemmas on sums over finite sets, for the proofs of orders,
                      commissions and shipments
```

The same idea is applied twice. The *atomic* module is the abstract specification: what a
reader of the handlers takes them to do when they run one after the other. The *sessions* module
is what runs: `Load...` is the query that loads the row, `Read...` (or `RegisterCommission`,
`RecalculateVendor`) a later query, `Commit...` the rest of the function and its
`db.commit()`. `tx[s]` is what session `s` holds in memory: the row as it was loaded, and the
arguments of the request. `Merge(old, new, current)` is the `UPDATE` that SQLAlchemy sends: the
columns whose value the session changed. `Rollback` is any end without a commit: a check that
raises, a violated constraint, a killed worker. Since autoflush is off, a query of a session
never sees what the session itself changed.

### Orders (`OrderRules`, `Orders`)

`orders`, `lines`, `cancelled` and `history` are the tables, keyed by order; `cancelled` is the
column `cancelled_in_partial` as a set of positions. `CreateOrder` is `POST /orders`,
`ChangeStatus` is `PATCH /status`, `MarkUnavailable` is `PATCH /mark-unavailable`,
`AcceptPartial` and `RejectPartial` are the two answers of `PATCH /partial-accept`. Each includes
the checks of the router, the service function and the history row.

Read from the code and kept in the model:

* Only the roles vendor and client have a table of allowed transitions; the last return of
  `validate_transition` lets every other role make every valid transition.
* `mark_items_unavailable` queries the available lines before its own flags are flushed, so the
  total it stores is the sum of all lines. Only `accept_partial_order` reduces it.
* An order in `partially_available` can also be confirmed through `PATCH /status`; then its
  total is not computed again and `partial_accepted_at` stays empty. `TotalCharged` says which
  of the two sums an order charges.
* `.first()` without an order may return any matching row: `Markings` and `Matching` choose.
* The order number is the year and a count (`generate_order_number`). `NumberFree` is the `UNIQUE` column, the
  whole string, and `NewYear` is the clock: two creations that overlap across a New Year may both commit with
  one count.
* A vendor cannot buy for itself: no vendor has a client profile, and the handler answers 422. It may order for a
  client of its network.

Left out: timestamps are reduced to whether they are set, `subtotal` equals `total` since
`tax_amount` is always 0, notes, reasons, addresses and name snapshots decide nothing. A variant
whose product lacks a price cannot be ordered (the multiplication fails), so `Variants` are the
ones that have both.

### Commissions (`Commissions`)

`sold` is the set of delivered orders with the week of `delivered_at` (and, as history, the
commission registered), `percentage` the vendors' own percentages, `periods` the table in order of
insertion, `week` the clock. `Deliver` is the transition to `delivered_to_client` with
`_register_vendor_commission`; `Recalculate` is `POST /admin/commissions/calculate`; `Pay` is
`PATCH .../confirm`; `SetPercentage` is `PATCH /admin/vendors/{id}`. Amounts are cents,
percentages hundredths of a percent, totals any integers since a quantity may be negative
(`orders/schemas.py:13`), and `RoundHalfEven` is Python's `round` of a `Decimal`. A
percentage of 0 is false in Python and falls back to the active one. `net_commission` always
equals the amount and `gross_sales_amount`, `cost_amount` are added in the same statements as
the base: the three are left out. `commission_settings` has no endpoint that changes it, so the
active percentage is a constant. Which orders exist, with their vendor and total, are constants
here (`Parcels`, `SellerOf`, `TotalOf`); Orders says how they come to be.

`CommissionSessions` lets the week end between the two readings of the clock that a delivery
makes (`orders/service.py:250` and `:314`), and between any two steps of a recalculation.

### Accounts (`Accounts`)

`users`, `vendors`, `clients`, `onboarding`, `signups` and `tokens` are tables, keyed by the email
of the account: `users.email` is unique and nothing deletes an account, so the email also names its
profile and its invitations. `vendors` keeps the flag `active`, `clients` the vendor, `signups`
the `use_count` of the invitation for clients. `CommitVendor` is `POST /admin/vendors`,
`CommitWholesale` is `POST /admin/wholesale-clients`, both after `BeginInvite`, the lookup of the
email; `LoadLink`, `LoadAccount` and `CommitActivation` are `POST /auth/activate/vendor`,
`BeginRegister` and `CommitRegister` are `POST /auth/register/client`, `Login` is its endpoint up to
its commit. The last three continue with `SaveToken`, the second commit of the request, or
with `Rollback`, a worker lost between the two.

Read from the code and kept in the model:

* `use_count += 1` adds to the value loaded (`Spent`), so two overlapping activations leave a count
  of one. The limit is never exceeded in the table (`LinkSpentIffActive` is about the count), and the link
  called "uso unico" (`vendors/service.py:133`) can still set two passwords. `LinkUsedOnce` says that it does not and
  is refuted (finding 4); `PasswordFinal` says that only overlapping requests do it, and when that ends.
* The short code of a vendor is looked up among active vendors, its long link is not; the link is
  shown only in the vendor's own profile, so only after its user could log in. Deactivating a
  vendor closes the code and leaves the link open (`SignupOpen`).
* Login and refresh ask for `users.active`, which no endpoint clears. Deactivating a vendor ends
  none of its sessions (`SessionKept`).

Left out: names and addresses; `clients.active`, which no code reads to decide anything; the mail
(a link may reach its owner at any time or never); tokens and codes are random and unique, so they
are named by what they belong to. Access tokens live in no table and refreshing changes none: a
token that is `valid` can be exchanged, one that is not cannot.

### Synchronization (`SyncJobs`, `Synchronization`)

`SyncJobs` is what the reader of `catalog_sync_logs` may rely on: a job brings in everything that
is missing at once or nothing, says how many items that were, and ends completed or failed unless
its worker dies. `Synchronization` is `sync_catalog_mock` with its queries as steps: `logs` is the
table, `stored` the unique keys in the catalogue (slugs of the category and of products, skus),
`run[w]` what a worker holds between two queries. `Flush` is `db.flush()` against unique indexes:
a key that another open transaction inserted makes it wait, a stored one makes it raise. `Break`
is any other exception inside the `try`, `LoseWorker` a process that dies, also between the
commit of the work and that of the log.

Read from the code and kept in the model: `brands.name` and `products.name` are not unique. A
run that does not find a product looks for a free slug, so a slug that a competitor has committed
between the two lookups makes a second product instead of an error (`MakeProduct`); what stops it is the sku of
the variant that goes with it. A brand has no such company, and a run that overlaps the first can
leave a second "Bissu". The refinement maps a job to the phase its log row and its worker give
(`Phase`), so a log left `running` by a dead worker is `abandoned`.

### Threads and connections (`RequestPool`)

FastAPI runs each synchronous dependency, the handler and the validation of the answer as separate
jobs of a thread pool of 40; the session keeps its connection, one of 15, between them. `at` says
where the task of a request is, `waiters` is the queue of the limiter, `held` the requests with a
connection. `Acquire`, `Resume` and `Release` are the limiter of anyio, `TakeConnection` and
`TimeOut` are `QueuePool._do_get`, `Close` the exit of `get_db`, which has a limiter of its own.
This is third-party code, modelled because the application's constants meet in it. `Commit` stands for
any `db.commit()`; the query after it needs a connection again.

### Catalogue import (`CatalogImport`)

`table` is the committed catalogue, `sold` the skus of stored variants that lines of orders refer to, `dangling` those
of lines whose variant was cleared, `clear` the variants that a clear under way has found, `import` the one
session of a sheet. `view` is what its queries see: the table, with what the session has flushed and with what others commit
meanwhile (READ COMMITTED). `added`, `renamed`, `priced`, `gone` and `goneProducts` are changes not flushed. `priced` in a catalogue
are the products whose price is not the placeholder. The sheet is not fixed: `ProcessRow` takes any row of `Sheet` next.
A row is abstracted to what it does: a template (`Unico`, `no`), an addition or a deletion of a sku; with its name, brand
and category (a title), whether it has a price and whether it has a margin. `SkipRow` is the `except` branch of a row, `AbortImport` an
exception outside of it.

Read from the code and kept in the model:

* A row for a sku that is stored renames its product (`UpdateVariant`, `catalog_import.py:212-223`), and the name decides which product takes the
  template that waits. The rename reaches the database with a later flush; queries find the product under its old name until then.
* The template survives a rollback and goes to any product of its name, of any brand. One without a price is
  spent all the same and leaves the placeholder.
* `DELETE /admin/catalog/clear` takes no lock that keeps an import out and switches foreign keys off. It finds the
  variants when it begins (`BeginClear`), waits for rows that the import's session has written or refers to (`HeldSkus`, `HeldProducts`,
  `HoldsLabel`, PostgreSQL's row locks) and takes the rest (`CommitClear`). The lines of orders stay and refer to nothing
  (`dangling`), and so do variants that were stored between its `DELETE`s.
* Other imports and synchronizations store and delete variants beside the import's session (`OtherAdds`,
  `OtherDeletes`), orders sell them (`Sell`).

### Shipments (`Shipments`) and offers (`Offers`)

`CreateShipment`, `LoadOrder`, `InsertShipment` and `CommitShipment` are the steps of
`create_shipment`, with the orders' own moves in and out of `delivered_to_vendor` between them; a
list may name an order twice, and the second time the session answers with the row it has. All orders count one, so
`count` stands for the amount too. That all orders of a shipment had the same delivery person ("mismo repartidor", in
the docstring) is nowhere checked, and no column says it of an order. `Offers`
has one product, whose offer an admin may replace, a clock, and one reader who sees an answer made
in two steps (price, then flag) and may buy (`BuyShown`): a client or wholesale client for itself, a vendor for a
client of its network. An offer is never charged, which `OfferCharged` refutes against the comment of
`catalog/models.py:68-71` (finding 5).

### Reports (`Financials`)

Operators over the state of `Orders`: the revenue that `get_financial_report` adds from lines and
the one that `get_dashboard` adds from totals, over the same orders.

### The composition (`MCBackOffice`)

Each module moves while the others are at rest, in one of the initial states of the others; `MCNext` says so in its
guards. The pool, the shipments and the offers share no row with another module, and a session's connection is not
one of its rows, so nothing is lost by that. The synchronization and the import write the same tables. What a
synchronization, or another import, commits during an import is in `CatalogImport` itself (`OtherAdds`, `OtherDeletes`,
`CommitClear`); an import or a clear during a synchronization is left out, so `NoTwins` and `ImplementsJobs` speak of
synchronizations among themselves.

## 3. The runs

All state spaces are finite and explored whole. `CHECK_DEADLOCK FALSE` everywhere: when the
bounds are used up, or every order is final, nothing more needs to happen.

| run | question | bounds | result |
|---|---|---|---|
| OneOrder | do history, totals, dates, attempts and status agree in every life of an order, and the reports on it? | 1 order, an admin, a vendor, a client, a wholesaler; up to 2 lines of 2 variants; 2 failed attempts; 2 years | holds |
| OrderRaces | what survives two overlapping requests on one order, or creations around a New Year? | 2 sessions; 1 order of up to 2 lines of 1 variant, requests starting while the history has fewer than 6 entries; or 3 orders created in 2 years and left alone (`MCRacesBound`) | holds |
| ExclusiveOrders | do sessions implement `Orders` when no two hold the same order and none a number of last year, creations overlapping freely? | 2 sessions, 2 orders, fewer than 4 entries; in the second of 2 years, orders created and left alone (`MCExclusiveBound`) | holds |
| FinalRace | does a final order stay final? | 2 sessions, 1 order | violated (finding 1) |
| Rounding | does recalculating keep the amount when nothing changed? | 1 vendor, 2 orders | violated (finding 2) |
| PeriodRaces | what survives two overlapping requests on periods, a week ending among them? | 2 sessions, 1 vendor, 3 orders (one wholesale), 2 weeks, one percentage | holds |
| ExclusivePeriods | do accrual, recalculation, payment and changes of percentage agree, and do sessions implement `Commissions`, when no two touch the same vendor? | 2 sessions, 2 vendors, 3 orders (one of a negative total), 3 weeks, percentages none, 0, 25 and the active 30 | holds |
| FromScratch | does a recalculation leave the week with what was sold? | 2 sessions, 1 vendor, 2 orders, the recalculation alone | violated (finding 3) |
| AccountRaces | what survives overlapping creations, activations, registrations, logins and edits? | 2 sessions, 3 emails, 2 passwords, 1 refresh token | holds |
| LinkTwice | is a link of one use used once? | 2 sessions, 1 email, 2 passwords | violated (finding 4) |
| BackOffice | do the parts beside the core keep their promises, and does every request end? | 3 requests, 2 threads, 1 connection; 2 workers, 3 jobs, 3 skus of 2 products; 3 rows since the last failure, 2 skus, 2 products of one name and two brands, others interfering once (`MCImportBound`); 2 requests, 2 orders, 2 shipments; 1 offer at 3 times | holds |
| OfferCharged | is a client charged the offer that was shown? | 1 offer at 3 times | violated (finding 5) |

Why these bounds are enough to be interesting. A race needs two sessions and one row: a third
session only adds a second stale write. Two lines are the least for which "all", "some" and
"none marked" differ and two requests can mark different lines of the same variant. Six
entries reach a failed delivery committed twice. Two failed attempts are the least that can be numbered wrongly. Three orders are two that
take one count on both sides of a New Year, and the one whose count comes out higher for it. Three weeks are the current, the previous and a
closed one. Orders of 100.05 at 30 % make commissions of exactly half a cent, so `ExclusivePeriods` and
`Rounding` meet the tie; in `PeriodRaces` 30 % of every total is whole, so that a lost
update cannot hide in a rounding. The bounds are named `OrderIds`, `Sessions`, `MaxLines`,
`MaxAttempts`, `MaxEntries`, `FirstYear`, `MaxYear`, `MaxWeek`, `Parcels`, `Emails`, `TokenIds`, `MaxRequests`, `MaxCommits`,
`MaxJobs`, `Workers`, `Sheet`, `MaxRows`, `ProductIds`, `OtherSkus`, `Clerks`, `OrderLists`, `MaxShipments` and `MaxTime`. Three emails are a vendor and two clients that register
at the same time, or one email wanted by two requests beside another account. Symmetry is used for sessions,
identifiers of orders, emails, passwords and tokens, which no definition orders or compares otherwise, and only with invariants
and action properties.

For BackOffice: with two threads and one connection, both threads can wait for the connection of a request
that waits for a thread, which is the situation 40 and 15 allow; `TimeOut` is what resolves it.
The third job starts after one of the first two has ended, in a catalogue they changed. Three rows are a template, the row that makes the
product it is for and a namesake before or between them, or a row that renames a product, the template and its row; others interfere before the
third row, when what the session has in memory is largest. The same order twice in a list, in two overlapping
shipments and in two successive ones are all within two shipments. Three times put the reading of
the price and of the flag on both sides of a beginning and of an end.

What is lost when requests overlap is as much a result as what is kept: `OrderRaces` checks the
weaker `HistoryEndsAtStatus`, `ChargesAvailable` and `AttemptsNotInvented` because
`HistoryIsPath`, `TotalCharged` and `AttemptsNumbered`, which `Orders` keeps, do not survive. The
same holds of `EverySaleHasPeriod` and `AmountFollowsBase` against `BaseIsSales` and
`AmountExplained`. Several properties are bounds on one side for the same reason, and permit what the code loses:
`AttemptsNotInvented` a failed delivery that is not counted, `AmountFollowsBase` a sale lost from base and commission
together, `SignupsNotInvented` a registration not counted, `ShipmentsCover` a delivery not credited and an order in
two shipments, `ImplementsJobs` a log left running by a dead worker. No property keeps the amount of a period that has been paid:
`ClosedWeeks` and `PaidStaysPaid` say when it can no longer move and that it stays paid. `OneSessionPerOrder` and `OneSessionPerVendor` are the assumptions that give
the strong ones back: `ImplementsSerial`, proved for any number of sessions in section 5, shows that a lock on the order, or on the vendor's
periods, held from the first query to the commit would be enough, and `ExclusiveKeepsFinal`, `ExclusiveAddsUp` and
`ExclusiveRecalculates` what it would repair.

### Findings

1. `FinalRace`: the check of the final state (`orders/service.py:226`) is made on the loaded row;
   a request that loaded a pending order confirms it after another cancelled it.
2. `Rounding`: the docstring of `calculate_commissions_for_week` promises not to replace the
   accumulated amount; rounding once over the sum changes it by a cent.
3. `FromScratch`: overlapping first deliveries of a week insert two periods, and a
   recalculation corrects one of them only.
4. `LinkTwice`: the uses of an activation link are checked on the loaded row (`auth/service.py:163`): two
   requests that load the link "uso unico" before either commits each set a password, and the count says one.
5. `OfferCharged`: `catalog/models.py:68-71` calls an offer a temporary discount for clients and vendors, and
   `calculate_item_prices` charges `retail_price` while the client is shown the reduced one.

### Where code and comments part, without a run

Seen while modelling and part of the models; what remains true is checked, and no run is spent on the rest.

* `mark_items_unavailable` asks which lines are left with a query (`orders/service.py:376-382`) that runs before its own
  flags are flushed: "No quedan items disponibles" is never raised for the lines being marked, and an order whose
  lines are all marked goes to `partially_available`. `ReadForMark` and `MarkRow` have it so, and `TotalCharged` says what
  such an order charges.

* The comment at `admin/catalog_import.py:227-231` takes the placeholder price 0.00 for temporary; it
  stays when a namesake takes the template, or when a later row fails and undoes it
  (`PlaceholderExplained` names the cases).
* The answer of an import counts rows that a later rollback undoes.
* A clear leaves the lines of orders without the variant and product they refer to.
* Deleting all the variants of a product in one sheet leaves the product, because the count of
  the others does not see deletions that are not flushed. A product without variants (`Unico`) cannot be deleted
  by a sheet: its row with `agregar = no` is taken for a template.
* An order can be in two shipments, and `total_deliveries` loses one of two overlapping
  increments; `total_failed` is never written.
* Two brands with one name after overlapping synchronizations.

## 4. Fairness and liveness

Orders, commissions and accounts assume none: each of their steps starts with a request that a
person sends, and nothing in the code makes anyone send it.

`PoolFairness` is weak fairness of `Proceed(r)` for each request that has come: the event loop runs
the tasks that are ready, the operating system runs the threads, queries return, and a wait for a
connection ends after 30 seconds (`pool_timeout` of SQLAlchemy, which `src/app/database.py` leaves
at its default). No fairness is assumed of which waiter gets a connection, nor of arrivals.
`EveryRequestEnds` follows, and does not without `TimeOut`. It concerns uvicorn
(`requirements.txt`); under Mangum an instance serves one request at a time.

`SyncFairness` is weak fairness of `Work(w)` for each worker that runs a synchronization: its
statements go on, and a transaction that waits for a key is woken when the other ends. Crashes (`LoseWorker`) and
exceptions (`Break`) may happen and need not. `ImplementsJobs` includes the liveness of `SyncJobs`: a job that
is not abandoned ends.

## 5. The proofs

`OrdersProofs` proves, for all users, goods, prices and any number of orders, from
`UsersAssumption`, `GoodsAssumption`, `NoTotalAssumption` and `YearsAssumption` alone (roles are disjoint, NULL values are not
users or amounts, prices and quantities are integers, years numbers):

* `TypeCorrect`: `Spec => []TypeOK`.
* `Invariance`: `Spec => []IInv`, from which `TotalIsCharged`, `HistoryIsAlwaysPath`,
  `AttemptsAreNumbered`, `RetailIsServedByAdmin`, `DatesAlwaysAgree`, `StagesAgree`,
  `ReducedOnlyWhenMarked` and `WholesaleIsDirect` follow, and `FinalStaysFrozen` for the action property.

The argument. A step changes at most one order (`StepOfOneOrder`), in one of five ways or not at
all. An `...Effect` lemma says what each way does to the row, the lines and the history of
that order; it is proved once from the definitions, and the proof of each invariant then works
on one order and cites the effects. Most invariants are not inductive alone: `TotalCharged` needs
to know that a pending order has no cancelled line and that an accepted one never becomes pending
again (`StageAgrees`); `MarkedOnce` needs `TotalCharged` for the original total, and
`DatesAgree` needs the end of the history. `IInv` is their conjunction, checked by TLC as
the invariants of OneOrder. For them `LineSum` is never unfolded: what a sum is does not matter, only of
which lines it is taken.

`ReportsReconcile` does need sums: the two revenues of a vendor are sums over sets of orders, and their
difference is taken apart order by order, with `Invariance` saying that the total of an order without a
mark is the sum of its lines.

`SumsProofs` is what every proof about sums rests on. `MapThenSumSet` is defined by a recursive
function over subsets. That the function exists is shown by induction on the size of the subsets (`SumsExist`), the induction
being over sets of numbers, which the provers can handle, and not over predicates. Facts about sums (`SumWith`,
`SumOfBoth`, `SumOfPart`, `SumOfSums`) follow by looking at a smallest subset that would be an
exception. No constant is assumed finite for this: the rows, lines and orders that are summed are.

`AccountsProofs` proves every property that AccountRaces checks, for any number of emails, requests
and tokens, from `NamesAssumption` (the values that stand for "no password" and "no vendor" are
none): `TypeCorrect`, `RowsStayTogether`, `LinksSpentByActivation`, `SessionsAreKept`,
`PasswordsAreFinal`, `SignupsAreReal`. None is inductive alone, because each depends on what
requests hold in memory while others commit. `HeldFits` says it: a held link was loaded with no use,
so that its commit writes one; the vendor a registration holds exists; the user a token is about to
be saved for is active. These stay true because accounts only grow (`AccountsGrow`). `IInv` is
their conjunction. The count of a signup link needs `CountsFit` beside it, that the count held by a
request is at most the number of clients, and the library's facts on cardinality. `PasswordFinal`
needs that a request takes up a link only by loading it (`TakesUpLink`) and that only a request
that holds the link replaces the password (`ActivationHoldsLink`).

`OrderSessionsProofs` proves, from the same assumptions and for any number of sessions and orders,
what `OrderRaces` and `ExclusiveOrders` check: `TypeCorrect`, `HistoryEnds`, `ShippedIsCharged`,
`DatesAlwaysAgree`, `AttemptsAreReal`, `NumbersStayDense` and, for sessions that never hold the same order,
`ExclusiveIsSerial`. A request decides on what it loaded, so the invariant has to say
what is still true of stale data (`HeldFits`): the status a session loaded is one the history has had,
the dates and attempts it loaded are covered by the history, and the lines it found include
all that are available now, since a line once cancelled stays so. `Merge` writes the columns the session
changed and no other, which is why the status and the history row of a commit go together and the total
covers what ships. A count of orders held by a creation is at most their number, and `NumberFree` (the
unique column) lets it commit only if no order of the year it read has it. So a stale count either is refused or
repeats one of the other year, and only after such a repetition a count is skipped: that is what `NumbersDense` says. For the refinement,
`Exclusive` also keeps a New Year out of a creation (`NumbersOfTheYear`): across one, two orders with the same count commit, which no
serial behaviour does. `UpToDate` is added: what a session holds of its order is still what the tables say, because the only
other steps are on other orders. Each commit then is the handler of `Orders` that it ends, and
every other step a stutter. `ExclusiveKeepsFinal` is the counterpart of finding 1: with the lock, the check
of the final state is made on the current row, and a final status stays. `SerialRows`, `SerialEntries`, `SerialLines`, `SerialChecks` and
`SerialTables` say that the two modules compute the same from the same rules.

`CommissionsProofs` assumes `CommissionsAssumption` (there are finitely many vendors, totals and percentages are
integers of any sign). Of `Commissions`, where
a request is one step, it proves:

* `WeeksClose` and `PaymentsStay`. Neither depends on amounts, so the invariant only says that a row
  has its columns; `Kept` states what any step leaves of any row, and has one lemma for each action.
* `CommissionsTyped`, `PeriodsAddUp` and `AmountsExplained`, from one invariant, `Books`: every sale has
  the only period of its vendor and week, whose base is the sum of the sales and whose amount is either
  the sum of the commissions, rounded one by one, or the commission on the whole at the rate of the row. A sum after a delivery is the
  sum before it and the new order (`SumWith`); a recalculation replaces the whole table, and
  `RecalculatedTable` says row by row with what.

Of `CommissionSessions`, where requests overlap:

* `SalesHavePeriods` and `PaymentsStayPaid`. What overlaps cannot break rests on what a write is
  (`WriteOK`): it keeps the vendor and the week of its row and may only change the status to paid, so
  `Merge` with whatever the row has become keeps them too (`WrittenEffect`).
* `AmountsFollowBases`: under `SteadySpec` (no percentage changes) and `NothingRounds` (the commission on every
  single order is a whole number of cents at every rate), an amount is the commission on its base however requests
  overlap. Lost updates lose a sale from both columns or from neither: since base and amount of what a session
  loaded and of what it computed both follow the rate, they differ together (at a rate of 0 every amount is 0), so that the `UPDATE` contains both or none
  (`MergeAt`). The two hypotheses are what the constants of `PeriodRaces` satisfy.
* `ExclusiveIsSerial`, for sessions that never share a vendor. `CurrentTx` says that what a session has computed is what
  it would compute now; `WrittenElsewhere` that a commit leaves the rows and sales of other vendors alone. A
  recalculation then becomes one step: `CommitRecalculationIsOne` takes its writes, one for each vendor, apart
  into updates and inserts and counts the inserts. Sums are compared through the sets they are taken of
  (`SumOfTotals`).
* `ExclusiveAddsUp` and `ExclusiveRecalculates`, which the lock gives back: base and amount are right again, the
  first by the refinement and the invariants above, and a recalculation does compute the week from
  scratch, which finding 3 refutes without the lock.

And of the rounding behind finding 2: `CommissionIsNearest` (Python's `round` is off by half a
cent at most, and by half a cent only toward an even one), `RecalculationDrifts` (while percentages stay, a
recalculation moves an amount by at most half a cent for each order of the period, and half a cent
more) and `RecalculationKeepsAmounts` (where nothing rounds it moves none, as the docstring promises).
So rounding is the only cause of what `Rounding` shows.

`BackOfficeProofs` proves:

* `OffersAreAnnounced`. The invariant follows the reader: the price shown was right at the first reading of
  the clock and the flag right at the second, both of the offer the request loaded; where they do not agree, the offer
  began or ended in between. The percentage is used through its type alone.
* `ShipmentsAreCovered`. `ShippingInv` adds to the property what each clerk holds: the orders it loaded, those it has
  assigned, and the number of deliveries it read, which is at most what the shipments of that person
  add up to. That number only grows, so writing a stale one back plus one's own orders cannot exceed it. The number
  of orders that point to a shipment is at most the length of its list, repeated or not.
* `RowsSinceLastError` and `PlaceholdersExplained`, for sheets of any length with any rows, and with others that add,
  delete, clear and sell meanwhile, from `ImportAssumption` (which only types the sheet). `ImportInv` says what the session has read
  and written: a sku without a row is in its view as in the table, one with rows is added, flushed or gone as one of
  them says unless another request touched it, and a product made by a row after its template has the price or a
  namesake. `Same` and its parts say what a step leaves of that, and each kind of row (`RowDone`) and each step of the
  others (`OtherSteps`) has its lemma.

An earlier form of `PlaceholderExplained`, in which the namesake that takes the template had to be stored already or
added last, was refuted by the attempt to prove it. A row that gives a stored sku another name makes its product a
namesake too; the property names the earlier rows that can.

`SynchronizationProofs` proves `NothingStoredTwice`, for any workers, jobs and products. What two open
transactions inserted is disjoint (`Apart`): the unique index made the second wait. Within a run every product before
its place is stored, inserted or about to be (`WorkerOK`), so a run that makes a product a second
time still has a sku of it to flush that another run stored, and cannot commit. Brands are counted by
`BrandsFit`. `RunsAreJobs` is the safety part of `ImplementsJobs`: each step of a worker is a step of
the job that its log stands for, or a stutter.

Only model-checked, besides the five refutations: liveness, which is out of reach of the prover. That is `EveryRequestEnds` of the pool, and in
`ImplementsJobs` the fairness that it adds to `RunsAreJobs`. Every other property that a passing run checks
is a theorem, under the assumptions named above.

## 6. Not modelled

* Free texts and contact data, and the endpoints that only write them: `PATCH /orders/{id}/notes`,
  edits of a vendor's or client's address, of a delivery person, of `clients.active`. No code reads them
  to decide anything.
* Reads: lists, filters, histories, profiles, the counts of the dashboard and the costs of the
  report, which have the same form as the revenues in `Financials`.
* The vendor summary of commissions (`commissions/service.py:189`): what is pending after a paid
  period grew is the difference of amounts that `Commissions` has.
* An import or a clear during a synchronization (section 2), and the texts of a catalogue row.
* `Orders` and `Commissions` are not composed: all that commissions need of an order is its
  vendor and its total at delivery, and `Orders` shows that the total is fixed by then (`FinalIsFrozen`).
* `src/alembic` and `src/scripts`: run by hand, once, on a system at rest.
* `src/package`: third-party packages, but for what `RequestPool` needs, and an older copy of
  `app/`. Nearly all the lines of the repository are here.
* Password hashing, JSON web tokens, mail, S3 and the reading of spreadsheets are library code or
  input and output.

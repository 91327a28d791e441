# A verification of the stock service

This directory holds a TLA+ model of the stock service of `erp-stock` (the Go
program under `src/`), the TLC configurations that check it on small instances,
and theorems about it that TLAPS proves for all instances. The code is the
reference: every definition carries in `PROJECT.json` ("map") the lines it
stands for.

To check a run: `tlc -workers 2 -config sales_race.cfg MCSales`. To check a
module of proofs: `tlapm SalesProofs.tla`.

## 1. The system

The service keeps the stock of an ERP. It has an HTTP API, two consumers of
RabbitMQ queues, three Postgres tables with the stock, two Mongo collections
with the catalogue, and Redis for locks and a cache of balances. Several
replicas of it may run at once; every request and every message is handled by a
goroutine, and the only thing that keeps goroutines apart is a Redis lock per
balance (`stock:<product>:<warehouse>`) or per order (`reserve:<order>`), and
the atomicity of one SQL statement or transaction.

| component | state | operations | talks to |
|---|---|---|---|
| stock tables (`postgres/stock_repo.go`, `migrations/`) | `stock_balances` (available, reserved), `stock_reservations` (one row per order and product), `stock_movements` (the ledger) | one SQL statement or transaction each | everybody |
| lock and cache (`redis/cache.go`) | keys with a time to live of 8 s; the balance last written | Lock (no retry), unlock by token, SetBalance | `applyQtySub`, the loops of a sale, `ReserveOrder` |
| consumers (`rabbit/consumer.go`) | messages queued, delivered, acknowledged by hand, dead-lettered | order created / updated / cancelled; invoice issued | `ReserveOrder`, `ConfirmInvoice`; publishes `stock.reserved` |
| order reservations (`service.go`, `ReserveOrder`) | none of its own | replace or release the reservations of an order, recompute the reserved column, publish | stock tables, lock, kits |
| outbound invoices (`confirmOutbound`) | none of its own | three ways to sell: confirmed reservations, movements of an order from before the reservations table, direct sale | stock tables, lock, cache, kits |
| kit expansion (`domain.ExpandKitItems`) | recipes | lines to components | `ReserveOrder`, `confirmOutbound` |
| manual movements, transfers, balances by hand | none of its own | `CreateMovement`, `TransferStock`, `SetBalance` | stock tables, lock, cache |
| receipts | none of its own | `ReceivePurchase`, `confirmInbound`, with the conversion of units | the same |
| units of measure (`domain/stock.go`) | units and factors of a product | `Convert`, `ToStockQty` | receipts |
| category tree (`domain/category.go`, `mongo/category_repo.go`) | categories with a parent, products with a category | create, move, delete; file a product | products |
| products (`mongo/product_repo.go`) | documents with SKU, units, prices, category | create, update; delete after looking for movements, stock, reservations and assemblies of it; set a price | category tree, stock tables, assemblies, SKU counter |
| assemblies and prices (`postgres/catalog_repo.go`) | `assemblies` with their items, two price histories | create, update, recalculate, apply the price; register a sale or purchase price | products |
| warehouses, code counters | one table each | insert, update, next code | |
| HTTP handlers, start-up, migrations | none | bind and call | all |

### What is hard in it

* **No transaction spans a use case.** A sale confirms its reservations in one
  statement, recomputes the reserved column in a second, and then deducts each
  line in a section of its own; a transfer is two sections; a receipt is one
  section per line. A crash, a refused lock or a failing statement between them
  leaves the rest undone, and what a retry then finds decides whether the rest
  is ever done.
* **Idempotence by looking first.** `HasMovement` is asked before anything is
  locked, so it protects against repetition but not against concurrency.
* **Messages** arrive more than once (a failed handler, a dead process), in any
  order with the messages of the other queue, and events of one order may
  overtake each other.
* **Locks** are refused at once when taken, run out after 8 seconds whether or
  not their holder is done, and survive the death of their holder.
* **The reserved column is a derived value**, recomputed from a snapshot; the
  statement that sells checks the column, not the rows.
* **Compensation** (a transfer credits its origin back) runs over the same
  locks and statements that have just failed.
* **Check and then write** in the category tree, over Mongo, without any lock,
  and in `DeleteProduct`, over two databases.
* **Read, compute, write back whole** in `RecalculateAssembly` and
  `UpdateProduct`: what somebody else wrote in between may be undone.
* **Two writes, one of which may fail**: an assembly is stored and then priced, a
  price is set and then recorded.

### What makes each part correct

* Reservations: the quantity of a confirmed reservation leaves the stock at most
  once; where it does not leave at all, a delivery failed or no warehouse was
  named; an order event that was acknowledged is announced; what is reserved is
  what the sale will consume.
* Balances and ledger: quantities stay at or above zero; every balance is what
  its movements add up to as long as nothing fails, and when something fails
  the ledger never shows a sale that did not take place.
* Transfers neither create nor lose stock.
* A document is received once, in the ledger and in the balance; an answer "ok"
  to a first try means it is in the ledger.
* Cache: between sections it agrees with the table.
* Messages are settled; every way out of a handler gives its lock back.
* Categories: each is shown in the tree, and nothing refers to one that is gone.
* Products convert between the units they are bought and kept in; stock is not
  left without its product; a price that was set stays until another is set.
* Assemblies are priced by their own items; the price that was applied is the
  price of the product.
* Consumers and requests together: one ledger, one cache, and what is reserved
  is not taken by others.

## 2. The modules

    StockRepo        the three tables and the statements over them
      ApplyQty       the section lock - change - movements - cache - unlock
        RedisLock    (INSTANCE) the lock service
        ApplyQtyProofs    lemmas on statements, section and ledger  (uses SumProofs)
      Sales          = ApplyQty + KitExpansion: consumers, ReserveOrder, confirmOutbound
        SalesProperties   its properties; OrderTickets as an abstract specification
          MCSales         worlds for TLC
          SalesProofs     types, announcements, ledger, single sale, tickets, OrderTickets
                          implemented, no silent loss, what is booked  (uses ApplyQtyProofs)
      Requests       = ApplyQty + UnitsOfMeasure: movements, transfers, receipts,
                       deletion of products
        MCRequests        worlds for TLC
        RequestsProofs    types, ledger, cache, products, receipts, transfers, answers
                          (uses ApplyQtyProofs, UnitProofs)
      Stock          (INSTANCE) Sales and Requests, with their proofs, over one set of tables
        MCStock           a world for TLC
        StockProofs       the two together, from the lemmas of each  (cited as S!, R!)
    UnitsOfMeasure   Convert, ToStockQty, normalizeProduct
      UnitProofs       what they return, for any list of conversions
      Catalog        products, assemblies, prices, warehouses, codes
        MCCatalog         a catalogue and requests for TLC
        CatalogProofs     types, conversions, kits, codes, prices  (uses SumProofs)
    Categories       the category tree
      MCCategories        worlds for TLC
      CategoryProofs      the tree stays one           (uses SumProofs)
    SumProofs        sums over finite sets of terms

**StockRepo.** `rows`, `avail` and `reserved` are `stock_balances`, `rsv` is
`stock_reservations`, `movements` is `stock_movements`. Each operator is one
statement: its guard is the WHERE clause (`CanRemove`, `CanConfirmSale`), its
primed variables the SET clause, and the CHECK constraints keep the quantities
at or above zero, which for a balance set by hand is the only guard
(`CanUpsert`). Three things are not one step. `recalcReserved` is an UPDATE with
a subquery; at READ COMMITTED the sums come from the snapshot at its start, while
a row it has to wait for is written later, so it is a snapshot and a write. So is
`ConfirmReservations`: the UPDATE looks for open rows in its snapshot, waits for
those that a transaction has locked, and confirms the ones still open then, with
the quantities they have by then (`StillOpen`); a product that was added or
reopened meanwhile it does not see, and it stays open. `ReplaceReservations` is a
transaction, atomic at its COMMIT, and the recalculation follows outside it.

**RedisLock, ApplyQty.** The stages of a worker in the section are the calls of
`applyQtySub` in their order; the loops of `applyConfirmedReservations` and
`confirmReservedSale` run the same course with another statement, two movements
instead of one, and errors of `InsertMovement` ignored (`strict` is FALSE).

**Sales.** A worker is the consumer goroutine of one queue in one replica. `pc`
follows the handler; a label is the next statement or call. `Take`, `Ack`,
`Nack` and `Crash` are the broker; the rest is `ReserveOrder` and
`confirmOutbound`. `gen` and `taken` are history variables: a *ticket* is one
opening of a reservation row, handed out by `ConfirmReservations` and used up by
the deduction.

**OrderTickets** is what the consumers promise, without workers, locks or
messages: reservations open, close and are confirmed, any of the open ones of an
order together, and each confirmed one is deducted at most once or lost. `TicketLife` in SalesProperties says that Sales
implements it, with the tickets in the workers' hands as `pending`.

**Requests.** A worker is the goroutine of one HTTP request or the delivery of
one inbound invoice; `calls` are the sections it still has to run. The
compensation of `TransferStock` is `Undo`. A receipt looks each product up when
its line is reached, so a product deleted meanwhile stops it half-way
(`NotConverted`). `DeleteProduct` is the chain of looks and a delete that
`AfterCheck` spells out, a step each (its two looks at the assemblies, which do
not change here, are one).

**Catalog.** A worker is one HTTP request; `pc` is its next statement and `draft`
what it has in memory. `GetAssembly` is two statements (`ReadHead`, `ReadItems`),
each product of an item one more (`PriceItem`), and the write-back the last
(`WriteKit`); `ApplyAssemblyPrice` goes on with the three statements of
`RegisterSalePrice` (`GetPrice`, `SetPrice`, `RecordPrice`). Statements of one
Postgres transaction are one step. `counter` are the code counters, which do not
return a number that was not used.

**Stock.** `main` hands one repository, locker and cache to the consumers and to
the HTTP API. Stock instantiates Sales and Requests over the same tables, locks
and cache, each with the variables of its own workers; a step is a step of one
side that leaves the other side's workers alone. Statements fail, workers of
either side die and locks expire as `Faults` says; a lock runs out early only
with "expiry", whichever side holds it (`InUse`). `overtaken` is a history
variable: an order event was committed between the snapshot and the write of
another's `recalcReserved`.

**Categories.** Each Mongo call is a step; `listed` is the list
`UpdateCategory` read at first.

## 3. The runs

Every run checks deadlock off (`CHECK_DEADLOCK FALSE`): the messages and
requests of a world are finite, and when all are settled the system rests.

| run | world | shows | states |
|---|---|---|---|
| `sales_race` | one order of two products, its invoice in two copies, two replicas, locks that expire | `TicketInv`, `SoldAtMostOnce`, `NoSilentLoss`; implements OrderTickets (`TicketLife`) | 837 000 |
| `sales_faults` | one order, one invoice; statements fail, workers die, locks expire, two deliveries each; fair workers | `TypeOK`, `TicketInv`, `NoSilentLoss`, `LedgerNotAhead`, `AckedIsAnnounced`; `EverythingSettles` | 76 000 |
| `sales_sequential` | one consumer per queue; order, update, invoice twice, and an invoice of an order from before migration 005; retries, expiring locks | `InvoiceSoldOnce`, `LedgerExact`, `LocksReturned`; implements OrderTickets while the update is committed in the middle of the confirmation | 397 000 |
| `sales_orders` | an order and its cancellation, an event without an order id, an order of kits, a customised kit sold without an order, invoices without a warehouse | `NoSilentLoss`, `ReservesWhatIsConsumed`, `TicketLife` | 525 000 |
| `requests_concurrent` | a transfer out of a warehouse that only an inbound invoice fills (its second line has no conversion), an exit and an entry at the destination, and the deletion of the product they move | `LedgerExact`, `CacheFresh`, `TransfersCreateNothing`, `AnsweredIsRecorded`, `StockHasProduct` | 392 000 |
| `requests_faults` | an inbound invoice with an empty line, tried twice, a transfer of what it brings, a balance set by hand; statements fail, processes die | `TypeOK`, `AnsweredIsRecorded`, `ReceiptRecordedOnce` | 608 000 |
| `catalog_concurrent` | any four of eleven requests at once: apply, edit and create kits, register prices, create and edit products and warehouses; statements of two of them may fail | `TypeOK`, `StoredProductsConvert`, `KitPriced`, `PriceKept`, `HistoryTruthful`, `AppliedPriceShown`, `DrawnCodesDiffer` | 334 000 |
| `stock_composed` | two orders, their reservations and one's invoice, an invoice without an order, and a transfer of the same product into a warehouse without a row | `LedgerExact`, `CacheShowsStock`, `OpenReservationsHold`, `PromisesKept` | 529 000 |
| `categories_sequential` | one worker, up to four requests of every kind | `EveryCategoryShown`, `NothingDangles` | 18 000 |

Three runs end in a counterexample; they are the findings of section 5.

**Bounds, and why they are enough.** Two products make partial failure of a sale
visible (one line done, one not); two warehouses are what a transfer needs; two
replicas of the invoice consumer and two copies of an invoice make every race
between two deliveries, and a third adds no new pair. `MaxDeliveries = 2` gives
one redelivery, that is every case "a retry finds what the first try left";
`MaxTries` is the same for receipts (2 in `requests_faults`; 1 in
`requests_concurrent`, where nothing fails but what is refused). `FeedLimit`
is the 200 of an unfiltered `ListMovements`; `sales_sequential` sets it to 3 so
that movements fall out of it. In `catalog_concurrent`, `MaxRequests = 4` of
eleven workers makes every set of four meet; four are an application of a price,
an edit of the same kit, and a change of each price they read. Its prices are
chosen so that one margin passes its column (item prices of 900 over a cost
of 6). In `stock_composed` two pieces are wanted four times (by the invoices of
an order and of nobody, by the reservation of another order and by the
transfer), so the reserved column has to refuse. In `categories_sequential`,
`MaxRequests = 4` lets the category tree of three be torn down and built in
another shape. Stock is chosen at the edge: in `sales_race` and
`sales_sequential` a second deduction of the second product is not covered, of
the first it is. Quantities are integers, and where units are converted, ones
the factors divide.

**Fairness.** `FairSpec` asks for weak fairness of each consumer's next step and
of nothing else: the Go scheduler and the broker's redelivery. A goroutine that
can run does, and a message in a queue with an idle consumer is delivered.
Nothing is assumed of locks being free or running out, of statements succeeding
or of workers not dying: a refused lock is an error and no wait, so messages are
settled even if the lock of a dead worker stays for good. `EverythingSettles` is
about the deliveries of the bound: the last delivery of a message is not cut
short by a crash.

**Faults** are chosen per run. "db": any statement or call to another service
may fail without effect; a deadlock that Postgres ends by refusing one of the
statements is such a failure. Where an error ends the handler, a statement that
took effect and whose answer was lost looks, to what follows, like a failure of
the next one. Not so in the two loops of a sale, which go on after an error of
`InsertMovement`: there a lost answer to the deduction looks like the death of
the worker after it, but for the lock, and one to the insert like no failure at
all. "crash": a worker dies between any two steps; its locks stay and its message
is delivered again. "expiry": a lock runs out under a living holder; without it,
only after the holder died.

## 4. What is proved

All for arbitrary sets of products, warehouses, orders, messages and workers, any
events, kits and opening stock, any bound on deliveries and any subset of the
faults, from the named assumptions `RepoAssumption`, `SectionAssumption` and
`SalesAssumption` (identifiers distinct from their "none" values, the expanded
lines well typed, the opening stock natural); those of Catalog from
`ConstantsAssumption`, `OpeningAssumption` (what is registered at first went
through the same operations) and `RequestAssumption` (known operations, factors
that are natural numbers, fresh ids from Postgres), and those of Stock from the
assumptions of both its sides (`SidesAssumption`) and `WorkersAssumption`.

* `SalesProofs!TypeCorrect`: `Spec => []TypeOK`. `TypeOK` is inductive as it
  stands, because it holds more than types: no quantity is negative (the WHERE
  clauses of `RemoveAvailable` and `ConfirmSale` and the sums of
  `recalcReserved` are what the proof uses), a worker in a handler has a message
  of its own queue, and a worker that will insert movements has movements to
  insert. `ApplyQtyProofs` has one lemma per statement and the lemma for the
  section (`SectionStepType`).
* `SalesProofs!TicketsHold`: `Spec => []TicketInv`. The property wanted is
  `TicketsExclusive`: a ticket is with one worker and in one call, and not both
  pending and taken. It is not inductive, for `ConfirmReservations` might hand
  out a ticket that is already out. `TicketInv` adds `OpenIsFresh` (the ticket of
  an open row was never handed out) and `TicketsOpened` (no ticket is of an
  opening yet to come), which is what makes a *reopened* row safe: an order event
  after the sale counts `gen` up, so the next ticket is new. The steps fall into
  four groups: those that leave tickets alone or drop them
  (`HandlerDrops`, `EndsDrop`, `SectionDrops`, `ExpiryDrops`), the reopening (`ReplaceKeepsTickets`), the handing out
  (`ConfirmKeepsTickets`), and the way of a ticket through call and deduction
  (`NextCallKeepsTickets`, `DeductKeepsTickets`).
* `SalesProofs!SalesLocksReturned`: `Spec => []LocksReturned` while no worker dies,
  inductive with `TypeOK`. Each way out of `ReserveOrder` (its deferred unlock) and
  of the section (an unlock before each return) comes to the step that gives the
  lock back, refused and failed statements included.
* `SalesProofs!SoldOnce`: `Spec => SoldAtMostOnce`, from the same invariant. No
  lock is used in the argument: for a confirmed reservation the
  `UPDATE .. WHERE status='OPEN' RETURNING` alone is enough, whatever expires.
* `RequestsProofs!RequestsTypeCorrect`: `Spec => []TypeOK` of Requests, from
  `RequestsAssumption` (quantities in requests are *any* integers). Three guards
  keep a balance from becoming negative, and the proof uses each where the code
  has no other: the WHERE clause for what is taken; for what is added, where
  `AddAvailable` has none, that a handler begins a call only with a quantity above
  zero; and for a balance set by hand the CHECK of the column, because
  `setBalance` passes any number on. The second is `HandlersTypeOK`: the calls
  still to make are well typed, a transfer in its loop or its compensation was
  accepted, and `HasLine` and the conversions (`UnitProofs!ConvertType`) do the
  rest.
* `CatalogProofs!ProductsConvert`: `Spec => []StoredProductsConvert`. Not
  inductive: an insert happens a step after its validation. `ProductsInv` adds
  `Placed` (a request comes to a place only by its own operation, and a product
  about to be inserted was validated) and the shape of the rows; `UnitProofs`
  shows that a list of conversions with a usable entry one way has one the other
  way (`UsableBothWays`), which is why `validateConversions` may check one
  direction only.
* `CatalogProofs!KitsPriced`: `Spec => []KitPriced`. `KitsInv` says that a kit is
  its own price or somebody is still recalculating it (`Recalculates`). The step
  that matters is `WriteKit`: what it stores is priced by its *own* items
  (`PricedTwice`: pricing a priced kit changes nothing), even when head and items
  were read from two versions of the kit, so the last writer settles it.
* `CatalogProofs!PricesStay`: `Spec => []PriceKept`. `PricesInv` adds where a
  request that registers a price may be and what it then holds (`Registrar`): once
  it has read the product it keeps its draft until it ends, so that a registrar
  never ceases to be one. Two facts carry the step: an edit of the product sets
  neither price (`PriceStays`, from `Edited`), and a second `SetPrice` of the same
  price is by a second registrar.

The theorems below have hypotheses where the property is one of a world without
certain faults; each is named in the theorem, and each is met by the world of the
run that checks the property.

*The consumers*

* `SalesProofs!Announced`: `Spec => []AckedIsAnnounced`. `AnnouncedInv` follows an
  order event from its publication to the acknowledgement: a handler whose event reserves
  anything comes to `leave` and `ack` only with the event published.
* `SalesProofs!SalesLedgerNotAhead`: the ledger is never ahead of the balances,
  whatever fails, for finitely many workers and a ledger without sales at first;
  `SalesLedgerExact`: the two agree exactly when nothing fails ("db" and "crash"
  are not among the faults; locks may expire). `Accounted` counts the movements in
  the table and those a worker in its section is about to insert. `CallsSell` is
  the invariant needed beside it: every call lowers a balance and ends in one
  `SALE_OUT`. A step that moves a balance moves `Accounted` by the same quantity
  (`ApplyQtyProofs`); the sums are those of the community modules, whose recursion
  `SumProofs` solves.
* `SalesProofs!SalesInvoiceSoldOnce`: `InvoiceSoldOnce` together with `LedgerExact`,
  for one invoice consumer, invoices whose expanded lines name a product once, and
  a ledger without sales that shows nothing twice at first, while no statement
  fails and no worker dies; locks may expire. The first says that the movement of
  a sale is there once, the second that the balance has lost what the movements
  say; only together do they say that the stock left once. With two consumers it
  is false for an invoice without an order, and with failing statements too
  (section 5). `SaleInv` says that the calls still to make, or whose movements are
  still to come, are of the worker's invoice and of different balances, none of
  them in the ledger; that the worker chooses a way of selling only while the
  ledger shows no sale of the invoice (`service.go:345-351`); and that no
  `RESERVATION_ADD` is added to those a legacy order is sold from, so that the feed
  lists each once (`ApplyQtyProofs!RecentMovementsAt`).
* `SalesProofs!PromiseKept`: `Spec => TicketLife`, the refinement of OrderTickets
  by step simulation under `TypeOK`, `TicketInv` and `HandlerInv` (a message is in
  one handler at a time, and only invoice handlers between the confirmation and
  the end of the loop have calls to make): which statement is which abstract
  action, and that all others stutter. The rows that the UPDATE of
  `ConfirmReservations` found are in its worker's memory; what it confirms are
  those of them that are open when it writes, and the abstract action takes any
  open ones of one order.
* `SalesProofs!NothingLostSilently`: `Spec => []NoSilentLoss`: a confirmed
  reservation that is neither sold nor still to be sold was in the hands of a
  delivery that failed, or no warehouse was named for it. It does not say that an
  acknowledged invoice has sold everything: the delivery after a failed one finds
  nothing open and is acknowledged, and the loop passes over a line without a
  warehouse (`service.go:358-360, 395-397`). `LossInv`
  adds that a worker holds tickets of its own invoice's order only (`OwnTickets`)
  and that open reservations have a quantity (`OpenIsPositive`, without which
  a confirmed line would make no call). The step that matters is the end of a call
  (`service.go:389-421`): the ticket is taken, or the delivery fails and, as its
  order is that of the ticket, shows it.
* `SalesProofs!ReservedIsConsumed`: `Spec => []ReservesWhatIsConsumed`, whatever
  fails, dies or expires, if events and recipes are lists of lines with natural
  quantities (`ListsOfLines`) and the expanded lines of an event name each product
  once (`EachProductOnce`; without it the property is false, section 5). It
  has two halves. One is about lists: `ExpandItemQty`, `FlattenQty` and `LinesQty`
  show that the expanded lines hold, product by product, what the items consume,
  by induction on the length of the lists; the loops of `ExpandKitItems` are
  recursive functions, whose solutions `SumProofs!NatRecursion` provides. `BookedQty`
  says that without a second line of a product nothing is replaced. The other is
  `BookInv`: from the COMMIT of `ReplaceReservations` on, a handler that is past
  it and an acknowledged event have their quantities in the rows of the order, and
  no other row of it exists; another delivery writes the same, a confirmation
  keeps the quantities.

*The requests*

* `RequestsProofs!RequestsLedger`: `LedgerExact` for finitely many workers, if
  nothing fails and nobody sets a balance by hand (`SetBalance` writes no
  movement). Beside it `CallsInv`: the calls of every request move a balance in
  the direction of the movement they insert.
* `RequestsProofs!RequestsCache`: `CacheFresh` if nobody sets a balance and
  `Faults` is empty: a statement that fails after the change, or a death there,
  leaves the old balance in the cache, and so may a lock that expires.
  `FreshInv`: who is in a section holds its lock, what it has read
  is still so, and the cache is behind only inside.
* `RequestsProofs!RequestsProducts`: `StockHasProduct`, if nothing fails and
  nobody sets a balance. `ProductInv` carries the look for stock over the rest of
  `DeleteProduct`.
* `RequestsProofs!RequestsReceivedOnce`: `ReceiptRecordedOnce` together with
  `LedgerExact`, while no statement fails and no process dies, for finitely many
  workers, if nobody sets a balance, and under `ReceiptsApart`: two requests for
  one document are both deliveries of the queue with one consumer, and no document
  names a product twice. Locks may expire. The first says that the movements of a
  document are there once, the second that the balance has what they say. Without
  `ReceiptsApart` it is false (`requests_received_twice`), and with a failing
  statement a document is added twice though recorded once
  (`requests_received_again`). `ReceiveInv` says that a delivery that is under way
  has found no movement of its document, and that the calls it has left are of
  lines that have none; it holds whatever fails.
* `RequestsProofs!RequestsTransfers`: `TransfersCreateNothing` for finitely many
  workers and warehouses, if nothing fails and nobody sets a balance.
  `TransferPlan` fixes the two calls of a transfer and their order, and
  `TransitInv` adds what is in transit (taken from an origin and put nowhere yet)
  to what is in stock; the compensation puts it back.
* `RequestsProofs!RequestsRecorded`: `AnsweredIsRecorded`, whatever fails, dies or
  expires, of first tries: a transfer that succeeded has its two movements once,
  and a receipt that succeeded, of a document nobody else has received, each of its
  lines once. A repeated receipt may succeed with lines missing (it finds a
  movement of its document and is done), and manual movements, of which several
  may look alike, are not covered.
  From `LinesApart` (no document names a product twice) and `RefsApart` (a
  transfer writes under a reference of its own, the uuid of `service.go:278`).
  `RecordInv` says that the calls left are always an end of the calls the request
  began with (`ListPlan`), are of its own document (`OwnDocs`), and that while
  nobody else writes under that document the lines behind are in the ledger once
  and those ahead are not (`RecordPlan`).

*The catalogue*

* `CatalogProofs!CatalogTypeCorrect`: `Spec => []TypeOK`.
* `CatalogProofs!CodesDiffer`: `DrawnCodesDiffer`, if the SKUs in use at first are
  not above the last one drawn. `CodesInv`: a code that is stored, or read by a
  handler that may store it again, was typed by a client or is not above the
  counter and is not the one somebody has drawn and not yet inserted. The second
  half is what an edit that writes back an old code could break.
* `CatalogProofs!HistoryTells`: `HistoryTruthful`. `HistoryInv`: a price nobody
  has begun to register is the opening one, so that is what the only registrar has
  read; who was answered with success has inserted what it held.
* `CatalogProofs!AppliedPrice`: `AppliedPriceShown`. `AppliedInv`: while nobody
  else has begun to write its kit, a request that applies the price carries the
  price it has stored, from `WriteKit` on; `PriceKept` does the rest.

*The category tree*, for one worker, because two at once break it (section 5)

* `CategoryProofs!CategoriesShown`: `EveryCategoryShown`, if the tree is one at
  first. The property is about walks of bounded length, and no step keeps it by
  itself: what is kept is `Free`, that no set of categories is closed under taking
  the parent. `CircleFound` (a walk that misses the root meets a category twice)
  and `NoWayOut` make the two the same on a finite tree. `MoveKeepsFree` is the
  step that matters: the move that `CategoryParentWouldCycle` lets through is to a
  parent whose walk does not meet the category moved.
* `CategoryProofs!ReferencesHold`: `NothingDangles`. `Serving` is what a request
  knows at each place: between the look for children and products and the delete
  nobody has added one, and the parent found is still there at the write.

*Consumers and requests together.* In Stock each step is a step of one side, and
leaves the other side its variables. `S` and `R` are instances of the proof modules,
so that a lemma of one side is cited as it stands (`S!TypeStep`); what has to be shown
is that each side finds tables, locks and cache as its lemmas may assume them after
a step of the other. The locks name workers of both sides: that is why RedisLock and
ApplyQty have the constant `Holder`, the set of all who take locks, of which `Worker`
is a part. `WorkersAssumption` says that no worker is of both sides. Statements may
fail, workers die and locks expire for types and promises; `StockLedger` and
`StockHoldsReservations` need that nothing fails or dies, and `StockCache` that no
lock expires either. These three are about requests that set no balance by hand,
which writes no movement and takes no lock.

* `StockProofs!StockTypeCorrect`: both type invariants, so no balance becomes negative
  whoever comes between.
* `StockProofs!StockLedger`: `Spec => []LedgerExact` for finitely many workers. Besides
  the calls of both sides (`SidesCalls`) it needs no invariant: a step of one side
  moves the balance and its own accounted movements by the same quantity, and leaves
  what the other is about to insert alone.
* `StockProofs!StockCache`: `Spec => []CacheShowsStock`. `SidesCacheInv` says of each side that who
  is in a section holds the lock of its balance, that what it has read is still so,
  and that the cache is behind only inside a section. A step of the other side
  is polite: it touches a balance or its cache only with that lock
  (`ApplyQtyProofs!StrangerPolite`).
* `StockProofs!StockHoldsReservations`: `Spec => OpenReservationsHold`. `ColumnHolds`: for every row
  that was there at first, the stored column is the live sum or a handler is on
  its way to write it (`Summing`), every snapshot taken is the live sum
  (`SnapshotsHold`) as long as nobody was overtaken, and no call of a consumer confirms
  from the column (`RemovesOnly`: that is for orders from before migration 005).
  Every statement that lowers a balance leaves what the column says (`TakesFree`,
  from `RemoveAvailable`'s WHERE clause).
* `StockProofs!StockKeepsPromises` and `StockReservesWhatIsConsumed`: `NoSilentLoss`
  and `AckedIsAnnounced` (together `PromisesKept`), `SoldAtMostOnce` and
  `ReservesWhatIsConsumed` of the consumers hold with any requests about, balances
  set by hand and deleted products included, and whatever fails, dies or expires:
  no request writes `stock_reservations` (`RequestsReserveNothing`). They say no
  more than they do of the consumers alone: a failed delivery and a missing
  warehouse are excepted.

The inductive invariants that are finite enough (`LossInv`, `CallsSell`, `SaleInv`, `BookInv`,
`CallsInv`, `FreshInv`, `ProductInv`, `ReceiveInv`, `RecordInv`, `TransferPlan`, `TransitInv`,
`CodesInv`, `TreeInv`; `SidesTypeOK`, `SidesCalls`, `SidesCacheInv`, `ColumnHolds` and
`SidesPromises` of Stock) were checked by TLC on the worlds of section 3 before they
were proved, `PromisesKept` and `ReservationSoldOnce` also with dying processes and
failing statements (one order, its invoice and an exit on the same balance), and so were the
hypotheses of `ReservedIsConsumed` on `sales_orders`.

Only model-checked: liveness (`EverythingSettles`), for fairness and ENABLED are
out of the prover's reach. Every invariant and every other action property that a
passing run checks is proved.

## 5. Findings

* `requests_transfer_lost`: without any fault, a transfer that finds its
  destination locked and then its origin locked again loses its quantity; the
  result of the compensation is ignored (`service.go:283`).
* `requests_received_twice`: two concurrent `ReceivePurchase` of one order both
  find it not received (`service.go:296-302`).
* `requests_received_again`: a receipt adds the stock of a line, the insert of its
  movement fails (`service.go:496`), and the receipt that is tried again finds no
  movement and adds it again. The test of a repeated receipt asserts that the
  balance stays (`service_test.go:270-275`). The death of the process between the
  two statements does the same.

Four more disagreements follow from the same code and have no run of their own:

* An order with a kit and a line of one of its components reserves, and its
  invoice then deducts, only the last of the two quantities, because
  `ReplaceReservations` upserts one row per order and product
  (`stock_repo.go:166-171`). `ReservesWhatIsConsumed` is false of such an order.
* When the movement of a transfer's destination cannot be inserted, the
  destination has been credited already and the origin is credited too
  (`service.go:282-283, 496-501`), so the quantity exists twice.
* A sale without a reservation whose movement cannot be inserted
  (`service.go:492-501`) is deducted again by the next delivery, as a receipt is
  added again.
* Two concurrent moves of categories, `a` under `b` and `b` under `a`, are both
  checked against the list from before (`service.go:90-99`), so both pass and
  `BuildCategoryTree` shows neither.

Some limits of the code are written into properties instead, where nothing in
the repository promises more. `NoSilentLoss` admits what a *failed* delivery
left behind: once the reservations are confirmed, the redelivered invoice finds
none open and is acknowledged. `InvoiceSoldOnce` and `ReceiptRecordedOnce` speak of
movements, and are checked where one consumer takes the messages one after
another: two replicas that handle copies of an invoice without an order may both
find no movement of it, and both sell. That balances agree with movements is
`LedgerExact`, which is checked without failing statements and crashes. A product
that an update adds while the invoice is being confirmed stays open, which
OrderTickets allows. `CacheFresh` is checked where nothing fails or expires and no
balance is set by hand; `AnsweredIsRecorded` speaks of first tries only.
`StockHasProduct` admits stock whose movement was inserted after `DeleteProduct`
had looked for movements. `KitPriced` speaks of kits whose requests have all succeeded: a
recalculation that fails leaves the kit as the client sent it. `HistoryTruthful`
speaks of registrations that were answered with success: a failed one may have
set the price. `OpenReservationsHold` admits two ways to take what is reserved:
a balance row created after the reservations, whose reserved column is zero, and
two overlapping `recalcReserved`, of which the older snapshot is written last
(TLC finds that one in `stock_composed` when `overtaken` is left out: the
recalculation of an invoice takes its sums, another order is reserved and
recalculated, and then the older sums are written over its reservation).

## 6. What the model leaves out

* A worker takes any message of its queue, so the order of a queue is lost: the
  model has more behaviours than one queue with one consumer.
* Kits do not change while messages are handled; quantities are integers, and a
  division that leaves a remainder is rounded down.
* The balances in the cache have no type, and no expiry after ten minutes: no
  code of the service reads them.
* Names, dates, subtypes of movements, filters of lists; the checks of names,
  roles and kinds are one flag (`named`) of a request of Catalog. Prices are
  integers and a client sends no margin that its column cannot hold in the
  negative.
* `Reserve` of the repository: nothing calls it. Catalog never deletes a product
  and Requests changes no assembly: the race between the two (an assembly saved
  between the last look of `DeleteProduct` and the delete) is in neither.
* Not modelled: what HTTP handlers bind and answer, the lists with filters, reading
  the configuration, connecting and shutting down. The migrations are the schema,
  whose constraints are in StockRepo and Catalog.
* The lock, the broker client and the code counters live in `erp/pkg`, outside
  this repository; they are modelled from how `src/` uses them and marked
  external in the map.

## 7. The plan

1. (done) Stock tables, section, sales and reservations; the theorems on types
   and tickets; requests; the category tree.
2. (done) The composition of consumers and requests (Stock); products, assemblies,
   prices, warehouses and codes (Catalog); `DeleteProduct`; the theorems on the
   types of Requests, the units and prices of products and the prices of kits.
3. (done) Proofs: the refinement, silent loss, ledgers, cache, products,
   receipts, transfers and answers; codes, types, history and applied prices of the
   catalogue; the category tree.
4. (done) Proofs: what orders book, kits included; consumers and requests together.
5. (done) Stock with faults; the confirmation of an order in two steps; balances
   set to any number.
6. Left: the ledger of Stock with faults, as an inequality like
   `SalesLedgerNotAhead`; a world in which an assembly is saved while its product
   is deleted.

Later runs take the place of finished ones where two questions fit one world.

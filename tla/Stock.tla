-------------------------------- MODULE Stock --------------------------------
(***************************************************************************)
(* The whole stock service at work: the message consumers of Sales and the *)
(* requests of Requests change the same tables, compete for the same locks *)
(* and write the same cache (cmd/api/main.go:56-73 hands one repository,   *)
(* one locker and one cache to both).  Each keeps the variables of its own *)
(* workers; what is shared has one name here.  Statements fail, processes  *)
(* die and locks expire as Faults says.                                    *)
(***************************************************************************)
EXTENDS Integers, Sequences, FiniteSets, FiniteSetsExt

CONSTANTS
  Product, Warehouse, Order, DocId, NoWarehouse, NoDoc, FeedLimit,
  NoWorker, NoEntry, Faults, Opening,
  OrderWorker, InvoiceWorker, OrderMsg, InvoiceMsg, Body, Kits, Backlog, MaxDeliveries,
  NoMsg, NoTicket,
  Requester, InboundConsumer, Request, Catalogue, InAssemblies, MaxTries, NoTag,
  NoUnit, DefaultUnit

Consumer == OrderWorker \cup InvoiceWorker

ASSUME WorkersAssumption == Consumer \cap Requester = {}

VARIABLES
  rows, avail, reserved, rsv, movements, lock, cache,   \* shared
  sStage, sCall, sSeen, status, deliveries, sPc, job, todo, touched, sums, announced,
  gen, taken,                                           \* of the consumers
  rStage, rCall, rSeen, products, rPc, calls, tries,    \* of the requests
  overtaken   \* history: a reservation changed under a recalculation

shared == <<rows, avail, reserved, rsv, movements, lock, cache>>
ofSales == <<sStage, sCall, sSeen, status, deliveries, sPc, job, todo, touched, sums,
             announced, gen, taken>>
ofRequests == <<rStage, rCall, rSeen, products, rPc, calls, tries>>
vars == <<shared, ofSales, ofRequests, overtaken>>

S == INSTANCE SalesProofs
       WITH Worker <- Consumer, Holder <- Consumer \cup Requester,
            stage <- sStage, call <- sCall, seen <- sSeen, pc <- sPc
R == INSTANCE RequestsProofs
       WITH Worker <- Requester, Holder <- Consumer \cup Requester,
            stage <- rStage, call <- rCall, seen <- rSeen, pc <- rPc

ASSUME SidesAssumption ==
  /\ S!RepoAssumption /\ S!SectionAssumption /\ S!SalesAssumption
  /\ R!RepoAssumption /\ R!SectionAssumption /\ R!RequestsAssumption

Init == S!Init /\ R!Init /\ overtaken = FALSE

\* recalcReserved has taken its snapshot and not yet written the column.
Summing == {w \in Consumer : sPc[w] = "write"}

\* A lock in use: its holder is still at work under it.
InUse(n) ==
  \/ lock[n] \in Consumer /\ S!Uses(lock[n], n)
  \/ lock[n] \in Requester /\ R!Inside(lock[n]) /\ n = R!StockLock(rCall[lock[n]].key)

\* Without the fault "expiry" a lock runs out only when nobody uses it.
TtlRunsOut(n) ==
  /\ S!Expire(n)
  /\ "expiry" \in Faults \/ ~InUse(n)
  /\ UNCHANGED <<rows, avail, reserved, rsv, movements, cache, ofSales, ofRequests>>

ConsumerStep ==
  \E w \in Consumer : (S!WorkerStep(w) \/ S!Crash(w)) /\ UNCHANGED ofRequests
RequesterStep ==
  \E w \in Requester : (R!Submit(w) \/ R!HandlerStep(w) \/ R!Crash(w)) /\ UNCHANGED ofSales
Next ==
  /\ ConsumerStep \/ RequesterStep \/ \E n \in S!LockName : TtlRunsOut(n)
  /\ overtaken' = (overtaken \/ (Summing # {} /\ rsv' # rsv))

Spec == Init /\ [][Next]_vars

(***************************************************************************)
(* Properties                                                              *)
(***************************************************************************)
Keys == S!Keys

\* While no statement fails, every balance is what was there and what the
\* movements of sales and of requests add up to, but for those a worker of
\* either side is about to insert (service.go:407-417, 487-501).
LedgerExact ==
  \A k \in Keys :
    avail[k] + R!Accounted({k}, R!OutTypes) + S!UnpostedQty({k}, R!OutTypes)
      = R!OpeningQty(k) + R!Accounted({k}, R!AddTypes)

Inside(k) == \/ \E w \in Consumer : S!Inside(w) /\ sCall[w].key = k
             \/ \E w \in Requester : R!Inside(w) /\ rCall[w].key = k

\* Between sections the cached quantity is that of the table, whoever wrote
\* last: consumers and requests keep each other out by the name of the lock.
CacheShowsStock ==
  \A k \in Keys : ~Inside(k) /\ cache[k] # NoEntry => cache[k].avail = avail[k]

\* Nothing takes from a balance what open reservations hold of it, neither an
\* exit or a transfer nor the sale of another order (stock_repo.go:326-339), once
\* the events that opened them are through with recalcReserved and if none of
\* them was committed between the snapshot and the write of another's.  A row
\* that was created after the reservations is not so protected.
OpenReservationsHold ==
  [][\A k \in DOMAIN Opening :
       /\ avail'[k] < avail[k] /\ ~overtaken
       /\ \A w \in Consumer : sPc[w] \notin {"recalc", "write"}
       => avail'[k] >= S!OpenQty(k)]_vars

\* What the consumers promise of reservations, with requests at work on the same
\* tables and whatever fails, dies or expires: what a confirmed reservation holds
\* is sold or still to be sold, unless a delivery failed on it or no warehouse
\* was named for it, and an acknowledged event with items was announced
\* (service.go:203-223, 353-361, 389-421).
PromisesKept == S!NoSilentLoss /\ S!AckedIsAnnounced

\* The same of each sale: it takes what a confirmed reservation holds once.
ReservationSoldOnce == S!SoldAtMostOnce
=============================================================================

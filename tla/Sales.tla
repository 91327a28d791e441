-------------------------------- MODULE Sales --------------------------------
(***************************************************************************)
(* The two message consumers of the stock service and what they call:      *)
(* rabbit/consumer.go, ReserveOrder and confirmOutbound with               *)
(* applyConfirmedReservations and confirmReservedSale                      *)
(* (internal/application/service.go), over the tables of StockRepo, the    *)
(* section of ApplyQty and the kits of KitExpansion.  A worker is the      *)
(* consumer goroutine of one queue in one replica of the service.          *)
(***************************************************************************)
EXTENDS ApplyQty, KitExpansion

CONSTANTS
  OrderWorker, InvoiceWorker,   \* consumers of the two queues
  OrderMsg, InvoiceMsg,         \* the messages published to them
  Body,            \* message -> event: [order, wh, items] or
                   \* [invoice, order, wh, items]
  Kits,            \* what ListAssemblies returns
  Opening,         \* the balances before the first message
  Backlog,         \* the movements before the first message
  MaxDeliveries,   \* bound: how often one message is delivered
  NoMsg, NoTicket

Msg == OrderMsg \cup InvoiceMsg
Items(m) == Body[m].items
Lines(m) == ExpandKitItems(Items(m), Kits)

\* A ticket names one opening of a reservation row: ConfirmReservations hands
\* it out, and a deduction uses it up.
Ticket == Order \X Product \X Nat

ASSUME SalesAssumption ==
  /\ Worker = OrderWorker \cup InvoiceWorker
  /\ OrderWorker \cap InvoiceWorker = {}
  /\ OrderMsg \cap InvoiceMsg = {} /\ NoMsg \notin Msg
  /\ \A m \in Msg : /\ Body[m].order \in Order \cup {NoDoc}
                    /\ Body[m].wh \in MaybeWarehouse
                    /\ Lines(m) \in Seq(Line)
  /\ \A m \in InvoiceMsg : Body[m].invoice \in DocId
  /\ NoDoc \notin DocId
  /\ DOMAIN Opening \subseteq Keys /\ \A k \in DOMAIN Opening : Opening[k] \in Nat
  /\ Backlog \in Seq(Movement)
  /\ MaxDeliveries \in Nat
  /\ NoTicket \notin Ticket

VARIABLES
  status,      \* the broker's view of a message
  deliveries,  \* how often it was delivered
  pc,          \* worker -> where its handler is
  job,         \* worker -> the message it handles
  todo,        \* worker -> the calls of the section still to make
  touched,     \* worker -> the products whose rows its statements found: those
               \* ConfirmReservations has to confirm, then those recalcReserved
               \* is called with
  sums,        \* worker -> the snapshot of its recalcReserved
  announced,   \* the order events published as stock.reserved
  gen,         \* history: how often a reservation row was opened
  taken        \* history: the tickets whose quantity left the stock

brokerVars == <<status, deliveries>>
handlerVars == <<pc, job, todo, touched, sums>>
history == <<gen, taken>>
vars == <<repoVars, lock, sectionVars, brokerVars, handlerVars, announced, history>>

TicketOf(o, p) == <<o, p, gen[o][p]>>

OrderPc == {"reserve", "replace", "publish", "leave", "leaveErr"}
InvoicePc == {"invoice", "confirm", "confirming", "count", "legacy", "legacyList", "direct",
              "loop", "section"}
Pc == {"idle", "recalc", "write", "ack", "nack"} \cup OrderPc \cup InvoicePc

Init ==
  /\ rows = DOMAIN Opening
  /\ avail = [k \in Keys |-> IF k \in DOMAIN Opening THEN Opening[k] ELSE 0]
  /\ reserved = [k \in Keys |-> 0]
  /\ rsv = [o \in Order |-> [p \in Product |-> NoReservation]]
  /\ movements = Backlog
  /\ SectionInit
  /\ status = [m \in Msg |-> "queued"]
  /\ deliveries = [m \in Msg |-> 0]
  /\ pc = [w \in Worker |-> "idle"]
  /\ job = [w \in Worker |-> NoMsg]
  /\ todo = [w \in Worker |-> {}]
  /\ touched = [w \in Worker |-> {}]
  /\ sums = [w \in Worker |-> <<>>]
  /\ announced = {}
  /\ gen = [o \in Order |-> [p \in Product |-> 0]]
  /\ taken = {}

At(w, label) == pc[w] = label
Jump(w, label) == pc' = [pc EXCEPT ![w] = label]
OrderOf(w) == Body[job[w]].order
InvoiceDoc(w) == <<"INVOICE", Body[job[w]].invoice>>
ReserveLock(w) == <<"reserve", OrderOf(w)>>

(***************************************************************************)
(* The broker and the end of a handler.  The consumer acknowledges by hand *)
(* (erp/pkg/rabbit): an error settles the message as dead-lettered or puts *)
(* it back, and a message a dead worker had not settled is delivered again.*)
(***************************************************************************)
Take(w, m) ==
  /\ At(w, "idle")
  /\ status[m] \in {"queued", "requeued"}
  /\ deliveries[m] < MaxDeliveries
  /\ w \in OrderWorker <=> m \in OrderMsg
  /\ status' = [status EXCEPT ![m] = "taken"]
  /\ deliveries' = [deliveries EXCEPT ![m] = @ + 1]
  /\ job' = [job EXCEPT ![w] = m]
  /\ Jump(w, IF m \in OrderMsg THEN "reserve" ELSE "invoice")
  /\ UNCHANGED <<repoVars, lock, sectionVars, todo, touched, sums, announced, history>>

\* What the worker forgets when its handler ends or dies.
Forget(w) ==
  /\ Jump(w, "idle")
  /\ job' = [job EXCEPT ![w] = NoMsg]
  /\ todo' = [todo EXCEPT ![w] = {}]
  /\ touched' = [touched EXCEPT ![w] = {}]
  /\ sums' = [sums EXCEPT ![w] = <<>>]

Settle(w, s) ==
  /\ status' = [status EXCEPT ![job[w]] = s]
  /\ Forget(w)
  /\ UNCHANGED <<repoVars, lock, sectionVars, deliveries, announced, history>>

Ack(w) == At(w, "ack") /\ Settle(w, "acked")
Nack(w) ==
  /\ At(w, "nack")
  /\ \/ Settle(w, "dead")
     \/ deliveries[job[w]] < MaxDeliveries /\ Settle(w, "requeued")

\* Mutant of Crash: the broker acknowledged the message when it delivered it.
CrashAutoAcked(w) ==
  /\ "crash" \in Faults
  /\ ~At(w, "idle") /\ deliveries[job[w]] < MaxDeliveries
  /\ Forget(w)
  /\ Killed(w)
  /\ UNCHANGED <<repoVars, lock, cache, brokerVars, announced, history>>

Crash(w) ==
  /\ "crash" \in Faults
  /\ ~At(w, "idle") /\ deliveries[job[w]] < MaxDeliveries
  /\ status' = [status EXCEPT ![job[w]] = "requeued"]
  /\ Forget(w)
  /\ Killed(w)
  /\ UNCHANGED <<repoVars, lock, cache, deliveries, announced, history>>

LockExpires(n) ==
  /\ Expire(n)
  /\ UNCHANGED <<repoVars, sectionVars, brokerVars, handlerVars, announced, history>>

(***************************************************************************)
(* ReserveOrder                                                            *)
(***************************************************************************)

\* The lock is taken before the order id is looked at: events without one
\* contend for the lock of the empty name and are then refused.
LockOrder(w) ==
  /\ At(w, "reserve")
  /\ Acquire(w, ReserveLock(w))
  /\ Jump(w, IF OrderOf(w) = NoDoc THEN "leaveErr" ELSE "replace")
  /\ UNCHANGED <<repoVars, sectionVars, brokerVars, job, todo, touched, sums, announced,
                 history>>

OrderBusy(w) ==
  /\ At(w, "reserve")
  /\ "db" \in Faults \/ lock[ReserveLock(w)] # NoWorker
  /\ Jump(w, "nack")
  /\ UNCHANGED <<repoVars, lock, sectionVars, brokerVars, job, todo, touched, sums,
                 announced, history>>

\* An event without items releases the order's reservations; any other
\* replaces them by the expanded lines.
Reserving(m) == Len(Items(m)) > 0

\* Where a handler goes after recalcReserved.
AfterRecalc(w) ==
  IF w \in InvoiceWorker THEN "loop" ELSE IF Reserving(job[w]) THEN "publish" ELSE "leave"

Opens(o, p, lines) == p \in KeptProducts(lines) /\ rsv[o][p].status # "OPEN"

Replace(w) ==
  /\ At(w, "replace")
  /\ LET o == OrderOf(w)
         lines == Lines(job[w])
     IN  /\ ReplaceReservations(o, Body[job[w]].wh, lines)
         /\ touched' = [touched EXCEPT ![w] = Touched(o, lines)]
         /\ gen' = [gen EXCEPT ![o] =
                      [p \in Product |-> IF Opens(o, p, lines) THEN @[p] + 1 ELSE @[p]]]
         /\ Jump(w, IF Touched(o, lines) = {} THEN AfterRecalc(w) ELSE "recalc")
  /\ UNCHANGED <<lock, sectionVars, brokerVars, job, todo, sums, announced, taken>>

Recalc(w) ==
  /\ At(w, "recalc")
  /\ sums' = [sums EXCEPT ![w] = RecalcSnapshot(touched[w])]
  /\ Jump(w, "write")
  /\ UNCHANGED <<repoVars, lock, sectionVars, brokerVars, job, todo, touched, announced,
                 history>>

WriteReserved(w) ==
  /\ At(w, "write")
  /\ RecalcWrite(sums[w])
  /\ sums' = [sums EXCEPT ![w] = <<>>]
  /\ touched' = [touched EXCEPT ![w] = {}]
  /\ Jump(w, AfterRecalc(w))
  /\ UNCHANGED <<lock, sectionVars, brokerVars, job, todo, announced, history>>

Publish(w) ==
  /\ At(w, "publish")
  /\ announced' = announced \cup {job[w]}
  /\ Jump(w, "leave")
  /\ UNCHANGED <<repoVars, lock, sectionVars, brokerVars, job, todo, touched, sums,
                 history>>

\* Mutant of LeaveOrder: ReserveOrder returns nil whatever happened.
LeaveOrderWell(w) ==
  /\ pc[w] \in {"leave", "leaveErr"}
  /\ Release(w, ReserveLock(w))
  /\ Jump(w, "ack")
  /\ UNCHANGED <<repoVars, sectionVars, brokerVars, job, todo, touched, sums, announced,
                 history>>

LeaveOrder(w) ==
  /\ pc[w] \in {"leave", "leaveErr"}
  /\ Release(w, ReserveLock(w))
  /\ Jump(w, IF At(w, "leave") THEN "ack" ELSE "nack")
  /\ UNCHANGED <<repoVars, sectionVars, brokerVars, job, todo, touched, sums, announced,
                 history>>

(***************************************************************************)
(* confirmOutbound: which of its three ways of selling it takes            *)
(***************************************************************************)
Decide(w, label) ==
  /\ Jump(w, label)
  /\ UNCHANGED <<repoVars, lock, sectionVars, brokerVars, job, todo, touched, sums,
                 announced, history>>

\* Mutant of CheckInvoice: no look for the invoice's movements.
CheckNothing(w) ==
  /\ At(w, "invoice")
  /\ Decide(w, IF OrderOf(w) # NoDoc THEN "confirm" ELSE "direct")

CheckInvoice(w) ==
  /\ At(w, "invoice")
  /\ Decide(w, IF HasMovement(InvoiceDoc(w), "SALE_OUT") THEN "ack"
               ELSE IF OrderOf(w) # NoDoc THEN "confirm" ELSE "direct")

CountReservations(w) ==
  /\ At(w, "count")
  /\ Decide(w, IF HasReservations(OrderOf(w)) THEN "ack" ELSE "legacy")

CheckLegacy(w) ==
  /\ At(w, "legacy")
  /\ Decide(w, IF HasMovement(<<"SALES_ORDER", OrderOf(w)>>, "RESERVATION_ADD")
               THEN "legacyList" ELSE "direct")

(***************************************************************************)
(* The calls each way makes.  RETURNING promises no order, so the calls of *)
(* confirmed reservations share a place; the others keep that of their     *)
(* line.  A reservation without a warehouse is sold from the invoice's; if *)
(* that is missing too the loop skips it.                                  *)
(***************************************************************************)
LoopCall(w, line, change, key, qty, tag) ==
  [line |-> line, change |-> change, key |-> key, qty |-> qty, doc |-> InvoiceDoc(w),
   posts |-> <<"RESERVATION_RELEASE", "SALE_OUT">>, strict |-> FALSE, tag |-> tag]

\* Mutant of SaleWarehouse: always the invoice's.
InvoiceWarehouse(w, p) == Body[job[w]].wh

SaleWarehouse(w, p) ==
  IF rsv[OrderOf(w)][p].wh # NoWarehouse THEN rsv[OrderOf(w)][p].wh ELSE Body[job[w]].wh

ToConfirm(w) == StillOpen(OrderOf(w), touched[w])

\* Mutant of Sellable: a reservation without a warehouse is skipped.
SellableAtHome(w) ==
  {p \in ToConfirm(w) : rsv[OrderOf(w)][p].wh # NoWarehouse /\ rsv[OrderOf(w)][p].qty > 0}

Sellable(w) ==
  {p \in ToConfirm(w) : SaleWarehouse(w, p) # NoWarehouse /\ rsv[OrderOf(w)][p].qty > 0}

ReservationCalls(w) ==
  {LoopCall(w, 0, "remove", <<p, SaleWarehouse(w, p)>>, rsv[OrderOf(w)][p].qty,
            TicketOf(OrderOf(w), p)) : p \in Sellable(w)}

LegacyCalls(w) ==
  LET feed == RecentMovements
      ofOrder == {i \in DOMAIN feed : /\ feed[i].doc = <<"SALES_ORDER", OrderOf(w)>>
                                      /\ feed[i].type = "RESERVATION_ADD"}
  IN  {LoopCall(w, i, "confirmSale", feed[i].key, feed[i].qty, NoTicket) : i \in ofOrder}

DirectCalls(w) ==
  LET lines == Lines(job[w])
  IN  {ApplyCall(i, "SALE_OUT", <<lines[i].product, Body[job[w]].wh>>, lines[i].qty,
                 InvoiceDoc(w), NoTicket) : i \in Kept(lines)}

\* ConfirmReservations: the UPDATE starts, and finds the rows that are open.
FindOpen(w) ==
  /\ At(w, "confirm")
  /\ touched' = [touched EXCEPT ![w] = OpenProducts(OrderOf(w))]
  /\ Jump(w, "confirming")
  /\ UNCHANGED <<repoVars, lock, sectionVars, brokerVars, job, todo, sums, announced,
                 history>>

\* It comes to a row that was closed meanwhile and passes it over, also if the
\* row is opened again before the UPDATE ends.
PassClosed(w) ==
  /\ At(w, "confirming")
  /\ \E p \in touched[w] \ ToConfirm(w) : touched' = [touched EXCEPT ![w] = @ \ {p}]
  /\ UNCHANGED <<repoVars, lock, sectionVars, brokerVars, pc, job, todo, sums, announced,
                 history>>

\* It ends, committed on its own; when it returns no row a second statement
\* counts the order's rows.
Confirm(w) ==
  /\ At(w, "confirming")
  /\ ToConfirm(w) # {}
  /\ ConfirmReservations(OrderOf(w), touched[w])
  /\ todo' = [todo EXCEPT ![w] = ReservationCalls(w)]
  /\ touched' = [touched EXCEPT ![w] = ToConfirm(w)]
  /\ Jump(w, "recalc")
  /\ UNCHANGED <<lock, sectionVars, brokerVars, job, sums, announced, history>>

NothingOpen(w) ==
  /\ At(w, "confirming")
  /\ ToConfirm(w) = {}
  /\ touched' = [touched EXCEPT ![w] = {}]
  /\ Jump(w, "count")
  /\ UNCHANGED <<repoVars, lock, sectionVars, brokerVars, job, todo, sums, announced,
                 history>>

ListLegacy(w) ==
  /\ At(w, "legacyList")
  /\ todo' = [todo EXCEPT ![w] = LegacyCalls(w)]
  /\ Jump(w, "loop")
  /\ UNCHANGED <<repoVars, lock, sectionVars, brokerVars, job, touched, sums, announced,
                 history>>

Direct(w) ==
  /\ At(w, "direct")
  /\ IF Body[job[w]].wh = NoWarehouse \/ Len(Items(job[w])) = 0
     THEN Jump(w, "nack") /\ UNCHANGED todo
     ELSE Jump(w, "loop") /\ todo' = [todo EXCEPT ![w] = DirectCalls(w)]
  /\ UNCHANGED <<repoVars, lock, sectionVars, brokerVars, job, touched, sums, announced,
                 history>>

(***************************************************************************)
(* The loop over the calls                                                 *)
(***************************************************************************)
NextCall(w) ==
  /\ At(w, "loop")
  /\ \E c \in todo[w] :
       /\ \A d \in todo[w] : c.line <= d.line
       /\ Begin(w, c)
       /\ todo' = [todo EXCEPT ![w] = @ \ {c}]
  /\ Jump(w, "section")
  /\ UNCHANGED <<repoVars, brokerVars, job, touched, sums, announced, history>>

LoopDone(w) == At(w, "loop") /\ todo[w] = {} /\ Decide(w, "ack")

InSection(w) ==
  /\ At(w, "section")
  /\ SectionStep(w)
  /\ UNCHANGED <<brokerVars, handlerVars, announced, history>>

Deduct(w) ==
  /\ At(w, "section")
  /\ ChangeBalance(w)
  /\ taken' = taken \cup ({call[w].tag} \ {NoTicket})
  /\ UNCHANGED <<brokerVars, handlerVars, announced, gen>>

SectionOk(w) ==
  /\ At(w, "section")
  /\ Return(w, "ok")
  /\ Jump(w, "loop")
  /\ UNCHANGED <<repoVars, brokerVars, job, todo, touched, sums, announced, history>>

\* The loop ends with the first error; what it had not yet sold stays unsold.
SectionErr(w) ==
  /\ At(w, "section")
  /\ Return(w, "err")
  /\ Jump(w, "nack")
  /\ todo' = [todo EXCEPT ![w] = {}]
  /\ UNCHANGED <<repoVars, brokerVars, job, touched, sums, announced, history>>

(***************************************************************************)
(* A statement or a call to another service fails: the handler returns the *)
(* error; ReserveOrder's deferred unlock still runs.                       *)
(***************************************************************************)
Fails(w) ==
  /\ "db" \in Faults
  /\ pc[w] \in {"replace", "recalc", "write", "publish", "invoice", "confirm",
                "confirming", "count", "legacy", "legacyList", "direct"}
  /\ Jump(w, IF w \in OrderWorker THEN "leaveErr" ELSE "nack")
  /\ todo' = [todo EXCEPT ![w] = {}]
  /\ touched' = [touched EXCEPT ![w] = {}]
  /\ sums' = [sums EXCEPT ![w] = <<>>]
  /\ UNCHANGED <<repoVars, lock, sectionVars, brokerVars, job, announced, history>>

OrderStep(w) ==
  \/ LockOrder(w) \/ OrderBusy(w) \/ Replace(w) \/ Publish(w) \/ LeaveOrder(w)
InvoiceStep(w) ==
  \/ CheckInvoice(w) \/ FindOpen(w) \/ PassClosed(w) \/ Confirm(w) \/ NothingOpen(w)
  \/ CountReservations(w) \/ CheckLegacy(w) \/ ListLegacy(w) \/ Direct(w)
  \/ NextCall(w) \/ LoopDone(w) \/ InSection(w) \/ Deduct(w) \/ SectionOk(w)
  \/ SectionErr(w)
WorkerStep(w) ==
  \/ \E m \in Msg : Take(w, m)
  \/ OrderStep(w) \/ InvoiceStep(w)
  \/ Recalc(w) \/ WriteReserved(w)
  \/ Fails(w) \/ Ack(w) \/ Nack(w)

\* The name whose lock the worker is entitled to hold: between Lock and unlock
\* of ReserveOrder, or of the section.
Uses(w, n) ==
  \/ pc[w] \in {"replace", "recalc", "write", "publish", "leave", "leaveErr"}
     /\ w \in OrderWorker /\ n = ReserveLock(w)
  \/ Inside(w) /\ n = StockLock(call[w].key)

\* Without the fault "expiry" the 8 seconds are long enough: a lock runs out
\* only after the death of the worker that took it.
TtlRunsOut(n) ==
  /\ LockExpires(n)
  /\ "expiry" \in Faults \/ ~Uses(lock[n], n)

Next ==
  \/ \E w \in Worker : WorkerStep(w) \/ Crash(w)
  \/ \E n \in LockName : TtlRunsOut(n)

\* The goroutines run and the broker delivers; that a key's time to live ever
\* runs out is not assumed.
Fairness == \A w \in Worker : WF_vars(WorkerStep(w))

Spec == Init /\ [][Next]_vars
FairSpec == Spec /\ Fairness
=============================================================================

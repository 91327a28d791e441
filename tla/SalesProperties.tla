--------------------------- MODULE SalesProperties ---------------------------
(***************************************************************************)
(* What the consumers of Sales guarantee, and the invariants their proof   *)
(* rests on.                                                               *)
(***************************************************************************)
EXTENDS Sales

CallTag == Ticket \cup {NoTicket}

BrokerTypeOK ==
  /\ status \in [Msg -> {"queued", "taken", "requeued", "acked", "dead"}]
  /\ deliveries \in [Msg -> Nat]
  /\ announced \subseteq OrderMsg

\* A worker is in a handler of its own queue, with a message of that queue.
MsgOf(w) == IF w \in OrderWorker THEN OrderMsg ELSE InvoiceMsg
PcOf(w) == IF w \in OrderWorker THEN Pc \ InvoicePc ELSE Pc \ OrderPc
HandlerTypeOK ==
  /\ pc \in [Worker -> Pc]
  /\ job \in [Worker -> Msg \cup {NoMsg}]
  /\ todo \in [Worker -> SUBSET Call(CallTag)]
  /\ touched \in [Worker -> SUBSET Product]
  /\ \A w \in Worker :
       /\ pc[w] \in PcOf(w)
       /\ pc[w] # "idle" => job[w] \in MsgOf(w)
       /\ pc[w] # "section" => stage[w] = "idle"
       /\ pc[w] \in {"replace", "confirm", "confirming"} => OrderOf(w) \in Order
       /\ \A c \in todo[w] : c.posts # <<>>

\* Every variable keeps its type: quantities stay >= 0 as the CHECK
\* constraints of migrations/001_init.sql:13-14 demand, a worker in the
\* section has a complete call, and a handler has a message of its queue.
TypeOK ==
  /\ RepoTypeOK
  /\ SectionTypeOK(CallTag)
  /\ BrokerTypeOK
  /\ HandlerTypeOK
  /\ gen \in [Order -> [Product -> Nat]]
  /\ taken \subseteq Ticket

(***************************************************************************)
(* Tickets                                                                 *)
(***************************************************************************)

\* The tickets of a worker that are not deducted yet.
CallTickets(w) == IF stage[w] \in {"lock", "change"} THEN {call[w].tag} \ {NoTicket} ELSE {}
TodoTickets(w) == {c.tag : c \in todo[w]} \ {NoTicket}
Held(w) == CallTickets(w) \cup TodoTickets(w)
Pending == UNION {Held(w) : w \in Worker}

\* A confirmed reservation is in the hands of one worker and in one call of
\* it, although several deliveries of the same invoice, and invoices of the
\* same order, are handled at once (stock_repo.go:200-204).
TicketsExclusive ==
  /\ \A v, w \in Worker : v # w => Held(v) \cap Held(w) = {}
  /\ \A w \in Worker : CallTickets(w) \cap TodoTickets(w) = {}
  /\ \A w \in Worker : \A c, d \in todo[w] : c.tag = d.tag /\ c.tag # NoTicket => c = d
  /\ Pending \cap taken = {}

\* An open reservation has a ticket that was never handed out, and tickets
\* handed out belong to openings that took place.
OpenIsFresh ==
  \A o \in Order, p \in Product :
    rsv[o][p].status = "OPEN" => TicketOf(o, p) \notin Pending \cup taken
TicketsOpened == \A t \in Pending \cup taken : t[3] <= gen[t[1]][t[2]]

\* The inductive form: a reopened reservation (stock_repo.go:168-171) never
\* brings a ticket of an earlier opening back.
TicketInv == TicketsExclusive /\ OpenIsFresh /\ TicketsOpened

\* The stock of a confirmed reservation leaves at most once, whatever crashes,
\* redeliveries, expired locks and failing statements come between
\* (service.go:353-361, 389-421).
SoldAtMostOnce ==
  [][\A w \in Worker :
       stage[w] = "change" /\ stage'[w] = "post" => call[w].tag \notin taken]_vars

Promise == INSTANCE OrderTickets
  WITH state <- [o \in Order |-> [p \in Product |-> rsv[o][p].status]],
       opened <- gen, pending <- Pending, taken <- taken

\* The consumers implement the life of a reservation as OrderTickets has it:
\* no step confirms a closed one, releases a confirmed one or sells an
\* unconfirmed one.
TicketLife == Promise!Spec

(***************************************************************************)
(* Sales and their record                                                  *)
(***************************************************************************)
Sale == {"SALE_OUT"}
OpeningQty(k) == IF k \in DOMAIN Opening THEN Opening[k] ELSE 0

\* The ledger never shows a sale whose quantity has not left the balance: the
\* movement is inserted after the deduction and only if it took place.
LedgerNotAhead == \A k \in Keys : avail[k] + Moved({k}, Sale) <= OpeningQty(k)

\* Without failures the ledger accounts for every deduction but those whose
\* movement a worker is about to insert.
LedgerExact == \A k \in Keys : avail[k] + Accounted({k}, Sale) = OpeningQty(k)

Failed(m) ==
  \/ deliveries[m] > 1 \/ status[m] \in {"requeued", "dead"}
  \/ \E w \in Worker : job[w] = m /\ (pc[w] = "nack" \/ stage[w] \in {"unlockErr", "err"})

\* A confirmed reservation that is neither sold nor still to be sold was left
\* behind by a delivery that failed, or no warehouse was ever named for it.
NoSilentLoss ==
  \A o \in Order, p \in Product :
    rsv[o][p].status = "CONFIRMED" /\ TicketOf(o, p) \notin Pending \cup taken =>
      \/ \E m \in InvoiceMsg : Body[m].order = o /\ Failed(m)
      \/ rsv[o][p].wh = NoWarehouse
         /\ \E m \in InvoiceMsg : Body[m].order = o /\ Body[m].wh = NoWarehouse

\* Workers that have sold and have still to insert the movement.
Selling == Unposted(Keys, Sale)

\* One invoice consumer does not sell a line of an invoice twice, however
\* often the invoice arrives and however the order's events are mixed in: a sale
\* whose quantity has left the balance is neither in the ledger already nor made
\* by another worker (service.go:345-351).
InvoiceSoldOnce ==
  /\ ShownOnce("SALE_OUT", movements)
  /\ \A w \in Selling : ~ Shown("SALE_OUT", call[w].doc, call[w].key)
  /\ \A v, w \in Selling : call[v].doc = call[w].doc /\ call[v].key = call[w].key => v = w

\* An acknowledged order event with items was announced as stock.reserved.
AckedIsAnnounced ==
  \A m \in OrderMsg : status[m] = "acked" /\ Reserving(m) => m \in announced

\* What an order event takes of product p from the stock, in the words of the
\* comment on ExpandKitItems (domain/stock.go:221-229): the line's quantity of
\* a plain product, the customer's own list of a kit when there is one, the
\* recipe scaled by the line's quantity otherwise.
QtyIn(lines, p) ==
  SumFunction([i \in {j \in DOMAIN lines : lines[j].product = p} |-> lines[i].qty])
Consumed(item, p) ==
  CASE item.product \notin DOMAIN Kits -> QtyIn(<<item>>, p)
    [] item.product \in DOMAIN Kits /\ item.components # <<>> -> QtyIn(item.components, p)
    [] OTHER -> item.qty * QtyIn(Kits[item.product], p)
Needed(m, p) == SumFunction([i \in DOMAIN Items(m) |-> Consumed(Items(m)[i], p)])
OnlyEventOf(m) == \A n \in OrderMsg : Body[n].order = Body[m].order => n = m

\* An acknowledged order event has reserved, product by product, what its
\* lines take from the stock.
ReservesWhatIsConsumed ==
  \A m \in OrderMsg : status[m] = "acked" /\ OnlyEventOf(m) =>
    \A p \in Product : rsv[Body[m].order][p].qty = Needed(m, p)

(***************************************************************************)
(* Locks                                                                   *)
(***************************************************************************)

\* Every way out of a handler gives its lock back: a lock that a consumer holds
\* is one it is still at work under, whatever was refused, failed or ran out on
\* the way, unless a process died (service.go:204-223, 398-419, 480-506).
LocksReturned == \A n \in LockName, w \in Worker : lock[n] = w => Uses(w, n)

(***************************************************************************)
(* Progress                                                                *)
(***************************************************************************)

\* Nothing waits for a lock, so every message is settled in the end, even if the
\* locks of dead workers stay (service.go:204-206, 398-401; redis/cache.go:55).
EverythingSettles == \A m \in Msg : <>(status[m] \in {"acked", "dead"})
=============================================================================

------------------------------ MODULE Requests ------------------------------
(***************************************************************************)
(* The operations that move stock without a reservation: CreateMovement,   *)
(* TransferStock, SetBalance, ReceivePurchase and confirmInbound           *)
(* (internal/application/service.go), and DeleteProduct, which must not    *)
(* take away the product of any stock.  Those that move stock, all but     *)
(* SetBalance, change a balance through applyQtySub, the section of        *)
(* ApplyQty.                                                               *)
(*                                                                         *)
(* A worker is the goroutine that serves one request of the HTTP API, or   *)
(* the delivery of one inbound invoice; Request[w] is what it serves:      *)
(*   [op : "movement", key, qty, out]       out: TRUE for an exit          *)
(*   [op : "transfer", product, from, to, qty, ref]                        *)
(*   [op : "set", key, qty]                                                *)
(*   [op : "receive", type, doc, wh, items]                                *)
(*         type "PURCHASE_ORDER" for ReceivePurchase, "INVOICE" for        *)
(*         confirmInbound; items a sequence of [product, qty]              *)
(*   [op : "delete", product]                                              *)
(***************************************************************************)
EXTENDS ApplyQty, UnitsOfMeasure

CONSTANTS
  Request,
  InboundConsumer,  \* the workers fed by the queue of invoices, one at a time
  Catalogue,        \* the products that exist at first -> their units of measure
  InAssemblies,     \* the products assemblies name
  Opening,          \* the balances before the first request
  MaxTries,         \* bound: how often one receipt is tried
  NoTag

\* What may be asked for; a quantity is whatever the caller sends.
RequestOK(r) ==
  \/ r \in [op : {"movement"}, key : Keys, qty : Int, out : BOOLEAN]
  \/ r \in [op : {"transfer"}, product : Product, from : Warehouse, to : Warehouse,
           qty : Int, ref : DocId]
  \/ r \in [op : {"set"}, key : Keys, qty : Int]
  \/ r \in [op : {"receive"}, type : {"PURCHASE_ORDER", "INVOICE"}, doc : DocId,
           wh : MaybeWarehouse, items : Seq([product : Product, qty : Int])]
  \/ r \in [op : {"delete"}, product : Product]

ASSUME RequestsAssumption ==
  /\ \A w \in Worker : RequestOK(Request[w])
  /\ InboundConsumer \subseteq Worker
  /\ \A w \in InboundConsumer : Request[w].op = "receive"
  /\ DOMAIN Catalogue \subseteq Product
  /\ \A p \in DOMAIN Catalogue : ConversionsOK(Catalogue[p].convs)
  /\ DOMAIN Opening \subseteq Keys /\ \A k \in DOMAIN Opening : Opening[k] \in Nat
  /\ MaxTries \in Nat /\ NoDoc \notin DocId

VARIABLES
  products,   \* the products that exist
  pc,         \* worker -> where its handler is
  calls,      \* worker -> the calls of applyQtySub still to make
  tries       \* worker -> how often it was started

requestVars == <<products, pc, calls, tries>>
vars == <<repoVars, lock, sectionVars, requestVars>>

\* The checks of DeleteProduct, each a statement, and what follows each.
AfterCheck == [movements |-> "balances", balances |-> "reservations",
               reservations |-> "assemblies", assemblies |-> "delete"]
Pc == {"waiting", "start", "loop", "section", "undo", "undoing", "set", "caching",
       "delete", "ok", "failed"} \cup DOMAIN AfterCheck
At(w, label) == pc[w] = label
Jump(w, label) == pc' = [pc EXCEPT ![w] = label]
Op(w, op) == Request[w].op = op
Running(w) == pc[w] \notin {"waiting", "ok", "failed"}

Init ==
  /\ rows = DOMAIN Opening
  /\ avail = [k \in Keys |-> IF k \in DOMAIN Opening THEN Opening[k] ELSE 0]
  /\ reserved = [k \in Keys |-> 0]
  /\ rsv = [o \in Order |-> [p \in Product |-> NoReservation]]
  /\ movements = <<>>
  /\ SectionInit
  /\ products = DOMAIN Catalogue
  /\ pc = [w \in Worker |-> "waiting"]
  /\ calls = [w \in Worker |-> <<>>]
  /\ tries = [w \in Worker |-> 0]

(***************************************************************************)
(* The validations, and the calls each operation makes                     *)
(***************************************************************************)
Accepted(w) ==
  LET r == Request[w]
  IN  CASE r.op = "movement" -> r.qty > 0 /\ r.key[1] \in products
        [] r.op = "transfer" -> r.qty > 0 /\ r.from # r.to /\ r.product \in products
        [] r.op = "receive" -> /\ r.wh # NoWarehouse
                               /\ r.type = "INVOICE" => r.items # <<>>
        [] r.op \in {"set", "delete"} -> TRUE

ReceiptDoc(w) == <<Request[w].type, Request[w].doc>>

\* What toStockFromPurchase makes of the quantity of one item.
StockQty(p, qty) ==
  IF p \in DOMAIN Catalogue THEN PurchaseToStock(Catalogue[p], qty) ELSE NoConversion

Transfer(w, type, wh) ==
  LET r == Request[w]
  IN  ApplyCall(0, type, <<r.product, wh>>, r.qty, <<"TRANSFER", r.ref>>, NoTag)

Undoing(w) == Transfer(w, "TRANSFER_IN", Request[w].from)

CallsOf(w) ==
  LET r == Request[w]
  IN  CASE r.op = "movement" ->
             <<ApplyCall(0, IF r.out THEN "MANUAL_OUT" ELSE "MANUAL_IN", r.key, r.qty,
                         <<"MANUAL", NoDoc>>, NoTag)>>
        [] r.op = "transfer" ->
             <<Transfer(w, "TRANSFER_OUT", r.from), Transfer(w, "TRANSFER_IN", r.to)>>
        [] r.op = "receive" ->
             [i \in DOMAIN r.items |->
               ApplyCall(0, "PURCHASE_IN", <<r.items[i].product, r.wh>>, r.items[i].qty,
                         ReceiptDoc(w), NoTag)]
        [] r.op \in {"set", "delete"} -> <<>>

(***************************************************************************)
(* The handlers                                                            *)
(***************************************************************************)

\* A request arrives; a receipt that failed is sent, or delivered, again.
Submit(w) ==
  /\ tries[w] < MaxTries
  /\ At(w, "waiting") \/ (At(w, "failed") /\ Op(w, "receive"))
  /\ w \in InboundConsumer => \A v \in InboundConsumer : ~Running(v)
  /\ tries' = [tries EXCEPT ![w] = @ + 1]
  /\ Jump(w, "start")
  /\ UNCHANGED <<repoVars, lock, sectionVars, products, calls>>

\* Mutant of AlreadyReceived: nobody asks for movements of the document.
NeverReceived(w) == FALSE

AlreadyReceived(w) == Op(w, "receive") /\ HasMovement(ReceiptDoc(w), "PURCHASE_IN")

\* ReceivePurchase validates before it asks for movements of the document,
\* confirmInbound after it.
Refuse(w) ==
  /\ At(w, "start")
  /\ \/ "db" \in Faults
     \/ ~Accepted(w) /\ ~(AlreadyReceived(w) /\ Request[w].type = "INVOICE")
  /\ Jump(w, "failed")
  /\ UNCHANGED <<repoVars, lock, sectionVars, products, calls, tries>>

SkipReceived(w) ==
  /\ At(w, "start")
  /\ AlreadyReceived(w)
  /\ Accepted(w) \/ Request[w].type = "INVOICE"
  /\ Jump(w, "ok")
  /\ UNCHANGED <<repoVars, lock, sectionVars, products, calls, tries>>

Accept(w) ==
  /\ At(w, "start")
  /\ Accepted(w) /\ ~AlreadyReceived(w)
  /\ calls' = [calls EXCEPT ![w] = CallsOf(w)]
  /\ Jump(w, CASE Op(w, "set") -> "set"
               [] Op(w, "delete") -> "movements"
               [] OTHER -> "loop")
  /\ UNCHANGED <<repoVars, lock, sectionVars, products, tries>>

\* A receipt looks each product up and converts when the line is reached.
HasLine(w) == calls[w] # <<>> /\ Head(calls[w]).qty > 0
Converted(w) == StockQty(Head(calls[w]).key[1], Head(calls[w]).qty)
Convertible(w) == Head(calls[w]).key[1] \in products /\ Converted(w) # NoConversion

NextCall(w) ==
  /\ At(w, "loop")
  /\ HasLine(w)
  /\ IF Op(w, "receive")
     THEN Convertible(w) /\ Begin(w, [Head(calls[w]) EXCEPT !.qty = Converted(w)])
     ELSE Begin(w, Head(calls[w]))
  /\ Jump(w, "section")
  /\ UNCHANGED <<repoVars, products, calls, tries>>

\* The product of the item is gone or has no conversion to its stock unit:
\* what the loop received before stays received.
NotConverted(w) ==
  /\ At(w, "loop") /\ Op(w, "receive")
  /\ HasLine(w)
  /\ "db" \in Faults \/ ~Convertible(w)
  /\ calls' = [calls EXCEPT ![w] = <<>>]
  /\ Jump(w, "failed")
  /\ UNCHANGED <<repoVars, lock, sectionVars, products, tries>>

\* A line without a quantity is passed over.
SkipLine(w) ==
  /\ At(w, "loop")
  /\ calls[w] # <<>> /\ ~HasLine(w)
  /\ calls' = [calls EXCEPT ![w] = Tail(@)]
  /\ UNCHANGED <<repoVars, lock, sectionVars, products, pc, tries>>

LoopDone(w) ==
  /\ At(w, "loop")
  /\ calls[w] = <<>>
  /\ Jump(w, "ok")
  /\ UNCHANGED <<repoVars, lock, sectionVars, products, calls, tries>>

InSection(w) ==
  /\ pc[w] \in {"section", "undoing"}
  /\ SectionStep(w) \/ ChangeBalance(w)
  /\ UNCHANGED requestVars

SectionOk(w) ==
  /\ At(w, "section")
  /\ Return(w, "ok")
  /\ Jump(w, "loop")
  /\ calls' = [calls EXCEPT ![w] = Tail(@)]
  /\ UNCHANGED <<repoVars, products, tries>>

\* Mutant of ToUndo: the origin is credited whichever step failed.
ToUndoAlways(w) == Op(w, "transfer")

\* TransferStock credits the origin back when it was the destination that
\* failed.
ToUndo(w) == Op(w, "transfer") /\ Len(calls[w]) = 1

\* Mutant of SectionErr: the error of the origin's step is not returned.
SectionErrIgnored(w) ==
  /\ At(w, "section")
  /\ Return(w, "err")
  /\ Jump(w, IF ToUndo(w) THEN "undo" ELSE "loop")
  /\ calls' = [calls EXCEPT ![w] = Tail(@)]
  /\ UNCHANGED <<repoVars, products, tries>>

SectionErr(w) ==
  /\ At(w, "section")
  /\ Return(w, "err")
  /\ Jump(w, IF ToUndo(w) THEN "undo" ELSE "failed")
  /\ calls' = [calls EXCEPT ![w] = <<>>]
  /\ UNCHANGED <<repoVars, products, tries>>

Undo(w) ==
  /\ At(w, "undo")
  /\ Begin(w, Undoing(w))
  /\ Jump(w, "undoing")
  /\ UNCHANGED <<repoVars, products, calls, tries>>

\* The result of the credit is ignored.
UndoDone(w) ==
  /\ At(w, "undoing")
  /\ Return(w, "ok") \/ Return(w, "err")
  /\ Jump(w, "failed")
  /\ UNCHANGED <<repoVars, products, calls, tries>>

\* SetBalance: no validation and no lock, and the balance the statement returned
\* is cached.
SetBalance(w) ==
  /\ At(w, "set")
  /\ UpsertBalance(Request[w].key, Request[w].qty)
  /\ seen' = [seen EXCEPT ![w] = [avail |-> Request[w].qty,
                                  reserved |-> OpenQty(Request[w].key)]]
  /\ Jump(w, "caching")
  /\ UNCHANGED <<lock, cache, stage, call, products, calls, tries>>

\* Mutant of InUse: a product with stock but without movements is free.
InUseMoved(p, check) == check = "movements" /\ HasMovements(p)

InUse(p, check) ==
  CASE check = "movements" -> HasMovements(p)
    [] check = "balances" -> Stocked(p)
    [] check = "reservations" -> Awaited(p)
    [] check = "assemblies" -> p \in InAssemblies

CheckUse(w) ==
  /\ pc[w] \in DOMAIN AfterCheck
  /\ Jump(w, IF InUse(Request[w].product, pc[w]) THEN "failed" ELSE AfterCheck[pc[w]])
  /\ UNCHANGED <<repoVars, lock, sectionVars, products, calls, tries>>

Delete(w) ==
  /\ At(w, "delete")
  /\ products' = products \ {Request[w].product}
  /\ Jump(w, IF Request[w].product \in products THEN "ok" ELSE "failed")
  /\ UNCHANGED <<repoVars, lock, sectionVars, calls, tries>>

\* A statement of SetBalance or DeleteProduct fails; that of SetBalance does when
\* its quantity is one the table does not admit.
StatementFails(w) ==
  /\ pc[w] \in {"set", "delete"} \cup DOMAIN AfterCheck
  /\ "db" \in Faults \/ (At(w, "set") /\ ~CanUpsert(Request[w].qty))
  /\ Jump(w, "failed")
  /\ UNCHANGED <<repoVars, lock, sectionVars, products, calls, tries>>

CacheSet(w) ==
  /\ At(w, "caching")
  /\ \/ cache' = [cache EXCEPT ![Request[w].key] = seen[w]]
     \/ "db" \in Faults /\ UNCHANGED cache
  /\ seen' = [seen EXCEPT ![w] = NoEntry]
  /\ Jump(w, "ok")
  /\ UNCHANGED <<repoVars, lock, stage, call, products, calls, tries>>

Crash(w) ==
  /\ "crash" \in Faults
  /\ Running(w)
  /\ Killed(w)
  /\ calls' = [calls EXCEPT ![w] = <<>>]
  /\ Jump(w, "failed")
  /\ UNCHANGED <<repoVars, lock, cache, products, tries>>

LockExpires(n) ==
  /\ Expire(n)
  /\ "expiry" \in Faults \/ ~(Inside(lock[n]) /\ n = StockLock(call[lock[n]].key))
  /\ UNCHANGED <<repoVars, sectionVars, requestVars>>

HandlerStep(w) ==
  \/ Refuse(w) \/ SkipReceived(w) \/ Accept(w)
  \/ NextCall(w) \/ NotConverted(w) \/ SkipLine(w) \/ LoopDone(w)
  \/ InSection(w) \/ SectionOk(w) \/ SectionErr(w)
  \/ Undo(w) \/ UndoDone(w)
  \/ SetBalance(w) \/ CacheSet(w)
  \/ CheckUse(w) \/ Delete(w) \/ StatementFails(w)

Next ==
  \/ \E w \in Worker : Submit(w) \/ HandlerStep(w) \/ Crash(w)
  \/ \E n \in LockName : LockExpires(n)

Spec == Init /\ [][Next]_vars

(***************************************************************************)
(* Properties                                                              *)
(***************************************************************************)

\* The calls of the handlers, and where their workers may be.
Planned == [line : Nat, change : Change, key : Keys, qty : Int, doc : Document,
            posts : {<<type>> : type \in MovementType}, strict : BOOLEAN, tag : {NoTag}]
HandlersTypeOK ==
  /\ products \subseteq Product
  /\ pc \in [Worker -> Pc]
  /\ tries \in [Worker -> 0 .. MaxTries]
  /\ DOMAIN calls = Worker
  /\ \A w \in Worker :
       /\ calls[w] \in Seq(Planned)
       /\ At(w, "section") => calls[w] # <<>>
       /\ At(w, "undo") => Op(w, "transfer")
       /\ pc[w] \in {"loop", "section", "undo"} /\ Op(w, "transfer") => Request[w].qty > 0
       /\ pc[w] \in {"set", "caching"} => Op(w, "set")
       /\ pc[w] \notin {"section", "undoing"} => stage[w] = "idle"

\* Every variable keeps its type; in particular no balance becomes negative,
\* and a worker in the section has a complete call.
TypeOK == RepoTypeOK /\ SectionTypeOK({NoTag}) /\ HandlersTypeOK

OpeningQty(k) == IF k \in DOMAIN Opening THEN Opening[k] ELSE 0

\* While no statement fails and nobody sets a balance by hand, every balance
\* is what its movements add up to, but for those a worker is about to insert
\* (service.go:487-501).
LedgerExact ==
  \A k \in Keys :
    avail[k] + Accounted({k}, OutTypes) = OpeningQty(k) + Accounted({k}, AddTypes)

\* Between sections the cache holds the balance of the table: the lock keeps
\* the read of one request and the write of another apart
\* (service.go:481-504).
CacheFresh ==
  \A k \in Keys :
    (\A w \in Worker : Inside(w) => call[w].key # k) => cache[k] \in {NoEntry, Balance(k)}

Posted1(type, key, qty, doc) ==
  Cardinality({i \in DOMAIN movements :
                 movements[i] = [type |-> type, key |-> key, qty |-> qty, doc |-> doc]}) = 1

\* A transfer that succeeded at its first try is in the ledger as a pair of
\* movements with one reference (service.go:262-264), and a receipt that
\* succeeded at its first try, before anybody else received the document, has a
\* movement for each of its lines, whatever fails or expires.
AnsweredIsRecorded ==
  \A w \in Worker : pc[w] = "ok" /\ tries[w] = 1 =>
    LET r == Request[w]
    IN  CASE r.op = "transfer" ->
               /\ Posted1("TRANSFER_OUT", <<r.product, r.from>>, r.qty, <<"TRANSFER", r.ref>>)
               /\ Posted1("TRANSFER_IN", <<r.product, r.to>>, r.qty, <<"TRANSFER", r.ref>>)
          [] r.op = "receive" ->
               (\A v \in Worker \ {w} :
                   Op(v, "receive") /\ ReceiptDoc(v) = ReceiptDoc(w) => tries[v] = 0) =>
                 \A i \in DOMAIN r.items : r.items[i].qty > 0 =>
                   Posted1("PURCHASE_IN", <<r.items[i].product, r.wh>>,
                           StockQty(r.items[i].product, r.items[i].qty), ReceiptDoc(w))
          [] OTHER -> TRUE

\* Workers that have added what they received and have still to insert the
\* movement.
Receiving == Unposted(Keys, {"PURCHASE_IN"})

\* The ledger shows a line of a document once, and none that a worker is about to
\* insert, however often the document arrives and whatever fails in between
\* (service.go:296-302, 319-325).  Of the balance it says nothing when a step
\* fails between the addition and the insert: that is ReceivedOnce.
ReceiptRecordedOnce ==
  /\ ShownOnce("PURCHASE_IN", movements)
  /\ \A w \in Receiving : ~Shown("PURCHASE_IN", call[w].doc, call[w].key)
  /\ \A v, w \in Receiving : call[v].doc = call[w].doc /\ call[v].key = call[w].key => v = w

\* What a receipt brings to a balance, and what the document it is for does.
Converting(w, k) ==
  LET r == Request[w]
  IN  {i \in DOMAIN r.items : /\ <<r.items[i].product, r.wh>> = k /\ r.items[i].qty > 0
                              /\ StockQty(k[1], r.items[i].qty) # NoConversion}
Brings(w, k) ==
  SumFunction([i \in Converting(w, k) |-> StockQty(k[1], Request[w].items[i].qty)])
Receivers == {w \in Worker : Op(w, "receive")}
DocumentBrings(doc, k) == Max({Brings(w, k) : w \in {v \in Receivers : ReceiptDoc(v) = doc}})

\* The balance holds what a document brings once, however often it arrives, where
\* stock comes from receipts alone (service_test.go:262-276).
ReceivedOnce ==
  Worker = Receivers =>
    \A k \in Keys :
      avail[k] <= OpeningQty(k) + SumFunction([doc \in {ReceiptDoc(w) : w \in Receivers} |->
                                                DocumentBrings(doc, k)])

\* The stock of a product over all warehouses comes from receipts and entries:
\* transfers, exits and deletions never add to it, while no statement fails and
\* nobody sets a balance by hand (service.go:262-287).
EntryTypes == {"PURCHASE_IN", "MANUAL_IN"}
KeysOf(p) == {p} \X Warehouse
TotalStock(p) == SumFunction([k \in KeysOf(p) |-> avail[k]])
TotalOpening(p) == SumFunction([k \in KeysOf(p) |-> OpeningQty(k)])
TransfersCreateNothing ==
  \A p \in Product :
    TotalStock(p) <= TotalOpening(p) + Accounted(KeysOf(p), EntryTypes)

\* Stock is never left without its product, but for stock that a movement
\* brought in after DeleteProduct had found no movement: the product of a
\* balance nobody has touched stays (service.go:140-155).
BroughtIn(k) == Entries({k}, AddTypes) \cup Unposted({k}, AddTypes) # {}
StockHasProduct ==
  \A k \in Keys : avail[k] > 0 /\ k[1] \in DOMAIN Catalogue \ products => BroughtIn(k)

\* When all transfers have been answered the stock is where it was or where it
\* was sent: "if the destination step fails, the origin is credited back"
\* (service.go:262-264).
TransfersConserve ==
  (\A w \in Worker : pc[w] \in {"ok", "failed"}) =>
    \A p \in Product : TotalStock(p) = TotalOpening(p)
=============================================================================

----------------------------- MODULE SalesProofs -----------------------------
(***************************************************************************)
(* The consumers of Sales, for any messages, workers, kits, faults and     *)
(* opening stock: types, what the handlers keep about their messages, the  *)
(* ledger of the sales, that one consumer sells a line of an invoice once, *)
(* that the stock of a confirmed reservation leaves at most once, that the *)
(* consumers implement the life of a reservation as OrderTickets has it,   *)
(* that a reservation is lost only by a delivery that fails, and that what *)
(* an order event books is what its lines consume, kits expanded.          *)
(***************************************************************************)
EXTENDS SalesProperties, ApplyQtyProofs

(***************************************************************************)
(* Type correctness                                                        *)
(***************************************************************************)
\* The tables, the broker and the handlers start well typed.
LEMMA InitTypeOK == Init => TypeOK
  <1> SUFFICES ASSUME Init PROVE TypeOK
    OBVIOUS
  <1>1. RepoTypeOK
    BY SalesAssumption DEF Init, RepoTypeOK, Reservation, NoReservation, Status,
                           MaybeWarehouse
  <1>2. SectionTypeOK(CallTag)
    BY DEF Init, SectionInit, SectionTypeOK, LockInit, LockTypeOK, Stage
  <1>3. BrokerTypeOK
    BY DEF Init, BrokerTypeOK
  <1>4. HandlerTypeOK
    BY DEF Init, SectionInit, HandlerTypeOK, PcOf, Pc, OrderPc, InvoicePc
  <1> QED
    BY <1>1, <1>2, <1>3, <1>4 DEF Init, TypeOK

\* What the events hold.
LEMMA BodyType ==
  ASSUME HandlerTypeOK, NEW w \in Worker, pc[w] # "idle"
  PROVE  /\ job[w] \in Msg /\ Lines(job[w]) \in Seq(Line)
         /\ OrderOf(w) \in Order \cup {NoDoc}
         /\ Body[job[w]].wh \in MaybeWarehouse
         /\ ReserveLock(w) \in LockName
         /\ w \in InvoiceWorker => InvoiceDoc(w) \in Document
  <1>1. job[w] \in Msg /\ (w \in InvoiceWorker => job[w] \in InvoiceMsg)
    BY SalesAssumption DEF HandlerTypeOK, MsgOf, Msg
  <1>2. OrderOf(w) \in DocId \cup {NoDoc}
    BY <1>1, SalesAssumption, RepoAssumption DEF OrderOf
  <1> QED
    BY <1>1, <1>2, SalesAssumption
       DEF OrderOf, ReserveLock, LockName, InvoiceDoc, Document, DocType

\* The types depend on the variables only.
LEMMA Untouched ==
  /\ RepoTypeOK /\ UNCHANGED repoVars => RepoTypeOK'
  /\ SectionTypeOK(CallTag) /\ UNCHANGED <<lock, sectionVars>> => SectionTypeOK(CallTag)'
  /\ SectionTypeOK(CallTag) /\ UNCHANGED sectionVars /\ LockTypeOK' => SectionTypeOK(CallTag)'
  /\ BrokerTypeOK /\ UNCHANGED <<brokerVars, announced>> => BrokerTypeOK'
  BY DEF RepoTypeOK, repoVars, SectionTypeOK, sectionVars, LockTypeOK, BrokerTypeOK, brokerVars

\* A handler moves on to label.
LEMMA HandlerMoves ==
  ASSUME HandlerTypeOK, NEW w \in Worker, pc[w] # "idle",
         NEW label \in PcOf(w) \ {"idle"}, Jump(w, label), UNCHANGED job,
         todo' \in [Worker -> SUBSET Call(CallTag)],
         \A c \in todo'[w] : c.posts # <<>>,
         \A v \in Worker \ {w} : todo'[v] = todo[v],
         touched' \in [Worker -> SUBSET Product],
         \A v \in Worker \ {w} : stage'[v] = stage[v],
         label # "section" => stage'[w] = "idle",
         label \in {"replace", "confirm", "confirming"} => OrderOf(w) \in Order
  PROVE  HandlerTypeOK'
  <1>1. label \in Pc
    BY DEF PcOf
  <1>2. pc' = [pc EXCEPT ![w] = label] /\ pc'[w] = label /\ pc' \in [Worker -> Pc]
    BY <1>1 DEF Jump, HandlerTypeOK
  <1>3. \A v \in Worker : OrderOf(v)' = OrderOf(v)
    BY DEF OrderOf
  <1>4. ASSUME NEW v \in Worker
        PROVE  /\ pc'[v] \in PcOf(v)
               /\ pc'[v] # "idle" => job'[v] \in MsgOf(v)
               /\ pc'[v] # "section" => stage'[v] = "idle"
               /\ pc'[v] \in {"replace", "confirm", "confirming"} => OrderOf(v)' \in Order
               /\ \A c \in todo'[v] : c.posts # <<>>
    <2>1. CASE v = w
      BY <1>2, <1>3, <2>1 DEF HandlerTypeOK
    <2>2. CASE v # w
      BY <1>2, <1>3, <2>2 DEF HandlerTypeOK
    <2> QED
      BY <2>1, <2>2
  <1> QED
    BY <1>2, <1>4 DEF HandlerTypeOK

\* A worker that ends its handler or dies is idle.
LEMMA ForgetType ==
  ASSUME HandlerTypeOK, NEW w \in Worker, Forget(w),
         \A v \in Worker \ {w} : stage'[v] = stage[v], stage'[w] = "idle"
  PROVE  HandlerTypeOK'
  BY DEF HandlerTypeOK, Forget, Jump, OrderOf, PcOf, Pc, OrderPc, InvoicePc

\* The calls of the three ways of selling are complete calls.
Complete(calls) == calls \subseteq Call(CallTag) /\ \A c \in calls : c.posts # <<>>

\* The calls of the loop of confirmReservedSale are complete (service.go:398-421).
LEMMA LoopCallType ==
  ASSUME HandlerTypeOK, NEW w \in InvoiceWorker, pc[w] # "idle", NEW line \in Nat,
         NEW change \in Change, NEW key \in Keys, NEW qty \in Nat, NEW tag \in CallTag
  PROVE  Complete({LoopCall(w, line, change, key, qty, tag)})
  <1>1. InvoiceDoc(w) \in Document
    BY BodyType, SalesAssumption
  <1>2. <<"RESERVATION_RELEASE", "SALE_OUT">> \in Seq(MovementType)
    BY DEF MovementType, OutTypes
  <1> QED
    BY <1>1, <1>2 DEF LoopCall, Call, Complete

\* Selling confirmed reservations makes complete calls (service.go:389-421).
LEMMA ReservationCallsType ==
  ASSUME RepoTypeOK, HandlerTypeOK, gen \in [Order -> [Product -> Nat]],
         NEW w \in InvoiceWorker, pc[w] = "confirming"
  PROVE  Complete(ReservationCalls(w))
  <1>1. w \in Worker /\ OrderOf(w) \in Order
    BY SalesAssumption DEF HandlerTypeOK
  <1>2. ASSUME NEW p \in Sellable(w)
        PROVE  Complete({LoopCall(w, 0, "remove", <<p, SaleWarehouse(w, p)>>,
                         rsv[OrderOf(w)][p].qty, TicketOf(OrderOf(w), p))})
    <2>1. p \in Product /\ rsv[OrderOf(w)][p] \in Reservation
      BY <1>1 DEF Sellable, ToConfirm, StillOpen, OpenProducts, RepoTypeOK
    <2>2. SaleWarehouse(w, p) \in Warehouse
      BY <1>1, <2>1, BodyType DEF Sellable, SaleWarehouse, Reservation, MaybeWarehouse
    <2>3. <<p, SaleWarehouse(w, p)>> \in Keys
      BY <2>1, <2>2 DEF Keys
    <2>4. TicketOf(OrderOf(w), p) \in CallTag
      BY <1>1, <2>1 DEF TicketOf, CallTag, Ticket
    <2>5. rsv[OrderOf(w)][p].qty \in Nat
      BY <2>1 DEF Reservation
    <2> QED
      BY <2>3, <2>4, <2>5, LoopCallType DEF Change
  <1> QED
    BY <1>2 DEF ReservationCalls, Complete

\* So does selling an order from its RESERVATION_ADD movements.
LEMMA LegacyCallsType ==
  ASSUME RepoTypeOK, HandlerTypeOK, NEW w \in InvoiceWorker, pc[w] # "idle"
  PROVE  Complete(LegacyCalls(w))
  <1> DEFINE feed == RecentMovements
  <1>1. ASSUME NEW i \in DOMAIN feed
        PROVE  Complete({LoopCall(w, i, "confirmSale", feed[i].key, feed[i].qty, NoTicket)})
    <2>1. feed[i] \in Movement /\ i \in Nat
      BY RecentMovementsType, ElementOfSeq, LenProperties
    <2>2. feed[i].key \in Keys /\ feed[i].qty \in Nat
      BY <2>1 DEF Movement
    <2> QED
      BY <2>1, <2>2, LoopCallType DEF Change, CallTag
  <1> QED
    BY <1>1 DEF LegacyCalls, Complete

\* And so does a sale without an order.
LEMMA DirectCallsType ==
  ASSUME HandlerTypeOK, NEW w \in InvoiceWorker, pc[w] # "idle",
         Body[job[w]].wh # NoWarehouse
  PROVE  Complete(DirectCalls(w))
  <1> DEFINE lines == Lines(job[w])
  <1>1. /\ lines \in Seq(Line) /\ Body[job[w]].wh \in Warehouse
        /\ InvoiceDoc(w) \in Document
    BY BodyType, SalesAssumption DEF MaybeWarehouse
  <1>2. <<"SALE_OUT">> \in Seq(MovementType)
    BY DEF MovementType, OutTypes
  <1>3. \A i \in Kept(lines) : i \in Nat /\ lines[i] \in Line
    BY <1>1, ElementOfSeq, LenProperties DEF Kept
  <1>4. ASSUME NEW c \in DirectCalls(w)
        PROVE  c \in Call(CallTag) /\ c.posts # <<>>
    <2> PICK i \in Kept(lines) :
          c = ApplyCall(i, "SALE_OUT", <<lines[i].product, Body[job[w]].wh>>, lines[i].qty,
                        InvoiceDoc(w), NoTicket)
      BY DEF DirectCalls
    <2>1. lines[i].product \in Product /\ lines[i].qty \in Nat
      BY <1>3 DEF Line
    <2>2. <<lines[i].product, Body[job[w]].wh>> \in Keys
      BY <1>1, <2>1 DEF Keys
    <2> HIDE DEF lines
    <2> QED
      BY <1>1, <1>2, <1>3, <2>1, <2>2 DEF ApplyCall, AddTypes, Call, Change, CallTag
  <1> QED
    BY <1>4 DEF Complete

\* Every step of a worker keeps the types.
LEMMA OrderStepType ==
  ASSUME TypeOK, NEW w \in OrderWorker, OrderStep(w)
  PROVE  TypeOK'
  <1> USE DEF TypeOK
  <1>1. w \in Worker /\ w \notin InvoiceWorker /\ pc[w] # "idle" /\ pc[w] # "section"
    BY SalesAssumption DEF OrderStep, LockOrder, OrderBusy, Replace, Publish, LeaveOrder, At
  <1>2. /\ stage[w] = "idle" /\ ReserveLock(w) \in LockName /\ LockTypeOK
        /\ \A c \in todo[w] : c.posts # <<>>
        /\ todo \in [Worker -> SUBSET Call(CallTag)]
        /\ touched \in [Worker -> SUBSET Product]
    BY <1>1, BodyType DEF HandlerTypeOK, SectionTypeOK
  <1>3. {"replace", "recalc", "publish", "leave", "leaveErr", "ack", "nack"}
          \subseteq PcOf(w) \ {"idle"}
    BY DEF PcOf, Pc, OrderPc, InvoicePc
  <1>4. CASE LockOrder(w)
    <2>1. LockTypeOK'
      BY <1>1, <1>2, <1>4, LockType DEF LockOrder
    <2>2. OrderOf(w) # NoDoc => OrderOf(w) \in Order
      BY <1>1, BodyType
    <2>3. HandlerTypeOK'
      BY <1>1, <1>2, <1>3, <1>4, <2>2, HandlerMoves DEF LockOrder, sectionVars
    <2> QED
      BY <1>4, <2>1, <2>3, Untouched DEF LockOrder, history
  <1>5. CASE OrderBusy(w)
    <2>1. HandlerTypeOK'
      BY <1>1, <1>2, <1>3, <1>5, HandlerMoves DEF OrderBusy, sectionVars
    <2> QED
      BY <1>5, <2>1, Untouched DEF OrderBusy, history
  <1>6. CASE Replace(w)
    <2> DEFINE o == OrderOf(w)
               lines == Lines(job[w])
    <2>1. o \in Order /\ lines \in Seq(Line) /\ Body[job[w]].wh \in MaybeWarehouse
      BY <1>1, <1>6, BodyType DEF Replace, At, HandlerTypeOK
    <2>2. RepoTypeOK'
      BY <1>6, <2>1, ReplaceReservationsType DEF Replace
    <2>3. Touched(o, lines) \subseteq Product
      <3>1. \A i \in Kept(lines) : lines[i] \in Line
        BY <2>1, ElementOfSeq, LenProperties DEF Kept
      <3> QED
        BY <3>1 DEF Touched, KeptProducts, Line
    <2>4. AfterRecalc(w) \in {"publish", "leave"}
      BY <1>1 DEF AfterRecalc
    <2>5. /\ touched' = [touched EXCEPT ![w] = Touched(o, lines)]
          /\ Jump(w, IF Touched(o, lines) = {} THEN AfterRecalc(w) ELSE "recalc")
          /\ UNCHANGED <<lock, sectionVars, brokerVars, job, todo, announced, taken>>
      BY <1>6 DEF Replace
    <2>6. HandlerTypeOK'
      BY <1>1, <1>2, <1>3, <2>3, <2>4, <2>5, HandlerMoves DEF sectionVars
    <2>7. gen' \in [Order -> [Product -> Nat]]
      BY <1>6, <2>1 DEF Replace
    <2> QED
      BY <2>2, <2>5, <2>6, <2>7, Untouched
  <1>7. CASE Publish(w)
    <2>1. job[w] \in OrderMsg
      BY <1>1 DEF HandlerTypeOK, MsgOf
    <2>2. HandlerTypeOK'
      BY <1>1, <1>2, <1>3, <1>7, HandlerMoves DEF Publish, sectionVars
    <2>3. BrokerTypeOK'
      BY <1>7, <2>1 DEF Publish, BrokerTypeOK, brokerVars
    <2> QED
      BY <1>7, <2>2, <2>3, Untouched DEF Publish, history
  <1>8. CASE LeaveOrder(w)
    <2>1. LockTypeOK'
      BY <1>1, <1>2, <1>8, LockType DEF LeaveOrder
    <2>2. HandlerTypeOK'
      BY <1>1, <1>2, <1>3, <1>8, HandlerMoves DEF LeaveOrder, sectionVars
    <2> QED
      BY <1>8, <2>1, <2>2, Untouched DEF LeaveOrder, history
  <1> QED
    BY <1>4, <1>5, <1>6, <1>7, <1>8 DEF OrderStep

\* A step that only chooses the way of selling keeps the types.
LEMMA DecideType ==
  ASSUME TypeOK, NEW w \in InvoiceWorker, pc[w] \notin {"idle", "section"},
         NEW label \in (InvoicePc \ {"confirming", "section"}) \cup {"ack"}, Decide(w, label),
         label = "confirm" => OrderOf(w) # NoDoc
  PROVE  TypeOK'
  <1>1. w \in Worker /\ w \notin OrderWorker
    BY SalesAssumption
  <1>2. /\ \A c \in todo[w] : c.posts # <<>>
        /\ todo \in [Worker -> SUBSET Call(CallTag)]
        /\ touched \in [Worker -> SUBSET Product]
        /\ stage[w] = "idle"
        /\ OrderOf(w) \in Order \cup {NoDoc}
    BY <1>1, BodyType DEF HandlerTypeOK, TypeOK
  <1>3. label \in PcOf(w) \ {"idle"}
    BY <1>1 DEF PcOf, Pc, OrderPc, InvoicePc
  <1>4. HandlerTypeOK'
    BY <1>1, <1>2, <1>3, HandlerMoves DEF Decide, sectionVars, InvoicePc, TypeOK
  <1> QED
    BY <1>4, Untouched DEF Decide, history, TypeOK

\* Every step of confirmOutbound keeps the types.
LEMMA InvoiceStepType ==
  ASSUME TypeOK, NEW w \in InvoiceWorker, InvoiceStep(w)
  PROVE  TypeOK'
  <1>1. w \in Worker /\ w \notin OrderWorker /\ pc[w] # "idle"
    BY SalesAssumption
       DEF InvoiceStep, CheckInvoice, FindOpen, PassClosed, Confirm, NothingOpen,
           CountReservations, CheckLegacy, ListLegacy, Direct, NextCall, LoopDone,
           InSection, Deduct, SectionOk, SectionErr, At
  <1>2. /\ \A c \in todo[w] : c.posts # <<>>
        /\ todo \in [Worker -> SUBSET Call(CallTag)]
        /\ touched \in [Worker -> SUBSET Product]
        /\ pc[w] # "section" => stage[w] = "idle"
        /\ OrderOf(w) \in Order \cup {NoDoc}
    BY <1>1, BodyType DEF HandlerTypeOK, TypeOK
  <1>3. InvoicePc \cup {"recalc", "ack", "nack"} \subseteq PcOf(w) \ {"idle"}
    BY <1>1 DEF PcOf, Pc, OrderPc, InvoicePc
  <1>4. CASE CheckInvoice(w)
    BY <1>1, <1>4, DecideType DEF CheckInvoice, At, InvoicePc
  <1>5. CASE CountReservations(w)
    BY <1>1, <1>5, DecideType DEF CountReservations, At, InvoicePc
  <1>6. CASE CheckLegacy(w)
    BY <1>1, <1>6, DecideType DEF CheckLegacy, At, InvoicePc
  <1>8. CASE LoopDone(w)
    BY <1>1, <1>8, DecideType DEF LoopDone, At, InvoicePc
  <1> USE DEF TypeOK
  <1>7. CASE FindOpen(w) \/ NothingOpen(w)
    <2>1. pc[w] \in {"confirm", "confirming"} /\ OrderOf(w) \in Order
      BY <1>1, <1>7 DEF FindOpen, NothingOpen, At, HandlerTypeOK
    <2>2. HandlerTypeOK'
      BY <1>1, <1>2, <1>3, <1>7, <2>1, HandlerMoves
         DEF FindOpen, NothingOpen, OpenProducts, sectionVars, InvoicePc
    <2> QED
      BY <1>7, <2>2, Untouched DEF FindOpen, NothingOpen, history
  <1>17. CASE PassClosed(w)
    <2>1. touched' \in [Worker -> SUBSET Product]
      BY <1>1, <1>2, <1>17 DEF PassClosed
    <2>2. HandlerTypeOK'
      BY <1>17, <2>1 DEF PassClosed, HandlerTypeOK, sectionVars, OrderOf
    <2> QED
      BY <1>17, <2>2, Untouched DEF PassClosed, history
  <1>9. CASE Confirm(w)
    <2>1. pc[w] = "confirming" /\ OrderOf(w) \in Order
      BY <1>1, <1>9 DEF Confirm, At, HandlerTypeOK
    <2>2. Complete(ReservationCalls(w))
      BY <2>1, ReservationCallsType
    <2>3. RepoTypeOK'
      BY <1>9, <2>1, ConfirmReservationsType DEF Confirm
    <2>4. ToConfirm(w) \subseteq Product
      BY DEF ToConfirm, StillOpen, OpenProducts
    <2>5. HandlerTypeOK'
      BY <1>1, <1>2, <1>3, <1>9, <2>1, <2>2, <2>4, HandlerMoves
         DEF Confirm, sectionVars, Complete, InvoicePc
    <2> QED
      BY <1>9, <2>3, <2>5, Untouched DEF Confirm, history
  <1>10. CASE ListLegacy(w)
    <2>1. Complete(LegacyCalls(w)) /\ pc[w] = "legacyList"
      BY <1>1, <1>10, LegacyCallsType DEF ListLegacy, At
    <2>2. HandlerTypeOK'
      BY <1>1, <1>2, <1>3, <1>10, <2>1, HandlerMoves
         DEF ListLegacy, sectionVars, Complete, InvoicePc
    <2> QED
      BY <1>10, <2>2, Untouched DEF ListLegacy, history
  <1>11. CASE Direct(w)
    <2>1. pc[w] = "direct"
      BY <1>11 DEF Direct, At
    <2>2. CASE Jump(w, "nack") /\ UNCHANGED todo
      <3>1. HandlerTypeOK'
        BY <1>1, <1>2, <1>3, <1>11, <2>1, <2>2, HandlerMoves DEF Direct, sectionVars
      <3> QED
        BY <1>11, <3>1, Untouched DEF Direct, history
    <2>3. CASE /\ Body[job[w]].wh # NoWarehouse
               /\ Jump(w, "loop") /\ todo' = [todo EXCEPT ![w] = DirectCalls(w)]
      <3>1. Complete(DirectCalls(w))
        BY <1>1, <2>3, DirectCallsType
      <3>2. HandlerTypeOK'
        BY <1>1, <1>2, <1>3, <1>11, <2>1, <2>3, <3>1, HandlerMoves
           DEF Direct, sectionVars, Complete, InvoicePc
      <3> QED
        BY <1>11, <3>2, Untouched DEF Direct, history
    <2> QED
      BY <1>11, <2>2, <2>3 DEF Direct
  <1>12. CASE NextCall(w)
    <2>1. PICK c \in todo[w] : Begin(w, c) /\ todo' = [todo EXCEPT ![w] = @ \ {c}]
      BY <1>12 DEF NextCall
    <2>2. c \in Call(CallTag) /\ c.posts # <<>>
      BY <1>1, <1>2, <2>1
    <2>3. SectionTypeOK(CallTag)'
      BY <1>1, <2>1, <2>2, BeginType
    <2>4. \A v \in Worker \ {w} : stage'[v] = stage[v]
      BY <2>1 DEF Begin, Goto, SectionTypeOK
    <2>5. HandlerTypeOK'
      BY <1>1, <1>2, <1>3, <1>12, <2>1, <2>4, HandlerMoves DEF NextCall, InvoicePc
    <2> QED
      BY <1>12, <2>3, <2>5, Untouched DEF NextCall, history
  <1>13. CASE InSection(w)
    <2>1. RepoTypeOK' /\ SectionTypeOK(CallTag)'
      BY <1>1, <1>13, SectionStepType DEF InSection
    <2>2. \A v \in Worker \ {w} : stage'[v] = stage[v]
      BY <1>1, <1>13 DEF InSection, SectionStep, LockBalance, LockRefused, ChangeRefused,
           PostMovement, PostFails, Posted, ReadBalance, CacheSkipped, CacheBalance, Unlock,
           Goto, SectionTypeOK
    <2>3. HandlerTypeOK'
      BY <1>13, <2>2 DEF InSection, At, HandlerTypeOK, handlerVars, OrderOf
    <2> QED
      BY <1>13, <2>1, <2>3, Untouched DEF InSection, history
  <1>14. CASE Deduct(w)
    <2>1. RepoTypeOK' /\ SectionTypeOK(CallTag)'
      BY <1>1, <1>14, ChangeBalanceType DEF Deduct
    <2>2. stage[w] = "change" /\ \A v \in Worker \ {w} : stage'[v] = stage[v]
      BY <1>1, <1>14 DEF Deduct, ChangeBalance, Goto, SectionTypeOK
    <2>3. HandlerTypeOK'
      BY <1>14, <2>2 DEF Deduct, At, HandlerTypeOK, handlerVars, OrderOf
    <2>4. taken' \subseteq Ticket
      BY <1>1, <1>14, <2>2 DEF Deduct, SectionTypeOK, Call, CallTag
    <2> QED
      BY <1>14, <2>1, <2>3, <2>4, Untouched DEF Deduct
  <1>15. CASE SectionOk(w)
    <2>1. SectionTypeOK(CallTag)'
      BY <1>1, <1>15, ReturnType DEF SectionOk
    <2>2. stage'[w] = "idle" /\ \A v \in Worker \ {w} : stage'[v] = stage[v]
      BY <1>1, <1>15 DEF SectionOk, Return, Goto, SectionTypeOK
    <2>3. HandlerTypeOK'
      BY <1>1, <1>2, <1>3, <1>15, <2>2, HandlerMoves DEF SectionOk, InvoicePc
    <2> QED
      BY <1>15, <2>1, <2>3, Untouched DEF SectionOk, history
  <1>16. CASE SectionErr(w)
    <2>1. SectionTypeOK(CallTag)'
      BY <1>1, <1>16, ReturnType DEF SectionErr
    <2>2. stage'[w] = "idle" /\ \A v \in Worker \ {w} : stage'[v] = stage[v]
      BY <1>1, <1>16 DEF SectionErr, Return, Goto, SectionTypeOK
    <2>3. HandlerTypeOK'
      BY <1>1, <1>2, <1>3, <1>16, <2>2, HandlerMoves DEF SectionErr
    <2> QED
      BY <1>16, <2>1, <2>3, Untouched DEF SectionErr, history
  <1> QED
    BY <1>4, <1>5, <1>6, <1>7, <1>8, <1>9, <1>10, <1>11, <1>12, <1>13, <1>14, <1>15, <1>16,
       <1>17
       DEF InvoiceStep

\* Taking a message, recalculating and failing, and the ends of a handler.
LEMMA CommonStepType ==
  ASSUME TypeOK, NEW w \in Worker,
         \/ \E m \in Msg : Take(w, m)
         \/ Recalc(w) \/ WriteReserved(w) \/ Fails(w) \/ Ack(w) \/ Nack(w) \/ Crash(w)
  PROVE  TypeOK'
  <1> USE DEF TypeOK
  <1>1. /\ todo \in [Worker -> SUBSET Call(CallTag)]
        /\ touched \in [Worker -> SUBSET Product]
        /\ \A c \in todo[w] : c.posts # <<>>
        /\ pc[w] # "section" => stage[w] = "idle"
        /\ \A v \in Worker \ {w} : todo[v] \in SUBSET Call(CallTag)
    BY DEF HandlerTypeOK
  <1>2. CASE \E m \in Msg : Take(w, m)
    <2> PICK m \in Msg : Take(w, m)
      BY <1>2
    <2>1. m \in MsgOf(w)
      BY SalesAssumption DEF Take, MsgOf, Msg
    <2>2. BrokerTypeOK'
      BY DEF Take, BrokerTypeOK
    <2>3. HandlerTypeOK'
      <3> DEFINE label == IF m \in OrderMsg THEN "reserve" ELSE "invoice"
      <3>1. /\ pc' = [pc EXCEPT ![w] = label] /\ job' = [job EXCEPT ![w] = m]
            /\ UNCHANGED <<todo, touched, stage>> /\ pc[w] = "idle" /\ stage[w] = "idle"
        BY <1>1 DEF Take, Jump, At, sectionVars
      <3>2. /\ label \in PcOf(w) \ {"idle", "section", "replace", "confirm"}
            /\ PcOf(w) \subseteq Pc /\ m \in Msg
        BY <2>1, SalesAssumption DEF MsgOf, Msg, PcOf, Pc, OrderPc, InvoicePc
      <3> HIDE DEF label
      <3>3. pc' \in [Worker -> Pc] /\ job' \in [Worker -> Msg \cup {NoMsg}]
        BY <3>1, <3>2 DEF HandlerTypeOK
      <3>4. ASSUME NEW v \in Worker
            PROVE  /\ pc'[v] \in PcOf(v) /\ (pc'[v] # "idle" => job'[v] \in MsgOf(v))
                   /\ (pc'[v] # "section" => stage'[v] = "idle")
                   /\ (pc'[v] \in {"replace", "confirm", "confirming"}
                         => Body[job'[v]].order \in Order)
                   /\ \A c \in todo'[v] : c.posts # <<>>
        <4>1. CASE v = w
          <5>1. pc'[v] = label /\ job'[v] = m
            BY <3>1, <4>1 DEF HandlerTypeOK
          <5>2. label \notin {"idle", "section", "replace", "confirm", "confirming"}
            BY DEF label
          <5> QED
            BY <2>1, <3>1, <3>2, <4>1, <5>1, <5>2 DEF HandlerTypeOK
        <4>2. CASE v # w
          <5>1. pc'[v] = pc[v] /\ job'[v] = job[v]
            BY <3>1, <4>2 DEF HandlerTypeOK
          <5> QED
            BY <3>1, <5>1 DEF HandlerTypeOK, OrderOf
        <4> QED
          BY <4>1, <4>2
      <3> QED
        BY <3>1, <3>3, <3>4 DEF HandlerTypeOK, OrderOf, PcOf, MsgOf
    <2> QED
      BY <2>2, <2>3, Untouched DEF Take, history
  <1>3. CASE Recalc(w)
    <2>1. "write" \in PcOf(w) \ {"idle"} /\ pc[w] = "recalc"
      BY <1>3 DEF PcOf, Pc, OrderPc, InvoicePc, Recalc, At
    <2>2. HandlerTypeOK'
      BY <1>1, <1>3, <2>1, HandlerMoves DEF Recalc, sectionVars
    <2> QED
      BY <1>3, <2>2, Untouched DEF Recalc, history
  <1>4. CASE WriteReserved(w)
    <2>1. AfterRecalc(w) \in PcOf(w) \ {"idle", "section", "replace", "confirm", "confirming"}
      BY SalesAssumption DEF PcOf, Pc, OrderPc, InvoicePc, AfterRecalc
    <2>2. RepoTypeOK'
      BY <1>4, RecalcWriteType DEF WriteReserved
    <2>3. HandlerTypeOK'
      BY <1>1, <1>4, <2>1, HandlerMoves DEF WriteReserved, At, sectionVars
    <2> QED
      BY <1>4, <2>2, <2>3, Untouched DEF WriteReserved, history
  <1>5. CASE Fails(w)
    <2> DEFINE label == IF w \in OrderWorker THEN "leaveErr" ELSE "nack"
    <2>1. label \in PcOf(w) \ {"idle", "section", "replace", "confirm", "confirming"}
      BY DEF PcOf, Pc, OrderPc, InvoicePc
    <2>2. pc[w] # "idle" /\ pc[w] # "section" /\ Jump(w, label)
      BY <1>5 DEF Fails
    <2>3. /\ todo' \in [Worker -> SUBSET Call(CallTag)] /\ todo'[w] = {}
          /\ touched' \in [Worker -> SUBSET Product]
          /\ \A v \in Worker \ {w} : todo'[v] = todo[v]
      BY <1>1, <1>5 DEF Fails
    <2> HIDE DEF label
    <2>4. HandlerTypeOK'
      BY <1>1, <1>5, <2>1, <2>2, <2>3, HandlerMoves DEF Fails, sectionVars
    <2> QED
      BY <1>5, <2>4, Untouched DEF Fails, history
  <1>6. CASE Ack(w) \/ Nack(w)
    <2>1. PICK s \in {"acked", "dead", "requeued"} : Settle(w, s) /\ pc[w] # "section"
      BY <1>6 DEF Ack, Nack, At
    <2>2. HandlerTypeOK'
      BY <1>1, <2>1, ForgetType DEF Settle, sectionVars
    <2>3. BrokerTypeOK'
      BY <2>1 DEF Settle, BrokerTypeOK
    <2> QED
      BY <2>1, <2>2, <2>3, Untouched DEF Settle, history
  <1>7. CASE Crash(w)
    <2>1. SectionTypeOK(CallTag)'
      BY <1>7, KilledType DEF Crash
    <2>2. stage'[w] = "idle" /\ \A v \in Worker \ {w} : stage'[v] = stage[v]
      BY <1>7 DEF Crash, Killed, Goto, SectionTypeOK
    <2>3. HandlerTypeOK'
      BY <1>7, <2>2, ForgetType DEF Crash
    <2>4. BrokerTypeOK'
      BY <1>7 DEF Crash, BrokerTypeOK
    <2> QED
      BY <1>7, <2>1, <2>3, <2>4, Untouched DEF Crash, history
  <1> QED
    BY <1>2, <1>3, <1>4, <1>5, <1>6, <1>7

\* A lock that runs out leaves everything else alone.
LEMMA TtlType ==
  ASSUME TypeOK, NEW n \in LockName, TtlRunsOut(n)
  PROVE  TypeOK'
  <1> USE DEF TypeOK
  <1>1. LockTypeOK'
    BY DEF TtlRunsOut, LockExpires, Expire, SectionTypeOK, LockTypeOK
  <1>2. HandlerTypeOK'
    BY DEF TtlRunsOut, LockExpires, HandlerTypeOK, handlerVars, sectionVars, OrderOf
  <1> QED
    BY <1>1, <1>2, Untouched DEF TtlRunsOut, LockExpires, history

\* An order step is made by an order consumer only, an invoice step by an
\* invoice consumer only.
LEMMA WhoSteps ==
  ASSUME HandlerTypeOK, NEW w \in Worker
  PROVE  /\ OrderStep(w) => w \in OrderWorker
         /\ InvoiceStep(w) => w \in InvoiceWorker
  <1>1. CASE w \in OrderWorker
    <2>1. pc[w] \notin InvoicePc
      BY <1>1 DEF HandlerTypeOK, PcOf
    <2> QED
      BY <1>1, <2>1
         DEF InvoiceStep, CheckInvoice, FindOpen, PassClosed, Confirm, NothingOpen,
             CountReservations, CheckLegacy, ListLegacy, Direct, NextCall, LoopDone,
             InSection, Deduct, SectionOk,
             SectionErr, At, InvoicePc
  <1>2. CASE w \notin OrderWorker
    <2>1. pc[w] \notin OrderPc /\ w \in InvoiceWorker
      BY <1>2, SalesAssumption DEF HandlerTypeOK, PcOf
    <2> QED
      BY <1>2, <2>1
         DEF OrderStep, LockOrder, OrderBusy, Replace, Publish, LeaveOrder, At, OrderPc
  <1> QED
    BY <1>1, <1>2

\* No step of the system breaks a type.
LEMMA TypeStep == TypeOK /\ [Next]_vars => TypeOK'
  <1> SUFFICES ASSUME TypeOK, [Next]_vars PROVE TypeOK'
    OBVIOUS
  <1>1. CASE UNCHANGED vars
    <2>1. HandlerTypeOK'
      BY <1>1 DEF TypeOK, vars, handlerVars, sectionVars, HandlerTypeOK, OrderOf
    <2> QED
      BY <1>1, <2>1, Untouched DEF TypeOK, vars, history
  <1>2. ASSUME NEW w \in Worker, WorkerStep(w) \/ Crash(w) PROVE TypeOK'
    <2>1. CASE OrderStep(w)
      BY <2>1, WhoSteps, OrderStepType DEF TypeOK
    <2>2. CASE InvoiceStep(w)
      BY <2>2, WhoSteps, InvoiceStepType DEF TypeOK
    <2> QED
      BY <1>2, <2>1, <2>2, CommonStepType DEF WorkerStep
  <1>3. ASSUME NEW n \in LockName, TtlRunsOut(n) PROVE TypeOK'
    BY <1>3, TtlType
  <1> QED
    BY <1>1, <1>2, <1>3 DEF Next

\* Type correctness of the consumers, whatever arrives and whatever fails.
THEOREM TypeCorrect == Spec => []TypeOK
  BY InitTypeOK, TypeStep, PTL DEF Spec

\* The rows an invoice confirms are open, and no other row changes
\* (stock_repo.go:199-204).
LEMMA ConfirmsOpen ==
  ASSUME TypeOK, NEW w \in Worker, Confirm(w)
  PROVE  /\ OrderOf(w) \in Order /\ ToConfirm(w) \subseteq OpenProducts(OrderOf(w))
         /\ \A o \in Order : \A p \in Product :
              rsv'[o][p] = IF o = OrderOf(w) /\ p \in ToConfirm(w)
                           THEN [rsv[o][p] EXCEPT !.status = "CONFIRMED"] ELSE rsv[o][p]
  <1>1. OrderOf(w) \in Order /\ rsv \in [Order -> [Product -> Reservation]]
    BY DEF TypeOK, HandlerTypeOK, RepoTypeOK, Confirm, At
  <1>2. rsv' = [rsv EXCEPT ![OrderOf(w)] =
          [p \in Product |-> IF p \in ToConfirm(w) THEN [@[p] EXCEPT !.status = "CONFIRMED"]
                             ELSE @[p]]]
    BY DEF Confirm, ConfirmReservations, ToConfirm
  <1> QED
    BY <1>1, <1>2 DEF ToConfirm, StillOpen

(***************************************************************************)
(* Handlers and their messages                                             *)
(***************************************************************************)

\* A message is in one handler at a time, and only invoice handlers between
\* the confirmation and the end of the loop have calls to make.
Busy(w) == pc[w] # "idle"
HandlerInv ==
  /\ \A w \in Worker : Busy(w) => status[job[w]] = "taken"
  /\ \A v, w \in Worker : Busy(v) /\ Busy(w) /\ job[v] = job[w] => v = w
  /\ \A m \in Msg : status[m] # "queued" => deliveries[m] > 0
  /\ \A w \in Worker : todo[w] # {} => pc[w] \in {"recalc", "write", "loop", "section"}
  /\ \A w \in OrderWorker : todo[w] = {} /\ stage[w] = "idle"

\* A step of a worker leaves the other workers where they are.
LEMMA OthersWait ==
  ASSUME TypeOK, NEW w \in Worker, WorkerStep(w) \/ Crash(w), NEW v \in Worker \ {w}
  PROVE  /\ pc'[v] = pc[v] /\ job'[v] = job[v] /\ todo'[v] = todo[v]
         /\ stage'[v] = stage[v] /\ call'[v] = call[v]
  <1>1. /\ DOMAIN pc = Worker /\ DOMAIN job = Worker /\ DOMAIN todo = Worker
        /\ DOMAIN stage = Worker /\ DOMAIN call = Worker
    BY DEF TypeOK, HandlerTypeOK, SectionTypeOK
  <1>2. CASE \/ \E m \in Msg : Take(w, m)
             \/ OrderStep(w) \/ Recalc(w) \/ WriteReserved(w) \/ Fails(w)
    BY <1>1, <1>2
       DEF OrderStep, Take, LockOrder, OrderBusy, Replace, Publish, LeaveOrder, Recalc,
           WriteReserved, Fails, Jump, sectionVars
  <1>3. CASE Ack(w) \/ Nack(w) \/ Crash(w)
    BY <1>1, <1>3 DEF Ack, Nack, Settle, Crash, Forget, Killed, Jump, Goto, sectionVars
  <1>4. CASE \/ CheckInvoice(w) \/ FindOpen(w) \/ PassClosed(w) \/ Confirm(w)
             \/ NothingOpen(w) \/ CountReservations(w)
             \/ CheckLegacy(w) \/ ListLegacy(w) \/ Direct(w) \/ LoopDone(w)
    BY <1>1, <1>4
       DEF CheckInvoice, FindOpen, PassClosed, Confirm, NothingOpen, CountReservations,
           CheckLegacy, ListLegacy, Direct, LoopDone, Decide, Jump, sectionVars
  <1>5. CASE NextCall(w) \/ SectionOk(w) \/ SectionErr(w) \/ Deduct(w)
    BY <1>1, <1>5
       DEF NextCall, SectionOk, SectionErr, Deduct, Begin, Return, ChangeBalance, Goto, Jump,
           handlerVars
  <1>6. CASE InSection(w)
    BY <1>1, <1>6
       DEF InSection, SectionStep, LockBalance, LockRefused, ChangeRefused, PostMovement,
           PostFails, Posted, ReadBalance, CacheSkipped, CacheBalance, Unlock, Goto,
           handlerVars
  <1> QED
    BY <1>2, <1>3, <1>4, <1>5, <1>6 DEF WorkerStep, InvoiceStep

\* At first every message is queued and every worker idle.
LEMMA InitHandlerInv == Init => HandlerInv
  BY SalesAssumption DEF Init, SectionInit, HandlerInv, Busy

\* A handler goes on with its message.
LEMMA HandlerGoesOn ==
  ASSUME TypeOK, HandlerInv, NEW w \in Worker, WorkerStep(w), Busy(w),
         UNCHANGED <<status, deliveries, job>>,
         todo'[w] # {} => pc'[w] \in {"recalc", "write", "loop", "section"},
         w \in OrderWorker => todo'[w] = {} /\ stage'[w] = "idle"
  PROVE  HandlerInv'
  BY OthersWait, SalesAssumption DEF HandlerInv, Busy

\* A handler ends: its message is settled or back in the queue.
LEMMA HandlerEnds ==
  ASSUME TypeOK, HandlerInv, NEW w \in Worker, Ack(w) \/ Nack(w) \/ Crash(w)
  PROVE  HandlerInv'
  <1>1. /\ pc \in [Worker -> Pc] /\ todo \in [Worker -> SUBSET Call(CallTag)]
        /\ stage \in [Worker -> Stage] /\ DOMAIN status = Msg
        /\ Busy(w) /\ job[w] \in Msg
    BY BodyType DEF TypeOK, HandlerTypeOK, BrokerTypeOK, SectionTypeOK, Ack, Nack, Crash,
                    At, Busy
  <1>2. PICK s : status' = [status EXCEPT ![job[w]] = s] /\ Forget(w) /\ deliveries' = deliveries
    BY DEF Ack, Nack, Settle, Crash
  <1>3. pc'[w] = "idle" /\ todo'[w] = {} /\ (w \in OrderWorker => stage'[w] = "idle")
    <2>1. stage'[w] = stage[w] \/ stage'[w] = "idle"
      BY <1>1 DEF Ack, Nack, Settle, Crash, Killed, Goto, sectionVars
    <2> QED
      BY <1>1, <1>2, <2>1 DEF Forget, Jump, HandlerInv
  <1>4. \A v \in Worker \ {w} : /\ pc'[v] = pc[v] /\ job'[v] = job[v] /\ todo'[v] = todo[v]
                                /\ stage'[v] = stage[v]
    BY OthersWait DEF WorkerStep
  <1>5. \A v \in Worker \ {w} : Busy(v) => job[v] # job[w] /\ status'[job[v]] = status[job[v]]
    BY <1>1, <1>2 DEF HandlerInv
  <1>6. \A m \in Msg : status'[m] # "queued" => deliveries'[m] > 0
    BY <1>1, <1>2 DEF HandlerInv
  <1> QED
    BY <1>3, <1>4, <1>5, <1>6, SalesAssumption DEF HandlerInv, Busy

\* No step breaks the relation of handlers and messages.
LEMMA HandlerStep == TypeOK /\ HandlerInv /\ [Next]_vars => HandlerInv'
  <1> SUFFICES ASSUME TypeOK, HandlerInv, [Next]_vars PROVE HandlerInv'
    OBVIOUS
  <1>1. CASE UNCHANGED vars
    BY <1>1 DEF vars, brokerVars, handlerVars, sectionVars, HandlerInv, Busy
  <1>2. ASSUME NEW n \in LockName, TtlRunsOut(n) PROVE HandlerInv'
    BY <1>2 DEF TtlRunsOut, LockExpires, brokerVars, handlerVars, sectionVars, HandlerInv, Busy
  <1>3. ASSUME NEW w \in Worker, WorkerStep(w) \/ Crash(w) PROVE HandlerInv'
    <2>1. /\ pc \in [Worker -> Pc] /\ todo \in [Worker -> SUBSET Call(CallTag)]
          /\ stage \in [Worker -> Stage]
          /\ pc[w] # "section" => stage[w] = "idle"
      BY DEF TypeOK, HandlerTypeOK, SectionTypeOK
    <2>2. OrderWorker \cap InvoiceWorker = {}
      BY SalesAssumption
    <2>3. todo[w] # {} => pc[w] \in {"recalc", "write", "loop", "section"}
      BY DEF HandlerInv
    <2>4. w \in OrderWorker => todo[w] = {} /\ stage[w] = "idle"
      BY DEF HandlerInv
    <2>5. CASE \E m \in Msg : Take(w, m)
      <3> PICK m \in Msg : Take(w, m)
        BY <2>5
      <3>1. /\ DOMAIN status = Msg /\ deliveries \in [Msg -> Nat] /\ DOMAIN job = Worker
        BY DEF TypeOK, BrokerTypeOK, HandlerTypeOK
      <3>2. /\ status' = [status EXCEPT ![m] = "taken"] /\ status[m] # "taken"
            /\ deliveries' = [deliveries EXCEPT ![m] = @ + 1]
            /\ job' = [job EXCEPT ![w] = m] /\ pc'[w] # "idle" /\ pc[w] = "idle"
            /\ UNCHANGED <<todo, stage>>
        BY <2>1 DEF Take, At, Jump, sectionVars
      <3>3. \A v \in Worker \ {w} : pc'[v] = pc[v] /\ job'[v] = job[v]
        BY <1>3, OthersWait
      <3>4. \A v \in Worker \ {w} : Busy(v) => job[v] # m /\ job[v] \in Msg
        BY <3>2, BodyType DEF HandlerInv, TypeOK, Busy
      <3>5. todo[w] = {}
        BY <2>3, <3>2
      <3>6. \A v \in Worker : Busy(v)' => status'[job'[v]] = "taken"
        BY <3>1, <3>2, <3>3, <3>4 DEF HandlerInv, Busy
      <3>7. \A u, v \in Worker : Busy(u)' /\ Busy(v)' /\ job'[u] = job'[v] => u = v
        BY <3>1, <3>2, <3>3, <3>4 DEF HandlerInv, Busy
      <3>8. \A n \in Msg : status'[n] # "queued" => deliveries'[n] > 0
        BY <3>1, <3>2 DEF HandlerInv
      <3>9. \A v \in Worker : todo'[v] # {} => pc'[v] \in {"recalc", "write", "loop", "section"}
        BY <3>2, <3>3, <3>5 DEF HandlerInv
      <3> QED
        BY <3>2, <3>6, <3>7, <3>8, <3>9 DEF HandlerInv
    <2>6. CASE OrderStep(w)
      <3>1. w \in OrderWorker
        BY <2>6, WhoSteps DEF TypeOK
      <3> QED
        BY <2>1, <2>4, <2>6, <3>1, HandlerGoesOn
           DEF WorkerStep, OrderStep, LockOrder, OrderBusy, Replace, Publish, LeaveOrder, At,
               Busy, brokerVars, sectionVars
    <2>7. CASE InvoiceStep(w)
      <3>1. w \notin OrderWorker
        BY <2>2, <2>7, WhoSteps DEF TypeOK
      <3>2. WorkerStep(w)
        BY <2>7 DEF WorkerStep
      <3>3. CASE \/ CheckInvoice(w) \/ FindOpen(w) \/ PassClosed(w) \/ NothingOpen(w)
                 \/ CountReservations(w)
                 \/ CheckLegacy(w) \/ LoopDone(w)
        BY <2>1, <2>3, <3>1, <3>2, <3>3, HandlerGoesOn
           DEF CheckInvoice, FindOpen, PassClosed, NothingOpen, CountReservations,
               CheckLegacy, LoopDone, Decide,
               At, Busy, brokerVars
      <3>4. CASE Confirm(w) \/ ListLegacy(w) \/ Direct(w)
        BY <2>1, <2>3, <3>1, <3>2, <3>4, HandlerGoesOn
           DEF Confirm, ListLegacy, Direct, At, Busy, Jump, brokerVars
      <3>5. CASE NextCall(w) \/ SectionOk(w) \/ SectionErr(w)
        BY <2>1, <2>3, <3>1, <3>2, <3>5, HandlerGoesOn
           DEF NextCall, SectionOk, SectionErr, At, Busy, Jump, brokerVars
      <3>6. CASE InSection(w) \/ Deduct(w)
        BY <2>1, <3>1, <3>2, <3>6, HandlerGoesOn
           DEF InSection, Deduct, At, Busy, brokerVars, handlerVars
      <3> QED
        BY <2>7, <3>3, <3>4, <3>5, <3>6 DEF InvoiceStep
    <2>8. CASE Recalc(w) \/ WriteReserved(w)
      <3>1. AfterRecalc(w) = "loop" \/ todo[w] = {}
        BY <2>4, SalesAssumption DEF AfterRecalc
      <3> QED
        BY <2>1, <2>3, <2>4, <2>8, <3>1, HandlerGoesOn
           DEF WorkerStep, Recalc, WriteReserved, At, Busy, Jump, brokerVars, sectionVars
    <2>9. CASE Fails(w)
      BY <2>1, <2>4, <2>9, HandlerGoesOn DEF WorkerStep, Fails, Busy, brokerVars, sectionVars
    <2>10. CASE Ack(w) \/ Nack(w) \/ Crash(w)
      BY <2>10, HandlerEnds
    <2> QED
      BY <1>3, <2>5, <2>6, <2>7, <2>8, <2>9, <2>10 DEF WorkerStep
  <1> QED
    BY <1>1, <1>2, <1>3 DEF Next

(***************************************************************************)
(* Announcements                                                           *)
(***************************************************************************)

\* ReserveOrder returns without an error only after it has published the
\* event, unless the order has no items (service.go:203-223).
AnnouncedInv ==
  /\ AckedIsAnnounced
  /\ \A w \in OrderWorker :
       pc[w] \in {"leave", "ack"} /\ Reserving(job[w]) => job[w] \in announced

\* At first nothing is acknowledged and no worker is at an end.
LEMMA InitAnnounced == Init => AnnouncedInv
  BY SalesAssumption DEF Init, AnnouncedInv, AckedIsAnnounced, Msg

\* A step that acknowledges nothing and takes the worker to no good end but
\* with the event published.
LEMMA AnnouncedGoesOn ==
  ASSUME TypeOK, AnnouncedInv, NEW w \in Worker, WorkerStep(w) \/ Crash(w),
         announced \subseteq announced',
         \A m \in OrderMsg : status'[m] = "acked" => status[m] = "acked" \/ m \in announced
                                                     \/ ~Reserving(m),
         w \in OrderWorker /\ pc'[w] \in {"leave", "ack"} /\ Reserving(job'[w])
           => job'[w] \in announced'
  PROVE  AnnouncedInv'
  <1>1. AckedIsAnnounced'
    BY DEF AnnouncedInv, AckedIsAnnounced, Reserving
  <1>2. \A v \in OrderWorker \ {w} : pc'[v] = pc[v] /\ job'[v] = job[v]
    BY OthersWait, SalesAssumption
  <1> QED
    BY <1>1, <1>2 DEF AnnouncedInv, Reserving

\* No step acknowledges an event with items unannounced.
LEMMA AnnouncedStep == TypeOK /\ AnnouncedInv /\ [Next]_vars => AnnouncedInv'
  <1> SUFFICES ASSUME TypeOK, AnnouncedInv, [Next]_vars PROVE AnnouncedInv'
    OBVIOUS
  <1>1. CASE UNCHANGED vars
    BY <1>1 DEF vars, brokerVars, handlerVars, AnnouncedInv, AckedIsAnnounced, Reserving
  <1>2. ASSUME NEW n \in LockName, TtlRunsOut(n) PROVE AnnouncedInv'
    BY <1>2 DEF TtlRunsOut, LockExpires, brokerVars, handlerVars, AnnouncedInv,
                AckedIsAnnounced, Reserving
  <1>3. ASSUME NEW w \in Worker, WorkerStep(w) \/ Crash(w) PROVE AnnouncedInv'
    <2>1. /\ pc \in [Worker -> Pc] /\ DOMAIN status = Msg
          /\ w \in OrderWorker => pc[w] \notin InvoicePc
          /\ Busy(w) => job[w] \in Msg
          /\ w \in OrderWorker /\ pc[w] \in {"leave", "ack"} /\ Reserving(job[w])
               => job[w] \in announced
      BY BodyType DEF TypeOK, HandlerTypeOK, BrokerTypeOK, PcOf, AnnouncedInv, Busy
    <2>2. CASE Publish(w)
      BY <1>3, <2>1, <2>2, AnnouncedGoesOn DEF Publish, Jump, brokerVars
    <2>3. CASE Recalc(w) \/ WriteReserved(w) \/ Replace(w)
      BY <1>3, <2>1, <2>3, AnnouncedGoesOn, SalesAssumption
         DEF Recalc, WriteReserved, Replace, AfterRecalc, Jump, brokerVars
    <2>4. CASE LockOrder(w) \/ OrderBusy(w) \/ LeaveOrder(w) \/ Fails(w)
      BY <1>3, <2>1, <2>4, AnnouncedGoesOn
         DEF LockOrder, OrderBusy, LeaveOrder, Fails, At, Jump, brokerVars
    <2>5. CASE InvoiceStep(w)
      <3>1. w \notin OrderWorker
        BY <2>5, WhoSteps, SalesAssumption DEF TypeOK
      <3>2. UNCHANGED <<status, announced>>
        BY <2>5 DEF InvoiceStep, CheckInvoice, FindOpen, PassClosed, Confirm, NothingOpen,
                    CountReservations, CheckLegacy, ListLegacy, Direct, NextCall, LoopDone,
                    InSection, Deduct,
             SectionOk, SectionErr, Decide, brokerVars
      <3> QED
        BY <1>3, <3>1, <3>2, AnnouncedGoesOn
    <2>6. CASE \E m \in Msg : Take(w, m)
      BY <1>3, <2>1, <2>6, AnnouncedGoesOn DEF Take, Jump
    <2>7. CASE Ack(w)
      <3>1. job[w] \in OrderMsg => w \in OrderWorker
        BY <2>7, SalesAssumption DEF TypeOK, HandlerTypeOK, MsgOf, Ack, At
      <3> QED
        BY <1>3, <2>1, <2>7, <3>1, AnnouncedGoesOn DEF Ack, At, Settle, Forget, Jump, Busy
    <2>8. CASE Nack(w) \/ Crash(w)
      <3>1. \A m \in OrderMsg : status'[m] = "acked" => status[m] = "acked"
        BY <2>1, <2>8, SalesAssumption DEF Nack, Settle, Crash, Msg
      <3> QED
        BY <1>3, <2>1, <2>8, <3>1, AnnouncedGoesOn DEF Nack, Settle, Crash, Forget, Jump
    <2> QED
      BY <1>3, <2>2, <2>3, <2>4, <2>5, <2>6, <2>7, <2>8 DEF WorkerStep, OrderStep
  <1> QED
    BY <1>1, <1>2, <1>3 DEF Next

\* An acknowledged order event with items was announced as stock.reserved,
\* whatever failed before (consumer.go:39-48, service.go:203-223).
THEOREM Announced == Spec => []AckedIsAnnounced
  <1>1. AnnouncedInv => AckedIsAnnounced
    BY DEF AnnouncedInv
  <1> QED
    BY <1>1, InitTypeOK, TypeStep, InitAnnounced, AnnouncedStep, PTL DEF Spec

(***************************************************************************)
(* The ledger of the sales                                                 *)
(***************************************************************************)

\* Every call of a consumer lowers a balance and inserts one SALE_OUT, as the
\* last of its movements.
SaleCall(c) == /\ c.change \in {"remove", "confirmSale"}
               /\ c.posts \in {<<"RESERVATION_RELEASE", "SALE_OUT">>, <<"SALE_OUT">>}
CallsSell ==
  \A w \in Worker :
    /\ \A c \in todo[w] : SaleCall(c)
    /\ stage[w] \in {"lock", "change", "post"} => SaleCall(call[w])

\* At first nothing is to be sold.
LEMMA InitSells == Init => CallsSell
  BY DEF Init, SectionInit, CallsSell

\* A step of worker w keeps the calls sales if its own are.
LEMMA SellsMove ==
  ASSUME TypeOK, CallsSell, NEW w \in Worker,
         \A v \in Worker \ {w} : todo'[v] = todo[v] /\ stage'[v] = stage[v]
                                 /\ call'[v] = call[v],
         \A c \in todo'[w] : SaleCall(c),
         stage'[w] \in {"lock", "change", "post"} => SaleCall(call'[w])
  PROVE  CallsSell'
  <1>1. ASSUME NEW v \in Worker
        PROVE  /\ \A c \in todo'[v] : SaleCall(c)
               /\ stage'[v] \in {"lock", "change", "post"} => SaleCall(call'[v])
    <2>1. CASE v = w
      BY <2>1
    <2>2. CASE v # w
      BY <2>2 DEF CallsSell
    <2> QED
      BY <2>1, <2>2
  <1> QED
    BY <1>1 DEF CallsSell, SaleCall

\* The calls of the three ways of selling (service.go:389-455, 371-387) are
\* sales.
LEMMA AllSales ==
  ASSUME NEW w \in Worker
  PROVE  /\ \A c \in ReservationCalls(w) : SaleCall(c)
         /\ \A c \in LegacyCalls(w) : SaleCall(c)
         /\ \A c \in DirectCalls(w) : SaleCall(c)
  <1>1. \A line, key, qty, tag :
          /\ SaleCall(LoopCall(w, line, "remove", key, qty, tag))
          /\ SaleCall(LoopCall(w, line, "confirmSale", key, qty, tag))
    BY DEF LoopCall, SaleCall
  <1>2. \A line, key, qty, doc, tag : SaleCall(ApplyCall(line, "SALE_OUT", key, qty, doc, tag))
    BY DEF ApplyCall, SaleCall, AddTypes
  <1> QED
    BY <1>1, <1>2 DEF ReservationCalls, LegacyCalls, DirectCalls

\* The movements of a sale that are still to come: what counts them as leaving
\* stock counts them once.
LEMMA SalePosts ==
  ASSUME NEW c, SaleCall(c), NEW types, "RESERVATION_RELEASE" \notin types
  PROVE  /\ Range(c.posts) \cap types = Sale \cap types
         /\ Head(c.posts) \in types => Range(Tail(c.posts)) \cap types = {}
         /\ Len(c.posts) # 1 => Tail(c.posts) = <<"SALE_OUT">>
  <1>1. CASE c.posts = <<"RESERVATION_RELEASE", "SALE_OUT">>
    <2>1. /\ c.posts[1] = "RESERVATION_RELEASE" /\ c.posts[2] = "SALE_OUT"
          /\ DOMAIN c.posts = 1 .. 2
      BY <1>1
    <2>2. Range(c.posts) = {"RESERVATION_RELEASE", "SALE_OUT"}
      BY <2>1 DEF Range
    <2> QED
      BY <1>1, <2>2 DEF Sale
  <1>2. CASE c.posts = <<"SALE_OUT">>
    <2>1. /\ Range(<<"SALE_OUT">>) = {"SALE_OUT"} /\ Range(<<>>) = {}
          /\ Tail(<<"SALE_OUT">>) = <<>> /\ Len(<<"SALE_OUT">>) = 1
      BY DEF Range
    <2> QED
      BY <1>2, <2>1 DEF Sale
  <1> QED
    BY <1>1, <1>2 DEF SaleCall

\* Inside the section a call stays a sale until its last movement.
LEMMA SectionSells ==
  ASSUME TypeOK, CallsSell, NEW w \in Worker, SectionStep(w) \/ ChangeBalance(w)
  PROVE  stage'[w] \in {"lock", "change", "post"} => SaleCall(call'[w])
  <1>1. /\ stage \in [Worker -> Stage] /\ DOMAIN call = Worker
        /\ stage[w] \in {"lock", "change", "post"} =>
             SaleCall(call[w]) /\ call[w] \in Call(CallTag)
    BY DEF TypeOK, SectionTypeOK, CallsSell
  <1>2. CASE PostMovement(w) \/ PostFails(w)
    <2>1. stage[w] = "post" /\ SaleCall(call[w]) /\ call[w] \in Call(CallTag)
      BY <1>1, <1>2 DEF PostMovement, PostFails
    <2>2. CASE Posted(w)
      <3>1. stage'[w] = "post" => Len(call[w].posts) # 1
        BY <1>1, <2>2 DEF Posted, Goto
      <3>2. call'[w].posts = Tail(call[w].posts) /\ call'[w].change = call[w].change
        BY <1>1, <2>1, <2>2 DEF Posted, Call
      <3>3. stage'[w] \in {"read", "post"}
        BY <1>1, <2>2 DEF Posted, Goto
      <3>4. Len(call[w].posts) # 1 => Tail(call[w].posts) = <<"SALE_OUT">>
        BY <2>1, SalePosts DEF Sale
      <3> QED
        BY <2>1, <3>1, <3>2, <3>3, <3>4 DEF SaleCall
    <2>3. CASE ~ Posted(w)
      BY <1>1, <1>2, <2>3 DEF PostMovement, PostFails, Goto
    <2> QED
      BY <2>2, <2>3
  <1>3. CASE ChangeBalance(w) \/ (SectionStep(w) /\ ~ (PostMovement(w) \/ PostFails(w)))
    <2>1. stage'[w] \in {"lock", "change", "post"} =>
            stage[w] \in {"lock", "change", "post"} /\ call' = call
      BY <1>1, <1>3
         DEF SectionStep, LockBalance, LockRefused, ChangeRefused, ReadBalance, CacheSkipped,
             CacheBalance, Unlock, ChangeBalance, Goto
    <2> QED
      BY <1>1, <2>1
  <1> QED
    BY <1>2, <1>3

\* A step that neither adds calls nor enters the section.
LEMMA SellsStay ==
  ASSUME TypeOK, CallsSell, NEW w \in Worker, UNCHANGED <<stage, call>>,
         \A v \in Worker : todo'[v] \subseteq todo[v]
  PROVE  CallsSell'
  BY DEF CallsSell, SaleCall

\* No step makes the consumers change a balance but to sell.
LEMMA SellsStep == TypeOK /\ CallsSell /\ [Next]_vars => CallsSell'
  <1> SUFFICES ASSUME TypeOK, CallsSell, [Next]_vars PROVE CallsSell'
    OBVIOUS
  <1>1. CASE UNCHANGED vars \/ \E n \in LockName : TtlRunsOut(n)
    BY <1>1 DEF TtlRunsOut, LockExpires, vars, handlerVars, sectionVars, CallsSell, SaleCall
  <1>2. ASSUME NEW w \in Worker, WorkerStep(w) \/ Crash(w) PROVE CallsSell'
    <2>1. /\ todo \in [Worker -> SUBSET Call(CallTag)] /\ stage \in [Worker -> Stage]
          /\ DOMAIN call = Worker /\ \A c \in todo[w] : SaleCall(c)
      BY DEF TypeOK, HandlerTypeOK, SectionTypeOK, CallsSell
    <2>2. CASE \/ OrderStep(w) \/ Recalc(w) \/ WriteReserved(w) \/ Fails(w)
               \/ CheckInvoice(w) \/ FindOpen(w) \/ PassClosed(w) \/ NothingOpen(w)
               \/ CountReservations(w)
               \/ CheckLegacy(w) \/ LoopDone(w)
      <3>1. UNCHANGED <<stage, call>>
        BY <2>2 DEF OrderStep, LockOrder, OrderBusy, Replace, Publish, LeaveOrder, Recalc,
                    WriteReserved, Fails, CheckInvoice, FindOpen, PassClosed, NothingOpen,
                    CountReservations, CheckLegacy, LoopDone, Decide, sectionVars
      <3>2. todo' = todo \/ todo' = [todo EXCEPT ![w] = {}]
        BY <2>2 DEF OrderStep, LockOrder, OrderBusy, Replace, Publish, LeaveOrder, Recalc,
                    WriteReserved, Fails, CheckInvoice, FindOpen, PassClosed, NothingOpen,
                    CountReservations, CheckLegacy, LoopDone, Decide
      <3> QED
        BY <2>1, <3>1, <3>2, SellsStay
    <2>3. CASE (\E m \in Msg : Take(w, m)) \/ Ack(w) \/ Nack(w)
      <3>1. UNCHANGED <<stage, call>> /\ (todo' = todo \/ todo' = [todo EXCEPT ![w] = {}])
        BY <2>3 DEF Take, Ack, Nack, Settle, Forget, sectionVars
      <3> QED
        BY <2>1, <3>1, SellsStay
    <2>4. CASE Confirm(w) \/ ListLegacy(w) \/ Direct(w)
      <3>1. UNCHANGED <<stage, call>>
        BY <2>4 DEF Confirm, ListLegacy, Direct, sectionVars
      <3>2. \/ todo' = todo
            \/ \E new \in {ReservationCalls(w), LegacyCalls(w), DirectCalls(w)} :
                 todo' = [todo EXCEPT ![w] = new]
        BY <2>4 DEF Confirm, ListLegacy, Direct
      <3>3. \A c \in todo'[w] : SaleCall(c)
        BY <2>1, <3>2, AllSales
      <3>4. \A v \in Worker \ {w} : todo'[v] = todo[v]
        BY <2>1, <3>2
      <3>5. stage'[w] \in {"lock", "change", "post"} => SaleCall(call'[w])
        BY <3>1 DEF CallsSell
      <3> QED
        BY <3>1, <3>3, <3>4, <3>5, SellsMove
    <2>5. CASE NextCall(w)
      <3>1. PICK c \in todo[w] : Begin(w, c) /\ todo' = [todo EXCEPT ![w] = @ \ {c}]
        BY <2>5 DEF NextCall
      <3>2. stage' = [stage EXCEPT ![w] = "lock"] /\ call' = [call EXCEPT ![w] = c]
        BY <3>1 DEF Begin, Goto
      <3> QED
        BY <2>1, <3>1, <3>2, SellsMove
    <2>6. CASE InSection(w) \/ Deduct(w)
      <3>1. SectionStep(w) \/ ChangeBalance(w)
        BY <2>6 DEF InSection, Deduct
      <3>2. \A v \in Worker \ {w} : stage'[v] = stage[v] /\ call'[v] = call[v]
        BY <3>1, OneWorker DEF TypeOK
      <3>3. todo' = todo
        BY <2>6 DEF InSection, Deduct, handlerVars
      <3> QED
        BY <2>1, <3>1, <3>2, <3>3, SectionSells, SellsMove
    <2>7. CASE SectionOk(w) \/ SectionErr(w)
      BY <2>1, <2>7, SellsMove DEF SectionOk, SectionErr, Return, Goto
    <2>8. CASE Crash(w)
      BY <2>1, <2>8, SellsMove DEF Crash, Forget, Killed, Goto
    <2> QED
      BY <1>2, <2>2, <2>3, <2>4, <2>5, <2>6, <2>7, <2>8 DEF WorkerStep, InvoiceStep
  <1> QED
    BY <1>1, <1>2 DEF Next

\* A failed InsertMovement forgets a movement, whether it is an error or not.
LEMMA LostMovement ==
  ASSUME TypeOK, NEW w \in Worker, PostFails(w), NEW K, NEW types
  PROVE  Owing(w, K, types)' <= Owing(w, K, types)
  <1>1. /\ stage[w] = "post" /\ stage \in [Worker -> Stage] /\ DOMAIN call = Worker
        /\ call[w] \in Call(CallTag) /\ call[w].posts # <<>>
    BY DEF PostFails, TypeOK, SectionTypeOK
  <1>2. call[w].posts \in Seq(MovementType) /\ call[w].qty \in Nat
    BY <1>1 DEF Call
  <1>3. Range(Tail(call[w].posts)) \subseteq Range(call[w].posts)
    BY <1>1, <1>2, RangeHeadTail
  <1>4. w \in Unposted(K, types)' => w \in Unposted(K, types) /\ call'[w].qty = call[w].qty
    <2>1. CASE call[w].strict
      BY <1>1, <2>1 DEF PostFails, Goto, Unposted
    <2>2. CASE ~ call[w].strict
      <3>1. /\ call'[w].posts = Tail(call[w].posts) /\ call'[w].key = call[w].key
            /\ call'[w].qty = call[w].qty
        BY <1>1, <2>2 DEF PostFails, Posted, Call
      <3> QED
        BY <1>1, <1>3, <3>1 DEF Unposted
    <2> QED
      BY <2>1, <2>2
  <1> QED
    BY <1>2, <1>4 DEF Owing

\* What the section changes at a balance and what it then accounts for.
LEMMA DeductExact ==
  ASSUME TypeOK, TypeOK', CallsSell, IsFiniteSet(Worker), NEW w \in Worker, ChangeBalance(w),
         NEW k \in Keys, NEW types, "RESERVATION_RELEASE" \notin types
  PROVE  /\ "SALE_OUT" \in types =>
              avail'[k] + Accounted({k}, types)' = avail[k] + Accounted({k}, types)
         /\ "SALE_OUT" \notin types => Accounted({k}, types)' = Accounted({k}, types)
  <1> DEFINE c == call[w]
             A == Accounted({k}, types)
  <1>1. /\ RepoTypeOK /\ SectionTypeOK(CallTag) /\ SectionTypeOK(CallTag)'
        /\ c \in Call(CallTag) /\ c.key \in Keys /\ c.qty \in Nat
        /\ SaleCall(c) /\ avail \in [Keys -> Nat]
    BY DEF TypeOK, SectionTypeOK, ChangeBalance, CallsSell, Call, RepoTypeOK
  <1>2. A' = A + IF Counts(c, {k}, types) THEN c.qty ELSE 0
    BY <1>1, ChangeAccounted
  <1>3. A \in Int
    <2>1. UNCHANGED movements
      BY OnlyPostInserts
    <2>2. \A v \in Worker \ {w} : stage'[v] = stage[v] /\ call'[v] = call[v]
      BY <1>1, OneWorker
    <2> QED
      BY <1>1, <2>1, <2>2, AccountedMoves
  <1>4. Counts(c, {k}, types) <=> k = c.key /\ "SALE_OUT" \in types
    BY <1>1, SalePosts DEF Counts, Sale
  <1>5. avail'[k] = IF k = c.key THEN avail[k] - c.qty ELSE avail[k]
    BY <1>1 DEF ChangeBalance, SaleCall, RemoveAvailable, ConfirmSale
  <1>6. A' = A + IF k = c.key /\ "SALE_OUT" \in types THEN c.qty ELSE 0
    BY <1>2, <1>4
  <1>7. avail[k] \in Int /\ c.qty \in Int
    BY <1>1
  <1>8. /\ "SALE_OUT" \in types => avail'[k] + A' = avail[k] + A
        /\ "SALE_OUT" \notin types => A' = A
    <2> HIDE DEF c, A
    <2> QED
      BY <1>3, <1>5, <1>6, <1>7
  <1> QED
    BY <1>8

\* The other steps leave the balances alone, and only failures take from the
\* account.
LEMMA SalesAccountsStay ==
  ASSUME TypeOK, TypeOK', CallsSell, IsFiniteSet(Worker),
         NEW w \in Worker, WorkerStep(w) \/ Crash(w), ~ Deduct(w), NEW k \in Keys,
         NEW types, "RESERVATION_RELEASE" \notin types
  PROVE  /\ avail' = avail
         /\ Accounted({k}, types)' <= Accounted({k}, types) /\ Accounted({k}, types)' \in Int
         /\ Faults \cap {"db", "crash"} = {} => Accounted({k}, types)' = Accounted({k}, types)
  <1>1. /\ RepoTypeOK /\ SectionTypeOK(CallTag) /\ SectionTypeOK(CallTag)'
        /\ Accounted({k}, types) \in Nat
    BY AccountedType DEF TypeOK
  <1>0. stage \in [Worker -> Stage]
    BY DEF TypeOK, SectionTypeOK
  <1>2. CASE UNCHANGED <<movements, avail, stage, call>>
    <2>1. Accounted({k}, types)' = Accounted({k}, types)
      BY <1>2 DEF Accounted, Moved, Entries, UnpostedQty, Unposted
    <2> QED
      BY <1>1, <1>2, <2>1
  <1>3. CASE InSection(w) /\ PostMovement(w)
    <2>1. SaleCall(call[w])
      BY <1>3 DEF PostMovement, CallsSell
    <2>2. Accounted({k}, types)' = Accounted({k}, types)
      BY <1>1, <1>3, <2>1, SalePosts, PostAccounted
    <2> QED
      BY <1>1, <1>3, <2>2 DEF PostMovement, InsertMovement
  <1>4. CASE (InSection(w) /\ PostFails(w)) \/ Crash(w)
    <2>1. UNCHANGED <<movements, avail>> /\ Faults \cap {"db", "crash"} # {}
      BY <1>4 DEF PostFails, Crash, repoVars
    <2>2. \A v \in Worker \ {w} : stage'[v] = stage[v] /\ call'[v] = call[v]
      BY <1>1, <1>4, OneWorker DEF InSection, Crash
    <2>3. /\ Accounted({k}, types)' =
                Accounted({k}, types) - Owing(w, {k}, types) + Owing(w, {k}, types)'
          /\ Owing(w, {k}, types) \in Nat /\ Owing(w, {k}, types)' \in Nat
      BY <1>1, <2>1, <2>2, AccountedMoves
    <2>4. Owing(w, {k}, types)' <= Owing(w, {k}, types)
      <3>1. CASE PostFails(w)
        BY <3>1, LostMovement
      <3>2. CASE Crash(w)
        <4>1. stage'[w] # "post"
          BY <1>0, <3>2 DEF Crash, Killed, Goto
        <4>2. Owing(w, {k}, types)' = 0
          BY <4>1 DEF Owing, Unposted
        <4> QED
          BY <2>3, <4>2
      <3> QED
        BY <1>4, <3>1, <3>2
    <2> QED
      BY <1>1, <2>1, <2>3, <2>4
  <1>5. CASE InSection(w) /\ ~ PostMovement(w) /\ ~ PostFails(w)
    <2>1. SectionStep(w)
      BY <1>5 DEF InSection
    <2>2. \/ LockBalance(w) \/ LockRefused(w) \/ ChangeRefused(w) \/ ReadBalance(w)
          \/ CacheSkipped(w) \/ CacheBalance(w) \/ Unlock(w)
      BY <1>5, <2>1 DEF SectionStep
    <2>3. UNCHANGED <<movements, avail>> /\ stage[w] # "post" /\ stage'[w] # "post"
      BY <1>0, <2>2
         DEF LockBalance, LockRefused, ChangeRefused, ReadBalance, CacheSkipped,
             CacheBalance, Unlock, Goto, repoVars
    <2>4. \A v \in Worker \ {w} : stage'[v] = stage[v] /\ call'[v] = call[v]
      BY <1>1, <2>1, OneWorker
    <2> QED
      BY <1>1, <2>3, <2>4, AccountedStays
  <1>6. CASE NextCall(w) \/ SectionOk(w) \/ SectionErr(w)
    <2>1. (\E c : Begin(w, c)) \/ (\E result \in {"ok", "err"} : Return(w, result))
      BY <1>6 DEF NextCall, SectionOk, SectionErr
    <2>2. stage[w] # "post" /\ stage'[w] # "post"
      BY <1>0, <2>1 DEF Begin, Return, Goto
    <2>3. \A v \in Worker \ {w} : stage'[v] = stage[v] /\ call'[v] = call[v]
      BY <1>1, <2>1, OneWorker
    <2>4. UNCHANGED <<movements, avail>>
      BY <1>6 DEF NextCall, SectionOk, SectionErr, repoVars
    <2> QED
      BY <1>1, <2>2, <2>3, <2>4, AccountedStays
  <1>7. CASE \/ (\E m \in Msg : Take(w, m)) \/ OrderStep(w) \/ Recalc(w) \/ WriteReserved(w)
             \/ Fails(w) \/ Ack(w) \/ Nack(w)
             \/ CheckInvoice(w) \/ FindOpen(w) \/ PassClosed(w) \/ Confirm(w)
             \/ NothingOpen(w) \/ CountReservations(w)
             \/ CheckLegacy(w) \/ ListLegacy(w) \/ Direct(w) \/ LoopDone(w)
    <2>1. UNCHANGED <<movements, avail, stage, call>>
      BY <1>7
         DEF Take, OrderStep, LockOrder, OrderBusy, Replace, ReplaceReservations, Publish,
             LeaveOrder, Recalc, WriteReserved, RecalcWrite, Fails, Ack, Nack, Settle,
             CheckInvoice, FindOpen, PassClosed, Confirm, ConfirmReservations, NothingOpen,
             CountReservations, CheckLegacy, ListLegacy, Direct, LoopDone, Decide,
             repoVars, sectionVars
    <2> QED
      BY <1>2, <2>1
  <1> QED
    BY <1>3, <1>4, <1>5, <1>6, <1>7 DEF WorkerStep, InvoiceStep

\* At first the ledger shows no sale.
LEMMA InitAccount ==
  ASSUME \A i \in DOMAIN Backlog : Backlog[i].type # "SALE_OUT", Init, NEW k \in Keys
  PROVE  avail[k] + Accounted({k}, Sale) = OpeningQty(k)
  <1>1. Entries({k}, Sale) = {} /\ Unposted({k}, Sale) = {}
    BY DEF Init, SectionInit, Entries, Unposted, Sale
  <1>2. Accounted({k}, Sale) = 0
    BY <1>1, NothingAccounted
  <1> QED
    BY <1>2, SalesAssumption DEF Init, OpeningQty

\* Every balance and what the ledger accounts for stay within the opening
\* stock.
AccountInv == \A k \in Keys : avail[k] + Accounted({k}, Sale) <= OpeningQty(k)

\* No step exceeds it.
LEMMA AccountStep ==
  ASSUME IsFiniteSet(Worker)
  PROVE  TypeOK /\ TypeOK' /\ CallsSell /\ AccountInv /\ [Next]_vars => AccountInv'
  <1> SUFFICES ASSUME TypeOK, TypeOK', CallsSell, AccountInv, [Next]_vars, NEW k \in Keys
               PROVE  avail'[k] + Accounted({k}, Sale)' <= OpeningQty(k)
    BY DEF AccountInv, OpeningQty
  <1>1. /\ avail[k] + Accounted({k}, Sale) <= OpeningQty(k)
        /\ avail[k] \in Nat /\ OpeningQty(k) \in Nat /\ Accounted({k}, Sale) \in Nat
    <2>1. RepoTypeOK /\ SectionTypeOK(CallTag)
      BY DEF TypeOK
    <2>2. Accounted({k}, Sale) \in Nat
      BY <2>1, AccountedType
    <2>3. avail[k] \in Nat /\ OpeningQty(k) \in Nat
      BY <2>1, SalesAssumption DEF RepoTypeOK, OpeningQty
    <2> QED
      BY <2>2, <2>3 DEF AccountInv
  <1>2. CASE UNCHANGED vars \/ \E n \in LockName : TtlRunsOut(n)
    <2>1. avail' = avail /\ Accounted({k}, Sale)' = Accounted({k}, Sale)
      BY <1>2 DEF TtlRunsOut, LockExpires, vars, repoVars, sectionVars, Accounted, Moved,
                  Entries, UnpostedQty, Unposted
    <2> QED
      BY <1>1, <2>1
  <1>3. ASSUME NEW w \in Worker, WorkerStep(w) \/ Crash(w)
        PROVE  avail'[k] + Accounted({k}, Sale)' <= OpeningQty(k)
    <2>1. CASE Deduct(w)
      <3>1. avail'[k] + Accounted({k}, Sale)' = avail[k] + Accounted({k}, Sale)
        BY <2>1, DeductExact DEF Deduct, Sale
      <3> QED
        BY <1>1, <3>1
    <2>2. CASE ~ Deduct(w)
      <3>1. /\ avail' = avail /\ Accounted({k}, Sale)' <= Accounted({k}, Sale)
            /\ Accounted({k}, Sale)' \in Int
        BY <1>3, <2>2, SalesAccountsStay DEF Sale
      <3> QED
        BY <1>1, <3>1
    <2> QED
      BY <2>1, <2>2
  <1> QED
    BY <1>2, <1>3 DEF Next

\* The ledger never shows a sale whose quantity has not left the balance
\* (service.go:371-387, 389-455), for any messages, workers and faults, if it
\* shows none at first.
THEOREM SalesLedgerNotAhead ==
  ASSUME IsFiniteSet(Worker), \A i \in DOMAIN Backlog : Backlog[i].type # "SALE_OUT"
  PROVE  Spec => []LedgerNotAhead
  <1>1. Init => AccountInv
    <2> SUFFICES ASSUME Init, NEW k \in Keys
                 PROVE  avail[k] + Accounted({k}, Sale) <= OpeningQty(k)
      BY DEF AccountInv
    <2>1. OpeningQty(k) \in Nat
      BY SalesAssumption DEF OpeningQty
    <2> QED
      BY <2>1, InitAccount
  <1>2. TypeOK /\ AccountInv => LedgerNotAhead
    <2> SUFFICES ASSUME TypeOK, AccountInv, NEW k \in Keys
                 PROVE  avail[k] + Moved({k}, Sale) <= OpeningQty(k)
      BY DEF LedgerNotAhead
    <2>1. RepoTypeOK /\ SectionTypeOK(CallTag)
      BY DEF TypeOK
    <2>2. Moved({k}, Sale) \in Nat /\ UnpostedQty({k}, Sale) \in Nat
      BY <2>1, MovedType, UnpostedType
    <2>3. avail[k] \in Nat /\ OpeningQty(k) \in Nat
      BY <2>1, SalesAssumption DEF RepoTypeOK, OpeningQty
    <2> QED
      BY <2>2, <2>3 DEF AccountInv, Accounted
  <1> QED
    BY <1>1, <1>2, AccountStep, InitSells, SellsStep, TypeCorrect, PTL DEF Spec

\* Without failures every balance and the sales of the ledger, with those a
\* worker is about to insert, add up to the opening stock, even if locks expire
\* early (service.go:371-387, 389-455).
THEOREM SalesLedgerExact ==
  ASSUME IsFiniteSet(Worker), Faults \cap {"db", "crash"} = {},
         \A i \in DOMAIN Backlog : Backlog[i].type # "SALE_OUT"
  PROVE  Spec => []LedgerExact
  <1>1. Init => LedgerExact
    BY InitAccount DEF LedgerExact
  <1>2. TypeOK /\ TypeOK' /\ CallsSell /\ LedgerExact /\ [Next]_vars => LedgerExact'
    <2> SUFFICES ASSUME TypeOK, TypeOK', CallsSell, LedgerExact, [Next]_vars, NEW k \in Keys
                 PROVE  avail'[k] + Accounted({k}, Sale)' = avail[k] + Accounted({k}, Sale)
      BY DEF LedgerExact, OpeningQty
    <2>1. CASE UNCHANGED vars \/ \E n \in LockName : TtlRunsOut(n)
      BY <2>1 DEF TtlRunsOut, LockExpires, vars, repoVars, sectionVars, Accounted, Moved,
                  Entries, UnpostedQty, Unposted
    <2>2. ASSUME NEW w \in Worker, WorkerStep(w) \/ Crash(w)
          PROVE  avail'[k] + Accounted({k}, Sale)' = avail[k] + Accounted({k}, Sale)
      <3>1. CASE Deduct(w)
        BY <3>1, DeductExact DEF Deduct, Sale
      <3>2. CASE ~ Deduct(w)
        BY <2>2, <3>2, SalesAccountsStay DEF Sale
      <3> QED
        BY <3>1, <3>2
    <2> QED
      BY <2>1, <2>2 DEF Next
  <1> QED
    BY <1>1, <1>2, InitSells, SellsStep, TypeCorrect, PTL DEF Spec

(***************************************************************************)
(* Locks                                                                   *)
(***************************************************************************)

\* The lock of an order event is among the names of locks.
LEMMA ReserveLockName ==
  ASSUME HandlerTypeOK, NEW w \in Worker, Busy(w)
  PROVE  ReserveLock(w) \in LockName
  <1>1. job[w] \in Msg
    BY DEF HandlerTypeOK, Busy, MsgOf, Msg
  <1>2. OrderOf(w) \in DocId \cup {NoDoc}
    BY <1>1, SalesAssumption, RepoAssumption DEF OrderOf
  <1> QED
    BY <1>2 DEF ReserveLock, LockName

\* What a worker that takes and gives back no lock does with those it holds: it
\* goes on to another part of the handler that uses them.
LEMMA LocksKept ==
  ASSUME TypeOK, LocksReturned, NEW w \in Worker, WorkerStep(w), NEW n \in LockName,
         UNCHANGED lock, Uses(w, n) => Uses(w, n)'
  PROVE  \A v \in Worker : lock'[n] = v => Uses(v, n)'
  BY OthersWait DEF LocksReturned, Uses, Inside, ReserveLock, OrderOf

\* The lock of an order event is held between LockOrder and LeaveOrder
\* (service.go:204-208).
LEMMA OrderLocksReturned ==
  ASSUME TypeOK, LocksReturned, NEW w \in Worker, LockOrder(w) \/ LeaveOrder(w),
         NEW n \in LockName, NEW v \in Worker, lock'[n] = v
  PROVE  Uses(v, n)'
  <1>1. /\ HandlerTypeOK /\ lock \in [LockName -> Holder \cup {NoWorker}] /\ Busy(w)
        /\ NoWorker \notin Worker /\ stage[w] = "idle" /\ w \in OrderWorker
    <2>1. OrderStep(w) /\ pc[w] \notin {"section", "idle"}
      BY DEF OrderStep, LockOrder, LeaveOrder, At
    <2> QED
      BY <2>1, WhoSteps, SectionAssumption
         DEF TypeOK, HandlerTypeOK, SectionTypeOK, LockTypeOK, Busy
  <1>2. ReserveLock(w) \in LockName
    BY <1>1, ReserveLockName
  <1>3. /\ UNCHANGED <<stage, call, job>>
        /\ \A u \in Worker \ {w} : pc'[u] = pc[u]
    BY <1>1 DEF LockOrder, LeaveOrder, Jump, sectionVars, HandlerTypeOK
  <1>4. v # w /\ lock[n] = v => Uses(v, n)'
    BY <1>3 DEF LocksReturned, Uses, Inside, ReserveLock, OrderOf
  <1>5. CASE LockOrder(w)
    <2>1. /\ lock' = [lock EXCEPT ![ReserveLock(w)] = w]
          /\ pc'[w] \in {"leaveErr", "replace"}
      BY <1>1, <1>5 DEF LockOrder, Acquire, Jump, HandlerTypeOK
    <2>2. lock[n] # w
      BY <1>1, <1>5 DEF LocksReturned, Uses, Inside, LockOrder, At
    <2>3. CASE v = w
      <3>1. n = ReserveLock(w)
        BY <1>1, <2>1, <2>2, <2>3
      <3>2. n = ReserveLock(w)'
        BY <1>3, <3>1 DEF ReserveLock, OrderOf
      <3> QED
        BY <1>1, <2>1, <2>3, <3>2 DEF Uses
    <2>4. CASE v # w
      BY <1>1, <1>2, <1>4, <2>1, <2>4
    <2> QED
      BY <2>3, <2>4
  <1>6. CASE LeaveOrder(w)
    <2>1. \/ lock[ReserveLock(w)] = w /\ lock' = [lock EXCEPT ![ReserveLock(w)] = NoWorker]
          \/ lock[ReserveLock(w)] # w /\ lock' = lock
      BY <1>6 DEF LeaveOrder, Release
    <2>2. v # w
      <3>1. lock[n] = w => n = ReserveLock(w)
        BY <1>1 DEF LocksReturned, Uses, Inside
      <3> QED
        BY <1>1, <1>2, <2>1, <3>1
    <2> QED
      BY <1>1, <1>2, <1>4, <2>1, <2>2
  <1> QED
    BY <1>5, <1>6

\* The section gives back the lock of its balance, whatever its result
\* (service.go:398-419, 480-506).
LEMMA SectionLocksReturned ==
  ASSUME TypeOK, LocksReturned, NEW w \in Worker, InSection(w) \/ Deduct(w),
         NEW n \in LockName, NEW v \in Worker, lock'[n] = v
  PROVE  Uses(v, n)'
  <1>1. /\ SectionTypeOK(CallTag) /\ UNCHANGED <<pc, job>> /\ pc[w] = "section"
        /\ SectionStep(w) \/ ChangeBalance(w)
    BY DEF TypeOK, InSection, Deduct, handlerVars, At
  <1>2. lock[n] = w => Inside(w) /\ n = StockLock(call[w].key)
    BY <1>1 DEF LocksReturned, Uses
  <1>3. /\ lock'[n] = w => Inside(w)' /\ n = StockLock(call'[w].key)
        /\ v # w => lock[n] = v
    BY <1>1, <1>2, SectionReturnsLock
  <1>4. CASE v = w
    BY <1>3, <1>4 DEF Uses
  <1>5. CASE v # w
    <2>1. Uses(v, n) /\ stage'[v] = stage[v] /\ call'[v] = call[v]
      BY <1>1, <1>3, <1>5, OneWorker DEF LocksReturned
    <2> QED
      BY <1>1, <2>1 DEF Uses, Inside, ReserveLock, OrderOf
  <1> QED
    BY <1>4, <1>5

\* A step that takes and gives back no lock goes on under those it holds.
LEMMA LocksStay ==
  ASSUME TypeOK, NEW w \in Worker, WorkerStep(w), ~ LockOrder(w), ~ LeaveOrder(w),
         ~ InSection(w), ~ Deduct(w), NEW n \in LockName
  PROVE  UNCHANGED lock /\ (Uses(w, n) => Uses(w, n)')
  <1>1. /\ HandlerTypeOK /\ pc \in [Worker -> Pc]
        /\ pc[w] # "section" => stage[w] = "idle"
    BY DEF TypeOK, HandlerTypeOK
  <1>2. CASE \/ \E m \in Msg : Take(w, m)
             \/ OrderBusy(w) \/ Ack(w) \/ Nack(w)
    <2>1. UNCHANGED lock /\ pc[w] \in {"idle", "reserve", "ack", "nack"}
      BY <1>2 DEF Take, OrderBusy, Ack, Nack, Settle, At
    <2>2. ~ Uses(w, n)
      BY <1>1, <2>1 DEF Uses, Inside
    <2> QED
      BY <2>1, <2>2
  <1>3. CASE Replace(w) \/ Publish(w) \/ Recalc(w) \/ WriteReserved(w) \/ Fails(w)
    <2>1. UNCHANGED <<lock, stage, call, job>>
      BY <1>3 DEF Replace, Publish, Recalc, WriteReserved, Fails, sectionVars
    <2>2. w \in OrderWorker => pc'[w] \in {"replace", "recalc", "write", "publish", "leave",
                                           "leaveErr"}
      BY <1>1, <1>3, SalesAssumption
         DEF Replace, Publish, Recalc, WriteReserved, Fails, Jump, AfterRecalc
    <2> QED
      BY <2>1, <2>2 DEF Uses, Inside, ReserveLock, OrderOf
  <1>4. CASE \/ CheckInvoice(w) \/ FindOpen(w) \/ PassClosed(w) \/ Confirm(w)
             \/ NothingOpen(w) \/ CountReservations(w) \/ CheckLegacy(w)
             \/ ListLegacy(w) \/ Direct(w) \/ LoopDone(w)
    <2>1. /\ UNCHANGED lock
          /\ pc[w] \in {"invoice", "confirm", "confirming", "count", "legacy", "legacyList",
                        "direct", "loop"}
      BY <1>4
         DEF CheckInvoice, FindOpen, PassClosed, Confirm, NothingOpen, CountReservations,
             CheckLegacy, ListLegacy, Direct, LoopDone, Decide, At
    <2>2. ~ Uses(w, n)
      BY <1>1, <2>1 DEF Uses, Inside
    <2> QED
      BY <2>1, <2>2
  <1>5. CASE NextCall(w) \/ SectionOk(w) \/ SectionErr(w)
    <2>1. /\ UNCHANGED lock /\ pc[w] \in {"loop", "section"}
          /\ stage[w] \in {"idle", "ok", "err"}
      BY <1>5 DEF NextCall, SectionOk, SectionErr, Begin, Return, At
    <2>2. ~ Uses(w, n)
      BY <2>1 DEF Uses, Inside
    <2> QED
      BY <2>1, <2>2
  <1> QED
    BY <1>2, <1>3, <1>4, <1>5 DEF WorkerStep, OrderStep, InvoiceStep

\* While no process dies, a lock a consumer holds is one it is still at work
\* under: every way out of ReserveOrder and of the section gives it back, with
\* statements that fail and locks that expire (service.go:204-208, 398-419,
\* 480-506).
THEOREM SalesLocksReturned ==
  ASSUME "crash" \notin Faults
  PROVE  Spec => []LocksReturned
  <1>1. Init => LocksReturned
    BY SectionAssumption DEF Init, SectionInit, LockInit, LocksReturned
  <1>2. TypeOK /\ LocksReturned /\ [Next]_vars => LocksReturned'
    <2> SUFFICES ASSUME TypeOK, LocksReturned, [Next]_vars,
                        NEW n \in LockName, NEW v \in Worker, lock'[n] = v
                 PROVE  Uses(v, n)'
      BY DEF LocksReturned
    <2>1. CASE UNCHANGED vars
      BY <2>1 DEF vars, handlerVars, sectionVars, LocksReturned, Uses, Inside, ReserveLock,
                  OrderOf
    <2>2. ASSUME NEW w \in Worker, WorkerStep(w) PROVE Uses(v, n)'
      <3>1. CASE LockOrder(w) \/ LeaveOrder(w)
        BY <3>1, OrderLocksReturned
      <3>2. CASE InSection(w) \/ Deduct(w)
        BY <3>2, SectionLocksReturned
      <3>3. CASE ~ LockOrder(w) /\ ~ LeaveOrder(w) /\ ~ InSection(w) /\ ~ Deduct(w)
        <4>1. UNCHANGED lock /\ (Uses(w, n) => Uses(w, n)')
          BY <2>2, <3>3, LocksStay
        <4> QED
          BY <2>2, <4>1, LocksKept
      <3> QED
        BY <3>1, <3>2, <3>3
    <2>3. ASSUME NEW m \in LockName, TtlRunsOut(m) PROVE Uses(v, n)'
      <3>1. /\ UNCHANGED <<pc, job, stage, call>> /\ lock' = [lock EXCEPT ![m] = NoWorker]
            /\ lock \in [LockName -> Holder \cup {NoWorker}] /\ v # NoWorker
        BY <2>3, SectionAssumption
           DEF TtlRunsOut, LockExpires, Expire, handlerVars, sectionVars, TypeOK,
               SectionTypeOK, LockTypeOK
      <3>2. Uses(v, n)
        BY <3>1 DEF LocksReturned
      <3> QED
        BY <3>1, <3>2 DEF Uses, Inside, ReserveLock, OrderOf
    <2>4. \A w \in Worker : ~ Crash(w)
      BY DEF Crash
    <2> QED
      BY <2>1, <2>2, <2>3, <2>4 DEF Next
  <1> QED
    BY <1>1, <1>2, TypeCorrect, PTL DEF Spec

(***************************************************************************)
(* The cache                                                               *)
(***************************************************************************)

\* The lock of an order event is not that of a balance.
LEMMA LocksDiffer ==
  ASSUME LockTypeOK, NEW w \in Worker, LockOrder(w) \/ LeaveOrder(w), NEW k \in Keys
  PROVE  lock'[StockLock(k)] = lock[StockLock(k)]
  <1>1. StockLock(k) # ReserveLock(w) /\ StockLock(k) \in LockName
    BY StockLockName DEF StockLock, ReserveLock
  <1> QED
    BY <1>1 DEF LockTypeOK, LockOrder, LeaveOrder, Acquire, Release

\* A consumer caches what it has changed before it leaves the section, and
\* without the lock of a balance touches neither the quantity nor the cache
\* (service.go:371-455, 476-506).
LEMMA SalesCaches ==
  ASSUME TypeOK, CacheInv, "db" \notin Faults, NEW w \in Worker, WorkerStep(w)
  PROVE  /\ CacheInv' /\ Polite(w)
         /\ \A k \in Keys : Behind(k) \/ Shows(k) => Behind(k)' \/ Shows(k)'
  <1>1. /\ RepoTypeOK /\ SectionTypeOK(CallTag) /\ stage \in [Worker -> Stage]
        /\ pc[w] # "section" => stage[w] = "idle"
    BY DEF TypeOK, HandlerTypeOK, SectionTypeOK
  <1>2. CASE InSection(w) \/ Deduct(w)
    <2>1. SectionStep(w) \/ ChangeBalance(w)
      BY <1>2 DEF InSection, Deduct
    <2> QED
      BY <1>1, <2>1, SectionCaches, SectionPolite
  <1>3. CASE NextCall(w) \/ SectionOk(w) \/ SectionErr(w)
    <2>1. (\E c : Begin(w, c)) \/ (\E result \in {"ok", "err"} : Return(w, result))
      BY <1>3 DEF NextCall, SectionOk, SectionErr
    <2>2. ~ Inside(w) /\ ~ Inside(w)'
      BY <1>1, <2>1 DEF Begin, Return, Goto, Inside
    <2>3. \A v \in Worker \ {w} : stage'[v] = stage[v] /\ call'[v] = call[v]
      BY <1>1, <2>1, OneWorker
    <2>4. UNCHANGED <<lock, cache, seen, avail>>
      BY <1>3, <2>1 DEF NextCall, SectionOk, SectionErr, Begin, Return, repoVars
    <2>5. \A k \in Keys : lock'[StockLock(k)] = lock[StockLock(k)]
      BY <2>4
    <2> QED
      BY <1>1, <2>2, <2>3, <2>4, <2>5, OutsideCaches
  <1>4. CASE \/ (\E m \in Msg : Take(w, m)) \/ OrderStep(w) \/ Recalc(w) \/ WriteReserved(w)
             \/ Fails(w) \/ Ack(w) \/ Nack(w)
             \/ CheckInvoice(w) \/ FindOpen(w) \/ PassClosed(w) \/ Confirm(w)
             \/ NothingOpen(w) \/ CountReservations(w)
             \/ CheckLegacy(w) \/ ListLegacy(w) \/ Direct(w) \/ LoopDone(w)
    <2>1. /\ UNCHANGED <<avail, cache, seen, stage, call>>
          /\ lock' = lock \/ LockOrder(w) \/ LeaveOrder(w)
      BY <1>4
         DEF Take, OrderStep, LockOrder, OrderBusy, Replace, ReplaceReservations, Publish,
             LeaveOrder, Recalc, WriteReserved, RecalcWrite, Fails, Ack, Nack, Settle,
             CheckInvoice, FindOpen, PassClosed, Confirm, ConfirmReservations, NothingOpen,
             CountReservations, CheckLegacy, ListLegacy, Direct, LoopDone, Decide,
             repoVars, sectionVars
    <2>2. pc[w] # "section"
      BY <1>4
         DEF Take, OrderStep, LockOrder, OrderBusy, Replace, Publish, LeaveOrder, Recalc,
             WriteReserved, Fails, Ack, Nack, CheckInvoice, FindOpen, PassClosed, Confirm,
             NothingOpen, CountReservations, CheckLegacy, ListLegacy, Direct, LoopDone, At
    <2>3. ~ Inside(w) /\ ~ Inside(w)'
      BY <1>1, <2>1, <2>2 DEF Inside
    <2>4. \A k \in Keys : lock'[StockLock(k)] = lock[StockLock(k)]
      BY <1>1, <2>1, LocksDiffer DEF SectionTypeOK
    <2> QED
      BY <1>1, <2>1, <2>3, <2>4, OutsideCaches
  <1> QED
    BY <1>2, <1>3, <1>4 DEF WorkerStep, InvoiceStep

(***************************************************************************)
(* The stored column of reserved quantities                                *)
(***************************************************************************)

\* Without a movement of the flow before reservations were rows, consumers
\* lower a balance with RemoveAvailable only.
PlainCall(c) == c.change = "remove"
RemovesOnly ==
  /\ \A i \in DOMAIN movements : movements[i].type # "RESERVATION_ADD"
  /\ \A w \in Worker :
       /\ \A c \in todo[w] : PlainCall(c)
       /\ stage[w] \in {"lock", "change"} => PlainCall(call[w])

\* A snapshot that waits to be written is still what a query would compute.
SnapshotsHold ==
  \A w \in Worker : pc[w] = "write" => \A k \in DOMAIN sums[w] : sums[w][k] = OpenQty(k)

\* A worker is in recalcReserved for the row.
Summing(w, k) == \/ pc[w] = "recalc" /\ k[1] \in touched[w]
                 \/ pc[w] = "write" /\ k \in DOMAIN sums[w]

\* The column of the rows K is what a query computes, or a worker will write it.
ColumnInv(K) ==
  /\ K \subseteq rows /\ DOMAIN sums = Worker
  /\ SnapshotsHold
  /\ \A k \in K : reserved[k] = OpenQty(k) \/ \E w \in Worker : Summing(w, k)

\* The sum changes only with a reservation of the product.
LEMMA OpenQtyStays ==
  ASSUME NEW k, \A o \in Order : rsv'[o][k[1]] = rsv[o][k[1]]
  PROVE  OpenQty(k)' = OpenQty(k)
  <1>1. OpenOrders(k)' = OpenOrders(k)
    BY DEF OpenOrders
  <1>2. \A o \in OpenOrders(k) : rsv'[o][k[1]].qty = rsv[o][k[1]].qty
    BY DEF OpenOrders
  <1> QED
    BY <1>1, <1>2 DEF OpenQty

\* No reservation has been made at first.
LEMMA InitColumn ==
  Init => ColumnInv(DOMAIN Opening) /\ (Backlog = <<>> => RemovesOnly)
  <1> SUFFICES ASSUME Init PROVE ColumnInv(DOMAIN Opening) /\ (Backlog = <<>> => RemovesOnly)
    OBVIOUS
  <1>1. ASSUME NEW k \in DOMAIN Opening PROVE reserved[k] = OpenQty(k)
    <2>1. OpenOrders(k) = {}
      BY <1>1, SalesAssumption DEF Init, OpenOrders, NoReservation, Keys
    <2>2. OpenQty(k) = 0
      BY <2>1, SumEmpty DEF OpenQty
    <2> QED
      BY <2>2, SalesAssumption DEF Init
  <1>2. SnapshotsHold
    BY DEF Init, SnapshotsHold
  <1>3. Backlog = <<>> => RemovesOnly
    BY DEF Init, SectionInit, RemovesOnly
  <1> QED
    BY <1>1, <1>2, <1>3 DEF ColumnInv, Init

\* The calls of confirmed reservations and of invoices without one lower a
\* balance with RemoveAvailable; those of the old flow come from its movements.
LEMMA PlainCalls ==
  ASSUME TypeOK, RemovesOnly, NEW w \in Worker
  PROVE  \A c \in ReservationCalls(w) \cup LegacyCalls(w) \cup DirectCalls(w) : PlainCall(c)
  <1>1. \A c \in ReservationCalls(w) : PlainCall(c)
    BY DEF ReservationCalls, LoopCall, PlainCall
  <1>2. \A c \in DirectCalls(w) : PlainCall(c)
    BY DEF DirectCalls, ApplyCall, PlainCall, AddTypes
  <1>3. LegacyCalls(w) = {}
    <2>1. \A i \in DOMAIN RecentMovements : RecentMovements[i].type # "RESERVATION_ADD"
      BY RecentMovementsAt DEF TypeOK, RemovesOnly
    <2> QED
      BY <2>1 DEF LegacyCalls
  <1> QED
    BY <1>1, <1>2, <1>3

\* A movement that a consumer inserts belongs to a sale.
LEMMA SalePosted1 ==
  ASSUME TypeOK, CallsSell, RemovesOnly, NEW w \in Worker, PostMovement(w)
  PROVE  \A i \in DOMAIN movements' : movements'[i].type # "RESERVATION_ADD"
  <1> DEFINE m == [type |-> Head(call[w].posts), key |-> call[w].key, qty |-> call[w].qty,
                   doc |-> call[w].doc]
  <1>1. /\ SaleCall(call[w]) /\ movements \in Seq(Movement)
        /\ movements' = Append(movements, m)
    BY DEF PostMovement, InsertMovement, CallsSell, TypeOK, RepoTypeOK
  <1>2. m.type # "RESERVATION_ADD"
    BY <1>1 DEF SaleCall
  <1>3. \A i \in DOMAIN movements' : i \in DOMAIN movements \/ movements'[i] = m
    BY <1>1
  <1>4. \A i \in DOMAIN movements : movements'[i] = movements[i]
    BY <1>1
  <1> HIDE DEF m
  <1> QED
    BY <1>2, <1>3, <1>4 DEF RemovesOnly

\* Inside the section a call keeps its way of changing the balance.
LEMMA SectionPlain ==
  ASSUME TypeOK, RemovesOnly, NEW w \in Worker, SectionStep(w) \/ ChangeBalance(w)
  PROVE  stage'[w] \in {"lock", "change"} => PlainCall(call'[w])
  <1>1. /\ stage \in [Worker -> Stage] /\ DOMAIN call = Worker
        /\ stage[w] \in {"lock", "change"} => PlainCall(call[w])
    BY DEF TypeOK, SectionTypeOK, RemovesOnly
  <1>2. stage'[w] \in {"lock", "change"} => stage[w] \in {"lock", "change"} /\ call' = call
    BY <1>1
       DEF SectionStep, LockBalance, LockRefused, ChangeRefused, PostMovement, PostFails, Posted,
           ReadBalance, CacheSkipped, CacheBalance, Unlock, ChangeBalance, Goto
  <1> QED
    BY <1>1, <1>2

\* A step of worker w keeps it if its own calls are of the kind.
LEMMA PlainMove ==
  ASSUME TypeOK, RemovesOnly, NEW w \in Worker,
         \A i \in DOMAIN movements' : movements'[i].type # "RESERVATION_ADD",
         \A v \in Worker \ {w} : todo'[v] = todo[v] /\ stage'[v] = stage[v]
                                 /\ call'[v] = call[v],
         \A c \in todo'[w] : PlainCall(c),
         stage'[w] \in {"lock", "change"} => PlainCall(call'[w])
  PROVE  RemovesOnly'
  <1>1. ASSUME NEW v \in Worker
        PROVE  /\ \A c \in todo'[v] : PlainCall(c)
               /\ stage'[v] \in {"lock", "change"} => PlainCall(call'[v])
    <2>1. CASE v = w
      BY <2>1
    <2>2. CASE v # w
      BY <2>2 DEF RemovesOnly
    <2> QED
      BY <2>1, <2>2
  <1> QED
    BY <1>1 DEF RemovesOnly, PlainCall

\* No step of a consumer leads into the old flow.
LEMMA RemovesOnlyStep ==
  ASSUME TypeOK, CallsSell, RemovesOnly, NEW w \in Worker, WorkerStep(w)
  PROVE  RemovesOnly'
  <1>1. /\ todo \in [Worker -> SUBSET Call(CallTag)] /\ stage \in [Worker -> Stage]
        /\ DOMAIN call = Worker /\ \A c \in todo[w] : PlainCall(c)
        /\ \A i \in DOMAIN movements : movements[i].type # "RESERVATION_ADD"
        /\ stage[w] \in {"lock", "change"} => PlainCall(call[w])
    BY DEF TypeOK, HandlerTypeOK, SectionTypeOK, RemovesOnly
  <1>2. CASE \/ OrderStep(w) \/ Recalc(w) \/ WriteReserved(w) \/ Fails(w)
             \/ CheckInvoice(w) \/ FindOpen(w) \/ PassClosed(w) \/ NothingOpen(w)
             \/ CountReservations(w)
             \/ CheckLegacy(w) \/ LoopDone(w)
    <2>1. UNCHANGED <<stage, call, movements>>
      BY <1>2 DEF OrderStep, LockOrder, OrderBusy, Replace, Publish, LeaveOrder, Recalc,
                  WriteReserved, Fails, CheckInvoice, FindOpen, PassClosed, NothingOpen,
                  CountReservations, CheckLegacy, LoopDone, Decide, sectionVars, repoVars,
                  RecalcWrite,
                  ReplaceReservations
    <2>2. todo' = todo \/ todo' = [todo EXCEPT ![w] = {}]
      BY <1>2 DEF OrderStep, LockOrder, OrderBusy, Replace, Publish, LeaveOrder, Recalc,
                  WriteReserved, Fails, CheckInvoice, FindOpen, PassClosed, NothingOpen,
                  CountReservations, CheckLegacy, LoopDone, Decide
    <2> QED
      BY <1>1, <2>1, <2>2, PlainMove
  <1>3. CASE (\E m \in Msg : Take(w, m)) \/ Ack(w) \/ Nack(w)
    <2>1. /\ UNCHANGED <<stage, call, movements>>
          /\ todo' = todo \/ todo' = [todo EXCEPT ![w] = {}]
      BY <1>3 DEF Take, Ack, Nack, Settle, Forget, sectionVars, repoVars
    <2> QED
      BY <1>1, <2>1, PlainMove
  <1>4. CASE Confirm(w) \/ ListLegacy(w) \/ Direct(w)
    <2>1. UNCHANGED <<stage, call, movements>>
      BY <1>4 DEF Confirm, ListLegacy, Direct, sectionVars, repoVars, ConfirmReservations
    <2>2. \/ todo' = todo
          \/ \E new \in {ReservationCalls(w), LegacyCalls(w), DirectCalls(w)} :
               todo' = [todo EXCEPT ![w] = new]
      BY <1>4 DEF Confirm, ListLegacy, Direct
    <2>3. \A c \in todo'[w] : PlainCall(c)
      BY <1>1, <2>2, PlainCalls
    <2>4. \A v \in Worker \ {w} : todo'[v] = todo[v]
      BY <1>1, <2>2
    <2> QED
      BY <1>1, <2>1, <2>3, <2>4, PlainMove
  <1>5. CASE NextCall(w)
    <2>1. PICK c \in todo[w] : Begin(w, c) /\ todo' = [todo EXCEPT ![w] = @ \ {c}]
      BY <1>5 DEF NextCall
    <2>2. stage' = [stage EXCEPT ![w] = "lock"] /\ call' = [call EXCEPT ![w] = c]
      BY <2>1 DEF Begin, Goto
    <2>3. movements' = movements
      BY <1>5 DEF NextCall, repoVars
    <2> QED
      BY <1>1, <2>1, <2>2, <2>3, PlainMove
  <1>6. CASE InSection(w) \/ Deduct(w)
    <2>1. SectionStep(w) \/ ChangeBalance(w)
      BY <1>6 DEF InSection, Deduct
    <2>2. \A v \in Worker \ {w} : stage'[v] = stage[v] /\ call'[v] = call[v]
      BY <2>1, OneWorker DEF TypeOK
    <2>3. todo' = todo
      BY <1>6 DEF InSection, Deduct, handlerVars
    <2>4. \A i \in DOMAIN movements' : movements'[i].type # "RESERVATION_ADD"
      <3>1. PostMovement(w) \/ movements' = movements
        BY <2>1
           DEF SectionStep, LockBalance, LockRefused, ChangeRefused, PostFails, ReadBalance,
               CacheSkipped, CacheBalance, Unlock, ChangeBalance, AddAvailable,
               RemoveAvailable, ConfirmSale, repoVars
      <3> QED
        BY <1>1, <3>1, SalePosted1
    <2> QED
      BY <1>1, <2>1, <2>2, <2>3, <2>4, SectionPlain, PlainMove
  <1>7. CASE SectionOk(w) \/ SectionErr(w)
    BY <1>1, <1>7, PlainMove DEF SectionOk, SectionErr, Return, Goto, repoVars
  <1> QED
    BY <1>2, <1>3, <1>4, <1>5, <1>6, <1>7 DEF WorkerStep, InvoiceStep

\* A step that has nothing to do with reservations.
LEMMA ColumnCalm ==
  ASSUME NEW K, ColumnInv(K), NEW w \in Worker, UNCHANGED <<rsv, reserved>>,
         rows \subseteq rows', {pc[w], pc'[w]} \cap {"recalc", "write"} = {},
         \A v \in Worker \ {w} :
           pc'[v] = pc[v] /\ touched'[v] = touched[v] /\ sums'[v] = sums[v],
         DOMAIN sums' = DOMAIN sums
  PROVE  ColumnInv(K)'
  <1>1. \A k : OpenQty(k)' = OpenQty(k)
    BY OpenQtyStays
  <1>2. \A v \in Worker : \A k : Summing(v, k)' <=> Summing(v, k)
    BY DEF Summing
  <1>3. SnapshotsHold'
    <2>1. \A v \in Worker : pc'[v] = "write" => pc[v] = "write" /\ sums'[v] = sums[v]
      OBVIOUS
    <2> QED
      BY <1>1, <2>1 DEF ColumnInv, SnapshotsHold
  <1> QED
    BY <1>1, <1>2, <1>3 DEF ColumnInv

\* Most steps of a consumer are such steps.
LEMMA MostlyCalm ==
  ASSUME TypeOK, RemovesOnly, "db" \notin Faults, DOMAIN sums = Worker,
         NEW w \in Worker, WorkerStep(w),
         ~ Replace(w), ~ Confirm(w), ~ Recalc(w), ~ WriteReserved(w)
  PROVE  /\ UNCHANGED <<rsv, reserved>> /\ rows \subseteq rows'
         /\ {pc[w], pc'[w]} \cap {"recalc", "write"} = {}
         /\ \A v \in Worker \ {w} :
              pc'[v] = pc[v] /\ touched'[v] = touched[v] /\ sums'[v] = sums[v]
         /\ DOMAIN sums' = DOMAIN sums
  <1>1. /\ pc \in [Worker -> Pc] /\ touched \in [Worker -> SUBSET Product]
        /\ stage[w] = "change" => PlainCall(call[w])
    BY DEF TypeOK, HandlerTypeOK, RemovesOnly
  <1>2. CASE \/ LockOrder(w) \/ OrderBusy(w) \/ Publish(w) \/ LeaveOrder(w) \/ LoopDone(w)
             \/ CheckInvoice(w) \/ FindOpen(w) \/ PassClosed(w) \/ NothingOpen(w)
             \/ CountReservations(w) \/ CheckLegacy(w)
             \/ ListLegacy(w) \/ Direct(w) \/ NextCall(w) \/ SectionOk(w) \/ SectionErr(w)
    BY <1>1, <1>2
       DEF LockOrder, OrderBusy, Publish, LeaveOrder, CheckInvoice, FindOpen, PassClosed,
           NothingOpen, CountReservations, CheckLegacy, ListLegacy, Direct, NextCall,
           LoopDone, SectionOk,
           SectionErr, Decide, Jump, At, repoVars
  <1>3. CASE InSection(w)
    <2>1. UNCHANGED <<pc, touched, sums>> /\ pc[w] = "section"
      BY <1>3 DEF InSection, handlerVars, At
    <2>2. UNCHANGED <<rsv, reserved, rows>>
      BY <1>3
         DEF InSection, SectionStep, LockBalance, LockRefused, ChangeRefused, PostMovement,
             InsertMovement, PostFails, ReadBalance, CacheSkipped, CacheBalance, Unlock, repoVars
    <2> QED
      BY <2>1, <2>2
  <1>4. CASE Deduct(w)
    <2>1. UNCHANGED <<pc, touched, sums>> /\ pc[w] = "section"
      BY <1>4 DEF Deduct, handlerVars, At
    <2>2. stage[w] = "change" /\ call[w].change = "remove"
      BY <1>1, <1>4 DEF Deduct, ChangeBalance, PlainCall
    <2>3. RemoveAvailable(call[w].key, call[w].qty)
      BY <1>4, <2>2 DEF Deduct, ChangeBalance
    <2> QED
      BY <2>1, <2>3 DEF RemoveAvailable
  <1>5. CASE \E m \in Msg : Take(w, m)
    BY <1>1, <1>5 DEF Take, Jump, At, repoVars
  <1>6. CASE Ack(w) \/ Nack(w)
    <2>1. UNCHANGED repoVars /\ Forget(w) /\ pc[w] \in {"ack", "nack"}
      BY <1>6 DEF Ack, Nack, Settle, At
    <2> QED
      BY <1>1, <2>1 DEF Forget, Jump, repoVars
  <1>7. ~ Fails(w)
    BY DEF Fails
  <1> QED
    BY <1>2, <1>3, <1>4, <1>5, <1>6, <1>7 DEF WorkerStep, OrderStep, InvoiceStep

\* A transaction over the reservations of an order leaves the products it does
\* not recalculate as they were; the worker goes on to recalcReserved.
LEMMA ColumnReserves ==
  ASSUME NEW K, K \subseteq Keys, ColumnInv(K), NEW w \in Worker,
         UNCHANGED <<rows, reserved, sums>>,
         NEW products \in SUBSET Product,
         \A o \in Order : \A p \in Product \ products : rsv'[o][p] = rsv[o][p],
         \A v \in Worker : pc[v] # "write", pc[w] # "recalc", pc'[w] # "write",
         \A v \in Worker \ {w} : pc'[v] = pc[v] /\ touched'[v] = touched[v],
         products = {} \/ (pc'[w] = "recalc" /\ touched'[w] = products)
  PROVE  ColumnInv(K)'
  <1>1. SnapshotsHold'
    BY DEF SnapshotsHold
  <1>2. ASSUME NEW k \in K
        PROVE  reserved'[k] = OpenQty(k)' \/ \E v \in Worker : Summing(v, k)'
    <2>1. CASE k[1] \in products
      BY <2>1 DEF Summing
    <2>2. CASE k[1] \notin products
      <3>1. k[1] \in Product
        BY DEF Keys
      <3>2. OpenQty(k)' = OpenQty(k)
        BY <2>2, <3>1, OpenQtyStays
      <3>3. \A v \in Worker : Summing(v, k) => Summing(v, k)'
        BY DEF Summing
      <3> QED
        BY <3>2, <3>3 DEF ColumnInv
    <2> QED
      BY <2>1, <2>2
  <1> QED
    BY <1>1, <1>2 DEF ColumnInv

\* A reservation changes with those of a product that is recalculated.
LEMMA ReservesTouched ==
  ASSUME TypeOK, NEW w \in Worker
  PROVE  /\ Replace(w) => \A o \in Order : \A p \in Product \ Touched(OrderOf(w), Lines(job[w])) :
              rsv'[o][p] = rsv[o][p]
         /\ Confirm(w) => \A o \in Order : \A p \in Product \ ToConfirm(w) :
              rsv'[o][p] = rsv[o][p]
  <1>1. rsv \in [Order -> [Product -> Reservation]]
    BY DEF TypeOK, RepoTypeOK
  <1>2. ASSUME Replace(w), NEW o \in Order,
               NEW p \in Product \ Touched(OrderOf(w), Lines(job[w]))
        PROVE  rsv'[o][p] = rsv[o][p]
    <2>1. CASE o # OrderOf(w)
      BY <1>1, <1>2, <2>1 DEF Replace, ReplaceReservations
    <2>2. CASE o = OrderOf(w)
      <3>1. p \notin KeptProducts(Lines(job[w])) /\ rsv[o][p].status = "NONE"
        BY <2>2 DEF Touched
      <3>2. rsv'[o][p] = Replaced(rsv[o][p], Lines(job[w]), Body[job[w]].wh, p)
        BY <1>1, <1>2, <2>2 DEF Replace, ReplaceReservations
      <3> QED
        BY <3>1, <3>2 DEF Replaced
    <2> QED
      BY <2>1, <2>2
  <1> QED
    BY <1>2, ConfirmsOpen

\* recalcReserved: the snapshot covers the rows of its products, and what is
\* written is what a query computes as long as no reservation has changed.
LEMMA ColumnRecalc ==
  ASSUME NEW K, TypeOK, K \subseteq Keys, ColumnInv(K), NEW w \in Worker, Recalc(w)
  PROVE  ColumnInv(K)'
  <1>1. /\ pc \in [Worker -> Pc] /\ DOMAIN sums = Worker /\ DOMAIN sums' = Worker
        /\ pc' = [pc EXCEPT ![w] = "write"] /\ pc[w] = "recalc"
        /\ sums' = [sums EXCEPT ![w] = RecalcSnapshot(touched[w])]
        /\ UNCHANGED <<rows, reserved, rsv, touched>>
    BY DEF TypeOK, HandlerTypeOK, ColumnInv, Recalc, Jump, At, repoVars
  <1>2. \A k : OpenQty(k)' = OpenQty(k)
    BY <1>1, OpenQtyStays
  <1>3. SnapshotsHold'
    <2>1. \A k \in DOMAIN sums'[w] : sums'[w][k] = OpenQty(k)
      BY <1>1 DEF RecalcSnapshot
    <2> QED
      BY <1>1, <1>2, <2>1 DEF ColumnInv, SnapshotsHold
  <1>4. ASSUME NEW k \in K, NEW v \in Worker, Summing(v, k)
        PROVE  Summing(v, k)'
    <2>1. CASE v # w
      BY <1>1, <1>4, <2>1 DEF Summing
    <2>2. CASE v = w
      <3>1. k \in rows /\ k[1] \in touched[w]
        BY <1>1, <1>4, <2>2 DEF Summing, ColumnInv
      <3> QED
        BY <1>1, <2>2, <3>1 DEF Summing, RecalcSnapshot
    <2> QED
      BY <2>1, <2>2
  <1> QED
    BY <1>1, <1>2, <1>3, <1>4 DEF ColumnInv

LEMMA ColumnWrite ==
  ASSUME NEW K, TypeOK, K \subseteq Keys, ColumnInv(K), NEW w \in Worker, WriteReserved(w)
  PROVE  ColumnInv(K)'
  <1>1. /\ pc \in [Worker -> Pc] /\ DOMAIN sums = Worker /\ DOMAIN sums' = Worker
        /\ pc' = [pc EXCEPT ![w] = AfterRecalc(w)] /\ pc[w] = "write"
        /\ AfterRecalc(w) \notin {"recalc", "write"}
        /\ sums' = [sums EXCEPT ![w] = <<>>] /\ touched' = [touched EXCEPT ![w] = {}]
        /\ UNCHANGED <<rows, rsv>>
        /\ reserved' = [k \in Keys |-> IF k \in DOMAIN sums[w] THEN sums[w][k] ELSE reserved[k]]
        /\ touched \in [Worker -> SUBSET Product]
    BY DEF TypeOK, HandlerTypeOK, ColumnInv, WriteReserved, RecalcWrite, Jump, At, AfterRecalc
  <1>2. \A k : OpenQty(k)' = OpenQty(k)
    BY <1>1, OpenQtyStays
  <1>3. SnapshotsHold'
    BY <1>1, <1>2 DEF ColumnInv, SnapshotsHold
  <1>4. ASSUME NEW k \in K
        PROVE  reserved'[k] = OpenQty(k) \/ \E v \in Worker : Summing(v, k)'
    <2>1. CASE k \in DOMAIN sums[w]
      BY <1>1, <2>1 DEF ColumnInv, SnapshotsHold
    <2>2. CASE k \notin DOMAIN sums[w]
      <3>1. reserved'[k] = reserved[k] /\ ~ Summing(w, k)
        BY <1>1, <2>2 DEF Summing
      <3>2. \A v \in Worker \ {w} : Summing(v, k) => Summing(v, k)'
        BY <1>1 DEF Summing
      <3> QED
        BY <3>1, <3>2 DEF ColumnInv
    <2> QED
      BY <2>1, <2>2
  <1> QED
    BY <1>1, <1>2, <1>3, <1>4 DEF ColumnInv

\* A step of a consumer keeps the column, unless a reservation changes under a
\* recalculation.
LEMMA ColumnStep ==
  ASSUME NEW K, TypeOK, RemovesOnly, K \subseteq Keys, ColumnInv(K), "db" \notin Faults,
         NEW w \in Worker, WorkerStep(w), rsv' = rsv \/ \A v \in Worker : pc[v] # "write"
  PROVE  ColumnInv(K)'
  <1>1. /\ pc \in [Worker -> Pc] /\ DOMAIN sums = Worker
        /\ touched \in [Worker -> SUBSET Product] /\ touched' \in [Worker -> SUBSET Product]
    <2>1. TypeOK'
      BY TypeStep DEF Next
    <2> QED
      BY <2>1 DEF TypeOK, HandlerTypeOK, ColumnInv
  <1>2. CASE Recalc(w) \/ WriteReserved(w)
    BY <1>2, ColumnRecalc, ColumnWrite
  <1>3. CASE Replace(w)
    <2> DEFINE products == Touched(OrderOf(w), Lines(job[w]))
    <2>1. /\ UNCHANGED <<rows, reserved, sums>>
          /\ pc[w] = "replace" /\ touched' = [touched EXCEPT ![w] = products]
          /\ pc' = [pc EXCEPT ![w] = IF products = {} THEN AfterRecalc(w) ELSE "recalc"]
          /\ AfterRecalc(w) \notin {"recalc", "write"}
      BY <1>3 DEF Replace, ReplaceReservations, Jump, At, AfterRecalc
    <2>2. products \in SUBSET Product
      BY <1>1, <2>1
    <2>3. \A o \in Order : \A p \in Product \ products : rsv'[o][p] = rsv[o][p]
      BY <1>3, ReservesTouched
    <2> HIDE DEF products
    <2>4. CASE \A v \in Worker : pc[v] # "write"
      BY <1>1, <2>1, <2>2, <2>3, <2>4, ColumnReserves
    <2>5. CASE rsv' = rsv
      <3>1. \A k : OpenQty(k)' = OpenQty(k)
        BY <2>5, OpenQtyStays
      <3>2. \A v \in Worker : \A k : Summing(v, k) => Summing(v, k)'
        BY <1>1, <2>1 DEF Summing
      <3>3. SnapshotsHold'
        BY <1>1, <2>1, <3>1 DEF ColumnInv, SnapshotsHold
      <3> QED
        BY <2>1, <3>1, <3>2, <3>3 DEF ColumnInv
    <2> QED
      BY <2>4, <2>5
  <1>4. CASE Confirm(w)
    <2> DEFINE products == ToConfirm(w)
    <2>1. /\ UNCHANGED <<rows, reserved, sums>>
          /\ pc[w] = "confirming" /\ touched' = [touched EXCEPT ![w] = products]
          /\ pc' = [pc EXCEPT ![w] = "recalc"]
      BY <1>4 DEF Confirm, ConfirmReservations, Jump, At
    <2>2. products \in SUBSET Product
      BY DEF ToConfirm, StillOpen, OpenProducts
    <2>3. \A o \in Order : \A p \in Product \ products : rsv'[o][p] = rsv[o][p]
      BY <1>4, ReservesTouched
    <2> HIDE DEF products
    <2>4. CASE \A v \in Worker : pc[v] # "write"
      BY <1>1, <2>1, <2>2, <2>3, <2>4, ColumnReserves
    <2>5. CASE rsv' = rsv
      <3>1. \A k : OpenQty(k)' = OpenQty(k)
        BY <2>5, OpenQtyStays
      <3>2. \A v \in Worker : \A k : Summing(v, k) => Summing(v, k)'
        BY <1>1, <2>1 DEF Summing
      <3>3. SnapshotsHold'
        BY <1>1, <2>1, <3>1 DEF ColumnInv, SnapshotsHold
      <3> QED
        BY <2>1, <3>1, <3>2, <3>3 DEF ColumnInv
    <2> QED
      BY <2>4, <2>5
  <1> QED
    BY <1>1, <1>2, <1>3, <1>4, MostlyCalm, ColumnCalm

\* A consumer takes from a balance no more than the stored column leaves.
LEMMA SalesRemoveFree ==
  ASSUME TypeOK, RemovesOnly, NEW w \in Worker, WorkerStep(w), NEW k \in Keys,
         avail'[k] < avail[k]
  PROVE  avail'[k] >= reserved[k] /\ pc[w] = "section"
  <1>1. /\ RepoTypeOK /\ SectionTypeOK(CallTag)
        /\ stage[w] = "change" => call[w].change # "confirmSale"
    BY DEF TypeOK, RemovesOnly, PlainCall
  <1>2. CASE Deduct(w)
    BY <1>1, <1>2, RemovesFree DEF Deduct, ChangeBalance, At
  <1>3. CASE ~ Deduct(w)
    <2>1. avail \in [Keys -> Nat]
      BY <1>1 DEF RepoTypeOK
    <2>2. avail' = avail
      <3>1. InSection(w) => avail' = avail
        BY SectionReservesNothing DEF InSection
      <3> QED
        BY <1>3, <3>1
           DEF WorkerStep, OrderStep, LockOrder, OrderBusy, Replace, ReplaceReservations,
               Publish, LeaveOrder, InvoiceStep, CheckInvoice, FindOpen, PassClosed,
               Confirm, ConfirmReservations, NothingOpen, CountReservations, CheckLegacy,
               ListLegacy, Direct, Decide,
               NextCall, LoopDone, SectionOk, SectionErr, Recalc, WriteReserved, RecalcWrite,
               Fails, Ack, Nack, Settle, Take, repoVars
    <2> QED
      BY <2>1, <2>2
  <1> QED
    BY <1>2, <1>3

(***************************************************************************)
(* One sale of a line of an invoice                                        *)
(***************************************************************************)

\* The inductive form, for one invoice consumer.  The calls it has still to
\* make, or whose movements are still to come, are of its invoice and of
\* different balances, and the ledger shows none of them; it looks for
\* calls only while the ledger shows no sale of the invoice at all, and never
\* adds a RESERVATION_ADD to those a legacy order is sold from.
Unfinished == {"lock", "change", "post"}
Choosing == {"confirm", "confirming", "count", "legacy", "legacyList", "direct"}
ToSell(w, calls) ==
  /\ \A c \in calls : c.doc = InvoiceDoc(w) /\ ~ Shown("SALE_OUT", c.doc, c.key)
  /\ \A c, d \in calls : c.key = d.key => c = d
SaleList(w) ==
  /\ ToSell(w, todo[w])
  /\ stage[w] \in Unfinished =>
       /\ call[w].doc = InvoiceDoc(w) /\ ~ Shown("SALE_OUT", call[w].doc, call[w].key)
       /\ \A c \in todo[w] : c.key # call[w].key
  /\ pc[w] \in Choosing => ~ HasMovement(InvoiceDoc(w), "SALE_OUT")
SaleInv ==
  /\ ShownOnce("SALE_OUT", movements)
  /\ ShownOnce("RESERVATION_ADD", movements)
  /\ \A w \in InvoiceWorker : SaleList(w)

\* What the theorem asks of the messages: the expanded lines of an invoice
\* name a product once.
InvoiceLinesDiffer ==
  \A m \in InvoiceMsg : \A i, j \in Kept(Lines(m)) :
    Lines(m)[i].product = Lines(m)[j].product => i = j

\* Each of the three ways of selling (service.go:353-387) makes its calls on
\* different balances, all of them for the invoice.
LEMMA CallsToSell ==
  ASSUME RepoTypeOK, InvoiceLinesDiffer, ShownOnce("RESERVATION_ADD", movements),
         NEW w \in InvoiceWorker, job[w] \in InvoiceMsg,
         ~ HasMovement(InvoiceDoc(w), "SALE_OUT")
  PROVE  /\ ToSell(w, ReservationCalls(w))
         /\ ToSell(w, LegacyCalls(w))
         /\ ToSell(w, DirectCalls(w))
  <1>1. \A key : ~ Shown("SALE_OUT", InvoiceDoc(w), key)
    BY DEF HasMovement, Shown
  <1>2. ToSell(w, ReservationCalls(w))
    <2> DEFINE CallOf(p) == LoopCall(w, 0, "remove", <<p, SaleWarehouse(w, p)>>,
                                     rsv[OrderOf(w)][p].qty, TicketOf(OrderOf(w), p))
    <2>1. \A p : CallOf(p).doc = InvoiceDoc(w) /\ CallOf(p).key = <<p, SaleWarehouse(w, p)>>
      BY DEF LoopCall
    <2>2. ReservationCalls(w) = {CallOf(p) : p \in Sellable(w)}
      BY DEF ReservationCalls
    <2> HIDE DEF CallOf
    <2> QED
      BY <1>1, <2>1, <2>2 DEF ToSell
  <1>3. ToSell(w, LegacyCalls(w))
    <2> DEFINE feed == RecentMovements
               ofOrder == {i \in DOMAIN feed : /\ feed[i].doc = <<"SALES_ORDER", OrderOf(w)>>
                                               /\ feed[i].type = "RESERVATION_ADD"}
               CallOf(i) == LoopCall(w, i, "confirmSale", feed[i].key, feed[i].qty, NoTicket)
    <2>1. \A i : CallOf(i).doc = InvoiceDoc(w) /\ CallOf(i).key = feed[i].key
      BY DEF LoopCall
    <2>2. LegacyCalls(w) = {CallOf(i) : i \in ofOrder}
      BY DEF LegacyCalls
    <2>3. ASSUME NEW i \in ofOrder, NEW j \in ofOrder, feed[i].key = feed[j].key
          PROVE  i = j
      <3>1. /\ i \in Nat /\ j \in Nat /\ Len(movements) \in Nat
            /\ Len(movements) - i + 1 \in DOMAIN movements
            /\ Len(movements) - j + 1 \in DOMAIN movements
            /\ feed[i] = movements[Len(movements) - i + 1]
            /\ feed[j] = movements[Len(movements) - j + 1]
        BY RecentMovementsAt
      <3>2. Len(movements) - i + 1 = Len(movements) - j + 1
        BY <2>3, <3>1 DEF ShownOnce
      <3> QED
        BY <3>1, <3>2
    <2> HIDE DEF CallOf, feed, ofOrder
    <2> QED
      BY <1>1, <2>1, <2>2, <2>3 DEF ToSell
  <1>4. ToSell(w, DirectCalls(w))
    <2> DEFINE lines == Lines(job[w])
               CallOf(i) == ApplyCall(i, "SALE_OUT", <<lines[i].product, Body[job[w]].wh>>,
                                      lines[i].qty, InvoiceDoc(w), NoTicket)
    <2>1. \A i : /\ CallOf(i).doc = InvoiceDoc(w)
                 /\ CallOf(i).key = <<lines[i].product, Body[job[w]].wh>>
      BY DEF ApplyCall
    <2>2. DirectCalls(w) = {CallOf(i) : i \in Kept(lines)}
      BY DEF DirectCalls
    <2>3. \A i, j \in Kept(lines) : lines[i].product = lines[j].product => i = j
      BY DEF InvoiceLinesDiffer
    <2> HIDE DEF CallOf, lines
    <2> QED
      BY <1>1, <2>1, <2>2, <2>3 DEF ToSell
  <1> QED
    BY <1>2, <1>3, <1>4

\* A step of worker w that inserts no movement and adds no call keeps its list,
\* if it enters the section with a call it had or goes on with the one it has,
\* and has looked before it chooses.
LEMMA SaleListShrinks ==
  ASSUME NEW w \in InvoiceWorker, SaleList(w), movements' = movements, job'[w] = job[w],
         todo'[w] \subseteq todo[w],
         stage'[w] \in Unfinished =>
           \/ /\ stage[w] \in Unfinished
              /\ call'[w].doc = call[w].doc /\ call'[w].key = call[w].key
           \/ call'[w] \in todo[w] \ todo'[w],
         pc'[w] \in Choosing => pc[w] \in Choosing \/ ~ HasMovement(InvoiceDoc(w), "SALE_OUT")
  PROVE  SaleList(w)'
  <1>1. InvoiceDoc(w)' = InvoiceDoc(w)
    BY DEF InvoiceDoc
  <1>2. /\ \A c \in todo'[w] : c.doc = InvoiceDoc(w) /\ ~ Shown("SALE_OUT", c.doc, c.key)
        /\ \A c, d \in todo'[w] : c.key = d.key => c = d
    BY DEF SaleList, ToSell
  <1>3. stage'[w] \in Unfinished =>
          /\ call'[w].doc = InvoiceDoc(w)
          /\ ~ Shown("SALE_OUT", call'[w].doc, call'[w].key)
          /\ \A c \in todo'[w] : c.key # call'[w].key
    BY <1>2 DEF SaleList, ToSell
  <1>4. pc'[w] \in Choosing => ~ HasMovement(InvoiceDoc(w), "SALE_OUT")
    BY DEF SaleList
  <1>5. \A doc, key : Shown("SALE_OUT", doc, key)' <=> Shown("SALE_OUT", doc, key)
    BY DEF Shown
  <1>6. HasMovement(InvoiceDoc(w), "SALE_OUT")' <=> HasMovement(InvoiceDoc(w), "SALE_OUT")
    BY <1>1 DEF HasMovement
  <1> QED
    BY <1>1, <1>2, <1>3, <1>4, <1>5, <1>6 DEF SaleList, ToSell

\* What the ledger shows after an insert.
LEMMA AppendShown ==
  ASSUME RepoTypeOK, NEW m \in Movement, movements' = Append(movements, m), NEW type
  PROVE  /\ \A doc, key : Shown(type, doc, key)' <=>
              Shown(type, doc, key) \/ (m.type = type /\ m.doc = doc /\ m.key = key)
         /\ ShownOnce(type, movements) /\ (m.type = type => ~ Shown(type, m.doc, m.key))
              => ShownOnce(type, movements')
  <1>1. movements \in Seq(Movement)
    BY DEF RepoTypeOK
  <1>2. /\ Len(movements) \in Nat /\ DOMAIN movements = 1 .. Len(movements)
        /\ DOMAIN movements' = 1 .. Len(movements) + 1
        /\ \A i \in 1 .. Len(movements) : movements'[i] = movements[i]
        /\ movements'[Len(movements) + 1] = m
    BY <1>1, LenProperties, AppendProperties
  <1>3. /\ Len(movements) + 1 \in DOMAIN movements'
        /\ \A i \in DOMAIN movements : i \in DOMAIN movements' /\ movements'[i] = movements[i]
        /\ \A i \in DOMAIN movements' : i \in DOMAIN movements \/ i = Len(movements) + 1
    BY <1>2
  <1>4. \A doc, key : Shown(type, doc, key)' <=>
          Shown(type, doc, key) \/ (m.type = type /\ m.doc = doc /\ m.key = key)
    BY <1>2, <1>3 DEF Shown
  <1>5. ASSUME ShownOnce(type, movements), m.type = type => ~ Shown(type, m.doc, m.key),
               NEW i \in DOMAIN movements', NEW j \in DOMAIN movements',
               movements'[i].type = type, movements'[j].type = type,
               movements'[i].doc = movements'[j].doc, movements'[i].key = movements'[j].key
        PROVE  i = j
    BY <1>2, <1>3, <1>5 DEF ShownOnce, Shown
  <1> QED
    BY <1>4, <1>5 DEF ShownOnce

\* The insert of a movement of a sale (service.go:407-414, 441-448, 496): the call is
\* not shown yet, and is finished when it is.
LEMMA SalePosted ==
  ASSUME TypeOK, CallsSell, SaleInv, NEW w \in InvoiceWorker, InSection(w), PostMovement(w)
  PROVE  /\ ShownOnce("SALE_OUT", movements)' /\ ShownOnce("RESERVATION_ADD", movements)'
         /\ SaleList(w)'
  <1> DEFINE m == [type |-> Head(call[w].posts), key |-> call[w].key, qty |-> call[w].qty,
                   doc |-> call[w].doc]
  <1>1. w \in Worker
    BY SalesAssumption
  <1>2. /\ stage[w] = "post" /\ movements' = Append(movements, m) /\ Posted(w)
        /\ UNCHANGED <<pc, job, todo>> /\ pc[w] = "section"
    BY DEF PostMovement, InsertMovement, InSection, handlerVars, At
  <1>3. /\ call[w] \in Call(CallTag) /\ SaleCall(call[w])
        /\ stage \in [Worker -> Stage] /\ DOMAIN call = Worker /\ RepoTypeOK
    BY <1>1, <1>2 DEF TypeOK, SectionTypeOK, CallsSell
  <1>4. /\ Head(call[w].posts) \in {"RESERVATION_RELEASE", "SALE_OUT"}
        /\ Len(call[w].posts) # 1 => Head(call[w].posts) = "RESERVATION_RELEASE"
    BY <1>3 DEF SaleCall
  <1>5. m \in Movement /\ m.type = Head(call[w].posts) /\ m.key = call[w].key
        /\ m.doc = call[w].doc
    BY <1>3, <1>4 DEF Call, Movement, MovementType, OutTypes
  <1>6. /\ call[w].doc = InvoiceDoc(w) /\ ~ Shown("SALE_OUT", call[w].doc, call[w].key)
        /\ \A c \in todo[w] : c.key # call[w].key
        /\ ToSell(w, todo[w])
    BY <1>2 DEF SaleInv, SaleList, Unfinished
  <1> HIDE DEF m
  <1>7. ShownOnce("SALE_OUT", movements')
    BY <1>2, <1>3, <1>5, <1>6, AppendShown DEF SaleInv
  <1>8. ShownOnce("RESERVATION_ADD", movements')
    BY <1>2, <1>3, <1>4, <1>5, AppendShown DEF SaleInv
  <1>9. SaleList(w)'
    <2>1. InvoiceDoc(w)' = InvoiceDoc(w)
      BY <1>2 DEF InvoiceDoc
    <2>2. \A doc, key : Shown("SALE_OUT", doc, key)' <=>
            \/ Shown("SALE_OUT", doc, key)
            \/ m.type = "SALE_OUT" /\ m.doc = doc /\ m.key = key
      BY <1>2, <1>3, <1>5, AppendShown
    <2>3. ToSell(w, todo[w])'
      BY <1>2, <1>5, <1>6, <2>1, <2>2 DEF ToSell
    <2>4. stage'[w] \in Unfinished => Head(call[w].posts) = "RESERVATION_RELEASE"
      BY <1>1, <1>2, <1>3, <1>4 DEF Posted, Goto, Unfinished
    <2>5. call'[w].doc = call[w].doc /\ call'[w].key = call[w].key
      BY <1>1, <1>2, <1>3 DEF Posted, Call
    <2>6. pc'[w] \notin Choosing
      BY <1>2 DEF Choosing
    <2> QED
      BY <1>2, <1>5, <1>6, <2>1, <2>2, <2>3, <2>4, <2>5, <2>6 DEF SaleList
  <1> QED
    BY <1>7, <1>8, <1>9 DEF ShownOnce

\* Every other step of the invoice consumer keeps its list.
LEMMA SaleListKept ==
  ASSUME TypeOK, HandlerInv, InvoiceLinesDiffer, SaleInv, NEW w \in InvoiceWorker,
         WorkerStep(w) \/ Crash(w), ~ (InSection(w) /\ PostMovement(w))
  PROVE  movements' = movements /\ SaleList(w)'
  <1>1. w \in Worker /\ w \notin OrderWorker
    BY SalesAssumption
  <1>2. /\ pc \in [Worker -> Pc] /\ DOMAIN job = Worker /\ DOMAIN todo = Worker
        /\ stage \in [Worker -> Stage] /\ DOMAIN call = Worker /\ RepoTypeOK
        /\ pc[w] # "section" => stage[w] = "idle"
        /\ pc[w] # "idle" => job[w] \in InvoiceMsg
    BY <1>1 DEF TypeOK, HandlerTypeOK, SectionTypeOK, MsgOf
  <1>3. SaleList(w)
    BY DEF SaleInv
  <1>4. CASE (\E m \in Msg : Take(w, m)) \/ Ack(w) \/ Nack(w) \/ Crash(w)
    <2>1. todo[w] = {} \/ ~ \E m \in Msg : Take(w, m)
      BY <1>1 DEF HandlerInv, Take, At
    <2>2. movements' = movements /\ todo'[w] = {} /\ pc'[w] \notin Choosing
      BY <1>1, <1>2, <1>4, <2>1
         DEF Take, Ack, Nack, Settle, Crash, Forget, Jump, repoVars, Choosing
    <2>3. stage'[w] \notin Unfinished
      BY <1>1, <1>2, <1>4
         DEF Take, Ack, Nack, Settle, Crash, Killed, Goto, At, sectionVars, Unfinished
    <2> QED
      BY <2>2, <2>3 DEF SaleList, ToSell
  <1>5. CASE \/ CheckInvoice(w) \/ FindOpen(w) \/ PassClosed(w) \/ NothingOpen(w)
             \/ CountReservations(w) \/ CheckLegacy(w)
             \/ LoopDone(w)
    <2>1. UNCHANGED <<movements, job, todo, stage, call>>
      BY <1>5 DEF CheckInvoice, FindOpen, PassClosed, NothingOpen, CountReservations,
                  CheckLegacy, LoopDone, Decide,
                  repoVars, sectionVars
    <2>2. pc'[w] \in Choosing =>
            pc[w] \in Choosing \/ ~ HasMovement(InvoiceDoc(w), "SALE_OUT")
      BY <1>1, <1>2, <1>5 DEF CheckInvoice, FindOpen, PassClosed, NothingOpen,
                              CountReservations, CheckLegacy, LoopDone, Decide, Jump, At,
                              Choosing
    <2> QED
      BY <1>3, <2>1, <2>2, SaleListShrinks
  <1>6. CASE Recalc(w) \/ WriteReserved(w) \/ Fails(w)
    <2>1. /\ UNCHANGED <<movements, job, stage, call>>
          /\ todo' = todo \/ todo' = [todo EXCEPT ![w] = {}]
      BY <1>6 DEF Recalc, WriteReserved, RecalcWrite, Fails, repoVars, sectionVars
    <2>2. pc'[w] \notin Choosing
      BY <1>1, <1>2, <1>6, SalesAssumption
         DEF Recalc, WriteReserved, Fails, AfterRecalc, Jump, Choosing
    <2> QED
      BY <1>1, <1>2, <1>3, <2>1, <2>2, SaleListShrinks
  <1>7. CASE Confirm(w) \/ ListLegacy(w) \/ Direct(w)
    <2>1. /\ UNCHANGED <<movements, job, stage>>
          /\ pc[w] \in Choosing /\ stage[w] = "idle"
          /\ job[w] \in InvoiceMsg
      BY <1>2, <1>7 DEF Confirm, ConfirmReservations, ListLegacy, Direct, At, Choosing,
                        repoVars, sectionVars
    <2>2. pc'[w] \notin Choosing
      BY <1>1, <1>2, <1>7 DEF Confirm, ListLegacy, Direct, Jump, Choosing
    <2>3. ~ HasMovement(InvoiceDoc(w), "SALE_OUT")
      BY <1>3, <2>1 DEF SaleList
    <2>4. \/ todo'[w] = todo[w]
          \/ todo'[w] \in {ReservationCalls(w), LegacyCalls(w), DirectCalls(w)}
      BY <1>1, <1>2, <1>7 DEF Confirm, ListLegacy, Direct
    <2>5. ToSell(w, todo'[w])
      BY <1>2, <1>3, <2>1, <2>3, <2>4, CallsToSell DEF SaleInv, SaleList
    <2>6. ToSell(w, todo[w])'
      BY <2>1, <2>5 DEF ToSell, Shown, InvoiceDoc
    <2> QED
      BY <2>1, <2>2, <2>6 DEF SaleList, Unfinished
  <1>8. CASE NextCall(w)
    <2>1. PICK c \in todo[w] : Begin(w, c) /\ todo' = [todo EXCEPT ![w] = @ \ {c}]
      BY <1>8 DEF NextCall
    <2>2. UNCHANGED <<movements, job>> /\ pc'[w] \notin Choosing
      BY <1>1, <1>2, <1>8 DEF NextCall, Jump, repoVars, Choosing
    <2>3. call'[w] = c /\ todo'[w] = todo[w] \ {c}
      BY <1>1, <1>2, <2>1 DEF Begin
    <2> QED
      BY <1>3, <2>2, <2>3, SaleListShrinks
  <1>9. CASE SectionOk(w) \/ SectionErr(w)
    <2>1. /\ UNCHANGED <<movements, job>>
          /\ todo' = todo \/ todo' = [todo EXCEPT ![w] = {}]
          /\ pc'[w] \notin Choosing /\ stage'[w] = "idle"
      BY <1>1, <1>2, <1>9 DEF SectionOk, SectionErr, Return, Goto, Jump, repoVars, Choosing
    <2> QED
      BY <1>1, <1>2, <1>3, <2>1, SaleListShrinks DEF Unfinished
  <1>10. CASE InSection(w) \/ Deduct(w)
    <2>1. /\ UNCHANGED <<job, todo, pc>> /\ pc[w] = "section"
          /\ \/ ChangeBalance(w) \/ PostFails(w) \/ LockBalance(w) \/ LockRefused(w)
             \/ ChangeRefused(w) \/ ReadBalance(w) \/ CacheSkipped(w) \/ CacheBalance(w)
             \/ Unlock(w)
      BY <1>10 DEF InSection, Deduct, SectionStep, handlerVars, At
    <2>2. CASE PostFails(w)
      <3>1. movements' = movements /\ stage[w] = "post"
        BY <2>2 DEF PostFails, repoVars
      <3>2. call[w] \in Call(CallTag)
        BY <1>1, <3>1 DEF TypeOK, SectionTypeOK
      <3>3. call'[w].doc = call[w].doc /\ call'[w].key = call[w].key
        BY <1>1, <1>2, <2>2, <3>2 DEF PostFails, Posted, Call
      <3> QED
        BY <1>3, <2>1, <3>1, <3>3, SaleListShrinks DEF Unfinished, Choosing
    <2>3. CASE ~ PostFails(w)
      <3>1. /\ UNCHANGED <<movements, call>>
            /\ stage'[w] \in Unfinished => stage[w] \in Unfinished
        BY <1>1, <1>2, <2>1, <2>3
           DEF ChangeBalance, AddAvailable, RemoveAvailable, ConfirmSale, LockBalance,
               LockRefused, ChangeRefused, ReadBalance, CacheSkipped, CacheBalance, Unlock,
               Goto, repoVars, Unfinished
      <3> QED
        BY <1>3, <2>1, <3>1, SaleListShrinks DEF Choosing
    <2> QED
      BY <2>2, <2>3
  <1>11. ~ OrderStep(w)
    BY <1>1, WhoSteps DEF TypeOK
  <1> QED
    BY <1>4, <1>5, <1>6, <1>7, <1>8, <1>9, <1>10, <1>11 DEF WorkerStep, InvoiceStep

\* An order consumer inserts no movement.
LEMMA OrderInsertsNothing ==
  ASSUME TypeOK, HandlerInv, NEW w \in OrderWorker, WorkerStep(w) \/ Crash(w)
  PROVE  movements' = movements
  <1>1. w \in Worker /\ w \notin InvoiceWorker
    BY SalesAssumption
  <1>2. ~ InvoiceStep(w)
    BY <1>1, WhoSteps DEF TypeOK
  <1> QED
    BY <1>2 DEF WorkerStep, Take, OrderStep, LockOrder, OrderBusy, Replace,
                ReplaceReservations, Publish, LeaveOrder, Recalc, WriteReserved, RecalcWrite,
                Fails, Ack, Nack, Settle, Crash, repoVars

\* While no movement is inserted the ledger keeps its shape, and a worker that
\* does nothing its list.
LEMMA SaleListSame ==
  ASSUME NEW w \in InvoiceWorker, SaleList(w), movements' = movements, pc'[w] = pc[w],
         job'[w] = job[w], todo'[w] = todo[w], stage'[w] = stage[w], call'[w] = call[w]
  PROVE  SaleList(w)'
  BY SaleListShrinks

\* No step shows a sale twice.
LEMMA SaleStep ==
  ASSUME InvoiceLinesDiffer, \A v, w \in InvoiceWorker : v = w
  PROVE  TypeOK /\ HandlerInv /\ CallsSell /\ SaleInv /\ [Next]_vars => SaleInv'
  <1> SUFFICES ASSUME TypeOK, HandlerInv, CallsSell, SaleInv, [Next]_vars PROVE SaleInv'
    OBVIOUS
  <1>1. ASSUME movements' = movements
        PROVE  /\ ShownOnce("SALE_OUT", movements)'
               /\ ShownOnce("RESERVATION_ADD", movements)'
    BY <1>1 DEF SaleInv, ShownOnce
  <1>2. CASE UNCHANGED vars \/ \E n \in LockName : TtlRunsOut(n)
    <2>1. UNCHANGED <<movements, pc, job, todo, stage, call>>
      BY <1>2 DEF TtlRunsOut, LockExpires, vars, repoVars, handlerVars, sectionVars
    <2> QED
      BY <1>1, <2>1, SaleListSame DEF SaleInv
  <1>3. ASSUME NEW w \in OrderWorker, WorkerStep(w) \/ Crash(w) PROVE SaleInv'
    <2>1. movements' = movements
      BY <1>3, OrderInsertsNothing
    <2>2. \A v \in InvoiceWorker : v \in Worker \ {w} /\ w \in Worker
      BY SalesAssumption
    <2>3. \A v \in InvoiceWorker : SaleList(v)'
      BY <1>3, <2>1, <2>2, OthersWait, SaleListSame DEF SaleInv
    <2> QED
      BY <1>1, <2>1, <2>3 DEF SaleInv
  <1>4. ASSUME NEW w \in InvoiceWorker, WorkerStep(w) \/ Crash(w) PROVE SaleInv'
    <2>1. InvoiceWorker = {w}
      OBVIOUS
    <2>2. CASE InSection(w) /\ PostMovement(w)
      BY <2>1, <2>2, SalePosted DEF SaleInv
    <2>3. CASE ~ (InSection(w) /\ PostMovement(w))
      <3>1. movements' = movements /\ SaleList(w)'
        BY <1>4, <2>3, SaleListKept
      <3> QED
        BY <1>1, <2>1, <3>1 DEF SaleInv
    <2> QED
      BY <2>2, <2>3
  <1>5. Worker = OrderWorker \cup InvoiceWorker
    BY SalesAssumption
  <1> QED
    BY <1>2, <1>3, <1>4, <1>5 DEF Next

\* A worker that has sold is the invoice consumer, and its list says that the
\* ledger does not show the sale yet.
LEMMA SellsOnce ==
  ASSUME \A v, w \in InvoiceWorker : v = w, TypeOK, HandlerInv, SaleInv
  PROVE  InvoiceSoldOnce
  <1>1. \A w \in Selling : w \in InvoiceWorker /\ stage[w] \in Unfinished
    BY SalesAssumption DEF Selling, Unposted, HandlerInv, Unfinished
  <1> QED
    BY <1>1 DEF InvoiceSoldOnce, SaleInv, SaleList

\* While no statement fails and no process dies, what has left the balances is
\* what the ledger shows as sold and what a worker is about to insert, and no
\* line of an invoice is twice among these: no invoice takes a balance twice,
\* however often it arrives, is refused or is repeated, and even if locks expire
\* early.  With one invoice consumer the look for the invoice's movements
\* (service.go:345-351) is enough.  The messages name a product once in an
\* invoice, and the movements before the first message are none of sales and
\* show no reservation of an order twice.
THEOREM SalesInvoiceSoldOnce ==
  ASSUME \A v, w \in InvoiceWorker : v = w, InvoiceLinesDiffer,
         IsFiniteSet(Worker), Faults \cap {"db", "crash"} = {},
         \A i \in DOMAIN Backlog : Backlog[i].type # "SALE_OUT",
         ShownOnce("RESERVATION_ADD", Backlog)
  PROVE  Spec => [](InvoiceSoldOnce /\ LedgerExact)
  <1>1. Init => SaleInv
    <2> SUFFICES ASSUME Init PROVE SaleInv
      OBVIOUS
    <2>1. movements = Backlog
      BY DEF Init
    <2>2. ShownOnce("SALE_OUT", movements) /\ ShownOnce("RESERVATION_ADD", movements)
      BY <2>1 DEF ShownOnce
    <2>3. \A w \in InvoiceWorker : w \in Worker
      BY SalesAssumption
    <2>4. \A w \in InvoiceWorker : todo[w] = {} /\ stage[w] = "idle" /\ pc[w] = "idle"
      BY <2>3 DEF Init, SectionInit
    <2> QED
      BY <2>2, <2>4 DEF SaleInv, SaleList, ToSell, Unfinished, Choosing
  <1>2. TypeOK /\ HandlerInv /\ SaleInv => InvoiceSoldOnce
    BY SellsOnce
  <1>3. Spec => []LedgerExact
    BY SalesLedgerExact
  <1> QED
    BY <1>1, <1>2, <1>3, InitTypeOK, TypeStep, InitHandlerInv, HandlerStep, InitSells,
       SellsStep, SaleStep, PTL DEF Spec

(***************************************************************************)
(* Tickets: Replace opens reservations, Confirm hands their tickets out,   *)
(* NextCall and the section pass a ticket on, Deduct uses it up, and the   *)
(* others lose some or leave them alone.                                   *)
(***************************************************************************)

\* At first no ticket has been handed out.
LEMMA InitTickets == Init => TicketInv
  <1> SUFFICES ASSUME Init PROVE TicketInv
    OBVIOUS
  <1>1. \A w \in Worker : Held(w) = {}
    BY DEF Init, SectionInit, Held, CallTickets, TodoTickets
  <1>2. Pending = {} /\ taken = {}
    BY <1>1 DEF Init, Pending
  <1>3. \A o \in Order, p \in Product : rsv[o][p].status # "OPEN"
    BY DEF Init, NoReservation
  <1>4. TicketsExclusive
    BY <1>1, <1>2 DEF TicketsExclusive, Held, Init
  <1> QED
    BY <1>2, <1>3, <1>4 DEF TicketInv, OpenIsFresh, TicketsOpened

\* A step that brings no ticket up that was not pending or taken before.
LEMMA NoNewTicket ==
  ASSUME TicketInv, UNCHANGED <<rsv, gen>>,
         Pending' \cup taken' \subseteq Pending \cup taken
  PROVE  OpenIsFresh' /\ TicketsOpened'
  BY DEF TicketInv, OpenIsFresh, TicketsOpened, TicketOf

\* The tickets of the workers together, when each worker has no more of them
\* than before.
LEMMA PendingShrinks ==
  ASSUME \A v \in Worker : Held(v)' \subseteq Held(v)
  PROVE  Pending' \subseteq Pending
  BY DEF Pending

\* A step that adds no call to a list, but for calls without a ticket, and
\* lets no worker enter the section with one.
OnlyDrops ==
  /\ UNCHANGED <<rsv, gen, taken>>
  /\ \A v \in Worker : \A c \in todo'[v] : c.tag = NoTicket \/ c \in todo[v]
  /\ \A v \in Worker : CallTickets(v)' \subseteq CallTickets(v)

\* Such a step leaves every worker with no more tickets than it had.
LEMMA HeldShrinks ==
  ASSUME OnlyDrops
  PROVE  \A v \in Worker : TodoTickets(v)' \subseteq TodoTickets(v) /\ Held(v)' \subseteq Held(v)
  BY DEF OnlyDrops, TodoTickets, Held

\* It keeps the ticket invariant.
LEMMA TicketsDropped ==
  ASSUME TicketInv, OnlyDrops
  PROVE  TicketInv'
  <1>1. \A v \in Worker : TodoTickets(v)' \subseteq TodoTickets(v) /\ Held(v)' \subseteq Held(v)
    BY HeldShrinks
  <1>2. Pending' \subseteq Pending
    BY <1>1, PendingShrinks
  <1>3. TicketsExclusive'
    BY <1>1, <1>2 DEF TicketInv, TicketsExclusive, OnlyDrops
  <1> QED
    BY <1>2, <1>3, NoNewTicket DEF TicketInv, OnlyDrops

\* A worker that is in no section, or past the change of the balance, has no
\* ticket in its call.
LEMMA CallTicketsStay ==
  ASSUME NEW w \in Worker, stage' = stage, call' = call
  PROVE  CallTickets(w)' \subseteq CallTickets(w)
  BY DEF CallTickets

\* The steps of the handlers that drop tickets or leave them alone.
LEMMA HandlerDrops ==
  ASSUME TypeOK, NEW w \in Worker,
         \/ \E m \in Msg : Take(w, m)
         \/ LockOrder(w) \/ OrderBusy(w) \/ Publish(w) \/ LeaveOrder(w)
         \/ CheckInvoice(w) \/ FindOpen(w) \/ PassClosed(w) \/ NothingOpen(w)
         \/ CountReservations(w) \/ CheckLegacy(w)
         \/ LoopDone(w) \/ Recalc(w) \/ WriteReserved(w)
  PROVE  OnlyDrops
  <1>1. UNCHANGED <<rsv, gen, taken, todo, stage, call>>
    BY DEF Take, LockOrder, OrderBusy, Publish, LeaveOrder, CheckInvoice, FindOpen,
           PassClosed, NothingOpen,
           CountReservations, CheckLegacy, LoopDone, Recalc, WriteReserved, Decide,
           RecalcWrite, repoVars, sectionVars, history
  <1> QED
    BY <1>1, CallTicketsStay DEF OnlyDrops

\* Sales without a reservation, and the ends of a handler.
LEMMA EndsDrop ==
  ASSUME TypeOK, NEW w \in Worker,
         ListLegacy(w) \/ Direct(w) \/ Fails(w) \/ Ack(w) \/ Nack(w) \/ Crash(w)
  PROVE  OnlyDrops
  <1>1. todo \in [Worker -> SUBSET Call(CallTag)] /\ stage \in [Worker -> Stage]
    BY DEF TypeOK, HandlerTypeOK, SectionTypeOK
  <1>2. UNCHANGED <<rsv, gen, taken>>
    BY DEF ListLegacy, Direct, Fails, Ack, Nack, Settle, Crash, repoVars, history
  <1>3. \A v \in Worker : \A c \in todo'[v] : c.tag = NoTicket \/ c \in todo[v]
    <2>1. CASE ListLegacy(w)
      <3>1. \A c \in LegacyCalls(w) : c.tag = NoTicket
        BY DEF LegacyCalls, LoopCall
      <3> QED
        BY <1>1, <2>1, <3>1 DEF ListLegacy
    <2>2. CASE Direct(w)
      <3>1. \A c \in DirectCalls(w) : c.tag = NoTicket
        BY DEF DirectCalls, ApplyCall
      <3> QED
        BY <1>1, <2>2, <3>1 DEF Direct
    <2>3. CASE Fails(w) \/ Ack(w) \/ Nack(w) \/ Crash(w)
      BY <1>1, <2>3 DEF Fails, Ack, Nack, Settle, Crash, Forget
    <2> QED
      BY <2>1, <2>2, <2>3
  <1>4. \A v \in Worker : CallTickets(v)' \subseteq CallTickets(v)
    <2>1. CASE Crash(w)
      BY <1>1, <2>1 DEF Crash, Killed, Goto, CallTickets
    <2>2. CASE ListLegacy(w) \/ Direct(w) \/ Fails(w) \/ Ack(w) \/ Nack(w)
      <3>1. stage' = stage /\ call' = call
        BY <2>2 DEF ListLegacy, Direct, Fails, Ack, Nack, Settle, sectionVars
      <3> QED
        BY <3>1, CallTicketsStay
    <2> QED
      BY <2>1, <2>2
  <1> QED
    BY <1>2, <1>3, <1>4 DEF OnlyDrops

\* Inside the section a ticket can only be dropped, by the steps other than
\* the change of the balance.
LEMMA SectionDrops ==
  ASSUME TypeOK, NEW w \in Worker,
         InSection(w) \/ SectionOk(w) \/ SectionErr(w)
  PROVE  OnlyDrops
  <1>1. /\ todo \in [Worker -> SUBSET Call(CallTag)] /\ stage \in [Worker -> Stage]
        /\ DOMAIN call = Worker
    BY DEF TypeOK, HandlerTypeOK, SectionTypeOK
  <1>2. UNCHANGED <<rsv, gen, taken>>
    BY DEF InSection, SectionStep, LockBalance, LockRefused, ChangeRefused, PostMovement,
           InsertMovement, PostFails, ReadBalance, CacheSkipped, CacheBalance, Unlock,
           SectionOk, SectionErr, repoVars, history
  <1>3. \A v \in Worker : \A c \in todo'[v] : c \in todo[v]
    BY <1>1 DEF InSection, SectionOk, SectionErr, handlerVars
  <1>4. \A v \in Worker \ {w} : CallTickets(v)' \subseteq CallTickets(v)
    BY <1>1 DEF InSection, SectionStep, LockBalance, LockRefused, ChangeRefused,
           PostMovement, PostFails, Posted, ReadBalance, CacheSkipped, CacheBalance, Unlock,
           SectionOk, SectionErr, Return, Goto, CallTickets
  <1>5. CallTickets(w)' \subseteq CallTickets(w)
    <2>1. CASE LockBalance(w)
      BY <1>1, <2>1 DEF LockBalance, Goto, CallTickets
    <2>2. CASE stage'[w] \notin {"lock", "change"}
      BY <2>2 DEF CallTickets
    <2> QED
      BY <1>1, <2>1, <2>2
         DEF InSection, SectionStep, LockRefused, ChangeRefused, PostMovement, PostFails,
             Posted, ReadBalance, CacheSkipped, CacheBalance, Unlock, SectionOk, SectionErr,
             Return, Goto
  <1> QED
    BY <1>2, <1>3, <1>4, <1>5 DEF OnlyDrops

\* The expiry of a lock touches no ticket.
LEMMA ExpiryDrops ==
  ASSUME NEW n \in LockName, TtlRunsOut(n)
  PROVE  OnlyDrops
  <1>1. UNCHANGED <<rsv, gen, taken, todo, stage, call>>
    BY DEF TtlRunsOut, LockExpires, repoVars, sectionVars, handlerVars, history
  <1> QED
    BY <1>1, CallTicketsStay DEF OnlyDrops

\* A reservation that is opened gets a number no ticket has yet, so the ticket
\* of an earlier opening stays different from the one to come.
LEMMA ReplaceKeepsTickets ==
  ASSUME TypeOK, TicketInv, NEW w \in Worker, Replace(w)
  PROVE  TicketInv'
  <1> DEFINE o == OrderOf(w)
             lines == Lines(job[w])
             wh == Body[job[w]].wh
  <1>1. /\ o \in Order /\ gen \in [Order -> [Product -> Nat]]
        /\ rsv \in [Order -> [Product -> Reservation]]
    BY DEF TypeOK, HandlerTypeOK, RepoTypeOK, Replace, At
  <1>2. /\ UNCHANGED <<todo, stage, call, taken>>
        /\ gen' = [gen EXCEPT ![o] =
                     [p \in Product |-> IF Opens(o, p, lines) THEN @[p] + 1 ELSE @[p]]]
        /\ rsv' = [rsv EXCEPT ![o] = [p \in Product |-> Replaced(@[p], lines, wh, p)]]
    BY DEF Replace, ReplaceReservations, sectionVars
  <1> HIDE DEF o, lines, wh
  <1>3. \A v \in Worker : /\ Held(v)' = Held(v) /\ CallTickets(v)' = CallTickets(v)
                          /\ TodoTickets(v)' = TodoTickets(v)
    BY <1>2 DEF Held, CallTickets, TodoTickets
  <1>4. Pending' = Pending
    BY <1>3 DEF Pending
  <1>5. TicketsExclusive'
    BY <1>2, <1>3, <1>4 DEF TicketInv, TicketsExclusive
  <1>6. ASSUME NEW o2 \in Order, NEW p \in Product
        PROVE  gen'[o2][p] = IF o2 = o /\ Opens(o, p, lines)
                             THEN gen[o2][p] + 1 ELSE gen[o2][p]
    BY <1>1, <1>2
  <1>7. TicketsOpened'
    <2> SUFFICES ASSUME NEW t \in Pending \cup taken PROVE t[3] <= gen'[t[1]][t[2]]
      BY <1>2, <1>4 DEF TicketsOpened
    <2>1. t \in Ticket /\ t[3] <= gen[t[1]][t[2]]
      <3>1. taken \subseteq Ticket
        BY DEF TypeOK
      <3>2. \A v \in Worker : Held(v) \subseteq Ticket
        <4> TAKE v \in Worker
        <4>1. TodoTickets(v) \subseteq Ticket
          BY DEF TypeOK, HandlerTypeOK, TodoTickets, Call, CallTag
        <4>2. CallTickets(v) \subseteq Ticket
          BY DEF TypeOK, SectionTypeOK, CallTickets, Call, CallTag
        <4> QED
          BY <4>1, <4>2 DEF Held
      <3> QED
        BY <3>1, <3>2 DEF Pending, TicketInv, TicketsOpened
    <2>2. t[1] \in Order /\ t[2] \in Product /\ t[3] \in Nat /\ gen[t[1]][t[2]] \in Nat
      BY <2>1, <1>1 DEF Ticket
    <2> QED
      BY <2>1, <2>2, <1>6
  <1>8. OpenIsFresh'
    <2> SUFFICES ASSUME NEW o2 \in Order, NEW p \in Product, rsv'[o2][p].status = "OPEN"
                 PROVE  <<o2, p, gen'[o2][p]>> \notin Pending \cup taken
      BY <1>2, <1>4 DEF OpenIsFresh, TicketOf
    <2>1. CASE o2 = o /\ Opens(o, p, lines)
      <3>1. gen'[o2][p] = gen[o2][p] + 1 /\ gen[o2][p] \in Nat
        BY <1>1, <1>6, <2>1
      <3>2. <<o2, p, gen'[o2][p]>> \in Pending \cup taken => gen'[o2][p] <= gen[o2][p]
        BY DEF TicketInv, TicketsOpened
      <3> QED
        BY <3>1, <3>2
    <2>2. CASE ~ (o2 = o /\ Opens(o, p, lines))
      <3>1. rsv[o2][p].status = "OPEN"
        <4>1. CASE o2 = o
          <5>1. rsv'[o2][p] = Replaced(rsv[o2][p], lines, wh, p) /\ rsv[o2][p] \in Reservation
            BY <1>1, <1>2, <4>1
          <5> QED
            BY <5>1, <2>2, <4>1 DEF Replaced, Opens, Reservation, Status
        <4> QED
          BY <1>1, <1>2, <4>1
      <3> QED
        BY <3>1, <1>6, <2>2 DEF TicketInv, OpenIsFresh, TicketOf
    <2> QED
      BY <2>1, <2>2
  <1> QED
    BY <1>5, <1>7, <1>8 DEF TicketInv

\* Confirming an order's reservations hands out a ticket for each that is to
\* be sold, and one no other worker has: the UPDATE finds each row open once.
LEMMA ConfirmKeepsTickets ==
  ASSUME TypeOK, TicketInv, NEW w \in Worker, Confirm(w)
  PROVE  TicketInv'
  <1> DEFINE o == OrderOf(w)
             new == {TicketOf(o, p) : p \in Sellable(w)}
  <1>1. /\ o \in Order /\ stage[w] = "idle" /\ gen \in [Order -> [Product -> Nat]]
        /\ rsv \in [Order -> [Product -> Reservation]]
        /\ todo \in [Worker -> SUBSET Call(CallTag)]
    BY DEF TypeOK, HandlerTypeOK, RepoTypeOK, Confirm, At
  <1>2. /\ UNCHANGED <<stage, call, taken, gen>>
        /\ todo' = [todo EXCEPT ![w] = ReservationCalls(w)]
    BY DEF Confirm, sectionVars, history
  <1>3. new \cap (Pending \cup taken) = {}
    BY <1>1 DEF TicketInv, OpenIsFresh, Sellable, ToConfirm, StillOpen, OpenProducts
  <1>4. new \subseteq Ticket /\ NoTicket \notin new
    BY <1>1, SalesAssumption DEF Sellable, ToConfirm, StillOpen, OpenProducts, TicketOf, Ticket
  <1>5. /\ TodoTickets(w)' = new
        /\ \A c, d \in todo'[w] : c.tag = d.tag => c = d
    <2>1. todo'[w] = ReservationCalls(w)
      BY <1>1, <1>2
    <2> DEFINE CallOf(p) == LoopCall(w, 0, "remove", <<p, SaleWarehouse(w, p)>>,
                                     rsv[OrderOf(w)][p].qty, TicketOf(OrderOf(w), p))
    <2>2. ReservationCalls(w) = {CallOf(p) : p \in Sellable(w)}
      BY DEF ReservationCalls
    <2>3. \A p : CallOf(p).tag = <<o, p, gen[o][p]>> /\ TicketOf(o, p) = <<o, p, gen[o][p]>>
      BY DEF LoopCall, TicketOf
    <2> HIDE DEF CallOf, o
    <2>4. {c.tag : c \in ReservationCalls(w)} = new
      BY <2>2, <2>3
    <2>5. \A c, d \in ReservationCalls(w) : c.tag = d.tag => c = d
      BY <2>2, <2>3
    <2>6. TodoTickets(w)' = new \ {NoTicket}
      BY <2>1, <2>4 DEF TodoTickets
    <2> QED
      BY <2>1, <2>5, <2>6, <1>4
  <1>6. CallTickets(w)' = {}
    BY <1>1, <1>2 DEF CallTickets
  <1>7. \A v \in Worker \ {w} : /\ Held(v)' = Held(v) /\ CallTickets(v)' = CallTickets(v)
                                /\ TodoTickets(v)' = TodoTickets(v)
                                /\ todo'[v] = todo[v]
    BY <1>1, <1>2 DEF Held, CallTickets, TodoTickets
  <1>8. Held(w)' = new
    BY <1>5, <1>6 DEF Held
  <1>9. Pending' \subseteq Pending \cup new
    BY <1>7, <1>8 DEF Pending
  <1> HIDE DEF new, o
  <1>10. \A v \in Worker : Held(v) \subseteq Pending
    BY DEF Pending
  <1>11. TicketsExclusive'
    <2>1. \A v, u \in Worker : v # u => (Held(v) \cap Held(u))' = {}
      BY <1>3, <1>7, <1>8, <1>10 DEF TicketInv, TicketsExclusive
    <2>2. \A v \in Worker : (CallTickets(v) \cap TodoTickets(v))' = {}
      BY <1>6, <1>7 DEF TicketInv, TicketsExclusive
    <2>3. \A v \in Worker : \A c, d \in todo'[v] : c.tag = d.tag /\ c.tag # NoTicket => c = d
      BY <1>5, <1>7 DEF TicketInv, TicketsExclusive
    <2>4. (Pending \cap taken)' = {}
      BY <1>2, <1>3, <1>9 DEF TicketInv, TicketsExclusive
    <2> QED
      BY <2>1, <2>2, <2>3, <2>4 DEF TicketsExclusive
  <1>12. TicketsOpened'
    <2>1. \A t \in new : t[3] <= gen[t[1]][t[2]]
      BY <1>1 DEF new, TicketOf, Sellable, ToConfirm, StillOpen, OpenProducts
    <2> QED
      BY <2>1, <1>2, <1>9 DEF TicketInv, TicketsOpened
  <1>13. OpenIsFresh'
    <2> SUFFICES ASSUME NEW o2 \in Order, NEW p \in Product, rsv'[o2][p].status = "OPEN"
                 PROVE  TicketOf(o2, p) \notin Pending' \cup taken
      BY <1>2 DEF OpenIsFresh, TicketOf
    <2>1. rsv[o2][p].status = "OPEN" /\ ~ (o2 = o /\ p \in ToConfirm(w))
      <3>1. rsv[o2][p] \in Reservation
        BY <1>1
      <3> QED
        BY <3>1, ConfirmsOpen DEF o, Reservation
    <2>2. TicketOf(o2, p) \notin new
      BY <2>1 DEF new, TicketOf, Sellable
    <2>3. rsv[o2][p].status = "OPEN"
      BY <2>1
    <2> QED
      BY <2>2, <2>3, <1>9 DEF TicketInv, OpenIsFresh
  <1> QED
    BY <1>11, <1>12, <1>13 DEF TicketInv

\* The next call takes its ticket from the list into the section.
LEMMA NextCallPasses ==
  ASSUME TypeOK, TicketInv, NEW w \in Worker, NextCall(w)
  PROVE  /\ UNCHANGED <<rsv, gen, taken>>
         /\ \A v \in Worker : /\ Held(v)' = Held(v)
                              /\ CallTickets(v)' \cap TodoTickets(v)' = {}
                              /\ todo'[v] \subseteq todo[v]
  <1>1. /\ todo \in [Worker -> SUBSET Call(CallTag)] /\ stage \in [Worker -> Stage]
        /\ DOMAIN call = Worker
    BY DEF TypeOK, HandlerTypeOK, SectionTypeOK
  <1>2. PICK c \in todo[w] : Begin(w, c) /\ todo' = [todo EXCEPT ![w] = @ \ {c}]
    BY DEF NextCall
  <1>3. UNCHANGED <<rsv, gen, taken>>
    BY DEF NextCall, repoVars, history
  <1>4. /\ CallTickets(w)' = {c.tag} \ {NoTicket}
        /\ todo'[w] = todo[w] \ {c}
    BY <1>1, <1>2 DEF Begin, Goto, CallTickets
  <1>5. /\ CallTickets(w) = {} /\ CallTickets(w)' \cup TodoTickets(w)' = TodoTickets(w)
        /\ CallTickets(w)' \cap TodoTickets(w)' = {}
    <2>1. stage[w] = "idle"
      BY <1>2 DEF Begin
    <2>2. TodoTickets(w)' = {d.tag : d \in todo[w] \ {c}} \ {NoTicket}
      BY <1>4 DEF TodoTickets
    <2>3. \A d \in todo[w] : d.tag = c.tag /\ d.tag # NoTicket => d = c
      BY <1>2 DEF TicketInv, TicketsExclusive
    <2> QED
      BY <1>2, <1>4, <2>1, <2>2, <2>3 DEF CallTickets, TodoTickets
  <1>6. \A v \in Worker \ {w} : /\ Held(v)' = Held(v) /\ CallTickets(v)' = CallTickets(v)
                                /\ TodoTickets(v)' = TodoTickets(v)
                                /\ todo'[v] = todo[v]
    BY <1>1, <1>2 DEF Begin, Goto, Held, CallTickets, TodoTickets
  <1> QED
    BY <1>3, <1>4, <1>5, <1>6 DEF Held, TicketInv, TicketsExclusive

\* So the ticket invariant is kept.
LEMMA NextCallKeepsTickets ==
  ASSUME TypeOK, TicketInv, NEW w \in Worker, NextCall(w)
  PROVE  TicketInv'
  <1>1. Pending' \subseteq Pending
    BY NextCallPasses, PendingShrinks
  <1>2. TicketsExclusive'
    BY <1>1, NextCallPasses DEF TicketInv, TicketsExclusive
  <1> QED
    BY <1>1, <1>2, NextCallPasses, NoNewTicket DEF TicketInv

\* The change of the balance turns the ticket of the call from pending into
\* taken.
LEMMA DeductKeepsTickets ==
  ASSUME TypeOK, TicketInv, NEW w \in Worker, Deduct(w)
  PROVE  TicketInv'
  <1>1. /\ stage \in [Worker -> Stage] /\ stage[w] = "change"
    BY DEF TypeOK, SectionTypeOK, Deduct, ChangeBalance
  <1>2. UNCHANGED <<rsv, gen, todo, call>> /\ stage' = [stage EXCEPT ![w] = "post"]
    BY DEF Deduct, ChangeBalance, AddAvailable, RemoveAvailable, ConfirmSale, Goto,
           handlerVars
  <1>3. taken' = taken \cup CallTickets(w)
    BY <1>1 DEF Deduct, CallTickets
  <1>4. CallTickets(w)' = {} /\ \A v \in Worker : TodoTickets(v)' = TodoTickets(v)
    BY <1>1, <1>2 DEF CallTickets, TodoTickets
  <1>5. \A v \in Worker \ {w} : CallTickets(v)' = CallTickets(v)
    BY <1>1, <1>2 DEF CallTickets
  <1>6. \A v \in Worker : Held(v)' \subseteq Held(v) /\ Held(v)' \cap CallTickets(w) = {}
    BY <1>4, <1>5 DEF Held, TicketInv, TicketsExclusive
  <1>7. Pending' \subseteq Pending /\ Pending' \cap CallTickets(w) = {}
    BY <1>6, PendingShrinks DEF Pending
  <1>8. CallTickets(w) \subseteq Pending
    BY DEF Pending, Held
  <1>9. TicketsExclusive'
    BY <1>2, <1>3, <1>4, <1>5, <1>6, <1>7 DEF TicketInv, TicketsExclusive
  <1> QED
    BY <1>2, <1>3, <1>7, <1>8, <1>9, NoNewTicket DEF TicketInv

\* The groups of steps.
LEMMA StepKinds ==
  ASSUME TypeOK, NEW w \in Worker, WorkerStep(w) \/ Crash(w)
  PROVE  OnlyDrops \/ Replace(w) \/ Confirm(w) \/ NextCall(w) \/ Deduct(w)
  BY HandlerDrops, EndsDrop, SectionDrops DEF WorkerStep, OrderStep, InvoiceStep

\* No step breaks the ticket invariant.
LEMMA TicketStep == TypeOK /\ TicketInv /\ [Next]_vars => TicketInv'
  <1> SUFFICES ASSUME TypeOK, TicketInv, [Next]_vars PROVE TicketInv'
    OBVIOUS
  <1>1. CASE UNCHANGED vars
    <2>1. UNCHANGED <<rsv, gen, taken, todo, stage, call>>
      BY <1>1 DEF vars, repoVars, sectionVars, handlerVars, history
    <2> QED
      BY <2>1, CallTicketsStay, TicketsDropped DEF OnlyDrops
  <1>2. ASSUME NEW w \in Worker, WorkerStep(w) \/ Crash(w) PROVE TicketInv'
    BY <1>2, StepKinds, TicketsDropped, ReplaceKeepsTickets, ConfirmKeepsTickets,
       NextCallKeepsTickets, DeductKeepsTickets
  <1>3. ASSUME NEW n \in LockName, TtlRunsOut(n) PROVE TicketInv'
    BY <1>3, ExpiryDrops, TicketsDropped
  <1> QED
    BY <1>1, <1>2, <1>3 DEF Next

\* A confirmed reservation is in one worker's hands and in one of its calls,
\* for any number of replicas, invoices and redeliveries and whatever locks
\* expire: the UPDATE .. RETURNING of ConfirmReservations
\* (stock_repo.go:200-204) is enough.
THEOREM TicketsHold == Spec => []TicketInv
  BY InitTypeOK, TypeStep, InitTickets, TicketStep, PTL DEF Spec

\* A ticket in a call is not used up yet.
LEMMA CallTicketUnused ==
  ASSUME TypeOK, TicketInv, NEW w \in Worker, stage[w] = "change"
  PROVE  call[w].tag \notin taken
  <1>1. CASE call[w].tag = NoTicket
    BY <1>1, SalesAssumption DEF TypeOK
  <1>2. CASE call[w].tag # NoTicket
    <2>1. call[w].tag \in Pending
      BY <1>2 DEF Pending, Held, CallTickets
    <2> QED
      BY <2>1 DEF TicketInv, TicketsExclusive
  <1> QED
    BY <1>1, <1>2

\* Hence the stock of a confirmed reservation leaves at most once
\* (service.go:353-361, 389-421).
THEOREM SoldOnce == Spec => SoldAtMostOnce
  <1>1. ASSUME TypeOK, TicketInv
        PROVE  \A w \in Worker :
                 stage[w] = "change" /\ stage'[w] = "post" => call[w].tag \notin taken
    BY <1>1, CallTicketUnused
  <1> QED
    BY <1>1, InitTypeOK, TypeStep, InitTickets, TicketStep, PTL DEF Spec, SoldAtMostOnce

(***************************************************************************)
(* The consumers implement OrderTickets                                    *)
(***************************************************************************)

\* A step that leaves the reservations alone and hands out no ticket loses the
\* tickets that are gone.
LEMMA DropIsLose ==
  ASSUME UNCHANGED <<rsv, gen, taken>>, \A v \in Worker : Held(v)' \subseteq Held(v)
  PROVE  Promise!Next
  <1> DEFINE T == Pending \ Pending'
  <1>1. Pending' = Pending \ T
    BY PendingShrinks
  <1>2. T \in SUBSET Pending
    OBVIOUS
  <1>3. Promise!Lose(T)
    BY <1>1 DEF Promise!Lose
  <1> QED
    BY <1>2, <1>3 DEF Promise!Next

\* An order event reserves the products of its lines (stock_repo.go:131-193).
LEMMA ReplaceIsReserve ==
  ASSUME TypeOK, NEW w \in Worker, Replace(w)
  PROVE  Promise!Next
  <1> DEFINE o == OrderOf(w)
             lines == Lines(job[w])
             P == KeptProducts(lines)
  <1>1. o \in Order /\ lines \in Seq(Line) /\ gen \in [Order -> [Product -> Nat]]
    BY BodyType DEF TypeOK, HandlerTypeOK, Replace, At
  <1>2. rsv \in [Order -> [Product -> Reservation]]
    BY DEF TypeOK, RepoTypeOK
  <1>3. P \in SUBSET Product
    <2>1. \A i \in Kept(lines) : lines[i] \in Line
      BY <1>1, ElementOfSeq DEF Kept
    <2> QED
      BY <2>1 DEF KeptProducts, Line
  <1>4. Pending' = Pending /\ taken' = taken
    <2>1. UNCHANGED <<todo, stage, call, taken>>
      BY DEF Replace, sectionVars
    <2>2. \A v \in Worker : Held(v)' = Held(v)
      BY <2>1 DEF Held, CallTickets, TodoTickets
    <2> QED
      BY <2>1, <2>2 DEF Pending
  <1>5. /\ gen' = [gen EXCEPT ![o] =
                     [p \in Product |-> IF Opens(o, p, lines) THEN @[p] + 1 ELSE @[p]]]
        /\ rsv' = [rsv EXCEPT ![o] =
                     [p \in Product |-> Replaced(@[p], lines, Body[job[w]].wh, p)]]
    BY DEF Replace, ReplaceReservations
  <1>6. Promise!Reserve(o, P)
    <2> HIDE DEF o, lines
    <2>1. \A p \in Product :
            Replaced(rsv[o][p], lines, Body[job[w]].wh, p).status =
              IF p \in P THEN "OPEN" ELSE IF rsv[o][p].status = "OPEN" THEN "RELEASED"
              ELSE rsv[o][p].status
      BY <1>1, <1>2 DEF Replaced, Reservation
    <2>2. [u \in Order |-> [p \in Product |-> rsv'[u][p].status]] =
            [[u \in Order |-> [p \in Product |-> rsv[u][p].status]] EXCEPT ![o] =
               [p \in Product |-> IF p \in P THEN "OPEN"
                                  ELSE IF @[p] = "OPEN" THEN "RELEASED" ELSE @[p]]]
      BY <1>1, <1>2, <1>5, <2>1
    <2>3. gen' = [gen EXCEPT ![o] =
                    [p \in Product |-> IF p \in P /\ [u \in Order |->
                        [q \in Product |-> rsv[u][q].status]][o][p] # "OPEN"
                                       THEN @[p] + 1 ELSE @[p]]]
      BY <1>1, <1>5 DEF Opens
    <2> QED
      BY <1>4, <2>2, <2>3 DEF Promise!Reserve
  <1> HIDE DEF o, P
  <1> QED
    BY <1>1, <1>3, <1>6 DEF Promise!Next, Promise!Reserve

\* What Confirm makes of the tickets: those of the reservations to sell are
\* added (service.go:353-361).
LEMMA ConfirmHandsOut ==
  ASSUME TypeOK, NEW w \in Worker, Confirm(w), todo[w] = {}
  PROVE  /\ Held(w)' = {TicketOf(OrderOf(w), p) : p \in Sellable(w)}
         /\ Pending' = Pending \cup {TicketOf(OrderOf(w), p) : p \in Sellable(w)}
  <1> DEFINE new == {TicketOf(OrderOf(w), p) : p \in Sellable(w)}
  <1>1. /\ OrderOf(w) \in Order /\ stage[w] = "idle" /\ gen \in [Order -> [Product -> Nat]]
        /\ todo \in [Worker -> SUBSET Call(CallTag)]
    BY DEF TypeOK, HandlerTypeOK, Confirm, At
  <1>2. UNCHANGED <<stage, call>> /\ todo' = [todo EXCEPT ![w] = ReservationCalls(w)]
    BY DEF Confirm, sectionVars
  <1>3. NoTicket \notin new
    BY <1>1, SalesAssumption DEF Sellable, ToConfirm, StillOpen, OpenProducts, TicketOf, Ticket
  <1>4. {c.tag : c \in ReservationCalls(w)} = new
    <2> DEFINE CallOf(p) == LoopCall(w, 0, "remove", <<p, SaleWarehouse(w, p)>>,
                                     rsv[OrderOf(w)][p].qty, TicketOf(OrderOf(w), p))
    <2>1. ReservationCalls(w) = {CallOf(p) : p \in Sellable(w)}
      BY DEF ReservationCalls
    <2>2. \A p : CallOf(p).tag = TicketOf(OrderOf(w), p)
      BY DEF LoopCall
    <2> HIDE DEF CallOf
    <2> QED
      BY <2>1, <2>2
  <1>5. Held(w) = {} /\ Held(w)' = new
    BY <1>1, <1>2, <1>3, <1>4 DEF Held, CallTickets, TodoTickets
  <1>6. \A v \in Worker \ {w} : Held(v)' = Held(v)
    BY <1>1, <1>2 DEF Held, CallTickets, TodoTickets
  <1> HIDE DEF new
  <1>7. Pending' = Pending \cup new
    BY <1>5, <1>6 DEF Pending
  <1> QED
    BY <1>5, <1>7 DEF new

\* An invoice confirms open reservations of its order together and goes on to
\* sell some of them.
LEMMA ConfirmIsConfirm ==
  ASSUME TypeOK, NEW w \in Worker, Confirm(w), todo[w] = {}
  PROVE  Promise!Next
  <1> DEFINE o == OrderOf(w)
             P == ToConfirm(w)
             S == Sellable(w)
  <1>1. o \in Order /\ rsv \in [Order -> [Product -> Reservation]]
    BY DEF TypeOK, HandlerTypeOK, RepoTypeOK, Confirm, At
  <1>2. /\ UNCHANGED <<gen, taken>> /\ P # {} /\ S \in SUBSET P
        /\ P \in SUBSET Product /\ \A p \in P : rsv[o][p].status = "OPEN"
    BY DEF Confirm, history, Sellable, ToConfirm, StillOpen, OpenProducts
  <1>3. Pending' = Pending \cup {<<o, p, gen[o][p]>> : p \in S}
    BY ConfirmHandsOut DEF TicketOf
  <1>4. \A u \in Order, p \in Product :
          rsv'[u][p].status = IF u = o /\ p \in P THEN "CONFIRMED" ELSE rsv[u][p].status
    <2> SUFFICES ASSUME NEW u \in Order, NEW p \in Product
                 PROVE  rsv'[u][p].status =
                          IF u = o /\ p \in P THEN "CONFIRMED" ELSE rsv[u][p].status
      OBVIOUS
    <2>1. rsv[u][p] \in Reservation
      BY <1>1
    <2> QED
      BY <2>1, ConfirmsOpen DEF Reservation
  <1> HIDE DEF o, P, S
  <1>5. [u \in Order |-> [p \in Product |-> rsv'[u][p].status]] =
          [[u \in Order |-> [p \in Product |-> rsv[u][p].status]] EXCEPT ![o] =
             [p \in Product |-> IF p \in P THEN "CONFIRMED" ELSE @[p]]]
    BY <1>1, <1>4
  <1>6. \A p \in P : [u \in Order |-> [q \in Product |-> rsv[u][q].status]][o][p] = "OPEN"
    BY <1>1, <1>2
  <1>7. Promise!Confirm(o, P, S)
    BY <1>2, <1>3, <1>5, <1>6 DEF Promise!Confirm
  <1> QED
    BY <1>1, <1>2, <1>7 DEF Promise!Next, Promise!Confirm

\* The change of the balance deducts the ticket of the call, if it has one.
LEMMA DeductIsDeduct ==
  ASSUME TypeOK, TicketInv, NEW w \in Worker, Deduct(w)
  PROVE  Promise!Next
  <1>1. stage \in [Worker -> Stage] /\ stage[w] = "change"
    BY DEF TypeOK, SectionTypeOK, Deduct, ChangeBalance
  <1>2. UNCHANGED <<rsv, gen, todo, call>> /\ stage' = [stage EXCEPT ![w] = "post"]
    BY DEF Deduct, ChangeBalance, AddAvailable, RemoveAvailable, ConfirmSale, Goto,
           handlerVars
  <1>3. taken' = taken \cup CallTickets(w)
    BY <1>1 DEF Deduct, CallTickets
  <1>4. Held(w)' = Held(w) \ CallTickets(w)
    BY <1>1, <1>2 DEF Held, CallTickets, TodoTickets, TicketInv, TicketsExclusive
  <1>5. \A v \in Worker \ {w} : Held(v)' = Held(v) /\ Held(v) \cap CallTickets(w) = {}
    BY <1>1, <1>2 DEF Held, CallTickets, TodoTickets, TicketInv, TicketsExclusive
  <1>6. Pending' = Pending \ CallTickets(w)
    BY <1>4, <1>5 DEF Pending
  <1>7. CallTickets(w) \subseteq Pending /\ CallTickets(w) \cap taken = {}
    BY DEF Pending, Held, TicketInv, TicketsExclusive
  <1>8. CASE CallTickets(w) = {}
    <2>1. \A v \in Worker : Held(v)' \subseteq Held(v)
      BY <1>4, <1>5
    <2> QED
      BY <1>2, <1>3, <1>8, <2>1, DropIsLose
  <1>9. CASE CallTickets(w) # {}
    <2>1. PICK t : CallTickets(w) = {t}
      BY <1>9 DEF CallTickets
    <2>2. Promise!Deduct(t)
      BY <1>2, <1>3, <1>6, <1>7, <2>1 DEF Promise!Deduct
    <2>3. t \in Pending
      BY <1>7, <2>1
    <2> QED
      BY <2>2, <2>3 DEF Promise!Next
  <1> QED
    BY <1>8, <1>9

\* Every step of Sales is a step of the promise, or changes nothing of it.
LEMMA StepKeepsPromise ==
  TypeOK /\ TicketInv /\ HandlerInv /\ [Next]_vars => [Promise!Next]_(Promise!tickets)
  <1> SUFFICES ASSUME TypeOK, TicketInv, HandlerInv, [Next]_vars
               PROVE  Promise!Next \/ UNCHANGED Promise!tickets
    OBVIOUS
  <1>1. CASE UNCHANGED vars
    <2>1. UNCHANGED <<rsv, gen, taken, todo, stage, call>>
      BY <1>1 DEF vars, repoVars, sectionVars, handlerVars, history
    <2>2. \A v \in Worker : Held(v)' = Held(v)
      BY <2>1 DEF Held, CallTickets, TodoTickets
    <2>3. Pending' = Pending
      BY <2>2 DEF Pending
    <2> QED
      BY <2>1, <2>3 DEF Promise!tickets
  <1>2. ASSUME NEW w \in Worker, WorkerStep(w) \/ Crash(w) PROVE Promise!Next
    <2>1. Confirm(w) => todo[w] = {}
      BY DEF HandlerInv, Confirm, At
    <2>2. OnlyDrops => Promise!Next
      BY HeldShrinks, DropIsLose DEF OnlyDrops
    <2>3. NextCall(w) => Promise!Next
      BY NextCallPasses, DropIsLose
    <2> QED
      BY <1>2, <2>1, <2>2, <2>3, StepKinds, ReplaceIsReserve, ConfirmIsConfirm,
         DeductIsDeduct
  <1>3. ASSUME NEW n \in LockName, TtlRunsOut(n) PROVE Promise!Next
    <2>1. OnlyDrops
      BY <1>3, ExpiryDrops
    <2> QED
      BY <2>1, HeldShrinks, DropIsLose DEF OnlyDrops
  <1> QED
    BY <1>1, <1>2, <1>3 DEF Next

\* At first nothing is promised.
LEMMA InitKeepsPromise == Init => Promise!Init
  <1> SUFFICES ASSUME Init PROVE Promise!Init
    OBVIOUS
  <1>1. \A w \in Worker : Held(w) = {}
    BY DEF Init, SectionInit, Held, CallTickets, TodoTickets
  <1>2. Pending = {}
    BY <1>1 DEF Pending
  <1>3. [o \in Order |-> [p \in Product |-> rsv[o][p].status]] =
          [o \in Order |-> [p \in Product |-> "NONE"]]
    BY DEF Init, NoReservation
  <1> QED
    BY <1>2, <1>3 DEF Init, Promise!Init

\* The consumers keep what OrderTickets promises of every reservation, for any
\* number of workers, messages and deliveries and whatever fails
\* (stock_repo.go:131-215, service.go:353-421).
THEOREM PromiseKept == Spec => TicketLife
  <1>1. Init => Promise!Init
    BY InitKeepsPromise
  <1>2. TypeOK /\ TicketInv /\ HandlerInv /\ [Next]_vars => [Promise!Next]_(Promise!tickets)
    BY StepKeepsPromise
  <1> QED
    BY <1>1, <1>2, InitTypeOK, TypeStep, InitTickets, TicketStep, InitHandlerInv, HandlerStep,
       PTL DEF Spec, TicketLife, Promise!Spec

(***************************************************************************)
(* Nothing is lost in silence                                              *)
(***************************************************************************)

\* A worker sells the reservations of the order its invoice names.
OwnTickets == \A w \in Worker : \A t \in Held(w) : t[1] = OrderOf(w)

\* Lines without a quantity reserve nothing (stock_repo.go:160-163).
OpenIsPositive ==
  \A o \in Order, p \in Product : rsv[o][p].status = "OPEN" => rsv[o][p].qty > 0

\* A worker on its way out of a handler with an error.
Failing(w) == pc[w] = "nack" \/ stage[w] \in {"unlockErr", "err"}

\* Deliveries are only counted up.
LEMMA DeliveriesGrow ==
  ASSUME TypeOK, NEW w \in Worker, WorkerStep(w) \/ Crash(w), NEW m \in Msg
  PROVE  deliveries'[m] \in Nat /\ deliveries'[m] >= deliveries[m]
  <1>1. deliveries \in [Msg -> Nat]
    BY DEF TypeOK, BrokerTypeOK
  <1>2. CASE \E n \in Msg : Take(w, n)
    BY <1>1, <1>2 DEF Take
  <1>3. CASE ~ \E n \in Msg : Take(w, n)
    <2>1. deliveries' = deliveries
      BY <1>3
         DEF WorkerStep, OrderStep, InvoiceStep, LockOrder, OrderBusy, Replace, Publish,
             LeaveOrder, CheckInvoice, FindOpen, PassClosed, Confirm, NothingOpen,
             CountReservations, CheckLegacy, ListLegacy, Direct, NextCall, LoopDone,
             InSection, Deduct, SectionOk, SectionErr,
             Recalc, WriteReserved, Fails, Ack, Nack, Settle, Crash, Decide, brokerVars
    <2> QED
      BY <1>1, <2>1
  <1> QED
    BY <1>2, <1>3

\* A failing worker ends its handler with an error.
LEMMA FailingFails ==
  ASSUME TypeOK, NEW w \in Worker, WorkerStep(w) \/ Crash(w), Failing(w)
  PROVE  \/ Failing(w)' /\ job'[w] = job[w]
         \/ status'[job[w]] \in {"requeued", "dead"}
  <1>1. /\ pc \in [Worker -> Pc] /\ stage \in [Worker -> Stage] /\ DOMAIN status = Msg
        /\ pc[w] # "section" => stage[w] = "idle"
        /\ Busy(w) /\ job[w] \in Msg
    BY BodyType DEF TypeOK, HandlerTypeOK, SectionTypeOK, BrokerTypeOK, Failing, Busy
  <1>2. CASE pc[w] = "nack"
    <2>1. Nack(w) \/ Crash(w)
      BY <1>2
         DEF WorkerStep, OrderStep, InvoiceStep, Take, LockOrder, OrderBusy, Replace, Publish,
             LeaveOrder, CheckInvoice, FindOpen, PassClosed, Confirm, NothingOpen,
             CountReservations, CheckLegacy, ListLegacy, Direct, NextCall, LoopDone,
             InSection, Deduct, SectionOk, SectionErr,
             Recalc, WriteReserved, Fails, Ack, At
    <2> QED
      BY <1>1, <2>1 DEF Nack, Settle, Crash
  <1>3. CASE pc[w] = "section" /\ stage[w] \in {"unlockErr", "err"}
    <2>1. (InSection(w) /\ Unlock(w)) \/ SectionErr(w) \/ Crash(w)
      BY <1>3
         DEF WorkerStep, OrderStep, InvoiceStep, Take, LockOrder, OrderBusy, Replace, Publish,
             LeaveOrder, CheckInvoice, FindOpen, PassClosed, Confirm, NothingOpen,
             CountReservations, CheckLegacy, ListLegacy, Direct, NextCall, LoopDone,
             InSection, Deduct, SectionOk,
             Recalc, WriteReserved, Fails, Ack, Nack, At, SectionStep, LockBalance,
             LockRefused, ChangeRefused, PostMovement, PostFails, ReadBalance, CacheSkipped,
             CacheBalance, ChangeBalance, Return
    <2>2. CASE InSection(w) /\ Unlock(w)
      BY <1>1, <1>3, <2>2 DEF InSection, Unlock, Goto, Failing, handlerVars
    <2>3. CASE SectionErr(w)
      BY <1>1, <2>3 DEF SectionErr, Jump, Failing
    <2>4. CASE Crash(w)
      BY <1>1, <2>4 DEF Crash
    <2> QED
      BY <2>1, <2>2, <2>3, <2>4
  <1> QED
    BY <1>1, <1>2, <1>3 DEF Failing

\* A delivery that failed shows for ever: its message is dead, waits for
\* another delivery or has had one.
LEMMA FailedStays ==
  ASSUME TypeOK, HandlerInv, NEW w \in Worker, WorkerStep(w) \/ Crash(w),
         NEW m \in Msg, Failed(m)
  PROVE  Failed(m)'
  <1>1. deliveries \in [Msg -> Nat] /\ DOMAIN status = Msg
    BY DEF TypeOK, BrokerTypeOK
  <1>2. CASE deliveries[m] > 1
    BY <1>1, <1>2, DeliveriesGrow DEF Failed
  <1>3. CASE status[m] \in {"requeued", "dead"}
    <2>1. deliveries[m] > 0
      BY <1>3 DEF HandlerInv
    <2>2. CASE \E n \in Msg : Take(w, n)
      BY <1>1, <1>3, <2>1, <2>2 DEF Take, Failed
    <2>3. CASE Ack(w) \/ Nack(w) \/ Crash(w)
      <3>1. job[w] # m
        BY <1>3, <2>3 DEF HandlerInv, Busy, Ack, Nack, Crash, At
      <3> QED
        BY <1>1, <1>3, <2>3, <3>1 DEF Ack, Nack, Settle, Crash, Failed
    <2>4. CASE ~ ((\E n \in Msg : Take(w, n)) \/ Ack(w) \/ Nack(w) \/ Crash(w))
      <3>1. status' = status
        BY <2>4
           DEF WorkerStep, OrderStep, InvoiceStep, LockOrder, OrderBusy, Replace, Publish,
               LeaveOrder, CheckInvoice, FindOpen, PassClosed, Confirm, NothingOpen,
               CountReservations, CheckLegacy, ListLegacy, Direct, NextCall, LoopDone,
               InSection, Deduct, SectionOk,
               SectionErr, Recalc, WriteReserved, Fails, Decide, brokerVars
      <3> QED
        BY <1>3, <3>1 DEF Failed
    <2> QED
      BY <2>2, <2>3, <2>4
  <1>4. CASE \E v \in Worker : job[v] = m /\ Failing(v)
    <2> PICK v \in Worker : job[v] = m /\ Failing(v)
      BY <1>4
    <2>1. CASE v = w
      BY <2>1, FailingFails DEF Failed, Failing
    <2>2. CASE v # w
      BY <2>2, OthersWait DEF Failed, Failing
    <2> QED
      BY <2>1, <2>2
  <1> QED
    BY <1>2, <1>3, <1>4 DEF Failed, Failing

\* A step that drops a ticket of an invoice handler fails its delivery.
LEMMA DroppedFails ==
  ASSUME TypeOK, HandlerInv, TicketInv, NEW w \in Worker, WorkerStep(w) \/ Crash(w),
         NEW t \in Held(w), OnlyDrops, t \notin Held(w)'
  PROVE  \E m \in InvoiceMsg : job[w] = m /\ Failed(m)'
  <1>1. /\ pc \in [Worker -> Pc] /\ stage \in [Worker -> Stage] /\ DOMAIN status = Msg
        /\ DOMAIN call = Worker /\ DOMAIN job = Worker
        /\ todo \in [Worker -> SUBSET Call(CallTag)]
        /\ pc[w] # "section" => stage[w] = "idle"
    BY DEF TypeOK, HandlerTypeOK, SectionTypeOK, BrokerTypeOK
  <1>2. todo[w] # {} \/ stage[w] \in {"lock", "change"}
    BY DEF Held, CallTickets, TodoTickets
  <1>3. w \notin OrderWorker /\ pc[w] \in {"recalc", "write", "loop", "section"}
    BY <1>1, <1>2 DEF HandlerInv
  <1>4. PICK m \in InvoiceMsg : job[w] = m /\ m \in Msg
    BY <1>3, SalesAssumption DEF TypeOK, HandlerTypeOK, MsgOf, Msg
  <1>5. todo'[w] # todo[w] \/ stage'[w] # stage[w] \/ call'[w] # call[w]
    BY DEF Held, CallTickets, TodoTickets
  <1>6. Fails(w) \/ Crash(w) \/ InSection(w) \/ SectionOk(w) \/ SectionErr(w) \/ NextCall(w)
        \/ Deduct(w)
    BY <1>3, <1>5
       DEF WorkerStep, OrderStep, InvoiceStep, Take, LockOrder, OrderBusy, Replace, Publish,
           LeaveOrder, CheckInvoice, FindOpen, PassClosed, Confirm, NothingOpen,
           CountReservations, CheckLegacy, ListLegacy, Direct, LoopDone, Decide, Recalc,
           WriteReserved, Ack, Nack, At,
           sectionVars
  <1>7. CASE Fails(w)
    BY <1>1, <1>3, <1>4, <1>7 DEF Fails, Jump, Failed
  <1>8. CASE Crash(w)
    BY <1>1, <1>4, <1>8 DEF Crash, Failed
  <1>9. CASE SectionErr(w)
    BY <1>1, <1>4, <1>9 DEF SectionErr, Jump, Failed
  <1>10. CASE SectionOk(w)
    BY <1>1, <1>10 DEF SectionOk, Return, Goto, Held, CallTickets, TodoTickets
  <1>11. CASE InSection(w)
    <2>1. job' = job /\ todo' = todo
      BY <1>11 DEF InSection, handlerVars
    <2>2. stage[w] \in {"lock", "change"} /\ ~ LockBalance(w)
      BY <1>1, <1>11, <2>1 DEF Held, CallTickets, TodoTickets, LockBalance, Goto
    <2>3. LockRefused(w) \/ ChangeRefused(w)
      BY <1>11, <2>2
         DEF InSection, SectionStep, PostMovement, PostFails, ReadBalance, CacheSkipped,
             CacheBalance, Unlock
    <2>4. stage'[w] \in {"unlockErr", "err"}
      BY <1>1, <2>3 DEF LockRefused, ChangeRefused, Goto
    <2> QED
      BY <1>4, <2>1, <2>4 DEF Failed
  <1>12. CASE NextCall(w)
    <2>1. PICK c \in todo[w] : Begin(w, c) /\ todo' = [todo EXCEPT ![w] = @ \ {c}]
      BY <1>12 DEF NextCall
    <2>2. stage[w] = "idle" /\ stage'[w] = "lock" /\ call'[w] = c /\ todo'[w] = todo[w] \ {c}
      BY <1>1, <2>1 DEF Begin, Goto
    <2> QED
      BY <2>2 DEF Held, CallTickets, TodoTickets
  <1>13. CASE Deduct(w)
    <2>1. stage[w] = "change" /\ taken' = taken \cup CallTickets(w) /\ todo' = todo
      BY <1>13 DEF Deduct, ChangeBalance, CallTickets, handlerVars
    <2>2. t \in CallTickets(w)
      BY <2>1 DEF Held, TodoTickets
    <2> QED
      BY <2>1, <2>2 DEF OnlyDrops, TicketInv, TicketsExclusive, Pending, Held
  <1> QED
    BY <1>4, <1>6, <1>7, <1>8, <1>9, <1>10, <1>11, <1>12, <1>13

\* A worker turns to another message with empty hands.
LEMMA HeldGoesWithJob ==
  ASSUME TypeOK, HandlerInv, NEW w \in Worker, WorkerStep(w) \/ Crash(w)
  PROVE  job'[w] = job[w] \/ Held(w)' = {}
  <1>1. /\ pc \in [Worker -> Pc] /\ stage \in [Worker -> Stage] /\ DOMAIN job = Worker
        /\ todo \in [Worker -> SUBSET Call(CallTag)]
        /\ pc[w] # "section" => stage[w] = "idle"
        /\ pc[w] \in {"idle", "ack", "nack"} => todo[w] = {}
    BY DEF TypeOK, HandlerTypeOK, SectionTypeOK, HandlerInv
  <1>2. CASE \E m \in Msg : Take(w, m)
    BY <1>1, <1>2 DEF Take, At, sectionVars, Held, CallTickets, TodoTickets
  <1>3. CASE Ack(w) \/ Nack(w)
    BY <1>1, <1>3 DEF Ack, Nack, At, Settle, Forget, sectionVars, Held, CallTickets, TodoTickets
  <1>4. CASE Crash(w)
    BY <1>1, <1>4 DEF Crash, Forget, Killed, Goto, Held, CallTickets, TodoTickets
  <1>5. CASE ~ ((\E m \in Msg : Take(w, m)) \/ Ack(w) \/ Nack(w) \/ Crash(w))
    BY <1>5
       DEF WorkerStep, OrderStep, InvoiceStep, LockOrder, OrderBusy, Replace, Publish,
           LeaveOrder, CheckInvoice, FindOpen, PassClosed, Confirm, NothingOpen,
           CountReservations, CheckLegacy, ListLegacy, Direct, NextCall, LoopDone,
           InSection, Deduct, SectionOk, SectionErr,
           Recalc, WriteReserved, Fails, Decide, handlerVars
  <1> QED
    BY <1>2, <1>3, <1>4, <1>5

\* No step gives a worker a ticket of an order its invoice does not name.
LEMMA OwnTicketsStep ==
  ASSUME TypeOK, HandlerInv, TicketInv, OwnTickets, NEW w \in Worker,
         WorkerStep(w) \/ Crash(w)
  PROVE  OwnTickets'
  <1>1. \A v \in Worker \ {w} : Held(v)' = Held(v) /\ OrderOf(v)' = OrderOf(v)
    BY OthersWait DEF Held, CallTickets, TodoTickets, OrderOf
  <1>2. \A t \in Held(w)' : t[1] = OrderOf(w)
    <2>1. CASE OnlyDrops
      BY <2>1, HeldShrinks DEF OwnTickets
    <2>2. CASE NextCall(w)
      BY <2>2, NextCallPasses DEF OwnTickets
    <2>3. CASE Replace(w) \/ Deduct(w)
      <3>1. Held(w)' \subseteq Held(w)
        <4>1. stage \in [Worker -> Stage]
          BY DEF TypeOK, SectionTypeOK
        <4>2. CASE Replace(w)
          BY <4>2 DEF Replace, sectionVars, Held, CallTickets, TodoTickets
        <4>3. CASE Deduct(w)
          BY <4>1, <4>3 DEF Deduct, ChangeBalance, Goto, handlerVars, Held, CallTickets,
                            TodoTickets
        <4> QED
          BY <2>3, <4>2, <4>3
      <3> QED
        BY <3>1 DEF OwnTickets
    <2>4. CASE Confirm(w)
      <3>1. todo[w] = {}
        BY <2>4 DEF HandlerInv, Confirm, At
      <3> QED
        BY <2>4, <3>1, ConfirmHandsOut DEF TicketOf
    <2> QED
      BY <2>1, <2>2, <2>3, <2>4, StepKinds
  <1>3. \A t \in Held(w)' : t[1] = OrderOf(w)'
    BY <1>2, HeldGoesWithJob DEF OrderOf
  <1> QED
    BY <1>1, <1>3 DEF OwnTickets

\* The reservation rows change when an order event replaces them and when an
\* invoice confirms them.
LEMMA RowsStay ==
  ASSUME TypeOK, TicketInv, NEW w \in Worker, WorkerStep(w) \/ Crash(w)
  PROVE  rsv' = rsv \/ Replace(w) \/ Confirm(w)
  <1>1. Deduct(w) => rsv' = rsv
    BY DEF Deduct, ChangeBalance, AddAvailable, RemoveAvailable, ConfirmSale
  <1> QED
    BY <1>1, StepKinds, NextCallPasses DEF OnlyDrops

\* What replacing and confirming make of a row.
LEMMA RowAfter ==
  ASSUME TypeOK, NEW w \in Worker, NEW o \in Order, NEW p \in Product
  PROVE  /\ rsv[o][p] \in Reservation /\ gen[o][p] \in Nat
         /\ Replace(w) =>
              \/ rsv'[o][p] = rsv[o][p] /\ gen'[o][p] = gen[o][p]
              \/ rsv'[o][p].status = "RELEASED"
              \/ rsv'[o][p].status = "OPEN" /\ rsv'[o][p].qty > 0
         /\ Confirm(w) =>
              /\ gen'[o][p] = gen[o][p]
              /\ \/ rsv'[o][p] = rsv[o][p]
                 \/ /\ o = OrderOf(w) /\ p \in ToConfirm(w) /\ p \in OpenProducts(o)
                    /\ rsv'[o][p] = [rsv[o][p] EXCEPT !.status = "CONFIRMED"]
  <1>1. /\ rsv \in [Order -> [Product -> Reservation]] /\ gen \in [Order -> [Product -> Nat]]
        /\ rsv[o][p] \in Reservation /\ gen[o][p] \in Nat
    BY DEF TypeOK, RepoTypeOK
  <1>2. CASE Replace(w)
    <2> DEFINE lines == Lines(job[w])
               wh == Body[job[w]].wh
    <2>1. lines \in Seq(Line)
      BY <1>2, BodyType DEF TypeOK, Replace, At
    <2>2. /\ rsv' = [rsv EXCEPT ![OrderOf(w)] =
                       [r \in Product |-> Replaced(@[r], lines, wh, r)]]
          /\ gen' = [gen EXCEPT ![OrderOf(w)] =
                       [r \in Product |-> IF Opens(OrderOf(w), r, lines) THEN @[r] + 1 ELSE @[r]]]
      BY <1>2 DEF Replace, ReplaceReservations
    <2> HIDE DEF lines, wh
    <2>3. CASE o = OrderOf(w) /\ p \in KeptProducts(lines)
      <3>1. rsv'[o][p].status = "OPEN" /\ rsv'[o][p].qty = lines[LastLine(lines, p)].qty
        BY <1>1, <2>2, <2>3 DEF Replaced
      <3>2. lines[LastLine(lines, p)].qty > 0
        BY <2>1, <2>3, LastLineKept DEF Kept
      <3> QED
        BY <1>1, <1>2, <3>1, <3>2 DEF Confirm, Replace, At
    <2>4. CASE o = OrderOf(w) /\ p \notin KeptProducts(lines)
      <3>1. /\ rsv'[o][p] = Replaced(rsv[o][p], lines, wh, p)
            /\ gen'[o][p] = gen[o][p]
        BY <1>1, <2>2, <2>4 DEF Opens
      <3>2. rsv'[o][p] = rsv[o][p] \/ rsv'[o][p].status = "RELEASED"
        BY <1>1, <2>4, <3>1 DEF Replaced, Reservation
      <3> QED
        BY <1>1, <1>2, <3>1, <3>2 DEF Confirm, Replace, At
    <2>5. CASE o # OrderOf(w)
      BY <1>1, <1>2, <2>2, <2>5 DEF Confirm, Replace, At
    <2> QED
      BY <2>3, <2>4, <2>5
  <1>3. CASE Confirm(w)
    <2>1. gen' = gen /\ ~ Replace(w)
      BY <1>1, <1>3 DEF Confirm, Replace, At, history
    <2> QED
      BY <1>1, <1>3, <2>1, ConfirmsOpen
  <1> QED
    BY <1>1, <1>2, <1>3

\* Open reservations keep a positive quantity.
LEMMA OpenIsPositiveStep ==
  ASSUME TypeOK, TicketInv, OpenIsPositive, NEW w \in Worker, WorkerStep(w) \/ Crash(w)
  PROVE  OpenIsPositive'
  <1> SUFFICES ASSUME NEW o \in Order, NEW p \in Product, rsv'[o][p].status = "OPEN"
               PROVE  rsv'[o][p].qty > 0
    BY DEF OpenIsPositive
  <1>1. rsv'[o][p] = rsv[o][p] => rsv'[o][p].qty > 0
    BY DEF OpenIsPositive
  <1>2. rsv[o][p] \in Reservation
    BY RowAfter
  <1>3. Replace(w) => rsv'[o][p].qty > 0
    BY <1>1, RowAfter
  <1>4. Confirm(w) => rsv'[o][p].qty > 0
    BY <1>1, <1>2, RowAfter DEF Reservation
  <1> QED
    BY <1>1, <1>3, <1>4, RowsStay

\* The inductive form of NoSilentLoss.
LossInv == OwnTickets /\ OpenIsPositive /\ NoSilentLoss

\* At first nothing is reserved.
LEMMA InitLoss == Init => LossInv
  <1> SUFFICES ASSUME Init PROVE LossInv
    OBVIOUS
  <1>1. \A w \in Worker : Held(w) = {}
    BY DEF Init, SectionInit, Held, CallTickets, TodoTickets
  <1>2. \A o \in Order, p \in Product : rsv[o][p].status = "NONE"
    BY DEF Init, NoReservation
  <1> QED
    BY <1>1, <1>2 DEF LossInv, OwnTickets, OpenIsPositive, NoSilentLoss

\* A ticket that is no longer pending nor taken was dropped by a delivery that
\* failed.
LEMMA OnlyFailuresLose ==
  ASSUME TypeOK, HandlerInv, TicketInv, OwnTickets, NEW w \in Worker,
         WorkerStep(w) \/ Crash(w), NEW t \in Pending \cup taken,
         t \notin Pending' \cup taken'
  PROVE  \E m \in InvoiceMsg : Body[m].order = t[1] /\ Failed(m)'
  <1>1. taken \subseteq taken'
    BY StepKinds, NextCallPasses DEF OnlyDrops, Replace, Confirm, Deduct, history
  <1>2. PICK v \in Worker : t \in Held(v) /\ t \notin Held(v)'
    BY <1>1 DEF Pending
  <1>3. v = w
    BY <1>2, OthersWait DEF Held, CallTickets, TodoTickets
  <1>4. stage \in [Worker -> Stage]
    BY DEF TypeOK, SectionTypeOK
  <1>5. ~ Replace(w)
    BY <1>2 DEF Replace, sectionVars, Held, CallTickets, TodoTickets
  <1>6. ~ NextCall(w)
    BY <1>2, NextCallPasses
  <1>7. ~ Deduct(w)
    BY <1>2, <1>3, <1>4 DEF Deduct, ChangeBalance, Goto, handlerVars, Held, CallTickets,
                            TodoTickets
  <1>8. ~ Confirm(w)
    <2> SUFFICES ASSUME Confirm(w) PROVE FALSE
      OBVIOUS
    <2>1. todo[w] = {} /\ stage[w] = "idle"
      BY DEF HandlerInv, TypeOK, HandlerTypeOK, Confirm, At
    <2> QED
      BY <1>2, <1>3, <2>1 DEF Held, CallTickets, TodoTickets
  <1>9. OnlyDrops
    BY <1>5, <1>6, <1>7, <1>8, StepKinds
  <1>10. PICK m \in InvoiceMsg : job[w] = m /\ Failed(m)'
    BY <1>2, <1>3, <1>9, DroppedFails
  <1>11. t[1] = Body[m].order
    BY <1>2, <1>3, <1>10 DEF OwnTickets, OrderOf
  <1> QED
    BY <1>10, <1>11

\* No step of a worker loses a reservation in silence.
LEMMA LossStep ==
  ASSUME TypeOK, HandlerInv, TicketInv, LossInv, NEW w \in Worker, WorkerStep(w) \/ Crash(w)
  PROVE  LossInv'
  <1>1. OwnTickets' /\ OpenIsPositive'
    BY OwnTicketsStep, OpenIsPositiveStep DEF LossInv
  <1>2. ASSUME NEW o \in Order, NEW p \in Product, rsv'[o][p].status = "CONFIRMED",
               <<o, p, gen'[o][p]>> \notin Pending' \cup taken'
        PROVE  \/ \E m \in InvoiceMsg : Body[m].order = o /\ Failed(m)'
               \/ /\ rsv'[o][p].wh = NoWarehouse
                  /\ \E m \in InvoiceMsg : Body[m].order = o /\ Body[m].wh = NoWarehouse
    <2>1. CASE rsv'[o][p] = rsv[o][p] /\ gen'[o][p] = gen[o][p]
      <3>1. CASE <<o, p, gen[o][p]>> \in Pending \cup taken
        <4>1. <<o, p, gen[o][p]>>[1] = o
          OBVIOUS
        <4> QED
          BY <1>2, <2>1, <3>1, <4>1, OnlyFailuresLose DEF LossInv
      <3>2. CASE <<o, p, gen[o][p]>> \notin Pending \cup taken
        <4>1. \/ \E m \in InvoiceMsg : Body[m].order = o /\ Failed(m)
              \/ /\ rsv[o][p].wh = NoWarehouse
                 /\ \E m \in InvoiceMsg : Body[m].order = o /\ Body[m].wh = NoWarehouse
          BY <1>2, <2>1, <3>2 DEF LossInv, NoSilentLoss, TicketOf
        <4>2. InvoiceMsg \subseteq Msg
          BY DEF Msg
        <4> QED
          BY <2>1, <4>1, <4>2, FailedStays
      <3> QED
        BY <3>1, <3>2
    <2>2. CASE ~ (rsv'[o][p] = rsv[o][p] /\ gen'[o][p] = gen[o][p])
      <3>1. Confirm(w)
        <4>1. Replace(w) \/ Confirm(w)
          <5>1. Deduct(w) => rsv' = rsv /\ gen' = gen
            BY DEF Deduct, ChangeBalance, AddAvailable, RemoveAvailable, ConfirmSale
          <5> QED
            BY <2>2, <5>1, StepKinds, NextCallPasses DEF OnlyDrops
        <4> QED
          BY <1>2, <2>2, <4>1, RowAfter
      <3>2. /\ o = OrderOf(w) /\ p \in ToConfirm(w) /\ p \in OpenProducts(o)
            /\ gen'[o][p] = gen[o][p]
            /\ rsv'[o][p].wh = rsv[o][p].wh
        <4>1. rsv[o][p] \in Reservation
          BY RowAfter
        <4>2. [rsv[o][p] EXCEPT !.status = "CONFIRMED"].wh = rsv[o][p].wh
          BY <4>1 DEF Reservation
        <4>3. /\ gen'[o][p] = gen[o][p]
              /\ \/ rsv'[o][p] = rsv[o][p]
                 \/ /\ o = OrderOf(w) /\ p \in ToConfirm(w) /\ p \in OpenProducts(o)
                    /\ rsv'[o][p] = [rsv[o][p] EXCEPT !.status = "CONFIRMED"]
          BY <3>1, RowAfter
        <4> QED
          BY <2>2, <4>2, <4>3
      <3>3. todo[w] = {}
        BY <3>1 DEF HandlerInv, Confirm, At
      <3>4. p \notin Sellable(w)
        BY <1>2, <3>1, <3>2, <3>3, ConfirmHandsOut DEF TicketOf
      <3>5. rsv[o][p].qty > 0
        BY <3>2 DEF LossInv, OpenIsPositive, OpenProducts
      <3>6. rsv[o][p].wh = NoWarehouse /\ Body[job[w]].wh = NoWarehouse
        BY <3>2, <3>4, <3>5 DEF Sellable, SaleWarehouse
      <3>7. job[w] \in InvoiceMsg /\ Body[job[w]].order = o
        BY <3>1, <3>2, SalesAssumption
           DEF Confirm, At, TypeOK, HandlerTypeOK, MsgOf, PcOf, InvoicePc, OrderOf
      <3> QED
        BY <3>2, <3>6, <3>7
    <2> QED
      BY <2>1, <2>2
  <1>3. NoSilentLoss'
    BY <1>2 DEF NoSilentLoss, TicketOf
  <1> QED
    BY <1>1, <1>3 DEF LossInv

\* Nor do the steps of no worker.
LEMMA LossIdle ==
  ASSUME LossInv, UNCHANGED <<rsv, gen, taken, brokerVars, handlerVars, stage, call>>
  PROVE  LossInv'
  <1>1. UNCHANGED <<status, deliveries, pc, job, todo, stage, call>>
    BY DEF brokerVars, handlerVars
  <1>2. \A w \in Worker : Held(w)' = Held(w) /\ OrderOf(w)' = OrderOf(w)
    BY <1>1 DEF Held, CallTickets, TodoTickets, OrderOf
  <1>3. Pending' = Pending
    BY <1>2 DEF Pending
  <1>4. \A m \in Msg : Failed(m)' <=> Failed(m)
    BY <1>1 DEF Failed
  <1>5. OwnTickets' /\ OpenIsPositive'
    BY <1>2 DEF LossInv, OwnTickets, OpenIsPositive
  <1>6. NoSilentLoss'
    BY <1>3, <1>4 DEF LossInv, NoSilentLoss, TicketOf, Msg
  <1> QED
    BY <1>5, <1>6 DEF LossInv

\* A confirmed reservation that is neither sold nor still to be sold shows
\* somewhere: a delivery of an invoice of its order failed, though a later one may
\* have been acknowledged without selling it, or neither the reservation nor an
\* invoice names a warehouse, and the loop passes it over (service.go:353-361,
\* 389-421).
THEOREM NothingLostSilently == Spec => []NoSilentLoss
  <1>1. TypeOK /\ HandlerInv /\ TicketInv /\ LossInv /\ [Next]_vars => LossInv'
    <2> SUFFICES ASSUME TypeOK, HandlerInv, TicketInv, LossInv, [Next]_vars PROVE LossInv'
      OBVIOUS
    <2>1. CASE UNCHANGED vars
      BY <2>1, LossIdle DEF vars, repoVars, sectionVars, history
    <2>2. ASSUME NEW n \in LockName, TtlRunsOut(n) PROVE LossInv'
      BY <2>2, LossIdle DEF TtlRunsOut, LockExpires, repoVars, sectionVars, history
    <2> QED
      BY <2>1, <2>2, LossStep DEF Next
  <1>2. LossInv => NoSilentLoss
    BY DEF LossInv
  <1> QED
    BY <1>1, <1>2, InitTypeOK, TypeStep, InitHandlerInv, HandlerStep, InitTickets, TicketStep,
       InitLoss, PTL DEF Spec

(***************************************************************************)
(* Kits: what the lines of an event add up to                              *)
(***************************************************************************)

\* Lists of lines with quantities, whatever else a line has.
Quantified(X) == \A x \in X : x.qty \in Nat

\* A list of lines is finite, and has a quantity of every product.
LEMMA QtyInType ==
  ASSUME NEW X, Quantified(X), NEW s \in Seq(X), NEW p
  PROVE  QtyIn(s, p) \in Nat
  <1> DEFINE I == {j \in DOMAIN s : s[j].product = p}
  <1>1. IsFiniteSet(DOMAIN s)
    BY FS_Interval
  <1>2. IsFiniteSet(I)
    BY <1>1, FS_Subset
  <1>3. \A i \in I : s[i].qty \in Nat
    BY DEF Quantified
  <1> QED
    BY <1>2, <1>3, SumNat DEF QtyIn

\* One more line adds its quantity to that of its product.
LEMMA QtyInAppend ==
  ASSUME NEW X, Quantified(X), NEW s \in Seq(X), NEW x \in X, NEW p
  PROVE  QtyIn(Append(s, x), p) = QtyIn(s, p) + IF x.product = p THEN x.qty ELSE 0
  <1> DEFINE t == Append(s, x)
             e == Len(s) + 1
             f == [i \in {j \in DOMAIN s : s[j].product = p} |-> s[i].qty]
             g == [i \in {j \in DOMAIN t : t[j].product = p} |-> t[i].qty]
  <1>1. /\ t \in Seq(X) /\ Len(s) \in Nat
        /\ DOMAIN s = 1 .. Len(s) /\ DOMAIN t = 1 .. Len(s) + 1 /\ t[e] = x
        /\ \A i \in DOMAIN s : t[i] = s[i]
    OBVIOUS
  <1>2. DOMAIN t = DOMAIN s \cup {e} /\ e \notin DOMAIN s
    BY <1>1
  <1>3. \A i \in DOMAIN s : s[i].qty \in Int
    BY <1>1 DEF Quantified
  <1>4. \A i \in DOMAIN t : t[i].qty \in Int
    BY <1>1 DEF Quantified
  <1>5. IsFiniteSet(DOMAIN s) /\ IsFiniteSet(DOMAIN t)
    BY <1>1, FS_Interval
  <1> HIDE DEF t, e
  <1>6. IsFiniteSet(DOMAIN f) /\ IsFiniteSet(DOMAIN g)
    BY <1>5, FS_Subset
  <1>7. DOMAIN g \ {e} = DOMAIN f \ {e} /\ e \notin DOMAIN f
        /\ (e \in DOMAIN g <=> x.product = p)
    BY <1>1, <1>2
  <1>8. \A i \in DOMAIN f \ {e} : g[i] = f[i]
    BY <1>1, <1>2
  <1>9. (\A i \in DOMAIN f : f[i] \in Int) /\ (\A i \in DOMAIN g : g[i] \in Int)
    BY <1>3, <1>4
  <1>10. e \in DOMAIN g => g[e] = x.qty
    BY <1>1
  <1>11. QtyIn(s, p) = SumFunction(f) /\ QtyIn(t, p) = SumFunction(g)
    BY DEF QtyIn
  <1> HIDE DEF f, g
  <1>12. /\ SumFunction(g) = SumFunction(f) - Term(f, e) + Term(g, e)
         /\ SumFunction(f) \in Int /\ Term(g, e) \in Int
    BY <1>6, <1>7, <1>8, <1>9, SumChanges
  <1>13. Term(f, e) = 0 /\ Term(g, e) = IF x.product = p THEN x.qty ELSE 0
    BY <1>7, <1>10 DEF Term
  <1> QED
    BY <1>11, <1>12, <1>13 DEF t

\* No line, one line.
LEMMA QtyInNone ==
  ASSUME NEW p
  PROVE  QtyIn(<<>>, p) = 0
  BY SumEmpty DEF QtyIn

LEMMA QtyInOne ==
  ASSUME NEW x, x.qty \in Nat, NEW p
  PROVE  QtyIn(<<x>>, p) = IF x.product = p THEN x.qty ELSE 0
  <1> DEFINE none == <<>>
  <1>1. Quantified({x}) /\ none \in Seq({x}) /\ Append(none, x) = <<x>> /\ x \in {x}
    BY DEF Quantified
  <1>2. QtyIn(none, p) = 0
    BY QtyInNone
  <1> HIDE DEF none
  <1>3. QtyIn(Append(none, x), p) = QtyIn(none, p) + IF x.product = p THEN x.qty ELSE 0
    BY <1>1, QtyInAppend
  <1> QED
    BY <1>1, <1>2, <1>3

\* Two lists.
LEMMA QtyInConcat ==
  ASSUME NEW X, Quantified(X), NEW s \in Seq(X), NEW t \in Seq(X), NEW p
  PROVE  QtyIn(s \o t, p) = QtyIn(s, p) + QtyIn(t, p)
  <1> DEFINE part == [n \in Nat |-> SubSeq(t, 1, n)]
             T == {n \in Nat : n <= Len(t) =>
                     QtyIn(s \o part[n], p) = QtyIn(s, p) + QtyIn(part[n], p)}
  <1>1. /\ part[0] = <<>> /\ s \o part[0] = s /\ part[Len(t)] = t /\ Len(t) \in Nat
        /\ \A n \in Nat : n + 1 <= Len(t) =>
             /\ part[n + 1] = Append(part[n], t[n + 1])
             /\ part[n] \in Seq(X) /\ t[n + 1] \in X
    OBVIOUS
  <1> HIDE DEF part
  <1>2. QtyIn(s, p) \in Nat /\ QtyIn(<<>>, p) = 0
    BY QtyInType, QtyInNone
  <1>3. 0 \in T
    <2>1. QtyIn(s \o part[0], p) = QtyIn(s, p) /\ QtyIn(part[0], p) = 0
      BY <1>1, <1>2
    <2> DEFINE a == QtyIn(s \o part[0], p)
               b == QtyIn(s, p)
    <2>2. b \in Nat /\ a = b
      BY <1>2, <2>1
    <2> HIDE DEF a, b
    <2>3. a = b + 0
      BY <2>2
    <2> QED
      BY <2>1, <2>3 DEF a, b
  <1>4. ASSUME NEW n \in Nat, n \in T PROVE n + 1 \in T
    <2> SUFFICES ASSUME n + 1 <= Len(t)
                 PROVE  QtyIn(s \o part[n + 1], p) = QtyIn(s, p) + QtyIn(part[n + 1], p)
      OBVIOUS
    <2> DEFINE u == part[n]
               x == t[n + 1]
               v == s \o u
    <2>1. part[n + 1] = Append(u, x) /\ u \in Seq(X) /\ x \in X
      BY <1>1
    <2>2. n <= Len(t)
      BY <1>1
    <2>3. QtyIn(v, p) = QtyIn(s, p) + QtyIn(u, p)
      BY <1>4, <2>2
    <2> HIDE DEF u, x
    <2>4. s \o Append(u, x) = Append(v, x) /\ v \in Seq(X)
      <3>1. v \in Seq(X) /\ <<x>> \in Seq(X)
        BY <2>1
      <3>2. Append(u, x) = u \o <<x>> /\ Append(v, x) = v \o <<x>>
        BY <2>1, <3>1, AppendIsConcat
      <3> QED
        BY <2>1, <3>1, <3>2, ConcatAssociative
    <2> HIDE DEF v
    <2>5. /\ QtyIn(Append(v, x), p) = QtyIn(v, p) + IF x.product = p THEN x.qty ELSE 0
          /\ QtyIn(Append(u, x), p) = QtyIn(u, p) + IF x.product = p THEN x.qty ELSE 0
      BY <2>1, <2>4, QtyInAppend
    <2>6. QtyIn(u, p) \in Nat
      BY <2>1, QtyInType
    <2>7. x.qty \in Nat
      BY <2>1 DEF Quantified
    <2>8. QtyIn(Append(v, x), p) = QtyIn(s, p) + QtyIn(Append(u, x), p)
      BY <1>2, <2>3, <2>5, <2>6, <2>7
    <2> QED
      BY <2>1, <2>4, <2>8
  <1> HIDE DEF T
  <1>5. Len(t) \in T
    BY <1>1, <1>3, <1>4, NatInduct
  <1> QED
    BY <1>1, <1>5 DEF T

\* The loop over components has a result.
LEMMA ValidLoop ==
  ASSUME NEW X, NEW s \in Seq(X)
  PROVE  \E kept : /\ kept = [i \in 0 .. Len(s) |->
                              IF i = 0 THEN <<>>
                              ELSE IF s[i].qty > 0 THEN Append(kept[i - 1], s[i])
                              ELSE kept[i - 1]]
                  /\ Valid(s) = kept[Len(s)]
  <1> DEFINE step == [a \in Nat \X Seq(X) |->
                       IF a[1] \in DOMAIN s /\ s[a[1]].qty > 0 THEN Append(a[2], s[a[1]])
                       ELSE a[2]]
  <1>1. \A i \in DOMAIN s : s[i] \in X
    OBVIOUS
  <1>2. step \in [Nat \X Seq(X) -> Seq(X)] /\ <<>> \in Seq(X) /\ Len(s) \in Nat
    BY <1>1
  <1>3. \A i \in 1 .. Len(s) : \A v \in Seq(X) :
          step[<<i, v>>] = IF s[i].qty > 0 THEN Append(v, s[i]) ELSE v
    OBVIOUS
  <1>4. PICK f \in [0 .. Len(s) -> Seq(X)] :
          f[0] = <<>> /\ \A i \in 1 .. Len(s) : f[i] = step[<<i, f[i - 1]>>]
    <2> DEFINE V == Seq(X)
               none == <<>>
    <2>1. step \in [Nat \X V -> V] /\ none \in V /\ Len(s) \in Nat
      BY <1>2
    <2> HIDE DEF V, none, step
    <2>2. Runs(V, none, step, Len(s)) # {}
      BY <2>1, NatRecursion
    <2> QED
      BY <2>2 DEF V, none, Runs
  <1> HIDE DEF step
  <1> DEFINE g == [i \in 0 .. Len(s) |->
                    IF i = 0 THEN <<>>
                    ELSE IF s[i].qty > 0 THEN Append(f[i - 1], s[i])
                    ELSE f[i - 1]]
  <1>5. ASSUME NEW i \in 0 .. Len(s) PROVE f[i] = g[i]
    <2>1. CASE i = 0
      BY <1>4, <2>1
    <2>2. CASE i # 0
      <3>1. i \in 1 .. Len(s) /\ i - 1 \in 0 .. Len(s)
        BY <1>2, <2>2
      <3>2. f[i - 1] \in Seq(X)
        BY <1>4, <3>1
      <3> QED
        BY <1>3, <1>4, <2>2, <3>1, <3>2
    <2> QED
      BY <2>1, <2>2
  <1>6. f = g
    BY <1>5
  <1> QED
    BY <1>6 DEF Valid

\* It keeps lines and loses no quantity.
LEMMA ValidQty ==
  ASSUME NEW X, Quantified(X), NEW s \in Seq(X), NEW p
  PROVE  Valid(s) \in Seq(X) /\ QtyIn(Valid(s), p) = QtyIn(s, p)
  <1> DEFINE part == [n \in Nat |-> SubSeq(s, 1, n)]
  <1>1. /\ part[0] = <<>> /\ part[Len(s)] = s /\ Len(s) \in Nat
        /\ \A n \in Nat : n + 1 <= Len(s) =>
             /\ part[n + 1] = Append(part[n], s[n + 1])
             /\ part[n] \in Seq(X) /\ s[n + 1] \in X
    OBVIOUS
  <1> HIDE DEF part
  <1>2. PICK F : /\ F = [i \in 0 .. Len(s) |->
                         IF i = 0 THEN <<>>
                         ELSE IF s[i].qty > 0 THEN Append(F[i - 1], s[i])
                         ELSE F[i - 1]]
                 /\ Valid(s) = F[Len(s)]
    BY ValidLoop
  <1> DEFINE T == {n \in Nat : n <= Len(s) => /\ F[n] \in Seq(X)
                                             /\ QtyIn(F[n], p) = QtyIn(part[n], p)}
  <1>3. 0 \in T
    <2>1. F[0] = <<>> /\ <<>> \in Seq(X)
      BY <1>1, <1>2
    <2> QED
      BY <1>1, <2>1
  <1>4. ASSUME NEW n \in Nat, n \in T PROVE n + 1 \in T
    <2> SUFFICES ASSUME n + 1 <= Len(s)
                 PROVE  F[n + 1] \in Seq(X) /\ QtyIn(F[n + 1], p) = QtyIn(part[n + 1], p)
      OBVIOUS
    <2> DEFINE x == s[n + 1]
               u == F[n]
               v == part[n]
    <2>1. /\ F[n + 1] = IF x.qty > 0 THEN Append(u, x) ELSE u
          /\ n <= Len(s)
      <3>1. n + 1 \in 0 .. Len(s) /\ n + 1 # 0 /\ (n + 1) - 1 = n /\ n <= Len(s)
        BY <1>1
      <3> QED
        BY <1>2, <3>1
    <2>2. u \in Seq(X) /\ QtyIn(u, p) = QtyIn(v, p)
      BY <1>4, <2>1
    <2>3. part[n + 1] = Append(v, x) /\ v \in Seq(X) /\ x \in X
      BY <1>1
    <2> HIDE DEF x, u, v
    <2>4. /\ QtyIn(Append(v, x), p) = QtyIn(v, p) + IF x.product = p THEN x.qty ELSE 0
          /\ QtyIn(Append(u, x), p) = QtyIn(u, p) + IF x.product = p THEN x.qty ELSE 0
      BY <2>2, <2>3, QtyInAppend
    <2>5. x.qty \in Nat
      BY <2>3 DEF Quantified
    <2>6. QtyIn(v, p) \in Nat
      BY <2>3, QtyInType
    <2>7. CASE x.qty > 0
      <3>1. F[n + 1] = Append(u, x) /\ Append(u, x) \in Seq(X)
        BY <2>1, <2>2, <2>3, <2>7
      <3> QED
        BY <2>2, <2>3, <2>4, <3>1
    <2>8. CASE ~ (x.qty > 0)
      <3>1. F[n + 1] = u /\ x.qty = 0
        BY <2>1, <2>5, <2>8
      <3>2. QtyIn(Append(v, x), p) = QtyIn(v, p)
        BY <2>4, <2>6, <3>1
      <3> QED
        BY <2>2, <2>3, <3>1, <3>2
    <2> QED
      BY <2>7, <2>8
  <1> HIDE DEF T
  <1>5. Len(s) \in T
    BY <1>1, <1>3, <1>4, NatInduct
  <1> QED
    BY <1>1, <1>2, <1>5 DEF T

\* A recipe scaled by a quantity.
LEMMA ScaledQty ==
  ASSUME NEW s \in Seq(Line), NEW n \in Nat, NEW p
  PROVE  LET t == [i \in DOMAIN s |-> [product |-> s[i].product, qty |-> s[i].qty * n]]
         IN  t \in Seq(Line) /\ QtyIn(t, p) = n * QtyIn(s, p)
  <1> DEFINE t == [i \in DOMAIN s |-> [product |-> s[i].product, qty |-> s[i].qty * n]]
             I == {j \in DOMAIN s : s[j].product = p}
             J == {j \in DOMAIN t : t[j].product = p}
             f == [i \in I |-> s[i].qty]
             g == [i \in J |-> t[i].qty]
  <1>1. /\ DOMAIN s = 1 .. Len(s) /\ Len(s) \in Nat
        /\ \A i \in DOMAIN s : s[i].product \in Product /\ s[i].qty \in Nat
    <2>1. DOMAIN s = 1 .. Len(s) /\ Len(s) \in Nat /\ \A i \in DOMAIN s : s[i] \in Line
      OBVIOUS
    <2> QED
      BY <2>1 DEF Line
  <1>2. \A i \in DOMAIN s : s[i].qty * n \in Nat
    <2>1. \A a, b \in Nat : a * b \in Nat
      OBVIOUS
    <2> QED
      BY <1>1, <2>1
  <1>3. t \in [1 .. Len(s) -> Line]
    BY <1>1, <1>2 DEF Line
  <1>4. t \in Seq(Line)
    BY <1>1, <1>3
  <1>5. IsFiniteSet(I) /\ J = I
    <2>1. IsFiniteSet(DOMAIN s)
      BY <1>1, FS_Interval
    <2>2. J = I
      OBVIOUS
    <2> QED
      BY <2>1, <2>2, FS_Subset
  <1>6. \A x \in I : f[x] \in Int /\ g[x] = n * f[x]
    BY <1>1, <1>5
  <1>7. DOMAIN f = I /\ DOMAIN g = I
    BY <1>5
  <1>8. QtyIn(s, p) = SumFunctionOnSet(f, I) /\ QtyIn(t, p) = SumFunctionOnSet(g, I)
    BY <1>7 DEF QtyIn, SumFunction
  <1> HIDE DEF I, J, f, g, t
  <1>9. SumFunctionOnSet(g, I) = n * SumFunctionOnSet(f, I)
    BY <1>5, <1>6, SumScaled
  <1> QED
    BY <1>4, <1>8, <1>9 DEF t

\* The loop that joins the lists has a result.
LEMMA FlattenLoop ==
  ASSUME NEW X, NEW ss \in Seq(Seq(X)), Len(ss) # 0
  PROVE  \E flat : /\ flat = [i \in 1 .. Len(ss) |->
                               IF i = 1 THEN ss[i] ELSE flat[i - 1] \o ss[i]]
                   /\ FlattenSeq(ss) = flat[Len(ss)]
  <1> DEFINE V == Seq(X)
             e == Len(ss) - 1
             step == [a \in Nat \X V |-> IF a[1] + 1 \in DOMAIN ss THEN a[2] \o ss[a[1] + 1]
                                         ELSE a[2]]
  <1>1. Len(ss) \in Nat /\ e \in Nat /\ ss[1] \in V /\ \A i \in DOMAIN ss : ss[i] \in V
    OBVIOUS
  <1>2. step \in [Nat \X V -> V]
    BY <1>1
  <1>3. ASSUME NEW i \in 1 .. e, NEW v \in V PROVE step[<<i, v>>] = v \o ss[i + 1]
    <2>1. i + 1 \in DOMAIN ss /\ <<i, v>> \in Nat \X V
      <3>1. DOMAIN ss = 1 .. Len(ss)
        OBVIOUS
      <3>2. i + 1 \in 1 .. Len(ss) /\ i \in Nat
        BY <1>1
      <3> HIDE DEF V
      <3> QED
        BY <3>1, <3>2
    <2> HIDE DEF V
    <2> QED
      BY <2>1
  <1> HIDE DEF V, step
  <1>4. Runs(V, ss[1], step, e) # {}
    BY <1>1, <1>2, NatRecursion
  <1>5. PICK f \in [0 .. e -> V] :
          f[0] = ss[1] /\ \A i \in 1 .. e : f[i] = step[<<i, f[i - 1]>>]
    BY <1>4 DEF Runs
  <1> DEFINE h == [i \in 1 .. Len(ss) |-> f[i - 1]]
             g == [i \in 1 .. Len(ss) |-> IF i = 1 THEN ss[i] ELSE h[i - 1] \o ss[i]]
  <1>6. ASSUME NEW i \in 1 .. Len(ss) PROVE h[i] = g[i]
    <2>1. CASE i = 1
      BY <1>5, <2>1
    <2>2. CASE i # 1
      <3>1. i - 1 \in 1 .. e /\ i - 1 \in 1 .. Len(ss) /\ (i - 1) + 1 = i
            /\ (i - 1) - 1 \in 0 .. e
        BY <1>1, <2>2
      <3>2. f[(i - 1) - 1] \in V /\ f[i - 1] = step[<<i - 1, f[(i - 1) - 1]>>]
        BY <1>5, <3>1
      <3>3. f[i - 1] = f[(i - 1) - 1] \o ss[i]
        BY <1>3, <3>1, <3>2
      <3>4. h[i] = f[i - 1] /\ h[i - 1] = f[(i - 1) - 1]
        BY <3>1
      <3> QED
        BY <2>2, <3>3, <3>4
    <2> QED
      BY <2>1, <2>2
  <1>7. h = g
    BY <1>6
  <1> HIDE DEF h
  <1> QED
    BY <1>7 DEF FlattenSeq

\* A sum over the first naturals, one term at a time.
LEMMA SumOneMore ==
  ASSUME NEW n \in Nat, NEW f, \A i \in 1 .. n + 1 : f[i] \in Int
  PROVE  SumFunctionOnSet(f, 1 .. n + 1) = f[n + 1] + SumFunctionOnSet(f, 1 .. n)
  <1>1. IsFiniteSet(1 .. n + 1) /\ n + 1 \in 1 .. n + 1
    BY FS_Interval
  <1>2. (1 .. n + 1) \ {n + 1} = 1 .. n
    OBVIOUS
  <1> QED
    BY <1>1, <1>2, SumWithout

\* What lists hold together is what they hold each.
LEMMA FlattenQty ==
  ASSUME NEW X, Quantified(X), NEW ss \in Seq(Seq(X)), NEW p
  PROVE  /\ FlattenSeq(ss) \in Seq(X)
         /\ QtyIn(FlattenSeq(ss), p) = SumFunction([i \in DOMAIN ss |-> QtyIn(ss[i], p)])
  <1> DEFINE f == [i \in DOMAIN ss |-> QtyIn(ss[i], p)]
  <1>1. DOMAIN ss = 1 .. Len(ss) /\ Len(ss) \in Nat /\ \A i \in DOMAIN ss : ss[i] \in Seq(X)
    OBVIOUS
  <1>2. DOMAIN f = 1 .. Len(ss) /\ SumFunction(f) = SumFunctionOnSet(f, 1 .. Len(ss))
    BY <1>1 DEF SumFunction
  <1>3. \A i \in DOMAIN ss : f[i] = QtyIn(ss[i], p) /\ f[i] \in Nat
    BY <1>1, QtyInType
  <1> HIDE DEF f
  <1>4. CASE Len(ss) = 0
    <2>1. ss = <<>> /\ DOMAIN ss = {}
      BY <1>1, <1>4
    <2>2. FlattenSeq(ss) = <<>>
      BY <1>4, <2>1 DEF FlattenSeq
    <2>3. SumFunction(f) = 0 /\ QtyIn(<<>>, p) = 0
      BY <1>1, <1>2, <2>1, SumEmpty, QtyInNone
    <2> QED
      BY <2>2, <2>3 DEF f
  <1>5. CASE Len(ss) # 0
    <2>1. PICK F : /\ F = [i \in 1 .. Len(ss) |->
                            IF i = 1 THEN ss[i] ELSE F[i - 1] \o ss[i]]
                   /\ FlattenSeq(ss) = F[Len(ss)]
      BY <1>5, FlattenLoop
    <2> DEFINE T == {n \in Nat : n + 1 <= Len(ss) =>
                       /\ F[n + 1] \in Seq(X)
                       /\ QtyIn(F[n + 1], p) = SumFunctionOnSet(f, 1 .. n + 1)}
    <2>2. 0 \in T
      <3>1. 1 \in DOMAIN ss /\ F[1] = ss[1]
        BY <1>1, <1>5, <2>1
      <3>2. SumFunctionOnSet(f, 1 .. 0) = 0
        <4>1. 1 .. 0 = {} /\ IsFiniteSet({})
          BY FS_EmptySet
        <4> QED
          BY <4>1, SumRecursion
      <3>3. \A i \in 1 .. 0 + 1 : f[i] \in Int
        <4>1. \A i \in 1 .. 0 + 1 : i = 1
          OBVIOUS
        <4> QED
          BY <1>3, <3>1, <4>1
      <3>4. SumFunctionOnSet(f, 1 .. 0 + 1) = f[0 + 1] + SumFunctionOnSet(f, 1 .. 0)
        BY <3>3, SumOneMore
      <3>5. SumFunctionOnSet(f, 1 .. 0 + 1) = f[1]
        BY <1>3, <3>1, <3>2, <3>4
      <3>6. F[0 + 1] \in Seq(X) /\ QtyIn(F[0 + 1], p) = SumFunctionOnSet(f, 1 .. 0 + 1)
        BY <1>1, <1>3, <3>1, <3>5
      <3> QED
        BY <3>6
    <2>3. ASSUME NEW n \in Nat, n \in T PROVE n + 1 \in T
      <3> DEFINE m == n + 1
                 u == F[m]
                 v == ss[m + 1]
                 a == SumFunctionOnSet(f, 1 .. m)
      <3> SUFFICES ASSUME m + 1 <= Len(ss)
                   PROVE  /\ F[m + 1] \in Seq(X)
                          /\ QtyIn(F[m + 1], p) = SumFunctionOnSet(f, 1 .. m + 1)
        OBVIOUS
      <3>1. m \in Nat /\ m + 1 \in DOMAIN ss /\ m + 1 # 1 /\ (m + 1) - 1 = m /\ m <= Len(ss)
        BY <1>1
      <3>2. u \in Seq(X) /\ QtyIn(u, p) = a
        BY <2>3, <3>1
      <3>3. F[m + 1] = u \o v /\ v \in Seq(X)
        BY <1>1, <2>1, <3>1
      <3>4. ASSUME NEW i \in 1 .. m + 1 PROVE f[i] \in Int
        <4>1. i \in 1 .. Len(ss)
          BY <1>1
        <4>2. f[i] \in Nat
          BY <1>1, <1>3, <4>1
        <4> QED
          BY <4>2
      <3>5. f[m + 1] = QtyIn(v, p) /\ f[m + 1] \in Nat
        BY <1>3, <3>1
      <3> HIDE DEF m, u, v
      <3>6. SumFunctionOnSet(f, 1 .. m + 1) = f[m + 1] + a
        BY <3>1, <3>4, SumOneMore
      <3>7. QtyIn(u \o v, p) = QtyIn(u, p) + QtyIn(v, p) /\ QtyIn(u, p) \in Nat
            /\ u \o v \in Seq(X)
        BY <3>2, <3>3, QtyInConcat, QtyInType
      <3> HIDE DEF a
      <3> QED
        BY <3>2, <3>3, <3>5, <3>6, <3>7
    <2> HIDE DEF T
    <2>4. Len(ss) - 1 \in T
      <3>1. Len(ss) - 1 \in Nat
        BY <1>1, <1>5
      <3> QED
        BY <2>2, <2>3, <3>1, NatInduct
    <2>5. (Len(ss) - 1) + 1 = Len(ss) /\ (Len(ss) - 1) + 1 <= Len(ss)
      BY <1>1
    <2>6. F[Len(ss)] \in Seq(X) /\ QtyIn(F[Len(ss)], p) = SumFunctionOnSet(f, 1 .. Len(ss))
      BY <2>4, <2>5 DEF T
    <2> QED
      BY <1>2, <2>1, <2>6 DEF f
  <1> QED
    BY <1>4, <1>5

\* What an event and a recipe are: lists of lines, as decoded from JSON and as
\* ListAssemblies returns them.
OrderLine == [product : Product, qty : Nat, components : Seq(Line)]
ListsOfLines == /\ \A p \in DOMAIN Kits : Kits[p] \in Seq(Line)
                /\ \A m \in OrderMsg : Items(m) \in Seq(OrderLine)

\* Lines have quantities.
LEMMA LineQuantified == Quantified(Line)
  BY DEF Quantified, Line

\* ExpandKitItems expands one item to what the item consumes.
LEMMA ExpandItemQty ==
  ASSUME ListsOfLines, NEW item \in OrderLine, NEW p
  PROVE  /\ ExpandItem(item, Kits) \in Seq(Line)
         /\ QtyIn(ExpandItem(item, Kits), p) = Consumed(item, p)
  <1>1. item.product \in Product /\ item.qty \in Nat /\ item.components \in Seq(Line)
    BY DEF OrderLine
  <1>2. CASE item.product \notin DOMAIN Kits
    <2> DEFINE x == [product |-> item.product, qty |-> item.qty]
    <2>1. x \in Line /\ x.qty \in Nat /\ x.qty = item.qty /\ x.product = item.product
      BY <1>1 DEF Line
    <2>2. ExpandItem(item, Kits) = <<x>>
      BY <1>2 DEF ExpandItem
    <2>3. Consumed(item, p) = QtyIn(<<item>>, p)
      BY <1>2 DEF Consumed
    <2> HIDE DEF x
    <2>4. /\ QtyIn(<<x>>, p) = IF x.product = p THEN x.qty ELSE 0
          /\ QtyIn(<<item>>, p) = IF item.product = p THEN item.qty ELSE 0
      BY <1>1, <2>1, QtyInOne
    <2>5. <<x>> \in Seq(Line)
      BY <2>1
    <2> QED
      BY <2>1, <2>2, <2>3, <2>4, <2>5
  <1>3. CASE item.product \in DOMAIN Kits /\ item.components # <<>>
    <2>1. ExpandItem(item, Kits) = Valid(item.components)
      BY <1>3 DEF ExpandItem
    <2>2. Consumed(item, p) = QtyIn(item.components, p)
      BY <1>3 DEF Consumed
    <2> QED
      BY <1>1, <2>1, <2>2, ValidQty, LineQuantified
  <1>4. CASE item.product \in DOMAIN Kits /\ item.components = <<>>
    <2> DEFINE r == Valid(Kits[item.product])
               t == [i \in DOMAIN r |-> [product |-> r[i].product, qty |-> r[i].qty * item.qty]]
    <2>1. ExpandItem(item, Kits) = t
      BY <1>4 DEF ExpandItem
    <2>2. Consumed(item, p) = item.qty * QtyIn(Kits[item.product], p)
      BY <1>4 DEF Consumed
    <2>3. r \in Seq(Line) /\ QtyIn(r, p) = QtyIn(Kits[item.product], p)
      BY <1>4, ValidQty, LineQuantified DEF ListsOfLines
    <2> HIDE DEF r
    <2>4. t \in Seq(Line) /\ QtyIn(t, p) = item.qty * QtyIn(r, p)
      BY <1>1, <2>3, ScaledQty
    <2> QED
      BY <2>1, <2>2, <2>3, <2>4
  <1> QED
    BY <1>2, <1>3, <1>4

\* The lines of an event hold what its items need.
LEMMA LinesQty ==
  ASSUME ListsOfLines, NEW m \in OrderMsg, NEW p
  PROVE  Lines(m) \in Seq(Line) /\ QtyIn(Lines(m), p) = Needed(m, p)
  <1> DEFINE items == Items(m)
             ss == [i \in DOMAIN items |-> ExpandItem(items[i], Kits)]
             f == [i \in DOMAIN ss |-> QtyIn(ss[i], p)]
             g == [i \in DOMAIN items |-> Consumed(items[i], p)]
  <1>1. items \in Seq(OrderLine)
    BY DEF ListsOfLines
  <1> HIDE DEF items
  <1>2. DOMAIN items = 1 .. Len(items) /\ Len(items) \in Nat
        /\ \A i \in DOMAIN items : items[i] \in OrderLine
    BY <1>1
  <1>3. ASSUME NEW i \in DOMAIN items
        PROVE  /\ ExpandItem(items[i], Kits) \in Seq(Line)
               /\ QtyIn(ExpandItem(items[i], Kits), p) = Consumed(items[i], p)
    BY <1>2, ExpandItemQty
  <1>4. ss \in Seq(Seq(Line)) /\ DOMAIN ss = DOMAIN items
    <2> DEFINE V == Seq(Line)
    <2>1. \A i \in DOMAIN items : ExpandItem(items[i], Kits) \in V
      BY <1>3
    <2> HIDE DEF V
    <2>2. ss \in [1 .. Len(items) -> V]
      BY <1>2, <2>1
    <2>3. ss \in Seq(V) /\ DOMAIN ss = DOMAIN items
      BY <1>2, <2>2
    <2> QED
      BY <2>3 DEF V
  <1>5. f = g
    BY <1>3, <1>4
  <1>6. /\ FlattenSeq(ss) \in Seq(Line)
        /\ QtyIn(FlattenSeq(ss), p) = SumFunction(f)
    <2> HIDE DEF ss
    <2> QED
      BY <1>4, FlattenQty, LineQuantified
  <1>7. Lines(m) = FlattenSeq(ss)
    BY DEF Lines, ExpandKitItems, items
  <1>8. Needed(m, p) = SumFunction(g)
    BY DEF Needed, items
  <1> QED
    BY <1>5, <1>6, <1>7, <1>8

\* The quantity a row of stock_reservations gets from the lines of an event,
\* and the events whose lines name a product once.
Booked(lines, p) ==
  IF p \in KeptProducts(lines) THEN lines[LastLine(lines, p)].qty ELSE 0
EachProductOnce(lines) ==
  \A i, j \in Kept(lines) : lines[i].product = lines[j].product => i = j

\* Such an event has a single line for a product, and nothing is lost.
LEMMA BookedQty ==
  ASSUME NEW s \in Seq(Line), EachProductOnce(s), NEW p
  PROVE  Booked(s, p) = QtyIn(s, p)
  <1> DEFINE I == {j \in DOMAIN s : s[j].product = p}
             f == [i \in I |-> s[i].qty]
  <1>1. /\ DOMAIN s = 1 .. Len(s) /\ Len(s) \in Nat
        /\ \A i \in DOMAIN s : s[i] \in Line
    OBVIOUS
  <1>2. \A i \in DOMAIN s : s[i].qty \in Nat
    BY <1>1 DEF Line
  <1>3. IsFiniteSet(I)
    <2>1. IsFiniteSet(DOMAIN s)
      BY <1>1, FS_Interval
    <2> QED
      BY <2>1, FS_Subset
  <1>4. QtyIn(s, p) = SumFunctionOnSet(f, I)
    BY DEF QtyIn, SumFunction
  <1>5. \A i \in I : f[i] = s[i].qty /\ f[i] \in Nat /\ (i \in Kept(s) \/ f[i] = 0)
    BY <1>2 DEF Kept
  <1> HIDE DEF f
  <1>6. CASE p \in KeptProducts(s)
    <2> DEFINE e == LastLine(s, p)
    <2>1. PICK i \in Kept(s) : s[i].product = p
      BY <1>6 DEF KeptProducts
    <2>2. \A j \in Kept(s) : s[j].product = p => j = i
      BY <2>1 DEF EachProductOnce
    <2>3. i \in I /\ i <= i
      BY <1>1, <2>1 DEF Kept
    <2>4. e \in Kept(s) /\ s[e].product = p
      BY <2>1, <2>2, <2>3 DEF LastLine
    <2> HIDE DEF e
    <2>5. e = i
      BY <2>2, <2>4
    <2>6. \A j \in I \ {e} : f[j] = 0
      BY <1>5, <2>2, <2>5
    <2>7. IsFiniteSet(I \ {e})
      BY <1>3, FS_Subset
    <2>8. SumFunctionOnSet(f, I \ {e}) = 0
      BY <2>6, <2>7, SumZero
    <2>9. SumFunctionOnSet(f, I) = f[e] + SumFunctionOnSet(f, I \ {e})
      <3>1. e \in I /\ \A j \in I : f[j] \in Int
        BY <1>5, <2>3, <2>5
      <3> HIDE DEF I
      <3> QED
        BY <1>3, <3>1, SumWithout
    <2>10. f[e] = s[e].qty /\ f[e] \in Nat
      BY <1>5, <2>3, <2>5
    <2>11. Booked(s, p) = s[e].qty
      BY <1>6 DEF Booked, e
    <2> QED
      BY <1>4, <2>8, <2>9, <2>10, <2>11
  <1>7. CASE p \notin KeptProducts(s)
    <2>1. \A i \in I : f[i] = 0
      BY <1>5, <1>7 DEF KeptProducts
    <2>2. SumFunctionOnSet(f, I) = 0
      BY <1>3, <2>1, SumZero
    <2> QED
      BY <1>4, <1>7, <2>2 DEF Booked
  <1> QED
    BY <1>6, <1>7

(***************************************************************************)
(* What the only event of an order books                                   *)
(***************************************************************************)

\* The rows of the order of event m: none but for the products of its lines,
\* and the quantities its lines book.
RowsWithin(m) ==
  \A p \in Product : p \notin KeptProducts(Lines(m)) => rsv[Body[m].order][p] = NoReservation
RowsBooked(m) ==
  \A p \in Product : rsv[Body[m].order][p].qty = Booked(Lines(m), p)

\* ReserveOrder has committed the rows of event m: a handler is past
\* ReplaceReservations with it, or the event is acknowledged.
BookedPc == {"recalc", "write", "publish", "leave", "ack"}
HasBooked(m) ==
  \/ status[m] = "acked"
  \/ \E w \in OrderWorker : job[w] = m /\ pc[w] \in BookedPc

\* The inductive form of ReservesWhatIsConsumed: it holds from the COMMIT of
\* ReplaceReservations on, through the confirmation by an invoice and through
\* further deliveries of the event.
BookedInv(m) ==
  /\ Body[m].order \in Order => RowsWithin(m)
  /\ HasBooked(m) => Body[m].order \in Order /\ RowsBooked(m)
BookInv == \A m \in OrderMsg : OnlyEventOf(m) => BookedInv(m)

\* At first no row exists and nothing is booked.
LEMMA InitBook == Init => BookInv
  <1> SUFFICES ASSUME Init, NEW m \in OrderMsg PROVE BookedInv(m)
    BY DEF BookInv
  <1>1. m \in Msg /\ OrderWorker \subseteq Worker
    BY SalesAssumption DEF Msg
  <1> QED
    BY <1>1 DEF Init, BookedInv, RowsWithin, HasBooked, BookedPc

\* Only the replacement of its rows books an event.
LEMMA NewlyBooked ==
  ASSUME TypeOK, NEW m \in OrderMsg, NEW w \in Worker, WorkerStep(w) \/ Crash(w),
         HasBooked(m)'
  PROVE  HasBooked(m) \/ (Replace(w) /\ job[w] = m)
  <1> SUFFICES ASSUME ~ HasBooked(m), ~ (Replace(w) /\ job[w] = m) PROVE FALSE
    OBVIOUS
  <1>1. /\ pc \in [Worker -> Pc] /\ DOMAIN status = Msg /\ DOMAIN job = Worker /\ m \in Msg
        /\ w \in OrderWorker => pc[w] \notin InvoicePc
        /\ pc[w] \in {"ack", "nack"} /\ job[w] = m => w \in OrderWorker
        /\ m # NoMsg
    BY SalesAssumption DEF TypeOK, HandlerTypeOK, BrokerTypeOK, PcOf, MsgOf, Msg
  <1>2. status[m] # "acked" /\ (w \in OrderWorker => ~ (job[w] = m /\ pc[w] \in BookedPc))
    BY DEF HasBooked
  <1>3. \A v \in OrderWorker \ {w} : pc'[v] = pc[v] /\ job'[v] = job[v]
    BY OthersWait, SalesAssumption
  <1>4. ASSUME status'[m] # "acked",
               w \in OrderWorker => ~ (job'[w] = m /\ pc'[w] \in BookedPc)
        PROVE  FALSE
    BY <1>3, <1>4 DEF HasBooked
  <1>5. CASE Publish(w)
    BY <1>1, <1>2, <1>4, <1>5 DEF Publish, Jump, At, brokerVars, BookedPc
  <1>6. CASE Recalc(w) \/ WriteReserved(w)
    BY <1>1, <1>2, <1>4, <1>6 DEF Recalc, WriteReserved, At, Jump, brokerVars, BookedPc
  <1>7. CASE LockOrder(w) \/ OrderBusy(w) \/ LeaveOrder(w) \/ Fails(w)
    BY <1>1, <1>2, <1>4, <1>7
       DEF LockOrder, OrderBusy, LeaveOrder, Fails, At, Jump, brokerVars, BookedPc
  <1>8. CASE Replace(w)
    BY <1>1, <1>2, <1>4, <1>8 DEF Replace, brokerVars
  <1>9. CASE InvoiceStep(w)
    <2>1. w \notin OrderWorker
      BY <1>9, WhoSteps, SalesAssumption DEF TypeOK
    <2>2. UNCHANGED status
      BY <1>9 DEF InvoiceStep, CheckInvoice, FindOpen, PassClosed, Confirm, NothingOpen,
                  CountReservations, CheckLegacy, ListLegacy, Direct, NextCall, LoopDone,
                  InSection, Deduct,
           SectionOk, SectionErr, Decide, brokerVars
    <2> QED
      BY <1>2, <1>4, <2>1, <2>2
  <1>10. CASE \E n \in Msg : Take(w, n)
    BY <1>1, <1>2, <1>4, <1>10 DEF Take, Jump, BookedPc
  <1>11. CASE Ack(w)
    <2>1. job[w] # m
      BY <1>1, <1>2, <1>11 DEF Ack, At, BookedPc
    <2> QED
      BY <1>1, <1>2, <1>4, <1>11, <2>1 DEF Ack, Settle, Forget, Jump, BookedPc
  <1>12. CASE Nack(w) \/ Crash(w)
    <2>1. status'[m] # "acked"
      BY <1>1, <1>2, <1>12 DEF Nack, Settle, Crash
    <2>2. pc'[w] = "idle"
      BY <1>1, <1>12 DEF Nack, Settle, Crash, Forget, Jump
    <2> QED
      BY <1>4, <2>1, <2>2 DEF BookedPc
  <1> QED
    BY <1>5, <1>6, <1>7, <1>8, <1>9, <1>10, <1>11, <1>12 DEF WorkerStep, OrderStep

\* The only event of an order books its lines, and what a confirmation makes
\* of the rows keeps their quantities.
LEMMA RowsMove ==
  ASSUME TypeOK, TicketInv, NEW m \in OrderMsg, OnlyEventOf(m), Body[m].order \in Order,
         RowsWithin(m), NEW w \in Worker, WorkerStep(w) \/ Crash(w)
  PROVE  /\ RowsWithin(m)'
         /\ RowsBooked(m) \/ (Replace(w) /\ job[w] = m) => RowsBooked(m)'
  <1> DEFINE o == Body[m].order
             lines == Lines(m)
  <1>1. rsv \in [Order -> [Product -> Reservation]] /\ o \in Order
    BY DEF TypeOK, RepoTypeOK
  <1>2. CASE Replace(w) /\ job[w] = m
    <2>1. rsv' = [rsv EXCEPT ![o] = [r \in Product |-> Replaced(@[r], lines, Body[m].wh, r)]]
      BY <1>2 DEF Replace, ReplaceReservations, OrderOf
    <2>2. \A p \in Product : rsv'[o][p] = Replaced(rsv[o][p], lines, Body[m].wh, p)
      BY <1>1, <2>1
    <2>3. \A p \in Product : p \notin KeptProducts(lines) => rsv[o][p] = NoReservation
      BY DEF RowsWithin
    <2>4. ASSUME NEW p \in Product
          PROVE  /\ p \notin KeptProducts(lines) => rsv'[o][p] = NoReservation
                 /\ rsv'[o][p].qty = Booked(lines, p)
      <3> DEFINE row == rsv[o][p]
                 newRow == rsv'[o][p]
      <3>1. /\ newRow = Replaced(row, lines, Body[m].wh, p)
            /\ p \notin KeptProducts(lines) => row = NoReservation
        BY <2>2, <2>3
      <3> HIDE DEF o, lines, row, newRow
      <3>2. ASSUME p \in KeptProducts(lines)
            PROVE  newRow.qty = Booked(lines, p)
        BY <3>1, <3>2 DEF Replaced, Booked
      <3>3. ASSUME p \notin KeptProducts(lines)
            PROVE  newRow = NoReservation /\ newRow.qty = Booked(lines, p)
        <4>1. row.status = "NONE" /\ row.qty = 0
          BY <3>1, <3>3 DEF NoReservation
        <4>2. newRow = row
          BY <3>1, <3>3, <4>1 DEF Replaced
        <4> QED
          BY <3>1, <3>3, <4>1, <4>2 DEF Booked
      <3>4. (p \notin KeptProducts(lines) => newRow = NoReservation)
            /\ newRow.qty = Booked(lines, p)
        BY <3>2, <3>3
      <3> QED
        BY <3>4 DEF newRow
    <2> QED
      BY <2>4 DEF RowsWithin, RowsBooked
  <1>3. CASE Replace(w) /\ job[w] # m
    <2>1. job[w] \in OrderMsg
      BY <1>3, WhoSteps DEF TypeOK, HandlerTypeOK, MsgOf, Replace, At, OrderStep
    <2>2. OrderOf(w) # o
      BY <1>3, <2>1 DEF OnlyEventOf, OrderOf
    <2>3. rsv'[o] = rsv[o]
      BY <1>1, <1>3, <2>2 DEF Replace, ReplaceReservations
    <2> QED
      BY <1>3, <2>3 DEF RowsWithin, RowsBooked
  <1>4. CASE Confirm(w)
    <2>1. \A p \in Product : \/ rsv'[o][p] = rsv[o][p]
                             \/ /\ p \in OpenProducts(o)
                                /\ rsv'[o][p] = [rsv[o][p] EXCEPT !.status = "CONFIRMED"]
      BY <1>1, <1>4, RowAfter
    <2>2. \A p \in Product : p \in OpenProducts(o) => rsv[o][p] # NoReservation
      BY DEF OpenProducts, NoReservation
    <2>3. ASSUME NEW p \in Product PROVE rsv'[o][p].qty = rsv[o][p].qty
      <3> DEFINE row == rsv[o][p]
                 newRow == rsv'[o][p]
      <3>1. row \in Reservation
        BY <1>1
      <3>2. newRow = row \/ newRow = [row EXCEPT !.status = "CONFIRMED"]
        BY <2>1
      <3> HIDE DEF row, newRow
      <3>3. newRow.qty = row.qty
        BY <3>1, <3>2 DEF Reservation
      <3> QED
        BY <3>3 DEF row, newRow
    <2>4. ~ Replace(w)
      BY <1>4 DEF Confirm, Replace, At
    <2> QED
      BY <2>1, <2>2, <2>3, <2>4 DEF RowsWithin, RowsBooked
  <1>5. CASE rsv' = rsv /\ ~ Replace(w)
    BY <1>5 DEF RowsWithin, RowsBooked
  <1> QED
    BY <1>2, <1>3, <1>4, <1>5, RowsStay

\* No step takes from what an event has booked.
LEMMA BookStep ==
  TypeOK /\ TicketInv /\ BookInv /\ [Next]_vars => BookInv'
  <1> SUFFICES ASSUME TypeOK, TicketInv, BookInv, [Next]_vars,
                      NEW m \in OrderMsg, OnlyEventOf(m)
               PROVE  BookedInv(m)'
    BY DEF BookInv
  <1>1. BookedInv(m)
    BY DEF BookInv
  <1>2. ASSUME UNCHANGED <<rsv, status, job, pc>> PROVE BookedInv(m)'
    BY <1>1, <1>2 DEF BookedInv, RowsWithin, RowsBooked, HasBooked
  <1>3. CASE UNCHANGED vars
    BY <1>2, <1>3 DEF vars, repoVars, brokerVars, handlerVars
  <1>4. ASSUME NEW n \in LockName, TtlRunsOut(n) PROVE BookedInv(m)'
    BY <1>2, <1>4 DEF TtlRunsOut, LockExpires, repoVars, brokerVars, handlerVars
  <1>5. ASSUME NEW w \in Worker, WorkerStep(w) \/ Crash(w) PROVE BookedInv(m)'
    <2>1. Replace(w) /\ job[w] = m => Body[m].order \in Order
      BY DEF TypeOK, HandlerTypeOK, Replace, At, OrderOf
    <2>2. HasBooked(m)' => HasBooked(m) \/ (Replace(w) /\ job[w] = m)
      BY <1>5, NewlyBooked
    <2>3. Body[m].order \in Order => RowsWithin(m)'
      BY <1>1, <1>5, RowsMove DEF BookedInv
    <2>4. HasBooked(m)' => Body[m].order \in Order /\ RowsBooked(m)'
      BY <1>1, <1>5, <2>1, <2>2, RowsMove DEF BookedInv
    <2> QED
      BY <2>3, <2>4 DEF BookedInv
  <1> QED
    BY <1>3, <1>4, <1>5 DEF Next

\* What it has booked is what its lines consume, if each product has one line.
LEMMA BookedIsConsumed ==
  ASSUME ListsOfLines, \A m \in OrderMsg : EachProductOnce(Lines(m))
  PROVE  BookInv => ReservesWhatIsConsumed
  <1> SUFFICES ASSUME BookInv, NEW m \in OrderMsg, status[m] = "acked", OnlyEventOf(m),
                      NEW p \in Product
               PROVE  rsv[Body[m].order][p].qty = Needed(m, p)
    BY DEF ReservesWhatIsConsumed
  <1>1. rsv[Body[m].order][p].qty = Booked(Lines(m), p)
    BY DEF BookInv, BookedInv, HasBooked, RowsBooked
  <1>2. Lines(m) \in Seq(Line) /\ QtyIn(Lines(m), p) = Needed(m, p)
    BY LinesQty
  <1>3. Booked(Lines(m), p) = QtyIn(Lines(m), p)
    BY <1>2, BookedQty
  <1> QED
    BY <1>1, <1>2, <1>3

\* An acknowledged order event has reserved, product by product, what its
\* lines take from the stock, kits scaled and customised lists as they are
\* (stock.go:229-260, stock_repo.go:140-185), provided no two of its lines
\* come to the same product: the upsert of the second would replace the first.
THEOREM ReservedIsConsumed ==
  ASSUME ListsOfLines, \A m \in OrderMsg : EachProductOnce(Lines(m))
  PROVE  Spec => []ReservesWhatIsConsumed
  BY BookedIsConsumed, InitTypeOK, TypeStep, InitTickets, TicketStep, InitBook, BookStep, PTL
     DEF Spec
=============================================================================

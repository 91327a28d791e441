--------------------------- MODULE RequestsProofs ---------------------------
(***************************************************************************)
(* For any requests, workers, catalogue and opening stock: the operations  *)
(* of Requests keep the types of their tables, balances are what the       *)
(* ledger says, the cache is what the table says, stock keeps its product, *)
(* a document is received once, transfers create nothing, and transfers    *)
(* and first receipts that succeeded are in the ledger.  What each theorem *)
(* asks of the faults is in its ASSUME.                                    *)
(***************************************************************************)
EXTENDS Requests, ApplyQtyProofs, UnitProofs

(***************************************************************************)
(* The calls                                                               *)
(***************************************************************************)

\* A call of applyQtySub (service.go:476-506) is a planned one.
LEMMA ApplyCallPlanned ==
  ASSUME NEW type \in MovementType, NEW k \in Keys, NEW q \in Int, NEW doc \in Document
  PROVE  ApplyCall(0, type, k, q, doc, NoTag) \in Planned
  BY DEF ApplyCall, Planned, Change

\* The calls of an accepted request are planned calls.
LEMMA CallsPlanned ==
  ASSUME NEW w \in Worker, Accepted(w)
  PROVE  CallsOf(w) \in Seq(Planned)
  <1> DEFINE r == Request[w]
  <1>1. RequestOK(r)
    BY RequestsAssumption
  <1>2. CASE r.op = "movement"
    <2>1. r.key \in Keys /\ r.qty \in Int
      BY <1>1, <1>2 DEF RequestOK
    <2>2. (IF r.out THEN "MANUAL_OUT" ELSE "MANUAL_IN") \in MovementType
      BY DEF MovementType, AddTypes, OutTypes
    <2>3. <<"MANUAL", NoDoc>> \in Document
      BY DEF Document, DocType
    <2>4. ApplyCall(0, IF r.out THEN "MANUAL_OUT" ELSE "MANUAL_IN", r.key, r.qty,
                    <<"MANUAL", NoDoc>>, NoTag) \in Planned
      BY <2>1, <2>2, <2>3, ApplyCallPlanned
    <2> QED
      BY <1>2, <2>4 DEF CallsOf
  <1>3. CASE r.op = "transfer"
    <2>1. <<r.product, r.from>> \in Keys /\ <<r.product, r.to>> \in Keys /\ r.qty \in Int
      BY <1>1, <1>3 DEF RequestOK, Keys
    <2>2. <<"TRANSFER", r.ref>> \in Document
      BY <1>1, <1>3 DEF RequestOK, Document, DocType
    <2>3. "TRANSFER_OUT" \in MovementType /\ "TRANSFER_IN" \in MovementType
      BY DEF MovementType, AddTypes, OutTypes
    <2>4. /\ Transfer(w, "TRANSFER_OUT", r.from) \in Planned
          /\ Transfer(w, "TRANSFER_IN", r.to) \in Planned
      BY <2>1, <2>2, <2>3, ApplyCallPlanned DEF Transfer
    <2> QED
      BY <1>3, <2>4 DEF CallsOf
  <1>4. CASE r.op = "receive"
    <2>1. /\ r.wh \in Warehouse /\ r.doc \in DocId
          /\ r.type \in {"PURCHASE_ORDER", "INVOICE"}
          /\ r.items \in Seq([product : Product, qty : Int])
      BY <1>1, <1>4 DEF RequestOK, Accepted, MaybeWarehouse
    <2>2. ReceiptDoc(w) \in Document
      BY <2>1 DEF ReceiptDoc, Document, DocType
    <2> DEFINE C(i) == ApplyCall(0, "PURCHASE_IN", <<r.items[i].product, r.wh>>,
                                 r.items[i].qty, ReceiptDoc(w), NoTag)
    <2>3. Len(r.items) \in Nat /\ DOMAIN r.items = 1 .. Len(r.items)
      BY <2>1, LenProperties
    <2>4. ASSUME NEW i \in 1 .. Len(r.items) PROVE C(i) \in Planned
      <3> DEFINE item == r.items[i]
      <3>0. item \in [product : Product, qty : Int]
        BY <2>1, <2>3, LenProperties
      <3>1. item.product \in Product /\ item.qty \in Int
        BY <3>0
      <3>2. <<r.items[i].product, r.wh>> \in Keys /\ "PURCHASE_IN" \in MovementType
        BY <2>1, <3>1 DEF Keys, MovementType, AddTypes, OutTypes
      <3> QED
        BY <2>2, <3>1, <3>2, ApplyCallPlanned
    <2> HIDE DEF C
    <2>5. [i \in 1 .. Len(r.items) |-> C(i)] \in [1 .. Len(r.items) -> Planned]
      BY <2>4
    <2>6. [i \in 1 .. Len(r.items) |-> C(i)] \in Seq(Planned)
      BY <2>3, <2>5, SeqDef
    <2> QED
      BY <1>4, <2>3, <2>6 DEF CallsOf, C
  <1>5. CASE r.op \in {"set", "delete"}
    BY <1>5 DEF CallsOf
  <1> QED
    BY <1>1, <1>2, <1>3, <1>4, <1>5 DEF RequestOK

\* A planned call with a quantity is a complete call of the section.
LEMMA PlannedComplete ==
  ASSUME NEW c \in Planned, NEW q \in Nat
  PROVE  /\ [c EXCEPT !.qty = q] \in Call({NoTag})
         /\ [c EXCEPT !.qty = q].posts # <<>>
         /\ c.qty \in Nat => c \in Call({NoTag}) /\ c.posts # <<>>
  <1>1. PICK type \in MovementType : c.posts = <<type>>
    BY DEF Planned
  <1>2. c.posts \in Seq(MovementType) /\ c.posts # <<>>
    BY <1>1
  <1> QED
    BY <1>2 DEF Planned, Call

\* What toStockFromPurchase returns (service.go:457-464).
LEMMA StockQtyType ==
  ASSUME NEW p, NEW q \in Nat
  PROVE  StockQty(p, q) \in Nat \cup {NoConversion}
  <1>1. CASE p \in DOMAIN Catalogue
    <2>1. ConversionsOK(Normalized(Catalogue[p]).convs)
      BY <1>1, RequestsAssumption, NormalizedOK
    <2> QED
      BY <1>1, <2>1, ConvertType DEF StockQty, PurchaseToStock
  <1>2. CASE p \notin DOMAIN Catalogue
    BY <1>2 DEF StockQty
  <1> QED
    BY <1>1, <1>2

(***************************************************************************)
(* The handlers                                                            *)
(***************************************************************************)

\* The tables and handlers start well typed.
LEMMA RequestsInitType == Init => TypeOK
  <1> SUFFICES ASSUME Init PROVE TypeOK
    OBVIOUS
  <1>1. RepoTypeOK
    BY RequestsAssumption DEF Init, RepoTypeOK, Reservation, NoReservation, Status,
                              MaybeWarehouse
  <1>2. SectionTypeOK({NoTag})
    BY DEF Init, SectionInit, SectionTypeOK, LockInit, LockTypeOK, Stage
  <1>3. HandlersTypeOK
    BY RequestsAssumption DEF Init, SectionInit, HandlersTypeOK, Pc, At
  <1> QED
    BY <1>1, <1>2, <1>3 DEF TypeOK

\* A handler moves on to label.
LEMMA RequestMoves ==
  ASSUME HandlersTypeOK, NEW w \in Worker, NEW label \in Pc, Jump(w, label),
         products' \subseteq Product, tries' \in [Worker -> 0 .. MaxTries],
         DOMAIN calls' = Worker, calls'[w] \in Seq(Planned),
         \A v \in Worker \ {w} : calls'[v] = calls[v] /\ stage'[v] = stage[v],
         label = "section" => calls'[w] # <<>>,
         label = "undo" => Op(w, "transfer"),
         label \in {"loop", "section", "undo"} /\ Op(w, "transfer") => Request[w].qty > 0,
         label \in {"set", "caching"} => Op(w, "set"),
         label \notin {"section", "undoing"} => stage'[w] = "idle"
  PROVE  HandlersTypeOK'
  <1>1. pc' = [pc EXCEPT ![w] = label] /\ pc'[w] = label /\ pc' \in [Worker -> Pc]
    BY DEF Jump, HandlersTypeOK
  <1>2. ASSUME NEW v \in Worker
        PROVE  /\ calls'[v] \in Seq(Planned)
               /\ pc'[v] = "section" => calls'[v] # <<>>
               /\ pc'[v] = "undo" => Op(v, "transfer")
               /\ pc'[v] \in {"loop", "section", "undo"} /\ Op(v, "transfer")
                    => Request[v].qty > 0
               /\ pc'[v] \in {"set", "caching"} => Op(v, "set")
               /\ pc'[v] \notin {"section", "undoing"} => stage'[v] = "idle"
    <2>1. CASE v = w
      BY <1>1, <2>1
    <2>2. CASE v # w
      BY <1>1, <2>2 DEF HandlersTypeOK, At
    <2> QED
      BY <2>1, <2>2
  <1> QED
    BY <1>1, <1>2 DEF HandlersTypeOK, At

\* The types depend on the variables only.
LEMMA RequestUntouched ==
  /\ RepoTypeOK /\ UNCHANGED repoVars => RepoTypeOK'
  /\ SectionTypeOK({NoTag}) /\ UNCHANGED sectionVars /\ LockTypeOK' => SectionTypeOK({NoTag})'
  /\ SectionTypeOK({NoTag}) /\ UNCHANGED <<lock, sectionVars>> => SectionTypeOK({NoTag})'
  BY DEF RepoTypeOK, repoVars, SectionTypeOK, sectionVars, LockTypeOK

\* What a step of the handler has at hand.
LEMMA AtHand ==
  ASSUME HandlersTypeOK, NEW w \in Worker
  PROVE  /\ products \subseteq Product /\ tries \in [Worker -> 0 .. MaxTries]
         /\ DOMAIN calls = Worker /\ calls[w] \in Seq(Planned)
         /\ calls[w] # <<>> => Head(calls[w]) \in Planned /\ Tail(calls[w]) \in Seq(Planned)
         /\ pc[w] \notin {"section", "undoing"} => stage[w] = "idle"
         /\ pc[w] \in {"loop", "section", "undo"} /\ Op(w, "transfer") => Request[w].qty > 0
         /\ \A e : LET new == [calls EXCEPT ![w] = e]
                   IN  /\ DOMAIN new = Worker /\ new[w] = e
                       /\ \A v \in Worker \ {w} : new[v] = calls[v]
  <1>1. calls[w] \in Seq(Planned) /\ DOMAIN calls = Worker
    BY DEF HandlersTypeOK
  <1>2. calls[w] # <<>> => Head(calls[w]) \in Planned /\ Tail(calls[w]) \in Seq(Planned)
    BY <1>1, HeadTailProperties
  <1> QED
    BY <1>1, <1>2 DEF HandlersTypeOK

\* The steps that touch neither tables nor section: they validate, ask and
\* pass over lines.
LEMMA QuietStepType ==
  ASSUME TypeOK, NEW w \in Worker,
         \/ Submit(w) \/ Refuse(w) \/ SkipReceived(w) \/ Accept(w) \/ NotConverted(w)
         \/ SkipLine(w) \/ LoopDone(w) \/ CheckUse(w) \/ Delete(w) \/ StatementFails(w)
  PROVE  TypeOK'
  <1> USE DEF TypeOK
  <1>1. UNCHANGED <<repoVars, lock, sectionVars>>
    BY DEF Submit, Refuse, SkipReceived, Accept, NotConverted, SkipLine, LoopDone, CheckUse,
           Delete, StatementFails
  <1>2. UNCHANGED stage
    BY <1>1 DEF sectionVars
  <1>3. HandlersTypeOK'
    <2>1. CASE Submit(w)
      <3>1. tries' \in [Worker -> 0 .. MaxTries]
        BY <2>1, AtHand, RequestsAssumption DEF Submit
      <3>2. pc[w] \notin {"section", "undoing"}
        BY <2>1 DEF Submit, At
      <3> QED
        BY <1>2, <2>1, <3>1, <3>2, AtHand, RequestMoves DEF Submit, Pc
    <2>2. CASE Refuse(w) \/ SkipReceived(w) \/ LoopDone(w) \/ StatementFails(w)
      <3>1. /\ Jump(w, "failed") \/ Jump(w, "ok")
            /\ UNCHANGED <<products, calls, tries>>
        BY <2>2 DEF Refuse, SkipReceived, LoopDone, StatementFails
      <3>2. pc[w] \notin {"section", "undoing"}
        BY <2>2 DEF Refuse, SkipReceived, LoopDone, StatementFails, At, AfterCheck
      <3> QED
        BY <1>2, <3>1, <3>2, AtHand, RequestMoves DEF Pc
    <2>3. CASE Accept(w)
      <3> DEFINE label == CASE Op(w, "set") -> "set" [] Op(w, "delete") -> "movements"
                            [] OTHER -> "loop"
      <3>1. /\ label \in Pc \ {"section", "undo", "caching"}
            /\ label = "set" => Op(w, "set")
        BY DEF Pc, AfterCheck
      <3>2. /\ Jump(w, label) /\ calls' = [calls EXCEPT ![w] = CallsOf(w)]
            /\ UNCHANGED <<products, tries>> /\ Accepted(w) /\ pc[w] = "start"
        BY <2>3 DEF Accept, At
      <3> HIDE DEF label
      <3> QED
        BY <1>2, <3>1, <3>2, CallsPlanned, AtHand, RequestMoves DEF Accepted, Op
    <2>4. CASE NotConverted(w)
      <3>1. /\ Jump(w, "failed") /\ calls' = [calls EXCEPT ![w] = <<>>]
            /\ UNCHANGED <<products, tries>> /\ pc[w] = "loop"
        BY <2>4 DEF NotConverted, At
      <3>2. <<>> \in Seq(Planned)
        OBVIOUS
      <3> QED
        BY <1>2, <3>1, <3>2, AtHand, RequestMoves DEF Pc
    <2>5. CASE SkipLine(w)
      <3>1. /\ calls' = [calls EXCEPT ![w] = Tail(calls[w])] /\ calls[w] # <<>>
            /\ UNCHANGED <<products, tries, pc>> /\ pc[w] = "loop"
        BY <2>5 DEF SkipLine, At
      <3>2. Jump(w, "loop")
        BY <3>1 DEF Jump, HandlersTypeOK
      <3> QED
        BY <1>2, <3>1, <3>2, AtHand, RequestMoves DEF Pc
    <2>6. CASE CheckUse(w)
      <3>1. PICK label \in Pc \ {"loop", "section", "undo", "set", "caching"} : Jump(w, label)
        BY <2>6 DEF CheckUse, Pc, AfterCheck
      <3>2. pc[w] \notin {"section", "undoing"} /\ UNCHANGED <<products, calls, tries>>
        BY <2>6 DEF CheckUse, AfterCheck
      <3> QED
        BY <1>2, <3>1, <3>2, AtHand, RequestMoves
    <2>7. CASE Delete(w)
      <3>1. Jump(w, "ok") \/ Jump(w, "failed")
        BY <2>7 DEF Delete
      <3>2. products' \subseteq Product /\ UNCHANGED <<calls, tries>> /\ pc[w] = "delete"
        BY <2>7, AtHand DEF Delete, At
      <3> QED
        BY <1>2, <3>1, <3>2, AtHand, RequestMoves DEF Pc
    <2> QED
      BY <2>1, <2>2, <2>3, <2>4, <2>5, <2>6, <2>7
  <1> QED
    BY <1>1, <1>3, RequestUntouched

\* The steps that run the section, and those of SetBalance.
LEMMA SectionRunType ==
  ASSUME TypeOK, NEW w \in Worker,
         \/ NextCall(w) \/ InSection(w) \/ SectionOk(w) \/ SectionErr(w)
         \/ Undo(w) \/ UndoDone(w) \/ SetBalance(w) \/ CacheSet(w) \/ Crash(w)
  PROVE  TypeOK'
  <1> USE DEF TypeOK
  <1>1. CASE NextCall(w)
    <2>1. PICK c \in Call({NoTag}) : c.posts # <<>> /\ Begin(w, c)
      <3>1. Head(calls[w]) \in Planned /\ Head(calls[w]).qty > 0
        BY <1>1, AtHand DEF NextCall, HasLine
      <3>2. Head(calls[w]).qty \in Nat
        BY <3>1 DEF Planned
      <3>3. Op(w, "receive") => Converted(w) \in Nat
        BY <1>1, <3>2, StockQtyType DEF NextCall, Convertible, Converted
      <3> QED
        BY <1>1, <3>1, <3>2, <3>3, PlannedComplete DEF NextCall
    <2>2. SectionTypeOK({NoTag})'
      BY <2>1, BeginType
    <2>3. \A v \in Worker \ {w} : stage'[v] = stage[v]
      BY <2>1 DEF Begin, Goto, SectionTypeOK
    <2>4. HandlersTypeOK'
      BY <1>1, <2>3, AtHand, RequestMoves DEF NextCall, HasLine, At, Pc
    <2> QED
      BY <1>1, <2>2, <2>4, RequestUntouched DEF NextCall
  <1>2. CASE InSection(w)
    <2>1. RepoTypeOK' /\ SectionTypeOK({NoTag})'
      BY <1>2, SectionStepType, ChangeBalanceType DEF InSection
    <2>2. \A v \in Worker \ {w} : stage'[v] = stage[v]
      BY <1>2 DEF InSection, SectionStep, LockBalance, LockRefused, ChangeRefused,
                  PostMovement, PostFails, Posted, ReadBalance, CacheSkipped, CacheBalance,
                  Unlock, ChangeBalance, Goto, SectionTypeOK
    <2>3. HandlersTypeOK'
      BY <1>2, <2>2 DEF InSection, requestVars, HandlersTypeOK, At
    <2> QED
      BY <2>1, <2>3
  <1>3. CASE SectionOk(w) \/ SectionErr(w) \/ UndoDone(w)
    <2>1. PICK result \in {"ok", "err"} : Return(w, result)
      BY <1>3 DEF SectionOk, SectionErr, UndoDone
    <2>2. SectionTypeOK({NoTag})'
      BY <1>3, <2>1, ReturnType DEF SectionOk, SectionErr, UndoDone
    <2>3. stage'[w] = "idle" /\ \A v \in Worker \ {w} : stage'[v] = stage[v]
      BY <2>1 DEF Return, Goto, SectionTypeOK
    <2>4. HandlersTypeOK'
      <3>1. CASE SectionOk(w)
        <4>1. calls[w] # <<>>
          BY <3>1 DEF SectionOk, HandlersTypeOK
        <4> QED
          BY <2>3, <3>1, <4>1, AtHand, RequestMoves DEF SectionOk, At, Pc
      <3>2. CASE SectionErr(w)
        <4>1. ToUndo(w) => Op(w, "transfer")
          BY DEF ToUndo
        <4>2. CASE ToUndo(w)
          <5>1. Jump(w, "undo")
            BY <3>2, <4>2 DEF SectionErr
          <5> QED
            BY <2>3, <3>2, <4>1, <4>2, <5>1, AtHand, RequestMoves DEF SectionErr, At, Pc
        <4>3. CASE ~ ToUndo(w)
          <5>1. Jump(w, "failed")
            BY <3>2, <4>3 DEF SectionErr
          <5> QED
            BY <2>3, <3>2, <5>1, AtHand, RequestMoves DEF SectionErr, Pc
        <4> QED
          BY <4>2, <4>3
      <3>3. CASE UndoDone(w)
        BY <2>3, <3>3, AtHand, RequestMoves DEF UndoDone, Pc
      <3> QED
        BY <1>3, <3>1, <3>2, <3>3
    <2> QED
      BY <1>3, <2>2, <2>4, RequestUntouched DEF SectionOk, SectionErr, UndoDone
  <1>4. CASE Undo(w)
    <2>1. Undoing(w) \in Call({NoTag}) /\ Undoing(w).posts # <<>>
      <3> DEFINE r == Request[w]
      <3>1. r.op = "transfer" /\ RequestOK(r) /\ r.qty > 0
        BY <1>4, RequestsAssumption DEF Undo, HandlersTypeOK, At, Op
      <3>2. <<r.product, r.from>> \in Keys /\ r.qty \in Nat /\ <<"TRANSFER", r.ref>> \in Document
        BY <3>1 DEF RequestOK, Keys, Document, DocType
      <3>3. Undoing(w) \in Planned
        BY <3>2, ApplyCallPlanned
           DEF Undoing, Transfer, MovementType, AddTypes, OutTypes
      <3>4. Undoing(w).qty = r.qty
        BY DEF Undoing, Transfer, ApplyCall
      <3> QED
        BY <3>2, <3>3, <3>4, PlannedComplete
    <2>2. SectionTypeOK({NoTag})'
      BY <1>4, <2>1, BeginType DEF Undo
    <2>3. \A v \in Worker \ {w} : stage'[v] = stage[v]
      BY <1>4 DEF Undo, Begin, Goto, SectionTypeOK
    <2>4. HandlersTypeOK'
      BY <1>4, <2>3, AtHand, RequestMoves DEF Undo, Pc
    <2> QED
      BY <1>4, <2>2, <2>4, RequestUntouched DEF Undo
  <1>5. CASE SetBalance(w)
    <2>1. Request[w].key \in Keys /\ Request[w].qty \in Int
      BY <1>5, RequestsAssumption DEF SetBalance, HandlersTypeOK, At, Op, RequestOK
    <2>2. RepoTypeOK'
      BY <1>5, <2>1, UpsertBalanceType DEF SetBalance
    <2>3. SectionTypeOK({NoTag})'
      BY <1>5 DEF SetBalance, SectionTypeOK, LockTypeOK
    <2>4. HandlersTypeOK'
      <3>1. /\ Jump(w, "caching") /\ UNCHANGED <<products, calls, tries, stage>>
            /\ pc[w] = "set" /\ Op(w, "set")
        BY <1>5 DEF SetBalance, At, HandlersTypeOK
      <3> QED
        BY <3>1, AtHand, RequestMoves DEF Pc
    <2> QED
      BY <2>2, <2>3, <2>4
  <1>6. CASE CacheSet(w)
    <2>1. SectionTypeOK({NoTag})'
      BY <1>6 DEF CacheSet, SectionTypeOK, LockTypeOK
    <2>2. HandlersTypeOK'
      BY <1>6, AtHand, RequestMoves DEF CacheSet, At, Pc
    <2> QED
      BY <1>6, <2>1, <2>2, RequestUntouched DEF CacheSet
  <1>7. CASE Crash(w)
    <2>1. SectionTypeOK({NoTag})'
      BY <1>7, KilledType DEF Crash
    <2>2. stage'[w] = "idle" /\ \A v \in Worker \ {w} : stage'[v] = stage[v]
      BY <1>7 DEF Crash, Killed, Goto, SectionTypeOK
    <2>3. HandlersTypeOK'
      <3>1. /\ Jump(w, "failed") /\ calls' = [calls EXCEPT ![w] = <<>>]
            /\ UNCHANGED <<products, tries>>
        BY <1>7 DEF Crash
      <3>2. <<>> \in Seq(Planned)
        OBVIOUS
      <3> QED
        BY <2>2, <3>1, <3>2, AtHand, RequestMoves DEF Pc
    <2> QED
      BY <1>7, <2>1, <2>3, RequestUntouched DEF Crash
  <1> QED
    BY <1>1, <1>2, <1>3, <1>4, <1>5, <1>6, <1>7

\* No step breaks a type.
LEMMA RequestStepType == TypeOK /\ [Next]_vars => TypeOK'
  <1> SUFFICES ASSUME TypeOK, [Next]_vars PROVE TypeOK'
    OBVIOUS
  <1> USE DEF TypeOK
  <1>1. CASE UNCHANGED vars
    <2>1. HandlersTypeOK'
      BY <1>1 DEF vars, requestVars, sectionVars, HandlersTypeOK, At
    <2> QED
      BY <1>1, <2>1, RequestUntouched DEF vars
  <1>2. ASSUME NEW w \in Worker, Submit(w) \/ HandlerStep(w) \/ Crash(w) PROVE TypeOK'
    BY <1>2, QuietStepType, SectionRunType DEF HandlerStep
  <1>3. ASSUME NEW n \in LockName, LockExpires(n) PROVE TypeOK'
    <2>1. LockTypeOK'
      BY <1>3 DEF LockExpires, Expire, SectionTypeOK, LockTypeOK
    <2>2. HandlersTypeOK'
      BY <1>3 DEF LockExpires, requestVars, sectionVars, HandlersTypeOK, At
    <2> QED
      BY <1>3, <2>1, <2>2, RequestUntouched DEF LockExpires
  <1> QED
    BY <1>1, <1>2, <1>3 DEF Next

\* Type correctness of the operations, whatever is asked and whatever fails: no
\* balance becomes negative, by a movement (stock_repo.go:299-339) or by a number
\* somebody sets (stock_repo.go:84-94, which the CHECK of 001_init.sql:13 refuses),
\* and no worker changes one without a complete call.
THEOREM RequestsTypeCorrect == Spec => []TypeOK
  BY RequestsInitType, RequestStepType, PTL DEF Spec

(***************************************************************************)
(* The ledger of the requests                                              *)
(***************************************************************************)

\* The direction of a call follows from the movement it inserts, in the list of
\* a handler and in the section.
Singles(types) == {<<type>> : type \in types}
Directed(c) == \/ c.change = "add" /\ c.posts \in Singles(AddTypes)
               \/ c.change = "remove" /\ c.posts \in Singles(OutTypes)
CallsInv ==
  \A w \in Worker :
    /\ \A i \in DOMAIN calls[w] : Directed(calls[w][i])
    /\ stage[w] \in {"lock", "change", "post"} => Directed(call[w])

\* The direction of applyQtySub is that of the movement it inserts
\* (service.go:484-501).
LEMMA ApplyCallDirected ==
  ASSUME NEW line, NEW type \in AddTypes \cup OutTypes, NEW k, NEW q, NEW doc, NEW tag
  PROVE  Directed(ApplyCall(line, type, k, q, doc, tag))
  BY DEF ApplyCall, Directed, Singles, AddTypes, OutTypes

\* All calls of a handler are such calls.
LEMMA CallsDirected ==
  ASSUME NEW w \in Worker, Accepted(w)
  PROVE  \A i \in DOMAIN CallsOf(w) : Directed(CallsOf(w)[i])
  <1> DEFINE r == Request[w]
  <1>1. RequestOK(r)
    BY RequestsAssumption
  <1>2. CASE r.op = "movement"
    <2>1. (IF r.out THEN "MANUAL_OUT" ELSE "MANUAL_IN") \in AddTypes \cup OutTypes
      BY DEF AddTypes, OutTypes
    <2> DEFINE c == ApplyCall(0, IF r.out THEN "MANUAL_OUT" ELSE "MANUAL_IN", r.key, r.qty,
                              <<"MANUAL", NoDoc>>, NoTag)
    <2>2. Directed(c)
      BY <2>1, ApplyCallDirected
    <2>3. CallsOf(w) = <<c>>
      BY <1>2 DEF CallsOf
    <2> HIDE DEF c
    <2> QED
      BY <2>2, <2>3
  <1>3. CASE r.op = "transfer"
    <2> DEFINE out == Transfer(w, "TRANSFER_OUT", r.from)
               in == Transfer(w, "TRANSFER_IN", r.to)
    <2>1. Directed(out) /\ Directed(in)
      BY ApplyCallDirected DEF Transfer, AddTypes, OutTypes
    <2>2. CallsOf(w) = <<out, in>>
      BY <1>3 DEF CallsOf
    <2> HIDE DEF out, in
    <2> QED
      BY <2>1, <2>2
  <1>4. CASE r.op = "receive"
    <2>1. \A i \in DOMAIN r.items :
            Directed(ApplyCall(0, "PURCHASE_IN", <<r.items[i].product, r.wh>>,
                               r.items[i].qty, ReceiptDoc(w), NoTag))
      BY ApplyCallDirected DEF AddTypes
    <2> QED
      BY <1>4, <2>1 DEF CallsOf
  <1>5. CASE r.op \in {"set", "delete"}
    BY <1>5 DEF CallsOf
  <1> QED
    BY <1>1, <1>2, <1>3, <1>4, <1>5 DEF RequestOK

\* Only the first movement of a call is inserted, and then none is left.
LEMMA DirectedPosts ==
  ASSUME NEW c, Directed(c), NEW types
  PROVE  /\ c.posts # <<>> => Range(Tail(c.posts)) \cap types = {}
         /\ Range(c.posts) = {Head(c.posts)} /\ Len(c.posts) = 1
         /\ c.change = "add" => Range(c.posts) \subseteq AddTypes
         /\ c.change = "remove" => Range(c.posts) \subseteq OutTypes
         /\ c.change \in {"add", "remove"}
  <1>1. PICK t \in AddTypes \cup OutTypes : c.posts = <<t>>
    BY DEF Directed, Singles
  <1>2. Len(<<t>>) = 1 /\ Head(<<t>>) = t /\ Tail(<<t>>) = <<>>
    OBVIOUS
  <1>3. Range(<<t>>) = {t} /\ Range(<<>>) = {}
    BY DEF Range
  <1> QED
    BY <1>1, <1>2, <1>3 DEF Directed, Singles

\* At first there are no calls.
LEMMA InitCalls == Init => CallsInv
  BY DEF Init, SectionInit, CallsInv

\* A step of worker w keeps the directions if it makes directed calls.
LEMMA CallsMove ==
  ASSUME TypeOK, CallsInv, NEW w \in Worker,
         \A v \in Worker \ {w} : calls'[v] = calls[v] /\ stage'[v] = stage[v]
                                 /\ call'[v] = call[v],
         \A i \in DOMAIN calls'[w] : Directed(calls'[w][i]),
         stage'[w] \in {"lock", "change", "post"} => Directed(call'[w])
  PROVE  CallsInv'
  <1>1. ASSUME NEW v \in Worker
        PROVE  /\ \A i \in DOMAIN calls'[v] : Directed(calls'[v][i])
               /\ stage'[v] \in {"lock", "change", "post"} => Directed(call'[v])
    <2>1. CASE v = w
      BY <2>1
    <2>2. CASE v # w
      BY <2>2 DEF CallsInv
    <2> QED
      BY <2>1, <2>2
  <1> QED
    BY <1>1 DEF CallsInv, Directed

\* What remains of a list of directed calls, and the call at its head.
LEMMA DirectedList ==
  ASSUME TypeOK, CallsInv, NEW w \in Worker, calls[w] # <<>>
  PROVE  /\ Directed(Head(calls[w]))
         /\ \A q : Directed([Head(calls[w]) EXCEPT !.qty = q])
         /\ \A i \in DOMAIN Tail(calls[w]) : Directed(Tail(calls[w])[i])
  <1> DEFINE s == calls[w]
  <1>1. s \in Seq(Planned)
    BY DEF TypeOK, HandlersTypeOK
  <1>2. /\ Len(s) \in Nat /\ Len(s) > 0 /\ DOMAIN s = 1 .. Len(s) /\ Head(s) = s[1]
        /\ Len(Tail(s)) = Len(s) - 1 /\ DOMAIN Tail(s) = 1 .. Len(Tail(s))
        /\ \A i \in 1 .. Len(Tail(s)) : Tail(s)[i] = s[i + 1]
    BY <1>1, LenProperties, EmptySeq, HeadTailProperties
  <1>3. 1 \in DOMAIN s /\ \A i \in DOMAIN Tail(s) : i + 1 \in DOMAIN s
    BY <1>2
  <1>4. Directed(Head(s)) /\ \A i \in DOMAIN Tail(s) : Directed(Tail(s)[i])
    BY <1>2, <1>3 DEF CallsInv
  <1>5. Head(s) \in Planned
    BY <1>1, HeadTailProperties
  <1>6. \A q : Directed([Head(s) EXCEPT !.qty = q])
    BY <1>4, <1>5 DEF Directed, Planned
  <1> QED
    BY <1>4, <1>6

\* Inside the section a call keeps its direction and its movement.
LEMMA SectionDirected ==
  ASSUME TypeOK, CallsInv, NEW w \in Worker, SectionStep(w) \/ ChangeBalance(w)
  PROVE  stage'[w] \in {"lock", "change", "post"} => Directed(call'[w])
  <1>1. /\ stage \in [Worker -> Stage] /\ DOMAIN call = Worker
        /\ stage[w] \in {"lock", "change", "post"} => Directed(call[w])
    BY DEF TypeOK, SectionTypeOK, CallsInv
  <1>2. CASE PostMovement(w) \/ PostFails(w)
    <2>1. Len(call[w].posts) = 1
      BY <1>1, <1>2, DirectedPosts DEF PostMovement, PostFails
    <2> QED
      BY <1>1, <1>2, <2>1 DEF PostMovement, PostFails, Posted, Goto
  <1>3. CASE ChangeBalance(w) \/ (SectionStep(w) /\ ~ (PostMovement(w) \/ PostFails(w)))
    <2>1. stage'[w] \in {"lock", "change", "post"} =>
            stage[w] \in {"lock", "change", "post"} /\ call' = call
      BY <1>1, <1>3
         DEF SectionStep, LockBalance, LockRefused, ChangeRefused, ReadBalance, CacheSkipped,
             CacheBalance, Unlock, ChangeBalance, Goto
    <2> QED
      BY <1>1, <2>1
  <1> QED
    BY <1>2, <1>3

\* No step makes a call in the wrong direction.
LEMMA CallsStep == TypeOK /\ CallsInv /\ [Next]_vars => CallsInv'
  <1> SUFFICES ASSUME TypeOK, CallsInv, [Next]_vars PROVE CallsInv'
    OBVIOUS
  <1> DEFINE Untouched == UNCHANGED <<stage, call>>
  <1>1. CASE UNCHANGED vars \/ \E n \in LockName : LockExpires(n)
    BY <1>1 DEF LockExpires, vars, requestVars, sectionVars, CallsInv, Directed
  <1>2. ASSUME NEW w \in Worker, Submit(w) \/ HandlerStep(w) \/ Crash(w) PROVE CallsInv'
    <2>1. /\ DOMAIN calls = Worker /\ stage \in [Worker -> Stage] /\ DOMAIN call = Worker
          /\ \A i \in DOMAIN calls[w] : Directed(calls[w][i])
          /\ stage[w] \in {"lock", "change", "post"} => Directed(call[w])
          /\ At(w, "section") => calls[w] # <<>>
      BY DEF TypeOK, SectionTypeOK, HandlersTypeOK, CallsInv
    <2>2. CASE Submit(w) \/ Refuse(w) \/ SkipReceived(w) \/ LoopDone(w) \/ CheckUse(w)
               \/ Delete(w) \/ StatementFails(w) \/ SetBalance(w) \/ CacheSet(w)
      BY <2>2
         DEF Submit, Refuse, SkipReceived, LoopDone, CheckUse, Delete, StatementFails,
             SetBalance, CacheSet, sectionVars, CallsInv, Directed
    <2>3. CASE Accept(w)
      BY <2>1, <2>3, CallsDirected, CallsMove DEF Accept, sectionVars
    <2>4. CASE NotConverted(w)
      BY <2>1, <2>4, CallsMove DEF NotConverted, sectionVars
    <2>5. CASE SkipLine(w)
      BY <2>1, <2>5, DirectedList, CallsMove DEF SkipLine, sectionVars
    <2>6. CASE NextCall(w)
      <3>1. PICK c : Directed(c) /\ Begin(w, c)
        BY <2>6, DirectedList DEF NextCall, HasLine
      <3> QED
        BY <2>1, <2>6, <3>1, CallsMove DEF NextCall, Begin, Goto
    <2>7. CASE Undo(w)
      <3>1. Directed(Undoing(w))
        BY ApplyCallDirected DEF Undoing, Transfer, AddTypes
      <3> QED
        BY <2>1, <2>7, <3>1, CallsMove DEF Undo, Begin, Goto
    <2>8. CASE InSection(w)
      <3>1. SectionStep(w) \/ ChangeBalance(w)
        BY <2>8 DEF InSection
      <3>2. stage'[w] \in {"lock", "change", "post"} => Directed(call'[w])
        BY <3>1, SectionDirected
      <3>3. \A v \in Worker \ {w} : stage'[v] = stage[v] /\ call'[v] = call[v]
        BY <3>1, OneWorker DEF TypeOK
      <3>4. calls' = calls
        BY <2>8 DEF InSection, requestVars
      <3> QED
        BY <2>1, <3>2, <3>3, <3>4, CallsMove
    <2>9. CASE SectionOk(w)
      BY <2>1, <2>9, DirectedList, CallsMove DEF SectionOk, Return, Goto
    <2>10. CASE SectionErr(w) \/ UndoDone(w) \/ Crash(w)
      BY <2>1, <2>10, CallsMove DEF SectionErr, UndoDone, Return, Crash, Killed, Goto
    <2> QED
      BY <1>2, <2>2, <2>3, <2>4, <2>5, <2>6, <2>7, <2>8, <2>9, <2>10 DEF HandlerStep
  <1> QED
    BY <1>1, <1>2 DEF Next

\* A worker changes a balance by what its call then accounts for.
LEMMA ChangeExact ==
  ASSUME TypeOK, TypeOK', CallsInv, IsFiniteSet(Worker), NEW w \in Worker,
         ChangeBalance(w), NEW k \in Keys
  PROVE  /\ avail'[k] + Accounted({k}, OutTypes)' + Accounted({k}, AddTypes)
              = avail[k] + Accounted({k}, OutTypes) + Accounted({k}, AddTypes)'
         /\ Accounted({k}, OutTypes) \in Int /\ Accounted({k}, OutTypes)' \in Int
         /\ Accounted({k}, AddTypes) \in Int /\ Accounted({k}, AddTypes)' \in Int
  <1> DEFINE c == call[w]
             Out == Accounted({k}, OutTypes)
             Add == Accounted({k}, AddTypes)
  <1>1. /\ RepoTypeOK /\ SectionTypeOK({NoTag}) /\ SectionTypeOK({NoTag})'
        /\ c \in Call({NoTag}) /\ c.key \in Keys /\ c.qty \in Nat
        /\ Directed(c) /\ c.posts # <<>>
        /\ avail \in [Keys -> Nat]
    BY DEF TypeOK, SectionTypeOK, ChangeBalance, CallsInv, Call, RepoTypeOK
  <1>2. /\ Out \in Int /\ Add \in Int
        /\ Out' = Out + IF Counts(c, {k}, OutTypes) THEN c.qty ELSE 0
        /\ Add' = Add + IF Counts(c, {k}, AddTypes) THEN c.qty ELSE 0
    <2>1. UNCHANGED movements
      BY OnlyPostInserts
    <2>2. \A v \in Worker \ {w} : stage'[v] = stage[v] /\ call'[v] = call[v]
      BY <1>1, OneWorker
    <2>3. Out \in Int /\ Add \in Int
      BY <1>1, <2>1, <2>2, AccountedMoves
    <2> QED
      BY <1>1, <2>3, ChangeAccounted
  <1>3. /\ Range(c.posts) = {Head(c.posts)}
        /\ c.change = "add" => Range(c.posts) \subseteq AddTypes
        /\ c.change = "remove" => Range(c.posts) \subseteq OutTypes
        /\ c.change \in {"add", "remove"}
    BY <1>1, DirectedPosts
  <1>4. AddTypes \cap OutTypes = {}
    BY DEF AddTypes, OutTypes
  <1>5. avail[k] \in Int
    BY <1>1
  <1>6. ASSUME c.change = "add"
        PROVE  avail'[k] + Out' + Add = avail[k] + Out + Add'
    <2>1. /\ Counts(c, {k}, AddTypes) <=> k = c.key
          /\ ~ Counts(c, {k}, OutTypes)
      BY <1>3, <1>4, <1>6 DEF Counts
    <2>2. avail'[k] = IF k = c.key THEN avail[k] + c.qty ELSE avail[k]
      BY <1>1, <1>6 DEF ChangeBalance, AddAvailable
    <2>3. Out' = Out /\ Add' = Add + IF k = c.key THEN c.qty ELSE 0
      BY <1>2, <2>1
    <2>4. c.qty \in Nat /\ avail[k] \in Int /\ Out \in Int /\ Add \in Int
      BY <1>1, <1>2, <1>5
    <2> HIDE DEF c, Out, Add
    <2> QED
      BY <2>2, <2>3, <2>4
  <1>7. ASSUME c.change = "remove"
        PROVE  avail'[k] + Out' + Add = avail[k] + Out + Add'
    <2>1. /\ Counts(c, {k}, OutTypes) <=> k = c.key
          /\ ~ Counts(c, {k}, AddTypes)
      BY <1>3, <1>4, <1>7 DEF Counts
    <2>2. avail'[k] = IF k = c.key THEN avail[k] - c.qty ELSE avail[k]
      BY <1>1, <1>7 DEF ChangeBalance, RemoveAvailable
    <2>3. Add' = Add /\ Out' = Out + IF k = c.key THEN c.qty ELSE 0
      BY <1>2, <2>1
    <2>4. c.qty \in Nat /\ avail[k] \in Int /\ Out \in Int /\ Add \in Int
      BY <1>1, <1>2, <1>5
    <2> HIDE DEF c, Out, Add
    <2> QED
      BY <2>2, <2>3, <2>4
  <1>8. Out' \in Int /\ Add' \in Int
    <2>1. c.qty \in Int
      BY <1>1
    <2> HIDE DEF c, Out, Add
    <2> QED
      BY <1>2, <2>1
  <1> QED
    BY <1>2, <1>3, <1>6, <1>7, <1>8

\* Any other step leaves the balances and the accounts alone.
LEMMA AccountsStay ==
  ASSUME TypeOK, TypeOK', CallsInv, IsFiniteSet(Worker), Faults \cap {"db", "crash"} = {},
         NEW w \in Worker, Submit(w) \/ HandlerStep(w), ~ ChangeBalance(w), ~ SetBalance(w),
         NEW K, NEW types
  PROVE  Accounted(K, types)' = Accounted(K, types) /\ avail' = avail
  <1>1. /\ RepoTypeOK /\ SectionTypeOK({NoTag}) /\ SectionTypeOK({NoTag})'
        /\ pc[w] \notin {"section", "undoing"} => stage[w] = "idle"
        /\ stage \in [Worker -> Stage] /\ "db" \notin Faults
    BY DEF TypeOK, HandlersTypeOK, SectionTypeOK
  <1>2. CASE UNCHANGED <<movements, avail, stage, call>>
    BY <1>2 DEF Accounted, Moved, Entries, UnpostedQty, Unposted
  <1>3. CASE InSection(w) /\ PostMovement(w)
    <2>1. Directed(call[w]) /\ call[w].posts # <<>>
      BY <1>1, <1>3 DEF PostMovement, CallsInv, SectionTypeOK
    <2>2. Range(Tail(call[w].posts)) \cap types = {}
      BY <2>1, DirectedPosts
    <2>3. Accounted(K, types)' = Accounted(K, types)
      BY <1>1, <1>3, <2>2, PostAccounted
    <2> QED
      BY <1>3, <2>3 DEF PostMovement, InsertMovement
  <1>4. CASE InSection(w) /\ ~ PostMovement(w)
    <2>1. SectionStep(w) /\ UNCHANGED <<movements, avail>> /\ stage[w] # "post"
          /\ stage'[w] # "post"
      BY <1>1, <1>4
         DEF InSection, SectionStep, LockBalance, LockRefused, ChangeRefused, PostFails,
             ReadBalance, CacheSkipped, CacheBalance, Unlock, Goto, repoVars
    <2>2. \A v \in Worker \ {w} : stage'[v] = stage[v] /\ call'[v] = call[v]
      BY <1>1, <2>1, OneWorker
    <2> QED
      BY <1>1, <2>1, <2>2, AccountedStays
  <1>5. CASE NextCall(w) \/ Undo(w) \/ SectionOk(w) \/ SectionErr(w) \/ UndoDone(w)
    <2>1. (\E c : Begin(w, c)) \/ (\E result \in {"ok", "err"} : Return(w, result))
      BY <1>5 DEF NextCall, Undo, SectionOk, SectionErr, UndoDone
    <2>2. stage[w] # "post" /\ stage'[w] # "post"
      BY <1>1, <2>1 DEF Begin, Return, Goto
    <2>3. \A v \in Worker \ {w} : stage'[v] = stage[v] /\ call'[v] = call[v]
      BY <1>1, <2>1, OneWorker
    <2>4. UNCHANGED <<movements, avail>>
      BY <1>5 DEF NextCall, Undo, SectionOk, SectionErr, UndoDone, repoVars
    <2> QED
      BY <1>1, <2>2, <2>3, <2>4, AccountedStays
  <1>6. CASE Submit(w) \/ Refuse(w) \/ SkipReceived(w) \/ Accept(w) \/ NotConverted(w)
             \/ SkipLine(w) \/ LoopDone(w) \/ CacheSet(w) \/ CheckUse(w) \/ Delete(w)
             \/ StatementFails(w)
    <2>1. UNCHANGED <<movements, avail, stage, call>>
      BY <1>6
         DEF Submit, Refuse, SkipReceived, Accept, NotConverted, SkipLine, LoopDone, CacheSet,
             CheckUse, Delete, StatementFails, repoVars, sectionVars
    <2> QED
      BY <1>2, <2>1
  <1> QED
    BY <1>3, <1>4, <1>5, <1>6 DEF HandlerStep

\* Every balance is what its movements add up to (service.go:476-506), for any
\* number of workers and any requests but balances set by hand, while no
\* statement fails and no process dies, even if locks expire early.
THEOREM RequestsLedger ==
  ASSUME IsFiniteSet(Worker), Faults \cap {"db", "crash"} = {}, \A w \in Worker : ~ Op(w, "set")
  PROVE  Spec => []LedgerExact
  <1>1. Init => LedgerExact
    <2> SUFFICES ASSUME Init, NEW k \in Keys
                 PROVE  avail[k] + Accounted({k}, OutTypes)
                          = OpeningQty(k) + Accounted({k}, AddTypes)
      BY DEF LedgerExact
    <2>1. \A types : Entries({k}, types) = {} /\ Unposted({k}, types) = {}
      BY DEF Init, SectionInit, Entries, Unposted
    <2>2. Accounted({k}, OutTypes) = 0 /\ Accounted({k}, AddTypes) = 0
      BY <2>1, NothingAccounted
    <2> QED
      BY <2>2 DEF Init, OpeningQty
  <1>2. TypeOK /\ TypeOK' /\ CallsInv /\ LedgerExact /\ [Next]_vars => LedgerExact'
    <2> SUFFICES ASSUME TypeOK, TypeOK', CallsInv, LedgerExact, [Next]_vars
                 PROVE  LedgerExact'
      OBVIOUS
    <2>1. CASE UNCHANGED vars \/ \E n \in LockName : LockExpires(n)
      BY <2>1 DEF LockExpires, vars, repoVars, sectionVars, LedgerExact, OpeningQty, Accounted,
                  Moved, Entries, UnpostedQty, Unposted
    <2>2. ASSUME NEW w \in Worker, Submit(w) \/ HandlerStep(w) PROVE LedgerExact'
      <3>1. ~ SetBalance(w)
        BY DEF SetBalance, TypeOK, HandlersTypeOK, At
      <3>2. CASE ChangeBalance(w)
        <4> SUFFICES ASSUME NEW k \in Keys
                     PROVE  avail'[k] + Accounted({k}, OutTypes)'
                              = OpeningQty(k) + Accounted({k}, AddTypes)'
          BY DEF LedgerExact, OpeningQty
        <4>1. /\ avail'[k] + Accounted({k}, OutTypes)' + Accounted({k}, AddTypes)
                   = avail[k] + Accounted({k}, OutTypes) + Accounted({k}, AddTypes)'
              /\ avail[k] + Accounted({k}, OutTypes)
                   = OpeningQty(k) + Accounted({k}, AddTypes)
          BY <3>2, ChangeExact DEF LedgerExact
        <4>2. /\ Accounted({k}, OutTypes) \in Int /\ Accounted({k}, OutTypes)' \in Int
              /\ Accounted({k}, AddTypes) \in Int /\ Accounted({k}, AddTypes)' \in Int
          BY <3>2, ChangeExact
        <4>3. avail[k] \in Nat /\ avail'[k] \in Nat /\ OpeningQty(k) \in Nat
          BY RequestsAssumption DEF TypeOK, RepoTypeOK, OpeningQty
        <4> DEFINE Out == Accounted({k}, OutTypes)
                   Add == Accounted({k}, AddTypes)
        <4>4. /\ avail'[k] + Out' + Add = avail[k] + Out + Add'
              /\ avail[k] + Out = OpeningQty(k) + Add
              /\ Out \in Int /\ Out' \in Int /\ Add \in Int /\ Add' \in Int
          BY <4>1, <4>2
        <4>5. avail'[k] + Out' = OpeningQty(k) + Add'
          <5> HIDE DEF Out, Add
          <5> QED
            BY <4>3, <4>4
        <4> QED
          BY <4>5
      <3>3. CASE ~ ChangeBalance(w)
        <4>1. /\ avail' = avail
              /\ \A k \in Keys : /\ Accounted({k}, OutTypes)' = Accounted({k}, OutTypes)
                                 /\ Accounted({k}, AddTypes)' = Accounted({k}, AddTypes)
          BY <2>2, <3>1, <3>3, AccountsStay
        <4> QED
          BY <4>1 DEF LedgerExact, OpeningQty
      <3> QED
        BY <3>2, <3>3
    <2> QED
      BY <2>1, <2>2 DEF Next, Crash
  <1>3. Init => CallsInv
    BY InitCalls
  <1>4. TypeOK /\ CallsInv /\ [Next]_vars => CallsInv'
    BY CallsStep
  <1> QED
    BY <1>1, <1>2, <1>3, <1>4, RequestsTypeCorrect, PTL DEF Spec

(***************************************************************************)
(* The balance cache                                                       *)
(***************************************************************************)

\* The inductive form: who is in a section holds the lock of its balance, what
\* it has read is still so, and the cache is behind only from the change of a
\* balance to the end of the same section.
FreshInv ==
  /\ DOMAIN cache = Keys /\ DOMAIN seen = Worker
  /\ Holds
  /\ \A w \in Worker, k \in Keys : stage[w] = "cache" /\ call[w].key = k => seen[w] = Balance(k)
  /\ \A k \in Keys :
       (\A w \in Worker : stage[w] \in {"post", "read", "cache"} => call[w].key # k)
         => cache[k] \in {NoEntry, Balance(k)}

\* Only a change of the balance or of a reservation changes what is read.
LEMMA BalanceStays ==
  ASSUME NEW k, UNCHANGED rsv, avail'[k] = avail[k]
  PROVE  Balance(k)' = Balance(k)
  BY DEF Balance, OpenQty, OpenOrders

\* Nobody else is inside the section of a balance.
LEMMA AloneInside ==
  ASSUME FreshInv, NEW v \in Worker, NEW w \in Worker, Inside(v), Inside(w),
         call[v].key = call[w].key
  PROVE  v = w
  BY DEF FreshInv, Holds

\* What a worker has read and will write to the cache is still the balance.
LEMMA SeenHolds ==
  ASSUME RepoTypeOK, SectionTypeOK({NoTag}), FreshInv, NEW w \in Worker,
         SectionStep(w) \/ ChangeBalance(w), NEW v \in Worker, NEW k \in Keys,
         stage'[v] = "cache", call'[v].key = k
  PROVE  seen'[v] = Balance(k)'
  <1>1. /\ UNCHANGED rsv /\ call'[w].key = call[w].key /\ stage[w] # "idle"
        /\ v # w => stage'[v] = stage[v] /\ call'[v] = call[v] /\ seen'[v] = seen[v]
    BY SectionLeaves DEF FreshInv
  <1>2. /\ stage \in [Worker -> Stage] /\ DOMAIN seen = Worker /\ avail \in [Keys -> Nat]
        /\ stage[v] = "cache" /\ call[v].key = k => seen[v] = Balance(k)
    BY DEF SectionTypeOK, FreshInv, RepoTypeOK
  <1>3. CASE v = w
    <2>1. ReadBalance(w)
      BY <1>2, <1>3
         DEF SectionStep, LockBalance, LockRefused, ChangeRefused, PostMovement, PostFails,
             Posted, ReadBalance, CacheSkipped, CacheBalance, Unlock, ChangeBalance, Goto
    <2>2. avail' = avail
      BY <2>1 DEF ReadBalance, repoVars
    <2>3. seen'[w] = Balance(k)
      BY <1>1, <1>2, <1>3, <2>1 DEF ReadBalance
    <2>4. Balance(k)' = Balance(k)
      BY <1>1, <2>2, BalanceStays
    <2> QED
      BY <1>3, <2>3, <2>4
  <1>4. CASE v # w
    <2>1. stage[v] = "cache" /\ call[v].key = k /\ seen'[v] = Balance(k)
      BY <1>1, <1>2, <1>4
    <2>2. avail'[k] = avail[k]
      <3>1. CASE ChangeBalance(w)
        <4>1. Inside(v) /\ Inside(w)
          BY <2>1, <3>1 DEF ChangeBalance, Inside
        <4>2. k # call[w].key
          BY <1>4, <2>1, <4>1, AloneInside
        <4> QED
          BY <1>2, <3>1, <4>2 DEF ChangeBalance, AddAvailable, RemoveAvailable, ConfirmSale
      <3>2. CASE SectionStep(w)
        BY <3>2
           DEF SectionStep, LockBalance, LockRefused, ChangeRefused, PostMovement, PostFails,
               ReadBalance, CacheSkipped, CacheBalance, Unlock, InsertMovement, repoVars
      <3> QED
        BY <3>1, <3>2
    <2>3. Balance(k)' = Balance(k)
      BY <1>1, <2>2, BalanceStays
    <2> QED
      BY <2>1, <2>3
  <1> QED
    BY <1>3, <1>4

\* The cache is behind a balance only while a worker that has changed it has
\* still to write it.
LEMMA CacheFollows ==
  ASSUME RepoTypeOK, SectionTypeOK({NoTag}), FreshInv, "db" \notin Faults,
         NEW w \in Worker, SectionStep(w) \/ ChangeBalance(w), NEW k \in Keys,
         \A v \in Worker : stage'[v] \in {"post", "read", "cache"} => call'[v].key # k
  PROVE  cache'[k] \in {NoEntry, Balance(k)'}
  <1> DEFINE Late(v) == stage[v] \in {"post", "read", "cache"}
  <1>1. /\ UNCHANGED rsv /\ call'[w].key = call[w].key /\ stage[w] # "idle"
        /\ \A v \in Worker \ {w} : stage'[v] = stage[v] /\ call'[v] = call[v]
    BY SectionLeaves DEF FreshInv
  <1>2. /\ stage \in [Worker -> Stage] /\ DOMAIN cache = Keys /\ avail \in [Keys -> Nat]
        /\ call[w].key \in Keys
    BY <1>1 DEF SectionTypeOK, FreshInv, RepoTypeOK, Call
  <1>3. \A v \in Worker \ {w} : Late(v) => call[v].key # k
    BY <1>1
  <1>4. CASE CacheBalance(w)
    <2>1. (call[w].key = k => seen[w] = Balance(k)) /\ avail' = avail
      BY <1>4 DEF CacheBalance, FreshInv, repoVars
    <2>2. cache' = [cache EXCEPT ![call[w].key] = seen[w]]
      BY <1>4 DEF CacheBalance
    <2>3. Balance(k)' = Balance(k)
      BY <1>1, <2>1, BalanceStays
    <2>4. CASE k = call[w].key
      BY <1>2, <2>1, <2>2, <2>3, <2>4
    <2>5. CASE k # call[w].key
      <3>1. \A v \in Worker : Late(v) => call[v].key # k
        BY <1>3, <2>5
      <3>2. cache[k] \in {NoEntry, Balance(k)}
        BY <3>1 DEF FreshInv
      <3> QED
        BY <1>2, <2>2, <2>3, <2>5, <3>2
    <2> QED
      BY <2>4, <2>5
  <1>5. CASE ~ CacheBalance(w)
    <2>1. /\ UNCHANGED cache
          /\ Late(w) => stage'[w] \in {"post", "read", "cache"}
      BY <1>2, <1>5
         DEF SectionStep, LockBalance, LockRefused, ChangeRefused, PostMovement, PostFails,
             Posted, ReadBalance, CacheSkipped, Unlock, ChangeBalance, Goto
    <2>2. \A v \in Worker : Late(v) => call[v].key # k
      BY <1>1, <1>3, <2>1
    <2>3. cache[k] \in {NoEntry, Balance(k)}
      BY <2>2 DEF FreshInv
    <2>4. avail'[k] = avail[k]
      <3>1. CASE ChangeBalance(w)
        <4>1. call[w].key # k
          BY <1>1, <1>2, <3>1 DEF ChangeBalance, Goto
        <4> QED
          BY <1>2, <3>1, <4>1 DEF ChangeBalance, AddAvailable, RemoveAvailable, ConfirmSale
      <3>2. CASE SectionStep(w)
        BY <3>2
           DEF SectionStep, LockBalance, LockRefused, ChangeRefused, PostMovement, PostFails,
               ReadBalance, CacheSkipped, CacheBalance, Unlock, InsertMovement, repoVars
      <3> QED
        BY <3>1, <3>2
    <2>5. Balance(k)' = Balance(k)
      BY <1>1, <2>4, BalanceStays
    <2> QED
      BY <2>1, <2>3, <2>5
  <1> QED
    BY <1>4, <1>5

\* A step of a section keeps the cache in step with the balances.
LEMMA SectionFresh ==
  ASSUME RepoTypeOK, SectionTypeOK({NoTag}), FreshInv, "db" \notin Faults,
         NEW w \in Worker, SectionStep(w) \/ ChangeBalance(w)
  PROVE  FreshInv'
  <1>1. DOMAIN cache' = Keys /\ DOMAIN seen' = Worker
    BY SectionLeaves DEF FreshInv
  <1>2. \A v \in Worker : Inside(v)' => lock'[StockLock(call'[v].key)] = v
    BY LocksHeld DEF FreshInv
  <1>3. \A v \in Worker, k \in Keys :
          stage'[v] = "cache" /\ call'[v].key = k => seen'[v] = Balance(k)'
    BY SeenHolds
  <1>4. \A k \in Keys :
          (\A v \in Worker : stage'[v] \in {"post", "read", "cache"} => call'[v].key # k)
            => cache'[k] \in {NoEntry, Balance(k)'}
    BY CacheFollows
  <1> QED
    BY <1>1, <1>2, <1>3, <1>4 DEF FreshInv, Holds, StockLock

\* So does a step of a handler that is in no section before or after it.
LEMMA OutsideFresh ==
  ASSUME FreshInv, NEW w, UNCHANGED <<lock, cache, seen, rsv, avail>>,
         \A v \in Worker \ {w} : stage'[v] = stage[v] /\ call'[v] = call[v],
         ~ Inside(w), ~ Inside(w)'
  PROVE  FreshInv'
  <1>1. /\ stage[w] \notin {"post", "read", "cache"} /\ stage'[w] \notin {"post", "read", "cache"}
        /\ \A v \in Worker : Inside(v)' => v # w /\ Inside(v)
    BY DEF Inside
  <1>2. \A v \in Worker : Inside(v)' => lock'[StockLock(call'[v].key)] = v
    BY <1>1 DEF FreshInv, Holds
  <1>3. \A k : Balance(k)' = Balance(k)
    BY BalanceStays
  <1>4. \A v \in Worker, k \in Keys :
          stage'[v] = "cache" /\ call'[v].key = k => seen'[v] = Balance(k)'
    BY <1>1, <1>3 DEF FreshInv
  <1>5. ASSUME NEW k \in Keys,
               \A v \in Worker : stage'[v] \in {"post", "read", "cache"} => call'[v].key # k
        PROVE  cache'[k] \in {NoEntry, Balance(k)'}
    <2>1. \A v \in Worker : stage[v] \in {"post", "read", "cache"} => call[v].key # k
      BY <1>1, <1>5
    <2> QED
      BY <1>3, <2>1 DEF FreshInv
  <1>6. DOMAIN cache' = Keys /\ DOMAIN seen' = Worker
    BY DEF FreshInv
  <1> QED
    BY <1>2, <1>4, <1>5, <1>6 DEF FreshInv, Holds, StockLock

\* The cache is empty at first.
LEMMA InitFresh == Init => FreshInv
  BY DEF Init, SectionInit, FreshInv, Holds, Inside

\* No step leaves the cache behind for good.
LEMMA FreshStep ==
  ASSUME Faults = {}, \A w \in Worker : ~ Op(w, "set"), TypeOK, FreshInv, [Next]_vars
  PROVE  FreshInv'
  <1>1. /\ RepoTypeOK /\ SectionTypeOK({NoTag}) /\ stage \in [Worker -> Stage]
        /\ \A w \in Worker : pc[w] \notin {"set", "caching"}
        /\ \A w \in Worker : pc[w] \notin {"section", "undoing"} => stage[w] = "idle"
    BY DEF TypeOK, HandlersTypeOK, SectionTypeOK
  <1>2. CASE UNCHANGED vars
    <2>1. UNCHANGED <<lock, cache, seen, rsv, avail, stage, call>>
      BY <1>2 DEF vars, sectionVars, repoVars
    <2>2. \A k : Balance(k)' = Balance(k)
      BY <2>1, BalanceStays
    <2> QED
      BY <2>1, <2>2 DEF FreshInv, Holds, Inside
  <1>3. ASSUME NEW n \in LockName, LockExpires(n) PROVE FreshInv'
    <2>1. /\ UNCHANGED <<cache, seen, rsv, avail, stage, call>>
          /\ lock[n] # NoWorker /\ lock' = [lock EXCEPT ![n] = NoWorker]
          /\ ~ (Inside(lock[n]) /\ n = StockLock(call[lock[n]].key))
      BY <1>3 DEF LockExpires, Expire, sectionVars, repoVars
    <2>2. \A k : Balance(k)' = Balance(k)
      BY <2>1, BalanceStays
    <2>3. ASSUME NEW v \in Worker, Inside(v) PROVE lock'[StockLock(call[v].key)] = v
      <3>1. lock[StockLock(call[v].key)] = v
        BY <2>3 DEF FreshInv, Holds
      <3>2. StockLock(call[v].key) # n
        BY <2>1, <2>3, <3>1
      <3>3. stage[v] # "idle"
        BY <2>3 DEF Inside
      <3>4. StockLock(call[v].key) \in LockName /\ lock \in [LockName -> Holder \cup {NoWorker}]
        BY <1>1, <3>3, StockLockName DEF SectionTypeOK, LockTypeOK, Call
      <3> QED
        BY <2>1, <3>1, <3>2, <3>4
    <2> QED
      BY <2>1, <2>2, <2>3 DEF FreshInv, Holds, Inside, StockLock
  <1>4. ASSUME NEW w \in Worker, Submit(w) \/ HandlerStep(w) PROVE FreshInv'
    <2>1. CASE InSection(w)
      BY <1>1, <2>1, SectionFresh DEF InSection
    <2>2. CASE NextCall(w) \/ Undo(w) \/ SectionOk(w) \/ SectionErr(w) \/ UndoDone(w)
      <3>1. (\E c : Begin(w, c)) \/ (\E result \in {"ok", "err"} : Return(w, result))
        BY <2>2 DEF NextCall, Undo, SectionOk, SectionErr, UndoDone
      <3>2. ~ Inside(w) /\ ~ Inside(w)'
        BY <1>1, <3>1 DEF Begin, Return, Goto, Inside
      <3>3. \A v \in Worker \ {w} : stage'[v] = stage[v] /\ call'[v] = call[v]
        BY <1>1, <3>1, OneWorker
      <3>4. UNCHANGED <<lock, cache, seen, rsv, avail>>
        BY <2>2
           DEF NextCall, Undo, SectionOk, SectionErr, UndoDone, Begin, Return, repoVars
      <3> QED
        BY <3>2, <3>3, <3>4, OutsideFresh
    <2>3. CASE Submit(w) \/ Refuse(w) \/ SkipReceived(w) \/ Accept(w) \/ NotConverted(w)
               \/ SkipLine(w) \/ LoopDone(w) \/ CheckUse(w) \/ Delete(w) \/ StatementFails(w)
      <3>1. UNCHANGED <<lock, cache, seen, rsv, avail, stage, call>>
        BY <2>3
           DEF Submit, Refuse, SkipReceived, Accept, NotConverted, SkipLine, LoopDone,
               CheckUse, Delete, StatementFails, repoVars, sectionVars
      <3>2. ~ Inside(w) /\ ~ Inside(w)'
        <4>1. pc[w] \notin {"section", "undoing"}
          BY <2>3
             DEF Submit, Refuse, SkipReceived, Accept, NotConverted, SkipLine, LoopDone,
                 CheckUse, Delete, StatementFails, AfterCheck, At
        <4> QED
          BY <1>1, <3>1, <4>1 DEF Inside
      <3> QED
        BY <3>1, <3>2, OutsideFresh
    <2>4. ~ SetBalance(w) /\ ~ CacheSet(w)
      BY <1>1 DEF SetBalance, CacheSet, At
    <2> QED
      BY <1>4, <2>1, <2>2, <2>3, <2>4 DEF HandlerStep
  <1> QED
    BY <1>2, <1>3, <1>4 DEF Next, Crash

\* The cache shows the balance of the table between sections
\* (service.go:481-504), for any number of workers and any requests but
\* balances set by hand, while no statement fails, no process dies and no lock
\* expires early: whatever ends a section between the change and the write of
\* the cache leaves the old balance there.
THEOREM RequestsCache ==
  ASSUME Faults = {}, \A w \in Worker : ~ Op(w, "set")
  PROVE  Spec => []CacheFresh
  <1>1. Init => FreshInv
    BY InitFresh
  <1>2. TypeOK /\ FreshInv /\ [Next]_vars => FreshInv'
    BY FreshStep
  <1>3. FreshInv => CacheFresh
    BY DEF FreshInv, CacheFresh, Inside
  <1> QED
    BY <1>1, <1>2, <1>3, RequestsTypeCorrect, PTL DEF Spec

\* The same in the words of one worker among others: a request caches what it
\* has changed before it leaves the section, and without the lock of a balance
\* touches neither the quantity nor the cache (service.go:476-506).
LEMMA RequestCaches ==
  ASSUME TypeOK, CacheInv, "db" \notin Faults, NEW w \in Worker, ~ Op(w, "set"),
         Submit(w) \/ HandlerStep(w)
  PROVE  /\ CacheInv' /\ Polite(w)
         /\ \A k \in Keys : Behind(k) \/ Shows(k) => Behind(k)' \/ Shows(k)'
  <1>1. /\ RepoTypeOK /\ SectionTypeOK({NoTag}) /\ stage \in [Worker -> Stage]
        /\ pc[w] \notin {"set", "caching"}
        /\ pc[w] \notin {"section", "undoing"} => stage[w] = "idle"
    BY DEF TypeOK, HandlersTypeOK, SectionTypeOK
  <1>2. CASE InSection(w)
    <2>1. SectionStep(w) \/ ChangeBalance(w)
      BY <1>2 DEF InSection
    <2> QED
      BY <1>1, <2>1, SectionCaches, SectionPolite
  <1>3. CASE NextCall(w) \/ Undo(w) \/ SectionOk(w) \/ SectionErr(w) \/ UndoDone(w)
    <2>1. (\E c : Begin(w, c)) \/ (\E result \in {"ok", "err"} : Return(w, result))
      BY <1>3 DEF NextCall, Undo, SectionOk, SectionErr, UndoDone
    <2>2. ~ Inside(w) /\ ~ Inside(w)'
      BY <1>1, <2>1 DEF Begin, Return, Goto, Inside
    <2>3. \A v \in Worker \ {w} : stage'[v] = stage[v] /\ call'[v] = call[v]
      BY <1>1, <2>1, OneWorker
    <2>4. UNCHANGED <<lock, cache, seen, avail>>
      BY <1>3, <2>1
         DEF NextCall, Undo, SectionOk, SectionErr, UndoDone, Begin, Return, repoVars
    <2>5. \A k \in Keys : lock'[StockLock(k)] = lock[StockLock(k)]
      BY <2>4
    <2> QED
      BY <1>1, <2>2, <2>3, <2>4, <2>5, OutsideCaches
  <1>4. CASE Submit(w) \/ Refuse(w) \/ SkipReceived(w) \/ Accept(w) \/ NotConverted(w)
             \/ SkipLine(w) \/ LoopDone(w) \/ CheckUse(w) \/ Delete(w) \/ StatementFails(w)
    <2>1. UNCHANGED <<lock, cache, seen, avail, stage, call>>
      BY <1>4
         DEF Submit, Refuse, SkipReceived, Accept, NotConverted, SkipLine, LoopDone,
             CheckUse, Delete, StatementFails, repoVars, sectionVars
    <2>2. pc[w] \notin {"section", "undoing"}
      BY <1>4
         DEF Submit, Refuse, SkipReceived, Accept, NotConverted, SkipLine, LoopDone,
             CheckUse, Delete, StatementFails, AfterCheck, At
    <2>3. ~ Inside(w) /\ ~ Inside(w)'
      BY <1>1, <2>1, <2>2 DEF Inside
    <2>4. \A k \in Keys : lock'[StockLock(k)] = lock[StockLock(k)]
      BY <2>1
    <2> QED
      BY <1>1, <2>1, <2>3, <2>4, OutsideCaches
  <1>5. ~ SetBalance(w) /\ ~ CacheSet(w)
    BY <1>1 DEF SetBalance, CacheSet, At
  <1> QED
    BY <1>2, <1>3, <1>4, <1>5 DEF HandlerStep

\* A request that does not set a balance takes from it no more than the stored
\* column leaves, and has nothing to do with reservations (service.go:476-506).
LEMMA RequestRemovesFree ==
  ASSUME TypeOK, CallsInv, NEW w \in Worker, ~ Op(w, "set"), Submit(w) \/ HandlerStep(w)
  PROVE  /\ UNCHANGED <<rsv, reserved>> /\ rows \subseteq rows'
         /\ \A k \in Keys : avail'[k] < avail[k] => avail'[k] >= reserved[k]
         /\ \A i \in DOMAIN movements' :
              \/ i \in DOMAIN movements /\ movements'[i] = movements[i]
              \/ movements'[i].type # "RESERVATION_ADD"
  <1>1. /\ RepoTypeOK /\ SectionTypeOK({NoTag}) /\ avail \in [Keys -> Nat]
        /\ pc[w] \notin {"set", "caching"} /\ movements \in Seq(Movement)
    BY DEF TypeOK, HandlersTypeOK, RepoTypeOK
  <1>2. CASE ChangeBalance(w)
    <2>1. call[w].change # "confirmSale"
      BY <1>2, DirectedPosts DEF CallsInv, ChangeBalance
    <2> QED
      BY <1>1, <1>2, <2>1, RemovesFree
  <1>3. CASE PostMovement(w)
    <2> DEFINE m == [type |-> Head(call[w].posts), key |-> call[w].key, qty |-> call[w].qty,
                     doc |-> call[w].doc]
    <2>1. /\ movements' = Append(movements, m) /\ UNCHANGED <<rows, avail, reserved, rsv>>
          /\ Directed(call[w]) /\ call[w].posts # <<>>
      BY <1>1, <1>3 DEF PostMovement, InsertMovement, CallsInv, SectionTypeOK
    <2>2. m.type # "RESERVATION_ADD"
      <3>1. PICK t \in AddTypes \cup OutTypes : call[w].posts = <<t>>
        BY <2>1 DEF Directed, Singles
      <3>2. m.type = t
        BY <3>1
      <3> QED
        BY <3>2 DEF AddTypes, OutTypes
    <2>3. \A i \in DOMAIN movements' :
            (i \in DOMAIN movements /\ movements'[i] = movements[i]) \/ movements'[i] = m
      BY <1>1, <2>1
    <2> HIDE DEF m
    <2>4. \A k \in Keys : ~ (avail'[k] < avail[k])
      BY <1>1, <2>1
    <2> QED
      BY <2>1, <2>2, <2>3, <2>4
  <1>4. CASE ~ ChangeBalance(w) /\ ~ PostMovement(w)
    <2>1. UNCHANGED <<rows, avail, reserved, rsv, movements>>
      <3>1. InSection(w) => UNCHANGED <<rows, avail, reserved, rsv, movements>>
        BY <1>4
           DEF InSection, SectionStep, LockBalance, LockRefused, ChangeRefused, PostFails,
               ReadBalance, CacheSkipped, CacheBalance, Unlock, repoVars
      <3>2. ~ SetBalance(w)
        BY <1>1 DEF SetBalance, At
      <3> QED
        BY <3>1, <3>2
           DEF HandlerStep, Submit, Refuse, SkipReceived, Accept, NextCall, NotConverted,
               SkipLine, LoopDone, SectionOk, SectionErr, Undo, UndoDone, CacheSet, CheckUse,
               Delete, StatementFails, repoVars
    <2>2. \A k \in Keys : ~ (avail'[k] < avail[k])
      BY <1>1, <2>1
    <2> QED
      BY <2>1, <2>2
  <1> QED
    BY <1>2, <1>3, <1>4

(***************************************************************************)
(* Products and their stock                                                *)
(***************************************************************************)

\* The inductive form: the same holds of a product as soon as a DeleteProduct
\* has found no stock of it, and what has no row has no stock.
FoundUnstocked(p) ==
  \E w \in Worker : pc[w] \in {"reservations", "assemblies", "delete"} /\ Request[w].product = p
ProductInv ==
  \A k \in Keys :
    /\ avail[k] > 0 => k \in rows
    /\ avail[k] > 0 /\ (k[1] \in DOMAIN Catalogue \ products \/ FoundUnstocked(k[1]))
         => BroughtIn(k)

\* Only applyQtySub and SetBalance touch a balance.
LEMMA BalancesStay ==
  ASSUME NEW w \in Worker, Submit(w) \/ HandlerStep(w), ~ ChangeBalance(w), ~ SetBalance(w)
  PROVE  UNCHANGED <<rows, avail>>
  BY DEF HandlerStep, Submit, Refuse, SkipReceived, Accept, NextCall, NotConverted, SkipLine,
         LoopDone, InSection, SectionOk, SectionErr, Undo, UndoDone, CacheSet, CheckUse, Delete,
         StatementFails, SectionStep, LockBalance, LockRefused, ChangeRefused, PostMovement,
         PostFails, ReadBalance, CacheSkipped, CacheBalance, Unlock, InsertMovement, repoVars

\* A worker inside a section makes a step of it.
LEMMA SectionIsNext ==
  ASSUME TypeOK, NEW w \in Worker, Submit(w) \/ HandlerStep(w),
         stage[w] \notin {"idle", "ok", "err"}
  PROVE  InSection(w)
  <1>1. pc[w] \in {"section", "undoing"}
    BY DEF TypeOK, HandlersTypeOK
  <1> QED
    BY <1>1
       DEF HandlerStep, Submit, Refuse, SkipReceived, Accept, NextCall, NotConverted, SkipLine,
           LoopDone, SectionOk, SectionErr, Undo, UndoDone, SetBalance, CacheSet, CheckUse,
           Delete, StatementFails, Return, AfterCheck, At

\* While no statement fails, a worker that has a movement to insert inserts it.
LEMMA PostIsNext ==
  ASSUME TypeOK, NEW w \in Worker, Submit(w) \/ HandlerStep(w), stage[w] = "post",
         "db" \notin Faults
  PROVE  PostMovement(w)
  <1>1. InSection(w)
    BY SectionIsNext
  <1> QED
    BY <1>1
       DEF InSection, SectionStep, LockBalance, LockRefused, ChangeRefused, PostFails,
           ReadBalance, CacheSkipped, CacheBalance, Unlock, ChangeBalance

\* The other workers stay where they are in their sections.
LEMMA OneHandler ==
  ASSUME TypeOK, NEW w \in Worker, Submit(w) \/ HandlerStep(w) \/ Crash(w)
  PROVE  \A v \in Worker \ {w} : stage'[v] = stage[v] /\ call'[v] = call[v]
  <1>1. \/ UNCHANGED <<stage, call>>
        \/ SectionStep(w) \/ ChangeBalance(w) \/ Killed(w)
        \/ \E c : Begin(w, c)
        \/ \E result \in {"ok", "err"} : Return(w, result)
    BY DEF HandlerStep, Submit, Refuse, SkipReceived, Accept, NextCall, NotConverted, SkipLine,
           LoopDone, InSection, SectionOk, SectionErr, Undo, UndoDone, SetBalance, CacheSet,
           CheckUse, Delete, StatementFails, Crash, sectionVars
  <1> QED
    BY <1>1, OneWorker DEF TypeOK

\* A balance that a movement has brought in stays such a balance.
LEMMA BroughtStays ==
  ASSUME TypeOK, CallsInv, "db" \notin Faults, NEW w \in Worker, Submit(w) \/ HandlerStep(w),
         NEW k \in Keys, BroughtIn(k)
  PROVE  BroughtIn(k)'
  <1>1. /\ \A v \in Worker \ {w} : stage'[v] = stage[v] /\ call'[v] = call[v]
        /\ movements \in Seq(Movement)
    BY OneHandler DEF TypeOK, RepoTypeOK
  <1>2. ASSUME NEW v \in Unposted({k}, AddTypes), v # w PROVE BroughtIn(k)'
    BY <1>1, <1>2 DEF BroughtIn, Unposted
  <1>3. CASE PostMovement(w)
    <2> DEFINE c == call[w]
               m == [type |-> Head(c.posts), key |-> c.key, qty |-> c.qty, doc |-> c.doc]
    <2>1. movements' = Append(movements, m)
      BY <1>3 DEF PostMovement, InsertMovement
    <2>2. /\ DOMAIN movements \subseteq DOMAIN movements'
          /\ \A i \in DOMAIN movements : movements'[i] = movements[i]
          /\ Len(movements) + 1 \in DOMAIN movements'
          /\ movements'[Len(movements) + 1] = m
      <3> HIDE DEF m
      <3> QED
        BY <1>1, <2>1, LenProperties, AppendProperties
    <2>3. ASSUME NEW i \in Entries({k}, AddTypes) PROVE BroughtIn(k)'
      BY <2>2 DEF BroughtIn, Entries
    <2>4. ASSUME w \in Unposted({k}, AddTypes) PROVE BroughtIn(k)'
      <3>1. Directed(c) /\ c.posts # <<>> /\ c.key = k
        BY <1>3, <2>4 DEF PostMovement, CallsInv, TypeOK, SectionTypeOK, Unposted
      <3>2. Range(c.posts) = {Head(c.posts)}
        BY <3>1, DirectedPosts
      <3>3. Head(c.posts) \in AddTypes
        BY <2>4, <3>2 DEF Unposted
      <3> QED
        BY <2>2, <3>1, <3>3 DEF BroughtIn, Entries
    <2> QED
      BY <1>2, <2>3, <2>4 DEF BroughtIn
  <1>4. CASE ~ PostMovement(w)
    <2>1. stage[w] # "post"
      BY <1>4, PostIsNext
    <2>2. UNCHANGED movements
      BY <1>4
         DEF HandlerStep, Submit, Refuse, SkipReceived, Accept, NextCall, NotConverted,
             SkipLine, LoopDone, InSection, SectionOk, SectionErr, Undo, UndoDone, SetBalance,
             UpsertBalance, CacheSet, CheckUse, Delete, StatementFails, SectionStep,
             LockBalance, LockRefused, ChangeRefused, PostFails, ReadBalance, CacheSkipped,
             CacheBalance, Unlock, ChangeBalance, AddAvailable, RemoveAvailable, ConfirmSale,
             repoVars
    <2>3. \A v \in Unposted({k}, AddTypes) : v # w
      BY <2>1 DEF Unposted
    <2> QED
      BY <1>2, <2>2, <2>3 DEF BroughtIn, Entries
  <1> QED
    BY <1>3, <1>4

\* A change of a balance brings stock in or lowers it.
LEMMA ChangeProduct ==
  ASSUME TypeOK, CallsInv, ProductInv, "db" \notin Faults, NEW w \in Worker,
         HandlerStep(w), ChangeBalance(w), NEW k \in Keys, avail'[k] > 0
  PROVE  /\ k \in rows'
         /\ BroughtIn(k)' \/ avail[k] > 0
  <1> DEFINE c == call[w]
  <1>1. /\ c \in Call({NoTag}) /\ Directed(c) /\ c.posts # <<>>
        /\ avail \in [Keys -> Nat] /\ rows \subseteq Keys
        /\ stage \in [Worker -> Stage]
    BY DEF ChangeBalance, TypeOK, SectionTypeOK, RepoTypeOK, CallsInv
  <1>2. c.key \in Keys /\ c.qty \in Nat /\ avail[k] \in Nat /\ c.change \in {"add", "remove"}
    BY <1>1, DirectedPosts DEF Call
  <1>3. avail[k] > 0 => k \in rows
    BY DEF ProductInv
  <1>4. CASE c.change = "add"
    <2>1. /\ rows' = rows \cup {c.key}
          /\ avail' = [avail EXCEPT ![c.key] = @ + c.qty]
      BY <1>4 DEF ChangeBalance, AddAvailable
    <2>2. CASE k = c.key
      <3>1. stage'[w] = "post" /\ call' = call
        BY <1>1 DEF ChangeBalance, Goto
      <3>2. /\ Range(c.posts) = {Head(c.posts)}
            /\ c.change = "add" => Range(c.posts) \subseteq AddTypes
        BY <1>1, DirectedPosts
      <3>3. Range(c.posts) \cap AddTypes # {}
        BY <1>4, <3>2
      <3> QED
        BY <2>1, <2>2, <3>1, <3>3 DEF BroughtIn, Unposted
    <2>3. CASE k # c.key
      BY <1>1, <1>3, <2>1, <2>3
    <2> QED
      BY <2>2, <2>3
  <1>5. CASE c.change = "remove"
    <2>1. rows' = rows /\ avail' = [avail EXCEPT ![c.key] = @ - c.qty]
      BY <1>5 DEF ChangeBalance, RemoveAvailable
    <2>2. avail[k] > 0
      BY <1>1, <1>2, <2>1
    <2> QED
      BY <1>3, <2>1, <2>2
  <1> QED
    BY <1>2, <1>4, <1>5

\* A product is found without stock, or removed, only when it has none but
\* what a movement brought in.
LEMMA ProductStep ==
  ASSUME Faults \cap {"db", "crash"} = {}, \A w \in Worker : ~ Op(w, "set"),
         TypeOK, CallsInv, ProductInv, [Next]_vars
  PROVE  ProductInv'
  <1>0. avail \in [Keys -> Nat] /\ pc \in [Worker -> Pc]
    BY DEF TypeOK, RepoTypeOK, HandlersTypeOK
  <1>1. CASE UNCHANGED vars \/ \E n \in LockName : LockExpires(n)
    BY <1>1 DEF LockExpires, vars, repoVars, requestVars, sectionVars, ProductInv, BroughtIn,
                Entries, Unposted, FoundUnstocked
  <1>2. ASSUME NEW w \in Worker, Submit(w) \/ HandlerStep(w), NEW k \in Keys, avail'[k] > 0
        PROVE  /\ k \in rows'
               /\ (k[1] \in DOMAIN Catalogue \ products \/ FoundUnstocked(k[1]))'
                    => BroughtIn(k)'
    <2>1. ~ SetBalance(w)
      BY DEF SetBalance, TypeOK, HandlersTypeOK, At
    <2>2. CASE ChangeBalance(w)
      <3>1. InSection(w)
        BY <1>2, <2>2, SectionIsNext DEF ChangeBalance
      <3>2. products' = products /\ FoundUnstocked(k[1])' = FoundUnstocked(k[1])
        BY <3>1 DEF InSection, requestVars, FoundUnstocked
      <3>3. k \in rows' /\ (BroughtIn(k)' \/ avail[k] > 0)
        BY <1>2, <2>2, <3>1, ChangeProduct DEF HandlerStep
      <3>4. BroughtIn(k) => BroughtIn(k)'
        BY <1>2, BroughtStays
      <3> QED
        BY <3>2, <3>3, <3>4 DEF ProductInv
    <2>3. CASE ~ ChangeBalance(w)
      <3>1. UNCHANGED <<rows, avail>>
        BY <1>2, <2>1, <2>3, BalancesStay
      <3>2. /\ k \in rows /\ avail[k] > 0
            /\ (k[1] \in DOMAIN Catalogue \ products \/ FoundUnstocked(k[1])) => BroughtIn(k)
        BY <1>2, <3>1 DEF ProductInv
      <3>3. BroughtIn(k) => BroughtIn(k)'
        BY <1>2, BroughtStays
      <3>4. k[1] \in DOMAIN Catalogue \ products' =>
              k[1] \in DOMAIN Catalogue \ products \/ FoundUnstocked(k[1])
        BY <1>2
           DEF HandlerStep, Submit, Refuse, SkipReceived, Accept, NextCall, NotConverted,
               SkipLine, LoopDone, InSection, SectionOk, SectionErr, Undo, UndoDone, SetBalance,
               CacheSet, CheckUse, Delete, StatementFails, requestVars, FoundUnstocked, At
      <3>5. FoundUnstocked(k[1])' => FoundUnstocked(k[1])
        <4> SUFFICES ASSUME NEW v \in Worker, Request[v].product = k[1],
                            pc'[v] \in {"reservations", "assemblies", "delete"}
                     PROVE  FoundUnstocked(k[1])
          BY DEF FoundUnstocked
        <4>1. CASE pc[v] \in {"reservations", "assemblies", "delete"}
          BY <4>1 DEF FoundUnstocked
        <4>2. CASE pc[v] \notin {"reservations", "assemblies", "delete"}
          <5>1. /\ v = w /\ CheckUse(w) /\ pc[w] = "balances"
                /\ ~ InUse(Request[w].product, pc[w])
            BY <1>0, <1>2, <4>2
               DEF HandlerStep, Submit, Refuse, SkipReceived, Accept, NextCall, NotConverted,
                   SkipLine, LoopDone, InSection, SectionOk, SectionErr, Undo, UndoDone,
                   SetBalance, CacheSet, CheckUse, Delete, StatementFails, requestVars, At, Jump,
                   AfterCheck
          <5>2. ~ Stocked(k[1])
            BY <5>1 DEF InUse
          <5> QED
            BY <1>0, <3>2, <5>2 DEF Stocked
        <4> QED
          BY <4>1, <4>2
      <3> QED
        BY <3>1, <3>2, <3>3, <3>4, <3>5
    <2> QED
      BY <2>2, <2>3
  <1> QED
    BY <1>1, <1>2 DEF Next, Crash, ProductInv

\* Stock that no movement brought in keeps its product (service.go:140-155),
\* for any requests but balances set by hand and any number of workers, while
\* no statement fails and no process dies, even if locks expire early.
THEOREM RequestsProducts ==
  ASSUME Faults \cap {"db", "crash"} = {}, \A w \in Worker : ~ Op(w, "set")
  PROVE  Spec => []StockHasProduct
  <1>1. Init => ProductInv
    BY DEF Init, ProductInv, FoundUnstocked
  <1>2. TypeOK /\ CallsInv /\ ProductInv /\ [Next]_vars => ProductInv'
    BY ProductStep
  <1>3. ProductInv => StockHasProduct
    BY DEF ProductInv, StockHasProduct
  <1>4. Init => CallsInv
    BY InitCalls
  <1>5. TypeOK /\ CallsInv /\ [Next]_vars => CallsInv'
    BY CallsStep
  <1> QED
    BY <1>1, <1>2, <1>3, <1>4, <1>5, RequestsTypeCorrect, PTL DEF Spec

(***************************************************************************)
(* Receipts                                                                *)
(***************************************************************************)

\* The inductive form: the deliveries of the queue are handled one at a time,
\* and of a document that is being received nothing is in the ledger yet that
\* its handler has still to bring in.
Receives(w, c) ==
  IF Op(w, "receive") THEN c.posts = <<"PURCHASE_IN">> /\ c.doc = ReceiptDoc(w)
                      ELSE c.posts # <<"PURCHASE_IN">>
Unfinished(w) == stage[w] \in {"lock", "change", "post"}
Lines(w) == {i \in DOMAIN calls[w] : calls[w][i].qty > 0}
ToReceive(w) == {i \in Lines(w) : i = 1 /\ At(w, "section") => Unfinished(w)}
OneDelivery == \A v, w \in InboundConsumer : Running(v) /\ Running(w) => v = w
ReceiptPlan(w) ==
  /\ At(w, "undoing") => Op(w, "transfer")
  /\ \A i \in DOMAIN calls[w] : Receives(w, calls[w][i])
  /\ Unfinished(w) => Receives(w, call[w])
  /\ Op(w, "receive") =>
       /\ \A i, j \in Lines(w) : calls[w][i].key = calls[w][j].key => i = j
       /\ Unfinished(w) => 1 \in Lines(w) /\ call[w].key = calls[w][1].key
NotReceivedYet(w) ==
  Op(w, "receive") /\ pc[w] \in {"loop", "section"} =>
    \A i \in ToReceive(w), j \in DOMAIN movements :
      movements[j].type = "PURCHASE_IN" /\ movements[j].doc = ReceiptDoc(w)
        => movements[j].key # calls[w][i].key
ReceiveInv == OneDelivery /\ \A w \in Worker : ReceiptPlan(w) /\ NotReceivedYet(w)

\* What the code presumes of the receipts: each names a product on one line, and
\* a document that more than one of them asks for comes through the queue.
LinesApart ==
  \A w \in Worker : Op(w, "receive") =>
    \A i, j \in DOMAIN Request[w].items :
      Request[w].items[i].qty > 0 /\ Request[w].items[j].qty > 0
        /\ Request[w].items[i].product = Request[w].items[j].product => i = j
ReceiptsApart ==
  /\ \A w \in Worker, v \in Worker :
       Op(w, "receive") /\ Op(v, "receive") /\ v # w /\ ReceiptDoc(v) = ReceiptDoc(w)
         => {v, w} \subseteq InboundConsumer
  /\ LinesApart

\* The first line of a list, and the lines that remain.
LEMMA ListLines ==
  ASSUME NEW s \in Seq(Planned)
  PROVE  /\ \A i \in DOMAIN s : s[i] \in Planned /\ i \in Nat
         /\ s # <<>> => /\ 1 \in DOMAIN s /\ Head(s) = s[1]
                        /\ \A i \in DOMAIN Tail(s) :
                             i + 1 \in DOMAIN s /\ Tail(s)[i] = s[i + 1] /\ i + 1 # 1
  <1>1. /\ Len(s) \in Nat /\ DOMAIN s = 1 .. Len(s)
        /\ \A i \in 1 .. Len(s) : s[i] \in Planned
    BY LenProperties, ElementOfSeq
  <1>2. CASE s # <<>>
    <2>1. /\ Len(s) > 0 /\ Head(s) = s[1] /\ Len(Tail(s)) = Len(s) - 1
          /\ DOMAIN Tail(s) = 1 .. Len(Tail(s))
          /\ \A i \in 1 .. Len(Tail(s)) : Tail(s)[i] = s[i + 1]
      BY <1>1, <1>2, LenProperties, EmptySeq, HeadTailProperties
    <2> QED
      BY <1>1, <2>1
  <1> QED
    BY <1>1, <1>2

\* A step of a handler is a step of its worker alone.
LEMMA OtherHandlers ==
  ASSUME TypeOK, NEW w \in Worker, Submit(w) \/ HandlerStep(w) \/ Crash(w)
  PROVE  /\ \A v \in Worker \ {w} : pc'[v] = pc[v] /\ calls'[v] = calls[v]
         /\ ~ Submit(w) => Running(w)
  <1>1. pc \in [Worker -> Pc] /\ DOMAIN calls = Worker
    BY DEF TypeOK, HandlersTypeOK
  <1>2. \A v \in Worker \ {w} : pc'[v] = pc[v]
    BY <1>1
       DEF HandlerStep, Submit, Refuse, SkipReceived, Accept, NextCall, NotConverted, SkipLine,
           LoopDone, InSection, SectionOk, SectionErr, Undo, UndoDone, SetBalance, CacheSet,
           CheckUse, Delete, StatementFails, Crash, requestVars, Jump
  <1>3. \A v \in Worker \ {w} : calls'[v] = calls[v]
    BY <1>1
       DEF HandlerStep, Submit, Refuse, SkipReceived, Accept, NextCall, NotConverted, SkipLine,
           LoopDone, InSection, SectionOk, SectionErr, Undo, UndoDone, SetBalance, CacheSet,
           CheckUse, Delete, StatementFails, Crash, requestVars
  <1>4. ~ Submit(w) => Running(w)
    BY DEF HandlerStep, Refuse, SkipReceived, Accept, NextCall, NotConverted, SkipLine,
           LoopDone, InSection, SectionOk, SectionErr, Undo, UndoDone, SetBalance, CacheSet,
           CheckUse, Delete, StatementFails, Crash, Running, At, AfterCheck
  <1> QED
    BY <1>2, <1>3, <1>4

\* The deliveries of the queue are handled one at a time.
LEMMA OneDeliveryStep ==
  ASSUME TypeOK, OneDelivery, NEW w \in Worker, Submit(w) \/ HandlerStep(w) \/ Crash(w)
  PROVE  OneDelivery'
  <1>1. /\ \A v \in Worker \ {w} : pc'[v] = pc[v]
        /\ ~ Submit(w) => Running(w)
    BY OtherHandlers
  <1>2. InboundConsumer \subseteq Worker
    BY RequestsAssumption
  <1> SUFFICES ASSUME NEW u \in InboundConsumer, NEW v \in InboundConsumer,
                      Running(u)', Running(v)'
               PROVE  u = v
    BY DEF OneDelivery
  <1>3. CASE u # w /\ v # w
    BY <1>1, <1>2, <1>3 DEF OneDelivery, Running
  <1>4. CASE Submit(w) /\ (u = w \/ v = w)
    BY <1>1, <1>2, <1>4 DEF Submit, Running
  <1>5. CASE ~ Submit(w)
    BY <1>1, <1>2, <1>5 DEF OneDelivery, Running
  <1> QED
    BY <1>3, <1>4, <1>5

\* Each line of a receipt inserts its own movement; no other operation inserts
\* a movement of a receipt.
LEMMA CallsReceive ==
  ASSUME ReceiptsApart, NEW w \in Worker, Accepted(w)
  PROVE  /\ \A i \in DOMAIN CallsOf(w) : Receives(w, CallsOf(w)[i])
         /\ Op(w, "receive") =>
              \A i, j \in DOMAIN CallsOf(w) :
                CallsOf(w)[i].qty > 0 /\ CallsOf(w)[j].qty > 0
                  /\ CallsOf(w)[i].key = CallsOf(w)[j].key => i = j
  <1> DEFINE r == Request[w]
  <1>1. RequestOK(r)
    BY RequestsAssumption
  <1>2. CASE r.op = "movement"
    BY <1>2 DEF CallsOf, ApplyCall, Receives, Op
  <1>3. CASE r.op = "transfer"
    BY <1>3 DEF CallsOf, Transfer, ApplyCall, Receives, Op
  <1>4. CASE r.op = "receive"
    <2>1. /\ DOMAIN CallsOf(w) = DOMAIN r.items
          /\ \A i \in DOMAIN r.items :
               /\ CallsOf(w)[i].posts = <<"PURCHASE_IN">> /\ CallsOf(w)[i].doc = ReceiptDoc(w)
               /\ CallsOf(w)[i].qty = r.items[i].qty
               /\ CallsOf(w)[i].key = <<r.items[i].product, r.wh>>
      BY <1>4 DEF CallsOf, ApplyCall
    <2>2. \A i, j \in DOMAIN r.items :
            r.items[i].qty > 0 /\ r.items[j].qty > 0
              /\ r.items[i].product = r.items[j].product => i = j
      BY <1>4 DEF ReceiptsApart, LinesApart, Op
    <2>3. \A i \in DOMAIN CallsOf(w) : Receives(w, CallsOf(w)[i])
      BY <1>4, <2>1 DEF Receives, Op
    <2>4. ASSUME NEW i \in DOMAIN r.items, NEW j \in DOMAIN r.items,
                 CallsOf(w)[i].key = CallsOf(w)[j].key
          PROVE  r.items[i].product = r.items[j].product
      BY <2>1, <2>4
    <2> HIDE DEF r
    <2> QED
      BY <2>1, <2>2, <2>3, <2>4
  <1>5. CASE r.op \in {"set", "delete"}
    BY <1>5 DEF CallsOf, Receives, Op
  <1> QED
    BY <1>1, <1>2, <1>3, <1>4, <1>5 DEF RequestOK

\* Who is about to insert a movement, and what, before a step of the section
\* and after it.
LEMMA SectionUnfinished ==
  ASSUME TypeOK, CallsInv, NEW w \in Worker, SectionStep(w) \/ ChangeBalance(w)
  PROVE  Unfinished(w)' => Unfinished(w) /\ call' = call
  <1>1. /\ stage \in [Worker -> Stage]
        /\ stage[w] \in {"lock", "change", "post"} => Directed(call[w])
    BY DEF TypeOK, SectionTypeOK, CallsInv
  <1>2. CASE PostMovement(w) \/ PostFails(w)
    <2>1. Len(call[w].posts) = 1
      BY <1>1, <1>2, DirectedPosts DEF PostMovement, PostFails
    <2> QED
      BY <1>1, <1>2, <2>1 DEF PostMovement, PostFails, Posted, Goto, Unfinished
  <1>3. CASE ChangeBalance(w) \/ (SectionStep(w) /\ ~ (PostMovement(w) \/ PostFails(w)))
    BY <1>1, <1>3
       DEF SectionStep, LockBalance, LockRefused, ChangeRefused, ReadBalance, CacheSkipped,
           CacheBalance, Unlock, ChangeBalance, Goto, Unfinished
  <1> QED
    BY <1>2, <1>3

\* A worker outside its section has no movement to insert.
LEMMA OutsideFinished ==
  ASSUME TypeOK, NEW w \in Worker, pc[w] \notin {"section", "undoing"}
  PROVE  ~ Unfinished(w)
  BY DEF TypeOK, HandlersTypeOK, Unfinished

\* A list of receipts keeps its plan when its first line is done.
LEMMA TailPlan ==
  ASSUME TypeOK, NEW w \in Worker, ReceiptPlan(w), calls[w] # <<>>
  PROVE  /\ \A i \in DOMAIN Tail(calls[w]) : Receives(w, Tail(calls[w])[i])
         /\ Op(w, "receive") =>
              \A i, j \in DOMAIN Tail(calls[w]) :
                Tail(calls[w])[i].qty > 0 /\ Tail(calls[w])[j].qty > 0
                  /\ Tail(calls[w])[i].key = Tail(calls[w])[j].key => i = j
  <1> DEFINE s == calls[w]
  <1>1. s \in Seq(Planned)
    BY DEF TypeOK, HandlersTypeOK
  <1>2. \A i \in DOMAIN Tail(s) : i + 1 \in DOMAIN s /\ Tail(s)[i] = s[i + 1] /\ i \in Nat
    <2>1. Tail(s) \in Seq(Planned)
      BY <1>1, HeadTailProperties
    <2> QED
      BY <1>1, <2>1, ListLines
  <1>3. \A i \in DOMAIN s : Receives(w, s[i])
    BY DEF ReceiptPlan
  <1>4. Op(w, "receive") =>
          \A i, j \in DOMAIN s :
            s[i].qty > 0 /\ s[j].qty > 0 /\ s[i].key = s[j].key => i = j
    BY DEF ReceiptPlan, Lines
  <1> HIDE DEF s
  <1>5. \A i \in DOMAIN Tail(s) : Receives(w, Tail(s)[i])
    BY <1>2, <1>3
  <1>6. ASSUME Op(w, "receive"), NEW i \in DOMAIN Tail(s), NEW j \in DOMAIN Tail(s),
               Tail(s)[i].qty > 0, Tail(s)[j].qty > 0, Tail(s)[i].key = Tail(s)[j].key
        PROVE  i = j
    <2>1. i + 1 = j + 1
      BY <1>2, <1>4, <1>6
    <2> QED
      BY <1>2, <2>1
  <1> QED
    BY <1>5, <1>6 DEF s

\* The plan of a worker depends on its own list and call alone.
LEMMA PlanStays ==
  ASSUME NEW v \in Worker, ReceiptPlan(v), calls'[v] = calls[v], stage'[v] = stage[v],
         call'[v] = call[v], pc'[v] = "undoing" => pc[v] = "undoing"
  PROVE  ReceiptPlan(v)'
  BY DEF ReceiptPlan, Receives, Unfinished, Lines, At, Op, ReceiptDoc

\* A worker without a movement to insert follows its plan if its list does.
LEMMA PlanMoves ==
  ASSUME NEW w \in Worker, pc'[w] # "undoing", ~ Unfinished(w)',
         \A i \in DOMAIN calls'[w] : Receives(w, calls'[w][i]),
         Op(w, "receive") =>
           \A i, j \in DOMAIN calls'[w] :
             calls'[w][i].qty > 0 /\ calls'[w][j].qty > 0
               /\ calls'[w][i].key = calls'[w][j].key => i = j
  PROVE  ReceiptPlan(w)'
  BY DEF ReceiptPlan, Receives, Lines, At, Op, ReceiptDoc

\* Every handler follows its plan.
LEMMA PlanStep ==
  ASSUME ReceiptsApart, TypeOK, CallsInv, NEW w \in Worker, ReceiptPlan(w),
         Submit(w) \/ HandlerStep(w) \/ Crash(w)
  PROVE  ReceiptPlan(w)'
  <1>1. /\ DOMAIN calls = Worker /\ DOMAIN call = Worker
        /\ stage \in [Worker -> Stage] /\ pc \in [Worker -> Pc]
        /\ pc[w] \notin {"section", "undoing"} => ~ Unfinished(w)
        /\ pc[w] = "section" => calls[w] # <<>>
    BY OutsideFinished DEF TypeOK, SectionTypeOK, HandlersTypeOK, At
  <1>3. CASE Submit(w) \/ Refuse(w) \/ SkipReceived(w) \/ LoopDone(w) \/ CheckUse(w)
             \/ Delete(w) \/ StatementFails(w) \/ SetBalance(w) \/ CacheSet(w)
    <2>1. UNCHANGED <<calls, stage, call>>
      BY <1>3
         DEF Submit, Refuse, SkipReceived, LoopDone, CheckUse, Delete, StatementFails,
             SetBalance, CacheSet, sectionVars
    <2>2. pc'[w] # "undoing"
      BY <1>1, <1>3
         DEF Submit, Refuse, SkipReceived, LoopDone, CheckUse, Delete, StatementFails,
             SetBalance, CacheSet, Jump, At, AfterCheck
    <2> QED
      BY <2>1, <2>2, PlanStays
  <1>4. CASE Accept(w)
    <2>1. /\ Accepted(w) /\ calls'[w] = CallsOf(w) /\ pc'[w] # "undoing"
          /\ UNCHANGED stage /\ ~ Unfinished(w)
      BY <1>1, <1>4 DEF Accept, Jump, At, sectionVars
    <2> QED
      BY <2>1, CallsReceive, PlanMoves DEF Unfinished
  <1>5. CASE NotConverted(w) \/ SectionErr(w) \/ UndoDone(w) \/ Crash(w)
    <2>1. pc'[w] # "undoing" /\ ~ Unfinished(w)'
      BY <1>1, <1>5
         DEF NotConverted, SectionErr, UndoDone, Crash, Return, Killed, Goto, Jump, At,
             sectionVars, Unfinished
    <2>2. calls'[w] = <<>> \/ calls'[w] = calls[w]
      BY <1>1, <1>5 DEF NotConverted, SectionErr, UndoDone, Crash
    <2>3. calls'[w] = <<>> => ReceiptPlan(w)'
      BY <2>1, PlanMoves
    <2>4. calls'[w] = calls[w] => ReceiptPlan(w)'
      BY <2>1, PlanMoves DEF ReceiptPlan, Lines
    <2> QED
      BY <2>2, <2>3, <2>4
  <1>6. CASE SkipLine(w) \/ SectionOk(w)
    <2>1. /\ pc'[w] # "undoing" /\ ~ Unfinished(w)' /\ calls[w] # <<>>
          /\ calls'[w] = Tail(calls[w])
      BY <1>1, <1>6
         DEF SkipLine, SectionOk, Return, Goto, Jump, At, sectionVars, Unfinished
    <2> QED
      BY <2>1, TailPlan, PlanMoves
  <1>7. CASE NextCall(w)
    <2>1. /\ calls' = calls /\ pc'[w] = "section" /\ calls[w] # <<>>
          /\ Head(calls[w]).qty > 0
          /\ \E q : call'[w] \in {Head(calls[w]), [Head(calls[w]) EXCEPT !.qty = q]}
      BY <1>1, <1>7 DEF NextCall, Begin, HasLine, Jump
    <2>2. /\ 1 \in DOMAIN calls[w] /\ Head(calls[w]) = calls[w][1] /\ calls[w][1] \in Planned
      BY <2>1, ListLines DEF TypeOK, HandlersTypeOK
    <2>3. /\ call'[w].posts = calls[w][1].posts /\ call'[w].doc = calls[w][1].doc
          /\ call'[w].key = calls[w][1].key
      BY <2>1, <2>2 DEF Planned
    <2> QED
      BY <2>1, <2>2, <2>3 DEF ReceiptPlan, Receives, Lines, At, Op, ReceiptDoc
  <1>8. CASE Undo(w)
    <2>1. Op(w, "transfer") /\ call'[w].posts = <<"TRANSFER_IN">> /\ calls' = calls
      BY <1>1, <1>8
         DEF Undo, Begin, Undoing, Transfer, ApplyCall, TypeOK, HandlersTypeOK
    <2>2. call'[w].posts # <<"PURCHASE_IN">>
      BY <2>1
    <2> QED
      BY <2>1, <2>2 DEF ReceiptPlan, Receives, Lines, At, Op, ReceiptDoc
  <1>9. CASE InSection(w)
    <2>1. UNCHANGED <<calls, pc>> /\ (Unfinished(w)' => Unfinished(w) /\ call' = call)
      BY <1>9, SectionUnfinished DEF InSection, requestVars
    <2> QED
      BY <2>1 DEF ReceiptPlan, Receives, Lines, At, Op, ReceiptDoc
  <1> QED
    BY <1>3, <1>4, <1>5, <1>6, <1>7, <1>8, <1>9 DEF HandlerStep

\* What is not received yet stays so while nothing is inserted and no line
\* becomes one to receive.
LEMMA NotYetStays ==
  ASSUME NEW v \in Worker, NotReceivedYet(v), UNCHANGED movements, calls'[v] = calls[v],
         pc'[v] = pc[v], Unfinished(v)' => Unfinished(v)
  PROVE  NotReceivedYet(v)'
  <1>1. ToReceive(v)' \subseteq ToReceive(v)
    BY DEF ToReceive, Lines, At
  <1> QED
    BY <1>1 DEF NotReceivedYet, Op, ReceiptDoc

\* Nothing is inserted but by PostMovement.
LEMMA LedgerStays ==
  ASSUME NEW w \in Worker, Submit(w) \/ HandlerStep(w) \/ Crash(w), ~ PostMovement(w)
  PROVE  UNCHANGED movements
  BY DEF HandlerStep, Submit, Refuse, SkipReceived, Accept, NextCall, NotConverted, SkipLine,
         LoopDone, InSection, SectionOk, SectionErr, Undo, UndoDone, SetBalance, UpsertBalance,
         CacheSet, CheckUse, Delete, StatementFails, Crash, SectionStep, LockBalance,
         LockRefused, ChangeRefused, PostFails, ReadBalance, CacheSkipped, CacheBalance, Unlock,
         ChangeBalance, AddAvailable, RemoveAvailable, ConfirmSale, repoVars

\* A handler reaches a line of a receipt before it inserts its movement.
LEMMA NotYetQuiet ==
  ASSUME TypeOK, CallsInv, NEW w \in Worker, ReceiptPlan(w), NotReceivedYet(w),
         Submit(w) \/ HandlerStep(w) \/ Crash(w), ~ PostMovement(w)
  PROVE  NotReceivedYet(w)'
  <1>1. /\ DOMAIN calls = Worker /\ pc \in [Worker -> Pc] /\ calls[w] \in Seq(Planned)
        /\ stage \in [Worker -> Stage] /\ UNCHANGED movements
        /\ pc[w] = "section" => calls[w] # <<>>
    BY LedgerStays DEF TypeOK, HandlersTypeOK, SectionTypeOK, At
  <1>2. CASE Submit(w) \/ Refuse(w) \/ SkipReceived(w) \/ LoopDone(w) \/ CheckUse(w)
             \/ Delete(w) \/ StatementFails(w) \/ SetBalance(w) \/ CacheSet(w)
             \/ NotConverted(w) \/ SectionErr(w) \/ Undo(w) \/ UndoDone(w) \/ Crash(w)
    <2>1. pc'[w] \notin {"loop", "section"}
      BY <1>1, <1>2
         DEF Submit, Refuse, SkipReceived, LoopDone, CheckUse, Delete, StatementFails,
             SetBalance, CacheSet, NotConverted, SectionErr, Undo, UndoDone, Crash, Jump, At,
             AfterCheck
    <2> QED
      BY <2>1 DEF NotReceivedYet
  <1>3. CASE Accept(w)
    <2>1. Op(w, "receive") =>
            \A j \in DOMAIN movements :
              ~ (movements[j].type = "PURCHASE_IN" /\ movements[j].doc = ReceiptDoc(w))
      BY <1>3 DEF Accept, AlreadyReceived, HasMovement
    <2> QED
      BY <1>1, <2>1 DEF NotReceivedYet, Op, ReceiptDoc
  <1>4. CASE SkipLine(w) \/ SectionOk(w)
    <2>1. /\ calls'[w] = Tail(calls[w]) /\ calls[w] # <<>> /\ pc'[w] = "loop"
          /\ pc[w] \in {"loop", "section"}
      BY <1>1, <1>4 DEF SkipLine, SectionOk, Jump, At
    <2>2. ASSUME NEW i \in ToReceive(w)'
          PROVE  \E l \in ToReceive(w) : calls[w][l].key = calls'[w][i].key
      <3>1. i \in DOMAIN Tail(calls[w]) /\ Tail(calls[w])[i].qty > 0
        BY <2>1 DEF ToReceive, Lines
      <3>2. i + 1 \in DOMAIN calls[w] /\ calls[w][i + 1] = Tail(calls[w])[i] /\ i + 1 # 1
        BY <1>1, <2>1, <3>1, ListLines
      <3>3. i + 1 \in ToReceive(w)
        BY <3>1, <3>2 DEF ToReceive, Lines
      <3> QED
        BY <2>1, <3>2, <3>3
    <2> QED
      BY <1>1, <2>1, <2>2 DEF NotReceivedYet, Op, ReceiptDoc
  <1>5. CASE NextCall(w)
    <2>1. calls' = calls /\ pc[w] = "loop"
      BY <1>5 DEF NextCall, At
    <2>2. ToReceive(w)' \subseteq ToReceive(w)
      BY <2>1 DEF ToReceive, Lines, At
    <2> QED
      BY <1>1, <2>1, <2>2 DEF NotReceivedYet, Op, ReceiptDoc
  <1>6. CASE InSection(w)
    <2>1. UNCHANGED <<calls, pc>> /\ (Unfinished(w)' => Unfinished(w))
      BY <1>6, SectionUnfinished DEF InSection, requestVars
    <2> QED
      BY <1>1, <2>1, NotYetStays
  <1> QED
    BY <1>2, <1>3, <1>4, <1>5, <1>6 DEF HandlerStep

\* The movement a worker inserts, and that it is the first of its line.
LEMMA PostReceives ==
  ASSUME TypeOK, CallsInv, ReceiveInv, NEW w \in Worker, Submit(w) \/ HandlerStep(w),
         PostMovement(w)
  PROVE  \E m :
           /\ movements' = Append(movements, m)
           /\ ~ Unfinished(w)'
           /\ pc' = pc /\ calls' = calls
           /\ m.type = "PURCHASE_IN" =>
                /\ Op(w, "receive") /\ pc[w] = "section" /\ 1 \in ToReceive(w)
                /\ m.doc = ReceiptDoc(w) /\ m.key = calls[w][1].key
  <1> DEFINE c == call[w]
             m == [type |-> Head(c.posts), key |-> c.key, qty |-> c.qty, doc |-> c.doc]
  <1>1. InSection(w) /\ Unfinished(w) /\ stage \in [Worker -> Stage]
    BY SectionIsNext DEF PostMovement, Unfinished, TypeOK, SectionTypeOK
  <1>2. Directed(c) /\ ReceiptPlan(w)
    BY <1>1 DEF CallsInv, ReceiveInv, Unfinished
  <1>3. PICK t : c.posts = <<t>> /\ Head(c.posts) = t /\ Len(c.posts) = 1
    BY <1>2 DEF Directed, Singles
  <1>4. /\ movements' = Append(movements, m) /\ pc' = pc /\ calls' = calls
        /\ ~ Unfinished(w)'
    BY <1>1, <1>3 DEF PostMovement, InsertMovement, Posted, Goto, Unfinished, InSection,
                      requestVars
  <1>5. ASSUME m.type = "PURCHASE_IN"
        PROVE  /\ Op(w, "receive") /\ pc[w] = "section" /\ 1 \in ToReceive(w)
               /\ m.doc = ReceiptDoc(w) /\ m.key = calls[w][1].key
    <2>1. c.posts = <<"PURCHASE_IN">>
      BY <1>3, <1>5
    <2>2. Op(w, "receive") /\ c.doc = ReceiptDoc(w)
      BY <1>1, <1>2, <2>1 DEF ReceiptPlan, Receives
    <2>3. 1 \in Lines(w) /\ c.key = calls[w][1].key
      BY <1>1, <1>2, <2>2 DEF ReceiptPlan
    <2>4. pc[w] = "section"
      BY <1>1, <1>2, <2>2 DEF InSection, ReceiptPlan, Op, At
    <2> QED
      BY <1>1, <2>2, <2>3, <2>4 DEF ToReceive
  <1> QED
    BY <1>4, <1>5

\* A movement more in the list.
LEMMA LedgerGrows ==
  ASSUME NEW s \in Seq(Movement), NEW m
  PROVE  /\ DOMAIN Append(s, m) = DOMAIN s \cup {Len(s) + 1} /\ Len(s) + 1 \notin DOMAIN s
         /\ Append(s, m)[Len(s) + 1] = m
         /\ \A j \in DOMAIN s : Append(s, m)[j] = s[j]
  BY LenProperties, AppendProperties

\* A movement that is inserted is one no other receipt has still to bring in.
LEMMA NotYetPost ==
  ASSUME ReceiptsApart, TypeOK, CallsInv, ReceiveInv, NEW w \in Worker,
         Submit(w) \/ HandlerStep(w), PostMovement(w), NEW v \in Worker
  PROVE  NotReceivedYet(v)'
  <1>1. PICK m :
           /\ movements' = Append(movements, m)
           /\ ~ Unfinished(w)'
           /\ pc' = pc /\ calls' = calls
           /\ m.type = "PURCHASE_IN" =>
                /\ Op(w, "receive") /\ pc[w] = "section" /\ 1 \in ToReceive(w)
                /\ m.doc = ReceiptDoc(w) /\ m.key = calls[w][1].key
    BY PostReceives
  <1>2. /\ DOMAIN movements' = DOMAIN movements \cup {Len(movements) + 1}
        /\ movements'[Len(movements) + 1] = m
        /\ \A j \in DOMAIN movements : movements'[j] = movements[j]
    BY <1>1, LedgerGrows DEF TypeOK, RepoTypeOK
  <1>3. ReceiptPlan(v) /\ NotReceivedYet(v) /\ OneDelivery
    BY DEF ReceiveInv
  <1>4. ToReceive(v)' \subseteq ToReceive(v)
    <2>1. stage'[v] = stage[v] \/ v = w
      BY OneHandler
    <2> QED
      BY <1>1, <2>1 DEF ToReceive, Lines, At, Unfinished
  <1>5. ASSUME Op(v, "receive"), pc[v] \in {"loop", "section"}, NEW i \in ToReceive(v)',
               m.type = "PURCHASE_IN", m.doc = ReceiptDoc(v)
        PROVE  m.key # calls[v][i].key
    <2>1. v = w
      <3>1. Running(v) /\ Running(w)
        BY <1>1, <1>5 DEF Running
      <3>2. v # w => {v, w} \subseteq InboundConsumer
        BY <1>1, <1>5 DEF ReceiptsApart
      <3> QED
        BY <1>3, <3>1, <3>2 DEF OneDelivery
    <2>2. i # 1 /\ i \in Lines(w) /\ 1 \in Lines(w)
      BY <1>1, <1>4, <1>5, <2>1 DEF ToReceive, At
    <2> QED
      BY <1>1, <1>3, <1>5, <2>1, <2>2 DEF ReceiptPlan
  <1> QED
    BY <1>1, <1>2, <1>3, <1>4, <1>5 DEF NotReceivedYet, Op, ReceiptDoc

\* No document is received again, and none is about to be.
LEMMA ReceiveStep ==
  ASSUME ReceiptsApart, TypeOK, CallsInv, ReceiveInv, [Next]_vars
  PROVE  ReceiveInv'
  <1>1. CASE UNCHANGED vars \/ \E n \in LockName : LockExpires(n)
    <2>1. UNCHANGED <<movements, calls, pc, stage, call>>
      BY <1>1 DEF LockExpires, vars, repoVars, requestVars, sectionVars
    <2>2. OneDelivery'
      BY <2>1 DEF ReceiveInv, OneDelivery, Running
    <2>3. \A v \in Worker : ReceiptPlan(v)'
      BY <2>1, PlanStays DEF ReceiveInv
    <2>4. \A v \in Worker : NotReceivedYet(v)'
      BY <2>1, NotYetStays DEF ReceiveInv, Unfinished
    <2> QED
      BY <2>2, <2>3, <2>4 DEF ReceiveInv
  <1>2. ASSUME NEW w \in Worker, Submit(w) \/ HandlerStep(w) \/ Crash(w) PROVE ReceiveInv'
    <2>1. \A v \in Worker \ {w} : /\ pc'[v] = pc[v] /\ calls'[v] = calls[v]
                                  /\ stage'[v] = stage[v] /\ call'[v] = call[v]
      BY <1>2, OtherHandlers, OneHandler
    <2>2. OneDelivery'
      BY <1>2, OneDeliveryStep DEF ReceiveInv
    <2>3. ASSUME NEW v \in Worker PROVE ReceiptPlan(v)'
      <3>1. CASE v = w
        BY <1>2, <3>1, PlanStep DEF ReceiveInv
      <3>2. CASE v # w
        BY <2>1, <3>2, PlanStays DEF ReceiveInv
      <3> QED
        BY <3>1, <3>2
    <2>4. ASSUME NEW v \in Worker PROVE NotReceivedYet(v)'
      <3>1. CASE PostMovement(w) /\ (Submit(w) \/ HandlerStep(w))
        BY <3>1, NotYetPost
      <3>2. CASE ~ PostMovement(w) /\ v = w
        BY <1>2, <3>2, NotYetQuiet DEF ReceiveInv
      <3>3. CASE ~ PostMovement(w) /\ v # w
        <4>1. UNCHANGED movements
          BY <1>2, <3>3, LedgerStays
        <4> QED
          BY <2>1, <3>3, <4>1, NotYetStays DEF ReceiveInv, Unfinished
      <3>4. ~ (PostMovement(w) /\ Crash(w))
        BY DEF PostMovement, InsertMovement, Crash, repoVars, TypeOK, RepoTypeOK
      <3> QED
        BY <1>2, <3>1, <3>2, <3>3, <3>4
    <2> QED
      BY <2>2, <2>3, <2>4 DEF ReceiveInv
  <1> QED
    BY <1>1, <1>2 DEF Next

\* What a receipt has added and not recorded yet: the first line of its list,
\* which is not in the ledger.
LEMMA ReceivingLine ==
  ASSUME TypeOK, CallsInv, ReceiveInv, NEW w \in Receiving
  PROVE  /\ w \in Worker /\ Op(w, "receive") /\ Running(w) /\ call[w].doc = ReceiptDoc(w)
         /\ ~ Shown("PURCHASE_IN", call[w].doc, call[w].key)
  <1>1. w \in Worker /\ stage[w] = "post" /\ Range(call[w].posts) \cap {"PURCHASE_IN"} # {}
    BY DEF Receiving, Unposted
  <1>2. Unfinished(w) /\ Directed(call[w]) /\ ReceiptPlan(w) /\ NotReceivedYet(w)
    BY <1>1 DEF CallsInv, ReceiveInv, Unfinished
  <1>3. call[w].posts = <<"PURCHASE_IN">>
    <2>1. PICK t : call[w].posts = <<t>>
      BY <1>2 DEF Directed, Singles
    <2>2. Range(<<t>>) = {t}
      BY DEF Range
    <2> QED
      BY <1>1, <2>1, <2>2
  <1>4. Op(w, "receive") /\ call[w].doc = ReceiptDoc(w)
    BY <1>2, <1>3 DEF ReceiptPlan, Receives
  <1>5. pc[w] = "section"
    <2>1. pc[w] \in {"section", "undoing"}
      BY <1>1, <1>2, OutsideFinished
    <2> QED
      BY <1>2, <1>4, <2>1 DEF ReceiptPlan, Op, At
  <1>6. 1 \in ToReceive(w) /\ call[w].key = calls[w][1].key
    BY <1>2, <1>4 DEF ReceiptPlan, ToReceive
  <1> QED
    BY <1>1, <1>2, <1>4, <1>5, <1>6 DEF NotReceivedYet, Shown, Running

\* No document is recorded again, and none is about to be.
LEMMA RecordedOnce ==
  ASSUME ReceiptsApart, TypeOK, CallsInv, ReceiveInv, ShownOnce("PURCHASE_IN", movements)
  PROVE  ReceiptRecordedOnce
  <1>1. ASSUME NEW v \in Receiving, NEW w \in Receiving, call[v].doc = call[w].doc
        PROVE  v = w
    <2>1. v # w => {v, w} \subseteq InboundConsumer
      BY <1>1, ReceivingLine DEF ReceiptsApart
    <2> QED
      BY <2>1, ReceivingLine DEF ReceiveInv, OneDelivery
  <1> QED
    BY <1>1, ReceivingLine DEF ReceiptRecordedOnce

\* While no statement fails and no process dies, what has been added to the
\* balances is what the ledger shows as received and what a worker is about to
\* insert, and no document is twice among these (service.go:296-302, 319-325):
\* no balance receives a document twice, even if locks expire early, if the
\* documents more than one receipt asks for come through the queue and nobody
\* sets a balance by hand.
THEOREM RequestsReceivedOnce ==
  ASSUME ReceiptsApart, IsFiniteSet(Worker), Faults \cap {"db", "crash"} = {},
         \A w \in Worker : ~ Op(w, "set")
  PROVE  Spec => [](ReceiptRecordedOnce /\ LedgerExact)
  <1> DEFINE Once == ShownOnce("PURCHASE_IN", movements)
  <1>1. Init => ReceiveInv /\ Once
    <2> SUFFICES ASSUME Init PROVE ReceiveInv /\ Once
      OBVIOUS
    <2>1. /\ \A w \in Worker : pc[w] = "waiting" /\ calls[w] = <<>> /\ stage[w] = "idle"
          /\ movements = <<>> /\ InboundConsumer \subseteq Worker
      BY RequestsAssumption DEF Init, SectionInit
    <2>2. \A w \in Worker : DOMAIN calls[w] = {} /\ Lines(w) = {}
      BY <2>1 DEF Lines
    <2>3. DOMAIN movements = {}
      BY <2>1
    <2> QED
      BY <2>1, <2>2, <2>3 DEF ReceiveInv, OneDelivery, Running, ReceiptPlan, NotReceivedYet,
                              Unfinished, At, ShownOnce
  <1>2. TypeOK /\ CallsInv /\ ReceiveInv /\ [Next]_vars => ReceiveInv'
    BY ReceiveStep
  <1>3. TypeOK /\ CallsInv /\ ReceiveInv /\ Once /\ [Next]_vars => Once'
    <2> SUFFICES ASSUME TypeOK, CallsInv, ReceiveInv, Once, [Next]_vars
                 PROVE  Once'
      OBVIOUS
    <2>1. CASE UNCHANGED movements
      BY <2>1 DEF ShownOnce
    <2>2. ASSUME NEW w \in Worker, Submit(w) \/ HandlerStep(w), PostMovement(w)
          PROVE  Once'
      <3>1. PICK m :
               /\ movements' = Append(movements, m)
               /\ m.type = "PURCHASE_IN" =>
                    /\ Op(w, "receive") /\ pc[w] = "section" /\ 1 \in ToReceive(w)
                    /\ m.doc = ReceiptDoc(w) /\ m.key = calls[w][1].key
        BY <2>2, PostReceives
      <3>2. /\ DOMAIN movements' = DOMAIN movements \cup {Len(movements) + 1}
            /\ movements'[Len(movements) + 1] = m
            /\ \A j \in DOMAIN movements : movements'[j] = movements[j]
        BY <3>1, LedgerGrows DEF TypeOK, RepoTypeOK
      <3>3. \A j \in DOMAIN movements :
              m.type = "PURCHASE_IN" /\ movements[j].type = "PURCHASE_IN"
                /\ movements[j].doc = m.doc => movements[j].key # m.key
        BY <3>1 DEF ReceiveInv, NotReceivedYet
      <3> QED
        BY <3>2, <3>3 DEF ShownOnce
    <2>3. CASE \E n \in LockName : LockExpires(n)
      BY <2>1, <2>3 DEF LockExpires, repoVars
    <2>4. ASSUME NEW w \in Worker, Submit(w) \/ HandlerStep(w) \/ Crash(w), ~ PostMovement(w)
          PROVE  Once'
      BY <2>1, <2>4, LedgerStays
    <2>5. ASSUME NEW w \in Worker, Crash(w) PROVE Once'
      BY <2>1, <2>5 DEF Crash, repoVars
    <2>6. CASE UNCHANGED vars
      BY <2>1, <2>6 DEF vars, repoVars
    <2> QED
      BY <2>2, <2>3, <2>4, <2>5, <2>6 DEF Next
  <1>4. Init => CallsInv
    BY InitCalls
  <1>5. TypeOK /\ CallsInv /\ [Next]_vars => CallsInv'
    BY CallsStep
  <1>6. TypeOK /\ CallsInv /\ ReceiveInv /\ Once => ReceiptRecordedOnce
    BY RecordedOnce
  <1>7. Spec => []LedgerExact
    BY RequestsLedger
  <1> QED
    BY <1>1, <1>2, <1>3, <1>4, <1>5, <1>6, <1>7, RequestsTypeCorrect, PTL DEF Spec

(***************************************************************************)
(* Transfers                                                               *)
(***************************************************************************)

\* The inductive form: what the transfers under way have taken from an origin
\* and put nowhere yet is not in stock either; a transfer makes its two calls in
\* order, and the credit to its origin, and nobody else inserts a TRANSFER_IN.
Changed(w) == stage[w] \in {"post", "read", "cache", "unlock", "ok"}
Underway(w) ==
  \/ At(w, "loop") /\ Len(calls[w]) = 1
  \/ At(w, "section") /\ (Changed(w) <=> Len(calls[w]) = 2)
  \/ At(w, "undo")
  \/ At(w, "undoing") /\ ~Changed(w)
Carriers(p) == {w \in Worker : Op(w, "transfer") /\ Request[w].product = p /\ Underway(w)}
InTransit(p) == SumFunction([w \in Carriers(p) |-> Request[w].qty])
Carries(w) ==
  /\ pc[w] \in {"loop", "section"} => calls[w] \in {CallsOf(w), Tail(CallsOf(w)), <<>>}
  /\ At(w, "undoing") => Request[w].qty > 0
  /\ Unfinished(w) => call[w] = IF At(w, "section") THEN Head(calls[w]) ELSE Undoing(w)
BringsNoTransfer(w) ==
  /\ \A i \in DOMAIN calls[w] : calls[w][i].posts # <<"TRANSFER_IN">>
  /\ Unfinished(w) => call[w].posts # <<"TRANSFER_IN">>
TransferPlan(w) == IF Op(w, "transfer") THEN Carries(w) ELSE BringsNoTransfer(w)
TransitInv ==
  \A p \in Product :
    TotalStock(p) + InTransit(p) <= TotalOpening(p) + Accounted(KeysOf(p), EntryTypes)

\* The two calls of a transfer.
LEMMA TransferCalls ==
  ASSUME NEW w \in Worker, Op(w, "transfer")
  PROVE  LET out == Transfer(w, "TRANSFER_OUT", Request[w].from)
             in == Transfer(w, "TRANSFER_IN", Request[w].to)
         IN  /\ CallsOf(w) = <<out, in>> /\ Tail(CallsOf(w)) = <<in>>
             /\ Tail(<<in>>) = <<>>
             /\ Len(CallsOf(w)) = 2 /\ Len(<<in>>) = 1
             /\ Head(CallsOf(w)) = out /\ Head(<<in>>) = in
             /\ Request[w].qty \in Int /\ Request[w].product \in Product
             /\ Request[w].from \in Warehouse /\ Request[w].to \in Warehouse
             /\ out.qty = Request[w].qty /\ in.qty = Request[w].qty
             /\ out.change = "remove" /\ in.change = "add" /\ Undoing(w).change = "add"
             /\ Undoing(w).qty = Request[w].qty
             /\ out.key = <<Request[w].product, Request[w].from>>
             /\ Undoing(w).key = <<Request[w].product, Request[w].from>>
             /\ in.key = <<Request[w].product, Request[w].to>>
             /\ out.posts = <<"TRANSFER_OUT">> /\ in.posts = <<"TRANSFER_IN">>
             /\ Undoing(w).posts = <<"TRANSFER_IN">>
  <1> DEFINE out == Transfer(w, "TRANSFER_OUT", Request[w].from)
             in == Transfer(w, "TRANSFER_IN", Request[w].to)
  <1>1. CallsOf(w) = <<out, in>>
    BY DEF CallsOf, Op
  <1>2. /\ out.qty = Request[w].qty /\ in.qty = Request[w].qty
        /\ out.change = "remove" /\ in.change = "add" /\ Undoing(w).change = "add"
        /\ Undoing(w).qty = Request[w].qty
        /\ out.key = <<Request[w].product, Request[w].from>>
        /\ Undoing(w).key = <<Request[w].product, Request[w].from>>
        /\ in.key = <<Request[w].product, Request[w].to>>
        /\ out.posts = <<"TRANSFER_OUT">> /\ in.posts = <<"TRANSFER_IN">>
        /\ Undoing(w).posts = <<"TRANSFER_IN">>
    BY DEF Transfer, ApplyCall, Undoing, AddTypes
  <1>3. /\ Request[w].qty \in Int /\ Request[w].product \in Product
        /\ Request[w].from \in Warehouse /\ Request[w].to \in Warehouse
    <2>1. RequestOK(Request[w])
      BY RequestsAssumption
    <2> QED
      BY <2>1 DEF RequestOK, Op
  <1> HIDE DEF out, in
  <1>4. /\ Tail(<<out, in>>) = <<in>> /\ Tail(<<in>>) = <<>> /\ Len(<<out, in>>) = 2
        /\ Len(<<in>>) = 1 /\ Head(<<out, in>>) = out /\ Head(<<in>>) = in
    OBVIOUS
  <1> QED
    BY <1>1, <1>2, <1>3, <1>4 DEF out, in

\* Nobody else calls for a TRANSFER_IN.
LEMMA OtherCalls ==
  ASSUME NEW w \in Worker, ~ Op(w, "transfer"), Accepted(w)
  PROVE  \A i \in DOMAIN CallsOf(w) : CallsOf(w)[i].posts # <<"TRANSFER_IN">>
  <1>1. RequestOK(Request[w])
    BY RequestsAssumption
  <1>2. CASE Request[w].op = "movement"
    BY <1>2 DEF CallsOf, ApplyCall
  <1>3. CASE Request[w].op = "receive"
    BY <1>3 DEF CallsOf, ApplyCall
  <1>4. CASE Request[w].op \in {"set", "delete"}
    BY <1>4 DEF CallsOf
  <1> QED
    BY <1>1, <1>2, <1>3, <1>4 DEF RequestOK, Op

\* The plan of a worker depends on its own list and call alone.
LEMMA TransferStays ==
  ASSUME NEW v \in Worker, TransferPlan(v), calls'[v] = calls[v], stage'[v] = stage[v],
         call'[v] = call[v], pc'[v] = pc[v]
  PROVE  TransferPlan(v)'
  <1>1. CallsOf(v)' = CallsOf(v) /\ Undoing(v)' = Undoing(v)
    BY DEF CallsOf, Undoing, Transfer, ApplyCall, ReceiptDoc
  <1>2. Carries(v) => Carries(v)'
    BY <1>1 DEF Carries, Unfinished, At
  <1>3. BringsNoTransfer(v) => BringsNoTransfer(v)'
    BY DEF BringsNoTransfer, Unfinished
  <1> QED
    BY <1>2, <1>3 DEF TransferPlan, Op

\* A transfer makes its calls in order.
LEMMA CarriesStep ==
  ASSUME TypeOK, CallsInv, NEW w \in Worker, Op(w, "transfer"), Carries(w),
         Submit(w) \/ HandlerStep(w) \/ Crash(w)
  PROVE  Carries(w)'
  <1>1. /\ DOMAIN calls = Worker /\ DOMAIN call = Worker
        /\ stage \in [Worker -> Stage] /\ pc \in [Worker -> Pc]
        /\ pc[w] \notin {"section", "undoing"} => ~ Unfinished(w)
        /\ pc[w] = "section" => calls[w] # <<>>
        /\ pc[w] = "undo" => Request[w].qty > 0
    BY OutsideFinished DEF TypeOK, SectionTypeOK, HandlersTypeOK, At
  <1>2. /\ Tail(Tail(CallsOf(w))) = <<>>
        /\ CallsOf(w)' = CallsOf(w) /\ Undoing(w)' = Undoing(w)
    <2>1. Tail(Tail(CallsOf(w))) = <<>>
      BY TransferCalls
    <2> QED
      BY <2>1 DEF CallsOf, Undoing, Transfer, ApplyCall, ReceiptDoc
  <1>3. CASE Submit(w) \/ Refuse(w) \/ SkipReceived(w) \/ LoopDone(w) \/ CheckUse(w)
             \/ Delete(w) \/ StatementFails(w) \/ SetBalance(w) \/ CacheSet(w)
             \/ NotConverted(w) \/ SectionErr(w) \/ UndoDone(w) \/ Crash(w)
    <2>1. pc'[w] \notin {"loop", "section", "undoing"}
      BY <1>1, <1>3
         DEF Submit, Refuse, SkipReceived, LoopDone, CheckUse, Delete, StatementFails,
             SetBalance, CacheSet, NotConverted, SectionErr, UndoDone, Crash, Jump, At,
             AfterCheck
    <2>2. ~ Unfinished(w)'
      BY <1>1, <1>3
         DEF Submit, Refuse, SkipReceived, LoopDone, CheckUse, Delete, StatementFails,
             SetBalance, CacheSet, NotConverted, SectionErr, UndoDone, Crash, At, AfterCheck,
             Return, Killed, Goto, Unfinished, sectionVars
    <2> QED
      BY <2>1, <2>2 DEF Carries, At
  <1>4. CASE Accept(w)
    <2>1. /\ calls'[w] = CallsOf(w) /\ pc'[w] # "undoing" /\ UNCHANGED stage
          /\ ~ Unfinished(w)
      BY <1>1, <1>4 DEF Accept, Jump, At, sectionVars
    <2> QED
      BY <1>2, <2>1 DEF Carries, Unfinished, At
  <1>5. CASE SkipLine(w) \/ SectionOk(w)
    <2>1. /\ pc'[w] = "loop" /\ ~ Unfinished(w)' /\ calls[w] # <<>>
          /\ calls'[w] = Tail(calls[w]) /\ pc[w] \in {"loop", "section"}
      BY <1>1, <1>5 DEF SkipLine, SectionOk, Return, Goto, Jump, At, sectionVars, Unfinished
    <2> QED
      BY <1>2, <2>1 DEF Carries, At
  <1>6. CASE NextCall(w)
    <2>1. /\ calls' = calls /\ pc'[w] = "section" /\ pc[w] = "loop"
          /\ call'[w] = Head(calls[w])
      BY <1>1, <1>6 DEF NextCall, Begin, Jump, Op, At
    <2> QED
      BY <1>2, <2>1 DEF Carries, At
  <1>7. CASE Undo(w)
    <2>1. pc'[w] = "undoing" /\ call'[w] = Undoing(w) /\ Request[w].qty > 0
      BY <1>1, <1>7 DEF Undo, Begin, Jump, At
    <2> QED
      BY <1>2, <2>1 DEF Carries, At
  <1>8. CASE InSection(w)
    <2>1. UNCHANGED <<calls, pc>> /\ (Unfinished(w)' => Unfinished(w) /\ call' = call)
      BY <1>8, SectionUnfinished DEF InSection, requestVars
    <2> QED
      BY <1>2, <2>1 DEF Carries, At
  <1> QED
    BY <1>3, <1>4, <1>5, <1>6, <1>7, <1>8 DEF HandlerStep

\* No other operation inserts a TRANSFER_IN.
LEMMA NoTransferStep ==
  ASSUME TypeOK, CallsInv, NEW w \in Worker, ~ Op(w, "transfer"), BringsNoTransfer(w),
         Submit(w) \/ HandlerStep(w) \/ Crash(w)
  PROVE  BringsNoTransfer(w)'
  <1>1. /\ DOMAIN calls = Worker /\ DOMAIN call = Worker /\ calls[w] \in Seq(Planned)
        /\ stage \in [Worker -> Stage] /\ pc \in [Worker -> Pc]
        /\ pc[w] \notin {"section", "undoing"} => ~ Unfinished(w)
        /\ pc[w] = "section" => calls[w] # <<>>
        /\ pc[w] # "undo"
    BY OutsideFinished DEF TypeOK, SectionTypeOK, HandlersTypeOK, At
  <1>2. CASE Submit(w) \/ Refuse(w) \/ SkipReceived(w) \/ LoopDone(w) \/ CheckUse(w)
             \/ Delete(w) \/ StatementFails(w) \/ SetBalance(w) \/ CacheSet(w)
    BY <1>2
       DEF Submit, Refuse, SkipReceived, LoopDone, CheckUse, Delete, StatementFails,
           SetBalance, CacheSet, sectionVars, BringsNoTransfer, Unfinished
  <1>3. CASE Accept(w)
    <2>1. /\ Accepted(w) /\ calls'[w] = CallsOf(w) /\ UNCHANGED stage /\ ~ Unfinished(w)
      BY <1>1, <1>3 DEF Accept, At, sectionVars
    <2> QED
      BY <2>1, OtherCalls DEF BringsNoTransfer, Unfinished
  <1>4. CASE NotConverted(w) \/ SectionErr(w) \/ UndoDone(w) \/ Crash(w)
    <2>1. ~ Unfinished(w)'
      BY <1>1, <1>4
         DEF NotConverted, SectionErr, UndoDone, Crash, Return, Killed, Goto, At,
             sectionVars, Unfinished
    <2>2. calls'[w] = <<>> \/ calls'[w] = calls[w]
      BY <1>1, <1>4 DEF NotConverted, SectionErr, UndoDone, Crash
    <2> QED
      BY <2>1, <2>2 DEF BringsNoTransfer
  <1>5. CASE SkipLine(w) \/ SectionOk(w)
    <2>1. ~ Unfinished(w)' /\ calls[w] # <<>> /\ calls'[w] = Tail(calls[w])
      BY <1>1, <1>5 DEF SkipLine, SectionOk, Return, Goto, At, sectionVars, Unfinished
    <2> QED
      BY <1>1, <2>1, ListLines DEF BringsNoTransfer
  <1>6. CASE NextCall(w)
    <2>1. /\ calls' = calls /\ calls[w] # <<>>
          /\ \E q : call'[w] \in {Head(calls[w]), [Head(calls[w]) EXCEPT !.qty = q]}
      BY <1>1, <1>6 DEF NextCall, Begin, HasLine
    <2>2. 1 \in DOMAIN calls[w] /\ Head(calls[w]) = calls[w][1] /\ calls[w][1] \in Planned
      BY <1>1, <2>1, ListLines
    <2>3. call'[w].posts = calls[w][1].posts
      BY <2>1, <2>2 DEF Planned
    <2> QED
      BY <2>1, <2>2, <2>3 DEF BringsNoTransfer
  <1>7. CASE InSection(w)
    <2>1. UNCHANGED calls /\ (Unfinished(w)' => Unfinished(w) /\ call' = call)
      BY <1>7, SectionUnfinished DEF InSection, requestVars
    <2> QED
      BY <2>1 DEF BringsNoTransfer
  <1>8. ~ Undo(w)
    BY <1>1 DEF Undo, At
  <1> QED
    BY <1>2, <1>3, <1>4, <1>5, <1>6, <1>7, <1>8 DEF HandlerStep

\* Every worker keeps to its calls.
LEMMA TransferPlanStep ==
  ASSUME TypeOK, CallsInv, \A w \in Worker : TransferPlan(w), [Next]_vars
  PROVE  \A w \in Worker : TransferPlan(w)'
  <1>1. CASE UNCHANGED vars \/ \E n \in LockName : LockExpires(n)
    <2>1. UNCHANGED <<calls, pc, stage, call>>
      BY <1>1 DEF LockExpires, vars, requestVars, sectionVars
    <2> QED
      BY <2>1, TransferStays
  <1>2. ASSUME NEW w \in Worker, Submit(w) \/ HandlerStep(w) \/ Crash(w), NEW v \in Worker
        PROVE  TransferPlan(v)'
    <2>1. CASE v = w
      BY <1>2, <2>1, CarriesStep, NoTransferStep DEF TransferPlan, Op
    <2>2. CASE v # w
      BY <1>2, <2>2, OtherHandlers, OneHandler, TransferStays
    <2> QED
      BY <2>1, <2>2
  <1> QED
    BY <1>1, <1>2 DEF Next

\* The part of one worker in what is in transit.
Carrying(w, p) == IF w \in Carriers(p) THEN Request[w].qty ELSE 0

\* A step of one worker changes only its own part.
LEMMA TransitMoves ==
  ASSUME IsFiniteSet(Worker), NEW w \in Worker, NEW p,
         \A v \in Worker \ {w} : Underway(v)' = Underway(v)
  PROVE  /\ InTransit(p)' = InTransit(p) - Carrying(w, p) + Carrying(w, p)'
         /\ InTransit(p) \in Int
         /\ Carrying(w, p) \in Int /\ Carrying(w, p)' \in Int
  <1> DEFINE f == [v \in Carriers(p) |-> Request[v].qty]
             g == [v \in Carriers(p)' |-> Request[v].qty]
  <1>1. \A v \in Worker : Op(v, "transfer") => Request[v].qty \in Int
    BY TransferCalls
  <1>2. IsFiniteSet(Carriers(p)) /\ IsFiniteSet(Carriers(p)')
    <2>1. Carriers(p) \subseteq Worker /\ Carriers(p)' \subseteq Worker
      BY DEF Carriers
    <2> QED
      BY <2>1, FS_Subset
  <1>3. \A v \in Carriers(p) \cup Carriers(p)' : Request[v].qty \in Int
    BY <1>1 DEF Carriers, Op
  <1>4. Carriers(p)' \ {w} = Carriers(p) \ {w}
    BY DEF Carriers, Op
  <1>5. /\ IsFiniteSet(DOMAIN f) /\ \A v \in DOMAIN f : f[v] \in Int
        /\ IsFiniteSet(DOMAIN g) /\ \A v \in DOMAIN g : g[v] \in Int
    BY <1>2, <1>3
  <1>6. DOMAIN g \ {w} = DOMAIN f \ {w} /\ \A v \in DOMAIN f \ {w} : g[v] = f[v]
    BY <1>4
  <1>7. Term(f, w) = Carrying(w, p) /\ Term(g, w) = Carrying(w, p)'
    BY DEF Term, Carrying
  <1>8. InTransit(p) = SumFunction(f) /\ InTransit(p)' = SumFunction(g)
    BY DEF InTransit
  <1> HIDE DEF f, g
  <1>9. /\ SumFunction(g) = SumFunction(f) - Term(f, w) + Term(g, w)
        /\ SumFunction(f) \in Int /\ Term(f, w) \in Int /\ Term(g, w) \in Int
    BY <1>5, <1>6, SumChanges
  <1> QED
    BY <1>7, <1>8, <1>9

\* The stock of a product moves with each of its balances.
LEMMA TotalMoves ==
  ASSUME RepoTypeOK, RepoTypeOK', IsFiniteSet(Warehouse), NEW p \in Product, NEW k \in Keys,
         \A l \in Keys \ {k} : avail'[l] = avail[l]
  PROVE  /\ TotalStock(p)' =
              TotalStock(p) + IF k \in KeysOf(p) THEN avail'[k] - avail[k] ELSE 0
         /\ TotalStock(p) \in Int
  <1> DEFINE f == [l \in KeysOf(p) |-> avail[l]]
             g == [l \in KeysOf(p) |-> avail'[l]]
  <1>1. TotalStock(p) = SumFunction(f) /\ TotalStock(p)' = SumFunction(g)
    BY DEF TotalStock, KeysOf
  <1>2. IsFiniteSet(KeysOf(p)) /\ KeysOf(p) \subseteq Keys
    <2>1. IsFiniteSet({p})
      BY FS_Singleton
    <2>2. IsFiniteSet({p} \X Warehouse)
      BY <2>1, FS_Product
    <2> QED
      BY <2>2 DEF KeysOf, Keys
  <1>3. /\ avail \in [Keys -> Nat] /\ avail' \in [Keys -> Nat]
    BY DEF RepoTypeOK
  <1>4. /\ IsFiniteSet(DOMAIN f) /\ \A l \in DOMAIN f : f[l] \in Int
        /\ IsFiniteSet(DOMAIN g) /\ \A l \in DOMAIN g : g[l] \in Int
    BY <1>2, <1>3
  <1>5. DOMAIN g \ {k} = DOMAIN f \ {k} /\ \A l \in DOMAIN f \ {k} : g[l] = f[l]
    BY <1>2
  <1>6. /\ Term(f, k) = IF k \in KeysOf(p) THEN avail[k] ELSE 0
        /\ Term(g, k) = IF k \in KeysOf(p) THEN avail'[k] ELSE 0
    BY DEF Term
  <1>7. avail[k] \in Int /\ avail'[k] \in Int
    BY <1>3
  <1> HIDE DEF f, g
  <1>8. /\ SumFunction(g) = SumFunction(f) - Term(f, k) + Term(g, k)
        /\ SumFunction(f) \in Int
    BY <1>4, <1>5, SumChanges
  <1> QED
    BY <1>1, <1>6, <1>7, <1>8

\* What there is of a product is a number.
LEMMA StockType ==
  ASSUME RepoTypeOK, IsFiniteSet(Warehouse), NEW p \in Product
  PROVE  TotalStock(p) \in Int
  <1> DEFINE f == [l \in KeysOf(p) |-> avail[l]]
  <1>1. IsFiniteSet(KeysOf(p))
    <2>1. IsFiniteSet({p})
      BY FS_Singleton
    <2> QED
      BY <2>1, FS_Product DEF KeysOf
  <1>2. IsFiniteSet(DOMAIN f) /\ \A l \in DOMAIN f : f[l] \in Nat
    BY <1>1 DEF RepoTypeOK, KeysOf, Keys
  <1> HIDE DEF f
  <1>3. SumFunction(f) \in Nat
    BY <1>2, SumNat
  <1> QED
    BY <1>3 DEF TotalStock, f

\* What there was at first is a number.
LEMMA OpeningType ==
  ASSUME IsFiniteSet(Warehouse), NEW p \in Product
  PROVE  TotalOpening(p) \in Int
  <1> DEFINE h == [l \in KeysOf(p) |-> OpeningQty(l)]
  <1>1. IsFiniteSet(KeysOf(p))
    <2>1. IsFiniteSet({p})
      BY FS_Singleton
    <2> QED
      BY <2>1, FS_Product DEF KeysOf
  <1>2. IsFiniteSet(DOMAIN h) /\ \A l \in DOMAIN h : h[l] \in Nat
    BY <1>1, RequestsAssumption DEF OpeningQty
  <1> HIDE DEF h
  <1>3. SumFunction(h) \in Nat
    BY <1>2, SumNat
  <1> QED
    BY <1>3 DEF TotalOpening, h

\* Nothing comes into transit but by the change of a balance.
LEMMA TransitQuiet ==
  ASSUME TypeOK, CallsInv, "db" \notin Faults, NEW w \in Worker, TransferPlan(w),
         Op(w, "transfer"), Submit(w) \/ HandlerStep(w), ~ ChangeBalance(w), Underway(w)'
  PROVE  Underway(w)
  <1>1. /\ DOMAIN calls = Worker /\ calls[w] \in Seq(Planned)
        /\ stage \in [Worker -> Stage] /\ pc \in [Worker -> Pc]
        /\ pc[w] \notin {"section", "undoing"} => stage[w] = "idle"
        /\ pc[w] \in {"loop", "section"} =>
             /\ calls[w] \in {CallsOf(w), Tail(CallsOf(w)), <<>>}
             /\ Request[w].qty > 0
        /\ pc[w] = "section" => calls[w] # <<>>
    BY DEF TypeOK, SectionTypeOK, HandlersTypeOK, At, TransferPlan, Carries
  <1>2. pc[w] \in {"loop", "section"} /\ calls[w] # <<>> =>
          /\ Len(calls[w]) \in {1, 2}
          /\ Len(Tail(calls[w])) = 1 <=> Len(calls[w]) = 2
          /\ Head(calls[w]).qty > 0
    <2>1. PICK out, in : /\ CallsOf(w) = <<out, in>>
                         /\ out.qty = Request[w].qty /\ in.qty = Request[w].qty
      BY TransferCalls
    <2>2. /\ Tail(<<out, in>>) = <<in>> /\ Len(<<out, in>>) = 2 /\ Head(<<out, in>>) = out
          /\ Tail(<<in>>) = <<>> /\ Len(<<in>>) = 1 /\ Head(<<in>>) = in /\ Len(<<>>) = 0
      OBVIOUS
    <2> QED
      BY <1>1, <2>1, <2>2
  <1>3. CASE Submit(w) \/ Refuse(w) \/ SkipReceived(w) \/ LoopDone(w) \/ CheckUse(w)
             \/ Delete(w) \/ StatementFails(w) \/ SetBalance(w) \/ CacheSet(w)
             \/ NotConverted(w) \/ UndoDone(w)
    BY <1>1, <1>3
       DEF Submit, Refuse, SkipReceived, LoopDone, CheckUse, Delete, StatementFails,
           SetBalance, CacheSet, NotConverted, UndoDone, Jump, At, AfterCheck, Underway
  <1>4. CASE Accept(w)
    <2>1. calls'[w] = CallsOf(w) /\ Len(CallsOf(w)) = 2
      BY <1>1, <1>4, TransferCalls DEF Accept
    <2> QED
      BY <1>1, <1>4, <2>1 DEF Accept, Jump, Op, At, Underway
  <1>5. CASE SkipLine(w)
    BY <1>2, <1>5 DEF SkipLine, HasLine, At
  <1>6. CASE SectionOk(w)
    <2>1. /\ pc[w] = "section" /\ pc'[w] = "loop" /\ calls'[w] = Tail(calls[w])
          /\ stage[w] = "ok"
      BY <1>1, <1>6 DEF SectionOk, Return, Jump, At
    <2> QED
      BY <1>1, <1>2, <2>1 DEF Underway, At, Changed
  <1>7. CASE SectionErr(w)
    <2>1. pc[w] = "section" /\ stage[w] = "err" /\ pc'[w] \in {"undo", "failed"}
          /\ (pc'[w] = "undo" => Len(calls[w]) = 1)
      BY <1>1, <1>7 DEF SectionErr, Return, Jump, At, ToUndo
    <2>2. Len(calls[w]) = 1
      BY <2>1 DEF Underway, At
    <2> QED
      BY <2>1, <2>2 DEF Underway, At, Changed
  <1>8. CASE NextCall(w)
    <2>1. /\ pc[w] = "loop" /\ pc'[w] = "section" /\ calls' = calls /\ calls[w] # <<>>
          /\ stage'[w] = "lock"
      BY <1>1, <1>8 DEF NextCall, HasLine, Begin, Goto, Jump, At
    <2> QED
      BY <1>2, <2>1 DEF Underway, At, Changed
  <1>9. CASE Undo(w)
    BY <1>9 DEF Undo, Underway
  <1>10. CASE InSection(w)
    <2>1. UNCHANGED <<calls, pc>> /\ SectionStep(w)
      BY <1>10 DEF InSection, requestVars
    <2>2. Changed(w)' <=> Changed(w)
      <3>1. stage[w] = "post" => Len(call[w].posts) = 1
        BY <1>1, DirectedPosts DEF CallsInv
      <3> QED
        BY <1>1, <2>1, <3>1
           DEF SectionStep, LockBalance, LockRefused, ChangeRefused, PostMovement, PostFails,
               Posted, ReadBalance, CacheSkipped, CacheBalance, Unlock, Goto, Changed
    <2> QED
      BY <2>1, <2>2 DEF Underway, At
  <1> QED
    BY <1>3, <1>4, <1>5, <1>6, <1>7, <1>8, <1>9, <1>10 DEF HandlerStep

\* What a call moves for the stock of a product, the transit and the account.
LEMMA ChangeTransit ==
  ASSUME TypeOK, TypeOK', CallsInv, IsFiniteSet(Worker), IsFiniteSet(Warehouse),
         \A v \in Worker : TransferPlan(v), TransitInv, NEW w \in Worker,
         InSection(w), ChangeBalance(w), NEW p \in Product
  PROVE  TotalStock(p)' + InTransit(p)'
           <= TotalOpening(p)' + Accounted(KeysOf(p), EntryTypes)'
  <1> DEFINE c == call[w]
             K == KeysOf(p)
             stock == TotalStock(p)
             transit == InTransit(p)
             entered == Accounted(K, EntryTypes)
  <1>1. /\ RepoTypeOK /\ RepoTypeOK' /\ SectionTypeOK({NoTag}) /\ SectionTypeOK({NoTag})'
        /\ c \in Call({NoTag}) /\ c.posts # <<>> /\ Directed(c)
        /\ stage \in [Worker -> Stage] /\ stage[w] = "change" /\ stage'[w] = "post"
        /\ call' = call /\ pc' = pc /\ calls' = calls
    BY DEF TypeOK, SectionTypeOK, ChangeBalance, CallsInv, InSection, requestVars, Goto
  <1>2. c.key \in Keys /\ c.qty \in Nat /\ c.change \in {"add", "remove"}
    BY <1>1, DirectedPosts DEF Call
  <1>3. /\ stock' = stock + IF c.key \in K THEN avail'[c.key] - avail[c.key] ELSE 0
        /\ stock \in Int
    <2>1. PICK k \in Keys : k = c.key
      BY <1>2
    <2>2. \A l \in Keys \ {k} : avail'[l] = avail[l]
      BY <1>1, <2>1 DEF ChangeBalance, AddAvailable, RemoveAvailable, ConfirmSale, RepoTypeOK
    <2>3. k \in KeysOf(p)' <=> k \in K
      BY DEF KeysOf
    <2>4. /\ stock' = stock + IF k \in K THEN avail'[k] - avail[k] ELSE 0
          /\ stock \in Int
      BY <1>1, <2>2, TotalMoves
    <2> QED
      BY <2>1, <2>4
  <1>4. /\ c.change = "add" => avail'[c.key] - avail[c.key] = c.qty
        /\ c.change = "remove" => avail'[c.key] - avail[c.key] = 0 - c.qty
    <2>1. avail \in [Keys -> Nat]
      BY <1>1 DEF RepoTypeOK
    <2>2. c.change = "add" => avail' = [avail EXCEPT ![c.key] = @ + c.qty]
      BY DEF ChangeBalance, AddAvailable
    <2>3. c.change = "remove" => avail' = [avail EXCEPT ![c.key] = @ - c.qty]
      BY DEF ChangeBalance, RemoveAvailable
    <2>4. avail[c.key] \in Nat /\ c.qty \in Nat
      BY <1>2, <2>1
    <2> HIDE DEF c
    <2> QED
      BY <1>2, <2>1, <2>2, <2>3, <2>4
  <1>5. /\ transit' = transit - Carrying(w, p) + Carrying(w, p)'
        /\ transit \in Int /\ Carrying(w, p) \in Int /\ Carrying(w, p)' \in Int
    <2>1. \A v \in Worker \ {w} : stage'[v] = stage[v]
      BY <1>1, OneWorker
    <2>2. \A v \in Worker \ {w} : Underway(v)' = Underway(v)
      BY <1>1, <2>1 DEF Underway, At, Changed
    <2> QED
      BY <2>2, TransitMoves
  <1>6. /\ entered' = entered + IF Counts(c, K, EntryTypes) THEN c.qty ELSE 0
        /\ entered \in Nat
    BY <1>1, ChangeAccounted, AccountedType DEF KeysOf
  <1>7. stock + transit <= TotalOpening(p) + entered /\ TotalOpening(p) \in Int
        /\ TotalOpening(p)' = TotalOpening(p)
    BY OpeningType DEF TransitInv, TotalOpening, KeysOf, OpeningQty
  <1> SUFFICES stock' + transit' <= TotalOpening(p) + entered'
    BY <1>7
  <1>8. CASE Op(w, "transfer")
    <2> DEFINE part == IF c.key \in K THEN c.qty ELSE 0
    <2>1. /\ pc[w] \in {"section", "undoing"} /\ Unfinished(w)
          /\ pc[w] = "section" => calls[w] \in {CallsOf(w), Tail(CallsOf(w))}
          /\ c = IF pc[w] = "section" THEN Head(calls[w]) ELSE Undoing(w)
      BY <1>1, <1>8 DEF TypeOK, HandlersTypeOK, InSection, TransferPlan, Carries, Unfinished, At
    <2> DEFINE out == Transfer(w, "TRANSFER_OUT", Request[w].from)
               in == Transfer(w, "TRANSFER_IN", Request[w].to)
    <2>2. /\ CallsOf(w) = <<out, in>> /\ Tail(CallsOf(w)) = <<in>>
          /\ out.qty = Request[w].qty /\ in.qty = Request[w].qty
          /\ out.change = "remove" /\ in.change = "add" /\ Undoing(w).change = "add"
          /\ Undoing(w).qty = Request[w].qty
          /\ out.key = <<Request[w].product, Request[w].from>>
          /\ Undoing(w).key = <<Request[w].product, Request[w].from>>
          /\ in.key = <<Request[w].product, Request[w].to>>
          /\ out.posts = <<"TRANSFER_OUT">> /\ in.posts = <<"TRANSFER_IN">>
          /\ Undoing(w).posts = <<"TRANSFER_IN">>
      BY <1>8, TransferCalls
    <2> HIDE DEF out, in
    <2>3. /\ Len(<<out, in>>) = 2 /\ Head(<<out, in>>) = out
          /\ Len(<<in>>) = 1 /\ Head(<<in>>) = in
      OBVIOUS
    <2>4. /\ c.qty = Request[w].qty
          /\ \E wh : c.key = <<Request[w].product, wh>>
          /\ c.posts \in {<<"TRANSFER_OUT">>, <<"TRANSFER_IN">>}
          /\ c.change = "remove" <=> pc[w] = "section" /\ Len(calls[w]) = 2
      BY <2>1, <2>2, <2>3
    <2>5. c.key \in K <=> Request[w].product = p
      BY <1>2, <2>4 DEF KeysOf, Keys
    <2>6. ~ Counts(c, K, EntryTypes)
      <3>1. Range(<<"TRANSFER_OUT">>) = {"TRANSFER_OUT"} /\ Range(<<"TRANSFER_IN">>) = {"TRANSFER_IN"}
        BY DEF Range
      <3> QED
        BY <2>4, <3>1 DEF Counts, EntryTypes
    <2>7. /\ Underway(w) <=> c.change = "add"
          /\ Underway(w)' <=> c.change = "remove"
      BY <1>1, <1>2, <2>1, <2>4 DEF Underway, Changed, At
    <2>8. /\ Carrying(w, p) = IF c.change = "add" THEN part ELSE 0
          /\ Carrying(w, p)' = IF c.change = "remove" THEN part ELSE 0
      BY <1>8, <2>4, <2>5, <2>7 DEF Carrying, Carriers, Op
    <2>9. /\ stock' = IF c.change = "add" THEN stock + part ELSE stock - part
          /\ part \in Nat
      BY <1>2, <1>3, <1>4
    <2>10. entered' = entered
      BY <1>6, <2>6
    <2> HIDE DEF part, stock, transit, entered, c
    <2> QED
      BY <1>2, <1>3, <1>5, <1>6, <1>7, <2>8, <2>9, <2>10
  <1>9. CASE ~ Op(w, "transfer")
    <2>1. Carrying(w, p) = 0 /\ Carrying(w, p)' = 0
      BY <1>9 DEF Carrying, Carriers, Op
    <2>2. c.posts # <<"TRANSFER_IN">>
      BY <1>1, <1>9 DEF TransferPlan, BringsNoTransfer, Unfinished
    <2>3. c.change = "add" /\ c.key \in K => Counts(c, K, EntryTypes)
      <3> SUFFICES ASSUME c.change = "add", c.key \in K PROVE Counts(c, K, EntryTypes)
        OBVIOUS
      <3>1. PICK t \in AddTypes : c.posts = <<t>>
        BY <1>1 DEF Directed, Singles
      <3>2. t \in EntryTypes
        BY <2>2, <3>1 DEF AddTypes, EntryTypes
      <3>3. Range(c.posts) = {t}
        BY <3>1 DEF Range
      <3> QED
        BY <3>2, <3>3 DEF Counts
    <2>4. CASE c.change = "add" /\ c.key \in K
      <3>1. stock' = stock + c.qty /\ entered' = entered + c.qty
        BY <1>3, <1>4, <1>6, <2>3, <2>4
      <3> HIDE DEF c, stock, transit, entered
      <3> QED
        BY <1>2, <1>3, <1>5, <1>6, <1>7, <2>1, <3>1
    <2>5. CASE ~ (c.change = "add" /\ c.key \in K)
      <3>1. stock' <= stock /\ stock' \in Int
        BY <1>2, <1>3, <1>4, <2>5
      <3>2. entered' >= entered /\ entered' \in Int
        BY <1>2, <1>6
      <3> HIDE DEF c, stock, transit, entered
      <3> QED
        BY <1>3, <1>5, <1>6, <1>7, <2>1, <3>1, <3>2
    <2> QED
      BY <2>4, <2>5
  <1> QED
    BY <1>8, <1>9

\* What is in stock, in transit and accounted for stays in proportion.
LEMMA TransitStep ==
  ASSUME IsFiniteSet(Worker), IsFiniteSet(Warehouse), Faults \cap {"db", "crash"} = {},
         \A w \in Worker : ~ Op(w, "set"),
         TypeOK, TypeOK', CallsInv, \A v \in Worker : TransferPlan(v), TransitInv, [Next]_vars
  PROVE  TransitInv'
  <1>1. ASSUME UNCHANGED vars \/ \E n \in LockName : LockExpires(n), NEW p \in Product
        PROVE  TotalStock(p)' + InTransit(p)'
                 <= TotalOpening(p)' + Accounted(KeysOf(p), EntryTypes)'
    <2>1. UNCHANGED <<movements, avail, stage, call, calls, pc>>
      BY <1>1 DEF LockExpires, vars, repoVars, requestVars, sectionVars
    <2>2. TotalStock(p)' = TotalStock(p) /\ TotalOpening(p)' = TotalOpening(p)
      BY <2>1 DEF TotalStock, TotalOpening, OpeningQty, KeysOf
    <2>3. \A v \in Worker : Underway(v)' = Underway(v)
      BY <2>1 DEF Underway, Changed, At
    <2>4. Carriers(p)' = Carriers(p)
      BY <2>3 DEF Carriers, Op
    <2>5. InTransit(p)' = InTransit(p)
      BY <2>4 DEF InTransit
    <2>6. Accounted(KeysOf(p), EntryTypes)' = Accounted(KeysOf(p), EntryTypes)
      BY <2>1 DEF Accounted, Moved, Entries, UnpostedQty, Unposted, KeysOf
    <2> QED
      BY <2>2, <2>5, <2>6 DEF TransitInv
  <1>2. ASSUME NEW w \in Worker, Submit(w) \/ HandlerStep(w), NEW p \in Product
        PROVE  TotalStock(p)' + InTransit(p)'
                 <= TotalOpening(p)' + Accounted(KeysOf(p), EntryTypes)'
    <2>1. ~ SetBalance(w)
      BY DEF SetBalance, TypeOK, HandlersTypeOK, At
    <2>2. CASE ChangeBalance(w)
      <3>1. InSection(w)
        BY <1>2, <2>2, SectionIsNext DEF ChangeBalance
      <3> QED
        BY <2>2, <3>1, ChangeTransit
    <2>3. CASE ~ ChangeBalance(w)
      <3>1. /\ Accounted(KeysOf(p), EntryTypes)' = Accounted(KeysOf(p), EntryTypes)
            /\ avail' = avail
        BY <1>2, <2>1, <2>3, AccountsStay DEF KeysOf
      <3>2. TotalStock(p)' = TotalStock(p) /\ TotalOpening(p)' = TotalOpening(p)
        BY <3>1 DEF TotalStock, TotalOpening, KeysOf, OpeningQty
      <3>3. /\ InTransit(p)' = InTransit(p) - Carrying(w, p) + Carrying(w, p)'
            /\ InTransit(p) \in Int /\ Carrying(w, p) \in Int /\ Carrying(w, p)' \in Int
        <4>1. \A v \in Worker \ {w} :
                /\ pc'[v] = pc[v] /\ calls'[v] = calls[v] /\ stage'[v] = stage[v]
          BY <1>2, OtherHandlers, OneHandler
        <4>2. \A v \in Worker \ {w} : Underway(v)' = Underway(v)
          BY <4>1 DEF Underway, At, Changed
        <4> QED
          BY <4>2, TransitMoves
      <3>4. Carrying(w, p)' <= Carrying(w, p)
        <4>1. CASE w \in Carriers(p)'
          <5>1. Op(w, "transfer") /\ Underway(w)'
            BY <4>1 DEF Carriers, Op
          <5>2. Underway(w)
            BY <1>2, <2>3, <5>1, TransitQuiet
          <5>3. w \in Carriers(p)
            BY <4>1, <5>2 DEF Carriers, Op
          <5> QED
            BY <3>3, <4>1, <5>3 DEF Carrying
        <4>2. CASE w \notin Carriers(p)' /\ w \in Carriers(p)
          <5>1. Op(w, "transfer") /\ Underway(w)
            BY <4>2 DEF Carriers
          <5>2. Request[w].qty > 0
            BY <5>1 DEF Underway, TypeOK, HandlersTypeOK, TransferPlan, Carries, At
          <5> QED
            BY <3>3, <4>2, <5>2 DEF Carrying
        <4>3. CASE w \notin Carriers(p)' /\ w \notin Carriers(p)
          BY <4>3 DEF Carrying
        <4> QED
          BY <4>1, <4>2, <4>3
      <3>5. TotalStock(p) + InTransit(p) <= TotalOpening(p) + Accounted(KeysOf(p), EntryTypes)
        BY DEF TransitInv
      <3>6. TotalOpening(p) \in Int /\ TotalStock(p) \in Int
            /\ Accounted(KeysOf(p), EntryTypes) \in Int
        BY OpeningType, StockType, AccountedType DEF TypeOK
      <3> QED
        BY <3>1, <3>2, <3>3, <3>4, <3>5, <3>6
    <2> QED
      BY <2>2, <2>3
  <1> QED
    BY <1>1, <1>2 DEF Next, Crash, TransitInv

\* Transfers never create stock (service.go:262-287), whatever their number,
\* for any requests but balances set by hand, while no statement fails and no
\* process dies, even if locks expire early.
THEOREM RequestsTransfers ==
  ASSUME IsFiniteSet(Worker), IsFiniteSet(Warehouse), Faults \cap {"db", "crash"} = {},
         \A w \in Worker : ~ Op(w, "set")
  PROVE  Spec => []TransfersCreateNothing
  <1> DEFINE Plans == \A w \in Worker : TransferPlan(w)
  <1>1. Init => Plans /\ TransitInv
    <2> SUFFICES ASSUME Init PROVE Plans /\ TransitInv
      OBVIOUS
    <2>1. /\ \A w \in Worker : pc[w] = "waiting" /\ calls[w] = <<>> /\ stage[w] = "idle"
          /\ movements = <<>>
      BY DEF Init, SectionInit
    <2>2. Plans
      BY <2>1 DEF TransferPlan, Carries, BringsNoTransfer, Unfinished, At
    <2>3. ASSUME NEW p \in Product
          PROVE  TotalStock(p) + InTransit(p)
                   <= TotalOpening(p) + Accounted(KeysOf(p), EntryTypes)
      <3>1. Carriers(p) = {}
        BY <2>1 DEF Carriers, Underway, At
      <3>2. InTransit(p) = 0
        BY <3>1, SumEmpty DEF InTransit
      <3>3. Accounted(KeysOf(p), EntryTypes) = 0
        <4>1. DOMAIN movements = {}
          BY <2>1
        <4>2. /\ Entries(KeysOf(p), EntryTypes) = {}
              /\ Unposted(KeysOf(p), EntryTypes) = {}
          BY <2>1, <4>1 DEF Entries, Unposted
        <4> QED
          BY <4>2, NothingAccounted
      <3>4. TotalStock(p) = TotalOpening(p)
        <4>1. \A k \in KeysOf(p) : avail[k] = OpeningQty(k)
          BY DEF Init, OpeningQty, KeysOf, Keys
        <4> QED
          BY <4>1 DEF TotalStock, TotalOpening
      <3>5. TotalOpening(p) \in Int
        BY OpeningType
      <3> QED
        BY <3>2, <3>3, <3>4, <3>5
    <2> QED
      BY <2>2, <2>3 DEF TransitInv
  <1>2. TypeOK /\ CallsInv /\ Plans /\ [Next]_vars => Plans'
    BY TransferPlanStep
  <1>3. TypeOK /\ TypeOK' /\ CallsInv /\ Plans /\ TransitInv /\ [Next]_vars => TransitInv'
    BY TransitStep
  <1>4. TypeOK /\ Plans /\ TransitInv => TransfersCreateNothing
    <2> SUFFICES ASSUME TypeOK, Plans, TransitInv, NEW p \in Product
                 PROVE  TotalStock(p) <= TotalOpening(p) + Accounted(KeysOf(p), EntryTypes)
      BY DEF TransfersCreateNothing
    <2>1. InTransit(p) \in Nat
      <3> DEFINE f == [w \in Carriers(p) |-> Request[w].qty]
      <3>1. \A w \in Carriers(p) : Request[w].qty \in Nat
        BY TransferCalls DEF Carriers, Underway, TypeOK, HandlersTypeOK, TransferPlan, Carries, At
      <3>2. Carriers(p) \subseteq Worker
        BY DEF Carriers
      <3>3. IsFiniteSet(DOMAIN f) /\ \A w \in DOMAIN f : f[w] \in Nat
        BY <3>1, <3>2, FS_Subset
      <3> HIDE DEF f
      <3>4. SumFunction(f) \in Nat
        BY <3>3, SumNat
      <3> QED
        BY <3>4 DEF InTransit, f
    <2>2. TotalOpening(p) \in Int /\ TotalStock(p) \in Int
          /\ Accounted(KeysOf(p), EntryTypes) \in Int
      BY OpeningType, StockType, AccountedType DEF TypeOK
    <2> QED
      BY <2>1, <2>2 DEF TransitInv
  <1>5. Init => CallsInv
    BY InitCalls
  <1>6. TypeOK /\ CallsInv /\ [Next]_vars => CallsInv'
    BY CallsStep
  <1> QED
    BY <1>1, <1>2, <1>3, <1>4, <1>5, <1>6, RequestsTypeCorrect, PTL DEF Spec

(***************************************************************************)
(* What is answered with success is in the ledger                          *)
(***************************************************************************)

\* The inductive form of AnsweredIsRecorded: what a handler has left to call is the end of its list
\* of calls, what it is calling is the first of these, and while nobody else
\* writes under its document, the lines behind it are in the ledger once and
\* those before it are not.
DocOf(w) ==
  CASE Op(w, "transfer") -> <<"TRANSFER", Request[w].ref>>
    [] Op(w, "receive") -> ReceiptDoc(w)
    [] OTHER -> <<"MANUAL", NoDoc>>
CallFor(w, c) ==
  IF Op(w, "receive") THEN [c EXCEPT !.qty = StockQty(c.key[1], c.qty)] ELSE c
MovementOf(c) == [type |-> Head(c.posts), key |-> c.key, qty |-> c.qty, doc |-> c.doc]
Past(w) == Len(CallsOf(w)) - Len(calls[w])
ListPlan(w) ==
  /\ At(w, "waiting") <=> tries[w] = 0
  /\ pc[w] \notin {"loop", "section"} => calls[w] = <<>>
  /\ Len(calls[w]) <= Len(CallsOf(w))
  /\ \A i \in DOMAIN calls[w] : calls[w][i] = CallsOf(w)[Past(w) + i]
  /\ Unfinished(w) =>
       IF At(w, "section") THEN HasLine(w) /\ call[w] = CallFor(w, Head(calls[w]))
                           ELSE call[w] = Undoing(w)
  /\ pc[w] \in {"undo", "undoing"} => Op(w, "transfer")
  /\ pc[w] \in {"delete"} \cup DOMAIN AfterCheck => Op(w, "delete")
  /\ At(w, "ok") /\ Op(w, "transfer") => Request[w].qty > 0
OwnDocs == \A j \in DOMAIN movements : \E v \in Worker : tries[v] > 0 /\ movements[j].doc = DocOf(v)
RowsOf(m) == {j \in DOMAIN movements : movements[j] = m}
Wanted(w) == {i \in DOMAIN CallsOf(w) : CallsOf(w)[i].qty > 0}
Wants(w, i) == MovementOf(CallFor(w, CallsOf(w)[i]))
Recorded(w, i) ==
  \/ i <= Past(w)
  \/ i = Past(w) + 1 /\ At(w, "section") /\ stage[w] \in {"read", "cache", "unlock", "ok"}
Sole(w) ==
  /\ tries[w] = 1 /\ (Op(w, "transfer") \/ Op(w, "receive"))
  /\ \A v \in Worker \ {w} : DocOf(v) = DocOf(w) => tries[v] = 0
RecordPlan(w) ==
  Sole(w) =>
    /\ At(w, "start") => \A j \in DOMAIN movements : movements[j].doc # DocOf(w)
    /\ pc[w] \in {"loop", "section", "ok"} =>
         \A i \in Wanted(w) :
           IF Recorded(w, i) THEN \E j \in DOMAIN movements : RowsOf(Wants(w, i)) = {j}
                             ELSE RowsOf(Wants(w, i)) = {}
RecordInv == OwnDocs /\ \A w \in Worker : ListPlan(w) /\ RecordPlan(w)

\* What a request asks for does not change.
LEMMA PlansConstant ==
  ASSUME NEW w \in Worker
  PROVE  /\ CallsOf(w)' = CallsOf(w) /\ DocOf(w)' = DocOf(w) /\ Undoing(w)' = Undoing(w)
         /\ Wanted(w)' = Wanted(w)
         /\ \A i : Wants(w, i)' = Wants(w, i)
         /\ \A c : CallFor(w, c)' = CallFor(w, c)
  <1>1. /\ CallsOf(w)' = CallsOf(w) /\ DocOf(w)' = DocOf(w) /\ Undoing(w)' = Undoing(w)
        /\ \A c : CallFor(w, c)' = CallFor(w, c)
    BY DEF CallsOf, Undoing, Transfer, ApplyCall, ReceiptDoc, DocOf, CallFor, Op, StockQty
  <1>2. Wanted(w)' = Wanted(w)
    BY <1>1 DEF Wanted
  <1>3. \A i : Wants(w, i)' = Wants(w, i)
    BY <1>1 DEF Wants, MovementOf
  <1> QED
    BY <1>1, <1>2, <1>3

\* Every call of a list inserts one movement, under the document of the request,
\* and returns the error when it cannot.
LEMMA CallLines ==
  ASSUME NEW w \in Worker
  PROVE  /\ Len(CallsOf(w)) \in Nat /\ DOMAIN CallsOf(w) = 1 .. Len(CallsOf(w))
         /\ \A i \in DOMAIN CallsOf(w) :
              /\ CallsOf(w)[i].doc = DocOf(w) /\ CallsOf(w)[i].strict
              /\ "qty" \in DOMAIN CallsOf(w)[i] /\ "doc" \in DOMAIN CallsOf(w)[i]
         /\ Undoing(w).doc = <<"TRANSFER", Request[w].ref>> /\ Undoing(w).strict
  <1> DEFINE r == Request[w]
             Single(c) == c.doc = DocOf(w) /\ c.strict /\ "qty" \in DOMAIN c /\ "doc" \in DOMAIN c
  <1>1. RequestOK(r)
    BY RequestsAssumption
  <1>2. CASE r.op = "movement"
    <2> DEFINE c == ApplyCall(0, IF r.out THEN "MANUAL_OUT" ELSE "MANUAL_IN", r.key, r.qty,
                              <<"MANUAL", NoDoc>>, NoTag)
    <2>1. CallsOf(w) = <<c>> /\ Single(c)
      BY <1>2 DEF CallsOf, ApplyCall, DocOf, Op
    <2> HIDE DEF c, Single
    <2>2. Len(<<c>>) = 1 /\ DOMAIN <<c>> = 1 .. 1 /\ \A i \in 1 .. 1 : <<c>>[i] = c
      OBVIOUS
    <2>3. Len(CallsOf(w)) \in Nat /\ DOMAIN CallsOf(w) = 1 .. Len(CallsOf(w))
          /\ \A i \in DOMAIN CallsOf(w) : Single(CallsOf(w)[i])
      BY <2>1, <2>2
    <2> QED
      BY <2>3 DEF Single, Undoing, Transfer, ApplyCall
  <1>3. CASE r.op = "transfer"
    <2> DEFINE out == Transfer(w, "TRANSFER_OUT", r.from)
               in == Transfer(w, "TRANSFER_IN", r.to)
    <2>1. CallsOf(w) = <<out, in>> /\ Single(out) /\ Single(in)
      BY <1>3 DEF CallsOf, ApplyCall, DocOf, Op, Transfer
    <2> HIDE DEF out, in, Single
    <2>2. Len(<<out, in>>) = 2 /\ DOMAIN <<out, in>> = 1 .. 2
          /\ \A i \in 1 .. 2 : <<out, in>>[i] \in {out, in}
      OBVIOUS
    <2>3. Len(CallsOf(w)) \in Nat /\ DOMAIN CallsOf(w) = 1 .. Len(CallsOf(w))
          /\ \A i \in DOMAIN CallsOf(w) : Single(CallsOf(w)[i])
      BY <2>1, <2>2
    <2> QED
      BY <2>3 DEF Single, Undoing, Transfer, ApplyCall
  <1>4. CASE r.op = "receive"
    <2> DEFINE C(i) == ApplyCall(0, "PURCHASE_IN", <<r.items[i].product, r.wh>>,
                                 r.items[i].qty, ReceiptDoc(w), NoTag)
    <2>1. r.items \in Seq([product : Product, qty : Int])
      BY <1>1, <1>4 DEF RequestOK
    <2>2. Len(r.items) \in Nat /\ DOMAIN r.items = 1 .. Len(r.items)
      BY <2>1, LenProperties
    <2>3. \A i \in DOMAIN r.items : Single(C(i))
      BY <1>4 DEF ApplyCall, DocOf, Op
    <2>4. CallsOf(w) = [i \in DOMAIN r.items |-> C(i)]
      BY <1>4 DEF CallsOf
    <2> DEFINE n == Len(r.items)
               S == {C(i) : i \in 1 .. n}
    <2> HIDE DEF C, Single
    <2>5. CallsOf(w) \in [1 .. n -> S]
      BY <2>2, <2>4
    <2>6. CallsOf(w) \in Seq(S)
      BY <2>2, <2>5, SeqDef
    <2>7. Len(CallsOf(w)) \in Nat /\ DOMAIN CallsOf(w) = 1 .. Len(CallsOf(w))
      BY <2>6, LenProperties
    <2>8. \A i \in DOMAIN CallsOf(w) : Single(CallsOf(w)[i])
      BY <2>3, <2>4
    <2> QED
      BY <2>7, <2>8 DEF Single, Undoing, Transfer, ApplyCall
  <1>5. CASE r.op \in {"set", "delete"}
    BY <1>5 DEF CallsOf, Undoing, Transfer, ApplyCall
  <1> QED
    BY <1>1, <1>2, <1>3, <1>4, <1>5 DEF RequestOK

\* The movements a transfer and a receipt ask for.
LEMMA WantedRows ==
  ASSUME NEW w \in Worker
  PROVE  LET r == Request[w]
         IN  /\ Op(w, "transfer") =>
                  /\ DOMAIN CallsOf(w) = {1, 2}
                  /\ CallsOf(w)[1].qty = r.qty /\ CallsOf(w)[2].qty = r.qty
                  /\ Wants(w, 1) = [type |-> "TRANSFER_OUT", key |-> <<r.product, r.from>>,
                                    qty |-> r.qty, doc |-> <<"TRANSFER", r.ref>>]
                  /\ Wants(w, 2) = [type |-> "TRANSFER_IN", key |-> <<r.product, r.to>>,
                                    qty |-> r.qty, doc |-> <<"TRANSFER", r.ref>>]
             /\ Op(w, "receive") =>
                  /\ DOMAIN CallsOf(w) = DOMAIN r.items
                  /\ \A i \in DOMAIN r.items :
                       /\ CallsOf(w)[i].qty = r.items[i].qty
                       /\ Wants(w, i) = [type |-> "PURCHASE_IN",
                                         key |-> <<r.items[i].product, r.wh>>,
                                         qty |-> StockQty(r.items[i].product, r.items[i].qty),
                                         doc |-> ReceiptDoc(w)]
  <1> DEFINE r == Request[w]
  <1>1. ASSUME Op(w, "transfer")
        PROVE  /\ DOMAIN CallsOf(w) = {1, 2}
               /\ CallsOf(w)[1].qty = r.qty /\ CallsOf(w)[2].qty = r.qty
               /\ Wants(w, 1) = [type |-> "TRANSFER_OUT", key |-> <<r.product, r.from>>,
                                 qty |-> r.qty, doc |-> <<"TRANSFER", r.ref>>]
               /\ Wants(w, 2) = [type |-> "TRANSFER_IN", key |-> <<r.product, r.to>>,
                                 qty |-> r.qty, doc |-> <<"TRANSFER", r.ref>>]
    <2> DEFINE out == Transfer(w, "TRANSFER_OUT", r.from)
               in == Transfer(w, "TRANSFER_IN", r.to)
    <2>1. CallsOf(w) = <<out, in>>
      BY <1>1, TransferCalls
    <2>2. /\ MovementOf(out) = [type |-> "TRANSFER_OUT", key |-> <<r.product, r.from>>,
                                qty |-> r.qty, doc |-> <<"TRANSFER", r.ref>>]
          /\ MovementOf(in) = [type |-> "TRANSFER_IN", key |-> <<r.product, r.to>>,
                               qty |-> r.qty, doc |-> <<"TRANSFER", r.ref>>]
          /\ out.qty = r.qty /\ in.qty = r.qty
      BY DEF Transfer, ApplyCall, MovementOf
    <2>3. ~ Op(w, "receive")
      BY <1>1 DEF Op
    <2> HIDE DEF out, in, r
    <2>4. DOMAIN <<out, in>> = {1, 2} /\ <<out, in>>[1] = out /\ <<out, in>>[2] = in
      OBVIOUS
    <2> QED
      BY <2>1, <2>2, <2>3, <2>4 DEF Wants, CallFor
  <1>2. ASSUME Op(w, "receive")
        PROVE  /\ DOMAIN CallsOf(w) = DOMAIN r.items
               /\ \A i \in DOMAIN r.items :
                    /\ CallsOf(w)[i].qty = r.items[i].qty
                    /\ Wants(w, i) = [type |-> "PURCHASE_IN",
                                      key |-> <<r.items[i].product, r.wh>>,
                                      qty |-> StockQty(r.items[i].product, r.items[i].qty),
                                      doc |-> ReceiptDoc(w)]
    <2> DEFINE C(i) == ApplyCall(0, "PURCHASE_IN", <<r.items[i].product, r.wh>>,
                                 r.items[i].qty, ReceiptDoc(w), NoTag)
    <2>1. CallsOf(w) = [i \in DOMAIN r.items |-> C(i)]
      BY <1>2 DEF CallsOf, Op
    <2> SUFFICES ASSUME NEW i \in DOMAIN r.items
                 PROVE  /\ C(i).qty = r.items[i].qty
                        /\ MovementOf([C(i) EXCEPT !.qty = StockQty(C(i).key[1], C(i).qty)])
                             = [type |-> "PURCHASE_IN", key |-> <<r.items[i].product, r.wh>>,
                                qty |-> StockQty(r.items[i].product, r.items[i].qty),
                                doc |-> ReceiptDoc(w)]
      BY <1>2, <2>1 DEF Wants, CallFor
    <2>2. C(i).key[1] = r.items[i].product /\ C(i).qty = r.items[i].qty
      BY DEF ApplyCall
    <2>3. /\ C(i).posts = <<"PURCHASE_IN">> /\ C(i).key = <<r.items[i].product, r.wh>>
          /\ C(i).doc = ReceiptDoc(w)
          /\ DOMAIN C(i) = {"line", "change", "key", "qty", "doc", "posts", "strict", "tag"}
      BY DEF ApplyCall
    <2> HIDE DEF C, r
    <2>4. Head(<<"PURCHASE_IN">>) = "PURCHASE_IN"
      OBVIOUS
    <2> QED
      BY <2>2, <2>3, <2>4 DEF MovementOf
  <1> QED
    BY <1>1, <1>2

\* No two lines ask for the same movement, and each for one of its document.
LEMMA WantsApart ==
  ASSUME LinesApart, NEW w \in Worker, Op(w, "transfer") \/ Op(w, "receive")
  PROVE  /\ \A i, j \in Wanted(w) : Wants(w, i) = Wants(w, j) => i = j
         /\ \A i \in Wanted(w) : Wants(w, i).doc = DocOf(w) /\ i \in Nat /\ i > 0
  <1>1. \A i \in Wanted(w) : i \in Nat /\ i > 0
    BY CallLines DEF Wanted
  <1>2. CASE Op(w, "transfer")
    <2>1. Wanted(w) \subseteq {1, 2}
      BY <1>2, WantedRows DEF Wanted
    <2>2. Wants(w, 1).type = "TRANSFER_OUT" /\ Wants(w, 2).type = "TRANSFER_IN"
          /\ Wants(w, 1).doc = DocOf(w) /\ Wants(w, 2).doc = DocOf(w)
      BY <1>2, WantedRows DEF DocOf
    <2>3. Wants(w, 1) # Wants(w, 2)
      BY <2>2
    <2> QED
      BY <1>1, <2>1, <2>2, <2>3
  <1>3. CASE Op(w, "receive")
    <2> DEFINE items == Request[w].items
    <2>1. ASSUME NEW i \in Wanted(w)
          PROVE  /\ i \in DOMAIN items /\ items[i].qty > 0
                 /\ Wants(w, i).key = <<items[i].product, Request[w].wh>>
                 /\ Wants(w, i).doc = DocOf(w)
      <3>1. i \in DOMAIN items /\ items[i].qty > 0
        BY <1>3, WantedRows DEF Wanted
      <3>2. DocOf(w) = ReceiptDoc(w)
        BY <1>3 DEF DocOf, Op
      <3> QED
        BY <1>3, <3>1, <3>2, WantedRows
    <2>2. \A i, j \in DOMAIN items :
            items[i].qty > 0 /\ items[j].qty > 0 /\ items[i].product = items[j].product => i = j
      BY <1>3 DEF LinesApart
    <2> HIDE DEF items
    <2>3. \A i, j \in Wanted(w) : Wants(w, i) = Wants(w, j) => items[i].product = items[j].product
      BY <2>1
    <2> QED
      BY <1>1, <2>1, <2>2, <2>3
  <1> QED
    BY <1>2, <1>3

\* A list that is the end of another, and what it is without its first line.
LEMMA EndOfList ==
  ASSUME NEW T, NEW s \in Seq(T), NEW f, Len(f) \in Nat, DOMAIN f = 1 .. Len(f),
         Len(s) <= Len(f), \A i \in DOMAIN s : s[i] = f[Len(f) - Len(s) + i], s # <<>>
  PROVE  LET past == Len(f) - Len(s)
         IN  /\ past \in Nat /\ past + 1 \in DOMAIN f /\ Head(s) = f[past + 1]
             /\ Len(Tail(s)) <= Len(f) /\ Len(f) - Len(Tail(s)) = past + 1
             /\ \A i \in DOMAIN Tail(s) : Tail(s)[i] = f[past + 1 + i]
  <1>1. /\ Len(s) \in Nat /\ DOMAIN s = 1 .. Len(s) /\ Len(s) > 0
        /\ Head(s) = s[1] /\ Len(Tail(s)) = Len(s) - 1
        /\ DOMAIN Tail(s) = 1 .. Len(Tail(s))
        /\ \A i \in 1 .. Len(Tail(s)) : Tail(s)[i] = s[i + 1]
    BY LenProperties, EmptySeq, HeadTailProperties
  <1> QED
    BY <1>1

\* The other workers are tried as often as before, and a worker once more when
\* its request is sent.
LEMMA TriesStep ==
  ASSUME TypeOK, NEW w \in Worker, Submit(w) \/ HandlerStep(w) \/ Crash(w)
  PROVE  /\ \A v \in Worker \ {w} : tries'[v] = tries[v]
         /\ ~ Submit(w) => tries' = tries
         /\ Submit(w) => tries'[w] = tries[w] + 1
         /\ \A v \in Worker : tries[v] \in Nat /\ tries'[v] \in Nat /\ tries'[v] >= tries[v]
  <1>1. tries \in [Worker -> 0 .. MaxTries] /\ MaxTries \in Nat
    BY RequestsAssumption DEF TypeOK, HandlersTypeOK
  <1>2. ~ Submit(w) => tries' = tries
    BY DEF HandlerStep, Refuse, SkipReceived, Accept, NextCall, NotConverted, SkipLine,
           LoopDone, InSection, SectionOk, SectionErr, Undo, UndoDone, SetBalance, CacheSet,
           CheckUse, Delete, StatementFails, Crash, requestVars
  <1>3. Submit(w) => tries' = [tries EXCEPT ![w] = tries[w] + 1]
    BY DEF Submit
  <1> QED
    BY <1>1, <1>2, <1>3

\* The plan of a worker depends on its own list, call and place alone.
LEMMA ListStays ==
  ASSUME NEW v \in Worker, ListPlan(v), calls'[v] = calls[v], stage'[v] = stage[v],
         call'[v] = call[v], pc'[v] = pc[v], tries'[v] = tries[v]
  PROVE  ListPlan(v)'
  <1>1. /\ CallsOf(v)' = CallsOf(v) /\ Undoing(v)' = Undoing(v) /\ Past(v)' = Past(v)
        /\ \A c : CallFor(v, c)' = CallFor(v, c)
    BY PlansConstant DEF Past
  <1>2. Unfinished(v)' = Unfinished(v) /\ HasLine(v)' = HasLine(v)
    BY DEF Unfinished, HasLine
  <1> QED
    BY <1>1, <1>2, PlansConstant DEF ListPlan, At, Op

\* A worker without a movement to insert follows its plan if its list does.
LEMMA ListMoves ==
  ASSUME NEW w \in Worker, ~ Unfinished(w)', pc'[w] # "waiting", tries'[w] # 0,
         pc'[w] \notin {"loop", "section"} => calls'[w] = <<>>,
         Len(calls'[w]) <= Len(CallsOf(w)),
         \A i \in DOMAIN calls'[w] :
           calls'[w][i] = CallsOf(w)[Len(CallsOf(w)) - Len(calls'[w]) + i],
         pc'[w] \in {"undo", "undoing"} => Op(w, "transfer"),
         pc'[w] \in {"delete"} \cup DOMAIN AfterCheck => Op(w, "delete"),
         pc'[w] = "ok" /\ Op(w, "transfer") => Request[w].qty > 0
  PROVE  ListPlan(w)'
  BY PlansConstant DEF ListPlan, At, Op, Past

\* An empty list is an end of every list.
LEMMA NothingLeft ==
  ASSUME NEW w \in Worker
  PROVE  /\ Len(<<>>) <= Len(CallsOf(w))
         /\ \A i \in DOMAIN <<>> : <<>>[i] = CallsOf(w)[Len(CallsOf(w)) - Len(<<>>) + i]
  <1>1. Len(<<>>) = 0 /\ DOMAIN <<>> = {}
    OBVIOUS
  <1> QED
    BY <1>1, CallLines

\* Every handler makes the calls of its list, in order.
LEMMA ListStep ==
  ASSUME TypeOK, CallsInv, NEW w \in Worker, ListPlan(w),
         Submit(w) \/ HandlerStep(w) \/ Crash(w)
  PROVE  ListPlan(w)'
  <1>1. /\ DOMAIN calls = Worker /\ DOMAIN call = Worker /\ calls[w] \in Seq(Planned)
        /\ stage \in [Worker -> Stage] /\ pc \in [Worker -> Pc]
        /\ pc[w] \notin {"section", "undoing"} => ~ Unfinished(w)
        /\ pc[w] = "section" => calls[w] # <<>>
        /\ pc[w] = "undo" => Op(w, "transfer")
        /\ pc[w] = "loop" /\ Op(w, "transfer") => Request[w].qty > 0
        /\ pc[w] \in {"set", "caching"} => Op(w, "set")
    BY OutsideFinished DEF TypeOK, SectionTypeOK, HandlersTypeOK, At
  <1>2. /\ pc[w] = "waiting" <=> tries[w] = 0
        /\ pc[w] \notin {"loop", "section"} => calls[w] = <<>>
        /\ Len(calls[w]) <= Len(CallsOf(w))
        /\ \A i \in DOMAIN calls[w] :
             calls[w][i] = CallsOf(w)[Len(CallsOf(w)) - Len(calls[w]) + i]
        /\ pc[w] \in {"delete"} \cup DOMAIN AfterCheck => Op(w, "delete")
    BY DEF ListPlan, At, Past
  <1>3. ~ Submit(w) => tries'[w] # 0
    BY <1>2, OtherHandlers, TriesStep DEF Running
  <1>4. CASE Submit(w)
    <2>1. /\ pc'[w] = "start" /\ calls' = calls /\ stage' = stage
          /\ pc[w] \in {"waiting", "failed"}
      BY <1>1, <1>4 DEF Submit, Jump, At, sectionVars
    <2>2. tries'[w] # 0
      <3>1. tries'[w] = tries[w] + 1 /\ tries[w] \in Nat
        BY <1>4, TriesStep
      <3> QED
        BY <3>1
    <2> QED
      BY <1>1, <1>2, <2>1, <2>2, ListMoves DEF Unfinished, AfterCheck
  <1>5. CASE Refuse(w) \/ SkipReceived(w) \/ LoopDone(w) \/ CheckUse(w)
             \/ Delete(w) \/ StatementFails(w) \/ SetBalance(w) \/ CacheSet(w)
    <2>1. /\ UNCHANGED <<calls, stage>> /\ calls[w] = <<>>
          /\ pc[w] \notin {"section", "undoing"}
          /\ pc'[w] \notin {"waiting", "undo", "undoing"} /\ tries'[w] # 0
          /\ pc'[w] \in {"delete"} \cup DOMAIN AfterCheck => CheckUse(w)
      BY <1>1, <1>2, <1>3, <1>5
         DEF Submit, Refuse, SkipReceived, LoopDone, CheckUse, Delete, StatementFails,
             SetBalance, CacheSet, sectionVars, Jump, At, AfterCheck
    <2>2. CheckUse(w) => Op(w, "delete")
      BY <1>2 DEF CheckUse
    <2>3. pc'[w] = "ok" /\ Op(w, "transfer") => Request[w].qty > 0
      BY <1>1, <1>2, <1>5
         DEF Refuse, SkipReceived, LoopDone, CheckUse, Delete, StatementFails, SetBalance,
             CacheSet, Jump, At, AfterCheck, AlreadyReceived, Op
    <2> QED
      BY <1>1, <1>2, <2>1, <2>2, <2>3, ListMoves DEF Unfinished
  <1>6. CASE Accept(w)
    <2>1. /\ calls'[w] = CallsOf(w) /\ stage' = stage /\ ~ Unfinished(w) /\ tries'[w] # 0
          /\ pc'[w] = CASE Op(w, "set") -> "set" [] Op(w, "delete") -> "movements"
                        [] OTHER -> "loop"
      BY <1>1, <1>3, <1>6 DEF Accept, Submit, Jump, At, sectionVars
    <2>2. /\ pc'[w] \in {"set", "movements", "loop"}
          /\ pc'[w] = "movements" => Op(w, "delete")
          /\ pc'[w] # "loop" => Op(w, "set") \/ Op(w, "delete")
      BY <2>1 DEF Op
    <2>3. Op(w, "set") \/ Op(w, "delete") => CallsOf(w) = <<>>
      BY DEF Op, CallsOf
    <2>4. \A i \in DOMAIN CallsOf(w) : Len(CallsOf(w)) - Len(CallsOf(w)) + i = i
      BY CallLines
    <2> QED
      BY <2>1, <2>2, <2>3, <2>4, CallLines, ListMoves DEF Unfinished, AfterCheck
  <1>7. CASE NotConverted(w) \/ SectionErr(w) \/ UndoDone(w) \/ Crash(w)
    <2>1. /\ pc'[w] \in {"failed", "undo"} /\ ~ Unfinished(w)' /\ calls'[w] = <<>>
          /\ pc'[w] = "undo" => Op(w, "transfer")
      BY <1>1, <1>2, <1>7
         DEF NotConverted, SectionErr, UndoDone, Crash, Return, Killed, Goto, Jump, At,
             sectionVars, Unfinished, ToUndo
    <2>2. tries'[w] # 0
      BY <1>3, <1>7 DEF NotConverted, SectionErr, UndoDone, Crash, Submit, At, Running
    <2> QED
      BY <2>1, <2>2, NothingLeft, ListMoves DEF AfterCheck
  <1>8. CASE SkipLine(w) \/ SectionOk(w)
    <2>1. /\ pc'[w] = "loop" /\ ~ Unfinished(w)' /\ calls[w] # <<>> /\ tries'[w] # 0
          /\ calls'[w] = Tail(calls[w])
      BY <1>1, <1>3, <1>8
         DEF SkipLine, SectionOk, Return, Goto, Jump, At, sectionVars, Unfinished, Submit
    <2> DEFINE s == calls[w]
               f == CallsOf(w)
    <2>2. Len(f) \in Nat /\ DOMAIN f = 1 .. Len(f)
      BY CallLines
    <2>3. s \in Seq(Planned) /\ s # <<>> /\ Len(s) <= Len(f)
          /\ \A i \in DOMAIN s : s[i] = f[Len(f) - Len(s) + i]
      BY <1>1, <1>2, <2>1
    <2> HIDE DEF s, f
    <2>4. Len(Tail(s)) <= Len(f)
          /\ \A i \in DOMAIN Tail(s) : Tail(s)[i] = f[Len(f) - Len(Tail(s)) + i]
      <3>1. /\ Len(Tail(s)) <= Len(f) /\ Len(f) - Len(Tail(s)) = Len(f) - Len(s) + 1
            /\ \A i \in DOMAIN Tail(s) : Tail(s)[i] = f[Len(f) - Len(s) + 1 + i]
        BY <2>2, <2>3, EndOfList
      <3> QED
        BY <3>1
    <2>5. /\ Len(calls'[w]) <= Len(CallsOf(w))
          /\ \A i \in DOMAIN calls'[w] :
               calls'[w][i] = CallsOf(w)[Len(CallsOf(w)) - Len(calls'[w]) + i]
      BY <2>1, <2>4 DEF s, f
    <2> QED
      BY <2>1, <2>5, ListMoves DEF AfterCheck
  <1>9. CASE NextCall(w)
    <2>1. /\ calls' = calls /\ pc'[w] = "section" /\ HasLine(w) /\ tries'[w] # 0
          /\ call'[w] = CallFor(w, Head(calls[w]))
      BY <1>1, <1>3, <1>9 DEF NextCall, Begin, Jump, CallFor, Converted, Submit, At
    <2>2. HasLine(w)'
      BY <2>1 DEF HasLine
    <2> QED
      BY <1>2, <2>1, <2>2, PlansConstant DEF ListPlan, At, Past, AfterCheck
  <1>10. CASE Undo(w)
    <2>1. /\ calls' = calls /\ pc'[w] = "undoing" /\ Op(w, "transfer") /\ tries'[w] # 0
          /\ call'[w] = Undoing(w) /\ calls[w] = <<>>
      BY <1>1, <1>2, <1>3, <1>10 DEF Undo, Begin, Jump, Submit, At
    <2> QED
      BY <1>2, <2>1, PlansConstant DEF ListPlan, At, Op, Past, AfterCheck
  <1>11. CASE InSection(w)
    <2>1. UNCHANGED <<calls, pc, tries>> /\ (Unfinished(w)' => Unfinished(w) /\ call' = call)
      BY <1>11, SectionUnfinished DEF InSection, requestVars
    <2>2. HasLine(w)' = HasLine(w)
      BY <2>1 DEF HasLine
    <2> QED
      BY <2>1, <2>2, PlansConstant DEF ListPlan, At, Op, Past
  <1> QED
    BY <1>4, <1>5, <1>6, <1>7, <1>8, <1>9, <1>10, <1>11 DEF HandlerStep

\* The movement a worker inserts is that of the line it is at, or the credit of
\* a transfer to its origin; it stands in the ledger from then on.
LEMMA PostRecords ==
  ASSUME TypeOK, CallsInv, NEW w \in Worker, ListPlan(w), Submit(w) \/ HandlerStep(w),
         PostMovement(w)
  PROVE  \E m :
           /\ movements' = Append(movements, m) /\ m.doc = DocOf(w)
           /\ pc' = pc /\ calls' = calls /\ tries' = tries /\ tries[w] > 0
           /\ pc[w] \in {"section", "undoing"} /\ stage[w] = "post" /\ stage'[w] = "read"
           /\ pc[w] = "section" =>
                m = Wants(w, Past(w) + 1) /\ Past(w) + 1 \in Wanted(w)
  <1> DEFINE c == call[w]
             m == MovementOf(c)
  <1>1. /\ InSection(w) /\ Unfinished(w) /\ stage \in [Worker -> Stage]
        /\ calls[w] \in Seq(Planned)
        /\ pc[w] = "section" => calls[w] # <<>>
    BY SectionIsNext DEF PostMovement, Unfinished, TypeOK, SectionTypeOK, HandlersTypeOK, At
  <1>2. Directed(c)
    BY <1>1 DEF CallsInv, Unfinished
  <1>3. PICK t : c.posts = <<t>> /\ Len(c.posts) = 1
    BY <1>2 DEF Directed, Singles
  <1>4. /\ movements' = Append(movements, m) /\ pc' = pc /\ calls' = calls /\ tries' = tries
        /\ stage[w] = "post" /\ stage'[w] = "read" /\ pc[w] \in {"section", "undoing"}
    BY <1>1, <1>3 DEF PostMovement, InsertMovement, Posted, Goto, InSection, requestVars,
                      MovementOf
  <1>5. tries[w] > 0
    BY <1>4, TriesStep DEF ListPlan, At
  <1>6. CASE pc[w] = "section"
    <2> DEFINE s == calls[w]
               f == CallsOf(w)
    <2>1. HasLine(w) /\ c = CallFor(w, Head(s)) /\ s # <<>>
      BY <1>1, <1>6 DEF ListPlan, At
    <2>2. /\ s \in Seq(Planned) /\ Len(f) \in Nat /\ DOMAIN f = 1 .. Len(f)
          /\ Len(s) <= Len(f) /\ \A i \in DOMAIN s : s[i] = f[Len(f) - Len(s) + i]
      BY <1>1, CallLines DEF ListPlan, Past
    <2>3. Head(s).qty > 0
      BY <2>1 DEF HasLine
    <2> HIDE DEF s, f
    <2>4. Head(s) = f[Len(f) - Len(s) + 1] /\ Len(f) - Len(s) + 1 \in DOMAIN f
      BY <2>1, <2>2, EndOfList
    <2>5. Past(w) + 1 \in Wanted(w) /\ Head(s) = CallsOf(w)[Past(w) + 1]
      BY <2>3, <2>4 DEF Wanted, Past, s, f
    <2>6. m = Wants(w, Past(w) + 1)
      BY <2>1, <2>5 DEF Wants
    <2>7. Head(s) \in Planned
      BY <2>1, <2>2, HeadTailProperties
    <2>8. c.doc = Head(s).doc
      BY <2>1, <2>7 DEF CallFor, Planned
    <2>9. m.doc = DocOf(w)
      BY <2>5, <2>8, CallLines DEF MovementOf, Wanted
    <2> QED
      BY <1>4, <1>5, <2>5, <2>6, <2>9
  <1>7. CASE pc[w] = "undoing"
    <2>1. Op(w, "transfer") /\ c = Undoing(w)
      BY <1>1, <1>7 DEF ListPlan, At
    <2>2. DocOf(w) = <<"TRANSFER", Request[w].ref>>
      BY <2>1 DEF DocOf, Op
    <2>3. m.doc = DocOf(w)
      BY <2>1, <2>2, CallLines DEF MovementOf
    <2> QED
      BY <1>4, <1>5, <1>7, <2>3
  <1> QED
    BY <1>4, <1>6, <1>7

\* Every movement is under the document of a request that was sent.
LEMMA DocsStep ==
  ASSUME TypeOK, CallsInv, OwnDocs, NEW w \in Worker, ListPlan(w),
         Submit(w) \/ HandlerStep(w) \/ Crash(w)
  PROVE  OwnDocs'
  <1>1. \A v \in Worker : tries[v] > 0 => tries'[v] > 0
    BY TriesStep
  <1>2. \A v \in Worker : DocOf(v)' = DocOf(v)
    BY PlansConstant
  <1>3. CASE UNCHANGED movements
    BY <1>1, <1>2, <1>3 DEF OwnDocs
  <1>4. CASE PostMovement(w) /\ (Submit(w) \/ HandlerStep(w))
    <2>1. PICK m : movements' = Append(movements, m) /\ m.doc = DocOf(w) /\ tries[w] > 0
      BY <1>4, PostRecords
    <2>2. /\ DOMAIN movements' = DOMAIN movements \cup {Len(movements) + 1}
          /\ movements'[Len(movements) + 1] = m
          /\ \A j \in DOMAIN movements : movements'[j] = movements[j]
      BY <2>1, LedgerGrows DEF TypeOK, RepoTypeOK
    <2> QED
      BY <1>1, <1>2, <2>1, <2>2 DEF OwnDocs
  <1>5. Crash(w) => UNCHANGED movements
    BY DEF Crash, repoVars
  <1> QED
    BY <1>3, <1>4, <1>5, LedgerStays

\* Who is sole under its document was so before, if it was sent at all.
LEMMA SoleBefore ==
  ASSUME TypeOK, NEW w \in Worker, Submit(w) \/ HandlerStep(w) \/ Crash(w), NEW v \in Worker,
         Sole(v)'
  PROVE  /\ \A u \in Worker \ {v} : DocOf(u) = DocOf(v) => tries[u] = 0 /\ tries'[u] = 0
         /\ v = w /\ Submit(w) => tries[v] = 0
         /\ ~ (v = w /\ Submit(w)) => Sole(v)
         /\ Op(v, "transfer") \/ Op(v, "receive")
  <1>1. /\ \A u \in Worker : DocOf(u)' = DocOf(u)
        /\ \A u \in Worker : tries[u] \in Nat /\ tries'[u] \in Nat /\ tries'[u] >= tries[u]
        /\ Submit(w) => tries'[w] = tries[w] + 1
        /\ ~ Submit(w) => tries'[w] = tries[w]
        /\ \A u \in Worker \ {w} : tries'[u] = tries[u]
    BY PlansConstant, TriesStep
  <1>2. /\ tries'[v] = 1 /\ (Op(v, "transfer") \/ Op(v, "receive"))
        /\ \A u \in Worker \ {v} : DocOf(u)' = DocOf(v)' => tries'[u] = 0
    BY DEF Sole, Op
  <1>3. \A u \in Worker \ {v} : DocOf(u) = DocOf(v) => tries[u] = 0 /\ tries'[u] = 0
    BY <1>1, <1>2
  <1> QED
    BY <1>1, <1>2, <1>3 DEF Sole

\* What is recorded stays so while nothing is inserted and no line is passed.
LEMMA RecordSame ==
  ASSUME NEW v \in Worker, RecordPlan(v), UNCHANGED movements, Sole(v)' => Sole(v),
         pc'[v] = "start" => pc[v] = "start",
         pc'[v] \in {"loop", "section", "ok"} => pc[v] \in {"loop", "section", "ok"},
         pc'[v] \in {"loop", "section", "ok"} =>
           \A i \in Wanted(v) : Recorded(v, i)' <=> Recorded(v, i)
  PROVE  RecordPlan(v)'
  <1>1. /\ DocOf(v)' = DocOf(v) /\ Wanted(v)' = Wanted(v)
        /\ \A i : Wants(v, i)' = Wants(v, i)
    BY PlansConstant
  <1>2. \A i : RowsOf(Wants(v, i))' = RowsOf(Wants(v, i))
    BY <1>1 DEF RowsOf
  <1> QED
    BY <1>1, <1>2 DEF RecordPlan, At

\* A handler that is at a line has its movement in the ledger when, and only
\* when, its section has got so far.
LEMMA RecordQuiet ==
  ASSUME LinesApart, TypeOK, CallsInv, OwnDocs, NEW w \in Worker, ListPlan(w), RecordPlan(w),
         Submit(w) \/ HandlerStep(w) \/ Crash(w), ~ PostMovement(w)
  PROVE  RecordPlan(w)'
  <1> DEFINE Done == {"read", "cache", "unlock", "ok"}
  <1>1. /\ DOMAIN calls = Worker /\ pc \in [Worker -> Pc] /\ calls[w] \in Seq(Planned)
        /\ stage \in [Worker -> Stage] /\ UNCHANGED movements
        /\ pc[w] = "section" => calls[w] # <<>>
        /\ pc[w] \notin {"section", "undoing"} => stage[w] = "idle"
    BY LedgerStays DEF TypeOK, HandlersTypeOK, SectionTypeOK, At
  <1>2. /\ DocOf(w)' = DocOf(w) /\ Wanted(w)' = Wanted(w)
        /\ \A i : Wants(w, i)' = Wants(w, i) /\ CallsOf(w)' = CallsOf(w)
    BY PlansConstant
  <1> SUFFICES ASSUME Sole(w)' PROVE RecordPlan(w)'
    BY DEF RecordPlan
  <1>3. /\ \A v \in Worker \ {w} : DocOf(v) = DocOf(w) => tries[v] = 0
        /\ Submit(w) => tries[w] = 0
        /\ ~ Submit(w) => Sole(w)
        /\ Op(w, "transfer") \/ Op(w, "receive")
    BY SoleBefore
  <1>4. \A i \in Wanted(w) : Wants(w, i).doc = DocOf(w) /\ i \in Nat /\ i > 0
    BY <1>3, WantsApart
  <1>5. CASE Submit(w)
    <2>1. pc'[w] = "start"
      BY <1>1, <1>5 DEF Submit, Jump
    <2>2. \A j \in DOMAIN movements : movements[j].doc # DocOf(w)
      BY <1>3, <1>5 DEF OwnDocs
    <2> QED
      BY <1>1, <1>2, <2>1, <2>2 DEF RecordPlan, At
  <1>6. CASE Refuse(w) \/ StatementFails(w) \/ CheckUse(w) \/ Delete(w) \/ SetBalance(w)
             \/ CacheSet(w) \/ NotConverted(w) \/ SectionErr(w) \/ Undo(w) \/ UndoDone(w)
             \/ Crash(w)
    <2>1. pc[w] # "delete" /\ pc[w] # "caching"
      <3>1. ~ Op(w, "delete") /\ ~ Op(w, "set")
        BY <1>3 DEF Op
      <3> QED
        BY <3>1 DEF ListPlan, At, TypeOK, HandlersTypeOK
    <2>2. pc'[w] \notin {"start", "loop", "section", "ok"}
      BY <1>1, <1>6, <2>1
         DEF Refuse, StatementFails, CheckUse, Delete, SetBalance, CacheSet, NotConverted,
             SectionErr, Undo, UndoDone, Crash, Jump, At, AfterCheck
    <2> QED
      BY <2>2 DEF RecordPlan, At
  <1>7. CASE SkipReceived(w)
    <2>1. /\ Op(w, "receive") /\ pc[w] = "start" /\ ~ Submit(w)
          /\ \E j \in DOMAIN movements : movements[j].doc = ReceiptDoc(w)
      BY <1>7 DEF SkipReceived, Submit, AlreadyReceived, HasMovement, At
    <2>2. DocOf(w) = ReceiptDoc(w)
      BY <2>1 DEF DocOf, Op
    <2> QED
      BY <1>3, <2>1, <2>2 DEF RecordPlan, At
  <1>8. CASE Accept(w)
    <2>1. pc[w] = "start" /\ ~ Submit(w) /\ calls'[w] = CallsOf(w)
      BY <1>1, <1>8 DEF Accept, Submit, At
    <2>2. pc'[w] \notin {"start", "section", "ok"}
      BY <1>1, <1>8 DEF Accept, Jump
    <2>3. \A j \in DOMAIN movements : movements[j].doc # DocOf(w)
      BY <1>3, <2>1 DEF RecordPlan, At
    <2>4. \A i \in Wanted(w) : RowsOf(Wants(w, i))' = {}
      BY <1>1, <1>2, <1>4, <2>3 DEF RowsOf
    <2>5. \A i \in Wanted(w) : ~ Recorded(w, i)'
      <3>1. Past(w)' = 0
        BY <1>2, <2>1, CallLines DEF Past
      <3> QED
        BY <1>4, <2>2, <3>1 DEF Recorded, At
    <2> QED
      BY <1>2, <2>2, <2>4, <2>5 DEF RecordPlan, At
  <1>9. CASE LoopDone(w) \/ NextCall(w)
    <2>1. /\ calls' = calls /\ ~ Submit(w) /\ pc[w] = "loop" /\ stage'[w] \notin Done
          /\ pc'[w] \in {"ok", "section"}
      BY <1>1, <1>9 DEF LoopDone, NextCall, Begin, Goto, Jump, At, Submit, sectionVars
    <2>2. Past(w)' = Past(w)
      BY <1>2, <2>1 DEF Past
    <2>3. \A i \in Wanted(w) : Recorded(w, i)' <=> Recorded(w, i)
      BY <2>1, <2>2 DEF Recorded, At
    <2> QED
      BY <1>1, <1>3, <2>1, <2>3, RecordSame
  <1>10. CASE SkipLine(w) \/ SectionOk(w)
    <2>1. /\ calls'[w] = Tail(calls[w]) /\ calls[w] # <<>> /\ ~ Submit(w)
          /\ pc[w] \in {"loop", "section"} /\ pc'[w] = "loop"
          /\ pc[w] = "section" => stage[w] = "ok"
          /\ pc[w] = "loop" => ~ HasLine(w)
      BY <1>1, <1>10
         DEF SkipLine, SectionOk, Return, Goto, Jump, At, Submit, sectionVars
    <2> DEFINE s == calls[w]
               f == CallsOf(w)
    <2>2. /\ s \in Seq(Planned) /\ Len(f) \in Nat /\ DOMAIN f = 1 .. Len(f)
          /\ Len(s) <= Len(f) /\ s # <<>>
          /\ \A i \in DOMAIN s : s[i] = f[Len(f) - Len(s) + i]
      BY <1>1, <2>1, CallLines DEF ListPlan, Past
    <2> HIDE DEF s, f
    <2>3. /\ Head(s) = f[Len(f) - Len(s) + 1] /\ Len(f) - Len(Tail(s)) = Len(f) - Len(s) + 1
          /\ Len(f) - Len(s) \in Nat
      BY <2>2, EndOfList
    <2>4. /\ Past(w)' = Past(w) + 1 /\ Head(calls[w]) = CallsOf(w)[Past(w) + 1]
          /\ Past(w) \in Nat
      BY <1>2, <2>1, <2>3 DEF Past, s, f
    <2>5. pc[w] = "loop" => Past(w) + 1 \notin Wanted(w)
      BY <2>1, <2>4 DEF HasLine, Wanted
    <2>6. ASSUME NEW i \in Wanted(w) PROVE Recorded(w, i)' <=> Recorded(w, i)
      <3>1. i \in Nat /\ (i <= Past(w) + 1 <=> i <= Past(w) \/ i = Past(w) + 1)
        BY <1>4, <2>4
      <3> QED
        BY <2>1, <2>4, <2>5, <3>1 DEF Recorded, At
    <2> QED
      BY <1>1, <1>3, <2>1, <2>6, RecordSame
  <1>11. CASE InSection(w)
    <2>1. UNCHANGED <<calls, pc, tries>> /\ ~ Submit(w) /\ pc[w] \in {"section", "undoing"}
      BY <1>11 DEF InSection, requestVars, Submit, At
    <2>2. CASE pc[w] = "section"
      <3>1. stage[w] = "post" => call[w].strict
        <4>1. ASSUME stage[w] = "post" PROVE call[w].strict
          <5>1. call[w] = CallFor(w, Head(calls[w])) /\ calls[w] # <<>>
            BY <1>1, <2>2, <4>1 DEF ListPlan, Unfinished, At
          <5> DEFINE s == calls[w]
                     f == CallsOf(w)
          <5>2. /\ s \in Seq(Planned) /\ Len(f) \in Nat /\ DOMAIN f = 1 .. Len(f)
                /\ Len(s) <= Len(f) /\ s # <<>>
                /\ \A i \in DOMAIN s : s[i] = f[Len(f) - Len(s) + i]
            BY <1>1, <5>1, CallLines DEF ListPlan, Past
          <5> HIDE DEF s, f
          <5>3. Head(s) = f[Len(f) - Len(s) + 1] /\ Len(f) - Len(s) + 1 \in DOMAIN f
            BY <5>2, EndOfList
          <5>4. Head(s) \in Planned
            BY <5>2, HeadTailProperties
          <5>5. Head(calls[w]).strict
            BY <5>3, CallLines DEF s, f
          <5>6. call[w].strict = Head(calls[w]).strict
            BY <5>1, <5>4 DEF CallFor, Planned, s
          <5> QED
            BY <5>5, <5>6
        <4> QED
          BY <4>1
      <3>2. stage'[w] \in Done <=> stage[w] \in Done
        BY <1>1, <1>11, <3>1
           DEF InSection, SectionStep, LockBalance, LockRefused, ChangeRefused, PostFails,
               ReadBalance, CacheSkipped, CacheBalance, Unlock, ChangeBalance, Goto
      <3>3. Past(w)' = Past(w)
        BY <1>2, <2>1 DEF Past
      <3>4. \A i \in Wanted(w) : Recorded(w, i)' <=> Recorded(w, i)
        BY <2>1, <3>2, <3>3 DEF Recorded, At
      <3> QED
        BY <1>1, <1>3, <2>1, <3>4, RecordSame
    <2>3. CASE pc[w] = "undoing"
      BY <2>1, <2>3 DEF RecordPlan, At
    <2> QED
      BY <2>1, <2>2, <2>3
  <1> QED
    BY <1>5, <1>6, <1>7, <1>8, <1>9, <1>10, <1>11 DEF HandlerStep

\* A movement that another worker inserts is not under the document, and one of
\* its own is that of its line.
LEMMA RecordPost ==
  ASSUME LinesApart, TypeOK, CallsInv, NEW w \in Worker, ListPlan(w),
         Submit(w) \/ HandlerStep(w), PostMovement(w), NEW v \in Worker, RecordPlan(v)
  PROVE  RecordPlan(v)'
  <1>1. PICK m :
           /\ movements' = Append(movements, m) /\ m.doc = DocOf(w)
           /\ pc' = pc /\ calls' = calls /\ tries' = tries /\ tries[w] > 0
           /\ pc[w] \in {"section", "undoing"} /\ stage[w] = "post" /\ stage'[w] = "read"
           /\ pc[w] = "section" =>
                m = Wants(w, Past(w) + 1) /\ Past(w) + 1 \in Wanted(w)
    BY PostRecords
  <1> DEFINE n == Len(movements) + 1
  <1>2. /\ DOMAIN movements' = DOMAIN movements \cup {n} /\ n \notin DOMAIN movements
        /\ movements'[n] = m
        /\ \A j \in DOMAIN movements : movements'[j] = movements[j]
    BY <1>1, LedgerGrows DEF TypeOK, RepoTypeOK
  <1>3. /\ DocOf(v)' = DocOf(v) /\ Wanted(v)' = Wanted(v)
        /\ \A i : Wants(v, i)' = Wants(v, i) /\ CallsOf(v)' = CallsOf(v)
    BY PlansConstant
  <1> SUFFICES ASSUME Sole(v)' PROVE RecordPlan(v)'
    BY DEF RecordPlan
  <1>4. /\ \A u \in Worker \ {v} : DocOf(u) = DocOf(v) => tries[u] = 0
        /\ Sole(v)
        /\ Op(v, "transfer") \/ Op(v, "receive")
    <2>1. ~ Submit(w)
      BY <1>1 DEF Submit, At
    <2> QED
      BY <2>1, SoleBefore
  <1>5. /\ \A i \in Wanted(v) : Wants(v, i).doc = DocOf(v)
        /\ \A i, j \in Wanted(v) : Wants(v, i) = Wants(v, j) => i = j
    BY <1>4, WantsApart
  <1> HIDE DEF n
  <1>6. \A i \in Wanted(v) :
          /\ Wants(v, i) # m => RowsOf(Wants(v, i))' = RowsOf(Wants(v, i))
          /\ Wants(v, i) = m => RowsOf(Wants(v, i))' = RowsOf(Wants(v, i)) \cup {n}
    BY <1>2, <1>3 DEF RowsOf
  <1>7. Past(v)' = Past(v)
    BY <1>1, <1>3 DEF Past
  <1>8. CASE v # w
    <2>1. m.doc # DocOf(v)
      BY <1>1, <1>4, <1>8
    <2>2. \A i \in Wanted(v) : RowsOf(Wants(v, i))' = RowsOf(Wants(v, i))
      BY <1>5, <1>6, <2>1
    <2>3. stage'[v] = stage[v]
      BY <1>8, OneHandler
    <2>4. \A i : Recorded(v, i)' <=> Recorded(v, i)
      BY <1>1, <1>7, <2>3 DEF Recorded, At
    <2> QED
      BY <1>1, <1>2, <1>3, <1>4, <2>1, <2>2, <2>4 DEF RecordPlan, At
  <1>9. CASE v = w /\ pc[w] = "section"
    <2>1. m = Wants(v, Past(v) + 1) /\ Past(v) + 1 \in Wanted(v)
      BY <1>1, <1>9
    <2>2. \A i \in Wanted(v) :
            IF Recorded(v, i) THEN \E j \in DOMAIN movements : RowsOf(Wants(v, i)) = {j}
                              ELSE RowsOf(Wants(v, i)) = {}
      BY <1>4, <1>9 DEF RecordPlan
    <2>3. ASSUME NEW i \in Wanted(v)
          PROVE  IF Recorded(v, i)' THEN \E j \in DOMAIN movements' : RowsOf(Wants(v, i))' = {j}
                                    ELSE RowsOf(Wants(v, i))' = {}
      <3>1. CASE i = Past(v) + 1
        <4>1. ~ Recorded(v, i)
          <5>1. ~ (i <= Past(v))
            <6>1. Len(calls[v]) \in Nat /\ Len(CallsOf(v)) \in Nat
              BY CallLines, LenProperties DEF TypeOK, HandlersTypeOK
            <6>2. Past(v) \in Int
              BY <6>1 DEF Past
            <6> QED
              BY <3>1, <6>2
          <5> QED
            BY <1>1, <1>9, <5>1 DEF Recorded
        <4>2. RowsOf(Wants(v, i))' = {n}
          BY <1>6, <2>1, <2>2, <3>1, <4>1
        <4>3. Recorded(v, i)'
          BY <1>1, <1>7, <1>9, <3>1 DEF Recorded, At
        <4> QED
          BY <1>2, <4>2, <4>3
      <3>2. CASE i # Past(v) + 1
        <4>1. RowsOf(Wants(v, i))' = RowsOf(Wants(v, i))
          BY <1>5, <1>6, <2>1, <3>2
        <4>2. Recorded(v, i)' <=> Recorded(v, i)
          BY <1>7, <3>2 DEF Recorded
        <4> QED
          BY <1>2, <2>2, <4>1, <4>2
      <3> QED
        BY <3>1, <3>2
    <2> QED
      BY <1>1, <1>3, <1>9, <2>3 DEF RecordPlan, At
  <1>10. CASE v = w /\ pc[w] = "undoing"
    BY <1>1, <1>10 DEF RecordPlan, At
  <1> QED
    BY <1>1, <1>8, <1>9, <1>10

\* The ledger keeps up with every handler.
LEMMA RecordStep ==
  ASSUME LinesApart, TypeOK, CallsInv, RecordInv, [Next]_vars
  PROVE  RecordInv'
  <1>1. CASE UNCHANGED vars \/ \E n \in LockName : LockExpires(n)
    <2>1. UNCHANGED <<movements, calls, pc, stage, call, tries>>
      BY <1>1 DEF LockExpires, vars, repoVars, requestVars, sectionVars
    <2>2. OwnDocs'
      <3>1. \A v \in Worker : DocOf(v)' = DocOf(v)
        BY PlansConstant
      <3> QED
        BY <2>1, <3>1 DEF RecordInv, OwnDocs
    <2>3. \A v \in Worker : ListPlan(v)'
      BY <2>1, ListStays DEF RecordInv
    <2>4. ASSUME NEW v \in Worker PROVE RecordPlan(v)'
      <3>1. Sole(v)' => Sole(v)
        <4>1. \A u \in Worker : DocOf(u)' = DocOf(u)
          BY PlansConstant
        <4> QED
          BY <2>1, <4>1 DEF Sole, Op
      <3>2. Past(v)' = Past(v)
        BY <2>1, PlansConstant DEF Past
      <3>3. \A i \in Wanted(v) : Recorded(v, i)' <=> Recorded(v, i)
        BY <2>1, <3>2 DEF Recorded, At
      <3> QED
        BY <2>1, <3>1, <3>3, RecordSame DEF RecordInv
    <2> QED
      BY <2>2, <2>3, <2>4 DEF RecordInv
  <1>2. ASSUME NEW w \in Worker, Submit(w) \/ HandlerStep(w) \/ Crash(w) PROVE RecordInv'
    <2>1. /\ \A v \in Worker \ {w} : /\ pc'[v] = pc[v] /\ calls'[v] = calls[v]
                                     /\ stage'[v] = stage[v] /\ call'[v] = call[v]
                                     /\ tries'[v] = tries[v]
      BY <1>2, OtherHandlers, OneHandler, TriesStep
    <2>2. OwnDocs'
      BY <1>2, DocsStep DEF RecordInv
    <2>3. ASSUME NEW v \in Worker PROVE ListPlan(v)'
      <3>1. CASE v = w
        BY <1>2, <3>1, ListStep DEF RecordInv
      <3>2. CASE v # w
        BY <2>1, <3>2, ListStays DEF RecordInv
      <3> QED
        BY <3>1, <3>2
    <2>4. ASSUME NEW v \in Worker PROVE RecordPlan(v)'
      <3>1. CASE PostMovement(w) /\ (Submit(w) \/ HandlerStep(w))
        BY <3>1, RecordPost DEF RecordInv
      <3>2. CASE ~ PostMovement(w) /\ v = w
        BY <1>2, <3>2, RecordQuiet DEF RecordInv
      <3>3. CASE ~ PostMovement(w) /\ v # w
        <4>1. UNCHANGED movements
          BY <1>2, <3>3, LedgerStays
        <4>2. Sole(v)' => Sole(v)
          BY <1>2, <3>3, SoleBefore
        <4>3. Past(v)' = Past(v)
          BY <2>1, <3>3, PlansConstant DEF Past
        <4>4. \A i \in Wanted(v) : Recorded(v, i)' <=> Recorded(v, i)
          BY <2>1, <3>3, <4>3 DEF Recorded, At
        <4> QED
          BY <2>1, <3>3, <4>1, <4>2, <4>4, RecordSame DEF RecordInv
      <3>4. ~ (PostMovement(w) /\ Crash(w))
        BY DEF PostMovement, InsertMovement, Crash, repoVars, TypeOK, RepoTypeOK
      <3> QED
        BY <1>2, <3>1, <3>2, <3>3, <3>4
    <2> QED
      BY <2>2, <2>3, <2>4 DEF RecordInv
  <1> QED
    BY <1>1, <1>2 DEF Next

\* Every transfer has a reference of its own (service.go:278).
RefsApart ==
  \A v, w \in Worker :
    Op(v, "transfer") /\ Op(w, "transfer") /\ Request[v].ref = Request[w].ref => v = w

\* Nothing is recorded at first, and nobody has been asked for anything.
LEMMA RecordInit == Init => RecordInv
  <1> SUFFICES ASSUME Init PROVE RecordInv
    OBVIOUS
  <1>1. /\ movements = <<>> /\ pc = [v \in Worker |-> "waiting"]
        /\ calls = [v \in Worker |-> <<>>] /\ tries = [v \in Worker |-> 0]
        /\ stage = [v \in Worker |-> "idle"]
    BY DEF Init, SectionInit
  <1>2. OwnDocs
    BY <1>1 DEF OwnDocs
  <1>3. ASSUME NEW v \in Worker PROVE ListPlan(v)
    BY <1>1, NothingLeft DEF ListPlan, At, Past, Unfinished, AfterCheck
  <1>4. \A v \in Worker : RecordPlan(v)
    BY <1>1 DEF RecordPlan, Sole
  <1> QED
    BY <1>2, <1>3, <1>4 DEF RecordInv

\* What the ledger then shows of the answers.
LEMMA RecordTells ==
  ASSUME LinesApart, RefsApart, RecordInv
  PROVE  AnsweredIsRecorded
  <1> SUFFICES ASSUME NEW w \in Worker, pc[w] = "ok", tries[w] = 1
               PROVE  LET r == Request[w]
                      IN  CASE r.op = "transfer" ->
                                 /\ Posted1("TRANSFER_OUT", <<r.product, r.from>>, r.qty,
                                            <<"TRANSFER", r.ref>>)
                                 /\ Posted1("TRANSFER_IN", <<r.product, r.to>>, r.qty,
                                            <<"TRANSFER", r.ref>>)
                            [] r.op = "receive" ->
                                 (\A v \in Worker \ {w} :
                                    Op(v, "receive") /\ ReceiptDoc(v) = ReceiptDoc(w)
                                      => tries[v] = 0) =>
                                   \A i \in DOMAIN r.items : r.items[i].qty > 0 =>
                                     Posted1("PURCHASE_IN", <<r.items[i].product, r.wh>>,
                                             StockQty(r.items[i].product, r.items[i].qty),
                                             ReceiptDoc(w))
                            [] OTHER -> TRUE
    BY DEF AnsweredIsRecorded
  <1> DEFINE r == Request[w]
  <1>1. /\ calls[w] = <<>>
        /\ Op(w, "transfer") => r.qty > 0
        /\ Sole(w) => \A i \in Wanted(w) :
             IF Recorded(w, i) THEN \E j \in DOMAIN movements : RowsOf(Wants(w, i)) = {j}
                               ELSE RowsOf(Wants(w, i)) = {}
    BY DEF RecordInv, ListPlan, RecordPlan, At
  <1>2. ASSUME NEW i \in Wanted(w) PROVE Recorded(w, i)
    <2>1. Past(w) = Len(CallsOf(w))
      <3>1. Len(<<>>) = 0
        OBVIOUS
      <3> QED
        BY <1>1, <3>1, CallLines DEF Past
    <2> QED
      BY <2>1, CallLines DEF Recorded, Wanted
  <1>3. ASSUME Sole(w), NEW i \in Wanted(w), NEW m, m = Wants(w, i)
        PROVE  Cardinality({j \in DOMAIN movements : movements[j] = m}) = 1
    <2>1. PICK j : RowsOf(Wants(w, i)) = {j}
      BY <1>1, <1>2, <1>3
    <2> QED
      BY <1>3, <2>1, FS_Singleton DEF RowsOf
  <1>4. ASSUME Op(w, "transfer")
        PROVE  /\ Posted1("TRANSFER_OUT", <<r.product, r.from>>, r.qty, <<"TRANSFER", r.ref>>)
               /\ Posted1("TRANSFER_IN", <<r.product, r.to>>, r.qty, <<"TRANSFER", r.ref>>)
    <2>1. ASSUME NEW v \in Worker \ {w} PROVE DocOf(v) # DocOf(w)
      <3>1. DocOf(w) = <<"TRANSFER", r.ref>>
        BY <1>4 DEF DocOf, Op
      <3>2. CASE Op(v, "transfer")
        <4>1. DocOf(v) = <<"TRANSFER", Request[v].ref>>
          BY <3>2 DEF DocOf, Op
        <4>2. Request[v].ref # r.ref
          BY <1>4, <2>1, <3>2 DEF RefsApart
        <4> QED
          BY <3>1, <4>1, <4>2
      <3>3. CASE Op(v, "receive")
        <4>1. DocOf(v) = <<Request[v].type, Request[v].doc>>
          BY <3>3 DEF DocOf, Op, ReceiptDoc
        <4>2. Request[v].type # "TRANSFER"
          BY <3>3, RequestsAssumption DEF RequestOK, Op
        <4> QED
          BY <3>1, <4>1, <4>2
      <3>4. CASE ~ Op(v, "transfer") /\ ~ Op(v, "receive")
        <4>1. DocOf(v) = <<"MANUAL", NoDoc>>
          BY <3>4 DEF DocOf
        <4> QED
          BY <3>1, <4>1
      <3> QED
        BY <3>2, <3>3, <3>4
    <2>2. Sole(w)
      BY <1>4, <2>1 DEF Sole
    <2>3. 1 \in Wanted(w) /\ 2 \in Wanted(w)
      BY <1>1, <1>4, WantedRows DEF Wanted
    <2> QED
      BY <1>3, <1>4, <2>2, <2>3, WantedRows DEF Posted1
  <1>5. ASSUME Op(w, "receive"),
               \A v \in Worker \ {w} :
                 Op(v, "receive") /\ ReceiptDoc(v) = ReceiptDoc(w) => tries[v] = 0,
               NEW i \in DOMAIN r.items, r.items[i].qty > 0
        PROVE  Posted1("PURCHASE_IN", <<r.items[i].product, r.wh>>,
                       StockQty(r.items[i].product, r.items[i].qty), ReceiptDoc(w))
    <2>1. ASSUME NEW v \in Worker \ {w}, DocOf(v) = DocOf(w) PROVE tries[v] = 0
      <3>1. DocOf(w) = ReceiptDoc(w) /\ ReceiptDoc(w) = <<r.type, r.doc>>
        BY <1>5 DEF DocOf, Op, ReceiptDoc
      <3>2. r.type \in {"PURCHASE_ORDER", "INVOICE"}
        BY <1>5, RequestsAssumption DEF RequestOK, Op
      <3>3. CASE Op(v, "receive")
        <4>1. DocOf(v) = ReceiptDoc(v)
          BY <3>3 DEF DocOf, Op
        <4> QED
          BY <1>5, <2>1, <3>1, <3>3, <4>1
      <3>4. CASE Op(v, "transfer")
        <4>1. DocOf(v) = <<"TRANSFER", Request[v].ref>>
          BY <3>4 DEF DocOf, Op
        <4> QED
          BY <2>1, <3>1, <3>2, <4>1
      <3>5. CASE ~ Op(v, "transfer") /\ ~ Op(v, "receive")
        <4>1. DocOf(v) = <<"MANUAL", NoDoc>>
          BY <3>5 DEF DocOf
        <4> QED
          BY <2>1, <3>1, <3>2, <4>1
      <3> QED
        BY <3>3, <3>4, <3>5
    <2>2. Sole(w)
      BY <1>5, <2>1 DEF Sole
    <2>3. i \in Wanted(w)
      BY <1>5, WantedRows DEF Wanted
    <2> QED
      BY <1>3, <1>5, <2>2, <2>3, WantedRows DEF Posted1
  <1> HIDE DEF r
  <1>6. (Op(w, "transfer") <=> Request[w].op = "transfer")
        /\ (Op(w, "receive") <=> Request[w].op = "receive")
    BY DEF Op
  <1> QED
    BY <1>4, <1>5, <1>6 DEF r

\* A transfer that succeeded at its first try has its two movements in the ledger
\* (service.go:262-287), and so has each line of a receipt that succeeded at its
\* first try while nobody else had received the document (303-314, 329-340),
\* whatever fails, dies or expires, if every transfer has its own reference and
\* no receipt names a product on two lines.  A receipt that is repeated, or that
\* finds movements of its document, may succeed with lines missing.
THEOREM RequestsRecorded ==
  ASSUME LinesApart, RefsApart
  PROVE  Spec => []AnsweredIsRecorded
  <1>1. Init => RecordInv
    BY RecordInit
  <1>2. TypeOK /\ CallsInv /\ RecordInv /\ [Next]_vars => RecordInv'
    BY RecordStep
  <1>3. RecordInv => AnsweredIsRecorded
    BY RecordTells
  <1>4. Init => CallsInv
    BY InitCalls
  <1>5. TypeOK /\ CallsInv /\ [Next]_vars => CallsInv'
    BY CallsStep
  <1> QED
    BY <1>1, <1>2, <1>3, <1>4, <1>5, RequestsTypeCorrect, PTL DEF Spec
=============================================================================

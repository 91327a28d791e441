------------------------------- MODULE Catalog -------------------------------
(***************************************************************************)
(* What the service registers: products with their units and prices, the   *)
(* history of prices, assemblies (kits) with the price computed from their *)
(* items, and warehouses (internal/application/service.go, postgres/       *)
(* catalog_repo.go, mongo/product_repo.go).  A worker is the goroutine of  *)
(* one HTTP request; none of these operations takes a lock.  Request[w] is *)
(*   [op : "price", list, product, price]      list "sale" or "purchase"   *)
(*   [op : "apply" or "recalc", kit]                                       *)
(*   [op : "addKit" or "editKit", kit, code, product, margin, cost, price, *)
(*         items], items a sequence of [product, qty, price]               *)
(*   [op : "addProduct", product, code, named, units, sale, purchase]      *)
(*   [op : "editProduct", product, named, units]                           *)
(*   [op : "addWarehouse", warehouse, code, named]                         *)
(*   [op : "editWarehouse", warehouse, code]                               *)
(* where named stands for the checks of names and kinds.  The id of what a *)
(* request adds is chosen by the code; here the request brings it.         *)
(***************************************************************************)
EXTENDS UnitsOfMeasure, SequencesExt

CONSTANTS
  Product, Assembly, WarehouseId,
  Worker, Unreliable,  \* the workers, and those whose statements may fail
  Request,
  Products0, Assemblies0, Warehouses0,   \* what is registered at first
  NoProduct,
  LastSku,             \* the last number the sequence of SKUs gave out before
  MaxMargin,           \* margin_percent is below it: 10000 for NUMERIC(8,4)
  MaxRequests          \* bound: how many of the requests are made

NoCode == 0
NoDraft == <<>>
Kind == {"product", "assembly", "warehouse"}

ASSUME ConstantsAssumption ==
  /\ Unreliable \subseteq Worker
  /\ LastSku \in Nat /\ MaxMargin \in Nat /\ MaxRequests \in Nat
  /\ NoProduct \notin Product
  /\ DOMAIN Products0 \subseteq Product /\ DOMAIN Assemblies0 \subseteq Assembly
  /\ DOMAIN Warehouses0 \subseteq WarehouseId
  /\ IsFiniteSet(DOMAIN Assemblies0) /\ IsFiniteSet(DOMAIN Warehouses0)

VARIABLES
  prods,    \* id -> [code, sale, purchase, units]; code is the SKU
  kits,     \* id -> [code, product, margin, cost, price, items]
  houses,   \* id -> code
  history,  \* the rows of both price histories, in the order of insertion
  counter,  \* kind -> the last number its sequence gave out
  pc,       \* worker -> where its handler is
  draft     \* worker -> what its handler has in memory

tables == <<prods, kits, houses, history>>
vars == <<tables, counter, pc, draft>>

Op(w) == Request[w].op
At(w, label) == pc[w] = label
Jump(w, label) == pc' = [pc EXCEPT ![w] = label]
Hold(w, d) == draft' = [draft EXCEPT ![w] = d]
Put(f, x, v) == [y \in DOMAIN f \cup {x} |-> IF y = x THEN v ELSE f[y]]

\* Where a request starts, by its operation.
First(op) ==
  CASE op = "price" -> "get"
    [] op \in {"apply", "recalc"} -> "head"
    [] op \in {"addKit", "addProduct", "addWarehouse"} -> "draw"
    [] op = "editKit" -> "replace"
    [] op = "editProduct" -> "current"
    [] op = "editWarehouse" -> "rename"
Reading == {"get", "head", "items", "item", "current"}
Writing == {"draw", "insert", "replace", "update", "rename", "write", "set", "record"}
Statement == Reading \cup Writing

\* The code a row gets: the one the request names, or the sequence's next.
Typed(w) == Request[w].code # NoCode
Coded(kind) == CASE kind = "product" -> {"addProduct"}
                 [] kind = "assembly" -> {"addKit", "editKit"}
                 [] kind = "warehouse" -> {"addWarehouse", "editWarehouse"}
KindOf(w) == CHOOSE kind \in Kind : Op(w) \in Coded(kind)

Codes(kind) == CASE kind = "product" -> {prods[p].code : p \in DOMAIN prods}
                 [] kind = "assembly" -> {kits[a].code : a \in DOMAIN kits}
                 [] kind = "warehouse" -> {houses[h] : h \in DOMAIN houses}

Init ==
  /\ prods = Products0 /\ kits = Assemblies0 /\ houses = Warehouses0
  /\ history = <<>>
  \* migrations/003: the sequences of Postgres start at the largest code in use.
  /\ counter = [kind \in Kind |-> IF kind = "product" THEN LastSku
                                 ELSE Max(Codes(kind) \cup {0})]
  /\ pc = [w \in Worker |-> "waiting"]
  /\ draft = [w \in Worker |-> NoDraft]

Submit(w) ==
  /\ At(w, "waiting")
  /\ Cardinality({v \in Worker : ~At(v, "waiting")}) < MaxRequests
  /\ Jump(w, First(Op(w)))
  /\ UNCHANGED <<tables, counter, draft>>

\* A statement fails, or does not find its row: the request ends with an error,
\* and what it has written stays written.
Fail(w) == Jump(w, "failed") /\ UNCHANGED <<tables, counter, draft>>
StatementFails(w) == w \in Unreliable /\ pc[w] \in Statement /\ Fail(w)

(***************************************************************************)
(* Validation                                                              *)
(***************************************************************************)

\* Mutant of Convertible: a conversion without a factor will do.
ConvertibleByName(units) ==
  LET n == Normalized(units)
  IN  n.purchase = n.sale \/ \E i \in DOMAIN n.convs : n.convs[i].from = n.purchase

\* validateConversions of a normalised product.  Whether a conversion exists
\* does not depend on the quantity.
Convertible(units) ==
  LET n == Normalized(units)
  IN  n.purchase = n.sale \/ Usable(n.purchase, n.sale, n.convs) # {}

WellFormed(r) ==
  CASE r.op \in {"addProduct", "editProduct"} -> r.named /\ Convertible(r.units)
    [] r.op = "addWarehouse" -> r.named
    [] r.op \in {"addKit", "editKit"} ->
         /\ r.items # <<>> /\ (r.op = "editKit" => r.code # NoCode)
         /\ \A i \in DOMAIN r.items : r.items[i].qty > 0
    [] OTHER -> TRUE

\* Products and warehouses are validated before a code is drawn, assemblies
\* with the code they got, edits of products after the product was read.
Checkpoint(op) == CASE op \in {"addProduct", "addWarehouse"} -> "draw"
                    [] op = "addKit" -> "insert"
                    [] op = "editProduct" -> "update"
                    [] OTHER -> First(op)
Refuse(w) == At(w, Checkpoint(Op(w))) /\ ~WellFormed(Request[w]) /\ Fail(w)
Valid(w) == At(w, Checkpoint(Op(w))) => WellFormed(Request[w])

(***************************************************************************)
(* Creating and editing                                                    *)
(***************************************************************************)

\* Mutant of NextNumber: the number after the largest code in use.
NextUnused(kind) == Max(Codes(kind) \cup {0}) + 1

NextNumber(kind) == counter[kind] + 1

DrawCode(w) ==
  /\ At(w, "draw") /\ Valid(w)
  /\ IF Typed(w)
     THEN Hold(w, [code |-> Request[w].code]) /\ UNCHANGED counter
     ELSE /\ Hold(w, [code |-> NextNumber(KindOf(w))])
          /\ counter' = [counter EXCEPT ![KindOf(w)] = NextNumber(KindOf(w))]
  /\ Jump(w, "insert")
  /\ UNCHANGED tables

AsSent(r, code) == [code |-> code, product |-> r.product, margin |-> r.margin,
                    cost |-> r.cost, price |-> r.price, items |-> r.items]

\* Mutant of Fits: the column holds any margin.
FitsAny(kit) == TRUE

Fits(kit) == kit.margin < MaxMargin

\* A code in use, or the id of another product, is refused by the unique index
\* (ErrConflict), a margin that does not fit by its column.
Insertable(w) ==
  /\ draft[w].code \notin Codes(KindOf(w))
  /\ Op(w) = "addProduct" => Request[w].product \notin DOMAIN prods
  /\ Op(w) = "addKit" => Request[w].margin < MaxMargin

Insert(w) ==
  /\ At(w, "insert") /\ Valid(w) /\ Insertable(w)
  /\ LET r == Request[w]
     IN  CASE r.op = "addProduct" ->
                /\ prods' = Put(prods, r.product,
                     [code |-> draft[w].code, sale |-> r.sale, purchase |-> r.purchase,
                      units |-> Normalized(r.units)])
                /\ UNCHANGED <<kits, houses>>
           [] r.op = "addKit" ->
                /\ kits' = Put(kits, r.kit, AsSent(r, draft[w].code))
                /\ UNCHANGED <<prods, houses>>
           [] r.op = "addWarehouse" ->
                /\ houses' = Put(houses, r.warehouse, draft[w].code)
                /\ UNCHANGED <<prods, kits>>
  /\ Jump(w, IF Op(w) = "addKit" THEN "head" ELSE "ok")
  /\ Hold(w, NoDraft)
  /\ UNCHANGED <<history, counter>>
NotInserted(w) == At(w, "insert") /\ Valid(w) /\ ~Insertable(w) /\ Fail(w)

\* The first write of UpdateAssembly; it stores what the client sent.
Replace(w) ==
  /\ At(w, "replace") /\ Valid(w)
  /\ LET r == Request[w]
     IN  IF /\ r.kit \in DOMAIN kits
            /\ \A a \in DOMAIN kits \ {r.kit} : kits[a].code # r.code
            /\ r.margin < MaxMargin
         THEN /\ kits' = [kits EXCEPT ![r.kit] = AsSent(r, r.code)]
              /\ Jump(w, "head")
              /\ UNCHANGED <<prods, houses, history, counter, draft>>
         ELSE Fail(w)

Current(w) ==
  /\ At(w, "current")
  /\ IF Request[w].product \in DOMAIN prods
     THEN /\ Hold(w, prods[Request[w].product])
          /\ Jump(w, "update")
          /\ UNCHANGED <<tables, counter>>
     ELSE Fail(w)

\* Mutant of Edited: the document is written back as it was read.
EditedWhole(p, cur, units) == [cur EXCEPT !.units = units]

\* The fields UpdateByID sets: not the prices, and the SKU that was read.
Edited(p, cur, units) == [prods[p] EXCEPT !.units = units, !.code = cur.code]

UpdateProduct(w) ==
  /\ At(w, "update") /\ Valid(w)
  /\ prods' = [prods EXCEPT ![Request[w].product] =
                 Edited(Request[w].product, draft[w], Normalized(Request[w].units))]
  /\ Jump(w, "ok")
  /\ Hold(w, NoDraft)
  /\ UNCHANGED <<kits, houses, history, counter>>

UpdateWarehouse(w) ==
  /\ At(w, "rename")
  /\ LET r == Request[w]
     IN  IF /\ r.warehouse \in DOMAIN houses
            /\ \A h \in DOMAIN houses \ {r.warehouse} : houses[h] # r.code
         THEN /\ houses' = [houses EXCEPT ![r.warehouse] = r.code]
              /\ Jump(w, "ok")
              /\ UNCHANGED <<prods, kits, history, counter, draft>>
         ELSE Fail(w)

(***************************************************************************)
(* RecalculateAssembly: GetAssembly reads the head and the items in two    *)
(* statements, then every item's product is read, and the whole assembly   *)
(* is written back.                                                        *)
(***************************************************************************)
ReadHead(w) ==
  /\ At(w, "head")
  /\ IF Request[w].kit \in DOMAIN kits
     THEN /\ Hold(w, [kit |-> [kits[Request[w].kit] EXCEPT !.cost = 0, !.items = <<>>],
                      left |-> <<>>])
          /\ Jump(w, "items")
          /\ UNCHANGED <<tables, counter>>
     ELSE Fail(w)

ReadItems(w) ==
  /\ At(w, "items")
  /\ Hold(w, [kit |-> [draft[w].kit EXCEPT !.items = kits[Request[w].kit].items],
              left |-> kits[Request[w].kit].items])
  /\ Jump(w, "item")
  /\ UNCHANGED <<tables, counter>>

\* An item is counted in stock units, its product is bought in purchase units;
\* without a conversion the quantity is taken as it is.
PurchaseQty(units, qty) ==
  LET converted == Convert(qty, units.sale, units.purchase, units.convs)
  IN  IF converted = NoConversion THEN qty ELSE converted
ItemCost(item) ==
  PurchaseQty(prods[item.product].units, item.qty) * prods[item.product].purchase

PriceItem(w) ==
  /\ At(w, "item") /\ draft[w].left # <<>>
  /\ LET item == Head(draft[w].left)
     IN  IF item.product \in DOMAIN prods
         THEN /\ Hold(w, [kit |-> [draft[w].kit EXCEPT !.cost = @ + ItemCost(item)],
                          left |-> Tail(draft[w].left)])
              /\ UNCHANGED <<tables, counter, pc>>
         ELSE Fail(w)

ItemPrices(items) == SumFunction([i \in DOMAIN items |-> items[i].price])
HasItemPrices(items) == \E i \in DOMAIN items : items[i].price > 0

\* The suggested price, and the margin it amounts to.
Suggested(kit) == IF HasItemPrices(kit.items) THEN ItemPrices(kit.items)
                  ELSE (kit.cost * (100 + kit.margin)) \div 100
Margin(kit) == IF HasItemPrices(kit.items) /\ kit.cost > 0
               THEN (ItemPrices(kit.items) * 100) \div kit.cost - 100 ELSE kit.margin
Priced(kit) ==
  [code |-> kit.code, product |-> kit.product, margin |-> Margin(kit), cost |-> kit.cost,
   price |-> Suggested(kit), items |-> kit.items]

\* Mutant of Stored: the items are left as they are in the table.
StoredHead(a, kit) == [kit EXCEPT !.items = kits[a].items]

\* The row and the items are replaced in one transaction.
Stored(a, kit) == kit

\* What to register when ApplyAssemblyPrice goes on to RegisterSalePrice.
\* Mutant of SalePriceOf: the price before the recalculation.
SalePriceBefore(kit) == [list |-> "sale", product |-> kit.product, price |-> kit.price]
SalePriceOf(kit) ==
  [list |-> "sale", product |-> kit.product, price |-> Priced(kit).price]

WriteKit(w) ==
  /\ At(w, "item") /\ draft[w].left = <<>>
  /\ LET kit == Priced(draft[w].kit)
         a == Request[w].kit
     IN  IF Fits(kit) /\ \A b \in DOMAIN kits \ {a} : kits[b].code # kit.code
         THEN /\ kits' = [kits EXCEPT ![a] = Stored(a, kit)]
              /\ IF Op(w) # "apply" THEN Jump(w, "ok") /\ Hold(w, NoDraft)
                 ELSE IF kit.product = NoProduct THEN Jump(w, "failed") /\ Hold(w, NoDraft)
                 ELSE Jump(w, "get") /\ Hold(w, SalePriceOf(draft[w].kit))
              /\ UNCHANGED <<prods, houses, history, counter>>
         ELSE Fail(w)

(***************************************************************************)
(* RegisterSalePrice and RegisterPurchasePrice                             *)
(***************************************************************************)
Order(w) == IF Op(w) = "apply" THEN draft[w]
            ELSE [list |-> Request[w].list, product |-> Request[w].product,
                  price |-> Request[w].price]
PriceOf(list, p) == IF list = "sale" THEN prods[p].sale ELSE prods[p].purchase

GetPrice(w) ==
  /\ At(w, "get")
  /\ LET o == Order(w)
     IN  IF o.product \in DOMAIN prods
         THEN /\ Hold(w, [list |-> o.list, product |-> o.product, code |-> prods[o.product].code,
                          prev |-> PriceOf(o.list, o.product), new |-> o.price])
              /\ Jump(w, "set")
              /\ UNCHANGED <<tables, counter>>
         ELSE Fail(w)

SetPrice(w) ==
  /\ At(w, "set")
  /\ prods' = [prods EXCEPT ![draft[w].product] =
                 IF draft[w].list = "sale" THEN [@ EXCEPT !.sale = draft[w].new]
                 ELSE [@ EXCEPT !.purchase = draft[w].new]]
  /\ Jump(w, "record")
  /\ UNCHANGED <<kits, houses, history, counter, draft>>

\* Mutant of HistoryRow: the previous price is read when the row is written.
HistoryRowLate(d) == [d EXCEPT !.prev = PriceOf(d.list, d.product)]

HistoryRow(d) == d

RecordPrice(w) ==
  /\ At(w, "record")
  /\ history' = Append(history, HistoryRow(draft[w]))
  /\ Jump(w, "ok")
  /\ UNCHANGED <<prods, kits, houses, counter, draft>>

Creation(w) == DrawCode(w) \/ Insert(w) \/ NotInserted(w)
Edit(w) == Replace(w) \/ Current(w) \/ UpdateProduct(w) \/ UpdateWarehouse(w)
Recalculation(w) == ReadHead(w) \/ ReadItems(w) \/ PriceItem(w) \/ WriteKit(w)
Registration(w) == GetPrice(w) \/ SetPrice(w) \/ RecordPrice(w)
Step(w) ==
  /\ pc[w] \in Statement
  /\ \/ StatementFails(w) \/ Refuse(w)
     \/ Creation(w) \/ Edit(w) \/ Recalculation(w) \/ Registration(w)

\* What is registered at first went through these operations too.
ASSUME OpeningAssumption ==
  /\ \A p \in DOMAIN Products0 :
       LET row == Products0[p]
       IN  /\ DOMAIN row = {"code", "sale", "purchase", "units"}
           /\ row.units = Normalized(row.units) /\ Convertible(row.units)
           /\ ConversionsOK(row.units.convs)
  /\ \A a \in DOMAIN Assemblies0 :
       /\ Assemblies0[a] = Priced(Assemblies0[a])
       /\ Assemblies0[a].code \in Nat /\ Assemblies0[a].margin < MaxMargin
  /\ \A h \in DOMAIN Warehouses0 : Warehouses0[h] \in Nat

\* The ids of new assemblies and warehouses are fresh: Postgres draws them.
ASSUME RequestAssumption ==
  \A w \in Worker :
    /\ Op(w) \in {"price", "apply", "recalc", "addKit", "editKit", "addProduct", "editProduct",
                 "addWarehouse", "editWarehouse"}
    /\ Op(w) \in {"addProduct", "editProduct"} => ConversionsOK(Request[w].units.convs)
    /\ Op(w) = "price" => Request[w].list \in {"sale", "purchase"}
    /\ Op(w) = "addProduct" => Request[w].product \in Product
    /\ Op(w) = "addKit" =>
         /\ Request[w].kit \in Assembly \ DOMAIN Assemblies0
         /\ \A v \in Worker \ {w} : Op(v) = "addKit" => Request[v].kit # Request[w].kit
    /\ Op(w) = "addWarehouse" =>
         /\ Request[w].warehouse \in WarehouseId \ DOMAIN Warehouses0
         /\ \A v \in Worker \ {w} :
              Op(v) = "addWarehouse" => Request[v].warehouse # Request[w].warehouse

Next == \E w \in Worker : Submit(w) \/ Step(w)

Spec == Init /\ [][Next]_vars

(***************************************************************************)
(* Properties                                                              *)
(***************************************************************************)

\* The tables stay well typed, and no margin is stored that its column cannot
\* hold (migrations/002_pricing.sql).
TypeOK ==
  /\ DOMAIN prods \subseteq Product /\ DOMAIN houses \subseteq WarehouseId
  /\ DOMAIN kits \subseteq Assembly /\ \A a \in DOMAIN kits : kits[a].margin < MaxMargin
  /\ counter \in [Kind -> Nat]
  /\ pc \in [Worker -> Statement \cup {"waiting", "ok", "failed"}]

\* A stored product converts between the unit it is bought in and the unit it
\* is kept in, both ways, although products are created and edited at once: no
\* receipt (service.go:457-464) and no cost of a kit (service.go:660-664) meets
\* a missing conversion.
StoredProductsConvert ==
  \A p \in DOMAIN prods :
    LET u == prods[p].units
    IN  /\ Convert(1, u.purchase, u.sale, u.convs) # NoConversion
        /\ Convert(1, u.sale, u.purchase, u.convs) # NoConversion

\* Apart from W, the requests that write kit a have one of the answers.
Settled(a, W, answers) ==
  \A w \in Worker \ W :
    pc[w] \notin answers => Op(w) \notin {"addKit", "editKit", "apply", "recalc"}
                             \/ Request[w].kit # a

\* A kit at rest costs the sum of its item prices, or its cost and margin when
\* it has none (service.go:672-675), whichever edits and recalculations of it
\* ran at once, unless one of them failed.
KitPriced ==
  \A a \in DOMAIN kits :
    Settled(a, {}, {"waiting", "ok"}) => kits[a] = Priced(kits[a])

\* The requests that have begun to register a price of the product.
Registers(w, list, p) ==
  /\ Op(w) \in {"price", "apply"} /\ "prev" \in DOMAIN draft[w]
  /\ draft[w].list = list /\ draft[w].product = p
OnlyRegistrar(w) ==
  \A v \in Worker \ {w} : ~Registers(v, draft[w].list, draft[w].product)
Set(w) == pc[w] \in {"record", "ok"} /\ Op(w) \in {"price", "apply"}

\* A price somebody set stays until somebody sets another: edits of the product
\* that read it before keep it (product_repo.go:46-60).
PriceKept ==
  \A w \in Worker : Set(w) /\ OnlyRegistrar(w) =>
    PriceOf(draft[w].list, draft[w].product) = draft[w].new

\* A registration that was answered with success is in the history, with the
\* price the product had before when nobody else registered one.
HistoryTruthful ==
  \A w \in Worker : At(w, "ok") /\ Set(w) =>
    LET d == draft[w]
    IN  \E i \in DOMAIN history :
          /\ history[i].product = d.product /\ history[i].list = d.list
          /\ history[i].new = d.new
          /\ OnlyRegistrar(w) /\ d.product \in DOMAIN Products0 =>
               history[i].prev = IF d.list = "sale" THEN Products0[d.product].sale
                                 ELSE Products0[d.product].purchase

\* A kit's price that was applied is the sale price of its product
\* (service.go:690-702) as long as nobody else wrote either.
AppliedPriceShown ==
  \A w \in Worker :
    At(w, "ok") /\ Op(w) = "apply" /\ OnlyRegistrar(w)
      /\ Settled(Request[w].kit, {w}, {"waiting"})
    => prods[draft[w].product].sale = kits[Request[w].kit].price

\* Two codes drawn from a sequence are never the same, however drawing and
\* inserting interleave and fail: who asked for no code is refused only for a
\* code somebody typed.
TypedCodes(kind) ==
  {Request[w].code : w \in {v \in Worker : Op(v) \in Coded(kind) /\ Typed(v)}}
DrawnCodesDiffer ==
  \A w \in Worker :
    /\ At(w, "insert") /\ ~Typed(w) /\ draft[w].code \in Codes(KindOf(w))
    => draft[w].code \in TypedCodes(KindOf(w))

\* The inductive form: a code that is stored, or that a handler has read and
\* may store again, was typed, or is not above the counter and not the one a
\* handler has drawn and is about to insert.
Drawn(w) == At(w, "insert") /\ ~Typed(w)
Holds(w, kind) ==
  CASE kind = "product" /\ At(w, "update") -> {draft[w].code}
    [] kind = "assembly" /\ pc[w] \in {"items", "item"} -> {draft[w].kit.code}
    [] OTHER -> {}
Claimed(kind) == Codes(kind) \cup UNION {Holds(w, kind) : w \in Worker}
KitRow == {"code", "product", "margin", "cost", "price", "items"}
CodesInv ==
  /\ DOMAIN draft = Worker
  /\ \A a \in DOMAIN kits : DOMAIN kits[a] = KitRow
  /\ \A w \in Worker : pc[w] \in {"items", "item"} => DOMAIN draft[w].kit = KitRow
  /\ \A w \in Worker : At(w, "insert") /\ Typed(w) => draft[w].code = Request[w].code
  /\ \A w \in Worker : Drawn(w) => draft[w].code \in 1 .. counter[KindOf(w)]
  /\ \A v, w \in Worker :
       Drawn(v) /\ Drawn(w) /\ KindOf(v) = KindOf(w) /\ draft[v].code = draft[w].code => v = w
  /\ \A kind \in Kind : \A c \in Claimed(kind) \ TypedCodes(kind) :
       /\ c \in 0 .. counter[kind]
       /\ \A w \in Worker : Drawn(w) /\ KindOf(w) = kind => draft[w].code # c
=============================================================================

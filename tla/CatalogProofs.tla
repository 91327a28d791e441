---------------------------- MODULE CatalogProofs ----------------------------
(***************************************************************************)
(* For any catalogue, requests, workers and failures: the tables keep      *)
(* their types, products convert, kits are priced by their items, drawn    *)
(* codes differ, a price that was set stays set and is in the history, and *)
(* the price of a kit that was applied is that of its product.             *)
(***************************************************************************)
EXTENDS Catalog, UnitProofs, SumProofs, SequenceTheorems

(***************************************************************************)
(* Where the handlers may be                                               *)
(***************************************************************************)

\* A request comes to a place only by its own operation; a product that is
\* about to be inserted has been validated.
KitWriter == {"addKit", "editKit", "apply", "recalc"}
Placed ==
  /\ DOMAIN pc = Worker
  /\ \A w \in Worker :
       /\ At(w, "update") \/ At(w, "current") => Op(w) = "editProduct"
       /\ At(w, "replace") => Op(w) = "editKit"
       /\ At(w, "rename") => Op(w) = "editWarehouse"
       /\ pc[w] \in {"head", "items", "item"} => Op(w) \in KitWriter
       /\ At(w, "draw") => Op(w) \in {"addKit", "addProduct", "addWarehouse"}
       /\ At(w, "insert") => Op(w) \in {"addKit", "addProduct", "addWarehouse"}
       /\ At(w, "insert") /\ Op(w) = "addProduct" => WellFormed(Request[w])

\* A handler that moves on to a place of its operation keeps this.
LEMMA MovesPlaced ==
  ASSUME Placed, NEW w \in Worker, NEW label, Jump(w, label),
         label \in {"update", "current"} => Op(w) = "editProduct",
         label = "replace" => Op(w) = "editKit",
         label = "rename" => Op(w) = "editWarehouse",
         label \in {"head", "items", "item"} => Op(w) \in KitWriter,
         label \in {"draw", "insert"} => Op(w) \in {"addKit", "addProduct", "addWarehouse"},
         label = "insert" /\ Op(w) = "addProduct" => WellFormed(Request[w])
  PROVE  Placed'
  <1>1. /\ pc' = [pc EXCEPT ![w] = label] /\ DOMAIN pc' = Worker /\ pc'[w] = label
        /\ \A v \in Worker \ {w} : pc'[v] = pc[v]
    BY DEF Jump, Placed
  <1>2. ASSUME NEW v \in Worker
        PROVE  /\ pc'[v] \in {"update", "current"} => Op(v) = "editProduct"
               /\ pc'[v] = "replace" => Op(v) = "editKit"
               /\ pc'[v] = "rename" => Op(v) = "editWarehouse"
               /\ pc'[v] \in {"head", "items", "item"} => Op(v) \in KitWriter
               /\ pc'[v] \in {"draw", "insert"} => Op(v) \in {"addKit", "addProduct", "addWarehouse"}
               /\ pc'[v] = "insert" /\ Op(v) = "addProduct" => WellFormed(Request[v])
    <2>1. CASE v = w
      BY <1>1, <2>1
    <2>2. CASE v # w
      BY <1>1, <2>2 DEF Placed, At
    <2> QED
      BY <2>1, <2>2
  <1> QED
    BY <1>1, <1>2 DEF Placed, At

\* The places a handler goes to, step by step.
LEMMA PlacedStep == Placed /\ [Next]_vars => Placed'
  <1> SUFFICES ASSUME Placed, [Next]_vars PROVE Placed'
    OBVIOUS
  <1>1. CASE UNCHANGED vars
    BY <1>1 DEF vars, Placed, At
  <1>2. ASSUME NEW w \in Worker, Submit(w) PROVE Placed'
    <2>1. Jump(w, First(Op(w)))
      BY <1>2 DEF Submit
    <2>2. /\ First(Op(w)) \in {"update", "current"} => Op(w) = "editProduct"
          /\ First(Op(w)) = "replace" => Op(w) = "editKit"
          /\ First(Op(w)) = "rename" => Op(w) = "editWarehouse"
          /\ First(Op(w)) \in {"head", "items", "item"} => Op(w) \in KitWriter
          /\ First(Op(w)) \in {"draw", "insert"} =>
               Op(w) \in {"addKit", "addProduct", "addWarehouse"}
          /\ First(Op(w)) # "insert"
      BY RequestAssumption DEF First, KitWriter
    <2> QED
      BY <2>1, <2>2, MovesPlaced
  <1>3. ASSUME NEW w \in Worker, Fail(w) PROVE Placed'
    BY <1>3, MovesPlaced DEF Fail
  <1>4. ASSUME NEW w \in Worker, Creation(w) PROVE Placed'
    <2>1. CASE DrawCode(w)
      <3>1. /\ Jump(w, "insert") /\ pc[w] = "draw"
            /\ Op(w) = "addProduct" => WellFormed(Request[w])
        BY <2>1 DEF DrawCode, Valid, At, Checkpoint
      <3> QED
        BY <3>1, MovesPlaced DEF Placed, At
    <2>2. CASE Insert(w)
      <3>1. (Jump(w, "head") /\ Op(w) \in KitWriter) \/ Jump(w, "ok")
        BY <2>2 DEF Insert, KitWriter
      <3> QED
        BY <3>1, MovesPlaced
    <2> QED
      BY <1>3, <1>4, <2>1, <2>2 DEF Creation, NotInserted
  <1>5. ASSUME NEW w \in Worker, Edit(w) PROVE Placed'
    <2>1. CASE Current(w)
      <3>1. (Jump(w, "update") \/ Fail(w)) /\ Op(w) = "editProduct"
        BY <2>1 DEF Current, Placed
      <3> QED
        BY <1>3, <3>1, MovesPlaced
    <2>2. CASE ~ Current(w)
      <3>1. (Jump(w, "head") /\ Op(w) \in KitWriter) \/ Jump(w, "ok") \/ Fail(w)
        BY <1>5, <2>2 DEF Edit, Replace, UpdateProduct, UpdateWarehouse, Placed, KitWriter
      <3> QED
        BY <1>3, <3>1, MovesPlaced
    <2> QED
      BY <2>1, <2>2
  <1>6. ASSUME NEW w \in Worker, Recalculation(w) \/ Registration(w) PROVE Placed'
    <2>1. CASE PriceItem(w) /\ UNCHANGED pc
      BY <2>1 DEF Placed, At
    <2>2. CASE ~ (PriceItem(w) /\ UNCHANGED pc)
      <3>1. \/ Fail(w)
            \/ \E label \in {"items", "item"} : Jump(w, label) /\ Op(w) \in KitWriter
            \/ \E label \in {"ok", "failed", "get", "set", "record"} : Jump(w, label)
        BY <1>6, <2>2 DEF Recalculation, ReadHead, ReadItems, PriceItem, WriteKit, Placed, At,
                          Registration, GetPrice, SetPrice, RecordPrice
      <3> QED
        BY <1>3, <3>1, MovesPlaced
    <2> QED
      BY <2>1, <2>2
  <1> QED
    BY <1>1, <1>2, <1>3, <1>4, <1>5, <1>6 DEF Next, Step, StatementFails, Refuse

(***************************************************************************)
(* Products                                                                *)
(***************************************************************************)

\* Units between which a product converts.
Sound(units) ==
  /\ ConversionsOK(units.convs)
  /\ units.purchase = units.sale \/ Usable(units.purchase, units.sale, units.convs) # {}
ProductRow == {"code", "sale", "purchase", "units"}
Sold(row) == DOMAIN row = ProductRow /\ Sound(row.units)
ProductsInv == Placed /\ \A p \in DOMAIN prods : Sold(prods[p])

\* validateProduct accepts no other units (service.go:538-546, 704-710).
LEMMA ConvertibleSound ==
  ASSUME NEW units, ConversionsOK(units.convs), Convertible(units)
  PROVE  Sound(Normalized(units))
  BY NormalizedOK DEF Convertible, Sound

\* They convert both ways.
LEMMA SoundConverts ==
  ASSUME NEW u, Sound(u)
  PROVE  /\ Convert(1, u.purchase, u.sale, u.convs) # NoConversion
         /\ Convert(1, u.sale, u.purchase, u.convs) # NoConversion
  <1>1. /\ Convert(1, u.purchase, u.sale, u.convs) \in Nat
        /\ Convert(1, u.sale, u.purchase, u.convs) \in Nat
    BY ConvertSome, UsableBothWays DEF Sound
  <1> QED
    BY <1>1 DEF NoConversion

\* A row whose price or code changes, or whose units are replaced.
LEMMA RowChanges ==
  ASSUME NEW row, Sold(row), NEW x
  PROVE  /\ Sold([row EXCEPT !.sale = x]) /\ Sold([row EXCEPT !.purchase = x])
         /\ \A units : Sound(units) => Sold([row EXCEPT !.units = units, !.code = x])
  BY DEF Sold, ProductRow

\* The products registered at first were validated too.
LEMMA ProductsInit == Init => ProductsInv
  BY OpeningAssumption, ConvertibleSound DEF Init, ProductsInv, Placed, At, Sold, ProductRow

\* No step stores a product that does not convert: what a handler validated is
\* what it stores, and price changes leave the units alone.
LEMMA ProductsStep == ProductsInv /\ [Next]_vars => ProductsInv'
  <1> SUFFICES ASSUME ProductsInv, [Next]_vars PROVE ProductsInv'
    OBVIOUS
  <1> USE DEF ProductsInv
  <1>1. Placed'
    BY PlacedStep
  <1>2. CASE UNCHANGED prods
    BY <1>1, <1>2
  <1>3. ASSUME NEW w \in Worker, Insert(w), prods' # prods PROVE ProductsInv'
    <2> DEFINE r == Request[w]
               row == [code |-> draft[w].code, sale |-> r.sale, purchase |-> r.purchase,
                       units |-> Normalized(r.units)]
    <2>1. Op(w) = "addProduct" /\ prods' = Put(prods, r.product, row)
      BY <1>3 DEF Insert, Op, Placed
    <2>2. Sound(Normalized(r.units))
      BY <1>3, <2>1, RequestAssumption, ConvertibleSound DEF Insert, Placed, WellFormed, Op
    <2>3. Sold(row)
      BY <2>2 DEF Sold, ProductRow
    <2> HIDE DEF row
    <2>4. \A p \in DOMAIN prods' : Sold(prods'[p])
      BY <2>1, <2>3 DEF Put
    <2> QED
      BY <1>1, <2>4
  <1>4. ASSUME NEW w \in Worker, UpdateProduct(w) PROVE ProductsInv'
    <2> DEFINE units == Normalized(Request[w].units)
               p == Request[w].product
    <2>1. /\ Op(w) = "editProduct" /\ WellFormed(Request[w])
          /\ prods' = [prods EXCEPT ![p] = [prods[p] EXCEPT !.units = units, !.code = draft[w].code]]
      BY <1>4 DEF UpdateProduct, Placed, Valid, At, Checkpoint, Edited
    <2>2. Sound(units)
      BY <2>1, RequestAssumption, ConvertibleSound DEF WellFormed, Op
    <2> HIDE DEF units
    <2>3. p \in DOMAIN prods => Sold([prods[p] EXCEPT !.units = units, !.code = draft[w].code])
      BY <2>2, RowChanges
    <2>4. \A q \in DOMAIN prods' : Sold(prods'[q])
      BY <2>1, <2>3
    <2> QED
      BY <1>1, <2>4
  <1>5. ASSUME NEW w \in Worker, SetPrice(w) PROVE ProductsInv'
    <2> DEFINE d == draft[w]
               row == IF d.list = "sale" THEN [prods[d.product] EXCEPT !.sale = d.new]
                      ELSE [prods[d.product] EXCEPT !.purchase = d.new]
    <2>1. prods' = [prods EXCEPT ![d.product] = row]
      BY <1>5 DEF SetPrice
    <2>2. d.product \in DOMAIN prods => Sold(row)
      BY RowChanges
    <2> HIDE DEF row
    <2>3. \A q \in DOMAIN prods' : Sold(prods'[q])
      BY <2>1, <2>2
    <2> QED
      BY <1>1, <2>3
  <1>6. prods' = prods \/ \E w \in Worker : Insert(w) \/ UpdateProduct(w) \/ SetPrice(w)
    BY DEF Next, vars, tables, Step, Submit, StatementFails, Refuse, Fail, Creation, Edit,
           Recalculation, Registration, DrawCode, NotInserted, Replace, Current,
           UpdateWarehouse, ReadHead, ReadItems, PriceItem, WriteKit, GetPrice, RecordPrice
  <1> QED
    BY <1>2, <1>3, <1>4, <1>5, <1>6

\* Every stored product converts both ways, so that receipts
\* (service.go:457-464) and costs of kits (service.go:660-664) find the
\* conversion, however creations, edits and price changes interleave and fail.
THEOREM ProductsConvert == Spec => []StoredProductsConvert
  <1>1. ProductsInv => StoredProductsConvert
    BY SoundConverts DEF ProductsInv, Sold, StoredProductsConvert
  <1> QED
    BY <1>1, ProductsInit, ProductsStep, PTL DEF Spec

(***************************************************************************)
(* Assemblies                                                              *)
(***************************************************************************)

\* A request that writes kit a and has not yet recalculated it, or failed.
Recalculates(w, a) ==
  /\ Op(w) \in {"addKit", "editKit", "apply", "recalc"} /\ Request[w].kit = a
  /\ pc[w] \in {"head", "items", "item", "failed"}
KitsInv ==
  /\ Placed
  /\ \A a \in DOMAIN kits :
       kits[a] = Priced(kits[a]) \/ \E w \in Worker : Recalculates(w, a)

\* Pricing a kit again changes nothing (service.go:672-685).
LEMMA PricedTwice ==
  ASSUME NEW kit
  PROVE  Priced(kit) = Priced(Priced(kit))
  <1> DEFINE k == Priced(kit)
  <1>1. k.items = kit.items /\ k.cost = kit.cost
    BY DEF Priced
  <1>2. ~ (HasItemPrices(kit.items) /\ kit.cost > 0) => k.margin = kit.margin
    BY DEF Priced, Margin
  <1> HIDE DEF k
  <1>3. Suggested(k) = Suggested(kit) /\ Margin(k) = Margin(kit)
    <2>1. CASE HasItemPrices(kit.items)
      <3>1. HasItemPrices(k.items) /\ ItemPrices(k.items) = ItemPrices(kit.items)
        BY <1>1, <2>1
      <3>2. Suggested(k) = Suggested(kit)
        BY <2>1, <3>1 DEF Suggested
      <3>3. Margin(k) = Margin(kit)
        BY <1>1, <1>2, <2>1, <3>1 DEF Margin
      <3> QED
        BY <3>2, <3>3
    <2>2. CASE ~ HasItemPrices(kit.items)
      BY <1>1, <1>2, <2>2 DEF Suggested, Margin
    <2> QED
      BY <2>1, <2>2
  <1>4. Priced(kit).code = kit.code /\ Priced(kit).product = kit.product
    BY DEF Priced
  <1> QED
    BY <1>1, <1>3, <1>4 DEF Priced, k

\* A handler that moves on keeps the kits priced, if it stays responsible for
\* its own or was not.
LEMMA KitsKept ==
  ASSUME KitsInv, NEW w \in Worker, UNCHANGED kits,
         \A v \in Worker \ {w} : pc'[v] = pc[v],
         pc[w] \in {"head", "items", "item", "failed"} =>
           pc'[w] \in {"head", "items", "item", "failed"}
  PROVE  \A a \in DOMAIN kits' :
           kits'[a] = Priced(kits'[a]) \/ \E v \in Worker : Recalculates(v, a)'
  <1>1. ASSUME NEW v \in Worker, NEW a, Recalculates(v, a) PROVE Recalculates(v, a)'
    BY <1>1 DEF Recalculates
  <1> QED
    BY <1>1 DEF KitsInv

\* No step leaves a kit without its price and without a request to price it.
LEMMA KitsStep == KitsInv /\ [Next]_vars => KitsInv'
  <1> SUFFICES ASSUME KitsInv, [Next]_vars PROVE KitsInv'
    OBVIOUS
  <1>1. Placed /\ Placed' /\ DOMAIN pc = Worker
    BY PlacedStep DEF KitsInv, Placed
  <1>2. CASE UNCHANGED vars
    BY <1>1, <1>2 DEF vars, tables, KitsInv, Recalculates
  <1>3. ASSUME NEW w \in Worker, NEW label, Jump(w, label)
        PROVE  pc'[w] = label /\ \A v \in Worker \ {w} : pc'[v] = pc[v]
    BY <1>1, <1>3 DEF Jump
  <1>4. ASSUME NEW w \in Worker, Fail(w) PROVE KitsInv'
    BY <1>1, <1>3, <1>4, KitsKept DEF Fail, tables, KitsInv
  <1>5. ASSUME NEW w \in Worker, NEW label, Jump(w, label), UNCHANGED kits,
               pc[w] \notin {"head", "items", "item", "failed"}
                 \/ label \in {"head", "items", "item", "failed"}
        PROVE  KitsInv'
    BY <1>1, <1>3, <1>5, KitsKept DEF KitsInv
  <1>6. ASSUME NEW w \in Worker, Jump(w, "head"),
               Op(w) \in {"addKit", "editKit"},
               \A a \in DOMAIN kits' \ {Request[w].kit} : a \in DOMAIN kits /\ kits'[a] = kits[a]
        PROVE  KitsInv'
    <2>1. ASSUME NEW a \in DOMAIN kits'
          PROVE  kits'[a] = Priced(kits'[a]) \/ \E v \in Worker : Recalculates(v, a)'
      <3>1. CASE a = Request[w].kit
        BY <1>3, <1>6, <3>1 DEF Recalculates
      <3>2. CASE a # Request[w].kit
        <4>1. \A v \in Worker : Recalculates(v, a) => Recalculates(v, a)'
          BY <1>3, <1>6, <3>2 DEF Recalculates
        <4> QED
          BY <1>6, <3>2, <4>1 DEF KitsInv
      <3> QED
        BY <3>1, <3>2
    <2> QED
      BY <1>1, <2>1 DEF KitsInv
  <1>7. ASSUME NEW w \in Worker, Creation(w) \/ Edit(w) PROVE KitsInv'
    <2>1. CASE Insert(w) /\ Op(w) = "addKit"
      <3>1. Jump(w, "head") /\ kits' = Put(kits, Request[w].kit, AsSent(Request[w], draft[w].code))
        BY <2>1 DEF Insert, Op
      <3> QED
        BY <1>6, <2>1, <3>1 DEF Put
    <2>2. CASE Insert(w) /\ Op(w) # "addKit"
      <3>1. Jump(w, "ok") /\ UNCHANGED kits /\ pc[w] = "insert"
        BY <1>1, <2>2 DEF Insert, Op, Placed, At
      <3> QED
        BY <1>5, <3>1
    <2>3. CASE Replace(w)
      <3>1. CASE Fail(w)
        BY <1>4, <3>1
      <3>2. CASE ~ Fail(w)
        <4>1. /\ Jump(w, "head") /\ Op(w) = "editKit"
              /\ kits' = [kits EXCEPT ![Request[w].kit] = AsSent(Request[w], Request[w].code)]
          BY <1>1, <2>3, <3>2 DEF Replace, Placed
        <4> QED
          BY <1>6, <4>1
      <3> QED
        BY <3>1, <3>2
    <2>4. CASE DrawCode(w) \/ Current(w) \/ UpdateProduct(w) \/ UpdateWarehouse(w)
      <3>1. CASE Fail(w)
        BY <1>4, <3>1
      <3>2. CASE ~ Fail(w)
        <4>1. /\ UNCHANGED kits /\ pc[w] \in {"draw", "current", "update", "rename"}
              /\ Jump(w, "insert") \/ Jump(w, "update") \/ Jump(w, "ok")
          BY <2>4, <3>2 DEF DrawCode, Current, UpdateProduct, UpdateWarehouse, At, tables
        <4> QED
          BY <1>5, <4>1
      <3> QED
        BY <3>1, <3>2
    <2> QED
      BY <1>4, <1>7, <2>1, <2>2, <2>3, <2>4 DEF Creation, Edit, NotInserted
  <1>8. ASSUME NEW w \in Worker, WriteKit(w), ~ Fail(w) PROVE KitsInv'
    <2> DEFINE a == Request[w].kit
               kit == Priced(draft[w].kit)
    <2>1. kits' = [kits EXCEPT ![a] = kit]
      BY <1>8 DEF WriteKit, Stored
    <2>2. \A v \in Worker \ {w} : pc'[v] = pc[v]
      BY <1>3, <1>8 DEF WriteKit
    <2>3. kit = Priced(kit)
      BY PricedTwice
    <2> HIDE DEF kit
    <2>4. ASSUME NEW b \in DOMAIN kits'
          PROVE  kits'[b] = Priced(kits'[b]) \/ \E v \in Worker : Recalculates(v, b)'
      <3>1. CASE b = a
        BY <2>1, <2>3, <3>1
      <3>2. CASE b # a
        <4>1. b \in DOMAIN kits /\ kits'[b] = kits[b]
          BY <2>1, <3>2
        <4>2. \A v \in Worker : Recalculates(v, b) => Recalculates(v, b)'
          BY <2>2, <3>2 DEF Recalculates
        <4> QED
          BY <4>1, <4>2 DEF KitsInv
      <3> QED
        BY <3>1, <3>2
    <2> QED
      BY <1>1, <2>4 DEF KitsInv
  <1>9. ASSUME NEW w \in Worker, Recalculation(w) \/ Registration(w) PROVE KitsInv'
    <2>1. CASE Fail(w)
      BY <1>4, <2>1
    <2>2. CASE WriteKit(w) /\ ~ Fail(w)
      BY <1>8, <2>2
    <2>3. CASE PriceItem(w) /\ ~ Fail(w)
      <3>1. UNCHANGED <<kits, pc>>
        BY <2>3 DEF PriceItem, tables
      <3> QED
        BY <1>1, <3>1, KitsKept DEF KitsInv
    <2>4. CASE /\ ReadHead(w) \/ ReadItems(w) \/ Registration(w)
               /\ ~ Fail(w)
      <3>1. /\ UNCHANGED kits
            /\ \/ Jump(w, "items") \/ Jump(w, "item")
               \/ pc[w] \in {"get", "set", "record"} /\ \E label : Jump(w, label)
        BY <2>4 DEF ReadHead, ReadItems, Registration, GetPrice, SetPrice,
                    RecordPrice, tables, At
      <3> QED
        BY <1>5, <3>1
    <2> QED
      BY <1>9, <2>1, <2>2, <2>3, <2>4 DEF Recalculation
  <1>10. ASSUME NEW w \in Worker, Submit(w) PROVE KitsInv'
    <2>1. UNCHANGED kits /\ pc[w] = "waiting" /\ Jump(w, First(Op(w)))
      BY <1>10 DEF Submit, tables, At
    <2> QED
      BY <1>5, <2>1
  <1> QED
    BY <1>2, <1>4, <1>7, <1>9, <1>10 DEF Next, Step, StatementFails, Refuse

\* A kit at rest has the price its items, cost and margin give
\* (service.go:672-685), whichever edits and recalculations overlapped, as long
\* as none of them failed half-way.
THEOREM KitsPriced == Spec => []KitPriced
  <1>1. Init => KitsInv
    BY OpeningAssumption DEF Init, KitsInv, Placed, At
  <1>2. KitsInv => KitPriced
    <2> SUFFICES ASSUME KitsInv, NEW a \in DOMAIN kits, Settled(a, {}, {"waiting", "ok"})
                 PROVE  kits[a] = Priced(kits[a])
      BY DEF KitPriced
    <2>1. ~ \E w \in Worker : Recalculates(w, a)
      BY DEF Settled, Recalculates
    <2> QED
      BY <2>1 DEF KitsInv
  <1> QED
    BY <1>1, <1>2, KitsStep, PTL DEF Spec

(***************************************************************************)
(* Types                                                                   *)
(***************************************************************************)

\* A finite set of numbers has a largest one.
LEMMA LargestNat ==
  ASSUME NEW S, IsFiniteSet(S), S \subseteq Nat, S # {}
  PROVE  Max(S) \in S /\ \A x \in S : x <= Max(S)
  <1> DEFINE C == {T \in SUBSET S : T # {} => \E x \in T : \A y \in T : x >= y}
  <1>1. ASSUME NEW T \in SUBSET S, \A U \in SUBSET T : U # T => U \in C
        PROVE  T \in C
    <2> SUFFICES ASSUME T # {} PROVE \E x \in T : \A y \in T : x >= y
      OBVIOUS
    <2>1. PICK e \in T : TRUE
      OBVIOUS
    <2>2. T \ {e} \in C
      BY <1>1, <2>1
    <2>3. CASE T \ {e} = {}
      BY <2>1, <2>3
    <2>4. CASE T \ {e} # {}
      <3>1. PICK x \in T \ {e} : \A y \in T \ {e} : x >= y
        BY <2>2, <2>4
      <3>2. x \in Nat /\ e \in Nat /\ \A y \in T : y \in Nat
        BY <2>1, <3>1
      <3>3. CASE x >= e
        BY <3>1, <3>3
      <3>4. CASE e >= x
        <4>1. \A y \in T : e >= y
          BY <3>1, <3>2, <3>4
        <4> QED
          BY <2>1, <4>1
      <3> QED
        BY <3>2, <3>3, <3>4
    <2> QED
      BY <2>3, <2>4
  <1>2. \A T \in SUBSET S : T \in C
    <2> HIDE DEF C
    <2> QED
      BY <1>1, FiniteInduct
  <1>3. PICK x \in S : \A y \in S : x >= y
    BY <1>2
  <1>4. Max(S) \in S /\ \A y \in S : Max(S) >= y
    BY <1>3 DEF Max
  <1> QED
    BY <1>4

\* What a finite set is mapped to is finite.
LEMMA ImageFinite ==
  ASSUME NEW S, IsFiniteSet(S), NEW g
  PROVE  IsFiniteSet({g[x] : x \in S})
  <1> DEFINE T == {g[x] : x \in S}
             f == [x \in S |-> g[x]]
  <1>1. f \in Surjection(S, T)
    BY DEF Surjection
  <1> HIDE DEF f, T
  <1>2. IsFiniteSet(T)
    BY <1>1, FS_Surjection
  <1> QED
    BY <1>2 DEF T

\* The sequences start at the largest code in use (migrations/003_code_counters.sql).
LEMMA CounterInit ==
  ASSUME Init
  PROVE  /\ counter \in [Kind -> Nat]
         /\ \A kind \in {"assembly", "warehouse"} :
              \A c \in Codes(kind) : c \in Nat /\ c <= counter[kind]
         /\ counter["product"] = LastSku
  <1>1. ASSUME NEW kind \in {"assembly", "warehouse"}
        PROVE  /\ Max(Codes(kind) \cup {0}) \in Nat
               /\ \A c \in Codes(kind) : c \in Nat /\ c <= Max(Codes(kind) \cup {0})
    <2>1. Codes(kind) \subseteq Nat
      BY OpeningAssumption DEF Init, Codes
    <2>2. IsFiniteSet(Codes(kind))
      <3>1. CASE kind = "assembly"
        <4> DEFINE g == [a \in DOMAIN kits |-> kits[a].code]
        <4>1. Codes(kind) = {g[a] : a \in DOMAIN kits}
          BY <3>1 DEF Codes
        <4>2. IsFiniteSet(DOMAIN kits)
          BY ConstantsAssumption DEF Init
        <4> HIDE DEF g
        <4> QED
          BY <4>1, <4>2, ImageFinite
      <3>2. CASE kind = "warehouse"
        <4>1. Codes(kind) = {houses[h] : h \in DOMAIN houses}
          BY <3>2 DEF Codes
        <4>2. IsFiniteSet(DOMAIN houses)
          BY ConstantsAssumption DEF Init
        <4> QED
          BY <4>1, <4>2, ImageFinite
      <3> QED
        BY <3>1, <3>2
    <2>3. IsFiniteSet(Codes(kind) \cup {0}) /\ Codes(kind) \cup {0} \subseteq Nat
      BY <2>1, <2>2, FS_AddElement
    <2> DEFINE S == Codes(kind) \cup {0}
    <2>4. Max(S) \in S /\ \A c \in S : c <= Max(S)
      <3>1. IsFiniteSet(S) /\ S \subseteq Nat /\ S # {}
        BY <2>3
      <3> HIDE DEF S
      <3> QED
        BY <3>1, LargestNat
    <2> QED
      BY <2>1, <2>4
  <1>2. counter = [kind \in Kind |-> IF kind = "product" THEN LastSku
                                     ELSE Max(Codes(kind) \cup {0})]
    BY DEF Init
  <1> QED
    BY <1>1, <1>2, ConstantsAssumption DEF Kind

\* A request that draws a code, or is about to insert a row, adds a row of one
\* kind.
LEMMA KindOfAdded ==
  ASSUME NEW w \in Worker
  PROVE  /\ Op(w) = "addProduct" => KindOf(w) = "product"
         /\ Op(w) \in {"addKit", "editKit"} => KindOf(w) = "assembly"
         /\ Op(w) \in {"addWarehouse", "editWarehouse"} => KindOf(w) = "warehouse"
  <1>1. /\ Coded("product") = {"addProduct"}
        /\ Coded("assembly") = {"addKit", "editKit"}
        /\ Coded("warehouse") = {"addWarehouse", "editWarehouse"}
    BY DEF Coded
  <1>2. ASSUME NEW kind \in Kind, Op(w) \in Coded(kind) PROVE KindOf(w) = kind
    <2>1. \A k \in Kind : Op(w) \in Coded(k) => k = kind
      BY <1>1, <1>2 DEF Kind
    <2>2. KindOf(w) \in Kind /\ Op(w) \in Coded(KindOf(w))
      BY <1>2 DEF KindOf
    <2> QED
      BY <2>1, <2>2
  <1> QED
    BY <1>1, <1>2 DEF Kind

\* Every step keeps the types; a margin is stored only by statements that check
\* it against its column.
LEMMA CatalogTypeStep == Placed /\ TypeOK /\ [Next]_vars => TypeOK'
  <1> SUFFICES ASSUME Placed, TypeOK, [Next]_vars PROVE TypeOK'
    OBVIOUS
  <1>1. CASE UNCHANGED vars
    BY <1>1 DEF vars, tables, TypeOK
  <1>2. ASSUME NEW w \in Worker, Submit(w) \/ Step(w) PROVE TypeOK'
    <2>1. pc' \in [Worker -> Statement \cup {"waiting", "ok", "failed"}]
      <3>1. pc' = pc \/ \E label \in Statement \cup {"ok", "failed"} : Jump(w, label)
        <4>1. First(Op(w)) \in Statement
          BY RequestAssumption DEF First, Statement, Reading, Writing
        <4>2. \/ pc' = pc \/ Jump(w, First(Op(w))) \/ Fail(w)
              \/ \E label \in {"insert", "head", "ok", "failed", "update", "items", "item",
                               "get", "set", "record"} : Jump(w, label)
          BY <1>2 DEF Step, Submit, StatementFails, Refuse, Creation, Edit, Recalculation,
             Registration, DrawCode, Insert, NotInserted, Replace, Current, UpdateProduct,
             UpdateWarehouse, ReadHead, ReadItems, PriceItem, WriteKit, GetPrice, SetPrice,
             RecordPrice
        <4> QED
          BY <4>1, <4>2 DEF Fail, Statement, Reading, Writing
      <3> QED
        BY <3>1 DEF TypeOK, Jump
    <2>2. counter' \in [Kind -> Nat]
      <3>1. CASE counter' = counter
        BY <3>1 DEF TypeOK
      <3>2. CASE DrawCode(w) /\ counter' # counter
        <4>1. KindOf(w) \in Kind
          BY <3>2, KindOfAdded DEF DrawCode, Placed, Kind
        <4>2. counter' = [counter EXCEPT ![KindOf(w)] = counter[KindOf(w)] + 1]
          BY <3>2 DEF DrawCode, NextNumber
        <4> QED
          BY <4>1, <4>2 DEF TypeOK
      <3>3. counter' = counter \/ DrawCode(w)
        BY <1>2 DEF Step, Submit, StatementFails, Refuse, Fail, Creation, Edit, Recalculation,
           Registration, Insert, NotInserted, Replace, Current, UpdateProduct,
           UpdateWarehouse, ReadHead, ReadItems, PriceItem, WriteKit, GetPrice, SetPrice,
           RecordPrice
      <3> QED
        BY <3>1, <3>2, <3>3
    <2>3. DOMAIN prods' \subseteq Product /\ DOMAIN houses' \subseteq WarehouseId
      <3>1. CASE Insert(w)
        <4>1. \/ UNCHANGED <<prods, houses>>
              \/ /\ Op(w) = "addProduct" /\ UNCHANGED houses
                 /\ \E row : prods' = Put(prods, Request[w].product, row)
              \/ /\ Op(w) = "addWarehouse" /\ UNCHANGED prods
                 /\ \E row : houses' = Put(houses, Request[w].warehouse, row)
          BY <3>1 DEF Insert, Placed, Op
        <4>2. /\ Op(w) = "addProduct" => Request[w].product \in Product
              /\ Op(w) = "addWarehouse" => Request[w].warehouse \in WarehouseId
          BY RequestAssumption
        <4> QED
          BY <4>1, <4>2 DEF TypeOK, Put
      <3>2. CASE ~ Insert(w)
        <4>1. DOMAIN prods' = DOMAIN prods /\ DOMAIN houses' = DOMAIN houses
          <5>1. \/ UNCHANGED <<prods, houses>>
                \/ UpdateProduct(w) \/ SetPrice(w) \/ UpdateWarehouse(w)
            BY <1>2, <3>2 DEF Step, Submit, StatementFails, Refuse, Fail, Creation, Edit,
               Recalculation, Registration, DrawCode, NotInserted, Replace, Current, ReadHead,
               ReadItems, PriceItem, WriteKit, GetPrice, RecordPrice, tables
          <5> QED
            BY <5>1 DEF UpdateProduct, SetPrice, UpdateWarehouse, Fail, tables
        <4> QED
          BY <4>1 DEF TypeOK
      <3> QED
        BY <3>1, <3>2
    <2>4. DOMAIN kits' \subseteq Assembly /\ \A a \in DOMAIN kits' : kits'[a].margin < MaxMargin
      <3>1. \/ UNCHANGED kits
            \/ \E a, row : row.margin < MaxMargin /\ kits' = [kits EXCEPT ![a] = row]
            \/ \E a \in Assembly : \E row : row.margin < MaxMargin /\ kits' = Put(kits, a, row)
        <4>1. CASE Insert(w)
          <5>1. CASE Op(w) = "addKit"
            <6>1. /\ kits' = Put(kits, Request[w].kit, AsSent(Request[w], draft[w].code))
                  /\ Request[w].margin < MaxMargin /\ Request[w].kit \in Assembly
              BY <4>1, <5>1, RequestAssumption DEF Insert, Insertable, Op
            <6>2. AsSent(Request[w], draft[w].code).margin < MaxMargin
              BY <6>1 DEF AsSent
            <6> QED
              BY <6>1, <6>2
          <5>2. CASE Op(w) # "addKit"
            BY <4>1, <5>2 DEF Insert, Placed, Op
          <5> QED
            BY <5>1, <5>2
        <4>2. CASE Replace(w) /\ ~ UNCHANGED kits
          <5>1. /\ kits' = [kits EXCEPT ![Request[w].kit] = AsSent(Request[w], Request[w].code)]
                /\ Request[w].margin < MaxMargin
            BY <4>2 DEF Replace, Fail, tables
          <5>2. AsSent(Request[w], Request[w].code).margin < MaxMargin
            BY <5>1 DEF AsSent
          <5> QED
            BY <5>1, <5>2
        <4>3. CASE WriteKit(w) /\ ~ UNCHANGED kits
          <5> DEFINE kit == Priced(draft[w].kit)
          <5>1. kit.margin < MaxMargin /\ kits' = [kits EXCEPT ![Request[w].kit] = kit]
            BY <4>3 DEF WriteKit, Fail, tables, Fits, Stored
          <5> HIDE DEF kit
          <5> QED
            BY <5>1
        <4>4. UNCHANGED kits \/ Insert(w) \/ Replace(w) \/ WriteKit(w)
          BY <1>2 DEF Step, Submit, StatementFails, Refuse, Fail, Creation, Edit,
             Recalculation, Registration, DrawCode, NotInserted, Current, UpdateProduct,
             UpdateWarehouse, ReadHead, ReadItems, PriceItem, GetPrice, SetPrice, RecordPrice,
             tables
        <4> QED
          BY <4>1, <4>2, <4>3, <4>4
      <3> QED
        BY <3>1 DEF TypeOK, Put
    <2> QED
      BY <2>1, <2>2, <2>3, <2>4 DEF TypeOK
  <1> QED
    BY <1>1, <1>2 DEF Next

\* The tables stay well typed and no margin is stored that its column cannot
\* hold (migrations/002_pricing.sql), whichever requests overlap and fail.
THEOREM CatalogTypeCorrect == Spec => []TypeOK
  <1>1. Init => Placed /\ TypeOK
    <2> SUFFICES ASSUME Init PROVE Placed /\ TypeOK
      OBVIOUS
    <2>1. Placed
      BY ProductsInit DEF ProductsInv
    <2>2. counter \in [Kind -> Nat]
      BY CounterInit
    <2> QED
      BY <2>1, <2>2, ConstantsAssumption, OpeningAssumption DEF Init, TypeOK
  <1>2. Placed /\ [Next]_vars => Placed'
    BY PlacedStep
  <1> QED
    BY <1>1, <1>2, CatalogTypeStep, PTL DEF Spec

(***************************************************************************)
(* Codes                                                                   *)
(***************************************************************************)

\* What the requests ask for does not change.
LEMMA RequestsFixed ==
  /\ \A w \in Worker : Op(w)' = Op(w) /\ KindOf(w)' = KindOf(w) /\ (Typed(w)' <=> Typed(w))
  /\ \A kind : TypedCodes(kind)' = TypedCodes(kind)
  BY DEF Op, KindOf, Typed, TypedCodes, Coded

\* The worker that moves leaves the others where they are.
LEMMA OthersStay ==
  ASSUME Placed, DOMAIN draft = Worker, NEW u \in Worker, Submit(u) \/ Step(u)
  PROVE  /\ DOMAIN draft' = Worker
         /\ \A v \in Worker \ {u} : pc'[v] = pc[v] /\ draft'[v] = draft[v]
  <1>1. \/ draft' = draft
        \/ \E d : draft' = [draft EXCEPT ![u] = d]
    BY DEF Step, Submit, StatementFails, Refuse, Fail, Creation, Edit, Recalculation,
           Registration, DrawCode, Insert, NotInserted, Replace, Current, UpdateProduct,
           UpdateWarehouse, ReadHead, ReadItems, PriceItem, WriteKit, GetPrice, SetPrice,
           RecordPrice, Hold
  <1>2. \/ pc' = pc
        \/ \E label : pc' = [pc EXCEPT ![u] = label]
    BY DEF Step, Submit, StatementFails, Refuse, Fail, Creation, Edit, Recalculation,
           Registration, DrawCode, Insert, NotInserted, Replace, Current, UpdateProduct,
           UpdateWarehouse, ReadHead, ReadItems, PriceItem, WriteKit, GetPrice, SetPrice,
           RecordPrice, Jump
  <1> QED
    BY <1>1, <1>2 DEF Placed

\* A row of a kit keeps its columns.
LEMMA KitRows ==
  /\ \A r, code : DOMAIN AsSent(r, code) = KitRow /\ AsSent(r, code).code = code
  /\ \A kit : DOMAIN Priced(kit) = KitRow /\ Priced(kit).code = kit.code
  BY DEF KitRow, AsSent, Priced

\* So it does when one of them changes.
LEMMA KitColumns ==
  ASSUME NEW kit, DOMAIN kit = KitRow, NEW x
  PROVE  /\ DOMAIN [kit EXCEPT !.cost = x] = KitRow /\ [kit EXCEPT !.cost = x].code = kit.code
         /\ DOMAIN [kit EXCEPT !.items = x] = KitRow /\ [kit EXCEPT !.items = x].code = kit.code
  BY DEF KitRow

\* The rows of kits in the table and in the hands of the handlers.
LEMMA KitRowsKept ==
  ASSUME Placed, CodesInv, NEW u \in Worker, Submit(u) \/ Step(u)
  PROVE  /\ \A a \in DOMAIN kits' : DOMAIN kits'[a] = KitRow
         /\ \A w \in Worker : pc'[w] \in {"items", "item"} => DOMAIN draft'[w].kit = KitRow
         /\ pc'[u] \in {"items", "item"} =>
              \/ ReadHead(u) /\ \E a \in DOMAIN kits : draft'[u].kit.code = kits[a].code
              \/ pc[u] \in {"items", "item"} /\ draft'[u].kit.code = draft[u].kit.code
  <1>0. /\ u \in DOMAIN pc /\ u \in DOMAIN draft
        /\ \A a \in DOMAIN kits : DOMAIN kits[a] = KitRow
    BY DEF Placed, CodesInv
  <1>1. \A a \in DOMAIN kits' : DOMAIN kits'[a] = KitRow
    <2>1. CASE Insert(u)
      <3>1. CASE Op(u) = "addKit"
        <4>1. kits' = Put(kits, Request[u].kit, AsSent(Request[u], draft[u].code))
          BY <2>1, <3>1 DEF Insert, Op
        <4> QED
          BY <1>0, <4>1, KitRows DEF Put
      <3>2. CASE Op(u) # "addKit"
        BY <1>0, <2>1, <3>2 DEF Insert, Placed, Op
      <3> QED
        BY <3>1, <3>2
    <2>2. CASE (Replace(u) \/ WriteKit(u)) /\ ~ UNCHANGED kits
      <3>1. \E a, row : DOMAIN row = KitRow /\ kits' = [kits EXCEPT ![a] = row]
        <4>1. CASE Replace(u)
          <5> DEFINE row == AsSent(Request[u], Request[u].code)
          <5>1. kits' = [kits EXCEPT ![Request[u].kit] = row]
            BY <2>2, <4>1 DEF Replace, Fail, tables
          <5>2. DOMAIN row = KitRow
            BY KitRows
          <5> HIDE DEF row
          <5> QED
            BY <5>1, <5>2
        <4>2. CASE WriteKit(u)
          <5> DEFINE row == Priced(draft[u].kit)
          <5>1. kits' = [kits EXCEPT ![Request[u].kit] = row]
            BY <2>2, <4>2 DEF WriteKit, Stored, Fail, tables
          <5>2. DOMAIN row = KitRow
            BY KitRows
          <5> HIDE DEF row
          <5> QED
            BY <5>1, <5>2
        <4> QED
          BY <2>2, <4>1, <4>2
      <3> QED
        BY <1>0, <3>1
    <2>3. CASE UNCHANGED kits
      BY <1>0, <2>3
    <2>4. UNCHANGED kits \/ Insert(u) \/ Replace(u) \/ WriteKit(u)
      BY DEF Step, Submit, StatementFails, Refuse, Fail, Creation, Edit,
         Recalculation, Registration, DrawCode, NotInserted, Current, UpdateProduct,
         UpdateWarehouse, ReadHead, ReadItems, PriceItem, GetPrice, SetPrice, RecordPrice,
         tables
    <2> QED
      BY <2>1, <2>2, <2>3, <2>4
  <1>2. ASSUME pc'[u] \in {"items", "item"}
        PROVE  /\ DOMAIN draft'[u].kit = KitRow
               /\ \/ ReadHead(u) /\ \E a \in DOMAIN kits : draft'[u].kit.code = kits[a].code
                  \/ pc[u] \in {"items", "item"} /\ draft'[u].kit.code = draft[u].kit.code
    <2>1. ~ Fail(u)
      BY <1>0, <1>2 DEF Fail, Jump
    <2>2. CASE ReadHead(u)
      <3> DEFINE a == Request[u].kit
                 free == [kits[a] EXCEPT !.cost = 0]
                 kit == [free EXCEPT !.items = <<>>]
      <3>1. a \in DOMAIN kits /\ draft' = [draft EXCEPT ![u] = [kit |-> kit, left |-> <<>>]]
        BY <2>1, <2>2 DEF ReadHead, Hold
      <3>2. DOMAIN free = KitRow /\ free.code = kits[a].code
        BY <1>0, <3>1, KitColumns
      <3>3. DOMAIN kit = KitRow /\ kit.code = free.code
        <4> HIDE DEF free
        <4> QED
          BY <3>2, KitColumns
      <3> HIDE DEF kit
      <3>4. draft'[u].kit = kit
        BY <1>0, <3>1
      <3> QED
        BY <2>2, <3>1, <3>2, <3>3, <3>4
    <2>3. CASE ReadItems(u) \/ PriceItem(u)
      <3>1. pc[u] \in {"items", "item"} /\ DOMAIN draft[u].kit = KitRow
        BY <2>3 DEF ReadItems, PriceItem, At, CodesInv
      <3>2. \E x : draft'[u].kit \in {[draft[u].kit EXCEPT !.cost = x],
                                      [draft[u].kit EXCEPT !.items = x]}
        <4>1. CASE ReadItems(u)
          BY <1>0, <4>1 DEF ReadItems, Hold
        <4>2. CASE PriceItem(u)
          <5> DEFINE x == draft[u].kit.cost + ItemCost(Head(draft[u].left))
          <5>1. draft' = [draft EXCEPT ![u] = [kit |-> [draft[u].kit EXCEPT !.cost = x],
                                              left |-> Tail(draft[u].left)]]
            BY <2>1, <4>2 DEF PriceItem, Hold
          <5> HIDE DEF x
          <5> QED
            BY <1>0, <5>1
        <4> QED
          BY <2>3, <4>1, <4>2
      <3>3. PICK x : draft'[u].kit \in {[draft[u].kit EXCEPT !.cost = x],
                                        [draft[u].kit EXCEPT !.items = x]}
        BY <3>2
      <3>4. DOMAIN draft'[u].kit = KitRow /\ draft'[u].kit.code = draft[u].kit.code
        <4> DEFINE old == draft[u].kit
        <4>1. /\ DOMAIN [old EXCEPT !.cost = x] = KitRow /\ [old EXCEPT !.cost = x].code = old.code
              /\ DOMAIN [old EXCEPT !.items = x] = KitRow
              /\ [old EXCEPT !.items = x].code = old.code
          BY <3>1 DEF KitRow
        <4>2. CASE draft'[u].kit = [old EXCEPT !.cost = x]
          BY <4>1, <4>2
        <4>3. CASE draft'[u].kit = [old EXCEPT !.items = x]
          BY <4>1, <4>3
        <4> QED
          BY <3>3, <4>2, <4>3
      <3> QED
        BY <3>1, <3>4
    <2>4. CASE UNCHANGED pc /\ ~ PriceItem(u)
      <3>1. FALSE
        <4>1. pc'[u] = pc[u]
          BY <2>4
        <4> QED
          BY <1>0, <1>2, <2>1, <2>4, <4>1
             DEF Step, Submit, StatementFails, Refuse, Creation, Edit, Recalculation,
                 Registration, DrawCode, Insert, NotInserted, Replace, Current, UpdateProduct,
                 UpdateWarehouse, ReadHead, ReadItems, WriteKit, GetPrice, SetPrice,
                 RecordPrice, Jump, At
      <3> QED
        BY <3>1
    <2>5. \/ ReadHead(u) \/ ReadItems(u) \/ PriceItem(u) \/ UNCHANGED pc
      <3>1. ~ Submit(u)
        BY <1>0, <1>2, RequestAssumption DEF Submit, Jump, First
      <3> QED
        BY <1>0, <1>2, <2>1, <3>1 DEF Step, StatementFails, Refuse, Creation, Edit, Recalculation,
           Registration, DrawCode, Insert, NotInserted, Replace, Current, UpdateProduct,
           UpdateWarehouse, WriteKit, GetPrice, SetPrice, RecordPrice, Jump
    <2> QED
      BY <2>2, <2>3, <2>4, <2>5
  <1>3. ASSUME NEW w \in Worker, pc'[w] \in {"items", "item"} PROVE DOMAIN draft'[w].kit = KitRow
    <2>1. CASE w = u
      BY <1>2, <1>3, <2>1
    <2>2. CASE w # u
      BY <1>3, <2>2, OthersStay DEF CodesInv
    <2> QED
      BY <2>1, <2>2
  <1> QED
    BY <1>1, <1>2, <1>3

\* The codes of what is stored after a step that draws none: stored before,
\* typed, or in the hands of the handler that makes the step.
Allowed(w, kind) ==
  Claimed(kind) \cup TypedCodes(kind) \cup {0}
    \cup IF Insert(w) /\ ~Typed(w) /\ KindOf(w) = kind THEN {draft[w].code} ELSE {}

\* The codes of products: UpdateByID writes the SKU that was read
\* (product_repo.go:46-60).
LEMMA ProductCodes ==
  ASSUME ProductsInv, CodesInv, NEW u \in Worker, Submit(u) \/ Step(u)
  PROVE  Codes("product")' \subseteq Allowed(u, "product")
  <1>1. /\ \A p \in DOMAIN prods : DOMAIN prods[p] = ProductRow
        /\ \A p \in DOMAIN prods : prods[p].code \in Claimed("product")
        /\ Codes("product") = {prods[p].code : p \in DOMAIN prods}
    BY DEF ProductsInv, Sold, Claimed, Codes
  <1>2. Codes("product")' = {prods'[p].code : p \in DOMAIN prods'}
    BY DEF Codes
  <1>3. CASE Insert(u) /\ Op(u) = "addProduct"
    <2> DEFINE row == [code |-> draft[u].code, sale |-> Request[u].sale,
                       purchase |-> Request[u].purchase,
                       units |-> Normalized(Request[u].units)]
    <2>1. prods' = Put(prods, Request[u].product, row)
      BY <1>3 DEF Insert, Op
    <2>2. row.code \in Allowed(u, "product")
      <3>1. KindOf(u) = "product"
        BY <1>3, KindOfAdded
      <3>2. CASE Typed(u)
        <4>1. draft[u].code = Request[u].code
          BY <1>3, <3>2 DEF CodesInv, Insert
        <4>2. Request[u].code \in TypedCodes("product")
          BY <1>3, <3>2 DEF TypedCodes, Coded
        <4> QED
          BY <4>1, <4>2 DEF Allowed
      <3>3. CASE ~ Typed(u)
        BY <1>3, <3>1, <3>3 DEF Allowed
      <3> QED
        BY <3>2, <3>3
    <2> HIDE DEF row
    <2>3. ASSUME NEW p \in DOMAIN prods' PROVE prods'[p].code \in Allowed(u, "product")
      BY <1>1, <2>1, <2>2 DEF Put, Allowed
    <2> QED
      BY <1>2, <2>3
  <1>4. CASE UpdateProduct(u)
    <2> DEFINE q == Request[u].product
               units == Normalized(Request[u].units)
    <2>1. prods' = [prods EXCEPT ![q] = [prods[q] EXCEPT !.units = units, !.code = draft[u].code]]
      BY <1>4 DEF UpdateProduct, Edited
    <2>2. draft[u].code \in Claimed("product")
      <3>1. Holds(u, "product") = {draft[u].code}
        BY <1>4 DEF UpdateProduct, Holds
      <3> QED
        BY <3>1 DEF Claimed
    <2> HIDE DEF units
    <2>3. ASSUME NEW p \in DOMAIN prods' PROVE prods'[p].code \in Claimed("product")
      <3>1. CASE p = q
        <4>1. p \in DOMAIN prods /\ prods'[p] = [prods[q] EXCEPT !.units = units,
                                                               !.code = draft[u].code]
          BY <2>1, <3>1
        <4>2. prods'[p].code = draft[u].code
          BY <1>1, <3>1, <4>1 DEF ProductRow
        <4> QED
          BY <2>2, <4>2
      <3>2. CASE p # q
        BY <1>1, <2>1, <3>2
      <3> QED
        BY <3>1, <3>2
    <2> QED
      BY <1>2, <2>3 DEF Allowed
  <1>5. CASE SetPrice(u)
    <2> DEFINE q == draft[u].product
    <2>1. prods' = [prods EXCEPT ![q] =
                      IF draft[u].list = "sale" THEN [prods[q] EXCEPT !.sale = draft[u].new]
                      ELSE [prods[q] EXCEPT !.purchase = draft[u].new]]
      BY <1>5 DEF SetPrice
    <2>2. ASSUME NEW p \in DOMAIN prods' PROVE prods'[p].code \in Claimed("product")
      <3>1. CASE p = q
        <4>1. p \in DOMAIN prods /\ prods'[p] = IF draft[u].list = "sale"
                                                THEN [prods[p] EXCEPT !.sale = draft[u].new]
                                                ELSE [prods[p] EXCEPT !.purchase = draft[u].new]
          BY <2>1, <3>1
        <4>2. prods'[p].code = prods[p].code
          BY <1>1, <4>1 DEF ProductRow
        <4> QED
          BY <1>1, <4>1, <4>2
      <3>2. CASE p # q
        BY <1>1, <2>1, <3>2
      <3> QED
        BY <3>1, <3>2
    <2> QED
      BY <1>2, <2>2 DEF Allowed
  <1>6. CASE UNCHANGED prods
    BY <1>1, <1>2, <1>6 DEF Allowed
  <1>7. \/ UNCHANGED prods
        \/ Insert(u) /\ Op(u) = "addProduct"
        \/ UpdateProduct(u) \/ SetPrice(u)
    BY DEF Step, Submit, StatementFails, Refuse, Fail, Creation, Edit, Recalculation,
           Registration, DrawCode, Insert, NotInserted, Replace, Current, ProductsInv,
           Placed, UpdateWarehouse, ReadHead, ReadItems, PriceItem, WriteKit, GetPrice,
           RecordPrice, tables, Op
  <1> QED
    BY <1>3, <1>4, <1>5, <1>6, <1>7

\* The codes of assemblies: a recalculation writes the code that was read
\* (catalog_repo.go), which another edit may have changed since.
LEMMA AssemblyCodes ==
  ASSUME ProductsInv, CodesInv, NEW u \in Worker, Submit(u) \/ Step(u)
  PROVE  Codes("assembly")' \subseteq Allowed(u, "assembly")
  <1>1. /\ \A a \in DOMAIN kits : kits[a].code \in Claimed("assembly")
        /\ Codes("assembly")' = {kits'[a].code : a \in DOMAIN kits'}
    BY DEF Claimed, Codes
  <1>2. CASE Insert(u) /\ Op(u) = "addKit"
    <2> DEFINE row == AsSent(Request[u], draft[u].code)
    <2>1. kits' = Put(kits, Request[u].kit, row) /\ row.code = draft[u].code
      BY <1>2, KitRows DEF Insert, Op
    <2>2. draft[u].code \in Allowed(u, "assembly")
      <3>1. KindOf(u) = "assembly"
        BY <1>2, KindOfAdded
      <3>2. CASE Typed(u)
        <4>1. draft[u].code = Request[u].code
          BY <1>2, <3>2 DEF CodesInv, Insert
        <4>2. Request[u].code \in TypedCodes("assembly")
          BY <1>2, <3>2 DEF TypedCodes, Coded
        <4> QED
          BY <4>1, <4>2 DEF Allowed
      <3>3. CASE ~ Typed(u)
        BY <1>2, <3>1, <3>3 DEF Allowed
      <3> QED
        BY <3>2, <3>3
    <2> HIDE DEF row
    <2>3. ASSUME NEW a \in DOMAIN kits' PROVE kits'[a].code \in Allowed(u, "assembly")
      BY <1>1, <2>1, <2>2 DEF Put, Allowed
    <2> QED
      BY <1>1, <2>3
  <1>3. CASE Replace(u) /\ ~ UNCHANGED kits
    <2> DEFINE row == AsSent(Request[u], Request[u].code)
    <2>1. kits' = [kits EXCEPT ![Request[u].kit] = row] /\ row.code = Request[u].code
      BY <1>3, KitRows DEF Replace, Fail, tables
    <2>2. Request[u].code \in Allowed(u, "assembly")
      <3>1. Op(u) = "editKit" /\ WellFormed(Request[u])
        BY <1>3 DEF Replace, ProductsInv, Placed, Valid, At, Checkpoint, First
      <3>2. Typed(u)
        BY <3>1 DEF WellFormed, Typed, Op
      <3> QED
        BY <3>1, <3>2 DEF Allowed, TypedCodes, Coded
    <2> HIDE DEF row
    <2>3. ASSUME NEW a \in DOMAIN kits' PROVE kits'[a].code \in Allowed(u, "assembly")
      BY <1>1, <2>1, <2>2 DEF Allowed
    <2> QED
      BY <1>1, <2>3
  <1>4. CASE WriteKit(u) /\ ~ UNCHANGED kits
    <2> DEFINE row == Priced(draft[u].kit)
    <2>1. kits' = [kits EXCEPT ![Request[u].kit] = row] /\ row.code = draft[u].kit.code
      BY <1>4, KitRows DEF WriteKit, Stored, Fail, tables
    <2>2. draft[u].kit.code \in Claimed("assembly")
      <3>1. Holds(u, "assembly") = {draft[u].kit.code}
        BY <1>4 DEF WriteKit, Holds, At
      <3> QED
        BY <3>1 DEF Claimed
    <2> HIDE DEF row
    <2>3. ASSUME NEW a \in DOMAIN kits' PROVE kits'[a].code \in Allowed(u, "assembly")
      BY <1>1, <2>1, <2>2 DEF Allowed
    <2> QED
      BY <1>1, <2>3
  <1>5. CASE UNCHANGED kits
    BY <1>1, <1>5 DEF Allowed
  <1>6. UNCHANGED kits \/ (Insert(u) /\ Op(u) = "addKit") \/ Replace(u) \/ WriteKit(u)
    BY DEF Step, Submit, StatementFails, Refuse, Fail, Creation, Edit, Recalculation,
           Registration, DrawCode, Insert, NotInserted, Current, UpdateProduct, ProductsInv,
           Placed, UpdateWarehouse, ReadHead, ReadItems, PriceItem, GetPrice, SetPrice,
           RecordPrice, tables, Op
  <1> QED
    BY <1>2, <1>3, <1>4, <1>5, <1>6

\* The codes of warehouses.
LEMMA WarehouseCodes ==
  ASSUME ProductsInv, CodesInv, NEW u \in Worker, Submit(u) \/ Step(u)
  PROVE  Codes("warehouse")' \subseteq Allowed(u, "warehouse")
  <1>1. /\ \A h \in DOMAIN houses : houses[h] \in Claimed("warehouse")
        /\ Codes("warehouse")' = {houses'[h] : h \in DOMAIN houses'}
    BY DEF Claimed, Codes
  <1>2. CASE Insert(u) /\ Op(u) = "addWarehouse"
    <2>1. houses' = Put(houses, Request[u].warehouse, draft[u].code)
      BY <1>2 DEF Insert, Op
    <2>2. draft[u].code \in Allowed(u, "warehouse")
      <3>1. KindOf(u) = "warehouse"
        BY <1>2, KindOfAdded
      <3>2. CASE Typed(u)
        <4>1. draft[u].code = Request[u].code
          BY <1>2, <3>2 DEF CodesInv, Insert
        <4>2. Request[u].code \in TypedCodes("warehouse")
          BY <1>2, <3>2 DEF TypedCodes, Coded
        <4> QED
          BY <4>1, <4>2 DEF Allowed
      <3>3. CASE ~ Typed(u)
        BY <1>2, <3>1, <3>3 DEF Allowed
      <3> QED
        BY <3>2, <3>3
    <2>3. ASSUME NEW h \in DOMAIN houses' PROVE houses'[h] \in Allowed(u, "warehouse")
      BY <1>1, <2>1, <2>2 DEF Put, Allowed
    <2> QED
      BY <1>1, <2>3
  <1>3. CASE UpdateWarehouse(u) /\ ~ UNCHANGED houses
    <2>1. houses' = [houses EXCEPT ![Request[u].warehouse] = Request[u].code]
      BY <1>3 DEF UpdateWarehouse, Fail, tables
    <2>2. Request[u].code \in Allowed(u, "warehouse")
      <3>1. Op(u) = "editWarehouse"
        BY <1>3 DEF UpdateWarehouse, ProductsInv, Placed
      <3>2. ~ Typed(u) => Request[u].code = 0
        BY DEF Typed, NoCode
      <3> QED
        BY <3>1, <3>2 DEF Allowed, TypedCodes, Coded
    <2>3. ASSUME NEW h \in DOMAIN houses' PROVE houses'[h] \in Allowed(u, "warehouse")
      BY <1>1, <2>1, <2>2 DEF Allowed
    <2> QED
      BY <1>1, <2>3
  <1>4. CASE UNCHANGED houses
    BY <1>1, <1>4 DEF Allowed
  <1>5. UNCHANGED houses \/ (Insert(u) /\ Op(u) = "addWarehouse") \/ UpdateWarehouse(u)
    BY DEF Step, Submit, StatementFails, Refuse, Fail, Creation, Edit, Recalculation,
           Registration, DrawCode, Insert, NotInserted, Replace, WriteKit, Current,
           UpdateProduct, ProductsInv, Placed, ReadHead, ReadItems, PriceItem, GetPrice,
           SetPrice, RecordPrice, tables, Op
  <1> QED
    BY <1>2, <1>3, <1>4, <1>5

\* What a handler has read, it has read from the tables.
LEMMA HoldsClaimed ==
  ASSUME ProductsInv, CodesInv, NEW u \in Worker, Submit(u) \/ Step(u), NEW kind \in Kind
  PROVE  Holds(u, kind)' \subseteq Claimed(kind)
  <1>0. Placed /\ u \in DOMAIN pc /\ u \in DOMAIN draft
    BY DEF ProductsInv, Placed, CodesInv
  <1>1. CASE kind = "product"
    <2> SUFFICES ASSUME pc'[u] = "update" PROVE draft'[u].code \in Claimed("product")
      BY <1>1 DEF Holds, At
    <2>1. Current(u) /\ ~ Fail(u)
      <3>1. ~ Submit(u)
        BY <1>0, RequestAssumption DEF Submit, Jump, First
      <3>2. ~ Fail(u)
        BY <1>0 DEF Fail, Jump
      <3>3. ~ PriceItem(u)
        BY <1>0, <3>2 DEF PriceItem, At
      <3> QED
        BY <1>0, <3>1, <3>2, <3>3 DEF Step, StatementFails, Refuse, Creation, Edit, Recalculation,
           Registration, DrawCode, Insert, NotInserted, Replace, Current, UpdateProduct,
           UpdateWarehouse, ReadHead, ReadItems, WriteKit, GetPrice, SetPrice, RecordPrice,
           Jump
    <2>2. /\ Request[u].product \in DOMAIN prods
          /\ draft'[u] = prods[Request[u].product]
      BY <1>0, <2>1 DEF Current, Hold
    <2> QED
      BY <2>2 DEF Claimed, Codes
  <1>2. CASE kind = "assembly"
    <2> SUFFICES ASSUME pc'[u] \in {"items", "item"}
                 PROVE  draft'[u].kit.code \in Claimed("assembly")
      BY <1>2 DEF Holds
    <2>1. CASE \E a \in DOMAIN kits : draft'[u].kit.code = kits[a].code
      BY <2>1 DEF Claimed, Codes
    <2>2. CASE pc[u] \in {"items", "item"} /\ draft'[u].kit.code = draft[u].kit.code
      <3>1. Holds(u, "assembly") = {draft[u].kit.code}
        BY <2>2 DEF Holds
      <3> QED
        BY <2>2, <3>1 DEF Claimed
    <2> QED
      BY <1>0, <2>1, <2>2, KitRowsKept
  <1>3. CASE kind = "warehouse"
    BY <1>3 DEF Holds
  <1> QED
    BY <1>1, <1>2, <1>3 DEF Kind

\* So is every code a step stores, or reads to store it again.
LEMMA ClaimedStep ==
  ASSUME ProductsInv, CodesInv, NEW u \in Worker, Submit(u) \/ Step(u), NEW kind \in Kind
  PROVE  Claimed(kind)' \subseteq Allowed(u, kind)
  <1>1. Codes(kind)' \subseteq Allowed(u, kind)
    BY ProductCodes, AssemblyCodes, WarehouseCodes DEF Kind
  <1>2. Holds(u, kind)' \subseteq Allowed(u, kind)
    BY HoldsClaimed DEF Allowed
  <1>3. ASSUME NEW v \in Worker \ {u} PROVE Holds(v, kind)' \subseteq Allowed(u, kind)
    <2>1. pc'[v] = pc[v] /\ draft'[v] = draft[v]
      BY OthersStay DEF ProductsInv, CodesInv
    <2>2. Holds(v, kind)' = Holds(v, kind)
      BY <2>1 DEF Holds, At
    <2> QED
      BY <2>2 DEF Claimed, Allowed
  <1> QED
    BY <1>1, <1>2, <1>3 DEF Claimed

\* A step that draws no code keeps what is known of the codes.
LEMMA CodesMove ==
  ASSUME TypeOK, ProductsInv, CodesInv, NEW u \in Worker, Submit(u) \/ Step(u), ~ DrawCode(u)
  PROVE  CodesInv'
  <1>0. Placed
    BY DEF ProductsInv
  <1>1. /\ DOMAIN draft' = Worker
        /\ \A v \in Worker \ {u} : pc'[v] = pc[v] /\ draft'[v] = draft[v]
    BY <1>0, OthersStay DEF CodesInv
  <1>2. counter' = counter /\ pc'[u] # "insert"
    <2>1. counter' = counter
      BY DEF Step, Submit, StatementFails, Refuse, Fail, Creation, Edit, Recalculation,
           Registration, Insert, NotInserted, Replace, Current, UpdateProduct,
           UpdateWarehouse, ReadHead, ReadItems, PriceItem, WriteKit, GetPrice, SetPrice,
           RecordPrice
    <2>2. u \in DOMAIN pc
      BY <1>0 DEF Placed
    <2>3. pc'[u] # "insert"
      <3>1. ~ Submit(u) => \/ Fail(u)
                           \/ PriceItem(u) /\ UNCHANGED pc
                           \/ \E label \in {"head", "ok", "failed", "update", "items", "item",
                                            "get", "set", "record"} : Jump(u, label)
        BY DEF Step, StatementFails, Refuse, Creation, Edit, Recalculation,
           Registration, Insert, NotInserted, Replace, Current, UpdateProduct,
           UpdateWarehouse, ReadHead, ReadItems, PriceItem, WriteKit, GetPrice, SetPrice,
           RecordPrice
      <3>2. Submit(u) => pc'[u] = First(Op(u)) /\ First(Op(u)) # "insert"
        BY <2>2, RequestAssumption DEF Submit, Jump, First
      <3> QED
        BY <2>2, <3>1, <3>2 DEF Fail, Jump, PriceItem, At
    <2> QED
      BY <2>1, <2>3
  <1>3. \A w \in Worker : At(w, "insert")' => At(w, "insert") /\ draft'[w] = draft[w] /\ w # u
    BY <1>1, <1>2 DEF At
  <1>4. \A w \in Worker : Drawn(w)' => Drawn(w) /\ draft'[w] = draft[w] /\ w # u
    BY <1>3, RequestsFixed DEF Drawn
  <1>5. /\ \A w \in Worker : At(w, "insert")' /\ Typed(w)' => draft'[w].code = Request[w].code
        /\ \A w \in Worker : Drawn(w)' => draft'[w].code \in 1 .. counter'[KindOf(w)']
        /\ \A v, w \in Worker :
             Drawn(v)' /\ Drawn(w)' /\ KindOf(v)' = KindOf(w)' /\ draft'[v].code = draft'[w].code
               => v = w
    <2>1. \A w \in Worker : At(w, "insert")' /\ Typed(w)' => draft'[w].code = Request[w].code
      BY <1>3, RequestsFixed DEF CodesInv
    <2>2. \A w \in Worker : Drawn(w)' => draft'[w].code \in 1 .. counter'[KindOf(w)']
      BY <1>2, <1>4, RequestsFixed DEF CodesInv
    <2>3. \A v, w \in Worker :
             Drawn(v)' /\ Drawn(w)' /\ KindOf(v)' = KindOf(w)' /\ draft'[v].code = draft'[w].code
               => v = w
      BY <1>4, RequestsFixed DEF CodesInv
    <2> QED
      BY <2>1, <2>2, <2>3
  <1>6. ASSUME NEW kind \in Kind, NEW c \in Claimed(kind)' \ TypedCodes(kind)'
        PROVE  /\ c \in 0 .. counter'[kind]
               /\ \A w \in Worker : Drawn(w)' /\ KindOf(w)' = kind => draft'[w].code # c
    <2>1. c \in Allowed(u, kind) /\ c \notin TypedCodes(kind)
      BY <1>6, ClaimedStep, RequestsFixed
    <2>2. counter[kind] \in Nat
      BY DEF TypeOK
    <2>3. CASE c \in Claimed(kind)
      <3>1. /\ c \in 0 .. counter[kind]
            /\ \A w \in Worker : Drawn(w) /\ KindOf(w) = kind => draft[w].code # c
        BY <2>1, <2>3 DEF CodesInv
      <3> QED
        BY <1>2, <1>4, <3>1, RequestsFixed
    <2>4. CASE c = 0
      <3>1. \A w \in Worker : Drawn(w)' /\ KindOf(w)' = kind => draft'[w].code # c
        BY <1>5, <2>4, <1>2, <2>2
      <3> QED
        BY <1>2, <2>2, <2>4, <3>1
    <2>5. CASE Insert(u) /\ ~Typed(u) /\ KindOf(u) = kind /\ c = draft[u].code
      <3>1. Drawn(u)
        BY <2>5 DEF Insert, Drawn
      <3>2. c \in 1 .. counter[kind]
        BY <2>5, <3>1 DEF CodesInv
      <3>3. \A w \in Worker : Drawn(w)' /\ KindOf(w)' = kind => draft'[w].code # c
        BY <1>4, <2>5, <3>1, RequestsFixed DEF CodesInv
      <3> QED
        BY <1>2, <2>2, <3>2, <3>3
    <2> QED
      BY <2>1, <2>3, <2>4, <2>5 DEF Allowed
  <1>7. /\ \A a \in DOMAIN kits' : DOMAIN kits'[a] = KitRow
        /\ \A w \in Worker : pc'[w] \in {"items", "item"} => DOMAIN draft'[w].kit = KitRow
    BY <1>0, KitRowsKept
  <1> QED
    BY <1>1, <1>5, <1>6, <1>7 DEF CodesInv

\* A code drawn from a sequence is above everything drawn from it before.
LEMMA CodesDraw ==
  ASSUME TypeOK, ProductsInv, CodesInv, NEW u \in Worker, Step(u), DrawCode(u)
  PROVE  CodesInv'
  <1>0. Placed /\ u \in DOMAIN pc /\ u \in DOMAIN draft
    BY DEF ProductsInv, Placed, CodesInv
  <1>1. /\ DOMAIN draft' = Worker
        /\ \A v \in Worker \ {u} : pc'[v] = pc[v] /\ draft'[v] = draft[v]
    BY <1>0, OthersStay DEF CodesInv
  <1> DEFINE k == KindOf(u)
  <1>2. k \in Kind /\ counter \in [Kind -> Nat]
    BY <1>0, KindOfAdded DEF DrawCode, Placed, Kind, TypeOK
  <1>3. /\ pc[u] = "draw" /\ pc'[u] = "insert" /\ UNCHANGED tables
        /\ Typed(u) => draft'[u].code = Request[u].code /\ counter' = counter
        /\ ~ Typed(u) => /\ draft'[u].code = counter[k] + 1
                         /\ counter' = [counter EXCEPT ![k] = counter[k] + 1]
    BY <1>0 DEF DrawCode, At, Jump, Hold, NextNumber
  <1>4. \A kind \in Kind : Claimed(kind)' \subseteq Claimed(kind)
    <2>1. \A kind \in Kind : Codes(kind)' = Codes(kind)
      BY <1>3 DEF Codes, tables
    <2>2. \A kind \in Kind : Holds(u, kind)' = {}
      BY <1>3 DEF Holds, At
    <2>3. \A v \in Worker \ {u} : \A kind \in Kind : Holds(v, kind)' = Holds(v, kind)
      BY <1>1 DEF Holds, At
    <2> QED
      BY <2>1, <2>2, <2>3 DEF Claimed
  <1>5. \A kind \in Kind : counter[kind] \in Nat /\ counter'[kind] \in Nat
                           /\ counter[kind] <= counter'[kind]
    BY <1>2, <1>3
  <1> HIDE DEF k
  <1>6. \A w \in Worker \ {u} : Drawn(w)' => Drawn(w) /\ draft'[w] = draft[w]
    BY <1>1, RequestsFixed DEF Drawn, At
  <1>7. \A w \in Worker : Drawn(w) => KindOf(w) \in Kind
    BY <1>0, KindOfAdded DEF Drawn, Placed, Kind
  <1>8. ASSUME NEW w \in Worker, Drawn(w)'
        PROVE  draft'[w].code \in 1 .. counter'[KindOf(w)']
    <2>1. CASE w = u
      <3>1. ~ Typed(u)
        BY <1>8, <2>1, RequestsFixed DEF Drawn
      <3>2. draft'[u].code = counter[k] + 1 /\ counter'[k] = counter[k] + 1 /\ counter[k] \in Nat
        BY <1>2, <1>3, <3>1
      <3>3. KindOf(w)' = k
        BY <2>1, RequestsFixed DEF k
      <3> QED
        BY <2>1, <3>2, <3>3
    <2>2. CASE w # u
      <3>1. draft[w].code \in 1 .. counter[KindOf(w)] /\ draft'[w] = draft[w]
        BY <1>6, <1>8, <2>2 DEF CodesInv
      <3>2. KindOf(w) \in Kind
        BY <1>6, <1>7, <1>8, <2>2
      <3> QED
        BY <1>5, <3>1, <3>2, RequestsFixed
    <2> QED
      BY <2>1, <2>2
  <1>9. ASSUME NEW w \in Worker \ {u}, Drawn(w)', Drawn(u)', KindOf(w)' = KindOf(u)'
        PROVE  draft'[w].code # draft'[u].code
    <2>1. draft[w].code \in 1 .. counter[k] /\ draft'[w] = draft[w]
      BY <1>6, <1>9, RequestsFixed DEF CodesInv, k
    <2>2. draft'[u].code = counter[k] + 1 /\ counter[k] \in Nat
      BY <1>2, <1>3, <1>9, RequestsFixed DEF Drawn
    <2> QED
      BY <2>1, <2>2
  <1>10. ASSUME NEW kind \in Kind, NEW c \in Claimed(kind)' \ TypedCodes(kind)'
         PROVE  /\ c \in 0 .. counter'[kind]
                /\ \A w \in Worker : Drawn(w)' /\ KindOf(w)' = kind => draft'[w].code # c
    <2>1. /\ c \in 0 .. counter[kind]
          /\ \A w \in Worker : Drawn(w) /\ KindOf(w) = kind => draft[w].code # c
      BY <1>4, <1>10, RequestsFixed DEF CodesInv
    <2>2. c \in 0 .. counter'[kind]
      BY <1>5, <2>1
    <2>3. ASSUME NEW w \in Worker, Drawn(w)', KindOf(w)' = kind PROVE draft'[w].code # c
      <3>1. CASE w = u
        <4>1. draft'[u].code = counter[k] + 1 /\ k = kind /\ counter[kind] \in Nat
          BY <1>2, <1>3, <2>3, <3>1, RequestsFixed DEF Drawn, k
        <4> QED
          BY <2>1, <3>1, <4>1
      <3>2. CASE w # u
        BY <1>6, <2>1, <2>3, <3>2, RequestsFixed
      <3> QED
        BY <3>1, <3>2
    <2> QED
      BY <2>2, <2>3
  <1>11. \A w \in Worker : At(w, "insert")' /\ Typed(w)' => draft'[w].code = Request[w].code
    BY <1>1, <1>3, RequestsFixed DEF CodesInv, At
  <1>12. \A v, w \in Worker :
             Drawn(v)' /\ Drawn(w)' /\ KindOf(v)' = KindOf(w)' /\ draft'[v].code = draft'[w].code
               => v = w
    <2> SUFFICES ASSUME NEW v \in Worker, NEW w \in Worker, Drawn(v)', Drawn(w)',
                        KindOf(v)' = KindOf(w)', draft'[v].code = draft'[w].code
                 PROVE  v = w
      OBVIOUS
    <2>1. CASE v # u /\ w # u
      BY <1>6, <2>1, RequestsFixed DEF CodesInv
    <2>2. CASE v = u \/ w = u
      BY <1>9, <2>2
    <2> QED
      BY <2>1, <2>2
  <1>13. /\ \A a \in DOMAIN kits' : DOMAIN kits'[a] = KitRow
         /\ \A w \in Worker : pc'[w] \in {"items", "item"} => DOMAIN draft'[w].kit = KitRow
    BY <1>0, KitRowsKept
  <1> QED
    BY <1>1, <1>8, <1>10, <1>11, <1>12, <1>13 DEF CodesInv

\* Two codes drawn from a sequence are never the same, however drawing and
\* inserting interleave and fail (catalog_repo.go), if the SKUs in use at first
\* came from their sequence: who asked for no code is refused only for a code
\* somebody typed.
THEOREM CodesDiffer ==
  ASSUME \A p \in DOMAIN Products0 : Products0[p].code \in 0 .. LastSku
  PROVE  Spec => []DrawnCodesDiffer
  <1>1. Init => CodesInv
    <2> SUFFICES ASSUME Init PROVE CodesInv
      OBVIOUS
    <2>1. \A w \in Worker : pc[w] = "waiting"
      BY DEF Init
    <2>2. \A kind \in Kind : Claimed(kind) = Codes(kind)
      BY <2>1 DEF Claimed, Holds, At
    <2>3. \A kind \in Kind : \A c \in Codes(kind) : c \in 0 .. counter[kind]
      <3>1. \A c \in Codes("product") : c \in 0 .. LastSku
        BY DEF Codes, Init
      <3>2. \A c \in Codes("product") : c \in 0 .. counter["product"]
        BY <3>1, CounterInit
      <3>3. \A kind \in {"assembly", "warehouse"} : \A c \in Codes(kind) : c \in 0 .. counter[kind]
        BY CounterInit DEF Kind
      <3> QED
        BY <3>2, <3>3 DEF Kind
    <2>4. \A a \in DOMAIN kits : DOMAIN kits[a] = KitRow
      BY OpeningAssumption, KitRows DEF Init
    <2> QED
      BY <2>1, <2>2, <2>3, <2>4 DEF CodesInv, Drawn, At, Init
  <1>2. TypeOK /\ ProductsInv /\ CodesInv /\ [Next]_vars => CodesInv'
    <2> SUFFICES ASSUME TypeOK, ProductsInv, CodesInv, [Next]_vars PROVE CodesInv'
      OBVIOUS
    <2>1. CASE UNCHANGED vars
      <3>1. UNCHANGED <<prods, kits, houses, counter, pc, draft>>
        BY <2>1 DEF vars, tables
      <3>2. \A kind \in Kind : Claimed(kind)' = Claimed(kind)
        BY <3>1 DEF Claimed, Codes, Holds, At
      <3>3. \A w \in Worker : (Drawn(w)' <=> Drawn(w)) /\ (At(w, "insert")' <=> At(w, "insert"))
        BY <3>1, RequestsFixed DEF Drawn, At
      <3> QED
        BY <3>1, <3>2, <3>3, RequestsFixed DEF CodesInv
    <2>2. ASSUME NEW u \in Worker, Submit(u) \/ Step(u) PROVE CodesInv'
      <3>1. CASE DrawCode(u)
        <4>1. ~ Submit(u)
          BY <3>1 DEF Submit, DrawCode, At
        <4> QED
          BY <2>2, <3>1, <4>1, CodesDraw
      <3>2. CASE ~ DrawCode(u)
        BY <2>2, <3>2, CodesMove
      <3> QED
        BY <3>1, <3>2
    <2> QED
      BY <2>1, <2>2 DEF Next
  <1>3. Placed /\ CodesInv => DrawnCodesDiffer
    <2> SUFFICES ASSUME Placed, CodesInv, NEW w \in Worker, At(w, "insert"), ~Typed(w),
                        draft[w].code \in Codes(KindOf(w))
                 PROVE  draft[w].code \in TypedCodes(KindOf(w))
      BY DEF DrawnCodesDiffer
    <2>1. Drawn(w) /\ KindOf(w) \in Kind /\ draft[w].code \in Claimed(KindOf(w))
      BY KindOfAdded DEF Drawn, Placed, Kind, Claimed
    <2> QED
      BY <2>1 DEF CodesInv
  <1>4. ProductsInv => Placed
    BY DEF ProductsInv
  <1> QED
    BY <1>1, <1>2, <1>3, <1>4, ProductsInit, ProductsStep, CatalogTypeCorrect, PTL DEF Spec

(***************************************************************************)
(* The prices of products                                                  *)
(***************************************************************************)

Pricing == {"price", "apply"}
Lists == {"sale", "purchase"}
Registered(w) ==
  "prev" \in DOMAIN draft[w] /\ draft[w].list \in Lists /\ draft[w].product \in DOMAIN prods

\* Where the requests that register a price may be, and what they then hold:
\* once one has read the product it keeps its draft.
Registrar(w) ==
  /\ pc[w] \in {"get", "set", "record"} => Op(w) \in Pricing
  /\ Op(w) = "price" => pc[w] \in {"waiting", "get", "set", "record", "ok", "failed"}
  /\ Op(w) = "apply" => pc[w] \in {"waiting", "head", "items", "item", "get", "set", "record",
                                   "ok", "failed"}
  /\ Op(w) \in Pricing =>
       /\ pc[w] \in {"set", "record", "ok"} => Registered(w)
       /\ "prev" \in DOMAIN draft[w] => pc[w] \in {"set", "record", "ok", "failed"}
       /\ Op(w) = "apply" /\ pc[w] = "get" => draft[w].list = "sale"
PricesInv ==
  /\ ProductsInv
  /\ DOMAIN draft = Worker
  /\ \A w \in Worker : Registrar(w)
  /\ PriceKept

(***************************************************************************)
(* What one worker's step leaves alone                                     *)
(***************************************************************************)

\* The other workers stay where they are and keep what they hold, and no
\* product is removed.
LEMMA OneMoves ==
  ASSUME PricesInv, NEW u \in Worker, Submit(u) \/ Step(u)
  PROVE  /\ DOMAIN draft' = Worker /\ DOMAIN prods \subseteq DOMAIN prods'
         /\ \A v \in Worker \ {u} : pc'[v] = pc[v] /\ draft'[v] = draft[v]
  <1>1. \/ draft' = draft
        \/ \E d : draft' = [draft EXCEPT ![u] = d]
    BY DEF Step, Submit, StatementFails, Refuse, Fail, Creation, Edit, Recalculation,
           Registration, DrawCode, Insert, NotInserted, Replace, Current, UpdateProduct,
           UpdateWarehouse, ReadHead, ReadItems, PriceItem, WriteKit, GetPrice, SetPrice,
           RecordPrice, Hold
  <1>2. \/ pc' = pc
        \/ \E label : pc' = [pc EXCEPT ![u] = label]
    BY DEF Step, Submit, StatementFails, Refuse, Fail, Creation, Edit, Recalculation,
           Registration, DrawCode, Insert, NotInserted, Replace, Current, UpdateProduct,
           UpdateWarehouse, ReadHead, ReadItems, PriceItem, WriteKit, GetPrice, SetPrice,
           RecordPrice, Jump
  <1>3. prods' = prods \/ Insert(u) \/ UpdateProduct(u) \/ SetPrice(u)
    BY DEF Step, Submit, StatementFails, Refuse, Fail, Creation, Edit, Recalculation,
           Registration, DrawCode, NotInserted, Replace, Current, UpdateWarehouse, ReadHead,
           ReadItems, PriceItem, WriteKit, GetPrice, RecordPrice, tables
  <1>4. DOMAIN draft = Worker /\ DOMAIN pc = Worker
    BY DEF PricesInv, ProductsInv, Placed
  <1>5. DOMAIN draft' = Worker /\ \A v \in Worker \ {u} : draft'[v] = draft[v]
    BY <1>1, <1>4
  <1>6. \A v \in Worker \ {u} : pc'[v] = pc[v]
    BY <1>2, <1>4
  <1>7. DOMAIN prods \subseteq DOMAIN prods'
    <2>1. CASE Insert(u)
      <3>1. CASE Op(u) = "addProduct"
        <4>1. \E row : prods' = Put(prods, Request[u].product, row)
          BY <2>1, <3>1 DEF Insert, Op
        <4> QED
          BY <4>1 DEF Put
      <3>2. CASE Op(u) # "addProduct"
        BY <2>1, <3>2 DEF Insert, Op, PricesInv, ProductsInv, Placed
      <3> QED
        BY <3>1, <3>2
    <2>2. CASE UpdateProduct(u) \/ SetPrice(u)
      <3>1. \E p, row : prods' = [prods EXCEPT ![p] = row]
        BY <2>2 DEF UpdateProduct, SetPrice
      <3> QED
        BY <3>1
    <2> QED
      BY <1>3, <2>1, <2>2
  <1> QED
    BY <1>5, <1>6, <1>7

\* Only SetPrice changes a price, and only the one its draft names.
LEMMA PriceStays ==
  ASSUME PricesInv, NEW u \in Worker, Submit(u) \/ Step(u),
         NEW list \in Lists, NEW p \in DOMAIN prods,
         ~ (SetPrice(u) /\ draft[u].list = list /\ draft[u].product = p)
  PROVE  PriceOf(list, p)' = PriceOf(list, p)
  <1>1. CASE prods' = prods
    BY <1>1 DEF PriceOf
  <1>2. CASE Insert(u) /\ Op(u) = "addProduct"
    <2>1. /\ Request[u].product \notin DOMAIN prods
          /\ \E row : prods' = Put(prods, Request[u].product, row)
      BY <1>2 DEF Insert, Insertable, Op
    <2> QED
      BY <2>1 DEF Put, PriceOf
  <1>3. CASE UpdateProduct(u)
    <2> DEFINE q == Request[u].product
               units == Normalized(Request[u].units)
    <2>1. prods' = [prods EXCEPT ![q] = [prods[q] EXCEPT !.units = units, !.code = draft[u].code]]
      BY <1>3 DEF UpdateProduct, Edited
    <2> HIDE DEF units
    <2>2. CASE q = p
      <3>1. prods'[p] = [prods[p] EXCEPT !.units = units, !.code = draft[u].code]
        BY <2>1, <2>2
      <3>2. DOMAIN prods[p] = ProductRow
        BY DEF PricesInv, ProductsInv, Sold
      <3>3. prods'[p].sale = prods[p].sale /\ prods'[p].purchase = prods[p].purchase
        BY <3>1, <3>2 DEF ProductRow
      <3> QED
        BY <3>3 DEF PriceOf
    <2>3. CASE q # p
      BY <2>1, <2>3 DEF PriceOf
    <2> QED
      BY <2>2, <2>3
  <1>4. CASE SetPrice(u)
    <2> DEFINE q == draft[u].product
    <2>1. prods' = [prods EXCEPT ![q] =
                      IF draft[u].list = "sale" THEN [prods[q] EXCEPT !.sale = draft[u].new]
                      ELSE [prods[q] EXCEPT !.purchase = draft[u].new]]
      BY <1>4 DEF SetPrice
    <2>2. CASE q = p
      <3>1. DOMAIN prods[p] = ProductRow
        BY DEF PricesInv, ProductsInv, Sold
      <3>2. draft[u].list # list /\ draft[u].list \in Lists
        BY <1>4, <2>2 DEF PricesInv, Registrar, Registered, SetPrice, At
      <3>3. CASE list = "sale"
        <4>1. prods'[p] = [prods[p] EXCEPT !.purchase = draft[u].new]
          BY <2>1, <2>2, <3>2, <3>3
        <4>2. prods'[p].sale = prods[p].sale
          BY <3>1, <4>1 DEF ProductRow
        <4> QED
          BY <3>3, <4>2 DEF PriceOf
      <3>4. CASE list # "sale"
        <4>1. prods'[p] = [prods[p] EXCEPT !.sale = draft[u].new]
          BY <2>1, <2>2, <3>2, <3>4 DEF Lists
        <4>2. prods'[p].purchase = prods[p].purchase
          BY <3>1, <4>1 DEF ProductRow
        <4> QED
          BY <3>4, <4>2 DEF PriceOf
      <3> QED
        BY <3>3, <3>4
    <2>3. CASE q # p
      BY <2>1, <2>3 DEF PriceOf
    <2> QED
      BY <2>2, <2>3
  <1>5. \/ prods' = prods
        \/ Insert(u) /\ Op(u) = "addProduct"
        \/ UpdateProduct(u) \/ SetPrice(u)
    BY DEF Step, Submit, StatementFails, Refuse, Fail, Creation, Edit, Recalculation,
           Registration, DrawCode, Insert, NotInserted, Replace, Current, PricesInv, ProductsInv,
           Placed, UpdateWarehouse, ReadHead, ReadItems, PriceItem, WriteKit, GetPrice,
           RecordPrice, tables, Op
  <1> QED
    BY <1>1, <1>2, <1>3, <1>4, <1>5

(***************************************************************************)
(* The requests that register a price                                      *)
(***************************************************************************)

\* What a request that registers a price does next, by where it is.
LEMMA PricingStep ==
  ASSUME PricesInv, NEW u \in Worker, Submit(u) \/ Step(u), Op(u) \in Pricing
  PROVE  Registrar(u)'
  <1>1. /\ Op(u) = "price" => pc[u] \in {"waiting", "get", "set", "record", "ok", "failed"}
        /\ Op(u) = "apply" => pc[u] \in {"waiting", "head", "items", "item", "get", "set",
                                          "record", "ok", "failed"}
        /\ pc[u] \in {"set", "record", "ok"} => Registered(u)
        /\ "prev" \in DOMAIN draft[u] => pc[u] \in {"set", "record", "ok", "failed"}
        /\ Op(u) = "apply" /\ pc[u] = "get" => draft[u].list = "sale"
        /\ u \in DOMAIN pc /\ u \in DOMAIN draft
    BY DEF PricesInv, Registrar, ProductsInv, Placed
  <1>2. DOMAIN prods \subseteq DOMAIN prods'
    BY OneMoves
  <1>3. Op(u)' = Op(u)
    BY DEF Op
  <1>4. CASE Submit(u)
    <2>1. /\ pc[u] = "waiting" /\ draft' = draft
          /\ pc'[u] = IF Op(u) = "price" THEN "get" ELSE "head"
      BY <1>1, <1>4 DEF Submit, At, Jump, First, Pricing
    <2> QED
      BY <1>1, <1>3, <2>1 DEF Registrar, Pricing
  <1>5. CASE Fail(u)
    <2>1. pc'[u] = "failed" /\ draft' = draft
      BY <1>1, <1>5 DEF Fail, Jump
    <2> QED
      BY <1>3, <2>1 DEF Registrar, Pricing
  <1>6. CASE (ReadHead(u) \/ ReadItems(u) \/ PriceItem(u)) /\ ~ Fail(u)
    <2>1. /\ pc[u] \in {"head", "items", "item"} /\ pc'[u] \in {"items", "item"}
          /\ \E k, l : draft'[u] = [kit |-> k, left |-> l]
      <3>1. CASE ReadHead(u)
        <4> DEFINE k == [kits[Request[u].kit] EXCEPT !.cost = 0, !.items = <<>>]
        <4>1. /\ pc[u] = "head" /\ Jump(u, "items")
              /\ draft' = [draft EXCEPT ![u] = [kit |-> k, left |-> <<>>]]
          BY <1>6, <3>1 DEF ReadHead, At, Hold
        <4> HIDE DEF k
        <4> QED
          BY <1>1, <4>1 DEF Jump
      <3>2. CASE ReadItems(u)
        BY <1>1, <3>2 DEF ReadItems, At, Jump, Hold
      <3>3. CASE PriceItem(u)
        BY <1>1, <1>6, <3>3 DEF PriceItem, At, Hold
      <3> QED
        BY <1>6, <3>1, <3>2, <3>3
    <2>2. Op(u) = "apply" /\ "prev" \notin DOMAIN draft'[u]
      BY <1>1, <2>1 DEF Pricing
    <2> QED
      BY <1>3, <2>1, <2>2 DEF Registrar, Pricing
  <1>7. CASE WriteKit(u) /\ ~ Fail(u)
    <2>1. pc[u] = "item"
      BY <1>7 DEF WriteKit, At
    <2>2. Op(u) = "apply"
      BY <1>1, <2>1 DEF Pricing
    <2>3. \/ pc'[u] = "failed" /\ draft'[u] = NoDraft
          \/ pc'[u] = "get" /\ draft'[u] = SalePriceOf(draft[u].kit)
      BY <1>1, <1>7, <2>2 DEF WriteKit, Jump, Hold
    <2>4. CASE pc'[u] = "failed"
      BY <1>3, <2>2, <2>4 DEF Registrar, Pricing
    <2>5. CASE pc'[u] = "get"
      <3>1. draft'[u].list = "sale" /\ "prev" \notin DOMAIN draft'[u]
        BY <2>3, <2>5 DEF SalePriceOf
      <3> QED
        BY <1>3, <2>2, <2>5, <3>1 DEF Registrar, Pricing
    <2> QED
      BY <2>3, <2>4, <2>5
  <1>8. CASE GetPrice(u) /\ ~ Fail(u)
    <2> DEFINE o == Order(u)
    <2>1. /\ o.product \in DOMAIN prods /\ pc[u] = "get" /\ pc'[u] = "set"
          /\ draft'[u] = [list |-> o.list, product |-> o.product,
                          code |-> prods[o.product].code,
                          prev |-> PriceOf(o.list, o.product), new |-> o.price]
      BY <1>1, <1>8 DEF GetPrice, At, Jump, Hold
    <2>2. o.list \in Lists
      BY <1>1, <2>1, RequestAssumption DEF Order, Lists, Pricing
    <2>3. Registered(u)'
      BY <1>2, <2>1, <2>2 DEF Registered
    <2> QED
      BY <1>3, <2>1, <2>3 DEF Registrar, Pricing
  <1>9. CASE SetPrice(u) \/ RecordPrice(u)
    <2>1. /\ pc[u] \in {"set", "record"} /\ pc'[u] \in {"record", "ok"} /\ draft' = draft
      BY <1>1, <1>9 DEF SetPrice, RecordPrice, At, Jump
    <2>2. Registered(u)'
      BY <1>1, <1>2, <2>1 DEF Registered
    <2> QED
      BY <1>3, <2>1, <2>2 DEF Registrar, Pricing
  <1>10. (~ Creation(u) /\ ~ Edit(u)) \/ Fail(u)
    BY <1>1 DEF Creation, Edit, DrawCode, Insert, NotInserted, Replace, Current,
                UpdateProduct, UpdateWarehouse, At, Pricing, PricesInv, ProductsInv, Placed
  <1> QED
    BY <1>4, <1>5, <1>6, <1>7, <1>8, <1>9, <1>10 DEF Step, StatementFails, Refuse,
       Recalculation, Registration

\* Every other request keeps away from prices.
LEMMA OtherStep ==
  ASSUME PricesInv, NEW u \in Worker, Submit(u) \/ Step(u), Op(u) \notin Pricing
  PROVE  Registrar(u)'
  <1>1. pc[u] \notin {"get", "set", "record"} /\ u \in DOMAIN pc
    BY DEF PricesInv, Registrar, ProductsInv, Placed
  <1>2. Op(u)' = Op(u)
    BY DEF Op
  <1>3. CASE Submit(u)
    <2>1. pc'[u] = First(Op(u))
      BY <1>1, <1>3 DEF Submit, Jump
    <2>2. First(Op(u)) \notin {"get", "set", "record"}
      BY RequestAssumption DEF First, Pricing
    <2> QED
      BY <1>2, <2>1, <2>2 DEF Registrar, Pricing
  <1>4. CASE Step(u)
    <2>1. pc'[u] \in {"insert", "head", "ok", "failed", "update", "items", "item"}
      BY <1>1, <1>4 DEF Step, StatementFails, Refuse, Fail, Creation, Edit, Recalculation,
           Registration, DrawCode, Insert, NotInserted, Replace, Current, UpdateProduct,
           UpdateWarehouse, ReadHead, ReadItems, PriceItem, WriteKit, GetPrice, SetPrice,
           RecordPrice, Jump, At, Pricing
    <2> QED
      BY <1>2, <2>1 DEF Registrar, Pricing
  <1> QED
    BY <1>3, <1>4

\* The invariant of each request.
LEMMA RegistrarStep ==
  ASSUME PricesInv, NEW u \in Worker, Submit(u) \/ Step(u), NEW w \in Worker
  PROVE  Registrar(w)'
  <1>1. CASE w = u
    BY <1>1, PricingStep, OtherStep
  <1>2. CASE w # u
    <2>1. /\ pc'[w] = pc[w] /\ draft'[w] = draft[w] /\ DOMAIN prods \subseteq DOMAIN prods'
          /\ Registrar(w) /\ Op(w)' = Op(w)
      BY <1>2, OneMoves DEF PricesInv, Op
    <2>2. Registered(w) => Registered(w)'
      BY <2>1 DEF Registered
    <2> QED
      BY <2>1, <2>2 DEF Registrar
  <1> QED
    BY <1>1, <1>2

\* A request that has begun to register a price goes on holding what it read.
LEMMA KeepsDraft ==
  ASSUME PricesInv, NEW u \in Worker, Submit(u) \/ Step(u),
         Op(u) \in Pricing, "prev" \in DOMAIN draft[u]
  PROVE  draft' = draft /\ pc[u] \in {"set", "record"}
  <1>1. /\ pc[u] \in {"set", "record", "ok", "failed"} /\ Op(u) \notin {"addKit", "addProduct",
             "addWarehouse", "editKit", "editProduct", "editWarehouse"}
    BY DEF PricesInv, Registrar, Pricing
  <1>2. pc[u] \in {"set", "record"}
    BY <1>1 DEF Submit, Step, At, Statement, Reading, Writing
  <1> QED
    BY <1>2 DEF Step, Submit, StatementFails, Refuse, Fail, Creation, Edit, Recalculation,
         Registration, DrawCode, Insert, NotInserted, Replace, Current, UpdateProduct,
         UpdateWarehouse, ReadHead, ReadItems, PriceItem, WriteKit, GetPrice, SetPrice,
         RecordPrice, At

(***************************************************************************)
(* The price                                                               *)
(***************************************************************************)

\* The price the step itself sets.
LEMMA PriceSet ==
  ASSUME PricesInv, NEW u \in Worker, SetPrice(u)
  PROVE  PriceOf(draft[u].list, draft[u].product)' = draft[u].new
  <1> DEFINE q == draft[u].product
  <1>1. draft[u].list \in Lists /\ q \in DOMAIN prods
    BY DEF SetPrice, At, PricesInv, Registrar, Registered
  <1>2. DOMAIN prods[q] = ProductRow
    BY <1>1 DEF PricesInv, ProductsInv, Sold
  <1>3. /\ prods'[q] = IF draft[u].list = "sale" THEN [prods[q] EXCEPT !.sale = draft[u].new]
                      ELSE [prods[q] EXCEPT !.purchase = draft[u].new]
        /\ draft' = draft
    BY <1>1 DEF SetPrice
  <1>4. CASE draft[u].list = "sale"
    <2>1. prods'[q].sale = draft[u].new
      BY <1>2, <1>3, <1>4 DEF ProductRow
    <2> QED
      BY <1>3, <1>4, <2>1 DEF PriceOf
  <1>5. CASE draft[u].list # "sale"
    <2>1. prods'[q].purchase = draft[u].new
      BY <1>2, <1>3, <1>5 DEF ProductRow
    <2> QED
      BY <1>3, <1>5, <2>1 DEF PriceOf
  <1> QED
    BY <1>4, <1>5

\* A request that has set its price has done so, or recorded it, just now or is
\* the one that rests.
LEMMA StaysRegistered ==
  ASSUME PricesInv, NEW u \in Worker, Submit(u) \/ Step(u), Op(u) \in Pricing,
         pc'[u] \in {"record", "ok"}
  PROVE  SetPrice(u) \/ RecordPrice(u)
  <1>1. /\ Op(u) = "price" => pc[u] \in {"waiting", "get", "set", "record", "ok", "failed"}
        /\ Op(u) = "apply" => pc[u] \in {"waiting", "head", "items", "item", "get", "set",
                                          "record", "ok", "failed"}
        /\ u \in DOMAIN pc
    BY DEF PricesInv, Registrar, ProductsInv, Placed
  <1>2. ~ Submit(u)
    BY <1>1 DEF Submit, Jump, First, Pricing
  <1>3. ~ Fail(u)
    BY <1>1 DEF Fail, Jump
  <1>4. ~ ReadHead(u) /\ ~ ReadItems(u) /\ ~ GetPrice(u)
    BY <1>1, <1>3 DEF ReadHead, ReadItems, GetPrice, Jump
  <1>5. ~ PriceItem(u)
    BY <1>1, <1>3 DEF PriceItem, At
  <1>6. ~ WriteKit(u)
    BY <1>1, <1>3 DEF WriteKit, At, Jump, Pricing
  <1>7. ~ Creation(u) /\ ~ Edit(u)
    BY <1>1, <1>3 DEF Creation, Edit, DrawCode, Insert, NotInserted, Replace, Current,
                UpdateProduct, UpdateWarehouse, At, Pricing, PricesInv, ProductsInv, Placed
  <1> QED
    BY <1>2, <1>3, <1>4, <1>5, <1>6, <1>7 DEF Step, StatementFails, Refuse,
       Recalculation, Registration

\* Nobody else's step disturbs a price that was set.
LEMMA PriceKeptStep ==
  ASSUME PricesInv, NEW u \in Worker, Submit(u) \/ Step(u)
  PROVE  PriceKept'
  <1> SUFFICES ASSUME NEW w \in Worker, Set(w)', OnlyRegistrar(w)'
               PROVE  PriceOf(draft[w].list, draft[w].product)' = draft'[w].new
    BY DEF PriceKept
  <1>1. CASE w = u
    <2>1. Op(u) \in Pricing /\ pc'[u] \in {"record", "ok"}
      BY <1>1 DEF Set, Op, Pricing
    <2>2. SetPrice(u) \/ RecordPrice(u)
      BY <2>1, StaysRegistered
    <2>3. draft' = draft
      BY <2>2 DEF SetPrice, RecordPrice
    <2>4. CASE SetPrice(u)
      BY <1>1, <2>3, <2>4, PriceSet
    <2>5. CASE RecordPrice(u)
      <3>1. Set(w) /\ OnlyRegistrar(w)
        BY <1>1, <2>1, <2>3, <2>5 DEF RecordPrice, At, Set, OnlyRegistrar, Registers, Op, Pricing
      <3>2. PriceOf(draft[w].list, draft[w].product) = draft[w].new
        BY <3>1 DEF PricesInv, PriceKept
      <3>3. prods' = prods
        BY <2>5 DEF RecordPrice
      <3> QED
        BY <2>3, <3>2, <3>3 DEF PriceOf
    <2> QED
      BY <2>2, <2>4, <2>5
  <1>2. CASE w # u
    <2>1. pc'[w] = pc[w] /\ draft'[w] = draft[w]
      BY <1>2, OneMoves
    <2>2. Set(w)
      BY <2>1 DEF Set, Op
    <2>3. draft[w].list \in Lists /\ draft[w].product \in DOMAIN prods
      BY <2>2 DEF Set, PricesInv, Registrar, Registered, Pricing
    <2>4. OnlyRegistrar(w)
      <3> SUFFICES ASSUME NEW v \in Worker \ {w}, Registers(v, draft[w].list, draft[w].product)
                   PROVE  FALSE
        BY DEF OnlyRegistrar
      <3>1. draft'[v] = draft[v]
        BY OneMoves, KeepsDraft DEF Registers, Pricing
      <3>2. Registers(v, draft[w].list, draft[w].product)'
        BY <2>1, <3>1 DEF Registers, Op
      <3> QED
        BY <3>2 DEF OnlyRegistrar
    <2>5. PriceOf(draft[w].list, draft[w].product) = draft[w].new
      BY <2>2, <2>4 DEF PricesInv, PriceKept
    <2>6. ~ (SetPrice(u) /\ draft[u].list = draft[w].list /\ draft[u].product = draft[w].product)
      BY <1>2, <2>4 DEF SetPrice, At, PricesInv, Registrar, Registered, OnlyRegistrar, Registers,
                        Pricing
    <2>7. \A list \in Lists, p \in DOMAIN prods :
            list = draft[w].list /\ p = draft[w].product => PriceOf(list, p)' = PriceOf(list, p)
      BY <2>6, PriceStays
    <2>8. PriceOf(draft[w].list, draft[w].product)' = PriceOf(draft[w].list, draft[w].product)
      BY <2>1, <2>3, <2>7 DEF PriceOf
    <2> QED
      BY <2>1, <2>5, <2>8
  <1> QED
    BY <1>1, <1>2

\* The requests that register prices do as PricesInv says.
LEMMA PricesInvariant == Spec => []PricesInv
  <1>1. Init => PricesInv
    <2> SUFFICES ASSUME Init PROVE PricesInv
      OBVIOUS
    <2>1. \A w \in Worker : pc[w] = "waiting" /\ draft[w] = <<>>
      BY DEF Init, NoDraft
    <2>2. \A w \in Worker : Registrar(w)
      BY <2>1 DEF Registrar
    <2>3. PriceKept
      BY <2>1 DEF PriceKept, Set
    <2> QED
      BY <2>2, <2>3, ProductsInit DEF Init, PricesInv
  <1>2. PricesInv /\ [Next]_vars => PricesInv'
    <2> SUFFICES ASSUME PricesInv, [Next]_vars PROVE PricesInv'
      OBVIOUS
    <2>1. ProductsInv'
      BY ProductsStep DEF PricesInv
    <2>2. ASSUME NEW u \in Worker, Submit(u) \/ Step(u) PROVE PricesInv'
      BY <2>1, <2>2, OneMoves, RegistrarStep, PriceKeptStep DEF PricesInv
    <2>3. CASE UNCHANGED vars
      <3>1. UNCHANGED <<prods, pc, draft>>
        BY <2>3 DEF vars, tables
      <3>2. \A w \in Worker : Registrar(w)'
        BY <3>1 DEF PricesInv, Registrar, Registered, Op
      <3>3. PriceKept'
        BY <3>1 DEF PricesInv, PriceKept, Set, OnlyRegistrar, Registers, PriceOf, Op
      <3> QED
        BY <2>1, <3>1, <3>2, <3>3 DEF PricesInv
    <2> QED
      BY <2>2, <2>3 DEF Next
  <1> QED
    BY <1>1, <1>2, PTL DEF Spec

\* A price somebody set stays until somebody sets another: edits of the product
\* that read it before keep it (product_repo.go:46-60).
THEOREM PricesStay == Spec => []PriceKept
  <1>1. PricesInv => PriceKept
    BY DEF PricesInv
  <1> QED
    BY <1>1, PricesInvariant, PTL

(***************************************************************************)
(* The history of prices                                                   *)
(***************************************************************************)

OpeningPrice(list, p) == IF list = "sale" THEN Products0[p].sale ELSE Products0[p].purchase

\* A price nobody has begun to register is the one the product had at first;
\* so is what the only request that registers it has read; and who was answered
\* with success has inserted what it held.
HistoryInv ==
  /\ DOMAIN Products0 \subseteq DOMAIN prods
  /\ \E S : history \in Seq(S)
  /\ \A list \in Lists, p \in DOMAIN Products0 :
       (\A w \in Worker : ~ Registers(w, list, p)) => PriceOf(list, p) = OpeningPrice(list, p)
  /\ \A w \in Worker :
       /\ Registers(w, draft[w].list, draft[w].product) /\ OnlyRegistrar(w)
            /\ draft[w].product \in DOMAIN Products0
          => draft[w].prev = OpeningPrice(draft[w].list, draft[w].product)
       /\ At(w, "ok") /\ Op(w) \in Pricing => \E i \in DOMAIN history : history[i] = draft[w]

\* Who has begun to register a price goes on with it.
LEMMA RegistersOn ==
  ASSUME PricesInv, NEW u \in Worker, Submit(u) \/ Step(u),
         NEW v \in Worker, NEW list, NEW p, Registers(v, list, p)
  PROVE  Registers(v, list, p)' /\ draft'[v] = draft[v]
  <1>1. draft'[v] = draft[v]
    BY OneMoves, KeepsDraft DEF Registers, Pricing
  <1> QED
    BY <1>1 DEF Registers, Op

\* Only the read of a price begins a registration.
LEMMA RegistrationBegins ==
  ASSUME PricesInv, NEW u \in Worker, Submit(u) \/ Step(u), Op(u) \in Pricing,
         "prev" \notin DOMAIN draft[u], "prev" \in DOMAIN draft'[u]
  PROVE  /\ GetPrice(u) /\ Order(u).product \in DOMAIN prods /\ Order(u).list \in Lists
         /\ UNCHANGED tables
         /\ draft'[u] = [list |-> Order(u).list, product |-> Order(u).product,
                         code |-> prods[Order(u).product].code,
                         prev |-> PriceOf(Order(u).list, Order(u).product),
                         new |-> Order(u).price]
  <1>1. /\ Op(u) = "price" => pc[u] \in {"waiting", "get", "set", "record", "ok", "failed"}
        /\ Op(u) = "apply" => pc[u] \in {"waiting", "head", "items", "item", "get", "set",
                                          "record", "ok", "failed"}
        /\ Op(u) = "apply" /\ pc[u] = "get" => draft[u].list = "sale"
        /\ u \in DOMAIN pc /\ u \in DOMAIN draft
    BY DEF PricesInv, Registrar, ProductsInv, Placed
  <1>2. draft' # draft /\ ~ Fail(u)
    BY DEF Fail
  <1>3. ~ ReadHead(u)
    <2> DEFINE k == [kits[Request[u].kit] EXCEPT !.cost = 0, !.items = <<>>]
    <2>1. ReadHead(u) => draft' = [draft EXCEPT ![u] = [kit |-> k, left |-> <<>>]]
      BY <1>2 DEF ReadHead, Hold
    <2> HIDE DEF k
    <2> QED
      BY <1>1, <2>1
  <1>4. ~ ReadItems(u) /\ ~ PriceItem(u)
    BY <1>1, <1>2 DEF ReadItems, PriceItem, Hold
  <1>5. ~ WriteKit(u)
    <2>1. WriteKit(u) => draft' \in {draft, [draft EXCEPT ![u] = NoDraft],
                                     [draft EXCEPT ![u] = SalePriceOf(draft[u].kit)]}
      BY <1>2 DEF WriteKit, Hold
    <2>2. "prev" \notin DOMAIN NoDraft /\ "prev" \notin DOMAIN SalePriceOf(draft[u].kit)
      BY DEF NoDraft, SalePriceOf
    <2> QED
      BY <1>1, <2>1, <2>2
  <1>6. ~ Creation(u) /\ ~ Edit(u)
    BY <1>1, <1>2 DEF Creation, Edit, DrawCode, Insert, NotInserted, Replace, Current,
                UpdateProduct, UpdateWarehouse, At, Pricing, PricesInv, ProductsInv, Placed
  <1>7. GetPrice(u)
    BY <1>2, <1>3, <1>4, <1>5, <1>6 DEF Submit, Step, StatementFails, Refuse, Recalculation,
       Registration, SetPrice, RecordPrice
  <1>8. Order(u).list \in Lists
    BY <1>1, <1>7, RequestAssumption DEF GetPrice, At, Order, Lists, Pricing
  <1> QED
    BY <1>1, <1>2, <1>7, <1>8 DEF GetPrice, Hold

\* Every step keeps the history true.
LEMMA HistoryStep ==
  ASSUME PricesInv, HistoryInv, NEW u \in Worker, Submit(u) \/ Step(u)
  PROVE  HistoryInv'
  <1>1. /\ DOMAIN prods \subseteq DOMAIN prods'
        /\ \A v \in Worker \ {u} : pc'[v] = pc[v] /\ draft'[v] = draft[v]
    BY OneMoves
  <1>2. ASSUME NEW list \in Lists, NEW p \in DOMAIN Products0,
               \A w \in Worker : ~ Registers(w, list, p)'
        PROVE  PriceOf(list, p)' = OpeningPrice(list, p)
    <2>1. \A w \in Worker : ~ Registers(w, list, p)
      BY <1>2, RegistersOn
    <2>2. PriceOf(list, p) = OpeningPrice(list, p) /\ p \in DOMAIN prods
      BY <2>1 DEF HistoryInv
    <2>3. ~ (SetPrice(u) /\ draft[u].list = list /\ draft[u].product = p)
      BY <2>1 DEF SetPrice, At, PricesInv, Registrar, Registered, Registers, Pricing
    <2> QED
      BY <2>2, <2>3, PriceStays
  <1>3. ASSUME NEW w \in Worker, Registers(w, draft[w].list, draft[w].product)',
               OnlyRegistrar(w)', draft'[w].product \in DOMAIN Products0
        PROVE  draft'[w].prev = OpeningPrice(draft'[w].list, draft'[w].product)
    <2>1. \A v \in Worker \ {w} : ~ Registers(v, draft'[w].list, draft'[w].product)
      <3> SUFFICES ASSUME NEW v \in Worker \ {w},
                          Registers(v, draft'[w].list, draft'[w].product)
                   PROVE  FALSE
        OBVIOUS
      <3>1. /\ Op(v) \in Pricing /\ "prev" \in DOMAIN draft[v]
            /\ draft[v].list = draft'[w].list /\ draft[v].product = draft'[w].product
        BY DEF Registers, Pricing
      <3>2. draft'[v] = draft[v]
        BY <3>1, OneMoves, KeepsDraft
      <3>3. Registers(v, draft[w].list, draft[w].product)'
        BY <3>1, <3>2 DEF Registers, Op, Pricing
      <3> QED
        BY <1>3, <3>3 DEF OnlyRegistrar
    <2>2. CASE "prev" \in DOMAIN draft[w]
      <3>1. Op(w) \in Pricing
        BY <1>3 DEF Registers, Op, Pricing
      <3>2. draft'[w] = draft[w]
        BY <1>1, <2>2, <3>1, KeepsDraft
      <3>3. Registers(w, draft[w].list, draft[w].product) /\ OnlyRegistrar(w)
        BY <2>1, <2>2, <3>1, <3>2 DEF Registers, OnlyRegistrar, Pricing
      <3> QED
        BY <1>3, <3>2, <3>3 DEF HistoryInv
    <2>3. CASE "prev" \notin DOMAIN draft[w]
      <3>1. /\ "prev" \in DOMAIN draft'[w] /\ Op(w) \in Pricing
        BY <1>3 DEF Registers, Op, Pricing
      <3>2. w = u
        BY <1>1, <2>3, <3>1
      <3> DEFINE list == Order(u).list
                 p == Order(u).product
      <3>3. /\ draft'[w].list = list /\ draft'[w].product = p
            /\ draft'[w].prev = PriceOf(list, p)
            /\ list \in Lists
        <4>1. /\ draft'[u] = [list |-> list, product |-> p, code |-> prods[p].code,
                               prev |-> PriceOf(list, p), new |-> Order(u).price]
              /\ list \in Lists
          <5>1. Op(u) \in Pricing /\ "prev" \notin DOMAIN draft[u] /\ "prev" \in DOMAIN draft'[u]
            BY <2>3, <3>1, <3>2
          <5> QED
            BY <5>1, RegistrationBegins
        <4> HIDE DEF list, p
        <4> QED
          BY <3>2, <4>1
      <3>4. \A v \in Worker : ~ Registers(v, list, p)
        BY <2>1, <2>3, <3>3 DEF Registers
      <3>5. PriceOf(list, p) = OpeningPrice(list, p)
        BY <1>3, <3>3, <3>4 DEF HistoryInv
      <3> QED
        BY <3>3, <3>5
    <2> QED
      BY <2>2, <2>3
  <1>4. PICK S : history \in Seq(S)
    BY DEF HistoryInv
  <1>5. /\ \E T : history' \in Seq(T)
        /\ \A i \in DOMAIN history : i \in DOMAIN history' /\ history'[i] = history[i]
        /\ RecordPrice(u) => \E i \in DOMAIN history' : history'[i] = draft[u]
    <2>1. CASE RecordPrice(u)
      <3> DEFINE T == S \cup {draft[u]}
      <3>1. history \in Seq(T) /\ draft[u] \in T
        BY <1>4
      <3>2. history' = Append(history, draft[u])
        BY <2>1 DEF RecordPrice, HistoryRow
      <3> HIDE DEF T
      <3>3. /\ history' \in Seq(T) /\ Len(history') = Len(history) + 1 /\ Len(history) \in Nat
            /\ DOMAIN history = 1 .. Len(history) /\ DOMAIN history' = 1 .. Len(history')
            /\ \A i \in 1 .. Len(history) : history'[i] = history[i]
            /\ history'[Len(history) + 1] = draft[u]
        BY <3>1, <3>2, AppendProperties, LenProperties
      <3> QED
        BY <3>3
    <2>2. CASE ~ RecordPrice(u)
      <3>1. history' = history
        BY <2>2 DEF Step, Submit, StatementFails, Refuse, Fail, Creation, Edit, Recalculation,
           Registration, DrawCode, Insert, NotInserted, Replace, Current, UpdateProduct,
           UpdateWarehouse, ReadHead, ReadItems, PriceItem, WriteKit, GetPrice, SetPrice,
           tables
      <3> QED
        BY <1>4, <2>2, <3>1
    <2> QED
      BY <2>1, <2>2
  <1>6. ASSUME NEW w \in Worker, pc'[w] = "ok", Op(w) \in Pricing
        PROVE  \E i \in DOMAIN history' : history'[i] = draft'[w]
    <2>1. CASE w = u
      <3>1. RecordPrice(u) /\ draft' = draft
        <4>1. SetPrice(u) \/ RecordPrice(u)
          BY <1>6, <2>1, StaysRegistered
        <4>2. ~ SetPrice(u)
          BY <1>6, <2>1 DEF SetPrice, Jump, PricesInv, ProductsInv, Placed
        <4> QED
          BY <4>1, <4>2 DEF RecordPrice
      <3> QED
        BY <1>5, <2>1, <3>1
    <2>2. CASE w # u
      <3>1. pc[w] = "ok" /\ draft'[w] = draft[w]
        BY <1>1, <1>6, <2>2
      <3>2. \E i \in DOMAIN history : history[i] = draft[w]
        BY <1>6, <3>1 DEF HistoryInv, At
      <3> QED
        BY <1>5, <3>1, <3>2
    <2> QED
      BY <2>1, <2>2
  <1>7. DOMAIN Products0 \subseteq DOMAIN prods'
    BY <1>1 DEF HistoryInv
  <1>8. /\ \A list \in Lists, p \in DOMAIN Products0 :
             (\A w \in Worker : ~ Registers(w, list, p)') =>
               PriceOf(list, p)' = OpeningPrice(list, p)
        /\ \A w \in Worker : At(w, "ok")' /\ Op(w) \in Pricing =>
             \E i \in DOMAIN history' : history'[i] = draft'[w]
    BY <1>2, <1>6 DEF At
  <1>9. \A w \in Worker :
          Registers(w, draft[w].list, draft[w].product)' /\ OnlyRegistrar(w)'
            /\ draft'[w].product \in DOMAIN Products0
          => draft'[w].prev = OpeningPrice(draft'[w].list, draft'[w].product)
    BY <1>3
  <1> QED
    BY <1>5, <1>7, <1>8, <1>9 DEF HistoryInv, Op, OpeningPrice

\* A registration that was answered with success is in the history, with the
\* price the product had before when nobody else registered one
\* (service.go:563-594).
THEOREM HistoryTells == Spec => []HistoryTruthful
  <1>1. Init => HistoryInv
    <2> SUFFICES ASSUME Init PROVE HistoryInv
      OBVIOUS
    <2>1. /\ prods = Products0 /\ \A w \in Worker : pc[w] = "waiting" /\ draft[w] = <<>>
          /\ history \in Seq({})
      BY DEF Init, NoDraft
    <2>2. \A w \in Worker : \A list, p : ~ Registers(w, list, p)
      BY <2>1 DEF Registers
    <2> QED
      BY <2>1, <2>2 DEF HistoryInv, PriceOf, OpeningPrice, At
  <1>2. PricesInv /\ HistoryInv /\ [Next]_vars => HistoryInv'
    <2> SUFFICES ASSUME PricesInv, HistoryInv, [Next]_vars PROVE HistoryInv'
      OBVIOUS
    <2>1. CASE UNCHANGED vars
      <3>1. UNCHANGED <<prods, history, pc, draft>>
        BY <2>1 DEF vars, tables
      <3> QED
        BY <3>1 DEF HistoryInv, Registers, OnlyRegistrar, PriceOf, OpeningPrice, At, Op
    <2> QED
      BY <2>1, HistoryStep DEF Next
  <1>3. PricesInv /\ HistoryInv => HistoryTruthful
    <2> SUFFICES ASSUME PricesInv, HistoryInv, NEW w \in Worker, At(w, "ok"), Set(w)
                 PROVE  \E i \in DOMAIN history :
                          /\ history[i].product = draft[w].product
                          /\ history[i].list = draft[w].list /\ history[i].new = draft[w].new
                          /\ OnlyRegistrar(w) /\ draft[w].product \in DOMAIN Products0 =>
                               history[i].prev = OpeningPrice(draft[w].list, draft[w].product)
      BY DEF HistoryTruthful, OpeningPrice
    <2>1. Op(w) \in Pricing
      BY DEF Set, Pricing
    <2>2. PICK i \in DOMAIN history : history[i] = draft[w]
      BY <2>1 DEF HistoryInv
    <2>3. Registers(w, draft[w].list, draft[w].product)
      BY <2>1 DEF PricesInv, Registrar, Registered, Registers, At, Pricing
    <2> QED
      BY <2>2, <2>3 DEF HistoryInv
  <1> QED
    BY <1>1, <1>2, <1>3, PricesInvariant, PTL DEF Spec

(***************************************************************************)
(* The applied price of a kit                                              *)
(***************************************************************************)

\* While nobody else has begun to write its kit, a request that applies the
\* kit's price carries the price it has stored there.
AppliedInv ==
  \A w \in Worker : Op(w) = "apply" =>
    /\ pc[w] \in {"items", "item", "get"} \/ "prev" \in DOMAIN draft[w] =>
         Request[w].kit \in DOMAIN kits
    /\ "prev" \in DOMAIN draft[w] => draft[w].list = "sale"
    /\ Settled(Request[w].kit, {w}, {"waiting"}) =>
         /\ pc[w] = "get" => draft[w].price = kits[Request[w].kit].price
         /\ "prev" \in DOMAIN draft[w] => draft[w].new = kits[Request[w].kit].price

\* A step changes no kit but the one its request names, and removes none.
LEMMA KitStays ==
  ASSUME Placed, NEW u \in Worker, Submit(u) \/ Step(u)
  PROVE  /\ \A a \in DOMAIN kits :
              /\ a \in DOMAIN kits'
              /\ (Op(u) \in KitWriter /\ Request[u].kit = a) \/ kits'[a] = kits[a]
         /\ ~ Insert(u) /\ ~ Replace(u) /\ ~ WriteKit(u) => kits' = kits
  <1>1. ~ Insert(u) /\ ~ Replace(u) /\ ~ WriteKit(u) => kits' = kits
    BY DEF Step, Submit, StatementFails, Refuse, Fail, Creation, Edit, Recalculation,
         Registration, DrawCode, NotInserted, Current, UpdateProduct, UpdateWarehouse, ReadHead,
         ReadItems, PriceItem, GetPrice, SetPrice, RecordPrice, tables
  <1>2. CASE kits' = kits
    BY <1>1, <1>2
  <1>3. CASE Insert(u) /\ kits' # kits
    <2>1. Op(u) = "addKit" /\ \E row : kits' = Put(kits, Request[u].kit, row)
      BY <1>3 DEF Insert, Placed, Op
    <2> QED
      BY <1>3, <2>1 DEF Put, KitWriter
  <1>4. CASE (Replace(u) \/ WriteKit(u)) /\ kits' # kits
    <2>1. Op(u) \in KitWriter
      BY <1>4 DEF Replace, WriteKit, Placed, At, KitWriter
    <2>2. \E row : kits' = [kits EXCEPT ![Request[u].kit] = row]
      BY <1>4 DEF Replace, WriteKit, Fail, tables
    <2> QED
      BY <1>4, <2>1, <2>2
  <1> QED
    BY <1>1, <1>2, <1>3, <1>4

\* Nobody goes back to wait.
LEMMA NobodyWaits ==
  ASSUME Placed, DOMAIN draft = Worker, NEW u \in Worker, Submit(u) \/ Step(u),
         NEW a, NEW w \in Worker, Settled(a, {w}, {"waiting"})'
  PROVE  /\ Settled(a, {w}, {"waiting"})
         /\ u # w => Op(u) \notin KitWriter \/ Request[u].kit # a
  <1>1. u \in DOMAIN pc /\ \A v \in Worker \ {u} : pc'[v] = pc[v]
    BY OthersStay DEF Placed
  <1>2. pc'[u] # "waiting"
    <2>1. CASE Submit(u)
      BY <1>1, <2>1, RequestAssumption DEF Submit, Jump, First
    <2>2. CASE Step(u)
      <3>1. pc[u] # "waiting"
        BY <2>2 DEF Step, Statement, Reading, Writing
      <3>2. \/ pc' = pc
            \/ \E label \in {"insert", "head", "ok", "failed", "update", "items", "item", "get",
                              "set", "record"} : pc' = [pc EXCEPT ![u] = label]
        BY <2>2 DEF Step, StatementFails, Refuse, Fail, Creation, Edit, Recalculation,
           Registration, DrawCode, Insert, NotInserted, Replace, Current, UpdateProduct,
           UpdateWarehouse, ReadHead, ReadItems, PriceItem, WriteKit, GetPrice, SetPrice,
           RecordPrice, Jump
      <3> QED
        BY <1>1, <3>1, <3>2
    <2> QED
      BY <2>1, <2>2
  <1> QED
    BY <1>1, <1>2 DEF Settled, KitWriter, Op

\* What the request that applies the price computes, before it reads the price
\* it replaces.
LEMMA Applies ==
  ASSUME PricesInv, AppliedInv, NEW u \in Worker, Submit(u) \/ Step(u), Op(u) = "apply",
         pc'[u] \in {"items", "item", "get"}
  PROVE  /\ Request[u].kit \in DOMAIN kits'
         /\ pc'[u] = "get" => draft'[u].price = kits'[Request[u].kit].price
  <1> DEFINE a == Request[u].kit
  <1>1. /\ pc[u] \in {"waiting", "head", "items", "item", "get", "set", "record", "ok", "failed"}
        /\ u \in DOMAIN pc /\ u \in DOMAIN draft /\ Placed
        /\ pc[u] \in {"items", "item"} => a \in DOMAIN kits
    BY DEF PricesInv, Registrar, ProductsInv, Placed, AppliedInv, Pricing
  <1>2. ~ Submit(u) /\ ~ Fail(u)
    BY <1>1 DEF Submit, Fail, Jump, First
  <1>3. ReadHead(u) \/ ReadItems(u) \/ PriceItem(u) \/ WriteKit(u)
    BY <1>1, <1>2 DEF Step, StatementFails, Refuse, Creation, Edit, Recalculation,
       Registration, DrawCode, Insert, NotInserted, Replace, Current, UpdateProduct,
       UpdateWarehouse, GetPrice, SetPrice, RecordPrice, Jump, At
  <1>4. CASE ReadHead(u)
    BY <1>1, <1>2, <1>4 DEF ReadHead, Jump, tables
  <1>5. CASE ReadItems(u) \/ PriceItem(u)
    BY <1>1, <1>2, <1>5 DEF ReadItems, PriceItem, At, Jump, tables
  <1>6. CASE WriteKit(u)
    <2> DEFINE kit == draft[u].kit
    <2>1. /\ a \in DOMAIN kits /\ kits' = [kits EXCEPT ![a] = Priced(kit)]
          /\ pc'[u] = "get" => draft' = [draft EXCEPT ![u] = SalePriceOf(kit)]
      BY <1>1, <1>2, <1>6 DEF WriteKit, At, Jump, Hold, Stored
    <2>2. SalePriceOf(kit).price = Priced(kit).price
      BY DEF SalePriceOf
    <2> HIDE DEF kit
    <2> QED
      BY <1>1, <2>1, <2>2
  <1> QED
    BY <1>3, <1>4, <1>5, <1>6

\* Where the request that applies the price is, it has the kit's price or has
\* not computed it.
LEMMA AppliedStep ==
  ASSUME PricesInv, AppliedInv, NEW u \in Worker, Submit(u) \/ Step(u)
  PROVE  AppliedInv'
  <1>0. Placed /\ DOMAIN draft = Worker /\ u \in DOMAIN pc /\ u \in DOMAIN draft
    BY DEF PricesInv, ProductsInv, Placed
  <1> SUFFICES ASSUME NEW w \in Worker, Op(w) = "apply"
               PROVE  /\ pc'[w] \in {"items", "item", "get"} \/ "prev" \in DOMAIN draft'[w] =>
                           Request[w].kit \in DOMAIN kits'
                      /\ "prev" \in DOMAIN draft'[w] => draft'[w].list = "sale"
                      /\ Settled(Request[w].kit, {w}, {"waiting"})' =>
                           /\ pc'[w] = "get" => draft'[w].price = kits'[Request[w].kit].price
                           /\ "prev" \in DOMAIN draft'[w] =>
                                draft'[w].new = kits'[Request[w].kit].price
    BY DEF AppliedInv, Op
  <1> DEFINE a == Request[w].kit
  <1>1. /\ pc[w] \in {"items", "item", "get"} \/ "prev" \in DOMAIN draft[w] => a \in DOMAIN kits
        /\ "prev" \in DOMAIN draft[w] => draft[w].list = "sale"
        /\ Settled(a, {w}, {"waiting"}) =>
             /\ pc[w] = "get" => draft[w].price = kits[a].price
             /\ "prev" \in DOMAIN draft[w] => draft[w].new = kits[a].price
    BY DEF AppliedInv
  <1>2. Settled(a, {w}, {"waiting"})' => Settled(a, {w}, {"waiting"})
    BY <1>0, NobodyWaits
  <1>3. CASE w # u
    <2>1. pc'[w] = pc[w] /\ draft'[w] = draft[w]
      BY <1>3, OneMoves
    <2>2. a \in DOMAIN kits => a \in DOMAIN kits'
      BY <1>0, KitStays
    <2>3. Settled(a, {w}, {"waiting"})' /\ a \in DOMAIN kits => kits'[a] = kits[a]
      <3> SUFFICES ASSUME Settled(a, {w}, {"waiting"})', a \in DOMAIN kits
                   PROVE  kits'[a] = kits[a]
        OBVIOUS
      <3>1. Op(u) \notin KitWriter \/ Request[u].kit # a
        BY <1>0, <1>3, NobodyWaits
      <3> QED
        BY <1>0, <3>1, KitStays
    <2> QED
      BY <1>1, <1>2, <2>1, <2>2, <2>3
  <1>4. CASE w = u
    <2>1. "prev" \in DOMAIN draft'[w] => pc'[w] \in {"set", "record", "ok", "failed"}
      <3>1. Registrar(w)'
        BY RegistrarStep
      <3> QED
        BY <3>1 DEF Registrar, Pricing, Op
    <2>2. CASE "prev" \in DOMAIN draft[w]
      <3>1. draft' = draft /\ pc[w] \in {"set", "record"}
        BY <1>4, <2>2, KeepsDraft DEF Pricing
      <3>2. kits' = kits
        BY <1>0, <1>4, <3>1, KitStays DEF Insert, Replace, WriteKit, At
      <3> QED
        BY <1>1, <1>2, <2>1, <2>2, <3>1, <3>2
    <2>3. CASE "prev" \notin DOMAIN draft[w] /\ "prev" \in DOMAIN draft'[w]
      <3>1. /\ GetPrice(w) /\ UNCHANGED tables
            /\ draft'[w] = [list |-> Order(w).list, product |-> Order(w).product,
                            code |-> prods[Order(w).product].code,
                            prev |-> PriceOf(Order(w).list, Order(w).product),
                            new |-> Order(w).price]
        BY <1>4, <2>3, RegistrationBegins DEF Pricing
      <3>2. pc[w] = "get" /\ Order(w) = draft[w] /\ kits' = kits
        BY <3>1 DEF GetPrice, At, Order, tables
      <3>3. draft[w].list = "sale"
        BY <3>2 DEF PricesInv, Registrar, Pricing
      <3>4. draft'[w].list = "sale" /\ draft'[w].new = draft[w].price
        BY <3>1, <3>2, <3>3
      <3> QED
        BY <1>1, <1>2, <2>1, <2>3, <3>2, <3>4
    <2>4. CASE "prev" \notin DOMAIN draft'[w]
      BY <1>4, <2>4, Applies
    <2> QED
      BY <2>2, <2>3, <2>4
  <1> QED
    BY <1>3, <1>4

\* A kit's price that was applied is the sale price of its product
\* (service.go:690-702) as long as nobody else wrote either.
THEOREM AppliedPrice == Spec => []AppliedPriceShown
  <1>1. Init => AppliedInv
    <2> SUFFICES ASSUME Init PROVE AppliedInv
      OBVIOUS
    <2>1. \A w \in Worker : pc[w] = "waiting" /\ draft[w] = <<>>
      BY DEF Init, NoDraft
    <2> QED
      BY <2>1 DEF AppliedInv
  <1>2. PricesInv /\ AppliedInv /\ [Next]_vars => AppliedInv'
    <2> SUFFICES ASSUME PricesInv, AppliedInv, [Next]_vars PROVE AppliedInv'
      OBVIOUS
    <2>1. CASE UNCHANGED vars
      <3>1. UNCHANGED <<kits, pc, draft>>
        BY <2>1 DEF vars, tables
      <3> QED
        BY <3>1 DEF AppliedInv, Settled, Op
    <2> QED
      BY <2>1, AppliedStep DEF Next
  <1>3. PricesInv /\ AppliedInv => AppliedPriceShown
    <2> SUFFICES ASSUME PricesInv, AppliedInv, NEW w \in Worker,
                        At(w, "ok"), Op(w) = "apply", OnlyRegistrar(w),
                        Settled(Request[w].kit, {w}, {"waiting"})
                 PROVE  prods[draft[w].product].sale = kits[Request[w].kit].price
      BY DEF AppliedPriceShown
    <2>1. "prev" \in DOMAIN draft[w]
      BY DEF PricesInv, Registrar, Registered, At, Pricing
    <2>2. draft[w].list = "sale" /\ draft[w].new = kits[Request[w].kit].price
      BY <2>1 DEF AppliedInv
    <2>3. PriceOf(draft[w].list, draft[w].product) = draft[w].new
      BY DEF PricesInv, PriceKept, Set, At
    <2> QED
      BY <2>2, <2>3 DEF PriceOf
  <1> QED
    BY <1>1, <1>2, <1>3, PricesInvariant, PTL DEF Spec
=============================================================================

------------------------------ MODULE MCCatalog ------------------------------
(***************************************************************************)
(* A small catalogue for Catalog and the requests that change it.          *)
(***************************************************************************)
EXTENDS Catalog

CONSTANTS p1, p2, p3, k1, k2, h1, h2, h3, kilo, box,
          u1, u2, u3, u4, u5, u6, u7, u8, u9, u10, u11

Item(p, qty, price) == [product |-> p, qty |-> qty, price |-> price]
Units(purchase, sale, convs) == [purchase |-> purchase, sale |-> sale, convs |-> convs]
BoxOf(n) == Units(box, kilo, <<[from |-> box, to |-> kilo, factor |-> n]>>)
Kit(op, k, code, p, margin, price, items) ==
  [op |-> op, kit |-> k, code |-> code, product |-> p, margin |-> margin, cost |-> 0,
   price |-> price, items |-> items]

\* p2 is bought by the box of two kilos; the kit k1 of four kilos of it is sold
\* as p1.
SomeProducts ==
  p1 :> [code |-> 1, sale |-> 9, purchase |-> 0, units |-> Units(box, box, <<>>)] @@
  p2 :> [code |-> 2, sale |-> 1, purchase |-> 3, units |-> BoxOf(2)]
SomeKits ==
  k1 :> [code |-> 1, product |-> p1, margin |-> 100, cost |-> 6, price |-> 12,
         items |-> <<Item(p2, 4, 0)>>]
SomeWarehouses == h1 :> 1

Requests ==
  u1 :> [op |-> "apply", kit |-> k1] @@
  u2 :> Kit("editKit", k1, 1, p1, 50, 1, <<Item(p2, 8, 20)>>) @@
  u3 :> [op |-> "price", list |-> "sale", product |-> p1, price |-> 7] @@
  u4 :> [op |-> "price", list |-> "purchase", product |-> p2, price |-> 5] @@
  u5 :> [op |-> "editProduct", product |-> p2, named |-> TRUE, units |-> BoxOf(4)] @@
  u6 :> Kit("addKit", k2, NoCode, NoProduct, 0, 1, <<Item(p2, 4, 900), Item(p3, 1, 0)>>) @@
  u7 :> [op |-> "addProduct", product |-> p3, code |-> NoCode, named |-> TRUE,
         units |-> Units(NoUnit, kilo, <<>>), sale |-> 1, purchase |-> 1] @@
  u8 :> [op |-> "addWarehouse", warehouse |-> h2, code |-> NoCode, named |-> TRUE] @@
  u9 :> [op |-> "addWarehouse", warehouse |-> h3, code |-> NoCode, named |-> TRUE] @@
  u10 :> [op |-> "editWarehouse", warehouse |-> h1, code |-> 3] @@
  u11 :> [op |-> "editProduct", product |-> p1, named |-> TRUE, units |-> BoxOf(0)]
=============================================================================

----------------------------- MODULE MCRequests -----------------------------
(***************************************************************************)
(* Small worlds for Requests: who asks for what.  The .cfg picks one, the  *)
(* stock and the faults.                                                   *)
(***************************************************************************)
EXTENDS Requests

CONSTANTS p1, p2, p3, w1, w2, r1, r2, r3, r4, r5, d1, d2, d3, box, kilo

Exit(p, w, q) == [op |-> "movement", key |-> <<p, w>>, qty |-> q, out |-> TRUE]
Entry(p, w, q) == [op |-> "movement", key |-> <<p, w>>, qty |-> q, out |-> FALSE]
Moving(p, from, to, q, ref) ==
  [op |-> "transfer", product |-> p, from |-> from, to |-> to, qty |-> q, ref |-> ref]
Setting(p, w, q) == [op |-> "set", key |-> <<p, w>>, qty |-> q]
Deletion(p) == [op |-> "delete", product |-> p]
Receipt(type, doc, w, items) ==
  [op |-> "receive", type |-> type, doc |-> doc, wh |-> w, items |-> items]
Item(p, q) == [product |-> p, qty |-> q]

\* p1 is bought by the kilo and sold by the box of two kilos, p2 bought as it is
\* sold, and nothing says how the boxes p3 is bought in become kilos.
Units ==
  p1 :> [purchase |-> kilo, sale |-> box, convs |->
           <<[from |-> box, to |-> kilo, factor |-> 0], [from |-> box, to |-> kilo, factor |-> 2]>>] @@
  p2 :> [purchase |-> NoUnit, sale |-> kilo, convs |-> <<>>] @@
  p3 :> [purchase |-> box, sale |-> kilo, convs |-> <<>>]

\* A transfer, an entry and an exit where it goes, and an invoice where it comes
\* from (whose second line has no conversion), while somebody deletes the product.
Crossing ==
  r1 :> Moving(p1, w1, w2, 1, d1) @@ r2 :> Exit(p1, w2, 1) @@
  r3 :> Receipt("INVOICE", d3, w1, <<Item(p1, 2), Item(p3, 1)>>) @@
  r4 :> Deletion(p1) @@ r5 :> Entry(p1, w2, 1)
\* An inbound invoice of two lines and an empty one, a transfer of what it
\* brings, and a balance set by hand.
Faulty ==
  r1 :> Moving(p1, w1, w2, 1, d3) @@
  r2 :> Receipt("INVOICE", d1, w1, <<Item(p2, 0), Item(p1, 2), Item(p2, 1)>>) @@
  r3 :> Setting(p1, w1, 0)
\* The same purchase order received by two requests at once.
TwiceReceived ==
  r1 :> Receipt("PURCHASE_ORDER", d1, w1, <<Item(p1, 2), Item(p2, 1)>>) @@
  r2 :> Receipt("PURCHASE_ORDER", d1, w1, <<Item(p1, 2), Item(p2, 1)>>)
\* A purchase order received by one client, who asks again when it failed.
ReceivedAgain == r1 :> Receipt("PURCHASE_ORDER", d1, w1, <<Item(p1, 2), Item(p2, 1)>>)
\* Three transfers of the same product.
ThreeTransfers ==
  r1 :> Moving(p1, w1, w2, 1, d1) @@ r2 :> Moving(p1, w2, w1, 1, d2) @@
  r3 :> Moving(p1, w1, w2, 2, d3)

Stock1 == <<p1, w1>> :> 1
Stock21 == <<p1, w1>> :> 2 @@ <<p1, w2>> :> 1
NoStock == <<>>
StockW2 == <<p1, w2>> :> 1
=============================================================================

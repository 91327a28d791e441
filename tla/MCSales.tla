------------------------------- MODULE MCSales -------------------------------
(***************************************************************************)
(* Small worlds for Sales.  Each names the messages that arrive and the    *)
(* stock they meet; the .cfg picks one, the workers and the faults.        *)
(***************************************************************************)
EXTENDS SalesProperties

CONSTANTS p1, p2, p3, w1, o1, o2, inv1, inv2, inv3, a1, a2, a3, a4, i1, i2, i3

Plain(p, q) == [product |-> p, qty |-> q, components |-> <<>>]
NoKits == <<>>
EmptyBacklog == <<>>

OrderEvent(o, w, items) == [order |-> o, wh |-> w, items |-> items]
InvoiceEvent(i, o, w, items) == [invoice |-> i, order |-> o, wh |-> w, items |-> items]

TwoItems == <<Plain(p1, 1), Plain(p2, 1)>>
OneItem == <<Plain(p1, 1)>>

\* One order of two products, reserved without a warehouse, whose invoice is
\* published twice.
TwiceInvoiced ==
  a1 :> OrderEvent(o1, NoWarehouse, TwoItems) @@
  i1 :> InvoiceEvent(inv1, o1, w1, TwoItems) @@
  i2 :> InvoiceEvent(inv1, o1, w1, TwoItems)
Stock21 == <<p1, w1>> :> 2 @@ <<p2, w1>> :> 1

\* One order of one product and its invoice.
OneInvoice ==
  a1 :> OrderEvent(o1, NoWarehouse, OneItem) @@ i1 :> InvoiceEvent(inv1, o1, w1, OneItem)
Stock1 == <<p1, w1>> :> 1

\* An order of two products, an update of it that drops one, and its invoice
\* published twice.  Order o2 was reserved before stock_reservations existed: all
\* that is left of it is a RESERVATION_ADD movement.
Updated ==
  a1 :> OrderEvent(o1, w1, TwoItems) @@
  a2 :> OrderEvent(o1, NoWarehouse, OneItem) @@
  i1 :> InvoiceEvent(inv1, o1, w1, TwoItems) @@
  i2 :> InvoiceEvent(inv1, o1, w1, TwoItems) @@
  i3 :> InvoiceEvent(inv2, o2, w1, OneItem)
LegacyBacklog ==
  <<[type |-> "RESERVATION_ADD", key |-> <<p1, w1>>, qty |-> 1,
     doc |-> <<"SALES_ORDER", o2>>]>>

\* A kit of p1 and p2.
KitOfBoth == p3 :> <<[product |-> p1, qty |-> 1], [product |-> p2, qty |-> 1]>>
Kit(q, components) == [product |-> p3, qty |-> q, components |-> components]
\* A cancellation overtakes or follows the order o1, which names no warehouse,
\* nor does its invoice; order o2 of two kits names one and its invoice does
\* not.  A customised kit and a plain p1 are sold without an order, and an event
\* has lost its order id.
Cancelled ==
  a1 :> OrderEvent(o1, NoWarehouse, OneItem) @@
  a2 :> OrderEvent(o1, NoWarehouse, <<>>) @@
  a3 :> OrderEvent(o2, w1, <<Kit(2, <<>>)>>) @@
  a4 :> OrderEvent(NoDoc, w1, OneItem) @@
  i1 :> InvoiceEvent(inv1, o1, NoWarehouse, OneItem) @@
  i2 :> InvoiceEvent(inv2, o2, NoWarehouse, OneItem) @@
  i3 :> InvoiceEvent(inv3, NoDoc, w1,
          <<Kit(1, <<[product |-> p2, qty |-> 1], [product |-> p1, qty |-> 0]>>), Plain(p1, 1)>>)
Stock33 == <<p1, w1>> :> 3 @@ <<p2, w1>> :> 3
=============================================================================

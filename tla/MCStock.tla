------------------------------- MODULE MCStock -------------------------------
(***************************************************************************)
(* Small worlds for Stock: messages and requests about the same product.   *)
(***************************************************************************)
EXTENDS Stock, TLC

CONSTANTS p1, w1, w2, o1, o2, inv1, inv2, d1, a1, a2, i1, i2, r1, box

OneOf(p) == <<[product |-> p, qty |-> 1, components |-> <<>>]>>

\* An order that names no warehouse and its invoice, another order, and an
\* invoice without an order.
Messages ==
  a1 :> [order |-> o1, wh |-> NoWarehouse, items |-> OneOf(p1)] @@
  a2 :> [order |-> o2, wh |-> w1, items |-> OneOf(p1)] @@
  i1 :> [invoice |-> inv1, order |-> o1, wh |-> w1, items |-> OneOf(p1)] @@
  i2 :> [invoice |-> inv2, order |-> NoDoc, wh |-> w1, items |-> OneOf(p1)]

\* A transfer into a warehouse that has no row yet.
Requests ==
  r1 :> [op |-> "transfer", product |-> p1, from |-> w1, to |-> w2, qty |-> 1, ref |-> d1]
Units == p1 :> [purchase |-> box, sale |-> box, convs |-> <<>>]
NoKits == <<>>
NoBacklog == <<>>
TwoInW1 == <<p1, w1>> :> 2
=============================================================================

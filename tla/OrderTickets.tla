---------------------------- MODULE OrderTickets ----------------------------
(***************************************************************************)
(* What the reservations of sales orders promise, without workers, locks   *)
(* or messages.  Each time a reservation is opened it can be confirmed     *)
(* once; a confirmed one is a pending ticket, which is deducted from the   *)
(* stock at most once, or lost.                                            *)
(***************************************************************************)
EXTENDS Naturals

CONSTANTS Order, Product

VARIABLES
  state,     \* order -> product -> the status of the reservation
  opened,    \* order -> product -> how often it was opened
  pending,   \* tickets confirmed and not yet deducted
  taken      \* tickets deducted

tickets == <<state, opened, pending, taken>>

Status == {"NONE", "OPEN", "RELEASED", "CONFIRMED"}

Init ==
  /\ state = [o \in Order |-> [p \in Product |-> "NONE"]]
  /\ opened = [o \in Order |-> [p \in Product |-> 0]]
  /\ pending = {}
  /\ taken = {}

\* The order now reserves exactly the products P.
Reserve(o, P) ==
  /\ state' = [state EXCEPT ![o] =
       [p \in Product |-> IF p \in P THEN "OPEN"
                          ELSE IF @[p] = "OPEN" THEN "RELEASED" ELSE @[p]]]
  /\ opened' = [opened EXCEPT ![o] =
       [p \in Product |-> IF p \in P /\ state[o][p] # "OPEN" THEN @[p] + 1 ELSE @[p]]]
  /\ UNCHANGED <<pending, taken>>

\* Open reservations of the order, the products P, are confirmed together; the
\* products S of them are to be sold.  One that was opened a moment ago may be
\* left out and stay open.
Confirm(o, P, S) ==
  /\ P # {} /\ S \subseteq P
  /\ \A p \in P : state[o][p] = "OPEN"
  /\ state' = [state EXCEPT ![o] =
       [p \in Product |-> IF p \in P THEN "CONFIRMED" ELSE @[p]]]
  /\ pending' = pending \cup {<<o, p, opened[o][p]>> : p \in S}
  /\ UNCHANGED <<opened, taken>>

Deduct(t) ==
  /\ t \in pending \ taken
  /\ pending' = pending \ {t}
  /\ taken' = taken \cup {t}
  /\ UNCHANGED <<state, opened>>

Lose(T) == pending' = pending \ T /\ UNCHANGED <<state, opened, taken>>

Next ==
  \/ \E o \in Order, P \in SUBSET Product :
       Reserve(o, P) \/ \E S \in SUBSET P : Confirm(o, P, S)
  \/ \E t \in pending : Deduct(t)
  \/ \E T \in SUBSET pending : Lose(T)

Spec == Init /\ [][Next]_tickets
=============================================================================

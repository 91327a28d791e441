----------------------------- MODULE StockRepo -----------------------------
(***************************************************************************)
(* The Postgres tables of the stock service (migrations/001, 005) and the  *)
(* statements of internal/adapters/postgres/stock_repo.go over them, each  *)
(* an action on those tables.  A balance row is identified by its UNIQUE   *)
(* key <<product, warehouse>>, a reservation row by <<order, product>>.    *)
(* Quantities are naturals: the CHECK constraints keep the columns >= 0.   *)
(***************************************************************************)
EXTENDS Integers, Sequences, FiniteSets, FiniteSetsExt, SequencesExt

CONSTANTS
  Product, Warehouse, Order,
  DocId,        \* identifiers of orders, invoices, purchase orders, transfers
  NoWarehouse,  \* the NULL warehouse_id of a reservation, "" in an event
  NoDoc,        \* the NULL reference_doc_id of a manual movement
  FeedLimit     \* the LIMIT of an unfiltered ListMovements (200 in the code)

ASSUME RepoAssumption ==
  /\ Order \subseteq DocId
  /\ NoWarehouse \notin Warehouse
  /\ FeedLimit \in Nat

VARIABLES
  rows,       \* the keys that have a row in stock_balances
  avail,      \* quantity_available
  reserved,   \* quantity_reserved, the stored column
  rsv,        \* stock_reservations: order -> product -> row
  movements   \* stock_movements in the order of insertion

repoVars == <<rows, avail, reserved, rsv, movements>>

Keys == Product \X Warehouse
MaybeWarehouse == Warehouse \cup {NoWarehouse}
Status == {"NONE", "OPEN", "RELEASED", "CONFIRMED"}   \* NONE: there is no row
Reservation == [status : Status, qty : Nat, wh : MaybeWarehouse]
NoReservation == [status |-> "NONE", qty |-> 0, wh |-> NoWarehouse]

AddTypes == {"MANUAL_IN", "PURCHASE_IN", "TRANSFER_IN"}
OutTypes == {"MANUAL_OUT", "TRANSFER_OUT", "SALE_OUT"}
MovementType == AddTypes \cup OutTypes \cup {"RESERVATION_ADD", "RESERVATION_RELEASE"}
DocType == {"INVOICE", "SALES_ORDER", "PURCHASE_ORDER", "MANUAL", "TRANSFER"}
Document == DocType \X (DocId \cup {NoDoc})
Movement == [type : MovementType, key : Keys, qty : Nat, doc : Document]

RepoTypeOK ==
  /\ rows \subseteq Keys
  /\ avail \in [Keys -> Nat]
  /\ reserved \in [Keys -> Nat]
  /\ rsv \in [Order -> [Product -> Reservation]]
  /\ movements \in Seq(Movement)

(***************************************************************************)
(* stock_balances                                                          *)
(***************************************************************************)

\* What a query computes for the reserved quantity: the sum of the open
\* reservations of the product that name this warehouse or none.
OpenOrders(k) ==
  {o \in Order : /\ rsv[o][k[1]].status = "OPEN"
                 /\ rsv[o][k[1]].wh \in {NoWarehouse, k[2]}}
OpenQty(k) == SumFunction([o \in OpenOrders(k) |-> rsv[o][k[1]].qty])

\* INSERT .. ON CONFLICT DO UPDATE: a new row starts with nothing reserved,
\* whatever reservations are open.
AddAvailable(k, q) ==
  /\ rows' = rows \cup {k}
  /\ avail' = [avail EXCEPT ![k] = @ + q]
  /\ UNCHANGED <<reserved, rsv, movements>>

\* Mutants of CanRemove: the statement without its condition on the quantity,
\* or without the reserved column in it.
CanRemoveAnything(k, q) == k \in rows
CanRemoveReserved(k, q) == k \in rows /\ avail[k] >= q

\* The WHERE clause of RemoveAvailable: it reads the stored column.
CanRemove(k, q) == k \in rows /\ avail[k] - reserved[k] >= q

RemoveAvailable(k, q) ==
  /\ CanRemove(k, q)
  /\ avail' = [avail EXCEPT ![k] = @ - q]
  /\ UNCHANGED <<rows, reserved, rsv, movements>>

CanConfirmSale(k, q) == k \in rows /\ reserved[k] >= q /\ avail[k] >= q

\* Mutant of ConfirmSale: only the reserved column is lowered.
ConfirmSaleReserved(k, q) ==
  /\ CanConfirmSale(k, q)
  /\ reserved' = [reserved EXCEPT ![k] = @ - q]
  /\ UNCHANGED <<rows, avail, rsv, movements>>

ConfirmSale(k, q) ==
  /\ CanConfirmSale(k, q)
  /\ avail' = [avail EXCEPT ![k] = @ - q]
  /\ reserved' = [reserved EXCEPT ![k] = @ - q]
  /\ UNCHANGED <<rows, rsv, movements>>

\* Mutant of CanUpsert: the column has no CHECK constraint.
CanUpsertAnything(q) == TRUE

CanUpsert(q) == q >= 0   \* CHECK (quantity_available >= 0)

UpsertBalance(k, q) ==
  /\ CanUpsert(q)
  /\ rows' = rows \cup {k}
  /\ avail' = [avail EXCEPT ![k] = q]
  /\ UNCHANGED <<reserved, rsv, movements>>

\* What GetBalance and UpsertBalance return: the live sum, not the column.
Balance(k) == [avail |-> avail[k], reserved |-> OpenQty(k)]

(***************************************************************************)
(* recalcReserved is one UPDATE with a subquery.  At READ COMMITTED its    *)
(* sums come from the snapshot taken when the statement starts; a row it   *)
(* finds locked by another transaction is written after that one commits,  *)
(* with the sum of the old snapshot.  Hence two steps: the snapshot, and   *)
(* the write.                                                              *)
(***************************************************************************)
RecalcSnapshot(products) ==
  [k \in {r \in rows : r[1] \in products} |-> OpenQty(k)]

RecalcWrite(sums) ==
  /\ \A k \in DOMAIN sums : sums[k] \in Nat   \* CHECK (quantity_reserved >= 0)
  /\ reserved' = [k \in Keys |-> IF k \in DOMAIN sums THEN sums[k] ELSE reserved[k]]
  /\ UNCHANGED <<rows, avail, rsv, movements>>

(***************************************************************************)
(* stock_reservations                                                      *)
(***************************************************************************)
Line == [product : Product, qty : Nat]

\* The lines ReplaceReservations does not skip, and the one whose upsert of a
\* product comes last.
Kept(lines) == {i \in DOMAIN lines : lines[i].qty > 0}
KeptProducts(lines) == {lines[i].product : i \in Kept(lines)}
LastLine(lines, p) ==
  CHOOSE i \in Kept(lines) :
    /\ lines[i].product = p
    /\ \A j \in Kept(lines) : lines[j].product = p => j <= i

\* Mutant of Replaced: rows are released whatever their status.
ReplacedAnyway(row, lines, wh, p) ==
  IF p \in KeptProducts(lines)
  THEN [status |-> "OPEN",
        qty |-> lines[LastLine(lines, p)].qty,
        wh |-> IF wh = NoWarehouse THEN row.wh ELSE wh]
  ELSE IF row.status # "NONE" THEN [row EXCEPT !.status = "RELEASED"]
  ELSE row

\* The row of product p after the transaction: upserted as OPEN when a line
\* names it (whatever its status was), released when it was open otherwise.
Replaced(row, lines, wh, p) ==
  IF p \in KeptProducts(lines)
  THEN [status |-> "OPEN",
        qty |-> lines[LastLine(lines, p)].qty,
        wh |-> IF wh = NoWarehouse THEN row.wh ELSE wh]
  ELSE IF row.status = "OPEN" THEN [row EXCEPT !.status = "RELEASED"]
  ELSE row

\* The products ReplaceReservations recalculates: those of the old rows and
\* of the new lines.
Touched(o, lines) ==
  {p \in Product : rsv[o][p].status # "NONE"} \cup KeptProducts(lines)

\* The transaction up to its COMMIT; recalcReserved follows outside it.
ReplaceReservations(o, wh, lines) ==
  /\ rsv' = [rsv EXCEPT ![o] = [p \in Product |-> Replaced(@[p], lines, wh, p)]]
  /\ UNCHANGED <<rows, avail, reserved, movements>>

\* Mutant of OpenProducts: the UPDATE also returns rows confirmed before.
UnsoldProducts(o) == {p \in Product : rsv[o][p].status \in {"OPEN", "CONFIRMED"}}

OpenProducts(o) == {p \in Product : rsv[o][p].status = "OPEN"}
HasReservations(o) == \E p \in Product : rsv[o][p].status # "NONE"

\* Mutant of StillOpen: the WHERE clause is not asked again.
StillOpenBlind(o, found) == found

\* UPDATE .. WHERE status='OPEN' RETURNING.  At READ COMMITTED it looks for rows
\* in the snapshot taken when it starts, waits for those another transaction has
\* written, and asks the WHERE clause again of what that one committed.  Hence
\* two steps: the snapshot, OpenProducts(o), and the write to those of the rows
\* found that are still open, with the quantities they have by then.  A row
\* opened in between is not found.
StillOpen(o, found) == found \cap OpenProducts(o)
ConfirmReservations(o, found) ==
  /\ rsv' = [rsv EXCEPT ![o] =
       [p \in Product |-> IF p \in StillOpen(o, found) THEN [@[p] EXCEPT !.status = "CONFIRMED"]
                          ELSE @[p]]]
  /\ UNCHANGED <<rows, avail, reserved, movements>>

(***************************************************************************)
(* stock_movements                                                         *)
(***************************************************************************)
InsertMovement(m) ==
  /\ movements' = Append(movements, m)
  /\ UNCHANGED <<rows, avail, reserved, rsv>>

HasMovement(doc, type) ==
  \E i \in DOMAIN movements : movements[i].doc = doc /\ movements[i].type = type

\* The statements of ProductInUse, in its order.
HasMovements(p) == \E i \in DOMAIN movements : movements[i].key[1] = p
Stocked(p) == \E k \in rows : k[1] = p /\ (avail[k] # 0 \/ reserved[k] # 0)
Awaited(p) == \E o \in Order : rsv[o][p].status = "OPEN"

\* ListMovements without a filter: the newest FeedLimit movements, newest
\* first.
RecentMovements ==
  LET n == Len(movements)
  IN  Reverse(SubSeq(movements, (IF n > FeedLimit THEN n - FeedLimit ELSE 0) + 1, n))

(***************************************************************************)
(* The ledger, for the properties: the movements of some types on some     *)
(* keys, and what they add up to.                                          *)
(***************************************************************************)
Entries(K, types) ==
  {i \in DOMAIN movements : movements[i].key \in K /\ movements[i].type \in types}
Moved(K, types) == SumFunction([i \in Entries(K, types) |-> movements[i].qty])

\* It shows a movement of the type for a document and a balance, and at most one.
Shown(type, doc, key) ==
  \E i \in DOMAIN movements :
    movements[i].type = type /\ movements[i].doc = doc /\ movements[i].key = key
ShownOnce(type, ledger) ==
  \A i, j \in DOMAIN ledger :
    /\ ledger[i].type = type /\ ledger[j].type = type
    /\ ledger[i].doc = ledger[j].doc /\ ledger[i].key = ledger[j].key
    => i = j
=============================================================================

--------------------------- MODULE UnitsOfMeasure ---------------------------
(***************************************************************************)
(* domain.Convert and the unit part of normalizeProduct: how a quantity of *)
(* a purchase document becomes a quantity of stock.  A product is a record *)
(* [purchase, sale, convs] of two units and a sequence of conversions      *)
(* [from, to, factor].  The code divides floating-point numbers; the       *)
(* instances keep to quantities the factors divide.                        *)
(***************************************************************************)
EXTENDS Integers, Sequences, FiniteSetsExt

CONSTANTS NoUnit, DefaultUnit   \* "" and "UN"

NoConversion == -1   \* ErrNoConversion

\* The conversions of a product: a sequence of them with their factors.
ConversionsOK(convs) ==
  DOMAIN convs \subseteq Nat /\ \A i \in DOMAIN convs : convs[i].factor \in Int

\* The conversions that lead from one unit to the other, either way round.
Usable(from, to, convs) ==
  {i \in DOMAIN convs : /\ convs[i].factor > 0
                        /\ \/ convs[i].from = from /\ convs[i].to = to
                           \/ convs[i].from = to /\ convs[i].to = from}

Convert(qty, from, to, convs) ==
  IF from = NoUnit \/ to = NoUnit \/ from = to THEN qty
  ELSE IF Usable(from, to, convs) = {} THEN NoConversion
  ELSE LET c == convs[Min(Usable(from, to, convs))]
       IN  IF c.from = from THEN qty * c.factor ELSE qty \div c.factor

\* A missing unit is the other one, or the default; stock is kept in the sale
\* unit, and a product with one unit has no conversions.
Normalized(product) ==
  LET some == IF product.purchase # NoUnit THEN product.purchase
              ELSE IF product.sale # NoUnit THEN product.sale ELSE DefaultUnit
      sale == IF product.sale # NoUnit THEN product.sale ELSE some
  IN  [purchase |-> some, sale |-> sale,
       convs |-> IF some = sale THEN <<>> ELSE product.convs]

PurchaseToStock(product, qty) ==
  LET n == Normalized(product) IN Convert(qty, n.purchase, n.sale, n.convs)
=============================================================================

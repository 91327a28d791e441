---------------------------- MODULE KitExpansion ----------------------------
(***************************************************************************)
(* domain.ExpandKitItems: what an order line really takes from stock.  An  *)
(* item is [product, qty, components]; the kits are a function from the    *)
(* products that are some assembly's final product to that assembly's      *)
(* recipe, the sequence of its items [product, qty].                       *)
(***************************************************************************)
EXTENDS Naturals, Sequences, SequencesExt

\* The loop over a list of components, which passes over those without a
\* quantity; a recursive function, so that proofs can follow it.
Valid(lines) ==
  LET kept[i \in 0 .. Len(lines)] ==
        IF i = 0 THEN <<>>
        ELSE IF lines[i].qty > 0 THEN Append(kept[i - 1], lines[i])
        ELSE kept[i - 1]
  IN  kept[Len(lines)]

\* Mutant of ExpandItem: the recipe is not scaled by the line's quantity.
ExpandItemUnscaled(item, kits) ==
  IF item.product \notin DOMAIN kits
  THEN <<[product |-> item.product, qty |-> item.qty]>>
  ELSE IF item.components # <<>> THEN Valid(item.components)
  ELSE Valid(kits[item.product])

ExpandItem(item, kits) ==
  IF item.product \notin DOMAIN kits
  THEN <<[product |-> item.product, qty |-> item.qty]>>
  ELSE IF item.components # <<>>
  THEN Valid(item.components)
  ELSE LET recipe == Valid(kits[item.product])
       IN  [i \in DOMAIN recipe |->
             [product |-> recipe[i].product, qty |-> recipe[i].qty * item.qty]]

ExpandKitItems(items, kits) ==
  FlattenSeq([i \in DOMAIN items |-> ExpandItem(items[i], kits)])
=============================================================================

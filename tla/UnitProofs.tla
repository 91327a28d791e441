----------------------------- MODULE UnitProofs -----------------------------
(***************************************************************************)
(* What domain.Convert returns, for any units and conversions.             *)
(***************************************************************************)
EXTENDS UnitsOfMeasure, NaturalsInduction, WellFoundedInduction, TLAPS

\* The loop of Convert (stock.go:58-68) takes the first usable conversion.
LEMMA MinIsIn ==
  ASSUME NEW S \in SUBSET Nat, S # {}
  PROVE  Min(S) \in S
  <1>1. PICK x \in S : \A y \in S : ~ (<<y, x>> \in OpToRel(<, Nat))
    BY NatLessThanWellFounded, WFMin
  <1>2. \A y \in S : x <= y
    <2> TAKE y \in S
    <2>1. x \in Nat /\ y \in Nat
      OBVIOUS
    <2>2. ~ (y < x)
      BY <1>1, <2>1 DEF OpToRel
    <2> QED
      BY <2>1, <2>2
  <1> QED
    BY <1>2 DEF Min

\* It has a factor, and a positive one.
LEMMA FirstUsable ==
  ASSUME NEW from, NEW to, NEW convs, ConversionsOK(convs), Usable(from, to, convs) # {}
  PROVE  LET c == convs[Min(Usable(from, to, convs))]
         IN  c.factor \in Int /\ c.factor > 0
  <1>1. Usable(from, to, convs) \subseteq Nat
    BY DEF Usable, ConversionsOK
  <1>2. Min(Usable(from, to, convs)) \in Usable(from, to, convs)
    BY <1>1, MinIsIn
  <1> QED
    BY <1>2 DEF Usable, ConversionsOK

\* A usable conversion is usable both ways (stock.go:58-68).
LEMMA UsableBothWays ==
  ASSUME NEW from, NEW to, NEW convs
  PROVE  Usable(from, to, convs) = Usable(to, from, convs)
  BY DEF Usable

\* Units that are the same, or that a conversion connects, convert.
LEMMA ConvertSome ==
  ASSUME NEW from, NEW to, NEW convs, NEW qty \in Nat, ConversionsOK(convs),
         from = to \/ Usable(from, to, convs) # {}
  PROVE  Convert(qty, from, to, convs) \in Nat
  <1>1. CASE from = NoUnit \/ to = NoUnit \/ from = to
    BY <1>1 DEF Convert
  <1>2. CASE ~ (from = NoUnit \/ to = NoUnit \/ from = to)
    <2> DEFINE c == convs[Min(Usable(from, to, convs))]
    <2>1. c.factor \in Int /\ c.factor > 0
      BY <1>2, FirstUsable
    <2>2. qty * c.factor \in Nat /\ qty \div c.factor \in Nat
      BY <2>1
    <2> QED
      BY <1>2, <2>2 DEF Convert
  <1> QED
    BY <1>1, <1>2

\* Convert returns a quantity or the error.
LEMMA ConvertType ==
  ASSUME NEW from, NEW to, NEW convs, NEW qty \in Nat, ConversionsOK(convs)
  PROVE  Convert(qty, from, to, convs) \in Nat \cup {NoConversion}
  <1>1. CASE from = to \/ Usable(from, to, convs) # {}
    BY <1>1, ConvertSome
  <1>2. CASE ~ (from = to \/ Usable(from, to, convs) # {})
    BY <1>2 DEF Convert
  <1> QED
    BY <1>1, <1>2

\* normalizeProduct keeps the conversions or drops them (service.go:508-536).
LEMMA NormalizedOK ==
  ASSUME NEW product, ConversionsOK(product.convs)
  PROVE  ConversionsOK(Normalized(product).convs)
  <1>1. ConversionsOK(<<>>)
    BY DEF ConversionsOK
  <1>2. Normalized(product).convs \in {<<>>, product.convs}
    BY DEF Normalized
  <1> QED
    BY <1>1, <1>2
=============================================================================

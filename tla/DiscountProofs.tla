--------------------------- MODULE DiscountProofs ---------------------------
(***************************************************************************)
(* What calcDiscount guarantees for every promo code and every total.      *)
(***************************************************************************)
EXTENDS Discount, TLAPS

\* A discount, rounded to a cent, is never negative and never exceeds the
\* total; a percentage never exceeds 70 per cent of it by more than half a
\* cent, and a fixed one never exceeds its own amount.
THEOREM DiscountBounded ==
    ASSUME NEW terms, terms.value \in Nat, NEW total \in Nat,
           NEW d \in CalcDiscount(terms, total)
    PROVE  /\ d \in 0 .. total
           /\ terms.type = "PERCENTAGE" => 10 * d <= 7 * total + 5
           /\ terms.type # "PERCENTAGE" => d <= terms.value
<1>1. CASE terms.type = "PERCENTAGE"
  <2> DEFINE off == PercentOff(terms.value, total)
  <2>1. d \in Nat /\ 2 * (10000 * d - off) <= 10000
    BY <1>1 DEF CalcDiscount, NearestCent
  <2>2. off <= 7000 * total
    BY DEF PercentOff, Smaller
  <2>3. off \in Int
    BY DEF PercentOff, Smaller
  <2> HIDE DEF off
  <2>4. 10 * d <= 7 * total + 5
    BY <2>1, <2>2, <2>3
  <2>5. d <= total
    BY <2>1, <2>4
  <2> QED BY <1>1, <2>1, <2>4, <2>5
<1>2. CASE terms.type # "PERCENTAGE"
  BY <1>2 DEF CalcDiscount, Smaller
<1> QED BY <1>1, <1>2

\* There is always a discount to give: no total and no terms leave the code
\* without a result.
THEOREM DiscountExists ==
    ASSUME NEW terms, terms.value \in Nat, NEW total \in Nat
    PROVE  CalcDiscount(terms, total) # {}
<1>1. CASE terms.type = "PERCENTAGE"
  <2> DEFINE off == PercentOff(terms.value, total)
             d == (off + 5000) \div 10000
  <2>1. off \in Nat /\ off <= 7000 * total
    BY DEF PercentOff, Smaller
  <2> HIDE DEF off
  <2>2. d \in Nat /\ 10000 * d <= off + 5000 /\ off + 5000 < 10000 * d + 10000
    BY <2>1
  <2> HIDE DEF d
  <2>3. d \in 0 .. (total + 1)
    BY <2>1, <2>2
  <2>4. NearestCent(d, off)
    BY <2>1, <2>2 DEF NearestCent
  <2> QED BY <1>1, <2>3, <2>4 DEF CalcDiscount, off
<1>2. CASE terms.type # "PERCENTAGE"
  BY <1>2 DEF CalcDiscount
<1> QED BY <1>1, <1>2
=============================================================================

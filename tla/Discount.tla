------------------------------ MODULE Discount ------------------------------
(***************************************************************************)
(* The discount a promo code gives (calcDiscount in usecases/order.go).    *)
(* Amounts are integer cents and a percentage is in hundredths of one per  *)
(* cent, as the DECIMAL(12,2) columns keep them.  The code computes in     *)
(* float64 and the column rounds to a cent: on an exact half-cent the      *)
(* float may sit on either side, so the result is a set of amounts.        *)
(***************************************************************************)
EXTENDS Integers

Smaller(a, b) == IF a < b THEN a ELSE b

\* No cap at 70 per cent.
FaultyPercentOff(value, total) == total * value

\* A percentage discount before rounding, in 1/10000 of a cent: the code cuts
\* it at 0.7 of the total.
PercentOff(value, total) == Smaller(total * value, total * 7000)

\* d is an amount in cents nearest to num / 10000.
NearestCent(d, num) == /\ 2 * (10000 * d - num) <= 10000
                       /\ 2 * (num - 10000 * d) <= 10000

\* The amounts that can reach orders.discount_amount for a code with these
\* terms.  The range searched goes past the total on purpose: that the
\* discount stays within it is a theorem, not a definition.
CalcDiscount(terms, total) ==
    IF terms.type = "PERCENTAGE"
      THEN {d \in 0 .. (total + 1) : NearestCent(d, PercentOff(terms.value, total))}
      ELSE {Smaller(terms.value, total)}

\* `total < promo.MinOrderAmount` on float64: sums of prices may drift by a
\* hair, so the comparison can go either way when the two are equal.
BelowMinimum(terms, total) ==
    {b \in BOOLEAN : /\ total < terms.min => b
                     /\ total > terms.min => ~b}
=============================================================================

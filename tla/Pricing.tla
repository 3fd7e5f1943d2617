------------------------------ MODULE Pricing -------------------------------
(***************************************************************************)
(* What an order costs: the arithmetic of createOrder between its stock    *)
(* check and its insert.  discount is a local variable that the statements *)
(* of the handler rewrite in turn; each of them is an action.  Percentages *)
(* give fractions, so discounts are counted in hundredths of a dong.       *)
(***************************************************************************)
EXTENDS Integers

CONSTANTS
    Totals,      \* sums of salePrice * quantityOrder of the baskets asked for
    Values,      \* voucher values, in percent or money
    Caps,        \* maxDiscount of vouchers; 0 stands for null as it does in the code
    Minimums,    \* minOrderPrice of vouchers; 0 stands for null
    Floor        \* the 10000 dong every order costs at least

ASSUME PricingAssumption ==
    /\ Totals \subseteq Nat /\ Values \subseteq Nat /\ Caps \subseteq Nat /\ Minimums \subseteq Nat
    /\ Floor \in Nat

VARIABLES at, total, voucher, discount, final

pricingVars == <<at, total, voucher, discount, final>>

Voucher == [unit : {"Percent", "Money"}, value : Values, maxDiscount : Caps, minOrderPrice : Minimums]
NoVoucher == [unit |-> "None"]

PricingTypeOK ==
    /\ at \in {"Discount", "Cap", "Floor", "Create", "Created", "Refused"}
    /\ total \in Totals
    /\ voucher \in Voucher \cup {NoVoucher}
    /\ discount \in Int
    /\ final \in Nat

PricingInit ==
    /\ at = "Discount"
    /\ total \in Totals
    /\ voucher \in Voucher \cup {NoVoucher}
    /\ discount = 0
    /\ final = 0

\* In hundredths.
Nominal(t, v) == IF v.unit = "Percent" THEN t * v.value ELSE 100 * v.value

MinimumMet(t, v) == t >= v.minOrderPrice

\* "Order does not meet the minimum value of the voucher" rolls the order back.
Discount ==
    /\ at = "Discount"
    /\ \/ /\ voucher = NoVoucher
          /\ at' = "Cap" /\ UNCHANGED discount
       \/ /\ voucher # NoVoucher /\ MinimumMet(total, voucher)
          /\ at' = "Cap" /\ discount' = Nominal(total, voucher)
       \/ /\ voucher # NoVoucher /\ ~MinimumMet(total, voucher)
          /\ at' = "Refused" /\ UNCHANGED discount
    /\ UNCHANGED <<total, voucher, final>>

Least(a, b) == IF a > b THEN b ELSE a

CappedAlways(d, v) == Least(d, 100 * v.maxDiscount)
Capped(d, v) == IF v.maxDiscount = 0 THEN d ELSE Least(d, 100 * v.maxDiscount)

Cap ==
    /\ at = "Cap"
    /\ at' = "Floor"
    /\ discount' = IF voucher = NoVoucher THEN discount ELSE Capped(discount, voucher)
    /\ UNCHANGED <<total, voucher, final>>

Floored(d, t) == Least(d, 100 * (t - Floor))

FloorPrice ==
    /\ at = "Floor"
    /\ at' = "Create"
    /\ discount' = Floored(discount, total)
    /\ final' = 100 * total - Floored(discount, total)
    /\ UNCHANGED <<total, voucher>>

\* orderDiscount, orderFinalPrice and paymentValue are Int columns: the client
\* refuses a number with a fraction and the transaction is rolled back.
Whole(x) == x % 100 = 0

Create ==
    /\ at = "Create"
    /\ at' = IF Whole(discount) /\ Whole(final) THEN "Created" ELSE "Refused"
    /\ UNCHANGED <<total, voucher, discount, final>>

PricingNext == Discount \/ Cap \/ FloorPrice \/ Create

PricingSpec == PricingInit /\ [][PricingNext]_pricingVars

-----------------------------------------------------------------------------
(* What must hold *)

Greatest(a, b) == IF a > b THEN a ELSE b

\* What a voucher takes off: no more than it says, nor than its cap.
Reduction(t, v) ==
    IF v = NoVoucher THEN 0
    ELSE IF v.maxDiscount = 0 THEN Nominal(t, v) ELSE Least(Nominal(t, v), 100 * v.maxDiscount)

\* The price asked for a basket, said at once.
Asked(t, v) == Greatest(100 * Floor, 100 * t - Reduction(t, v))

\* The rewrites of discount come to: the total less the capped reduction, but
\* never below the floor; and the three sums of the order row add up.  A basket
\* is refused only below the voucher's minimum, or for a fraction of a dong in
\* that price.
PriceIsAsked ==
    /\ at = "Created" => final = Asked(total, voucher) /\ 100 * total = final + discount
    /\ at = "Refused" =>
          \/ voucher # NoVoucher /\ total < voucher.minOrderPrice
          \/ ~Whole(Asked(total, voucher))
=============================================================================

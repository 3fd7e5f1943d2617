--------------------------- MODULE PricingProofs ----------------------------
(* Proofs about Pricing, for every value of its constants. *)
EXTENDS Pricing, TLAPS

USE PricingAssumption

\* How far discount and final have come when each statement is reached.
Progress ==
    /\ at = "Discount" => discount = 0 /\ final = 0
    /\ at = "Cap" =>
          discount = (IF voucher = NoVoucher THEN 0 ELSE Nominal(total, voucher)) /\ final = 0
    /\ at = "Floor" => discount = Reduction(total, voucher) /\ final = 0
    /\ at \in {"Create", "Created"} =>
          discount = Least(Reduction(total, voucher), 100 * (total - Floor))
          /\ final = 100 * total - discount
    /\ at = "Refused" =>
          \/ voucher # NoVoucher /\ total < voucher.minOrderPrice
          \/ ~Whole(Asked(total, voucher))

Sound == PricingTypeOK /\ Progress

LEMMA VoucherFields ==
    ASSUME NEW v \in Voucher
    PROVE  /\ v # NoVoucher /\ v.value \in Nat /\ v.maxDiscount \in Nat /\ v.minOrderPrice \in Nat
           /\ v.unit \in {"Percent", "Money"}
<1>1. v.value \in Nat /\ v.maxDiscount \in Nat /\ v.minOrderPrice \in Nat /\ v.unit \in {"Percent", "Money"}
  BY DEF Voucher
<1>2. NoVoucher.unit = "None"
  BY DEF NoVoucher
<1> QED
  BY <1>1, <1>2

LEMMA NominalType ==
    ASSUME NEW t \in Nat, NEW v \in Voucher
    PROVE  Nominal(t, v) \in Nat
<1>1. \A n \in Nat : t * n \in Nat
  OBVIOUS
<1> QED
  BY <1>1, VoucherFields DEF Nominal

LEMMA ReductionType ==
    ASSUME NEW t \in Nat, NEW v \in Voucher \cup {NoVoucher}
    PROVE  Reduction(t, v) \in Nat
<1>1. CASE v = NoVoucher
  BY <1>1 DEF Reduction
<1>2. CASE v \in Voucher
  BY <1>2, VoucherFields, NominalType DEF Reduction, Least
<1> QED
  BY <1>1, <1>2

\* The floor and the reduction, taken together, are the price asked.
LEMMA AskedIsTotalLessLeast ==
    ASSUME NEW t \in Nat, NEW v \in Voucher \cup {NoVoucher}
    PROVE  100 * t - Least(Reduction(t, v), 100 * (t - Floor)) = Asked(t, v)
  BY ReductionType DEF Asked, Greatest, Least

\* A discount with a fraction leaves a price with a fraction.
LEMMA FractionsStay ==
    ASSUME NEW t \in Nat, NEW d \in Int, Whole(100 * t - d)
    PROVE  Whole(d)
  BY SMT DEF Whole

LEMMA SoundInit == PricingInit => Sound
  BY DEF PricingInit, Sound, PricingTypeOK, Progress

LEMMA SoundNext == Sound /\ [PricingNext]_pricingVars => Sound'
<1> SUFFICES ASSUME Sound, [PricingNext]_pricingVars
             PROVE  Sound'
  OBVIOUS
<1>0. total \in Nat /\ voucher \in Voucher \cup {NoVoucher} /\ discount \in Int /\ final \in Nat
  BY DEF Sound, PricingTypeOK
<1>1. CASE Discount
  <2>1. voucher # NoVoucher => Nominal(total, voucher) \in Int
    BY <1>0, NominalType
  <2>2. at = "Discount" /\ at' \in {"Cap", "Refused"} /\ UNCHANGED <<total, voucher, final>>
    BY <1>1 DEF Discount
  <2>3. /\ at' = "Refused" => discount' = discount
        /\ at' = "Cap" => discount' = IF voucher = NoVoucher THEN 0 ELSE Nominal(total, voucher)
    BY <1>1 DEF Discount, Sound, Progress
  <2>4. at' = "Refused" => voucher # NoVoucher /\ total < voucher.minOrderPrice
    BY <1>0, <1>1, VoucherFields DEF Discount, MinimumMet
  <2> QED
    BY <2>1, <2>2, <2>3, <2>4 DEF Sound, PricingTypeOK, Progress, Nominal
<1>2. CASE Cap
  <2>1. discount' = Reduction(total, voucher)
    BY <1>2 DEF Cap, Capped, Reduction, Sound, Progress
  <2>2. Reduction(total, voucher) \in Int
    BY <1>0, ReductionType
  <2>3. at' = "Floor" /\ final = 0 /\ UNCHANGED <<total, voucher, final>>
    BY <1>2 DEF Cap, Sound, Progress
  <2> QED
    BY <2>1, <2>2, <2>3 DEF Sound, PricingTypeOK, Progress, Reduction, Nominal
<1>3. CASE FloorPrice
  <2>1. /\ discount' = Least(Reduction(total, voucher), 100 * (total - Floor))
        /\ final' = 100 * total - discount'
        /\ at' = "Create" /\ UNCHANGED <<total, voucher>>
    BY <1>3 DEF FloorPrice, Floored, Sound, Progress
  <2>2. Reduction(total, voucher) \in Nat
    BY <1>0, ReductionType
  <2>3. discount' \in Int /\ discount' <= 100 * (total - Floor)
    BY <1>0, <2>1, <2>2 DEF Least
  <2>4. final' \in Nat
    BY <1>0, <2>1, <2>3
  <2>5. Reduction(total, voucher)' = Reduction(total, voucher)
    BY <2>1 DEF Reduction, Nominal
  <2> QED
    BY <2>1, <2>3, <2>4, <2>5 DEF Sound, PricingTypeOK, Progress
<1>4. CASE Create
  <2>1. at = "Create" /\ at' \in {"Created", "Refused"} /\ UNCHANGED <<total, voucher, discount, final>>
    BY <1>4 DEF Create
  <2>2. /\ Reduction(total, voucher)' = Reduction(total, voucher)
        /\ Whole(Asked(total, voucher))' = Whole(Asked(total, voucher))
    BY <2>1 DEF Reduction, Nominal, Asked, Whole
  <2>3. final = 100 * total - discount /\ final = Asked(total, voucher)
    BY <1>0, <2>1, AskedIsTotalLessLeast DEF Sound, Progress
  <2>4. at' = "Refused" => ~Whole(discount) \/ ~Whole(final)
    BY <1>4 DEF Create
  <2>5. Whole(final) => Whole(discount)
    BY <1>0, <2>3, FractionsStay
  <2>6. at' = "Refused" => ~Whole(Asked(total, voucher))'
    BY <2>2, <2>3, <2>4, <2>5
  <2> QED
    BY <2>1, <2>2, <2>6 DEF Sound, PricingTypeOK, Progress
<1>5. CASE UNCHANGED pricingVars
  <2>1. /\ Reduction(total, voucher)' = Reduction(total, voucher)
        /\ Nominal(total, voucher)' = Nominal(total, voucher)
        /\ Whole(Asked(total, voucher))' = Whole(Asked(total, voucher))
    BY <1>5 DEF pricingVars, Reduction, Nominal, Asked, Whole
  <2> QED
    BY <1>5, <2>1 DEF pricingVars, Sound, PricingTypeOK, Progress
<1> QED
  BY <1>1, <1>2, <1>3, <1>4, <1>5 DEF PricingNext

(***************************************************************************)
(* createOrder never asks for less than nothing, whatever the voucher.     *)
(***************************************************************************)
THEOREM PricingTypeCorrect == PricingSpec => []PricingTypeOK
<1>1. Sound => PricingTypeOK
  BY DEF Sound
<1> QED
  BY <1>1, SoundInit, SoundNext, PTL DEF PricingSpec

(***************************************************************************)
(* Whatever the basket and the voucher, the price that createOrder stores  *)
(* is the total less the capped reduction, but never below the floor; and  *)
(* a basket is refused only below the voucher's minimum or for a fraction  *)
(* of a dong in that price.                                                *)
(***************************************************************************)
THEOREM PriceCorrect == PricingSpec => []PriceIsAsked
<1>1. Sound => PriceIsAsked
  <2>1. ASSUME Sound, at = "Created"
        PROVE  final = Asked(total, voucher) /\ 100 * total = final + discount
    <3>1. total \in Nat /\ voucher \in Voucher \cup {NoVoucher} /\ discount \in Int
      BY <2>1 DEF Sound, PricingTypeOK
    <3>2. discount = Least(Reduction(total, voucher), 100 * (total - Floor)) /\ final = 100 * total - discount
      BY <2>1 DEF Sound, Progress
    <3>3. final = Asked(total, voucher)
      BY <3>1, <3>2, AskedIsTotalLessLeast
    <3> QED
      BY <3>1, <3>2, <3>3
  <2> QED
    BY <2>1 DEF PriceIsAsked, Sound, Progress
<1> QED
  BY <1>1, SoundInit, SoundNext, PTL DEF PricingSpec

=============================================================================

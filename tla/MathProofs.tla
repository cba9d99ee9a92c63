------------------------------ MODULE MathProofs ------------------------------
(***************************************************************************)
(* What the money arithmetic of AeraMath and ReserveMath guarantees for    *)
(* every scale and every amount: results are naturals, rounding goes the   *)
(* stated way, and interest never lowers an index.                         *)
(*                                                                         *)
(* And what a total of Sums is: it exists and is an integer, it is the sum *)
(* of its entries one at a time, and changing one entry changes it by the  *)
(* difference.  Induction on the number of entries is done through the     *)
(* least counterexample.                                                   *)
(***************************************************************************)
EXTENDS ReserveMath, Sums, WellFoundedInduction, TLAPS

LEMMA ProductNat ==
  ASSUME NEW a \in Nat, NEW b \in Nat
  PROVE  a * b \in Nat
OBVIOUS

LEMMA Distributes ==
  ASSUME NEW a \in Nat, NEW b \in Nat, NEW c \in Nat
  PROVE  (a + b) * c = a * c + b * c
OBVIOUS

LEMMA ProductMonotone ==
  ASSUME NEW a \in Nat, NEW b \in Nat, NEW c \in Nat, a <= b
  PROVE  a * c <= b * c
OBVIOUS

\* Euclidean division as the provers need it: the quotient is natural and the
\* remainder is below the divisor.
LEMMA Quotient ==
  ASSUME NEW a \in Nat, NEW d \in Nat \ {0}
  PROVE  /\ a \div d \in Nat
         /\ (a \div d) * d <= a
         /\ a < (a \div d) * d + d
OBVIOUS

\* A quotient is at least whatever fits.
LEMMA QuotientAtLeast ==
  ASSUME NEW a \in Nat, NEW d \in Nat \ {0}, NEW q \in Nat, q * d <= a
  PROVE  q <= a \div d
<1> DEFINE n == a \div d
<1>1. n \in Nat /\ a < n * d + d
  BY Quotient
<1>2. SUFFICES ASSUME n + 1 <= q PROVE FALSE
  BY <1>1
<1>3. (n + 1) * d <= q * d
  BY <1>1, <1>2
<1> QED
  BY <1>1, <1>3

\* A quotient is at most whatever covers it.
LEMMA QuotientAtMost ==
  ASSUME NEW a \in Nat, NEW d \in Nat \ {0}, NEW q \in Nat, a <= q * d
  PROVE  a \div d <= q
<1> DEFINE n == a \div d
<1>1. n \in Nat /\ n * d <= a
  BY Quotient
<1>2. SUFFICES ASSUME q + 1 <= n PROVE FALSE
  BY <1>1
<1>3. (q + 1) * d <= n * d
  BY <1>1, <1>2
<1> QED
  BY <1>1, <1>3

LEMMA FloorNat ==
  ASSUME NEW a \in Nat, NEW b \in Nat, NEW d \in Nat \ {0}
  PROVE  /\ mul_div_floor(a, b, d) \in Nat
         /\ mul_div_floor(a, b, d) * d <= a * b
         /\ a * b < mul_div_floor(a, b, d) * d + d
BY ProductNat, Quotient DEF mul_div_floor

LEMMA CeilNat ==
  ASSUME NEW a \in Nat, NEW b \in Nat, NEW d \in Nat \ {0}
  PROVE  /\ mul_div_ceil(a, b, d) \in Nat
         /\ a * b <= mul_div_ceil(a, b, d) * d
         /\ mul_div_ceil(a, b, d) * d < a * b + d
<1>1. a * b + (d - 1) \in Nat
  BY ProductNat
<1> QED
  BY <1>1, Quotient, ProductNat DEF mul_div_ceil

\* What a division rounded up comes to at most.
LEMMA CeilAtMost ==
  ASSUME NEW a \in Nat, NEW b \in Nat, NEW d \in Nat \ {0}, NEW q \in Nat, a * b <= q * d
  PROVE  mul_div_ceil(a, b, d) <= q
<1> DEFINE c == mul_div_ceil(a, b, d)
<1>1. c \in Nat /\ c * d < a * b + d
  BY CeilNat
<1>2. a * b \in Nat /\ q * d \in Nat /\ (q + 1) * d = q * d + d
  BY ProductNat
<1> HIDE DEF c
<1>3. ASSUME c >= q + 1 PROVE FALSE
  <2>1. (q + 1) * d <= c * d
    BY <1>1, <1>3
  <2>2. c * d \in Nat
    BY <1>1, ProductNat
  <2> QED
    BY <1>1, <1>2, <2>1, <2>2
<1> QED
  BY <1>1, <1>3 DEF c

\* Rounding down the whole is never worth more than rounding down one part and
\* rounding up the other.
LEMMA FloorSplits ==
  ASSUME NEW a \in Nat, NEW left \in Nat, NEW taken \in Nat, a <= left + taken,
         NEW b \in Nat, NEW d \in Nat \ {0}
  PROVE  mul_div_floor(a, b, d) <= mul_div_floor(left, b, d) + mul_div_ceil(taken, b, d)
<1> DEFINE whole == mul_div_floor(a, b, d)
           part == mul_div_floor(left, b, d)
           rest == mul_div_ceil(taken, b, d)
<1>1. /\ whole \in Nat /\ whole * d <= a * b
      /\ part \in Nat /\ left * b < part * d + d
      /\ rest \in Nat /\ taken * b <= rest * d
  BY FloorNat, CeilNat
<1>2. a * b <= left * b + taken * b
  <2>1. a * b <= (left + taken) * b
    BY ProductMonotone
  <2> QED
    BY <2>1, Distributes
<1> HIDE DEF whole, part, rest
<1>3. whole * d < (part + rest + 1) * d
  <2>1. (part + rest + 1) * d = part * d + rest * d + d
    BY <1>1
  <2>2. /\ whole * d \in Nat /\ part * d \in Nat /\ rest * d \in Nat
        /\ a * b \in Nat /\ left * b \in Nat /\ taken * b \in Nat
    BY <1>1, ProductNat
  <2> QED
    BY <1>1, <1>2, <2>1, <2>2
<1>4. ASSUME part + rest + 1 <= whole PROVE FALSE
  <2>1. (part + rest + 1) * d <= whole * d
    BY <1>1, <1>4, ProductMonotone
  <2>2. (part + rest + 1) * d \in Nat /\ whole * d \in Nat
    BY <1>1, ProductNat
  <2> QED
    BY <1>3, <2>1, <2>2
<1> QED
  BY <1>1, <1>4 DEF whole, part, rest

\* Rounding up the whole never costs more than rounding up the parts.
LEMMA CeilSplits ==
  ASSUME NEW a \in Nat, NEW one \in Nat, NEW other \in Nat, a <= one + other,
         NEW b \in Nat, NEW d \in Nat \ {0}
  PROVE  mul_div_ceil(a, b, d) <= mul_div_ceil(one, b, d) + mul_div_ceil(other, b, d)
<1> DEFINE c1 == mul_div_ceil(one, b, d)
           c2 == mul_div_ceil(other, b, d)
<1>1. /\ c1 \in Nat /\ one * b <= c1 * d
      /\ c2 \in Nat /\ other * b <= c2 * d
  BY CeilNat
<1>2. a * b <= one * b + other * b
  <2>1. a * b <= (one + other) * b
    BY ProductMonotone
  <2> QED
    BY <2>1, Distributes
<1> HIDE DEF c1, c2
<1>3. a * b <= (c1 + c2) * d
  <2>1. (c1 + c2) * d = c1 * d + c2 * d
    BY <1>1, Distributes
  <2>2. /\ c1 * d \in Nat /\ c2 * d \in Nat
        /\ a * b \in Nat /\ one * b \in Nat /\ other * b \in Nat
    BY <1>1, ProductNat
  <2> QED
    BY <1>1, <1>2, <2>1, <2>2
<1>4. c1 + c2 \in Nat
  BY <1>1
<1> QED
  BY <1>3, <1>4, CeilAtMost DEF c1, c2

\* A sum rounded down covers a part rounded up and the other rounded down.
LEMMA CeilPlusFloor ==
  ASSUME NEW one \in Nat, NEW other \in Nat, NEW whole \in Nat, one + other <= whole,
         NEW b \in Nat, NEW d \in Nat \ {0}
  PROVE  mul_div_ceil(one, b, d) + mul_div_floor(other, b, d) <= mul_div_ceil(whole, b, d)
<1> DEFINE up == mul_div_ceil(one, b, d)
           down == mul_div_floor(other, b, d)
           all == mul_div_ceil(whole, b, d)
<1>1. /\ up \in Nat /\ up * d < one * b + d
      /\ down \in Nat /\ down * d <= other * b
      /\ all \in Nat /\ whole * b <= all * d
  BY FloorNat, CeilNat
<1>2. one * b + other * b <= whole * b
  <2>1. (one + other) * b <= whole * b
    BY ProductMonotone
  <2> QED
    BY <2>1, Distributes
<1>3. /\ one * b \in Nat /\ other * b \in Nat /\ whole * b \in Nat
      /\ up * d \in Nat /\ down * d \in Nat /\ all * d \in Nat
  BY <1>1, ProductNat
<1> HIDE DEF up, down, all
<1>4. up * d + down * d < all * d + d
  BY <1>1, <1>2, <1>3
<1>5. (up + down) * d < (all + 1) * d
  BY <1>1, <1>4
<1>6. CASE up + down > all
  <2>1. all + 1 <= up + down /\ all + 1 \in Nat /\ up + down \in Nat
    BY <1>1, <1>6
  <2>2. (all + 1) * d <= (up + down) * d
    BY <2>1, ProductMonotone
  <2>3. (all + 1) * d \in Nat /\ (up + down) * d \in Nat
    BY <2>1, ProductNat
  <2> QED
    BY <1>5, <2>2, <2>3
<1> QED
  BY <1>1, <1>6 DEF up, down, all

\* Scaling by a ratio of at most one never adds.
LEMMA FloorShrinks ==
  ASSUME NEW a \in Nat, NEW b \in Nat, NEW d \in Nat \ {0}, b <= d
  PROVE  mul_div_floor(a, b, d) <= a
<1>1. a * b \in Nat /\ a * b <= a * d
  BY ProductNat
<1> QED
  BY <1>1, QuotientAtMost DEF mul_div_floor

\* Scaling by a ratio of at least one never takes away.
LEMMA FloorGrows ==
  ASSUME NEW a \in Nat, NEW b \in Nat, NEW d \in Nat \ {0}, d <= b
  PROVE  a <= mul_div_floor(a, b, d)
<1>1. a * b \in Nat /\ a * d <= a * b
  BY ProductNat
<1> QED
  BY <1>1, QuotientAtLeast DEF mul_div_floor

\* A larger product has the larger quotient.
LEMMA FloorMonotone ==
  ASSUME NEW a \in Nat, NEW b \in Nat, NEW c \in Nat, NEW e \in Nat,
         NEW d \in Nat \ {0}, a <= c, b <= e
  PROVE  mul_div_floor(a, b, d) <= mul_div_floor(c, e, d)
<1> DEFINE q == mul_div_floor(a, b, d)
<1>1. q \in Nat /\ q * d <= a * b
  BY FloorNat
<1>2. a * b <= c * b /\ c * b <= c * e
  OBVIOUS
<1>3. /\ a * b \in Nat /\ c * b \in Nat /\ c * e \in Nat
      /\ q * d \in Nat
  BY <1>1, ProductNat
<1>4. q * d <= c * e
  BY <1>1, <1>2, <1>3
<1> HIDE DEF q
<1>5. q <= (c * e) \div d
  BY <1>1, <1>3, <1>4, QuotientAtLeast
<1> QED
  BY <1>5 DEF q, mul_div_floor

\* The same of integers: total_liquidity may be negative after a write-off.
LEMMA IntQuotient ==
  ASSUME NEW a \in Int, NEW d \in Nat \ {0}
  PROVE  /\ a \div d \in Int
         /\ (a \div d) * d <= a
         /\ a < (a \div d) * d + d
OBVIOUS

LEMMA IntQuotientAtLeast ==
  ASSUME NEW a \in Int, NEW d \in Nat \ {0}, NEW q \in Int, q * d <= a
  PROVE  q <= a \div d
<1> DEFINE n == a \div d
<1>1. n \in Int /\ a < n * d + d
  BY IntQuotient
<1> HIDE DEF n
<1>2. ASSUME n + 1 <= q PROVE FALSE
  <2>1. (n + 1) * d <= q * d
    BY <1>1, <1>2
  <2>2. (n + 1) * d = n * d + d /\ n * d \in Int /\ q * d \in Int
    BY <1>1
  <2> QED
    BY <1>1, <2>1, <2>2
<1> QED
  BY <1>1, <1>2 DEF n

LEMMA FloorMonotoneInt ==
  ASSUME NEW a \in Int, NEW c \in Int, NEW b \in Nat, NEW d \in Nat \ {0}, a <= c
  PROVE  /\ mul_div_floor(a, b, d) \in Int /\ mul_div_floor(c, b, d) \in Int
         /\ mul_div_floor(a, b, d) <= mul_div_floor(c, b, d)
<1>1. a * b \in Int /\ c * b \in Int /\ a * b <= c * b
  OBVIOUS
<1>2. /\ (a * b) \div d \in Int /\ (c * b) \div d \in Int
      /\ ((a * b) \div d) * d <= a * b
  BY <1>1, IntQuotient
<1> DEFINE q == (a * b) \div d
<1>3. q * d \in Int /\ q * d <= c * b
  <2>1. q \in Int /\ q * d <= a * b
    BY <1>2
  <2> HIDE DEF q
  <2>2. q * d \in Int
    BY <2>1
  <2> QED
    BY <1>1, <2>1, <2>2
<1>4. q <= (c * b) \div d
  BY <1>1, <1>2, <1>3, IntQuotientAtLeast
<1> QED
  BY <1>2, <1>4 DEF mul_div_floor

\* Shares are worth no less at a rate no lower.
LEMMA WorthMonotone ==
  ASSUME NEW shares \in Nat, NEW total \in Int, NEW total2 \in Int,
         NEW supply \in Nat \ {0}, NEW supply2 \in Nat \ {0},
         total * supply2 <= total2 * supply
  PROVE  mul_div_floor(shares, total, supply) <= mul_div_floor(shares, total2, supply2)
<1> DEFINE q == (shares * total) \div supply
<1>1. shares * total \in Int /\ shares * total2 \in Int
  OBVIOUS
<1>2. q \in Int /\ q * supply <= shares * total
  BY <1>1, IntQuotient
<1> HIDE DEF q
<1>3. (q * supply) * supply2 <= (shares * total) * supply2
  <2>1. q * supply \in Int
    BY <1>2
  <2> QED
    BY <1>1, <1>2, <2>1
<1>4. shares * (total * supply2) <= shares * (total2 * supply)
  <2>1. total * supply2 \in Int /\ total2 * supply \in Int
    OBVIOUS
  <2> QED
    BY <2>1
<1>5. /\ (shares * total) * supply2 = shares * (total * supply2)
      /\ shares * (total2 * supply) = (shares * total2) * supply
      /\ (q * supply) * supply2 = (q * supply2) * supply
  BY <1>2
<1>6. (q * supply2) * supply <= (shares * total2) * supply
  <2>1. /\ (q * supply) * supply2 \in Int /\ (shares * total) * supply2 \in Int
        /\ shares * (total2 * supply) \in Int
    BY <1>1, <1>2
  <2> QED
    BY <1>3, <1>4, <1>5, <2>1
<1>7. q * supply2 <= shares * total2
  <2>1. q * supply2 \in Int
    BY <1>2
  <2> DEFINE x == q * supply2
             y == shares * total2
  <2>2. x \in Int /\ y \in Int /\ x * supply <= y * supply
    BY <1>1, <1>6, <2>1
  <2> HIDE DEF x, y
  <2>3. x <= y
    BY <2>2
  <2> QED
    BY <2>3 DEF x, y
<1>8. q <= (shares * total2) \div supply2
  BY <1>1, <1>2, <1>7, IntQuotientAtLeast
<1> QED
  BY <1>8 DEF q, mul_div_floor

\* Nothing is worth nothing, whichever way it is rounded.
LEMMA NothingScaled ==
  ASSUME NEW b \in Int, NEW d \in Nat \ {0}
  PROVE  /\ mul_div_floor(0, b, d) = 0
         /\ mul_div_ceil(0, b, d) = 0
<1>1. 0 * b = 0
  OBVIOUS
<1>2. 0 \div d = 0 /\ (0 + (d - 1)) \div d = 0
  <2>1. 0 \div d \in Nat /\ (0 \div d) * d <= 0
    BY Quotient
  <2>2. d - 1 \in Nat /\ (d - 1) \div d \in Nat /\ ((d - 1) \div d) * d <= d - 1
    BY Quotient
  <2> DEFINE x == 0 \div d
             y == (d - 1) \div d
  <2>3. x \in Nat /\ y \in Nat /\ x * d <= 0 /\ y * d <= d - 1
    BY <2>1, <2>2
  <2> HIDE DEF x, y
  <2>4. x < 1
    <3>1. x >= 1 => x * d >= d
      BY <2>3
    <3> QED
      BY <2>3, <3>1
  <2>5. y < 1
    <3>1. y >= 1 => y * d >= d
      BY <2>3
    <3> QED
      BY <2>3, <3>1
  <2>6. x = 0 /\ y = 0
    BY <2>3, <2>4, <2>5
  <2> QED
    BY <2>6 DEF x, y
<1> QED
  BY <1>1, <1>2 DEF mul_div_floor, mul_div_ceil

\* A repayment of the whole debt, rounded up, retires the whole principal: the
\* two roundings of repay.rs meet exactly.
THEOREM FullPaymentRetiresPrincipal ==
  ASSUME NEW principal \in Nat, NEW index \in Nat \ {0}, NEW paid \in Nat,
         debt_at(principal, index) <= paid
  PROVE  principal <= mul_div_floor(paid, FIXED_POINT_SCALE, index)
<1> DEFINE S == FIXED_POINT_SCALE
           owed == debt_at(principal, index)
<1>1. S \in Nat \ {0}
  BY ScaleAssumption
<1>2. owed \in Nat /\ principal * index <= owed * S
  BY <1>1, CeilNat DEF debt_at
<1>3. owed * S <= paid * S
  BY <1>1, <1>2
<1>4. paid * S \in Nat /\ owed * S \in Nat /\ principal * index \in Nat
  BY <1>1, <1>2, ProductNat
<1>5. principal * index <= paid * S
  BY <1>2, <1>3, <1>4
<1> HIDE DEF S, owed
<1> QED
  BY <1>4, <1>5, QuotientAtLeast DEF mul_div_floor, S

\* A smaller payment always leaves some principal: the last unit is never
\* forgiven.
THEOREM PartialPaymentLeavesPrincipal ==
  ASSUME NEW principal \in Nat, NEW index \in Nat \ {0}, NEW paid \in Nat,
         paid < debt_at(principal, index)
  PROVE  mul_div_floor(paid, FIXED_POINT_SCALE, index) < principal
<1> DEFINE S == FIXED_POINT_SCALE
           owed == debt_at(principal, index)
           retired == mul_div_floor(paid, S, index)
<1>1. S \in Nat \ {0}
  BY ScaleAssumption
<1>2. owed \in Nat /\ owed * S < principal * index + S
  BY <1>1, CeilNat DEF debt_at
<1>3. paid * S + S <= owed * S
  BY <1>1, <1>2
<1>4. paid * S \in Nat /\ owed * S \in Nat /\ principal * index \in Nat
  BY <1>1, <1>2, ProductNat
<1>5. paid * S < principal * index
  BY <1>1, <1>2, <1>3, <1>4
<1>6. retired \in Nat /\ retired * index <= paid * S
  BY <1>1, FloorNat
<1>7. retired * index < principal * index
  BY <1>4, <1>5, <1>6, ProductNat
<1>8. SUFFICES ASSUME principal <= retired PROVE FALSE
  BY <1>6
<1>9. principal * index <= retired * index
  BY <1>6, <1>8
<1> QED
  BY <1>7, <1>9, <1>6, <1>4, ProductNat

-------------------------------------------------------------------------------
\* The arithmetic of a reserve stays within the naturals.

LEMMA ValueNat ==
  ASSUME NEW amount \in Nat, NEW unit \in Nat \ {0}, NEW price \in Nat
  PROVE  /\ market_value_floor(amount, unit, price) \in Nat
         /\ market_value_ceil(amount, unit, price) \in Nat
         /\ value_to_amount(amount, price, unit) \in Nat \/ price = 0
BY FloorNat, CeilNat DEF market_value_floor, market_value_ceil, value_to_amount

LEMMA HaircutNat ==
  ASSUME NEW value \in Nat, NEW haircut \in Nat, haircut <= BPS_DENOMINATOR
  PROVE  apply_haircut(value, haircut) \in Nat
<1>1. BPS_DENOMINATOR - haircut \in Nat /\ BPS_DENOMINATOR \in Nat \ {0}
  BY ScaleAssumption
<1> QED
  BY <1>1, FloorNat DEF apply_haircut

LEMMA DebtNat ==
  ASSUME NEW principal \in Nat, NEW index \in Nat
  PROVE  debt_at(principal, index) \in Nat
BY CeilNat, ScaleAssumption DEF debt_at

\* A higher index never means a lower debt.
LEMMA DebtMonotone ==
  ASSUME NEW principal \in Nat, NEW index \in Nat, NEW higher \in Nat, index <= higher
  PROVE  debt_at(principal, index) <= debt_at(principal, higher)
<1> DEFINE S == FIXED_POINT_SCALE
           a == principal * index
           b == principal * higher
<1>1. S \in Nat \ {0}
  BY ScaleAssumption
<1>2. a \in Nat /\ b \in Nat /\ a <= b
  BY ProductNat
<1>3. /\ debt_at(principal, index) \in Nat
      /\ debt_at(principal, index) * S < a + S
  BY <1>1, CeilNat DEF debt_at
<1>4. debt_at(principal, higher) \in Nat /\ b <= debt_at(principal, higher) * S
  BY <1>1, CeilNat DEF debt_at
<1> DEFINE lo == debt_at(principal, index)
           hi == debt_at(principal, higher)
<1>5. lo * S < hi * S + S
  BY <1>1, <1>2, <1>3, <1>4, ProductNat
<1> HIDE DEF lo, hi, a, b, S
<1>6. SUFFICES ASSUME hi + 1 <= lo PROVE FALSE
  BY <1>3, <1>4 DEF lo, hi
<1>7. lo \in Nat /\ hi \in Nat
  BY <1>3, <1>4 DEF lo, hi
<1>8. (hi + 1) * S <= lo * S
  BY <1>1, <1>6, <1>7
<1> QED
  BY <1>1, <1>5, <1>7, <1>8

LEMMA UtilizationNat ==
  ASSUME NEW rsv \in ReserveType
  PROVE  /\ current_borrowed_amount(rsv) \in Nat
         /\ gross_liquidity(rsv) \in Nat
         /\ utilization_bps(rsv) \in 0..BPS_DENOMINATOR
<1>1. /\ rsv.available_liquidity \in Nat /\ rsv.borrowed_principal \in Nat
      /\ rsv.borrow_index \in Nat /\ BPS_DENOMINATOR \in Nat
  BY ScaleAssumption DEF ReserveType
<1> DEFINE debt == current_borrowed_amount(rsv)
           gross == gross_liquidity(rsv)
<1>2. debt \in Nat
  BY <1>1, DebtNat DEF current_borrowed_amount
<1>3. gross \in Nat /\ debt <= gross
  BY <1>1, <1>2 DEF gross_liquidity
<1>4. ASSUME gross # 0 PROVE mul_div_floor(debt, BPS_DENOMINATOR, gross) \in 0..BPS_DENOMINATOR
  <2> HIDE DEF debt, gross
  <2>1. debt * BPS_DENOMINATOR \in Nat /\ debt * BPS_DENOMINATOR <= BPS_DENOMINATOR * gross
    BY <1>1, <1>2, <1>3, ProductNat
  <2> QED
    BY <2>1, <1>1, <1>2, <1>3, <1>4, QuotientAtMost, Quotient DEF mul_div_floor
<1> QED
  BY <1>1, <1>2, <1>3, <1>4 DEF utilization_bps

LEMMA RateNat ==
  ASSUME NEW rsv \in ReserveType, NEW cfg, ValidConfig(cfg)
  PROVE  borrow_rate_per_slot(rsv, cfg) \in Nat
<1> DEFINE u == utilization_bps(rsv)
           kink == cfg.optimal_utilization_bps
<1>1. u \in Nat /\ BPS_DENOMINATOR \in Nat \ {0} /\ FIXED_POINT_SCALE \in Nat
  BY UtilizationNat, ScaleAssumption
<1>2. /\ kink \in Nat \ {0} /\ BPS_DENOMINATOR - kink \in Nat \ {0}
      /\ cfg.slots_per_year \in Nat \ {0}
      /\ cfg.min_borrow_rate_bps \in Nat /\ cfg.optimal_borrow_rate_bps \in Nat
      /\ cfg.optimal_borrow_rate_bps - cfg.min_borrow_rate_bps \in Nat
      /\ cfg.max_borrow_rate_bps - cfg.optimal_borrow_rate_bps \in Nat
  BY <1>1 DEF ValidConfig, ReserveConfigType
<1>3. borrow_rate_bps(rsv, cfg) \in Nat
  <2>1. CASE u <= kink
    <3>1. mul_div_floor(cfg.optimal_borrow_rate_bps - cfg.min_borrow_rate_bps, u, kink) \in Nat
      BY <1>1, <1>2, FloorNat
    <3>2. borrow_rate_bps(rsv, cfg)
            = cfg.min_borrow_rate_bps
              + mul_div_floor(cfg.optimal_borrow_rate_bps - cfg.min_borrow_rate_bps, u, kink)
      BY <2>1 DEF borrow_rate_bps
    <3> QED
      BY <3>1, <3>2, <1>2
  <2>2. CASE ~ (u <= kink)
    <3>1. u - kink \in Nat
      BY <2>2, <1>1, <1>2
    <3>2. mul_div_floor(cfg.max_borrow_rate_bps - cfg.optimal_borrow_rate_bps,
                        u - kink, BPS_DENOMINATOR - kink) \in Nat
      BY <3>1, <1>2, FloorNat
    <3> HIDE DEF u, kink
    <3> QED
      BY <3>2, <2>2, <1>2 DEF borrow_rate_bps, u, kink
  <2> QED
    BY <2>1, <2>2
<1>4. BPS_DENOMINATOR * cfg.slots_per_year \in Nat \ {0}
  BY <1>1, <1>2
<1> QED
  BY <1>1, <1>3, <1>4, FloorNat DEF borrow_rate_per_slot

\* accrue_interest keeps the record typed, moves only the index and the fees, and
\* never lowers either.
LEMMA AccrueTyped ==
  ASSUME NEW rsv \in ReserveType, NEW cfg, ValidConfig(cfg), NEW slot \in Nat
  PROVE  LET rsv2 == accrue_interest(rsv, cfg, slot) IN
         /\ rsv2 \in ReserveType
         /\ rsv2.borrow_index >= rsv.borrow_index
         /\ rsv2.accrued_fees >= rsv.accrued_fees
         /\ rsv2.available_liquidity = rsv.available_liquidity
         /\ rsv2.share_mint_supply = rsv.share_mint_supply
         /\ rsv2.borrowed_principal = rsv.borrowed_principal
         /\ rsv2.last_update_slot = slot
<1>1. CASE ~ OwesInterest(rsv, slot)
  BY <1>1 DEF accrue_interest, ReserveType
<1>2. CASE OwesInterest(rsv, slot)
  <2> DEFINE S == FIXED_POINT_SCALE
             elapsed == slot - rsv.last_update_slot
             rate == borrow_rate_per_slot(rsv, cfg)
             index == grown_index(rsv, cfg, slot)
             before == current_borrowed_amount(rsv)
             after == debt_at(rsv.borrowed_principal, index)
             fee == interest_fee(before, after, cfg)
  <2>1. S \in Nat \ {0} /\ elapsed \in Nat /\ rate \in Nat
    BY <1>2, ScaleAssumption, RateNat DEF OwesInterest, ReserveType
  <2>2. S + rate * elapsed \in Nat /\ S <= S + rate * elapsed
    <3> HIDE DEF S, elapsed, rate
    <3> QED
      BY <2>1, ProductNat
  <2>3. rsv.borrow_index \in Nat /\ rsv.borrowed_principal \in Nat /\ rsv.accrued_fees \in Nat
    BY DEF ReserveType
  <2>4. index \in Nat /\ rsv.borrow_index <= index
    BY <2>1, <2>2, <2>3, FloorNat, FloorGrows DEF grown_index
  <2>5. before \in Nat /\ after \in Nat
    BY <2>3, <2>4, DebtNat, UtilizationNat
  <2>6. cfg.reserve_factor_bps \in Nat
    BY DEF ValidConfig, ReserveConfigType
  <2>7. fee \in Nat
    <3>1. saturating_sub(after, before) \in Nat
      BY <2>5 DEF saturating_sub
    <3> QED
      BY <3>1, <2>6, ScaleAssumption, FloorNat DEF interest_fee
  <2>8. accrue_interest(rsv, cfg, slot)
          = [rsv EXCEPT !.borrow_index = index, !.accrued_fees = @ + fee,
                        !.last_update_slot = slot]
    BY <1>2 DEF accrue_interest
  <2> DEFINE rsv2 == accrue_interest(rsv, cfg, slot)
  <2> HIDE DEF S, elapsed, rate, index, before, after, fee
  <2>9. /\ rsv2.borrow_index = index
        /\ rsv2.accrued_fees = rsv.accrued_fees + fee
        /\ rsv2.available_liquidity = rsv.available_liquidity
        /\ rsv2.share_mint_supply = rsv.share_mint_supply
        /\ rsv2.borrowed_principal = rsv.borrowed_principal
        /\ rsv2.last_update_slot = slot
    BY <2>8 DEF ReserveType
  <2>10. rsv2 \in ReserveType
    <3>1. rsv.accrued_fees + fee \in Nat
      BY <2>3, <2>7
    <3> QED
      BY <3>1, <2>4, <2>8 DEF ReserveType
  <2> HIDE DEF rsv2
  <2>11. rsv2.borrow_index >= rsv.borrow_index /\ rsv2.accrued_fees >= rsv.accrued_fees
    BY <2>3, <2>4, <2>7, <2>9
  <2> QED
    BY <2>9, <2>10, <2>11 DEF rsv2
<1> QED
  BY <1>1, <1>2

-------------------------------------------------------------------------------
\* No change of the debt costs the pool.

\* A new debt is booked, rounded up twice, as at least the amount borrowed.
LEMMA DebtGrows ==
  ASSUME NEW principal \in Nat, NEW index \in Nat \ {0}, NEW amount \in Nat, NEW scaled \in Nat,
         amount * FIXED_POINT_SCALE <= scaled * index
  PROVE  debt_at(principal, index) + amount <= debt_at(principal + scaled, index)
<1> DEFINE S == FIXED_POINT_SCALE
           a == principal * index
           more == scaled * index
           lo == debt_at(principal, index)
           hi == debt_at(principal + scaled, index)
<1>1. S \in Nat \ {0} /\ a \in Nat /\ more \in Nat
  BY ScaleAssumption, ProductNat
<1>2. lo \in Nat /\ lo * S < a + S
  BY <1>1, CeilNat DEF debt_at
<1>3. hi \in Nat /\ (principal + scaled) * index <= hi * S
  <2>1. principal + scaled \in Nat
    OBVIOUS
  <2> QED
    BY <1>1, <2>1, CeilNat DEF debt_at
<1>4. (principal + scaled) * index = a + more
  BY Distributes
<1>5. amount * S <= more
  OBVIOUS
<1> HIDE DEF S, a, more, lo, hi
<1>6. lo * S \in Nat /\ hi * S \in Nat /\ amount * S \in Nat
  BY <1>1, <1>2, <1>3, ProductNat
<1>7. lo * S + amount * S < hi * S + S
  BY <1>1, <1>2, <1>3, <1>4, <1>5, <1>6
<1>8. ASSUME hi + 1 <= lo + amount PROVE FALSE
  <2>1. (hi + 1) * S <= (lo + amount) * S
    BY <1>1, <1>2, <1>3, <1>8
  <2>2. (hi + 1) * S = hi * S + S /\ (lo + amount) * S = lo * S + amount * S
    BY <1>1, <1>2, <1>3
  <2> QED
    BY <1>1, <1>6, <1>7, <2>1, <2>2
<1>9. lo + amount <= hi
  BY <1>2, <1>3, <1>8
<1> QED
  BY <1>9 DEF lo, hi

\* Booking a new debt as a principal rounded up adds at most the amount and what one
\* unit of principal is worth.
LEMMA DebtGrowsAtMost ==
  ASSUME NEW principal \in Nat, NEW index \in Nat \ {0}, NEW amount \in Nat
  PROVE  debt_at(principal + mul_div_ceil(amount, FIXED_POINT_SCALE, index), index)
           <= debt_at(principal, index) + (amount + mul_div_ceil(1, index, FIXED_POINT_SCALE))
<1> DEFINE S == FIXED_POINT_SCALE
           scaled == mul_div_ceil(amount, S, index)
           unit == mul_div_ceil(1, index, S)
<1>1. S \in Nat \ {0}
  BY ScaleAssumption
<1>2. scaled \in Nat /\ scaled * index < amount * S + index
  BY <1>1, CeilNat
<1>3. unit \in Nat /\ index <= unit * S
  BY <1>1, CeilNat
<1> HIDE DEF S, scaled, unit
<1>4. scaled * index <= (amount + unit) * S
  <2>1. (amount + unit) * S = amount * S + unit * S
    BY <1>1, <1>3, Distributes
  <2>2. scaled * index \in Nat /\ amount * S \in Nat /\ unit * S \in Nat
    BY <1>1, <1>2, <1>3, ProductNat
  <2> QED
    BY <1>2, <1>3, <2>1, <2>2
<1>5. debt_at(scaled, index) <= amount + unit
  <2>1. amount + unit \in Nat
    BY <1>3
  <2> QED
    BY <1>1, <1>2, <1>4, <2>1, CeilAtMost DEF debt_at, S
<1>6. debt_at(principal + scaled, index) <= debt_at(principal, index) + debt_at(scaled, index)
  <2>1. principal + scaled \in Nat
    BY <1>2
  <2> QED
    BY <1>1, <1>2, <2>1, CeilSplits DEF debt_at, S
<1>7. /\ debt_at(principal + scaled, index) \in Nat /\ debt_at(principal, index) \in Nat
      /\ debt_at(scaled, index) \in Nat
  <2>1. principal + scaled \in Nat /\ scaled \in Nat /\ index \in Nat
    BY <1>2
  <2> QED
    BY <2>1, DebtNat
<1>8. debt_at(principal + scaled, index) <= debt_at(principal, index) + (amount + unit)
  BY <1>3, <1>5, <1>6, <1>7
<1> QED
  BY <1>8 DEF scaled, unit, S

\* A payment, of which the principal it retires is rounded down, takes at most
\* itself off the debt.
LEMMA DebtShrinks ==
  ASSUME NEW principal \in Nat, NEW index \in Nat \ {0}, NEW paid \in Nat, NEW scaled \in Nat,
         scaled <= principal, scaled * index <= paid * FIXED_POINT_SCALE
  PROVE  debt_at(principal, index) <= debt_at(principal - scaled, index) + paid
<1> DEFINE S == FIXED_POINT_SCALE
           left == debt_at(principal - scaled, index)
<1>1. S \in Nat \ {0} /\ principal - scaled \in Nat
  BY ScaleAssumption
<1>2. left \in Nat /\ (principal - scaled) * index <= left * S
  BY <1>1, CeilNat DEF debt_at
<1>3. principal * index = (principal - scaled) * index + scaled * index
  OBVIOUS
<1>4. /\ (principal - scaled) * index \in Nat /\ scaled * index \in Nat
      /\ left * S \in Nat /\ paid * S \in Nat
  BY <1>1, <1>2, ProductNat
<1>5. (left + paid) * S = left * S + paid * S
  BY <1>1, <1>2
<1>6. principal * index <= (left + paid) * S
  BY <1>2, <1>3, <1>4, <1>5
<1> HIDE DEF left, S
<1>7. mul_div_ceil(principal, index, S) <= left + paid
  BY <1>1, <1>2, <1>6, CeilAtMost
<1> QED
  BY <1>7 DEF debt_at, left, S

\* A payment within the debt takes off it at least itself, but for one unit of
\* principal: what it retires is rounded down.
LEMMA PaymentTakesOff ==
  ASSUME NEW principal \in Nat, NEW index \in Nat \ {0}, NEW paid \in Nat,
         paid <= debt_at(principal, index)
  PROVE  LET retired == AtMost(mul_div_floor(paid, FIXED_POINT_SCALE, index), principal)
         IN  debt_at(principal - retired, index) + paid
               <= debt_at(principal, index) + mul_div_ceil(1, index, FIXED_POINT_SCALE)
<1> DEFINE S == FIXED_POINT_SCALE
           q == mul_div_floor(paid, S, index)
           owed == debt_at(principal, index)
           unit == mul_div_ceil(1, index, S)
<1>1. S \in Nat \ {0}
  BY ScaleAssumption
<1>2. /\ q \in Nat /\ paid * S < q * index + index
      /\ owed \in Nat /\ principal * index <= owed * S
      /\ unit \in Nat /\ 1 * index <= unit * S
  BY <1>1, FloorNat, CeilNat DEF debt_at
<1>3. CASE principal <= q
  <2>1. AtMost(q, principal) = principal
    <3> HIDE DEF q
    <3> QED
      BY <1>2, <1>3 DEF AtMost
  <2>2. debt_at(principal - principal, index) = 0
    <3>1. principal - principal = 0
      OBVIOUS
    <3> QED
      BY <1>1, <3>1, NothingScaled DEF debt_at
  <2> HIDE DEF q, owed, unit
  <2>3. 0 + paid <= owed + unit
    BY <1>2 DEF owed
  <2> QED
    BY <2>1, <2>2, <2>3 DEF q, owed, unit
<1>4. CASE q < principal
  <2> DEFINE left == principal - q
             room == owed + unit - paid
  <2>1. AtMost(q, principal) = q
    BY <1>2, <1>4 DEF AtMost
  <2>2. left \in Nat /\ left + q = principal
    BY <1>2, <1>4
  <2>3. room \in Nat /\ room + paid = owed + unit
    BY <1>2
  <2> HIDE DEF S, q, owed, unit, left, room
  <2>4. left * index + q * index = principal * index
    BY <1>2, <2>2
  <2>5. room * S + paid * S = owed * S + unit * S
    <3>1. (room + paid) * S = (owed + unit) * S
      BY <2>3
    <3> QED
      BY <1>1, <1>2, <2>3, <3>1, Distributes
  <2>6. /\ left * index \in Nat /\ q * index \in Nat /\ principal * index \in Nat
        /\ room * S \in Nat /\ paid * S \in Nat /\ owed * S \in Nat /\ unit * S \in Nat
    BY <1>1, <1>2, <2>2, <2>3, ProductNat
  <2>7. left * index <= room * S
    BY <1>2, <2>4, <2>5, <2>6
  <2>8. debt_at(left, index) <= room
    BY <1>1, <2>2, <2>3, <2>7, CeilAtMost DEF debt_at, S
  <2>9. debt_at(left, index) \in Nat
    BY <2>2, DebtNat
  <2>10. debt_at(left, index) + paid <= owed + unit
    BY <1>2, <2>3, <2>8, <2>9
  <2> QED
    BY <2>1, <2>10 DEF left, q, owed, unit, S
<1> QED
  BY <1>2, <1>3, <1>4

\* The protocol's cut of an interest charge is no more than the charge.
LEMMA AccrueKeepsTotal ==
  ASSUME NEW rsv \in ReserveType, NEW cfg, ValidConfig(cfg), NEW slot \in Nat
  PROVE  total_liquidity(rsv) <= total_liquidity(accrue_interest(rsv, cfg, slot))
<1> DEFINE rsv2 == accrue_interest(rsv, cfg, slot)
           before == current_borrowed_amount(rsv)
           after == current_borrowed_amount(rsv2)
<1>1. /\ rsv2 \in ReserveType
      /\ rsv2.borrow_index >= rsv.borrow_index
      /\ rsv2.available_liquidity = rsv.available_liquidity
      /\ rsv2.borrowed_principal = rsv.borrowed_principal
  BY AccrueTyped
<1>2. /\ rsv.available_liquidity \in Nat /\ rsv.borrowed_principal \in Nat
      /\ rsv.borrow_index \in Nat /\ rsv.accrued_fees \in Nat
      /\ rsv2.borrow_index \in Nat
  BY <1>1 DEF ReserveType
<1>3. before \in Nat /\ after \in Nat
  BY <1>1, UtilizationNat
<1>4. before <= after
  BY <1>1, <1>2, DebtMonotone DEF current_borrowed_amount
<1>5. rsv2.accrued_fees \in Nat /\ rsv2.accrued_fees - rsv.accrued_fees <= after - before
  <2>1. CASE ~ OwesInterest(rsv, slot)
    <3>1. rsv2.accrued_fees = rsv.accrued_fees
      BY <2>1 DEF accrue_interest, ReserveType
    <3> HIDE DEF rsv2, before, after
    <3> QED
      BY <3>1, <1>2, <1>3, <1>4
  <2>2. CASE OwesInterest(rsv, slot)
    <3> DEFINE fee == interest_fee(before, after, cfg)
    <3>1. rsv2.accrued_fees = rsv.accrued_fees + fee
      <4> DEFINE index == grown_index(rsv, cfg, slot)
                 charge == interest_fee(before, debt_at(rsv.borrowed_principal, index), cfg)
      <4>1. rsv2 = [rsv EXCEPT !.borrow_index = index, !.accrued_fees = @ + charge,
                               !.last_update_slot = slot]
        BY <2>2 DEF accrue_interest
      <4> HIDE DEF index, charge, before
      <4>2. rsv2.borrow_index = index /\ rsv2.accrued_fees = rsv.accrued_fees + charge
        BY <4>1 DEF ReserveType
      <4>3. after = debt_at(rsv.borrowed_principal, index)
        BY <1>1, <4>2 DEF current_borrowed_amount
      <4> QED
        BY <4>2, <4>3 DEF charge
    <3>2. /\ cfg.reserve_factor_bps \in Nat /\ BPS_DENOMINATOR \in Nat \ {0}
          /\ cfg.reserve_factor_bps <= BPS_DENOMINATOR
      BY ScaleAssumption DEF ValidConfig, ReserveConfigType
    <3>3. saturating_sub(after, before) = after - before /\ after - before \in Nat
      BY <1>3, <1>4 DEF saturating_sub
    <3> HIDE DEF rsv2, before, after
    <3>4. fee \in Nat /\ fee <= after - before
      BY <3>2, <3>3, FloorNat, FloorShrinks DEF interest_fee
    <3> QED
      BY <3>1, <3>4, <1>2, <1>3
  <2> QED
    BY <2>1, <2>2
<1>6. /\ total_liquidity(rsv) = (rsv.available_liquidity + before) - rsv.accrued_fees
      /\ total_liquidity(rsv2) = (rsv.available_liquidity + after) - rsv2.accrued_fees
  <2> HIDE DEF rsv2
  <2> QED
    BY <1>1 DEF total_liquidity, gross_liquidity
<1> HIDE DEF rsv2, before, after
<1>7. total_liquidity(rsv) <= total_liquidity(rsv2)
  BY <1>2, <1>3, <1>4, <1>5, <1>6
<1> QED
  BY <1>7 DEF rsv2

-------------------------------------------------------------------------------
\* A seizure.

\* The shares seized for a payment, valued back at the share rate and the prices,
\* are within the payment and its bonus: each of the four roundings goes down.
LEMMA SeizureWorth ==
  ASSUME NEW paid \in Nat, NEW priceD \in Nat, NEW unitD \in Nat \ {0}, NEW bonus \in Nat,
         NEW priceC \in Nat \ {0}, NEW unitC \in Nat \ {0},
         NEW supply \in Nat \ {0}, NEW total \in Nat,
         NEW rsv, rsv.share_mint_supply = supply, total_liquidity(rsv) = total,
         NEW cfg, cfg.liquidation_bonus_bps = bonus
  PROVE  LET seized == seize_shares_for(market_value_floor(paid, unitD, priceD),
                                        rsv, cfg, unitC, priceC)
         IN  seized * total * priceC * unitD * BPS_DENOMINATOR
               <= paid * priceD * (BPS_DENOMINATOR + bonus) * supply * unitC
<1> DEFINE B == BPS_DENOMINATOR
           v == mul_div_floor(paid, priceD, unitD)
           extra == mul_div_floor(v, bonus, B)
           a == mul_div_floor(v + extra, unitC, priceC)
           base == AtLeast(total, 1)
           s == mul_div_floor(a, supply, base)
<1>1. B \in Nat \ {0}
  BY ScaleAssumption
<1>2. base \in Nat \ {0} /\ total <= base
  BY DEF AtLeast
<1>3. seize_shares_for(market_value_floor(paid, unitD, priceD), rsv, cfg, unitC, priceC) = s
  <2>1. seize_shares_for(v, rsv, cfg, unitC, priceC) = liquidity_to_shares(rsv, a)
    BY DEF seize_shares_for, seize_liquidity, value_to_amount
  <2>2. liquidity_to_shares(rsv, a) = s
    <3> HIDE DEF a
    <3> QED
      BY DEF liquidity_to_shares
  <2>3. market_value_floor(paid, unitD, priceD) = v
    BY DEF market_value_floor
  <2> HIDE DEF a, s, v
  <2> QED
    BY <2>1, <2>2, <2>3
<1> HIDE DEF B, base
<1>4. v \in Nat /\ v * unitD <= paid * priceD
  BY FloorNat
<1> HIDE DEF v
<1>5. extra \in Nat /\ extra * B <= v * bonus
  BY <1>1, <1>4, FloorNat
<1> HIDE DEF extra
<1>6. a \in Nat /\ a * priceC <= (v + extra) * unitC
  <2>1. v + extra \in Nat /\ unitC \in Nat
    BY <1>4, <1>5
  <2> QED
    BY <2>1, FloorNat
<1> HIDE DEF a
<1>7. s \in Nat /\ s * base <= a * supply
  BY <1>2, <1>6, FloorNat
<1> HIDE DEF s
<1> DEFINE k1 == priceC * unitD * B
           k2 == supply * unitD * B
           k3 == unitC * supply * unitD
           k4 == (B + bonus) * supply * unitC
<1>8. k1 \in Nat /\ k2 \in Nat /\ k3 \in Nat /\ k4 \in Nat
  BY <1>1, ProductNat
<1>9. s * total <= a * supply
  <2>1. s * total <= s * base /\ s * total \in Nat /\ s * base \in Nat /\ a * supply \in Nat
    BY <1>2, <1>6, <1>7, ProductNat
  <2> QED
    BY <1>7, <2>1
<1>10. (v + extra) * B <= v * (B + bonus)
  <2>1. /\ (v + extra) * B = v * B + extra * B
        /\ v * (B + bonus) = v * B + v * bonus
        /\ v * B \in Nat /\ extra * B \in Nat /\ v * bonus \in Nat
    BY <1>1, <1>4, <1>5
  <2> QED
    BY <1>5, <2>1
<1>11. (s * total) * k1 <= (a * supply) * k1
  <2>1. s * total \in Nat /\ a * supply \in Nat
    BY <1>6, <1>7
  <2> HIDE DEF k1
  <2> QED
    BY <1>8, <1>9, <2>1, ProductMonotone
<1>12. (a * priceC) * k2 <= ((v + extra) * unitC) * k2
  <2>1. a * priceC \in Nat /\ (v + extra) * unitC \in Nat
    BY <1>4, <1>5, <1>6
  <2> HIDE DEF k2
  <2> QED
    BY <1>6, <1>8, <2>1, ProductMonotone
<1>13. ((v + extra) * B) * k3 <= (v * (B + bonus)) * k3
  <2>1. (v + extra) * B \in Nat /\ v * (B + bonus) \in Nat
    BY <1>1, <1>4, <1>5
  <2> HIDE DEF k3
  <2> QED
    BY <1>8, <1>10, <2>1, ProductMonotone
<1>14. (v * unitD) * k4 <= (paid * priceD) * k4
  <2>1. v * unitD \in Nat /\ paid * priceD \in Nat
    BY <1>4
  <2> HIDE DEF k4
  <2> QED
    BY <1>4, <1>8, <2>1, ProductMonotone
<1> DEFINE x1 == (s * total) * k1
           x2 == (a * supply) * k1
           x3 == ((v + extra) * unitC) * k2
           x4 == (v * (B + bonus)) * k3
           x5 == (paid * priceD) * k4
<1>15. x1 \in Nat /\ x2 \in Nat /\ x3 \in Nat /\ x4 \in Nat /\ x5 \in Nat
  <2> HIDE DEF k1, k2, k3, k4
  <2>1. /\ s * total \in Nat /\ a * supply \in Nat /\ (v + extra) * unitC \in Nat
        /\ v * (B + bonus) \in Nat /\ paid * priceD \in Nat
    BY <1>1, <1>4, <1>5, <1>6, <1>7
  <2> QED
    BY <1>8, <2>1, ProductNat
<1>16. /\ x2 = (a * priceC) * k2
       /\ x3 = ((v + extra) * B) * k3
       /\ x4 = (v * unitD) * k4
  BY <1>1, <1>4, <1>5, <1>6
<1>17. /\ s * total * priceC * unitD * B = x1
       /\ paid * priceD * (B + bonus) * supply * unitC = x5
  BY <1>1, <1>7
<1>18. x1 <= x2 /\ x2 <= x3 /\ x3 <= x4 /\ x4 <= x5
  BY <1>11, <1>12, <1>13, <1>14, <1>16
<1> HIDE DEF x1, x2, x3, x4, x5
<1>19. x1 <= x5
  BY <1>15, <1>18
<1> QED
  BY <1>3, <1>17, <1>19 DEF B

\* The shares seized for a value, valued back with every step rounded up, are within
\* it: both roundings of the seizure went down.
LEMMA SeizedWithinValue ==
  ASSUME NEW value \in Nat, NEW price \in Nat \ {0}, NEW unit \in Nat \ {0},
         NEW rsv \in ReserveType, rsv.share_mint_supply > 0, TotalDefined(rsv)
  PROVE  LET shares == liquidity_to_shares(rsv, value_to_amount(value, unit, price))
             worth == market_value_ceil(shares_to_liquidity_ceil(rsv, shares), unit, price)
         IN  shares \in Nat /\ worth \in Nat /\ worth <= value
<1> DEFINE total == total_liquidity(rsv)
           base == AtLeast(total, 1)
           supply == rsv.share_mint_supply
           amount == mul_div_floor(value, unit, price)
           shares == mul_div_floor(amount, supply, base)
           liquidity == mul_div_ceil(shares, total, supply)
           worth == mul_div_ceil(liquidity, price, unit)
<1>1. supply \in Nat \ {0} /\ AtLeast(supply, 1) = supply
  BY DEF ReserveType, AtLeast
<1>2. total \in Nat
  BY UtilizationNat DEF TotalDefined, total_liquidity, ReserveType
<1>3. base \in Nat \ {0} /\ total <= base
  BY <1>2 DEF AtLeast
<1>4. liquidity_to_shares(rsv, value_to_amount(value, unit, price)) = shares
  BY <1>1 DEF liquidity_to_shares, value_to_amount
<1>5. market_value_ceil(shares_to_liquidity_ceil(rsv, shares), unit, price) = worth
  BY <1>1 DEF market_value_ceil, shares_to_liquidity_ceil
<1> HIDE DEF total, base, supply
<1>6. amount \in Nat /\ amount * price <= value * unit
  BY FloorNat
<1> HIDE DEF amount
<1>7. shares \in Nat /\ shares * base <= amount * supply
  BY <1>1, <1>3, <1>6, FloorNat
<1> HIDE DEF shares
<1>8. shares * total <= amount * supply
  <2>1. /\ total * shares <= base * shares
        /\ shares * total = total * shares /\ shares * base = base * shares
        /\ total * shares \in Nat /\ base * shares \in Nat /\ amount * supply \in Nat
    BY <1>1, <1>2, <1>3, <1>6, <1>7, ProductMonotone, ProductNat
  <2> QED
    BY <1>7, <2>1
<1>9. liquidity \in Nat /\ liquidity <= amount
  BY <1>1, <1>2, <1>6, <1>7, <1>8, CeilNat, CeilAtMost
<1> HIDE DEF liquidity
<1>10. liquidity * price <= value * unit
  <2>1. /\ liquidity * price <= amount * price
        /\ liquidity * price \in Nat /\ amount * price \in Nat /\ value * unit \in Nat
    BY <1>6, <1>9, ProductMonotone, ProductNat
  <2> QED
    BY <1>6, <2>1
<1>11. worth \in Nat /\ worth <= value
  BY <1>9, <1>10, CeilNat, CeilAtMost
<1> QED
  BY <1>4, <1>5, <1>7, <1>11

\* Where haircut, threshold and bonus together are within 100%, what a payment and its
\* bonus are worth weighs at most one more than the payment in the liquidation limit.
LEMMA ThresholdWithinPayment ==
  ASSUME NEW repaid \in Nat, NEW bonus \in Nat, NEW kept \in Nat, NEW threshold \in Nat,
         threshold <= BPS_DENOMINATOR,
         kept * threshold * (BPS_DENOMINATOR + bonus)
           <= BPS_DENOMINATOR * BPS_DENOMINATOR * BPS_DENOMINATOR,
         NEW worth \in Nat, worth <= repaid + mul_div_floor(repaid, bonus, BPS_DENOMINATOR)
  PROVE  mul_div_ceil(mul_div_ceil(worth, kept, BPS_DENOMINATOR), threshold, BPS_DENOMINATOR)
           <= repaid + 1
<1> DEFINE B == BPS_DENOMINATOR
           extra == mul_div_floor(repaid, bonus, B)
           effective == mul_div_ceil(worth, kept, B)
           paidOut == repaid * (B + bonus)
<1>1. B \in Nat \ {0}
  BY ScaleAssumption
<1>2. extra \in Nat /\ extra * B <= repaid * bonus
  BY <1>1, FloorNat
<1>3. effective \in Nat /\ effective * B < worth * kept + B
  BY <1>1, CeilNat
<1>4. worth <= repaid + extra /\ threshold <= B /\ kept * threshold * (B + bonus) <= B * B * B
  OBVIOUS
<1> HIDE DEF B, extra, effective
<1>5. worth * B <= paidOut
  <2>1. worth * B <= (repaid + extra) * B
    BY <1>1, <1>2, <1>4, ProductMonotone
  <2>2. /\ (repaid + extra) * B = repaid * B + extra * B
        /\ paidOut = repaid * B + repaid * bonus
        /\ worth * B \in Nat /\ repaid * B \in Nat /\ extra * B \in Nat /\ repaid * bonus \in Nat
    BY <1>1, <1>2
  <2> HIDE DEF paidOut
  <2> QED
    BY <1>2, <2>1, <2>2
<1>6. paidOut \in Nat
  BY <1>1
<1> DEFINE weight == kept * threshold
           cube == B * B * B
<1>7. weight \in Nat /\ cube \in Nat /\ weight * (B + bonus) <= cube
  BY <1>1, <1>4
<1>8. (effective * B) * (B * threshold) <= (worth * kept) * (B * threshold) + B * (B * threshold)
  <2>1. effective * B <= worth * kept + B
    BY <1>1, <1>3
  <2>2. effective * B \in Nat /\ worth * kept \in Nat /\ B * threshold \in Nat
    BY <1>1, <1>3
  <2> DEFINE z == B * threshold
             x == effective * B
             y == worth * kept
  <2> HIDE DEF z, x, y
  <2>3. x * z <= (y + B) * z
    BY <1>1, <2>1, <2>2, ProductMonotone DEF x, y, z
  <2>4. (y + B) * z = y * z + B * z
    BY <1>1, <2>2 DEF y, z
  <2> QED
    BY <2>3, <2>4 DEF x, y, z
<1>9. (worth * kept) * (B * threshold) <= repaid * cube
  <2>1. (worth * kept) * (B * threshold) = (worth * B) * weight
    BY <1>1
  <2>2. (worth * B) * weight <= paidOut * weight
    <3>1. worth * B \in Nat
      BY <1>1
    <3> HIDE DEF weight, paidOut
    <3> QED
      BY <1>5, <1>6, <1>7, <3>1, ProductMonotone
  <2>3. paidOut * weight = (weight * (B + bonus)) * repaid
    BY <1>1
  <2>4. (weight * (B + bonus)) * repaid <= cube * repaid
    <3>1. weight * (B + bonus) \in Nat
      BY <1>1
    <3> HIDE DEF weight, cube
    <3> QED
      BY <1>7, <3>1, ProductMonotone
  <2>5. /\ (worth * B) * weight \in Nat /\ paidOut * weight \in Nat
        /\ cube * repaid \in Nat /\ cube * repaid = repaid * cube
    BY <1>1, <1>6, <1>7
  <2> QED
    BY <2>1, <2>2, <2>3, <2>4, <2>5
<1>10. B * (B * threshold) <= cube
  <2>1. threshold * (B * B) <= B * (B * B)
    BY <1>1, <1>4, ProductMonotone, ProductNat
  <2>2. B * (B * threshold) = threshold * (B * B) /\ cube = B * (B * B)
    BY <1>1
  <2> QED
    BY <2>1, <2>2
<1>11. effective * threshold <= (repaid + 1) * B
  <2> DEFINE have == effective * threshold
             allowed == (repaid + 1) * B
             square == B * B
  <2>1. /\ (effective * B) * (B * threshold) = have * square
        /\ repaid * cube + cube = allowed * square
    BY <1>1, <1>3
  <2>2. have * square <= allowed * square
    <3>1. /\ (worth * kept) * (B * threshold) \in Nat /\ B * (B * threshold) \in Nat
          /\ repaid * cube \in Nat /\ have * square \in Nat
      BY <1>1, <1>3
    <3> HIDE DEF have, allowed, square, cube
    <3> QED
      BY <1>7, <1>8, <1>9, <1>10, <2>1, <3>1
  <2>3. have \in Nat /\ allowed \in Nat /\ square \in Nat \ {0}
    BY <1>1, <1>3
  <2> HIDE DEF have, allowed, square
  <2>4. CASE have > allowed
    <3>1. (allowed + 1) * square <= have * square
      BY <2>3, <2>4, ProductMonotone
    <3>2. (allowed + 1) * square = allowed * square + square
      BY <2>3
    <3>3. have * square \in Nat /\ allowed * square \in Nat
      BY <2>3
    <3> QED
      BY <2>2, <2>3, <3>1, <3>2, <3>3
  <2> QED
    BY <2>3, <2>4 DEF have, allowed
<1>12. mul_div_ceil(effective, threshold, B) <= repaid + 1
  <2>1. repaid + 1 \in Nat
    OBVIOUS
  <2> QED
    BY <1>1, <1>3, <1>11, <2>1, CeilAtMost
<1> QED
  BY <1>12 DEF B, effective

-------------------------------------------------------------------------------
\* Totals.

\* s is the accumulator of f over n entries.
Accumulates(s, f, n) ==
  s = [i \in 0..n |-> IF i = 0 THEN 0 ELSE s[i - 1] + f[i]]

\* Every nonempty set of naturals has a least element.
LEMMA LeastNatural ==
  ASSUME NEW T, T \subseteq Nat, T # {}
  PROVE  \E m \in T : \A k \in T : m <= k
<1>1. IsWellFoundedOn(OpToRel(<, Nat), Nat)
  BY NatLessThanWellFounded
<1>2. PICK m \in T : \A k \in T : ~ (<<k, m>> \in OpToRel(<, Nat))
  BY <1>1, WFMin
<1>3. \A k \in T : ~ (k < m)
  BY <1>2 DEF OpToRel
<1>4. QED
  BY <1>3

\* An accumulator exists for every family, and holds integers.
LEMMA AccumulatorExists ==
  ASSUME NEW N \in Nat, NEW f \in [1..N -> Int]
  PROVE  \A n \in 0..N : \E s \in [0..n -> Int] : Accumulates(s, f, n)
<1> DEFINE Has(n) == \E s \in [0..n -> Int] : Accumulates(s, f, n)
           Bad == {n \in 0..N : ~ Has(n)}
<1>1. SUFFICES Bad = {}
  OBVIOUS
<1>2. SUFFICES ASSUME Bad # {} PROVE FALSE
  OBVIOUS
<1>3. PICK m \in Bad : \A k \in Bad : m <= k
  <2>1. Bad \subseteq Nat
    OBVIOUS
  <2>2. QED
    BY <1>2, <2>1, LeastNatural
<1>4. Has(0)
  <2>1. Accumulates([i \in 0..0 |-> 0], f, 0)
    BY DEF Accumulates
  <2>2. [i \in 0..0 |-> 0] \in [0..0 -> Int]
    OBVIOUS
  <2>3. QED
    BY <2>1, <2>2
<1> HIDE DEF Has
<1>5. m \in 1..N /\ Has(m - 1)
  <2>1. m \in 0..N /\ ~ Has(m)
    BY <1>3
  <2>2. m # 0
    BY <1>4, <2>1
  <2>3. m - 1 \in 0..N /\ m - 1 \notin Bad
    BY <1>3, <2>1, <2>2
  <2>4. QED
    BY <2>1, <2>2, <2>3
<1> USE DEF Has
<1>6. PICK s \in [0..(m - 1) -> Int] : Accumulates(s, f, m - 1)
  BY <1>5
<1> DEFINE t == [i \in 0..m |-> IF i = m THEN s[m - 1] + f[m] ELSE s[i]]
<1>7. t \in [0..m -> Int]
  BY <1>5
<1>8. \A i \in 0..(m - 1) : s[i] = IF i = 0 THEN 0 ELSE s[i - 1] + f[i]
  BY <1>6, Zenon DEF Accumulates
<1>9. \A i \in 0..m : t[i] = IF i = 0 THEN 0 ELSE t[i - 1] + f[i]
  <2>1. TAKE i \in 0..m
  <2>2. CASE i = m
    <3>1. t[i] = s[m - 1] + f[m] /\ i # 0
      BY <1>5, <2>2
    <3>2. t[i - 1] = s[m - 1]
      BY <1>5, <2>2
    <3>3. QED
      BY <2>2, <3>1, <3>2
  <2>3. CASE i # m
    <3>1. t[i] = s[i] /\ i \in 0..(m - 1)
      BY <1>5, <2>3
    <3>2. i # 0 => t[i - 1] = s[i - 1]
      BY <1>5, <2>3
    <3>3. QED
      BY <1>8, <3>1, <3>2
  <2>4. QED
    BY <2>2, <2>3
<1>10. Accumulates(t, f, m)
  BY <1>7, <1>9 DEF Accumulates
<1>11. Has(m)
  BY <1>7, <1>10
<1>12. QED
  BY <1>3, <1>11

\* Two accumulators of the same family agree everywhere.
LEMMA AccumulatorUnique ==
  ASSUME NEW n \in Nat, NEW f, NEW s, NEW t,
         Accumulates(s, f, n), Accumulates(t, f, n)
  PROVE  s = t
<1> DEFINE Bad == {i \in 0..n : s[i] # t[i]}
<1>1. \A i \in 0..n : s[i] = IF i = 0 THEN 0 ELSE s[i - 1] + f[i]
  BY Zenon DEF Accumulates
<1>2. \A i \in 0..n : t[i] = IF i = 0 THEN 0 ELSE t[i - 1] + f[i]
  BY Zenon DEF Accumulates
<1>3. Bad = {}
  <2>1. SUFFICES ASSUME Bad # {} PROVE FALSE
    OBVIOUS
  <2>2. PICK m \in Bad : \A k \in Bad : m <= k
    <3>1. Bad \subseteq Nat
      OBVIOUS
    <3>2. QED
      BY <2>1, <3>1, LeastNatural
  <2>3. m # 0
    BY <1>1, <1>2, <2>2
  <2>4. m - 1 \in 0..n /\ m - 1 \notin Bad
    BY <2>2, <2>3
  <2>5. s[m] = s[m - 1] + f[m] /\ t[m] = t[m - 1] + f[m]
    BY <1>1, <1>2, <2>2, <2>3
  <2>6. QED
    BY <2>2, <2>4, <2>5
<1>4. \A i \in 0..n : s[i] = t[i]
  BY <1>3
<1>5. QED
  <2>1. s = [i \in 0..n |-> s[i]]
    BY Zenon DEF Accumulates
  <2>2. t = [i \in 0..n |-> t[i]]
    BY Zenon DEF Accumulates
  <2>3. QED
    BY <1>4, <2>1, <2>2

\* PartialSums is the accumulator.
LEMMA PartialSumsAccumulates ==
  ASSUME NEW n \in Nat, NEW f \in [1..n -> Int]
  PROVE  /\ Accumulates(PartialSums(f, n), f, n)
         /\ PartialSums(f, n) \in [0..n -> Int]
         /\ SumTo(f, n) \in Int
<1>1. PICK s \in [0..n -> Int] : Accumulates(s, f, n)
  <2>1. n \in 0..n
    OBVIOUS
  <2>2. QED
    BY <2>1, AccumulatorExists
<1> DEFINE P == CHOOSE t : Accumulates(t, f, n)
<1>2. Accumulates(P, f, n)
  BY <1>1, Zenon
<1>3. PartialSums(f, n) = P
  BY Zenon DEF PartialSums, Accumulates
<1>4. P = s
  BY <1>1, <1>2, AccumulatorUnique
<1>5. PartialSums(f, n) \in [0..n -> Int]
  BY <1>3, <1>4
<1>6. QED
  BY <1>2, <1>3, <1>5 DEF SumTo

\* The running totals, one by one.
LEMMA PartialSumsStep ==
  ASSUME NEW n \in Nat, NEW f \in [1..n -> Int]
  PROVE  \A i \in 0..n :
           PartialSums(f, n)[i] = IF i = 0 THEN 0 ELSE PartialSums(f, n)[i - 1] + f[i]
<1> DEFINE s == PartialSums(f, n)
<1>1. Accumulates(s, f, n)
  BY PartialSumsAccumulates
<1> HIDE DEF s
<1>2. \A i \in 0..n : s[i] = IF i = 0 THEN 0 ELSE s[i - 1] + f[i]
  BY <1>1, Zenon DEF Accumulates
<1>3. QED
  BY <1>2 DEF s

\* Whatever accumulates f has the total of f as its last value.
LEMMA SumIs ==
  ASSUME NEW n \in Nat, NEW f \in [1..n -> Int], NEW s, Accumulates(s, f, n)
  PROVE  SumTo(f, n) = s[n]
BY PartialSumsAccumulates, AccumulatorUnique DEF SumTo

\* The total of a family of zeros is zero.
LEMMA SumOfZeros ==
  ASSUME NEW n \in Nat, NEW f \in [1..n -> Int], \A i \in 1..n : f[i] = 0
  PROVE  SumTo(f, n) = 0
<1> DEFINE z == [i \in 0..n |-> 0]
<1>1. Accumulates(z, f, n)
  BY DEF Accumulates
<1>2. QED
  BY <1>1, SumIs

\* Replacing one entry changes the total by the difference.
LEMMA SumUpdate ==
  ASSUME NEW n \in Nat, NEW f \in [1..n -> Int],
         NEW j \in 1..n, NEW v \in Int
  PROVE  SumTo([f EXCEPT ![j] = v], n) = SumTo(f, n) - f[j] + v
<1> DEFINE s == PartialSums(f, n)
           g == [f EXCEPT ![j] = v]
           t == [i \in 0..n |-> IF i < j THEN s[i] ELSE s[i] - f[j] + v]
<1>1. s \in [0..n -> Int]
  BY PartialSumsAccumulates
<1>2. \A i \in 0..n : s[i] = IF i = 0 THEN 0 ELSE s[i - 1] + f[i]
  BY PartialSumsStep
<1>3. \A i \in 0..n : t[i] = IF i = 0 THEN 0 ELSE t[i - 1] + g[i]
  <2> HIDE DEF s
  <2>1. TAKE i \in 0..n
  <2>2. CASE i = 0
    BY <1>1, <1>2, <2>2
  <2>3. CASE i # 0 /\ i < j
    BY <1>1, <1>2, <2>3
  <2>4. CASE i = j
    <3>1. t[i] = s[i] - f[j] + v /\ t[i - 1] = s[i - 1]
      BY <2>4
    <3>2. g[i] = v /\ s[i] = s[i - 1] + f[j]
      BY <1>2, <2>4
    <3>3. f[j] \in Int /\ s[i - 1] \in Int /\ i # 0
      BY <1>1, <2>4
    <3>4. QED
      BY <3>1, <3>2, <3>3
  <2>5. CASE i > j
    <3>1. t[i] = s[i] - f[j] + v /\ t[i - 1] = s[i - 1] - f[j] + v
      BY <2>5
    <3>2. g[i] = f[i] /\ s[i] = s[i - 1] + f[i]
      BY <1>2, <2>5
    <3>3. f[i] \in Int /\ f[j] \in Int /\ s[i - 1] \in Int /\ i # 0
      BY <1>1, <2>5
    <3>4. QED
      BY <3>1, <3>2, <3>3
  <2>6. QED
    BY <2>2, <2>3, <2>4, <2>5
<1>4. Accumulates(t, g, n)
  BY <1>3 DEF Accumulates
<1>5. g \in [1..n -> Int]
  OBVIOUS
<1>6. SumTo(g, n) = t[n]
  BY <1>4, <1>5, SumIs
<1>7. t[n] = s[n] - f[j] + v
  BY <1>1
<1>8. QED
  BY <1>6, <1>7 DEF SumTo

\* A total of naturals is a natural, and no entry exceeds it.
LEMMA SumOfNaturals ==
  ASSUME NEW n \in Nat, NEW f \in [1..n -> Nat]
  PROVE  /\ SumTo(f, n) \in Nat
         /\ \A i \in 1..n : f[i] <= SumTo(f, n)
<1> DEFINE s == PartialSums(f, n)
           Bad == {i \in 0..n : ~ (s[i] >= 0 /\ \A k \in 1..i : f[k] <= s[i])}
<1>0. f \in [1..n -> Int]
  OBVIOUS
<1>1. s \in [0..n -> Int]
  BY <1>0, PartialSumsAccumulates
<1>2. \A i \in 0..n : s[i] = IF i = 0 THEN 0 ELSE s[i - 1] + f[i]
  BY <1>0, PartialSumsStep
<1> HIDE DEF s
<1>3. Bad = {}
  <2>1. SUFFICES ASSUME Bad # {} PROVE FALSE
    OBVIOUS
  <2>2. PICK m \in Bad : \A k \in Bad : m <= k
    <3>1. Bad \subseteq Nat
      OBVIOUS
    <3>2. QED
      BY <2>1, <3>1, LeastNatural
  <2>3. m # 0
    BY <1>2, <2>2
  <2>4. m - 1 \in 0..n /\ m - 1 \notin Bad
    BY <2>2, <2>3
  <2>5. s[m] = s[m - 1] + f[m] /\ f[m] \in Nat
    BY <1>2, <2>2, <2>3
  <2>6. s[m - 1] >= 0 /\ \A k \in 1..(m - 1) : f[k] <= s[m - 1]
    BY <2>4
  <2>7. s[m - 1] \in Int /\ s[m] \in Int
    BY <1>1, <2>2, <2>4
  <2>8. s[m] >= 0
    BY <2>5, <2>6, <2>7
  <2>9. \A k \in 1..m : f[k] <= s[m]
    <3>1. TAKE k \in 1..m
    <3>2. CASE k = m
      BY <2>5, <2>6, <2>7, <3>2
    <3>3. CASE k # m
      <4>1. k \in 1..(m - 1) /\ f[k] \in Nat
        BY <2>2, <3>3
      <4>2. f[k] <= s[m - 1]
        BY <2>6, <4>1
      <4>3. QED
        BY <2>5, <2>7, <4>1, <4>2
    <3>4. QED
      BY <3>2, <3>3
  <2>10. QED
    BY <2>2, <2>8, <2>9
<1>4. n \in 0..n /\ n \notin Bad /\ SumTo(f, n) = s[n]
  BY <1>3 DEF SumTo, s
<1>5. s[n] \in Int /\ s[n] >= 0 /\ \A k \in 1..n : f[k] <= s[n]
  BY <1>1, <1>4
<1> HIDE DEF Bad
<1>6. QED
  BY <1>4, <1>5

LEMMA Distribute ==
  ASSUME NEW a \in Int, NEW x \in Int, NEW y \in Int
  PROVE  a * (x + y) = a * x + a * y /\ a * x \in Int /\ a * y \in Int
OBVIOUS

\* What holds entry by entry of the multiples of two families holds of their totals.
LEMMA SumsCompared ==
  ASSUME NEW n \in Nat, NEW f \in [1..n -> Int], NEW g \in [1..n -> Int],
         NEW b \in Nat, NEW c \in Nat,
         \A i \in 1..n : b * f[i] <= c * g[i]
  PROVE  b * SumTo(f, n) <= c * SumTo(g, n)
<1> DEFINE s == PartialSums(f, n)
           t == PartialSums(g, n)
           Bad == {i \in 0..n : ~ (b * s[i] <= c * t[i])}
<1>1. s \in [0..n -> Int] /\ t \in [0..n -> Int]
  BY PartialSumsAccumulates
<1>2. \A i \in 0..n : s[i] = IF i = 0 THEN 0 ELSE s[i - 1] + f[i]
  BY PartialSumsStep
<1>3. \A i \in 0..n : t[i] = IF i = 0 THEN 0 ELSE t[i - 1] + g[i]
  BY PartialSumsStep
<1> HIDE DEF s, t
<1>4. Bad = {}
  <2>1. SUFFICES ASSUME Bad # {} PROVE FALSE
    OBVIOUS
  <2>2. PICK m \in Bad : \A k \in Bad : m <= k
    <3>1. Bad \subseteq Nat
      OBVIOUS
    <3>2. QED
      BY <2>1, <3>1, LeastNatural
  <2>3. m # 0
    BY <1>2, <1>3, <2>2
  <2>4. m - 1 \in 0..n /\ m - 1 \notin Bad
    BY <2>2, <2>3
  <2>5. s[m] = s[m - 1] + f[m] /\ t[m] = t[m - 1] + g[m]
    BY <1>2, <1>3, <2>2, <2>3
  <2>6. b * s[m - 1] <= c * t[m - 1] /\ b * f[m] <= c * g[m]
    BY <2>2, <2>3, <2>4
  <2>7. s[m - 1] \in Int /\ t[m - 1] \in Int /\ f[m] \in Int /\ g[m] \in Int
    BY <1>1, <2>2, <2>3, <2>4
  <2>8. /\ b * (s[m - 1] + f[m]) = b * s[m - 1] + b * f[m]
        /\ b * s[m - 1] \in Int /\ b * f[m] \in Int
    <3>1. b \in Int
      OBVIOUS
    <3>2. QED
      BY <2>7, <3>1, Distribute, Zenon
  <2>9. /\ c * (t[m - 1] + g[m]) = c * t[m - 1] + c * g[m]
        /\ c * t[m - 1] \in Int /\ c * g[m] \in Int
    <3>1. c \in Int
      OBVIOUS
    <3>2. QED
      BY <2>7, <3>1, Distribute, Zenon
  <2>10. b * s[m] <= c * t[m]
    <3> DEFINE u == b * s[m - 1]
               v == b * f[m]
               x == c * t[m - 1]
               y == c * g[m]
    <3>1. b * s[m] = u + v /\ c * t[m] = x + y
      BY <2>5, <2>8, <2>9
    <3>2. u \in Int /\ v \in Int /\ x \in Int /\ y \in Int /\ u <= x /\ v <= y
      BY <2>6, <2>8, <2>9
    <3> HIDE DEF u, v, x, y
    <3>3. u + v <= x + y
      BY <3>2
    <3>4. QED
      BY <3>1, <3>3
  <2>11. QED
    BY <2>2, <2>10
<1>5. b * s[n] <= c * t[n]
  <2>1. n \in 0..n
    OBVIOUS
  <2>2. QED
    BY <1>4, <2>1
<1>6. QED
  BY <1>5 DEF SumTo, s, t

LEMMA SumAtMost ==
  ASSUME NEW n \in Nat, NEW f \in [1..n -> Nat], NEW g \in [1..n -> Nat], NEW c \in Nat,
         \A i \in 1..n : f[i] <= c * g[i]
  PROVE  SumTo(f, n) <= c * SumTo(g, n)
<1>1. \A i \in 1..n : 1 * f[i] <= c * g[i]
  OBVIOUS
<1>2. 1 * SumTo(f, n) <= c * SumTo(g, n)
  <2>1. f \in [1..n -> Int] /\ g \in [1..n -> Int]
    OBVIOUS
  <2>2. QED
    BY <1>1, <2>1, SumsCompared
<1>3. SumTo(f, n) \in Nat
  BY SumOfNaturals
<1>4. QED
  BY <1>2, <1>3

LEMMA SumAtLeast ==
  ASSUME NEW n \in Nat, NEW f \in [1..n -> Nat], NEW g \in [1..n -> Nat],
         \A i \in 1..n : g[i] <= f[i]
  PROVE  SumTo(g, n) <= SumTo(f, n)
<1>1. \A i \in 1..n : g[i] <= 1 * f[i]
  OBVIOUS
<1>2. SumTo(g, n) <= 1 * SumTo(f, n)
  BY <1>1, SumAtMost
<1>3. SumTo(f, n) \in Nat
  BY SumOfNaturals
<1>4. QED
  BY <1>2, <1>3

LEMMA SumsOrdered ==
  ASSUME NEW n \in Nat, NEW f \in [1..n -> Int], NEW g \in [1..n -> Int],
         \A i \in 1..n : f[i] <= g[i]
  PROVE  SumTo(f, n) <= SumTo(g, n)
<1>1. \A i \in 1..n : 1 * f[i] <= 1 * g[i]
  OBVIOUS
<1>2. 1 * SumTo(f, n) <= 1 * SumTo(g, n)
  BY <1>1, SumsCompared
<1>3. SumTo(f, n) \in Int /\ SumTo(g, n) \in Int
  BY PartialSumsAccumulates
<1>4. QED
  BY <1>2, <1>3

===============================================================================

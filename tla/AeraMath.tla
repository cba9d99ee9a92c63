------------------------------- MODULE AeraMath -------------------------------
(***************************************************************************)
(* The integer money arithmetic of Aera: programs/aera/src/math.rs and the *)
(* pure functions of programs/aera/src/risk.rs that every handler goes     *)
(* through.  All quantities are naturals; the two scales are constants so  *)
(* that a small instance can use small ones.                               *)
(*                                                                         *)
(* The code refuses (Err) a division by zero and a result that does not    *)
(* fit u64.  The first never happens in these modules: every divisor is a  *)
(* positive constant, an index or a max(1).  The second is FitsU64, which  *)
(* the handlers state as a guard.                                          *)
(***************************************************************************)
EXTENDS Integers

CONSTANTS
  FIXED_POINT_SCALE,   \* 10^18 in the code: the scale of prices and indices
  BPS_DENOMINATOR,     \* 10000 in the code: the scale of every ratio
  U64_MAX              \* the largest token amount, 2^64 - 1 in the code

ASSUME ScaleAssumption ==
  /\ FIXED_POINT_SCALE \in Nat \ {0}
  /\ BPS_DENOMINATOR \in Nat \ {0}
  /\ U64_MAX \in Nat

\* u64::try_from, which narrows a conversion's result, and the checked u64 additions
\* of the handlers: an amount that does not fit fails the whole instruction.
FitsU64(n) == n <= U64_MAX

mul_div_floor(a, b, d) == (a * b) \div d

mul_div_ceil(a, b, d) == (a * b + (d - 1)) \div d

\* The smaller and the larger of two amounts (u64::min, u64::max).
AtMost(a, b) == IF a <= b THEN a ELSE b
AtLeast(a, b) == IF a >= b THEN a ELSE b

\* A faulty variant: an unchecked subtraction.
wrapping_sub(a, b) == a - b
saturating_sub(a, b) == IF a >= b THEN a - b ELSE 0

\* Value of an amount at a price; unit is 10^decimals of the token.
market_value_floor(amount, unit, price) == mul_div_floor(amount, price, unit)
market_value_ceil(amount, unit, price)  == mul_div_ceil(amount, price, unit)

\* How many base units are worth a value, rounded down.
value_to_amount(value, unit, price) == mul_div_floor(value, unit, price)

\* Movement of a price against the previous one, in basis points.
abs_diff(a, b) == IF a >= b THEN a - b ELSE b - a

move_bps(previous, next) ==
  IF previous = 0 THEN 0
  ELSE mul_div_floor(abs_diff(previous, next), BPS_DENOMINATOR, previous)

\* The reserve's own risk margin, taken off the face value.
apply_haircut(value, haircut_bps) ==
  mul_div_floor(value, BPS_DENOMINATOR - haircut_bps, BPS_DENOMINATOR)

\* A faulty variant: the protocol's share is not clamped to the bonus.
seized_shares_unclamped(seize_shares, total_bonus_bps, protocol_share_bps) ==
  mul_div_floor(seize_shares, protocol_share_bps, BPS_DENOMINATOR + total_bonus_bps)

\* A seizure split between the protocol and the liquidator: the protocol has its
\* share of the bonus, clamped to the bonus and floored, the liquidator the rest.
protocol_seized_shares(seize_shares, total_bonus_bps, protocol_share_bps) ==
  mul_div_floor(seize_shares, AtMost(protocol_share_bps, total_bonus_bps),
                BPS_DENOMINATOR + total_bonus_bps)

\* A faulty variant: the protocol's share paid on top of the seizure.
split_on_top(seize_shares, total_bonus_bps, protocol_share_bps) ==
  [protocol |-> protocol_seized_shares(seize_shares, total_bonus_bps, protocol_share_bps),
   liquidator |-> seize_shares]

split_seized_shares(seize_shares, total_bonus_bps, protocol_share_bps) ==
  LET protocol == protocol_seized_shares(seize_shares, total_bonus_bps, protocol_share_bps)
  IN [protocol |-> protocol, liquidator |-> seize_shares - protocol]
===============================================================================

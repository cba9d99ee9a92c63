----------------------------- MODULE ReserveMath ------------------------------
(***************************************************************************)
(* The arithmetic of one pool: impl Reserve in                             *)
(* programs/aera/src/state/reserve.rs.                                     *)
(*                                                                         *)
(* A reserve is the record                                                 *)
(*   [available_liquidity, share_mint_supply, borrowed_principal,          *)
(*    borrow_index, last_update_slot, accrued_fees]                        *)
(* and cfg is its ReserveConfig.  Operators here are pure: what a handler  *)
(* refuses is said by TotalDefined and FitsU64 in the handler's guard.     *)
(***************************************************************************)
EXTENDS AeraMath

ReserveType ==
  [available_liquidity : Nat,
   share_mint_supply   : Nat,
   borrowed_principal  : Nat,
   borrow_index        : Nat,
   last_update_slot    : Nat,
   accrued_fees        : Nat]

ReserveConfigType ==
  [loan_to_value_bps : Nat, liquidation_threshold_bps : Nat,
   liquidation_bonus_bps : Nat, close_factor_bps : Nat,
   collateral_haircut_bps : Nat,
   optimal_utilization_bps : Nat, min_borrow_rate_bps : Nat,
   optimal_borrow_rate_bps : Nat, max_borrow_rate_bps : Nat,
   reserve_factor_bps : Nat, origination_fee_bps : Nat,
   supply_cap : Nat, borrow_cap : Nat, per_wallet_supply_cap : Nat,
   borrow_enabled : BOOLEAN, collateral_enabled : BOOLEAN, isolated : BOOLEAN,
   slots_per_year : Nat]

\* What ReserveConfig::validate requires, as far as the model reads it.  The
\* hard limits (75% LTV, 30% reserve factor, 0.5% origination fee, a haircut of
\* 1%) are numbers of the launch and stand here as "below 100%" and "above 0".
ValidConfig(cfg) ==
  /\ cfg \in ReserveConfigType
  /\ cfg.liquidation_threshold_bps <= BPS_DENOMINATOR
  /\ cfg.loan_to_value_bps <= cfg.liquidation_threshold_bps
  /\ cfg.liquidation_bonus_bps <= BPS_DENOMINATOR
  /\ cfg.close_factor_bps \in 1..BPS_DENOMINATOR
  /\ cfg.collateral_haircut_bps <= BPS_DENOMINATOR
  /\ cfg.collateral_enabled => cfg.collateral_haircut_bps > 0
  /\ cfg.reserve_factor_bps <= BPS_DENOMINATOR
  /\ cfg.origination_fee_bps <= BPS_DENOMINATOR
  /\ cfg.optimal_utilization_bps \in 1..(BPS_DENOMINATOR - 1)
  /\ cfg.min_borrow_rate_bps <= cfg.optimal_borrow_rate_bps
  /\ cfg.optimal_borrow_rate_bps <= cfg.max_borrow_rate_bps
  /\ cfg.slots_per_year > 0
  /\ cfg.supply_cap > 0 => cfg.borrow_cap <= cfg.supply_cap

\* A reserve as init_reserve leaves it.
EmptyReserve(slot) ==
  [available_liquidity |-> 0,
   share_mint_supply   |-> 0,
   borrowed_principal  |-> 0,
   borrow_index        |-> FIXED_POINT_SCALE,
   last_update_slot    |-> slot,
   accrued_fees        |-> 0]

\* Live debt of a scaled principal, rounded up (Reserve::current_borrowed_amount
\* and Obligation::debt_at are the same computation).
debt_at(principal, index) == mul_div_ceil(principal, index, FIXED_POINT_SCALE)

current_borrowed_amount(rsv) == debt_at(rsv.borrowed_principal, rsv.borrow_index)

gross_liquidity(rsv) == rsv.available_liquidity + current_borrowed_amount(rsv)

\* What the share token is a claim on: the fees belong to no supplier.
total_liquidity(rsv) == gross_liquidity(rsv) - rsv.accrued_fees

\* total_liquidity() returns Ok: the debt fits u64 and the checked
\* subtraction of the fees does not underflow.
TotalDefined(rsv) ==
  /\ FitsU64(current_borrowed_amount(rsv))
  /\ rsv.accrued_fees <= gross_liquidity(rsv)

utilization_bps(rsv) ==
  IF gross_liquidity(rsv) = 0 THEN 0
  ELSE mul_div_floor(current_borrowed_amount(rsv), BPS_DENOMINATOR, gross_liquidity(rsv))

\* The kinked curve.
borrow_rate_bps(rsv, cfg) ==
  LET u == utilization_bps(rsv)
      kink == cfg.optimal_utilization_bps
  IN IF u <= kink
     THEN cfg.min_borrow_rate_bps
          + mul_div_floor(cfg.optimal_borrow_rate_bps - cfg.min_borrow_rate_bps, u, kink)
     ELSE cfg.optimal_borrow_rate_bps
          + mul_div_floor(cfg.max_borrow_rate_bps - cfg.optimal_borrow_rate_bps,
                          u - kink, BPS_DENOMINATOR - kink)

borrow_rate_per_slot(rsv, cfg) ==
  mul_div_floor(borrow_rate_bps(rsv, cfg), FIXED_POINT_SCALE,
                BPS_DENOMINATOR * cfg.slots_per_year)

\* A faulty variant: the growth without the 1 it is added to.
interest_only_index(rsv, cfg, slot) ==
  mul_div_floor(rsv.borrow_index,
                borrow_rate_per_slot(rsv, cfg) * (slot - rsv.last_update_slot),
                FIXED_POINT_SCALE)

\* One multiply per accrual, whatever the number of slots since the last.
grown_index(rsv, cfg, slot) ==
  mul_div_floor(rsv.borrow_index,
                FIXED_POINT_SCALE
                  + borrow_rate_per_slot(rsv, cfg) * (slot - rsv.last_update_slot),
                FIXED_POINT_SCALE)

\* The protocol's cut of an interest charge.
interest_fee(before, after, cfg) ==
  mul_div_floor(saturating_sub(after, before), cfg.reserve_factor_bps, BPS_DENOMINATOR)

\* Interest is due: some slot has passed and somebody owes.
OwesInterest(rsv, slot) == slot > rsv.last_update_slot /\ rsv.borrowed_principal > 0

accrue_interest(rsv, cfg, slot) ==
  IF OwesInterest(rsv, slot)
  THEN LET index == grown_index(rsv, cfg, slot)
           after == debt_at(rsv.borrowed_principal, index)
       IN [rsv EXCEPT !.borrow_index = index,
                      !.accrued_fees =
                         @ + interest_fee(current_borrowed_amount(rsv), after, cfg),
                      !.last_update_slot = slot]
  ELSE [rsv EXCEPT !.last_update_slot = slot]

\* A faulty variant: a redemption rounded for the supplier.
redeemed_rounded_up(rsv, shares) ==
  mul_div_ceil(shares, total_liquidity(rsv), AtLeast(rsv.share_mint_supply, 1))

shares_to_liquidity_floor(rsv, shares) ==
  mul_div_floor(shares, total_liquidity(rsv), AtLeast(rsv.share_mint_supply, 1))

shares_to_liquidity_ceil(rsv, shares) ==
  mul_div_ceil(shares, total_liquidity(rsv), AtLeast(rsv.share_mint_supply, 1))

\* The first deposit mints one share per unit; later ones pro rata, floored.
liquidity_to_shares(rsv, liquidity) ==
  IF rsv.share_mint_supply = 0 THEN liquidity
  ELSE mul_div_floor(liquidity, rsv.share_mint_supply, AtLeast(total_liquidity(rsv), 1))

\* The liquidity a repayment of the given value is worth in collateral, with the
\* bonus; a u64 on the way to the shares.
seize_liquidity(repay_value, cfg, unit, price) ==
  value_to_amount(
    repay_value + mul_div_floor(repay_value, cfg.liquidation_bonus_bps, BPS_DENOMINATOR),
    unit, price)

\* Shares seized for a repayment of the given value: every step rounds toward the
\* borrower (risk::seize_shares_for).
seize_shares_for(repay_value, rsv, cfg, unit, price) ==
  liquidity_to_shares(rsv, seize_liquidity(repay_value, cfg, unit, price))
===============================================================================

----------------------------- MODULE AeraLending ------------------------------
(***************************************************************************)
(* One Aera market as its instructions change it: the reserves, the        *)
(* obligations, the supply positions, the pause switches, and the token    *)
(* accounts the instructions move tokens between.  One action is one       *)
(* instruction, executed atomically as the runtime does: an instruction    *)
(* that returns an error changes nothing, so it is no step.  A transaction *)
(* is a run of consecutive steps in one slot; since accrue, refresh_oracle *)
(* and refresh_obligation need no signature of the user, any caller may    *)
(* put them between the steps of another.                                  *)
(*                                                                         *)
(* Left out: account validation (has_one, PDA seeds), who signs, event     *)
(* logs, and the two valuations no handler reads (deposited_value and      *)
(* effective_collateral_value).  Wallet balances of liquidity are not      *)
(* kept: a payer has what it pays.                                         *)
(*                                                                         *)
(* A definition called a faulty variant is used nowhere: it stands beside  *)
(* the one it varies to be put in its place, and shows which property then *)
(* fails.                                                                  *)
(***************************************************************************)
EXTENDS ReserveMath, Sums, FiniteSets

CONSTANTS
  NumReserves,     \* reserves are numbered 1..NumReserves
  NumOwners,       \* owner o has the one obligation of that wallet
  NumWallets,      \* share-token holders are 1..NumWallets, the owners first
  Suppliers,       \* wallets that call supply and withdraw
  Liquidators,     \* wallets that call liquidate
  Config,          \* ReserveConfig each reserve is opened with
  ConfigChanges,   \* the validated ones set_params may put in its place
  Risk,            \* RiskConfig of each reserve (zeros when it has none)
  TokenUnit,       \* 10^liquidity_decimals of each reserve
  OracleReports,   \* what refresh_oracle may leave in each reserve's oracle
  Amounts,         \* instruction arguments: the amounts asked for
  OutsideAmounts,  \* liquidity sent to a vault outside any instruction
  OutsideShares,   \* share tokens of each reserve burnt or sent likewise
  MAX_OBLIGATION_RESERVES,
  FULL_CLOSE_HEALTH_FACTOR_BPS,
  MaxSlot,         \* bound on the slots a run passes through
  WithAdmin        \* whether the admin's pause instructions are in the run

Reserves == 1..NumReserves
Owners   == 1..NumOwners
Wallets  == 1..NumWallets

\* The configurations the reserves may have.
Configs == UNION {{Config[r]} \cup ConfigChanges[r] : r \in Reserves}

RiskConfigType == [per_wallet_borrow_cap : Nat, protocol_liquidation_share_bps : Nat]

OracleHealth == {"Healthy", "RateWarning", "BorrowFrozen", "Emergency", "Bootstrapping"}

ASSUME LendingAssumption ==
  /\ NumReserves \in Nat
  /\ NumOwners \in Nat
  /\ NumWallets \in Nat
  /\ NumOwners <= NumWallets
  /\ Suppliers \subseteq Wallets
  /\ Liquidators \subseteq Wallets
  /\ \A r \in Reserves : Risk[r] \in RiskConfigType
  /\ \A cfg \in Configs : ValidConfig(cfg)
  /\ TokenUnit \in [Reserves -> Nat \ {0}]
  /\ \A r \in Reserves : OracleReports[r] \subseteq [rate : Nat, health : OracleHealth]
  /\ Amounts \subseteq Nat
  /\ OutsideAmounts \subseteq Nat
  /\ \A r \in Reserves : OutsideShares[r] \subseteq Nat
  /\ MAX_OBLIGATION_RESERVES \in Nat
  /\ FULL_CLOSE_HEALTH_FACTOR_BPS \in Nat
  /\ MaxSlot \in Nat
  /\ WithAdmin \in BOOLEAN

VARIABLES
  slot,        \* Clock::slot
  config,      \* Reserves -> ReserveConfig
  global,      \* [paused, borrow_paused]
  reserve,     \* Reserves -> reserve record
  oracle,      \* Reserves -> [rate, health, last_refresh_slot]; rate 0 is unset
  obligation,  \* Owners -> obligation record
  position,    \* Wallets -> Reserves -> SupplyPosition::supplied_liquidity
  vault,       \* Reserves -> tokens in the liquidity vault
  wallet,      \* Wallets -> Reserves -> share tokens in the wallet
  custody,     \* Owners -> Reserves -> share tokens in the obligation's vault
  fee_shares   \* Reserves -> share tokens of the fee destination

vars == <<slot, config, global, reserve, oracle, obligation, position,
          vault, wallet, custody, fee_shares>>

ObligationType ==
  [deposits : [Reserves -> Nat], borrows : [Reserves -> Nat],
   stale : BOOLEAN, last_update_slot : Nat, prices_stressed : BOOLEAN,
   borrowed_value : Nat, allowed_borrow_value : Nat, unhealthy_borrow_value : Nat]

OracleType == [rate : Nat, health : OracleHealth, last_refresh_slot : Nat]

TypeOK ==
  /\ slot \in Nat
  /\ config \in [Reserves -> Configs]
  /\ global \in [paused : BOOLEAN, borrow_paused : BOOLEAN]
  /\ reserve \in [Reserves -> ReserveType]
  /\ oracle \in [Reserves -> OracleType]
  /\ obligation \in [Owners -> ObligationType]
  /\ position \in [Wallets -> [Reserves -> Nat]]
  /\ vault \in [Reserves -> Nat]
  /\ wallet \in [Wallets -> [Reserves -> Nat]]
  /\ custody \in [Owners -> [Reserves -> Nat]]
  /\ fee_shares \in [Reserves -> Nat]

-------------------------------------------------------------------------------
\* The gates shared by the handlers.

\* OracleHealth::permits for the two actions that add risk.
PermitsNewRisk(health) == health \in {"Healthy", "RateWarning"}

\* Reserve::require_accrued
Accrued(r) == reserve[r].last_update_slot = slot

\* OracleState::require_fresh, and effective_rate() needs a set reference.
Fresh(r) == oracle[r].last_refresh_slot = slot /\ oracle[r].rate > 0

\* Obligation::require_refreshed
Refreshed(o) == ~ obligation[o].stale /\ obligation[o].last_update_slot = slot

\* An entry of the deposits or borrows list is one with a nonzero amount:
\* entries are pushed with a nonzero amount and removed at zero.
Entries(amounts) == {r \in Reserves : amounts[r] > 0}

\* upsert_collateral and upsert_borrow: an existing entry, or room for one.
RoomFor(amounts, r) ==
  \/ amounts[r] > 0
  \/ Cardinality(Entries(amounts)) < MAX_OBLIGATION_RESERVES

\* A cap of zero is no cap.
WithinCap(cap, after) == cap = 0 \/ after <= cap

\* check_isolation looks at the incoming reserve's flag only.
IsolationAllows(o, r) ==
  config[r].isolated => Entries(obligation[o].deposits) \subseteq {r}

\* A faulty variant of Debt: the debt of a borrower rounded down.
DebtFloored(o, r) ==
  mul_div_floor(obligation[o].borrows[r], reserve[r].borrow_index, FIXED_POINT_SCALE)

Debt(o, r) == debt_at(obligation[o].borrows[r], reserve[r].borrow_index)

\* An amount added to (or, if negative, taken from) one entry of a position.
\* Every instruction that does it marks the cached values stale.
WithDeposit(o, r, change) ==
  [obligation EXCEPT ![o].deposits[r] = @ + change, ![o].stale = TRUE]

WithDebt(o, r, change) ==
  [obligation EXCEPT ![o].borrows[r] = @ + change, ![o].stale = TRUE]

-------------------------------------------------------------------------------
\* What refresh_obligation computes from the reserves and oracles of now.

\* Value of one deposit after its haircut, every step floored.
EffectiveValue(o, r) ==
  apply_haircut(
    market_value_floor(
      shares_to_liquidity_floor(reserve[r], obligation[o].deposits[r]),
      TokenUnit[r], oracle[r].rate),
    config[r].collateral_haircut_bps)

AllowedValue(o) ==
  SumTo([r \in Reserves |->
           mul_div_floor(EffectiveValue(o, r), config[r].loan_to_value_bps,
                         BPS_DENOMINATOR)], NumReserves)

UnhealthyValue(o) ==
  SumTo([r \in Reserves |->
           mul_div_floor(EffectiveValue(o, r), config[r].liquidation_threshold_bps,
                         BPS_DENOMINATOR)], NumReserves)

BorrowedValue(o) ==
  SumTo([r \in Reserves |->
           market_value_ceil(Debt(o, r), TokenUnit[r], oracle[r].rate)], NumReserves)

\* The reserves a position touches, as collateral or as debt.
Touched(o) == Entries(obligation[o].deposits) \cup Entries(obligation[o].borrows)

\* A faulty variant of Stressed: only the oracles of the debts are asked.
StressedByDebts(o) ==
  \E r \in Entries(obligation[o].borrows) : ~ PermitsNewRisk(oracle[r].health)

\* Some oracle the position touches does not permit new risk.
Stressed(o) == \E r \in Touched(o) : ~ PermitsNewRisk(oracle[r].health)

-------------------------------------------------------------------------------
\* A new market: empty reserves, oracles that have read nothing, and
\* obligations as init_obligation opens them.
NewObligation ==
  [deposits |-> [r \in Reserves |-> 0], borrows |-> [r \in Reserves |-> 0],
   stale |-> TRUE, last_update_slot |-> 0, prices_stressed |-> FALSE,
   borrowed_value |-> 0, allowed_borrow_value |-> 0, unhealthy_borrow_value |-> 0]

Init ==
  /\ slot = 0
  /\ config = [r \in Reserves |-> Config[r]]
  /\ global = [paused |-> FALSE, borrow_paused |-> FALSE]
  /\ reserve = [r \in Reserves |-> EmptyReserve(0)]
  /\ oracle = [r \in Reserves |->
                 [rate |-> 0, health |-> "BorrowFrozen", last_refresh_slot |-> 0]]
  /\ obligation = [o \in Owners |-> NewObligation]
  /\ position = [w \in Wallets |-> [r \in Reserves |-> 0]]
  /\ vault = [r \in Reserves |-> 0]
  /\ wallet = [w \in Wallets |-> [r \in Reserves |-> 0]]
  /\ custody = [o \in Owners |-> [r \in Reserves |-> 0]]
  /\ fee_shares = [r \in Reserves |-> 0]

\* The clock: a slot passes.
Tick ==
  /\ slot < MaxSlot
  /\ slot' = slot + 1
  /\ UNCHANGED <<config, global, reserve, oracle, obligation, position,
                 vault, wallet, custody, fee_shares>>

\* accrue: permissionless.
Accrue(r) ==
  /\ OwesInterest(reserve[r], slot) =>
       /\ FitsU64(current_borrowed_amount(reserve[r]))
       /\ FitsU64(current_borrowed_amount(accrue_interest(reserve[r], config[r], slot)))
       /\ FitsU64(accrue_interest(reserve[r], config[r], slot).accrued_fees)
  /\ reserve' = [reserve EXCEPT ![r] = accrue_interest(@, config[r], slot)]
  /\ UNCHANGED <<slot, config, global, oracle, obligation, position,
                 vault, wallet, custody, fee_shares>>

\* refresh_oracle and refresh_market_oracle: permissionless.  What rate and
\* health they leave is the business of the oracle modules; here it is any
\* report of the run, stamped with the current slot; nothing keeps a second
\* refresh in the slot from finding another one.
RefreshOracle(r) ==
  /\ \E report \in OracleReports[r] :
       oracle' = [oracle EXCEPT ![r] = [rate |-> report.rate,
                                        health |-> report.health,
                                        last_refresh_slot |-> slot]]
  /\ UNCHANGED <<slot, config, global, reserve, obligation, position,
                 vault, wallet, custody, fee_shares>>

\* refresh_obligation: permissionless.  Needs every touched reserve accrued and
\* every touched oracle refreshed in this slot.
RefreshObligation(o) ==
  /\ \A r \in Touched(o) : Accrued(r) /\ Fresh(r)
  /\ \A r \in Entries(obligation[o].deposits) :
       /\ TotalDefined(reserve[r])
       /\ FitsU64(shares_to_liquidity_floor(reserve[r], obligation[o].deposits[r]))
  /\ \A r \in Entries(obligation[o].borrows) : FitsU64(Debt(o, r))
  /\ obligation' =
       [obligation EXCEPT
          ![o].borrowed_value = BorrowedValue(o),
          ![o].allowed_borrow_value = AllowedValue(o),
          ![o].unhealthy_borrow_value = UnhealthyValue(o),
          ![o].prices_stressed = Stressed(o),
          ![o].last_update_slot = slot,
          ![o].stale = FALSE]
  /\ UNCHANGED <<slot, config, global, reserve, oracle, position,
                 vault, wallet, custody, fee_shares>>

-------------------------------------------------------------------------------
\* Suppliers.

Supply(w, r, amount) ==
  LET shares == liquidity_to_shares(reserve[r], amount) IN
  /\ amount > 0
  /\ ~ global.paused
  /\ Accrued(r)
  /\ WithinCap(config[r].supply_cap, gross_liquidity(reserve[r]) + amount)
  /\ WithinCap(config[r].per_wallet_supply_cap, position[w][r] + amount)
  /\ reserve[r].share_mint_supply > 0 => TotalDefined(reserve[r])
  /\ shares > 0
  /\ FitsU64(reserve[r].available_liquidity + amount)
  /\ FitsU64(reserve[r].share_mint_supply + shares)
  /\ FitsU64(position[w][r] + amount)
  /\ FitsU64(vault[r] + amount)
  /\ reserve' = [reserve EXCEPT ![r].available_liquidity = @ + amount,
                                ![r].share_mint_supply = @ + shares]
  /\ position' = [position EXCEPT ![w][r] = @ + amount]
  /\ vault' = [vault EXCEPT ![r] = @ + amount]
  /\ wallet' = [wallet EXCEPT ![w][r] = @ + shares]
  /\ UNCHANGED <<slot, config, global, oracle, obligation, custody, fee_shares>>

\* A faulty variant of Withdraw: the mirror is lowered by the liquidity paid out, not
\* by the shares burnt for it.
WithdrawMirroringLiquidity(w, r, shares) ==
  LET liquidity == shares_to_liquidity_floor(reserve[r], shares) IN
  /\ shares > 0
  /\ ~ global.paused
  /\ Accrued(r)
  /\ reserve[r].share_mint_supply > 0
  /\ TotalDefined(reserve[r])
  /\ liquidity <= reserve[r].available_liquidity
  /\ liquidity <= reserve[r].share_mint_supply
  /\ shares <= wallet[w][r]
  /\ liquidity <= vault[r]
  /\ reserve' = [reserve EXCEPT ![r].available_liquidity = @ - liquidity,
                                ![r].share_mint_supply = @ - liquidity]
  /\ position' = [position EXCEPT ![w][r] = saturating_sub(@, liquidity)]
  /\ vault' = [vault EXCEPT ![r] = @ - liquidity]
  /\ wallet' = [wallet EXCEPT ![w][r] = @ - shares]
  /\ UNCHANGED <<slot, config, global, oracle, obligation, custody, fee_shares>>

\* Redeem shares.  No oracle is consulted.
Withdraw(w, r, shares) ==
  LET liquidity == shares_to_liquidity_floor(reserve[r], shares) IN
  /\ shares > 0
  /\ ~ global.paused
  /\ Accrued(r)
  /\ reserve[r].share_mint_supply > 0
  /\ TotalDefined(reserve[r])
  /\ liquidity <= reserve[r].available_liquidity
  /\ shares <= reserve[r].share_mint_supply
  /\ shares <= wallet[w][r]
  /\ liquidity <= vault[r]
  /\ reserve' = [reserve EXCEPT ![r].available_liquidity = @ - liquidity,
                                ![r].share_mint_supply = @ - shares]
  /\ position' = [position EXCEPT ![w][r] = saturating_sub(@, liquidity)]
  /\ vault' = [vault EXCEPT ![r] = @ - liquidity]
  /\ wallet' = [wallet EXCEPT ![w][r] = @ - shares]
  /\ UNCHANGED <<slot, config, global, oracle, obligation, custody, fee_shares>>

-------------------------------------------------------------------------------
\* Borrowers.

DepositCollateral(o, r, shares) ==
  /\ shares > 0
  /\ ~ global.paused
  /\ config[r].collateral_enabled
  /\ IsolationAllows(o, r)
  /\ RoomFor(obligation[o].deposits, r)
  /\ shares <= wallet[o][r]
  /\ obligation' = WithDeposit(o, r, shares)
  /\ wallet' = [wallet EXCEPT ![o][r] = @ - shares]
  /\ custody' = [custody EXCEPT ![o][r] = @ + shares]
  /\ UNCHANGED <<slot, config, global, reserve, oracle, position, vault, fee_shares>>

\* A faulty variant of RemovedAllowance: the refresh's own floors.
RemovedAllowanceFloored(r, shares) ==
  mul_div_floor(
    apply_haircut(
      market_value_floor(shares_to_liquidity_floor(reserve[r], shares),
                         TokenUnit[r], oracle[r].rate),
      config[r].collateral_haircut_bps),
    config[r].loan_to_value_bps, BPS_DENOMINATOR)

\* Borrow power the shares stand for, every step rounded up.
RemovedAllowance(r, shares) ==
  LET face == market_value_ceil(shares_to_liquidity_ceil(reserve[r], shares),
                                TokenUnit[r], oracle[r].rate)
      effective == mul_div_ceil(face, BPS_DENOMINATOR - config[r].collateral_haircut_bps,
                                BPS_DENOMINATOR)
  IN mul_div_ceil(effective, config[r].loan_to_value_bps, BPS_DENOMINATOR)

WithdrawCollateral(o, r, shares) ==
  /\ shares > 0
  /\ ~ global.paused
  /\ Refreshed(o)
  /\ Accrued(r)
  /\ Fresh(r)
  /\ PermitsNewRisk(oracle[r].health)
  /\ TotalDefined(reserve[r])
  /\ FitsU64(shares_to_liquidity_ceil(reserve[r], shares))
  /\ shares <= obligation[o].deposits[r]
  /\ obligation[o].borrowed_value
       <= saturating_sub(obligation[o].allowed_borrow_value, RemovedAllowance(r, shares))
  /\ shares <= custody[o][r]
  /\ obligation' = WithDeposit(o, r, -shares)
  /\ custody' = [custody EXCEPT ![o][r] = @ - shares]
  /\ wallet' = [wallet EXCEPT ![o][r] = @ + shares]
  /\ UNCHANGED <<slot, config, global, reserve, oracle, position, vault, fee_shares>>

\* The principal a new debt is booked as, and the fee kept from it.
ScaledDebt(r, amount) == mul_div_ceil(amount, FIXED_POINT_SCALE, reserve[r].borrow_index)
OriginationFee(r, amount) ==
  mul_div_floor(amount, config[r].origination_fee_bps, BPS_DENOMINATOR)

\* A faulty variant of ProjectedValue: the new debt is compared alone.
NewDebtAlone(o, r, amount) == market_value_ceil(amount, TokenUnit[r], oracle[r].rate)

\* The value of the position's debts with the new one.
ProjectedValue(o, r, amount) ==
  obligation[o].borrowed_value + market_value_ceil(amount, TokenUnit[r], oracle[r].rate)

Borrow(o, r, amount) ==
  LET scaled_added == ScaledDebt(r, amount)
      fee == OriginationFee(r, amount)
      paid_out == amount - fee
  IN
  /\ amount > 0
  /\ ~ global.paused /\ ~ global.borrow_paused
  /\ Refreshed(o)
  /\ Accrued(r)
  /\ config[r].borrow_enabled
  /\ ~ obligation[o].prices_stressed
  /\ Fresh(r)
  /\ PermitsNewRisk(oracle[r].health)
  /\ ProjectedValue(o, r, amount) <= obligation[o].allowed_borrow_value
  /\ WithinCap(config[r].borrow_cap, current_borrowed_amount(reserve[r]) + amount)
  /\ FitsU64(Debt(o, r))
  /\ WithinCap(Risk[r].per_wallet_borrow_cap, Debt(o, r) + amount)
  /\ amount <= reserve[r].available_liquidity
  /\ paid_out > 0
  /\ FitsU64(reserve[r].accrued_fees + fee)
  /\ RoomFor(obligation[o].borrows, r)
  /\ paid_out <= vault[r]
  /\ reserve' = [reserve EXCEPT ![r].borrowed_principal = @ + scaled_added,
                                ![r].available_liquidity = @ - paid_out,
                                ![r].accrued_fees = @ + fee]
  /\ obligation' = WithDebt(o, r, scaled_added)
  /\ vault' = [vault EXCEPT ![r] = @ - paid_out]
  /\ UNCHANGED <<slot, config, global, oracle, position,
                 wallet, custody, fee_shares>>

\* A faulty variant of ScaledPayment: the principal retired rounded up.
ScaledPaymentCeiled(o, r, paid) ==
  AtMost(mul_div_ceil(paid, FIXED_POINT_SCALE, reserve[r].borrow_index),
         obligation[o].borrows[r])

\* A faulty variant of ScaledPayment: the index taken for a plain number, not one
\* in units of its scale.
ScaledPaymentUnscaled(o, r, paid) ==
  AtMost(mul_div_floor(paid, 1, reserve[r].borrow_index), obligation[o].borrows[r])

\* The principal a payment retires, rounded down and capped by what is owed.
ScaledPayment(o, r, paid) ==
  AtMost(mul_div_floor(paid, FIXED_POINT_SCALE, reserve[r].borrow_index),
         obligation[o].borrows[r])

\* A faulty variant of MayRepay: the pause stops repayments too.
MayRepayUnlessPaused(r) == Accrued(r) /\ ~ global.paused

\* Repayment is open in every state: neither pause nor oracle is consulted.
MayRepay(r) == Accrued(r)

\* Every check a repayment passes, the checked arithmetic and the transfer included.
RepayAccepted(o, r, amount) ==
  LET paid == AtMost(amount, Debt(o, r)) IN
  /\ amount > 0
  /\ MayRepay(r)
  /\ obligation[o].borrows[r] > 0
  /\ FitsU64(Debt(o, r))
  /\ paid > 0
  /\ ScaledPayment(o, r, paid) <= reserve[r].borrowed_principal
  /\ FitsU64(reserve[r].available_liquidity + paid)
  /\ FitsU64(vault[r] + paid)

\* Anyone may repay for any borrower.
Repay(o, r, amount) ==
  LET paid == AtMost(amount, Debt(o, r))
      scaled_removed == ScaledPayment(o, r, paid)
  IN
  /\ RepayAccepted(o, r, amount)
  /\ reserve' = [reserve EXCEPT ![r].borrowed_principal = @ - scaled_removed,
                                ![r].available_liquidity = @ + paid]
  /\ obligation' = WithDebt(o, r, -scaled_removed)
  /\ vault' = [vault EXCEPT ![r] = @ + paid]
  /\ UNCHANGED <<slot, config, global, oracle, position,
                 wallet, custody, fee_shares>>

-------------------------------------------------------------------------------
\* Liquidation and the write-off of what it leaves.

\* The whole debt may be closed once the health factor is below the line.
CloseFactor(o, r) ==
  IF mul_div_floor(obligation[o].unhealthy_borrow_value, BPS_DENOMINATOR,
                   obligation[o].borrowed_value) < FULL_CLOSE_HEALTH_FACTOR_BPS
  THEN BPS_DENOMINATOR
  ELSE config[r].close_factor_bps

MaxRepay(o, r) == mul_div_floor(Debt(o, r), CloseFactor(o, r), BPS_DENOMINATOR)

SeizedShares(d, c, paid) ==
  seize_shares_for(market_value_floor(paid, TokenUnit[d], oracle[d].rate),
                   reserve[c], config[c], TokenUnit[c], oracle[c].rate)

\* Every conversion of a seizure returns Ok: the liquidity on the way to the shares
\* is a u64, and total_liquidity has a value once shares exist.
SeizureDefined(d, c, paid) ==
  /\ FitsU64(seize_liquidity(market_value_floor(paid, TokenUnit[d], oracle[d].rate),
                             config[c], TokenUnit[c], oracle[c].rate))
  /\ reserve[c].share_mint_supply > 0 => TotalDefined(reserve[c])

\* d is the reserve repaid, c the reserve whose shares are seized.  The obligation
\* loses what was computed; two transfers empty its vault, each of one leg.
Liquidate(w, o, d, c, amount) ==
  LET paid == AtMost(amount, MaxRepay(o, d))
      seized == SeizedShares(d, c, paid)
      split == split_seized_shares(seized, config[c].liquidation_bonus_bps,
                                   Risk[c].protocol_liquidation_share_bps)
      scaled_removed == ScaledPayment(o, d, paid)
  IN
  /\ amount > 0
  /\ Refreshed(o)
  /\ Accrued(d) /\ Accrued(c)
  /\ obligation[o].borrowed_value > obligation[o].unhealthy_borrow_value
  /\ Fresh(d) /\ Fresh(c)
  /\ obligation[o].borrows[d] > 0
  /\ obligation[o].deposits[c] > 0
  /\ FitsU64(Debt(o, d))
  /\ paid > 0
  /\ SeizureDefined(d, c, paid)
  /\ seized \in 1..obligation[o].deposits[c]
  /\ scaled_removed <= reserve[d].borrowed_principal
  /\ FitsU64(reserve[d].available_liquidity + paid)
  /\ FitsU64(vault[d] + paid)
  /\ split.liquidator + split.protocol <= custody[o][c]
  /\ reserve' = [reserve EXCEPT ![d].borrowed_principal = @ - scaled_removed,
                                ![d].available_liquidity = @ + paid]
  /\ obligation' = [WithDebt(o, d, -scaled_removed) EXCEPT ![o].deposits[c] = @ - seized]
  /\ vault' = [vault EXCEPT ![d] = @ + paid]
  /\ custody' = [custody EXCEPT ![o][c] = (@ - split.liquidator) - split.protocol]
  /\ wallet' = [wallet EXCEPT ![w][c] = @ + split.liquidator]
  /\ fee_shares' = [fee_shares EXCEPT ![c] = @ + split.protocol]
  /\ UNCHANGED <<slot, config, global, oracle, position>>

\* A faulty variant of AbsorbBadDebt: the obligation's entry is cleared and the
\* pool's asset left on its books.
AbsorbKeepingAsset(o, r) ==
  /\ Refreshed(o)
  /\ Accrued(r)
  /\ Entries(obligation[o].deposits) = {}
  /\ obligation[o].borrows[r] > 0
  /\ obligation' = WithDebt(o, r, - obligation[o].borrows[r])
  /\ UNCHANGED <<slot, config, global, reserve, oracle, position,
                 vault, wallet, custody, fee_shares>>

\* absorb_bad_debt: permissionless, once nothing is left to seize.  Fees booked
\* on the debt that is written off stay booked.
AbsorbBadDebt(o, r) ==
  LET principal == obligation[o].borrows[r] IN
  /\ Refreshed(o)
  /\ Accrued(r)
  /\ Entries(obligation[o].deposits) = {}
  /\ principal > 0
  /\ FitsU64(Debt(o, r))
  /\ principal <= reserve[r].borrowed_principal
  /\ reserve' = [reserve EXCEPT ![r].borrowed_principal = @ - principal]
  /\ obligation' = WithDebt(o, r, -principal)
  /\ UNCHANGED <<slot, config, global, oracle, position,
                 vault, wallet, custody, fee_shares>>

\* A faulty variant of CollectFees: the fees leave the vault and stay counted
\* as available.
CollectFeesLeavingAvailable(r) ==
  LET payable == AtMost(reserve[r].accrued_fees, reserve[r].available_liquidity) IN
  /\ Accrued(r)
  /\ payable > 0
  /\ payable <= vault[r]
  /\ reserve' = [reserve EXCEPT ![r].accrued_fees = @ - payable]
  /\ vault' = [vault EXCEPT ![r] = @ - payable]
  /\ UNCHANGED <<slot, config, global, oracle, obligation, position,
                 wallet, custody, fee_shares>>

\* A faulty variant of CollectFees: what is paid stays booked as owed.
CollectFeesStayingBooked(r) ==
  LET payable == AtMost(reserve[r].accrued_fees, reserve[r].available_liquidity) IN
  /\ Accrued(r)
  /\ payable > 0
  /\ payable <= vault[r]
  /\ reserve' = [reserve EXCEPT ![r].available_liquidity = @ - payable]
  /\ vault' = [vault EXCEPT ![r] = @ - payable]
  /\ UNCHANGED <<slot, config, global, oracle, obligation, position,
                 wallet, custody, fee_shares>>

\* collect_fees: permissionless, to the configured destination.
CollectFees(r) ==
  LET payable == AtMost(reserve[r].accrued_fees, reserve[r].available_liquidity) IN
  /\ Accrued(r)
  /\ payable > 0
  /\ payable <= vault[r]
  /\ reserve' = [reserve EXCEPT ![r].accrued_fees = @ - payable,
                                ![r].available_liquidity = @ - payable]
  /\ vault' = [vault EXCEPT ![r] = @ - payable]
  /\ UNCHANGED <<slot, config, global, oracle, obligation, position,
                 wallet, custody, fee_shares>>

-------------------------------------------------------------------------------
\* The admin's switches.

SetPauses(paused, borrow_paused) ==
  /\ WithAdmin
  /\ global' = [paused |-> paused, borrow_paused |-> borrow_paused]
  /\ UNCHANGED <<slot, config, reserve, oracle, obligation, position,
                 vault, wallet, custody, fee_shares>>

\* What set_params at once or apply_pending_params in its time does to a reserve;
\* which of the two a change goes through is the business of ParamTimelock.  The
\* reserve is not accrued first, and no obligation is marked stale.
SetConfig(r) ==
  /\ \E cfg \in ConfigChanges[r] : config' = [config EXCEPT ![r] = cfg]
  /\ UNCHANGED <<slot, global, reserve, oracle, obligation, position,
                 vault, wallet, custody, fee_shares>>

PauseBorrow == SetPauses(global.paused, TRUE)
PauseAll    == SetPauses(TRUE, TRUE)
Unpause     == SetPauses(FALSE, FALSE)

-------------------------------------------------------------------------------
\* What the token programs allow anyone to do without calling Aera: share tokens
\* have no freeze authority and no transfer hook, and a vault accepts what is sent.
\* The fee destination is the account of an ordinary wallet.

\* A plain transfer into a liquidity vault.
Donate(r, amount) ==
  /\ amount > 0
  /\ FitsU64(vault[r] + amount)
  /\ vault' = [vault EXCEPT ![r] = @ + amount]
  /\ UNCHANGED <<slot, config, global, reserve, oracle, obligation, position,
                 wallet, custody, fee_shares>>

\* A holder burns share tokens directly; the reserve's mirror does not see it.
BurnShares(w, r, shares) ==
  /\ shares \in 1..wallet[w][r]
  /\ wallet' = [wallet EXCEPT ![w][r] = @ - shares]
  /\ UNCHANGED <<slot, config, global, reserve, oracle, obligation, position,
                 vault, custody, fee_shares>>

\* A holder sends share tokens to another wallet; the position, which counts what
\* was supplied, stays with the sender.
SendShares(from, to, r, shares) ==
  /\ from # to
  /\ shares \in 1..wallet[from][r]
  /\ wallet' = [wallet EXCEPT ![from][r] = @ - shares, ![to][r] = @ + shares]
  /\ UNCHANGED <<slot, config, global, reserve, oracle, obligation, position,
                 vault, custody, fee_shares>>

\* A holder sends share tokens to the vault of an obligation, which records nothing:
\* no instruction takes them out again.  The vault is there from the first deposit on
\* and is never closed; here every vault is there from the start, as one is whose
\* collateral was deposited and withdrawn before.
SendSharesToVault(w, o, r, shares) ==
  /\ shares \in 1..wallet[w][r]
  /\ wallet' = [wallet EXCEPT ![w][r] = @ - shares]
  /\ custody' = [custody EXCEPT ![o][r] = @ + shares]
  /\ UNCHANGED <<slot, config, global, reserve, oracle, obligation, position,
                 vault, fee_shares>>

SendSharesToFees(w, r, shares) ==
  /\ shares \in 1..wallet[w][r]
  /\ wallet' = [wallet EXCEPT ![w][r] = @ - shares]
  /\ fee_shares' = [fee_shares EXCEPT ![r] = @ + shares]
  /\ UNCHANGED <<slot, config, global, reserve, oracle, obligation, position,
                 vault, custody>>

SendFeeShares(w, r, shares) ==
  /\ shares \in 1..fee_shares[r]
  /\ fee_shares' = [fee_shares EXCEPT ![r] = @ - shares]
  /\ wallet' = [wallet EXCEPT ![w][r] = @ + shares]
  /\ UNCHANGED <<slot, config, global, reserve, oracle, obligation, position,
                 vault, custody>>

-------------------------------------------------------------------------------
Next ==
  \/ Tick
  \/ \E r \in Reserves : Accrue(r)
  \/ \E r \in Reserves : RefreshOracle(r)
  \/ \E o \in Owners : RefreshObligation(o)
  \/ \E w \in Suppliers, r \in Reserves, n \in Amounts : Supply(w, r, n)
  \/ \E w \in Suppliers, r \in Reserves, n \in Amounts : Withdraw(w, r, n)
  \/ \E o \in Owners, r \in Reserves, n \in Amounts : DepositCollateral(o, r, n)
  \/ \E o \in Owners, r \in Reserves, n \in Amounts : WithdrawCollateral(o, r, n)
  \/ \E o \in Owners, r \in Reserves, n \in Amounts : Borrow(o, r, n)
  \/ \E o \in Owners, r \in Reserves, n \in Amounts : Repay(o, r, n)
  \/ \E w \in Liquidators, o \in Owners, d \in Reserves, c \in Reserves, n \in Amounts :
       Liquidate(w, o, d, c, n)
  \/ \E o \in Owners, r \in Reserves : AbsorbBadDebt(o, r)
  \/ \E r \in Reserves : CollectFees(r)
  \/ \E r \in Reserves : SetConfig(r)
  \/ PauseBorrow
  \/ PauseAll
  \/ Unpause
  \/ \E r \in Reserves, n \in OutsideAmounts : Donate(r, n)
  \/ \E r \in Reserves : \E n \in OutsideShares[r], w \in Wallets : BurnShares(w, r, n)
  \/ \E r \in Reserves : \E n \in OutsideShares[r], from, to \in Wallets :
       SendShares(from, to, r, n)
  \/ \E r \in Reserves : \E n \in OutsideShares[r], w \in Wallets, o \in Owners :
       SendSharesToVault(w, o, r, n)
  \/ \E r \in Reserves : \E n \in OutsideShares[r], w \in Wallets :
       SendSharesToFees(w, r, n)
  \/ \E r \in Reserves : \E n \in OutsideShares[r], w \in Wallets :
       SendFeeShares(w, r, n)

Spec == Init /\ [][Next]_vars
===============================================================================

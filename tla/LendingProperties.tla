-------------------------- MODULE LendingProperties ---------------------------
(***************************************************************************)
(* What makes AeraLending correct: that the books of the reserves, of the  *)
(* obligations and of the token accounts stay one story whatever order the *)
(* instructions come in, and that rounding never moves value from          *)
(* suppliers or from a solvent borrower to the caller.                     *)
(***************************************************************************)
EXTENDS AeraLending

-------------------------------------------------------------------------------
\* The books agree.

\* A reserve's scaled debt is exactly the scaled debt of its borrowers: borrow,
\* repay, liquidate and absorb_bad_debt each change the two sides in different
\* accounts.  If they drift, the last repayment underflows and is refused.
PrincipalMatches ==
  \A r \in Reserves :
    reserve[r].borrowed_principal = SumTo([o \in Owners |-> obligation[o].borrows[r]], NumOwners)

\* The vault holds at least what the reserve says is available, fees and
\* donations included, so no payout fails for want of tokens (INV-02).
VaultBacksBooks == \A r \in Reserves : vault[r] >= reserve[r].available_liquidity

\* An obligation's vault holds the collateral it records, so that it can be given
\* back or seized to the last share, though a liquidation empties the vault in two
\* transfers and the record in one subtraction.  Not the equality of INV-13: anyone
\* may send share tokens to the vault.
CollateralInCustody ==
  \A o \in Owners, r \in Reserves : custody[o][r] >= obligation[o].deposits[r]

\* All share tokens of a reserve, wherever they are.
SharesHeld(r) ==
  SumTo([w \in Wallets |-> wallet[w][r]], NumWallets)
  + SumTo([o \in Owners |-> custody[o][r]], NumOwners) + fee_shares[r]

\* The reserve's mirror of the share supply never falls below the tokens that
\* exist: a direct burn may leave it above, which only favours the holders
\* that remain, but a claim it does not count would be paid out of theirs.
MirrorCoversShares == \A r \in Reserves : SharesHeld(r) <= reserve[r].share_mint_supply

\* The debt of the pool, rounded once, never exceeds the debts of its borrowers,
\* rounded one by one: total_liquidity never counts more than borrowers owe.
PoolDebtIsOwed ==
  \A r \in Reserves :
    current_borrowed_amount(reserve[r]) <= SumTo([o \in Owners |-> Debt(o, r)], NumOwners)

\* The fees set aside are a part of what the reserve has: no write-off has left them
\* above it.
FeesCovered(r) == reserve[r].accrued_fees <= gross_liquidity(reserve[r])

\* What all the share tokens of a reserve redeem for at the rate of now, each holder
\* on its own.
Claims(r) ==
  LET worth(shares) == shares_to_liquidity_floor(reserve[r], shares) IN
  SumTo([w \in Wallets |-> worth(wallet[w][r])], NumWallets)
  + SumTo([o \in Owners |-> worth(custody[o][r])], NumOwners) + worth(fee_shares[r])

\* The pool is solvent: what suppliers, borrowers' collateral, the fee destination
\* and the booked fees can claim of a reserve's token is in its vault or owed to it by
\* its borrowers (INV-03).  Five balances that different instructions round and move;
\* total_liquidity has no value once a write-off has left the fees uncovered.
PoolIsSolvent ==
  \A r \in Reserves :
    FeesCovered(r) =>
      Claims(r) + reserve[r].accrued_fees
        <= vault[r] + SumTo([o \in Owners |-> Debt(o, r)], NumOwners)

-------------------------------------------------------------------------------
\* What a step may never do.

\* A write-off of r's debt, the one step that may cost suppliers.
Absorbs(r) == \E o \in Owners : AbsorbBadDebt(o, r)

\* What an obligation's cached values claim: its debt is the debt of now, and the
\* two limits do not exceed those a refresh would find now.
Unflattering(o) ==
  /\ obligation[o].borrowed_value = BorrowedValue(o)
  /\ obligation[o].allowed_borrow_value <= AllowedValue(o)
  /\ obligation[o].unhealthy_borrow_value <= UnhealthyValue(o)

\* What the cached flag claims when it is down, and borrow relies on: every oracle the
\* position touches, the collateral's too, permits new risk.
StressSeen(o) ==
  ~ obligation[o].prices_stressed =>
    \A r \in Touched(o) : PermitsNewRisk(oracle[r].health)

\* Four things neither the stale flag nor the slot notices.  Three move the values: a
\* write-off in a reserve whose shares are the collateral, another configuration of
\* such a reserve, and another price in the same slot.
Revalued(o) ==
  \/ \E r \in Entries(obligation[o].deposits) : Absorbs(r) \/ config'[r] # config[r]
  \/ \E r \in Touched(o) : oracle'[r].rate # oracle[r].rate

\* The fourth moves the flag: an oracle that permitted new risk is refreshed again in
\* the slot, at the same price even, and permits it no more.
Frozen(o) ==
  \E r \in Touched(o) :
    PermitsNewRisk(oracle[r].health) /\ ~ PermitsNewRisk(oracle'[r].health)

\* While an obligation counts as refreshed its cached values flatter nobody and its
\* flag hides no frozen oracle, whoever acts: what changes the position marks it
\* stale, and what others do to the reserve raises the limits at most.
CachedValuesHold ==
  [][\A o \in Owners : Refreshed(o)' =>
       /\ (Refreshed(o) => Unflattering(o)) /\ ~ Revalued(o) => Unflattering(o)'
       /\ (Refreshed(o) => StressSeen(o)) /\ ~ Frozen(o) => StressSeen(o)']_vars

\* The share rate never falls except by a write-off (INV-05): whatever rounds,
\* rounds for the pool.  Rates are compared as fractions.
SharePriceNeverFalls ==
  [][\A r \in Reserves :
       \/ Absorbs(r)
       \/ reserve[r].share_mint_supply = 0
       \/ reserve'[r].share_mint_supply = 0
       \/ total_liquidity(reserve'[r]) * reserve[r].share_mint_supply
            >= total_liquidity(reserve[r]) * reserve'[r].share_mint_supply]_vars

\* Fees never reach into what suppliers put in: they are a part of interest and
\* of the amount newly borrowed, so total_liquidity does not underflow, and
\* supply and withdraw stay open, unless a debt is written off.
FeesStayCovered ==
  [][\A r \in Reserves :
       FeesCovered(r) /\ ~ Absorbs(r) => FeesCovered(r)']_vars

\* The index never falls (INV-04).
IndexNeverFalls ==
  [][\A r \in Reserves : reserve'[r].borrow_index >= reserve[r].borrow_index]_vars

\* A debt disappears in two ways: the vault is paid all of it, rounded up, or it
\* is written off when no collateral is left.  Rounding in repay and liquidate
\* never forgives the last unit.
DebtsArePaid ==
  [][\A o \in Owners, r \in Reserves :
       obligation[o].borrows[r] > 0 /\ obligation'[o].borrows[r] = 0 =>
         \/ vault'[r] - vault[r] >= Debt(o, r)
         \/ Entries(obligation[o].deposits) = {}]_vars

\* Whoever pays the whole debt is rid of it: the rounding up of the debt and the
\* rounding down of the principal retired meet exactly.
FullPaymentClears ==
  [][\A o \in Owners, r \in Reserves, n \in Amounts :
       Repay(o, r, n) /\ n >= Debt(o, r) => obligation'[o].borrows[r] = 0]_vars

\* A refresh of o can read what its collateral is worth.
Readable(o) == \A r \in Entries(obligation[o].deposits) : TotalDefined(reserve[r])

\* Withdrawing collateral leaves the position within its borrow limit as a full
\* recomputation finds it, whatever floors separately and whatever became of the
\* reserves between the refresh and the withdrawal, as long as the cached values
\* flatter nobody (CachedValuesHold says when).
WithdrawalStaysInLimit ==
  [][\A o \in Owners, r \in Reserves, n \in Amounts :
       WithdrawCollateral(o, r, n) /\ Unflattering(o) /\ Readable(o)
       => BorrowedValue(o)' <= AllowedValue(o)']_vars

\* What rounding a new debt up to the index can add to it.
BorrowSlack(r) ==
  market_value_ceil(mul_div_ceil(1, reserve[r].borrow_index, FIXED_POINT_SCALE),
                    TokenUnit[r], oracle[r].rate)

\* Borrowing leaves the position within its borrow limit as a full recomputation
\* finds it, up to the one unit of principal the code rounds up, as long as the
\* cached values flatter nobody.
BorrowStaysInLimit ==
  [][\A o \in Owners, r \in Reserves, n \in Amounts :
       Borrow(o, r, n) /\ Unflattering(o)
       => BorrowedValue(o)' <= AllowedValue(o)' + BorrowSlack(r)]_vars

\* A liquidator never seizes shares worth more than the repayment and the bonus,
\* at the oracle's price and the share rate of the moment (exact fractions); and
\* what the protocol takes of them is the bonus at most, whatever share of it has
\* been configured: the liquidator is left what the repayment itself is worth.
SeizureBounded ==
  [][\A w \in Liquidators, o \in Owners, d \in Reserves, c \in Reserves, n \in Amounts :
       Liquidate(w, o, d, c, n) =>
         LET seized == obligation[o].deposits[c] - obligation'[o].deposits[c]
             with_bonus == BPS_DENOMINATOR + config[c].liquidation_bonus_bps
         IN /\ seized * total_liquidity(reserve[c]) * oracle[c].rate * TokenUnit[d]
                   * BPS_DENOMINATOR
                 <= (vault'[d] - vault[d]) * oracle[d].rate * with_bonus
                      * reserve[c].share_mint_supply * TokenUnit[c]
            /\ (wallet'[w][c] - wallet[w][c]) * with_bonus >= seized * BPS_DENOMINATOR]_vars

\* What is seized of c for a repayment, its bonus included, lowers the liquidation
\* limit by no more than the repayment: haircut, threshold and bonus together are
\* within 100%.  ReserveConfig::validate bounds each of the three and not the product.
SeizesWithinThreshold(c) ==
  (BPS_DENOMINATOR - config[c].collateral_haircut_bps)
      * config[c].liquidation_threshold_bps
      * (BPS_DENOMINATOR + config[c].liquidation_bonus_bps)
    <= BPS_DENOMINATOR * BPS_DENOMINATOR * BPS_DENOMINATOR

\* How far a position is beyond its liquidation limit, as a refresh finds it now.
Shortfall(o) == BorrowedValue(o) - UnhealthyValue(o)

\* A liquidation pays at least as much of the debt as it takes off the limit, so a
\* position is not driven further under by liquidating it, however often: up to one
\* unit of principal and one of value, which the code rounds for the pool and for
\* the borrower (liquidate.rs, risk::seize_shares_for).
LiquidationHeals ==
  [][\A w \in Liquidators, o \in Owners, d \in Reserves, c \in Reserves, n \in Amounts :
       Liquidate(w, o, d, c, n) /\ SeizesWithinThreshold(c) /\ Readable(o)
       => Shortfall(o)' <= Shortfall(o) + BorrowSlack(d) + 1]_vars

\* What may bring o nearer to its liquidation: its owner's own risk, a liquidation,
\* interest on what it owes, and the three things of Revalued.
Endangers(o) ==
  \/ \E r \in Reserves, n \in Amounts : Borrow(o, r, n) \/ WithdrawCollateral(o, r, n)
  \/ \E w \in Liquidators, d \in Reserves, c \in Reserves, n \in Amounts :
       Liquidate(w, o, d, c, n)
  \/ \E r \in Entries(obligation[o].borrows) :
       reserve'[r].borrow_index # reserve[r].borrow_index
  \/ Revalued(o)

\* Nothing else does.  Others supply, withdraw, borrow, repay, liquidate each other and
\* collect fees in the reserves that hold o's collateral, through every rounding of
\* theirs, and as a refresh finds it o is no nearer; nor does a deposit or a repayment
\* of its own bring it there.
OthersEndangerNobody ==
  [][\A o \in Owners :
       Readable(o)' /\ ~ Endangers(o) => Shortfall(o)' <= Shortfall(o)]_vars

\* A write-off costs the suppliers what the borrower owed, as the event records it,
\* to the unit that rounding the pool's debt once and not twice leaves open: nothing
\* of the phantom asset stays counted, and nothing else goes with it
\* (absorb_bad_debt.rs, "Ceiling, so the write-off is never smaller").
LossIsTheDebt ==
  [][\A o \in Owners, r \in Reserves :
       AbsorbBadDebt(o, r) =>
         total_liquidity(reserve[r]) - total_liquidity(reserve'[r])
           \in (Debt(o, r) - 1)..Debt(o, r)]_vars

-------------------------------------------------------------------------------
\* What must stay possible.

\* Repayment is open in every state: once the reserve is accrued, whoever owes
\* can pay the whole debt, paused or not and whatever the oracles say.
RepayStaysOpen ==
  \A o \in Owners, r \in Reserves :
    /\ obligation[o].borrows[r] > 0
    /\ Accrued(r)
    /\ FitsU64(vault[r] + Debt(o, r))
    => ENABLED Repay(o, r, Debt(o, r))

\* The same said of the checks of repay, one by one: whoever owes passes all of them
\* with the whole debt, the two checked subtractions included.
FullRepaymentAccepted ==
  \A o \in Owners, r \in Reserves :
    /\ obligation[o].borrows[r] > 0
    /\ Accrued(r)
    /\ FitsU64(vault[r] + Debt(o, r))
    => RepayAccepted(o, r, Debt(o, r))

-------------------------------------------------------------------------------
\* What the repository says of the program and the code does not keep.

\* "The phantom asset stops being counted ... and the share exchange rate falls to
\* the truth on the next read" (absorb_bad_debt.rs): after a write-off the next
\* read of total_liquidity returns.  It fails when the fees booked on the debt
\* are more than what is left, and supply and withdraw fail with it.
ShareRateStaysReadable == \A r \in Reserves : TotalDefined(reserve[r])
===============================================================================

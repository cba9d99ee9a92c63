# Aera v1 in TLA+

A verification development for the Aera lending program
(`src/programs/aera/src/`): TLA+ modules translated from the Rust source, TLC
configurations that check them on small instances, and TLAPS proofs of the
properties that matter most for every instance. Paths below are relative to
`src/programs/aera/src/` unless they start with `src/`.

- [1. The system](#1-the-system)
- [2. The modules](#2-the-modules)
- [3. The runs](#3-the-runs)
- [4. Where code and documents disagree](#4-where-code-and-documents-disagree)
- [5. The proofs](#5-the-proofs)
- [6. What is not modelled](#6-what-is-not-modelled)
- [7. The plan](#7-the-plan)

## 1. The system

Aera is an on-chain lending market. Suppliers put tokens into a *reserve* and
hold shares of it; a borrower locks shares in an *obligation* and borrows from
another reserve against them; when the debt outgrows a threshold, anyone may
repay part of it and seize shares at a bonus; what is left without collateral is
written off. The price that decides all this is, for the staking receipt bCOOK,
the redemption rate its stake pool publishes about itself, filtered by a circuit
breaker; for COOK it is the constant one; for a market-priced asset it is a
time-weighted average of two AMM pools.

Every instruction is atomic: it either changes everything it should or returns
an error and changes nothing. What is hard is therefore not a race inside an
instruction but the *order of instructions*: a transaction is a sequence of
instructions, anyone may send one, `accrue`, `refresh_oracle`,
`refresh_market_oracle`, `refresh_obligation`, `collect_fees`, `absorb_bad_debt`
and the three `apply_pending_*` need nobody's consent, and values computed by one
instruction are used by a later one.

### Components

| Component | State | Operations | Correct when |
| --- | --- | --- | --- |
| Money arithmetic (`math.rs`, `risk.rs`) | none | `mul_div` floor and ceil, market value, haircut, seizure and its split | every rounding favours the pool, a split loses and creates nothing, what does not fit 64 bits is refused |
| Reserve (`state/reserve.rs`, `accrue`, `supply`, `withdraw`, `collect_fees`) | available liquidity, scaled debt, borrow index, booked fees, mirror of the share supply, configuration | accrue, supply, withdraw, collect fees | the vault covers the books, the share rate falls only by a write-off, the index never falls, fees stay within interest |
| Obligation (`state/obligation.rs`, `refresh_obligation`, collateral, `borrow`, `repay`) | deposits, scaled borrows, cached values with a stale flag and a slot | refresh, deposit, withdraw collateral, borrow, repay | its books agree with the reserve's and with the token accounts, what others do between a refresh and its use leaves the cached values good, rounding forgives no debt, repayment is always open |
| Liquidation and write-off (`liquidate`, `absorb_bad_debt`) | the same accounts, the fee destination's shares | liquidate, absorb | a seizure is worth no more than repayment and bonus, a debt disappears only if paid or with nothing left to seize |
| Native oracle and breaker (`oracle/`, `state/oracle.rs`, `refresh_oracle`, `set_oracle`) | configuration, reference (last accepted reading), health, slot of the last refresh | set, refresh, reset | new risk only against a rate within the bounds, no order of readings, failures and reconfigurations opens it, every rate was read from the pinned deployment |
| Deployment pin (`oracle/deployment.rs`) | slot and authority in the oracle's configuration | compared on every reading | a rate written by another deployment is never recorded |
| Parameter timelock (`set_params`, `set_risk_config`) | live and queued parameters, eta, the delay | set, apply, cancel, set the delay | a tightening is instant, a loosening waits out its own announcement, nothing superseded returns |
| Pauses and admin keys (`state/global.rs`, `pause`) | two switches, admin, fee destination | pause, unpause, transfers | repayment ignores them |
| Market oracle (`oracle/market_breaker.rs`, `state/market_oracle.rs`, `refresh_market_oracle`, `init_market_oracle`) | ring of observations, accepted price, health, its own queue | set up, refresh, configure, apply, cancel | falls are taken at once, rises are rationed, new risk rests on a history that spans real time, the price reaches a steady market |
| Migration (`admin/migrate.rs`) | account layouts of v0.1 and v0.2 | one migration for a reserve and its oracle, one for `Global` | each reserve is of one version at any moment, no risk grows through an unmigrated account, nothing is re-anchored, whoever comes back can finish |
| Market set-up (`init_*`) | the accounts themselves | one instruction each | the initial states of the above |

### How they meet

- The lending instructions read three fields of an oracle: its rate, its health
  and the slot of its last refresh. `OracleContract` states what they may rely
  on; `AeraLending` uses any oracle that respects the fields' types, and
  `NativeOracle` and `MarketOracle` are both shown to implement the contract.
- A borrower's instruction decides on the values `refresh_obligation` cached.
  The slot and the stale flag are the only link between the two instructions.
- A reserve is shared: other users' instructions move its index, its share rate
  and its available liquidity between any two instructions of one user.
- Token balances live in another program. An instruction moves tokens and books
  together; a plain transfer or a burn, of the reserve's tokens or of share tokens,
  moves tokens alone.
- Parameters change under live positions, at once or out of a queue.
- A market-priced asset's reference lives in one account (`OracleState`), its
  history in another (`MarketOracleState`): `set_oracle` clears the first and
  leaves the second.
- During the migration the instructions of the new program meet accounts of both
  layouts; an instruction fails when one of its accounts is not of the type it
  names, and nothing else records how far the operator got.

### What is hard here

Stale values (the cached values of an obligation, a reference accepted under
other bounds, a queued change compared with another day's parameters), rounding
(nine conversions, each with a direction that has to favour the pool), the order
of legal instructions (first reading, confirmation, failure and reset; partial
liquidations down to a write-off; queue, replace, tighten, apply), limits (fees
larger than what is available, a pool fully lent out, allowances that pile up
with epochs, a ring that wraps), calls that come again (refreshing is free and
repeatable) and calls that do not come (a keeper that stops, an operator who
leaves a migration half done).
`PROJECT.json` lists each hazard at its line with the properties that watch it.

## 2. The modules

| Module | What it is |
| --- | --- |
| `AeraMath` | `math.rs` and the pure parts of `risk.rs`: every conversion with its rounding; `FitsU64` is the checked arithmetic |
| `ReserveMath` | the records `Reserve` and `ReserveConfig`, `validate`, and the methods of `Reserve`: utilization, rates, `accrue_interest`, shares to liquidity and back, `seize_shares_for` |
| `Sums` | the sum of a function over `1..n`, by a recursive function |
| `AeraLending` | the lending core as a state machine: one action per instruction |
| `LendingProperties` | what makes it correct |
| `OracleContract` | abstract: what the lending instructions rely on of any oracle |
| `NativeOracle` | the stake-pool oracle and its breaker |
| `NativeOracleProperties` | what makes it correct, and the refinement of `OracleContract` |
| `NativeOracleHistory` | the oracle with a memory of how its rate came to be trusted, for claims about the past |
| `DelayedChange` | abstract: the rule of delayed changes |
| `ParamTimelock` | the two queues and their shared delay |
| `ParamTimelockProperties` | the refinements of `DelayedChange`, with "no looser" judged by what the risk checks admit |
| `MarketOracle` | the oracle of a market-priced asset: ring, time-weighted average, breaker, pin of the AMM, queue of its configuration |
| `MarketOracleProperties` | what makes it correct, the refinement of `OracleContract` and a third one of `DelayedChange`, with "no looser" judged by what a refresh accepts and opens |
| `Migration` | the market between v0.1 and v0.2 |
| `MigrationProperties` | what it keeps meanwhile, and that it gets there |
| `MathProofs`, `LendingProofs`, `ShareProofs`, `SolvencyProofs`, `NativeOracleProofs`, `ParamTimelockProofs`, `MarketOracleProofs`, `MigrationProofs` | lemmas and theorems |
| `MCLending`, `MCNativeOracle`, `MCNativeOracleHistory`, `MCParamTimelock`, `MCMarketOracle`, `MCMigration` | small instances |
| `MCMarketKeeper` | the market oracle over endless time, for liveness |

### State and actions

`AeraLending`. The accounts are functions of small numbers: `reserve[r]`,
`oracle[r]`, `obligation[o]`, `position[w][r]`; the token accounts are `vault[r]`,
`wallet[w][r]`, `custody[o][r]` (the obligation's share vault) and `fee_shares[r]`.
A list of entries is a function with 0 for "no entry", because the code pushes
entries with a nonzero amount and removes them at zero. `require_accrued` is
`Accrued`, `require_fresh` is `Fresh`, `require_refreshed` is `Refreshed`. An
action's guard holds every early return and every checked subtraction or
conversion of its handler, since an instruction that errs changes nothing.
`RefreshOracle` leaves any report of the run in an oracle. `config[r]` is the
configuration in force and `SetConfig` puts another of `ConfigChanges[r]` in its
place at any moment: what `set_params` does at once and `apply_pending_params` in
its time, `ParamTimelock` deciding which and when. A liquidation empties the share
vault by two transfers, one of the liquidator's leg and one of the protocol's, and
lowers the obligation by what was computed before the split; each intermediate
result that the code narrows to a `u64` is among its guards (`SeizureDefined`). What
the token programs let anyone do without calling Aera is there as well: `Donate` to a
liquidity vault, `BurnShares`, and share tokens sent from wallet to wallet
(`SendShares`), to the share vault of an obligation (`SendSharesToVault`) and to and
from the fee destination (`SendSharesToFees`, `SendFeeShares`). Every share vault is
there from the start, as one is whose collateral was withdrawn before. Amounts, the
slot and the 64-bit limit are bounded by constants.

`NativeOracle`. The pool and the program behind it are one record `source` which
may change at any moment: what its bytes are is abstracted to what `observe()`
makes of them (a gross rate, a fee, an epoch, the previous epoch's rate,
readable or not, deploy slot and authority). `RefreshReads` and `RefreshFails`
are the two ways `refresh_oracle` succeeds, `ResetOracleBreaker` and `SetOracle`
the admin's instructions. The unit-of-account oracle is the same module with
another configuration; a market-priced configuration can be installed and is
then refused by every other instruction, as in the code.

`ParamTimelock`. `config` and `pending` are the reserve's, with whole
`ReserveConfig` records so that a tightening is decided field by field; `risk` is
the `RiskConfig` account with its own queue; both use `timelock`.

`MarketOracle`. The ring is the sequence `observations` with `next_index`, overwritten
in place as in the code; a `price` of 0 is "no reference", as `Reference` reads it.
A refresh is one action over any two pool states of the run: it reads both pools,
records an observation if the spacing allows, averages, asks the breaker, and
takes the lower of verdict and held price when it recorded nothing. `now` is the
unix time and stands for the slot; the AMM's program, `ProgramData` and deploy
slot are one number, since the code compares them together. `SetOracle` is
`set_oracle` as a market-priced oracle sees it.

`Migration`. `global` is the layout of `Global`, `points_to` which PDA a reserve's
oracle field holds, `price_feed` and `oracle` the two accounts. `MigrateReserveToV2`
and `MigrateGlobalToV2` are the two instructions; the lending instructions appear
with the accounts they ask for, on amounts counted in single units and with every
decision about value left open, because whether an amount is within its limit is
`AeraLending`'s business. The source is a rate per stake pool, which moves and fails;
an oracle has a kind (none, the constant one, the stake pool's, the market's), a
reference, a health and a slot. `RefreshAccepts` and `RefreshRefuses` judge a reading
by the emergency bound (`Near`), `RefreshMarketOracle` and `ResetOracleBreaker` are the
other two instructions that touch an oracle, so that a live, moved or frozen one can
be told from one that has just been anchored. The operator may stop after any
instruction.
`set_oracle` creates the oracle account of any reserve, migrated or not.

### Faulty variants

A definition whose comment calls it *a faulty variant* is used by nothing. It
stands beside the definition it varies (a dropped bound, a wrong rounding, a
missing reset) and `PROJECT.json` names, for every property of every passing
run, the variant under which TLC finds that property violated. They are how the
reader knows a property has teeth.

## 3. The runs

`FIXED_POINT_SCALE` and `BPS_DENOMINATOR` are small (4 or 10, and 10): the
properties speak of rounding, and small scales make every rounding case occur
at small amounts. `U64_MAX` is small for the same reason: the refusal of what
does not fit happens within the run.

| Run | Instance | States | Shows |
| --- | --- | --- | --- |
| `LendingBorrow` | two reserves (collateral, borrowed), one borrower, one liquidator, amounts 1 and 3, price 4, 2 or 1 at any moment, two slots | 249,633 | the books of reserve and obligation agree; payment, limits, seizure and its split round for the pool; no liquidation drives a position further under; a write-off costs the debt |
| `LendingSupply` | one reserve, one borrower, one supplier who also liquidates, fees, pauses, donations, share tokens burned and sent anywhere, higher interest and fees and lower caps at any moment, three slots | 148,791 | no subtraction underflows; vault, mirror and share vaults cover the books; neither share rate nor index falls, fees stay covered, repayment stays open |
| `LendingPool` | one reserve, two borrowers, a price that falls and an oracle that freezes at an unchanged price within a slot too, collateral that may be wound down (loan-to-value zero) and opened again at any moment | 90,238 | one borrower's acts leave the other's cached values good and bring it no nearer to its liquidation; every claim on the reserve is in its vault or owed to it |
| `NativeOracle` | seven configurations (native, tighter, repinned, unit with and without an emergency bound, and two that validation refuses or no refresh accepts), three rates, two fees, four epochs, two deployments | 252,912 | the five properties of `NativeOracleProperties` |
| `ParamTimelock` | six configurations, caps 0, 2, 4, shares 0 to 2, delays 0 to 2, four time units | 83,268 | both refinements of `DelayedChange`, nothing stale in a queue |
| `MarketOracle` | four configurations (two valid ones of which one is tighter and averages over another window, one repinned, one refused), three pool states of which one prices at nothing, a ring of three, four seconds, two deployments | 69,374 | the ring keeps its order, every fall comes through, rises are rationed, new risk rests on a history that stays long enough; the contract of an oracle, and the rule of delayed changes on one and the same average |
| `MarketKeeper` | one configuration, two pool states, a ring of three, unbounded time | 17,631 | the price reaches a steady market; bootstrap is left for good |
| `Migration` | two reserves, one obligation, amounts 0 and 1, rates 1 to 3, an emergency deviation of 2 | 68,916 | one source per reserve, both gates, no live oracle re-anchored past its breaker, and the migration ends |
| `AbsorbFees`, `EarlyTrust`, `RefreshedTwice`, `HalfMigrated` | as above | | the disagreements of section 4 |

Why the bounds suffice:

- Two slots let an obligation and an oracle be fresh, stale and fresh again, and
  let interest accrue once between borrowing and repaying, after which the
  index is above one and every rounding of scaled debt is exercised. `AbsorbFees`
  uses three slots, so that fees can outgrow what is left.
- In `LendingBorrow` amounts 1 and 3 against pools of 4 and 6 reach dust, the caps, full
  utilization and amounts that divide neither scale. The price falls to a half, where a
  liquidation is partial and can be repeated, and to a quarter, past both the borrow
  limit and the liquidation threshold, so leftovers and write-offs occur. Haircut,
  threshold and bonus of the run's collateral are together within 100%
  (`SeizesWithinThreshold`), so `LiquidationHeals` speaks of every liquidation of it.
  The protocol's share of the run (10) is above the bonus (5), as a share queued before
  the bonus came down leaves it, so that the clamp of the split decides what
  `SeizureBounded` bounds for the liquidator.
- `LendingSupply` has one amount, 3, for every instruction and for what is sent,
  and three slots: shares and tokens part from one another by interest and fees, a
  debt grows past its threshold at a price that stands still, and liquidations and
  write-offs follow while share tokens move about. The few shares
  there are suffice to leave a share vault with exactly the collateral recorded, with
  more, and empty.
- One borrower is enough where a property relates an obligation with its
  reserve; where two borrowers of a pool matter, `LendingPool` has two. With one
  borrower of a reserve its rounded debt is the pool's, so of the two losses that
  `LossIsTheDebt` allows a write-off in `LendingBorrow` makes the larger; the other
  is left to the theorem.
- `MCInit` of the lending runs starts from a supplied market, a state that
  `supply` reaches within slot 0; only `LendingSupply` needs suppliers to act.
- The oracle run has a rate inside, at and beyond the allowance and the
  emergency bound, more epochs than `STALE_EPOCHS_WARNING`, and configurations
  that differ from each other in the source, the pin, the bounds or the kind.
- The timelock run has more time than the longest delay twice over, and
  configurations that tighten, loosen, remove a cap, trade one term against
  another, or are refused.
- The market run has more seconds than the ring has places, so the ring wraps,
  and one gap longer than the age that freezes. Its pools agree, disagree, are
  too shallow, and are so thin that their price floors to nothing, which brings the
  average anywhere between nothing and the market and, once a whole history is of
  such pools, to nothing; the price rises by more and by less than the limit.
- In `MarketKeeper` the clock stands at `Horizon` and the stamps of the past
  recede instead, no further than to where no rule tells them apart any more
  (`HorizonAssumption`): only differences of times matter to a refresh, so a
  finite graph holds the infinite runs that liveness is about. The configuration
  is one in which the required span takes the whole ring.
- Two reserves in `Migration` are one migrated and one not; `HalfMigrated` needs
  a third, to borrow between two that are while one is not.

`CHECK_DEADLOCK FALSE` appears only in the lending configurations (`LendingBorrow`,
`LendingSupply`, `LendingPool`, `AbsorbFees`): the clock and the amounts are bounded
there, so a run may come to its end. Every other run keeps the deadlock check.

`TypeOK` is checked by `LendingSupply`, where it says that no subtraction underflows. The
type invariants of the other machines are proved (`OracleTyped`, `TimelockTyped`,
`MarketTyped`, `MigrationTyped`), for every instance, and no run repeats them.

In the lending runs any price of the run may be reported at any moment, within a
slot too, and in `LendingPool` and `LendingSupply` the reserve is reconfigured at
any moment, in the latter to caps below what is already supplied and borrowed and
to a reserve factor of 80%. A limit kept at one price or loan-to-value is not kept
at another, so `WithdrawalStaysInLimit` and `BorrowStaysInLimit` are stated of an
obligation whose cached values flatter nobody (`Unflattering`), and
`CachedValuesHold` says when that is: from a refresh on, whoever acts, the values hold
until one of three things nobody notices (`Revalued`: another price in the slot, a
write-off or another configuration where the collateral is), and the flag that
stands for the health of the oracles until a fourth (`Frozen`: an oracle that stops
permitting new risk in the slot). The withdrawal also supposes that `total_liquidity` of
the collateral's reserves returns (`Readable`), which a write-off may end
(`AbsorbFees`). `PoolIsSolvent` supposes the same of the fees (`FeesCovered`), and
`FeesStayCovered` that nothing but a write-off ends that. `OthersEndangerNobody` asks
of the state after the step that `total_liquidity` returns, since a refresh would fail
otherwise; what it excepts, `Endangers`, is what its owner chooses at a risk, a
liquidation, interest on its debt, and the three things of `Revalued`.
`CollateralInCustody` says that a share vault holds at least the collateral recorded,
which is what paying out and seizing need; that it holds exactly that much, as INV-13
of the repository's checker has it, is true only while nobody sends share tokens there.

### Fairness

Nothing schedules an on-chain program; every instruction is somebody's choice.
Fairness is assumed in two places, where the code says who is expected to come:

- `MarketKeeper`: weak fairness of time passing and of a refresh, which is open to
  everybody ("if our keeper stops, anyone can keep the oracle fresh",
  `refresh_market_oracle.rs`). Nobody is asked to be punctual: time may pass
  between two refreshes as often as it likes.
- `Migration`: the operator comes back. `migrate_global_to_v2` has weak fairness;
  `migrate_reserve_to_v2` needs a source that can be read at that moment, and the
  source may fail and recover, so it has strong fairness, and a source that has
  failed recovers some time. `Completes` is stated for the operators who do not
  create an unmigrated reserve's oracle with `set_oracle`, since that is final.

What must stay *possible*, whoever acts or not, is stated as such: `RepayStaysOpen`
says that repayment of the whole debt is enabled in every state in which
something is owed, and `FullRepaymentAccepted` that it passes each check of
`handle_repay`, which is the form in which it is proved.

## 4. Where code and documents disagree

Each of these four is a run that TLC ends with a trace; the documents' words are
quoted in `PROJECT.json`.

- `AbsorbFees`: `absorb_bad_debt` removes a debt and leaves the fees booked on
  it. If they exceed what remains of the pool, `total_liquidity` fails on its
  checked subtraction, and supplying and withdrawing fail with it.
- `EarlyTrust`: a refresh that fails or is refused overwrites `Bootstrapping`, and
  the next reading within bounds is `Healthy` in the epoch of the first.
- `RefreshedTwice`: the restriction that a gap in the market's history calls for
  lasts for one refresh. The refresh that closes the gap records an observation,
  the next one, in the same second, measures no gap and opens the market again.
- `HalfMigrated`: an obligation whose own reserves are migrated borrows while
  another reserve of the market is not, against "no action that increases
  anyone's risk may succeed" in a partly migrated market.

Other divergences met while modelling, which no run is kept for:

- The stale flag and the slot do not notice another price in the same slot, nor, in a
  reserve whose shares are collateral, a write-off or another configuration, nor an
  oracle that freezes in the slot. `CachedValuesHold` names the four, and
  `CachedValuesAlwaysHold` proves that there is no fifth. What the last comes to:
  `borrow` reads the oracle of the asset borrowed and of the collateral only the flag
  that `refresh_obligation` left, so a borrow goes through after a second refresh of the
  collateral's oracle has frozen it, at an unchanged price too, against "an oracle on
  *any* asset this position depends on that will not permit new risk stops the borrow"
  (`borrow.rs`). What another configuration comes to: `withdraw_collateral` takes the
  allowance of the shares removed, at the loan-to-value of now, from a limit cached at
  the one before; with a loan-to-value cut to zero in between it takes nothing, and the
  last collateral leaves a debt behind. The header of `withdraw_collateral.rs` promises
  an allowance "never higher than a full recompute would give", which holds of the
  rounding it speaks of and not across the cut. `LendingPool`, which has no liquidators,
  reaches `AbsorbBadDebt` this way.
- `set_params` and `apply_pending_params` do not accrue the reserve first, so the
  interest since the last accrual is charged at the rate that comes into force.
- At full utilization the debt exceeds `total_liquidity` by the fees booked, against
  INV-11 of the repository's own checker; a liquidation may seize the last share
  and leave debt, against INV-12, which is the state `absorb_bad_debt` is for.
- "An obligation's recorded collateral matches its share vault" (INV-13 of the
  repository's checker) is true until somebody sends share tokens to that vault; they
  are recorded nowhere and no instruction takes them out again. `CollateralInCustody`
  is what remains true and what paying out and seizing need.
- A refresh given an account that is not the pool program's `ProgramData` succeeds
  and records an emergency, where the comment says a wrong account is a hard error.
- Each accepted reading of the stake pool becomes the reference and has a whole
  epoch's allowance, so the movement in one epoch is not bounded by it.
- `MarketOracleConfig::validate` accepts a required span longer than a full ring of
  spaced observations covers (it "must leave room for the required observations inside
  the span, or bootstrap is unsatisfiable"): a keeper who records as often as he may
  then never leaves bootstrap. `BootstrapIsKept` names the case (`RingHoldsSpan`); the
  repository's tests use 32 places, 60 seconds and a span of 900, far from it.
- `MarketOracleConfig::is_tightening_from` compares every threshold and not
  `twap_window_seconds`. A configuration with another averaging window lands at once,
  and the history that is there may average higher under it, so that the next refresh
  takes a higher price or opens the market where it did not: against "a tightening lands
  immediately, a loosening waits out the global timelock" (`init_market_oracle.rs`).
  `JudgementFollowsTheRule` therefore compares two configurations on one and the same
  average; the tighter configuration of the run has another window and lands at once.
- `ReserveConfig::validate` bounds haircut, threshold and bonus each and not what they
  come to together. Where (1 - haircut) times threshold times (1 + bonus) exceeds one, a
  liquidation takes more off the limit than it takes off the debt, and repeating it
  drives the position under instead of healing it. The launch values (5%, 65%, 8%)
  come to 0.67. `LiquidationHeals` supposes `SeizesWithinThreshold` for this reason.
- `BreakerConfig::validate` asks for an emergency bound no smaller than the allowances,
  because the ordinary breaker would be dead code otherwise (breaker.rs:212), and
  accepts a bound of 0 with allowances of 0: then every reading held against a
  reference is an emergency, an unmoved one too, and a constant's oracle is shut by
  its second refresh. `CrankingBuysNothing` names the case.
- "B converges instead" (market_breaker.rs) needs a price whose product with the
  limit on a rise reaches 10000: below it one step of the limit floors to no step,
  and a rise beyond the limit is never taken. `ApproachesTheMarket` names the case.
- A pool whose token is worth less than one unit prices at zero and is taken. Once the
  history averages to zero, the fall is taken like any other and the reference becomes
  zero, which `Reference` reads as "none": the oracle that held a price has lost it and
  every valuation fails, until a refresh prices it as a first reading, without a limit
  on the rise. The contract of an oracle holds in everything but that refresh, which
  `KeepsContract` names (`PriceVanishes`); the run reaches it.
- `set_oracle` on a reserve that has not been migrated creates the account that
  `migrate_reserve_to_v2` insists on creating; that reserve can then never be
  migrated.
- `deposit_collateral`, and `liquidate` with it, ask for `Global` and so are shut
  until it is stamped, although neither adds risk.

## 5. The proofs

All theorems hold for every value of the constants under the named assumptions
of the modules that declare them (`ScaleAssumption`: positive scales;
`LendingAssumption`, `OracleAssumption`, `TimelockAssumption`, `MarketAssumption`,
`SampleAssumption`, `MigrationAssumption`: naturals and subsets, and the lending
configurations, `ConfigChanges` included, valid), which TLC evaluates on every run.
`FIXED_POINT_SCALE` and `BPS_DENOMINATOR` are any positive numbers, so the real
10^18 and 10000 are covered; so is `U64_MAX`.

**Lending** (`LendingProofs`, on `MathProofs`). The inductive
invariant is

    LendingInv == TypeOK /\ IndexAtLeastOne /\ VaultBacksBooks
                  /\ PrincipalMatches /\ CollateralInCustody

`IndexAtLeastOne` says that no borrow index is below one (INV-08). `TypeOK` alone is not
inductive: a repayment subtracts from the reserve's scaled debt an amount computed from
the obligation's, so its result is natural only because the two books agree
(`PrincipalMatches`), a payout needs `VaultBacksBooks`, a division needs the index to be
positive. One lemma per instruction (`SupplyKeeps`, `RepayKeeps`, ...) proves that it
keeps the whole invariant; `TotalsMoveTogether` says once, for borrow, repay, liquidate
and write-off, that both books move by the same amount. From it follow `LendingTyped`,
`PrincipalAlwaysMatches`, `VaultsBackBooks` and `CollateralAlwaysInCustody`, the last
against whatever share tokens anyone sends. Three action properties use the same
invariant: `IndexNeverFallsHolds`, by the monotonicity of the three floors of an
accrual, and `FullPaymentClearsHolds` and `DebtsArePaidHolds`, by
`FullPaymentRetiresPrincipal` and `PartialPaymentLeavesPrincipal` of `MathProofs`: the
debt rounded up and the principal retired rounded down meet exactly, at every index of
at least one. `PoolDebtIsAlwaysOwed` rests on `PrincipalMatches` and on one rounding up
being at most the sum of many.

`ShareProofs` adds `MirrorAlwaysCoversShares`: `MirrorCoversShares` is inductive
beside `LendingInv`, because a token moves between two of the three kinds of
accounts, or between two wallets, without loss or gain (`OneMoves`, `HandsChange`,
`WalletsExchange`), is minted and burned by the program together with the mirror, and
otherwise can only be burned (`TokensKeepMirror`).

The *share rate* is the second part of `ShareProofs`. `RateHolds(q)` is what a step owes
the holders of q's shares: a rate no lower, as fractions compared crosswise, and a
total that stays covered by the fees if it was. One lemma per instruction shows
it for every step but a write-off of q: a fee is part of the interest or of the
debt it comes with (`AccrueKeepsRate`, `BorrowKeepsRate`), a payment retires no
more than it pays (`PaymentKeepsRate`), minting and redeeming round down
(`SupplyHoldsRate`, `WithdrawHoldsRate`). `SharePriceHolds` and `FeesAreCovered` are
the two halves of it.

The *cached values* follow from the rate. `CachesAccrued` is inductive: what a
refreshed obligation touches has been accrued in this slot, so its indices stand
still until the slot ends. `ValuesKept` then says that a position whose entries,
prices and indices stand still and whose share rates do not fall is worth no
less and owes the same, through four nested floors that are each monotone; the
collateral's reserve has shares to divide by because the mirror covers the tokens
in custody (`SupplyBehindCollateral`). The flag of frozen oracles is a second, simpler
matter: what moves it without marking the obligation stale is a refresh of an oracle
(`StressStep`). Hence `CachedValuesAlwaysHold`, with exactly the exceptions `Revalued` and
`Frozen` name; a reserve that is not collateral may be reconfigured meanwhile, its
shares being worth nothing to the position before and after. `SeizureIsBounded`
multiplies out the four floors of a seizure (`SeizureWorth`) and shows that the split
leaves the liquidator what his payment bought before the bonus, because the
protocol's part is clamped to the bonus (`SplitLeavesWorth`).

**Solvency and limits** (`SolvencyProofs`). `PoolIsAlwaysSolvent` is what the books
are for: what every holder of shares can redeem, each rounded on its own, and the
booked fees are together no more than the vault and what the borrowers owe, each
rounded on its own (INV-03 of the repository's checker, without its tolerance for
rounding). The chain goes over all four books: the claims of a family of holders are
no more than the claim of their sum (`ClaimsOfFamily`), the sum is within the mirror
(`MirrorCoversShares`), the mirror's claim is `total_liquidity` (`ClaimsWithinTotal`),
what is available is in the vault (`VaultBacksBooks`), and one rounding up of the
pool's debt is within the roundings up of its borrowers' (`PoolDebtIsOwed`).

`WithdrawalAlwaysInLimit`: the allowance of a deposit is four nested floors, the
allowance of what is removed is computed with the same steps rounded up
(`RemovedAllowance`), and a floor of a whole is at most the floor of what is left and
the ceiling of what is taken (`FloorSplits`); `AllowanceSplits` carries that through
the four steps. `BorrowingAlwaysInLimit` is the same argument upwards: the code adds
the value of a new debt to a cached one where a refresh values the rounded sum, and
the two differ by at most the value of one unit of principal (`CeilSplits`,
`NewDebtWorth`), which is `BorrowSlack`. `FullRepaymentAlwaysAccepted` takes the checks
of `repay` one by one; the two checked subtractions succeed because the books agree
(`PrincipalMatches`).

`LiquidationAlwaysHeals` weighs the two sides of a liquidation against each other.
The worth of the payment leaves the debt, up to the value of one unit of principal
(`LiquidationLowersDebt`, where a ceiling of what is left and a floor of what is paid
make up at most the ceiling of the whole, `CeilPlusFloor`); what is seized leaves
the limit with its weight rounded up (`LiquidationLowersLimit`), which under
`SeizesWithinThreshold` is at most the payment's worth and one
(`SeizureWithinThreshold`). So repeating a liquidation, at whatever amounts, moves a
position under by rounding at most, and what drives one into a write-off is the price.

`OthersNeverEndanger` is the counterpart for everything that is not a liquidation.
A step that does not endanger a position eases it, that is, lowers no deposit and
raises no debt of it (`EntriesEased`, one case per instruction); at unchanged
prices and indices smaller principals are a smaller debt (`DebtsEased`, a sum of
two nested ceilings); and at share rates that do not fall, which is `RateStep`, no
fewer shares have no lower limit (`LimitEased`, four nested floors taken in two
comparisons: the old shares at the old and the new rate, then the old and the new
shares at the new rate). Together with `CachedValuesAlwaysHold` it says what a borrower
has to watch: the price, the index of its debts, the configuration of its
collateral and write-offs there, and nothing else anyone does.

`LossIsAlwaysTheDebt` says what a write-off costs: `total_liquidity` falls by the debt of
the borrower, rounded up, or by one less, because the pool rounds the sum of all
debts once (`LossStep`, from `CeilSplits` and `PrincipalMatches`).

**Oracle** (`NativeOracleProofs`).

    OracleInv == TypeOK /\ NewRiskIsBounded /\ (PermitsNewRisk => IsSet(reference))

The last conjunct is the strengthening: a refresh that refuses a reading keeps
the old reference and may leave the oracle frozen, and only the conjunction of
health, reference and bounds survives every order of refreshes, resets and
reconfigurations. `OracleKeepsContract` is the refinement: the initial states
map to initial states, and every step of `NativeOracle` maps to a `Tick`, a
`Refresh` or a `Reconfigure` of `OracleContract`, or to a stutter.
`RatesAlwaysFromTheSource` and `JumpsAlwaysNeedTheAdmin` rest on one analysis of who
writes the reference (`WhoWritesTheReference`): a refresh that records what it
observed, or the admin. `CrankingNeverBuysAnything` judges a reading twice: what was
accepted has not moved from itself and is judged again under the health it has just
left (`AcceptedAgain`), what was refused against a reference is refused under any
health (`RefusedWhateverTheHealth`), and what was refused without one meets the same
source.

**Timelock** (`ParamTimelockProofs`). `TighteningIsNoLooser` is the heart: for
every two configurations that `is_tightening_from` accepts, and at every amount,
nothing is admitted that was refused before. It turns a comparison of fields
into a statement about the risk checks, including the zero that means "no cap"
and the product of haircut and loan-to-value. With `TimelockInv` (typed,
validated, nothing queued that need not wait) both refinements of
`DelayedChange` follow: `ParamsAlwaysFollow` and `RiskAlwaysFollows`.

**Market oracle** (`MarketOracleProofs`).

    MarketInv == TypeOK /\ UpTo(observations, now) /\ NewRiskRestsOnHistory
                 /\ (observations = <<>> => price = 0)

The second conjunct says that no observation is of the future: with it the newest
observation always weighs something, the weights of the average do not add up to
nothing, and the average lies between the least and the greatest price in the ring
(`TwapBounds`). What the breaker promises is then a matter of one refresh
(`RefreshIsSound`). Every property of the run is proved: `NewRiskAlwaysRestsOnHistory`,
`NeverAboveWhatWasSeenHolds`, `RisesAreAlwaysRationed`, `RingStaysInOrder` (on the
arithmetic of places modulo the length of the ring), `MarketKeepsContract`, at any
prices of the pools and but for `PriceVanishes` (a ring without a price of nothing
averages to something, `Costly`), and `JudgementAlwaysFollows` on
`MarketTighteningIsNoLooser`, which compares what two configurations do with the same
reading at one and the same average; where the averaging window is unchanged that is the
average of every history (its second part), and what a change of the window does to the
average is outside the rule, as it is outside `is_tightening_from`.
`AlwaysApproachesTheMarket` is the step that `Converges` takes again and again: over a
ring of one price, a refresh falls to it at once, never passes it, and with a recorded
observation of sound pools moves up to it, as long as the limit on a rise does not floor
to nothing (`RiseMovesOn`). That the steps arrive is TLC's. `BootstrapIsAlwaysKept` is
about what the ring forgets: while the configuration stands the observations stay spaced
(`Spaced`, which needs the order of the ring), and a full ring of spaced observations
spans `OBSERVATION_CAPACITY - 1` spacings whichever one was overwritten, so where that
covers the span asked for (`RingHoldsSpan`), a history that was long enough stays so.

**Migration** (`MigrationProofs`). The invariant adds to typing and `OneSource` that
what `refresh_obligation` found of an obligation in this slot stands only over migrated
reserves (`FoundOverMigrated`): `borrow` looks at one reserve and trusts the finding for
the others, and that new risk is permitted only on a reference (`OpenOnAReference`).
`RiskAlwaysNeedsBothGates` and `LiveNeverReanchored` follow: nothing, a migration run a
second time included, moves the reference of an anchored oracle but a reading within the
emergency bound, the admin's reset, or `set_oracle`, which drops it and shuts new risk;
and what was shut opens only on a reading. `MigrationIsFinal` is the half of `Completes`
that needs no fairness: once every reserve and `Global` are of the new version they stay
so, whatever follows. That this is reached is TLC's.

**Only model-checked**, being outside what the prover handles: `RepayStaysOpen`, an
`ENABLED`, whose content `FullRepaymentAlwaysAccepted` proves guard by guard; and the
liveness properties `Converges`, of which `AlwaysApproachesTheMarket` proves the step,
`LeavesBootstrap`, whose result `BootstrapIsAlwaysKept` shows to last, and `Completes`, of
which `MigrationIsFinal` proves the staying.

`Sums` is a recursive function whose defining equation is proved in `MathProofs`
by the least counterexample, from the library's theorem that the naturals are
well founded.

## 6. What is not modelled

- **Account validation** (`has_one`, PDA seeds, owners, signers): Anchor does it
  before a handler runs; the modules start where the handler starts. The one
  place where it decides an outcome, the `ProgramData` handed to `refresh_oracle`,
  is in the model.
- **Bytes**: parsing of stake-pool and loader accounts, serialization, events.
- **Token programs**: modelled from how the handlers call them, as balances.
- **The overflow of 128-bit intermediates** in `mul_div`: a product past 128 bits
  is refused by the code and computed by the model. The narrowing to 64 bits, which
  every amount passes, is modelled. Statements that something stays possible
  (`RepayStaysOpen`) therefore speak of indexes and rates whose products fit.
- **`RiskConfig` while the market runs**: `ParamTimelock` changes it, to `AeraLending` it
  is a constant, read at the moment of a borrow or a seizure and cached by nobody.
- **Views** (`supply_rate`, health factor), launch numbers, token metadata.
- **Transfers of the admin key and the fee destination**: single assignments.
- **The market oracle's accounts** (which two pools, which AMM): validated before the
  handler starts; the deploy slot stands for the AMM's identity.
- **Slots of one second**: the market's clock counts seconds and stands for the slot.
- **`supply`, `withdraw`, `accrue` and the admin's instructions during a migration**:
  they touch nothing the migration's properties speak of.

## 7. The plan

The order is by weight: money first, then the price, then the parameters.

1. *Done.* `AeraMath`, `ReserveMath`, `AeraLending`, `LendingProperties` and their
   proofs: `LendingInv`, typing, four invariants, three action properties.
2. *Done.* `OracleContract`, `NativeOracle`, `NativeOracleProperties`,
   `NativeOracleHistory`, the proofs of the contract and of two action properties.
3. *Done.* `DelayedChange`, `ParamTimelock`, both refinements proved.
4. *Done.* `MarketOracle`, `MarketOracleProperties`: the ring, the average, the
   breaker, as a second implementation of `OracleContract`; every property of its
   run proved. `MCMarketKeeper`: convergence and the end of bootstrap.
5. *Done.* The market configuration's queue as a third refinement of `DelayedChange`.
6. *Done.* `Migration`, `MigrationProperties`: the mixed population of account layouts,
   an operator who stops anywhere, and the end of the migration.
7. *Done.* The share rate, the fees, the cached values and the seizure, proved, and
   the reserves' configurations changing under the running market.
8. *Done.* Solvency of the pool, both borrow limits and the openness of repayment
   proved, for prices and configurations that move at any moment; cranking and the
   approach to the market proved.
9. *Done.* What a liquidation and a write-off cost and what others can do to a
   position, proved; the history that lasts and the migration that is final.
10. Left: a composition of `AeraLending` with `NativeOracle` in place of the reports
   of a run, which the contract makes unnecessary for safety and the product of the
   two state spaces makes expensive for TLC; what another averaging window makes of a
   history, as a bound; the admin's key transfers.

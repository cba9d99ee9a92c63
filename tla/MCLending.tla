------------------------------ MODULE MCLending -------------------------------
(***************************************************************************)
(* A small market for TLC: reserve 1 is a staking receipt that serves as   *)
(* collateral and cannot be borrowed, reserve 2 the token borrowed against *)
(* it, as at the launch.  Wallets 1.. are the borrowers, the last wallet   *)
(* is supplier and liquidator.                                             *)
(***************************************************************************)
EXTENDS LendingProperties

CONSTANTS
  Pool,            \* what the suppliers put into each reserve before the run
  Opening,         \* share tokens of reserve 1 each borrower starts with
  InitialRate      \* rate each oracle holds at the start

MCConfig ==
  <<[loan_to_value_bps |-> 5, liquidation_threshold_bps |-> 7,
     liquidation_bonus_bps |-> 5, close_factor_bps |-> 5,
     collateral_haircut_bps |-> 1,
     optimal_utilization_bps |-> 8, min_borrow_rate_bps |-> 0,
     optimal_borrow_rate_bps |-> 2, max_borrow_rate_bps |-> 10,
     reserve_factor_bps |-> 3, origination_fee_bps |-> 0,
     supply_cap |-> 0, borrow_cap |-> 0, per_wallet_supply_cap |-> 0,
     borrow_enabled |-> FALSE, collateral_enabled |-> TRUE, isolated |-> FALSE,
     slots_per_year |-> 1],
    [loan_to_value_bps |-> 0, liquidation_threshold_bps |-> 0,
     liquidation_bonus_bps |-> 0, close_factor_bps |-> 5,
     collateral_haircut_bps |-> 0,
     optimal_utilization_bps |-> 5, min_borrow_rate_bps |-> 2,
     optimal_borrow_rate_bps |-> 5, max_borrow_rate_bps |-> 10,
     reserve_factor_bps |-> 5, origination_fee_bps |-> 3,
     supply_cap |-> 12, borrow_cap |-> 8, per_wallet_supply_cap |-> 10,
     borrow_enabled |-> TRUE, collateral_enabled |-> FALSE, isolated |-> FALSE,
     slots_per_year |-> 1]>>

\* The same with fees within the program's own limits (30% of interest).
ModestFees == [MCConfig EXCEPT ![2].reserve_factor_bps = 3, ![2].origination_fee_bps = 0]

\* A market of one token, its shares the collateral for borrowing it.
OneConfig ==
  <<[loan_to_value_bps |-> 8, liquidation_threshold_bps |-> 9,
     liquidation_bonus_bps |-> 5, close_factor_bps |-> 5,
     collateral_haircut_bps |-> 1,
     optimal_utilization_bps |-> 3, min_borrow_rate_bps |-> 2,
     optimal_borrow_rate_bps |-> 5, max_borrow_rate_bps |-> 10,
     reserve_factor_bps |-> 5, origination_fee_bps |-> 4,
     supply_cap |-> 11, borrow_cap |-> 6, per_wallet_supply_cap |-> 9,
     borrow_enabled |-> TRUE, collateral_enabled |-> TRUE, isolated |-> FALSE,
     slots_per_year |-> 1]>>

\* The same without a fee on what is borrowed.
NoBorrowFee == [OneConfig EXCEPT ![1].origination_fee_bps = 0]

\* No share token moves but by an instruction, or those of the one reserve are sent
\* about and burned, three at a time.
NoShares   == [r \in Reserves |-> {}]
SentShares == <<{3}>>

\* Nothing is reconfigured.
NoChanges == [r \in Reserves |-> {}]

\* The one reserve is wound down, its collateral counting for less, and may be
\* opened again.
WoundDown ==
  [NoBorrowFee[1] EXCEPT !.loan_to_value_bps = 0, !.liquidation_threshold_bps = 6,
                         !.collateral_haircut_bps = 3, !.borrow_enabled = FALSE,
                         !.collateral_enabled = FALSE]
DownAndUp == <<{WoundDown, NoBorrowFee[1]}>>

\* The one reserve charges more interest, most of it fees, so that a debt may grow
\* into its liquidation at a price that stands still, and its caps drop below what
\* is already supplied and borrowed.
OneRepriced ==
  <<{[OneConfig[1] EXCEPT !.reserve_factor_bps = 8, !.min_borrow_rate_bps = 5,
                          !.optimal_borrow_rate_bps = 9, !.supply_cap = 4,
                          !.borrow_cap = 2]}>>

\* The protocol's share is above the bonus, as a share that was queued and applied
\* after the bonus came down leaves it: the clamp of the split decides.
MCRisk ==
  <<[per_wallet_borrow_cap |-> 0, protocol_liquidation_share_bps |-> 10],
    [per_wallet_borrow_cap |-> 6, protocol_liquidation_share_bps |-> 0]>>

MCTokenUnit == <<1, 1>>

OneRisk      == <<[per_wallet_borrow_cap |-> 5, protocol_liquidation_share_bps |-> 10]>>
OneTokenUnit == <<1>>

Report(rate, health) == [rate |-> rate, health |-> health]

LastWallet == {NumWallets}

\* Reserve 1 may be reported at a lower rate; reserve 2 is the unit.
FallingReports == <<{Report(4, "Healthy"), Report(2, "Emergency"), Report(1, "Emergency")},
                    {Report(1, "Healthy")}>>
CollapsingReports == <<{Report(10, "Healthy"), Report(1, "Emergency")},
                       {Report(1, "Healthy")}>>

OneSteadyReport == <<{Report(1, "Healthy")}>>

\* The price of the one reserve falls from its first one, within a slot too, and the
\* oracle may be frozen at the price it has.
OneFallingReport == <<{Report(1, "Healthy"), Report(1, "Emergency")}>>

MCPool == <<4, 6>>
OnePool == <<6>>
SharedPool == <<8>>
MCInitialRate == <<4, 1>>
HighInitialRate == <<10, 1>>
SmallPool == <<1, 4>>
OneInitialRate == <<1>>
OneHighRate == <<2>>

\* The market once Pool has been supplied at one share per token, the borrowers'
\* opening shares of reserve 1 by the borrowers and the rest by the last wallet:
\* a state that supply reaches from Init within slot 0.
MCInit ==
  /\ slot = 0
  /\ config = [r \in Reserves |-> Config[r]]
  /\ global = [paused |-> FALSE, borrow_paused |-> FALSE]
  /\ reserve = [r \in Reserves |->
                  [EmptyReserve(0) EXCEPT !.available_liquidity = Pool[r],
                                          !.share_mint_supply = Pool[r]]]
  /\ oracle = [r \in Reserves |-> [rate |-> InitialRate[r], health |-> "Healthy",
                                   last_refresh_slot |-> 0]]
  /\ obligation = [o \in Owners |-> NewObligation]
  /\ vault = Pool
  /\ wallet = [w \in Wallets |-> [r \in Reserves |->
                 CASE w \in Owners -> IF r = 1 THEN Opening ELSE 0
                   [] w = NumWallets -> Pool[r] - (IF r = 1 THEN NumOwners * Opening ELSE 0)
                   [] OTHER -> 0]]
  /\ position = wallet
  /\ custody = [o \in Owners |-> [r \in Reserves |-> 0]]
  /\ fee_shares = [r \in Reserves |-> 0]

MCSpec == MCInit /\ [][Next]_vars
===============================================================================

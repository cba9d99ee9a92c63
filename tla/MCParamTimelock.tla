--------------------------- MODULE MCParamTimelock ----------------------------
(***************************************************************************)
(* A reserve for TLC and the configurations its admin may ask for: tighter *)
(* and looser ones, one that removes a cap, one that trades a lower        *)
(* loan-to-value for a smaller haircut, one with other rates, and one that *)
(* validate refuses.                                                       *)
(***************************************************************************)
EXTENDS ParamTimelockProperties

MCBase ==
  [DefaultConfig EXCEPT
     !.loan_to_value_bps = 6, !.liquidation_threshold_bps = 7,
     !.liquidation_bonus_bps = 1, !.close_factor_bps = 5,
     !.collateral_haircut_bps = 2, !.optimal_utilization_bps = 8,
     !.max_borrow_rate_bps = 2, !.reserve_factor_bps = 1,
     !.origination_fee_bps = 1, !.supply_cap = 8, !.borrow_cap = 4,
     !.borrow_enabled = TRUE, !.collateral_enabled = TRUE, !.slots_per_year = 1]

MCTighter ==
  [MCBase EXCEPT !.loan_to_value_bps = 5, !.supply_cap = 6, !.per_wallet_supply_cap = 3,
                 !.borrow_enabled = FALSE]

MCUncapped == [MCBase EXCEPT !.supply_cap = 0]

MCTraded == [MCBase EXCEPT !.loan_to_value_bps = 5, !.collateral_haircut_bps = 1]

MCDearer == [MCTighter EXCEPT !.max_borrow_rate_bps = 3, !.liquidation_bonus_bps = 0]

MCInvalid == [MCBase EXCEPT !.loan_to_value_bps = 8]

MCConfigs == {MCBase, MCTighter, MCUncapped, MCTraded, MCDearer, MCInvalid}
===============================================================================

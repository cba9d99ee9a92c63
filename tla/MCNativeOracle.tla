---------------------------- MODULE MCNativeOracle ----------------------------
(***************************************************************************)
(* An oracle for TLC: the native configuration, a second one with tighter  *)
(* bounds over the same source, one pinned to the next deployment, and the *)
(* unit of account, with and without an emergency bound.                   *)
(***************************************************************************)
EXTENDS NativeOracleProperties

MCNative ==
  [kind |-> "NativeExchangeRate", account |-> TRUE, max_withdrawal_fee_bps |-> 2,
   rate_floor |-> 5, rate_ceiling |-> 20,
   expected_deploy_slot |-> 1, expected_upgrade_authority |-> "team",
   max_up_bps_per_epoch |-> 1, max_down_bps_per_epoch |-> 1,
   emergency_deviation_bps |-> 3, max_epoch_allowance |-> 4]

MCTighter ==
  [MCNative EXCEPT !.max_withdrawal_fee_bps = 0, !.rate_ceiling = 12,
                   !.max_down_bps_per_epoch = 0]

MCRepinned == [MCNative EXCEPT !.expected_deploy_slot = 2]

MCUnit ==
  [kind |-> "UnitOfAccount", account |-> FALSE, max_withdrawal_fee_bps |-> 0,
   rate_floor |-> FIXED_POINT_SCALE, rate_ceiling |-> FIXED_POINT_SCALE,
   expected_deploy_slot |-> 0, expected_upgrade_authority |-> "none",
   max_up_bps_per_epoch |-> 0, max_down_bps_per_epoch |-> 0,
   emergency_deviation_bps |-> 1, max_epoch_allowance |-> 1]

\* Valid, and an emergency from its second reading on.
MCUnbounded == [MCUnit EXCEPT !.emergency_deviation_bps = 0]

\* Two the code refuses: an emergency bound below the allowance, and a market
\* oracle that names a source.
MCInverted == [MCNative EXCEPT !.emergency_deviation_bps = 0]

MCMarket == [MCUnit EXCEPT !.kind = "MarketTwap"]

MCConfigs == {MCNative, MCTighter, MCRepinned, MCUnit, MCUnbounded, MCInverted, MCMarket}

OneConfiguration == {MCNative}

MCAuthorities == {"team", "none"}
===============================================================================

---------------------------- MODULE MCMarketOracle ----------------------------
(***************************************************************************)
(* A market oracle for TLC over pools of a few states: the launch-like     *)
(* configuration, a tighter one whose averaging window is another, one for *)
(* the next deployment of the AMM, and one that validation refuses.        *)
(***************************************************************************)
EXTENDS MarketOracleProperties

MCMarket ==
  [expected_deploy_slot |-> 1, twap_window_seconds |-> 2,
   min_observations |-> 2, min_span_seconds |-> 2, min_spacing_seconds |-> 1,
   max_observation_age_seconds |-> 3, warn_age_seconds |-> 2,
   max_cross_pool_deviation_bps |-> 3, min_pool_quote_depth |-> 4,
   max_rise_bps_per_window |-> 5]

MCTighter ==
  [MCMarket EXCEPT !.twap_window_seconds = 1, !.min_observations = 3, !.min_spacing_seconds = 2,
                   !.max_cross_pool_deviation_bps = 1, !.max_rise_bps_per_window = 2]

MCRepinned == [MCMarket EXCEPT !.expected_deploy_slot = 2]

MCUnspaced == [MCMarket EXCEPT !.min_observations = 1, !.min_spacing_seconds = 0]

MCConfigs == {MCMarket, MCTighter, MCRepinned, MCUnspaced}

OneConfiguration == {MCMarket}

Pool(collateral, quote) == [collateral |-> collateral, quote |-> quote]

\* Prices 10, 8 and nothing: a deep pool, a shallow one, and a deep one whose token
\* is worth less than a unit.  A history of both 10 and nothing averages in between.
MCPools == {Pool(2, 5), Pool(1, 2), Pool(17, 4)}
===============================================================================

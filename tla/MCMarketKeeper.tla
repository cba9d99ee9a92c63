---------------------------- MODULE MCMarketKeeper ----------------------------
(***************************************************************************)
(* A market oracle that somebody keeps refreshing, for as long as it takes.*)
(* Only differences of times matter to it, so the clock stands still at    *)
(* Horizon and the past recedes instead: a finite graph of infinite runs.  *)
(* A stamp recedes no further than to the bottom, where each observation   *)
(* keeps its place; Horizon is large enough that nothing there is inside   *)
(* the window, the spacing or the age limit, or short of the span.         *)
(*                                                                         *)
(* At some moment both pools may come to rest in one state.  The admin and *)
(* the AMM's deployer do nothing.                                          *)
(***************************************************************************)
EXTENDS MarketOracle

CONSTANTS Horizon, NoPool

VARIABLE resting  \* the state both pools stay in from now on, or NoPool

keeper_vars == <<vars, resting>>

ASSUME HorizonAssumption ==
  \A cfg \in Configs :
    Horizon - OBSERVATION_CAPACITY >=
      AtLeast(AtLeast(cfg.twap_window_seconds, cfg.max_observation_age_seconds),
              cfg.min_span_seconds + cfg.min_spacing_seconds)

MCMarket ==
  [expected_deploy_slot |-> 1, twap_window_seconds |-> 3,
   min_observations |-> 3, min_span_seconds |-> 4, min_spacing_seconds |-> 2,
   max_observation_age_seconds |-> 4, warn_age_seconds |-> 3,
   max_cross_pool_deviation_bps |-> 3, min_pool_quote_depth |-> 4,
   max_rise_bps_per_window |-> 5]

MCConfigs == {MCMarket}

Pool(collateral, quote) == [collateral |-> collateral, quote |-> quote]

\* Prices 4 and 10, too far apart to agree.
MCPools == {Pool(4, 4), Pool(2, 5)}

\* How many observations are older.
Bottom(i) ==
  Len(SelectSeq(observations,
                LAMBDA o : o.unix_timestamp < observations[i].unix_timestamp))

PassTime ==
  /\ observations' =
       [i \in DOMAIN observations |->
          [observations[i] EXCEPT !.unix_timestamp = AtLeast(@ - 1, Bottom(i))]]
  /\ last_refresh_slot' = 0
  /\ UNCHANGED <<now, amm_deploy, param_vars, next_index, price, health, resting>>

Refresh ==
  /\ \E a, b \in Pools :
       /\ resting # NoPool => a = resting /\ b = resting
       /\ RefreshMarketOracle(a, b)
  /\ UNCHANGED resting

ComeToRest ==
  /\ resting = NoPool
  /\ resting' \in Pools
  /\ UNCHANGED vars

\* Init with the clock at the horizon.
KeeperInit ==
  /\ now = Horizon
  /\ amm_deploy = 1
  /\ config \in Configs
  /\ pending = NoPending
  /\ observations = <<>>
  /\ next_index = 0
  /\ price = 0
  /\ health = "BorrowFrozen"
  /\ last_refresh_slot = 0
  /\ resting = NoPool

KeeperNext == PassTime \/ Refresh \/ ComeToRest

\* Time passes, and refreshing is open to everybody: "if our keeper stops, anyone
\* can keep the oracle fresh" (refresh_market_oracle.rs).  Neither is asked to be
\* punctual.
Fairness == WF_keeper_vars(PassTime) /\ WF_keeper_vars(Refresh)

KeeperSpec == KeeperInit /\ [][KeeperNext]_keeper_vars /\ Fairness

\* "B converges instead" (market_breaker.rs): once both pools have come to rest in
\* a state that is not degraded, the accepted price reaches theirs and stays, from
\* any history and however far below it was, at whatever moments it is refreshed.
Converges ==
  \A pool \in Pools :
    resting = pool /\ ~ Degraded(pool, pool, config)
      ~> [](price = spot_price(pool))

\* Bootstrap is satisfiable (MarketOracleConfig::validate): whatever the pools do,
\* an oracle that is refreshed leaves it for good, and the ring that forgets its
\* oldest observation does not take it back.
LeavesBootstrap == <>[](health # "Bootstrapping")
===============================================================================

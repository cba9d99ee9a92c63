----------------------------- MODULE MarketOracle -----------------------------
(***************************************************************************)
(* The oracle of a market-priced asset: state/market_oracle.rs,            *)
(* oracle/market_breaker.rs, instructions/refresh_market_oracle.rs and     *)
(* admin/init_market_oracle.rs.                                            *)
(*                                                                         *)
(* Two AMM pools are outside: a refresh finds any two pool states of the   *)
(* run, and the AMM's program may be redeployed.  now is the unix time in  *)
(* units of the run, and stands for the slot too: slots of one second are  *)
(* not told apart.  The AMM's identity in the configuration (its program,  *)
(* ProgramData and deploy slot) is its deploy slot.                        *)
(*                                                                         *)
(* set_oracle appears by what it does to an oracle that is market-priced   *)
(* before and after; while it has another kind it is NativeOracle's, and   *)
(* coming back is a change of source.  Left out: account validation, the   *)
(* overflow of u128, and the diagnostics no instruction reads.             *)
(***************************************************************************)
EXTENDS AeraMath, Sequences, Sums

CONSTANTS
  Configs,                          \* what the admin may ask for
  Pools,                            \* states a pool may be found in: its two reserves
  COLLATERAL_UNIT, QUOTE_UNIT,      \* 10^decimals of the two mints
  OBSERVATION_CAPACITY,
  MAX_DEVIATION_BPS, MAX_AGE_SECONDS, MAX_RISE_BPS,
  MIN_SPAN_SECONDS, MAX_TWAP_WINDOW_SECONDS,
  PARAM_TIMELOCK_SECONDS,           \* Global's; its changes are ParamTimelock's
  MaxDeploy,                        \* bound on the redeployments of the AMM
  MaxTime                           \* bound on the clock of a run

VARIABLES
  now,
  amm_deploy,         \* the slot the AMM's program was last deployed at
  config,
  pending,            \* [config, eta]: a queued loosening; an eta of 0 is none
  observations,       \* the ring: a sequence of [price, unix_timestamp]
  next_index,
  price,              \* Reference of OracleState; 0 stands for none
  health,
  last_refresh_slot

oracle_vars == <<price, health, last_refresh_slot>>
ring_vars   == <<observations, next_index>>
param_vars  == <<config, pending>>

vars == <<now, amm_deploy, param_vars, ring_vars, oracle_vars>>

MarketOracleConfig ==
  [expected_deploy_slot : Nat, twap_window_seconds : Nat,
   min_observations : Nat, min_span_seconds : Nat, min_spacing_seconds : Nat,
   max_observation_age_seconds : Nat, warn_age_seconds : Nat,
   max_cross_pool_deviation_bps : Nat, min_pool_quote_depth : Nat,
   max_rise_bps_per_window : Nat]

PoolState == [collateral : Nat, quote : Nat]

ASSUME MarketAssumption ==
  /\ Configs \subseteq MarketOracleConfig
  /\ Pools \subseteq PoolState
  /\ COLLATERAL_UNIT \in Nat \ {0}
  /\ QUOTE_UNIT \in Nat \ {0}
  /\ OBSERVATION_CAPACITY \in Nat \ {0}
  /\ {MAX_DEVIATION_BPS, MAX_AGE_SECONDS, MAX_RISE_BPS, MIN_SPAN_SECONDS,
      MAX_TWAP_WINDOW_SECONDS, PARAM_TIMELOCK_SECONDS} \subseteq Nat
  /\ MaxDeploy \in Nat
  /\ MaxTime \in Nat

\* MarketOracleConfig::validate
ValidMarketConfig(cfg) ==
  /\ cfg.max_cross_pool_deviation_bps \in 1..MAX_DEVIATION_BPS
  /\ cfg.max_observation_age_seconds \in 1..MAX_AGE_SECONDS
  /\ cfg.max_rise_bps_per_window \in 1..MAX_RISE_BPS
  /\ cfg.min_span_seconds >= MIN_SPAN_SECONDS
  /\ cfg.twap_window_seconds \in 1..MAX_TWAP_WINDOW_SECONDS
  /\ cfg.min_observations \in 2..OBSERVATION_CAPACITY
  /\ cfg.min_spacing_seconds > 0
  /\ cfg.min_spacing_seconds * (cfg.min_observations - 1) <= 4 * cfg.min_span_seconds
  /\ cfg.warn_age_seconds < cfg.max_observation_age_seconds

Observation == [price : Nat, unix_timestamp : Nat]

OracleHealth == {"Healthy", "RateWarning", "BorrowFrozen", "Emergency", "Bootstrapping"}

TypeOK ==
  /\ now \in Nat \ {0}
  /\ amm_deploy \in Nat
  /\ config \in MarketOracleConfig /\ ValidMarketConfig(config)
  /\ pending \in [config : MarketOracleConfig, eta : Nat]
  /\ pending.eta # 0 => ValidMarketConfig(pending.config)
  /\ observations \in Seq(Observation)
  /\ Len(observations) <= OBSERVATION_CAPACITY
  /\ next_index \in 0..(OBSERVATION_CAPACITY - 1)
  /\ price \in Nat
  /\ health \in OracleHealth
  /\ last_refresh_slot \in Nat

-------------------------------------------------------------------------------
\* The history.  The code sorts the ring by time; here each observation finds
\* those after it.

Stamps(ring) == {ring[i].unix_timestamp : i \in DOMAIN ring}

Newest(ring) == CHOOSE t \in Stamps(ring) : \A u \in Stamps(ring) : u <= t
Oldest(ring) == CHOOSE t \in Stamps(ring) : \A u \in Stamps(ring) : t <= u

Later(ring, i) == {t \in Stamps(ring) : t > ring[i].unix_timestamp}

\* How long an observation stood inside the window before the next replaced it.
\* The newest stands to this moment, and for one second at least.
Weight(ring, i, time, window) ==
  LET cutoff == saturating_sub(time, window)
      from   == AtLeast(ring[i].unix_timestamp, cutoff)
      later  == Later(ring, i)
  IN IF later = {} THEN AtLeast(time, from + 1) - from
     ELSE LET until == CHOOSE t \in later : \A u \in later : t <= u
          IN saturating_sub(AtLeast(until, cutoff), from)

\* MarketOracle::twap
twap(ring, time, window) ==
  LET weights  == [i \in 1..Len(ring) |-> Weight(ring, i, time, window)]
      weighted == [i \in 1..Len(ring) |-> ring[i].price * weights[i]]
  IN SumTo(weighted, Len(ring)) \div SumTo(weights, Len(ring))

span_seconds(ring) == IF ring = <<>> THEN 0 ELSE Newest(ring) - Oldest(ring)

\* A faulty variant of is_bootstrapped: one observation more than required.
is_bootstrapped_late(ring, cfg) ==
  /\ Len(ring) > cfg.min_observations
  /\ span_seconds(ring) >= cfg.min_span_seconds

is_bootstrapped(ring, cfg) ==
  /\ Len(ring) >= cfg.min_observations
  /\ span_seconds(ring) >= cfg.min_span_seconds

-------------------------------------------------------------------------------
\* What a pair of pools says.

\* read_pool refuses an empty pool.
Readable(pool) == pool.collateral > 0 /\ pool.quote > 0

\* Quote units per whole token of collateral, rounded down.
spot_price(pool) ==
  mul_div_floor(pool.quote * FIXED_POINT_SCALE, COLLATERAL_UNIT,
                pool.collateral * QUOTE_UNIT)

\* A pair of pools that a refresh can price.
Priced(a, b) == Readable(a) /\ Readable(b) /\ spot_price(a) + spot_price(b) > 0

\* The lower of the two pools is the price.
CombinedPrice(a, b) == AtMost(spot_price(a), spot_price(b))

deviation_bps(a, b) ==
  mul_div_floor(2 * abs_diff(spot_price(a), spot_price(b)), BPS_DENOMINATOR,
                spot_price(a) + spot_price(b))

Shallow(a, b, cfg) ==
  \/ a.quote < cfg.min_pool_quote_depth
  \/ b.quote < cfg.min_pool_quote_depth

\* Degradation::any
Degraded(a, b, cfg) ==
  \/ Shallow(a, b, cfg)
  \/ deviation_bps(a, b) > cfg.max_cross_pool_deviation_bps

-------------------------------------------------------------------------------
\* The breaker.

Severity ==
  [Healthy |-> 0, RateWarning |-> 1, BorrowFrozen |-> 2, Emergency |-> 3, Bootstrapping |-> 4]

worse(a, b) == IF Severity[a] >= Severity[b] THEN a ELSE b

\* The restriction the gap before this reading calls for.
AgeHealth(age, cfg) ==
  CASE age >= cfg.max_observation_age_seconds -> "BorrowFrozen"
    [] age >= cfg.warn_age_seconds /\ age < cfg.max_observation_age_seconds -> "RateWarning"
    [] OTHER -> "Healthy"

\* What a rise beyond the limit is admitted up to.
CappedRise(current, cfg) ==
  mul_div_floor(current, BPS_DENOMINATOR + cfg.max_rise_bps_per_window, BPS_DENOMINATOR)

Verdict(accepted, state) == [accepted_price |-> accepted, health |-> state]

\* A faulty variant of evaluate_market: degraded information holds the price,
\* whatever it says.
evaluate_holding(current, average, bootstrapped, age, degraded, cfg) ==
  LET floor == IF bootstrapped THEN "Healthy" ELSE "Bootstrapping" IN
  CASE current = 0 -> Verdict(average, "Bootstrapping")
    [] current # 0 /\ degraded -> Verdict(current, worse("BorrowFrozen", floor))
    [] current # 0 /\ ~ degraded /\ average <= current ->
         Verdict(average, worse(AgeHealth(age, cfg), floor))
    [] OTHER -> Verdict(AtMost(CappedRise(current, cfg), average),
                        worse("BorrowFrozen", floor))

\* A faulty variant of evaluate_market: a rise within the limit is healthy as
\* soon as the gap is short.
evaluate_eager(current, average, bootstrapped, age, degraded, cfg) ==
  LET floor == IF bootstrapped THEN "Healthy" ELSE "Bootstrapping" IN
  CASE current = 0 -> Verdict(average, "Bootstrapping")
    [] current # 0 /\ average <= current ->
         Verdict(average, worse(IF degraded THEN "BorrowFrozen" ELSE AgeHealth(age, cfg), floor))
    [] OTHER -> Verdict(average, AgeHealth(age, cfg))

\* A faulty variant of evaluate_market: policy A of the source, a rise beyond
\* the limit is not taken at all.
evaluate_refusing(current, average, bootstrapped, age, degraded, cfg) ==
  LET floor == IF bootstrapped THEN "Healthy" ELSE "Bootstrapping" IN
  CASE current = 0 -> Verdict(average, "Bootstrapping")
    [] current # 0 /\ average <= current ->
         Verdict(average, worse(IF degraded THEN "BorrowFrozen" ELSE AgeHealth(age, cfg), floor))
    [] OTHER ->
         IF ~ degraded /\ move_bps(current, average) <= cfg.max_rise_bps_per_window
         THEN Verdict(average, worse(AgeHealth(age, cfg), floor))
         ELSE Verdict(current, worse("BorrowFrozen", floor))

\* evaluate_market: a fall is always taken; a rise never on degraded
\* information, and beyond the limit only up to it.  current 0 is None.
evaluate_market(current, average, bootstrapped, age, degraded, cfg) ==
  LET floor  == IF bootstrapped THEN "Healthy" ELSE "Bootstrapping"
      frozen == worse("BorrowFrozen", floor)
      aged   == worse(AgeHealth(age, cfg), floor)
  IN CASE current = 0 -> Verdict(average, "Bootstrapping")
       [] current # 0 /\ average <= current ->
            Verdict(average, IF degraded THEN worse(AgeHealth(age, cfg), frozen) ELSE aged)
       [] current # 0 /\ average > current /\ degraded -> Verdict(current, frozen)
       [] OTHER ->
            IF move_bps(current, average) <= cfg.max_rise_bps_per_window
            THEN Verdict(average, aged)
            ELSE Verdict(AtMost(CappedRise(current, cfg), average), frozen)

-------------------------------------------------------------------------------
\* refresh_market_oracle

\* Seconds since the newest observation, before this reading is appended.
Gap == IF observations = <<>> THEN 0 ELSE now - Newest(observations)

\* A faulty variant of Recorded: a second early.
RecordedEarly == observations = <<>> \/ Gap + 1 >= config.min_spacing_seconds

Recorded == observations = <<>> \/ Gap >= config.min_spacing_seconds

\* A faulty variant of Appended: a full ring loses its newest observation.
AppendedOverNewest(reading) ==
  IF Len(observations) < OBSERVATION_CAPACITY THEN Append(observations, reading)
  ELSE [observations EXCEPT ![IF next_index = 0 THEN OBSERVATION_CAPACITY ELSE next_index]
                              = reading]

\* The ring with one more observation: it grows until it is full.
Appended(reading) ==
  IF Len(observations) < OBSERVATION_CAPACITY THEN Append(observations, reading)
  ELSE [observations EXCEPT ![next_index + 1] = reading]

NextIndex == (next_index + 1) % OBSERVATION_CAPACITY

RingAfter(a, b) ==
  IF Recorded
  THEN Appended([price |-> CombinedPrice(a, b), unix_timestamp |-> now])
  ELSE observations

\* A faulty variant of Accepted: every refresh may raise the price.
AcceptedAlways(accepted) == accepted

\* A refresh that appended nothing may lower the price but never raise it.
Accepted(accepted) ==
  IF ~ Recorded /\ price # 0 THEN AtMost(accepted, price) ELSE accepted

\* Permissionless.  Every failed check fails the instruction and changes nothing.
RefreshMarketOracle(a, b) ==
  /\ amm_deploy = config.expected_deploy_slot
  /\ Priced(a, b)
  /\ Gap >= 0
  /\ observations' = RingAfter(a, b)
  /\ next_index' = IF Recorded THEN NextIndex ELSE next_index
  /\ \E average \in {twap(observations', now, config.twap_window_seconds)} :
       LET verdict == evaluate_market(price, average, is_bootstrapped(observations', config),
                                      Gap, Degraded(a, b, config), config)
       IN /\ price' = Accepted(verdict.accepted_price)
          /\ health' = verdict.health
  /\ last_refresh_slot' = now
  /\ UNCHANGED <<now, amm_deploy, config, pending>>

-------------------------------------------------------------------------------
\* The admin's instructions.

\* The averaging window is not compared.
is_tightening_from(current, next) ==
  /\ next.expected_deploy_slot = current.expected_deploy_slot
  /\ next.max_cross_pool_deviation_bps <= current.max_cross_pool_deviation_bps
  /\ next.max_observation_age_seconds <= current.max_observation_age_seconds
  /\ next.max_rise_bps_per_window <= current.max_rise_bps_per_window
  /\ next.min_observations >= current.min_observations
  /\ next.min_span_seconds >= current.min_span_seconds
  /\ next.min_spacing_seconds >= current.min_spacing_seconds
  /\ next.min_pool_quote_depth >= current.min_pool_quote_depth
  /\ next.warn_age_seconds <= current.warn_age_seconds

\* A faulty variant of SetMarketOracleConfig: a tightening leaves the queue alone.
SetConfigKeepingQueue(cfg) ==
  /\ ValidMarketConfig(cfg)
  /\ IF is_tightening_from(config, cfg)
     THEN config' = cfg /\ pending' = pending
     ELSE config' = config /\ pending' = [config |-> cfg, eta |-> now + PARAM_TIMELOCK_SECONDS]
  /\ UNCHANGED <<now, amm_deploy, ring_vars, oracle_vars>>

\* set_market_oracle_config
SetMarketOracleConfig(cfg) ==
  /\ ValidMarketConfig(cfg)
  /\ IF is_tightening_from(config, cfg)
     THEN config' = cfg /\ pending' = [pending EXCEPT !.eta = 0]
     ELSE config' = config /\ pending' = [config |-> cfg, eta |-> now + PARAM_TIMELOCK_SECONDS]
  /\ UNCHANGED <<now, amm_deploy, ring_vars, oracle_vars>>

\* apply_pending_market_oracle_config: permissionless.
ApplyPendingMarketOracleConfig ==
  /\ pending.eta # 0
  /\ now >= pending.eta
  /\ config' = pending.config
  /\ pending' = [pending EXCEPT !.eta = 0]
  /\ UNCHANGED <<now, amm_deploy, ring_vars, oracle_vars>>

\* A faulty variant of SetOracle: the old health stays.
SetOracleKeepingHealth(source_changed) ==
  /\ price' = IF source_changed THEN 0 ELSE price
  /\ last_refresh_slot' = 0
  /\ UNCHANGED <<now, amm_deploy, param_vars, ring_vars, health>>

\* set_oracle: the history is another account's and stays.
SetOracle(source_changed) ==
  /\ price' = IF source_changed THEN 0 ELSE price
  /\ health' = "BorrowFrozen"
  /\ last_refresh_slot' = 0
  /\ UNCHANGED <<now, amm_deploy, param_vars, ring_vars>>

-------------------------------------------------------------------------------
Tick ==
  /\ now < MaxTime
  /\ now' = now + 1
  /\ UNCHANGED <<amm_deploy, param_vars, ring_vars, oracle_vars>>

Redeploy ==
  /\ amm_deploy < MaxDeploy
  /\ amm_deploy' = amm_deploy + 1
  /\ UNCHANGED <<now, param_vars, ring_vars, oracle_vars>>

\* The queue of an account that has just been created.
NoPending ==
  [config |-> [expected_deploy_slot |-> 0, twap_window_seconds |-> 0,
               min_observations |-> 0, min_span_seconds |-> 0, min_spacing_seconds |-> 0,
               max_observation_age_seconds |-> 0, warn_age_seconds |-> 0,
               max_cross_pool_deviation_bps |-> 0, min_pool_quote_depth |-> 0,
               max_rise_bps_per_window |-> 0],
   eta |-> 0]

\* set_oracle has created the oracle with MarketTwap as its kind, and
\* init_market_oracle the history with any valid configuration.
Init ==
  /\ now = 1
  /\ amm_deploy = 1
  /\ config \in {cfg \in Configs : ValidMarketConfig(cfg)}
  /\ pending = NoPending
  /\ observations = <<>>
  /\ next_index = 0
  /\ price = 0
  /\ health = "BorrowFrozen"
  /\ last_refresh_slot = 0

Next ==
  \/ Tick
  \/ Redeploy
  \/ \E a, b \in Pools : RefreshMarketOracle(a, b)
  \/ \E cfg \in Configs : SetMarketOracleConfig(cfg)
  \/ ApplyPendingMarketOracleConfig
  \/ \E source_changed \in BOOLEAN : SetOracle(source_changed)

Spec == Init /\ [][Next]_vars
===============================================================================

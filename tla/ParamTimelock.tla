---------------------------- MODULE ParamTimelock -----------------------------
(***************************************************************************)
(* How the risk parameters of one reserve change: set_params and           *)
(* set_risk_config with their queues, and the timelock they share          *)
(* (instructions/admin/set_params.rs, set_risk_config.rs).  A configuration*)
(* is a whole ReserveConfig of ReserveMath, so that what counts as a       *)
(* tightening is decided field by field, as the code decides it.           *)
(*                                                                         *)
(* now is the unix time, in units of the run.  Left out: events, and the   *)
(* creation of the RiskConfig account, which starts out as the zeros an    *)
(* absent one is read as.                                                  *)
(***************************************************************************)
EXTENDS ReserveMath

CONSTANTS
  Configs,                            \* what the admin may ask of set_params
  Caps, Shares,                       \* and of set_risk_config
  MAX_PARAM_TIMELOCK_SECONDS,
  MAX_PROTOCOL_LIQUIDATION_SHARE_BPS,
  MaxTime                             \* bound on the clock of a run

ASSUME TimelockAssumption ==
  /\ Configs \subseteq ReserveConfigType
  /\ Caps \subseteq Nat
  /\ Shares \subseteq Nat
  /\ MAX_PARAM_TIMELOCK_SECONDS \in Nat
  /\ MAX_PROTOCOL_LIQUIDATION_SHARE_BPS \in Nat
  /\ MaxTime \in Nat

VARIABLES
  now,
  timelock,  \* Global.param_timelock_seconds
  config,    \* Reserve.config
  pending,   \* Reserve.pending; an eta of 0 is nothing queued
  risk       \* RiskConfig: [live, queued, eta], the first two [cap, share]

vars == <<now, timelock, config, pending, risk>>

\* ReserveConfig::default()
DefaultConfig ==
  [loan_to_value_bps |-> 0, liquidation_threshold_bps |-> 0,
   liquidation_bonus_bps |-> 0, close_factor_bps |-> 0,
   collateral_haircut_bps |-> 0,
   optimal_utilization_bps |-> 0, min_borrow_rate_bps |-> 0,
   optimal_borrow_rate_bps |-> 0, max_borrow_rate_bps |-> 0,
   reserve_factor_bps |-> 0, origination_fee_bps |-> 0,
   supply_cap |-> 0, borrow_cap |-> 0, per_wallet_supply_cap |-> 0,
   borrow_enabled |-> FALSE, collateral_enabled |-> FALSE, isolated |-> FALSE,
   slots_per_year |-> 0]

NoPending == [config |-> DefaultConfig, eta |-> 0]

Unlimited == [cap |-> 0, share |-> 0]

Limits == [cap : Nat, share : Nat]

TypeOK ==
  /\ now \in Nat \ {0}
  /\ timelock \in 0..MAX_PARAM_TIMELOCK_SECONDS
  /\ ValidConfig(config)
  /\ pending \in [config : ReserveConfigType, eta : Nat]
  /\ pending.eta # 0 => ValidConfig(pending.config)
  /\ risk \in [live : Limits, queued : Limits, eta : Nat]

-------------------------------------------------------------------------------
\* What counts as a tightening.

\* A cap of 0 is no cap: the loosest.
cap_is_tighter(current, next) ==
  current = 0 \/ (next # 0 /\ next <= current)

\* Neither the rates nor the other terms of a loan may change on the fast path.
FixedTerms ==
  {"liquidation_bonus_bps", "close_factor_bps", "optimal_utilization_bps",
   "min_borrow_rate_bps", "optimal_borrow_rate_bps", "max_borrow_rate_bps",
   "reserve_factor_bps", "isolated", "slots_per_year"}

is_tightening_from(current, next) ==
  /\ next.loan_to_value_bps <= current.loan_to_value_bps
  /\ next.liquidation_threshold_bps <= current.liquidation_threshold_bps
  /\ next.collateral_haircut_bps >= current.collateral_haircut_bps
  /\ cap_is_tighter(current.supply_cap, next.supply_cap)
  /\ cap_is_tighter(current.borrow_cap, next.borrow_cap)
  /\ cap_is_tighter(current.per_wallet_supply_cap, next.per_wallet_supply_cap)
  /\ next.borrow_enabled => current.borrow_enabled
  /\ next.collateral_enabled => current.collateral_enabled
  /\ next.origination_fee_bps <= current.origination_fee_bps
  /\ \A term \in FixedTerms : next[term] = current[term]

\* A faulty variant of LimitsTighten: one half carries the other.
EitherTightens(current, next) ==
  \/ cap_is_tighter(current.cap, next.cap)
  \/ next.share <= current.share

\* A smaller share leaves the liquidator more; both halves must tighten.
LimitsTighten(current, next) ==
  /\ cap_is_tighter(current.cap, next.cap)
  /\ next.share <= current.share

-------------------------------------------------------------------------------
\* The instructions.

\* A faulty variant of SetParams: a tightening leaves the queue alone.
SetParamsKeepingQueue(cfg) ==
  /\ ValidConfig(cfg)
  /\ IF is_tightening_from(config, cfg)
     THEN config' = cfg /\ pending' = pending
     ELSE config' = config /\ pending' = [config |-> cfg, eta |-> now + timelock]
  /\ UNCHANGED <<now, timelock, risk>>

\* set_params: the comparison with the live configuration decides the path.
SetParams(cfg) ==
  /\ ValidConfig(cfg)
  /\ IF is_tightening_from(config, cfg)
     THEN config' = cfg /\ pending' = NoPending
     ELSE config' = config /\ pending' = [config |-> cfg, eta |-> now + timelock]
  /\ UNCHANGED <<now, timelock, risk>>

\* A faulty variant of ApplyPendingParams: the queue is not emptied.
ApplyPendingParamsAgain ==
  /\ pending.eta # 0
  /\ now >= pending.eta
  /\ ValidConfig(pending.config)
  /\ config' = pending.config
  /\ UNCHANGED <<now, timelock, pending, risk>>

\* apply_pending_params: permissionless.
ApplyPendingParams ==
  /\ pending.eta # 0
  /\ now >= pending.eta
  /\ ValidConfig(pending.config)
  /\ config' = pending.config
  /\ pending' = NoPending
  /\ UNCHANGED <<now, timelock, risk>>

CancelPendingParams ==
  /\ pending.eta # 0
  /\ pending' = NoPending
  /\ UNCHANGED <<now, timelock, config, risk>>

SetTimelock(seconds) ==
  /\ seconds \in 0..MAX_PARAM_TIMELOCK_SECONDS
  /\ timelock' = seconds
  /\ UNCHANGED <<now, config, pending, risk>>

\* set_risk_config: a tightening supersedes what is queued.
SetRiskConfig(limits) ==
  /\ limits.share <= MAX_PROTOCOL_LIQUIDATION_SHARE_BPS
  /\ limits.share <= config.liquidation_bonus_bps
  /\ risk' = IF LimitsTighten(risk.live, limits)
             THEN [live |-> limits, queued |-> Unlimited, eta |-> 0]
             ELSE [live |-> risk.live, queued |-> limits, eta |-> now + timelock]
  /\ UNCHANGED <<now, timelock, config, pending>>

\* apply_pending_risk_config: permissionless, and not held against the bonus of
\* today.
ApplyPendingRiskConfig ==
  /\ risk.eta # 0
  /\ now >= risk.eta
  /\ risk' = [live |-> risk.queued, queued |-> Unlimited, eta |-> 0]
  /\ UNCHANGED <<now, timelock, config, pending>>

Tick ==
  /\ now < MaxTime
  /\ now' = now + 1
  /\ UNCHANGED <<timelock, config, pending, risk>>

-------------------------------------------------------------------------------
\* init_reserve has validated its configuration; there is no RiskConfig.
Init ==
  /\ now = 1
  /\ timelock \in 0..MAX_PARAM_TIMELOCK_SECONDS
  /\ config \in {cfg \in Configs : ValidConfig(cfg)}
  /\ pending = NoPending
  /\ risk = [live |-> Unlimited, queued |-> Unlimited, eta |-> 0]

Next ==
  \/ Tick
  \/ \E cfg \in Configs : SetParams(cfg)
  \/ ApplyPendingParams
  \/ CancelPendingParams
  \/ \E seconds \in 0..(MAX_PARAM_TIMELOCK_SECONDS + 1) : SetTimelock(seconds)
  \/ \E cap \in Caps, share \in Shares : SetRiskConfig([cap |-> cap, share |-> share])
  \/ ApplyPendingRiskConfig

Spec == Init /\ [][Next]_vars
===============================================================================

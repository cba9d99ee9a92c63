----------------------- MODULE ParamTimelockProperties ------------------------
(***************************************************************************)
(* That both queues follow one rule, and that what they let through at     *)
(* once really is no looser, judged by what the risk checks admit under it *)
(* and not by how its fields compare.                                      *)
(***************************************************************************)
EXTENDS ParamTimelock

CONSTANT Amounts  \* the amounts at which two configurations are compared

ASSUME AmountsAssumption == Amounts \subseteq Nat

\* The caps of risk.rs: zero is no cap.
Admits(cap, after) == cap = 0 \/ after <= cap

\* No amount is admitted under the new cap that the old one refused.
CapAdmitsNoMore(current, next) ==
  \A after \in Amounts : Admits(next, after) => Admits(current, after)

\* What collateral of a face value lets its owner borrow, and at what debt it is
\* liquidated (refresh_obligation).
Allowed(cfg, face) ==
  mul_div_floor(apply_haircut(face, cfg.collateral_haircut_bps),
                cfg.loan_to_value_bps, BPS_DENOMINATOR)
Unhealthy(cfg, face) ==
  mul_div_floor(apply_haircut(face, cfg.collateral_haircut_bps),
                cfg.liquidation_threshold_bps, BPS_DENOMINATOR)

\* The new configuration lets nobody supply, borrow or hold a debt that the old
\* one refused, and charges for it no differently but for a smaller fee.
ConfigNoLooser(current, next) ==
  /\ CapAdmitsNoMore(current.supply_cap, next.supply_cap)
  /\ CapAdmitsNoMore(current.borrow_cap, next.borrow_cap)
  /\ CapAdmitsNoMore(current.per_wallet_supply_cap, next.per_wallet_supply_cap)
  /\ next.borrow_enabled => current.borrow_enabled
  /\ next.collateral_enabled => current.collateral_enabled
  /\ \A face \in Amounts :
       /\ Allowed(next, face) <= Allowed(current, face)
       /\ Unhealthy(next, face) <= Unhealthy(current, face)
  /\ next.origination_fee_bps <= current.origination_fee_bps
  /\ \A term \in FixedTerms : next[term] = current[term]

\* The same of the limits of a RiskConfig: no larger debt of one wallet, and
\* never a larger cut of a seizure for the protocol.
LimitsNoLooser(current, next) ==
  /\ CapAdmitsNoMore(current.cap, next.cap)
  /\ \A seized \in Amounts :
       protocol_seized_shares(seized, BPS_DENOMINATOR, next.share)
         <= protocol_seized_shares(seized, BPS_DENOMINATOR, current.share)

Params ==
  INSTANCE DelayedChange WITH
    delay <- timelock, live <- config, announced <- pending.config, eta <- pending.eta,
    NoLooser <- ConfigNoLooser

RiskLimits ==
  INSTANCE DelayedChange WITH
    delay <- timelock, live <- risk.live, announced <- risk.queued, eta <- risk.eta,
    NoLooser <- LimitsNoLooser

\* "Tightening is instant, loosening waits" (set_params.rs): no order of changes,
\* replacements, cancellations and changes of the timelock itself puts a looser
\* configuration in force that has not waited out its own announcement.
ParamsFollowTheRule == Params!Spec

\* "The same rule as every other risk parameter" (set_risk_config.rs).
RiskFollowsTheRule == RiskLimits!Spec

\* Nothing stale waits in a queue: what is queued is still, against what is in
\* force today, a change that has to wait.  No change is applied twice, and no
\* tightening waits behind a timelock it does not need.
QueuedChangesLoosen ==
  /\ pending.eta # 0 => ~ is_tightening_from(config, pending.config)
  /\ risk.eta # 0 => ~ LimitsTighten(risk.live, risk.queued)
===============================================================================

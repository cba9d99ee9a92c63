------------------------- MODULE ParamTimelockProofs --------------------------
(***************************************************************************)
(* The timelock's rule for every set of configurations, caps, shares and   *)
(* delays, and compared at every set of amounts: what is_tightening_from   *)
(* lets through at once admits nothing that was refused before, and        *)
(* whatever else comes into force has waited.                              *)
(***************************************************************************)
EXTENDS ParamTimelockProperties, MathProofs, TLAPS

-------------------------------------------------------------------------------
\* What a tightening means.

\* A tighter cap admits no amount that the looser one refused; no cap is the
\* loosest.
LEMMA TighterCapAdmitsNoMore ==
  ASSUME NEW current \in Nat, NEW next \in Nat, cap_is_tighter(current, next)
  PROVE  CapAdmitsNoMore(current, next)
BY AmountsAssumption DEF CapAdmitsNoMore, Admits, cap_is_tighter

\* A larger haircut and a smaller ratio lend no more against any collateral.
LEMMA LessAgainstCollateral ==
  ASSUME NEW face \in Nat,
         NEW h1 \in 0..BPS_DENOMINATOR, NEW h2 \in 0..BPS_DENOMINATOR, h1 <= h2,
         NEW r1 \in Nat, NEW r2 \in Nat, r2 <= r1
  PROVE  mul_div_floor(apply_haircut(face, h2), r2, BPS_DENOMINATOR)
           <= mul_div_floor(apply_haircut(face, h1), r1, BPS_DENOMINATOR)
<1>1. BPS_DENOMINATOR \in Nat \ {0}
  BY ScaleAssumption
<1>2. /\ BPS_DENOMINATOR - h1 \in Nat /\ BPS_DENOMINATOR - h2 \in Nat
      /\ BPS_DENOMINATOR - h2 <= BPS_DENOMINATOR - h1
  BY <1>1
<1>3. apply_haircut(face, h1) \in Nat /\ apply_haircut(face, h2) \in Nat
  BY <1>1, <1>2, FloorNat DEF apply_haircut
<1>4. apply_haircut(face, h2) <= apply_haircut(face, h1)
  BY <1>1, <1>2, FloorMonotone DEF apply_haircut
<1> QED
  BY <1>1, <1>3, <1>4, FloorMonotone

\* What is_tightening_from decides field by field is a tightening indeed: under
\* the new configuration no supply, no borrow and no debt is admitted that the
\* old one refused.
THEOREM TighteningIsNoLooser ==
  ASSUME NEW current \in ReserveConfigType, NEW next \in ReserveConfigType,
         ValidConfig(current), ValidConfig(next), is_tightening_from(current, next)
  PROVE  ConfigNoLooser(current, next)
<1>1. /\ current.collateral_haircut_bps \in 0..BPS_DENOMINATOR
      /\ next.collateral_haircut_bps \in 0..BPS_DENOMINATOR
      /\ current.collateral_haircut_bps <= next.collateral_haircut_bps
  BY ScaleAssumption DEF ValidConfig, ReserveConfigType, is_tightening_from
<1>2. /\ current.loan_to_value_bps \in Nat /\ next.loan_to_value_bps \in Nat
      /\ current.liquidation_threshold_bps \in Nat
      /\ next.liquidation_threshold_bps \in Nat
      /\ next.loan_to_value_bps <= current.loan_to_value_bps
      /\ next.liquidation_threshold_bps <= current.liquidation_threshold_bps
  BY DEF ReserveConfigType, is_tightening_from
<1>3. \A face \in Amounts :
        /\ Allowed(next, face) <= Allowed(current, face)
        /\ Unhealthy(next, face) <= Unhealthy(current, face)
  <2> TAKE face \in Amounts
  <2>1. face \in Nat
    BY AmountsAssumption
  <2>2. Allowed(next, face) <= Allowed(current, face)
    BY <1>1, <1>2, <2>1, LessAgainstCollateral DEF Allowed
  <2>3. Unhealthy(next, face) <= Unhealthy(current, face)
    BY <1>1, <1>2, <2>1, LessAgainstCollateral DEF Unhealthy
  <2> QED
    BY <2>2, <2>3
<1>4. /\ CapAdmitsNoMore(current.supply_cap, next.supply_cap)
      /\ CapAdmitsNoMore(current.borrow_cap, next.borrow_cap)
      /\ CapAdmitsNoMore(current.per_wallet_supply_cap, next.per_wallet_supply_cap)
  BY TighterCapAdmitsNoMore DEF ReserveConfigType, is_tightening_from
<1> QED
  BY <1>3, <1>4 DEF ConfigNoLooser, is_tightening_from

\* The same of the two limits of a RiskConfig.
LEMMA TighterLimitsAreNoLooser ==
  ASSUME NEW current \in Limits, NEW next \in Limits, LimitsTighten(current, next)
  PROVE  LimitsNoLooser(current, next)
<1>1. /\ current.cap \in Nat /\ next.cap \in Nat
      /\ current.share \in Nat /\ next.share \in Nat
      /\ next.share <= current.share
      /\ cap_is_tighter(current.cap, next.cap)
  BY DEF Limits, LimitsTighten
<1>2. BPS_DENOMINATOR \in Nat /\ BPS_DENOMINATOR + BPS_DENOMINATOR \in Nat \ {0}
  BY ScaleAssumption
<1>3. /\ AtMost(next.share, BPS_DENOMINATOR) \in Nat
      /\ AtMost(current.share, BPS_DENOMINATOR) \in Nat
      /\ AtMost(next.share, BPS_DENOMINATOR) <= AtMost(current.share, BPS_DENOMINATOR)
  BY <1>1, <1>2 DEF AtMost
<1>4. ASSUME NEW seized \in Amounts
      PROVE  protocol_seized_shares(seized, BPS_DENOMINATOR, next.share)
               <= protocol_seized_shares(seized, BPS_DENOMINATOR, current.share)
  <2>1. seized \in Nat
    BY AmountsAssumption
  <2> QED
    BY <1>2, <1>3, <2>1, FloorMonotone DEF protocol_seized_shares
<1> QED
  BY <1>1, <1>4, TighterCapAdmitsNoMore DEF LimitsNoLooser

-------------------------------------------------------------------------------
\* Each instruction keeps the typing and the queues, and is a step of the rule
\* for each of the two queues.

TimelockInv == TypeOK /\ QueuedChangesLoosen

LEMMA NothingTyped ==
  NoPending \in [config : ReserveConfigType, eta : Nat] /\ Unlimited \in Limits
BY DEF NoPending, DefaultConfig, ReserveConfigType, Unlimited, Limits

LEMMA ValidIsTyped ==
  ASSUME NEW cfg, ValidConfig(cfg)
  PROVE  cfg \in ReserveConfigType
BY DEF ValidConfig

LEMMA SetParamsKeeps ==
  ASSUME TimelockInv, NEW cfg, SetParams(cfg)
  PROVE  TimelockInv' /\ Params!Next /\ UNCHANGED <<now, timelock, risk>>
<1>1. ValidConfig(cfg) /\ UNCHANGED <<now, timelock, risk>>
  BY DEF SetParams
<1>2. /\ ValidConfig(config) /\ config \in ReserveConfigType /\ cfg \in ReserveConfigType
      /\ now \in Nat \ {0} /\ timelock \in Nat
  BY <1>1, ValidIsTyped, TimelockAssumption DEF TimelockInv, TypeOK
<1>3. CASE is_tightening_from(config, cfg)
  <2>1. config' = cfg /\ pending' = NoPending
    BY <1>3 DEF SetParams
  <2>2. pending'.eta = 0
    BY <2>1 DEF NoPending
  <2>3. TypeOK'
    BY <1>1, <2>1, <2>2, NothingTyped DEF TimelockInv, TypeOK, ValidConfig
  <2>4. QueuedChangesLoosen'
    BY <1>1, <2>2 DEF TimelockInv, QueuedChangesLoosen, LimitsTighten, cap_is_tighter
  <2>5. ConfigNoLooser(config, config')
    BY <1>1, <1>2, <1>3, <2>1, TighteningIsNoLooser
  <2>6. Params!Restrict
    BY <1>1, <2>2, <2>5 DEF Params!Restrict
  <2> QED
    BY <1>1, <2>3, <2>4, <2>6 DEF TimelockInv, Params!Next
<1>4. CASE ~ is_tightening_from(config, cfg)
  <2>1. config' = config /\ pending' = [config |-> cfg, eta |-> now + timelock]
    BY <1>4 DEF SetParams
  <2>2. pending'.config = cfg /\ pending'.eta = now + timelock
    BY <2>1
  <2>3. pending' \in [config : ReserveConfigType, eta : Nat]
    BY <1>2, <2>1
  <2>4. TypeOK'
    BY <1>1, <2>1, <2>2, <2>3 DEF TimelockInv, TypeOK, ValidConfig
  <2>5. QueuedChangesLoosen'
    BY <1>1, <1>4, <2>1, <2>2
       DEF TimelockInv, QueuedChangesLoosen, LimitsTighten, cap_is_tighter,
           is_tightening_from
  <2>6. Params!Announce
    BY <1>1, <2>1, <2>2 DEF Params!Announce
  <2> QED
    BY <1>1, <2>4, <2>5, <2>6 DEF TimelockInv, Params!Next
<1> QED
  BY <1>3, <1>4

LEMMA ApplyPendingKeeps ==
  ASSUME TimelockInv, ApplyPendingParams
  PROVE  TimelockInv' /\ Params!Next /\ UNCHANGED <<now, timelock, risk>>
<1>1. /\ pending.eta # 0 /\ now >= pending.eta /\ ValidConfig(pending.config)
      /\ config' = pending.config /\ pending' = NoPending
      /\ UNCHANGED <<now, timelock, risk>>
  BY DEF ApplyPendingParams
<1>2. pending'.eta = 0
  BY <1>1 DEF NoPending
<1>3. TypeOK'
  BY <1>1, <1>2, NothingTyped DEF TimelockInv, TypeOK, ValidConfig
<1>4. QueuedChangesLoosen'
  BY <1>1, <1>2 DEF TimelockInv, QueuedChangesLoosen, LimitsTighten, cap_is_tighter
<1>5. Params!Enact
  BY <1>1, <1>2 DEF Params!Enact
<1> QED
  BY <1>1, <1>3, <1>4, <1>5 DEF TimelockInv, Params!Next

LEMMA CancelPendingKeeps ==
  ASSUME TimelockInv, CancelPendingParams
  PROVE  TimelockInv' /\ Params!Next /\ UNCHANGED <<now, timelock, risk>>
<1>1. pending' = NoPending /\ UNCHANGED <<now, timelock, config, risk>>
  BY DEF CancelPendingParams
<1>2. pending'.eta = 0
  BY <1>1 DEF NoPending
<1>3. TypeOK'
  BY <1>1, <1>2, NothingTyped DEF TimelockInv, TypeOK, ValidConfig
<1>4. QueuedChangesLoosen'
  BY <1>1, <1>2 DEF TimelockInv, QueuedChangesLoosen, LimitsTighten, cap_is_tighter
<1>5. Params!Withdraw
  BY <1>1, <1>2 DEF Params!Withdraw
<1> QED
  BY <1>1, <1>3, <1>4, <1>5 DEF TimelockInv, Params!Next

\* The typing and the queue of the reserve survive a step that only moves the
\* RiskConfig.
LEMMA RiskStepTyped ==
  ASSUME TimelockInv, UNCHANGED <<now, timelock, config, pending>>,
         risk' \in [live : Limits, queued : Limits, eta : Nat],
         risk'.eta # 0 => ~ LimitsTighten(risk'.live, risk'.queued)
  PROVE  TimelockInv'
<1>1. TypeOK'
  BY DEF TimelockInv, TypeOK, ValidConfig
<1> QED
  BY <1>1 DEF TimelockInv, QueuedChangesLoosen, LimitsTighten, cap_is_tighter,
              is_tightening_from

LEMMA SetRiskKeeps ==
  ASSUME TimelockInv, NEW limits \in Limits, SetRiskConfig(limits)
  PROVE  /\ TimelockInv' /\ RiskLimits!Next
         /\ UNCHANGED <<now, timelock, config, pending>>
<1>1. UNCHANGED <<now, timelock, config, pending>>
  BY DEF SetRiskConfig
<1>2. /\ risk \in [live : Limits, queued : Limits, eta : Nat] /\ risk.live \in Limits
      /\ now \in Nat /\ timelock \in Nat
  BY TimelockAssumption DEF TimelockInv, TypeOK
<1>3. CASE LimitsTighten(risk.live, limits)
  <2>1. risk' = [live |-> limits, queued |-> Unlimited, eta |-> 0]
    BY <1>3 DEF SetRiskConfig
  <2>2. LimitsNoLooser(risk.live, risk'.live)
    BY <1>2, <1>3, <2>1, TighterLimitsAreNoLooser
  <2>3. RiskLimits!Restrict
    BY <1>1, <2>1, <2>2 DEF RiskLimits!Restrict
  <2>4. TimelockInv'
    BY <1>1, <2>1, NothingTyped, RiskStepTyped
  <2> QED
    BY <1>1, <2>3, <2>4 DEF RiskLimits!Next
<1>4. CASE ~ LimitsTighten(risk.live, limits)
  <2>1. risk' = [live |-> risk.live, queued |-> limits, eta |-> now + timelock]
    BY <1>4 DEF SetRiskConfig
  <2>2. RiskLimits!Announce
    BY <1>1, <2>1 DEF RiskLimits!Announce
  <2>3. TimelockInv'
    BY <1>1, <1>2, <1>4, <2>1, RiskStepTyped
  <2> QED
    BY <1>1, <2>2, <2>3 DEF RiskLimits!Next
<1> QED
  BY <1>3, <1>4

LEMMA ApplyRiskKeeps ==
  ASSUME TimelockInv, ApplyPendingRiskConfig
  PROVE  /\ TimelockInv' /\ RiskLimits!Next
         /\ UNCHANGED <<now, timelock, config, pending>>
<1>1. /\ risk.eta # 0 /\ now >= risk.eta
      /\ risk' = [live |-> risk.queued, queued |-> Unlimited, eta |-> 0]
      /\ UNCHANGED <<now, timelock, config, pending>>
  BY DEF ApplyPendingRiskConfig
<1>2. risk.queued \in Limits
  BY DEF TimelockInv, TypeOK
<1>3. RiskLimits!Enact
  BY <1>1 DEF RiskLimits!Enact
<1>4. TimelockInv'
  BY <1>1, <1>2, NothingTyped, RiskStepTyped
<1> QED
  BY <1>1, <1>3, <1>4 DEF RiskLimits!Next

LEMMA ClockKeeps ==
  ASSUME TimelockInv, now' \in Nat \ {0}, timelock' \in 0..MAX_PARAM_TIMELOCK_SECONDS,
         UNCHANGED <<config, pending, risk>>
  PROVE  TimelockInv'
<1>1. TypeOK'
  BY DEF TimelockInv, TypeOK, ValidConfig
<1> QED
  BY <1>1 DEF TimelockInv, QueuedChangesLoosen, LimitsTighten, cap_is_tighter,
              is_tightening_from

\* Every step keeps the invariant, and moves each queue by the rule or not at all.
LEMMA StepKeeps ==
  ASSUME TimelockInv, [Next]_vars
  PROVE  /\ TimelockInv'
         /\ [Params!Next]_(Params!change_vars)
         /\ [RiskLimits!Next]_(RiskLimits!change_vars)
<1> USE DEF Params!change_vars, RiskLimits!change_vars
<1>1. CASE Tick
  <2>1. now' = now + 1 /\ UNCHANGED <<timelock, config, pending, risk>>
    BY <1>1 DEF Tick
  <2>2. TimelockInv'
    BY <2>1, ClockKeeps DEF TimelockInv, TypeOK
  <2>3. Params!TimePasses /\ RiskLimits!TimePasses
    BY <2>1 DEF Params!TimePasses, RiskLimits!TimePasses
  <2> QED
    BY <2>2, <2>3 DEF Params!Next, RiskLimits!Next
<1>2. CASE \E cfg \in Configs : SetParams(cfg)
  BY <1>2, SetParamsKeeps
<1>3. CASE ApplyPendingParams
  BY <1>3, ApplyPendingKeeps
<1>4. CASE CancelPendingParams
  BY <1>4, CancelPendingKeeps
<1>5. CASE \E seconds \in 0..(MAX_PARAM_TIMELOCK_SECONDS + 1) : SetTimelock(seconds)
  <2>1. timelock' \in 0..MAX_PARAM_TIMELOCK_SECONDS /\ UNCHANGED <<now, config, pending, risk>>
    BY <1>5 DEF SetTimelock
  <2>2. TimelockInv'
    BY <2>1, ClockKeeps DEF TimelockInv, TypeOK
  <2>3. timelock' \in Nat
    BY <2>1, TimelockAssumption
  <2>4. Params!DelaySet /\ RiskLimits!DelaySet
    BY <2>1, <2>3 DEF Params!DelaySet, RiskLimits!DelaySet
  <2> QED
    BY <2>2, <2>4 DEF Params!Next, RiskLimits!Next
<1>6. CASE \E cap \in Caps, share \in Shares : SetRiskConfig([cap |-> cap, share |-> share])
  <2>1. PICK limits \in Limits : SetRiskConfig(limits)
    BY <1>6, TimelockAssumption DEF Limits
  <2> QED
    BY <2>1, SetRiskKeeps
<1>7. CASE ApplyPendingRiskConfig
  BY <1>7, ApplyRiskKeeps
<1>8. CASE UNCHANGED vars
  <2>1. UNCHANGED <<now, timelock, config, pending, risk>>
    BY <1>8 DEF vars
  <2>2. TimelockInv'
    BY <2>1, ClockKeeps DEF TimelockInv, TypeOK
  <2> QED
    BY <2>1, <2>2
<1> QED
  BY <1>1, <1>2, <1>3, <1>4, <1>5, <1>6, <1>7, <1>8 DEF Next

LEMMA InitKeeps ==
  ASSUME Init
  PROVE  TimelockInv /\ Params!Init /\ RiskLimits!Init
<1>1. pending.eta = 0 /\ risk.eta = 0 /\ now = 1
  BY DEF Init, NoPending
<1>2. TypeOK
  BY <1>1, NothingTyped DEF Init, TypeOK
<1> QED
  BY <1>1, <1>2 DEF TimelockInv, QueuedChangesLoosen, Params!Init, RiskLimits!Init

\* The typing and the queues, in every state.
THEOREM TimelockInvariant == Spec => []TimelockInv
<1>1. Init => TimelockInv
  BY InitKeeps
<1>2. TimelockInv /\ [Next]_vars => TimelockInv'
  BY StepKeeps
<1> QED
  BY <1>1, <1>2, PTL DEF Spec

\* The parameters in force are always valid, and so are those that wait.
THEOREM TimelockTyped == Spec => []TypeOK
<1>1. TimelockInv => TypeOK
  BY DEF TimelockInv
<1> QED
  BY <1>1, TimelockInvariant, PTL

\* What is queued is always a change that has to wait.
THEOREM QueuesAlwaysLoosen == Spec => []QueuedChangesLoosen
<1>1. TimelockInv => QueuedChangesLoosen
  BY DEF TimelockInv
<1> QED
  BY <1>1, TimelockInvariant, PTL

\* A reserve's parameters follow the rule of DelayedChange: at once only what is
\* no looser, anything else after its announced delay.
THEOREM ParamsAlwaysFollow == Spec => ParamsFollowTheRule
<1>1. Init => Params!Init
  BY InitKeeps
<1>2. TimelockInv /\ [Next]_vars => [Params!Next]_(Params!change_vars)
  BY StepKeeps
<1> QED
  BY <1>1, <1>2, TimelockInvariant, PTL DEF Spec, ParamsFollowTheRule, Params!Spec

\* The limits of a RiskConfig follow the same rule.
THEOREM RiskAlwaysFollows == Spec => RiskFollowsTheRule
<1>1. Init => RiskLimits!Init
  BY InitKeeps
<1>2. TimelockInv /\ [Next]_vars => [RiskLimits!Next]_(RiskLimits!change_vars)
  BY StepKeeps
<1> QED
  BY <1>1, <1>2, TimelockInvariant, PTL DEF Spec, RiskFollowsTheRule, RiskLimits!Spec
===============================================================================

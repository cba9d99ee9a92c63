----------------------------- MODULE NativeOracle -----------------------------
(***************************************************************************)
(* One asset's OracleState and the circuit breaker in front of it:         *)
(* oracle/breaker.rs, oracle/native_bcook.rs, instructions/refresh_oracle  *)
(* and the set_oracle of admin/init_oracle.rs.                             *)
(*                                                                         *)
(* The stake pool it reads and the program that writes the pool are        *)
(* outside; they appear as one record, source, that may change at any      *)
(* moment to any of the readings of the run.  Its bytes are abstracted to  *)
(* what observe() makes of them: a gross rate, a redemption fee, an epoch, *)
(* the rate of the epoch before, and whether they can be read at all.      *)
(*                                                                         *)
(* A market-priced oracle is refused by every instruction here but         *)
(* set_oracle; refresh_market_oracle is another module's.  Left out: the   *)
(* two diagnostics no instruction reads (last_moved_bps and                *)
(* last_source_epoch), timestamps, and account validation.                 *)
(***************************************************************************)
EXTENDS AeraMath

CONSTANTS
  Configs,              \* configurations the admin may install
  Rates, Fees,          \* what the pool may report
  Authorities,          \* upgrade authorities of the pool's program
  NO_UPGRADE_AUTHORITY, \* the authority of a program that is immutable
  ProgramDataPassed,    \* whether callers pass the ProgramData of the pool's program
  STALE_EPOCHS_WARNING,
  MaxEpoch,             \* bound on the pool's epochs
  MaxDeploy,            \* bound on the redeployments of its program
  MaxSlot               \* bound on the slots of a run

VARIABLES
  slot,
  source,    \* the stake pool: [gross, fee, epoch, previous, readable, deploy, authority]
  config,    \* the configured half of OracleState
  reference, \* Reference; a gross rate of 0 stands for none
  health,
  last_refresh_slot

vars == <<slot, source, config, reference, health, last_refresh_slot>>

Kinds == {"UnitOfAccount", "NativeExchangeRate", "MarketTwap"}

\* account names the pool; every configuration but the native one names none.
ConfigType ==
  [kind : Kinds, account : BOOLEAN, max_withdrawal_fee_bps : Nat,
   rate_floor : Nat, rate_ceiling : Nat,
   expected_deploy_slot : Nat, expected_upgrade_authority : Authorities,
   max_up_bps_per_epoch : Nat, max_down_bps_per_epoch : Nat,
   emergency_deviation_bps : Nat, max_epoch_allowance : Nat]

\* OracleState::validate_config with BreakerConfig::validate.
ValidOracleConfig(cfg) ==
  /\ cfg.max_withdrawal_fee_bps < BPS_DENOMINATOR
  /\ cfg.rate_floor > 0
  /\ cfg.rate_ceiling >= cfg.rate_floor
  /\ cfg.emergency_deviation_bps <= BPS_DENOMINATOR
  /\ cfg.max_up_bps_per_epoch <= cfg.emergency_deviation_bps
  /\ cfg.max_down_bps_per_epoch <= cfg.emergency_deviation_bps
  /\ cfg.max_epoch_allowance > 0
  /\ cfg.account <=> cfg.kind = "NativeExchangeRate"
  /\ cfg.kind = "UnitOfAccount" =>
       FIXED_POINT_SCALE \in cfg.rate_floor..cfg.rate_ceiling

ASSUME OracleAssumption ==
  /\ Configs \subseteq ConfigType
  /\ Rates \subseteq Nat
  /\ Fees \subseteq 0..BPS_DENOMINATOR
  /\ NO_UPGRADE_AUTHORITY \in Authorities
  /\ ProgramDataPassed \subseteq BOOLEAN
  /\ STALE_EPOCHS_WARNING \in Nat
  /\ MaxEpoch \in Nat
  /\ MaxDeploy \in Nat
  /\ MaxSlot \in Nat

ReferenceType ==
  [gross_rate : Nat, effective_rate : Nat, withdrawal_fee_bps : Nat, source_epoch : Nat]

NoReference ==
  [gross_rate |-> 0, effective_rate |-> 0, withdrawal_fee_bps |-> 0, source_epoch |-> 0]

\* Reference::is_set
IsSet(ref) == ref.effective_rate > 0

OracleHealth == {"Healthy", "RateWarning", "BorrowFrozen", "Emergency", "Bootstrapping"}

SourceType ==
  [gross : Nat, fee : 0..BPS_DENOMINATOR, epoch : Nat, previous : Nat,
   readable : BOOLEAN, deploy : Nat, authority : Authorities]

TypeOK ==
  /\ slot \in Nat
  /\ source \in SourceType
  /\ config \in {cfg \in ConfigType : ValidOracleConfig(cfg)}
  /\ reference \in ReferenceType
  /\ health \in OracleHealth
  /\ last_refresh_slot \in Nat

-------------------------------------------------------------------------------
\* Reading the pool.

\* deployment::verify_matches_pin: the pinned deployment, under the pinned
\* authority or under none any more.
MatchesPin(cfg) ==
  /\ source.deploy = cfg.expected_deploy_slot
  /\ source.authority \in {cfg.expected_upgrade_authority, NO_UPGRADE_AUTHORITY}

apply_withdrawal_fee(gross, fee_bps) ==
  mul_div_floor(gross, BPS_DENOMINATOR - fee_bps, BPS_DENOMINATOR)

\* A faulty variant of Observable: the deployment is not looked at.
ObservableUnpinned(cfg, own_program_data) ==
  /\ own_program_data
  /\ source.readable
  /\ source.fee <= cfg.max_withdrawal_fee_bps
  /\ source.gross \in cfg.rate_floor..cfg.rate_ceiling
  /\ apply_withdrawal_fee(source.gross, source.fee) > 0

\* native_bcook::observe returns Ok.  own_program_data: the caller has passed
\* the ProgramData account of the pool's program.
Observable(cfg, own_program_data) ==
  /\ own_program_data
  /\ MatchesPin(cfg)
  /\ source.readable
  /\ source.fee <= cfg.max_withdrawal_fee_bps
  /\ source.gross \in cfg.rate_floor..cfg.rate_ceiling
  /\ apply_withdrawal_fee(source.gross, source.fee) > 0

\* The observation of each kind; previous 0 stands for None.
Observation(kind) ==
  IF kind = "UnitOfAccount"
  THEN [gross_rate |-> FIXED_POINT_SCALE, effective_rate |-> FIXED_POINT_SCALE,
        withdrawal_fee_bps |-> 0, source_epoch |-> 0, previous |-> FIXED_POINT_SCALE]
  ELSE [gross_rate |-> source.gross,
        effective_rate |-> apply_withdrawal_fee(source.gross, source.fee),
        withdrawal_fee_bps |-> source.fee,
        source_epoch |-> source.epoch, previous |-> source.previous]

ReferenceTo(obs) ==
  [gross_rate |-> obs.gross_rate, effective_rate |-> obs.effective_rate,
   withdrawal_fee_bps |-> obs.withdrawal_fee_bps, source_epoch |-> obs.source_epoch]

-------------------------------------------------------------------------------
\* The breaker's verdicts.

Verdict(accept, state) == [accept |-> accept, health |-> state]

DirectionBps(cfg, from, to) ==
  IF to > from THEN cfg.max_up_bps_per_epoch ELSE cfg.max_down_bps_per_epoch

\* The first observation is held against the pool's own previous epoch.
bootstrap_verdict(obs, cfg) ==
  IF /\ obs.previous # 0
     /\ move_bps(obs.previous, obs.gross_rate)
          > DirectionBps(cfg, obs.previous, obs.gross_rate)
  THEN Verdict(FALSE, "Emergency")
  ELSE Verdict(TRUE, "Bootstrapping")

epochs_elapsed(ref, obs, cfg) ==
  AtMost(AtLeast(saturating_sub(obs.source_epoch, ref.source_epoch), 1),
         cfg.max_epoch_allowance)

\* An accepted reading confirms a bootstrap only from a later source epoch.
AcceptedHealth(ref, obs, epochs, was_bootstrapping) ==
  IF was_bootstrapping /\ obs.source_epoch <= ref.source_epoch THEN "Bootstrapping"
  ELSE IF epochs >= STALE_EPOCHS_WARNING THEN "RateWarning" ELSE "Healthy"

\* One epoch of allowance for each epoch the source has advanced, and at least
\* one.
WithinAllowance(ref, obs, cfg) ==
  move_bps(ref.gross_rate, obs.gross_rate)
    <= DirectionBps(cfg, ref.gross_rate, obs.gross_rate) * epochs_elapsed(ref, obs, cfg)

\* A faulty variant of BeyondEmergency: no bound but the allowance.
NeverBeyond(ref, obs, cfg) == FALSE

\* The absolute bound, however long the move took.
BeyondEmergency(ref, obs, cfg) ==
  move_bps(ref.gross_rate, obs.gross_rate) >= cfg.emergency_deviation_bps

\* Every later observation against the reference.
evaluate(ref, obs, cfg, was_bootstrapping) ==
  LET refused == IF obs.gross_rate > ref.gross_rate /\ ~ BeyondEmergency(ref, obs, cfg)
                 THEN "BorrowFrozen" ELSE "Emergency"
  IN IF ~ IsSet(ref) THEN Verdict(TRUE, "Healthy")
     ELSE IF ~ BeyondEmergency(ref, obs, cfg) /\ WithinAllowance(ref, obs, cfg)
     THEN Verdict(TRUE, AcceptedHealth(ref, obs, epochs_elapsed(ref, obs, cfg),
                                       was_bootstrapping))
     ELSE Verdict(FALSE, refused)

\* needs_bootstrap: a constant needs no second opinion.
Judge(obs) ==
  IF ~ IsSet(reference) /\ config.kind # "UnitOfAccount"
  THEN bootstrap_verdict(obs, config)
  ELSE evaluate(reference, obs, config, health = "Bootstrapping")

\* A faulty variant of record: a refused reading becomes the reference too.
record_always(obs, verdict) ==
  /\ last_refresh_slot' = slot
  /\ health' = verdict.health
  /\ reference' = ReferenceTo(obs)

\* OracleState::record
record(obs, verdict) ==
  /\ last_refresh_slot' = slot
  /\ health' = verdict.health
  /\ reference' = IF verdict.accept THEN ReferenceTo(obs) ELSE reference

-------------------------------------------------------------------------------
\* The instructions.

\* A reading that judges well or badly is recorded.
RefreshReads(own_program_data) ==
  LET obs == Observation(config.kind)
      verdict == Judge(obs)
  IN
  /\ config.kind # "MarketTwap"
  /\ config.kind = "NativeExchangeRate" => Observable(config, own_program_data)
  /\ record(obs, verdict)
  /\ UNCHANGED <<slot, source, config>>

\* A source that does not read is recorded too, as an emergency.
RefreshFails(own_program_data) ==
  /\ config.kind = "NativeExchangeRate"
  /\ ~ Observable(config, own_program_data)
  /\ health' = "Emergency"
  /\ last_refresh_slot' = slot
  /\ UNCHANGED <<slot, source, config, reference>>

\* refresh_oracle: permissionless.  The pool is checked to be the configured
\* account before anything is recorded; its ProgramData is whatever was passed.
RefreshOracle == \E own \in ProgramDataPassed : RefreshReads(own) \/ RefreshFails(own)

\* reset_oracle_breaker: the admin re-anchors to what the source says now.
ResetOracleBreaker ==
  LET obs == Observation(config.kind) IN
  /\ config.kind # "MarketTwap"
  /\ config.kind = "NativeExchangeRate" => Observable(config, TRUE)
  /\ record(obs, Verdict(TRUE, "Healthy"))
  /\ UNCHANGED <<slot, source, config>>

SourceChanged(cfg) ==
  \/ config.account # cfg.account
  \/ config.kind # cfg.kind
  \/ config.expected_deploy_slot # cfg.expected_deploy_slot
  \/ config.expected_upgrade_authority # cfg.expected_upgrade_authority

\* A faulty variant of SetOracle: the health of the old configuration stays.
SetOracleKeepingHealth(cfg) ==
  /\ ValidOracleConfig(cfg)
  /\ config' = cfg
  /\ reference' = IF SourceChanged(cfg) THEN NoReference ELSE reference
  /\ last_refresh_slot' = 0
  /\ UNCHANGED <<slot, source, health>>

\* set_oracle: a reference is a statement about one source, and does not
\* survive a change of it.
SetOracle(cfg) ==
  /\ ValidOracleConfig(cfg)
  /\ config' = cfg
  /\ reference' = IF SourceChanged(cfg) THEN NoReference ELSE reference
  /\ health' = "BorrowFrozen"
  /\ last_refresh_slot' = 0
  /\ UNCHANGED <<slot, source>>

-------------------------------------------------------------------------------
\* Everything outside: the clock, the pool and its program.

Tick ==
  /\ slot < MaxSlot
  /\ slot' = slot + 1
  /\ UNCHANGED <<source, config, reference, health, last_refresh_slot>>

SourceBecomes(new) ==
  /\ source' = new
  /\ UNCHANGED <<slot, config, reference, health, last_refresh_slot>>

\* The pool's figures change within its epoch, or with an update into a later.
PoolMoves(gross, fee, readable, epoch) ==
  /\ epoch \in source.epoch..MaxEpoch
  /\ SourceBecomes([source EXCEPT !.gross = gross, !.fee = fee, !.readable = readable,
                      !.epoch = epoch,
                      !.previous = IF epoch > source.epoch THEN source.gross ELSE @])

Redeploy ==
  /\ source.authority # NO_UPGRADE_AUTHORITY
  /\ source.deploy < MaxDeploy
  /\ SourceBecomes([source EXCEPT !.deploy = @ + 1])

TransferAuthority(authority) ==
  /\ source.authority # NO_UPGRADE_AUTHORITY
  /\ SourceBecomes([source EXCEPT !.authority = authority])

-------------------------------------------------------------------------------
\* set_oracle has created the account, with any valid configuration; nothing
\* has been read.  The clock starts at 1, so that slot 0 means never.
Init ==
  /\ slot = 1
  /\ source \in [gross : Rates, fee : Fees, epoch : {0}, previous : Rates \cup {0},
                 readable : {TRUE}, deploy : {1}, authority : Authorities]
  /\ config \in {cfg \in Configs : ValidOracleConfig(cfg)}
  /\ reference = NoReference
  /\ health = "BorrowFrozen"
  /\ last_refresh_slot = 0

NextButReset ==
  \/ Tick
  \/ RefreshOracle
  \/ \E cfg \in Configs : SetOracle(cfg)
  \/ \E gross \in Rates, fee \in Fees, readable \in BOOLEAN, epoch \in 0..MaxEpoch :
       PoolMoves(gross, fee, readable, epoch)
  \/ Redeploy
  \/ \E authority \in Authorities : TransferAuthority(authority)

Next == ResetOracleBreaker \/ NextButReset

Spec == Init /\ [][Next]_vars
===============================================================================

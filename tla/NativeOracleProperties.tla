------------------------ MODULE NativeOracleProperties ------------------------
(***************************************************************************)
(* What the breaker is for: that the rate the market lends against is one  *)
(* the pool has really reported, moved no faster than the bounds allow,    *)
(* and that no order of readings, failures and reconfigurations buys the   *)
(* right to open new risk.                                                 *)
(***************************************************************************)
EXTENDS NativeOracle

\* The oracle keeps the contract the lending instructions rely on: through every
\* refusal, reset and reconfiguration, new risk is never permitted without a
\* rate, no refresh takes a rate away, and a reconfigured oracle is shut and
\* unstamped (INV-15).
Contract == INSTANCE OracleContract WITH rate <- reference.effective_rate
KeepsContract == Contract!Spec

PermitsNewRisk == health \in {"Healthy", "RateWarning"}

\* While new risk is permitted, the rate lies within the absolute band and net of
\* a fee the configuration in force tolerates, also after the bounds or the
\* source have been changed under a standing reference.
NewRiskIsBounded ==
  PermitsNewRisk =>
    /\ reference.gross_rate \in config.rate_floor..config.rate_ceiling
    /\ reference.withdrawal_fee_bps <= config.max_withdrawal_fee_bps
    /\ reference.effective_rate =
         apply_withdrawal_fee(reference.gross_rate, reference.withdrawal_fee_bps)

\* A rate is only ever what the source says at that moment, read from the pinned
\* deployment: no instruction writes a rate of the caller's choosing, reset
\* included (INV-14, breaker.rs "What the breaker cannot do").
RatesComeFromTheSource ==
  [][IsSet(reference') /\ reference' # reference =>
       \/ config.kind = "UnitOfAccount" /\ reference'.effective_rate = FIXED_POINT_SCALE
       \/ /\ config.kind = "NativeExchangeRate"
          /\ MatchesPin(config)
          /\ reference'.gross_rate = source.gross
          /\ reference'.source_epoch = source.epoch]_vars

\* A refresh never takes the rate to the emergency bound or past it in one step,
\* however many epochs of allowance have piled up and whatever the bounds were
\* when the reference was set; only the admin can.
JumpsNeedTheAdmin ==
  [][RefreshOracle /\ IsSet(reference) /\ reference'.gross_rate # reference.gross_rate =>
       move_bps(reference.gross_rate, reference'.gross_rate)
         < config.emergency_deviation_bps]_vars

\* A further reading of the source as it is would change nothing of consequence.
\* Under an emergency bound of 0, which BreakerConfig::validate lets pass, any
\* reading held against a reference is an emergency, the same one again included:
\* a constant just read is then shut by its second reading.
Settled ==
  LET obs == Observation(config.kind)
      verdict == Judge(obs)
      permitted == verdict.health \in {"Healthy", "RateWarning"}
  IN /\ verdict.accept => ReferenceTo(obs) = reference
     /\ permitted => PermitsNewRisk
     /\ config.emergency_deviation_bps > 0 => (PermitsNewRisk => permitted)

\* Cranking buys nothing: once the source has been read, reading it again while
\* it stands still neither moves the rate nor opens the oracle to new risk, nor,
\* with an emergency bound to speak of, shuts it.
CrankingBuysNothing == [][RefreshReads(TRUE) => Settled']_vars
===============================================================================

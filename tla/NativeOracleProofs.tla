-------------------------- MODULE NativeOracleProofs --------------------------
(***************************************************************************)
(* What holds of the oracle for every configuration, every reading of the  *)
(* source and every bound: that its state is well formed, that new risk is *)
(* only permitted against a bounded rate, and that it keeps the contract   *)
(* of OracleContract.                                                      *)
(*                                                                         *)
(* The inductive invariant adds to the properties what they leave unsaid   *)
(* of an oracle that is shut: a reference that stands is always the net of *)
(* its own fee, and new risk is never permitted without one.               *)
(***************************************************************************)
EXTENDS NativeOracleProperties, MathProofs, TLAPS

OracleInv ==
  /\ TypeOK
  /\ NewRiskIsBounded
  /\ PermitsNewRisk => IsSet(reference)

\* Whatever the source is, a fee leaves a natural rate.
LEMMA FeeNat ==
  ASSUME NEW gross \in Nat, NEW fee \in 0..BPS_DENOMINATOR
  PROVE  apply_withdrawal_fee(gross, fee) \in Nat
<1>1. BPS_DENOMINATOR - fee \in Nat /\ BPS_DENOMINATOR \in Nat \ {0}
  BY ScaleAssumption
<1> QED
  BY <1>1, FloorNat DEF apply_withdrawal_fee

\* No fee, no change.
LEMMA NoFee ==
  ASSUME NEW gross \in Nat
  PROVE  apply_withdrawal_fee(gross, 0) = gross
<1>1. BPS_DENOMINATOR \in Nat \ {0}
  BY ScaleAssumption
<1>2. mul_div_floor(gross, BPS_DENOMINATOR, BPS_DENOMINATOR) \in Nat
  BY <1>1, FloorNat
<1>3. /\ mul_div_floor(gross, BPS_DENOMINATOR, BPS_DENOMINATOR) <= gross
      /\ gross <= mul_div_floor(gross, BPS_DENOMINATOR, BPS_DENOMINATOR)
  BY <1>1, FloorShrinks, FloorGrows
<1>4. apply_withdrawal_fee(gross, 0) = mul_div_floor(gross, BPS_DENOMINATOR, BPS_DENOMINATOR)
  BY <1>1 DEF apply_withdrawal_fee
<1> QED
  BY <1>2, <1>3, <1>4

\* A reading that the oracle of the configuration would look at: a constant, or
\* a pool that reads.
Readable(own) ==
  /\ config.kind # "MarketTwap"
  /\ config.kind = "NativeExchangeRate" => Observable(config, own)

\* Such a reading is a proper reference, within the band of the configuration and
\* net of a fee it tolerates, and carries a rate.
LEMMA ReadingIsSound ==
  ASSUME TypeOK, NEW own \in BOOLEAN, Readable(own),
         NEW obs, obs = Observation(config.kind)
  PROVE  /\ ReferenceTo(obs) \in ReferenceType
         /\ IsSet(ReferenceTo(obs))
         /\ ReferenceTo(obs).gross_rate \in config.rate_floor..config.rate_ceiling
         /\ ReferenceTo(obs).withdrawal_fee_bps <= config.max_withdrawal_fee_bps
         /\ ReferenceTo(obs).effective_rate =
              apply_withdrawal_fee(ReferenceTo(obs).gross_rate,
                                   ReferenceTo(obs).withdrawal_fee_bps)
<1> USE ScaleAssumption
<1>1. config \in ConfigType /\ ValidOracleConfig(config) /\ source \in SourceType
  BY DEF TypeOK
<1>2. config.kind \in {"UnitOfAccount", "NativeExchangeRate"}
  BY <1>1 DEF Readable, ConfigType, Kinds
<1>3. CASE config.kind = "UnitOfAccount"
  <2>1. ReferenceTo(obs) =
          [gross_rate |-> FIXED_POINT_SCALE, effective_rate |-> FIXED_POINT_SCALE,
           withdrawal_fee_bps |-> 0, source_epoch |-> 0]
    BY <1>3 DEF Observation, ReferenceTo
  <2>2. FIXED_POINT_SCALE \in config.rate_floor..config.rate_ceiling
    BY <1>1, <1>3 DEF ValidOracleConfig
  <2>3. apply_withdrawal_fee(FIXED_POINT_SCALE, 0) = FIXED_POINT_SCALE
    BY NoFee
  <2>4. 0 <= config.max_withdrawal_fee_bps
    BY <1>1 DEF ConfigType
  <2> QED
    BY <2>1, <2>2, <2>3, <2>4 DEF IsSet, ReferenceType
<1>4. CASE config.kind = "NativeExchangeRate"
  <2>1. ReferenceTo(obs) =
          [gross_rate |-> source.gross,
           effective_rate |-> apply_withdrawal_fee(source.gross, source.fee),
           withdrawal_fee_bps |-> source.fee, source_epoch |-> source.epoch]
    BY <1>4 DEF Observation, ReferenceTo
  <2>2. Observable(config, own)
    BY <1>4 DEF Readable
  <2>3. source.gross \in Nat /\ source.fee \in 0..BPS_DENOMINATOR /\ source.epoch \in Nat
    BY <1>1 DEF SourceType
  <2>4. apply_withdrawal_fee(source.gross, source.fee) \in Nat
    BY <2>3, FeeNat
  <2>5. source.fee \in Nat
    BY <2>3
  <2> QED
    BY <2>1, <2>2, <2>3, <2>4, <2>5 DEF IsSet, ReferenceType, Observable
<1> QED
  BY <1>2, <1>3, <1>4

\* A verdict is one of the five states, and permits new risk only with a reading
\* it accepts.
LEMMA VerdictIsSound ==
  ASSUME NEW obs
  PROVE  /\ Judge(obs).accept \in BOOLEAN
         /\ Judge(obs).health \in OracleHealth
         /\ Judge(obs).health \in {"Healthy", "RateWarning"} => Judge(obs).accept
<1>1. \A epochs, was : AcceptedHealth(reference, obs, epochs, was) \in OracleHealth
  BY DEF AcceptedHealth, OracleHealth
<1> QED
  BY <1>1 DEF Judge, bootstrap_verdict, evaluate, Verdict, OracleHealth

\* A reading recorded under a sound verdict keeps the invariant, and stamps a
\* rate in place of a rate.
LEMMA RecordKeeps ==
  ASSUME OracleInv, NEW own \in BOOLEAN, Readable(own),
         NEW obs, obs = Observation(config.kind),
         NEW verdict, verdict.accept \in BOOLEAN, verdict.health \in OracleHealth,
         verdict.health \in {"Healthy", "RateWarning"} => verdict.accept,
         record(obs, verdict), UNCHANGED <<slot, source, config>>
  PROVE  OracleInv' /\ (IsSet(reference) => IsSet(reference'))
<1>1. TypeOK
  BY DEF OracleInv
<1>2. /\ ReferenceTo(obs) \in ReferenceType
      /\ IsSet(ReferenceTo(obs))
      /\ ReferenceTo(obs).gross_rate \in config.rate_floor..config.rate_ceiling
      /\ ReferenceTo(obs).withdrawal_fee_bps <= config.max_withdrawal_fee_bps
      /\ ReferenceTo(obs).effective_rate =
           apply_withdrawal_fee(ReferenceTo(obs).gross_rate,
                                ReferenceTo(obs).withdrawal_fee_bps)
  BY <1>1, ReadingIsSound
<1>3. /\ reference' = IF verdict.accept THEN ReferenceTo(obs) ELSE reference
      /\ health' = verdict.health
      /\ last_refresh_slot' = slot
  BY DEF record
<1>4. TypeOK'
  BY <1>1, <1>2, <1>3 DEF TypeOK
<1>5. PermitsNewRisk' => reference' = ReferenceTo(obs)
  BY <1>3 DEF PermitsNewRisk
<1>6. NewRiskIsBounded'
  BY <1>2, <1>5 DEF NewRiskIsBounded, apply_withdrawal_fee
<1>7. (PermitsNewRisk => IsSet(reference))'
  BY <1>2, <1>5 DEF IsSet
<1>8. IsSet(reference) => IsSet(reference')
  BY <1>2, <1>3
<1> QED
  BY <1>4, <1>6, <1>7, <1>8 DEF OracleInv

-------------------------------------------------------------------------------
\* Each instruction is a step the contract allows, and keeps the invariant.

LEMMA ReadKeeps ==
  ASSUME OracleInv, NEW own \in BOOLEAN, RefreshReads(own)
  PROVE  OracleInv' /\ Contract!Refresh
<1> DEFINE obs == Observation(config.kind)
           verdict == Judge(obs)
<1>1. /\ Readable(own)
      /\ record(obs, verdict)
      /\ UNCHANGED <<slot, source, config>>
  BY DEF RefreshReads, Readable
<1>2. /\ verdict.accept \in BOOLEAN
      /\ verdict.health \in OracleHealth
      /\ verdict.health \in {"Healthy", "RateWarning"} => verdict.accept
  BY VerdictIsSound
<1>3. OracleInv' /\ (IsSet(reference) => IsSet(reference'))
  <2> HIDE DEF obs, verdict
  <2> QED
    BY <1>1, <1>2, RecordKeeps DEF obs
<1>4. last_refresh_slot' = slot /\ slot' = slot
  BY <1>1 DEF record
<1> QED
  BY <1>3, <1>4
     DEF Contract!Refresh, Contract!PermitsNewRisk, Contract!OracleHealth, OracleHealth,
         OracleInv, TypeOK, PermitsNewRisk, IsSet, ReferenceType

LEMMA FailKeeps ==
  ASSUME OracleInv, NEW own \in BOOLEAN, RefreshFails(own)
  PROVE  OracleInv' /\ Contract!Refresh
<1>1. /\ health' = "Emergency"
      /\ last_refresh_slot' = slot
      /\ UNCHANGED <<slot, source, config, reference>>
  BY DEF RefreshFails
<1>2. TypeOK'
  BY <1>1 DEF OracleInv, TypeOK, OracleHealth
<1> QED
  BY <1>1, <1>2
     DEF OracleInv, TypeOK, NewRiskIsBounded, PermitsNewRisk, IsSet, ReferenceType,
         Contract!Refresh, Contract!PermitsNewRisk, Contract!OracleHealth

LEMMA ResetKeeps ==
  ASSUME OracleInv, ResetOracleBreaker
  PROVE  OracleInv' /\ Contract!Refresh
<1> DEFINE obs == Observation(config.kind)
           verdict == Verdict(TRUE, "Healthy")
<1> DEFINE own == TRUE
<1>1. /\ own \in BOOLEAN
      /\ Readable(own)
      /\ record(obs, verdict)
      /\ UNCHANGED <<slot, source, config>>
  BY DEF ResetOracleBreaker, Readable
<1>2. /\ verdict.accept = TRUE
      /\ verdict.health = "Healthy"
      /\ verdict.health \in OracleHealth
  BY DEF Verdict, OracleHealth
<1>3. OracleInv' /\ (IsSet(reference) => IsSet(reference'))
  <2> HIDE DEF obs, verdict, own
  <2>1. verdict.accept \in BOOLEAN /\ obs = Observation(config.kind)
    BY <1>2 DEF obs
  <2> QED
    BY <1>1, <1>2, <2>1, RecordKeeps
<1>4. last_refresh_slot' = slot /\ slot' = slot
  BY <1>1 DEF record
<1> QED
  BY <1>3, <1>4
     DEF Contract!Refresh, Contract!PermitsNewRisk, Contract!OracleHealth, OracleHealth,
         OracleInv, TypeOK, PermitsNewRisk, IsSet, ReferenceType

LEMMA SetOracleKeeps ==
  ASSUME OracleInv, NEW cfg \in Configs, SetOracle(cfg)
  PROVE  OracleInv' /\ Contract!Reconfigure
<1>1. /\ ValidOracleConfig(cfg)
      /\ config' = cfg
      /\ reference' \in {reference, NoReference}
      /\ health' = "BorrowFrozen"
      /\ last_refresh_slot' = 0
      /\ UNCHANGED <<slot, source>>
  BY DEF SetOracle
<1>2. cfg \in ConfigType
  BY OracleAssumption
<1>3. TypeOK'
  BY <1>1, <1>2 DEF OracleInv, TypeOK, OracleHealth, NoReference, ReferenceType
<1>4. ~ PermitsNewRisk'
  BY <1>1 DEF PermitsNewRisk
<1> QED
  BY <1>1, <1>3, <1>4 DEF OracleInv, NewRiskIsBounded, NoReference, Contract!Reconfigure

\* The clock and the pool leave the oracle as it is.
LEMMA OutsideKeeps ==
  ASSUME OracleInv, UNCHANGED <<config, reference, health, last_refresh_slot>>,
         slot' \in Nat, source' \in SourceType
  PROVE  OracleInv'
BY DEF OracleInv, TypeOK, NewRiskIsBounded, PermitsNewRisk, IsSet, apply_withdrawal_fee

LEMMA PoolMovesTyped ==
  ASSUME OracleInv, NEW gross \in Rates, NEW fee \in Fees, NEW readable \in BOOLEAN,
         NEW epoch \in 0..MaxEpoch, PoolMoves(gross, fee, readable, epoch)
  PROVE  source' \in SourceType
<1>1. gross \in Nat /\ fee \in 0..BPS_DENOMINATOR /\ epoch \in Nat /\ source \in SourceType
  BY OracleAssumption DEF OracleInv, TypeOK
<1>2. PICK previous \in Nat :
        source' = [source EXCEPT !.gross = gross, !.fee = fee, !.readable = readable,
                                 !.epoch = epoch, !.previous = previous]
  BY <1>1 DEF PoolMoves, SourceBecomes, SourceType
<1> QED
  BY <1>1, <1>2 DEF SourceType

\* Every step keeps the invariant and is a step of the contract, or none.
LEMMA StepKeeps ==
  ASSUME OracleInv, [Next]_vars
  PROVE  OracleInv' /\ [Contract!Next]_(Contract!contract_vars)
<1> USE DEF Contract!Next, Contract!contract_vars
<1>1. CASE Tick
  <2>1. /\ slot' = slot + 1
        /\ UNCHANGED <<source, config, reference, health, last_refresh_slot>>
    BY <1>1 DEF Tick
  <2>2. slot' \in Nat /\ source' \in SourceType
    BY <2>1 DEF OracleInv, TypeOK
  <2> QED
    BY <2>1, <2>2, OutsideKeeps DEF Contract!Tick
<1>2. CASE RefreshOracle
  BY <1>2, ReadKeeps, FailKeeps, OracleAssumption DEF RefreshOracle
<1>3. CASE ResetOracleBreaker
  BY <1>3, ResetKeeps
<1>4. CASE \E cfg \in Configs : SetOracle(cfg)
  BY <1>4, SetOracleKeeps
<1>5. CASE \E gross \in Rates, fee \in Fees, readable \in BOOLEAN, epoch \in 0..MaxEpoch :
             PoolMoves(gross, fee, readable, epoch)
  <2>1. UNCHANGED <<slot, config, reference, health, last_refresh_slot>>
    BY <1>5 DEF PoolMoves, SourceBecomes
  <2>2. source' \in SourceType
    BY <1>5, PoolMovesTyped
  <2>3. slot' \in Nat
    BY <2>1 DEF OracleInv, TypeOK
  <2> QED
    BY <2>1, <2>2, <2>3, OutsideKeeps
<1>6. CASE Redeploy
  <2>1. /\ source' = [source EXCEPT !.deploy = @ + 1]
        /\ UNCHANGED <<slot, config, reference, health, last_refresh_slot>>
    BY <1>6 DEF Redeploy, SourceBecomes
  <2>2. slot' \in Nat /\ source' \in SourceType
    BY <2>1 DEF OracleInv, TypeOK, SourceType
  <2> QED
    BY <2>1, <2>2, OutsideKeeps
<1>7. CASE \E authority \in Authorities : TransferAuthority(authority)
  <2>1. PICK authority \in Authorities :
          /\ source' = [source EXCEPT !.authority = authority]
          /\ UNCHANGED <<slot, config, reference, health, last_refresh_slot>>
    BY <1>7 DEF TransferAuthority, SourceBecomes
  <2>2. slot' \in Nat /\ source' \in SourceType
    BY <2>1 DEF OracleInv, TypeOK, SourceType
  <2> QED
    BY <2>1, <2>2, OutsideKeeps
<1>8. CASE UNCHANGED vars
  <2>1. UNCHANGED <<slot, source, config, reference, health, last_refresh_slot>>
    BY <1>8 DEF vars
  <2>2. slot' \in Nat /\ source' \in SourceType
    BY <2>1 DEF OracleInv, TypeOK
  <2> QED
    BY <2>1, <2>2, OutsideKeeps
<1> QED
  BY <1>1, <1>2, <1>3, <1>4, <1>5, <1>6, <1>7, <1>8 DEF Next, NextButReset

LEMMA InitKeeps ==
  ASSUME Init
  PROVE  OracleInv /\ Contract!Init
<1>1. source \in SourceType
  <2>1. /\ source \in [gross : Rates, fee : Fees, epoch : {0}, previous : Rates \cup {0},
                       readable : {TRUE}, deploy : {1}, authority : Authorities]
        /\ Rates \subseteq Nat /\ Fees \subseteq 0..BPS_DENOMINATOR
    BY OracleAssumption DEF Init
  <2>2. /\ source.gross \in Rates /\ source.previous \in Rates \cup {0}
        /\ source.fee \in Fees /\ source.epoch \in {0} /\ source.deploy \in {1}
        /\ source.authority \in Authorities
    BY <2>1
  <2>3. source.readable \in BOOLEAN
    <3>1. source.readable = TRUE
      BY <2>1
    <3> QED
      BY <3>1
  <2>4. /\ source.gross \in Nat /\ source.previous \in Nat
        /\ source.fee \in 0..BPS_DENOMINATOR /\ source.epoch \in Nat
        /\ source.deploy \in Nat
    <3>1. Rates \subseteq Nat /\ Fees \subseteq 0..BPS_DENOMINATOR
      BY <2>1
    <3>2. \A rate \in Rates \cup {0} : rate \in Nat
      BY <3>1
    <3>3. source.gross \in Nat /\ source.previous \in Nat
      BY <2>2, <3>2
    <3>4. source.fee \in 0..BPS_DENOMINATOR
      BY <2>2, <3>1
    <3> QED
      BY <2>2, <3>3, <3>4
  <2>5. source = [gross |-> source.gross, fee |-> source.fee, epoch |-> source.epoch,
                  previous |-> source.previous, readable |-> source.readable,
                  deploy |-> source.deploy, authority |-> source.authority]
    BY <2>1
  <2> QED
    BY <2>2, <2>3, <2>4, <2>5 DEF SourceType
<1>2. config \in {cfg \in ConfigType : ValidOracleConfig(cfg)}
  BY OracleAssumption DEF Init
<1>3. TypeOK
  BY <1>1, <1>2 DEF Init, TypeOK, NoReference, ReferenceType, OracleHealth
<1> QED
  BY <1>3
     DEF Init, OracleInv, NewRiskIsBounded, PermitsNewRisk, NoReference, Contract!Init

\* The inductive invariant holds in every state of the oracle, whatever the
\* configurations, the readings of the pool and the bounds.
THEOREM OracleInvariant == Spec => []OracleInv
<1>1. Init => OracleInv
  BY InitKeeps
<1>2. OracleInv /\ [Next]_vars => OracleInv'
  BY StepKeeps
<1> QED
  BY <1>1, <1>2, PTL DEF Spec

\* The oracle's state is always well formed, and its configuration one that
\* validate_config accepts.
THEOREM OracleTyped == Spec => []TypeOK
<1>1. OracleInv => TypeOK
  BY DEF OracleInv
<1> QED
  BY <1>1, OracleInvariant, PTL

\* New risk is only ever permitted against a rate within the absolute band of the
\* configuration in force, net of a fee it tolerates.
THEOREM NewRiskAlwaysBounded == Spec => []NewRiskIsBounded
<1>1. OracleInv => NewRiskIsBounded
  BY DEF OracleInv
<1> QED
  BY <1>1, OracleInvariant, PTL

\* The oracle implements the contract that the lending instructions rely on.
THEOREM OracleKeepsContract == Spec => KeepsContract
<1>1. Init => Contract!Init
  BY InitKeeps
<1>2. OracleInv /\ [Next]_vars => [Contract!Next]_(Contract!contract_vars)
  BY StepKeeps
<1> QED
  BY <1>1, <1>2, OracleInvariant, PTL DEF Spec, KeepsContract, Contract!Spec

-------------------------------------------------------------------------------
\* What a step may do to the reference.

\* The reference is written by two instructions that read the source, and
\* cleared or left alone by every other step.
LEMMA WhoWritesTheReference ==
  ASSUME OracleInv, [Next]_vars, reference' # reference
  PROVE  \/ \E own \in BOOLEAN : RefreshReads(own)
         \/ ResetOracleBreaker
         \/ reference' = NoReference
<1>1. CASE RefreshOracle
  <2>1. PICK own \in BOOLEAN : RefreshReads(own) \/ RefreshFails(own)
    BY <1>1, OracleAssumption DEF RefreshOracle
  <2> QED
    BY <2>1 DEF RefreshFails
<1>2. CASE \E cfg \in Configs : SetOracle(cfg)
  BY <1>2 DEF SetOracle
<1>3. CASE UNCHANGED reference
  BY <1>3
<1> QED
  BY <1>1, <1>2, <1>3
     DEF Next, NextButReset, Tick, PoolMoves, Redeploy, TransferAuthority, SourceBecomes, vars

\* What is recorded is the observation, or nothing.
LEMMA RecordedFromTheSource ==
  ASSUME OracleInv, NEW own \in BOOLEAN, Readable(own),
         NEW verdict, record(Observation(config.kind), verdict),
         reference' # reference
  PROVE  \/ config.kind = "UnitOfAccount" /\ reference'.effective_rate = FIXED_POINT_SCALE
         \/ /\ config.kind = "NativeExchangeRate"
            /\ MatchesPin(config)
            /\ reference'.gross_rate = source.gross
            /\ reference'.source_epoch = source.epoch
<1>1. reference' = ReferenceTo(Observation(config.kind))
  BY DEF record
<1>2. config.kind \in {"UnitOfAccount", "NativeExchangeRate"}
  BY DEF OracleInv, TypeOK, ConfigType, Kinds, Readable
<1>3. CASE config.kind = "UnitOfAccount"
  BY <1>1, <1>3 DEF Observation, ReferenceTo
<1>4. CASE config.kind = "NativeExchangeRate"
  <2>1. MatchesPin(config)
    BY <1>4 DEF Readable, Observable
  <2>2. reference'.gross_rate = source.gross /\ reference'.source_epoch = source.epoch
    BY <1>1, <1>4 DEF Observation, ReferenceTo
  <2> QED
    BY <1>4, <2>1, <2>2
<1> QED
  BY <1>2, <1>3, <1>4

\* A rate is only ever what the source says at that moment, read from the pinned
\* deployment, for every configuration and every history of the source.
THEOREM RatesAlwaysFromTheSource == Spec => RatesComeFromTheSource
<1> DEFINE FromTheSource ==
      \/ config.kind = "UnitOfAccount" /\ reference'.effective_rate = FIXED_POINT_SCALE
      \/ /\ config.kind = "NativeExchangeRate"
         /\ MatchesPin(config)
         /\ reference'.gross_rate = source.gross
         /\ reference'.source_epoch = source.epoch
<1>1. ASSUME OracleInv, [Next]_vars, IsSet(reference'), reference' # reference
      PROVE  FromTheSource
  <2>1. reference' # NoReference
    BY <1>1 DEF IsSet, NoReference
  <2>2. CASE \E own \in BOOLEAN : RefreshReads(own)
    <3>1. PICK own \in BOOLEAN : RefreshReads(own)
      BY <2>2
    <3>2. Readable(own) /\ record(Observation(config.kind), Judge(Observation(config.kind)))
      BY <3>1 DEF RefreshReads, Readable
    <3> QED
      BY <1>1, <3>2, RecordedFromTheSource
  <2>3. CASE ResetOracleBreaker
    <3>1. /\ Readable(TRUE)
          /\ record(Observation(config.kind), Verdict(TRUE, "Healthy"))
      BY <2>3 DEF ResetOracleBreaker, Readable
    <3> QED
      BY <1>1, <3>1, RecordedFromTheSource
  <2> QED
    BY <1>1, <2>1, <2>2, <2>3, WhoWritesTheReference
<1>2. OracleInv /\ [Next]_vars =>
        [IsSet(reference') /\ reference' # reference => FromTheSource]_vars
  BY <1>1
<1> QED
  BY <1>2, OracleInvariant, PTL DEF Spec, RatesComeFromTheSource

\* A reading accepted against a reference lies short of the emergency bound.
LEMMA AcceptedIsShort ==
  ASSUME OracleInv, NEW obs, obs.gross_rate \in Nat,
         IsSet(reference), Judge(obs).accept
  PROVE  move_bps(reference.gross_rate, obs.gross_rate) < config.emergency_deviation_bps
<1>1. ~ BeyondEmergency(reference, obs, config)
  BY DEF Judge, evaluate, Verdict
<1>2. move_bps(reference.gross_rate, obs.gross_rate) \in Nat
  <2>1. /\ reference.gross_rate \in Nat
        /\ abs_diff(reference.gross_rate, obs.gross_rate) \in Nat
        /\ BPS_DENOMINATOR \in Nat
    BY ScaleAssumption DEF OracleInv, TypeOK, ReferenceType, abs_diff
  <2>2. CASE reference.gross_rate = 0
    BY <2>2 DEF move_bps
  <2>3. CASE reference.gross_rate # 0
    <3>1. reference.gross_rate \in Nat \ {0}
      BY <2>1, <2>3
    <3>2. mul_div_floor(abs_diff(reference.gross_rate, obs.gross_rate), BPS_DENOMINATOR,
                        reference.gross_rate) \in Nat
      BY <2>1, <3>1, FloorNat
    <3> QED
      BY <2>3, <3>2 DEF move_bps
  <2> QED
    BY <2>2, <2>3
<1>3. config.emergency_deviation_bps \in Nat
  BY DEF OracleInv, TypeOK, ConfigType
<1> QED
  BY <1>1, <1>2, <1>3 DEF BeyondEmergency

\* No refresh takes the rate to the emergency bound or past it, however many
\* epochs of allowance have piled up: only the admin can.
THEOREM JumpsAlwaysNeedTheAdmin == Spec => JumpsNeedTheAdmin
<1>1. ASSUME OracleInv, RefreshOracle, IsSet(reference),
             reference'.gross_rate # reference.gross_rate
      PROVE  move_bps(reference.gross_rate, reference'.gross_rate)
               < config.emergency_deviation_bps
  <2> DEFINE obs == Observation(config.kind)
  <2>1. PICK own \in BOOLEAN : RefreshReads(own)
    BY <1>1, OracleAssumption DEF RefreshOracle, RefreshFails
  <2>2. Readable(own) /\ record(obs, Judge(obs))
    BY <2>1 DEF RefreshReads, Readable
  <2>3. Judge(obs).accept /\ reference' = ReferenceTo(obs)
    BY <1>1, <2>2 DEF record
  <2>4. ReferenceTo(obs) \in ReferenceType
    BY <1>1, <2>2, ReadingIsSound DEF OracleInv
  <2>5. reference'.gross_rate = obs.gross_rate /\ obs.gross_rate \in Nat
    BY <2>3, <2>4 DEF ReferenceTo, ReferenceType
  <2> QED
    BY <1>1, <2>3, <2>5, AcceptedIsShort
<1>2. OracleInv /\ [Next]_vars =>
        [RefreshOracle /\ IsSet(reference) /\ reference'.gross_rate # reference.gross_rate =>
           move_bps(reference.gross_rate, reference'.gross_rate)
             < config.emergency_deviation_bps]_vars
  BY <1>1
<1> QED
  BY <1>2, OracleInvariant, PTL DEF Spec, JumpsNeedTheAdmin

-------------------------------------------------------------------------------
\* Reading the source again.

\* A rate has not moved from itself.
LEMMA NoMove ==
  ASSUME NEW rate \in Nat
  PROVE  move_bps(rate, rate) = 0
<1>1. abs_diff(rate, rate) = 0
  BY DEF abs_diff
<1>2. CASE rate = 0
  BY <1>2 DEF move_bps
<1>3. CASE rate # 0
  BY <1>1, <1>3, NothingScaled, ScaleAssumption DEF move_bps
<1> QED
  BY <1>2, <1>3

\* What the breaker says of a reading does not depend on the health it is judged
\* under, but for the health of what it accepts.
LEMMA RefusedWhateverTheHealth ==
  ASSUME NEW ref, NEW obs, NEW cfg, NEW was, NEW now, IsSet(ref),
         ~ evaluate(ref, obs, cfg, was).accept
  PROVE  /\ ~ evaluate(ref, obs, cfg, now).accept
         /\ evaluate(ref, obs, cfg, now).health \notin {"Healthy", "RateWarning"}
BY DEF evaluate, Verdict

\* Against the reference it has itself become, a reading is accepted unless every
\* reading is an emergency; an unconfirmed one stays unconfirmed and a confirmed
\* one stays confirmed.
LEMMA AcceptedAgain ==
  ASSUME NEW cfg \in ConfigType, NEW obs, ReferenceTo(obs) \in ReferenceType,
         NEW now \in BOOLEAN, IsSet(ReferenceTo(obs))
  PROVE  LET again == evaluate(ReferenceTo(obs), obs, cfg, now) IN
         /\ now => again.health \notin {"Healthy", "RateWarning"}
         /\ ~ now /\ cfg.emergency_deviation_bps > 0 =>
              again.health \in {"Healthy", "RateWarning"}
<1> DEFINE ref == ReferenceTo(obs)
<1>1. /\ ref.gross_rate = obs.gross_rate /\ ref.source_epoch = obs.source_epoch
      /\ obs.gross_rate \in Nat /\ obs.source_epoch \in Nat
  BY DEF ReferenceTo, ReferenceType
<1>2. /\ cfg.emergency_deviation_bps \in Nat
      /\ cfg.max_up_bps_per_epoch \in Nat /\ cfg.max_down_bps_per_epoch \in Nat
      /\ cfg.max_epoch_allowance \in Nat
  BY DEF ConfigType
<1>3. move_bps(ref.gross_rate, obs.gross_rate) = 0
  BY <1>1, NoMove
<1>4. DirectionBps(cfg, ref.gross_rate, obs.gross_rate) \in Nat
  BY <1>2 DEF DirectionBps
<1>5. epochs_elapsed(ref, obs, cfg) \in Nat
  <2>1. AtLeast(saturating_sub(obs.source_epoch, ref.source_epoch), 1) = 1
    BY <1>1 DEF AtLeast, saturating_sub
  <2> QED
    BY <1>2, <2>1 DEF epochs_elapsed, AtMost
<1>6. DirectionBps(cfg, ref.gross_rate, obs.gross_rate) * epochs_elapsed(ref, obs, cfg) \in Nat
  BY <1>4, <1>5, ProductNat
<1>7. WithinAllowance(ref, obs, cfg)
  BY <1>3, <1>6 DEF WithinAllowance
<1>8. BeyondEmergency(ref, obs, cfg) <=> cfg.emergency_deviation_bps = 0
  BY <1>2, <1>3 DEF BeyondEmergency
<1>9. obs.source_epoch <= ref.source_epoch
  BY <1>1
<1> HIDE DEF ref
<1>10. IsSet(ref)
  BY DEF ref
<1>11. LET again == evaluate(ref, obs, cfg, now) IN
         /\ now => again.health \notin {"Healthy", "RateWarning"}
         /\ ~ now /\ cfg.emergency_deviation_bps > 0 =>
              again.health \in {"Healthy", "RateWarning"}
  <2>1. CASE BeyondEmergency(ref, obs, cfg)
    BY <1>2, <1>8, <1>10, <2>1 DEF evaluate, Verdict
  <2>2. CASE ~ BeyondEmergency(ref, obs, cfg)
    <3>1. evaluate(ref, obs, cfg, now).health
            = AcceptedHealth(ref, obs, epochs_elapsed(ref, obs, cfg), now)
      BY <1>7, <1>10, <2>2 DEF evaluate, Verdict
    <3> QED
      BY <1>9, <3>1 DEF AcceptedHealth
  <2> QED
    BY <2>1, <2>2
<1> QED
  BY <1>11 DEF ref

\* Reading the source twice over is reading it once: the second reading is judged
\* against what the first has left.
LEMMA ReadTwice ==
  ASSUME OracleInv, RefreshReads(TRUE)
  PROVE  Settled'
<1> DEFINE obs == Observation(config.kind)
           first == Judge(obs)
           again == Judge(obs)'
           permitted(verdict) == verdict.health \in {"Healthy", "RateWarning"}
<1>1. /\ Readable(TRUE)
      /\ record(obs, first)
      /\ UNCHANGED <<slot, source, config>>
  BY DEF RefreshReads, Readable
<1>2. obs' = obs
  BY <1>1 DEF Observation
<1>3. /\ reference' = IF first.accept THEN ReferenceTo(obs) ELSE reference
      /\ health' = first.health
  BY <1>1 DEF record
<1>4. TypeOK /\ TRUE \in BOOLEAN
  BY DEF OracleInv
<1>5. ReferenceTo(obs) \in ReferenceType /\ IsSet(ReferenceTo(obs))
  BY <1>1, <1>4, ReadingIsSound
<1>6. config \in ConfigType
  BY <1>4 DEF TypeOK
<1>7. PermitsNewRisk' <=> permitted(first)
  BY <1>3 DEF PermitsNewRisk
<1>8. again = IF ~ IsSet(reference') /\ config.kind # "UnitOfAccount"
              THEN bootstrap_verdict(obs, config)
              ELSE evaluate(reference', obs, config, health' = "Bootstrapping")
  <2> HIDE DEF obs
  <2> QED
    BY <1>1, <1>2 DEF Judge
<1>9. first = IF ~ IsSet(reference) /\ config.kind # "UnitOfAccount"
              THEN bootstrap_verdict(obs, config)
              ELSE evaluate(reference, obs, config, health = "Bootstrapping")
  BY DEF Judge
<1> HIDE DEF obs, first, again
<1>10. /\ again.accept => ReferenceTo(obs) = reference'
       /\ permitted(again) => permitted(first)
       /\ config.emergency_deviation_bps > 0 => (permitted(first) => permitted(again))
  <2>1. CASE first.accept
    <3>1. reference' = ReferenceTo(obs)
      BY <1>3, <2>1
    <3>2. again = evaluate(ReferenceTo(obs), obs, config, health' = "Bootstrapping")
      BY <1>5, <1>8, <3>1
    <3>3. first.health \in {"Healthy", "RateWarning", "Bootstrapping"}
      BY <1>9, <2>1 DEF bootstrap_verdict, evaluate, Verdict, AcceptedHealth
    <3> QED
      BY <1>3, <1>5, <1>6, <3>1, <3>2, <3>3, AcceptedAgain
  <2>2. CASE ~ first.accept
    <3>1. reference' = reference
      BY <1>3, <2>2
    <3>2. CASE ~ IsSet(reference)
      <4>1. first = bootstrap_verdict(obs, config) /\ again = first
        BY <1>8, <1>9, <2>2, <3>1, <3>2 DEF evaluate, Verdict
      <4> QED
        BY <2>2, <4>1
    <3>3. CASE IsSet(reference)
      <4>1. /\ first = evaluate(reference, obs, config, health = "Bootstrapping")
            /\ again = evaluate(reference, obs, config, health' = "Bootstrapping")
        BY <1>8, <1>9, <3>1, <3>3
      <4>2. ~ again.accept /\ ~ permitted(again)
        BY <2>2, <3>3, <4>1, RefusedWhateverTheHealth
      <4>3. ~ permitted(first)
        BY <2>2, <3>3, <4>1, RefusedWhateverTheHealth
      <4> QED
        BY <4>2, <4>3
    <3> QED
      BY <3>2, <3>3
  <2> QED
    BY <2>1, <2>2
<1>11. Settled' <=>
         /\ again.accept => ReferenceTo(obs) = reference'
         /\ permitted(again) => PermitsNewRisk'
         /\ config.emergency_deviation_bps > 0 => (PermitsNewRisk' => permitted(again))
  BY <1>1, <1>2 DEF Settled, ReferenceTo, obs, again
<1> QED
  BY <1>7, <1>10, <1>11

\* Once the source has been read, reading it again while it stands still buys
\* nothing, for every configuration, reading and history.
THEOREM CrankingNeverBuysAnything == Spec => CrankingBuysNothing
<1>1. OracleInv /\ [Next]_vars => [RefreshReads(TRUE) => Settled']_vars
  BY ReadTwice
<1> QED
  BY <1>1, OracleInvariant, PTL DEF Spec, CrankingBuysNothing
===============================================================================

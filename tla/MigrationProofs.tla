--------------------------- MODULE MigrationProofs ---------------------------
(***************************************************************************)
(* The migration for any number of reserves and obligations.               *)
(*                                                                         *)
(* What keeps a half migrated market safe is not in any one guard: borrow  *)
(* looks at the reserve it borrows from, and trusts what refresh_obligation*)
(* found of the others earlier in the slot.  The invariant is that such a  *)
(* finding stands only over reserves that have been migrated, and falls    *)
(* with the first change of the obligation's entries.                      *)
(***************************************************************************)
EXTENDS MigrationProperties, TLAPS

\* What refresh_obligation has found stands over migrated reserves.
FoundOverMigrated ==
  \A o \in Obligations : cached[o] # "stale" => \A e \in Entries(o) : Migrated(e)

\* No oracle but a market's is open to anything without a reference, and an account
\* that has not been created holds none.
OpenOnAReference ==
  \A r \in Reserves :
    /\ ~ Created(r) => oracle[r].reference = 0
    /\ oracle[r].kind # "MarketTwap" /\ oracle[r].health # "Shut" => oracle[r].reference > 0

MigrationInv == TypeOK /\ OneSource /\ FoundOverMigrated /\ OpenOnAReference

-------------------------------------------------------------------------------
\* The actions by what they touch.

\* The instructions on an oracle.
OracleStep ==
  \/ \E r \in Reserves, source_changed \in BOOLEAN :
       \E kind \in Kinds[r] : SetOracle(r, kind, source_changed)
  \/ \E r \in Reserves : RefreshOracle(r)
  \/ \E r \in Reserves, health \in {"Shut", "Bootstrapping", "Permits"} :
       \E price \in Rates[r] \cup {0} : RefreshMarketOracle(r, price, health)
  \/ \E r \in Reserves : ResetOracleBreaker(r)

\* The instructions on an obligation.
ObligationStep ==
  \/ \E o \in Obligations : RefreshObligation(o)
  \/ \E o \in Obligations, r \in Reserves :
       \/ DepositCollateral(o, r) \/ WithdrawCollateral(o, r)
       \/ Borrow(o, r) \/ Repay(o, r) \/ AbsorbBadDebt(o, r)
       \/ \E c \in Reserves : Liquidate(o, r, c)

LEMMA NextByPart ==
  ASSUME [Next]_vars
  PROVE  \/ \E r \in Reserves : \E kind \in Kinds[r] : MigrateReserveToV2(r, kind)
         \/ MigrateGlobalToV2
         \/ OracleStep
         \/ ObligationStep
         \/ NextSlot
         \/ \E r \in Reserves : SourceChanges(r)
         \/ UNCHANGED vars
BY DEF Next, OracleStep, ObligationStep

LEMMA OracleStepFrame ==
  ASSUME OracleStep
  PROVE  UNCHANGED <<market_vars, source, obligation_vars>>
BY DEF OracleStep, SetOracle, RefreshOracle, RefreshMarketOracle, ResetOracleBreaker

LEMMA ObligationStepFrame ==
  ASSUME ObligationStep
  PROVE  UNCHANGED <<market_vars, oracle, source>>
BY DEF ObligationStep, RefreshObligation, DepositCollateral, WithdrawCollateral, Borrow, Repay,
       AbsorbBadDebt, Liquidate

-------------------------------------------------------------------------------
\* What each step leaves.

\* The migration goes one way, and no step leaves a finding over entries it changed.
LEMMA StepFrame ==
  ASSUME TypeOK, [Next]_vars
  PROVE  /\ \A r \in Reserves : Migrated(r) => points_to'[r] = "oracle"
         /\ \A o \in Obligations :
              cached'[o] # "stale" =>
                /\ debt'[o] = debt[o] /\ deposits'[o] = deposits[o]
                /\ cached[o] # "stale" \/ \A e \in Entries(o) : Migrated(e)
<1> USE DEF TypeOK, Amounts, market_vars, obligation_vars, Migrated
<1>1. CASE \E r \in Reserves : \E kind \in Kinds[r] : MigrateReserveToV2(r, kind)
  BY <1>1 DEF MigrateReserveToV2, Bootstraps
<1>2. CASE MigrateGlobalToV2
  BY <1>2 DEF MigrateGlobalToV2
<1>3. CASE OracleStep
  BY <1>3, OracleStepFrame
<1>4. CASE \E o \in Obligations : RefreshObligation(o)
  <2>1. PICK o \in Obligations : RefreshObligation(o)
    BY <1>4
  <2>2. \A p \in Obligations : p # o => cached'[p] = cached[p]
    BY <2>1 DEF RefreshObligation
  <2>3. \A e \in Entries(o) : Migrated(e)
    BY <2>1 DEF RefreshObligation, Readable
  <2>4. points_to' = points_to /\ debt' = debt /\ deposits' = deposits
    BY <2>1 DEF RefreshObligation
  <2> QED
    BY <2>2, <2>3, <2>4
<1>5. CASE \E o \in Obligations, r \in Reserves :
             \/ DepositCollateral(o, r) \/ WithdrawCollateral(o, r)
             \/ Borrow(o, r) \/ Repay(o, r) \/ AbsorbBadDebt(o, r)
             \/ \E c \in Reserves : Liquidate(o, r, c)
  <2>1. PICK o \in Obligations, r \in Reserves :
          \/ DepositCollateral(o, r) \/ WithdrawCollateral(o, r)
          \/ Borrow(o, r) \/ Repay(o, r) \/ AbsorbBadDebt(o, r)
          \/ \E c \in Reserves : Liquidate(o, r, c)
    BY <1>5
  <2>2. points_to' = points_to /\ cached' = [cached EXCEPT ![o] = "stale"]
    BY <2>1 DEF DepositCollateral, WithdrawCollateral, Borrow, Repay, AbsorbBadDebt, Liquidate
  <2>3. \A p \in Obligations : p # o => debt'[p] = debt[p] /\ deposits'[p] = deposits[p]
    BY <2>1 DEF DepositCollateral, WithdrawCollateral, Borrow, Repay, AbsorbBadDebt, Liquidate
  <2> QED
    BY <2>2, <2>3
<1>6. CASE NextSlot
  BY <1>6 DEF NextSlot
<1>7. CASE \E r \in Reserves : SourceChanges(r)
  BY <1>7 DEF SourceChanges
<1>8. CASE UNCHANGED vars
  BY <1>8 DEF vars
<1> QED
  BY <1>1, <1>2, <1>3, <1>4, <1>5, <1>6, <1>7, <1>8, NextByPart DEF ObligationStep

\* What may become of one oracle in one step.
OracleBecomes(r) ==
  \/ oracle'[r] = oracle[r]
  \/ oracle'[r] = [oracle[r] EXCEPT !.fresh = FALSE]
  \/ \E kind \in Kinds[r] : MigrateReserveToV2(r, kind)
  \/ \E kind \in Kinds[r], source_changed \in BOOLEAN : SetOracle(r, kind, source_changed)
  \/ RefreshAccepts(r)
  \/ RefreshRefuses(r)
  \/ \E health \in {"Shut", "Bootstrapping", "Permits"}, price \in Rates[r] \cup {0} :
       RefreshMarketOracle(r, price, health)
  \/ ResetOracleBreaker(r)

LEMMA StepOnOracles ==
  ASSUME TypeOK, [Next]_vars
  PROVE  /\ oracle' = [r \in Reserves |-> oracle'[r]]
         /\ \A r \in Reserves : OracleBecomes(r)
<1>1. oracle = [r \in Reserves |-> oracle[r]]
  BY DEF TypeOK
<1>2. CASE \E r \in Reserves : \E kind \in Kinds[r] : MigrateReserveToV2(r, kind)
  <2>1. PICK r \in Reserves : \E kind \in Kinds[r] : MigrateReserveToV2(r, kind)
    BY <1>2
  <2>2. PICK new : oracle' = [oracle EXCEPT ![r] = new]
    BY <2>1 DEF MigrateReserveToV2, Bootstraps
  <2> QED
    BY <1>1, <2>1, <2>2 DEF OracleBecomes
<1>3. CASE OracleStep
  <2>1. PICK r \in Reserves :
          \/ \E kind \in Kinds[r], source_changed \in BOOLEAN : SetOracle(r, kind, source_changed)
          \/ RefreshOracle(r)
          \/ \E health \in {"Shut", "Bootstrapping", "Permits"}, price \in Rates[r] \cup {0} :
               RefreshMarketOracle(r, price, health)
          \/ ResetOracleBreaker(r)
    BY <1>3 DEF OracleStep
  <2>2. OracleBecomes(r)
    BY <2>1 DEF OracleBecomes, RefreshOracle
  <2>3. \E new : oracle' = [oracle EXCEPT ![r] = new]
    BY <2>1 DEF SetOracle, RefreshOracle, RefreshAccepts, RefreshRefuses, RefreshMarketOracle,
                ResetOracleBreaker
  <2>4. \A q \in Reserves : q # r => oracle'[q] = oracle[q]
    BY <1>1, <2>3
  <2>5. oracle' = [q \in Reserves |-> oracle'[q]]
    BY <1>1, <2>3
  <2> QED
    BY <2>2, <2>4, <2>5 DEF OracleBecomes
<1>4. CASE NextSlot
  BY <1>4 DEF NextSlot, OracleBecomes
<1>5. ASSUME \/ MigrateGlobalToV2
             \/ ObligationStep
             \/ \E r \in Reserves : SourceChanges(r)
             \/ UNCHANGED vars
      PROVE  oracle' = oracle
  BY <1>5, ObligationStepFrame DEF MigrateGlobalToV2, SourceChanges, vars
<1> QED
  BY <1>1, <1>2, <1>3, <1>4, <1>5, NextByPart DEF OracleBecomes

OracleKinds == {"none", "UnitOfAccount", "NativeExchangeRate", "MarketTwap"}

\* What it becomes is an oracle: created once and for all, and closed to everything
\* unless it has a reference.
LEMMA OracleStaysSound ==
  ASSUME TypeOK, OpenOnAReference, NEW r \in Reserves, OracleBecomes(r),
         oracle' = [q \in Reserves |-> oracle'[q]]
  PROVE  /\ oracle'[r] \in OracleType
         /\ Created(r) => oracle'[r].kind # "none"
         /\ oracle'[r].kind = "none" => oracle'[r].reference = 0
         /\ oracle'[r].kind # "MarketTwap" /\ oracle'[r].health # "Shut" =>
              oracle'[r].reference > 0
<1>1. /\ oracle[r] \in OracleType
      /\ oracle \in [Reserves -> OracleType]
      /\ source[r] \in Nat
      /\ Kinds[r] \subseteq {"UnitOfAccount", "NativeExchangeRate", "MarketTwap"}
      /\ Rates[r] \subseteq Nat
      /\ oracle[r].kind # "MarketTwap" /\ oracle[r].health # "Shut" => oracle[r].reference > 0
      /\ oracle[r].kind = "none" => oracle[r].reference = 0 /\ Reading(r, oracle[r].kind) = 0
  BY MigrationAssumption DEF TypeOK, OpenOnAReference, Created, Reading
<1>2. \A kind \in OracleKinds : Reading(r, kind) \in Nat
  BY <1>1, MigrationAssumption DEF Reading, OracleKinds
<1>3. CASE oracle'[r] = oracle[r]
  BY <1>1, <1>3 DEF Created
<1>4. CASE oracle'[r] = [oracle[r] EXCEPT !.fresh = FALSE]
  BY <1>1, <1>4 DEF Created, OracleType
<1>5. CASE \E kind \in Kinds[r] : MigrateReserveToV2(r, kind)
  <2>1. PICK kind \in Kinds[r] : MigrateReserveToV2(r, kind)
    BY <1>5
  <2>2. /\ oracle'[r] = [kind |-> kind, reference |-> Reading(r, kind), fresh |-> TRUE,
                         health |-> IF kind = "UnitOfAccount" THEN "Permits" ELSE "Bootstrapping"]
        /\ Reading(r, kind) > 0
    BY <1>1, <2>1 DEF MigrateReserveToV2, Bootstraps
  <2>3. Reading(r, kind) \in Nat
    BY <1>1, <1>2 DEF OracleKinds
  <2> QED
    BY <1>1, <2>2, <2>3 DEF OracleType, Created
<1>6. CASE \E kind \in Kinds[r], source_changed \in BOOLEAN : SetOracle(r, kind, source_changed)
  <2>1. PICK kind \in Kinds[r], source_changed \in BOOLEAN : SetOracle(r, kind, source_changed)
    BY <1>6
  <2>2. oracle'[r] = [kind |-> kind, health |-> "Shut", fresh |-> FALSE,
                      reference |-> IF source_changed \/ kind # oracle[r].kind
                                    THEN 0 ELSE oracle[r].reference]
    BY <1>1, <2>1 DEF SetOracle
  <2> QED
    BY <1>1, <2>2 DEF OracleType, Created
<1>7. CASE RefreshAccepts(r)
  <2>1. PICK health \in AcceptedHealth(r) :
          oracle'[r] = [oracle[r] EXCEPT !.reference = Reading(r, oracle[r].kind),
                                         !.health = health, !.fresh = TRUE]
    BY <1>1, <1>7 DEF RefreshAccepts
  <2>2. Reading(r, oracle[r].kind) > 0 /\ Reading(r, oracle[r].kind) \in Nat
    BY <1>1, <1>2, <1>7 DEF RefreshAccepts, OracleType, OracleKinds
  <2>3. health \in {"Bootstrapping", "Permits"}
    BY DEF AcceptedHealth
  <2> QED
    BY <1>1, <2>1, <2>2, <2>3 DEF OracleType, Created
<1>8. CASE RefreshRefuses(r)
  <2>1. oracle'[r] = [oracle[r] EXCEPT !.health = "Shut", !.fresh = TRUE]
    BY <1>1, <1>8 DEF RefreshRefuses
  <2> QED
    BY <1>1, <2>1 DEF OracleType, Created
<1>9. CASE \E health \in {"Shut", "Bootstrapping", "Permits"}, price \in Rates[r] \cup {0} :
             RefreshMarketOracle(r, price, health)
  <2>1. PICK health \in {"Shut", "Bootstrapping", "Permits"}, price \in Rates[r] \cup {0} :
          RefreshMarketOracle(r, price, health)
    BY <1>9
  <2>2. /\ oracle[r].kind = "MarketTwap"
        /\ oracle'[r] = [oracle[r] EXCEPT !.reference = price, !.health = health, !.fresh = TRUE]
    BY <1>1, <2>1 DEF RefreshMarketOracle
  <2>3. price \in Nat
    BY <1>1
  <2> QED
    BY <1>1, <2>2, <2>3 DEF OracleType, Created
<1>10. CASE ResetOracleBreaker(r)
  <2>1. /\ oracle'[r] = [oracle[r] EXCEPT !.reference = Reading(r, oracle[r].kind),
                                         !.health = "Permits", !.fresh = TRUE]
        /\ Reading(r, oracle[r].kind) > 0
    BY <1>1, <1>10 DEF ResetOracleBreaker
  <2>2. Reading(r, oracle[r].kind) \in Nat
    BY <1>1, <1>2 DEF OracleType, OracleKinds
  <2> QED
    BY <1>1, <2>1, <2>2 DEF OracleType, Created
<1> QED
  BY <1>3, <1>4, <1>5, <1>6, <1>7, <1>8, <1>9, <1>10 DEF OracleBecomes

\* The layouts, which only the two migrations touch.
LEMMA LayoutsTyped ==
  ASSUME TypeOK, OneSource, [Next]_vars
  PROVE  /\ global' \in {"V1", "V2"}
         /\ points_to' \in [Reserves -> {"price_feed", "oracle"}]
         /\ price_feed' \in [Reserves -> {"open", "closed"}]
         /\ source' \in [Reserves -> Nat]
         /\ \A r \in Reserves : points_to'[r] = "oracle" <=> price_feed'[r] = "closed"
         /\ \A r \in Reserves : points_to'[r] = "oracle" =>
              Migrated(r) \/ \E kind \in Kinds[r] : MigrateReserveToV2(r, kind)
<1> USE DEF TypeOK, market_vars, obligation_vars, Migrated, OneSource
<1>1. CASE \E r \in Reserves : \E kind \in Kinds[r] : MigrateReserveToV2(r, kind)
  BY <1>1 DEF MigrateReserveToV2, Bootstraps
<1>2. CASE MigrateGlobalToV2
  BY <1>2 DEF MigrateGlobalToV2
<1>3. CASE NextSlot
  BY <1>3 DEF NextSlot
<1>4. CASE \E r \in Reserves : SourceChanges(r)
  <2>1. PICK r \in Reserves : SourceChanges(r)
    BY <1>4
  <2>2. PICK reading \in Rates[r] \cup {0} : source' = [source EXCEPT ![r] = reading]
    BY <2>1 DEF SourceChanges
  <2>3. reading \in Nat
    BY MigrationAssumption
  <2> QED
    BY <2>1, <2>2, <2>3 DEF SourceChanges
<1>5. CASE UNCHANGED <<market_vars, source>>
  BY <1>5
<1> QED
  BY <1>1, <1>2, <1>3, <1>4, <1>5, NextByPart, OracleStepFrame, ObligationStepFrame DEF vars

\* The amounts stay amounts.
LEMMA AmountsTyped ==
  ASSUME TypeOK, [Next]_vars
  PROVE  /\ debt' \in Amounts /\ deposits' \in Amounts
         /\ cached' \in [Obligations -> {"stale", "stressed", "sound"}]
<1> USE MigrationAssumption DEF TypeOK, Amounts, obligation_vars
<1>1. CASE \E o \in Obligations : RefreshObligation(o)
  BY <1>1 DEF RefreshObligation
<1>2. CASE \E o \in Obligations, r \in Reserves : DepositCollateral(o, r)
  BY <1>2 DEF DepositCollateral
<1>3. CASE \E o \in Obligations, r \in Reserves : WithdrawCollateral(o, r)
  BY <1>3 DEF WithdrawCollateral
<1>4. CASE \E o \in Obligations, r \in Reserves : Borrow(o, r)
  BY <1>4 DEF Borrow
<1>5. CASE \E o \in Obligations, r \in Reserves : Repay(o, r)
  BY <1>5 DEF Repay
<1>6. CASE \E o \in Obligations, r, c \in Reserves : Liquidate(o, r, c)
  BY <1>6 DEF Liquidate
<1>7. CASE \E o \in Obligations, r \in Reserves : AbsorbBadDebt(o, r)
  BY <1>7 DEF AbsorbBadDebt
<1>8. CASE NextSlot
  BY <1>8 DEF NextSlot
<1>9. CASE UNCHANGED obligation_vars
  BY <1>9
<1>10. ASSUME \/ \E r \in Reserves : \E kind \in Kinds[r] : MigrateReserveToV2(r, kind)
              \/ MigrateGlobalToV2
              \/ OracleStep
              \/ \E r \in Reserves : SourceChanges(r)
              \/ UNCHANGED vars
       PROVE  UNCHANGED obligation_vars
  BY <1>10, OracleStepFrame DEF MigrateReserveToV2, Bootstraps, MigrateGlobalToV2, SourceChanges,
                                vars
<1> QED
  BY <1>1, <1>2, <1>3, <1>4, <1>5, <1>6, <1>7, <1>8, <1>9, <1>10, NextByPart DEF ObligationStep

-------------------------------------------------------------------------------
\* The invariant.

LEMMA InitKeeps == Init => MigrationInv
<1> SUFFICES ASSUME Init PROVE MigrationInv
  OBVIOUS
<1>1. (UNION {Rates[r] : r \in Reserves}) \cup {0} \subseteq Nat
  BY MigrationAssumption
<1>2. source \in [Reserves -> Nat]
  BY <1>1 DEF Init
<1>3. oracle = [r \in Reserves |-> NoAccount] /\ NoAccount \in OracleType
  BY DEF Init, NoAccount, OracleType
<1>4. TypeOK
  BY <1>2, <1>3 DEF Init, TypeOK
<1>5. OneSource /\ FoundOverMigrated /\ OpenOnAReference
  BY <1>3 DEF Init, OneSource, Migrated, FoundOverMigrated, OpenOnAReference, NoAccount, Created
<1> QED
  BY <1>4, <1>5 DEF MigrationInv

LEMMA StepKeeps == MigrationInv /\ [Next]_vars => MigrationInv'
<1> SUFFICES ASSUME MigrationInv, [Next]_vars PROVE MigrationInv'
  OBVIOUS
<1>1. TypeOK /\ OneSource /\ FoundOverMigrated /\ OpenOnAReference
  BY DEF MigrationInv
<1>2. oracle' = [r \in Reserves |-> oracle'[r]] /\ \A r \in Reserves : OracleBecomes(r)
  BY <1>1, StepOnOracles
<1>3. \A r \in Reserves :
        /\ oracle'[r] \in OracleType
        /\ Created(r) => oracle'[r].kind # "none"
        /\ oracle'[r].kind = "none" => oracle'[r].reference = 0
        /\ oracle'[r].kind # "MarketTwap" /\ oracle'[r].health # "Shut" =>
             oracle'[r].reference > 0
  BY <1>1, <1>2, OracleStaysSound
<1>4. TypeOK'
  <2>1. oracle' \in [Reserves -> OracleType]
    BY <1>2, <1>3
  <2> QED
    BY <1>1, <2>1, LayoutsTyped, AmountsTyped DEF TypeOK, Amounts
<1>5. OneSource'
  <2>1. SUFFICES ASSUME NEW r \in Reserves, points_to'[r] = "oracle"
                 PROVE  oracle'[r].kind # "none"
    BY <1>1, LayoutsTyped DEF OneSource, Migrated, Created
  <2>2. CASE Migrated(r)
    BY <1>1, <1>3, <2>2 DEF OneSource
  <2>3. CASE \E kind \in Kinds[r] : MigrateReserveToV2(r, kind)
    <3>1. PICK kind \in Kinds[r] : MigrateReserveToV2(r, kind)
      BY <2>3
    <3>2. oracle'[r].kind = kind
      BY <1>1, <3>1 DEF MigrateReserveToV2, Bootstraps, TypeOK
    <3> QED
      BY <3>2, MigrationAssumption
  <2> QED
    BY <1>1, <2>1, <2>2, <2>3, LayoutsTyped
<1>6. FoundOverMigrated'
  <2>1. SUFFICES ASSUME NEW o \in Obligations, cached'[o] # "stale", NEW e \in Entries(o)'
                 PROVE  points_to'[e] = "oracle"
    BY DEF FoundOverMigrated, Migrated
  <2>2. /\ debt'[o] = debt[o] /\ deposits'[o] = deposits[o]
        /\ cached[o] # "stale" \/ \A x \in Entries(o) : Migrated(x)
    BY <1>1, <2>1, StepFrame
  <2>3. e \in Entries(o)
    BY <2>2 DEF Entries
  <2>4. Migrated(e) /\ e \in Reserves
    BY <1>1, <2>2, <2>3 DEF FoundOverMigrated, Entries
  <2> QED
    BY <1>1, <2>4, StepFrame
<1>7. OpenOnAReference'
  BY <1>3 DEF OpenOnAReference, Created
<1> QED
  BY <1>4, <1>5, <1>6, <1>7 DEF MigrationInv

\* The inductive invariant of the migration.
THEOREM MigrationInvariant == Spec => []MigrationInv
<1> QED
  BY InitKeeps, StepKeeps, PTL DEF Spec

-------------------------------------------------------------------------------
\* What the run checks, for any number of reserves and obligations.

\* Every state is well formed, and no oracle but a market's is ever open, or
\* bootstrapping, without a reference.
THEOREM MigrationTyped == Spec => [](TypeOK /\ OpenOnAReference)
<1>1. MigrationInv => TypeOK /\ OpenOnAReference
  BY DEF MigrationInv
<1> QED
  BY <1>1, MigrationInvariant, PTL

\* A reserve is never of neither version, nor of both.
THEOREM AlwaysOneSource == Spec => []OneSource
<1>1. MigrationInv => OneSource
  BY DEF MigrationInv
<1> QED
  BY <1>1, MigrationInvariant, PTL

\* A borrow or a withdrawal finds both gates open: Global is stamped, and all that
\* the obligation holds or owes is in migrated reserves.
THEOREM RiskAlwaysNeedsBothGates == Spec => RiskNeedsBothGates
<1> DEFINE Gated(o, r) ==
      /\ global = "V2"
      /\ \A e \in Entries(o) \cup {r} : Migrated(e)
      /\ oracle[r].fresh /\ oracle[r].reference > 0
      /\ debt'[o][r] > debt[o][r] => PermitsNewRisk(r)
<1>1. ASSUME MigrationInv, [Next]_vars, NEW o \in Obligations, NEW r \in Reserves,
             debt'[o][r] > debt[o][r] \/ deposits'[o][r] < deposits[o][r]
      PROVE  Gated(o, r)
  <2>1. /\ debt[o][r] \in Nat /\ deposits[o][r] \in Nat
        /\ \A p \in Obligations, c \in Reserves :
             debt[p][c] \in Nat /\ deposits[p][c] \in Nat
        /\ debt \in Amounts /\ deposits \in Amounts
    BY <1>1, MigrationAssumption DEF MigrationInv, TypeOK, Amounts
  <2> USE DEF Amounts
  <2>2. CASE \E p \in Obligations, c \in Reserves : Borrow(p, c)
    <3>1. PICK p \in Obligations, c \in Reserves : Borrow(p, c)
      BY <2>2
    <3>2. p = o /\ c = r
      BY <1>1, <2>1, <3>1 DEF Borrow
    <3> QED
      BY <1>1, <3>1, <3>2 DEF Borrow, Readable, MigrationInv, FoundOverMigrated
  <2>3. CASE \E p \in Obligations, c \in Reserves : WithdrawCollateral(p, c)
    <3>1. PICK p \in Obligations, c \in Reserves : WithdrawCollateral(p, c)
      BY <2>3
    <3>2. p = o /\ c = r
      BY <1>1, <2>1, <3>1 DEF WithdrawCollateral
    <3>3. ~ (debt'[o][r] > debt[o][r])
      BY <2>1, <3>1 DEF WithdrawCollateral
    <3> QED
      BY <1>1, <3>1, <3>2, <3>3 DEF WithdrawCollateral, Readable, MigrationInv, FoundOverMigrated
  <2>4. CASE \E p \in Obligations, d, c \in Reserves : Liquidate(p, d, c)
    <3>1. PICK p \in Obligations, d \in Reserves, c \in Reserves : Liquidate(p, d, c)
      BY <2>4
    <3>2. ~ (debt'[o][r] > debt[o][r])
      BY <2>1, <3>1 DEF Liquidate
    <3>3. p = o /\ c = r
      BY <1>1, <2>1, <3>1, <3>2 DEF Liquidate
    <3> QED
      BY <1>1, <3>1, <3>2, <3>3 DEF Liquidate, Readable, MigrationInv, FoundOverMigrated
  <2>5. ASSUME \E p \in Obligations, c \in Reserves :
                  DepositCollateral(p, c) \/ Repay(p, c) \/ AbsorbBadDebt(p, c)
        PROVE  FALSE
    <3>1. PICK p \in Obligations, c \in Reserves :
            DepositCollateral(p, c) \/ Repay(p, c) \/ AbsorbBadDebt(p, c)
      BY <2>5
    <3>2. CASE DepositCollateral(p, c)
      BY <1>1, <2>1, <3>2 DEF DepositCollateral
    <3>3. CASE Repay(p, c)
      BY <1>1, <2>1, <3>3 DEF Repay
    <3>4. CASE AbsorbBadDebt(p, c)
      BY <1>1, <2>1, <3>4 DEF AbsorbBadDebt
    <3> QED
      BY <3>1, <3>2, <3>3, <3>4
  <2>6. ASSUME debt' = debt /\ deposits' = deposits
        PROVE  FALSE
    BY <1>1, <2>1, <2>6
  <2>7. ASSUME \/ \E c \in Reserves : \E kind \in Kinds[c] : MigrateReserveToV2(c, kind)
               \/ MigrateGlobalToV2 \/ NextSlot
               \/ OracleStep
               \/ \E c \in Reserves : SourceChanges(c)
               \/ \E p \in Obligations : RefreshObligation(p)
               \/ UNCHANGED vars
        PROVE  debt' = debt /\ deposits' = deposits
    BY <2>7, OracleStepFrame DEF MigrateReserveToV2, Bootstraps, MigrateGlobalToV2, NextSlot,
                                 SourceChanges, RefreshObligation, obligation_vars, vars
  <2> QED
    BY <1>1, <2>2, <2>3, <2>4, <2>5, <2>6, <2>7, NextByPart DEF ObligationStep
<1>2. MigrationInv /\ [Next]_vars =>
        [\A o \in Obligations, r \in Reserves :
           debt'[o][r] > debt[o][r] \/ deposits'[o][r] < deposits[o][r] => Gated(o, r)]_vars
  BY <1>1
<1> QED
  BY <1>2, MigrationInvariant, PTL DEF Spec, RiskNeedsBothGates

\* A live oracle is re-anchored by a reset and by nothing else: any other step takes its
\* reference no further than the breaker lets it, or drops it and shuts the oracle.
THEOREM LiveNeverReanchored == Spec => NeverReanchored
<1> DEFINE Held(r) ==
      \/ ResetOracleBreaker(r)
      \/ oracle'[r].reference = 0 /\ oracle'[r].health = "Shut"
      \/ /\ oracle'[r].kind = oracle[r].kind
         /\ Near(oracle[r].reference, oracle'[r].reference)
         /\ oracle'[r].health = "Bootstrapping" => oracle[r].health = "Bootstrapping"
         /\ oracle[r].health = "Shut" /\ PermitsNewRisk(r)' =>
              oracle'[r].reference = Reading(r, oracle[r].kind)
<1>1. ASSUME MigrationInv, [Next]_vars, NEW r \in Reserves, Anchored(r)
      PROVE  Held(r)
  <2>1. /\ oracle \in [Reserves -> OracleType] /\ oracle[r] \in OracleType
        /\ oracle[r].reference \in Nat /\ OneSource /\ TypeOK
    BY <1>1 DEF MigrationInv, TypeOK, OracleType
  <2>2. OracleBecomes(r)
    BY <1>1, <2>1, StepOnOracles
  <2>3. Near(oracle[r].reference, oracle[r].reference)
    BY <2>1, MigrationAssumption DEF Near
  <2>4. CASE oracle'[r] = oracle[r] \/ oracle'[r] = [oracle[r] EXCEPT !.fresh = FALSE]
    <3>1. /\ oracle'[r].kind = oracle[r].kind /\ oracle'[r].reference = oracle[r].reference
          /\ oracle'[r].health = oracle[r].health
      BY <2>1, <2>4 DEF OracleType
    <3> QED
      BY <2>3, <3>1 DEF PermitsNewRisk
  <2>5. ASSUME NEW kind \in Kinds[r], MigrateReserveToV2(r, kind)
        PROVE  FALSE
    <3>1. oracle[r].kind = "none"
      BY <2>5 DEF MigrateReserveToV2, Unmigrated, Created
    <3> QED
      BY <1>1, <3>1 DEF MigrationInv, OpenOnAReference, Anchored, Created
  <2>6. ASSUME NEW kind \in Kinds[r], NEW source_changed \in BOOLEAN,
               SetOracle(r, kind, source_changed)
        PROVE  Held(r)
    <3>1. oracle'[r] = [kind |-> kind, health |-> "Shut", fresh |-> FALSE,
                        reference |-> IF source_changed \/ kind # oracle[r].kind
                                      THEN 0 ELSE oracle[r].reference]
      BY <2>1, <2>6 DEF SetOracle
    <3>2. oracle'[r].health = "Shut"
      BY <3>1
    <3>3. CASE source_changed \/ kind # oracle[r].kind
      BY <3>1, <3>2, <3>3
    <3>4. CASE ~ (source_changed \/ kind # oracle[r].kind)
      BY <2>3, <3>1, <3>2, <3>4 DEF PermitsNewRisk
    <3> QED
      BY <3>3, <3>4
  <2>7. CASE RefreshAccepts(r)
    <3>1. PICK health \in AcceptedHealth(r) :
            oracle'[r] = [oracle[r] EXCEPT !.reference = Reading(r, oracle[r].kind),
                                           !.health = health, !.fresh = TRUE]
      BY <2>1, <2>7 DEF RefreshAccepts
    <3>2. /\ oracle'[r].kind = oracle[r].kind /\ oracle'[r].health = health
          /\ oracle'[r].reference = Reading(r, oracle[r].kind)
      BY <2>1, <3>1 DEF OracleType
    <3>3. Near(oracle[r].reference, Reading(r, oracle[r].kind))
      BY <1>1, <2>7 DEF RefreshAccepts, Anchored
    <3>4. health = "Bootstrapping" => oracle[r].health = "Bootstrapping"
      BY <1>1, <2>1 DEF AcceptedHealth, Anchored
    <3> QED
      BY <3>2, <3>3, <3>4
  <2>8. CASE RefreshRefuses(r)
    <3>1. oracle'[r] = [oracle[r] EXCEPT !.health = "Shut", !.fresh = TRUE]
      BY <2>1, <2>8 DEF RefreshRefuses
    <3>2. /\ oracle'[r].kind = oracle[r].kind /\ oracle'[r].reference = oracle[r].reference
          /\ oracle'[r].health = "Shut"
      BY <2>1, <3>1 DEF OracleType
    <3> QED
      BY <2>3, <3>2 DEF PermitsNewRisk
  <2>9. ASSUME NEW health, NEW price, RefreshMarketOracle(r, price, health)
        PROVE  FALSE
    BY <1>1, <2>9 DEF RefreshMarketOracle, Anchored
  <2> QED
    BY <2>2, <2>4, <2>5, <2>6, <2>7, <2>8, <2>9 DEF OracleBecomes
<1>2. MigrationInv /\ [Next]_vars =>
        [\A r \in Reserves :
           /\ Migrated(r) => points_to'[r] = "oracle"
           /\ Anchored(r) => Held(r)]_vars
  BY <1>1, StepFrame DEF MigrationInv
<1> QED
  BY <1>2, MigrationInvariant, PTL DEF Spec, NeverReanchored

-------------------------------------------------------------------------------
\* What of Completes needs no fairness.

\* migrate_global_to_v2 is not undone either: nothing writes a v0.1 Global.
LEMMA StampStays ==
  ASSUME global = "V2", [Next]_vars
  PROVE  global' = "V2"
<1> USE DEF market_vars, obligation_vars
<1>1. CASE MigrateGlobalToV2
  BY <1>1 DEF MigrateGlobalToV2
<1>2. ASSUME \/ \E r \in Reserves : \E kind \in Kinds[r] : MigrateReserveToV2(r, kind)
             \/ OracleStep
             \/ ObligationStep
             \/ NextSlot
             \/ \E r \in Reserves : SourceChanges(r)
             \/ UNCHANGED vars
      PROVE  UNCHANGED global
  BY <1>2, OracleStepFrame, ObligationStepFrame
     DEF MigrateReserveToV2, Bootstraps, NextSlot, SourceChanges, vars
<1> QED
  BY <1>1, <1>2, NextByPart

\* Once nothing is left to migrate, nothing ever is: whatever instructions, resets and
\* failing sources follow, no reserve and no Global returns to the old layout, so the
\* migration of Completes has only to be reached.
THEOREM MigrationIsFinal == Spec => [](FullyMigrated => []FullyMigrated)
<1>1. MigrationInv /\ FullyMigrated /\ [Next]_vars => FullyMigrated'
  <2>1. SUFFICES ASSUME TypeOK, FullyMigrated, [Next]_vars PROVE FullyMigrated'
    BY DEF MigrationInv
  <2>2. global' = "V2"
    BY <2>1, StampStays DEF FullyMigrated
  <2>3. \A r \in Reserves : points_to'[r] = "oracle"
    BY <2>1, StepFrame DEF FullyMigrated
  <2> QED
    BY <2>2, <2>3 DEF FullyMigrated, Migrated
<1> QED
  BY <1>1, MigrationInvariant, PTL DEF Spec
===============================================================================

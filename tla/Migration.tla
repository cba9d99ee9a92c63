------------------------------- MODULE Migration -------------------------------
(***************************************************************************)
(* The market between v0.1 and v0.2: instructions/admin/migrate.rs, with   *)
(* the instructions whose accounts tell the two layouts apart.             *)
(*                                                                         *)
(* The accounts are the old ones, the program is the new one, and the      *)
(* operator may stop after any instruction and come back later, or not.    *)
(* Nothing records how far he got: an instruction fails when one of its    *)
(* accounts is not of the type it names, and that is all.                  *)
(*                                                                         *)
(* Of an oracle is kept what a second migration of its reserve could wipe: *)
(* the reference it judges readings by, and whether it permits new risk.   *)
(* Of NativeOracle's breaker only the absolute bound is kept: a reading    *)
(* beyond it is never accepted, one within it may be.  A market price is   *)
(* another module's and may become anything.  Amounts are small numbers    *)
(* without prices: whether an amount is within its limit is AeraLending's, *)
(* and free here.  Left out: pauses, which cannot be set in a Global that  *)
(* cannot be read; accrue, which asks for neither account; supply,         *)
(* withdraw and the admin's other instructions, which ask for Global and   *)
(* touch nothing kept here.                                                *)
(***************************************************************************)
EXTENDS Integers

CONSTANTS
  Reserves,
  Obligations,
  Kinds,              \* per reserve, the kinds of oracle the admin may configure
  Rates,              \* per reserve, what its stake pool may report: none without a pool
  FIXED_POINT_SCALE,  \* the rate of the unit of account
  EmergencyDeviation, \* how far a reading is from a reference that must refuse it
  MaxAmount           \* bound on a debt or a deposit

VARIABLES
  global,      \* the layout of Global, which is its length
  points_to,   \* Reserve.oracle: the PDA of the feed, or of the oracle
  price_feed,  \* the account of the guardian feed
  oracle,      \* the account of the oracle, NoAccount until it is created
  source,      \* what the stake pool of the asset reports, 0 when it cannot be read
  debt,
  deposits,    \* per obligation and reserve
  cached       \* what refresh_obligation found in this slot, if anything

market_vars     == <<global, points_to, price_feed>>
obligation_vars == <<debt, deposits, cached>>

vars == <<market_vars, oracle, source, obligation_vars>>

ASSUME MigrationAssumption ==
  /\ Kinds \in [Reserves -> SUBSET {"UnitOfAccount", "NativeExchangeRate", "MarketTwap"}]
  /\ Rates \in [Reserves -> SUBSET (Nat \ {0})]
  /\ FIXED_POINT_SCALE \in Nat \ {0}
  /\ EmergencyDeviation \in Nat \ {0}
  /\ MaxAmount \in Nat

\* A reference of 0 stands for none.  Permits: RATE_WARNING or HEALTHY; Shut:
\* BORROW_FROZEN or EMERGENCY.
OracleType ==
  [kind : {"none", "UnitOfAccount", "NativeExchangeRate", "MarketTwap"}, reference : Nat,
   health : {"Shut", "Bootstrapping", "Permits"}, fresh : BOOLEAN]

NoAccount == [kind |-> "none", reference |-> 0, health |-> "Shut", fresh |-> FALSE]

Created(r) == oracle[r].kind # "none"

Amounts == [Obligations -> [Reserves -> 0..MaxAmount]]

TypeOK ==
  /\ global \in {"V1", "V2"}
  /\ points_to \in [Reserves -> {"price_feed", "oracle"}]
  /\ price_feed \in [Reserves -> {"open", "closed"}]
  /\ oracle \in [Reserves -> OracleType]
  /\ source \in [Reserves -> Nat]
  /\ debt \in Amounts
  /\ deposits \in Amounts
  /\ cached \in [Obligations -> {"stale", "stressed", "sound"}]

Migrated(r) == points_to[r] = "oracle"

FullyMigrated == global = "V2" /\ \A r \in Reserves : Migrated(r)

\* Every reserve the obligation has an entry for.
Entries(o) == {r \in Reserves : debt[o][r] > 0 \/ deposits[o][r] > 0}

\* The reserve's own account is a typed oracle that can be read in this slot: a
\* feed is not one.
Readable(r) ==
  /\ Migrated(r)
  /\ Created(r)
  /\ oracle[r].fresh
  /\ oracle[r].reference > 0

PermitsNewRisk(r) == oracle[r].health = "Permits"

\* What refresh_oracle, reset_oracle_breaker and the migration read: a market price
\* is none of theirs.
Reading(r, kind) ==
  CASE kind = "UnitOfAccount" -> FIXED_POINT_SCALE
    [] kind = "NativeExchangeRate" -> source[r]
    [] OTHER -> 0

\* A reading the breaker can accept against a reference.
Near(reference, reading) ==
  /\ reading < reference + EmergencyDeviation
  /\ reference < reading + EmergencyDeviation

-------------------------------------------------------------------------------
\* migrate.rs

Unmigrated(r) ==
  /\ points_to[r] = "price_feed"
  /\ price_feed[r] = "open"
  /\ ~ Created(r)

\* The first reading leaves an oracle that has to wait for a later epoch, unless it
\* reads no program.
Bootstraps(r, kind) ==
  /\ Reading(r, kind) > 0
  /\ oracle' = [oracle EXCEPT ![r] =
       [kind |-> kind, reference |-> Reading(r, kind), fresh |-> TRUE,
        health |-> IF kind = "UnitOfAccount" THEN "Permits" ELSE "Bootstrapping"]]
  /\ points_to' = [points_to EXCEPT ![r] = "oracle"]
  /\ UNCHANGED <<global, source, obligation_vars>>

\* A faulty variant of MigrateReserveToV2: the guardian feed is left behind.
MigrateReserveKeepingFeed(r, kind) ==
  /\ Unmigrated(r)
  /\ Bootstraps(r, kind)
  /\ UNCHANGED price_feed

\* A faulty variant of MigrateReserveToV2: a reserve that has been migrated is
\* migrated again.
MigrateReserveAgain(r, kind) ==
  /\ Migrated(r) \/ Unmigrated(r)
  /\ Bootstraps(r, kind)
  /\ price_feed' = [price_feed EXCEPT ![r] = "closed"]

\* A faulty variant of MigrateReserveToV2: it reads a Global of the old layout only.
MigrateReserveBeforeGlobal(r, kind) ==
  /\ global = "V1"
  /\ Unmigrated(r)
  /\ Bootstraps(r, kind)
  /\ price_feed' = [price_feed EXCEPT ![r] = "closed"]

\* migrate_reserve_to_v2, with Global in either layout.  The oracle's account must
\* not exist yet (init), and a source that cannot be read, or whose first reading its
\* own last epoch contradicts, fails the instruction.  Nothing of the reserve changes
\* but Reserve.oracle.
MigrateReserveToV2(r, kind) ==
  /\ Unmigrated(r)
  /\ Bootstraps(r, kind)
  /\ price_feed' = [price_feed EXCEPT ![r] = "closed"]

\* migrate_global_to_v2: it cannot tell whether the reserves have been migrated.
MigrateGlobalToV2 ==
  /\ global = "V1"
  /\ global' = "V2"
  /\ UNCHANGED <<points_to, price_feed, oracle, source, obligation_vars>>

-------------------------------------------------------------------------------
\* The oracles.

\* set_oracle creates the account when there is none (init_if_needed), whatever the
\* reserve points at.  A reference survives only a configuration of the same source.
SetOracle(r, kind, source_changed) ==
  /\ global = "V2"
  /\ oracle' = [oracle EXCEPT ![r] =
       [kind |-> kind, health |-> "Shut", fresh |-> FALSE,
        reference |-> IF source_changed \/ kind # @.kind THEN 0 ELSE @.reference]]
  /\ UNCHANGED <<market_vars, source, obligation_vars>>

\* Whether an accepted reading opens the oracle: the first one does not, and of those
\* after it the first of a later epoch.
AcceptedHealth(r) ==
  IF oracle[r].kind = "UnitOfAccount" THEN {"Permits"}
  ELSE IF oracle[r].reference = 0 THEN {"Bootstrapping"}
  ELSE IF oracle[r].health = "Bootstrapping" THEN {"Bootstrapping", "Permits"}
  ELSE {"Permits"}

\* refresh_oracle accepts what it reads.
RefreshAccepts(r) ==
  LET reading == Reading(r, oracle[r].kind) IN
  /\ reading > 0
  /\ oracle[r].reference > 0 => Near(oracle[r].reference, reading)
  /\ \E health \in AcceptedHealth(r) :
       oracle' = [oracle EXCEPT ![r] =
         [@ EXCEPT !.reference = reading, !.health = health, !.fresh = TRUE]]

\* refresh_oracle refuses what it reads, or cannot read it, and the freeze stays.
RefreshRefuses(r) ==
  /\ oracle[r].kind = "NativeExchangeRate"
  /\ oracle' = [oracle EXCEPT ![r] = [@ EXCEPT !.health = "Shut", !.fresh = TRUE]]

\* refresh_oracle: permissionless.
RefreshOracle(r) ==
  /\ RefreshAccepts(r) \/ RefreshRefuses(r)
  /\ UNCHANGED <<market_vars, source, obligation_vars>>

\* refresh_market_oracle: any price it may find, and any health.
RefreshMarketOracle(r, price, health) ==
  /\ oracle[r].kind = "MarketTwap"
  /\ oracle' = [oracle EXCEPT ![r] =
       [@ EXCEPT !.reference = price, !.health = health, !.fresh = TRUE]]
  /\ UNCHANGED <<market_vars, source, obligation_vars>>

\* reset_oracle_breaker: re-anchors to what the source says now, which must be
\* something.
ResetOracleBreaker(r) ==
  LET reading == Reading(r, oracle[r].kind) IN
  /\ global = "V2"
  /\ reading > 0
  /\ oracle' = [oracle EXCEPT ![r] =
       [@ EXCEPT !.reference = reading, !.health = "Permits", !.fresh = TRUE]]
  /\ UNCHANGED <<market_vars, source, obligation_vars>>

-------------------------------------------------------------------------------
\* The obligations.

\* A faulty variant of RefreshObligation: it derives the oracle's address from the
\* mint instead of reading the reserve's.
RefreshObligationByMint(o) ==
  /\ \A r \in Entries(o) : Created(r) /\ oracle[r].fresh /\ oracle[r].reference > 0
  /\ cached' = [cached EXCEPT ![o] =
       IF \E r \in Entries(o) : ~ PermitsNewRisk(r) THEN "stressed" ELSE "sound"]
  /\ UNCHANGED <<market_vars, oracle, source, debt, deposits>>

\* refresh_obligation
RefreshObligation(o) ==
  /\ \A r \in Entries(o) : Readable(r)
  /\ cached' = [cached EXCEPT ![o] =
       IF \E r \in Entries(o) : ~ PermitsNewRisk(r) THEN "stressed" ELSE "sound"]
  /\ UNCHANGED <<market_vars, oracle, source, debt, deposits>>

\* deposit_collateral
DepositCollateral(o, r) ==
  /\ global = "V2"
  /\ deposits[o][r] < MaxAmount
  /\ deposits' = [deposits EXCEPT ![o][r] = @ + 1]
  /\ cached' = [cached EXCEPT ![o] = "stale"]
  /\ UNCHANGED <<market_vars, oracle, source, debt>>

\* withdraw_collateral, within the limit: a stressed oracle of another asset does
\* not stop it.
WithdrawCollateral(o, r) ==
  /\ global = "V2"
  /\ cached[o] # "stale"
  /\ Readable(r) /\ PermitsNewRisk(r)
  /\ deposits[o][r] > 0
  /\ deposits' = [deposits EXCEPT ![o][r] = @ - 1]
  /\ cached' = [cached EXCEPT ![o] = "stale"]
  /\ UNCHANGED <<market_vars, oracle, source, debt>>

\* borrow, within the limit
Borrow(o, r) ==
  /\ global = "V2"
  /\ cached[o] = "sound"
  /\ Readable(r) /\ PermitsNewRisk(r)
  /\ \E c \in Reserves : deposits[o][c] > 0
  /\ debt[o][r] < MaxAmount
  /\ debt' = [debt EXCEPT ![o][r] = @ + 1]
  /\ cached' = [cached EXCEPT ![o] = "stale"]
  /\ UNCHANGED <<market_vars, oracle, source, deposits>>

\* repay asks for neither account.
Repay(o, r) ==
  /\ debt[o][r] > 0
  /\ debt' = [debt EXCEPT ![o][r] = @ - 1]
  /\ cached' = [cached EXCEPT ![o] = "stale"]
  /\ UNCHANGED <<market_vars, oracle, source, deposits>>

\* liquidate, the obligation being liquidatable
Liquidate(o, repay_reserve, collateral_reserve) ==
  /\ global = "V2"
  /\ cached[o] # "stale"
  /\ Readable(repay_reserve)
  /\ Readable(collateral_reserve)
  /\ debt[o][repay_reserve] > 0
  /\ deposits[o][collateral_reserve] > 0
  /\ debt' = [debt EXCEPT ![o][repay_reserve] = @ - 1]
  /\ deposits' = [deposits EXCEPT ![o][collateral_reserve] = @ - 1]
  /\ cached' = [cached EXCEPT ![o] = "stale"]
  /\ UNCHANGED <<market_vars, oracle, source>>

\* absorb_bad_debt: it asks for no oracle, but for a refreshed obligation.
AbsorbBadDebt(o, r) ==
  /\ cached[o] # "stale"
  /\ \A c \in Reserves : deposits[o][c] = 0
  /\ debt[o][r] > 0
  /\ debt' = [debt EXCEPT ![o][r] = 0]
  /\ cached' = [cached EXCEPT ![o] = "stale"]
  /\ UNCHANGED <<market_vars, oracle, source, deposits>>

-------------------------------------------------------------------------------
\* A later slot: nothing is refreshed any more.
NextSlot ==
  /\ oracle' = [r \in Reserves |-> [oracle[r] EXCEPT !.fresh = FALSE]]
  /\ cached' = [o \in Obligations |-> "stale"]
  /\ UNCHANGED <<market_vars, source, debt, deposits>>

\* A stake pool reports another rate, stops being readable, or recovers.
SourceChanges(r) ==
  /\ \E reading \in Rates[r] \cup {0} : source' = [source EXCEPT ![r] = reading]
  /\ UNCHANGED <<market_vars, oracle, obligation_vars>>

\* The new program has just been deployed over accounts of the old layout, among
\* them deposits and debts backed by them.
Init ==
  /\ global = "V1"
  /\ points_to = [r \in Reserves |-> "price_feed"]
  /\ price_feed = [r \in Reserves |-> "open"]
  /\ oracle = [r \in Reserves |-> NoAccount]
  /\ source \in {reports \in [Reserves -> (UNION {Rates[r] : r \in Reserves}) \cup {0}] :
                   \A r \in Reserves : reports[r] \in Rates[r] \cup {0}}
  /\ debt \in Amounts
  /\ deposits \in Amounts
  /\ \A o \in Obligations :
       (\E r \in Reserves : debt[o][r] > 0) => (\E r \in Reserves : deposits[o][r] > 0)
  /\ cached = [o \in Obligations |-> "stale"]

Next ==
  \/ \E r \in Reserves : \E kind \in Kinds[r] : MigrateReserveToV2(r, kind)
  \/ MigrateGlobalToV2
  \/ \E r \in Reserves, source_changed \in BOOLEAN :
       \E kind \in Kinds[r] : SetOracle(r, kind, source_changed)
  \/ \E r \in Reserves : RefreshOracle(r)
  \/ \E r \in Reserves, health \in {"Shut", "Bootstrapping", "Permits"} :
       \E price \in Rates[r] \cup {0} : RefreshMarketOracle(r, price, health)
  \/ \E r \in Reserves : ResetOracleBreaker(r)
  \/ \E o \in Obligations : RefreshObligation(o)
  \/ \E o \in Obligations, r \in Reserves : DepositCollateral(o, r)
  \/ \E o \in Obligations, r \in Reserves : WithdrawCollateral(o, r)
  \/ \E o \in Obligations, r \in Reserves : Borrow(o, r)
  \/ \E o \in Obligations, r \in Reserves : Repay(o, r)
  \/ \E o \in Obligations, r, c \in Reserves : Liquidate(o, r, c)
  \/ \E o \in Obligations, r \in Reserves : AbsorbBadDebt(o, r)
  \/ NextSlot
  \/ \E r \in Reserves : SourceChanges(r)

Spec == Init /\ [][Next]_vars
===============================================================================

-------------------------- MODULE MigrationProperties --------------------------
(***************************************************************************)
(* What a market must keep while it is neither v0.1 nor v0.2, and that it  *)
(* does not stay there.                                                    *)
(***************************************************************************)
EXTENDS Migration

\* A reserve is of one version, never of neither nor both: it points at a guardian
\* feed that is still there, or at an oracle that exists, the feed being gone
\* (migrate.rs, per reserve it is atomic).
OneSource ==
  \A r \in Reserves :
    /\ Migrated(r) => Created(r)
    /\ Migrated(r) <=> price_feed[r] = "closed"

\* An obligation's debt grows or its collateral falls only in a v0.2 market as far as
\* the obligation can see: Global is stamped and every reserve it has an entry in has
\* been migrated, whatever was refreshed, configured or migrated before, and in
\* whatever order.  Debt grows only while the oracle of what is borrowed permits it.
RiskNeedsBothGates ==
  [][\A o \in Obligations, r \in Reserves :
       debt'[o][r] > debt[o][r] \/ deposits'[o][r] < deposits[o][r] =>
         /\ global = "V2"
         /\ \A e \in Entries(o) \cup {r} : Migrated(e)
         /\ oracle[r].fresh /\ oracle[r].reference > 0
         /\ debt'[o][r] > debt[o][r] => PermitsNewRisk(r)]_vars

\* An oracle that judges readings by a reference of its own.
Anchored(r) == oracle[r].kind # "MarketTwap" /\ oracle[r].reference > 0

\* Migrating is not undone, and never re-anchors a live oracle, whatever is migrated
\* again, configured or refreshed in whatever order: unless the admin resets the
\* breaker, or shuts the oracle and drops its reference, the reference goes no further
\* in one step than the breaker lets it, a freeze is lifted by such a reading only, and
\* an oracle that is not bootstrapping does not begin again ("cannot silently
\* re-bootstrap a reference and wipe a breaker freeze an operator is relying on",
\* migrate.rs).
NeverReanchored ==
  [][\A r \in Reserves :
       /\ Migrated(r) => points_to'[r] = "oracle"
       /\ Anchored(r) =>
            \/ ResetOracleBreaker(r)
            \/ oracle'[r].reference = 0 /\ oracle'[r].health = "Shut"
            \/ /\ oracle'[r].kind = oracle[r].kind
               /\ Near(oracle[r].reference, oracle'[r].reference)
               /\ oracle'[r].health = "Bootstrapping" => oracle[r].health = "Bootstrapping"
               /\ oracle[r].health = "Shut" /\ PermitsNewRisk(r)' =>
                    oracle'[r].reference = Reading(r, oracle[r].kind)]_vars

\* The claim: "No action that increases anyone's risk may succeed" in any partly
\* migrated market (migrate.rs).
NoNewRiskHalfMigrated ==
  [][\A o \in Obligations, r \in Reserves :
       debt'[o][r] > debt[o][r] => FullyMigrated]_vars

-------------------------------------------------------------------------------
\* The operator comes back, in any order and after any interruption, until there is
\* nothing left to migrate.  A source that has failed is readable again and again,
\* not for long: hence the strong fairness of a migration that reads it.
Fairness ==
  /\ \A r \in Reserves : SF_vars(\E kind \in Kinds[r] : MigrateReserveToV2(r, kind))
  /\ \A r \in Reserves : WF_vars(source[r] = 0 /\ SourceChanges(r))
  /\ WF_vars(MigrateGlobalToV2)

FairSpec == Spec /\ Fairness

\* The order of the instructions does not matter, except that nobody creates the
\* oracle of a reserve that has not been migrated: set_oracle would, and
\* migrate_reserve_to_v2 then fails for ever.
OraclesNotAheadOfReserves == \A r \in Reserves : Created(r) => Migrated(r)

\* Whatever happens in between, the migration ends, and is not undone.
Completes == []OraclesNotAheadOfReserves => <>[]FullyMigrated
===============================================================================

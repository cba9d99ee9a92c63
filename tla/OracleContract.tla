---------------------------- MODULE OracleContract ----------------------------
(***************************************************************************)
(* What the lending instructions rely on of any oracle, whatever it reads: *)
(* the three fields of OracleState they look at (oracle.rs: effective_rate,*)
(* require_permits, require_fresh), and the only ways they may change.     *)
(*   - A refresh stamps the current slot, and never takes a rate away.     *)
(*   - An admin's reconfiguration closes the oracle to new risk and leaves *)
(*     it unstamped, so it must be refreshed before anything reads it.     *)
(*   - New risk is permitted only against a rate.                          *)
(***************************************************************************)
EXTENDS Integers

VARIABLES
  slot,
  rate,                \* effective_rate of the reference; 0 is unset
  health,
  last_refresh_slot    \* 0 is never: the clock starts after it

contract_vars == <<slot, rate, health, last_refresh_slot>>

\* OracleHealth, and what permits() says of Borrow and WithdrawCollateral.
OracleHealth == {"Healthy", "RateWarning", "BorrowFrozen", "Emergency", "Bootstrapping"}

PermitsNewRisk(h) == h \in {"Healthy", "RateWarning"}

Init ==
  /\ slot = 1
  /\ rate = 0
  /\ health = "BorrowFrozen"
  /\ last_refresh_slot = 0

Tick ==
  /\ slot' = slot + 1
  /\ UNCHANGED <<rate, health, last_refresh_slot>>

Refresh ==
  /\ last_refresh_slot' = slot
  /\ rate' \in Nat
  /\ rate > 0 => rate' > 0
  /\ health' \in OracleHealth
  /\ PermitsNewRisk(health') => rate' > 0
  /\ slot' = slot

Reconfigure ==
  /\ last_refresh_slot' = 0
  /\ rate' \in {rate, 0}
  /\ health' = "BorrowFrozen"
  /\ slot' = slot

Next == Tick \/ Refresh \/ Reconfigure

Spec == Init /\ [][Next]_contract_vars
===============================================================================

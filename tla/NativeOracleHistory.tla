------------------------- MODULE NativeOracleHistory --------------------------
(***************************************************************************)
(* NativeOracle with a memory, for the claims of the documents that speak  *)
(* of how a rate came to be trusted.  history is no field of the program:  *)
(*   anchor_epoch  the source epoch of the reading that set the reference  *)
(*                 when there was none, or that the admin reset to         *)
(*   vouched       the admin has reset since the reference was set         *)
(***************************************************************************)
EXTENDS NativeOracleProperties

VARIABLE history

HistoryInit == history = [anchor_epoch |-> 0, vouched |-> FALSE]

\* A step of the program, remembered; reset says that it is the admin's reset.
Remember(reset) ==
  LET anew == reset \/ ~ IsSet(reference)
  IN history' =
       [anchor_epoch |-> IF anew THEN reference'.source_epoch ELSE history.anchor_epoch,
        vouched |-> reset \/ (IsSet(reference) /\ history.vouched)]

HistoryNext ==
  \/ ResetOracleBreaker /\ Remember(TRUE)
  \/ NextButReset /\ Remember(FALSE)

HistorySpec == Init /\ HistoryInit /\ [][HistoryNext]_<<vars, history>>

-------------------------------------------------------------------------------
\* What the repository says of the program and the code does not keep.

\* "A new oracle ... does not let anyone open new risk against it until a second,
\* independent epoch agrees" (breaker.rs): new risk needs a reading from a later
\* source epoch than the one that anchored the reference, or an admin's reset.
NewRiskIsConfirmed ==
  PermitsNewRisk /\ config.kind = "NativeExchangeRate" =>
    history.vouched \/ reference.source_epoch > history.anchor_epoch
===============================================================================

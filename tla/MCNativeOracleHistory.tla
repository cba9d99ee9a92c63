------------------------- MODULE MCNativeOracleHistory ------------------------
(***************************************************************************)
(* The oracle of MCNativeOracle, remembered.                               *)
(***************************************************************************)
EXTENDS MCNativeOracle, NativeOracleHistory
===============================================================================

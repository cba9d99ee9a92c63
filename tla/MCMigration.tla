------------------------------ MODULE MCMigration ------------------------------
(***************************************************************************)
(* COOK, the unit of account, and bCOOK, which a stake pool prices and     *)
(* which may be moved to a market price later.  Two of the pool's rates    *)
(* are within the emergency bound of each other, the third is not of the   *)
(* first.                                                                  *)
(***************************************************************************)
EXTENDS MigrationProperties

CONSTANTS cook, bcook

MCKinds == [r \in Reserves |->
  IF r = cook THEN {"UnitOfAccount"} ELSE {"NativeExchangeRate", "MarketTwap"}]

MCRates == [r \in Reserves |-> IF r = cook THEN {} ELSE {1, 2, 3}]
===============================================================================

--------------------------- MODULE MCOperationLedger ---------------------------
(* Two operations, two accounts, two requests, two provider ids and a retry  *)
(* budget of one, under the most general client of the ledger.               *)
EXTENDS OperationLedger
================================================================================

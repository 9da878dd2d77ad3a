---------------------------- MODULE MCIngestTask -----------------------------
(* A drop directory for IngestTask. *)
EXTENDS IngestTask, TLC

(* ALI_<date>.csv, BDO_<date>.csv: names with a symbol and a date in them,  *)
(* each the only one of its key.                                            *)
CONSTANTS ali, bdo
DatedOrder == <<ali, bdo>>
DatedSymbols == ali :> "ALI" @@ bdo :> "BDO"
DatedDates == ali :> 1 @@ bdo :> 1

=============================================================================

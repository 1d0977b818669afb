----------------------------- MODULE MCSendPipeline -----------------------------
(* Small instances of the pipeline: weeks of two days, every account's send   *)
(* day the last of the week, one operation per slot and one to spare.         *)
EXTENDS SendPipelineRefinement

MCSlots == Profiles \X Weeks
MCLastDay == [p \in Profiles |-> DaysPerWeek - 1]
================================================================================

------------------------- MODULE SendPipelineRefinement -------------------------
(* The sending side keeps the promise of the weekly schedule: the fate of a   *)
(* slot is read off the ledger rows created for it, and the calls are the     *)
(* calls made for any of them.                                                *)
EXTENDS SendPipeline, FiniteSetsExt

FateOf(s) ==
    LET has(st) == \E o \in OpsOf(s) : ops[o].status = st
    IN CASE has("accepted")  -> "delivered"
         [] has("in_flight") -> "called"
         [] has("unknown")   -> "ambiguous"
         [] OTHER            -> "open"

CallsFor(s) == MapThenSumSet(LAMBDA o : calls[o], OpsOf(s))

Promise == INSTANCE WeeklyPromise WITH
    WeekSlots <- Slots,
    fate <- [s \in Slots |-> FateOf(s)],
    sent <- [s \in Slots |-> CallsFor(s)]

\* Through claims, retries, cancellations, crashes, restarts and recovery, every
\* step of the pipeline is a step of the weekly promise or invisible to it: no
\* slot is sent twice, no outcome is revised (campaign_send.py, operations.py).
PromiseKept == Promise!Spec
================================================================================

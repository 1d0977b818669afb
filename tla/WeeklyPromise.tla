----------------------------- MODULE WeeklyPromise -----------------------------
(****************************************************************************)
(* What the weekly schedule promises, with nothing of how it is kept: the   *)
(* slot an account owns in a week is open until its message is handed to    *)
(* the provider; that happens once; afterwards the outcome is learnt, or is *)
(* given up as ambiguous, and nothing changes any more.  Accounts may be    *)
(* given up together: a restart gives up on everything in flight.           *)
(****************************************************************************)
EXTENDS Naturals

CONSTANT WeekSlots       \* the pairs of an account and a week

VARIABLES
    fate,    \* what is known of each slot's message
    sent     \* how often the provider was asked to send it

promiseVars == <<fate, sent>>

Init ==
    /\ fate = [s \in WeekSlots |-> "open"]
    /\ sent = [s \in WeekSlots |-> 0]

Call(s) ==
    /\ fate[s] = "open"
    /\ fate' = [fate EXCEPT ![s] = "called"]
    /\ sent' = [sent EXCEPT ![s] = @ + 1]

Deliver(s) ==
    /\ fate[s] = "called"
    /\ fate' = [fate EXCEPT ![s] = "delivered"]
    /\ UNCHANGED sent

GiveUp(S) ==
    /\ S # {} /\ \A s \in S : fate[s] = "called"
    /\ fate' = [s \in WeekSlots |-> IF s \in S THEN "ambiguous" ELSE fate[s]]
    /\ UNCHANGED sent

Next ==
    \/ \E s \in WeekSlots : Call(s) \/ Deliver(s)
    \/ \E S \in SUBSET WeekSlots : GiveUp(S)

Spec == Init /\ [][Next]_promiseVars

--------------------------------------------------------------------------------
\* A week's slot is open exactly while nothing was sent for it.
AtMostOnce ==
    \A s \in WeekSlots : sent[s] = IF fate[s] = "open" THEN 0 ELSE 1
================================================================================

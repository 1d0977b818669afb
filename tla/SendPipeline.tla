------------------------------ MODULE SendPipeline ------------------------------
(****************************************************************************)
(* One tenant's sending side: the weekly slots (weekly_schedule.py), the    *)
(* pool worker that claims and finalises them (campaign_worker.py), the     *)
(* manual test that does the same from a request handler                    *)
(* (routes_campaign.py), and send_with_retry (campaign_send.py) that both   *)
(* run over the operation ledger.                                           *)
(*                                                                          *)
(* The process is one asyncio loop: between two awaits nothing else runs,   *)
(* but the process may die between two commits.  A step of a sender ends at *)
(* a commit or at an await; in the program counters of Synchronous no other *)
(* coroutine may run.                                                       *)
(****************************************************************************)
EXTENDS OperationLedger

CONSTANTS
    Worker,        \* the tenant's pool worker
    Testers,       \* request handlers that run a manual test
    DaysPerWeek,   \* 7 in the code
    Weekday,       \* the sticky send_weekday of each account
    MaxDay,        \* bound: days of the calendar
    MaxTries,      \* MAX_RETRY
    MaxCrashes,    \* bound: process deaths
    MaxFaults      \* bound: local database writes that fail and are swallowed

Senders == {Worker} \cup Testers
Week(d) == d \div DaysPerWeek
Weeks == 0..Week(MaxDay)
DateOf(s) == s[2] * DaysPerWeek + Weekday[s[1]]

ASSUME PipelineAssumption ==
    /\ DaysPerWeek \in Nat \ {0} /\ MaxDay \in Nat
    /\ MaxCrashes \in Nat /\ MaxFaults \in Nat
    /\ Worker \notin Testers
    /\ Weekday \in [Profiles -> 0..(DaysPerWeek - 1)]
    /\ Slots = Profiles \X Weeks
    /\ MaxTries \in Nat \ {0, 1} /\ MaxRetries = MaxTries - 1   \* 3 in the code
    /\ None \notin Slots \cup {"sent", "failed", "unknown"}

VARIABLES
    today,      \* _local_today()
    slots,      \* profile_weekly_slots.status
    log,        \* send_log row of each operation: its status and day of sent_at
    ctl,        \* campaign_control: its state and the test that owns "testing"
    send,       \* each sender's coroutine: control point, job, SendTracker
    calls,      \* history: provider send calls made for each operation
    crashes, faults

jobVars == <<today, slots, log, ctl, send, calls, crashes, faults>>
vars == <<ledgerVars, jobVars>>

NoJob == [pc |-> "idle", slot |-> None, op |-> None, outcome |-> "not_started",
          requeue |-> TRUE, acked |-> FALSE, try |-> 0, verdict |-> None,
          dying |-> FALSE]
Off == [NoJob EXCEPT !.pc = "off"]
NoLog == [status |-> None, day |-> 0]

Init ==
    /\ LedgerInit
    /\ today = 0
    /\ slots = [s \in Slots |-> "absent"]
    /\ log = [o \in Ops |-> NoLog]
    /\ ctl = [state |-> "stopped", tester |-> None]
    /\ send = [q \in Senders |-> IF q = Worker THEN Off ELSE NoJob]
    /\ calls = [o \in Ops |-> 0]
    /\ crashes = 0 /\ faults = 0

--------------------------------------------------------------------------------
(* Between awaits: the worker starts its send in the step that claimed it. *)
Synchronous(q) ==
    send[q].pc \in {"created", "record", "finish"} \cup (IF q = Worker THEN {"begin"} ELSE {})

CanRun(q) == \A r \in Senders \ {q} : ~Synchronous(r)
LoopIdle == \A r \in Senders : ~Synchronous(r)

Goto(q, pc) == send' = [send EXCEPT ![q].pc = pc]

\* A write whose failure the code swallows.
Swallow(write, unwritten) ==
    \/ write /\ UNCHANGED faults
    \/ faults < MaxFaults /\ faults' = faults + 1 /\ unwritten

(* send_block_reason(p, today, exclude_operation_id=x) # "allowed" *)
Blocked(p, x) ==
    \/ today % DaysPerWeek # Weekday[p]
    \/ \E o \in Ops : /\ ops[o].profile = p /\ log[o].status = "sent"
                      /\ Week(log[o].day) = Week(today)
    \/ \E o \in Ops \ {x} :
          /\ ops[o].profile = p /\ ops[o].slot = <<p, Week(today)>>
          /\ \/ ops[o].status \in {"reserved", "claimed", "in_flight", "unknown"}
             \/ ops[o].status = "accepted" /\ log[o].status # "sent"

\* expire_before
Expired(f) ==
    [s \in Slots |-> IF f[s] = "queued" /\ DateOf(s) < today THEN "expired" ELSE f[s]]

\* materialize_weekly_plans: expire, then one slot per account scheduled today.
Materialized(f) ==
    [s \in Slots |-> IF f[s] = "absent" /\ s[2] = Week(today) /\ ~Blocked(s[1], None)
                     THEN "queued" ELSE Expired(f)[s]]

\* recover_claimed_slots, over the ledger as recover_in_flight left it.
Reconciled(f, rows) ==
    [s \in Slots |->
        LET mine == {o \in Ops : rows[o].slot = s}
            latest == CHOOSE o \in mine : \A c \in mine : c <= o
        IN IF f[s] # "claimed" THEN f[s]
           ELSE IF mine # {} /\ rows[latest].status \in Terminal THEN rows[latest].status
           ELSE IF DateOf(s) < today THEN "expired" ELSE "queued"]

\* The slots claim_next may take from table f.
Claimable(f) ==
    {s \in Slots : f[s] = "queued" /\ DateOf(s) = today /\ ~Blocked(s[1], None)}

--------------------------------------------------------------------------------
(* Commands, worker life cycle and the environment. *)

StartCommand ==
    /\ LoopIdle
    /\ ctl.state \in {"stopped", "stopping"} /\ send[Worker].pc = "off"
    /\ ctl' = [state |-> "running", tester |-> None]
    /\ UNCHANGED <<ledgerVars, today, slots, log, send, calls, crashes, faults>>

StopCommand ==
    /\ LoopIdle
    /\ ctl' = [state |-> "stopping", tester |-> None]
    /\ UNCHANGED <<ledgerVars, today, slots, log, send, calls, crashes, faults>>

StopCompletes ==
    /\ LoopIdle
    /\ ctl.state = "stopping" /\ send[Worker].pc = "off"
    /\ ctl' = [ctl EXCEPT !.state = "stopped"]
    /\ UNCHANGED <<ledgerVars, today, slots, log, send, calls, crashes, faults>>

\* Mutant: claimed slots are not recovered.
StartUnreconciled ==
    /\ LoopIdle
    /\ ctl.state = "running" /\ send[Worker].pc = "off"
    /\ RecoverInFlight
    /\ slots' = Materialized(slots)
    /\ Goto(Worker, "preflight")
    /\ UNCHANGED <<today, log, ctl, calls, crashes, faults>>

\* start_worker up to its await: materialise, recover operations, recover slots.
StartWorker ==
    /\ LoopIdle
    /\ ctl.state = "running" /\ send[Worker].pc = "off"
    /\ RecoverInFlight
    /\ slots' = Reconciled(Materialized(slots), ops')
    /\ Goto(Worker, "preflight")
    /\ UNCHANGED <<today, log, ctl, calls, crashes, faults>>

\* start_worker after the proxy preflight: the control is read again.
SpawnWorker ==
    /\ LoopIdle
    /\ send[Worker].pc = "preflight"
    /\ Goto(Worker, IF ctl.state = "running" THEN "idle" ELSE "off")
    /\ UNCHANGED <<ledgerVars, today, slots, log, ctl, calls, crashes, faults>>

WorkerClaims ==
    /\ LoopIdle
    /\ send[Worker].pc = "idle" /\ ctl.state = "running"
    /\ \E s \in Claimable(Expired(slots)) :
          /\ slots' = [Expired(slots) EXCEPT ![s] = "claimed"]
          /\ send' = [send EXCEPT ![Worker] = [NoJob EXCEPT !.pc = "begin", !.slot = s]]
    /\ UNCHANGED <<ledgerVars, today, log, ctl, calls, crashes, faults>>

\* WEEKLY_WAIT while a slot of today is queued or claimed, else WEEKLY_DONE;
\* STOP when the control forbids claims.
WorkerFindsNothing ==
    /\ LoopIdle
    /\ send[Worker].pc = "idle"
    /\ \/ /\ ctl.state = "running" /\ Claimable(Expired(slots)) = {}
          /\ slots' = Expired(slots)
          /\ Goto(Worker, IF \E s \in Slots : /\ DateOf(s) = today
                                              /\ slots'[s] \in {"queued", "claimed"}
                          THEN "idle" ELSE "off")
       \/ /\ ctl.state # "running"
          /\ Goto(Worker, "off") /\ UNCHANGED slots
    /\ UNCHANGED <<ledgerVars, today, log, ctl, calls, crashes, faults>>

\* campaign_test: refused while a worker is alive or the control is not at rest.
TestBegins(q) ==
    /\ LoopIdle
    /\ send[q].pc = "idle" /\ send[Worker].pc = "off" /\ ctl.state = "stopped"
    /\ ctl' = [state |-> "testing", tester |-> q]
    /\ Goto(q, "waiting")
    /\ UNCHANGED <<ledgerVars, today, slots, log, calls, crashes, faults>>

\* complete_test and fail_test leave a newer Stop alone.
EndTest(q) == ctl' = IF ctl.tester = q THEN [state |-> "stopped", tester |-> None] ELSE ctl

\* Under message_pool_lock, which start_worker holds through its preflight.
\* The claim reads neither the control nor the test's own generation.
TestClaims(q) ==
    /\ LoopIdle
    /\ send[q].pc = "waiting" /\ send[Worker].pc # "preflight"
    /\ LET table == Expired(Materialized(slots)) IN
       \/ \E s \in Claimable(table) :
             /\ slots' = [table EXCEPT ![s] = "claimed"]
             /\ send' = [send EXCEPT ![q] = [NoJob EXCEPT !.pc = "begin", !.slot = s]]
             /\ UNCHANGED ctl
       \/ /\ Claimable(table) = {}
          /\ slots' = table
          /\ Goto(q, "idle") /\ EndTest(q)
    /\ UNCHANGED <<ledgerVars, today, log, calls, crashes, faults>>

NewDay ==
    /\ today < MaxDay
    /\ today' = today + 1
    /\ UNCHANGED <<ledgerVars, slots, log, ctl, send, calls, crashes, faults>>

\* The process dies: coroutines and trackers are lost, the database stays.
Crash ==
    /\ crashes < MaxCrashes
    /\ crashes' = crashes + 1
    /\ send' = [q \in Senders |-> IF q = Worker THEN Off ELSE NoJob]
    /\ ctl' = [ctl EXCEPT !.tester = None]
    /\ UNCHANGED <<ledgerVars, today, slots, log, calls, faults>>

--------------------------------------------------------------------------------
(* send_with_retry *)

\* _start_send_operation: resume the slot's latest pre-send operation or create
\* one, under the guard on the account's week and on the slot.
BeginSend(q) ==
    LET s == send[q].slot
        p == s[1]
        found == RetryableForSlot(s, p)
        x == IF found = {} THEN None ELSE CHOOSE o \in found : \A c \in found : c <= o
    IN /\ CanRun(q)
       /\ send[q].pc = "begin"
       /\ ~Blocked(p, x)
       /\ DateOf(s) = today /\ slots[s] \in {"claimed", "queued", "failed_unsent"}
       /\ \/ /\ x = None
             /\ \E o \in Ops : /\ Create(o, p, s, None)
                               /\ send' = [send EXCEPT ![q].op = o, ![q].pc = "created"]
          \/ /\ x # None
             /\ Retry(x) \/ Claim(x, p)
             /\ send' = [send EXCEPT ![q].op = x, ![q].pc = "connect"]
       /\ UNCHANGED <<today, slots, log, ctl, calls, crashes, faults>>

\* The account is being deleted, the guard or the ledger refuses, or the test's
\* preflight fails: the send ends before an operation belongs to it.
RefuseSend(q) ==
    /\ CanRun(q)
    /\ send[q].pc = "begin"
    /\ send' = [send EXCEPT ![q].outcome = "failed", ![q].pc = "finish"]
    /\ UNCHANGED <<ledgerVars, today, slots, log, ctl, calls, crashes, faults>>

\* The second commit of a new operation; when it fails the tracker does not
\* know the operation.
ClaimCreated(q) ==
    /\ send[q].pc = "created"
    /\ \/ /\ Claim(send[q].op, send[q].slot[1])
          /\ Goto(q, "connect") /\ UNCHANGED faults
       \/ /\ faults < MaxFaults /\ faults' = faults + 1
          /\ send' = [send EXCEPT ![q].op = None, ![q].outcome = "failed",
                                  ![q].pc = "finish"]
          /\ UNCHANGED ledgerVars
    /\ UNCHANGED <<today, slots, log, ctl, calls, crashes>>

\* _mark_operation_failed_unsent and _mark_operation_unknown: errors are passed.
TryFailedUnsent(o) ==
    Swallow(IF CanMarkFailedUnsent(o) THEN MarkFailedUnsent(o) ELSE UNCHANGED ledgerVars,
            UNCHANGED ledgerVars)
TryUnknown(o) ==
    Swallow(IF CanMarkUnknown(o) THEN MarkUnknown(o) ELSE UNCHANGED ledgerVars,
            UNCHANGED ledgerVars)

\* _profile_client_lock serialises decrypt, connect, send and reseal.
HoldsClient(q) == send[q].pc \in {"ready", "sending", "acked"}

Connect(q) ==
    /\ CanRun(q)
    /\ send[q].pc = "connect"
    /\ \A r \in Senders : HoldsClient(r) => send[r].slot[1] # send[q].slot[1]
    /\ Goto(q, "ready")
    /\ UNCHANGED <<ledgerVars, today, slots, log, ctl, calls, crashes, faults>>

\* Mutant: the number of tries is not compared.
FailAndRetry(q, auth) ==
    /\ CanRun(q)
    /\ TryFailedUnsent(send[q].op)
    /\ send' = [send EXCEPT ![q].outcome = "not_started", ![q].requeue = TRUE,
                            ![q].pc = "backoff"]
    /\ UNCHANGED <<today, slots, log, ctl, calls, crashes>>

\* The handler of an exception raised before the provider boundary: retry the
\* first authorization error and every other error while tries are left.
FailBeforeSend(q, auth) ==
    LET retry == IF auth THEN send[q].try = 0 ELSE send[q].try < MaxTries - 1
    IN /\ CanRun(q)
       /\ TryFailedUnsent(send[q].op)
       /\ send' = [send EXCEPT ![q].outcome = IF retry THEN "not_started" ELSE "failed",
                               ![q].requeue = TRUE,
                               ![q].verdict = IF retry THEN None ELSE "failed",
                               ![q].pc = IF retry THEN "backoff" ELSE "record"]
       /\ UNCHANGED <<today, slots, log, ctl, calls, crashes>>

ConnectFails(q) ==
    /\ send[q].pc \in {"connect", "ready"}
    /\ \E auth \in BOOLEAN : FailBeforeSend(q, auth)

\* DESTINATION_REVIEW_REQUIRED, MEMBERSHIP_REVIEW_REQUIRED: no further try.
ReviewRequired(q) ==
    /\ CanRun(q)
    /\ send[q].pc = "ready"
    /\ TryFailedUnsent(send[q].op)
    /\ send' = [send EXCEPT ![q].outcome = "failed", ![q].requeue = TRUE,
                            ![q].verdict = "failed", ![q].pc = "record"]
    /\ UNCHANGED <<today, slots, log, ctl, calls, crashes>>

\* _retry_send_operation at the head of a later try; a refused retry is one
\* more exception before the boundary.
RetrySend(q) ==
    /\ send[q].pc = "backoff"
    /\ CanRun(q)
    /\ \/ /\ Retry(send[q].op)
          /\ send' = [send EXCEPT ![q].try = @ + 1, ![q].pc = "connect"]
          /\ UNCHANGED faults
       \/ /\ ~CanRetry(send[q].op)
          /\ TryFailedUnsent(send[q].op)
          /\ LET last == send[q].try + 1 >= MaxTries - 1 IN
             send' = [send EXCEPT ![q].try = @ + 1,
                                  ![q].outcome = IF last THEN "failed" ELSE @,
                                  ![q].verdict = IF last THEN "failed" ELSE @,
                                  ![q].pc = IF last THEN "record" ELSE "backoff"]
    /\ UNCHANGED <<today, slots, log, ctl, calls, crashes>>

\* mark_in_flight, then the provider call.
CallProvider(q) ==
    LET o == send[q].op IN
    /\ CanRun(q)
    /\ send[q].pc = "ready"
    /\ MarkInFlight(o)
    /\ calls' = [calls EXCEPT ![o] = @ + 1]
    /\ send' = [send EXCEPT ![q].outcome = IF @ = "not_started" THEN "in_flight" ELSE @,
                            ![q].requeue = FALSE, ![q].pc = "sending"]
    /\ UNCHANGED <<today, slots, log, ctl, crashes, faults>>

ProviderAcks(q) ==
    /\ CanRun(q)
    /\ send[q].pc = "sending"
    /\ \E m \in ProviderIds : MarkAccepted(send[q].op, m)
    /\ send' = [send EXCEPT ![q].outcome = "accepted", ![q].requeue = FALSE,
                            ![q].acked = TRUE, ![q].pc = "acked"]
    /\ UNCHANGED <<today, slots, log, ctl, calls, crashes, faults>>

\* Timeout, error, missing message id, or an ACK the ledger refuses.
SendFails(q) ==
    /\ CanRun(q)
    /\ send[q].pc = "sending"
    /\ TryUnknown(send[q].op)
    /\ send' = [send EXCEPT ![q].outcome = "unknown", ![q].requeue = FALSE,
                            ![q].verdict = "unknown", ![q].pc = "record"]
    /\ UNCHANGED <<today, slots, log, ctl, calls, crashes>>

\* The client closed cleanly: finalize_accepted; or closing or resealing the
\* session raised, and the generic handler takes the outcome for ambiguous.
ClientReturns(q) ==
    /\ CanRun(q)
    /\ send[q].pc = "acked"
    /\ \E clean \in BOOLEAN :
          /\ IF clean THEN \E m \in ProviderIds : MarkAccepted(send[q].op, m) /\ UNCHANGED faults
             ELSE TryUnknown(send[q].op)
          /\ send' = [send EXCEPT ![q].verdict = IF clean THEN "sent" ELSE "unknown",
                                  ![q].pc = "record"]
    /\ UNCHANGED <<today, slots, log, ctl, calls, crashes>>

\* _persist_send_outcome: an operation's first send_log row is its last.
RecordOutcome(q) ==
    LET o == send[q].op IN
    /\ send[q].pc = "record"
    /\ Swallow(log' = IF log[o].status # None THEN log
                      ELSE [log EXCEPT ![o] = [status |-> send[q].verdict, day |-> today]],
               UNCHANGED log)
    /\ Goto(q, "finish")
    /\ UNCHANGED <<ledgerVars, today, slots, ctl, calls, crashes>>

\* Mutant: the slot follows the result of the send, not its acknowledgement.
FinalStatusOfResult(q) ==
    LET o == send[q].op IN
    IF send[q].verdict = "sent" THEN "accepted"
    ELSE IF ~send[q].requeue THEN "unknown"
    ELSE IF o = None \/ (o # None /\ CanRetry(o)) THEN "queued" ELSE "failed_unsent"

\* _finalize_weekly_job, then the end of the test or of the worker's round.
FinalStatus(q) ==
    LET o == send[q].op IN
    IF send[q].acked THEN "accepted"
    ELSE IF ~send[q].requeue THEN "unknown"
    ELSE IF o = None \/ (o # None /\ CanRetry(o)) THEN "queued" ELSE "failed_unsent"

FinalizeJob(q) ==
    /\ send[q].pc = "finish"
    /\ Swallow(slots' = [slots EXCEPT ![send[q].slot] = FinalStatus(q)], UNCHANGED slots)
    /\ send' = [send EXCEPT ![q] = IF send[q].dying THEN Off ELSE NoJob]
    /\ IF q = Worker THEN UNCHANGED ctl ELSE EndTest(q)
    /\ UNCHANGED <<ledgerVars, today, log, calls, crashes>>

\* stop_worker (Stop, Pause, watchdog) cancels the worker at its await.  Inside
\* the back-off sleep no handler is left; before the call the operation becomes
\* failed_unsent; later the outcome is unknown, or sent once it was acknowledged.
CancelWorker ==
    LET w == send[Worker]
        o == w.op
        early == w.pc \in {"connect", "ready"}
    IN /\ LoopIdle
       /\ w.pc # "off"
       /\ IF early THEN TryFailedUnsent(o)
          ELSE IF w.pc \in {"sending", "acked"} THEN TryUnknown(o)
          ELSE UNCHANGED <<ledgerVars, faults>>
       /\ send' = [send EXCEPT ![Worker] =
            IF w.pc \in {"idle", "preflight"} THEN Off
            ELSE IF early \/ w.pc = "backoff"
            THEN [w EXCEPT !.dying = TRUE, !.requeue = TRUE, !.pc = "finish"]
            ELSE [w EXCEPT !.dying = TRUE, !.pc = "record",
                           !.outcome = IF w.acked THEN @ ELSE "unknown",
                           !.verdict = IF w.acked THEN "sent" ELSE "unknown"]]
       /\ UNCHANGED <<today, slots, log, ctl, calls, crashes>>

--------------------------------------------------------------------------------
SenderStep(q) ==
    \/ BeginSend(q) \/ RefuseSend(q) \/ ClaimCreated(q)
    \/ Connect(q) \/ ConnectFails(q) \/ ReviewRequired(q) \/ RetrySend(q)
    \/ CallProvider(q) \/ ProviderAcks(q) \/ SendFails(q) \/ ClientReturns(q)
    \/ RecordOutcome(q) \/ FinalizeJob(q)

WorkerStep == StartWorker \/ SpawnWorker \/ WorkerClaims \/ WorkerFindsNothing

TestStep(q) == TestBegins(q) \/ TestClaims(q)

Environment == StartCommand \/ StopCommand \/ StopCompletes \/ CancelWorker \/ NewDay \/ Crash

Next ==
    \/ WorkerStep \/ Environment
    \/ \E q \in Senders : SenderStep(q)
    \/ \E q \in Testers : TestStep(q)

Spec == Init /\ [][Next]_vars

\* The loop schedules every ready coroutine, the scheduler tick starts the
\* worker while the control says running.  Commands, crashes, cancellations,
\* the calendar and the start of a test are never owed.
Fairness ==
    /\ WF_vars(StartWorker) /\ WF_vars(SpawnWorker)
    /\ WF_vars(WorkerClaims \/ WorkerFindsNothing)
    /\ \A q \in Senders : WF_vars(SenderStep(q))
    /\ \A q \in Testers : WF_vars(TestClaims(q))

FairSpec == Spec /\ Fairness

--------------------------------------------------------------------------------
SlotStatuses == {"absent", "queued", "claimed", "accepted", "failed_unsent",
                 "unknown", "expired"}

Jobs == [pc : {"off", "preflight", "idle", "waiting", "begin", "created", "connect",
               "ready", "sending", "acked", "backoff", "record", "finish"},
         slot : Slots \cup {None}, op : Ops \cup {None},
         outcome : {"not_started", "in_flight", "accepted", "failed", "unknown"},
         requeue : BOOLEAN, acked : BOOLEAN, try : 0..(MaxTries - 1),
         verdict : {None, "sent", "failed", "unknown"}, dying : BOOLEAN]

PipelineTypeOK ==
    /\ TypeOK
    /\ today \in 0..MaxDay
    /\ slots \in [Slots -> SlotStatuses]
    /\ log \in [Ops -> [status : {None, "sent", "failed", "unknown"}, day : 0..MaxDay]]
    /\ ctl \in [state : {"stopped", "stopping", "running", "testing"},
                tester : Testers \cup {None}]
    /\ send \in [Senders -> Jobs]
    /\ calls \in [Ops -> Nat]
    /\ crashes \in 0..MaxCrashes /\ faults \in 0..MaxFaults

Held(o) == \E q \in Senders : send[q].op = o
OpsOf(s) == {o \in Ops : ops[o].slot = s}
Called(s) == \E o \in OpsOf(s) : calls[o] > 0

\* The promise of the weekly schedule: whatever is retried, requeued, cancelled,
\* crashed or recovered, one account's slot of one week reaches the provider at
\* most once, through one operation.
OneCallPerWeek ==
    \A s \in Slots : \A o, c \in OpsOf(s) :
        calls[o] <= 1 /\ (calls[o] > 0 /\ calls[c] > 0 => o = c)

\* What a settled slot says is what the ledger says of its operations; nothing
\* that reached the provider is settled as never sent.
SettledAgreesWithLedger ==
    \A s \in Slots :
        /\ slots[s] = "accepted" => \E o \in OpsOf(s) : ops[o].status = "accepted"
        /\ slots[s] = "unknown"  => \E o \in OpsOf(s) : ops[o].status = "unknown"
        /\ slots[s] \in {"failed_unsent", "expired"} => ~Called(s)

\* Every claimed slot is settled or offered again while the campaign is running.
ClaimedIsSettled ==
    \A s \in Slots : slots[s] = "claimed" ~> (slots[s] # "claimed" \/ ctl.state # "running")

--------------------------------------------------------------------------------
(* Statements of the repository that the code does not keep. *)

\* campaign_send.py:469: "recovery can reconcile a partially persisted operation
\* later" - an operation left before the boundary is taken up again.
Leftover(o) == ops[o].status \in {"reserved", "claimed"} /\ ~Held(o)

LeftoverIsReconciled ==
    \A o \in Ops : Leftover(o) ~> (~Leftover(o) \/ ctl.state # "running")
================================================================================

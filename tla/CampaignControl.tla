----------------------------- MODULE CampaignControl -----------------------------
(****************************************************************************)
(* One tenant's campaign commands and the single worker task they fight     *)
(* over: the durable control row and command receipts of                    *)
(* CampaignCommandCoordinator (routes_campaign.py), the Start, Stop, Pause  *)
(* and Test handlers, the auto_run setting, start_worker and stop_worker    *)
(* (campaign_worker.py), the scheduler tick and the watchdog.               *)
(*                                                                          *)
(* All of it runs on one asyncio loop (the Stop handler's database calls in *)
(* threads): an action is what a coroutine does between two awaits.         *)
(****************************************************************************)
EXTENDS Naturals, FiniteSets

CONSTANTS
    Starts, Stops, Pauses, Tests,  \* request ids of each command; any may be re-sent
    Handlers,                      \* HTTP requests served at a time
    Scheduler, Watchdog,           \* the two background loops
    MaxTasks,                      \* bound: worker tasks ever created
    MaxCrashes,                    \* bound: process deaths
    WorkersMayFail,                \* whether a worker task may end in an exception
    None

Requests == Starts \cup Stops \cup Pauses \cup Tests
Procs == Handlers \cup {Scheduler, Watchdog}
Tasks == 1..MaxTasks

ASSUME ControlAssumption ==
    /\ MaxTasks \in Nat /\ MaxCrashes \in Nat
    /\ WorkersMayFail \in BOOLEAN
    /\ None \notin Tasks
    /\ Scheduler # Watchdog /\ {Scheduler, Watchdog} \cap Handlers = {}
    \* a receipt's key holds the command: no two commands share one
    /\ Starts \cap (Stops \cup Pauses \cup Tests) = {}
    /\ Stops \cap Pauses = {} /\ Tests \cap (Stops \cup Pauses) = {}

VARIABLES
    control,     \* campaign_control
    receipts,    \* campaign_command_receipts: state and generation per request
    autoRun,     \* the auto_run setting
    due,         \* an enabled campaign_schedule whose time has come
    queueOn,     \* queue_state.running
    tasks,       \* the worker tasks that were created
    registered,  \* CampaignRuntime.worker_task
    pool,        \* the task whose children CampaignRuntime.pool_tasks holds
    proc,        \* the coroutines of handlers and background loops
    ready,       \* those that may run before the waiter of a finished task does
    crashes

durable == <<control, receipts, autoRun, due>>
runtime == <<queueOn, tasks, registered, pool>>
vars == <<durable, runtime, proc, ready, crashes>>

Idle == [pc |-> "idle", req |-> None, task |-> None]

Init ==
    /\ control = [gen |-> 0, auto |-> FALSE, fence |-> FALSE, state |-> "stopped"]
    /\ receipts = [r \in Requests |-> [state |-> "none", gen |-> 0]]
    /\ autoRun = FALSE /\ due = FALSE /\ queueOn = FALSE
    /\ tasks = [t \in Tasks |-> "none"]
    /\ registered = None /\ pool = None
    /\ proc = [p \in Procs |-> Idle] /\ ready = {}
    /\ crashes = 0

--------------------------------------------------------------------------------
Live(t) == tasks[t] \in {"created", "alive", "cancelling", "stillborn"}
Busy == registered # None /\ Live(registered)

\* Mutant: neither the switches nor the state are read.
AllowsAlways == TRUE

\* _campaign_control_allows_claim, with and without an expected generation.
Allows == control.auto /\ ~control.fence /\ control.state = "running"
AllowsGeneration(g) == Allows /\ control.gen = g

\* A finished task wakes its waiter in the next turn of the loop: until then
\* every other coroutine runs once at most, and no new task runs at all.
Waiting(p) == proc[p].pc = "await" /\ tasks[proc[p].task] \in {"done", "failed"}
TurnOver == \A p \in Procs : ~Waiting(p)
Runs(p) == /\ TurnOver \/ Waiting(p) \/ p \in ready
           /\ ready' = IF \E q \in Procs \ {p} : Waiting(q) THEN ready \ {p} ELSE {}

Goto(p, pc) == proc' = [proc EXCEPT ![p].pc = pc]
Return(p) == proc' = [proc EXCEPT ![p] = Idle]
Answer(r, st, g) == receipts' = [receipts EXCEPT ![r] = [state |-> st, gen |-> g]]

\* start_worker holds message_pool_lock and worker_lock through its preflight.
LockFree == \A p \in {Scheduler, Watchdog} : proc[p].pc # "preflight"

\* The end of start_worker: running=1 and a new task under the registry.
CreateTask ==
    \E t \in Tasks :
        /\ tasks[t] = "none" /\ \A u \in Tasks : u < t => tasks[u] # "none"
        /\ tasks' = [tasks EXCEPT ![t] = "created"]
        /\ registered' = t /\ queueOn' = TRUE
        /\ UNCHANGED pool

\* Cancelling a task before its first step never runs its body.
Cancelled(t) == IF tasks[t] = "created" THEN "stillborn"
                ELSE IF Live(t) THEN "cancelling" ELSE tasks[t]

\* The tail of stop_worker: forget the task, cancel whatever pool is known.
ForgetTask ==
    /\ registered' = None /\ pool' = None
    /\ tasks' = IF pool = None THEN tasks ELSE [tasks EXCEPT ![pool] = Cancelled(pool)]

--------------------------------------------------------------------------------
(* Start *)

BeginStart(h, r) ==
    /\ Runs(h) /\ proc[h].pc = "idle" /\ receipts[r].state = "none"
    /\ IF control.state = "testing"
       THEN /\ Answer(r, "test_in_progress", control.gen)
            /\ UNCHANGED <<control, proc>>
       ELSE /\ control' = [gen |-> control.gen + 1, auto |-> FALSE, fence |-> FALSE,
                           state |-> "preflight"]
            /\ Answer(r, "preflight", control.gen + 1)
            /\ proc' = [proc EXCEPT ![h] = [Idle EXCEPT !.pc = "preflight", !.req = r]]
    /\ UNCHANGED <<autoRun, due, runtime, crashes>>

FailStart(r) ==
    IF control.gen = receipts[r].gen
    THEN /\ control' = [gen |-> control.gen + 1, auto |-> FALSE, fence |-> TRUE,
                        state |-> "stopped"]
         /\ Answer(r, "failed", control.gen + 1)
    ELSE /\ Answer(r, "fenced_by_stop", control.gen)
         /\ UNCHANGED control

\* The route preflight raised.
StartPreflightFails(h) ==
    /\ Runs(h) /\ proc[h].pc = "preflight"
    /\ FailStart(proc[h].req)
    /\ Return(h)
    /\ UNCHANGED <<autoRun, due, runtime, crashes>>

Running == [control EXCEPT !.auto = TRUE, !.state = "running"]

\* start_worker refused (or raised): the start that had completed is failed.
RefusedStart(r) ==
    /\ control' = [gen |-> control.gen + 1, auto |-> FALSE, fence |-> TRUE, state |-> "stopped"]
    /\ Answer(r, "failed", control.gen + 1)
    /\ autoRun' = FALSE

\* Mutant: the generation is not read again after the preflight.
CompleteStartUnfenced(h) ==
    /\ Runs(h) /\ proc[h].pc = "preflight"
    /\ control' = Running
    /\ Answer(proc[h].req, "running", receipts[proc[h].req].gen)
    /\ autoRun' = TRUE
    /\ Goto(h, "start")
    /\ UNCHANGED <<due, runtime, crashes>>

\* can_complete_start, complete_start, the setting and start_worker are one
\* stretch unless start_worker has to wait for its locks.
CompleteStart(h) ==
    LET r == proc[h].req
        current == control.gen = receipts[r].gen /\ ~control.fence
    IN /\ Runs(h) /\ proc[h].pc = "preflight"
       /\ \/ /\ ~current
             /\ FailStart(r)
             /\ Return(h) /\ UNCHANGED <<autoRun, runtime>>
          \/ /\ current
             /\ ~Busy \/ ~LockFree
             /\ control' = Running
             /\ Answer(r, "running", receipts[r].gen)
             /\ autoRun' = TRUE
             /\ IF LockFree THEN CreateTask /\ Return(h)
                ELSE Goto(h, "start") /\ UNCHANGED runtime
          \/ /\ current /\ LockFree
             /\ Busy \/ WorkersMayFail
             /\ RefusedStart(r)
             /\ Return(h) /\ UNCHANGED runtime
       /\ UNCHANGED <<due, crashes>>

\* _start_worker(control_generation, preflight=False) after a wait for its locks.
StartWorker(h) ==
    LET r == proc[h].req IN
    /\ Runs(h) /\ proc[h].pc = "start" /\ LockFree
    /\ \/ /\ ~Busy /\ AllowsGeneration(receipts[r].gen)
          /\ CreateTask
          /\ UNCHANGED <<control, receipts, autoRun>>
       \/ /\ Busy \/ ~AllowsGeneration(receipts[r].gen) \/ WorkersMayFail
          /\ FailStart(r)
          /\ autoRun' = FALSE
          /\ UNCHANGED runtime
    /\ Return(h)
    /\ UNCHANGED <<due, crashes>>

--------------------------------------------------------------------------------
(* Stop and Pause *)

\* _persist_stop_intent.  The retry of a completed Stop returns its receipt; any
\* other retry, that of a completed Pause too, runs the handler again.
StopIntent(h, r) ==
    /\ Runs(h) /\ proc[h].pc = "idle" /\ receipts[r].state # "stopped"
    /\ IF receipts[r].state = "none"
       THEN /\ control' = [gen |-> control.gen + 1, auto |-> FALSE, fence |-> TRUE,
                           state |-> "stopping"]
            /\ Answer(r, "stopping", control.gen + 1)
       ELSE UNCHANGED <<control, receipts>>
    /\ proc' = [proc EXCEPT ![h] = [Idle EXCEPT !.pc = "unset", !.req = r]]
    /\ UNCHANGED <<autoRun, due, runtime, crashes>>

UnsetAutoRun(h) ==
    /\ Runs(h) /\ proc[h].pc = "unset"
    /\ autoRun' = FALSE
    /\ Goto(h, "halt")
    /\ UNCHANGED <<control, receipts, due, runtime, crashes>>

\* stop_worker up to its await.  Awaiting a task that ended in an exception
\* raises it again: the caller stops here.
Halt(p, next) ==
    /\ queueOn' = FALSE
    /\ IF registered = None
       THEN ForgetTask /\ Goto(p, next)
       ELSE IF Live(registered)
       THEN /\ tasks' = [tasks EXCEPT ![registered] = Cancelled(registered)]
            /\ proc' = [proc EXCEPT ![p].pc = "await", ![p].task = registered]
            /\ UNCHANGED <<registered, pool>>
       ELSE IF tasks[registered] = "failed"
       THEN Return(p) /\ UNCHANGED <<tasks, registered, pool>>
       ELSE ForgetTask /\ Goto(p, next)

HaltWorker(h) ==
    /\ Runs(h) /\ proc[h].pc = "halt"
    /\ Halt(h, "complete")
    /\ UNCHANGED <<durable, crashes>>

\* The awaited task is over: worker_task is reset, whatever it holds by now.
WorkerHalted(h) ==
    /\ Runs(h) /\ Waiting(h)
    /\ IF tasks[proc[h].task] = "failed"
       THEN Return(h) /\ UNCHANGED <<tasks, registered, pool>>
       ELSE ForgetTask /\ Goto(h, "complete")
    /\ UNCHANGED <<durable, queueOn, crashes>>

\* Mutant: a newer command's generation is not respected.
CompleteStopUnfenced(h) ==
    LET r == proc[h].req
        final == IF r \in Pauses THEN "paused" ELSE "stopped"
    IN /\ Runs(h) /\ proc[h].pc = "complete"
       /\ IF receipts[r].state = "stopping"
          THEN /\ control' = [control EXCEPT !.auto = FALSE, !.fence = TRUE, !.state = final]
               /\ Answer(r, final, receipts[r].gen)
          ELSE UNCHANGED <<control, receipts>>
       /\ Return(h)
       /\ UNCHANGED <<autoRun, due, runtime, crashes>>

CompleteStop(h) ==
    LET r == proc[h].req
        final == IF r \in Pauses THEN "paused" ELSE "stopped"
    IN /\ Runs(h) /\ proc[h].pc = "complete"
       /\ IF receipts[r].state = "stopping" /\ control.gen = receipts[r].gen
          THEN /\ control' = [control EXCEPT !.auto = FALSE, !.fence = TRUE, !.state = final]
               /\ Answer(r, final, receipts[r].gen)
          ELSE UNCHANGED <<control, receipts>>
       /\ Return(h)
       /\ UNCHANGED <<autoRun, due, runtime, crashes>>

--------------------------------------------------------------------------------
(* Test *)

BeginTest(h, r) ==
    /\ Runs(h) /\ proc[h].pc = "idle" /\ ~Busy /\ receipts[r].state = "none"
    /\ IF control.state \in {"stopped", "paused"} /\ ~control.auto
       THEN /\ control' = [control EXCEPT !.auto = FALSE, !.fence = FALSE, !.state = "testing"]
            /\ Answer(r, "testing", control.gen)
            /\ proc' = [proc EXCEPT ![h] = [Idle EXCEPT !.pc = "testing", !.req = r]]
       ELSE /\ Answer(r, "campaign_busy", control.gen)
            /\ UNCHANGED <<control, proc>>
    /\ UNCHANGED <<autoRun, due, runtime, crashes>>

Rested == [control EXCEPT !.auto = FALSE, !.fence = FALSE, !.state = "stopped"]

CompleteTest(r) ==
    IF control.gen = receipts[r].gen /\ ~control.fence
    THEN control' = Rested /\ Answer(r, "stopped", receipts[r].gen)
    ELSE Answer(r, "fenced_by_stop", control.gen) /\ UNCHANGED control

\* Mutant: a failed test releases whatever fence it finds.
FailTestUnfenced(r) ==
    control' = Rested /\ Answer(r, "failed", receipts[r].gen)

FailTest(r) ==
    IF control.gen = receipts[r].gen
    THEN control' = Rested /\ Answer(r, "failed", receipts[r].gen)
    ELSE Answer(r, "fenced_by_stop", control.gen) /\ UNCHANGED control

EndTest(h) ==
    /\ Runs(h) /\ proc[h].pc = "testing"
    /\ CompleteTest(proc[h].req) \/ FailTest(proc[h].req)
    /\ Return(h)
    /\ UNCHANGED <<autoRun, due, runtime, crashes>>

--------------------------------------------------------------------------------
(* The scheduler tick, the watchdog and the worker task *)

ScheduleFalls ==
    /\ ~due /\ due' = TRUE
    /\ UNCHANGED <<control, receipts, autoRun, runtime, proc, ready, crashes>>

\* start_worker up to its proxy preflight, for the schedule or to resume.
SchedulerStarts ==
    /\ Runs(Scheduler) /\ proc[Scheduler].pc = "idle" /\ LockFree
    /\ ~Busy /\ Allows
    /\ \E kind \in {"due", "resume"} :
          /\ IF kind = "due" THEN due ELSE autoRun
          /\ proc' = [proc EXCEPT ![Scheduler] = [Idle EXCEPT !.pc = "preflight", !.req = kind]]
    /\ UNCHANGED <<durable, runtime, crashes>>

\* After the preflight: refused proxies, a newer command, or a task.
SchedulerSpawns ==
    /\ Runs(Scheduler) /\ proc[Scheduler].pc = "preflight"
    /\ \/ UNCHANGED <<autoRun, due, runtime>>
       \/ /\ Allows
          /\ CreateTask
          /\ IF proc[Scheduler].req = "due" THEN autoRun' = TRUE /\ due' = FALSE
             ELSE UNCHANGED <<autoRun, due>>
    /\ Return(Scheduler)
    /\ UNCHANGED <<control, receipts, crashes>>

\* The registered worker showed no activity for WORKER_TIMEOUT.
WatchdogHalts ==
    /\ Runs(Watchdog) /\ proc[Watchdog].pc = "idle" /\ Busy
    /\ Halt(Watchdog, "restart")
    /\ UNCHANGED <<durable, crashes>>

WatchdogHalted ==
    /\ Runs(Watchdog) /\ Waiting(Watchdog)
    /\ IF tasks[proc[Watchdog].task] = "failed"
       THEN Return(Watchdog) /\ UNCHANGED <<tasks, registered, pool>>
       ELSE /\ ForgetTask
            /\ IF autoRun THEN Goto(Watchdog, "restart") ELSE Return(Watchdog)
    /\ UNCHANGED <<durable, queueOn, crashes>>

WatchdogStarts ==
    /\ Runs(Watchdog) /\ proc[Watchdog].pc = "restart" /\ LockFree
    /\ IF ~Busy /\ Allows THEN Goto(Watchdog, "preflight") ELSE Return(Watchdog)
    /\ UNCHANGED <<durable, runtime, crashes>>

WatchdogSpawns ==
    /\ Runs(Watchdog) /\ proc[Watchdog].pc = "preflight"
    /\ UNCHANGED runtime \/ (Allows /\ CreateTask)
    /\ Return(Watchdog)
    /\ UNCHANGED <<durable, crashes>>

\* pool_supervisor's first step.
WorkerRuns(t) ==
    /\ TurnOver
    /\ tasks[t] = "created"
    /\ tasks' = [tasks EXCEPT ![t] = "alive"]
    /\ pool' = t
    /\ UNCHANGED <<durable, queueOn, registered, proc, ready, crashes>>

\* The task is over; its supervisor empties pool_tasks, whoever filled it.
Ends(t, st) ==
    /\ TurnOver
    /\ tasks' = [tasks EXCEPT ![t] = st]
    /\ pool' = IF tasks[t] = "stillborn" THEN pool ELSE None
    /\ ready' = IF \E p \in Procs : proc[p].pc = "await" /\ proc[p].task = t
                THEN {p \in Procs : proc[p].pc # "await"} ELSE {}

\* The pool's next claim answers STOP, or a cancellation has been served.
WorkerObeys(t) ==
    /\ \/ tasks[t] = "alive" /\ (~Allows \/ ~queueOn)
       \/ tasks[t] \in {"cancelling", "stillborn"}
    /\ Ends(t, "done")
    /\ UNCHANGED <<durable, queueOn, registered, proc, crashes>>

\* Mutant: the pool's list is left to the next start.
FinishesKeepingPool(t) ==
    /\ TurnOver
    /\ tasks[t] = "alive"
    /\ tasks' = [tasks EXCEPT ![t] = "done"]
    /\ queueOn' = FALSE
    /\ UNCHANGED <<durable, registered, pool, proc, ready, crashes>>

\* worker_shutdown: the week's work is done, or nobody can send.
WorkerFinishes(t) ==
    /\ tasks[t] = "alive"
    /\ Ends(t, "done")
    /\ queueOn' = FALSE
    /\ UNCHANGED <<durable, registered, proc, crashes>>

WorkerFails(t) ==
    /\ WorkersMayFail /\ tasks[t] = "alive"
    /\ Ends(t, "failed")
    /\ UNCHANGED <<durable, queueOn, registered, proc, crashes>>

\* The process dies and starts again: queue_state.running is reset.
Crash ==
    /\ crashes < MaxCrashes /\ crashes' = crashes + 1
    /\ tasks' = [t \in Tasks |-> IF Live(t) THEN "done" ELSE tasks[t]]
    /\ registered' = None /\ pool' = None /\ queueOn' = FALSE
    /\ proc' = [p \in Procs |-> Idle] /\ ready' = {}
    /\ UNCHANGED durable

--------------------------------------------------------------------------------
Commands ==
    \E h \in Handlers :
        \/ \E r \in Starts : BeginStart(h, r)
        \/ \E r \in Stops \cup Pauses : StopIntent(h, r)
        \/ \E r \in Tests : BeginTest(h, r)

HandlerStep(h) ==
    \/ StartPreflightFails(h) \/ CompleteStart(h) \/ StartWorker(h)
    \/ UnsetAutoRun(h) \/ HaltWorker(h) \/ WorkerHalted(h) \/ CompleteStop(h)
    \/ EndTest(h)

SchedulerStep == SchedulerStarts \/ SchedulerSpawns
WatchdogRestarts == WatchdogHalted \/ WatchdogStarts \/ WatchdogSpawns
WorkerStep(t) == WorkerRuns(t) \/ WorkerObeys(t)

Next ==
    \/ Commands
    \/ \E h \in Handlers : HandlerStep(h)
    \/ SchedulerStep \/ ScheduleFalls
    \/ WatchdogHalts \/ WatchdogRestarts
    \/ \E t \in Tasks : WorkerStep(t) \/ WorkerFinishes(t) \/ WorkerFails(t)
    \/ Crash

Spec == Init /\ [][Next]_vars

\* Ready coroutines run; the scheduler ticks every 15 seconds.  Commands, the
\* watchdog's alarm, worker endings of their own and crashes are never owed.
Fairness ==
    /\ \A h \in Handlers : WF_vars(HandlerStep(h))
    /\ WF_vars(SchedulerStep) /\ WF_vars(WatchdogRestarts)
    /\ \A t \in Tasks : WF_vars(WorkerStep(t))

FairSpec == Spec /\ Fairness

--------------------------------------------------------------------------------
ControlTypeOK ==
    /\ control \in [gen : Nat, auto : BOOLEAN, fence : BOOLEAN,
                    state : {"stopped", "paused", "stopping", "preflight", "running", "testing"}]
    /\ receipts \in [Requests -> [gen : Nat,
           state : {"none", "preflight", "running", "failed", "fenced_by_stop",
                    "test_in_progress", "stopping", "stopped", "paused", "testing",
                    "campaign_busy"}]]
    /\ {autoRun, due, queueOn} \subseteq BOOLEAN
    /\ tasks \in [Tasks -> {"none", "created", "alive", "cancelling", "stillborn",
                            "done", "failed"}]
    /\ registered # None => registered \in Tasks /\ tasks[registered] # "none"
    /\ pool # None => pool \in Tasks /\ tasks[pool] \in {"alive", "cancelling"}
    /\ proc \in [Procs -> [pc : {"idle", "preflight", "start", "unset", "halt", "await",
                                 "complete", "testing", "restart"},
                           req : Requests \cup {None, "due", "resume"},
                           task : Tasks \cup {None}]]
    /\ ready \subseteq Procs
    /\ crashes \in 0..MaxCrashes

\* A campaign runs on behalf of one Start that no Stop, Pause or newer Start has
\* overtaken, and then the switches workers look at agree with the state.
RunningHasItsStart ==
    control.state = "running" =>
        /\ control.auto /\ ~control.fence
        /\ \E r \in Starts : receipts[r].state = "running" /\ receipts[r].gen = control.gen
        /\ \A r \in Stops \cup Pauses : receipts[r].gen < control.gen

\* A Stop fence is lifted only by a newer Start, or by a test begun at rest; no
\* late completion of an overtaken command lifts it.
FenceIsKept ==
    [][control.fence /\ ~control'.fence =>
          \/ control'.gen > control.gen /\ control'.state = "preflight"
          \/ control.state \in {"stopped", "paused"} /\ control'.state = "testing"]_vars

\* A command completes with success only while it is the newest.
NewestCompletes ==
    [][\A r \in Requests :
         receipts'[r] # receipts[r] /\ receipts'[r].state \in {"running", "stopped", "paused"}
           => receipts'[r].gen = control'.gen]_vars

\* Under a fence the time comes when no worker task is left, neither the
\* registered one nor those that a late stop_worker forgot.
FencedWorkersEnd ==
    control.fence /\ (\E t \in Tasks : Live(t))
        ~> ~control.fence \/ (\A t \in Tasks : ~Live(t))

--------------------------------------------------------------------------------
(* Statements of the repository that the code does not keep. *)

\* ADR 005, ADR 001: one worker per tenant.
OneWorker == Cardinality({t \in Tasks : Live(t)}) <= 1
================================================================================

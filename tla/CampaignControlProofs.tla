------------------------- MODULE CampaignControlProofs -------------------------
(* A running campaign belongs to one Start that nothing newer has overtaken,  *)
(* and no late command lifts a Stop's fence: for any number of requests,      *)
(* retries, handlers, worker tasks, failures and restarts.                    *)
EXTENDS CampaignControl, TLAPS

Halts == Stops \cup Pauses
ReceiptStates == {"none", "preflight", "running", "failed", "fenced_by_stop",
                  "test_in_progress", "stopping", "stopped", "paused", "testing",
                  "campaign_busy"}
ControlStates == {"stopped", "paused", "stopping", "preflight", "running", "testing"}
Unfinished == {"preflight", "running", "testing", "stopping"}

\* The part of the type invariant that the commands read and write.
CommandsTyped ==
    /\ control \in [gen : Nat, auto : BOOLEAN, fence : BOOLEAN, state : ControlStates]
    /\ receipts \in [Requests -> [gen : Nat, state : ReceiptStates]]

\* What a handler is at work on, and the receipt of it.
HandlerOK(h) ==
    /\ proc[h].pc \in {"preflight", "start"} =>
         /\ proc[h].req \in Starts
         /\ receipts[proc[h].req].state =
                IF proc[h].pc = "preflight" THEN "preflight" ELSE "running"
    /\ proc[h].pc = "testing" =>
         proc[h].req \in Tests /\ receipts[proc[h].req].state = "testing"
    /\ proc[h].pc \in {"unset", "halt", "await", "complete"} => proc[h].req \in Halts

Handling == \A h \in Handlers : HandlerOK(h)

Serving(h) == proc[h].pc \in {"preflight", "start", "testing"}

\* A Start and a Test are served by one handler, however often they are re-sent.
OneServer ==
    \A h, k \in Handlers :
        Serving(h) /\ Serving(k) /\ proc[h].req = proc[k].req => h = k

\* No receipt is of a generation to come.
Past == \A r \in Requests : receipts[r].gen <= control.gen

\* An unfinished receipt of the present generation is what the row is doing.
Present ==
    \A r \in Requests :
        receipts[r].gen = control.gen /\ receipts[r].state \in Unfinished =>
            /\ control.state = receipts[r].state
            /\ control.fence <=> control.state = "stopping"

\* Two unfinished receipts are of two generations, and the generation that a
\* Start opened is no Stop's and no Pause's, finished or not.
OwnGeneration ==
    /\ \A r, x \in Requests :
         r # x /\ receipts[r].state \in Unfinished /\ receipts[x].state \in Unfinished
           => receipts[r].gen # receipts[x].gen
    /\ \A r \in Starts, x \in Halts :
         receipts[r].state \in {"preflight", "running"} => receipts[r].gen # receipts[x].gen

\* Which worker tasks the runtime knows.
TaskStates == {"none", "created", "alive", "cancelling", "stillborn", "done", "failed"}
RuntimeTyped ==
    /\ tasks \in [Tasks -> TaskStates]
    /\ registered # None => registered \in Tasks /\ tasks[registered] # "none"
    /\ pool # None => pool \in Tasks /\ tasks[pool] \in {"alive", "cancelling"}

ProcStates == {"idle", "preflight", "start", "unset", "halt", "await", "complete",
               "testing", "restart"}
Coroutine == [pc : ProcStates, req : Requests \cup {None, "due", "resume"},
              task : Tasks \cup {None}]
ProcTyped == proc \in [Procs -> Coroutine]

FlagsTyped == /\ {autoRun, due, queueOn} \subseteq BOOLEAN
              /\ ready \subseteq Procs /\ crashes \in 0..MaxCrashes

Typed == CommandsTyped /\ RuntimeTyped /\ ProcTyped /\ FlagsTyped

\* The inductive invariant.
ControlInv ==
    /\ Typed /\ Handling /\ OneServer
    /\ Past /\ Present /\ OwnGeneration /\ RunningHasItsStart

--------------------------------------------------------------------------------
(* Types *)

LEMMA TypedIsTypeOK == Typed <=> ControlTypeOK
BY DEF Typed, CommandsTyped, RuntimeTyped, ProcTyped, FlagsTyped, ControlTypeOK,
       ControlStates, ReceiptStates, TaskStates, Coroutine, ProcStates

LEMMA AnswerTyped ==
  ASSUME receipts \in [Requests -> [gen : Nat, state : ReceiptStates]],
         NEW r, NEW st \in ReceiptStates, NEW g,
         r \in Requests => g \in Nat, Answer(r, st, g)
  PROVE  receipts' \in [Requests -> [gen : Nat, state : ReceiptStates]]
BY DEF Answer

LEMMA CreateTyped ==
  ASSUME RuntimeTyped, CreateTask PROVE RuntimeTyped'
<1>1. PICK t \in Tasks : /\ tasks[t] = "none" /\ tasks' = [tasks EXCEPT ![t] = "created"]
                         /\ registered' = t /\ pool' = pool
  BY DEF CreateTask
<1> QED BY <1>1 DEF RuntimeTyped, TaskStates

LEMMA CancelledTyped ==
  ASSUME RuntimeTyped, NEW t \in Tasks
  PROVE  /\ Cancelled(t) \in TaskStates
         /\ tasks[t] # "none" => Cancelled(t) # "none"
         /\ tasks[t] \in {"alive", "cancelling"} => Cancelled(t) = "cancelling"
BY DEF RuntimeTyped, TaskStates, Cancelled, Live

LEMMA ForgetTyped ==
  ASSUME RuntimeTyped, ForgetTask PROVE RuntimeTyped'
<1>1. CASE pool = None
  BY <1>1 DEF ForgetTask, RuntimeTyped
<1>2. CASE pool # None
  <2>1. pool \in Tasks /\ Cancelled(pool) \in TaskStates
    BY <1>2, CancelledTyped DEF RuntimeTyped
  <2>2. tasks' = [tasks EXCEPT ![pool] = Cancelled(pool)] /\ registered' = None /\ pool' = None
    BY <1>2 DEF ForgetTask
  <2> QED BY <2>1, <2>2 DEF RuntimeTyped
<1> QED BY <1>1, <1>2

LEMMA HaltTyped ==
  ASSUME RuntimeTyped, ProcTyped, NEW p \in Procs, NEW next \in {"complete", "restart"},
         Halt(p, next)
  PROVE  RuntimeTyped' /\ ProcTyped'
<1>1. ASSUME ForgetTask, Goto(p, next) PROVE RuntimeTyped' /\ ProcTyped'
  BY <1>1, ForgetTyped DEF Goto, ProcTyped, Coroutine, ProcStates
<1>2. ASSUME Return(p), UNCHANGED <<tasks, registered, pool>>
      PROVE RuntimeTyped' /\ ProcTyped'
  BY <1>2 DEF Return, Idle, RuntimeTyped, ProcTyped, Coroutine, ProcStates
<1>3. ASSUME registered # None,
             tasks' = [tasks EXCEPT ![registered] = Cancelled(registered)],
             proc' = [proc EXCEPT ![p].pc = "await", ![p].task = registered],
             UNCHANGED <<registered, pool>>
      PROVE RuntimeTyped' /\ ProcTyped'
  <2>1. registered \in Tasks /\ tasks[registered] # "none"
    BY <1>3 DEF RuntimeTyped
  <2>2. ProcTyped'
    <3>1. proc[p] \in Coroutine /\ "await" \in ProcStates
      BY DEF ProcTyped, ProcStates
    <3>2. [proc[p] EXCEPT !.pc = "await", !.task = registered] \in Coroutine
      BY <2>1, <3>1 DEF Coroutine
    <3>3. proc' = [proc EXCEPT ![p] = [proc[p] EXCEPT !.pc = "await", !.task = registered]]
      BY <1>3 DEF ProcTyped
    <3> QED BY <3>2, <3>3 DEF ProcTyped
  <2>3. RuntimeTyped'
    BY <1>3, <2>1, CancelledTyped DEF RuntimeTyped
  <2> QED BY <2>2, <2>3
<1> QED BY <1>1, <1>2, <1>3 DEF Halt

LEMMA EndsTyped ==
  ASSUME RuntimeTyped, NEW t \in Tasks, NEW st \in {"done", "failed"}, Ends(t, st),
         registered' = registered
  PROVE  RuntimeTyped'
BY DEF Ends, RuntimeTyped, TaskStates

LEMMA GoTyped ==
  ASSUME ProcTyped, NEW p \in Procs, NEW pc \in ProcStates,
         NEW r \in Requests \cup {None, "due", "resume"},
         \/ Goto(p, pc) \/ Return(p) \/ UNCHANGED proc
         \/ proc' = [proc EXCEPT ![p] = [Idle EXCEPT !.pc = pc, !.req = r]]
  PROVE  ProcTyped'
<1>1. Idle \in Coroutine
  BY DEF Idle, Coroutine, ProcStates
<1>2. CASE Goto(p, pc)
  BY <1>2 DEF Goto, ProcTyped, Coroutine
<1>3. CASE Return(p)
  BY <1>1, <1>3 DEF Return, ProcTyped
<1>4. CASE proc' = [proc EXCEPT ![p] = [Idle EXCEPT !.pc = pc, !.req = r]]
  <2>1. [Idle EXCEPT !.pc = pc, !.req = r] \in Coroutine
    BY <1>1 DEF Coroutine
  <2> QED BY <1>1, <1>4, <2>1 DEF ProcTyped
<1>5. CASE UNCHANGED proc
  BY <1>5 DEF ProcTyped
<1> QED BY <1>2, <1>3, <1>4, <1>5

\* The tasks, the coroutines and the flags keep their types.
LEMMA RestTyped ==
  ASSUME Typed, [Next]_vars
  PROVE  RuntimeTyped' /\ ProcTyped' /\ FlagsTyped'
<1> DEFINE Goal == RuntimeTyped' /\ ProcTyped' /\ FlagsTyped'
<1> USE DEF Typed
<1>h. Handlers \subseteq Procs /\ Scheduler \in Procs /\ Watchdog \in Procs
  BY DEF Procs
<1>q. Starts \cup Stops \cup Pauses \cup Tests \subseteq Requests
  BY DEF Requests
<1>s. ASSUME UNCHANGED runtime PROVE RuntimeTyped'
  BY <1>s DEF runtime, RuntimeTyped
<1>r. ASSUME NEW p \in Procs, Runs(p) PROVE ready' \subseteq Procs
  BY <1>r DEF Runs, FlagsTyped
<1>0. ASSUME UNCHANGED vars PROVE Goal
  BY <1>0 DEF vars, durable, runtime, RuntimeTyped, ProcTyped, FlagsTyped
<1>1. ASSUME NEW h \in Handlers, NEW r \in Starts, BeginStart(h, r) PROVE Goal
  <2>1. ProcTyped'
    BY <1>1, <1>h, <1>q, GoTyped DEF BeginStart, ProcStates
  <2> QED BY <1>1, <2>1, <1>s, <1>r, <1>h DEF BeginStart, FlagsTyped, runtime
<1>2. ASSUME NEW h \in Handlers, NEW r \in Stops \cup Pauses, StopIntent(h, r) PROVE Goal
  <2>1. ProcTyped'
    BY <1>2, <1>h, <1>q, GoTyped DEF StopIntent, ProcStates
  <2> QED BY <1>2, <2>1, <1>s, <1>r, <1>h DEF StopIntent, FlagsTyped, runtime
<1>3. ASSUME NEW h \in Handlers, NEW r \in Tests, BeginTest(h, r) PROVE Goal
  <2>1. ProcTyped'
    BY <1>3, <1>h, <1>q, GoTyped DEF BeginTest, ProcStates
  <2> QED BY <1>3, <2>1, <1>s, <1>r, <1>h DEF BeginTest, FlagsTyped, runtime
<1>4. ASSUME NEW h \in Handlers, StartPreflightFails(h) PROVE Goal
  <2>1. ProcTyped'
    BY <1>4, <1>h, GoTyped DEF StartPreflightFails, ProcStates
  <2> QED BY <1>4, <2>1, <1>s, <1>r, <1>h DEF StartPreflightFails, FlagsTyped, runtime
<1>5. ASSUME NEW h \in Handlers, CompleteStart(h) PROVE Goal
  <2>1. /\ Runs(h) /\ UNCHANGED <<due, crashes>>
        /\ Return(h) \/ Goto(h, "start")
        /\ autoRun' \in {autoRun, TRUE, FALSE}
        /\ CreateTask \/ UNCHANGED runtime
    BY <1>5 DEF CompleteStart, RefusedStart
  <2>2. ProcTyped'
    BY <2>1, <1>h, GoTyped DEF ProcStates
  <2>3. RuntimeTyped'
    BY <2>1, <1>s, CreateTyped
  <2>4. queueOn' \in BOOLEAN
    BY <2>1 DEF CreateTask, runtime, FlagsTyped
  <2> QED BY <2>1, <2>2, <2>3, <2>4, <1>r, <1>h DEF FlagsTyped
<1>6. ASSUME NEW h \in Handlers, StartWorker(h) PROVE Goal
  <2>1. /\ Runs(h) /\ UNCHANGED <<due, crashes>> /\ Return(h)
        /\ autoRun' \in {autoRun, FALSE}
        /\ CreateTask \/ UNCHANGED runtime
    BY <1>6 DEF StartWorker
  <2>2. ProcTyped'
    BY <2>1, <1>h, GoTyped DEF ProcStates
  <2>3. RuntimeTyped'
    BY <2>1, <1>s, CreateTyped
  <2>4. queueOn' \in BOOLEAN
    BY <2>1 DEF CreateTask, runtime, FlagsTyped
  <2> QED BY <2>1, <2>2, <2>3, <2>4, <1>r, <1>h DEF FlagsTyped
<1>7. ASSUME NEW h \in Handlers, UnsetAutoRun(h) PROVE Goal
  <2>1. ProcTyped'
    BY <1>7, <1>h, GoTyped DEF UnsetAutoRun, ProcStates
  <2> QED BY <1>7, <2>1, <1>s, <1>r, <1>h DEF UnsetAutoRun, FlagsTyped, runtime
<1>8. ASSUME NEW p \in Procs, NEW next \in {"complete", "restart"}, Runs(p), Halt(p, next),
             UNCHANGED <<durable, crashes>>
      PROVE Goal
  BY <1>8, <1>r, HaltTyped DEF Halt, durable, FlagsTyped
<1>9. ASSUME NEW p \in Procs, NEW pc \in {"complete", "restart"}, Runs(p),
             \/ Return(p) /\ UNCHANGED <<tasks, registered, pool>>
             \/ ForgetTask /\ (Goto(p, pc) \/ Return(p)),
             UNCHANGED <<durable, queueOn, crashes>>
      PROVE Goal
  <2>1. ProcTyped'
    BY <1>9, GoTyped DEF ProcStates
  <2>2. RuntimeTyped'
    BY <1>9, ForgetTyped DEF RuntimeTyped
  <2> QED BY <1>9, <2>1, <2>2, <1>r DEF durable, FlagsTyped
<1>10. ASSUME NEW h \in Handlers, CompleteStop(h) PROVE Goal
  <2>1. ProcTyped'
    BY <1>10, <1>h, GoTyped DEF CompleteStop, ProcStates
  <2> QED BY <1>10, <2>1, <1>s, <1>r, <1>h DEF CompleteStop, FlagsTyped, runtime
<1>11. ASSUME NEW h \in Handlers, EndTest(h) PROVE Goal
  <2>1. ProcTyped'
    BY <1>11, <1>h, GoTyped DEF EndTest, ProcStates
  <2> QED BY <1>11, <2>1, <1>s, <1>r, <1>h DEF EndTest, FlagsTyped, runtime
<1>12. ASSUME ScheduleFalls PROVE Goal
  BY <1>12, <1>s DEF ScheduleFalls, FlagsTyped, ProcTyped, runtime
<1>13. ASSUME SchedulerStarts PROVE Goal
  <2>1. ProcTyped'
    BY <1>13, <1>h, GoTyped DEF SchedulerStarts, ProcStates
  <2> QED BY <1>13, <2>1, <1>s, <1>r, <1>h DEF SchedulerStarts, FlagsTyped, durable, runtime
<1>14. ASSUME SchedulerSpawns PROVE Goal
  <2>1. /\ Runs(Scheduler) /\ UNCHANGED crashes /\ Return(Scheduler)
        /\ autoRun' \in {autoRun, TRUE} /\ due' \in {due, FALSE}
        /\ CreateTask \/ UNCHANGED runtime
    BY <1>14 DEF SchedulerSpawns
  <2>2. ProcTyped'
    BY <2>1, <1>h, GoTyped DEF ProcStates
  <2>3. RuntimeTyped'
    BY <2>1, <1>s, CreateTyped
  <2>4. queueOn' \in BOOLEAN
    BY <2>1 DEF CreateTask, runtime, FlagsTyped
  <2> QED BY <2>1, <2>2, <2>3, <2>4, <1>r, <1>h DEF FlagsTyped
<1>15. ASSUME WatchdogStarts PROVE Goal
  <2>1. ProcTyped'
    BY <1>15, <1>h, GoTyped DEF WatchdogStarts, ProcStates
  <2> QED BY <1>15, <2>1, <1>s, <1>r, <1>h DEF WatchdogStarts, FlagsTyped, durable, runtime
<1>16. ASSUME WatchdogSpawns PROVE Goal
  <2>1. /\ Runs(Watchdog) /\ UNCHANGED <<durable, crashes>> /\ Return(Watchdog)
        /\ CreateTask \/ UNCHANGED runtime
    BY <1>16 DEF WatchdogSpawns
  <2>2. ProcTyped'
    BY <2>1, <1>h, GoTyped DEF ProcStates
  <2>3. RuntimeTyped'
    BY <2>1, <1>s, CreateTyped
  <2>4. queueOn' \in BOOLEAN
    BY <2>1 DEF CreateTask, runtime, FlagsTyped
  <2> QED BY <2>1, <2>2, <2>3, <2>4, <1>r, <1>h DEF FlagsTyped, durable
<1>17. ASSUME NEW t \in Tasks, WorkerRuns(t) PROVE Goal
  BY <1>17 DEF WorkerRuns, durable, FlagsTyped, ProcTyped, RuntimeTyped, TaskStates
<1>18. ASSUME NEW t \in Tasks, NEW st \in {"done", "failed"}, Ends(t, st),
              queueOn' \in {queueOn, FALSE}, UNCHANGED <<durable, registered, proc, crashes>>
       PROVE Goal
  <2>1. RuntimeTyped'
    BY <1>18, EndsTyped
  <2> QED BY <1>18, <2>1 DEF Ends, durable, FlagsTyped, ProcTyped
<1>19. ASSUME Crash PROVE Goal
  <2>1. RuntimeTyped' /\ ProcTyped'
    BY <1>19 DEF Crash, RuntimeTyped, TaskStates, ProcTyped, Coroutine, ProcStates, Idle
  <2>2. crashes \in Nat /\ MaxCrashes \in Nat /\ crashes < MaxCrashes /\ crashes' = crashes + 1
    BY <1>19, ControlAssumption DEF Crash, FlagsTyped
  <2>3. crashes' \in 0..MaxCrashes
    BY <2>2
  <2>4. queueOn' = FALSE /\ ready' = {} /\ UNCHANGED <<autoRun, due>>
    BY <1>19 DEF Crash, durable
  <2> QED BY <2>1, <2>3, <2>4 DEF FlagsTyped
<1>c. ASSUME Commands PROVE Goal
  BY <1>c, <1>1, <1>2, <1>3 DEF Commands
<1>d. ASSUME NEW h \in Handlers, HandlerStep(h) PROVE Goal
  <2>1. HaltWorker(h) => Goal
    BY <1>8, <1>h DEF HaltWorker
  <2>2. WorkerHalted(h) => Goal
    BY <1>9, <1>h DEF WorkerHalted
  <2> QED BY <1>d, <1>4, <1>5, <1>6, <1>7, <2>1, <2>2, <1>10, <1>11 DEF HandlerStep
<1>e. ASSUME WatchdogHalts \/ WatchdogRestarts PROVE Goal
  <2>1. WatchdogHalts => Goal
    BY <1>8, <1>h DEF WatchdogHalts
  <2>2. WatchdogHalted => Goal
    BY <1>9, <1>h DEF WatchdogHalted
  <2> QED BY <1>e, <2>1, <2>2, <1>15, <1>16 DEF WatchdogRestarts
<1>f. ASSUME NEW t \in Tasks, WorkerStep(t) \/ WorkerFinishes(t) \/ WorkerFails(t) PROVE Goal
  BY <1>f, <1>17, <1>18 DEF WorkerStep, WorkerObeys, WorkerFinishes, WorkerFails
<1> QED BY <1>0, <1>c, <1>d, <1>e, <1>f, <1>12, <1>13, <1>14, <1>19 DEF Next, SchedulerStep

--------------------------------------------------------------------------------
(* What a step does to the control row and the receipts.                      *)

Quiet == UNCHANGED <<control, receipts>>

\* A Start, a Stop or a Pause opens a generation.
Opens(r) ==
    \E st \in {"preflight", "stopping"} :
        /\ (st = "preflight" /\ r \in Starts) \/ (st = "stopping" /\ r \in Halts)
        /\ control' = [gen |-> control.gen + 1, auto |-> FALSE, fence |-> st = "stopping",
                       state |-> st]
        /\ Answer(r, st, control.gen + 1)

\* A Start of the present generation fails, and closes it.
Fails(r) ==
    /\ r \in Starts
    /\ control' = [gen |-> control.gen + 1, auto |-> FALSE, fence |-> TRUE,
                   state |-> "stopped"]
    /\ Answer(r, "failed", control.gen + 1)

\* A Start or a Test is told that it came too late or at a bad moment.
Refuses(r) ==
    \E st \in {"test_in_progress", "fenced_by_stop", "campaign_busy"} :
        /\ r \in Starts \cup Tests
        /\ r \in Starts => receipts[r].state = "none" \/ receipts[r].gen # control.gen
        /\ Answer(r, st, control.gen) /\ UNCHANGED control

Completes(r) ==
    /\ r \in Starts /\ receipts[r].state = "preflight"
    /\ control.gen = receipts[r].gen /\ ~control.fence
    /\ control' = Running /\ Answer(r, "running", receipts[r].gen)

Rests(r) ==
    \E st \in {"stopped", "paused"} :
        /\ r \in Halts /\ receipts[r].state = "stopping" /\ control.gen = receipts[r].gen
        /\ control' = [control EXCEPT !.auto = FALSE, !.fence = TRUE, !.state = st]
        /\ Answer(r, st, receipts[r].gen)

TestBegins(r) ==
    /\ r \in Tests
    /\ control.state \in {"stopped", "paused"}
    /\ control' = [control EXCEPT !.auto = FALSE, !.fence = FALSE, !.state = "testing"]
    /\ Answer(r, "testing", control.gen)

TestEnds(r) ==
    \E st \in {"stopped", "failed"} :
        /\ r \in Tests /\ receipts[r].state = "testing"
        /\ control.gen = receipts[r].gen
        /\ control' = Rested /\ Answer(r, st, receipts[r].gen)

Moves(r) == \/ Opens(r) \/ Fails(r) \/ Refuses(r) \/ Completes(r) \/ Rests(r)
            \/ TestBegins(r) \/ TestEnds(r)

\* Only a handler touches them: one receipt, which is new, that of a Stop or a
\* Pause, or that of the Start or Test this handler is serving.  The handler's
\* next step is named by what the receipt then is.
Serves(h, r) ==
    /\ Quiet \/ Moves(r)
    /\ \A k \in Handlers \ {h} : proc'[k] = proc[k]
    /\ \/ Quiet
       \/ receipts[r].state = "none"
       \/ r \in Halts
       \/ (Serving(h) /\ proc[h].req = r)
    /\ Serving(h)' => /\ proc'[h].req = r
                      /\ receipts[r].state = "none" \/ (Serving(h) /\ proc[h].req = r)

Background == Quiet /\ \A h \in Handlers : proc'[h] = proc[h] \/ proc'[h] = Idle

\* Replacing one receipt.
LEMMA Answered ==
  ASSUME CommandsTyped, NEW r \in Requests, NEW st, NEW g, Answer(r, st, g)
  PROVE  /\ receipts'[r].state = st /\ receipts'[r].gen = g
         /\ \A x \in Requests : x # r => receipts'[x] = receipts[x]
BY DEF Answer, CommandsTyped

LEMMA RequestsAre ==
  /\ Starts \subseteq Requests /\ Halts \subseteq Requests /\ Tests \subseteq Requests
  /\ Starts \cap Halts = {} /\ Starts \cap Tests = {} /\ Tests \cap Halts = {}
  /\ Requests = Starts \cup Halts \cup Tests
BY ControlAssumption DEF Requests, Halts

LEMMA FailStartMoves ==
  ASSUME NEW r \in Starts, FailStart(r) PROVE Moves(r)
BY DEF FailStart, Moves, Fails, Refuses

LEMMA Kept ==
  ASSUME ProcTyped, NEW h \in Handlers,
         NEW pc, Goto(h, pc) \/ Return(h)
  PROVE  /\ \A k \in Handlers \ {h} : proc'[k] = proc[k]
         /\ proc'[h].pc \in {pc, "idle"}
         /\ Goto(h, pc) => proc'[h].req = proc[h].req /\ proc'[h].pc = pc
         /\ Return(h) => proc'[h].pc = "idle"
BY DEF ProcTyped, Procs, Goto, Return, Idle, Coroutine

\* Every handler's step serves the request it holds, or takes up a new one.
LEMMA CommandServes ==
  ASSUME Typed, Commands
  PROVE  \E h \in Handlers, r \in Requests : Serves(h, r) /\ HandlerOK(h)'
<1> DEFINE Goal == \E h \in Handlers, r \in Requests : Serves(h, r) /\ HandlerOK(h)'
<1> USE DEF Typed
<1>1. ASSUME NEW h \in Handlers, NEW pc, NEW r, proc' = [proc EXCEPT ![h] = [Idle EXCEPT !.pc = pc, !.req = r]]
      PROVE  /\ proc'[h].pc = pc /\ proc'[h].req = r
             /\ \A k \in Handlers \ {h} : proc'[k] = proc[k]
  BY <1>1 DEF ProcTyped, Procs, Idle
<1>2. ASSUME NEW h \in Handlers, NEW r \in Starts, BeginStart(h, r) PROVE Goal
  <2>1. r \in Requests /\ proc[h].pc = "idle" /\ receipts[r].state = "none"
    BY <1>2, RequestsAre DEF BeginStart
  <2>2. CASE control.state = "testing"
    <3>1. Answer(r, "test_in_progress", control.gen) /\ UNCHANGED <<control, proc>>
      BY <1>2, <2>2 DEF BeginStart
    <3>2. Moves(r)
      BY <2>1, <3>1, RequestsAre DEF Moves, Refuses
    <3>3. Serves(h, r) /\ HandlerOK(h)'
      BY <2>1, <3>1, <3>2 DEF Serves, HandlerOK, Serving
    <3> QED BY <2>1, <3>3
  <2>3. CASE control.state # "testing"
    <3>1. /\ control' = [gen |-> control.gen + 1, auto |-> FALSE, fence |-> FALSE,
                         state |-> "preflight"]
          /\ Answer(r, "preflight", control.gen + 1)
          /\ proc' = [proc EXCEPT ![h] = [Idle EXCEPT !.pc = "preflight", !.req = r]]
      BY <1>2, <2>3 DEF BeginStart
    <3>2. Moves(r)
      BY <3>1 DEF Moves, Opens
    <3>3. receipts'[r].state = "preflight"
      BY <2>1, <3>1, Answered
    <3>4. proc'[h].pc = "preflight" /\ proc'[h].req = r
          /\ \A k \in Handlers \ {h} : proc'[k] = proc[k]
      BY <3>1, <1>1
    <3>5. Serves(h, r)
      BY <2>1, <3>2, <3>4 DEF Serves
    <3>6. HandlerOK(h)'
      BY <3>3, <3>4 DEF HandlerOK
    <3> QED BY <2>1, <3>5, <3>6
  <2> QED BY <2>2, <2>3
<1>3. ASSUME NEW h \in Handlers, NEW r \in Stops \cup Pauses, StopIntent(h, r) PROVE Goal
  <2>1. r \in Requests /\ r \in Halts /\ proc[h].pc = "idle"
    BY <1>3, RequestsAre DEF StopIntent, Halts
  <2>2. Quiet \/ Moves(r)
    BY <1>3, <2>1 DEF StopIntent, Moves, Opens, Quiet
  <2>3. proc'[h].pc = "unset" /\ proc'[h].req = r
          /\ \A k \in Handlers \ {h} : proc'[k] = proc[k]
    BY <1>3, <1>1 DEF StopIntent
  <2>4. Serves(h, r) /\ HandlerOK(h)'
    BY <2>1, <2>2, <2>3 DEF Serves, HandlerOK, Serving
  <2> QED BY <2>1, <2>4
<1>4. ASSUME NEW h \in Handlers, NEW r \in Tests, BeginTest(h, r) PROVE Goal
  <2>1. r \in Requests /\ proc[h].pc = "idle" /\ receipts[r].state = "none"
    BY <1>4, RequestsAre DEF BeginTest
  <2>2. CASE control.state \in {"stopped", "paused"} /\ ~control.auto
    <3>1. /\ control' = [control EXCEPT !.auto = FALSE, !.fence = FALSE, !.state = "testing"]
          /\ Answer(r, "testing", control.gen)
          /\ proc' = [proc EXCEPT ![h] = [Idle EXCEPT !.pc = "testing", !.req = r]]
      BY <1>4, <2>2 DEF BeginTest
    <3>2. Moves(r)
      BY <2>2, <3>1 DEF Moves, TestBegins
    <3>3. receipts'[r].state = "testing"
      BY <2>1, <3>1, Answered
    <3>4. proc'[h].pc = "testing" /\ proc'[h].req = r
          /\ \A k \in Handlers \ {h} : proc'[k] = proc[k]
      BY <3>1, <1>1
    <3>5. Serves(h, r)
      BY <2>1, <3>2, <3>4 DEF Serves
    <3>6. HandlerOK(h)'
      BY <3>3, <3>4 DEF HandlerOK
    <3> QED BY <2>1, <3>5, <3>6
  <2>3. CASE ~(control.state \in {"stopped", "paused"} /\ ~control.auto)
    <3>1. Answer(r, "campaign_busy", control.gen) /\ UNCHANGED <<control, proc>>
      BY <1>4, <2>3 DEF BeginTest
    <3>2. Moves(r)
      BY <2>1, <3>1, RequestsAre DEF Moves, Refuses
    <3>3. Serves(h, r) /\ HandlerOK(h)'
      BY <2>1, <3>1, <3>2 DEF Serves, HandlerOK, Serving
    <3> QED BY <2>1, <3>3
  <2> QED BY <2>2, <2>3
<1> QED BY <1>2, <1>3, <1>4 DEF Commands

LEMMA HandlerServes ==
  ASSUME Typed, NEW h \in Handlers, HandlerOK(h), HandlerStep(h)
  PROVE  \E r \in Requests : Serves(h, r) /\ HandlerOK(h)'
<1> DEFINE r == proc[h].req
           Goal == \E x \in Requests : Serves(h, x) /\ HandlerOK(h)'
<1> USE DEF Typed
<1>1. ASSUME proc[h].pc \in {"preflight", "start", "testing"}, Quiet \/ Moves(r), Return(h)
      PROVE  Goal
  <2>1. r \in Requests
    BY <1>1, RequestsAre DEF HandlerOK
  <2>2. \A k \in Handlers \ {h} : proc'[k] = proc[k]
    BY <1>1, Kept
  <2>3. proc'[h].pc = "idle"
    BY <1>1, Kept
  <2>4. Serves(h, r) /\ HandlerOK(h)'
    BY <1>1, <2>2, <2>3 DEF Serves, HandlerOK, Serving
  <2> QED BY <2>1, <2>4
<1>2. ASSUME proc[h].pc \in {"unset", "halt", "await", "complete"}, Quiet \/ Moves(r),
             \A k \in Handlers \ {h} : proc'[k] = proc[k],
             \/ proc'[h].pc = "idle"
             \/ proc'[h].pc \in {"halt", "await", "complete"} /\ proc'[h].req = proc[h].req
      PROVE  Goal
  <2>1. r \in Requests /\ r \in Halts
    BY <1>2, RequestsAre DEF HandlerOK
  <2>2. Serves(h, r) /\ HandlerOK(h)'
    BY <1>2, <2>1 DEF Serves, HandlerOK, Serving
  <2> QED BY <2>1, <2>2
<1>p. proc[h].pc \in {"preflight", "start"} => r \in Starts
  BY DEF HandlerOK
<1>t. proc[h].pc = "preflight" => receipts[r].state = "preflight"
  BY DEF HandlerOK
<1>3. StartPreflightFails(h) => Goal
  BY <1>1, <1>p, FailStartMoves DEF StartPreflightFails
<1>4. ASSUME CompleteStart(h) PROVE Goal
  <2>1. r \in Starts /\ receipts[r].state = "preflight" /\ proc[h].pc = "preflight"
    BY <1>4, <1>p, <1>t DEF CompleteStart
  <2>2. /\ Moves(r)
        /\ Return(h) \/ (Goto(h, "start") /\ Answer(r, "running", receipts[r].gen))
    BY <1>4, <2>1, FailStartMoves DEF CompleteStart, RefusedStart, Moves, Completes, Fails
  <2>3. ASSUME Goto(h, "start"), Answer(r, "running", receipts[r].gen) PROVE Goal
    <3>1. r \in Requests
      BY <2>1, RequestsAre
    <3>2. receipts'[r].state = "running"
      BY <2>3, <3>1, Answered
    <3>3. proc'[h].pc = "start" /\ proc'[h].req = r /\ \A k \in Handlers \ {h} : proc'[k] = proc[k]
      BY <2>3, Kept
    <3>4. HandlerOK(h)'
      BY <2>1, <3>2, <3>3 DEF HandlerOK
    <3>5. Serves(h, r)
      BY <2>1, <2>2, <3>3 DEF Serves, Serving
    <3> QED BY <3>1, <3>4, <3>5
  <2> QED BY <1>1, <2>1, <2>2, <2>3
<1>5. ASSUME StartWorker(h) PROVE Goal
  <2>1. proc[h].pc = "start" /\ r \in Starts /\ Return(h)
    BY <1>5, <1>p DEF StartWorker
  <2>2. Quiet \/ Moves(r)
    BY <1>5, <2>1, FailStartMoves DEF StartWorker, Quiet
  <2> QED BY <1>1, <2>1, <2>2
<1>6. ASSUME UnsetAutoRun(h) PROVE Goal
  BY <1>6, <1>2, Kept DEF UnsetAutoRun, Quiet
<1>7. ASSUME HaltWorker(h) PROVE Goal
  <2>1. proc[h].pc = "halt" /\ Quiet /\ Halt(h, "complete")
    BY <1>7 DEF HaltWorker, Quiet, durable
  <2>2. \/ Goto(h, "complete") \/ Return(h)
        \/ proc' = [proc EXCEPT ![h].pc = "await", ![h].task = registered]
    BY <2>1 DEF Halt
  <2>3. CASE proc' = [proc EXCEPT ![h].pc = "await", ![h].task = registered]
    <3>1. /\ proc'[h].pc = "await" /\ proc'[h].req = proc[h].req
          /\ \A k \in Handlers \ {h} : proc'[k] = proc[k]
      BY <2>3 DEF ProcTyped, Procs, Coroutine
    <3> QED BY <1>2, <2>1, <3>1
  <2> QED BY <1>2, <2>1, <2>2, <2>3, Kept
<1>8. ASSUME WorkerHalted(h) PROVE Goal
  <2>1. proc[h].pc = "await" /\ Quiet /\ (Goto(h, "complete") \/ Return(h))
    BY <1>8 DEF WorkerHalted, Waiting, Quiet, durable
  <2> QED BY <1>2, <2>1, Kept
<1>9. ASSUME CompleteStop(h) PROVE Goal
  <2>1. proc[h].pc = "complete" /\ r \in Halts /\ Return(h)
    BY <1>9 DEF CompleteStop, HandlerOK
  <2>2. Quiet \/ Moves(r)
    BY <1>9, <2>1 DEF CompleteStop, Quiet, Moves, Rests
  <2> QED BY <1>2, <2>1, <2>2, Kept
<1>10. ASSUME EndTest(h) PROVE Goal
  <2>1. proc[h].pc = "testing" /\ r \in Tests /\ receipts[r].state = "testing" /\ Return(h)
    BY <1>10 DEF EndTest, HandlerOK
  <2>2. Moves(r)
    BY <1>10, <2>1, RequestsAre DEF EndTest, CompleteTest, FailTest, Moves, TestEnds, Refuses
  <2> QED BY <1>1, <2>1, <2>2
<1> QED BY <1>3, <1>4, <1>5, <1>6, <1>7, <1>8, <1>9, <1>10 DEF HandlerStep

\* No other step touches the row, the receipts or a handler, except to end it.
LEMMA OthersAreBackground ==
  ASSUME Typed, [Next]_vars, ~Commands, ~(\E h \in Handlers : HandlerStep(h))
  PROVE  Background
<1> USE DEF Typed
<1>w. Scheduler \notin Handlers /\ Watchdog \notin Handlers
  BY ControlAssumption
<1>1. ASSUME NEW p \in {Scheduler, Watchdog}, Quiet, UNCHANGED proc \/ Return(p) \/
             \E x : \/ Goto(p, x)
                    \/ proc' = [proc EXCEPT ![p] = x]
                    \/ \E y : proc' = [proc EXCEPT ![p].pc = x, ![p].task = y]
      PROVE  Background
  BY <1>1, <1>w DEF Background, Return, Goto, ProcTyped, Procs
<1>2. ASSUME Quiet, UNCHANGED proc PROVE Background
  BY <1>2 DEF Background
<1>3. SchedulerStep => Background
  BY <1>1 DEF SchedulerStep, SchedulerStarts, SchedulerSpawns, Quiet, durable
<1>4. WatchdogHalts => Background
  BY <1>1 DEF WatchdogHalts, Halt, Quiet, durable
<1>5. WatchdogRestarts => Background
  BY <1>1 DEF WatchdogRestarts, WatchdogHalted, WatchdogStarts, WatchdogSpawns, Quiet, durable
<1>6. ScheduleFalls => Background
  BY <1>2 DEF ScheduleFalls, Quiet
<1>7. ASSUME NEW t \in Tasks, WorkerStep(t) \/ WorkerFinishes(t) \/ WorkerFails(t) PROVE Background
  BY <1>7, <1>2 DEF WorkerStep, WorkerRuns, WorkerObeys, WorkerFinishes, WorkerFails, Quiet, durable
<1>8. Crash => Background
  BY DEF Crash, Background, Quiet, durable, Procs
<1>9. UNCHANGED vars => Background
  BY <1>2 DEF vars, durable, Quiet
<1> QED BY <1>3, <1>4, <1>5, <1>6, <1>7, <1>8, <1>9 DEF Next

--------------------------------------------------------------------------------
(* Every move keeps the invariant. *)

LEMMA MovesTyped ==
  ASSUME CommandsTyped, NEW r \in Requests, Moves(r)
  PROVE  /\ CommandsTyped'
         /\ \A x \in Requests : x # r => receipts'[x] = receipts[x]
<1>1. control.gen \in Nat /\ receipts[r].gen \in Nat
  BY DEF CommandsTyped
<1>2. PICK st \in ReceiptStates, g \in Nat : Answer(r, st, g)
  BY <1>1 DEF Moves, Opens, Fails, Refuses, Completes, Rests, TestBegins, TestEnds, ReceiptStates
<1> DEFINE Rows == [gen : Nat, auto : BOOLEAN, fence : BOOLEAN, state : ControlStates]
<1>3. ASSUME Opens(r) PROVE control' \in Rows
  BY <1>1, <1>3 DEF Opens, ControlStates
<1>4. ASSUME Fails(r) PROVE control' \in Rows
  BY <1>1, <1>4 DEF Fails, ControlStates
<1>5. ASSUME Completes(r) \/ TestEnds(r) \/ TestBegins(r) \/ Rests(r) PROVE control' \in Rows
  BY <1>5 DEF Completes, TestEnds, TestBegins, Rests, Running, Rested, CommandsTyped, ControlStates
<1>6. ASSUME Refuses(r) PROVE control' \in Rows
  BY <1>6 DEF Refuses, CommandsTyped
<1>7. control' \in Rows
  BY <1>3, <1>4, <1>5, <1>6 DEF Moves
<1> QED BY <1>2, <1>7, Answered, AnswerTyped DEF CommandsTyped

\* The handlers keep to what they serve.
LEMMA HandlersKept ==
  ASSUME Typed, Handling, OneServer,
         NEW h \in Handlers, NEW r \in Requests, Serves(h, r), HandlerOK(h)'
  PROVE  Handling' /\ OneServer'
<1>1. \A x \in Requests : x # r => receipts'[x] = receipts[x]
  BY MovesTyped DEF Serves, Typed, Quiet
<1>2. ASSUME NEW k \in Handlers \ {h}, Serving(k)
      PROVE  /\ proc[k].req \in Requests /\ proc[k].req \notin Halts
             /\ receipts[proc[k].req].state # "none"
             /\ ~(Serving(h) /\ proc[h].req = proc[k].req)
  BY <1>2, RequestsAre DEF Handling, HandlerOK, Serving, OneServer
<1>3. ASSUME NEW k \in Handlers \ {h} PROVE HandlerOK(k)'
  <2>1. proc'[k] = proc[k] /\ HandlerOK(k)
    BY <1>3 DEF Serves, Handling
  <2>2. Serving(k) => receipts'[proc[k].req] = receipts[proc[k].req]
    BY <1>1, <1>2, <1>3 DEF Serves, Quiet
  <2> QED BY <2>1, <2>2 DEF HandlerOK, Serving
<1>4. ASSUME NEW k \in Handlers \ {h}, Serving(h)', Serving(k)', proc'[h].req = proc'[k].req
      PROVE  FALSE
  <2>1. proc'[k] = proc[k]
    BY <1>4 DEF Serves
  <2>2. Serving(k)
    BY <1>4, <2>1 DEF Serving
  <2>3. proc[k].req = r /\ (receipts[r].state = "none" \/ (Serving(h) /\ proc[h].req = r))
    BY <1>4, <2>1 DEF Serves, Serving
  <2> QED BY <1>2, <2>2, <2>3
<1>5. ASSUME NEW k \in Handlers \ {h}, NEW l \in Handlers \ {h},
             Serving(k)', Serving(l)', proc'[k].req = proc'[l].req
      PROVE  k = l
  BY <1>5 DEF Serves, Serving, OneServer
<1>6. Handling'
  BY <1>3 DEF Handling
<1>7. OneServer'
  BY <1>4, <1>5 DEF OneServer
<1> QED BY <1>6, <1>7

LEMMA HandlersQuiet ==
  ASSUME Handling, OneServer, Background PROVE Handling' /\ OneServer'
<1>1. \A h \in Handlers : proc'[h] = proc[h] \/ proc'[h].pc = "idle"
  BY DEF Background, Idle
<1>2. \A h \in Handlers : Serving(h)' => Serving(h) /\ proc'[h] = proc[h]
  BY <1>1 DEF Serving
<1>3. Handling'
  BY <1>1 DEF Background, Quiet, Handling, HandlerOK
<1>4. OneServer'
  BY <1>2 DEF OneServer
<1> QED BY <1>3, <1>4

Generations == Past /\ Present /\ OwnGeneration /\ RunningHasItsStart

LEMMA GenerationsQuiet ==
  ASSUME Generations, Quiet PROVE Generations'
BY DEF Generations, Quiet, Past, Present, OwnGeneration, RunningHasItsStart

\* A command that opens or closes a generation leaves all the others behind.
LEMMA NewGeneration ==
  ASSUME CommandsTyped, Generations, NEW r \in Requests, Opens(r) \/ Fails(r)
  PROVE  Generations'
<1> DEFINE Effect(st) ==
             /\ Answer(r, st, control.gen + 1)
             /\ control'.gen = control.gen + 1
             /\ control'.state = IF st = "failed" THEN "stopped" ELSE st
             /\ st \in Unfinished => (control'.fence <=> st = "stopping")
             /\ st \in {"preflight", "failed"} => r \in Starts
             /\ st = "stopping" => r \in Halts
<1>a. Fails(r) => Effect("failed")
  BY DEF Fails, Unfinished
<1>b. ASSUME NEW st \in {"preflight", "stopping"},
             (st = "preflight" /\ r \in Starts) \/ (st = "stopping" /\ r \in Halts),
             control' = [gen |-> control.gen + 1, auto |-> FALSE, fence |-> st = "stopping",
                         state |-> st],
             Answer(r, st, control.gen + 1)
      PROVE  Effect(st)
  <2>1. control'.fence <=> st = "stopping"
    BY <1>b
  <2> QED BY <1>b, <2>1
<1>1. PICK st \in {"preflight", "stopping", "failed"} : Effect(st)
  BY <1>a, <1>b DEF Opens
<1>2. /\ receipts'[r].state = st /\ receipts'[r].gen = control.gen + 1
      /\ \A x \in Requests : x # r => receipts'[x] = receipts[x]
  BY <1>1, Answered
<1>3. control.gen \in Nat /\ \A x \in Requests : receipts[x].gen \in Nat
  BY DEF CommandsTyped
<1>4. \A x \in Requests : receipts[x].gen < control.gen + 1
  BY <1>3 DEF Generations, Past
<1>5. \A x \in Requests : receipts'[x].gen = control.gen + 1 <=> x = r
  BY <1>2, <1>3, <1>4
<1>6. Past'
  BY <1>1, <1>2, <1>3, <1>4 DEF Past
<1>7. Present'
  BY <1>1, <1>2, <1>5 DEF Present, Unfinished
<1>8. OwnGeneration'
  <2>1. ASSUME NEW x \in Requests, NEW y \in Requests, x # y,
               receipts'[x].state \in Unfinished, receipts'[y].state \in Unfinished
        PROVE  receipts'[x].gen # receipts'[y].gen
    BY <1>2, <1>5, <2>1 DEF Generations, OwnGeneration
  <2>2. ASSUME NEW x \in Starts, NEW y \in Halts, receipts'[x].state \in {"preflight", "running"}
        PROVE  receipts'[x].gen # receipts'[y].gen
    BY <1>2, <1>5, <2>2, RequestsAre DEF Generations, OwnGeneration
  <2> QED BY <2>1, <2>2 DEF OwnGeneration
<1>9. RunningHasItsStart'
  BY <1>1 DEF RunningHasItsStart
<1> QED BY <1>6, <1>7, <1>8, <1>9 DEF Generations

\* A command that comes too late changes its own receipt and nothing else.
LEMMA RefusalKeeps ==
  ASSUME CommandsTyped, Generations, NEW r \in Requests, Refuses(r)
  PROVE  Generations'
<1>1. PICK st \in {"test_in_progress", "fenced_by_stop", "campaign_busy"} :
        Answer(r, st, control.gen) /\ UNCHANGED control
  BY DEF Refuses
<1>2. /\ receipts'[r].state = st /\ receipts'[r].gen = control.gen
      /\ \A x \in Requests : x # r => receipts'[x] = receipts[x]
  BY <1>1, Answered
<1>3. control.gen \in Nat /\ r \notin Halts
  BY RequestsAre DEF CommandsTyped, Refuses
<1>4. Past'
  BY <1>1, <1>2, <1>3 DEF Generations, Past
<1>5. Present'
  BY <1>1, <1>2 DEF Generations, Present, Unfinished
<1>6. OwnGeneration'
  BY <1>2, <1>3, RequestsAre DEF Generations, OwnGeneration, Unfinished
<1>7. RunningHasItsStart'
  <2>1. ASSUME control.state = "running"
        PROVE  \E x \in Starts : receipts'[x].state = "running" /\ receipts'[x].gen = control.gen
    <3>1. PICK x \in Starts : receipts[x].state = "running" /\ receipts[x].gen = control.gen
      BY <2>1 DEF Generations, RunningHasItsStart
    <3>2. x # r
      BY <3>1, RequestsAre DEF Refuses
    <3> QED BY <1>2, <3>1, <3>2, RequestsAre
  <2>2. \A x \in Stops \cup Pauses : receipts'[x] = receipts[x]
    BY <1>2, <1>3, RequestsAre DEF Halts
  <2> QED BY <1>1, <2>1, <2>2 DEF Generations, RunningHasItsStart
<1> QED BY <1>4, <1>5, <1>6, <1>7 DEF Generations

\* The command of the present generation goes on to its next state.
LEMMA NextState ==
  ASSUME CommandsTyped, Generations, NEW r \in Requests,
         Completes(r) \/ Rests(r) \/ TestBegins(r) \/ TestEnds(r)
  PROVE  Generations'
<1>1. PICK st \in {"running", "stopped", "paused", "testing", "failed"} :
        /\ Answer(r, st, control.gen) /\ control'.gen = control.gen
        /\ control'.state = IF st = "failed" THEN "stopped" ELSE st
        /\ st \in Unfinished => ~control'.fence
        /\ st = "running" => Completes(r)
        /\ st \in {"stopped", "paused", "failed"} => Rests(r) \/ TestEnds(r)
        /\ st = "testing" => TestBegins(r)
  BY DEF CommandsTyped, Completes, Rests, TestBegins, TestEnds, Running, Rested, Unfinished
<1>2. /\ receipts'[r].state = st /\ receipts'[r].gen = control.gen
      /\ \A x \in Requests : x # r => receipts'[x] = receipts[x]
  BY <1>1, Answered
<1>3. control.gen \in Nat
  BY DEF CommandsTyped
\* Nobody else is unfinished in this generation.
<1>4. ASSUME NEW x \in Requests, x # r, receipts[x].state \in Unfinished
      PROVE  receipts[x].gen # control.gen
  <2>1. CASE TestBegins(r)
    BY <1>4, <2>1 DEF TestBegins, Generations, Present, Unfinished
  <2>2. CASE Completes(r) \/ Rests(r) \/ TestEnds(r)
    <3>1. receipts[r].state \in Unfinished /\ receipts[r].gen = control.gen
      BY <2>2 DEF Completes, Rests, TestEnds, Unfinished
    <3> QED BY <1>4, <3>1 DEF Generations, OwnGeneration
  <2> QED BY <2>1, <2>2
<1>5. Past'
  BY <1>1, <1>2, <1>3 DEF Generations, Past
<1>6. Present'
  BY <1>1, <1>2, <1>4 DEF Present, Unfinished
<1>7. st \in {"preflight", "running"} => r \in Starts /\ receipts[r].state = "preflight" /\ receipts[r].gen = control.gen
  BY <1>1 DEF Completes
<1>8. OwnGeneration'
  <2>1. ASSUME NEW x \in Requests, NEW y \in Requests, x # y,
               receipts'[x].state \in Unfinished, receipts'[y].state \in Unfinished
        PROVE  receipts'[x].gen # receipts'[y].gen
    BY <1>2, <1>4, <2>1 DEF Generations, OwnGeneration
  <2>2. ASSUME NEW x \in Starts, NEW y \in Halts, receipts'[x].state \in {"preflight", "running"}
        PROVE  receipts'[x].gen # receipts'[y].gen
    <3>1. receipts[x].state \in {"preflight", "running"} /\ receipts'[x].gen = receipts[x].gen
      BY <1>2, <1>7, <2>2, RequestsAre
    <3>2. receipts'[y].gen = receipts[y].gen
      <4>1. CASE y = r
        BY <1>1, <1>2, <4>1, RequestsAre DEF Completes, Rests, TestBegins, TestEnds
      <4> QED BY <1>2, <4>1, RequestsAre
    <3> QED BY <2>2, <3>1, <3>2 DEF Generations, OwnGeneration
  <2> QED BY <2>1, <2>2 DEF OwnGeneration
<1>9. RunningHasItsStart'
  <2>1. CASE st = "running"
    <3>1. r \in Starts /\ receipts[r].state = "preflight" /\ receipts[r].gen = control.gen
          /\ control' = Running /\ ~control.fence
      BY <1>1, <2>1 DEF Completes
    <3>2. control'.auto /\ ~control'.fence
      BY <3>1 DEF Running, CommandsTyped
    <3>3. ASSUME NEW x \in Halts PROVE receipts'[x].gen < control'.gen
      <4>1. x \in Requests /\ x # r /\ receipts[x].gen \in Nat
        BY <3>1, <3>3, RequestsAre DEF CommandsTyped
      <4>2. receipts[x].gen # control.gen /\ receipts[x].gen <= control.gen
        BY <3>1, <3>3, <4>1 DEF Generations, OwnGeneration, Past
      <4> QED BY <1>1, <1>2, <1>3, <4>1, <4>2
    <3> QED BY <1>1, <1>2, <2>1, <3>1, <3>2, <3>3 DEF RunningHasItsStart, Halts
  <2>2. CASE st # "running"
    BY <1>1, <2>2 DEF RunningHasItsStart
  <2> QED BY <2>1, <2>2
<1> QED BY <1>5, <1>6, <1>8, <1>9 DEF Generations

LEMMA MovesKeep ==
  ASSUME CommandsTyped, Generations, NEW r \in Requests, Moves(r) PROVE Generations'
BY NewGeneration, RefusalKeeps, NextState DEF Moves

--------------------------------------------------------------------------------
(* The theorems *)

LEMMA ControlStart == Init => ControlInv
<1> SUFFICES ASSUME Init PROVE ControlInv
  OBVIOUS
<1>1. /\ control = [gen |-> 0, auto |-> FALSE, fence |-> FALSE, state |-> "stopped"]
      /\ \A r \in Requests : receipts[r].state = "none" /\ receipts[r].gen = 0
      /\ \A h \in Handlers : proc[h].pc = "idle"
  BY DEF Init, Procs, Idle
<1>2. CommandsTyped
  BY DEF Init, CommandsTyped, ControlStates, ReceiptStates
<1>3. RuntimeTyped /\ ProcTyped /\ FlagsTyped
  <2>1. RuntimeTyped
    BY DEF Init, RuntimeTyped, TaskStates
  <2>2. ProcTyped
    BY DEF Init, ProcTyped, Coroutine, ProcStates, Idle
  <2>3. crashes \in 0..MaxCrashes
    BY ControlAssumption DEF Init
  <2>4. FlagsTyped
    BY <2>3 DEF Init, FlagsTyped
  <2> QED BY <2>1, <2>2, <2>4
<1>4. Handling /\ OneServer
  BY <1>1 DEF Handling, HandlerOK, OneServer, Serving
<1>5. Past /\ Present /\ OwnGeneration /\ RunningHasItsStart
  BY <1>1, RequestsAre DEF Past, Present, OwnGeneration, RunningHasItsStart, Unfinished
<1> QED BY <1>2, <1>3, <1>4, <1>5 DEF ControlInv, Typed

\* Every step is one command's move, or touches neither the row nor a receipt.
LEMMA StepServes ==
  ASSUME ControlInv, [Next]_vars
  PROVE  \/ \E h \in Handlers, r \in Requests : Serves(h, r) /\ HandlerOK(h)'
         \/ Background
<1>1. CASE Commands
  BY <1>1, CommandServes DEF ControlInv
<1>2. CASE \E h \in Handlers : HandlerStep(h)
  BY <1>2, HandlerServes DEF ControlInv, Handling
<1>3. CASE ~Commands /\ ~(\E h \in Handlers : HandlerStep(h))
  BY <1>3, OthersAreBackground DEF ControlInv
<1> QED BY <1>1, <1>2, <1>3

LEMMA StepMoves ==
  ASSUME ControlInv, [Next]_vars PROVE Quiet \/ \E r \in Requests : Moves(r)
BY StepServes DEF Serves, Background

LEMMA ControlStep == ControlInv /\ [Next]_vars => ControlInv'
<1> SUFFICES ASSUME ControlInv, [Next]_vars PROVE ControlInv'
  OBVIOUS
<1>1. Typed /\ Handling /\ OneServer /\ Generations /\ CommandsTyped
  BY DEF ControlInv, Generations, Typed
<1>2. Generations' /\ CommandsTyped'
  <2>1. CASE Quiet
    BY <1>1, <2>1, GenerationsQuiet DEF Quiet, CommandsTyped
  <2>2. CASE \E r \in Requests : Moves(r)
    BY <1>1, <2>2, MovesKeep, MovesTyped
  <2> QED BY <2>1, <2>2, StepMoves
<1>3. RuntimeTyped' /\ ProcTyped' /\ FlagsTyped'
  BY <1>1, RestTyped
<1>4. Handling' /\ OneServer'
  BY <1>1, StepServes, HandlersKept, HandlersQuiet
<1> QED BY <1>2, <1>3, <1>4 DEF ControlInv, Typed, Generations

LEMMA ControlInvariant == Spec => []ControlInv
BY ControlStart, ControlStep, PTL DEF Spec

\* The control row, the receipts, the tasks and the coroutines keep their types;
\* the registry and the pool name tasks that were created.
THEOREM ControlTypeCorrect == Spec => []ControlTypeOK
<1>1. ControlInv => ControlTypeOK
  BY TypedIsTypeOK DEF ControlInv
<1> QED BY <1>1, ControlInvariant, PTL

\* A campaign is running only for a Start of the present generation, with the
\* switches workers look at set accordingly, after every Stop and Pause.
THEOREM CampaignHasItsStart == Spec => []RunningHasItsStart
<1>1. ControlInv => RunningHasItsStart
  BY DEF ControlInv
<1> QED BY <1>1, ControlInvariant, PTL

\* A Stop's fence falls only to a newer Start, or to a test begun at rest.
THEOREM FenceHolds == Spec => FenceIsKept
<1> DEFINE Lawful == control.fence /\ ~control'.fence =>
               \/ control'.gen > control.gen /\ control'.state = "preflight"
               \/ control.state \in {"stopped", "paused"} /\ control'.state = "testing"
<1>1. ASSUME ControlInv, [Next]_vars PROVE Lawful
  <2>1. control.gen \in Nat
    BY <1>1 DEF ControlInv, Typed, CommandsTyped
  <2>2. CASE Quiet
    BY <2>2 DEF Quiet
  <2>3. ASSUME NEW r \in Requests, Opens(r) \/ Fails(r) PROVE Lawful
    <3>1. control'.gen = control.gen + 1 /\ (control'.fence \/ control'.state = "preflight")
      <4>1. ASSUME NEW st \in {"preflight", "stopping"},
                   control' = [gen |-> control.gen + 1, auto |-> FALSE,
                               fence |-> st = "stopping", state |-> st]
            PROVE  control'.gen = control.gen + 1 /\ (control'.fence \/ control'.state = "preflight")
        <5>1. CASE st = "stopping"
          BY <4>1, <5>1
        <5>2. CASE st = "preflight"
          BY <4>1, <5>2
        <5> QED BY <5>1, <5>2
      <4>2. Fails(r) => control'.gen = control.gen + 1 /\ control'.fence
        BY DEF Fails
      <4> QED BY <2>3, <4>1, <4>2 DEF Opens
    <3> QED BY <2>1, <3>1
  <2>4. ASSUME NEW r \in Requests, Refuses(r) \/ Completes(r) PROVE Lawful
    BY <2>4 DEF Refuses, Completes
  <2>5. ASSUME NEW r \in Requests, Rests(r) \/ TestBegins(r) PROVE Lawful
    BY <1>1, <2>5 DEF Rests, TestBegins, ControlInv, Typed, CommandsTyped
  <2>6. ASSUME NEW r \in Requests, TestEnds(r) PROVE Lawful
    <3>1. receipts[r].state = "testing" /\ receipts[r].gen = control.gen
      BY <2>6 DEF TestEnds
    <3>2. ~control.fence
      BY <1>1, <3>1 DEF ControlInv, Present, Unfinished
    <3> QED BY <3>2
  <2> QED BY <1>1, <2>2, <2>3, <2>4, <2>5, <2>6, StepMoves DEF Moves
<1>2. ControlInv /\ [Next]_vars => [Lawful]_vars
  BY <1>1
<1> QED BY <1>2, ControlInvariant, PTL DEF Spec, FenceIsKept

\* A command reports success only for the generation the row has then.
THEOREM NewestSucceeds == Spec => NewestCompletes
<1> DEFINE Newest ==
      \A r \in Requests :
         receipts'[r] # receipts[r] /\ receipts'[r].state \in {"running", "stopped", "paused"}
           => receipts'[r].gen = control'.gen
<1>1. ASSUME ControlInv, [Next]_vars PROVE Newest
  <2>1. CommandsTyped
    BY <1>1 DEF ControlInv, Typed
  <2>2. CASE Quiet
    BY <2>2 DEF Quiet
  <2>3. ASSUME NEW r \in Requests, Moves(r) PROVE Newest
    <3>1. \A x \in Requests : x # r => receipts'[x] = receipts[x]
      BY <2>1, <2>3, MovesTyped
    <3>2. PICK st, g : /\ Answer(r, st, g)
                       /\ st \in {"running", "stopped", "paused"} => g = control'.gen
      <4>1. CASE Opens(r) \/ Fails(r) \/ Refuses(r)
        BY <4>1 DEF Opens, Fails, Refuses
      <4>2. CASE Completes(r) \/ Rests(r)
        BY <2>1, <4>2 DEF Completes, Rests, Running, CommandsTyped
      <4>3. CASE TestBegins(r) \/ TestEnds(r)
        BY <2>1, <4>3 DEF TestBegins, TestEnds, Rested, CommandsTyped
      <4> QED BY <2>3, <4>1, <4>2, <4>3 DEF Moves
    <3>3. receipts'[r].state = st /\ receipts'[r].gen = g
      BY <2>1, <3>2, Answered
    <3> QED BY <3>1, <3>2, <3>3
  <2> QED BY <1>1, <2>2, <2>3, StepMoves
<1>2. ControlInv /\ [Next]_vars => [Newest]_vars
  BY <1>1
<1> QED BY <1>2, ControlInvariant, PTL DEF Spec, NewestCompletes
================================================================================

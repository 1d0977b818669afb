# Verification of the MAX campaign sender

TLA+ models of the part of this repository that decides *whether, when and how
often a message is sent* (the durable operation ledger, the weekly send path
with its worker, the campaign commands that start and fence that worker), of
*what it sends with and where to* (the logins of an account, its session files,
the clients that use them, onboarding, work groups and destinations), and of the
tenants it does so for (their registration and deletion, the sessions of their
users, their subscriptions). TLC checks the models on small instances; TLAPS
proves theorems about all of them for every instance.

## The system

A tenant owns accounts (profiles), groups and a message library. One asyncio
process serves HTTP, runs one campaign worker per tenant, a scheduler tick, and
a watchdog. State lives in one SQLite file per tenant; the provider (MAX) is
reached through a client that is decrypted, connected, used and resealed for
every send.

| Component | State | Operations | Hard behaviour | Correct when |
|---|---|---|---|---|
| Operation ledger (`app/repositories/operations.py`, `app/services/operations.py`) | operations, attempts, accounting, command receipts | create, claim, mark_in_flight, mark_failed_unsent, retry, mark_unknown, mark_accepted, recover | late, repeated and reordered calls; restarts | one network attempt per operation, final outcomes final, accounting exact |
| Send path (`app/campaign_send.py`) | `SendTracker`, send_log | send_with_retry, recording an outcome | cancellation at each await, retries, failed local writes, errors after the acknowledgement | nothing that may have been sent is sent again |
| Weekly schedule (`app/repositories/weekly_schedule.py`) | weekdays, proxies, one slot per account and week | materialise, expire, claim, recover, settle | restarts, midnights, a second owner | a slot offered again was not sent |
| Worker, scheduler, watchdog (`app/campaign_worker.py`, `app/campaign_runtime.py`) | worker task, pool, queue_state | start_worker, stop_worker, tick | awaits between check and use | one worker, and none behind a fence |
| Campaign commands (`app/routes_campaign.py`) | control row, receipts, auto_run, schedule | Start, Stop, Pause, Test, schedule | overlapping and re-sent requests, process deaths | a command overtaken by a newer one changes nothing |
| Auth attempts and login (`app/services/auth_attempts.py`, `main.py`, `app/routes_profiles.py`) | attempts, rows, input queues, login tasks | start, code, password, cancel, reset, delete, expire | late provider answers, expiry, restarts | one live attempt per profile; a dead attempt never logs in |
| Client manager, vault (`app/services/client_manager.py`, `app/vault.py`) | client leases, sealed and plain session files | acquire, release, delete, migrate | delete against a pending acquire, crash between files | one client per account; a deleted session stays deleted, another is never lost |
| Shutdown (`app/shutdown.py`) | phase, what ran out of time | stop workers, cancel logins, drain, reseal | time-outs while jobs still work | nothing is left open when no step was late |
| Gateway, policy, recovery hold | hold flag, capabilities | guarded calls | stale permission | no external action while held |
| Onboarding (`app/routes_onboarding.py`, `app/repositories/onboarding.py`) | invites, locators, visitors' sessions, sign-ins, promotions | create, join, start, code, password, check membership, clean up, recover | owner's changes during a check, half promotions, a cleanup thread | who is let in is a member of the present destination, within the invite's limit |
| Groups, work scope, assignments (`app/routes_groups.py`, `app/repositories/automation_scope.py`, `weekly_schedule.py`) | links, confirmed chats, work groups, weekdays, proxies | add, link, unlink, delete, select, verify, migrate, assign | changes between the claim of a job and its call, ids given again | a send goes to a chat its owner confirmed for that link |
| Tenants, users, subscriptions (`app/routes_admin.py`, `app/db_pg.py`, `app/auth.py`, `app/subscription_jobs.py`) | rows, directories, token versions, revoked tokens, session cache, expiries | register, delete, act for, log in and out, extend, revoke, tick | two databases and a disk without a common transaction, a cache, a loop once an hour | a failed deletion loses nothing and still ends sessions; a campaign the loop has noted as expired is stopped |
| Connections | connection rows | CRUD | | |
| Pacing, message bag | counters, breakers, bag | note success and failure, draw, restore | restored claims | every message once per round |
| Daily plans (legacy) | plans and slots | allocate, reserve | superseded | allocation within limits |
| Proxy probing, backups, monitoring, web pages | | | | |

Interaction: a command writes the control row (a *generation* and a *fence*)
and calls `start_worker` or `stop_worker`; the worker task polls the control
before every claim; it claims a slot, runs `send_with_retry` over the ledger and
writes the slot. A manual test does the same from its request handler. The
scheduler and the watchdog call the same functions as the commands.

## Modules

| Module | What it is |
|---|---|
| `OperationLedger` | the ledger's four tables; one action per repository method (each is one `BEGIN IMMEDIATE` transaction), under the most general client |
| `SendPipeline` | slots, send log, worker, test, `send_with_retry`; EXTENDS the ledger and calls its actions |
| `WeeklyPromise` | the abstract specification: each slot is called at most once, then delivered or given up |
| `SendPipelineRefinement` | the mapping under which `SendPipeline` implements `WeeklyPromise` |
| `SendPipelineProofs` | TLAPS proofs about the ledger and the pipeline, that implementation included |
| `CampaignControl` | commands, generation fence, worker tasks, scheduler and watchdog |
| `CampaignControlProofs` | TLAPS proofs about it |
| `LoginAttempts` | an account's login attempts, their rows, requests and tasks |
| `LoginAttemptsProofs` | TLAPS proofs about them |
| `SessionFiles` | an account's session files under logins, sends, an onboarding promotion, crashes and recovery |
| `SessionFilesProofs` | TLAPS proofs about them |
| `Onboarding` | invites, visitors, sign-ins, the membership check and its promotion, the cleanup thread |
| `OnboardingProofs` | TLAPS proofs about them |
| `WorkScope` | groups, destinations, the accounts linked to them, weekdays and proxies, under owners' handlers and two senders |
| `WorkScopeProofs` | TLAPS proofs about them |
| `ClientLeases` | jobs and their clients, the deletion of a profile's runtime, claims of a MAX account, the shutdown |
| `ClientLeasesProofs` | TLAPS proofs about them |
| `Tenancy` | tenants on disk and in PostgreSQL, sessions, subscriptions |
| `TenancyProofs` | TLAPS proofs about them |
| `MC...` | small instances |

The ledger is composed into the pipeline by EXTENDS. The control and the pipeline
share `start_worker` and `stop_worker`, each with the detail its questions need;
`SessionFiles` refines what is one step, `Connect`, in the pipeline and `GetClient`
to the end of the task in `LoginAttempts`. `ClientLeases` refines the same step from
the side of the locks, for several accounts and tenants; `Onboarding` has the
promotion whose files are in `SessionFiles`; `WorkScope` decides the destination of
the pipeline's call and the weekday that is a constant there.

### OperationLedger

`ops`, `attempts`, `accounting`, `receipts` are the tables of the same purpose.
Operation ids are 1..MaxOps in the order of `created_at`, which is the order
`find_retryable_for_slot` and `recover_claimed_slots` sort by. A method that
raises is rolled back, hence no step; `Can...` operators are the conditions
under which it does not raise. Texts, hashes, scopes and timestamps are left
out: they take no part in any decision but equality with what the same caller
stored. `recover_in_flight` is a sequence of `mark_unknown` transactions and is
one step here; a death half-way leaves rows in flight, which is the state it
started from for those rows, and it runs again at the next start.

### SendPipeline

The program is one event loop: a step ends at a commit or an await. `Synchronous`
names the control points where the code commits and goes on without an await, so
that no other coroutine may run there, though the process may die. `send[q]` is
the coroutine of a sender: its control point, its job, and its `SendTracker`
(`outcome`, `requeue` for `may_requeue`, `acked` for a provider message id).

| Action | Code |
|---|---|
| `StartWorker`, `SpawnWorker` | `start_worker` before and after its proxy preflight: materialise, recover operations, recover slots, read the control again |
| `WorkerClaims`, `WorkerFindsNothing` | `_claim_next_job_sync`, `_claim_weekly_job_sync` |
| `BeginSend`, `ClaimCreated`, `RefuseSend` | `_start_send_operation`: guard, resume or create (first commit), claim (second commit) |
| `Connect`, `ConnectFails`, `RetrySend`, `ReviewRequired` | the attempt before the boundary, and its error branches |
| `CallProvider` | `mark_in_flight`, then the request leaves |
| `ProviderAcks`, `SendFails`, `ClientReturns` | acknowledgement; time-out or error; the end of `_with_client`, clean or not |
| `RecordOutcome`, `FinalizeJob` | `_persist_send_outcome`; `_finalize_weekly_job` and the end of the round |
| `CancelWorker`, `Crash`, `NewDay` | `stop_worker`'s cancellation at any await; process death; midnight |
| `TestBegins`, `TestClaims` | `campaign_test` |

The pool has one worker because `_pool_size` returns 1. `calls` is a history
variable: the provider requests really made. `Swallow` models a local write
whose failure the code ignores (`MaxFaults` of them); an `in_flight` or an
`accepted` write that fails raises, and is the failure branch of its action.
`Weekday` is a constant: the assignment is made once and sticks. The week has
two days in the instances; nothing in the code depends on seven.

There is one `Worker`, and what is said of the pipeline is said of a tenant that has
one. `CampaignControl!OneWorker` shows that the code may come to have two
(`campaign_worker.py:1216`). A second sender beside the worker is in `pipeline_test`,
the manual test: it meets the worker's slot, operation and recovery in every order,
and one call per slot is checked of it. Two workers would meet in the same places, and
then `SettledAgreesWithLedger` would fail for a while, as it does beside a test.

### CampaignControl

`control` is the row of `campaign_control`, `receipts` the state and generation
of each command receipt, `tasks` every worker task ever created, `registered`
and `pool` the fields of `CampaignRuntime`. Handlers are HTTP requests; a
request id may be served again at any time, as clients retry. `ready` and
`TurnOver` model one detail of asyncio on which real races depend: the waiter of
a finished task is woken in the *next* turn of the loop, so other ready
coroutines run once in between, but no freshly created task does. A task cancelled
before its first step never runs its body (`stillborn`).

The control row is assumed to exist, and readiness to be satisfied: a Start that
is refused by a check before `begin_start` changes nothing. The scheduler's
first, lock-free proxy preflight is a delay before the check that `start_worker`
repeats, and is merged with it. The campaigns table is left out; subscriptions are
in `Tenancy` and the shutdown in `ClientLeases`.

### LoginAttempts

`attempts`, `active` and `starts` are the dictionaries of `AuthAttemptStore`,
`rows` the table `auth_attempts`, `session` the entry of `_auth_sessions`, whose
`attempt` is what every helper without an attempt id acts on; `tasks[a]` is where
the login task of attempt `a` is. An attempt has a deadline (`late`), and it
expires only when it is looked up (`Seen`), as in the code. An input in a queue is
the attempt it was submitted for. A request id may be served again at any time.
`Slips` turns on two behaviours of the code after which the session may name
another attempt than the one whose login is running: "resend" (an input is
answered from the receipt of an earlier attempt) and "reset" (`reset_login` clears
the session after its await). The passing run has both on.

The account's cooldown and the circuit breaker only delay a login; MAX banning the
account ends a login like any failure. Both are left out.

### SessionFiles

`files` is what is in `session.db`, `session.db.enc` and their
`.reauth-previous` backups: nothing, a session without a token ("blank", also a
half-written file), or the operation whose login made the token. SQLite's `-wal`
and `-shm` files move with `session.db`. `script` holds the file operations the
event loop does without an await: no coroutine runs between them, but the process
may die there, and the cleanup thread may run. The four kinds of operation are a
login by SMS (`Fresh`), a login with the session there is (`Saved`), a send, and
the promotion of an onboarding session. `Answered` models one turn of the loop:
a cancelled wait for the lock ends before the next answer from the network.
Failures of single file operations are left out.

### Onboarding

`rows` is `onboarding_sessions`, `invites` and `locators` the invite in the tenant's
database and in PostgreSQL, `runtime` and `task` the entries of `_AUTH_RUNTIME` and
`_AUTH_TASKS`, `check` a `check-membership` handler, which holds its session's lock.
Its steps are those of `_check_membership_and_finalize`: the session is decrypted
(`BeginCheck`), the chat looked up over the network (`Connect`, `Proved`), the profile
looked up by phone or made, the old session moved aside, the new one promoted and
validated online, then settled in one transaction (`Settle`), which looks at the profile
by its id and no longer at the phone. `CleanupReads`, `CleanupWrites` and the steps that
prune are the thread of `onboarding_cleanup_loop`, which decides from rows it read
earlier. A sign-in's provider may ask for a password or fail at any time.

`temp` is the directory of a visitor's session. A sign-in and a check of one session
write the same two files: the check decrypts `session.db.enc` to `session.db`, and at
its end encrypts what is in `session.db` then over `session.db.enc` and unlinks it, while
a sign-in may be writing there. `profiles`, `store` and `locks` are the rows of the
phones, the sessions of the ids and which lock of an id is the present one: SQLite gives
the id of a deleted profile to the next (`sqlite_backend.py:133` has no AUTOINCREMENT),
the owner may delete a profile at any moment, and a deletion drops the id's lock, so that
a check that waits for it may hold an old lock beside a newer check of another phone.

Two history variables name what the code does not keep. `crossed`, in a check, says that
its profile's row or files were taken from it since it proved the account: by the owner,
the cleanup, another check's undoing, or because one of these was still at work under
the id's former lock when it came. `left` has the sessions whose row no longer says what
to undo: a cleanup that had read the row earlier took the profile out of a promotion in
progress, or the database refused the undoing's deletion of the profile (consents and
sessions refer to it).

### WorkScope

`group`, `books` and `scope` are the tables, `send` the job of the worker and of the
manual test from its claim to its call. Owners' handlers need the campaign idle
(`_require_worker_idle`), as in the code, and what they do up to their first await is
one step; the deletion of orphans goes on afterwards, one account at a time
(`orphans`). `confirmed` and `chosen` are history: what the owner really confirmed
for which link, and whom they chose the group for. They are what a verified flag and
a migrated scope are compared with. `RouteVisitor` and `Enrol` have the assignment that
onboarding makes itself when a visitor's profile has none (`_onboarding_proxy`): the
weekday as everywhere, and the first proxy of the group's list rather than the least
loaded. A profile that a failed check deletes again leaves its assignment behind, for
the next profile of that id. The database refuses to delete profiles that consents refer
to; the model deletes them too, and has more behaviours than the code there.

### ClientLeases

`job` is where each send, test or login is in `_with_client`: waiting for the
profile's lock, opened (the session is decrypted), queued for the client manager,
leased, closing, closed. `life` counts deletions of a runtime: each drops the
profile's lock, so jobs of two lives do not exclude each other. A job may be cut
(cancelled) at any await, and since `cancel_login` forgets the task before it waits for
its end (`main.py:1191`), a second login may begin beside a cancelled one. The first
orphan of a deleted group is deleted while the campaign is idle; the next ones after an
await, without another look (`routes_groups.py:536`).

A check (`Checks`) is onboarding's promotion from the profile's lock on: it moves the
session `aside` (`moved` is what of it), installs the visitor's, validates it as a client
like any other, and either activates the profile or puts back what it moved. It claims no
MAX account: `onboarded` has the profiles that are active in this way without a claim.
Deletions and checks meet as in the code. `kept` has the profiles whose row outlived the
deletion of their runtime.

The shutdown's phases each end or run out of time (`late`); the last one seals what it
finds, and is late as well when it passes over a session it cannot seal
(`main.py:3727`). The step that cancels visitors' sign-ins (`shutdown.py:137`) waits for
tasks that have no job and no file here.

### Tenancy

`row` and `version` are PostgreSQL's, `live` and `aside` the directories `<id>` and
`<id>.deleting`: which of the databases made for the tenant is in them. `deletion[d]`
is where request `d` is in `delete_user`. Whatever runs in the context of a tenant
makes its directory when it is missing (`Touch`), so a directory may come back in the
middle of a deletion. `asking[k]` is an answer of `validate_token_session` on its way
into the cache; it becomes "late" when the cache is cleared meanwhile. `paid` and
`recent` are subscriptions: an extension is of at least a day, so that a round comes
before it runs out. A round of the hourly loop (`Round`) begins by finding tenants whose
subscription has expired (`due`, any subset of them: the code asks for the last 25 hours,
`subscription_jobs.py:80`, so that one which expired before the process came up may never
be found), and looks at them one after the other; while it waits for a worker to end
(`ending`) everything else goes on, and only then is the tenant noted (`stopped`). An
error ends the round. `start` is a Start that has passed its check of the subscription.
Reads of one validation are one step.

## Runs

| Run | Question | Bounds |
|---|---|---|
| `ledger` | does any order of calls break the ledger? | 2 operations, accounts, slots, requests, provider ids; 1 retry |
| `pipeline` | is a slot sent at most once, settled, and do slot, ledger, tracker and log agree, whatever is retried, cancelled or killed; is `WeeklyPromise` implemented? | 1 account, 2 weeks, 3 operations, 3 tries, 1 crash |
| `pipeline_faults` | and when a local write fails? | 2 accounts, 2 operations, 2 tries, 1 crash, 1 failure |
| `pipeline_test` | and when a manual test overlaps the worker? | 1 test, 3 operations, 2 tries, 1 crash |
| `control` | does the fence hold among overlapping commands, across a crash and failing workers? | 2 Starts, 1 Pause, 1 Test, 2 concurrent requests, 2 tasks, 1 crash |
| `control_forgotten` | does every worker end behind a fence, one that nobody has registered any more included? | 2 Starts, 1 Stop, 2 concurrent requests, 3 tasks |
| `login` | can overlapping logins of an account mix up their attempts, rows or inputs? | 2 attempts, 2 start and 2 input requests, 1 password, 1 restart |
| `session_files` | can an account lose its session, or a failed login leave another one? | 2 fresh and 1 saved login, 1 send, 1 promotion, 1 crash, no cleanup beside the event loop |
| `onboarding` | can a visitor get in by an old destination, for another account, or beyond the limit; is a half promotion undone? | 2 visitors, 2 phones (1 known), 2 ids, 2 chats, 2 invites of 1 use, 2 sign-ins, 1 event |
| `scope` | does a send go where its owner said, and do assignments stick? | 2 accounts, 2 ids, 2 groups, 2 chats, 2 proxies, 2 weekdays, 4 events |
| `leases` | who may use a session at the same time, after a deletion, during a shutdown? | 2 profiles of one MAX account, 1 send, 1 test, 2 logins, 1 onboarding check, 3 jobs of these, 1 deletion |
| `tenancy` | can a tenant lose its files, an ended session be let in, an unpaid campaign run? | 2 tenants, 2 tokens, 2 deletions, 3 databases, 5 events |

Why the bounds are enough. An operation's life is a handful of transitions and
operations meet only through their slot and account: two operations of one slot
and one of another week is every way they can. The retry bound is reached (the
budget is exhausted, and refused) in each run. A crash is only interesting
between two commits of one job; two crashes compose through the state the first
leaves, which the next start normalises. The command generation is the only
thing that grows in `CampaignControl`, and it grows with the receipts, of which
there are finitely many; two concurrent handlers beside the two background loops
already give every pair of overlapping calls. A worker is forgotten when a Stop waits
for an older task, a newer Start registers its own meanwhile, and the Stop's tail then
clears the register: two Starts, a Stop and a third task, which the scheduler or the
Start makes beside the forgotten one, are what this takes, and `control_forgotten` has
them. It has no crash: a crash ends every task.

Two attempts are enough for logins because the store keeps one current attempt
and everything older is alike: finished, in memory or only in its row. Session
files are used by one client at a time; two fresh logins beside a promotion give
every order of moving aside, restoring and discarding, and a second crash starts
from what the first left, since nothing of an operation survives in memory.

An *event* of the last four runs is something that comes from outside: a request of
an owner or administrator, a login, a lapse of time, a process death. The steps that
follow from it are not bounded. One event during an onboarding meets every point of a
check and a sign-in; four in `scope` are a change of the link, a confirmation, a
deletion and a new account; five in `tenancy` are a login, its use, two deletions and
a restart, or a start, an extension, an expiry and two rounds of the loop.

Deadlock is not checked in `CampaignControl`, `LoginAttempts`, `SessionFiles` and
`Onboarding`: with every request answered the system rests. In the others it is
checked.

### Properties

*Ledger*: `OneNetworkAttempt`, `AccountingExact`; `FinalForever` about steps.
*Pipeline*: `OneCallPerWeek` (the central one), `SettledAgreesWithLedger`,
`ClaimedIsSettled` (liveness), `PromiseKept` (refinement). *Control*:
`RunningHasItsStart`, `FenceIsKept`, `NewestCompletes`, `FencedWorkersEnd`
(liveness). *Login*: `OneOpenAttempt`, `InputReachesItsLogin`, `CancelledStaysOut`.
*Session files*: `WorkKeepsSession` (the central one), `FailureRestores`.
*Onboarding*: `ProvedForCurrentDestination`, `InstalledIsProved`,
`HalfPromotionsAreUndone`; that an invite is not used beyond its limit is part of
its type. *Scope*: `VerifiedWasConfirmed`, `NoSilentRedirect`, `ApprovalHolds`,
`AssignmentsStick`. *Leases*: `OneOwner`, `DeletedStaysDeleted`, `SealedAtExit`.
*Tenancy*: `KeepsFiles`, `SessionsEnd`, `ClearedStaysCleared`, `ExpiredIsStopped`.
Each is stated in words above its definition, and each has a mutant: a plausible
bug (an operator that stands above the one it replaces, marked "Mutant") under
which TLC finds it violated.

With a test running beside a worker, `SettledAgreesWithLedger` does not hold at
every moment: recovery may requeue the slot the test holds, and the ledger guard has
to refuse the second send. So `pipeline_test` checks the effect.

### Fairness

`SendPipeline`: ready coroutines run, and the scheduler tick starts the worker
while the control says running. Weak fairness of each sender's step does not
choose between a send's outcomes, so a provider that never acknowledges is
allowed; the send times out in the code, which is what makes the step fair.
`CampaignControl`: weak fairness of each handler, of the scheduler, of the
watchdog once it has begun, and of a task that has been told to stop. Nothing is
assumed about commands, crashes, the watchdog's alarm or workers' own endings.
The other modules state no liveness: every wait in them ends by a time-out of the
code, which the models allow at any time, so that fairness would only restate it.

### Met while modelling

Statements the code does not keep. The definitions named here are in the modules and
no run checks them; TLC finds each violated with the constants given.

| Definition | What happens | With |
|---|---|---|
| `SendPipeline!LeftoverIsReconciled` | the process dies after an operation is claimed and before it is in flight; `recover_in_flight` does not look at it, `send_block_reason` counts it, and its slot is never offered again (`weekly_schedule.py:297`; `campaign_send.py:469` says recovery can reconcile it) | `FairSpec`, the bounds of `pipeline` |
| `CampaignControl!OneWorker` | Stop awaits its task, a newer Start registers another, Stop forgets that one, the scheduler starts a second beside it (`campaign_worker.py:1216`; `docs/adr/001-tenant-worker-isolation.md:18`) | 2 Starts, 1 Stop, 3 tasks |
| `LoginAttempts!LoginKeepsItsAttempt` | a code of a cancelled attempt is sent again while a newer login runs; the session names the cancelled attempt from then on (`main.py:1447`) | `Slips = {"resend"}` |
| `SessionFiles!RestoredIsThere` | the cleanup meets a promotion that is in progress and then fails; both restore the old session, and the later one unlinks it first (`routes_onboarding.py:768`). It fails as well when the process dies after the restoring and before the row is written | `MaxCleanups = 1`, or `MaxCrashes = 1` |
| `Onboarding!CleanupSparesLive` | every ten minutes the cleanup marks each sign-in in progress as interrupted, and then cancels it, although "abandoned" ones are meant (`routes_onboarding.py:762`, `:817`) | the bounds of `onboarding` |
| `Onboarding!UsedOncePerSession` | the cleanup reads the row of a promotion in progress and, after it has completed, sets it back to `waiting_membership`; checked again, the session uses the invite twice for its one consent (`routes_onboarding.py:779`, `onboarding.py:275`) | `MaxUses = 2` |
| `Onboarding!NoHalfIsLeft` | the database refuses to delete the profile that a failing promotion made, since consents and sessions refer to it, and the row stays `promoted`; or the cleanup reads a row, the promotion goes on, the cleanup writes the row back without its profile, and the process dies: recovery looks for rows with a profile and undoes nothing (`routes_onboarding.py:939`, `:768`) | the bounds of `onboarding`; `MaxEvents = 2` for the second |
| `Onboarding!SettlesWhatItProved` | the owner deletes the profile during a check, or its id goes to another phone's profile; the last transaction looks at the id alone and activates what it finds (`routes_onboarding.py:953`) | the bounds of `onboarding` |
| `WorkScope!TestUsesApprovedRevision` | a manual test outlives a Stop; its owner confirms another destination; the test sends to the old one (`routes_campaign.py:1173`) | the bounds of `scope` |
| `ClientLeases!AccountIsExclusive` | onboarding activates a profile with the visitor's session and claims nothing, so that a profile of another tenant may hold the claim and work with the same MAX account (`routes_onboarding.py:956`; `main.py:3004` "Claim a MAX identity globally in server mode before activation", `tests/test_automation_identity_v2.py:1`) | the bounds of `leases` |
| `ClientLeases!DeletionDrains` | a job that has decrypted the session and holds no lease yet does not keep the deletion from removing the files and the lock (`client_manager.py:175`, `main.py:1253`) | the bounds of `leases` |

Also: two owners of one operation and a lost
`mark_unknown` make the provider call twice, because `mark_in_flight` lets the
second through (`operations.py:264`), which the constants of `pipeline_test` with
`MaxFaults = 1` show: test, Stop, Start and a swallowed database error send a slot
twice; a worker task that ended in an exception
makes `stop_worker` raise and the control stays `stopping`, and `stop_all_workers`
stop at it (`campaign_worker.py:1213`); a due schedule is skipped unless the control
says running already (`campaign_worker.py:1018`); a second Start is refused as busy
and, being failed, fences the running campaign (`routes_campaign.py:219`); after a
process death during a fresh login its backups refuse every later fresh login
(`main.py:1113`); a fresh login moves files aside without the client lock and can
leave an unsealed `session.db` (`main.py:2072`); the log row of a first failed round
stays when the resumed operation is accepted (`campaign_send.py:217`); an error
while closing the client after the acknowledgement is logged as `unknown` although
the ledger says accepted (`campaign_send.py:678`); an acknowledgement after
Sunday's midnight is counted in the next week (`weekly_schedule.py:272`);
re-sending a completed Pause stops the campaign running by then
(`routes_campaign.py:1048`); a process death during a test leaves the control at
`testing` until a Stop (`routes_campaign.py:303`); an account linked again while its
runtime is deleted stays active without session and claim (`routes_groups.py:76`),
and another tenant may then claim its MAX account; unlinking an account cancels only its legacy daily slots
(`routes_groups.py:126`); a new work group chosen after today's slot was made loses
that week; when the deletion of a group's orphans fails half way, the others stay
(`routes_groups.py:536`); of a tenant two administrators delete at once, the slower
request restores the files, and they stay for ever (`routes_admin.py:312`); an
administrator's token for a deleted tenant is accepted from the cache for up to 30
seconds when it was validated while the cache was cleared (`auth.py:123`); a
subscription that is revoked or expires while a Start is past its check leaves a
campaign without a subscription (`routes_admin.py:193`, `subscription_jobs.py:101`);
a subscription that expired more than 25 hours before a round, while the process was
down, is never found (`subscription_jobs.py:80`);
a worker started between the stop and the end of a tenant's deletion goes on, and
nothing can stop it any more (`campaign_runtime.py:123`); an undoing of a promotion that
had found no session to move aside leaves the installed one in the directory
(`routes_onboarding.py:974`); when the database refuses a deletion to the recovery of
onboarding, the server does not come up (`main.py:3697`).

## Proofs

Of the ledger `SendPipelineProofs` proves, for any number of operations, accounts, slots,
requests, provider ids and retries: `TypeCorrect`, `AtMostOneAttempt`,
`AccountingCorrect`, `TerminalIsFinal`. The only assumption is
`LedgerAssumption`: the bounds are numbers and `None` is no id.

The invariants are not inductive one by one. `mark_accepted` closes *the last*
attempt of an operation in flight, so accounting needs the attempts to agree with
the row; it writes the accounting row with INSERT OR IGNORE, so the ids agree only
because a row without provider id has no accounting row yet. `LedgerInv`, their
conjunction with the types, is inductive: one lemma per method (`CreateInv`,
`PreSendInv`, `InFlightInv`, `UnknownInv`, `AcceptedInv`, `RecoverInv`), joined in
`NextInv`. `TerminalIsFinal` goes through the actions again with the types.

`LoginAttemptsProofs` proves `OneLoginAtATime` (`OneOpenAttempt`), `LoginTypeCorrect`,
`InputsReachTheirLogin` (`InputReachesItsLogin`) and `CancelledNeverActivates`
(`CancelledStaysOut`) for any number of attempts, request ids, passwords and restarts,
from `LoginAssumption`. `LoginInv` adds the types of the store and `NamesAttempts`:
login failures, resets and deletions end "the attempt the session names", which must be
one the store knows. `_transition` forgets the current attempt whichever attempt has
ended; lemma `Ending` shows that this is right because an attempt that is still open is
the current one, and `StartInv` that a start finds none open. On it stands `TaskInv`.
`OneLogin` says that a task that goes on is the registered one, that no other attempt
than its own is current, that its attempt is not cancelled and that everything queued
is for it; so an input is accepted for its attempt or for none (`SubmitCounts`), and
the open attempt a task asks for input is its own (`AsksItsOwn`) whatever the session
names. `Counted` bounds the revision of an attempt, which the type invariant claims: by
the stage, and by how many passwords its task has had refused (`Moves`); it needs that
an attempt takes no password before its task has been asked for one (`PasswordsLast`).

`TenancyProofs` proves `ExpiredCampaignsStop` (`ExpiredIsStopped`), `NoDatabaseLost`
(`KeepsFiles`), `DeletionEndsSessions` (`ClearedStaysCleared`), `EndedSessionsStayOut`
(`SessionsEnd`) and `TenancyTypeCorrect` for every number of tenants, tokens, deletions,
events and databases, from `TenancyAssumption` alone (the bounds are numbers, one
database can be made, `None` is nothing else).
For the first, `StoppedInv` says of every tenant on the loop's list, and of the one
whose worker it waits for, that no Start under way counts its subscription (`start[t].fine`, which a stop clears), and that
a subscription paid again was extended since the last round: the property alone
would not survive a Start that had passed its check before the loop came, nor a
subscription extended and expired between two rounds. For the second, `FilesInv`
adds to `KeepsFiles` that a deletion about to remove files has ended its tenant
(`Purging`), and that nobody works for an id that is not given yet (`Unborn`), so
that a new tenant starts without databases to lose. Two lemmas carry the argument:
`TouchKeeps` (making a directory anew takes the empty place and loses nothing)
and `DirectoriesDeletion` (a directory moved aside or back is still there). For the
sessions, `SessionInv` extends what `ClearedStaysCleared` says of the cache to the
answers that are on their way into it and were found before the cache was cleared
(`Answer`), and says that nothing is asked with a token that is not issued yet
(a token made for a later version may not inherit an answer). `SessionBumps` is where
answers become outdated, `SessionClears` where none is left.

The pipeline's proofs take the ledger's as they are: `SendsKeepLedger` shows
that every step of the senders is one call of the ledger or leaves it alone, so
`LedgerInv` holds of the pipeline too. On it stand `PipelineTypeCorrect`;
`WeekIsSentOnce` (`OneCallPerWeek`), for any number of accounts, weeks, operations,
tries and process deaths; `SettledSlotsAreTrue` (`SettledAgreesWithLedger`); and
`PromiseIsKept`, that the pipeline implements `WeeklyPromise` step by step. Each of
the last three has the hypothesis that the code needs, stated by name.
`OutcomesAreWritten` (no local write is lost, or nobody runs a test): with a second
sender what is in flight is told by the ledger alone, and TLC finds a slot sent twice
when a test runs and a write fails. `WorkerAlone` (neither): beside a test a slot
requeued by recovery disagrees with the ledger for a while. `PipelineInv` says that
a slot has one operation however often it is claimed (`OneOperation`; this is what
`find_retryable_for_slot` before every create is for), that a sender's job names the
slot its operation was made for (`JobsSound`), that operations and log rows are of
weeks that have begun (`Booked`), and that two senders do not share a client.
`CallsInv` ties the provider's calls to the ledger's states: an operation in flight
that another owner holds has its caller still waiting (`FlightHasCaller`), which is
exactly what a lost write breaks. `SettledInv` says of each control point what the
sender's tracker may claim.

`CampaignControlProofs` proves `ControlTypeCorrect`, `CampaignHasItsStart`
(`RunningHasItsStart`), `FenceHolds` (`FenceIsKept`) and `NewestSucceeds`
(`NewestCompletes`) for any number of requests, repetitions, handlers, tasks, crashes
and failures. `ControlInv` adds that no receipt is of a generation to come (`Past`),
that an unfinished receipt of the present generation is what the control row is doing
(`Present`), that two unfinished receipts are of two generations and a Start's is no
Stop's (`OwnGeneration`), and that a Start or a test has one handler however often it
is sent again (`OneServer`, `Handling`). Without `OwnGeneration` a late Stop could
finish on a Start's generation; without `OneServer` the second serving of a request
could finish what the first has been fenced out of.

`WorkScopeProofs` proves `ScopeTypeCorrect`, `DestinationsAreConfirmed`
(`VerifiedWasConfirmed`), `ApprovalStands` (`ApprovalHolds`), `SendsAreNotRedirected`
(`NoSilentRedirect`) and `AssignmentsAreKept` (`AssignmentsStick`). `ScopeInv` says
more than the properties in two places. `ChatsAreConfirmed` speaks of every chat that
is kept, verified or not, because the migration at the next start calls it verified;
`ScopeIsLinked` and `ScopeIsChosen` say of every id that its work group is one its
account was linked to and chosen for, which an id given again to a new account would
break if the deletion left a row behind. The assignment's loops over accounts, groups
and proxies are recursive functions. Induction over them is not available (the
library's theorems take an operator), so an argument by the least counterexample
takes its place: a nonempty set of numbers has a least element (`LeastNumber`), and at
the least step where an assignment was lost the step before had kept it.

`ClientLeasesProofs` proves `LeasesTypeCorrect`, `AccountHasOneOwner` (`OneOwner`),
`DeletionIsFinal` (`DeletedStaysDeleted`) and `ShutdownSeals` (`SealedAtExit`) for any
number of profiles, MAX accounts, jobs, checks and deletions. `LeasesInv` says that a
profile has one lease (`OneLease`), that a deletion has cut every login of its profile
(`DeletionCuts`), that logins which were not cut and the session files, moved aside or
not, are of the profile's present life (`LoginsAreOfNow`, `SessionsAreOfNow`), that an
active profile has the claim unless a deletion left it over or an onboarding activated
it (`ClaimHeld`), and how far a shutdown in which nothing ran out of time has come
(`Phased`, `AtRest`).

`OnboardingProofs` proves `OnboardingTypeCorrect`, `HalvesAreUndone`
(`HalfPromotionsAreUndone`), `EnrolledWhereProved` (`ProvedForCurrentDestination`) and
`EnrolledWithItsSession` (`InstalledIsProved`) for any number of visitors, phones,
chats, invites, sign-ins, events, cleanups and restarts. That a check's chat is the
present destination while its invite is active is `ChecksAreOfNow`; it needs that an
invite once issued is never issued again and never becomes active again (`InvitesGo`).
Ids are given again, so that what was validated is what is settled (`ValidatedStays`)
is a matter of who works on an id: a check from which nothing was taken works on the
profile of its phone, under the present lock of its id, and so does every other check
that works on that id (`WorksOnItsOwn`); under one lock one handler promotes at a time
(`OneHolder`); no two phones have one id (`IdsApart`). So beside a check that is not
`crossed` nobody else promotes on its id (lemma `SoleHolder`), and a step of another
check, of the owner or of the cleanup either leaves the id's session alone or marks it
crossed (`WorkKeeps`). `HalvesAreServed` says more than its property: a row half
promoted that is not set apart names its profile, which is what recovery looks for, is
neither deleted nor complete, and its handler is at work; to keep it, a check about to
install has a row with a profile (`InstallsNamed`), and a row before its first start is
known to nobody (`YoungRows`), the cleanup's copy of the rows included.

`SessionFilesProofs` proves `SessionIsKept` (`WorkKeepsSession`) and `FailureIsUndone`
(`FailureRestores`) for any number of logins, sends, promotions and process deaths at
any point of a script, where `MaxCleanups = 0`: recovery runs when the process starts,
and no cleanup beside the event loop. The hypothesis is needed. With one cleanup beside
the loop TLC finds both properties violated: it puts back what a promotion in progress
has just moved aside, and the promotion installs its session over it; or it removes a
file that the failed promotion has put back already, before it looks for the backup
(`RestoredIsThere` above is about the same cleanup). The other bounds are arbitrary.

`RunInv` says who may act: one coroutine at most is in the middle of a script (`Alone`), who
has the client or promotes holds the lock (`Locked`), of two logins one is cancelled
(`LoginsYield`). `FilesInv` says what lies on the disk. A script is two to four file
operations, of which a death may come between any two, so `Phase` lists for each point
of an operation what is left of its script and where the files are then: `Staging`,
`Unsealing`, `Sealing`, `Restoring`, and `Recovering` for the cleanup at start. `Earned`
says that a token on the disk is of a session that worked or of a promotion, `Pair`
that putting a file over its sealed twin, at once or after a recovery, replaces no
session that worked by one that never did, `Kept` that what was moved aside stays there
while the operation that moved it works and that the new files are its own, `Bare` that
a promotion which found no session has nothing to lose. The properties alone are far from
inductive: that a failed login may unlink `session.db` rests on the backup beside it,
which rests on what staging did before the login began to wait for the lock.

The assumptions are those of the constants, named in each module: bounds are numbers
(at least two tries per send), `None` is nothing else, kinds of request and of job are
disjoint, ids of groups are positive with a highest one, visitors are finitely many.

Only model-checked: all liveness, which under fairness is out of TLAPS's reach
(fairness is ENABLED of an action): `ClaimedIsSettled` and `FencedWorkersEnd`. Every
invariant and every action property of the runs is a theorem.

## Plan

1. Done: ledger, pipeline, promise, control, login attempts, session files,
   onboarding, work scope, client leases, tenancy; proofs about all of them.
2. `Pacing`, `MessageBag` and `DailyPlans` as algorithms against reference
   definitions; `RecoveryHold`; the rate limiter.
3. What a cleanup beside the event loop leaves of the session files' promises.

## Not modelled

The gateway, the platform policy and the recovery hold (a guard in front of every
external action, which the models take as released), legacy daily plans (superseded
by weekly slots), pacing and antiban (they delay), the message bag and message sets
(what is sent), settings, connections, cookies and the rate limiter, the migration
of the vault, the campaigns table.
Nor are there models of pages and scripts, monitoring, backups, proxy probing
(I/O without decisions of their own).

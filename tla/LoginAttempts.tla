---------------------------- MODULE LoginAttempts ----------------------------
(****************************************************************************)
(* Logging one account in: AuthAttemptStore (app/services/auth_attempts.py) *)
(* in memory, its rows in auth_attempts, the login session and its two      *)
(* queues (main.py), and the login task that waits on them while requests   *)
(* submit codes, cancel, reset, delete the session or start again.          *)
(*                                                                          *)
(* An action is what a handler or the login task does between two awaits.   *)
(* Deadlines are passed at any time (TimePasses) and, as in the code, only  *)
(* noticed by whoever looks the attempt up next.                            *)
(****************************************************************************)
EXTENDS Naturals, Sequences, FiniteSets

CONSTANTS
    Attempts,        \* attempt ids
    StartIds,        \* request ids of Start; any may be re-sent
    InputIds,        \* request ids of codes and passwords; any may be re-sent
    MaxPasswords,    \* password_max_attempts
    MaxRestarts,     \* bound: process restarts
    Slips,           \* of "reset" and "resend": whether a Reset, and a re-sent input of
                     \* another attempt than the session's, occur
    None

ASSUME LoginAssumption ==
    /\ MaxPasswords \in Nat \ {0} /\ MaxRestarts \in Nat /\ Slips \subseteq {"reset", "resend"}
    /\ None \notin Attempts

VARIABLES
    attempts,    \* _attempts: stage, revision, receipts; late: a deadline has passed
    active,      \* _active_by_profile
    starts,      \* _start_receipts
    rows,        \* the auth_attempts table
    session,     \* _auth_sessions: is there one, and the attempt it names
    codes,       \* its queues, each input remembered by the attempt it is for
    passwords,
    tasks,       \* the login task of each attempt: where it is
    tried,       \* passwords it has checked
    registered,  \* _login_tasks
    resets,      \* cancelled tasks that a Reset waits for
    deletion,    \* a session deletion under way, and the task it waits for
    status,      \* profiles.status
    restarts

store == <<attempts, active, starts>>
queues == <<codes, passwords>>
running == <<tasks, tried, registered>>
vars == <<store, rows, session, queues, running, resets, deletion, status, restarts>>

Final == {"succeeded", "error", "expired", "cancelled", "interrupted"}
Open == {"connecting", "waiting_code", "verifying_code", "waiting_password",
         "verifying_password"}
Commands == {"code", "password"}
LastRevision == 5 + 2 * MaxPasswords

NoAttempt == [stage |-> "none", revision |-> 0, late |-> FALSE, receipts |-> {}]
NewAttempt == [NoAttempt EXCEPT !.stage = "connecting"]
NoRow == [stage |-> "none", revision |-> 0]
NoSession == [open |-> FALSE, attempt |-> None]
NoDeletion == [on |-> FALSE, task |-> None]

Init ==
    /\ attempts = [a \in Attempts |-> NoAttempt]
    /\ active = None /\ starts = [i \in StartIds |-> None]
    /\ rows = [a \in Attempts |-> NoRow]
    /\ session = NoSession /\ codes = <<>> /\ passwords = <<>>
    /\ tasks = [a \in Attempts |-> "none"] /\ tried = [a \in Attempts |-> 0]
    /\ registered = None /\ resets = {} /\ deletion = NoDeletion
    /\ status = "pending" /\ restarts = 0

--------------------------------------------------------------------------------
(* The store *)

\* _expire_if_needed: the deadline is noticed when the attempt is looked up.
Seen(a) ==
    LET x == attempts[a]
    IN IF x.late /\ x.stage \in Open
       THEN [x EXCEPT !.stage = "expired", !.revision = @ + 1, !.late = FALSE] ELSE x

Look(who) == [a \in Attempts |-> IF a \in who THEN Seen(a) ELSE attempts[a]]
Current == {active} \ {None}

\* _transition
Moved(x, stage) == [x EXCEPT !.stage = stage, !.revision = @ + 1]

\* succeed, fail and cancel leave a finished attempt as it is.
Ended(a, stage) == IF Seen(a).stage \in Final THEN Seen(a) ELSE Moved(Seen(a), stage)

Saved(x) == [stage |-> x.stage, revision |-> x.revision]

Save(a, x) == rows' = [rows EXCEPT ![a] = Saved(x)]
Names(a) == session' = [open |-> TRUE, attempt |-> a]

\* Mutant: the end of any attempt, also one long finished, makes none current.
EndAnyAttempt(a, stage, alsoSeen) ==
    /\ attempts' = [Look(alsoSeen) EXCEPT ![a] = Ended(a, stage)]
    /\ active' = None
    /\ Save(a, Ended(a, stage))

\* The end of attempt a, saved; other attempts are looked up on the way.
EndAttempt(a, stage, alsoSeen) ==
    /\ attempts' = [Look(alsoSeen) EXCEPT ![a] = Ended(a, stage)]
    /\ active' = IF Seen(a).stage \in Open THEN None ELSE active
    /\ Save(a, Ended(a, stage))

\* _finish_auth_attempt ends the attempt the session names.
Finish(stage) ==
    IF session.attempt = None
    THEN /\ session' = [session EXCEPT !.open = TRUE]
         /\ UNCHANGED <<attempts, active, rows>>
    ELSE EndAttempt(session.attempt, stage, {}) /\ Names(session.attempt)

\* Mutant: what was queued for an earlier login stays.
DrainNothing == UNCHANGED queues

Drain == codes' = <<>> /\ passwords' = <<>>

--------------------------------------------------------------------------------
(* The login task *)

Busy == {"online", "waitCode", "sendCode", "waitPassword", "checkPassword",
         "releasing", "failing", "closing"}
Live == Busy \cup {"begin", "queued", "cancelled"}
LoginRuns == registered # None /\ tasks[registered] \in Live

At(a, where) == tasks[a] \in where
Goto(a, where) == tasks' = [tasks EXCEPT ![a] = where]

\* The cancellation reaches a waiting task at once, one with a client closes it.
AfterCancel(a) == IF At(a, Busy) THEN "closing" ELSE "cancelled"

Begin(a) ==
    /\ At(a, {"begin"}) /\ Goto(a, "queued")
    /\ Drain \/ UNCHANGED queues         \* only a fresh login drains again
    /\ UNCHANGED <<store, rows, session, tried, registered, resets, deletion, status, restarts>>

\* The profile's client lock.
GetClient(a) ==
    /\ At(a, {"queued"}) /\ \A b \in Attempts : ~At(b, Busy)
    /\ Goto(a, "online")
    /\ UNCHANGED <<store, rows, session, queues, tried, registered, resets, deletion,
                   status, restarts>>

\* _mark_auth_waiting_...: the attempt the session names waits for input, from
\* one of the given stages; from any other the login fails.
AwaitInput(a, stages, waiting, next) ==
    IF session.attempt = None
    THEN /\ session' = [session EXCEPT !.open = TRUE] /\ Goto(a, next)
         /\ UNCHANGED <<attempts, rows>>
    ELSE LET s == session.attempt
             x == IF Seen(s).stage = waiting THEN Seen(s) ELSE Moved(Seen(s), waiting)
         IN IF Seen(s).stage \in stages
            THEN /\ attempts' = [attempts EXCEPT ![s] = x]
                 /\ Save(s, x) /\ Names(s) /\ Goto(a, next)
            ELSE /\ attempts' = Look({s}) /\ Goto(a, "failing")
                 /\ UNCHANGED <<rows, session>>

AskCode(a) ==
    /\ At(a, {"online"})
    /\ AwaitInput(a, {"connecting", "waiting_code"}, "waiting_code", "waitCode")
    /\ UNCHANGED <<active, starts, queues, tried, registered, resets, deletion, status, restarts>>

PasswordStages == {"verifying_code", "verifying_password", "waiting_password"}

\* Mutant: wrong passwords are not counted.
AskPasswordForever(a) ==
    /\ At(a, {"sendCode", "checkPassword"})
    /\ AwaitInput(a, PasswordStages, "waiting_password", "waitPassword")
    /\ UNCHANGED <<active, starts, queues, tried, registered, resets, deletion, status, restarts>>

\* MAX asks for the cloud password, or refuses the one it was given.
AskPassword(a) ==
    /\ At(a, {"sendCode", "checkPassword"})
    /\ AwaitInput(a, PasswordStages, "waiting_password",
                  IF tried[a] = MaxPasswords THEN "failing" ELSE "waitPassword")
    /\ UNCHANGED <<active, starts, queues, tried, registered, resets, deletion, status, restarts>>

TakeCode(a) ==
    /\ At(a, {"waitCode"}) /\ codes # <<>>
    /\ codes' = Tail(codes) /\ Goto(a, "sendCode")
    /\ UNCHANGED <<store, rows, session, passwords, tried, registered, resets, deletion,
                   status, restarts>>

TakePassword(a) ==
    /\ At(a, {"waitPassword"}) /\ passwords # <<>>
    /\ passwords' = Tail(passwords) /\ Goto(a, "checkPassword")
    /\ tried' = [tried EXCEPT ![a] = @ + 1]
    /\ UNCHANGED <<store, rows, session, codes, registered, resets, deletion, status, restarts>>

\* Logged in: the client is closed before anything is recorded.
Authenticated(a) ==
    /\ At(a, {"online", "sendCode", "checkPassword"}) /\ Goto(a, "releasing")
    /\ UNCHANGED <<store, rows, session, queues, tried, registered, resets, deletion,
                   status, restarts>>

\* An error, or a time-out of the login or of its wait for input.
LoginFails(a) ==
    /\ At(a, {"begin"} \cup (Busy \ {"failing", "closing"})) /\ Goto(a, "failing")
    /\ UNCHANGED <<store, rows, session, queues, tried, registered, resets, deletion,
                   status, restarts>>

Activate(a) ==
    /\ At(a, {"releasing"}) /\ Goto(a, "done")
    /\ status' = "active" /\ Finish("succeeded")
    /\ UNCHANGED <<starts, queues, tried, registered, resets, deletion, restarts>>

RecordFailure(a) ==
    /\ At(a, {"failing"}) /\ Goto(a, "done")
    /\ status' = "needs_reauth" /\ Finish("error")    \* or banned, if MAX says so
    /\ UNCHANGED <<starts, queues, tried, registered, resets, deletion, restarts>>

\* CancelledError is no Exception: nothing is recorded.
EndCancelled(a) ==
    /\ At(a, {"closing", "cancelled"}) /\ Goto(a, "done")
    /\ UNCHANGED <<store, rows, session, queues, tried, registered, resets, deletion,
                   status, restarts>>

TaskStep(a) ==
    \/ Begin(a) \/ GetClient(a) \/ AskCode(a) \/ AskPassword(a)
    \/ TakeCode(a) \/ TakePassword(a) \/ Authenticated(a) \/ LoginFails(a)
    \/ Activate(a) \/ RecordFailure(a) \/ EndCancelled(a)

--------------------------------------------------------------------------------
(* Requests *)

CanStart == ~deletion.on /\ ~LoginRuns

StartLogin(i, a) ==
    /\ CanStart /\ starts[i] = None
    /\ attempts[a].stage = "none" /\ rows[a] = NoRow
    /\ active # None => Seen(active).stage \in Final
    /\ attempts' = [Look(Current) EXCEPT ![a] = NewAttempt]
    /\ active' = a /\ starts' = [starts EXCEPT ![i] = a]
    /\ Save(a, NewAttempt) /\ Names(a) /\ Drain
    /\ Goto(a, "begin") /\ registered' = a
    /\ UNCHANGED <<tried, resets, deletion, status, restarts>>

\* The receipt of an earlier Start; the session names its attempt again.
RepeatStart(i) ==
    /\ CanStart /\ starts[i] # None
    /\ attempts' = Look({starts[i]} \cup Current) /\ Names(starts[i])
    /\ UNCHANGED <<active, starts, rows, queues, running, resets, deletion, status, restarts>>

Waiting(c) == IF c = "code" THEN "waiting_code" ELSE "waiting_password"
Verifying(c) == IF c = "code" THEN "verifying_code" ELSE "verifying_password"
Receipts(c, i, x) == {r \in x.receipts : r.command = c /\ r.id = i}
Put(c, a) == IF c = "code" THEN codes' = Append(codes, a) /\ UNCHANGED passwords
                           ELSE passwords' = Append(passwords, a) /\ UNCHANGED codes

\* An input for revision r of attempt a.
Submit(c, a, r, i) ==
    LET x == Seen(a)
        y == Moved(x, Verifying(c))
    IN /\ session.open /\ attempts[a].stage # "none"
       /\ Receipts(c, i, x) = {} /\ r = x.revision /\ x.stage = Waiting(c)
       /\ attempts' = [attempts EXCEPT ![a] =
                          [y EXCEPT !.receipts = @ \cup {[command |-> c, id |-> i]}]]
       /\ Save(a, y) /\ Names(a) /\ Put(c, a)
       /\ UNCHANGED <<active, starts, running, resets, deletion, status, restarts>>

\* The receipt answers, and the session names the attempt it is of.
RepeatInput(c, a, i) ==
    /\ session.open /\ Receipts(c, i, attempts[a]) # {}
    /\ "resend" \in Slips \/ session.attempt = a
    /\ attempts' = Look({a}) /\ Names(a)
    /\ UNCHANGED <<active, starts, rows, queues, running, resets, deletion, status, restarts>>

\* _cancel_login_task up to its await.
StopLogin ==
    /\ registered' = None
    /\ tasks' = IF LoginRuns THEN [tasks EXCEPT ![registered] = AfterCancel(registered)]
                ELSE tasks

\* Mutant: the attempt is cancelled and the task goes on.
CancelAttemptOnly(a) ==
    /\ attempts[a].stage # "none"
    /\ EndAttempt(a, "cancelled", Current)
    /\ session' = [session EXCEPT !.open = TRUE]
    /\ UNCHANGED <<tasks, registered>>
    /\ UNCHANGED <<starts, queues, tried, resets, deletion, status, restarts>>

\* Only the current attempt has a task to cancel.
Cancel(a) ==
    /\ attempts[a].stage # "none"
    /\ EndAttempt(a, "cancelled", Current)
    /\ session' = [session EXCEPT !.open = TRUE]
    /\ IF active = a THEN StopLogin ELSE UNCHANGED <<tasks, registered>>
    /\ UNCHANGED <<starts, queues, tried, resets, deletion, status, restarts>>

\* _cancel_auth_attempt ends the attempt the session names.
CancelNamed ==
    IF session.attempt = None THEN UNCHANGED <<attempts, active, rows>>
    ELSE EndAttempt(session.attempt, "cancelled", {})

ClearSession == session' = [open |-> TRUE, attempt |-> None] /\ Drain

BeginReset ==
    /\ "reset" \in Slips
    /\ CancelNamed /\ StopLogin
    /\ IF LoginRuns
       THEN /\ resets' = resets \cup {registered}
            /\ session' = [session EXCEPT !.open = TRUE] /\ UNCHANGED queues
       ELSE ClearSession /\ UNCHANGED resets
    /\ UNCHANGED <<starts, tried, deletion, status, restarts>>

EndReset(a) ==
    /\ a \in resets /\ At(a, {"done"})
    /\ resets' = resets \ {a} /\ ClearSession
    /\ UNCHANGED <<store, rows, running, deletion, status, restarts>>

BeginDelete ==
    /\ ~deletion.on
    /\ CancelNamed /\ StopLogin
    /\ deletion' = [on |-> TRUE, task |-> IF LoginRuns THEN registered ELSE None]
    /\ session' = [session EXCEPT !.open = TRUE]
    /\ UNCHANGED <<starts, queues, tried, resets, status, restarts>>

\* A client still active refuses the deletion; its time-out gives it up.
EndDelete ==
    /\ deletion.on /\ deletion' = NoDeletion
    /\ \/ UNCHANGED <<session, queues, status>>
       \/ /\ deletion.task # None => At(deletion.task, {"done"})
          /\ \A a \in Attempts : ~At(a, Busy)
          /\ session' = NoSession /\ Drain /\ status' = "pending"
    /\ UNCHANGED <<store, rows, running, resets, restarts>>

ReadAttempt(a) ==
    /\ attempts[a].stage # "none" /\ attempts' = Look({a} \cup Current)
    /\ UNCHANGED <<active, starts, rows, session, queues, running, resets, deletion,
                   status, restarts>>

--------------------------------------------------------------------------------
TimePasses(a) ==
    /\ attempts[a].stage \in Open /\ ~attempts[a].late
    /\ attempts' = [attempts EXCEPT ![a].late = TRUE]
    /\ UNCHANGED <<active, starts, rows, session, queues, running, resets, deletion,
                   status, restarts>>

Interrupted(row) == IF row.stage \in Open THEN [row EXCEPT !.stage = "interrupted"] ELSE row

\* _reset_auth_on_startup after the process died.
Restart ==
    /\ restarts < MaxRestarts /\ restarts' = restarts + 1
    /\ attempts' = [a \in Attempts |-> NoAttempt] /\ active' = None
    /\ starts' = [i \in StartIds |-> None]
    /\ rows' = [a \in Attempts |-> Interrupted(rows[a])]
    /\ session' = NoSession /\ Drain
    /\ tasks' = [a \in Attempts |-> IF tasks[a] = "none" THEN "none" ELSE "done"]
    /\ tried' = [a \in Attempts |-> 0]
    /\ registered' = None /\ resets' = {} /\ deletion' = NoDeletion
    /\ UNCHANGED status

Handlers ==
    \/ \E i \in StartIds : RepeatStart(i) \/ \E a \in Attempts : StartLogin(i, a)
    \/ \E c \in Commands, a \in Attempts, i \in InputIds :
          RepeatInput(c, a, i) \/ \E r \in 0..LastRevision : Submit(c, a, r, i)
    \/ BeginReset \/ BeginDelete \/ EndDelete
    \/ \E a \in Attempts : Cancel(a) \/ EndReset(a) \/ ReadAttempt(a)

Next ==
    \/ Handlers \/ Restart
    \/ \E a \in Attempts : TaskStep(a) \/ TimePasses(a)

Spec == Init /\ [][Next]_vars

--------------------------------------------------------------------------------
Stages == {"none"} \cup Final \cup Open

LoginTypeOK ==
    /\ attempts \in [Attempts -> [stage : Stages, revision : 0..LastRevision, late : BOOLEAN,
                                  receipts : SUBSET [command : Commands, id : InputIds]]]
    /\ active \in Attempts \cup {None} /\ starts \in [StartIds -> Attempts \cup {None}]
    /\ rows \in [Attempts -> [stage : Stages, revision : 0..LastRevision]]
    /\ session \in [open : BOOLEAN, attempt : Attempts \cup {None}]
    /\ codes \in Seq(Attempts) /\ passwords \in Seq(Attempts)
    /\ tasks \in [Attempts -> Live \cup {"none", "done"}]
    /\ tried \in [Attempts -> 0..MaxPasswords]
    /\ registered \in Attempts \cup {None} /\ resets \subseteq Attempts
    /\ deletion \in [on : BOOLEAN, task : Attempts \cup {None}]
    /\ status \in {"pending", "active", "needs_reauth"}
    /\ restarts \in 0..MaxRestarts

\* An account has one open attempt at most, and it is the current one.
OneOpenAttempt == \A a \in Attempts : attempts[a].stage \in Open => active = a

\* A login task takes only inputs that were submitted for its own attempt.
InputReachesItsLogin ==
    [][\A a \in Attempts :
         /\ tasks[a] = "waitCode" /\ tasks'[a] = "sendCode" => Head(codes) = a
         /\ tasks[a] = "waitPassword" /\ tasks'[a] = "checkPassword" => Head(passwords) = a]_vars

\* An attempt that was cancelled does not activate its account.
CancelledStaysOut ==
    [][\A a \in Attempts : tasks[a] = "releasing" /\ tasks'[a] = "done" /\ status' = "active"
                           => attempts[a].stage # "cancelled"]_vars

\* The server checks that an input is for the attempt at hand
\* (docs/HOW-IT-WORKS.md:240): nothing that is sent makes the session name
\* another attempt than the one whose login is running.
LoginKeepsItsAttempt ==
    \A a \in Attempts : registered = a /\ tasks[a] \in Busy \ {"closing"} => session.attempt = a
================================================================================

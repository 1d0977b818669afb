-------------------------- MODULE LoginAttemptsProofs --------------------------
(* An account never has two open login attempts, an input reaches the login  *)
(* it was for, and what was cancelled does not log in: for any number of     *)
(* attempts, request ids, passwords and restarts.                            *)
EXTENDS LoginAttempts, TLAPS

Memory == [stage : Stages, revision : Nat, late : BOOLEAN,
           receipts : SUBSET [command : Commands, id : InputIds]]

\* What the session and the start receipts name are attempts: a handler that
\* ends "the attempt the session names" ends one the store knows.
NamesAttempts == /\ session \in [open : BOOLEAN, attempt : Attempts \cup {None}]
                 /\ starts \in [StartIds -> Attempts \cup {None}]

\* The inductive invariant.  _transition forgets the current attempt of the
\* account whichever attempt has ended, which is right only because an attempt
\* that is still open is the current one.
LoginInv == attempts \in [Attempts -> Memory] /\ NamesAttempts /\ OneOpenAttempt

\* How often an attempt can have moved by the time it is at a stage and its task
\* has had t passwords refused.
Moves(stage, t) ==
    IF stage \in {"none", "connecting"} THEN 0
    ELSE IF stage = "waiting_code" THEN 1
    ELSE IF stage = "verifying_code" THEN 2
    ELSE IF stage = "waiting_password" THEN 3 + 2 * t
    ELSE IF stage = "verifying_password" THEN 4 + 2 * t
    ELSE LastRevision

Refused(a) == IF tasks[a] = "checkPassword" THEN tried[a] - 1 ELSE tried[a]
Counted ==
    \A a \in Attempts :
        /\ Refused(a) \in 0..MaxPasswords /\ (tasks[a] = "waitPassword" => tried[a] < MaxPasswords)
        /\ attempts[a].revision <= Moves(attempts[a].stage, Refused(a))

\* Before its task has been asked for a password, an attempt takes none.
Early == {"begin", "queued", "online", "waitCode", "sendCode"}
PasswordsLast ==
    \A a \in Attempts : tasks[a] \in Early => attempts[a].stage \notin {"waiting_password", "verifying_password"}

\* A task that goes on is the registered one; its attempt is not cancelled, no
\* other is current, and what is queued is for it.
Going == Live \ {"closing", "cancelled"}
OneLogin ==
    /\ \A a \in Attempts : tasks[a] \in Going => registered = a
    /\ LoginRuns => /\ active \in {registered, None} /\ attempts[registered].stage \notin {"none", "cancelled"}
                    /\ codes \in Seq({registered}) /\ passwords \in Seq({registered})

\* The rest of the type invariant.
RestTyped ==
    /\ rows \in [Attempts -> [stage : Stages, revision : 0..LastRevision]]
    /\ active \in Attempts \cup {None} /\ codes \in Seq(Attempts) /\ passwords \in Seq(Attempts)
    /\ tasks \in [Attempts -> Live \cup {"none", "done"}] /\ tried \in [Attempts -> 0..MaxPasswords]
    /\ registered \in Attempts \cup {None} /\ resets \subseteq Attempts
    /\ deletion \in [on : BOOLEAN, task : Attempts \cup {None}]
    /\ status \in {"pending", "active", "needs_reauth"} /\ restarts \in 0..MaxRestarts

TaskInv == RestTyped /\ Counted /\ PasswordsLast /\ OneLogin

\* Looking an attempt up never opens one.
LEMMA SeenMemory ==
  ASSUME attempts \in [Attempts -> Memory], NEW a \in Attempts
  PROVE  /\ Seen(a) \in Memory
         /\ Seen(a).stage \in Open => attempts[a].stage \in Open /\ Seen(a) = attempts[a]
<1>1. attempts[a] \in Memory
  OBVIOUS
<1>2. CASE attempts[a].late /\ attempts[a].stage \in Open
  <2>1. Seen(a) = [attempts[a] EXCEPT !.stage = "expired", !.revision = @ + 1, !.late = FALSE]
    BY <1>2 DEF Seen
  <2>2. "expired" \in Stages /\ attempts[a].revision + 1 \in Nat
    BY <1>1 DEF Stages, Final, Memory
  <2>3. Seen(a) \in Memory /\ Seen(a).stage = "expired"
    BY <1>1, <2>1, <2>2 DEF Memory
  <2> QED BY <2>3 DEF Open
<1>3. CASE ~(attempts[a].late /\ attempts[a].stage \in Open)
  BY <1>1, <1>3 DEF Seen
<1> QED BY <1>2, <1>3

LEMMA LookMemory ==
  ASSUME attempts \in [Attempts -> Memory], NEW who
  PROVE  /\ Look(who) \in [Attempts -> Memory]
         /\ \A a \in Attempts : Look(who)[a].stage \in Open => attempts[a].stage \in Open
<1>1. \A a \in Attempts : /\ Seen(a) \in Memory
                          /\ Seen(a).stage \in Open => attempts[a].stage \in Open
  BY SeenMemory
<1>2. \A a \in Attempts : Look(who)[a] = IF a \in who THEN Seen(a) ELSE attempts[a]
  BY DEF Look
<1>3. \A a \in Attempts : Look(who)[a] \in Memory
  BY <1>1, <1>2
<1>4. Look(who) \in [Attempts -> Memory]
  BY <1>3 DEF Look
<1> QED BY <1>1, <1>2, <1>4

\* An attempt moved to another stage.
LEMMA MovedMemory ==
  ASSUME NEW x \in Memory, NEW stage \in Stages
  PROVE  Moved(x, stage) \in Memory /\ Moved(x, stage).stage = stage
<1>1. x.revision + 1 \in Nat
  BY DEF Memory
<1> QED BY <1>1 DEF Moved, Memory

\* Steps that open no attempt and leave the current one keep the invariant.
LEMMA NoneOpened ==
  ASSUME LoginInv, attempts' \in [Attempts -> Memory], NamesAttempts', active' = active,
         \A a \in Attempts : attempts'[a].stage \in Open => attempts[a].stage \in Open
  PROVE  LoginInv'
BY DEF LoginInv, OneOpenAttempt

\* Ending an attempt: it is closed, and if it was open, no other was.
LEMMA Ending ==
  ASSUME LoginInv, NEW a \in Attempts, NEW stage \in Final, NEW who,
         EndAttempt(a, stage, who)
  PROVE  attempts' \in [Attempts -> Memory] /\ OneOpenAttempt'
<1> DEFINE x == Ended(a, stage)
<1>1. /\ attempts' = [Look(who) EXCEPT ![a] = x]
      /\ active' = IF Seen(a).stage \in Open THEN None ELSE active
  BY DEF EndAttempt
<1>2. Seen(a) \in Memory /\ (Seen(a).stage \in Open => attempts[a].stage \in Open)
  BY SeenMemory DEF LoginInv
<1>3. x \in Memory /\ x.stage \notin Open
  <2>1. CASE Seen(a).stage \in Final
    BY <1>2, <2>1 DEF Ended, Final, Open
  <2>2. CASE Seen(a).stage \notin Final
    BY <1>2, <2>2, MovedMemory DEF Ended, Stages, Final, Open
  <2> QED BY <2>1, <2>2
<1>4. /\ Look(who) \in [Attempts -> Memory]
      /\ \A b \in Attempts : Look(who)[b].stage \in Open => attempts[b].stage \in Open
  BY LookMemory DEF LoginInv
<1>5. attempts' \in [Attempts -> Memory]
  BY <1>1, <1>3, <1>4
<1>6. ASSUME NEW b \in Attempts, attempts'[b].stage \in Open PROVE active' = b
  <2>1. b # a /\ attempts'[b] = Look(who)[b]
    BY <1>1, <1>3, <1>4, <1>6
  <2>2. attempts[b].stage \in Open /\ active = b
    BY <1>4, <1>6, <2>1 DEF LoginInv, OneOpenAttempt
  <2>3. attempts[a].stage \notin Open
    BY <2>1, <2>2 DEF LoginInv, OneOpenAttempt
  <2> QED BY <1>1, <1>2, <2>2, <2>3
<1> QED BY <1>5, <1>6 DEF OneOpenAttempt

LEMMA NamesSession ==
  ASSUME NEW a \in Attempts, Names(a)
  PROVE  session' \in [open : BOOLEAN, attempt : Attempts \cup {None}]
BY DEF Names

LEMMA InitLogin == Init => LoginInv
<1> SUFFICES ASSUME Init PROVE LoginInv
  OBVIOUS
<1>1. attempts \in [Attempts -> Memory]
  BY DEF Init, NoAttempt, Memory, Stages
<1>2. NamesAttempts
  BY DEF Init, NamesAttempts, NoSession
<1>3. OneOpenAttempt
  BY DEF Init, OneOpenAttempt, NoAttempt, Open
<1> QED BY <1>1, <1>2, <1>3 DEF LoginInv

--------------------------------------------------------------------------------
(* The login task *)

\* Steps that leave the store alone, or change what the session names only.
LEMMA StoreUntouched ==
  ASSUME LoginInv, UNCHANGED <<attempts, active>>, NamesAttempts'
  PROVE  LoginInv'
BY DEF LoginInv, OneOpenAttempt

LEMMA Settling ==
  ASSUME LoginInv, NEW stage \in Final, Finish(stage), UNCHANGED starts
  PROVE  LoginInv'
<1>1. CASE session.attempt = None
  <2>1. NamesAttempts'
    BY <1>1 DEF Finish, LoginInv, NamesAttempts
  <2> QED BY <1>1, <2>1, StoreUntouched DEF Finish
<1>2. CASE session.attempt # None
  <2>1. session.attempt \in Attempts
    BY <1>2 DEF LoginInv, NamesAttempts
  <2>2. EndAttempt(session.attempt, stage, {}) /\ Names(session.attempt)
    BY <1>2 DEF Finish
  <2>3. NamesAttempts'
    BY <2>1, <2>2, NamesSession DEF LoginInv, NamesAttempts
  <2> QED BY <2>1, <2>2, <2>3, Ending DEF LoginInv
<1> QED BY <1>1, <1>2

\* The attempt that is asked for an input was open already.
LEMMA Asking ==
  ASSUME LoginInv, NEW a, NEW stages, stages \subseteq Open, NEW waiting \in Open, NEW next,
         AwaitInput(a, stages, waiting, next), UNCHANGED <<active, starts>>
  PROVE  LoginInv'
<1>1. CASE session.attempt = None
  <2>1. NamesAttempts' /\ UNCHANGED attempts
    BY <1>1 DEF AwaitInput, LoginInv, NamesAttempts
  <2> QED BY <2>1, StoreUntouched
<1>2. CASE session.attempt # None
  <2> DEFINE s == session.attempt
             x == IF Seen(s).stage = waiting THEN Seen(s) ELSE Moved(Seen(s), waiting)
  <2>1. s \in Attempts
    BY <1>2 DEF LoginInv, NamesAttempts
  <2>2. Seen(s) \in Memory /\ (Seen(s).stage \in Open => attempts[s].stage \in Open)
    BY <2>1, SeenMemory DEF LoginInv
  <2>3. CASE Seen(s).stage \in stages
    <3>1. attempts' = [attempts EXCEPT ![s] = x] /\ Names(s)
      BY <1>2, <2>3 DEF AwaitInput
    <3>2. waiting \in Stages
      BY DEF Stages
    <3>3. x \in Memory
      BY <2>2, <3>2, MovedMemory
    <3>4. attempts' \in [Attempts -> Memory]
      BY <3>1, <3>3 DEF LoginInv
    <3>5. \A b \in Attempts : attempts'[b].stage \in Open => attempts[b].stage \in Open
      BY <2>1, <2>2, <2>3, <3>1 DEF LoginInv
    <3>6. NamesAttempts'
      BY <2>1, <3>1, NamesSession DEF LoginInv, NamesAttempts
    <3> QED BY <3>4, <3>5, <3>6, NoneOpened
  <2>4. CASE Seen(s).stage \notin stages
    <3>1. attempts' = Look({s}) /\ UNCHANGED session
      BY <1>2, <2>4 DEF AwaitInput
    <3>2. NamesAttempts'
      BY <3>1 DEF LoginInv, NamesAttempts
    <3> QED BY <3>1, <3>2, LookMemory, NoneOpened DEF LoginInv
  <2> QED BY <2>3, <2>4
<1> QED BY <1>1, <1>2

LEMMA TaskStepInv ==
  ASSUME LoginInv, NEW a \in Attempts, TaskStep(a)
  PROVE  LoginInv'
<1>1. CASE AskCode(a)
  <2>1. {"connecting", "waiting_code"} \subseteq Open /\ "waiting_code" \in Open
    BY DEF Open
  <2> QED BY <1>1, <2>1, Asking DEF AskCode
<1>2. CASE AskPassword(a)
  <2>1. PasswordStages \subseteq Open /\ "waiting_password" \in Open
    BY DEF Open, PasswordStages
  <2> QED BY <1>2, <2>1, Asking DEF AskPassword
<1>3. CASE Activate(a)
  BY <1>3, Settling DEF Activate, Final
<1>4. CASE RecordFailure(a)
  BY <1>4, Settling DEF RecordFailure, Final
<1>5. CASE \/ Begin(a) \/ GetClient(a) \/ TakeCode(a) \/ TakePassword(a)
           \/ Authenticated(a) \/ LoginFails(a) \/ EndCancelled(a)
  <2>1. UNCHANGED <<store, session>>
    BY <1>5 DEF Begin, GetClient, TakeCode, TakePassword, Authenticated, LoginFails,
               EndCancelled
  <2>2. NamesAttempts'
    BY <2>1 DEF store, LoginInv, NamesAttempts
  <2> QED BY <2>1, <2>2, StoreUntouched DEF store
<1> QED BY <1>1, <1>2, <1>3, <1>4, <1>5 DEF TaskStep

--------------------------------------------------------------------------------
(* Requests *)

\* A new login starts only when the current attempt, looked up, has finished:
\* then no attempt is open, for an open one would be the current one.
LEMMA StartInv ==
  ASSUME LoginInv, NEW i \in StartIds, NEW a \in Attempts, StartLogin(i, a)
  PROVE  LoginInv'
<1>1. /\ active # None => Seen(active).stage \in Final
      /\ attempts' = [Look(Current) EXCEPT ![a] = NewAttempt]
      /\ active' = a /\ starts' = [starts EXCEPT ![i] = a] /\ Names(a)
  BY DEF StartLogin
<1>2. NewAttempt \in Memory
  BY DEF NewAttempt, NoAttempt, Memory, Stages, Open
<1>3. /\ Look(Current) \in [Attempts -> Memory]
      /\ \A b \in Attempts : Look(Current)[b].stage \in Open => attempts[b].stage \in Open
  BY LookMemory DEF LoginInv
<1>4. attempts' \in [Attempts -> Memory]
  BY <1>1, <1>2, <1>3
<1>5. ASSUME NEW b \in Attempts, Look(Current)[b].stage \in Open PROVE FALSE
  <2>1. active = b /\ active # None
    BY <1>3, <1>5, LoginAssumption DEF LoginInv, OneOpenAttempt
  <2>2. b \in Current
    BY <2>1 DEF Current
  <2>3. Look(Current)[b] = Seen(b)
    BY <2>2 DEF Look
  <2> QED BY <1>1, <1>5, <2>1, <2>3 DEF Final, Open
<1>6. OneOpenAttempt'
  BY <1>1, <1>3, <1>5 DEF OneOpenAttempt
<1>7. NamesAttempts'
  BY <1>1, NamesSession DEF LoginInv, NamesAttempts
<1> QED BY <1>4, <1>6, <1>7 DEF LoginInv

\* Requests that only look attempts up.
LEMMA Looking ==
  ASSUME LoginInv, NEW who, attempts' = Look(who), UNCHANGED active, NamesAttempts'
  PROVE  LoginInv'
BY LookMemory, NoneOpened DEF LoginInv

LEMMA RepeatStartInv ==
  ASSUME LoginInv, NEW i \in StartIds, RepeatStart(i)
  PROVE  LoginInv'
<1>1. starts[i] \in Attempts
  BY DEF RepeatStart, LoginInv, NamesAttempts
<1>2. NamesAttempts'
  BY <1>1, NamesSession DEF RepeatStart, LoginInv, NamesAttempts
<1> QED BY <1>2, Looking DEF RepeatStart

\* An input is accepted for an attempt that waits for it.
LEMMA SubmitInv ==
  ASSUME LoginInv, NEW c \in Commands, NEW a \in Attempts, NEW i \in InputIds, NEW r,
         Submit(c, a, r, i)
  PROVE  LoginInv'
<1> DEFINE y == Moved(Seen(a), Verifying(c))
           z == [y EXCEPT !.receipts = @ \cup {[command |-> c, id |-> i]}]
<1>1. /\ Seen(a).stage = Waiting(c) /\ attempts' = [attempts EXCEPT ![a] = z]
      /\ Names(a) /\ UNCHANGED <<active, starts>>
  BY DEF Submit
<1>2. Seen(a) \in Memory /\ (Seen(a).stage \in Open => attempts[a].stage \in Open)
  BY SeenMemory DEF LoginInv
<1>3. Waiting(c) \in Open /\ Verifying(c) \in Stages
  BY DEF Waiting, Verifying, Open, Stages
<1>4. y \in Memory
  BY <1>2, <1>3, MovedMemory
<1>5. z \in Memory
  BY <1>4 DEF Memory
<1>6. attempts' \in [Attempts -> Memory]
  BY <1>1, <1>5 DEF LoginInv
<1>7. \A b \in Attempts : attempts'[b].stage \in Open => attempts[b].stage \in Open
  BY <1>1, <1>2, <1>3 DEF LoginInv
<1>8. NamesAttempts'
  BY <1>1, NamesSession DEF LoginInv, NamesAttempts
<1> QED BY <1>1, <1>6, <1>7, <1>8, NoneOpened

LEMMA RepeatInputInv ==
  ASSUME LoginInv, NEW c \in Commands, NEW a \in Attempts, NEW i \in InputIds,
         RepeatInput(c, a, i)
  PROVE  LoginInv'
<1>1. NamesAttempts'
  BY NamesSession DEF RepeatInput, LoginInv, NamesAttempts
<1> QED BY <1>1, Looking DEF RepeatInput

LEMMA CancelInv ==
  ASSUME LoginInv, NEW a \in Attempts, Cancel(a)
  PROVE  LoginInv'
<1>1. EndAttempt(a, "cancelled", Current) /\ "cancelled" \in Final
  BY DEF Cancel, Final
<1>2. NamesAttempts'
  BY DEF Cancel, LoginInv, NamesAttempts
<1> QED BY <1>1, <1>2, Ending DEF LoginInv

LEMMA CancellingNamed ==
  ASSUME LoginInv, CancelNamed, NamesAttempts'
  PROVE  LoginInv'
<1>1. CASE session.attempt = None
  BY <1>1, StoreUntouched DEF CancelNamed
<1>2. CASE session.attempt # None
  <2>1. session.attempt \in Attempts
    BY <1>2 DEF LoginInv, NamesAttempts
  <2>2. EndAttempt(session.attempt, "cancelled", {}) /\ "cancelled" \in Final
    BY <1>2 DEF CancelNamed, Final
  <2> QED BY <2>1, <2>2, Ending DEF LoginInv
<1> QED BY <1>1, <1>2

LEMMA BeginResetInv ==
  ASSUME LoginInv, BeginReset
  PROVE  LoginInv'
<1>1. CASE LoginRuns
  <2>1. session' = [session EXCEPT !.open = TRUE] /\ UNCHANGED starts
    BY <1>1 DEF BeginReset
  <2>2. NamesAttempts'
    BY <2>1 DEF LoginInv, NamesAttempts
  <2> QED BY <2>2, CancellingNamed DEF BeginReset
<1>2. CASE ~LoginRuns
  <2>1. session' = [open |-> TRUE, attempt |-> None] /\ UNCHANGED starts
    BY <1>2 DEF BeginReset, ClearSession
  <2>2. NamesAttempts'
    BY <2>1 DEF LoginInv, NamesAttempts
  <2> QED BY <2>2, CancellingNamed DEF BeginReset
<1> QED BY <1>1, <1>2

LEMMA BeginDeleteInv ==
  ASSUME LoginInv, BeginDelete
  PROVE  LoginInv'
<1>1. NamesAttempts'
  BY DEF BeginDelete, LoginInv, NamesAttempts
<1> QED BY <1>1, CancellingNamed DEF BeginDelete

LEMMA HandlersInv ==
  ASSUME LoginInv, Handlers
  PROVE  LoginInv'
<1>1. CASE \E i \in StartIds : RepeatStart(i) \/ \E a \in Attempts : StartLogin(i, a)
  BY <1>1, RepeatStartInv, StartInv
<1>2. CASE \E c \in Commands, a \in Attempts, i \in InputIds :
             RepeatInput(c, a, i) \/ \E r \in 0..LastRevision : Submit(c, a, r, i)
  BY <1>2, RepeatInputInv, SubmitInv
<1>3. CASE BeginReset \/ BeginDelete
  BY <1>3, BeginResetInv, BeginDeleteInv
<1>4. CASE EndDelete
  <2>1. UNCHANGED <<attempts, active, starts>> /\ (UNCHANGED session \/ session' = NoSession)
    BY <1>4 DEF EndDelete, store
  <2>2. CASE UNCHANGED session
    BY <2>1, <2>2, StoreUntouched DEF LoginInv, NamesAttempts
  <2>3. CASE session' = NoSession
    <3>1. NamesAttempts'
      BY <2>1, <2>3 DEF NoSession, LoginInv, NamesAttempts
    <3> QED BY <2>1, <3>1, StoreUntouched
  <2> QED BY <2>1, <2>2, <2>3
<1>5. ASSUME NEW a \in Attempts, Cancel(a) \/ EndReset(a) \/ ReadAttempt(a) PROVE LoginInv'
  <2>1. CASE Cancel(a)
    BY <2>1, CancelInv
  <2>2. CASE EndReset(a)
    <3>1. NamesAttempts' /\ UNCHANGED <<attempts, active>>
      BY <2>2 DEF EndReset, ClearSession, store, LoginInv, NamesAttempts
    <3> QED BY <3>1, StoreUntouched
  <2>3. CASE ReadAttempt(a)
    <3>1. NamesAttempts'
      BY <2>3 DEF ReadAttempt, LoginInv, NamesAttempts
    <3> QED BY <2>3, <3>1, Looking DEF ReadAttempt
  <2> QED BY <1>5, <2>1, <2>2, <2>3
<1> QED BY <1>1, <1>2, <1>3, <1>4, <1>5 DEF Handlers

--------------------------------------------------------------------------------
LEMMA TimeInv ==
  ASSUME LoginInv, NEW a \in Attempts, TimePasses(a)
  PROVE  LoginInv'
<1>1. attempts' = [attempts EXCEPT ![a].late = TRUE] /\ UNCHANGED active
  BY DEF TimePasses
<1>2. /\ attempts' \in [Attempts -> Memory]
      /\ \A b \in Attempts : attempts'[b].stage = attempts[b].stage
  BY <1>1 DEF LoginInv, Memory
<1>3. NamesAttempts'
  BY DEF TimePasses, LoginInv, NamesAttempts
<1> QED BY <1>1, <1>2, <1>3, NoneOpened

LEMMA RestartInv ==
  ASSUME Restart
  PROVE  LoginInv'
<1>1. attempts' \in [Attempts -> Memory]
  BY DEF Restart, NoAttempt, Memory, Stages
<1>2. NamesAttempts'
  BY DEF Restart, NamesAttempts, NoSession
<1>3. OneOpenAttempt'
  BY DEF Restart, OneOpenAttempt, NoAttempt, Open
<1> QED BY <1>1, <1>2, <1>3 DEF LoginInv

LEMMA NextLogin == LoginInv /\ [Next]_vars => LoginInv'
<1> SUFFICES ASSUME LoginInv, [Next]_vars PROVE LoginInv'
  OBVIOUS
<1>1. CASE Handlers
  BY <1>1, HandlersInv
<1>2. CASE Restart
  BY <1>2, RestartInv
<1>3. CASE \E a \in Attempts : TaskStep(a) \/ TimePasses(a)
  BY <1>3, TaskStepInv, TimeInv
<1>4. CASE UNCHANGED vars
  <2>1. NamesAttempts'
    BY <1>4 DEF vars, store, LoginInv, NamesAttempts
  <2> QED BY <1>4, <2>1, StoreUntouched DEF vars, store
<1> QED BY <1>1, <1>2, <1>3, <1>4 DEF Next

\* However requests are repeated, cancelled, reset or raced by the login task and
\* by expiry, an account never has two open attempts, and the store knows the
\* open one as the current one (AuthAttemptStore in app/services/auth_attempts.py).
THEOREM OneLoginAtATime == Spec => []OneOpenAttempt
<1>1. LoginInv => OneOpenAttempt
  BY DEF LoginInv
<1> QED BY <1>1, InitLogin, NextLogin, PTL DEF Spec

--------------------------------------------------------------------------------
(* Logins and their tasks *)

LEMMA StageFacts ==
  /\ Open \cap Final = {} /\ "none" \notin Open \cup Final /\ Stages = {"none"} \cup Final \cup Open
  /\ Going \cap {"none", "done", "closing", "cancelled"} = {} /\ Going \subseteq Live
  /\ LastRevision \in Nat /\ MaxPasswords \in Nat \ {0} /\ None \notin Attempts
BY LoginAssumption DEF Open, Final, Stages, Going, Live, Busy, LastRevision

LEMMA MovesBounded ==
  ASSUME NEW stage \in Stages, NEW t \in 0..MaxPasswords
  PROVE  /\ Moves(stage, t) \in 0..LastRevision
         /\ stage \in Open \cup {"none"} => Moves(stage, t) < LastRevision
         /\ \A u \in 0..MaxPasswords : t <= u => Moves(stage, t) <= Moves(stage, u)
<1>1. MaxPasswords \in Nat /\ LastRevision = 5 + 2 * MaxPasswords /\ t \in Nat /\ t <= MaxPasswords
  BY LoginAssumption DEF LastRevision
<1>2. stage \in Open \cup {"none"} =>
        \/ stage \in {"none", "connecting"} \/ stage = "waiting_code" \/ stage = "verifying_code"
        \/ stage = "waiting_password" \/ stage = "verifying_password"
  BY DEF Open
<1> QED BY <1>1, <1>2 DEF Moves

LEMMA TypesFollow == LoginInv /\ TaskInv => LoginTypeOK
<1> SUFFICES ASSUME LoginInv, TaskInv PROVE LoginTypeOK
  OBVIOUS
<1>1. ASSUME NEW a \in Attempts
      PROVE  attempts[a] \in [stage : Stages, revision : 0..LastRevision, late : BOOLEAN,
                              receipts : SUBSET [command : Commands, id : InputIds]]
  <2>1. attempts[a] \in Memory
    BY DEF LoginInv
  <2>2. attempts[a].revision <= Moves(attempts[a].stage, Refused(a)) /\ Refused(a) \in 0..MaxPasswords
    BY DEF TaskInv, Counted
  <2>3. attempts[a].stage \in Stages /\ attempts[a].revision \in Nat
    BY <2>1 DEF Memory
  <2>4. Moves(attempts[a].stage, Refused(a)) \in 0..LastRevision
    BY <2>2, <2>3, MovesBounded
  <2>5. attempts[a].revision \in 0..LastRevision
    BY <2>2, <2>3, <2>4, StageFacts
  <2> QED BY <2>1, <2>5 DEF Memory
<1>2. attempts \in [Attempts -> [stage : Stages, revision : 0..LastRevision, late : BOOLEAN,
                                  receipts : SUBSET [command : Commands, id : InputIds]]]
  BY <1>1 DEF LoginInv
<1> QED BY <1>2 DEF LoginInv, NamesAttempts, TaskInv, RestTyped, LoginTypeOK

LEMMA TypesFollowAfter == LoginInv' /\ TaskInv' => LoginTypeOK'
BY TypesFollow, PTL

\* An attempt rests, or comes to its end.
Rests(a) == attempts'[a].stage = attempts[a].stage /\ attempts'[a].revision = attempts[a].revision
Comes(a, ends) ==
    /\ attempts[a].stage \in Open \cup {"none"} /\ attempts'[a].stage \in ends
    /\ attempts'[a].revision <= attempts[a].revision + 1
Ceases(ends) == \A a \in Attempts : Rests(a) \/ Comes(a, ends)

LEMMA SeenGoes ==
  ASSUME LoginInv, NEW a \in Attempts
  PROVE  \/ Seen(a).stage = attempts[a].stage /\ Seen(a).revision = attempts[a].revision
         \/ /\ attempts[a].stage \in Open /\ Seen(a).stage = "expired"
            /\ Seen(a).revision = attempts[a].revision + 1
BY DEF LoginInv, Memory, Seen

LEMMA LookCeases ==
  ASSUME LoginInv, NEW who, attempts' = Look(who)
  PROVE  Ceases({"expired"})
<1>1. ASSUME NEW a \in Attempts PROVE Rests(a) \/ Comes(a, {"expired"})
  <2>1. attempts'[a] \in {Seen(a), attempts[a]} /\ attempts[a].revision \in Nat
    BY DEF Look, LoginInv, Memory
  <2> QED BY <2>1, SeenGoes DEF Rests, Comes
<1> QED BY <1>1 DEF Ceases

LEMMA EndCeases ==
  ASSUME LoginInv, NEW a \in Attempts, NEW stage \in Final, NEW who, EndAttempt(a, stage, who)
  PROVE  /\ Ceases({"expired", stage}) /\ active' \in {active, None}
         /\ \A b \in Attempts \ {a} : Rests(b) \/ Comes(b, {"expired"})
         /\ rows' = [rows EXCEPT ![a] = Saved(attempts'[a])]
<1>0. attempts[a].revision \in Nat /\ attempts[a].stage \in Stages
  BY DEF LoginInv, Memory
<1>1. /\ attempts' = [Look(who) EXCEPT ![a] = Ended(a, stage)] /\ rows' = [rows EXCEPT ![a] = Saved(Ended(a, stage))]
      /\ active' \in {active, None}
  BY DEF EndAttempt, Save
<1>2. attempts'[a] = Ended(a, stage) /\ \A b \in Attempts \ {a} : attempts'[b] \in {Seen(b), attempts[b]}
  BY <1>1 DEF Look
<1>3. ASSUME NEW b \in Attempts \ {a} PROVE Rests(b) \/ Comes(b, {"expired"})
  <2>1. attempts[b].revision \in Nat
    BY DEF LoginInv, Memory
  <2> QED BY <1>2, <2>1, SeenGoes DEF Rests, Comes
<1>4. Rests(a) \/ Comes(a, {"expired", stage})
  <2>1. CASE Seen(a).stage \in Final
    BY <1>0, <1>2, <2>1, SeenGoes DEF Ended, Rests, Comes
  <2>2. CASE Seen(a).stage \notin Final
    <3>1. Seen(a) \in Memory /\ Seen(a).stage = attempts[a].stage /\ Seen(a).revision = attempts[a].revision
      BY <2>2, SeenGoes, SeenMemory DEF LoginInv, Final
    <3>2. Ended(a, stage).stage = stage /\ Ended(a, stage).revision = attempts[a].revision + 1
      BY <2>2, <3>1 DEF Ended, Moved, Memory
    <3>3. attempts[a].stage \in Open \cup {"none"}
      BY <1>0, <2>2, <3>1 DEF Stages
    <3> QED BY <1>0, <1>2, <3>2, <3>3 DEF Comes
  <2> QED BY <2>1, <2>2
<1>5. Ceases({"expired", stage})
  BY <1>3, <1>4 DEF Ceases, Comes
<1> QED BY <1>1, <1>2, <1>3, <1>5

\* A task rests or stops working with its attempt.
Works == Early \cup {"waitPassword", "checkPassword"}
Stops(a) == tried'[a] = tried[a] /\ (tasks'[a] = tasks[a] \/ tasks'[a] \notin Works)

LEMMA CeasingCounts ==
  ASSUME LoginInv, LoginInv', RestTyped, Counted, PasswordsLast, Ceases(Final), \A a \in Attempts : Stops(a)
  PROVE  Counted' /\ PasswordsLast'
<1>1. ASSUME NEW a \in Attempts
      PROVE  /\ Refused(a)' \in 0..MaxPasswords /\ (tasks'[a] = "waitPassword" => tried'[a] < MaxPasswords)
             /\ attempts'[a].revision <= Moves(attempts'[a].stage, Refused(a)')
             /\ tasks'[a] \in Early => attempts'[a].stage \notin {"waiting_password", "verifying_password"}
  <2>1. /\ Refused(a) \in 0..MaxPasswords /\ (tasks[a] = "waitPassword" => tried[a] < MaxPasswords)
        /\ attempts[a].revision <= Moves(attempts[a].stage, Refused(a))
        /\ attempts[a].revision \in Nat /\ attempts'[a].revision \in Nat
        /\ attempts[a].stage \in Stages /\ attempts'[a].stage \in Stages /\ tried[a] \in 0..MaxPasswords
    BY DEF Counted, LoginInv, Memory, RestTyped
  <2>2. Refused(a)' \in 0..MaxPasswords /\ Refused(a) <= Refused(a)'
    BY <2>1, StageFacts DEF Refused, Stops, Works
  <2>3. tasks'[a] \in Early \cup {"waitPassword"} => tasks'[a] = tasks[a]
    BY DEF Stops, Works
  <2>4. CASE Rests(a)
    <3>1. Moves(attempts[a].stage, Refused(a)) <= Moves(attempts[a].stage, Refused(a)')
      BY <2>1, <2>2, MovesBounded
    <3>2. /\ Moves(attempts[a].stage, Refused(a)) \in 0..LastRevision
          /\ Moves(attempts[a].stage, Refused(a)') \in 0..LastRevision
      BY <2>1, <2>2, MovesBounded
    <3> QED BY <2>1, <2>2, <2>3, <2>4, <3>1, <3>2 DEF Rests, Stops, PasswordsLast
  <2>5. CASE Comes(a, Final)
    <3>1. Moves(attempts[a].stage, Refused(a)) \in 0..LastRevision /\ Moves(attempts[a].stage, Refused(a)) < LastRevision
      BY <2>1, <2>5, MovesBounded DEF Comes
    <3>2. attempts'[a].stage \in Final /\ Moves(attempts'[a].stage, Refused(a)') = LastRevision
      BY <2>5 DEF Comes, Moves, Final
    <3>3. attempts'[a].revision <= LastRevision
      BY <2>1, <2>5, <3>1, StageFacts DEF Comes
    <3>4. attempts'[a].stage \notin {"waiting_password", "verifying_password"}
      BY <3>2 DEF Final
    <3> QED BY <2>1, <2>2, <2>3, <3>2, <3>3, <3>4 DEF Stops
  <2> QED BY <2>4, <2>5 DEF Ceases
<1> QED BY <1>1 DEF Counted, PasswordsLast

\* What the saved row of an attempt says is bounded as the attempt is.
LEMMA RowSaved ==
  ASSUME LoginInv', Counted', RestTyped, NEW a \in Attempts, rows' = [rows EXCEPT ![a] = Saved(attempts'[a])]
  PROVE  rows' \in [Attempts -> [stage : Stages, revision : 0..LastRevision]]
<1>1. attempts'[a].stage \in Stages /\ attempts'[a].revision \in Nat
  BY DEF LoginInv, Memory
<1>2. Refused(a)' \in 0..MaxPasswords /\ attempts'[a].revision <= Moves(attempts'[a].stage, Refused(a)')
  BY DEF Counted
<1>3. Moves(attempts'[a].stage, Refused(a)') \in 0..LastRevision
  BY <1>1, <1>2, MovesBounded
<1>4. attempts'[a].revision \in 0..LastRevision
  BY <1>1, <1>2, <1>3, StageFacts
<1>5. Saved(attempts'[a]) \in [stage : Stages, revision : 0..LastRevision]
  BY <1>1, <1>4 DEF Saved
<1> QED BY <1>5 DEF RestTyped

\* The registered login keeps its attempt and its inputs, or has stopped.
LEMMA LoginGoesOn ==
  ASSUME OneLogin, RestTyped, registered' = registered, active' \in {active, None},
         \A a \in Attempts : /\ tasks'[a] \in Going => tasks[a] \in Going
                             /\ tasks'[a] \in Live => tasks[a] \in Live,
         LoginRuns => /\ attempts'[registered].stage \notin {"none", "cancelled"}
                      /\ codes' \in Seq({registered}) /\ passwords' \in Seq({registered})
  PROVE  OneLogin'
<1>1. \A a \in Attempts : tasks'[a] \in Going => registered' = a
  BY DEF OneLogin
<1>2. ASSUME LoginRuns' PROVE LoginRuns
  BY <1>2 DEF LoginRuns, RestTyped
<1> QED BY <1>1, <1>2 DEF OneLogin

\* Cancelling the registered task leaves none that goes on.
LEMMA Stopping ==
  ASSUME OneLogin, RestTyped, StopLogin
  PROVE  /\ OneLogin' /\ registered' = None
         /\ tasks' \in [Attempts -> Live \cup {"none", "done"}]
         /\ \A a \in Attempts : tasks'[a] = tasks[a] \/ tasks'[a] \notin Going
<1>1. registered' = None /\ ~LoginRuns'
  BY DEF StopLogin, LoginRuns
<1>2. AfterCancel(registered) \in Live \ Going
  BY DEF AfterCancel, Live, Busy, Going
<1>3. tasks' \in [Attempts -> Live \cup {"none", "done"}]
  BY <1>2 DEF StopLogin, RestTyped
<1>4. ASSUME NEW a \in Attempts PROVE tasks'[a] \notin Going
  <2>1. CASE LoginRuns
    BY <1>2, <2>1 DEF StopLogin, OneLogin, RestTyped
  <2>2. CASE ~LoginRuns
    <3>1. tasks'[a] = tasks[a]
      BY <2>2 DEF StopLogin
    <3> QED BY <2>2, <3>1, StageFacts DEF OneLogin, LoginRuns
  <2> QED BY <2>1, <2>2
<1>5. OneLogin'
  BY <1>1, <1>4 DEF OneLogin
<1> QED BY <1>1, <1>3, <1>4, <1>5

--------------------------------------------------------------------------------
(* The steps of a login task *)

\* A task goes to its next place and the store stays: what it has had refused
\* does not go back.
LEMMA TaskMoves ==
  ASSUME LoginInv, TaskInv, NEW a \in Attempts, NEW to \in Live \cup {"done"},
         tasks' = [tasks EXCEPT ![a] = to], \A b \in Attempts \ {a} : tried'[b] = tried[b],
         UNCHANGED attempts,
         Refused(a)' \in 0..MaxPasswords /\ Refused(a) <= Refused(a)',
         to = "waitPassword" => tried'[a] < MaxPasswords,
         to \in Early => tasks[a] \in Early
  PROVE  Counted' /\ PasswordsLast'
<1>1. tasks'[a] = to /\ \A b \in Attempts \ {a} : tasks'[b] = tasks[b]
  BY DEF TaskInv, RestTyped
<1>2. ASSUME NEW b \in Attempts
      PROVE  /\ Refused(b)' \in 0..MaxPasswords /\ (tasks'[b] = "waitPassword" => tried'[b] < MaxPasswords)
             /\ attempts'[b].revision <= Moves(attempts'[b].stage, Refused(b)')
             /\ tasks'[b] \in Early => attempts'[b].stage \notin {"waiting_password", "verifying_password"}
  <2>1. /\ Refused(b) \in 0..MaxPasswords /\ (tasks[b] = "waitPassword" => tried[b] < MaxPasswords)
        /\ attempts[b].revision <= Moves(attempts[b].stage, Refused(b))
        /\ tasks[b] \in Early => attempts[b].stage \notin {"waiting_password", "verifying_password"}
        /\ attempts[b].revision \in Nat /\ attempts[b].stage \in Stages /\ attempts'[b] = attempts[b]
    BY DEF TaskInv, Counted, PasswordsLast, LoginInv, Memory
  <2>2. CASE b = a
    <3>1. /\ Moves(attempts[a].stage, Refused(a)) <= Moves(attempts[a].stage, Refused(a)')
          /\ Moves(attempts[a].stage, Refused(a)) \in 0..LastRevision
          /\ Moves(attempts[a].stage, Refused(a)') \in 0..LastRevision
      BY <2>1, <2>2, MovesBounded
    <3> QED BY <1>1, <2>1, <2>2, <3>1
  <2>3. CASE b # a
    <3>1. Refused(b)' = Refused(b)
      BY <1>1, <2>3 DEF Refused
    <3> QED BY <1>1, <2>1, <2>3, <3>1
  <2> QED BY <2>2, <2>3
<1> QED BY <1>2 DEF Counted, PasswordsLast

\* The queues keep inputs of their login when it takes the first or clears them.
LEMMA TakesFirst ==
  ASSUME NEW S, NEW q \in Seq(S)
  PROVE  <<>> \in Seq(S) /\ (q # <<>> => Tail(q) \in Seq(S) /\ Head(q) \in S)
OBVIOUS

LEMMA FirstIsOwn ==
  ASSUME NEW a, NEW q \in Seq({a}), q # <<>>
  PROVE  Head(q) = a
<1>1. Head(q) \in {a}
  BY TakesFirst
<1> QED BY <1>1

Quiet(a) ==
    \/ Begin(a) \/ GetClient(a) \/ TakeCode(a) \/ TakePassword(a)
    \/ Authenticated(a) \/ LoginFails(a) \/ EndCancelled(a)

LEMMA QuietMoves ==
  ASSUME LoginInv, TaskInv, NEW a \in Attempts, Quiet(a)
  PROVE  /\ UNCHANGED <<attempts, active, rows, registered, resets, deletion, status, restarts>>
         /\ Counted' /\ PasswordsLast'
         /\ \A b \in Attempts : (tasks'[b] \in Going => tasks[b] \in Going) /\ (tasks'[b] \in Live => tasks[b] \in Live)
         /\ tasks' \in [Attempts -> Live \cup {"none", "done"}] /\ tried' \in [Attempts -> 0..MaxPasswords]
<1>1. UNCHANGED <<attempts, active, rows, registered, resets, deletion, status, restarts>>
  BY DEF Quiet, Begin, GetClient, TakeCode, TakePassword, Authenticated, LoginFails, EndCancelled, store
<1>2. PICK to \in Live \cup {"done"} :
        /\ tasks' = [tasks EXCEPT ![a] = to] /\ to # "waitPassword"
        /\ to \in Early => tasks[a] \in Early
        /\ (to \in Going => tasks[a] \in Going) /\ (to \in Live => tasks[a] \in Live)
        /\ \/ to # "checkPassword" /\ UNCHANGED tried
           \/ /\ to = "checkPassword" /\ tasks[a] = "waitPassword"
              /\ tried' = [tried EXCEPT ![a] = @ + 1]
  BY DEF Quiet, Begin, GetClient, TakeCode, TakePassword, Authenticated, LoginFails, EndCancelled,
         At, Goto, Live, Busy, Going, Early
<1>3. /\ tasks \in [Attempts -> Live \cup {"none", "done"}] /\ tried \in [Attempts -> 0..MaxPasswords]
      /\ Refused(a) \in 0..MaxPasswords /\ (tasks[a] = "waitPassword" => tried[a] < MaxPasswords)
  BY DEF TaskInv, RestTyped, Counted
<1>4. /\ tried' \in [Attempts -> 0..MaxPasswords] /\ \A b \in Attempts \ {a} : tried'[b] = tried[b]
  BY <1>2, <1>3, StageFacts
<1>5. Refused(a)' \in 0..MaxPasswords /\ Refused(a) <= Refused(a)'
  BY <1>2, <1>3, StageFacts DEF Refused
<1>6. Counted' /\ PasswordsLast'
  BY <1>1, <1>2, <1>4, <1>5, TaskMoves
<1> QED BY <1>1, <1>2, <1>3, <1>4, <1>6

LEMMA QuietQueues ==
  ASSUME NEW S, codes \in Seq(S), passwords \in Seq(S), NEW a \in Attempts, Quiet(a)
  PROVE  codes' \in Seq(S) /\ passwords' \in Seq(S)
<1>1. codes' \in {codes, <<>>} \/ (codes # <<>> /\ codes' = Tail(codes))
  BY DEF Quiet, Begin, GetClient, TakeCode, TakePassword, Authenticated, LoginFails, EndCancelled, queues, Drain
<1>2. passwords' \in {passwords, <<>>} \/ (passwords # <<>> /\ passwords' = Tail(passwords))
  BY DEF Quiet, Begin, GetClient, TakeCode, TakePassword, Authenticated, LoginFails, EndCancelled, queues, Drain
<1> QED BY <1>1, <1>2, TakesFirst

LEMMA QuietTask ==
  ASSUME LoginInv, TaskInv, NEW a \in Attempts, Quiet(a)
  PROVE  TaskInv'
<1>1. codes' \in Seq(Attempts) /\ passwords' \in Seq(Attempts)
  BY QuietQueues DEF TaskInv, RestTyped
<1>2. LoginRuns => codes' \in Seq({registered}) /\ passwords' \in Seq({registered})
  BY QuietQueues DEF TaskInv, OneLogin
<1>3. RestTyped'
  BY <1>1, QuietMoves DEF TaskInv, RestTyped
<1>4. OneLogin'
  BY <1>2, QuietMoves, LoginGoesOn DEF TaskInv, OneLogin
<1> QED BY <1>3, <1>4, QuietMoves DEF TaskInv

\* The open attempt that a task asks an input for is its own.
LEMMA AsksItsOwn ==
  ASSUME LoginInv, TaskInv, NEW a \in Attempts, tasks[a] \in Going, NEW s \in Attempts, Seen(s).stage \in Open
  PROVE  s = a /\ Seen(s) = attempts[a]
<1>1. Seen(s) = attempts[s] /\ active = s
  BY SeenMemory DEF LoginInv, OneOpenAttempt
<1>2. registered = a /\ LoginRuns
  BY StageFacts DEF TaskInv, OneLogin, LoginRuns
<1>3. active \in {registered, None}
  BY <1>2 DEF TaskInv, OneLogin
<1> QED BY <1>1, <1>2, <1>3, StageFacts

\* What an input may be asked for: the attempt has moved no more often than one
\* waiting for it.
AskedInTurn(a, stages, waiting, next) ==
    /\ tasks[a] \in {"online", "sendCode", "checkPassword"} /\ stages \subseteq Open
    /\ waiting \in {"waiting_code", "waiting_password"} /\ next \in {"waitCode", "waitPassword", "failing"}
    /\ next = "waitPassword" => tried[a] < MaxPasswords
    /\ next = "waitCode" => tasks[a] = "online" /\ waiting = "waiting_code"
    /\ attempts[a].stage \in stages =>
          /\ attempts[a].revision <= Moves(waiting, tried[a])
          /\ attempts[a].stage # waiting => attempts[a].revision + 1 <= Moves(waiting, tried[a])

LEMMA AskingCounts ==
  ASSUME LoginInv, LoginInv', TaskInv, NEW a \in Attempts, NEW stages, NEW waiting, NEW next,
         AskedInTurn(a, stages, waiting, next), AwaitInput(a, stages, waiting, next), UNCHANGED tried
  PROVE  /\ Counted' /\ PasswordsLast'
         /\ tasks' \in {[tasks EXCEPT ![a] = next], [tasks EXCEPT ![a] = "failing"]}
         /\ rows' = rows \/ rows' = [rows EXCEPT ![a] = Saved(attempts'[a])]
         /\ \A b \in Attempts : attempts'[b].stage = "cancelled" => attempts[b].stage = "cancelled"
         /\ \A b \in Attempts : attempts'[b].stage = "none" => attempts[b].stage = "none"
<1> DEFINE s == session.attempt
           x == IF Seen(s).stage = waiting THEN Seen(s) ELSE Moved(Seen(s), waiting)
<1>1. /\ tasks[a] \in {"online", "sendCode", "checkPassword"} /\ stages \subseteq Open
      /\ waiting \in {"waiting_code", "waiting_password"} /\ next \in {"waitCode", "waitPassword", "failing"}
      /\ next = "waitPassword" => tried[a] < MaxPasswords
      /\ next = "waitCode" => tasks[a] = "online" /\ waiting = "waiting_code"
  BY DEF AskedInTurn
<1>2. /\ tasks \in [Attempts -> Live \cup {"none", "done"}] /\ tried[a] \in 0..MaxPasswords
      /\ Refused(a) \in 0..MaxPasswords
  BY DEF TaskInv, RestTyped, Counted
<1>3. tasks[a] \in Going /\ {next, "failing"} \subseteq Live
  BY <1>1 DEF Going, Live, Busy
<1>4. ASSUME NEW to \in {next, "failing"}, tasks' = [tasks EXCEPT ![a] = to]
      PROVE  /\ Refused(a)' = tried[a] /\ Refused(a) <= Refused(a)'
             /\ to = "waitPassword" => tried'[a] < MaxPasswords
             /\ to \in Early => tasks[a] \in Early
  BY <1>1, <1>2, <1>4, StageFacts DEF Refused, Early
<1>5. CASE s = None
  <2>1. Goto(a, next) /\ UNCHANGED <<attempts, rows>>
    BY <1>5 DEF AwaitInput
  <2>2. tasks' = [tasks EXCEPT ![a] = next]
    BY <2>1 DEF Goto
  <2> QED BY <1>2, <1>3, <1>4, <2>1, <2>2, TaskMoves
<1>6. CASE s # None /\ Seen(s).stage \in stages
  <2>1. s \in Attempts
    BY <1>6 DEF LoginInv, NamesAttempts
  <2>2. s = a /\ Seen(s) = attempts[a]
    BY <1>1, <1>3, <1>6, <2>1, AsksItsOwn
  <2>3. attempts' = [attempts EXCEPT ![a] = x] /\ rows' = [rows EXCEPT ![a] = Saved(x)] /\ tasks' = [tasks EXCEPT ![a] = next]
    BY <1>6, <2>2 DEF AwaitInput, Save, Goto
  <2>4. attempts[a] \in Memory /\ attempts' \in [Attempts -> Memory] /\ attempts \in [Attempts -> Memory]
    BY DEF LoginInv
  <2>5. attempts'[a] = x
    BY <2>3, <2>4
  <2>6. x.stage = waiting /\ x.revision <= Moves(waiting, tried[a])
    <3>1. CASE Seen(s).stage = waiting
      BY <1>6, <2>2, <3>1 DEF AskedInTurn
    <3>2. CASE Seen(s).stage # waiting
      BY <1>6, <2>2, <2>4, <3>2 DEF AskedInTurn, Moved, Memory
    <3> QED BY <3>1, <3>2
  <2> HIDE DEF x
  <2>7. ASSUME NEW b \in Attempts
        PROVE  /\ Refused(b)' \in 0..MaxPasswords /\ (tasks'[b] = "waitPassword" => tried'[b] < MaxPasswords)
               /\ attempts'[b].revision <= Moves(attempts'[b].stage, Refused(b)')
               /\ tasks'[b] \in Early => attempts'[b].stage \notin {"waiting_password", "verifying_password"}
    <3>1. CASE b = a
      <4>1. tasks'[a] = next
        BY <1>2, <2>3
      <4>2. next \in Early => waiting = "waiting_code"
        BY <1>1 DEF Early
      <4> QED BY <1>2, <1>4, <2>3, <2>5, <2>6, <3>1, <4>1, <4>2
    <3>2. CASE b # a
      <4>1. attempts'[b] = attempts[b] /\ tasks'[b] = tasks[b] /\ Refused(b)' = Refused(b)
        BY <2>3, <3>2, <1>2 DEF Refused, LoginInv
      <4> QED BY <4>1 DEF TaskInv, Counted, PasswordsLast
    <3> QED BY <3>1, <3>2
  <2>8. \A b \in Attempts : b # a => attempts'[b] = attempts[b]
    BY <2>3, <2>4
  <2>9. attempts'[a].stage \notin {"cancelled", "none"}
    BY <1>1, <2>5, <2>6
  <2>10. Counted' /\ PasswordsLast'
    BY <2>7 DEF Counted, PasswordsLast
  <2> QED BY <2>3, <2>5, <2>8, <2>9, <2>10
<1>7. CASE s # None /\ Seen(s).stage \notin stages
  <2>1. attempts' = Look({s}) /\ Goto(a, "failing") /\ UNCHANGED rows
    BY <1>7 DEF AwaitInput
  <2>2. Ceases({"expired"})
    BY <2>1, LookCeases
  <2>3. tasks' = [tasks EXCEPT ![a] = "failing"]
    BY <2>1 DEF Goto
  <2>4. \A b \in Attempts : Rests(b) \/ Comes(b, {"expired"})
    BY <2>2 DEF Ceases
  <2>5. Ceases(Final)
    BY <2>4 DEF Ceases, Comes, Final
  <2>6. ASSUME NEW b \in Attempts
        PROVE  /\ attempts'[b].stage = "cancelled" => attempts[b].stage = "cancelled"
               /\ attempts'[b].stage = "none" => attempts[b].stage = "none"
    BY <2>4 DEF Rests, Comes
  <2>7. \A b \in Attempts : Stops(b)
    BY <1>2, <2>3 DEF Stops, Works, Early
  <2>8. Counted' /\ PasswordsLast'
    BY <2>5, <2>7, CeasingCounts DEF TaskInv
  <2> QED BY <2>1, <2>3, <2>6, <2>8
<1> QED BY <1>5, <1>6, <1>7

LEMMA AsksInput ==
  ASSUME LoginInv, LoginInv', TaskInv, NEW a \in Attempts, NEW stages, NEW waiting, NEW next,
         AskedInTurn(a, stages, waiting, next), AwaitInput(a, stages, waiting, next),
         UNCHANGED <<active, queues, tried, registered, resets, deletion, status, restarts>>
  PROVE  TaskInv'
<1>1. /\ Counted' /\ PasswordsLast'
      /\ tasks' \in {[tasks EXCEPT ![a] = next], [tasks EXCEPT ![a] = "failing"]}
      /\ rows' = rows \/ rows' = [rows EXCEPT ![a] = Saved(attempts'[a])]
      /\ \A b \in Attempts : attempts'[b].stage = "cancelled" => attempts[b].stage = "cancelled"
      /\ \A b \in Attempts : attempts'[b].stage = "none" => attempts[b].stage = "none"
  BY AskingCounts
<1>2. tasks[a] \in Going /\ next \in Going /\ tasks \in [Attempts -> Live \cup {"none", "done"}]
  BY DEF AskedInTurn, TaskInv, RestTyped, Going, Live, Busy
<1>3. PICK to \in Going : tasks' = [tasks EXCEPT ![a] = to]
  BY <1>1, <1>2 DEF Going, Live, Busy
<1>4. rows' \in [Attempts -> [stage : Stages, revision : 0..LastRevision]]
  BY <1>1, RowSaved DEF TaskInv, RestTyped
<1>5. RestTyped'
  <2>1. tasks' \in [Attempts -> Live \cup {"none", "done"}]
    BY <1>2, <1>3, StageFacts
  <2> QED BY <1>4, <2>1 DEF TaskInv, RestTyped, queues
<1>6. \A b \in Attempts : (tasks'[b] \in Going => tasks[b] \in Going) /\ (tasks'[b] \in Live => tasks[b] \in Live)
  BY <1>2, <1>3, StageFacts
<1>7. LoginRuns => /\ attempts'[registered].stage \notin {"none", "cancelled"}
                   /\ codes' \in Seq({registered}) /\ passwords' \in Seq({registered})
  BY <1>1 DEF TaskInv, RestTyped, OneLogin, LoginRuns, queues
<1>8. OneLogin'
  BY <1>6, <1>7, LoginGoesOn DEF TaskInv
<1> QED BY <1>1, <1>5, <1>8 DEF TaskInv

LEMMA AskCodeTask ==
  ASSUME LoginInv, LoginInv', TaskInv, NEW a \in Attempts, AskCode(a)
  PROVE  TaskInv'
<1> DEFINE stages == {"connecting", "waiting_code"}
<1>1. /\ tasks[a] = "online" /\ AwaitInput(a, stages, "waiting_code", "waitCode")
      /\ UNCHANGED <<active, queues, tried, registered, resets, deletion, status, restarts>>
  BY DEF AskCode, At
<1>2. attempts[a].revision <= Moves(attempts[a].stage, Refused(a)) /\ attempts[a].revision \in Nat
  BY DEF TaskInv, Counted, LoginInv, Memory
<1>3. attempts[a].stage \in stages =>
        /\ attempts[a].revision <= Moves("waiting_code", tried[a])
        /\ attempts[a].stage # "waiting_code" => attempts[a].revision + 1 <= Moves("waiting_code", tried[a])
  BY <1>2 DEF Moves
<1>4. AskedInTurn(a, stages, "waiting_code", "waitCode")
  BY <1>1, <1>3 DEF AskedInTurn, Open
<1> QED BY <1>1, <1>4, AsksInput

\* A password is asked for when the code has been tried, or the last password:
\* twice for each, and each counts.
LEMMA AskPasswordTask ==
  ASSUME LoginInv, LoginInv', TaskInv, NEW a \in Attempts, AskPassword(a)
  PROVE  TaskInv'
<1> DEFINE next == IF tried[a] = MaxPasswords THEN "failing" ELSE "waitPassword"
<1>1. /\ tasks[a] \in {"sendCode", "checkPassword"} /\ AwaitInput(a, PasswordStages, "waiting_password", next)
      /\ UNCHANGED <<active, queues, tried, registered, resets, deletion, status, restarts>>
  BY DEF AskPassword, At
<1>2. /\ attempts[a].revision <= Moves(attempts[a].stage, Refused(a)) /\ attempts[a].revision \in Nat
      /\ tried[a] \in 0..MaxPasswords /\ Refused(a) \in 0..MaxPasswords
      /\ tasks[a] = "sendCode" => attempts[a].stage \notin {"waiting_password", "verifying_password"}
  BY DEF TaskInv, Counted, LoginInv, Memory, RestTyped, PasswordsLast, Early
<1>3. attempts[a].stage \in PasswordStages =>
        /\ attempts[a].revision <= Moves("waiting_password", tried[a])
        /\ attempts[a].stage # "waiting_password" => attempts[a].revision + 1 <= Moves("waiting_password", tried[a])
  <2>1. CASE attempts[a].stage = "verifying_code"
    BY <1>2, <2>1, StageFacts DEF Moves
  <2>2. CASE attempts[a].stage \in {"waiting_password", "verifying_password"}
    <3>1. Refused(a) = tried[a] - 1
      BY <1>1, <1>2, <2>2 DEF Refused
    <3> QED BY <1>2, <2>2, <3>1, StageFacts DEF Moves
  <2> QED BY <2>1, <2>2 DEF PasswordStages
<1>4. AskedInTurn(a, PasswordStages, "waiting_password", next)
  BY <1>1, <1>2, <1>3, StageFacts DEF AskedInTurn, Open, PasswordStages
<1> QED BY <1>1, <1>4, AsksInput

\* A login that has ended records how, on the attempt its session names.
LEMMA FinishTask ==
  ASSUME LoginInv, LoginInv', TaskInv, NEW a \in Attempts, tasks[a] \in Live, Goto(a, "done"),
         NEW stage \in {"succeeded", "error"}, Finish(stage), status' \in {"active", "needs_reauth"},
         UNCHANGED <<queues, tried, registered, resets, deletion, restarts>>
  PROVE  TaskInv'
<1>1. tasks' = [tasks EXCEPT ![a] = "done"] /\ tasks \in [Attempts -> Live \cup {"none", "done"}]
  BY DEF Goto, TaskInv, RestTyped
<1>2. stage \in Final /\ "done" \notin Works \cup Live
  BY DEF Final, Works, Early, Live, Busy
<1>3. /\ \A b \in Attempts : Rests(b) \/ Comes(b, {"expired", stage})
      /\ active' \in {active, None}
      /\ rows' = rows \/ \E b \in Attempts : rows' = [rows EXCEPT ![b] = Saved(attempts'[b])]
  <2>1. CASE session.attempt = None
    BY <2>1 DEF Finish, Rests
  <2>2. CASE session.attempt # None
    <3>1. session.attempt \in Attempts /\ EndAttempt(session.attempt, stage, {})
      BY <2>2 DEF Finish, LoginInv, NamesAttempts
    <3> QED BY <1>2, <3>1, EndCeases DEF Ceases
  <2> QED BY <2>1, <2>2
<1>4. Ceases(Final)
  BY <1>2, <1>3 DEF Ceases, Comes, Final
<1>5. \A b \in Attempts : Stops(b)
  BY <1>1, <1>2 DEF Stops
<1>6. Counted' /\ PasswordsLast'
  BY <1>4, <1>5, CeasingCounts DEF TaskInv
<1>7. rows' \in [Attempts -> [stage : Stages, revision : 0..LastRevision]]
  BY <1>3, <1>6, RowSaved DEF TaskInv, RestTyped
<1>8. RestTyped'
  <2>1. tasks' \in [Attempts -> Live \cup {"none", "done"}]
    BY <1>1
  <2>2. active' \in Attempts \cup {None}
    BY <1>3 DEF TaskInv, RestTyped
  <2> QED BY <1>7, <2>1, <2>2 DEF TaskInv, RestTyped, queues
<1>9. \A b \in Attempts : (tasks'[b] \in Going => tasks[b] \in Going) /\ (tasks'[b] \in Live => tasks[b] \in Live)
  BY <1>1, <1>2, StageFacts
<1>10. LoginRuns => /\ attempts'[registered].stage \notin {"none", "cancelled"}
                    /\ codes' \in Seq({registered}) /\ passwords' \in Seq({registered})
  BY <1>3 DEF TaskInv, RestTyped, OneLogin, LoginRuns, queues, Rests, Comes
<1>11. OneLogin'
  BY <1>3, <1>9, <1>10, LoginGoesOn DEF TaskInv
<1> QED BY <1>6, <1>8, <1>11 DEF TaskInv

LEMMA TaskStepTasks ==
  ASSUME LoginInv, LoginInv', TaskInv, NEW a \in Attempts, TaskStep(a)
  PROVE  TaskInv'
<1>1. CASE Activate(a)
  <2>1. tasks[a] \in Live /\ status' \in {"active", "needs_reauth"}
    BY <1>1 DEF Activate, At, Live, Busy
  <2> QED BY <1>1, <2>1, FinishTask DEF Activate
<1>2. CASE RecordFailure(a)
  <2>1. tasks[a] \in Live /\ status' \in {"active", "needs_reauth"}
    BY <1>2 DEF RecordFailure, At, Live, Busy
  <2> QED BY <1>2, <2>1, FinishTask DEF RecordFailure
<1> QED BY <1>1, <1>2, AskCodeTask, AskPasswordTask, QuietTask DEF TaskStep, Quiet

--------------------------------------------------------------------------------
(* Requests and their tasks *)

\* Requests that leave the tasks alone, and end no attempt but by its deadline.
LEMMA TasksStay ==
  ASSUME LoginInv, LoginInv', TaskInv, Ceases({"expired"}), active' = active,
         UNCHANGED <<rows, running, restarts>>, resets' \subseteq resets,
         deletion' \in [on : BOOLEAN, task : Attempts \cup {None}], status' \in {"pending", status},
         UNCHANGED queues \/ Drain
  PROVE  TaskInv'
<1>1. \A b \in Attempts : Rests(b) \/ Comes(b, {"expired"})
  BY DEF Ceases
<1>2. Ceases(Final)
  BY <1>1 DEF Ceases, Comes, Final
<1>3. Counted' /\ PasswordsLast'
  BY <1>2, CeasingCounts DEF TaskInv, running, Stops
<1>4. codes' \in {codes, <<>>} /\ passwords' \in {passwords, <<>>}
  BY DEF queues, Drain
<1>5. RestTyped'
  <2>1. <<>> \in Seq(Attempts)
    OBVIOUS
  <2>2. codes' \in Seq(Attempts) /\ passwords' \in Seq(Attempts)
    BY <1>4, <2>1 DEF TaskInv, RestTyped
  <2> QED BY <2>2 DEF TaskInv, RestTyped, running
<1>6. LoginRuns => /\ attempts'[registered].stage \notin {"none", "cancelled"}
                   /\ codes' \in Seq({registered}) /\ passwords' \in Seq({registered})
  <2>1. <<>> \in Seq({registered})
    OBVIOUS
  <2>2. LoginRuns => codes' \in Seq({registered}) /\ passwords' \in Seq({registered})
    BY <1>4, <2>1 DEF TaskInv, OneLogin
  <2>3. LoginRuns => attempts'[registered].stage \notin {"none", "cancelled"}
    BY <1>1 DEF TaskInv, RestTyped, OneLogin, LoginRuns, Rests, Comes
  <2> QED BY <2>2, <2>3
<1>7. OneLogin'
  BY <1>6, LoginGoesOn DEF TaskInv, running
<1> QED BY <1>3, <1>5, <1>7 DEF TaskInv

LEMMA LookersTasks ==
  ASSUME LoginInv, LoginInv', TaskInv, NEW who, attempts' = Look(who), active' = active,
         UNCHANGED <<rows, queues, running, resets, deletion, status, restarts>>
  PROVE  TaskInv'
<1>1. Ceases({"expired"})
  BY LookCeases
<1> QED BY <1>1, TasksStay DEF TaskInv, RestTyped

LEMMA TimeTasks ==
  ASSUME LoginInv, LoginInv', TaskInv, NEW a \in Attempts, TimePasses(a)
  PROVE  TaskInv'
<1>1. \A b \in Attempts : attempts'[b].stage = attempts[b].stage /\ attempts'[b].revision = attempts[b].revision
  BY DEF TimePasses, LoginInv, Memory
<1>2. Ceases({"expired"})
  BY <1>1 DEF Ceases, Rests
<1> QED BY <1>2, TasksStay DEF TimePasses, TaskInv, RestTyped

\* A fresh login finds no task that goes on, and drains what was queued.
LEMMA StartTasks ==
  ASSUME LoginInv, LoginInv', TaskInv, NEW i \in StartIds, NEW a \in Attempts, StartLogin(i, a)
  PROVE  TaskInv'
<1>1. /\ ~LoginRuns /\ attempts[a].stage = "none"
      /\ attempts' = [Look(Current) EXCEPT ![a] = NewAttempt] /\ active' = a
      /\ rows' = [rows EXCEPT ![a] = Saved(NewAttempt)] /\ codes' = <<>> /\ passwords' = <<>>
      /\ tasks' = [tasks EXCEPT ![a] = "begin"] /\ registered' = a
      /\ UNCHANGED <<tried, resets, deletion, status, restarts>>
  BY DEF StartLogin, CanStart, Save, Drain, Goto
<1>2. \A b \in Attempts : tasks[b] \notin Going
  BY <1>1, StageFacts DEF TaskInv, OneLogin, LoginRuns
<1>3. attempts'[a] = NewAttempt /\ \A b \in Attempts \ {a} : attempts'[b] = Look(Current)[b]
  BY <1>1 DEF Look
<1>4. tasks \in [Attempts -> Live \cup {"none", "done"}] /\ tried \in [Attempts -> 0..MaxPasswords]
  BY DEF TaskInv, RestTyped
<1>5. tasks'[a] = "begin" /\ \A b \in Attempts \ {a} : tasks'[b] = tasks[b]
  BY <1>1, <1>4
<1>6. NewAttempt.stage = "connecting" /\ NewAttempt.revision = 0
  BY DEF NewAttempt, NoAttempt
<1>7. "checkPassword" \in Going /\ "waitPassword" \in Going /\ Early \subseteq Going /\ "begin" \in Live
  BY DEF Early, Going, Live, Busy
<1>8. ASSUME NEW b \in Attempts
      PROVE  /\ Refused(b)' \in 0..MaxPasswords /\ (tasks'[b] = "waitPassword" => tried'[b] < MaxPasswords)
             /\ attempts'[b].revision <= Moves(attempts'[b].stage, Refused(b)')
             /\ tasks'[b] \in Early => attempts'[b].stage \notin {"waiting_password", "verifying_password"}
  <2>1. CASE b = a
    <3>1. Refused(a)' = tried[a]
      BY <1>1, <1>5 DEF Refused
    <3>2. attempts'[a].stage = "connecting" /\ attempts'[a].revision = 0
      BY <1>3, <1>6
    <3> QED BY <1>4, <1>5, <2>1, <3>1, <3>2, StageFacts DEF Moves
  <2>2. CASE b # a
    <3>1. Refused(b)' = tried[b] /\ Refused(b) = tried[b] /\ tasks'[b] \notin Going
      BY <1>1, <1>2, <1>5, <1>7, <2>2 DEF Refused
    <3>2. attempts[b].revision <= Moves(attempts[b].stage, tried[b]) /\ attempts[b].revision \in Nat
          /\ attempts[b].stage \in Stages /\ tried[b] \in 0..MaxPasswords
      BY <1>4, <3>1 DEF TaskInv, Counted, LoginInv, Memory
    <3>3. CASE attempts'[b].stage = attempts[b].stage /\ attempts'[b].revision = attempts[b].revision
      BY <1>7, <3>1, <3>2, <3>3
    <3>4. CASE ~(attempts'[b].stage = attempts[b].stage /\ attempts'[b].revision = attempts[b].revision)
      <4>1. attempts'[b] = Seen(b)
        BY <1>3, <2>2, <3>4 DEF Look
      <4>2. /\ attempts[b].stage \in Open /\ attempts'[b].stage = "expired"
            /\ attempts'[b].revision = attempts[b].revision + 1
        BY <3>4, <4>1, SeenGoes
      <4>3. Moves(attempts[b].stage, tried[b]) \in 0..LastRevision /\ Moves(attempts[b].stage, tried[b]) < LastRevision
        BY <3>2, <4>2, MovesBounded
      <4>4. attempts'[b].revision <= LastRevision /\ Moves("expired", tried[b]) = LastRevision
        BY <3>2, <4>2, <4>3, StageFacts DEF Moves
      <4> QED BY <1>7, <3>1, <3>2, <4>2, <4>4
    <3> QED BY <3>3, <3>4
  <2> QED BY <2>1, <2>2
<1>9. Counted' /\ PasswordsLast'
  BY <1>8 DEF Counted, PasswordsLast
<1>10. rows' \in [Attempts -> [stage : Stages, revision : 0..LastRevision]]
  BY <1>1, <1>3, <1>9, RowSaved DEF TaskInv
<1>11. <<>> \in Seq(Attempts) /\ <<>> \in Seq({a})
  BY TakesFirst
<1>12. RestTyped'
  <2>1. tasks' \in [Attempts -> Live \cup {"none", "done"}]
    BY <1>1, <1>4, <1>7
  <2> QED BY <1>1, <1>10, <1>11, <2>1 DEF TaskInv, RestTyped
<1>13. OneLogin'
  <2>1. \A b \in Attempts : tasks'[b] \in Going => registered' = b
    BY <1>1, <1>2, <1>5
  <2>2. active' = registered' /\ attempts'[registered'].stage \notin {"none", "cancelled"}
    BY <1>1, <1>3, <1>6
  <2> QED BY <1>1, <1>11, <2>1, <2>2 DEF OneLogin
<1> QED BY <1>9, <1>12, <1>13 DEF TaskInv

\* An input is accepted for the attempt that waits for it, and one that waits is
\* the current one: the registered login's, if a login runs.
LEMMA SubmitCounts ==
  ASSUME LoginInv, LoginInv', TaskInv, NEW c \in Commands, NEW a \in Attempts, NEW i \in InputIds, NEW r,
         Submit(c, a, r, i)
  PROVE  /\ Counted' /\ PasswordsLast' /\ active = a
         /\ rows' = [rows EXCEPT ![a] = Saved(attempts'[a])]
         /\ \A b \in Attempts : attempts'[b].stage \in {"none", "cancelled"} => attempts'[b].stage = attempts[b].stage
<1> DEFINE y == Moved(Seen(a), Verifying(c))
           z == [y EXCEPT !.receipts = @ \cup {[command |-> c, id |-> i]}]
<1>1. /\ Seen(a).stage = Waiting(c) /\ attempts' = [attempts EXCEPT ![a] = z]
      /\ rows' = [rows EXCEPT ![a] = Saved(y)] /\ UNCHANGED running
  BY DEF Submit, Save
<1>2. Waiting(c) \in Open
  BY DEF Waiting, Open
<1>3. Seen(a) = attempts[a] /\ attempts[a].stage \in Open /\ active = a
  BY <1>1, <1>2, SeenMemory DEF LoginInv, OneOpenAttempt
<1>4. attempts \in [Attempts -> Memory] /\ attempts[a] \in Memory
  BY DEF LoginInv
<1>5. /\ attempts'[a].stage = Verifying(c) /\ attempts'[a].revision = attempts[a].revision + 1
      /\ Saved(attempts'[a]) = Saved(y) /\ attempts'[a] = z
  BY <1>1, <1>3, <1>4 DEF Moved, Memory, Saved
<1>6. \A b \in Attempts \ {a} : attempts'[b] = attempts[b]
  BY <1>1, <1>4
<1>7. ASSUME NEW b \in Attempts
      PROVE  /\ Refused(b)' \in 0..MaxPasswords /\ (tasks'[b] = "waitPassword" => tried'[b] < MaxPasswords)
             /\ attempts'[b].revision <= Moves(attempts'[b].stage, Refused(b)')
             /\ tasks'[b] \in Early => attempts'[b].stage \notin {"waiting_password", "verifying_password"}
  <2>1. /\ Refused(b)' = Refused(b) /\ tasks'[b] = tasks[b] /\ tried'[b] = tried[b]
        /\ Refused(b) \in 0..MaxPasswords /\ (tasks[b] = "waitPassword" => tried[b] < MaxPasswords)
        /\ attempts[b].revision <= Moves(attempts[b].stage, Refused(b)) /\ attempts[b].revision \in Nat
        /\ tasks[b] \in Early => attempts[b].stage \notin {"waiting_password", "verifying_password"}
    BY <1>1 DEF running, Refused, TaskInv, Counted, PasswordsLast, LoginInv, Memory
  <2>2. CASE b = a
    <3>1. attempts[a].stage = Waiting(c)
      BY <1>1, <1>3
    <3>2. Moves(Verifying(c), Refused(a)) = Moves(Waiting(c), Refused(a)) + 1
      BY <2>1, <2>2, StageFacts DEF Waiting, Verifying, Moves
    <3>3. Moves(Waiting(c), Refused(a)) \in Nat
      BY <2>1, <2>2, StageFacts DEF Waiting, Moves
    <3>4. attempts'[a].revision <= Moves(attempts'[a].stage, Refused(a)')
      BY <1>5, <2>1, <2>2, <3>1, <3>2, <3>3
    <3>5. Verifying(c) \in {"waiting_password", "verifying_password"} => Waiting(c) = "waiting_password"
      BY DEF Waiting, Verifying
    <3> QED BY <1>5, <2>1, <2>2, <3>1, <3>4, <3>5
  <2>3. CASE b # a
    BY <1>6, <2>1, <2>3
  <2> QED BY <2>2, <2>3
<1>8. Verifying(c) \notin {"none", "cancelled"}
  BY DEF Verifying
<1>9. \A b \in Attempts : attempts'[b].stage \in {"none", "cancelled"} => attempts'[b].stage = attempts[b].stage
  BY <1>5, <1>6, <1>8
<1>10. Counted' /\ PasswordsLast'
  BY <1>7 DEF Counted, PasswordsLast
<1> QED BY <1>1, <1>3, <1>5, <1>9, <1>10

LEMMA Puts ==
  ASSUME NEW S, NEW a \in S, codes \in Seq(S), passwords \in Seq(S), NEW c \in Commands, Put(c, a)
  PROVE  codes' \in Seq(S) /\ passwords' \in Seq(S)
<1>1. ASSUME NEW q \in Seq(S) PROVE Append(q, a) \in Seq(S)
  OBVIOUS
<1>2. CASE c = "code"
  <2>1. codes' = Append(codes, a) /\ passwords' = passwords
    BY <1>2 DEF Put
  <2> QED BY <1>1, <2>1, Zenon
<1>3. CASE c # "code"
  <2>1. passwords' = Append(passwords, a) /\ codes' = codes
    BY <1>3 DEF Put
  <2> QED BY <1>1, <2>1, Zenon
<1> QED BY <1>2, <1>3

LEMMA SubmitTasks ==
  ASSUME LoginInv, LoginInv', TaskInv, NEW c \in Commands, NEW a \in Attempts, NEW i \in InputIds, NEW r,
         Submit(c, a, r, i)
  PROVE  TaskInv'
<1>1. /\ Counted' /\ PasswordsLast' /\ active = a
      /\ rows' = [rows EXCEPT ![a] = Saved(attempts'[a])]
      /\ \A b \in Attempts : attempts'[b].stage \in {"none", "cancelled"} => attempts'[b].stage = attempts[b].stage
  BY SubmitCounts
<1>2. Put(c, a) /\ UNCHANGED <<active, running, resets, deletion, status, restarts>>
  BY DEF Submit
<1>3. codes' \in Seq(Attempts) /\ passwords' \in Seq(Attempts)
  BY <1>2, Puts DEF TaskInv, RestTyped
<1>4. ASSUME LoginRuns
      PROVE  codes' \in Seq({registered}) /\ passwords' \in Seq({registered})
  <2>1. a \in {registered} /\ codes \in Seq({registered}) /\ passwords \in Seq({registered})
    BY <1>1, <1>4, StageFacts DEF TaskInv, OneLogin
  <2> QED BY <1>2, <2>1, Puts
<1>5. rows' \in [Attempts -> [stage : Stages, revision : 0..LastRevision]]
  BY <1>1, RowSaved DEF TaskInv
<1>6. RestTyped'
  BY <1>2, <1>3, <1>5 DEF TaskInv, RestTyped, running
<1>7. LoginRuns => attempts'[registered].stage \notin {"none", "cancelled"}
  BY <1>1 DEF TaskInv, RestTyped, OneLogin, LoginRuns
<1>8. OneLogin'
  BY <1>2, <1>4, <1>7, LoginGoesOn DEF TaskInv, running
<1> QED BY <1>1, <1>6, <1>8 DEF TaskInv

\* Ending attempts, with the registered task stopped or left as it is.
LEMMA EndingTasks ==
  ASSUME LoginInv, LoginInv', TaskInv, Ceases(Final), active' \in {active, None}, OneLogin',
         rows' = rows \/ \E b \in Attempts : rows' = [rows EXCEPT ![b] = Saved(attempts'[b])],
         tasks' \in [Attempts -> Live \cup {"none", "done"}], registered' \in {registered, None},
         \A b \in Attempts : tasks'[b] = tasks[b] \/ tasks'[b] \notin Going, tried' = tried,
         codes' \in {codes, <<>>}, passwords' \in {passwords, <<>>}, resets' \subseteq Attempts,
         deletion' \in [on : BOOLEAN, task : Attempts \cup {None}], UNCHANGED <<status, restarts>>
  PROVE  TaskInv'
<1>1. Works \subseteq Going
  BY DEF Works, Early, Going, Live, Busy
<1>2. Counted' /\ PasswordsLast'
  BY <1>1, CeasingCounts DEF TaskInv, Stops
<1>3. rows' \in [Attempts -> [stage : Stages, revision : 0..LastRevision]]
  BY <1>2, RowSaved DEF TaskInv, RestTyped
<1>4. codes' \in Seq(Attempts) /\ passwords' \in Seq(Attempts)
  <2>1. <<>> \in Seq(Attempts)
    OBVIOUS
  <2> QED BY <2>1 DEF TaskInv, RestTyped
<1>5. active' \in Attempts \cup {None} /\ registered' \in Attempts \cup {None}
  BY DEF TaskInv, RestTyped
<1> QED BY <1>2, <1>3, <1>4, <1>5 DEF TaskInv, RestTyped

\* Cancelling the current attempt stops the login; cancelling another leaves the
\* login its attempt, which, if it is that one, has ended already.
LEMMA CancelTasks ==
  ASSUME LoginInv, LoginInv', TaskInv, NEW a \in Attempts, Cancel(a)
  PROVE  TaskInv'
<1>1. /\ EndAttempt(a, "cancelled", Current) /\ "cancelled" \in Final /\ "expired" \in Final
      /\ UNCHANGED <<queues, tried, resets, deletion, status, restarts>>
  BY DEF Cancel, Final
<1>2. /\ Ceases({"expired", "cancelled"}) /\ active' \in {active, None}
      /\ \A b \in Attempts \ {a} : Rests(b) \/ Comes(b, {"expired"})
      /\ rows' = [rows EXCEPT ![a] = Saved(attempts'[a])]
  BY <1>1, EndCeases
<1>3. Ceases(Final)
  BY <1>1, <1>2 DEF Ceases, Comes
<1>4. CASE active = a
  <2>1. /\ OneLogin' /\ registered' = None /\ tasks' \in [Attempts -> Live \cup {"none", "done"}]
        /\ \A b \in Attempts : tasks'[b] = tasks[b] \/ tasks'[b] \notin Going
    BY <1>4, Stopping DEF Cancel, TaskInv
  <2> QED BY <1>1, <1>2, <1>3, <2>1, EndingTasks DEF queues, TaskInv, RestTyped
<1>5. CASE active # a
  <2>1. UNCHANGED <<tasks, registered>>
    BY <1>5 DEF Cancel
  <2>2. ASSUME LoginRuns
        PROVE  attempts'[registered].stage \notin {"none", "cancelled"}
    <3>1. registered \in Attempts /\ active \in {registered, None} /\ attempts[registered].stage \notin {"none", "cancelled"}
      BY <2>2 DEF TaskInv, RestTyped, OneLogin, LoginRuns
    <3>2. CASE registered = a
      <4>1. attempts[a].stage \notin Open
        BY <1>5 DEF LoginInv, OneOpenAttempt
      <4>2. Rests(a) \/ Comes(a, {"expired", "cancelled"})
        BY <1>2 DEF Ceases
      <4> QED BY <3>1, <3>2, <4>1, <4>2 DEF Rests, Comes
    <3>3. CASE registered # a
      BY <1>2, <3>1, <3>3 DEF Rests, Comes
    <3> QED BY <3>2, <3>3
  <2>3. OneLogin'
    BY <1>1, <1>2, <2>1, <2>2, LoginGoesOn DEF TaskInv, OneLogin, queues
  <2> QED BY <1>1, <1>2, <1>3, <2>1, <2>3, EndingTasks DEF queues, TaskInv, RestTyped
<1> QED BY <1>4, <1>5

LEMMA NamedCeases ==
  ASSUME LoginInv, CancelNamed
  PROVE  /\ Ceases(Final) /\ active' \in {active, None}
         /\ rows' = rows \/ \E b \in Attempts : rows' = [rows EXCEPT ![b] = Saved(attempts'[b])]
<1>1. CASE session.attempt = None
  BY <1>1 DEF CancelNamed, Ceases, Rests
<1>2. CASE session.attempt # None
  <2>1. session.attempt \in Attempts /\ EndAttempt(session.attempt, "cancelled", {}) /\ "cancelled" \in Final
        /\ "expired" \in Final
    BY <1>2 DEF CancelNamed, LoginInv, NamesAttempts, Final
  <2> QED BY <2>1, EndCeases DEF Ceases, Comes
<1> QED BY <1>1, <1>2

LEMMA ResetTasks ==
  ASSUME LoginInv, LoginInv', TaskInv, BeginReset \/ BeginDelete
  PROVE  TaskInv'
<1>1. /\ CancelNamed /\ StopLogin /\ UNCHANGED <<tried, status, restarts>>
      /\ codes' \in {codes, <<>>} /\ passwords' \in {passwords, <<>>}
  BY DEF BeginReset, BeginDelete, ClearSession, Drain, queues
<1>2. LoginRuns => registered \in Attempts
  BY DEF LoginRuns, TaskInv, RestTyped
<1>3. resets' \subseteq Attempts /\ deletion' \in [on : BOOLEAN, task : Attempts \cup {None}]
  <2>1. resets \subseteq Attempts /\ deletion \in [on : BOOLEAN, task : Attempts \cup {None}]
    BY DEF TaskInv, RestTyped
  <2>2. CASE BeginReset
    BY <1>2, <2>1, <2>2 DEF BeginReset
  <2>3. CASE BeginDelete
    <3>1. resets' = resets /\ deletion' = [on |-> TRUE, task |-> IF LoginRuns THEN registered ELSE None]
      BY <2>3 DEF BeginDelete
    <3> QED BY <1>2, <2>1, <3>1
  <2> QED BY <2>2, <2>3
<1>4. /\ OneLogin' /\ registered' = None /\ tasks' \in [Attempts -> Live \cup {"none", "done"}]
      /\ \A b \in Attempts : tasks'[b] = tasks[b] \/ tasks'[b] \notin Going
  BY <1>1, Stopping DEF TaskInv
<1> QED BY <1>1, <1>3, <1>4, NamedCeases, EndingTasks

LEMMA Drained ==
  ASSUME LoginInv, LoginInv', TaskInv, UNCHANGED <<attempts, active, rows, running, restarts>>,
         resets' \subseteq resets, deletion' \in {deletion, NoDeletion}, status' \in {"pending", status},
         UNCHANGED queues \/ Drain
  PROVE  TaskInv'
<1>1. Ceases({"expired"})
  BY DEF Ceases, Rests
<1>2. deletion' \in [on : BOOLEAN, task : Attempts \cup {None}]
  <2>1. deletion \in [on : BOOLEAN, task : Attempts \cup {None}]
    BY DEF TaskInv, RestTyped
  <2>2. NoDeletion \in [on : BOOLEAN, task : Attempts \cup {None}]
    BY DEF NoDeletion
  <2> QED BY <2>1, <2>2
<1> QED BY <1>1, <1>2, TasksStay

LEMMA HandlersTasks ==
  ASSUME LoginInv, LoginInv', TaskInv, Handlers
  PROVE  TaskInv'
<1>1. ASSUME NEW i \in StartIds, RepeatStart(i) PROVE TaskInv'
  BY <1>1, LookersTasks DEF RepeatStart
<1>2. ASSUME NEW c \in Commands, NEW a \in Attempts, NEW i \in InputIds, RepeatInput(c, a, i) PROVE TaskInv'
  BY <1>2, LookersTasks DEF RepeatInput
<1>3. ASSUME EndDelete PROVE TaskInv'
  BY <1>3, Drained DEF EndDelete, store
<1>4. ASSUME NEW a \in Attempts, EndReset(a) PROVE TaskInv'
  BY <1>4, Drained DEF EndReset, ClearSession, store
<1>5. ASSUME NEW a \in Attempts, ReadAttempt(a) PROVE TaskInv'
  BY <1>5, LookersTasks DEF ReadAttempt
<1> QED BY <1>1, <1>2, <1>3, <1>4, <1>5, StartTasks, SubmitTasks, CancelTasks, ResetTasks DEF Handlers

--------------------------------------------------------------------------------
LEMMA RestartTasks ==
  ASSUME TaskInv, Restart
  PROVE  TaskInv'
<1>1. /\ attempts' = [a \in Attempts |-> NoAttempt] /\ active' = None
      /\ rows' = [a \in Attempts |-> Interrupted(rows[a])] /\ codes' = <<>> /\ passwords' = <<>>
      /\ tasks' = [a \in Attempts |-> IF tasks[a] = "none" THEN "none" ELSE "done"]
      /\ tried' = [a \in Attempts |-> 0] /\ registered' = None /\ resets' = {} /\ deletion' = NoDeletion
      /\ restarts < MaxRestarts /\ restarts' = restarts + 1 /\ status' = status
  BY DEF Restart, Drain
<1>2. NoAttempt.stage = "none" /\ NoAttempt.revision = 0
  BY DEF NoAttempt
<1>3. ASSUME NEW a \in Attempts
      PROVE  Interrupted(rows[a]) \in [stage : Stages, revision : 0..LastRevision]
  <2>1. rows[a] \in [stage : Stages, revision : 0..LastRevision] /\ "interrupted" \in Stages
    BY DEF TaskInv, RestTyped, Stages, Final
  <2> QED BY <2>1 DEF Interrupted
<1>4. restarts' \in 0..MaxRestarts
  BY <1>1, LoginAssumption DEF TaskInv, RestTyped
<1>5. RestTyped'
  <2>1. <<>> \in Seq(Attempts) /\ deletion' \in [on : BOOLEAN, task : Attempts \cup {None}]
    BY <1>1 DEF NoDeletion
  <2>2. rows' \in [Attempts -> [stage : Stages, revision : 0..LastRevision]]
    BY <1>1, <1>3
  <2>3. tasks' \in [Attempts -> Live \cup {"none", "done"}] /\ tried' \in [Attempts -> 0..MaxPasswords]
    BY <1>1, StageFacts
  <2> QED BY <1>1, <1>4, <2>1, <2>2, <2>3 DEF TaskInv, RestTyped
<1>6. \A a \in Attempts : tasks'[a] \in {"none", "done"} /\ tried'[a] = 0 /\ Refused(a)' = 0
  BY <1>1 DEF Refused
<1>7. \A a \in Attempts : attempts'[a].revision <= Moves(attempts'[a].stage, Refused(a)')
  BY <1>1, <1>2, <1>6 DEF Moves
<1>8. Counted' /\ PasswordsLast'
  BY <1>6, <1>7, StageFacts DEF Counted, PasswordsLast, Early
<1>9. OneLogin'
  BY <1>1, <1>6, StageFacts DEF OneLogin, LoginRuns
<1> QED BY <1>5, <1>8, <1>9 DEF TaskInv

LEMMA InitTasks == Init => TaskInv
<1> SUFFICES ASSUME Init PROVE TaskInv
  OBVIOUS
<1>1. RestTyped
  BY LoginAssumption, StageFacts DEF Init, RestTyped, NoRow, NoDeletion, Stages
<1>2. \A a \in Attempts : tasks[a] = "none" /\ Refused(a) = 0 /\ attempts[a].revision = 0
  BY DEF Init, Refused, NoAttempt
<1>3. \A a \in Attempts : Moves(attempts[a].stage, 0) = 0
  BY DEF Init, NoAttempt, Moves
<1>4. Counted /\ PasswordsLast
  BY <1>2, <1>3, StageFacts DEF Counted, PasswordsLast, Early
<1>5. OneLogin
  BY <1>2, StageFacts DEF Init, OneLogin, LoginRuns
<1> QED BY <1>1, <1>4, <1>5 DEF TaskInv

LEMMA NextTasks == LoginInv /\ LoginInv' /\ TaskInv /\ [Next]_vars => TaskInv'
<1> SUFFICES ASSUME LoginInv, LoginInv', TaskInv, [Next]_vars PROVE TaskInv'
  OBVIOUS
<1>1. CASE UNCHANGED vars
  <2>1. UNCHANGED <<attempts, active, rows, running, restarts, resets, deletion, status, queues>>
    BY <1>1 DEF vars, store
  <2> QED BY <2>1, Drained
<1>2. CASE Next
  BY <1>2, HandlersTasks, RestartTasks, TaskStepTasks, TimeTasks DEF Next
<1> QED BY <1>1, <1>2

LEMMA TasksInvariant == Spec => [](LoginInv /\ TaskInv)
<1>1. LoginInv /\ TaskInv /\ [Next]_vars => (LoginInv /\ TaskInv)'
  BY NextLogin, NextTasks
<1> QED BY <1>1, InitLogin, InitTasks, PTL DEF Spec

\* Every variable keeps its type; an attempt moves no more often than a login that
\* is asked for a code and refused password_max_attempts passwords, whatever is
\* submitted, repeated, cancelled or raced (_transition in auth_attempts.py).
THEOREM LoginTypeCorrect == Spec => []LoginTypeOK
BY TasksInvariant, TypesFollow, PTL

\* Only taking an input makes a task send it.
Keeps(a) == tasks'[a] = tasks[a] \/ tasks'[a] \notin {"sendCode", "checkPassword"}

LEMMA RequestsKeep ==
  ASSUME RestTyped, Handlers \/ Restart, NEW a \in Attempts
  PROVE  Keeps(a)
<1>1. tasks \in [Attempts -> Live \cup {"none", "done"}]
  BY DEF RestTyped
<1>2. ASSUME StopLogin PROVE Keeps(a)
  BY <1>1, <1>2 DEF StopLogin, AfterCancel, Keeps
<1>3. ASSUME NEW i \in StartIds, NEW b \in Attempts, StartLogin(i, b) PROVE Keeps(a)
  BY <1>1, <1>3 DEF StartLogin, Goto, Keeps
<1>4. ASSUME UNCHANGED tasks PROVE Keeps(a)
  BY <1>4 DEF Keeps
<1>5. ASSUME NEW b \in Attempts, Cancel(b) PROVE Keeps(a)
  BY <1>2, <1>4, <1>5 DEF Cancel
<1>6. ASSUME Restart PROVE Keeps(a)
  BY <1>6 DEF Restart, Keeps
<1>7. ASSUME BeginReset \/ BeginDelete PROVE Keeps(a)
  BY <1>2, <1>7 DEF BeginReset, BeginDelete
<1>8. ASSUME \/ \E i \in StartIds : RepeatStart(i)
             \/ \E c \in Commands, b \in Attempts, i \in InputIds : RepeatInput(c, b, i)
      PROVE  Keeps(a)
  <2>1. UNCHANGED running
    BY <1>8 DEF RepeatStart, RepeatInput
  <2> QED BY <1>4, <2>1 DEF running
<1>9. ASSUME NEW c \in Commands, NEW b \in Attempts, NEW i \in InputIds, NEW r, Submit(c, b, r, i)
      PROVE  Keeps(a)
  <2>1. UNCHANGED running
    BY <1>9 DEF Submit
  <2> QED BY <1>4, <2>1 DEF running
<1>10. ASSUME EndDelete \/ \E b \in Attempts : EndReset(b) \/ ReadAttempt(b)
       PROVE  Keeps(a)
  <2>1. UNCHANGED running
    BY <1>10 DEF EndDelete, EndReset, ReadAttempt
  <2> QED BY <1>4, <2>1 DEF running
<1> QED BY <1>3, <1>5, <1>6, <1>7, <1>8, <1>9, <1>10 DEF Handlers

LEMMA TasksKeep ==
  ASSUME RestTyped, NEW b \in Attempts, TaskStep(b), NEW a \in Attempts, a # b \/ ~(TakeCode(a) \/ TakePassword(a))
  PROVE  Keeps(a)
<1>1. tasks \in [Attempts -> Live \cup {"none", "done"}]
  BY DEF RestTyped
<1>2. PICK to : tasks' = [tasks EXCEPT ![b] = to] /\ (TakeCode(b) \/ TakePassword(b) \/ to \notin {"sendCode", "checkPassword"})
  <2>1. CASE AskCode(b)
    BY <2>1 DEF AskCode, AwaitInput, Goto
  <2>2. CASE AskPassword(b)
    <3>1. PICK next \in {"failing", "waitPassword"} : AwaitInput(b, PasswordStages, "waiting_password", next)
      BY <2>2 DEF AskPassword
    <3> QED BY <3>1 DEF AwaitInput, Goto
  <2>3. CASE TakeCode(b) \/ TakePassword(b)
    BY <2>3 DEF TakeCode, TakePassword, Goto
  <2>4. CASE Begin(b) \/ GetClient(b) \/ Authenticated(b) \/ LoginFails(b)
    BY <2>4 DEF Begin, GetClient, Authenticated, LoginFails, Goto
  <2>5. CASE Activate(b) \/ RecordFailure(b) \/ EndCancelled(b)
    BY <2>5 DEF Activate, RecordFailure, EndCancelled, Goto
  <2> QED BY <2>1, <2>2, <2>3, <2>4, <2>5 DEF TaskStep
<1> QED BY <1>1, <1>2 DEF Keeps

LEMMA InputTaken ==
  ASSUME RestTyped, [Next]_vars, NEW a \in Attempts
  PROVE  /\ tasks[a] = "waitCode" /\ tasks'[a] = "sendCode" => codes # <<>>
         /\ tasks[a] = "waitPassword" /\ tasks'[a] = "checkPassword" => passwords # <<>>
<1>1. CASE TakeCode(a)
  BY <1>1 DEF TakeCode, At
<1>2. CASE TakePassword(a)
  BY <1>2 DEF TakePassword, At
<1>3. CASE ~(TakeCode(a) \/ TakePassword(a))
  <2>1. ASSUME NEW b \in Attempts, TaskStep(b) \/ TimePasses(b) PROVE Keeps(a)
    BY <1>3, <2>1, TasksKeep DEF TimePasses, running, Keeps
  <2>2. ASSUME UNCHANGED vars PROVE Keeps(a)
    BY <2>2 DEF vars, running, Keeps
  <2>3. ASSUME Handlers \/ Restart PROVE Keeps(a)
    BY <2>3, RequestsKeep
  <2>4. Keeps(a)
    BY <2>1, <2>2, <2>3 DEF Next
  <2> QED BY <2>4 DEF Keeps
<1> QED BY <1>1, <1>2, <1>3

\* The task of an attempt takes codes and passwords that were submitted for that
\* attempt (_auth_queues in main.py), never what an earlier login left queued.
THEOREM InputsReachTheirLogin == Spec => InputReachesItsLogin
<1>1. ASSUME LoginInv, TaskInv, [Next]_vars
      PROVE  [\A a \in Attempts :
                /\ tasks[a] = "waitCode" /\ tasks'[a] = "sendCode" => Head(codes) = a
                /\ tasks[a] = "waitPassword" /\ tasks'[a] = "checkPassword" => Head(passwords) = a]_vars
  <2>1. ASSUME NEW a \in Attempts, tasks[a] \in {"waitCode", "waitPassword"}
        PROVE  codes \in Seq({a}) /\ passwords \in Seq({a})
    <3>1. tasks[a] \in Going
      BY <2>1 DEF Going, Live, Busy
    <3>2. registered = a /\ LoginRuns
      BY <1>1, <3>1, StageFacts DEF TaskInv, OneLogin, LoginRuns
    <3> QED BY <1>1, <3>2 DEF TaskInv, OneLogin
  <2>2. ASSUME NEW a \in Attempts
        PROVE  /\ tasks[a] = "waitCode" /\ tasks'[a] = "sendCode" => codes # <<>>
               /\ tasks[a] = "waitPassword" /\ tasks'[a] = "checkPassword" => passwords # <<>>
    BY <1>1, InputTaken DEF TaskInv
  <2>3. \A a \in Attempts :
          /\ tasks[a] = "waitCode" /\ tasks'[a] = "sendCode" => Head(codes) = a
          /\ tasks[a] = "waitPassword" /\ tasks'[a] = "checkPassword" => Head(passwords) = a
    BY <2>1, <2>2, FirstIsOwn
  <2> QED BY <2>3
<1> QED BY <1>1, TasksInvariant, PTL DEF Spec, InputReachesItsLogin

\* A login whose attempt was cancelled does not activate the account, though the
\* cancellation may find its task past its last wait (_finish_auth_attempt).
THEOREM CancelledNeverActivates == Spec => CancelledStaysOut
<1>1. ASSUME LoginInv, TaskInv, [Next]_vars
      PROVE  [\A a \in Attempts : tasks[a] = "releasing" /\ tasks'[a] = "done" /\ status' = "active"
                                  => attempts[a].stage # "cancelled"]_vars
  <2>1. ASSUME NEW a \in Attempts, tasks[a] = "releasing" PROVE attempts[a].stage # "cancelled"
    <3>1. tasks[a] \in Going
      BY <2>1 DEF Going, Live, Busy
    <3>2. registered = a /\ LoginRuns
      BY <1>1, <3>1, StageFacts DEF TaskInv, OneLogin, LoginRuns
    <3> QED BY <1>1, <3>2 DEF TaskInv, OneLogin
  <2> QED BY <2>1
<1> QED BY <1>1, TasksInvariant, PTL DEF Spec, CancelledStaysOut
================================================================================

----------------------------- MODULE ClientLeases -----------------------------
(****************************************************************************)
(* The clients of one process: jobs that open a profile's session, lease a  *)
(* client and seal the session again, the deletion of a profile's runtime,  *)
(* the claim of a MAX account by one tenant's profile, the onboarding that  *)
(* activates a profile without one, and the shutdown that drains all of it  *)
(* (app/services/client_manager.py, app/shutdown.py, main.py,               *)
(* app/repositories/automation_identity.py, app/routes_onboarding.py).      *)
(*                                                                          *)
(* A step is what runs between two awaits.  Every profile here is of a      *)
(* tenant of its own, with a campaign of its own.                           *)
(****************************************************************************)
EXTENDS Naturals, FiniteSets

CONSTANTS
    Profiles,
    Account,     \* the MAX account of each profile
    Sends,       \* jobs of campaign workers
    Tests,       \* jobs of manual tests
    Logins,
    Checks,      \* onboarding's membership checks, from the profile's lock on
    Visitor,     \* the session a visitor's own sign-in made
    MaxJobs,     \* bound: jobs begun
    MaxDeletes,  \* bound: deletions begun
    None

Jobs == Sends \cup Tests \cup Logins \cup Checks

ASSUME LeasesAssumption ==
    /\ {MaxJobs, MaxDeletes} \subseteq Nat
    /\ Sends \cap Tests = {} /\ (Sends \cup Tests) \cap Logins = {}
    /\ Checks \cap (Sends \cup Tests \cup Logins) = {}
    /\ None \notin Profiles \cup Jobs \cup Nat \cup {Visitor}

VARIABLES
    job,       \* where each job is in _with_client
    life,      \* per profile: runtimes deleted so far, each with its own lock
    plain,     \* session.db: the life of the login that made it, Visitor or None
    sealed,    \* session.db.enc
    aside,     \* what a check moved aside of the two
    deleting,  \* deletions in progress, and on whose behalf
    status, claims,
    control,   \* per profile: what its tenant's campaign does
    down,      \* how far the shutdown is
    late,      \* history: a step of the shutdown ran out of time or could not seal
    kept,      \* history: profiles whose row outlived their runtime's deletion
    onboarded, \* history: profiles that onboarding activated without a claim
    jobs, deletes

files == <<plain, sealed, aside>>
counts == <<jobs, deletes>>
rows == <<status, claims>>
excepted == <<kept, onboarded>>
vars == <<job, life, files, deleting, rows, control, down, late, excepted, counts>>

\* cut: cancelled; owed: a deletion waits for it; moved: what it moved aside
NoJob == [at |-> "none", p |-> None, life |-> 0, cut |-> FALSE, owed |-> FALSE,
          good |-> FALSE, moved |-> {}]
Stations == {"none", "waiting", "opened", "queued", "leased", "closing", "closed"}
Accounts == {Account[p] : p \in Profiles}

Init ==
    /\ job = [j \in Jobs |-> NoJob] /\ life = [p \in Profiles |-> 0]
    /\ \E p \in Profiles :
        /\ sealed = [q \in Profiles |-> IF q = p THEN 0 ELSE None]
        /\ status = [q \in Profiles |-> IF q = p THEN "active" ELSE "pending"]
        /\ claims = [a \in Accounts |-> IF a = Account[p] THEN p ELSE None]
    /\ plain = [p \in Profiles |-> None]
    /\ aside = [p \in Profiles |-> [plain |-> None, sealed |-> None]]
    /\ deleting = [p \in Profiles |-> "no"] /\ control = [p \in Profiles |-> "idle"]
    /\ down = "up" /\ late = FALSE /\ kept = {} /\ onboarded = {}
    /\ jobs = 0 /\ deletes = 0

At(j, at) == job[j].at = at
Live(j) == job[j].at # "none"
Of(p) == {j \in Jobs : Live(j) /\ job[j].p = p}

\* _login_tasks: a cancelled login is forgotten at once, though it may be closing
Registered(p) == {j \in Logins \cap Of(p) : ~job[j].cut}

\* _profile_client_locks: a deletion drops the lock, a later job makes another
Locked(p, n) == \E j \in Of(p) : job[j].life = n /\ ~At(j, "waiting")

\* ClientManager._locks, ClientManager._active
Active(p) == \E j \in Of(p) : At(j, "leased") \/ At(j, "closing")

Goto(j, at) == job' = [job EXCEPT ![j].at = at]

--------------------------------------------------------------------------------
(* A job's way through _with_client *)

\* encrypt_session_file
Newest(p) == IF plain[p] = None THEN sealed[p] ELSE plain[p]

Seal(p) ==
    /\ sealed' = [sealed EXCEPT ![p] = Newest(p)]
    /\ plain' = [plain EXCEPT ![p] = None]

\* The end of _with_client_unlocked seals.  A check that failed then removes what
\* stands where it moved a file from and puts the file back, if it is still there;
\* one that succeeded removes the old files.
Leave(j, restored) ==
    LET p == job[j].p
        back == IF restored THEN job[j].moved ELSE {}
    IN  /\ plain' = [plain EXCEPT ![p] = IF "plain" \in back THEN aside[p].plain ELSE None]
        /\ sealed' = [sealed EXCEPT ![p] = IF "sealed" \in back THEN aside[p].sealed ELSE Newest(p)]
        /\ aside' = [aside EXCEPT ![p] = [f \in {"plain", "sealed"} |->
                                            IF f \in job[j].moved THEN None ELSE aside[p][f]]]

Begin(j, p) ==
    /\ ~Live(j) /\ down = "up" /\ jobs < MaxJobs /\ jobs' = jobs + 1
    /\ job' = [job EXCEPT ![j] = [NoJob EXCEPT !.at = "waiting", !.p = p, !.life = life[p]]]
    /\ UNCHANGED <<life, files, deleting, rows, down, late, excepted, deletes>>

\* A worker sends for an active profile, whatever handlers are doing to it.
BeginSend(j, p) ==
    /\ control[p] = "running" /\ status[p] = "active" /\ \A k \in Sends : k \notin Of(p)
    /\ Begin(j, p) /\ UNCHANGED control

BeginTest(j, p) ==
    /\ control[p] = "idle" /\ status[p] = "active" /\ deleting[p] = "no"
    /\ Begin(j, p) /\ control' = [control EXCEPT ![p] = "testing"]

BeginLogin(j, p) ==
    /\ control[p] = "idle" /\ deleting[p] = "no" /\ Registered(p) = {}
    /\ Begin(j, p) /\ UNCHANGED control

\* A check has found its visitor in the chat; it asks nothing about campaigns,
\* logins or deletions of the profile that has the visitor's phone.
BeginCheck(j, p) == Begin(j, p) /\ UNCHANGED control

\* A test gives the campaign back if it still has it.
Left(j) == control' = IF j \in Tests /\ control[job[j].p] = "testing"
                      THEN [control EXCEPT ![job[j].p] = "idle"] ELSE control

\* The lock, then the session is opened; only a login goes on without one.
Open(j) ==
    /\ At(j, "waiting") /\ j \notin Checks /\ ~job[j].cut /\ ~Locked(job[j].p, job[j].life)
    /\ LET p == job[j].p
       IN  IF Newest(p) = None /\ j \notin Logins
           THEN job' = [job EXCEPT ![j] = NoJob] /\ Left(j) /\ UNCHANGED plain
           ELSE Goto(j, "opened") /\ plain' = [plain EXCEPT ![p] = Newest(p)] /\ UNCHANGED control
    /\ UNCHANGED <<life, sealed, aside, deleting, rows, down, late, excepted, counts>>

\* Under the lock a check moves the profile's session aside, unless something is
\* there already, installs the visitor's and opens it.
Install(j) ==
    /\ At(j, "waiting") /\ j \in Checks /\ ~Locked(job[j].p, job[j].life)
    /\ LET p == job[j].p
           old == [plain |-> plain[p], sealed |-> sealed[p]]
           moved == {f \in {"plain", "sealed"} : old[f] # None}
       IN  IF \E f \in {"plain", "sealed"} : aside[p][f] # None
           THEN job' = [job EXCEPT ![j] = NoJob] /\ UNCHANGED files
           ELSE /\ job' = [job EXCEPT ![j].at = "opened", ![j].moved = moved]
                /\ aside' = [aside EXCEPT ![p] = old]
                /\ plain' = [plain EXCEPT ![p] = Visitor]
                /\ sealed' = [sealed EXCEPT ![p] = Visitor]
    /\ UNCHANGED <<life, deleting, rows, control, down, late, excepted, counts>>

\* Without a client the job leaves at once.
NotLeased(j) ==
    /\ Leave(j, TRUE) /\ job' = [job EXCEPT ![j] = NoJob] /\ Left(j)
    /\ status' = IF j \in Logins /\ ~job[j].cut THEN [status EXCEPT ![job[j].p] = "reauth"] ELSE status

\* Mutant: a lease does not wait for the one before it.
AcquireAtOnce(j) ==
    /\ At(j, "opened") /\ ~job[j].cut
    /\ IF deleting[job[j].p] # "no" THEN NotLeased(j) /\ UNCHANGED <<claims>>
       ELSE Goto(j, "leased") /\ UNCHANGED <<files, rows, control>>
    /\ UNCHANGED <<life, deleting, down, late, excepted, counts>>

\* ClientManager.acquire: refused while the profile is being deleted, looked at
\* before the wait for the lease and after it.
Acquire(j) ==
    /\ ~job[j].cut
    /\ At(j, "opened") \/ (At(j, "queued") /\ ~Active(job[j].p))
    /\ IF deleting[job[j].p] # "no" THEN NotLeased(j)
       ELSE Goto(j, IF Active(job[j].p) THEN "queued" ELSE "leased") /\ UNCHANGED <<files, status, control>>
    /\ UNCHANGED <<life, deleting, claims, down, late, excepted, counts>>

\* The client does its work, or fails; a login leaves a session.
Works(j) ==
    /\ At(j, "leased") /\ ~job[j].cut
    /\ job' = [job EXCEPT ![j].at = "closing", ![j].good = TRUE]
    /\ plain' = IF j \in Logins THEN [plain EXCEPT ![job[j].p] = job[j].life] ELSE plain
    /\ UNCHANGED <<life, sealed, aside, deleting, rows, control, down, late, excepted, counts>>

Fails(j) ==
    /\ At(j, "leased") /\ Goto(j, "closing")
    /\ UNCHANGED <<life, files, deleting, rows, control, down, late, excepted, counts>>

\* The lease is given back in a task of its own; an error of the close becomes
\* the job's.
Close(j) ==
    /\ At(j, "closing")
    /\ \E good \in {job[j].good, FALSE} : job' = [job EXCEPT ![j].at = "closed", ![j].good = good]
    /\ UNCHANGED <<life, files, deleting, rows, control, down, late, excepted, counts>>

Unclaimed(p) == claims[Account[p]] \in {None, p}

\* The session is sealed and the lock left.  A login that worked claims the
\* account for its profile, unless another has it.
EndLogin(j) ==
    LET p == job[j].p
        in == job[j].good /\ ~job[j].cut /\ Unclaimed(p)
    IN  /\ Leave(j, TRUE)
        /\ claims' = IF in THEN [claims EXCEPT ![Account[p]] = p] ELSE claims
        /\ status' = IF in THEN [status EXCEPT ![p] = "active"]
                     ELSE IF ~job[j].cut THEN [status EXCEPT ![p] = "reauth"] ELSE status
        /\ kept' = (IF in THEN kept \ {p} ELSE kept)
        /\ onboarded' = (IF in THEN onboarded \ {p} ELSE onboarded)

\* A check that worked activates the profile and claims nothing; the settling
\* transaction may still refuse.
EndCheck(j) ==
    LET p == job[j].p IN
    /\ UNCHANGED <<claims, kept>>
    /\ \/ /\ job[j].good
          /\ Leave(j, FALSE) /\ status' = [status EXCEPT ![p] = "active"]
          /\ onboarded' = (IF claims[Account[p]] = p THEN onboarded ELSE onboarded \cup {p})
       \/ Leave(j, TRUE) /\ UNCHANGED <<status, onboarded>>

End(j) ==
    /\ At(j, "closed") /\ job' = [job EXCEPT ![j] = NoJob] /\ Left(j)
    /\ \/ j \in Logins /\ EndLogin(j)
       \/ j \in Checks /\ EndCheck(j)
       \/ j \in Sends \cup Tests /\ Leave(j, TRUE) /\ UNCHANGED <<rows, excepted>>
    /\ UNCHANGED <<life, deleting, down, late, counts>>

\* A cancelled job leaves by the same way.
Cancelled(j) ==
    /\ job[j].cut
    /\ \/ /\ At(j, "waiting") /\ job' = [job EXCEPT ![j] = NoJob] /\ Left(j) /\ UNCHANGED <<files, status>>
       \/ (At(j, "opened") \/ At(j, "queued")) /\ NotLeased(j)
    /\ UNCHANGED <<life, deleting, claims, down, late, excepted, counts>>

JobStep(j) == Open(j) \/ Install(j) \/ Acquire(j) \/ Works(j) \/ Fails(j) \/ Close(j) \/ End(j) \/ Cancelled(j)

--------------------------------------------------------------------------------
(* Campaigns *)

Start(p) ==
    /\ control[p] = "idle" /\ down = "up" /\ control' = [control EXCEPT ![p] = "running"]
    /\ UNCHANGED <<job, life, files, deleting, rows, down, late, excepted, counts>>

Cut(js, owed) ==
    job' = [j \in Jobs |-> IF j \in js THEN [job[j] EXCEPT !.cut = TRUE, !.owed = owed] ELSE job[j]]

\* The owner cancels a login; its session, if it got one, stays.
CancelLogin(p) ==
    /\ control[p] = "idle" /\ down = "up" /\ Registered(p) # {}
    /\ Cut(Registered(p), FALSE)
    /\ UNCHANGED <<life, files, deleting, rows, control, down, late, excepted, counts>>

\* Stop cancels the worker and waits; a manual test is not a task of its own.
Stop(p) ==
    /\ control[p] \in {"running", "testing"}
    /\ down = "up" \/ (down = "workers" /\ \A q \in Profiles : control[q] # "stopping")
    /\ control' = [control EXCEPT ![p] = IF control[p] = "running" THEN "stopping" ELSE "idle"]
    /\ Cut(Sends \cap Of(p), FALSE)
    /\ UNCHANGED <<life, files, deleting, rows, down, late, excepted, counts>>

Stopped(p) ==
    /\ control[p] = "stopping" /\ Sends \cap Of(p) = {} /\ control' = [control EXCEPT ![p] = "idle"]
    /\ UNCHANGED <<job, life, files, deleting, rows, down, late, excepted, counts>>

--------------------------------------------------------------------------------
(* Deletion of a profile's runtime *)

\* The second and later accounts that a deleted group leaves behind are deleted
\* without a new look at the campaign.
MayDelete(p, way) ==
    /\ control[p] = "idle" \/ way = "orphan"
    /\ deleting[p] = "no" /\ down = "up" /\ deletes < MaxDeletes

\* Mutant: only the sealed session is removed.
SealedRemoved(p) ==
    /\ plain' = plain /\ sealed' = [sealed EXCEPT ![p] = None] /\ UNCHANGED aside
    /\ life' = [life EXCEPT ![p] = @ + 1]
    /\ claims' = [a \in Accounts |-> IF claims[a] = p THEN None ELSE claims[a]]

\* The runtime goes with its lock, then the account is given up.
Removed(p) ==
    /\ plain' = [plain EXCEPT ![p] = None] /\ sealed' = [sealed EXCEPT ![p] = None]
    /\ aside' = [aside EXCEPT ![p] = [plain |-> None, sealed |-> None]]
    /\ life' = [life EXCEPT ![p] = @ + 1]
    /\ claims' = [a \in Accounts |-> IF claims[a] = p THEN None ELSE claims[a]]

\* The row: pending, or gone for a profile without a group, unless that was linked
\* again by now or an onboarding's consent refers to it.
Forgotten(p, way) ==
    \/ status' = [status EXCEPT ![p] = "pending"] /\ kept' = kept \ {p} /\ onboarded' = onboarded \ {p}
    \/ way = "orphan" /\ kept' = kept \cup {p} /\ UNCHANGED <<status, onboarded>>

\* Asked for by the owner, or for a profile that was left without a group.  With
\* no login to wait for the deletion is one step.
DeleteAtOnce(p) ==
    /\ \E way \in {"session", "orphan"} : MayDelete(p, way) /\ Forgotten(p, way)
    /\ Registered(p) = {} /\ ~Active(p)
    /\ Removed(p) /\ deletes' = deletes + 1
    /\ UNCHANGED <<job, deleting, control, down, late, jobs>>

\* Mutant: the account is given up before the session is removed.
ReleaseFirst(p) ==
    /\ Registered(p) # {}
    /\ \E way \in {"session", "orphan"} : MayDelete(p, way) /\ deleting' = [deleting EXCEPT ![p] = way]
    /\ claims' = [a \in Accounts |-> IF claims[a] = p THEN None ELSE claims[a]]
    /\ Cut(Registered(p), TRUE) /\ deletes' = deletes + 1
    /\ UNCHANGED <<life, files, status, control, down, late, excepted, jobs>>

BeginDelete(p) ==
    /\ Registered(p) # {}
    /\ \E way \in {"session", "orphan"} : MayDelete(p, way) /\ deleting' = [deleting EXCEPT ![p] = way]
    /\ Cut(Registered(p), TRUE) /\ deletes' = deletes + 1
    /\ UNCHANGED <<life, files, rows, control, down, late, excepted, jobs>>

\* The login it waited for is over.
Remove(p) ==
    /\ deleting[p] # "no" /\ (\A j \in Logins \cap Of(p) : ~job[j].owed) /\ ~Active(p)
    /\ Removed(p) /\ Forgotten(p, deleting[p])
    /\ deleting' = [deleting EXCEPT ![p] = "no"]
    /\ UNCHANGED <<job, control, down, late, counts>>

\* A client is still active, or the time is up.
RemoveFails(p) ==
    /\ deleting[p] # "no" /\ deleting' = [deleting EXCEPT ![p] = "no"]
    /\ UNCHANGED <<job, life, files, rows, control, down, late, excepted, counts>>

--------------------------------------------------------------------------------
(* Shutdown *)

Phases == <<"up", "workers", "logins", "leases", "reseal", "done">>

\* Mutant: running logins are not cancelled.
AfterWithoutLogins(s) == CASE s = "up" -> "workers" [] s = "workers" -> "leases" [] s = "logins" -> "leases"
                           [] s = "leases" -> "reseal" [] s = "reseal" -> "done"

After(s) == CHOOSE t \in {Phases[i] : i \in DOMAIN Phases} :
                \E i \in DOMAIN Phases : i > 1 /\ Phases[i] = t /\ Phases[i-1] = s

\* The server has no handler left: no deletion, no test, no check, and none that
\* waits for the end of a login it cancelled.
Signal ==
    /\ down = "up" /\ \A p \in Profiles : deleting[p] = "no"
    /\ \A j \in Jobs : Live(j) => j \notin Tests \cup Checks /\ ~(j \in Logins /\ job[j].cut)
    /\ down' = After(down)
    /\ UNCHANGED <<job, life, files, deleting, rows, control, late, excepted, counts>>

\* What a phase waits for.  The step for the visitors' sign-ins, after the logins,
\* waits for nothing here: they use no profile's session.
PhaseDone ==
    CASE down = "workers" -> \A p \in Profiles : control[p] = "idle"
      [] down = "logins"  -> \A j \in Logins : ~Live(j)
      [] down = "leases"  -> \A p \in Profiles : ~Active(p)
      [] down = "reseal"  -> \A p \in Profiles : plain[p] = None
      [] OTHER            -> FALSE

NextPhase ==
    /\ PhaseDone /\ down' = After(down)
    /\ UNCHANGED <<job, life, files, deleting, rows, control, late, excepted, counts>>

\* _bounded_step: an error or the end of the time is logged, and the next step begins;
\* of an error of a single session the last step says nothing.
GiveUp ==
    /\ down \in {"workers", "logins", "leases", "reseal"} /\ ~PhaseDone
    /\ down' = After(down) /\ late' = TRUE
    /\ UNCHANGED <<job, life, files, deleting, rows, control, excepted, counts>>

CancelLogins ==
    /\ down = "logins" /\ \E j \in Logins : Live(j) /\ ~job[j].cut
    /\ Cut({j \in Logins : Live(j)}, FALSE)
    /\ UNCHANGED <<life, files, deleting, rows, control, down, late, excepted, counts>>

\* ClientManager.drain closes a client under the job that has it.
DrainLease(j) ==
    /\ down = "leases" /\ (At(j, "leased") \/ At(j, "closing"))
    /\ Goto(j, "closed")
    /\ UNCHANGED <<life, files, deleting, rows, control, down, late, excepted, counts>>

Reseal(p) ==
    /\ down = "reseal" /\ plain[p] # None /\ Seal(p)
    /\ UNCHANGED <<job, life, aside, deleting, rows, control, down, late, excepted, counts>>

ShutdownStep == Signal \/ NextPhase \/ GiveUp \/ CancelLogins
                \/ (\E j \in Jobs : DrainLease(j)) \/ \E p \in Profiles : Reseal(p)

ProfileStep(p) ==
    \/ Start(p) \/ Stop(p) \/ Stopped(p) \/ CancelLogin(p)
    \/ DeleteAtOnce(p) \/ BeginDelete(p) \/ Remove(p) \/ RemoveFails(p)
    \/ \E j \in Sends : BeginSend(j, p)
    \/ \E j \in Tests : BeginTest(j, p)
    \/ \E j \in Logins : BeginLogin(j, p)
    \/ \E j \in Checks : BeginCheck(j, p)

Exited == down = "done" /\ UNCHANGED vars

Next ==
    \/ \E p \in Profiles : ProfileStep(p)
    \/ \E j \in Jobs : JobStep(j)
    \/ ShutdownStep
    \/ Exited

Spec == Init /\ [][Next]_vars

--------------------------------------------------------------------------------
(* Properties *)

\* Type invariant.
LeasesTypeOK ==
    /\ \A j \in Jobs : /\ job[j].at \in Stations /\ (Live(j) <=> job[j].p \in Profiles)
                       /\ job[j].moved \subseteq {"plain", "sealed"}
    /\ \A p \in Profiles : Cardinality({j \in Of(p) : At(j, "leased") \/ At(j, "closing")}) <= 1
    /\ \A p \in Profiles : {plain[p], sealed[p], aside[p].plain, aside[p].sealed}
                              \subseteq 0..life[p] \cup {None, Visitor}
    /\ deleting \in [Profiles -> {"no", "session", "orphan"}]
    /\ status \in [Profiles -> {"pending", "active", "reauth"}]
    /\ claims \in [Accounts -> Profiles \cup {None}]
    /\ control \in [Profiles -> {"idle", "running", "stopping", "testing"}]

\* No MAX account works for two tenants that logged in to it: of the profiles with
\* one account at most one is active and has a session, through logins, deletions
\* that fail or run out of time, and shutdowns.  Excepted until their next login
\* are the profiles that are active without a claim: onboarding activates without
\* claiming (AccountIsExclusive, below, does not hold of the code), and a row may
\* outlive the deletion of its runtime.
OneOwner ==
    \A p, q \in Profiles \ (kept \cup onboarded) :
        Account[p] = Account[q] /\ {status[p], status[q]} = {"active"}
        /\ sealed[p] # None /\ sealed[q] # None => p = q

\* A deletion is final: no login, send or check that began before it brings a
\* session back that was there; a check may install its visitor's own.
DeletedStaysDeleted ==
    \A p \in Profiles : {plain[p], sealed[p], aside[p].plain, aside[p].sealed}
                           \subseteq {None, Visitor, life[p]}

\* When every step of the shutdown came to its end and sealed what it found, no
\* job is left and no session lies open on the disk.
SealedAtExit ==
    down = "done" /\ ~late => /\ \A p \in Profiles : plain[p] = None
                              /\ \A j \in Jobs : ~Live(j)

--------------------------------------------------------------------------------
(* Statements of the repository that the code does not keep. *)

\* "Claim a MAX identity globally in server mode before activation".
AccountIsExclusive ==
    \A p, q \in Profiles \ kept :
        Account[p] = Account[q] /\ {status[p], status[q]} = {"active"}
        /\ sealed[p] # None /\ sealed[q] # None => p = q

\* "Drain profile operations before removing its session runtime directory".
DeletionDrains == [][\A p \in Profiles : life'[p] # life[p] => ~Locked(p, life[p])]_vars
================================================================================

------------------------------- MODULE Tenancy -------------------------------
(****************************************************************************)
(* The tenants of a server: their registration and deletion, in PostgreSQL  *)
(* and on the disk, the sessions of their users and of an administrator who *)
(* acts for them, and the subscription a campaign needs                     *)
(* (app/routes_admin.py, app/db_pg.py, app/tenant_init.py, app/auth.py,     *)
(* app/middleware.py, app/routes_auth.py, app/subscription_jobs.py).        *)
(*                                                                          *)
(* A step is what a handler does between two awaits, or one call it makes   *)
(* in a thread.  PostgreSQL gives every tenant a new id.  The sessions with *)
(* which an administrator manages tenants are taken for granted.            *)
(****************************************************************************)
EXTENDS Naturals

CONSTANTS
    Tenants,
    Tokens,     \* identifiers of the tokens issued
    Deleters,   \* requests that delete a tenant
    MaxEvents,  \* bound: requests, logins, changes of subscriptions, restarts
    MaxMade,    \* bound: databases made for one tenant
    None

ASSUME TenancyAssumption == MaxEvents \in Nat /\ MaxMade \in Nat \ {0} /\ None \notin Tenants \cup Tokens \cup Nat

VARIABLES
    row,        \* tenants, with their user: "none", "there", "gone"
    version,    \* tenants.token_version
    live,       \* tenants/<id>: which of the databases made for it, or None
    aside,      \* tenants/<id>.deleting
    made,       \* databases made so far
    joining,    \* tenants being registered
    deletion,   \* delete_user, per request
    token, revoked, epoch,
    cache,      \* _session_cache; "late" is an "ok" found before the cache was cleared
    asking,     \* requests: the answer of cached_validate_token_session
    dropping,   \* logouts that have yet to invalidate the cache
    paid,       \* subscriptions: "never", "paid", "expired"
    recent,     \* it was extended since the last tick
    stopped,    \* _stopped_expired
    due,        \* the tenants that a round of the loop has yet to look at
    ending,     \* the tenant whose worker it waits for, or None
    start,      \* a campaign being started
    task,       \* the campaign's worker
    events

disk == <<live, aside, made>>
books == <<row, version, joining>>
sessions == <<token, revoked, epoch, cache, asking, dropping>>
found == <<stopped, due, ending>>
campaigns == <<paid, recent, found, start, task>>
vars == <<books, disk, deletion, sessions, campaigns, events>>

NoToken == [kind |-> "none", tenant |-> None, version |-> 0, epoch |-> 0, of |-> None]
NoAnswer == [ok |-> FALSE, at |-> "none"]
NoDeletion == [tenant |-> None, at |-> "none", moved |-> FALSE]
NoStart == [at |-> "none", fine |-> FALSE]

\* A tenant that is at work, and ids that are not given yet.
Init ==
    \E t \in Tenants :
        /\ row = [u \in Tenants |-> IF u = t THEN "there" ELSE "none"] /\ version = [u \in Tenants |-> 0]
        /\ live = [u \in Tenants |-> IF u = t THEN 1 ELSE None] /\ aside = [u \in Tenants |-> None]
        /\ made = [u \in Tenants |-> IF u = t THEN 1 ELSE 0]
        /\ deletion = [d \in Deleters |-> NoDeletion]
        /\ token = [k \in Tokens |-> NoToken] /\ revoked = {} /\ epoch = 0
        /\ cache = [k \in Tokens |-> "none"] /\ asking = [k \in Tokens |-> NoAnswer]
        /\ dropping = {} /\ joining = {}
        /\ paid = [u \in Tenants |-> IF u = t THEN "paid" ELSE "never"] /\ recent = [u \in Tenants |-> FALSE] /\ stopped = {}
        /\ due = {} /\ ending = None
        /\ start = [u \in Tenants |-> NoStart] /\ task = [u \in Tenants |-> "none"]
        /\ events = 0

Event == events < MaxEvents /\ events' = events + 1
Registered(t) == row[t] = "there"

\* Whatever works in a tenant's context makes its directory and database anew
\* when they are not there.
Touch(t) ==
    IF live[t] # None THEN UNCHANGED disk
    ELSE /\ made[t] < MaxMade /\ made' = [made EXCEPT ![t] = @ + 1]
         /\ live' = [live EXCEPT ![t] = made[t] + 1] /\ UNCHANGED aside

--------------------------------------------------------------------------------
(* Registration *)

Register(t) ==
    /\ row[t] = "none" /\ Event
    /\ row' = [row EXCEPT ![t] = "there"] /\ joining' = joining \cup {t}
    /\ UNCHANGED <<version, disk, deletion, sessions, campaigns>>

Registers(t) ==
    /\ t \in joining /\ Touch(t) /\ joining' = joining \ {t}
    /\ UNCHANGED <<row, version, deletion, sessions, campaigns, events>>

\* The database could not be made: first the rows go, then the directory.
RegistrationFails(t) ==
    /\ t \in joining /\ joining' = joining \ {t}
    /\ row' = [row EXCEPT ![t] = "gone"] /\ live' = [live EXCEPT ![t] = None]
    /\ UNCHANGED <<version, aside, made, deletion, sessions, campaigns, events>>

--------------------------------------------------------------------------------
(* Sessions *)

Issued(k) == token[k].kind \in {"user", "admin", "acting"}

\* A user, or an administrator: the password is right.
Authenticate(k, t) ==
    /\ token[k] = NoToken /\ Event
    /\ t # None => Registered(t)
    /\ token' = [token EXCEPT ![k] = [NoToken EXCEPT !.kind = "verified", !.tenant = t]]
    /\ UNCHANGED <<books, disk, deletion, revoked, epoch, cache, asking, dropping, campaigns>>

\* The tenant's database is opened, or made.
Prepare(k) ==
    /\ token[k].kind = "verified"
    /\ token' = [token EXCEPT ![k].kind = "prepared"]
    /\ IF token[k].tenant = None THEN UNCHANGED disk ELSE Touch(token[k].tenant)
    /\ UNCHANGED <<books, deletion, revoked, epoch, cache, asking, dropping, campaigns, events>>

VersionOf(t) == IF t # None /\ Registered(t) THEN version[t] ELSE 0

CreateToken(k, kind, t, of) ==
    token' = [token EXCEPT ![k] = [kind |-> kind, tenant |-> t, version |-> VersionOf(t), epoch |-> epoch, of |-> of]]

Issue(k) ==
    /\ token[k].kind = "prepared"
    /\ CreateToken(k, IF token[k].tenant = None THEN "admin" ELSE "user", token[k].tenant, None)
    /\ UNCHANGED <<books, disk, deletion, revoked, epoch, cache, asking, dropping, campaigns, events>>

UserExists(k) == token[k].kind = "user" => Registered(token[k].tenant)

\* validate_token_session
Current(k) ==
    /\ token[k].epoch = epoch /\ k \notin revoked /\ UserExists(k)
    /\ token[k].tenant # None => Registered(token[k].tenant) /\ token[k].version = version[token[k].tenant]

Accepted(k) == cache[k] \in {"ok", "late"}

\* Mutant: an answer in the cache is the answer.
CachedAsItIs(k) == Accepted(k)

\* The answer in the cache, after another look at the epoch, at the revoked
\* tokens and at the user, but not at the tenant.
Cached(k) == Accepted(k) /\ token[k].epoch = epoch /\ k \notin revoked /\ UserExists(k)

\* cached_validate_token_session, up to the answer.
Validate(k) ==
    /\ Issued(k) /\ asking[k] = NoAnswer /\ Event
    /\ asking' = [asking EXCEPT ![k] = IF cache[k] = "none" THEN [ok |-> Current(k), at |-> "new"]
                                       ELSE [ok |-> Cached(k), at |-> "hit"]]
    /\ cache' = [cache EXCEPT ![k] = IF token[k].epoch = epoch /\ (k \in revoked \/ ~UserExists(k)) THEN "none" ELSE @]
    /\ UNCHANGED <<books, disk, deletion, token, revoked, epoch, dropping, campaigns>>

Answered(k) ==
    /\ asking' = [asking EXCEPT ![k] = NoAnswer]
    /\ cache' = [cache EXCEPT ![k] = IF asking[k].at = "hit" THEN @
                                    ELSE IF ~asking[k].ok THEN "refused" ELSE IF asking[k].at = "late" THEN "late" ELSE "ok"]

Refuse(k) ==
    /\ asking[k].at # "none" /\ ~asking[k].ok /\ Answered(k)
    /\ UNCHANGED <<books, disk, deletion, token, revoked, epoch, dropping, campaigns, events>>

\* The request runs in the context of its tenant.
Serve(k) ==
    /\ asking[k].at # "none" /\ asking[k].ok /\ Answered(k)
    /\ IF token[k].tenant = None THEN UNCHANGED disk ELSE Touch(token[k].tenant)
    /\ UNCHANGED <<books, deletion, token, revoked, epoch, dropping, campaigns, events>>

\* impersonate: an administrator takes a token for a tenant.
Impersonate(k, j, t) ==
    /\ asking[k].at # "none" /\ asking[k].ok /\ token[k].kind = "admin" /\ Answered(k)
    /\ token[j] = NoToken /\ Registered(t) /\ CreateToken(j, "acting", t, k) /\ Touch(t)
    /\ UNCHANGED <<books, deletion, revoked, epoch, dropping, campaigns, events>>

\* Mutant: the cache is invalidated first.
DropFirst(k) ==
    /\ Issued(k) /\ k \notin revoked /\ Event
    /\ dropping' = dropping \cup {k}
    /\ UNCHANGED <<books, disk, deletion, token, revoked, epoch, cache, asking, campaigns>>

\* logout, exit_impersonation: the token is revoked, then the cache invalidated.
LogOut(k) ==
    /\ Issued(k) /\ k \notin revoked /\ Event
    /\ revoked' = revoked \cup {k} /\ dropping' = dropping \cup {k}
    /\ UNCHANGED <<books, disk, deletion, token, epoch, cache, asking, campaigns>>

\* A logout out of an administrator's acting for a tenant goes on with the
\* administrator's own token; the mere end of the acting does not.
Drop(k) ==
    /\ k \in dropping
    /\ cache' = [cache EXCEPT ![k] = "none"]
    /\ \E more \in {{}, {token[k].of} \ {None}} :
        revoked' = revoked \cup more /\ dropping' = (dropping \ {k}) \cup more
    /\ UNCHANGED <<books, disk, deletion, token, epoch, asking, campaigns, events>>

\* 30 seconds have passed
CacheExpires(k) ==
    /\ cache[k] # "none" /\ cache' = [cache EXCEPT ![k] = "none"]
    /\ UNCHANGED <<books, disk, deletion, token, revoked, epoch, asking, dropping, campaigns, events>>

\* write_epoch, by an administrator's recovery or after a restore.
WriteEpoch ==
    /\ Event /\ epoch' = epoch + 1
    /\ UNCHANGED <<books, disk, deletion, token, revoked, cache, asking, dropping, campaigns>>

SessionStep(k) ==
    \/ \E t \in Tenants \cup {None} : Authenticate(k, t)
    \/ Prepare(k) \/ Issue(k) \/ Validate(k) \/ Refuse(k) \/ Serve(k)
    \/ \E j \in Tokens, t \in Tenants : Impersonate(k, j, t)
    \/ LogOut(k) \/ Drop(k) \/ CacheExpires(k)

--------------------------------------------------------------------------------
(* Subscriptions, and the campaigns they allow *)

Paid(t) == Registered(t) /\ paid[t] = "paid"

StopWorker(t) ==
    /\ task' = [task EXCEPT ![t] = IF @ = "forgotten" THEN @ ELSE "none"]
    /\ start' = [start EXCEPT ![t].fine = FALSE]

\* An extension is of a day at least, the loop comes every hour.
Extend(t) ==
    /\ Registered(t) /\ Event
    /\ paid' = [paid EXCEPT ![t] = "paid"] /\ recent' = [recent EXCEPT ![t] = TRUE]
    /\ UNCHANGED <<books, disk, deletion, sessions, found, start, task>>

Expire(t) ==
    /\ Paid(t) /\ ~recent[t] /\ Event /\ paid' = [paid EXCEPT ![t] = "expired"]
    /\ UNCHANGED <<books, disk, deletion, sessions, recent, found, start, task>>

Revoke(t) ==
    /\ Registered(t) /\ Event /\ paid' = [paid EXCEPT ![t] = "expired"] /\ StopWorker(t)
    /\ UNCHANGED <<books, disk, deletion, sessions, recent, found>>

\* Mutant: who was stopped once stays on the list.
NobodyIsPaidAgain == {}

PaidAgain == {t \in stopped : Paid(t)}

\* _tick begins: of the expired it finds those of the last 25 hours.
Tick ==
    /\ due = {} /\ ending = None
    /\ recent' = [t \in Tenants |-> FALSE] /\ stopped' = stopped \ PaidAgain
    /\ due' \in SUBSET {t \in Tenants : Registered(t) /\ paid[t] = "expired"}
    /\ UNCHANGED <<books, disk, deletion, sessions, paid, ending, start, task, events>>

\* It looks at the next; a worker that is there is cancelled and waited for.
TickLooks(t) ==
    /\ t \in due /\ ending = None /\ due' = due \ {t}
    /\ \/ (t \in stopped \/ Paid(t)) /\ UNCHANGED <<stopped, ending, start, task>>
       \/ /\ t \notin stopped /\ ~Paid(t) /\ StopWorker(t)
          /\ IF task[t] \in {"paid", "excused"} THEN ending' = t /\ UNCHANGED stopped
             ELSE stopped' = stopped \cup {t} /\ UNCHANGED ending
    /\ UNCHANGED <<books, disk, deletion, sessions, paid, recent, events>>

TickNotes ==
    /\ ending # None /\ stopped' = stopped \cup {ending} /\ ending' = None
    /\ UNCHANGED <<books, disk, deletion, sessions, paid, recent, due, start, task, events>>

\* An error ends the round.
TickFails ==
    /\ due # {} \/ ending # None
    /\ due' = {} /\ ending' = None
    /\ UNCHANGED <<books, disk, deletion, sessions, paid, recent, stopped, start, task, events>>

Round == Tick \/ (\E t \in Tenants : TickLooks(t)) \/ TickNotes \/ TickFails

\* A user or the scheduler needs the subscription to start a campaign, and an
\* administrator who acts for the tenant does not.
StartChecks(t, acting) ==
    /\ Registered(t) /\ start[t] = NoStart /\ Event /\ (Paid(t) \/ acting)
    /\ start' = [start EXCEPT ![t] = [at |-> "checked", fine |-> Paid(t)]]
    /\ Touch(t) /\ UNCHANGED <<books, deletion, sessions, paid, recent, found, task>>

\* The worker's task, unless there is one.
StartSpawns(t) ==
    /\ start[t].at = "checked" /\ start' = [start EXCEPT ![t] = NoStart]
    /\ Touch(t)
    /\ task' = [task EXCEPT ![t] = IF @ # "none" THEN @ ELSE IF start[t].fine THEN "paid" ELSE "excused"]
    /\ UNCHANGED <<books, deletion, sessions, paid, recent, found, events>>

\* The watchdog stops a worker that hangs and starts another, subscription or not.
WatchdogRestarts(t) ==
    /\ task[t] \in {"paid", "excused"} /\ start[t] = NoStart
    /\ start' = [start EXCEPT ![t] = [at |-> "checked", fine |-> task[t] = "paid"]]
    /\ task' = [task EXCEPT ![t] = "none"]
    /\ UNCHANGED <<books, disk, deletion, sessions, paid, recent, found, events>>

WorkerWorks(t) ==
    /\ task[t] # "none" /\ Touch(t) /\ task' \in {task, [task EXCEPT ![t] = "none"]}
    /\ UNCHANGED <<books, deletion, sessions, paid, recent, found, start, events>>

\* The scheduler looks at every tenant.
Scan(t) ==
    /\ Registered(t) /\ Touch(t)
    /\ UNCHANGED <<books, deletion, sessions, campaigns, events>>

CampaignStep(t) ==
    \/ Extend(t) \/ Expire(t) \/ Revoke(t) \/ Scan(t)
    \/ \E acting \in BOOLEAN : StartChecks(t, acting)
    \/ StartSpawns(t) \/ WatchdogRestarts(t) \/ WorkerWorks(t)

--------------------------------------------------------------------------------
(* Deletion *)

Deleting(d, at) == deletion[d].at = at
Goto(d, at) == deletion' = [deletion EXCEPT ![d].at = at]
GiveUp(d) == deletion' = [deletion EXCEPT ![d] = NoDeletion]

BeginDeletion(d, t) ==
    /\ deletion[d] = NoDeletion /\ Registered(t) /\ Event
    /\ deletion' = [deletion EXCEPT ![d] = [tenant |-> t, at |-> "stop", moved |-> FALSE]]
    /\ UNCHANGED <<books, disk, sessions, campaigns>>

StopsForDeletion(d) ==
    /\ Deleting(d, "stop") /\ Goto(d, "bump") /\ StopWorker(deletion[d].tenant)
    /\ UNCHANGED <<books, disk, sessions, paid, recent, found, events>>

\* bump_tenant_token_version, which raises when the row is gone.
Bumps(d) ==
    LET t == deletion[d].tenant IN
    /\ Deleting(d, "bump")
    /\ IF Registered(t) THEN Goto(d, "clear") /\ version' = [version EXCEPT ![t] = @ + 1]
       ELSE GiveUp(d) /\ UNCHANGED version
    /\ UNCHANGED <<row, joining, disk, sessions, campaigns, events>>

\* Mutant: the cache is left to expire.
ClearedNothing == cache

\* clear_session_cache
Cleared == [k \in Tokens |-> "none"]

Clears(d) ==
    /\ Deleting(d, "clear") /\ Goto(d, "move") /\ cache' = Cleared
    /\ asking' = [k \in Tokens |-> IF asking[k] = [ok |-> TRUE, at |-> "new"] THEN [asking[k] EXCEPT !.at = "late"] ELSE asking[k]]
    /\ UNCHANGED <<books, disk, token, revoked, epoch, dropping, campaigns, events>>

\* Mutant: the directory is removed at once.
MoveOut(t) == live' = [live EXCEPT ![t] = None] /\ UNCHANGED <<aside, made>>

\* The rename, which fails when the other directory is there.
MoveAside(t) ==
    /\ aside[t] = None
    /\ aside' = [aside EXCEPT ![t] = live[t]] /\ live' = [live EXCEPT ![t] = None] /\ UNCHANGED made

Moves(d) ==
    LET t == deletion[d].tenant IN
    /\ Deleting(d, "move")
    /\ \/ live[t] = None /\ Goto(d, "delete") /\ UNCHANGED disk
       \/ live[t] # None /\ MoveAside(t)
          /\ deletion' = [deletion EXCEPT ![d].at = "delete", ![d].moved = TRUE]
       \/ live[t] # None /\ GiveUp(d) /\ UNCHANGED disk
    /\ UNCHANGED <<books, sessions, campaigns, events>>

\* delete_tenant: it may raise before its commit or after it, and finds no row
\* when another deletion was faster.
Deletes(d) ==
    LET t == deletion[d].tenant IN
    /\ Deleting(d, "delete")
    /\ \/ Registered(t) /\ Goto(d, "drop")
       \/ Goto(d, "restore")
    /\ row' \in IF deletion'[d].at = "drop" THEN {[row EXCEPT ![t] = "gone"]} ELSE {row, [row EXCEPT ![t] = "gone"]}
    /\ UNCHANGED <<version, joining, disk, sessions, campaigns, events>>

\* Unless the tenant's directory has been made anew.
Restores(d) ==
    LET t == deletion[d].tenant IN
    /\ Deleting(d, "restore") /\ GiveUp(d)
    /\ \/ UNCHANGED disk
       \/ /\ deletion[d].moved /\ live[t] = None
          /\ live' = [live EXCEPT ![t] = aside[t]] /\ aside' = [aside EXCEPT ![t] = None] /\ UNCHANGED made
    /\ UNCHANGED <<books, sessions, campaigns, events>>

\* drop_worker: a worker started since the stop goes on.
DropsWorker(d) ==
    /\ Deleting(d, "drop") /\ Goto(d, "purge")
    /\ task' = [task EXCEPT ![deletion[d].tenant] = IF @ = "none" THEN @ ELSE "forgotten"]
    /\ UNCHANGED <<books, disk, sessions, paid, recent, found, start, events>>

Purges(d) ==
    LET t == deletion[d].tenant IN
    /\ Deleting(d, "purge") /\ GiveUp(d)
    /\ UNCHANGED disk \/ (deletion[d].moved /\ aside' = [aside EXCEPT ![t] = None] /\ UNCHANGED <<live, made>>)
    /\ UNCHANGED <<books, sessions, campaigns, events>>

DeletionStep(d) ==
    \/ \E t \in Tenants : BeginDeletion(d, t)
    \/ StopsForDeletion(d) \/ Bumps(d) \/ Clears(d) \/ Moves(d) \/ Deletes(d)
    \/ Restores(d) \/ DropsWorker(d) \/ Purges(d)

\* reconcile_tenant_quarantines, for one tenant: <<live, aside>>
Reconciled(t) ==
    IF aside[t] = None \/ live[t] # None THEN <<live[t], aside[t]>>
    ELSE IF Registered(t) THEN <<aside[t], None>>
    ELSE <<None, None>>

\* The process dies, at any moment, and starts again.
Restart ==
    /\ Event
    /\ live' = [t \in Tenants |-> Reconciled(t)[1]] /\ aside' = [t \in Tenants |-> Reconciled(t)[2]]
    /\ joining' = {} /\ deletion' = [d \in Deleters |-> NoDeletion]
    /\ token' = [k \in Tokens |-> IF token[k].kind \in {"verified", "prepared"} THEN NoToken ELSE token[k]]
    /\ cache' = [k \in Tokens |-> "none"] /\ asking' = [k \in Tokens |-> NoAnswer] /\ dropping' = {}
    /\ recent' = [t \in Tenants |-> FALSE] /\ stopped' = {} /\ due' = {} /\ ending' = None
    /\ start' = [t \in Tenants |-> NoStart] /\ task' = [t \in Tenants |-> "none"]
    /\ UNCHANGED <<row, version, made, revoked, epoch, paid>>

--------------------------------------------------------------------------------
Next ==
    \/ \E t \in Tenants : Register(t) \/ Registers(t) \/ RegistrationFails(t) \/ CampaignStep(t)
    \/ \E k \in Tokens : SessionStep(k)
    \/ \E d \in Deleters : DeletionStep(d)
    \/ WriteEpoch \/ Round \/ Restart

Spec == Init /\ [][Next]_vars

--------------------------------------------------------------------------------
(* Properties *)

\* The type of the state.  A logout invalidates what it has revoked before, or
\* a request between the two would put the answer back.
TenancyTypeOK ==
    /\ row \in [Tenants -> {"none", "there", "gone"}] /\ version \in [Tenants -> Nat] /\ joining \subseteq Tenants
    /\ live \in [Tenants -> 1 .. MaxMade \cup {None}] /\ aside \in [Tenants -> 1 .. MaxMade \cup {None}]
    /\ made \in [Tenants -> 0 .. MaxMade]
    /\ deletion \in [Deleters -> [tenant : Tenants \cup {None}, moved : BOOLEAN,
                                  at : {"none", "stop", "bump", "clear", "move", "delete", "restore", "drop", "purge"}]]
    /\ token \in [Tokens -> [kind : {"none", "verified", "prepared", "user", "admin", "acting"}, of : Tokens \cup {None},
                             tenant : Tenants \cup {None}, version : Nat, epoch : Nat]]
    /\ cache \in [Tokens -> {"none", "ok", "late", "refused"}]
    /\ asking \in [Tokens -> [ok : BOOLEAN, at : {"none", "new", "late", "hit"}]]
    /\ dropping \subseteq revoked /\ revoked \subseteq Tokens /\ epoch \in Nat
    /\ paid \in [Tenants -> {"never", "paid", "expired"}] /\ recent \in [Tenants -> BOOLEAN] /\ stopped \cup due \subseteq Tenants /\ ending \in Tenants \cup {None}
    /\ start \in [Tenants -> [at : {"none", "checked"}, fine : BOOLEAN]]
    /\ task \in [Tenants -> {"none", "paid", "excused", "forgotten"}] /\ events \in 0 .. MaxEvents

\* While PostgreSQL has a tenant, no database that was made for it is lost,
\* whatever deletion failed half way or was interrupted, and whoever made its
\* directory anew meanwhile (delete_user, reconcile_tenant_quarantines).
KeepsFiles == \A t \in Tenants : Registered(t) => 1 .. made[t] \subseteq {live[t], aside[t]}

\* No request is let in, by the cache or without it, with a token that was
\* revoked, that an earlier epoch issued or whose user was deleted
\* (cached_validate_token_session, logout).
SessionsEnd ==
    [][\A k \in Tokens : asking[k] = NoAnswer /\ asking'[k].ok =>
            k \notin revoked /\ token[k].epoch = epoch /\ UserExists(k)]_vars

\* A deletion, even one that fails later, ends the sessions of its tenant: when
\* it has cleared the cache, no answer for an earlier version of the tenant's
\* tokens comes back into it, except one that was on its way (delete_user).
ClearedStaysCleared ==
    \A k \in Tokens : cache[k] = "ok" /\ token[k].tenant # None /\ token[k].version # version[token[k].tenant] =>
        \E d \in Deleters : deletion[d].tenant = token[k].tenant /\ deletion[d].at = "clear"

\* Once the hourly loop has noted that a subscription expired, no campaign that was
\* started on that subscription runs, however often it is extended and expires
\* again, also while the loop waits for a worker (subscription_jobs._tick).  Of a
\* subscription that expired longer ago than the loop looks back it says nothing.
ExpiredIsStopped == \A t \in stopped : paid[t] = "expired" => task[t] # "paid"

================================================================================

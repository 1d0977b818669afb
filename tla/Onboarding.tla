------------------------------ MODULE Onboarding ------------------------------
(****************************************************************************)
(* Self-service onboarding of one group: the owner's invite and its locator *)
(* in the other database, the visitor's session, its sign-in task and the   *)
(* check that makes a member of the destination chat a work profile, with   *)
(* the cleanup thread beside them (app/routes_onboarding.py,                *)
(* app/repositories/onboarding.py, app/routes_groups.py).                   *)
(*                                                                          *)
(* Everything between two awaits is one step, except that a promotion can   *)
(* be met by the cleanup, a thread, and by a death between any two of its   *)
(* writes.  The cleanup reads the rows in one step and writes them, from    *)
(* what it read, in a later one.  An account is named by its phone; a       *)
(* profile's files by its id, which SQLite gives again once the row is      *)
(* deleted.                                                                 *)
(****************************************************************************)
EXTENDS Naturals, FiniteSets

CONSTANTS
    Sessions,     \* onboarding sessions, one per visit of the join link
    Phones,       \* phones visitors give; each has one MAX account
    Known,        \* phones that are profiles with a session beforehand
    Chats,        \* chats the owner may confirm as the group's destination
    MaxUses,      \* uses_count limit of every invite
    MaxInvites,   \* bound: invites issued
    MaxProfiles,  \* bound: the largest id of a profile
    MaxStarts,    \* bound: sign-ins requested
    MaxEvents,    \* bound: changes by the owner or the operator, lapses, rounds
                  \* of the cleanup loop and process deaths, together
    None,
    Blank         \* a session file that holds no token

VARIABLES
    group,     \* whether it is active, and its verified destination
    invites,   \* group_onboarding_invites: state, uses_count, lapsed
    locators,  \* onboarding_invite_tenants, in PostgreSQL
    rows,      \* onboarding_sessions
    consents,  \* onboarding_consents
    profiles,  \* the row of each phone: status, id, whether it is in a group
    store,     \* sessions/<id>: the session and the one moved aside
    locks,     \* _profile_client_locks: which lock of an id is the present one
    runtime,   \* _AUTH_RUNTIME
    task,      \* _AUTH_TASKS: where each sign-in is, and its account
    temp,      \* sessions/onboarding/<session>: session.db and session.db.enc
    check,     \* check-membership handlers, each under its session's lock
    clean,     \* the cleanup loop: what it read, what it has yet to prune
    left,      \* history: sessions whose row no longer says what to undo
    starts, events

counts == <<starts, events>>
owner == <<group, invites, locators>>
books == <<rows, consents, profiles>>
files == <<store, locks>>
signIn == <<runtime, task, temp>>
vars == <<owner, books, files, signIn, check, clean, left, counts>>

Kinds == {"code", "password"}
Waiting == [code |-> "waiting_code", password |-> "waiting_password"]
Verifying == [code |-> "verifying_code", password |-> "verifying_password"]
InProgress == {"requesting_code"} \cup {Waiting[k] : k \in Kinds} \cup {Verifying[k] : k \in Kinds}
Invites == 1..MaxInvites
Ids == 1..MaxProfiles

ASSUME OnboardingAssumption ==
    /\ MaxUses \in Nat \ {0}
    /\ MaxInvites \in Nat \ {0} /\ {MaxProfiles, MaxStarts, MaxEvents} \subseteq Nat
    /\ Known \subseteq Phones /\ IsFiniteSet(Sessions) /\ Blank \notin Phones \cup {None}
    /\ None \notin Sessions \cup Phones \cup Chats \cup InProgress
                \cup {"created", "waiting_membership", "finalizing", "completed", "failed", "interrupted",
                      "expired", "deleted", "pending", "active", "disabled"}

NoInvite == [state |-> "none", uses |-> 0, lapsed |-> FALSE]
NoRow == [state |-> None, invite |-> 0, phone |-> None, user |-> None, ask |-> FALSE,
          promo |-> "none", profile |-> 0, made |-> FALSE, lapsed |-> FALSE]
NoProfile == [status |-> None, id |-> 0, linked |-> FALSE]
NoFiles == [session |-> None, aside |-> None]
NoTemp == [plain |-> None, sealed |-> None]
NoRuntime == [state |-> None, code |-> FALSE, password |-> FALSE]
NoTask == [at |-> "none", account |-> None]
NoCheck == [at |-> "none", phone |-> None, profile |-> 0, lock |-> 0, chat |-> None, user |-> None,
            made |-> FALSE, moved |-> FALSE,
            crossed |-> FALSE]  \* history: the profile's row or files were taken from it
NoClean == [at |-> "idle", rows |-> [s \in Sessions |-> NoRow], prune |-> {}]

\* The profiles there are beforehand have any ids, and sessions of their own.
Init ==
    /\ group \in {[active |-> TRUE, chat |-> c] : c \in Chats}
    /\ invites = [i \in Invites |-> IF i = 1 THEN [NoInvite EXCEPT !.state = "active"] ELSE NoInvite]
    /\ locators = {1}
    /\ rows = [s \in Sessions |-> NoRow] /\ consents = {}
    /\ \E id \in [Known -> Ids] :
        /\ \A p, q \in Known : id[p] = id[q] => p = q
        /\ profiles = [p \in Phones |->
              IF p \in Known THEN [status |-> "active", id |-> id[p], linked |-> TRUE] ELSE NoProfile]
        /\ store = [i \in Ids |-> [session |-> IF \E p \in Known : id[p] = i THEN CHOOSE p \in Known : id[p] = i ELSE None,
                                   aside |-> None]]
    /\ locks = [i \in Ids |-> 0]
    /\ runtime = [s \in Sessions |-> NoRuntime] /\ task = [s \in Sessions |-> NoTask]
    /\ temp = [s \in Sessions |-> NoTemp] /\ check = [s \in Sessions |-> NoCheck]
    /\ clean = NoClean /\ left = {}
    /\ starts = 0 /\ events = 0

Exists(s) == rows[s].state \notin {None, "deleted"}
Starts == starts < MaxStarts /\ starts' = starts + 1 /\ UNCHANGED events
Event == events < MaxEvents /\ events' = events + 1 /\ UNCHANGED starts

--------------------------------------------------------------------------------
(* The owner's side *)

Usable(i) == invites[i].state = "active" /\ ~invites[i].lapsed /\ invites[i].uses < MaxUses
InviteValid(i) == Usable(i) /\ group.active /\ group.chat # None

Active == {i \in Invites : invites[i].state = "active"}

Revoked == [i \in Invites |-> IF i \in Active THEN [invites[i] EXCEPT !.state = "revoked"] ELSE invites[i]]

\* delete_onboarding_invite_locator, unless PostgreSQL does not answer
Located == {locators \ Active, locators}

\* A new invite replaces the active one; when its locator cannot be written it
\* is revoked, and nothing is when the old one's cannot be deleted.
CreateInvite ==
    /\ group.active /\ group.chat # None /\ Event
    /\ \E i \in Invites :
        /\ invites[i].state = "none" /\ \A j \in Invites : j < i => invites[j].state # "none"
        /\ \/ /\ invites' = [Revoked EXCEPT ![i].state = "active"]
              /\ locators' = (locators \ Active) \cup {i}
           \/ /\ invites' = [Revoked EXCEPT ![i].state = "revoked"]
              /\ locators' = locators \ Active
           \/ /\ Active # {} /\ invites' = [Revoked EXCEPT ![i].state = "active"]
              /\ UNCHANGED locators
    /\ UNCHANGED <<group, books, files, signIn, check, clean, left>>

Revoke == invites' = Revoked /\ locators' \in Located

RevokeInvite ==
    /\ Active # {} /\ Revoke /\ Event
    /\ UNCHANGED <<group, books, files, signIn, check, clean, left>>

\* Mutant: a new link clears the destination and keeps the invite.
ChangeLinkKeepingInvite ==
    /\ group' = [group EXCEPT !.chat = None] /\ UNCHANGED <<invites, locators>>

\* PATCH /api/groups with an invite_link
ChangeLink == group' = [group EXCEPT !.chat = None] /\ Revoke

\* PATCH /api/groups with is_active
Deactivate == group.active /\ group' = [group EXCEPT !.active = FALSE] /\ Revoke
Activate == ~group.active /\ group' = [group EXCEPT !.active = TRUE] /\ UNCHANGED <<invites, locators>>

\* The destination is confirmed; another chat than before revokes the invite.
Verify(c) ==
    /\ group' = [group EXCEPT !.chat = c]
    /\ IF group.chat = c THEN UNCHANGED <<invites, locators>> ELSE Revoke

ChangeGroup ==
    /\ ChangeLink \/ Deactivate \/ Activate \/ \E c \in Chats : Verify(c)
    /\ Event
    /\ UNCHANGED <<books, files, signIn, check, clean, left>>

\* An operator disables a profile, or MAX has banned it.
DisableProfile(p) ==
    /\ profiles[p].status = "active" /\ Event
    /\ profiles' = [profiles EXCEPT ![p].status = "disabled"]
    /\ UNCHANGED <<owner, rows, consents, files, signIn, check, clean, left>>

\* A profile's directory goes, with the lock of its id, although a check may
\* hold the lock or wait for it: it goes on under the old one.
Working == {"entering", "waiting", "installing", "validating", "settling", "discarding"}
Crossed(x, except) ==
    [s \in Sessions |-> IF s # except /\ check[s].at \in Working /\ check[s].profile = x
                        THEN [check[s] EXCEPT !.crossed = TRUE] ELSE check[s]]
TakeAway(x) ==
    /\ store' = [store EXCEPT ![x] = NoFiles]
    /\ locks' = [locks EXCEPT ![x] = @ + 1]
    /\ check' = Crossed(x, None)

\* _delete_profile_runtime refuses while a client of the profile is leased: that
\* is so for some of the time that a check validates.
Leased(x) == \E s \in Sessions : check[s].at = "validating" /\ check[s].profile = x

\* A consent refers to its profile: the row cannot be deleted any more.
Consented(x) == \E c \in consents : c.profile = x

\* The owner takes a profile out of its last group.
RemoveProfile(p) ==
    /\ profiles[p].linked
    /\ LET x == profiles[p].id
           unlinked == [profiles EXCEPT ![p].linked = FALSE] IN
        \/ Leased(x) /\ profiles' = unlinked /\ UNCHANGED <<files, check>>
        \/ /\ TakeAway(x)
           /\ profiles' = IF Consented(x) THEN unlinked ELSE [profiles EXCEPT ![p] = NoProfile]

\* delete_profile_session
DeleteSession(p) ==
    /\ profiles[p].status # None
    /\ TakeAway(profiles[p].id)
    /\ profiles' = [profiles EXCEPT ![p].status = "pending"]

ChangeProfile(p) ==
    /\ RemoveProfile(p) \/ DeleteSession(p)
    /\ Event
    /\ UNCHANGED <<owner, rows, consents, signIn, clean, left>>

\* Time: a session's expiry is at most its invite's.
Lapse(s) ==
    /\ Exists(s) /\ ~rows[s].lapsed /\ Event
    /\ rows' = [rows EXCEPT ![s].lapsed = TRUE]
    /\ \/ UNCHANGED invites
       \/ /\ \A t \in Sessions : rows[t].invite = rows[s].invite => rows'[t].lapsed
          /\ invites' = [invites EXCEPT ![rows[s].invite].lapsed = TRUE]
    /\ UNCHANGED <<group, locators, consents, profiles, files, signIn, check, clean, left>>

OwnerStep ==
    \/ CreateInvite \/ RevokeInvite \/ ChangeGroup
    \/ \E p \in Phones : DisableProfile(p) \/ ChangeProfile(p)
    \/ \E s \in Sessions : Lapse(s)

--------------------------------------------------------------------------------
(* The visitor's requests *)

\* _session_repo
Admitted(s) ==
    /\ Exists(s) /\ ~rows[s].lapsed
    /\ rows[s].state = "completed" \/ InviteValid(rows[s].invite)

Unlocked(s) == check[s].at = "none"
Runs(s) == task[s].at # "none"

Consume(s) ==
    /\ rows[s] = NoRow
    /\ \E i \in locators :
        /\ InviteValid(i)
        /\ rows' = [rows EXCEPT ![s] = [NoRow EXCEPT !.state = "created", !.invite = i]]
    /\ UNCHANGED <<owner, consents, profiles, files, signIn, check, clean, left, counts>>

\* _launch_auth
Launch(s, p) == task' = IF Runs(s) THEN task ELSE [task EXCEPT ![s] = [at |-> "starting", account |-> p]]

\* A start takes no lock and looks neither at the session's state nor at its
\* expiry; a sign-in that runs goes on with the phone it has.
StartSignIn(s, p) ==
    /\ Exists(s) /\ InviteValid(rows[s].invite) /\ Starts
    /\ rows' = [rows EXCEPT ![s].phone = p, ![s].state = "requesting_code",
                            ![s].ask = profiles[p].status # None]
    /\ runtime' = [runtime EXCEPT ![s].state = "requesting_code"]
    /\ Launch(s, p)
    /\ UNCHANGED <<owner, consents, profiles, files, temp, check, clean, left>>

Resend(s) ==
    /\ Unlocked(s) /\ Admitted(s) /\ InviteValid(rows[s].invite)
    /\ rows[s].phone # None /\ ~Runs(s) /\ Starts
    /\ temp' = [temp EXCEPT ![s] = NoTemp]
    /\ runtime' = [runtime EXCEPT ![s] = [NoRuntime EXCEPT !.state = "requesting_code"]]
    /\ rows' = [rows EXCEPT ![s].state = "requesting_code"]
    /\ Launch(s, rows[s].phone)
    /\ UNCHANGED <<owner, consents, profiles, files, check, clean, left>>

\* onboarding_code, onboarding_password
Enter(s, k) ==
    /\ Unlocked(s) /\ Admitted(s)
    /\ runtime[s].state = Waiting[k] /\ ~runtime[s][k]
    /\ runtime' = [runtime EXCEPT ![s].state = Verifying[k], ![s][k] = TRUE]
    /\ rows' = [rows EXCEPT ![s].state = Verifying[k]]
    /\ UNCHANGED <<owner, consents, profiles, files, task, temp, check, clean, left, counts>>

ConfirmName(s) ==
    /\ Admitted(s) /\ rows[s].state = "waiting_membership" /\ rows[s].ask
    /\ rows' = [rows EXCEPT ![s].ask = FALSE]
    /\ UNCHANGED <<owner, consents, profiles, files, signIn, check, clean, left, counts>>

VisitorStep(s) ==
    \/ Consume(s) \/ Resend(s) \/ ConfirmName(s)
    \/ \E p \in Phones : StartSignIn(s, p)
    \/ \E k \in Kinds : Enter(s, k)

--------------------------------------------------------------------------------
(* The sign-in task *)

\* _persist_state and _runtime_state: a row that is gone is not written, and a
\* sign-in whose runtime was dropped says nothing more.
Written(s, state) == IF Exists(s) THEN [rows EXCEPT ![s].state = state] ELSE rows
Says(s, state) ==
    IF runtime[s].state = None THEN UNCHANGED <<rows, runtime>>
    ELSE runtime' = [runtime EXCEPT ![s].state = state] /\ rows' = Written(s, state)

TaskAt(s, at) == task' = [task EXCEPT ![s].at = at]

Keeps(s, plain) == temp' = [temp EXCEPT ![s].plain = plain]

\* The client connects as the account whose token session.db holds, which may
\* be a check's; without one it makes the file and asks for a code.
TaskOpens(s) ==
    /\ task[s].at = "starting"
    /\ IF temp[s].plain \in Phones
       THEN task' = [task EXCEPT ![s] = [at |-> "verify", account |-> temp[s].plain]] /\ UNCHANGED <<rows, runtime, temp>>
       ELSE Says(s, Waiting["code"]) /\ TaskAt(s, "code") /\ Keeps(s, Blank)

TaskAsksPassword(s) ==
    /\ task[s].at = "verify"
    /\ Says(s, Waiting["password"]) /\ TaskAt(s, "password") /\ UNCHANGED temp

TaskTakes(s, k) ==
    /\ task[s].at = k /\ runtime[s][k]
    /\ runtime' = [runtime EXCEPT ![s].state = Verifying[k], ![s][k] = FALSE]
    /\ rows' = Written(s, Verifying[k]) /\ TaskAt(s, "verify") /\ UNCHANGED temp

\* The client has stored its token, unless a check has removed or rewritten the
\* file underneath it.
TaskSignedIn(s) ==
    /\ task[s].at = "verify" /\ TaskAt(s, "signedIn")
    /\ \E plain \in {temp[s].plain, task[s].account} :
        /\ temp[s].plain = None => plain = None
        /\ temp[s].plain = Blank => plain = task[s].account
        /\ Keeps(s, plain)
    /\ UNCHANGED <<rows, runtime>>

TaskEnds(s, state) ==
    /\ task' = [task EXCEPT ![s] = NoTask]
    /\ rows' = Written(s, state)

\* session.db is sealed as it stands; MAX_SESSION_MISSING when it is gone.
TaskSucceeds(s) ==
    /\ task[s].at = "signedIn" /\ temp[s].plain # None
    /\ temp' = [temp EXCEPT ![s] = [plain |-> None, sealed |-> temp[s].plain]]
    /\ task' = [task EXCEPT ![s] = NoTask]
    /\ rows' = IF Exists(s) THEN [rows EXCEPT ![s].state = "waiting_membership", ![s].user = task[s].account]
               ELSE rows
    /\ runtime' = [runtime EXCEPT ![s].state = IF @ = None THEN None ELSE "waiting_membership"]

\* An error, a refusal or a timeout, at any point, deletes session.db*.
TaskFails(s) ==
    /\ Runs(s) /\ task[s].at # "stopping"
    /\ TaskEnds(s, "failed") /\ temp' = [temp EXCEPT ![s] = NoTemp]
    /\ runtime' = [runtime EXCEPT ![s].state = IF @ = None THEN None ELSE "failed"]

TaskCancelled(s) ==
    /\ task[s].at = "stopping"
    /\ TaskEnds(s, "interrupted") /\ temp' = [temp EXCEPT ![s] = NoTemp]
    /\ UNCHANGED runtime

TaskStep(s) ==
    /\ \/ TaskOpens(s) \/ TaskAsksPassword(s) \/ TaskSignedIn(s) \/ TaskSucceeds(s)
       \/ TaskFails(s) \/ TaskCancelled(s) \/ \E k \in Kinds : TaskTakes(s, k)
    /\ UNCHANGED <<owner, consents, profiles, files, check, clean, left, counts>>

--------------------------------------------------------------------------------
(* Check of membership and finalization, under the session's lock *)

CheckAt(s, at) == check' = [check EXCEPT ![s].at = at]
CheckEnds(s) == check' = [check EXCEPT ![s] = NoCheck]

\* The handler goes on with the row, the account and the chat it has read, and
\* opens the sealed session beside whatever sign-in runs.
BeginCheck(s) ==
    /\ Unlocked(s) /\ Admitted(s)
    /\ rows[s].state \in {"waiting_membership", "finalizing"} /\ ~rows[s].ask
    /\ temp[s].sealed # None /\ Keeps(s, temp[s].sealed)
    /\ check' = [check EXCEPT ![s] = [NoCheck EXCEPT !.at = "proving", !.phone = rows[s].phone,
                                          !.chat = group.chat, !.user = rows[s].user]]
    /\ UNCHANGED <<owner, books, files, runtime, task, clean, left, counts>>

\* The client reads session.db; a file that is gone it makes anew.
Connect(s) ==
    /\ check[s].at = "proving"
    /\ IF temp[s].plain = check[s].user THEN CheckAt(s, "connected") ELSE CheckAt(s, "refused")
    /\ IF temp[s].plain = None THEN Keeps(s, Blank) ELSE UNCHANGED temp
    /\ UNCHANGED <<owner, books, files, runtime, task, clean, left, counts>>

\* The network part ends by sealing session.db, whosever it is now.
Reseal(s) ==
    temp' = [temp EXCEPT ![s].plain = None,
                         ![s].sealed = IF temp[s].plain = None THEN @ ELSE temp[s].plain]

\* MAX does not answer, or says that the account is another or no member.
NotProved(s) ==
    /\ check[s].at \in {"proving", "connected", "refused"} /\ CheckEnds(s)
    /\ rows' \in {rows} \cup (IF check[s].at = "connected" THEN {Written(s, "waiting_membership")} ELSE {})
    /\ Reseal(s)
    /\ UNCHANGED <<owner, consents, profiles, files, runtime, task, clean, left, counts>>

\* INTEGER PRIMARY KEY: one more than the largest id in the table.
NewId(n) == (\A p \in Phones : profiles[p].id < n) /\ \E p \in Phones : profiles[p].id = n - 1

\* A check that still works under an id's former lock
Stale(x) == \E t \in Sessions : check[t].at \in Working /\ check[t].profile = x /\ check[t].lock # locks[x]

\* _profile_client_lock
Promoting == {"installing", "validating", "settling", "discarding"}
Held(x, lock) == \E t \in Sessions : check[t].at \in Promoting /\ check[t].profile = x /\ check[t].lock = lock

\* A phone that has no profile gets one, pending; the handler enters the lock
\* its id has now, or waits for it.
Proved(s) ==
    /\ check[s].at = "connected" /\ Reseal(s)
    /\ LET p == check[s].phone
           made == profiles[p].status = None IN
        \/ /\ profiles[p].status = "disabled"
           /\ CheckEnds(s) /\ UNCHANGED profiles
        \/ \E x \in Ids :
            /\ profiles[p].status # "disabled"
            /\ IF made THEN NewId(x) ELSE profiles[p].id = x
            /\ profiles' = IF made THEN [profiles EXCEPT ![p] = [NoProfile EXCEPT !.status = "pending", !.id = x]]
                           ELSE profiles
            /\ check' = [check EXCEPT ![s] = [@ EXCEPT !.at = IF Held(x, locks[x]) THEN "waiting" ELSE "entering",
                                                      !.profile = x, !.lock = locks[x],
                                                      !.made = made, !.crossed = Stale(x)]]
    /\ UNCHANGED <<owner, rows, consents, files, runtime, task, clean, left, counts>>

Files(s) == store[check[s].profile]
Holds(s, session, aside) == store' = [store EXCEPT ![check[s].profile] = [session |-> session, aside |-> aside]]

\* The profile's session is moved aside; a session aside already ends it here.
Stage(s) ==
    /\ check[s].at \in {"entering", "waiting"} /\ ~Held(check[s].profile, check[s].lock)
    /\ IF Files(s).aside # None THEN CheckEnds(s) /\ UNCHANGED <<rows, store, left>>
       ELSE /\ Holds(s, None, Files(s).session)
            /\ check' = [check EXCEPT ![s].at = "installing", ![s].moved = Files(s).session # None]
            /\ rows' = IF Exists(s) THEN [rows EXCEPT ![s].state = "finalizing", ![s].promo = "promoting",
                                                 ![s].profile = check[s].profile, ![s].made = check[s].made]
                       ELSE rows
            /\ left' = left \ {s}
    /\ UNCHANGED <<owner, consents, profiles, locks, signIn, clean, counts>>

\* DELETE FROM profiles WHERE id = x and no group has it
Loose(x) == {p \in Phones : profiles[p].id = x /\ ~profiles[p].linked}
Without(x) == [p \in Phones |-> IF p \in Loose(x) THEN NoProfile ELSE profiles[p]]
Refused(x, made) == made /\ Loose(x) # {} /\ Consented(x)

\* _restore_staged_session: only what was moved aside is put back; with nothing
\* moved the new session stays.
PutBack(s) == IF check[s].moved THEN Holds(s, Files(s).aside, None) ELSE UNCHANGED store

\* Mutant: a failed promotion leaves the row as it was.
UndoQuietly(s) ==
    /\ PutBack(s) /\ CheckEnds(s) /\ UNCHANGED <<rows, consents, profiles, invites, left>>

\* The profile the check has made is deleted; when that is refused the error
\* leaves the row as it is.
Undo(s) ==
    /\ PutBack(s)
    /\ IF Refused(check[s].profile, check[s].made)
       THEN CheckEnds(s) /\ left' = left \cup {s} /\ UNCHANGED <<rows, profiles>>
       ELSE LET gone == check[s].made /\ Loose(check[s].profile) # {} IN
            /\ profiles' = IF gone THEN Without(check[s].profile) ELSE profiles
            /\ check' = [IF gone THEN Crossed(check[s].profile, s) ELSE check EXCEPT ![s] = NoCheck]
            /\ rows' = IF Exists(s) THEN [rows EXCEPT ![s].state = "waiting_membership", ![s].promo = "restored",
                                                 ![s].profile = 0]
                       ELSE rows
            /\ UNCHANGED left
    /\ UNCHANGED <<consents, invites>>

Install(s) ==
    /\ check[s].at = "installing"
    /\ IF temp[s].sealed = None THEN Undo(s)
       ELSE /\ Holds(s, temp[s].sealed, Files(s).aside)
            /\ rows' = IF Exists(s) THEN [rows EXCEPT ![s].state = "finalizing", ![s].promo = "promoted"] ELSE rows
            /\ CheckAt(s, "validating") /\ UNCHANGED <<consents, profiles, invites, left>>
    /\ UNCHANGED <<group, locators, locks, signIn, clean, counts>>

\* Mutant: any session that connects will do.
ValidAny(s) == TRUE

\* validate_profile_session
Valid(s) == Files(s).session = check[s].user

Validate(s) ==
    /\ check[s].at = "validating"
    /\ \/ Valid(s) /\ CheckAt(s, "settling") /\ UNCHANGED <<books, invites, store, left>>
       \/ Undo(s)
    /\ UNCHANGED <<group, locators, locks, signIn, clean, counts>>

HasConsent(s) == \E c \in consents : c.session = s
SessionMaySettle(s) == Exists(s) /\ (rows[s].state = "completed" \/ Usable(rows[s].invite))

\* The profile is looked at by its id alone.
Owners(x) == {p \in Phones : profiles[p].id = x}
ProfileMaySettle(s) == \E p \in Owners(check[s].profile) : profiles[p].status # "disabled"

\* Mutant: the limit is the one that held when the check began.
MaySettleBeyond(s) == ProfileMaySettle(s) /\ Exists(s) /\ invites[rows[s].invite].state = "active"

\* The last transaction reads the profile and the invite again.
MaySettle(s) == ProfileMaySettle(s) /\ SessionMaySettle(s)

\* record_successful_use counts the invite unless the row is complete.
Settle(s) ==
    /\ check[s].at = "settling"
    /\ IF ~MaySettle(s) THEN Undo(s)
       ELSE LET x == check[s].profile
                i == rows[s].invite
                fresh == rows[s].state # "completed" IN
            /\ profiles' = [p \in Phones |-> IF p \in Owners(x)
                              THEN [profiles[p] EXCEPT !.status = "active", !.linked = @ \/ fresh] ELSE profiles[p]]
            /\ consents' = IF fresh /\ ~HasConsent(s)
                           THEN consents \cup {[session |-> s, profile |-> x, invite |-> i]} ELSE consents
            /\ invites' = IF fresh THEN [invites EXCEPT ![i].uses = @ + 1] ELSE invites
            /\ rows' = IF fresh THEN [rows EXCEPT ![s].state = "completed", ![s].promo = "complete",
                                             ![s].profile = x]
                       ELSE rows
            /\ CheckAt(s, "discarding") /\ UNCHANGED <<store, left>>
    /\ UNCHANGED <<group, locators, locks, signIn, clean, counts>>

\* _discard_staged_session, and the row says completed once more
Discard(s) ==
    /\ check[s].at = "discarding"
    /\ IF check[s].moved THEN Holds(s, Files(s).session, None) ELSE UNCHANGED store
    /\ rows' = IF Exists(s) THEN [rows EXCEPT ![s].state = "completed", ![s].promo = "complete",
                                         ![s].profile = check[s].profile]
               ELSE rows
    /\ CheckEnds(s)
    /\ UNCHANGED <<owner, consents, profiles, locks, signIn, clean, left, counts>>

CheckStep(s) ==
    \/ BeginCheck(s) \/ Connect(s) \/ NotProved(s) \/ Proved(s) \/ Stage(s)
    \/ Install(s) \/ Validate(s) \/ Settle(s) \/ Discard(s)

--------------------------------------------------------------------------------
(* Recovery and cleanup *)

Unfinished(row) == row.promo \in {"promoting", "promoted"} /\ row.state # "completed"
Half(row) == Unfinished(row) /\ row.profile # 0
Outlived(s) == Exists(s) /\ rows[s].lapsed

\* recover_and_cleanup_onboarding, from the rows it has read
RecoveredRow(read, s) ==
    LET live == IF read[s].state \in InProgress THEN [rows[s] EXCEPT !.state = "interrupted"] ELSE rows[s]
        back == IF Half(read[s]) THEN [live EXCEPT !.state = "waiting_membership", !.promo = "restored", !.profile = 0]
                ELSE live
        bare == [back EXCEPT !.phone = None, !.user = None] IN
    IF ~Exists(s) \/ read[s].state \in {None, "deleted"} THEN rows[s]
    ELSE IF ~Outlived(s) THEN back
    ELSE IF read[s].state = "completed" THEN bare
    ELSE IF HasConsent(s) THEN [bare EXCEPT !.state = "expired"]
    ELSE [NoRow EXCEPT !.state = "deleted"]

Halves(read, x) == {s \in Sessions : Half(read[s]) /\ read[s].profile = x}
Made(read) == {x \in Ids : \E s \in Halves(read, x) : read[s].made}
Refusals(read) == {s \in Sessions : Half(read[s]) /\ Refused(read[s].profile, read[s].made)}

\* The files of the sessions in done: promotions put back, temporary sessions
\* of those that have lapsed deleted.
RecoverFiles(read, done) ==
    /\ store' = [x \in Ids |-> IF Halves(read, x) \cap done = {} THEN store[x]
                               ELSE [session |-> store[x].aside, aside |-> None]]
    /\ temp' = [s \in Sessions |->
          IF s \in done /\ Outlived(s) /\ read[s].state \notin {None, "deleted"} THEN NoTemp ELSE temp[s]]

Recover(read) ==
    /\ Refusals(read) = {}
    /\ RecoverFiles(read, Sessions)
    /\ rows' = [s \in Sessions |-> RecoveredRow(read, s)]
    /\ profiles' = [p \in Phones |->
          IF ~profiles[p].linked /\ profiles[p].id \in Made(read) THEN NoProfile ELSE profiles[p]]

\* One refused deletion ends the pass: its transaction is rolled back, what it
\* has done to files is not.
RecoveryFails(read) ==
    /\ \E done \in SUBSET Sessions : done \cap Refusals(read) # {} /\ RecoverFiles(read, done)
    /\ UNCHANGED <<rows, profiles>>

CleanupReads ==
    /\ clean.at = "idle" /\ Event
    /\ clean' = [NoClean EXCEPT !.at = "read", !.rows = rows]
    /\ UNCHANGED <<owner, books, files, signIn, check, left>>

CleanupWrites ==
    /\ clean.at = "read"
    /\ \/ /\ Recover(clean.rows)
          /\ clean' = [NoClean EXCEPT !.at = "prune",
                           !.prune = {s \in Sessions : runtime[s] # NoRuntime \/ Runs(s)}]
          /\ left' = left \cup {s \in Sessions : Half(clean.rows[s]) /\ check[s].at \in Promoting}
       \/ RecoveryFails(clean.rows) /\ clean' = NoClean /\ UNCHANGED left
    /\ check' = [s \in Sessions |-> [check[s] EXCEPT !.crossed = @ \/
          /\ check[s].at \in Working
          /\ Halves(clean.rows, check[s].profile) # {}]]
    /\ UNCHANGED <<owner, consents, locks, runtime, task, counts>>

Finished(s) == ~Exists(s) \/ rows[s].lapsed \/ rows[s].state \in {"completed", "expired", "interrupted"}

\* _prune_onboarding_runtime cancels a sign-in and waits for its end, then
\* drops the runtime.
Prune(s) ==
    /\ clean.at = "prune" /\ s \in clean.prune
    /\ \/ /\ Finished(s) /\ Runs(s) /\ task[s].at # "stopping" /\ TaskAt(s, "stopping")
          /\ UNCHANGED <<clean, runtime>>
       \/ /\ Finished(s) /\ ~Runs(s) /\ runtime' = [runtime EXCEPT ![s] = NoRuntime]
          /\ clean' = [clean EXCEPT !.prune = @ \ {s}] /\ UNCHANGED task
       \/ /\ ~Finished(s) /\ clean' = [clean EXCEPT !.prune = @ \ {s}] /\ UNCHANGED <<runtime, task>>
    /\ UNCHANGED <<owner, books, files, temp, check, left, counts>>

Pruned ==
    /\ clean.at = "prune" /\ clean.prune = {} /\ clean' = NoClean
    /\ UNCHANGED <<owner, books, files, signIn, check, left, counts>>

\* The process dies; the next one recovers before it serves, and does not come
\* up when the recovery fails.
Restart ==
    /\ Event
    /\ Recover(rows)
    /\ locks' = [i \in Ids |-> 0]
    /\ runtime' = [s \in Sessions |-> NoRuntime] /\ task' = [s \in Sessions |-> NoTask]
    /\ check' = [s \in Sessions |-> NoCheck] /\ clean' = NoClean
    /\ UNCHANGED <<owner, consents, left>>

--------------------------------------------------------------------------------
\* A handler that has entered the lock does not await before it has installed
\* the session: only the cleanup's thread and a death come between.
Busy == {s \in Sessions : check[s].at \in {"entering", "installing"}}

Next ==
    \/ CleanupReads \/ CleanupWrites \/ Restart
    \/ Busy = {} /\ (OwnerStep \/ Pruned \/ \E s \in Sessions : Prune(s) \/ VisitorStep(s) \/ TaskStep(s))
    \/ \E s \in Sessions : Busy \subseteq {s} /\ CheckStep(s)

Spec == Init /\ [][Next]_vars

--------------------------------------------------------------------------------
(* Properties *)

\* Type invariant: among others, an invite is used within its limit, a group
\* has one active invite, and no two phones share a profile's id.
OnboardingTypeOK ==
    /\ group \in [active : BOOLEAN, chat : Chats \cup {None}]
    /\ \A i \in Invites : invites[i].uses \in 0..MaxUses
    /\ locators \subseteq Invites /\ Cardinality(Active) <= 1
    /\ \A p, q \in Phones : profiles[p].id = profiles[q].id /\ profiles[p].id # 0 => p = q
    /\ \A s \in Sessions : task[s].account \in Phones <=> Runs(s)
    /\ \A s \in Sessions : check[s].phone \in Phones <=> check[s].at # "none"

\* The chat an account was proved a member of is still the group's destination
\* when the account is linked: no change of the destination during the check's
\* network calls lets a member of the old chat in (_check_membership_and_
\* finalize goes on with the row it read; what stops it is the invite).
ProvedForCurrentDestination ==
    [][\A s \in Sessions : Settle(s) /\ check'[s].at = "discarding" /\ invites' # invites
          => check[s].chat = group'.chat]_vars

\* The profile a check activates is the one of the phone it began with, and the
\* session in that profile's directory is of the account whose membership was
\* proved: although sign-ins write the temporary session meanwhile, checks wait
\* for one profile's lock, and a deleted profile's id goes to the next one.  Set
\* apart are checks whose profile's row or files somebody else took away since
\* they proved the account (the owner, the cleanup, another check's undoing),
\* or that met one of these still at work under the id's former lock: for them
\* the code does not keep it.
InstalledIsProved ==
    [][\A s \in Sessions : Settle(s) /\ check'[s].at = "discarding" /\ ~check[s].crossed
          => /\ profiles'[check[s].phone].id = check[s].profile
             /\ store'[check[s].profile].session = check[s].user]_vars

\* A promotion the row calls unfinished is one that a handler is working on:
\* no failure, restart or cleanup leaves a row half promoted.  Set apart are the
\* rows from which a late cleanup took the profile during the promotion, and
\* those whose undoing the database refused.
HalfPromotionsAreUndone ==
    \A s \in Sessions \ left : Unfinished(rows[s]) => check[s].at \in Promoting

\* "consume the invite once for this session": the uses of an invite are its
\* consents.
UsedOncePerSession ==
    \A i \in Invites : invites[i].uses = Cardinality({c \in consents : c.invite = i})

\* "delete only expired onboarding data", "cancel abandoned auth workers": the
\* cleanup leaves a sign-in alone that is neither expired nor finished.
CleanupSparesLive ==
    [][\A s \in Sessions : CleanupWrites /\ Runs(s) /\ ~rows[s].lapsed => rows'[s] = rows[s]]_vars

\* What the last transaction does to a profile is what its check proved, with
\* nothing set apart.
SettlesWhatItProved ==
    [][\A s \in Sessions : Settle(s) /\ check'[s].at = "discarding"
          => /\ profiles'[check[s].phone].id = check[s].profile
             /\ store'[check[s].profile].session = check[s].user]_vars

\* No row stays half promoted when its handler has gone.
NoHalfIsLeft == \A s \in Sessions : Unfinished(rows[s]) => check[s].at \in Promoting
================================================================================

---------------------------- MODULE OnboardingProofs ----------------------------
(* An account is enrolled in its own profile and with its own session, for the  *)
(* destination it was proved a member of, and no promotion stays half done but  *)
(* those set apart: for any number of sessions, phones, chats, invites, ids,    *)
(* cleanups and restarts.                                                       *)
EXTENDS Onboarding, FiniteSetTheorems, TLAPS

PhoneOrNone == Phones \cup {None}
Tokens == Phones \cup {None, Blank}
IdOrNone == Ids \cup {0}

\* Where a row's sign-in or check can be, once it has begun and while the row is
\* neither complete nor deleted.
Live == InProgress \cup {"waiting_membership", "finalizing", "failed", "interrupted", "expired"}
States == Live \cup {None, "created", "completed", "deleted"}
HalfWay == {"promoting", "promoted"}

Rows == [state : States, invite : Invites \cup {0}, phone : PhoneOrNone, user : PhoneOrNone,
         ask : BOOLEAN, promo : HalfWay \cup {"none", "restored", "complete"}, profile : IdOrNone,
         made : BOOLEAN, lapsed : BOOLEAN]
Profiles == [status : {None, "pending", "active", "disabled"}, id : IdOrNone, linked : BOOLEAN]
Pairs == [session : Tokens, aside : Tokens]
Runtimes == [state : States, code : BOOLEAN, password : BOOLEAN]
Jobs == [at : {"none", "starting", "verify", "signedIn", "stopping"} \cup Kinds, account : PhoneOrNone]
Temps == [plain : Tokens, sealed : Tokens]
Checks == [at : {"none", "proving", "connected", "refused"} \cup Working, phone : PhoneOrNone,
           profile : IdOrNone, lock : Nat, chat : Chats \cup {None}, user : PhoneOrNone,
           made : BOOLEAN, moved : BOOLEAN, crossed : BOOLEAN]

OwnerTyped ==
    /\ group \in [active : BOOLEAN, chat : Chats \cup {None}]
    /\ invites \in [Invites -> [state : {"none", "active", "revoked"}, uses : 0..MaxUses, lapsed : BOOLEAN]]
    /\ locators \subseteq Invites

RowsTyped == rows \in [Sessions -> Rows]
ProfilesTyped == profiles \in [Phones -> Profiles]
FilesTyped == store \in [Ids -> Pairs] /\ locks \in [Ids -> Nat]
SignInTyped == runtime \in [Sessions -> Runtimes] /\ task \in [Sessions -> Jobs] /\ temp \in [Sessions -> Temps]
CheckTyped == check \in [Sessions -> Checks]
CleanTyped == clean \in [at : {"idle", "read", "prune"}, rows : [Sessions -> Rows], prune : SUBSET Sessions]

OneActive == \A i, j \in Active : i = j

TasksNamed == \A s \in Sessions : task[s].account \in Phones <=> Runs(s)
ChecksNamed == \A s \in Sessions : check[s].phone \in Phones <=> check[s].at # "none"

\* No sign-in, check or cleanup knows of a row before its first start.
Young(s) == rows[s].state \in {None, "created"}
YoungRows ==
    \A s \in Sessions : Young(s) =>
        /\ ~Runs(s) /\ runtime[s].state = None /\ check[s].at = "none"
        /\ clean.rows[s].state \in {None, "created"} /\ ~Half(clean.rows[s])

RowsOfInvites ==
    \A s \in Sessions : Exists(s) => rows[s].invite \in Invites /\ invites[rows[s].invite].state # "none"

\* A row that is served has the phone of its start.
RowsNamed ==
    \A s \in Sessions : Exists(s) /\ ~rows[s].lapsed /\ rows[s].state # "created" => rows[s].phone \in Phones

\* A row half promoted is neither deleted nor complete, and but for those set
\* apart its handler is at work and it names a profile: recovery finds it.
HalfPromoted(s) == rows[s].promo \in HalfWay
HalvesAreServed ==
    \A s \in Sessions : HalfPromoted(s) =>
        /\ rows[s].state \in Live
        /\ s \notin left => check[s].at \in Promoting /\ rows[s].profile # 0

InstallsNamed ==
    \A s \in Sessions \ left : check[s].at = "installing" /\ Exists(s) => rows[s].profile # 0

\* While a check goes on and its invite is active, the destination is the one
\* the check is about.
ChecksAreOfNow ==
    \A s \in Sessions : check[s].at # "none" /\ Exists(s) /\ invites[rows[s].invite].state = "active"
                            => check[s].chat = group.chat

\* No two phones have one id, and a phone without a profile has none.
IdsApart ==
    /\ \A p, q \in Phones : profiles[p].id = profiles[q].id /\ profiles[p].id # 0 => p = q
    /\ \A p \in Phones : profiles[p].status = None => profiles[p].id = 0

\* A check from which nothing was taken works on the profile of its phone, under
\* the present lock of its id, as does every other check that works on that id.
AtWork(s) == check[s].at \in Working
WorksOnItsOwn ==
    \A s \in Sessions : AtWork(s) =>
        /\ check[s].profile \in Ids
        /\ ~check[s].crossed =>
             /\ profiles[check[s].phone].id = check[s].profile
             /\ \A t \in Sessions : AtWork(t) /\ check[t].profile = check[s].profile
                                        => check[t].lock = locks[check[s].profile]

\* One handler at a time promotes under a lock, and a validated session stays.
OneHolder ==
    \A s, t \in Sessions : s # t /\ check[s].at \in Promoting /\ check[t].at \in Promoting
                               => check[s].profile # check[t].profile \/ check[s].lock # check[t].lock
ValidatedStays ==
    \A s \in Sessions : check[s].at = "settling" /\ ~check[s].crossed
                            => store[check[s].profile].session = check[s].user

\* The inductive invariant, in two parts: what the rows say, and who works on
\* which profile.
RowInvs == YoungRows /\ RowsOfInvites /\ RowsNamed /\ HalvesAreServed /\ InstallsNamed /\ ChecksAreOfNow
WorkInvs ==
    /\ ProfilesTyped /\ FilesTyped /\ CheckTyped /\ ChecksNamed
    /\ IdsApart /\ WorksOnItsOwn /\ OneHolder /\ ValidatedStays
OnboardingInv ==
    /\ OwnerTyped /\ OneActive /\ RowsTyped /\ SignInTyped /\ TasksNamed /\ CleanTyped
    /\ RowInvs /\ WorkInvs

--------------------------------------------------------------------------------
(* Who changes what *)

CleanStep == CleanupReads \/ CleanupWrites \/ Restart \/ Pruned \/ \E s \in Sessions : Prune(s)

LEMMA NextCases ==
  ASSUME [Next]_vars
  PROVE  \/ OwnerStep \/ CleanStep \/ UNCHANGED vars
         \/ \E s \in Sessions : VisitorStep(s) \/ TaskStep(s) \/ CheckStep(s)
BY DEF Next, CleanStep

LEMMA Frames ==
  /\ OwnerStep => UNCHANGED <<consents, signIn, clean, left>>
  /\ \A s \in Sessions : VisitorStep(s) \/ TaskStep(s) => UNCHANGED <<owner, consents, profiles, files, check, clean, left>>
  /\ \A s \in Sessions : CheckStep(s) => UNCHANGED <<group, locators, locks, runtime, task, clean>>
  /\ CleanStep => UNCHANGED <<owner, consents>>
<1>1. OwnerStep => UNCHANGED <<consents, signIn, clean, left>>
  <2>1. CreateInvite \/ RevokeInvite \/ ChangeGroup => UNCHANGED <<consents, signIn, clean, left>>
    BY DEF CreateInvite, RevokeInvite, ChangeGroup, books
  <2>2. \A p \in Phones : DisableProfile(p) => UNCHANGED <<consents, signIn, clean, left>>
    BY DEF DisableProfile
  <2>3. \A p \in Phones : ChangeProfile(p) => UNCHANGED <<consents, signIn, clean, left>>
    BY DEF ChangeProfile
  <2>4. \A s \in Sessions : Lapse(s) => UNCHANGED <<consents, signIn, clean, left>>
    BY DEF Lapse
  <2> QED BY <2>1, <2>2, <2>3, <2>4 DEF OwnerStep
<1>2. \A s \in Sessions : VisitorStep(s) => UNCHANGED <<owner, consents, profiles, files, check, clean, left>>
  BY DEF VisitorStep, Consume, Resend, ConfirmName, StartSignIn, Enter
<1>3. \A s \in Sessions : TaskStep(s) => UNCHANGED <<owner, consents, profiles, files, check, clean, left>>
  BY DEF TaskStep
<1>4. \A s \in Sessions : CheckStep(s) => UNCHANGED <<group, locators, locks, runtime, task, clean>>
  <2> SUFFICES ASSUME NEW s \in Sessions, CheckStep(s) PROVE UNCHANGED <<group, locators, locks, runtime, task, clean>>
    OBVIOUS
  <2>1. CASE BeginCheck(s) \/ Connect(s) \/ NotProved(s) \/ Proved(s)
    BY <2>1 DEF BeginCheck, Connect, NotProved, Proved, owner, files
  <2>2. CASE Stage(s) \/ Install(s)
    BY <2>2 DEF Stage, Install, owner, signIn
  <2>3. CASE Validate(s) \/ Settle(s) \/ Discard(s)
    BY <2>3 DEF Validate, Settle, Discard, owner, signIn
  <2> QED BY <2>1, <2>2, <2>3 DEF CheckStep
<1>5. CleanStep => UNCHANGED <<owner, consents>>
  BY DEF CleanStep, CleanupReads, CleanupWrites, Pruned, Prune, Restart, books
<1> QED BY <1>1, <1>2, <1>3, <1>4, <1>5

\* A check to which nothing happens but that its profile is taken from it.
Untouched(s) == \E b \in BOOLEAN : check'[s] = [check[s] EXCEPT !.crossed = b] /\ (check[s].crossed => b)

LEMMA UntouchedIs ==
  ASSUME CheckTyped, NEW s \in Sessions, Untouched(s)
  PROVE  /\ check'[s] \in Checks /\ check'[s].at = check[s].at /\ check'[s].phone = check[s].phone
         /\ check'[s].profile = check[s].profile /\ check'[s].lock = check[s].lock
         /\ check'[s].chat = check[s].chat /\ check'[s].user = check[s].user
         /\ check[s].crossed => check'[s].crossed
<1>1. PICK b \in BOOLEAN : check'[s] = [check[s] EXCEPT !.crossed = b] /\ (check[s].crossed => b)
  BY DEF Untouched
<1>2. check[s] \in Checks
  BY DEF CheckTyped
<1> QED BY <1>1, <1>2 DEF Checks

LEMMA UnchangedIsUntouched ==
  ASSUME CheckTyped, NEW s \in Sessions, check'[s] = check[s] PROVE Untouched(s)
<1>1. check[s] \in Checks /\ check[s].crossed \in BOOLEAN
  BY DEF CheckTyped, Checks
<1>2. check'[s] = [check[s] EXCEPT !.crossed = check[s].crossed]
  BY <1>1 DEF Checks
<1> QED BY <1>1, <1>2 DEF Untouched

LEMMA CrossedTyped ==
  ASSUME CheckTyped, NEW x, NEW except
  PROVE  /\ Crossed(x, except) \in [Sessions -> Checks]
         /\ \A s \in Sessions :
              /\ \E b \in BOOLEAN : Crossed(x, except)[s] = [check[s] EXCEPT !.crossed = b] /\ (check[s].crossed => b)
              /\ s # except /\ AtWork(s) /\ check[s].profile = x => Crossed(x, except)[s].crossed
<1>1. ASSUME NEW s \in Sessions
      PROVE  /\ Crossed(x, except)[s] \in Checks
             /\ \E b \in BOOLEAN : Crossed(x, except)[s] = [check[s] EXCEPT !.crossed = b] /\ (check[s].crossed => b)
             /\ s # except /\ AtWork(s) /\ check[s].profile = x => Crossed(x, except)[s].crossed
  <2>1. check[s] \in Checks /\ check[s].crossed \in BOOLEAN
    BY DEF CheckTyped, Checks
  <2>2. CASE s # except /\ AtWork(s) /\ check[s].profile = x
    <3>1. Crossed(x, except)[s] = [check[s] EXCEPT !.crossed = TRUE]
      BY <2>2 DEF Crossed, AtWork
    <3>2. [check[s] EXCEPT !.crossed = TRUE] \in Checks /\ [check[s] EXCEPT !.crossed = TRUE].crossed
      BY <2>1 DEF Checks
    <3> QED BY <3>1, <3>2
  <2>3. CASE ~(s # except /\ AtWork(s) /\ check[s].profile = x)
    <3>1. Crossed(x, except)[s] = check[s]
      BY <2>3 DEF Crossed, AtWork
    <3>2. check[s] = [check[s] EXCEPT !.crossed = check[s].crossed]
      BY <2>1 DEF Checks
    <3> QED BY <2>1, <2>3, <3>1, <3>2
  <2> QED BY <2>2, <2>3
<1>2. Crossed(x, except) = [s \in Sessions |-> Crossed(x, except)[s]]
  BY DEF Crossed
<1> QED BY <1>1, <1>2

--------------------------------------------------------------------------------
(* The owner's side *)

\* An invite that was issued is not issued again, and what is active after a
\* step was so before, for the same destination.
InvitesGo ==
    \A i \in Invites : invites[i].state # "none" =>
        /\ invites'[i].state # "none"
        /\ invites'[i].state = "active" => invites[i].state = "active" /\ group'.chat = group.chat

LEMMA RevokedInvites ==
  ASSUME OwnerTyped
  PROVE  /\ Revoked \in [Invites -> [state : {"none", "active", "revoked"}, uses : 0..MaxUses, lapsed : BOOLEAN]]
         /\ \A i \in Invites : Revoked[i].state # "active" /\ (Revoked[i].state = "none" <=> invites[i].state = "none")
<1>1. \A i \in Invites :
        /\ Revoked[i] \in [state : {"none", "active", "revoked"}, uses : 0..MaxUses, lapsed : BOOLEAN]
        /\ Revoked[i].state = IF invites[i].state = "active" THEN "revoked" ELSE invites[i].state
  BY DEF Revoked, OwnerTyped, Active
<1>2. Revoked = [i \in Invites |-> Revoked[i]]
  BY DEF Revoked
<1> QED BY <1>1, <1>2

OwnerMoves == OwnerTyped' /\ OneActive' /\ InvitesGo

LEMMA RevokeMoves ==
  ASSUME OwnerTyped, Revoke, group' \in [active : BOOLEAN, chat : Chats \cup {None}] PROVE OwnerMoves
<1>1. invites' = Revoked /\ locators' \in {locators \ Active, locators}
  BY DEF Revoke, Located
<1> QED BY <1>1, RevokedInvites DEF OwnerMoves, OwnerTyped, OneActive, Active, InvitesGo

LEMMA OwnerRests ==
  ASSUME OwnerTyped, OneActive, UNCHANGED <<group, locators>>,
         \/ UNCHANGED invites
         \/ \E i \in Invites : \/ invites' = [invites EXCEPT ![i].lapsed = TRUE]
                               \/ invites' = [invites EXCEPT ![i].uses = @ + 1] /\ invites[i].uses < MaxUses
  PROVE  OwnerMoves
<1>1. CASE UNCHANGED invites
  BY <1>1 DEF OwnerMoves, OwnerTyped, OneActive, Active, InvitesGo
<1>2. ASSUME NEW i \in Invites, NEW new \in [state : {"none", "active", "revoked"}, uses : 0..MaxUses, lapsed : BOOLEAN],
             invites' = [invites EXCEPT ![i] = new], new.state = invites[i].state
      PROVE  OwnerMoves
  <2>1. \A j \in Invites : invites'[j].state = invites[j].state
    BY <1>2 DEF OwnerTyped
  <2>2. OwnerTyped'
    BY <1>2 DEF OwnerTyped
  <2> QED BY <2>1, <2>2 DEF OwnerMoves, OneActive, Active, InvitesGo
<1>3. ASSUME NEW i \in Invites, invites' = [invites EXCEPT ![i].lapsed = TRUE] PROVE OwnerMoves
  <2> DEFINE new == [invites[i] EXCEPT !.lapsed = TRUE]
  <2>0. invites[i] \in [state : {"none", "active", "revoked"}, uses : 0..MaxUses, lapsed : BOOLEAN]
    BY DEF OwnerTyped
  <2>1. /\ new \in [state : {"none", "active", "revoked"}, uses : 0..MaxUses, lapsed : BOOLEAN]
        /\ new.state = invites[i].state
    BY <2>0
  <2>2. invites' = [invites EXCEPT ![i] = new]
    BY <1>3
  <2> HIDE DEF new
  <2> QED BY <1>2, <2>1, <2>2
<1>4. ASSUME NEW i \in Invites, invites' = [invites EXCEPT ![i].uses = @ + 1], invites[i].uses < MaxUses
      PROVE  OwnerMoves
  <2> DEFINE new == [invites[i] EXCEPT !.uses = @ + 1]
  <2>1. invites[i].uses + 1 \in 0..MaxUses
    BY <1>4, OnboardingAssumption DEF OwnerTyped
  <2>2. /\ new \in [state : {"none", "active", "revoked"}, uses : 0..MaxUses, lapsed : BOOLEAN]
        /\ new.state = invites[i].state /\ invites' = [invites EXCEPT ![i] = new]
    BY <1>4, <2>1 DEF OwnerTyped
  <2> QED BY <1>2, <2>2
<1> QED BY <1>1, <1>3, <1>4

LEMMA OwnerStepMoves ==
  ASSUME OwnerTyped, OneActive, RowsOfInvites, [Next]_vars PROVE OwnerMoves
<1>1. ASSUME CreateInvite PROVE OwnerMoves
  <2>1. PICK i \in Invites :
          /\ invites[i].state = "none"
          /\ \/ /\ invites' = [Revoked EXCEPT ![i].state = "active"]
                /\ locators' \subseteq locators \cup {i}
             \/ /\ invites' = [Revoked EXCEPT ![i].state = "revoked"]
                /\ locators' \subseteq locators
    BY <1>1 DEF CreateInvite
  <2>2. PICK st \in {"active", "revoked"} : invites' = [Revoked EXCEPT ![i].state = st]
    BY <2>1
  <2>3. UNCHANGED group
    BY <1>1 DEF CreateInvite
  <2>4. \A j \in Invites : invites'[j].state = IF j = i THEN st ELSE Revoked[j].state
    BY <2>2, RevokedInvites
  <2>5. OwnerTyped'
    <3>1. invites' \in [Invites -> [state : {"none", "active", "revoked"}, uses : 0..MaxUses, lapsed : BOOLEAN]]
      BY <2>2, RevokedInvites
    <3> QED BY <2>1, <2>3, <3>1 DEF OwnerTyped
  <2> QED BY <2>1, <2>3, <2>4, <2>5, RevokedInvites DEF OwnerMoves, OneActive, Active, InvitesGo
<1>2. ASSUME RevokeInvite PROVE OwnerMoves
  BY <1>2, RevokeMoves DEF RevokeInvite, OwnerTyped
<1>3. ASSUME ChangeGroup PROVE OwnerMoves
  <2>1. ChangeLink \/ Deactivate => OwnerMoves
    BY RevokeMoves DEF ChangeLink, Deactivate, OwnerTyped
  <2>2. ASSUME Activate PROVE OwnerMoves
    <3>1. group' = [group EXCEPT !.active = TRUE] /\ UNCHANGED <<invites, locators>>
      BY <2>2 DEF Activate
    <3>2. group' \in [active : BOOLEAN, chat : Chats \cup {None}] /\ group'.chat = group.chat
      BY <3>1 DEF OwnerTyped
    <3> QED BY <3>1, <3>2 DEF OwnerMoves, OwnerTyped, OneActive, Active, InvitesGo
  <2>3. ASSUME NEW c \in Chats, Verify(c) PROVE OwnerMoves
    <3>1. group' \in [active : BOOLEAN, chat : Chats \cup {None}] /\ group'.chat = c
      BY <2>3 DEF Verify, OwnerTyped
    <3>2. CASE group.chat = c
      <4>1. UNCHANGED <<invites, locators>>
        BY <2>3, <3>2 DEF Verify
      <4> QED BY <3>1, <3>2, <4>1 DEF OwnerMoves, OwnerTyped, OneActive, Active, InvitesGo
    <3>3. CASE group.chat # c
      BY <2>3, <3>1, <3>3, RevokeMoves DEF Verify
    <3> QED BY <3>2, <3>3
  <2> QED BY <1>3, <2>1, <2>2, <2>3 DEF ChangeGroup
<1>4. ASSUME NEW s \in Sessions, Lapse(s) PROVE OwnerMoves
  <2>1. rows[s].invite \in Invites
    BY <1>4 DEF Lapse, RowsOfInvites
  <2> QED BY <1>4, <2>1, OwnerRests DEF Lapse
<1>5. ASSUME NEW s \in Sessions, Settle(s) PROVE OwnerMoves
  <2>1. UNCHANGED <<group, locators>>
    BY <1>5 DEF Settle
  <2>2. CASE UNCHANGED invites
    BY <2>1, <2>2, OwnerRests
  <2>3. CASE ~UNCHANGED invites
    <3>1. /\ MaySettle(s) /\ rows[s].state # "completed"
          /\ invites' = [invites EXCEPT ![rows[s].invite].uses = @ + 1]
      BY <1>5, <2>3 DEF Settle, Undo
    <3>2. rows[s].invite \in Invites /\ invites[rows[s].invite].uses < MaxUses
      BY <3>1 DEF MaySettle, SessionMaySettle, Usable, RowsOfInvites
    <3> QED BY <2>1, <3>1, <3>2, OwnerRests
  <2> QED BY <2>2, <2>3
<1>6. ASSUME NEW s \in Sessions, CheckStep(s), ~Settle(s) PROVE UNCHANGED <<group, invites, locators>>
  BY <1>6 DEF CheckStep, BeginCheck, Connect, NotProved, Proved, Stage, Install, Validate, Discard, Undo, owner
<1>7. \A p \in Phones : DisableProfile(p) \/ ChangeProfile(p) => UNCHANGED <<group, invites, locators>>
  BY DEF DisableProfile, ChangeProfile, owner
<1>8. UNCHANGED vars => UNCHANGED <<group, invites, locators>>
  BY DEF vars, owner
<1> QED BY <1>1, <1>2, <1>3, <1>4, <1>5, <1>6, <1>7, <1>8, NextCases, Frames, OwnerRests DEF OwnerStep, owner

--------------------------------------------------------------------------------
(* Requests and sign-ins *)

RowGoes(s) ==
    /\ rows'[s].promo = rows[s].promo /\ rows'[s].profile = rows[s].profile
    /\ rows'[s].invite = rows[s].invite /\ (rows[s].lapsed => rows'[s].lapsed)
    /\ \/ /\ rows'[s].state = rows[s].state /\ rows'[s].phone = rows[s].phone
          /\ Young(s) => task'[s] = task[s] /\ runtime'[s] = runtime[s]
       \/ /\ Exists(s) /\ rows'[s].state \in Live
          /\ rows'[s].phone \in Phones \/ (~Young(s) /\ rows'[s].phone = rows[s].phone)

\* A visit makes a row of an invite.
RowBegins(s) ==
    /\ rows[s].state = None /\ rows'[s].state = "created"
    /\ rows'[s].promo = "none" /\ rows'[s].profile = 0
    /\ rows'[s].invite \in Invites /\ invites'[rows'[s].invite].state # "none"
    /\ task'[s] = task[s] /\ runtime'[s] = runtime[s]

RequestMoves ==
    /\ RowsTyped' /\ SignInTyped' /\ TasksNamed'
    /\ \A s \in Sessions : RowGoes(s) \/ RowBegins(s)

NamesOfStates ==
    /\ "created" \notin Live /\ "completed" \notin Live /\ "deleted" \notin Live
    /\ None \notin Live /\ None \notin {"created", "completed", "deleted", "pending", "active", "disabled"}
    /\ None \notin Phones /\ None \notin Chats
    /\ \A k \in Kinds : Waiting[k] \in Live /\ Verifying[k] \in Live
    /\ "requesting_code" \in Live /\ InProgress \subseteq Live /\ Kinds = {"code", "password"}

LEMMA StateNames == NamesOfStates
<1>1. /\ Waiting["code"] = "waiting_code" /\ Waiting["password"] = "waiting_password"
      /\ Verifying["code"] = "verifying_code" /\ Verifying["password"] = "verifying_password"
  BY DEF Waiting, Verifying
<1>2. InProgress = {"requesting_code", "waiting_code", "waiting_password", "verifying_code", "verifying_password"}
  BY <1>1 DEF InProgress, Kinds
<1>3. \A k \in Kinds : Waiting[k] \in Live /\ Verifying[k] \in Live
  BY DEF Live, InProgress
<1>4. "created" \notin Live /\ "completed" \notin Live /\ "deleted" \notin Live /\ "requesting_code" \in Live
  BY <1>2 DEF Live
<1>5. None \notin Live /\ None \notin {"created", "completed", "deleted", "pending", "active", "disabled"}
  BY OnboardingAssumption DEF Live
<1> QED BY <1>3, <1>4, <1>5, OnboardingAssumption DEF NamesOfStates, Live, Kinds

LEMMA DefaultsTyped ==
  /\ NoRow \in Rows /\ NoRow.state = None /\ NoRow.promo = "none" /\ NoRow.profile = 0 /\ NoRow.phone = None
  /\ NoProfile \in Profiles /\ NoProfile.status = None /\ NoProfile.id = 0
  /\ NoCheck \in Checks /\ NoCheck.at = "none" /\ NoCheck.phone = None
  /\ NoFiles \in Pairs /\ NoTemp \in Temps
  /\ NoTask \in Jobs /\ NoTask.at = "none" /\ NoTask.account = None
  /\ NoRuntime \in Runtimes /\ NoRuntime.state = None
BY DEF NoRow, Rows, NoProfile, Profiles, NoCheck, Checks, NoFiles, Pairs, NoTemp, Temps, NoTask, Jobs, NoRuntime, Runtimes,
       PhoneOrNone, Tokens, IdOrNone, States, HalfWay

\* One row and its sign-in change.
LEMMA RequestMove ==
  ASSUME RowsTyped, SignInTyped, TasksNamed, NEW s \in Sessions, NEW row \in Rows,
         NEW run \in Runtimes,
         NEW job \in Jobs,
         NEW seal \in Temps,
         rows' = [rows EXCEPT ![s] = row], runtime' = [runtime EXCEPT ![s] = run],
         task' = [task EXCEPT ![s] = job], temp' = [temp EXCEPT ![s] = seal],
         job.account \in Phones <=> job.at # "none",
         RowGoes(s) \/ RowBegins(s)
  PROVE  RequestMoves
<1>1. RowsTyped'
  BY DEF RowsTyped
<1>2. SignInTyped'
  BY DEF SignInTyped
<1>3. /\ \A t \in Sessions : t # s => rows'[t] = rows[t] /\ runtime'[t] = runtime[t] /\ task'[t] = task[t]
      /\ task'[s] = job
  BY DEF RowsTyped, SignInTyped
<1>4. TasksNamed'
  BY <1>3 DEF TasksNamed, Runs
<1>5. \A t \in Sessions : t # s => RowGoes(t)
  BY <1>3 DEF RowGoes
<1> QED BY <1>1, <1>2, <1>4, <1>5 DEF RequestMoves

\* The same, of a row that is there or of one that is gone and stays as it is.
LEMMA WriteMove ==
  ASSUME RowsTyped, SignInTyped, TasksNamed, NEW s \in Sessions, NEW state \in Live,
         rows' = Written(s, state) \/ UNCHANGED rows,
         NEW run \in Runtimes,
         NEW job \in Jobs,
         NEW seal \in Temps,
         runtime' = [runtime EXCEPT ![s] = run],
         task' = [task EXCEPT ![s] = job], temp' = [temp EXCEPT ![s] = seal],
         job.account \in Phones <=> job.at # "none", ~Young(s)
  PROVE  RequestMoves
<1>1. rows[s] \in Rows /\ state \in States
  BY DEF RowsTyped, States
<1>2. CASE rows' = [rows EXCEPT ![s].state = state] /\ Exists(s)
  <2> DEFINE row == [rows[s] EXCEPT !.state = state]
  <2>1. row \in Rows
    BY <1>1 DEF Rows
  <2>2. rows' = [rows EXCEPT ![s] = row]
    BY <1>2
  <2>3. RowGoes(s)
    BY <1>1, <1>2, <2>1 DEF RowGoes, RowsTyped, Rows
  <2> QED BY <2>1, <2>2, <2>3, RequestMove
<1>3. CASE UNCHANGED rows
  <2>1. rows' = [rows EXCEPT ![s] = rows[s]]
    BY <1>3 DEF RowsTyped
  <2>2. RowGoes(s)
    BY <1>3 DEF RowGoes
  <2> QED BY <1>1, <2>1, <2>2, RequestMove
<1> QED BY <1>2, <1>3 DEF Written

LEMMA SignInParts ==
  ASSUME SignInTyped, NEW s \in Sessions
  PROVE  /\ runtime[s] \in Runtimes /\ task[s] \in Jobs /\ temp[s] \in Temps
         /\ runtime = [runtime EXCEPT ![s] = runtime[s]] /\ task = [task EXCEPT ![s] = task[s]]
         /\ temp = [temp EXCEPT ![s] = temp[s]]
         /\ \A x \in States : [runtime[s] EXCEPT !.state = x] \in Runtimes
BY DEF SignInTyped, Runtimes

LEMMA TaskMoves ==
  ASSUME RowsTyped, SignInTyped, TasksNamed, YoungRows, NEW s \in Sessions, TaskStep(s)
  PROVE  RequestMoves
<1>a. Live \subseteq States
  BY DEF States
<1>r. Runs(s) /\ ~Young(s) /\ task[s].account \in Phones
  <2>1. Runs(s)
    BY DEF TaskStep, TaskOpens, TaskAsksPassword, TaskSignedIn, TaskSucceeds, TaskFails, TaskCancelled, TaskTakes, Runs, Kinds
  <2> QED BY <2>1 DEF YoungRows, TasksNamed
<1>j. NoTask \in Jobs /\ (NoTask.account \in Phones <=> NoTask.at # "none")
  BY DefaultsTyped, StateNames DEF NamesOfStates
<1>t. ASSUME NEW at \in {"starting", "verify", "signedIn", "stopping"} \cup Kinds, task' = [task EXCEPT ![s].at = at]
      PROVE  \E job \in Jobs : task' = [task EXCEPT ![s] = job] /\ job.account \in Phones /\ job.at # "none"
  <2>1. [task[s] EXCEPT !.at = at] \in Jobs
        /\ [task[s] EXCEPT !.at = at].account = task[s].account /\ [task[s] EXCEPT !.at = at].at = at
    BY SignInParts DEF Jobs
  <2>2. at # "none"
    BY DEF Kinds
  <2>3. task' = [task EXCEPT ![s] = [task[s] EXCEPT !.at = at]]
    BY <1>t
  <2> QED BY <1>r, <2>1, <2>2, <2>3
<1>p. ASSUME NEW plain \in Tokens PROVE [temp[s] EXCEPT !.plain = plain] \in Temps
  BY SignInParts DEF Temps
<1>s. ASSUME NEW state \in Live, Says(s, state)
      PROVE  /\ rows' = Written(s, state) \/ UNCHANGED rows
             /\ \E run \in Runtimes : runtime' = [runtime EXCEPT ![s] = run]
  <2>1. CASE UNCHANGED <<rows, runtime>>
    BY <2>1, SignInParts
  <2>2. CASE runtime' = [runtime EXCEPT ![s].state = state] /\ rows' = Written(s, state)
    <3>1. runtime' = [runtime EXCEPT ![s] = [runtime[s] EXCEPT !.state = state]]
      BY <2>2
    <3> QED BY <1>a, <2>2, <3>1, SignInParts
  <2> QED BY <1>s, <2>1, <2>2 DEF Says
<1>1. ASSUME TaskOpens(s) PROVE RequestMoves
  <2>1. CASE temp[s].plain \in Phones
    <3> DEFINE job == [at |-> "verify", account |-> temp[s].plain]
    <3>1. job \in Jobs /\ job.account \in Phones /\ job.at # "none"
      BY <2>1 DEF Jobs, PhoneOrNone
    <3>2. task' = [task EXCEPT ![s] = job] /\ UNCHANGED <<rows, runtime, temp>>
      BY <1>1, <2>1 DEF TaskOpens
    <3> HIDE DEF job
    <3>3. runtime' = [runtime EXCEPT ![s] = runtime[s]] /\ temp' = [temp EXCEPT ![s] = temp[s]] /\ "failed" \in Live
      BY <3>2, SignInParts DEF Live
    <3> QED BY <1>r, <3>1, <3>2, <3>3, SignInParts, WriteMove
  <2>2. CASE temp[s].plain \notin Phones
    <3>1. Says(s, Waiting["code"]) /\ task' = [task EXCEPT ![s].at = "code"] /\ temp' = [temp EXCEPT ![s].plain = Blank]
          /\ Waiting["code"] \in Live
      BY <1>1, <2>2, StateNames DEF TaskOpens, TaskAt, Keeps, NamesOfStates
    <3>2. PICK job \in Jobs : task' = [task EXCEPT ![s] = job] /\ job.account \in Phones /\ job.at # "none"
      BY <1>t, <3>1 DEF Kinds
    <3>3. PICK run \in Runtimes : runtime' = [runtime EXCEPT ![s] = run]
      BY <1>s, <3>1
    <3>4. temp' = [temp EXCEPT ![s] = [temp[s] EXCEPT !.plain = Blank]] /\ [temp[s] EXCEPT !.plain = Blank] \in Temps
      BY <1>p, <3>1 DEF Tokens
    <3> QED BY <1>r, <1>s, <3>1, <3>2, <3>3, <3>4, WriteMove
  <2> QED BY <2>1, <2>2
<1>2. ASSUME TaskAsksPassword(s) PROVE RequestMoves
  <2>1. Says(s, Waiting["password"]) /\ task' = [task EXCEPT ![s].at = "password"] /\ UNCHANGED temp
        /\ Waiting["password"] \in Live
    BY <1>2, StateNames DEF TaskAsksPassword, TaskAt, NamesOfStates
  <2>2. PICK job \in Jobs : task' = [task EXCEPT ![s] = job] /\ job.account \in Phones /\ job.at # "none"
    BY <1>t, <2>1 DEF Kinds
  <2>3. PICK run \in Runtimes : runtime' = [runtime EXCEPT ![s] = run]
    BY <1>s, <2>1
  <2>4. temp[s] \in Temps /\ temp' = [temp EXCEPT ![s] = temp[s]]
    BY <2>1, SignInParts
  <2> QED BY <1>r, <1>s, <2>1, <2>2, <2>3, <2>4, WriteMove
<1>3. ASSUME NEW k \in Kinds, TaskTakes(s, k) PROVE RequestMoves
  <2>1. PICK job \in Jobs : task' = [task EXCEPT ![s] = job] /\ job.account \in Phones /\ job.at # "none"
    BY <1>3, <1>t DEF TaskTakes, TaskAt
  <2>2. Verifying[k] \in Live /\ UNCHANGED temp /\ rows' = Written(s, Verifying[k])
        /\ runtime' = [runtime EXCEPT ![s].state = Verifying[k], ![s][k] = FALSE]
    BY <1>3, StateNames DEF TaskTakes, NamesOfStates
  <2>3. PICK run \in Runtimes : runtime' = [runtime EXCEPT ![s] = run]
    <3>1. [[runtime[s] EXCEPT !.state = Verifying[k]] EXCEPT ![k] = FALSE] \in Runtimes
      BY <1>a, <2>2, SignInParts DEF Kinds, Runtimes
    <3>2. runtime' = [runtime EXCEPT ![s] = [[runtime[s] EXCEPT !.state = Verifying[k]] EXCEPT ![k] = FALSE]]
      BY <2>2 DEF SignInTyped
    <3> QED BY <3>1, <3>2
  <2>4. temp[s] \in Temps /\ temp' = [temp EXCEPT ![s] = temp[s]]
    BY <2>2, SignInParts
  <2> QED BY <1>r, <2>1, <2>2, <2>3, <2>4, WriteMove
<1>4. ASSUME TaskSignedIn(s) PROVE RequestMoves
  <2>1. task' = [task EXCEPT ![s].at = "signedIn"] /\ UNCHANGED <<rows, runtime>>
    BY <1>4 DEF TaskSignedIn, TaskAt
  <2>2. PICK plain \in {temp[s].plain, task[s].account} : temp' = [temp EXCEPT ![s].plain = plain]
    BY <1>4 DEF TaskSignedIn, Keeps
  <2>3. PICK job \in Jobs : task' = [task EXCEPT ![s] = job] /\ job.account \in Phones /\ job.at # "none"
    BY <1>t, <2>1
  <2>4. temp' = [temp EXCEPT ![s] = [temp[s] EXCEPT !.plain = plain]] /\ [temp[s] EXCEPT !.plain = plain] \in Temps
    <3>1. plain \in Tokens
      BY <1>r, SignInParts DEF Temps, Tokens
    <3> QED BY <1>p, <2>2, <3>1
  <2>5. runtime' = [runtime EXCEPT ![s] = runtime[s]] /\ "failed" \in Live
    BY <2>1, SignInParts DEF Live
  <2> QED BY <1>r, <2>1, <2>3, <2>4, <2>5, SignInParts, WriteMove
<1>5. ASSUME TaskFails(s) PROVE RequestMoves
  <2>1. task' = [task EXCEPT ![s] = NoTask] /\ rows' = Written(s, "failed") /\ temp' = [temp EXCEPT ![s] = NoTemp]
        /\ runtime' = [runtime EXCEPT ![s].state = IF @ = None THEN None ELSE "failed"]
    BY <1>5 DEF TaskFails, TaskEnds
  <2>2. PICK run \in Runtimes : runtime' = [runtime EXCEPT ![s] = run]
    <3>1. runtime' = [runtime EXCEPT ![s] = [runtime[s] EXCEPT !.state = IF runtime[s].state = None THEN None ELSE "failed"]]
      BY <2>1 DEF SignInTyped
    <3> QED BY <3>1, SignInParts DEF States, Live
  <2>3. "failed" \in Live /\ NoTemp \in Temps
    BY DefaultsTyped DEF Live
  <2> QED BY <1>j, <1>r, <2>1, <2>2, <2>3, WriteMove
<1>6. ASSUME TaskCancelled(s) PROVE RequestMoves
  <2>1. task' = [task EXCEPT ![s] = NoTask] /\ rows' = Written(s, "interrupted") /\ temp' = [temp EXCEPT ![s] = NoTemp]
        /\ UNCHANGED runtime
    BY <1>6 DEF TaskCancelled, TaskEnds
  <2>2. "interrupted" \in Live /\ NoTemp \in Temps
    BY DefaultsTyped DEF Live
  <2>3. PICK run \in Runtimes : runtime' = [runtime EXCEPT ![s] = run]
    BY <2>1, SignInParts
  <2> QED BY <1>j, <1>r, <2>1, <2>2, <2>3, WriteMove
<1>7. ASSUME TaskSucceeds(s) PROVE RequestMoves
  <2> DEFINE seal == [plain |-> None, sealed |-> temp[s].plain]
  <2>1. task' = [task EXCEPT ![s] = NoTask] /\ temp' = [temp EXCEPT ![s] = seal]
        /\ rows' = (IF Exists(s) THEN [rows EXCEPT ![s].state = "waiting_membership", ![s].user = task[s].account] ELSE rows)
        /\ runtime' = [runtime EXCEPT ![s].state = IF @ = None THEN None ELSE "waiting_membership"]
    BY <1>7 DEF TaskSucceeds
  <2>s. seal \in Temps
    BY SignInParts DEF Temps, Tokens
  <2> HIDE DEF seal
  <2>2. PICK run \in Runtimes : runtime' = [runtime EXCEPT ![s] = run]
    <3>1. runtime' = [runtime EXCEPT ![s] = [runtime[s] EXCEPT !.state = IF runtime[s].state = None THEN None ELSE "waiting_membership"]]
      BY <2>1 DEF SignInTyped
    <3> QED BY <3>1, SignInParts DEF States, Live
  <2>3. CASE Exists(s)
    <3> DEFINE row == [rows[s] EXCEPT !.state = "waiting_membership", !.user = task[s].account]
    <3>1. rows[s] \in Rows /\ task[s].account \in PhoneOrNone
      BY SignInParts DEF RowsTyped, Jobs
    <3>2. row \in Rows /\ row.promo = rows[s].promo /\ row.profile = rows[s].profile /\ row.invite = rows[s].invite
          /\ row.lapsed = rows[s].lapsed /\ row.phone = rows[s].phone /\ row.state = "waiting_membership"
      BY <3>1 DEF Rows, States, Live
    <3>3. rows' = [rows EXCEPT ![s] = row]
      BY <2>1, <2>3 DEF RowsTyped
    <3>4. rows'[s] = row /\ "waiting_membership" \in Live
      BY <3>3 DEF RowsTyped, Live
    <3>5. RowGoes(s)
      BY <1>r, <2>3, <3>2, <3>4 DEF RowGoes
    <3> HIDE DEF row
    <3> QED BY <1>j, <2>1, <2>2, <2>s, <3>2, <3>3, <3>5, RequestMove
  <2>4. CASE ~Exists(s)
    <3>1. UNCHANGED rows /\ "waiting_membership" \in Live
      BY <2>1, <2>4 DEF Live
    <3> QED BY <1>j, <1>r, <2>1, <2>2, <2>s, <3>1, WriteMove
  <2> QED BY <2>3, <2>4
<1> QED BY <1>1, <1>2, <1>3, <1>4, <1>5, <1>6, <1>7 DEF TaskStep

LEMMA VisitorMoves ==
  ASSUME OwnerTyped, RowsTyped, SignInTyped, TasksNamed, YoungRows, UNCHANGED invites,
         NEW s \in Sessions, VisitorStep(s)
  PROVE  RequestMoves
<1>a. Live \subseteq States /\ "requesting_code" \in Live /\ "created" \in States /\ None \in PhoneOrNone
  BY StateNames DEF NamesOfStates, States, PhoneOrNone
<1>b. rows[s] \in Rows
  BY DEF RowsTyped
<1>j. NoTask.account \in Phones <=> NoTask.at # "none"
  BY DefaultsTyped, StateNames DEF NamesOfStates
<1>k. task[s].account \in Phones <=> task[s].at # "none"
  BY DEF TasksNamed, Runs
<1>1. ASSUME Consume(s) PROVE RequestMoves
  <2>1. PICK i \in locators : /\ InviteValid(i)
                              /\ rows' = [rows EXCEPT ![s] = [NoRow EXCEPT !.state = "created", !.invite = i]]
    BY <1>1 DEF Consume
  <2>2. UNCHANGED <<runtime, task, temp>> /\ rows[s] = NoRow
    BY <1>1 DEF Consume, signIn
  <2> DEFINE row == [NoRow EXCEPT !.state = "created", !.invite = i]
  <2>3. i \in Invites /\ invites[i].state # "none"
    BY <2>1 DEF InviteValid, Usable, OwnerTyped
  <2>4. row \in Rows /\ row.state = "created" /\ row.promo = "none" /\ row.profile = 0 /\ row.invite = i
    BY <1>a, <2>3, DefaultsTyped DEF Rows, NoRow
  <2> HIDE DEF row
  <2>5. rows'[s] = row
    BY <2>1 DEF RowsTyped, row
  <2>6. RowBegins(s)
    BY <2>2, <2>3, <2>4, <2>5, DefaultsTyped DEF RowBegins
  <2>7. rows' = [rows EXCEPT ![s] = row]
    BY <2>1 DEF row
  <2>8. runtime' = [runtime EXCEPT ![s] = runtime[s]] /\ task' = [task EXCEPT ![s] = task[s]]
        /\ temp' = [temp EXCEPT ![s] = temp[s]]
    BY <2>2, SignInParts
  <2> QED BY <1>k, <2>4, <2>6, <2>7, <2>8, SignInParts, RequestMove
<1>l. ASSUME NEW p \in Phones, Launch(s, p)
      PROVE  \E job \in Jobs :
               task' = [task EXCEPT ![s] = job] /\ (job.account \in Phones <=> job.at # "none")
  <2>1. CASE Runs(s)
    BY <1>k, <1>l, <2>1, SignInParts DEF Launch
  <2>2. CASE ~Runs(s)
    <3>1. task' = [task EXCEPT ![s] = [at |-> "starting", account |-> p]]
      BY <1>l, <2>2 DEF Launch
    <3>2. [at |-> "starting", account |-> p] \in Jobs
      BY DEF Jobs, PhoneOrNone
    <3> QED BY <3>1, <3>2
  <2> QED BY <2>1, <2>2
<1>2. ASSUME NEW p \in Phones, StartSignIn(s, p) PROVE RequestMoves
  <2>1. PICK ask \in BOOLEAN : rows' = [rows EXCEPT ![s].phone = p, ![s].state = "requesting_code", ![s].ask = ask]
    BY <1>2 DEF StartSignIn
  <2>2. PICK job \in Jobs :
               task' = [task EXCEPT ![s] = job] /\ (job.account \in Phones <=> job.at # "none")
    BY <1>2, <1>l DEF StartSignIn
  <2> DEFINE row == [rows[s] EXCEPT !.phone = p, !.state = "requesting_code", !.ask = ask]
  <2>3. row \in Rows /\ row.promo = rows[s].promo /\ row.profile = rows[s].profile /\ row.invite = rows[s].invite
        /\ row.lapsed = rows[s].lapsed /\ row.phone = p /\ row.state = "requesting_code"
    BY <1>a, <1>b DEF Rows, PhoneOrNone
  <2>4. rows' = [rows EXCEPT ![s] = row] /\ Exists(s) /\ UNCHANGED temp
        /\ runtime' = [runtime EXCEPT ![s] = [runtime[s] EXCEPT !.state = "requesting_code"]]
    BY <1>2, <2>1 DEF StartSignIn, RowsTyped
  <2> HIDE DEF row
  <2>5. rows'[s] = row
    BY <2>4 DEF RowsTyped
  <2>6. RowGoes(s)
    BY <1>a, <2>3, <2>4, <2>5 DEF RowGoes
  <2>7. [runtime[s] EXCEPT !.state = "requesting_code"] \in Runtimes
    BY <1>a, SignInParts
  <2> QED BY <2>2, <2>3, <2>4, <2>6, <2>7, SignInParts, RequestMove
<1>3. ASSUME Resend(s) PROVE RequestMoves
  <2>1. /\ Exists(s) /\ rows[s].phone # None
        /\ rows' = [rows EXCEPT ![s].state = "requesting_code"]
        /\ runtime' = [runtime EXCEPT ![s] = [NoRuntime EXCEPT !.state = "requesting_code"]]
        /\ temp' = [temp EXCEPT ![s] = NoTemp]
        /\ Launch(s, rows[s].phone)
    BY <1>3 DEF Resend, Admitted
  <2>2. rows[s].phone \in Phones
    BY <1>b, <2>1 DEF Rows, PhoneOrNone
  <2>3. PICK job \in Jobs :
               task' = [task EXCEPT ![s] = job] /\ (job.account \in Phones <=> job.at # "none")
    BY <1>l, <2>1, <2>2
  <2> DEFINE row == [rows[s] EXCEPT !.state = "requesting_code"]
  <2>4. row \in Rows /\ row.promo = rows[s].promo /\ row.profile = rows[s].profile /\ row.invite = rows[s].invite
        /\ row.lapsed = rows[s].lapsed /\ row.phone = rows[s].phone /\ row.state = "requesting_code"
    BY <1>a, <1>b DEF Rows
  <2>5. rows' = [rows EXCEPT ![s] = row]
    BY <2>1
  <2> HIDE DEF row
  <2>6. rows'[s] = row
    BY <2>5 DEF RowsTyped
  <2>7. RowGoes(s)
    BY <1>a, <2>1, <2>2, <2>4, <2>6 DEF RowGoes
  <2>8. [NoRuntime EXCEPT !.state = "requesting_code"] \in Runtimes /\ NoTemp \in Temps
    BY <1>a, DefaultsTyped DEF Runtimes
  <2> QED BY <1>a, <2>1, <2>3, <2>4, <2>5, <2>7, <2>8, RequestMove
<1>4. ASSUME NEW k \in Kinds, Enter(s, k) PROVE RequestMoves
  <2>1. /\ Exists(s) /\ runtime[s].state = Waiting[k] /\ UNCHANGED <<task, temp>>
        /\ runtime' = [runtime EXCEPT ![s].state = Verifying[k], ![s][k] = TRUE]
        /\ rows' = [rows EXCEPT ![s].state = Verifying[k]]
    BY <1>4 DEF Enter, Admitted
  <2>2. Verifying[k] \in Live /\ Waiting[k] # None
    BY StateNames DEF NamesOfStates
  <2>3. ~Young(s)
    BY <2>1, <2>2 DEF YoungRows
  <2>4. PICK run \in Runtimes : runtime' = [runtime EXCEPT ![s] = run]
    <3>1. [[runtime[s] EXCEPT !.state = Verifying[k]] EXCEPT ![k] = TRUE] \in Runtimes
      BY <1>a, <2>2, SignInParts DEF Kinds, Runtimes
    <3>2. runtime' = [runtime EXCEPT ![s] = [[runtime[s] EXCEPT !.state = Verifying[k]] EXCEPT ![k] = TRUE]]
      BY <2>1 DEF SignInTyped
    <3> QED BY <3>1, <3>2
  <2>5. rows' = Written(s, Verifying[k])
    BY <2>1 DEF Written
  <2>6. task' = [task EXCEPT ![s] = task[s]] /\ temp' = [temp EXCEPT ![s] = temp[s]]
    BY <2>1, SignInParts
  <2> QED BY <1>k, <2>2, <2>3, <2>4, <2>5, <2>6, SignInParts, WriteMove
<1>5. ASSUME ConfirmName(s) PROVE RequestMoves
  <2>1. rows' = [rows EXCEPT ![s].ask = FALSE] /\ UNCHANGED <<runtime, task, temp>>
    BY <1>5 DEF ConfirmName, signIn
  <2> DEFINE row == [rows[s] EXCEPT !.ask = FALSE]
  <2>2. row \in Rows /\ row.promo = rows[s].promo /\ row.profile = rows[s].profile /\ row.invite = rows[s].invite
        /\ row.lapsed = rows[s].lapsed /\ row.phone = rows[s].phone /\ row.state = rows[s].state
    BY <1>b DEF Rows
  <2>3. rows' = [rows EXCEPT ![s] = row]
    BY <2>1
  <2> HIDE DEF row
  <2>4. rows'[s] = row
    BY <2>3 DEF RowsTyped
  <2>5. RowGoes(s)
    BY <2>1, <2>2, <2>4 DEF RowGoes
  <2>6. runtime' = [runtime EXCEPT ![s] = runtime[s]] /\ task' = [task EXCEPT ![s] = task[s]]
        /\ temp' = [temp EXCEPT ![s] = temp[s]]
    BY <2>1, SignInParts
  <2> QED BY <1>k, <2>2, <2>3, <2>5, <2>6, SignInParts, RequestMove
<1> QED BY <1>1, <1>2, <1>3, <1>4, <1>5 DEF VisitorStep

\* The owner's steps touch a row only to say that it has lapsed.
LEMMA OwnerRowMoves ==
  ASSUME RowsTyped, SignInTyped, TasksNamed, OwnerStep PROVE RequestMoves
<1>1. UNCHANGED <<runtime, task, temp>>
  BY Frames DEF signIn
<1>2. SignInTyped' /\ TasksNamed'
  BY <1>1 DEF SignInTyped, TasksNamed, Runs
<1>3. CASE UNCHANGED rows
  BY <1>1, <1>2, <1>3 DEF RequestMoves, RowsTyped, RowGoes
<1>4. ASSUME NEW s \in Sessions, rows' = [rows EXCEPT ![s].lapsed = TRUE] PROVE RequestMoves
  <2>1. RowsTyped'
    <3>1. [rows[s] EXCEPT !.lapsed = TRUE] \in Rows
      BY DEF RowsTyped, Rows
    <3>2. rows' = [rows EXCEPT ![s] = [rows[s] EXCEPT !.lapsed = TRUE]]
      BY <1>4
    <3> QED BY <3>1, <3>2 DEF RowsTyped
  <2>2. \A t \in Sessions : RowGoes(t)
    BY <1>1, <1>4 DEF RowGoes, RowsTyped, Rows
  <2> QED BY <1>2, <2>1, <2>2 DEF RequestMoves
<1> QED BY <1>3, <1>4 DEF OwnerStep, CreateInvite, RevokeInvite, ChangeGroup, DisableProfile, ChangeProfile, Lapse, books

LEMMA RequestKeeps ==
  ASSUME RowInvs, RequestMoves, InvitesGo, UNCHANGED <<clean, left>>,
         \A s \in Sessions : check'[s].at = check[s].at /\ check'[s].chat = check[s].chat
  PROVE  RowInvs'
<1> USE StateNames DEF NamesOfStates
<1>1. ASSUME NEW s \in Sessions, RowBegins(s)
      PROVE  /\ ~Runs(s)' /\ runtime'[s].state = None /\ check'[s].at = "none"
             /\ clean'.rows[s].state \in {None, "created"} /\ ~Half(clean'.rows[s])
             /\ rows'[s].invite \in Invites /\ invites'[rows'[s].invite].state # "none"
             /\ rows'[s].state = "created" /\ ~HalfPromoted(s)'
  <2>1. Young(s)
    BY <1>1 DEF RowBegins, Young
  <2>2. ~Runs(s) /\ runtime[s].state = None /\ check[s].at = "none"
        /\ clean.rows[s].state \in {None, "created"} /\ ~Half(clean.rows[s])
    BY <2>1 DEF RowInvs, YoungRows
  <2> QED BY <1>1, <2>2 DEF RowBegins, Runs, Half, HalfPromoted, HalfWay
<1>2. ASSUME NEW s \in Sessions, RowGoes(s), Young(s)'
      PROVE  /\ ~Runs(s)' /\ runtime'[s].state = None /\ check'[s].at = "none"
             /\ clean'.rows[s].state \in {None, "created"} /\ ~Half(clean'.rows[s])
  <2>1. Young(s) /\ task'[s] = task[s] /\ runtime'[s] = runtime[s]
    BY <1>2 DEF RowGoes, Young
  <2> QED BY <2>1 DEF RowInvs, YoungRows, Runs, Half
<1>3. YoungRows'
  BY <1>1, <1>2 DEF RequestMoves, YoungRows
<1>4. ASSUME NEW s \in Sessions, RowGoes(s), Exists(s)'
      PROVE  /\ Exists(s) /\ rows'[s].invite = rows[s].invite
             /\ rows'[s].invite \in Invites /\ invites'[rows'[s].invite].state # "none"
             /\ invites'[rows'[s].invite].state = "active" =>
                  invites[rows[s].invite].state = "active" /\ group'.chat = group.chat
  <2>1. Exists(s) /\ rows'[s].invite = rows[s].invite
    BY <1>4 DEF RowGoes, Exists
  <2> QED BY <2>1 DEF RowInvs, RowsOfInvites, InvitesGo
<1>5. RowsOfInvites'
  BY <1>1, <1>4 DEF RequestMoves, RowsOfInvites, Exists
<1>6. RowsNamed'
  <2>1. ASSUME NEW s \in Sessions, RowGoes(s), Exists(s)', ~rows'[s].lapsed, rows'[s].state # "created"
        PROVE  rows'[s].phone \in Phones
    <3>1. Exists(s) /\ ~rows[s].lapsed
      BY <1>4, <2>1 DEF RowGoes, Exists
    <3>2. rows[s].state # "created" => rows[s].phone \in Phones
      BY <3>1 DEF RowInvs, RowsNamed
    <3> QED BY <2>1, <3>1, <3>2 DEF RowGoes, Young
  <2> QED BY <1>1, <2>1 DEF RequestMoves, RowsNamed
<1>7. HalvesAreServed'
  <2>1. ASSUME NEW s \in Sessions, RowGoes(s), HalfPromoted(s)'
        PROVE  rows'[s].state \in Live /\ (s \notin left' => check'[s].at \in Promoting /\ rows'[s].profile # 0)
    <3>1. HalfPromoted(s)
      BY <2>1 DEF RowGoes, HalfPromoted
    <3>2. rows[s].state \in Live /\ (s \notin left => check[s].at \in Promoting /\ rows[s].profile # 0)
      BY <3>1 DEF RowInvs, HalvesAreServed
    <3> QED BY <2>1, <3>2 DEF RowGoes
  <2> QED BY <1>1, <2>1 DEF RequestMoves, HalvesAreServed
<1>8. ChecksAreOfNow'
  <2>1. ASSUME NEW s \in Sessions, RowGoes(s), check'[s].at # "none", Exists(s)', invites'[rows'[s].invite].state = "active"
        PROVE  check'[s].chat = group'.chat
    BY <1>4, <2>1 DEF RowInvs, ChecksAreOfNow, Exists
  <2> QED BY <1>1, <2>1 DEF RequestMoves, ChecksAreOfNow
<1>9. InstallsNamed'
  <2>1. ASSUME NEW s \in Sessions \ left', check'[s].at = "installing", Exists(s)' PROVE rows'[s].profile # 0
    <3>1. RowGoes(s)
      BY <1>1, <2>1 DEF RequestMoves
    <3>2. Exists(s) /\ check[s].at = "installing"
      BY <1>4, <2>1, <3>1
    <3> QED BY <2>1, <3>1, <3>2 DEF RowGoes, RowInvs, InstallsNamed
  <2> QED BY <2>1 DEF InstallsNamed
<1> QED BY <1>3, <1>5, <1>6, <1>7, <1>8, <1>9 DEF RowInvs

--------------------------------------------------------------------------------
(* Recovery and cleanup *)

RowRecovers(s) ==
    \/ rows'[s] = rows[s]
    \/ Exists(s) /\ rows'[s].state = "deleted" /\ ~HalfPromoted(s)'
    \/ /\ Exists(s) /\ rows'[s].state \in Live \cup {rows[s].state}
       /\ Young(s) /\ ~rows[s].lapsed => rows'[s].state = rows[s].state
       /\ rows'[s].invite = rows[s].invite /\ rows'[s].lapsed = rows[s].lapsed
       /\ rows'[s].phone = rows[s].phone \/ rows[s].lapsed
       /\ \/ rows'[s].promo = rows[s].promo /\ rows'[s].profile = rows[s].profile
          \/ ~HalfPromoted(s)'

LEMMA RecoveredRows ==
  ASSUME RowsTyped, NEW read, NEW s \in Sessions, rows'[s] = RecoveredRow(read, s),
         Young(s) => read[s].state \in {None, "created"} /\ ~Half(read[s])
  PROVE  /\ rows'[s] \in Rows /\ RowRecovers(s)
         /\ Exists(s) /\ Half(read[s]) /\ read[s].state \notin {None, "deleted"} => ~HalfPromoted(s)'
         /\ Exists(s)' /\ ~Half(read[s]) => rows'[s].profile = rows[s].profile
<1> DEFINE live == IF read[s].state \in InProgress THEN [rows[s] EXCEPT !.state = "interrupted"] ELSE rows[s]
           back == IF Half(read[s]) THEN [live EXCEPT !.state = "waiting_membership", !.promo = "restored", !.profile = 0]
                   ELSE live
           bare == [back EXCEPT !.phone = None, !.user = None]
           last == [bare EXCEPT !.state = "expired"]
           gone == [NoRow EXCEPT !.state = "deleted"]
<1> USE StateNames DEF NamesOfStates
<1>a. rows[s] \in Rows /\ 0 \in IdOrNone /\ None \in PhoneOrNone
  BY DEF RowsTyped, PhoneOrNone, IdOrNone
<1>b. "interrupted" \in Live /\ "waiting_membership" \in Live /\ "expired" \in Live /\ Live \subseteq States
      /\ "deleted" \in States
  BY DEF Live, States
<1>c. Young(s) => read[s].state \notin InProgress
  <2>1. "created" \notin InProgress /\ None \notin InProgress
    OBVIOUS
  <2> QED BY <2>1
<1>1. /\ live \in Rows /\ live.invite = rows[s].invite /\ live.lapsed = rows[s].lapsed /\ live.phone = rows[s].phone
      /\ live.promo = rows[s].promo /\ live.profile = rows[s].profile
      /\ live.state = rows[s].state \/ (live.state \in Live /\ ~Young(s))
  BY <1>a, <1>b, <1>c DEF Rows
<1> HIDE DEF live
<1>2. /\ back \in Rows /\ back.invite = rows[s].invite /\ back.lapsed = rows[s].lapsed /\ back.phone = rows[s].phone
      /\ (back.promo = rows[s].promo /\ back.profile = rows[s].profile) \/ back.promo \notin HalfWay
      /\ Half(read[s]) => back.promo \notin HalfWay
      /\ ~Half(read[s]) => back.profile = rows[s].profile
      /\ back.state = rows[s].state \/ (back.state \in Live /\ ~Young(s))
  BY <1>a, <1>b, <1>1 DEF Rows, HalfWay
<1> HIDE DEF back
<1>3. /\ bare \in Rows /\ bare.invite = back.invite /\ bare.lapsed = back.lapsed
      /\ bare.promo = back.promo /\ bare.profile = back.profile /\ bare.state = back.state
  BY <1>a, <1>2 DEF Rows
<1> HIDE DEF bare
<1>4. /\ last \in Rows /\ last.invite = bare.invite /\ last.lapsed = bare.lapsed
      /\ last.promo = bare.promo /\ last.profile = bare.profile /\ last.state = "expired"
  BY <1>a, <1>b, <1>3 DEF Rows
<1>5. gone \in Rows /\ gone.state = "deleted" /\ gone.promo \notin HalfWay
  BY <1>b, DefaultsTyped DEF Rows, HalfWay
<1> HIDE DEF last, gone
<1>6. \/ rows'[s] = rows[s] /\ (~Exists(s) \/ read[s].state \in {None, "deleted"})
      \/ Exists(s) /\ rows'[s] = back
      \/ Exists(s) /\ rows[s].lapsed /\ rows'[s] \in {bare, last}
      \/ Exists(s) /\ rows'[s] = gone
  BY DEF RecoveredRow, live, back, bare, last, gone, Outlived
<1>7. CASE rows'[s] = rows[s] /\ (~Exists(s) \/ read[s].state \in {None, "deleted"})
  BY <1>a, <1>7 DEF RowRecovers
<1>8. CASE Exists(s) /\ rows'[s] = back
  BY <1>2, <1>8 DEF RowRecovers, HalfPromoted
<1>9. CASE Exists(s) /\ rows[s].lapsed /\ rows'[s] \in {bare, last}
  BY <1>b, <1>2, <1>3, <1>4, <1>9 DEF RowRecovers, HalfPromoted
<1>10. CASE Exists(s) /\ rows'[s] = gone
  BY <1>5, <1>10 DEF RowRecovers, HalfPromoted, Exists
<1> QED BY <1>6, <1>7, <1>8, <1>9, <1>10

LEMMA RecoverMoves ==
  ASSUME RowsTyped, NEW read, Recover(read),
         \A s \in Sessions : Young(s) => read[s].state \in {None, "created"} /\ ~Half(read[s])
  PROVE  /\ RowsTyped'
         /\ \A s \in Sessions :
              /\ RowRecovers(s)
              /\ Exists(s) /\ Half(read[s]) /\ read[s].state \notin {None, "deleted"} => ~HalfPromoted(s)'
              /\ Exists(s)' /\ ~Half(read[s]) => rows'[s].profile = rows[s].profile
<1>1. \A s \in Sessions : rows'[s] = RecoveredRow(read, s)
  BY DEF Recover
<1>2. \A s \in Sessions :
         /\ rows'[s] \in Rows /\ RowRecovers(s)
         /\ Exists(s) /\ Half(read[s]) /\ read[s].state \notin {None, "deleted"} => ~HalfPromoted(s)'
         /\ Exists(s)' /\ ~Half(read[s]) => rows'[s].profile = rows[s].profile
  BY <1>1, RecoveredRows
<1>3. rows' = [s \in Sessions |-> rows'[s]]
  BY DEF Recover
<1>4. RowsTyped'
  BY <1>2, <1>3 DEF RowsTyped
<1> QED BY <1>2, <1>4

\* What a pass does to a profile's files it does only to one of a half.
LEMMA RecoveredFiles ==
  ASSUME FilesTyped, SignInTyped, NEW read, NEW done, RecoverFiles(read, done)
  PROVE  /\ store' \in [Ids -> Pairs] /\ temp' \in [Sessions -> Temps]
         /\ \A x \in Ids : Halves(read, x) = {} => store'[x] = store[x]
<1>1. ASSUME NEW x \in Ids PROVE store'[x] \in Pairs /\ (Halves(read, x) = {} => store'[x] = store[x])
  <2>1. store[x] \in Pairs /\ [session |-> store[x].aside, aside |-> None] \in Pairs
    BY DEF FilesTyped, Pairs, Tokens
  <2> QED BY <2>1 DEF RecoverFiles
<1>2. store' = [x \in Ids |-> store'[x]]
  BY DEF RecoverFiles
<1>3. temp' \in [Sessions -> Temps]
  BY DefaultsTyped DEF RecoverFiles, SignInTyped
<1> QED BY <1>1, <1>2, <1>3

\* The rows' invariants after a recovery beside running checks.
LEMMA RecoveryKeeps ==
  ASSUME RowInvs, RowsTyped, \A s \in Sessions : RowRecovers(s),
         \A s \in Sessions : /\ Runs(s)' => Runs(s)
                             /\ runtime'[s] = runtime[s] \/ runtime'[s].state = None
                             /\ \/ check'[s].at = check[s].at /\ check'[s].chat = check[s].chat
                                \/ check'[s].at = "none" /\ ~(HalfPromoted(s)' /\ s \notin left')
                             /\ \/ clean'.rows[s].state = None /\ ~Half(clean'.rows[s])
                                \/ clean'.rows[s] = clean.rows[s]
                             /\ Exists(s)' /\ check'[s].at = "installing" /\ s \notin left'
                                  => rows'[s].profile = rows[s].profile,
         InvitesGo, left \subseteq left'
  PROVE  RowInvs'
<1> USE StateNames DEF NamesOfStates
<1>1. ASSUME NEW s \in Sessions PROVE Young(s)' => Young(s)
  BY DEF RowRecovers, Young, Exists
<1>2. YoungRows'
  <2>1. ASSUME NEW s \in Sessions, Young(s)'
        PROVE  /\ ~Runs(s)' /\ runtime'[s].state = None /\ check'[s].at = "none"
               /\ clean'.rows[s].state \in {None, "created"} /\ ~Half(clean'.rows[s])
    BY <1>1, <2>1 DEF RowInvs, YoungRows, Half
  <2> QED BY <2>1 DEF YoungRows
<1>3. ASSUME NEW s \in Sessions, Exists(s)'
      PROVE  /\ Exists(s) /\ rows'[s].invite = rows[s].invite /\ rows'[s].lapsed = rows[s].lapsed
             /\ rows'[s].phone = rows[s].phone \/ rows[s].lapsed
  BY <1>3 DEF RowRecovers, Exists
<1>4. RowsOfInvites'
  <2>1. ASSUME NEW s \in Sessions, Exists(s)'
        PROVE  rows'[s].invite \in Invites /\ invites'[rows'[s].invite].state # "none"
    BY <1>3, <2>1 DEF RowInvs, RowsOfInvites, InvitesGo
  <2> QED BY <2>1 DEF RowsOfInvites
<1>5. RowsNamed'
  <2>1. ASSUME NEW s \in Sessions, Exists(s)', ~rows'[s].lapsed, rows'[s].state # "created"
        PROVE  rows'[s].phone \in Phones
    <3>1. Exists(s) /\ ~rows[s].lapsed /\ rows'[s].phone = rows[s].phone
      BY <1>3, <2>1
    <3>2. rows[s].state # "created"
      BY <2>1, <3>1 DEF RowRecovers, Young, Exists
    <3> QED BY <3>1, <3>2 DEF RowInvs, RowsNamed
  <2> QED BY <2>1 DEF RowsNamed
<1>6. HalvesAreServed'
  <2>1. ASSUME NEW s \in Sessions, HalfPromoted(s)'
        PROVE  rows'[s].state \in Live /\ (s \notin left' => check'[s].at \in Promoting /\ rows'[s].profile # 0)
    <3>1. HalfPromoted(s) /\ rows'[s].profile = rows[s].profile
      BY <2>1 DEF RowRecovers, HalfPromoted
    <3>2. rows[s].state \in Live /\ (s \notin left => check[s].at \in Promoting /\ rows[s].profile # 0)
      BY <3>1 DEF RowInvs, HalvesAreServed
    <3>3. rows'[s].state \in Live
      BY <2>1, <3>2 DEF RowRecovers, HalfPromoted
    <3>4. s \notin left' => check'[s].at = check[s].at
      BY <2>1
    <3> QED BY <3>1, <3>2, <3>3, <3>4
  <2> QED BY <2>1 DEF HalvesAreServed
<1>7. ChecksAreOfNow'
  <2>1. ASSUME NEW s \in Sessions, check'[s].at # "none", Exists(s)', invites'[rows'[s].invite].state = "active"
        PROVE  check'[s].chat = group'.chat
    <3>1. Exists(s) /\ rows'[s].invite = rows[s].invite
      BY <1>3, <2>1
    <3>2. invites[rows[s].invite].state = "active" /\ group'.chat = group.chat
      BY <2>1, <3>1 DEF RowInvs, RowsOfInvites, InvitesGo
    <3> QED BY <2>1, <3>1, <3>2 DEF RowInvs, ChecksAreOfNow
  <2> QED BY <2>1 DEF ChecksAreOfNow
<1>8. InstallsNamed'
  <2>1. ASSUME NEW s \in Sessions \ left', check'[s].at = "installing", Exists(s)' PROVE rows'[s].profile # 0
    <3>1. Exists(s) /\ check[s].at = "installing" /\ s \notin left
      BY <1>3, <2>1
    <3> QED BY <2>1, <3>1 DEF RowInvs, InstallsNamed
  <2> QED BY <2>1 DEF InstallsNamed
<1> QED BY <1>2, <1>4, <1>5, <1>6, <1>7, <1>8 DEF RowInvs

LEMMA NoCleanTyped ==
  /\ NoClean \in [at : {"idle", "read", "prune"}, rows : [Sessions -> Rows], prune : SUBSET Sessions]
  /\ \A s \in Sessions : NoClean.rows[s].state = None /\ ~Half(NoClean.rows[s])
BY DefaultsTyped DEF NoClean, Half, Unfinished

Settled == RowsTyped' /\ SignInTyped' /\ TasksNamed' /\ CleanTyped' /\ RowInvs'

LEMMA NothingRecovered ==
  ASSUME RowInvs, RowsTyped, UNCHANGED <<rows, invites, group, left>>,
         \A s \in Sessions : /\ Runs(s)' => Runs(s)
                             /\ runtime'[s] = runtime[s] \/ runtime'[s].state = None
                             /\ check'[s].at = check[s].at /\ check'[s].chat = check[s].chat
                             /\ \/ clean'.rows[s].state = None /\ ~Half(clean'.rows[s])
                                \/ clean'.rows[s] = clean.rows[s]
                                \/ clean'.rows[s] = rows[s]
  PROVE  RowInvs'
<1>1. YoungRows'
  <2>1. ASSUME NEW s \in Sessions, Young(s)'
        PROVE  /\ ~Runs(s)' /\ runtime'[s].state = None /\ check'[s].at = "none"
               /\ clean'.rows[s].state \in {None, "created"} /\ ~Half(clean'.rows[s])
    <3>1. Young(s) /\ check[s].at = "none"
      BY <2>1 DEF RowInvs, YoungRows, Young
    <3>2. rows[s].state \in {None, "created"} /\ ~Half(rows[s])
      BY <3>1, StateNames DEF RowInvs, HalvesAreServed, HalfPromoted, HalfWay, Half, Unfinished, Young, NamesOfStates
    <3> QED BY <3>1, <3>2 DEF RowInvs, YoungRows, Half, Unfinished
  <2> QED BY <2>1 DEF YoungRows
<1>2. RowsOfInvites' /\ RowsNamed' /\ HalvesAreServed' /\ InstallsNamed' /\ ChecksAreOfNow'
  BY DEF RowInvs, RowsOfInvites, RowsNamed, HalvesAreServed, HalfPromoted, InstallsNamed, ChecksAreOfNow, Exists
<1> QED BY <1>1, <1>2 DEF RowInvs

\* A cleanup's writes only cross checks.
LEMMA CleanupCrosses ==
  ASSUME CheckTyped, CleanupWrites
  PROVE  \A s \in Sessions : /\ Untouched(s)
                             /\ AtWork(s) /\ Halves(clean.rows, check[s].profile) # {} => check'[s].crossed
<1> DEFINE hit(s) == check[s].crossed \/ (AtWork(s) /\ Halves(clean.rows, check[s].profile) # {})
<1>1. check' = [s \in Sessions |-> [check[s] EXCEPT !.crossed = hit(s)]]
  BY DEF CleanupWrites, AtWork
<1> SUFFICES ASSUME NEW s \in Sessions
             PROVE  /\ Untouched(s)
                    /\ AtWork(s) /\ Halves(clean.rows, check[s].profile) # {} => check'[s].crossed
  OBVIOUS
<1>2. hit(s) \in BOOLEAN /\ (check[s].crossed => hit(s))
      /\ (AtWork(s) /\ Halves(clean.rows, check[s].profile) # {} => hit(s))
  BY DEF CheckTyped, Checks
<1> HIDE DEF hit
<1>3. check[s] \in Checks /\ check'[s] = [check[s] EXCEPT !.crossed = hit(s)]
  BY <1>1 DEF CheckTyped
<1>4. check'[s].crossed = hit(s)
  BY <1>3 DEF Checks
<1> QED BY <1>2, <1>3, <1>4 DEF Untouched

LEMMA CleanMoves ==
  ASSUME OwnerTyped, RowsTyped, SignInTyped, FilesTyped, TasksNamed, CheckTyped, CleanTyped, RowInvs, CleanStep
  PROVE  Settled
<1> USE StateNames DEF NamesOfStates
<1>0. UNCHANGED <<group, invites, locators>> /\ InvitesGo
  BY Frames DEF owner, InvitesGo
<1>1. ASSUME CleanupReads PROVE Settled
  <2>1. UNCHANGED <<rows, runtime, task, temp, check, left>>
        /\ clean' = [NoClean EXCEPT !.at = "read", !.rows = rows]
    BY <1>1 DEF CleanupReads, books, signIn
  <2>2. clean'.rows = rows /\ CleanTyped'
    BY <2>1, NoCleanTyped DEF NoClean, CleanTyped, RowsTyped
  <2>3. RowInvs'
    BY <1>0, <2>1, <2>2, NothingRecovered DEF Runs
  <2> QED BY <2>1, <2>2, <2>3 DEF Settled, RowsTyped, SignInTyped, TasksNamed, Runs
<1>2. ASSUME CleanupWrites PROVE Settled
  <2>1. UNCHANGED <<runtime, task>>
    BY <1>2 DEF CleanupWrites
  <2>2. \A s \in Sessions : check'[s].at = check[s].at /\ check'[s].chat = check[s].chat
    BY <1>2, CleanupCrosses, UntouchedIs
  <2>3. ASSUME clean'.rows = NoClean.rows
        PROVE  \A s \in Sessions : /\ Runs(s)' => Runs(s)
                                   /\ clean'.rows[s].state = None /\ ~Half(clean'.rows[s])
    BY <2>1, <2>3, NoCleanTyped DEF Runs
  <2>4. ASSUME NEW done, RecoverFiles(clean.rows, done) PROVE SignInTyped' /\ TasksNamed'
    <3>1. temp' \in [Sessions -> Temps]
      BY <2>4, RecoveredFiles
    <3> QED BY <2>1, <3>1 DEF SignInTyped, TasksNamed, Runs
  <2>5. CASE /\ Recover(clean.rows)
             /\ left' = left \cup {s \in Sessions : Half(clean.rows[s]) /\ check[s].at \in Promoting}
             /\ \E some \in SUBSET Sessions : clean' = [NoClean EXCEPT !.at = "prune", !.prune = some]
    <3>1. \A s \in Sessions : Young(s) => clean.rows[s].state \in {None, "created"} /\ ~Half(clean.rows[s])
      BY DEF RowInvs, YoungRows
    <3>2. /\ RowsTyped'
          /\ \A s \in Sessions :
               /\ RowRecovers(s)
               /\ Exists(s)' /\ ~Half(clean.rows[s]) => rows'[s].profile = rows[s].profile
      BY <2>5, <3>1, RecoverMoves
    <3> DEFINE taken == {s \in Sessions : Half(clean.rows[s]) /\ check[s].at \in Promoting}
    <3>8. left' = left \cup taken
      BY <2>5
    <3>9. \A s \in Sessions : Half(clean.rows[s]) /\ check[s].at = "installing" => s \in taken
      BY DEF Promoting
    <3> HIDE DEF taken
    <3>5. left \subseteq left' /\ \A s \in Sessions : Half(clean.rows[s]) /\ check'[s].at = "installing" => s \in left'
      BY <2>2, <3>8, <3>9
    <3>3. CleanTyped' /\ clean'.rows = NoClean.rows
      BY <2>5, NoCleanTyped DEF NoClean, CleanTyped
    <3>6. ASSUME NEW s \in Sessions, Exists(s)', check'[s].at = "installing", s \notin left'
          PROVE  rows'[s].profile = rows[s].profile
      <4>1. ~Half(clean.rows[s])
        BY <3>5, <3>6
      <4> QED BY <3>2, <3>6, <4>1
    <3>7. \A s \in Sessions : runtime'[s] = runtime[s]
      BY <2>1
    <3>4. RowInvs'
      BY <1>0, <2>2, <2>3, <3>2, <3>3, <3>5, <3>6, <3>7, RecoveryKeeps
    <3> QED BY <2>4, <2>5, <3>2, <3>3, <3>4 DEF Settled, Recover
  <2>6. CASE RecoveryFails(clean.rows) /\ clean' = NoClean /\ UNCHANGED left
    <3>1. UNCHANGED rows /\ \E done : RecoverFiles(clean.rows, done)
      BY <2>6 DEF RecoveryFails
    <3>2. RowInvs'
      BY <1>0, <2>1, <2>2, <2>3, <2>6, <3>1, NothingRecovered
    <3> QED BY <2>4, <2>6, <3>1, <3>2, NoCleanTyped DEF Settled, RowsTyped, CleanTyped
  <2>7. \/ /\ Recover(clean.rows)
           /\ left' = left \cup {s \in Sessions : Half(clean.rows[s]) /\ check[s].at \in Promoting}
           /\ \E some \in SUBSET Sessions : clean' = [NoClean EXCEPT !.at = "prune", !.prune = some]
        \/ RecoveryFails(clean.rows) /\ clean' = NoClean /\ UNCHANGED left
    BY <1>2 DEF CleanupWrites
  <2> QED BY <2>5, <2>6, <2>7
<1>3. ASSUME NEW s \in Sessions, Prune(s) PROVE Settled
  <2>1. UNCHANGED <<rows, temp, check, left>>
        /\ \/ UNCHANGED <<runtime, clean>> /\ Runs(s) /\ task' = [task EXCEPT ![s].at = "stopping"]
           \/ /\ (UNCHANGED runtime \/ runtime' = [runtime EXCEPT ![s] = NoRuntime]) /\ UNCHANGED task
              /\ clean' = [clean EXCEPT !.prune = @ \ {s}]
    BY <1>3 DEF Prune, TaskAt, books
  <2>2. CleanTyped' /\ clean'.rows = clean.rows
    BY <2>1 DEF CleanTyped
  <2>3. SignInTyped' /\ TasksNamed' /\ \A t \in Sessions : /\ Runs(t)' => Runs(t)
                                                           /\ runtime'[t] = runtime[t] \/ runtime'[t].state = None
    <3>1. CASE UNCHANGED runtime /\ Runs(s) /\ task' = [task EXCEPT ![s].at = "stopping"]
      <4>0. [task[s] EXCEPT !.at = "stopping"] \in Jobs
        BY SignInParts DEF Jobs
      <4>1. SignInTyped'
        BY <2>1, <3>1, <4>0 DEF SignInTyped
      <4>2. \A t \in Sessions : /\ task'[t].account = task[t].account
                                /\ task'[t].at = IF t = s THEN "stopping" ELSE task[t].at
        BY <3>1 DEF SignInTyped, Jobs
      <4>3. \A t \in Sessions : Runs(t)' <=> Runs(t)
        BY <3>1, <4>2 DEF Runs
      <4>4. TasksNamed'
        BY <4>2, <4>3 DEF TasksNamed
      <4> QED BY <3>1, <4>1, <4>3, <4>4
    <3>2. CASE UNCHANGED task /\ (UNCHANGED runtime \/ runtime' = [runtime EXCEPT ![s] = NoRuntime])
      <4>1. SignInTyped'
        BY <2>1, <3>2, DefaultsTyped DEF SignInTyped
      <4>2. \A t \in Sessions : runtime'[t] = runtime[t] \/ runtime'[t].state = None
        BY <3>2, DefaultsTyped DEF SignInTyped
      <4>3. \A t \in Sessions : Runs(t)' <=> Runs(t)
        BY <3>2 DEF Runs
      <4>4. TasksNamed'
        BY <3>2, <4>3 DEF TasksNamed
      <4> QED BY <4>1, <4>2, <4>3, <4>4
    <3> QED BY <2>1, <3>1, <3>2
  <2>4. RowInvs'
    BY <1>0, <2>1, <2>2, <2>3, NothingRecovered
  <2> QED BY <2>1, <2>2, <2>3, <2>4 DEF Settled, RowsTyped
<1>4. ASSUME Pruned PROVE Settled
  <2>1. UNCHANGED <<rows, runtime, task, temp, check, left>> /\ clean' = NoClean
    BY <1>4 DEF Pruned, books, signIn
  <2>2. RowInvs'
    BY <1>0, <2>1, NoCleanTyped, NothingRecovered DEF Runs
  <2> QED BY <2>1, <2>2, NoCleanTyped DEF Settled, RowsTyped, SignInTyped, TasksNamed, Runs, CleanTyped
<1>5. ASSUME Restart PROVE Settled
  <2>1. /\ Recover(rows) /\ runtime' = [s \in Sessions |-> NoRuntime] /\ task' = [s \in Sessions |-> NoTask]
        /\ check' = [s \in Sessions |-> NoCheck] /\ clean' = NoClean /\ UNCHANGED left
    BY <1>5 DEF Restart
  <2>2. ASSUME NEW s \in Sessions, Young(s) PROVE rows[s].state \in {None, "created"} /\ ~Half(rows[s])
    <3>1. rows[s].state \notin Live
      BY <2>2 DEF Young
    <3> QED BY <2>2, <3>1 DEF RowInvs, HalvesAreServed, HalfPromoted, HalfWay, Half, Unfinished, Young
  <2>3. /\ RowsTyped'
        /\ \A s \in Sessions :
              /\ RowRecovers(s)
              /\ Exists(s) /\ Half(rows[s]) /\ rows[s].state \notin {None, "deleted"} => ~HalfPromoted(s)'
    BY <2>1, <2>2, RecoverMoves
  <2>4. ASSUME NEW s \in Sessions, HalfPromoted(s)', s \notin left' PROVE FALSE
    <3>1. HalfPromoted(s)
      BY <2>3, <2>4 DEF RowRecovers, HalfPromoted
    <3>2. rows[s].state \in Live /\ rows[s].profile # 0
      BY <2>1, <2>4, <3>1 DEF RowInvs, HalvesAreServed
    <3>3. Exists(s) /\ Half(rows[s]) /\ rows[s].state \notin {None, "deleted"}
      BY <3>1, <3>2 DEF HalfPromoted, HalfWay, Half, Unfinished, Exists
    <3> QED BY <2>3, <2>4, <3>3
  <2>5. \A s \in Sessions : /\ ~Runs(s)' /\ runtime'[s].state = None /\ check'[s].at = "none"
                            /\ clean'.rows[s].state = None /\ ~Half(clean'.rows[s])
    BY <2>1, DefaultsTyped, NoCleanTyped DEF Runs
  <2>6. RowInvs'
    BY <1>0, <2>1, <2>3, <2>4, <2>5, RecoveryKeeps
  <2>7. SignInTyped' /\ TasksNamed'
    <3>1. temp' \in [Sessions -> Temps]
      BY <2>1, RecoveredFiles DEF Recover
    <3> QED BY <2>1, <3>1, DefaultsTyped DEF SignInTyped, TasksNamed, Runs
  <2> QED BY <2>1, <2>3, <2>6, <2>7, NoCleanTyped DEF Settled, CleanTyped
<1> QED BY <1>1, <1>2, <1>3, <1>4, <1>5 DEF CleanStep

--------------------------------------------------------------------------------
(* The check: where it goes *)

Ends(s) == check'[s] = NoCheck
Begins(s) ==
    /\ check[s].at = "none" /\ check'[s].at = "proving"
    /\ check'[s].phone = rows[s].phone /\ check'[s].chat = group.chat

\* It goes on about the same profile.
GoesOn(s, from, to) ==
    /\ check[s].at = from /\ check'[s].at = to
    /\ check'[s].phone = check[s].phone /\ check'[s].profile = check[s].profile /\ check'[s].lock = check[s].lock
    /\ check'[s].chat = check[s].chat /\ check'[s].user = check[s].user /\ check'[s].crossed = check[s].crossed

\* It has proved the account, and goes for the lock its profile's id has.
Enters(s) ==
    /\ check[s].at = "connected" /\ check'[s].at \in {"entering", "waiting"}
    /\ check'[s].phone = check[s].phone /\ check'[s].chat = check[s].chat
    /\ check'[s].profile \in Ids /\ check'[s].lock = locks[check'[s].profile]
    /\ check'[s].crossed = Stale(check'[s].profile)

Others(s) == \A t \in Sessions \ {s} : Untouched(t)

LEMMA AtForm ==
  ASSUME CheckTyped, NEW s \in Sessions, NEW to \in {"connected", "refused"} \cup Working, CheckAt(s, to)
  PROVE  CheckTyped' /\ Others(s) /\ GoesOn(s, check[s].at, to)
<1>1. check[s] \in Checks /\ check' = [check EXCEPT ![s] = [check[s] EXCEPT !.at = to]]
  BY DEF CheckTyped, CheckAt
<1> DEFINE c == [check[s] EXCEPT !.at = to]
<1>2. /\ c \in Checks /\ c.at = to /\ c.phone = check[s].phone /\ c.profile = check[s].profile /\ c.lock = check[s].lock
      /\ c.chat = check[s].chat /\ c.user = check[s].user /\ c.crossed = check[s].crossed
  BY <1>1 DEF Checks
<1> HIDE DEF c
<1>3. check' = [check EXCEPT ![s] = c]
  BY <1>1 DEF c
<1>4. CheckTyped' /\ check'[s] = c /\ \A t \in Sessions \ {s} : check'[t] = check[t]
  BY <1>2, <1>3 DEF CheckTyped
<1> QED BY <1>2, <1>4, UnchangedIsUntouched DEF Others, GoesOn

LEMMA EndForm ==
  ASSUME CheckTyped, NEW s \in Sessions, CheckEnds(s) PROVE CheckTyped' /\ Others(s) /\ Ends(s)
<1>1. check' = [check EXCEPT ![s] = NoCheck] /\ NoCheck \in Checks
  BY DefaultsTyped DEF CheckEnds
<1>2. CheckTyped' /\ check'[s] = NoCheck /\ \A t \in Sessions \ {s} : check'[t] = check[t]
  BY <1>1 DEF CheckTyped
<1> QED BY <1>2, UnchangedIsUntouched DEF Others, Ends

LEMMA UndoForm ==
  ASSUME CheckTyped, NEW s \in Sessions, Undo(s) PROVE CheckTyped' /\ Others(s) /\ Ends(s)
<1>1. CASE CheckEnds(s)
  BY <1>1, EndForm
<1>2. CASE ~CheckEnds(s)
  <2>1. PICK c \in {check, Crossed(check[s].profile, s)} : check' = [c EXCEPT ![s] = NoCheck]
    BY <1>2 DEF Undo
  <2>2. c \in [Sessions -> Checks]
        /\ \A t \in Sessions : \E b \in BOOLEAN : c[t] = [check[t] EXCEPT !.crossed = b] /\ (check[t].crossed => b)
    <3>1. CASE c = check
      <4>1. ASSUME NEW t \in Sessions
            PROVE  \E b \in BOOLEAN : check[t] = [check[t] EXCEPT !.crossed = b] /\ (check[t].crossed => b)
        <5>1. check[t] \in Checks /\ check[t].crossed \in BOOLEAN
          BY DEF CheckTyped, Checks
        <5>2. check[t] = [check[t] EXCEPT !.crossed = check[t].crossed]
          BY <5>1 DEF Checks
        <5> QED BY <5>1, <5>2
      <4> QED BY <3>1, <4>1 DEF CheckTyped
    <3>2. CASE c = Crossed(check[s].profile, s)
      BY <3>2, CrossedTyped
    <3> QED BY <3>1, <3>2
  <2>3. CheckTyped' /\ check'[s] = NoCheck /\ \A t \in Sessions \ {s} : check'[t] = c[t]
    BY <2>1, <2>2, DefaultsTyped DEF CheckTyped
  <2> QED BY <2>2, <2>3 DEF Others, Untouched, Ends
<1> QED BY <1>1, <1>2

LEMMA BeginForm ==
  ASSUME OwnerTyped, RowsTyped, CheckTyped, NEW s \in Sessions, BeginCheck(s)
  PROVE  CheckTyped' /\ Others(s) /\ Begins(s)
<1> DEFINE c == [NoCheck EXCEPT !.at = "proving", !.phone = rows[s].phone, !.chat = group.chat, !.user = rows[s].user]
<1>1. check[s].at = "none" /\ check' = [check EXCEPT ![s] = c]
  BY DEF BeginCheck, Unlocked
<1>2. rows[s].phone \in PhoneOrNone /\ rows[s].user \in PhoneOrNone /\ group.chat \in Chats \cup {None}
  BY DEF RowsTyped, Rows, OwnerTyped
<1>3. c \in Checks /\ c.at = "proving" /\ c.phone = rows[s].phone /\ c.chat = group.chat
  BY <1>2 DEF NoCheck, Checks, IdOrNone
<1> HIDE DEF c
<1>4. CheckTyped' /\ check'[s] = c /\ \A t \in Sessions \ {s} : check'[t] = check[t]
  BY <1>1, <1>3 DEF CheckTyped
<1> QED BY <1>1, <1>3, <1>4, UnchangedIsUntouched DEF Others, Begins

LEMMA ConnectForm ==
  ASSUME CheckTyped, NEW s \in Sessions, Connect(s)
  PROVE  CheckTyped' /\ Others(s) /\ (GoesOn(s, "proving", "connected") \/ GoesOn(s, "proving", "refused"))
BY AtForm DEF Connect

LEMMA ProvedForm ==
  ASSUME CheckTyped, FilesTyped, NEW s \in Sessions, Proved(s)
  PROVE  CheckTyped' /\ Others(s) /\ (Ends(s) \/ Enters(s))
<1> DEFINE p == check[s].phone
           made == profiles[p].status = None
<1>0. check[s].at = "connected"
  BY DEF Proved
<1>1. CASE CheckEnds(s)
  BY <1>1, EndForm
<1>2. ASSUME NEW x \in Ids, NEW at \in {"entering", "waiting"},
             check' = [check EXCEPT ![s] = [check[s] EXCEPT !.at = at, !.profile = x, !.lock = locks[x],
                                                           !.made = made, !.crossed = Stale(x)]]
      PROVE  CheckTyped' /\ Others(s) /\ Enters(s)
  <2>1. check[s] \in Checks /\ locks[x] \in Nat /\ made \in BOOLEAN /\ Stale(x) \in BOOLEAN
    BY DEF CheckTyped, FilesTyped, Stale
  <2> HIDE DEF made
  <2> DEFINE c == [check[s] EXCEPT !.at = at, !.profile = x, !.lock = locks[x], !.made = made, !.crossed = Stale(x)]
  <2>2. /\ c \in Checks /\ c.at = at /\ c.phone = check[s].phone /\ c.chat = check[s].chat
        /\ c.profile = x /\ c.lock = locks[x] /\ c.crossed = Stale(x)
    BY <2>1 DEF Checks, IdOrNone, Working
  <2>3. check' = [check EXCEPT ![s] = c]
    BY <1>2
  <2> HIDE DEF c
  <2>4. CheckTyped' /\ check'[s] = c /\ \A t \in Sessions \ {s} : check'[t] = check[t]
    BY <2>2, <2>3 DEF CheckTyped
  <2> QED BY <1>0, <2>2, <2>4, UnchangedIsUntouched DEF Others, Enters
<1>3. CheckEnds(s) \/ \E x \in Ids :
        check' = [check EXCEPT ![s] = [check[s] EXCEPT !.at = IF Held(x, locks[x]) THEN "waiting" ELSE "entering",
                                                      !.profile = x, !.lock = locks[x],
                                                      !.made = made, !.crossed = Stale(x)]]
  BY Zenon DEF Proved
<1> HIDE DEF made
<1> QED BY <1>1, <1>2, <1>3

LEMMA StageForm ==
  ASSUME CheckTyped, NEW s \in Sessions, Stage(s)
  PROVE  CheckTyped' /\ Others(s) /\ (Ends(s) \/ GoesOn(s, check[s].at, "installing"))
<1>1. CASE CheckEnds(s)
  BY <1>1, EndForm
<1>2. ASSUME NEW moved \in BOOLEAN, check' = [check EXCEPT ![s].at = "installing", ![s].moved = moved]
      PROVE  CheckTyped' /\ Others(s) /\ GoesOn(s, check[s].at, "installing")
  <2> DEFINE c == [check[s] EXCEPT !.at = "installing", !.moved = moved]
  <2>1. check[s] \in Checks /\ check' = [check EXCEPT ![s] = c]
    BY <1>2 DEF CheckTyped
  <2>2. /\ c \in Checks /\ c.at = "installing" /\ c.phone = check[s].phone /\ c.profile = check[s].profile
        /\ c.lock = check[s].lock /\ c.chat = check[s].chat /\ c.user = check[s].user /\ c.crossed = check[s].crossed
    BY <2>1 DEF Checks, Working
  <2> HIDE DEF c
  <2>3. CheckTyped' /\ check'[s] = c /\ \A t \in Sessions \ {s} : check'[t] = check[t]
    BY <2>1, <2>2 DEF CheckTyped
  <2> QED BY <2>2, <2>3, UnchangedIsUntouched DEF Others, GoesOn
<1>3. CheckEnds(s) \/ \E moved \in BOOLEAN : check' = [check EXCEPT ![s].at = "installing", ![s].moved = moved]
  BY DEF Stage
<1> QED BY <1>1, <1>2, <1>3

--------------------------------------------------------------------------------
(* The check: what it makes of its row *)

CheckRow(s, row) ==
    /\ ~Young(s) /\ row.invite = rows[s].invite /\ row.lapsed = rows[s].lapsed /\ row.phone = rows[s].phone
    /\ row.state = rows[s].state \/ (Exists(s) /\ row.state \in Live \cup {"completed"})
    /\ row.promo \in HalfWay => row.state \in Live /\ (s \notin left' => check'[s].at \in Promoting /\ row.profile # 0)
    /\ check'[s].at = "installing" /\ Exists(s) /\ s \notin left' => row.profile # 0

KeepsChat(s) ==
    check'[s].at # "none" => check'[s].chat = group.chat \/ (check[s].at # "none" /\ check'[s].chat = check[s].chat)

CheckMoves(s) ==
    /\ CheckTyped' /\ Others(s) /\ KeepsChat(s) /\ left' \in {left, left \cup {s}, left \ {s}}
    /\ \E row \in Rows : rows' = [rows EXCEPT ![s] = row] /\ CheckRow(s, row)

\* What the check finds when it goes on.
LEMMA CheckFinds ==
  ASSUME RowsTyped, CheckTyped, RowInvs, NEW s \in Sessions, check[s].at # "none"
  PROVE  /\ rows[s] \in Rows /\ check[s] \in Checks /\ ~Young(s) /\ rows = [rows EXCEPT ![s] = rows[s]]
         /\ HalfPromoted(s) => /\ rows[s].state \in Live /\ Exists(s)
                               /\ s \notin left => check[s].at \in Promoting /\ rows[s].profile # 0
<1>1. rows[s] \in Rows /\ check[s] \in Checks /\ rows = [rows EXCEPT ![s] = rows[s]]
  BY DEF RowsTyped, CheckTyped
<1>2. ~Young(s)
  BY DEF RowInvs, YoungRows
<1>3. HalfPromoted(s) => /\ rows[s].state \in Live /\ Exists(s)
                         /\ s \notin left => check[s].at \in Promoting /\ rows[s].profile # 0
  BY StateNames DEF RowInvs, HalvesAreServed, Exists, NamesOfStates
<1> QED BY <1>1, <1>2, <1>3

LEMMA ChatKept ==
  ASSUME NEW s \in Sessions, Ends(s) \/ Begins(s) \/ Enters(s) \/ \E to : GoesOn(s, check[s].at, to) /\ check[s].at # "none"
  PROVE  KeepsChat(s)
BY DefaultsTyped DEF KeepsChat, Ends, Begins, Enters, GoesOn

\* The row stays as it is.
LEMMA RestMove ==
  ASSUME RowsTyped, CheckTyped, RowInvs, NEW s \in Sessions, check[s].at # "none",
         CheckTyped', Others(s), KeepsChat(s), UNCHANGED rows, left' \in {left, left \cup {s}, left \ {s}},
         HalfPromoted(s) /\ s \notin left' => s \notin left /\ (check[s].at \in Promoting => check'[s].at \in Promoting),
         check'[s].at = "installing" => ~Exists(s)
  PROVE  CheckMoves(s)
<1>1. CheckRow(s, rows[s])
  BY CheckFinds DEF CheckRow, HalfPromoted
<1>2. rows[s] \in Rows /\ rows' = [rows EXCEPT ![s] = rows[s]]
  BY CheckFinds
<1> QED BY <1>1, <1>2 DEF CheckMoves

\* The row takes another state and, with it, another stage of its promotion.
Writes(s, state, promo, profile) ==
    \E row \in Rows :
        /\ rows' = [rows EXCEPT ![s] = row]
        /\ row.invite = rows[s].invite /\ row.lapsed = rows[s].lapsed /\ row.phone = rows[s].phone
        /\ row.state = state /\ row.promo = promo /\ row.profile = profile

LEMMA WritesMove ==
  ASSUME RowsTyped, CheckTyped, RowInvs, NEW s \in Sessions, check[s].at # "none",
         CheckTyped', Others(s), KeepsChat(s), left' \in {left, left \cup {s}, left \ {s}}, Exists(s),
         NEW state \in Live \cup {"completed"}, NEW promo, NEW profile, Writes(s, state, promo, profile),
         promo \in HalfWay => state \in Live /\ (s \notin left' => check'[s].at \in Promoting /\ profile # 0),
         check'[s].at = "installing" /\ s \notin left' => profile # 0
  PROVE  CheckMoves(s)
<1>1. ~Young(s)
  BY CheckFinds
<1>2. PICK row \in Rows :
        /\ rows' = [rows EXCEPT ![s] = row]
        /\ row.invite = rows[s].invite /\ row.lapsed = rows[s].lapsed /\ row.phone = rows[s].phone
        /\ row.state = state /\ row.promo = promo /\ row.profile = profile
  BY DEF Writes
<1>3. CheckRow(s, row)
  BY <1>1, <1>2 DEF CheckRow
<1> QED BY <1>2, <1>3 DEF CheckMoves

LEMMA UndoMoves ==
  ASSUME RowsTyped, CheckTyped, RowInvs, NEW s \in Sessions, check[s].at \in Promoting, Undo(s)
  PROVE  CheckMoves(s)
<1>0. check[s].at # "none"
  BY DEF Promoting
<1>1. CheckTyped' /\ Others(s) /\ KeepsChat(s) /\ check'[s].at = "none"
  BY UndoForm, ChatKept, DefaultsTyped DEF Ends
<1>2. CASE UNCHANGED rows /\ left' = left \cup {s}
  BY <1>0, <1>1, <1>2, RestMove
<1>3. CASE UNCHANGED <<rows, left>> /\ ~Exists(s)
  <2>1. ~HalfPromoted(s)
    BY <1>0, <1>3, CheckFinds
  <2> QED BY <1>0, <1>1, <1>3, <2>1, RestMove
<1>4. CASE /\ Exists(s) /\ UNCHANGED left
           /\ rows' = [rows EXCEPT ![s].state = "waiting_membership", ![s].promo = "restored", ![s].profile = 0]
  <2>1. rows[s] \in Rows /\ 0 \in IdOrNone
    BY DEF RowsTyped, IdOrNone
  <2>2. Writes(s, "waiting_membership", "restored", 0)
    <3> DEFINE row == [rows[s] EXCEPT !.state = "waiting_membership", !.promo = "restored", !.profile = 0]
    <3>1. row \in Rows /\ rows' = [rows EXCEPT ![s] = row]
      BY <1>4, <2>1 DEF Rows, RowsTyped, States, Live
    <3>2. /\ row.invite = rows[s].invite /\ row.lapsed = rows[s].lapsed /\ row.phone = rows[s].phone
          /\ row.state = "waiting_membership" /\ row.promo = "restored" /\ row.profile = 0
      BY <2>1 DEF Rows
    <3> HIDE DEF row
    <3> QED BY <3>1, <3>2 DEF Writes
  <2>3. "waiting_membership" \in Live \cup {"completed"} /\ "restored" \notin HalfWay
    BY DEF Live, HalfWay
  <2> QED BY <1>0, <1>1, <1>4, <2>2, <2>3, WritesMove
<1>5. \/ UNCHANGED rows /\ left' = left \cup {s}
      \/ UNCHANGED <<rows, left>> /\ ~Exists(s)
      \/ /\ Exists(s) /\ UNCHANGED left
         /\ rows' = [rows EXCEPT ![s].state = "waiting_membership", ![s].promo = "restored", ![s].profile = 0]
  BY DEF Undo
<1> QED BY <1>2, <1>3, <1>4, <1>5

\* A row that completes.
LEMMA CompleteMove ==
  ASSUME RowsTyped, CheckTyped, RowInvs, NEW s \in Sessions, check[s].at \in Promoting, Exists(s),
         CheckTyped', Others(s), KeepsChat(s), UNCHANGED left, check'[s].at # "installing",
         rows' = [rows EXCEPT ![s].state = "completed", ![s].promo = "complete", ![s].profile = check[s].profile]
  PROVE  CheckMoves(s)
<1>1. /\ rows[s] \in Rows /\ check[s].profile \in IdOrNone /\ check[s].at # "none"
      /\ "complete" \notin HalfWay /\ "completed" \in Live \cup {"completed"}
  BY DEF RowsTyped, CheckTyped, Checks, Promoting, HalfWay
<1>2. Writes(s, "completed", "complete", check[s].profile)
  <2> DEFINE row == [rows[s] EXCEPT !.state = "completed", !.promo = "complete", !.profile = check[s].profile]
  <2>1. row \in Rows /\ rows' = [rows EXCEPT ![s] = row]
    BY <1>1 DEF Rows, RowsTyped, States
  <2>2. /\ row.invite = rows[s].invite /\ row.lapsed = rows[s].lapsed /\ row.phone = rows[s].phone
        /\ row.state = "completed" /\ row.promo = "complete" /\ row.profile = check[s].profile
    BY <1>1 DEF Rows
  <2> HIDE DEF row
  <2> QED BY <2>1, <2>2 DEF Writes
<1> QED BY <1>1, <1>2, WritesMove

LEMMA CheckStepMoves ==
  ASSUME OwnerTyped, RowsTyped, FilesTyped, CheckTyped, WorksOnItsOwn, RowInvs, NEW s \in Sessions, CheckStep(s)
  PROVE  CheckMoves(s)
<1> USE StateNames DEF NamesOfStates
<1>p. "none" \notin Promoting /\ \A at \in Promoting : at \in Working
  BY DEF Promoting, Working
<1>1. ASSUME BeginCheck(s) PROVE CheckMoves(s)
  <2>1. CheckTyped' /\ Others(s) /\ KeepsChat(s) /\ check'[s].at = "proving" /\ UNCHANGED <<rows, left>>
    BY <1>1, BeginForm, ChatKept DEF Begins, BeginCheck, books
  <2>2. check[s].at = "none" /\ rows[s].state \in {"waiting_membership", "finalizing"}
    BY <1>1 DEF BeginCheck, Unlocked
  <2>3. ~Young(s)
    <3>1. rows[s].state \in Live
      BY <2>2 DEF Live
    <3> QED BY <3>1 DEF Young
  <2>4. HalfPromoted(s) => rows[s].state \in Live /\ s \in left
    BY <1>p, <2>2 DEF RowInvs, HalvesAreServed
  <2>5. CheckRow(s, rows[s])
    BY <2>1, <2>3, <2>4 DEF CheckRow, HalfPromoted
  <2>6. rows[s] \in Rows /\ rows' = [rows EXCEPT ![s] = rows[s]]
    BY <2>1 DEF RowsTyped
  <2> QED BY <2>1, <2>5, <2>6 DEF CheckMoves
<1>2. ASSUME Connect(s) \/ Proved(s) PROVE CheckMoves(s)
  <2>1. CheckTyped' /\ Others(s) /\ KeepsChat(s) /\ check'[s].at # "installing"
    BY <1>2, ConnectForm, ProvedForm, ChatKept, DefaultsTyped DEF GoesOn, Ends, Enters
  <2>2. check[s].at \in {"proving", "connected"} /\ UNCHANGED <<rows, left>>
    BY <1>2 DEF Connect, Proved, books
  <2>3. check[s].at # "none" /\ check[s].at \notin Promoting
    BY <2>2 DEF Promoting
  <2> QED BY <2>1, <2>2, <2>3, RestMove
<1>3. ASSUME NotProved(s) PROVE CheckMoves(s)
  <2>1. /\ CheckTyped' /\ Others(s) /\ KeepsChat(s) /\ check'[s].at = "none"
        /\ check[s].at \in {"proving", "connected", "refused"} /\ UNCHANGED left
        /\ rows' \in {rows, Written(s, "waiting_membership")}
    BY <1>3, EndForm, ChatKept, DefaultsTyped DEF Ends, NotProved
  <2>2. check[s].at # "none" /\ check[s].at \notin Promoting
    BY <2>1 DEF Promoting
  <2>3. CASE UNCHANGED rows
    BY <2>1, <2>2, <2>3, RestMove
  <2>4. CASE Exists(s) /\ rows' = [rows EXCEPT ![s].state = "waiting_membership"]
    <3>1. rows[s] \in Rows /\ "waiting_membership" \in Live /\ "waiting_membership" \in Live \cup {"completed"}
      BY DEF RowsTyped, Live
    <3>2. Writes(s, "waiting_membership", rows[s].promo, rows[s].profile)
      <4> DEFINE row == [rows[s] EXCEPT !.state = "waiting_membership"]
      <4>1. row \in Rows /\ rows' = [rows EXCEPT ![s] = row]
        BY <2>4, <3>1 DEF Rows, RowsTyped, States
      <4>2. /\ row.invite = rows[s].invite /\ row.lapsed = rows[s].lapsed /\ row.phone = rows[s].phone
            /\ row.state = "waiting_membership" /\ row.promo = rows[s].promo /\ row.profile = rows[s].profile
        BY <3>1 DEF Rows
      <4> HIDE DEF row
      <4> QED BY <4>1, <4>2 DEF Writes
    <3>3. rows[s].promo \in HalfWay => s \in left
      BY <2>2, CheckFinds DEF HalfPromoted
    <3> QED BY <2>1, <2>2, <2>4, <3>1, <3>2, <3>3, WritesMove
  <2> QED BY <2>1, <2>3, <2>4 DEF Written
<1>4. ASSUME Stage(s) PROVE CheckMoves(s)
  <2>1. /\ CheckTyped' /\ Others(s) /\ check[s].at \in {"entering", "waiting"}
        /\ Ends(s) \/ GoesOn(s, check[s].at, "installing")
    BY <1>4, StageForm DEF Stage
  <2>2. check[s].at # "none" /\ check[s].at \notin Promoting /\ AtWork(s) /\ KeepsChat(s)
    BY <2>1, ChatKept DEF Promoting, AtWork, Working
  <2>3. CASE CheckEnds(s) /\ UNCHANGED <<rows, left>>
    <3>1. check'[s].at = "none"
      BY <2>3, EndForm, DefaultsTyped DEF Ends
    <3> QED BY <2>1, <2>2, <2>3, <3>1, RestMove
  <2>4. CASE Exists(s) /\ left' = left \ {s} /\ check'[s].at = "installing"
             /\ rows' = [rows EXCEPT ![s].state = "finalizing", ![s].promo = "promoting",
                                     ![s].profile = check[s].profile, ![s].made = check[s].made]
    <3>1. /\ rows[s] \in Rows /\ check[s].profile \in IdOrNone /\ check[s].profile # 0 /\ check[s].made \in BOOLEAN
          /\ "finalizing" \in Live /\ "finalizing" \in Live \cup {"completed"}
          /\ "promoting" \in HalfWay /\ "installing" \in Promoting
      BY <2>2 DEF WorksOnItsOwn, RowsTyped, CheckTyped, Checks, Ids, IdOrNone, Live, HalfWay, Promoting
    <3>2. Writes(s, "finalizing", "promoting", check[s].profile)
      <4> DEFINE row == [rows[s] EXCEPT !.state = "finalizing", !.promo = "promoting",
                                        !.profile = check[s].profile, !.made = check[s].made]
      <4>1. row \in Rows /\ rows' = [rows EXCEPT ![s] = row]
        BY <2>4, <3>1 DEF Rows, RowsTyped, States
      <4>2. /\ row.invite = rows[s].invite /\ row.lapsed = rows[s].lapsed /\ row.phone = rows[s].phone
            /\ row.state = "finalizing" /\ row.promo = "promoting" /\ row.profile = check[s].profile
        BY <3>1 DEF Rows
      <4> HIDE DEF row
      <4> QED BY <4>1, <4>2 DEF Writes
    <3> QED BY <2>1, <2>2, <2>4, <3>1, <3>2, WritesMove
  <2>5. CASE ~Exists(s) /\ left' = left \ {s} /\ UNCHANGED rows
    BY <2>1, <2>2, <2>5, CheckFinds, RestMove
  <2>6. \/ CheckEnds(s) /\ UNCHANGED <<rows, left>>
        \/ /\ check' = [check EXCEPT ![s].at = "installing", ![s].moved = Files(s).session # None] /\ left' = left \ {s}
           /\ rows' = IF Exists(s) THEN [rows EXCEPT ![s].state = "finalizing", ![s].promo = "promoting",
                                                ![s].profile = check[s].profile, ![s].made = check[s].made]
                      ELSE rows
    BY <1>4 DEF Stage
  <2>7. check' = [check EXCEPT ![s].at = "installing", ![s].moved = Files(s).session # None] => check'[s].at = "installing"
    BY DEF CheckTyped, Checks
  <2> QED BY <2>3, <2>4, <2>5, <2>6, <2>7
<1>5. ASSUME Install(s) PROVE CheckMoves(s)
  <2>1. check[s].at = "installing" /\ check[s].at \in Promoting /\ check[s].at # "none"
    BY <1>5 DEF Install, Promoting
  <2>2. CASE Undo(s)
    BY <2>1, <2>2, UndoMoves
  <2>3. CASE /\ rows' = IF Exists(s) THEN [rows EXCEPT ![s].state = "finalizing", ![s].promo = "promoted"] ELSE rows
             /\ CheckAt(s, "validating") /\ UNCHANGED left
    <3>1. CheckTyped' /\ Others(s) /\ GoesOn(s, check[s].at, "validating")
      BY <2>3, AtForm DEF Working
    <3>2. KeepsChat(s) /\ check'[s].at = "validating" /\ check'[s].at \in Promoting
      BY <2>1, <3>1, ChatKept DEF GoesOn, Promoting
    <3>3. CASE Exists(s)
      <4>1. rows[s] \in Rows /\ "finalizing" \in Live /\ "finalizing" \in Live \cup {"completed"}
        BY DEF RowsTyped, Live
      <4>2. Writes(s, "finalizing", "promoted", rows[s].profile)
        <5> DEFINE row == [rows[s] EXCEPT !.state = "finalizing", !.promo = "promoted"]
        <5>1. row \in Rows /\ rows' = [rows EXCEPT ![s] = row]
          BY <2>3, <3>3, <4>1 DEF Rows, RowsTyped, States, HalfWay
        <5>2. /\ row.invite = rows[s].invite /\ row.lapsed = rows[s].lapsed /\ row.phone = rows[s].phone
              /\ row.state = "finalizing" /\ row.promo = "promoted" /\ row.profile = rows[s].profile
          BY <4>1 DEF Rows
        <5> HIDE DEF row
        <5> QED BY <5>1, <5>2 DEF Writes
      <4>3. s \notin left' => rows[s].profile # 0
        BY <2>1, <2>3, <3>3 DEF RowInvs, InstallsNamed
      <4> QED BY <2>1, <2>3, <3>1, <3>2, <3>3, <4>1, <4>2, <4>3, WritesMove
    <3>4. CASE ~Exists(s)
      BY <2>1, <2>3, <3>1, <3>2, <3>4, RestMove
    <3> QED BY <3>3, <3>4
  <2> QED BY <1>5, <2>2, <2>3 DEF Install
<1>6. ASSUME Validate(s) PROVE CheckMoves(s)
  <2>1. check[s].at = "validating" /\ check[s].at \in Promoting /\ check[s].at # "none"
    BY <1>6 DEF Validate, Promoting
  <2>2. CASE Undo(s)
    BY <2>1, <2>2, UndoMoves
  <2>3. CASE CheckAt(s, "settling") /\ UNCHANGED <<rows, left>>
    <3>1. CheckTyped' /\ Others(s) /\ GoesOn(s, check[s].at, "settling")
      BY <2>3, AtForm DEF Working
    <3>2. KeepsChat(s) /\ check'[s].at = "settling" /\ check'[s].at \in Promoting
      BY <2>1, <3>1, ChatKept DEF GoesOn, Promoting
    <3> QED BY <2>1, <2>3, <3>1, <3>2, RestMove
  <2> QED BY <1>6, <2>2, <2>3 DEF Validate, books
<1>7. ASSUME Settle(s) PROVE CheckMoves(s)
  <2>1. check[s].at = "settling" /\ check[s].at \in Promoting /\ check[s].at # "none"
    BY <1>7 DEF Settle, Promoting
  <2>2. CASE Undo(s)
    BY <2>1, <2>2, UndoMoves
  <2>3. CASE MaySettle(s)
    <3>1. /\ CheckAt(s, "discarding") /\ UNCHANGED left /\ Exists(s)
          /\ \/ UNCHANGED rows
             \/ rows' = [rows EXCEPT ![s].state = "completed", ![s].promo = "complete", ![s].profile = check[s].profile]
      BY <1>7, <2>3 DEF Settle, MaySettle, SessionMaySettle
    <3>2. CheckTyped' /\ Others(s) /\ GoesOn(s, check[s].at, "discarding")
      BY <3>1, AtForm DEF Working
    <3>3. KeepsChat(s) /\ check'[s].at = "discarding" /\ check'[s].at \in Promoting
      BY <2>1, <3>2, ChatKept DEF GoesOn, Promoting
    <3>4. CASE UNCHANGED rows
      BY <2>1, <3>1, <3>2, <3>3, <3>4, RestMove
    <3>5. CASE rows' = [rows EXCEPT ![s].state = "completed", ![s].promo = "complete", ![s].profile = check[s].profile]
      BY <2>1, <3>1, <3>2, <3>3, <3>5, CompleteMove
    <3> QED BY <3>1, <3>4, <3>5
  <2> QED BY <1>7, <2>2, <2>3 DEF Settle
<1>8. ASSUME Discard(s) PROVE CheckMoves(s)
  <2>1. check[s].at \in Promoting /\ check[s].at # "none" /\ CheckEnds(s) /\ UNCHANGED left
    BY <1>8 DEF Discard, Promoting
  <2>2. CheckTyped' /\ Others(s) /\ KeepsChat(s) /\ check'[s].at = "none"
    BY <2>1, EndForm, ChatKept, DefaultsTyped DEF Ends
  <2>3. CASE Exists(s)
    <3>1. rows' = [rows EXCEPT ![s].state = "completed", ![s].promo = "complete", ![s].profile = check[s].profile]
      BY <1>8, <2>3 DEF Discard
    <3> QED BY <2>1, <2>2, <2>3, <3>1, CompleteMove
  <2>4. CASE ~Exists(s)
    <3>1. UNCHANGED rows /\ ~HalfPromoted(s)
      BY <1>8, <2>1, <2>4, CheckFinds DEF Discard
    <3> QED BY <2>1, <2>2, <3>1, RestMove
  <2> QED BY <2>3, <2>4
<1> QED BY <1>1, <1>2, <1>3, <1>4, <1>5, <1>6, <1>7, <1>8 DEF CheckStep


\* A step of the check keeps the rows' invariants.
LEMMA CheckKeeps ==
  ASSUME RowsTyped, CheckTyped, RowInvs, NEW s \in Sessions, CheckMoves(s),
         InvitesGo, UNCHANGED <<group, runtime, task, clean>>
  PROVE  RowsTyped' /\ RowInvs'
<1> USE StateNames DEF NamesOfStates
<1>1. PICK row \in Rows : rows' = [rows EXCEPT ![s] = row] /\ CheckRow(s, row)
  BY DEF CheckMoves
<1>2. /\ RowsTyped' /\ rows'[s] = row
      /\ \A t \in Sessions : t # s => rows'[t] = rows[t]
  BY <1>1 DEF RowsTyped
<1>3. /\ Others(s) /\ KeepsChat(s)
      /\ \A t \in Sessions : t # s => (t \in left' <=> t \in left)
  BY DEF CheckMoves
<1>4. \A t \in Sessions : t # s => check'[t].at = check[t].at /\ check'[t].chat = check[t].chat
  BY <1>3, UntouchedIs DEF Others
<1>5. ~Young(s) /\ ~Young(s)'
  BY <1>1, <1>2 DEF CheckRow, Young
<1>6. YoungRows'
  <2>1. ASSUME NEW t \in Sessions, Young(t)' PROVE Young(t) /\ check'[t].at = check[t].at
    <3>1. t # s
      BY <1>5, <2>1
    <3> QED BY <1>2, <1>4, <2>1, <3>1 DEF Young
  <2> QED BY <2>1 DEF RowInvs, YoungRows, Runs
<1>7. ASSUME NEW t \in Sessions, Exists(t)'
      PROVE  Exists(t) /\ rows'[t].invite = rows[t].invite /\ rows'[t].lapsed = rows[t].lapsed /\ rows'[t].phone = rows[t].phone
  <2>1. CASE t = s
    BY <1>1, <1>2, <1>7, <2>1 DEF CheckRow, Exists
  <2>2. CASE t # s
    BY <1>2, <1>7, <2>2 DEF Exists
  <2> QED BY <2>1, <2>2
<1>8. RowsOfInvites'
  BY <1>7 DEF RowInvs, RowsOfInvites, InvitesGo
<1>9. RowsNamed'
  <2>1. ASSUME NEW t \in Sessions, Exists(t)', ~rows'[t].lapsed, rows'[t].state # "created"
        PROVE  rows'[t].phone \in Phones
    <3>1. Exists(t) /\ ~rows[t].lapsed /\ rows'[t].phone = rows[t].phone
      BY <1>7, <2>1
    <3>2. rows[t].state # "created"
      BY <1>2, <1>5, <2>1 DEF Young
    <3> QED BY <3>1, <3>2 DEF RowInvs, RowsNamed
  <2> QED BY <2>1 DEF RowsNamed
<1>10. HalvesAreServed'
  <2>1. ASSUME NEW t \in Sessions, HalfPromoted(t)'
        PROVE  rows'[t].state \in Live /\ (t \notin left' => check'[t].at \in Promoting /\ rows'[t].profile # 0)
    <3>1. CASE t = s
      BY <1>1, <1>2, <2>1, <3>1 DEF CheckRow, HalfPromoted
    <3>2. CASE t # s
      <4>1. rows'[t] = rows[t] /\ check'[t].at = check[t].at /\ (t \in left' <=> t \in left) /\ HalfPromoted(t)
        BY <1>2, <1>3, <1>4, <2>1, <3>2 DEF HalfPromoted
      <4> QED BY <4>1 DEF RowInvs, HalvesAreServed
    <3> QED BY <3>1, <3>2
  <2> QED BY <2>1 DEF HalvesAreServed
<1>11. InstallsNamed'
  <2>1. ASSUME NEW t \in Sessions, t \notin left', check'[t].at = "installing", Exists(t)'
        PROVE  rows'[t].profile # 0
    <3>1. CASE t = s
      BY <1>1, <1>2, <1>7, <2>1, <3>1 DEF CheckRow
    <3>2. CASE t # s
      <4>1. rows'[t] = rows[t] /\ check[t].at = "installing" /\ t \notin left /\ Exists(t)
        BY <1>2, <1>3, <1>4, <1>7, <2>1, <3>2
      <4> QED BY <4>1 DEF RowInvs, InstallsNamed
    <3> QED BY <3>1, <3>2
  <2> QED BY <2>1 DEF InstallsNamed
<1>12. ChecksAreOfNow'
  <2>1. ASSUME NEW t \in Sessions, check'[t].at # "none", Exists(t)', invites'[rows'[t].invite].state = "active"
        PROVE  check'[t].chat = group'.chat
    <3>1. Exists(t) /\ rows'[t].invite = rows[t].invite
      BY <1>7, <2>1
    <3>2. invites[rows[t].invite].state = "active" /\ group'.chat = group.chat
      BY <2>1, <3>1 DEF RowInvs, RowsOfInvites, InvitesGo
    <3>3. check[t].at # "none" => check[t].chat = group.chat
      BY <3>1, <3>2 DEF RowInvs, ChecksAreOfNow
    <3>4. CASE t = s
      BY <1>3, <2>1, <3>2, <3>3, <3>4 DEF KeepsChat
    <3>5. CASE t # s
      BY <1>4, <2>1, <3>2, <3>3, <3>5
    <3> QED BY <3>4, <3>5
  <2> QED BY <2>1 DEF ChecksAreOfNow
<1> QED BY <1>2, <1>6, <1>8, <1>9, <1>10, <1>11, <1>12 DEF RowInvs

\* What it makes of the temporary session.
LEMMA CheckFiles ==
  ASSUME SignInTyped, NEW s \in Sessions, CheckStep(s)
  PROVE  temp' \in [Sessions -> Temps]
<1>0. temp[s] \in Temps /\ temp \in [Sessions -> Temps]
  BY DEF SignInTyped
<1>1. ASSUME NEW plain \in Tokens, Keeps(s, plain) PROVE temp' \in [Sessions -> Temps]
  <2>1. [temp[s] EXCEPT !.plain = plain] \in Temps /\ temp' = [temp EXCEPT ![s] = [temp[s] EXCEPT !.plain = plain]]
    BY <1>0, <1>1 DEF Keeps, Temps
  <2> QED BY <1>0, <2>1
<1>2. Reseal(s) => temp' \in [Sessions -> Temps]
  <2> DEFINE sealed == IF temp[s].plain = None THEN temp[s].sealed ELSE temp[s].plain
             seal == [temp[s] EXCEPT !.plain = None, !.sealed = sealed]
  <2>1. sealed \in Tokens /\ None \in Tokens
    BY <1>0 DEF Temps, Tokens
  <2> HIDE DEF sealed
  <2>2. seal \in Temps
    BY <1>0, <2>1 DEF Temps
  <2>3. Reseal(s) => temp' = [temp EXCEPT ![s] = seal]
    BY <1>0 DEF Reseal, sealed, Temps
  <2> HIDE DEF seal
  <2> QED BY <1>0, <2>2, <2>3
<1>3. CASE BeginCheck(s)
  <2>1. temp[s].sealed \in Tokens /\ Keeps(s, temp[s].sealed)
    BY <1>0, <1>3 DEF BeginCheck, Temps
  <2> QED BY <1>1, <2>1
<1>4. CASE Connect(s)
  <2>1. Keeps(s, Blank) \/ UNCHANGED temp
    BY <1>4 DEF Connect
  <2>2. Blank \in Tokens
    BY DEF Tokens
  <2> QED BY <1>0, <1>1, <2>1, <2>2
<1>5. CASE NotProved(s) \/ Proved(s)
  BY <1>2, <1>5 DEF NotProved, Proved
<1>6. CASE Stage(s) \/ Install(s) \/ Validate(s) \/ Settle(s) \/ Discard(s)
  BY <1>0, <1>6 DEF Stage, Install, Validate, Settle, Discard, signIn
<1> QED BY <1>3, <1>4, <1>5, <1>6 DEF CheckStep

--------------------------------------------------------------------------------
(* Who works on which profile *)

\* A check that is at work after a step was so before, about the same profile;
\* what it relies on has not changed unless it has been crossed, and it has come
\* to promote only when no other does under its lock.
Goes(t) ==
    AtWork(t)' =>
        /\ AtWork(t) /\ check'[t].phone = check[t].phone /\ check'[t].user = check[t].user
        /\ check'[t].profile = check[t].profile /\ check'[t].lock = check[t].lock
        /\ check[t].crossed => check'[t].crossed
        /\ ~check'[t].crossed => /\ profiles'[check[t].phone].id = profiles[check[t].phone].id
                                 /\ locks'[check[t].profile] = locks[check[t].profile]
        /\ check'[t].at \in Promoting /\ check[t].at \notin Promoting
              => /\ ~Held(check[t].profile, check[t].lock)
                 /\ \A u \in Sessions \ {t} : check'[u].at \in Promoting => check[u].at \in Promoting
        /\ check'[t].at = "settling" /\ ~check'[t].crossed => store'[check[t].profile].session = check[t].user

LEMMA PromotingIsWork == /\ Promoting \subseteq Working /\ "none" \notin Working
                         /\ "settling" \in Promoting /\ {"proving", "connected", "refused"} \cap Working = {}
BY DEF Promoting, Working

LEMMA WorkKeeps ==
  ASSUME WorkInvs, ProfilesTyped', FilesTyped', CheckTyped', ChecksNamed', IdsApart', \A t \in Sessions : Goes(t)
  PROVE  WorkInvs'
<1>1. ASSUME NEW t \in Sessions, AtWork(t)'
      PROVE  /\ AtWork(t) /\ check'[t].phone = check[t].phone /\ check'[t].user = check[t].user
             /\ check'[t].profile = check[t].profile /\ check'[t].lock = check[t].lock
             /\ check[t].crossed => check'[t].crossed
             /\ ~check'[t].crossed => /\ profiles'[check[t].phone].id = profiles[check[t].phone].id
                                      /\ locks'[check[t].profile] = locks[check[t].profile]
             /\ check'[t].at = "settling" /\ ~check'[t].crossed => store'[check[t].profile].session = check[t].user
  BY <1>1 DEF Goes
<1>2. WorksOnItsOwn'
  <2>1. ASSUME NEW s \in Sessions, AtWork(s)'
        PROVE  check'[s].profile \in Ids
    BY <1>1, <2>1 DEF WorkInvs, WorksOnItsOwn
  <2>2. ASSUME NEW s \in Sessions, AtWork(s)', ~check'[s].crossed
        PROVE  /\ profiles'[check'[s].phone].id = check'[s].profile
               /\ \A t \in Sessions : AtWork(t)' /\ check'[t].profile = check'[s].profile
                                          => check'[t].lock = locks'[check'[s].profile]
    <3>1. AtWork(s) /\ ~check[s].crossed /\ check'[s].profile = check[s].profile
      BY <1>1, <2>2
    <3>2. profiles'[check'[s].phone].id = check'[s].profile
      BY <1>1, <2>2, <3>1 DEF WorkInvs, WorksOnItsOwn
    <3>3. ASSUME NEW t \in Sessions, AtWork(t)', check'[t].profile = check'[s].profile
          PROVE  check'[t].lock = locks'[check'[s].profile]
      <4>1. AtWork(t) /\ check[t].profile = check[s].profile /\ check'[t].lock = check[t].lock
        BY <1>1, <3>1, <3>3
      <4>2. check[t].lock = locks[check[s].profile]
        BY <3>1, <4>1 DEF WorkInvs, WorksOnItsOwn
      <4>3. locks'[check[s].profile] = locks[check[s].profile]
        BY <1>1, <2>2
      <4> QED BY <3>1, <4>1, <4>2, <4>3
    <3> QED BY <3>2, <3>3
  <2> QED BY <2>1, <2>2 DEF WorksOnItsOwn
<1>3. OneHolder'
  <2>1. ASSUME NEW s \in Sessions, NEW t \in Sessions, s # t,
               check'[s].at \in Promoting, check'[t].at \in Promoting,
               check[s].at \notin Promoting,
               check'[s].profile = check'[t].profile, check'[s].lock = check'[t].lock
        PROVE  FALSE
    <3>1. AtWork(s)' /\ AtWork(t)'
      BY <2>1, PromotingIsWork DEF AtWork
    <3>2. ~Held(check[s].profile, check[s].lock) /\ check[t].at \in Promoting
      BY <2>1, <3>1 DEF Goes
    <3>3. check[t].profile = check[s].profile /\ check[t].lock = check[s].lock
      BY <1>1, <2>1, <3>1
    <3> QED BY <3>2, <3>3 DEF Held
  <2>2. ASSUME NEW s \in Sessions, NEW t \in Sessions, s # t,
               check'[s].at \in Promoting, check'[t].at \in Promoting,
               check'[s].profile = check'[t].profile, check'[s].lock = check'[t].lock
        PROVE  FALSE
    <3>1. check[s].at \in Promoting /\ check[t].at \in Promoting
      BY <2>1, <2>2
    <3>2. AtWork(s)' /\ AtWork(t)'
      BY <2>2, PromotingIsWork DEF AtWork
    <3>3. check[t].profile = check[s].profile /\ check[t].lock = check[s].lock
      BY <1>1, <2>2, <3>2
    <3> QED BY <2>2, <3>1, <3>3 DEF WorkInvs, OneHolder
  <2> QED BY <2>2 DEF OneHolder
<1>4. ValidatedStays'
  <2>1. \A s \in Sessions : check'[s].at = "settling" => AtWork(s)'
    BY PromotingIsWork DEF AtWork
  <2> QED BY <1>1, <2>1 DEF ValidatedStays
<1> QED BY <1>2, <1>3, <1>4 DEF WorkInvs

\* A check to which nothing else happens goes, if the step leaves alone what it
\* relies on.
LEMMA OtherGoes ==
  ASSUME WorkInvs, NEW t \in Sessions, Untouched(t),
         AtWork(t) /\ ~check'[t].crossed =>
            /\ profiles'[check[t].phone].id = profiles[check[t].phone].id
            /\ locks'[check[t].profile] = locks[check[t].profile]
            /\ check[t].at = "settling" => store'[check[t].profile].session = store[check[t].profile].session
  PROVE  Goes(t) /\ (check'[t].phone \in Phones <=> check'[t].at # "none")
<1>1. /\ check'[t].at = check[t].at /\ check'[t].phone = check[t].phone
      /\ check'[t].profile = check[t].profile /\ check'[t].lock = check[t].lock
      /\ check'[t].user = check[t].user /\ (check[t].crossed => check'[t].crossed)
  BY UntouchedIs DEF WorkInvs
<1>2. check'[t].at = "settling" /\ ~check'[t].crossed => store'[check[t].profile].session = check[t].user
  BY <1>1, PromotingIsWork DEF WorkInvs, ValidatedStays, AtWork
<1>3. Goes(t)
  BY <1>1, <1>2 DEF Goes, AtWork
<1> QED BY <1>1, <1>3 DEF WorkInvs, ChecksNamed

\* A validated session's profile is nobody else's who works under a lock.
LEMMA SoleHolder ==
  ASSUME WorkInvs, NEW s \in Sessions, NEW t \in Sessions, s # t, AtWork(s),
         check[t].at = "settling", ~check[t].crossed,
         check[s].at \in Promoting \/ ~Held(check[s].profile, check[s].lock)
  PROVE  check[t].profile # check[s].profile
<1> SUFFICES ASSUME check[t].profile = check[s].profile PROVE FALSE
  OBVIOUS
<1>1. AtWork(t) /\ check[t].at \in Promoting
  BY PromotingIsWork DEF AtWork
<1>2. check[s].lock = locks[check[t].profile] /\ check[t].lock = locks[check[t].profile]
  BY <1>1 DEF WorkInvs, WorksOnItsOwn
<1>3. check[s].lock = check[t].lock /\ Held(check[s].profile, check[s].lock)
  BY <1>1, <1>2 DEF Held
<1> QED BY <1>1, <1>3 DEF WorkInvs, OneHolder

\* Profiles that keep their ids, or go.
LEMMA ProfilesStay ==
  ASSUME IdsApart, profiles' \in [Phones -> Profiles],
         \A p \in Phones : \/ profiles'[p] = NoProfile
                           \/ profiles'[p].id = profiles[p].id /\ (profiles'[p].status = None => profiles[p].status = None)
  PROVE  ProfilesTyped' /\ IdsApart'
<1>1. \A p \in Phones : profiles'[p].id \in {0, profiles[p].id}
  BY DefaultsTyped
<1>2. \A p \in Phones : profiles'[p].status = None => profiles'[p].id = 0
  BY DefaultsTyped DEF IdsApart
<1>3. \A p, q \in Phones : profiles'[p].id = profiles'[q].id /\ profiles'[p].id # 0 => p = q
  BY <1>1 DEF IdsApart
<1> QED BY <1>2, <1>3 DEF ProfilesTyped, IdsApart

\* A step that leaves the profiles and their files alone.
LEMMA RestKeeps ==
  ASSUME WorkInvs, UNCHANGED <<profiles, files, check>> PROVE WorkInvs'
BY DEF WorkInvs, ProfilesTyped, FilesTyped, CheckTyped, ChecksNamed, IdsApart, WorksOnItsOwn, AtWork, OneHolder,
       ValidatedStays, files

\* A check that has ended, or is not yet at work, goes.
LEMMA IdleGoes ==
  ASSUME NEW t \in Sessions, check'[t].at \notin Working PROVE Goes(t)
BY DEF Goes, AtWork

LEMMA OwnerKeeps ==
  ASSUME WorkInvs, OwnerStep PROVE WorkInvs'
<1> USE StateNames DEF NamesOfStates
<1>0. ProfilesTyped /\ FilesTyped /\ CheckTyped /\ IdsApart
  BY DEF WorkInvs
<1>1. ASSUME NEW p \in Phones, NEW new \in Profiles, profiles' = [profiles EXCEPT ![p] = new],
             new = NoProfile \/ (new.id = profiles[p].id /\ (new.status = None => profiles[p].status = None))
      PROVE  ProfilesTyped' /\ IdsApart'
  <2>1. profiles' \in [Phones -> Profiles]
    BY <1>0, <1>1 DEF ProfilesTyped
  <2>2. ASSUME NEW q \in Phones
        PROVE  \/ profiles'[q] = NoProfile
               \/ profiles'[q].id = profiles[q].id /\ (profiles'[q].status = None => profiles[q].status = None)
    BY <1>0, <1>1 DEF ProfilesTyped
  <2> QED BY <1>0, <2>1, <2>2, ProfilesStay
<1>2. ASSUME NEW p \in Phones, NEW new \in Profiles, profiles' = [profiles EXCEPT ![p] = new],
             new = NoProfile \/ (new.id = profiles[p].id /\ (new.status = None => profiles[p].status = None)),
             TakeAway(profiles[p].id)
      PROVE  WorkInvs'
  <2> DEFINE x == profiles[p].id
  <2>1. ProfilesTyped' /\ IdsApart'
    BY <1>1, <1>2
  <2>2. FilesTyped'
    <3>1. store' = [store EXCEPT ![x] = NoFiles] /\ locks' = [locks EXCEPT ![x] = locks[x] + 1]
      BY <1>2 DEF TakeAway
    <3> HIDE DEF x
    <3>2. store' \in [Ids -> Pairs]
      BY <1>0, <3>1, DefaultsTyped DEF FilesTyped
    <3>3. locks' \in [Ids -> Nat]
      <4>1. locks \in [Ids -> Nat] /\ \A i \in Ids : locks[i] + 1 \in Nat
        BY <1>0 DEF FilesTyped
      <4> QED BY <3>1, <4>1
    <3> QED BY <3>2, <3>3 DEF FilesTyped
  <2>3. check' = Crossed(x, None) /\ \A i \in Ids : i # x => store'[i] = store[i] /\ locks'[i] = locks[i]
    BY <1>0, <1>2 DEF TakeAway, FilesTyped
  <2>4. CheckTyped' /\ \A t \in Sessions : /\ Untouched(t)
                                           /\ AtWork(t) /\ check[t].profile = x => check'[t].crossed
    <3>1. None \notin Sessions
      BY OnboardingAssumption
    <3>2. /\ Crossed(x, None) \in [Sessions -> Checks]
          /\ \A t \in Sessions :
               /\ \E b \in BOOLEAN : Crossed(x, None)[t] = [check[t] EXCEPT !.crossed = b] /\ (check[t].crossed => b)
               /\ t # None /\ AtWork(t) /\ check[t].profile = x => Crossed(x, None)[t].crossed
      BY <1>0, CrossedTyped
    <3> HIDE DEF x
    <3>3. CheckTyped'
      BY <2>3, <3>2 DEF CheckTyped
    <3> QED BY <2>3, <3>1, <3>2, <3>3 DEF Untouched
  <2>5. ASSUME NEW t \in Sessions PROVE Goes(t) /\ (check'[t].phone \in Phones <=> check'[t].at # "none")
    <3>1. ASSUME AtWork(t), ~check'[t].crossed
          PROVE  /\ profiles'[check[t].phone].id = profiles[check[t].phone].id
                 /\ locks'[check[t].profile] = locks[check[t].profile]
                 /\ store'[check[t].profile].session = store[check[t].profile].session
      <4>1. check[t].profile # x /\ check[t].profile \in Ids /\ ~check[t].crossed
        BY <2>4, <3>1, UntouchedIs, <1>0 DEF WorkInvs, WorksOnItsOwn
      <4>2. profiles[check[t].phone].id = check[t].profile
        BY <3>1, <4>1 DEF WorkInvs, WorksOnItsOwn
      <4>3. check[t].phone # p
        BY <4>1, <4>2
      <4>4. profiles'[check[t].phone] = profiles[check[t].phone]
        BY <1>0, <1>2, <4>3 DEF ProfilesTyped
      <4> QED BY <2>3, <4>1, <4>4
    <3> QED BY <2>4, <3>1, OtherGoes
  <2>6. ChecksNamed'
    BY <2>5 DEF ChecksNamed
  <2> QED BY <2>1, <2>2, <2>4, <2>5, <2>6, WorkKeeps
<1>3. ASSUME NEW p \in Phones, NEW new \in Profiles, profiles' = [profiles EXCEPT ![p] = new],
             new.id = profiles[p].id, new.status = None => profiles[p].status = None,
             UNCHANGED <<files, check>>
      PROVE  WorkInvs'
  <2>1. ProfilesTyped' /\ IdsApart'
    BY <1>1, <1>3
  <2>2. FilesTyped' /\ CheckTyped' /\ ChecksNamed'
    BY <1>3 DEF WorkInvs, FilesTyped, CheckTyped, ChecksNamed, files
  <2>3. \A q : profiles'[q].id = profiles[q].id
    BY <1>0, <1>3 DEF ProfilesTyped
  <2>4. ASSUME NEW t \in Sessions PROVE Goes(t)
    BY <1>0, <1>3, <2>3, OtherGoes, UnchangedIsUntouched DEF files
  <2> QED BY <2>1, <2>2, <2>4, WorkKeeps
<1>4. ASSUME NEW p \in Phones, DisableProfile(p) PROVE WorkInvs'
  <2> DEFINE new == [profiles[p] EXCEPT !.status = "disabled"]
  <2>1. new \in Profiles /\ new.id = profiles[p].id /\ new.status # None
    BY <1>0 DEF ProfilesTyped, Profiles
  <2>2. profiles' = [profiles EXCEPT ![p] = new] /\ UNCHANGED <<files, check>>
    BY <1>4 DEF DisableProfile
  <2> HIDE DEF new
  <2> QED BY <1>3, <2>1, <2>2
<1>5. ASSUME NEW p \in Phones, ChangeProfile(p) PROVE WorkInvs'
  <2>1. CASE RemoveProfile(p)
    <3> DEFINE new == [profiles[p] EXCEPT !.linked = FALSE]
    <3>1. new \in Profiles /\ new.id = profiles[p].id /\ new.status = profiles[p].status
      BY <1>0 DEF ProfilesTyped, Profiles
    <3>2. \/ profiles' = [profiles EXCEPT ![p] = new] /\ UNCHANGED <<files, check>>
          \/ /\ TakeAway(profiles[p].id)
             /\ profiles' = [profiles EXCEPT ![p] = new] \/ profiles' = [profiles EXCEPT ![p] = NoProfile]
      BY <2>1 DEF RemoveProfile
    <3> HIDE DEF new
    <3> QED BY <1>2, <1>3, <3>1, <3>2, DefaultsTyped
  <2>2. CASE DeleteSession(p)
    <3> DEFINE new == [profiles[p] EXCEPT !.status = "pending"]
    <3>1. new \in Profiles /\ new.id = profiles[p].id /\ new.status # None
      BY <1>0 DEF ProfilesTyped, Profiles
    <3>2. TakeAway(profiles[p].id) /\ profiles' = [profiles EXCEPT ![p] = new]
      BY <2>2 DEF DeleteSession
    <3> HIDE DEF new
    <3> QED BY <1>2, <3>1, <3>2
  <2> QED BY <1>5, <2>1, <2>2 DEF ChangeProfile
<1>6. CreateInvite \/ RevokeInvite \/ ChangeGroup \/ (\E s \in Sessions : Lapse(s)) => UNCHANGED <<profiles, files, check>>
  BY DEF CreateInvite, RevokeInvite, ChangeGroup, Lapse, books
<1> QED BY <1>4, <1>5, <1>6, RestKeeps DEF OwnerStep

LEMMA CleanKeeps ==
  ASSUME WorkInvs, SignInTyped, CleanStep PROVE WorkInvs'
<1> USE StateNames DEF NamesOfStates
<1>0. ProfilesTyped /\ FilesTyped /\ CheckTyped /\ IdsApart
  BY DEF WorkInvs
<1>1. CASE CleanupReads \/ Pruned \/ \E s \in Sessions : Prune(s)
  <2>1. UNCHANGED <<profiles, files, check>>
    BY <1>1 DEF CleanupReads, Pruned, Prune, books
  <2> QED BY <2>1, RestKeeps
<1>2. ASSUME NEW read, Recover(read) PROVE ProfilesTyped' /\ IdsApart'
  <2>1. profiles' = [p \in Phones |->
            IF ~profiles[p].linked /\ profiles[p].id \in Made(read) THEN NoProfile ELSE profiles[p]]
    BY <1>2 DEF Recover
  <2>2. profiles' \in [Phones -> Profiles]
    BY <1>0, <2>1, DefaultsTyped DEF ProfilesTyped
  <2> QED BY <1>0, <2>1, <2>2, ProfilesStay
<1>3. CASE CleanupWrites
  <2>1. CheckTyped' /\ \A t \in Sessions : /\ Untouched(t)
                                           /\ AtWork(t) /\ Halves(clean.rows, check[t].profile) # {} => check'[t].crossed
    <3>1. \A t \in Sessions : /\ Untouched(t)
                              /\ AtWork(t) /\ Halves(clean.rows, check[t].profile) # {} => check'[t].crossed
      BY <1>0, <1>3, CleanupCrosses
    <3>2. check' = [t \in Sessions |-> check'[t]]
      BY <1>3 DEF CleanupWrites
    <3> QED BY <1>0, <3>1, <3>2, UntouchedIs DEF CheckTyped
  <2>2. PICK done : RecoverFiles(clean.rows, done)
    BY <1>3 DEF CleanupWrites, Recover, RecoveryFails
  <2>3. store' \in [Ids -> Pairs] /\ UNCHANGED locks /\ \A x \in Ids : Halves(clean.rows, x) = {} => store'[x] = store[x]
    BY <1>0, <1>3, <2>2, RecoveredFiles DEF CleanupWrites
  <2>4. FilesTyped'
    BY <1>0, <2>3 DEF FilesTyped
  <2>5. UNCHANGED profiles \/ Recover(clean.rows)
    BY <1>3 DEF CleanupWrites, RecoveryFails
  <2>6. ProfilesTyped' /\ IdsApart'
    BY <1>0, <1>2, <2>5 DEF ProfilesTyped, IdsApart
  <2>7. ASSUME NEW t \in Sessions PROVE Goes(t) /\ (check'[t].phone \in Phones <=> check'[t].at # "none")
    <3>1. ASSUME AtWork(t), ~check'[t].crossed
          PROVE  /\ profiles'[check[t].phone].id = profiles[check[t].phone].id
                 /\ store'[check[t].profile].session = store[check[t].profile].session
      <4>1. Halves(clean.rows, check[t].profile) = {} /\ check[t].profile \in Ids /\ ~check[t].crossed
        BY <1>0, <2>1, <3>1, UntouchedIs DEF WorkInvs, WorksOnItsOwn
      <4>2. profiles[check[t].phone].id = check[t].profile /\ check[t].phone \in Phones
        BY <3>1, <4>1, PromotingIsWork DEF WorkInvs, WorksOnItsOwn, ChecksNamed, AtWork
      <4>3. check[t].profile \notin Made(clean.rows)
        BY <4>1 DEF Made
      <4>4. profiles'[check[t].phone] = profiles[check[t].phone]
        BY <2>5, <4>2, <4>3 DEF Recover
      <4> QED BY <2>3, <4>1, <4>4
    <3> QED BY <2>1, <2>3, <3>1, OtherGoes
  <2>8. ChecksNamed'
    BY <2>7 DEF ChecksNamed
  <2> QED BY <2>1, <2>4, <2>6, <2>7, <2>8, WorkKeeps
<1>4. CASE Restart
  <2>1. /\ Recover(rows) /\ check' = [s \in Sessions |-> NoCheck]
        /\ locks' = [i \in Ids |-> 0]
    BY <1>4 DEF Restart
  <2>2. store' \in [Ids -> Pairs]
    BY <1>0, <2>1, RecoveredFiles DEF Recover
  <2>3. FilesTyped' /\ CheckTyped' /\ ChecksNamed'
    BY <2>1, <2>2, DefaultsTyped DEF FilesTyped, CheckTyped, ChecksNamed
  <2>4. \A t \in Sessions : Goes(t)
    BY <2>1, DefaultsTyped, PromotingIsWork, IdleGoes
  <2> QED BY <1>2, <2>1, <2>3, <2>4, WorkKeeps
<1> QED BY <1>1, <1>3, <1>4 DEF CleanStep

\* A check's step, when the others keep what they rely on and it goes itself.
LEMMA StepKeeps ==
  ASSUME WorkInvs, NEW s \in Sessions, ProfilesTyped', FilesTyped', CheckTyped', IdsApart', Others(s),
         Goes(s), check'[s].phone \in Phones <=> check'[s].at # "none",
         \A t \in Sessions \ {s} : AtWork(t) /\ ~check'[t].crossed =>
            /\ profiles'[check[t].phone].id = profiles[check[t].phone].id
            /\ locks'[check[t].profile] = locks[check[t].profile]
            /\ check[t].at = "settling" => store'[check[t].profile].session = store[check[t].profile].session
  PROVE  WorkInvs'
<1>1. ASSUME NEW t \in Sessions PROVE Goes(t) /\ (check'[t].phone \in Phones <=> check'[t].at # "none")
  <2>1. CASE t = s
    BY <2>1
  <2>2. CASE t # s
    BY <2>2, OtherGoes DEF Others
  <2> QED BY <2>1, <2>2
<1>2. ChecksNamed'
  BY <1>1 DEF ChecksNamed
<1> QED BY <1>1, <1>2, WorkKeeps

\* A step of a check that is not at work yet, or ends, and changes nothing but itself.
LEMMA NetworkKeeps ==
  ASSUME WorkInvs, NEW s \in Sessions, CheckTyped', Others(s), UNCHANGED <<profiles, files>>,
         check'[s].at \notin Working, check'[s].phone \in Phones <=> check'[s].at # "none"
  PROVE  WorkInvs'
<1>1. ProfilesTyped' /\ FilesTyped' /\ IdsApart'
  BY DEF WorkInvs, ProfilesTyped, FilesTyped, IdsApart, files
<1>2. Goes(s)
  BY IdleGoes
<1> QED BY <1>1, <1>2, StepKeeps DEF files

\* The check's files change, and no other validated session's.
LEMMA StoreKeeps ==
  ASSUME WorkInvs, NEW s \in Sessions, CheckTyped', Others(s), UNCHANGED locks, AtWork(s),
         check[s].at \in Promoting \/ ~Held(check[s].profile, check[s].lock),
         NEW pair \in Pairs, store' \in {store, [store EXCEPT ![check[s].profile] = pair]},
         ProfilesTyped', IdsApart',
         \A t \in Sessions \ {s} : AtWork(t) /\ ~check'[t].crossed =>
              profiles'[check[t].phone].id = profiles[check[t].phone].id,
         Goes(s), check'[s].phone \in Phones <=> check'[s].at # "none"
  PROVE  WorkInvs'
<1>1. FilesTyped'
  BY DEF WorkInvs, FilesTyped
<1>2. ASSUME NEW t \in Sessions \ {s}, AtWork(t), ~check'[t].crossed, check[t].at = "settling"
      PROVE  store'[check[t].profile].session = store[check[t].profile].session
  <2>1. ~check[t].crossed /\ check[t].profile \in Ids
    BY <1>2, UntouchedIs DEF Others, WorkInvs, WorksOnItsOwn
  <2>2. check[t].profile # check[s].profile
    BY <1>2, <2>1, SoleHolder
  <2> QED BY <2>1, <2>2 DEF WorkInvs, FilesTyped
<1> QED BY <1>1, <1>2, StepKeeps

LEMMA PairsOf ==
  ASSUME WorkInvs, NEW s \in Sessions, AtWork(s), NEW session \in Tokens, NEW aside \in Tokens
  PROVE  /\ Files(s) \in Pairs /\ Files(s).session \in Tokens /\ Files(s).aside \in Tokens /\ None \in Tokens
         /\ \E pair \in Pairs : /\ pair.session = session
                                /\ Holds(s, session, aside) => store' = [store EXCEPT ![check[s].profile] = pair]
<1>1. Files(s) \in Pairs /\ None \in Tokens
  BY DEF WorkInvs, WorksOnItsOwn, FilesTyped, Files, Tokens
<1>2. [session |-> session, aside |-> aside] \in Pairs
  BY DEF Pairs
<1> QED BY <1>1, <1>2 DEF Pairs, Holds

LEMMA UndoKeeps ==
  ASSUME WorkInvs, NEW s \in Sessions, check[s].at \in Promoting, Undo(s), UNCHANGED locks PROVE WorkInvs'
<1> DEFINE x == check[s].profile
<1>1. CheckTyped' /\ Others(s) /\ check'[s] = NoCheck /\ AtWork(s)
  BY UndoForm, PromotingIsWork DEF Ends, WorkInvs, AtWork
<1>2. Goes(s) /\ (check'[s].phone \in Phones <=> check'[s].at # "none")
  BY <1>1, DefaultsTyped, StateNames, PromotingIsWork, IdleGoes DEF NamesOfStates
<1>3. PICK pair \in Pairs : store' \in {store, [store EXCEPT ![check[s].profile] = pair]}
  <2>1. UNCHANGED store \/ Holds(s, Files(s).aside, None)
    BY DEF Undo, PutBack
  <2>2. Files(s) \in Pairs /\ Files(s).aside \in Tokens /\ None \in Tokens
    BY <1>1, PairsOf DEF Tokens
  <2> QED BY <1>1, <2>1, <2>2, PairsOf
<1>4. CASE UNCHANGED profiles
  <2>1. ProfilesTyped' /\ IdsApart'
    BY <1>4 DEF WorkInvs, ProfilesTyped, IdsApart
  <2> QED BY <1>1, <1>2, <1>3, <1>4, <2>1, StoreKeeps
<1>5. CASE profiles' = Without(x) /\ check' = [Crossed(x, s) EXCEPT ![s] = NoCheck]
  <2>1. profiles' \in [Phones -> Profiles]
    BY <1>5, DefaultsTyped DEF Without, WorkInvs, ProfilesTyped
  <2>2. \A p \in Phones : profiles'[p] = IF p \in Loose(x) THEN NoProfile ELSE profiles[p]
    BY <1>5 DEF Without
  <2>3. ProfilesTyped' /\ IdsApart'
    BY <2>1, <2>2, ProfilesStay DEF WorkInvs
  <2>4. ASSUME NEW t \in Sessions \ {s}, AtWork(t), ~check'[t].crossed
        PROVE  profiles'[check[t].phone].id = profiles[check[t].phone].id
    <3>1. check'[t] = Crossed(x, s)[t]
      BY <1>5, CrossedTyped DEF WorkInvs
    <3>2. check[t].profile # x
      BY <2>4, <3>1, CrossedTyped DEF WorkInvs
    <3>3. ~check[t].crossed /\ check[t].phone \in Phones
      BY <1>1, <2>4, UntouchedIs, PromotingIsWork DEF Others, WorkInvs, ChecksNamed, AtWork
    <3>4. profiles[check[t].phone].id = check[t].profile
      BY <2>4, <3>3 DEF WorkInvs, WorksOnItsOwn
    <3>5. check[t].phone \notin Loose(x)
      BY <3>2, <3>4 DEF Loose
    <3> QED BY <2>2, <3>3, <3>5
  <2> QED BY <1>1, <1>2, <1>3, <2>3, <2>4, StoreKeeps
<1>6. UNCHANGED profiles \/ (profiles' = Without(x) /\ check' = [Crossed(x, s) EXCEPT ![s] = NoCheck])
  BY DEF Undo
<1> QED BY <1>4, <1>5, <1>6

\* It goes on about the same profile.
LEMMA OnGoes ==
  ASSUME WorkInvs, NEW s \in Sessions, NEW to \in Working, GoesOn(s, check[s].at, to), AtWork(s),
         profiles'[check[s].phone].id = profiles[check[s].phone].id, UNCHANGED locks, Others(s),
         to \in Promoting /\ check[s].at \notin Promoting => ~Held(check[s].profile, check[s].lock),
         to = "settling" => store'[check[s].profile].session = check[s].user
  PROVE  Goes(s) /\ (check'[s].phone \in Phones <=> check'[s].at # "none")
<1>1. \A u \in Sessions \ {s} : check'[u].at = check[u].at
  BY UntouchedIs DEF Others, WorkInvs
<1>2. Goes(s)
  BY <1>1 DEF Goes, GoesOn
<1> QED BY <1>2, PromotingIsWork DEF GoesOn, AtWork, WorkInvs, ChecksNamed

\* A check that enters, with a new profile or the one of its phone.
LEMMA EnterKeeps ==
  ASSUME WorkInvs, NEW s \in Sessions, Proved(s), ~CheckEnds(s) PROVE WorkInvs'
<1> USE StateNames DEF NamesOfStates
<1> DEFINE p == check[s].phone
<1>0. ProfilesTyped /\ FilesTyped /\ CheckTyped /\ IdsApart /\ ChecksNamed /\ UNCHANGED <<store, locks>>
  BY DEF WorkInvs, Proved, files
<1>1. PICK x \in Ids, at \in {"entering", "waiting"} :
        /\ profiles[p].status = None => NewId(x)
        /\ profiles[p].status # None => profiles[p].id = x /\ UNCHANGED profiles
        /\ profiles[p].status = None =>
              profiles' = [profiles EXCEPT ![p] = [NoProfile EXCEPT !.status = "pending", !.id = x]]
        /\ check'[s].at = at /\ check'[s].profile = x /\ check'[s].lock = locks[x] /\ check'[s].phone = p
        /\ check'[s].crossed = Stale(x)
  <2>1. PICK x \in Ids, at \in {"entering", "waiting"} :
        /\ profiles[p].status = None => NewId(x)
        /\ profiles[p].status # None => profiles[p].id = x /\ UNCHANGED profiles
        /\ profiles[p].status = None =>
              profiles' = [profiles EXCEPT ![p] = [NoProfile EXCEPT !.status = "pending", !.id = x]]
        /\ check' = [check EXCEPT ![s] = [check[s] EXCEPT !.at = at, !.profile = x, !.lock = locks[x],
                                               !.made = (profiles[p].status = None), !.crossed = Stale(x)]]
    BY DEF Proved
  <2>2. check[s] \in Checks
    BY <1>0 DEF CheckTyped
  <2> QED BY <1>0, <2>1, <2>2 DEF CheckTyped, Checks
<1>2. check[s].at = "connected" /\ p \in Phones
  BY <1>0 DEF Proved, ChecksNamed
<1>3. CheckTyped' /\ Others(s)
  BY <1>0, ProvedForm
<1>4. FilesTyped'
  BY <1>0 DEF FilesTyped
<1>5. ProfilesTyped' /\ IdsApart' /\ profiles'[p].id = x
      /\ \A q \in Phones : profiles[q].id # 0 => profiles'[q].id = profiles[q].id
  <2>1. CASE profiles[p].status # None
    BY <1>0, <1>1, <2>1 DEF ProfilesTyped, IdsApart
  <2>2. CASE profiles[p].status = None
    <3> DEFINE new == [NoProfile EXCEPT !.status = "pending", !.id = x]
    <3>1. new \in Profiles /\ new.id = x /\ new.status # None
      BY DEF NoProfile, Profiles, IdOrNone
    <3>2. profiles' = [profiles EXCEPT ![p] = new]
      BY <1>1, <2>2
    <3> HIDE DEF new
    <3>3. profiles' \in [Phones -> Profiles] /\ profiles'[p] = new /\ \A q \in Phones : q # p => profiles'[q] = profiles[q]
      BY <1>0, <1>2, <3>1, <3>2 DEF ProfilesTyped
    <3>4. \A q \in Phones : profiles[q].id # x
      <4>1. \A q \in Phones : profiles[q].id < x
        BY <1>1, <2>2 DEF NewId
      <4>2. \A q \in Phones : profiles[q].id \in Nat /\ x \in Nat
        BY <1>0, OnboardingAssumption DEF ProfilesTyped, Profiles, IdOrNone, Ids
      <4> QED BY <4>1, <4>2
    <3>5. profiles[p].id = 0
      BY <1>0, <1>2, <2>2 DEF IdsApart
    <3>6. IdsApart'
      BY <1>0, <3>1, <3>3, <3>4 DEF IdsApart
    <3> QED BY <3>1, <3>3, <3>5, <3>6 DEF ProfilesTyped
  <2> QED BY <2>1, <2>2
<1>6. ASSUME NEW t \in Sessions, t # s
      PROVE  /\ check'[t].at = check[t].at /\ check'[t].phone = check[t].phone /\ check'[t].user = check[t].user
             /\ check'[t].profile = check[t].profile /\ check'[t].lock = check[t].lock
             /\ ~check'[t].crossed => ~check[t].crossed
  BY <1>0, <1>3, <1>6, UntouchedIs DEF Others
<1>7. ChecksNamed'
  <2>1. check'[s].phone \in Phones /\ check'[s].at # "none"
    BY <1>1, <1>2
  <2> QED BY <1>0, <1>6, <2>1 DEF ChecksNamed
<1>8. WorksOnItsOwn'
  <2>1. ASSUME NEW t \in Sessions, AtWork(t)' PROVE check'[t].profile \in Ids
    BY <1>1, <1>6, <2>1 DEF WorkInvs, WorksOnItsOwn, AtWork
  <2>2. ASSUME NEW t \in Sessions, AtWork(t)', ~check'[t].crossed
        PROVE  profiles'[check'[t].phone].id = check'[t].profile
    <3>1. CASE t = s
      BY <1>1, <1>5, <3>1
    <3>2. CASE t # s
      <4>1. AtWork(t) /\ ~check[t].crossed /\ check[t].phone \in Phones
        BY <1>0, <1>6, <2>2, <3>2, PromotingIsWork DEF AtWork, ChecksNamed
      <4>2. profiles[check[t].phone].id = check[t].profile /\ check[t].profile # 0
        BY <4>1 DEF WorkInvs, WorksOnItsOwn, Ids
      <4> QED BY <1>5, <1>6, <3>2, <4>1, <4>2
    <3> QED BY <3>1, <3>2
  <2>3. ASSUME NEW t \in Sessions, AtWork(t)', ~check'[t].crossed,
               NEW u \in Sessions, AtWork(u)', check'[u].profile = check'[t].profile
        PROVE  check'[u].lock = locks'[check'[t].profile]
    <3>1. CASE u = s
      BY <1>0, <1>1, <2>3, <3>1
    <3>2. CASE u # s /\ t = s
      <4>1. ~Stale(x) /\ check[u].at \in Working /\ check[u].profile = x /\ check'[u].lock = check[u].lock
        BY <1>1, <1>6, <2>3, <3>2 DEF AtWork
      <4> QED BY <1>0, <1>1, <3>2, <4>1 DEF Stale
    <3>3. CASE u # s /\ t # s
      <4>1. AtWork(t) /\ ~check[t].crossed /\ AtWork(u) /\ check[u].profile = check[t].profile
        BY <1>6, <2>3, <3>3 DEF AtWork
      <4>2. check[u].lock = locks[check[t].profile]
        BY <4>1 DEF WorkInvs, WorksOnItsOwn
      <4> QED BY <1>0, <1>6, <3>3, <4>2
    <3> QED BY <3>1, <3>2, <3>3
  <2> QED BY <2>1, <2>2, <2>3 DEF WorksOnItsOwn
<1>9. OneHolder' /\ ValidatedStays'
  <2>1. check'[s].at \notin Promoting
    BY <1>1 DEF Promoting
  <2>2. \A t \in Sessions : check'[t].at \in Promoting => t # s
    BY <2>1
  <2>3. OneHolder'
    BY <1>6, <2>2 DEF WorkInvs, OneHolder
  <2>4. ValidatedStays'
    BY <1>0, <1>6, <2>2, PromotingIsWork DEF WorkInvs, ValidatedStays
  <2> QED BY <2>3, <2>4
<1> QED BY <1>3, <1>4, <1>5, <1>7, <1>8, <1>9 DEF WorkInvs

LEMMA CheckStepKeeps ==
  ASSUME OwnerTyped, RowsTyped, SignInTyped, RowsNamed, WorkInvs, NEW s \in Sessions, CheckStep(s) PROVE WorkInvs'
<1> USE StateNames DEF NamesOfStates
<1>0. ProfilesTyped /\ FilesTyped /\ CheckTyped /\ IdsApart /\ ChecksNamed
  BY DEF WorkInvs
<1>r. UNCHANGED profiles => ProfilesTyped' /\ IdsApart'
  BY <1>0 DEF ProfilesTyped, IdsApart
<1>e. Ends(s) => /\ check'[s].at \notin Working /\ Goes(s)
                 /\ check'[s].phone \in Phones <=> check'[s].at # "none"
  BY DefaultsTyped, PromotingIsWork, IdleGoes DEF Ends
<1>1. ASSUME BeginCheck(s) PROVE WorkInvs'
  <2>1. CheckTyped' /\ Others(s) /\ Begins(s) /\ UNCHANGED <<profiles, files>>
    BY <1>0, <1>1, BeginForm DEF BeginCheck, books
  <2>2. rows[s].phone \in Phones
    BY <1>1 DEF BeginCheck, Admitted, RowsNamed
  <2> QED BY <2>1, <2>2, PromotingIsWork, NetworkKeeps DEF Begins
<1>2. ASSUME Connect(s) PROVE WorkInvs'
  <2>1. /\ CheckTyped' /\ Others(s) /\ UNCHANGED <<profiles, files>>
        /\ GoesOn(s, "proving", "connected") \/ GoesOn(s, "proving", "refused")
    BY <1>0, <1>2, ConnectForm DEF Connect, books
  <2> QED BY <1>0, <2>1, PromotingIsWork, NetworkKeeps DEF GoesOn, ChecksNamed
<1>3. ASSUME NotProved(s) PROVE WorkInvs'
  <2>1. CheckTyped' /\ Others(s) /\ Ends(s) /\ UNCHANGED <<profiles, files>>
    BY <1>0, <1>3, EndForm DEF NotProved
  <2> QED BY <1>e, <2>1, NetworkKeeps
<1>4. ASSUME Proved(s) PROVE WorkInvs'
  <2>1. CASE CheckEnds(s)
    <3>1. CheckTyped' /\ Others(s) /\ Ends(s) /\ check'[s].at = "none"
      BY <1>0, <2>1, EndForm, DefaultsTyped DEF Ends
    <3>2. UNCHANGED <<profiles, files>>
      <4>1. CASE profiles[check[s].phone].status = "disabled"
        BY <1>4, <4>1 DEF Proved
      <4>2. CASE profiles[check[s].phone].status # "disabled"
        <5>1. PICK x \in Ids, at \in {"entering", "waiting"} :
                check' = [check EXCEPT ![s] = [check[s] EXCEPT !.at = at, !.profile = x, !.lock = locks[x],
                                               !.made = (profiles[check[s].phone].status = None), !.crossed = Stale(x)]]
          BY <1>4, <4>2 DEF Proved
        <5>2. check'[s].at = at
          BY <1>0, <5>1 DEF CheckTyped, Checks
        <5> QED BY <3>1, <5>2
      <4> QED BY <4>1, <4>2
    <3> QED BY <1>e, <3>1, <3>2, NetworkKeeps
  <2>2. CASE ~CheckEnds(s)
    BY <1>4, <2>2, EnterKeeps
  <2> QED BY <2>1, <2>2
<1>5. ASSUME Stage(s) PROVE WorkInvs'
  <2>1. /\ CheckTyped' /\ Others(s) /\ AtWork(s) /\ ~Held(check[s].profile, check[s].lock) /\ UNCHANGED <<profiles, locks>>
        /\ Ends(s) \/ GoesOn(s, check[s].at, "installing")
        /\ UNCHANGED store \/ Holds(s, None, Files(s).session)
    BY <1>0, <1>5, StageForm DEF Stage, AtWork, Working
  <2>2. Files(s).session \in Tokens /\ None \in Tokens
    BY <2>1, PairsOf DEF Tokens
  <2>3. PICK pair \in Pairs : store' \in {store, [store EXCEPT ![check[s].profile] = pair]}
    BY <2>1, <2>2, PairsOf
  <2>4. GoesOn(s, check[s].at, "installing") => Goes(s) /\ (check'[s].phone \in Phones <=> check'[s].at # "none")
    BY <2>1, OnGoes DEF Working
  <2> QED BY <1>e, <1>r, <2>1, <2>3, <2>4, StoreKeeps
<1>6. ASSUME Install(s) PROVE WorkInvs'
  <2>1. check[s].at = "installing" /\ check[s].at \in Promoting /\ AtWork(s) /\ UNCHANGED locks
    BY <1>6 DEF Install, Promoting, AtWork, Working
  <2>2. CASE Undo(s)
    BY <2>1, <2>2, UndoKeeps
  <2>3. CASE CheckAt(s, "validating") /\ Holds(s, temp[s].sealed, Files(s).aside) /\ UNCHANGED profiles
    <3>1. CheckTyped' /\ Others(s) /\ GoesOn(s, check[s].at, "validating")
      BY <1>0, <2>3, AtForm DEF Working
    <3>2. temp[s].sealed \in Tokens /\ Files(s).aside \in Tokens
      BY <2>1, PairsOf DEF SignInTyped, Temps, Tokens
    <3>3. PICK pair \in Pairs : store' \in {store, [store EXCEPT ![check[s].profile] = pair]}
      BY <2>1, <2>3, <3>2, PairsOf
    <3>4. Goes(s) /\ (check'[s].phone \in Phones <=> check'[s].at # "none")
      BY <2>1, <2>3, <3>1, OnGoes DEF Working
    <3> QED BY <1>r, <2>1, <2>3, <3>1, <3>3, <3>4, StoreKeeps
  <2> QED BY <1>6, <2>2, <2>3 DEF Install
<1>7. ASSUME Validate(s) PROVE WorkInvs'
  <2>1. check[s].at = "validating" /\ check[s].at \in Promoting /\ AtWork(s) /\ UNCHANGED locks
    BY <1>7 DEF Validate, Promoting, AtWork, Working
  <2>2. CASE Undo(s)
    BY <2>1, <2>2, UndoKeeps
  <2>3. CASE Valid(s) /\ CheckAt(s, "settling") /\ UNCHANGED <<profiles, store>>
    <3>1. CheckTyped' /\ Others(s) /\ GoesOn(s, check[s].at, "settling")
      BY <1>0, <2>3, AtForm DEF Working
    <3>2. store'[check[s].profile].session = check[s].user
      BY <2>3 DEF Valid, Files
    <3>3. Goes(s) /\ (check'[s].phone \in Phones <=> check'[s].at # "none")
      BY <2>1, <2>3, <3>1, <3>2, OnGoes DEF Working
    <3>4. FilesTyped'
      BY <1>0, <2>1, <2>3 DEF FilesTyped
    <3> QED BY <1>r, <2>1, <2>3, <3>1, <3>3, <3>4, StepKeeps
  <2> QED BY <1>7, <2>2, <2>3 DEF Validate, books
<1>8. ASSUME Settle(s) PROVE WorkInvs'
  <2>1. check[s].at = "settling" /\ check[s].at \in Promoting /\ AtWork(s) /\ UNCHANGED locks
    BY <1>8 DEF Settle, Promoting, AtWork, Working
  <2>2. CASE Undo(s)
    BY <2>1, <2>2, UndoKeeps
  <2>3. CASE MaySettle(s)
    <3>1. PICK fresh \in BOOLEAN :
            /\ profiles' = [p \in Phones |-> IF p \in Owners(check[s].profile)
                              THEN [profiles[p] EXCEPT !.status = "active", !.linked = @ \/ fresh] ELSE profiles[p]]
            /\ CheckAt(s, "discarding") /\ UNCHANGED store
      BY <1>8, <2>3 DEF Settle
    <3>2. CheckTyped' /\ Others(s) /\ GoesOn(s, check[s].at, "discarding")
      BY <1>0, <3>1, AtForm DEF Working
    <3>3. ASSUME NEW p \in Phones
          PROVE  /\ profiles'[p] \in Profiles /\ profiles'[p].id = profiles[p].id
                 /\ profiles'[p].status = None => profiles[p].status = None
      <4>1. profiles[p] \in Profiles
        BY <1>0 DEF ProfilesTyped
      <4>2. CASE p \in Owners(check[s].profile)
        <5>1. profiles'[p] = [profiles[p] EXCEPT !.status = "active", !.linked = profiles[p].linked \/ fresh]
          BY <3>1, <4>2
        <5> QED BY <4>1, <5>1 DEF Profiles
      <4>3. CASE p \notin Owners(check[s].profile)
        BY <3>1, <4>1, <4>3
      <4> QED BY <4>2, <4>3
    <3>4. profiles' \in [Phones -> Profiles]
      BY <3>1, <3>3
    <3>5. ProfilesTyped' /\ IdsApart'
      BY <1>0, <3>3, <3>4, ProfilesStay
    <3>6. FilesTyped'
      BY <1>0, <2>1, <3>1 DEF FilesTyped
    <3>7. \A t \in Sessions : AtWork(t) => profiles'[check[t].phone].id = profiles[check[t].phone].id
      BY <1>0, <3>3, PromotingIsWork DEF ChecksNamed, AtWork
    <3>8. Goes(s) /\ (check'[s].phone \in Phones <=> check'[s].at # "none")
      BY <2>1, <3>2, <3>7, OnGoes DEF Working
    <3> QED BY <2>1, <3>1, <3>2, <3>5, <3>6, <3>7, <3>8, StepKeeps
  <2> QED BY <1>8, <2>2, <2>3 DEF Settle
<1>9. ASSUME Discard(s) PROVE WorkInvs'
  <2>1. /\ check[s].at \in Promoting /\ AtWork(s) /\ CheckEnds(s) /\ UNCHANGED <<profiles, locks>>
        /\ UNCHANGED store \/ Holds(s, Files(s).session, None)
    BY <1>9 DEF Discard, Promoting, AtWork, Working
  <2>2. CheckTyped' /\ Others(s) /\ Ends(s)
    BY <1>0, <2>1, EndForm
  <2>3. Files(s).session \in Tokens /\ None \in Tokens
    BY <2>1, PairsOf DEF Tokens
  <2>4. PICK pair \in Pairs : store' \in {store, [store EXCEPT ![check[s].profile] = pair]}
    BY <2>1, <2>3, PairsOf
  <2> QED BY <1>e, <1>r, <2>1, <2>2, <2>4, StoreKeeps
<1> QED BY <1>1, <1>2, <1>3, <1>4, <1>5, <1>6, <1>7, <1>8, <1>9 DEF CheckStep

--------------------------------------------------------------------------------
(* The invariant *)

LEMMA InvInit == Init => OnboardingInv
<1> SUFFICES ASSUME Init PROVE OnboardingInv
  OBVIOUS
<1> USE StateNames DEF NamesOfStates
<1>1. OwnerTyped /\ OneActive
  <2>1. 1 \in Invites /\ \A i \in Invites : invites[i] = IF i = 1 THEN [NoInvite EXCEPT !.state = "active"] ELSE NoInvite
    BY OnboardingAssumption DEF Init, Invites
  <2>u. 0 \in 0..MaxUses
    BY OnboardingAssumption
  <2>2. /\ NoInvite \in [state : {"none", "active", "revoked"}, uses : 0..MaxUses, lapsed : BOOLEAN]
        /\ [NoInvite EXCEPT !.state = "active"] \in [state : {"none", "active", "revoked"}, uses : 0..MaxUses, lapsed : BOOLEAN]
        /\ NoInvite.state = "none" /\ [NoInvite EXCEPT !.state = "active"].state = "active"
    BY <2>u DEF NoInvite
  <2>3. OwnerTyped
    <3>1. group \in [active : BOOLEAN, chat : Chats \cup {None}] /\ locators \subseteq Invites
      <4>1. PICK c \in Chats : group = [active |-> TRUE, chat |-> c]
        BY DEF Init
      <4> QED BY <2>1, <4>1 DEF Init
    <3>2. invites = [i \in Invites |-> invites[i]]
      BY DEF Init
    <3> QED BY <2>1, <2>2, <3>1, <3>2 DEF OwnerTyped
  <2>4. \A i \in Active : i = 1
    <3>1. \A i \in Invites : i # 1 => invites[i].state = "none"
      BY <2>1, <2>2
    <3> QED BY <3>1 DEF Active
  <2> QED BY <2>3, <2>4 DEF OneActive
<1>2. /\ \A s \in Sessions : rows[s] = NoRow /\ check[s] = NoCheck /\ task[s] = NoTask /\ runtime[s] = NoRuntime
      /\ clean = NoClean
  BY DEF Init
<1>3. RowsTyped /\ SignInTyped /\ CheckTyped /\ CleanTyped
  BY DefaultsTyped, NoCleanTyped DEF Init, RowsTyped, SignInTyped, CheckTyped, CleanTyped
<1>4. TasksNamed /\ ChecksNamed
  BY <1>2, DefaultsTyped DEF TasksNamed, ChecksNamed, Runs
<1>5. RowInvs
  <2>1. \A s \in Sessions : ~Exists(s) /\ ~HalfPromoted(s) /\ ~Runs(s) /\ clean.rows[s].state = None /\ ~Half(clean.rows[s])
    BY <1>2, DefaultsTyped, NoCleanTyped DEF Exists, HalfPromoted, HalfWay, Runs
  <2> QED BY <1>2, <2>1, DefaultsTyped
          DEF RowInvs, YoungRows, RowsOfInvites, RowsNamed, HalvesAreServed, InstallsNamed, ChecksAreOfNow
<1>6. PICK id \in [Known -> Ids] :
        /\ \A p, q \in Known : id[p] = id[q] => p = q
        /\ profiles = [p \in Phones |->
              IF p \in Known THEN [status |-> "active", id |-> id[p], linked |-> TRUE] ELSE NoProfile]
        /\ store = [i \in Ids |-> [session |-> IF \E p \in Known : id[p] = i THEN CHOOSE p \in Known : id[p] = i ELSE None,
                                   aside |-> None]]
  BY DEF Init
<1>7. ProfilesTyped /\ IdsApart
  <2>1. ASSUME NEW p \in Phones
        PROVE  /\ profiles[p] \in Profiles
               /\ p \in Known => profiles[p].id = id[p] /\ profiles[p].status = "active"
               /\ p \notin Known => profiles[p].id = 0
    BY <1>6, DefaultsTyped DEF Profiles, IdOrNone
  <2>2. ProfilesTyped
    BY <1>6, <2>1 DEF ProfilesTyped
  <2> QED BY <1>6, <2>1, <2>2 DEF IdsApart
<1>8. FilesTyped
  <2>1. ASSUME NEW i \in Ids PROVE store[i] \in Pairs
    <3> DEFINE session == IF \E p \in Known : id[p] = i THEN CHOOSE p \in Known : id[p] = i ELSE None
    <3>1. session \in Tokens /\ None \in Tokens
      BY OnboardingAssumption DEF Tokens
    <3>2. store[i] = [session |-> session, aside |-> None]
      BY <1>6
    <3> HIDE DEF session
    <3> QED BY <3>1, <3>2 DEF Pairs
  <2>2. store \in [Ids -> Pairs]
    BY <1>6, <2>1
  <2> QED BY <2>2 DEF Init, FilesTyped
<1>9. WorksOnItsOwn /\ OneHolder /\ ValidatedStays
  <2>1. \A s \in Sessions : check[s].at = "none"
    BY <1>2, DefaultsTyped
  <2> QED BY <2>1, PromotingIsWork DEF WorksOnItsOwn, OneHolder, ValidatedStays, AtWork
<1> QED BY <1>1, <1>3, <1>4, <1>5, <1>7, <1>8, <1>9 DEF OnboardingInv, WorkInvs

LEMMA InvStep == OnboardingInv /\ [Next]_vars => OnboardingInv'
<1> SUFFICES ASSUME OnboardingInv, [Next]_vars PROVE OnboardingInv'
  OBVIOUS
<1>0. /\ OwnerTyped /\ OneActive /\ RowsTyped /\ SignInTyped /\ TasksNamed /\ CleanTyped /\ RowInvs /\ WorkInvs
      /\ ProfilesTyped /\ FilesTyped /\ CheckTyped /\ WorksOnItsOwn
      /\ YoungRows /\ RowsOfInvites /\ RowsNamed
  BY DEF OnboardingInv, WorkInvs, RowInvs
<1>1. OwnerTyped' /\ OneActive' /\ InvitesGo
  BY <1>0, OwnerStepMoves DEF OwnerMoves
<1>2. UNCHANGED clean => CleanTyped'
  BY <1>0 DEF CleanTyped
<1>3. ASSUME OwnerStep PROVE OnboardingInv'
  <2>1. UNCHANGED <<clean, left>> /\ RequestMoves /\ WorkInvs'
    BY <1>0, <1>3, Frames, OwnerRowMoves, OwnerKeeps
  <2>2. UNCHANGED check \/ \E x : check' = Crossed(x, None)
    BY <1>3 DEF OwnerStep, CreateInvite, RevokeInvite, ChangeGroup, DisableProfile, ChangeProfile,
                RemoveProfile, DeleteSession, TakeAway, Lapse
  <2>3. \A t \in Sessions : Untouched(t)
    <3>1. CASE UNCHANGED check
      BY <1>0, <3>1, UnchangedIsUntouched
    <3>2. ASSUME NEW x, check' = Crossed(x, None) PROVE \A t \in Sessions : Untouched(t)
      BY <1>0, <3>2, CrossedTyped DEF Untouched
    <3> QED BY <2>2, <3>1, <3>2
  <2>4. \A t \in Sessions : check'[t].at = check[t].at /\ check'[t].chat = check[t].chat
    BY <1>0, <2>3, UntouchedIs
  <2>5. RowInvs'
    BY <1>0, <1>1, <2>1, <2>4, RequestKeeps
  <2> QED BY <1>1, <1>2, <2>1, <2>5 DEF OnboardingInv, RequestMoves
<1>4. ASSUME NEW s \in Sessions, VisitorStep(s) \/ TaskStep(s) PROVE OnboardingInv'
  <2>1. UNCHANGED <<invites, profiles, files, check, clean, left>>
    BY <1>4, Frames DEF owner
  <2>2. RequestMoves
    <3>1. VisitorStep(s) => RequestMoves
      BY <1>0, <2>1, VisitorMoves
    <3>2. TaskStep(s) => RequestMoves
      BY <1>0, TaskMoves
    <3> QED BY <1>4, <3>1, <3>2
  <2>3. RowInvs'
    BY <1>0, <1>1, <2>1, <2>2, RequestKeeps
  <2>4. WorkInvs'
    BY <1>0, <2>1, RestKeeps
  <2> QED BY <1>1, <1>2, <2>1, <2>2, <2>3, <2>4 DEF OnboardingInv, RequestMoves
<1>5. ASSUME CleanStep PROVE OnboardingInv'
  BY <1>0, <1>1, <1>5, CleanMoves, CleanKeeps DEF OnboardingInv, Settled
<1>6. ASSUME NEW s \in Sessions, CheckStep(s) PROVE OnboardingInv'
  <2>1. UNCHANGED <<group, runtime, task, clean>>
    BY <1>6, Frames
  <2>2. RowsTyped' /\ RowInvs'
    BY <1>0, <1>1, <1>6, <2>1, CheckStepMoves, CheckKeeps
  <2>3. SignInTyped' /\ TasksNamed'
    BY <1>0, <1>6, <2>1, CheckFiles DEF SignInTyped, TasksNamed, Runs
  <2>4. WorkInvs'
    BY <1>0, <1>6, CheckStepKeeps
  <2> QED BY <1>1, <1>2, <2>1, <2>2, <2>3, <2>4 DEF OnboardingInv
<1>7. CASE UNCHANGED vars
  BY <1>0, <1>1, <1>7
     DEF OnboardingInv, vars, owner, books, files, signIn, RowsTyped, SignInTyped, TasksNamed, CleanTyped, Runs,
         RowInvs, YoungRows, Young, RowsOfInvites, Exists, RowsNamed, HalvesAreServed, HalfPromoted, InstallsNamed,
         ChecksAreOfNow, WorkInvs, ProfilesTyped, FilesTyped, CheckTyped, ChecksNamed, IdsApart, WorksOnItsOwn,
         AtWork, OneHolder, ValidatedStays
<1> QED BY <1>3, <1>4, <1>5, <1>6, <1>7, NextCases

THEOREM Invariance == Spec => []OnboardingInv
BY InvInit, InvStep, PTL DEF Spec

--------------------------------------------------------------------------------
(* What it gives *)

\* One invite at most is active, no invite is used beyond its limit, no two
\* phones share a profile's id although a deleted one's is given again, and tasks
\* and checks have a phone exactly while they run.
THEOREM OnboardingTypeCorrect == Spec => []OnboardingTypeOK
<1>1. OnboardingInv => OnboardingTypeOK
  <2> SUFFICES ASSUME OnboardingInv PROVE OnboardingTypeOK
    OBVIOUS
  <2>1. Cardinality(Active) <= 1
    <3>1. CASE Active = {}
      BY <3>1, FS_EmptySet
    <3>2. ASSUME NEW i \in Active PROVE Cardinality(Active) <= 1
      <4>1. Active = {i}
        BY DEF OnboardingInv, OneActive
      <4> QED BY <4>1, FS_Singleton
    <3> QED BY <3>1, <3>2
  <2>2. OwnerTyped /\ TasksNamed /\ ChecksNamed /\ IdsApart
    BY DEF OnboardingInv, WorkInvs
  <2> QED BY <2>1, <2>2 DEF OnboardingTypeOK, OwnerTyped, TasksNamed, ChecksNamed, IdsApart
<1> QED BY <1>1, Invariance, PTL

\* Whatever fails, dies or is cleaned up, a promotion that a row calls unfinished
\* has its handler at work, whether or not the row still names a profile; only
\* those rows are set apart from which a cleanup took the profile meanwhile, or
\* whose undoing the database refused.
THEOREM HalvesAreUndone == Spec => []HalfPromotionsAreUndone
<1>1. OnboardingInv => HalfPromotionsAreUndone
  BY DEF OnboardingInv, RowInvs, HalvesAreServed, HalfPromoted, HalfWay, HalfPromotionsAreUndone, Unfinished
<1> QED BY <1>1, Invariance, PTL

\* What a check that settles has found.
LEMMA SettlesAsProved ==
  ASSUME OnboardingInv, NEW s \in Sessions, Settle(s), check'[s].at = "discarding"
  PROVE  /\ MaySettle(s) /\ check[s].at = "settling" /\ check[s].phone \in Phones /\ UNCHANGED <<group, store>>
         /\ profiles'[check[s].phone].id = profiles[check[s].phone].id
         /\ invites' # invites => rows[s].state # "completed"
<1>1. CheckTyped /\ ProfilesTyped /\ ChecksNamed /\ check[s].at = "settling" /\ UNCHANGED group
  BY DEF OnboardingInv, WorkInvs, Settle
<1>2. MaySettle(s)
  <2>1. ASSUME Undo(s) PROVE FALSE
    <3>1. check'[s] = NoCheck
      BY <1>1, <2>1, UndoForm DEF Ends
    <3> QED BY <3>1, DefaultsTyped
  <2> QED BY <2>1 DEF Settle
<1>3. check[s].phone \in Phones
  BY <1>1 DEF ChecksNamed
<1>4. PICK fresh \in BOOLEAN :
        /\ profiles' = [p \in Phones |-> IF p \in Owners(check[s].profile)
                          THEN [profiles[p] EXCEPT !.status = "active", !.linked = @ \/ fresh] ELSE profiles[p]]
        /\ fresh = (rows[s].state # "completed")
        /\ (invites' # invites => fresh) /\ UNCHANGED store
  BY <1>2 DEF Settle
<1>5. profiles'[check[s].phone].id = profiles[check[s].phone].id
  <2>1. profiles[check[s].phone] \in Profiles
    BY <1>1, <1>3 DEF ProfilesTyped
  <2> QED BY <1>3, <1>4, <2>1 DEF Profiles
<1> QED BY <1>1, <1>2, <1>3, <1>4, <1>5

\* No account is linked that was proved a member of another chat than the
\* group's destination at the moment it is linked.
THEOREM EnrolledWhereProved == Spec => ProvedForCurrentDestination
<1>1. ASSUME OnboardingInv, NEW s \in Sessions, Settle(s), check'[s].at = "discarding", invites' # invites
      PROVE  check[s].chat = group'.chat
  <2>1. /\ MaySettle(s) /\ rows[s].state # "completed" /\ UNCHANGED group /\ check[s].at # "none"
    BY <1>1, SettlesAsProved
  <2>2. Exists(s) /\ invites[rows[s].invite].state = "active"
    BY <2>1 DEF MaySettle, SessionMaySettle, Usable
  <2> QED BY <1>1, <2>1, <2>2 DEF OnboardingInv, RowInvs, ChecksAreOfNow
<1>2. OnboardingInv /\ [Next]_vars =>
        [\A s \in Sessions : Settle(s) /\ check'[s].at = "discarding" /\ invites' # invites
                                => check[s].chat = group'.chat]_vars
  BY <1>1
<1> QED BY <1>2, Invariance, PTL DEF Spec, ProvedForCurrentDestination

\* The profile a completed onboarding activates is the one of its phone, and the
\* session in its directory is of the account whose membership was proved, unless
\* somebody else has taken the profile's row or files from the check meanwhile or
\* worked on its id under a former lock; ids are given again as SQLite does.
THEOREM EnrolledWithItsSession == Spec => InstalledIsProved
<1>1. ASSUME OnboardingInv, NEW s \in Sessions, Settle(s), check'[s].at = "discarding", ~check[s].crossed
      PROVE  /\ profiles'[check[s].phone].id = check[s].profile
             /\ store'[check[s].profile].session = check[s].user
  <2>1. /\ check[s].at = "settling" /\ UNCHANGED store
        /\ profiles'[check[s].phone].id = profiles[check[s].phone].id
    BY <1>1, SettlesAsProved
  <2>2. AtWork(s)
    BY <2>1 DEF AtWork, Working
  <2>3. profiles[check[s].phone].id = check[s].profile
    BY <1>1, <2>2 DEF OnboardingInv, WorkInvs, WorksOnItsOwn
  <2>4. store[check[s].profile].session = check[s].user
    BY <1>1, <2>1 DEF OnboardingInv, WorkInvs, ValidatedStays
  <2> QED BY <2>1, <2>3, <2>4
<1>2. OnboardingInv /\ [Next]_vars =>
        [\A s \in Sessions : Settle(s) /\ check'[s].at = "discarding" /\ ~check[s].crossed
            => /\ profiles'[check[s].phone].id = check[s].profile
               /\ store'[check[s].profile].session = check[s].user]_vars
  BY <1>1
<1> QED BY <1>2, Invariance, PTL DEF Spec, InstalledIsProved
================================================================================

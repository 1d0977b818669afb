------------------------------ MODULE WorkScope ------------------------------
(****************************************************************************)
(* Who may be sent from and where to: groups with their destination, the    *)
(* profiles linked to them, the one work group an account is selected for,  *)
(* and the weekday and proxy it keeps, under the owner's handlers and the   *)
(* sends that rely on them (app/routes_groups.py, app/routes_profiles.py,   *)
(* app/repositories/automation_scope.py, weekly_schedule.py, main.py).      *)
(*                                                                          *)
(* An owner's handler is one step up to its first await.  Rows are named by *)
(* their ids, which SQLite gives again once the highest row is deleted;     *)
(* what refers to a deleted row by its id stays.                            *)
(****************************************************************************)
EXTENDS Naturals, FiniteSets

CONSTANTS
    Phones,     \* accounts
    Groups,     \* ids of groups
    Chats,
    Proxies,    \* numbers: a list keeps them in ascending order
    Days,       \* number of weekdays, 0..Days-1
    MaxId,      \* bound: highest profile id
    MaxEvents,  \* bound: handlers of the owner, logins, onboardings, restarts
    None

Worker == "worker"
Test == "test"
Senders == {Worker, Test}
Ids == 1..MaxId
Routes == Ids \X Groups

ASSUME ScopeAssumption ==
    /\ {Days, MaxId} \subseteq Nat \ {0} /\ MaxEvents \in Nat
    /\ Proxies \subseteq Nat /\ Groups \subseteq Nat \ {0}
    /\ \E top \in Groups : \A g \in Groups : g <= top
    /\ None \notin Phones \cup Groups \cup Chats \cup Proxies

VARIABLES
    group,      \* groups: link revision, confirmed chat, activity, proxy list
    books,      \* profiles, group_profiles, weekdays and proxy assignments
    scope,      \* profile_automation_scope
    control,    \* campaign_control.state
    send,       \* the job of the worker and of the manual test
    orphans,    \* per handler deleting from a group: profiles it has yet to delete
    confirmed,  \* history: the chat an owner confirmed, and for which revision
    chosen,     \* history: accounts whose owner chose a group for them
    events

history == <<confirmed, chosen>>
vars == <<group, books, scope, control, send, orphans, history, events>>

NoGroup == [there |-> FALSE, active |-> FALSE, rev |-> 0, chat |-> None, verified |-> FALSE, proxies |-> {}]
NoProfile == [phone |-> None, status |-> "none"]
NoScope == [group |-> None, consent |-> "none"]
NoJob == [at |-> "none", id |-> 0, phone |-> None, group |-> None, rev |-> 0, chat |-> None]

\* A list of proxies is in the order of its numbers.
FirstOf(list) == CHOOSE x \in list : \A y \in list : x <= y

\* A tenant at work: a group with a confirmed destination and an account in it,
\* whose work group the next start, login or send will migrate.
Init ==
    \E p \in Phones, c \in Chats, list \in SUBSET Proxies :
        LET g == CHOOSE h \in Groups : \A k \in Groups : h <= k
            x == IF list = {} THEN None ELSE FirstOf(list)
        IN  /\ group = [h \in Groups |-> IF h # g THEN NoGroup ELSE
                  [there |-> TRUE, active |-> TRUE, rev |-> 1, chat |-> c, verified |-> TRUE, proxies |-> list]]
            /\ books = [profile |-> [i \in Ids |-> IF i = 1 THEN [phone |-> p, status |-> "active"] ELSE NoProfile],
                        links |-> {<<1, g>>},
                        day |-> [i \in Ids |-> IF i = 1 THEN 0 ELSE None],
                        proxy |-> [r \in Routes |-> IF r = <<1, g>> THEN x ELSE None]]
            /\ scope = [i \in Ids |-> NoScope]
            /\ control = "stopped" /\ send = [q \in Senders |-> NoJob]
            /\ orphans = [h \in Groups |-> {}]
            /\ confirmed = [h \in Groups |-> IF h = g THEN <<1, c>> ELSE <<0, None>>] /\ chosen = {}
            /\ events = 0

Event == events < MaxEvents /\ events' = events + 1

\* _require_worker_idle: no worker task, and no command of the campaign.
Idle == control = "stopped"

OwnerActs == Idle /\ Event /\ UNCHANGED <<control, send>>

Row(i) == books.profile[i]
There(i) == Row(i) # NoProfile
LinkedTo(b, i) == {g \in Groups : <<i, g>> \in b.links}

--------------------------------------------------------------------------------
(* Weekdays and proxies: least loaded first, and kept *)

Least(S, Load(_)) == CHOOSE x \in S : \A y \in S : Load(x) < Load(y) \/ (Load(x) = Load(y) /\ x <= y)

WithDay(b, i) ==
    LET Load(d) == Cardinality({j \in Ids : b.day[j] = d})
    IN  IF b.day[i] # None THEN b ELSE [b EXCEPT !.day[i] = Least(0..Days-1, Load)]

\* Mutant: the least loaded proxy, whether or not the account has one.
WithProxyAnew(b, i, g, list) ==
    LET Load(x) == Cardinality({j \in Ids : b.proxy[<<j, g>>] = x})
    IN  [b EXCEPT !.proxy[<<i, g>>] = IF list = {} THEN None ELSE Least(list, Load)]

WithProxy(b, i, g, list) ==
    LET Load(x) == Cardinality({j \in Ids : b.proxy[<<j, g>>] = x})
    IN  IF b.proxy[<<i, g>>] \in list THEN b
        ELSE [b EXCEPT !.proxy[<<i, g>>] = IF list = {} THEN None ELSE Least(list, Load)]

\* in the order of their ids
WithDays(b, who) ==
    LET upTo[i \in 0..MaxId] == IF i = 0 THEN b
                                ELSE IF i \in who THEN WithDay(upTo[i-1], i) ELSE upTo[i-1]
    IN  upTo[MaxId]

WithProxies(b, g, who, list) ==
    LET upTo[i \in 0..MaxId] == IF i = 0 THEN b
                                ELSE IF i \in who THEN WithProxy(upTo[i-1], i, g, list) ELSE upTo[i-1]
    IN  upTo[MaxId]

LinkedIn(b, g) == {i \in Ids : <<i, g>> \in b.links}

\* Groups are numbers, visited in ascending order.
Assigned(b, routes) ==
    LET top == CHOOSE n \in Groups : \A g \in Groups : g <= n
        days == WithDays(b, {r[1] : r \in routes})
        upTo[g \in 0..top] == IF g = 0 THEN days
                              ELSE IF g \in Groups
                                   THEN WithProxies(upTo[g-1], g, {r[1] : r \in {x \in routes : x[2] = g}}, group[g].proxies)
                                   ELSE upTo[g-1]
    IN  upTo[top]

Backfilled(b) == Assigned(b, b.links)

--------------------------------------------------------------------------------
(* The selected work group *)

Allows(s, i, g) == s[i].consent = "active" /\ s[i].group = g

Migrated(who) ==
    [i \in Ids |-> IF i \in who /\ scope[i] = NoScope /\ Cardinality(LinkedTo(books, i)) = 1
                   THEN [group |-> CHOOSE g \in LinkedTo(books, i) : TRUE, consent |-> "active"] ELSE scope[i]]

\* history: an only membership that is migrated counts as chosen
MayMigrate(who) == {<<Row(r[1]).phone, r[2]>> : r \in {l \in Routes : l[1] \in who /\ scope[l[1]] = NoScope
                                                                /\ LinkedTo(books, l[1]) = {l[2]}}}

Unselected(i, g) ==
    IF scope[i].group = g THEN [group |-> None, consent |-> "unselected"] ELSE scope[i]

SelectScope(i, g) ==
    /\ OwnerActs /\ There(i) /\ <<i, g>> \in books.links
    /\ scope' = [scope EXCEPT ![i] = [group |-> g, consent |-> "active"]]
    /\ chosen' = {c \in chosen : c[1] # Row(i).phone} \cup {<<Row(i).phone, g>>}
    /\ UNCHANGED <<group, books, orphans, confirmed>>

--------------------------------------------------------------------------------
(* Groups and destinations *)

AddGroup(g) ==
    /\ OwnerActs /\ ~group[g].there
    /\ \E list \in SUBSET Proxies :
        group' = [group EXCEPT ![g] = [NoGroup EXCEPT !.there = TRUE, !.active = TRUE, !.proxies = list]]
    /\ confirmed' = [confirmed EXCEPT ![g] = <<0, None>>]
    /\ UNCHANGED <<books, scope, orphans, chosen>>

\* Mutant: the chat of the old link stays, unverified.
ChangeLinkKeepingChat(g) ==
    /\ OwnerActs /\ group[g].there
    /\ group' = [group EXCEPT ![g].verified = FALSE, ![g].rev = @ + 1]
    /\ UNCHANGED <<books, scope, orphans, history>>

ChangeLink(g) ==
    /\ OwnerActs /\ group[g].there
    /\ group' = [group EXCEPT ![g].chat = None, ![g].verified = FALSE, ![g].rev = @ + 1]
    /\ UNCHANGED <<books, scope, orphans, history>>

SetProxies(g) ==
    /\ OwnerActs /\ group[g].there
    /\ \E list \in SUBSET Proxies \ {group[g].proxies} :
        /\ group' = [group EXCEPT ![g].proxies = list]
        /\ books' = WithProxies(books, g, LinkedIn(books, g), list)
    /\ UNCHANGED <<scope, orphans, history>>

SetActive(g) ==
    /\ OwnerActs /\ group[g].there
    /\ group' = [group EXCEPT ![g].active = ~@]
    /\ UNCHANGED <<books, scope, orphans, history>>

\* Mutant: without asking whether the campaign is idle.
VerifyBusy(g) ==
    /\ group[g].there /\ Event
    /\ \E c \in Chats :
        /\ group' = [group EXCEPT ![g].chat = c, ![g].verified = TRUE]
        /\ confirmed' = [confirmed EXCEPT ![g] = <<group[g].rev, c>>]
    /\ UNCHANGED <<books, scope, control, send, orphans, chosen>>

Verify(g) ==
    /\ OwnerActs /\ group[g].there
    /\ \E c \in Chats, r \in 0..group[g].rev :
        /\ r = group[g].rev
        /\ group' = [group EXCEPT ![g].chat = c, ![g].verified = TRUE]
        /\ confirmed' = [confirmed EXCEPT ![g] = <<r, c>>]
    /\ UNCHANGED <<books, scope, orphans, chosen>>

--------------------------------------------------------------------------------
(* Memberships *)

Holds(b, p) == {i \in Ids : b.profile[i].phone = p}
NextId(b) == LET used == {i \in Ids : b.profile[i] # NoProfile}
             IN  IF used = {} THEN 1 ELSE 1 + CHOOSE i \in used : \A j \in used : j <= i

CanAdd(b, p, g) == (Holds(b, p) = {} => NextId(b) \in Ids) /\ \A i \in Holds(b, p) : <<i, g>> \notin b.links

Added(b, p, g) ==
    LET i == IF Holds(b, p) = {} THEN NextId(b) ELSE CHOOSE j \in Holds(b, p) : TRUE
        known == [b EXCEPT !.profile[i] = IF @ = NoProfile THEN [phone |-> p, status |-> "pending"] ELSE @]
    IN  WithProxies(WithDays([known EXCEPT !.links = @ \cup {<<i, g>>}], {i}), g, {i}, group[g].proxies)

AddProfile(p, g) ==
    /\ OwnerActs /\ group[g].there /\ CanAdd(books, p, g)
    /\ books' = Added(books, p, g)
    /\ UNCHANGED <<group, scope, orphans, history>>

\* One request that imports two accounts, the second after the first.
BulkAdd(p, q, g) ==
    /\ p # q /\ OwnerActs /\ group[g].there
    /\ CanAdd(books, p, g) /\ CanAdd(Added(books, p, g), q, g)
    /\ books' = Added(Added(books, p, g), q, g)
    /\ UNCHANGED <<group, scope, orphans, history>>

\* The links of who to g are deleted; those left without a link are orphans.
Unlink(g, who) ==
    LET left == [books EXCEPT !.links = @ \ (who \X {g})]
    IN  /\ books' = left
        /\ scope' = [i \in Ids |-> IF i \in who THEN Unselected(i, g) ELSE scope[i]]
        /\ orphans' = [orphans EXCEPT ![g] = {i \in who : LinkedTo(left, i) = {}}]
        /\ chosen' = chosen \ ({Row(i).phone : i \in who} \X {g})

DeleteGroup(g) ==
    /\ OwnerActs /\ group[g].there /\ orphans[g] = {}
    /\ Unlink(g, LinkedIn(books, g))
    /\ group' = [group EXCEPT ![g] = NoGroup]
    /\ UNCHANGED confirmed

RemoveProfile(i, g) ==
    /\ OwnerActs /\ <<i, g>> \in books.links /\ orphans[g] = {}
    /\ Unlink(g, {i})
    /\ UNCHANGED <<group, confirmed>>

\* A client of the profile is connected.
Leased(i) == \E q \in Senders : send[q].at = "approved" /\ send[q].id = i

\* An orphan's session is removed first, which takes time and may fail; what a
\* failure leaves undone, the rest of the list included, stays undone.
CleanupFails(g) ==
    /\ orphans[g] # {} /\ orphans' = [orphans EXCEPT ![g] = {}]
    /\ UNCHANGED <<group, books, scope, control, send, history, events>>

RowDeleted(i) == [books EXCEPT !.profile[i] = NoProfile, !.links = {l \in @ : l[1] # i}]

DeleteOrphan(g, i) ==
    /\ i \in orphans[g] /\ ~Leased(i)
    /\ orphans' = [orphans EXCEPT ![g] = @ \ {i}]
    /\ books' = IF LinkedTo(books, i) = {} THEN RowDeleted(i) ELSE books
    /\ chosen' = IF LinkedTo(books, i) = {} THEN {c \in chosen : c[1] # Row(i).phone} ELSE chosen
    /\ UNCHANGED <<group, scope, control, send, confirmed, events>>

--------------------------------------------------------------------------------
(* What makes a profile active *)

\* A login ends, however long ago it was asked for.
Activate(i) ==
    /\ There(i) /\ Row(i).status # "active" /\ Event
    /\ books' = [books EXCEPT !.profile[i].status = "active"]
    /\ UNCHANGED <<group, scope, control, send, orphans, history>>

Disable(i) ==
    /\ OwnerActs /\ There(i) /\ Row(i).status # "disabled"
    /\ books' = [books EXCEPT !.profile[i].status = "disabled"]
    /\ UNCHANGED <<group, scope, orphans, history>>

\* The profile of a visitor's phone, or the one his check makes.
Visited(p) == (IF Holds(books, p) = {} THEN {NextId(books)} ELSE Holds(books, p)) \cap Ids

\* A profile that a visitor's sign-in or check meets without an assignment gets a
\* weekday, and the group's first proxy as the one the visitor came through.
Routed(i, g) ==
    IF books.proxy[<<i, g>>] # None THEN books
    ELSE [WithDay(books, i) EXCEPT !.proxy[<<i, g>>] = FirstOf(group[g].proxies)]

\* Another assignment than the group's list has is refused, not replaced.
HasRoute(i, g) == group[g].proxies # {} /\ Routed(i, g).proxy[<<i, g>>] \in group[g].proxies

\* A sign-in, or a check that fails and deletes the profile it made: only the
\* assignment stays.
RouteVisitor(p, g) ==
    /\ group[g].proxies # {}
    /\ \E i \in Visited(p) : books.proxy[<<i, g>>] = None /\ books' = Routed(i, g)
    /\ UNCHANGED <<group, scope, control, send, orphans, history, events>>

\* An onboarding ends, whatever the campaign does: the account is linked, active,
\* and works for the group unless another is selected.
Enrol(p, g) ==
    /\ group[g].there /\ group[g].active /\ group[g].verified /\ group[g].chat # None /\ Event
    /\ \E i \in Visited(p) :
        /\ Row(i).status # "disabled" /\ HasRoute(i, g)
        /\ books' = [Routed(i, g) EXCEPT !.profile[i] = [phone |-> p, status |-> "active"], !.links = @ \cup {<<i, g>>}]
        /\ IF scope[i].group = None
           THEN /\ scope' = [scope EXCEPT ![i] = [group |-> g, consent |-> "active"]]
                /\ chosen' = chosen \cup {<<p, g>>}
           ELSE UNCHANGED <<scope, chosen>>
    /\ UNCHANGED <<group, control, send, orphans, confirmed>>

OwnerStep ==
    \/ \E g \in Groups : AddGroup(g) \/ ChangeLink(g) \/ SetProxies(g) \/ SetActive(g) \/ Verify(g) \/ DeleteGroup(g)
    \/ \E i \in Ids, g \in Groups : SelectScope(i, g) \/ RemoveProfile(i, g)
    \/ \E i \in Ids : Disable(i)
    \/ \E p, q \in Phones, g \in Groups : AddProfile(p, g) \/ BulkAdd(p, q, g)
    \/ \E g \in Groups : CleanupFails(g) \/ \E i \in Ids : DeleteOrphan(g, i)

AccountStep == (\E i \in Ids : Activate(i)) \/ (\E p \in Phones, g \in Groups : RouteVisitor(p, g) \/ Enrol(p, g))

--------------------------------------------------------------------------------
(* Sends *)

ActiveLinks == {r \in books.links : Row(r[1]).status = "active" /\ group[r[2]].active}
OnRoutes == {r[1] : r \in ActiveLinks}
AllowedRoutes == {r \in ActiveLinks : Allows(Migrated(OnRoutes), r[1], r[2])}

\* materialize_weekly_plans
Materialize ==
    /\ books' = Assigned(Backfilled(books), AllowedRoutes)
    /\ scope' = Migrated(OnRoutes) /\ chosen' = chosen \cup MayMigrate(OnRoutes)

Start ==
    /\ Idle /\ control' = "running" /\ Materialize
    /\ UNCHANGED <<group, send, orphans, confirmed, events>>

\* The worker is cancelled and waited for; a test goes on.
Stop ==
    /\ ~Idle /\ control' = "stopped" /\ send' = [send EXCEPT ![Worker] = NoJob]
    /\ UNCHANGED <<group, books, scope, orphans, history, events>>

BeginTest ==
    /\ Idle /\ send[Test] = NoJob
    /\ control' = "testing" /\ send' = [send EXCEPT ![Test].at = "begun"] /\ Materialize
    /\ UNCHANGED <<group, orphans, confirmed, events>>

\* A profile and its group are read, and the job goes on from what was read.
Claim(q) ==
    /\ IF q = Worker THEN control = "running" /\ send[q] = NoJob ELSE send[q].at = "begun"
    /\ \E r \in AllowedRoutes :
        /\ Assigned(books, AllowedRoutes).proxy[r] # None
        /\ send' = [send EXCEPT ![q] = [NoJob EXCEPT !.at = "claimed", !.id = r[1], !.phone = Row(r[1]).phone,
                                                    !.group = r[2], !.rev = group[r[2]].rev]]
    /\ books' = Assigned(books, AllowedRoutes)
    /\ scope' = Migrated(OnRoutes) /\ chosen' = chosen \cup MayMigrate(OnRoutes)
    /\ UNCHANGED <<group, control, orphans, confirmed, events>>

\* Mutant: any verified destination will do, whatever the link was at the claim.
ApprovedAnyLink(q) ==
    /\ Allows(Migrated({send[q].id}), send[q].id, send[q].group)
    /\ group[send[q].group].verified /\ group[send[q].group].chat # None

Approved(q) ==
    /\ Allows(Migrated({send[q].id}), send[q].id, send[q].group)
    /\ group[send[q].group].there /\ group[send[q].group].rev = send[q].rev
    /\ group[send[q].group].verified /\ group[send[q].group].chat # None

\* Connected, just before the provider is asked anything.
Approve(q) ==
    /\ send[q].at = "claimed" /\ Approved(q)
    /\ send' = [send EXCEPT ![q].at = "approved", ![q].chat = group[send[q].group].chat]
    /\ scope' = Migrated({send[q].id}) /\ chosen' = chosen \cup MayMigrate({send[q].id})
    /\ UNCHANGED <<group, books, control, orphans, confirmed, events>>

\* A failed connection is made again with the same job.
RetrySend(q) ==
    /\ send[q].at = "approved" /\ send' = [send EXCEPT ![q].at = "claimed", ![q].chat = None]
    /\ UNCHANGED <<group, books, scope, control, orphans, history, events>>

\* Mutant: a test ends without giving the campaign back.
SendEndsQuietly(q) ==
    /\ send[q] # NoJob /\ send' = [send EXCEPT ![q] = NoJob]
    /\ UNCHANGED <<group, books, scope, control, orphans, history, events>>

\* Called or not, the job ends; a test gives the campaign back if it still has it.
SendEnds(q) ==
    /\ send[q] # NoJob /\ send' = [send EXCEPT ![q] = NoJob]
    /\ control' = IF q = Test /\ control = "testing" THEN "stopped" ELSE control
    /\ UNCHANGED <<group, books, scope, orphans, history, events>>

SendStep == Start \/ Stop \/ BeginTest \/ \E q \in Senders : Claim(q) \/ Approve(q) \/ RetrySend(q) \/ SendEnds(q)

--------------------------------------------------------------------------------
\* The next process migrates what it finds before it serves.
Restart ==
    /\ Event
    /\ control' = "stopped" /\ send' = [q \in Senders |-> NoJob] /\ orphans' = [g \in Groups |-> {}]
    /\ group' = [g \in Groups |-> [group[g] EXCEPT !.verified = @ \/ group[g].chat # None]]
    /\ books' = Backfilled(books)
    /\ scope' = Migrated(Ids) /\ chosen' = chosen \cup MayMigrate(Ids)
    /\ UNCHANGED confirmed

Next == OwnerStep \/ AccountStep \/ SendStep \/ Restart

Spec == Init /\ [][Next]_vars

--------------------------------------------------------------------------------
(* Properties *)

\* Type invariant.
ScopeTypeOK ==
    /\ group \in [Groups -> [there : BOOLEAN, active : BOOLEAN, rev : Nat, chat : Chats \cup {None},
                             verified : BOOLEAN, proxies : SUBSET Proxies]]
    /\ \A i, j \in Ids : There(i) /\ Row(i).phone = Row(j).phone => i = j
    /\ \A l \in books.links : l \in Routes /\ There(l[1]) /\ group[l[2]].there
    /\ books.day \in [Ids -> (0..Days-1) \cup {None}]
    /\ control \in {"stopped", "running", "testing"}
    /\ (control = "testing" => send[Test] # NoJob) /\ (send[Worker] # NoJob => control = "running")

\* A verified destination is a chat that an owner confirmed for this very link:
\* through changes of the link, confirmations of stale pages, deletions and the
\* migration that marks every group with a chat as verified at each start.
VerifiedWasConfirmed ==
    \A g \in Groups : group[g].verified => confirmed[g] = <<group[g].rev, group[g].chat>>

\* The chat a send is approved for is the one its owner confirmed for the very
\* link the job was claimed with, and the group was chosen for the account,
\* whatever the owner did between the two: a new link is never followed in a
\* pass that began with the old one (_require_send_destination).
NoSilentRedirect ==
    [][\A q \in Senders : send[q].at = "claimed" /\ send'[q].at = "approved" =>
          /\ confirmed[send[q].group] = <<send[q].rev, send'[q].chat>>
          /\ <<Row(send[q].id).phone, send[q].group>> \in chosen']_vars

Holding(q) ==
    /\ confirmed[send[q].group] = <<send[q].rev, send[q].chat>>
    /\ Allows(scope, send[q].id, send[q].group) /\ Row(send[q].id).phone = send[q].phone

\* What was approved for the worker's send is still so when the call is made:
\* nobody confirms, unlinks, selects or deletes while the campaign runs.
ApprovalHolds == send[Worker].at = "approved" => Holding(Worker)

\* "A send must use that exact approved revision; a link change therefore cannot
\* be silently resolved and sent": from here the test calls the provider without
\* another look.
TestUsesApprovedRevision ==
    send[Test].at = "approved" => group[send[Test].group].verified /\ group[send[Test].group].rev = send[Test].rev

\* An account stays with its weekday, and with its proxy for as long as the
\* group's list has it, whatever is added, removed or assigned around it.
AssignmentsStick ==
    [][\A i \in Ids : /\ books.day[i] # None => books'.day[i] = books.day[i]
                      /\ \A g \in Groups : books.proxy[<<i, g>>] \in group'[g].proxies
                                           => books'.proxy[<<i, g>>] = books.proxy[<<i, g>>]]_vars
================================================================================

----------------------------- MODULE TenancyProofs -----------------------------
(* For any number of tenants, tokens and deletions: an expired subscription's *)
(* campaign is stopped once the loop has noted it, a tenant that is there has *)
(* lost no database, and a session that was ended lets nobody in.             *)
EXTENDS Tenancy, TLAPS

USE DEF found

--------------------------------------------------------------------------------
(* Expired subscriptions *)

Subscriptions ==
    /\ row \in [Tenants -> {"none", "there", "gone"}]
    /\ stopped \subseteq Tenants /\ due \subseteq Tenants /\ ending \in Tenants \cup {None}
    /\ paid \in [Tenants -> {"never", "paid", "expired"}] /\ recent \in [Tenants -> BOOLEAN]
    /\ start \in [Tenants -> [at : {"none", "checked"}, fine : BOOLEAN]]
    /\ task \in [Tenants -> {"none", "paid", "excused", "forgotten"}]

\* What the loop has on its list: a Start under way may not make a paid campaign
\* of an expired subscription, and one paid again was extended since the last
\* round, so that it is taken off the list before it can expire.
OnTheList(t) ==
    /\ row[t] # "none"
    /\ paid[t] = "expired" => task[t] # "paid" /\ start[t].fine = FALSE
    /\ Paid(t) => recent[t]

\* The same holds of the one whose worker the loop waits for.
StoppedInv ==
    /\ Subscriptions /\ \A t \in due : row[t] # "none"
    /\ \A t \in Tenants : t \in stopped \/ t = ending => OnTheList(t)

LEMMA StoppedInit == Init => StoppedInv
BY TenancyAssumption DEF Init, StoppedInv, Subscriptions, OnTheList, NoStart

\* Steps that change rows only end tenants, or begin one not on the list.
LEMMA StoppedRows ==
  ASSUME StoppedInv, NEW t \in Tenants, UNCHANGED campaigns,
         row' = row \/ row' = [row EXCEPT ![t] = "gone"] \/ (row[t] = "none" /\ row' = [row EXCEPT ![t] = "there"])
  PROVE  StoppedInv'
<1>1. Subscriptions' /\ UNCHANGED <<paid, recent, stopped, due, ending, start, task>>
  BY DEF StoppedInv, Subscriptions, campaigns
<1>2. \A u \in Tenants : /\ row[u] # "none" => row'[u] # "none"
                         /\ row[u] # "none" /\ row'[u] = "there" => row[u] = "there"
  BY DEF StoppedInv, Subscriptions
<1>3. ASSUME NEW u \in Tenants, u \in stopped' \/ u = ending' PROVE OnTheList(u)'
  BY <1>1, <1>2, <1>3 DEF StoppedInv, Subscriptions, OnTheList, Paid, Registered
<1>4. \A u \in due' : row'[u] # "none"
  BY <1>1, <1>2 DEF StoppedInv, Subscriptions
<1> QED BY <1>1, <1>3, <1>4 DEF StoppedInv

\* A stopped worker does no paid work, and the Start under way will do none.
LEMMA StopsWork ==
  ASSUME StoppedInv, NEW t \in Tenants, StopWorker(t), UNCHANGED <<row, recent>>,
         stopped' \subseteq Tenants, due' \subseteq due, ending' \in Tenants \cup {None},
         \A u \in Tenants \ {t} : u \in stopped' \/ u = ending' => u \in stopped \/ u = ending,
         t \in stopped' \/ t = ending' => t \in stopped \/ t = ending \/ (row[t] # "none" /\ ~Paid(t)),
         paid' = paid \/ paid' = [paid EXCEPT ![t] = "expired"]
  PROVE  StoppedInv'
<1>1. /\ task[t] \in {"none", "paid", "excused", "forgotten"} /\ start[t] \in [at : {"none", "checked"}, fine : BOOLEAN]
      /\ paid[t] \in {"never", "paid", "expired"}
  BY DEF StoppedInv, Subscriptions
<1>2. [start[t] EXCEPT !.fine = FALSE] \in [at : {"none", "checked"}, fine : BOOLEAN]
  BY <1>1
<1>3. /\ task' = [task EXCEPT ![t] = IF task[t] = "forgotten" THEN "forgotten" ELSE "none"]
      /\ start' = [start EXCEPT ![t] = [start[t] EXCEPT !.fine = FALSE]]
  BY DEF StopWorker, StoppedInv, Subscriptions
<1>4. Subscriptions'
  BY <1>1, <1>2, <1>3 DEF StoppedInv, Subscriptions
<1>5. task'[t] # "paid" /\ start'[t].fine = FALSE /\ (paid'[t] = "paid" => paid[t] = "paid")
  BY <1>1, <1>3 DEF StoppedInv, Subscriptions
<1>6. \A u \in Tenants \ {t} : task'[u] = task[u] /\ start'[u] = start[u] /\ paid'[u] = paid[u]
  BY <1>3 DEF StoppedInv, Subscriptions
<1>7. ASSUME NEW u \in Tenants, u \in stopped' \/ u = ending' PROVE OnTheList(u)'
  <2>1. CASE u = t
    BY <1>5, <1>7, <2>1 DEF StoppedInv, OnTheList, Paid, Registered
  <2>2. CASE u # t
    BY <1>6, <1>7, <2>2 DEF StoppedInv, Subscriptions, OnTheList, Paid, Registered
  <2> QED BY <2>1, <2>2
<1> QED BY <1>4, <1>7 DEF StoppedInv

LEMMA StoppedCampaign ==
  ASSUME StoppedInv, NEW t \in Tenants, CampaignStep(t)
  PROVE  StoppedInv'
<1> USE DEF StoppedInv, Subscriptions, OnTheList, Paid, Registered, books
<1>1. CASE Extend(t)
  BY <1>1 DEF Extend
<1>2. CASE Expire(t)
  BY <1>2 DEF Expire
<1>3. CASE Revoke(t)
  <2>1. StopWorker(t) /\ UNCHANGED <<row, recent, found>> /\ paid' = [paid EXCEPT ![t] = "expired"]
    BY <1>3 DEF Revoke
  <2> QED BY <2>1, StopsWork
<1>4. CASE Scan(t)
  BY <1>4 DEF Scan, campaigns
<1>5. ASSUME NEW acting \in BOOLEAN, StartChecks(t, acting)
      PROVE  StoppedInv'
  <2>1. [at |-> "checked", fine |-> Paid(t)] \in [at : {"none", "checked"}, fine : BOOLEAN]
    OBVIOUS
  <2> QED BY <1>5, <2>1 DEF StartChecks
<1>6. CASE StartSpawns(t)
  BY <1>6 DEF StartSpawns, NoStart
<1>7. CASE WatchdogRestarts(t)
  BY <1>7 DEF WatchdogRestarts
<1>8. CASE WorkerWorks(t)
  BY <1>8 DEF WorkerWorks
<1> QED BY <1>1, <1>2, <1>3, <1>4, <1>5, <1>6, <1>7, <1>8 DEF CampaignStep

\* Between the look and the note a subscription may be extended, which counts as
\* recent until the next round begins.
LEMMA StoppedRound ==
  ASSUME StoppedInv, Round
  PROVE  StoppedInv'
<1> USE DEF StoppedInv, Subscriptions, OnTheList, Paid, Registered, books
<1>1. CASE Tick
  <2>1. \A t \in Tenants : t \in stopped' => t \in stopped /\ ~Paid(t)
    BY <1>1 DEF Tick, PaidAgain
  <2>2. /\ UNCHANGED <<row, paid, start, task>> /\ stopped' \subseteq Tenants
        /\ due' \subseteq Tenants /\ (\A t \in due' : row[t] = "there") /\ ending' = None /\ recent' \in [Tenants -> BOOLEAN]
    BY <1>1 DEF Tick
  <2> QED BY <2>1, <2>2, TenancyAssumption
<1>2. ASSUME NEW t \in Tenants, TickLooks(t)
      PROVE  StoppedInv'
  <2>1. CASE UNCHANGED <<stopped, ending, start, task>>
    BY <1>2, <2>1 DEF TickLooks
  <2>2. CASE t \notin stopped /\ ~Paid(t) /\ StopWorker(t)
    <3>1. UNCHANGED <<row, paid, recent>> /\ due' \subseteq due /\ stopped' \subseteq Tenants /\ ending' \in Tenants \cup {None}
      BY <1>2, <2>2 DEF TickLooks
    <3> QED BY <1>2, <2>2, <3>1, StopsWork DEF TickLooks
  <2> QED BY <1>2, <2>1, <2>2 DEF TickLooks
<1>3. CASE TickNotes
  BY <1>3, TenancyAssumption DEF TickNotes
<1>4. CASE TickFails
  BY <1>4, TenancyAssumption DEF TickFails
<1> QED BY <1>1, <1>2, <1>3, <1>4 DEF Round

LEMMA StoppedDeletion ==
  ASSUME StoppedInv, NEW d \in Deleters, DeletionStep(d)
  PROVE  StoppedInv'
<1> USE DEF StoppedInv, Subscriptions, OnTheList, Paid, Registered
<1>1. CASE \E t \in Tenants : BeginDeletion(d, t)
  BY <1>1 DEF BeginDeletion, books, campaigns
<1>2. CASE StopsForDeletion(d)
  <2> DEFINE t == deletion[d].tenant
  <2>1. StopWorker(t) /\ UNCHANGED <<row, paid, recent, found>>
    BY <1>2 DEF StopsForDeletion, books
  <2>2. CASE t \in Tenants
    <3> HIDE DEF t
    <3> QED BY <2>1, <2>2, StopsWork
  <2>3. CASE t \notin Tenants
    <3> HIDE DEF t
    <3>1. UNCHANGED <<start, task>>
      BY <2>1, <2>3 DEF StopWorker
    <3> QED BY <2>1, <3>1
  <2> QED BY <2>2, <2>3
<1>3. CASE Bumps(d)
  BY <1>3 DEF Bumps, campaigns
<1>4. CASE Clears(d)
  BY <1>4 DEF Clears, books, campaigns
<1>5. CASE Moves(d)
  BY <1>5 DEF Moves, books, campaigns
<1>6. CASE Deletes(d)
  <2>1. row' = row \/ row' = [row EXCEPT ![deletion[d].tenant] = "gone"]
    BY <1>6 DEF Deletes
  <2> QED BY <1>6, <2>1 DEF Deletes, campaigns
<1>7. CASE Restores(d)
  BY <1>7 DEF Restores, books, campaigns
<1>8. CASE DropsWorker(d)
  BY <1>8 DEF DropsWorker, books
<1>9. CASE Purges(d)
  BY <1>9 DEF Purges, books, campaigns
<1> QED BY <1>1, <1>2, <1>3, <1>4, <1>5, <1>6, <1>7, <1>8, <1>9 DEF DeletionStep

LEMMA StoppedNext ==
  ASSUME StoppedInv, [Next]_vars
  PROVE  StoppedInv'
<1>1. CASE UNCHANGED <<row, campaigns>>
  BY <1>1 DEF StoppedInv, Subscriptions, OnTheList, campaigns, Paid, Registered
<1>2. ASSUME NEW t \in Tenants, Register(t) \/ Registers(t) \/ RegistrationFails(t)
      PROVE  StoppedInv'
  BY <1>2, StoppedRows DEF Register, Registers, RegistrationFails
<1>3. ASSUME NEW k \in Tokens, SessionStep(k)
      PROVE  UNCHANGED <<row, campaigns>>
  <2>1. CASE \E t \in Tenants \cup {None} : Authenticate(k, t)
    BY <2>1 DEF Authenticate, books
  <2>2. CASE Prepare(k) \/ Issue(k)
    BY <2>2 DEF Prepare, Issue, books
  <2>3. CASE Validate(k) \/ Refuse(k) \/ Serve(k)
    BY <2>3 DEF Validate, Refuse, Serve, books
  <2>4. CASE \E j \in Tokens, t \in Tenants : Impersonate(k, j, t)
    BY <2>4 DEF Impersonate, books
  <2>5. CASE LogOut(k) \/ Drop(k) \/ CacheExpires(k)
    BY <2>5 DEF LogOut, Drop, CacheExpires, books
  <2> QED BY <1>3, <2>1, <2>2, <2>3, <2>4, <2>5 DEF SessionStep
<1>4. CASE WriteEpoch
  BY <1>1, <1>4 DEF WriteEpoch, books
<1>5. CASE Restart
  BY <1>5, TenancyAssumption DEF Restart, StoppedInv, Subscriptions, NoStart
<1>6. CASE UNCHANGED vars
  BY <1>1, <1>6 DEF vars, books
<1> QED BY <1>1, <1>2, <1>3, <1>4, <1>5, <1>6, StoppedCampaign, StoppedDeletion, StoppedRound DEF Next

\* A campaign started on a subscription does not outlive its expiry for longer
\* than until the loop comes round (subscription_jobs._tick, revoke_subscription).
THEOREM ExpiredCampaignsStop == Spec => []ExpiredIsStopped
<1>1. StoppedInv => ExpiredIsStopped
  BY DEF StoppedInv, Subscriptions, OnTheList, ExpiredIsStopped
<1> QED BY <1>1, StoppedInit, StoppedNext, PTL DEF Spec

--------------------------------------------------------------------------------
(* Files *)

DiskTypes ==
    /\ row \in [Tenants -> {"none", "there", "gone"}] /\ made \in [Tenants -> Nat] /\ joining \subseteq Tenants
    /\ live \in [Tenants -> Nat \cup {None}] /\ aside \in [Tenants -> Nat \cup {None}]

TokenType == [kind : {"none", "verified", "prepared", "user", "admin", "acting"}, of : Tokens \cup {None},
              tenant : Tenants \cup {None}, version : Nat, epoch : Nat]

ActorTypes ==
    /\ version \in [Tenants -> Nat] /\ epoch \in Nat
    /\ token \in [Tokens -> TokenType]
    /\ deletion \in [Deleters -> [tenant : Tenants \cup {None}, moved : BOOLEAN,
                                  at : {"none", "stop", "bump", "clear", "move", "delete", "restore", "drop", "purge"}]]
    /\ start \in [Tenants -> [at : {"none", "checked"}, fine : BOOLEAN]]
    /\ task \in [Tenants -> {"none", "paid", "excused", "forgotten"}]

Kept(t) == 1 .. made[t] \subseteq {live[t], aside[t]}

\* Nobody works for a tenant whose id is not given yet.
Unborn(t) ==
    /\ made[t] = 0 /\ t \notin joining /\ task[t] = "none" /\ start[t].at = "none"
    /\ \A k \in Tokens : token[k].tenant # t

\* A deletion that will remove files has ended their tenant.
Purging(d) ==
    deletion[d].at # "none" =>
        /\ deletion[d].tenant \in Tenants /\ row[deletion[d].tenant] # "none"
        /\ deletion[d].at \in {"drop", "purge"} => row[deletion[d].tenant] = "gone"

FilesInv ==
    /\ DiskTypes /\ ActorTypes /\ KeepsFiles
    /\ \A t \in Tenants : row[t] = "none" => Unborn(t)
    /\ \A d \in Deleters : Purging(d)

LEMMA FilesInit == Init => FilesInv
<1> SUFFICES ASSUME Init PROVE FilesInv
  OBVIOUS
<1> PICK t \in Tenants :
        /\ row = [u \in Tenants |-> IF u = t THEN "there" ELSE "none"]
        /\ live = [u \in Tenants |-> IF u = t THEN 1 ELSE None] /\ aside = [u \in Tenants |-> None]
        /\ made = [u \in Tenants |-> IF u = t THEN 1 ELSE 0]
        /\ deletion = [d \in Deleters |-> NoDeletion]
        /\ token = [k \in Tokens |-> NoToken] /\ joining = {}
        /\ version = [u \in Tenants |-> 0] /\ epoch = 0
        /\ start = [u \in Tenants |-> NoStart] /\ task = [u \in Tenants |-> "none"]
  BY DEF Init
<1>1. DiskTypes /\ ActorTypes
  BY DEF DiskTypes, ActorTypes, TokenType, NoToken, NoDeletion, NoStart
<1>2. KeepsFiles
  BY DEF KeepsFiles, Registered
<1>3. \A u \in Tenants : row[u] = "none" => Unborn(u)
  BY TenancyAssumption DEF Unborn, NoToken, NoStart
<1>4. \A d \in Deleters : Purging(d)
  BY DEF Purging, NoDeletion
<1> QED BY <1>1, <1>2, <1>3, <1>4 DEF FilesInv

\* Making a tenant's directory anew takes nothing away.
LEMMA TouchKeeps ==
  ASSUME FilesInv, NEW t \in Tenants, row[t] # "none", Touch(t)
  PROVE  /\ live' \in [Tenants -> Nat \cup {None}] /\ aside' \in [Tenants -> Nat \cup {None}] /\ made' \in [Tenants -> Nat]
         /\ \A u \in Tenants : Kept(u) => Kept(u)'
         /\ \A u \in Tenants : row[u] = "none" => made'[u] = made[u]
<1> USE DEF FilesInv, DiskTypes
<1>1. CASE UNCHANGED disk
  BY <1>1 DEF disk, Kept
<1>2. CASE live[t] = None /\ made' = [made EXCEPT ![t] = @ + 1] /\ live' = [live EXCEPT ![t] = made[t] + 1] /\ UNCHANGED aside
  <2>1. made[t] \in Nat
    OBVIOUS
  <2>2. ASSUME NEW u \in Tenants, Kept(u) PROVE Kept(u)'
    <3>1. CASE u = t
      <4>1. made'[t] = made[t] + 1 /\ live'[t] = made[t] + 1 /\ aside'[t] = aside[t]
        BY <1>2
      <4>2. ASSUME NEW n \in 1 .. made[t] + 1 PROVE n \in {made[t] + 1, aside[t]}
        <5>1. n = made[t] + 1 \/ n \in 1 .. made[t]
          BY <2>1
        <5>2. n \in Nat /\ None \notin Nat
          BY <2>1, TenancyAssumption
        <5> QED BY <5>1, <5>2, <2>2, <3>1, <1>2 DEF Kept
      <4> QED BY <4>1, <4>2, <3>1 DEF Kept
    <3>2. CASE u # t
      BY <1>2, <2>2, <3>2 DEF Kept
    <3> QED BY <3>1, <3>2
  <2> QED BY <1>2, <2>1, <2>2
<1> QED BY <1>1, <1>2 DEF Touch

\* Steps that leave the rows and the deletions alone, and may make the
\* directory of a tenant that has been born.
LEMMA FilesTouched ==
  ASSUME FilesInv, UNCHANGED <<row, deletion>>, ActorTypes', joining' \subseteq joining,
         UNCHANGED disk \/ \E t \in Tenants : row[t] # "none" /\ Touch(t),
         \A u \in Tenants : row[u] = "none" =>
             task'[u] = "none" /\ start'[u].at = "none" /\ \A k \in Tokens : token'[k].tenant # u
  PROVE  FilesInv'
<1>1. /\ live' \in [Tenants -> Nat \cup {None}] /\ aside' \in [Tenants -> Nat \cup {None}] /\ made' \in [Tenants -> Nat]
      /\ \A u \in Tenants : Kept(u) => Kept(u)'
      /\ \A u \in Tenants : row[u] = "none" => made'[u] = made[u]
  <2>1. CASE UNCHANGED disk
    BY <2>1 DEF disk, Kept, FilesInv, DiskTypes
  <2> QED BY <2>1, TouchKeeps
<1>2. DiskTypes'
  BY <1>1 DEF FilesInv, DiskTypes
<1>3. KeepsFiles'
  BY <1>1 DEF FilesInv, KeepsFiles, Kept, Registered
<1>4. \A t \in Tenants : row'[t] = "none" => Unborn(t)'
  BY <1>1 DEF FilesInv, Unborn
<1>5. \A d \in Deleters : Purging(d)'
  BY DEF FilesInv, Purging
<1> QED BY <1>2, <1>3, <1>4, <1>5 DEF FilesInv

OnDisk == UNCHANGED disk \/ \E t \in Tenants : row[t] # "none" /\ Touch(t)

\* What a step on tokens does to the files and to the tenants that have no id.
ForTheBorn ==
    /\ token' \in [Tokens -> TokenType] /\ OnDisk
    /\ \A u \in Tenants : row[u] = "none" => \A j \in Tokens : token'[j].tenant # u

\* A token issued, or changed, belongs to a tenant that has an id.
LEMMA TokenChanges ==
  ASSUME FilesInv, NEW j \in Tokens, NEW new \in TokenType, token' = [token EXCEPT ![j] = new],
         new.tenant = None \/ row[new.tenant] # "none", OnDisk
  PROVE  ForTheBorn
BY TenancyAssumption DEF FilesInv, ActorTypes, Unborn, ForTheBorn

LEMMA SessionsForTheBorn ==
  ASSUME FilesInv, NEW k \in Tokens, SessionStep(k)
  PROVE  ForTheBorn
<1>1. /\ token \in [Tokens -> TokenType] /\ epoch \in Nat
      /\ \A t \in Tenants \cup {None} : VersionOf(t) \in Nat
      /\ \A j \in Tokens : token[j].tenant = None \/ (token[j].tenant \in Tenants /\ row[token[j].tenant] # "none")
  BY DEF FilesInv, ActorTypes, TokenType, Unborn, VersionOf
<1>2. UNCHANGED token /\ OnDisk => ForTheBorn
  BY DEF FilesInv, ActorTypes, Unborn, ForTheBorn
<1>3. CASE \E t \in Tenants \cup {None} : Authenticate(k, t)
  <2> PICK t \in Tenants \cup {None} : Authenticate(k, t)
    BY <1>3
  <2> DEFINE new == [NoToken EXCEPT !.kind = "verified", !.tenant = t]
  <2>1. new \in TokenType /\ new.tenant = t
    BY DEF NoToken, TokenType
  <2>2. token' = [token EXCEPT ![k] = new] /\ OnDisk /\ (t = None \/ row[t] # "none")
    BY DEF Authenticate, Registered, OnDisk
  <2> HIDE DEF new
  <2> QED BY <2>1, <2>2, TokenChanges
<1>4. CASE Prepare(k)
  <2> DEFINE new == [token[k] EXCEPT !.kind = "prepared"]
  <2>1. new \in TokenType /\ new.tenant = token[k].tenant
    BY <1>1 DEF TokenType
  <2>2. token' = [token EXCEPT ![k] = new] /\ OnDisk
    BY <1>1, <1>4 DEF Prepare, OnDisk
  <2> HIDE DEF new
  <2> QED BY <1>1, <2>1, <2>2, TokenChanges
<1>5. CASE Issue(k)
  <2> DEFINE new == [kind |-> IF token[k].tenant = None THEN "admin" ELSE "user", tenant |-> token[k].tenant,
                     version |-> VersionOf(token[k].tenant), epoch |-> epoch, of |-> None]
  <2>1. new \in TokenType /\ new.tenant = token[k].tenant
    BY <1>1 DEF TokenType
  <2>2. token' = [token EXCEPT ![k] = new] /\ OnDisk
    BY <1>5 DEF Issue, CreateToken, OnDisk
  <2> HIDE DEF new
  <2> QED BY <1>1, <2>1, <2>2, TokenChanges
<1>6. CASE Validate(k) \/ Refuse(k)
  BY <1>2, <1>6 DEF Validate, Refuse, OnDisk
<1>7. CASE Serve(k)
  BY <1>1, <1>2, <1>7 DEF Serve, OnDisk
<1>8. CASE \E j \in Tokens, t \in Tenants : Impersonate(k, j, t)
  <2> PICK j \in Tokens, t \in Tenants : Impersonate(k, j, t)
    BY <1>8
  <2> DEFINE new == [kind |-> "acting", tenant |-> t, version |-> VersionOf(t), epoch |-> epoch, of |-> k]
  <2>1. new \in TokenType /\ new.tenant = t
    BY <1>1 DEF TokenType
  <2>2. token' = [token EXCEPT ![j] = new] /\ row[t] # "none" /\ OnDisk
    BY DEF Impersonate, CreateToken, Registered, OnDisk
  <2> HIDE DEF new
  <2> QED BY <2>1, <2>2, TokenChanges
<1>9. CASE LogOut(k) \/ Drop(k) \/ CacheExpires(k)
  BY <1>2, <1>9 DEF LogOut, Drop, CacheExpires, OnDisk
<1> QED BY <1>3, <1>4, <1>5, <1>6, <1>7, <1>8, <1>9 DEF SessionStep

LEMMA FilesSession ==
  ASSUME FilesInv, NEW k \in Tokens, SessionStep(k)
  PROVE  FilesInv'
<1>1. UNCHANGED <<row, version, epoch, deletion, joining, start, task>>
  <2>1. CASE \E t \in Tenants \cup {None} : Authenticate(k, t)
    BY <2>1 DEF Authenticate, books, campaigns
  <2>2. CASE Prepare(k) \/ Issue(k)
    BY <2>2 DEF Prepare, Issue, books, campaigns
  <2>3. CASE Validate(k) \/ Refuse(k) \/ Serve(k)
    BY <2>3 DEF Validate, Refuse, Serve, books, campaigns
  <2>4. CASE \E j \in Tokens, t \in Tenants : Impersonate(k, j, t)
    BY <2>4 DEF Impersonate, books, campaigns
  <2>5. CASE LogOut(k) \/ Drop(k) \/ CacheExpires(k)
    BY <2>5 DEF LogOut, Drop, CacheExpires, books, campaigns
  <2> QED BY <2>1, <2>2, <2>3, <2>4, <2>5 DEF SessionStep
<1>2. ForTheBorn
  BY SessionsForTheBorn
<1>3. ActorTypes'
  BY <1>1, <1>2 DEF FilesInv, ActorTypes, ForTheBorn
<1>4. \A u \in Tenants : row[u] = "none" => task'[u] = "none" /\ start'[u].at = "none"
  BY <1>1 DEF FilesInv, Unborn
<1> QED BY <1>1, <1>2, <1>3, <1>4, FilesTouched DEF ForTheBorn, OnDisk

CampaignTypes ==
    /\ start \in [Tenants -> [at : {"none", "checked"}, fine : BOOLEAN]]
    /\ task \in [Tenants -> {"none", "paid", "excused", "forgotten"}]
    /\ \A u \in Tenants : row[u] = "none" => task[u] = "none" /\ start[u].at = "none"

LEMMA CampaignTyped == FilesInv => CampaignTypes
BY DEF FilesInv, ActorTypes, Unborn, CampaignTypes

LEMMA CampaignsForTheBorn ==
  ASSUME FilesInv, Round \/ \E t \in Tenants : CampaignStep(t), UNCHANGED row
  PROVE  CampaignTypes'
<1>1. CampaignTypes
  BY CampaignTyped
<1> USE DEF CampaignTypes
<1>2. ASSUME NEW t \in Tenants, Extend(t) \/ Expire(t) \/ Scan(t)
      PROVE  CampaignTypes'
  BY <1>1, <1>2 DEF Extend, Expire, Scan, campaigns
<1>3. ASSUME NEW t \in Tenants, Revoke(t)
      PROVE  CampaignTypes'
  BY <1>1, <1>3 DEF Revoke, StopWorker
<1>4. ASSUME NEW t \in Tenants, NEW acting \in BOOLEAN, StartChecks(t, acting)
      PROVE  CampaignTypes'
  <2>1. [at |-> "checked", fine |-> Paid(t)] \in [at : {"none", "checked"}, fine : BOOLEAN]
    BY DEF FilesInv, DiskTypes, Paid, Registered
  <2> QED BY <1>1, <1>4, <2>1 DEF StartChecks, Registered
<1>5. ASSUME NEW t \in Tenants, StartSpawns(t)
      PROVE  CampaignTypes'
  BY <1>1, <1>5 DEF StartSpawns, NoStart
<1>6. ASSUME NEW t \in Tenants, WatchdogRestarts(t)
      PROVE  CampaignTypes'
  BY <1>1, <1>6 DEF WatchdogRestarts
<1>7. ASSUME NEW t \in Tenants, WorkerWorks(t)
      PROVE  CampaignTypes'
  BY <1>1, <1>7 DEF WorkerWorks
<1>8. CASE Tick \/ TickNotes \/ TickFails
  BY <1>1, <1>8 DEF Tick, TickNotes, TickFails
<1>9. ASSUME NEW t \in Tenants, TickLooks(t)
      PROVE  CampaignTypes'
  <2>1. UNCHANGED <<start, task>> \/ StopWorker(t)
    BY <1>9 DEF TickLooks
  <2>2. CASE StopWorker(t)
    BY <1>1, <2>2 DEF StopWorker
  <2> QED BY <1>1, <2>1, <2>2
<1> QED BY <1>2, <1>3, <1>4, <1>5, <1>6, <1>7, <1>8, <1>9 DEF CampaignStep, Round

LEMMA FilesCampaign ==
  ASSUME FilesInv, Round \/ \E t \in Tenants : CampaignStep(t)
  PROVE  FilesInv'
<1>1. UNCHANGED <<row, version, epoch, token, deletion, joining>> /\ OnDisk
  <2>1. ASSUME NEW t \in Tenants, Extend(t) \/ Expire(t) \/ Revoke(t)
        PROVE  UNCHANGED <<row, version, epoch, token, deletion, joining>> /\ OnDisk
    BY <2>1 DEF Extend, Expire, Revoke, books, sessions, OnDisk
  <2>2. ASSUME NEW t \in Tenants, Scan(t) \/ \E acting \in BOOLEAN : StartChecks(t, acting)
        PROVE  UNCHANGED <<row, version, epoch, token, deletion, joining>> /\ OnDisk
    BY <2>2 DEF Scan, StartChecks, books, sessions, Registered, OnDisk
  <2>3. ASSUME NEW t \in Tenants, StartSpawns(t) \/ WatchdogRestarts(t) \/ WorkerWorks(t)
        PROVE  UNCHANGED <<row, version, epoch, token, deletion, joining>> /\ OnDisk
    BY <2>3 DEF StartSpawns, WatchdogRestarts, WorkerWorks, books, sessions, OnDisk, FilesInv, Unborn
  <2>4. CASE Round
    BY <2>4 DEF Round, Tick, TickLooks, TickNotes, TickFails, books, sessions, OnDisk
  <2> QED BY <2>1, <2>2, <2>3, <2>4 DEF CampaignStep
<1>2. CampaignTypes'
  BY <1>1, CampaignsForTheBorn
<1>3. ActorTypes'
  BY <1>1, <1>2 DEF FilesInv, ActorTypes, CampaignTypes
<1> QED BY <1>1, <1>2, <1>3, FilesTouched DEF FilesInv, Unborn, OnDisk, CampaignTypes

LEMMA FilesRegistration ==
  ASSUME FilesInv, NEW t \in Tenants, Register(t) \/ Registers(t) \/ RegistrationFails(t)
  PROVE  FilesInv'
<1>1. CASE Register(t)
  <2>1. UNCHANGED <<version, epoch, token, deletion, start, task, live, aside, made>>
    BY <1>1 DEF Register, sessions, campaigns, disk
  <2>2. row[t] = "none" /\ row' = [row EXCEPT ![t] = "there"] /\ joining' = joining \cup {t}
    BY <1>1 DEF Register
  <2>3. DiskTypes' /\ ActorTypes'
    BY <2>1, <2>2 DEF FilesInv, DiskTypes, ActorTypes
  <2>4. KeepsFiles'
    BY <2>1, <2>2 DEF FilesInv, DiskTypes, Unborn, KeepsFiles, Registered
  <2>5. (\A u \in Tenants : row[u] = "none" => Unborn(u))' /\ (\A d \in Deleters : Purging(d))'
    BY <2>1, <2>2 DEF FilesInv, DiskTypes, Unborn, Purging
  <2> QED BY <2>3, <2>4, <2>5 DEF FilesInv
<1>2. CASE Registers(t)
  <2>1. UNCHANGED <<row, version, epoch, token, deletion, start, task>> /\ joining' \subseteq joining /\ row[t] # "none" /\ Touch(t)
    BY <1>2 DEF Registers, sessions, campaigns, FilesInv, Unborn
  <2>2. ActorTypes'
    BY <2>1 DEF FilesInv, ActorTypes
  <2> QED BY <2>1, <2>2, FilesTouched DEF FilesInv, Unborn
<1>3. CASE RegistrationFails(t)
  <2>1. UNCHANGED <<version, epoch, token, deletion, start, task, aside, made>>
    BY <1>3 DEF RegistrationFails, sessions, campaigns
  <2>2. row' = [row EXCEPT ![t] = "gone"] /\ live' = [live EXCEPT ![t] = None] /\ joining' = joining \ {t}
    BY <1>3 DEF RegistrationFails
  <2>3. DiskTypes' /\ ActorTypes'
    BY <2>1, <2>2 DEF FilesInv, DiskTypes, ActorTypes
  <2>4. KeepsFiles'
    BY <2>1, <2>2 DEF FilesInv, DiskTypes, KeepsFiles, Registered
  <2>5. (\A u \in Tenants : row[u] = "none" => Unborn(u))' /\ (\A d \in Deleters : Purging(d))'
    BY <2>1, <2>2 DEF FilesInv, DiskTypes, Unborn, Purging
  <2> QED BY <2>3, <2>4, <2>5 DEF FilesInv
<1> QED BY <1>1, <1>2, <1>3

\* Only what the deletions do to a tenant that is there, and to those whose
\* files they remove, remains to be looked at.
LEMMA FilesDeleted ==
  ASSUME FilesInv, UNCHANGED <<made, joining, token, epoch>>, ActorTypes',
         row' = row \/ \E t \in Tenants : row[t] # "none" /\ row' = [row EXCEPT ![t] = "gone"],
         live' \in [Tenants -> Nat \cup {None}], aside' \in [Tenants -> Nat \cup {None}],
         \A t \in Tenants : row[t] = "there" /\ row'[t] = "there" => {live[t], aside[t]} \subseteq {live'[t], aside'[t], None},
         \A t \in Tenants : row[t] = "none" => task'[t] = "none" /\ start'[t].at = "none",
         \A d \in Deleters : Purging(d)'
  PROVE  FilesInv'
<1>1. DiskTypes'
  BY DEF FilesInv, DiskTypes
<1>2. \A t \in Tenants : (row'[t] = "there" => row[t] = "there") /\ (row'[t] = "none" => row[t] = "none")
  BY DEF FilesInv, DiskTypes
<1>3. KeepsFiles'
  <2> SUFFICES ASSUME NEW t \in Tenants, row'[t] = "there", NEW n \in 1 .. made[t]
               PROVE  n \in {live'[t], aside'[t]}
    BY DEF KeepsFiles, Registered
  <2>1. n \in {live[t], aside[t]}
    BY <1>2 DEF FilesInv, KeepsFiles, Registered
  <2>2. n # None
    BY TenancyAssumption DEF FilesInv, DiskTypes
  <2> QED BY <1>2, <2>1, <2>2
<1>4. \A t \in Tenants : row'[t] = "none" => Unborn(t)'
  BY <1>2 DEF FilesInv, Unborn
<1> QED BY <1>1, <1>3, <1>4 DEF FilesInv

DeletionType == [tenant : Tenants \cup {None}, moved : BOOLEAN,
                 at : {"none", "stop", "bump", "clear", "move", "delete", "restore", "drop", "purge"}]

\* The books, and the record of every deletion under way.
Records ==
    /\ row \in [Tenants -> {"none", "there", "gone"}] /\ version \in [Tenants -> Nat]
    /\ deletion \in [Deleters -> DeletionType] /\ \A d \in Deleters : Purging(d)

Directories == live \in [Tenants -> Nat \cup {None}] /\ aside \in [Tenants -> Nat \cup {None}]

LEMMA RecordsDeletion ==
  ASSUME FilesInv, NEW d \in Deleters, DeletionStep(d)
  PROVE  Records' /\ (row' = row \/ \E t \in Tenants : row[t] # "none" /\ row' = [row EXCEPT ![t] = "gone"])
<1> DEFINE RowEnds == row' = row \/ \E t \in Tenants : row[t] # "none" /\ row' = [row EXCEPT ![t] = "gone"]
<1>1. Records
  BY DEF FilesInv, DiskTypes, ActorTypes, Records, DeletionType
<1> USE DEF Records, Purging, DeletionType
<1>2. ASSUME UNCHANGED row, version' \in [Tenants -> Nat], deletion' = [deletion EXCEPT ![d] = NoDeletion]
      PROVE  Records' /\ RowEnds
  BY <1>1, <1>2 DEF NoDeletion
<1>3. ASSUME UNCHANGED row, version' \in [Tenants -> Nat], NEW at \in {"bump", "clear", "move", "delete", "restore"},
             deletion' = [deletion EXCEPT ![d].at = at], deletion[d].at # "none"
      PROVE  Records' /\ RowEnds
  BY <1>1, <1>3
<1>4. CASE \E t \in Tenants : BeginDeletion(d, t)
  BY <1>1, <1>4 DEF BeginDeletion, Registered, books
<1>5. CASE StopsForDeletion(d) \/ Clears(d)
  BY <1>1, <1>3, <1>5 DEF StopsForDeletion, Clears, Deleting, Goto, books
<1>6. CASE Bumps(d)
  <2>1. UNCHANGED row /\ version' \in [Tenants -> Nat]
    BY <1>1, <1>6 DEF Bumps
  <2> QED BY <1>2, <1>3, <1>6, <2>1 DEF Bumps, Deleting, Goto, GiveUp
<1>7. CASE Moves(d)
  <2>1. UNCHANGED row /\ version' \in [Tenants -> Nat]
    BY <1>1, <1>7 DEF Moves, books
  <2>2. CASE deletion' = [deletion EXCEPT ![d].at = "delete", ![d].moved = TRUE]
    <3> DEFINE new == [deletion[d] EXCEPT !.at = "delete", !.moved = TRUE]
    <3>1. deletion[d] \in DeletionType /\ deletion[d].at = "move"
      BY <1>1, <1>7 DEF Moves, Deleting
    <3>2. new \in DeletionType /\ new.at = "delete" /\ new.tenant = deletion[d].tenant
      BY <3>1
    <3>3. deletion' = [deletion EXCEPT ![d] = new]
      BY <1>1, <2>2
    <3> HIDE DEF new
    <3>4. ASSUME NEW e \in Deleters PROVE Purging(e)'
      BY <1>1, <2>1, <3>1, <3>2, <3>3
    <3>5. deletion' \in [Deleters -> DeletionType]
      BY <1>1, <3>2, <3>3
    <3> QED BY <1>1, <2>1, <3>4, <3>5
  <2> QED BY <1>2, <1>3, <1>7, <2>1, <2>2 DEF Moves, Deleting, Goto, GiveUp
<1>8. CASE Deletes(d)
  BY <1>1, <1>8 DEF Deletes, Deleting, Goto
<1>9. CASE Restores(d) \/ Purges(d)
  BY <1>1, <1>2, <1>9 DEF Restores, Purges, GiveUp, books
<1>10. CASE DropsWorker(d)
  BY <1>1, <1>10 DEF DropsWorker, Deleting, Goto, books
<1> QED BY <1>4, <1>5, <1>6, <1>7, <1>8, <1>9, <1>10 DEF DeletionStep

\* A directory moved aside or back is still there, and what is purged belonged
\* to a tenant that is gone.
LEMMA DirectoriesDeletion ==
  ASSUME FilesInv, NEW d \in Deleters, DeletionStep(d)
  PROVE  /\ Directories'
         /\ \A t \in Tenants : row[t] = "there" /\ row'[t] = "there" => {live[t], aside[t]} \subseteq {live'[t], aside'[t], None}
<1>1. Directories /\ Records
  BY DEF FilesInv, DiskTypes, ActorTypes, Directories, Records, DeletionType
<1> USE DEF Directories
<1>2. ASSUME UNCHANGED disk
      PROVE  /\ Directories'
             /\ \A t \in Tenants : {live[t], aside[t]} \subseteq {live'[t], aside'[t], None}
  BY <1>1, <1>2 DEF disk
<1>3. CASE \E t \in Tenants : BeginDeletion(d, t)
  BY <1>2, <1>3 DEF BeginDeletion
<1>4. CASE StopsForDeletion(d) \/ Bumps(d) \/ Clears(d) \/ Deletes(d) \/ DropsWorker(d)
  BY <1>2, <1>4 DEF StopsForDeletion, Bumps, Clears, Deletes, DropsWorker
<1>5. CASE Moves(d)
  <2>1. deletion[d].tenant \in Tenants
    BY <1>1, <1>5 DEF Moves, Deleting, Records, Purging
  <2>2. CASE MoveAside(deletion[d].tenant)
    BY <1>1, <2>1, <2>2 DEF MoveAside
  <2> QED BY <1>2, <1>5, <2>2 DEF Moves
<1>6. CASE Restores(d)
  <2> DEFINE t == deletion[d].tenant
  <2>1. t \in Tenants
    BY <1>1, <1>6 DEF Restores, Deleting, Records, Purging
  <2>2. CASE live[t] = None /\ live' = [live EXCEPT ![t] = aside[t]] /\ aside' = [aside EXCEPT ![t] = None]
    BY <1>1, <2>1, <2>2
  <2> QED BY <1>2, <1>6, <2>2 DEF Restores
<1>7. CASE Purges(d)
  <2>1. deletion[d].tenant \in Tenants /\ row[deletion[d].tenant] = "gone"
    BY <1>1, <1>7 DEF Purges, Deleting, Records, Purging
  <2>2. CASE aside' = [aside EXCEPT ![deletion[d].tenant] = None] /\ UNCHANGED live
    BY <1>1, <2>1, <2>2
  <2> QED BY <1>2, <1>7, <2>2 DEF Purges
<1> QED BY <1>3, <1>4, <1>5, <1>6, <1>7 DEF DeletionStep

LEMMA CampaignsDeletion ==
  ASSUME FilesInv, NEW d \in Deleters, DeletionStep(d)
  PROVE  /\ CampaignTypes' /\ UNCHANGED <<made, joining, token, epoch>>
         /\ \A t \in Tenants : row[t] = "none" => task'[t] = "none" /\ start'[t].at = "none"
<1>1. CampaignTypes /\ \A t \in Tenants : row'[t] = "none" => row[t] = "none"
  BY CampaignTyped, RecordsDeletion DEF FilesInv, DiskTypes
<1>2. UNCHANGED <<made, joining, token, epoch>>
  <2>1. CASE \E t \in Tenants : BeginDeletion(d, t)
    BY <2>1 DEF BeginDeletion, books, disk, sessions
  <2>2. CASE StopsForDeletion(d) \/ Bumps(d) \/ Clears(d) \/ DropsWorker(d)
    BY <2>2 DEF StopsForDeletion, Bumps, Clears, DropsWorker, books, disk, sessions
  <2>3. CASE Moves(d) \/ Deletes(d) \/ Restores(d) \/ Purges(d)
    BY <2>3 DEF Moves, MoveAside, Deletes, Restores, Purges, books, disk, sessions
  <2> QED BY <2>1, <2>2, <2>3 DEF DeletionStep
<1> USE DEF CampaignTypes
<1>3. CASE UNCHANGED <<start, task>>
  BY <1>1, <1>2, <1>3
<1>4. CASE StopsForDeletion(d)
  BY <1>1, <1>2, <1>4 DEF StopsForDeletion, StopWorker
<1>5. CASE DropsWorker(d)
  <2>1. deletion[d].tenant \in Tenants /\ row[deletion[d].tenant] # "none"
    BY <1>5 DEF DropsWorker, Deleting, FilesInv, Purging
  <2> QED BY <1>1, <1>2, <1>5, <2>1 DEF DropsWorker
<1>6. CASE \E t \in Tenants : BeginDeletion(d, t)
  BY <1>3, <1>6 DEF BeginDeletion, campaigns
<1>7. CASE Bumps(d) \/ Clears(d) \/ Moves(d) \/ Deletes(d) \/ Restores(d) \/ Purges(d)
  BY <1>3, <1>7 DEF Bumps, Clears, Moves, Deletes, Restores, Purges, campaigns
<1> QED BY <1>4, <1>5, <1>6, <1>7 DEF DeletionStep

LEMMA FilesDeletion ==
  ASSUME FilesInv, NEW d \in Deleters, DeletionStep(d)
  PROVE  FilesInv'
<1>1. Records' /\ CampaignTypes' /\ UNCHANGED <<made, joining, token, epoch>>
  BY RecordsDeletion, CampaignsDeletion
<1>2. ActorTypes'
  BY <1>1 DEF FilesInv, ActorTypes, Records, DeletionType, CampaignTypes
<1>3. \A e \in Deleters : Purging(e)'
  BY <1>1 DEF Records
<1> QED BY <1>1, <1>2, <1>3, RecordsDeletion, DirectoriesDeletion, CampaignsDeletion, FilesDeleted DEF Directories

\* A restart puts back what was aside, unless a directory made anew is in its
\* place, and removes it only when the tenant is gone.
LEMMA FilesRestart ==
  ASSUME FilesInv, Restart
  PROVE  FilesInv'
<1>1. /\ UNCHANGED <<row, version, epoch, made>> /\ joining' = {} /\ deletion' = [d \in Deleters |-> NoDeletion]
      /\ token' = [k \in Tokens |-> IF token[k].kind \in {"verified", "prepared"} THEN NoToken ELSE token[k]]
      /\ start' = [t \in Tenants |-> NoStart] /\ task' = [t \in Tenants |-> "none"]
      /\ live' = [t \in Tenants |-> Reconciled(t)[1]] /\ aside' = [t \in Tenants |-> Reconciled(t)[2]]
  BY DEF Restart
<1>2. NoToken \in TokenType
  BY DEF NoToken, TokenType
<1>3. ActorTypes'
  BY <1>1, <1>2 DEF FilesInv, ActorTypes, NoDeletion, NoStart
<1>4. \A t \in Tenants : Reconciled(t)[1] \in Nat \cup {None} /\ Reconciled(t)[2] \in Nat \cup {None}
  BY DEF FilesInv, DiskTypes, Reconciled
<1>5. DiskTypes'
  BY <1>1, <1>4 DEF FilesInv, DiskTypes
<1>6. \A t \in Tenants : Registered(t) => {live[t], aside[t]} = {Reconciled(t)[1], Reconciled(t)[2]}
  BY DEF Reconciled
<1>7. KeepsFiles'
  BY <1>1, <1>6 DEF FilesInv, KeepsFiles, Registered
<1>8. \A t \in Tenants : row'[t] = "none" => Unborn(t)'
  BY <1>1, TenancyAssumption DEF FilesInv, Unborn, NoStart, NoToken
<1>9. \A d \in Deleters : Purging(d)'
  BY <1>1 DEF Purging, NoDeletion
<1> QED BY <1>3, <1>5, <1>7, <1>8, <1>9 DEF FilesInv

LEMMA FilesNext ==
  ASSUME FilesInv, [Next]_vars
  PROVE  FilesInv'
<1>1. CASE WriteEpoch \/ UNCHANGED vars
  <2>1. UNCHANGED <<row, version, disk, joining, token, deletion, start, task>> /\ epoch' \in Nat
    BY <1>1 DEF WriteEpoch, vars, books, sessions, campaigns, FilesInv, ActorTypes
  <2>2. ActorTypes'
    BY <2>1 DEF FilesInv, ActorTypes
  <2> QED BY <2>1, <2>2, FilesTouched DEF FilesInv, Unborn
<1> QED BY <1>1, FilesRegistration, FilesCampaign, FilesSession, FilesDeletion, FilesRestart DEF Next

\* No tenant loses a database while PostgreSQL has it, whatever deletions fail
\* half way, race or are interrupted (delete_user, reconcile_tenant_quarantines).
THEOREM NoDatabaseLost == Spec => []KeepsFiles
<1>1. FilesInv => KeepsFiles
  BY DEF FilesInv
<1> QED BY <1>1, FilesInit, FilesNext, PTL DEF Spec

--------------------------------------------------------------------------------
(* Sessions *)

CacheTypes ==
    /\ cache \in [Tokens -> {"none", "ok", "late", "refused"}]
    /\ asking \in [Tokens -> [ok : BOOLEAN, at : {"none", "new", "late", "hit"}]]
    /\ dropping \subseteq revoked /\ revoked \subseteq Tokens

\* A token of before the last deletion that was begun of its tenant, and a
\* deletion that has still to clear the cache.
Outdated(k) == token[k].tenant # None /\ token[k].version # version[token[k].tenant]
Clearing(t) == \E d \in Deleters : deletion[d].tenant = t /\ deletion[d].at = "clear"

\* An answer that will go into the cache as it is.
Answer(k) == cache[k] = "ok" \/ asking[k] = [ok |-> TRUE, at |-> "new"]

SessionInv ==
    /\ CacheTypes
    /\ \A k \in Tokens : ~Issued(k) => cache[k] = "none" /\ asking[k] = NoAnswer
    /\ \A k \in Tokens : Outdated(k) /\ Answer(k) => Clearing(token[k].tenant)

LEMMA SessionInit == Init => SessionInv
BY DEF Init, SessionInv, CacheTypes, Answer, Issued, NoToken, NoAnswer

\* A step that leaves the versions and the deletions alone and lets no token be
\* answered that is not up to date.
LEMMA NoneAnswered ==
  ASSUME SessionInv, UNCHANGED <<version, deletion>>, CacheTypes',
         \A k \in Tokens : ~Issued(k)' => cache'[k] = "none" /\ asking'[k] = NoAnswer,
         \A k \in Tokens : Answer(k)' => (token'[k] = token[k] /\ Answer(k)) \/ ~Outdated(k)'
  PROVE  SessionInv'
<1>1. ASSUME NEW k \in Tokens, Outdated(k)', Answer(k)'
      PROVE  Clearing(token[k].tenant)'
  <2>1. token'[k] = token[k] /\ Answer(k) /\ Outdated(k)
    BY <1>1 DEF Outdated
  <2> QED BY <2>1 DEF SessionInv, Clearing
<1>2. ASSUME NEW k \in Tokens, Outdated(k)', Answer(k)'
      PROVE  token'[k] = token[k]
  BY <1>2
<1> QED BY <1>1, <1>2 DEF SessionInv, Clearing

\* Steps that touch no token and no answer.
LEMMA SessionsRest ==
  ASSUME SessionInv, UNCHANGED <<version, deletion, sessions>>
  PROVE  SessionInv'
BY DEF SessionInv, CacheTypes, Answer, Outdated, Clearing, Issued, sessions

\* A token on its way to its user: nothing has been asked with it yet.
LEMMA TokenMade ==
  ASSUME SessionInv, FilesInv, NEW k \in Tokens, ~Issued(k), NEW new, token' = [token EXCEPT ![k] = new],
         UNCHANGED <<version, deletion, cache, asking, dropping, revoked>>
  PROVE  SessionInv'
<1>1. cache[k] = "none" /\ asking[k] = NoAnswer /\ token'[k] = new /\ \A j \in Tokens \ {k} : token'[j] = token[j]
  BY DEF SessionInv, FilesInv, ActorTypes
<1>2. \A j \in Tokens : Answer(j)' => token'[j] = token[j] /\ Answer(j)
  BY <1>1 DEF Answer, NoAnswer
<1>3. \A j \in Tokens : ~Issued(j)' => cache'[j] = "none" /\ asking'[j] = NoAnswer
  BY <1>1 DEF SessionInv, Issued
<1> QED BY <1>2, <1>3, NoneAnswered DEF SessionInv, CacheTypes

LEMMA CurrentIsNotOutdated ==
  ASSUME NEW k \in Tokens, Current(k)
  PROVE  ~Outdated(k)
BY DEF Current, Outdated

LEMMA SessionValidate ==
  ASSUME SessionInv, NEW k \in Tokens, Validate(k)
  PROVE  SessionInv'
<1>1. /\ Issued(k) /\ asking[k] = NoAnswer /\ UNCHANGED <<version, deletion, token, revoked, dropping>>
      /\ asking' = [asking EXCEPT ![k] = IF cache[k] = "none" THEN [ok |-> Current(k), at |-> "new"]
                                         ELSE [ok |-> Cached(k), at |-> "hit"]]
      /\ cache' = [cache EXCEPT ![k] = IF token[k].epoch = epoch /\ (k \in revoked \/ ~UserExists(k)) THEN "none" ELSE @]
  BY DEF Validate, books
<1>2. Current(k) \in BOOLEAN /\ Cached(k) \in BOOLEAN
  BY DEF Current, Cached
<1>3. CacheTypes'
  BY <1>1, <1>2 DEF SessionInv, CacheTypes
<1>4. \A j \in Tokens \ {k} : cache'[j] = cache[j] /\ asking'[j] = asking[j]
  BY <1>1 DEF SessionInv, CacheTypes
<1>5. \A j \in Tokens : ~Issued(j)' => cache'[j] = "none" /\ asking'[j] = NoAnswer
  BY <1>1, <1>4 DEF SessionInv, Issued
<1>6. ASSUME Answer(k)' PROVE Answer(k) \/ ~Outdated(k)
  <2>1. CASE cache'[k] = "ok"
    BY <1>1, <2>1 DEF SessionInv, CacheTypes, Answer
  <2>2. CASE asking'[k] = [ok |-> TRUE, at |-> "new"]
    <3>1. asking'[k] = IF cache[k] = "none" THEN [ok |-> Current(k), at |-> "new"] ELSE [ok |-> Cached(k), at |-> "hit"]
      BY <1>1 DEF SessionInv, CacheTypes
    <3>2. asking'[k].at = "new" /\ asking'[k].ok = TRUE
      BY <2>2
    <3>3. Current(k)
      BY <3>1, <3>2
    <3> QED BY <3>3, CurrentIsNotOutdated
  <2> QED BY <1>6, <2>1, <2>2 DEF Answer
<1>7. \A j \in Tokens : Answer(j)' => (token'[j] = token[j] /\ Answer(j)) \/ ~Outdated(j)'
  BY <1>1, <1>4, <1>6 DEF Answer, Outdated
<1> QED BY <1>1, <1>3, <1>5, <1>7, NoneAnswered

\* The answer goes into the cache, marked when the cache has been cleared since.
LEMMA AnswerGiven ==
  ASSUME SessionInv, NEW k \in Tokens, asking[k].at # "none", Answered(k), UNCHANGED <<dropping, revoked>>
  PROVE  /\ CacheTypes' /\ Issued(k)
         /\ \A j \in Tokens \ {k} : cache'[j] = cache[j] /\ asking'[j] = asking[j]
         /\ \A j \in Tokens : Answer(j)' => Answer(j)
<1>1. /\ asking' = [asking EXCEPT ![k] = NoAnswer]
      /\ cache' = [cache EXCEPT ![k] = IF asking[k].at = "hit" THEN @
                                      ELSE IF ~asking[k].ok THEN "refused" ELSE IF asking[k].at = "late" THEN "late" ELSE "ok"]
      /\ cache \in [Tokens -> {"none", "ok", "late", "refused"}]
      /\ asking \in [Tokens -> [ok : BOOLEAN, at : {"none", "new", "late", "hit"}]]
  BY DEF Answered, SessionInv, CacheTypes
<1>2. Issued(k)
  BY DEF SessionInv, NoAnswer
<1>3. \A j \in Tokens \ {k} : cache'[j] = cache[j] /\ asking'[j] = asking[j]
  BY <1>1
<1>4. NoAnswer \in [ok : BOOLEAN, at : {"none", "new", "late", "hit"}]
  BY DEF NoAnswer
<1>5. cache' \in [Tokens -> {"none", "ok", "late", "refused"}] /\ asking' \in [Tokens -> [ok : BOOLEAN, at : {"none", "new", "late", "hit"}]]
  BY <1>1, <1>4
<1>6. ASSUME Answer(k)' PROVE Answer(k)
  <2>1. asking'[k] = NoAnswer /\ asking'[k] # [ok |-> TRUE, at |-> "new"]
    BY <1>1 DEF NoAnswer
  <2>2. cache'[k] = "ok"
    BY <1>6, <2>1 DEF Answer
  <2>3. CASE asking[k].at = "hit"
    BY <1>1, <2>2, <2>3 DEF Answer
  <2>4. CASE asking[k].at # "hit"
    <3>1. asking[k].ok /\ asking[k].at # "late"
      BY <1>1, <2>2, <2>4
    <3>2. asking[k] \in [ok : BOOLEAN, at : {"none", "new", "late", "hit"}]
      BY <1>1
    <3>3. asking[k] = [ok |-> TRUE, at |-> "new"]
      BY <2>4, <3>1, <3>2
    <3> QED BY <3>3 DEF Answer
  <2> QED BY <2>3, <2>4
<1>7. \A j \in Tokens : Answer(j)' => Answer(j)
  BY <1>3, <1>6 DEF Answer
<1> QED BY <1>2, <1>3, <1>5, <1>7 DEF SessionInv, CacheTypes

LEMMA SessionAnswer ==
  ASSUME SessionInv, NEW k \in Tokens, Refuse(k) \/ Serve(k)
  PROVE  SessionInv'
<1>1. asking[k].at # "none" /\ Answered(k) /\ UNCHANGED <<version, deletion, token, dropping, revoked>>
  BY DEF Refuse, Serve, books
<1>2. \A j \in Tokens : ~Issued(j)' => cache'[j] = "none" /\ asking'[j] = NoAnswer
  BY <1>1, AnswerGiven DEF SessionInv, Issued
<1> QED BY <1>1, <1>2, AnswerGiven, NoneAnswered

LEMMA SessionImpersonate ==
  ASSUME SessionInv, FilesInv, NEW k \in Tokens, NEW j \in Tokens, NEW t \in Tenants, Impersonate(k, j, t)
  PROVE  SessionInv'
<1>1. /\ asking[k].at # "none" /\ Answered(k) /\ UNCHANGED <<version, deletion, dropping, revoked>>
      /\ token[k].kind = "admin" /\ token[j].kind = "none"
  BY DEF Impersonate, books, NoToken
<1>2. j # k /\ ~Issued(j) /\ token'[j].kind = "acting" /\ \A i \in Tokens \ {j} : token'[i] = token[i]
  BY <1>1 DEF Impersonate, CreateToken, Issued, FilesInv, ActorTypes
<1>3. cache[j] = "none" /\ asking[j] = NoAnswer /\ cache'[j] = cache[j] /\ asking'[j] = asking[j]
  BY <1>1, <1>2, AnswerGiven DEF SessionInv
<1>4. ~Answer(j)'
  BY <1>3 DEF Answer, NoAnswer
<1>5. \A i \in Tokens : Answer(i)' => token'[i] = token[i] /\ Answer(i)
  BY <1>1, <1>2, <1>4, AnswerGiven
<1>6. \A i \in Tokens : ~Issued(i)' => cache'[i] = "none" /\ asking'[i] = NoAnswer
  BY <1>1, <1>2, <1>3, AnswerGiven DEF SessionInv, Issued
<1> QED BY <1>1, <1>5, <1>6, AnswerGiven, NoneAnswered

\* A logout and the ends of entries take answers away.
LEMMA SessionEnds ==
  ASSUME SessionInv, FilesInv, NEW k \in Tokens, LogOut(k) \/ Drop(k) \/ CacheExpires(k)
  PROVE  SessionInv'
<1>1. UNCHANGED <<version, deletion, token, asking>> /\ (cache' = cache \/ cache' = [cache EXCEPT ![k] = "none"])
  BY DEF LogOut, Drop, CacheExpires, books
<1>2. dropping' \subseteq revoked' /\ revoked' \subseteq Tokens
  <2>1. token[k].of \in Tokens \cup {None}
    BY DEF FilesInv, ActorTypes, TokenType
  <2> QED BY <2>1 DEF LogOut, Drop, CacheExpires, SessionInv, CacheTypes
<1>3. CacheTypes' /\ \A j \in Tokens : cache'[j] \in {cache[j], "none"}
  BY <1>1, <1>2 DEF SessionInv, CacheTypes
<1>4. \A j \in Tokens : ~Issued(j)' => cache'[j] = "none" /\ asking'[j] = NoAnswer
  BY <1>1, <1>3 DEF SessionInv, Issued
<1>5. \A j \in Tokens : Answer(j)' => token'[j] = token[j] /\ Answer(j)
  BY <1>1, <1>3 DEF Answer
<1> QED BY <1>1, <1>3, <1>4, <1>5, NoneAnswered

LEMMA SessionSteps ==
  ASSUME SessionInv, FilesInv, NEW k \in Tokens, SessionStep(k)
  PROVE  SessionInv'
<1>1. ASSUME NEW t \in Tenants \cup {None}, Authenticate(k, t) PROVE SessionInv'
  <2>1. /\ ~Issued(k) /\ token' = [token EXCEPT ![k] = [NoToken EXCEPT !.kind = "verified", !.tenant = t]]
        /\ UNCHANGED <<version, deletion, cache, asking, dropping, revoked>>
    BY <1>1 DEF Authenticate, Issued, NoToken, books
  <2> QED BY <2>1, TokenMade
<1>2. ASSUME Prepare(k) PROVE SessionInv'
  <2>1. /\ ~Issued(k) /\ token' = [token EXCEPT ![k] = [token[k] EXCEPT !.kind = "prepared"]]
        /\ UNCHANGED <<version, deletion, cache, asking, dropping, revoked>>
    BY <1>2 DEF Prepare, Issued, books, FilesInv, ActorTypes
  <2> QED BY <2>1, TokenMade
<1>3. ASSUME Issue(k) PROVE SessionInv'
  <2>1. PICK new : token' = [token EXCEPT ![k] = new]
    BY <1>3 DEF Issue, CreateToken
  <2>2. ~Issued(k) /\ UNCHANGED <<version, deletion, cache, asking, dropping, revoked>>
    BY <1>3 DEF Issue, Issued, books
  <2> QED BY <2>1, <2>2, TokenMade
<1> QED BY <1>1, <1>2, <1>3, SessionValidate, SessionAnswer, SessionImpersonate, SessionEnds DEF SessionStep

LEMMA DeletionElsewhere ==
  ASSUME SessionInv, FilesInv, UNCHANGED <<version, sessions>>, \A t \in Tenants : Clearing(t) => Clearing(t)'
  PROVE  SessionInv'
<1>1. ASSUME NEW k \in Tokens, Outdated(k)', Answer(k)' PROVE Clearing(token[k].tenant)'
  <2>1. token[k].tenant \in Tenants /\ Outdated(k) /\ Answer(k) /\ token' = token
    BY <1>1 DEF Outdated, Answer, sessions, FilesInv, ActorTypes, TokenType
  <2>2. PICK t \in Tenants : t = token[k].tenant
    BY <2>1
  <2>3. Clearing(t)'
    BY <2>1, <2>2 DEF SessionInv
  <2> QED BY <2>1, <2>2, <2>3 DEF Clearing
<1>2. \A k \in Tokens : Outdated(k)' /\ Answer(k)' => Clearing(token[k].tenant)'
  BY <1>1
<1> QED BY <1>2 DEF SessionInv, CacheTypes, Issued, sessions, Clearing

\* A deletion is clearing from when it raises the version until it has cleared.
LEMMA SessionBumps ==
  ASSUME SessionInv, FilesInv, NEW d \in Deleters, Bumps(d)
  PROVE  SessionInv'
<1> DEFINE t == deletion[d].tenant
<1>1. /\ UNCHANGED sessions /\ deletion[d].at = "bump" /\ t \in Tenants
      /\ deletion \in [Deleters -> DeletionType] /\ version \in [Tenants -> Nat]
  BY DEF Bumps, Deleting, FilesInv, Purging, ActorTypes, DeletionType
<1>2. CASE Registered(t)
  <2>1. deletion' = [deletion EXCEPT ![d].at = "clear"] /\ version' = [version EXCEPT ![t] = @ + 1]
    BY <1>2 DEF Bumps, Goto
  <2>2. deletion'[d].tenant = t /\ deletion'[d].at = "clear"
    BY <1>1, <2>1 DEF DeletionType
  <2>3. \A u \in Tenants : Clearing(u) => Clearing(u)'
    <3>1. \A e \in Deleters : deletion[e].at = "clear" => deletion'[e] = deletion[e]
      BY <1>1, <2>1
    <3> QED BY <3>1 DEF Clearing
  <2>4. ASSUME NEW k \in Tokens, Outdated(k)', Answer(k)' PROVE Clearing(token[k].tenant)'
    <3>1. token'[k] = token[k] /\ Answer(k) /\ token[k].tenant \in Tenants
      BY <1>1, <2>4 DEF sessions, Answer, Outdated, FilesInv, ActorTypes, TokenType
    <3>2. CASE token[k].tenant = t
      BY <2>2, <3>1, <3>2 DEF Clearing
    <3>3. CASE token[k].tenant # t
      <4>1. Outdated(k)
        BY <1>1, <2>1, <2>4, <3>1, <3>3 DEF Outdated
      <4>2. PICK u \in Tenants : u = token[k].tenant
        BY <3>1
      <4>3. Clearing(u)'
        BY <2>3, <3>1, <4>1, <4>2 DEF SessionInv
      <4> QED BY <3>1, <4>2, <4>3 DEF Clearing
    <3> QED BY <3>2, <3>3
  <2>5. \A k \in Tokens : token'[k] = token[k]
    BY <1>1 DEF sessions
  <2>6. \A k \in Tokens : Outdated(k)' /\ Answer(k)' => Clearing(token[k].tenant)'
    BY <2>4
  <2> QED BY <1>1, <2>5, <2>6 DEF SessionInv, CacheTypes, Issued, sessions, Clearing
<1>3. CASE ~Registered(t)
  <2>1. deletion' = [deletion EXCEPT ![d] = NoDeletion] /\ UNCHANGED version
    BY <1>3 DEF Bumps, GiveUp
  <2>2. \A u \in Tenants : Clearing(u) => Clearing(u)'
    <3>1. \A e \in Deleters : deletion[e].at = "clear" => deletion'[e] = deletion[e]
      BY <1>1, <2>1
    <3> QED BY <3>1 DEF Clearing
  <2> QED BY <1>1, <2>1, <2>2, DeletionElsewhere
<1> QED BY <1>2, <1>3

LEMMA SessionClears ==
  ASSUME SessionInv, NEW d \in Deleters, Clears(d)
  PROVE  SessionInv'
<1>1. /\ cache' = [k \in Tokens |-> "none"] /\ UNCHANGED <<token, dropping, revoked>>
      /\ asking' = [k \in Tokens |-> IF asking[k] = [ok |-> TRUE, at |-> "new"] THEN [asking[k] EXCEPT !.at = "late"] ELSE asking[k]]
  BY DEF Clears, Cleared
<1>2. CacheTypes'
  BY <1>1 DEF SessionInv, CacheTypes
<1>3. \A k \in Tokens : asking'[k] # [ok |-> TRUE, at |-> "new"] /\ cache'[k] = "none"
  BY <1>1
<1>4. \A k \in Tokens : ~Issued(k)' => asking'[k] = NoAnswer
  BY <1>1 DEF SessionInv, Issued, NoAnswer
<1> QED BY <1>2, <1>3, <1>4 DEF SessionInv, Answer

\* Every other step of a deletion leaves the clearing deletions clearing.
LEMMA SessionDeletion ==
  ASSUME SessionInv, FilesInv, NEW d \in Deleters, DeletionStep(d)
  PROVE  SessionInv'
<1>1. deletion \in [Deleters -> DeletionType]
  BY DEF FilesInv, ActorTypes, DeletionType
<1>2. ASSUME deletion[d].at # "clear", \E new : deletion' = [deletion EXCEPT ![d] = new], UNCHANGED <<version, sessions>>
      PROVE  SessionInv'
  <2>1. \A e \in Deleters : deletion[e].at = "clear" => deletion'[e] = deletion[e]
    BY <1>1, <1>2
  <2>2. \A t \in Tenants : Clearing(t) => Clearing(t)'
    BY <2>1 DEF Clearing
  <2> QED BY <1>2, <2>2, DeletionElsewhere
<1>3. ASSUME NEW t \in Tenants, BeginDeletion(d, t) PROVE SessionInv'
  <2>1. deletion[d].at # "clear" /\ UNCHANGED <<version, sessions>>
    BY <1>3 DEF BeginDeletion, NoDeletion, books
  <2> QED BY <1>2, <1>3, <2>1 DEF BeginDeletion
<1>4. ASSUME StopsForDeletion(d) \/ DropsWorker(d) PROVE SessionInv'
  <2>1. deletion[d].at # "clear" /\ UNCHANGED <<version, sessions>>
    BY <1>4 DEF StopsForDeletion, DropsWorker, Deleting, books
  <2>2. \E at : deletion' = [deletion EXCEPT ![d] = [deletion[d] EXCEPT !.at = at]]
    BY <1>4 DEF StopsForDeletion, DropsWorker, Goto
  <2> QED BY <1>2, <2>1, <2>2
<1>5. ASSUME Moves(d) PROVE SessionInv'
  <2>1. deletion[d].at # "clear" /\ UNCHANGED <<version, sessions>>
    BY <1>5 DEF Moves, Deleting, books
  <2>2. \E new : deletion' = [deletion EXCEPT ![d] = new]
    <3>1. CASE Goto(d, "delete")
      BY <3>1 DEF Goto
    <3>2. CASE deletion' = [deletion EXCEPT ![d].at = "delete", ![d].moved = TRUE]
      <4>1. deletion' = [deletion EXCEPT ![d] = [deletion[d] EXCEPT !.at = "delete", !.moved = TRUE]]
        BY <1>1, <3>2
      <4> QED BY <4>1
    <3>3. CASE GiveUp(d)
      BY <3>3 DEF GiveUp
    <3> QED BY <1>5, <3>1, <3>2, <3>3 DEF Moves
  <2> QED BY <1>2, <2>1, <2>2
<1>6. ASSUME Deletes(d) PROVE SessionInv'
  <2>1. deletion[d].at # "clear" /\ UNCHANGED <<version, sessions>>
    BY <1>6 DEF Deletes, Deleting
  <2>2. \E at : deletion' = [deletion EXCEPT ![d] = [deletion[d] EXCEPT !.at = at]]
    BY <1>6 DEF Deletes, Goto
  <2> QED BY <1>2, <2>1, <2>2
<1>7. ASSUME Restores(d) \/ Purges(d) PROVE SessionInv'
  <2>1. deletion[d].at # "clear" /\ UNCHANGED <<version, sessions>>
    BY <1>7 DEF Restores, Purges, Deleting, books
  <2> QED BY <1>2, <1>7, <2>1 DEF Restores, Purges, GiveUp
<1> QED BY <1>3, <1>4, <1>5, <1>6, <1>7, SessionBumps, SessionClears DEF DeletionStep

LEMMA SessionRestart ==
  ASSUME Restart, SessionInv
  PROVE  SessionInv'
<1>1. /\ cache' = [k \in Tokens |-> "none"] /\ asking' = [k \in Tokens |-> NoAnswer] /\ dropping' = {} /\ UNCHANGED revoked
  BY DEF Restart
<1>2. CacheTypes'
  BY <1>1 DEF SessionInv, CacheTypes, NoAnswer
<1>3. \A k \in Tokens : ~Answer(k)'
  BY <1>1 DEF Answer, NoAnswer
<1> QED BY <1>1, <1>2, <1>3 DEF SessionInv

LEMMA SessionNext ==
  ASSUME SessionInv, FilesInv, [Next]_vars
  PROVE  SessionInv'
<1>1. ASSUME UNCHANGED vars PROVE SessionInv'
  BY <1>1, SessionsRest DEF vars, books
<1>2. ASSUME WriteEpoch PROVE SessionInv'
  BY <1>2 DEF WriteEpoch, books, SessionInv, CacheTypes, Answer, Outdated, Clearing, Issued
<1>3. ASSUME Round PROVE SessionInv'
  BY <1>3, SessionsRest DEF Round, Tick, TickLooks, TickNotes, TickFails, books
<1>4. ASSUME NEW t \in Tenants, Register(t) \/ Registers(t) \/ RegistrationFails(t) PROVE SessionInv'
  BY <1>4, SessionsRest DEF Register, Registers, RegistrationFails
<1>5. ASSUME NEW t \in Tenants, CampaignStep(t) PROVE SessionInv'
  BY <1>5, SessionsRest DEF CampaignStep, Extend, Expire, Revoke, Scan, StartChecks, StartSpawns, WatchdogRestarts,
                            WorkerWorks, books
<1> QED BY <1>1, <1>2, <1>3, <1>4, <1>5, SessionSteps, SessionDeletion, SessionRestart DEF Next

LEMMA SessionsInvariant == Spec => [](FilesInv /\ SessionInv)
<1>1. (FilesInv /\ SessionInv) /\ [Next]_vars => (FilesInv /\ SessionInv)'
  BY FilesNext, SessionNext
<1> QED BY <1>1, FilesInit, SessionInit, PTL DEF Spec

\* Once a deletion has cleared the cache, no answer for a token of before it is
\* in the cache, except one that was on its way, however answers, logouts and
\* other deletions interleave (delete_user, clear_session_cache).
THEOREM DeletionEndsSessions == Spec => []ClearedStaysCleared
<1>1. SessionInv => ClearedStaysCleared
  BY DEF SessionInv, Outdated, Answer, Clearing, ClearedStaysCleared
<1> QED BY <1>1, SessionsInvariant, PTL

LEMMA LetsIn ==
  ASSUME CacheTypes, [Next]_vars, NEW k \in Tokens, asking[k] = NoAnswer, asking'[k].ok
  PROVE  Validate(k)
<1>1. asking \in [Tokens -> [ok : BOOLEAN, at : {"none", "new", "late", "hit"}]] /\ asking[k].ok = FALSE /\ asking[k].at = "none"
  BY DEF CacheTypes, NoAnswer
<1>2. asking'[k] # asking[k]
  BY <1>1
<1>3. ~UNCHANGED asking
  BY <1>2
<1>4. ASSUME NEW j \in Tokens, SessionStep(j) PROVE Validate(k)
  <2>1. CASE Validate(j)
    BY <1>1, <1>2, <2>1 DEF Validate
  <2>2. ASSUME asking[j].at # "none", Answered(j) PROVE FALSE
    BY <1>1, <1>2, <2>2 DEF Answered
  <2>3. CASE Refuse(j) \/ Serve(j)
    BY <2>2, <2>3 DEF Refuse, Serve
  <2>4. CASE \E i \in Tokens, t \in Tenants : Impersonate(j, i, t)
    BY <2>2, <2>4 DEF Impersonate
  <2>5. CASE \/ \E t \in Tenants \cup {None} : Authenticate(j, t)
             \/ Prepare(j) \/ Issue(j) \/ LogOut(j) \/ Drop(j) \/ CacheExpires(j)
    BY <1>3, <2>5 DEF Authenticate, Prepare, Issue, LogOut, Drop, CacheExpires
  <2> QED BY <1>4, <2>1, <2>3, <2>4, <2>5 DEF SessionStep
<1>5. ASSUME NEW d \in Deleters, DeletionStep(d) PROVE FALSE
  <2>1. CASE Clears(d)
    BY <1>1, <1>2, <2>1 DEF Clears
  <2>2. CASE \/ \E t \in Tenants : BeginDeletion(d, t)
             \/ StopsForDeletion(d) \/ Bumps(d) \/ Moves(d) \/ Deletes(d) \/ Restores(d) \/ DropsWorker(d) \/ Purges(d)
    BY <1>3, <2>2 DEF BeginDeletion, StopsForDeletion, Bumps, Moves, Deletes, Restores, DropsWorker, Purges, sessions
  <2> QED BY <1>5, <2>1, <2>2 DEF DeletionStep
<1>6. ASSUME NEW t \in Tenants, Register(t) \/ Registers(t) \/ RegistrationFails(t) PROVE FALSE
  BY <1>3, <1>6 DEF Register, Registers, RegistrationFails, sessions
<1>7. ASSUME NEW t \in Tenants, CampaignStep(t) PROVE FALSE
  BY <1>3, <1>7 DEF CampaignStep, Extend, Expire, Revoke, Scan, StartChecks, StartSpawns, WatchdogRestarts,
                    WorkerWorks, sessions
<1>8. ASSUME WriteEpoch \/ Round PROVE FALSE
  BY <1>3, <1>8 DEF WriteEpoch, Round, Tick, TickLooks, TickNotes, TickFails, sessions
<1>9. ASSUME Restart PROVE FALSE
  BY <1>1, <1>2, <1>9 DEF Restart
<1>10. ASSUME UNCHANGED vars PROVE FALSE
  BY <1>3, <1>10 DEF vars, sessions
<1> QED BY <1>4, <1>5, <1>6, <1>7, <1>8, <1>9, <1>10 DEF Next

\* A request is let in, by the cache or by PostgreSQL, only with a token that is
\* not revoked, is of the present epoch and whose user is still there
\* (cached_validate_token_session): whatever an entry of the cache says.
THEOREM EndedSessionsStayOut == Spec => SessionsEnd
<1>1. ASSUME SessionInv, [Next]_vars
      PROVE  [\A k \in Tokens : asking[k] = NoAnswer /\ asking'[k].ok =>
                  k \notin revoked /\ token[k].epoch = epoch /\ UserExists(k)]_vars
  <2> SUFFICES ASSUME NEW k \in Tokens, asking[k] = NoAnswer, asking'[k].ok
               PROVE  k \notin revoked /\ token[k].epoch = epoch /\ UserExists(k)
    OBVIOUS
  <2>1. Validate(k)
    BY <1>1, LetsIn DEF SessionInv
  <2>2. asking'[k] = IF cache[k] = "none" THEN [ok |-> Current(k), at |-> "new"] ELSE [ok |-> Cached(k), at |-> "hit"]
    BY <1>1, <2>1 DEF Validate, SessionInv, CacheTypes
  <2>3. Current(k) \/ Cached(k)
    BY <2>2
  <2> QED BY <2>3 DEF Current, Cached
<1> QED BY <1>1, SessionsInvariant, PTL DEF Spec, SessionsEnd

--------------------------------------------------------------------------------
(* Types *)

Places == 1 .. MaxMade \cup {None}
Bounded ==
    /\ live \in [Tenants -> Places] /\ aside \in [Tenants -> Places] /\ made \in [Tenants -> 0 .. MaxMade]
    /\ events \in 0 .. MaxEvents

LEMMA TouchBounded ==
  ASSUME Bounded, NEW t \in Tenants, Touch(t)
  PROVE  live' \in [Tenants -> Places] /\ aside' \in [Tenants -> Places] /\ made' \in [Tenants -> 0 .. MaxMade]
<1>1. CASE UNCHANGED disk
  BY <1>1 DEF Bounded, disk
<1>2. CASE /\ made[t] < MaxMade /\ made' = [made EXCEPT ![t] = @ + 1]
           /\ live' = [live EXCEPT ![t] = made[t] + 1] /\ UNCHANGED aside
  <2>1. made[t] + 1 \in 0 .. MaxMade /\ made[t] + 1 \in Places
    BY <1>2, TenancyAssumption DEF Bounded, Places
  <2> QED BY <1>2, <2>1 DEF Bounded
<1> QED BY <1>1, <1>2 DEF Touch

LEMMA EventsBounded ==
  ASSUME Bounded, [Next]_vars
  PROVE  events' \in 0 .. MaxEvents
<1>1. Event \/ UNCHANGED events => events' \in 0 .. MaxEvents
  BY TenancyAssumption DEF Event, Bounded
<1>2. ASSUME NEW k \in Tokens, SessionStep(k) PROVE Event \/ UNCHANGED events
  BY <1>2 DEF SessionStep, Authenticate, Prepare, Issue, Validate, Refuse, Serve, Impersonate, LogOut, Drop, CacheExpires
<1>3. ASSUME NEW t \in Tenants, CampaignStep(t) PROVE Event \/ UNCHANGED events
  BY <1>3 DEF CampaignStep, Extend, Expire, Revoke, Scan, StartChecks, StartSpawns, WatchdogRestarts, WorkerWorks
<1>4. ASSUME NEW d \in Deleters, DeletionStep(d) PROVE Event \/ UNCHANGED events
  BY <1>4 DEF DeletionStep, BeginDeletion, StopsForDeletion, Bumps, Clears, Moves, Deletes, Restores, DropsWorker, Purges
<1>5. ASSUME NEW t \in Tenants, Register(t) \/ Registers(t) \/ RegistrationFails(t) PROVE Event \/ UNCHANGED events
  BY <1>5 DEF Register, Registers, RegistrationFails
<1>6. ASSUME WriteEpoch \/ Round \/ Restart \/ UNCHANGED vars PROVE Event \/ UNCHANGED events
  BY <1>6 DEF WriteEpoch, Round, Tick, TickLooks, TickNotes, TickFails, Restart, vars
<1> QED BY <1>1, <1>2, <1>3, <1>4, <1>5, <1>6 DEF Next

LEMMA DeletionBounded ==
  ASSUME Bounded, NEW d \in Deleters, DeletionStep(d), deletion[d].tenant \in Tenants \/ UNCHANGED disk
  PROVE  live' \in [Tenants -> Places] /\ aside' \in [Tenants -> Places] /\ made' \in [Tenants -> 0 .. MaxMade]
<1> DEFINE t == deletion[d].tenant
<1>1. None \in Places
  BY DEF Places
<1>2. CASE UNCHANGED disk
  BY <1>2 DEF Bounded, disk
<1>3. ASSUME t \in Tenants, Moves(d)
      PROVE  live' \in [Tenants -> Places] /\ aside' \in [Tenants -> Places] /\ made' \in [Tenants -> 0 .. MaxMade]
  BY <1>1, <1>2, <1>3 DEF Moves, MoveAside, Bounded
<1>4. ASSUME t \in Tenants, Restores(d)
      PROVE  live' \in [Tenants -> Places] /\ aside' \in [Tenants -> Places] /\ made' \in [Tenants -> 0 .. MaxMade]
  BY <1>1, <1>2, <1>4 DEF Restores, Bounded
<1>5. ASSUME t \in Tenants, Purges(d)
      PROVE  live' \in [Tenants -> Places] /\ aside' \in [Tenants -> Places] /\ made' \in [Tenants -> 0 .. MaxMade]
  BY <1>1, <1>2, <1>5 DEF Purges, Bounded
<1>6. CASE \/ \E u \in Tenants : BeginDeletion(d, u)
           \/ StopsForDeletion(d) \/ Bumps(d) \/ Clears(d) \/ Deletes(d) \/ DropsWorker(d)
  BY <1>2, <1>6 DEF BeginDeletion, StopsForDeletion, Bumps, Clears, Deletes, DropsWorker
<1> QED BY <1>2, <1>3, <1>4, <1>5, <1>6 DEF DeletionStep

LEMMA DiskBounded ==
  ASSUME Bounded, FilesInv, [Next]_vars
  PROVE  live' \in [Tenants -> Places] /\ aside' \in [Tenants -> Places] /\ made' \in [Tenants -> 0 .. MaxMade]
<1> DEFINE Fits == live' \in [Tenants -> Places] /\ aside' \in [Tenants -> Places] /\ made' \in [Tenants -> 0 .. MaxMade]
<1>1. UNCHANGED disk \/ (\E t \in Tenants : Touch(t)) => Fits
  BY TouchBounded DEF Bounded, disk
<1>2. ASSUME NEW k \in Tokens, SessionStep(k) PROVE Fits
  BY <1>1, <1>2, SessionsForTheBorn DEF ForTheBorn, OnDisk
<1>3. ASSUME NEW t \in Tenants, CampaignStep(t) PROVE Fits
  BY <1>1, <1>3 DEF CampaignStep, Extend, Expire, Revoke, Scan, StartChecks, StartSpawns, WatchdogRestarts, WorkerWorks
<1>4. ASSUME NEW d \in Deleters, DeletionStep(d) PROVE Fits
  <2>1. deletion[d].at = "none" \/ deletion[d].tenant \in Tenants
    BY DEF FilesInv, Purging
  <2>2. CASE deletion[d].at = "none"
    <3>1. \E t \in Tenants : BeginDeletion(d, t)
      BY <1>4, <2>2 DEF DeletionStep, StopsForDeletion, Bumps, Clears, Moves, Deletes, Restores, DropsWorker, Purges, Deleting
    <3> QED BY <1>1, <3>1 DEF BeginDeletion
  <2>3. CASE deletion[d].tenant \in Tenants
    BY <1>4, <2>3, DeletionBounded
  <2> QED BY <2>1, <2>2, <2>3
<1>5. ASSUME NEW t \in Tenants, Register(t) \/ Registers(t) PROVE Fits
  BY <1>1, <1>5 DEF Register, Registers
<1>6. ASSUME NEW t \in Tenants, RegistrationFails(t) PROVE Fits
  BY <1>6 DEF RegistrationFails, Bounded, Places
<1>7. ASSUME WriteEpoch \/ Round \/ UNCHANGED vars PROVE Fits
  BY <1>1, <1>7 DEF WriteEpoch, Round, Tick, TickLooks, TickNotes, TickFails, vars
<1>8. ASSUME Restart PROVE Fits
  <2>1. \A t \in Tenants : Reconciled(t)[1] \in Places /\ Reconciled(t)[2] \in Places
    BY DEF Reconciled, Bounded, Places
  <2> QED BY <1>8, <2>1 DEF Restart, Bounded
<1> QED BY <1>2, <1>3, <1>4, <1>5, <1>6, <1>7, <1>8 DEF Next

LEMMA BoundedInit == Init => Bounded
<1>1. 1 \in Places /\ None \in Places /\ {0, 1} \subseteq 0 .. MaxMade /\ 0 \in 0 .. MaxEvents
  BY TenancyAssumption DEF Places
<1> QED BY <1>1 DEF Init, Bounded

LEMMA TypesOfAll == StoppedInv /\ FilesInv /\ SessionInv /\ Bounded => TenancyTypeOK
<1> SUFFICES ASSUME StoppedInv, FilesInv, SessionInv, Bounded PROVE TenancyTypeOK
  OBVIOUS
<1>1. Subscriptions /\ DiskTypes /\ ActorTypes /\ CacheTypes
  BY DEF StoppedInv, FilesInv, SessionInv
<1> QED BY <1>1 DEF TenancyTypeOK, Subscriptions, DiskTypes, ActorTypes, CacheTypes, Bounded, Places, TokenType

\* Every variable keeps its type; what a logout still has to take out of the cache
\* it has revoked before, so no request between the two can put it back (logout).
THEOREM TenancyTypeCorrect == Spec => []TenancyTypeOK
<1> DEFINE All == StoppedInv /\ FilesInv /\ SessionInv /\ Bounded
<1>1. Init => All
  BY StoppedInit, FilesInit, SessionInit, BoundedInit
<1>2. Bounded /\ FilesInv /\ [Next]_vars => Bounded'
  BY EventsBounded, DiskBounded DEF Bounded
<1>3. All /\ [Next]_vars => All'
  BY <1>2, StoppedNext, FilesNext, SessionNext
<1> QED BY <1>1, <1>3, TypesOfAll, PTL DEF Spec

================================================================================

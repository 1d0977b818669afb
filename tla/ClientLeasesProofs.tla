--------------------------- MODULE ClientLeasesProofs ---------------------------
(* Sessions, leases, deletions and the shutdown, for any number of profiles,    *)
(* jobs and deletions.                                                          *)
EXTENDS ClientLeases, FiniteSetTheorems, TLAPS

--------------------------------------------------------------------------------
(* The inductive invariant *)

Records == [at : Stations, p : Profiles \cup {None}, life : Nat, cut : BOOLEAN, owed : BOOLEAN,
            good : BOOLEAN, moved : SUBSET {"plain", "sealed"}]
Sessions == Nat \cup {None, Visitor}

Shapes ==
    /\ job \in [Jobs -> Records] /\ \A j \in Jobs : Live(j) <=> job[j].p \in Profiles
    /\ life \in [Profiles -> Nat]
    /\ plain \in [Profiles -> Sessions] /\ sealed \in [Profiles -> Sessions]
    /\ aside \in [Profiles -> [plain : Sessions, sealed : Sessions]]
    /\ deleting \in [Profiles -> {"no", "session", "orphan"}]
    /\ status \in [Profiles -> {"pending", "active", "reauth"}]
    /\ claims \in [Accounts -> Profiles \cup {None}]
    /\ control \in [Profiles -> {"idle", "running", "stopping", "testing"}]
    /\ down \in {"up", "workers", "logins", "leases", "reseal", "done"} /\ late \in BOOLEAN

Holds(j) == At(j, "leased") \/ At(j, "closing")

\* One client per profile: the lease waits for the one before it.
OneLease == \A j, k \in Jobs : Holds(j) /\ Holds(k) /\ job[j].p = job[k].p => j = k

\* A deletion cancels the login of its profile and lets no other begin.
DeletionCuts == \A p \in Profiles : deleting[p] # "no" => Registered(p) = {}

\* So a login that was not cancelled is of the profile's present life and leaves a
\* session of that life.
LoginsAreOfNow == \A j \in Logins : Live(j) /\ ~job[j].cut => job[j].life = life[job[j].p]

OfNow(p, x) == x \in {None, Visitor, life[p]}
SessionsAreOfNow ==
    \A p \in Profiles : /\ OfNow(p, plain[p]) /\ OfNow(p, sealed[p])
                        /\ OfNow(p, aside[p].plain) /\ OfNow(p, aside[p].sealed)

\* An active profile that was not left over by a deletion and is not active by
\* onboarding has the claim.
ClaimHeld == \A p \in Profiles \ (kept \cup onboarded) : status[p] = "active" => claims[Account[p]] = p

\* A campaign comes to rest when its worker is gone.
AtRest == \A j \in Sends : Live(j) => control[job[j].p] \in {"running", "stopping"}

\* How far a shutdown in which nothing ran out of time has come.
Phased ==
    /\ down # "up" => \A j \in Tests \cup Checks : ~Live(j)
    /\ ~late =>
        /\ down \in {"logins", "leases", "reseal", "done"} => \A p \in Profiles : control[p] = "idle"
        /\ down \in {"leases", "reseal", "done"} => \A j \in Logins : ~Live(j)
        /\ down = "done" => \A p \in Profiles : plain[p] = None

LeasesInv == Shapes /\ OneLease /\ DeletionCuts /\ LoginsAreOfNow /\ SessionsAreOfNow /\ ClaimHeld /\ AtRest /\ Phased

--------------------------------------------------------------------------------
(* What a step does to the jobs *)

Begins(j, p) ==
    \/ j \in Sends /\ BeginSend(j, p)
    \/ j \in Tests /\ BeginTest(j, p)
    \/ j \in Logins /\ BeginLogin(j, p)
    \/ j \in Checks /\ BeginCheck(j, p)

\* A job begins, goes on for its profile, or is over; it comes to a client by Acquire.
Moves(j) ==
    /\ job'[j] \in Records /\ (Live(j)' <=> job'[j].p \in Profiles)
    /\ Live(j)' => \/ /\ Live(j) /\ job'[j].p = job[j].p /\ job'[j].life = job[j].life
                      /\ job[j].cut => job'[j].cut
                   \/ \E p \in Profiles : Begins(j, p) /\ job'[j].p = p /\ job'[j].life = life[p]
    /\ Holds(j)' => Live(j) /\ (Holds(j) \/ (Acquire(j) /\ ~Active(job[j].p)))

JobsMove == job' \in [Jobs -> Records] /\ \A j \in Jobs : Moves(j)

LEMMA KindsDiffer == \A j \in Jobs : /\ j \in Sends => j \notin Tests \cup Logins \cup Checks
                                     /\ j \in Tests => j \notin Logins \cup Checks
                                     /\ j \in Logins => j \notin Checks
BY LeasesAssumption

LEMMA NoJobIsNone == NoJob \in Records /\ NoJob.at = "none" /\ NoJob.p = None /\ None \notin Profiles
BY LeasesAssumption DEF NoJob, Records, Stations

LEMMA Rest ==
  ASSUME Shapes, UNCHANGED job
  PROVE  JobsMove
BY DEF Shapes, JobsMove, Moves, Live, Holds, At

LEMMA CutMoves ==
  ASSUME Shapes, NEW js, NEW owed \in BOOLEAN, Cut(js, owed)
  PROVE  JobsMove /\ \A j \in Jobs : job'[j].cut = (job[j].cut \/ j \in js)
<1>1. ASSUME NEW j \in Jobs
      PROVE  /\ job'[j] \in Records /\ job'[j].at = job[j].at /\ job'[j].p = job[j].p /\ job'[j].life = job[j].life
             /\ job'[j].cut = (job[j].cut \/ j \in js)
  <2>1. job[j] \in Records
    BY DEF Shapes
  <2>2. CASE j \in js
    <3>1. job'[j] = [job[j] EXCEPT !.cut = TRUE, !.owed = owed]
      BY <2>2 DEF Cut
    <3> QED BY <2>1, <2>2, <3>1 DEF Records
  <2>3. CASE j \notin js
    <3>1. job'[j] = job[j]
      BY <2>3 DEF Cut
    <3> QED BY <2>1, <2>3, <3>1 DEF Records
  <2> QED BY <2>2, <2>3
<1>2. job' \in [Jobs -> Records]
  BY <1>1 DEF Cut
<1> QED BY <1>1, <1>2 DEF Shapes, JobsMove, Moves, Live, Holds, At

\* One job moves.
LEMMA OneMoves ==
  ASSUME Shapes, NEW j \in Jobs, NEW r \in Records, job' = [job EXCEPT ![j] = r], Moves(j)
  PROVE  JobsMove
<1>1. job' \in [Jobs -> Records] /\ \A k \in Jobs \ {j} : job'[k] = job[k]
  BY DEF Shapes
<1>2. \A k \in Jobs \ {j} : Moves(k)
  BY <1>1 DEF Shapes, Moves, Live, Holds, At
<1> QED BY <1>1, <1>2 DEF JobsMove

LEMMA Ends ==
  ASSUME Shapes, NEW j \in Jobs, job' = [job EXCEPT ![j] = NoJob]
  PROVE  JobsMove
<1>1. job'[j] = NoJob
  BY DEF Shapes
<1>2. Moves(j)
  BY <1>1, NoJobIsNone DEF Moves, Live, Holds, At
<1> QED BY <1>2, NoJobIsNone, OneMoves

LEMMA GoesOn ==
  ASSUME Shapes, NEW j \in Jobs, Live(j), NEW r \in Records, job' = [job EXCEPT ![j] = r],
         r.at # "none", r.p = job[j].p, r.life = job[j].life, r.cut = job[j].cut,
         r.at \in {"leased", "closing"} => Holds(j) \/ (Acquire(j) /\ ~Active(job[j].p))
  PROVE  JobsMove
<1>1. job'[j] = r
  BY DEF Shapes
<1>2. Moves(j)
  BY <1>1 DEF Shapes, Moves, Live, Holds, At
<1> QED BY <1>2, OneMoves

LEMMA WorksOn ==
  ASSUME Shapes, NEW j \in Jobs, Live(j), NEW at \in Stations \ {"none"}, NEW good \in BOOLEAN,
         job' = [job EXCEPT ![j].at = at, ![j].good = good],
         at \in {"leased", "closing"} => Holds(j) \/ (Acquire(j) /\ ~Active(job[j].p))
  PROVE  JobsMove
<1> DEFINE r == [job[j] EXCEPT !.at = at, !.good = good]
<1>1. job[j] \in Records /\ job' = [job EXCEPT ![j] = r]
  BY DEF Shapes
<1>2. r \in Records /\ r.at = at /\ r.p = job[j].p /\ r.life = job[j].life /\ r.cut = job[j].cut
  BY <1>1 DEF Records
<1> HIDE DEF r
<1> QED BY <1>1, <1>2, GoesOn

LEMMA GoesTo ==
  ASSUME Shapes, NEW j \in Jobs, Live(j), NEW at \in Stations \ {"none"}, Goto(j, at),
         at \in {"leased", "closing"} => Holds(j) \/ (Acquire(j) /\ ~Active(job[j].p))
  PROVE  JobsMove
<1> DEFINE r == [job[j] EXCEPT !.at = at]
<1>1. job[j] \in Records /\ job' = [job EXCEPT ![j] = r]
  BY DEF Goto, Shapes
<1>2. r \in Records /\ r.at = at /\ r.p = job[j].p /\ r.life = job[j].life /\ r.cut = job[j].cut
  BY <1>1 DEF Records
<1> HIDE DEF r
<1> QED BY <1>1, <1>2, GoesOn

\* A check that has the lock installs its visitor's session.
LEMMA InstallMoves ==
  ASSUME Shapes, NEW j \in Jobs, Install(j)
  PROVE  JobsMove
<1> DEFINE old == [plain |-> plain[job[j].p], sealed |-> sealed[job[j].p]]
           moved == {f \in {"plain", "sealed"} : old[f] # None}
<1>1. Live(j) /\ moved \in SUBSET {"plain", "sealed"} /\ job[j] \in Records
  BY DEF Install, Live, At, Shapes
<1>2. CASE job' = [job EXCEPT ![j] = NoJob]
  BY <1>2, Ends
<1>3. CASE job' = [job EXCEPT ![j].at = "opened", ![j].moved = moved]
  <2> HIDE DEF moved
  <2> DEFINE r == [job[j] EXCEPT !.at = "opened", !.moved = moved]
  <2>1. job' = [job EXCEPT ![j] = r]
    BY <1>3 DEF Shapes
  <2>2. r \in Records /\ r.at = "opened" /\ r.p = job[j].p /\ r.life = job[j].life /\ r.cut = job[j].cut
    BY <1>1 DEF Records, Stations
  <2> HIDE DEF r
  <2> QED BY <1>1, <2>1, <2>2, GoesOn
<1> QED BY <1>2, <1>3 DEF Install

LEMMA BeginMoves ==
  ASSUME Shapes, NEW j \in Jobs, NEW p \in Profiles, Begins(j, p)
  PROVE  JobsMove
<1> DEFINE r == [NoJob EXCEPT !.at = "waiting", !.p = p, !.life = life[p]]
<1>1. r \in Records /\ r.at = "waiting" /\ r.p = p /\ r.life = life[p]
  BY NoJobIsNone DEF Shapes, Records, Stations
<1>2. job' = [job EXCEPT ![j] = r]
  BY DEF Begins, BeginSend, BeginTest, BeginLogin, BeginCheck, Begin
<1> HIDE DEF r
<1>3. job'[j] = r
  BY <1>2 DEF Shapes
<1>4. Moves(j)
  BY <1>1, <1>3 DEF Moves, Live, Holds, At
<1> QED BY <1>1, <1>2, <1>4, OneMoves

LEMMA JobsNext ==
  ASSUME Shapes, [Next]_vars
  PROVE  JobsMove
<1>1. ASSUME NEW j \in Jobs, JobStep(j)
      PROVE  JobsMove
  <2> USE DEF Live, At, Stations, Holds
  <2>1. CASE Open(j)
    BY <2>1, Ends, GoesTo DEF Open
  <2>2. CASE Acquire(j)
    BY <2>2, Ends, GoesTo DEF Acquire, NotLeased
  <2>3. CASE Works(j)
    BY <2>3, WorksOn DEF Works
  <2>4. CASE Fails(j) \/ DrainLease(j)
    BY <2>4, GoesTo DEF Fails, DrainLease
  <2>5. CASE Close(j)
    <3>1. PICK good \in {job[j].good, FALSE} : job' = [job EXCEPT ![j].at = "closed", ![j].good = good]
      BY <2>5 DEF Close
    <3>2. good \in BOOLEAN
      BY DEF Shapes, Records
    <3> QED BY <2>5, <3>1, <3>2, WorksOn DEF Close
  <2>6. CASE End(j)
    BY <2>6, Ends DEF End
  <2>7. CASE Cancelled(j)
    BY <2>7, Ends DEF Cancelled, NotLeased
  <2>8. CASE Install(j)
    BY <2>8, InstallMoves
  <2> QED BY <1>1, <2>1, <2>2, <2>3, <2>4, <2>5, <2>6, <2>7, <2>8 DEF JobStep
<1>2. ASSUME NEW p \in Profiles, ProfileStep(p)
      PROVE  JobsMove
  <2>1. CASE Start(p) \/ Stopped(p) \/ DeleteAtOnce(p) \/ Remove(p) \/ RemoveFails(p)
    BY <2>1, Rest DEF Start, Stopped, DeleteAtOnce, Remove, RemoveFails
  <2>2. CASE Stop(p) \/ CancelLogin(p) \/ BeginDelete(p)
    BY <2>2, CutMoves DEF Stop, CancelLogin, BeginDelete
  <2>3. ASSUME NEW j \in Jobs, Begins(j, p)
        PROVE  JobsMove
    BY <2>3, BeginMoves
  <2> QED BY <1>2, <2>1, <2>2, <2>3 DEF ProfileStep, Begins, Jobs
<1>3. CASE ShutdownStep
  <2>1. CASE Signal \/ NextPhase \/ GiveUp \/ \E p \in Profiles : Reseal(p)
    BY <2>1, Rest DEF Signal, NextPhase, GiveUp, Reseal
  <2>2. CASE CancelLogins
    BY <2>2, CutMoves DEF CancelLogins
  <2>3. ASSUME NEW j \in Jobs, DrainLease(j)
        PROVE  JobsMove
    BY <2>3, GoesTo DEF DrainLease, Live, At, Stations
  <2> QED BY <1>3, <2>1, <2>2, <2>3 DEF ShutdownStep
<1>4. CASE Exited \/ UNCHANGED vars
  BY <1>4, Rest DEF Exited, vars
<1> QED BY <1>1, <1>2, <1>3, <1>4 DEF Next

--------------------------------------------------------------------------------
(* What a step does to the sessions and to the campaigns *)

Held(p) == {plain[p], sealed[p], aside[p].plain, aside[p].sealed}

\* A profile's runtime is removed, or its session files hold what they held or a
\* visitor's session, or a login of the profile leaves one.
FilesMove(p) ==
    \/ /\ Registered(p) = {} /\ UNCHANGED job
       /\ life'[p] = life[p] + 1 /\ Held(p)' = {None}
    \/ /\ life'[p] = life[p]
       /\ Held(p)' \subseteq {None, Visitor} \cup Held(p)
       /\ plain'[p] \in {None, plain[p]} \/ \E j \in Jobs : Live(j)
    \/ /\ life'[p] = life[p] /\ sealed'[p] = sealed[p] /\ aside'[p] = aside[p]
       /\ \E j \in Logins : Live(j) /\ ~job[j].cut /\ job[j].p = p /\ plain'[p] = job[j].life

FilesTyped ==
    /\ life' \in [Profiles -> Nat]
    /\ plain' \in [Profiles -> Sessions] /\ sealed' \in [Profiles -> Sessions]
    /\ aside' \in [Profiles -> [plain : Sessions, sealed : Sessions]]

LEMMA FilesStay ==
  ASSUME Shapes, UNCHANGED <<life, files>>
  PROVE  FilesTyped /\ \A p \in Profiles : FilesMove(p)
BY DEF Shapes, FilesTyped, FilesMove, Held, files

LEMMA SealMoves ==
  ASSUME Shapes, NEW p \in Profiles, Seal(p), UNCHANGED <<life, aside>>
  PROVE  FilesTyped /\ \A q \in Profiles : FilesMove(q)
<1>1. Newest(p) \in {plain[p], sealed[p]} /\ Newest(p) \in Sessions
  BY DEF Newest, Shapes
<1>2. sealed' = [sealed EXCEPT ![p] = Newest(p)] /\ plain' = [plain EXCEPT ![p] = None] /\ None \in Sessions
  BY DEF Seal, Sessions
<1>3. FilesTyped
  BY <1>1, <1>2 DEF Shapes, FilesTyped
<1>4. /\ plain'[p] = None /\ sealed'[p] = Newest(p)
      /\ \A q \in Profiles \ {p} : plain'[q] = plain[q] /\ sealed'[q] = sealed[q]
  BY <1>2 DEF Shapes
<1> QED BY <1>1, <1>3, <1>4 DEF FilesMove, Held

\* A job that leaves puts back what it moved, or seals.
LEMMA LeaveMoves ==
  ASSUME Shapes, NEW j \in Jobs, Live(j), NEW restored \in BOOLEAN, Leave(j, restored), UNCHANGED life
  PROVE  FilesTyped /\ \A q \in Profiles : FilesMove(q)
<1> DEFINE p == job[j].p
           back == IF restored THEN job[j].moved ELSE {}
           a == [f \in {"plain", "sealed"} |-> IF f \in job[j].moved THEN None ELSE aside[p][f]]
           d == IF "plain" \in back THEN aside[p].plain ELSE None
           s == IF "sealed" \in back THEN aside[p].sealed ELSE Newest(p)
<1>1. p \in Profiles /\ None \in Sessions
  BY DEF Shapes, Sessions
<1>2. aside[p] \in [plain : Sessions, sealed : Sessions] /\ plain[p] \in Sessions /\ sealed[p] \in Sessions
  BY <1>1 DEF Shapes
<1>3. Newest(p) \in {plain[p], sealed[p]}
  BY DEF Newest
<1>4. d \in {None, aside[p].plain} /\ s \in {aside[p].sealed, plain[p], sealed[p]} /\ d \in Sessions /\ s \in Sessions
  BY <1>1, <1>2, <1>3
<1>5. /\ a \in [plain : Sessions, sealed : Sessions]
      /\ a.plain \in {None, aside[p].plain} /\ a.sealed \in {None, aside[p].sealed}
  BY <1>1, <1>2
<1>6. /\ plain' = [plain EXCEPT ![p] = d] /\ sealed' = [sealed EXCEPT ![p] = s] /\ aside' = [aside EXCEPT ![p] = a]
  BY DEF Leave
<1> HIDE DEF p, back, a, d, s
<1>7. FilesTyped
  BY <1>1, <1>4, <1>5, <1>6 DEF Shapes, FilesTyped
<1>8. /\ plain'[p] = d /\ sealed'[p] = s /\ aside'[p] = a
      /\ \A q \in Profiles \ {p} : plain'[q] = plain[q] /\ sealed'[q] = sealed[q] /\ aside'[q] = aside[q]
  BY <1>1, <1>6 DEF Shapes
<1>9. ASSUME NEW q \in Profiles
      PROVE  FilesMove(q)
  <2>1. life'[q] = life[q] /\ \E k \in Jobs : Live(k)
    OBVIOUS
  <2>2. Held(q)' \subseteq {None, Visitor} \cup Held(q)
    <3>1. CASE q = p
      BY <1>4, <1>5, <1>8, <3>1 DEF Held
    <3>2. CASE q # p
      BY <1>8, <3>2 DEF Held
    <3> QED BY <3>1, <3>2
  <2> QED BY <2>1, <2>2 DEF FilesMove
<1> QED BY <1>7, <1>9

LEMMA InstallFiles ==
  ASSUME Shapes, NEW j \in Jobs, Install(j)
  PROVE  FilesTyped /\ \A q \in Profiles : FilesMove(q)
<1> DEFINE p == job[j].p
           old == [plain |-> plain[p], sealed |-> sealed[p]]
<1>1. p \in Profiles /\ Live(j) /\ Visitor \in Sessions /\ UNCHANGED life
  BY DEF Install, Shapes, Sessions, Live, At
<1>2. CASE UNCHANGED files
  BY <1>1, <1>2, FilesStay
<1>3. CASE aside' = [aside EXCEPT ![p] = old] /\ plain' = [plain EXCEPT ![p] = Visitor]
           /\ sealed' = [sealed EXCEPT ![p] = Visitor]
  <2>1. old \in [plain : Sessions, sealed : Sessions] /\ old.plain = plain[p] /\ old.sealed = sealed[p]
    BY <1>1 DEF Shapes
  <2> HIDE DEF p, old
  <2>2. FilesTyped
    BY <1>1, <1>3, <2>1 DEF Shapes, FilesTyped
  <2>3. /\ plain'[p] = Visitor /\ sealed'[p] = Visitor /\ aside'[p] = old
        /\ \A q \in Profiles \ {p} : plain'[q] = plain[q] /\ sealed'[q] = sealed[q] /\ aside'[q] = aside[q]
    BY <1>1, <1>3 DEF Shapes
  <2>4. \A q \in Profiles : Held(q)' \subseteq {None, Visitor} \cup Held(q)
    BY <2>1, <2>3 DEF Held
  <2> QED BY <1>1, <2>2, <2>4 DEF FilesMove
<1> QED BY <1>2, <1>3 DEF Install

LEMMA RemovedMoves ==
  ASSUME Shapes, NEW p \in Profiles, Removed(p), Registered(p) = {}, UNCHANGED job
  PROVE  /\ FilesTyped /\ \A q \in Profiles : FilesMove(q)
         /\ claims' \in [Accounts -> Profiles \cup {None}]
<1> DEFINE none == [plain |-> None, sealed |-> None]
<1>1. life' \in [Profiles -> Nat] /\ life'[p] = life[p] + 1 /\ \A q \in Profiles \ {p} : life'[q] = life[q]
  BY DEF Shapes, Removed
<1>2. plain' \in [Profiles -> Sessions] /\ plain'[p] = None /\ \A q \in Profiles \ {p} : plain'[q] = plain[q]
  BY DEF Shapes, Removed, Sessions
<1>3. sealed' \in [Profiles -> Sessions] /\ sealed'[p] = None /\ \A q \in Profiles \ {p} : sealed'[q] = sealed[q]
  BY DEF Shapes, Removed, Sessions
<1>4. /\ aside' \in [Profiles -> [plain : Sessions, sealed : Sessions]]
      /\ aside'[p] = none /\ \A q \in Profiles \ {p} : aside'[q] = aside[q]
  <2>1. none \in [plain : Sessions, sealed : Sessions] /\ aside' = [aside EXCEPT ![p] = none]
    BY DEF Removed, Sessions
  <2> HIDE DEF none
  <2> QED BY <2>1 DEF Shapes
<1>5. \A q \in Profiles : FilesMove(q)
  BY <1>1, <1>2, <1>3, <1>4 DEF FilesMove, Held
<1>6. claims' \in [Accounts -> Profiles \cup {None}]
  BY DEF Shapes, Removed
<1> QED BY <1>1, <1>2, <1>3, <1>4, <1>5, <1>6 DEF FilesTyped

LEMMA FilesNext ==
  ASSUME Shapes, DeletionCuts, [Next]_vars
  PROVE  FilesTyped /\ \A p \in Profiles : FilesMove(p)
<1> DEFINE Goal == FilesTyped /\ \A p \in Profiles : FilesMove(p)
<1>1. ASSUME NEW j \in Jobs, JobStep(j)
      PROVE  Goal
  <2>1. job[j] \in Records /\ (Live(j) => job[j].p \in Profiles)
    BY DEF Shapes
  <2>2. CASE Fails(j) \/ Close(j)
    BY <2>2, FilesStay DEF Fails, Close
  <2>3. CASE Acquire(j) \/ Cancelled(j)
    BY <2>3, FilesStay, LeaveMoves DEF Acquire, Cancelled, NotLeased, Live, At
  <2>4. CASE End(j)
    BY <2>4, LeaveMoves DEF End, EndLogin, EndCheck, Live, At
  <2>5. CASE Open(j)
    <3> DEFINE p == job[j].p
    <3>1. UNCHANGED <<life, sealed, aside>> /\ (plain' = plain \/ plain' = [plain EXCEPT ![p] = Newest(p)])
          /\ Live(j) /\ p \in Profiles
      BY <2>1, <2>5 DEF Open, Live, At
    <3>2. Newest(p) \in {plain[p], sealed[p]} /\ Newest(p) \in Sessions
      BY <3>1 DEF Shapes, Newest
    <3> HIDE DEF p
    <3>3. FilesTyped
      BY <3>1, <3>2 DEF Shapes, FilesTyped
    <3>4. \A q \in Profiles : plain'[q] \in {plain[q], sealed[q]}
      BY <3>1, <3>2 DEF Shapes
    <3> QED BY <3>1, <3>3, <3>4 DEF FilesMove, Held
  <2>6. CASE Works(j)
    <3> DEFINE p == job[j].p
    <3>1. UNCHANGED <<life, sealed, aside>> /\ Live(j) /\ ~job[j].cut /\ p \in Profiles /\ job[j].life \in Sessions
          /\ (plain' = plain \/ (j \in Logins /\ plain' = [plain EXCEPT ![p] = job[j].life]))
      BY <2>1, <2>6 DEF Works, Live, At, Records, Sessions
    <3>2. CASE plain' = plain
      BY <3>1, <3>2, FilesStay DEF files
    <3>3. CASE j \in Logins /\ plain' = [plain EXCEPT ![p] = job[j].life]
      <4>1. FilesTyped
        BY <3>1, <3>3 DEF Shapes, FilesTyped
      <4>2. plain'[p] = job[j].life /\ \A q \in Profiles \ {p} : plain'[q] = plain[q]
        BY <3>1, <3>3 DEF Shapes
      <4>3. \A q \in Profiles \ {p} : FilesMove(q)
        BY <3>1, <4>2 DEF FilesMove, Held
      <4> HIDE DEF p
      <4>4. FilesMove(p)
        BY <3>1, <3>3, <4>2 DEF FilesMove, p
      <4> QED BY <4>1, <4>3, <4>4
    <3> QED BY <3>1, <3>2, <3>3
  <2>7. CASE Install(j)
    BY <2>7, InstallFiles
  <2> QED BY <1>1, <2>2, <2>3, <2>4, <2>5, <2>6, <2>7 DEF JobStep
<1>2. ASSUME NEW p \in Profiles, ProfileStep(p)
      PROVE  Goal
  <2>1. CASE Start(p) \/ Stop(p) \/ Stopped(p) \/ CancelLogin(p) \/ BeginDelete(p) \/ RemoveFails(p)
    BY <2>1, FilesStay DEF Start, Stop, Stopped, CancelLogin, BeginDelete, RemoveFails
  <2>2. CASE DeleteAtOnce(p) \/ Remove(p)
    BY <2>2, RemovedMoves DEF DeleteAtOnce, Remove, DeletionCuts
  <2>3. ASSUME NEW j, BeginSend(j, p) \/ BeginTest(j, p) \/ BeginLogin(j, p) \/ BeginCheck(j, p)
        PROVE  Goal
    BY <2>3, FilesStay DEF BeginSend, BeginTest, BeginLogin, BeginCheck, Begin
  <2> QED BY <1>2, <2>1, <2>2, <2>3 DEF ProfileStep
<1>3. CASE ShutdownStep
  BY <1>3, FilesStay, SealMoves DEF ShutdownStep, Signal, NextPhase, GiveUp, CancelLogins, DrainLease, Reseal
<1>4. CASE Exited \/ UNCHANGED vars
  BY <1>4, FilesStay DEF Exited, vars
<1> QED BY <1>1, <1>2, <1>3, <1>4 DEF Next

\* A campaign leaves its rest while the process is up, and comes to it when its
\* worker is gone.
ControlMoves(p) ==
    /\ control'[p] \in {"idle", "running", "stopping", "testing"}
    /\ control[p] = "idle" /\ down # "up" => control'[p] = "idle"
    /\ control[p] \in {"running", "stopping"} => control'[p] \in {"running", "stopping"} \/ Stopped(p)

LEMMA LeftMoves ==
  ASSUME Shapes, NEW j \in Jobs, Live(j), Left(j)
  PROVE  control' \in [Profiles -> {"idle", "running", "stopping", "testing"}] /\ \A p \in Profiles : ControlMoves(p)
BY DEF Shapes, Left, ControlMoves

LEMMA ControlNext ==
  ASSUME Shapes, [Next]_vars
  PROVE  control' \in [Profiles -> {"idle", "running", "stopping", "testing"}] /\ \A p \in Profiles : ControlMoves(p)
<1> DEFINE Goal == control' \in [Profiles -> {"idle", "running", "stopping", "testing"}] /\ \A p \in Profiles : ControlMoves(p)
<1>1. ASSUME UNCHANGED control
      PROVE  Goal
  BY <1>1 DEF Shapes, ControlMoves
<1>2. ASSUME NEW j \in Jobs, JobStep(j)
      PROVE  Goal
  <2>1. CASE Install(j) \/ Works(j) \/ Fails(j) \/ Close(j)
    BY <2>1, <1>1 DEF Install, Works, Fails, Close
  <2>2. CASE Open(j) \/ Acquire(j) \/ End(j) \/ Cancelled(j)
    BY <2>2, <1>1, LeftMoves DEF Open, Acquire, End, Cancelled, NotLeased, Live, At
  <2> QED BY <1>2, <2>1, <2>2 DEF JobStep
<1>3. ASSUME NEW p \in Profiles, ProfileStep(p)
      PROVE  Goal
  <2>1. CASE CancelLogin(p) \/ DeleteAtOnce(p) \/ BeginDelete(p) \/ Remove(p) \/ RemoveFails(p)
    BY <2>1, <1>1 DEF CancelLogin, DeleteAtOnce, BeginDelete, Remove, RemoveFails
  <2>2. CASE Start(p)
    BY <2>2 DEF Start, Shapes, ControlMoves
  <2>3. CASE Stop(p)
    BY <2>3 DEF Stop, Shapes, ControlMoves
  <2>4. CASE Stopped(p)
    BY <2>4 DEF Stopped, Shapes, ControlMoves
  <2>5. ASSUME NEW j, BeginSend(j, p) \/ BeginLogin(j, p) \/ BeginCheck(j, p)
        PROVE  Goal
    BY <2>5, <1>1 DEF BeginSend, BeginLogin, BeginCheck
  <2>6. ASSUME NEW j, BeginTest(j, p)
        PROVE  Goal
    BY <2>6 DEF BeginTest, Begin, Shapes, ControlMoves
  <2> QED BY <1>3, <2>1, <2>2, <2>3, <2>4, <2>5, <2>6 DEF ProfileStep
<1>4. CASE ShutdownStep \/ Exited \/ UNCHANGED vars
  BY <1>4, <1>1 DEF ShutdownStep, Signal, NextPhase, GiveUp, CancelLogins, DrainLease, Reseal, Exited, vars
<1> QED BY <1>2, <1>3, <1>4 DEF Next

--------------------------------------------------------------------------------
(* The parts of the invariant *)

LEMMA BeginsNew ==
  ASSUME NEW j \in Jobs, NEW p \in Profiles, Begins(j, p)
  PROVE  /\ ~Live(j) /\ down = "up" /\ UNCHANGED <<life, down, deleting>>
         /\ j \in Sends => control[p] = "running" /\ UNCHANGED control
         /\ j \in Logins => deleting[p] = "no"
BY KindsDiffer DEF Begins, BeginSend, BeginTest, BeginLogin, BeginCheck, Begin

LEMMA OneLeaseNext ==
  ASSUME Shapes, OneLease, JobsMove
  PROVE  OneLease'
<1>1. \A j \in Jobs : Holds(j)' => Live(j) /\ job'[j].p = job[j].p /\ (Holds(j) \/ (Acquire(j) /\ ~Active(job[j].p)))
  BY BeginsNew DEF JobsMove, Moves, Holds, Live, At
<1>2. ASSUME NEW j \in Jobs, NEW k \in Jobs, j # k, Acquire(j)
      PROVE  job'[k] = job[k] /\ ~(Acquire(k) /\ job'[k] # job[k])
  BY <1>2 DEF Acquire, NotLeased, Goto, Shapes
<1>3. ASSUME NEW j \in Jobs, NEW k \in Jobs, j # k, Holds(j)', Holds(k)', Acquire(j), ~Active(job[j].p), job[j].p = job[k].p
      PROVE  FALSE
  <2>1. Holds(k) /\ Live(k)
    BY <1>2, <1>3 DEF Holds, At, Live
  <2> QED BY <1>3, <2>1 DEF Active, Of, Holds
<1> QED BY <1>1, <1>3 DEF OneLease

LEMMA DeletingMoves ==
  ASSUME [Next]_vars, NEW p \in Profiles, deleting'[p] # "no", Shapes
  PROVE  deleting[p] # "no" \/ BeginDelete(p)
<1> DEFINE Goal == deleting[p] # "no" \/ BeginDelete(p)
<1>1. ASSUME UNCHANGED deleting
      PROVE  Goal
  BY <1>1
<1>2. ASSUME NEW j \in Jobs, JobStep(j)
      PROVE  Goal
  BY <1>1, <1>2 DEF JobStep, Open, Install, Acquire, Works, Fails, Close, End, Cancelled
<1>3. ASSUME NEW q \in Profiles, ProfileStep(q)
      PROVE  Goal
  <2>1. CASE Start(q) \/ Stop(q) \/ Stopped(q) \/ CancelLogin(q) \/ DeleteAtOnce(q)
    BY <1>1, <2>1 DEF Start, Stop, Stopped, CancelLogin, DeleteAtOnce
  <2>2. ASSUME NEW j, BeginSend(j, q) \/ BeginTest(j, q) \/ BeginLogin(j, q) \/ BeginCheck(j, q)
        PROVE  Goal
    BY <1>1, <2>2 DEF BeginSend, BeginTest, BeginLogin, BeginCheck, Begin
  <2>3. CASE Remove(q) \/ RemoveFails(q)
    <3>1. deleting' = [deleting EXCEPT ![q] = "no"]
      BY <2>3 DEF Remove, RemoveFails
    <3> QED BY <3>1 DEF Shapes
  <2>4. CASE BeginDelete(q)
    <3>1. PICK way : deleting' = [deleting EXCEPT ![q] = way]
      BY <2>4 DEF BeginDelete
    <3>2. q = p \/ deleting'[p] = deleting[p]
      BY <3>1 DEF Shapes
    <3> QED BY <2>4, <3>2
  <2> QED BY <1>3, <2>1, <2>2, <2>3, <2>4 DEF ProfileStep
<1>4. CASE ShutdownStep \/ Exited \/ UNCHANGED vars
  BY <1>1, <1>4 DEF ShutdownStep, Signal, NextPhase, GiveUp, CancelLogins, DrainLease, Reseal, Exited, vars
<1> QED BY <1>2, <1>3, <1>4 DEF Next

LEMMA DeletionCutsNext ==
  ASSUME Shapes, DeletionCuts, JobsMove, [Next]_vars
  PROVE  DeletionCuts'
<1> SUFFICES ASSUME NEW p \in Profiles, deleting'[p] # "no",
                    NEW j \in Logins, Live(j)', job'[j].p = p, ~job'[j].cut
             PROVE  FALSE
  BY DEF DeletionCuts, Registered, Of, Live, At
<1>1. j \in Jobs /\ Moves(j)
  BY DEF Jobs, JobsMove
<1>2. CASE Live(j) /\ job'[j].p = job[j].p /\ (job[j].cut => job'[j].cut)
  <2>1. j \in Registered(p)
    BY <1>1, <1>2 DEF Registered, Of
  <2>2. CASE BeginDelete(p)
    <3>1. job'[j].cut = (job[j].cut \/ j \in Registered(p))
      BY <1>1, <2>2, CutMoves DEF BeginDelete
    <3> QED BY <2>1, <3>1
  <2> QED BY <2>1, <2>2, DeletingMoves DEF DeletionCuts
<1>3. ASSUME NEW q \in Profiles, Begins(j, q), job'[j].p = q
      PROVE  FALSE
  BY <1>1, <1>3, BeginsNew
<1> QED BY <1>1, <1>2, <1>3 DEF Moves

LEMMA LoginsNext ==
  ASSUME Shapes, LoginsAreOfNow, JobsMove, \A p \in Profiles : FilesMove(p)
  PROVE  LoginsAreOfNow'
<1> SUFFICES ASSUME NEW j \in Logins, Live(j)', ~job'[j].cut
             PROVE  job'[j].life = life'[job'[j].p]
  BY DEF LoginsAreOfNow, Live, At
<1>1. j \in Jobs /\ Moves(j)
  BY DEF Jobs, JobsMove
<1>2. CASE Live(j) /\ job'[j].p = job[j].p /\ job'[j].life = job[j].life /\ (job[j].cut => job'[j].cut)
  <2>1. job[j].p \in Profiles /\ j \in Registered(job[j].p)
    BY <1>1, <1>2 DEF Shapes, Of, Registered
  <2>2. life'[job[j].p] = life[job[j].p]
    BY <2>1 DEF FilesMove
  <2> QED BY <1>2, <2>2 DEF LoginsAreOfNow
<1>3. ASSUME NEW p \in Profiles, Begins(j, p), job'[j].p = p, job'[j].life = life[p]
      PROVE  job'[j].life = life'[job'[j].p]
  BY <1>1, <1>3, BeginsNew
<1> QED BY <1>1, <1>2, <1>3 DEF Moves

LEMMA SessionsNext ==
  ASSUME Shapes, LoginsAreOfNow, SessionsAreOfNow, \A p \in Profiles : FilesMove(p)
  PROVE  SessionsAreOfNow'
<1> SUFFICES ASSUME NEW p \in Profiles
             PROVE  \A x \in Held(p)' : x \in {None, Visitor, life'[p]}
  BY DEF SessionsAreOfNow, OfNow, Held
<1>1. Held(p) \subseteq {None, Visitor, life[p]}
  BY DEF SessionsAreOfNow, OfNow, Held
<1>2. CASE Held(p)' = {None}
  BY <1>2
<1>3. CASE life'[p] = life[p] /\ Held(p)' \subseteq {None, Visitor} \cup Held(p)
  BY <1>1, <1>3
<1>4. CASE /\ life'[p] = life[p] /\ sealed'[p] = sealed[p] /\ aside'[p] = aside[p]
           /\ \E j \in Logins : Live(j) /\ ~job[j].cut /\ job[j].p = p /\ plain'[p] = job[j].life
  BY <1>1, <1>4 DEF Held, LoginsAreOfNow
<1> QED BY <1>2, <1>3, <1>4 DEF FilesMove

LEMMA AtRestNext ==
  ASSUME Shapes, AtRest, JobsMove, \A p \in Profiles : ControlMoves(p)
  PROVE  AtRest'
<1> SUFFICES ASSUME NEW j \in Sends, Live(j)'
             PROVE  control'[job'[j].p] \in {"running", "stopping"}
  BY DEF AtRest, Live, At
<1>1. j \in Jobs /\ Moves(j)
  BY DEF Jobs, JobsMove
<1>2. CASE Live(j) /\ job'[j].p = job[j].p
  <2>1. job[j].p \in Profiles /\ j \in Of(job[j].p)
    BY <1>1, <1>2 DEF Shapes, Of
  <2>2. ~Stopped(job[j].p)
    BY <2>1 DEF Stopped
  <2> QED BY <1>2, <2>1, <2>2 DEF AtRest, ControlMoves
<1>3. ASSUME NEW p \in Profiles, Begins(j, p), job'[j].p = p
      PROVE  control'[job'[j].p] \in {"running", "stopping"}
  BY <1>1, <1>3, BeginsNew
<1> QED BY <1>1, <1>2, <1>3 DEF Moves

\* Who writes the shutdown's progress.
LEMMA DownMoves ==
  ASSUME [Next]_vars
  PROVE  \/ UNCHANGED <<down, late>>
         \/ Signal \/ NextPhase
         \/ GiveUp
<1> DEFINE Goal == UNCHANGED <<down, late>> \/ Signal \/ NextPhase \/ GiveUp
<1>1. ASSUME NEW j \in Jobs, JobStep(j)
      PROVE  Goal
  BY <1>1 DEF JobStep, Open, Install, Acquire, Works, Fails, Close, End, Cancelled
<1>2. ASSUME NEW p \in Profiles, ProfileStep(p)
      PROVE  Goal
  <2>1. CASE Start(p) \/ Stop(p) \/ Stopped(p) \/ CancelLogin(p) \/ DeleteAtOnce(p) \/ BeginDelete(p) \/ Remove(p) \/ RemoveFails(p)
    BY <2>1 DEF Start, Stop, Stopped, CancelLogin, DeleteAtOnce, BeginDelete, Remove, RemoveFails
  <2>2. ASSUME NEW j, BeginSend(j, p) \/ BeginTest(j, p) \/ BeginLogin(j, p) \/ BeginCheck(j, p)
        PROVE  Goal
    BY <2>2 DEF BeginSend, BeginTest, BeginLogin, BeginCheck, Begin
  <2> QED BY <1>2, <2>1, <2>2 DEF ProfileStep
<1>3. CASE ShutdownStep
  BY <1>3 DEF ShutdownStep, CancelLogins, DrainLease, Reseal
<1> QED BY <1>1, <1>2, <1>3 DEF Next, Exited, vars

LEMMA Order ==
  /\ After("up") = "workers" /\ After("workers") = "logins" /\ After("logins") = "leases"
  /\ After("leases") = "reseal" /\ After("reseal") = "done"
<1>1. DOMAIN Phases = 1..6 /\ Phases[1] = "up" /\ Phases[2] = "workers" /\ Phases[3] = "logins" /\ Phases[4] = "leases"
      /\ Phases[5] = "reseal" /\ Phases[6] = "done"
  BY DEF Phases
<1>2. \A i, k \in 1..6 : Phases[i] = Phases[k] => i = k
  BY DEF Phases
<1>3. ASSUME NEW n \in 1..5
      PROVE  After(Phases[n]) = Phases[n + 1]
  <2>1. \A t \in {Phases[i] : i \in DOMAIN Phases} :
           (\E i \in DOMAIN Phases : i > 1 /\ Phases[i] = t /\ Phases[i-1] = Phases[n]) <=> t = Phases[n + 1]
    <3>1. ASSUME NEW i \in 1..6, i > 1, Phases[i-1] = Phases[n]
          PROVE  i = n + 1
      BY <1>2, <3>1
    <3>2. n + 1 \in 1..6 /\ n + 1 > 1 /\ (n + 1) - 1 = n
      OBVIOUS
    <3> HIDE DEF Phases
    <3> QED BY <1>1, <3>1, <3>2
  <2>2. Phases[n + 1] \in {Phases[i] : i \in DOMAIN Phases}
    BY <1>1
  <2> HIDE DEF Phases
  <2> QED BY <2>1, <2>2 DEF After
<1> HIDE DEF Phases
<1>4. 1 \in 1..5 /\ 2 \in 1..5 /\ 3 \in 1..5 /\ 4 \in 1..5 /\ 5 \in 1..5
      /\ 1 + 1 = 2 /\ 2 + 1 = 3 /\ 3 + 1 = 4 /\ 4 + 1 = 5 /\ 5 + 1 = 6
  OBVIOUS
<1>5. After(Phases[1]) = Phases[2] /\ After(Phases[2]) = Phases[3] /\ After(Phases[3]) = Phases[4]
      /\ After(Phases[4]) = Phases[5] /\ After(Phases[5]) = Phases[6]
  BY <1>3, <1>4
<1> QED BY <1>1, <1>5

LEMMA PhasedNext ==
  ASSUME Shapes, AtRest, Phased, JobsMove, [Next]_vars,
         \A p \in Profiles : ControlMoves(p) /\ FilesMove(p)
  PROVE  Phased' /\ down' \in {"up", "workers", "logins", "leases", "reseal", "done"} /\ late' \in BOOLEAN
<1>1. \A j \in Jobs : Live(j)' => Live(j) \/ down = "up"
  BY BeginsNew DEF JobsMove, Moves
<1>2. CASE UNCHANGED <<down, late>>
  <2>1. down # "up" => \A j \in Tests \cup Checks : ~Live(j)'
    BY <1>1 DEF Phased, Jobs
  <2>2. ~late /\ down \in {"logins", "leases", "reseal", "done"} => \A p \in Profiles : control'[p] = "idle"
    BY DEF Phased, ControlMoves
  <2>3. ~late /\ down \in {"leases", "reseal", "done"} => \A j \in Logins : ~Live(j)'
    BY <1>1 DEF Phased, Jobs
  <2>4. ASSUME ~late, down = "done", NEW p \in Profiles
        PROVE  plain'[p] = None
    <3>1. \A j \in Jobs : ~Live(j)
      BY <2>4 DEF Phased, AtRest, Jobs, Shapes
    <3> QED BY <2>4, <3>1 DEF FilesMove, Held, Phased, Jobs
  <2> QED BY <1>2, <2>1, <2>2, <2>3, <2>4 DEF Phased, Shapes, Live, At
<1>3. CASE Signal
  <2>1. down' = "workers" /\ UNCHANGED <<job, late>> /\ \A j \in Tests \cup Checks : ~Live(j)
    BY <1>3, Order DEF Signal, Jobs
  <2> QED BY <2>1 DEF Phased, Shapes, Live, At
<1>4. CASE NextPhase
  <2>1. UNCHANGED <<job, control, files, late>> /\ down' = After(down) /\ PhaseDone
    BY <1>4 DEF NextPhase
  <2>2. down \in {"workers", "logins", "leases", "reseal"}
    BY <2>1 DEF PhaseDone, Shapes
  <2>3. /\ down = "workers" => \A p \in Profiles : control[p] = "idle"
        /\ down = "logins" => \A j \in Logins : ~Live(j)
        /\ down = "reseal" => \A p \in Profiles : plain[p] = None
    BY <2>1 DEF PhaseDone
  <2>4. /\ down = "workers" => down' = "logins"
        /\ down = "logins" => down' = "leases"
        /\ down = "leases" => down' = "reseal"
        /\ down = "reseal" => down' = "done"
    BY <2>1, Order
  <2> QED BY <2>1, <2>2, <2>3, <2>4 DEF Phased, Shapes, Live, At, files
<1>5. CASE GiveUp
  <2>1. UNCHANGED job /\ down' \in {"logins", "leases", "reseal", "done"} /\ late' = TRUE /\ down # "up"
    BY <1>5, Order DEF GiveUp
  <2> QED BY <2>1 DEF Phased, Live, At
<1> QED BY <1>2, <1>3, <1>4, <1>5, DownMoves

--------------------------------------------------------------------------------
(* The claim of an account *)

RowsTyped ==
    /\ deleting' \in [Profiles -> {"no", "session", "orphan"}]
    /\ status' \in [Profiles -> {"pending", "active", "reauth"}]
    /\ claims' \in [Accounts -> Profiles \cup {None}]

LEMMA RowsStay ==
  ASSUME Shapes, ClaimHeld, UNCHANGED <<status, claims, deleting, kept, onboarded>>
  PROVE  RowsTyped /\ ClaimHeld'
BY DEF Shapes, RowsTyped, ClaimHeld

LEMMA Unrowed ==
  ASSUME Shapes, ClaimHeld, UNCHANGED <<claims, deleting, kept, onboarded>>, NEW p \in Profiles,
         status' = [status EXCEPT ![p] = "reauth"]
  PROVE  RowsTyped /\ ClaimHeld'
BY DEF Shapes, RowsTyped, ClaimHeld

\* The account goes to a profile when no other has it.
LEMMA Claimed ==
  ASSUME Shapes, ClaimHeld, UNCHANGED deleting, NEW p \in Profiles, Unclaimed(p),
         kept' = kept \ {p}, onboarded' = onboarded \ {p},
         status' = [status EXCEPT ![p] = "active"], claims' = [claims EXCEPT ![Account[p]] = p]
  PROVE  RowsTyped /\ ClaimHeld'
<1>1. Account[p] \in Accounts /\ \A q \in Profiles : Account[q] \in Accounts
  BY DEF Accounts
<1>2. RowsTyped
  BY <1>1 DEF Shapes, RowsTyped
<1>3. ASSUME NEW q \in Profiles, q \notin kept' \cup onboarded', status'[q] = "active"
      PROVE  claims'[Account[q]] = q
  <2>1. CASE q = p
    BY <1>1, <2>1 DEF Shapes
  <2>2. CASE q # p
    <3>1. q \notin kept \cup onboarded /\ status[q] = "active"
      BY <1>3, <2>2 DEF Shapes
    <3>2. claims[Account[q]] = q /\ claims[Account[p]] \in {None, p} /\ q # None
      BY <3>1, LeasesAssumption DEF ClaimHeld, Unclaimed
    <3>3. Account[q] # Account[p]
      BY <2>2, <3>2
    <3> QED BY <1>1, <3>2, <3>3 DEF Shapes
  <2> QED BY <2>1, <2>2
<1> QED BY <1>2, <1>3 DEF ClaimHeld

\* Onboarding activates a profile that has the claim, or is set apart.
LEMMA Activated ==
  ASSUME Shapes, ClaimHeld, UNCHANGED <<deleting, claims, kept>>, NEW p \in Profiles,
         status' = [status EXCEPT ![p] = "active"],
         onboarded' = (IF claims[Account[p]] = p THEN onboarded ELSE onboarded \cup {p})
  PROVE  RowsTyped /\ ClaimHeld'
<1>1. RowsTyped
  BY DEF Shapes, RowsTyped
<1>2. ASSUME NEW q \in Profiles, q \notin kept' \cup onboarded', status'[q] = "active"
      PROVE  claims'[Account[q]] = q
  <2>1. q \notin kept \cup onboarded
    BY <1>2
  <2>2. CASE q = p
    BY <1>2, <2>2
  <2>3. CASE q # p
    <3>1. status[q] = "active"
      BY <1>2, <2>3 DEF Shapes
    <3> QED BY <2>1, <3>1 DEF ClaimHeld
  <2> QED BY <2>2, <2>3
<1> QED BY <1>1, <1>2 DEF ClaimHeld

\* The account is given up with the runtime.
LEMMA GivenUp ==
  ASSUME Shapes, ClaimHeld, NEW p \in Profiles, Removed(p), deleting' \in [Profiles -> {"no", "session", "orphan"}],
         NEW way, Forgotten(p, way)
  PROVE  RowsTyped /\ ClaimHeld'
<1>1. claims' \in [Accounts -> Profiles \cup {None}] /\ status' \in [Profiles -> {"pending", "active", "reauth"}]
  BY DEF Shapes, Removed, Forgotten
<1>2. ASSUME NEW q \in Profiles, q \notin kept' \cup onboarded', status'[q] = "active"
      PROVE  claims'[Account[q]] = q
  <2>1. q # p
    BY <1>2 DEF Shapes, Forgotten
  <2>2. q \notin kept \cup onboarded /\ status[q] = "active" /\ Account[q] \in Accounts
    BY <1>2, <2>1 DEF Shapes, Forgotten, Accounts
  <2> QED BY <2>1, <2>2 DEF ClaimHeld, Removed
<1> QED BY <1>1, <1>2 DEF RowsTyped, ClaimHeld

LEMMA ClaimNext ==
  ASSUME Shapes, ClaimHeld, [Next]_vars
  PROVE  RowsTyped /\ ClaimHeld'
<1> DEFINE Goal == RowsTyped /\ ClaimHeld'
<1>1. ASSUME NEW j \in Jobs, JobStep(j)
      PROVE  Goal
  <2>1. Live(j) => job[j].p \in Profiles
    BY DEF Shapes
  <2>2. CASE Open(j) \/ Install(j) \/ Works(j) \/ Fails(j) \/ Close(j)
    BY <2>2, RowsStay DEF Open, Install, Works, Fails, Close, rows, excepted
  <2>3. CASE Acquire(j) \/ Cancelled(j)
    BY <2>1, <2>3, RowsStay, Unrowed DEF Acquire, Cancelled, NotLeased, Live, At, excepted
  <2>4. CASE End(j)
    <3> DEFINE p == job[j].p
    <3>1. p \in Profiles /\ UNCHANGED deleting
      BY <2>1, <2>4 DEF End, Live, At
    <3>2. CASE EndLogin(j)
      <4> DEFINE in == job[j].good /\ ~job[j].cut /\ Unclaimed(p)
      <4>1. CASE in
        BY <3>1, <3>2, <4>1, Claimed DEF EndLogin
      <4>2. CASE ~in
        <5>1. /\ UNCHANGED <<claims, kept, onboarded>>
              /\ status' = [status EXCEPT ![p] = "reauth"] \/ UNCHANGED status
          BY <3>2, <4>2 DEF EndLogin
        <5> HIDE DEF p
        <5> QED BY <3>1, <5>1, RowsStay, Unrowed
      <4> QED BY <4>1, <4>2
    <3>3. CASE EndCheck(j)
      <4>1. CASE UNCHANGED <<status, onboarded>>
        BY <3>1, <3>3, <4>1, RowsStay DEF EndCheck
      <4>2. CASE /\ status' = [status EXCEPT ![p] = "active"]
                 /\ onboarded' = (IF claims[Account[p]] = p THEN onboarded ELSE onboarded \cup {p})
        BY <3>1, <3>3, <4>2, Activated DEF EndCheck
      <4> QED BY <3>3, <4>1, <4>2 DEF EndCheck
    <3>4. CASE UNCHANGED <<rows, excepted>>
      BY <3>1, <3>4, RowsStay DEF rows, excepted
    <3> QED BY <2>4, <3>2, <3>3, <3>4 DEF End
  <2> QED BY <1>1, <2>2, <2>3, <2>4 DEF JobStep
<1>2. ASSUME NEW p \in Profiles, ProfileStep(p)
      PROVE  Goal
  <2>1. CASE Start(p) \/ Stop(p) \/ Stopped(p) \/ CancelLogin(p)
    BY <2>1, RowsStay DEF Start, Stop, Stopped, CancelLogin, rows, excepted
  <2>2. ASSUME NEW j, BeginSend(j, p) \/ BeginTest(j, p) \/ BeginLogin(j, p) \/ BeginCheck(j, p)
        PROVE  Goal
    BY <2>2, RowsStay DEF BeginSend, BeginTest, BeginLogin, BeginCheck, Begin, rows, excepted
  <2>3. CASE BeginDelete(p) \/ RemoveFails(p)
    BY <2>3 DEF BeginDelete, RemoveFails, Shapes, RowsTyped, ClaimHeld, rows, excepted
  <2>4. CASE DeleteAtOnce(p)
    BY <2>4, GivenUp DEF DeleteAtOnce, Shapes
  <2>5. CASE Remove(p)
    <3>1. deleting' \in [Profiles -> {"no", "session", "orphan"}]
      BY <2>5 DEF Remove, Shapes
    <3> QED BY <2>5, <3>1, GivenUp DEF Remove
  <2> QED BY <1>2, <2>1, <2>2, <2>3, <2>4, <2>5 DEF ProfileStep
<1>3. CASE ShutdownStep \/ Exited \/ UNCHANGED vars
  BY <1>3, RowsStay DEF ShutdownStep, Signal, NextPhase, GiveUp, CancelLogins, DrainLease, Reseal, Exited, vars, rows, excepted
<1> QED BY <1>1, <1>2, <1>3 DEF Next

--------------------------------------------------------------------------------
(* The invariant *)

LEMMA LeasesStart == Init => LeasesInv
<1> SUFFICES ASSUME Init PROVE LeasesInv
  OBVIOUS
<1>1. PICK p \in Profiles :
        /\ sealed = [q \in Profiles |-> IF q = p THEN 0 ELSE None]
        /\ status = [q \in Profiles |-> IF q = p THEN "active" ELSE "pending"]
        /\ claims = [a \in Accounts |-> IF a = Account[p] THEN p ELSE None]
  BY DEF Init
<1>2. \A j \in Jobs : job[j] = NoJob /\ ~Live(j)
  BY NoJobIsNone DEF Init, Live, At
<1>3. Shapes
  BY <1>1, <1>2, NoJobIsNone DEF Init, Shapes, Sessions
<1>4. OneLease /\ DeletionCuts /\ LoginsAreOfNow /\ AtRest /\ Phased
  BY <1>2 DEF Init, OneLease, Holds, At, Live, DeletionCuts, LoginsAreOfNow, AtRest, Phased, Jobs
<1>5. SessionsAreOfNow /\ ClaimHeld
  BY <1>1 DEF Init, SessionsAreOfNow, OfNow, ClaimHeld, Accounts
<1> QED BY <1>3, <1>4, <1>5 DEF LeasesInv

LEMMA LeasesGoOn == LeasesInv /\ [Next]_vars => LeasesInv'
<1> SUFFICES ASSUME LeasesInv, [Next]_vars PROVE LeasesInv'
  OBVIOUS
<1> USE DEF LeasesInv
<1>1. JobsMove /\ FilesTyped /\ \A p \in Profiles : ControlMoves(p) /\ FilesMove(p)
  BY JobsNext, FilesNext, ControlNext
<1>2. RowsTyped /\ ClaimHeld'
  BY ClaimNext
<1>3. Phased' /\ down' \in {"up", "workers", "logins", "leases", "reseal", "done"} /\ late' \in BOOLEAN
  BY <1>1, PhasedNext
<1>4. Shapes'
  BY <1>1, <1>2, <1>3, ControlNext DEF Shapes, JobsMove, Moves, FilesTyped, RowsTyped
<1>5. OneLease' /\ DeletionCuts' /\ LoginsAreOfNow' /\ SessionsAreOfNow' /\ AtRest'
  BY <1>1, OneLeaseNext, DeletionCutsNext, LoginsNext, SessionsNext, AtRestNext
<1> QED BY <1>2, <1>3, <1>4, <1>5

LEMMA LeasesInvariant == Spec => []LeasesInv
BY LeasesStart, LeasesGoOn, PTL DEF Spec

--------------------------------------------------------------------------------
\* The tables keep their shape, and ClientManager leases one client per profile:
\* a job that waits for the lease gets it when the one before it is gone.
THEOREM LeasesTypeCorrect == Spec => []LeasesTypeOK
<1>1. ASSUME NEW S, \A x, y \in S : x = y
      PROVE  Cardinality(S) <= 1
  <2>1. CASE S = {}
    BY <2>1, FS_EmptySet
  <2>2. CASE \E x \in S : S = {x}
    BY <2>2, FS_Singleton
  <2> QED BY <1>1, <2>1, <2>2
<1>2. LeasesInv => LeasesTypeOK
  <2> SUFFICES ASSUME LeasesInv PROVE LeasesTypeOK
    OBVIOUS
  <2>1. \A p \in Profiles : Cardinality({j \in Of(p) : At(j, "leased") \/ At(j, "closing")}) <= 1
    <3> TAKE p \in Profiles
    <3> DEFINE S == {j \in Of(p) : At(j, "leased") \/ At(j, "closing")}
    <3>1. \A x, y \in S : x = y
      BY DEF LeasesInv, OneLease, Holds, Of
    <3> HIDE DEF S
    <3>2. Cardinality(S) <= 1
      BY <1>1, <3>1
    <3> QED BY <3>2 DEF S
  <2>2. \A p \in Profiles : {plain[p], sealed[p], aside[p].plain, aside[p].sealed} \subseteq 0..life[p] \cup {None, Visitor}
    <3>1. \A p \in Profiles : life[p] \in 0..life[p]
      BY DEF LeasesInv, Shapes
    <3> QED BY <3>1 DEF LeasesInv, SessionsAreOfNow, OfNow
  <2> QED BY <2>1, <2>2 DEF LeasesInv, Shapes, LeasesTypeOK, Records
<1> QED BY <1>2, LeasesInvariant, PTL

\* No MAX account works for two profiles that logged in to it
\* (automation_identity.py): a profile that a login made active has the claim of its
\* account, and a claim is of one profile.
THEOREM AccountHasOneOwner == Spec => []OneOwner
<1>1. LeasesInv => OneOwner
  BY DEF LeasesInv, ClaimHeld, OneOwner
<1> QED BY <1>1, LeasesInvariant, PTL

\* A deletion is final (client_manager.py, main.py): the jobs it did not wait for
\* cannot bring a session back, a check that puts back what it moved aside included,
\* and the login that could, it waited for.
THEOREM DeletionIsFinal == Spec => []DeletedStaysDeleted
<1>1. LeasesInv => DeletedStaysDeleted
  BY DEF LeasesInv, SessionsAreOfNow, OfNow, DeletedStaysDeleted
<1> QED BY <1>1, LeasesInvariant, PTL

\* A shutdown whose steps all came to their end leaves no job and no session in
\* the open (shutdown.py).
THEOREM ShutdownSeals == Spec => []SealedAtExit
<1>1. LeasesInv => SealedAtExit
  BY DEF LeasesInv, Phased, AtRest, Shapes, SealedAtExit, Jobs
<1> QED BY <1>1, LeasesInvariant, PTL

================================================================================

---------------------------- MODULE WorkScopeProofs ----------------------------
(* A send goes where its owner confirmed and for a group that was chosen, and *)
(* accounts keep their weekday and proxy: for any number of accounts, groups, *)
(* chats, proxies, ids given again, requests and restarts.                    *)
EXTENDS WorkScope, FiniteSetTheorems, WellFoundedInduction, TLAPS

Statuses == {"none", "pending", "active", "disabled"}

Books == [profile : [Ids -> [phone : Phones \cup {None}, status : Statuses]],
          links : SUBSET Routes,
          day : [Ids -> (0..Days-1) \cup {None}],
          proxy : [Routes -> Proxies \cup {None}]]

Job == [at : {"none", "begun", "claimed", "approved"}, id : Nat, phone : Phones \cup {None},
        group : Groups \cup {None}, rev : Nat, chat : Chats \cup {None}]

\* What the type invariant leaves out: the rows, jobs and what names them.
Recorded ==
    /\ books \in Books
    /\ \A i \in Ids : There(i) => Row(i).phone \in Phones
    /\ scope \in [Ids -> [group : Groups \cup {None}, consent : {"none", "active", "unselected"}]]
    /\ send \in [Senders -> Job]
    /\ \A q \in Senders : send[q].at \in {"claimed", "approved"} =>
                              send[q].id \in Ids /\ send[q].group \in Groups
    /\ orphans \in [Groups -> SUBSET Ids]
    /\ DOMAIN confirmed = Groups

\* A chat that is kept is one confirmed for the present link: the migration at
\* the next start will call it verified.
ChatsAreConfirmed ==
    \A g \in Groups : group[g].verified \/ group[g].chat # None
                          => confirmed[g] = <<group[g].rev, group[g].chat>>

\* The work group of an id is one its profile is linked to, chosen for the
\* account that has the id now; an id without a profile has none.
ScopeIsLinked ==
    \A i \in Ids : scope[i].group # None => <<i, scope[i].group>> \in books.links
ScopeIsChosen ==
    \A i \in Ids : scope[i].group # None /\ scope[i].consent = "active"
                       => <<Row(i).phone, scope[i].group>> \in chosen

\* The worker's job is for a linked profile, whose id stays with its account.
WorkerOnLink ==
    send[Worker].at \in {"claimed", "approved"} =>
        /\ <<send[Worker].id, send[Worker].group>> \in books.links
        /\ Row(send[Worker].id).phone = send[Worker].phone

\* The inductive invariant.
ScopeInv == /\ ScopeTypeOK /\ Recorded
            /\ ChatsAreConfirmed /\ ScopeIsLinked /\ ScopeIsChosen /\ WorkerOnLink /\ ApprovalHolds

--------------------------------------------------------------------------------
(* Numbers.  The library's induction theorems take an operator, but that a    *)
(* nonempty set of numbers has a least element does not, and it is enough.    *)

LEMMA LeastNumber ==
  ASSUME NEW T, T \subseteq Nat, T # {}
  PROVE  \E x \in T : \A y \in T : x <= y
<1>1. PICK x \in T : \A y \in T : ~(<<y, x>> \in OpToRel(<, Nat))
  BY WFMin, NatLessThanWellFounded
<1>2. \A y \in T : ~(y < x)
  BY <1>1 DEF OpToRel
<1> QED BY <1>2

LEMMA GreatestNumber ==
  ASSUME NEW n \in Nat, NEW T, T \subseteq 0..n, T # {}
  PROVE  \E x \in T : \A y \in T : y <= x
<1>0. \A x \in T : x \in Nat /\ x <= n
  OBVIOUS
<1> DEFINE Down == {n - x : x \in T}
<1>1. Down \subseteq Nat /\ Down # {}
  <2>1. \A x \in T : n - x \in Nat
    BY <1>0
  <2> QED BY <2>1
<1>2. PICK z \in Down : \A y \in Down : z <= y
  BY <1>1, LeastNumber
<1>3. PICK x \in T : z = n - x
  BY <1>2
<1>4. \A y \in T : n - x <= n - y
  BY <1>2, <1>3
<1>5. \A y \in T : y <= x
  BY <1>0, <1>4
<1> QED BY <1>5

\* The least loaded: the first by number among those of the smallest load.
LEMMA LeastLoaded ==
  ASSUME NEW S, S \subseteq Nat, S # {}, NEW L \in [S -> Nat]
  PROVE  \E x \in S : \A y \in S : L[x] < L[y] \/ (L[x] = L[y] /\ x <= y)
<1> DEFINE Loads == {L[x] : x \in S}
<1>1. PICK m \in Loads : \A l \in Loads : m <= l
  <2>1. Loads \subseteq Nat /\ Loads # {}
    OBVIOUS
  <2> QED BY <2>1, LeastNumber
<1> DEFINE Lightest == {x \in S : L[x] = m}
<1>2. PICK x \in Lightest : \A y \in Lightest : x <= y
  <2>1. Lightest \subseteq Nat /\ Lightest # {}
    BY <1>1
  <2> QED BY <2>1, LeastNumber
<1>3. ASSUME NEW y \in S PROVE L[x] < L[y] \/ (L[x] = L[y] /\ x <= y)
  <2>1. L[x] = m /\ m \in Nat /\ L[y] \in Nat /\ m <= L[y]
    BY <1>1, <1>2
  <2>2. CASE L[y] = m
    BY <1>2, <2>1, <2>2
  <2>3. CASE L[y] # m
    BY <2>1, <2>3
  <2> QED BY <2>2, <2>3
<1> QED BY <1>2, <1>3

LEMMA IdsFinite == ASSUME NEW T, T \subseteq Ids PROVE Cardinality(T) \in Nat
<1>1. IsFiniteSet(Ids)
  BY ScopeAssumption, FS_Interval DEF Ids
<1> QED BY <1>1, FS_Subset, FS_CardinalityType

--------------------------------------------------------------------------------
(* Weekdays and proxies: an assignment keeps what the lists allow to be kept. *)

Sticks(b, c, lists) ==
    /\ \A i \in Ids : b.day[i] # None => c.day[i] = b.day[i]
    /\ \A i \in Ids, g \in Groups :
          b.proxy[<<i, g>>] \in lists[g] => c.proxy[<<i, g>>] = b.proxy[<<i, g>>]

Keeps(b, c, lists) ==
    c \in Books /\ c.profile = b.profile /\ c.links = b.links /\ Sticks(b, c, lists)

LEMMA KeepsItself == ASSUME NEW b \in Books, NEW lists PROVE Keeps(b, b, lists)
BY DEF Keeps, Sticks

LEMMA SticksChain ==
  ASSUME NEW a, NEW b, NEW c, NEW lists, Sticks(a, b, lists), Sticks(b, c, lists)
  PROVE  Sticks(a, c, lists)
<1>1. ASSUME NEW i \in Ids, a.day[i] # None PROVE c.day[i] = a.day[i]
  BY <1>1 DEF Sticks
<1>2. ASSUME NEW i \in Ids, NEW g \in Groups, a.proxy[<<i, g>>] \in lists[g]
      PROVE  c.proxy[<<i, g>>] = a.proxy[<<i, g>>]
  <2>1. b.proxy[<<i, g>>] = a.proxy[<<i, g>>]
    BY <1>2 DEF Sticks
  <2>2. c.proxy[<<i, g>>] = b.proxy[<<i, g>>]
    BY <1>2, <2>1 DEF Sticks
  <2> QED BY <2>1, <2>2
<1> QED BY <1>1, <1>2 DEF Sticks

LEMMA KeepsChain ==
  ASSUME NEW a, NEW b, NEW c, NEW lists, Keeps(a, b, lists), Keeps(b, c, lists)
  PROVE  Keeps(a, c, lists)
BY SticksChain DEF Keeps

LEMMA WithDayKeeps ==
  ASSUME NEW b \in Books, NEW i \in Ids, NEW lists PROVE Keeps(b, WithDay(b, i), lists)
<1>1. CASE b.day[i] # None
  BY <1>1, KeepsItself DEF WithDay
<1>2. CASE b.day[i] = None
  <2> DEFINE L == [d \in 0..Days-1 |-> Cardinality({j \in Ids : b.day[j] = d})]
             d0 == CHOOSE x \in 0..Days-1 : \A y \in 0..Days-1 : L[x] < L[y] \/ (L[x] = L[y] /\ x <= y)
  <2>1. L \in [0..Days-1 -> Nat]
    BY IdsFinite
  <2>2. 0..Days-1 \subseteq Nat /\ 0..Days-1 # {}
    BY ScopeAssumption
  <2>3. d0 \in 0..Days-1
    BY <2>1, <2>2, LeastLoaded
  <2>4. PICK d \in 0..Days-1 : WithDay(b, i) = [b EXCEPT !.day[i] = d]
    <3>1. WithDay(b, i) = [b EXCEPT !.day[i] = d0]
      BY <1>2 DEF WithDay, Least
    <3> QED BY <2>3, <3>1
  <2>5. [b EXCEPT !.day[i] = d] \in Books
    BY DEF Books
  <2>6. Sticks(b, [b EXCEPT !.day[i] = d], lists)
    BY <1>2 DEF Sticks, Books
  <2> QED BY <2>4, <2>5, <2>6 DEF Keeps
<1> QED BY <1>1, <1>2

LEMMA WithProxyKeeps ==
  ASSUME NEW b \in Books, NEW i \in Ids, NEW g \in Groups, NEW lists \in [Groups -> SUBSET Proxies]
  PROVE  Keeps(b, WithProxy(b, i, g, lists[g]), lists)
<1> DEFINE list == lists[g]
<1>1. CASE b.proxy[<<i, g>>] \in list
  BY <1>1, KeepsItself DEF WithProxy
<1>2. CASE b.proxy[<<i, g>>] \notin list
  <2>1. PICK x \in Proxies \cup {None} : WithProxy(b, i, g, list) = [b EXCEPT !.proxy[<<i, g>>] = x]
    <3>1. CASE list = {}
      BY <1>2, <3>1 DEF WithProxy
    <3>2. CASE list # {}
      <4> DEFINE L == [x \in list |-> Cardinality({j \in Ids : b.proxy[<<j, g>>] = x})]
                 x0 == CHOOSE x \in list : \A y \in list : L[x] < L[y] \/ (L[x] = L[y] /\ x <= y)
      <4>1. L \in [list -> Nat]
        BY IdsFinite
      <4>2. list \subseteq Proxies /\ list \subseteq Nat
        BY ScopeAssumption
      <4>3. x0 \in list
        BY <3>2, <4>1, <4>2, LeastLoaded
      <4>4. WithProxy(b, i, g, list) = [b EXCEPT !.proxy[<<i, g>>] = x0]
        BY <1>2, <3>2 DEF WithProxy, Least
      <4> QED BY <4>2, <4>3, <4>4
    <3> QED BY <3>1, <3>2
  <2>2. <<i, g>> \in Routes
    BY DEF Routes
  <2>3. [b EXCEPT !.proxy[<<i, g>>] = x] \in Books
    BY <2>2 DEF Books
  <2>4. Sticks(b, [b EXCEPT !.proxy[<<i, g>>] = x], lists)
    BY <1>2, <2>2 DEF Sticks, Books, Routes
  <2> QED BY <2>1, <2>3, <2>4 DEF Keeps
<1> QED BY <1>1, <1>2

\* A loop over ids or groups is a recursive function; these are its equations.
DaysRun(f, n, b, who) ==
    f = [i \in 0..n |-> IF i = 0 THEN b
                        ELSE IF i \in who THEN WithDay(f[i-1], i) ELSE f[i-1]]

ProxiesRun(f, n, b, g, who, list) ==
    f = [i \in 0..n |-> IF i = 0 THEN b
                        ELSE IF i \in who THEN WithProxy(f[i-1], i, g, list) ELSE f[i-1]]

Accounts(routes, g) == {r[1] : r \in {x \in routes : x[2] = g}}

GroupsRun(f, n, days, routes) ==
    f = [g \in 0..n |-> IF g = 0 THEN days
                        ELSE IF g \in Groups
                             THEN WithProxies(f[g-1], g, Accounts(routes, g), group[g].proxies)
                             ELSE f[g-1]]

\* Each step keeps, so the whole loop does.
LEMMA LoopKeeps ==
  ASSUME NEW n \in Nat, NEW f, NEW lists, f[0] \in Books,
         \A k \in 1..n : f[k-1] \in Books => Keeps(f[k-1], f[k], lists)
  PROVE  Keeps(f[0], f[n], lists)
<1> DEFINE T == {k \in 0..n : ~Keeps(f[0], f[k], lists)}
<1>1. SUFFICES ASSUME T # {} PROVE FALSE
  OBVIOUS
<1>2. PICK k \in T : \A l \in T : k <= l
  <2>1. T \subseteq Nat
    OBVIOUS
  <2> QED BY <1>1, <2>1, LeastNumber
<1>3. k # 0
  BY <1>2, KeepsItself
<1>4. k \in 1..n /\ k - 1 \in 0..n /\ k - 1 \notin T
  BY <1>2, <1>3
<1>5. Keeps(f[0], f[k-1], lists)
  BY <1>4
<1>6. Keeps(f[k-1], f[k], lists)
  BY <1>4, <1>5 DEF Keeps
<1> QED BY <1>2, <1>5, <1>6, KeepsChain

LEMMA DaysRunExists ==
  ASSUME NEW n \in Nat, NEW b, NEW who PROVE \E f : DaysRun(f, n, b, who)
<1> DEFINE T == {m \in 0..n : ~ \E f : DaysRun(f, m, b, who)}
<1>1. SUFFICES ASSUME T # {} PROVE FALSE
  OBVIOUS
<1>2. PICK m \in T : \A k \in T : m <= k
  <2>1. T \subseteq Nat
    OBVIOUS
  <2> QED BY <1>1, <2>1, LeastNumber
<1>3. m # 0
  <2>1. DaysRun([i \in 0..0 |-> b], 0, b, who)
    BY DEF DaysRun
  <2> QED BY <1>2, <2>1
<1>4. m - 1 \in 0..n /\ m - 1 \notin T /\ m \in Nat
  BY <1>2, <1>3
<1>5. PICK f : DaysRun(f, m - 1, b, who)
  BY <1>4
<1> DEFINE h == [i \in 0..m |-> IF i = m THEN (IF m \in who THEN WithDay(f[m-1], m) ELSE f[m-1]) ELSE f[i]]
<1>6. DaysRun(h, m, b, who)
  <2>1. \A i \in 0..m : i = m \/ i \in 0..(m - 1)
    BY <1>4
  <2>2. ASSUME NEW i \in 0..m PROVE i = 0 \/ (i - 1 \in 0..m /\ i - 1 # m /\ h[i - 1] = f[i - 1])
    BY <1>4, <2>2
  <2>3. \A i \in 0..m : h[i] = IF i = m THEN (IF m \in who THEN WithDay(f[m-1], m) ELSE f[m-1]) ELSE f[i]
    OBVIOUS
  <2> HIDE DEF h
  <2>4. ASSUME NEW i \in 0..m
        PROVE  h[i] = IF i = 0 THEN b ELSE IF i \in who THEN WithDay(h[i-1], i) ELSE h[i-1]
    BY <1>3, <1>5, <2>1, <2>2, <2>3, <2>4 DEF DaysRun
  <2>5. h = [i \in 0..m |-> h[i]]
    BY DEF h
  <2> QED BY <2>4, <2>5 DEF DaysRun
<1> QED BY <1>2, <1>6

LEMMA ProxiesRunExists ==
  ASSUME NEW n \in Nat, NEW b, NEW g, NEW who, NEW list PROVE \E f : ProxiesRun(f, n, b, g, who, list)
<1> DEFINE T == {m \in 0..n : ~ \E f : ProxiesRun(f, m, b, g, who, list)}
<1>1. SUFFICES ASSUME T # {} PROVE FALSE
  OBVIOUS
<1>2. PICK m \in T : \A k \in T : m <= k
  <2>1. T \subseteq Nat
    OBVIOUS
  <2> QED BY <1>1, <2>1, LeastNumber
<1>3. m # 0
  <2>1. ProxiesRun([i \in 0..0 |-> b], 0, b, g, who, list)
    BY DEF ProxiesRun
  <2> QED BY <1>2, <2>1
<1>4. m - 1 \in 0..n /\ m - 1 \notin T /\ m \in Nat
  BY <1>2, <1>3
<1>5. PICK f : ProxiesRun(f, m - 1, b, g, who, list)
  BY <1>4
<1> DEFINE h == [i \in 0..m |-> IF i = m THEN (IF m \in who THEN WithProxy(f[m-1], m, g, list) ELSE f[m-1]) ELSE f[i]]
<1>6. ProxiesRun(h, m, b, g, who, list)
  <2>1. \A i \in 0..m : i = m \/ i \in 0..(m - 1)
    BY <1>4
  <2>2. ASSUME NEW i \in 0..m PROVE i = 0 \/ (i - 1 \in 0..m /\ i - 1 # m /\ h[i - 1] = f[i - 1])
    BY <1>4, <2>2
  <2>3. \A i \in 0..m : h[i] = IF i = m THEN (IF m \in who THEN WithProxy(f[m-1], m, g, list) ELSE f[m-1]) ELSE f[i]
    OBVIOUS
  <2> HIDE DEF h
  <2>4. ASSUME NEW i \in 0..m
        PROVE  h[i] = IF i = 0 THEN b ELSE IF i \in who THEN WithProxy(h[i-1], i, g, list) ELSE h[i-1]
    BY <1>3, <1>5, <2>1, <2>2, <2>3, <2>4 DEF ProxiesRun
  <2>5. h = [i \in 0..m |-> h[i]]
    BY DEF h
  <2> QED BY <2>4, <2>5 DEF ProxiesRun
<1> QED BY <1>2, <1>6

LEMMA GroupsRunExists ==
  ASSUME NEW n \in Nat, NEW days, NEW routes PROVE \E f : GroupsRun(f, n, days, routes)
<1> DEFINE T == {m \in 0..n : ~ \E f : GroupsRun(f, m, days, routes)}
<1>1. SUFFICES ASSUME T # {} PROVE FALSE
  OBVIOUS
<1>2. PICK m \in T : \A k \in T : m <= k
  <2>1. T \subseteq Nat
    OBVIOUS
  <2> QED BY <1>1, <2>1, LeastNumber
<1>3. m # 0
  <2>1. GroupsRun([i \in 0..0 |-> days], 0, days, routes)
    BY DEF GroupsRun
  <2> QED BY <1>2, <2>1
<1>4. m - 1 \in 0..n /\ m - 1 \notin T /\ m \in Nat
  BY <1>2, <1>3
<1>5. PICK f : GroupsRun(f, m - 1, days, routes)
  BY <1>4
<1> DEFINE h == [i \in 0..m |-> IF i = m THEN (IF m \in Groups THEN WithProxies(f[m-1], m, Accounts(routes, m), group[m].proxies)
                                               ELSE f[m-1]) ELSE f[i]]
<1>6. GroupsRun(h, m, days, routes)
  <2>1. \A i \in 0..m : i = m \/ i \in 0..(m - 1)
    BY <1>4
  <2>2. ASSUME NEW i \in 0..m PROVE i = 0 \/ (i - 1 \in 0..m /\ i - 1 # m /\ h[i - 1] = f[i - 1])
    BY <1>4, <2>2
  <2>3. \A i \in 0..m : h[i] = IF i = m THEN (IF m \in Groups THEN WithProxies(f[m-1], m, Accounts(routes, m), group[m].proxies)
                                               ELSE f[m-1]) ELSE f[i]
    OBVIOUS
  <2> HIDE DEF h
  <2>4. ASSUME NEW i \in 0..m
        PROVE  h[i] = IF i = 0 THEN days
                      ELSE IF i \in Groups
                           THEN WithProxies(h[i-1], i, Accounts(routes, i), group[i].proxies)
                           ELSE h[i-1]
    BY <1>3, <1>5, <2>1, <2>2, <2>3, <2>4 DEF GroupsRun
  <2>5. h = [i \in 0..m |-> h[i]]
    BY DEF h
  <2> QED BY <2>4, <2>5 DEF GroupsRun
<1> QED BY <1>2, <1>6

LEMMA WithDaysKeeps ==
  ASSUME NEW b \in Books, NEW who, NEW lists PROVE Keeps(b, WithDays(b, who), lists)
<1> DEFINE f == CHOOSE x : DaysRun(x, MaxId, b, who)
<1>0. MaxId \in Nat
  BY ScopeAssumption
<1>1. DaysRun(f, MaxId, b, who)
  BY <1>0, DaysRunExists
<1>2. WithDays(b, who) = f[MaxId]
  BY Zenon DEF WithDays, DaysRun
<1> HIDE DEF f
<1>3. f[0] = b
  BY <1>0, <1>1 DEF DaysRun
<1>4. ASSUME NEW k \in 1..MaxId, f[k-1] \in Books PROVE Keeps(f[k-1], f[k], lists)
  <2>1. k \in Ids /\ k \in 0..MaxId /\ k # 0
    BY <1>0, <1>4 DEF Ids
  <2>2. f[k] = IF k \in who THEN WithDay(f[k-1], k) ELSE f[k-1]
    BY <1>1, <2>1 DEF DaysRun
  <2> QED BY <1>4, <2>1, <2>2, WithDayKeeps, KeepsItself
<1> QED BY <1>0, <1>2, <1>3, <1>4, LoopKeeps

LEMMA WithProxiesKeeps ==
  ASSUME NEW b \in Books, NEW g \in Groups, NEW who, NEW lists \in [Groups -> SUBSET Proxies]
  PROVE  Keeps(b, WithProxies(b, g, who, lists[g]), lists)
<1> DEFINE f == CHOOSE x : ProxiesRun(x, MaxId, b, g, who, lists[g])
<1>0. MaxId \in Nat
  BY ScopeAssumption
<1>1. ProxiesRun(f, MaxId, b, g, who, lists[g])
  BY <1>0, ProxiesRunExists
<1>2. WithProxies(b, g, who, lists[g]) = f[MaxId]
  BY Zenon DEF WithProxies, ProxiesRun
<1> HIDE DEF f
<1>3. f[0] = b
  BY <1>0, <1>1 DEF ProxiesRun
<1>4. ASSUME NEW k \in 1..MaxId, f[k-1] \in Books PROVE Keeps(f[k-1], f[k], lists)
  <2>1. k \in Ids /\ k \in 0..MaxId /\ k # 0
    BY <1>0, <1>4 DEF Ids
  <2>2. f[k] = IF k \in who THEN WithProxy(f[k-1], k, g, lists[g]) ELSE f[k-1]
    BY <1>1, <2>1 DEF ProxiesRun
  <2> QED BY <1>4, <2>1, <2>2, WithProxyKeeps, KeepsItself
<1> QED BY <1>0, <1>2, <1>3, <1>4, LoopKeeps

Lists == [g \in Groups |-> group[g].proxies]
ListsTyped == \A g \in Groups : group[g].proxies \in SUBSET Proxies

\* Assigning routes keeps every weekday, and every proxy its group still lists.
LEMMA AssignedKeeps ==
  ASSUME ListsTyped, NEW b \in Books, NEW routes PROVE Keeps(b, Assigned(b, routes), Lists)
<1> DEFINE top == CHOOSE n \in Groups : \A g \in Groups : g <= n
           days == WithDays(b, {r[1] : r \in routes})
           f == CHOOSE x : GroupsRun(x, top, days, routes)
<1>0. top \in Groups /\ top \in Nat
  BY ScopeAssumption
<1>1. GroupsRun(f, top, days, routes)
  BY <1>0, GroupsRunExists
<1>2. Assigned(b, routes) = f[top]
  BY Zenon DEF Assigned, GroupsRun, Accounts
<1>d. Keeps(b, days, Lists)
  BY WithDaysKeeps
<1>l. Lists \in [Groups -> SUBSET Proxies]
  BY DEF Lists, ListsTyped
<1> HIDE DEF f, top, days
<1>3. f[0] = days
  BY <1>0, <1>1 DEF GroupsRun
<1>4. ASSUME NEW k \in 1..top, f[k-1] \in Books PROVE Keeps(f[k-1], f[k], Lists)
  <2>1. k \in 0..top /\ k # 0
    BY <1>0, <1>4
  <2>2. f[k] = IF k \in Groups THEN WithProxies(f[k-1], k, Accounts(routes, k), group[k].proxies)
               ELSE f[k-1]
    BY <1>1, <2>1 DEF GroupsRun
  <2>3. CASE k \in Groups
    <3>1. group[k].proxies = Lists[k]
      BY <2>3 DEF Lists
    <3> QED BY <1>4, <1>l, <2>2, <2>3, <3>1, WithProxiesKeeps
  <2>4. CASE k \notin Groups
    BY <1>4, <2>2, <2>4, KeepsItself
  <2> QED BY <2>3, <2>4
<1>5. Keeps(days, f[top], Lists)
  BY <1>0, <1>d, <1>3, <1>4, LoopKeeps DEF Keeps
<1> QED BY <1>2, <1>d, <1>5, KeepsChain

--------------------------------------------------------------------------------
(* Rows and links *)

Sound(b) ==
    /\ b \in Books
    /\ \A i \in Ids : b.profile[i] # NoProfile => b.profile[i].phone \in Phones
    /\ \A i, j \in Ids : b.profile[i] # NoProfile /\ b.profile[i].phone = b.profile[j].phone => i = j
    /\ \A l \in b.links : l \in Routes /\ b.profile[l[1]] # NoProfile /\ group[l[2]].there

\* No link is taken away, and no id from its account.
Grows(b, c) ==
    /\ b.links \subseteq c.links
    /\ \A i \in Ids : b.profile[i] # NoProfile =>
          c.profile[i] # NoProfile /\ c.profile[i].phone = b.profile[i].phone

LEMMA NextIdIsFree ==
  ASSUME NEW b \in Books, NextId(b) \in Ids
  PROVE  b.profile[NextId(b)] = NoProfile
<1> DEFINE used == {i \in Ids : b.profile[i] # NoProfile}
<1>1. CASE used = {}
  BY <1>1
<1>2. CASE used # {}
  <2> DEFINE last == CHOOSE i \in used : \A j \in used : j <= i
  <2>1. MaxId \in Nat /\ used \subseteq 0..MaxId
    BY ScopeAssumption DEF Ids
  <2>2. last \in used /\ \A j \in used : j <= last
    BY <1>2, <2>1, GreatestNumber
  <2>3. NextId(b) = 1 + last
    BY <1>2 DEF NextId
  <2> HIDE DEF last
  <2>4. last \in Nat /\ ~(1 + last <= last)
    BY <2>1, <2>2
  <2>5. NextId(b) \notin used
    BY <2>2, <2>3, <2>4
  <2> QED BY <2>5
<1> QED BY <1>1, <1>2

\* What adding an account does to the rows.
LEMMA AddedRows ==
  ASSUME ListsTyped, NEW b \in Books, NEW p \in Phones, NEW g \in Groups, CanAdd(b, p, g)
  PROVE  \E i \in Ids :
           LET c == Added(b, p, g) IN
           /\ c \in Books /\ Sticks(b, c, Lists)
           /\ c.links = b.links \cup {<<i, g>>}
           /\ \A j \in Ids : j # i => c.profile[j] = b.profile[j]
           /\ \/ /\ b.profile[i].phone = p /\ b.profile[i] # NoProfile
                 /\ c.profile[i] = b.profile[i]
              \/ /\ b.profile[i] = NoProfile /\ Holds(b, p) = {}
                 /\ c.profile[i] = [phone |-> p, status |-> "pending"]
<1> DEFINE i == IF Holds(b, p) = {} THEN NextId(b) ELSE CHOOSE j \in Holds(b, p) : TRUE
           row == IF b.profile[i] = NoProfile THEN [phone |-> p, status |-> "pending"]
                  ELSE b.profile[i]
           known == [b EXCEPT !.profile[i] = row]
           linked == [known EXCEPT !.links = @ \cup {<<i, g>>}]
           dated == WithDays(linked, {i})
           c == WithProxies(dated, g, {i}, group[g].proxies)
<1>1. i \in Ids
  BY DEF CanAdd, Holds
<1>2. \/ b.profile[i] # NoProfile /\ b.profile[i].phone = p
      \/ b.profile[i] = NoProfile /\ Holds(b, p) = {}
  <2>1. CASE Holds(b, p) = {}
    BY <1>1, <2>1, NextIdIsFree
  <2>2. CASE Holds(b, p) # {}
    <3>1. i \in Holds(b, p)
      BY <2>2
    <3>2. p # None
      BY ScopeAssumption
    <3> QED BY <3>1, <3>2 DEF Holds, NoProfile
  <2> QED BY <2>1, <2>2
<1>3. Added(b, p, g) = c
  BY DEF Added
<1> HIDE DEF i
<1>4. row \in [phone : Phones \cup {None}, status : Statuses]
  BY <1>1 DEF Books, Statuses
<1> HIDE DEF row
<1>5. known \in Books /\ known.profile[i] = row /\ known.links = b.links
      /\ known.day = b.day /\ known.proxy = b.proxy
      /\ \A j \in Ids : j # i => known.profile[j] = b.profile[j]
  <2>1. /\ known.profile = [b.profile EXCEPT ![i] = row] /\ known.links = b.links
        /\ known.day = b.day /\ known.proxy = b.proxy
    BY DEF Books
  <2>2. known \in Books
    BY <1>1, <1>4 DEF Books
  <2>3. b.profile \in [Ids -> [phone : Phones \cup {None}, status : Statuses]]
    BY DEF Books
  <2> QED BY <1>1, <2>1, <2>2, <2>3
<1> HIDE DEF known
<1>6. linked \in Books /\ linked.profile = known.profile /\ linked.links = b.links \cup {<<i, g>>}
      /\ linked.day = b.day /\ linked.proxy = b.proxy
  <2>1. /\ linked.profile = known.profile /\ linked.links = known.links \cup {<<i, g>>}
        /\ linked.day = known.day /\ linked.proxy = known.proxy
    BY <1>5 DEF Books
  <2>2. known.links \cup {<<i, g>>} \in SUBSET Routes
    BY <1>1, <1>5 DEF Books, Routes
  <2>3. linked \in Books
    BY <1>5, <2>2 DEF Books
  <2> QED BY <1>5, <2>1, <2>3
<1> HIDE DEF linked
<1>7. Lists \in [Groups -> SUBSET Proxies] /\ Lists[g] = group[g].proxies
  BY DEF Lists, ListsTyped
<1>8. Keeps(linked, dated, Lists)
  BY <1>6, WithDaysKeeps
<1>9. Keeps(dated, c, Lists)
  BY <1>7, <1>8, WithProxiesKeeps DEF Keeps
<1>10. Keeps(linked, c, Lists)
  BY <1>8, <1>9, KeepsChain
<1> HIDE DEF c, dated
<1>11. Sticks(b, c, Lists)
  BY <1>6, <1>10 DEF Keeps, Sticks
<1>12. c \in Books /\ c.links = b.links \cup {<<i, g>>} /\ c.profile = known.profile
  BY <1>6, <1>10 DEF Keeps
<1> QED BY <1>1, <1>2, <1>3, <1>5, <1>11, <1>12 DEF row

LEMMA AddedSound ==
  ASSUME ListsTyped, NEW b, Sound(b), NEW p \in Phones, NEW g \in Groups, group[g].there,
         CanAdd(b, p, g)
  PROVE  Sound(Added(b, p, g)) /\ Grows(b, Added(b, p, g)) /\ Sticks(b, Added(b, p, g), Lists)
<1> DEFINE c == Added(b, p, g)
<1>1. PICK i \in Ids :
        /\ c \in Books /\ Sticks(b, c, Lists)
        /\ c.links = b.links \cup {<<i, g>>}
        /\ \A j \in Ids : j # i => c.profile[j] = b.profile[j]
        /\ \/ /\ b.profile[i].phone = p /\ b.profile[i] # NoProfile
              /\ c.profile[i] = b.profile[i]
           \/ /\ b.profile[i] = NoProfile /\ Holds(b, p) = {}
              /\ c.profile[i] = [phone |-> p, status |-> "pending"]
  BY AddedRows DEF Sound
<1> HIDE DEF c
<1>2. c.profile[i].phone = p /\ c.profile[i] # NoProfile
  BY <1>1, ScopeAssumption DEF NoProfile
<1>3. Grows(b, c)
  BY <1>1 DEF Grows
<1>4. \A j \in Ids : c.profile[j] # NoProfile => c.profile[j].phone \in Phones
  BY <1>1, <1>2 DEF Sound
<1>5. ASSUME NEW j \in Ids, j # i PROVE c.profile[j].phone # p
  BY <1>1, <1>5 DEF Sound, Holds
<1>6. \A j, k \in Ids : c.profile[j] # NoProfile /\ c.profile[j].phone = c.profile[k].phone => j = k
  BY <1>1, <1>2, <1>5 DEF Sound
<1>7. \A l \in c.links : l \in Routes /\ c.profile[l[1]] # NoProfile /\ group[l[2]].there
  <2>1. ASSUME NEW l \in b.links
        PROVE  l \in Routes /\ c.profile[l[1]] # NoProfile /\ group[l[2]].there
    BY <1>3 DEF Sound, Grows, Routes
  <2>2. <<i, g>> \in Routes /\ c.profile[i] # NoProfile /\ group[g].there
    BY <1>2 DEF Routes
  <2> QED BY <1>1, <2>1, <2>2
<1>8. Sound(c)
  BY <1>1, <1>4, <1>6, <1>7 DEF Sound
<1> QED BY <1>1, <1>3, <1>8 DEF c

LEMMA KeepsSound ==
  ASSUME NEW b, Sound(b), NEW c, NEW lists, Keeps(b, c, lists)
  PROVE  Sound(c) /\ Grows(b, c)
BY DEF Sound, Grows, Keeps

--------------------------------------------------------------------------------
(* What a step does to the books *)

GroupTyped ==
    group \in [Groups -> [there : BOOLEAN, active : BOOLEAN, rev : Nat, chat : Chats \cup {None},
                          verified : BOOLEAN, proxies : SUBSET Proxies]]

NewLists == [g \in Groups |-> group'[g].proxies]

Removes == \E g \in Groups : \/ DeleteGroup(g)
                             \/ \E i \in Ids : RemoveProfile(i, g) \/ DeleteOrphan(g, i)

BooksMove == /\ Sound(books)' /\ Sticks(books, books', NewLists)
             /\ Removes \/ Grows(books, books')

LEMMA GroupsAreListed == ASSUME GroupTyped PROVE ListsTyped
BY DEF GroupTyped, ListsTyped

LEMMA SoundAfter ==
  ASSUME NEW c, Sound(c), books' = c,
         \A g \in Groups : group[g].there => group'[g].there
  PROVE  Sound(books)'
BY DEF Sound, Routes

LEMMA BooksUnchanged ==
  ASSUME Sound(books), UNCHANGED books, \A g \in Groups : group[g].there => group'[g].there
  PROVE  BooksMove
<1>1. Sound(books)'
  BY SoundAfter
<1> QED BY <1>1 DEF BooksMove, Grows, Sticks

LEMMA BooksKeep ==
  ASSUME Sound(books), Keeps(books, books', NewLists),
         \A g \in Groups : group[g].there => group'[g].there
  PROVE  BooksMove
<1>1. PICK c : c = books'
  OBVIOUS
<1>2. Sound(c) /\ Grows(books, c)
  BY <1>1, KeepsSound
<1>3. Sound(books)'
  BY <1>1, <1>2, SoundAfter
<1> QED BY <1>1, <1>2, <1>3 DEF BooksMove, Keeps

LEMMA RoutedKeeps ==
  ASSUME Sound(books), GroupTyped, NEW i \in Ids, NEW g \in Groups, group[g].proxies # {}, UNCHANGED group
  PROVE  Keeps(books, Routed(i, g), NewLists)
<1> DEFINE list == group[g].proxies
           day == WithDay(books, i)
           x == FirstOf(list)
<1>1. CASE books.proxy[<<i, g>>] # None
  BY <1>1, KeepsItself DEF Routed, Sound
<1>2. CASE books.proxy[<<i, g>>] = None
  <2>1. Keeps(books, day, NewLists)
    BY WithDayKeeps DEF Sound
  <2>2. day.proxy = books.proxy
    BY DEF WithDay
  <2>3. list \in SUBSET Proxies
    BY DEF GroupTyped
  <2>4. x \in list
    <3>1. \E y \in list : \A z \in list : y <= z
      BY <2>3, LeastNumber, ScopeAssumption
    <3> QED BY <3>1 DEF FirstOf
  <2>5. Routed(i, g) = [day EXCEPT !.proxy[<<i, g>>] = x]
    BY <1>2 DEF Routed
  <2>6. <<i, g>> \in Routes /\ x \in Proxies
    BY <2>3, <2>4 DEF Routes
  <2> HIDE DEF day, x
  <2>7. [day EXCEPT !.proxy[<<i, g>>] = x] \in Books
    BY <2>1, <2>6 DEF Keeps, Books
  <2>8. NewLists[g] \subseteq Proxies
    BY <2>3 DEF NewLists
  <2>9. Sticks(day, [day EXCEPT !.proxy[<<i, g>>] = x], NewLists)
    BY <1>2, <2>1, <2>2, <2>6, <2>8, ScopeAssumption DEF Keeps, Sticks, Books, Routes
  <2>10. Keeps(day, [day EXCEPT !.proxy[<<i, g>>] = x], NewLists)
    BY <2>1, <2>7, <2>9 DEF Keeps, Books
  <2> QED BY <2>1, <2>5, <2>10, KeepsChain
<1> QED BY <1>1, <1>2

LEMMA RowsMove ==
  ASSUME Sound(books), NEW i \in Ids, NEW p \in Phones, NEW st \in {"active", "disabled"},
         NEW more \in SUBSET Routes,
         NEW c, Keeps(books, c, NewLists),
         books' = [c EXCEPT !.profile[i] = [phone |-> p, status |-> st], !.links = @ \cup more],
         books.profile[i] # NoProfile => books.profile[i].phone = p,
         books.profile[i] = NoProfile => \A j \in Ids : books.profile[j].phone # p,
         \A l \in more : l[1] = i /\ group[l[2]].there,
         UNCHANGED group
  PROVE  BooksMove
<1> DEFINE row == [phone |-> p, status |-> st]
<1>0. row \in [phone : Phones \cup {None}, status : Statuses] /\ row.phone = p
  BY DEF Statuses
<1> HIDE DEF row
<1>1. /\ \A j \in Ids : j # i => books'.profile[j] = books.profile[j]
      /\ books'.profile[i] = row /\ books'.links = books.links \cup more
      /\ books'.day = c.day /\ books'.proxy = c.proxy /\ books' \in Books
  BY <1>0 DEF row, Sound, Books, Keeps
<1>2. row # NoProfile /\ row.phone \in Phones
  BY <1>0, ScopeAssumption DEF NoProfile
<1>3. Grows(books, books')
  BY <1>0, <1>1, <1>2 DEF Grows
<1>4. Sticks(books, books', NewLists)
  BY <1>1 DEF Sticks, Keeps
<1>5. \A j \in Ids : books'.profile[j] # NoProfile => books'.profile[j].phone \in Phones
  BY <1>1, <1>2 DEF Sound
<1>6. \A j \in Ids : j # i => books.profile[j].phone # row.phone
  BY <1>0 DEF Sound
<1>7. \A j, k \in Ids : books'.profile[j] # NoProfile /\ books'.profile[j].phone = books'.profile[k].phone
                            => j = k
  BY <1>1, <1>6 DEF Sound
<1>8. \A l \in books'.links : l \in Routes /\ books'.profile[l[1]] # NoProfile /\ group'[l[2]].there
  <2>1. \A l \in books.links : l[1] \in Ids
    BY DEF Sound, Routes
  <2> QED BY <1>1, <1>2, <2>1 DEF Sound
<1>9. Sound(books)'
  BY <1>1, <1>5, <1>7, <1>8 DEF Sound
<1> QED BY <1>3, <1>4, <1>9 DEF BooksMove

LEMMA UnlinkMove ==
  ASSUME Sound(books), NEW g \in Groups, NEW who, books' = [books EXCEPT !.links = @ \ (who \X {g})],
         \A h \in Groups : group[h].there /\ ~group'[h].there =>
             h = g /\ \A l \in books.links : l[2] = g => l[1] \in who
  PROVE  Sound(books)' /\ Sticks(books, books', NewLists)
<1>1. /\ books'.profile = books.profile /\ books'.links = books.links \ (who \X {g})
      /\ books'.day = books.day /\ books'.proxy = books.proxy /\ books' \in Books
  BY DEF Sound, Books
<1>2. ASSUME NEW l \in books'.links
      PROVE  l \in Routes /\ books'.profile[l[1]] # NoProfile /\ group'[l[2]].there
  <2>1. l \in books.links /\ l \in Routes /\ l \notin who \X {g}
    BY <1>1, <1>2 DEF Sound
  <2>2. l = <<l[1], l[2]>> /\ l[2] \in Groups
    BY <2>1 DEF Routes
  <2>3. group[l[2]].there
    BY <2>1 DEF Sound
  <2>4. group'[l[2]].there
    BY <2>1, <2>2, <2>3
  <2> QED BY <1>1, <2>1, <2>4 DEF Sound
<1> QED BY <1>1, <1>2 DEF Sound, Sticks

LEMMA BooksStep ==
  ASSUME GroupTyped, Sound(books), [Next]_vars PROVE BooksMove
<1>g. ListsTyped
  BY GroupsAreListed
<1>0. ASSUME UNCHANGED vars PROVE BooksMove
  BY <1>0, BooksUnchanged DEF vars
<1>1. ASSUME NEW g \in Groups, AddGroup(g) \/ ChangeLink(g) \/ SetActive(g) \/ Verify(g) \/ CleanupFails(g)
      PROVE  BooksMove
  <2>1. UNCHANGED books
    BY <1>1 DEF AddGroup, ChangeLink, SetActive, Verify, CleanupFails
  <2>2. \A h \in Groups : group[h].there => group'[h].there
    <3>1. AddGroup(g) \/ CleanupFails(g) => \A h \in Groups : h # g => group'[h] = group[h]
      BY DEF AddGroup, CleanupFails, GroupTyped
    <3>2. AddGroup(g) \/ CleanupFails(g) => ~group[g].there \/ group' = group
      BY DEF AddGroup, CleanupFails
    <3>3. ChangeLink(g) => \A h \in Groups : group'[h].there = group[h].there
      BY DEF ChangeLink, GroupTyped
    <3>4. SetActive(g) => \A h \in Groups : group'[h].there = group[h].there
      BY DEF SetActive, GroupTyped
    <3>5. Verify(g) => \A h \in Groups : group'[h].there = group[h].there
      BY DEF Verify, GroupTyped
    <3> QED BY <1>1, <3>1, <3>2, <3>3, <3>4, <3>5
  <2> QED BY <2>1, <2>2, BooksUnchanged
<1>2. ASSUME NEW i \in Ids, NEW g \in Groups, SelectScope(i, g) PROVE BooksMove
  BY <1>2, BooksUnchanged DEF SelectScope
<1>3. ASSUME Stop \/ \E q \in Senders : Approve(q) \/ RetrySend(q) \/ SendEnds(q) PROVE BooksMove
  BY <1>3, BooksUnchanged DEF Stop, Approve, RetrySend, SendEnds
<1>4. ASSUME NEW g \in Groups, SetProxies(g) PROVE BooksMove
  <2>1. PICK list \in SUBSET Proxies :
          /\ group' = [group EXCEPT ![g].proxies = list]
          /\ books' = WithProxies(books, g, LinkedIn(books, g), list)
    BY <1>4 DEF SetProxies
  <2>2. NewLists \in [Groups -> SUBSET Proxies] /\ NewLists[g] = list
        /\ \A h \in Groups : group[h].there => group'[h].there
    BY <2>1 DEF NewLists, GroupTyped
  <2>3. PICK lists \in [Groups -> SUBSET Proxies] : lists = NewLists
    BY <2>2
  <2>4. Keeps(books, books', lists)
    BY <2>1, <2>2, <2>3, WithProxiesKeeps DEF Sound
  <2> QED BY <2>2, <2>3, <2>4, BooksKeep
<1>5. ASSUME NEW routes, NEW more, books' = Assigned(books, routes) \/ books' = Assigned(Assigned(books, more), routes),
             \A g \in Groups : group'[g].proxies = group[g].proxies /\ group'[g].there = group[g].there
      PROVE  BooksMove
  <2>1. NewLists = Lists
    BY <1>5 DEF NewLists, Lists
  <2>2. Keeps(books, Assigned(books, routes), Lists)
    BY <1>g, AssignedKeeps DEF Sound
  <2>3. Keeps(books, Assigned(Assigned(books, more), routes), Lists)
    <3>1. Keeps(books, Assigned(books, more), Lists)
      BY <1>g, AssignedKeeps DEF Sound
    <3>2. Keeps(Assigned(books, more), Assigned(Assigned(books, more), routes), Lists)
      BY <1>g, <3>1, AssignedKeeps DEF Keeps
    <3> QED BY <3>1, <3>2, KeepsChain
  <2> QED BY <1>5, <2>1, <2>2, <2>3, BooksKeep
<1>6. ASSUME Start \/ BeginTest PROVE BooksMove
  BY <1>5, <1>6 DEF Start, BeginTest, Materialize, Backfilled
<1>7. ASSUME NEW q \in Senders, Claim(q) PROVE BooksMove
  BY <1>5, <1>7 DEF Claim
<1>8. ASSUME Restart PROVE BooksMove
  <2>1. \A g \in Groups : group'[g].proxies = group[g].proxies /\ group'[g].there = group[g].there
    BY <1>8 DEF Restart, GroupTyped
  <2> QED BY <1>5, <1>8, <2>1 DEF Restart, Backfilled
<1>9. ASSUME NEW c, Sound(c), Grows(books, c), Sticks(books, c, Lists), books' = c, UNCHANGED group
      PROVE  BooksMove
  <2>1. NewLists = Lists
    BY <1>9 DEF NewLists, Lists
  <2>2. Sound(books)'
    BY <1>9, SoundAfter
  <2> QED BY <1>9, <2>1, <2>2 DEF BooksMove
<1>10. ASSUME NEW p \in Phones, NEW g \in Groups, AddProfile(p, g) PROVE BooksMove
  BY <1>9, <1>10, <1>g, AddedSound DEF AddProfile
<1>11. ASSUME NEW p \in Phones, NEW q \in Phones, NEW g \in Groups, BulkAdd(p, q, g) PROVE BooksMove
  <2>1. PICK c : c = Added(books, p, g)
    OBVIOUS
  <2>2. PICK d : d = Added(c, q, g)
    OBVIOUS
  <2>3. group[g].there /\ CanAdd(books, p, g) /\ CanAdd(c, q, g) /\ books' = d /\ UNCHANGED group
    BY <1>11, <2>1, <2>2 DEF BulkAdd
  <2>4. Sound(c) /\ Grows(books, c) /\ Sticks(books, c, Lists)
    BY <1>g, <2>1, <2>3, AddedSound
  <2>5. Sound(d) /\ Grows(c, d) /\ Sticks(c, d, Lists)
    BY <1>g, <2>2, <2>3, <2>4, AddedSound
  <2>6. Grows(books, d)
    BY <2>4, <2>5 DEF Grows
  <2>7. Sticks(books, d, Lists)
    BY <2>4, <2>5, SticksChain
  <2> QED BY <1>9, <2>3, <2>5, <2>6, <2>7
<1>12. ASSUME NEW g \in Groups, DeleteGroup(g) PROVE BooksMove
  <2>1. books' = [books EXCEPT !.links = @ \ (LinkedIn(books, g) \X {g})]
        /\ group' = [group EXCEPT ![g] = NoGroup]
    BY <1>12 DEF DeleteGroup, Unlink
  <2>2. \A h \in Groups : group[h].there /\ ~group'[h].there =>
             h = g /\ \A l \in books.links : l[2] = g => l[1] \in LinkedIn(books, g)
    <3>1. \A l \in books.links : l = <<l[1], l[2]>> /\ l[1] \in Ids
      BY DEF Sound, Routes
    <3>2. \A l \in books.links : l[2] = g => l[1] \in LinkedIn(books, g)
      BY <3>1 DEF LinkedIn
    <3> QED BY <2>1, <3>2 DEF GroupTyped
  <2> QED BY <1>12, <2>1, <2>2, UnlinkMove DEF BooksMove, Removes
<1>13. ASSUME NEW i \in Ids, NEW g \in Groups, RemoveProfile(i, g) PROVE BooksMove
  <2>1. books' = [books EXCEPT !.links = @ \ ({i} \X {g})] /\ UNCHANGED group
    BY <1>13 DEF RemoveProfile, Unlink
  <2> QED BY <1>13, <2>1, UnlinkMove DEF BooksMove, Removes
<1>14. ASSUME NEW g \in Groups, NEW i \in Ids, DeleteOrphan(g, i) PROVE BooksMove
  <2>1. CASE LinkedTo(books, i) = {}
    <3>1. books' = [books EXCEPT !.profile[i] = NoProfile, !.links = {l \in @ : l[1] # i}]
          /\ UNCHANGED group
      BY <1>14, <2>1 DEF DeleteOrphan, RowDeleted
    <3>2. NoProfile \in [phone : Phones \cup {None}, status : Statuses]
      BY DEF NoProfile, Statuses
    <3>3. /\ books' \in Books /\ books'.day = books.day /\ books'.proxy = books.proxy
          /\ books'.links = {l \in books.links : l[1] # i} /\ books'.profile[i] = NoProfile
          /\ \A j \in Ids : j # i => books'.profile[j] = books.profile[j]
      BY <3>1, <3>2 DEF Sound, Books
    <3>4. Sound(books)'
      <4>1. \A j, k \in Ids : books'.profile[j] # NoProfile /\ books'.profile[j].phone = books'.profile[k].phone
                                  => j = k
        <5>1. \A j \in Ids : books.profile[j] # NoProfile => books.profile[j].phone # None
          BY ScopeAssumption DEF Sound
        <5>2. NoProfile.phone = None
          BY DEF NoProfile
        <5> QED BY <3>3, <5>1, <5>2 DEF Sound
      <4>2. \A l \in books'.links : l \in Routes /\ books'.profile[l[1]] # NoProfile /\ group'[l[2]].there
        BY <3>1, <3>3 DEF Sound, Routes
      <4> QED BY <3>3, <4>1, <4>2 DEF Sound
    <3>5. Sticks(books, books', NewLists)
      BY <3>3 DEF Sticks
    <3> QED BY <1>14, <3>4, <3>5 DEF BooksMove, Removes
  <2>2. CASE LinkedTo(books, i) # {}
    BY <1>14, <2>2, BooksUnchanged DEF DeleteOrphan
  <2> QED BY <2>1, <2>2
<1>15. ASSUME NEW i \in Ids, NEW st \in {"active", "disabled"}, There(i),
              books' = [books EXCEPT !.profile[i].status = st], UNCHANGED group
       PROVE  BooksMove
  <2>1. PICK p \in Phones : p = books.profile[i].phone
    BY <1>15 DEF Sound, There, Row
  <2> DEFINE row == [phone |-> p, status |-> st]
  <2>2. [books.profile[i] EXCEPT !.status = st] = row
    BY <2>1 DEF Sound, Books
  <2>3. books' = [books EXCEPT !.profile[i] = row]
    BY <1>15, <2>2 DEF Sound, Books
  <2>4. PICK none \in SUBSET Routes : none = {}
    OBVIOUS
  <2>5. books' = [books EXCEPT !.profile[i] = row, !.links = @ \cup none]
    BY <2>3, <2>4 DEF Sound, Books
  <2>6. books.profile[i] # NoProfile
    BY <1>15 DEF There, Row
  <2>7. books.profile[i] # NoProfile => books.profile[i].phone = p
    BY <2>1
  <2>8. books.profile[i] = NoProfile => \A j \in Ids : books.profile[j].phone # p
    BY <2>6
  <2>9. \A l \in none : l[1] = i /\ group[l[2]].there
    BY <2>4
  <2>10. UNCHANGED group
    BY <1>15
  <2>11. Keeps(books, books, NewLists)
    BY KeepsItself DEF Sound
  <2> QED BY Zenon, <2>5, <2>7, <2>8, <2>9, <2>10, <2>11, RowsMove
<1>16. ASSUME NEW i \in Ids, NEW g \in Groups, group[g].proxies # {}, UNCHANGED group
       PROVE  Keeps(books, Routed(i, g), NewLists)
  BY <1>16, RoutedKeeps
<1>17. ASSUME NEW p \in Phones, NEW g \in Groups, RouteVisitor(p, g) PROVE BooksMove
  <2>1. PICK i \in Visited(p) : books' = Routed(i, g)
    BY <1>17 DEF RouteVisitor
  <2>2. i \in Ids /\ group[g].proxies # {} /\ UNCHANGED group
    BY <1>17, <2>1 DEF RouteVisitor, Visited
  <2> QED BY <1>16, <2>1, <2>2, BooksKeep
<1>18. ASSUME NEW p \in Phones, NEW g \in Groups, Enrol(p, g) PROVE BooksMove
  <2>1. PICK i \in Visited(p) :
           /\ group[g].proxies # {}
           /\ books' = [Routed(i, g) EXCEPT !.profile[i] = [phone |-> p, status |-> "active"], !.links = @ \cup {<<i, g>>}]
    BY <1>18 DEF Enrol, HasRoute
  <2>2. i \in Ids /\ group[g].there /\ UNCHANGED group
    BY <1>18, <2>1 DEF Enrol, Visited
  <2>5. {<<i, g>>} \in SUBSET Routes /\ \A l \in {<<i, g>>} : l[1] = i /\ group[l[2]].there
    BY <2>2 DEF Routes
  <2>6. PICK c : c = Routed(i, g)
    OBVIOUS
  <2>7. Keeps(books, c, NewLists)
    BY <1>16, <2>1, <2>2, <2>6
  <2>8. books' = [c EXCEPT !.profile[i] = [phone |-> p, status |-> "active"], !.links = @ \cup {<<i, g>>}]
    BY <2>1, <2>6
  <2>3. CASE Holds(books, p) = {}
    <3>1. books.profile[i] = NoProfile
      BY <2>1, <2>2, <2>3, NextIdIsFree DEF Sound, Visited
    <3>2. \A j \in Ids : books.profile[j].phone # p
      BY <2>3 DEF Holds
    <3> QED BY <2>2, <2>5, <2>7, <2>8, <3>1, <3>2, RowsMove
  <2>4. CASE Holds(books, p) # {}
    <3>1. books.profile[i].phone = p
      BY <2>1, <2>4 DEF Holds, Visited
    <3>2. books.profile[i] # NoProfile
      BY <3>1, ScopeAssumption DEF NoProfile
    <3> QED BY <2>2, <2>5, <2>7, <2>8, <3>1, <3>2, RowsMove
  <2> QED BY <2>3, <2>4
<1>19. ASSUME NEW i \in Ids, Activate(i) \/ Disable(i) PROVE BooksMove
  BY <1>15, <1>19 DEF Activate, Disable
<1> QED BY <1>0, <1>1, <1>2, <1>3, <1>4, <1>6, <1>7, <1>8, <1>10, <1>11, <1>12, <1>13, <1>14,
           <1>17, <1>18, <1>19 DEF Next, OwnerStep, AccountStep, SendStep

--------------------------------------------------------------------------------
(* Destinations *)

Destinations == GroupTyped /\ DOMAIN confirmed = Groups /\ ChatsAreConfirmed

LEMMA NoGroupTyped == NoGroup \in [there : BOOLEAN, active : BOOLEAN, rev : Nat,
                        chat : Chats \cup {None}, verified : BOOLEAN, proxies : SUBSET Proxies]
BY DEF NoGroup

\* One group is given another record; what it then is, is confirmed.
LEMMA DestinationMove ==
  ASSUME Destinations, NEW g \in Groups,
         NEW new \in [there : BOOLEAN, active : BOOLEAN, rev : Nat, chat : Chats \cup {None},
                      verified : BOOLEAN, proxies : SUBSET Proxies],
         group' = [group EXCEPT ![g] = new],
         \/ UNCHANGED confirmed
         \/ \E x : confirmed' = [confirmed EXCEPT ![g] = x],
         new.verified \/ new.chat # None => confirmed'[g] = <<new.rev, new.chat>>
  PROVE  Destinations'
BY DEF Destinations, GroupTyped, ChatsAreConfirmed

LEMMA DestinationsStep ==
  ASSUME Destinations, [Next]_vars PROVE Destinations'
<1>0. ASSUME UNCHANGED <<group, confirmed>> PROVE Destinations'
  BY <1>0 DEF Destinations, GroupTyped, ChatsAreConfirmed
<1>1. ASSUME NEW g \in Groups, AddGroup(g) PROVE Destinations'
  <2>1. PICK list \in SUBSET Proxies :
          group' = [group EXCEPT ![g] = [NoGroup EXCEPT !.there = TRUE, !.active = TRUE, !.proxies = list]]
    BY <1>1 DEF AddGroup
  <2> DEFINE new == [NoGroup EXCEPT !.there = TRUE, !.active = TRUE, !.proxies = list]
  <2>2. new \in [there : BOOLEAN, active : BOOLEAN, rev : Nat, chat : Chats \cup {None},
                 verified : BOOLEAN, proxies : SUBSET Proxies]
        /\ ~new.verified /\ new.chat = None
    BY DEF NoGroup
  <2>3. confirmed' = [confirmed EXCEPT ![g] = <<0, None>>]
    BY <1>1 DEF AddGroup
  <2> HIDE DEF new
  <2> QED BY <2>1, <2>2, <2>3, DestinationMove DEF new
<1>2. ASSUME NEW g \in Groups, ChangeLink(g) PROVE Destinations'
  <2> DEFINE new == [group[g] EXCEPT !.chat = None, !.verified = FALSE, !.rev = @ + 1]
  <2>1. group' = [group EXCEPT ![g] = new] /\ UNCHANGED confirmed
    BY <1>2 DEF ChangeLink, history, Destinations, GroupTyped
  <2>2. new \in [there : BOOLEAN, active : BOOLEAN, rev : Nat, chat : Chats \cup {None},
                 verified : BOOLEAN, proxies : SUBSET Proxies]
        /\ ~new.verified /\ new.chat = None
    <3>1. group[g] \in [there : BOOLEAN, active : BOOLEAN, rev : Nat, chat : Chats \cup {None},
                        verified : BOOLEAN, proxies : SUBSET Proxies]
      BY DEF Destinations, GroupTyped
    <3>2. group[g].rev + 1 \in Nat
      BY <3>1
    <3> QED BY <3>1, <3>2
  <2> HIDE DEF new
  <2> QED BY <2>1, <2>2, DestinationMove
<1>3. ASSUME NEW g \in Groups, SetProxies(g) PROVE Destinations'
  <2>1. PICK list \in SUBSET Proxies : group' = [group EXCEPT ![g].proxies = list]
    BY <1>3 DEF SetProxies
  <2>2. UNCHANGED confirmed
    BY <1>3 DEF SetProxies, history
  <2> QED BY <2>1, <2>2 DEF Destinations, GroupTyped, ChatsAreConfirmed
<1>4. ASSUME NEW g \in Groups, SetActive(g) PROVE Destinations'
  <2>1. group' = [group EXCEPT ![g].active = ~@]
    BY <1>4 DEF SetActive
  <2>2. UNCHANGED confirmed
    BY <1>4 DEF SetActive, history
  <2>3. [group[g] EXCEPT !.active = ~@]
          \in [there : BOOLEAN, active : BOOLEAN, rev : Nat, chat : Chats \cup {None}, verified : BOOLEAN, proxies : SUBSET Proxies]
    BY DEF Destinations, GroupTyped
  <2>4. group' = [group EXCEPT ![g] = [group[g] EXCEPT !.active = ~@]]
    BY <2>1 DEF Destinations, GroupTyped
  <2> DEFINE new == [group[g] EXCEPT !.active = ~@]
  <2>5. new.verified = group[g].verified /\ new.chat = group[g].chat /\ new.rev = group[g].rev
    BY DEF Destinations, GroupTyped
  <2>6. new.verified \/ new.chat # None => confirmed'[g] = <<new.rev, new.chat>>
    BY <2>2, <2>5 DEF Destinations, ChatsAreConfirmed
  <2> QED BY <2>2, <2>3, <2>4, <2>6, DestinationMove
<1>5. ASSUME NEW g \in Groups, Verify(g) PROVE Destinations'
  <2>1. PICK c \in Chats : /\ group' = [group EXCEPT ![g].chat = c, ![g].verified = TRUE]
                           /\ confirmed' = [confirmed EXCEPT ![g] = <<group[g].rev, c>>]
    BY <1>5 DEF Verify
  <2> DEFINE new == [group[g] EXCEPT !.chat = c, !.verified = TRUE]
  <2>2. group' = [group EXCEPT ![g] = new]
    BY <2>1 DEF Destinations, GroupTyped
  <2>3. new \in [there : BOOLEAN, active : BOOLEAN, rev : Nat, chat : Chats \cup {None},
                 verified : BOOLEAN, proxies : SUBSET Proxies]
        /\ new.chat = c /\ new.rev = group[g].rev
    BY DEF Destinations, GroupTyped
  <2>4. confirmed'[g] = <<group[g].rev, c>>
    BY <2>1 DEF Destinations
  <2> HIDE DEF new
  <2> QED BY <2>1, <2>2, <2>3, <2>4, DestinationMove
<1>6. ASSUME NEW g \in Groups, DeleteGroup(g) PROVE Destinations'
  <2>1. ~NoGroup.verified /\ NoGroup.chat = None
    BY DEF NoGroup
  <2>2. group' = [group EXCEPT ![g] = NoGroup] /\ UNCHANGED confirmed
    BY <1>6 DEF DeleteGroup
  <2> QED BY <2>1, <2>2, NoGroupTyped, DestinationMove
<1>7. ASSUME Restart PROVE Destinations'
  <2>1. group' = [g \in Groups |-> [group[g] EXCEPT !.verified = @ \/ group[g].chat # None]]
        /\ UNCHANGED confirmed
    BY <1>7 DEF Restart
  <2> DEFINE mark(g) == group[g].verified \/ group[g].chat # None
  <2>2. GroupTyped'
    <3>1. \A g \in Groups : mark(g) \in BOOLEAN
      OBVIOUS
    <3>2. group' = [g \in Groups |-> [group[g] EXCEPT !.verified = mark(g)]]
      BY <2>1 DEF Destinations, GroupTyped
    <3> HIDE DEF mark
    <3> QED BY <3>1, <3>2 DEF Destinations, GroupTyped
  <2>3. ASSUME NEW g \in Groups
        PROVE  /\ group'[g].verified => group[g].verified \/ group[g].chat # None
               /\ group'[g].chat = group[g].chat /\ group'[g].rev = group[g].rev
    BY <2>1 DEF Destinations, GroupTyped
  <2> QED BY <2>1, <2>2, <2>3 DEF Destinations, ChatsAreConfirmed
<1>8. UNCHANGED vars => UNCHANGED <<group, confirmed>>
  BY DEF vars, history
<1>9. ASSUME NEW g \in Groups,
             CleanupFails(g) \/ \E i \in Ids : SelectScope(i, g) \/ RemoveProfile(i, g) \/ DeleteOrphan(g, i)
      PROVE  UNCHANGED <<group, confirmed>>
  BY <1>9 DEF CleanupFails, SelectScope, RemoveProfile, DeleteOrphan, history
<1>10. ASSUME NEW i \in Ids, Disable(i) \/ Activate(i) PROVE UNCHANGED <<group, confirmed>>
  BY <1>10 DEF Disable, Activate, history
<1>11. ASSUME NEW p \in Phones, NEW q \in Phones, NEW g \in Groups,
              AddProfile(p, g) \/ BulkAdd(p, q, g) \/ Enrol(p, g) \/ RouteVisitor(p, g)
       PROVE  UNCHANGED <<group, confirmed>>
  BY <1>11 DEF AddProfile, BulkAdd, Enrol, RouteVisitor, history
<1>12. SendStep => UNCHANGED <<group, confirmed>>
  BY DEF SendStep, Start, Stop, BeginTest, Claim, Approve, RetrySend, SendEnds, history
<1> QED BY <1>0, <1>1, <1>2, <1>3, <1>4, <1>5, <1>6, <1>7, <1>8, <1>9, <1>10, <1>11, <1>12
        DEF Next, OwnerStep, AccountStep

--------------------------------------------------------------------------------
(* Work groups *)

ScopeTyped ==
    scope \in [Ids -> [group : Groups \cup {None}, consent : {"none", "active", "unselected"}]]

WorkGroups == ScopeTyped /\ ScopeIsLinked /\ ScopeIsChosen

LEMMA GroupsFinite == ASSUME NEW T, T \subseteq Groups PROVE IsFiniteSet(T)
<1>1. PICK top \in Groups : \A g \in Groups : g <= top
  BY ScopeAssumption
<1>2. top \in Nat /\ Groups \subseteq 1..top
  BY <1>1, ScopeAssumption
<1>3. IsFiniteSet(1..top)
  BY <1>2, FS_Interval
<1> QED BY <1>2, <1>3, FS_Subset

\* The migration chooses the only group of a profile, and is remembered.
LEMMA MigratedRow ==
  ASSUME WorkGroups, Sound(books), NEW who, NEW i \in Ids
  PROVE  \/ Migrated(who)[i] = scope[i]
         \/ \E g \in Groups :
              /\ scope[i] = NoScope
              /\ Migrated(who)[i] = [group |-> g, consent |-> "active"]
              /\ <<i, g>> \in books.links /\ <<Row(i).phone, g>> \in MayMigrate(who)
<1> DEFINE only == i \in who /\ scope[i] = NoScope /\ Cardinality(LinkedTo(books, i)) = 1
           g == CHOOSE h \in LinkedTo(books, i) : TRUE
<1>1. Migrated(who)[i] = IF only THEN [group |-> g, consent |-> "active"] ELSE scope[i]
  BY DEF Migrated
<1>2. ASSUME only
      PROVE  /\ g \in Groups /\ <<i, g>> \in books.links
             /\ <<Row(i).phone, g>> \in MayMigrate(who)
  <2>1. PICK x : LinkedTo(books, i) = {x}
    <3>1. LinkedTo(books, i) \subseteq Groups
      BY DEF LinkedTo
    <3>2. IsFiniteSet(LinkedTo(books, i))
      BY <3>1, GroupsFinite
    <3> QED BY <1>2, <3>2, FS_Singleton
  <2>2. g = x
    BY <2>1
  <2>3. x \in Groups /\ <<i, x>> \in books.links
    BY <2>1 DEF LinkedTo
  <2>4. <<i, x>> \in Routes
    BY <2>3 DEF Routes
  <2>5. <<i, x>> \in {l \in Routes : l[1] \in who /\ scope[l[1]] = NoScope /\ LinkedTo(books, l[1]) = {l[2]}}
    BY <1>2, <2>1, <2>4
  <2>6. <<Row(i).phone, x>> \in MayMigrate(who)
    BY <2>5 DEF MayMigrate
  <2> QED BY <2>2, <2>3, <2>6
<1> QED BY <1>1, <1>2

LEMMA MigrationKeeps ==
  ASSUME WorkGroups, Sound(books), NEW who, scope' = Migrated(who),
         chosen' = chosen \cup MayMigrate(who), Grows(books, books')
  PROVE  WorkGroups'
<1>1. \A i \in Ids, g \in Groups : <<i, g>> \in books.links =>
          <<i, g>> \in books'.links /\ books'.profile[i].phone = books.profile[i].phone
  BY DEF Grows, Sound
<1>2. ASSUME NEW i \in Ids
      PROVE  /\ scope'[i] \in [group : Groups \cup {None}, consent : {"none", "active", "unselected"}]
             /\ scope'[i].group # None => <<i, scope'[i].group>> \in books'.links
             /\ scope'[i].group # None /\ scope'[i].consent = "active" =>
                   <<books'.profile[i].phone, scope'[i].group>> \in chosen'
  <2>1. CASE scope'[i] = scope[i]
    <3>1. scope[i].group # None => scope[i].group \in Groups
      BY DEF WorkGroups, ScopeTyped
    <3> QED BY <1>1, <2>1, <3>1 DEF WorkGroups, ScopeTyped, ScopeIsLinked, ScopeIsChosen, Row
  <2>2. ASSUME NEW g \in Groups, scope'[i] = [group |-> g, consent |-> "active"],
               <<i, g>> \in books.links, <<Row(i).phone, g>> \in MayMigrate(who)
        PROVE  /\ scope'[i] \in [group : Groups \cup {None}, consent : {"none", "active", "unselected"}]
               /\ <<i, scope'[i].group>> \in books'.links
               /\ <<books'.profile[i].phone, scope'[i].group>> \in chosen'
    BY <1>1, <2>2 DEF Row
  <2> QED BY <2>1, <2>2, MigratedRow
<1>3. scope' = [i \in Ids |-> scope'[i]]
  BY DEF Migrated
<1> QED BY <1>2, <1>3 DEF WorkGroups, ScopeTyped, ScopeIsLinked, ScopeIsChosen, Row

\* An id with a work group has a profile.
LEMMA GroupHasProfile ==
  ASSUME WorkGroups, Sound(books), NEW i \in Ids, scope[i].group # None
  PROVE  /\ scope[i].group \in Groups /\ <<i, scope[i].group>> \in books.links
         /\ books.profile[i] # NoProfile
BY DEF WorkGroups, ScopeTyped, ScopeIsLinked, Sound

LEMMA WorkGroupsUnchanged ==
  ASSUME WorkGroups, Sound(books), Grows(books, books'), UNCHANGED scope, chosen \subseteq chosen'
  PROVE  WorkGroups'
<1>1. ASSUME NEW i \in Ids, scope[i].group # None
      PROVE  <<i, scope[i].group>> \in books'.links
             /\ books'.profile[i].phone = books.profile[i].phone
  BY <1>1, GroupHasProfile DEF Grows
<1> QED BY <1>1 DEF WorkGroups, ScopeTyped, ScopeIsLinked, ScopeIsChosen, Row

LEMMA UnlinkKeeps ==
  ASSUME WorkGroups, Sound(books), NEW g \in Groups, NEW who \in SUBSET Ids, Unlink(g, who)
  PROVE  WorkGroups'
<1>1. /\ books'.profile = books.profile /\ books'.links = books.links \ (who \X {g})
      /\ scope' = [i \in Ids |-> IF i \in who THEN Unselected(i, g) ELSE scope[i]]
      /\ chosen' = chosen \ ({Row(i).phone : i \in who} \X {g})
  BY DEF Unlink, Sound, Books
<1>2. ASSUME NEW i \in Ids
      PROVE  scope'[i] = [group |-> None, consent |-> "unselected"]
             \/ (scope'[i] = scope[i] /\ (i \in who => scope[i].group # g))
  BY <1>1, <1>2 DEF Unselected
<1>3. ASSUME NEW i \in Ids, scope'[i] = scope[i], i \in who => scope[i].group # g,
             scope[i].group # None
      PROVE  /\ <<i, scope[i].group>> \in books'.links
             /\ scope[i].consent = "active" => <<Row(i).phone, scope[i].group>> \in chosen'
  <2>1. <<i, scope[i].group>> \in books.links /\ books.profile[i] # NoProfile
    BY <1>3, GroupHasProfile
  <2>2. ASSUME NEW k \in who, Row(k).phone = Row(i).phone PROVE scope[i].group # g
    BY <1>3, <2>1, <2>2 DEF Sound, Row
  <2>3. <<Row(i).phone, scope[i].group>> \notin {Row(k).phone : k \in who} \X {g}
    BY <2>2
  <2> QED BY <1>1, <1>3, <2>1, <2>3 DEF WorkGroups, ScopeIsChosen
<1>4. ScopeTyped'
  BY <1>1, <1>2 DEF WorkGroups, ScopeTyped
<1>5. ASSUME NEW i \in Ids, scope'[i].group # None
      PROVE  /\ <<i, scope'[i].group>> \in books'.links
             /\ scope'[i].consent = "active" => <<books'.profile[i].phone, scope'[i].group>> \in chosen'
  <2>1. scope'[i] = scope[i] /\ (i \in who => scope[i].group # g)
    BY <1>2, <1>5
  <2>2. scope[i].group # None
    BY <1>5, <2>1
  <2>3. books'.profile[i].phone = Row(i).phone
    BY <1>1 DEF Row
  <2> QED BY <1>3, <2>1, <2>2, <2>3
<1> QED BY <1>4, <1>5 DEF WorkGroups, ScopeIsLinked, ScopeIsChosen, Row

LEMMA WorkGroupsStep ==
  ASSUME GroupTyped, Sound(books), WorkGroups, [Next]_vars PROVE WorkGroups'
<1>b. Removes \/ Grows(books, books')
  BY BooksStep DEF BooksMove
<1>r. Removes => WorkGroups'
  <2>1. ASSUME NEW g \in Groups, DeleteGroup(g) PROVE WorkGroups'
    <3>1. LinkedIn(books, g) \in SUBSET Ids
      BY DEF LinkedIn
    <3> QED BY <2>1, <3>1, UnlinkKeeps DEF DeleteGroup
  <2>2. ASSUME NEW g \in Groups, NEW i \in Ids, RemoveProfile(i, g) PROVE WorkGroups'
    BY <2>2, UnlinkKeeps DEF RemoveProfile
  <2>3. ASSUME NEW g \in Groups, NEW i \in Ids, DeleteOrphan(g, i) PROVE WorkGroups'
    <3>1. CASE LinkedTo(books, i) = {}
      <4>1. /\ books' = RowDeleted(i) /\ UNCHANGED scope
            /\ chosen' = {c \in chosen : c[1] # Row(i).phone}
        BY <2>3, <3>1 DEF DeleteOrphan
      <4>2. scope[i].group = None
        BY <3>1, GroupHasProfile DEF LinkedTo
      <4>3. ASSUME NEW j \in Ids, scope[j].group # None
            PROVE  /\ <<j, scope[j].group>> \in books'.links
                   /\ books'.profile[j].phone = books.profile[j].phone
                   /\ books.profile[j].phone # books.profile[i].phone
        <5>1. j # i /\ <<j, scope[j].group>> \in books.links /\ books.profile[j] # NoProfile
          BY <4>2, <4>3, GroupHasProfile
        <5>2. books'.links = {l \in books.links : l[1] # i}
              /\ books'.profile[j] = books.profile[j]
          BY <4>1, <5>1 DEF RowDeleted, Sound, Books
        <5> QED BY <5>1, <5>2 DEF Sound
      <4> QED BY <4>1, <4>3 DEF WorkGroups, ScopeTyped, ScopeIsLinked, ScopeIsChosen, Row
    <3>2. CASE LinkedTo(books, i) # {}
      <4>1. UNCHANGED <<books, scope, chosen>>
        BY <2>3, <3>2 DEF DeleteOrphan
      <4> QED BY <4>1 DEF WorkGroups, ScopeTyped, ScopeIsLinked, ScopeIsChosen, Row
    <3> QED BY <3>1, <3>2
  <2> QED BY <2>1, <2>2, <2>3 DEF Removes
<1>0. ASSUME Grows(books, books'), UNCHANGED <<scope, chosen>> PROVE WorkGroups'
  BY <1>0, WorkGroupsUnchanged
<1>1. UNCHANGED vars => UNCHANGED <<scope, chosen>>
  BY DEF vars, history
<1>2. ASSUME NEW g \in Groups, AddGroup(g) \/ ChangeLink(g) \/ SetProxies(g) \/ SetActive(g) \/ Verify(g) \/ CleanupFails(g)
      PROVE  UNCHANGED <<scope, chosen>>
  BY <1>2 DEF AddGroup, ChangeLink, SetProxies, SetActive, Verify, CleanupFails, history
<1>3. ASSUME NEW i \in Ids, Disable(i) \/ Activate(i) PROVE UNCHANGED <<scope, chosen>>
  BY <1>3 DEF Disable, Activate, history
<1>4. ASSUME NEW p \in Phones, NEW q \in Phones, NEW g \in Groups, AddProfile(p, g) \/ BulkAdd(p, q, g) \/ RouteVisitor(p, g)
      PROVE  UNCHANGED <<scope, chosen>>
  BY <1>4 DEF AddProfile, BulkAdd, RouteVisitor, history
<1>5. Stop \/ (\E q \in Senders : RetrySend(q) \/ SendEnds(q)) => UNCHANGED <<scope, chosen>>
  BY DEF Stop, RetrySend, SendEnds, history
<1>6. ASSUME NEW i \in Ids, NEW g \in Groups, SelectScope(i, g), Grows(books, books') PROVE WorkGroups'
  <2>1. /\ There(i) /\ <<i, g>> \in books.links /\ UNCHANGED books
        /\ scope' = [scope EXCEPT ![i] = [group |-> g, consent |-> "active"]]
        /\ chosen' = {c \in chosen : c[1] # Row(i).phone} \cup {<<Row(i).phone, g>>}
    BY <1>6 DEF SelectScope
  <2>2. scope'[i].group = g /\ <<Row(i).phone, g>> \in chosen'
    BY <2>1 DEF WorkGroups, ScopeTyped
  <2>3. ASSUME NEW j \in Ids, j # i, scope[j].group # None
        PROVE  /\ scope'[j] = scope[j]
               /\ scope[j].consent = "active" => <<Row(j).phone, scope[j].group>> \in chosen'
    <3>1. books.profile[j] # NoProfile
      BY <2>3, GroupHasProfile
    <3>2. Row(j).phone # Row(i).phone
      BY <2>3, <3>1 DEF Sound, Row
    <3> QED BY <2>1, <2>3, <3>2 DEF WorkGroups, ScopeTyped, ScopeIsChosen
  <2>4. ScopeTyped'
    BY <2>1 DEF WorkGroups, ScopeTyped
  <2>5. \A j \in Ids : j # i => scope'[j] = scope[j]
    BY <2>1 DEF WorkGroups, ScopeTyped
  <2>6. ScopeIsLinked'
    BY <2>1, <2>2, <2>5 DEF WorkGroups, ScopeIsLinked
  <2>7. ScopeIsChosen'
    BY <2>1, <2>2, <2>3, <2>5 DEF ScopeIsChosen, Row
  <2> QED BY <2>4, <2>6, <2>7 DEF WorkGroups
<1>7. ASSUME NEW p \in Phones, NEW g \in Groups, Enrol(p, g), Grows(books, books') PROVE WorkGroups'
  <2>1. PICK i \in Ids :
          /\ group[g].proxies # {}
          /\ books' = [Routed(i, g) EXCEPT !.profile[i] = [phone |-> p, status |-> "active"], !.links = @ \cup {<<i, g>>}]
          /\ IF scope[i].group = None
             THEN /\ scope' = [scope EXCEPT ![i] = [group |-> g, consent |-> "active"]]
                  /\ chosen' = chosen \cup {<<p, g>>}
             ELSE UNCHANGED <<scope, chosen>>
    BY <1>7 DEF Enrol, HasRoute, Visited
  <2>4. PICK c \in Books : c = Routed(i, g)
    BY <1>7, <2>1, RoutedKeeps DEF Enrol, Keeps
  <2>2. CASE scope[i].group # None
    BY <1>0, <1>7, <2>1, <2>2
  <2>3. CASE scope[i].group = None
    <3>1. <<i, g>> \in books'.links /\ books'.profile[i].phone = p
      BY <2>1, <2>4 DEF Books
    <3>2. scope' = [scope EXCEPT ![i] = [group |-> g, consent |-> "active"]]
          /\ chosen' = chosen \cup {<<p, g>>}
      BY <2>1, <2>3
    <3>3. scope'[i] = [group |-> g, consent |-> "active"] /\ \A j \in Ids : j # i => scope'[j] = scope[j]
      BY <3>2 DEF WorkGroups, ScopeTyped
    <3>4. ASSUME NEW j \in Ids, scope[j].group # None
          PROVE  /\ <<j, scope[j].group>> \in books'.links
                 /\ books'.profile[j].phone = books.profile[j].phone
                 /\ scope[j].consent = "active" => <<books.profile[j].phone, scope[j].group>> \in chosen'
      BY <1>7, <3>2, <3>4, GroupHasProfile DEF Grows, WorkGroups, ScopeIsChosen, Row
    <3>5. ScopeTyped'
      BY <3>2 DEF WorkGroups, ScopeTyped
    <3>6. ASSUME NEW j \in Ids, scope'[j].group # None
          PROVE  /\ <<j, scope'[j].group>> \in books'.links
                 /\ scope'[j].consent = "active" => <<books'.profile[j].phone, scope'[j].group>> \in chosen'
      <4>1. CASE j = i
        BY <3>1, <3>2, <3>3, <4>1
      <4>2. CASE j # i
        <5>1. scope'[j] = scope[j]
          BY <3>3, <4>2
        <5> QED BY <3>4, <3>6, <5>1
      <4> QED BY <4>1, <4>2
    <3>7. ScopeIsLinked' /\ ScopeIsChosen'
      BY <3>6 DEF ScopeIsLinked, ScopeIsChosen, Row
    <3> QED BY <3>5, <3>7 DEF WorkGroups
  <2> QED BY <2>2, <2>3
<1>8. ASSUME Start \/ BeginTest, Grows(books, books') PROVE WorkGroups'
  BY <1>8, MigrationKeeps DEF Start, BeginTest, Materialize
<1>9. ASSUME NEW q \in Senders, Claim(q) \/ Approve(q), Grows(books, books') PROVE WorkGroups'
  BY <1>9, MigrationKeeps DEF Claim, Approve
<1>10. ASSUME Restart, Grows(books, books') PROVE WorkGroups'
  BY <1>10, MigrationKeeps DEF Restart
<1>11. ASSUME NEW g \in Groups, DeleteGroup(g) \/ \E i \in Ids : RemoveProfile(i, g) \/ DeleteOrphan(g, i)
       PROVE  WorkGroups'
  BY <1>11, <1>r DEF Removes
<1>12. CASE Grows(books, books')
  BY <1>12, <1>0, <1>1, <1>2, <1>3, <1>4, <1>5, <1>6, <1>7, <1>8, <1>9, <1>10, <1>11
     DEF Next, OwnerStep, AccountStep, SendStep
<1> QED BY <1>b, <1>r, <1>12

--------------------------------------------------------------------------------
(* Jobs *)

InFlight(q) == send[q].at \in {"claimed", "approved"}

Jobs ==
    /\ send \in [Senders -> Job]
    /\ \A q \in Senders : InFlight(q) => send[q].id \in Ids /\ send[q].group \in Groups
    /\ control \in {"stopped", "running", "testing"}
    /\ control = "testing" => send[Test] # NoJob
    /\ send[Worker] # NoJob => control = "running"

\* The job of q is another one.
JobMove(q) == \E job \in Job :
    /\ send' = [send EXCEPT ![q] = job]
    /\ job.at \in {"claimed", "approved"} => job.id \in Ids /\ job.group \in Groups

LEMMA SendersAreTwo == Senders = {Worker, Test} /\ Worker # Test
BY DEF Senders, Worker, Test

LEMMA NoJobTyped == NoJob \in Job /\ NoJob.at = "none"
BY DEF NoJob, Job

LEMMA RouteIsLinked ==
  ASSUME GroupTyped, Sound(books), NEW r \in AllowedRoutes
  PROVE  /\ r \in books.links /\ r = <<r[1], r[2]>> /\ r[1] \in Ids /\ r[2] \in Groups
         /\ Row(r[1]).phone \in Phones /\ group[r[2]].rev \in Nat
<1>1. r \in books.links
  BY DEF AllowedRoutes, ActiveLinks
<1>2. r = <<r[1], r[2]>> /\ r[1] \in Ids /\ r[2] \in Groups
  BY <1>1 DEF Sound, Routes
<1> QED BY <1>1, <1>2 DEF Sound, Row, GroupTyped

LEMMA ClaimedJob ==
  ASSUME GroupTyped, Sound(books), NEW q \in Senders, Claim(q)
  PROVE  \E r \in AllowedRoutes, job \in Job :
           /\ send' = [send EXCEPT ![q] = job]
           /\ job.at = "claimed" /\ job.id = r[1] /\ job.group = r[2] /\ job.phone = Row(r[1]).phone
<1>1. PICK r \in AllowedRoutes :
        send' = [send EXCEPT ![q] = [NoJob EXCEPT !.at = "claimed", !.id = r[1], !.phone = Row(r[1]).phone,
                                                   !.group = r[2], !.rev = group[r[2]].rev]]
  BY DEF Claim
<1> DEFINE job == [NoJob EXCEPT !.at = "claimed", !.id = r[1], !.phone = Row(r[1]).phone,
                                !.group = r[2], !.rev = group[r[2]].rev]
<1>2. /\ r[1] \in Ids /\ r[2] \in Groups /\ Row(r[1]).phone \in Phones /\ group[r[2]].rev \in Nat
  BY RouteIsLinked
<1>3. r[1] \in Nat
  BY <1>2, ScopeAssumption DEF Ids
<1>4. job \in Job /\ job.at = "claimed" /\ job.id = r[1] /\ job.group = r[2] /\ job.phone = Row(r[1]).phone
  BY <1>2, <1>3 DEF NoJob, Job
<1> QED BY <1>1, <1>4

LEMMA ApprovedJob ==
  ASSUME GroupTyped, Jobs, NEW q \in Senders, Approve(q)
  PROVE  \E job \in Job :
           /\ send' = [send EXCEPT ![q] = job]
           /\ job.at = "approved" /\ job.id = send[q].id /\ job.group = send[q].group
           /\ job.phone = send[q].phone /\ job.rev = send[q].rev
           /\ job.chat = group[send[q].group].chat
<1> DEFINE job == [send[q] EXCEPT !.at = "approved", !.chat = group[send[q].group].chat]
<1>1. send' = [send EXCEPT ![q] = job]
  BY DEF Approve, Jobs
<1>2. send[q] \in Job /\ send[q].group \in Groups
  BY DEF Approve, Jobs, InFlight
<1>3. group[send[q].group].chat \in Chats \cup {None}
  BY <1>2 DEF GroupTyped
<1>4. job \in Job /\ job.at = "approved" /\ job.id = send[q].id /\ job.group = send[q].group
      /\ job.phone = send[q].phone /\ job.rev = send[q].rev /\ job.chat = group[send[q].group].chat
  BY <1>2, <1>3 DEF Job
<1> QED BY <1>1, <1>4

LEMMA RetriedJob ==
  ASSUME Jobs, NEW q \in Senders, RetrySend(q)
  PROVE  \E job \in Job :
           /\ send' = [send EXCEPT ![q] = job]
           /\ job.at = "claimed" /\ job.id = send[q].id /\ job.group = send[q].group
           /\ job.phone = send[q].phone
<1> DEFINE job == [send[q] EXCEPT !.at = "claimed", !.chat = None]
<1>1. send' = [send EXCEPT ![q] = job]
  BY DEF RetrySend, Jobs
<1>2. send[q] \in Job
  BY DEF Jobs
<1>3. job \in Job /\ job.at = "claimed" /\ job.id = send[q].id /\ job.group = send[q].group
      /\ job.phone = send[q].phone
  BY <1>2 DEF Job
<1> QED BY <1>1, <1>3

\* Another job, with the state of the campaign that goes with it.
LEMMA JobKept ==
  ASSUME Jobs, NEW q \in Senders, JobMove(q), control' \in {"stopped", "running", "testing"},
         control' = "testing" => send'[Test] # NoJob, send'[Worker] # NoJob => control' = "running"
  PROVE  Jobs'
BY DEF Jobs, JobMove, InFlight

\* An owner's handler finds the worker idle, and leaves the jobs as they are.
LEMMA OwnerWaits ==
  ASSUME Jobs, OwnerActs PROVE send[Worker] = NoJob /\ UNCHANGED <<control, send>>
BY DEF Jobs, OwnerActs, Idle

LEMMA QuietJobs ==
  /\ \A g \in Groups : AddGroup(g) \/ ChangeLink(g) \/ SetProxies(g) \/ SetActive(g) \/ Verify(g) \/ DeleteGroup(g)
                           => OwnerActs
  /\ \A i \in Ids, g \in Groups : SelectScope(i, g) \/ RemoveProfile(i, g) => OwnerActs
  /\ \A i \in Ids : Disable(i) => OwnerActs
  /\ \A p, q \in Phones, g \in Groups : AddProfile(p, g) \/ BulkAdd(p, q, g) => OwnerActs
  /\ \A g \in Groups : CleanupFails(g) \/ (\E i \in Ids : DeleteOrphan(g, i)) => UNCHANGED <<control, send>>
  /\ \A i \in Ids : Activate(i) => UNCHANGED <<control, send>>
  /\ \A p \in Phones, g \in Groups : RouteVisitor(p, g) \/ Enrol(p, g) => UNCHANGED <<control, send>>
<1>1. \A g \in Groups : AddGroup(g) \/ ChangeLink(g) \/ SetProxies(g) \/ SetActive(g) \/ Verify(g) \/ DeleteGroup(g)
                            => OwnerActs
  BY DEF AddGroup, ChangeLink, SetProxies, SetActive, Verify, DeleteGroup
<1>2. \A i \in Ids, g \in Groups : SelectScope(i, g) \/ RemoveProfile(i, g) => OwnerActs
  BY DEF SelectScope, RemoveProfile
<1>3. \A i \in Ids : Disable(i) => OwnerActs
  BY DEF Disable
<1>4. \A p, q \in Phones, g \in Groups : AddProfile(p, g) \/ BulkAdd(p, q, g) => OwnerActs
  BY DEF AddProfile, BulkAdd
<1>5. \A g \in Groups : CleanupFails(g) \/ (\E i \in Ids : DeleteOrphan(g, i)) => UNCHANGED <<control, send>>
  BY DEF CleanupFails, DeleteOrphan
<1>6. \A i \in Ids : Activate(i) => UNCHANGED <<control, send>>
  BY DEF Activate
<1>7. \A p \in Phones, g \in Groups : RouteVisitor(p, g) \/ Enrol(p, g) => UNCHANGED <<control, send>>
  BY DEF Enrol, RouteVisitor
<1> QED BY <1>1, <1>2, <1>3, <1>4, <1>5, <1>6, <1>7

LEMMA JobsStep ==
  ASSUME GroupTyped, Sound(books), Jobs, [Next]_vars PROVE Jobs'
<1>0. UNCHANGED <<control, send>> => Jobs'
  BY DEF Jobs, InFlight
<1>1. OwnerStep \/ AccountStep \/ UNCHANGED vars => UNCHANGED <<control, send>>
  BY QuietJobs, OwnerWaits DEF OwnerStep, AccountStep, vars
<1>2. ASSUME Start PROVE Jobs'
  BY <1>2 DEF Start, Jobs, InFlight
<1>3. ASSUME Stop PROVE Jobs'
  <2>1. send' = [send EXCEPT ![Worker] = NoJob] /\ control' = "stopped"
    BY <1>3 DEF Stop
  <2>2. send'[Worker] = NoJob
    BY <2>1, SendersAreTwo DEF Jobs
  <2> QED BY <2>1, <2>2, NoJobTyped, SendersAreTwo, JobKept DEF JobMove
<1>4. ASSUME BeginTest PROVE Jobs'
  <2> DEFINE job == [NoJob EXCEPT !.at = "begun"]
  <2>1. send[Test] = NoJob /\ send' = [send EXCEPT ![Test] = job] /\ control = "stopped" /\ control' = "testing"
    BY <1>4, SendersAreTwo DEF BeginTest, Idle, Jobs
  <2>2. job \in Job /\ job.at = "begun" /\ job # NoJob
    BY DEF Job, NoJob
  <2> HIDE DEF job
  <2>3. send'[Test] # NoJob /\ send'[Worker] = NoJob
    BY <2>1, <2>2, SendersAreTwo DEF Jobs
  <2> QED BY <2>1, <2>2, <2>3, SendersAreTwo, JobKept DEF JobMove
<1>5. ASSUME NEW q \in Senders, Claim(q) PROVE Jobs'
  <2>1. PICK r \in AllowedRoutes, job \in Job :
           /\ send' = [send EXCEPT ![q] = job]
           /\ job.at = "claimed" /\ job.id = r[1] /\ job.group = r[2]
    BY <1>5, ClaimedJob
  <2>2. r[1] \in Ids /\ r[2] \in Groups
    BY RouteIsLinked
  <2>3. UNCHANGED control /\ (q = Worker => control = "running") /\ (q = Test => send[Test].at = "begun")
    BY <1>5, SendersAreTwo DEF Claim
  <2>4. job # NoJob
    BY <2>1, NoJobTyped
  <2>5. (send'[Test] # NoJob \/ send'[Test] = send[Test]) /\ (send'[Worker] = send[Worker] \/ control = "running")
    BY <2>1, <2>3, <2>4, SendersAreTwo DEF Jobs
  <2> QED BY <2>1, <2>2, <2>3, <2>5, JobKept DEF JobMove, Jobs
<1>6. ASSUME NEW q \in Senders, Approve(q) \/ RetrySend(q) PROVE Jobs'
  <2>1. PICK job \in Job : /\ send' = [send EXCEPT ![q] = job]
                           /\ job.at \in {"claimed", "approved"} /\ job.id = send[q].id /\ job.group = send[q].group
    BY <1>6, ApprovedJob, RetriedJob
  <2>2. UNCHANGED control /\ InFlight(q)
    BY <1>6 DEF Approve, RetrySend, InFlight
  <2>3. job # NoJob /\ send[q] # NoJob
    BY <2>1, <2>2, NoJobTyped DEF InFlight
  <2>4. \A x \in Senders : send'[x] # NoJob <=> send[x] # NoJob
    BY <2>1, <2>3 DEF Jobs
  <2> QED BY <2>1, <2>2, <2>4, SendersAreTwo, JobKept DEF JobMove, Jobs
<1>7. ASSUME NEW q \in Senders, SendEnds(q) PROVE Jobs'
  <2>1. send' = [send EXCEPT ![q] = NoJob]
        /\ control' = IF q = Test /\ control = "testing" THEN "stopped" ELSE control
    BY <1>7 DEF SendEnds
  <2>2. \A x \in Senders : send'[x] = IF x = q THEN NoJob ELSE send[x]
    BY <2>1 DEF Jobs
  <2>3. control' = "testing" => q # Test /\ control = "testing"
    BY <2>1
  <2>4. send'[Worker] # NoJob => control' = "running"
    BY <2>1, <2>2, SendersAreTwo DEF Jobs
  <2> QED BY <2>1, <2>2, <2>3, <2>4, NoJobTyped, SendersAreTwo, JobKept DEF JobMove, Jobs
<1>8. ASSUME Restart PROVE Jobs'
  BY <1>8, NoJobTyped, SendersAreTwo DEF Restart, Jobs, InFlight
<1> QED BY <1>0, <1>1, <1>2, <1>3, <1>4, <1>5, <1>6, <1>7, <1>8 DEF Next, SendStep

--------------------------------------------------------------------------------
(* The worker's job: while it is there, its link, its account's number, the    *)
(* confirmation and the choice of a group stay as they are.                    *)

LEMMA WorkerHasJob == ASSUME Jobs, InFlight(Worker) PROVE ~OwnerActs
BY NoJobTyped, OwnerWaits DEF InFlight

LEMMA LinkStays ==
  ASSUME GroupTyped, Sound(books), Jobs, WorkerOnLink, InFlight(Worker), [Next]_vars
  PROVE  /\ <<send[Worker].id, send[Worker].group>> \in books'.links
         /\ books'.profile[send[Worker].id].phone = send[Worker].phone
<1> DEFINE i == send[Worker].id
           g == send[Worker].group
<1>1. i \in Ids /\ g \in Groups /\ <<i, g>> \in books.links /\ books.profile[i].phone = send[Worker].phone
      /\ books.profile[i] # NoProfile
  BY SendersAreTwo DEF Jobs, WorkerOnLink, InFlight, Row, Sound
<1> HIDE DEF i, g
<1>2. CASE Grows(books, books')
  BY <1>1, <1>2 DEF Grows, i, g
<1>3. CASE Removes
  <2>1. PICK h \in Groups, j \in Ids : DeleteOrphan(h, j)
    BY <1>3, QuietJobs, WorkerHasJob DEF Removes
  <2>2. CASE LinkedTo(books, j) = {}
    <3>1. j # i
      BY <1>1, <2>2 DEF LinkedTo
    <3>2. books' = RowDeleted(j)
      BY <2>1, <2>2 DEF DeleteOrphan
    <3>3. books'.links = {l \in books.links : l[1] # j} /\ books'.profile[i] = books.profile[i]
      BY <1>1, <3>1, <3>2 DEF RowDeleted, Sound, Books
    <3> QED BY <1>1, <3>1, <3>3 DEF i, g
  <2>3. CASE LinkedTo(books, j) # {}
    BY <1>1, <2>1, <2>3 DEF DeleteOrphan, i, g
  <2> QED BY <2>2, <2>3
<1> QED BY <1>2, <1>3, BooksStep DEF BooksMove

LEMMA MigrationLeaves ==
  ASSUME NEW who, NEW i \in Ids, NEW g \in Groups, Allows(scope, i, g) PROVE Allows(Migrated(who), i, g)
BY ScopeAssumption DEF Allows, Migrated, NoScope

LEMMA ChoiceStays ==
  ASSUME Jobs, InFlight(Worker), Next, ~Restart, WorkGroups, Sound(books)
  PROVE  UNCHANGED confirmed /\ \A i \in Ids, g \in Groups : Allows(scope, i, g) => Allows(scope', i, g)
<1>0. ~OwnerActs
  BY WorkerHasJob
<1>1. ASSUME OwnerStep PROVE UNCHANGED <<confirmed, scope>>
  <2>1. PICK g \in Groups : CleanupFails(g) \/ \E i \in Ids : DeleteOrphan(g, i)
    BY <1>0, <1>1, QuietJobs DEF OwnerStep
  <2> QED BY <2>1 DEF CleanupFails, DeleteOrphan, history
<1>2. ASSUME (\E i \in Ids : Activate(i)) \/ \E p \in Phones, h \in Groups : RouteVisitor(p, h)
      PROVE  UNCHANGED <<confirmed, scope>>
  BY <1>2 DEF Activate, RouteVisitor, history
<1>3. ASSUME NEW p \in Phones, NEW h \in Groups, Enrol(p, h)
      PROVE  UNCHANGED confirmed /\ \A i \in Ids, g \in Groups : Allows(scope, i, g) => Allows(scope', i, g)
  <2>1. PICK j \in Ids : IF scope[j].group = None
                         THEN scope' = [scope EXCEPT ![j] = [group |-> h, consent |-> "active"]]
                         ELSE UNCHANGED <<scope, chosen>>
    BY <1>3 DEF Enrol, Visited
  <2>2. \A i \in Ids : scope[i].group # None => scope'[i] = scope[i]
    BY <2>1 DEF WorkGroups, ScopeTyped
  <2>3. UNCHANGED confirmed
    BY <1>3 DEF Enrol
  <2> QED BY <2>2, <2>3, ScopeAssumption DEF Allows
<1>4. Stop \/ (\E q \in Senders : RetrySend(q) \/ SendEnds(q)) => UNCHANGED <<confirmed, scope>>
  BY DEF Stop, RetrySend, SendEnds, history
<1>5. ASSUME Start \/ BeginTest \/ \E q \in Senders : Claim(q) \/ Approve(q)
      PROVE  UNCHANGED confirmed /\ \E who : scope' = Migrated(who)
  BY <1>5 DEF Start, BeginTest, Claim, Approve, Materialize
<1>6. (\E who : scope' = Migrated(who)) => \A i \in Ids, g \in Groups : Allows(scope, i, g) => Allows(scope', i, g)
  BY MigrationLeaves
<1>7. UNCHANGED scope => \A i \in Ids, g \in Groups : Allows(scope, i, g) => Allows(scope', i, g)
  BY DEF Allows
<1> QED BY <1>1, <1>2, <1>3, <1>4, <1>5, <1>6, <1>7 DEF Next, AccountStep, SendStep

LEMMA ApprovalIsRight ==
  ASSUME GroupTyped, Destinations, Jobs, NEW q \in Senders, Approve(q)
  PROVE  /\ confirmed'[send[q].group] = <<send[q].rev, send'[q].chat>>
         /\ Allows(scope', send[q].id, send[q].group)
         /\ send'[q].id = send[q].id /\ send'[q].group = send[q].group
         /\ send'[q].phone = send[q].phone /\ send'[q].rev = send[q].rev
<1>1. PICK job \in Job :
        /\ send' = [send EXCEPT ![q] = job]
        /\ job.id = send[q].id /\ job.group = send[q].group
        /\ job.phone = send[q].phone /\ job.rev = send[q].rev
        /\ job.chat = group[send[q].group].chat
  BY ApprovedJob
<1>2. send'[q] = job /\ send[q].group \in Groups
  BY <1>1 DEF Jobs, Approve, InFlight
<1>3. /\ group[send[q].group].rev = send[q].rev /\ group[send[q].group].verified
      /\ Allows(scope', send[q].id, send[q].group) /\ UNCHANGED confirmed
  BY DEF Approve, Approved
<1> QED BY <1>1, <1>2, <1>3 DEF Destinations, ChatsAreConfirmed

\* The worker's job is new, goes on, or is none.
LEMMA WorkerMoves ==
  ASSUME Jobs, [Next]_vars
  PROVE  \/ Claim(Worker) \/ Approve(Worker) \/ RetrySend(Worker)
         \/ send'[Worker] = send[Worker] /\ ~Restart
         \/ send'[Worker] = NoJob
         \/ send'[Worker].at = "begun"
<1>1. OwnerStep \/ AccountStep \/ UNCHANGED vars => UNCHANGED send
  BY QuietJobs, OwnerWaits DEF OwnerStep, AccountStep, vars
<1>2. Start => UNCHANGED send
  BY DEF Start
<1>3. ASSUME NEW x \in {Test}, BeginTest \/ Claim(x) \/ Approve(x) \/ RetrySend(x) \/ SendEnds(x)
      PROVE  send'[Worker] = send[Worker]
  BY <1>3, SendersAreTwo DEF Jobs, BeginTest, Claim, Approve, RetrySend, SendEnds
<1>4. Stop \/ SendEnds(Worker) \/ Restart => send'[Worker] = NoJob
  BY SendersAreTwo DEF Jobs, Stop, SendEnds, Restart
<1> QED BY <1>1, <1>2, <1>3, <1>4, SendersAreTwo DEF Next, SendStep

LEMMA WorkerStep ==
  ASSUME GroupTyped, Sound(books), Destinations, WorkGroups, Jobs, WorkerOnLink, ApprovalHolds,
         [Next]_vars
  PROVE  WorkerOnLink' /\ ApprovalHolds'
<1>1. CASE send'[Worker] = NoJob
  BY <1>1, NoJobTyped DEF WorkerOnLink, ApprovalHolds
<1>2. ASSUME Claim(Worker) PROVE WorkerOnLink' /\ ApprovalHolds'
  <2>1. PICK r \in AllowedRoutes, job \in Job :
           /\ send' = [send EXCEPT ![Worker] = job]
           /\ job.at = "claimed" /\ job.id = r[1] /\ job.group = r[2] /\ job.phone = Row(r[1]).phone
    BY <1>2, ClaimedJob, SendersAreTwo
  <2>2. r \in books.links /\ r = <<r[1], r[2]>> /\ r[1] \in Ids /\ books.profile[r[1]] # NoProfile
    BY RouteIsLinked DEF Sound
  <2>3. Grows(books, books')
    <3>1. ~Removes
      <4>1. send[Worker] = NoJob /\ control = "running" /\ send'[Worker] # NoJob
        BY <1>2, <2>1, NoJobTyped, SendersAreTwo DEF Claim, Jobs
      <4> QED BY <4>1, QuietJobs, OwnerWaits DEF Removes
    <3> QED BY <3>1, BooksStep DEF BooksMove
  <2>4. r \in books'.links /\ books'.profile[r[1]].phone = Row(r[1]).phone
    BY <2>2, <2>3 DEF Grows, Row
  <2>5. send'[Worker] = job
    BY <2>1, SendersAreTwo DEF Jobs
  <2> QED BY <2>1, <2>2, <2>4, <2>5 DEF WorkerOnLink, ApprovalHolds, Row
<1>3. ASSUME InFlight(Worker), send'[Worker].id = send[Worker].id, send'[Worker].group = send[Worker].group,
             send'[Worker].phone = send[Worker].phone
      PROVE  WorkerOnLink'
  BY <1>3, LinkStays DEF WorkerOnLink, Row
<1>4. ASSUME RetrySend(Worker) PROVE WorkerOnLink' /\ ApprovalHolds'
  <2>1. PICK job \in Job : /\ send' = [send EXCEPT ![Worker] = job]
                           /\ job.at = "claimed" /\ job.id = send[Worker].id
                           /\ job.group = send[Worker].group /\ job.phone = send[Worker].phone
    BY <1>4, RetriedJob, SendersAreTwo
  <2>2. send'[Worker] = job /\ InFlight(Worker)
    BY <1>4, <2>1, SendersAreTwo DEF Jobs, RetrySend, InFlight
  <2> QED BY <1>3, <2>1, <2>2 DEF ApprovalHolds
<1>5. ASSUME Approve(Worker) PROVE WorkerOnLink' /\ ApprovalHolds'
  <2>1. InFlight(Worker)
    BY <1>5 DEF Approve, InFlight
  <2>2. /\ confirmed'[send[Worker].group] = <<send[Worker].rev, send'[Worker].chat>>
        /\ Allows(scope', send[Worker].id, send[Worker].group)
        /\ send'[Worker].id = send[Worker].id /\ send'[Worker].group = send[Worker].group
        /\ send'[Worker].phone = send[Worker].phone /\ send'[Worker].rev = send[Worker].rev
    BY <1>5, ApprovalIsRight, SendersAreTwo
  <2>3. books'.profile[send[Worker].id].phone = send[Worker].phone
    BY <2>1, LinkStays
  <2> QED BY <1>3, <2>1, <2>2, <2>3 DEF ApprovalHolds, Holding, Row, Allows
<1>6. ASSUME send'[Worker] = send[Worker], ~Restart PROVE WorkerOnLink' /\ ApprovalHolds'
  <2>1. WorkerOnLink'
    BY <1>3, <1>6 DEF WorkerOnLink, InFlight
  <2>2. ASSUME send'[Worker].at = "approved" PROVE Holding(Worker)'
    <3>1. InFlight(Worker) /\ Holding(Worker)
      BY <1>6, <2>2 DEF InFlight, ApprovalHolds
    <3>2. send[Worker].id \in Ids /\ send[Worker].group \in Groups
      BY <3>1, SendersAreTwo DEF Jobs
    <3>3. UNCHANGED confirmed /\ Allows(scope', send[Worker].id, send[Worker].group)
      <4>1. CASE Next
        BY <1>6, <3>1, <3>2, <4>1, ChoiceStays DEF Holding
      <4>2. CASE UNCHANGED vars
        BY <3>1, <4>2 DEF Holding, vars, history, Allows
      <4> QED BY <4>1, <4>2
    <3>4. books'.profile[send[Worker].id].phone = send[Worker].phone
      BY <3>1, LinkStays
    <3> QED BY <1>6, <3>1, <3>3, <3>4 DEF Holding, Row, Allows
  <2> QED BY <2>1, <2>2 DEF ApprovalHolds
<1>7. CASE send'[Worker].at = "begun"
  BY <1>7 DEF WorkerOnLink, ApprovalHolds
<1> QED BY <1>1, <1>2, <1>4, <1>5, <1>6, <1>7, WorkerMoves

--------------------------------------------------------------------------------
(* The invariant *)

OrphansTyped == orphans \in [Groups -> SUBSET Ids]

LEMMA OrphansStep == ASSUME OrphansTyped, [Next]_vars PROVE OrphansTyped'
<1>1. ASSUME NEW g \in Groups, NEW who \in SUBSET Ids, Unlink(g, who) PROVE OrphansTyped'
  <2>1. \E some \in SUBSET Ids : orphans' = [orphans EXCEPT ![g] = some]
    BY <1>1 DEF Unlink
  <2> QED BY <2>1 DEF OrphansTyped
<1>2. ASSUME NEW g \in Groups, DeleteGroup(g) \/ \E i \in Ids : RemoveProfile(i, g) PROVE OrphansTyped'
  <2>1. LinkedIn(books, g) \in SUBSET Ids
    BY DEF LinkedIn
  <2> QED BY <1>1, <1>2, <2>1 DEF DeleteGroup, RemoveProfile
<1>3. ASSUME NEW g \in Groups, CleanupFails(g) \/ \E i \in Ids : DeleteOrphan(g, i) PROVE OrphansTyped'
  <2>1. \E some \in SUBSET Ids : orphans' = [orphans EXCEPT ![g] = some]
    BY <1>3 DEF CleanupFails, DeleteOrphan, OrphansTyped
  <2> QED BY <2>1 DEF OrphansTyped
<1>4. Restart => OrphansTyped'
  BY DEF Restart, OrphansTyped
<1>5. UNCHANGED orphans => OrphansTyped'
  BY DEF OrphansTyped
<1>6. ASSUME NEW g \in Groups, AddGroup(g) \/ ChangeLink(g) \/ SetProxies(g) \/ SetActive(g) \/ Verify(g)
      PROVE  UNCHANGED orphans
  BY <1>6 DEF AddGroup, ChangeLink, SetProxies, SetActive, Verify
<1>7. ASSUME NEW i \in Ids, Disable(i) \/ Activate(i) \/ \E g \in Groups : SelectScope(i, g)
      PROVE  UNCHANGED orphans
  BY <1>7 DEF Disable, Activate, SelectScope
<1>8. ASSUME NEW p \in Phones, NEW g \in Groups, AddProfile(p, g) \/ RouteVisitor(p, g) \/ Enrol(p, g)
                                                   \/ \E q \in Phones : BulkAdd(p, q, g)
      PROVE  UNCHANGED orphans
  BY <1>8 DEF AddProfile, RouteVisitor, Enrol, BulkAdd
<1>9. SendStep \/ UNCHANGED vars => UNCHANGED orphans
  BY DEF SendStep, Start, Stop, BeginTest, Claim, Approve, RetrySend, SendEnds, vars
<1> QED BY <1>2, <1>3, <1>4, <1>5, <1>6, <1>7, <1>8, <1>9 DEF Next, OwnerStep, AccountStep

\* The invariant, as the lemmas above take it.
LEMMA InvParts ==
  ScopeInv <=> /\ Sound(books) /\ Destinations /\ WorkGroups /\ Jobs
               /\ WorkerOnLink /\ ApprovalHolds /\ OrphansTyped
<1>1. ScopeInv => GroupTyped /\ ScopeTyped /\ OrphansTyped
  BY DEF ScopeInv, ScopeTypeOK, Recorded, GroupTyped, ScopeTyped, OrphansTyped
<1>2. ScopeInv => Sound(books)
  BY DEF ScopeInv, ScopeTypeOK, Recorded, Sound, There, Row
<1>3. ScopeInv => Jobs
  BY DEF ScopeInv, ScopeTypeOK, Recorded, Jobs, InFlight
<1>4. ScopeInv => Destinations /\ WorkGroups /\ WorkerOnLink /\ ApprovalHolds
  BY <1>1 DEF ScopeInv, Recorded, Destinations, WorkGroups
<1>5. ASSUME Sound(books), Destinations, WorkGroups, Jobs, OrphansTyped PROVE Recorded
  BY <1>5 DEF Recorded, Sound, Destinations, WorkGroups, ScopeTyped, Jobs, InFlight, OrphansTyped, There, Row
<1>6. ASSUME Sound(books), Destinations, Jobs PROVE ScopeTypeOK
  <2>1. group \in [Groups -> [there : BOOLEAN, active : BOOLEAN, rev : Nat, chat : Chats \cup {None},
                              verified : BOOLEAN, proxies : SUBSET Proxies]]
    BY <1>6 DEF Destinations, GroupTyped
  <2>2. /\ \A i, j \in Ids : There(i) /\ Row(i).phone = Row(j).phone => i = j
        /\ \A l \in books.links : l \in Routes /\ There(l[1]) /\ group[l[2]].there
        /\ books.day \in [Ids -> (0..Days-1) \cup {None}]
    BY <1>6 DEF Sound, There, Row, Books
  <2> QED BY <1>6, <2>1, <2>2 DEF ScopeTypeOK, Jobs
<1>7. ASSUME Destinations, WorkGroups PROVE ChatsAreConfirmed /\ ScopeIsLinked /\ ScopeIsChosen
  BY <1>7 DEF Destinations, WorkGroups
<1> QED BY <1>1, <1>2, <1>3, <1>4, <1>5, <1>6, <1>7 DEF ScopeInv

LEMMA InvPartsAfter ==
  ScopeInv' <=> /\ Sound(books)' /\ Destinations' /\ WorkGroups' /\ Jobs'
                /\ WorkerOnLink' /\ ApprovalHolds' /\ OrphansTyped'
BY InvParts, PTL

LEMMA InitEstablishes == Init => ScopeInv
<1> SUFFICES ASSUME Init PROVE Sound(books) /\ Destinations /\ WorkGroups /\ Jobs
                               /\ WorkerOnLink /\ ApprovalHolds /\ OrphansTyped
  BY InvParts
<1> DEFINE g == CHOOSE h \in Groups : \A k \in Groups : h <= k
           Pick(list) == IF list = {} THEN None ELSE FirstOf(list)
<1>1. PICK p \in Phones, c \in Chats, list \in SUBSET Proxies :
        /\ group = [h \in Groups |-> IF h # g THEN NoGroup ELSE
              [there |-> TRUE, active |-> TRUE, rev |-> 1, chat |-> c, verified |-> TRUE, proxies |-> list]]
        /\ books = [profile |-> [i \in Ids |-> IF i = 1 THEN [phone |-> p, status |-> "active"] ELSE NoProfile],
                    links |-> {<<1, g>>},
                    day |-> [i \in Ids |-> IF i = 1 THEN 0 ELSE None],
                    proxy |-> [r \in Routes |-> IF r = <<1, g>> THEN Pick(list) ELSE None]]
        /\ confirmed = [h \in Groups |-> IF h = g THEN <<1, c>> ELSE <<0, None>>]
  BY DEF Init
<1>2. g \in Groups
  <2>1. Groups \subseteq Nat /\ Groups # {}
    BY ScopeAssumption
  <2> QED BY <2>1, LeastNumber
<1>3. Pick(list) \in Proxies \cup {None}
  <2>1. list \subseteq Nat /\ list \subseteq Proxies
    BY ScopeAssumption
  <2> QED BY <2>1, LeastNumber DEF FirstOf
<1>4. PICK x \in Proxies \cup {None} : x = Pick(list)
  BY <1>3
<1> HIDE DEF g, Pick
<1>5. 1 \in Ids /\ <<1, g>> \in Routes /\ 0 \in 0..Days-1
  BY <1>2, ScopeAssumption DEF Ids, Routes
<1>6. /\ NoProfile \in [phone : Phones \cup {None}, status : Statuses] /\ NoProfile.phone = None
      /\ [phone |-> p, status |-> "active"] \in [phone : Phones \cup {None}, status : Statuses]
      /\ [phone |-> p, status |-> "active"] # NoProfile /\ p # None
  BY ScopeAssumption DEF NoProfile, Statuses
<1>7. books \in Books
  BY <1>1, <1>4, <1>5, <1>6 DEF Books
<1>8. /\ \A i \in Ids : books.profile[i] = IF i = 1 THEN [phone |-> p, status |-> "active"] ELSE NoProfile
      /\ books.links = {<<1, g>>}
  BY <1>1
<1>9. GroupTyped /\ group[g].there /\ DOMAIN confirmed = Groups
  BY <1>1, <1>2, NoGroupTyped DEF GroupTyped
<1>10. Sound(books)
  <2>1. \A i \in Ids : books.profile[i] # NoProfile => i = 1 /\ books.profile[i].phone = p
    BY <1>8
  <2>2. \A j \in Ids : books.profile[j].phone = p => j = 1
    BY <1>6, <1>8
  <2>3. \A l \in books.links : l \in Routes /\ books.profile[l[1]] # NoProfile /\ group[l[2]].there
    BY <1>5, <1>6, <1>8, <1>9
  <2> QED BY <1>7, <2>1, <2>2, <2>3 DEF Sound
<1>11. ChatsAreConfirmed
  <2>1. ~NoGroup.verified /\ NoGroup.chat = None
    BY DEF NoGroup
  <2> QED BY <1>1, <1>2, <2>1 DEF ChatsAreConfirmed
<1>12. WorkGroups
  BY DEF Init, WorkGroups, ScopeTyped, ScopeIsLinked, ScopeIsChosen, NoScope
<1>13. Jobs /\ WorkerOnLink /\ ApprovalHolds /\ OrphansTyped
  <2>1. control = "stopped" /\ send = [q \in Senders |-> NoJob] /\ orphans = [h \in Groups |-> {}]
    BY DEF Init
  <2> QED BY <2>1, NoJobTyped, SendersAreTwo DEF Jobs, InFlight, WorkerOnLink, ApprovalHolds, OrphansTyped
<1> QED BY <1>9, <1>10, <1>11, <1>12, <1>13 DEF Destinations

LEMMA StepPreserves == ScopeInv /\ [Next]_vars => ScopeInv'
<1> SUFFICES ASSUME ScopeInv, [Next]_vars PROVE ScopeInv'
  OBVIOUS
<1>1. Sound(books) /\ Destinations /\ WorkGroups /\ Jobs /\ WorkerOnLink /\ ApprovalHolds /\ OrphansTyped
  BY InvParts
<1>2. GroupTyped
  BY <1>1 DEF Destinations
<1>3. Sound(books)'
  BY <1>1, <1>2, BooksStep DEF BooksMove
<1>4. Destinations' /\ WorkGroups' /\ Jobs' /\ WorkerOnLink' /\ ApprovalHolds' /\ OrphansTyped'
  BY <1>1, <1>2, DestinationsStep, WorkGroupsStep, JobsStep, WorkerStep, OrphansStep
<1> QED BY <1>3, <1>4, InvPartsAfter

THEOREM Invariance == Spec => []ScopeInv
BY InitEstablishes, StepPreserves, PTL DEF Spec

--------------------------------------------------------------------------------
(* What it gives *)

\* Rows, links, weekdays and jobs are well formed: a number belongs to one id,
\* a link joins a profile and a group that exist, and the worker has a job only
\* while the campaign runs.
THEOREM ScopeTypeCorrect == Spec => []ScopeTypeOK
<1>1. ScopeInv => ScopeTypeOK
  BY DEF ScopeInv
<1> QED BY <1>1, Invariance, PTL

\* A verified destination is the chat that was confirmed for this very link.
THEOREM DestinationsAreConfirmed == Spec => []VerifiedWasConfirmed
<1>1. ScopeInv => VerifiedWasConfirmed
  BY DEF ScopeInv, ChatsAreConfirmed, VerifiedWasConfirmed
<1> QED BY <1>1, Invariance, PTL

\* The worker's approval outlasts everything its owner can do meanwhile.
THEOREM ApprovalStands == Spec => []ApprovalHolds
<1>1. ScopeInv => ApprovalHolds
  BY DEF ScopeInv
<1> QED BY <1>1, Invariance, PTL

LEMMA OnlyApproveApproves ==
  ASSUME Jobs, [Next]_vars, NEW q \in Senders, send[q].at = "claimed", send'[q].at = "approved"
  PROVE  Approve(q)
<1>1. OwnerStep \/ AccountStep \/ Start \/ UNCHANGED vars => UNCHANGED send
  BY QuietJobs, OwnerWaits DEF OwnerStep, AccountStep, Start, vars
<1>2. ASSUME NEW x \in Senders, Claim(x) PROVE send'[q].at # "approved"
  <2>1. PICK job : send' = [send EXCEPT ![x] = job] /\ job.at = "claimed"
    <3>1. \E job : send' = [send EXCEPT ![x] = job] /\ job.at = "claimed"
      BY <1>2 DEF Claim, NoJob
    <3> QED BY <3>1
  <2> QED BY <2>1 DEF Jobs
<1>3. ASSUME NEW x \in Senders, RetrySend(x) \/ SendEnds(x) PROVE send'[q].at # "approved"
  BY <1>3 DEF Jobs, RetrySend, SendEnds, NoJob, Job
<1>4. Stop \/ Restart \/ BeginTest => send'[q].at # "approved"
  BY SendersAreTwo DEF Jobs, Stop, Restart, BeginTest, NoJob, Job
<1>5. ASSUME NEW x \in Senders, x # q, Approve(x) PROVE send'[q] = send[q]
  BY <1>5 DEF Jobs, Approve
<1> QED BY <1>1, <1>2, <1>3, <1>4, <1>5 DEF Next, SendStep

\* No send, the test's included, is ever approved for another chat than the one
\* confirmed for the link it was claimed with, or for a group nobody chose.
THEOREM SendsAreNotRedirected == Spec => NoSilentRedirect
<1>1. ASSUME ScopeInv, ScopeInv', [Next]_vars, NEW q \in Senders,
             send[q].at = "claimed", send'[q].at = "approved"
      PROVE  /\ confirmed[send[q].group] = <<send[q].rev, send'[q].chat>>
             /\ <<Row(send[q].id).phone, send[q].group>> \in chosen'
  <2>1. Destinations /\ Jobs /\ GroupTyped /\ WorkGroups'
    BY <1>1, InvParts, InvPartsAfter DEF Destinations
  <2>2. Approve(q)
    BY <1>1, <2>1, OnlyApproveApproves
  <2>3. /\ confirmed'[send[q].group] = <<send[q].rev, send'[q].chat>>
        /\ Allows(scope', send[q].id, send[q].group)
    BY <2>1, <2>2, ApprovalIsRight
  <2>4. UNCHANGED <<books, confirmed>> /\ send[q].id \in Ids /\ send[q].group \in Groups
    BY <2>1, <2>2 DEF Approve, Jobs, InFlight
  <2>5. <<Row(send[q].id).phone, send[q].group>> \in chosen'
    <3>1. scope'[send[q].id].group # None /\ scope'[send[q].id].consent = "active"
      BY <2>3, <2>4, ScopeAssumption DEF Allows
    <3> QED BY <2>1, <2>3, <2>4, <3>1 DEF WorkGroups, ScopeIsChosen, Row, Allows
  <2> QED BY <2>3, <2>4, <2>5
<1>2. ScopeInv /\ ScopeInv' /\ [Next]_vars =>
        [\A q \in Senders : send[q].at = "claimed" /\ send'[q].at = "approved" =>
            /\ confirmed[send[q].group] = <<send[q].rev, send'[q].chat>>
            /\ <<Row(send[q].id).phone, send[q].group>> \in chosen']_vars
  BY <1>1
<1> QED BY <1>2, Invariance, PTL DEF Spec, NoSilentRedirect

\* Weekdays never change, and proxies only when the group's list loses them.
THEOREM AssignmentsAreKept == Spec => AssignmentsStick
<1>1. ScopeInv /\ [Next]_vars =>
        [\A i \in Ids : /\ books.day[i] # None => books'.day[i] = books.day[i]
                        /\ \A g \in Groups : books.proxy[<<i, g>>] \in group'[g].proxies
                               => books'.proxy[<<i, g>>] = books.proxy[<<i, g>>]]_vars
  <2> SUFFICES ASSUME ScopeInv, [Next]_vars
               PROVE  \A i \in Ids : /\ books.day[i] # None => books'.day[i] = books.day[i]
                                     /\ \A g \in Groups : books.proxy[<<i, g>>] \in group'[g].proxies
                                            => books'.proxy[<<i, g>>] = books.proxy[<<i, g>>]
    OBVIOUS
  <2>1. Sound(books) /\ GroupTyped
    BY InvParts DEF Destinations
  <2>2. Sticks(books, books', NewLists)
    BY <2>1, BooksStep DEF BooksMove
  <2> QED BY <2>2 DEF Sticks, NewLists
<1> QED BY <1>1, Invariance, PTL DEF Spec, AssignmentsStick
================================================================================

------------------------- MODULE SessionFilesProofs -------------------------
(* An account's session files for any number of logins, sends, promotions   *)
(* and process deaths, as long as no cleanup runs beside the event loop: no *)
(* step removes the last session that worked, and what a failed operation   *)
(* moved aside is back when it ends.                                        *)
EXTENDS SessionFiles, SequenceTheorems, TLAPS

--------------------------------------------------------------------------------
(* The inductive invariant: who runs *)

PCs == {"idle", "waiting", "online", "done", "lost"} \cup Working
Jobs == [pc : PCs, moved : [db : Contents, enc : Contents], cancelled : BOOLEAN, good : BOOLEAN]

Busy(o) == op[o].pc \in Working
MovedAny(o) == HasDb(o) \/ HasEnc(o)
Held == {"unsealing", "online", "sealing"}

FilesTypeOK ==
    /\ files \in [Names -> Contents] /\ op \in [Ops -> Jobs]
    /\ rows \in [Promotions -> {"none", "promoting", "promoted", "complete", "restored"}]
    /\ booting \in BOOLEAN /\ cleanups \in Nat

\* A cleanup runs for a half-done promotion before anything else does, and one
\* coroutine at most is between two awaits: what is left to do is its own.
Alone ==
    /\ cleaner # NoCleaner =>
          booting /\ \E p \in Promotions : HalfDone(p) /\ cleaner = [of |-> p, script |-> cleaner.script]
    /\ booting => script = <<>> /\ \A o \in Ops : Inactive(o)
    /\ \A o, p \in Ops : Busy(o) /\ Busy(p) => o = p
    /\ script # <<>> => \E o \in Ops : Busy(o)

Locked == \A o \in Ops : op[o].pc \in Held \/ (o \in Promotions /\ ~Inactive(o)) => holder = o

LoginsYield ==
    \A l, k \in Logins : l # k /\ ~Inactive(l) /\ ~Inactive(k) => op[l].cancelled \/ op[k].cancelled

\* What an operation has behind it at each point.
Sound(o) ==
    /\ op[o].moved.db # o /\ op[o].moved.enc # o
    /\ MovedAny(o) => o \in Fresh \cup Promotions /\ op[o].pc # "idle"
    /\ op[o].pc \in {"staging", "installing"} => ~op[o].good /\ o \in Fresh \cup Promotions
    /\ op[o].pc \in {"idle", "waiting", "unsealing", "online"} => ~op[o].good
    /\ op[o].pc = "discarding" => op[o].good
    /\ o \in Promotions =>
          /\ op[o].pc # "waiting"
          /\ rows[o] = "complete" => op[o].pc \in {"discarding", "done", "lost"}
          /\ op[o].pc = "discarding" => rows[o] = "complete"
    /\ o \notin Promotions =>
          op[o].pc # "installing" /\ (op[o].pc = "restoring" => ~op[o].good)

--------------------------------------------------------------------------------
(* The inductive invariant: the files *)

\* A token on the disk is of a session that worked, or of a promotion.
Early == {"idle", "staging", "installing"}
Earned == \A n \in Names : files[n] \in {None, "blank"} \cup Proven
                                        \cup {p \in Promotions : op[p].pc \notin Early}

\* Sealing d over e, or putting the two back, loses no session that worked.
Pair(d, e) == d \in Promotions \ Proven => e \notin Proven

PairsSafe ==
    /\ Pair(files.dbOld, files.encOld)
    /\ (booting => \A p \in Promotions : ~HalfDone(p)) => Pair(files.db, files.enc)

Backup(o) == files.dbOld = op[o].moved.db /\ files.encOld = op[o].moved.enc
Unused == {None, "blank"}

Staging(o) ==
    \/ /\ script = When(HasDb(o), Move("db", "dbOld"), When(HasEnc(o), Move("enc", "encOld"), <<>>))
       /\ files.db = op[o].moved.db /\ files.enc = op[o].moved.enc
       /\ files.dbOld = None /\ files.encOld = None
    \/ /\ script = When(HasEnc(o), Move("enc", "encOld"), <<>>)
       /\ HasDb(o) /\ files.db = None /\ files.enc = op[o].moved.enc
       /\ files.dbOld = op[o].moved.db /\ files.encOld = None
       /\ Pair(files.dbOld, files.enc)
    \/ script = <<>> /\ files.db = None /\ files.enc = None /\ Backup(o)

Unsealing ==
    \/ script = <<Blank("db"), Copy("enc", "db")>> /\ files.db = None
    \/ script = <<Copy("enc", "db")>> /\ files.db = "blank"
    \/ script = <<>>

Sealing ==
    \/ /\ script = <<Copy("db", "enc"), Unlink("db")>>
       /\ files.db # None /\ (files.enc = None \/ HasToken(files.db))
    \/ script = <<Unlink("db")>> /\ (files.enc = files.db \/ files.db = "blank")
    \/ script = <<>> /\ files.db = None

Restoring(o) ==
    \/ /\ script = Restore(o) /\ Backup(o)
       /\ files.db \in Unused /\ files.enc \in Unused \cup {o}
    \/ /\ script = When(HasEnc(o), Unlink("enc"), Back(o)) /\ Backup(o)
       /\ HasDb(o) /\ files.db = None /\ files.enc \in Unused \cup {o}
    \/ /\ script = Back(o) /\ Backup(o) /\ HasEnc(o) /\ files.enc = None
       /\ files.db \in Unused /\ (HasDb(o) => files.db = None)
    \/ /\ script = When(HasDb(o), Move("dbOld", "db"), <<>>)
       /\ files.dbOld = op[o].moved.db /\ HasEnc(o) /\ files.enc = op[o].moved.enc
       /\ files.db \in Unused /\ (HasDb(o) => files.db = None)
       /\ Pair(files.dbOld, files.enc)
    \/ /\ script = <<>>
       /\ HasDb(o) => files.db = op[o].moved.db
       /\ HasEnc(o) => files.enc = op[o].moved.enc

Phase(o) ==
    /\ At(o, "staging") => Staging(o)
    /\ At(o, "installing") => script = <<>> /\ files.db = None /\ files.enc = None /\ Backup(o)
    /\ At(o, "unsealing") => Unsealing
    /\ At(o, "sealing") => Sealing
    /\ At(o, "restoring") => IF MovedAny(o) THEN Restoring(o) ELSE script = <<>>
    /\ At(o, "discarding") => /\ script \in {Discard(o), <<Unlink("encOld")>>, <<>>}
                              /\ MovedAny(o) => files.enc = o
                              /\ ~MovedAny(o) => script = <<>>

\* What is moved aside stays there while the operation that moved it works, and
\* what it replaces it with is its own.
Kept(o) ==
    MovedAny(o) /\ op[o].pc \in Held \cup {"waiting"} =>
        /\ Backup(o)
        /\ o \in Promotions => files.enc = o /\ files.db \in Unused \cup {o}
        /\ o \notin Promotions =>
              IF op[o].good
              THEN IF script = <<Copy("db", "enc"), Unlink("db")>> THEN files.db = o ELSE files.enc = o
              ELSE files.db \in Unused /\ files.enc \in Unused

\* A promotion that found no session: the only one there is is its own.
Bare(o) ==
    o \in Promotions /\ ~MovedAny(o) /\ op[o].pc \in Held =>
        /\ \A n \in Names : files[n] \in Unused \cup {o}
        /\ At(o, "unsealing") => files.dbOld = None /\ files.encOld = None

OneBackup ==
    \A o, p \in Ops : MovedAny(o) /\ MovedAny(p) /\ ~Inactive(o) /\ ~Inactive(p) => o = p

Recovering ==
    cleaner # NoCleaner =>
        \/ cleaner.script = <<Unlink("db"), Move("dbOld", "db"), Unlink("enc"), Move("encOld", "enc")>>
        \/ /\ cleaner.script = <<Move("dbOld", "db"), Unlink("enc"), Move("encOld", "enc")>>
           /\ files.db = None
        \/ /\ cleaner.script = <<Unlink("enc"), Move("encOld", "enc")>>
           /\ files.dbOld = None /\ Pair(files.db, files.encOld)
        \/ /\ cleaner.script = <<Move("encOld", "enc")>>
           /\ files.enc = None /\ Pair(files.db, files.encOld)
        \/ cleaner.script = <<>> /\ Pair(files.db, files.enc)

RunInv == FilesTypeOK /\ Alone /\ Locked /\ LoginsYield /\ \A o \in Ops : Sound(o)
FilesInv == /\ Earned /\ PairsSafe /\ OneBackup /\ Recovering
            /\ \A o \in Ops : Phase(o) /\ Kept(o) /\ Bare(o)
Inv == RunInv /\ FilesInv

--------------------------------------------------------------------------------
(* Scripts and file operations *)

Steps == [do : {"remove", "move", "copy", "blank"}, from : Names, to : Names]

LEMMA StepTypes ==
  ASSUME NEW f \in Names, NEW g \in Names
  PROVE  Unlink(f) \in Steps /\ Move(f, g) \in Steps /\ Copy(f, g) \in Steps /\ Blank(f) \in Steps
BY DEF Unlink, Move, Copy, Blank, Steps

LEMMA Unlinks ==
  ASSUME NEW f \in Names, NEW fs
  PROVE  Done(Unlink(f), fs) = [fs EXCEPT ![f] = None]
BY DEF Done, Unlink

LEMMA Blanks ==
  ASSUME NEW f \in Names, NEW fs
  PROVE  Done(Blank(f), fs) = [fs EXCEPT ![f] = "blank"]
BY DEF Done, Blank

LEMMA Copies ==
  ASSUME NEW f \in Names, NEW g \in Names, NEW fs
  PROVE  Done(Copy(f, g), fs) = [fs EXCEPT ![g] = fs[f]]
BY DEF Done, Copy

LEMMA Moves ==
  ASSUME NEW f \in Names, NEW g \in Names, NEW fs
  PROVE  Done(Move(f, g), fs) = IF fs[f] = None THEN fs ELSE [fs EXCEPT ![g] = fs[f], ![f] = None]
BY DEF Done, Move

\* The two moves that put a pair of files back, as they are used below.
LEMMA MovesBack ==
  ASSUME NEW fs
  PROVE  /\ Done(Move("dbOld", "db"), fs) =
               IF fs["dbOld"] = None THEN fs ELSE [fs EXCEPT !["db"] = fs["dbOld"], !["dbOld"] = None]
         /\ Done(Move("encOld", "enc"), fs) =
               IF fs["encOld"] = None THEN fs ELSE [fs EXCEPT !["enc"] = fs["encOld"], !["encOld"] = None]
<1>1. {"db", "enc", "dbOld", "encOld"} \subseteq Names
  BY DEF Names
<1>2. Done(Move("dbOld", "db"), fs) =
        IF fs["dbOld"] = None THEN fs ELSE [fs EXCEPT !["db"] = fs["dbOld"], !["dbOld"] = None]
  BY <1>1, Moves
<1>3. Done(Move("encOld", "enc"), fs) =
        IF fs["encOld"] = None THEN fs ELSE [fs EXCEPT !["enc"] = fs["encOld"], !["encOld"] = None]
  BY <1>1, Moves
<1> QED BY <1>2, <1>3

\* A script is done from its head.
LEMMA FirstOf ==
  \A step \in Steps, rest \in Seq(Steps) :
      /\ <<step>> \o rest \in Seq(Steps) /\ <<step>> \o rest # <<>>
      /\ Head(<<step>> \o rest) = step /\ Tail(<<step>> \o rest) = rest
<1> SUFFICES ASSUME NEW S, NEW step \in S, NEW rest \in Seq(S)
             PROVE  /\ <<step>> \o rest \in Seq(S) /\ <<step>> \o rest # <<>>
                    /\ Head(<<step>> \o rest) = step /\ Tail(<<step>> \o rest) = rest
  OBVIOUS
<1> QED OBVIOUS

LEMMA StageScript ==
  ASSUME NEW o
  PROVE  LET second == When(HasEnc(o), Move("enc", "encOld"), <<>>)
             first == When(HasDb(o), Move("db", "dbOld"), second)
         IN /\ HasEnc(o) => /\ second # <<>>
                            /\ Head(second) = Move("enc", "encOld") /\ Tail(second) = <<>>
            /\ ~HasEnc(o) => second = <<>>
            /\ HasDb(o) => /\ first # <<>>
                           /\ Head(first) = Move("db", "dbOld") /\ Tail(first) = second
            /\ ~HasDb(o) => first = second
<1> DEFINE second == When(HasEnc(o), Move("enc", "encOld"), <<>>)
           first == When(HasDb(o), Move("db", "dbOld"), second)
<1>1. Move("db", "dbOld") \in Steps /\ Move("enc", "encOld") \in Steps /\ <<>> \in Seq(Steps)
  BY StepTypes DEF Names
<1>2. HasEnc(o) => /\ second \in Seq(Steps) /\ second # <<>>
                   /\ Head(second) = Move("enc", "encOld") /\ Tail(second) = <<>>
  <2>1. HasEnc(o) => second = <<Move("enc", "encOld")>> \o <<>>
    BY DEF When
  <2> QED BY <1>1, <2>1, FirstOf
<1>3. ~HasEnc(o) => second = <<>>
  BY DEF When
<1>4. HasDb(o) => first # <<>> /\ Head(first) = Move("db", "dbOld") /\ Tail(first) = second
  <2>1. HasDb(o) => first = <<Move("db", "dbOld")>> \o second
    BY DEF When
  <2> HIDE DEF first, second
  <2> QED BY <1>1, <1>2, <1>3, <2>1, FirstOf
<1>5. ~HasDb(o) => first = second
  BY DEF When
<1> QED BY <1>2, <1>3, <1>4, <1>5

LEMMA RestoreScript ==
  ASSUME NEW o
  PROVE  LET last == When(HasDb(o), Move("dbOld", "db"), <<>>)
             rest == When(HasEnc(o), Unlink("enc"), Back(o))
         IN /\ HasDb(o) => last # <<>> /\ Head(last) = Move("dbOld", "db") /\ Tail(last) = <<>>
            /\ ~HasDb(o) => last = <<>>
            /\ HasEnc(o) => /\ Back(o) # <<>>
                            /\ Head(Back(o)) = Move("encOld", "enc") /\ Tail(Back(o)) = last
            /\ ~HasEnc(o) => Back(o) = last
            /\ HasEnc(o) => rest # <<>> /\ Head(rest) = Unlink("enc") /\ Tail(rest) = Back(o)
            /\ ~HasEnc(o) => rest = Back(o)
            /\ HasDb(o) => /\ Restore(o) # <<>>
                           /\ Head(Restore(o)) = Unlink("db") /\ Tail(Restore(o)) = rest
            /\ ~HasDb(o) => Restore(o) = rest
<1> DEFINE last == When(HasDb(o), Move("dbOld", "db"), <<>>)
           rest == When(HasEnc(o), Unlink("enc"), Back(o))
<1>1. /\ Move("dbOld", "db") \in Steps /\ Move("encOld", "enc") \in Steps
      /\ Unlink("db") \in Steps /\ Unlink("enc") \in Steps /\ <<>> \in Seq(Steps)
  BY StepTypes DEF Names
<1>2. HasDb(o) => /\ last \in Seq(Steps) /\ last # <<>>
                  /\ Head(last) = Move("dbOld", "db") /\ Tail(last) = <<>>
  <2>1. HasDb(o) => last = <<Move("dbOld", "db")>> \o <<>>
    BY DEF When
  <2> QED BY <1>1, <2>1, FirstOf
<1>3. ~HasDb(o) => last = <<>>
  BY DEF When
<1>4. last \in Seq(Steps)
  BY <1>1, <1>2, <1>3
<1>5. /\ Back(o) \in Seq(Steps)
      /\ HasEnc(o) => /\ Back(o) # <<>>
                      /\ Head(Back(o)) = Move("encOld", "enc") /\ Tail(Back(o)) = last
      /\ ~HasEnc(o) => Back(o) = last
  <2>1. HasEnc(o) => Back(o) = <<Move("encOld", "enc")>> \o last
    BY DEF Back, When
  <2>2. ~HasEnc(o) => Back(o) = last
    BY DEF Back, When
  <2> HIDE DEF last
  <2> QED BY <1>1, <1>4, <2>1, <2>2, FirstOf
<1>6. /\ rest \in Seq(Steps)
      /\ HasEnc(o) => rest # <<>> /\ Head(rest) = Unlink("enc") /\ Tail(rest) = Back(o)
      /\ ~HasEnc(o) => rest = Back(o)
  <2>1. HasEnc(o) => rest = <<Unlink("enc")>> \o Back(o)
    BY DEF When
  <2>2. ~HasEnc(o) => rest = Back(o)
    BY DEF When
  <2> HIDE DEF rest
  <2> QED BY <1>1, <1>5, <2>1, <2>2, FirstOf
<1>7. HasDb(o) => Restore(o) # <<>> /\ Head(Restore(o)) = Unlink("db") /\ Tail(Restore(o)) = rest
  <2>1. HasDb(o) => Restore(o) = <<Unlink("db")>> \o rest
    BY DEF Restore, When
  <2> HIDE DEF rest
  <2> QED BY <1>1, <1>6, <2>1, FirstOf
<1>8. ~HasDb(o) => Restore(o) = rest
  BY DEF Restore, When
<1> QED BY <1>2, <1>3, <1>5, <1>6, <1>7, <1>8

LEMMA DiscardScript ==
  ASSUME NEW o
  PROVE  LET second == When(HasEnc(o), Unlink("encOld"), <<>>)
         IN /\ second \in {<<Unlink("encOld")>>, <<>>}
            /\ Discard(o) \in {<<Unlink("dbOld")>> \o second, second}
            /\ ~MovedAny(o) => Discard(o) = <<>>
<1>1. <<Unlink("encOld")>> \o <<>> = <<Unlink("encOld")>>
  OBVIOUS
<1> QED BY <1>1 DEF Discard, When, MovedAny

LEMMA Pairs ==
  ASSUME NEW x, NEW y
  PROVE  /\ <<x, y>> # <<>> /\ Head(<<x, y>>) = x /\ Tail(<<x, y>>) = <<y>>
         /\ <<x>> # <<>> /\ Head(<<x>>) = x /\ Tail(<<x>>) = <<>>
OBVIOUS

LEMMA Longer ==
  ASSUME NEW x, NEW y, NEW z, NEW w
  PROVE  /\ Head(<<x, y, z, w>>) = x /\ Tail(<<x, y, z, w>>) = <<y, z, w>>
         /\ Head(<<x, y, z>>) = x /\ Tail(<<x, y, z>>) = <<y, z>>
         /\ <<x, y, z, w>> # <<>> /\ <<x, y, z>> # <<>>
OBVIOUS

--------------------------------------------------------------------------------
(* What the steps of one operation leave alone *)

LEMMA Tokens ==
  /\ None \notin Proven /\ "blank" \notin Proven /\ None # "blank"
  /\ \A o \in Ops : o \notin Unused /\ o # "first"
BY FilesAssumption DEF Proven, Ops, Logins, Unused

LEMMA Going ==
  ASSUME FilesTypeOK, NEW o \in Ops, NEW c \in PCs, Goto(o, c)
  PROVE  /\ op' \in [Ops -> Jobs]
         /\ op'[o].pc = c /\ op'[o].moved = op[o].moved
         /\ op'[o].cancelled = op[o].cancelled /\ op'[o].good = op[o].good
         /\ \A p \in Ops : p # o => op'[p] = op[p]
<1>1. op[o] \in Jobs
  BY DEF FilesTypeOK
<1>2. [op[o] EXCEPT !.pc = c] \in Jobs
  BY <1>1 DEF Jobs
<1>3. op' = [op EXCEPT ![o] = [op[o] EXCEPT !.pc = c]]
  BY DEF Goto
<1>4. op'[o] = [op[o] EXCEPT !.pc = c]
  BY <1>3 DEF FilesTypeOK
<1> QED BY <1>1, <1>2, <1>3, <1>4 DEF FilesTypeOK, Jobs

LEMMA RunsAlone ==
  ASSUME Alone, NEW o \in Ops, Runs(o), \A p \in Ops : p # o => op'[p] = op[p],
         UNCHANGED <<cleaner, booting>>, script' # <<>> => Busy(o)'
  PROVE  Alone'
<1>1. ~booting /\ cleaner = NoCleaner /\ \A p \in Ops : p # o => ~Busy(p)
  BY DEF Alone, Runs, Busy
<1>2. \A p \in Ops : p # o => ~Busy(p)'
  BY <1>1 DEF Busy
<1> QED BY <1>1, <1>2 DEF Alone

LEMMA OthersSound ==
  ASSUME NEW o \in Ops, \A p \in Ops : p # o => op'[p] = op[p],
         \A p \in Promotions : p # o => rows'[p] = rows[p],
         \A p \in Ops : Sound(p), Sound(o)'
  PROVE  \A p \in Ops : Sound(p)'
<1> SUFFICES ASSUME NEW p \in Ops, p # o PROVE Sound(p)'
  OBVIOUS
<1> QED BY DEF Sound, MovedAny, HasDb, HasEnc

\* A step of one operation that leaves the files alone.
LEMMA OthersStay ==
  ASSUME Inv, NEW o \in Ops, Runs(o), \A p \in Ops : p # o => op'[p] = op[p],
         UNCHANGED <<files, cleaner, booting>>, Phase(o)', Kept(o)', Bare(o)'
  PROVE  /\ ~booting /\ Recovering'
         /\ \A p \in Ops : Phase(p)' /\ Kept(p)' /\ Bare(p)'
<1> USE DEF Inv, RunInv, FilesInv
<1>1. ~booting /\ cleaner = NoCleaner /\ \A p \in Ops : p # o => ~Busy(p)
  BY DEF Alone, Runs, Busy
<1>2. Recovering'
  BY <1>1 DEF Recovering
<1>3. ASSUME NEW p \in Ops, p # o
      PROVE  Phase(p)' /\ Kept(p)' /\ Bare(p)'
  <2>1. Phase(p)'
    BY <1>1, <1>3 DEF Phase, Busy, Working, At
  <2>2. Kept(p)'
    <3>1. op[p].pc \in Held \cup {"waiting"} => ~op[p].good
      BY <1>1, <1>3 DEF Sound, Busy, Held, Working
    <3> QED BY <1>3, <3>1 DEF Kept, Backup, MovedAny, HasDb, HasEnc
  <2>3. Bare(p)'
    BY <1>3 DEF Bare, MovedAny, HasDb, HasEnc, At
  <2> QED BY <2>1, <2>2, <2>3
<1> QED BY <1>1, <1>2, <1>3

LEMMA EarnedStays ==
  ASSUME Earned, NEW o \in Ops, \A p \in Ops : p # o => op'[p] = op[p], files' = files,
         op'[o].pc \in Early => op[o].pc \in Early, Proven \subseteq Proven'
  PROVE  Earned'
<1> SUFFICES ASSUME NEW n \in Names
             PROVE  files[n] \in {None, "blank"} \cup Proven'
                                 \cup {p \in Promotions : op'[p].pc \notin Early}
  BY DEF Earned
<1>1. \A p \in Promotions : op[p].pc \notin Early => op'[p].pc \notin Early
  BY DEF Ops
<1> QED BY <1>1 DEF Earned

\* ... nor changes what is proven, nor what it has moved aside.
LEMMA FilesStay ==
  ASSUME Inv, NEW o \in Ops, Runs(o), \A p \in Ops : p # o => op'[p] = op[p],
         op'[o].moved = op[o].moved, Proven' = Proven, UNCHANGED <<files, cleaner, booting>>,
         op'[o].pc \in Early => op[o].pc \in Early,
         Inactive(o) => Inactive(o)' \/ ~MovedAny(o),
         Phase(o)', Kept(o)', Bare(o)'
  PROVE  FilesInv'
<1> USE DEF Inv, RunInv, FilesInv
<1>1. ~booting /\ Recovering' /\ \A p \in Ops : Phase(p)' /\ Kept(p)' /\ Bare(p)'
  BY OthersStay
<1>2. Earned'
  BY EarnedStays
<1>3. PairsSafe'
  BY <1>1 DEF PairsSafe, Pair
<1>4. OneBackup'
  BY DEF OneBackup, MovedAny, HasDb, HasEnc, Inactive
<1> QED BY <1>1, <1>2, <1>3, <1>4

\* A step of an operation to its next point.
LEMMA GoingOn ==
  ASSUME RunInv, NEW o \in Ops, NEW c \in PCs, Runs(o), Inactive(o) => c = "done", Goto(o, c),
         UNCHANGED <<files, cleaner, booting, cleanups>>,
         rows' \in [Promotions -> {"none", "promoting", "promoted", "complete", "restored"}],
         \A p \in Promotions : p # o => rows'[p] = rows[p],
         script' # <<>> => c \in Working, Sound(o)', Locked'
  PROVE  RunInv'
<1> USE DEF RunInv
<1>1. /\ op' \in [Ops -> Jobs]
      /\ op'[o].pc = c /\ op'[o].moved = op[o].moved
      /\ op'[o].cancelled = op[o].cancelled /\ op'[o].good = op[o].good
      /\ \A p \in Ops : p # o => op'[p] = op[p]
  BY Going
<1>2. FilesTypeOK'
  BY <1>1 DEF FilesTypeOK
<1>3. Alone'
  BY <1>1, RunsAlone DEF Busy
<1>4. LoginsYield'
  BY <1>1 DEF LoginsYield, Inactive, Ops
<1>5. \A p \in Ops : Sound(p)'
  BY <1>1, OthersSound
<1> QED BY <1>2, <1>3, <1>4, <1>5

LEMMA ProvenStays ==
  ASSUME NEW o \in Ops, \A p \in Ops : p # o => op'[p] = op[p], op'[o].good = op[o].good,
         \A p \in Promotions : rows'[p] = "complete" <=> rows[p] = "complete"
  PROVE  Proven' = Proven
<1>1. \A l \in Logins : op'[l].good = op[l].good
  BY DEF Ops
<1> QED BY <1>1 DEF Proven

LEMMA FreshStagedInv ==
  ASSUME Inv, NEW o \in Fresh, FreshStaged(o)
  PROVE  Inv'
<1> USE DEF Inv, RunInv, FilesInv
<1>1. o \in Ops /\ o \notin Promotions
  BY FilesAssumption DEF Ops, Logins
<1>2. /\ Runs(o) /\ At(o, "staging") /\ Goto(o, "waiting") /\ script = <<>>
      /\ UNCHANGED <<files, script, holder, rows, cleaner, booting, cleanups>>
  BY DEF FreshStaged, Runs, counts
<1>3. /\ op'[o].pc = "waiting" /\ op'[o].moved = op[o].moved /\ op'[o].good = op[o].good
      /\ \A p \in Ops : p # o => op'[p] = op[p]
  BY <1>1, <1>2, Going DEF PCs
<1>4. Locked'
  BY <1>1, <1>3, <1>2 DEF Locked, Held, Inactive
<1>5. Sound(o)'
  BY <1>1, <1>2, <1>3 DEF Sound, MovedAny, HasDb, HasEnc, At
<1>6. RunInv'
  <2>1. "waiting" \in PCs /\ ~Inactive(o)
    BY <1>2 DEF PCs, Inactive, At
  <2> QED BY <1>1, <1>2, <1>4, <1>5, <2>1, GoingOn DEF FilesTypeOK
<1>7. Staging(o) /\ ~op[o].good
  BY <1>1, <1>2 DEF Phase, Sound, At
<1>8. MovedAny(o) => Backup(o) /\ files.db = None /\ files.enc = None
  BY <1>2, <1>7, StageScript DEF Staging, MovedAny, HasDb, HasEnc, Backup
<1>9. Phase(o)' /\ Kept(o)' /\ Bare(o)'
  <2>1. Phase(o)'
    BY <1>3 DEF Phase, At
  <2>2. Kept(o)'
    BY <1>1, <1>2, <1>3, <1>7, <1>8 DEF Kept, Backup, MovedAny, HasDb, HasEnc, Unused
  <2>3. Bare(o)'
    BY <1>1 DEF Bare
  <2> QED BY <2>1, <2>2, <2>3
<1>10. Proven' = Proven
  BY <1>1, <1>2, <1>3, ProvenStays
<1>11. FilesInv'
  BY <1>1, <1>2, <1>3, <1>9, <1>10, FilesStay DEF Early, Inactive, At
<1> QED BY <1>6, <1>11

LEMMA BeginUseInv ==
  ASSUME Inv, NEW o \in Saved \cup Sends, BeginUse(o)
  PROVE  Inv'
<1> USE DEF Inv, RunInv, FilesInv
<1>1. o \in Ops /\ o \notin Promotions /\ (o \in Logins => o \in Saved)
  BY FilesAssumption DEF Ops, Logins
<1>2. /\ Runs(o) /\ At(o, "idle") /\ (o \in Saved => MayLogIn(o)) /\ Goto(o, "waiting")
      /\ script = <<>> /\ UNCHANGED <<files, script, holder, rows, cleaner, booting, cleanups>>
  BY DEF BeginUse, Runs, counts
<1>3. /\ op' \in [Ops -> Jobs]
      /\ op'[o].pc = "waiting" /\ op'[o].moved = op[o].moved /\ op'[o].good = op[o].good
      /\ \A p \in Ops : p # o => op'[p] = op[p]
  BY <1>1, <1>2, Going DEF PCs
<1>4. ~MovedAny(o)
  BY <1>1, <1>2 DEF Sound, At
<1>5. RunInv'
  <2>1. FilesTypeOK'
    BY <1>2, <1>3 DEF FilesTypeOK
  <2>2. Alone'
    BY <1>1, <1>2, <1>3, RunsAlone
  <2>3. Locked'
    BY <1>1, <1>2, <1>3 DEF Locked, Held, Inactive
  <2>4. LoginsYield'
    <3>1. o \in Logins => \A l \in Logins \ {o} : Inactive(l) \/ op[l].cancelled
      BY <1>1, <1>2 DEF MayLogIn
    <3> QED BY <1>3, <3>1 DEF LoginsYield, Inactive, Ops
  <2>5. Sound(o)'
    BY <1>1, <1>2, <1>3, <1>4 DEF Sound, MovedAny, HasDb, HasEnc, At
  <2>6. \A p \in Ops : Sound(p)'
    BY <1>1, <1>2, <1>3, <2>5, OthersSound
  <2> QED BY <2>1, <2>2, <2>3, <2>4, <2>6
<1>6. Phase(o)' /\ Kept(o)' /\ Bare(o)'
  BY <1>1, <1>3, <1>4 DEF Phase, Kept, Bare, MovedAny, HasDb, HasEnc, At
<1>7. Proven' = Proven
  BY <1>1, <1>2, <1>3, ProvenStays
<1>8. FilesInv'
  BY <1>1, <1>2, <1>3, <1>4, <1>6, <1>7, FilesStay DEF Early
<1> QED BY <1>5, <1>8

LEMMA GetClientInv ==
  ASSUME Inv, NEW o \in Ops \ Promotions, GetClient(o)
  PROVE  Inv'
<1> USE DEF Inv, RunInv, FilesInv
<1>1. /\ Runs(o) /\ At(o, "waiting") /\ holder = None /\ holder' = o
      /\ Goto(o, "unsealing") /\ script' = Unseal /\ script = <<>>
      /\ UNCHANGED <<files, rows, cleaner, booting, cleanups>>
  BY DEF GetClient, Works, Runs, counts
<1>2. /\ op'[o].pc = "unsealing" /\ op'[o].moved = op[o].moved /\ op'[o].good = op[o].good
      /\ \A p \in Ops : p # o => op'[p] = op[p]
  BY <1>1, Going DEF PCs, Working
<1>3. Locked'
  BY <1>1, <1>2, FilesAssumption DEF Locked, Inactive
<1>4. ~op[o].good
  BY <1>1 DEF Sound, At
<1>5. Sound(o)'
  BY <1>1, <1>2, <1>4 DEF Sound, MovedAny, HasDb, HasEnc, At
<1>6. RunInv'
  <2>1. "unsealing" \in PCs /\ "unsealing" \in Working /\ ~Inactive(o)
    BY <1>1 DEF PCs, Working, Inactive, At
  <2> QED BY <1>1, <1>3, <1>5, <2>1, GoingOn DEF FilesTypeOK
<1>7. Phase(o)'
  <2>1. Unsealing'
    BY <1>1 DEF Unsealing, Unseal
  <2> QED BY <1>2, <2>1 DEF Phase, At
<1>8. Kept(o)'
  BY <1>1, <1>2, <1>4 DEF Kept, Backup, MovedAny, HasDb, HasEnc, At
<1>9. Bare(o)'
  BY DEF Bare
<1>10. Proven' = Proven
  BY <1>1, <1>2, ProvenStays
<1>11. FilesInv'
  BY <1>1, <1>2, <1>7, <1>8, <1>9, <1>10, FilesStay DEF Early, Inactive, At
<1> QED BY <1>6, <1>11

LEMMA PromotionStagedInv ==
  ASSUME Inv, NEW o \in Promotions, PromotionStaged(o)
  PROVE  Inv'
<1> USE DEF Inv, RunInv, FilesInv
<1>1. o \in Ops
  BY DEF Ops
<1>2. /\ Runs(o) /\ At(o, "staging") /\ Goto(o, "installing") /\ script = <<>>
      /\ rows' = [rows EXCEPT ![o] = "promoting"]
      /\ UNCHANGED <<files, script, holder, cleaner, booting, cleanups>>
  BY DEF PromotionStaged, Runs, counts
<1>3. /\ op'[o].pc = "installing" /\ op'[o].moved = op[o].moved /\ op'[o].good = op[o].good
      /\ \A p \in Ops : p # o => op'[p] = op[p]
  BY <1>1, <1>2, Going DEF PCs, Working
<1>4. /\ rows' \in [Promotions -> {"none", "promoting", "promoted", "complete", "restored"}]
      /\ rows'[o] = "promoting" /\ \A p \in Promotions : p # o => rows'[p] = rows[p]
  BY <1>2 DEF FilesTypeOK
<1>5. Locked'
  BY <1>1, <1>2, <1>3 DEF Locked, Held, Inactive, At
<1>6. Sound(o)'
  BY <1>1, <1>2, <1>3, <1>4 DEF Sound, MovedAny, HasDb, HasEnc, At
<1>7. RunInv'
  <2>1. "installing" \in PCs /\ "installing" \in Working /\ ~Inactive(o)
    BY <1>2 DEF PCs, Working, Inactive, At
  <2> QED BY <1>1, <1>2, <1>4, <1>5, <1>6, <2>1, GoingOn
<1>8. Staging(o)
  BY <1>1, <1>2 DEF Phase, At
<1>9. Backup(o) /\ files.db = None /\ files.enc = None
  BY <1>2, <1>8, StageScript DEF Staging, HasDb, HasEnc, Backup
<1>10. Phase(o)' /\ Kept(o)' /\ Bare(o)'
  BY <1>2, <1>3, <1>9 DEF Phase, Kept, Bare, Held, Backup, At
<1>11. Proven' = Proven
  BY <1>1, <1>2, <1>3, <1>4, ProvenStays DEF Sound, At
<1>12. FilesInv'
  BY <1>1, <1>2, <1>3, <1>10, <1>11, FilesStay DEF Early, Inactive, At
<1> QED BY <1>7, <1>12

LEMMA Seals ==
  ASSUME script' = Seal(files')
  PROVE  Sealing'
BY DEF Seal, Sealing, HasToken

LEMMA GoOnlineInv ==
  ASSUME Inv, NEW o \in Ops, GoOnline(o)
  PROVE  Inv'
<1> USE DEF Inv, RunInv, FilesInv
<1> DEFINE c == IF HasToken(files.db) \/ o \in Logins THEN "online" ELSE "sealing"
<1>1. /\ Runs(o) /\ At(o, "unsealing") /\ Goto(o, c) /\ script = <<>>
      /\ c = "online" => script' = <<>>
      /\ c = "sealing" => script' = Seal(files)
      /\ UNCHANGED <<files, holder, rows, cleaner, booting, cleanups>>
  BY DEF GoOnline, Works, Runs, counts
<1>2. c \in {"online", "sealing"} /\ c \in PCs
  BY DEF PCs, Working
<1> HIDE DEF c
<1>3. /\ op'[o].pc = c /\ op'[o].moved = op[o].moved /\ op'[o].good = op[o].good
      /\ \A p \in Ops : p # o => op'[p] = op[p]
  BY <1>1, <1>2, Going
<1>4. Locked'
  BY <1>1, <1>3 DEF Locked, Held, Inactive, At
<1>5. ~op[o].good
  BY <1>1 DEF Sound, At
<1>6. Sound(o)'
  BY <1>1, <1>2, <1>3, <1>5 DEF Sound, MovedAny, HasDb, HasEnc, At
<1>7. RunInv'
  <2>1. (script' # <<>> => c \in Working) /\ ~Inactive(o)
    BY <1>1, <1>2 DEF Working, Inactive, At
  <2> QED BY <1>1, <1>2, <1>4, <1>6, <2>1, GoingOn DEF FilesTypeOK
<1>8. Phase(o)'
  <2>1. c = "sealing" => Sealing'
    BY <1>1, Seals
  <2> QED BY <1>2, <1>3, <2>1 DEF Phase, At
<1>9. Kept(o)'
  BY <1>1, <1>3, <1>5 DEF Kept, Held, Backup, MovedAny, HasDb, HasEnc, At
<1>10. Bare(o)'
  BY <1>1, <1>2, <1>3 DEF Bare, Held, MovedAny, HasDb, HasEnc, At
<1>11. Proven' = Proven
  BY <1>1, <1>3, ProvenStays
<1>12. FilesInv'
  BY <1>1, <1>2, <1>3, <1>8, <1>9, <1>10, <1>11, FilesStay DEF Early, Inactive, At
<1> QED BY <1>7, <1>12

LEMMA CancelledWaitingInv ==
  ASSUME Inv, NEW o \in Ops \ Promotions, CancelledWaiting(o)
  PROVE  Inv'
<1> USE DEF Inv, RunInv, FilesInv
<1>1. /\ Runs(o) /\ At(o, "waiting") /\ Goto(o, "restoring") /\ script' = Restore(o)
      /\ UNCHANGED <<files, holder, rows, cleaner, booting, cleanups>>
  BY DEF CancelledWaiting, Works, counts
<1>2. /\ op'[o].pc = "restoring" /\ op'[o].moved = op[o].moved /\ op'[o].good = op[o].good
      /\ \A p \in Ops : p # o => op'[p] = op[p]
  BY <1>1, Going DEF PCs, Working
<1>3. Locked'
  BY <1>1, <1>2 DEF Locked, Held, Inactive
<1>4. ~op[o].good
  BY <1>1 DEF Sound, At
<1>5. Sound(o)'
  BY <1>1, <1>2, <1>4 DEF Sound, MovedAny, HasDb, HasEnc, At
<1>6. RunInv'
  <2>1. "restoring" \in PCs /\ "restoring" \in Working /\ ~Inactive(o)
    BY <1>1 DEF PCs, Working, Inactive, At
  <2> QED BY <1>1, <1>3, <1>5, <2>1, GoingOn DEF FilesTypeOK
<1>7. Phase(o)'
  <2>1. ~MovedAny(o) => Restore(o) = <<>>
    BY RestoreScript DEF MovedAny
  <2>2. Restore(o)' = Restore(o) /\ MovedAny(o)' = MovedAny(o) /\ Backup(o)' = Backup(o)
    BY <1>1, <1>2 DEF Restore, Back, When, MovedAny, HasDb, HasEnc, Backup
  <2>3. MovedAny(o) => Backup(o) /\ files.db \in Unused /\ files.enc \in Unused
    BY <1>1, <1>4 DEF Kept, At
  <2>4. IF MovedAny(o)' THEN Restoring(o)' ELSE script' = <<>>
    BY <1>1, <2>1, <2>2, <2>3 DEF Restoring
  <2> QED BY <1>2, <2>4 DEF Phase, At
<1>8. Kept(o)' /\ Bare(o)'
  BY <1>2 DEF Kept, Bare, Held
<1>9. Proven' = Proven
  BY <1>1, <1>2, ProvenStays
<1>10. FilesInv'
  BY <1>1, <1>2, <1>7, <1>8, <1>9, FilesStay DEF Early, Inactive, At
<1> QED BY <1>6, <1>10

LEMMA UseSealedInv ==
  ASSUME Inv, NEW o \in Ops \ Promotions, UseSealed(o)
  PROVE  Inv'
<1> USE DEF Inv, RunInv, FilesInv
<1> DEFINE c == IF op[o].good THEN "discarding" ELSE "restoring"
<1>1. /\ Runs(o) /\ At(o, "sealing") /\ script = <<>> /\ holder' = None /\ Goto(o, c)
      /\ script' = IF op[o].good THEN Discard(o) ELSE Restore(o)
      /\ UNCHANGED <<files, rows, cleaner, booting, cleanups>>
  BY DEF UseSealed, Works, Runs, counts
<1>2. /\ op'[o].pc = c /\ op'[o].moved = op[o].moved /\ op'[o].good = op[o].good
      /\ \A p \in Ops : p # o => op'[p] = op[p]
  BY <1>1, Going DEF PCs, Working
<1>3. Locked'
  <2>1. holder = o
    BY <1>1 DEF Locked, Held, At
  <2> QED BY <1>2, <2>1 DEF Locked, Held, Inactive
<1>4. Sound(o)'
  BY <1>1, <1>2 DEF Sound, MovedAny, HasDb, HasEnc, At
<1>5. RunInv'
  <2>1. c \in PCs /\ c \in Working /\ ~Inactive(o)
    BY <1>1 DEF PCs, Working, Inactive, At
  <2> QED BY <1>1, <1>3, <1>4, <2>1, GoingOn DEF FilesTypeOK
<1>6. Phase(o)'
  <2>1. ~MovedAny(o) => Restore(o) = <<>> /\ Discard(o) = <<>>
    BY RestoreScript, DiscardScript DEF MovedAny
  <2>2. /\ Restore(o)' = Restore(o) /\ Discard(o)' = Discard(o)
        /\ MovedAny(o)' = MovedAny(o) /\ Backup(o)' = Backup(o)
    BY <1>1, <1>2 DEF Restore, Discard, Back, When, MovedAny, HasDb, HasEnc, Backup
  <2>3. MovedAny(o) /\ op[o].good => files.enc = o
    BY <1>1, Pairs DEF Kept, At, Held
  <2>4. MovedAny(o) /\ ~op[o].good => Backup(o) /\ files.db \in Unused /\ files.enc \in Unused
    BY <1>1 DEF Kept, At, Held
  <2>5. ~op[o].good => IF MovedAny(o)' THEN Restoring(o)' ELSE script' = <<>>
    BY <1>1, <2>1, <2>2, <2>4 DEF Restoring
  <2> QED BY <1>1, <1>2, <2>1, <2>2, <2>3, <2>5 DEF Phase, At
<1>7. Kept(o)' /\ Bare(o)'
  BY <1>2 DEF Kept, Bare, Held
<1>8. Proven' = Proven
  BY <1>1, <1>2, ProvenStays
<1>9. FilesInv'
  BY <1>1, <1>2, <1>6, <1>7, <1>8, FilesStay DEF Early, Inactive, At
<1> QED BY <1>5, <1>9

LEMMA UseEndsInv ==
  ASSUME Inv, NEW o \in Ops \ Promotions, UseEnds(o)
  PROVE  Inv'
<1> USE DEF Inv, RunInv, FilesInv
<1>1. /\ Runs(o) /\ op[o].pc \in {"restoring", "discarding"} /\ Goto(o, "done")
      /\ script = <<>> /\ UNCHANGED <<files, script, holder, rows, cleaner, booting, cleanups>>
  BY DEF UseEnds, Runs, counts
<1>2. /\ op'[o].pc = "done" /\ op'[o].moved = op[o].moved /\ op'[o].good = op[o].good
      /\ \A p \in Ops : p # o => op'[p] = op[p]
  BY <1>1, Going DEF PCs
<1>3. Locked'
  BY <1>1, <1>2 DEF Locked, Held, Inactive
<1>4. Sound(o)'
  BY <1>1, <1>2 DEF Sound, MovedAny, HasDb, HasEnc
<1>5. RunInv'
  <2>1. "done" \in PCs /\ ~Inactive(o)
    BY <1>1 DEF PCs, Inactive
  <2> QED BY <1>1, <1>3, <1>4, <2>1, GoingOn DEF FilesTypeOK
<1>6. Phase(o)' /\ Kept(o)' /\ Bare(o)'
  BY <1>2 DEF Phase, Kept, Bare, Held, At
<1>7. Proven' = Proven
  BY <1>1, <1>2, ProvenStays
<1>8. FilesInv'
  BY <1>1, <1>2, <1>6, <1>7, FilesStay DEF Early, Inactive
<1> QED BY <1>5, <1>8

LEMMA PromotionEndsInv ==
  ASSUME Inv, NEW o \in Promotions, PromotionEnds(o)
  PROVE  Inv'
<1> USE DEF Inv, RunInv, FilesInv
<1> DEFINE r == IF At(o, "restoring") THEN "restored" ELSE "complete"
<1>1. o \in Ops
  BY DEF Ops
<1>2. /\ Runs(o) /\ op[o].pc \in {"restoring", "discarding"} /\ Goto(o, "done")
      /\ holder' = None /\ rows' = [rows EXCEPT ![o] = r]
      /\ script = <<>> /\ UNCHANGED <<files, script, cleaner, booting, cleanups>>
  BY DEF PromotionEnds, Runs, counts
<1>3. /\ op'[o].pc = "done" /\ op'[o].moved = op[o].moved /\ op'[o].good = op[o].good
      /\ \A p \in Ops : p # o => op'[p] = op[p]
  BY <1>1, <1>2, Going DEF PCs
<1>4. /\ rows' \in [Promotions -> {"none", "promoting", "promoted", "complete", "restored"}]
      /\ rows'[o] = r /\ \A p \in Promotions : p # o => rows'[p] = rows[p]
  BY <1>2 DEF FilesTypeOK
<1>5. Locked'
  <2>1. holder = o
    BY <1>1, <1>2 DEF Locked, Inactive
  <2> QED BY <1>1, <1>3, <2>1 DEF Locked, Held, Inactive
<1>6. Sound(o)'
  BY <1>1, <1>2, <1>3, <1>4 DEF Sound, MovedAny, HasDb, HasEnc
<1>7. RunInv'
  <2>1. "done" \in PCs /\ ~Inactive(o)
    BY <1>2 DEF PCs, Inactive
  <2> QED BY <1>1, <1>2, <1>4, <1>5, <1>6, <2>1, GoingOn
<1>8. Phase(o)' /\ Kept(o)' /\ Bare(o)'
  BY <1>3 DEF Phase, Kept, Bare, Held, At
<1>9. Proven' = Proven
  <2>1. rows'[o] = "complete" <=> rows[o] = "complete"
    BY <1>1, <1>2, <1>4 DEF Sound, At
  <2> QED BY <1>1, <1>3, <1>4, <2>1, ProvenStays
<1>10. FilesInv'
  BY <1>1, <1>2, <1>3, <1>8, <1>9, FilesStay DEF Early, Inactive
<1> QED BY <1>7, <1>10

LEMMA PromotionSealedInv ==
  ASSUME Inv, NEW o \in Promotions, PromotionSealed(o)
  PROVE  Inv'
<1> USE DEF Inv, RunInv, FilesInv
<1>1. o \in Ops
  BY DEF Ops
<1>2. /\ Runs(o) /\ At(o, "sealing") /\ script = <<>>
      /\ UNCHANGED <<files, holder, cleaner, booting, cleanups>>
  BY DEF PromotionSealed, Runs, counts
<1>3. files.db = None
  BY <1>1, <1>2, Pairs DEF Phase, Sealing, At
<1>4. rows[o] # "complete" /\ ~Inactive(o) /\ holder = o
  BY <1>1, <1>2 DEF Sound, Inactive, Locked, At
<1>5. /\ MovedAny(o) => Backup(o) /\ files.enc = o
      /\ ~MovedAny(o) => \A n \in Names : files[n] \in Unused \cup {o}
  BY <1>1, <1>2 DEF Kept, Bare, Held, At
<1>6. ~MovedAny(o) => Restore(o) = <<>> /\ Discard(o) = <<>>
  BY RestoreScript, DiscardScript DEF MovedAny
<1>7. CASE /\ op[o].good /\ rows' = [rows EXCEPT ![o] = "complete"]
           /\ Works(o, "discarding", Discard(o))
  <2>1. /\ op'[o].pc = "discarding" /\ op'[o].moved = op[o].moved /\ op'[o].good = op[o].good
        /\ \A p \in Ops : p # o => op'[p] = op[p]
    BY <1>1, <1>7, Going DEF PCs, Working, Works
  <2>2. /\ rows' \in [Promotions -> {"none", "promoting", "promoted", "complete", "restored"}]
        /\ rows'[o] = "complete" /\ \A p \in Promotions : p # o => rows'[p] = rows[p]
    BY <1>7 DEF FilesTypeOK
  <2>3. RunInv'
    <3>1. Locked'
      BY <1>1, <1>2, <1>4, <2>1 DEF Locked, Held, Inactive
    <3>2. Sound(o)'
      BY <1>1, <1>2, <1>7, <2>1, <2>2 DEF Sound, MovedAny, HasDb, HasEnc, At
    <3>3. "discarding" \in PCs /\ "discarding" \in Working
      BY DEF PCs, Working
    <3> QED BY <1>1, <1>2, <1>4, <1>7, <2>2, <3>1, <3>2, <3>3, GoingOn DEF Works
  <2>4. Proven' = Proven \cup {o}
    <3>1. \A l \in Logins : op'[l].good = op[l].good
      BY <1>1, <2>1 DEF Ops
    <3> QED BY <2>2, <3>1 DEF Proven
  <2>5. Phase(o)' /\ Kept(o)' /\ Bare(o)'
    <3>1. Discard(o)' = Discard(o) /\ MovedAny(o)' = MovedAny(o)
      BY <2>1 DEF Discard, When, MovedAny, HasDb, HasEnc
    <3>2. script' = Discard(o)
      BY <1>7 DEF Works
    <3>3. Phase(o)'
      BY <1>2, <1>5, <1>6, <2>1, <3>1, <3>2 DEF Phase, At
    <3> QED BY <2>1, <3>3 DEF Kept, Bare, Held
  <2>6. ~booting /\ Recovering' /\ \A p \in Ops : Phase(p)' /\ Kept(p)' /\ Bare(p)'
    BY <1>1, <1>2, <2>1, <2>5, OthersStay
  <2>7. Earned'
    BY <1>1, <1>2, <2>1, <2>4, EarnedStays DEF Early
  <2>8. PairsSafe'
    <3>1. files.dbOld \in Promotions \ Proven' => files.encOld \notin Proven'
      <4>1. CASE MovedAny(o)
        <5>1. files.encOld # o
          BY <1>1, <1>5, <4>1 DEF Backup, Sound
        <5> QED BY <2>4, <5>1 DEF PairsSafe, Pair
      <4>2. CASE ~MovedAny(o)
        <5>1. files.dbOld \in Unused \cup {o}
          BY <1>5, <4>2 DEF Names
        <5> QED BY <2>4, <5>1, Tokens DEF Ops
      <4> QED BY <4>1, <4>2
    <3>2. files.db \notin Promotions
      BY <1>3, Tokens DEF Ops, Unused
    <3> QED BY <1>2, <3>1, <3>2 DEF PairsSafe, Pair
  <2>9. OneBackup'
    BY <1>4, <2>1 DEF OneBackup, MovedAny, HasDb, HasEnc, Inactive
  <2> QED BY <2>3, <2>6, <2>7, <2>8, <2>9
<1>8. CASE Works(o, "restoring", Restore(o)) /\ UNCHANGED rows
  <2>1. /\ op'[o].pc = "restoring" /\ op'[o].moved = op[o].moved /\ op'[o].good = op[o].good
        /\ \A p \in Ops : p # o => op'[p] = op[p]
    BY <1>1, <1>8, Going DEF PCs, Working, Works
  <2>2. RunInv'
    <3>1. Locked'
      BY <1>1, <1>2, <1>4, <2>1 DEF Locked, Held, Inactive
    <3>2. Sound(o)'
      BY <1>1, <1>2, <1>4, <1>8, <2>1 DEF Sound, MovedAny, HasDb, HasEnc, At
    <3>3. "restoring" \in PCs /\ "restoring" \in Working
      BY DEF PCs, Working
    <3> QED BY <1>1, <1>2, <1>4, <1>8, <3>1, <3>2, <3>3, GoingOn DEF Works, FilesTypeOK
  <2>3. Phase(o)' /\ Kept(o)' /\ Bare(o)'
    <3>1. Restore(o)' = Restore(o) /\ MovedAny(o)' = MovedAny(o) /\ Backup(o)' = Backup(o)
      BY <1>2, <2>1 DEF Restore, Back, When, MovedAny, HasDb, HasEnc, Backup
    <3>2. script' = Restore(o)
      BY <1>8 DEF Works
    <3>3. IF MovedAny(o)' THEN Restoring(o)' ELSE script' = <<>>
      BY <1>2, <1>3, <1>5, <1>6, <3>1, <3>2 DEF Restoring, Unused
    <3>4. Phase(o)'
      BY <2>1, <3>3 DEF Phase, At
    <3> QED BY <2>1, <3>4 DEF Kept, Bare, Held
  <2>4. Proven' = Proven
    BY <1>1, <1>8, <2>1, ProvenStays
  <2>5. FilesInv'
    BY <1>1, <1>2, <1>4, <2>1, <2>3, <2>4, FilesStay DEF Early
  <2> QED BY <2>2, <2>5
<1> QED BY <1>7, <1>8 DEF PromotionSealed

LEMMA StageFacts ==
  ASSUME FilesTypeOK, NEW o \in Ops, StageFor(o)
  PROVE  /\ op' \in [Ops -> Jobs]
         /\ op'[o].pc = "staging" /\ op'[o].cancelled = op[o].cancelled /\ op'[o].good = op[o].good
         /\ op'[o].moved.db = files.db /\ op'[o].moved.enc = files.enc
         /\ \A p \in Ops : p # o => op'[p] = op[p]
<1> DEFINE m == [db |-> files.db, enc |-> files.enc]
<1>1. op[o] \in Jobs
  BY DEF FilesTypeOK
<1>2. m \in [db : Contents, enc : Contents]
  BY DEF FilesTypeOK, Names
<1>3. [[op[o] EXCEPT !.pc = "staging"] EXCEPT !.moved = m] \in Jobs
  BY <1>1, <1>2 DEF Jobs, PCs, Working
<1>4. op' = [op EXCEPT ![o] = [[op[o] EXCEPT !.pc = "staging"] EXCEPT !.moved = m]]
  BY DEF StageFor, FilesTypeOK
<1>5. op'[o] = [[op[o] EXCEPT !.pc = "staging"] EXCEPT !.moved = m]
  BY <1>4 DEF FilesTypeOK
<1> QED BY <1>1, <1>3, <1>4, <1>5 DEF FilesTypeOK, Jobs

\* Who moves the session aside finds no backup, and nobody else has one.
LEMMA StagesInv ==
  ASSUME Inv, NEW o \in Ops, o \in Fresh \cup Promotions, Runs(o), At(o, "idle"), ~Aside,
         StageFor(o), UNCHANGED <<files, rows, cleaner, booting, cleanups>>,
         Locked', LoginsYield'
  PROVE  Inv'
<1> USE DEF Inv, RunInv, FilesInv
<1>1. /\ op' \in [Ops -> Jobs]
      /\ op'[o].pc = "staging" /\ op'[o].good = op[o].good
      /\ op'[o].moved.db = files.db /\ op'[o].moved.enc = files.enc
      /\ \A p \in Ops : p # o => op'[p] = op[p]
  BY StageFacts
<1>2. files.dbOld = None /\ files.encOld = None /\ script' = Stage
  BY DEF Aside, StageFor
<1>3. ~op[o].good
  BY DEF Sound, At
<1>4. Sound(o)'
  <2>1. o \notin Proven
    BY <1>3, Tokens, FilesAssumption DEF Proven, Sound, At
  <2>2. \A n \in Names : files[n] # o
    BY <2>1, Tokens DEF Earned, Early, At, Unused
  <2>3. op'[o].moved.db # o /\ op'[o].moved.enc # o
    BY <1>1, <2>2 DEF Names
  <2> QED BY <1>1, <1>3, <2>3 DEF Sound, At
<1>5. RunInv'
  <2>1. FilesTypeOK'
    BY <1>1 DEF FilesTypeOK
  <2>2. Alone'
    BY <1>1, RunsAlone DEF Busy, Working
  <2>3. \A p \in Ops : Sound(p)'
    BY <1>1, <1>4, OthersSound
  <2> QED BY <2>1, <2>2, <2>3
<1>6. Phase(o)' /\ Kept(o)' /\ Bare(o)'
  <2>1. Stage = When(HasDb(o)', Move("db", "dbOld"), When(HasEnc(o)', Move("enc", "encOld"), <<>>))
    BY <1>1 DEF Stage, When, HasDb, HasEnc
  <2>2. Staging(o)'
    BY <1>1, <1>2, <2>1 DEF Staging
  <2> QED BY <1>1, <2>2 DEF Phase, Kept, Bare, Held, At
<1>7. ~booting /\ Recovering' /\ \A p \in Ops : Phase(p)' /\ Kept(p)' /\ Bare(p)'
  BY <1>1, <1>6, OthersStay
<1>8. Proven' = Proven
  BY <1>1, ProvenStays
<1>9. Earned'
  BY <1>1, <1>8, EarnedStays DEF Early, At
<1>10. PairsSafe'
  BY <1>7, <1>8 DEF PairsSafe, Pair
<1>11. OneBackup'
  <2> SUFFICES ASSUME NEW p \in Ops, p # o, MovedAny(p), ~Inactive(p) PROVE FALSE
    BY <1>1 DEF OneBackup, MovedAny, HasDb, HasEnc, Inactive
  <2>1. op[p].pc \in Held \cup {"waiting"}
    BY DEF Inactive, Held, Runs, Working, PCs, FilesTypeOK, Jobs
  <2>2. Backup(p)
    BY <2>1 DEF Kept
  <2> QED BY <1>2, <2>2 DEF Backup, MovedAny, HasDb, HasEnc
<1> QED BY <1>5, <1>7, <1>9, <1>10, <1>11

LEMMA RefusedInv ==
  ASSUME Inv, NEW o \in Ops, Runs(o), At(o, "idle"), Goto(o, "done"),
         UNCHANGED <<files, script, rows, holder, cleaner, booting, cleanups>>
  PROVE  Inv'
<1> USE DEF Inv, RunInv, FilesInv
<1>1. script' = <<>>
  BY DEF Runs
<1>2. /\ op'[o].pc = "done" /\ op'[o].moved = op[o].moved /\ op'[o].good = op[o].good
      /\ \A p \in Ops : p # o => op'[p] = op[p]
  BY Going DEF PCs
<1>3. Locked'
  BY <1>2 DEF Locked, Held, Inactive
<1>4. Sound(o)'
  BY <1>2 DEF Sound, MovedAny, HasDb, HasEnc, At
<1>5. RunInv'
  <2>1. "done" \in PCs
    BY DEF PCs
  <2> QED BY <1>1, <1>3, <1>4, <2>1, GoingOn DEF FilesTypeOK
<1>6. Phase(o)' /\ Kept(o)' /\ Bare(o)'
  BY <1>2 DEF Phase, Kept, Bare, Held, At
<1>7. Proven' = Proven
  BY <1>2, ProvenStays
<1>8. FilesInv'
  BY <1>2, <1>6, <1>7, FilesStay DEF Early, Inactive
<1> QED BY <1>5, <1>8

LEMMA BeginFreshInv ==
  ASSUME Inv, NEW o \in Fresh, BeginFresh(o)
  PROVE  Inv'
<1> USE DEF Inv, RunInv
<1>1. o \in Ops /\ o \in Logins /\ o \notin Promotions
  BY FilesAssumption DEF Ops, Logins
<1>2. /\ Runs(o) /\ At(o, "idle") /\ MayLogIn(o)
      /\ UNCHANGED <<files, holder, rows, cleaner, booting, cleanups>>
  BY DEF BeginFresh, counts
<1>3. CASE Aside
  BY <1>1, <1>2, <1>3, RefusedInv DEF BeginFresh
<1>4. CASE ~Aside
  <2>1. StageFor(o)
    BY <1>4 DEF BeginFresh
  <2>2. /\ op'[o].pc = "staging" /\ op'[o].cancelled = op[o].cancelled
        /\ \A p \in Ops : p # o => op'[p] = op[p]
    BY <1>1, <2>1, StageFacts
  <2>3. Locked'
    BY <1>1, <1>2, <2>2 DEF Locked, Held, Inactive
  <2>4. LoginsYield'
    BY <1>1, <1>2, <2>2 DEF LoginsYield, MayLogIn, Inactive, Ops
  <2> QED BY <1>1, <1>2, <1>4, <2>1, <2>3, <2>4, StagesInv
<1> QED BY <1>3, <1>4

LEMMA BeginPromotionInv ==
  ASSUME Inv, NEW o \in Promotions, BeginPromotion(o)
  PROVE  Inv'
<1> USE DEF Inv, RunInv
<1>1. o \in Ops /\ o \notin Logins
  BY FilesAssumption DEF Ops
<1>2. /\ Runs(o) /\ At(o, "idle") /\ holder = None
      /\ UNCHANGED <<files, rows, cleaner, booting, cleanups>>
  BY DEF BeginPromotion, counts
<1>3. CASE Aside
  BY <1>1, <1>2, <1>3, RefusedInv DEF BeginPromotion
<1>4. CASE ~Aside
  <2>1. StageFor(o) /\ holder' = o
    BY <1>4 DEF BeginPromotion
  <2>2. /\ op'[o].pc = "staging"
        /\ \A p \in Ops : p # o => op'[p] = op[p]
    BY <1>1, <2>1, StageFacts
  <2>3. Locked'
    BY <1>1, <1>2, <2>1, <2>2, FilesAssumption DEF Locked, Held, Inactive
  <2>4. LoginsYield'
    BY <1>1, <2>2 DEF LoginsYield, Inactive, Ops
  <2> QED BY <1>1, <1>2, <1>4, <2>1, <2>3, <2>4, StagesInv
<1> QED BY <1>3, <1>4

--------------------------------------------------------------------------------
(* The steps that change the files at once *)

\* With the lock held, only operations that wait for it have something aside.
LEMMA HolderActs ==
  ASSUME Inv, NEW o \in Ops, Runs(o), holder = o, \A p \in Ops : p # o => op'[p] = op[p],
         files'.dbOld = files.dbOld, files'.encOld = files.encOld, UNCHANGED <<cleaner, booting>>,
         \A p \in Ops : p # o /\ MovedAny(p) /\ At(p, "waiting")
                        => files'.db \in Unused /\ files'.enc \in Unused,
         Phase(o)', Kept(o)', Bare(o)'
  PROVE  /\ ~booting /\ Recovering'
         /\ \A p \in Ops : Phase(p)' /\ Kept(p)' /\ Bare(p)'
<1> USE DEF Inv, RunInv, FilesInv
<1>1. ~booting /\ cleaner = NoCleaner /\ \A p \in Ops : p # o => ~Busy(p)
  BY DEF Alone, Runs, Busy
<1>2. Recovering'
  BY <1>1 DEF Recovering
<1>3. ASSUME NEW p \in Ops, p # o
      PROVE  Phase(p)' /\ Kept(p)' /\ Bare(p)'
  <2>1. op[p].pc \notin Held
    BY <1>3 DEF Locked
  <2>2. Phase(p)' /\ Bare(p)'
    BY <1>1, <1>3, <2>1 DEF Phase, Bare, Busy, Working, At
  <2>3. Kept(p)'
    <3> SUFFICES ASSUME MovedAny(p), At(p, "waiting") PROVE Kept(p)'
      BY <1>3, <2>1 DEF Kept, MovedAny, HasDb, HasEnc, At
    <3>1. p \notin Promotions /\ ~op[p].good /\ Backup(p)
      BY DEF Sound, Kept, At
    <3> QED BY <1>3, <3>1 DEF Kept, Backup
  <2> QED BY <2>2, <2>3
<1> QED BY <1>1, <1>2, <1>3

LEMMA InstallInv ==
  ASSUME Inv, NEW o \in Promotions, Install(o)
  PROVE  Inv'
<1> USE DEF Inv, RunInv, FilesInv
<1>1. o \in Ops
  BY DEF Ops
<1>2. /\ Runs(o) /\ At(o, "installing") /\ Goto(o, "unsealing") /\ rows' = [rows EXCEPT ![o] = "promoted"]
      /\ files' = [files EXCEPT !.enc = o]
      /\ script' = IF files'.db = None THEN <<Blank("db"), Copy("enc", "db")>> ELSE <<>>
      /\ UNCHANGED <<holder, cleaner, booting, cleanups>>
  BY DEF Install, counts
<1>3. /\ op' \in [Ops -> Jobs]
      /\ op'[o].pc = "unsealing" /\ op'[o].moved = op[o].moved /\ op'[o].good = op[o].good
      /\ op'[o].cancelled = op[o].cancelled
      /\ \A p \in Ops : p # o => op'[p] = op[p]
  BY <1>1, <1>2, Going DEF PCs, Working
<1>4. /\ rows' \in [Promotions -> {"none", "promoting", "promoted", "complete", "restored"}]
      /\ rows'[o] = "promoted" /\ \A p \in Promotions : p # o => rows'[p] = rows[p]
  BY <1>2 DEF FilesTypeOK
<1>5. /\ files' \in [Names -> Contents] /\ files'.enc = o /\ files'.db = files.db
      /\ files'.dbOld = files.dbOld /\ files'.encOld = files.encOld
  BY <1>1, <1>2 DEF FilesTypeOK, Contents, Names
<1>6. files.db = None /\ Backup(o) /\ ~op[o].good
  BY <1>1, <1>2 DEF Phase, Sound, At
<1>7. holder = o
  BY <1>1, <1>2 DEF Locked, Inactive, At
<1>8. RunInv'
  <2>1. FilesTypeOK'
    BY <1>2, <1>3, <1>4, <1>5 DEF FilesTypeOK
  <2>2. Alone'
    BY <1>1, <1>2, <1>3, RunsAlone DEF Busy, Working
  <2>3. Locked'
    BY <1>1, <1>2, <1>3, <1>7 DEF Locked, Inactive
  <2>4. LoginsYield'
    BY <1>2, <1>3 DEF LoginsYield, Inactive, Ops, At
  <2>5. Sound(o)'
    BY <1>1, <1>2, <1>3, <1>4, <1>6 DEF Sound, MovedAny, HasDb, HasEnc, At
  <2>6. \A p \in Ops : Sound(p)'
    BY <1>1, <1>3, <1>4, <2>5, OthersSound
  <2> QED BY <2>1, <2>2, <2>3, <2>4, <2>6
<1>9. Phase(o)' /\ Kept(o)' /\ Bare(o)'
  <2>1. Phase(o)'
    BY <1>2, <1>3, <1>5, <1>6 DEF Phase, Unsealing, At
  <2>2. Kept(o)'
    BY <1>3, <1>5, <1>6 DEF Kept, Backup, MovedAny, HasDb, HasEnc, Unused
  <2>3. Bare(o)'
    <3> SUFFICES ASSUME ~MovedAny(o) PROVE Bare(o)'
      BY <1>3 DEF Bare, MovedAny, HasDb, HasEnc
    <3>1. files.dbOld = None /\ files.encOld = None
      BY <1>6 DEF Backup, MovedAny, HasDb, HasEnc
    <3> QED BY <1>5, <1>6, <3>1 DEF Bare, Names, Unused
  <2> QED BY <2>1, <2>2, <2>3
<1>10. \A p \in Ops : p # o /\ MovedAny(p) => ~At(p, "waiting")
  <2> SUFFICES ASSUME NEW p \in Ops, p # o, MovedAny(p), At(p, "waiting") PROVE FALSE
    OBVIOUS
  <2>1. ~MovedAny(o)
    BY <1>1, <1>2 DEF OneBackup, Inactive, At
  <2>2. Backup(p)
    BY DEF Kept, At
  <2> QED BY <1>6, <2>1, <2>2 DEF Backup, MovedAny, HasDb, HasEnc
<1>11. ~booting /\ Recovering' /\ \A p \in Ops : Phase(p)' /\ Kept(p)' /\ Bare(p)'
  BY <1>1, <1>2, <1>3, <1>5, <1>7, <1>9, <1>10, HolderActs
<1>12. Proven' = Proven
  BY <1>1, <1>2, <1>3, <1>4, ProvenStays DEF Sound, At
<1>13. Earned'
  <2> SUFFICES ASSUME NEW n \in Names
               PROVE  files'[n] \in {None, "blank"} \cup Proven \cup {p \in Promotions : op'[p].pc \notin Early}
    BY <1>12 DEF Earned
  <2>1. \A p \in Promotions : op[p].pc \notin Early => op'[p].pc \notin Early
    BY <1>3 DEF Ops, Early
  <2>2. op'[o].pc \notin Early
    BY <1>3 DEF Early
  <2>3. n # "enc" => files'[n] = files[n]
    BY <1>2 DEF FilesTypeOK
  <2> QED BY <1>5, <2>1, <2>2, <2>3 DEF Earned
<1>14. PairsSafe'
  <2>1. files'.db \notin Promotions
    BY <1>5, <1>6, Tokens DEF Ops, Unused
  <2> QED BY <1>5, <1>12, <2>1 DEF PairsSafe, Pair
<1>15. OneBackup'
  BY <1>2, <1>3 DEF OneBackup, MovedAny, HasDb, HasEnc, Inactive, At
<1> QED BY <1>8, <1>11, <1>13, <1>14, <1>15

LEMMA ClientFailsInv ==
  ASSUME Inv, NEW o \in Ops, ClientFails(o)
  PROVE  Inv'
<1> USE DEF Inv, RunInv, FilesInv
<1>1. /\ Runs(o) /\ At(o, "online") /\ Goto(o, "sealing") /\ script' = Seal(files')
      /\ files' = files \/ (files.db = None /\ files' = [files EXCEPT !.db = "blank"])
      /\ UNCHANGED <<holder, rows, cleaner, booting, cleanups>>
  BY DEF ClientFails, Answered, counts
<1>2. /\ op' \in [Ops -> Jobs]
      /\ op'[o].pc = "sealing" /\ op'[o].moved = op[o].moved /\ op'[o].good = op[o].good
      /\ op'[o].cancelled = op[o].cancelled
      /\ \A p \in Ops : p # o => op'[p] = op[p]
  BY <1>1, Going DEF PCs, Working
<1>3. /\ files' \in [Names -> Contents] /\ files'.enc = files.enc
      /\ files'.dbOld = files.dbOld /\ files'.encOld = files.encOld
      /\ files'.db = files.db \/ (files.db = None /\ files'.db = "blank")
  BY <1>1 DEF FilesTypeOK, Contents, Names
<1>4. ~op[o].good /\ holder = o
  BY <1>1 DEF Sound, Locked, Held, At
<1>5. RunInv'
  <2>1. FilesTypeOK'
    BY <1>1, <1>2, <1>3 DEF FilesTypeOK
  <2>2. Alone'
    BY <1>1, <1>2, RunsAlone DEF Busy, Working
  <2>3. Locked'
    BY <1>1, <1>2, <1>4 DEF Locked, Inactive
  <2>4. LoginsYield'
    BY <1>1, <1>2 DEF LoginsYield, Inactive, Ops, At
  <2>5. Sound(o)'
    BY <1>1, <1>2, <1>4 DEF Sound, MovedAny, HasDb, HasEnc, At
  <2>6. \A p \in Ops : Sound(p)'
    BY <1>1, <1>2, <2>5, OthersSound
  <2> QED BY <2>1, <2>2, <2>3, <2>4, <2>6
<1>6. Phase(o)' /\ Kept(o)' /\ Bare(o)'
  <2>1. Phase(o)'
    BY <1>1, <1>2, Seals DEF Phase, At
  <2>2. Kept(o)'
    BY <1>1, <1>2, <1>3, <1>4 DEF Kept, Held, Backup, MovedAny, HasDb, HasEnc, Unused, At
  <2>3. Bare(o)'
    <3> SUFFICES ASSUME o \in Promotions, ~MovedAny(o) PROVE Bare(o)'
      BY <1>2 DEF Bare, MovedAny, HasDb, HasEnc
    <3>1. \A n \in Names : files[n] \in Unused \cup {o}
      BY <1>1 DEF Bare, Held, At
    <3> QED BY <1>2, <1>3, <3>1 DEF Bare, Names, Unused, At
  <2> QED BY <2>1, <2>2, <2>3
<1>7. ~booting /\ Recovering' /\ \A p \in Ops : Phase(p)' /\ Kept(p)' /\ Bare(p)'
  <2>1. \A p \in Ops : p # o /\ MovedAny(p) /\ At(p, "waiting")
                       => files'.db \in Unused /\ files'.enc \in Unused
    BY <1>3 DEF Kept, Sound, Unused, At
  <2> QED BY <1>1, <1>2, <1>3, <1>4, <1>6, <2>1, HolderActs
<1>8. Proven' = Proven
  BY <1>1, <1>2, ProvenStays
<1>9. Earned'
  <2> SUFFICES ASSUME NEW n \in Names
               PROVE  files'[n] \in {None, "blank"} \cup Proven \cup {p \in Promotions : op'[p].pc \notin Early}
    BY <1>8 DEF Earned
  <2>1. \A p \in Promotions : op[p].pc \notin Early => op'[p].pc \notin Early
    BY <1>2 DEF Ops, Early
  <2>2. files'[n] = files[n] \/ files'[n] = "blank"
    BY <1>1 DEF FilesTypeOK
  <2> QED BY <2>1, <2>2 DEF Earned
<1>10. PairsSafe'
  <2>1. "blank" \notin Promotions
    BY Tokens DEF Ops, Unused
  <2> QED BY <1>3, <1>7, <1>8, <2>1 DEF PairsSafe, Pair
<1>11. OneBackup'
  BY <1>1, <1>2 DEF OneBackup, MovedAny, HasDb, HasEnc, Inactive, At
<1> QED BY <1>5, <1>7, <1>9, <1>10, <1>11

LEMMA ClientWorksInv ==
  ASSUME Inv, NEW o \in Ops, ClientWorks(o)
  PROVE  Inv'
<1> USE DEF Inv, RunInv, FilesInv
<1>1. /\ Runs(o) /\ At(o, "online") /\ ~op[o].cancelled /\ script' = Seal(files')
      /\ files' = IF o \in Logins /\ ~HasToken(files.db) THEN [files EXCEPT !.db = o] ELSE files
      /\ op' = [op EXCEPT ![o].pc = "sealing", ![o].good = TRUE]
      /\ \A p \in Ops : ~(At(p, "waiting") /\ op[p].cancelled)
      /\ UNCHANGED <<holder, rows, cleaner, booting, cleanups>>
  BY DEF ClientWorks, Answered, counts
<1>2. /\ op' \in [Ops -> Jobs]
      /\ op'[o].pc = "sealing" /\ op'[o].moved = op[o].moved /\ op'[o].good = TRUE
      /\ op'[o].cancelled = op[o].cancelled
      /\ \A p \in Ops : p # o => op'[p] = op[p]
  <2> DEFINE j == [[op[o] EXCEPT !.pc = "sealing"] EXCEPT !.good = TRUE]
  <2>1. op[o] \in Jobs
    BY DEF FilesTypeOK
  <2>2. j \in Jobs
    BY <2>1 DEF Jobs, PCs, Working
  <2>3. op' = [op EXCEPT ![o] = j]
    BY <1>1 DEF FilesTypeOK
  <2>4. op'[o] = j
    BY <2>3 DEF FilesTypeOK
  <2> QED BY <2>1, <2>2, <2>3, <2>4 DEF FilesTypeOK, Jobs
<1>3. /\ files' \in [Names -> Contents] /\ files'.enc = files.enc
      /\ files'.dbOld = files.dbOld /\ files'.encOld = files.encOld
      /\ files'.db = IF o \in Logins /\ ~HasToken(files.db) THEN o ELSE files.db
  BY <1>1 DEF FilesTypeOK, Contents, Names
<1>4. ~op[o].good /\ holder = o
  BY <1>1 DEF Sound, Locked, Held, At
<1>5. RunInv'
  <2>1. FilesTypeOK'
    BY <1>1, <1>2, <1>3 DEF FilesTypeOK
  <2>2. Alone'
    BY <1>1, <1>2, RunsAlone DEF Busy, Working
  <2>3. Locked'
    BY <1>1, <1>2, <1>4 DEF Locked, Inactive
  <2>4. LoginsYield'
    BY <1>1, <1>2 DEF LoginsYield, Inactive, Ops, At
  <2>5. Sound(o)'
    BY <1>1, <1>2, <1>4 DEF Sound, MovedAny, HasDb, HasEnc, At
  <2>6. \A p \in Ops : Sound(p)'
    BY <1>1, <1>2, <2>5, OthersSound
  <2> QED BY <2>1, <2>2, <2>3, <2>4, <2>6
<1>6. Phase(o)' /\ Kept(o)' /\ Bare(o)'
  <2>1. Phase(o)'
    BY <1>1, <1>2, Seals DEF Phase, At
  <2>2. Kept(o)'
    <3> SUFFICES ASSUME MovedAny(o) PROVE Kept(o)'
      BY <1>2 DEF Kept, MovedAny, HasDb, HasEnc
    <3>1. Backup(o) /\ Backup(o)'
      BY <1>1, <1>2, <1>3 DEF Kept, Held, Backup, At
    <3>2. CASE o \in Promotions
      <4>1. o \notin Logins
        BY <3>2, FilesAssumption
      <4> QED BY <1>1, <1>2, <1>3, <3>1, <3>2, <4>1 DEF Kept, Held, At
    <3>3. CASE o \notin Promotions
      <4>1. o \in Logins
        BY <3>3 DEF Sound, Logins
      <4>2. files.db \in Unused /\ files.enc \in Unused
        BY <1>1, <1>4, <3>3 DEF Kept, Held, At
      <4>3. files'.db = o /\ HasToken(o)
        BY <1>3, <4>1, <4>2, Tokens DEF HasToken, Unused
      <4>4. script' = <<Copy("db", "enc"), Unlink("db")>>
        BY <1>1, <4>3 DEF Seal, HasToken
      <4> QED BY <1>2, <3>1, <3>3, <4>3, <4>4 DEF Kept
    <3> QED BY <3>2, <3>3
  <2>3. Bare(o)'
    <3> SUFFICES ASSUME o \in Promotions, ~MovedAny(o) PROVE Bare(o)'
      BY <1>2 DEF Bare, MovedAny, HasDb, HasEnc
    <3>1. files' = files
      BY <1>1, FilesAssumption
    <3> QED BY <1>1, <1>2, <3>1 DEF Bare, Held, At
  <2> QED BY <2>1, <2>2, <2>3
<1>7. ~booting /\ Recovering' /\ \A p \in Ops : Phase(p)' /\ Kept(p)' /\ Bare(p)'
  <2>1. ASSUME NEW p \in Ops, p # o, MovedAny(p), At(p, "waiting")
        PROVE  files'.db \in Unused /\ files'.enc \in Unused
    <3>1. p \in Logins /\ p \notin Promotions /\ ~op[p].good
      BY <2>1 DEF Sound, Logins, At
    <3>2. ~op[p].cancelled /\ ~Inactive(p) /\ ~Inactive(o)
      BY <1>1, <2>1 DEF Inactive, At
    <3>3. o \notin Logins
      BY <1>1, <2>1, <3>1, <3>2 DEF LoginsYield
    <3> QED BY <1>3, <2>1, <3>1, <3>3 DEF Kept, At
  <2> QED BY <1>1, <1>2, <1>3, <1>4, <1>6, <2>1, HolderActs
<1>8. Proven' = Proven \cup ({o} \cap Logins)
  <2>1. \A l \in Logins : op'[l].good <=> (op[l].good \/ l = o)
    BY <1>2 DEF Ops
  <2> QED BY <1>1, <2>1 DEF Proven
<1>9. Earned'
  <2> SUFFICES ASSUME NEW n \in Names
               PROVE  files'[n] \in {None, "blank"} \cup Proven' \cup {p \in Promotions : op'[p].pc \notin Early}
    BY DEF Earned
  <2>1. \A p \in Promotions : op[p].pc \notin Early => op'[p].pc \notin Early
    BY <1>2 DEF Ops, Early
  <2>2. files'[n] = files[n] \/ (files'[n] = o /\ o \in Logins)
    BY <1>1 DEF FilesTypeOK
  <2> QED BY <1>8, <2>1, <2>2 DEF Earned
<1>10. PairsSafe'
  <2>1. \A n \in Names : o \in Logins /\ o \notin Proven => files[n] # o
    BY Tokens, FilesAssumption DEF Earned, Unused
  <2>2. \A n \in Names : files[n] \notin Proven => files[n] \notin Proven'
    BY <1>8, <2>1
  <2>3. Pair(files.dbOld, files.encOld)'
    BY <1>3, <1>8, <2>2 DEF PairsSafe, Pair, Names
  <2>4. CASE files'.db = files.db
    BY <1>3, <1>7, <1>8, <2>2, <2>3, <2>4 DEF PairsSafe, Pair, Names
  <2>5. CASE files'.db = o /\ o \in Logins
    BY <1>8, <2>3, <2>5 DEF PairsSafe, Pair
  <2> QED BY <1>3, <2>4, <2>5
<1>11. OneBackup'
  BY <1>1, <1>2 DEF OneBackup, MovedAny, HasDb, HasEnc, Inactive, At
<1> QED BY <1>5, <1>7, <1>9, <1>10, <1>11

--------------------------------------------------------------------------------
(* Cancellations, process deaths and recovery *)

LEMMA CancelInv ==
  ASSUME Inv, NEW o \in Ops \ Promotions, Cancel(o)
  PROVE  Inv'
<1> USE DEF Inv, RunInv, FilesInv
<1>1. /\ op[o].pc \in {"waiting", "online"} /\ op' = [op EXCEPT ![o].cancelled = TRUE]
      /\ UNCHANGED <<files, script, holder, rows, cleaner, booting, cleanups>>
  BY DEF Cancel, counts
<1>2. /\ op' \in [Ops -> Jobs] /\ op'[o].cancelled = TRUE
      /\ op'[o].pc = op[o].pc /\ op'[o].moved = op[o].moved /\ op'[o].good = op[o].good
      /\ \A p \in Ops : p # o => op'[p] = op[p]
  <2>1. op[o] \in Jobs
    BY DEF FilesTypeOK
  <2>2. [op[o] EXCEPT !.cancelled = TRUE] \in Jobs
    BY <2>1 DEF Jobs
  <2>3. op' = [op EXCEPT ![o] = [op[o] EXCEPT !.cancelled = TRUE]]
    BY <1>1 DEF FilesTypeOK
  <2>4. op'[o] = [op[o] EXCEPT !.cancelled = TRUE]
    BY <2>3 DEF FilesTypeOK
  <2> QED BY <2>1, <2>2, <2>3, <2>4 DEF FilesTypeOK, Jobs
<1>3. \A p \in Ops : op'[p].pc = op[p].pc /\ op'[p].moved = op[p].moved /\ op'[p].good = op[p].good
  BY <1>2
<1>4. Proven' = Proven
  BY <1>1, <1>2, ProvenStays
<1>5. RunInv'
  <2>1. FilesTypeOK'
    BY <1>1, <1>2 DEF FilesTypeOK
  <2>2. Alone'
    BY <1>1, <1>3 DEF Alone, Inactive, HalfDone, Busy
  <2>3. Locked'
    BY <1>1, <1>3 DEF Locked, Inactive
  <2>4. LoginsYield'
    BY <1>2 DEF LoginsYield, Inactive, Ops
  <2>5. ASSUME NEW p \in Ops PROVE Sound(p)'
    BY <1>1, <1>3, <2>5 DEF Sound, MovedAny, HasDb, HasEnc
  <2> QED BY <2>1, <2>2, <2>3, <2>4, <2>5
<1>6. Earned'
  <2>1. \A p \in Promotions : op'[p].pc = op[p].pc
    BY <1>3 DEF Ops
  <2> QED BY <1>1, <1>4, <2>1 DEF Earned
<1>7. PairsSafe' /\ Recovering'
  BY <1>1, <1>4 DEF PairsSafe, Recovering, Pair, HalfDone
<1>8. OneBackup'
  BY <1>3 DEF OneBackup, MovedAny, HasDb, HasEnc, Inactive
<1>9. ASSUME NEW p \in Ops PROVE Phase(p)' /\ Kept(p)' /\ Bare(p)'
  <2>1. HasDb(p)' = HasDb(p) /\ HasEnc(p)' = HasEnc(p) /\ MovedAny(p)' = MovedAny(p)
    BY <1>3, <1>9 DEF HasDb, HasEnc, MovedAny
  <2>2. Back(p)' = Back(p) /\ Restore(p)' = Restore(p) /\ Discard(p)' = Discard(p)
    BY <2>1 DEF Back, Restore, Discard, When
  <2>3. Backup(p)' = Backup(p)
    BY <1>1, <1>3, <1>9 DEF Backup
  <2>4. Staging(p)' = Staging(p)
    BY <1>1, <1>3, <1>4, <1>9, <2>1, <2>3 DEF Staging, When, Pair
  <2>5. Restoring(p)' = Restoring(p)
    BY <1>1, <1>3, <1>4, <1>9, <2>1, <2>2, <2>3 DEF Restoring, When, Pair
  <2>6. Unsealing' = Unsealing /\ Sealing' = Sealing
    BY <1>1 DEF Unsealing, Sealing
  <2>7. Phase(p)'
    BY <1>1, <1>3, <1>9, <2>1, <2>2, <2>3, <2>4, <2>5, <2>6 DEF Phase, At
  <2>8. Kept(p)'
    BY <1>1, <1>3, <1>9, <2>1, <2>3 DEF Kept
  <2>9. Bare(p)'
    BY <1>1, <1>3, <1>9, <2>1 DEF Bare, At
  <2> QED BY <2>7, <2>8, <2>9
<1> QED BY <1>5, <1>6, <1>7, <1>8, <1>9

\* What holds of the operations holds when none is active.
LEMMA AtRestInv ==
  ASSUME \A o \in Ops : Inactive(o)'
  PROVE  /\ Locked' /\ LoginsYield' /\ OneBackup'
         /\ \A o \in Ops : ~Busy(o)' /\ Phase(o)' /\ Kept(o)' /\ Bare(o)'
<1>1. Locked' /\ LoginsYield' /\ OneBackup'
  BY DEF Locked, LoginsYield, OneBackup, Inactive, Held, Ops
<1>2. \A o \in Ops : ~Busy(o)' /\ Phase(o)' /\ Kept(o)' /\ Bare(o)'
  BY DEF Busy, Working, Phase, Kept, Bare, Held, Inactive, At
<1> QED BY <1>1, <1>2

LEMMA CrashInv ==
  ASSUME Inv, Crash
  PROVE  Inv'
<1> USE DEF Inv, RunInv, FilesInv
<1>1. /\ op' = [o \in Ops |-> IF Inactive(o) THEN op[o] ELSE [op[o] EXCEPT !.pc = "lost"]]
      /\ script' = <<>> /\ cleaner' = NoCleaner /\ booting' = TRUE
      /\ UNCHANGED <<files, rows, cleanups>>
  BY DEF Crash
<1>2. ASSUME NEW o \in Ops
      PROVE  /\ op'[o] \in Jobs /\ op'[o].moved = op[o].moved /\ op'[o].good = op[o].good
             /\ op'[o].pc = IF Inactive(o) THEN op[o].pc ELSE "lost"
  <2>1. op[o] \in Jobs
    BY <1>2 DEF FilesTypeOK
  <2> QED BY <1>1, <1>2, <2>1 DEF Jobs, PCs
<1>3. \A o \in Ops : Inactive(o)'
  BY <1>2 DEF Inactive
<1>4. /\ Locked' /\ LoginsYield' /\ OneBackup'
      /\ \A o \in Ops : ~Busy(o)' /\ Phase(o)' /\ Kept(o)' /\ Bare(o)'
  BY <1>3, AtRestInv
<1>5. FilesTypeOK'
  BY <1>1, <1>2 DEF FilesTypeOK
<1>6. Alone'
  BY <1>1, <1>3, <1>4 DEF Alone
<1>7. ASSUME NEW o \in Ops PROVE Sound(o)'
  BY <1>1, <1>2, <1>7 DEF Sound, MovedAny, HasDb, HasEnc, Inactive
<1>8. Proven' = Proven
  <2>1. \A l \in Logins : op'[l].good = op[l].good
    BY <1>2 DEF Ops
  <2> QED BY <1>1, <2>1 DEF Proven
<1>9. Earned'
  <2>1. \A p \in Promotions : op[p].pc \notin Early => op'[p].pc \notin Early
    BY <1>2 DEF Ops, Early
  <2> QED BY <1>1, <1>8, <2>1 DEF Earned
<1>10. PairsSafe' /\ Recovering'
  BY <1>1, <1>8 DEF PairsSafe, Recovering, Pair, HalfDone
<1> QED BY <1>4, <1>5, <1>6, <1>7, <1>9, <1>10

LEMMA BootInv ==
  ASSUME Inv, Boot
  PROVE  Inv'
<1> USE DEF Inv, RunInv, FilesInv
<1>1. /\ booting /\ cleaner = NoCleaner /\ (\A p \in Promotions : ~HalfDone(p)) /\ booting' = FALSE
      /\ UNCHANGED <<files, op, script, holder, rows, cleaner, cleanups>>
  BY DEF Boot, counts
<1>2. \A o \in Ops : Inactive(o)'
  BY <1>1 DEF Alone, Inactive
<1>3. /\ Locked' /\ LoginsYield' /\ OneBackup'
      /\ \A o \in Ops : ~Busy(o)' /\ Phase(o)' /\ Kept(o)' /\ Bare(o)'
  BY <1>2, AtRestInv
<1>4. FilesTypeOK'
  BY <1>1 DEF FilesTypeOK
<1>5. Alone'
  BY <1>1, <1>3 DEF Alone
<1>6. ASSUME NEW o \in Ops PROVE Sound(o)'
  BY <1>1, <1>6 DEF Sound, MovedAny, HasDb, HasEnc
<1>7. Proven' = Proven
  BY <1>1 DEF Proven
<1>8. Earned'
  BY <1>1, <1>7 DEF Earned
<1>9. PairsSafe' /\ Recovering'
  BY <1>1, <1>7 DEF PairsSafe, Recovering, Pair
<1> QED BY <1>3, <1>4, <1>5, <1>6, <1>8, <1>9

LEMMA CleanerReadsInv ==
  ASSUME Inv, MaxCleanups = 0, NEW p \in Promotions, CleanerReads(p)
  PROVE  Inv'
<1> USE DEF Inv, RunInv, FilesInv
<1>1. booting /\ cleanups' = cleanups
  BY DEF CleanerReads, FilesTypeOK
<1>2. /\ HalfDone(p) /\ UNCHANGED <<files, op, script, holder, rows, booting>>
      /\ cleaner' = [of |-> p, script |-> <<Unlink("db"), Move("dbOld", "db"),
                                           Unlink("enc"), Move("encOld", "enc")>>]
  BY DEF CleanerReads
<1>3. \A o \in Ops : Inactive(o)'
  BY <1>1, <1>2 DEF Alone, Inactive
<1>4. /\ Locked' /\ LoginsYield' /\ OneBackup'
      /\ \A o \in Ops : ~Busy(o)' /\ Phase(o)' /\ Kept(o)' /\ Bare(o)'
  BY <1>3, AtRestInv
<1>5. FilesTypeOK'
  BY <1>1, <1>2 DEF FilesTypeOK
<1>6. Alone'
  BY <1>1, <1>2, <1>3, <1>4 DEF Alone, HalfDone
<1>7. ASSUME NEW o \in Ops PROVE Sound(o)'
  BY <1>2, <1>7 DEF Sound, MovedAny, HasDb, HasEnc
<1>8. Proven' = Proven
  BY <1>2 DEF Proven
<1>9. Earned'
  BY <1>2, <1>8 DEF Earned
<1>10. PairsSafe' /\ Recovering'
  BY <1>2, <1>8 DEF PairsSafe, Recovering, Pair, HalfDone
<1> QED BY <1>4, <1>5, <1>6, <1>7, <1>9, <1>10

LEMMA CleanerWritesInv ==
  ASSUME Inv, CleanerWrites
  PROVE  Inv'
<1> USE DEF Inv, RunInv, FilesInv
<1>1. cleaner.of # None /\ cleaner.script = <<>> /\ cleaner # NoCleaner
  BY DEF CleanerWrites, NoCleaner
<1>2. /\ rows' = [rows EXCEPT ![cleaner.of] = "restored"] /\ cleaner' = NoCleaner
      /\ UNCHANGED <<files, op, script, holder, booting, cleanups>>
  BY DEF CleanerWrites, counts
<1>3. booting /\ cleaner.of \in Promotions /\ rows[cleaner.of] # "complete"
  BY <1>1 DEF Alone, HalfDone
<1>4. /\ rows' \in [Promotions -> {"none", "promoting", "promoted", "complete", "restored"}]
      /\ \A p \in Promotions : rows'[p] = "complete" <=> rows[p] = "complete"
  BY <1>2, <1>3 DEF FilesTypeOK
<1>5. \A o \in Ops : Inactive(o)'
  BY <1>2, <1>3 DEF Alone, Inactive
<1>6. /\ Locked' /\ LoginsYield' /\ OneBackup'
      /\ \A o \in Ops : ~Busy(o)' /\ Phase(o)' /\ Kept(o)' /\ Bare(o)'
  BY <1>5, AtRestInv
<1>7. FilesTypeOK'
  BY <1>2, <1>4 DEF FilesTypeOK
<1>8. Alone'
  BY <1>2, <1>3, <1>5, <1>6 DEF Alone
<1>9. ASSUME NEW o \in Ops PROVE Sound(o)'
  BY <1>2, <1>4, <1>9 DEF Sound, MovedAny, HasDb, HasEnc
<1>10. Proven' = Proven
  BY <1>2, <1>4 DEF Proven
<1>11. Earned'
  BY <1>2, <1>10 DEF Earned
<1>12. Pair(files.db, files.enc)
  BY <1>1, Pairs, Longer DEF Recovering
<1>13. PairsSafe' /\ Recovering'
  BY <1>2, <1>10, <1>12 DEF PairsSafe, Recovering, Pair
<1> QED BY <1>6, <1>7, <1>8, <1>9, <1>11, <1>13

LEMMA CleanerStepInv ==
  ASSUME Inv, CleanerStep
  PROVE  Inv'
<1> USE DEF Inv, RunInv, FilesInv
<1>1. /\ cleaner.script # <<>> /\ cleaner # NoCleaner
      /\ UNCHANGED <<op, script, holder, rows, booting, cleanups>>
  BY DEF CleanerStep, NoCleaner, counts
<1>2. PICK p \in Promotions : /\ booting /\ HalfDone(p)
                              /\ cleaner = [of |-> p, script |-> cleaner.script]
  BY <1>1 DEF Alone
<1>3. /\ files' = Done(Head(cleaner.script), files)
      /\ cleaner' = [of |-> p, script |-> Tail(cleaner.script)]
  BY <1>2 DEF CleanerStep
<1> DEFINE s1 == <<Move("dbOld", "db"), Unlink("enc"), Move("encOld", "enc")>>
           s2 == <<Unlink("enc"), Move("encOld", "enc")>>
           s3 == <<Move("encOld", "enc")>>
<1>4. files \in [Names -> Contents] /\ None \in Contents
  BY DEF FilesTypeOK, Contents
<1>5. \/ Tail(cleaner.script) = s1 /\ files' = [files EXCEPT !["db"] = None]
      \/ /\ Tail(cleaner.script) = s2 /\ files.db = None
         /\ files' = [files EXCEPT !["db"] = files.dbOld, !["dbOld"] = None]
      \/ /\ Tail(cleaner.script) = s3 /\ files.dbOld = None /\ Pair(files.db, files.encOld)
         /\ files' = [files EXCEPT !["enc"] = None]
      \/ /\ Tail(cleaner.script) = <<>> /\ files.enc = None /\ Pair(files.db, files.encOld)
         /\ files' = [files EXCEPT !["enc"] = files.encOld, !["encOld"] = None]
  <2>1. CASE cleaner.script = <<Unlink("db"), Move("dbOld", "db"), Unlink("enc"), Move("encOld", "enc")>>
    <3>1. Head(cleaner.script) = Unlink("db") /\ Tail(cleaner.script) = s1
      BY <2>1, Longer
    <3> QED BY <1>3, <3>1, Unlinks DEF Names
  <2>2. CASE cleaner.script = s1 /\ files.db = None
    <3>1. Head(cleaner.script) = Move("dbOld", "db") /\ Tail(cleaner.script) = s2
      BY <2>2, Longer
    <3>2. files' = Done(Move("dbOld", "db"), files)
      BY <1>3, <3>1
    <3>3. files' = IF files["dbOld"] = None THEN files
                   ELSE [files EXCEPT !["db"] = files["dbOld"], !["dbOld"] = None]
      BY <3>2, MovesBack
    <3> QED BY <1>4, <2>2, <3>1, <3>3 DEF Names
  <2>3. CASE cleaner.script = s2 /\ files.dbOld = None /\ Pair(files.db, files.encOld)
    <3>1. Head(cleaner.script) = Unlink("enc") /\ Tail(cleaner.script) = s3
      BY <2>3, Pairs
    <3> QED BY <1>3, <2>3, <3>1, Unlinks DEF Names
  <2>4. CASE cleaner.script = s3 /\ files.enc = None /\ Pair(files.db, files.encOld)
    <3>1. Head(cleaner.script) = Move("encOld", "enc") /\ Tail(cleaner.script) = <<>>
      BY <2>4, Pairs
    <3>2. files' = Done(Move("encOld", "enc"), files)
      BY <1>3, <3>1
    <3>3. files' = IF files["encOld"] = None THEN files
                   ELSE [files EXCEPT !["enc"] = files["encOld"], !["encOld"] = None]
      BY <3>2, MovesBack
    <3> QED BY <1>4, <2>4, <3>1, <3>3 DEF Names
  <2> QED BY <1>1, <2>1, <2>2, <2>3, <2>4 DEF Recovering
<1> HIDE DEF s1, s2, s3
<1>6. /\ files' \in [Names -> Contents]
      /\ \A n \in Names : files'[n] = None \/ \E k \in Names : files'[n] = files[k]
  BY <1>4, <1>5 DEF Names
<1>7. \A o \in Ops : Inactive(o)'
  BY <1>1, <1>2 DEF Alone, Inactive
<1>8. /\ Locked' /\ LoginsYield' /\ OneBackup'
      /\ \A o \in Ops : ~Busy(o)' /\ Phase(o)' /\ Kept(o)' /\ Bare(o)'
  BY <1>7, AtRestInv
<1>9. FilesTypeOK'
  BY <1>1, <1>6 DEF FilesTypeOK
<1>10. Alone'
  BY <1>1, <1>2, <1>3, <1>7, <1>8 DEF Alone, HalfDone
<1>11. ASSUME NEW o \in Ops PROVE Sound(o)'
  BY <1>1, <1>11 DEF Sound, MovedAny, HasDb, HasEnc
<1>12. Proven' = Proven
  BY <1>1 DEF Proven
<1>13. Earned'
  BY <1>1, <1>6, <1>12 DEF Earned
<1>14. PairsSafe'
  <2>1. files'.dbOld \in {files.dbOld, None} /\ files'.encOld \in {files.encOld, None}
    BY <1>4, <1>5 DEF Names
  <2>2. Pair(files.dbOld, files.encOld)' /\ (booting /\ HalfDone(p))'
    BY <1>1, <1>2, <1>12, <2>1, Tokens DEF PairsSafe, Pair, Ops, Unused, HalfDone
  <2> QED BY <2>2 DEF PairsSafe
<1>15. Recovering'
  <2>1. cleaner'.script = Tail(cleaner.script)
    BY <1>3
  <2>2. CASE Tail(cleaner.script) = s1 /\ files' = [files EXCEPT !["db"] = None]
    BY <1>4, <2>1, <2>2 DEF Recovering, Names, s1
  <2>3. CASE /\ Tail(cleaner.script) = s2 /\ files.db = None
             /\ files' = [files EXCEPT !["db"] = files.dbOld, !["dbOld"] = None]
    <3>1. Pair(files.db, files.encOld)'
      BY <1>4, <1>12, <2>3 DEF PairsSafe, Pair, Names
    <3> QED BY <1>4, <2>1, <2>3, <3>1 DEF Recovering, Names, s2
  <2>4. CASE /\ Tail(cleaner.script) = s3 /\ Pair(files.db, files.encOld)
             /\ files' = [files EXCEPT !["enc"] = None]
    <3>1. Pair(files.db, files.encOld)'
      BY <1>4, <1>12, <2>4 DEF Pair, Names
    <3> QED BY <1>4, <2>1, <2>4, <3>1 DEF Recovering, Names, s3
  <2>5. CASE /\ Tail(cleaner.script) = <<>> /\ Pair(files.db, files.encOld)
             /\ files' = [files EXCEPT !["enc"] = files.encOld, !["encOld"] = None]
    <3>1. Pair(files.db, files.enc)'
      BY <1>4, <1>12, <2>5 DEF Pair, Names
    <3> QED BY <2>1, <2>5, <3>1 DEF Recovering
  <2> QED BY <1>5, <2>2, <2>3, <2>4, <2>5
<1> QED BY <1>8, <1>9, <1>10, <1>11, <1>13, <1>14, <1>15

--------------------------------------------------------------------------------
(* The event loop's file operations, by what the operation is at *)

\* No session that worked is lost, and no content comes from elsewhere.
Carried ==
    /\ files' \in [Names -> Contents]
    /\ \A n \in Names : files'[n] \in Unused \/ \E k \in Names : files'[n] = files[k]
    /\ (HasSession => HasSession')
    /\ Pair(files.db, files.enc)' /\ Pair(files.dbOld, files.encOld)'

\* The next point of the script, with what the operations are left alone.
LoopBy(o) ==
    /\ Busy(o) /\ script # <<>> /\ ~booting
    /\ files' = Done(Head(script), files) /\ script' = Tail(script)
    /\ UNCHANGED <<op, rows>>

LEMMA LoopSame ==
  ASSUME NEW o, LoopBy(o)
  PROVE  /\ Proven' = Proven
         /\ HasDb(o)' = HasDb(o) /\ HasEnc(o)' = HasEnc(o) /\ MovedAny(o)' = MovedAny(o)
         /\ Back(o)' = Back(o) /\ Restore(o)' = Restore(o) /\ Discard(o)' = Discard(o)
<1>1. UNCHANGED <<op, rows>>
  BY DEF LoopBy
<1>2. Proven' = Proven
  BY <1>1 DEF Proven
<1>3. HasDb(o)' = HasDb(o) /\ HasEnc(o)' = HasEnc(o) /\ MovedAny(o)' = MovedAny(o)
  BY <1>1 DEF HasDb, HasEnc, MovedAny
<1> QED BY <1>2, <1>3 DEF Back, Restore, Discard, When

\* A file is moved to where there is none.
LEMMA Moving ==
  ASSUME Inv, NEW f \in Names, NEW g \in Names, f # g, files[g] \notin Proven, Proven' = Proven,
         files' = [files EXCEPT ![g] = files[f], ![f] = None]
  PROVE  /\ files' \in [Names -> Contents]
         /\ \A n \in Names : files'[n] \in Unused \/ \E k \in Names : files'[n] = files[k]
         /\ HasSession => HasSession'
<1>1. files \in [Names -> Contents] /\ None \in Contents
  BY DEF Inv, RunInv, FilesTypeOK, Contents
<1>2. files' \in [Names -> Contents]
  BY <1>1
<1>3. files'[g] = files[f] /\ files'[f] = None /\ \A n \in Names \ {f, g} : files'[n] = files[n]
  BY <1>1
<1> QED BY <1>2, <1>3 DEF HasSession, Unused

\* A file without the last session that worked gets another content.
LEMMA Writing ==
  ASSUME Inv, NEW f \in Names, NEW c \in Contents, Proven' = Proven,
         files' = [files EXCEPT ![f] = c],
         c \in Unused \/ \E k \in Names : c = files[k],
         files[f] \in Proven => \E k \in Names : files'[k] \in Proven
  PROVE  /\ files' \in [Names -> Contents]
         /\ \A n \in Names : files'[n] \in Unused \/ \E k \in Names : files'[n] = files[k]
         /\ HasSession => HasSession'
<1>1. files \in [Names -> Contents]
  BY DEF Inv, RunInv, FilesTypeOK
<1>2. files' \in [Names -> Contents]
  BY <1>1
<1>3. files'[f] = c /\ \A n \in Names \ {f} : files'[n] = files[n]
  BY <1>1
<1> QED BY <1>2, <1>3 DEF HasSession

LEMMA LoopStaging ==
  ASSUME Inv, NEW o \in Ops, At(o, "staging"), LoopBy(o)
  PROVE  Carried /\ Staging(o)'
<1> USE DEF Inv, RunInv, FilesInv
<1> DEFINE second == When(HasEnc(o), Move("enc", "encOld"), <<>>)
<1>1. /\ files' = Done(Head(script), files) /\ script' = Tail(script) /\ script # <<>> /\ op' = op
      /\ files \in [Names -> Contents]
  BY DEF LoopBy, FilesTypeOK
<1>2. /\ Proven' = Proven /\ HasDb(o)' = HasDb(o) /\ HasEnc(o)' = HasEnc(o)
      /\ None \notin Proven /\ None \notin Promotions
  BY LoopSame, Tokens DEF Ops, Unused
<1>3. Pair(files.db, files.enc) /\ Staging(o)
  BY DEF PairsSafe, Phase, LoopBy
<1>4. CASE /\ HasDb(o) /\ script = When(HasDb(o), Move("db", "dbOld"), second)
           /\ files.db = op[o].moved.db /\ files.enc = op[o].moved.enc
           /\ files.dbOld = None /\ files.encOld = None
  <2>1. Head(script) = Move("db", "dbOld") /\ script' = second
    BY <1>1, <1>4, StageScript
  <2>2. files["db"] # None
    BY <1>4 DEF HasDb
  <2>3. files' = [files EXCEPT !["dbOld"] = files["db"], !["db"] = None]
    BY <1>1, <2>1, <2>2, Moves DEF Names
  <2>4. /\ files'.db = None /\ files'.enc = files.enc
        /\ files'.dbOld = files.db /\ files'.encOld = None
    BY <1>1, <1>4, <2>3 DEF Names
  <2>5. Carried
    <3>1. files["dbOld"] \notin Proven
      BY <1>2, <1>4
    <3>2. /\ files' \in [Names -> Contents]
          /\ \A n \in Names : files'[n] \in Unused \/ \E k \in Names : files'[n] = files[k]
          /\ HasSession => HasSession'
      BY <1>2, <2>3, <3>1, Moving DEF Names
    <3>3. Pair(files.db, files.enc)' /\ Pair(files.dbOld, files.encOld)'
      BY <1>2, <2>4 DEF Pair
    <3> QED BY <3>2, <3>3 DEF Carried
  <2>6. Staging(o)'
    <3>1. Pair(files.dbOld, files.enc)'
      BY <1>2, <1>3, <2>4 DEF Pair
    <3>2. script' = When(HasEnc(o)', Move("enc", "encOld"), <<>>)
      BY <1>2, <2>1
    <3> QED BY <1>1, <1>2, <1>4, <2>4, <3>1, <3>2 DEF Staging
  <2> QED BY <2>5, <2>6
<1>5. CASE /\ script = second /\ files.db = None
           /\ files.enc = op[o].moved.enc /\ files.dbOld = op[o].moved.db /\ files.encOld = None
           /\ Pair(files.dbOld, files.enc)
  <2>1. /\ Head(script) = Move("enc", "encOld") /\ script' = <<>> /\ files["enc"] # None
    BY <1>1, <1>5, StageScript DEF HasEnc
  <2>2. files' = [files EXCEPT !["encOld"] = files["enc"], !["enc"] = None]
    BY <1>1, <2>1, Moves DEF Names
  <2>3. /\ files'.db = None /\ files'.enc = None
        /\ files'.dbOld = files.dbOld /\ files'.encOld = files.enc
    BY <1>1, <1>5, <2>2 DEF Names
  <2>4. Carried
    <3>1. files["encOld"] \notin Proven
      BY <1>2, <1>5
    <3>2. /\ files' \in [Names -> Contents]
          /\ \A n \in Names : files'[n] \in Unused \/ \E k \in Names : files'[n] = files[k]
          /\ HasSession => HasSession'
      BY <1>2, <2>2, <3>1, Moving DEF Names
    <3>3. Pair(files.db, files.enc)' /\ Pair(files.dbOld, files.encOld)'
      BY <1>2, <1>5, <2>3 DEF Pair
    <3> QED BY <3>2, <3>3 DEF Carried
  <2>5. Staging(o)'
    BY <1>1, <1>5, <2>1, <2>3 DEF Staging, Backup
  <2> QED BY <2>4, <2>5
<1>6. ~HasDb(o) => When(HasDb(o), Move("db", "dbOld"), second) = second
  BY StageScript
<1>7. Pair(None, files.enc)
  BY <1>2 DEF Pair
<1> QED BY <1>1, <1>3, <1>4, <1>5, <1>6, <1>7 DEF Staging, HasDb

LEMMA LoopUnsealing ==
  ASSUME Inv, NEW o \in Ops, At(o, "unsealing"), LoopBy(o)
  PROVE  /\ Carried /\ Unsealing'
         /\ files'.dbOld = files.dbOld /\ files'.encOld = files.encOld /\ files'.enc = files.enc
         /\ files'.db \in {"blank", files.enc}
<1> USE DEF Inv, RunInv, FilesInv
<1>1. /\ files' = Done(Head(script), files) /\ script' = Tail(script) /\ script # <<>>
      /\ files \in [Names -> Contents]
  BY DEF LoopBy, FilesTypeOK
<1>2. /\ Proven' = Proven /\ None \notin Proven /\ "blank" \notin Proven /\ "blank" \notin Promotions
  BY LoopSame, Tokens DEF Ops, Unused
<1>3. Pair(files.dbOld, files.encOld) /\ Unsealing
  BY DEF PairsSafe, Phase
<1>4. PICK c \in {"blank", files.enc} :
         /\ files' = [files EXCEPT !["db"] = c] /\ files["db"] \notin Proven
         /\ script' \in {<<Copy("enc", "db")>>, <<>>}
         /\ script' # <<>> => c = "blank"
  <2>1. CASE script = <<Blank("db"), Copy("enc", "db")>> /\ files.db = None
    <3>1. Head(script) = Blank("db") /\ Tail(script) = <<Copy("enc", "db")>>
      BY <2>1, Pairs
    <3>2. files' = [files EXCEPT !["db"] = "blank"]
      BY <1>1, <3>1, Blanks DEF Names
    <3> QED BY <1>1, <1>2, <2>1, <3>1, <3>2
  <2>2. CASE script = <<Copy("enc", "db")>> /\ files.db = "blank"
    <3>1. Head(script) = Copy("enc", "db") /\ Tail(script) = <<>>
      BY <2>2, Pairs
    <3>2. files' = [files EXCEPT !["db"] = files["enc"]]
      BY <1>1, <3>1, Copies DEF Names
    <3> QED BY <1>1, <1>2, <2>2, <3>1, <3>2
  <2> QED BY <1>1, <1>3, <2>1, <2>2 DEF Unsealing
<1>5. /\ files'.db = c /\ files'.enc = files.enc
      /\ files'.dbOld = files.dbOld /\ files'.encOld = files.encOld
  BY <1>1, <1>4 DEF Names
<1>6. Unsealing'
  BY <1>4, <1>5 DEF Unsealing
<1>7. Carried
  <2>1. c \in Contents /\ (c \in Unused \/ \E k \in Names : c = files[k])
    BY <1>1 DEF Contents, Unused, Names
  <2>2. /\ files' \in [Names -> Contents]
        /\ \A n \in Names : files'[n] \in Unused \/ \E k \in Names : files'[n] = files[k]
        /\ HasSession => HasSession'
    BY <1>2, <1>4, <2>1, Writing DEF Names
  <2>3. Pair(files.db, files.enc)' /\ Pair(files.dbOld, files.encOld)'
    BY <1>2, <1>3, <1>5 DEF Pair
  <2> QED BY <2>2, <2>3 DEF Carried
<1> QED BY <1>4, <1>5, <1>6, <1>7

LEMMA LoopSealing ==
  ASSUME Inv, NEW o \in Ops, At(o, "sealing"), LoopBy(o)
  PROVE  /\ Carried /\ Sealing'
         /\ files'.dbOld = files.dbOld /\ files'.encOld = files.encOld
         /\ \/ /\ script = <<Copy("db", "enc"), Unlink("db")>>
               /\ files.enc = None \/ HasToken(files.db)
               /\ files'.db = files.db /\ files'.enc = files.db
            \/ /\ script # <<Copy("db", "enc"), Unlink("db")>>
               /\ files'.db = None /\ files'.enc = files.enc
<1> USE DEF Inv, RunInv, FilesInv
<1>1. /\ files' = Done(Head(script), files) /\ script' = Tail(script) /\ script # <<>>
      /\ files \in [Names -> Contents]
  BY DEF LoopBy, FilesTypeOK
<1>2. /\ Proven' = Proven /\ None \notin Proven /\ "blank" \notin Proven /\ None \notin Promotions
  BY LoopSame, Tokens DEF Ops, Unused
<1>3. Pair(files.db, files.enc) /\ Pair(files.dbOld, files.encOld) /\ Sealing
  BY DEF PairsSafe, Phase, LoopBy
<1>4. CASE /\ script = <<Copy("db", "enc"), Unlink("db")>>
           /\ files.db # None /\ (files.enc = None \/ HasToken(files.db))
  <2>1. Head(script) = Copy("db", "enc") /\ script' = <<Unlink("db")>>
    BY <1>1, <1>4, Pairs
  <2>2. files' = [files EXCEPT !["enc"] = files["db"]]
    BY <1>1, <2>1, Copies DEF Names
  <2>3. /\ files'.db = files.db /\ files'.enc = files.db
        /\ files'.dbOld = files.dbOld /\ files'.encOld = files.encOld
    BY <1>1, <2>2 DEF Names
  <2>4. files["enc"] \in Proven => files'["db"] \in Proven
    <3> SUFFICES ASSUME files["enc"] \in Proven PROVE files["db"] \in Proven
      BY <2>3
    <3>1. files["db"] \notin {None, "blank"}
      BY <1>2, <1>4 DEF HasToken
    <3>2. files["db"] \in Proven \/ files["db"] \in Promotions
      BY <3>1 DEF Earned, Names
    <3> QED BY <1>3, <3>2 DEF Pair
  <2>5. Carried
    <3>1. files["db"] \in Contents
      BY <1>1 DEF Names
    <3>2. /\ files' \in [Names -> Contents]
          /\ \A n \in Names : files'[n] \in Unused \/ \E k \in Names : files'[n] = files[k]
          /\ HasSession => HasSession'
      BY <1>2, <2>2, <2>4, <3>1, Writing DEF Names
    <3>3. Pair(files.db, files.enc)' /\ Pair(files.dbOld, files.encOld)'
      BY <1>2, <1>3, <2>3 DEF Pair
    <3> QED BY <3>2, <3>3 DEF Carried
  <2>6. Sealing'
    BY <2>1, <2>3 DEF Sealing
  <2> QED BY <1>4, <2>3, <2>5, <2>6
<1>5. CASE script = <<Unlink("db")>> /\ (files.enc = files.db \/ files.db = "blank")
  <2>1. Head(script) = Unlink("db") /\ script' = <<>>
    BY <1>1, <1>5, Pairs
  <2>2. files' = [files EXCEPT !["db"] = None]
    BY <1>1, <2>1, Unlinks DEF Names
  <2>3. /\ files'.db = None /\ files'.enc = files.enc
        /\ files'.dbOld = files.dbOld /\ files'.encOld = files.encOld
    BY <1>1, <2>2 DEF Names
  <2>4. files["db"] \in Proven => files'["enc"] \in Proven
    BY <1>2, <1>5, <2>3
  <2>5. Carried
    <3>1. None \in Contents /\ None \in Unused
      BY DEF Contents, Unused
    <3>2. /\ files' \in [Names -> Contents]
          /\ \A n \in Names : files'[n] \in Unused \/ \E k \in Names : files'[n] = files[k]
          /\ HasSession => HasSession'
      BY <1>2, <2>2, <2>4, <3>1, Writing DEF Names
    <3>3. Pair(files.db, files.enc)' /\ Pair(files.dbOld, files.encOld)'
      BY <1>2, <1>3, <2>3 DEF Pair
    <3> QED BY <3>2, <3>3 DEF Carried
  <2>6. Sealing'
    BY <2>1, <2>3 DEF Sealing
  <2>7. script # <<Copy("db", "enc"), Unlink("db")>>
    BY <1>5, Pairs DEF Unlink, Copy
  <2> QED BY <2>3, <2>5, <2>6, <2>7
<1> QED BY <1>1, <1>3, <1>4, <1>5 DEF Sealing

LEMMA LoopRestoring ==
  ASSUME Inv, NEW o \in Ops, At(o, "restoring"), LoopBy(o)
  PROVE  Carried /\ MovedAny(o) /\ Restoring(o)'
<1> USE DEF Inv, RunInv, FilesInv
<1> DEFINE last == When(HasDb(o), Move("dbOld", "db"), <<>>)
           rest == When(HasEnc(o), Unlink("enc"), Back(o))
<1>1. /\ files' = Done(Head(script), files) /\ script' = Tail(script) /\ script # <<>>
      /\ files \in [Names -> Contents] /\ op' = op
  BY DEF LoopBy, FilesTypeOK
<1>2. /\ Proven' = Proven /\ HasDb(o)' = HasDb(o) /\ HasEnc(o)' = HasEnc(o) /\ Back(o)' = Back(o)
      /\ None \notin Proven /\ "blank" \notin Proven
      /\ None \notin Promotions /\ "blank" \notin Promotions
  BY LoopSame, Tokens DEF Ops, Unused
<1>3. o \notin Proven
  BY Tokens, FilesAssumption DEF Proven, Sound, At
<1>4. MovedAny(o) /\ Restoring(o) /\ Pair(files.dbOld, files.encOld)
  BY <1>1 DEF Phase, PairsSafe
<1>5. None \in Contents /\ None \in Unused
  BY DEF Contents, Unused
<1>6. CASE /\ HasDb(o) /\ script = Restore(o) /\ Backup(o)
           /\ files.db \in Unused /\ files.enc \in Unused \cup {o}
  <2>1. Head(script) = Unlink("db") /\ script' = rest
    BY <1>1, <1>6, RestoreScript
  <2>2. files' = [files EXCEPT !["db"] = None]
    BY <1>1, <2>1, Unlinks DEF Names
  <2>3. /\ files'.db = None /\ files'.enc = files.enc
        /\ files'.dbOld = files.dbOld /\ files'.encOld = files.encOld
    BY <1>1, <2>2 DEF Names
  <2>4. Carried
    <3>1. files["db"] \notin Proven
      BY <1>2, <1>6 DEF Unused
    <3>2. /\ files' \in [Names -> Contents]
          /\ \A n \in Names : files'[n] \in Unused \/ \E k \in Names : files'[n] = files[k]
          /\ HasSession => HasSession'
      BY <1>2, <1>5, <2>2, <3>1, Writing DEF Names
    <3>3. Pair(files.db, files.enc)' /\ Pair(files.dbOld, files.encOld)'
      BY <1>2, <1>4, <2>3 DEF Pair
    <3> QED BY <3>2, <3>3 DEF Carried
  <2>5. script' = When(HasEnc(o)', Unlink("enc"), Back(o)')
    BY <1>2, <2>1
  <2>6. Restoring(o)'
    BY <1>1, <1>2, <1>6, <2>3, <2>5 DEF Restoring, Backup
  <2> QED BY <1>4, <2>4, <2>6
<1>7. CASE /\ HasEnc(o) /\ script = rest /\ Backup(o)
           /\ files.db \in Unused /\ (HasDb(o) => files.db = None) /\ files.enc \in Unused \cup {o}
  <2>1. Head(script) = Unlink("enc") /\ script' = Back(o)
    BY <1>1, <1>7, RestoreScript
  <2>2. files' = [files EXCEPT !["enc"] = None]
    BY <1>1, <2>1, Unlinks DEF Names
  <2>3. /\ files'.db = files.db /\ files'.enc = None
        /\ files'.dbOld = files.dbOld /\ files'.encOld = files.encOld
    BY <1>1, <2>2 DEF Names
  <2>4. Carried
    <3>1. files["enc"] \notin Proven
      BY <1>2, <1>3, <1>7 DEF Unused
    <3>2. /\ files' \in [Names -> Contents]
          /\ \A n \in Names : files'[n] \in Unused \/ \E k \in Names : files'[n] = files[k]
          /\ HasSession => HasSession'
      BY <1>2, <1>5, <2>2, <3>1, Writing DEF Names
    <3>3. Pair(files.db, files.enc)' /\ Pair(files.dbOld, files.encOld)'
      BY <1>2, <1>4, <2>3 DEF Pair
    <3> QED BY <3>2, <3>3 DEF Carried
  <2>5. Restoring(o)'
    BY <1>1, <1>2, <1>7, <2>1, <2>3 DEF Restoring, Backup
  <2> QED BY <1>4, <2>4, <2>5
<1>8. CASE /\ HasEnc(o) /\ script = Back(o) /\ Backup(o) /\ files.enc = None
           /\ files.db \in Unused /\ (HasDb(o) => files.db = None)
  <2>1. Head(script) = Move("encOld", "enc") /\ script' = last /\ files["encOld"] # None
    BY <1>1, <1>8, RestoreScript DEF HasEnc, Backup
  <2>2. files' = [files EXCEPT !["enc"] = files["encOld"], !["encOld"] = None]
    BY <1>1, <2>1, Moves DEF Names
  <2>3. /\ files'.db = files.db /\ files'.enc = files.encOld
        /\ files'.dbOld = files.dbOld /\ files'.encOld = None
    BY <1>1, <2>2 DEF Names
  <2>4. Carried
    <3>1. files["enc"] \notin Proven
      BY <1>2, <1>8
    <3>2. /\ files' \in [Names -> Contents]
          /\ \A n \in Names : files'[n] \in Unused \/ \E k \in Names : files'[n] = files[k]
          /\ HasSession => HasSession'
      BY <1>2, <2>2, <3>1, Moving DEF Names
    <3>3. Pair(files.db, files.enc)' /\ Pair(files.dbOld, files.encOld)'
      BY <1>2, <1>8, <2>3 DEF Pair, Unused
    <3> QED BY <3>2, <3>3 DEF Carried
  <2>5. Pair(files.dbOld, files.enc)'
    BY <1>2, <1>4, <2>3 DEF Pair
  <2>6. script' = When(HasDb(o)', Move("dbOld", "db"), <<>>)
    BY <1>2, <2>1
  <2>7. Restoring(o)'
    BY <1>1, <1>2, <1>8, <2>3, <2>5, <2>6 DEF Restoring, Backup
  <2> QED BY <1>4, <2>4, <2>7
<1>9. CASE /\ HasDb(o) /\ script = last
           /\ files.dbOld = op[o].moved.db /\ (HasEnc(o) => files.enc = op[o].moved.enc)
           /\ files.db = None /\ Pair(files.dbOld, files.enc)
  <2>1. Head(script) = Move("dbOld", "db") /\ script' = <<>> /\ files["dbOld"] # None
    BY <1>1, <1>9, RestoreScript DEF HasDb
  <2>2. files' = [files EXCEPT !["db"] = files["dbOld"], !["dbOld"] = None]
    BY <1>1, <2>1, Moves DEF Names
  <2>3. /\ files'.db = files.dbOld /\ files'.enc = files.enc
        /\ files'.dbOld = None /\ files'.encOld = files.encOld
    BY <1>1, <2>2 DEF Names
  <2>4. Carried
    <3>1. files["db"] \notin Proven
      BY <1>2, <1>9
    <3>2. /\ files' \in [Names -> Contents]
          /\ \A n \in Names : files'[n] \in Unused \/ \E k \in Names : files'[n] = files[k]
          /\ HasSession => HasSession'
      BY <1>2, <2>2, <3>1, Moving DEF Names
    <3>3. Pair(files.db, files.enc)' /\ Pair(files.dbOld, files.encOld)'
      BY <1>2, <1>9, <2>3 DEF Pair
    <3> QED BY <3>2, <3>3 DEF Carried
  <2>5. Restoring(o)'
    BY <1>1, <1>2, <1>9, <2>1, <2>3 DEF Restoring
  <2> QED BY <1>4, <2>4, <2>5
<1>10. /\ ~HasDb(o) => Restore(o) = rest /\ last = <<>> /\ HasEnc(o)
       /\ ~HasEnc(o) => rest = Back(o) /\ Back(o) = last
  BY <1>4, RestoreScript DEF MovedAny
<1>11. files.enc \in Unused \cup {o} => Pair(files.dbOld, files.enc)
  BY <1>2, <1>3 DEF Pair, Unused
<1>12. CASE /\ script = Restore(o) /\ Backup(o)
            /\ files.db \in Unused /\ files.enc \in Unused \cup {o}
  BY <1>6, <1>7, <1>10, <1>12
<1>13. CASE /\ script = rest /\ Backup(o)
            /\ HasDb(o) /\ files.db = None /\ files.enc \in Unused \cup {o}
  BY <1>5, <1>7, <1>9, <1>10, <1>11, <1>13 DEF Backup
<1>14. CASE /\ script = last
            /\ files.dbOld = op[o].moved.db /\ HasEnc(o) /\ files.enc = op[o].moved.enc
            /\ files.db \in Unused /\ (HasDb(o) => files.db = None)
            /\ Pair(files.dbOld, files.enc)
  BY <1>1, <1>9, <1>10, <1>14
<1> QED BY <1>1, <1>4, <1>8, <1>12, <1>13, <1>14 DEF Restoring

LEMMA LoopDiscarding ==
  ASSUME Inv, NEW o \in Ops, At(o, "discarding"), LoopBy(o)
  PROVE  /\ Carried /\ MovedAny(o) /\ files'.enc = o
         /\ script' \in {<<Unlink("encOld")>>, <<>>}
<1> USE DEF Inv, RunInv, FilesInv
<1> DEFINE second == When(HasEnc(o), Unlink("encOld"), <<>>)
<1>1. /\ files' = Done(Head(script), files) /\ script' = Tail(script) /\ script # <<>>
      /\ files \in [Names -> Contents]
  BY DEF LoopBy, FilesTypeOK
<1>2. Proven' = Proven /\ None \notin Proven /\ None \notin Promotions
  BY LoopSame, Tokens DEF Ops, Unused
<1>3. MovedAny(o) /\ files.enc = o /\ script \in {Discard(o), <<Unlink("encOld")>>}
  BY <1>1 DEF Phase
<1>4. o \in Proven
  <2>1. o \in Logins \cup Promotions /\ op[o].good /\ (o \in Promotions => rows[o] = "complete")
    BY <1>3 DEF Sound, Logins, At
  <2> QED BY <2>1 DEF Proven
<1>5. Pair(files.db, files.enc) /\ Pair(files.dbOld, files.encOld)
  BY DEF PairsSafe, LoopBy
<1>6. second \in {<<Unlink("encOld")>>, <<>>} /\ second \in Seq(Steps)
  <2>1. Unlink("encOld") \in Steps
    BY StepTypes DEF Names
  <2>2. <<Unlink("encOld")>> \in Seq(Steps) /\ <<>> \in Seq(Steps)
    BY <2>1
  <2> QED BY <2>2, DiscardScript
<1>7. PICK f \in {"dbOld", "encOld"} : /\ Head(script) = Unlink(f)
                                      /\ Tail(script) \in {<<Unlink("encOld")>>, <<>>}
  <2>1. CASE script = <<Unlink("dbOld")>> \o second
    <3>1. Unlink("dbOld") \in Steps
      BY StepTypes DEF Names
    <3>2. Head(script) = Unlink("dbOld") /\ Tail(script) = second
      BY <1>6, <2>1, <3>1, FirstOf
    <3> QED BY <1>6, <3>2
  <2>2. CASE script = <<Unlink("encOld")>>
    BY <2>2, Pairs
  <2> QED BY <1>1, <1>3, <1>6, <2>1, <2>2, DiscardScript
<1>8. files' = [files EXCEPT ![f] = None] /\ f \in Names
  BY <1>1, <1>7, Unlinks DEF Names
<1>9. /\ files'.db = files.db /\ files'.enc = files.enc
      /\ files'.dbOld \in {files.dbOld, None} /\ files'.encOld \in {files.encOld, None}
  BY <1>1, <1>7, <1>8 DEF Names
<1>10. Carried
  <2>1. None \in Contents /\ None \in Unused /\ files'["enc"] \in Proven
    BY <1>3, <1>4, <1>9 DEF Contents, Unused
  <2>2. /\ files' \in [Names -> Contents]
        /\ \A n \in Names : files'[n] \in Unused \/ \E k \in Names : files'[n] = files[k]
        /\ HasSession => HasSession'
    BY <1>2, <1>8, <2>1, Writing DEF Names
  <2>3. Pair(files.db, files.enc)' /\ Pair(files.dbOld, files.encOld)'
    BY <1>2, <1>5, <1>9 DEF Pair
  <2> QED BY <2>2, <2>3 DEF Carried
<1> QED BY <1>1, <1>3, <1>7, <1>9, <1>10

LEMMA LoopPhase ==
  ASSUME Inv, NEW o \in Ops, LoopBy(o)
  PROVE  /\ Carried /\ Phase(o)'
         /\ \/ MovedAny(o) /\ op[o].pc \notin Held
            \/ /\ op[o].pc \in {"unsealing", "sealing"}
               /\ files'.dbOld = files.dbOld /\ files'.encOld = files.encOld
               /\ \A c \in {files'.db, files'.enc} : c \in Unused \cup {files.db, files.enc}
<1> USE DEF Inv, RunInv, FilesInv
<1>1. op' = op /\ script # <<>> /\ MovedAny(o)' = MovedAny(o) /\ Discard(o)' = Discard(o)
  BY LoopSame DEF LoopBy
<1>2. op'[o].pc = op[o].pc
  BY <1>1
<1>3. CASE At(o, "staging")
  <2>1. Carried /\ Staging(o)'
    BY <1>3, LoopStaging
  <2>2. MovedAny(o)
    BY <1>1, <1>3, StageScript DEF Phase, Staging, MovedAny
  <2>3. Phase(o)'
    BY <1>2, <1>3, <2>1 DEF Phase, At
  <2> QED BY <1>3, <2>1, <2>2, <2>3 DEF Held, At
<1>4. CASE At(o, "unsealing")
  <2>1. /\ Carried /\ Unsealing'
        /\ files'.dbOld = files.dbOld /\ files'.encOld = files.encOld /\ files'.enc = files.enc
        /\ files'.db \in {"blank", files.enc}
    BY <1>4, LoopUnsealing
  <2>2. Phase(o)'
    BY <1>2, <1>4, <2>1 DEF Phase, At
  <2> QED BY <1>4, <2>1, <2>2 DEF Unused, At
<1>5. CASE At(o, "sealing")
  <2>1. /\ Carried /\ Sealing'
        /\ files'.dbOld = files.dbOld /\ files'.encOld = files.encOld
        /\ \/ files'.db = files.db /\ files'.enc = files.db
           \/ files'.db = None /\ files'.enc = files.enc
    BY <1>5, LoopSealing
  <2>2. Phase(o)'
    BY <1>2, <1>5, <2>1 DEF Phase, At
  <2> QED BY <1>5, <2>1, <2>2 DEF Unused, At
<1>6. CASE At(o, "restoring")
  <2>1. Carried /\ MovedAny(o) /\ Restoring(o)'
    BY <1>6, LoopRestoring
  <2>2. Phase(o)'
    BY <1>1, <1>2, <1>6, <2>1 DEF Phase, At
  <2> QED BY <1>6, <2>1, <2>2 DEF Held, At
<1>7. CASE At(o, "discarding")
  <2>1. /\ Carried /\ MovedAny(o) /\ files'.enc = o
        /\ script' \in {<<Unlink("encOld")>>, <<>>}
    BY <1>7, LoopDiscarding
  <2>2. Phase(o)'
    BY <1>1, <1>2, <1>7, <2>1 DEF Phase, At
  <2> QED BY <1>7, <2>1, <2>2 DEF Held, At
<1>8. ~At(o, "installing")
  BY <1>1 DEF Phase
<1> QED BY <1>3, <1>4, <1>5, <1>6, <1>7, <1>8 DEF LoopBy, Busy, Working, At

LEMMA LoopOwn ==
  ASSUME Inv, NEW o \in Ops, LoopBy(o)
  PROVE  Kept(o)' /\ Bare(o)'
<1> USE DEF Inv, RunInv, FilesInv
<1>1. /\ op' = op /\ script # <<>> /\ script' = Tail(script)
      /\ MovedAny(o)' = MovedAny(o) /\ Busy(o)
  BY LoopSame DEF LoopBy
<1>2. op'[o].pc = op[o].pc /\ op'[o].good = op[o].good /\ op'[o].moved = op[o].moved
  BY <1>1
<1>3. CASE op[o].pc \notin {"unsealing", "sealing"}
  BY <1>1, <1>2, <1>3 DEF Kept, Bare, Held, Busy, Working
<1>4. CASE op[o].pc \in {"unsealing", "sealing"}
  <2>1. /\ Carried /\ files'.dbOld = files.dbOld /\ files'.encOld = files.encOld
    BY <1>4, LoopPhase DEF Held
  <2>2. Bare(o)'
    <3> SUFFICES ASSUME o \in Promotions, ~MovedAny(o) PROVE Bare(o)'
      BY <1>1 DEF Bare
    <3>1. /\ \A n \in Names : files[n] \in Unused \cup {o}
          /\ At(o, "unsealing") => files.dbOld = None /\ files.encOld = None
      BY <1>4 DEF Bare, Held
    <3>2. \A n \in Names : files'[n] \in Unused \cup {o}
      BY <2>1, <3>1 DEF Carried
    <3> QED BY <1>2, <2>1, <3>1, <3>2 DEF Bare, At
  <2>3. Kept(o)'
    <3> SUFFICES ASSUME MovedAny(o) PROVE Kept(o)'
      BY <1>1 DEF Kept
    <3>1. Backup(o) /\ Backup(o)'
      BY <1>2, <1>4, <2>1 DEF Kept, Held, Backup
    <3>2. CASE At(o, "unsealing")
      <4>1. files'.enc = files.enc /\ files'.db \in {"blank", files.enc} /\ ~op[o].good
        BY <3>2, LoopUnsealing DEF Sound, At
      <4> QED BY <1>2, <3>1, <3>2, <4>1 DEF Kept, Held, Unused, At
    <3>3. CASE At(o, "sealing")
      <4>1. CASE /\ script = <<Copy("db", "enc"), Unlink("db")>>
                 /\ files.enc = None \/ HasToken(files.db)
                 /\ files'.db = files.db /\ files'.enc = files.db
        <5>1. script' # <<Copy("db", "enc"), Unlink("db")>>
          BY <1>1, <4>1, Pairs
        <5>2. o \in Promotions => files.db = o
          BY <3>3, <4>1, Tokens DEF Kept, Held, HasToken, Unused, At
        <5>3. o \notin Promotions => IF op[o].good THEN files.db = o ELSE files.db \in Unused
          BY <3>3, <4>1 DEF Kept, Held, At
        <5> QED BY <1>2, <3>1, <4>1, <5>1, <5>2, <5>3 DEF Kept
      <4>2. CASE /\ script # <<Copy("db", "enc"), Unlink("db")>>
                 /\ files'.db = None /\ files'.enc = files.enc
        <5>1. script' # <<Copy("db", "enc"), Unlink("db")>>
          <6>1. script = <<Unlink("db")>>
            BY <1>1, <3>3, <4>2 DEF Phase, Sealing
          <6> QED BY <1>1, <6>1, Pairs
        <5>2. /\ o \in Promotions => files.enc = o
              /\ o \notin Promotions => IF op[o].good THEN files.enc = o ELSE files.enc \in Unused
          BY <3>3, <4>2 DEF Kept, Held, At
        <5> QED BY <1>2, <3>1, <4>2, <5>1, <5>2 DEF Kept, Unused
      <4> QED BY <3>3, <4>1, <4>2, LoopSealing
    <3> QED BY <1>4, <3>2, <3>3 DEF At
  <2> QED BY <2>2, <2>3
<1> QED BY <1>3, <1>4

LEMMA LoopOthers ==
  ASSUME Inv, NEW o \in Ops, LoopBy(o), NEW p \in Ops, p # o
  PROVE  Phase(p)' /\ Kept(p)' /\ Bare(p)'
<1> USE DEF Inv, RunInv, FilesInv
<1>1. op' = op /\ Busy(o)
  BY DEF LoopBy
<1>2. op'[p] = op[p] /\ ~Busy(p) /\ ~Inactive(o)
  BY <1>1 DEF Alone, Busy, Working, Inactive
<1>3. Phase(p)'
  BY <1>2 DEF Phase, Busy, Working, At
<1>4. Bare(p)'
  <2> SUFFICES ASSUME p \in Promotions, ~MovedAny(p), op[p].pc \in Held PROVE Bare(p)'
    BY <1>2 DEF Bare, MovedAny, HasDb, HasEnc
  <2>1. \A n \in Names : files[n] \in Unused \cup {p}
    BY DEF Bare
  <2>2. \A n \in Names : files'[n] \in Unused \cup {p}
    BY <2>1, LoopPhase DEF Carried
  <2> QED BY <1>2, <2>2 DEF Bare, Busy, Working, At
<1>5. Kept(p)'
  <2> SUFFICES ASSUME MovedAny(p), op[p].pc \in Held \cup {"waiting"} PROVE Kept(p)'
    BY <1>2 DEF Kept, MovedAny, HasDb, HasEnc
  <2>1. op[p].pc \in {"online", "waiting"} /\ ~Inactive(p) /\ ~op[p].good
    BY <1>2 DEF Busy, Working, Held, Inactive, Sound
  <2>2. ~MovedAny(o)
    BY <1>2, <2>1 DEF OneBackup
  <2>3. /\ op[o].pc \in {"unsealing", "sealing"}
        /\ files'.dbOld = files.dbOld /\ files'.encOld = files.encOld
        /\ \A c \in {files'.db, files'.enc} : c \in Unused \cup {files.db, files.enc}
    BY <2>2, LoopPhase
  <2>4. p \notin Promotions
    BY <2>1, <2>3 DEF Locked, Held
  <2>5. Backup(p) /\ files.db \in Unused /\ files.enc \in Unused
    BY <2>1, <2>4 DEF Kept
  <2>6. files'.db \in Unused /\ files'.enc \in Unused
    BY <2>3, <2>5
  <2> QED BY <1>2, <2>1, <2>3, <2>4, <2>5, <2>6 DEF Kept, Backup
<1> QED BY <1>3, <1>4, <1>5

LEMMA LoopRuns ==
  ASSUME Inv, LoopStep
  PROVE  \E o \in Ops : LoopBy(o)
BY DEF LoopStep, LoopBy, Inv, RunInv, FilesTypeOK, Alone

LEMMA LoopStepInv ==
  ASSUME Inv, LoopStep
  PROVE  Inv'
<1> USE DEF Inv, RunInv, FilesInv
<1>1. PICK o \in Ops : LoopBy(o)
  BY LoopRuns
<1>2. Carried /\ Phase(o)' /\ Proven' = Proven
  BY <1>1, LoopPhase, LoopSame
<1>3. UNCHANGED <<op, holder, rows, cleaner, booting, cleanups>> /\ ~booting /\ Busy(o)
  BY <1>1 DEF LoopStep, LoopBy, counts
<1>4. \A p \in Ops : Phase(p)' /\ Kept(p)' /\ Bare(p)'
  BY <1>1, <1>2, LoopOwn, LoopOthers
<1>5. FilesTypeOK'
  BY <1>2, <1>3 DEF FilesTypeOK, Carried
<1>6. Alone'
  BY <1>3 DEF Alone, Busy, HalfDone, Inactive
<1>7. Locked' /\ LoginsYield' /\ OneBackup'
  BY <1>3 DEF Locked, LoginsYield, OneBackup, MovedAny, HasDb, HasEnc, Inactive
<1>8. ASSUME NEW p \in Ops PROVE Sound(p)'
  BY <1>3, <1>8 DEF Sound, MovedAny, HasDb, HasEnc
<1>9. Earned'
  <2> SUFFICES ASSUME NEW n \in Names
               PROVE  files'[n] \in {None, "blank"} \cup Proven \cup {p \in Promotions : op[p].pc \notin Early}
    BY <1>2, <1>3 DEF Earned
  <2> QED BY <1>2 DEF Earned, Carried, Unused
<1>10. PairsSafe'
  BY <1>2 DEF PairsSafe, Carried
<1>11. Recovering'
  BY <1>3 DEF Recovering, Alone
<1> QED BY <1>4, <1>5, <1>6, <1>7, <1>8, <1>9, <1>10, <1>11

--------------------------------------------------------------------------------
(* The theorems *)

LEMMA InitInv == Init => Inv
<1> SUFFICES ASSUME Init PROVE Inv
  OBVIOUS
<1>1. /\ \A o \in Ops : op[o] = Idle
      /\ \A p \in Promotions : rows[p] = "none"
      /\ script = <<>> /\ cleaner = NoCleaner /\ booting = FALSE /\ cleanups = 0
  BY DEF Init
<1>2. /\ files \in [Names -> Contents]
      /\ files.db = None /\ files.dbOld = None /\ files.encOld = None
      /\ files.enc \in {None, "first"}
      /\ \A n \in Names : files[n] \in {None, "first"}
  BY DEF Init, NoFiles, Names, Contents
<1>3. FilesTypeOK
  <2>1. Idle \in Jobs
    BY DEF Idle, Jobs, PCs, Contents
  <2> QED BY <1>2, <2>1 DEF Init, FilesTypeOK
<1>4. Alone /\ Locked /\ LoginsYield
  BY <1>1 DEF Alone, Locked, LoginsYield, Inactive, Busy, Working, Held, Idle, Ops
<1>5. \A o \in Ops : Sound(o)
  BY <1>1, Tokens DEF Sound, MovedAny, HasDb, HasEnc, Idle, Unused
<1>6. Earned
  BY <1>2 DEF Earned, Proven
<1>7. PairsSafe /\ Recovering
  BY <1>1, <1>2, Tokens DEF PairsSafe, Recovering, Pair, Ops, Unused
<1>8. OneBackup
  BY <1>1 DEF OneBackup, Inactive, Idle
<1>9. \A o \in Ops : Phase(o) /\ Kept(o) /\ Bare(o)
  BY <1>1 DEF Phase, Kept, Bare, Held, Idle, At
<1> QED BY <1>3, <1>4, <1>5, <1>6, <1>7, <1>8, <1>9 DEF Inv, RunInv, FilesInv

LEMMA StutterInv ==
  ASSUME Inv, UNCHANGED vars
  PROVE  Inv'
<1> USE DEF Inv, RunInv, FilesInv
<1>1. UNCHANGED <<files, op, script, holder, rows, cleaner, booting, cleanups>>
  BY DEF vars, counts
<1>2. RunInv'
  BY <1>1 DEF FilesTypeOK, Alone, Locked, LoginsYield, Sound, MovedAny, HasDb, HasEnc, Busy,
              Inactive, HalfDone
<1>3. Proven' = Proven
  BY <1>1 DEF Proven
<1>4. Earned' /\ PairsSafe' /\ OneBackup' /\ Recovering'
  BY <1>1, <1>3 DEF Earned, PairsSafe, OneBackup, Recovering, Pair, MovedAny, HasDb, HasEnc,
                    Inactive, HalfDone
<1>5. ASSUME NEW p \in Ops PROVE Phase(p)' /\ Kept(p)' /\ Bare(p)'
  <2>1. /\ HasDb(p)' = HasDb(p) /\ HasEnc(p)' = HasEnc(p) /\ MovedAny(p)' = MovedAny(p)
        /\ Backup(p)' = Backup(p)
    BY <1>1 DEF HasDb, HasEnc, MovedAny, Backup
  <2>2. Back(p)' = Back(p) /\ Restore(p)' = Restore(p) /\ Discard(p)' = Discard(p)
    BY <2>1 DEF Back, Restore, Discard, When
  <2>3. Staging(p)' = Staging(p)
    BY <1>1, <1>3, <2>1 DEF Staging, When, Pair
  <2>4. Restoring(p)' = Restoring(p)
    BY <1>1, <1>3, <2>1, <2>2 DEF Restoring, When, Pair
  <2>5. Unsealing' = Unsealing /\ Sealing' = Sealing
    BY <1>1 DEF Unsealing, Sealing
  <2>6. Phase(p)'
    BY <1>1, <2>1, <2>2, <2>3, <2>4, <2>5 DEF Phase, At
  <2>7. Kept(p)' /\ Bare(p)'
    BY <1>1, <2>1 DEF Kept, Bare, At
  <2> QED BY <2>6, <2>7
<1> QED BY <1>2, <1>4, <1>5

LEMMA NextInv == MaxCleanups = 0 /\ Inv /\ [Next]_vars => Inv'
<1> SUFFICES ASSUME MaxCleanups = 0, Inv, [Next]_vars PROVE Inv'
  OBVIOUS
<1>1. CASE UNCHANGED vars
  BY <1>1, StutterInv
<1>2. CASE LoopStep \/ CleanerStep \/ CleanerWrites \/ Crash \/ Boot
  BY <1>2, LoopStepInv, CleanerStepInv, CleanerWritesInv, CrashInv, BootInv
<1>3. ASSUME NEW o \in Fresh, BeginFresh(o) \/ FreshStaged(o) PROVE Inv'
  BY <1>3, BeginFreshInv, FreshStagedInv
<1>4. ASSUME NEW o \in Saved \cup Sends, BeginUse(o) PROVE Inv'
  BY <1>4, BeginUseInv
<1>5. ASSUME NEW o \in Ops \ Promotions,
             GetClient(o) \/ Cancel(o) \/ CancelledWaiting(o) \/ UseSealed(o) \/ UseEnds(o)
      PROVE  Inv'
  BY <1>5, GetClientInv, CancelInv, CancelledWaitingInv, UseSealedInv, UseEndsInv
<1>6. ASSUME NEW o \in Promotions,
             \/ BeginPromotion(o) \/ PromotionStaged(o) \/ Install(o)
             \/ PromotionSealed(o) \/ PromotionEnds(o) \/ CleanerReads(o)
      PROVE  Inv'
  BY <1>6, BeginPromotionInv, PromotionStagedInv, InstallInv, PromotionSealedInv,
     PromotionEndsInv, CleanerReadsInv
<1>7. ASSUME NEW o \in Ops, GoOnline(o) \/ ClientWorks(o) \/ ClientFails(o) PROVE Inv'
  BY <1>7, GoOnlineInv, ClientWorksInv, ClientFailsInv
<1> QED BY <1>1, <1>2, <1>3, <1>4, <1>5, <1>6, <1>7 DEF Next

LEMMA Invariance == MaxCleanups = 0 => (Spec => []Inv)
<1> SUFFICES ASSUME MaxCleanups = 0 PROVE Spec => []Inv
  OBVIOUS
<1>1. Inv /\ [Next]_vars => Inv'
  BY NextInv
<1> QED BY InitInv, <1>1, PTL DEF Spec

\* What a session was proven by stays proven.
LEMMA GoodStays ==
  ASSUME Inv, Next
  PROVE  \A o \in Ops : op[o].good => op'[o].good
<1> SUFFICES ASSUME NEW p \in Ops, op[p].good PROVE op'[p].good
  OBVIOUS
<1>1. op \in [Ops -> Jobs] /\ op[p] \in Jobs
  BY DEF Inv, RunInv, FilesTypeOK
<1>2. ASSUME NEW o \in Ops, NEW c, Goto(o, c) PROVE op'[p].good
  BY <1>1, <1>2 DEF Goto, Jobs
<1>3. ASSUME NEW o \in Ops, StageFor(o) PROVE op'[p].good
  BY <1>1, <1>3 DEF StageFor, Jobs
<1>4. CASE LoopStep \/ CleanerStep \/ CleanerWrites \/ Boot
  BY <1>4 DEF LoopStep, CleanerStep, CleanerWrites, Boot
<1>5. CASE Crash
  BY <1>1, <1>5 DEF Crash, Jobs
<1>6. ASSUME NEW o \in Fresh, BeginFresh(o) \/ FreshStaged(o) PROVE op'[p].good
  BY <1>2, <1>3, <1>6 DEF BeginFresh, FreshStaged, Ops, Logins
<1>7. ASSUME NEW o \in Saved \cup Sends, BeginUse(o) PROVE op'[p].good
  BY <1>2, <1>7 DEF BeginUse, Ops, Logins
<1>8. ASSUME NEW o \in Ops, Cancel(o) PROVE op'[p].good
  BY <1>1, <1>8 DEF Cancel, Jobs
<1>9. ASSUME NEW o \in Ops, GetClient(o) \/ CancelledWaiting(o) \/ UseSealed(o) \/ UseEnds(o)
      PROVE  op'[p].good
  BY <1>2, <1>9 DEF GetClient, CancelledWaiting, UseSealed, UseEnds, Works
<1>10. ASSUME NEW o \in Promotions, BeginPromotion(o) \/ PromotionStaged(o) \/ Install(o)
       PROVE  op'[p].good
  BY <1>2, <1>3, <1>10 DEF BeginPromotion, PromotionStaged, Install, Ops
<1>11. ASSUME NEW o \in Promotions, PromotionSealed(o) \/ PromotionEnds(o) \/ CleanerReads(o)
       PROVE  op'[p].good
  BY <1>2, <1>11 DEF PromotionSealed, PromotionEnds, CleanerReads, Works, Ops
<1>12. ASSUME NEW o \in Ops, GoOnline(o) \/ ClientFails(o) PROVE op'[p].good
  BY <1>2, <1>12 DEF GoOnline, ClientFails, Works
<1>13. ASSUME NEW o \in Ops, ClientWorks(o) PROVE op'[p].good
  BY <1>1, <1>13 DEF ClientWorks, Jobs
<1> QED BY <1>4, <1>5, <1>6, <1>7, <1>8, <1>9, <1>10, <1>11, <1>12, <1>13 DEF Next

LEMMA CompleteStays ==
  ASSUME Inv, Next
  PROVE  \A p \in Promotions : rows[p] = "complete" => rows'[p] = "complete"
<1> SUFFICES ASSUME NEW p \in Promotions, rows[p] = "complete" PROVE rows'[p] = "complete"
  OBVIOUS
<1> USE DEF Inv, RunInv
<1>1. rows \in [Promotions -> {"none", "promoting", "promoted", "complete", "restored"}] /\ p \in Ops
  BY DEF FilesTypeOK, Ops
<1>2. op[p].pc \in {"discarding", "done", "lost"}
  BY <1>1 DEF Sound
<1>3. CASE LoopStep \/ CleanerStep \/ Boot \/ Crash
  BY <1>3 DEF LoopStep, CleanerStep, Boot, Crash
<1>4. CASE CleanerWrites
  <2>1. cleaner.of \in Promotions /\ HalfDone(cleaner.of)
    BY <1>4 DEF CleanerWrites, NoCleaner, Alone
  <2> QED BY <1>1, <1>4, <2>1 DEF CleanerWrites, HalfDone
<1>5. ASSUME NEW o \in Ops,
             \/ BeginFresh(o) \/ FreshStaged(o) \/ BeginUse(o) \/ GetClient(o) \/ Cancel(o)
             \/ CancelledWaiting(o) \/ UseSealed(o) \/ UseEnds(o) \/ GoOnline(o)
             \/ ClientWorks(o) \/ ClientFails(o)
      PROVE  rows'[p] = "complete"
  BY <1>5 DEF BeginFresh, FreshStaged, BeginUse, GetClient, Cancel, CancelledWaiting, UseSealed,
              UseEnds, GoOnline, ClientWorks, ClientFails
<1>6. ASSUME NEW o \in Promotions, BeginPromotion(o) \/ CleanerReads(o) PROVE rows'[p] = "complete"
  BY <1>6 DEF BeginPromotion, CleanerReads
<1>7. ASSUME NEW o \in Promotions, PromotionStaged(o) \/ Install(o) PROVE rows'[p] = "complete"
  BY <1>1, <1>2, <1>7 DEF PromotionStaged, Install, At
<1>8. ASSUME NEW o \in Promotions, PromotionSealed(o) \/ PromotionEnds(o)
      PROVE  rows'[p] = "complete"
  BY <1>1, <1>2, <1>8 DEF PromotionSealed, PromotionEnds, At
<1> QED BY <1>3, <1>4, <1>5, <1>6, <1>7, <1>8 DEF Next, Ops, Logins

LEMMA ProvenGrows ==
  ASSUME Inv, Next
  PROVE  Proven \subseteq Proven'
<1>1. \A l \in Logins : op[l].good => op'[l].good
  BY GoodStays DEF Ops
<1> QED BY <1>1, CompleteStays DEF Proven

\* A recovery never leaves the cleaner as it is.
LEMMA CleanerMoves ==
  ASSUME Inv, CleanerStep \/ CleanerWrites \/ \E p \in Promotions : CleanerReads(p)
  PROVE  cleaner' # cleaner
<1>1. CASE CleanerWrites
  BY <1>1 DEF CleanerWrites, NoCleaner
<1>2. CASE \E p \in Promotions : CleanerReads(p)
  BY <1>2, Longer DEF CleanerReads, NoCleaner
<1>3. CASE CleanerStep
  <2>1. cleaner # NoCleaner /\ cleaner.script # <<>>
    BY <1>3 DEF CleanerStep, NoCleaner
  <2>2. PICK p \in Promotions : cleaner = [of |-> p, script |-> cleaner.script]
    BY <2>1 DEF Inv, RunInv, Alone
  <2>3. cleaner'.script = Tail(cleaner.script)
    BY <1>3, <2>2 DEF CleanerStep
  <2>4. Tail(cleaner.script) # cleaner.script
    <3>1. CASE cleaner.script
               = <<Unlink("db"), Move("dbOld", "db"), Unlink("enc"), Move("encOld", "enc")>>
      <4>1. Tail(cleaner.script) = <<Move("dbOld", "db"), Unlink("enc"), Move("encOld", "enc")>>
        BY <3>1, Longer
      <4> QED BY <3>1, <4>1
    <3>2. CASE cleaner.script = <<Move("dbOld", "db"), Unlink("enc"), Move("encOld", "enc")>>
      <4>1. Tail(cleaner.script) = <<Unlink("enc"), Move("encOld", "enc")>>
        BY <3>2, Longer
      <4> QED BY <3>2, <4>1
    <3>3. CASE cleaner.script = <<Unlink("enc"), Move("encOld", "enc")>>
      <4>1. Tail(cleaner.script) = <<Move("encOld", "enc")>>
        BY <3>3, Pairs
      <4> QED BY <3>3, <4>1
    <3>4. CASE cleaner.script = <<Move("encOld", "enc")>>
      BY <3>4, Pairs
    <3> QED BY <2>1, <3>1, <3>2, <3>3, <3>4 DEF Inv, FilesInv, Recovering
  <2> QED BY <2>3, <2>4
<1> QED BY <1>1, <1>2, <1>3

LEMMA KeepsSession ==
  ASSUME Inv, Next, HasSession, cleaner' = cleaner
  PROVE  HasSession'
<1> USE DEF Inv, RunInv, FilesInv
<1>1. Proven \subseteq Proven'
  BY ProvenGrows
<1>2. CASE files' = files
  BY <1>1, <1>2 DEF HasSession
<1>3. CASE LoopStep
  BY <1>3, LoopRuns, LoopPhase DEF Carried
<1>4. CASE \E o \in Promotions : Install(o)
  <2>1. PICK o \in Promotions : Install(o)
    BY <1>4
  <2>2. files.enc = None /\ files' = [files EXCEPT !["enc"] = o]
    BY <2>1 DEF Install, Phase, Ops
  <2>3. \A n \in Names : n # "enc" => files'[n] = files[n]
    BY <2>2 DEF FilesTypeOK
  <2> QED BY <1>1, <2>2, <2>3, Tokens DEF HasSession
<1>5. CASE \E o \in Ops : ClientWorks(o) \/ ClientFails(o)
  <2>1. PICK c : files' = files \/ (~HasToken(files.db) /\ files' = [files EXCEPT !["db"] = c])
    BY <1>5 DEF ClientWorks, ClientFails, HasToken
  <2>2. CASE ~HasToken(files.db) /\ files' = [files EXCEPT !["db"] = c]
    <3>1. \A n \in Names : n # "db" => files'[n] = files[n]
      BY <2>2 DEF FilesTypeOK
    <3>2. files["db"] \notin Proven
      BY <2>2, Tokens DEF HasToken
    <3> QED BY <1>1, <3>1, <3>2 DEF HasSession
  <2> QED BY <1>2, <2>1, <2>2
<1>6. ~(CleanerStep \/ CleanerWrites \/ \E p \in Promotions : CleanerReads(p))
  BY CleanerMoves
<1>7. CASE \E o \in Ops :
              \/ BeginFresh(o) \/ FreshStaged(o) \/ BeginUse(o) \/ GetClient(o) \/ Cancel(o)
              \/ CancelledWaiting(o) \/ UseSealed(o) \/ UseEnds(o) \/ GoOnline(o)
  <2>1. files' = files
    BY <1>7 DEF BeginFresh, FreshStaged, BeginUse, GetClient, Cancel, CancelledWaiting, UseSealed,
                UseEnds, GoOnline
  <2> QED BY <1>2, <2>1
<1>8. CASE \/ Crash \/ Boot
           \/ \E o \in Promotions : \/ BeginPromotion(o) \/ PromotionStaged(o)
                                    \/ PromotionSealed(o) \/ PromotionEnds(o)
  <2>1. files' = files
    BY <1>8 DEF Crash, Boot, BeginPromotion, PromotionStaged, PromotionSealed, PromotionEnds
  <2> QED BY <1>2, <2>1
<1> QED BY <1>3, <1>4, <1>5, <1>6, <1>7, <1>8 DEF Next, Ops, Logins

\* No step of a login, a send or a promotion removes the last session that
\* worked, nor does a process death in the middle of one (main.py and
\* app/vault.py; the recovery of app/routes_onboarding.py runs at start, when the
\* event loop does nothing else, and its own steps are not claimed for).
THEOREM SessionIsKept == MaxCleanups = 0 => (Spec => WorkKeepsSession)
<1> SUFFICES ASSUME MaxCleanups = 0 PROVE Spec => WorkKeepsSession
  OBVIOUS
<1>1. Spec => []Inv
  BY Invariance
<1>2. Inv /\ [Next]_vars => [HasSession /\ cleaner' = cleaner => HasSession']_vars
  BY KeepsSession
<1> QED BY <1>1, <1>2, PTL DEF Spec, WorkKeepsSession

\* An operation that comes to the end of restoring has put back what it moved.
LEMMA RestoredAll ==
  ASSUME Inv, NEW o \in Ops, At(o, "restoring"), script = <<>>, NEW n \in {"db", "enc"},
         op[o].moved[n] # None
  PROVE  files[n] = op[o].moved[n]
<1>1. MovedAny(o)
  BY DEF MovedAny, HasDb, HasEnc
<1>2. Restoring(o)
  BY <1>1 DEF Inv, FilesInv, Phase
<1> QED BY <1>1, <1>2, RestoreScript DEF Restoring, MovedAny, HasDb, HasEnc

LEMMA OnlyEndsEnd ==
  ASSUME Inv, Next, NEW o \in Ops, op[o].pc = "restoring", op'[o].pc = "done"
  PROVE  script = <<>>
<1>1. op \in [Ops -> Jobs] /\ op[o] \in Jobs
  BY DEF Inv, RunInv, FilesTypeOK
<1>2. CASE LoopStep \/ CleanerStep \/ CleanerWrites \/ Boot
  BY <1>2 DEF LoopStep, CleanerStep, CleanerWrites, Boot
<1>3. CASE Crash
  BY <1>1, <1>3 DEF Crash, Inactive, Jobs
<1>4. ASSUME NEW p \in Fresh, BeginFresh(p) \/ FreshStaged(p) PROVE script = <<>>
  BY <1>4 DEF BeginFresh, FreshStaged, Runs
<1>5. ASSUME NEW p \in Ops, BeginUse(p) \/ GetClient(p) \/ CancelledWaiting(p) \/ Cancel(p)
      PROVE  script = <<>>
  BY <1>5 DEF BeginUse, GetClient, CancelledWaiting, Cancel, Runs
<1>6. ASSUME NEW p \in Ops, UseSealed(p) \/ UseEnds(p) PROVE script = <<>>
  BY <1>6 DEF UseSealed, UseEnds, Runs
<1>7. ASSUME NEW p \in Promotions, BeginPromotion(p) \/ PromotionStaged(p) \/ Install(p)
      PROVE  script = <<>>
  BY <1>7 DEF BeginPromotion, PromotionStaged, Install, Runs
<1>8. ASSUME NEW p \in Promotions, PromotionSealed(p) \/ PromotionEnds(p) PROVE script = <<>>
  BY <1>8 DEF PromotionSealed, PromotionEnds, Runs
<1>9. ASSUME NEW p \in Promotions, CleanerReads(p) PROVE FALSE
  BY <1>9 DEF CleanerReads
<1>10. ASSUME NEW p \in Ops, GoOnline(p) \/ ClientWorks(p) \/ ClientFails(p) PROVE script = <<>>
  BY <1>10 DEF GoOnline, ClientWorks, ClientFails, Answered, Runs
<1> QED BY <1>2, <1>3, <1>4, <1>5, <1>6, <1>7, <1>8, <1>9, <1>10 DEF Next, Ops, Logins

\* What a failed or cancelled login or promotion moved aside is back as it was
\* when it ends (_stage_session_for_reauth, _restore_staged_session), with no
\* cleanup beside the event loop.
THEOREM FailureIsUndone == MaxCleanups = 0 => (Spec => FailureRestores)
<1> SUFFICES ASSUME MaxCleanups = 0 PROVE Spec => FailureRestores
  OBVIOUS
<1>1. Spec => []Inv
  BY Invariance
<1> DEFINE Undone == \A o \in Ops : op[o].pc = "restoring" /\ op'[o].pc = "done"
                       => \A n \in {"db", "enc"} : op[o].moved[n] # None
                                                   => files[n] = op[o].moved[n]
<1>2. Inv /\ [Next]_vars => [Undone]_vars
  <2> SUFFICES ASSUME Inv, Next PROVE Undone
    OBVIOUS
  <2> SUFFICES ASSUME NEW o \in Ops, op[o].pc = "restoring", op'[o].pc = "done",
                      NEW n \in {"db", "enc"}, op[o].moved[n] # None
               PROVE  files[n] = op[o].moved[n]
    OBVIOUS
  <2> QED BY OnlyEndsEnd, RestoredAll DEF At
<1> QED BY <1>1, <1>2, PTL DEF Spec, FailureRestores

================================================================================

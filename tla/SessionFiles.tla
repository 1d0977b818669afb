----------------------------- MODULE SessionFiles -----------------------------
(****************************************************************************)
(* The MAX session of one account on disk: sealed by the vault, unsealed    *)
(* while a client runs, moved aside by a fresh login or by the promotion of *)
(* an onboarding session, put back when that fails (main.py, app/vault.py,  *)
(* app/routes_onboarding.py).                                               *)
(*                                                                          *)
(* The event loop does file operations one by one without an await between  *)
(* them (script), so that no other coroutine runs meanwhile; but the        *)
(* process may die there, and the onboarding cleanup, which is a thread,    *)
(* may run.                                                                 *)
(****************************************************************************)
EXTENDS Naturals, Sequences

CONSTANTS
    Fresh,        \* logins by SMS that replace the session
    Saved,        \* logins with the session there is
    Sends,        \* uses of the session by the campaign worker
    Promotions,   \* onboarding sessions to be installed in this account
    MaxCrashes,   \* bound: process deaths
    MaxCleanups,  \* bound: recoveries run beside the event loop
    None

Logins == Fresh \cup Saved
Ops == Logins \cup Sends \cup Promotions

ASSUME FilesAssumption ==
    /\ MaxCrashes \in Nat /\ MaxCleanups \in Nat
    /\ None \notin {"blank", "first"} /\ {None, "blank", "first"} \cap Ops = {}
    /\ Fresh \cap Saved = {} /\ Logins \cap Sends = {} /\ (Logins \cup Sends) \cap Promotions = {}

VARIABLES
    files,      \* session.db, session.db.enc and their .reauth-previous: None, a
                \* session without a token, or the operation its token is from
    op,         \* where each operation is, what it moved aside, whether it was
                \* cancelled and whether its client worked
    script,     \* file operations the event loop is in the middle of
    holder,     \* the profile's client lock
    rows,       \* onboarding_sessions.promotion_state
    cleaner,    \* the thread in recover_and_cleanup_onboarding
    booting,    \* the process has started and not yet recovered
    crashes, cleanups

counts == <<crashes, cleanups>>
vars == <<files, op, script, holder, rows, cleaner, booting, counts>>

Names == {"db", "enc", "dbOld", "encOld"}
NoFiles == [n \in Names |-> None]
Idle == [pc |-> "idle", moved |-> [db |-> None, enc |-> None], cancelled |-> FALSE, good |-> FALSE]
NoCleaner == [of |-> None, script |-> <<>>]

Init ==
    /\ files \in {NoFiles, [NoFiles EXCEPT !.enc = "first"]}
    /\ op = [o \in Ops |-> Idle]
    /\ script = <<>> /\ holder = None
    /\ rows = [p \in Promotions |-> "none"]
    /\ cleaner = NoCleaner /\ booting = FALSE
    /\ crashes = 0 /\ cleanups = 0

--------------------------------------------------------------------------------
(* File operations *)

HasToken(content) == content \notin {None, "blank"}

Unlink(f) == [do |-> "remove", from |-> f, to |-> f]
Move(f, g) == [do |-> "move", from |-> f, to |-> g]
Copy(f, g) == [do |-> "copy", from |-> f, to |-> g]
Blank(f) == [do |-> "blank", from |-> f, to |-> f]

Done(x, fs) ==
    CASE x.do = "remove" -> [fs EXCEPT ![x.from] = None]
      [] x.do = "blank"  -> [fs EXCEPT ![x.from] = "blank"]
      [] x.do = "copy"   -> [fs EXCEPT ![x.to] = fs[x.from]]
      [] x.do = "move"   -> IF fs[x.from] = None THEN fs
                            ELSE [fs EXCEPT ![x.to] = fs[x.from], ![x.from] = None]

\* decrypt_session_file: a death while it writes leaves an unreadable file.
Unseal == IF files.enc # None /\ files.db = None
          THEN <<Blank("db"), Copy("enc", "db")>> ELSE <<>>

\* Mutant: an empty session replaces the sealed one.
SealAlways(fs) == IF fs.db = None THEN <<>> ELSE <<Copy("db", "enc"), Unlink("db")>>

\* encrypt_session_file: a session without a token does not replace one.
Seal(fs) ==
    IF fs.db = None THEN <<>>
    ELSE IF fs.enc # None /\ ~HasToken(fs.db) THEN <<Unlink("db")>>
    ELSE <<Copy("db", "enc"), Unlink("db")>>

\* A script that begins with a step when there is a file for it.
When(c, step, rest) == IF c THEN <<step>> \o rest ELSE rest

\* _stage_session_for_reauth refuses while there is a backup.
Aside == files.dbOld # None \/ files.encOld # None

Stage == When(files.db # None, Move("db", "dbOld"),
              When(files.enc # None, Move("enc", "encOld"), <<>>))

\* What an operation moved aside.
HasDb(o) == op[o].moved.db # None
HasEnc(o) == op[o].moved.enc # None

\* Mutant: what is in place is not removed, and a backup is not put over it.
RestoreMissing(o) ==
    When(HasDb(o) /\ files.db = None, Move("dbOld", "db"),
         When(HasEnc(o) /\ files.enc = None, Move("encOld", "enc"), <<>>))

\* _restore_staged_session, _discard_staged_session
Back(o) == When(HasEnc(o), Move("encOld", "enc"), When(HasDb(o), Move("dbOld", "db"), <<>>))
Restore(o) == When(HasDb(o), Unlink("db"), When(HasEnc(o), Unlink("enc"), Back(o)))
Discard(o) == When(HasDb(o), Unlink("dbOld"), When(HasEnc(o), Unlink("encOld"), <<>>))

--------------------------------------------------------------------------------
(* Operations *)

At(o, pc) == op[o].pc = pc
Inactive(o) == op[o].pc \in {"idle", "done", "lost"}
Working == {"staging", "installing", "unsealing", "sealing", "restoring", "discarding"}

\* A coroutine runs while no other is between two awaits.
Runs(o) == ~booting /\ script = <<>> /\ \A p \in Ops \ {o} : op[p].pc \notin Working

\* The loop ends a cancelled wait for the lock before it takes the next answer
\* from the network.
Answered(o) == /\ Runs(o) /\ At(o, "online")
               /\ \A p \in Ops : ~(At(p, "waiting") /\ op[p].cancelled)

Goto(o, pc) == op' = [op EXCEPT ![o].pc = pc]
Works(o, pc, todo) == Goto(o, pc) /\ script' = todo

LoopStep ==
    /\ script # <<>>
    /\ files' = Done(Head(script), files) /\ script' = Tail(script)
    /\ UNCHANGED <<op, holder, rows, cleaner, booting, counts>>

StageFor(o) ==
    /\ op' = [op EXCEPT ![o].pc = "staging", ![o].moved = [db |-> files.db, enc |-> files.enc]]
    /\ script' = Stage

\* A login needs an idle worker and no other login, but for one that was
\* cancelled and is still closing.
MayLogIn(o) == /\ \A s \in Sends : Inactive(s)
               /\ \A l \in Logins \ {o} : Inactive(l) \/ op[l].cancelled

BeginFresh(o) ==
    /\ Runs(o) /\ At(o, "idle") /\ MayLogIn(o)
    /\ IF Aside THEN Goto(o, "done") /\ UNCHANGED script ELSE StageFor(o)
    /\ UNCHANGED <<files, holder, rows, cleaner, booting, counts>>

BeginUse(o) ==
    /\ Runs(o) /\ At(o, "idle") /\ (o \in Saved => MayLogIn(o))
    /\ Goto(o, "waiting")
    /\ UNCHANGED <<files, script, holder, rows, cleaner, booting, counts>>

FreshStaged(o) ==
    /\ Runs(o) /\ At(o, "staging") /\ Goto(o, "waiting")
    /\ UNCHANGED <<files, script, holder, rows, cleaner, booting, counts>>

GetClient(o) ==
    /\ Runs(o) /\ At(o, "waiting") /\ ~op[o].cancelled /\ holder = None
    /\ holder' = o /\ Works(o, "unsealing", Unseal)
    /\ UNCHANGED <<files, rows, cleaner, booting, counts>>

\* A promotion moves the old session aside with the lock held.
BeginPromotion(o) ==
    /\ Runs(o) /\ At(o, "idle") /\ holder = None
    /\ IF Aside THEN Goto(o, "done") /\ UNCHANGED <<script, holder>>
       ELSE StageFor(o) /\ holder' = o
    /\ UNCHANGED <<files, rows, cleaner, booting, counts>>

PromotionStaged(o) ==
    /\ Runs(o) /\ At(o, "staging")
    /\ rows' = [rows EXCEPT ![o] = "promoting"] /\ Goto(o, "installing")
    /\ UNCHANGED <<files, script, holder, cleaner, booting, counts>>

Install(o) ==
    /\ Runs(o) /\ At(o, "installing")
    /\ LET new == [files EXCEPT !.enc = o]
       IN /\ files' = new
          /\ script' = IF new.db = None THEN <<Blank("db"), Copy("enc", "db")>> ELSE <<>>
    /\ rows' = [rows EXCEPT ![o] = "promoted"] /\ Goto(o, "unsealing")
    /\ UNCHANGED <<holder, cleaner, booting, counts>>

\* Only a login goes on without a session.
GoOnline(o) ==
    /\ Runs(o) /\ At(o, "unsealing")
    /\ IF HasToken(files.db) \/ o \in Logins
       THEN Goto(o, "online") /\ UNCHANGED script
       ELSE Works(o, "sealing", Seal(files))
    /\ UNCHANGED <<files, holder, rows, cleaner, booting, counts>>

ClientWorks(o) ==
    /\ Answered(o) /\ ~op[o].cancelled
    /\ LET new == IF o \in Logins /\ ~HasToken(files.db) THEN [files EXCEPT !.db = o] ELSE files
       IN files' = new /\ script' = Seal(new)
    /\ op' = [op EXCEPT ![o].pc = "sealing", ![o].good = TRUE]
    /\ UNCHANGED <<holder, rows, cleaner, booting, counts>>

\* The client fails, or is cancelled; it may have made an empty session.
ClientFails(o) ==
    /\ Answered(o)
    /\ \E new \in {files} \cup IF files.db = None THEN {[files EXCEPT !.db = "blank"]} ELSE {} :
          files' = new /\ script' = Seal(new)
    /\ Goto(o, "sealing")
    /\ UNCHANGED <<holder, rows, cleaner, booting, counts>>

Cancel(o) ==
    /\ ~booting /\ script = <<>> /\ op[o].pc \in {"waiting", "online"} /\ ~op[o].cancelled
    /\ op' = [op EXCEPT ![o].cancelled = TRUE]
    /\ UNCHANGED <<files, script, holder, rows, cleaner, booting, counts>>

CancelledWaiting(o) ==
    /\ Runs(o) /\ At(o, "waiting") /\ op[o].cancelled
    /\ Works(o, "restoring", Restore(o))
    /\ UNCHANGED <<files, holder, rows, cleaner, booting, counts>>

\* The lock is released and, without an await, the login ends.
UseSealed(o) ==
    /\ Runs(o) /\ At(o, "sealing") /\ holder' = None
    /\ IF op[o].good THEN Works(o, "discarding", Discard(o))
                     ELSE Works(o, "restoring", Restore(o))
    /\ UNCHANGED <<files, rows, cleaner, booting, counts>>

\* The account may be gone or disabled, the invitation used up: then it fails.
PromotionSealed(o) ==
    /\ Runs(o) /\ At(o, "sealing")
    /\ \/ /\ op[o].good /\ rows' = [rows EXCEPT ![o] = "complete"]
          /\ Works(o, "discarding", Discard(o))
       \/ Works(o, "restoring", Restore(o)) /\ UNCHANGED rows
    /\ UNCHANGED <<files, holder, cleaner, booting, counts>>

UseEnds(o) ==
    /\ Runs(o) /\ op[o].pc \in {"restoring", "discarding"} /\ Goto(o, "done")
    /\ UNCHANGED <<files, script, holder, rows, cleaner, booting, counts>>

PromotionEnds(o) ==
    /\ Runs(o) /\ op[o].pc \in {"restoring", "discarding"} /\ Goto(o, "done")
    /\ holder' = None
    /\ rows' = [rows EXCEPT ![o] = IF At(o, "restoring") THEN "restored" ELSE "complete"]
    /\ UNCHANGED <<files, script, cleaner, booting, counts>>

--------------------------------------------------------------------------------
(* Recovery *)

HalfDone(p) == rows[p] \in {"promoting", "promoted"}

\* recover_and_cleanup_onboarding reads the rows, ...
CleanerReads(p) ==
    /\ cleaner = NoCleaner /\ HalfDone(p)
    /\ IF booting THEN UNCHANGED cleanups
       ELSE cleanups < MaxCleanups /\ cleanups' = cleanups + 1
    /\ cleaner' = [of |-> p, script |-> <<Unlink("db"), Move("dbOld", "db"),
                                          Unlink("enc"), Move("encOld", "enc")>>]
    /\ UNCHANGED <<files, op, script, holder, rows, booting, crashes>>

\* ... puts the backups in place ...
CleanerStep ==
    /\ cleaner.script # <<>>
    /\ files' = Done(Head(cleaner.script), files)
    /\ cleaner' = [cleaner EXCEPT !.script = Tail(@)]
    /\ UNCHANGED <<op, script, holder, rows, booting, counts>>

\* ... and writes the row.
CleanerWrites ==
    /\ cleaner.of # None /\ cleaner.script = <<>>
    /\ rows' = [rows EXCEPT ![cleaner.of] = "restored"] /\ cleaner' = NoCleaner
    /\ UNCHANGED <<files, op, script, holder, booting, counts>>

Crash ==
    /\ crashes < MaxCrashes /\ crashes' = crashes + 1
    /\ op' = [o \in Ops |-> IF Inactive(o) THEN op[o] ELSE [op[o] EXCEPT !.pc = "lost"]]
    /\ script' = <<>> /\ holder' = None /\ cleaner' = NoCleaner /\ booting' = TRUE
    /\ UNCHANGED <<files, rows, cleanups>>

Boot ==
    /\ booting /\ cleaner = NoCleaner /\ \A p \in Promotions : ~HalfDone(p)
    /\ booting' = FALSE
    /\ UNCHANGED <<files, op, script, holder, rows, cleaner, counts>>

Next ==
    \/ LoopStep
    \/ \E o \in Fresh : BeginFresh(o) \/ FreshStaged(o)
    \/ \E o \in Saved \cup Sends : BeginUse(o)
    \/ \E o \in Ops \ Promotions :
          GetClient(o) \/ Cancel(o) \/ CancelledWaiting(o) \/ UseSealed(o) \/ UseEnds(o)
    \/ \E o \in Promotions : \/ BeginPromotion(o) \/ PromotionStaged(o) \/ Install(o)
                             \/ PromotionSealed(o) \/ PromotionEnds(o) \/ CleanerReads(o)
    \/ \E o \in Ops : GoOnline(o) \/ ClientWorks(o) \/ ClientFails(o)
    \/ CleanerStep \/ CleanerWrites \/ Crash \/ Boot

Spec == Init /\ [][Next]_vars

--------------------------------------------------------------------------------
Contents == {None, "blank", "first"} \cup Ops

\* The sessions the account may rely on: the first one, that of a login that
\* worked, and that of a promotion that was recorded.
Proven == {"first"} \cup {l \in Logins : op[l].good} \cup {p \in Promotions : rows[p] = "complete"}
HasSession == \E n \in Names : files[n] \in Proven

\* A login, a send or a promotion never removes the last session that worked,
\* nor does a process death in the middle of one; what the recovery removes is
\* RestoredIsThere's.
WorkKeepsSession == [][HasSession /\ cleaner' = cleaner => HasSession']_vars

\* What a failed or cancelled login moved aside is back as it was
\* (_stage_session_for_reauth: "byte-for-byte").
FailureRestores ==
    [][\A o \in Ops : op[o].pc = "restoring" /\ op'[o].pc = "done"
                      => \A n \in {"db", "enc"} : op[o].moved[n] # None
                                                  => files[n] = op[o].moved[n]]_vars

AtRest == ~booting /\ script = <<>> /\ cleaner = NoCleaner /\ \A o \in Ops : Inactive(o)

\* Once a promotion is recorded as restored, the account has a session that
\* worked if the promotion had moved one aside (recover_and_cleanup_onboarding:
\* "Recover a half-promoted session").
RestoredIsThere ==
    AtRest => \A p \in Promotions :
        rows[p] = "restored" /\ {op[p].moved.db, op[p].moved.enc} \cap Proven # {} => HasSession

================================================================================

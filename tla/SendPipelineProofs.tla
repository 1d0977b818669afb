--------------------------- MODULE SendPipelineProofs ---------------------------
(* The ledger on its own, for every number of operations, accounts, slots,      *)
(* requests, provider ids and retries; then the sending side that calls it, for *)
(* any number of accounts, slots, operations, days, tries and process deaths:   *)
(* what reaches the provider for a slot, and that the pipeline keeps the weekly *)
(* promise.                                                                     *)
EXTENDS SendPipelineRefinement, TLAPS

--------------------------------------------------------------------------------
(* The ledger *)

\* The inductive invariant: the three data invariants support one another.
\* That in_flight goes with exactly one open attempt is what lets mark_accepted
\* and mark_unknown close that attempt; that a row without provider id has no
\* accounting row is what makes INSERT OR IGNORE write the acknowledged id.
LedgerInv == TypeOK /\ OneNetworkAttempt /\ AccountingExact

LEMMA OneElementSeq ==
  ASSUME NEW st \in {"in_flight"} \cup Terminal
  PROVE  <<st>> \in Seq({"in_flight"} \cup Terminal)
OBVIOUS

\* Setting columns of one row keeps the table's type and the other rows.
LEMMA RowUpdate ==
  ASSUME ops \in [Ops -> Rows], NEW o \in Ops, NEW st \in Statuses,
         NEW n \in 0..MaxRetries, NEW m \in ProviderIds \cup {None},
         ops' = [ops EXCEPT ![o] = [ops[o] EXCEPT !.status = st, !.retries = n, !.pid = m]]
  PROVE  /\ ops' \in [Ops -> Rows]
         /\ ops'[o].status = st /\ ops'[o].pid = m
         /\ \A c \in Ops : c # o => ops'[c] = ops[c]
<1>1. ops[o] \in Rows
  OBVIOUS
<1>2. [ops[o] EXCEPT !.status = st, !.retries = n, !.pid = m] \in Rows
  BY <1>1 DEF Rows
<1>3. /\ [ops[o] EXCEPT !.status = st, !.retries = n, !.pid = m].status = st
      /\ [ops[o] EXCEPT !.status = st, !.retries = n, !.pid = m].pid = m
  BY <1>1 DEF Rows
<1> QED BY <1>2, <1>3

\* The same for the methods that set the status alone.
LEMMA StatusUpdate ==
  ASSUME ops \in [Ops -> Rows], NEW o \in Ops, NEW st \in Statuses,
         ops' = [ops EXCEPT ![o].status = st]
  PROVE  /\ ops' \in [Ops -> Rows]
         /\ ops'[o].status = st /\ ops'[o].pid = ops[o].pid
         /\ \A c \in Ops : c # o => ops'[c] = ops[c]
<1>1. ops[o] \in Rows
  OBVIOUS
<1>2. [ops[o] EXCEPT !.status = st] \in Rows
  BY <1>1 DEF Rows
<1>3. /\ [ops[o] EXCEPT !.status = st].status = st
      /\ [ops[o] EXCEPT !.status = st].pid = ops[o].pid
  BY <1>1 DEF Rows
<1> QED BY <1>2, <1>3

LEMMA InitInv == LedgerInit => LedgerInv
<1> SUFFICES ASSUME LedgerInit PROVE LedgerInv
  OBVIOUS
<1>1. TypeOK
  BY LedgerAssumption DEF LedgerInit, TypeOK, NoRow, Rows, Statuses, PreSend, Terminal
<1>2. OneNetworkAttempt
  BY DEF LedgerInit, OneNetworkAttempt, NoRow, Terminal
<1>3. AccountingExact
  BY DEF LedgerInit, AccountingExact, NoRow
<1> QED BY <1>1, <1>2, <1>3 DEF LedgerInv

LEMMA CreateInv ==
  ASSUME LedgerInv, NEW o \in Ops, NEW p \in Profiles, NEW s \in Slots,
         NEW r \in Requests \cup {None}, Create(o, p, s, r)
  PROVE  LedgerInv'
<1> DEFINE row == [status |-> "reserved", profile |-> p, slot |-> s,
                   retries |-> 0, pid |-> None]
<1>1. ops' = [ops EXCEPT ![o] = row]
  BY DEF Create
<1>2. row \in Rows
  BY LedgerAssumption DEF Rows, Statuses, PreSend
<1>3. TypeOK'
  BY <1>1, <1>2 DEF LedgerInv, TypeOK, Create
<1>4. OneNetworkAttempt'
  <2>1. attempts[o] = <<>>
    BY DEF Create, Exists, LedgerInv, OneNetworkAttempt, Terminal
  <2>2. \A c \in Ops : c # o => ops'[c] = ops[c]
    BY <1>1 DEF LedgerInv, TypeOK
  <2>3. ops'[o].status = "reserved"
    BY <1>1 DEF LedgerInv, TypeOK
  <2> QED BY <2>1, <2>2, <2>3 DEF LedgerInv, OneNetworkAttempt, Create, Terminal
<1>5. AccountingExact'
  BY <1>1 DEF LedgerInv, AccountingExact, TypeOK, Create, Exists
<1> QED BY <1>3, <1>4, <1>5 DEF LedgerInv

\* Claim, mark_failed_unsent and retry only move a row between pre-send states.
LEMMA PreSendInv ==
  ASSUME LedgerInv, NEW o \in Ops,
         (\E p \in Profiles : Claim(o, p)) \/ MarkFailedUnsent(o) \/ Retry(o)
  PROVE  LedgerInv'
<1>0. CASE UNCHANGED ledgerVars
  BY <1>0 DEF ledgerVars, LedgerInv, TypeOK, OneNetworkAttempt, AccountingExact
<1>1. CASE ~ UNCHANGED ledgerVars
  <2>1. ops \in [Ops -> Rows] /\ ops[o] \in Rows
    BY DEF LedgerInv, TypeOK
  <2>2. /\ ops[o].status \in PreSend
        /\ UNCHANGED <<attempts, accounting, receipts>>
    BY <1>1 DEF Claim, CanClaim, MarkFailedUnsent, Retry, CanRetry, PreSend
  <2>3. /\ ops' \in [Ops -> Rows]
        /\ ops'[o].status \in PreSend /\ ops'[o].pid = ops[o].pid
        /\ \A c \in Ops : c # o => ops'[c] = ops[c]
    <3>1. CASE \E p \in Profiles : Claim(o, p)
      <4>1. ops' = [ops EXCEPT ![o].status = "claimed"]
        BY <3>1 DEF Claim
      <4> QED BY <2>1, <4>1, StatusUpdate DEF PreSend, Statuses
    <3>2. CASE MarkFailedUnsent(o)
      <4>1. ops' = [ops EXCEPT ![o].status = "failed_unsent"]
        BY <1>1, <3>2 DEF MarkFailedUnsent
      <4> QED BY <2>1, <4>1, StatusUpdate DEF PreSend, Statuses
    <3>3. CASE Retry(o)
      <4>1. ops[o].retries + 1 \in 0..MaxRetries
        BY LedgerAssumption, <2>1, <3>3 DEF Rows, Retry, CanRetry
      <4>2. ops[o].pid \in ProviderIds \cup {None}
        BY <2>1 DEF Rows
      <4>3. ops' = [ops EXCEPT ![o] = [ops[o] EXCEPT !.status = "claimed",
                        !.retries = ops[o].retries + 1, !.pid = ops[o].pid]]
        BY <2>1, <3>3 DEF Retry, Rows
      <4> DEFINE row == [ops[o] EXCEPT !.status = "claimed",
                           !.retries = ops[o].retries + 1, !.pid = ops[o].pid]
      <4>4. row \in Rows
        BY <2>1, <4>1, <4>2 DEF Rows, Statuses, PreSend
      <4>5. row.status = "claimed" /\ row.pid = ops[o].pid
        BY <2>1 DEF Rows
      <4>6. ops' = [ops EXCEPT ![o] = row]
        BY <4>3
      <4> HIDE DEF row
      <4> QED BY <2>1, <4>4, <4>5, <4>6 DEF PreSend
    <3> QED BY <3>1, <3>2, <3>3
  <2>4. TypeOK'
    BY <2>2, <2>3 DEF LedgerInv, TypeOK
  <2>5. OneNetworkAttempt'
    BY <2>2, <2>3 DEF LedgerInv, OneNetworkAttempt, PreSend, Terminal
  <2>6. AccountingExact'
    BY <2>2, <2>3 DEF LedgerInv, AccountingExact, PreSend
  <2> QED BY <2>4, <2>5, <2>6 DEF LedgerInv
<1> QED BY <1>0, <1>1

LEMMA InFlightInv ==
  ASSUME LedgerInv, NEW o \in Ops, MarkInFlight(o)
  PROVE  LedgerInv'
<1>0. CASE UNCHANGED ledgerVars
  BY <1>0 DEF ledgerVars, LedgerInv, TypeOK, OneNetworkAttempt, AccountingExact
<1>1. CASE ~ UNCHANGED ledgerVars
  <2>1. /\ ops[o].status = "claimed"
        /\ attempts' = [attempts EXCEPT ![o] = Append(@, "in_flight")]
        /\ ops' = [ops EXCEPT ![o].status = "in_flight"]
        /\ UNCHANGED <<accounting, receipts>>
    BY <1>1 DEF MarkInFlight
  <2>2. attempts[o] = <<>>
    BY <2>1 DEF LedgerInv, OneNetworkAttempt, Terminal
  <2>3. attempts' = [attempts EXCEPT ![o] = <<"in_flight">>]
    BY <2>1, <2>2
  <2>4. /\ ops' \in [Ops -> Rows]
        /\ ops'[o].status = "in_flight" /\ ops'[o].pid = ops[o].pid
        /\ \A c \in Ops : c # o => ops'[c] = ops[c]
    BY <2>1, StatusUpdate DEF LedgerInv, TypeOK, Statuses
  <2>5. TypeOK'
    BY <2>1, <2>3, <2>4, OneElementSeq DEF LedgerInv, TypeOK
  <2>6. OneNetworkAttempt'
    BY <2>3, <2>4 DEF LedgerInv, TypeOK, OneNetworkAttempt
  <2>7. AccountingExact'
    BY <2>1, <2>4 DEF LedgerInv, AccountingExact
  <2> QED BY <2>5, <2>6, <2>7 DEF LedgerInv
<1> QED BY <1>0, <1>1

\* Closing the only attempt of an operation in flight.
LEMMA CloseOnlyAttempt ==
  ASSUME LedgerInv, NEW o \in Ops, NEW st \in Terminal,
         ops[o].status = "in_flight", CloseAttempt(o, st)
  PROVE  attempts' = [attempts EXCEPT ![o] = <<st>>]
<1>1. attempts[o] = <<"in_flight">>
  BY DEF LedgerInv, OneNetworkAttempt
<1>2. attempts' = [attempts EXCEPT ![o][1] = st]
  BY <1>1 DEF CloseAttempt
<1>3. [attempts[o] EXCEPT ![1] = st] = <<st>>
  BY <1>1
<1> QED BY <1>2, <1>3

LEMMA UnknownInv ==
  ASSUME LedgerInv, NEW o \in Ops, MarkUnknown(o)
  PROVE  LedgerInv'
<1>0. CASE UNCHANGED ledgerVars
  BY <1>0 DEF ledgerVars, LedgerInv, TypeOK, OneNetworkAttempt, AccountingExact
<1>1. CASE ~ UNCHANGED ledgerVars
  <2>1. /\ ops[o].status = "in_flight"
        /\ CloseAttempt(o, "unknown")
        /\ ops' = [ops EXCEPT ![o].status = "unknown"]
        /\ UNCHANGED <<accounting, receipts>>
    BY <1>1 DEF MarkUnknown
  <2>2. attempts' = [attempts EXCEPT ![o] = <<"unknown">>]
    BY <2>1, CloseOnlyAttempt DEF Terminal
  <2>3. /\ ops' \in [Ops -> Rows]
        /\ ops'[o].status = "unknown" /\ ops'[o].pid = ops[o].pid
        /\ \A c \in Ops : c # o => ops'[c] = ops[c]
    BY <2>1, StatusUpdate DEF LedgerInv, TypeOK, Statuses, Terminal
  <2>4. TypeOK'
    BY <2>1, <2>2, <2>3, OneElementSeq DEF LedgerInv, TypeOK, Terminal
  <2>5. OneNetworkAttempt'
    BY <2>2, <2>3 DEF LedgerInv, TypeOK, OneNetworkAttempt, Terminal
  <2>6. AccountingExact'
    BY <2>1, <2>3 DEF LedgerInv, AccountingExact
  <2> QED BY <2>4, <2>5, <2>6 DEF LedgerInv
<1> QED BY <1>0, <1>1

LEMMA AcceptedInv ==
  ASSUME LedgerInv, NEW o \in Ops, NEW m \in ProviderIds, MarkAccepted(o, m)
  PROVE  LedgerInv'
<1>0. CASE UNCHANGED ledgerVars
  BY <1>0 DEF ledgerVars, LedgerInv, TypeOK, OneNetworkAttempt, AccountingExact
<1>1. CASE ~ UNCHANGED ledgerVars
  <2>1. /\ ops[o].status = "in_flight"
        /\ CloseAttempt(o, "accepted")
        /\ ops' = [ops EXCEPT ![o].status = "accepted", ![o].pid = m]
        /\ accounting' = [accounting EXCEPT ![o] = IF @ = None THEN m ELSE @]
        /\ UNCHANGED receipts
    BY <1>1 DEF MarkAccepted
  <2>2. attempts' = [attempts EXCEPT ![o] = <<"accepted">>]
    BY <2>1, CloseOnlyAttempt DEF Terminal
  <2>3. accounting' = [accounting EXCEPT ![o] = m]
    BY <2>1 DEF LedgerInv, AccountingExact
  <2>4. /\ ops' \in [Ops -> Rows]
        /\ ops'[o].status = "accepted" /\ ops'[o].pid = m
        /\ \A c \in Ops : c # o => ops'[c] = ops[c]
    <3>1. ops[o] \in Rows
      BY DEF LedgerInv, TypeOK
    <3>2. ops' = [ops EXCEPT ![o] = [ops[o] EXCEPT !.status = "accepted",
                      !.retries = ops[o].retries, !.pid = m]]
      BY <2>1, <3>1 DEF Rows
    <3>3. ops[o].retries \in 0..MaxRetries
      BY <3>1 DEF Rows
    <3> QED BY <3>2, <3>3, RowUpdate DEF LedgerInv, TypeOK, Statuses, Terminal
  <2>5. TypeOK'
    BY <2>1, <2>2, <2>3, <2>4, OneElementSeq DEF LedgerInv, TypeOK, Terminal
  <2>6. OneNetworkAttempt'
    BY <2>2, <2>4 DEF LedgerInv, TypeOK, OneNetworkAttempt, Terminal
  <2>7. AccountingExact'
    BY LedgerAssumption, <2>3, <2>4 DEF LedgerInv, TypeOK, AccountingExact
  <2> QED BY <2>5, <2>6, <2>7 DEF LedgerInv
<1> QED BY <1>0, <1>1

LEMMA RecoverInv ==
  ASSUME LedgerInv, RecoverInFlight
  PROVE  LedgerInv'
<1>1. \A o \in Ops : /\ ops[o].status = "in_flight" =>
                          /\ attempts'[o] = <<"unknown">>
                          /\ ops'[o] = [ops[o] EXCEPT !.status = "unknown"]
                     /\ ops[o].status # "in_flight" =>
                          attempts'[o] = attempts[o] /\ ops'[o] = ops[o]
  <2> SUFFICES ASSUME NEW o \in Ops
               PROVE  /\ ops[o].status = "in_flight" =>
                           /\ attempts'[o] = <<"unknown">>
                           /\ ops'[o] = [ops[o] EXCEPT !.status = "unknown"]
                      /\ ops[o].status # "in_flight" =>
                           attempts'[o] = attempts[o] /\ ops'[o] = ops[o]
    OBVIOUS
  <2>1. CASE ops[o].status = "in_flight"
    <3>1. attempts[o] = <<"in_flight">>
      BY <2>1 DEF LedgerInv, OneNetworkAttempt
    <3>2. [attempts[o] EXCEPT ![1] = "unknown"] = <<"unknown">>
      BY <3>1
    <3> QED BY <2>1, <3>1, <3>2 DEF RecoverInFlight
  <2>2. CASE ops[o].status # "in_flight"
    BY <2>2 DEF RecoverInFlight
  <2> QED BY <2>1, <2>2
<1>2. TypeOK'
  <2>1. ASSUME NEW o \in Ops PROVE ops'[o] \in Rows
    <3>1. ops[o] \in Rows /\ "unknown" \in Statuses
      BY DEF LedgerInv, TypeOK, Statuses, Terminal
    <3>2. [ops[o] EXCEPT !.status = "unknown"] \in Rows
      BY <3>1 DEF Rows
    <3> QED BY <1>1, <3>1, <3>2
  <2>2. \A o \in Ops : attempts'[o] \in Seq({"in_flight"} \cup Terminal)
    <3>1. <<"unknown">> \in Seq({"in_flight"} \cup Terminal)
      BY OneElementSeq DEF Terminal
    <3> QED BY <1>1, <3>1 DEF LedgerInv, TypeOK
  <2> QED BY <2>1, <2>2 DEF LedgerInv, TypeOK, RecoverInFlight
<1>3. \A o \in Ops : /\ ops[o].status = "in_flight" => ops'[o].status = "unknown" /\ ops'[o].pid = ops[o].pid
                     /\ ops[o].status # "in_flight" => ops'[o].status = ops[o].status /\ ops'[o].pid = ops[o].pid
  <2>1. ASSUME NEW row \in Rows
        PROVE  [row EXCEPT !.status = "unknown"].status = "unknown" /\ [row EXCEPT !.status = "unknown"].pid = row.pid
    BY DEF Rows
  <2>2. \A o \in Ops : ops[o] \in Rows
    BY DEF LedgerInv, TypeOK
  <2> SUFFICES ASSUME NEW o \in Ops
               PROVE  /\ ops[o].status = "in_flight" => ops'[o].status = "unknown" /\ ops'[o].pid = ops[o].pid
                      /\ ops[o].status # "in_flight" => ops'[o].status = ops[o].status /\ ops'[o].pid = ops[o].pid
    OBVIOUS
  <2>3. CASE ops[o].status = "in_flight"
    <3>1. ops'[o] = [ops[o] EXCEPT !.status = "unknown"]
      BY <1>1, <2>3
    <3>2. ops'[o].status = "unknown" /\ ops'[o].pid = ops[o].pid
      BY <2>1, <2>2, <3>1
    <3> QED BY <2>3, <3>2
  <2>4. CASE ops[o].status # "in_flight"
    <3>1. ops'[o] = ops[o]
      BY <1>1, <2>4
    <3> QED BY <2>4, <3>1
  <2> QED BY <2>3, <2>4
<1>4. OneNetworkAttempt'
  <2> SUFFICES ASSUME NEW o \in Ops
               PROVE  attempts'[o] = IF ops'[o].status \in {"in_flight"} \cup Terminal
                                     THEN <<ops'[o].status>> ELSE <<>>
    BY DEF OneNetworkAttempt
  <2>1. CASE ops[o].status = "in_flight"
    BY <1>1, <1>3, <2>1 DEF Terminal
  <2>2. CASE ops[o].status # "in_flight"
    <3>1. attempts'[o] = attempts[o] /\ ops'[o].status = ops[o].status
      BY <1>1, <1>3, <2>2
    <3> QED BY <3>1 DEF LedgerInv, OneNetworkAttempt
  <2> QED BY <2>1, <2>2
<1>5. AccountingExact'
  <2>1. UNCHANGED accounting
    BY DEF RecoverInFlight
  <2> QED BY <1>3, <2>1 DEF LedgerInv, AccountingExact
<1> QED BY <1>2, <1>4, <1>5 DEF LedgerInv

LEMMA NextInv == LedgerInv /\ [LedgerNext]_ledgerVars => LedgerInv'
<1> SUFFICES ASSUME LedgerInv, [LedgerNext]_ledgerVars PROVE LedgerInv'
  OBVIOUS
<1>1. CASE RecoverInFlight
  BY <1>1, RecoverInv
<1>2. CASE \E o \in Ops : OpStep(o)
  <2> PICK o \in Ops : OpStep(o)
    BY <1>2
  <2>1. CASE \E p \in Profiles, s \in Slots, r \in Requests \cup {None} : Create(o, p, s, r)
    BY <2>1, CreateInv
  <2>2. CASE (\E p \in Profiles : Claim(o, p)) \/ MarkFailedUnsent(o) \/ Retry(o)
    BY <2>2, PreSendInv
  <2>3. CASE MarkInFlight(o)
    BY <2>3, InFlightInv
  <2>4. CASE MarkUnknown(o)
    BY <2>4, UnknownInv
  <2>5. CASE \E m \in ProviderIds : MarkAccepted(o, m)
    BY <2>5, AcceptedInv
  <2> QED BY <2>1, <2>2, <2>3, <2>4, <2>5 DEF OpStep
<1>3. CASE UNCHANGED ledgerVars
  BY <1>3 DEF ledgerVars, LedgerInv, TypeOK, OneNetworkAttempt, AccountingExact
<1> QED BY <1>1, <1>2, <1>3 DEF LedgerNext

LEMMA LedgerInvariant == LedgerSpec => []LedgerInv
BY InitInv, NextInv, PTL DEF LedgerSpec

--------------------------------------------------------------------------------
\* The tables of app/repositories/operations.py keep their shape.
THEOREM TypeCorrect == LedgerSpec => []TypeOK
<1>1. LedgerInv => TypeOK
  BY DEF LedgerInv
<1> QED BY <1>1, LedgerInvariant, PTL

\* No order of claims, retries, recoveries and replays gives an operation a
\* second network attempt.
THEOREM AtMostOneAttempt == LedgerSpec => []OneNetworkAttempt
<1>1. LedgerInv => OneNetworkAttempt
  BY DEF LedgerInv
<1> QED BY <1>1, LedgerInvariant, PTL

\* The accounting row of an operation exists exactly when it is accepted.
THEOREM AccountingCorrect == LedgerSpec => []AccountingExact
<1>1. LedgerInv => AccountingExact
  BY DEF LedgerInv
<1> QED BY <1>1, LedgerInvariant, PTL

\* Accepted and unknown rows are final (mark_failed_unsent, mark_unknown and
\* recover_in_flight return or skip them, the other methods raise).
THEOREM TerminalIsFinal == LedgerSpec => FinalForever
<1> DEFINE Final(o) == /\ ops'[o] = ops[o]
                       /\ attempts'[o] = attempts[o]
                       /\ accounting'[o] = accounting[o]
<1>1. ASSUME LedgerInv, [LedgerNext]_ledgerVars
      PROVE  [\A o \in Ops : ops[o].status \in Terminal => Final(o)]_ledgerVars
  <2> SUFFICES ASSUME LedgerNext, NEW o \in Ops, ops[o].status \in Terminal
               PROVE  Final(o)
    BY <1>1
  <2>1. CASE RecoverInFlight
    BY <2>1 DEF RecoverInFlight, Terminal
  <2>2. CASE \E c \in Ops : OpStep(c)
    <3> PICK c \in Ops : OpStep(c)
      BY <2>2
    <3>1. CASE UNCHANGED ledgerVars
      BY <3>1 DEF ledgerVars
    <3>2. CASE c # o
      BY <3>2, <1>1 DEF LedgerInv, TypeOK, OpStep, Create, Claim, MarkInFlight,
         MarkFailedUnsent, Retry, MarkUnknown, MarkAccepted, CloseAttempt, ledgerVars
    <3>3. CASE c = o /\ ~ UNCHANGED ledgerVars
      <4>1. ops[o].status \notin Terminal
        BY <3>3 DEF OpStep, Create, Exists, Claim, CanClaim, MarkInFlight,
           MarkFailedUnsent, Retry, CanRetry, MarkUnknown, MarkAccepted, PreSend, Terminal
      <4> QED BY <4>1
    <3> QED BY <3>1, <3>2, <3>3
  <2> QED BY <2>1, <2>2 DEF LedgerNext
<1> QED BY <1>1, LedgerInvariant, PTL DEF LedgerSpec, FinalForever

--------------------------------------------------------------------------------
(* The sending side: the inductive invariant *)

Before == {"created", "connect", "ready", "backoff"}    \* the provider call is ahead
Owning == Before \cup {"sending", "acked", "record"}

\* A sender's job: outside a send it is empty, inside it has its slot, and the
\* operation it holds was made for that slot.
Sound(j, rows) ==
    /\ j.pc \in {"off", "preflight", "idle", "waiting"} => j = [NoJob EXCEPT !.pc = j.pc]
    /\ j.pc = "begin" => j = [NoJob EXCEPT !.pc = j.pc, !.slot = j.slot]
    /\ j.pc \in Owning \cup {"begin", "finish"} => j.slot \in Slots
    /\ j.pc \in Owning => j.op \in Ops
    /\ j.op \in Ops => rows[j.op].status # "absent" /\ rows[j.op].slot = j.slot
    /\ j.pc = "backoff" => j.try < MaxTries - 1

JobsSound == (\A q \in Senders : Sound(send[q], ops)) /\ send[Worker].pc # "waiting"

\* An operation belongs to a slot of a week that has begun, and its log row, if
\* any, was written since that week began.
Booked ==
    \A o \in Ops :
        /\ Exists(o) => /\ ops[o].slot \in Slots /\ ops[o].profile = ops[o].slot[1]
                        /\ ops[o].slot[2] <= Week(today)
        /\ ~Exists(o) => ops[o].slot = None
        /\ log[o].status = "sent" => /\ Exists(o) /\ log[o].day <= today
                                     /\ ops[o].slot[2] <= Week(log[o].day)

\* A slot has one operation, however often it is claimed.
OneOperation == \A o, c \in Ops : Exists(o) /\ Exists(c) /\ ops[o].slot = ops[c].slot => o = c

Crossed(o) == ops[o].status \in {"in_flight", "accepted", "unknown"}

CallsAreAttempts == \A o \in Ops : calls[o] = IF Crossed(o) THEN 1 ELSE 0

ClientExclusive ==
    \A q, r \in Senders : HoldsClient(q) /\ HoldsClient(r) /\ send[q].slot[1] = send[r].slot[1] => q = r

\* An operation in flight is met by another owner only while its caller waits.
FlightHasCaller ==
    \A q \in Senders : send[q].pc \in Before /\ ops[send[q].op].status = "in_flight" =>
        \E r \in Senders \ {q} : send[r].pc = "sending" /\ send[r].op = send[q].op

PipelineInv == PipelineTypeOK /\ LedgerInv /\ JobsSound /\ Booked /\ OneOperation /\ ClientExclusive

CallsInv == CallsAreAttempts /\ FlightHasCaller

\* With a second sender about, what is in flight is told by the ledger alone, so
\* the write of the outcome may not be lost.
OutcomesAreWritten == MaxFaults = 0 \/ Testers = {}

--------------------------------------------------------------------------------
(* The ledger is called by its rules *)

\* The operation a send resumes is the only one of its slot.
Resumed(s) ==
    LET found == RetryableForSlot(s, s[1])
    IN IF found = {} THEN None ELSE CHOOSE o \in found : \A c \in found : c <= o

LEMMA ResumedIsTheOne ==
  ASSUME OneOperation, NEW s \in Slots
  PROVE  \/ Resumed(s) = None /\ RetryableForSlot(s, s[1]) = {}
         \/ Resumed(s) \in RetryableForSlot(s, s[1]) /\ Resumed(s) \in Ops
<1>1. CASE RetryableForSlot(s, s[1]) = {}
  BY <1>1 DEF Resumed
<1>2. ASSUME NEW o \in RetryableForSlot(s, s[1])
      PROVE  Resumed(s) \in RetryableForSlot(s, s[1]) /\ Resumed(s) \in Ops
  <2>1. \A c \in RetryableForSlot(s, s[1]) : c = o /\ c <= o /\ c \in Ops
    BY LedgerAssumption DEF RetryableForSlot, OneOperation, Exists, PreSend, Ops
  <2> QED BY <2>1 DEF Resumed
<1> QED BY <1>1, <1>2

\* A ledger call that neither creates an operation nor sends it.
Marks(o) ==
    \/ (\E p \in Profiles : Claim(o, p)) \/ MarkFailedUnsent(o) \/ Retry(o) \/ MarkUnknown(o)
    \/ \E m \in ProviderIds : MarkAccepted(o, m)

Quiet == UNCHANGED calls /\ (UNCHANGED ledgerVars \/ RecoverInFlight \/ \E o \in Ops : Marks(o))

Begins(q, o) ==
    /\ BeginSend(q) /\ Resumed(send[q].slot) = None
    /\ Create(o, send[q].slot[1], send[q].slot, None)

\* What a step of the pipeline does to the ledger and to the provider.
LEMMA Effects ==
  ASSUME PipelineTypeOK, JobsSound, OneOperation, [Next]_vars
  PROVE  Quiet \/ (\E q \in Senders, o \in Ops : Begins(q, o)) \/ (\E q \in Senders : CallProvider(q))
<1> USE DEF Marks, Quiet
<1>1. /\ \A q \in Senders : send[q].pc \in Owning => send[q].op \in Ops
      /\ \A q \in Senders : send[q].pc \in Owning \cup {"begin", "finish"} => send[q].slot \in Slots /\ send[q].slot[1] \in Profiles
      /\ Worker \in Senders
  BY PipelineAssumption DEF JobsSound, Sound, Senders
<1>2. ASSUME NEW o \in Ops, TryFailedUnsent(o) \/ TryUnknown(o), UNCHANGED calls
      PROVE  Quiet
  BY <1>2 DEF TryFailedUnsent, TryUnknown, Swallow
<1>3. CASE StartWorker
  BY <1>3 DEF StartWorker
<1>4. ASSUME NEW q \in Senders, BeginSend(q)
      PROVE  Quiet \/ \E o \in Ops : Begins(q, o)
  <2> DEFINE s == send[q].slot
             x == Resumed(s)
  <2>1. s \in Slots /\ s[1] \in Profiles
    BY <1>1, <1>4 DEF BeginSend
  <2>2. CASE x = None /\ \E o \in Ops : Create(o, s[1], s, None)
    BY <2>1, <2>2, <1>4 DEF Begins
  <2>3. CASE x # None /\ (Retry(x) \/ Claim(x, s[1]))
    <3>1. x \in Ops
      BY <2>1, <2>3, ResumedIsTheOne
    <3> QED BY <2>1, <2>3, <3>1, <1>4 DEF BeginSend
  <2> QED BY <1>4, <2>2, <2>3 DEF BeginSend, Resumed
<1>5. ASSUME NEW q \in Senders, ClaimCreated(q)
      PROVE  Quiet
  BY <1>1, <1>5 DEF ClaimCreated, Owning, Before
<1>6. ASSUME NEW q \in Senders, ConnectFails(q) \/ ReviewRequired(q) \/ SendFails(q)
      PROVE  Quiet
  BY <1>1, <1>2, <1>6 DEF ConnectFails, FailBeforeSend, ReviewRequired, SendFails, Owning, Before
<1>7. ASSUME NEW q \in Senders, RetrySend(q)
      PROVE  Quiet
  BY <1>1, <1>2, <1>7 DEF RetrySend, Owning, Before
<1>8. ASSUME NEW q \in Senders, ProviderAcks(q)
      PROVE  Quiet
  BY <1>1, <1>8 DEF ProviderAcks, Owning, Before
<1>9. ASSUME NEW q \in Senders, ClientReturns(q)
      PROVE  Quiet
  BY <1>1, <1>2, <1>9 DEF ClientReturns, Owning, Before
<1>10. CASE CancelWorker
  BY <1>1, <1>2, <1>10 DEF CancelWorker, Owning, Before
<1>11. ASSUME UNCHANGED <<ledgerVars, calls>>
       PROVE  Quiet
  BY <1>11
<1>12. CASE SpawnWorker \/ WorkerClaims \/ WorkerFindsNothing \/ StartCommand \/ StopCommand \/ StopCompletes \/ NewDay \/ Crash
  BY <1>11, <1>12 DEF SpawnWorker, WorkerClaims, WorkerFindsNothing, StartCommand, StopCommand, StopCompletes, NewDay, Crash
<1>13. ASSUME NEW q \in Senders, RefuseSend(q) \/ Connect(q) \/ RecordOutcome(q) \/ FinalizeJob(q)
       PROVE  Quiet
  BY <1>11, <1>13 DEF RefuseSend, Connect, RecordOutcome, FinalizeJob
<1>14. ASSUME NEW q \in Testers, TestStep(q)
       PROVE  Quiet
  BY <1>11, <1>14 DEF TestStep, TestBegins, TestClaims
<1>15. CASE UNCHANGED vars
  BY <1>11, <1>15 DEF vars, jobVars
<1> QED BY <1>3, <1>4, <1>5, <1>6, <1>7, <1>8, <1>9, <1>10, <1>12, <1>13, <1>14, <1>15
     DEF Next, WorkerStep, Environment, SenderStep

\* Every call the pipeline makes is a step of the ledger's general client.
LEMMA CallsLedger ==
  ASSUME PipelineTypeOK, JobsSound, OneOperation, [Next]_vars
  PROVE  [LedgerNext]_ledgerVars
<1> USE DEF LedgerNext, OpStep
<1>1. CASE Quiet
  BY <1>1 DEF Quiet, Marks
<1>2. ASSUME NEW q \in Senders, NEW o \in Ops, Begins(q, o)
      PROVE  [LedgerNext]_ledgerVars
  <2>1. send[q].slot \in Slots /\ send[q].slot[1] \in Profiles
    BY <1>2, PipelineAssumption DEF Begins, BeginSend, JobsSound, Sound
  <2> QED BY <1>2, <2>1 DEF Begins
<1>3. ASSUME NEW q \in Senders, CallProvider(q)
      PROVE  [LedgerNext]_ledgerVars
  BY <1>3 DEF CallProvider, JobsSound, Sound, Owning, Before
<1> QED BY <1>1, <1>2, <1>3, Effects

\* What no ledger call changes: an operation stays, with its account and slot,
\* and one that crossed the boundary has crossed it for good.
Grown ==
    \A o \in Ops :
        /\ Exists(o) => Exists(o)' /\ ops'[o].slot = ops[o].slot /\ ops'[o].profile = ops[o].profile
        /\ ~Exists(o)' => ops'[o].slot = ops[o].slot
        /\ Crossed(o) => Crossed(o)'
        /\ ops[o].status \in Terminal => ops'[o].status = ops[o].status

LEMMA LedgerGrows ==
  ASSUME TypeOK, [LedgerNext]_ledgerVars
  PROVE  Grown
<1> USE DEF Grown, Exists, Crossed, TypeOK, Rows, Terminal, PreSend
<1>1. CASE RecoverInFlight
  BY <1>1 DEF RecoverInFlight
<1>2. ASSUME NEW o \in Ops, OpStep(o)
      PROVE  Grown
  <2>1. ASSUME NEW p \in Profiles, NEW s \in Slots, NEW r \in Requests \cup {None}, Create(o, p, s, r)
        PROVE  Grown
    BY <2>1 DEF Create
  <2>2. CASE (\E p \in Profiles : Claim(o, p)) \/ MarkFailedUnsent(o)
    BY <2>2 DEF Claim, CanClaim, MarkFailedUnsent, ledgerVars
  <2>5. CASE Retry(o)
    BY <2>5 DEF Retry, CanRetry
  <2>3. CASE MarkInFlight(o) \/ MarkUnknown(o)
    BY <2>3 DEF MarkInFlight, MarkUnknown, ledgerVars
  <2>4. ASSUME NEW m \in ProviderIds, MarkAccepted(o, m)
        PROVE  Grown
    <3>1. UNCHANGED ops \/ (ops[o].status = "in_flight" /\ ops' = [ops EXCEPT ![o].status = "accepted", ![o].pid = m])
      BY <2>4 DEF MarkAccepted, ledgerVars
    <3>2. CASE ops[o].status = "in_flight" /\ ops' = [ops EXCEPT ![o].status = "accepted", ![o].pid = m]
      <4>1. ops'[o] = [ops[o] EXCEPT !.status = "accepted", !.pid = m] /\ \A c \in Ops \ {o} : ops'[c] = ops[c]
        BY <3>2
      <4>2. ops'[o].status = "accepted" /\ ops'[o].slot = ops[o].slot /\ ops'[o].profile = ops[o].profile
        BY <4>1
      <4> QED BY <3>2, <4>1, <4>2
    <3> QED BY <3>1, <3>2
  <2> QED BY <1>2, <2>1, <2>2, <2>3, <2>4, <2>5 DEF OpStep
<1>3. CASE UNCHANGED ledgerVars
  BY <1>3 DEF ledgerVars
<1> QED BY <1>1, <1>2, <1>3 DEF LedgerNext

--------------------------------------------------------------------------------
(* Jobs *)

JobsOK == send \in [Senders -> Jobs] /\ JobsSound

LEMMA SoundStays ==
  ASSUME Grown, NEW j, Sound(j, ops)
  PROVE  Sound(j, ops')
BY DEF Sound, Grown, Exists

\* A sender that goes on with a sound job leaves all jobs sound.
LEMMA JobGoesOn ==
  ASSUME JobsOK, Grown, NEW q \in Senders, NEW j \in Jobs, send' = [send EXCEPT ![q] = j], Sound(j, ops'),
         j.pc = "waiting" => q # Worker
  PROVE  JobsOK'
<1>1. \A r \in Senders : Sound(send[r], ops')
  BY SoundStays DEF JobsOK, JobsSound
<1>2. send' \in [Senders -> Jobs] /\ \A r \in Senders : send'[r] = IF r = q THEN j ELSE send[r]
  BY DEF JobsOK
<1>3. Worker \in Senders
  BY DEF Senders
<1> QED BY <1>1, <1>2, <1>3 DEF JobsOK, JobsSound

LEMMA JobsStay ==
  ASSUME JobsOK, Grown, UNCHANGED send
  PROVE  JobsOK'
<1>1. \A r \in Senders : Sound(send[r], ops')
  BY SoundStays DEF JobsOK, JobsSound
<1> QED BY <1>1 DEF JobsOK, JobsSound

LEMMA EmptyJobs ==
  ASSUME NEW pc \in {"off", "preflight", "idle", "waiting"}
  PROVE  [NoJob EXCEPT !.pc = pc] \in Jobs /\ Sound([NoJob EXCEPT !.pc = pc], ops')
<1> DEFINE j == [NoJob EXCEPT !.pc = pc]
<1>1. j \in Jobs /\ j.pc = pc /\ j.op = None
  <2>1. 0 \in 0..(MaxTries - 1)
    BY PipelineAssumption
  <2>2. NoJob \in Jobs /\ NoJob.op = None
    BY <2>1 DEF NoJob, Jobs
  <2> QED BY <2>2 DEF Jobs
<1>2. Sound(j, ops')
  BY <1>1, LedgerAssumption DEF Sound, Owning, Before, Ops
<1> QED BY <1>1, <1>2

LEMMA JobsBegin ==
  ASSUME PipelineTypeOK, JobsOK, OneOperation, Grown, NEW q \in Senders, BeginSend(q) \/ RefuseSend(q)
  PROVE  JobsOK'
<1> DEFINE s == send[q].slot
           x == Resumed(s)
<1>1. s \in Slots /\ send[q] = [NoJob EXCEPT !.pc = "begin", !.slot = s]
  BY DEF BeginSend, RefuseSend, JobsOK, JobsSound, Sound
<1>2. ASSUME NEW o \in Ops, NEW pc \in {"created", "connect"}, ops'[o].status # "absent", ops'[o].slot = s,
             send' = [send EXCEPT ![q].op = o, ![q].pc = pc]
      PROVE  JobsOK'
  <2> DEFINE j == [send[q] EXCEPT !.op = o, !.pc = pc]
  <2>1. j \in Jobs /\ j.pc = pc /\ j.op = o /\ j.slot = s
    <3>1. send[q] \in Jobs /\ send[q].slot = s
      BY DEF JobsOK
    <3> QED BY <3>1 DEF Jobs
  <2>2. Sound(j, ops')
    BY <1>1, <1>2, <2>1 DEF Sound
  <2>3. send' = [send EXCEPT ![q] = j]
    BY <1>2 DEF JobsOK
  <2> HIDE DEF j
  <2> QED BY <2>1, <2>2, <2>3, JobGoesOn
<1>3. CASE RefuseSend(q)
  <2> DEFINE j == [send[q] EXCEPT !.outcome = "failed", !.pc = "finish"]
  <2>1. j \in Jobs /\ j.pc = "finish" /\ j.op = None /\ j.slot = s
    BY <1>1 DEF JobsOK, Jobs, NoJob
  <2>2. Sound(j, ops')
    BY <1>1, <2>1, LedgerAssumption DEF Sound, Owning, Before, Ops
  <2>3. send' = [send EXCEPT ![q] = j]
    BY <1>3 DEF RefuseSend, JobsOK
  <2> HIDE DEF j
  <2> QED BY <2>1, <2>2, <2>3, JobGoesOn
<1>4. CASE BeginSend(q)
  <2>1. ASSUME NEW o \in Ops, Create(o, s[1], s, None), send' = [send EXCEPT ![q].op = o, ![q].pc = "created"]
        PROVE  JobsOK'
    <3>1. ops'[o].status # "absent" /\ ops'[o].slot = s
      BY <2>1 DEF Create, Exists, PipelineTypeOK, TypeOK
    <3> QED BY <1>2, <2>1, <3>1
  <2>2. ASSUME x # None, send' = [send EXCEPT ![q].op = x, ![q].pc = "connect"]
        PROVE  JobsOK'
    <3>1. x \in Ops /\ Exists(x) /\ ops[x].slot = s
      BY <1>1, <2>2, ResumedIsTheOne DEF RetryableForSlot, Exists, PreSend
    <3> HIDE DEF x
    <3>2. ops'[x].status # "absent" /\ ops'[x].slot = s
      BY <3>1 DEF Grown, Exists
    <3> QED BY <1>2, <2>2, <3>1, <3>2
  <2> QED BY <1>4, <2>1, <2>2 DEF BeginSend, Resumed
<1> QED BY <1>3, <1>4

\* What a step of a send leaves as it is, so that the job stays sound.
LEMMA OwnerGoesOn ==
  ASSUME JobsOK, Grown, NEW q \in Senders, send[q].pc \in Owning, NEW j \in Jobs, send' = [send EXCEPT ![q] = j],
         j.slot = send[q].slot, j.op = send[q].op \/ (j.op = None /\ j.pc = "finish"),
         j.pc \in Owning \cup {"finish"}, j.pc = "backoff" => j.try < MaxTries - 1
  PROVE  JobsOK'
<1>1. Sound(send[q], ops')
  BY SoundStays DEF JobsOK, JobsSound
<1>2. Sound(j, ops')
  BY <1>1, LedgerAssumption DEF Sound, Owning, Before, Ops
<1> QED BY <1>2, JobGoesOn DEF Owning, Before

LEMMA JobsSend ==
  ASSUME PipelineTypeOK, JobsOK, Grown, NEW q \in Senders,
         ClaimCreated(q) \/ Connect(q) \/ ConnectFails(q) \/ ReviewRequired(q) \/ RetrySend(q) \/ CallProvider(q)
           \/ ProviderAcks(q) \/ SendFails(q) \/ ClientReturns(q) \/ RecordOutcome(q)
  PROVE  JobsOK'
<1>1. send[q] \in Jobs /\ send[q].pc \in Owning
  BY DEF JobsOK, ClaimCreated, Connect, ConnectFails, FailBeforeSend, ReviewRequired, RetrySend, CallProvider, ProviderAcks,
         SendFails, ClientReturns, RecordOutcome, Owning, Before
<1>2. ASSUME NEW j, j \in Jobs, j.slot = send[q].slot, j.op = send[q].op \/ (j.op = None /\ j.pc = "finish"),
             j.pc \in Owning \cup {"finish"}, j.pc = "backoff" => j.try < MaxTries - 1, send' = [send EXCEPT ![q] = j]
      PROVE  JobsOK'
  BY <1>1, <1>2, OwnerGoesOn
<1>3. CASE ClaimCreated(q)
  <2> DEFINE j == [send[q] EXCEPT !.pc = "connect"]
             k == [send[q] EXCEPT !.op = None, !.outcome = "failed", !.pc = "finish"]
  <2>1. j \in Jobs /\ j.slot = send[q].slot /\ j.op = send[q].op /\ j.pc = "connect"
    BY <1>1 DEF Jobs
  <2>2. k \in Jobs /\ k.slot = send[q].slot /\ k.op = None /\ k.pc = "finish"
    BY <1>1 DEF Jobs
  <2>3. send' = [send EXCEPT ![q] = j] \/ send' = [send EXCEPT ![q] = k]
    BY <1>3 DEF ClaimCreated, Goto, JobsOK
  <2> HIDE DEF j, k
  <2> QED BY <1>2, <2>1, <2>2, <2>3 DEF Owning, Before
<1>4. CASE Connect(q)
  <2> DEFINE j == [send[q] EXCEPT !.pc = "ready"]
  <2>1. j \in Jobs /\ j.slot = send[q].slot /\ j.op = send[q].op /\ j.pc = "ready"
    BY <1>1 DEF Jobs
  <2>2. send' = [send EXCEPT ![q] = j]
    BY <1>4 DEF Connect, Goto, JobsOK
  <2> HIDE DEF j
  <2> QED BY <1>2, <2>1, <2>2 DEF Owning, Before
<1>5. CASE ConnectFails(q)
  <2>1. PICK retry \in BOOLEAN : /\ retry => send[q].try < MaxTries - 1
                                 /\ send' = [send EXCEPT ![q].outcome = IF retry THEN "not_started" ELSE "failed",
                                                         ![q].requeue = TRUE,
                                                         ![q].verdict = IF retry THEN None ELSE "failed",
                                                         ![q].pc = IF retry THEN "backoff" ELSE "record"]
    <3>1. PICK auth \in BOOLEAN : FailBeforeSend(q, auth)
      BY <1>5 DEF ConnectFails
    <3> DEFINE again == IF auth THEN send[q].try = 0 ELSE send[q].try < MaxTries - 1
    <3>2. again \in BOOLEAN /\ (again => send[q].try < MaxTries - 1)
      <4>1. send[q].try \in Nat /\ 0 < MaxTries - 1
        BY <1>1, PipelineAssumption DEF Jobs
      <4>2. CASE auth
        BY <4>1, <4>2
      <4>3. CASE ~auth
        BY <4>1, <4>3
      <4> QED BY <4>2, <4>3
    <3>3. send' = [send EXCEPT ![q].outcome = IF again THEN "not_started" ELSE "failed", ![q].requeue = TRUE,
                               ![q].verdict = IF again THEN None ELSE "failed", ![q].pc = IF again THEN "backoff" ELSE "record"]
      BY <3>1 DEF FailBeforeSend
    <3> HIDE DEF again
    <3> QED BY <3>2, <3>3
  <2> DEFINE outcome == IF retry THEN "not_started" ELSE "failed"
             verdict == IF retry THEN None ELSE "failed"
             pc == IF retry THEN "backoff" ELSE "record"
             j == [send[q] EXCEPT !.outcome = outcome, !.requeue = TRUE, !.verdict = verdict, !.pc = pc]
  <2>2. j \in Jobs /\ j.slot = send[q].slot /\ j.op = send[q].op /\ j.pc \in {"backoff", "record"} /\ j.try = send[q].try
        /\ (j.pc = "backoff" => retry)
    <3>1. outcome \in {"not_started", "failed"} /\ verdict \in {None, "failed"} /\ pc \in {"backoff", "record"}
      OBVIOUS
    <3>2. pc = "backoff" => retry
      OBVIOUS
    <3> HIDE DEF outcome, verdict, pc
    <3>3. j \in Jobs /\ j.slot = send[q].slot /\ j.op = send[q].op /\ j.pc = pc /\ j.try = send[q].try
      <4>1. j \in Jobs
        <5>1. [send[q] EXCEPT !.outcome = outcome, !.requeue = TRUE] \in Jobs
          BY <1>1, <3>1 DEF Jobs
        <5>2. ASSUME NEW k \in Jobs PROVE [k EXCEPT !.verdict = verdict, !.pc = pc] \in Jobs
          BY <3>1 DEF Jobs
        <5>3. j = [[send[q] EXCEPT !.outcome = outcome, !.requeue = TRUE] EXCEPT !.verdict = verdict, !.pc = pc]
          OBVIOUS
        <5> QED BY <5>1, <5>2, <5>3
      <4>2. j.slot = send[q].slot /\ j.op = send[q].op
        BY <1>1 DEF Jobs
      <4>3. j.pc = pc /\ j.try = send[q].try
        BY <1>1 DEF Jobs
      <4> QED BY <4>1, <4>2, <4>3
    <3> HIDE DEF j
    <3> QED BY <3>1, <3>2, <3>3
  <2>3. send' = [send EXCEPT ![q] = j]
    BY <2>1 DEF JobsOK
  <2> HIDE DEF j
  <2> QED BY <1>2, <2>1, <2>2, <2>3 DEF Owning, Before
<1>6. CASE ReviewRequired(q)
  <2> DEFINE j == [send[q] EXCEPT !.outcome = "failed", !.requeue = TRUE, !.verdict = "failed", !.pc = "record"]
  <2>1. j \in Jobs /\ j.slot = send[q].slot /\ j.op = send[q].op /\ j.pc = "record"
    BY <1>1 DEF Jobs
  <2>2. send' = [send EXCEPT ![q] = j]
    BY <1>6 DEF ReviewRequired, JobsOK
  <2> HIDE DEF j
  <2> QED BY <1>2, <2>1, <2>2 DEF Owning, Before
<1>7. CASE RetrySend(q)
  <2> DEFINE last == send[q].try + 1 >= MaxTries - 1
             j == [send[q] EXCEPT !.try = @ + 1, !.pc = "connect"]
             k == [send[q] EXCEPT !.try = @ + 1, !.outcome = IF last THEN "failed" ELSE @,
                                  !.verdict = IF last THEN "failed" ELSE @, !.pc = IF last THEN "record" ELSE "backoff"]
  <2>1. send[q].try + 1 \in 0..(MaxTries - 1) /\ (~last => send[q].try + 1 < MaxTries - 1)
    <3>1. send[q].try \in 0..(MaxTries - 1) /\ send[q].try < MaxTries - 1
      BY <1>1, <1>7 DEF RetrySend, JobsOK, JobsSound, Sound, Jobs
    <3> QED BY <3>1, PipelineAssumption
  <2> HIDE DEF last
  <2>2. j \in Jobs /\ j.slot = send[q].slot /\ j.op = send[q].op /\ j.pc = "connect"
    BY <1>1, <2>1 DEF Jobs
  <2>3. k \in Jobs /\ k.slot = send[q].slot /\ k.op = send[q].op /\ k.try = send[q].try + 1
        /\ k.pc = IF last THEN "record" ELSE "backoff"
    BY <1>1, <2>1 DEF Jobs
  <2>4. send' = [send EXCEPT ![q] = j] \/ send' = [send EXCEPT ![q] = k]
    BY <1>7 DEF RetrySend, JobsOK, last
  <2> HIDE DEF j, k
  <2> QED BY <1>2, <2>1, <2>2, <2>3, <2>4 DEF Owning, Before
<1>8. CASE CallProvider(q)
  <2> DEFINE j == [send[q] EXCEPT !.outcome = IF @ = "not_started" THEN "in_flight" ELSE @,
                                  !.requeue = FALSE, !.pc = "sending"]
  <2>1. j \in Jobs /\ j.slot = send[q].slot /\ j.op = send[q].op /\ j.pc = "sending"
    BY <1>1 DEF Jobs
  <2>2. send' = [send EXCEPT ![q] = j]
    BY <1>8 DEF CallProvider, JobsOK
  <2> HIDE DEF j
  <2> QED BY <1>2, <2>1, <2>2 DEF Owning, Before
<1>9. CASE ProviderAcks(q)
  <2> DEFINE j == [send[q] EXCEPT !.outcome = "accepted", !.requeue = FALSE, !.acked = TRUE, !.pc = "acked"]
  <2>1. j \in Jobs /\ j.slot = send[q].slot /\ j.op = send[q].op /\ j.pc = "acked"
    BY <1>1 DEF Jobs
  <2>2. send' = [send EXCEPT ![q] = j]
    BY <1>9 DEF ProviderAcks, JobsOK
  <2> HIDE DEF j
  <2> QED BY <1>2, <2>1, <2>2 DEF Owning, Before
<1>10. CASE SendFails(q)
  <2> DEFINE j == [send[q] EXCEPT !.outcome = "unknown", !.requeue = FALSE, !.verdict = "unknown", !.pc = "record"]
  <2>1. j \in Jobs /\ j.slot = send[q].slot /\ j.op = send[q].op /\ j.pc = "record"
    BY <1>1 DEF Jobs
  <2>2. send' = [send EXCEPT ![q] = j]
    BY <1>10 DEF SendFails, JobsOK
  <2> HIDE DEF j
  <2> QED BY <1>2, <2>1, <2>2 DEF Owning, Before
<1>11. CASE ClientReturns(q)
  <2>1. PICK verdict \in {"sent", "unknown"} : send' = [send EXCEPT ![q].verdict = verdict, ![q].pc = "record"]
    BY <1>11 DEF ClientReturns
  <2> DEFINE j == [send[q] EXCEPT !.verdict = verdict, !.pc = "record"]
  <2>2. j \in Jobs /\ j.slot = send[q].slot /\ j.op = send[q].op /\ j.pc = "record"
    BY <1>1 DEF Jobs
  <2>3. send' = [send EXCEPT ![q] = j]
    BY <2>1 DEF JobsOK
  <2> HIDE DEF j
  <2> QED BY <1>2, <2>2, <2>3 DEF Owning, Before
<1>12. CASE RecordOutcome(q)
  <2> DEFINE j == [send[q] EXCEPT !.pc = "finish"]
  <2>1. j \in Jobs /\ j.slot = send[q].slot /\ j.op = send[q].op /\ j.pc = "finish"
    BY <1>1 DEF Jobs
  <2>2. send' = [send EXCEPT ![q] = j]
    BY <1>12 DEF RecordOutcome, Goto, JobsOK
  <2> HIDE DEF j
  <2> QED BY <1>2, <2>1, <2>2 DEF Owning, Before
<1> QED BY <1>3, <1>4, <1>5, <1>6, <1>7, <1>8, <1>9, <1>10, <1>11, <1>12

\* The worker's life outside a send, the tests, and the end of a send.
LEMMA JobsRest ==
  ASSUME PipelineTypeOK, JobsOK, Grown,
         \/ StartWorker \/ SpawnWorker \/ WorkerClaims \/ WorkerFindsNothing \/ CancelWorker \/ Crash
         \/ \E q \in Senders : FinalizeJob(q)
         \/ \E q \in Testers : TestStep(q)
  PROVE  JobsOK'
<1>1. Worker \in Senders /\ Testers \subseteq Senders /\ Worker \notin Testers
  BY PipelineAssumption DEF Senders
<1>2. ASSUME NEW q \in Senders, NEW pc \in {"off", "preflight", "idle", "waiting"},
             pc = "waiting" => q # Worker, send' = [send EXCEPT ![q] = [NoJob EXCEPT !.pc = pc]]
      PROVE  JobsOK'
  <2> DEFINE j == [NoJob EXCEPT !.pc = pc]
  <2>1. j \in Jobs /\ Sound(j, ops') /\ j.pc = pc
    BY EmptyJobs DEF NoJob
  <2> HIDE DEF j
  <2> QED BY <1>2, <2>1, JobGoesOn DEF j
<1>3. ASSUME NEW q \in Senders, send[q].pc \in {"off", "preflight", "idle", "waiting"},
             NEW pc \in {"off", "preflight", "idle", "waiting"}, pc = "waiting" => q # Worker, Goto(q, pc)
      PROVE  JobsOK'
  <2>1. send[q] = [NoJob EXCEPT !.pc = send[q].pc]
    BY <1>3 DEF JobsOK, JobsSound, Sound
  <2>2. [send[q] EXCEPT !.pc = pc] = [NoJob EXCEPT !.pc = pc]
    BY <2>1 DEF NoJob
  <2>3. send' = [send EXCEPT ![q] = [NoJob EXCEPT !.pc = pc]]
    BY <1>3, <2>2 DEF Goto, JobsOK
  <2> QED BY <1>2, <1>3, <2>3
<1>4. ASSUME NEW q \in Senders, NEW s \in Slots, send' = [send EXCEPT ![q] = [NoJob EXCEPT !.pc = "begin", !.slot = s]]
      PROVE  JobsOK'
  <2> DEFINE j == [NoJob EXCEPT !.pc = "begin", !.slot = s]
  <2>1. NoJob \in Jobs /\ NoJob.op = None
    BY EmptyJobs DEF NoJob, Jobs
  <2>2. j \in Jobs /\ j.pc = "begin" /\ j.op = None /\ j.slot = s /\ j = [NoJob EXCEPT !.pc = j.pc, !.slot = j.slot]
    BY <2>1 DEF Jobs
  <2>3. Sound(j, ops')
    BY <2>2, LedgerAssumption DEF Sound, Owning, Before, Ops
  <2> HIDE DEF j
  <2> QED BY <1>4, <2>2, <2>3, JobGoesOn DEF j
<1>5. CASE StartWorker
  BY <1>1, <1>3, <1>5 DEF StartWorker
<1>6. CASE SpawnWorker
  BY <1>1, <1>3, <1>6 DEF SpawnWorker
<1>7. CASE WorkerClaims
  BY <1>1, <1>4, <1>7 DEF WorkerClaims, Claimable
<1>8. CASE WorkerFindsNothing
  BY <1>1, <1>3, <1>8 DEF WorkerFindsNothing
<1>9. ASSUME NEW q \in Testers, TestStep(q)
      PROVE  JobsOK'
  BY <1>1, <1>3, <1>4, <1>9 DEF TestStep, TestBegins, TestClaims, Claimable
<1>10. ASSUME NEW q \in Senders, FinalizeJob(q)
       PROVE  JobsOK'
  <2>1. send' = [send EXCEPT ![q] = [NoJob EXCEPT !.pc = "off"]] \/ send' = [send EXCEPT ![q] = [NoJob EXCEPT !.pc = "idle"]]
    BY <1>10 DEF FinalizeJob, Off, NoJob
  <2> QED BY <1>2, <2>1
<1>11. CASE Crash
  <2>1. Off = [NoJob EXCEPT !.pc = "off"] /\ NoJob = [NoJob EXCEPT !.pc = "idle"] /\ Off.pc = "off" /\ NoJob.pc = "idle"
    <3>1. Off = [NoJob EXCEPT !.pc = "off"]
      BY DEF Off
    <3>2. NoJob \in Jobs /\ Off.pc = "off" /\ NoJob.pc = "idle"
      BY EmptyJobs DEF Off, NoJob, Jobs
    <3>3. NoJob = [NoJob EXCEPT !.pc = "idle"]
      BY <3>2 DEF Jobs
    <3> QED BY <3>1, <3>2, <3>3
  <2>2. Off \in Jobs /\ Sound(Off, ops') /\ NoJob \in Jobs /\ Sound(NoJob, ops')
    BY <2>1, EmptyJobs
  <2>3. send' = [q \in Senders |-> IF q = Worker THEN Off ELSE NoJob]
    BY <1>11 DEF Crash
  <2> QED BY <1>1, <2>1, <2>2, <2>3 DEF JobsOK, JobsSound
<1>12. CASE CancelWorker
  <2> DEFINE w == send[Worker]
             j == [w EXCEPT !.dying = TRUE, !.requeue = TRUE, !.pc = "finish"]
             k == [w EXCEPT !.dying = TRUE, !.pc = "record", !.outcome = IF w.acked THEN @ ELSE "unknown",
                            !.verdict = IF w.acked THEN "sent" ELSE "unknown"]
  <2>1. \/ send' = [send EXCEPT ![Worker] = [NoJob EXCEPT !.pc = "off"]]
        \/ w.pc \in {"connect", "ready", "backoff"} /\ send' = [send EXCEPT ![Worker] = j]
        \/ w.pc \in {"sending", "acked"} /\ send' = [send EXCEPT ![Worker] = k]
    <3>1. w.pc \in {"preflight", "idle", "connect", "ready", "sending", "acked", "backoff"}
      BY <1>1, <1>12 DEF CancelWorker, LoopIdle, Synchronous, JobsOK, JobsSound, Jobs
    <3>2. send' = [send EXCEPT ![Worker] = IF w.pc \in {"idle", "preflight"} THEN Off
                     ELSE IF w.pc \in {"connect", "ready"} \/ w.pc = "backoff" THEN j ELSE k]
      BY <1>12 DEF CancelWorker
    <3> HIDE DEF j, k
    <3> QED BY <3>1, <3>2 DEF Off
  <2>2. w \in Jobs
    BY <1>1 DEF JobsOK
  <2>3. /\ j \in Jobs /\ j.slot = w.slot /\ j.op = w.op /\ j.pc = "finish"
        /\ k \in Jobs /\ k.slot = w.slot /\ k.op = w.op /\ k.pc = "record"
    BY <2>2 DEF Jobs
  <2> HIDE DEF j, k
  <2> QED BY <1>1, <1>2, <2>1, <2>2, <2>3, OwnerGoesOn DEF Owning, Before
<1> QED BY <1>5, <1>6, <1>7, <1>8, <1>9, <1>10, <1>11, <1>12

--------------------------------------------------------------------------------
(* One operation for a slot *)

LEMMA WeekOfDate ==
  ASSUME NEW s \in Slots
  PROVE  s[2] \in Nat /\ Week(DateOf(s)) = s[2]
<1>1. ASSUME NEW w \in Nat, NEW d \in 0..(DaysPerWeek - 1)
      PROVE  (w * DaysPerWeek + d) \div DaysPerWeek = w
  BY PipelineAssumption
<1>2. \A d \in Nat : d \div DaysPerWeek \in Nat
  BY PipelineAssumption
<1>3. s[2] \in Nat /\ Weekday[s[1]] \in 0..(DaysPerWeek - 1)
  BY <1>2, PipelineAssumption DEF Weeks, Week
<1> QED BY <1>1, <1>3 DEF Week, DateOf

LEMMA WeeksGrow ==
  ASSUME NEW d \in Nat, NEW e \in Nat, d <= e
  PROVE  Week(d) \in Nat /\ Week(e) \in Nat /\ Week(d) <= Week(e)
BY PipelineAssumption DEF Week

\* The guard of a send lets no second operation be made for a slot: an earlier
\* one is resumed, blocks the slot, or has been logged as sent in this week.
LEMMA BeginsFirst ==
  ASSUME PipelineTypeOK, JobsSound, Booked, NEW q \in Senders, NEW o \in Ops, Begins(q, o), OneOperation
  PROVE  \A c \in Ops : Exists(c) => ops[c].slot # send[q].slot
<1> DEFINE s == send[q].slot
<1>1. s \in Slots /\ DateOf(s) = today /\ RetryableForSlot(s, s[1]) = {} /\ ~Blocked(s[1], None)
  <2>1. s \in Slots
    BY DEF Begins, BeginSend, JobsSound, Sound
  <2>2. RetryableForSlot(s, s[1]) = {}
    BY <2>1, ResumedIsTheOne, LedgerAssumption DEF Begins, Ops
  <2> QED BY <2>1, <2>2 DEF Begins, BeginSend
<1>2. s[2] \in Nat /\ s[2] = Week(today) /\ s = <<s[1], Week(today)>> /\ today \in Nat
  BY <1>1, WeekOfDate, PipelineAssumption DEF PipelineTypeOK
<1> HIDE DEF s
<1>3. SUFFICES ASSUME NEW c \in Ops, Exists(c), ops[c].slot = s
               PROVE  FALSE
  BY DEF s
<1>4. ops[c].profile = s[1] /\ c # None
  BY <1>3, LedgerAssumption DEF Booked, Ops
<1>5. ops[c].status \notin PreSend
  BY <1>1, <1>3, <1>4 DEF RetryableForSlot
<1>6. ops[c].status = "accepted" /\ log[c].status = "sent"
  <2>1. ops[c].status \in {"in_flight", "accepted", "unknown"}
    BY <1>3, <1>5 DEF Exists, PipelineTypeOK, TypeOK, Rows, Statuses, Terminal
  <2>2. ops[c].slot = <<s[1], Week(today)>>
    BY <1>2, <1>3
  <2> QED BY <1>1, <1>4, <2>1, <2>2 DEF Blocked
<1>7. log[c].day \in Nat /\ Week(log[c].day) = Week(today)
  <2>1. log[c].day \in Nat /\ log[c].day <= today /\ Week(today) <= Week(log[c].day)
    BY <1>2, <1>3, <1>6, PipelineAssumption DEF Booked, PipelineTypeOK
  <2> QED BY <1>2, <2>1, WeeksGrow
<1> QED BY <1>1, <1>4, <1>6, <1>7 DEF Blocked

LEMMA QuietMakesNone ==
  ASSUME TypeOK, Quiet \/ \E q \in Senders : CallProvider(q)
  PROVE  \A o \in Ops : Exists(o)' => Exists(o)
<1> USE DEF Exists, TypeOK, Rows, PreSend, Terminal
<1>1. CASE UNCHANGED ledgerVars
  BY <1>1 DEF ledgerVars
<1>2. CASE RecoverInFlight
  BY <1>2 DEF RecoverInFlight
<1>3. ASSUME NEW o \in Ops, Marks(o)
      PROVE  \A c \in Ops : Exists(c)' => Exists(c)
  <2>1. CASE (\E p \in Profiles : Claim(o, p)) \/ MarkFailedUnsent(o)
    <3>1. \/ UNCHANGED ledgerVars
          \/ ops[o].status \in PreSend /\ \E status \in {"claimed", "failed_unsent"} : ops' = [ops EXCEPT ![o].status = status]
      BY <2>1 DEF Claim, CanClaim, MarkFailedUnsent
    <3>2. CASE UNCHANGED ledgerVars
      BY <1>1, <3>2
    <3>3. ASSUME NEW status \in {"claimed", "failed_unsent"}, ops' = [ops EXCEPT ![o].status = status], ops[o].status \in PreSend
          PROVE  ops'[o].status = status /\ \A c \in Ops \ {o} : ops'[c] = ops[c]
      BY <3>3
    <3> QED BY <3>1, <3>2, <3>3
  <2>2. CASE Retry(o)
    BY <2>2 DEF Retry, CanRetry
  <2>3. CASE MarkUnknown(o)
    BY <2>3, <1>1 DEF MarkUnknown
  <2>4. ASSUME NEW m \in ProviderIds, MarkAccepted(o, m)
        PROVE  \A c \in Ops : Exists(c)' => Exists(c)
    <3>1. UNCHANGED ledgerVars \/ (ops[o].status = "in_flight" /\ \A c \in Ops \ {o} : ops'[c] = ops[c])
      BY <2>4 DEF MarkAccepted
    <3> QED BY <1>1, <3>1
  <2> QED BY <1>3, <2>1, <2>2, <2>3, <2>4 DEF Marks
<1>4. ASSUME NEW q \in Senders, CallProvider(q)
      PROVE  \A c \in Ops : Exists(c)' => Exists(c)
  BY <1>1, <1>4 DEF CallProvider, MarkInFlight
<1> QED BY <1>1, <1>2, <1>3, <1>4 DEF Quiet

LEMMA OneOperationNext ==
  ASSUME PipelineTypeOK, JobsSound, Booked, OneOperation, [Next]_vars
  PROVE  OneOperation'
<1>1. Grown
  BY CallsLedger, LedgerGrows DEF PipelineTypeOK
<1>2. CASE Quiet \/ \E q \in Senders : CallProvider(q)
  BY <1>1, <1>2, QuietMakesNone DEF OneOperation, Grown, PipelineTypeOK
<1>3. ASSUME NEW q \in Senders, NEW o \in Ops, Begins(q, o)
      PROVE  OneOperation'
  <2> DEFINE s == send[q].slot
  <2>1. \A c \in Ops : Exists(c) => ops[c].slot # s
    BY <1>3, BeginsFirst
  <2>2. ops'[o].slot = s /\ \A c \in Ops \ {o} : ops'[c] = ops[c]
    BY <1>3 DEF Begins, Create, PipelineTypeOK, TypeOK
  <2> HIDE DEF s
  <2> QED BY <2>1, <2>2 DEF OneOperation, Exists
<1> QED BY <1>2, <1>3, Effects

--------------------------------------------------------------------------------
(* Types *)

\* Who writes the slots, the log and the calendar.
LEMMA Writers ==
  ASSUME [Next]_vars
  PROVE  /\ \/ UNCHANGED slots \/ StartWorker \/ WorkerClaims \/ WorkerFindsNothing
            \/ (\E q \in Testers : TestClaims(q)) \/ (\E q \in Senders : FinalizeJob(q))
         /\ UNCHANGED log \/ \E q \in Senders : RecordOutcome(q)
         /\ UNCHANGED today \/ NewDay
<1> DEFINE Goal == /\ \/ UNCHANGED slots \/ StartWorker \/ WorkerClaims \/ WorkerFindsNothing
                      \/ (\E q \in Testers : TestClaims(q)) \/ (\E q \in Senders : FinalizeJob(q))
                   /\ UNCHANGED log \/ \E q \in Senders : RecordOutcome(q)
                   /\ UNCHANGED today \/ NewDay
<1>1. CASE StartWorker \/ SpawnWorker \/ WorkerClaims \/ WorkerFindsNothing
  BY <1>1 DEF StartWorker, SpawnWorker, WorkerClaims, WorkerFindsNothing
<1>2. CASE StartCommand \/ StopCommand \/ StopCompletes \/ CancelWorker \/ NewDay \/ Crash
  BY <1>2 DEF StartCommand, StopCommand, StopCompletes, CancelWorker, NewDay, Crash
<1>3. ASSUME NEW q \in Senders, BeginSend(q) \/ RefuseSend(q) \/ ClaimCreated(q) \/ Connect(q) \/ ConnectFails(q)
      PROVE  Goal
  BY <1>3 DEF BeginSend, RefuseSend, ClaimCreated, Connect, ConnectFails, FailBeforeSend
<1>4. ASSUME NEW q \in Senders, ReviewRequired(q) \/ RetrySend(q) \/ CallProvider(q) \/ ProviderAcks(q) \/ SendFails(q)
      PROVE  Goal
  BY <1>4 DEF ReviewRequired, RetrySend, CallProvider, ProviderAcks, SendFails
<1>5. ASSUME NEW q \in Senders, ClientReturns(q) \/ RecordOutcome(q) \/ FinalizeJob(q)
      PROVE  Goal
  BY <1>5 DEF ClientReturns, RecordOutcome, FinalizeJob
<1>6. ASSUME NEW q \in Testers, TestStep(q)
      PROVE  Goal
  BY <1>6 DEF TestStep, TestBegins, TestClaims
<1>7. CASE UNCHANGED vars
  BY <1>7 DEF vars, jobVars
<1> QED BY <1>1, <1>2, <1>3, <1>4, <1>5, <1>6, <1>7 DEF Next, WorkerStep, Environment, SenderStep

LEMMA SlotsTyped ==
  ASSUME PipelineTypeOK, [Next]_vars
  PROVE  slots' \in [Slots -> SlotStatuses]
<1>1. ASSUME NEW f \in [Slots -> SlotStatuses]
      PROVE  Expired(f) \in [Slots -> SlotStatuses] /\ Materialized(f) \in [Slots -> SlotStatuses]
  BY <1>1 DEF Expired, Materialized, SlotStatuses
<1>2. ASSUME NEW f \in [Slots -> SlotStatuses], NEW rows
      PROVE  Reconciled(f, rows) \in [Slots -> SlotStatuses]
  BY <1>2 DEF Reconciled, SlotStatuses, Terminal
<1>3. slots \in [Slots -> SlotStatuses]
  BY DEF PipelineTypeOK
<1>4. CASE StartWorker
  BY <1>1, <1>2, <1>3, <1>4 DEF StartWorker
<1>5. CASE WorkerClaims \/ WorkerFindsNothing \/ \E q \in Testers : TestClaims(q)
  <2>1. ASSUME NEW f \in [Slots -> SlotStatuses], NEW s \in Slots
        PROVE  [f EXCEPT ![s] = "claimed"] \in [Slots -> SlotStatuses]
    BY DEF SlotStatuses
  <2>2. Expired(slots) \in [Slots -> SlotStatuses] /\ Expired(Materialized(slots)) \in [Slots -> SlotStatuses]
    BY <1>1, <1>3
  <2>3. CASE WorkerClaims
    BY <2>1, <2>2, <2>3 DEF WorkerClaims, Claimable
  <2>4. CASE WorkerFindsNothing
    BY <1>3, <2>2, <2>4 DEF WorkerFindsNothing
  <2>5. ASSUME NEW q \in Testers, TestClaims(q)
        PROVE  slots' \in [Slots -> SlotStatuses]
    <3> DEFINE table == Expired(Materialized(slots))
    <3>1. slots' = table \/ \E s \in Slots : slots' = [table EXCEPT ![s] = "claimed"]
      BY <2>5 DEF TestClaims, Claimable
    <3> HIDE DEF table
    <3>2. table \in [Slots -> SlotStatuses]
      BY <2>2 DEF table
    <3> QED BY <2>1, <3>1, <3>2
  <2> QED BY <1>5, <2>3, <2>4, <2>5
<1>6. ASSUME NEW q \in Senders, FinalizeJob(q)
      PROVE  slots' \in [Slots -> SlotStatuses]
  <2>1. FinalStatus(q) \in SlotStatuses
    BY DEF FinalStatus, SlotStatuses
  <2> QED BY <1>3, <1>6, <2>1 DEF FinalizeJob, Swallow
<1> QED BY <1>3, <1>4, <1>5, <1>6, Writers

\* The log and the calendar: a row's day is the day it was written.
LEMMA BookedNext ==
  ASSUME PipelineTypeOK, JobsOK, Booked, OneOperation, [Next]_vars
  PROVE  /\ Booked' /\ today' \in 0..MaxDay
         /\ log' \in [Ops -> [status : {None, "sent", "failed", "unknown"}, day : 0..MaxDay]]
<1>1. Grown
  BY CallsLedger, LedgerGrows DEF PipelineTypeOK, JobsOK
<1>2. today \in Nat /\ today' \in 0..MaxDay /\ today <= today' /\ Week(today) <= Week(today')
  <2>1. today \in 0..MaxDay /\ today' \in 0..MaxDay /\ today <= today'
    BY Writers, PipelineAssumption DEF NewDay, PipelineTypeOK
  <2> QED BY <2>1, WeeksGrow
<1>3. \A o \in Ops : Exists(o)' => ops'[o].slot \in Slots /\ ops'[o].profile = ops'[o].slot[1] /\ ops'[o].slot[2] <= Week(today')
  <2>1. \A o \in Ops : Exists(o) => ops[o].slot[2] \in Nat
    BY WeekOfDate DEF Booked
  <2>2. Week(today) \in Nat /\ Week(today') \in Nat
    BY <1>2, WeeksGrow
  <2>3. \A o \in Ops : Exists(o) => ops'[o].slot \in Slots /\ ops'[o].profile = ops'[o].slot[1] /\ ops'[o].slot[2] <= Week(today')
    BY <1>1, <1>2, <2>1, <2>2 DEF Grown, Booked
  <2>4. CASE \A o \in Ops : Exists(o)' => Exists(o)
    BY <2>3, <2>4
  <2>5. ASSUME NEW q \in Senders, NEW o \in Ops, Begins(q, o)
        PROVE  \A c \in Ops : Exists(c)' => ops'[c].slot \in Slots /\ ops'[c].profile = ops'[c].slot[1] /\ ops'[c].slot[2] <= Week(today')
    <3> DEFINE s == send[q].slot
    <3>1. s \in Slots /\ s[2] = Week(today)
      BY <2>5, WeekOfDate DEF Begins, BeginSend, JobsOK, JobsSound, Sound
    <3>2. ops'[o].slot = s /\ ops'[o].profile = s[1] /\ \A c \in Ops \ {o} : ops'[c] = ops[c]
      BY <2>5 DEF Begins, Create, PipelineTypeOK, TypeOK
    <3> HIDE DEF s
    <3> QED BY <1>2, <2>3, <3>1, <3>2 DEF Exists
  <2> QED BY <2>4, <2>5, Effects, QuietMakesNone DEF PipelineTypeOK, JobsOK
<1>4. CASE UNCHANGED log
  <2>1. \A o \in Ops : log[o].status = "sent" => Exists(o)' /\ log[o].day <= today' /\ ops'[o].slot[2] <= Week(log[o].day)
    <3>1. \A o \in Ops : log[o].day \in Nat
      BY PipelineAssumption DEF PipelineTypeOK
    <3> QED BY <1>1, <1>2, <3>1 DEF Booked, Grown
  <2>2. \A o \in Ops : ~Exists(o)' => ops'[o].slot = None
    BY <1>1 DEF Booked, Grown
  <2> QED BY <1>2, <1>3, <1>4, <2>1, <2>2 DEF Booked, PipelineTypeOK
<1>5. ASSUME NEW q \in Senders, RecordOutcome(q)
      PROVE  /\ Booked' /\ log' \in [Ops -> [status : {None, "sent", "failed", "unknown"}, day : 0..MaxDay]]
  <2> DEFINE o == send[q].op
             row == [status |-> send[q].verdict, day |-> today]
  <2>1. o \in Ops /\ Exists(o) /\ UNCHANGED <<ops, today>> /\ row \in [status : {None, "sent", "failed", "unknown"}, day : 0..MaxDay]
    BY <1>5 DEF RecordOutcome, ledgerVars, JobsOK, JobsSound, Sound, Owning, Exists, PipelineTypeOK, Jobs
  <2>2. CASE log' = [log EXCEPT ![o] = row]
    <3>1. log' \in [Ops -> [status : {None, "sent", "failed", "unknown"}, day : 0..MaxDay]]
      BY <2>1, <2>2 DEF PipelineTypeOK
    <3>2. log'[o].day = today /\ \A c \in Ops \ {o} : log'[c] = log[c]
      BY <2>1, <2>2 DEF PipelineTypeOK
    <3> HIDE DEF o, row
    <3> QED BY <1>2, <2>1, <3>1, <3>2 DEF Booked, Exists
  <2> QED BY <1>4, <1>5, <2>2 DEF RecordOutcome, Swallow
<1> QED BY <1>2, <1>4, <1>5, Writers

LEMMA JobsNext ==
  ASSUME PipelineTypeOK, JobsOK, OneOperation, [Next]_vars
  PROVE  JobsOK'
<1>1. Grown
  BY CallsLedger, LedgerGrows DEF PipelineTypeOK, JobsOK
<1>2. CASE UNCHANGED send
  BY <1>1, <1>2, JobsStay
<1>3. CASE StartCommand \/ StopCommand \/ StopCompletes \/ NewDay \/ UNCHANGED vars
  BY <1>2, <1>3 DEF StartCommand, StopCommand, StopCompletes, NewDay, vars, jobVars
<1>4. CASE WorkerStep \/ CancelWorker \/ Crash \/ \E q \in Testers : TestStep(q)
  BY <1>1, <1>4, JobsRest DEF WorkerStep
<1>5. ASSUME NEW q \in Senders, SenderStep(q)
      PROVE  JobsOK'
  BY <1>1, <1>5, JobsBegin, JobsSend, JobsRest DEF SenderStep
<1> QED BY <1>3, <1>4, <1>5 DEF Next, Environment

LEMMA RestTyped ==
  ASSUME PipelineTypeOK, JobsOK, [Next]_vars
  PROVE  /\ ctl' \in [state : {"stopped", "stopping", "running", "testing"}, tester : Testers \cup {None}]
         /\ calls' \in [Ops -> Nat]
         /\ crashes' \in 0..MaxCrashes /\ faults' \in 0..MaxFaults
<1> DEFINE Ctls == [state : {"stopped", "stopping", "running", "testing"}, tester : Testers \cup {None}]
           Goal == ctl' \in Ctls /\ calls' \in [Ops -> Nat] /\ crashes' \in 0..MaxCrashes /\ faults' \in 0..MaxFaults
<1>1. ctl \in Ctls /\ calls \in [Ops -> Nat] /\ crashes \in 0..MaxCrashes /\ faults \in 0..MaxFaults
  BY DEF PipelineTypeOK
<1>2. /\ \A r \in Testers : [state |-> "testing", tester |-> r] \in Ctls
      /\ \A st \in {"stopped", "stopping", "running"} : [state |-> st, tester |-> None] \in Ctls
      /\ \A c \in Ctls : [c EXCEPT !.state = "stopped"] \in Ctls /\ [c EXCEPT !.tester = None] \in Ctls
  OBVIOUS
<1> HIDE DEF Ctls
<1>3. faults < MaxFaults /\ faults' = faults + 1 => faults' \in 0..MaxFaults
  BY <1>1, PipelineAssumption
<1>4. ASSUME NEW o, TryFailedUnsent(o) \/ TryUnknown(o)
      PROVE  faults' \in 0..MaxFaults
  BY <1>1, <1>3, <1>4 DEF TryFailedUnsent, TryUnknown, Swallow
<1>5. ASSUME StartWorker \/ SpawnWorker \/ WorkerClaims \/ WorkerFindsNothing \/ NewDay \/ UNCHANGED vars
      PROVE  Goal
  BY <1>1, <1>5 DEF StartWorker, SpawnWorker, WorkerClaims, WorkerFindsNothing, NewDay, vars, jobVars
<1>6. ASSUME StartCommand \/ StopCommand \/ StopCompletes
      PROVE  Goal
  BY <1>1, <1>2, <1>6 DEF StartCommand, StopCommand, StopCompletes
<1>7. ASSUME Crash
      PROVE  Goal
  <2>1. crashes' \in 0..MaxCrashes
    BY <1>1, <1>7, PipelineAssumption DEF Crash
  <2> QED BY <1>1, <1>2, <1>7, <2>1 DEF Crash
<1>8. ASSUME CancelWorker
      PROVE  Goal
  BY <1>1, <1>4, <1>8 DEF CancelWorker
<1>9. ASSUME NEW q \in Senders, BeginSend(q) \/ RefuseSend(q) \/ ClaimCreated(q) \/ Connect(q) \/ ProviderAcks(q)
      PROVE  Goal
  BY <1>1, <1>3, <1>9 DEF BeginSend, RefuseSend, ClaimCreated, Connect, ProviderAcks
<1>10. ASSUME NEW q \in Senders, ConnectFails(q) \/ ReviewRequired(q) \/ RetrySend(q) \/ SendFails(q) \/ ClientReturns(q)
      PROVE  Goal
  BY <1>1, <1>4, <1>10 DEF ConnectFails, FailBeforeSend, ReviewRequired, RetrySend, SendFails, ClientReturns
<1>11. ASSUME NEW q \in Senders, CallProvider(q)
      PROVE  Goal
  <2>1. \A n \in Nat : n + 1 \in Nat
    OBVIOUS
  <2>2. calls' \in [Ops -> Nat]
    BY <1>1, <1>11, <2>1 DEF CallProvider
  <2> QED BY <1>1, <1>11, <2>2 DEF CallProvider
<1>12. ASSUME NEW q \in Senders, RecordOutcome(q) \/ FinalizeJob(q)
      PROVE  Goal
  BY <1>1, <1>2, <1>3, <1>12 DEF RecordOutcome, FinalizeJob, Swallow, EndTest
<1>13. ASSUME NEW q \in Testers, TestStep(q)
      PROVE  Goal
  BY <1>1, <1>2, <1>13 DEF TestStep, TestBegins, TestClaims, EndTest
<1> QED BY <1>5, <1>6, <1>7, <1>8, <1>9, <1>10, <1>11, <1>12, <1>13 DEF Next, WorkerStep, Environment, SenderStep, Ctls

--------------------------------------------------------------------------------
(* Calls are attempts *)

\* Only a provider call takes an operation over the boundary.
LEMMA Boundary ==
  ASSUME TypeOK, Quiet \/ \E q \in Senders, o \in Ops : Begins(q, o)
  PROVE  \A o \in Ops : /\ Crossed(o)' => Crossed(o)
                        /\ ops'[o].status = "in_flight" => ops[o].status = "in_flight"
<1> DEFINE Goal == \A o \in Ops : /\ Crossed(o)' => Crossed(o)
                                  /\ ops'[o].status = "in_flight" => ops[o].status = "in_flight"
<1> USE DEF Crossed, TypeOK, Rows, PreSend, Terminal
<1>1. CASE UNCHANGED ledgerVars
  BY <1>1 DEF ledgerVars
<1>2. CASE RecoverInFlight
  BY <1>2 DEF RecoverInFlight
<1>3. ASSUME NEW o \in Ops, Marks(o)
      PROVE  Goal
  <2>1. CASE (\E p \in Profiles : Claim(o, p)) \/ MarkFailedUnsent(o)
    <3>1. \/ UNCHANGED ledgerVars
          \/ ops[o].status \in PreSend /\ \E status \in {"claimed", "failed_unsent"} : ops' = [ops EXCEPT ![o].status = status]
      BY <2>1 DEF Claim, CanClaim, MarkFailedUnsent
    <3>2. CASE UNCHANGED ledgerVars
      BY <1>1, <3>2
    <3>3. ASSUME NEW status \in {"claimed", "failed_unsent"}, ops' = [ops EXCEPT ![o].status = status], ops[o].status \in PreSend
          PROVE  ops'[o].status = status /\ \A c \in Ops \ {o} : ops'[c] = ops[c]
      BY <3>3
    <3> QED BY <3>1, <3>2, <3>3
  <2>2. CASE Retry(o)
    BY <2>2 DEF Retry, CanRetry
  <2>3. CASE MarkUnknown(o)
    BY <2>3, <1>1 DEF MarkUnknown
  <2>4. ASSUME NEW m \in ProviderIds, MarkAccepted(o, m)
        PROVE  Goal
    <3>1. UNCHANGED ledgerVars \/ (ops[o].status = "in_flight" /\ \A c \in Ops \ {o} : ops'[c] = ops[c])
      BY <2>4 DEF MarkAccepted
    <3> QED BY <1>1, <3>1
  <2> QED BY <1>3, <2>1, <2>2, <2>3, <2>4 DEF Marks
<1>4. ASSUME NEW q \in Senders, NEW o \in Ops, Begins(q, o)
      PROVE  Goal
  BY <1>4 DEF Begins, Create
<1> QED BY <1>1, <1>2, <1>3, <1>4 DEF Quiet

\* The call itself: the client of the account is held by one sender, so the
\* operation is not already in flight.
LEMMA CallIsFirst ==
  ASSUME PipelineTypeOK, JobsOK, ClientExclusive, FlightHasCaller, NEW q \in Senders, CallProvider(q)
  PROVE  send[q].op \in Ops /\ ops[send[q].op].status = "claimed"
<1> DEFINE o == send[q].op
<1>1. o \in Ops /\ send[q].pc = "ready" /\ ops[o].slot = send[q].slot
  BY DEF CallProvider, JobsOK, JobsSound, Sound, Owning, Before
<1>2. ASSUME ops[o].status = "in_flight"
      PROVE  FALSE
  <2>1. PICK r \in Senders \ {q} : send[r].pc = "sending" /\ send[r].op = o
    BY <1>1, <1>2 DEF FlightHasCaller, Before
  <2>2. ops[o].slot = send[r].slot
    BY <1>1, <2>1 DEF JobsOK, JobsSound, Sound
  <2> QED BY <1>1, <2>1, <2>2 DEF ClientExclusive, HoldsClient
<1> QED BY <1>1, <1>2 DEF CallProvider, MarkInFlight

LEMMA CallsNext ==
  ASSUME PipelineTypeOK, JobsOK, OneOperation, ClientExclusive, FlightHasCaller, CallsAreAttempts, [Next]_vars
  PROVE  CallsAreAttempts'
<1>1. Grown
  BY CallsLedger, LedgerGrows DEF PipelineTypeOK, JobsOK
<1>2. ASSUME Quiet \/ \E q \in Senders, o \in Ops : Begins(q, o)
      PROVE  CallsAreAttempts'
  <2>1. UNCHANGED calls
    BY <1>2 DEF Quiet, Begins, BeginSend
  <2>2. \A o \in Ops : Crossed(o)' <=> Crossed(o)
    BY <1>1, <1>2, Boundary DEF Grown, PipelineTypeOK
  <2> QED BY <2>1, <2>2 DEF CallsAreAttempts
<1>3. ASSUME NEW q \in Senders, CallProvider(q)
      PROVE  CallsAreAttempts'
  <2> DEFINE o == send[q].op
  <2>1. o \in Ops /\ ops[o].status = "claimed"
    BY <1>3, CallIsFirst
  <2>2. calls' = [calls EXCEPT ![o] = @ + 1] /\ ops' = [ops EXCEPT ![o].status = "in_flight"]
    BY <1>3, <2>1 DEF CallProvider, MarkInFlight
  <2> HIDE DEF o
  <2>3. calls[o] = 0 /\ calls'[o] = 1 /\ \A c \in Ops \ {o} : calls'[c] = calls[c]
    BY <2>1, <2>2 DEF CallsAreAttempts, Crossed, PipelineTypeOK
  <2>4. ops'[o].status = "in_flight" /\ \A c \in Ops \ {o} : ops'[c] = ops[c]
    BY <2>1, <2>2 DEF PipelineTypeOK, TypeOK, Rows
  <2> QED BY <2>3, <2>4 DEF CallsAreAttempts, Crossed
<1> QED BY <1>2, <1>3, Effects DEF JobsOK

--------------------------------------------------------------------------------
(* The client of an account *)

\* What a step may do to a sender's job, as far as clients and calls go.
Moves(q) ==
    /\ HoldsClient(q)' => Connect(q) \/ (HoldsClient(q) /\ send'[q].slot = send[q].slot)
    /\ send'[q].pc \in Before =>
          \/ BeginSend(q) \/ (send[q].pc \in Before /\ send'[q].op = send[q].op)
    /\ send[q].pc = "sending" /\ send'[q] # send[q] =>
          Crash \/ ProviderAcks(q) \/ SendFails(q) \/ (q = Worker /\ CancelWorker)

LEMMA OthersStay ==
  ASSUME JobsOK, NEW q \in Senders, NEW r \in Senders, q # r,
         SenderStep(r) \/ TestStep(r) \/ (r = Worker /\ (WorkerStep \/ CancelWorker))
  PROVE  send'[q] = send[q]
<1> USE DEF JobsOK, Goto
<1>1. CASE BeginSend(r) \/ RefuseSend(r) \/ ClaimCreated(r) \/ Connect(r) \/ ConnectFails(r)
  BY <1>1 DEF BeginSend, RefuseSend, ClaimCreated, Connect, ConnectFails, FailBeforeSend
<1>2. CASE ReviewRequired(r) \/ RetrySend(r) \/ CallProvider(r) \/ ProviderAcks(r) \/ SendFails(r)
  BY <1>2 DEF ReviewRequired, RetrySend, CallProvider, ProviderAcks, SendFails
<1>3. CASE ClientReturns(r) \/ RecordOutcome(r) \/ FinalizeJob(r)
  BY <1>3 DEF ClientReturns, RecordOutcome, FinalizeJob
<1>4. CASE TestStep(r)
  BY <1>4 DEF TestStep, TestBegins, TestClaims
<1>5. CASE r = Worker /\ (WorkerStep \/ CancelWorker)
  BY <1>5 DEF WorkerStep, StartWorker, SpawnWorker, WorkerClaims, WorkerFindsNothing, CancelWorker
<1> QED BY <1>1, <1>2, <1>3, <1>4, <1>5 DEF SenderStep

LEMMA MovesStay ==
  ASSUME NEW q \in Senders, send'[q] = send[q]
  PROVE  Moves(q)
BY DEF Moves, HoldsClient

LEMMA MovesNext ==
  ASSUME PipelineTypeOK, JobsOK, NEW q \in Senders, [Next]_vars
  PROVE  Moves(q)
<1>1. send[q] \in Jobs /\ Testers \subseteq Senders
  BY DEF JobsOK, Senders
<1>2. CASE StartCommand \/ StopCommand \/ StopCompletes \/ NewDay \/ UNCHANGED vars
  BY <1>2, MovesStay DEF StartCommand, StopCommand, StopCompletes, NewDay, vars, jobVars
<1>3. CASE Crash
  BY <1>3 DEF Crash, Moves, HoldsClient, Off, NoJob, Before
<1>4. ASSUME NEW r \in Senders, r # q, SenderStep(r) \/ TestStep(r) \/ (r = Worker /\ (WorkerStep \/ CancelWorker))
      PROVE  Moves(q)
  BY <1>4, OthersStay, MovesStay
<1>5. CASE q = Worker /\ WorkerStep
  <2>1. send'[q].pc \in {"preflight", "idle", "off", "begin"} /\ send[q].pc \in {"off", "preflight", "idle"}
    <3>1. CASE StartWorker \/ SpawnWorker
      BY <1>1, <1>5, <3>1 DEF StartWorker, SpawnWorker, JobsOK, Goto, Jobs
    <3>2. CASE WorkerClaims
      BY <1>5, <3>2 DEF WorkerClaims, NoJob, JobsOK
    <3>3. CASE WorkerFindsNothing
      BY <1>1, <1>5, <3>3 DEF WorkerFindsNothing, JobsOK, Goto, Jobs
    <3> QED BY <1>5, <3>1, <3>2, <3>3 DEF WorkerStep
  <2> QED BY <2>1 DEF Moves, HoldsClient, Before
<1>6. CASE q = Worker /\ CancelWorker
  <2>1. send'[q].pc \in {"off", "finish", "record"}
    BY <1>1, <1>6 DEF CancelWorker, Off, NoJob, JobsOK, Jobs
  <2> QED BY <1>6, <2>1 DEF Moves, HoldsClient, Before
<1>7. CASE TestStep(q)
  <2>1. send'[q].pc \in {"waiting", "begin", "idle"} /\ send[q].pc \in {"idle", "waiting"}
    <3>1. CASE TestBegins(q)
      BY <1>1, <3>1 DEF TestBegins, JobsOK, Goto, Jobs
    <3>2. CASE TestClaims(q)
      <4>1. send[q].pc = "waiting" /\ (Goto(q, "idle") \/ \E s \in Slots : send' = [send EXCEPT ![q] = [NoJob EXCEPT !.pc = "begin", !.slot = s]])
        BY <3>2 DEF TestClaims, Claimable
      <4>2. CASE Goto(q, "idle")
        BY <1>1, <4>1, <4>2 DEF JobsOK, Goto, Jobs
      <4>3. ASSUME NEW s, send' = [send EXCEPT ![q] = [NoJob EXCEPT !.pc = "begin", !.slot = s]]
            PROVE  send'[q].pc = "begin"
        BY <4>3 DEF NoJob, JobsOK
      <4> QED BY <4>1, <4>2, <4>3
    <3> QED BY <1>7, <3>1, <3>2 DEF TestStep
  <2> QED BY <2>1 DEF Moves, HoldsClient, Before
<1>8. CASE BeginSend(q) \/ RefuseSend(q) \/ RecordOutcome(q) \/ FinalizeJob(q) \/ ClientReturns(q)
  <2>1. send'[q].pc \in {"created", "connect", "finish", "record", "off", "idle"} /\ send[q].pc # "sending"
        /\ (send'[q].pc \in Before => BeginSend(q))
    <3>1. CASE BeginSend(q)
      <4>1. send[q].pc = "begin" /\ \E c, pc : pc \in {"created", "connect"} /\ send' = [send EXCEPT ![q].op = c, ![q].pc = pc]
        BY <3>1 DEF BeginSend
      <4> QED BY <1>1, <3>1, <4>1 DEF JobsOK, Jobs
    <3>2. CASE RefuseSend(q)
      BY <1>1, <3>2 DEF RefuseSend, JobsOK, Jobs, Before
    <3>3. CASE RecordOutcome(q)
      BY <1>1, <3>3 DEF RecordOutcome, JobsOK, Goto, Jobs, Before
    <3>5. CASE ClientReturns(q)
      <4>1. send[q].pc = "acked" /\ \E v : send' = [send EXCEPT ![q].verdict = v, ![q].pc = "record"]
        BY <3>5 DEF ClientReturns
      <4> QED BY <1>1, <4>1 DEF JobsOK, Jobs, Before
    <3>4. CASE FinalizeJob(q)
      <4>1. send[q].pc = "finish" /\ (send' = [send EXCEPT ![q] = Off] \/ send' = [send EXCEPT ![q] = NoJob])
        BY <3>4 DEF FinalizeJob
      <4> QED BY <4>1 DEF NoJob, Off, JobsOK, Before
    <3> QED BY <1>8, <3>1, <3>2, <3>3, <3>4, <3>5
  <2> QED BY <2>1 DEF Moves, HoldsClient
<1>9. CASE ClaimCreated(q) \/ ConnectFails(q) \/ ReviewRequired(q) \/ RetrySend(q)
  <2>1. send'[q].pc \in {"connect", "finish", "record", "backoff"} /\ send[q].pc \in Before
        /\ (send'[q].pc # "finish" => send'[q].op = send[q].op)
    <3>1. CASE ClaimCreated(q)
      BY <1>1, <3>1 DEF ClaimCreated, JobsOK, Goto, Jobs, Before
    <3>2. CASE ConnectFails(q)
      <4>1. PICK auth : FailBeforeSend(q, auth)
        BY <3>2 DEF ConnectFails
      <4>2. send[q].pc \in Before
        BY <3>2 DEF ConnectFails, Before
      <4>3. \E c, v, pc : pc \in {"backoff", "record"}
              /\ send' = [send EXCEPT ![q].outcome = c, ![q].requeue = TRUE, ![q].verdict = v, ![q].pc = pc]
        BY <4>1 DEF FailBeforeSend
      <4> QED BY <1>1, <4>2, <4>3 DEF JobsOK, Jobs
    <3>3. CASE ReviewRequired(q)
      BY <1>1, <3>3 DEF ReviewRequired, JobsOK, Jobs, Before
    <3>4. CASE RetrySend(q)
      <4>1. send[q].pc \in Before
        BY <3>4 DEF RetrySend, Before
      <4> DEFINE last == send[q].try + 1 >= MaxTries - 1
      <4>2. CASE send' = [send EXCEPT ![q].try = @ + 1, ![q].pc = "connect"]
        BY <1>1, <4>1, <4>2 DEF JobsOK, Jobs
      <4>3. CASE send' = [send EXCEPT ![q].try = @ + 1, ![q].outcome = IF last THEN "failed" ELSE @,
                                      ![q].verdict = IF last THEN "failed" ELSE @, ![q].pc = IF last THEN "record" ELSE "backoff"]
        <5> HIDE DEF last
        <5> QED BY <1>1, <4>1, <4>3 DEF JobsOK, Jobs
      <4> QED BY <3>4, <4>2, <4>3 DEF RetrySend
    <3> QED BY <1>9, <3>1, <3>2, <3>3, <3>4
  <2> QED BY <2>1 DEF Moves, HoldsClient, Before
<1>10. CASE Connect(q)
  BY <1>1, <1>10 DEF Connect, JobsOK, Goto, Jobs, Moves, HoldsClient, Before
<1>11. CASE CallProvider(q) \/ ProviderAcks(q) \/ SendFails(q)
  <2>1. send'[q].slot = send[q].slot /\ HoldsClient(q) /\ send'[q].pc \in {"sending", "acked", "record"}
        /\ (send[q].pc = "sending" => ProviderAcks(q) \/ SendFails(q))
    BY <1>1, <1>11 DEF CallProvider, ProviderAcks, SendFails, JobsOK, Jobs, HoldsClient
  <2> QED BY <2>1 DEF Moves, HoldsClient, Before
<1> QED BY <1>1, <1>2, <1>3, <1>4, <1>5, <1>6, <1>7, <1>8, <1>9, <1>10, <1>11
     DEF Next, Environment, SenderStep, Senders

LEMMA ClientNext ==
  ASSUME PipelineTypeOK, JobsOK, ClientExclusive, [Next]_vars
  PROVE  ClientExclusive'
<1> SUFFICES ASSUME NEW q \in Senders, NEW r \in Senders, HoldsClient(q)', HoldsClient(r)',
                    send'[q].slot[1] = send'[r].slot[1], q # r
             PROVE  FALSE
  BY DEF ClientExclusive, HoldsClient
<1>1. Moves(q) /\ Moves(r)
  BY MovesNext
<1>2. ASSUME NEW a \in Senders, NEW b \in Senders, a # b, Connect(a), Moves(b), HoldsClient(b)',
             send'[a].slot[1] = send'[b].slot[1]
      PROVE  FALSE
  <2>1. send'[a].slot = send[a].slot /\ send'[b] = send[b]
    BY <1>2 DEF Connect, Goto, JobsOK, Jobs
  <2> QED BY <1>2, <2>1 DEF Connect, HoldsClient
<1> QED BY <1>1, <1>2 DEF Moves, ClientExclusive

LEMMA FlightNext ==
  ASSUME PipelineTypeOK, JobsOK, OneOperation, ClientExclusive, FlightHasCaller, [Next]_vars,
         OutcomesAreWritten
  PROVE  FlightHasCaller'
<1> SUFFICES ASSUME NEW q \in Senders, send'[q].pc \in Before, ops'[send'[q].op].status = "in_flight"
             PROVE  \E r \in Senders \ {q} : send'[r].pc = "sending" /\ send'[r].op = send'[q].op
  BY DEF FlightHasCaller
<1> DEFINE o == send'[q].op
<1>1. o \in Ops /\ Grown
  BY JobsNext, CallsLedger, LedgerGrows DEF JobsOK, JobsSound, Sound, Owning, PipelineTypeOK
<1>2. Moves(q) /\ \A r \in Senders : Moves(r)
  BY MovesNext
<1>3. ~BeginSend(q)
  <2> SUFFICES ASSUME BeginSend(q) PROVE FALSE
    OBVIOUS
  <2> DEFINE s == send[q].slot
  <2>1. ASSUME NEW c \in Ops, send' = [send EXCEPT ![q].op = c, ![q].pc = "created"], Create(c, s[1], s, None)
        PROVE  FALSE
    <3>1. o = c
      BY <2>1 DEF JobsOK, Jobs
    <3> QED BY <2>1, <3>1 DEF Create, PipelineTypeOK, TypeOK
  <2>2. ASSUME NEW c, send' = [send EXCEPT ![q].op = c, ![q].pc = "connect"], Retry(c) \/ Claim(c, s[1])
        PROVE  FALSE
    <3>1. o = c
      BY <2>2 DEF JobsOK, Jobs
    <3>2. ops'[c].status = "claimed"
      BY <1>1, <2>2, <3>1 DEF Retry, Claim, PipelineTypeOK, TypeOK, Rows
    <3> QED BY <3>1, <3>2
  <2> QED BY <2>1, <2>2 DEF BeginSend
<1>4. send[q].pc \in Before /\ send[q].op = o
  BY <1>2, <1>3 DEF Moves
<1> HIDE DEF o
<1>5. SUFFICES \E r \in Senders \ {q} : send'[r].pc = "sending" /\ send'[r].op = o
  BY DEF o
<1>6. ops'[o].status = "in_flight"
  BY DEF o
<1>7. CASE ops[o].status # "in_flight"
  <2>1. PICK r \in Senders : CallProvider(r)
    BY <1>1, <1>6, <1>7, Effects, Boundary DEF PipelineTypeOK, JobsOK
  <2>2. send[r].op \in Ops /\ UNCHANGED <<accounting, receipts>> /\ ops' = [ops EXCEPT ![send[r].op].status = "in_flight"]
    BY <2>1, CallIsFirst DEF CallProvider, MarkInFlight
  <2>3. send[r].op = o
    BY <1>1, <1>6, <1>7, <2>2 DEF PipelineTypeOK, TypeOK
  <2>4. send'[r].pc = "sending" /\ send'[r].op = o
    BY <2>1, <2>3 DEF CallProvider, JobsOK, Jobs
  <2>5. send'[q].pc # "sending"
    BY DEF Before
  <2> QED BY <2>4, <2>5
<1>8. CASE ops[o].status = "in_flight"
  <2>1. PICK r \in Senders \ {q} : send[r].pc = "sending" /\ send[r].op = o
    BY <1>4, <1>8 DEF FlightHasCaller
  <2>2. SUFFICES ASSUME send'[r] # send[r] PROVE FALSE
    BY <2>1
  <2>3. MaxFaults = 0
    BY DEF Senders, OutcomesAreWritten
  <2>4. ASSUME TryUnknown(o)
        PROVE  FALSE
    <3>1. ~(faults < MaxFaults)
      BY <2>3 DEF PipelineTypeOK
    <3>2. MarkUnknown(o)
      BY <1>8, <2>4, <3>1 DEF TryUnknown, Swallow, CanMarkUnknown
    <3> QED BY <1>1, <1>6, <1>8, <3>2 DEF MarkUnknown, Terminal, PipelineTypeOK, TypeOK, Rows
  <2>5. ~Crash
    BY <1>3 DEF Crash, Off, NoJob, Before
  <2>6. ~ProviderAcks(r)
    <3>1. ASSUME NEW m, MarkAccepted(o, m)
          PROVE  FALSE
      BY <1>1, <1>6, <1>8, <3>1 DEF MarkAccepted, PipelineTypeOK, TypeOK, Rows
    <3> QED BY <2>1, <3>1 DEF ProviderAcks
  <2> QED BY <1>2, <2>1, <2>2, <2>4, <2>5, <2>6 DEF Moves, SendFails, CancelWorker
<1> QED BY <1>7, <1>8

--------------------------------------------------------------------------------
(* The invariant *)

LEMMA PipelineStarts == Init => PipelineInv /\ CallsInv
<1> SUFFICES ASSUME Init PROVE PipelineInv /\ CallsInv
  OBVIOUS
<1>1. LedgerInv /\ \A o \in Ops : ops[o].status = "absent" /\ ops[o].slot = None
  BY InitInv DEF Init, LedgerInit, NoRow
<1>2. Off = [NoJob EXCEPT !.pc = "off"] /\ NoJob = [NoJob EXCEPT !.pc = "idle"] /\ Off.pc = "off" /\ NoJob.pc = "idle"
      /\ Off \in Jobs /\ NoJob \in Jobs
  <2>1. NoJob \in Jobs
    BY PipelineAssumption DEF NoJob, Jobs
  <2>2. Off = [NoJob EXCEPT !.pc = "off"] /\ Off \in Jobs /\ Off.pc = "off" /\ NoJob.pc = "idle"
    BY <2>1 DEF Off, NoJob, Jobs
  <2>3. NoJob = [NoJob EXCEPT !.pc = "idle"]
    BY <2>1, <2>2 DEF Jobs
  <2> QED BY <2>1, <2>2, <2>3
<1>3. NoJob.op = None /\ Off.op = None /\ None \notin Ops
  BY LedgerAssumption DEF NoJob, Off, Ops
<1>4. Sound(Off, ops) /\ Sound(NoJob, ops)
  BY <1>2, <1>3 DEF Sound, Owning, Before
<1>5. send \in [Senders -> Jobs] /\ (\A q \in Senders : send[q].pc \in {"off", "idle"})
      /\ (\A q \in Senders : Sound(send[q], ops)) /\ send[Worker].pc = "off"
  BY <1>2, <1>4 DEF Init, Senders
<1>6. PipelineTypeOK
  <2>1. log \in [Ops -> [status : {None, "sent", "failed", "unknown"}, day : 0..MaxDay]]
    BY PipelineAssumption DEF Init, NoLog
  <2>2. today \in 0..MaxDay /\ crashes \in 0..MaxCrashes /\ faults \in 0..MaxFaults
    BY PipelineAssumption DEF Init
  <2>3. slots \in [Slots -> SlotStatuses] /\ calls \in [Ops -> Nat]
    BY DEF Init, SlotStatuses
  <2>4. ctl \in [state : {"stopped", "stopping", "running", "testing"}, tester : Testers \cup {None}]
    BY DEF Init
  <2> QED BY <1>1, <1>5, <2>1, <2>2, <2>3, <2>4 DEF PipelineTypeOK, LedgerInv
<1>7. JobsSound
  BY <1>5 DEF JobsSound
<1>8. Booked
  BY <1>1, PipelineAssumption DEF Booked, Exists, Init, NoLog
<1>9. OneOperation /\ ClientExclusive
  BY <1>1, <1>5 DEF OneOperation, Exists, ClientExclusive, HoldsClient
<1>10. CallsInv
  BY <1>1, <1>5 DEF CallsInv, CallsAreAttempts, FlightHasCaller, Crossed, Before, Init
<1> QED BY <1>1, <1>6, <1>7, <1>8, <1>9, <1>10 DEF PipelineInv

LEMMA PipelineGoesOn == PipelineInv /\ [Next]_vars => PipelineInv' /\ [LedgerNext]_ledgerVars
<1> SUFFICES ASSUME PipelineInv, [Next]_vars PROVE PipelineInv' /\ [LedgerNext]_ledgerVars
  OBVIOUS
<1> USE DEF PipelineInv
<1>1. [LedgerNext]_ledgerVars
  BY CallsLedger
<1>2. LedgerInv'
  BY <1>1, NextInv
<1>3. JobsOK'
  BY JobsNext DEF JobsOK, PipelineTypeOK
<1>4. Booked' /\ today' \in 0..MaxDay /\ log' \in [Ops -> [status : {None, "sent", "failed", "unknown"}, day : 0..MaxDay]]
  BY BookedNext DEF JobsOK, PipelineTypeOK
<1>5. OneOperation' /\ ClientExclusive'
  BY OneOperationNext, ClientNext DEF JobsOK, PipelineTypeOK
<1>6. PipelineTypeOK'
  BY <1>2, <1>3, <1>4, SlotsTyped, RestTyped DEF PipelineTypeOK, LedgerInv, JobsOK
<1> QED BY <1>1, <1>2, <1>3, <1>4, <1>5, <1>6 DEF JobsOK

LEMMA CallsGoOn == ASSUME OutcomesAreWritten PROVE PipelineInv /\ CallsInv /\ [Next]_vars => CallsInv'
BY CallsNext, FlightNext DEF PipelineInv, CallsInv, JobsOK, PipelineTypeOK

LEMMA PipelineInvariant == Spec => []PipelineInv
BY PipelineStarts, PipelineGoesOn, PTL DEF Spec

LEMMA CallsInvariant == ASSUME OutcomesAreWritten PROVE Spec => []CallsInv
BY PipelineInvariant, PipelineStarts, CallsGoOn, PTL DEF Spec

--------------------------------------------------------------------------------
\* Every variable of the sending side keeps its shape, the job of each sender
\* included (its try never leaves the range send_with_retry loops over).
THEOREM PipelineTypeCorrect == Spec => []PipelineTypeOK
<1>1. PipelineInv => PipelineTypeOK
  BY DEF PipelineInv
<1> QED BY <1>1, PipelineInvariant, PTL

\* The sending side calls the ledger by its rules: whatever send_with_retry, the
\* worker's cancellation and the recovery at start do to the four tables is an
\* order of calls the ledger's theorems are about.
THEOREM SendsKeepLedger == Spec => LedgerSpec
<1>1. Init => LedgerInit
  BY DEF Init
<1>2. PipelineInv /\ [Next]_vars => [LedgerNext]_ledgerVars
  BY PipelineGoesOn
<1> QED BY <1>1, <1>2, PipelineInvariant, PTL DEF Spec, LedgerSpec

\* One account's slot of one week reaches the provider at most once.  The
\* assumption is the code's own: with a manual test beside the worker, an
\* outcome that could not be written leaves an operation in flight that
\* mark_in_flight returns as it is, and the provider is called again.
THEOREM WeekIsSentOnce == ASSUME OutcomesAreWritten PROVE Spec => []OneCallPerWeek
<1>1. PipelineInv /\ CallsInv => OneCallPerWeek
  <2> SUFFICES ASSUME PipelineInv, CallsInv, NEW s \in Slots, NEW o \in OpsOf(s), NEW c \in OpsOf(s)
               PROVE  calls[o] <= 1 /\ (calls[o] > 0 /\ calls[c] > 0 => o = c)
    BY DEF OneCallPerWeek
  <2>1. o \in Ops /\ c \in Ops /\ ops[o].slot = ops[c].slot
    BY DEF OpsOf
  <2>2. calls[o] \in {0, 1} /\ calls[c] \in {0, 1} /\ (calls[o] = 1 => Exists(o)) /\ (calls[c] = 1 => Exists(c))
    BY <2>1 DEF CallsInv, CallsAreAttempts, Crossed, Exists
  <2> QED BY <2>1, <2>2 DEF PipelineInv, OneOperation
<1> QED BY <1>1, PipelineInvariant, CallsInvariant, PTL

--------------------------------------------------------------------------------
(* What a settled slot says *)

\* What the worker's job knows of the slot it has claimed: nothing was sent while
\* it may still be requeued, and its tracker says what the ledger says.
Honest(j, rows) ==
    /\ j.pc \in Owning \cup {"begin", "finish"} => slots[j.slot] = "claimed"
    /\ j.pc \in Before \cup {"begin"} => j.requeue /\ ~j.acked /\ ~Called(j.slot)
    /\ j.pc = "sending" => rows[j.op].status = "in_flight" /\ ~j.requeue /\ ~j.acked
    /\ j.pc = "acked" => rows[j.op].status = "accepted" /\ j.acked
    /\ j.pc \in {"record", "finish"} =>
          \/ j.acked /\ j.op \in Ops /\ rows[j.op].status = "accepted"
          \/ ~j.acked /\ ~j.requeue /\ j.op \in Ops /\ rows[j.op].status = "unknown"
          \/ ~j.acked /\ j.requeue /\ ~Called(j.slot)

SettledInv ==
    /\ Honest(send[Worker], ops)
    /\ \A s \in Slots :
          /\ Called(s) => slots[s] \in {"claimed", "accepted", "unknown"}
          /\ slots[s] \in Terminal => \E o \in OpsOf(s) : ops[o].status = slots[s]

\* The worker alone, and every local write succeeds.
WorkerAlone == MaxFaults = 0 /\ Testers = {}

LEMMA CalledStays ==
  ASSUME PipelineInv, CallsInv, [Next]_vars, NEW s \in Slots, Called(s)'
  PROVE  Called(s) \/ \E q \in Senders : CallProvider(q) /\ s = send[q].slot
<1> USE DEF PipelineInv
<1>1. PICK o \in Ops : ops'[o].slot = s /\ calls'[o] > 0
  BY DEF Called, OpsOf
<1>2. Grown
  BY CallsLedger, LedgerGrows DEF PipelineTypeOK
<1>3. CASE calls[o] > 0
  <2>1. Exists(o)
    BY <1>3 DEF CallsInv, CallsAreAttempts, Crossed, Exists
  <2> QED BY <1>1, <1>2, <1>3, <2>1 DEF Grown, Called, OpsOf
<1>4. CASE ~(calls[o] > 0)
  <2>1. PICK q \in Senders : CallProvider(q)
    BY <1>1, <1>4, Effects DEF Quiet, Begins, BeginSend
  <2>2. calls' = [calls EXCEPT ![send[q].op] = @ + 1]
    BY <2>1 DEF CallProvider
  <2>3. send[q].op = o
    BY <1>1, <1>4, <2>2 DEF PipelineTypeOK
  <2>4. Exists(o) /\ ops[o].slot = send[q].slot
    BY <2>1, <2>3 DEF CallProvider, JobsSound, Sound, Exists
  <2> QED BY <1>1, <1>2, <2>1, <2>4 DEF Grown
<1> QED BY <1>3, <1>4

LEMMA TriesSucceed ==
  ASSUME WorkerAlone, PipelineTypeOK, NEW o \in Ops, ops[o].status = "in_flight", TryUnknown(o)
  PROVE  ops'[o].status = "unknown"
<1>1. ~(faults < MaxFaults)
  BY DEF WorkerAlone, PipelineTypeOK
<1>2. MarkUnknown(o)
  BY <1>1 DEF TryUnknown, Swallow, CanMarkUnknown
<1> QED BY <1>2 DEF MarkUnknown, Terminal, PipelineTypeOK, TypeOK, Rows

LEMMA HonestRest ==
  ASSUME send'[Worker].pc \in {"off", "preflight", "idle"}
  PROVE  Honest(send[Worker], ops)'
BY DEF Honest, Owning, Before

\* The job goes on before the boundary, or ends there.
LEMMA StillUnsent ==
  ASSUME PipelineInv, CallsInv, SettledInv, [Next]_vars, UNCHANGED <<slots, calls>>,
         send[Worker].pc \in Before \cup {"begin"}, send'[Worker].pc \in Before \cup {"record", "finish"},
         send'[Worker].slot = send[Worker].slot, send'[Worker].acked = send[Worker].acked, send'[Worker].requeue
  PROVE  Honest(send[Worker], ops)'
<1> DEFINE s == send[Worker].slot
<1>1. Worker \in Senders /\ s \in Slots
  BY DEF PipelineInv, JobsSound, Sound, Senders, Owning
<1>2. slots[s] = "claimed" /\ ~send[Worker].acked /\ ~Called(s)
  BY DEF SettledInv, Honest, Owning
<1>3. ~Called(s)'
  <2>1. ASSUME NEW q \in Senders, CallProvider(q)
        PROVE  FALSE
    <3>1. send[q].op \in Ops /\ calls' = [calls EXCEPT ![send[q].op] = @ + 1]
      BY <2>1 DEF CallProvider, PipelineInv, JobsSound, Sound, Owning, Before
    <3> QED BY <3>1 DEF PipelineInv, PipelineTypeOK
  <2>2. UNCHANGED s => (Called(s)' => Called(s))
    BY <1>1, <2>1, CalledStays
  <2> QED BY <1>2, <2>2
<1> QED BY <1>1, <1>2, <1>3 DEF Honest, Before

LEMMA HonestNext ==
  ASSUME WorkerAlone, PipelineInv, CallsInv, SettledInv, [Next]_vars
  PROVE  Honest(send[Worker], ops)'
<1> DEFINE w == send[Worker]
<1> USE DEF PipelineInv
<1>1. Senders = {Worker} /\ Worker \in Senders /\ send \in [Senders -> Jobs] /\ w \in Jobs /\ TypeOK
  BY DEF Senders, WorkerAlone, PipelineTypeOK
<1>2. Honest(w, ops) /\ Sound(w, ops) /\ (w.pc \in Owning => w.op \in Ops)
  BY DEF SettledInv, JobsSound, Sound, Senders
<1>3. CASE StartCommand \/ StopCommand \/ StopCompletes \/ NewDay \/ UNCHANGED vars
  <2>1. UNCHANGED <<send, ops, calls, slots>>
    BY <1>3 DEF StartCommand, StopCommand, StopCompletes, NewDay, vars, jobVars, ledgerVars
  <2> QED BY <1>2, <2>1 DEF Honest, Called, OpsOf
<1>4. CASE StartWorker \/ SpawnWorker \/ WorkerFindsNothing \/ Crash \/ FinalizeJob(Worker)
  <2>1. send'[Worker].pc \in {"off", "preflight", "idle"}
    <3>1. CASE StartWorker \/ SpawnWorker
      BY <1>1, <3>1 DEF StartWorker, SpawnWorker, Goto, Jobs
    <3>2. CASE WorkerFindsNothing
      BY <1>1, <3>2 DEF WorkerFindsNothing, Goto, Jobs
    <3>3. CASE Crash
      BY <1>1, <3>3 DEF Crash, Off, NoJob
    <3>4. CASE FinalizeJob(Worker)
      <4>1. send' = [send EXCEPT ![Worker] = Off] \/ send' = [send EXCEPT ![Worker] = NoJob]
        BY <3>4 DEF FinalizeJob
      <4> QED BY <1>1, <4>1 DEF Off, NoJob
    <3> QED BY <1>4, <3>1, <3>2, <3>3, <3>4
  <2> QED BY <2>1, HonestRest
<1>5. CASE WorkerClaims
  <2>1. PICK s \in Claimable(Expired(slots)) : /\ slots' = [Expired(slots) EXCEPT ![s] = "claimed"]
                                              /\ send' = [send EXCEPT ![Worker] = [NoJob EXCEPT !.pc = "begin", !.slot = s]]
    BY <1>5 DEF WorkerClaims
  <2>2. s \in Slots /\ slots[s] = "queued"
    BY DEF Claimable, Expired
  <2>3. slots'[s] = "claimed"
    BY <2>1, <2>2 DEF Expired
  <2>4. send'[Worker].pc = "begin" /\ send'[Worker].slot = s /\ send'[Worker].requeue /\ ~send'[Worker].acked
    BY <1>1, <2>1 DEF NoJob
  <2>5. UNCHANGED s => ~Called(s)'
    <3>1. ~Called(s)
      BY <2>2 DEF SettledInv
    <3>2. UNCHANGED <<ops, calls>>
      BY <1>5 DEF WorkerClaims, ledgerVars
    <3> QED BY <3>1, <3>2 DEF Called, OpsOf
  <2> QED BY <2>3, <2>4, <2>5 DEF Honest, Before
<1>6. CASE \/ BeginSend(Worker) \/ RefuseSend(Worker) \/ ClaimCreated(Worker) \/ Connect(Worker) \/ ConnectFails(Worker)
           \/ ReviewRequired(Worker) \/ RetrySend(Worker)
  <2>1. UNCHANGED <<slots, calls>> /\ w.pc \in Before \cup {"begin"} /\ w.requeue
    BY <1>2, <1>6 DEF BeginSend, RefuseSend, ClaimCreated, Connect, ConnectFails, FailBeforeSend, ReviewRequired, RetrySend, Before, Honest
  <2>2. CASE BeginSend(Worker)
    <3>1. \E c, pc : pc \in {"created", "connect"} /\ send' = [send EXCEPT ![Worker].op = c, ![Worker].pc = pc]
      BY <2>2 DEF BeginSend
    <3>2. send'[Worker].pc \in {"created", "connect"} /\ send'[Worker].slot = w.slot /\ send'[Worker].acked = w.acked /\ send'[Worker].requeue
      BY <1>1, <2>1, <3>1 DEF Jobs
    <3> QED BY <2>1, <3>2, StillUnsent DEF Before
  <2>3. CASE RefuseSend(Worker)
    <3>1. send'[Worker].pc = "finish" /\ send'[Worker].slot = w.slot /\ send'[Worker].acked = w.acked /\ send'[Worker].requeue
      BY <1>1, <2>1, <2>3 DEF RefuseSend, Jobs
    <3> QED BY <2>1, <3>1, StillUnsent
  <2>4. CASE ClaimCreated(Worker) \/ Connect(Worker)
    <3>1. Goto(Worker, "connect") \/ Goto(Worker, "ready")
      BY <2>4 DEF ClaimCreated, Connect, WorkerAlone, PipelineTypeOK
    <3>2. send'[Worker].pc \in {"connect", "ready"} /\ send'[Worker].slot = w.slot /\ send'[Worker].acked = w.acked /\ send'[Worker].requeue
      BY <1>1, <2>1, <3>1 DEF Goto, Jobs
    <3> QED BY <2>1, <3>2, StillUnsent DEF Before
  <2>5. CASE ConnectFails(Worker) \/ ReviewRequired(Worker)
    <3>1. PICK c, v, pc : pc \in {"backoff", "record"}
              /\ send' = [send EXCEPT ![Worker].outcome = c, ![Worker].requeue = TRUE, ![Worker].verdict = v, ![Worker].pc = pc]
      <4>1. CASE ReviewRequired(Worker)
        BY <4>1 DEF ReviewRequired
      <4>2. CASE ConnectFails(Worker)
        <5>1. PICK auth \in BOOLEAN : FailBeforeSend(Worker, auth)
          BY <4>2 DEF ConnectFails
        <5> DEFINE retry == IF auth THEN send[Worker].try = 0 ELSE send[Worker].try < MaxTries - 1
        <5>2. send' = [send EXCEPT ![Worker].outcome = IF retry THEN "not_started" ELSE "failed", ![Worker].requeue = TRUE,
                                   ![Worker].verdict = IF retry THEN None ELSE "failed",
                                   ![Worker].pc = IF retry THEN "backoff" ELSE "record"]
          BY <5>1, Zenon DEF FailBeforeSend
        <5> HIDE DEF retry
        <5>3. (IF retry THEN "backoff" ELSE "record") \in {"backoff", "record"}
          OBVIOUS
        <5> QED BY <5>2, <5>3, Zenon
      <4> QED BY <2>5, <4>1, <4>2
    <3> DEFINE j == [w EXCEPT !.outcome = c, !.requeue = TRUE, !.verdict = v, !.pc = pc]
    <3>2. send'[Worker] = j
      BY <1>1, <3>1
    <3>3. j.pc = pc /\ j.slot = w.slot /\ j.acked = w.acked /\ j.requeue
      BY <1>1 DEF Jobs
    <3> HIDE DEF j
    <3> QED BY <2>1, <3>1, <3>2, <3>3, StillUnsent DEF Before
  <2>6. CASE RetrySend(Worker)
    <3> DEFINE last == w.try + 1 >= MaxTries - 1
    <3>1. CASE send' = [send EXCEPT ![Worker].try = @ + 1, ![Worker].pc = "connect"]
      <4>1. send'[Worker].pc = "connect" /\ send'[Worker].slot = w.slot /\ send'[Worker].acked = w.acked /\ send'[Worker].requeue
        BY <1>1, <2>1, <3>1 DEF Jobs
      <4> QED BY <2>1, <4>1, StillUnsent DEF Before
    <3>2. CASE send' = [send EXCEPT ![Worker].try = @ + 1, ![Worker].outcome = IF last THEN "failed" ELSE @,
                       ![Worker].verdict = IF last THEN "failed" ELSE @, ![Worker].pc = IF last THEN "record" ELSE "backoff"]
      <4> HIDE DEF last
      <4>1. send'[Worker].pc \in {"backoff", "record"} /\ send'[Worker].slot = w.slot /\ send'[Worker].acked = w.acked /\ send'[Worker].requeue
        BY <1>1, <2>1, <3>2 DEF Jobs
      <4> QED BY <2>1, <4>1, StillUnsent DEF Before
    <3> QED BY <2>6, <3>1, <3>2 DEF RetrySend
  <2> QED BY <1>6, <2>2, <2>3, <2>4, <2>5, <2>6
<1>7. CASE CallProvider(Worker)
  <2>1. ops' = [ops EXCEPT ![w.op].status = "in_flight"] /\ w.op \in Ops
    <3>1. w.op \in Ops /\ ops[w.op].status = "claimed"
      BY <1>1, <1>7, CallIsFirst DEF CallsInv, JobsOK
    <3> QED BY <1>7, <3>1 DEF CallProvider, MarkInFlight
  <2>2. send'[Worker].pc = "sending" /\ ~send'[Worker].requeue /\ send'[Worker].acked = w.acked
        /\ send'[Worker].op = w.op /\ send'[Worker].slot = w.slot /\ UNCHANGED slots
    BY <1>1, <1>7 DEF CallProvider, Jobs
  <2>3. ops'[w.op].status = "in_flight"
    BY <1>1, <2>1 DEF TypeOK, Rows
  <2>4. ~w.acked /\ slots[w.slot] = "claimed"
    BY <1>2, <1>7 DEF CallProvider, Honest, Before, Owning
  <2> QED BY <2>2, <2>3, <2>4 DEF Honest, Before
<1>8. CASE ProviderAcks(Worker)
  <2>1. PICK m : MarkAccepted(w.op, m)
    BY <1>8 DEF ProviderAcks
  <2>2. w.pc = "sending" /\ w.op \in Ops
    BY <1>2, <1>8 DEF ProviderAcks, Owning
  <2>3. ops'[w.op].status = "accepted"
    BY <1>1, <2>1, <2>2 DEF MarkAccepted, ledgerVars, TypeOK, Rows
  <2>4. send'[Worker].pc = "acked" /\ send'[Worker].acked /\ send'[Worker].op = w.op /\ send'[Worker].slot = w.slot /\ UNCHANGED slots
    BY <1>1, <1>8 DEF ProviderAcks, Jobs
  <2> QED BY <1>2, <2>2, <2>3, <2>4 DEF Honest, Before, Owning
<1>9. CASE w.pc = "sending" /\ (SendFails(Worker) \/ CancelWorker)
  <2>1. w.op \in Ops /\ ops[w.op].status = "in_flight" /\ ~w.requeue /\ ~w.acked /\ slots[w.slot] = "claimed"
    BY <1>2, <1>9 DEF Honest, Owning
  <2>2. ops'[w.op].status = "unknown" /\ UNCHANGED slots
    BY <1>9, <2>1, TriesSucceed DEF SendFails, CancelWorker
  <2>3. send'[Worker].pc = "record" /\ ~send'[Worker].acked /\ ~send'[Worker].requeue /\ send'[Worker].op = w.op /\ send'[Worker].slot = w.slot
    <3>1. CASE SendFails(Worker)
      BY <1>1, <2>1, <3>1 DEF SendFails, Jobs
    <3>2. CASE CancelWorker
      <4>1. send' = [send EXCEPT ![Worker] = [w EXCEPT !.dying = TRUE, !.pc = "record", !.outcome = "unknown", !.verdict = "unknown"]]
        BY <1>9, <2>1, <3>2 DEF CancelWorker
      <4> QED BY <1>1, <2>1, <4>1 DEF Jobs
    <3> QED BY <1>9, <3>1, <3>2
  <2> QED BY <2>1, <2>2, <2>3 DEF Honest, Before
<1>10. CASE w.pc = "acked" /\ (ClientReturns(Worker) \/ CancelWorker)
  <2>1. w.op \in Ops /\ ops[w.op].status = "accepted" /\ w.acked /\ slots[w.slot] = "claimed"
    BY <1>2, <1>10 DEF Honest, Owning
  <2>2. ops'[w.op].status = "accepted" /\ UNCHANGED slots
    BY <1>1, <1>10, <2>1, CallsLedger, LedgerGrows DEF Grown, Terminal, ClientReturns, CancelWorker
  <2>3. send'[Worker].pc = "record" /\ send'[Worker].acked /\ send'[Worker].op = w.op /\ send'[Worker].slot = w.slot
    <3>1. CASE ClientReturns(Worker)
      <4>1. PICK v : send' = [send EXCEPT ![Worker].verdict = v, ![Worker].pc = "record"]
        BY <3>1 DEF ClientReturns
      <4> QED BY <1>1, <2>1, <4>1 DEF Jobs
    <3>2. CASE CancelWorker
      <4>1. send' = [send EXCEPT ![Worker] = [w EXCEPT !.dying = TRUE, !.pc = "record", !.outcome = w.outcome, !.verdict = "sent"]]
        BY <1>10, <2>1, <3>2 DEF CancelWorker
      <4> QED BY <1>1, <2>1, <4>1 DEF Jobs
    <3> QED BY <1>10, <3>1, <3>2
  <2> QED BY <2>1, <2>2, <2>3 DEF Honest, Before
<1>11. CASE RecordOutcome(Worker)
  <2>1. send'[Worker].pc = "finish" /\ send'[Worker].acked = w.acked /\ send'[Worker].requeue = w.requeue /\ send'[Worker].op = w.op
        /\ send'[Worker].slot = w.slot /\ UNCHANGED <<slots, ops, calls>> /\ w.pc = "record"
    BY <1>1, <1>11 DEF RecordOutcome, Goto, Jobs, ledgerVars
  <2>2. Called(w.slot)' => Called(w.slot)
    BY <2>1 DEF Called, OpsOf
  <2> QED BY <1>2, <2>1, <2>2 DEF Honest, Before, Owning
<1>12. CASE CancelWorker /\ w.pc \notin {"sending", "acked"}
  <2>1. w.pc \in {"preflight", "idle", "waiting", "connect", "ready", "backoff"}
    BY <1>1, <1>12 DEF CancelWorker, LoopIdle, Synchronous, Jobs
  <2>2. w.pc # "waiting"
    BY DEF JobsSound
  <2>3. CASE w.pc \in {"preflight", "idle"}
    <3>1. send'[Worker].pc = "off"
      BY <1>1, <1>12, <2>3 DEF CancelWorker, Off, NoJob
    <3> QED BY <3>1, HonestRest
  <2>4. CASE w.pc \in {"connect", "ready", "backoff"}
    <3>1. send' = [send EXCEPT ![Worker] = [w EXCEPT !.dying = TRUE, !.requeue = TRUE, !.pc = "finish"]] /\ UNCHANGED <<slots, calls>>
      BY <1>12, <2>4 DEF CancelWorker
    <3>2. send'[Worker].pc = "finish" /\ send'[Worker].slot = w.slot /\ send'[Worker].acked = w.acked /\ send'[Worker].requeue
      BY <1>1, <3>1 DEF Jobs
    <3> QED BY <2>4, <3>1, <3>2, StillUnsent DEF Before
  <2> QED BY <2>1, <2>2, <2>3, <2>4
<1> QED BY <1>1, <1>3, <1>4, <1>5, <1>6, <1>7, <1>8, <1>9, <1>10, <1>11, <1>12
     DEF Next, WorkerStep, Environment, SenderStep, WorkerAlone, SendFails, ClientReturns

LEMMA SettledNext ==
  ASSUME WorkerAlone, PipelineInv, CallsInv, SettledInv, [Next]_vars
  PROVE  \A s \in Slots :
            /\ Called(s)' => slots'[s] \in {"claimed", "accepted", "unknown"}
            /\ slots'[s] \in Terminal => \E o \in Ops : ops'[o].slot = s /\ ops'[o].status = slots'[s]
<1> USE DEF PipelineInv
<1>1. Senders = {Worker} /\ slots \in [Slots -> SlotStatuses] /\ Grown
  BY CallsLedger, LedgerGrows DEF Senders, WorkerAlone, PipelineTypeOK
<1>2. SUFFICES ASSUME NEW s \in Slots
               PROVE  /\ Called(s)' => slots'[s] \in {"claimed", "accepted", "unknown"}
                      /\ slots'[s] \in Terminal => \E o \in Ops : ops'[o].slot = s /\ ops'[o].status = slots'[s]
  OBVIOUS
<1>3. /\ Called(s) => slots[s] \in {"claimed", "accepted", "unknown"}
      /\ slots[s] \in Terminal => \E o \in Ops : ops'[o].slot = s /\ ops'[o].status = slots[s]
  <2>1. ASSUME slots[s] \in Terminal
        PROVE  \E o \in Ops : ops'[o].slot = s /\ ops'[o].status = slots[s]
    <3>1. PICK o \in Ops : ops[o].slot = s /\ ops[o].status = slots[s]
      BY <2>1 DEF SettledInv, OpsOf
    <3> QED BY <1>1, <2>1, <3>1 DEF Grown, Exists, Terminal
  <2> QED BY <2>1 DEF SettledInv
<1>4. CASE slots'[s] = slots[s] \/ (slots[s] = "queued" /\ slots'[s] = "claimed")
  <2>1. ASSUME CallProvider(Worker), s = send[Worker].slot
        PROVE  slots[s] = "claimed"
    BY <2>1 DEF CallProvider, SettledInv, Honest, Owning, Before
  <2> QED BY <1>1, <1>3, <1>4, <2>1, CalledStays DEF Terminal
<1>5. CASE ~Called(s)' /\ slots'[s] \notin Terminal
  BY <1>5
<1>6. CASE slots[s] \in {"absent", "queued", "expired"} /\ slots'[s] \notin Terminal /\ ~ \E q \in Senders : CallProvider(q)
  BY <1>3, <1>6, CalledStays
<1>7. \A f \in [Slots -> SlotStatuses] : Expired(f)[s] = f[s] \/ (f[s] = "queued" /\ Expired(f)[s] = "expired")
  BY DEF Expired
<1>8. ASSUME WorkerClaims \/ WorkerFindsNothing \/ FinalizeJob(Worker) \/ StartWorker, NEW q \in Senders, CallProvider(q)
      PROVE  FALSE
  BY <1>1, <1>8 DEF WorkerClaims, WorkerFindsNothing, FinalizeJob, StartWorker, CallProvider
<1>9. CASE WorkerClaims
  <2>1. PICK c \in Slots : Expired(slots)[c] = "queued" /\ slots' = [Expired(slots) EXCEPT ![c] = "claimed"]
    BY <1>9 DEF WorkerClaims, Claimable
  <2>2. slots'[s] = IF s = c THEN "claimed" ELSE Expired(slots)[s]
    BY <2>1 DEF Expired
  <2> QED BY <1>1, <1>4, <1>6, <1>7, <1>8, <1>9, <2>1, <2>2 DEF Terminal
<1>10. CASE WorkerFindsNothing
  <2>1. slots' = slots \/ slots' = Expired(slots)
    BY <1>10 DEF WorkerFindsNothing
  <2> QED BY <1>1, <1>4, <1>6, <1>7, <1>8, <1>10, <2>1 DEF Terminal
<1>11. CASE FinalizeJob(Worker)
  <2> DEFINE w == send[Worker]
  <2>1. slots' = [slots EXCEPT ![w.slot] = FinalStatus(Worker)] /\ UNCHANGED <<ops, calls>> /\ w.pc = "finish"
    BY <1>11 DEF FinalizeJob, Swallow, ledgerVars, WorkerAlone, PipelineTypeOK
  <2>2. CASE s # w.slot
    BY <1>1, <1>4, <2>1, <2>2
  <2>3. CASE s = w.slot
    <3>1. slots'[s] = FinalStatus(Worker)
      BY <1>1, <2>1, <2>3
    <3>2. ASSUME w.op \in Ops, ops[w.op].status = FinalStatus(Worker), FinalStatus(Worker) \in Terminal
          PROVE  /\ Called(s)' => slots'[s] \in {"claimed", "accepted", "unknown"}
                 /\ slots'[s] \in Terminal => \E o \in Ops : ops'[o].slot = s /\ ops'[o].status = slots'[s]
      <4>1. ops'[w.op].slot = s
        BY <1>1, <2>1, <2>3, <3>2 DEF JobsSound, Sound
      <4> QED BY <2>1, <3>1, <3>2, <4>1 DEF Terminal
    <3>3. \/ w.acked /\ w.op \in Ops /\ ops[w.op].status = "accepted"
          \/ ~w.acked /\ ~w.requeue /\ w.op \in Ops /\ ops[w.op].status = "unknown"
          \/ ~w.acked /\ w.requeue /\ ~Called(s)
      BY <2>1, <2>3 DEF SettledInv, Honest
    <3>4. CASE w.acked \/ ~w.requeue
      BY <3>2, <3>3, <3>4 DEF FinalStatus, Terminal
    <3>5. CASE ~w.acked /\ w.requeue /\ ~Called(s)
      <4>1. slots'[s] \notin Terminal
        BY <3>1, <3>5 DEF FinalStatus, Terminal
      <4>2. ~Called(s)'
        BY <2>1, <3>5 DEF Called, OpsOf
      <4> QED BY <1>5, <4>1, <4>2
    <3> QED BY <3>3, <3>4, <3>5
  <2> QED BY <2>2, <2>3
<1>12. CASE StartWorker
  <2> DEFINE f == Materialized(slots)
             mine == {o \in Ops : ops'[o].slot = s}
             latest == CHOOSE o \in mine : \A c \in mine : c <= o
  <2>1. \/ f[s] = slots[s]
        \/ slots[s] \in {"absent", "queued"} /\ f[s] \in {"queued", "expired"}
    BY <1>7, <1>1 DEF Materialized
  <2>2. slots'[s] = IF f[s] # "claimed" THEN f[s]
                    ELSE IF mine # {} /\ ops'[latest].status \in Terminal THEN ops'[latest].status
                    ELSE IF DateOf(s) < today THEN "expired" ELSE "queued"
    BY <1>12 DEF StartWorker, Reconciled
  <2>3. CASE f[s] # "claimed"
    <3> HIDE DEF f, latest, mine
    <3> QED BY <1>1, <1>4, <1>6, <1>8, <1>12, <2>1, <2>2, <2>3 DEF Terminal
  <2>4. CASE f[s] = "claimed"
    <3>1. \A o, c \in mine : o = c /\ c <= o
      <4>1. Booked' /\ OneOperation'
        BY BookedNext, OneOperationNext DEF JobsOK, PipelineTypeOK
      <4>2. \A o \in mine : Exists(o)'
        BY <1>2, <4>1, PipelineAssumption DEF Booked
      <4>3. mine \subseteq Nat
        BY LedgerAssumption DEF Ops
      <4> QED BY <4>1, <4>2, <4>3 DEF OneOperation
    <3>2. mine # {} => latest \in mine
      BY <3>1
    <3>3. ASSUME NEW o \in mine
          PROVE  latest = o
      BY <3>1, <3>2
    <3>4. ASSUME Called(s)'
          PROVE  \E o \in mine : ops'[o].status \in Terminal
      <4>1. PICK o \in mine : calls[o] > 0
        BY <1>12, <3>4 DEF Called, OpsOf, StartWorker
      <4>2. ops[o].status \in {"in_flight", "accepted", "unknown"}
        BY <4>1 DEF CallsInv, CallsAreAttempts, Crossed
      <4> QED BY <1>12, <4>1, <4>2 DEF StartWorker, RecoverInFlight, Terminal, PipelineTypeOK, TypeOK, Rows
    <3> HIDE DEF f, latest
    <3>5. CASE mine # {} /\ ops'[latest].status \in Terminal
      BY <2>2, <2>4, <3>2, <3>5 DEF Terminal
    <3>6. CASE ~(mine # {} /\ ops'[latest].status \in Terminal)
      BY <1>5, <2>2, <2>4, <3>3, <3>4, <3>6 DEF Terminal
    <3> QED BY <3>5, <3>6
  <2> QED BY <2>3, <2>4
<1> QED BY <1>1, <1>4, <1>9, <1>10, <1>11, <1>12, Writers DEF WorkerAlone

LEMMA SettledInvariant == ASSUME WorkerAlone PROVE Spec => []SettledInv
<1>1. Init => SettledInv
  <2>1. Init => Honest(send[Worker], ops)
    BY DEF Init, Honest, Off, NoJob, Owning, Before, Senders
  <2>2. Init => \A s \in Slots : ~Called(s) /\ slots[s] = "absent"
    BY DEF Init, Called, OpsOf
  <2> QED BY <2>1, <2>2 DEF SettledInv, Terminal
<1>2. PipelineInv /\ CallsInv /\ SettledInv /\ [Next]_vars => SettledInv'
  <2>1. PipelineInv /\ CallsInv /\ SettledInv /\ [Next]_vars => Honest(send[Worker], ops)'
    BY HonestNext
  <2> QED BY <2>1, SettledNext DEF SettledInv, OpsOf
<1>3. OutcomesAreWritten
  BY DEF WorkerAlone, OutcomesAreWritten
<1> QED BY <1>1, <1>2, <1>3, PipelineInvariant, CallsInvariant, PTL DEF Spec

\* What a settled slot says is what the ledger says of its operation, through
\* cancellations, deaths and recoveries: no slot is settled as unsent once the
\* provider was called.  For the worker alone: a campaign started beside a
\* manual test recovers the slot the test is sending (recover_claimed_slots).
THEOREM SettledSlotsAreTrue == ASSUME WorkerAlone PROVE Spec => []SettledAgreesWithLedger
<1>1. SettledInv => SettledAgreesWithLedger
  BY DEF SettledInv, SettledAgreesWithLedger, Terminal
<1> QED BY <1>1, SettledInvariant, PTL

--------------------------------------------------------------------------------
(* The weekly promise *)

FateIn(st) == CASE st = "accepted"  -> "delivered"
                [] st = "in_flight" -> "called"
                [] st = "unknown"   -> "ambiguous"
                [] OTHER            -> "open"

\* The sum over no operation and over one.
LEMMA NoCalls == ASSUME NEW s, OpsOf(s) = {} PROVE CallsFor(s) = 0
BY DEF CallsFor, MapThenSumSet, MapThenFoldSet

LEMMA CallsOfOne ==
  ASSUME NEW s, NEW x, OpsOf(s) = {x}, calls[x] \in Nat
  PROVE  CallsFor(s) = calls[x]
<1> DEFINE Step(g) == [S \in SUBSET {x} |-> IF S = {} THEN 0
                        ELSE calls[CHOOSE y \in S : TRUE] + g[S \ {CHOOSE y \in S : TRUE}]]
           total == CHOOSE g : g = Step(g)
           sum == [S \in SUBSET {x} |-> IF S = {} THEN 0 ELSE calls[x]]
<1>1. CallsFor(s) = total[{x}]
  BY DEF CallsFor, MapThenSumSet, MapThenFoldSet
<1>2. \A S \in SUBSET {x} : S = {} \/ S = {x}
  OBVIOUS
<1>3. (CHOOSE y \in {x} : TRUE) = x /\ {x} \ {x} = {}
  OBVIOUS
<1>4. sum = Step(sum)
  BY <1>2, <1>3
<1>5. total = Step(total)
  <2> HIDE DEF Step, sum
  <2> QED BY <1>4
<1>6. total[{}] = 0 /\ total[{x}] = calls[x] + total[{}]
  BY <1>3, <1>5
<1> HIDE DEF total
<1> QED BY <1>1, <1>6

\* The fate of a slot is that of its one operation; it was called once or it is open.
LEMMA FateRead ==
  PipelineInv /\ CallsInv =>
    \A s \in Slots : /\ \A o \in Ops : ops[o].slot = s => FateOf(s) = FateIn(ops[o].status)
                     /\ (\A o \in Ops : ops[o].slot # s) => FateOf(s) = "open"
                     /\ CallsFor(s) = IF FateOf(s) = "open" THEN 0 ELSE 1
<1> SUFFICES ASSUME PipelineInv, CallsInv, NEW s \in Slots
             PROVE  /\ \A o \in Ops : ops[o].slot = s => FateOf(s) = FateIn(ops[o].status)
                    /\ (\A o \in Ops : ops[o].slot # s) => FateOf(s) = "open"
                    /\ CallsFor(s) = IF FateOf(s) = "open" THEN 0 ELSE 1
  OBVIOUS
<1>1. CASE \A o \in Ops : ops[o].slot # s
  <2>1. OpsOf(s) = {}
    BY <1>1 DEF OpsOf
  <2>2. FateOf(s) = "open"
    BY <2>1 DEF FateOf
  <2> QED BY <1>1, <2>1, <2>2, NoCalls
<1>2. ASSUME NEW o \in Ops, ops[o].slot = s
      PROVE  /\ FateOf(s) = FateIn(ops[o].status) /\ OpsOf(s) = {o}
             /\ CallsFor(s) = IF FateOf(s) = "open" THEN 0 ELSE 1
  <2>1. OpsOf(s) = {o}
    <3>1. \A c \in Ops : ops[c].slot = s => Exists(c)
      BY PipelineAssumption DEF PipelineInv, Booked
    <3> QED BY <1>2, <3>1 DEF OpsOf, PipelineInv, OneOperation
  <2>2. FateOf(s) = FateIn(ops[o].status)
    BY <2>1 DEF FateOf, FateIn
  <2>3. calls[o] = IF ops[o].status \in {"in_flight", "accepted", "unknown"} THEN 1 ELSE 0
    BY DEF CallsInv, CallsAreAttempts, Crossed
  <2>4. CallsFor(s) = calls[o]
    BY <2>1, <2>3, CallsOfOne
  <2> QED BY <2>1, <2>2, <2>3, <2>4 DEF FateIn
<1> QED BY <1>1, <1>2

LEMMA FateReadNext ==
  PipelineInv' /\ CallsInv' =>
    \A s \in Slots : /\ \A o \in Ops : ops'[o].slot = s => FateOf(s)' = FateIn(ops'[o].status)
                     /\ (\A o \in Ops : ops'[o].slot # s) => FateOf(s)' = "open"
                     /\ CallsFor(s)' = IF FateOf(s)' = "open" THEN 0 ELSE 1
<1>1. (PipelineInv /\ CallsInv =>
         \A s \in Slots : /\ \A o \in Ops : ops[o].slot = s => FateOf(s) = FateIn(ops[o].status)
                          /\ (\A o \in Ops : ops[o].slot # s) => FateOf(s) = "open"
                          /\ CallsFor(s) = IF FateOf(s) = "open" THEN 0 ELSE 1)'
  BY FateRead, PTL
<1> QED BY <1>1

\* The operations of S, and no others, change their fate.
Moved(S, from, to) ==
    /\ S \subseteq Ops
    /\ \A o \in S : ops[o].status = from /\ ops'[o].status = to
    /\ \A o \in Ops \ S : FateIn(ops'[o].status) = FateIn(ops[o].status)

FateMoves ==
    \/ Moved({}, "claimed", "in_flight")
    \/ \E o \in Ops : Moved({o}, "claimed", "in_flight") \/ Moved({o}, "in_flight", "accepted")
    \/ \E S \in SUBSET Ops : Moved(S, "in_flight", "unknown")

LEMMA StepMovesFates ==
  ASSUME PipelineInv, CallsInv, [Next]_vars
  PROVE  FateMoves
<1> USE DEF PipelineInv
<1>1. TypeOK
  BY DEF PipelineTypeOK
<1>2. CASE UNCHANGED ledgerVars
  BY <1>2 DEF FateMoves, Moved, ledgerVars
<1>3. CASE RecoverInFlight
  <2> DEFINE S == {o \in Ops : ops[o].status = "in_flight"}
  <2>1. Moved(S, "in_flight", "unknown")
    BY <1>1, <1>3 DEF RecoverInFlight, Moved, TypeOK, Rows
  <2> QED BY <2>1 DEF FateMoves
<1>4. ASSUME NEW o \in Ops, \A c \in Ops \ {o} : ops'[c] = ops[c],
             \/ FateIn(ops'[o].status) = FateIn(ops[o].status)
             \/ ops[o].status = "claimed" /\ ops'[o].status = "in_flight"
             \/ ops[o].status = "in_flight" /\ ops'[o].status \in {"accepted", "unknown"}
      PROVE  FateMoves
  <2>1. CASE FateIn(ops'[o].status) = FateIn(ops[o].status)
    BY <1>4, <2>1 DEF FateMoves, Moved
  <2>2. CASE ops[o].status = "claimed" /\ ops'[o].status = "in_flight"
    <3>1. Moved({o}, "claimed", "in_flight")
      BY <1>4, <2>2 DEF Moved
    <3> QED BY <3>1 DEF FateMoves
  <2>3. CASE ops[o].status = "in_flight" /\ ops'[o].status = "accepted"
    <3>1. Moved({o}, "in_flight", "accepted")
      BY <1>4, <2>3 DEF Moved
    <3> QED BY <3>1 DEF FateMoves
  <2>4. CASE ops[o].status = "in_flight" /\ ops'[o].status = "unknown"
    <3>1. Moved({o}, "in_flight", "unknown")
      BY <1>4, <2>4 DEF Moved
    <3> QED BY <3>1 DEF FateMoves
  <2> QED BY <1>4, <2>1, <2>2, <2>3, <2>4
<1>5. ASSUME NEW o \in Ops, Marks(o)
      PROVE  FateMoves
  <2>1. CASE (\E p \in Profiles : Claim(o, p)) \/ MarkFailedUnsent(o)
    <3>1. UNCHANGED ledgerVars \/ \E st \in {"claimed", "failed_unsent"} : ops[o].status \in PreSend /\ ops' = [ops EXCEPT ![o].status = st]
      BY <2>1 DEF Claim, CanClaim, MarkFailedUnsent, PreSend
    <3>2. ASSUME NEW st \in {"claimed", "failed_unsent"}, ops[o].status \in PreSend, ops' = [ops EXCEPT ![o].status = st]
          PROVE  FateMoves
      <4>1. ops'[o].status = st /\ \A c \in Ops \ {o} : ops'[c] = ops[c]
        BY <1>1, <3>2 DEF TypeOK, Rows
      <4> QED BY <1>4, <3>2, <4>1 DEF FateIn, PreSend
    <3> QED BY <1>2, <3>1, <3>2
  <2>2. CASE Retry(o)
    <3>1. ops'[o].status = "claimed" /\ ops[o].status = "failed_unsent" /\ \A c \in Ops \ {o} : ops'[c] = ops[c]
      BY <1>1, <2>2 DEF Retry, CanRetry, TypeOK, Rows
    <3> QED BY <1>4, <3>1 DEF FateIn
  <2>3. CASE MarkUnknown(o)
    <3>1. \/ UNCHANGED ledgerVars
          \/ ops'[o].status = "unknown" /\ ops[o].status = "in_flight" /\ \A c \in Ops \ {o} : ops'[c] = ops[c]
      BY <1>1, <2>3 DEF MarkUnknown, TypeOK, Rows
    <3> QED BY <1>2, <1>4, <3>1
  <2>4. ASSUME NEW m \in ProviderIds, MarkAccepted(o, m)
        PROVE  FateMoves
    <3>1. \/ UNCHANGED ledgerVars
          \/ ops'[o].status = "accepted" /\ ops[o].status = "in_flight" /\ \A c \in Ops \ {o} : ops'[c] = ops[c]
      BY <1>1, <2>4 DEF MarkAccepted, TypeOK, Rows
    <3> QED BY <1>2, <1>4, <3>1
  <2> QED BY <1>5, <2>1, <2>2, <2>3, <2>4 DEF Marks
<1>6. ASSUME NEW q \in Senders, NEW o \in Ops, Begins(q, o)
      PROVE  FateMoves
  <2>1. ops'[o].status = "reserved" /\ ops[o].status = "absent" /\ \A c \in Ops \ {o} : ops'[c] = ops[c]
    BY <1>1, <1>6 DEF Begins, Create, Exists, TypeOK
  <2> QED BY <1>4, <2>1 DEF FateIn
<1>7. ASSUME NEW q \in Senders, CallProvider(q)
      PROVE  FateMoves
  <2> DEFINE o == send[q].op
  <2>1. o \in Ops /\ ops[o].status = "claimed"
    BY <1>7, CallIsFirst DEF CallsInv, JobsOK, PipelineTypeOK
  <2>2. ops' = [ops EXCEPT ![o].status = "in_flight"]
    BY <1>7, <2>1 DEF CallProvider, MarkInFlight
  <2> HIDE DEF o
  <2>3. ops'[o].status = "in_flight" /\ \A c \in Ops \ {o} : ops'[c] = ops[c]
    BY <1>1, <2>1, <2>2 DEF TypeOK, Rows
  <2> QED BY <1>4, <2>1, <2>3
<1> QED BY <1>2, <1>3, <1>5, <1>6, <1>7, Effects DEF Quiet

LEMMA FatesFollow ==
  ASSUME PipelineInv, CallsInv, PipelineInv', CallsInv', Grown, NEW S, NEW from \in {"claimed", "in_flight"}, NEW to,
         Moved(S, from, to), NEW s \in Slots
  PROVE  IF \E o \in S : ops[o].slot = s THEN FateOf(s) = FateIn(from) /\ FateOf(s)' = FateIn(to)
         ELSE FateOf(s)' = FateOf(s)
<1>1. ASSUME NEW o \in Ops, ops[o].slot = s
      PROVE  FateOf(s) = FateIn(ops[o].status) /\ FateOf(s)' = FateIn(ops'[o].status)
  <2>1. ops'[o].slot = s
    BY <1>1, PipelineAssumption DEF Grown, PipelineInv, Booked
  <2> QED BY <1>1, <2>1, FateRead, FateReadNext
<1>2. ASSUME \A o \in Ops : ops[o].slot # s
      PROVE  FateOf(s) = "open" /\ FateOf(s)' = "open"
  <2>1. FateOf(s) = "open"
    BY <1>2, FateRead
  <2>2. ASSUME NEW o \in Ops, ops'[o].slot = s
        PROVE  FateIn(ops'[o].status) = "open"
    <3>1. ~Exists(o)
      BY <1>2, <2>2 DEF Grown
    <3>2. FateIn(ops[o].status) = "open" /\ o \notin S
      BY <3>1 DEF Exists, FateIn, Moved
    <3> QED BY <3>2 DEF Moved
  <2>3. FateOf(s)' = "open"
    BY <2>2, FateReadNext
  <2> QED BY <2>1, <2>3
<1>3. S \subseteq Ops
  BY DEF Moved
<1>4. CASE \E o \in S : ops[o].slot = s
  BY <1>1, <1>3, <1>4 DEF Moved
<1>5. CASE \E o \in Ops \ S : ops[o].slot = s /\ ~ \E c \in S : ops[c].slot = s
  BY <1>1, <1>5 DEF Moved
<1> QED BY <1>2, <1>3, <1>4, <1>5

LEMMA PromiseStep ==
  PipelineInv /\ CallsInv /\ PipelineInv' /\ CallsInv' /\ [Next]_vars => [Promise!Next]_(Promise!promiseVars)
<1> SUFFICES ASSUME PipelineInv, CallsInv, PipelineInv', CallsInv', [Next]_vars
             PROVE  [Promise!Next]_(Promise!promiseVars)
  OBVIOUS
<1> DEFINE fate == [s \in Slots |-> FateOf(s)]
           sent == [s \in Slots |-> CallsFor(s)]
           fateNext == [s \in Slots |-> FateOf(s)']
           sentNext == [s \in Slots |-> CallsFor(s)']
<1>1. Grown
  BY CallsLedger, LedgerGrows DEF PipelineInv, PipelineTypeOK
<1>2. \A s \in Slots : /\ CallsFor(s) = IF FateOf(s) = "open" THEN 0 ELSE 1
                       /\ CallsFor(s)' = IF FateOf(s)' = "open" THEN 0 ELSE 1
  BY FateRead, FateReadNext
<1>3. \A o \in Ops : ops[o].status \in {"claimed", "in_flight"} => ops[o].slot \in Slots
  BY DEF PipelineInv, Booked, Exists
<1>4. ASSUME fateNext = fate
      PROVE  UNCHANGED Promise!promiseVars
  <2>1. \A s \in Slots : FateOf(s)' = FateOf(s)
    BY <1>4
  <2>2. \A s \in Slots : CallsFor(s)' = CallsFor(s)
    BY <1>2, <2>1
  <2> QED BY <2>1, <2>2 DEF Promise!promiseVars
<1>5. ASSUME Moved({}, "claimed", "in_flight")
      PROVE  UNCHANGED Promise!promiseVars
  BY <1>1, <1>4, <1>5, FatesFollow
<1>6. ASSUME NEW o \in Ops, Moved({o}, "claimed", "in_flight")
      PROVE  Promise!Call(ops[o].slot)
  <2>0. PICK s \in Slots : s = ops[o].slot
    BY <1>3, <1>6 DEF Moved
  <2>1. FateOf(s) = "open" /\ FateOf(s)' = "called" /\ \A c \in Slots \ {s} : FateOf(c)' = FateOf(c)
    <3>1. \A c \in Slots : IF \E x \in {o} : ops[x].slot = c THEN FateOf(c) = FateIn("claimed") /\ FateOf(c)' = FateIn("in_flight")
                           ELSE FateOf(c)' = FateOf(c)
      BY <1>1, <1>6, FatesFollow
    <3> QED BY <2>0, <3>1 DEF FateIn
  <2>2. fateNext = [fate EXCEPT ![s] = "called"]
    BY <2>1
  <2>3. CallsFor(s) = 0 /\ CallsFor(s)' = 1 /\ \A c \in Slots \ {s} : CallsFor(c)' = CallsFor(c)
    BY <1>2, <2>1
  <2>4. sentNext = [sent EXCEPT ![s] = @ + 1]
    <3>1. sent[s] + 1 = 1 /\ sentNext[s] = 1 /\ \A c \in Slots \ {s} : sentNext[c] = sent[c]
      BY <2>3
    <3> QED BY <3>1
  <2> QED BY <2>0, <2>1, <2>2, <2>4 DEF Promise!Call
<1>7. ASSUME NEW o \in Ops, Moved({o}, "in_flight", "accepted")
      PROVE  Promise!Deliver(ops[o].slot)
  <2>0. PICK s \in Slots : s = ops[o].slot
    BY <1>3, <1>7 DEF Moved
  <2>1. FateOf(s) = "called" /\ FateOf(s)' = "delivered" /\ \A c \in Slots \ {s} : FateOf(c)' = FateOf(c)
    <3>1. \A c \in Slots : IF \E x \in {o} : ops[x].slot = c THEN FateOf(c) = FateIn("in_flight") /\ FateOf(c)' = FateIn("accepted")
                           ELSE FateOf(c)' = FateOf(c)
      <4> DEFINE from == "in_flight"
                 to == "accepted"
      <4>1. from \in {"claimed", "in_flight"} /\ Moved({o}, from, to)
        BY <1>7
      <4> HIDE DEF from, to
      <4>2. \A c \in Slots : IF \E x \in {o} : ops[x].slot = c THEN FateOf(c) = FateIn(from) /\ FateOf(c)' = FateIn(to)
                             ELSE FateOf(c)' = FateOf(c)
        BY <1>1, <4>1, FatesFollow
      <4> QED BY <4>2 DEF from, to
    <3> QED BY <2>0, <3>1 DEF FateIn
  <2>2. fateNext = [fate EXCEPT ![s] = "delivered"]
    BY <2>1
  <2>3. \A c \in Slots : CallsFor(c)' = CallsFor(c)
    BY <1>2, <2>1
  <2>4. sentNext = sent
    BY <2>3
  <2> QED BY <2>0, <2>1, <2>2, <2>4 DEF Promise!Deliver
<1>8. ASSUME NEW S \in SUBSET Ops, S # {}, Moved(S, "in_flight", "unknown")
      PROVE  Promise!GiveUp({ops[o].slot : o \in S})
  <2> DEFINE T == {ops[o].slot : o \in S}
  <2>1. T # {} /\ T \subseteq Slots
    BY <1>3, <1>8 DEF Moved
  <2>2. \A s \in Slots : /\ s \in T => FateOf(s) = "called" /\ FateOf(s)' = "ambiguous"
                         /\ s \notin T => FateOf(s)' = FateOf(s)
    BY <1>1, <1>8, FatesFollow DEF FateIn
  <2> HIDE DEF T
  <2>3. fateNext = [s \in Slots |-> IF s \in T THEN "ambiguous" ELSE fate[s]]
    BY <2>2
  <2>4. \A c \in Slots : CallsFor(c)' = CallsFor(c)
    BY <1>2, <2>2
  <2>5. sentNext = sent
    BY <2>4
  <2> QED BY <2>1, <2>2, <2>3, <2>5 DEF Promise!GiveUp, T
<1>9. ASSUME Moved({}, "in_flight", "unknown")
      PROVE  UNCHANGED Promise!promiseVars
  BY <1>5, <1>9 DEF Moved
<1>10. CASE \E o \in Ops : Moved({o}, "claimed", "in_flight")
  <2> PICK o \in Ops : Moved({o}, "claimed", "in_flight")
    BY <1>10
  <2> QED BY <1>3, <1>6 DEF Promise!Next, Moved
<1>11. CASE \E o \in Ops : Moved({o}, "in_flight", "accepted")
  <2> PICK o \in Ops : Moved({o}, "in_flight", "accepted")
    BY <1>11
  <2> QED BY <1>3, <1>7 DEF Promise!Next, Moved
<1>12. CASE \E S \in SUBSET Ops : Moved(S, "in_flight", "unknown")
  <2> PICK S \in SUBSET Ops : Moved(S, "in_flight", "unknown")
    BY <1>12
  <2>1. {ops[o].slot : o \in S} \in SUBSET Slots
    BY <1>3 DEF Moved
  <2> QED BY <1>8, <1>9, <2>1 DEF Promise!Next
<1> QED BY <1>5, <1>10, <1>11, <1>12, StepMovesFates DEF FateMoves

\* The sending side keeps the weekly promise: every step of every sender is a
\* step of WeeklyPromise or invisible to it.  The promise has no second call and
\* no revised outcome, so neither has any run of the pipeline.
THEOREM PromiseIsKept == ASSUME OutcomesAreWritten PROVE Spec => PromiseKept
<1>1. Init => Promise!Init
  <2> SUFFICES ASSUME Init PROVE Promise!Init
    OBVIOUS
  <2>1. \A o \in Ops : ops[o].slot = None
    BY DEF Init, LedgerInit, NoRow
  <2>2. \A s \in Slots : OpsOf(s) = {} /\ FateOf(s) = "open"
    BY <2>1, PipelineAssumption DEF OpsOf, FateOf
  <2> QED BY <2>2, NoCalls DEF Promise!Init
<1>2. PipelineInv /\ CallsInv /\ PipelineInv' /\ CallsInv' /\ [Next]_vars => [Promise!Next]_(Promise!promiseVars)
  BY PromiseStep
<1> QED BY <1>1, <1>2, PipelineInvariant, CallsInvariant, PTL DEF Spec, PromiseKept, Promise!Spec

================================================================================

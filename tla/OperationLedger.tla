---------------------------- MODULE OperationLedger ----------------------------
(****************************************************************************)
(* The durable operation ledger: app/repositories/operations.py behind      *)
(* app/services/operations.py.  One action per repository method; every     *)
(* method is one "BEGIN IMMEDIATE" transaction, hence one atomic step.      *)
(* A method that raises rolls its transaction back and is no step at all: a *)
(* caller that must know whether a call raises tests the guard (the         *)
(* operators named Can...).                                                 *)
(****************************************************************************)
EXTENDS Naturals, Sequences, FiniteSets

CONSTANTS
    MaxOps,        \* bound: operations that may ever be created
    Profiles,      \* sending accounts
    Slots,         \* weekly slots an operation may be created for
    ProviderIds,   \* message ids the provider may acknowledge with
    Requests,      \* (request_id, command) pairs that may accompany a create
    MaxRetries,    \* max_pre_effect_retries
    None           \* SQL NULL

ASSUME LedgerAssumption ==
    /\ MaxOps \in Nat
    /\ MaxRetries \in Nat
    /\ None \notin ProviderIds
    /\ None \notin Requests
    /\ None \notin Nat

VARIABLES
    ops,           \* operations: the row of each operation
    attempts,      \* operation_attempts: the states of its network attempts
    accounting,    \* operation_accounting: provider id of the applied effect
    receipts       \* command_receipts: the operation a request created

ledgerVars == <<ops, attempts, accounting, receipts>>

\* Operation ids stand for the order of created_at.
Ops == 1..MaxOps

PreSend  == {"reserved", "claimed", "failed_unsent"}
Terminal == {"accepted", "unknown"}
Statuses == {"absent", "in_flight"} \cup PreSend \cup Terminal

NoRow == [status |-> "absent", profile |-> None, slot |-> None,
          retries |-> 0, pid |-> None]

Rows == [status  : Statuses,
         profile : Profiles \cup {None},
         slot    : Slots \cup {None},
         retries : 0..MaxRetries,
         pid     : ProviderIds \cup {None}]

Exists(o) == ops[o].status # "absent"

LedgerInit ==
    /\ ops = [o \in Ops |-> NoRow]
    /\ attempts = [o \in Ops |-> <<>>]
    /\ accounting = [o \in Ops |-> None]
    /\ receipts = [r \in Requests |-> None]

--------------------------------------------------------------------------------
(* The state of the last network attempt becomes st. *)
CloseAttempt(o, st) ==
    attempts' = IF attempts[o] = <<>> THEN attempts
                ELSE [attempts EXCEPT ![o][Len(attempts[o])] = st]

\* A receipt already stored for r: create returns its operation, changing nothing.
Replayed(r) == IF r = None THEN FALSE ELSE receipts[r] # None

Create(o, p, s, r) ==
    /\ ~Replayed(r)
    /\ ~Exists(o)
    /\ \A older \in Ops : older < o => Exists(older)
    /\ ops' = [ops EXCEPT ![o] = [status |-> "reserved", profile |-> p, slot |-> s,
                                  retries |-> 0, pid |-> None]]
    /\ receipts' = IF r = None THEN receipts ELSE [receipts EXCEPT ![r] = o]
    /\ UNCHANGED <<attempts, accounting>>

\* Operations a later send of the same slot and account resumes; the caller
\* takes the latest one.
RetryableForSlot(s, p) ==
    {o \in Ops : ops[o].slot = s /\ ops[o].profile = p /\ ops[o].status \in PreSend}

CanClaim(o, p) == ops[o].profile = p /\ ops[o].status \in {"reserved", "claimed"}

Claim(o, p) ==
    /\ CanClaim(o, p)
    /\ ops' = [ops EXCEPT ![o].status = "claimed"]
    /\ UNCHANGED <<attempts, accounting, receipts>>

CanMarkInFlight(o) == ops[o].status \in {"claimed", "in_flight"}

\* An operation that is in flight already is returned as it is.
MarkInFlight(o) ==
    \/ ops[o].status = "in_flight" /\ UNCHANGED ledgerVars
    \/ /\ ops[o].status = "claimed"
       /\ attempts' = [attempts EXCEPT ![o] = Append(@, "in_flight")]
       /\ ops' = [ops EXCEPT ![o].status = "in_flight"]
       /\ UNCHANGED <<accounting, receipts>>

CanMarkFailedUnsent(o) == ops[o].status \in PreSend \cup Terminal

\* Mutant: only the terminal states are protected.
FailInFlightUnsent(o) ==
    \/ ops[o].status \in Terminal /\ UNCHANGED ledgerVars
    \/ /\ ops[o].status \in {"in_flight"} \cup PreSend
       /\ ops' = [ops EXCEPT ![o].status = "failed_unsent"]
       /\ UNCHANGED <<attempts, accounting, receipts>>

\* Terminal rows are returned unchanged.
MarkFailedUnsent(o) ==
    \/ ops[o].status \in Terminal /\ UNCHANGED ledgerVars
    \/ /\ ops[o].status \in PreSend
       /\ ops' = [ops EXCEPT ![o].status = "failed_unsent"]
       /\ UNCHANGED <<attempts, accounting, receipts>>

\* Mutant: the retry budget is not compared.
CanRetryForever(o) == ops[o].status = "failed_unsent"

CanRetry(o) == ops[o].status = "failed_unsent" /\ ops[o].retries < MaxRetries

Retry(o) ==
    /\ CanRetry(o)
    /\ ops' = [ops EXCEPT ![o].status = "claimed", ![o].retries = @ + 1]
    /\ UNCHANGED <<attempts, accounting, receipts>>

CanMarkUnknown(o) == ops[o].status \in {"in_flight"} \cup Terminal

\* Mutant: the early return covers "unknown" alone.
DowngradeToUnknown(o) ==
    \/ ops[o].status = "unknown" /\ UNCHANGED ledgerVars
    \/ /\ ops[o].status \in {"in_flight", "accepted"}
       /\ CloseAttempt(o, "unknown")
       /\ ops' = [ops EXCEPT ![o].status = "unknown"]
       /\ UNCHANGED <<accounting, receipts>>

MarkUnknown(o) ==
    \/ ops[o].status \in Terminal /\ UNCHANGED ledgerVars
    \/ /\ ops[o].status = "in_flight"
       /\ CloseAttempt(o, "unknown")
       /\ ops' = [ops EXCEPT ![o].status = "unknown"]
       /\ UNCHANGED <<accounting, receipts>>

CanMarkAccepted(o, m) ==
    \/ ops[o].status = "accepted" /\ ops[o].pid = m
    \/ ops[o].status = "in_flight" /\ attempts[o] # <<>>

\* Mutant: a second acknowledgement replaces the provider id.
AcknowledgeAgain(o, m) ==
    /\ ops[o].status \in {"in_flight", "accepted"}
    /\ CloseAttempt(o, "accepted")
    /\ ops' = [ops EXCEPT ![o].status = "accepted", ![o].pid = m]
    /\ accounting' = [accounting EXCEPT ![o] = IF @ = None THEN m ELSE @]
    /\ UNCHANGED receipts

\* INSERT OR IGNORE: an accounting row is written once.
MarkAccepted(o, m) ==
    \/ ops[o].status = "accepted" /\ ops[o].pid = m /\ UNCHANGED ledgerVars
    \/ /\ ops[o].status = "in_flight"
       /\ attempts[o] # <<>>
       /\ CloseAttempt(o, "accepted")
       /\ ops' = [ops EXCEPT ![o].status = "accepted", ![o].pid = m]
       /\ accounting' = [accounting EXCEPT ![o] = IF @ = None THEN m ELSE @]
       /\ UNCHANGED receipts

\* Mutant: recovery takes what was in flight for unsent.
RecoverAsUnsent ==
    /\ ops' = [o \in Ops |->
           IF ops[o].status = "in_flight"
           THEN [ops[o] EXCEPT !.status = "failed_unsent"] ELSE ops[o]]
    /\ UNCHANGED <<attempts, accounting, receipts>>

\* recover_in_flight: mark_unknown on every operation found in flight.
RecoverInFlight ==
    /\ attempts' = [o \in Ops |->
           IF ops[o].status = "in_flight" /\ attempts[o] # <<>>
           THEN [attempts[o] EXCEPT ![Len(attempts[o])] = "unknown"]
           ELSE attempts[o]]
    /\ ops' = [o \in Ops |->
           IF ops[o].status = "in_flight"
           THEN [ops[o] EXCEPT !.status = "unknown"] ELSE ops[o]]
    /\ UNCHANGED <<accounting, receipts>>

--------------------------------------------------------------------------------
(* The most general client: any caller may call any method at any time. *)
OpStep(o) ==
    \/ \E p \in Profiles, s \in Slots, r \in Requests \cup {None} : Create(o, p, s, r)
    \/ \E p \in Profiles : Claim(o, p)
    \/ MarkInFlight(o)
    \/ MarkFailedUnsent(o)
    \/ Retry(o)
    \/ MarkUnknown(o)
    \/ \E m \in ProviderIds : MarkAccepted(o, m)

LedgerNext == RecoverInFlight \/ \E o \in Ops : OpStep(o)

LedgerSpec == LedgerInit /\ [][LedgerNext]_ledgerVars

--------------------------------------------------------------------------------
\* The shape of the four tables.
TypeOK ==
    /\ ops \in [Ops -> Rows]
    /\ attempts \in [Ops -> Seq({"in_flight"} \cup Terminal)]
    /\ accounting \in [Ops -> ProviderIds \cup {None}]
    /\ receipts \in [Requests -> Ops \cup {None}]

\* However often an operation is claimed, retried, recovered and replayed, it
\* crosses the network boundary at most once, and its only attempt tells the
\* same story as its row (mark_in_flight numbers attempts MAX+1, so nothing but
\* the status discipline keeps that number at 1).
OneNetworkAttempt ==
    \A o \in Ops :
        attempts[o] = IF ops[o].status \in {"in_flight"} \cup Terminal
                      THEN <<ops[o].status>> ELSE <<>>

\* The accounting effect is applied exactly for accepted operations, with the
\* acknowledged provider id, and only accepted operations have one.
AccountingExact ==
    \A o \in Ops : /\ accounting[o] = ops[o].pid
                   /\ (ops[o].pid # None) <=> (ops[o].status = "accepted")

\* Accepted and unknown are final: no call, in any order, changes such a row,
\* its attempts or its accounting ("housekeeping cannot downgrade accepted").
FinalForever ==
    [][\A o \in Ops : ops[o].status \in Terminal =>
         /\ ops'[o] = ops[o]
         /\ attempts'[o] = attempts[o]
         /\ accounting'[o] = accounting[o]]_ledgerVars

================================================================================

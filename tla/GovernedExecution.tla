------------------------- MODULE GovernedExecution -------------------------
(***************************************************************************)
(* Governed executions: the rows of agent_governed_executions of one       *)
(* organization, unique per idempotency key, and the billing allowance     *)
(* they use up (src/agxora-v2/app/lib/agents/governedExecutionDb.ts,       *)
(* app/lib/billing/enforce.ts, app/lib/marketing).                         *)
(*                                                                         *)
(* An email is claimed, handed to the provider and recorded in three       *)
(* steps.  A CRM note and a marketing plan are one transaction each.  A    *)
(* business fact and a claim check use the same table but ask nobody for   *)
(* an allowance.  A slot of Slots is one server request at a time: when it *)
(* is done the slot serves another, so requests are repeated at will.      *)
(***************************************************************************)
EXTENDS Naturals, FiniteSets

CONSTANTS
    Emails,     \* idempotency keys of customer emails
    Direct,     \* keys of CRM notes and marketing plans
    Facts,      \* keys of business fact confirmations
    Checks,     \* keys of claim gate checks
    Slots,      \* requests under way at the same time
    Limit,      \* governedExecutionsPerMonth of the plan
    MaxPeriod,  \* bound: billing periods
    MaxLost     \* bound: answers lost per key

Keys == Emails \cup Direct \cup Facts \cup Checks

ASSUME GovernedAssumption ==
    /\ IsFiniteSet(Keys)
    /\ Emails \cap (Direct \cup Facts \cup Checks) = {}
    /\ Direct \cap (Facts \cup Checks) = {} /\ Facts \cap Checks = {}
    /\ Limit \in Nat /\ MaxPeriod \in Nat /\ MaxLost \in Nat

VARIABLES
    row,        \* agent_governed_executions
    sub,        \* commercial_subscriptions
    mail,       \* messages the provider took, per email key
    lost,       \* history: how often it took one and the answer was lost
    evidence,   \* keys with an execution.result "queued" in the evidence table
    call        \* what each slot is doing

vars == <<row, sub, mail, lost, evidence, call>>

Statuses == {"none", "RESERVED", "EXECUTING", "COMPLETED", "FAILED", "AMBIGUOUS"}

\* born: billing period of createdAt; old: the attempt is over the 120 s of
\* EMAIL_ATTEMPT_STALE_MS, asked of an EXECUTING row only.
Row == [status : Statuses, born : Nat, old : BOOLEAN]
NoRow == [status |-> "none", born |-> 0, old |-> FALSE]

EmailPcs == {"find", "reopen", "send", "mark", "fail", "doubt", "complete", "evidence"}
FactPcs == {"reopenFact", "apply"}
Idle == [pc |-> "idle"]
Call == {Idle} \cup [pc : EmailPcs, key : Emails] \cup [pc : FactPcs, key : Facts]
At(c, pc) == call[c].pc = pc
GoTo(c, pc) == call' = [call EXCEPT ![c].pc = pc]
Enter(c, pc, k) == call' = [call EXCEPT ![c] = [pc |-> pc, key |-> k]]
Leave(c) == call' = [call EXCEPT ![c] = Idle]

WithStatus(k, status) == [row EXCEPT ![k] = [status |-> status, born |-> @.born, old |-> FALSE]]

\* The period a row inserted now belongs to.  The periods follow the provider's
\* clock and are known here when its webhook comes, so without paid access the
\* next one may have begun.
Births == IF sub.state = "paid" THEN {sub.period} ELSE {sub.period, sub.period + 1}
Inserted(k, status) ==
    \E b \in Births :
        row' = [row EXCEPT ![k] = [status |-> status, born |-> b, old |-> FALSE]]

Init ==
    /\ row = [k \in Keys |-> NoRow]
    /\ sub = [state |-> "none", period |-> 0]
    /\ mail = [k \in Emails |-> 0]
    /\ lost = [k \in Emails |-> 0]
    /\ evidence = {}
    /\ call = [c \in Slots |-> Idle]

-----------------------------------------------------------------------------
(* assertGovernedExecutionAllowed.  The subscription row is locked from the  *)
(* count to the insert, so the two are one step.                             *)

Counted(r) == r.status \in {"COMPLETED", "RESERVED", "EXECUTING", "AMBIGUOUS"}
InPeriod == {k \in Keys : Counted(row[k]) /\ row[k].born = sub.period}

\* Mutant: an execution under way is not counted.
AllowedIfFinished ==
    \/ sub.state = "none"
    \/ sub.state = "paid" /\ Cardinality({k \in InPeriod : row[k].status = "COMPLETED"}) < Limit

Allowed ==
    \/ sub.state = "none"
    \/ sub.state = "paid" /\ Cardinality(InPeriod) < Limit

(* The subscription: bought, renewed, or unpaid (past due, or its period     *)
(* ended before the renewal is known).                                       *)

Subscribe ==
    /\ sub.state = "none" /\ MaxPeriod > 0
    /\ sub' = [state |-> "paid", period |-> 1]
    /\ UNCHANGED <<row, mail, lost, evidence, call>>

Lapse ==
    /\ sub.state = "paid"
    /\ sub' = [sub EXCEPT !.state = "unpaid"]
    /\ UNCHANGED <<row, mail, lost, evidence, call>>

Renew ==
    /\ sub.state # "none" /\ sub.period < MaxPeriod
    /\ sub' = [state |-> "paid", period |-> sub.period + 1]
    /\ UNCHANGED <<row, mail, lost, evidence, call>>

-----------------------------------------------------------------------------
(* beginGovernedEmailAttempt.  The allowance is asked for before the key is  *)
(* looked up, so a refusal looks the same for a new and for a known key.     *)

Claim(c) ==
    /\ At(c, "idle") /\ Allowed
    /\ \E k \in Emails :
         \/ /\ row[k].status = "none"
            /\ Inserted(k, "EXECUTING")
            /\ Enter(c, "send", k)
         \/ /\ row[k].status # "none"
            /\ Enter(c, "find", k)
            /\ UNCHANGED row
    /\ UNCHANGED <<sub, mail, lost, evidence>>

\* The row that was in the way; emailAttemptDecision.
Find(c) ==
    LET r == row[call[c].key] IN
    /\ At(c, "find")
    /\ \/ r.status \in {"COMPLETED", "AMBIGUOUS"} /\ Leave(c)
       \/ r.status = "FAILED" /\ GoTo(c, "reopen")
       \/ r.status = "EXECUTING" /\ r.old /\ GoTo(c, "mark")
       \/ r.status = "EXECUTING" /\ ~r.old /\ Leave(c)
    /\ UNCHANGED <<row, sub, mail, lost, evidence>>

\* Mutant: the status the decision was taken on is not looked at again.
ReopenBlindly(c) ==
    /\ At(c, "reopen")
    /\ IF Allowed
       THEN row' = WithStatus(call[c].key, "EXECUTING") /\ GoTo(c, "send")
       ELSE UNCHANGED row /\ Leave(c)
    /\ UNCHANGED <<sub, mail, lost, evidence>>

\* The allowance again, and the row only if it is still FAILED; createdAt stays.
Reopen(c) ==
    LET k == call[c].key IN
    /\ At(c, "reopen")
    /\ IF Allowed /\ row[k].status = "FAILED"
       THEN row' = WithStatus(k, "EXECUTING") /\ GoTo(c, "send")
       ELSE UNCHANGED row /\ Leave(c)
    /\ UNCHANGED <<sub, mail, lost, evidence>>

\* Mutant: the decision is stored as it is, not as a status.
MarkDecision(c) ==
    LET k == call[c].key IN
    /\ At(c, "mark")
    /\ row' = IF row[k].status = "EXECUTING" THEN WithStatus(k, "ambiguous") ELSE row
    /\ Leave(c)
    /\ UNCHANGED <<sub, mail, lost, evidence>>

\* The abandoned attempt; it may be another attempt by now.
Mark(c) ==
    LET k == call[c].key IN
    /\ At(c, "mark")
    /\ row' = IF row[k].status = "EXECUTING" THEN WithStatus(k, "AMBIGUOUS") ELSE row
    /\ Leave(c)
    /\ UNCHANGED <<sub, mail, lost, evidence>>

-----------------------------------------------------------------------------
(* The route, with the claim in hand.                                        *)

\* deliverEmail: taken and answered; taken and not heard of, which the HTTP
\* provider reports like a refusal; refused; or an exception before the call.
Send(c) ==
    LET k == call[c].key IN
    /\ At(c, "send")
    /\ \/ mail' = [mail EXCEPT ![k] = @ + 1] /\ GoTo(c, "complete") /\ UNCHANGED lost
       \/ /\ lost[k] < MaxLost
          /\ mail' = [mail EXCEPT ![k] = @ + 1]
          /\ lost' = [lost EXCEPT ![k] = @ + 1]
          /\ GoTo(c, "fail")
       \/ GoTo(c, "fail") /\ UNCHANGED <<mail, lost>>
       \/ GoTo(c, "doubt") /\ UNCHANGED <<mail, lost>>
    /\ UNCHANGED <<row, sub, evidence>>

\* Mutant: a failure is recorded over whatever the row says.
FailAlways(c) ==
    /\ At(c, "fail")
    /\ row' = WithStatus(call[c].key, "FAILED")
    /\ Leave(c)
    /\ UNCHANGED <<sub, mail, lost, evidence>>

Fail(c) ==
    LET k == call[c].key IN
    /\ At(c, "fail")
    /\ row' = IF row[k].status = "EXECUTING" THEN WithStatus(k, "FAILED") ELSE row
    /\ Leave(c)
    /\ UNCHANGED <<sub, mail, lost, evidence>>

RecordDoubt(c) ==
    LET k == call[c].key IN
    /\ At(c, "doubt")
    /\ row' = IF row[k].status = "EXECUTING" THEN WithStatus(k, "AMBIGUOUS") ELSE row
    /\ Leave(c)
    /\ UNCHANGED <<sub, mail, lost, evidence>>

\* Mutant: an attempt that was marked ambiguous meanwhile cannot be completed,
\* and nobody looks whether it was.
CompleteIfExecuting(c) ==
    LET k == call[c].key IN
    /\ At(c, "complete")
    /\ row' = IF row[k].status = "EXECUTING" THEN WithStatus(k, "COMPLETED") ELSE row
    /\ GoTo(c, "evidence")
    /\ UNCHANGED <<sub, mail, lost, evidence>>

Complete(c) ==
    LET k == call[c].key IN
    /\ At(c, "complete")
    /\ IF row[k].status \in {"EXECUTING", "AMBIGUOUS"}
       THEN row' = WithStatus(k, "COMPLETED") /\ GoTo(c, "evidence")
       ELSE UNCHANGED row /\ Leave(c)
    /\ UNCHANGED <<sub, mail, lost, evidence>>

AppendEvidence(c) ==
    /\ At(c, "evidence")
    /\ evidence' = evidence \cup {call[c].key}
    /\ Leave(c)
    /\ UNCHANGED <<row, sub, mail, lost>>

-----------------------------------------------------------------------------
\* commitGovernedCrmNote and beginGovernedMarketingRecord: one transaction; a
\* row that is there already makes it a replay or a conflict.
Commit(k) ==
    /\ row[k].status = "none" /\ Allowed
    /\ Inserted(k, "COMPLETED")
    /\ UNCHANGED <<sub, mail, lost, evidence, call>>

\* recordClaimGate...: the evaluation is stored as a COMPLETED execution.
Check(k) ==
    /\ row[k].status = "none"
    /\ Inserted(k, "COMPLETED")
    /\ UNCHANGED <<sub, mail, lost, evidence, call>>

(* confirmBusinessFact...: reserve, write the fact into the Agent OS blob,    *)
(* record.  A FAILED row is reopened by id, whatever it says by then.        *)

ReserveFact(c) ==
    /\ At(c, "idle")
    /\ \E k \in Facts :
         \/ /\ row[k].status = "none"
            /\ Inserted(k, "RESERVED")
            /\ Enter(c, "apply", k)
         \/ /\ row[k].status = "FAILED"
            /\ Enter(c, "reopenFact", k)
            /\ UNCHANGED row
    /\ UNCHANGED <<sub, mail, lost, evidence>>

ReopenFact(c) ==
    /\ At(c, "reopenFact")
    /\ row' = WithStatus(call[c].key, "RESERVED")
    /\ GoTo(c, "apply")
    /\ UNCHANGED <<sub, mail, lost, evidence>>

FinishFact(c) ==
    /\ At(c, "apply")
    /\ row' = WithStatus(call[c].key, "COMPLETED")
    /\ Leave(c)
    /\ UNCHANGED <<sub, mail, lost, evidence>>

FailFact(c) ==
    LET k == call[c].key IN
    /\ At(c, "apply")
    /\ row' = IF row[k].status \in {"RESERVED", "EXECUTING"}
              THEN WithStatus(k, "FAILED") ELSE row
    /\ Leave(c)
    /\ UNCHANGED <<sub, mail, lost, evidence>>

-----------------------------------------------------------------------------
\* The process dies, or a database call throws, between two steps.
Crash(c) ==
    /\ ~At(c, "idle")
    /\ Leave(c)
    /\ UNCHANGED <<row, sub, mail, lost, evidence>>

Ages(k) ==
    /\ row[k].status = "EXECUTING" /\ ~row[k].old
    /\ row' = [row EXCEPT ![k].old = TRUE]
    /\ UNCHANGED <<sub, mail, lost, evidence, call>>

EmailStep(c) ==
    \/ Claim(c) \/ Find(c) \/ Reopen(c) \/ Mark(c) \/ Send(c)
    \/ Fail(c) \/ RecordDoubt(c) \/ Complete(c) \/ AppendEvidence(c)

FactStep(c) == ReserveFact(c) \/ ReopenFact(c) \/ FinishFact(c) \/ FailFact(c)

Next ==
    \/ \E c \in Slots : EmailStep(c) \/ FactStep(c) \/ Crash(c)
    \/ \E k \in Direct : Commit(k)
    \/ \E k \in Checks : Check(k)
    \/ \E k \in Emails : Ages(k)
    \/ Subscribe \/ Lapse \/ Renew

Spec == Init /\ [][Next]_vars

-----------------------------------------------------------------------------
TypeOK ==
    /\ row \in [Keys -> Row]
    /\ sub \in [state : {"none", "paid", "unpaid"}, period : Nat]
    /\ mail \in [Emails -> Nat]
    /\ lost \in [Emails -> Nat]
    /\ evidence \subseteq Emails
    /\ call \in [Slots -> Call]

\* A message goes out a second time only after an answer was lost: requests that
\* repeat, overlap, die half way or find the attempt stale never send again
\* (governedExecution.test.ts:272, "does not resend a stale or ambiguous email
\* attempt").
ResentOnlyIfUnheard == \A k \in Emails : mail[k] <= 1 + lost[k]

\* The caller is told, and the evidence says, that a message was queued only if
\* it was: an abandoned or failed attempt is never recorded as COMPLETED.
CompletedIsSent ==
    /\ \A k \in Emails : row[k].status = "COMPLETED" => mail[k] > 0
    /\ \A k \in evidence : row[k].status = "COMPLETED"

Metered == Emails \cup Direct
Count(S) == Cardinality(InPeriod \cap S)
NotPast(S) == sub'.period = sub.period => Count(S)' <= Limit \/ Count(S)' <= Count(S)

\* "RESERVED and EXECUTING count so concurrent reservations cannot pass the cap"
\* (executionPolicy.ts:11), for the executions that ask for an allowance: in a
\* subscribed period no claim, reopening or commit adds one beyond the limit.
QuotaHolds == [][sub.state # "none" => NotPast(Metered)]_vars

\* What each email execution is to its caller (see SendOnce): sent counts the
\* messages whose acceptance was heard.
StateOf(r) ==
    IF r.status = "none" THEN "open"
    ELSE IF r.status = "EXECUTING" THEN "running"
    ELSE IF r.status = "AMBIGUOUS" THEN "doubtful"
    ELSE IF r.status = "COMPLETED" THEN "done"
    ELSE "failed"

Once == INSTANCE SendOnce WITH
    Keys  <- Emails,
    state <- [k \in Emails |-> StateOf(row[k])],
    sent  <- [k \in Emails |-> mail[k] - lost[k]]

\* An email execution is one send: started once or again after a failure, handed
\* over once, and done only when it was handed over.
SendsOnce == Once!Spec
=============================================================================

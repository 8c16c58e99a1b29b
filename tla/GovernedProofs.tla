--------------------------- MODULE GovernedProofs ---------------------------
(***************************************************************************)
(* Theorems about the governed executions, for every set of keys and       *)
(* request slots, every limit and every bound.                             *)
(***************************************************************************)
EXTENDS GovernedExecution, FiniteSetTheorems, TLAPS

-----------------------------------------------------------------------------
(* Types.                                                                   *)

LEMMA GoToType ==
    ASSUME TypeOK, NEW c \in Slots, NEW pc \in EmailPcs,
           call[c].pc \in EmailPcs, GoTo(c, pc)
    PROVE  /\ call' \in [Slots -> Call]
           /\ call'[c] = [pc |-> pc, key |-> call[c].key] /\ call[c].key \in Emails
           /\ \A d \in Slots : d # c => call'[d] = call[d]
<1>1. call \in [Slots -> Call] /\ call[c] \in Call
  BY DEF TypeOK
<1>2. call[c] \in [pc : EmailPcs, key : Emails]
  BY <1>1 DEF Call, Idle, EmailPcs, FactPcs
<1>3. [call[c] EXCEPT !.pc = pc] = [pc |-> pc, key |-> call[c].key]
  BY <1>2
<1>4. call' = [call EXCEPT ![c] = [pc |-> pc, key |-> call[c].key]]
  BY <1>1, <1>3 DEF GoTo
<1>5. [pc |-> pc, key |-> call[c].key] \in Call
  BY <1>2 DEF Call
<1>6. QED
  BY <1>1, <1>2, <1>4, <1>5

LEMMA EnterType ==
    ASSUME TypeOK, NEW c \in Slots, NEW pc, NEW k, Enter(c, pc, k),
           [pc |-> pc, key |-> k] \in Call
    PROVE  /\ call' \in [Slots -> Call]
           /\ call'[c] = [pc |-> pc, key |-> k]
           /\ \A d \in Slots : d # c => call'[d] = call[d]
BY DEF TypeOK, Enter

LEMMA LeaveType ==
    ASSUME TypeOK, NEW c \in Slots, Leave(c)
    PROVE  /\ call' \in [Slots -> Call]
           /\ call'[c] = Idle
           /\ \A d \in Slots : d # c => call'[d] = call[d]
BY DEF TypeOK, Leave, Call

LEMMA CallKey ==
    ASSUME TypeOK, NEW c \in Slots
    PROVE  /\ call[c].pc \in EmailPcs => call[c].key \in Emails
           /\ call[c].pc \in FactPcs => call[c].key \in Facts
           /\ call[c].pc \in EmailPcs \cup FactPcs \cup {"idle"}
BY DEF TypeOK, Call, Idle, EmailPcs, FactPcs

LEMMA RowUpdateTypes ==
    ASSUME TypeOK, NEW k \in Keys, NEW status \in Statuses
    PROVE  /\ WithStatus(k, status) \in [Keys -> Row]
           /\ WithStatus(k, status)[k].status = status
           /\ WithStatus(k, status)[k].born = row[k].born
           /\ \A j \in Keys : j # k => WithStatus(k, status)[j] = row[j]
<1>1. row \in [Keys -> Row] /\ row[k] \in Row
  BY DEF TypeOK
<1>4. [status |-> status, born |-> row[k].born, old |-> FALSE] \in Row
  BY <1>1 DEF Row
<1>5. QED
  BY <1>1, <1>4 DEF WithStatus

LEMMA InsertedType ==
    ASSUME TypeOK, NEW k \in Keys, NEW status \in Statuses, Inserted(k, status)
    PROVE  /\ row' \in [Keys -> Row]
           /\ row'[k].status = status /\ row'[k].born \in Births
           /\ \A j \in Keys : j # k => row'[j] = row[j]
<1>1. PICK b \in Births :
        row' = [row EXCEPT ![k] = [status |-> status, born |-> b, old |-> FALSE]]
  BY DEF Inserted
<1>2. row \in [Keys -> Row] /\ b \in Nat
  BY DEF TypeOK, Births
<1>3. [status |-> status, born |-> b, old |-> FALSE] \in Row
  BY <1>2 DEF Row
<1>4. QED
  BY <1>1, <1>2, <1>3

LEMMA TypeInit == Init => TypeOK
BY DEF Init, TypeOK, Row, NoRow, Statuses, Call, Idle

LEMMA TypeEmailStep ==
    ASSUME TypeOK, NEW c \in Slots, EmailStep(c)
    PROVE  TypeOK'
<1>1. /\ row \in [Keys -> Row] /\ call \in [Slots -> Call]
      /\ sub \in [state : {"none", "paid", "unpaid"}, period : Nat]
      /\ mail \in [Emails -> Nat] /\ lost \in [Emails -> Nat] /\ evidence \subseteq Emails
  BY DEF TypeOK
<1>2. Emails \subseteq Keys
  BY DEF Keys
<1>3. CASE Claim(c)
  <2>1. PICK k \in Emails :
           \/ row[k].status = "none" /\ Inserted(k, "EXECUTING") /\ Enter(c, "send", k)
           \/ UNCHANGED row /\ Enter(c, "find", k)
    BY <1>3 DEF Claim
  <2>2. [pc |-> "send", key |-> k] \in Call /\ [pc |-> "find", key |-> k] \in Call
    BY DEF Call, EmailPcs
  <2>3. call' \in [Slots -> Call]
    BY <2>1, <2>2, EnterType
  <2>4. row' \in [Keys -> Row]
    BY <1>1, <1>2, <2>1, InsertedType DEF Statuses
  <2>5. QED
    BY <1>1, <1>3, <2>3, <2>4 DEF Claim, TypeOK
<1>4. CASE Find(c)
  <2>1. At(c, "find") /\ UNCHANGED <<row, sub, mail, lost, evidence>>
    BY <1>4 DEF Find
  <2>2. Leave(c) \/ GoTo(c, "reopen") \/ GoTo(c, "mark")
    BY <1>4 DEF Find
  <2>3. call' \in [Slots -> Call]
    BY <2>1, <2>2, LeaveType, GoToType DEF At, EmailPcs
  <2>4. QED
    BY <1>1, <2>1, <2>3 DEF TypeOK
<1>5. CASE Reopen(c)
  <2>1. call[c].key \in Keys /\ call[c].pc = "reopen"
    BY <1>2, <1>5, CallKey DEF Reopen, At, EmailPcs
  <2>2. row' \in [Keys -> Row]
    BY <1>1, <1>5, <2>1, RowUpdateTypes DEF Reopen, Statuses
  <2>3. Leave(c) \/ GoTo(c, "send")
    BY <1>5 DEF Reopen
  <2>4. call' \in [Slots -> Call]
    BY <2>1, <2>3, LeaveType, GoToType DEF EmailPcs
  <2>5. QED
    BY <1>1, <1>5, <2>2, <2>4 DEF Reopen, TypeOK
<1>6. CASE Mark(c) \/ Fail(c) \/ RecordDoubt(c)
  <2>1. call[c].key \in Keys
    BY <1>2, <1>6, CallKey DEF Mark, Fail, RecordDoubt, At, EmailPcs
  <2>2. row' \in [Keys -> Row]
    BY <1>1, <1>6, <2>1, RowUpdateTypes DEF Mark, Fail, RecordDoubt, Statuses
  <2>3. call' \in [Slots -> Call]
    BY <1>6, LeaveType DEF Mark, Fail, RecordDoubt
  <2>4. QED
    BY <1>1, <1>6, <2>2, <2>3 DEF Mark, Fail, RecordDoubt, TypeOK
<1>7. CASE Send(c)
  <2>1. call[c].key \in Emails /\ call[c].pc = "send"
    BY <1>7, CallKey DEF Send, At, EmailPcs
  <2>2. mail' \in [Emails -> Nat] /\ lost' \in [Emails -> Nat]
    BY <1>1, <1>7, <2>1 DEF Send
  <2>3. GoTo(c, "complete") \/ GoTo(c, "fail") \/ GoTo(c, "doubt")
    BY <1>7 DEF Send
  <2>4. call' \in [Slots -> Call]
    BY <2>1, <2>3, GoToType DEF EmailPcs
  <2>5. QED
    BY <1>1, <1>7, <2>2, <2>4 DEF Send, TypeOK
<1>8. CASE Complete(c)
  <2>1. call[c].key \in Keys /\ call[c].pc = "complete"
    BY <1>2, <1>8, CallKey DEF Complete, At, EmailPcs
  <2>2. row' \in [Keys -> Row]
    BY <1>1, <1>8, <2>1, RowUpdateTypes DEF Complete, Statuses
  <2>3. Leave(c) \/ GoTo(c, "evidence")
    BY <1>8 DEF Complete
  <2>4. call' \in [Slots -> Call]
    BY <2>1, <2>3, LeaveType, GoToType DEF EmailPcs
  <2>5. QED
    BY <1>1, <1>8, <2>2, <2>4 DEF Complete, TypeOK
<1>9. CASE AppendEvidence(c)
  <2>1. call[c].key \in Emails
    BY <1>9, CallKey DEF AppendEvidence, At, EmailPcs
  <2>2. call' \in [Slots -> Call]
    BY <1>9, LeaveType DEF AppendEvidence
  <2>3. QED
    BY <1>1, <1>9, <2>1, <2>2 DEF AppendEvidence, TypeOK
<1>10. QED
  BY <1>3, <1>4, <1>5, <1>6, <1>7, <1>8, <1>9 DEF EmailStep

LEMMA TypeOtherStep ==
    ASSUME TypeOK,
           \/ \E c \in Slots : FactStep(c) \/ Crash(c)
           \/ \E k \in Direct : Commit(k)
           \/ \E k \in Checks : Check(k)
           \/ \E k \in Emails : Ages(k)
           \/ Subscribe \/ Lapse \/ Renew
    PROVE  TypeOK'
<1>1. /\ row \in [Keys -> Row] /\ call \in [Slots -> Call]
      /\ sub \in [state : {"none", "paid", "unpaid"}, period : Nat]
      /\ mail \in [Emails -> Nat] /\ lost \in [Emails -> Nat] /\ evidence \subseteq Emails
  BY DEF TypeOK
<1>2. Emails \subseteq Keys /\ Facts \subseteq Keys /\ Direct \subseteq Keys /\ Checks \subseteq Keys
  BY DEF Keys
<1>3. ASSUME NEW c \in Slots, ReserveFact(c) PROVE TypeOK'
  <2>1. PICK k \in Facts :
           \/ Inserted(k, "RESERVED") /\ Enter(c, "apply", k)
           \/ UNCHANGED row /\ Enter(c, "reopenFact", k)
    BY <1>3 DEF ReserveFact
  <2>2. [pc |-> "apply", key |-> k] \in Call /\ [pc |-> "reopenFact", key |-> k] \in Call
    BY DEF Call, FactPcs
  <2>3. call' \in [Slots -> Call]
    BY <2>1, <2>2, EnterType
  <2>4. row' \in [Keys -> Row]
    BY <1>1, <1>2, <2>1, InsertedType DEF Statuses
  <2>5. QED
    BY <1>1, <1>3, <2>3, <2>4 DEF ReserveFact, TypeOK
<1>4. ASSUME NEW c \in Slots, ReopenFact(c) PROVE TypeOK'
  <2>1. call[c] \in [pc : FactPcs, key : Facts] /\ GoTo(c, "apply")
    BY <1>1, <1>4 DEF ReopenFact, At, Call, Idle, EmailPcs, FactPcs
  <2>2. call' \in [Slots -> Call]
    BY <1>1, <2>1 DEF GoTo, Call, FactPcs
  <2>3. row' \in [Keys -> Row]
    BY <1>2, <1>4, <2>1, RowUpdateTypes DEF ReopenFact, Statuses
  <2>4. QED
    BY <1>1, <1>4, <2>2, <2>3 DEF ReopenFact, TypeOK
<1>5. ASSUME NEW c \in Slots, FinishFact(c) \/ FailFact(c) PROVE TypeOK'
  <2>1. call[c].key \in Keys
    BY <1>2, <1>5, CallKey DEF FinishFact, FailFact, At, FactPcs
  <2>2. row' \in [Keys -> Row]
    BY <1>1, <1>5, <2>1, RowUpdateTypes DEF FinishFact, FailFact, Statuses
  <2>3. call' \in [Slots -> Call]
    BY <1>5, LeaveType DEF FinishFact, FailFact
  <2>4. QED
    BY <1>1, <1>5, <2>2, <2>3 DEF FinishFact, FailFact, TypeOK
<1>6. ASSUME NEW c \in Slots, Crash(c) PROVE TypeOK'
  BY <1>1, <1>6, LeaveType DEF Crash, TypeOK
<1>7. ASSUME NEW k \in Direct \cup Checks, Commit(k) \/ Check(k) PROVE TypeOK'
  <2>1. row' \in [Keys -> Row]
    BY <1>2, <1>7, InsertedType DEF Commit, Check, Statuses
  <2>2. QED
    BY <1>1, <1>7, <2>1 DEF Commit, Check, TypeOK
<1>8. ASSUME NEW k \in Emails, Ages(k) PROVE TypeOK'
  <2>1. row' \in [Keys -> Row]
    BY <1>1, <1>2, <1>8 DEF Ages, Row
  <2>2. QED
    BY <1>1, <1>8, <2>1 DEF Ages, TypeOK
<1>9. CASE Subscribe \/ Lapse \/ Renew
  BY <1>1, <1>9 DEF Subscribe, Lapse, Renew, TypeOK
<1>10. QED
  BY <1>3, <1>4, <1>5, <1>6, <1>7, <1>8, <1>9 DEF FactStep

\* Every execution row, message count and request has a value the code gives it.
THEOREM TypeCorrect == Spec => []TypeOK
<1>1. Init => TypeOK
  BY TypeInit
<1>2. TypeOK /\ [Next]_vars => TypeOK'
  <2> SUFFICES ASSUME TypeOK, [Next]_vars PROVE TypeOK'
    OBVIOUS
  <2>1. CASE Next
    BY <2>1, TypeEmailStep, TypeOtherStep DEF Next
  <2>2. CASE UNCHANGED vars
    BY <2>2 DEF vars, TypeOK
  <2>3. QED
    BY <2>1, <2>2
<1>3. QED
  BY <1>1, <1>2, PTL DEF Spec

-----------------------------------------------------------------------------
(* The inductive invariant, for one email key.  A request holds a claim from *)
(* the moment the row became EXECUTING for it until it recorded the outcome: *)
(* nobody else holds one on that key, and how many messages were taken       *)
(* follows from the row and from where the holder is.                        *)

Holds(x, k) == x.pc \in {"send", "fail", "doubt", "complete"} /\ x.key = k
Told(x, k) == x.pc = "evidence" /\ x.key = k

KeyInv(k) ==
    /\ \A c, d \in Slots : Holds(call[c], k) /\ Holds(call[d], k) => c = d
    /\ \A c \in Slots : Holds(call[c], k) => row[k].status \in {"EXECUTING", "AMBIGUOUS"}
    /\ mail[k] = lost[k] \/ mail[k] = lost[k] + 1
    /\ row[k].status \in {"none", "FAILED"} => mail[k] = lost[k]
    /\ row[k].status = "COMPLETED" => mail[k] = lost[k] + 1
    /\ row[k].status # "RESERVED"
    /\ \A c \in Slots : Holds(call[c], k) =>
            mail[k] = IF call[c].pc = "complete" THEN lost[k] + 1 ELSE lost[k]
    /\ \A c \in Slots : Told(call[c], k) => row[k].status = "COMPLETED"
    /\ k \in evidence => row[k].status = "COMPLETED"

GovInv == \A k \in Emails : KeyInv(k)

\* A step that leaves the row and the messages of a key alone, and starts no
\* claim on it, keeps its invariant.
LEMMA KeyKept ==
    ASSUME NEW k \in Emails, KeyInv(k),
           row'[k].status = row[k].status, mail'[k] = mail[k], lost'[k] = lost[k],
           k \in evidence' => k \in evidence,
           \A d \in Slots : call'[d] = call[d] \/ (~Holds(call'[d], k) /\ ~Told(call'[d], k))
    PROVE  KeyInv(k)'
<1>1. \A d \in Slots : /\ Holds(call'[d], k) => Holds(call[d], k) /\ call'[d] = call[d]
                       /\ Told(call'[d], k) => Told(call[d], k)
  OBVIOUS
<1>2. /\ \A c, d \in Slots : Holds(call'[c], k) /\ Holds(call'[d], k) => c = d
      /\ \A c \in Slots : Holds(call'[c], k) => row'[k].status \in {"EXECUTING", "AMBIGUOUS"}
      /\ \A c \in Slots : Told(call'[c], k) => row'[k].status = "COMPLETED"
  BY <1>1 DEF KeyInv
<1>3. \A c \in Slots : Holds(call'[c], k) =>
            mail'[k] = IF call'[c].pc = "complete" THEN lost'[k] + 1 ELSE lost'[k]
  BY <1>1 DEF KeyInv
<1>4. QED
  BY <1>2, <1>3 DEF KeyInv

\* A claim is recorded, the key's holder leaving, without a message being taken.
LEMMA HolderLeaves ==
    ASSUME TypeOK, NEW k \in Emails, KeyInv(k), NEW c \in Slots,
           NEW status \in {"FAILED", "AMBIGUOUS", "COMPLETED"},
           row'[k].status = status,
           call[c].pc \in {"fail", "doubt", "complete"}, call[c].key = k,
           call[c].pc = "fail" => status \in {"FAILED", "AMBIGUOUS"},
           call[c].pc = "doubt" => status = "AMBIGUOUS",
           call[c].pc = "complete" => status = "COMPLETED",
           UNCHANGED <<mail, lost, evidence>>,
           ~Holds(call'[c], k), Told(call'[c], k) => status = "COMPLETED",
           \A d \in Slots : d # c => call'[d] = call[d]
    PROVE  KeyInv(k)'
<1>1. Holds(call[c], k) /\ row[k].status # "COMPLETED"
  BY DEF KeyInv, Holds
<1>2. \A d \in Slots : ~Holds(call'[d], k)
  BY <1>1 DEF KeyInv
<1>3. \A d \in Slots : Told(call'[d], k) => row'[k].status = "COMPLETED"
  BY <1>1 DEF KeyInv
<1>4. /\ mail[k] = lost[k] \/ mail[k] = lost[k] + 1
      /\ status = "FAILED" => mail[k] = lost[k]
      /\ status = "COMPLETED" => mail[k] = lost[k] + 1
      /\ k \notin evidence
  BY <1>1 DEF KeyInv
<1>5. QED
  BY <1>2, <1>3, <1>4 DEF KeyInv

\* A row nobody holds a claim on, none of whose messages was heard, is claimed.
LEMMA HolderEnters ==
    ASSUME TypeOK, NEW k \in Emails, KeyInv(k), NEW c \in Slots,
           row[k].status \in {"none", "FAILED"}, row'[k].status = "EXECUTING",
           UNCHANGED <<mail, lost, evidence>>,
           call'[c] = [pc |-> "send", key |-> k],
           \A d \in Slots : d # c => call'[d] = call[d]
    PROVE  KeyInv(k)'
<1>1. \A d \in Slots : ~Holds(call[d], k) /\ ~Told(call[d], k)
  BY DEF KeyInv
<1>2. \A d \in Slots : d # c => ~Holds(call'[d], k)
  BY <1>1
<1>3. \A d \in Slots : ~Told(call'[d], k)
  BY <1>1 DEF Told
<1>4. mail[k] = lost[k] /\ k \notin evidence
  BY DEF KeyInv
<1>5. \A d \in Slots : Holds(call'[d], k) => d = c
  BY <1>2
<1>6. QED
  BY <1>3, <1>4, <1>5 DEF KeyInv

LEMMA GovInit == Init => GovInv
BY DEF Init, GovInv, KeyInv, Holds, Told, Idle, NoRow, Keys

LEMMA EmailStepKeeps ==
    ASSUME TypeOK, GovInv, NEW c \in Slots, EmailStep(c), NEW j \in Emails
    PROVE  KeyInv(j)'
<1>1. KeyInv(j) /\ Emails \subseteq Keys
  BY DEF GovInv, Keys
<1>2. ASSUME Leave(c), UNCHANGED <<row, mail, lost, evidence>>
      PROVE  KeyInv(j)'
  BY <1>1, <1>2, KeyKept, LeaveType DEF Holds, Told, Idle
<1>3. CASE Claim(c)
  <2>1. PICK k \in Emails :
           \/ row[k].status = "none" /\ Inserted(k, "EXECUTING") /\ Enter(c, "send", k)
           \/ UNCHANGED row /\ Enter(c, "find", k)
    BY <1>3 DEF Claim
  <2>2. UNCHANGED <<mail, lost, evidence>>
    BY <1>3 DEF Claim
  <2>3. CASE row[k].status = "none" /\ Inserted(k, "EXECUTING") /\ Enter(c, "send", k)
    <3>1. /\ call'[c] = [pc |-> "send", key |-> k]
          /\ \A d \in Slots : d # c => call'[d] = call[d]
      BY <2>3, EnterType DEF Call, EmailPcs
    <3>2. /\ row'[k].status = "EXECUTING"
          /\ \A i \in Keys : i # k => row'[i] = row[i]
      BY <1>1, <2>3, InsertedType DEF Statuses
    <3>3. CASE j = k
      BY <1>1, <2>2, <2>3, <3>1, <3>2, <3>3, HolderEnters
    <3>4. CASE j # k
      <4>1. ~Holds(call'[c], j) /\ ~Told(call'[c], j)
        BY <3>1, <3>4 DEF Holds, Told
      <4>2. row'[j] = row[j]
        BY <1>1, <3>2, <3>4
      <4>3. QED
        BY <1>1, <2>2, <3>1, <4>1, <4>2, KeyKept
    <3>5. QED
      BY <3>3, <3>4
  <2>4. CASE UNCHANGED row /\ Enter(c, "find", k)
    <3>1. /\ call'[c] = [pc |-> "find", key |-> k]
          /\ \A d \in Slots : d # c => call'[d] = call[d]
      BY <2>4, EnterType DEF Call, EmailPcs
    <3>2. ~Holds(call'[c], j) /\ ~Told(call'[c], j)
      BY <3>1 DEF Holds, Told
    <3>3. QED
      BY <1>1, <2>2, <2>4, <3>1, <3>2, KeyKept
  <2>5. QED
    BY <2>1, <2>3, <2>4
<1>4. CASE Find(c)
  <2>1. /\ call[c].pc = "find" /\ UNCHANGED <<row, mail, lost, evidence>>
        /\ Leave(c) \/ GoTo(c, "reopen") \/ GoTo(c, "mark")
    BY <1>4 DEF Find, At
  <2>2. ASSUME NEW pc \in {"reopen", "mark"}, GoTo(c, pc) PROVE KeyInv(j)'
    <3>1. /\ call'[c].pc = pc
          /\ \A d \in Slots : d # c => call'[d] = call[d]
      <4>1. pc \in EmailPcs /\ call[c].pc \in EmailPcs
        BY <2>1 DEF EmailPcs
      <4>2. /\ call'[c] = [pc |-> pc, key |-> call[c].key]
            /\ \A d \in Slots : d # c => call'[d] = call[d]
        BY <2>2, <4>1, GoToType
      <4>3. QED
        BY <4>2
    <3>2. ~Holds(call'[c], j) /\ ~Told(call'[c], j)
      BY <3>1 DEF Holds, Told
    <3>3. QED
      BY <1>1, <2>1, <3>1, <3>2, KeyKept
  <2>3. QED
    BY <1>2, <2>1, <2>2
<1>5. CASE Reopen(c)
  <2> DEFINE k == call[c].key
  <2>1. call[c].pc = "reopen" /\ k \in Emails /\ UNCHANGED <<mail, lost, evidence>>
    BY <1>5, CallKey DEF Reopen, At, EmailPcs
  <2>2. \/ row[k].status = "FAILED" /\ row' = WithStatus(k, "EXECUTING") /\ GoTo(c, "send")
        \/ UNCHANGED row /\ Leave(c)
    BY <1>5 DEF Reopen
  <2>3. CASE row[k].status = "FAILED" /\ row' = WithStatus(k, "EXECUTING") /\ GoTo(c, "send")
    <3>1. /\ call'[c] = [pc |-> "send", key |-> k]
          /\ \A d \in Slots : d # c => call'[d] = call[d]
      BY <2>1, <2>3, GoToType DEF EmailPcs
    <3>2. /\ row'[k].status = "EXECUTING"
          /\ \A i \in Keys : i # k => row'[i] = row[i]
      BY <1>1, <2>1, <2>3, RowUpdateTypes DEF Statuses
    <3>3. CASE j = k
      BY <1>1, <2>1, <2>3, <3>1, <3>2, <3>3, HolderEnters
    <3>4. CASE j # k
      <4>1. ~Holds(call'[c], j) /\ ~Told(call'[c], j)
        BY <3>1, <3>4 DEF Holds, Told
      <4>2. row'[j] = row[j]
        BY <1>1, <3>2, <3>4
      <4>3. QED
        BY <1>1, <2>1, <3>1, <4>1, <4>2, KeyKept
    <3>5. QED
      BY <3>3, <3>4
  <2>4. CASE UNCHANGED row /\ Leave(c)
    BY <1>2, <2>1, <2>4
  <2>5. QED
    BY <2>2, <2>3, <2>4
<1>6. CASE Mark(c)
  <2> DEFINE k == call[c].key
  <2>1. /\ call[c].pc = "mark" /\ k \in Emails /\ UNCHANGED <<mail, lost, evidence>>
        /\ Leave(c)
    BY <1>6, CallKey DEF Mark, At, EmailPcs
  <2>2. CASE row[k].status = "EXECUTING"
    <3>1. /\ row'[k].status = "AMBIGUOUS"
          /\ \A i \in Keys : i # k => row'[i] = row[i]
      BY <1>1, <1>6, <2>1, <2>2, RowUpdateTypes DEF Mark, Statuses
    <3>2. /\ call'[c] = Idle
          /\ \A d \in Slots : d # c => call'[d] = call[d]
      BY <2>1, LeaveType
    <3>3. \A d \in Slots : ~Holds(call'[c], j) /\ ~Told(call'[c], j)
      BY <3>2 DEF Holds, Told, Idle
    <3>4. CASE j = k
      <4>1. \A d \in Slots : /\ Holds(call'[d], j) => Holds(call[d], j) /\ call'[d] = call[d]
                             /\ ~Told(call'[d], j)
        BY <1>1, <2>2, <3>2, <3>3, <3>4 DEF KeyInv
      <4>2. \A d \in Slots : Holds(call'[d], j) =>
              mail'[j] = IF call'[d].pc = "complete" THEN lost'[j] + 1 ELSE lost'[j]
        BY <1>1, <2>1, <4>1 DEF KeyInv
      <4>3. \A d, f \in Slots : Holds(call'[d], j) /\ Holds(call'[f], j) => d = f
        BY <1>1, <4>1 DEF KeyInv
      <4>4. j \notin evidence' /\ (mail'[j] = lost'[j] \/ mail'[j] = lost'[j] + 1)
        BY <1>1, <2>1, <2>2, <3>4 DEF KeyInv
      <4>5. QED
        BY <3>1, <3>4, <4>1, <4>2, <4>3, <4>4 DEF KeyInv
    <3>5. CASE j # k
      <4>1. row'[j] = row[j]
        BY <1>1, <3>1, <3>5
      <4>2. QED
        BY <1>1, <2>1, <3>2, <3>3, <4>1, KeyKept
    <3>6. QED
      BY <3>4, <3>5
  <2>3. CASE row[k].status # "EXECUTING"
    BY <1>2, <1>6, <2>1, <2>3 DEF Mark
  <2>4. QED
    BY <2>2, <2>3
<1>7. CASE Send(c)
  <2> DEFINE k == call[c].key
  <2>1. /\ call[c].pc = "send" /\ k \in Emails /\ UNCHANGED <<row, evidence>>
    BY <1>7, CallKey DEF Send, At, EmailPcs
  <2>2. mail \in [Emails -> Nat] /\ lost \in [Emails -> Nat]
    BY DEF TypeOK
  <2>3. PICK pc \in {"complete", "fail", "doubt"} :
          /\ GoTo(c, pc)
          /\ \A i \in Emails : i # k => mail'[i] = mail[i] /\ lost'[i] = lost[i]
          /\ mail'[k] - mail[k] = lost'[k] - lost[k] + (IF pc = "complete" THEN 1 ELSE 0)
          /\ mail'[k] \in Nat /\ lost'[k] \in Nat
    BY <1>7, <2>1, <2>2 DEF Send
  <2>4. /\ call'[c] = [pc |-> pc, key |-> k]
        /\ \A d \in Slots : d # c => call'[d] = call[d]
    BY <2>1, <2>3, GoToType DEF EmailPcs
  <2>5. CASE j = k
    <3>1. Holds(call[c], j) /\ mail[j] = lost[j]
      BY <1>1, <2>1, <2>5 DEF KeyInv, Holds
    <3>2. \A d \in Slots : d # c => ~Holds(call'[d], j)
      BY <1>1, <2>4, <3>1 DEF KeyInv
    <3>3. \A d \in Slots : ~Told(call'[d], j)
      BY <1>1, <2>4, <3>1 DEF KeyInv, Told
    <3>4. row'[j].status \in {"EXECUTING", "AMBIGUOUS"} /\ j \notin evidence'
      BY <1>1, <2>1, <3>1 DEF KeyInv
    <3>5. mail'[j] = IF pc = "complete" THEN lost'[j] + 1 ELSE lost'[j]
      BY <2>2, <2>3, <2>5, <3>1
    <3>6. \A d \in Slots : Holds(call'[d], j) => d = c
      BY <3>2
    <3>7. \A d \in Slots : Holds(call'[d], j) =>
            mail'[j] = IF call'[d].pc = "complete" THEN lost'[j] + 1 ELSE lost'[j]
      BY <2>4, <3>5, <3>6
    <3>8. QED
      BY <3>3, <3>4, <3>5, <3>6, <3>7 DEF KeyInv
  <2>6. CASE j # k
    <3>1. ~Holds(call'[c], j) /\ ~Told(call'[c], j)
      BY <2>4, <2>6 DEF Holds, Told
    <3>2. QED
      BY <1>1, <2>1, <2>3, <2>4, <2>6, <3>1, KeyKept
  <2>7. QED
    BY <2>5, <2>6
<1>8. CASE Fail(c) \/ RecordDoubt(c) \/ Complete(c)
  <2> DEFINE k == call[c].key
  <2>1. /\ call[c].pc \in {"fail", "doubt", "complete"} /\ k \in Emails
        /\ UNCHANGED <<mail, lost, evidence>>
    BY <1>8, CallKey DEF Fail, RecordDoubt, Complete, At, EmailPcs
  <2>2. row[k].status \in {"EXECUTING", "AMBIGUOUS"}
    BY <2>1 DEF GovInv, KeyInv, Holds
  <2>3. PICK status \in {"FAILED", "AMBIGUOUS", "COMPLETED"} :
          /\ row'[k].status = status
          /\ \A i \in Keys : i # k => row'[i] = row[i]
          /\ call[c].pc = "fail" => status \in {"FAILED", "AMBIGUOUS"}
          /\ call[c].pc = "doubt" => status = "AMBIGUOUS"
          /\ call[c].pc = "complete" => status = "COMPLETED"
    <3>1. CASE Fail(c)
      BY <1>1, <2>1, <2>2, <3>1, RowUpdateTypes DEF Fail, At, Statuses
    <3>2. CASE RecordDoubt(c)
      BY <1>1, <2>1, <2>2, <3>2, RowUpdateTypes DEF RecordDoubt, At, Statuses
    <3>3. CASE Complete(c)
      BY <1>1, <2>1, <2>2, <3>3, RowUpdateTypes DEF Complete, At, Statuses
    <3>4. QED
      BY <1>8, <3>1, <3>2, <3>3
  <2>4. /\ \A d \in Slots : d # c => call'[d] = call[d]
        /\ ~Holds(call'[c], j)
        /\ Told(call'[c], j) => call[c].pc = "complete" /\ j = k
    <3>1. CASE Leave(c)
      BY <3>1, LeaveType DEF Holds, Told, Idle
    <3>2. CASE call[c].pc = "complete" /\ GoTo(c, "evidence")
      <4>1. /\ call'[c] = [pc |-> "evidence", key |-> k]
            /\ \A d \in Slots : d # c => call'[d] = call[d]
        BY <3>2, GoToType DEF EmailPcs
      <4>2. QED
        BY <3>2, <4>1 DEF Holds, Told
    <3>3. Leave(c) \/ (call[c].pc = "complete" /\ GoTo(c, "evidence"))
      BY <1>8 DEF Fail, RecordDoubt, Complete, At
    <3>4. QED
      BY <3>1, <3>2, <3>3
  <2>5. CASE j = k
    BY <1>1, <2>1, <2>3, <2>4, <2>5, HolderLeaves
  <2>6. CASE j # k
    <3>1. row'[j] = row[j] /\ ~Told(call'[c], j)
      BY <1>1, <2>3, <2>4, <2>6
    <3>2. QED
      BY <1>1, <2>1, <2>4, <3>1, KeyKept
  <2>7. QED
    BY <2>5, <2>6
<1>9. CASE AppendEvidence(c)
  <2>1. /\ call[c].pc = "evidence" /\ Leave(c) /\ UNCHANGED <<row, mail, lost>>
        /\ evidence' = evidence \cup {call[c].key}
    BY <1>9 DEF AppendEvidence, At
  <2>2. call'[c] = Idle /\ \A d \in Slots : d # c => call'[d] = call[d]
    BY <2>1, LeaveType
  <2>3. ~Holds(call'[c], j) /\ ~Told(call'[c], j)
    BY <2>2 DEF Holds, Told, Idle
  <2>4. CASE j = call[c].key
    <3>1. row[j].status = "COMPLETED"
      BY <1>1, <2>1, <2>4 DEF KeyInv, Told
    <3>2. \A d \in Slots : ~Holds(call'[d], j)
      BY <1>1, <2>2, <2>3, <3>1 DEF KeyInv
    <3>3. QED
      BY <1>1, <2>1, <3>1, <3>2 DEF KeyInv
  <2>5. CASE j # call[c].key
    BY <1>1, <2>1, <2>2, <2>3, <2>5, KeyKept
  <2>6. QED
    BY <2>4, <2>5
<1>10. QED
  BY <1>3, <1>4, <1>5, <1>6, <1>7, <1>8, <1>9 DEF EmailStep

\* Nothing but the email steps touches the rows and the claims of emails.
LEMMA OtherStepFrame ==
    ASSUME TypeOK,
           \/ \E c \in Slots : FactStep(c) \/ Crash(c)
           \/ \E k \in Direct : Commit(k)
           \/ \E k \in Checks : Check(k)
           \/ \E k \in Emails : Ages(k)
           \/ Subscribe \/ Lapse \/ Renew
    PROVE  /\ UNCHANGED <<mail, lost, evidence>>
           /\ \A j \in Emails : row'[j].status = row[j].status /\ row'[j].born = row[j].born
           /\ \A j \in Emails, d \in Slots :
                call'[d] = call[d] \/ (~Holds(call'[d], j) /\ ~Told(call'[d], j))
<1>1. Emails \subseteq Keys /\ Facts \subseteq Keys /\ Direct \subseteq Keys /\ Checks \subseteq Keys
  BY DEF Keys
<1>2. \A j \in Emails : j \notin Facts /\ j \notin Direct /\ j \notin Checks
  BY GovernedAssumption
<1>3. ASSUME NEW c \in Slots, ReserveFact(c)
      PROVE  /\ UNCHANGED <<mail, lost, evidence>>
             /\ \A j \in Emails : row'[j] = row[j]
             /\ \A d \in Slots : d # c => call'[d] = call[d]
             /\ call'[c].pc \in FactPcs
  <2>1. PICK k \in Facts :
           \/ Inserted(k, "RESERVED") /\ Enter(c, "apply", k)
           \/ UNCHANGED row /\ Enter(c, "reopenFact", k)
    BY <1>3 DEF ReserveFact
  <2>2. [pc |-> "apply", key |-> k] \in Call /\ [pc |-> "reopenFact", key |-> k] \in Call
    BY DEF Call, FactPcs
  <2>3. /\ \A d \in Slots : d # c => call'[d] = call[d]
        /\ call'[c].pc \in FactPcs
    BY <2>1, <2>2, EnterType DEF FactPcs
  <2>4. \A j \in Emails : row'[j] = row[j]
    BY <1>1, <1>2, <2>1, InsertedType DEF Statuses
  <2>5. QED
    BY <1>3, <2>3, <2>4 DEF ReserveFact
<1>4. ASSUME NEW c \in Slots, ReopenFact(c)
      PROVE  /\ UNCHANGED <<mail, lost, evidence>>
             /\ \A j \in Emails : row'[j] = row[j]
             /\ \A d \in Slots : d # c => call'[d] = call[d]
             /\ call'[c].pc \in FactPcs
  <2>1. call \in [Slots -> Call] /\ call[c] \in [pc : FactPcs, key : Facts]
    BY <1>4 DEF TypeOK, ReopenFact, At, Call, Idle, EmailPcs, FactPcs
  <2>2. /\ \A d \in Slots : d # c => call'[d] = call[d]
        /\ call'[c].pc \in FactPcs
    <3>1. call' = [call EXCEPT ![c] = [call[c] EXCEPT !.pc = "apply"]]
      BY <1>4, <2>1 DEF ReopenFact, GoTo
    <3>2. [call[c] EXCEPT !.pc = "apply"].pc = "apply"
      BY <2>1
    <3>3. call'[c].pc = "apply"
      BY <2>1, <3>1, <3>2
    <3>4. \A d \in Slots : d # c => call'[d] = call[d]
      BY <2>1, <3>1
    <3>5. QED
      BY <3>3, <3>4 DEF FactPcs
  <2>3. \A j \in Emails : row'[j] = row[j]
    <3>1. /\ call[c].key \in Facts /\ call[c].key \in Keys
          /\ row' = WithStatus(call[c].key, "RESERVED")
      BY <1>1, <1>4, <2>1 DEF ReopenFact
    <3>2. \A i \in Keys : i # call[c].key => row'[i] = row[i]
      BY <3>1, RowUpdateTypes DEF Statuses
    <3>3. QED
      BY <1>1, <1>2, <3>1, <3>2
  <2>4. QED
    BY <1>4, <2>2, <2>3 DEF ReopenFact
<1>5. ASSUME NEW c \in Slots, FinishFact(c) \/ FailFact(c) \/ Crash(c)
      PROVE  /\ UNCHANGED <<mail, lost, evidence>>
             /\ \A j \in Emails : row'[j] = row[j]
             /\ \A d \in Slots : d # c => call'[d] = call[d]
             /\ call'[c] = Idle
  <2>1. Leave(c) /\ UNCHANGED <<mail, lost, evidence>>
    BY <1>5 DEF FinishFact, FailFact, Crash
  <2>2. \/ UNCHANGED row
        \/ \E k \in Facts, status \in Statuses : row' = WithStatus(k, status)
    BY <1>5, CallKey DEF FinishFact, FailFact, Crash, At, FactPcs, Statuses
  <2>3. \A j \in Emails : row'[j] = row[j]
    BY <1>1, <1>2, <2>2, RowUpdateTypes
  <2>4. QED
    BY <2>1, <2>3, LeaveType
<1>6. \A x : /\ x.pc \in FactPcs => \A j \in Emails : ~Holds(x, j) /\ ~Told(x, j)
             /\ \A j \in Emails : ~Holds(Idle, j) /\ ~Told(Idle, j)
  BY DEF Holds, Told, FactPcs, Idle
<1>7. CASE \E c \in Slots : FactStep(c) \/ Crash(c)
  BY <1>3, <1>4, <1>5, <1>6, <1>7 DEF FactStep
<1>8. ASSUME NEW k \in Direct \cup Checks, Commit(k) \/ Check(k)
      PROVE  UNCHANGED <<mail, lost, evidence, call>> /\ \A j \in Emails : row'[j] = row[j]
  BY <1>1, <1>2, <1>8, InsertedType DEF Commit, Check, Statuses
<1>9. ASSUME NEW k \in Emails, Ages(k)
      PROVE  /\ UNCHANGED <<mail, lost, evidence, call>>
             /\ \A j \in Emails : row'[j].status = row[j].status /\ row'[j].born = row[j].born
  BY <1>1, <1>9 DEF Ages, TypeOK, Row
<1>10. CASE Subscribe \/ Lapse \/ Renew
  BY <1>10 DEF Subscribe, Lapse, Renew
<1>11. QED
  BY <1>7, <1>8, <1>9, <1>10

LEMMA GovStep ==
    ASSUME TypeOK, GovInv, [Next]_vars
    PROVE  GovInv'
<1> SUFFICES ASSUME NEW j \in Emails PROVE KeyInv(j)'
  BY DEF GovInv
<1>1. KeyInv(j)
  BY DEF GovInv
<1>2. CASE \E c \in Slots : EmailStep(c)
  BY <1>2, EmailStepKeeps
<1>3. CASE \/ \E c \in Slots : FactStep(c) \/ Crash(c)
           \/ \E k \in Direct : Commit(k)
           \/ \E k \in Checks : Check(k)
           \/ \E k \in Emails : Ages(k)
           \/ Subscribe \/ Lapse \/ Renew
  BY <1>1, <1>3, OtherStepFrame, KeyKept
<1>4. CASE UNCHANGED vars
  BY <1>1, <1>4, KeyKept DEF vars
<1>5. QED
  BY <1>2, <1>3, <1>4 DEF Next

LEMMA GovAlways == Spec => [](TypeOK /\ GovInv)
<1>1. Init => GovInv
  BY GovInit
<1>2. TypeOK /\ GovInv /\ [Next]_vars => GovInv'
  BY GovStep
<1>3. QED
  BY <1>1, <1>2, TypeCorrect, PTL DEF Spec

\* However requests repeat, overlap, crash and give up on each other, a message
\* leaves again only after an answer was lost.
THEOREM NotResent == Spec => []ResentOnlyIfUnheard
<1>1. TypeOK /\ GovInv => ResentOnlyIfUnheard
  BY DEF TypeOK, GovInv, KeyInv, ResentOnlyIfUnheard
<1>2. QED
  BY <1>1, GovAlways, PTL

\* An execution recorded as COMPLETED, and evidence that a message was queued,
\* are always backed by a message that was taken.
THEOREM CompletedCorrect == Spec => []CompletedIsSent
<1>1. TypeOK /\ GovInv => CompletedIsSent
  BY DEF TypeOK, GovInv, KeyInv, CompletedIsSent
<1>2. QED
  BY <1>1, GovAlways, PTL

-----------------------------------------------------------------------------
(* An email execution implements SendOnce.                                  *)

Progress == [k \in Emails |-> StateOf(row[k])]
Heard == [k \in Emails |-> mail[k] - lost[k]]

\* A step on one key changes nothing of the others.
LEMMA OneKey ==
    ASSUME NEW k \in Emails,
           \A j \in Emails : j # k =>
               row'[j].status = row[j].status /\ mail'[j] = mail[j] /\ lost'[j] = lost[j]
    PROVE  /\ Progress' = [Progress EXCEPT ![k] = StateOf(row'[k])]
           /\ Heard' = [Heard EXCEPT ![k] = mail'[k] - lost'[k]]
<1>1. \A j \in Emails : j # k => StateOf(row[j])' = StateOf(row[j])
  BY DEF StateOf
<1>2. Progress' = [Progress EXCEPT ![k] = StateOf(row'[k])]
  BY <1>1 DEF Progress
<1>3. Heard' = [Heard EXCEPT ![k] = mail'[k] - lost'[k]]
  BY DEF Heard
<1>4. QED
  BY <1>2, <1>3

LEMMA NoKey ==
    ASSUME \A j \in Emails :
               row'[j].status = row[j].status /\ mail'[j] - lost'[j] = mail[j] - lost[j]
    PROVE  UNCHANGED Once!vars
BY DEF StateOf, Once!vars

\* What a step on one key has to be, for SendOnce.
LEMMA OnceStep ==
    ASSUME TypeOK, NEW k \in Emails,
           \A j \in Emails : j # k =>
               row'[j].status = row[j].status /\ mail'[j] = mail[j] /\ lost'[j] = lost[j],
           mail'[k] \in Nat, lost'[k] \in Nat,
           LET before == row[k].status
               after == row'[k].status
               quiet == mail'[k] = mail[k] /\ lost'[k] = lost[k]
           IN  \/ /\ before \in {"none", "FAILED"} /\ after = "EXECUTING"
                  /\ mail[k] = lost[k] /\ quiet
               \/ /\ before \in {"EXECUTING", "AMBIGUOUS"} /\ after = before
                  /\ mail[k] = lost[k] /\ mail'[k] = lost'[k] + 1
               \/ before = "EXECUTING" /\ after = "AMBIGUOUS" /\ quiet
               \/ /\ before \in {"EXECUTING", "AMBIGUOUS"} /\ after = "COMPLETED"
                  /\ mail[k] = lost[k] + 1 /\ quiet
               \/ before = "EXECUTING" /\ after = "FAILED" /\ mail[k] = lost[k] /\ quiet
    PROVE  Once!Next
<1> DEFINE before == row[k].status
           after == row'[k].status
           quiet == mail'[k] = mail[k] /\ lost'[k] = lost[k]
<1>1. /\ Progress' = [Progress EXCEPT ![k] = StateOf(row'[k])]
      /\ Heard' = [Heard EXCEPT ![k] = mail'[k] - lost'[k]]
  BY OneKey
<1>2. Progress[k] = StateOf(row[k]) /\ Heard[k] = mail[k] - lost[k]
  BY DEF Progress, Heard
<1>3. mail[k] \in Nat /\ lost[k] \in Nat
  BY DEF TypeOK
<1>4. quiet => Heard' = Heard
  <2>1. [Heard EXCEPT ![k] = Heard[k]] = Heard
    BY DEF Heard
  <2>2. QED
    BY <1>1, <1>2, <2>1
<1>5. CASE before \in {"none", "FAILED"} /\ after = "EXECUTING" /\ mail[k] = lost[k] /\ quiet
  <2>1. /\ Progress[k] \in {"open", "failed"} /\ Heard[k] = 0
        /\ Progress' = [Progress EXCEPT ![k] = "running"] /\ Heard' = Heard
    BY <1>1, <1>2, <1>3, <1>4, <1>5 DEF StateOf
  <2>2. Once!Start(k)
    BY <2>1 DEF Once!Start, Progress, Heard
  <2>3. QED
    BY <2>2 DEF Once!Next
<1>6. CASE /\ before \in {"EXECUTING", "AMBIGUOUS"} /\ after = before
           /\ mail[k] = lost[k] /\ mail'[k] = lost'[k] + 1
  <2>1. /\ Progress[k] \in {"running", "doubtful"} /\ Heard[k] = 0
        /\ Heard' = [Heard EXCEPT ![k] = 1]
        /\ Progress' = [Progress EXCEPT ![k] = Progress[k]]
    <3>1. mail[k] - lost[k] = 0 /\ mail'[k] - lost'[k] = 1
      BY <1>3, <1>6
    <3>2. /\ StateOf(row[k]) \in {"running", "doubtful"}
          /\ StateOf(row'[k]) = StateOf(row[k])
      BY <1>6 DEF StateOf
    <3>3. QED
      BY <1>1, <1>2, <3>1, <3>2
  <2>2. Progress' = Progress
    BY <2>1 DEF Progress
  <2>3. Once!HandOver(k)
    BY <2>1, <2>2 DEF Once!HandOver, Progress, Heard
  <2>4. QED
    BY <2>3 DEF Once!Next
<1>7. CASE before = "EXECUTING" /\ after = "AMBIGUOUS" /\ quiet
  <2>1. /\ Progress[k] = "running" /\ Heard' = Heard
        /\ Progress' = [Progress EXCEPT ![k] = "doubtful"]
    BY <1>1, <1>2, <1>4, <1>7 DEF StateOf
  <2>2. Once!Doubt(k)
    BY <2>1 DEF Once!Doubt, Progress, Heard
  <2>3. QED
    BY <2>2 DEF Once!Next
<1>8. CASE /\ before \in {"EXECUTING", "AMBIGUOUS"} /\ after = "COMPLETED"
           /\ mail[k] = lost[k] + 1 /\ quiet
  <2>1. /\ Progress[k] \in {"running", "doubtful"} /\ Heard[k] = 1 /\ Heard' = Heard
        /\ Progress' = [Progress EXCEPT ![k] = "done"]
    BY <1>1, <1>2, <1>3, <1>4, <1>8 DEF StateOf
  <2>2. Once!Finish(k)
    BY <2>1 DEF Once!Finish, Progress, Heard
  <2>3. QED
    BY <2>2 DEF Once!Next
<1>9. CASE before = "EXECUTING" /\ after = "FAILED" /\ mail[k] = lost[k] /\ quiet
  <2>1. /\ Progress[k] = "running" /\ Heard[k] = 0 /\ Heard' = Heard
        /\ Progress' = [Progress EXCEPT ![k] = "failed"]
    BY <1>1, <1>2, <1>3, <1>4, <1>9 DEF StateOf
  <2>2. Once!Fail(k)
    BY <2>1 DEF Once!Fail, Progress, Heard
  <2>3. QED
    BY <2>2 DEF Once!Next
<1>10. QED
  BY <1>5, <1>6, <1>7, <1>8, <1>9

LEMMA EmailStepOnce ==
    ASSUME TypeOK, TypeOK', GovInv, NEW c \in Slots, EmailStep(c)
    PROVE  [Once!Next]_(Once!vars)
<1>1. Emails \subseteq Keys
  BY DEF Keys
<1>2. /\ mail \in [Emails -> Nat] /\ lost \in [Emails -> Nat]
      /\ mail' \in [Emails -> Nat] /\ lost' \in [Emails -> Nat]
  BY DEF TypeOK
<1>3. ASSUME UNCHANGED <<row, mail, lost>> PROVE UNCHANGED Once!vars
  BY <1>3, NoKey
<1>4. CASE Claim(c)
  <2>1. PICK k \in Emails :
           \/ row[k].status = "none" /\ Inserted(k, "EXECUTING")
           \/ UNCHANGED row
    BY <1>4 DEF Claim
  <2>2. UNCHANGED <<mail, lost>>
    BY <1>4 DEF Claim
  <2>3. CASE row[k].status = "none" /\ Inserted(k, "EXECUTING")
    <3>1. /\ row'[k].status = "EXECUTING"
          /\ \A i \in Emails : i # k => row'[i].status = row[i].status
      BY <1>1, <2>3, InsertedType DEF Statuses
    <3>2. mail[k] = lost[k]
      BY <2>3 DEF GovInv, KeyInv
    <3>3. QED
      BY <1>2, <2>2, <2>3, <3>1, <3>2, OnceStep
  <2>4. QED
    BY <1>3, <2>1, <2>2, <2>3
<1>5. CASE Find(c) \/ AppendEvidence(c)
  BY <1>3, <1>5 DEF Find, AppendEvidence
<1>6. CASE Reopen(c)
  <2> DEFINE k == call[c].key
  <2>1. k \in Emails /\ UNCHANGED <<mail, lost>>
    BY <1>6, CallKey DEF Reopen, At, EmailPcs
  <2>2. CASE row[k].status = "FAILED" /\ row' = WithStatus(k, "EXECUTING")
    <3>1. /\ row'[k].status = "EXECUTING"
          /\ \A i \in Emails : i # k => row'[i].status = row[i].status
      BY <1>1, <2>1, <2>2, RowUpdateTypes DEF Statuses
    <3>2. mail[k] = lost[k]
      BY <2>1, <2>2 DEF GovInv, KeyInv
    <3>3. QED
      BY <1>2, <2>1, <2>2, <3>1, <3>2, OnceStep
  <2>3. CASE UNCHANGED row
    BY <1>3, <2>1, <2>3
  <2>4. QED
    BY <1>6, <2>2, <2>3 DEF Reopen
<1>7. CASE Mark(c)
  <2> DEFINE k == call[c].key
  <2>1. k \in Emails /\ UNCHANGED <<mail, lost>>
    BY <1>7, CallKey DEF Mark, At, EmailPcs
  <2>2. CASE row[k].status = "EXECUTING" /\ row' = WithStatus(k, "AMBIGUOUS")
    <3>1. /\ row'[k].status = "AMBIGUOUS"
          /\ \A i \in Emails : i # k => row'[i].status = row[i].status
      BY <1>1, <2>1, <2>2, RowUpdateTypes DEF Statuses
    <3>2. QED
      BY <1>2, <2>1, <2>2, <3>1, OnceStep
  <2>3. CASE UNCHANGED row
    BY <1>3, <2>1, <2>3
  <2>4. QED
    BY <1>7, <2>2, <2>3 DEF Mark
<1>8. CASE Send(c)
  <2> DEFINE k == call[c].key
  <2>1. /\ k \in Emails /\ UNCHANGED row /\ Holds(call[c], k) /\ call[c].pc = "send"
    BY <1>8, CallKey DEF Send, At, EmailPcs, Holds
  <2>2. row[k].status \in {"EXECUTING", "AMBIGUOUS"} /\ mail[k] = lost[k]
    BY <2>1 DEF GovInv, KeyInv
  <2>3. \A i \in Emails : i # k => mail'[i] = mail[i] /\ lost'[i] = lost[i]
    BY <1>2, <1>8, <2>1 DEF Send
  <2>4. mail'[k] = lost'[k] + 1 \/ mail'[k] = lost'[k]
    BY <1>2, <1>8, <2>1, <2>2 DEF Send
  <2>5. CASE mail'[k] = lost'[k] + 1
    BY <1>2, <2>1, <2>2, <2>3, <2>5, OnceStep
  <2>6. CASE mail'[k] = lost'[k]
    <3>1. \A i \in Emails : mail'[i] - lost'[i] = mail[i] - lost[i]
      BY <1>2, <2>1, <2>2, <2>3, <2>6
    <3>2. QED
      BY <2>1, <3>1, NoKey
  <2>7. QED
    BY <2>4, <2>5, <2>6
<1>9. CASE Fail(c) \/ RecordDoubt(c) \/ Complete(c)
  <2> DEFINE k == call[c].key
  <2>1. /\ call[c].pc \in {"fail", "doubt", "complete"} /\ k \in Emails
        /\ UNCHANGED <<mail, lost>> /\ Holds(call[c], k)
    BY <1>9, CallKey DEF Fail, RecordDoubt, Complete, At, EmailPcs, Holds
  <2>2. /\ row[k].status \in {"EXECUTING", "AMBIGUOUS"}
        /\ call[c].pc = "complete" => mail[k] = lost[k] + 1
        /\ call[c].pc = "fail" => mail[k] = lost[k]
    BY <2>1 DEF GovInv, KeyInv
  <2>3. CASE UNCHANGED row
    BY <1>3, <2>1, <2>3
  <2>4. ASSUME NEW status \in Statuses, row' = WithStatus(k, status),
               \/ status = "FAILED" /\ row[k].status = "EXECUTING" /\ mail[k] = lost[k]
               \/ status = "AMBIGUOUS" /\ row[k].status = "EXECUTING"
               \/ status = "COMPLETED" /\ mail[k] = lost[k] + 1
        PROVE  Once!Next
    <3>1. /\ row'[k].status = status
          /\ \A i \in Emails : i # k => row'[i].status = row[i].status
      BY <1>1, <2>1, <2>4, RowUpdateTypes
    <3>2. QED
      BY <1>2, <2>1, <2>2, <2>4, <3>1, OnceStep
  <2>5. QED
    BY <1>9, <2>2, <2>3, <2>4 DEF Fail, RecordDoubt, Complete, At, Statuses
<1>10. QED
  BY <1>4, <1>5, <1>6, <1>7, <1>8, <1>9 DEF EmailStep

\* Every email execution is one send of SendOnce: started once or again after a
\* failure, handed over and heard at most once, done only when it was handed over.
THEOREM ImplementsSendOnce == Spec => SendsOnce
<1>1. Init => Once!Init
  BY DEF Init, Once!Init, NoRow, StateOf, Keys
<1>2. TypeOK /\ TypeOK' /\ GovInv /\ [Next]_vars => [Once!Next]_(Once!vars)
  <2> SUFFICES ASSUME TypeOK, TypeOK', GovInv, [Next]_vars PROVE [Once!Next]_(Once!vars)
    OBVIOUS
  <2>1. CASE \E c \in Slots : EmailStep(c)
    BY <2>1, EmailStepOnce
  <2>2. CASE \/ \E c \in Slots : FactStep(c) \/ Crash(c)
             \/ \E k \in Direct : Commit(k)
             \/ \E k \in Checks : Check(k)
             \/ \E k \in Emails : Ages(k)
             \/ Subscribe \/ Lapse \/ Renew
    BY <2>2, OtherStepFrame, NoKey
  <2>3. CASE UNCHANGED vars
    BY <2>3, NoKey DEF vars
  <2>4. QED
    BY <2>1, <2>2, <2>3 DEF Next
<1>3. QED
  BY <1>1, <1>2, GovAlways, PTL DEF Spec, SendsOnce, Once!Spec

-----------------------------------------------------------------------------
(* The quota.                                                               *)

LEMMA KeysFinite ==
    /\ IsFiniteSet(InPeriod) /\ IsFiniteSet(InPeriod \cap Metered)
    /\ IsFiniteSet(InPeriod') /\ IsFiniteSet((InPeriod \cap Metered)')
    /\ Cardinality(InPeriod \cap Metered) <= Cardinality(InPeriod)
    /\ Cardinality(InPeriod) \in Nat /\ Cardinality(InPeriod \cap Metered) \in Nat
    /\ Cardinality((InPeriod \cap Metered)') \in Nat
<1>1. IsFiniteSet(Keys) /\ InPeriod \subseteq Keys /\ InPeriod' \subseteq Keys
  BY GovernedAssumption DEF InPeriod
<1>2. IsFiniteSet(InPeriod) /\ IsFiniteSet(InPeriod')
  BY <1>1, FS_Subset
<1>3. /\ IsFiniteSet(InPeriod \cap Metered)
      /\ Cardinality(InPeriod \cap Metered) <= Cardinality(InPeriod)
  BY <1>2, FS_Subset
<1>4. IsFiniteSet((InPeriod \cap Metered)')
  <2>1. (InPeriod \cap Metered)' \subseteq InPeriod'
    OBVIOUS
  <2>2. QED
    BY <1>2, <2>1, FS_Subset
<1>5. QED
  BY <1>2, <1>3, <1>4, FS_CardinalityType

\* Which metered executions count does not grow: nor does their number.
LEMMA CountedLess ==
    ASSUME \A k \in Metered : Counted(row'[k]) /\ row'[k].born = sub'.period
                                => Counted(row[k]) /\ row[k].born = sub.period
    PROVE  NotPast(Metered)
<1>1. (InPeriod \cap Metered)' \subseteq InPeriod \cap Metered
  BY DEF InPeriod, Counted, Metered
<1>2. Cardinality((InPeriod \cap Metered)') <= Cardinality(InPeriod \cap Metered)
  BY <1>1, KeysFinite, FS_Subset
<1>3. QED
  BY <1>2 DEF NotPast, Count

\* One more, below the limit.
LEMMA CountedMore ==
    ASSUME Allowed, sub.state # "none", NEW k \in Metered, sub' = sub,
           \A j \in Keys : j # k => row'[j] = row[j]
    PROVE  NotPast(Metered)
<1>1. Cardinality(InPeriod) < Limit /\ Limit \in Nat
  BY GovernedAssumption DEF Allowed
<1>2. (InPeriod \cap Metered)' \subseteq (InPeriod \cap Metered) \cup {k}
  BY DEF InPeriod, Counted, Metered
<1>3. /\ IsFiniteSet((InPeriod \cap Metered) \cup {k})
      /\ Cardinality((InPeriod \cap Metered) \cup {k}) <= Cardinality(InPeriod \cap Metered) + 1
      /\ Cardinality((InPeriod \cap Metered) \cup {k}) \in Nat
  <2> DEFINE S == InPeriod \cap Metered
  <2>1. IsFiniteSet(S) /\ Cardinality(S) \in Nat
    BY KeysFinite
  <2>2. /\ IsFiniteSet(S \cup {k})
        /\ Cardinality(S \cup {k}) = Cardinality(S) \/ Cardinality(S \cup {k}) = Cardinality(S) + 1
    <3> HIDE DEF S
    <3>1. QED
      BY <2>1, FS_AddElement
  <2>3. QED
    BY <2>1, <2>2
<1>4. Cardinality((InPeriod \cap Metered)') <= Cardinality((InPeriod \cap Metered) \cup {k})
  BY <1>2, <1>3, FS_Subset
<1>5. Cardinality((InPeriod \cap Metered)') <= Limit
  BY <1>1, <1>3, <1>4, KeysFinite
<1>6. QED
  BY <1>5 DEF NotPast, Count

LEMMA QuotaStep ==
    ASSUME TypeOK, [Next]_vars, sub.state # "none"
    PROVE  NotPast(Metered)
<1>1. Emails \subseteq Keys /\ Emails \subseteq Metered /\ Direct \subseteq Metered
      /\ Direct \subseteq Keys
  BY DEF Keys, Metered
<1>2. ASSUME sub' = sub, UNCHANGED row PROVE NotPast(Metered)
  BY <1>2, CountedLess
<1>3. ASSUME NEW c \in Slots, EmailStep(c) PROVE NotPast(Metered)
  <2>1. sub' = sub
    BY <1>3 DEF EmailStep, Claim, Find, Reopen, Mark, Send, Fail, RecordDoubt, Complete, AppendEvidence
  <2>2. CASE Claim(c)
    <3>1. Allowed /\ \E k \in Emails : Inserted(k, "EXECUTING") \/ UNCHANGED row
      BY <2>2 DEF Claim
    <3>2. ASSUME NEW k \in Emails, Inserted(k, "EXECUTING") PROVE NotPast(Metered)
      <4>1. \A j \in Keys : j # k => row'[j] = row[j]
        BY <1>1, <3>2, InsertedType DEF Statuses
      <4>2. QED
        BY <1>1, <2>1, <3>1, <4>1, CountedMore
    <3>3. QED
      BY <1>2, <2>1, <3>1, <3>2
  <2>3. CASE Reopen(c)
    <3>1. call[c].key \in Emails
      BY <2>3, CallKey DEF Reopen, At, EmailPcs
    <3>2. CASE Allowed /\ row' = WithStatus(call[c].key, "EXECUTING")
      <4>1. \A j \in Keys : j # call[c].key => row'[j] = row[j]
        BY <1>1, <3>1, <3>2, RowUpdateTypes DEF Statuses
      <4>2. QED
        BY <1>1, <2>1, <3>1, <3>2, <4>1, CountedMore
    <3>3. QED
      BY <1>2, <2>1, <2>3, <3>2 DEF Reopen
  <2>4. CASE Mark(c) \/ Fail(c) \/ RecordDoubt(c) \/ Complete(c)
    <3> DEFINE k == call[c].key
    <3>1. k \in Emails
      BY <2>4, CallKey DEF Mark, Fail, RecordDoubt, Complete, At, EmailPcs
    <3>2. \/ UNCHANGED row
          \/ /\ row[k].status \in {"EXECUTING", "AMBIGUOUS"}
             /\ \E status \in Statuses : row' = WithStatus(k, status)
      BY <2>4 DEF Mark, Fail, RecordDoubt, Complete, Statuses
    <3>3. ASSUME NEW status \in Statuses, row' = WithStatus(k, status),
                 row[k].status \in {"EXECUTING", "AMBIGUOUS"}
          PROVE  NotPast(Metered)
      <4>1. /\ row'[k].born = row[k].born
            /\ \A j \in Keys : j # k => row'[j] = row[j]
        BY <1>1, <3>1, <3>3, RowUpdateTypes
      <4>2. Counted(row[k])
        BY <3>3 DEF Counted
      <4>3. Metered \subseteq Keys
        BY DEF Keys, Metered
      <4>4. QED
        BY <2>1, <4>1, <4>2, <4>3, CountedLess
    <3>4. QED
      BY <1>2, <2>1, <3>2, <3>3
  <2>5. CASE Find(c) \/ Send(c) \/ AppendEvidence(c)
    BY <1>2, <2>1, <2>5 DEF Find, Send, AppendEvidence
  <2>6. QED
    BY <1>3, <2>2, <2>3, <2>4, <2>5 DEF EmailStep
<1>4. ASSUME NEW k \in Direct, Commit(k) PROVE NotPast(Metered)
  <2>1. sub' = sub /\ Allowed /\ \A j \in Keys : j # k => row'[j] = row[j]
    BY <1>1, <1>4, InsertedType DEF Commit, Statuses
  <2>2. QED
    BY <1>1, <2>1, CountedMore
<1>5. ASSUME NEW k \in Checks, Check(k) PROVE NotPast(Metered)
  <2>1. k \in Keys /\ k \notin Metered
    BY GovernedAssumption DEF Keys, Metered
  <2>2. sub' = sub /\ \A j \in Keys : j # k => row'[j] = row[j]
    BY <1>5, <2>1, InsertedType DEF Check, Statuses
  <2>3. \A j \in Metered : row'[j] = row[j]
    BY <2>1, <2>2 DEF Keys, Metered
  <2>4. QED
    BY <2>2, <2>3, CountedLess
<1>6. ASSUME NEW c \in Slots, FactStep(c) \/ Crash(c) PROVE NotPast(Metered)
  <2>1. /\ sub' = sub
        /\ \/ UNCHANGED row
           \/ \E k \in Facts : \/ Inserted(k, "RESERVED")
                               \/ \E status \in Statuses : row' = WithStatus(k, status)
    <3>1. CASE ReserveFact(c) \/ Crash(c)
      BY <3>1 DEF ReserveFact, Crash
    <3>2. CASE ReopenFact(c) \/ FinishFact(c) \/ FailFact(c)
      BY <3>2, CallKey DEF ReopenFact, FinishFact, FailFact, At, FactPcs, Statuses
    <3>3. QED
      BY <1>6, <3>1, <3>2 DEF FactStep
  <2>2. ASSUME NEW k \in Facts,
               \/ Inserted(k, "RESERVED")
               \/ \E status \in Statuses : row' = WithStatus(k, status)
        PROVE  \A j \in Metered : row'[j] = row[j]
    <3>1. k \in Keys /\ k \notin Metered /\ Metered \subseteq Keys
      BY GovernedAssumption DEF Keys, Metered
    <3>2. \A j \in Keys : j # k => row'[j] = row[j]
      BY <2>2, <3>1, InsertedType, RowUpdateTypes DEF Statuses
    <3>3. QED
      BY <3>1, <3>2
  <2>3. QED
    BY <1>2, <2>1, <2>2, CountedLess
<1>7. ASSUME NEW k \in Emails, Ages(k) PROVE NotPast(Metered)
  <2>1. sub' = sub /\ row' = [row EXCEPT ![k].old = TRUE]
    BY <1>7 DEF Ages
  <2>2. \A j \in Metered : row'[j].status = row[j].status /\ row'[j].born = row[j].born
    BY <1>1, <2>1 DEF TypeOK, Row, Keys, Metered
  <2>3. QED
    BY <2>1, <2>2, CountedLess DEF Counted
<1>8. CASE Subscribe
  BY <1>8 DEF Subscribe
<1>9. CASE Lapse
  BY <1>9, CountedLess DEF Lapse, TypeOK
<1>10. CASE Renew
  BY <1>10 DEF Renew, NotPast, TypeOK
<1>11. CASE UNCHANGED vars
  BY <1>2, <1>11 DEF vars
<1>12. QED
  BY <1>3, <1>4, <1>5, <1>6, <1>7, <1>8, <1>9, <1>10, <1>11 DEF Next

\* In a subscribed period, no claim, reopening or commit adds an execution to
\* those that asked for an allowance when the limit is reached.
THEOREM QuotaCorrect == Spec => QuotaHolds
<1>1. TypeOK /\ [Next]_vars => [sub.state # "none" => NotPast(Metered)]_vars
  BY QuotaStep
<1>2. QED
  BY <1>1, TypeCorrect, PTL DEF Spec, QuotaHolds
=============================================================================

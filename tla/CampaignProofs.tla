-------------------------- MODULE CampaignProofs ---------------------------
(***************************************************************************)
(* Theorems about the external account and its campaign item, for any      *)
(* number of requests under way, consents, posts and late writes.          *)
(***************************************************************************)
EXTENDS Campaigns, TLAPS

-----------------------------------------------------------------------------
(* What the requests carry.                                                  *)

LEMMA RequestTypes ==
    ASSUME NEW r \in Request
    PROVE  /\ r.pc \in {"grant", "issue", "found", "consumed", "exchanged"} =>
                r.consent \in Consents
           /\ r.pc = "grant" => r.perm \in BOOLEAN /\ r.auto \in BOOLEAN
           /\ r.pc = "finalize" => r.perm \in BOOLEAN /\ r.auto \in BOOLEAN
           /\ r.pc = "flag" => r.perm \in BOOLEAN
           /\ r.pc \in {"refresh", "post"} => r.tokens \in Consents
           /\ r.pc \in {"revokeGrant", "cancelItems"} => r.then \in AfterRevoke
BY DEF Request, Idle

Bare == {"idle", "approve", "reject", "autoOn", "gates", "reload", "claim", "token",
         "posted", "failed", "stored"}

LEMMA Requests ==
    /\ Idle \in Request /\ Idle.pc = "idle"
    /\ \A pc \in Bare : [pc |-> pc] \in Request
    /\ \A pc \in {"issue", "found", "consumed", "exchanged"}, i \in Consents :
          [pc |-> pc, consent |-> i] \in Request
    /\ \A i \in Consents : \A perm, auto \in BOOLEAN :
          [pc |-> "grant", consent |-> i, perm |-> perm, auto |-> auto] \in Request
    /\ \A perm, auto \in BOOLEAN :
          [pc |-> "finalize", perm |-> perm, auto |-> auto] \in Request
    /\ \A perm \in BOOLEAN : [pc |-> "flag", perm |-> perm] \in Request
    /\ \A pc \in {"refresh", "post"}, t \in Consents : [pc |-> pc, tokens |-> t] \in Request
    /\ \A pc \in {"revokeGrant", "cancelItems"}, t \in AfterRevoke :
          [pc |-> pc, then |-> t] \in Request
<1>1. Idle \in Request /\ Idle.pc = "idle"
  BY DEF Request, Idle
<1>2. \A pc \in Bare : [pc |-> pc] \in Request
  BY DEF Request, Idle, Bare
<1>3. \A pc \in {"issue", "found", "consumed", "exchanged"}, i \in Consents :
          [pc |-> pc, consent |-> i] \in Request
  BY DEF Request
<1>4. \A i \in Consents : \A perm, auto \in BOOLEAN :
          [pc |-> "grant", consent |-> i, perm |-> perm, auto |-> auto] \in Request
  BY DEF Request
<1>5. \A perm, auto \in BOOLEAN :
          [pc |-> "finalize", perm |-> perm, auto |-> auto] \in Request
  BY DEF Request
<1>6. \A perm \in BOOLEAN : [pc |-> "flag", perm |-> perm] \in Request
  BY DEF Request
<1>7. \A pc \in {"refresh", "post"}, t \in Consents : [pc |-> pc, tokens |-> t] \in Request
  BY DEF Request
<1>8. \A pc \in {"revokeGrant", "cancelItems"}, t \in AfterRevoke :
          [pc |-> pc, then |-> t] \in Request
  BY DEF Request
<1>9. QED
  BY <1>1, <1>2, <1>3, <1>4, <1>5, <1>6, <1>7, <1>8

LEMMA BecomeTypes ==
    ASSUME TypeOK, NEW s \in Slots, NEW r \in Request, Become(s, r)
    PROVE  /\ req' \in [Slots -> Request]
           /\ req'[s] = r
           /\ \A o \in Slots : o # s => req'[o] = req[o]
BY DEF TypeOK, Become

LEMMA NotedTypes ==
    ASSUME TypeOK, NEW kind \in Late, NEW stale, Noted(kind, stale)
    PROVE  late' \subseteq Late /\ late \subseteq late' /\ (stale => kind \in late')
BY DEF TypeOK, Noted

-----------------------------------------------------------------------------
(* Types.                                                                    *)

LEMMA TypeStep ==
    ASSUME TypeOK, [Next]_vars
    PROVE  TypeOK'
<1> USE DEF At, GoTo, Leave, Bare, AfterRevoke
<1>1. ASSUME NEW s \in Slots, ConnectStep(s)
      PROVE  TypeOK'
  <2>1. ASSUME NEW i \in Consents, NEW perm \in BOOLEAN, NEW auto \in BOOLEAN,
               BeginConnect(s, i, perm, auto)
        PROVE  TypeOK'
    BY <2>1, Requests, BecomeTypes DEF BeginConnect, TypeOK
  <2>2. CASE SaveGrant(s)
    BY <2>2, Requests, RequestTypes, BecomeTypes DEF SaveGrant, TypeOK, Grant
  <2>3. CASE IssueState(s)
    BY <2>3, Requests, RequestTypes, BecomeTypes DEF IssueState, TypeOK
  <2>4. QED
    BY <1>1, <2>1, <2>2, <2>3 DEF ConnectStep
<1>2. ASSUME NEW s \in Slots, CallbackStep(s)
      PROVE  TypeOK'
  <2>1. ASSUME NEW i \in Consents, FindState(s, i)
        PROVE  TypeOK'
    BY <2>1, Requests, BecomeTypes DEF FindState, TypeOK, account
  <2>2. CASE ConsumeState(s)
    BY <2>2, Requests, RequestTypes, BecomeTypes DEF ConsumeState, TypeOK
  <2>3. CASE ExchangeCode(s)
    BY <2>3, Requests, RequestTypes, BecomeTypes DEF ExchangeCode, TypeOK
  <2>4. CASE StoreTokens(s)
    BY <2>4, Requests, RequestTypes, BecomeTypes DEF StoreTokens, TypeOK, Credential, Consents
  <2>5. ASSUME NEW covered \in BOOLEAN, ReadGrant(s, covered)
        PROVE  TypeOK'
    BY <2>5, Requests, BecomeTypes DEF ReadGrant, TypeOK, Grant, account
  <2>6. CASE FinalizeGrant(s)
    <3>1. req[s].perm \in BOOLEAN /\ req[s].auto \in BOOLEAN
      BY <2>6, RequestTypes DEF FinalizeGrant, TypeOK
    <3>2. grant' \in Grant /\ late' \subseteq Late
      <4>1. CASE grant.status = "revoked"
        BY <2>6, <4>1 DEF FinalizeGrant, TypeOK
      <4>2. CASE grant.status # "revoked"
        <5>1. Noted("finalize", req[s].auto /\ ~grant.auto)
          BY <2>6, <4>2 DEF FinalizeGrant
        <5>2. late' \subseteq Late
          BY <5>1, NotedTypes DEF Late
        <5>3. grant.perm \in BOOLEAN /\ (req[s].auto /\ req[s].perm) \in BOOLEAN
          BY <3>1 DEF TypeOK, Grant
        <5>4. grant' = [status |-> "connected", perm |-> grant.perm,
                        auto |-> req[s].auto /\ req[s].perm]
          BY <2>6, <4>2 DEF FinalizeGrant
        <5>5. grant' \in Grant
          BY <5>3, <5>4 DEF Grant
        <5>6. QED
          BY <5>2, <5>5
      <4>3. QED
        BY <4>1, <4>2
    <3>3. req' \in [Slots -> Request]
      BY <2>6, <3>1, Requests, BecomeTypes DEF FinalizeGrant
    <3>4. QED
      BY <2>6, <3>2, <3>3 DEF FinalizeGrant, TypeOK
  <2>7. CASE FinalizeConnection(s)
    BY <2>7, Requests, RequestTypes, BecomeTypes DEF FinalizeConnection, TypeOK
  <2>8. QED
    BY <1>2, <2>1, <2>2, <2>3, <2>4, <2>5, <2>6, <2>7 DEF CallbackStep
<1>3. ASSUME NEW s \in Slots, AccountStep(s)
      PROVE  TypeOK'
  <2>1. CASE Disconnect(s)
    BY <2>1, Requests, BecomeTypes, CampaignsAssumption DEF Disconnect, Emptied, TypeOK, Credential
  <2>2. CASE RevokeGrant(s)
    <3>1. grant' \in Grant /\ before' \subseteq Consents /\ word' \in BOOLEAN
      <4>1. CASE grant.status = "none"
        BY <2>2, <4>1 DEF RevokeGrant, TypeOK
      <4>2. CASE grant.status # "none"
        <5>1. grant.perm \in BOOLEAN
          BY DEF TypeOK, Grant
        <5>2. grant' = [status |-> "revoked", perm |-> grant.perm, auto |-> FALSE]
              /\ before' = Asked /\ word' = FALSE
          BY <2>2, <4>2 DEF RevokeGrant
        <5>3. grant' \in Grant
          BY <5>1, <5>2 DEF Grant
        <5>4. QED
          BY <5>2, <5>3 DEF Asked
      <4>3. QED
        BY <4>1, <4>2
    <3>2. req' \in [Slots -> Request]
      BY <2>2, Requests, RequestTypes, BecomeTypes DEF RevokeGrant, TypeOK
    <3>3. QED
      BY <2>2, <3>1, <3>2 DEF RevokeGrant, TypeOK
  <2>3. CASE CancelItems(s)
    BY <2>3, Requests, BecomeTypes DEF CancelItems, TypeOK, Statuses, account
  <2>4. ASSUME NEW flag \in BOOLEAN, UpdatePermission(s, flag)
        PROVE  TypeOK'
    BY <2>4 DEF UpdatePermission, TypeOK
  <2>5. CASE CheckAutoOn(s)
    BY <2>5, Requests, BecomeTypes DEF CheckAutoOn, TypeOK, account
  <2>6. CASE WriteAutoOn(s)
    BY <2>6, Requests, BecomeTypes DEF WriteAutoOn, TypeOK, Grant
  <2>7. CASE WriteAutoOff(s)
    BY <2>7 DEF WriteAutoOff, TypeOK, Grant
  <2>8. QED
    BY <1>3, <2>1, <2>2, <2>3, <2>4, <2>5, <2>6, <2>7 DEF AccountStep
<1>4. ASSUME NEW s \in Slots, ItemStep(s)
      PROVE  TypeOK'
  <2>1. CASE CheckApproval(s) \/ CheckRejection(s) \/ ReadItem(s) \/ ReloadItem(s) \/ GiveUp(s)
    BY <2>1, Requests, BecomeTypes
       DEF CheckApproval, CheckRejection, ReadItem, ReloadItem, GiveUp, TypeOK, account
  <2>2. CASE WriteRejection(s) \/ ClaimVideo(s) \/ RecordPublished(s) \/ RecordFailed(s)
    BY <2>2, Requests, BecomeTypes
       DEF WriteRejection, ClaimVideo, RecordPublished, RecordFailed, TypeOK, Statuses, account
  <2>3. CASE WriteApproval(s) \/ ClaimEmail(s)
    BY <2>3, Requests, BecomeTypes, NotedTypes
       DEF WriteApproval, ClaimEmail, TypeOK, Statuses, Late, account
  <2>4. ASSUME NEW autonomous \in BOOLEAN, PassGates(s, autonomous)
        PROVE  TypeOK'
    BY <2>4, Requests, BecomeTypes DEF PassGates, TypeOK, account
  <2>5. CASE TakeToken(s)
    <3>1. cred.tokens \in Consents
      BY <2>5 DEF TakeToken, Active, TypeOK, Credential, Consents
    <3>2. QED
      BY <2>5, <3>1, Requests, BecomeTypes DEF TakeToken, TypeOK, account
  <2>6. CASE StoreRefreshed(s)
    <3>1. req[s].tokens \in Consents
      BY <2>6, RequestTypes DEF StoreRefreshed, TypeOK
    <3>2. cred' \in Credential
      BY <2>6, <3>1 DEF StoreRefreshed, TypeOK, Credential, Consents
    <3>3. req' \in [Slots -> Request]
      BY <2>6, <3>1, Requests, BecomeTypes DEF StoreRefreshed
    <3>4. late' \subseteq Late
      BY <2>6, NotedTypes DEF StoreRefreshed, Late
    <3>5. QED
      BY <2>6, <3>2, <3>3, <3>4 DEF StoreRefreshed, TypeOK
  <2>7. CASE InvalidGrant(s)
    BY <2>7, Requests, BecomeTypes, CampaignsAssumption
       DEF InvalidGrant, Emptied, TypeOK, Credential
  <2>8. CASE Post(s)
    BY <2>8, Requests, BecomeTypes, CampaignsAssumption DEF Post, TypeOK, account
  <2>9. QED
    BY <1>4, <2>1, <2>2, <2>3, <2>4, <2>5, <2>6, <2>7, <2>8 DEF ItemStep
<1>5. ASSUME NEW s \in Slots, Abort(s)
      PROVE  TypeOK'
  BY <1>5, Requests, BecomeTypes, NotedTypes DEF Abort, TypeOK, Late, account
<1>6. CASE UNCHANGED vars
  BY <1>6 DEF vars, account, TypeOK
<1>7. QED
  BY <1>1, <1>2, <1>3, <1>4, <1>5, <1>6 DEF Next

-----------------------------------------------------------------------------
(* The credential: it is told from its owner and its tokens whether it was   *)
(* ever stored and whether it is usable.                                     *)

CredInv ==
    /\ cred.live = "none" => cred.tokens = 0
    /\ cred.live # "none" => cred.owner # 0
    /\ cred.live = "active" => cred.tokens # 0
    /\ \A s \in Slots : At(s, "refresh") => cred.live # "none"
    /\ TokensBelong

\* A step of s that leaves the credential alone and refreshes nothing.
LeavesCred(s) ==
    /\ cred' = cred /\ late \subseteq late'
    /\ req'[s].pc # "refresh"
    /\ \A o \in Slots : o # s => req'[o] = req[o]

LEMMA LeavesCredKeeps ==
    ASSUME CredInv, NEW s \in Slots, LeavesCred(s)
    PROVE  CredInv'
BY DEF CredInv, LeavesCred, TokensBelong, At

LEMMA CredStep ==
    ASSUME TypeOK, CredInv, [Next]_vars
    PROVE  CredInv'
<1> USE DEF GoTo, Leave
<1>1. ASSUME NEW s \in Slots, ConnectStep(s)
      PROVE  LeavesCred(s)
  BY <1>1, Requests DEF ConnectStep, BeginConnect, SaveGrant, IssueState, LeavesCred,
     Become, TypeOK
<1>2. ASSUME NEW s \in Slots, CallbackStep(s), ~StoreTokens(s)
      PROVE  LeavesCred(s)
  BY <1>2, Requests DEF CallbackStep, FindState, ConsumeState, ExchangeCode, ReadGrant,
     FinalizeGrant, FinalizeConnection, LeavesCred, Become, Noted, account, TypeOK
<1>3. ASSUME NEW s \in Slots, AccountStep(s), ~Disconnect(s)
      PROVE  LeavesCred(s) \/ UNCHANGED <<cred, late, req>>
  BY <1>3, Requests DEF AccountStep, RevokeGrant, CancelItems, UpdatePermission, CheckAutoOn,
     WriteAutoOn, WriteAutoOff, LeavesCred, Become, account, TypeOK
<1>4. ASSUME NEW s \in Slots, ItemStep(s), ~TakeToken(s), ~StoreRefreshed(s), ~InvalidGrant(s)
      PROVE  LeavesCred(s)
  BY <1>4, Requests DEF ItemStep, CheckApproval, WriteApproval, CheckRejection, WriteRejection,
     ReadItem, ReloadItem, ClaimVideo, ClaimEmail, PassGates, Post, GiveUp, RecordPublished,
     RecordFailed, LeavesCred, Become, Noted, account, TypeOK
<1>5. ASSUME NEW s \in Slots, Abort(s)
      PROVE  LeavesCred(s)
  BY <1>5, Requests DEF Abort, LeavesCred, Become, Noted, account, TypeOK
<1>6. ASSUME NEW s \in Slots, StoreTokens(s)
      PROVE  CredInv'
  BY <1>6, RequestTypes DEF StoreTokens, CredInv, TokensBelong, At, Become, TypeOK, Consents
<1>7. ASSUME NEW s \in Slots, Disconnect(s)
      PROVE  CredInv'
  BY <1>7 DEF Disconnect, Emptied, CredInv, TokensBelong, At, Become, TypeOK
<1>8. ASSUME NEW s \in Slots, TakeToken(s)
      PROVE  CredInv'
  BY <1>8 DEF TakeToken, Active, CredInv, TokensBelong, At, Become, TypeOK, account
<1>9. ASSUME NEW s \in Slots, StoreRefreshed(s)
      PROVE  CredInv'
  <2>1. req[s].tokens \in Consents /\ req[s].tokens # 0 /\ cred.live # "none"
    BY <1>9, RequestTypes DEF StoreRefreshed, CredInv, TypeOK, Consents, At
  <2>2. cred'.tokens = req[s].tokens /\ cred'.live = cred.live /\ cred'.owner = cred.owner
    BY <1>9 DEF StoreRefreshed, TypeOK, Credential
  <2>3. late \subseteq late' /\ (cred.tokens # req[s].tokens => "refresh" \in late')
    BY <1>9, NotedTypes DEF StoreRefreshed, Late
  <2>4. \A o \in Slots : At(o, "refresh")' => At(o, "refresh")
    BY <1>9 DEF StoreRefreshed, At, Become, TypeOK
  <2>5. QED
    BY <2>1, <2>2, <2>3, <2>4 DEF CredInv, TokensBelong
<1>10. ASSUME NEW s \in Slots, InvalidGrant(s)
      PROVE  CredInv'
  BY <1>10 DEF InvalidGrant, Emptied, CredInv, TokensBelong, At, Become, TypeOK
<1>11. CASE UNCHANGED <<cred, late, req>>
  BY <1>11 DEF CredInv, TokensBelong, At
<1>12. QED
  BY <1>1, <1>2, <1>3, <1>4, <1>5, <1>6, <1>7, <1>8, <1>9, <1>10, <1>11, LeavesCredKeeps
     DEF Next, vars, account

\* A step that stores no tokens of a code leaves an unusable credential unusable.
LEMMA RevivalStep ==
    ASSUME TypeOK, CredInv, [Next]_vars, ~Active, Active'
    PROVE  \E s \in Slots : At(s, "exchanged")
<1> USE DEF GoTo, Leave, Active
<1>1. ASSUME NEW s \in Slots, ConnectStep(s)
      PROVE  cred' = cred
  BY <1>1 DEF ConnectStep, BeginConnect, SaveGrant, IssueState
<1>2. ASSUME NEW s \in Slots, CallbackStep(s), ~StoreTokens(s)
      PROVE  cred' = cred
  BY <1>2 DEF CallbackStep, FindState, ConsumeState, ExchangeCode, ReadGrant,
     FinalizeGrant, FinalizeConnection, account
<1>3. ASSUME NEW s \in Slots, AccountStep(s)
      PROVE  cred' \in {cred, Emptied(cred)}
  BY <1>3 DEF AccountStep, Disconnect, RevokeGrant, CancelItems, UpdatePermission, CheckAutoOn,
     WriteAutoOn, WriteAutoOff, account
<1>4. ASSUME NEW s \in Slots, ItemStep(s), ~StoreRefreshed(s)
      PROVE  cred' \in {cred, Emptied(cred)}
  BY <1>4 DEF ItemStep, CheckApproval, WriteApproval, CheckRejection, WriteRejection,
     ReadItem, ReloadItem, ClaimVideo, ClaimEmail, PassGates, TakeToken, InvalidGrant, Post,
     GiveUp, RecordPublished, RecordFailed, account
<1>5. ASSUME NEW s \in Slots, StoreRefreshed(s)
      PROVE  FALSE
  <2>1. cred'.live = cred.live
    BY <1>5 DEF StoreRefreshed, TypeOK, Credential
  <2>2. QED
    BY <2>1 DEF CredInv
<1>6. ASSUME NEW s \in Slots, StoreTokens(s)
      PROVE  At(s, "exchanged")
  BY <1>6 DEF StoreTokens
<1>7. cred' = cred => FALSE
  OBVIOUS
<1>8. cred' = Emptied(cred) => FALSE
  BY DEF Emptied
<1>9. (\E s \in Slots : Abort(s)) \/ UNCHANGED vars => cred' = cred
  BY DEF Abort, vars, account
<1>10. QED
  BY <1>1, <1>2, <1>3, <1>4, <1>5, <1>6, <1>7, <1>8, <1>9 DEF Next

-----------------------------------------------------------------------------
(* Consents: under a revoked grant only those of before are anywhere but in  *)
(* a request that has still to save its own grant.                           *)

Returning == {"issued", "consumed", "exchanged"}

ConsentInv ==
    /\ \A s \in Slots : req[s].pc \in {"grant", "issue"} => req[s].consent \in Asked
    /\ \A s \in Slots : req[s].pc \in {"found", "consumed", "exchanged"} =>
            consent[req[s].consent] \in Returning
    /\ cred.owner # 0 => consent[cred.owner] \in Returning
    /\ grant.status = "revoked" => \A i \in Consents : consent[i] \in Returning => i \in before
    /\ grant.status = "revoked" => \A s \in Slots : At(s, "issue") => req[s].consent \in before

Asking == {"grant", "issue", "found", "consumed", "exchanged"}

\* A step of s that has nothing to do with consents.
LeavesConsents(s) ==
    /\ consent' = consent /\ before' = before
    /\ grant'.status = "revoked" => grant.status = "revoked"
    /\ cred'.owner = cred.owner
    /\ req'[s].pc \notin Asking
    /\ \A o \in Slots : o # s => req'[o] = req[o]

LEMMA LeavesConsentsKeeps ==
    ASSUME ConsentInv, NEW s \in Slots, LeavesConsents(s)
    PROVE  ConsentInv'
BY DEF ConsentInv, LeavesConsents, Asked, Asking, At

LEMMA ConsentStep ==
    ASSUME TypeOK, ConsentInv, [Next]_vars
    PROVE  ConsentInv'
<1> USE DEF GoTo, Leave, At
<1>1. ASSUME NEW s \in Slots, NEW i \in Consents, NEW perm \in BOOLEAN, NEW auto \in BOOLEAN,
             BeginConnect(s, i, perm, auto)
      PROVE  ConsentInv'
  BY <1>1 DEF BeginConnect, ConsentInv, Asked, Returning, Become, TypeOK, Consents, Credential
<1>2. ASSUME NEW s \in Slots, SaveGrant(s)
      PROVE  ConsentInv'
  BY <1>2 DEF SaveGrant, ConsentInv, Asked, Become, TypeOK
<1>3. ASSUME NEW s \in Slots, IssueState(s)
      PROVE  ConsentInv'
  BY <1>3, RequestTypes DEF IssueState, ConsentInv, Asked, Returning, Become, TypeOK, Idle,
     Consents, Credential
<1>4. ASSUME NEW s \in Slots, NEW i \in Consents, FindState(s, i)
      PROVE  ConsentInv'
  BY <1>4 DEF FindState, ConsentInv, Asked, Returning, Become, TypeOK, account
<1>5. ASSUME NEW s \in Slots, ConsumeState(s)
      PROVE  ConsentInv'
  BY <1>5, RequestTypes DEF ConsumeState, ConsentInv, Asked, Returning, Become, TypeOK,
     Consents, Credential
<1>6. ASSUME NEW s \in Slots, ExchangeCode(s)
      PROVE  ConsentInv'
  BY <1>6, RequestTypes DEF ExchangeCode, ConsentInv, Asked, Returning, Become, TypeOK,
     Consents, Credential
<1>7. ASSUME NEW s \in Slots, StoreTokens(s)
      PROVE  ConsentInv'
  BY <1>7 DEF StoreTokens, ConsentInv, Asked, Become, TypeOK
<1>8. ASSUME NEW s \in Slots, RevokeGrant(s)
      PROVE  ConsentInv'
  <2>1. CASE grant.status = "none"
    BY <1>8, <2>1 DEF RevokeGrant, ConsentInv, Asked, Become, TypeOK
  <2>2. CASE grant.status # "none"
    BY <1>8, <2>2 DEF RevokeGrant, ConsentInv, Asked, Returning, Become, TypeOK
  <2>3. QED
    BY <2>1, <2>2
<1>9. ASSUME NEW s \in Slots,
             \/ \E covered \in BOOLEAN : ReadGrant(s, covered)
             \/ FinalizeGrant(s) \/ FinalizeConnection(s)
      PROVE  LeavesConsents(s)
  BY <1>9 DEF ReadGrant, FinalizeGrant, FinalizeConnection, LeavesConsents, Asking, Become,
     Idle, account, TypeOK
<1>10. ASSUME NEW s \in Slots, AccountStep(s), ~RevokeGrant(s)
      PROVE  LeavesConsents(s) \/ (UNCHANGED <<consent, before, cred, req>>
                                  /\ grant'.status = grant.status)
  BY <1>10 DEF AccountStep, Disconnect, Emptied, CancelItems, UpdatePermission, CheckAutoOn,
     WriteAutoOn, WriteAutoOff, LeavesConsents, Asking, Become, Idle, account, TypeOK, Grant
<1>11. ASSUME NEW s \in Slots, ItemStep(s)
      PROVE  LeavesConsents(s)
  BY <1>11 DEF ItemStep, CheckApproval, WriteApproval, CheckRejection, WriteRejection,
     ReadItem, ReloadItem, ClaimVideo, ClaimEmail, PassGates, TakeToken, StoreRefreshed,
     InvalidGrant, Emptied, Post, GiveUp, RecordPublished, RecordFailed, LeavesConsents,
     Asking, Become, Idle, account, TypeOK, Credential
<1>12. ASSUME NEW s \in Slots, Abort(s)
      PROVE  LeavesConsents(s)
  BY <1>12 DEF Abort, LeavesConsents, Asking, Become, Idle, account, TypeOK
<1>13. CASE UNCHANGED <<consent, before, cred, req>> /\ grant'.status = grant.status
  BY <1>13 DEF ConsentInv, Asked
<1>14. QED
  BY <1>1, <1>2, <1>3, <1>4, <1>5, <1>6, <1>7, <1>8, <1>9, <1>10, <1>11, <1>12, <1>13,
     LeavesConsentsKeeps DEF Next, ConnectStep, CallbackStep, vars, account

-----------------------------------------------------------------------------
(* Automatic publishing.                                                     *)

LEMMA AutomaticStep ==
    ASSUME TypeOK, AutomaticIsSaid, [Next]_vars
    PROVE  AutomaticIsSaid'
<1> USE DEF AutomaticIsSaid
<1>1. ASSUME NEW s \in Slots, SaveGrant(s)
      PROVE  AutomaticIsSaid'
  BY <1>1 DEF SaveGrant
<1>2. ASSUME NEW s \in Slots, FinalizeGrant(s)
      PROVE  AutomaticIsSaid'
  <2>1. CASE grant.status = "revoked"
    BY <1>2, <2>1 DEF FinalizeGrant
  <2>2. CASE grant.status # "revoked"
    <3>1. grant'.auto => req[s].auto
      <4>1. req[s].perm \in BOOLEAN /\ req[s].auto \in BOOLEAN
        BY <1>2, RequestTypes DEF FinalizeGrant, At, TypeOK
      <4>2. grant'.auto = (req[s].auto /\ req[s].perm)
        BY <1>2, <2>2 DEF FinalizeGrant
      <4>3. QED
        BY <4>1, <4>2
    <3>2. Noted("finalize", req[s].auto /\ ~grant.auto)
      BY <1>2, <2>2 DEF FinalizeGrant
    <3>3. late \subseteq late' /\ (req[s].auto /\ ~grant.auto => "finalize" \in late')
      BY <3>2 DEF Noted
    <3>4. QED
      BY <1>2, <3>1, <3>3 DEF FinalizeGrant
  <2>3. QED
    BY <2>1, <2>2
<1>3. ASSUME NEW s \in Slots, RevokeGrant(s)
      PROVE  AutomaticIsSaid'
  BY <1>3 DEF RevokeGrant
<1>4. ASSUME NEW s \in Slots, WriteAutoOn(s) \/ WriteAutoOff(s)
      PROVE  AutomaticIsSaid'
  BY <1>4 DEF WriteAutoOn, WriteAutoOff, TypeOK, Grant
<1>5. ASSUME UNCHANGED <<grant, word>>, late \subseteq late'
      PROVE  AutomaticIsSaid'
  BY <1>5
<1>6. ASSUME NEW s \in Slots,
             \/ \E i \in Consents : \E perm, auto \in BOOLEAN : BeginConnect(s, i, perm, auto)
             \/ IssueState(s)
      PROVE  AutomaticIsSaid'
  BY <1>5, <1>6 DEF BeginConnect, IssueState
<1>7. ASSUME NEW s \in Slots, CallbackStep(s), ~FinalizeGrant(s)
      PROVE  AutomaticIsSaid'
  BY <1>5, <1>7 DEF CallbackStep, FindState, ConsumeState, ExchangeCode, StoreTokens,
     ReadGrant, FinalizeConnection, account
<1>8. ASSUME NEW s \in Slots, AccountStep(s), ~RevokeGrant(s), ~WriteAutoOn(s), ~WriteAutoOff(s)
      PROVE  AutomaticIsSaid'
  BY <1>5, <1>8 DEF AccountStep, Disconnect, CancelItems, UpdatePermission, CheckAutoOn, account
<1>9. ASSUME NEW s \in Slots, ItemStep(s)
      PROVE  AutomaticIsSaid'
  BY <1>5, <1>9 DEF ItemStep, CheckApproval, WriteApproval, CheckRejection, WriteRejection,
     ReadItem, ReloadItem, ClaimVideo, ClaimEmail, PassGates, TakeToken, StoreRefreshed,
     InvalidGrant, Post, GiveUp, RecordPublished, RecordFailed, Noted, account
<1>10. (\E s \in Slots : Abort(s)) \/ UNCHANGED vars => AutomaticIsSaid'
  BY <1>5 DEF Abort, Noted, vars, account
<1>11. QED
  BY <1>1, <1>2, <1>3, <1>4, <1>6, <1>7, <1>8, <1>9, <1>10 DEF Next, ConnectStep

-----------------------------------------------------------------------------
(* The item: unless a row was overwritten, one request at a time has claimed *)
(* it, and what may still be posted has not been.                            *)

Clean == {"approval", "claim"} \cap late = {}
MayPost(s) == req[s].pc \in {"token", "refresh", "post"}

OnePoster ==
    /\ item \in {"NEEDS_APPROVAL", "APPROVED"} => posts = 0 /\ \A s \in Slots : ~Holds(s)
    /\ posts <= 1
    /\ \A s \in Slots : MayPost(s) => posts = 0
    /\ \A s, o \in Slots : Holds(s) /\ Holds(o) => s = o

ItemInv ==
    /\ \A s \in Slots : At(s, "posted") => posts > 0
    /\ PublishedIsPosted
    /\ PublishingIsHeld
    /\ Clean => OnePoster

\* A step of s that leaves the item alone and claims and posts nothing.
LeavesItem(s) ==
    /\ item' = item /\ posts' = posts /\ late \subseteq late'
    /\ req'[s].pc # "posted"
    /\ Holds(s)' <=> Holds(s)
    /\ MayPost(s)' => MayPost(s)
    /\ \A o \in Slots : o # s => req'[o] = req[o]

LEMMA LeavesItemKeeps ==
    ASSUME ItemInv, NEW s \in Slots, LeavesItem(s)
    PROVE  ItemInv'
BY DEF ItemInv, OnePoster, Clean, PublishedIsPosted, PublishingIsHeld, LeavesItem, MayPost,
   Holds, Claimed, At

LEMMA ItemStepKeeps ==
    ASSUME TypeOK, ItemInv, [Next]_vars
    PROVE  ItemInv'
<1> USE DEF GoTo, Leave, At
<1>1. ASSUME NEW s \in Slots, ConnectStep(s) \/ CallbackStep(s)
      PROVE  LeavesItem(s)
  BY <1>1 DEF ConnectStep, BeginConnect, SaveGrant, IssueState, CallbackStep, FindState,
     ConsumeState, ExchangeCode, StoreTokens, ReadGrant, FinalizeGrant, FinalizeConnection,
     LeavesItem, Holds, Claimed, MayPost, Become, Noted, Idle, account, TypeOK
<1>2. ASSUME NEW s \in Slots, AccountStep(s), ~CancelItems(s)
      PROVE  LeavesItem(s) \/ UNCHANGED <<item, posts, late, req>>
  BY <1>2 DEF AccountStep, Disconnect, RevokeGrant, UpdatePermission, CheckAutoOn, WriteAutoOn,
     WriteAutoOff, LeavesItem, Holds, Claimed, MayPost, Become, Idle, account, TypeOK
<1>3. ASSUME NEW s \in Slots,
             \/ CheckApproval(s) \/ CheckRejection(s) \/ ReadItem(s) \/ ReloadItem(s)
             \/ \E autonomous \in BOOLEAN : PassGates(s, autonomous)
             \/ TakeToken(s) \/ StoreRefreshed(s) \/ InvalidGrant(s) \/ GiveUp(s)
      PROVE  LeavesItem(s)
  BY <1>3 DEF CheckApproval, CheckRejection, ReadItem, ReloadItem, PassGates, TakeToken,
     StoreRefreshed, InvalidGrant, GiveUp, LeavesItem, Holds, Claimed, MayPost, Become, Noted,
     Idle, account, TypeOK
<1>4. ASSUME NEW s \in Slots, CancelItems(s)
      PROVE  ItemInv'
  BY <1>4 DEF CancelItems, ItemInv, OnePoster, Clean, PublishedIsPosted, PublishingIsHeld,
     Holds, Claimed, MayPost, Become, Idle, account, TypeOK
<1>5. ASSUME NEW s \in Slots, WriteApproval(s) \/ WriteRejection(s)
      PROVE  ItemInv'
  BY <1>5 DEF WriteApproval, WriteRejection, Noted, ItemInv, OnePoster, Clean,
     PublishedIsPosted, PublishingIsHeld, Holds, Claimed, MayPost, Become, Idle, account, TypeOK
<1>6. ASSUME NEW s \in Slots, ClaimVideo(s) \/ ClaimEmail(s)
      PROVE  ItemInv'
  BY <1>6 DEF ClaimVideo, ClaimEmail, Noted, ItemInv, OnePoster, Clean, PublishedIsPosted,
     PublishingIsHeld, Holds, Claimed, MayPost, Become, account, TypeOK
<1>7. ASSUME NEW s \in Slots, Post(s)
      PROVE  ItemInv'
  BY <1>7 DEF Post, ItemInv, OnePoster, Clean, PublishedIsPosted, PublishingIsHeld, Holds,
     Claimed, MayPost, Become, account, TypeOK
<1>8. ASSUME NEW s \in Slots, RecordPublished(s) \/ RecordFailed(s)
      PROVE  ItemInv'
  BY <1>8 DEF RecordPublished, RecordFailed, ItemInv, OnePoster, Clean, PublishedIsPosted,
     PublishingIsHeld, Holds, Claimed, MayPost, Become, Idle, account, TypeOK
<1>9. ASSUME NEW s \in Slots, Abort(s)
      PROVE  ItemInv'
  BY <1>9 DEF Abort, Noted, ItemInv, OnePoster, Clean, PublishedIsPosted, PublishingIsHeld,
     Holds, Claimed, MayPost, Become, Idle, account, TypeOK
<1>10. CASE UNCHANGED <<item, posts, late, req>>
  BY <1>10 DEF ItemInv, OnePoster, Clean, PublishedIsPosted, PublishingIsHeld, MayPost, Holds
<1>11. QED
  BY <1>1, <1>2, <1>3, <1>4, <1>5, <1>6, <1>7, <1>8, <1>9, <1>10, LeavesItemKeeps
     DEF Next, AccountStep, ItemStep, vars

-----------------------------------------------------------------------------
(* The theorems.                                                             *)

CampaignInv == TypeOK /\ CredInv /\ ConsentInv /\ AutomaticIsSaid /\ ItemInv

LEMMA InitInv == Init => CampaignInv
<1> SUFFICES ASSUME Init
             PROVE  CampaignInv
  OBVIOUS
<1>1. TypeOK
  <2>1. cred \in Credential /\ before \subseteq Consents /\ posts \in 0 .. MaxPosts
    BY CampaignsAssumption DEF Init, Credential
  <2>2. grant \in Grant
    BY DEF Init, Grant
  <2>3. QED
    BY <2>1, <2>2, Requests DEF Init, TypeOK, Statuses, Late
<1>2. CredInv /\ AutomaticIsSaid
  BY DEF Init, CredInv, TokensBelong, AutomaticIsSaid, At, Idle
<1>3. ConsentInv
  BY DEF Init, ConsentInv, At, Idle, Returning
<1>4. ItemInv
  BY DEF Init, ItemInv, OnePoster, PublishedIsPosted, PublishingIsHeld, Holds, Claimed, MayPost,
     At, Idle
<1>5. QED
  BY <1>1, <1>2, <1>3, <1>4 DEF CampaignInv

LEMMA SpecInv == Spec => []CampaignInv
<1>1. CampaignInv /\ [Next]_vars => CampaignInv'
  BY TypeStep, CredStep, ConsentStep, AutomaticStep, ItemStepKeeps DEF CampaignInv
<1>2. QED
  BY InitInv, <1>1, PTL DEF Spec

\* Every variable has its type, whatever requests run and wherever they end.
THEOREM CampaignTypes == Spec => []TypeOK
<1>1. CampaignInv => TypeOK
  BY DEF CampaignInv
<1>2. QED
  BY SpecInv, <1>1, PTL

\* With any number of requests that overlap, fail and die, an item is posted twice
\* only after a late approval or a late claim of an email overwrote its row.
THEOREM CampaignPostsOnce == Spec => []PostedOnce
<1>1. CampaignInv => PostedOnce
  BY DEF CampaignInv, ItemInv, OnePoster, Clean, PostedOnce
<1>2. QED
  BY SpecInv, <1>1, PTL

\* An item that is shown as published was taken by Google (executeCampaignItemForActor).
THEOREM CampaignStatusHolds == Spec => []PublishedIsPosted
<1>1. CampaignInv => PublishedIsPosted
  BY DEF CampaignInv, ItemInv
<1>2. QED
  BY SpecInv, <1>1, PTL

\* An item that is PUBLISHING is in the hands of a request that will settle it,
\* unless such a request died.
THEOREM CampaignPublishingIsHeld == Spec => []PublishingIsHeld
<1>1. CampaignInv => PublishingIsHeld
  BY DEF CampaignInv, ItemInv
<1>2. QED
  BY SpecInv, <1>1, PTL

\* Stored tokens are those of the account the row names, and none once it is
\* revoked, unless a refresh wrote over a row that had changed.
THEOREM CampaignTokensBelong == Spec => []TokensBelong
<1>1. CampaignInv => TokensBelong
  BY DEF CampaignInv, CredInv
<1>2. QED
  BY SpecInv, <1>1, PTL

\* What is usable under a revoked grant was asked for before the revocation.
THEOREM CampaignRevokedIsOlder == Spec => []RevokedIsOlder
<1>1. CampaignInv => RevokedIsOlder
  BY DEF CampaignInv, TypeOK, Credential, Consents, CredInv, ConsentInv, RevokedIsOlder, Active
<1>2. QED
  BY SpecInv, <1>1, PTL

\* Automatic publishing is on only as the customer said last, stale callbacks apart.
THEOREM CampaignAutomaticIsSaid == Spec => []AutomaticIsSaid
<1>1. CampaignInv => AutomaticIsSaid
  BY DEF CampaignInv
<1>2. QED
  BY SpecInv, <1>1, PTL

\* A dead credential is revived by the tokens of a code alone.
THEOREM CampaignRevival == Spec => OnlyCallbackRevives
<1>1. CampaignInv /\ [Next]_vars =>
          [~Active /\ Active' => \E s \in Slots : At(s, "exchanged")]_vars
  BY RevivalStep DEF CampaignInv
<1>2. QED
  BY SpecInv, <1>1, PTL DEF Spec, OnlyCallbackRevives
=============================================================================

----------------------------- MODULE Campaigns -----------------------------
(***************************************************************************)
(* One external account of a workspace, YouTube or Gmail, and one campaign *)
(* item that is posted to it (src/agxora-v2/app/lib/social,                *)
(* lib/platform-authorization, lib/business-agent).                        *)
(*                                                                         *)
(* Four rows describe the account and no transaction spans them: the       *)
(* stored credential, the platform authorization (what the customer agreed *)
(* to), the permission flag of the connection (what execution asks) and    *)
(* the OAuth states that are under way.  Every request is a slot; one      *)
(* statement, or one call of Google, is one step, and a request may end    *)
(* after any of them (Abort).                                              *)
(*                                                                         *)
(* A consent is numbered by the request that asked for it and stands for   *)
(* the account and the tokens it leads to.  The mode of the agent, whether *)
(* a token has expired and what Google answers are chosen freely.          *)
(***************************************************************************)
EXTENDS Naturals, FiniteSets

CONSTANTS
    Slots,        \* requests under way at the same time
    MaxConsents,  \* bound: consents ever asked for
    MaxPosts,     \* bound: posts of the item
    MaxLate       \* bound: kinds of late writes in one behaviour

ASSUME CampaignsAssumption ==
    /\ IsFiniteSet(Slots)
    /\ MaxConsents \in Nat \ {0} /\ MaxPosts \in Nat \ {0} /\ MaxLate \in Nat

VARIABLES
    provider,   \* integration provider of the account and the item
    cred,       \* social_platform_credentials
    grant,      \* platform_authorizations with their permissions
    allowed,    \* integration_connections: canPublish, or canSendEmail for Gmail
    consent,    \* social_oauth_states, and whether Google took the code
    item,       \* status of the row of campaign_items
    posts,      \* how often Google took the item
    before,     \* consents asked for when the grant was last revoked
    word,       \* what the customer last said of automatic publishing
    late,       \* what was written over a row that was not as it was read
    req         \* what each slot is doing

account == <<cred, grant, allowed, consent, before, word>>
vars == <<provider, account, item, posts, late, req>>

Consents == 1 .. MaxConsents
Asked == {i \in Consents : consent[i] # "unasked"}

\* isActiveCredential: not revoked, and with a payload.
Active == cred.live = "active" /\ cred.tokens # 0

\* classifyConnectionStatus says connected, of a grant with a usable credential.
Connected == grant.status = "connected" /\ Active

Credential == [live : {"none", "active", "revoked"}, tokens : 0 .. MaxConsents,
               owner : 0 .. MaxConsents]
Grant == [status : {"none", "pending", "connected", "revoked"},
          perm : BOOLEAN, auto : BOOLEAN]
Statuses == {"NEEDS_APPROVAL", "APPROVED", "PUBLISHING", "PUBLISHED", "FAILED", "CANCELLED"}

Idle == [pc |-> "idle"]
AfterRevoke == {"leave", "fail"}        \* what follows a revocation
Request ==
    {Idle} \cup [pc : {"approve", "reject", "autoOn", "gates", "reload", "claim", "token",
                       "posted", "failed"}]
    \cup [pc : {"grant"}, consent : Consents, perm : BOOLEAN, auto : BOOLEAN]
    \cup [pc : {"issue", "found", "consumed", "exchanged"}, consent : Consents]
    \cup [pc : {"stored"}]
    \cup [pc : {"finalize"}, perm : BOOLEAN, auto : BOOLEAN]
    \cup [pc : {"flag"}, perm : BOOLEAN]
    \cup [pc : {"refresh", "post"}, tokens : Consents]
    \cup [pc : {"revokeGrant", "cancelItems"}, then : AfterRevoke]

At(s, pc) == req[s].pc = pc
Become(s, r) == req' = [req EXCEPT ![s] = r]
GoTo(s, pc) == Become(s, [pc |-> pc])
Leave(s) == Become(s, Idle)
Noted(kind, stale) ==
    /\ late' = IF stale THEN late \cup {kind} ELSE late
    /\ Cardinality(late') <= MaxLate

Init ==
    /\ provider \in {"youtube", "email_gmail"}
    /\ cred = [live |-> "none", tokens |-> 0, owner |-> 0]
    /\ grant = [status |-> "none", perm |-> FALSE, auto |-> FALSE]
    /\ allowed = FALSE
    /\ consent = [i \in Consents |-> "unasked"]
    /\ item = "NEEDS_APPROVAL"
    /\ posts = 0
    /\ before = {} /\ word = FALSE /\ late = {}
    /\ req = [s \in Slots |-> Idle]

-----------------------------------------------------------------------------
(* Connecting: the customer agrees to permissions, and Google is asked.      *)

\* Automatic publishing needs the permission to publish, which Gmail has not.
BeginConnect(s, i, perm, auto) ==
    /\ At(s, "idle")
    /\ i \notin Asked /\ 1 .. i - 1 \subseteq Asked
    /\ auto => perm /\ provider = "youtube"
    /\ allowed' = perm
    /\ consent' = [consent EXCEPT ![i] = "asked"]
    /\ Become(s, [pc |-> "grant", consent |-> i, perm |-> perm, auto |-> auto])
    /\ UNCHANGED <<provider, cred, grant, item, posts, before, word, late>>

\* Mutant: a grant that exists is updated without its status.
SaveGrantKeepingStatus(s) ==
    /\ At(s, "grant")
    /\ grant' = [status |-> IF grant.status = "none" THEN "pending" ELSE grant.status,
                 perm |-> req[s].perm, auto |-> req[s].auto]
    /\ word' = req[s].auto
    /\ Become(s, [pc |-> "issue", consent |-> req[s].consent])
    /\ UNCHANGED <<provider, cred, allowed, consent, item, posts, before, late>>

SaveGrant(s) ==
    /\ At(s, "grant")
    /\ grant' = [status |-> "pending", perm |-> req[s].perm, auto |-> req[s].auto]
    /\ word' = req[s].auto
    /\ Become(s, [pc |-> "issue", consent |-> req[s].consent])
    /\ UNCHANGED <<provider, cred, allowed, consent, item, posts, before, late>>

IssueState(s) ==
    /\ At(s, "issue")
    /\ consent' = [consent EXCEPT ![req[s].consent] = "issued"]
    /\ Leave(s)
    /\ UNCHANGED <<provider, cred, grant, allowed, item, posts, before, word, late>>

-----------------------------------------------------------------------------
(* The callback of Google.                                                   *)

FindState(s, i) ==
    /\ At(s, "idle")
    /\ consent[i] = "issued"
    /\ Become(s, [pc |-> "found", consent |-> i])
    /\ UNCHANGED <<provider, account, item, posts, late>>

\* The row is updated by its id: a second request that found it goes on as well.
ConsumeState(s) ==
    LET i == req[s].consent IN
    /\ At(s, "found")
    /\ consent' = [consent EXCEPT ![i] = IF consent[i] = "issued" THEN "consumed" ELSE consent[i]]
    /\ Become(s, [pc |-> "consumed", consent |-> i])
    /\ UNCHANGED <<provider, cred, grant, allowed, item, posts, before, word, late>>

\* Google takes a code once; a refusal ends the request (Abort).
ExchangeCode(s) ==
    LET i == req[s].consent IN
    /\ At(s, "consumed")
    /\ consent[i] = "consumed"
    /\ consent' = [consent EXCEPT ![i] = "exchanged"]
    /\ Become(s, [pc |-> "exchanged", consent |-> i])
    /\ UNCHANGED <<provider, cred, grant, allowed, item, posts, before, word, late>>

StoreTokens(s) ==
    LET i == req[s].consent IN
    /\ At(s, "exchanged")
    /\ cred' = [live |-> "active", tokens |-> i, owner |-> i]
    /\ GoTo(s, "stored")
    /\ UNCHANGED <<provider, grant, allowed, consent, item, posts, before, word, late>>

\* finalize reads the grant: its permission, as far as the granted scopes cover it.
ReadGrant(s, covered) ==
    /\ At(s, "stored")
    /\ Become(s, [pc |-> "finalize", perm |-> grant.perm /\ covered, auto |-> grant.auto])
    /\ UNCHANGED <<provider, account, item, posts, late>>

\* Mutant: automatic publishing follows from the permission to publish.
FinalizeGrantAutomatically(s) ==
    /\ At(s, "finalize")
    /\ IF grant.status = "revoked"
       THEN UNCHANGED <<grant, late>>
       ELSE /\ grant' = [status |-> "connected", perm |-> grant.perm, auto |-> req[s].perm]
            /\ Noted("finalize", req[s].auto /\ ~grant.auto)
    /\ Become(s, [pc |-> "flag", perm |-> req[s].perm])
    /\ UNCHANGED <<provider, cred, allowed, consent, item, posts, before, word>>

\* A grant revoked meanwhile stays so; another one takes what was read of the old.
FinalizeGrant(s) ==
    /\ At(s, "finalize")
    /\ IF grant.status = "revoked"
       THEN UNCHANGED <<grant, late>>
       ELSE /\ grant' = [status |-> "connected", perm |-> grant.perm,
                         auto |-> req[s].auto /\ req[s].perm]
            /\ Noted("finalize", req[s].auto /\ ~grant.auto)
    /\ Become(s, [pc |-> "flag", perm |-> req[s].perm])
    /\ UNCHANGED <<provider, cred, allowed, consent, item, posts, before, word>>

FinalizeConnection(s) ==
    /\ At(s, "flag")
    /\ allowed' = req[s].perm
    /\ Leave(s)
    /\ UNCHANGED <<provider, cred, grant, consent, item, posts, before, word, late>>

-----------------------------------------------------------------------------
(* Disconnecting, and what the customer may change while connected.          *)

\* Mutant: the payload of a revoked credential is kept.
Revoked(c) == [c EXCEPT !.live = "revoked"]

Emptied(c) == [live |-> "revoked", tokens |-> 0, owner |-> c.owner]

\* updateMany where revokedAt is null.
Disconnect(s) ==
    /\ At(s, "idle")
    /\ cred' = IF cred.live = "active" THEN Emptied(cred) ELSE cred
    /\ Become(s, [pc |-> "revokeGrant", then |-> "leave"])
    /\ UNCHANGED <<provider, grant, allowed, consent, item, posts, before, word, late>>

\* Mutant: the grant takes the status of the connection.
RevokeGrantAsDisconnected(s) ==
    /\ At(s, "revokeGrant")
    /\ IF grant.status = "none"
       THEN UNCHANGED <<grant, before, word>>
       ELSE /\ grant' = [status |-> "disconnected", perm |-> grant.perm, auto |-> FALSE]
            /\ before' = Asked
            /\ word' = FALSE
    /\ Become(s, [pc |-> "cancelItems", then |-> req[s].then])
    /\ UNCHANGED <<provider, cred, allowed, consent, item, posts, late>>

RevokeGrant(s) ==
    /\ At(s, "revokeGrant")
    /\ IF grant.status = "none"
       THEN UNCHANGED <<grant, before, word>>
       ELSE /\ grant' = [status |-> "revoked", perm |-> grant.perm, auto |-> FALSE]
            /\ before' = Asked
            /\ word' = FALSE
    /\ Become(s, [pc |-> "cancelItems", then |-> req[s].then])
    /\ UNCHANGED <<provider, cred, allowed, consent, item, posts, late>>

CancelItems(s) ==
    /\ At(s, "cancelItems")
    /\ item' = IF item = "PUBLISHING" THEN "CANCELLED" ELSE item
    /\ IF req[s].then = "fail" THEN GoTo(s, "failed") ELSE Leave(s)
    /\ UNCHANGED <<provider, account, posts, late>>

\* updatePermissionsForActor asks nothing of the grant or the credential.
UpdatePermission(s, flag) ==
    /\ At(s, "idle")
    /\ allowed' = flag
    /\ UNCHANGED <<provider, cred, grant, consent, item, posts, before, word, late, req>>

CheckAutoOn(s) ==
    /\ At(s, "idle")
    /\ provider = "youtube" /\ Connected /\ grant.perm
    /\ GoTo(s, "autoOn")
    /\ UNCHANGED <<provider, account, item, posts, late>>

WriteAutoOn(s) ==
    /\ At(s, "autoOn")
    /\ grant' = [grant EXCEPT !.auto = TRUE]
    /\ word' = TRUE
    /\ Leave(s)
    /\ UNCHANGED <<provider, cred, allowed, consent, item, posts, before, late>>

WriteAutoOff(s) ==
    /\ At(s, "idle")
    /\ grant.status # "none"
    /\ grant' = [grant EXCEPT !.auto = FALSE]
    /\ word' = FALSE
    /\ UNCHANGED <<provider, cred, allowed, consent, item, posts, before, late, req>>

-----------------------------------------------------------------------------
(* The item is approved or rejected: read, decide, write by id.              *)

CheckApproval(s) ==
    /\ At(s, "idle")
    /\ item = "NEEDS_APPROVAL"
    /\ GoTo(s, "approve")
    /\ UNCHANGED <<provider, account, item, posts, late>>

WriteApproval(s) ==
    /\ At(s, "approve")
    /\ item' = "APPROVED"
    /\ Noted("approval", item \notin {"NEEDS_APPROVAL", "APPROVED"})
    /\ Leave(s)
    /\ UNCHANGED <<provider, account, posts>>

CheckRejection(s) ==
    /\ At(s, "idle")
    /\ item \in {"NEEDS_APPROVAL", "APPROVED", "FAILED"}
    /\ GoTo(s, "reject")
    /\ UNCHANGED <<provider, account, item, posts, late>>

WriteRejection(s) ==
    /\ At(s, "reject")
    /\ item' = "CANCELLED"
    /\ Leave(s)
    /\ UNCHANGED <<provider, account, posts, late>>

-----------------------------------------------------------------------------
(* Executing the item.                                                       *)

ReadItem(s) ==
    /\ At(s, "idle")
    /\ item = "APPROVED"
    /\ GoTo(s, "gates")
    /\ UNCHANGED <<provider, account, item, posts, late>>

\* In the AUTONOMOUS mode a publish needs the automatic publishing as well.
AutomaticAllowed == Connected /\ grant.auto /\ grant.perm

PassGates(s, autonomous) ==
    /\ At(s, "gates")
    /\ allowed
    /\ autonomous /\ provider = "youtube" => AutomaticAllowed
    /\ GoTo(s, "reload")
    /\ UNCHANGED <<provider, account, item, posts, late>>

ReloadItem(s) ==
    /\ At(s, "reload")
    /\ item = "APPROVED"
    /\ GoTo(s, "claim")
    /\ UNCHANGED <<provider, account, item, posts, late>>

\* Mutant: the claim of a video is by id.
ClaimVideoById(s) ==
    /\ At(s, "claim") /\ provider = "youtube"
    /\ item' = "PUBLISHING"
    /\ GoTo(s, "token")
    /\ UNCHANGED <<provider, account, posts, late>>

\* A video is claimed where it is still approved.
ClaimVideo(s) ==
    /\ At(s, "claim") /\ provider = "youtube"
    /\ item = "APPROVED"
    /\ item' = "PUBLISHING"
    /\ GoTo(s, "token")
    /\ UNCHANGED <<provider, account, posts, late>>

\* An email is claimed by id.
ClaimEmail(s) ==
    /\ At(s, "claim") /\ provider = "email_gmail"
    /\ item' = "PUBLISHING"
    /\ Noted("claim", item # "APPROVED")
    /\ GoTo(s, "token")
    /\ UNCHANGED <<provider, account, posts>>

\* getValidAccessToken, after the permission to send is asked for once more.
TakeToken(s) ==
    /\ At(s, "token")
    /\ provider = "email_gmail" => allowed
    /\ Active
    /\ \E next \in {"post", "refresh"} : Become(s, [pc |-> next, tokens |-> cred.tokens])
    /\ UNCHANGED <<provider, account, item, posts, late>>

\* Mutant: the refresh stores the credential as a new one.
StoreRefreshedAsNew(s) ==
    LET t == req[s].tokens IN
    /\ At(s, "refresh")
    /\ cred' = [live |-> "active", tokens |-> t, owner |-> cred.owner]
    /\ Noted("refresh", cred.tokens # t)
    /\ Become(s, [pc |-> "post", tokens |-> t])
    /\ UNCHANGED <<provider, grant, allowed, consent, item, posts, before, word>>

\* The refreshed tokens are written by the id of the row, whatever it holds now.
StoreRefreshed(s) ==
    LET t == req[s].tokens IN
    /\ At(s, "refresh")
    /\ cred' = [cred EXCEPT !.tokens = t]
    /\ Noted("refresh", cred.tokens # t)
    /\ Become(s, [pc |-> "post", tokens |-> t])
    /\ UNCHANGED <<provider, grant, allowed, consent, item, posts, before, word>>

\* invalid_grant: the row is emptied by its id, then the grant is revoked.
InvalidGrant(s) ==
    /\ At(s, "refresh")
    /\ cred' = Emptied(cred)
    /\ Become(s, [pc |-> "revokeGrant", then |-> "fail"])
    /\ UNCHANGED <<provider, grant, allowed, consent, item, posts, before, word, late>>

\* Google takes the item; the answer may be lost.
Post(s) ==
    /\ At(s, "post")
    /\ posts < MaxPosts
    /\ posts' = posts + 1
    /\ \E answer \in {"posted", "failed"} : GoTo(s, answer)
    /\ UNCHANGED <<provider, account, item, late>>

\* Mutant: a failure is reported and not recorded.
GiveUpUnrecorded(s) ==
    /\ req[s].pc \in {"token", "refresh", "post"}
    /\ Leave(s)
    /\ UNCHANGED <<provider, account, item, posts, late>>

\* Mutant: what Google answers is not looked at.
GiveUpUnread(s) ==
    /\ req[s].pc \in {"token", "refresh", "post"}
    /\ GoTo(s, IF At(s, "post") THEN "posted" ELSE "failed")
    /\ UNCHANGED <<provider, account, item, posts, late>>

\* No token, no media, no permission any more, or Google refuses; an email that was
\* sent and cannot be recorded ends in the same handler.
GiveUp(s) ==
    /\ \/ req[s].pc \in {"token", "refresh", "post"}
       \/ At(s, "posted") /\ provider = "email_gmail"
    /\ GoTo(s, "failed")
    /\ UNCHANGED <<provider, account, item, posts, late>>

\* What follows the record of an email may fail, into the handler of failures.
RecordPublished(s) ==
    /\ At(s, "posted")
    /\ item' = "PUBLISHED"
    /\ Leave(s) \/ (provider = "email_gmail" /\ GoTo(s, "failed"))
    /\ UNCHANGED <<provider, account, posts, late>>

RecordFailed(s) ==
    /\ At(s, "failed")
    /\ item' = "FAILED"
    /\ Leave(s)
    /\ UNCHANGED <<provider, account, posts, late>>

\* What a request does once the item is claimed.
Claimed == {"token", "refresh", "post", "posted", "failed"}
Holds(s) == req[s].pc \in Claimed
    \/ (req[s].pc \in {"revokeGrant", "cancelItems"} /\ req[s].then = "fail")

-----------------------------------------------------------------------------
\* A check fails, a call throws or the process dies: the rows stay as they are.
Abort(s) ==
    /\ ~At(s, "idle")
    /\ Noted("death", Holds(s))
    /\ Leave(s)
    /\ UNCHANGED <<provider, account, item, posts>>

ConnectStep(s) ==
    \/ \E i \in Consents : \E perm, auto \in BOOLEAN : BeginConnect(s, i, perm, auto)
    \/ SaveGrant(s) \/ IssueState(s)

CallbackStep(s) ==
    \/ \E i \in Consents : FindState(s, i)
    \/ ConsumeState(s) \/ ExchangeCode(s) \/ StoreTokens(s)
    \/ \E covered \in BOOLEAN : ReadGrant(s, covered)
    \/ FinalizeGrant(s) \/ FinalizeConnection(s)

AccountStep(s) ==
    \/ Disconnect(s) \/ RevokeGrant(s) \/ CancelItems(s)
    \/ \E flag \in BOOLEAN : UpdatePermission(s, flag)
    \/ CheckAutoOn(s) \/ WriteAutoOn(s) \/ WriteAutoOff(s)

ItemStep(s) ==
    \/ CheckApproval(s) \/ WriteApproval(s) \/ CheckRejection(s) \/ WriteRejection(s)
    \/ ReadItem(s) \/ ReloadItem(s) \/ ClaimVideo(s) \/ ClaimEmail(s)
    \/ \E autonomous \in BOOLEAN : PassGates(s, autonomous)
    \/ TakeToken(s) \/ StoreRefreshed(s) \/ InvalidGrant(s)
    \/ Post(s) \/ GiveUp(s) \/ RecordPublished(s) \/ RecordFailed(s)

Next == \E s \in Slots :
    ConnectStep(s) \/ CallbackStep(s) \/ AccountStep(s) \/ ItemStep(s) \/ Abort(s)

Spec == Init /\ [][Next]_vars

-----------------------------------------------------------------------------
Late == {"approval", "claim", "refresh", "finalize", "death"}

TypeOK ==
    /\ provider \in {"youtube", "email_gmail"}
    /\ cred \in Credential
    /\ grant \in Grant
    /\ allowed \in BOOLEAN
    /\ consent \in [Consents -> {"unasked", "asked", "issued", "consumed", "exchanged"}]
    /\ item \in Statuses
    /\ posts \in 0 .. MaxPosts
    /\ before \subseteq Consents
    /\ word \in BOOLEAN
    /\ late \subseteq Late
    /\ req \in [Slots -> Request]

\* The item is posted once, whatever fails, is lost or dies, unless a row was
\* overwritten: an approval that was decided before the item was posted, or the
\* claim of an email, which is by id (gmail-campaign.ts:35).
PostedOnce == posts <= 1 \/ {"approval", "claim"} \cap late # {}

\* What is shown as published was taken by Google.
PublishedIsPosted == item = "PUBLISHED" => posts > 0

\* An item that is PUBLISHING has a request that will settle it; only the death of
\* such a request leaves it so, and then nothing takes it up again.
PublishingIsHeld == item = "PUBLISHING" => "death" \in late \/ \E s \in Slots : Holds(s)

\* The stored tokens are those of the account the row names, and a revoked row has
\* none (docs/platform-authorization.md:17, "clears stored credentials"), unless a
\* refresh that overlapped a disconnect or another callback wrote them back.
TokensBelong ==
    cred.tokens # 0 => (cred.live = "active" /\ cred.tokens = cred.owner) \/ "refresh" \in late

\* A credential that is usable under a revoked grant comes from a consent the
\* customer was asked for before the revocation, never from a later one.
RevokedIsOlder == Active /\ grant.status = "revoked" => cred.owner \in before

\* Automatic publishing is on only if the customer said so last, unless a callback
\* that read the grant before wrote its old value back.
AutomaticIsSaid == grant.auto => word \/ "finalize" \in late

\* A credential that was disconnected or refused comes back to life only when a
\* callback stores the tokens of a code, never through a refresh under way.
OnlyCallbackRevives ==
    [][~Active /\ Active' => \E s \in Slots : At(s, "exchanged")]_vars
=============================================================================

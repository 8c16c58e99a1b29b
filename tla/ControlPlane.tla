---------------------------- MODULE ControlPlane ----------------------------
(***************************************************************************)
(* The control plane of one organization: memberships, invitations,        *)
(* workspaces and the transfer of ownership                                *)
(* (src/agxora-v2/app/lib/control-plane/service.ts, tenancy/authorize.ts,  *)
(* the seat check of billing/enforce.ts).                                  *)
(*                                                                         *)
(* A request resolves its actor, reads and checks what it needs, and       *)
(* writes; the rows may change between those three.  No row that a check   *)
(* read is locked, and Postgres runs Read Committed, so this is so inside  *)
(* the transactions of acceptInvitation and confirmOwnershipTransfer too.  *)
(* The organization has a paid subscription.  Names, slugs, audit rows and *)
(* the workspace a session points at are left out.                         *)
(***************************************************************************)
EXTENDS Naturals, FiniteSets

CONSTANTS
    Users,
    Workspaces,
    Founder,    \* the user the organization was registered by
    Home,       \* and its first workspace
    Invites,    \* invitation rows
    Transfers,  \* ownership transfer rows
    MaxRows,    \* bound: how many of both are made
    Slots,      \* requests under way at the same time
    Seats       \* seats of the plan

ASSUME ControlAssumption ==
    /\ Founder \in Users /\ Home \in Workspaces
    /\ IsFiniteSet(Users) /\ IsFiniteSet(Workspaces)
    /\ IsFiniteSet(Invites) /\ IsFiniteSet(Transfers)
    /\ MaxRows \in Nat /\ Seats \in Nat \ {0}

VARIABLES
    org,        \* ownerId, the workspaces made and the archived ones
    member,     \* memberships, one row at most per user and workspace
    invite,     \* invitations
    transfer,   \* ownership_transfers
    call        \* what each slot is doing

vars == <<org, member, invite, transfer, call>>

Roles == {"OWNER", "ADMIN", "MEMBER"}
Rank(role) == IF role = "OWNER" THEN 3 ELSE IF role = "ADMIN" THEN 2 ELSE 1

NoMember == [status |-> "none", role |-> "MEMBER"]
MemberRow == [status : {"none", "ACTIVE", "REVOKED"}, role : Roles]

\* made: the row exists; expired: its expiresAt has passed.
NoInvite == [made |-> FALSE, ws |-> Home, user |-> Founder, role |-> "MEMBER",
             accepted |-> FALSE, revoked |-> FALSE, expired |-> FALSE]
InviteRow == [made : BOOLEAN, ws : Workspaces, user : Users, role : Roles \ {"OWNER"},
              accepted : BOOLEAN, revoked : BOOLEAN, expired : BOOLEAN]

NoTransfer == [made |-> FALSE, ws |-> Home, from |-> Founder, to |-> Founder,
               confirmed |-> FALSE, cancelled |-> FALSE, expired |-> FALSE]
TransferRow == [made : BOOLEAN, ws : Workspaces, from : Users, to : Users,
                confirmed : BOOLEAN, cancelled : BOOLEAN, expired : BOOLEAN]

\* A call is idle, has resolved its actor, or is about to write.
Idle == [pc |-> "idle"]
Call == {Idle}
    \cup [pc : {"actor"}, user : Users, ws : Workspaces, role : Roles]
    \cup [pc : {"setRole", "invite"}, user : Users, ws : Workspaces, role : Roles \ {"OWNER"}]
    \cup [pc : {"revokeMember"}, user : Users, ws : Workspaces]
    \cup [pc : {"revokeInvite", "insert", "reactivate"}, invite : Invites]
    \cup [pc : {"archive"}, ws : Workspaces]
    \cup [pc : {"transfer"}, from : Users, to : Users, ws : Workspaces]
    \cup [pc : {"cancel", "confirm"}, transfer : Transfers]

At(c, pc) == call[c].pc = pc
Go(c, next) == call' = [call EXCEPT ![c] = next]
Leave(c) == Go(c, Idle)

Init ==
    /\ org = [owner |-> Founder, made |-> {Home}, archived |-> {}]
    /\ member = [u \in Users |-> [w \in Workspaces |->
                    IF u = Founder /\ w = Home
                    THEN [status |-> "ACTIVE", role |-> "OWNER"] ELSE NoMember]]
    /\ invite = [i \in Invites |-> NoInvite]
    /\ transfer = [t \in Transfers |-> NoTransfer]
    /\ call = [c \in Slots |-> Idle]

-----------------------------------------------------------------------------
(* What the checks ask.                                                     *)

Active(u, w) == member[u][w].status = "ACTIVE"
IsOwner(u, w) == Active(u, w) /\ member[u][w].role = "OWNER"
Pending(i) == invite[i].made /\ ~invite[i].accepted /\ ~invite[i].revoked /\ ~invite[i].expired
Open(t) ==
    transfer[t].made /\ ~transfer[t].confirmed /\ ~transfer[t].cancelled /\ ~transfer[t].expired
RowIsLeft ==
    Cardinality({i \in Invites : invite[i].made})
        + Cardinality({t \in Transfers : transfer[t].made}) < MaxRows
Unarchived == org.made \ org.archived
SeatHolders == {u \in Users : \E w \in Workspaces : Active(u, w)}

\* assertControl: what an ADMIN may do, and what takes an OWNER.
IsManager(role) == role \in {"OWNER", "ADMIN"}

\* assertCanManageTarget
CanManage(role, targetRole) ==
    /\ IsManager(role) /\ targetRole # "OWNER"
    /\ role = "ADMIN" => targetRole = "MEMBER"

\* Mutant: an own rank may be granted.
CanGrantUpTo(role, next) == Rank(role) >= Rank(next)

\* assertCanGrantRole
CanGrant(role, next) == next # "OWNER" /\ Rank(role) > Rank(next)

\* Mutant: the seats of the workspace are counted, not those of the organization.
SeatFreeInWorkspace(u, w) ==
    u \in SeatHolders \/ Cardinality({v \in Users : Active(v, w)}) < Seats

\* assertSeatAvailable, under the lock of the subscription row.
SeatFree(u, w) == u \in SeatHolders \/ Cardinality(SeatHolders) < Seats

-----------------------------------------------------------------------------
\* resolveActorFromToken: the user, a workspace of theirs and the role there.
Resolve(c) ==
    /\ At(c, "idle")
    /\ \E u \in Users, w \in Unarchived :
         /\ Active(u, w)
         /\ Go(c, [pc |-> "actor", user |-> u, ws |-> w, role |-> member[u][w].role])
    /\ UNCHANGED <<org, member, invite, transfer>>

(* Members.                                                                 *)

ChangeMemberRole(c) ==
    LET a == call[c] IN
    /\ At(c, "actor")
    /\ \E u \in Users \ {a.user}, next \in Roles :
         /\ Active(u, a.ws)
         /\ CanManage(a.role, member[u][a.ws].role)
         /\ CanGrant(a.role, next)
         /\ Go(c, [pc |-> "setRole", user |-> u, ws |-> a.ws, role |-> next])
    /\ UNCHANGED <<org, member, invite, transfer>>

SetRole(c) ==
    LET a == call[c] IN
    /\ At(c, "setRole")
    /\ member' = [member EXCEPT ![a.user][a.ws].role = a.role]
    /\ Leave(c)
    /\ UNCHANGED <<org, invite, transfer>>

RemoveMember(c) ==
    LET a == call[c] IN
    /\ At(c, "actor")
    /\ \E u \in Users \ {a.user} :
         /\ Active(u, a.ws)
         /\ CanManage(a.role, member[u][a.ws].role)
         /\ Go(c, [pc |-> "revokeMember", user |-> u, ws |-> a.ws])
    /\ UNCHANGED <<org, member, invite, transfer>>

RevokeMember(c) ==
    LET a == call[c] IN
    /\ At(c, "revokeMember")
    /\ member' = [member EXCEPT ![a.user][a.ws].status = "REVOKED"]
    /\ Leave(c)
    /\ UNCHANGED <<org, invite, transfer>>

(* Workspaces.                                                              *)

CreateWorkspace(c) ==
    LET a == call[c] IN
    /\ At(c, "actor") /\ a.role = "OWNER"
    /\ \E w \in Workspaces \ org.made :
         /\ org' = [org EXCEPT !.made = @ \cup {w}]
         /\ member' = [member EXCEPT ![a.user][w] = [status |-> "ACTIVE", role |-> "OWNER"]]
    /\ Leave(c)
    /\ UNCHANGED <<invite, transfer>>

\* Mutant: the archived workspaces are counted too.
ArchiveIfSeveral(c) ==
    /\ At(c, "actor") /\ call[c].role = "OWNER"
    /\ Cardinality(org.made) > 1
    /\ Go(c, [pc |-> "archive", ws |-> call[c].ws])
    /\ UNCHANGED <<org, member, invite, transfer>>

ArchiveWorkspace(c) ==
    /\ At(c, "actor") /\ call[c].role = "OWNER"
    /\ Cardinality(Unarchived) > 1
    /\ Go(c, [pc |-> "archive", ws |-> call[c].ws])
    /\ UNCHANGED <<org, member, invite, transfer>>

SetArchived(c) ==
    /\ At(c, "archive")
    /\ org' = [org EXCEPT !.archived = @ \cup {call[c].ws}]
    /\ Leave(c)
    /\ UNCHANGED <<member, invite, transfer>>

(* Invitations.                                                             *)

\* Mutant: only a pending invitation to the same role is in the way.
CreateInvitationPerRole(c) ==
    LET a == call[c] IN
    /\ At(c, "actor") /\ IsManager(a.role)
    /\ \E u \in Users, role \in Roles :
         /\ CanGrant(a.role, role)
         /\ ~Active(u, a.ws)
         /\ ~\E i \in Invites : /\ Pending(i) /\ invite[i].role = role
                               /\ invite[i].user = u /\ invite[i].ws = a.ws
         /\ Go(c, [pc |-> "invite", user |-> u, ws |-> a.ws, role |-> role])
    /\ UNCHANGED <<org, member, invite, transfer>>

CreateInvitation(c) ==
    LET a == call[c] IN
    /\ At(c, "actor") /\ IsManager(a.role)
    /\ \E u \in Users, role \in Roles :
         /\ CanGrant(a.role, role)
         /\ ~Active(u, a.ws)
         /\ ~\E i \in Invites : Pending(i) /\ invite[i].user = u /\ invite[i].ws = a.ws
         /\ Go(c, [pc |-> "invite", user |-> u, ws |-> a.ws, role |-> role])
    /\ UNCHANGED <<org, member, invite, transfer>>

InsertInvitation(c) ==
    LET a == call[c] IN
    /\ At(c, "invite") /\ RowIsLeft
    /\ \E i \in Invites :
         /\ ~invite[i].made
         /\ invite' = [invite EXCEPT ![i] =
                [NoInvite EXCEPT !.made = TRUE, !.ws = a.ws, !.user = a.user, !.role = a.role]]
    /\ Leave(c)
    /\ UNCHANGED <<org, member, transfer>>

\* Mutant: an accepted invitation may be revoked.
RevokeAnyInvitation(c) ==
    /\ At(c, "actor") /\ IsManager(call[c].role)
    /\ \E i \in Invites :
         /\ invite[i].made /\ invite[i].ws = call[c].ws /\ ~invite[i].revoked
         /\ Go(c, [pc |-> "revokeInvite", invite |-> i])
    /\ UNCHANGED <<org, member, invite, transfer>>

RevokeInvitation(c) ==
    /\ At(c, "actor") /\ IsManager(call[c].role)
    /\ \E i \in Invites :
         /\ invite[i].made /\ invite[i].ws = call[c].ws
         /\ ~invite[i].accepted /\ ~invite[i].revoked
         /\ call[c].role = "ADMIN" => invite[i].role = "MEMBER"
         /\ Go(c, [pc |-> "revokeInvite", invite |-> i])
    /\ UNCHANGED <<org, member, invite, transfer>>

SetRevoked(c) ==
    /\ At(c, "revokeInvite")
    /\ invite' = [invite EXCEPT ![call[c].invite].revoked = TRUE]
    /\ Leave(c)
    /\ UNCHANGED <<org, member, transfer>>

\* acceptInvitation, by the user it is addressed to, up to the seat check.
AcceptInvitation(c) ==
    /\ At(c, "idle")
    /\ \E i \in Invites :
         LET row == member[invite[i].user][invite[i].ws] IN
         /\ Pending(i) /\ invite[i].ws \notin org.archived
         /\ row.status # "ACTIVE"
         /\ Go(c, [pc |-> IF row.status = "none" THEN "insert" ELSE "reactivate",
                   invite |-> i])
    /\ UNCHANGED <<org, member, invite, transfer>>

\* The seat check, the membership and acceptedAt; a refusal or the unique
\* (user, workspace) undoes the transaction.
Join(c) ==
    LET i == call[c].invite
        u == invite[i].user
        w == invite[i].ws
    IN
    /\ At(c, "insert") \/ At(c, "reactivate")
    /\ IF SeatFree(u, w) /\ (At(c, "insert") => member[u][w].status = "none")
       THEN /\ member' = [member EXCEPT ![u][w] = [status |-> "ACTIVE", role |-> invite[i].role]]
            /\ invite' = [invite EXCEPT ![i].accepted = TRUE]
       ELSE UNCHANGED <<member, invite>>
    /\ Leave(c)
    /\ UNCHANGED <<org, transfer>>

(* The transfer of ownership.                                               *)

InitiateTransfer(c) ==
    LET a == call[c] IN
    /\ At(c, "actor") /\ a.role = "OWNER" /\ org.owner = a.user
    /\ ~\E t \in Transfers : Open(t)
    /\ \E u \in Users \ {a.user} :
         /\ Active(u, a.ws) /\ member[u][a.ws].role # "OWNER"
         /\ Go(c, [pc |-> "transfer", from |-> a.user, to |-> u, ws |-> a.ws])
    /\ UNCHANGED <<org, member, invite, transfer>>

InsertTransfer(c) ==
    LET a == call[c] IN
    /\ At(c, "transfer") /\ RowIsLeft
    /\ \E t \in Transfers :
         /\ ~transfer[t].made
         /\ transfer' = [transfer EXCEPT ![t] =
                [NoTransfer EXCEPT !.made = TRUE, !.ws = a.ws, !.from = a.from, !.to = a.to]]
    /\ Leave(c)
    /\ UNCHANGED <<org, member, invite>>

CancelTransfer(c) ==
    /\ At(c, "actor") /\ call[c].role = "OWNER"
    /\ \E t \in Transfers :
         /\ Open(t) /\ transfer[t].from = call[c].user
         /\ Go(c, [pc |-> "cancel", transfer |-> t])
    /\ UNCHANGED <<org, member, invite, transfer>>

SetCancelled(c) ==
    /\ At(c, "cancel")
    /\ transfer' = [transfer EXCEPT ![call[c].transfer].cancelled = TRUE]
    /\ Leave(c)
    /\ UNCHANGED <<org, member, invite>>

\* Mutant: the recipient may have been removed since.
ConfirmToLeaver(c) ==
    /\ At(c, "idle")
    /\ \E t \in Transfers :
         LET r == transfer[t] IN
         /\ Open(t) /\ org.owner = r.from
         /\ IsOwner(r.from, r.ws)
         /\ ~IsOwner(r.to, r.ws)
         /\ Go(c, [pc |-> "confirm", transfer |-> t])
    /\ UNCHANGED <<org, member, invite, transfer>>

\* confirmOwnershipTransfer, by its recipient: what the transaction reads.
ConfirmTransfer(c) ==
    /\ At(c, "idle")
    /\ \E t \in Transfers :
         LET r == transfer[t] IN
         /\ Open(t) /\ org.owner = r.from
         /\ IsOwner(r.from, r.ws)
         /\ Active(r.to, r.ws) /\ ~IsOwner(r.to, r.ws)
         /\ Go(c, [pc |-> "confirm", transfer |-> t])
    /\ UNCHANGED <<org, member, invite, transfer>>

\* Mutant: the roles change hands, the organization does not.
HandOverRoles(c) ==
    LET r == transfer[call[c].transfer] IN
    /\ At(c, "confirm")
    /\ member' = [member EXCEPT ![r.from][r.ws].role = "ADMIN", ![r.to][r.ws].role = "OWNER"]
    /\ transfer' = [transfer EXCEPT ![call[c].transfer].confirmed = TRUE]
    /\ Leave(c)
    /\ UNCHANGED <<org, invite>>

HandOver(c) ==
    LET r == transfer[call[c].transfer] IN
    /\ At(c, "confirm")
    /\ org' = [org EXCEPT !.owner = r.to]
    /\ member' = [member EXCEPT ![r.from][r.ws].role = "ADMIN", ![r.to][r.ws].role = "OWNER"]
    /\ transfer' = [transfer EXCEPT ![call[c].transfer].confirmed = TRUE]
    /\ Leave(c)
    /\ UNCHANGED invite

-----------------------------------------------------------------------------
\* The request fails between two steps, or the server dies.
Abandon(c) ==
    /\ ~At(c, "idle")
    /\ Leave(c)
    /\ UNCHANGED <<org, member, invite, transfer>>

\* Asked of a pending row only.
InviteExpires(i) ==
    /\ Pending(i)
    /\ invite' = [invite EXCEPT ![i].expired = TRUE]
    /\ UNCHANGED <<org, member, transfer, call>>

TransferExpires(t) ==
    /\ Open(t)
    /\ transfer' = [transfer EXCEPT ![t].expired = TRUE]
    /\ UNCHANGED <<org, member, invite, call>>

Request(c) ==
    \/ Resolve(c) \/ Abandon(c)
    \/ ChangeMemberRole(c) \/ SetRole(c) \/ RemoveMember(c) \/ RevokeMember(c)
    \/ CreateWorkspace(c) \/ ArchiveWorkspace(c) \/ SetArchived(c)
    \/ CreateInvitation(c) \/ InsertInvitation(c)
    \/ RevokeInvitation(c) \/ SetRevoked(c)
    \/ AcceptInvitation(c) \/ Join(c)
    \/ InitiateTransfer(c) \/ InsertTransfer(c)
    \/ CancelTransfer(c) \/ SetCancelled(c)
    \/ ConfirmTransfer(c) \/ HandOver(c)

Next ==
    \/ \E c \in Slots : Request(c)
    \/ \E i \in Invites : InviteExpires(i)
    \/ \E t \in Transfers : TransferExpires(t)

Spec == Init /\ [][Next]_vars

-----------------------------------------------------------------------------
TypeOK ==
    /\ org \in [owner : Users, made : SUBSET Workspaces, archived : SUBSET Workspaces]
    /\ member \in [Users -> [Workspaces -> MemberRow]]
    /\ invite \in [Invites -> InviteRow]
    /\ transfer \in [Transfers -> TransferRow]
    /\ call \in [Slots -> Call]

\* "There is always exactly one workspace OWNER"
\* (docs/PHASE_44_ORGANIZATION_WORKSPACE_CONTROL_PLANE.md:65).
OneOwner == \A w \in org.made : Cardinality({u \in Users : IsOwner(u, w)}) = 1

\* The owner of the organization owns a workspace of it: ownership never ends up
\* with someone who was removed, demoted or never joined.
OwnerIsAnOwner == \E w \in org.made : IsOwner(org.owner, w)

\* The checks before an insert do what no index does: at most one transfer is
\* open, and at most one invitation per workspace and person.
OneIsPending ==
    /\ \A t, v \in Transfers : Open(t) /\ Open(v) => t = v
    /\ \A i, j \in Invites :
         /\ Pending(i) /\ Pending(j)
         /\ invite[i].ws = invite[j].ws /\ invite[i].user = invite[j].user
         => i = j

\* An invitation is accepted or revoked, a transfer confirmed or cancelled, never
\* both: what the one answered is not undone by the other.
SettledOneWay ==
    /\ \A i \in Invites : ~(invite[i].accepted /\ invite[i].revoked)
    /\ \A t \in Transfers : ~(transfer[t].confirmed /\ transfer[t].cancelled)

\* archiveWorkspace leaves a workspace to work in, however many are made, handed
\* over and archived.
SomeWorkspaceStays == Unarchived # {}

\* The members of the organization, over all its workspaces, fit the plan.
SeatsHold == Cardinality(SeatHolders) <= Seats
=============================================================================

---------------------------- MODULE ControlProofs ----------------------------
(***************************************************************************)
(* What the control plane keeps, for any number of users, workspaces,      *)
(* invitations, transfers, seats and request slots.                        *)
(*                                                                         *)
(* None of its rules survives two requests that overlap (the run           *)
(* control_owners shows one that does not), so what is proved is in two    *)
(* steps: a write keeps every rule as long as what its request checked is  *)
(* still so (Fresh), however many requests are under way; and what was     *)
(* checked is still so when requests do not overlap (NoOverlap).           *)
(***************************************************************************)
EXTENDS ControlPlane, FiniteSetTheorems, TLAPS

-----------------------------------------------------------------------------
(* Types.                                                                   *)

LEMMA GoType ==
    ASSUME TypeOK, NEW c \in Slots, NEW next, Go(c, next)
    PROVE  /\ next \in Call => call' \in [Slots -> Call]
           /\ call'[c] = next
           /\ \A d \in Slots : d # c => call'[d] = call[d]
BY DEF TypeOK, Go

LEMMA LeaveType ==
    ASSUME TypeOK, NEW c \in Slots, Leave(c)
    PROVE  /\ call' \in [Slots -> Call]
           /\ call'[c] = Idle
           /\ \A d \in Slots : d # c => call'[d] = call[d]
BY GoType DEF Leave, Call

\* What the calls carry.
LEMMA CallType ==
    ASSUME TypeOK, NEW c \in Slots
    PROVE  /\ At(c, "actor") =>
                /\ call[c].user \in Users /\ call[c].ws \in Workspaces
                /\ call[c].role \in Roles
           /\ At(c, "revokeMember") => call[c].user \in Users /\ call[c].ws \in Workspaces
           /\ At(c, "setRole") \/ At(c, "invite") =>
                /\ call[c].user \in Users /\ call[c].ws \in Workspaces
                /\ call[c].role \in Roles \ {"OWNER"}
           /\ At(c, "archive") => call[c].ws \in Workspaces
           /\ At(c, "revokeInvite") \/ At(c, "insert") \/ At(c, "reactivate") =>
                call[c].invite \in Invites
           /\ At(c, "transfer") =>
                /\ call[c].from \in Users /\ call[c].to \in Users
                /\ call[c].ws \in Workspaces
           /\ At(c, "cancel") \/ At(c, "confirm") => call[c].transfer \in Transfers
BY DEF TypeOK, At, Call, Idle

\* The membership of one person, changed.
LEMMA MemberType ==
    ASSUME TypeOK, NEW u \in Users, NEW w \in Workspaces,
           NEW role \in Roles, NEW status \in {"none", "ACTIVE", "REVOKED"}
    PROVE  /\ [member EXCEPT ![u][w].role = role] \in [Users -> [Workspaces -> MemberRow]]
           /\ [member EXCEPT ![u][w].status = status] \in [Users -> [Workspaces -> MemberRow]]
           /\ [member EXCEPT ![u][w] = [status |-> status, role |-> role]]
                \in [Users -> [Workspaces -> MemberRow]]
<1>1. member[u] \in [Workspaces -> MemberRow] /\ member[u][w] \in MemberRow
  BY DEF TypeOK
<1>2. /\ [member[u][w] EXCEPT !.role = role] \in MemberRow
      /\ [member[u][w] EXCEPT !.status = status] \in MemberRow
      /\ [status |-> status, role |-> role] \in MemberRow
  BY <1>1 DEF MemberRow
<1>3. \A row \in MemberRow :
        [member EXCEPT ![u] = [member[u] EXCEPT ![w] = row]]
            \in [Users -> [Workspaces -> MemberRow]]
  BY <1>1 DEF TypeOK
<1>4. QED
  BY <1>2, <1>3

(* A step of a request that only reads.                                     *)
Reads(c) ==
    \/ Resolve(c) \/ Abandon(c) \/ ChangeMemberRole(c) \/ RemoveMember(c)
    \/ ArchiveWorkspace(c) \/ CreateInvitation(c) \/ RevokeInvitation(c)
    \/ AcceptInvitation(c) \/ InitiateTransfer(c) \/ CancelTransfer(c)
    \/ ConfirmTransfer(c)

\* One that writes.
Writes(c) ==
    \/ SetRole(c) \/ RevokeMember(c) \/ CreateWorkspace(c) \/ SetArchived(c)
    \/ InsertInvitation(c) \/ SetRevoked(c) \/ Join(c)
    \/ InsertTransfer(c) \/ SetCancelled(c) \/ HandOver(c)

LEMMA RequestIs ==
    ASSUME NEW c \in Slots, Request(c)
    PROVE  Reads(c) \/ Writes(c)
BY DEF Request, Reads, Writes

LEMMA ReadsLeaveRows ==
    ASSUME NEW c \in Slots, Reads(c)
    PROVE  UNCHANGED <<org, member, invite, transfer>>
BY DEF Reads, Resolve, Abandon, ChangeMemberRole, RemoveMember, ArchiveWorkspace,
       CreateInvitation, RevokeInvitation, AcceptInvitation, InitiateTransfer,
       CancelTransfer, ConfirmTransfer

LEMMA ReadsType ==
    ASSUME TypeOK, NEW c \in Slots, Reads(c)
    PROVE  /\ call' \in [Slots -> Call]
           /\ \A d \in Slots : d # c => call'[d] = call[d]
<1>1. PICK next : Go(c, next) /\ next \in Call
  <2>1. ASSUME Resolve(c) PROVE \E next : Go(c, next) /\ next \in Call
    <3>1. PICK u \in Users, w \in Unarchived :
            Go(c, [pc |-> "actor", user |-> u, ws |-> w, role |-> member[u][w].role])
      BY <2>1 DEF Resolve
    <3>2. w \in Workspaces /\ member[u][w].role \in Roles
      BY DEF TypeOK, MemberRow, Unarchived
    <3>3. QED
      BY <3>1, <3>2 DEF Call
  <2>2. ASSUME Abandon(c) PROVE \E next : Go(c, next) /\ next \in Call
    BY <2>2 DEF Abandon, Leave, Call
  <2>3. ASSUME ChangeMemberRole(c) PROVE \E next : Go(c, next) /\ next \in Call
    BY <2>3, CallType DEF ChangeMemberRole, CanGrant, Call
  <2>4. ASSUME RemoveMember(c) PROVE \E next : Go(c, next) /\ next \in Call
    BY <2>4, CallType DEF RemoveMember, Call
  <2>5. ASSUME ArchiveWorkspace(c) PROVE \E next : Go(c, next) /\ next \in Call
    BY <2>5, CallType DEF ArchiveWorkspace, Call
  <2>6. ASSUME CreateInvitation(c) PROVE \E next : Go(c, next) /\ next \in Call
    BY <2>6, CallType DEF CreateInvitation, CanGrant, Call
  <2>7. ASSUME RevokeInvitation(c) PROVE \E next : Go(c, next) /\ next \in Call
    BY <2>7 DEF RevokeInvitation, Call
  <2>8. ASSUME AcceptInvitation(c) PROVE \E next : Go(c, next) /\ next \in Call
    BY <2>8 DEF AcceptInvitation, Call
  <2>9. ASSUME InitiateTransfer(c) PROVE \E next : Go(c, next) /\ next \in Call
    BY <2>9, CallType DEF InitiateTransfer, Call
  <2>10. ASSUME CancelTransfer(c) PROVE \E next : Go(c, next) /\ next \in Call
    BY <2>10 DEF CancelTransfer, Call
  <2>11. ASSUME ConfirmTransfer(c) PROVE \E next : Go(c, next) /\ next \in Call
    BY <2>11 DEF ConfirmTransfer, Call
  <2>12. QED
    BY <2>1, <2>2, <2>3, <2>4, <2>5, <2>6, <2>7, <2>8, <2>9, <2>10, <2>11 DEF Reads
<1>2. QED
  BY <1>1, GoType

LEMMA WritesType ==
    ASSUME TypeOK, NEW c \in Slots, Writes(c)
    PROVE  TypeOK'
<1>1. Leave(c)
  BY DEF Writes, SetRole, RevokeMember, CreateWorkspace, SetArchived, InsertInvitation,
         SetRevoked, Join, InsertTransfer, SetCancelled, HandOver
<1>2. call' \in [Slots -> Call]
  BY <1>1, LeaveType
<1>3. ASSUME SetRole(c) PROVE TypeOK'
  BY <1>2, <1>3, CallType, MemberType DEF SetRole, TypeOK, Roles
<1>4. ASSUME RevokeMember(c) PROVE TypeOK'
  BY <1>2, <1>4, CallType, MemberType DEF RevokeMember, TypeOK, Roles
<1>5. ASSUME CreateWorkspace(c) PROVE TypeOK'
  <2> DEFINE u == call[c].user
             owner == [status |-> "ACTIVE", role |-> "OWNER"]
  <2>1. u \in Users
    BY <1>5, CallType DEF CreateWorkspace
  <2>2. PICK w \in Workspaces \ org.made :
          /\ org' = [org EXCEPT !.made = @ \cup {w}]
          /\ member' = [member EXCEPT ![u][w] = owner]
    BY <1>5 DEF CreateWorkspace
  <2>3. member' \in [Users -> [Workspaces -> MemberRow]]
    BY <2>1, <2>2, MemberType DEF Roles
  <2>4. org' \in [owner : Users, made : SUBSET Workspaces, archived : SUBSET Workspaces]
    BY <2>2 DEF TypeOK
  <2>5. QED
    BY <1>2, <1>5, <2>3, <2>4 DEF CreateWorkspace, TypeOK
<1>6. ASSUME SetArchived(c) PROVE TypeOK'
  BY <1>2, <1>6, CallType DEF SetArchived, TypeOK
<1>7. ASSUME InsertInvitation(c) PROVE TypeOK'
  <2> DEFINE row == [NoInvite EXCEPT !.made = TRUE, !.ws = call[c].ws,
                                     !.user = call[c].user, !.role = call[c].role]
  <2>1. row \in InviteRow
    BY <1>7, CallType DEF InsertInvitation, InviteRow, NoInvite
  <2>2. PICK i \in Invites : invite' = [invite EXCEPT ![i] = row]
    BY <1>7 DEF InsertInvitation
  <2>3. invite' \in [Invites -> InviteRow]
    BY <2>1, <2>2 DEF TypeOK
  <2>4. QED
    BY <1>2, <1>7, <2>3 DEF InsertInvitation, TypeOK
<1>8. ASSUME SetRevoked(c) PROVE TypeOK'
  <2>1. call[c].invite \in Invites
    BY <1>8, CallType DEF SetRevoked
  <2>2. [invite[call[c].invite] EXCEPT !.revoked = TRUE] \in InviteRow
    BY <2>1, ZenonT(60) DEF TypeOK, InviteRow
  <2>3. invite' \in [Invites -> InviteRow]
    BY <1>8, <2>2 DEF SetRevoked, TypeOK
  <2>4. QED
    BY <1>2, <1>8, <2>3 DEF SetRevoked, TypeOK
<1>9. ASSUME Join(c) PROVE TypeOK'
  <2>1. /\ call[c].invite \in Invites
        /\ invite[call[c].invite] \in InviteRow
    BY <1>9, CallType DEF Join, TypeOK
  <2>2. [invite EXCEPT ![call[c].invite].accepted = TRUE] \in [Invites -> InviteRow]
    BY <2>1 DEF TypeOK, InviteRow
  <2>3. [member EXCEPT ![invite[call[c].invite].user][invite[call[c].invite].ws] =
            [status |-> "ACTIVE", role |-> invite[call[c].invite].role]]
                \in [Users -> [Workspaces -> MemberRow]]
    BY <2>1, MemberType DEF InviteRow
  <2>4. QED
    BY <1>2, <1>9, <2>2, <2>3 DEF Join, TypeOK
<1>10. ASSUME InsertTransfer(c) PROVE TypeOK'
  <2> DEFINE row == [NoTransfer EXCEPT !.made = TRUE, !.ws = call[c].ws,
                                       !.from = call[c].from, !.to = call[c].to]
  <2>1. row \in TransferRow
    BY <1>10, CallType DEF InsertTransfer, TransferRow, NoTransfer
  <2>2. PICK t \in Transfers : transfer' = [transfer EXCEPT ![t] = row]
    BY <1>10 DEF InsertTransfer
  <2>3. transfer' \in [Transfers -> TransferRow]
    BY <2>1, <2>2 DEF TypeOK
  <2>4. QED
    BY <1>2, <1>10, <2>3 DEF InsertTransfer, TypeOK
<1>11. ASSUME SetCancelled(c) PROVE TypeOK'
  BY <1>2, <1>11, CallType, ZenonT(60) DEF SetCancelled, TypeOK, TransferRow
<1>12. ASSUME HandOver(c) PROVE TypeOK'
  <2> DEFINE t == call[c].transfer
             r == transfer[t]
             handed == [member EXCEPT ![r.from][r.ws].role = "ADMIN"]
  <2>1. t \in Transfers /\ r \in TransferRow
    BY <1>12, CallType DEF HandOver, TypeOK
  <2>2. r.from \in Users /\ r.to \in Users /\ r.ws \in Workspaces
    BY <2>1 DEF TransferRow
  <2>3. handed \in [Users -> [Workspaces -> MemberRow]]
    BY <2>2, MemberType DEF Roles
  <2>4. [handed EXCEPT ![r.to][r.ws].role = "OWNER"] \in [Users -> [Workspaces -> MemberRow]]
    <3> HIDE DEF handed, r
    <3>1. handed[r.to] \in [Workspaces -> MemberRow] /\ handed[r.to][r.ws] \in MemberRow
      BY <2>2, <2>3
    <3>2. [handed[r.to][r.ws] EXCEPT !.role = "OWNER"] \in MemberRow
      BY <3>1 DEF MemberRow, Roles
    <3>3. [handed[r.to] EXCEPT ![r.ws] = [handed[r.to][r.ws] EXCEPT !.role = "OWNER"]]
                \in [Workspaces -> MemberRow]
      BY <2>2, <3>1, <3>2
    <3>4. QED
      BY <2>2, <2>3, <3>3
  <2>5. [transfer EXCEPT ![t].confirmed = TRUE] \in [Transfers -> TransferRow]
    BY <2>1 DEF TypeOK, TransferRow
  <2>6. [org EXCEPT !.owner = r.to]
            \in [owner : Users, made : SUBSET Workspaces, archived : SUBSET Workspaces]
    BY <2>2 DEF TypeOK
  <2>7. QED
    BY <1>2, <1>12, <2>4, <2>5, <2>6 DEF HandOver, TypeOK
<1>13. QED
  BY <1>3, <1>4, <1>5, <1>6, <1>7, <1>8, <1>9, <1>10, <1>11, <1>12 DEF Writes

\* A step of any request, or the passing of time, keeps the types.
LEMMA TypeStep ==
    ASSUME TypeOK, [Next]_vars
    PROVE  TypeOK'
<1>1. ASSUME NEW c \in Slots, Request(c) PROVE TypeOK'
  <2>1. CASE Reads(c)
    BY <2>1, ReadsLeaveRows, ReadsType DEF TypeOK
  <2>2. CASE Writes(c)
    BY <2>2, WritesType
  <2>3. QED
    BY <1>1, <2>1, <2>2, RequestIs
<1>2. ASSUME NEW i \in Invites, InviteExpires(i) PROVE TypeOK'
  BY <1>2 DEF InviteExpires, TypeOK, InviteRow
<1>3. ASSUME NEW t \in Transfers, TransferExpires(t) PROVE TypeOK'
  BY <1>3 DEF TransferExpires, TypeOK, TransferRow
<1>4. CASE UNCHANGED vars
  BY <1>4 DEF vars, TypeOK
<1>5. QED
  BY <1>1, <1>2, <1>3, <1>4 DEF Next

LEMMA TypeInit == Init => TypeOK
<1> SUFFICES ASSUME Init PROVE TypeOK
  OBVIOUS
<1>1. NoMember \in MemberRow /\ [status |-> "ACTIVE", role |-> "OWNER"] \in MemberRow
  BY DEF NoMember, MemberRow, Roles
<1>2. NoInvite \in InviteRow /\ NoTransfer \in TransferRow
  BY ControlAssumption DEF NoInvite, InviteRow, NoTransfer, TransferRow, Roles
<1>3. QED
  BY <1>1, <1>2, ControlAssumption DEF Init, TypeOK, Call

\* The rows and the calls keep their types: an invitation never grants ownership,
\* and a call never carries a row that is not there, however requests overlap.
THEOREM ControlTypes == Spec => []TypeOK
BY TypeInit, TypeStep, PTL DEF Spec

-----------------------------------------------------------------------------
(* The inductive invariant.                                                 *)

\* Nobody is in a workspace that was not made, no invitation is to one, and the
\* rows a call is about exist.
MadeFirst ==
    /\ \A w \in Workspaces \ org.made, u \in Users : ~Active(u, w)
    /\ \A i \in Invites : invite[i].made => invite[i].ws \in org.made
    /\ \A c \in Slots :
         /\ At(c, "actor") \/ At(c, "invite") => call[c].ws \in org.made
         /\ At(c, "insert") \/ At(c, "reactivate") => invite[call[c].invite].made

\* OneOwner, said of the owners instead of their number.
SoleOwner ==
    \A w \in org.made :
        /\ \E u \in Users : IsOwner(u, w)
        /\ \A u, v \in Users : IsOwner(u, w) /\ IsOwner(v, w) => u = v

Rules ==
    /\ SoleOwner /\ OwnerIsAnOwner
    /\ OneIsPending /\ SettledOneWay
    /\ SomeWorkspaceStays /\ SeatsHold

\* What the request of slot c checked before the write it is about to make still
\* holds of the rows.  Only the expiry of an invitation or a transfer may have
\* passed since.
Fresh(c) ==
    LET a == call[c] IN
    /\ At(c, "actor") => Active(a.user, a.ws) /\ member[a.user][a.ws].role = a.role
    /\ At(c, "setRole") => member[a.user][a.ws].role # "OWNER"
    /\ At(c, "revokeMember") => member[a.user][a.ws].role # "OWNER"
    /\ At(c, "archive") => Cardinality(Unarchived) > 1
    /\ At(c, "invite") =>
         ~\E i \in Invites : Pending(i) /\ invite[i].user = a.user /\ invite[i].ws = a.ws
    /\ At(c, "revokeInvite") => ~invite[a.invite].accepted
    /\ At(c, "insert") \/ At(c, "reactivate") =>
         /\ ~invite[a.invite].accepted /\ ~invite[a.invite].revoked
         /\ ~Active(invite[a.invite].user, invite[a.invite].ws)
    /\ At(c, "transfer") => ~\E t \in Transfers : Open(t)
    /\ At(c, "cancel") => ~transfer[a.transfer].confirmed
    /\ At(c, "confirm") =>
         LET r == transfer[a.transfer] IN
         /\ ~r.cancelled
         /\ IsOwner(r.from, r.ws) /\ Active(r.to, r.ws) /\ ~IsOwner(r.to, r.ws)

AllFresh == \A c \in Slots : Fresh(c)

\* At most one request is under way.
NoOverlap == \A c, d \in Slots : ~At(c, "idle") /\ ~At(d, "idle") => c = d

\* changeMemberRole writes the role of one membership, and it is not ownership.
LEMMA RoleChanged ==
    ASSUME TypeOK, NEW c \in Slots, SetRole(c)
    PROVE  \E u \in Users, w \in Workspaces :
             /\ u = call[c].user /\ w = call[c].ws
             /\ \A v \in Users, x \in Workspaces :
                  /\ member'[v][x].status = member[v][x].status
                  /\ v # u \/ x # w => member'[v][x] = member[v][x]
             /\ member'[u][w].role # "OWNER"
<1>0. PICK u \in Users, w \in Workspaces, role \in Roles \ {"OWNER"} :
        /\ u = call[c].user /\ w = call[c].ws
        /\ member' = [member EXCEPT ![u][w].role = role]
  BY CallType DEF SetRole
<1>1. /\ member \in [Users -> [Workspaces -> MemberRow]]
      /\ \A v \in Users, x \in Workspaces : member[v][x] \in MemberRow
  BY DEF TypeOK
<1>2. /\ \A v \in Users, x \in Workspaces :
            v # u \/ x # w => member'[v][x] = member[v][x]
      /\ member'[u][w] = [member[u][w] EXCEPT !.role = role]
  BY <1>0, <1>1
<1>3. /\ [member[u][w] EXCEPT !.role = role].role = role
      /\ [member[u][w] EXCEPT !.role = role].status = member[u][w].status
  BY <1>1 DEF MemberRow
<1>4. /\ \A v \in Users, x \in Workspaces :
            /\ member'[v][x].status = member[v][x].status
            /\ v # u \/ x # w => member'[v][x] = member[v][x]
      /\ member'[u][w].role # "OWNER"
  BY <1>2, <1>3
<1>5. QED
  BY <1>0, <1>4, Zenon

LEMMA RowChanged ==
    ASSUME TypeOK, NEW u \in Users, NEW w \in Workspaces, NEW row,
           member' = [member EXCEPT ![u][w] = row]
    PROVE  /\ \A v \in Users, x \in Workspaces :
                v # u \/ x # w => member'[v][x] = member[v][x]
           /\ member'[u][w] = row
BY DEF TypeOK

LEMMA Removed ==
    ASSUME TypeOK, NEW u \in Users, NEW w \in Workspaces,
           member' = [member EXCEPT ![u][w].status = "REVOKED"]
    PROVE  /\ \A v \in Users, x \in Workspaces :
                v # u \/ x # w => member'[v][x] = member[v][x]
           /\ ~Active(u, w)'
<1> DEFINE row == [member[u][w] EXCEPT !.status = "REVOKED"]
<1>1. member[u][w] \in MemberRow
  BY DEF TypeOK
<1>2. row.status = "REVOKED"
  BY <1>1 DEF MemberRow
<1>3. member' = [member EXCEPT ![u][w] = row]
  BY DEF TypeOK
<1>4. QED
  <2> HIDE DEF row
  <2>1. /\ member'[u][w] = row
        /\ \A v \in Users, x \in Workspaces :
             v # u \/ x # w => member'[v][x] = member[v][x]
    BY <1>3 DEF TypeOK
  <2>2. QED
    BY <1>2, <2>1 DEF Active

\* The hand-over changes two roles and the owner of the organization.
LEMMA HandedOver ==
    ASSUME TypeOK, NEW c \in Slots, HandOver(c)
    PROVE  \E t \in Transfers, from \in Users, to \in Users, ws \in Workspaces :
             /\ t = call[c].transfer /\ from = transfer[t].from /\ to = transfer[t].to
             /\ ws = transfer[t].ws
             /\ \A u \in Users, w \in Workspaces :
                  /\ member'[u][w].status = member[u][w].status
                  /\ w # ws \/ u \notin {from, to} => member'[u][w] = member[u][w]
             /\ member'[to][ws].role = "OWNER"
             /\ from # to => member'[from][ws].role = "ADMIN"
             /\ org'.owner = to /\ org'.made = org.made /\ org'.archived = org.archived
<1>1. PICK t \in Transfers, from \in Users, to \in Users, ws \in Workspaces :
        /\ t = call[c].transfer /\ from = transfer[t].from /\ to = transfer[t].to
        /\ ws = transfer[t].ws
  <2>1. call[c].transfer \in Transfers /\ transfer[call[c].transfer] \in TransferRow
    BY CallType DEF HandOver, TypeOK
  <2>2. QED
    BY <2>1 DEF TransferRow
<1> DEFINE handed == [member EXCEPT ![from][ws].role = "ADMIN"]
<1>2. handed \in [Users -> [Workspaces -> MemberRow]]
  BY MemberType DEF Roles
<1>3. \A u \in Users, w \in Workspaces : member[u][w] \in MemberRow
  BY DEF TypeOK
<1>4. /\ \A u \in Users, w \in Workspaces :
            u # from \/ w # ws => handed[u][w] = member[u][w]
      /\ handed[from][ws] = [member[from][ws] EXCEPT !.role = "ADMIN"]
  BY DEF TypeOK
<1>5. member' = [handed EXCEPT ![to][ws].role = "OWNER"]
  BY <1>1 DEF HandOver
<1>6. org'.owner = to /\ org'.made = org.made /\ org'.archived = org.archived
  BY <1>1 DEF HandOver, TypeOK
<1> HIDE DEF handed
<1>7. /\ handed[from][ws].role = "ADMIN"
      /\ handed[from][ws].status = member[from][ws].status
  BY <1>3, <1>4 DEF MemberRow
<1>8. /\ \A u \in Users, w \in Workspaces :
            /\ member'[u][w].status = handed[u][w].status
            /\ u # to \/ w # ws => member'[u][w] = handed[u][w]
      /\ member'[to][ws].role = "OWNER"
  <2>1. \A u \in Users, w \in Workspaces : handed[u][w] \in MemberRow
    BY <1>2
  <2>2. QED
    BY <1>2, <1>5, <2>1 DEF MemberRow
<1>9. /\ \A u \in Users, w \in Workspaces :
            /\ member'[u][w].status = member[u][w].status
            /\ w # ws \/ u \notin {from, to} => member'[u][w] = member[u][w]
      /\ member'[to][ws].role = "OWNER"
      /\ from # to => member'[from][ws].role = "ADMIN"
  <2>1. ASSUME NEW u \in Users, NEW w \in Workspaces
        PROVE  /\ member'[u][w].status = member[u][w].status
               /\ w # ws \/ u \notin {from, to} => member'[u][w] = member[u][w]
    <3>1. handed[u][w].status = member[u][w].status
      BY <1>4, <1>7
    <3>2. QED
      BY <1>4, <1>8, <3>1
  <2>2. from # to => member'[from][ws].role = "ADMIN"
    BY <1>7, <1>8
  <2>3. QED
    BY <1>8, <2>1, <2>2
<1>10. WITNESS t \in Transfers, from \in Users, to \in Users, ws \in Workspaces
<1>11. QED
  BY <1>1, <1>6, <1>9, Zenon

\* An invitation or a transfer is inserted with nothing decided yet.
LEMMA InsertedInvite ==
    ASSUME TypeOK, NEW c \in Slots, InsertInvitation(c)
    PROVE  \E i \in Invites :
             /\ ~invite[i].made
             /\ \A j \in Invites : j # i => invite'[j] = invite[j]
             /\ invite'[i].made /\ ~invite'[i].accepted /\ ~invite'[i].revoked
             /\ invite'[i].ws = call[c].ws /\ invite'[i].user = call[c].user
BY DEF InsertInvitation, TypeOK, NoInvite

LEMMA InsertedTransfer ==
    ASSUME TypeOK, NEW c \in Slots, InsertTransfer(c)
    PROVE  \E t \in Transfers :
             /\ \A v \in Transfers : v # t => transfer'[v] = transfer[v]
             /\ ~transfer'[t].confirmed /\ ~transfer'[t].cancelled
BY DEF InsertTransfer, TypeOK, NoTransfer

\* A flag of one row is set.
LEMMA InviteFlag ==
    ASSUME TypeOK, NEW i \in Invites,
           \/ invite' = [invite EXCEPT ![i].revoked = TRUE]
           \/ invite' = [invite EXCEPT ![i].accepted = TRUE]
           \/ invite' = [invite EXCEPT ![i].expired = TRUE]
    PROVE  /\ \A j \in Invites : j # i => invite'[j] = invite[j]
           /\ invite'[i].made = invite[i].made
           /\ invite'[i].ws = invite[i].ws /\ invite'[i].user = invite[i].user
           /\ invite[i].accepted => invite'[i].accepted
           /\ invite[i].revoked => invite'[i].revoked
           /\ invite[i].expired => invite'[i].expired
<1>1. invite \in [Invites -> InviteRow] /\ invite[i] \in InviteRow
  BY DEF TypeOK
<1>2. QED
  BY <1>1 DEF InviteRow

-----------------------------------------------------------------------------
(* Workspaces exist before what is in them, however requests overlap.       *)

LEMMA ReadsKeepMade ==
    ASSUME TypeOK, MadeFirst, NEW c \in Slots, Reads(c)
    PROVE  MadeFirst'
<1>1. UNCHANGED <<org, member, invite, transfer>>
  BY ReadsLeaveRows
<1>2. \A d \in Slots : d # c => call'[d] = call[d]
  BY ReadsType
<1>3. PICK next : Go(c, next)
  BY DEF Reads, Resolve, Abandon, ChangeMemberRole, RemoveMember, ArchiveWorkspace,
         CreateInvitation, RevokeInvitation, AcceptInvitation, InitiateTransfer,
         CancelTransfer, ConfirmTransfer, Leave
<1>4. call'[c] = next
  BY <1>3, GoType
<1>5. /\ At(c, "actor")' \/ At(c, "invite")' => call'[c].ws \in org.made
      /\ At(c, "insert")' \/ At(c, "reactivate")' => invite[call'[c].invite].made
  <2>1. ASSUME Resolve(c) PROVE call'[c].pc = "actor" /\ call'[c].ws \in org.made
    BY <2>1, GoType DEF Resolve, Unarchived
  <2>2. ASSUME CreateInvitation(c) PROVE call'[c].pc = "invite" /\ call'[c].ws \in org.made
    BY <2>2, GoType DEF CreateInvitation, MadeFirst
  <2>3. ASSUME AcceptInvitation(c)
        PROVE  /\ call'[c].pc \in {"insert", "reactivate"}
               /\ invite[call'[c].invite].made
    BY <2>3, GoType DEF AcceptInvitation, Pending
  <2>4. ASSUME \/ Abandon(c) \/ ChangeMemberRole(c) \/ RemoveMember(c)
               \/ ArchiveWorkspace(c) \/ RevokeInvitation(c) \/ InitiateTransfer(c)
               \/ CancelTransfer(c) \/ ConfirmTransfer(c)
        PROVE  call'[c].pc \notin {"actor", "invite", "insert", "reactivate"}
    <3>1. ASSUME Abandon(c) PROVE call'[c].pc = "idle"
      BY <3>1, LeaveType DEF Abandon, Idle
    <3>2. ASSUME ChangeMemberRole(c) PROVE call'[c].pc = "setRole"
      BY <3>2, GoType DEF ChangeMemberRole
    <3>3. ASSUME RemoveMember(c) PROVE call'[c].pc = "revokeMember"
      BY <3>3, GoType DEF RemoveMember
    <3>4. ASSUME ArchiveWorkspace(c) PROVE call'[c].pc = "archive"
      BY <3>4, GoType DEF ArchiveWorkspace
    <3>5. ASSUME RevokeInvitation(c) PROVE call'[c].pc = "revokeInvite"
      BY <3>5, GoType DEF RevokeInvitation
    <3>6. ASSUME InitiateTransfer(c) PROVE call'[c].pc = "transfer"
      BY <3>6, GoType DEF InitiateTransfer
    <3>7. ASSUME CancelTransfer(c) PROVE call'[c].pc = "cancel"
      BY <3>7, GoType DEF CancelTransfer
    <3>8. ASSUME ConfirmTransfer(c) PROVE call'[c].pc = "confirm"
      BY <3>8, GoType DEF ConfirmTransfer
    <3>9. QED
      BY <2>4, <3>1, <3>2, <3>3, <3>4, <3>5, <3>6, <3>7, <3>8
  <2>5. QED
    BY <2>1, <2>2, <2>3, <2>4 DEF Reads, At
<1>6. QED
  BY <1>1, <1>2, <1>5 DEF MadeFirst, Active, At

\* What a write changes of the workspaces, the members and the invitations.
LEMMA WritesKeepMade ==
    ASSUME TypeOK, MadeFirst, NEW c \in Slots, Writes(c)
    PROVE  MadeFirst'
<1>1. Leave(c)
  BY DEF Writes, SetRole, RevokeMember, CreateWorkspace, SetArchived, InsertInvitation,
         SetRevoked, Join, InsertTransfer, SetCancelled, HandOver
<1>2. \A d \in Slots : call'[d] = call[d] \/ call'[d] = Idle
  BY <1>1, LeaveType
<1>3. SUFFICES /\ org.made \subseteq org'.made
               /\ \A w \in Workspaces \ org'.made, u \in Users : ~Active(u, w)'
               /\ \A i \in Invites : /\ invite'[i].made => invite'[i].ws \in org'.made
                                     /\ invite[i].made => invite'[i].made
  BY <1>2, CallType DEF MadeFirst, At, Idle
<1> DEFINE Goal == /\ org.made \subseteq org'.made
                   /\ \A w \in Workspaces \ org'.made, u \in Users : ~Active(u, w)'
                   /\ \A i \in Invites : /\ invite'[i].made => invite'[i].ws \in org'.made
                                         /\ invite[i].made => invite'[i].made
<1>4. ASSUME SetRole(c) PROVE Goal
  <2>1. /\ UNCHANGED <<org, invite>>
        /\ \A v \in Users, x \in Workspaces : member'[v][x].status = member[v][x].status
    BY <1>4, RoleChanged DEF SetRole
  <2>2. QED
    BY <2>1 DEF MadeFirst, Active
<1>5. ASSUME RevokeMember(c) PROVE Goal
  <2>1. UNCHANGED <<org, invite>>
    BY <1>5 DEF RevokeMember
  <2>2. PICK u \in Users, w \in Workspaces :
          member' = [member EXCEPT ![u][w].status = "REVOKED"]
    BY <1>5, CallType DEF RevokeMember
  <2>3. /\ \A v \in Users, x \in Workspaces : v # u \/ x # w => member'[v][x] = member[v][x]
        /\ ~Active(u, w)'
    BY <2>2, Removed
  <2>4. \A v \in Users, x \in Workspaces : Active(v, x)' => Active(v, x)
    BY <2>3 DEF Active
  <2>5. QED
    BY <2>1, <2>4 DEF MadeFirst
<1>6. ASSUME CreateWorkspace(c) PROVE Goal
  <2>1. PICK w \in Workspaces \ org.made :
          /\ org' = [org EXCEPT !.made = @ \cup {w}]
          /\ member' = [member EXCEPT ![call[c].user][w] =
                            [status |-> "ACTIVE", role |-> "OWNER"]]
    BY <1>6 DEF CreateWorkspace
  <2>2. org'.made = org.made \cup {w}
    BY <2>1 DEF TypeOK
  <2>3. \A u \in Users, x \in Workspaces : x # w => member'[u][x] = member[u][x]
    BY <1>6, <2>1, CallType, RowChanged DEF CreateWorkspace
  <2>4. QED
    BY <1>6, <2>2, <2>3 DEF CreateWorkspace, MadeFirst, Active
<1>7. ASSUME SetArchived(c) PROVE Goal
  BY <1>7 DEF SetArchived, MadeFirst, Active, TypeOK
<1>8. ASSUME InsertInvitation(c) PROVE Goal
  <2>1. UNCHANGED <<org, member>> /\ call[c].ws \in org.made
    BY <1>8 DEF InsertInvitation, MadeFirst
  <2>2. QED
    BY <1>8, <2>1, InsertedInvite DEF MadeFirst, Active
<1>9. ASSUME SetRevoked(c) PROVE Goal
  BY <1>9, CallType, InviteFlag DEF SetRevoked, MadeFirst, Active
<1>10. ASSUME Join(c) PROVE Goal
  <2> DEFINE i == call[c].invite
  <2>1. i \in Invites /\ invite[i].made /\ invite[i].ws \in org.made /\ org' = org
    BY <1>10, CallType DEF Join, MadeFirst
  <2>2. CASE UNCHANGED <<member, invite>>
    BY <2>1, <2>2 DEF MadeFirst, Active
  <2>3. CASE /\ member' = [member EXCEPT ![invite[i].user][invite[i].ws] =
                              [status |-> "ACTIVE", role |-> invite[i].role]]
             /\ invite' = [invite EXCEPT ![i].accepted = TRUE]
    <3>1. invite[i].user \in Users /\ invite[i].ws \in Workspaces
      BY <2>1 DEF TypeOK, InviteRow
    <3>2. \A u \in Users, w \in Workspaces :
            w # invite[i].ws => member'[u][w] = member[u][w]
      BY <2>3, <3>1 DEF TypeOK
    <3>3. \A j \in Invites : invite'[j].made = invite[j].made /\ invite'[j].ws = invite[j].ws
      BY <2>1, <2>3, InviteFlag
    <3>4. QED
      BY <2>1, <3>2, <3>3 DEF MadeFirst, Active
  <2>4. QED
    BY <1>10, <2>2, <2>3 DEF Join
<1>11. ASSUME InsertTransfer(c) \/ SetCancelled(c) PROVE Goal
  BY <1>11 DEF InsertTransfer, SetCancelled, MadeFirst, Active
<1>12. ASSUME HandOver(c) PROVE Goal
  <2>1. /\ invite' = invite /\ org'.made = org.made
        /\ \A v \in Users, x \in Workspaces : member'[v][x].status = member[v][x].status
    <3>1. invite' = invite
      BY <1>12 DEF HandOver
    <3>2. QED
      BY <1>12, <3>1, HandedOver
  <2>2. QED
    BY <2>1 DEF MadeFirst, Active
<1>13. QED
  BY <1>4, <1>5, <1>6, <1>7, <1>8, <1>9, <1>10, <1>11, <1>12 DEF Writes

LEMMA MadeStep ==
    ASSUME TypeOK, MadeFirst, [Next]_vars
    PROVE  MadeFirst'
<1>1. ASSUME NEW c \in Slots, Request(c) PROVE MadeFirst'
  BY <1>1, RequestIs, ReadsKeepMade, WritesKeepMade
<1>2. ASSUME NEW i \in Invites, InviteExpires(i) PROVE MadeFirst'
  <2>1. /\ UNCHANGED <<org, member, call>>
        /\ \A j \in Invites : invite'[j].made = invite[j].made /\ invite'[j].ws = invite[j].ws
    BY <1>2, InviteFlag DEF InviteExpires
  <2>2. QED
    BY <2>1, CallType DEF MadeFirst, Active, At
<1>3. CASE (\E t \in Transfers : TransferExpires(t)) \/ UNCHANGED vars
  BY <1>3 DEF TransferExpires, vars, MadeFirst, Active, At
<1>4. QED
  BY <1>1, <1>2, <1>3 DEF Next

LEMMA MadeInit == Init => MadeFirst
BY DEF Init, MadeFirst, Active, At, Idle, NoMember, NoInvite

-----------------------------------------------------------------------------
(* A rule whose rows did not change is kept.                                *)

LEMMA OwnersKept ==
    ASSUME SoleOwner, OwnerIsAnOwner,
           org'.made = org.made, org'.owner = org.owner, TypeOK,
           \A u \in Users, w \in Workspaces : IsOwner(u, w)' <=> IsOwner(u, w)
    PROVE  SoleOwner' /\ OwnerIsAnOwner'
<1>1. org.made \subseteq Workspaces /\ org.owner \in Users
  BY DEF TypeOK
<1>2. SoleOwner'
  BY <1>1 DEF SoleOwner
<1>3. \A w \in Workspaces : (member'[org'.owner][w].status = "ACTIVE"
                                /\ member'[org'.owner][w].role = "OWNER")
                             <=> IsOwner(org.owner, w)
  BY <1>1 DEF IsOwner, Active
<1>4. OwnerIsAnOwner'
  BY <1>1, <1>3 DEF OwnerIsAnOwner, IsOwner, Active
<1>5. QED
  BY <1>2, <1>4

LEMMA PendingKept ==
    ASSUME OneIsPending,
           \A t \in Transfers : Open(t)' => Open(t),
           \A i \in Invites : Pending(i)' => /\ Pending(i)
                                             /\ invite'[i].ws = invite[i].ws
                                             /\ invite'[i].user = invite[i].user
    PROVE  OneIsPending'
BY DEF OneIsPending

LEMMA HoldersFinite ==
    /\ IsFiniteSet(SeatHolders) /\ Cardinality(SeatHolders) \in Nat
    /\ IsFiniteSet(SeatHolders') /\ Cardinality(SeatHolders') \in Nat
<1>1. SeatHolders \subseteq Users /\ SeatHolders' \subseteq Users
  BY DEF SeatHolders
<1>2. IsFiniteSet(SeatHolders) /\ IsFiniteSet(SeatHolders')
  BY <1>1, ControlAssumption, FS_Subset
<1>3. QED
  BY <1>2, FS_CardinalityType

LEMMA SeatsKept ==
    ASSUME SeatsHold,
           \A u \in Users, w \in Workspaces : Active(u, w)' => u \in SeatHolders
    PROVE  SeatsHold'
<1>1. SeatHolders' \subseteq SeatHolders
  BY DEF SeatHolders
<1>2. Cardinality(SeatHolders') <= Cardinality(SeatHolders)
  BY <1>1, HoldersFinite, FS_Subset
<1>3. Seats \in Nat
  BY ControlAssumption
<1>4. Cardinality(SeatHolders') <= Seats
  BY <1>2, <1>3, HoldersFinite DEF SeatsHold
<1>5. QED
  BY <1>4 DEF SeatsHold

\* assertSeatAvailable lets one more person in at most.
LEMMA SeatTaken ==
    ASSUME SeatsHold, NEW u \in Users, NEW v \in Workspaces, SeatFree(u, v),
           \A x \in Users, w \in Workspaces : x # u /\ Active(x, w)' => Active(x, w)
    PROVE  SeatsHold'
<1> DEFINE H == SeatHolders
<1>1. CASE u \in H
  <2>1. \A x \in Users, w \in Workspaces : Active(x, w)' => x \in SeatHolders
    BY <1>1 DEF SeatHolders
  <2>2. QED
    BY <2>1, SeatsKept
<1>2. CASE u \notin H
  <2>1. Cardinality(H) < Seats
    BY <1>2 DEF SeatFree
  <2>2. SeatHolders' \subseteq H \cup {u}
    BY DEF SeatHolders
  <2>3. IsFiniteSet(H) /\ Cardinality(H) \in Nat
    BY HoldersFinite
  <2>4. /\ IsFiniteSet(H \cup {u})
        /\ Cardinality(H \cup {u}) = Cardinality(H) + 1
    <3> HIDE DEF H
    <3>1. QED
      BY <1>2, <2>3, FS_AddElement
  <2>5. Cardinality(SeatHolders') <= Cardinality(H \cup {u})
    BY <2>2, <2>4, FS_Subset
  <2>6. Seats \in Nat
    BY ControlAssumption
  <2>7. Cardinality(SeatHolders') <= Seats
    <3> HIDE DEF H
    <3>1. QED
      BY <2>1, <2>3, <2>4, <2>5, <2>6, HoldersFinite
  <2>8. QED
    BY <2>7 DEF SeatsHold
<1>3. QED
  BY <1>1, <1>2

\* With more than one workspace to work in there is one besides any given.
LEMMA AnotherWorkspace ==
    ASSUME TypeOK, NEW w, Cardinality(Unarchived) > 1
    PROVE  \E x \in Unarchived : x # w
<1>1. SUFFICES ASSUME Unarchived \subseteq {w} PROVE FALSE
  OBVIOUS
<1>2. IsFiniteSet({w}) /\ Cardinality({w}) = 1
  BY FS_Singleton
<1>3. Cardinality(Unarchived) <= 1 /\ IsFiniteSet(Unarchived)
  BY <1>1, <1>2, FS_Subset
<1>4. Cardinality(Unarchived) \in Nat
  BY <1>3, FS_CardinalityType
<1>5. QED
  BY <1>3, <1>4

-----------------------------------------------------------------------------
(* A write whose check still holds keeps the rules, however many requests   *)
(* are under way.                                                           *)

LEMMA SetRoleKeepsRules ==
    ASSUME TypeOK, Rules, NEW c \in Slots, Fresh(c), SetRole(c)
    PROVE  Rules'
<1>0. PICK u \in Users, w \in Workspaces :
        /\ u = call[c].user /\ w = call[c].ws
        /\ \A v \in Users, x \in Workspaces :
             /\ member'[v][x].status = member[v][x].status
             /\ v # u \/ x # w => member'[v][x] = member[v][x]
        /\ member'[u][w].role # "OWNER"
  BY RoleChanged
<1>1. member[u][w].role # "OWNER" /\ UNCHANGED <<org, invite, transfer>>
  BY <1>0 DEF SetRole, Fresh
<1>2. \A v \in Users, x \in Workspaces :
        /\ Active(v, x)' <=> Active(v, x)
        /\ v # u \/ x # w => member'[v][x] = member[v][x]
  BY <1>0 DEF Active
<1>4. \A v \in Users, x \in Workspaces : IsOwner(v, x)' <=> IsOwner(v, x)
  BY <1>0, <1>1, <1>2 DEF IsOwner
<1>5. SoleOwner' /\ OwnerIsAnOwner'
  BY <1>1, <1>4, OwnersKept DEF Rules
<1>6. SeatsHold'
  BY <1>2, SeatsKept DEF Rules, SeatHolders
<1>7. OneIsPending' /\ SettledOneWay' /\ SomeWorkspaceStays'
  BY <1>1 DEF Rules, OneIsPending, Open, Pending, SettledOneWay, SomeWorkspaceStays, Unarchived
<1>8. QED
  BY <1>5, <1>6, <1>7 DEF Rules

LEMMA RevokeMemberKeepsRules ==
    ASSUME TypeOK, Rules, NEW c \in Slots, Fresh(c), RevokeMember(c)
    PROVE  Rules'
<1>0. PICK u \in Users, w \in Workspaces :
        /\ u = call[c].user /\ w = call[c].ws
        /\ member' = [member EXCEPT ![u][w].status = "REVOKED"]
  BY CallType DEF RevokeMember
<1>1. member[u][w].role # "OWNER" /\ UNCHANGED <<org, invite, transfer>>
  BY <1>0 DEF RevokeMember, Fresh
<1>2. /\ \A v \in Users, x \in Workspaces :
            v # u \/ x # w => member'[v][x] = member[v][x]
      /\ ~Active(u, w)'
  BY <1>0, Removed
<1>3. \A v \in Users, x \in Workspaces : IsOwner(v, x)' <=> IsOwner(v, x)
  BY <1>1, <1>2 DEF IsOwner, Active
<1>4. SoleOwner' /\ OwnerIsAnOwner'
  BY <1>1, <1>3, OwnersKept DEF Rules
<1>5. SeatsHold'
  <2>1. \A v \in Users, x \in Workspaces : Active(v, x)' => Active(v, x)
    BY <1>2 DEF Active
  <2>2. QED
    BY <2>1, SeatsKept DEF Rules, SeatHolders
<1>6. OneIsPending' /\ SettledOneWay' /\ SomeWorkspaceStays'
  BY <1>1 DEF Rules, OneIsPending, Open, Pending, SettledOneWay, SomeWorkspaceStays, Unarchived
<1>7. QED
  BY <1>4, <1>5, <1>6 DEF Rules

\* The new workspace is owned by its maker and by nobody else: it had no members.
LEMMA CreateWorkspaceKeepsRules ==
    ASSUME TypeOK, MadeFirst, Rules, NEW c \in Slots, Fresh(c), CreateWorkspace(c)
    PROVE  Rules'
<1> DEFINE owner == [status |-> "ACTIVE", role |-> "OWNER"]
<1>1. PICK u \in Users, w \in Workspaces \ org.made :
        /\ u = call[c].user
        /\ org' = [org EXCEPT !.made = @ \cup {w}]
        /\ member' = [member EXCEPT ![u][w] = owner]
  BY CallType DEF CreateWorkspace
<1>2. /\ Active(u, call[c].ws) /\ call[c].ws \in Workspaces
      /\ UNCHANGED <<invite, transfer>>
  BY <1>1, CallType DEF CreateWorkspace, Fresh
<1>3. /\ org'.made = org.made \cup {w} /\ org'.owner = org.owner
      /\ org'.archived = org.archived /\ org.made \subseteq Workspaces
      /\ org.owner \in Users
  BY <1>1 DEF TypeOK
<1>4. /\ \A v \in Users, x \in Workspaces :
            v # u \/ x # w => member'[v][x] = member[v][x]
      /\ member'[u][w] = owner
  <2> HIDE DEF owner
  <2>1. QED
    BY <1>1 DEF TypeOK
<1>5. \A v \in Users : ~Active(v, w)
  BY DEF MadeFirst
<1>6. /\ \A v \in Users, x \in org.made : IsOwner(v, x)' <=> IsOwner(v, x)
      /\ \A v \in Users : IsOwner(v, w)' <=> v = u
  BY <1>2, <1>3, <1>4, <1>5 DEF IsOwner, Active
<1>7. SoleOwner'
  BY <1>2, <1>3, <1>6 DEF SoleOwner, Rules
<1>8. OwnerIsAnOwner'
  <2>1. PICK x \in org.made : IsOwner(org.owner, x)
    BY DEF Rules, OwnerIsAnOwner
  <2>2. x # w /\ x \in Workspaces /\ org.owner \in Users
    BY <1>1, <1>3, <2>1
  <2>3. member'[org.owner][x] = member[org.owner][x]
    BY <1>4, <2>2
  <2>4. QED
    BY <1>3, <2>1, <2>3 DEF OwnerIsAnOwner, IsOwner, Active
<1>9. SeatsHold'
  <2>1. u \in SeatHolders
    BY <1>2 DEF SeatHolders
  <2>2. \A v \in Users, x \in Workspaces : Active(v, x)' => v \in SeatHolders
    BY <1>4, <2>1 DEF Active, SeatHolders
  <2>3. QED
    BY <2>2, SeatsKept DEF Rules
<1>10. SomeWorkspaceStays'
  BY <1>3 DEF Rules, SomeWorkspaceStays, Unarchived
<1>11. OneIsPending' /\ SettledOneWay'
  BY <1>2 DEF Rules, OneIsPending, Open, Pending, SettledOneWay
<1>12. QED
  BY <1>7, <1>8, <1>9, <1>10, <1>11 DEF Rules

LEMMA SetArchivedKeepsRules ==
    ASSUME TypeOK, Rules, NEW c \in Slots, Fresh(c), SetArchived(c)
    PROVE  Rules'
<1>1. /\ Cardinality(Unarchived) > 1 /\ UNCHANGED <<member, invite, transfer>>
  BY DEF SetArchived, Fresh
<1>2. /\ org'.made = org.made /\ org'.owner = org.owner
      /\ org'.archived = org.archived \cup {call[c].ws}
  BY DEF SetArchived, TypeOK
<1>3. SomeWorkspaceStays'
  <2>1. PICK x \in Unarchived : x # call[c].ws
    BY <1>1, AnotherWorkspace
  <2>2. QED
    BY <1>2, <2>1 DEF SomeWorkspaceStays, Unarchived
<1>4. \A u \in Users, w \in Workspaces :
        (Active(u, w)' <=> Active(u, w)) /\ (IsOwner(u, w)' <=> IsOwner(u, w))
  BY <1>1 DEF IsOwner, Active
<1>5. SoleOwner' /\ OwnerIsAnOwner'
  BY <1>2, <1>4, OwnersKept DEF Rules
<1>6. SeatsHold'
  BY <1>4, SeatsKept DEF Rules, SeatHolders
<1>7. OneIsPending' /\ SettledOneWay'
  BY <1>1 DEF Rules, OneIsPending, Open, Pending, SettledOneWay
<1>8. QED
  BY <1>3, <1>5, <1>6, <1>7 DEF Rules

\* Of the writes that leave the workspaces and the members alone.
LEMMA MembersAlone ==
    ASSUME TypeOK, Rules, UNCHANGED <<org, member>>
    PROVE  SoleOwner' /\ OwnerIsAnOwner' /\ SomeWorkspaceStays' /\ SeatsHold'
<1>1. \A u \in Users, w \in Workspaces :
        (Active(u, w)' <=> Active(u, w)) /\ (IsOwner(u, w)' <=> IsOwner(u, w))
  BY DEF IsOwner, Active
<1>2. SoleOwner' /\ OwnerIsAnOwner'
  BY <1>1, OwnersKept DEF Rules
<1>3. SeatsHold'
  BY <1>1, SeatsKept DEF Rules, SeatHolders
<1>4. SomeWorkspaceStays'
  BY DEF Rules, SomeWorkspaceStays, Unarchived
<1>5. QED
  BY <1>2, <1>3, <1>4

LEMMA InsertInvitationKeepsRules ==
    ASSUME TypeOK, Rules, NEW c \in Slots, Fresh(c), InsertInvitation(c)
    PROVE  Rules'
<1>1. UNCHANGED <<org, member, transfer>>
  BY DEF InsertInvitation
<1>2. PICK i \in Invites :
        /\ ~invite[i].made
        /\ \A j \in Invites : j # i => invite'[j] = invite[j]
        /\ invite'[i].made /\ ~invite'[i].accepted /\ ~invite'[i].revoked
        /\ invite'[i].ws = call[c].ws /\ invite'[i].user = call[c].user
  BY InsertedInvite
<1>3. \A j \in Invites : ~(Pending(j) /\ invite[j].user = call[c].user
                                       /\ invite[j].ws = call[c].ws)
  BY DEF InsertInvitation, Fresh
<1>4. OneIsPending'
  BY <1>1, <1>2, <1>3 DEF Rules, OneIsPending, Open, Pending
<1>5. SettledOneWay'
  BY <1>1, <1>2 DEF Rules, SettledOneWay
<1>6. QED
  BY <1>1, <1>4, <1>5, MembersAlone DEF Rules

LEMMA SetRevokedKeepsRules ==
    ASSUME TypeOK, Rules, NEW c \in Slots, Fresh(c), SetRevoked(c)
    PROVE  Rules'
<1> DEFINE i == call[c].invite
<1>1. /\ UNCHANGED <<org, member, transfer>>
      /\ i \in Invites /\ ~invite[i].accepted
      /\ invite' = [invite EXCEPT ![i].revoked = TRUE]
  BY CallType DEF SetRevoked, Fresh
<1>2. invite'[i].accepted = invite[i].accepted
  BY <1>1 DEF TypeOK, InviteRow
<1>3. \A j \in Invites : Pending(j)' => /\ Pending(j)
                                        /\ invite'[j].ws = invite[j].ws
                                        /\ invite'[j].user = invite[j].user
  BY <1>1, InviteFlag DEF Pending
<1>4. OneIsPending'
  BY <1>1, <1>3, PendingKept DEF Rules, Open
<1>5. SettledOneWay'
  BY <1>1, <1>2, InviteFlag DEF Rules, SettledOneWay
<1>6. QED
  BY <1>1, <1>4, <1>5, MembersAlone DEF Rules

LEMMA JoinKeepsRules ==
    ASSUME TypeOK, Rules, NEW c \in Slots, Fresh(c), Join(c)
    PROVE  Rules'
<1> DEFINE i == call[c].invite
           u == invite[i].user
           w == invite[i].ws
<1>1. /\ UNCHANGED <<org, transfer>>
      /\ i \in Invites /\ ~invite[i].accepted /\ ~invite[i].revoked /\ ~Active(u, w)
  BY CallType DEF Join, Fresh
<1>2. CASE UNCHANGED <<member, invite>>
  BY <1>1, <1>2, MembersAlone DEF Rules, OneIsPending, Open, Pending, SettledOneWay
<1>3. CASE /\ SeatFree(u, w)
           /\ member' = [member EXCEPT ![u][w] = [status |-> "ACTIVE", role |-> invite[i].role]]
           /\ invite' = [invite EXCEPT ![i].accepted = TRUE]
  <2>1. u \in Users /\ w \in Workspaces /\ invite[i].role # "OWNER"
    BY <1>1 DEF TypeOK, InviteRow
  <2>2. /\ \A v \in Users, x \in Workspaces :
              v # u \/ x # w => member'[v][x] = member[v][x]
        /\ member'[u][w].role = invite[i].role
    <3> HIDE DEF u, w
    <3>1. QED
      BY <1>3, <2>1 DEF TypeOK
  <2>3. \A v \in Users, x \in Workspaces : IsOwner(v, x)' <=> IsOwner(v, x)
    BY <1>1, <2>1, <2>2 DEF IsOwner, Active
  <2>4. SoleOwner' /\ OwnerIsAnOwner'
    BY <1>1, <2>3, OwnersKept DEF Rules
  <2>5. SeatsHold'
    <3>1. \A v \in Users, x \in Workspaces : v # u /\ Active(v, x)' => Active(v, x)
      BY <2>2 DEF Active
    <3>2. QED
      BY <1>3, <2>1, <3>1, SeatTaken DEF Rules
  <2>6. invite'[i].revoked = invite[i].revoked
    BY <1>1, <1>3 DEF TypeOK, InviteRow
  <2>7. \A j \in Invites : Pending(j)' => /\ Pending(j)
                                          /\ invite'[j].ws = invite[j].ws
                                          /\ invite'[j].user = invite[j].user
    BY <1>1, <1>3, InviteFlag DEF Pending
  <2>8. OneIsPending'
    BY <1>1, <2>7, PendingKept DEF Rules, Open
  <2>9. SettledOneWay'
    BY <1>1, <1>3, <2>6, InviteFlag DEF Rules, SettledOneWay
  <2>10. SomeWorkspaceStays'
    BY <1>1 DEF Rules, SomeWorkspaceStays, Unarchived
  <2>11. QED
    BY <2>4, <2>5, <2>8, <2>9, <2>10 DEF Rules
<1>4. QED
  BY <1>2, <1>3 DEF Join

LEMMA InsertTransferKeepsRules ==
    ASSUME TypeOK, Rules, NEW c \in Slots, Fresh(c), InsertTransfer(c)
    PROVE  Rules'
<1>1. UNCHANGED <<org, member, invite>> /\ \A t \in Transfers : ~Open(t)
  BY DEF InsertTransfer, Fresh
<1>2. PICK t \in Transfers :
        /\ \A v \in Transfers : v # t => transfer'[v] = transfer[v]
        /\ ~transfer'[t].confirmed /\ ~transfer'[t].cancelled
  BY InsertedTransfer
<1>3. OneIsPending'
  BY <1>1, <1>2 DEF Rules, OneIsPending, Open, Pending
<1>4. SettledOneWay'
  BY <1>1, <1>2 DEF Rules, SettledOneWay
<1>5. QED
  BY <1>1, <1>3, <1>4, MembersAlone DEF Rules

LEMMA SetCancelledKeepsRules ==
    ASSUME TypeOK, Rules, NEW c \in Slots, Fresh(c), SetCancelled(c)
    PROVE  Rules'
<1> DEFINE t == call[c].transfer
<1>1. /\ UNCHANGED <<org, member, invite>>
      /\ t \in Transfers /\ ~transfer[t].confirmed
      /\ transfer' = [transfer EXCEPT ![t].cancelled = TRUE]
  BY CallType DEF SetCancelled, Fresh
<1>2. /\ \A v \in Transfers : v # t => transfer'[v] = transfer[v]
      /\ ~transfer'[t].confirmed /\ transfer'[t].cancelled
  BY <1>1 DEF TypeOK, TransferRow
<1>3. OneIsPending'
  BY <1>1, <1>2, PendingKept DEF Rules, Open, Pending
<1>4. SettledOneWay'
  BY <1>1, <1>2 DEF Rules, SettledOneWay
<1>5. QED
  BY <1>1, <1>3, <1>4, MembersAlone DEF Rules

\* The one owner of the workspace is another person afterwards, and so is the owner
\* of the organization.
LEMMA HandOverKeepsRules ==
    ASSUME TypeOK, MadeFirst, Rules, NEW c \in Slots, Fresh(c), HandOver(c)
    PROVE  Rules'
<1>0. PICK t \in Transfers, from \in Users, to \in Users, ws \in Workspaces :
        /\ t = call[c].transfer /\ from = transfer[t].from /\ to = transfer[t].to
        /\ ws = transfer[t].ws
        /\ \A u \in Users, w \in Workspaces :
             /\ member'[u][w].status = member[u][w].status
             /\ w # ws \/ u \notin {from, to} => member'[u][w] = member[u][w]
        /\ member'[to][ws].role = "OWNER"
        /\ from # to => member'[from][ws].role = "ADMIN"
        /\ org'.owner = to /\ org'.made = org.made /\ org'.archived = org.archived
  BY HandedOver
<1>1. /\ ~transfer[t].cancelled /\ invite' = invite
      /\ IsOwner(from, ws) /\ Active(to, ws) /\ ~IsOwner(to, ws)
      /\ transfer' = [transfer EXCEPT ![t].confirmed = TRUE]
  BY <1>0 DEF HandOver, Fresh
<1>2. /\ \A u \in Users, w \in Workspaces : Active(u, w)' <=> Active(u, w)
      /\ \A u \in Users, w \in Workspaces :
            w # ws \/ u \notin {from, to} => member'[u][w] = member[u][w]
      /\ member'[to][ws].role = "OWNER"
      /\ from # to => member'[from][ws].role = "ADMIN"
      /\ org'.owner = to /\ org'.made = org.made /\ org'.archived = org.archived
  BY <1>0 DEF Active
<1>3. from # to /\ ws \in org.made /\ org.made \subseteq Workspaces
  BY <1>1 DEF MadeFirst, IsOwner, TypeOK
<1>4. \A u \in Users : IsOwner(u, ws) => u = from
  BY <1>1, <1>3 DEF Rules, SoleOwner
<1>5. /\ \A u \in Users, w \in Workspaces : w # ws => (IsOwner(u, w)' <=> IsOwner(u, w))
      /\ \A u \in Users : IsOwner(u, ws)' <=> u = to
  <2>1. \A u \in Users, w \in Workspaces : w # ws => (IsOwner(u, w)' <=> IsOwner(u, w))
    BY <1>2 DEF IsOwner
  <2>2. IsOwner(to, ws)'
    BY <1>1, <1>2 DEF IsOwner
  <2>3. ASSUME NEW u \in Users, IsOwner(u, ws)' PROVE u = to
    <3>1. u # from
      BY <1>2, <1>3, <2>3 DEF IsOwner
    <3>2. CASE u # to
      BY <1>2, <1>4, <2>3, <3>1, <3>2 DEF IsOwner
    <3>3. QED
      BY <3>2
  <2>4. QED
    BY <2>1, <2>2, <2>3
<1>6. SoleOwner'
  BY <1>2, <1>3, <1>5 DEF Rules, SoleOwner
<1>7. OwnerIsAnOwner'
  <2>1. member'[to][ws].status = "ACTIVE" /\ member'[to][ws].role = "OWNER"
    BY <1>1, <1>2 DEF Active
  <2>2. QED
    BY <1>2, <1>3, <2>1 DEF OwnerIsAnOwner, IsOwner, Active
<1>8. SeatsHold'
  BY <1>2, SeatsKept DEF Rules, SeatHolders
<1>9. SomeWorkspaceStays'
  BY <1>2 DEF Rules, SomeWorkspaceStays, Unarchived
<1>10. /\ \A v \in Transfers : v # t => transfer'[v] = transfer[v]
       /\ transfer'[t].confirmed /\ ~transfer'[t].cancelled
  BY <1>1 DEF TypeOK, TransferRow
<1>11. OneIsPending'
  BY <1>1, <1>10, PendingKept DEF Rules, Open, Pending
<1>12. SettledOneWay'
  BY <1>1, <1>10 DEF Rules, SettledOneWay
<1>13. QED
  BY <1>6, <1>7, <1>8, <1>9, <1>11, <1>12 DEF Rules

\* Any write of a request whose check still holds keeps every rule.
LEMMA WritesKeepRules ==
    ASSUME TypeOK, MadeFirst, Rules, NEW c \in Slots, Fresh(c), Writes(c)
    PROVE  Rules'
BY SetRoleKeepsRules, RevokeMemberKeepsRules, CreateWorkspaceKeepsRules,
   SetArchivedKeepsRules, InsertInvitationKeepsRules, SetRevokedKeepsRules,
   JoinKeepsRules, InsertTransferKeepsRules, SetCancelledKeepsRules, HandOverKeepsRules
   DEF Writes

LEMMA ExpiredInvite ==
    ASSUME TypeOK, NEW i \in Invites, InviteExpires(i)
    PROVE  /\ UNCHANGED <<org, member, transfer, call>>
           /\ \A j \in Invites : /\ invite'[j].accepted = invite[j].accepted
                                 /\ invite'[j].revoked = invite[j].revoked
                                 /\ invite'[j].ws = invite[j].ws
                                 /\ invite'[j].user = invite[j].user
                                 /\ Pending(j)' => Pending(j)
<1>1. \A j \in Invites : invite[j] \in InviteRow
  BY DEF TypeOK
<1>2. /\ \A j \in Invites : j # i => invite'[j] = invite[j]
      /\ invite'[i] = [invite[i] EXCEPT !.expired = TRUE]
  BY DEF InviteExpires, TypeOK
<1>3. /\ invite'[i].accepted = invite[i].accepted /\ invite'[i].revoked = invite[i].revoked
      /\ invite'[i].ws = invite[i].ws /\ invite'[i].user = invite[i].user
  BY <1>1, <1>2 DEF InviteRow
<1>4. Pending(i)
  BY DEF InviteExpires
<1>5. QED
  BY <1>2, <1>3, <1>4 DEF InviteExpires, Pending

LEMMA ExpiredTransfer ==
    ASSUME TypeOK, NEW t \in Transfers, TransferExpires(t)
    PROVE  /\ UNCHANGED <<org, member, invite, call>>
           /\ \A v \in Transfers : /\ transfer'[v].confirmed = transfer[v].confirmed
                                   /\ transfer'[v].cancelled = transfer[v].cancelled
                                   /\ transfer'[v].ws = transfer[v].ws
                                   /\ transfer'[v].from = transfer[v].from
                                   /\ transfer'[v].to = transfer[v].to
                                   /\ Open(v)' => Open(v)
<1>1. \A v \in Transfers : transfer[v] \in TransferRow
  BY DEF TypeOK
<1>2. /\ \A v \in Transfers : v # t => transfer'[v] = transfer[v]
      /\ transfer'[t] = [transfer[t] EXCEPT !.expired = TRUE]
  BY DEF TransferExpires, TypeOK
<1>3. /\ transfer'[t].confirmed = transfer[t].confirmed
      /\ transfer'[t].cancelled = transfer[t].cancelled
      /\ transfer'[t].ws = transfer[t].ws
      /\ transfer'[t].from = transfer[t].from /\ transfer'[t].to = transfer[t].to
  BY <1>1, <1>2 DEF TransferRow
<1>4. Open(t)
  BY DEF TransferExpires
<1>5. QED
  BY <1>2, <1>3, <1>4 DEF TransferExpires, Open

LEMMA RulesStep ==
    ASSUME TypeOK, MadeFirst, Rules, AllFresh, [Next]_vars
    PROVE  Rules'
<1>1. ASSUME NEW c \in Slots, Request(c) PROVE Rules'
  <2>1. CASE Reads(c)
    <3>1. UNCHANGED <<org, member, invite, transfer>>
      BY <2>1, ReadsLeaveRows
    <3>2. QED
      BY <3>1, MembersAlone DEF Rules, OneIsPending, Open, Pending, SettledOneWay
  <2>2. CASE Writes(c)
    BY <2>2, WritesKeepRules DEF AllFresh
  <2>3. QED
    BY <1>1, <2>1, <2>2, RequestIs
<1>2. ASSUME NEW i \in Invites, InviteExpires(i) PROVE Rules'
  <2>1. /\ UNCHANGED <<org, member, transfer>>
        /\ \A j \in Invites : /\ invite'[j].accepted = invite[j].accepted
                              /\ invite'[j].revoked = invite[j].revoked
                              /\ invite'[j].ws = invite[j].ws
                              /\ invite'[j].user = invite[j].user
                              /\ Pending(j)' => Pending(j)
    BY <1>2, ExpiredInvite
  <2>2. OneIsPending'
    BY <2>1, PendingKept DEF Rules, Open
  <2>3. SettledOneWay'
    BY <2>1 DEF Rules, SettledOneWay
  <2>4. QED
    BY <2>1, <2>2, <2>3, MembersAlone DEF Rules
<1>3. ASSUME NEW t \in Transfers, TransferExpires(t) PROVE Rules'
  <2>1. /\ UNCHANGED <<org, member, invite>>
        /\ \A v \in Transfers : /\ transfer'[v].confirmed = transfer[v].confirmed
                                /\ transfer'[v].cancelled = transfer[v].cancelled
                                /\ Open(v)' => Open(v)
    BY <1>3, ExpiredTransfer
  <2>2. OneIsPending'
    BY <2>1, PendingKept DEF Rules, Pending
  <2>3. SettledOneWay'
    BY <2>1 DEF Rules, SettledOneWay
  <2>4. QED
    BY <2>1, <2>2, <2>3, MembersAlone DEF Rules
<1>4. CASE UNCHANGED vars
  BY <1>4, MembersAlone DEF vars, Rules, OneIsPending, Open, Pending, SettledOneWay
<1>5. QED
  BY <1>1, <1>2, <1>3, <1>4 DEF Next

LEMMA RulesInit == Init => Rules
<1> SUFFICES ASSUME Init PROVE Rules
  OBVIOUS
<1>1. /\ \A u \in Users, w \in Workspaces : Active(u, w) => u = Founder /\ w = Home
      /\ IsOwner(Founder, Home)
  BY ControlAssumption DEF Init, Active, IsOwner, NoMember
<1>2. org.made = {Home} /\ org.archived = {} /\ org.owner = Founder
  BY DEF Init
<1>3. SoleOwner /\ OwnerIsAnOwner
  BY <1>1, <1>2, ControlAssumption DEF SoleOwner, OwnerIsAnOwner, IsOwner
<1>4. SeatsHold
  <2>1. SeatHolders \subseteq {Founder}
    BY <1>1 DEF SeatHolders
  <2>2. IsFiniteSet({Founder}) /\ Cardinality({Founder}) = 1
    BY FS_Singleton
  <2>3. Cardinality(SeatHolders) <= 1
    BY <2>1, <2>2, FS_Subset
  <2>4. Seats \in Nat \ {0}
    BY ControlAssumption
  <2>5. Cardinality(SeatHolders) <= Seats
    BY <2>3, <2>4, HoldersFinite
  <2>6. QED
    BY <2>5 DEF SeatsHold
<1>5. OneIsPending /\ SettledOneWay
  BY DEF Init, OneIsPending, SettledOneWay, Open, Pending, NoInvite, NoTransfer
<1>6. SomeWorkspaceStays
  BY <1>2 DEF SomeWorkspaceStays, Unarchived
<1>7. QED
  BY <1>3, <1>4, <1>5, <1>6 DEF Rules

\* One owner, said as a number.
LEMMA SoleIsOne == SoleOwner => OneOwner
<1> SUFFICES ASSUME SoleOwner, NEW w \in org.made
             PROVE  Cardinality({u \in Users : IsOwner(u, w)}) = 1
  BY DEF OneOwner
<1>1. PICK u \in Users : IsOwner(u, w)
  BY DEF SoleOwner
<1>2. {v \in Users : IsOwner(v, w)} = {u}
  BY <1>1 DEF SoleOwner
<1>3. QED
  BY <1>2, FS_Singleton

-----------------------------------------------------------------------------
(* What was checked is still so when requests do not overlap.               *)

LEMMA IdleIsFresh ==
    ASSUME NEW c \in Slots, call'[c] = Idle
    PROVE  Fresh(c)'
BY DEF Fresh, At, Idle

LEMMA StaysFresh ==
    ASSUME NEW c \in Slots, Fresh(c), call'[c] = call[c],
           UNCHANGED <<org, member, invite, transfer>>
    PROVE  Fresh(c)'
BY ZenonT(60) DEF Fresh, At, Active, IsOwner, Pending, Open, Unarchived

\* What a request reads holds when it has read it.
LEMMA ReadIsFresh ==
    ASSUME TypeOK, NEW c \in Slots, Reads(c)
    PROVE  Fresh(c)'
<1>1. UNCHANGED <<org, member, invite, transfer>>
  BY ReadsLeaveRows
<1>2. ASSUME Resolve(c) PROVE Fresh(c)'
  <2>1. PICK u \in Users, w \in Unarchived :
          Active(u, w)
          /\ Go(c, [pc |-> "actor", user |-> u, ws |-> w, role |-> member[u][w].role])
    BY <1>2 DEF Resolve
  <2>2. call'[c] = [pc |-> "actor", user |-> u, ws |-> w, role |-> member[u][w].role]
    BY <2>1, GoType
  <2>3. /\ Active(call[c].user, call[c].ws)'
        /\ (member[call[c].user][call[c].ws].role = call[c].role)'
    BY <1>1, <2>1, <2>2 DEF Active
  <2>4. \A pc : At(c, pc)' => pc = "actor"
    BY <2>2 DEF At
  <2>5. QED
    BY <2>3, <2>4 DEF Fresh, Active
<1>3. ASSUME Abandon(c) PROVE Fresh(c)'
  BY <1>3, LeaveType, IdleIsFresh DEF Abandon
<1>4. ASSUME ChangeMemberRole(c) PROVE Fresh(c)'
  BY <1>1, <1>4, GoType DEF ChangeMemberRole, CanManage, Fresh, At
<1>5. ASSUME RemoveMember(c) PROVE Fresh(c)'
  BY <1>1, <1>5, GoType DEF RemoveMember, CanManage, Fresh, At
<1>6. ASSUME ArchiveWorkspace(c) PROVE Fresh(c)'
  BY <1>1, <1>6, GoType DEF ArchiveWorkspace, Fresh, At, Unarchived
<1>7. ASSUME CreateInvitation(c) PROVE Fresh(c)'
  BY <1>1, <1>7, GoType DEF CreateInvitation, Fresh, At, Pending
<1>8. ASSUME RevokeInvitation(c) PROVE Fresh(c)'
  BY <1>1, <1>8, GoType DEF RevokeInvitation, Fresh, At
<1>9. ASSUME AcceptInvitation(c) PROVE Fresh(c)'
  <2>1. PICK i \in Invites, pc \in {"insert", "reactivate"} :
          /\ Pending(i) /\ ~Active(invite[i].user, invite[i].ws)
          /\ Go(c, [pc |-> pc, invite |-> i])
    BY <1>9 DEF AcceptInvitation, Active
  <2>2. call'[c] = [pc |-> pc, invite |-> i]
    BY <2>1, GoType
  <2>3. QED
    BY <1>1, <2>1, <2>2 DEF Fresh, At, Pending, Active
<1>10. ASSUME InitiateTransfer(c) PROVE Fresh(c)'
  BY <1>1, <1>10, GoType DEF InitiateTransfer, Fresh, At, Open
<1>11. ASSUME CancelTransfer(c) PROVE Fresh(c)'
  BY <1>1, <1>11, GoType DEF CancelTransfer, Fresh, At, Open
<1>12. ASSUME ConfirmTransfer(c) PROVE Fresh(c)'
  <2>1. PICK t \in Transfers :
          /\ Open(t)
          /\ IsOwner(transfer[t].from, transfer[t].ws)
          /\ Active(transfer[t].to, transfer[t].ws) /\ ~IsOwner(transfer[t].to, transfer[t].ws)
          /\ Go(c, [pc |-> "confirm", transfer |-> t])
    BY <1>12 DEF ConfirmTransfer
  <2>2. call'[c] = [pc |-> "confirm", transfer |-> t]
    BY <2>1, GoType
  <2>3. QED
    BY <1>1, <2>1, <2>2 DEF Fresh, At, Open, IsOwner, Active
<1>13. QED
  BY <1>2, <1>3, <1>4, <1>5, <1>6, <1>7, <1>8, <1>9, <1>10, <1>11, <1>12 DEF Reads

LEMMA WritesThenIdle ==
    ASSUME NEW c \in Slots, Writes(c)
    PROVE  Leave(c) /\ ~At(c, "idle")
BY DEF Writes, SetRole, RevokeMember, CreateWorkspace, SetArchived, InsertInvitation,
       SetRevoked, Join, InsertTransfer, SetCancelled, HandOver, At

LEMMA FreshStep ==
    ASSUME TypeOK, AllFresh, NoOverlap, [Next]_vars
    PROVE  AllFresh'
<1> SUFFICES ASSUME NEW d \in Slots PROVE Fresh(d)'
  BY DEF AllFresh
<1>1. ASSUME NEW c \in Slots, Request(c) PROVE Fresh(d)'
  <2>1. CASE Reads(c)
    <3>1. CASE d = c
      BY <2>1, <3>1, ReadIsFresh
    <3>2. CASE d # c
      BY <2>1, <3>2, ReadsType, ReadsLeaveRows, StaysFresh DEF AllFresh
    <3>3. QED
      BY <3>1, <3>2
  <2>2. CASE Writes(c)
    <3>1. Leave(c) /\ ~At(c, "idle")
      BY <2>2, WritesThenIdle
    <3>2. CASE d = c
      BY <3>1, <3>2, LeaveType, IdleIsFresh
    <3>3. CASE d # c
      <4>1. At(d, "idle") /\ call'[d] = call[d]
        BY <3>1, <3>3, LeaveType DEF NoOverlap
      <4>2. QED
        BY <4>1 DEF Fresh, At
    <3>4. QED
      BY <3>2, <3>3
  <2>3. QED
    BY <1>1, <2>1, <2>2, RequestIs
<1>2. ASSUME NEW i \in Invites, InviteExpires(i) PROVE Fresh(d)'
  <2>1. Fresh(d) /\ UNCHANGED <<org, member, transfer, call>>
    BY <1>2, ExpiredInvite DEF AllFresh
  <2>2. \A j \in Invites : /\ invite'[j].accepted = invite[j].accepted
                           /\ invite'[j].revoked = invite[j].revoked
                           /\ invite'[j].ws = invite[j].ws
                           /\ invite'[j].user = invite[j].user
                           /\ Pending(j)' => Pending(j)
    BY <1>2, ExpiredInvite
  <2>3. At(d, "revokeInvite") \/ At(d, "insert") \/ At(d, "reactivate") =>
          LET own == call[d].invite IN
          /\ invite'[own].accepted = invite[own].accepted /\ invite'[own].revoked = invite[own].revoked
          /\ invite'[own].ws = invite[own].ws /\ invite'[own].user = invite[own].user
    <3>1. At(d, "revokeInvite") \/ At(d, "insert") \/ At(d, "reactivate")
            => call[d].invite \in Invites
      BY CallType
    <3>2. QED
      BY <2>2, <3>1
  <2>4. At(d, "invite") =>
          ~\E j \in Invites : /\ Pending(j)'
                              /\ invite'[j].user = call[d].user /\ invite'[j].ws = call[d].ws
    <3>1. At(d, "invite") =>
            \A j \in Invites : ~(/\ Pending(j) /\ invite[j].user = call[d].user
                                /\ invite[j].ws = call[d].ws)
      BY <2>1 DEF Fresh
    <3>2. QED
      BY <2>2, <3>1 DEF Pending
  <2>5. QED
    BY <2>1, <2>3, <2>4, ZenonT(60) DEF Fresh, At, Active, IsOwner, Open, Unarchived, Pending
<1>3. ASSUME NEW t \in Transfers, TransferExpires(t) PROVE Fresh(d)'
  <2>1. Fresh(d) /\ UNCHANGED <<org, member, invite, call>>
    BY <1>3, ExpiredTransfer DEF AllFresh
  <2>2. \A v \in Transfers : /\ transfer'[v].confirmed = transfer[v].confirmed
                             /\ transfer'[v].cancelled = transfer[v].cancelled
                             /\ transfer'[v].ws = transfer[v].ws
                             /\ transfer'[v].from = transfer[v].from
                             /\ transfer'[v].to = transfer[v].to
                             /\ Open(v)' => Open(v)
    BY <1>3, ExpiredTransfer
  <2>3. At(d, "cancel") \/ At(d, "confirm") =>
          LET v == call[d].transfer IN
          /\ transfer'[v].confirmed = transfer[v].confirmed
          /\ transfer'[v].cancelled = transfer[v].cancelled
          /\ transfer'[v].ws = transfer[v].ws
          /\ transfer'[v].from = transfer[v].from /\ transfer'[v].to = transfer[v].to
    <3>1. At(d, "cancel") \/ At(d, "confirm") => call[d].transfer \in Transfers
      BY CallType
    <3>2. QED
      BY <2>2, <3>1
  <2>4. At(d, "transfer") => ~\E v \in Transfers : Open(v)'
    <3>1. At(d, "transfer") => \A v \in Transfers : ~Open(v)
      BY <2>1 DEF Fresh
    <3>2. QED
      BY <2>2, <3>1 DEF Open
  <2>5. QED
    BY <2>1, <2>3, <2>4, ZenonT(60) DEF Fresh, At, Active, IsOwner, Open, Unarchived, Pending
<1>4. CASE UNCHANGED vars
  BY <1>4, StaysFresh DEF vars, AllFresh
<1>5. QED
  BY <1>1, <1>2, <1>3, <1>4 DEF Next

LEMMA FreshInit == Init => AllFresh
BY DEF Init, AllFresh, Fresh, At, Idle

-----------------------------------------------------------------------------
(* The theorems.                                                            *)

\* Requests may overlap in any way: while every request that is about to write has
\* checked what is still so, every workspace has one owner, the organization's owner
\* among them, nothing is settled or pending twice, a workspace is left, and the
\* seats hold.  What a lock on the rows read would have to establish, and all of it.
THEOREM ControlWhileFresh ==
    Spec /\ []AllFresh => [](/\ OneOwner /\ OwnerIsAnOwner /\ OneIsPending
                            /\ SettledOneWay /\ SomeWorkspaceStays /\ SeatsHold)
<1> DEFINE Kept == /\ OneOwner /\ OwnerIsAnOwner /\ OneIsPending
                   /\ SettledOneWay /\ SomeWorkspaceStays /\ SeatsHold
<1>1. Init => TypeOK /\ MadeFirst /\ Rules
  BY TypeInit, MadeInit, RulesInit
<1>2. TypeOK /\ MadeFirst /\ Rules /\ AllFresh /\ [Next]_vars
        => TypeOK' /\ MadeFirst' /\ Rules'
  BY TypeStep, MadeStep, RulesStep
<1>3. Rules => Kept
  BY SoleIsOne DEF Rules
<1>4. QED
  BY <1>1, <1>2, <1>3, PTL DEF Spec

\* Requests that do not overlap never write on a stale check.
LEMMA SerialIsFresh == Spec /\ []NoOverlap => []AllFresh
<1>1. Init => TypeOK /\ AllFresh
  BY TypeInit, FreshInit
<1>2. TypeOK /\ AllFresh /\ NoOverlap /\ [Next]_vars => TypeOK' /\ AllFresh'
  BY TypeStep, FreshStep
<1>3. QED
  BY <1>1, <1>2, PTL DEF Spec

\* "There is always exactly one workspace OWNER", for requests that do not overlap:
\* through creations, role changes, removals and hand-overs.
THEOREM ControlOneOwner == Spec /\ []NoOverlap => []OneOwner
BY ControlWhileFresh, SerialIsFresh, PTL

\* Ownership never ends up with someone who was removed, demoted or never joined.
THEOREM ControlOwnerIsAnOwner == Spec /\ []NoOverlap => []OwnerIsAnOwner
BY ControlWhileFresh, SerialIsFresh, PTL

\* createInvitation and initiateOwnershipTransfer look before they insert, and that
\* is enough when requests do not overlap.
THEOREM ControlOneIsPending == Spec /\ []NoOverlap => []OneIsPending
BY ControlWhileFresh, SerialIsFresh, PTL

\* What was accepted is not revoked and what was confirmed is not cancelled.
THEOREM ControlSettledOneWay == Spec /\ []NoOverlap => []SettledOneWay
BY ControlWhileFresh, SerialIsFresh, PTL

\* archiveWorkspace never takes the last one.
THEOREM ControlSomeWorkspaceStays == Spec /\ []NoOverlap => []SomeWorkspaceStays
BY ControlWhileFresh, SerialIsFresh, PTL

\* The seat check of a join covers every way to become a member.
THEOREM ControlSeatsHold == Spec /\ []NoOverlap => []SeatsHold
BY ControlWhileFresh, SerialIsFresh, PTL

\* With one slot, as in the run control_serial, requests do not overlap: the six
\* theorems above apply.
THEOREM ControlOneSlot == (\A c, d \in Slots : c = d) /\ Spec => []NoOverlap
<1>1. (\A c, d \in Slots : c = d) => NoOverlap
  BY DEF NoOverlap
<1>2. (\A c, d \in Slots : c = d) => [](\A c, d \in Slots : c = d)
  OBVIOUS
<1>3. QED
  BY <1>1, <1>2, PTL

-----------------------------------------------------------------------------
(* The seats, whose check is made under a lock, need less: requests may      *)
(* overlap in any way, as long as whoever creates a workspace as its owner   *)
(* has not been removed from the organization since.                         *)

OwnersStay == \A c \in Slots : At(c, "actor") /\ call[c].role = "OWNER"
                                 => call[c].user \in SeatHolders

LEMMA SeatsStay ==
    ASSUME SeatsHold, \A u \in Users, w \in Workspaces : Active(u, w)' => Active(u, w)
    PROVE  SeatsHold'
BY SeatsKept DEF SeatHolders

LEMMA SeatsStep ==
    ASSUME TypeOK, SeatsHold, OwnersStay, [Next]_vars
    PROVE  SeatsHold'
<1>1. CASE UNCHANGED member
  BY <1>1, SeatsStay DEF Active
<1>2. ASSUME NEW c \in Slots, SetRole(c) PROVE SeatsHold'
  <2>1. \A u \in Users, w \in Workspaces : member'[u][w].status = member[u][w].status
    BY <1>2, RoleChanged
  <2>2. QED
    BY <2>1, SeatsStay DEF Active
<1>3. ASSUME NEW c \in Slots, RevokeMember(c) PROVE SeatsHold'
  <2>1. PICK u \in Users, w \in Workspaces :
          member' = [member EXCEPT ![u][w].status = "REVOKED"]
    BY <1>3, CallType DEF RevokeMember
  <2>2. QED
    BY <2>1, Removed, SeatsStay DEF Active
<1>4. ASSUME NEW c \in Slots, CreateWorkspace(c) PROVE SeatsHold'
  <2> DEFINE owner == [status |-> "ACTIVE", role |-> "OWNER"]
  <2>1. PICK u \in Users, w \in Workspaces :
          /\ u = call[c].user
          /\ member' = [member EXCEPT ![u][w] = owner]
    BY <1>4, CallType DEF CreateWorkspace
  <2>2. u \in SeatHolders
    BY <1>4, <2>1 DEF OwnersStay, CreateWorkspace
  <2>3. \A v \in Users, x \in Workspaces :
          v # u \/ x # w => member'[v][x] = member[v][x]
    BY <2>1, RowChanged
  <2>4. \A v \in Users, x \in Workspaces : Active(v, x)' => v \in SeatHolders
    BY <2>2, <2>3 DEF Active, SeatHolders
  <2>5. QED
    BY <2>4, SeatsKept
<1>5. ASSUME NEW c \in Slots, Join(c) PROVE SeatsHold'
  <2> DEFINE u == invite[call[c].invite].user
             w == invite[call[c].invite].ws
             row == [status |-> "ACTIVE", role |-> invite[call[c].invite].role]
  <2>1. u \in Users /\ w \in Workspaces
    BY <1>5, CallType DEF Join, TypeOK, InviteRow
  <2>2. UNCHANGED member \/ (SeatFree(u, w) /\ member' = [member EXCEPT ![u][w] = row])
    BY <1>5 DEF Join
  <2>3. CASE SeatFree(u, w) /\ member' = [member EXCEPT ![u][w] = row]
    <3> HIDE DEF u, w, row
    <3>1. \A v \in Users, x \in Workspaces : v # u => member'[v][x] = member[v][x]
      BY <2>1, <2>3, RowChanged
    <3>2. \A v \in Users, x \in Workspaces : v # u /\ Active(v, x)' => Active(v, x)
      BY <3>1 DEF Active
    <3>3. QED
      BY <2>1, <2>3, <3>2, SeatTaken
  <2>4. QED
    BY <1>1, <2>2, <2>3
<1>6. ASSUME NEW c \in Slots, HandOver(c) PROVE SeatsHold'
  <2>1. \A u \in Users, w \in Workspaces : member'[u][w].status = member[u][w].status
    BY <1>6, HandedOver
  <2>2. QED
    BY <2>1, SeatsStay DEF Active
<1>7. ASSUME NEW c \in Slots, Request(c) PROVE SeatsHold'
  <2>1. CASE Reads(c)
    BY <1>1, <2>1, ReadsLeaveRows
  <2>2. CASE Writes(c)
    BY <1>1, <1>2, <1>3, <1>4, <1>5, <1>6, <2>2
       DEF Writes, SetArchived, InsertInvitation, SetRevoked, InsertTransfer, SetCancelled
  <2>3. QED
    BY <1>7, <2>1, <2>2, RequestIs
<1>8. QED
  BY <1>1, <1>7 DEF Next, vars, InviteExpires, TransferExpires

\* Two people who accept the last seat together do not both get it: with requests that
\* overlap in any way, the seats hold unless an owner who has lost every membership
\* since still creates a workspace (assertSeatAvailable under the subscription lock).
THEOREM ControlSeatsWhileOwnersStay == Spec /\ []OwnersStay => []SeatsHold
<1>1. Init => TypeOK /\ SeatsHold
  BY TypeInit, RulesInit DEF Rules
<1>2. TypeOK /\ SeatsHold /\ OwnersStay /\ [Next]_vars => TypeOK' /\ SeatsHold'
  BY TypeStep, SeatsStep
<1>3. QED
  BY <1>1, <1>2, PTL DEF Spec

=============================================================================

------------------------------- MODULE Tenants -------------------------------
(***************************************************************************)
(* The members, roles and invitations of one organization                  *)
(* (domains/tenants).  Every operation filters on organization_id, so two  *)
(* organizations never touch the same row and one is modelled.             *)
(*                                                                         *)
(* An API request runs in one READ COMMITTED transaction.  Each SELECT is  *)
(* a step that sees what is committed at that moment; what the request     *)
(* writes becomes visible to the others when it commits, in one step.      *)
(* SQLAlchemy's identity map keeps the first version of a row a request    *)
(* loads: reading the row again does not refresh it.  An UPDATE is only    *)
(* emitted for a column whose value changed and finds its row by primary   *)
(* key, so rows carry an id that is never reused.                          *)
(***************************************************************************)
EXTENDS Naturals, FiniteSets

CONSTANTS Users,        \* accounts of the auth service, one e-mail each
          Founder,      \* the user whose call created the organization
          Procs,        \* requests that may be in flight at the same time
          InvIds,       \* invitations that may be issued
          MaxRows       \* bound: membership rows ever inserted

ASSUME TenantsAssumption ==
    /\ Founder \in Users
    /\ MaxRows \in Nat

VARIABLES members,      \* committed rows of the table "memberships"
          invitations,  \* committed rows of "invitations": id -> row
          req,          \* what each request in flight has read so far
          nextId,       \* primary key of the next membership row
          uses,         \* history: committed acceptances of each invitation
          everOwner     \* history: users that have held the owner role

vars == <<members, invitations, req, nextId, uses, everOwner>>
-----------------------------------------------------------------------------
Roles == {"member", "admin", "owner"}
InvitedRoles == {"member", "admin"}

Rank(role) == CASE role = "member" -> 0
                [] role = "admin"  -> 1
                [] role = "owner"  -> 2

Row == [id : Nat, user : Users, role : Roles]
Invitation == [email : Users, role : InvitedRoles,
               accepted : BOOLEAN, revoked : BOOLEAN, expired : BOOLEAN]

\* The states of a request, each with what the service holds in its locals.
Idle == [pc |-> "idle"]
UpdateTarget == [pc : {"update target"}, actor : Row, user : Users, to : Roles]
UpdateChecked == [pc : {"update owners", "update commit"},
                  actor : Row, target : Row, to : Roles]
RemoveTarget == [pc : {"remove target"}, actor : Row, user : Users]
RemoveChecked == [pc : {"remove owners", "remove commit"},
                  actor : Row, target : Row]
Inviting == [pc : {"invite members", "invite commit"},
             actor : Row, email : Users, role : InvitedRoles]
Revoking == [pc : {"revoke read", "revoke commit"}, actor : Row, inv : InvIds]
Accepting == [pc : {"accept member", "accept commit"},
              user : Users, inv : InvIds]

Request == {Idle} \cup UpdateTarget \cup UpdateChecked \cup RemoveTarget
                  \cup RemoveChecked \cup Inviting \cup Revoking \cup Accepting

Go(p, r) == req' = [req EXCEPT ![p] = r]
Tables == <<members, invitations, nextId, uses, everOwner>>

IsMember(u) == \E m \in members : m.user = u
Owners == {m \in members : m.role = "owner"}

\* A row read a second time by the request that holds the row "first".
AsLoaded(m, first) == IF m.id = first.id THEN first ELSE m
-----------------------------------------------------------------------------
(* _require_membership and _require_rank, the first reads of a request.     *)

MayAdminister(row) == Rank(row.role) >= Rank("admin")

\* Mutant: an admin may promote to owner.
MayChangeRole_ToOwner(actor, target, to) ==
    actor.role = "owner" \/ target.role # "owner"

MayChangeRole(actor, target, to) ==
    actor.role = "owner" \/ (target.role # "owner" /\ to # "owner")

\* Mutant: an owner may remove another owner.
MayRemove_Peer(actor, target) ==
    \/ actor.user = target.user
    \/ MayAdminister(actor) /\ Rank(target.role) <= Rank(actor.role)

MayRemove(actor, target) ==
    \/ actor.user = target.user
    \/ MayAdminister(actor) /\ Rank(target.role) < Rank(actor.role)

\* Mutant: the last owner is only protected from removal.
DemotesOwner_Never(target, to) == FALSE

DemotesOwner(target, to) == target.role = "owner" /\ to # "owner"

OtherOwners(actor, target) ==
    {m \in members : /\ m.user # target.user
                     /\ AsLoaded(m, actor).role = "owner"}
-----------------------------------------------------------------------------
(* PATCH /organizations/{id}/members/{user}                                 *)

BeginUpdate(p) ==
    /\ req[p] = Idle
    /\ \E actor \in members, u \in Users, to \in Roles :
          /\ MayAdminister(actor)
          /\ Go(p, [pc |-> "update target", actor |-> actor,
                    user |-> u, to |-> to])
    /\ UNCHANGED Tables

UpdateReadTarget(p) ==
    /\ req[p].pc = "update target"
    /\ \/ ~IsMember(req[p].user) /\ Go(p, Idle)
       \/ \E m \in members :
             LET actor == req[p].actor
                 to == req[p].to
                 target == AsLoaded(m, actor)
             IN /\ m.user = req[p].user
                /\ Go(p, IF ~MayChangeRole(actor, target, to)
                           THEN Idle
                           ELSE [pc |-> IF DemotesOwner(target, to)
                                          THEN "update owners"
                                          ELSE "update commit",
                                 actor |-> actor, target |-> target,
                                 to |-> to])
    /\ UNCHANGED Tables

UpdateReadOwners(p) ==
    /\ req[p].pc = "update owners"
    /\ Go(p, IF OtherOwners(req[p].actor, req[p].target) = {}
               THEN Idle
               ELSE [req[p] EXCEPT !.pc = "update commit"])
    /\ UNCHANGED Tables

\* An assignment that changes nothing emits no UPDATE; an UPDATE whose row is
\* gone raises StaleDataError.  Both leave the table as it is.
SetRole(rows, target, to) ==
    IF target.role = to THEN rows
    ELSE {IF m.id = target.id THEN [m EXCEPT !.role = to] ELSE m : m \in rows}

UpdateCommit(p) ==
    /\ req[p].pc = "update commit"
    /\ members' = SetRole(members, req[p].target, req[p].to)
    /\ everOwner' = everOwner \cup {m.user : m \in Owners'}
    /\ Go(p, Idle)
    /\ UNCHANGED <<invitations, nextId, uses>>
-----------------------------------------------------------------------------
(* DELETE /organizations/{id}/members/{user}                                *)

BeginRemove(p) ==
    /\ req[p] = Idle
    /\ \E actor \in members, u \in Users :
          Go(p, [pc |-> "remove target", actor |-> actor, user |-> u])
    /\ UNCHANGED Tables

RemoveReadTarget(p) ==
    /\ req[p].pc = "remove target"
    /\ \/ ~IsMember(req[p].user) /\ Go(p, Idle)
       \/ \E m \in members :
             LET actor == req[p].actor
                 target == AsLoaded(m, actor)
             IN /\ m.user = req[p].user
                /\ Go(p, IF ~MayRemove(actor, target)
                           THEN Idle
                           ELSE [pc |-> IF target.role = "owner"
                                          THEN "remove owners"
                                          ELSE "remove commit",
                                 actor |-> actor, target |-> target])
    /\ UNCHANGED Tables

RemoveReadOwners(p) ==
    /\ req[p].pc = "remove owners"
    /\ Go(p, IF OtherOwners(req[p].actor, req[p].target) = {}
               THEN Idle
               ELSE [req[p] EXCEPT !.pc = "remove commit"])
    /\ UNCHANGED Tables

\* A DELETE that matches no row only logs a warning.
RemoveCommit(p) ==
    /\ req[p].pc = "remove commit"
    /\ members' = {m \in members : m.id # req[p].target.id}
    /\ Go(p, Idle)
    /\ UNCHANGED <<invitations, nextId, uses, everOwner>>
-----------------------------------------------------------------------------
(* POST and DELETE /organizations/{id}/invitations                          *)

BeginInvite(p) ==
    /\ req[p] = Idle
    /\ \E actor \in members, e \in Users, r \in InvitedRoles :
          /\ MayAdminister(actor)
          /\ Go(p, [pc |-> "invite members", actor |-> actor,
                    email |-> e, role |-> r])
    /\ UNCHANGED Tables

InviteReadMembers(p) ==
    /\ req[p].pc = "invite members"
    /\ Go(p, IF IsMember(req[p].email)
               THEN Idle
               ELSE [req[p] EXCEPT !.pc = "invite commit"])
    /\ UNCHANGED Tables

InviteCommit(p) ==
    /\ req[p].pc = "invite commit"
    /\ \E i \in InvIds \ DOMAIN invitations :
          invitations' =
             [j \in DOMAIN invitations \cup {i} |->
                IF j = i
                  THEN [email |-> req[p].email, role |-> req[p].role,
                        accepted |-> FALSE, revoked |-> FALSE,
                        expired |-> FALSE]
                  ELSE invitations[j]]
    /\ Go(p, Idle)
    /\ UNCHANGED <<members, nextId, uses, everOwner>>

BeginRevoke(p) ==
    /\ req[p] = Idle
    /\ \E actor \in members, i \in InvIds :
          /\ MayAdminister(actor)
          /\ Go(p, [pc |-> "revoke read", actor |-> actor, inv |-> i])
    /\ UNCHANGED Tables

MayRevoke(inv) == ~inv.revoked /\ ~inv.accepted

RevokeRead(p) ==
    /\ req[p].pc = "revoke read"
    /\ Go(p, IF /\ req[p].inv \in DOMAIN invitations
                /\ MayRevoke(invitations[req[p].inv])
               THEN [req[p] EXCEPT !.pc = "revoke commit"]
               ELSE Idle)
    /\ UNCHANGED Tables

RevokeCommit(p) ==
    /\ req[p].pc = "revoke commit"
    /\ invitations' = [invitations EXCEPT ![req[p].inv].revoked = TRUE]
    /\ Go(p, Idle)
    /\ UNCHANGED <<members, nextId, uses, everOwner>>
-----------------------------------------------------------------------------
(* POST /invitations/accept                                                 *)

\* Mutants: one of the checks is missing.
MayAccept_Again(u, inv) == ~inv.revoked /\ ~inv.expired /\ u = inv.email
MayAccept_Revoked(u, inv) == ~inv.accepted /\ ~inv.expired /\ u = inv.email
MayAccept_Anybody(u, inv) == ~inv.revoked /\ ~inv.accepted /\ ~inv.expired

MayAccept(u, inv) ==
    /\ ~inv.revoked
    /\ ~inv.accepted
    /\ ~inv.expired
    /\ u = inv.email

BeginAccept(p) ==
    /\ req[p] = Idle
    /\ \E u \in Users, i \in DOMAIN invitations :
          /\ MayAccept(u, invitations[i])
          /\ Go(p, [pc |-> "accept member", user |-> u, inv |-> i])
    /\ UNCHANGED Tables

AcceptReadMember(p) ==
    /\ req[p].pc = "accept member"
    /\ Go(p, IF IsMember(req[p].user)
               THEN Idle
               ELSE [req[p] EXCEPT !.pc = "accept commit"])
    /\ UNCHANGED Tables

\* Mutant: the table has no unique constraint.
InsertAllowed_Always(u) == TRUE

\* UniqueConstraint("organization_id", "user_id").
InsertAllowed(u) == ~IsMember(u)

\* The autoflush writes both rows: the UPDATE of the invitation looks at no
\* column but its key, the INSERT fails when the user became a member.
AcceptCommit(p) ==
    LET u == req[p].user
        i == req[p].inv
    IN /\ req[p].pc = "accept commit"
       /\ Go(p, Idle)
       /\ \/ /\ ~InsertAllowed(u)
             /\ UNCHANGED Tables
          \/ /\ InsertAllowed(u)
             /\ nextId <= MaxRows
             /\ members' = members \cup
                   {[id |-> nextId, user |-> u, role |-> invitations[i].role]}
             /\ invitations' = [invitations EXCEPT ![i].accepted = TRUE]
             /\ nextId' = nextId + 1
             /\ uses' = [uses EXCEPT ![i] = @ + 1]
             /\ UNCHANGED everOwner
-----------------------------------------------------------------------------
\* The request fails or its client or process goes away before the commit:
\* the session closes and the transaction rolls back.
Rollback(p) ==
    /\ req[p] # Idle
    /\ Go(p, Idle)
    /\ UNCHANGED Tables

\* Seven days pass: expires_at < now.
Expire(i) ==
    /\ i \in DOMAIN invitations
    /\ ~invitations[i].expired
    /\ invitations' = [invitations EXCEPT ![i].expired = TRUE]
    /\ UNCHANGED <<members, req, nextId, uses, everOwner>>

\* create_organization inserts the organization with its owner in one flush.
Init ==
    /\ members = {[id |-> 0, user |-> Founder, role |-> "owner"]}
    /\ invitations = [i \in {} |-> {}]
    /\ req = [p \in Procs |-> Idle]
    /\ nextId = 1
    /\ uses = [i \in InvIds |-> 0]
    /\ everOwner = {Founder}

Update(p) == \/ BeginUpdate(p) \/ UpdateReadTarget(p)
             \/ UpdateReadOwners(p) \/ UpdateCommit(p)
Remove(p) == \/ BeginRemove(p) \/ RemoveReadTarget(p)
             \/ RemoveReadOwners(p) \/ RemoveCommit(p)
Invite(p) == BeginInvite(p) \/ InviteReadMembers(p) \/ InviteCommit(p)
Revoke(p) == BeginRevoke(p) \/ RevokeRead(p) \/ RevokeCommit(p)
Accept(p) == BeginAccept(p) \/ AcceptReadMember(p) \/ AcceptCommit(p)

Next ==
    \/ \E p \in Procs : \/ Update(p) \/ Remove(p) \/ Invite(p)
                        \/ Revoke(p) \/ Accept(p) \/ Rollback(p)
    \/ \E i \in InvIds : Expire(i)

Spec == Init /\ [][Next]_vars
-----------------------------------------------------------------------------
(* Properties.                                                              *)

\* Every table and every request in flight holds values of its type.
TypeOK ==
    /\ members \subseteq Row
    /\ DOMAIN invitations \subseteq InvIds
    /\ invitations \in [DOMAIN invitations -> Invitation]
    /\ req \in [Procs -> Request]
    /\ nextId \in Nat
    /\ uses \in [InvIds -> Nat]
    /\ everOwner \subseteq Users

\* The organization always has an owner, whatever its members do to each
\* other's roles (_ensure_not_last_owner).  Holds when requests run one at a
\* time; two requests that each count the other's owner break it.
AtLeastOneOwner == Owners # {}

\* No user has two rows in the organization, although the acceptance of an
\* invitation checks for a membership long before it inserts one.
UniqueMember == \A m, n \in members : m.user = n.user => m = n

\* Nobody is a member without having been asked in: everyone but the founder
\* has accepted an invitation that was issued for their own address.
MembershipJustified ==
    \A m \in members :
        m.user # Founder =>
            \E i \in DOMAIN invitations :
                invitations[i].accepted /\ invitations[i].email = m.user

\* An invitation admits its addressee once (create_invitation's docstring and
\* the e-mail it sends).
SingleUse == \A i \in InvIds : uses[i] <= 1

\* An invitation that is used or revoked, and that nobody is accepting at this
\* moment, is settled for good: the concurrent form of SingleUse and of
\* RevokedAdmitsNobody, which an acceptance in flight may outrun.
AcceptingNow(i) ==
    \E p \in Procs : /\ req[p].pc \in {"accept member", "accept commit"}
                     /\ req[p].inv = i
Settled(i) ==
    /\ i \in DOMAIN invitations
    /\ invitations[i].accepted \/ invitations[i].revoked
    /\ ~AcceptingNow(i)
SettledForGood ==
    [][\A i \in InvIds : Settled(i) => Settled(i)' /\ uses'[i] = uses[i]]_vars

\* A revoked invitation admits nobody.
RevokedAdmitsNobody ==
    [][\A i \in DOMAIN invitations :
          invitations[i].revoked => uses'[i] = uses[i]]_vars

\* The owner role spreads only from owners: whoever becomes an owner was
\* promoted by a request of somebody who has been one.
OwnersComeFromOwners ==
    [][\A u \in everOwner' \ everOwner :
          \E p \in Procs : /\ req[p].pc = "update commit"
                           /\ req[p].actor.user \in everOwner]_vars

\* An owner is demoted by an owner and removed by nobody else: at the moment
\* an owner's row changes, the request that changes it belongs to an owner,
\* and a removal to the very owner that leaves.
OwnersAnswerToOwners ==
    [][\A m \in Owners \ members' :
          \E p \in Procs :
             /\ req[p].pc \in {"update commit", "remove commit"}
             /\ \E o \in Owners : o.user = req[p].actor.user
             /\ req[p].pc = "remove commit" => req[p].actor.user = m.user]_vars

\* An organization that lost its last owner stays without one: when no row and
\* no request in flight holds the role, no sequence of calls restores it.
NoOwnerLeft ==
    /\ Owners = {}
    /\ \A p \in Procs :
          req[p].pc \in {"update target", "update owners", "update commit"}
             => req[p].actor.role # "owner"
OwnerlessIsForever == [][NoOwnerLeft => NoOwnerLeft']_vars

\* The committed rows are of their types, and a user has one in an organization.
TablesOK == TypeOK /\ UniqueMember

\* An invitation admits once, and not after it was revoked (create_invitation,
\* revoke_invitation, accept_invitation).
InvitationsHold == []SingleUse /\ RevokedAdmitsNobody

\* What a request has looked up is still so when it commits: when requests run one
\* at a time, each acts as one step of MembershipRules, on the roles and
\* invitations that all see (update_member_role, remove_member,
\* create_invitation, revoke_invitation, accept_invitation).
RolesNow ==
    [u \in Users |-> IF IsMember(u) THEN (CHOOSE m \in members : m.user = u).role
                                    ELSE "none"]

Letter(inv) ==
    [to |-> inv.email, as |-> inv.role,
     state |-> IF inv.accepted THEN "used" ELSE IF inv.revoked THEN "revoked" ELSE "open"]

LettersNow == [i \in DOMAIN invitations |-> Letter(invitations[i])]

Rules == INSTANCE MembershipRules WITH role <- RolesNow, letters <- LettersNow

ActsAtOnce == Rules!Spec /\ OwnersAnswerToOwners
=============================================================================

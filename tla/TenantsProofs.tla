---------------------------- MODULE TenantsProofs ----------------------------
(***************************************************************************)
(* Theorems about Tenants, for every set of users, requests and            *)
(* invitations.                                                            *)
(***************************************************************************)
EXTENDS Tenants, TLAPS

\* What a request knows about the invitation it is about to write: the row
\* exists, and an acceptance belongs to its addressee.
KnowsInvitation(r) ==
    /\ r.pc = "revoke commit" => r.inv \in DOMAIN invitations
    /\ r.pc \in {"accept member", "accept commit"} =>
          /\ r.inv \in DOMAIN invitations
          /\ invitations[r.inv].email = r.user

InvitationsKnown == \A p \in Procs : KnowsInvitation(req[p])

Typing == TypeOK /\ InvitationsKnown
-----------------------------------------------------------------------------
\* A request's phase tells which values it holds.
LEMMA RequestShape ==
    ASSUME NEW r \in Request
    PROVE  /\ r.pc = "update target" => r \in UpdateTarget
           /\ r.pc \in {"update owners", "update commit"} => r \in UpdateChecked
           /\ r.pc = "remove target" => r \in RemoveTarget
           /\ r.pc \in {"remove owners", "remove commit"} => r \in RemoveChecked
           /\ r.pc \in {"invite members", "invite commit"} => r \in Inviting
           /\ r.pc \in {"revoke read", "revoke commit"} => r \in Revoking
           /\ r.pc \in {"accept member", "accept commit"} => r \in Accepting
<1>1. Idle.pc = "idle"
  BY DEF Idle
<1>2. r \in UpdateTarget => r.pc = "update target"
  BY DEF UpdateTarget
<1>3. r \in UpdateChecked => r.pc \in {"update owners", "update commit"}
  BY DEF UpdateChecked
<1>4. r \in RemoveTarget => r.pc = "remove target"
  BY DEF RemoveTarget
<1>5. r \in RemoveChecked => r.pc \in {"remove owners", "remove commit"}
  BY DEF RemoveChecked
<1>6. r \in Inviting => r.pc \in {"invite members", "invite commit"}
  BY DEF Inviting
<1>7. r \in Revoking => r.pc \in {"revoke read", "revoke commit"}
  BY DEF Revoking
<1>8. r \in Accepting => r.pc \in {"accept member", "accept commit"}
  BY DEF Accepting
<1>9. \/ r.pc = "idle"
      \/ r.pc = "update target" /\ r \in UpdateTarget
      \/ r.pc \in {"update owners", "update commit"} /\ r \in UpdateChecked
      \/ r.pc = "remove target" /\ r \in RemoveTarget
      \/ r.pc \in {"remove owners", "remove commit"} /\ r \in RemoveChecked
      \/ r.pc \in {"invite members", "invite commit"} /\ r \in Inviting
      \/ r.pc \in {"revoke read", "revoke commit"} /\ r \in Revoking
      \/ r.pc \in {"accept member", "accept commit"} /\ r \in Accepting
  BY <1>1, <1>2, <1>3, <1>4, <1>5, <1>6, <1>7, <1>8 DEF Request
<1>10. QED
  BY <1>9

\* A step that only moves one request, to a well-formed state that knows the
\* invitation it names, keeps the types.
LEMMA ReadStep ==
    ASSUME Typing, NEW p \in Procs, NEW r \in Request,
           Go(p, r), KnowsInvitation(r), UNCHANGED Tables
    PROVE  Typing'
<1>1. TypeOK'
  BY DEF Typing, TypeOK, Go, Tables
<1>2. \A q \in Procs : req'[q] = req[q] \/ req'[q] = r
  BY DEF Typing, TypeOK, Go
<1>3. InvitationsKnown'
  BY <1>2 DEF Typing, InvitationsKnown, KnowsInvitation, Tables
<1>4. QED
  BY <1>1, <1>3 DEF Typing

LEMMA IdlePhase ==
    /\ Idle \in Request
    /\ Idle.pc \notin {"revoke commit", "accept member", "accept commit"}
  BY DEF Request, Idle

LEMMA IdleStep ==
    ASSUME Typing, NEW p \in Procs, Go(p, Idle), UNCHANGED Tables
    PROVE  Typing'
  BY ReadStep, IdlePhase DEF KnowsInvitation

LEMMA AsLoadedRow ==
    ASSUME NEW m \in Row, NEW first \in Row
    PROVE  AsLoaded(m, first) \in Row
  BY DEF AsLoaded

\* Membership rows stay rows when one is inserted, changed or deleted, and
\* the requests that are not involved keep what they know.
LEMMA WriteMembers ==
    ASSUME Typing, NEW p \in Procs, Go(p, Idle),
           members' \subseteq Row, everOwner' \subseteq Users,
           UNCHANGED <<invitations, nextId, uses>>
    PROVE  Typing'
<1>1. TypeOK'
  BY IdlePhase DEF Typing, TypeOK, Go
<1>2. \A q \in Procs : req'[q] = req[q] \/ req'[q] = Idle
  BY DEF Typing, TypeOK, Go
<1>3. InvitationsKnown'
  BY <1>2, IdlePhase DEF Typing, InvitationsKnown, KnowsInvitation
<1>4. QED
  BY <1>1, <1>3 DEF Typing

\* So do invitations when a step adds one or marks one, as long as addressees
\* do not change.
LEMMA WriteInvitations ==
    ASSUME Typing,
           \A q \in Procs : req'[q] = req[q] \/ req'[q] = Idle,
           req' \in [Procs -> Request],
           members' \subseteq Row, everOwner' \subseteq Users,
           nextId' \in Nat, uses' \in [InvIds -> Nat],
           DOMAIN invitations \subseteq DOMAIN invitations',
           DOMAIN invitations' \subseteq InvIds,
           invitations' \in [DOMAIN invitations' -> Invitation],
           \A i \in DOMAIN invitations :
              invitations'[i].email = invitations[i].email
    PROVE  Typing'
<1>1. TypeOK'
  BY DEF TypeOK
<1>2. InvitationsKnown'
  BY IdlePhase DEF Typing, InvitationsKnown, KnowsInvitation
<1>3. QED
  BY <1>1, <1>2 DEF Typing

\* Marking an invitation as accepted, revoked or expired touches nothing else.
LEMMA MarkInvitation ==
    ASSUME Typing, NEW i \in DOMAIN invitations,
           \/ invitations' = [invitations EXCEPT ![i].accepted = TRUE]
           \/ invitations' = [invitations EXCEPT ![i].revoked = TRUE]
           \/ invitations' = [invitations EXCEPT ![i].expired = TRUE]
    PROVE  /\ DOMAIN invitations' = DOMAIN invitations
           /\ DOMAIN invitations' \subseteq InvIds
           /\ invitations' \in [DOMAIN invitations' -> Invitation]
           /\ \A j \in DOMAIN invitations :
                 /\ invitations'[j].email = invitations[j].email
                 /\ invitations'[j].role = invitations[j].role
<1>1. invitations[i] \in Invitation
  BY DEF Typing, TypeOK
<1>2. \A inv \in Invitation :
         /\ [inv EXCEPT !.accepted = TRUE] \in Invitation
         /\ [inv EXCEPT !.revoked = TRUE] \in Invitation
         /\ [inv EXCEPT !.expired = TRUE] \in Invitation
         /\ [inv EXCEPT !.accepted = TRUE].email = inv.email
         /\ [inv EXCEPT !.revoked = TRUE].email = inv.email
         /\ [inv EXCEPT !.expired = TRUE].email = inv.email
         /\ [inv EXCEPT !.accepted = TRUE].role = inv.role
         /\ [inv EXCEPT !.revoked = TRUE].role = inv.role
         /\ [inv EXCEPT !.expired = TRUE].role = inv.role
  BY DEF Invitation
<1>3. PICK new \in Invitation :
         /\ invitations' = [invitations EXCEPT ![i] = new]
         /\ new.email = invitations[i].email
         /\ new.role = invitations[i].role
  BY <1>1, <1>2
<1>4. QED
  BY <1>3 DEF Typing, TypeOK
-----------------------------------------------------------------------------
LEMMA InitTyping == Init => Typing
<1> SUFFICES ASSUME Init
             PROVE  Typing
  OBVIOUS
<1>1. members \subseteq Row /\ nextId \in Nat /\ everOwner \subseteq Users
  BY TenantsAssumption DEF Init, Row, Roles
<1>2. req \in [Procs -> Request] /\ uses \in [InvIds -> Nat]
  BY IdlePhase DEF Init
<1>3. /\ DOMAIN invitations = {}
      /\ invitations \in [DOMAIN invitations -> Invitation]
  BY DEF Init
<1>4. InvitationsKnown
  BY IdlePhase DEF Init, InvitationsKnown, KnowsInvitation
<1>5. QED
  BY <1>1, <1>2, <1>3, <1>4 DEF Typing, TypeOK

LEMMA UpdateTyping ==
    ASSUME Typing, NEW p \in Procs, Update(p)
    PROVE  Typing'
<1>1. CASE BeginUpdate(p)
  <2>1. PICK actor \in members, u \in Users, to \in Roles :
           Go(p, [pc |-> "update target", actor |-> actor,
                  user |-> u, to |-> to])
    BY <1>1 DEF BeginUpdate
  <2>2. [pc |-> "update target", actor |-> actor, user |-> u, to |-> to]
           \in Request
    BY DEF Typing, TypeOK, Request, UpdateTarget
  <2>3. QED
    BY <1>1, <2>1, <2>2, ReadStep DEF BeginUpdate, KnowsInvitation
<1>2. CASE UpdateReadTarget(p)
  <2>1. /\ req[p] \in UpdateTarget
        /\ UNCHANGED Tables
    BY <1>2, RequestShape DEF UpdateReadTarget, Typing, TypeOK
  <2>2. CASE Go(p, Idle)
    BY <2>1, <2>2, IdleStep
  <2>3. CASE \E m \in members, pc \in {"update owners", "update commit"} :
                Go(p, [pc |-> pc, actor |-> req[p].actor,
                       target |-> AsLoaded(m, req[p].actor),
                       to |-> req[p].to])
    <3>1. PICK m \in members, pc \in {"update owners", "update commit"} :
             Go(p, [pc |-> pc, actor |-> req[p].actor,
                    target |-> AsLoaded(m, req[p].actor), to |-> req[p].to])
      BY <2>3
    <3>2. AsLoaded(m, req[p].actor) \in Row
      BY <2>1, AsLoadedRow DEF UpdateTarget, Typing, TypeOK
    <3>3. [pc |-> pc, actor |-> req[p].actor,
           target |-> AsLoaded(m, req[p].actor), to |-> req[p].to]
             \in Request
      BY <2>1, <3>2 DEF Request, UpdateTarget, UpdateChecked
    <3>4. QED
      BY <2>1, <3>1, <3>3, ReadStep DEF KnowsInvitation
  <2>4. QED
    BY <1>2, <2>2, <2>3 DEF UpdateReadTarget
<1>3. CASE UpdateReadOwners(p)
  <2>1. req[p] \in UpdateChecked
    BY <1>3, RequestShape DEF UpdateReadOwners, Typing, TypeOK
  <2>2. [req[p] EXCEPT !.pc = "update commit"] \in Request
    BY <2>1 DEF UpdateChecked, Request
  <2>3. KnowsInvitation([req[p] EXCEPT !.pc = "update commit"])
    BY <2>1 DEF UpdateChecked, KnowsInvitation
  <2>4. QED
    BY <1>3, <2>2, <2>3, IdleStep, ReadStep DEF UpdateReadOwners
<1>4. CASE UpdateCommit(p)
  <2>1. req[p] \in UpdateChecked
    BY <1>4, RequestShape DEF UpdateCommit, Typing, TypeOK
  <2>2. members' \subseteq Row
    <3>1. \A m \in Row : [m EXCEPT !.role = req[p].to] \in Row
      BY <2>1 DEF UpdateChecked, Row
    <3>2. members \subseteq Row
      BY DEF Typing, TypeOK
    <3>3. QED
      BY <1>4, <3>1, <3>2 DEF UpdateCommit, SetRole
  <2>3. everOwner' \subseteq Users
    BY <1>4, <2>2 DEF UpdateCommit, Owners, Typing, TypeOK, Row
  <2>4. QED
    BY <1>4, <2>2, <2>3, WriteMembers DEF UpdateCommit
<1>5. QED
  BY <1>1, <1>2, <1>3, <1>4 DEF Update

LEMMA RemoveTyping ==
    ASSUME Typing, NEW p \in Procs, Remove(p)
    PROVE  Typing'
<1>1. CASE BeginRemove(p)
  <2>1. PICK actor \in members, u \in Users :
           Go(p, [pc |-> "remove target", actor |-> actor, user |-> u])
    BY <1>1 DEF BeginRemove
  <2>2. [pc |-> "remove target", actor |-> actor, user |-> u] \in Request
    BY DEF Typing, TypeOK, Request, RemoveTarget
  <2>3. QED
    BY <1>1, <2>1, <2>2, ReadStep DEF BeginRemove, KnowsInvitation
<1>2. CASE RemoveReadTarget(p)
  <2>1. /\ req[p] \in RemoveTarget
        /\ UNCHANGED Tables
    BY <1>2, RequestShape DEF RemoveReadTarget, Typing, TypeOK
  <2>2. CASE Go(p, Idle)
    BY <2>1, <2>2, IdleStep
  <2>3. CASE \E m \in members, pc \in {"remove owners", "remove commit"} :
                Go(p, [pc |-> pc, actor |-> req[p].actor,
                       target |-> AsLoaded(m, req[p].actor)])
    <3>1. PICK m \in members, pc \in {"remove owners", "remove commit"} :
             Go(p, [pc |-> pc, actor |-> req[p].actor,
                    target |-> AsLoaded(m, req[p].actor)])
      BY <2>3
    <3>2. AsLoaded(m, req[p].actor) \in Row
      BY <2>1, AsLoadedRow DEF RemoveTarget, Typing, TypeOK
    <3>3. [pc |-> pc, actor |-> req[p].actor,
           target |-> AsLoaded(m, req[p].actor)] \in Request
      BY <2>1, <3>2 DEF Request, RemoveTarget, RemoveChecked
    <3>4. QED
      BY <2>1, <3>1, <3>3, ReadStep DEF KnowsInvitation
  <2>4. QED
    BY <1>2, <2>2, <2>3 DEF RemoveReadTarget
<1>3. CASE RemoveReadOwners(p)
  <2>1. req[p] \in RemoveChecked
    BY <1>3, RequestShape DEF RemoveReadOwners, Typing, TypeOK
  <2>2. [req[p] EXCEPT !.pc = "remove commit"] \in Request
    BY <2>1 DEF RemoveChecked, Request
  <2>3. KnowsInvitation([req[p] EXCEPT !.pc = "remove commit"])
    BY <2>1 DEF RemoveChecked, KnowsInvitation
  <2>4. QED
    BY <1>3, <2>2, <2>3, IdleStep, ReadStep DEF RemoveReadOwners
<1>4. CASE RemoveCommit(p)
  BY <1>4, WriteMembers DEF RemoveCommit, Typing, TypeOK
<1>5. QED
  BY <1>1, <1>2, <1>3, <1>4 DEF Remove

LEMMA InviteTyping ==
    ASSUME Typing, NEW p \in Procs, Invite(p)
    PROVE  Typing'
<1>1. CASE BeginInvite(p)
  <2>1. PICK actor \in members, e \in Users, r \in InvitedRoles :
           Go(p, [pc |-> "invite members", actor |-> actor,
                  email |-> e, role |-> r])
    BY <1>1 DEF BeginInvite
  <2>2. [pc |-> "invite members", actor |-> actor, email |-> e, role |-> r]
           \in Request
    BY DEF Typing, TypeOK, Request, Inviting
  <2>3. QED
    BY <1>1, <2>1, <2>2, ReadStep DEF BeginInvite, KnowsInvitation
<1>2. CASE InviteReadMembers(p)
  <2>1. req[p] \in Inviting
    BY <1>2, RequestShape DEF InviteReadMembers, Typing, TypeOK
  <2>2. [req[p] EXCEPT !.pc = "invite commit"] \in Request
    BY <2>1 DEF Inviting, Request
  <2>3. KnowsInvitation([req[p] EXCEPT !.pc = "invite commit"])
    BY <2>1 DEF Inviting, KnowsInvitation
  <2>4. QED
    BY <1>2, <2>2, <2>3, IdleStep, ReadStep DEF InviteReadMembers
<1>3. CASE InviteCommit(p)
  <2>1. req[p] \in Inviting
    BY <1>3, RequestShape DEF InviteCommit, Typing, TypeOK
  <2> DEFINE new == [email |-> req[p].email, role |-> req[p].role,
                     accepted |-> FALSE, revoked |-> FALSE, expired |-> FALSE]
  <2>2. new \in Invitation
    BY <2>1 DEF Inviting, Invitation
  <2>3. PICK i \in InvIds \ DOMAIN invitations :
           invitations' = [j \in DOMAIN invitations \cup {i} |->
                             IF j = i THEN new ELSE invitations[j]]
    BY <1>3 DEF InviteCommit
  <2>4. /\ DOMAIN invitations' = DOMAIN invitations \cup {i}
        /\ invitations' \in [DOMAIN invitations' -> Invitation]
        /\ \A j \in DOMAIN invitations : invitations'[j] = invitations[j]
    BY <2>2, <2>3 DEF Typing, TypeOK
  <2>5. /\ \A q \in Procs : req'[q] = req[q] \/ req'[q] = Idle
        /\ req' \in [Procs -> Request]
    BY <1>3, IdlePhase DEF InviteCommit, Go, Typing, TypeOK
  <2>6. QED
    BY <1>3, <2>4, <2>5, WriteInvitations DEF InviteCommit, Typing, TypeOK
<1>4. QED
  BY <1>1, <1>2, <1>3 DEF Invite

LEMMA RevokeTyping ==
    ASSUME Typing, NEW p \in Procs, Revoke(p)
    PROVE  Typing'
<1>1. CASE BeginRevoke(p)
  <2>1. PICK actor \in members, i \in InvIds :
           Go(p, [pc |-> "revoke read", actor |-> actor, inv |-> i])
    BY <1>1 DEF BeginRevoke
  <2>2. [pc |-> "revoke read", actor |-> actor, inv |-> i] \in Request
    BY DEF Typing, TypeOK, Request, Revoking
  <2>3. QED
    BY <1>1, <2>1, <2>2, ReadStep DEF BeginRevoke, KnowsInvitation
<1>2. CASE RevokeRead(p)
  <2>1. req[p] \in Revoking
    BY <1>2, RequestShape DEF RevokeRead, Typing, TypeOK
  <2>2. [req[p] EXCEPT !.pc = "revoke commit"] \in Request
    BY <2>1 DEF Revoking, Request
  <2>3. req[p].inv \in DOMAIN invitations =>
           KnowsInvitation([req[p] EXCEPT !.pc = "revoke commit"])
    BY <2>1 DEF Revoking, KnowsInvitation
  <2>4. QED
    BY <1>2, <2>2, <2>3, IdleStep, ReadStep DEF RevokeRead
<1>3. CASE RevokeCommit(p)
  <2>1. req[p].inv \in DOMAIN invitations
    BY <1>3 DEF RevokeCommit, Typing, InvitationsKnown, KnowsInvitation
  <2>2. /\ \A q \in Procs : req'[q] = req[q] \/ req'[q] = Idle
        /\ req' \in [Procs -> Request]
    BY <1>3, IdlePhase DEF RevokeCommit, Go, Typing, TypeOK
  <2>3. QED
    BY <1>3, <2>1, <2>2, MarkInvitation, WriteInvitations
       DEF RevokeCommit, Typing, TypeOK
<1>4. QED
  BY <1>1, <1>2, <1>3 DEF Revoke

LEMMA AcceptTyping ==
    ASSUME Typing, NEW p \in Procs, Accept(p)
    PROVE  Typing'
<1>1. CASE BeginAccept(p)
  <2>1. PICK u \in Users, i \in DOMAIN invitations :
           /\ MayAccept(u, invitations[i])
           /\ Go(p, [pc |-> "accept member", user |-> u, inv |-> i])
    BY <1>1 DEF BeginAccept
  <2>2. [pc |-> "accept member", user |-> u, inv |-> i] \in Request
    BY DEF Typing, TypeOK, Request, Accepting
  <2>3. QED
    BY <1>1, <2>1, <2>2, ReadStep DEF BeginAccept, KnowsInvitation, MayAccept
<1>2. CASE AcceptReadMember(p)
  <2>1. req[p] \in Accepting
    BY <1>2, RequestShape DEF AcceptReadMember, Typing, TypeOK
  <2>2. [req[p] EXCEPT !.pc = "accept commit"] \in Request
    BY <2>1 DEF Accepting, Request
  <2>3. KnowsInvitation([req[p] EXCEPT !.pc = "accept commit"])
    BY <1>2, <2>1
       DEF AcceptReadMember, Accepting, KnowsInvitation, Typing, InvitationsKnown
  <2>4. QED
    BY <1>2, <2>2, <2>3, IdleStep, ReadStep DEF AcceptReadMember
<1>3. CASE AcceptCommit(p)
  <2>1. /\ req[p] \in Accepting
        /\ req[p].inv \in DOMAIN invitations
    BY <1>3, RequestShape
       DEF AcceptCommit, Typing, TypeOK, InvitationsKnown, KnowsInvitation
  <2>2. CASE UNCHANGED Tables
    BY <1>3, <2>2, IdleStep DEF AcceptCommit
  <2>3. CASE ~UNCHANGED Tables
    <3>1. /\ \A q \in Procs : req'[q] = req[q] \/ req'[q] = Idle
          /\ req' \in [Procs -> Request]
      BY <1>3, IdlePhase DEF AcceptCommit, Go, Typing, TypeOK
    <3>2. [id |-> nextId, user |-> req[p].user,
           role |-> invitations[req[p].inv].role] \in Row
      BY <2>1 DEF Accepting, Row, Typing, TypeOK, Invitation, InvitedRoles, Roles
    <3>3. /\ members' \subseteq Row
          /\ everOwner' \subseteq Users
          /\ nextId' \in Nat
          /\ uses' \in [InvIds -> Nat]
      <4>1. /\ members' = members \cup
                   {[id |-> nextId, user |-> req[p].user,
                     role |-> invitations[req[p].inv].role]}
            /\ nextId' = nextId + 1
            /\ uses' = [uses EXCEPT ![req[p].inv] = @ + 1]
            /\ everOwner' = everOwner
        BY <1>3, <2>3 DEF AcceptCommit
      <4>2. \A i \in InvIds : uses[i] + 1 \in Nat
        BY DEF Typing, TypeOK
      <4>3. uses' \in [InvIds -> Nat]
        BY <4>1, <4>2 DEF Typing, TypeOK
      <4>4. nextId' \in Nat
        BY <4>1 DEF Typing, TypeOK
      <4>5. QED
        BY <4>1, <4>3, <4>4, <3>2 DEF Typing, TypeOK
    <3>4. invitations' = [invitations EXCEPT ![req[p].inv].accepted = TRUE]
      BY <1>3, <2>3 DEF AcceptCommit, Tables
    <3>5. QED
      BY <2>1, <3>1, <3>3, <3>4, MarkInvitation, WriteInvitations
  <2>4. QED
    BY <2>2, <2>3
<1>4. QED
  BY <1>1, <1>2, <1>3 DEF Accept

\* One step of the system keeps the types.
LEMMA NextTyping == Typing /\ [Next]_vars => Typing'
<1> SUFFICES ASSUME Typing, [Next]_vars
             PROVE  Typing'
  OBVIOUS
<1>1. ASSUME NEW p \in Procs, Rollback(p)
      PROVE  Typing'
  BY <1>1, IdleStep DEF Rollback
<1>2. ASSUME NEW i \in InvIds, Expire(i)
      PROVE  Typing'
  BY <1>2, MarkInvitation, WriteInvitations DEF Expire, Typing, TypeOK
<1>3. CASE UNCHANGED vars
  BY <1>3 DEF vars, Typing, TypeOK, InvitationsKnown, KnowsInvitation
<1>4. QED
  BY <1>1, <1>2, <1>3, UpdateTyping, RemoveTyping, InviteTyping, RevokeTyping,
     AcceptTyping DEF Next

\* Every table and every request in flight keeps its type, and a request that
\* is about to write an invitation names one that exists.
THEOREM TypingHolds == Spec => []Typing
<1>1. QED
  BY InitTyping, NextTyping, PTL DEF Spec

\* The tables and the requests keep their types.
THEOREM TypeCorrect == Spec => []TypeOK
<1>1. Typing => TypeOK
  BY DEF Typing
<1>2. QED
  BY <1>1, TypingHolds, PTL
-----------------------------------------------------------------------------
(* Where owners come from.                                                  *)

UpdatePhases == {"update target", "update owners", "update commit"}

\* What a request that changes a role remembers of its actor: an owner it
\* loaded has held the role, and only an owner gets past the check with the
\* role "owner" to grant.
KnowsGranter(r) ==
    /\ r.pc \in UpdatePhases /\ r.actor.role = "owner"
          => r.actor.user \in everOwner
    /\ r.pc \in {"update owners", "update commit"} /\ r.to = "owner"
          => r.actor.role = "owner"

Ownership ==
    /\ \A m \in Owners : m.user \in everOwner
    /\ \A p \in Procs : KnowsGranter(req[p])

LEMMA NotUpdating ==
    ASSUME NEW r, r.pc \notin UpdatePhases
    PROVE  KnowsGranter(r)
  BY DEF KnowsGranter, UpdatePhases

LEMMA IdleNotUpdating == Idle.pc \notin UpdatePhases
  BY DEF Idle, UpdatePhases

\* Requests may move and the history of owners may grow: what is known about
\* granters stays known.
LEMMA GrantersStay ==
    ASSUME Typing, Ownership, everOwner \subseteq everOwner',
           NEW p \in Procs, NEW r, Go(p, r), KnowsGranter(r)
    PROVE  (\A q \in Procs : KnowsGranter(req[q]))'
<1>1. \A q \in Procs : req'[q] = req[q] \/ req'[q] = r
  BY DEF Go, Typing, TypeOK
<1>2. \A q \in Procs : KnowsGranter(req'[q])
  BY <1>1 DEF Ownership
<1>3. QED
  BY <1>2 DEF KnowsGranter, UpdatePhases

\* The check before a role change lets only owners grant the owner role.
LEMMA CheckedGranter ==
    ASSUME Typing, Ownership, NEW p \in Procs, UpdateReadTarget(p)
    PROVE  \E r : Go(p, r) /\ KnowsGranter(r)
<1>1. /\ req[p] \in UpdateTarget
      /\ KnowsGranter(req[p])
      /\ req[p].pc = "update target"
  BY RequestShape DEF UpdateReadTarget, Typing, TypeOK, Ownership
<1>2. CASE Go(p, Idle)
  BY <1>2, NotUpdating, IdleNotUpdating
<1>3. CASE \E m \in members, pc \in {"update owners", "update commit"} :
              /\ MayChangeRole(req[p].actor, AsLoaded(m, req[p].actor),
                               req[p].to)
              /\ Go(p, [pc |-> pc, actor |-> req[p].actor,
                        target |-> AsLoaded(m, req[p].actor),
                        to |-> req[p].to])
  <2>1. PICK m \in members, pc \in {"update owners", "update commit"} :
           /\ MayChangeRole(req[p].actor, AsLoaded(m, req[p].actor), req[p].to)
           /\ Go(p, [pc |-> pc, actor |-> req[p].actor,
                     target |-> AsLoaded(m, req[p].actor), to |-> req[p].to])
    BY <1>3
  <2>2. KnowsGranter([pc |-> pc, actor |-> req[p].actor,
                      target |-> AsLoaded(m, req[p].actor), to |-> req[p].to])
    BY <1>1, <2>1 DEF KnowsGranter, UpdatePhases, MayChangeRole
  <2>3. QED
    BY <2>1, <2>2
<1>4. QED
  BY <1>2, <1>3 DEF UpdateReadTarget

MemberPhases == UpdatePhases \cup
                {"remove target", "remove owners", "remove commit"}

\* Requests about invitations never enter a phase of a change of members.
LEMMA InvitationPhases ==
    ASSUME Typing, NEW p \in Procs,
           Invite(p) \/ Revoke(p) \/ Accept(p) \/ Rollback(p)
    PROVE  \E r : Go(p, r) /\ r.pc \notin MemberPhases
<1>0. req[p] \in Request
  BY DEF Typing, TypeOK
<1>1. CASE Go(p, Idle)
  <2>1. Idle.pc \notin MemberPhases
    BY DEF Idle, MemberPhases, UpdatePhases
  <2>2. QED
    BY <1>1, <2>1
<1>2. CASE Invite(p) /\ ~Go(p, Idle)
  <2>1. CASE BeginInvite(p)
    <3>1. PICK actor \in members, e \in Users, r \in InvitedRoles :
             Go(p, [pc |-> "invite members", actor |-> actor,
                   email |-> e, role |-> r])
      BY <2>1 DEF BeginInvite
    <3>2. [pc |-> "invite members", actor |-> actor,
                   email |-> e, role |-> r].pc
             \notin MemberPhases
      BY DEF MemberPhases, UpdatePhases
    <3>3. QED
      BY <3>1, <3>2
  <2>2. CASE InviteReadMembers(p)
    <3>1. [req[p] EXCEPT !.pc = "invite commit"].pc = "invite commit"
      BY <1>0, <2>2, RequestShape DEF InviteReadMembers, Inviting
    <3>2. QED
      BY <1>2, <2>2, <3>1 DEF InviteReadMembers, MemberPhases, UpdatePhases
  <2>3. QED
    BY <1>2, <2>1, <2>2 DEF Invite, InviteCommit
<1>3. CASE Revoke(p) /\ ~Go(p, Idle)
  <2>1. CASE BeginRevoke(p)
    <3>1. PICK actor \in members, i \in InvIds :
             Go(p, [pc |-> "revoke read", actor |-> actor, inv |-> i])
      BY <2>1 DEF BeginRevoke
    <3>2. [pc |-> "revoke read", actor |-> actor, inv |-> i].pc
             \notin MemberPhases
      BY DEF MemberPhases, UpdatePhases
    <3>3. QED
      BY <3>1, <3>2
  <2>2. CASE RevokeRead(p)
    <3>1. [req[p] EXCEPT !.pc = "revoke commit"].pc = "revoke commit"
      BY <1>0, <2>2, RequestShape DEF RevokeRead, Revoking
    <3>2. QED
      BY <1>3, <2>2, <3>1 DEF RevokeRead, MemberPhases, UpdatePhases
  <2>3. QED
    BY <1>3, <2>1, <2>2 DEF Revoke, RevokeCommit
<1>4. CASE Accept(p) /\ ~Go(p, Idle)
  <2>1. CASE BeginAccept(p)
    <3>1. PICK u \in Users, i \in DOMAIN invitations :
             Go(p, [pc |-> "accept member", user |-> u, inv |-> i])
      BY <2>1 DEF BeginAccept
    <3>2. [pc |-> "accept member", user |-> u, inv |-> i].pc
             \notin MemberPhases
      BY DEF MemberPhases, UpdatePhases
    <3>3. QED
      BY <3>1, <3>2
  <2>2. CASE AcceptReadMember(p)
    <3>1. [req[p] EXCEPT !.pc = "accept commit"].pc = "accept commit"
      BY <1>0, <2>2, RequestShape DEF AcceptReadMember, Accepting
    <3>2. QED
      BY <1>4, <2>2, <3>1 DEF AcceptReadMember, MemberPhases, UpdatePhases
  <2>3. QED
    BY <1>4, <2>1, <2>2 DEF Accept, AcceptCommit
<1>5. QED
  BY <1>1, <1>2, <1>3, <1>4 DEF Rollback

\* Neither do they, nor removals, enter a phase of a role change.
LEMMA OtherPhases ==
    ASSUME Typing, NEW p \in Procs,
           \/ Remove(p) \/ Invite(p) \/ Revoke(p) \/ Accept(p) \/ Rollback(p)
    PROVE  \E r : Go(p, r) /\ r.pc \notin UpdatePhases
<1>0. req[p] \in Request
  BY DEF Typing, TypeOK
<1>1. CASE Go(p, Idle)
  BY <1>1, IdleNotUpdating
<1>2. CASE Remove(p) /\ ~Go(p, Idle)
  <2>1. CASE BeginRemove(p)
    <3>1. PICK actor \in members, u \in Users :
             Go(p, [pc |-> "remove target", actor |-> actor, user |-> u])
      BY <2>1 DEF BeginRemove
    <3>2. [pc |-> "remove target", actor |-> actor, user |-> u].pc
             \notin UpdatePhases
      BY DEF UpdatePhases
    <3>3. QED
      BY <3>1, <3>2
  <2>2. CASE RemoveReadTarget(p)
    <3>1. PICK pc \in {"remove owners", "remove commit"} :
             \E t : Go(p, [pc |-> pc, actor |-> req[p].actor, target |-> t])
      BY <1>2, <2>2 DEF RemoveReadTarget
    <3> PICK t : Go(p, [pc |-> pc, actor |-> req[p].actor, target |-> t])
      BY <3>1
    <3>2. [pc |-> pc, actor |-> req[p].actor, target |-> t].pc
             \notin UpdatePhases
      BY DEF UpdatePhases
    <3>3. QED
      BY <3>1, <3>2
  <2>3. CASE RemoveReadOwners(p)
    <3>1. [req[p] EXCEPT !.pc = "remove commit"].pc = "remove commit"
      BY <1>0, <2>3, RequestShape DEF RemoveReadOwners, RemoveChecked
    <3>2. QED
      BY <1>2, <2>3, <3>1 DEF RemoveReadOwners, UpdatePhases
  <2>4. QED
    BY <1>2, <2>1, <2>2, <2>3 DEF Remove, RemoveCommit
<1>3. QED
  BY <1>1, <1>2, InvitationPhases DEF MemberPhases

\* Every step leaves the request it moves in a state that knows its granter.
LEMMA MovedGranter ==
    ASSUME Typing, Ownership, NEW p \in Procs,
           \/ Update(p) \/ Remove(p) \/ Invite(p)
           \/ Revoke(p) \/ Accept(p) \/ Rollback(p)
    PROVE  \E r : Go(p, r) /\ KnowsGranter(r)
<1>1. CASE Go(p, Idle)
  BY <1>1, NotUpdating, IdleNotUpdating
<1>2. CASE BeginUpdate(p)
  <2>1. PICK actor \in members, u \in Users, to \in Roles :
           Go(p, [pc |-> "update target", actor |-> actor,
                  user |-> u, to |-> to])
    BY <1>2 DEF BeginUpdate
  <2>2. KnowsGranter([pc |-> "update target", actor |-> actor,
                      user |-> u, to |-> to])
    BY DEF KnowsGranter, Ownership, Owners
  <2>3. QED
    BY <2>1, <2>2
<1>3. CASE UpdateReadTarget(p)
  BY <1>3, CheckedGranter
<1>4. CASE UpdateReadOwners(p) /\ ~Go(p, Idle)
  <2>1. /\ req[p] \in UpdateChecked
        /\ KnowsGranter(req[p])
        /\ req[p].pc = "update owners"
    BY <1>4, RequestShape DEF UpdateReadOwners, Typing, TypeOK, Ownership
  <2>2. KnowsGranter([req[p] EXCEPT !.pc = "update commit"])
    BY <2>1 DEF KnowsGranter, UpdatePhases, UpdateChecked
  <2>3. QED
    BY <1>4, <2>2 DEF UpdateReadOwners
<1>5. CASE Remove(p) \/ Invite(p) \/ Revoke(p) \/ Accept(p) \/ Rollback(p)
  BY <1>5, OtherPhases, NotUpdating
<1>6. QED
  BY <1>1, <1>2, <1>3, <1>4, <1>5 DEF Update, UpdateCommit

\* Only the commit of a role change and the insertion of an invited member
\* give a row a new role, and only the first can give "owner".
LEMMA NewOwners ==
    ASSUME Typing, [Next]_vars, NEW m \in Owners', m \notin Owners
    PROVE  \E p \in Procs : /\ req[p].pc = "update commit"
                            /\ req[p].to = "owner"
                            /\ UpdateCommit(p)
                            /\ \E o \in members : o.user = m.user
<1>1. m \in members' /\ m.role = "owner" /\ m \notin members
  BY DEF Owners
<1>2. ASSUME NEW p \in Procs, UpdateCommit(p)
      PROVE  req[p].to = "owner" /\ \E o \in members : o.user = m.user
  <2>1. PICK o \in members : m = [o EXCEPT !.role = req[p].to]
    BY <1>1, <1>2 DEF UpdateCommit, SetRole
  <2>2. o \in Row
    BY DEF Typing, TypeOK
  <2>3. QED
    BY <1>1, <2>1, <2>2 DEF Row
<1>3. ASSUME NEW p \in Procs, AcceptCommit(p)
      PROVE  FALSE
  <2>0. req[p].inv \in DOMAIN invitations
    BY <1>3 DEF AcceptCommit, Typing, InvitationsKnown, KnowsInvitation
  <2>1. m.role = invitations[req[p].inv].role
    <3>1. ~UNCHANGED Tables
      BY <1>1 DEF Tables
    <3>2. m \in {[id |-> nextId, user |-> req[p].user,
                 role |-> invitations[req[p].inv].role]}
      BY <1>1, <1>3, <3>1 DEF AcceptCommit
    <3>3. QED
      BY <3>2
  <2>2. m.role \in InvitedRoles
    BY <2>0, <2>1 DEF Typing, TypeOK, Invitation
  <2>3. QED
    BY <1>1, <2>2 DEF InvitedRoles
<1>4. ASSUME NEW p \in Procs,
             \/ Update(p) \/ Remove(p) \/ Invite(p)
             \/ Revoke(p) \/ Accept(p) \/ Rollback(p)
      PROVE  UpdateCommit(p)
  <2>1. CASE Update(p)
    BY <2>1, <1>1
       DEF Update, BeginUpdate, UpdateReadTarget, UpdateReadOwners, Tables
  <2>2. CASE Remove(p)
    BY <2>2, <1>1 DEF Remove, BeginRemove, RemoveReadTarget, RemoveReadOwners,
                      RemoveCommit, Tables
  <2>3. CASE Invite(p) \/ Revoke(p) \/ Rollback(p)
    BY <2>3, <1>1 DEF Invite, BeginInvite, InviteReadMembers, InviteCommit,
                      Revoke, BeginRevoke, RevokeRead, RevokeCommit, Rollback,
                      Tables
  <2>4. CASE Accept(p)
    BY <2>4, <1>1, <1>3 DEF Accept, BeginAccept, AcceptReadMember, Tables
  <2>5. QED
    BY <1>4, <2>1, <2>2, <2>3, <2>4
<1>5. \E p \in Procs : UpdateCommit(p)
  BY <1>1, <1>4 DEF Next, vars, Expire
<1>6. QED
  BY <1>2, <1>5 DEF UpdateCommit

\* The history of owners grows by the owners of the new state, if at all.
LEMMA HistoryGrows ==
    ASSUME Typing, [Next]_vars
    PROVE  \/ everOwner' = everOwner
           \/ \E p \in Procs : /\ UpdateCommit(p)
                               /\ everOwner' =
                                     everOwner \cup {m.user : m \in Owners'}
<1>1. ASSUME NEW p \in Procs,
             \/ Update(p) \/ Remove(p) \/ Invite(p)
             \/ Revoke(p) \/ Accept(p) \/ Rollback(p)
      PROVE  everOwner' = everOwner \/ UpdateCommit(p)
  <2>1. CASE Update(p) \/ Remove(p)
    BY <2>1 DEF Update, BeginUpdate, UpdateReadTarget, UpdateReadOwners,
                Remove, BeginRemove, RemoveReadTarget, RemoveReadOwners,
                RemoveCommit, Tables
  <2>2. CASE Invite(p) \/ Revoke(p) \/ Rollback(p)
    BY <2>2 DEF Invite, BeginInvite, InviteReadMembers, InviteCommit,
                Revoke, BeginRevoke, RevokeRead, RevokeCommit, Rollback, Tables
  <2>3. CASE Accept(p)
    <3>1. UNCHANGED Tables => everOwner' = everOwner
      BY DEF Tables
    <3>2. QED
      BY <2>3, <3>1 DEF Accept, BeginAccept, AcceptReadMember, AcceptCommit
  <2>4. QED
    BY <1>1, <2>1, <2>2, <2>3
<1>2. \A p \in Procs : UpdateCommit(p) =>
         everOwner' = everOwner \cup {m.user : m \in Owners'}
  BY DEF UpdateCommit
<1>3. QED
  BY <1>1, <1>2 DEF Next, vars, Expire

LEMMA InitOwnership == Init => Ownership
<1> SUFFICES ASSUME Init
             PROVE  Ownership
  OBVIOUS
<1>1. \A p \in Procs : KnowsGranter(req[p])
  BY NotUpdating, IdleNotUpdating DEF Init
<1>2. QED
  BY <1>1 DEF Init, Ownership, Owners

LEMMA NextOwnership == Typing /\ Ownership /\ [Next]_vars => Ownership'
<1> SUFFICES ASSUME Typing, Ownership, [Next]_vars
             PROVE  Ownership'
  OBVIOUS
<1>1. everOwner \subseteq everOwner'
  BY HistoryGrows
<1>2. (\A p \in Procs : KnowsGranter(req[p]))'
  <2>1. CASE \E p \in Procs : \/ Update(p) \/ Remove(p) \/ Invite(p)
                              \/ Revoke(p) \/ Accept(p) \/ Rollback(p)
    BY <2>1, <1>1, MovedGranter, GrantersStay
  <2>2. CASE req' = req
    BY <2>2, <1>1 DEF Ownership, KnowsGranter, UpdatePhases
  <2>3. QED
    BY <2>1, <2>2 DEF Next, vars, Expire
<1>3. ASSUME NEW m \in Owners'
      PROVE  m.user \in everOwner'
  <2>1. CASE m \in Owners
    BY <2>1, <1>1 DEF Ownership
  <2>2. CASE m \notin Owners
    <3>1. PICK p \in Procs : UpdateCommit(p)
      BY <2>2, NewOwners
    <3>2. QED
      BY <1>3, <3>1 DEF UpdateCommit
  <2>3. QED
    BY <2>1, <2>2
<1>4. QED
  BY <1>2, <1>3 DEF Ownership

\* Ownership is invariant: a request acts on an owner's behalf only if its actor
\* has been an owner.
THEOREM OwnershipInvariant == Spec => []Ownership
<1>1. QED
  BY TypingHolds, InitOwnership, NextOwnership, PTL DEF Spec

\* Whoever becomes an owner was promoted by somebody who has been one: the
\* role cannot be reached by invitation, by self-promotion of an admin or by
\* any interleaving of the two.
THEOREM OwnersOnlyFromOwners == Spec => OwnersComeFromOwners
<1> DEFINE FromOwner == \A u \in everOwner' \ everOwner :
                           \E p \in Procs : /\ req[p].pc = "update commit"
                                            /\ req[p].actor.user \in everOwner
<1>1. Typing /\ Ownership /\ [Next]_vars => [FromOwner]_vars
  <2> SUFFICES ASSUME Typing, Ownership, [Next]_vars,
                      NEW u \in everOwner' \ everOwner
               PROVE  \E p \in Procs : /\ req[p].pc = "update commit"
                                       /\ req[p].actor.user \in everOwner
    OBVIOUS
  <2>1. PICK m \in Owners' : m.user = u
    BY HistoryGrows
  <2>2. m \notin Owners
    BY <2>1 DEF Ownership
  <2>3. PICK p \in Procs : req[p].pc = "update commit" /\ req[p].to = "owner"
    BY <2>2, NewOwners
  <2>4. KnowsGranter(req[p])
    BY DEF Ownership
  <2>5. QED
    BY <2>3, <2>4 DEF KnowsGranter, UpdatePhases
<1>2. QED
  BY <1>1, TypingHolds, OwnershipInvariant, PTL DEF Spec, OwnersComeFromOwners

\* When the last owner is gone and no owner's request is in flight, no later
\* call makes anybody an owner.
LEMMA OwnerlessStep ==
    ASSUME Typing, Ownership, [Next]_vars, NoOwnerLeft
    PROVE  NoOwnerLeft'
<1>1. Owners' = {}
  <2> SUFFICES ASSUME NEW m \in Owners'
               PROVE  FALSE
    OBVIOUS
  <2>1. PICK p \in Procs : req[p].pc = "update commit" /\ req[p].to = "owner"
    BY NewOwners DEF NoOwnerLeft
  <2>2. KnowsGranter(req[p])
    BY DEF Ownership
  <2>3. QED
    BY <2>1, <2>2 DEF KnowsGranter, UpdatePhases, NoOwnerLeft
<1>2. ASSUME NEW p \in Procs, req'[p].pc \in UpdatePhases
      PROVE  req'[p].actor.role # "owner"
  <2>1. CASE req'[p] = req[p]
    BY <1>2, <2>1 DEF NoOwnerLeft, UpdatePhases
  <2>2. CASE req'[p] # req[p]
    <3>1. PICK q \in Procs : \/ Update(q) \/ Remove(q) \/ Invite(q)
                             \/ Revoke(q) \/ Accept(q) \/ Rollback(q)
      BY <2>2 DEF Next, vars, Expire
    <3>2. \A r : Go(q, r) => p = q /\ req'[p] = r
      BY <2>2 DEF Go, Typing, TypeOK
    <3>3. Update(q)
      BY <1>2, <3>1, <3>2, OtherPhases
    <3>4. CASE BeginUpdate(q)
      <4>1. PICK actor \in members, u \in Users, to \in Roles :
               Go(q, [pc |-> "update target", actor |-> actor,
                      user |-> u, to |-> to])
        BY <3>4 DEF BeginUpdate
      <4>2. req'[p] = [pc |-> "update target", actor |-> actor,
                       user |-> u, to |-> to]
        BY <3>2, <4>1
      <4>3. QED
        <5>0. [pc |-> "update target", actor |-> actor,
                       user |-> u, to |-> to].actor = actor
          OBVIOUS
        <5>1. req'[p].actor = actor
          BY <4>2, <5>0
        <5>2. actor.role # "owner"
          BY DEF NoOwnerLeft, Owners
        <5>3. QED
          BY <5>1, <5>2
    <3>5. CASE ~BeginUpdate(q)
      <4>1. /\ req[p] \in Request
            /\ req[p].pc \in UpdatePhases
            /\ Go(q, Idle) \/ req'[p].actor = req[p].actor
        <5>1. CASE UpdateReadTarget(q)
          <6>1. req[q].pc = "update target"
            BY <5>1 DEF UpdateReadTarget
          <6>2. \/ Go(q, Idle)
                \/ \E m \in members, pc \in {"update owners", "update commit"} :
                      Go(q, [pc |-> pc, actor |-> req[q].actor,
                             target |-> AsLoaded(m, req[q].actor),
                             to |-> req[q].to])
            BY <5>1 DEF UpdateReadTarget
          <6>3. ASSUME NEW m \in members, NEW pc,
                       Go(q, [pc |-> pc, actor |-> req[q].actor,
                              target |-> AsLoaded(m, req[q].actor),
                              to |-> req[q].to])
                PROVE  p = q /\ req'[p].actor = req[p].actor
            <7> DEFINE r == [pc |-> pc, actor |-> req[q].actor,
                             target |-> AsLoaded(m, req[q].actor),
                             to |-> req[q].to]
            <7>1. p = q /\ req'[p] = r
              BY <6>3, <3>2
            <7>2. QED
              BY <7>1
          <6>4. p = q /\ (Go(q, Idle) \/ req'[p].actor = req[p].actor)
            BY <6>2, <6>3, <3>2
          <6>5. QED
            BY <6>1, <6>4 DEF UpdatePhases, Typing, TypeOK
        <5>2. CASE UpdateReadOwners(q)
          <6>1. req[q] \in UpdateChecked /\ req[q].pc = "update owners"
            BY <5>2, RequestShape DEF UpdateReadOwners, Typing, TypeOK
          <6>2. /\ Go(q, Idle) \/ Go(q, [req[q] EXCEPT !.pc = "update commit"])
                /\ [req[q] EXCEPT !.pc = "update commit"].actor = req[q].actor
            BY <5>2, <6>1 DEF UpdateReadOwners, UpdateChecked
          <6>3. QED
            BY <6>1, <6>2, <3>2 DEF UpdatePhases, Typing, TypeOK
        <5>3. CASE UpdateCommit(q)
          BY <5>3, <3>2 DEF UpdateCommit, UpdatePhases, Typing, TypeOK
        <5>4. QED
          BY <3>3, <3>5, <5>1, <5>2, <5>3 DEF Update
      <4>2. CASE Go(q, Idle)
        BY <4>2, <3>2, <1>2, IdleNotUpdating
      <4>3. QED
        BY <4>1, <4>2 DEF NoOwnerLeft, UpdatePhases
    <3>6. QED
      BY <3>4, <3>5
  <2>3. QED
    BY <2>1, <2>2
<1>3. QED
  BY <1>1, <1>2 DEF NoOwnerLeft, UpdatePhases

\* No interleaving of requests gives an organization without owner a new one.
THEOREM OwnerlessStays == Spec => OwnerlessIsForever
<1>1. Typing /\ Ownership /\ [Next]_vars
         => [NoOwnerLeft => NoOwnerLeft']_vars
  BY OwnerlessStep
<1>2. QED
  BY <1>1, TypingHolds, OwnershipInvariant, PTL DEF Spec, OwnerlessIsForever
-----------------------------------------------------------------------------
(* Who is a member.                                                         *)

Membership == UniqueMember /\ MembershipJustified

\* The four ways the table of members or of invitations changes.
LEMMA TableSteps ==
    ASSUME Typing, [Next]_vars
    PROVE  \/ \E p \in Procs : UpdateCommit(p)
           \/ \E p \in Procs : RemoveCommit(p)
           \/ \E p \in Procs : InviteCommit(p)
           \/ \E p \in Procs : AcceptCommit(p) /\ ~UNCHANGED Tables
           \/ /\ members' = members
              /\ \/ invitations' = invitations
                 \/ \E i \in DOMAIN invitations :
                       \/ invitations' = [invitations EXCEPT ![i].revoked = TRUE]
                       \/ invitations' = [invitations EXCEPT ![i].expired = TRUE]
<1>1. CASE UNCHANGED Tables \/ UNCHANGED vars
  BY <1>1 DEF Tables, vars
<1>2. CASE \E i \in InvIds : Expire(i)
  BY <1>2 DEF Expire
<1>3. ASSUME NEW p \in Procs, RevokeCommit(p)
      PROVE  /\ members' = members
             /\ req[p].inv \in DOMAIN invitations
             /\ invitations' = [invitations EXCEPT ![req[p].inv].revoked = TRUE]
  BY <1>3 DEF RevokeCommit, Typing, InvitationsKnown, KnowsInvitation
<1>4. ASSUME NEW p \in Procs,
             \/ Update(p) \/ Remove(p) \/ Invite(p)
             \/ Revoke(p) \/ Accept(p) \/ Rollback(p)
      PROVE  \/ UNCHANGED Tables \/ UpdateCommit(p) \/ RemoveCommit(p)
             \/ InviteCommit(p) \/ RevokeCommit(p) \/ AcceptCommit(p)
  BY <1>4 DEF Update, BeginUpdate, UpdateReadTarget, UpdateReadOwners,
              Remove, BeginRemove, RemoveReadTarget, RemoveReadOwners,
              Invite, BeginInvite, InviteReadMembers,
              Revoke, BeginRevoke, RevokeRead,
              Accept, BeginAccept, AcceptReadMember, Rollback
<1>5. QED
  BY <1>1, <1>2, <1>3, <1>4 DEF Next

LEMMA NextMembership == Typing /\ Membership /\ [Next]_vars => Membership'
<1> SUFFICES ASSUME Typing, Membership, [Next]_vars
             PROVE  Membership'
  OBVIOUS
<1>1. CASE \E p \in Procs : UpdateCommit(p)
  <2>1. PICK p \in Procs : UpdateCommit(p)
    BY <1>1
  <2>2. \A m \in members' : \E o \in members :
           /\ m.user = o.user
           /\ m = IF req[p].target.role # req[p].to /\ o.id = req[p].target.id
                    THEN [o EXCEPT !.role = req[p].to] ELSE o
    <3>1. members' = SetRole(members, req[p].target, req[p].to)
      BY <2>1 DEF UpdateCommit
    <3>2. \A o \in members : [o EXCEPT !.role = req[p].to].user = o.user
      BY DEF Typing, TypeOK, Row
    <3>3. CASE req[p].target.role = req[p].to
      BY <3>1, <3>3 DEF SetRole
    <3>4. CASE req[p].target.role # req[p].to
      BY <3>1, <3>2, <3>4 DEF SetRole
    <3>5. QED
      BY <3>3, <3>4
  <2>3. ASSUME NEW m \in members', NEW n \in members', m.user = n.user
        PROVE  m = n
    <3>1. PICK o \in members :
             /\ m.user = o.user
             /\ m = IF req[p].target.role # req[p].to /\ o.id = req[p].target.id
                      THEN [o EXCEPT !.role = req[p].to] ELSE o
      BY <2>2
    <3>2. PICK o2 \in members :
             /\ n.user = o2.user
             /\ n = IF req[p].target.role # req[p].to /\ o2.id = req[p].target.id
                      THEN [o2 EXCEPT !.role = req[p].to] ELSE o2
      BY <2>2
    <3>3. o = o2
      BY <2>3, <3>1, <3>2 DEF Membership, UniqueMember
    <3>4. QED
      BY <3>1, <3>2, <3>3
  <2>4. invitations' = invitations
    BY <2>1 DEF UpdateCommit
  <2>5. MembershipJustified'
    BY <2>2, <2>4 DEF Membership, MembershipJustified
  <2>6. QED
    BY <2>3, <2>5 DEF Membership, UniqueMember
<1>2. CASE \E p \in Procs : RemoveCommit(p)
  BY <1>2 DEF RemoveCommit, Membership, UniqueMember, MembershipJustified
<1>3. CASE \E p \in Procs : InviteCommit(p)
  <2>1. /\ members' = members
        /\ DOMAIN invitations \subseteq DOMAIN invitations'
        /\ \A j \in DOMAIN invitations : invitations'[j] = invitations[j]
    BY <1>3 DEF InviteCommit
  <2>2. QED
    BY <2>1 DEF Membership, UniqueMember, MembershipJustified
<1>4. CASE \E p \in Procs : AcceptCommit(p) /\ ~UNCHANGED Tables
  <2>1. PICK p \in Procs : AcceptCommit(p) /\ ~UNCHANGED Tables
    BY <1>4
  <2> DEFINE u == req[p].user
             i == req[p].inv
             new == [id |-> nextId, user |-> u, role |-> invitations[i].role]
  <2>2. /\ i \in DOMAIN invitations
        /\ invitations[i].email = u
    BY <2>1 DEF AcceptCommit, Typing, InvitationsKnown, KnowsInvitation
  <2>3. /\ \A m \in members : m.user # u
        /\ members' = members \cup {new}
        /\ invitations' = [invitations EXCEPT ![i].accepted = TRUE]
    BY <2>1 DEF AcceptCommit, InsertAllowed, IsMember
  <2>4. /\ DOMAIN invitations' = DOMAIN invitations
        /\ invitations'[i].accepted
        /\ \A j \in DOMAIN invitations :
              /\ invitations'[j].email = invitations[j].email
              /\ invitations[j].accepted => invitations'[j].accepted
    BY <2>2, <2>3 DEF Typing, TypeOK, Invitation
  <2>5. UniqueMember'
    BY <2>3 DEF Membership, UniqueMember
  <2>6. MembershipJustified'
    BY <2>2, <2>3, <2>4 DEF Membership, MembershipJustified
  <2>7. QED
    BY <2>5, <2>6 DEF Membership
<1>5. CASE /\ members' = members
           /\ \/ invitations' = invitations
              \/ \E i \in DOMAIN invitations :
                    \/ invitations' = [invitations EXCEPT ![i].revoked = TRUE]
                    \/ invitations' = [invitations EXCEPT ![i].expired = TRUE]
  <2>1. /\ DOMAIN invitations' = DOMAIN invitations
        /\ \A j \in DOMAIN invitations :
              /\ invitations'[j].email = invitations[j].email
              /\ invitations'[j].accepted = invitations[j].accepted
    BY <1>5 DEF Typing, TypeOK, Invitation
  <2>2. QED
    BY <1>5, <2>1 DEF Membership, UniqueMember, MembershipJustified
<1>6. QED
  BY <1>1, <1>2, <1>3, <1>4, <1>5, TableSteps

\* No interleaving of requests gives a user two memberships, or a membership
\* to a user who never accepted an invitation addressed to them.
THEOREM MembershipInvariant == Spec => [](UniqueMember /\ MembershipJustified)
<1>1. Init => Membership
  BY DEF Init, Membership, UniqueMember, MembershipJustified
<1>2. QED
  BY <1>1, NextMembership, TypingHolds, PTL DEF Spec, Membership

\* The unique constraint is enough: no interleaving of acceptances, removals and
\* role changes leaves a user with two rows.
THEOREM UniqueRows == Spec => []UniqueMember
<1>1. UniqueMember /\ MembershipJustified => UniqueMember
  OBVIOUS
<1>2. QED
  BY <1>1, MembershipInvariant, PTL
-----------------------------------------------------------------------------
(* What becomes of an invitation.                                           *)

Accepts == {"accept member", "accept commit"}

\* Invitations stay, and stay used or revoked.
LEMMA InvitationsStay ==
    ASSUME Typing, [Next]_vars, NEW j \in DOMAIN invitations
    PROVE  /\ j \in DOMAIN invitations'
           /\ invitations[j].accepted => invitations'[j].accepted
           /\ invitations[j].revoked => invitations'[j].revoked
<1>1. CASE invitations' = invitations
  BY <1>1
<1>2. CASE \E p \in Procs : InviteCommit(p)
  BY <1>2 DEF InviteCommit
<1>3. ASSUME NEW i \in DOMAIN invitations,
             \/ invitations' = [invitations EXCEPT ![i].revoked = TRUE]
             \/ invitations' = [invitations EXCEPT ![i].expired = TRUE]
             \/ invitations' = [invitations EXCEPT ![i].accepted = TRUE]
      PROVE  /\ j \in DOMAIN invitations'
             /\ invitations[j].accepted => invitations'[j].accepted
             /\ invitations[j].revoked => invitations'[j].revoked
  BY <1>3 DEF Typing, TypeOK, Invitation
<1>4. ASSUME NEW p \in Procs, AcceptCommit(p), ~UNCHANGED Tables
      PROVE  /\ req[p].inv \in DOMAIN invitations
             /\ invitations' = [invitations EXCEPT ![req[p].inv].accepted = TRUE]
  BY <1>4 DEF AcceptCommit, Typing, InvitationsKnown, KnowsInvitation
<1>5. ASSUME NEW p \in Procs, UpdateCommit(p) \/ RemoveCommit(p)
      PROVE  invitations' = invitations
  BY <1>5 DEF UpdateCommit, RemoveCommit
<1>6. QED
  BY <1>1, <1>2, <1>3, <1>4, <1>5, TableSteps

\* A request in state "r" that accepts an invitation was accepting it before, or
\* has just found it unused and in force.
InForce(p, r) ==
    r.pc \in Accepts =>
        \/ req[p].pc \in Accepts /\ r.inv = req[p].inv
        \/ /\ r.inv \in DOMAIN invitations /\ invitations' = invitations
           /\ ~invitations[r.inv].accepted /\ ~invitations[r.inv].revoked

LEMMA OtherwiseInForce ==
    ASSUME NEW p, NEW r, r.pc \notin Accepts
    PROVE  InForce(p, r)
  BY DEF InForce

LEMMA IdleInForce ==
    ASSUME NEW p, Go(p, Idle)
    PROVE  \E r : Go(p, r) /\ InForce(p, r)
<1>1. Idle.pc \notin Accepts
  BY DEF Idle, Accepts
<1>2. QED
  BY <1>1, OtherwiseInForce

LEMMA UpdateInForce ==
    ASSUME Typing, NEW p \in Procs, Update(p)
    PROVE  \E r : Go(p, r) /\ InForce(p, r)
<1>1. CASE Go(p, Idle)
  BY <1>1, IdleInForce
<1>2. CASE BeginUpdate(p)
  <2>1. PICK actor \in members, u \in Users, to \in Roles :
           Go(p, [pc |-> "update target", actor |-> actor, user |-> u, to |-> to])
    BY <1>2 DEF BeginUpdate
  <2>2. [pc |-> "update target", actor |-> actor, user |-> u, to |-> to].pc \notin Accepts
    BY DEF Accepts
  <2>3. QED
    BY <2>1, <2>2, OtherwiseInForce
<1>3. CASE UpdateReadTarget(p) /\ ~Go(p, Idle)
  <2>1. PICK pc \in {"update owners", "update commit"} :
           \E t : Go(p, [pc |-> pc, actor |-> req[p].actor, target |-> t, to |-> req[p].to])
    BY <1>3 DEF UpdateReadTarget
  <2> PICK t : Go(p, [pc |-> pc, actor |-> req[p].actor, target |-> t, to |-> req[p].to])
    BY <2>1
  <2>2. [pc |-> pc, actor |-> req[p].actor, target |-> t, to |-> req[p].to].pc \notin Accepts
    BY DEF Accepts
  <2>3. QED
    BY <2>2, OtherwiseInForce
<1>4. CASE UpdateReadOwners(p) /\ ~Go(p, Idle)
  <2>1. req[p] \in UpdateChecked
    BY <1>4, RequestShape DEF UpdateReadOwners, Typing, TypeOK
  <2>2. [req[p] EXCEPT !.pc = "update commit"].pc \notin Accepts
    BY <2>1 DEF UpdateChecked, Accepts
  <2>3. QED
    BY <1>4, <2>2, OtherwiseInForce DEF UpdateReadOwners
<1>5. QED
  BY <1>1, <1>2, <1>3, <1>4 DEF Update, UpdateCommit

LEMMA RemoveInForce ==
    ASSUME Typing, NEW p \in Procs, Remove(p)
    PROVE  \E r : Go(p, r) /\ InForce(p, r)
<1>1. CASE Go(p, Idle)
  BY <1>1, IdleInForce
<1>2. CASE BeginRemove(p)
  <2>1. PICK actor \in members, u \in Users :
           Go(p, [pc |-> "remove target", actor |-> actor, user |-> u])
    BY <1>2 DEF BeginRemove
  <2>2. [pc |-> "remove target", actor |-> actor, user |-> u].pc \notin Accepts
    BY DEF Accepts
  <2>3. QED
    BY <2>1, <2>2, OtherwiseInForce
<1>3. CASE RemoveReadTarget(p) /\ ~Go(p, Idle)
  <2>1. PICK pc \in {"remove owners", "remove commit"} :
           \E t : Go(p, [pc |-> pc, actor |-> req[p].actor, target |-> t])
    BY <1>3 DEF RemoveReadTarget
  <2> PICK t : Go(p, [pc |-> pc, actor |-> req[p].actor, target |-> t])
    BY <2>1
  <2>2. [pc |-> pc, actor |-> req[p].actor, target |-> t].pc \notin Accepts
    BY DEF Accepts
  <2>3. QED
    BY <2>2, OtherwiseInForce
<1>4. CASE RemoveReadOwners(p) /\ ~Go(p, Idle)
  <2>1. req[p] \in RemoveChecked
    BY <1>4, RequestShape DEF RemoveReadOwners, Typing, TypeOK
  <2>2. [req[p] EXCEPT !.pc = "remove commit"].pc \notin Accepts
    BY <2>1 DEF RemoveChecked, Accepts
  <2>3. QED
    BY <1>4, <2>2, OtherwiseInForce DEF RemoveReadOwners
<1>5. QED
  BY <1>1, <1>2, <1>3, <1>4 DEF Remove, RemoveCommit

LEMMA InviteInForce ==
    ASSUME Typing, NEW p \in Procs, Invite(p) \/ Revoke(p)
    PROVE  \E r : Go(p, r) /\ InForce(p, r)
<1>1. CASE Go(p, Idle)
  BY <1>1, IdleInForce
<1>2. CASE BeginInvite(p)
  <2>1. PICK actor \in members, e \in Users, r \in InvitedRoles :
           Go(p, [pc |-> "invite members", actor |-> actor, email |-> e, role |-> r])
    BY <1>2 DEF BeginInvite
  <2>2. [pc |-> "invite members", actor |-> actor, email |-> e, role |-> r].pc \notin Accepts
    BY DEF Accepts
  <2>3. QED
    BY <2>1, <2>2, OtherwiseInForce
<1>3. CASE InviteReadMembers(p) /\ ~Go(p, Idle)
  <2>1. req[p] \in Inviting
    BY <1>3, RequestShape DEF InviteReadMembers, Typing, TypeOK
  <2>2. [req[p] EXCEPT !.pc = "invite commit"].pc \notin Accepts
    BY <2>1 DEF Inviting, Accepts
  <2>3. QED
    BY <1>3, <2>2, OtherwiseInForce DEF InviteReadMembers
<1>4. CASE BeginRevoke(p)
  <2>1. PICK actor \in members, i \in InvIds :
           Go(p, [pc |-> "revoke read", actor |-> actor, inv |-> i])
    BY <1>4 DEF BeginRevoke
  <2>2. [pc |-> "revoke read", actor |-> actor, inv |-> i].pc \notin Accepts
    BY DEF Accepts
  <2>3. QED
    BY <2>1, <2>2, OtherwiseInForce
<1>5. CASE RevokeRead(p) /\ ~Go(p, Idle)
  <2>1. req[p] \in Revoking
    BY <1>5, RequestShape DEF RevokeRead, Typing, TypeOK
  <2>2. [req[p] EXCEPT !.pc = "revoke commit"].pc \notin Accepts
    BY <2>1 DEF Revoking, Accepts
  <2>3. QED
    BY <1>5, <2>2, OtherwiseInForce DEF RevokeRead
<1>6. QED
  BY <1>1, <1>2, <1>3, <1>4, <1>5 DEF Invite, Revoke, InviteCommit, RevokeCommit

LEMMA AcceptInForce ==
    ASSUME Typing, NEW p \in Procs, Accept(p)
    PROVE  \E r : Go(p, r) /\ InForce(p, r)
<1>1. CASE Go(p, Idle)
  BY <1>1, IdleInForce
<1>2. CASE BeginAccept(p)
  <2>1. PICK u \in Users, i \in DOMAIN invitations :
           /\ MayAccept(u, invitations[i])
           /\ Go(p, [pc |-> "accept member", user |-> u, inv |-> i])
    BY <1>2 DEF BeginAccept
  <2> DEFINE r == [pc |-> "accept member", user |-> u, inv |-> i]
  <2>2. /\ r.inv = i /\ invitations' = invitations
        /\ ~invitations[i].accepted /\ ~invitations[i].revoked
    BY <1>2, <2>1 DEF BeginAccept, Tables, MayAccept
  <2> HIDE DEF r
  <2>3. InForce(p, r)
    BY <2>2 DEF InForce
  <2>4. QED
    BY <2>1, <2>3 DEF r
<1>3. CASE AcceptReadMember(p) /\ ~Go(p, Idle)
  <2> DEFINE r == [req[p] EXCEPT !.pc = "accept commit"]
  <2>1. req[p] \in Accepting /\ req[p].pc = "accept member"
    BY <1>3, RequestShape DEF AcceptReadMember, Typing, TypeOK
  <2>2. r.inv = req[p].inv
    BY <2>1 DEF Accepting
  <2>3. Go(p, r)
    BY <1>3 DEF AcceptReadMember
  <2> HIDE DEF r
  <2>4. InForce(p, r)
    BY <2>1, <2>2 DEF InForce, Accepts
  <2>5. QED
    BY <2>3, <2>4
<1>4. QED
  BY <1>1, <1>2, <1>3 DEF Accept, AcceptCommit

LEMMA AcceptsInForce ==
    ASSUME Typing, [Next]_vars, NEW p \in Procs
    PROVE  InForce(p, req'[p])
<1>1. req \in [Procs -> Request]
  BY DEF Typing, TypeOK
<1>2. CASE req'[p] = req[p]
  BY <1>2 DEF InForce
<1>3. ASSUME NEW q \in Procs, \/ Update(q) \/ Remove(q) \/ Invite(q)
                             \/ Revoke(q) \/ Accept(q) \/ Rollback(q)
      PROVE  \E r : Go(q, r) /\ InForce(q, r)
  BY <1>3, UpdateInForce, RemoveInForce, InviteInForce, AcceptInForce, IdleInForce
     DEF Rollback
<1>4. CASE req'[p] # req[p]
  <2>1. PICK q \in Procs : \/ Update(q) \/ Remove(q) \/ Invite(q)
                           \/ Revoke(q) \/ Accept(q) \/ Rollback(q)
    BY <1>4 DEF Next, Expire, vars
  <2>2. PICK r : Go(q, r) /\ InForce(q, r)
    BY <1>3, <2>1
  <2>3. q = p /\ req'[p] = r
    BY <1>1, <1>4, <2>2 DEF Go
  <2>4. QED
    BY <2>2, <2>3
<1>5. QED
  BY <1>2, <1>4

\* Only an acceptance of the invitation uses it.
LEMMA OnlyAcceptsUse ==
    ASSUME Typing, [Next]_vars, NEW i \in InvIds, uses'[i] # uses[i]
    PROVE  \E p \in Procs : /\ req[p].pc = "accept commit" /\ req[p].inv = i
                            /\ AcceptCommit(p) /\ uses'[i] = uses[i] + 1
<1>1. uses \in [InvIds -> Nat]
  BY DEF Typing, TypeOK
<1>2. CASE UNCHANGED vars
  BY <1>2 DEF vars
<1>3. CASE \E j \in InvIds : Expire(j)
  BY <1>3 DEF Expire
<1>4. ASSUME NEW p \in Procs,
             \/ Update(p) \/ Remove(p) \/ Invite(p)
             \/ Revoke(p) \/ Accept(p) \/ Rollback(p)
      PROVE  AcceptCommit(p)
  BY <1>4 DEF Update, BeginUpdate, UpdateReadTarget, UpdateReadOwners, UpdateCommit,
              Remove, BeginRemove, RemoveReadTarget, RemoveReadOwners, RemoveCommit,
              Invite, BeginInvite, InviteReadMembers, InviteCommit,
              Revoke, BeginRevoke, RevokeRead, RevokeCommit,
              Accept, BeginAccept, AcceptReadMember, Rollback, Tables
<1>5. PICK p \in Procs : AcceptCommit(p)
  BY <1>2, <1>3, <1>4 DEF Next
<1>6. uses' = [uses EXCEPT ![req[p].inv] = uses[req[p].inv] + 1]
  BY <1>5 DEF AcceptCommit, Tables
<1>7. QED
  BY <1>1, <1>5, <1>6 DEF AcceptCommit

\* However requests interleave, an invitation that is used or revoked and that
\* nobody is accepting is never accepted again (accept_invitation's checks are
\* stale for requests in flight only).
THEOREM SettledStays == Spec => SettledForGood
<1> DEFINE Stays == \A i \in InvIds : Settled(i) => Settled(i)' /\ uses'[i] = uses[i]
<1>1. Typing /\ [Next]_vars => Stays
  <2> SUFFICES ASSUME Typing, [Next]_vars, NEW i \in InvIds, Settled(i)
               PROVE  Settled(i)' /\ uses'[i] = uses[i]
    OBVIOUS
  <2>1. /\ i \in DOMAIN invitations /\ (invitations[i].accepted \/ invitations[i].revoked)
        /\ \A p \in Procs : ~(req[p].pc \in Accepts /\ req[p].inv = i)
    BY DEF Settled, AcceptingNow, Accepts
  <2>2. uses'[i] = uses[i]
    BY <2>1, OnlyAcceptsUse DEF Accepts
  <2>3. i \in DOMAIN invitations' /\ (invitations'[i].accepted \/ invitations'[i].revoked)
    BY <2>1, InvitationsStay
  <2>4. ASSUME NEW p \in Procs, req'[p].pc \in Accepts, req'[p].inv = i
        PROVE  FALSE
    BY <2>1, <2>4, AcceptsInForce DEF InForce
  <2>5. QED
    BY <2>2, <2>3, <2>4 DEF Settled, AcceptingNow, Accepts
<1>2. Typing /\ [Next]_vars => [Stays]_vars
  BY <1>1
<1>3. QED
  BY <1>2, TypingHolds, PTL DEF Spec, SettledForGood
-----------------------------------------------------------------------------
(* One request at a time: the organization keeps an owner.                  *)

Serial == \A p, q \in Procs : p = q

OtherOwnerThan(t) == \E m \in Owners : m.user # t.user

\* What a lone request has read is still true when it commits.
Fresh(r) ==
    /\ r.pc \in {"update target", "update owners", "update commit",
                 "remove target", "remove owners", "remove commit"}
          => r.actor \in members
    /\ r.pc \in {"update owners", "update commit",
                 "remove owners", "remove commit"}
          => r.target \in members
    /\ r.pc = "update commit" /\ DemotesOwner(r.target, r.to)
          => OtherOwnerThan(r.target)
    /\ r.pc = "remove commit" /\ r.target.role = "owner"
          => OtherOwnerThan(r.target)

Keys == /\ \A m, n \in members : m.id = n.id => m = n
        /\ \A m \in members : m.id < nextId

SerialInv ==
    /\ Keys
    /\ AtLeastOneOwner
    /\ \A p \in Procs : Fresh(req[p])

LEMMA FreshIdle == Fresh(Idle)
<1>1. Idle.pc \notin {"update target", "update owners", "update commit",
                     "remove target", "remove owners", "remove commit"}
  BY DEF Idle
<1>2. QED
  BY <1>1 DEF Fresh

LEMMA FreshOther ==
    ASSUME NEW r, r.pc \notin {"update target", "update owners", "update commit",
                              "remove target", "remove owners", "remove commit"}
    PROVE  Fresh(r)
  BY DEF Fresh

LEMMA SerialRead ==
    ASSUME Typing, SerialInv, Serial, NEW p \in Procs, NEW r,
           Go(p, r), Fresh(r), UNCHANGED Tables
    PROVE  SerialInv'
<1>1. \A q \in Procs : req'[q] = r
  BY DEF Serial, Go, Typing, TypeOK
<1>2. members' = members /\ nextId' = nextId /\ Owners' = Owners
  BY DEF Tables, Owners
<1>3. (\A q \in Procs : Fresh(req[q]))'
  BY <1>1, <1>2 DEF Fresh, OtherOwnerThan
<1>4. QED
  BY <1>2, <1>3 DEF SerialInv, Keys, AtLeastOneOwner

LEMMA SerialIdle ==
    ASSUME Typing, SerialInv, Serial, NEW p \in Procs, Go(p, Idle),
           Keys', AtLeastOneOwner'
    PROVE  SerialInv'
<1>1. \A q \in Procs : req'[q] = Idle
  BY DEF Serial, Go, Typing, TypeOK
<1>2. Idle.pc \notin {"update target", "update owners", "update commit",
                     "remove target", "remove owners", "remove commit"}
  BY DEF Idle
<1>3. (\A q \in Procs : Fresh(req[q]))'
  BY <1>1, <1>2 DEF Fresh
<1>4. QED
  BY <1>3 DEF SerialInv

\* A row that a lone request loads twice is the same row both times.
LEMMA AsLoadedFresh ==
    ASSUME Keys, NEW m \in members, NEW first \in members
    PROVE  AsLoaded(m, first) = m
  BY DEF Keys, AsLoaded

LEMMA SerialUpdate ==
    ASSUME Typing, SerialInv, Serial, NEW p \in Procs, Update(p)
    PROVE  SerialInv'
<1>1. CASE Go(p, Idle) /\ UNCHANGED Tables
  BY <1>1, FreshIdle, SerialRead
<1>2. CASE BeginUpdate(p)
  <2>1. PICK actor \in members, u \in Users, to \in Roles :
           Go(p, [pc |-> "update target", actor |-> actor,
                  user |-> u, to |-> to])
    BY <1>2 DEF BeginUpdate
  <2>2. Fresh([pc |-> "update target", actor |-> actor,
               user |-> u, to |-> to])
    BY DEF Fresh
  <2>3. QED
    BY <1>2, <2>1, <2>2, SerialRead DEF BeginUpdate
<1>3. CASE UpdateReadTarget(p) /\ ~Go(p, Idle)
  <2>1. PICK m \in members, pc \in {"update owners", "update commit"} :
           /\ Go(p, [pc |-> pc, actor |-> req[p].actor,
                     target |-> AsLoaded(m, req[p].actor), to |-> req[p].to])
           /\ pc = "update commit" =>
                 ~DemotesOwner(AsLoaded(m, req[p].actor), req[p].to)
    BY <1>3 DEF UpdateReadTarget
  <2>2. req[p].actor \in members
    BY <1>3 DEF UpdateReadTarget, SerialInv, Fresh
  <2>3. AsLoaded(m, req[p].actor) \in members
    BY <2>2, AsLoadedFresh DEF SerialInv
  <2>4. Fresh([pc |-> pc, actor |-> req[p].actor,
               target |-> AsLoaded(m, req[p].actor), to |-> req[p].to])
    BY <2>1, <2>2, <2>3 DEF Fresh
  <2>5. QED
    BY <1>3, <2>1, <2>4, SerialRead DEF UpdateReadTarget
<1>4. CASE UpdateReadOwners(p) /\ ~Go(p, Idle)
  <2>1. /\ req[p] \in UpdateChecked
        /\ req[p].pc = "update owners"
    BY <1>4, RequestShape DEF UpdateReadOwners, Typing, TypeOK
  <2>2. req[p].actor \in members /\ req[p].target \in members
    BY <2>1 DEF SerialInv, Fresh
  <2>3. PICK m \in members : /\ m.user # req[p].target.user
                             /\ AsLoaded(m, req[p].actor).role = "owner"
    BY <1>4 DEF UpdateReadOwners, OtherOwners
  <2>4. OtherOwnerThan(req[p].target)
    BY <2>2, <2>3, AsLoadedFresh DEF OtherOwnerThan, Owners, SerialInv
  <2>5. Fresh([req[p] EXCEPT !.pc = "update commit"])
    BY <2>1, <2>2, <2>4 DEF Fresh, UpdateChecked
  <2>6. QED
    BY <1>4, <2>5, SerialRead DEF UpdateReadOwners
<1>5. CASE UpdateCommit(p)
  <2> DEFINE t == req[p].target
             to == req[p].to
  <2>1. /\ members' = SetRole(members, t, to)
        /\ nextId' = nextId
        /\ Go(p, Idle)
        /\ members \subseteq Row
    BY <1>5 DEF UpdateCommit, Typing, TypeOK
  <2>2. /\ t \in members
        /\ DemotesOwner(t, to) => OtherOwnerThan(t)
    BY <1>5 DEF UpdateCommit, SerialInv, Fresh
  <2>3. \A m \in members : [m EXCEPT !.role = to].id = m.id
    BY <2>1 DEF Row
  <2>4. CASE t.role = to
    BY <2>1, <2>4, SerialIdle DEF SetRole, SerialInv, Keys, AtLeastOneOwner, Owners
  <2>5. CASE t.role # to
    <3>1. members' = {IF m.id = t.id THEN [m EXCEPT !.role = to] ELSE m :
                         m \in members}
      BY <2>1, <2>5 DEF SetRole
    <3>2. Keys'
      <4>1. \A m \in members' : \E o \in members :
               /\ m.id = o.id
               /\ m = IF o.id = t.id THEN [o EXCEPT !.role = to] ELSE o
        BY <2>3, <3>1
      <4>2. ASSUME NEW m \in members', NEW n \in members', m.id = n.id
            PROVE  m = n
        <5>1. PICK o \in members :
                 /\ m.id = o.id
                 /\ m = IF o.id = t.id THEN [o EXCEPT !.role = to] ELSE o
          BY <4>1
        <5>2. PICK o2 \in members :
                 /\ n.id = o2.id
                 /\ n = IF o2.id = t.id THEN [o2 EXCEPT !.role = to] ELSE o2
          BY <4>1
        <5>3. o = o2
          BY <4>2, <5>1, <5>2 DEF SerialInv, Keys
        <5>4. QED
          BY <5>1, <5>2, <5>3
      <4>3. \A m \in members' : m.id < nextId'
        BY <2>1, <4>1 DEF SerialInv, Keys
      <4>4. QED
        BY <4>2, <4>3 DEF Keys
    <3>3. PICK o \in Owners : o.id # t.id \/ to = "owner"
      BY <2>2, <2>5 DEF OtherOwnerThan, DemotesOwner, SerialInv, Keys,
                        AtLeastOneOwner, Owners
    <3>4. CASE o.id # t.id
      <4>1. o \in members'
        BY <3>1, <3>4 DEF Owners
      <4>2. QED
        BY <2>1, <3>2, <4>1, SerialIdle DEF AtLeastOneOwner, Owners
    <3>5. CASE to = "owner"
      <4>1. [t EXCEPT !.role = to] \in members'
        BY <2>2, <3>1
      <4>2. [t EXCEPT !.role = to].role = "owner"
        BY <2>1, <2>2, <3>5 DEF Row
      <4>3. QED
        BY <2>1, <3>2, <4>1, <4>2, SerialIdle DEF AtLeastOneOwner, Owners
    <3>6. QED
      BY <3>3, <3>4, <3>5
  <2>6. QED
    BY <2>4, <2>5
<1>6. QED
  BY <1>1, <1>2, <1>3, <1>4, <1>5 DEF Update, UpdateReadTarget, UpdateReadOwners

LEMMA SerialRemove ==
    ASSUME Typing, SerialInv, Serial, NEW p \in Procs, Remove(p)
    PROVE  SerialInv'
<1>1. CASE Go(p, Idle) /\ UNCHANGED Tables
  BY <1>1, FreshIdle, SerialRead
<1>2. CASE BeginRemove(p)
  <2>1. PICK actor \in members, u \in Users :
           Go(p, [pc |-> "remove target", actor |-> actor, user |-> u])
    BY <1>2 DEF BeginRemove
  <2>2. Fresh([pc |-> "remove target", actor |-> actor, user |-> u])
    BY DEF Fresh
  <2>3. QED
    BY <1>2, <2>1, <2>2, SerialRead DEF BeginRemove
<1>3. CASE RemoveReadTarget(p) /\ ~Go(p, Idle)
  <2>1. PICK m \in members, pc \in {"remove owners", "remove commit"} :
           /\ Go(p, [pc |-> pc, actor |-> req[p].actor,
                     target |-> AsLoaded(m, req[p].actor)])
           /\ pc = "remove commit" =>
                 AsLoaded(m, req[p].actor).role # "owner"
    BY <1>3 DEF RemoveReadTarget
  <2>2. req[p].actor \in members
    BY <1>3 DEF RemoveReadTarget, SerialInv, Fresh
  <2>3. AsLoaded(m, req[p].actor) \in members
    BY <2>2, AsLoadedFresh DEF SerialInv
  <2>4. Fresh([pc |-> pc, actor |-> req[p].actor,
               target |-> AsLoaded(m, req[p].actor)])
    BY <2>1, <2>2, <2>3 DEF Fresh
  <2>5. QED
    BY <1>3, <2>1, <2>4, SerialRead DEF RemoveReadTarget
<1>4. CASE RemoveReadOwners(p) /\ ~Go(p, Idle)
  <2>1. /\ req[p] \in RemoveChecked
        /\ req[p].pc = "remove owners"
    BY <1>4, RequestShape DEF RemoveReadOwners, Typing, TypeOK
  <2>2. req[p].actor \in members /\ req[p].target \in members
    BY <2>1 DEF SerialInv, Fresh
  <2>3. PICK m \in members : /\ m.user # req[p].target.user
                             /\ AsLoaded(m, req[p].actor).role = "owner"
    BY <1>4 DEF RemoveReadOwners, OtherOwners
  <2>4. OtherOwnerThan(req[p].target)
    BY <2>2, <2>3, AsLoadedFresh DEF OtherOwnerThan, Owners, SerialInv
  <2>5. Fresh([req[p] EXCEPT !.pc = "remove commit"])
    BY <2>1, <2>2, <2>4 DEF Fresh, RemoveChecked
  <2>6. QED
    BY <1>4, <2>5, SerialRead DEF RemoveReadOwners
<1>5. CASE RemoveCommit(p)
  <2> DEFINE t == req[p].target
  <2>1. /\ members' = {m \in members : m.id # t.id}
        /\ nextId' = nextId
        /\ Go(p, Idle)
    BY <1>5 DEF RemoveCommit
  <2>2. /\ t \in members
        /\ t.role = "owner" => OtherOwnerThan(t)
    BY <1>5 DEF RemoveCommit, SerialInv, Fresh
  <2>3. PICK o \in Owners : o.id # t.id
    BY <2>2 DEF OtherOwnerThan, SerialInv, Keys, AtLeastOneOwner, Owners
  <2>4. o \in Owners'
    BY <2>1, <2>3 DEF Owners
  <2>5. Keys'
    BY <2>1 DEF Keys, SerialInv
  <2>6. QED
    BY <2>1, <2>4, <2>5, SerialIdle DEF AtLeastOneOwner
<1>6. QED
  BY <1>1, <1>2, <1>3, <1>4, <1>5 DEF Remove, RemoveReadTarget, RemoveReadOwners

\* Requests about invitations keep the rows fresh; the only row they add has
\* a key of its own.
LEMMA SerialOther ==
    ASSUME Typing, SerialInv, Serial, NEW p \in Procs,
           Invite(p) \/ Revoke(p) \/ Accept(p) \/ Rollback(p)
    PROVE  SerialInv'
<1>1. CASE UNCHANGED Tables
  <2>1. PICK r : Go(p, r) /\ r.pc \notin MemberPhases
    BY InvitationPhases
  <2>2. Fresh(r)
    BY <2>1, FreshOther DEF MemberPhases, UpdatePhases
  <2>3. QED
    BY <1>1, <2>1, <2>2, SerialRead
<1>2. CASE InviteCommit(p) \/ RevokeCommit(p)
  BY <1>2, SerialIdle DEF InviteCommit, RevokeCommit, SerialInv, Keys,
                          AtLeastOneOwner, Owners
<1>3. CASE AcceptCommit(p) /\ ~UNCHANGED Tables
  <2>1. PICK new : /\ members' = members \cup {new}
                   /\ new.id = nextId
                   /\ nextId' = nextId + 1
                   /\ Go(p, Idle)
    <3> DEFINE row == [id |-> nextId, user |-> req[p].user,
                       role |-> invitations[req[p].inv].role]
    <3>1. /\ members' = members \cup {row}
          /\ nextId' = nextId + 1
          /\ Go(p, Idle)
      BY <1>3 DEF AcceptCommit
    <3>2. row.id = nextId
      OBVIOUS
    <3>3. QED
      BY <3>1, <3>2
  <2>2. /\ nextId \in Nat
        /\ \A m \in members : m.id \in Nat /\ m.id < nextId
    BY DEF Typing, TypeOK, Row, SerialInv, Keys
  <2>3. Keys'
    BY <2>1, <2>2 DEF SerialInv, Keys
  <2>4. AtLeastOneOwner'
    BY <2>1 DEF SerialInv, AtLeastOneOwner, Owners
  <2>5. QED
    BY <2>1, <2>3, <2>4, SerialIdle
<1>4. QED
  BY <1>1, <1>2, <1>3
     DEF Invite, BeginInvite, InviteReadMembers, Revoke, BeginRevoke, RevokeRead,
         Accept, BeginAccept, AcceptReadMember, Rollback

LEMMA SerialInvariant ==
    ASSUME Serial
    PROVE  Spec => []SerialInv
<1>1. Init => SerialInv
  <2>1. Init => Keys /\ AtLeastOneOwner
    <3> DEFINE row == [id |-> 0, user |-> Founder, role |-> "owner"]
    <3>1. row.id = 0 /\ row.role = "owner"
      OBVIOUS
    <3>2. Init => \E r : /\ members = {r}
                        /\ r.id = 0
                        /\ r.role = "owner"
                        /\ nextId = 1
      BY <3>1 DEF Init
    <3>3. QED
      BY <3>2 DEF Keys, AtLeastOneOwner, Owners
  <2>2. Init => \A p \in Procs : Fresh(req[p])
    BY FreshIdle DEF Init
  <2>3. QED
    BY <2>1, <2>2 DEF SerialInv
<1>2. Typing /\ SerialInv /\ [Next]_vars => SerialInv'
  <2> SUFFICES ASSUME Typing, SerialInv, [Next]_vars
               PROVE  SerialInv'
    OBVIOUS
  <2>1. CASE UNCHANGED <<members, req, nextId>>
    BY <2>1 DEF SerialInv, Keys, AtLeastOneOwner, Owners, Fresh, OtherOwnerThan
  <2>2. QED
    <3>1. ASSUME NEW p \in Procs,
                 \/ Update(p) \/ Remove(p) \/ Invite(p)
                 \/ Revoke(p) \/ Accept(p) \/ Rollback(p)
          PROVE  SerialInv'
      BY <3>1, SerialUpdate, SerialRemove, SerialOther
    <3>2. QED
      BY <2>1, <3>1 DEF Next, vars, Expire
<1>3. QED
  BY <1>1, <1>2, TypingHolds, PTL DEF Spec

\* When requests never overlap, the check before a demotion or a removal is
\* enough: the organization has an owner in every state.
THEOREM SerialOwner ==
    ASSUME Serial
    PROVE  Spec => []AtLeastOneOwner
<1>1. SerialInv => AtLeastOneOwner
  BY DEF SerialInv
<1>2. QED
  BY <1>1, SerialInvariant, PTL
-----------------------------------------------------------------------------
(* Owners answer to owners.                                                 *)

\* The rank of the actor as it was read, which no later step looks at again.
Authorized(r) ==
    /\ r.pc \in {"update owners", "update commit"} =>
          MayChangeRole(r.actor, r.target, r.to)
    /\ r.pc \in {"remove owners", "remove commit"} => MayRemove(r.actor, r.target)

AllAuthorized == \A p \in Procs : Authorized(req[p])

ChangePhases == {"update owners", "update commit", "remove owners", "remove commit"}

LEMMA OthersAuthorized ==
    ASSUME NEW r, r.pc \notin ChangePhases
    PROVE  Authorized(r)
  BY DEF Authorized, ChangePhases

LEMMA IdleAuthorized == Authorized(Idle)
  BY OthersAuthorized DEF Idle, ChangePhases

LEMMA GoAuthorized ==
    ASSUME Typing, AllAuthorized, NEW p \in Procs, NEW r, Go(p, r), Authorized(r)
    PROVE  AllAuthorized'
<1>1. \A q \in Procs : req'[q] = req[q] \/ req'[q] = r
  BY DEF Go, Typing, TypeOK
<1>2. QED
  BY <1>1 DEF AllAuthorized, Authorized

\* A request gets past its second read only if its actor ranks high enough.
LEMMA UpdateAuthorized ==
    ASSUME Typing, AllAuthorized, NEW p \in Procs, Update(p)
    PROVE  AllAuthorized'
<1>1. CASE Go(p, Idle)
  BY <1>1, IdleAuthorized, GoAuthorized
<1>2. CASE BeginUpdate(p)
  <2>1. PICK actor \in members, u \in Users, to \in Roles :
           Go(p, [pc |-> "update target", actor |-> actor, user |-> u, to |-> to])
    BY <1>2 DEF BeginUpdate
  <2>2. Authorized([pc |-> "update target", actor |-> actor, user |-> u, to |-> to])
    BY OthersAuthorized DEF ChangePhases
  <2>3. QED
    BY <2>1, <2>2, GoAuthorized
<1>3. CASE UpdateReadTarget(p) /\ ~Go(p, Idle)
  <2>1. PICK m \in members, pc \in {"update owners", "update commit"} :
           /\ Go(p, [pc |-> pc, actor |-> req[p].actor,
                     target |-> AsLoaded(m, req[p].actor), to |-> req[p].to])
           /\ MayChangeRole(req[p].actor, AsLoaded(m, req[p].actor), req[p].to)
    BY <1>3 DEF UpdateReadTarget
  <2>2. Authorized([pc |-> pc, actor |-> req[p].actor,
                    target |-> AsLoaded(m, req[p].actor), to |-> req[p].to])
    BY <2>1 DEF Authorized
  <2>3. QED
    BY <2>1, <2>2, GoAuthorized
<1>4. CASE UpdateReadOwners(p) /\ ~Go(p, Idle)
  <2>1. req[p] \in UpdateChecked /\ req[p].pc = "update owners"
    BY <1>4, RequestShape DEF UpdateReadOwners, Typing, TypeOK
  <2>2. Authorized([req[p] EXCEPT !.pc = "update commit"])
    BY <2>1 DEF AllAuthorized, Authorized, UpdateChecked
  <2>3. QED
    BY <1>4, <2>2, GoAuthorized DEF UpdateReadOwners
<1>5. QED
  BY <1>1, <1>2, <1>3, <1>4 DEF Update, UpdateReadTarget, UpdateReadOwners, UpdateCommit

LEMMA RemoveAuthorized ==
    ASSUME Typing, AllAuthorized, NEW p \in Procs, Remove(p)
    PROVE  AllAuthorized'
<1>1. CASE Go(p, Idle)
  BY <1>1, IdleAuthorized, GoAuthorized
<1>2. CASE BeginRemove(p)
  <2>1. PICK actor \in members, u \in Users :
           Go(p, [pc |-> "remove target", actor |-> actor, user |-> u])
    BY <1>2 DEF BeginRemove
  <2>2. Authorized([pc |-> "remove target", actor |-> actor, user |-> u])
    BY OthersAuthorized DEF ChangePhases
  <2>3. QED
    BY <2>1, <2>2, GoAuthorized
<1>3. CASE RemoveReadTarget(p) /\ ~Go(p, Idle)
  <2>1. PICK m \in members, pc \in {"remove owners", "remove commit"} :
           /\ Go(p, [pc |-> pc, actor |-> req[p].actor,
                     target |-> AsLoaded(m, req[p].actor)])
           /\ MayRemove(req[p].actor, AsLoaded(m, req[p].actor))
    BY <1>3 DEF RemoveReadTarget
  <2>2. Authorized([pc |-> pc, actor |-> req[p].actor,
                    target |-> AsLoaded(m, req[p].actor)])
    BY <2>1 DEF Authorized
  <2>3. QED
    BY <2>1, <2>2, GoAuthorized
<1>4. CASE RemoveReadOwners(p) /\ ~Go(p, Idle)
  <2>1. req[p] \in RemoveChecked /\ req[p].pc = "remove owners"
    BY <1>4, RequestShape DEF RemoveReadOwners, Typing, TypeOK
  <2>2. Authorized([req[p] EXCEPT !.pc = "remove commit"])
    BY <2>1 DEF AllAuthorized, Authorized, RemoveChecked
  <2>3. QED
    BY <1>4, <2>2, GoAuthorized DEF RemoveReadOwners
<1>5. QED
  BY <1>1, <1>2, <1>3, <1>4 DEF Remove, RemoveReadTarget, RemoveReadOwners, RemoveCommit

\* Whoever is about to change or remove a member has ranked high enough for it
\* when it was looked at, for any interleaving of the requests.
THEOREM AuthorizedAlways == Spec => []AllAuthorized
<1>1. Init => AllAuthorized
  BY IdleAuthorized DEF Init, AllAuthorized
<1>2. Typing /\ AllAuthorized /\ [Next]_vars => AllAuthorized'
  <2> SUFFICES ASSUME Typing, AllAuthorized, [Next]_vars
               PROVE  AllAuthorized'
    OBVIOUS
  <2>1. ASSUME NEW p \in Procs, Invite(p) \/ Revoke(p) \/ Accept(p) \/ Rollback(p)
        PROVE  AllAuthorized'
    <3>1. PICK r : Go(p, r) /\ r.pc \notin MemberPhases
      BY <2>1, InvitationPhases
    <3>2. Authorized(r)
      BY <3>1, OthersAuthorized DEF MemberPhases, UpdatePhases, ChangePhases
    <3>3. QED
      BY <3>1, <3>2, GoAuthorized
  <2>2. CASE UNCHANGED req
    BY <2>2 DEF AllAuthorized, Authorized
  <2>3. QED
    BY <2>1, <2>2, UpdateAuthorized, RemoveAuthorized DEF Next, vars, Expire
<1>3. QED
  BY <1>1, <1>2, TypingHolds, PTL DEF Spec

AnswersToOwner(m) ==
    \E p \in Procs :
       /\ req[p].pc \in {"update commit", "remove commit"}
       /\ \E o \in Owners : o.user = req[p].actor.user
       /\ req[p].pc = "remove commit" => req[p].actor.user = m.user

LEMMA DemotedByOwner ==
    ASSUME Typing, AllAuthorized, SerialInv, NEW p \in Procs, UpdateCommit(p),
           NEW m \in Owners \ members'
    PROVE  AnswersToOwner(m)
<1> DEFINE t == req[p].target
<1>1. /\ req[p].pc = "update commit" /\ members' = SetRole(members, t, req[p].to)
      /\ m \in members /\ m.role = "owner"
  BY DEF UpdateCommit, Owners
<1>2. req[p].actor \in members /\ t \in members
  BY <1>1 DEF SerialInv, Fresh
<1>3. t.role # req[p].to /\ m.id = t.id
  BY <1>1 DEF SetRole
<1>4. m = t
  BY <1>1, <1>2, <1>3 DEF SerialInv, Keys
<1>5. req[p].actor.role = "owner"
  BY <1>1, <1>4 DEF AllAuthorized, Authorized, MayChangeRole
<1>6. QED
  BY <1>1, <1>2, <1>5 DEF AnswersToOwner, Owners

LEMMA OwnerIsHighest ==
    ASSUME NEW role \in Roles
    PROVE  ~(Rank("owner") < Rank(role))
<1>1. Rank("owner") = 2 /\ Rank("admin") = 1 /\ Rank("member") = 0
  BY DEF Rank
<1>2. role = "owner" \/ role = "admin" \/ role = "member"
  BY DEF Roles
<1>3. QED
  BY <1>1, <1>2

LEMMA RemovedByOneself ==
    ASSUME Typing, AllAuthorized, SerialInv, NEW p \in Procs, RemoveCommit(p),
           NEW m \in Owners \ members'
    PROVE  AnswersToOwner(m)
<1> DEFINE t == req[p].target
<1>1. /\ req[p].pc = "remove commit" /\ members' = {n \in members : n.id # t.id}
      /\ m \in members /\ m.role = "owner"
  BY DEF RemoveCommit, Owners
<1>2. req[p].actor \in members /\ t \in members
  BY <1>1 DEF SerialInv, Fresh
<1>3. m = t
  BY <1>1, <1>2 DEF SerialInv, Keys
<1>4. req[p].actor.role \in Roles
  BY <1>2 DEF Typing, TypeOK, Row
<1>5. req[p].actor.user = t.user
  <2>1. MayRemove(req[p].actor, t) /\ t.role = "owner"
    BY <1>1, <1>3 DEF AllAuthorized, Authorized
  <2>2. QED
    BY <1>4, <2>1, OwnerIsHighest DEF MayRemove
<1>6. QED
  BY <1>1, <1>3, <1>5 DEF AnswersToOwner

\* Where requests do not overlap, an owner is demoted by an owner and removed by
\* nobody but themselves, for any number of members (update_member_role,
\* remove_member).
THEOREM SerialOwnersAnswer ==
    ASSUME Serial
    PROVE  Spec => OwnersAnswerToOwners
<1> DEFINE Step == \A m \in Owners \ members' : AnswersToOwner(m)
<1>1. Typing /\ AllAuthorized /\ SerialInv /\ [Next]_vars => [Step]_vars
  <2> SUFFICES ASSUME Typing, AllAuthorized, SerialInv, Next, NEW m \in Owners \ members'
               PROVE  AnswersToOwner(m)
    OBVIOUS
  <2>1. \/ \E p \in Procs : UpdateCommit(p) \/ RemoveCommit(p)
        \/ members \subseteq members'
    BY DEF Next, Update, Remove, Invite, Revoke, Accept, Rollback, Expire, Tables,
           BeginUpdate, UpdateReadTarget, UpdateReadOwners,
           BeginRemove, RemoveReadTarget, RemoveReadOwners,
           BeginInvite, InviteReadMembers, InviteCommit,
           BeginRevoke, RevokeRead, RevokeCommit,
           BeginAccept, AcceptReadMember, AcceptCommit
  <2>2. QED
    BY <2>1, DemotedByOwner, RemovedByOneself DEF Owners
<1>2. Spec => []Typing /\ []AllAuthorized /\ []SerialInv
  BY TypingHolds, AuthorizedAlways, SerialInvariant
<1>3. Spec => [][Step]_vars
  BY <1>1, <1>2, PTL DEF Spec
<1>4. QED
  BY <1>3 DEF OwnersAnswerToOwners, AnswersToOwner

\* What a lone acceptance has checked is still so, and an invitation that was
\* used is marked.
SingleInv ==
    /\ \A i \in InvIds :
          \/ uses[i] = 0
          \/ uses[i] = 1 /\ i \in DOMAIN invitations /\ invitations[i].accepted
    /\ \A p \in Procs : req[p].pc \in Accepts =>
          /\ req[p].inv \in DOMAIN invitations
          /\ ~invitations[req[p].inv].accepted /\ ~invitations[req[p].inv].revoked

\* Nothing touches the flags of an invitation while a lone request accepts it.
LEMMA FlagsStay ==
    ASSUME Serial, Typing, [Next]_vars, NEW p \in Procs, req'[p].pc \in Accepts,
           NEW i \in DOMAIN invitations
    PROVE  /\ i \in DOMAIN invitations'
           /\ invitations'[i].accepted <=> invitations[i].accepted
           /\ invitations'[i].revoked <=> invitations[i].revoked
<1>1. CASE invitations' = invitations
  BY <1>1
<1>2. ASSUME NEW j \in InvIds, Expire(j)
      PROVE  /\ i \in DOMAIN invitations'
             /\ invitations'[i].accepted = invitations[i].accepted
             /\ invitations'[i].revoked = invitations[i].revoked
  BY <1>2 DEF Expire, Typing, TypeOK, Invitation
<1>3. ASSUME NEW q \in Procs, InviteCommit(q) \/ RevokeCommit(q) \/ AcceptCommit(q)
      PROVE  FALSE
  <2>1. q = p /\ req' = [req EXCEPT ![p] = Idle]
    BY <1>3 DEF Serial, InviteCommit, RevokeCommit, AcceptCommit, Go
  <2>2. req'[p].pc = "idle"
    BY <2>1 DEF Typing, TypeOK, Idle
  <2>3. QED
    BY <2>2 DEF Accepts
<1>4. ASSUME NEW q \in Procs,
             \/ Update(q) \/ Remove(q) \/ Invite(q)
             \/ Revoke(q) \/ Accept(q) \/ Rollback(q)
      PROVE  invitations' = invitations
  BY <1>3, <1>4
     DEF Update, BeginUpdate, UpdateReadTarget, UpdateReadOwners, UpdateCommit,
         Remove, BeginRemove, RemoveReadTarget, RemoveReadOwners, RemoveCommit,
         Invite, BeginInvite, InviteReadMembers, Revoke, BeginRevoke, RevokeRead,
         Accept, BeginAccept, AcceptReadMember, Rollback, Tables
<1>5. CASE UNCHANGED vars
  BY <1>5 DEF vars
<1>6. QED
  BY <1>1, <1>2, <1>4, <1>5 DEF Next

LEMMA SingleStep ==
    ASSUME Serial, Typing, SingleInv, [Next]_vars
    PROVE  SingleInv'
<1>1. ASSUME NEW i \in InvIds
      PROVE  \/ uses'[i] = 0
             \/ uses'[i] = 1 /\ i \in DOMAIN invitations' /\ invitations'[i].accepted
  <2>1. CASE uses'[i] = uses[i]
    BY <2>1, InvitationsStay DEF SingleInv
  <2>2. CASE uses'[i] # uses[i]
    <3>1. PICK p \in Procs : /\ req[p].pc = "accept commit" /\ req[p].inv = i
                             /\ AcceptCommit(p) /\ uses'[i] = uses[i] + 1
      BY <2>2, OnlyAcceptsUse
    <3>2. i \in DOMAIN invitations /\ ~invitations[i].accepted
      BY <3>1 DEF SingleInv, Accepts
    <3>3. uses[i] = 0
      BY <3>2 DEF SingleInv
    <3>4. invitations' = [invitations EXCEPT ![i].accepted = TRUE]
      BY <2>2, <3>1 DEF AcceptCommit, Tables
    <3>5. i \in DOMAIN invitations' /\ invitations'[i].accepted
      BY <3>2, <3>4 DEF Typing, TypeOK, Invitation
    <3>6. uses'[i] = 1
      <4>1. uses'[i] = uses[i] + 1
        BY <3>1
      <4>2. QED
        BY <3>3, <4>1
    <3>7. QED
      BY <3>5, <3>6, Zenon
  <2>3. QED
    BY <2>1, <2>2
<1>2. ASSUME NEW p \in Procs, req'[p].pc \in Accepts
      PROVE  /\ req'[p].inv \in DOMAIN invitations'
             /\ ~invitations'[req'[p].inv].accepted /\ ~invitations'[req'[p].inv].revoked
  <2>1. /\ req'[p].inv \in DOMAIN invitations
        /\ ~invitations[req'[p].inv].accepted /\ ~invitations[req'[p].inv].revoked
    BY <1>2, AcceptsInForce DEF InForce, SingleInv
  <2>2. QED
    BY <1>2, <2>1, FlagsStay
<1>3. QED
  BY <1>1, <1>2 DEF SingleInv

LEMMA SingleInvariant ==
    ASSUME Serial
    PROVE  Spec => []SingleInv
<1>1. Init => SingleInv
  <2>1. Idle.pc \notin Accepts
    BY DEF Idle, Accepts
  <2>2. QED
    BY <2>1 DEF Init, SingleInv
<1>2. QED
  BY <1>1, SingleStep, TypingHolds, PTL DEF Spec

\* When requests never overlap an invitation is used at most once, as
\* create_invitation's docstring promises.
THEOREM SerialSingleUse ==
    ASSUME Serial
    PROVE  Spec => []SingleUse
<1>1. SingleInv => SingleUse
  BY DEF SingleInv, SingleUse
<1>2. QED
  BY <1>1, SingleInvariant, PTL

\* When requests never overlap a revoked invitation admits nobody
\* (accept_invitation's test of revoked_at).
THEOREM SerialRevoked ==
    ASSUME Serial
    PROVE  Spec => RevokedAdmitsNobody
<1> DEFINE Refused == \A i \in DOMAIN invitations :
                         invitations[i].revoked => uses'[i] = uses[i]
<1>1. Typing /\ SingleInv /\ [Next]_vars => [Refused]_vars
  <2> SUFFICES ASSUME Typing, SingleInv, [Next]_vars, NEW i \in DOMAIN invitations,
                      invitations[i].revoked, uses'[i] # uses[i]
               PROVE  FALSE
    OBVIOUS
  <2>1. i \in InvIds
    BY DEF Typing, TypeOK
  <2>2. QED
    BY <2>1, OnlyAcceptsUse DEF SingleInv, Accepts
<1>2. QED
  BY <1>1, SingleInvariant, TypingHolds, PTL DEF Spec, RevokedAdmitsNobody

\* The committed rows keep their types and a user has at most one of them, under
\* any interleaving of requests (Membership, uq_membership_org_user).
THEOREM TablesHold == Spec => []TablesOK
<1>1. TypeOK /\ UniqueMember => TablesOK
  BY DEF TablesOK
<1>2. QED
  BY <1>1, TypeCorrect, UniqueRows, PTL

\* When requests never overlap an invitation admits once, and not after it was
\* revoked (accept_invitation).
THEOREM SerialInvitations ==
    ASSUME Serial
    PROVE  Spec => InvitationsHold
<1>1. Spec => []SingleUse
  BY SerialSingleUse
<1>2. Spec => RevokedAdmitsNobody
  BY SerialRevoked
<1>3. QED
  BY <1>1, <1>2, PTL DEF InvitationsHold
-----------------------------------------------------------------------------
(* Alone, a request acts at once.  Its checks are true when it commits: it  *)
(* is an instance of an operation of MembershipRules.                       *)

Administering == {"update target", "update owners", "update commit",
                  "invite members", "invite commit", "revoke read", "revoke commit"}

\* What a lone request has looked up is still so.
StillTrue(r) ==
    /\ r.pc \in Administering => r.actor \in members /\ MayAdminister(r.actor)
    /\ r.pc = "invite commit" => ~IsMember(r.email)
    /\ r.pc = "revoke commit" =>
          r.inv \in DOMAIN invitations /\ MayRevoke(invitations[r.inv])

LookedUp == \A p \in Procs : StillTrue(req[p])

LEMMA OthersStillTrue ==
    ASSUME NEW r, r.pc \notin Administering
    PROVE  StillTrue(r)
  BY DEF StillTrue, Administering

LEMMA IdleStillTrue == Idle.pc \notin Administering
  BY DEF Idle, Administering

\* A lone request that only reads.
LEMMA ReadsStillTrue ==
    ASSUME Serial, Typing, NEW p \in Procs, NEW r, Go(p, r), UNCHANGED Tables, StillTrue(r)
    PROVE  LookedUp'
<1>1. \A q \in Procs : req'[q] = r
  BY DEF Serial, Go, Typing, TypeOK
<1>2. (\A q \in Procs : StillTrue(req[q]))'
  BY <1>1 DEF StillTrue, Tables, IsMember
<1> QED
  BY <1>2 DEF LookedUp

LEMMA EndsStillTrue ==
    ASSUME Serial, Typing, NEW p \in Procs, NEW r, Go(p, r), r.pc \notin Administering
    PROVE  LookedUp'
<1>1. \A q \in Procs : req'[q] = r
  BY DEF Serial, Go, Typing, TypeOK
<1>2. (\A q \in Procs : StillTrue(req[q]))'
  BY <1>1 DEF StillTrue, Administering
<1> QED
  BY <1>2 DEF LookedUp

LEMMA UpdateStillTrue ==
    ASSUME Serial, Typing, LookedUp, NEW p \in Procs, Update(p)
    PROVE  LookedUp'
<1>1. CASE Go(p, Idle)
  BY <1>1, IdleStillTrue, EndsStillTrue
<1>2. CASE BeginUpdate(p)
  <2>1. PICK actor \in members, u \in Users, to \in Roles :
           /\ MayAdminister(actor)
           /\ Go(p, [pc |-> "update target", actor |-> actor, user |-> u, to |-> to])
           /\ UNCHANGED Tables
    BY <1>2 DEF BeginUpdate
  <2> DEFINE r == [pc |-> "update target", actor |-> actor, user |-> u, to |-> to]
  <2>2. r.pc = "update target" /\ r.actor = actor
    OBVIOUS
  <2>3. Go(p, r)
    BY <2>1
  <2> HIDE DEF r
  <2>4. StillTrue(r)
    BY <2>1, <2>2 DEF StillTrue
  <2> QED
    BY <2>1, <2>3, <2>4, ReadsStillTrue
<1>3. CASE UpdateReadTarget(p) /\ ~Go(p, Idle)
  <2> DEFINE actor == req[p].actor
             to == req[p].to
  <2>1. PICK m \in members, phase \in {"update owners", "update commit"} :
           Go(p, [pc |-> phase, actor |-> actor, target |-> AsLoaded(m, actor), to |-> to])
    BY <1>3 DEF UpdateReadTarget
  <2> DEFINE r == [pc |-> phase, actor |-> actor, target |-> AsLoaded(m, actor), to |-> to]
  <2>2. r.pc = phase /\ r.actor = actor
    OBVIOUS
  <2>3. Go(p, r)
    BY <2>1
  <2>4. actor \in members /\ MayAdminister(actor)
    BY <1>3 DEF UpdateReadTarget, LookedUp, StillTrue, Administering
  <2>5. UNCHANGED Tables
    BY <1>3 DEF UpdateReadTarget
  <2> HIDE DEF r, actor
  <2>6. StillTrue(r)
    BY <2>2, <2>4 DEF StillTrue
  <2> QED
    BY <2>3, <2>5, <2>6, ReadsStillTrue
<1>4. CASE UpdateReadOwners(p) /\ ~Go(p, Idle)
  <2> DEFINE r == [req[p] EXCEPT !.pc = "update commit"]
  <2>1. req[p] \in UpdateChecked /\ req[p].pc = "update owners"
    BY <1>4, RequestShape DEF UpdateReadOwners, Typing, TypeOK
  <2>2. r.pc = "update commit" /\ r.actor = req[p].actor
    BY <2>1 DEF UpdateChecked
  <2>3. Go(p, r) /\ UNCHANGED Tables
    BY <1>4 DEF UpdateReadOwners
  <2>4. req[p].actor \in members /\ MayAdminister(req[p].actor)
    BY <2>1 DEF LookedUp, StillTrue, Administering
  <2> HIDE DEF r
  <2>5. StillTrue(r)
    BY <2>2, <2>4 DEF StillTrue
  <2> QED
    BY <2>3, <2>5, ReadsStillTrue
<1> QED
  BY <1>1, <1>2, <1>3, <1>4 DEF Update, UpdateCommit

LEMMA RemoveStillTrue ==
    ASSUME Serial, Typing, LookedUp, NEW p \in Procs, Remove(p)
    PROVE  LookedUp'
<1>1. PICK r : Go(p, r) /\ r.pc \notin Administering
  <2>1. CASE Go(p, Idle)
    BY <2>1, IdleStillTrue
  <2>2. CASE BeginRemove(p)
    <3>1. PICK actor \in members, u \in Users :
             Go(p, [pc |-> "remove target", actor |-> actor, user |-> u])
      BY <2>2 DEF BeginRemove
    <3> DEFINE s == [pc |-> "remove target", actor |-> actor, user |-> u]
    <3>2. Go(p, s) /\ s.pc \notin Administering
      BY <3>1 DEF Administering
    <3> HIDE DEF s
    <3> QED
      BY <3>2
  <2>3. CASE RemoveReadTarget(p) /\ ~Go(p, Idle)
    <3> DEFINE s(m, phase) == [pc |-> phase, actor |-> req[p].actor,
                               target |-> AsLoaded(m, req[p].actor)]
    <3>1. PICK m \in members, phase \in {"remove owners", "remove commit"} : Go(p, s(m, phase))
      BY <2>3 DEF RemoveReadTarget
    <3>2. s(m, phase).pc \notin Administering
      BY DEF Administering
    <3> HIDE DEF s
    <3> QED
      BY <3>1, <3>2
  <2>4. CASE RemoveReadOwners(p) /\ ~Go(p, Idle)
    <3>1. req[p] \in RemoveChecked
      BY <2>4, RequestShape DEF RemoveReadOwners, Typing, TypeOK
    <3>2. Go(p, [req[p] EXCEPT !.pc = "remove commit"])
      BY <2>4 DEF RemoveReadOwners
    <3>3. [req[p] EXCEPT !.pc = "remove commit"].pc = "remove commit"
      BY <3>1 DEF RemoveChecked
    <3> QED
      BY <3>2, <3>3 DEF Administering
  <2> QED
    BY <2>1, <2>2, <2>3, <2>4 DEF Remove, RemoveCommit
<1> QED
  BY <1>1, EndsStillTrue

LEMMA InviteStillTrue ==
    ASSUME Serial, Typing, LookedUp, NEW p \in Procs, Invite(p)
    PROVE  LookedUp'
<1>1. CASE Go(p, Idle)
  BY <1>1, IdleStillTrue, EndsStillTrue
<1>2. CASE BeginInvite(p)
  <2>1. PICK actor \in members, e \in Users, as \in InvitedRoles :
           /\ MayAdminister(actor)
           /\ Go(p, [pc |-> "invite members", actor |-> actor, email |-> e, role |-> as])
           /\ UNCHANGED Tables
    BY <1>2 DEF BeginInvite
  <2> DEFINE r == [pc |-> "invite members", actor |-> actor, email |-> e, role |-> as]
  <2>2. r.pc = "invite members" /\ r.actor = actor
    OBVIOUS
  <2>3. Go(p, r)
    BY <2>1
  <2> HIDE DEF r
  <2>4. StillTrue(r)
    BY <2>1, <2>2 DEF StillTrue
  <2> QED
    BY <2>1, <2>3, <2>4, ReadsStillTrue
<1>3. CASE InviteReadMembers(p) /\ ~Go(p, Idle)
  <2> DEFINE r == [req[p] EXCEPT !.pc = "invite commit"]
  <2>1. req[p] \in Inviting /\ req[p].pc = "invite members"
    BY <1>3, RequestShape DEF InviteReadMembers, Typing, TypeOK
  <2>2. r.pc = "invite commit" /\ r.actor = req[p].actor /\ r.email = req[p].email
    BY <2>1 DEF Inviting
  <2>3. Go(p, r) /\ UNCHANGED Tables /\ ~IsMember(req[p].email)
    BY <1>3 DEF InviteReadMembers
  <2>4. req[p].actor \in members /\ MayAdminister(req[p].actor)
    BY <2>1 DEF LookedUp, StillTrue, Administering
  <2> HIDE DEF r
  <2>5. StillTrue(r)
    BY <2>2, <2>3, <2>4 DEF StillTrue
  <2> QED
    BY <2>3, <2>5, ReadsStillTrue
<1> QED
  BY <1>1, <1>2, <1>3 DEF Invite, InviteCommit

LEMMA RevokeStillTrue ==
    ASSUME Serial, Typing, LookedUp, NEW p \in Procs, Revoke(p)
    PROVE  LookedUp'
<1>1. CASE Go(p, Idle)
  BY <1>1, IdleStillTrue, EndsStillTrue
<1>2. CASE BeginRevoke(p)
  <2>1. PICK actor \in members, i \in InvIds :
           /\ MayAdminister(actor)
           /\ Go(p, [pc |-> "revoke read", actor |-> actor, inv |-> i])
           /\ UNCHANGED Tables
    BY <1>2 DEF BeginRevoke
  <2> DEFINE r == [pc |-> "revoke read", actor |-> actor, inv |-> i]
  <2>2. r.pc = "revoke read" /\ r.actor = actor
    OBVIOUS
  <2>3. Go(p, r)
    BY <2>1
  <2> HIDE DEF r
  <2>4. StillTrue(r)
    BY <2>1, <2>2 DEF StillTrue
  <2> QED
    BY <2>1, <2>3, <2>4, ReadsStillTrue
<1>3. CASE RevokeRead(p) /\ ~Go(p, Idle)
  <2> DEFINE r == [req[p] EXCEPT !.pc = "revoke commit"]
  <2>1. req[p] \in Revoking /\ req[p].pc = "revoke read"
    BY <1>3, RequestShape DEF RevokeRead, Typing, TypeOK
  <2>2. r.pc = "revoke commit" /\ r.actor = req[p].actor /\ r.inv = req[p].inv
    BY <2>1 DEF Revoking
  <2>3. /\ Go(p, r) /\ UNCHANGED Tables
        /\ req[p].inv \in DOMAIN invitations /\ MayRevoke(invitations[req[p].inv])
    BY <1>3 DEF RevokeRead
  <2>4. req[p].actor \in members /\ MayAdminister(req[p].actor)
    BY <2>1 DEF LookedUp, StillTrue, Administering
  <2> HIDE DEF r
  <2>5. StillTrue(r)
    BY <2>2, <2>3, <2>4 DEF StillTrue
  <2> QED
    BY <2>3, <2>5, ReadsStillTrue
<1> QED
  BY <1>1, <1>2, <1>3 DEF Revoke, RevokeCommit

LEMMA AcceptStillTrue ==
    ASSUME Serial, Typing, LookedUp, NEW p \in Procs, Accept(p) \/ Rollback(p)
    PROVE  LookedUp'
<1>1. PICK r : Go(p, r) /\ r.pc \notin Administering
  <2>1. CASE Go(p, Idle)
    BY <2>1, IdleStillTrue
  <2>2. CASE BeginAccept(p)
    <3> DEFINE s(u, i) == [pc |-> "accept member", user |-> u, inv |-> i]
    <3>1. PICK u \in Users, i \in DOMAIN invitations : Go(p, s(u, i))
      BY <2>2 DEF BeginAccept
    <3>2. s(u, i).pc \notin Administering
      BY DEF Administering
    <3> HIDE DEF s
    <3> QED
      BY <3>1, <3>2
  <2>3. CASE AcceptReadMember(p) /\ ~Go(p, Idle)
    <3>1. req[p] \in Accepting
      BY <2>3, RequestShape DEF AcceptReadMember, Typing, TypeOK
    <3>2. Go(p, [req[p] EXCEPT !.pc = "accept commit"])
      BY <2>3 DEF AcceptReadMember
    <3>3. [req[p] EXCEPT !.pc = "accept commit"].pc = "accept commit"
      BY <3>1 DEF Accepting
    <3> QED
      BY <3>2, <3>3 DEF Administering
  <2> QED
    BY <2>1, <2>2, <2>3 DEF Accept, AcceptCommit, Rollback
<1> QED
  BY <1>1, EndsStillTrue

LEMMA ExpireStillTrue ==
    ASSUME Typing, LookedUp, NEW i \in InvIds, Expire(i)
    PROVE  LookedUp'
<1>1. /\ UNCHANGED <<members, req>> /\ i \in DOMAIN invitations
      /\ invitations' = [invitations EXCEPT ![i].expired = TRUE]
  BY DEF Expire
<1>2. ASSUME NEW j \in DOMAIN invitations
      PROVE  /\ j \in DOMAIN invitations'
             /\ MayRevoke(invitations[j]) => MayRevoke(invitations'[j])
  BY <1>1 DEF MayRevoke, Typing, TypeOK, Invitation
<1>3. ASSUME NEW p \in Procs PROVE StillTrue(req[p])'
  BY <1>1, <1>2 DEF LookedUp, StillTrue, IsMember
<1> QED
  BY <1>3 DEF LookedUp

LEMMA LookedUpAlways ==
    ASSUME Serial
    PROVE  Spec => []LookedUp
<1>1. Init => LookedUp
  BY IdleStillTrue, OthersStillTrue DEF Init, LookedUp
<1>2. Typing /\ LookedUp /\ [Next]_vars => LookedUp'
  <2>1. CASE UNCHANGED vars
    BY <2>1 DEF vars, LookedUp, StillTrue, IsMember
  <2> QED
    BY <2>1, UpdateStillTrue, RemoveStillTrue, InviteStillTrue, RevokeStillTrue,
       AcceptStillTrue, ExpireStillTrue DEF Next
<1> QED
  BY <1>1, <1>2, TypingHolds, PTL DEF Spec

-----------------------------------------------------------------------------
\* The role a user has in a table.
RoleIn(rows, u) ==
    IF \E m \in rows : m.user = u THEN (CHOOSE m \in rows : m.user = u).role ELSE "none"

LEMMA RolesNowIs ==
    /\ RolesNow = [u \in Users |-> RoleIn(members, u)]
    /\ RolesNow' = [u \in Users |-> RoleIn(members', u)]
  BY DEF RolesNow, RoleIn, IsMember

\* A row tells the role of its user.
LEMMA RowTells ==
    ASSUME NEW rows, \A m, n \in rows : m.user = n.user => m = n, NEW m \in rows
    PROVE  RoleIn(rows, m.user) = m.role
<1> DEFINE n == CHOOSE n \in rows : n.user = m.user
<1>1. n \in rows /\ n.user = m.user
  OBVIOUS
<1>2. n = m
  BY <1>1
<1> QED
  BY <1>2 DEF RoleIn

LEMMA NoRowTells ==
    ASSUME NEW rows, NEW u, \A m \in rows : m.user # u
    PROVE  RoleIn(rows, u) = "none"
  BY DEF RoleIn

\* Who is not concerned keeps their role.
LEMMA RoleStays ==
    ASSUME NEW rows \in SUBSET Row, \A m, n \in rows : m.user = n.user => m = n,
           NEW new \in SUBSET Row, \A m, n \in new : m.user = n.user => m = n,
           NEW v, \A m \in Row : m.user # v => (m \in rows <=> m \in new),
           NEW u, u # v
    PROVE  RoleIn(new, u) = RoleIn(rows, u)
<1>1. CASE \E m \in rows : m.user = u
  <2>1. PICK m \in rows : m.user = u
    BY <1>1
  <2>2. m \in new
    BY <2>1
  <2>3. RoleIn(rows, u) = m.role
    BY <2>1, RowTells
  <2>4. RoleIn(new, u) = m.role
    BY <2>1, <2>2, RowTells
  <2> QED
    BY <2>3, <2>4
<1>2. CASE \A m \in rows : m.user # u
  <2>1. \A m \in new : m.user # u
    BY <1>2
  <2> QED
    BY <1>2, <2>1, NoRowTells
<1> QED
  BY <1>1, <1>2

\* One user's role changes with the rows of that user.
LEMMA OneRoleMoves ==
    ASSUME Typing, Typing', UniqueMember, UniqueMember', NEW v \in Users,
           \A m \in Row : m.user # v => (m \in members <=> m \in members')
    PROVE  RolesNow' = [RolesNow EXCEPT ![v] = RoleIn(members', v)]
<1>1. ASSUME NEW u \in Users, u # v PROVE RoleIn(members', u) = RoleIn(members, u)
  <2> DEFINE rows == members
             new == members'
  <2>1. rows \in SUBSET Row /\ new \in SUBSET Row
    BY DEF Typing, TypeOK
  <2>2. /\ \A m, n \in rows : m.user = n.user => m = n
        /\ \A m, n \in new : m.user = n.user => m = n
    BY DEF UniqueMember
  <2>3. \A m \in Row : m.user # v => (m \in rows <=> m \in new)
    OBVIOUS
  <2> HIDE DEF rows, new
  <2>4. RoleIn(new, u) = RoleIn(rows, u)
    BY <1>1, <2>1, <2>2, <2>3, RoleStays
  <2> QED
    BY <2>4 DEF rows, new
<1> QED
  BY <1>1, RolesNowIs

\* What MembershipRules says of roles is said of the rows.
LEMMA RowsAreRoles ==
    ASSUME Typing, UniqueMember, NEW m \in members
    PROVE  /\ m.user \in Users /\ m.role \in Roles
           /\ RolesNow[m.user] = m.role
           /\ RolesNow[m.user] # "none"
<1>1. m \in Row
  BY DEF Typing, TypeOK
<1>2. m.user \in Users /\ m.role \in Roles
  BY <1>1 DEF Row
<1>3. RoleIn(members, m.user) = m.role
  BY RowTells DEF UniqueMember
<1> QED
  BY <1>2, <1>3, RolesNowIs DEF Roles

LEMMA AdminRows ==
    ASSUME Typing, UniqueMember, NEW m \in members, MayAdminister(m)
    PROVE  m.user \in Rules!Admins
<1>1. m.user \in Users /\ m.role \in Roles /\ RolesNow[m.user] = m.role
  BY RowsAreRoles
<1>2. m.role # "member"
  <2>1. Rank("member") = 0 /\ Rank("admin") = 1
    BY DEF Rank
  <2> QED
    BY <2>1 DEF MayAdminister
<1> QED
  BY <1>1, <1>2 DEF Rules!Admins, Roles

LEMMA MemberRows ==
    ASSUME Typing, UniqueMember, NEW m \in members
    PROVE  m.user \in Rules!Members
  BY RowsAreRoles DEF Rules!Members

LEMMA StrangersHaveNoRow ==
    ASSUME NEW u \in Users, ~IsMember(u)
    PROVE  u \notin Rules!Members
  BY RolesNowIs, NoRowTells DEF IsMember, Rules!Members

LEMMA OwnerRows ==
    ASSUME Typing, UniqueMember, NEW t \in members, OtherOwnerThan(t)
    PROVE  Rules!OwnerBeside(t.user)
<1>1. PICK m \in members : m.role = "owner" /\ m.user # t.user
  BY DEF OtherOwnerThan, Owners
<1>2. m.user \in Users \ {t.user} /\ RolesNow[m.user] = "owner"
  BY <1>1, RowsAreRoles
<1> QED
  BY <1>2 DEF Rules!OwnerBeside
-----------------------------------------------------------------------------
\* What is known of a lone request when it commits.
Alone ==
    /\ Typing /\ UniqueMember /\ SerialInv /\ AllAuthorized /\ LookedUp /\ SingleInv

RulesStep == Rules!Next \/ UNCHANGED <<RolesNow, LettersNow>>

LEMMA UpdateIsChangeRole ==
    ASSUME Alone, Typing', UniqueMember', NEW p \in Procs, UpdateCommit(p)
    PROVE  RulesStep
<1> DEFINE a == req[p].actor
           t == req[p].target
           to == req[p].to
<1>1. /\ req[p].pc = "update commit" /\ members' = SetRole(members, t, to)
      /\ invitations' = invitations
  BY DEF UpdateCommit
<1>2. /\ a \in members /\ t \in members /\ to \in Roles
      /\ MayAdminister(a) /\ MayChangeRole(a, t, to)
      /\ DemotesOwner(t, to) => OtherOwnerThan(t)
  <2>1. req[p] \in UpdateChecked
    BY <1>1, RequestShape DEF Alone, Typing, TypeOK
  <2>2. to \in Roles
    BY <2>1 DEF UpdateChecked
  <2>3. a \in members /\ t \in members /\ (DemotesOwner(t, to) => OtherOwnerThan(t))
    BY <1>1 DEF Alone, SerialInv, Fresh
  <2>4. MayAdminister(a)
    BY <1>1 DEF Alone, LookedUp, StillTrue, Administering
  <2>5. MayChangeRole(a, t, to)
    BY <1>1 DEF Alone, AllAuthorized, Authorized
  <2> QED
    BY <2>2, <2>3, <2>4, <2>5
<1>3. LettersNow' = LettersNow
  BY <1>1 DEF LettersNow
<1>4. CASE t.role = to
  BY <1>1, <1>3, <1>4, RolesNowIs DEF SetRole, RulesStep
<1>5. CASE t.role # to
  <2>1. members' = {IF m.id = t.id THEN [m EXCEPT !.role = to] ELSE m : m \in members}
    BY <1>1, <1>5 DEF SetRole
  <2>2. \A m \in members : m.id = t.id => m = t
    BY <1>2 DEF Alone, SerialInv, Keys
  <2>3. t \in Row /\ members \subseteq Row /\ t.user \in Users
    BY <1>2 DEF Alone, Typing, TypeOK, Row
  <2> DEFINE n == [t EXCEPT !.role = to]
  <2>4. n \in members' /\ n.user = t.user /\ n.role = to
    BY <1>2, <2>1, <2>3 DEF Row
  <2>5. RoleIn(members', t.user) = to
    BY <2>4, RowTells DEF UniqueMember
  <2>6. ASSUME NEW m \in Row, m.user # t.user PROVE m \in members <=> m \in members'
    <3>1. ASSUME m \in members PROVE m \in members'
      BY <2>1, <2>2, <2>6, <3>1
    <3>2. ASSUME m \in members' PROVE m \in members
      <4>1. PICK o \in members : m = IF o.id = t.id THEN [o EXCEPT !.role = to] ELSE o
        BY <2>1, <3>2
      <4>2. CASE o.id = t.id
        BY <2>2, <2>4, <2>6, <4>1, <4>2
      <4> QED
        BY <4>1, <4>2
    <3> QED
      BY <3>1, <3>2
  <2> HIDE DEF n
  <2>7. RolesNow' = [RolesNow EXCEPT ![t.user] = to]
    BY <2>3, <2>5, <2>6, OneRoleMoves DEF Alone
  <2>8. /\ a.user \in Rules!Admins /\ t.user \in Rules!Members
        /\ RolesNow[a.user] = a.role /\ RolesNow[t.user] = t.role
    BY <1>2, AdminRows, MemberRows, RowsAreRoles DEF Alone
  <2>9. RolesNow[a.user] = "owner" \/ "owner" \notin {RolesNow[t.user], to}
    BY <1>2, <2>8 DEF MayChangeRole
  <2>10. RolesNow[t.user] = "owner" /\ to # "owner" => Rules!OwnerBeside(t.user)
    BY <1>2, <2>8, OwnerRows DEF Alone, DemotesOwner
  <2>11. Rules!ChangeRole(a.user, t.user, to)
    BY <1>3, <2>7, <2>8, <2>9, <2>10 DEF Rules!ChangeRole
  <2>12. a.user \in Users /\ t.user \in Users /\ to \in {"member", "admin", "owner"}
    BY <1>2, RowsAreRoles DEF Alone, Roles
  <2> QED
    BY <2>11, <2>12 DEF RulesStep, Rules!Next
<1> QED
  BY <1>4, <1>5

LEMMA RemoveIsRemove ==
    ASSUME Alone, Typing', UniqueMember', NEW p \in Procs, RemoveCommit(p)
    PROVE  RulesStep
<1> DEFINE a == req[p].actor
           t == req[p].target
<1>1. /\ req[p].pc = "remove commit" /\ members' = {m \in members : m.id # t.id}
      /\ invitations' = invitations
  BY DEF RemoveCommit
<1>2. /\ a \in members /\ t \in members /\ MayRemove(a, t)
      /\ t.role = "owner" => OtherOwnerThan(t)
  BY <1>1 DEF Alone, SerialInv, Fresh, AllAuthorized, Authorized
<1>3. LettersNow' = LettersNow
  BY <1>1 DEF LettersNow
<1>4. \A m \in members : m.id = t.id <=> m = t
  BY <1>2 DEF Alone, SerialInv, Keys
<1>5. \A m \in members : m.user = t.user => m = t
  BY <1>2 DEF Alone, UniqueMember
<1>6. \A m \in members' : m.user # t.user
  BY <1>1, <1>4, <1>5
<1>7. RoleIn(members', t.user) = "none"
  BY <1>6, NoRowTells
<1>8. t.user \in Users
  BY <1>2, RowsAreRoles DEF Alone
<1>9. \A m \in Row : m.user # t.user => (m \in members <=> m \in members')
  BY <1>1, <1>4
<1>10. RolesNow' = [RolesNow EXCEPT ![t.user] = "none"]
  BY <1>7, <1>8, <1>9, OneRoleMoves DEF Alone
<1>11. /\ a.user \in Users /\ a.user \in Rules!Members /\ t.user \in Rules!Members
       /\ RolesNow[a.user] = a.role /\ RolesNow[t.user] = t.role
       /\ a.role \in Roles /\ t.role \in Roles
  BY <1>2, MemberRows, RowsAreRoles DEF Alone
<1>12. a.user = t.user \/ Rules!Outranks(RolesNow[a.user], RolesNow[t.user])
  <2>1. Rank("member") = 0 /\ Rank("admin") = 1 /\ Rank("owner") = 2
    BY DEF Rank
  <2>2. ASSUME MayAdminister(a), Rank(t.role) < Rank(a.role)
        PROVE  Rules!Outranks(a.role, t.role)
    BY <1>11, <2>1, <2>2 DEF MayAdminister, Roles, Rules!Outranks
  <2> QED
    BY <1>2, <1>11, <2>2 DEF MayRemove
<1>13. RolesNow[t.user] = "owner" => Rules!OwnerBeside(t.user)
  BY <1>2, <1>11, OwnerRows DEF Alone
<1>14. Rules!Remove(a.user, t.user)
  BY <1>3, <1>10, <1>11, <1>12, <1>13 DEF Rules!Remove
<1> QED
  BY <1>8, <1>11, <1>14 DEF RulesStep, Rules!Next

LEMMA InviteIsInvite ==
    ASSUME Alone, NEW p \in Procs, InviteCommit(p)
    PROVE  RulesStep
<1> DEFINE a == req[p].actor
           u == req[p].email
           as == req[p].role
           new == [email |-> u, role |-> as, accepted |-> FALSE, revoked |-> FALSE,
                   expired |-> FALSE]
<1>1. PICK i \in InvIds \ DOMAIN invitations :
         /\ invitations' = [j \in DOMAIN invitations \cup {i} |->
                               IF j = i THEN new ELSE invitations[j]]
         /\ members' = members /\ req[p].pc = "invite commit"
  BY DEF InviteCommit
<1>2. a \in members /\ MayAdminister(a) /\ ~IsMember(u)
  BY <1>1 DEF Alone, LookedUp, StillTrue, Administering
<1>3. u \in Users /\ as \in InvitedRoles
  <2>1. req[p] \in Inviting
    BY <1>1, RequestShape DEF Alone, Typing, TypeOK
  <2> QED
    BY <2>1 DEF Inviting
<1>4. Letter(new) = [to |-> u, as |-> as, state |-> "open"]
  BY DEF Letter
<1> HIDE DEF new
<1>5. DOMAIN LettersNow = DOMAIN invitations
  BY DEF LettersNow
<1>6. LettersNow' = [j \in DOMAIN LettersNow \cup {i} |->
                        IF j = i THEN [to |-> u, as |-> as, state |-> "open"]
                        ELSE LettersNow[j]]
  <2>1. LettersNow' = [j \in DOMAIN invitations \cup {i} |->
                          Letter(IF j = i THEN new ELSE invitations[j])]
    BY <1>1 DEF LettersNow
  <2> QED
    BY <1>4, <1>5, <2>1 DEF LettersNow
<1>7. RolesNow' = RolesNow
  BY <1>1, RolesNowIs
<1>8. a.user \in Users /\ a.user \in Rules!Admins /\ u \notin Rules!Members
  BY <1>2, <1>3, AdminRows, RowsAreRoles, StrangersHaveNoRow DEF Alone
<1>9. Rules!Invite(a.user, i, u, as)
  BY <1>1, <1>5, <1>6, <1>7, <1>8 DEF Rules!Invite
<1> QED
  BY <1>3, <1>8, <1>9 DEF RulesStep, Rules!Next, InvitedRoles

LEMMA OpenLetter ==
    ASSUME NEW inv, ~inv.accepted, ~inv.revoked
    PROVE  Letter(inv).state = "open"
  BY DEF Letter

LEMMA RevokeIsRevoke ==
    ASSUME Alone, NEW p \in Procs, RevokeCommit(p)
    PROVE  RulesStep
<1> DEFINE a == req[p].actor
           i == req[p].inv
           inv == invitations[i]
           new == [inv EXCEPT !.revoked = TRUE]
<1>1. /\ req[p].pc = "revoke commit" /\ members' = members
      /\ invitations' = [invitations EXCEPT ![i] = new]
  BY DEF RevokeCommit
<1>2. a \in members /\ MayAdminister(a) /\ i \in DOMAIN invitations /\ MayRevoke(inv)
  BY <1>1 DEF Alone, LookedUp, StillTrue, Administering
<1>3. inv \in Invitation
  BY <1>2 DEF Alone, Typing, TypeOK
<1>4. /\ new.email = inv.email /\ new.role = inv.role
      /\ ~new.accepted /\ new.revoked
  BY <1>2, <1>3 DEF Invitation, MayRevoke
<1>5. Letter(inv).state = "open"
  BY <1>2, OpenLetter DEF MayRevoke
<1>6. Letter(new) = [Letter(inv) EXCEPT !.state = "revoked"]
  BY <1>4 DEF Letter
<1> HIDE DEF new
<1>7. LettersNow' = [LettersNow EXCEPT ![i].state = "revoked"]
  BY <1>1, <1>2, <1>6 DEF LettersNow
<1>8. RolesNow' = RolesNow
  BY <1>1, RolesNowIs
<1>9. LettersNow[i].state = "open" /\ i \in DOMAIN LettersNow
  BY <1>2, <1>5 DEF LettersNow
<1>10. a.user \in Users /\ a.user \in Rules!Admins
  BY <1>2, AdminRows, RowsAreRoles DEF Alone
<1>11. Rules!Revoke(a.user, i)
  BY <1>7, <1>8, <1>9, <1>10 DEF Rules!Revoke
<1> QED
  BY <1>9, <1>10, <1>11 DEF RulesStep, Rules!Next

LEMMA AcceptIsAccept ==
    ASSUME Alone, Typing', UniqueMember', NEW p \in Procs, AcceptCommit(p)
    PROVE  RulesStep
<1> DEFINE u == req[p].user
           i == req[p].inv
           inv == invitations[i]
           new == [inv EXCEPT !.accepted = TRUE]
           row == [id |-> nextId, user |-> u, role |-> inv.role]
<1>1. req[p].pc = "accept commit" /\ req[p] \in Accepting
  BY RequestShape DEF AcceptCommit, Alone, Typing, TypeOK
<1>2. /\ i \in DOMAIN invitations /\ inv.email = u
      /\ ~inv.accepted /\ ~inv.revoked
  BY <1>1 DEF Alone, Typing, InvitationsKnown, KnowsInvitation, SingleInv, Accepts
<1>3. inv \in Invitation /\ u \in Users
  BY <1>1, <1>2 DEF Alone, Typing, TypeOK, Accepting
<1>4. CASE UNCHANGED Tables
  <2>1. members' = members /\ invitations' = invitations
    BY <1>4 DEF Tables
  <2> QED
    BY <2>1, RolesNowIs DEF RulesStep, LettersNow
<1>5. CASE ~UNCHANGED Tables
  <2>1. /\ ~IsMember(u) /\ members' = members \cup {row}
        /\ invitations' = [invitations EXCEPT ![i] = new]
    BY <1>5 DEF AcceptCommit, InsertAllowed
  <2>2. /\ new.email = inv.email /\ new.role = inv.role
        /\ new.accepted /\ ~new.revoked
    BY <1>2, <1>3 DEF Invitation
  <2>3. Letter(inv).state = "open" /\ Letter(inv).to = u /\ Letter(inv).as = inv.role
    BY <1>2 DEF Letter
  <2>4. Letter(new) = [Letter(inv) EXCEPT !.state = "used"]
    BY <2>2 DEF Letter
  <2>5. row.user = u /\ row.role = inv.role /\ row \in members'
    BY <2>1
  <2> HIDE DEF new, row
  <2>6. LettersNow' = [LettersNow EXCEPT ![i].state = "used"]
    BY <1>2, <2>1, <2>4 DEF LettersNow
  <2>7. /\ i \in DOMAIN LettersNow
        /\ LettersNow[i].state = "open" /\ LettersNow[i].to = u
        /\ LettersNow[i].as = inv.role
    BY <1>2, <2>3 DEF LettersNow
  <2>8. RoleIn(members', u) = inv.role
    BY <2>5, RowTells DEF UniqueMember
  <2>9. \A m \in Row : m.user # u => (m \in members <=> m \in members')
    BY <2>1, <2>5
  <2>10. RolesNow' = [RolesNow EXCEPT ![u] = inv.role]
    BY <1>3, <2>8, <2>9, OneRoleMoves DEF Alone
  <2>11. u \notin Rules!Members
    BY <1>3, <2>1, StrangersHaveNoRow
  <2>12. Rules!Accept(u, i)
    BY <2>6, <2>7, <2>10, <2>11 DEF Rules!Accept
  <2> QED
    BY <1>3, <2>7, <2>12 DEF RulesStep, Rules!Next
<1> QED
  BY <1>4, <1>5

\* That a link has expired is not seen in its letter.
LEMMA ExpireIsNothing ==
    ASSUME Typing, NEW i \in InvIds, Expire(i)
    PROVE  RulesStep
<1>1. /\ members' = members /\ i \in DOMAIN invitations
      /\ invitations' = [invitations EXCEPT ![i].expired = TRUE]
  BY DEF Expire
<1>2. DOMAIN invitations' = DOMAIN invitations
  BY <1>1
<1>3. ASSUME NEW j \in DOMAIN invitations
      PROVE  /\ invitations'[j].email = invitations[j].email
             /\ invitations'[j].role = invitations[j].role
             /\ invitations'[j].accepted = invitations[j].accepted
             /\ invitations'[j].revoked = invitations[j].revoked
  BY <1>1 DEF Typing, TypeOK, Invitation
<1>4. LettersNow' = LettersNow
  BY <1>2, <1>3 DEF LettersNow, Letter
<1> QED
  BY <1>1, <1>4, RolesNowIs DEF RulesStep

LEMMA RulesInitial == Init => Rules!Init
<1> SUFFICES ASSUME Init
             PROVE  Rules!Init
  OBVIOUS
<1> DEFINE row == [id |-> 0, user |-> Founder, role |-> "owner"]
<1>1. members = {row} /\ row.user = Founder /\ row.role = "owner"
  BY DEF Init
<1> HIDE DEF row
<1>2. RoleIn(members, Founder) = "owner"
  BY <1>1 DEF RoleIn
<1>3. \A u \in Users \ {Founder} : RoleIn(members, u) = "none"
  BY <1>1, NoRowTells
<1>4. RolesNow = [u \in Users |-> IF u = Founder THEN "owner" ELSE "none"]
  BY <1>2, <1>3, RolesNowIs
<1>5. LettersNow = [i \in {} |-> {}]
  BY DEF Init, LettersNow
<1> QED
  BY <1>4, <1>5 DEF Rules!Init

LEMMA NextIsRulesStep ==
    ASSUME Alone, Typing', UniqueMember', [Next]_vars
    PROVE  RulesStep
<1>1. CASE UNCHANGED Tables \/ UNCHANGED vars
  <2>1. members' = members /\ invitations' = invitations
    BY <1>1 DEF Tables, vars
  <2> QED
    BY <2>1, RolesNowIs DEF RulesStep, LettersNow
<1>2. CASE \E i \in InvIds : Expire(i)
  BY <1>2, ExpireIsNothing DEF Alone
<1>3. ASSUME NEW p \in Procs,
             \/ Update(p) \/ Remove(p) \/ Invite(p)
             \/ Revoke(p) \/ Accept(p) \/ Rollback(p)
      PROVE  \/ UNCHANGED Tables
             \/ UpdateCommit(p) \/ RemoveCommit(p) \/ InviteCommit(p)
             \/ RevokeCommit(p) \/ AcceptCommit(p)
  BY <1>3
     DEF Update, BeginUpdate, UpdateReadTarget, UpdateReadOwners,
         Remove, BeginRemove, RemoveReadTarget, RemoveReadOwners,
         Invite, BeginInvite, InviteReadMembers, Revoke, BeginRevoke, RevokeRead,
         Accept, BeginAccept, AcceptReadMember, Rollback
<1> QED
  BY <1>1, <1>2, <1>3, UpdateIsChangeRole, RemoveIsRemove, InviteIsInvite,
     RevokeIsRevoke, AcceptIsAccept DEF Next

\* Where requests do not overlap, every operation takes effect in one step of
\* MembershipRules, on roles and invitations as they are at that moment, and an
\* owner is demoted by an owner and removed by nobody else (domains/tenants/service.py).
THEOREM SerialActsAtOnce ==
    ASSUME Serial
    PROVE  Spec => ActsAtOnce
<1>1. Alone /\ Typing' /\ UniqueMember' /\ [Next]_vars => [Rules!Next]_(Rules!vars)
  <2> SUFFICES ASSUME Alone, Typing', UniqueMember', [Next]_vars
               PROVE  Rules!Next \/ UNCHANGED Rules!vars
    OBVIOUS
  <2> QED
    BY NextIsRulesStep DEF RulesStep, Rules!vars
<1>2. Spec => []Typing /\ []UniqueMember /\ []SerialInv /\ []AllAuthorized
                 /\ []LookedUp /\ []SingleInv
  BY TypingHolds, UniqueRows, SerialInvariant, AuthorizedAlways, LookedUpAlways,
     SingleInvariant
<1>3. Typing /\ UniqueMember /\ SerialInv /\ AllAuthorized /\ LookedUp /\ SingleInv
         => Alone
  BY DEF Alone
<1>4. Spec => Rules!Spec
  BY <1>1, <1>2, <1>3, RulesInitial, PTL DEF Spec, Rules!Spec
<1>5. Spec => OwnersAnswerToOwners
  BY SerialOwnersAnswer
<1> QED
  BY <1>4, <1>5 DEF ActsAtOnce
=============================================================================

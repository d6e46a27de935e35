---------------------------- MODULE MembershipRules ----------------------------
(***************************************************************************)
(* What the users of one organization are promised (domains/tenants): who  *)
(* has which role, and what became of each invitation.  An operation is    *)
(* one step, and whatever it asks for is so when it takes effect.          *)
(* Requests, rows, transactions and the expiry of a link are not visible   *)
(* here.                                                                   *)
(***************************************************************************)
CONSTANTS Users, Founder, InvIds

VARIABLES role,     \* of each user, "none" without a membership
          letters   \* the invitations that were sent, and their state

vars == <<role, letters>>

Admins == {u \in Users : role[u] \in {"admin", "owner"}}
Members == {u \in Users : role[u] # "none"}

\* Somebody else is an owner.
OwnerBeside(u) == \E v \in Users \ {u} : role[v] = "owner"

Outranks(high, low) ==
    \/ high = "owner" /\ low \in {"admin", "member"}
    \/ high = "admin" /\ low = "member"

Init ==
    /\ role = [u \in Users |-> IF u = Founder THEN "owner" ELSE "none"]
    /\ letters = [i \in {} |-> {}]

\* Owners are made and unmade by owners.
ChangeRole(by, u, to) ==
    /\ by \in Admins /\ u \in Members
    /\ role[by] = "owner" \/ "owner" \notin {role[u], to}
    /\ role[u] = "owner" /\ to # "owner" => OwnerBeside(u)
    /\ role' = [role EXCEPT ![u] = to]
    /\ UNCHANGED letters

Remove(by, u) ==
    /\ by \in Members /\ u \in Members
    /\ by = u \/ Outranks(role[by], role[u])
    /\ role[u] = "owner" => OwnerBeside(u)
    /\ role' = [role EXCEPT ![u] = "none"]
    /\ UNCHANGED letters

Invite(by, i, u, as) ==
    /\ by \in Admins /\ u \notin Members /\ i \notin DOMAIN letters
    /\ letters' = [j \in DOMAIN letters \cup {i} |->
                      IF j = i THEN [to |-> u, as |-> as, state |-> "open"] ELSE letters[j]]
    /\ UNCHANGED role

Revoke(by, i) ==
    /\ by \in Admins /\ letters[i].state = "open"
    /\ letters' = [letters EXCEPT ![i].state = "revoked"]
    /\ UNCHANGED role

Accept(u, i) ==
    /\ letters[i].state = "open" /\ letters[i].to = u /\ u \notin Members
    /\ letters' = [letters EXCEPT ![i].state = "used"]
    /\ role' = [role EXCEPT ![u] = letters[i].as]

Next ==
    \/ \E by, u \in Users :
          \/ Remove(by, u)
          \/ \E to \in {"member", "admin", "owner"} : ChangeRole(by, u, to)
          \/ \E i \in InvIds, as \in {"member", "admin"} : Invite(by, i, u, as)
    \/ \E u \in Users, i \in DOMAIN letters : Revoke(u, i) \/ Accept(u, i)

Spec == Init /\ [][Next]_vars
=============================================================================

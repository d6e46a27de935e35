------------------------------- MODULE Tenancy --------------------------------
(***************************************************************************)
(* What belongs to an organization: the tenant context every request is    *)
(* given (core/tenancy.py) and the repository that filters by it           *)
(* (core/repository.py).  Members come and go at any time.                 *)
(***************************************************************************)
EXTENDS Naturals

CONSTANTS People,      \* users
          Requests,     \* requests in flight
          Items,        \* rows of tenant-owned tables, by id
          MaxTenants    \* bound: organizations

ASSUME TenancyAssumption == MaxTenants \in Nat

VARIABLES memberOf,     \* memberships: pairs of organization and user
          owner,        \* item -> tenant_id, NoRow before the row, Gone after it
          request       \* what each request is doing

tenancyVars == <<memberOf, owner, request>>
-----------------------------------------------------------------------------
TenantIds == 1..MaxTenants
NoRow == 0
Gone == MaxTenants + 1
Idle == [pc |-> "idle"]

\* "member" is history: whether the user was one when the request came in.
Request == {Idle}
           \cup [pc : {"entered"}, user : People, org : TenantIds,
                 row : Items \cup {NoRow}, member : BOOLEAN]

Admit(o, u) ==
    /\ memberOf' = memberOf \cup {<<o, u>>}
    /\ UNCHANGED <<owner, request>>

Dismiss(o, u) ==
    /\ memberOf' = memberOf \ {<<o, u>>}
    /\ UNCHANGED <<owner, request>>

\* X-Org-Id names an organization of the caller.
Admitted(o, u) == <<o, u>> \in memberOf

Enter(c, u, o) ==
    /\ request[c] = Idle
    /\ Admitted(o, u)
    /\ request' = [request EXCEPT ![c] =
                      [pc |-> "entered", user |-> u, org |-> o, row |-> NoRow,
                       member |-> <<o, u>> \in memberOf]]
    /\ UNCHANGED <<memberOf, owner>>

\* _query
Query(o) == {i \in Items : owner[i] = o}

GetItem(c, i) ==
    /\ request[c].pc = "entered" /\ i \in Query(request[c].org)
    /\ request' = [request EXCEPT ![c].row = i]
    /\ UNCHANGED <<memberOf, owner>>

\* Mutant: the instance keeps the tenant it carries.
Stamp_Trusting(o, carried) == carried

\* add: the tenant that the instance carries is overwritten.
Stamp(o, carried) == o

AddItem(c, i) ==
    /\ request[c].pc = "entered" /\ owner[i] = NoRow
    /\ \E carried \in TenantIds :
          owner' = [owner EXCEPT ![i] = Stamp(request[c].org, carried)]
    /\ UNCHANGED <<memberOf, request>>

RequestOver(c) == request' = [request EXCEPT ![c] = Idle]

DeleteItem(c) ==
    /\ request[c].pc = "entered" /\ request[c].row # NoRow
    /\ owner' = [owner EXCEPT ![request[c].row] = Gone]
    /\ RequestOver(c)
    /\ UNCHANGED memberOf

EndRequest(c) ==
    /\ request[c] # Idle
    /\ RequestOver(c)
    /\ UNCHANGED <<memberOf, owner>>
-----------------------------------------------------------------------------
TenancyInit ==
    /\ memberOf = {}
    /\ owner = [i \in Items |-> NoRow]
    /\ request = [c \in Requests |-> Idle]

TenancyNext ==
    \/ \E o \in TenantIds, u \in People : Admit(o, u) \/ Dismiss(o, u)
    \/ \E c \in Requests, u \in People, o \in TenantIds : Enter(c, u, o)
    \/ \E c \in Requests, i \in Items : GetItem(c, i) \/ AddItem(c, i)
    \/ \E c \in Requests : DeleteItem(c) \/ EndRequest(c)

TenancySpec == TenancyInit /\ [][TenancyNext]_tenancyVars
-----------------------------------------------------------------------------
TenancyTypeOK ==
    /\ memberOf \subseteq TenantIds \X People
    /\ owner \in [Items -> TenantIds \cup {NoRow, Gone}]
    /\ request \in [Requests -> Request]

\* Whatever a request holds belongs to an organization its user was a member of
\* when it came in: rows of other tenants are out of reach whoever joins, leaves
\* and asks for them by id meanwhile (get_current_tenant,
\* TenantScopedRepository._query, add).
NothingForeign ==
    \A c \in Requests : request[c].pc = "entered" =>
        /\ request[c].member
        /\ request[c].row # NoRow => owner[request[c].row] \in {request[c].org, Gone}

\* A row never moves to another organization, and is deleted only from inside
\* its own (TenantScopedRepository.add, delete).
RowsStayPut ==
    [][\A i \in Items : owner'[i] # owner[i] =>
          \E c \in Requests :
              /\ request[c].pc = "entered"
              /\ \/ owner[i] = NoRow /\ owner'[i] = request[c].org
                 \/ owner[i] = request[c].org /\ owner'[i] = Gone]_tenancyVars

\* Tenants are apart: no request reaches or moves a row of another.
TenantsApart == []NothingForeign /\ RowsStayPut
=============================================================================

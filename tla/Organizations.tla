---------------------------- MODULE Organizations ----------------------------
(***************************************************************************)
(* Users and their organizations (TenantService): the personal one that a  *)
(* user's first call creates, and the renaming of an organization, whose   *)
(* response lists the user's organizations again.  Who joins, leaves and   *)
(* is given which role is the business of Tenants; here it happens at any  *)
(* time, between any two statements of a request.                          *)
(***************************************************************************)
EXTENDS Naturals, FiniteSets

CONSTANTS Users,
          Calls,        \* requests in flight
          MaxOrgs       \* bound: organizations ever created

ASSUME OrganizationsAssumption == MaxOrgs \in Nat /\ IsFiniteSet(Calls)

VARIABLES created,      \* organizations 1..created exist
          personal,     \* user -> the organizations made by a first call
          belongs,      \* memberships: pairs of organization and user
          admins,       \* those of at least the rank of an admin
          left,         \* history: the users who were ever removed or left
          renamed,      \* history: what the last step renamed, and for whom
          ask           \* what each request is doing

members == <<created, personal, belongs, admins, left>>
orgVars == <<members, renamed, ask>>
-----------------------------------------------------------------------------
AllOrgs == 1..MaxOrgs
Free == [pc |-> "free"]

\* A "first" request found its user in no organization, and makes a personal one.
Listed == {"listed", "first listed"}
Renames == {"rename", "first rename"} \cup Listed
Firsts == {"first", "first rename", "first listed"}
Ask == {Free} \cup [pc : {"first"}, user : Users]
              \cup [pc : Renames, user : Users, org : AllOrgs]

OrgsOf(u) == {o \in AllOrgs : <<o, u>> \in belongs}
Over(c) == ask' = [ask EXCEPT ![c] = Free]

\* create_organization: the user owns it.
NewOrganization(u) ==
    /\ created < MaxOrgs
    /\ created' = created + 1
    /\ belongs' = belongs \cup {<<created + 1, u>>}
    /\ admins' = admins \cup {<<created + 1, u>>}
    /\ UNCHANGED left

NewPersonal(u) ==
    /\ NewOrganization(u)
    /\ personal' = [personal EXCEPT ![u] = @ \cup {created + 1}]
-----------------------------------------------------------------------------
(* GET /organizations                                                       *)

Homeless(u) == OrgsOf(u) = {}

ListOrganizations(c, u) ==
    /\ ask[c] = Free
    /\ Homeless(u)
    /\ ask' = [ask EXCEPT ![c] = [pc |-> "first", user |-> u]]
    /\ renamed' = {}
    /\ UNCHANGED members

CreatePersonal(c) ==
    /\ ask[c].pc = "first"
    /\ NewPersonal(ask[c].user)
    /\ Over(c)
    /\ renamed' = {}

\* POST /organizations
CreateOrganization(u) ==
    /\ NewOrganization(u)
    /\ renamed' = {}
    /\ UNCHANGED <<personal, ask>>
-----------------------------------------------------------------------------
(* PATCH /organizations/{id}                                                *)

\* The membership is read and its rank required.
BeginRename(c, u, o) ==
    /\ ask[c] = Free /\ <<o, u>> \in admins
    /\ ask' = [ask EXCEPT ![c] = [pc |-> "rename", user |-> u, org |-> o]]
    /\ renamed' = {}
    /\ UNCHANGED members

\* Mutant: the response does not look for the organization in the user's list.
StillListed_Always(o, u) == TRUE

StillListed(o, u) == o \in OrgsOf(u)

\* The new name is flushed and the user's organizations are listed.  To a user who
\* is in none a personal one is added, and the list is made again.
ListNone(c) ==
    /\ ask[c].pc = "rename" /\ Homeless(ask[c].user)
    /\ ask' = [ask EXCEPT ![c].pc = "first rename"]
    /\ renamed' = {}
    /\ UNCHANGED members

\* If the renamed one is not in the list, next() raises and all is rolled back.
ListRenamed(c) ==
    /\ \/ ask[c].pc = "rename" /\ ~Homeless(ask[c].user)
       \/ ask[c].pc = "first rename"
    /\ IF StillListed(ask[c].org, ask[c].user)
         THEN ask' = [ask EXCEPT ![c].pc = IF @ = "rename" THEN "listed" ELSE "first listed"]
         ELSE Over(c)
    /\ renamed' = {}
    /\ UNCHANGED members

\* What has been committed since the listing does not stop the commit.
CommitRename(c) ==
    /\ \/ ask[c].pc = "first listed" /\ NewPersonal(ask[c].user)
       \/ ask[c].pc = "listed" /\ UNCHANGED members
    /\ renamed' = {<<ask[c].org, ask[c].user>>}
    /\ Over(c)
-----------------------------------------------------------------------------
(* Members come and go; a removal may be of the last organization           *)

Join(u, o) ==
    /\ o \in 1..created /\ o \notin OrgsOf(u)
    /\ belongs' = belongs \cup {<<o, u>>}
    /\ admins' \in {admins, admins \cup {<<o, u>>}}
    /\ renamed' = {}
    /\ UNCHANGED <<created, personal, left, ask>>

ChangeRank(u, o) ==
    /\ o \in OrgsOf(u)
    /\ admins' \in {admins \cup {<<o, u>>}, admins \ {<<o, u>>}}
    /\ renamed' = {}
    /\ UNCHANGED <<created, personal, belongs, left, ask>>

Leave(u, o) ==
    /\ o \in OrgsOf(u)
    /\ belongs' = belongs \ {<<o, u>>}
    /\ admins' = admins \ {<<o, u>>}
    /\ left' = left \cup {u}
    /\ renamed' = {}
    /\ UNCHANGED <<created, personal, ask>>
-----------------------------------------------------------------------------
EndCall(c) ==
    /\ ask[c] # Free
    /\ Over(c)
    /\ renamed' = {}
    /\ UNCHANGED members
-----------------------------------------------------------------------------
OrgInit ==
    /\ created = 0
    /\ personal = [u \in Users |-> {}]
    /\ belongs = {}
    /\ admins = {} /\ left = {}
    /\ renamed = {}
    /\ ask = [c \in Calls |-> Free]

OrgNext ==
    \/ \E c \in Calls, u \in Users : ListOrganizations(c, u)
    \/ \E c \in Calls : \/ CreatePersonal(c) \/ ListNone(c) \/ ListRenamed(c)
                        \/ CommitRename(c) \/ EndCall(c)
    \/ \E u \in Users : CreateOrganization(u)
    \/ \E u \in Users, o \in AllOrgs : Join(u, o) \/ ChangeRank(u, o) \/ Leave(u, o)
    \/ \E c \in Calls, u \in Users, o \in AllOrgs : BeginRename(c, u, o)

OrgSpec == OrgInit /\ [][OrgNext]_orgVars
-----------------------------------------------------------------------------
OrgTypeOK ==
    /\ created \in 0..MaxOrgs
    /\ personal \in [Users -> SUBSET AllOrgs]
    /\ belongs \subseteq (1..created) \X Users
    /\ admins \subseteq belongs
    /\ left \subseteq Users
    /\ renamed \subseteq AllOrgs \X Users
    /\ ask \in [Calls -> Ask]

\* Requests in flight that are going to make the user a personal organization, and
\* those that rename an organization for the user.
FirstCalls(u) == {c \in Calls : ask[c].pc \in Firsts /\ ask[c].user = u}
Renaming(o, u, pcs) ==
    \E c \in Calls : ask[c].pc \in pcs /\ ask[c].org = o /\ ask[c].user = u

\* Once a user is in an organization and the calls that found none are over, the
\* user is given no personal one, and no call sets out to, until the user is in
\* none again (TenantService.list_organizations reads, then creates).
HousedForGood ==
    [][\A u \in Users :
          OrgsOf(u) # {} /\ FirstCalls(u) = {} =>
              /\ personal'[u] = personal[u]
              /\ OrgsOf(u)' # {} => FirstCalls(u)' = {}]_orgVars

\* First calls that overlap make one personal organization each, but the user gets
\* no more of them than calls can be in flight together (list_organizations).
OnePerCall ==
    \A u \in Users \ left :
        Cardinality(personal[u]) + Cardinality(FirstCalls(u)) <= Cardinality(Calls)

\* Who lost the rank of an admin can finish the renames that were let in before,
\* and begins no other until the rank is back (rename_organization).
Powerless(o, u) == <<o, u>> \notin admins /\ ~Renaming(o, u, Renames)
RenamedByAdmin ==
    [][\A o \in AllOrgs, u \in Users :
          Powerless(o, u) =>
              /\ <<o, u>> \notin renamed'
              /\ <<o, u>> \in admins' \/ Powerless(o, u)']_orgVars

\* Who was removed has no rename committed but one whose listing was made before
\* the removal, until somebody admits the user again (the router's next()).
Outsider(o, u) == <<o, u>> \notin belongs /\ ~Renaming(o, u, Listed)
RenamedByMember ==
    [][\A o \in AllOrgs, u \in Users :
          Outsider(o, u) =>
              /\ <<o, u>> \notin renamed'
              /\ <<o, u>> \in belongs' \/ Outsider(o, u)']_orgVars

\* Memberships decide, up to what a request in flight had read of them: who is
\* given a personal organization, and whose renames land.
MembershipDecides == HousedForGood /\ []OnePerCall /\ RenamedByAdmin /\ RenamedByMember
=============================================================================

---------------------------- MODULE Organizations ----------------------------
(****************************************************************************)
(* An organization, its owner, its members with their roles, and its        *)
(* followers, as the organization viewsets change them.                     *)
(*                                                                          *)
(* Every statement of these handlers commits by itself: a handler that      *)
(* reads, checks and then writes is several steps here, and a row that is   *)
(* saved is written whole, with the values read before.                     *)
(****************************************************************************)
EXTENDS Integers, Sums

CONSTANTS
  User,        \* accounts
  Admin,       \* those with is_staff, or an app-admin role for these operations
  WebWorker,   \* requests in progress at once
  MaxMembershipPk \* bound: membership rows ever created

ASSUME AdminAssumption == Admin \subseteq User

VARIABLES
  organization, \* the Organization row, or NoOrganization
  membership,   \* membership[u]: the OrganizationMembership row of u, or NoMembership
  followRows,   \* followRows[u]: live OrganizationFollow rows of u
  handling,     \* handling[w]: the request w is in the middle of
  lastPk,       \* primary keys given to memberships so far
  asked         \* observation only: <<pk, role>> that was asked for

orgVars == <<organization, membership, followRows, handling, lastPk, asked>>

OrganizationRole == {"Member", "Coordinator"}
NoOrganization   == [owner |-> "nobody"]
NoMembership     == [pk |-> 0, roles |-> {}]
Free             == [pc |-> "free"]

\* Role.weight
Weight(r) == IF r = "Coordinator" THEN 2 ELSE 1

OrgInit ==
  /\ organization = NoOrganization
  /\ membership   = [u \in User |-> NoMembership]
  /\ followRows   = [u \in User |-> 0]
  /\ handling     = [w \in WebWorker |-> Free]
  /\ lastPk       = 0
  /\ asked        = {}

Created      == organization # NoOrganization
\* Organization.objects, which does not see what was soft-deleted.
Live         == Created /\ ~organization.deleted
IsOwner(u)   == Live /\ organization.owner = u
IsMember(u)  == membership[u] # NoMembership
\* IsOrganizationOwner with the password, or the administrators.
MayManage(u) == Live /\ (IsOwner(u) \/ u \in Admin)

\* User.check_organization_access: the weights of the roles are added up.
WeightOf(roles)      == TotalOf([r \in OrganizationRole |-> Weight(r)], roles)
TotalWeight(u)       == WeightOf(membership[u].roles)
HasAccess(u, weight) == IsMember(u) /\ TotalWeight(u) >= weight

Start(w, job) == handling[w] = Free /\ handling' = [handling EXCEPT ![w] = job]
Finish(w)     == handling' = [handling EXCEPT ![w] = Free]

------------------------------------------------------------------------------
(* OrganizationViewSet: create, create_light, update, destroy               *)

\* The caller owns what it creates; a "light" organization is not active.
CreateOrganization(u, active) ==
  /\ ~Created
  /\ organization' = [owner |-> u, active |-> active, deleted |-> FALSE]
  /\ UNCHANGED <<membership, followRows, handling, lastPk, asked>>

\* Update: validate() makes whoever calls the owner; the rest of the row is as read.  PUT
\* asks for MayManage; PATCH has no entry in the table of permissions, so that any account
\* passes.
BeginUpdate(w, u, active) ==
  /\ Live
  /\ Start(w, [pc |-> "save",
               row |-> [organization EXCEPT !.owner = u, !.active = active]])
  /\ UNCHANGED <<organization, membership, followRows, lastPk, asked>>

BeginDestroy(w, u) ==
  /\ MayManage(u)
  /\ Start(w, [pc |-> "save", row |-> [organization EXCEPT !.deleted = TRUE]])
  /\ UNCHANGED <<organization, membership, followRows, lastPk, asked>>

SaveOrganization(w) ==
  /\ handling[w].pc = "save"
  /\ organization' = handling[w].row
  /\ Finish(w)
  /\ UNCHANGED <<membership, followRows, lastPk, asked>>

------------------------------------------------------------------------------
(* Members: add_member, manage_membership_roles, and the membership viewset *)

BeginAddMember(w, by, u, r) ==
  /\ MayManage(by)
  /\ ~IsMember(u) /\ ~IsOwner(u)
  /\ Start(w, [pc |-> "create", user |-> u, role |-> r])
  /\ UNCHANGED <<organization, membership, followRows, lastPk, asked>>

\* unique_together: the second of two requests for one user ends in an error.
CreateMembership(w) ==
  /\ handling[w].pc = "create"
  /\ LET u == handling[w].user IN
     \/ /\ ~IsMember(u)
        /\ lastPk < MaxMembershipPk
        /\ lastPk' = lastPk + 1
        /\ membership' = [membership EXCEPT ![u] = [pk |-> lastPk', roles |-> {}]]
        /\ handling' = [handling EXCEPT ![w] = [pc |-> "grant", user |-> u,
                                                role |-> handling[w].role, pk |-> lastPk']]
        /\ asked' = asked \cup {<<lastPk', handling[w].role>>}
     \/ IsMember(u) /\ Finish(w) /\ UNCHANGED <<membership, lastPk, asked>>
  /\ UNCHANGED <<organization, followRows>>

\* (A faulty variant: the role goes to whatever membership the user has by now.)
GrantToWhoeverIsThere(w) ==
  /\ handling[w].pc = "grant"
  /\ LET u == handling[w].user IN
     membership' = IF IsMember(u)
                   THEN [membership EXCEPT ![u].roles = @ \cup {handling[w].role}]
                   ELSE membership
  /\ Finish(w)
  /\ UNCHANGED <<organization, followRows, lastPk, asked>>

\* The role is a row of its own with a foreign key: without the membership, an error.
GrantFirstRole(w) ==
  /\ handling[w].pc = "grant"
  /\ LET u == handling[w].user IN
     membership' = IF membership[u].pk = handling[w].pk
                   THEN [membership EXCEPT ![u].roles = @ \cup {handling[w].role}]
                   ELSE membership
  /\ Finish(w)
  /\ UNCHANGED <<organization, followRows, lastPk, asked>>

\* The membership is read with the organization whose owner save() will look at.
BeginManageRoles(w, by, u, what, roles) ==
  /\ MayManage(by)
  /\ IsMember(u)
  /\ Start(w, [pc |-> "roles", user |-> u, pk |-> membership[u].pk, what |-> what,
               todo |-> roles, owner |-> organization.owner])
  /\ asked' = IF what = "ADD" THEN asked \cup {<<membership[u].pk, r>> : r \in roles} ELSE asked
  /\ UNCHANGED <<organization, membership, followRows, lastPk>>

ChangeRole(w) ==
  /\ handling[w].pc = "roles"
  /\ \E r \in handling[w].todo :
       LET u    == handling[w].user
           here == membership[u].pk = handling[w].pk
       IN /\ membership' =
               IF ~here THEN membership
               ELSE IF handling[w].what = "ADD"
               THEN [membership EXCEPT ![u].roles = @ \cup {r}]
               ELSE [membership EXCEPT ![u].roles = @ \ {r}]
          /\ IF ~here /\ handling[w].what = "ADD" THEN Finish(w)
             ELSE handling' = [handling EXCEPT ![w].todo = @ \ {r}]
  /\ UNCHANGED <<organization, followRows, lastPk, asked>>

\* membership.save(): refused to the owner, and an INSERT when the row has gone.
SaveMembership(w) ==
  /\ handling[w].pc = "roles" /\ handling[w].todo = {}
  /\ LET u == handling[w].user IN
     membership' = IF ~IsMember(u) /\ handling[w].owner # u
                   THEN [membership EXCEPT ![u] = [pk |-> handling[w].pk, roles |-> {}]]
                   ELSE membership
  /\ Finish(w)
  /\ UNCHANGED <<organization, followRows, lastPk, asked>>

\* OrganizationMembershipViewSet.destroy: the owner only; the row and its roles go.
RemoveMember(by, u) ==
  /\ IsOwner(by) /\ organization.active
  /\ IsMember(u)
  /\ membership' = [membership EXCEPT ![u] = NoMembership]
  /\ UNCHANGED <<organization, followRows, handling, lastPk, asked>>

------------------------------------------------------------------------------
(* Followers                                                                *)

BeginFollow(w, u) ==
  /\ Live /\ organization.active
  /\ followRows[u] = 0
  /\ Start(w, [pc |-> "follow", user |-> u])
  /\ UNCHANGED <<organization, membership, followRows, lastPk, asked>>

CreateFollow(w) ==
  /\ handling[w].pc = "follow"
  /\ followRows' = [followRows EXCEPT ![handling[w].user] = @ + 1]
  /\ Finish(w)
  /\ UNCHANGED <<organization, membership, lastPk, asked>>

\* objects.get() raises for none and for several, and both answer NotFound.
Unfollow(u) ==
  /\ Live /\ organization.active
  /\ followRows[u] = 1
  /\ followRows' = [followRows EXCEPT ![u] = 0]
  /\ UNCHANGED <<organization, membership, handling, lastPk, asked>>

------------------------------------------------------------------------------
OrgNext ==
  \/ \E u \in User, active \in BOOLEAN : CreateOrganization(u, active)
  \/ \E u \in User : Unfollow(u)
  \/ \E by \in User, u \in User : RemoveMember(by, u)
  \/ \E w \in WebWorker :
       \/ SaveOrganization(w)
       \/ CreateMembership(w)
       \/ GrantFirstRole(w)
       \/ ChangeRole(w)
       \/ SaveMembership(w)
       \/ CreateFollow(w)
       \/ \E u \in User : BeginFollow(w, u) \/ BeginDestroy(w, u)
       \/ \E u \in User, active \in BOOLEAN : BeginUpdate(w, u, active)
       \/ \E by \in User, u \in User, r \in OrganizationRole : BeginAddMember(w, by, u, r)
       \/ \E by \in User, u \in User, what \in {"ADD", "REMOVE"},
             roles \in SUBSET OrganizationRole : BeginManageRoles(w, by, u, what, roles)

OrgSpec == OrgInit /\ [][OrgNext]_orgVars

------------------------------------------------------------------------------
\* Whoever has access to the organization was given roles enough by requests about the very
\* membership he has: one still under way when a member is removed and added again gives
\* the new membership nothing.
RolesWereAsked ==
  \A u \in User, weight \in {1, 2} :
    HasAccess(u, weight) =>
      WeightOf({r \in OrganizationRole : <<membership[u].pk, r>> \in asked}) >= weight

\* OrganizationMember.save raises "Vous \^etes le propri\'etaire de cette organisation."
\* for the owner: nobody is a member of what he owns.
OwnerIsNoMember == \A u \in User : ~(IsOwner(u) /\ IsMember(u))
==============================================================================

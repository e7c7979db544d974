--------------------------------- MODULE Access ---------------------------------
(* Who may do what: the permission classes of the organizations' and super-   *)
(* sellers' views, the tables that give each action of a view its classes,    *)
(* and the way of a request through them.                                     *)
(*                                                                            *)
(* A request reads the organization and its owner before anything else, then  *)
(* the user; the classes look at what was read or ask the database, and are   *)
(* asked once more when the object of the request has been found.  What they  *)
(* depend on may change meanwhile.                                            *)
(*                                                                            *)
(* A table gives an action its alternatives: a set of sets of classes, since  *)
(* the operands of OR are alternatives and those of AND and of a list add up. *)
EXTENDS Integers, FiniteSets

CONSTANTS
  Organization,
  Own,          \* the organizations of which the user is the owner
  SuperSellers, \* the organizations of that type, with a profile
  Asks,         \* <<view, action>>: what the user asks for
  MaxChanges    \* bound

ASSUME AccessAssumption == Own \subseteq Organization /\ SuperSellers \subseteq Organization

VARIABLES
  standing,   \* standing[o]: whether o is active, its owner verified, a subscription active, its KYC verified
  weight,     \* weight[o]: sum of the weights of the user's roles there; NoMembership
  account,    \* whether he is staff, whether he has an app role, what his app role grants
  request,    \* the request under way: what it is for, and what it has read
  changes

accessVars == <<standing, weight, account, request, changes>>

NoMembership == 0 - 1
NoRequest    == [pc |-> "none"]

--------------------------------------------------------------------------------
(* The tables                                                                 *)

LoggedIn == {"authenticated"}
Anyone   == {{}}
Self     == {LoggedIn}
Only(classes) == {LoggedIn \cup classes}
AdminOnly == Only({"admin"})
Platform  == {LoggedIn \cup {"admin"}, LoggedIn \cup {"app"}}
OrPlatform(classes) == Only(classes) \cup Platform
WithPassword(table) == {classes \cup {"password"} : classes \in table}

Managers(classes) == OrPlatform({"subscription", "manager"} \cup classes)
\* (IsOrganizationOwner | IsOrganizationEventManager)
Destroyers(classes) ==
  OrPlatform({"subscription", "owner"} \cup classes) \cup Only({"subscription", "manager"} \cup classes)

EventTable ==
  [create_private |-> OrPlatform({"verified", "manager"}),
   partial_update |-> Managers({"creator", "password"}), get_participants |-> Managers({"creator"}),
   deactivate |-> Managers({"creator", "password"}), activate |-> Managers({"creator", "password"}),
   get_events_by_organization |-> OrPlatform({"member"}),
   destroy |-> Destroyers({"password"}), update_participant_limit |-> Destroyers({"password"})]

ImageTable ==
  [create |-> Managers({}), update |-> Managers({"creator"}), destroy |-> Destroyers({"creator"})]

CategoryTable ==
  [create |-> Managers({}), update |-> Managers({"creator"}),
   add_features |-> Managers({"creator"}), destroy |-> Destroyers({"creator"})]

FeatureTable ==
  [create |-> Managers({}), update |-> Managers({"creator"}), destroy |-> Destroyers({"creator"})]

\* The row of "create" is commented out.
TicketTable == [update |-> Managers({"creator"}), destroy |-> Destroyers({"creator"})]

HighlightingTable ==
  [create |-> Managers({}), list |-> OrPlatform({"subscription", "member"}),
   destroy |-> Destroyers({"creator"})]

\* No parent here: the organization is the object.
OrganizationTable ==
  [create |-> Self, create_light |-> Self, list_by_user |-> Self, possible_roles |-> Anyone,
   retrieve |-> OrPlatform({"owner"}), members_list |-> OrPlatform({"owner"}),
   update |-> OrPlatform({"password", "owner"}), add_member |-> OrPlatform({"password", "owner"}),
   manage_membership_roles |-> OrPlatform({"password", "owner"}),
   destroy |-> OrPlatform({"password", "owner"})]

MembershipTable   == [destroy |-> Only({"password", "owner"})]
WithdrawTable     == [create |-> WithPassword(OrPlatform({"owner"})),
                      list   |-> WithPassword(OrPlatform({"owner"}))]
StatsTable        == [global_stats |-> Only({"manager"}), by_events |-> Only({"manager"})]
ScanTable         == [post |-> OrPlatform({"member"})]
SubscriptionTable ==
  [create |-> Only({"owner"}), retrieve |-> Only({"owner"}), list |-> Only({"owner"}),
   destroy |-> Only({"owner"}), get_active_subscription |-> Only({"member"})]

Paying(classes) == Only({"subscription", "owner"} \cup classes)

CouponTable ==
  [create |-> Paying({}), retrieve |-> Anyone, list |-> Paying({}), update |-> Paying({}),
   destroy |-> Paying({})]

DiscountTable ==
  [create |-> Paying({}), list |-> Paying({}), update |-> Paying({"creator"}),
   usages |-> Paying({"creator"}), destroy |-> Paying({"creator"})]

ConditionTable ==
  [create |-> Paying({}), update |-> Paying({}), destroy |-> Paying({"password"})]

RoomTable ==
  [create |-> Only({"member"}), update |-> Only({"member"}), partial_update |-> Only({"member"}),
   destroy |-> Only({"manager"}), add_access_criteria |-> Only({"manager"})]

CriteriaTable ==
  [list |-> Self, create |-> Only({"manager"}), update |-> Only({"manager"}),
   destroy |-> Only({"manager"})]

\* The platform's own.
EventReadTable    == [retrieve |-> Anyone, list |-> Anyone, get_events_by_type |-> Anyone,
                      get_events_by_location |-> Anyone, get_events_by_date |-> Anyone,
                      get_events_by_date_range |-> Anyone, get_highlighted_events |-> Anyone]
ImageReadTable    == [retrieve |-> Anyone, list |-> Platform, get_event_image_by_event |-> Anyone]
CategoryReadTable == [list |-> Platform, list_by_event |-> Anyone]
FeatureReadTable  == [list |-> Platform, list_by_ticket_category |-> Anyone]
TicketReadTable   == [retrieve |-> Anyone, list |-> Platform, list_by_event |-> Anyone,
                      list_by_ticket_category |-> Anyone]
HighlightingTypeTable ==
  [create |-> Platform, retrieve |-> Anyone, list |-> Anyone, update |-> Platform,
   destroy |-> Platform]
EventTypeTable ==
  [retrieve |-> Anyone, list |-> Anyone, update |-> Platform, destroy |-> Platform]
SubscriptionTypeTable ==
  [create |-> Platform, list |-> Self, update |-> Platform, destroy |-> Platform]
AnySubscriptionTable ==
  [create |-> Platform, retrieve |-> Platform, list |-> Platform, update |-> Platform,
   destroy |-> Platform]
AnyCouponTable ==
  [create |-> Platform, retrieve |-> Anyone, list |-> Platform, update |-> Platform,
   check_availability |-> Anyone, destroy |-> Platform]
AnyDiscountTable ==
  [create |-> Platform, retrieve |-> Anyone, list |-> Platform, update |-> Platform,
   usages |-> Platform, destroy |-> Platform]
AnyConditionTable == [create |-> Platform, update |-> Platform, destroy |-> Platform]
OrderTable ==
  [create |-> Anyone, update |-> Anyone, retrieve |-> Anyone, list |-> Platform,
   admin_create |-> Platform, list_by_user |-> Self, pseudo_anonymous |-> Anyone,
   start |-> Platform, destroy |-> OrPlatform({"his"})]
ETicketTable ==
  [retrieve |-> Self, list |-> Platform, list_by_user |-> Self, download |-> Self,
   destroy |-> OrPlatform({"his"})]
TransactionTable ==
  [payments_callbacks |-> Anyone, withdraws_callbacks |-> Anyone, possible_withdraw_ways |-> Anyone,
   retrieve |-> OrPlatform({"his"}), list_by_user |-> Self, list |-> Platform,
   destroy |-> OrPlatform({"his"})]
AppRoleTable ==
  [create |-> Platform, retrieve |-> Platform, list |-> Platform, update |-> Platform]
AppPermissionTable == [list |-> Platform, update |-> Platform]
UserTable          == [set_role |-> Platform]
VariableTable ==
  [create |-> Platform, list_by_variable |-> Platform, update |-> Platform, destroy |-> Platform]
NotificationTable ==
  [create |-> Platform, list |-> Platform, for_user |-> Self, set_as_read |-> Self]
PointTable ==
  [create |-> Self, retrieve |-> Only({"his"}), list_by_user |-> Self, list |-> AdminOnly,
   destroy |-> Only({"his"}) \cup AdminOnly]
ZoneTable ==
  [create |-> Self, retrieve |-> Only({"his"}), list_by_user |-> Self, list |-> AdminOnly,
   destroy |-> Only({"his"}) \cup AdminOnly]
SponsorTable ==
  [create |-> AdminOnly, retrieve |-> Anyone, list |-> Anyone, destroy |-> AdminOnly]
CountryTable == [create |-> Self, retrieve |-> Anyone, list |-> Anyone, destroy |-> AdminOnly]
NewsTable ==
  [create |-> AdminOnly, update |-> AdminOnly, partial_update |-> AdminOnly,
   destroy |-> AdminOnly, list |-> Anyone, retrieve |-> Anyone]

\* Views under an organization, which is their parent.
NestedTables ==
  [event |-> EventTable, image |-> ImageTable, category |-> CategoryTable,
   feature |-> FeatureTable, ticket |-> TicketTable, highlighting |-> HighlightingTable,
   membership |-> MembershipTable, withdraw |-> WithdrawTable, stats |-> StatsTable,
   scan |-> ScanTable, subscription |-> SubscriptionTable, coupon |-> CouponTable,
   discount |-> DiscountTable, condition |-> ConditionTable, room |-> RoomTable,
   criteria |-> CriteriaTable]

PlatformTables ==
  [eventRead |-> EventReadTable, imageRead |-> ImageReadTable, categoryRead |-> CategoryReadTable,
   featureRead |-> FeatureReadTable, ticketRead |-> TicketReadTable,
   highlightingType |-> HighlightingTypeTable, eventType |-> EventTypeTable,
   subscriptionType |-> SubscriptionTypeTable, anySubscription |-> AnySubscriptionTable,
   anyCoupon |-> AnyCouponTable, anyDiscount |-> AnyDiscountTable,
   anyCondition |-> AnyConditionTable, order |-> OrderTable, eTicket |-> ETicketTable,
   transaction |-> TransactionTable, appRole |-> AppRoleTable,
   appPermission |-> AppPermissionTable, user |-> UserTable, variable |-> VariableTable,
   notification |-> NotificationTable, point |-> PointTable, zone |-> ZoneTable,
   sponsor |-> SponsorTable, country |-> CountryTable, news |-> NewsTable]

\* Views that take the organization from the body of the request, or are about one.
OtherTables ==
  [organization |-> OrganizationTable,
   followers |-> [retrieve |-> Only({"coordinator"})],
   sellers |-> [list |-> Only({"sellerDesk"}), retrieve |-> Only({"sellerDesk"}),
                destroy |-> Only({"sellerDesk"}), update_status |-> Only({"sellerDesk"}),
                allocate_stock |-> Only({"sellerDesk"})],
   reports |-> [get |-> Only({"sellerDesk"})],
   kyc |-> [post |-> Only({"superSeller"})]]

Tables ==
  [view \in DOMAIN NestedTables \cup DOMAIN PlatformTables \cup DOMAIN OtherTables |->
     IF view \in DOMAIN NestedTables THEN NestedTables[view]
     ELSE IF view \in DOMAIN PlatformTables THEN PlatformTables[view] ELSE OtherTables[view]]

Nested(view) == view \in DOMAIN NestedTables

\* get_permissions: an action that its table does not name has the view's default.
GetPermissions(view, action) ==
  IF action \in DOMAIN Tables[view] THEN Tables[view][action] ELSE Self

\* The actions of these views that look for their object by get_object.  The sellers' view
\* takes it from its queryset by a shortcut that asks no class.
FindsObject(view, action) ==
  /\ view # "sellers"
  /\ \/ action \in {"update", "partial_update", "add_features", "deactivate", "activate",
                    "update_participant_limit", "add_member", "manage_membership_roles",
                    "add_access_criteria", "destroy", "start", "download", "set_role"}
     \/ action = "retrieve" /\ view # "criteria"

--------------------------------------------------------------------------------
(* The classes                                                                *)

\* (A faulty variant: a membership is enough.)
HasAccessByMembership(o, role) == weight[o] # NoMembership

\* check_organization_access: one membership's weights, taken together.
HasAccess(o, role) == weight[o] >= (IF role = "COORDINATOR" THEN 2 ELSE 1)

\* get_user_role_for_organization: a membership without a role makes a member.
RoleOf(o) ==
  CASE o \in Own -> "OWNER"
    [] o \notin Own /\ weight[o] >= 2 -> "COORDINATOR"
    [] o \notin Own /\ weight[o] \in {0, 1} -> "MEMBER"
    [] OTHER -> "NONE"

IsOwner(o)       == o \in Own
IsCoordinator(o) == HasAccess(o, "COORDINATOR")
\* (A faulty variant: the owner is forgotten.)
IsManagerByRole(o) == HasAccess(o, "COORDINATOR")
IsManager(o)     == o \in Own \/ HasAccess(o, "COORDINATOR")
IsMember(o)      == o \in Own \/ HasAccess(o, "MEMBER")

IsSuperSellerVerified(o) == o \in SuperSellers /\ standing[o].kyc

\* IsVerifiedSuperSellerAndMember: the look at the KYC is commented out, but for an object.
OfSellerDesk(o)       == RoleOf(o) \in {"OWNER", "MEMBER", "COORDINATOR"}
OfSellerDeskFor(o)    == IsSuperSellerVerified(o) /\ OfSellerDesk(o)
\* IsSuperSellerMember
OfSuperSeller(o)      == IsSuperSellerVerified(o) /\ RoleOf(o) \in {"OWNER", "MEMBER", "COORDINATOR"}

\* HasAppAdminPermissionFor: the user was read before, what his role grants is read now.
HasAppPermission(r) == r.user.role /\ account.granted

\* has_permission of the classes about an organization, of which those of a view without
\* parent say nothing before the object is found.
Has(class, r) ==
  CASE class \in {"authenticated", "creator", "his"} -> TRUE
    [] class = "password" -> r.password
    [] class = "admin" -> r.user.staff
    [] class = "app" -> HasAppPermission(r)
    [] class = "sellerDesk" -> OfSellerDesk(r.org)
    [] class = "superSeller" -> OfSuperSeller(r.org)
    [] class = "verified" -> Nested(r.view) => r.read.verified
    [] class = "subscription" -> Nested(r.view) => standing[r.org].subscribed
    [] class = "owner" -> Nested(r.view) => IsOwner(r.org)
    [] class = "coordinator" -> Nested(r.view) => IsCoordinator(r.org)
    [] class = "manager" -> Nested(r.view) => IsManager(r.org)
    [] class = "member" -> Nested(r.view) => IsMember(r.org)

\* has_object_permission; r.of is the organization of the object.
HasFor(class, r) ==
  CASE class = "creator" -> r.of = r.org
    [] class = "his" -> r.mine
    [] class = "sellerDesk" -> OfSellerDeskFor(r.of)
    [] class = "owner" -> Nested(r.view) \/ IsOwner(r.org)
    [] class = "coordinator" -> Nested(r.view) \/ IsCoordinator(r.org)
    [] OTHER -> TRUE

--------------------------------------------------------------------------------
(* The way of a request                                                       *)

\* OrganizationAuthentication.process_view: organization and owner, by one query.
Begin(view, action, o, of, password, mine) ==
  /\ request = NoRequest
  /\ request' = [pc |-> "begun", view |-> view, action |-> action, org |-> o, of |-> of,
                 password |-> password, mine |-> mine, read |-> standing[o],
                 user |-> [staff |-> FALSE, role |-> FALSE], disturbed |-> FALSE]
  /\ UNCHANGED <<standing, weight, account, changes>>

\* CheckParentPermissionMixin.check_permissions: an organization that is active, with a
\* verified owner.
ParentIsFine(r) == Nested(r.view) => r.read.active /\ r.read.verified

\* (A faulty variant: the tables are not looked at.)
CheckParentOnly ==
  /\ request.pc = "begun"
  /\ request' = IF ParentIsFine(request) THEN [request EXCEPT !.pc = "acting"] ELSE NoRequest
  /\ UNCHANGED <<standing, weight, account, changes>>

\* check_permissions, once the user is known.
CheckPermissions ==
  /\ request.pc = "begun"
  /\ LET r == [request EXCEPT !.user = [staff |-> account.staff, role |-> account.role]]
         allowed == /\ ParentIsFine(r)
                    /\ \E classes \in GetPermissions(r.view, r.action) :
                         \A c \in classes : Has(c, r)
     IN request' = CASE ~allowed -> NoRequest
                     [] allowed /\ FindsObject(r.view, r.action) -> [r EXCEPT !.pc = "checked"]
                     [] OTHER -> [r EXCEPT !.pc = "acting"]
  /\ UNCHANGED <<standing, weight, account, changes>>

\* get_object.  The operands of an OR are asked again, those of a list only for the object.
GetObject ==
  /\ request.pc = "checked"
  /\ LET permission == GetPermissions(request.view, request.action)
         again == Cardinality(permission) > 1
         allowed == \E classes \in permission : \A c \in classes :
                      HasFor(c, request) /\ (again => Has(c, request))
     IN request' = IF allowed THEN [request EXCEPT !.pc = "acting"] ELSE NoRequest
  /\ UNCHANGED <<standing, weight, account, changes>>

Act ==
  /\ request.pc = "acting"
  /\ request' = NoRequest
  /\ UNCHANGED <<standing, weight, account, changes>>

\* Meanwhile: what a request may have read is changed by somebody else.
Disturbed == IF request = NoRequest THEN request ELSE [request EXCEPT !.disturbed = TRUE]

Change ==
  /\ changes < MaxChanges /\ changes' = changes + 1
  /\ \/ /\ \E o \in Organization, f \in {"active", "verified", "subscribed", "kyc"} :
             standing' = [standing EXCEPT ![o][f] = ~@]
        /\ UNCHANGED <<weight, account>>
     \/ /\ \E o \in Organization \ Own, w \in {NoMembership, 0, 1, 2, 3} :
             w # weight[o] /\ weight' = [weight EXCEPT ![o] = w]
        /\ UNCHANGED <<standing, account>>
     \/ /\ \E f \in {"staff", "role", "granted"} : account' = [account EXCEPT ![f] = ~@]
        /\ UNCHANGED <<standing, weight>>
  /\ request' = Disturbed

AccessInit ==
  /\ standing = [o \in Organization |-> [active |-> TRUE, verified |-> TRUE, subscribed |-> TRUE,
                                         kyc |-> TRUE]]
  /\ \E w \in {NoMembership, 0, 1, 2} : weight = [o \in Organization |-> IF o \in Own
                                                     THEN NoMembership ELSE w]
  /\ \E staff, role \in BOOLEAN : account = [staff |-> staff, role |-> role, granted |-> role]
  /\ request = NoRequest /\ changes = 0

AccessNext ==
  \/ \E ask \in Asks, o, of \in Organization, password, mine \in BOOLEAN :
       /\ (\A classes \in GetPermissions(ask[1], ask[2]) : "password" \notin classes) => password
       /\ (\A classes \in GetPermissions(ask[1], ask[2]) : "his" \notin classes) => mine
       /\ (~FindsObject(ask[1], ask[2]) \/ ~Nested(ask[1])) => of = o
       /\ Begin(ask[1], ask[2], o, of, password, mine)
  \/ CheckPermissions \/ GetObject \/ Act \/ Change

AccessSpec == AccessInit /\ [][AccessNext]_accessVars

--------------------------------------------------------------------------------
(* Properties                                                                 *)

IsPlatform == account.staff \/ (account.role /\ account.granted)

\* What is done in an organization's name is done by its owner, by a member who has a role
\* there (a coordinator's, where things are managed), or by the platform's people: a request
\* that nothing disturbed finds it so when it acts, so that a role, a subscription or an
\* organization that is lost is lost for every request that begins later.  The actions that
\* their tables leave out are for everybody, and "destroy" asks for no creator.
SerialActsAreAllowed ==
  request.pc = "acting" /\ ~request.disturbed => LET r == request IN
    /\ Nested(r.view) => standing[r.org].active /\ standing[r.org].verified
    /\ Nested(r.view) /\ r.action \in DOMAIN Tables[r.view]
         /\ GetPermissions(r.view, r.action) \notin {Self, Anyone} /\ ~IsPlatform =>
       /\ r.org \in Own \/ weight[r.org] >= 1
       /\ r.view \in {"event", "image", "category", "feature", "ticket", "highlighting"}
            /\ r.action \in {"create", "update", "destroy", "partial_update", "add_features",
                             "create_private", "activate", "deactivate"} =>
           r.org \in Own \/ weight[r.org] >= 2
       /\ r.view \in {"withdraw", "membership", "coupon", "discount", "condition"} => r.org \in Own
    /\ r.view \in {"sellers", "reports", "kyc"} /\ r.action \in DOMAIN Tables[r.view] =>
         r.org \in Own \/ weight[r.org] # NoMembership
    /\ r.view = "kyc" /\ r.action \in DOMAIN Tables[r.view] => standing[r.org].kyc

\* A request that is about to ask, for the user in organization o.
Asking(view, action, o) ==
  [pc |-> "begun", view |-> view, action |-> action, org |-> o, of |-> o, password |-> TRUE,
   mine |-> TRUE, read |-> standing[o], user |-> [staff |-> account.staff, role |-> account.role],
   disturbed |-> FALSE]

Allowed(view, action, o) ==
  LET r == Asking(view, action, o) IN
  /\ ParentIsFine(r)
  /\ \E classes \in GetPermissions(view, action) : \A c \in classes :
       Has(c, r) /\ (FindsObject(view, action) => HasFor(c, r))

\* An owner may do in his organization whatever he may do in another of the same standing
\* where he is a member or a coordinator, whatever the view and whatever has changed.
\* (The list of the followers is the one exception: it asks for the coordinator's role.)
OwnersMayMost ==
  request = NoRequest /\ changes > 0 =>
    \A mine \in Own, other \in Organization \ Own :
      standing[mine] = standing[other] /\ (mine \in SuperSellers \/ other \notin SuperSellers) =>
        \A view \in DOMAIN Tables : view # "followers" =>
          \A action \in DOMAIN Tables[view] :
            Allowed(view, action, other) => Allowed(view, action, mine)

AccessIsAsGranted == SerialActsAreAllowed /\ OwnersMayMost
================================================================================

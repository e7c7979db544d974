----------------------------- MODULE SellersProofs -----------------------------
(* What is proved of the people who sell for a super-seller, of the alerts about *)
(* their stock, of the mails that deliver e-tickets, of commission offers, of who *)
(* may do what, of the wallet a seller is shown, and of the figures taken of     *)
(* what is sold.                                                                 *)
EXTENDS SellerNetwork, StockAlerts, Delivery, Commission, Access, WalletDesk, SalesFigures,
        SumLemmas, FiniteSetTheorems, SequenceTheorems, TLAPS

--------------------------------------------------------------------------------
(* That who acts in an organization's name was allowed to when he asked, and    *)
(* that an owner may do whatever a member may, for any organizations, actions   *)
(* that are asked for and changes of roles.                                     *)
(*                                                                              *)
(* A request that nothing disturbed holds the standing and the user there are,  *)
(* and an alternative of its action's permission still grants it (Granted).     *)
(* What the alternatives of the tables have in common are facts about the       *)
(* tables (OnlyKnown, AsksFor), and that an owner has every class about his     *)
(* organization but the coordinator's is one about the classes (OwnerHasClass). *)

Standings == [active : BOOLEAN, verified : BOOLEAN, subscribed : BOOLEAN, kyc : BOOLEAN]
Users     == [staff : BOOLEAN, role : BOOLEAN]

Requests == [pc : {"begun", "checked", "acting"}, view : {ask[1] : ask \in Asks},
             action : {ask[2] : ask \in Asks}, org : Organization, of : Organization,
             password : BOOLEAN, mine : BOOLEAN, read : Standings, user : Users,
             disturbed : BOOLEAN]

AccessTypes ==
  /\ standing \in [Organization -> Standings]
  /\ weight \in [Organization -> Int]
  /\ account \in [staff : BOOLEAN, role : BOOLEAN, granted : BOOLEAN]
  /\ request \in {NoRequest} \cup Requests

\* Some alternative grants the request what it asks for.
Granted(r) ==
  /\ ParentIsFine(r)
  /\ \E classes \in GetPermissions(r.view, r.action) : \A c \in classes : Has(c, r)

RequestOK ==
  request \in Requests /\ ~request.disturbed =>
    /\ request.read = standing[request.org]
    /\ request.pc # "begun" =>
         /\ request.user = [staff |-> account.staff, role |-> account.role]
         /\ Granted(request)

AccessInv == AccessTypes /\ RequestOK

\* What the tables' alternatives have in common.

Roles   == {"owner", "manager", "member"}
Classes ==
  Roles \cup {"authenticated", "password", "admin", "app", "creator", "his", "sellerDesk",
             "superSeller", "verified", "subscription"}

Managing ==
  {"create", "update", "destroy", "partial_update", "add_features", "create_private", "activate",
   "deactivate"}
ManagedViews == {"event", "image", "category", "feature", "ticket", "highlighting"}
OwnersViews  == {"withdraw", "membership", "coupon", "discount", "condition"}

\* Every alternative asks for one of the roles, or for one of the platform's people.
AsksFor(permission, roles) ==
  \A classes \in permission : "admin" \in classes \/ "app" \in classes \/ classes \cap roles # {}

OnlyKnown(table) == \A a \in DOMAIN table : \A classes \in table[a] : classes \subseteq Classes

AsksRoles(table, roles) ==
  \A a \in DOMAIN table : table[a] \notin {Self, Anyone} => AsksFor(table[a], roles)

\* The classes of the views under an organization are known ones.
LEMMA NestedKnown == \A view \in DOMAIN NestedTables : OnlyKnown(NestedTables[view])
<1> USE DEF OnlyKnown, Managers, Destroyers, OrPlatform, Only, Platform, Self, Anyone,
            WithPassword, Paying, LoggedIn, Classes, Roles
<1>1. OnlyKnown(EventTable)
  BY DEF EventTable
<1>2. OnlyKnown(ImageTable)
  BY DEF ImageTable
<1>3. OnlyKnown(CategoryTable)
  BY DEF CategoryTable
<1>4. OnlyKnown(FeatureTable)
  BY DEF FeatureTable
<1>5. OnlyKnown(TicketTable)
  BY DEF TicketTable
<1>6. OnlyKnown(HighlightingTable)
  BY DEF HighlightingTable
<1>7. OnlyKnown(MembershipTable)
  BY DEF MembershipTable
<1>8. OnlyKnown(WithdrawTable)
  BY DEF WithdrawTable
<1>9. OnlyKnown(StatsTable)
  BY DEF StatsTable
<1>10. OnlyKnown(ScanTable)
  BY DEF ScanTable
<1>11. OnlyKnown(SubscriptionTable)
  BY DEF SubscriptionTable
<1>12. OnlyKnown(CouponTable)
  BY DEF CouponTable
<1>13. OnlyKnown(DiscountTable)
  BY DEF DiscountTable
<1>14. OnlyKnown(ConditionTable)
  BY DEF ConditionTable
<1>15. OnlyKnown(RoomTable)
  BY DEF RoomTable
<1>16. OnlyKnown(CriteriaTable)
  BY DEF CriteriaTable
<1> HIDE DEF OnlyKnown, Managers, Destroyers, OrPlatform, Only, Platform, Self, Anyone,
             WithPassword, Paying, LoggedIn, Classes, Roles
<1> QED BY <1>1, <1>2, <1>3, <1>4, <1>5, <1>6, <1>7, <1>8, <1>9, <1>10, <1>11, <1>12, <1>13,
           <1>14, <1>15, <1>16 DEF NestedTables

\* Every permission of those views asks for a role, unless it is for everybody.
LEMMA NestedAskRoles == \A view \in DOMAIN NestedTables : AsksRoles(NestedTables[view], Roles)
<1> USE DEF AsksRoles, AsksFor, Managers, Destroyers, OrPlatform, Only, Platform, Self, Anyone,
            WithPassword, Paying, LoggedIn, Roles
<1>1. AsksRoles(EventTable, Roles)
  BY DEF EventTable
<1>2. AsksRoles(ImageTable, Roles)
  BY DEF ImageTable
<1>3. AsksRoles(CategoryTable, Roles)
  BY DEF CategoryTable
<1>4. AsksRoles(FeatureTable, Roles)
  BY DEF FeatureTable
<1>5. AsksRoles(TicketTable, Roles)
  BY DEF TicketTable
<1>6. AsksRoles(HighlightingTable, Roles)
  BY DEF HighlightingTable
<1>7. AsksRoles(MembershipTable, Roles)
  BY DEF MembershipTable
<1>8. AsksRoles(WithdrawTable, Roles)
  BY DEF WithdrawTable
<1>9. AsksRoles(StatsTable, Roles)
  BY DEF StatsTable
<1>10. AsksRoles(ScanTable, Roles)
  BY DEF ScanTable
<1>11. AsksRoles(SubscriptionTable, Roles)
  BY DEF SubscriptionTable
<1>12. AsksRoles(CouponTable, Roles)
  BY DEF CouponTable
<1>13. AsksRoles(DiscountTable, Roles)
  BY DEF DiscountTable
<1>14. AsksRoles(ConditionTable, Roles)
  BY DEF ConditionTable
<1>15. AsksRoles(RoomTable, Roles)
  BY DEF RoomTable
<1>16. AsksRoles(CriteriaTable, Roles)
  BY DEF CriteriaTable
<1> HIDE DEF AsksRoles, AsksFor, Managers, Destroyers, OrPlatform, Only, Platform, Self, Anyone,
             WithPassword, Paying, LoggedIn, Roles
<1> QED BY <1>1, <1>2, <1>3, <1>4, <1>5, <1>6, <1>7, <1>8, <1>9, <1>10, <1>11, <1>12, <1>13,
           <1>14, <1>15, <1>16 DEF NestedTables

\* Money and members are the owner's.
LEMMA OwnersViewsAskOwner ==
  \A view \in OwnersViews : view \in DOMAIN NestedTables /\ AsksRoles(NestedTables[view], {"owner"})
<1> USE DEF AsksRoles, AsksFor, Managers, Destroyers, OrPlatform, Only, Platform, Self, Anyone,
            WithPassword, Paying, LoggedIn
<1>1. AsksRoles(WithdrawTable, {"owner"})
  BY DEF WithdrawTable
<1>2. AsksRoles(MembershipTable, {"owner"})
  BY DEF MembershipTable
<1>3. AsksRoles(CouponTable, {"owner"})
  BY DEF CouponTable
<1>4. AsksRoles(DiscountTable, {"owner"})
  BY DEF DiscountTable
<1>5. AsksRoles(ConditionTable, {"owner"})
  BY DEF ConditionTable
<1> HIDE DEF AsksRoles, AsksFor, Managers, Destroyers, OrPlatform, Only, Platform, Self, Anyone,
             WithPassword, Paying, LoggedIn
<1> QED BY <1>1, <1>2, <1>3, <1>4, <1>5 DEF NestedTables, OwnersViews

\* Events and what belongs to them are managed.
LEMMA ManagedViewsAskManager ==
  \A view \in ManagedViews :
    /\ view \in DOMAIN NestedTables
    /\ \A a \in DOMAIN NestedTables[view] \cap Managing :
         AsksFor(NestedTables[view][a], {"owner", "manager"})
<1> DEFINE AsksManager(table) ==
      \A a \in DOMAIN table \cap Managing : AsksFor(table[a], {"owner", "manager"})
<1> USE DEF AsksFor, Managing, Managers, Destroyers, OrPlatform, Only, Platform, Self, Anyone,
            WithPassword, Paying, LoggedIn
<1>1. AsksManager(EventTable)
  BY DEF EventTable
<1>2. AsksManager(ImageTable)
  BY DEF ImageTable
<1>3. AsksManager(CategoryTable)
  BY DEF CategoryTable
<1>4. AsksManager(FeatureTable)
  BY DEF FeatureTable
<1>5. AsksManager(TicketTable)
  BY DEF TicketTable
<1>6. AsksManager(HighlightingTable)
  BY DEF HighlightingTable
<1> HIDE DEF AsksFor, Managing, Managers, Destroyers, OrPlatform, Only, Platform, Self, Anyone,
             WithPassword, Paying, LoggedIn
<1> HIDE DEF AsksManager
<1>7. \A view \in ManagedViews : view \in DOMAIN NestedTables /\ AsksManager(NestedTables[view])
  BY <1>1, <1>2, <1>3, <1>4, <1>5, <1>6 DEF NestedTables, ManagedViews
<1> QED BY <1>7 DEF AsksManager

\* So are those of the platform's own views.
LEMMA PlatformKnown == \A view \in DOMAIN PlatformTables : OnlyKnown(PlatformTables[view])
<1> USE DEF OnlyKnown, OrPlatform, Only, Platform, Self, Anyone, AdminOnly, LoggedIn, Classes,
            Roles
<1>1. OnlyKnown(EventReadTable)
  BY DEF EventReadTable
<1>2. OnlyKnown(ImageReadTable)
  BY DEF ImageReadTable
<1>3. OnlyKnown(CategoryReadTable)
  BY DEF CategoryReadTable
<1>4. OnlyKnown(FeatureReadTable)
  BY DEF FeatureReadTable
<1>5. OnlyKnown(TicketReadTable)
  BY DEF TicketReadTable
<1>6. OnlyKnown(HighlightingTypeTable)
  BY DEF HighlightingTypeTable
<1>7. OnlyKnown(EventTypeTable)
  BY DEF EventTypeTable
<1>8. OnlyKnown(SubscriptionTypeTable)
  BY DEF SubscriptionTypeTable
<1>9. OnlyKnown(AnySubscriptionTable)
  BY DEF AnySubscriptionTable
<1>10. OnlyKnown(AnyCouponTable)
  BY DEF AnyCouponTable
<1>11. OnlyKnown(AnyDiscountTable)
  BY DEF AnyDiscountTable
<1>12. OnlyKnown(AnyConditionTable)
  BY DEF AnyConditionTable
<1>13. OnlyKnown(OrderTable)
  BY DEF OrderTable
<1>14. OnlyKnown(ETicketTable)
  BY DEF ETicketTable
<1>15. OnlyKnown(TransactionTable)
  BY DEF TransactionTable
<1>16. OnlyKnown(AppRoleTable)
  BY DEF AppRoleTable
<1>17. OnlyKnown(AppPermissionTable)
  BY DEF AppPermissionTable
<1>18. OnlyKnown(UserTable)
  BY DEF UserTable
<1>19. OnlyKnown(VariableTable)
  BY DEF VariableTable
<1>20. OnlyKnown(NotificationTable)
  BY DEF NotificationTable
<1>21. OnlyKnown(PointTable)
  BY DEF PointTable
<1>22. OnlyKnown(ZoneTable)
  BY DEF ZoneTable
<1>23. OnlyKnown(SponsorTable)
  BY DEF SponsorTable
<1>24. OnlyKnown(CountryTable)
  BY DEF CountryTable
<1>25. OnlyKnown(NewsTable)
  BY DEF NewsTable
<1> HIDE DEF OnlyKnown, OrPlatform, Only, Platform, Self, Anyone, AdminOnly, LoggedIn, Classes,
             Roles
<1> QED BY <1>1, <1>2, <1>3, <1>4, <1>5, <1>6, <1>7, <1>8, <1>9, <1>10, <1>11, <1>12, <1>13,
           <1>14, <1>15, <1>16, <1>17, <1>18, <1>19, <1>20, <1>21, <1>22, <1>23, <1>24,
           <1>25 DEF PlatformTables

\* And those of the others, but for the list of the followers.
LEMMA OtherKnown ==
  \A view \in DOMAIN OtherTables : view # "followers" => OnlyKnown(OtherTables[view])
<1>1. OnlyKnown(OrganizationTable)
  BY DEF OnlyKnown, OrganizationTable, OrPlatform, Only, Platform, Self, Anyone, LoggedIn,
         Classes, Roles
<1>2. \A view \in {"sellers", "reports", "kyc"} : OnlyKnown(OtherTables[view])
  BY DEF OnlyKnown, OtherTables, Only, LoggedIn, Classes, Roles
<1>3. DOMAIN OtherTables = {"organization", "followers", "sellers", "reports", "kyc"}
      /\ OtherTables["organization"] = OrganizationTable
  BY DEF OtherTables
<1> QED BY <1>1, <1>2, <1>3

LEMMA TablesKnown == \A view \in DOMAIN Tables : view # "followers" => OnlyKnown(Tables[view])
BY NestedKnown, PlatformKnown, OtherKnown DEF Tables

\* What the sellers' views and the KYC view ask.
LEMMA SellersViewsAsk ==
  /\ \A view \in {"sellers", "reports"} : \A a \in DOMAIN Tables[view] :
       Tables[view][a] = Only({"sellerDesk"})
  /\ \A a \in DOMAIN Tables["kyc"] : Tables["kyc"][a] = Only({"superSeller"})
<1>1. \A view \in {"sellers", "reports", "kyc"} :
        /\ view \in DOMAIN OtherTables
        /\ view \notin DOMAIN NestedTables /\ view \notin DOMAIN PlatformTables
  BY DEF OtherTables, NestedTables, PlatformTables
<1>2. \A view \in {"sellers", "reports", "kyc"} : Tables[view] = OtherTables[view]
  BY <1>1 DEF Tables
<1>3. /\ \A view \in {"sellers", "reports"} : \A a \in DOMAIN OtherTables[view] :
           OtherTables[view][a] = Only({"sellerDesk"})
      /\ \A a \in DOMAIN OtherTables["kyc"] : OtherTables["kyc"][a] = Only({"superSeller"})
  BY DEF OtherTables
<1> QED BY <1>2, <1>3

\* What a request that the user's data was read for is told of him.
UserIsRead(r) == r.user = [staff |-> account.staff, role |-> account.role]

\* What each class says.
LEMMA HasMeans ==
  ASSUME NEW r
  PROVE  /\ Has("authenticated", r) /\ Has("creator", r) /\ Has("his", r)
         /\ Has("password", r) <=> r.password
         /\ Has("admin", r) <=> r.user.staff
         /\ Has("app", r) <=> HasAppPermission(r)
         /\ Has("sellerDesk", r) <=> OfSellerDesk(r.org)
         /\ Has("superSeller", r) <=> OfSuperSeller(r.org)
         /\ Has("verified", r) <=> (Nested(r.view) => r.read.verified)
         /\ Has("subscription", r) <=> (Nested(r.view) => standing[r.org].subscribed)
         /\ Has("owner", r) <=> (Nested(r.view) => IsOwner(r.org))
         /\ Has("manager", r) <=> (Nested(r.view) => IsManager(r.org))
         /\ Has("member", r) <=> (Nested(r.view) => IsMember(r.org))
BY DEF Has

\* Who is granted a class that is a role has the role.
LEMMA RoleIsHad ==
  ASSUME AccessTypes, NEW r, r.org \in Organization, Nested(r.view)
  PROVE  /\ Has("owner", r) => r.org \in Own
         /\ Has("manager", r) => r.org \in Own \/ weight[r.org] >= 2
         /\ Has("member", r) => r.org \in Own \/ weight[r.org] >= 1
<1>1. "MEMBER" # "COORDINATOR" /\ weight[r.org] \in Int
  BY DEF AccessTypes
<1> QED BY <1>1, HasMeans DEF IsOwner, IsManager, IsMember, HasAccess

\* Who is granted the platform's classes is of the platform.
LEMMA PlatformIsHad ==
  ASSUME NEW r, UserIsRead(r)
  PROVE  Has("admin", r) \/ Has("app", r) => IsPlatform
<1> QED BY HasMeans DEF UserIsRead, HasAppPermission, IsPlatform

\* What asks for roles is granted to who has one of them, or to the platform.
LEMMA GrantedByRole ==
  ASSUME AccessTypes, NEW r, UserIsRead(r), ~IsPlatform, NEW permission, NEW roles,
         AsksFor(permission, roles), \E classes \in permission : \A c \in classes : Has(c, r)
  PROVE  \E c \in roles : Has(c, r)
<1>1. PICK classes \in permission : \A c \in classes : Has(c, r)
  OBVIOUS
<1>2. "admin" \notin classes /\ "app" \notin classes
  BY <1>1, PlatformIsHad
<1> QED BY <1>1, <1>2 DEF AsksFor

\* What a sellers' view asks for.
LEMMA SellerIsHad ==
  ASSUME NEW r
  PROVE  /\ Has("sellerDesk", r) => r.org \in Own \/ weight[r.org] # NoMembership
         /\ Has("superSeller", r) =>
              standing[r.org].kyc /\ (r.org \in Own \/ weight[r.org] # NoMembership)
<1>1. RoleOf(r.org) \in {"OWNER", "MEMBER", "COORDINATOR"} =>
        r.org \in Own \/ weight[r.org] # NoMembership
  <2> SUFFICES ASSUME r.org \notin Own, weight[r.org] = NoMembership
               PROVE  RoleOf(r.org) \notin {"OWNER", "MEMBER", "COORDINATOR"}
    OBVIOUS
  <2>1. ~(weight[r.org] >= 2) /\ weight[r.org] \notin {0, 1}
    BY DEF NoMembership
  <2>2. RoleOf(r.org) = "NONE"
    BY <2>1 DEF RoleOf
  <2> QED BY <2>2
<1> QED BY <1>1, HasMeans DEF OfSellerDesk, OfSuperSeller, IsSuperSellerVerified

\* An owner has every class about an organization that a member may have of another of the
\* same standing.
LEMMA OwnerHasClass ==
  ASSUME AccessTypes, NEW mine \in Own, NEW other \in Organization \ Own, mine \in Organization,
         standing[mine] = standing[other], mine \in SuperSellers \/ other \notin SuperSellers,
         NEW view, NEW action, NEW class \in Classes
  PROVE  /\ Has(class, Asking(view, action, other)) => Has(class, Asking(view, action, mine))
         /\ HasFor(class, Asking(view, action, other)) => HasFor(class, Asking(view, action, mine))
<1> DEFINE his == Asking(view, action, other)
           own == Asking(view, action, mine)
<1>1. /\ his.view = view /\ own.view = view /\ his.user = own.user /\ his.read = own.read
      /\ own.org = mine /\ own.of = mine /\ his.org = other /\ his.of = other
      /\ his.password = own.password /\ his.mine = own.mine
  BY DEF Asking
<1> HIDE DEF his, own
<1>2. RoleOf(mine) = "OWNER" /\ IsOwner(mine) /\ IsManager(mine) /\ IsMember(mine)
  BY DEF RoleOf, IsOwner, IsManager, IsMember
<1>3. /\ OfSuperSeller(other) => OfSuperSeller(mine)
      /\ OfSellerDesk(mine) /\ (OfSellerDeskFor(other) => OfSellerDeskFor(mine))
  BY <1>2 DEF OfSuperSeller, OfSellerDesk, OfSellerDeskFor, IsSuperSellerVerified
<1>4. Has(class, his) => Has(class, own)
  <2>1. (Has("password", his) => Has("password", own)) /\ (Has("admin", his) => Has("admin", own))
    BY <1>1, HasMeans
  <2>2. Has("app", his) => Has("app", own)
    BY <1>1, HasMeans DEF HasAppPermission
  <2>3. (Has("sellerDesk", his) => Has("sellerDesk", own))
        /\ (Has("superSeller", his) => Has("superSeller", own))
    BY <1>1, <1>3, HasMeans
  <2>4. Nested(view) =>
          /\ Has("verified", his) => Has("verified", own)
          /\ Has("subscription", his) => Has("subscription", own)
    BY <1>1, HasMeans
  <2>5. Nested(view) => Has("owner", own) /\ Has("manager", own) /\ Has("member", own)
    BY <1>1, <1>2, HasMeans
  <2>6. ~Nested(view) =>
          /\ Has("verified", own) /\ Has("subscription", own)
          /\ Has("owner", own) /\ Has("manager", own) /\ Has("member", own)
    BY <1>1, HasMeans
  <2>7. Has("authenticated", own) /\ Has("creator", own) /\ Has("his", own)
    BY HasMeans
  <2> QED BY <2>1, <2>2, <2>3, <2>4, <2>5, <2>6, <2>7 DEF Classes, Roles
<1>5. HasFor(class, his) => HasFor(class, own)
  <2>1. CASE class = "creator"
    BY <1>1, <2>1 DEF HasFor
  <2>2. CASE class = "his"
    BY <1>1, <2>2 DEF HasFor
  <2>3. CASE class = "sellerDesk"
    BY <1>1, <1>3, <2>3 DEF HasFor
  <2>4. CASE class = "owner"
    BY <1>1, <1>2, <2>4 DEF HasFor
  <2>5. CASE class \notin {"creator", "his", "sellerDesk", "owner"}
    <3>1. class # "coordinator"
      BY DEF Classes, Roles
    <3> QED BY <2>5, <3>1 DEF HasFor
  <2> QED BY <2>1, <2>2, <2>3, <2>4, <2>5
<1> QED BY <1>4, <1>5 DEF his, own

\* So he may do whatever the other may.
LEMMA OwnerMay ==
  ASSUME AccessTypes, NEW mine \in Own, NEW other \in Organization \ Own, mine \in Organization,
         standing[mine] = standing[other], mine \in SuperSellers \/ other \notin SuperSellers,
         NEW view \in DOMAIN Tables, view # "followers", NEW action \in DOMAIN Tables[view],
         Allowed(view, action, other)
  PROVE  Allowed(view, action, mine)
<1> DEFINE his == Asking(view, action, other)
           own == Asking(view, action, mine)
<1>1. ParentIsFine(his) => ParentIsFine(own)
  BY DEF ParentIsFine, Asking
<1>2. GetPermissions(view, action) = Tables[view][action]
  BY DEF GetPermissions
<1>3. \A classes \in Tables[view][action] : classes \subseteq Classes
  BY TablesKnown DEF OnlyKnown
<1>4. \A c \in Classes : (Has(c, his) => Has(c, own)) /\ (HasFor(c, his) => HasFor(c, own))
  BY OwnerHasClass
<1> HIDE DEF his, own
<1>5. ParentIsFine(his) /\ \E classes \in GetPermissions(view, action) : \A c \in classes :
        Has(c, his) /\ (FindsObject(view, action) => HasFor(c, his))
  BY Zenon DEF Allowed, his
<1>6. PICK classes \in Tables[view][action] : \A c \in classes :
        Has(c, his) /\ (FindsObject(view, action) => HasFor(c, his))
  BY <1>2, <1>5
<1>7. \A c \in classes : Has(c, own) /\ (FindsObject(view, action) => HasFor(c, own))
  BY <1>3, <1>4, <1>6
<1>8. ParentIsFine(own) /\ \E cs \in GetPermissions(view, action) : \A c \in cs :
        Has(c, own) /\ (FindsObject(view, action) => HasFor(c, own))
  BY <1>1, <1>2, <1>5, <1>6, <1>7
<1> QED BY <1>8, Zenon DEF Allowed, own

\* What a request that nothing disturbed finds when it acts.
LEMMA ActingAllowed ==
  ASSUME AccessInv, request.pc = "acting", ~request.disturbed
  PROVE  SerialActsAreAllowed
<1> DEFINE r == request
<1>1. r \in Requests /\ UserIsRead(r) /\ Granted(r) /\ r.read = standing[r.org]
  BY DEF AccessInv, AccessTypes, RequestOK, NoRequest, UserIsRead
<1>2. AccessTypes /\ r.org \in Organization
  BY <1>1 DEF AccessInv, Requests
<1>3. \E classes \in GetPermissions(r.view, r.action) : \A c \in classes : Has(c, r)
  BY <1>1 DEF Granted
<1>4. Nested(r.view) => standing[r.org].active /\ standing[r.org].verified
  BY <1>1 DEF Granted, ParentIsFine
<1>5. ASSUME Nested(r.view), r.action \in DOMAIN Tables[r.view],
             GetPermissions(r.view, r.action) \notin {Self, Anyone}, ~IsPlatform
      PROVE  /\ r.org \in Own \/ weight[r.org] >= 1
             /\ r.view \in ManagedViews /\ r.action \in Managing =>
                  r.org \in Own \/ weight[r.org] >= 2
             /\ r.view \in OwnersViews => r.org \in Own
  <2>1. /\ Tables[r.view] = NestedTables[r.view]
        /\ GetPermissions(r.view, r.action) = NestedTables[r.view][r.action]
        /\ r.action \in DOMAIN NestedTables[r.view]
    BY <1>5 DEF Tables, Nested, GetPermissions
  <2>2. \A roles : AsksFor(NestedTables[r.view][r.action], roles) => \E c \in roles : Has(c, r)
    BY <1>1, <1>2, <1>3, <1>5, <2>1, GrantedByRole
  <2>3. AsksFor(NestedTables[r.view][r.action], Roles)
    BY <1>5, <2>1, NestedAskRoles DEF AsksRoles, Nested
  <2>4. weight[r.org] \in Int
    BY <1>2 DEF AccessTypes
  <2>5. r.org \in Own \/ weight[r.org] >= 1
    <3>1. PICK c \in Roles : Has(c, r)
      BY <2>2, <2>3
    <3> QED BY <1>2, <1>5, <2>4, <3>1, RoleIsHad DEF Roles
  <2>6. ASSUME r.view \in ManagedViews, r.action \in Managing
        PROVE  r.org \in Own \/ weight[r.org] >= 2
    <3>1. AsksFor(NestedTables[r.view][r.action], {"owner", "manager"})
      BY <2>1, <2>6, ManagedViewsAskManager
    <3>2. PICK c \in {"owner", "manager"} : Has(c, r)
      BY <2>2, <3>1
    <3> QED BY <1>2, <1>5, <3>2, RoleIsHad
  <2>7. ASSUME r.view \in OwnersViews PROVE r.org \in Own
    <3>1. AsksFor(NestedTables[r.view][r.action], {"owner"})
      BY <1>5, <2>1, <2>7, OwnersViewsAskOwner DEF AsksRoles
    <3> QED BY <1>2, <1>5, <2>2, <3>1, RoleIsHad
  <2> QED BY <2>5, <2>6, <2>7
<1>6. ASSUME r.view \in {"sellers", "reports", "kyc"}, r.action \in DOMAIN Tables[r.view]
      PROVE  /\ r.org \in Own \/ weight[r.org] # NoMembership
             /\ r.view = "kyc" => standing[r.org].kyc
  <2>1. GetPermissions(r.view, r.action) = Tables[r.view][r.action]
    BY <1>6 DEF GetPermissions
  <2>2. \/ r.view # "kyc" /\ Tables[r.view][r.action] = Only({"sellerDesk"})
        \/ r.view = "kyc" /\ Tables[r.view][r.action] = Only({"superSeller"})
    BY <1>6, SellersViewsAsk
  <2>3. \/ r.view # "kyc" /\ Has("sellerDesk", r)
        \/ r.view = "kyc" /\ Has("superSeller", r)
    BY <1>3, <2>1, <2>2 DEF Only
  <2> QED BY <2>3, SellerIsHad
<1> HIDE DEF r
<1>7. /\ Nested(r.view) => standing[r.org].active /\ standing[r.org].verified
      /\ Nested(r.view) /\ r.action \in DOMAIN Tables[r.view]
           /\ GetPermissions(r.view, r.action) \notin {Self, Anyone} /\ ~IsPlatform =>
         /\ r.org \in Own \/ weight[r.org] >= 1
         /\ r.view \in ManagedViews /\ r.action \in Managing => r.org \in Own \/ weight[r.org] >= 2
         /\ r.view \in OwnersViews => r.org \in Own
      /\ r.view \in {"sellers", "reports", "kyc"} /\ r.action \in DOMAIN Tables[r.view] =>
           r.org \in Own \/ weight[r.org] # NoMembership
      /\ r.view = "kyc" /\ r.action \in DOMAIN Tables[r.view] => standing[r.org].kyc
  BY <1>4, <1>5, <1>6
<1> QED BY <1>7, Zenon DEF SerialActsAreAllowed, ManagedViews, Managing, OwnersViews, r

\* Nobody but the platform may do what an owner may not.
LEMMA OwnersMay == AccessInv => OwnersMayMost
<1> SUFFICES ASSUME AccessInv, NEW mine \in Own, NEW other \in Organization \ Own,
                    standing[mine] = standing[other],
                    mine \in SuperSellers \/ other \notin SuperSellers,
                    NEW view \in DOMAIN Tables, view # "followers",
                    NEW action \in DOMAIN Tables[view], Allowed(view, action, other)
             PROVE  Allowed(view, action, mine)
  BY DEF OwnersMayMost
<1>1. mine \in Organization /\ AccessTypes
  BY AccessAssumption DEF AccessInv
<1> QED BY <1>1, OwnerMay

LEMMA AccessInvInit == AccessInit => AccessInv
<1> SUFFICES ASSUME AccessInit PROVE AccessInv
  OBVIOUS
<1>1. standing \in [Organization -> Standings] /\ request = NoRequest
  BY DEF AccessInit, Standings
<1>2. weight \in [Organization -> Int]
  <2>1. PICK w \in {NoMembership, 0, 1, 2} :
          weight = [o \in Organization |-> IF o \in Own THEN NoMembership ELSE w]
    BY DEF AccessInit
  <2> QED BY <2>1 DEF NoMembership
<1>3. account \in [staff : BOOLEAN, role : BOOLEAN, granted : BOOLEAN]
  BY DEF AccessInit
<1>4. request \notin Requests
  BY <1>1 DEF NoRequest, Requests
<1> QED BY <1>1, <1>2, <1>3, <1>4 DEF AccessInv, AccessTypes, RequestOK

\* What a class says of a request depends on its classes' subjects only.
LEMMA GrantedSame ==
  ASSUME NEW r, NEW q, q.view = r.view, q.action = r.action, q.org = r.org, q.read = r.read,
         q.password = r.password, q.user = r.user, Granted(r)
  PROVE  Granted(q)
<1>1. \A c : Has(c, r) = Has(c, q)
  BY Zenon DEF Has, HasAppPermission
<1> QED BY <1>1 DEF Granted, ParentIsFine

\* While no row changes every class says the same.
LEMMA HasKept ==
  ASSUME UNCHANGED <<standing, weight, account>>, NEW r, NEW c
  PROVE  Has(c, r)' <=> Has(c, r)
<1>1. standing' = standing /\ weight' = weight /\ account' = account
  OBVIOUS
<1> QED BY <1>1 DEF Has, HasAppPermission, OfSellerDesk, OfSuperSeller, IsSuperSellerVerified,
                    RoleOf, IsOwner, IsCoordinator, IsManager, IsMember, HasAccess, Nested

LEMMA GrantedKept ==
  ASSUME UNCHANGED <<standing, weight, account>>, NEW r, Granted(r)
  PROVE  Granted(r)'
BY HasKept DEF Granted, ParentIsFine, Nested, GetPermissions

\* Nobody is asking.
LEMMA NothingAsked ==
  ASSUME AccessInv, request' = NoRequest,
         standing' \in [Organization -> Standings], weight' \in [Organization -> Int],
         account' \in [staff : BOOLEAN, role : BOOLEAN, granted : BOOLEAN]
  PROVE  AccessInv'
<1>1. request' \notin Requests
  BY DEF NoRequest, Requests
<1> QED BY <1>1 DEF AccessInv, AccessTypes, RequestOK

\* A request reads the organization as it is.
LEMMA BeginInv ==
  ASSUME AccessInv, NEW ask \in Asks, NEW o \in Organization, NEW of \in Organization,
         NEW password \in BOOLEAN, NEW mine \in BOOLEAN,
         Begin(ask[1], ask[2], o, of, password, mine)
  PROVE  AccessInv'
<1>1. UNCHANGED <<standing, weight, account>> /\ AccessTypes
  BY DEF Begin, AccessInv
<1> DEFINE views == {a[1] : a \in Asks}
           actions == {a[2] : a \in Asks}
<1>2. ask[1] \in views /\ ask[2] \in actions
  OBVIOUS
<1> HIDE DEF views, actions
<1>3. standing[o] \in Standings
  BY <1>1 DEF AccessTypes
<1>4. request' \in [pc : {"begun", "checked", "acting"}, view : views, action : actions,
                    org : Organization, of : Organization, password : BOOLEAN, mine : BOOLEAN,
                    read : Standings, user : Users, disturbed : BOOLEAN]
  BY <1>2, <1>3 DEF Begin, Users
<1>5. request' \in Requests
  BY <1>4, Zenon DEF Requests, views, actions
<1>6. request'.pc = "begun" /\ request'.org = o /\ request'.read = standing'[o]
  BY <1>1 DEF Begin
<1> QED BY <1>1, <1>5, <1>6 DEF AccessInv, AccessTypes, RequestOK

\* A request that goes on has the user's data, and has been granted what it asks for.
LEMMA CheckInv == AccessInv /\ CheckPermissions => AccessInv'
<1> SUFFICES ASSUME AccessInv, CheckPermissions PROVE AccessInv'
  OBVIOUS
<1>1. /\ UNCHANGED <<standing, weight, account>> /\ AccessTypes
      /\ request \in Requests /\ request.pc = "begun"
  BY DEF CheckPermissions, AccessInv, AccessTypes, NoRequest
<1>2. PICK user \in Users : user = [staff |-> account.staff, role |-> account.role]
  BY <1>1 DEF AccessTypes, Users
<1>3. PICK r : r = [request EXCEPT !.user = user]
  OBVIOUS
<1> DEFINE views == {a[1] : a \in Asks}
           actions == {a[2] : a \in Asks}
<1>4. request \in [pc : {"begun", "checked", "acting"}, view : views, action : actions,
                   org : Organization, of : Organization, password : BOOLEAN, mine : BOOLEAN,
                   read : Standings, user : Users, disturbed : BOOLEAN]
  BY <1>1, Zenon DEF Requests
<1> HIDE DEF views, actions
<1>5. /\ r \in [pc : {"begun", "checked", "acting"}, view : views, action : actions,
                org : Organization, of : Organization, password : BOOLEAN, mine : BOOLEAN,
                read : Standings, user : Users, disturbed : BOOLEAN]
      /\ r.user = user /\ r.org = request.org /\ r.read = request.read
      /\ r.disturbed = request.disturbed
  BY <1>2, <1>3, <1>4
<1>6. \/ request' = NoRequest
      \/ /\ Granted(r)
         /\ request' = [r EXCEPT !.pc = "checked"] \/ request' = [r EXCEPT !.pc = "acting"]
  BY <1>2, <1>3, Zenon DEF CheckPermissions, Granted
<1>7. CASE request' = NoRequest
  BY <1>1, <1>7, NothingAsked DEF AccessTypes
<1>8. CASE /\ Granted(r)
           /\ request' = [r EXCEPT !.pc = "checked"] \/ request' = [r EXCEPT !.pc = "acting"]
  <2>1. PICK q : request' = q /\ q = request'
    OBVIOUS
  <2>2. /\ q \in [pc : {"begun", "checked", "acting"}, view : views, action : actions,
                  org : Organization, of : Organization, password : BOOLEAN, mine : BOOLEAN,
                  read : Standings, user : Users, disturbed : BOOLEAN]
        /\ q.view = r.view /\ q.action = r.action /\ q.org = r.org /\ q.read = r.read
        /\ q.password = r.password /\ q.user = r.user /\ q.disturbed = r.disturbed
    BY <1>5, <1>8, <2>1
  <2>3. q \in Requests
    BY <2>2, Zenon DEF Requests, views, actions
  <2>4. Granted(q)'
    BY <1>1, <1>8, <2>2, GrantedSame, GrantedKept
  <2>5. ~q.disturbed => q.read = standing'[q.org]
    BY <1>1, <1>5, <2>2 DEF AccessInv, RequestOK
  <2>6. q.user = [staff |-> account'.staff, role |-> account'.role]
    BY <1>1, <1>2, <1>5, <2>2
  <2> QED BY <1>1, <2>1, <2>3, <2>4, <2>5, <2>6 DEF AccessInv, AccessTypes, RequestOK
<1> QED BY <1>6, <1>7, <1>8

LEMMA GetObjectInv == AccessInv /\ GetObject => AccessInv'
<1> SUFFICES ASSUME AccessInv, GetObject PROVE AccessInv'
  OBVIOUS
<1>1. /\ UNCHANGED <<standing, weight, account>> /\ AccessTypes
      /\ request \in Requests /\ request.pc = "checked"
  BY DEF GetObject, AccessInv, AccessTypes, NoRequest
<1>2. request' = NoRequest \/ request' = [request EXCEPT !.pc = "acting"]
  BY Zenon DEF GetObject
<1>3. CASE request' = NoRequest
  BY <1>1, <1>3, NothingAsked DEF AccessTypes
<1>4. CASE request' = [request EXCEPT !.pc = "acting"]
  <2> DEFINE views == {a[1] : a \in Asks}
             actions == {a[2] : a \in Asks}
  <2>1. PICK r \in [pc : {"begun", "checked", "acting"}, view : views, action : actions,
                    org : Organization, of : Organization, password : BOOLEAN, mine : BOOLEAN,
                    read : Standings, user : Users, disturbed : BOOLEAN] : r = request
    BY <1>1, Zenon DEF Requests
  <2> HIDE DEF views, actions
  <2>2. PICK q : request' = q /\ q = [r EXCEPT !.pc = "acting"]
    BY <1>4, <2>1
  <2>3. /\ q \in [pc : {"begun", "checked", "acting"}, view : views, action : actions,
                  org : Organization, of : Organization, password : BOOLEAN, mine : BOOLEAN,
                  read : Standings, user : Users, disturbed : BOOLEAN]
        /\ q.view = r.view /\ q.action = r.action /\ q.org = r.org /\ q.read = r.read
        /\ q.password = r.password /\ q.user = r.user /\ q.disturbed = r.disturbed
    BY <2>1, <2>2
  <2>4. q \in Requests
    BY <2>3, Zenon DEF Requests, views, actions
  <2>5. ~q.disturbed =>
          /\ Granted(r) /\ q.read = standing'[q.org]
          /\ q.user = [staff |-> account'.staff, role |-> account'.role]
    BY <1>1, <2>1, <2>3 DEF AccessInv, RequestOK
  <2>6. ~q.disturbed => Granted(q)'
    BY <1>1, <2>3, <2>5, GrantedSame, GrantedKept
  <2> QED BY <1>1, <2>2, <2>4, <2>5, <2>6 DEF AccessInv, AccessTypes, RequestOK
<1> QED BY <1>2, <1>3, <1>4

\* What changes disturbs the request there is.
LEMMA ChangeInv == AccessInv /\ Change => AccessInv'
<1> SUFFICES ASSUME AccessInv, Change PROVE AccessInv'
  OBVIOUS
<1>1. AccessTypes
  BY DEF AccessInv
<1>2. standing' \in [Organization -> Standings]
  <2>1. CASE UNCHANGED standing
    BY <1>1, <2>1 DEF AccessTypes
  <2>2. CASE \E o \in Organization, f \in {"active", "verified", "subscribed", "kyc"} :
               standing' = [standing EXCEPT ![o][f] = ~@]
    <3>1. PICK o \in Organization, f \in {"active", "verified", "subscribed", "kyc"} :
            standing' = [standing EXCEPT ![o][f] = ~@]
      BY <2>2
    <3>2. \A s \in Standings : [s EXCEPT ![f] = ~@] \in Standings
      BY <3>1 DEF Standings
    <3>3. standing' = [standing EXCEPT ![o] = [standing[o] EXCEPT ![f] = ~@]]
      BY <3>1, Zenon
    <3> QED BY <1>1, <3>2, <3>3 DEF AccessTypes
  <2> QED BY <2>1, <2>2 DEF Change
<1>3. weight' \in [Organization -> Int]
  BY <1>1 DEF Change, AccessTypes, NoMembership
<1>4. account' \in [staff : BOOLEAN, role : BOOLEAN, granted : BOOLEAN]
  BY <1>1 DEF Change, AccessTypes
<1>5. CASE request = NoRequest
  <2>1. request' = NoRequest
    BY <1>5 DEF Change, Disturbed
  <2> QED BY <1>2, <1>3, <1>4, <2>1, NothingAsked
<1>6. CASE request # NoRequest
  <2> DEFINE views == {a[1] : a \in Asks}
             actions == {a[2] : a \in Asks}
  <2>1. PICK r \in [pc : {"begun", "checked", "acting"}, view : views, action : actions,
                    org : Organization, of : Organization, password : BOOLEAN, mine : BOOLEAN,
                    read : Standings, user : Users, disturbed : BOOLEAN] : r = request
    BY <1>1, <1>6 DEF AccessTypes, Requests
  <2> HIDE DEF views, actions
  <2>2. request' = [r EXCEPT !.disturbed = TRUE]
    BY <1>6, <2>1 DEF Change, Disturbed
  <2>3. /\ request'.disturbed
        /\ request' \in [pc : {"begun", "checked", "acting"}, view : views, action : actions,
                         org : Organization, of : Organization, password : BOOLEAN,
                         mine : BOOLEAN, read : Standings, user : Users, disturbed : BOOLEAN]
    BY <2>1, <2>2
  <2>4. request' \in Requests
    BY <2>3, Zenon DEF Requests, views, actions
  <2> QED BY <1>2, <1>3, <1>4, <2>3, <2>4 DEF AccessInv, AccessTypes, RequestOK
<1> QED BY <1>5, <1>6

LEMMA AccessInvNext == AccessInv /\ [AccessNext]_accessVars => AccessInv'
<1> SUFFICES ASSUME AccessInv, [AccessNext]_accessVars PROVE AccessInv'
  OBVIOUS
<1>1. ASSUME NEW ask \in Asks, NEW o \in Organization, NEW of \in Organization,
             NEW password \in BOOLEAN, NEW mine \in BOOLEAN,
             Begin(ask[1], ask[2], o, of, password, mine)
      PROVE  AccessInv'
  BY <1>1, BeginInv
<1>2. CASE CheckPermissions
  BY <1>2, CheckInv
<1>3. CASE GetObject
  BY <1>3, GetObjectInv
<1>4. CASE Act
  BY <1>4, NothingAsked DEF Act, AccessInv, AccessTypes
<1>5. CASE Change
  BY <1>5, ChangeInv
<1>6. CASE UNCHANGED accessVars
  <2>1. UNCHANGED <<standing, weight, account>> /\ request' = request
    BY <1>6 DEF accessVars
  <2>2. Granted(request) => (Granted(request))'
    BY <2>1, GrantedKept
  <2> QED BY <2>1, <2>2 DEF AccessInv, AccessTypes, RequestOK
<1> QED BY <1>1, <1>2, <1>3, <1>4, <1>5, <1>6 DEF AccessNext

\* Who acts in an organization's name in a request that nothing disturbed is its owner, has there
\* the role that the action asks for, or is of the platform, and the organization is active with a
\* verified owner; and an owner may do whatever a member or coordinator of an organization of
\* the same standing may (permission_classes_by_action, has_permission, get_object); for any
\* organizations, actions asked for, roles and changes.
THEOREM AccessStaysAsGranted == AccessSpec => []AccessIsAsGranted
<1>1. AccessInv => AccessIsAsGranted
  <2>1. AccessInv => SerialActsAreAllowed
    BY ActingAllowed DEF SerialActsAreAllowed
  <2> QED BY <2>1, OwnersMay DEF AccessIsAsGranted
<1> QED BY <1>1, AccessInvInit, AccessInvNext, PTL DEF AccessSpec

--------------------------------------------------------------------------------
(* That the statistics, the earnings and the reports tell one story, for any    *)
(* sellers, events, prices, percentages, dates and calendar.                    *)
(*                                                                              *)
(* The figures are totals over the rows of two sequences, and a row that is     *)
(* added or changed moves each of them by what it is worth (StockMoved,         *)
(* OrdersGrow, OrderEarns): a stock is what the ledger has of it, the payments  *)
(* of the sales are the direct orders' totals, and the credit is what the       *)
(* finished ones earned.  That groups come to the same as all of them is a fact *)
(* about totals (TotalOfGroups).  A report holds what it has read, of orders    *)
(* which stay finished and of amounts which only grow (ReportedGrows), and two  *)
(* periods of one frequency are the same or have no day in common.              *)

Period     == [from : Int, to : Int]
Moved      == {r \in LedgerRow : IF r.kind = "SALE" THEN r.quantity <= 0 ELSE r.quantity >= 0}
LotRow     == [here : {TRUE}, allocated : Nat, sold : Nat, rate : 0..100]
OrderRow   == [show : Show, agent : Agent \cup {Online}, quantity : Nat \ {0}, lineTotal : Nat,
               coupon : BOOLEAN, reduced : Nat, day : Dates, status : {"SUBMITTED", "FINISHED"},
               eTickets : Nat, applied : 0..100]
\* What is known of an order.
Ordered == {o \in OrderRow : /\ o.status = "FINISHED" => o.eTickets = o.quantity
                             /\ o.status = "SUBMITTED" => o.agent = Online
                             /\ ~o.coupon => o.reduced = o.lineTotal}
Reading == [pc : {"revenue", "tickets", "sellers", "events"}, frequency : Frequencies,
            period : Period, orders : SUBSET Nat, revenue : Nat, tickets : Nat, bySeller : Nat]

FiguresTypes ==
  /\ today \in Dates /\ price \in [Show -> Nat] /\ cut \in [BOOLEAN -> 0..100]
  /\ lot \in [Agent -> [Show -> {NoLot} \cup LotRow]]
  /\ ledger \in Seq(Moved) /\ placed \in Seq(Ordered) /\ credited \in Nat
  /\ reader \in {NoReader} \cup Reading

\* The rows and the amounts in them.
SoldRows(l)           == {i \in DOMAIN l : l[i].kind = "SALE"}
MovesOf(l, kind, a, e) == {i \in DOMAIN l : l[i].kind = kind /\ l[i].agent = a /\ l[i].show = e}
Quantities(l)         == [i \in DOMAIN l |-> IF l[i].kind = "SALE" THEN 0 - l[i].quantity
                                             ELSE l[i].quantity]
Payments(l)           == [i \in DOMAIN l |-> l[i].price * (0 - l[i].quantity)]
DirectIn(p)           == {i \in DOMAIN p : p[i].agent # Online}
Lines(p)              == [i \in DOMAIN p |-> p[i].lineTotal]
EarningIn(p)          == {i \in DOMAIN p : p[i].status = "FINISHED" /\ p[i].agent = Online}
Earnings(p)           == [i \in DOMAIN p |-> Income(p[i], p[i].applied)]
ReportedIn(p, period) == {i \in DOMAIN p : p[i].status = "FINISHED" /\ Within(p[i].day, period)}
Sizes(p)              == [i \in DOMAIN p |-> p[i].quantity]

\* The stock of a seller is what the ledger has of him.
LotOK(a, e) ==
  /\ ~lot[a][e].here => MovesOf(ledger, "SALE", a, e) \cup MovesOf(ledger, "ALLOCATION", a, e) = {}
  /\ lot[a][e].here =>
       /\ lot[a][e].sold = TotalOf(Quantities(ledger), MovesOf(ledger, "SALE", a, e))
       /\ lot[a][e].allocated = TotalOf(Quantities(ledger), MovesOf(ledger, "ALLOCATION", a, e))

LotsOK    == \A a \in Agent, e \in Show : LotOK(a, e)
RevenueOK == TotalOf(Payments(ledger), SoldRows(ledger)) = TotalOf(Lines(placed), DirectIn(placed))
CreditOK  == credited = TotalOf(Earnings(placed), EarningIn(placed))

\* What a report has counted is there, and was no more when it was counted.
CountedIn(p, r) ==
  /\ \E d \in Dates : r.period = ComputePeriod(r.frequency, d)
  /\ r.orders \subseteq ReportedIn(p, r.period)
  /\ r.pc \in {"sellers", "events"} =>
       /\ Cardinality(r.orders) <= r.tickets
       /\ r.tickets <= TotalOf(Sizes(p), ReportedIn(p, r.period))
  /\ r.pc = "events" =>
       /\ r.tickets <= r.bySeller
       /\ r.bySeller <= TotalOf(Sizes(p), ReportedIn(p, r.period))

ArchivedIn(p, r) ==
  /\ r.frequency \in Frequencies /\ \E d \in Dates : r.period = ComputePeriod(r.frequency, d)
  /\ r.orders \subseteq ReportedIn(p, r.period)
  /\ Cardinality(r.orders) <= r.tickets /\ r.tickets <= r.bySeller /\ r.bySeller <= r.byEvent

ReportsOK ==
  /\ reader # NoReader => CountedIn(placed, reader)
  /\ \A r \in archive : ArchivedIn(placed, r)

FiguresInv == FiguresTypes /\ LotsOK /\ RevenueOK /\ CreditOK /\ ReportsOK

--------------------------------------------------------------------------------
\* A part that is added to a total, or is not.
LEMMA AddedPart ==
  ASSUME NEW S, IsFiniteSet(S), NEW f, NEW g, \A i \in S : f[i] \in Nat /\ g[i] = f[i],
         NEW n, n \notin S, g[n] \in Nat
  PROVE  /\ TotalOf(g, S \cup {n}) = TotalOf(f, S) + g[n] /\ TotalOf(g, S) = TotalOf(f, S)
         /\ TotalOf(f, S) \in Nat
<1>1. TotalOf(g, S) = TotalOf(f, S) /\ TotalOf(f, S) \in Nat
  BY TotalOfSame, TotalIsNat
<1>2. \A i \in S : g[i] \in Nat
  OBVIOUS
<1>3. TotalOf(g, S \cup {n}) = TotalOf(g, S) + g[n]
  BY <1>2, TotalWithPart
<1> QED BY <1>1, <1>3

\* Some of the rows of a sequence are finitely many.
LEMMA RowsAreFinite ==
  ASSUME NEW T, NEW s \in Seq(T)
  PROVE  /\ DOMAIN s = 1..Len(s) /\ Len(s) \in Nat
         /\ \A S : S \subseteq DOMAIN s => IsFiniteSet(S)
         /\ \A i \in DOMAIN s : s[i] \in T
<1>1. DOMAIN s = 1..Len(s) /\ Len(s) \in Nat
  OBVIOUS
<1>2. IsFiniteSet(DOMAIN s)
  BY <1>1, FS_Interval
<1> QED BY <1>1, <1>2, FS_Subset

\* What moves a row has.
LEMMA MovedRows ==
  ASSUME NEW l \in Seq(Moved), NEW i \in DOMAIN l
  PROVE  /\ Quantities(l)[i] \in Nat
         /\ l[i].kind = "SALE" => /\ 0 - l[i].quantity \in Nat /\ Payments(l)[i] \in Nat
                                  /\ Quantities(l)[i] = 0 - l[i].quantity
         /\ l[i].kind = "ALLOCATION" => Quantities(l)[i] = l[i].quantity
         /\ l[i].kind \in {"SALE", "ALLOCATION"} /\ l[i].agent \in Agent /\ l[i].show \in Show
         /\ l[i].day \in Dates /\ l[i].commission \in Nat /\ l[i].price \in Nat
         /\ l[i].quantity \in Int /\ Payments(l)[i] = l[i].price * (0 - l[i].quantity)
<1>1. l[i] \in Moved
  BY RowsAreFinite
<1>2. PICK r \in LedgerRow : r = l[i] /\ IF r.kind = "SALE" THEN r.quantity <= 0 ELSE r.quantity >= 0
  BY <1>1 DEF Moved
<1>3. /\ r.kind \in {"SALE", "ALLOCATION"} /\ r.agent \in Agent /\ r.show \in Show
      /\ r.day \in Dates /\ r.commission \in Nat /\ r.price \in Nat /\ r.quantity \in Int
  BY DEF LedgerRow
<1>4. PICK q \in Int, c \in Nat : q = r.quantity /\ c = r.price
  BY <1>3
<1>5. r.kind = "SALE" => 0 - q \in Nat /\ c * (0 - q) \in Nat
  <2>1. \A n \in Nat : c * n \in Nat
    BY <1>4
  <2>2. r.kind = "SALE" => 0 - q \in Nat
    BY <1>2, <1>4
  <2> QED BY <2>1, <2>2
<1>6. r.kind # "SALE" => q \in Nat
  BY <1>2, <1>4
<1>7. Quantities(l)[i] = (IF r.kind = "SALE" THEN 0 - q ELSE q) /\ Payments(l)[i] = c * (0 - q)
  BY <1>2, <1>4 DEF Quantities, Payments
<1> QED BY <1>2, <1>3, <1>4, <1>5, <1>6, <1>7

LEMMA OrderedRows ==
  ASSUME NEW p \in Seq(Ordered), NEW i \in DOMAIN p
  PROVE  /\ Lines(p)[i] \in Nat /\ Lines(p)[i] = p[i].lineTotal
         /\ Earnings(p)[i] \in Nat /\ Earnings(p)[i] = p[i].reduced * (100 - p[i].applied)
         /\ Sizes(p)[i] \in Nat \ {0} /\ Sizes(p)[i] = p[i].quantity
         /\ p[i].status = "FINISHED" => p[i].eTickets = p[i].quantity
         /\ p[i].status = "SUBMITTED" => p[i].agent = Online
         /\ ~p[i].coupon => p[i].reduced = p[i].lineTotal
         /\ p[i] \in OrderRow
<1>1. p[i] \in Ordered
  BY RowsAreFinite
<1>2. PICK r \in OrderRow : /\ r = p[i]
                            /\ r.status = "FINISHED" => r.eTickets = r.quantity
                            /\ r.status = "SUBMITTED" => r.agent = Online
                            /\ ~r.coupon => r.reduced = r.lineTotal
  BY <1>1 DEF Ordered
<1>3. r.lineTotal \in Nat /\ r.reduced \in Nat /\ r.applied \in 0..100 /\ r.quantity \in Nat \ {0}
  BY DEF OrderRow
<1>4. r.reduced * (100 - r.applied) \in Nat
  <2>1. PICK x \in Nat, y \in 0..100 : x = r.reduced /\ y = r.applied
    BY <1>3
  <2>2. x * (100 - y) \in Nat
    OBVIOUS
  <2> QED BY <2>1, <2>2
<1>5. /\ Lines(p)[i] = r.lineTotal /\ Sizes(p)[i] = r.quantity
      /\ Earnings(p)[i] = r.reduced * (100 - r.applied)
  BY <1>2 DEF Lines, Sizes, Earnings, Income
<1> QED BY <1>2, <1>3, <1>4, <1>5

\* A movement that is written down.
LEMMA LedgerGrows ==
  ASSUME NEW l \in Seq(Moved), NEW r \in Moved
  PROVE  LET m == Append(l, r)  n == Len(l) + 1 IN
         /\ m \in Seq(Moved) /\ n \in DOMAIN m /\ m[n] = r
         /\ \A kind, a, e :
              /\ n \notin MovesOf(l, kind, a, e) /\ IsFiniteSet(MovesOf(l, kind, a, e))
              /\ MovesOf(m, kind, a, e) = IF r.kind = kind /\ r.agent = a /\ r.show = e
                                          THEN MovesOf(l, kind, a, e) \cup {n}
                                          ELSE MovesOf(l, kind, a, e)
         /\ SoldRows(m) = IF r.kind = "SALE" THEN SoldRows(l) \cup {n} ELSE SoldRows(l)
         /\ n \notin SoldRows(l) /\ IsFiniteSet(SoldRows(l))
         /\ \A i \in DOMAIN l : /\ Quantities(m)[i] = Quantities(l)[i]
                                /\ Payments(m)[i] = Payments(l)[i]
<1> DEFINE m == Append(l, r)
           n == Len(l) + 1
<1>1. /\ m \in Seq(Moved) /\ Len(m) = n /\ m[n] = r /\ \A i \in 1..Len(l) : m[i] = l[i]
      /\ Len(l) \in Nat
  BY AppendProperties
<1>2. DOMAIN l = 1..Len(l) /\ DOMAIN m = 1..n /\ n \in Nat
  BY <1>1, RowsAreFinite
<1> HIDE DEF m, n
<1>3. n = Len(l) + 1 /\ n \notin DOMAIN l /\ DOMAIN m = DOMAIN l \cup {n}
  BY <1>1, <1>2 DEF n
<1>4. \A i \in DOMAIN l : m[i] = l[i]
  BY <1>1, <1>2
<1>5. ASSUME NEW kind, NEW a, NEW e
      PROVE  /\ n \notin MovesOf(l, kind, a, e) /\ IsFiniteSet(MovesOf(l, kind, a, e))
             /\ MovesOf(m, kind, a, e) = IF r.kind = kind /\ r.agent = a /\ r.show = e
                                          THEN MovesOf(l, kind, a, e) \cup {n}
                                          ELSE MovesOf(l, kind, a, e)
  <2>1. MovesOf(l, kind, a, e) \subseteq DOMAIN l
    BY DEF MovesOf
  <2>2. IsFiniteSet(MovesOf(l, kind, a, e))
    BY <2>1, RowsAreFinite
  <2>3. MovesOf(m, kind, a, e) = IF r.kind = kind /\ r.agent = a /\ r.show = e
                                          THEN MovesOf(l, kind, a, e) \cup {n}
                                          ELSE MovesOf(l, kind, a, e)
    BY <1>1, <1>3, <1>4 DEF MovesOf
  <2> QED BY <1>3, <2>1, <2>2, <2>3
<1>6. /\ SoldRows(m) = IF r.kind = "SALE" THEN SoldRows(l) \cup {n} ELSE SoldRows(l)
      /\ n \notin SoldRows(l) /\ IsFiniteSet(SoldRows(l))
  <2>1. SoldRows(l) \subseteq DOMAIN l
    BY DEF SoldRows
  <2>2. IsFiniteSet(SoldRows(l))
    BY <2>1, RowsAreFinite
  <2>3. SoldRows(m) = IF r.kind = "SALE" THEN SoldRows(l) \cup {n} ELSE SoldRows(l)
    BY <1>1, <1>3, <1>4 DEF SoldRows
  <2> QED BY <1>3, <2>1, <2>2, <2>3
<1>7. \A i \in DOMAIN l : Quantities(m)[i] = Quantities(l)[i] /\ Payments(m)[i] = Payments(l)[i]
  BY <1>3, <1>4 DEF Quantities, Payments
<1>8. n \in DOMAIN m
  BY <1>3
<1> QED BY <1>1, <1>5, <1>6, <1>7, <1>8 DEF m, n

\* Later orders have the earlier ones, and what was finished stays so.
Keeps(p, q) ==
  /\ \A period : ReportedIn(p, period) \subseteq ReportedIn(q, period)
  /\ \A i \in DOMAIN p : i \in DOMAIN q /\ Sizes(q)[i] = Sizes(p)[i]

\* An order that is made.
LEMMA OrdersGrow ==
  ASSUME NEW p \in Seq(Ordered), NEW o \in Ordered
  PROVE  LET q == Append(p, o) IN
         /\ q \in Seq(Ordered) /\ Keeps(p, q)
         /\ TotalOf(Lines(q), DirectIn(q)) =
              TotalOf(Lines(p), DirectIn(p)) + (IF o.agent # Online THEN o.lineTotal ELSE 0)
         /\ ~(o.status = "FINISHED" /\ o.agent = Online) =>
              TotalOf(Earnings(q), EarningIn(q)) = TotalOf(Earnings(p), EarningIn(p))
<1> DEFINE q == Append(p, o)
           n == Len(p) + 1
<1>1. /\ q \in Seq(Ordered) /\ Len(q) = n /\ q[n] = o /\ \A i \in 1..Len(p) : q[i] = p[i]
      /\ Len(p) \in Nat
  BY AppendProperties
<1>2. DOMAIN p = 1..Len(p) /\ DOMAIN q = 1..n
  BY <1>1, RowsAreFinite
<1> HIDE DEF q, n
<1>3. n = Len(p) + 1 /\ n \notin DOMAIN p /\ DOMAIN q = DOMAIN p \cup {n}
  BY <1>1, <1>2 DEF n
<1>4. \A i \in DOMAIN p : q[i] = p[i]
  BY <1>1, <1>2
<1>5. \A i \in DOMAIN p : /\ Lines(q)[i] = Lines(p)[i] /\ Sizes(q)[i] = Sizes(p)[i]
                          /\ Earnings(q)[i] = Earnings(p)[i]
  BY <1>3, <1>4 DEF Lines, Sizes, Earnings, Income
<1>6. Keeps(p, q)
  BY <1>3, <1>4, <1>5 DEF Keeps, ReportedIn
<1>7. TotalOf(Lines(q), DirectIn(q)) =
        TotalOf(Lines(p), DirectIn(p)) + (IF o.agent # Online THEN o.lineTotal ELSE 0)
  <2>1. DirectIn(p) \subseteq DOMAIN p /\ n \notin DirectIn(p) /\ IsFiniteSet(DirectIn(p))
    <3>1. DirectIn(p) \subseteq DOMAIN p
      BY DEF DirectIn
    <3> QED BY <1>3, <3>1, RowsAreFinite
  <2>2. \A i \in DirectIn(p) : Lines(p)[i] \in Nat /\ Lines(q)[i] = Lines(p)[i]
    BY <1>5, <2>1, OrderedRows
  <2>3. Lines(q)[n] \in Nat /\ Lines(q)[n] = o.lineTotal
    BY <1>1, <1>3, OrderedRows
  <2>4. DirectIn(q) = IF o.agent # Online THEN DirectIn(p) \cup {n} ELSE DirectIn(p)
    BY <1>1, <1>3, <1>4 DEF DirectIn
  <2>5. /\ TotalOf(Lines(q), DirectIn(p) \cup {n}) = TotalOf(Lines(p), DirectIn(p)) + Lines(q)[n]
        /\ TotalOf(Lines(q), DirectIn(p)) = TotalOf(Lines(p), DirectIn(p))
        /\ TotalOf(Lines(p), DirectIn(p)) \in Nat
    BY <2>1, <2>2, <2>3, AddedPart
  <2> QED BY <2>3, <2>4, <2>5
<1>8. ASSUME ~(o.status = "FINISHED" /\ o.agent = Online)
      PROVE  TotalOf(Earnings(q), EarningIn(q)) = TotalOf(Earnings(p), EarningIn(p))
  <2>1. EarningIn(q) = EarningIn(p) /\ EarningIn(p) \subseteq DOMAIN p
    BY <1>1, <1>3, <1>4, <1>8 DEF EarningIn
  <2> QED BY <1>5, <2>1, TotalOfSame
<1> QED BY <1>1, <1>6, <1>7, <1>8 DEF q

\* The row of an order that is finished on the site.
DoneRow(o, c) == [o EXCEPT !.status = "FINISHED", !.applied = c, !.eTickets = o.quantity]

IsDone(o, c, row) ==
  /\ row.status = "FINISHED" /\ row.agent = Online /\ row.applied = c /\ row.reduced = o.reduced
  /\ row.lineTotal = o.lineTotal /\ row.quantity = o.quantity /\ row.day = o.day

LEMMA FinishedRow ==
  ASSUME NEW order \in Ordered, order.status = "SUBMITTED", NEW c, c \in 0..100,
         NEW row, row = DoneRow(order, c)
  PROVE  row \in Ordered /\ IsDone(order, c, row)
<1> DEFINE new == [order EXCEPT !.status = "FINISHED", !.applied = c, !.eTickets = order.quantity]
<1>1. /\ order.agent = Online /\ order \in OrderRow
      /\ ~order.coupon => order.reduced = order.lineTotal
      /\ order.quantity \in Nat
  BY DEF Ordered, OrderRow
<1>2. /\ new \in Ordered /\ new.status = "FINISHED" /\ new.agent = Online /\ new.applied = c
      /\ new.reduced = order.reduced /\ new.lineTotal = order.lineTotal /\ new.quantity = order.quantity
      /\ new.day = order.day
  <2>1. PICK o \in OrderRow : o = order
    BY <1>1
  <2>2. PICK e \in Show, a \in Agent \cup {Online}, n \in Nat \ {0}, line \in Nat, d \in BOOLEAN,
             x \in Nat, day \in Dates, status \in {"SUBMITTED", "FINISHED"},
             tickets \in Nat, y \in 0..100 :
          o = [show |-> e, agent |-> a, quantity |-> n, lineTotal |-> line, coupon |-> d,
               reduced |-> x, day |-> day, status |-> status, eTickets |-> tickets, applied |-> y]
    BY DEF OrderRow
  <2>3. new = [show |-> e, agent |-> a, quantity |-> n, lineTotal |-> line, coupon |-> d,
               reduced |-> x, day |-> day, status |-> "FINISHED", eTickets |-> n, applied |-> c]
    <3>1. new = [o EXCEPT !.status = "FINISHED", !.applied = c, !.eTickets = n]
      BY <2>1, <2>2
    <3>2. PICK o1 : o1 =
            [show |-> e, agent |-> a, quantity |-> n, lineTotal |-> line, coupon |-> d,
             reduced |-> x, day |-> day, status |-> "FINISHED", eTickets |-> tickets, applied |-> y]
      OBVIOUS
    <3>3. PICK o2 : o2 =
            [show |-> e, agent |-> a, quantity |-> n, lineTotal |-> line, coupon |-> d,
             reduced |-> x, day |-> day, status |-> "FINISHED", eTickets |-> tickets, applied |-> c]
      OBVIOUS
    <3>4. [o EXCEPT !.status = "FINISHED"] = o1
      BY <2>2, <3>2
    <3>5. [o1 EXCEPT !.applied = c] = o2
      BY <3>2, <3>3
    <3>6. [o2 EXCEPT !.eTickets = n] =
            [show |-> e, agent |-> a, quantity |-> n, lineTotal |-> line, coupon |-> d,
             reduced |-> x, day |-> day, status |-> "FINISHED", eTickets |-> n, applied |-> c]
      BY <3>3
    <3>7. [o EXCEPT !.status = "FINISHED", !.applied = c, !.eTickets = n] =
            [[[o EXCEPT !.status = "FINISHED"] EXCEPT !.applied = c] EXCEPT !.eTickets = n]
      OBVIOUS
    <3> QED BY <3>1, <3>4, <3>5, <3>6, <3>7
  <2> HIDE DEF new
  <2>4. new \in OrderRow
    BY <2>2, <2>3 DEF OrderRow
  <2>5. /\ new.status = "FINISHED" /\ new.agent = o.agent /\ new.applied = c /\ new.coupon = o.coupon
        /\ new.reduced = o.reduced /\ new.lineTotal = o.lineTotal /\ new.quantity = o.quantity
        /\ new.day = o.day /\ new.eTickets = o.quantity
    BY <2>2, <2>3
  <2>6. new \in Ordered
    BY <1>1, <2>1, <2>4, <2>5 DEF Ordered
  <2> QED BY <1>1, <2>1, <2>5, <2>6
<1>3. new = row
  BY DEF DoneRow
<1> HIDE DEF new
<1> QED BY <1>2, <1>3 DEF IsDone

\* It earns what it brings.
LEMMA OrderEarns ==
  ASSUME NEW p \in Seq(Ordered), NEW q \in Seq(Ordered), DOMAIN q = DOMAIN p,
         NEW i \in DOMAIN p, p[i].status = "SUBMITTED", NEW c, c \in 0..100,
         IsDone(p[i], c, q[i]), \A j \in DOMAIN p : j # i => q[j] = p[j]
  PROVE  /\ Keeps(p, q)
         /\ TotalOf(Lines(q), DirectIn(q)) = TotalOf(Lines(p), DirectIn(p))
         /\ TotalOf(Earnings(q), EarningIn(q)) =
              TotalOf(Earnings(p), EarningIn(p)) + Income(p[i], c)
         /\ Income(p[i], c) \in Nat
<1>0. PICK new : /\ new = q[i] /\ new.status = "FINISHED" /\ new.agent = Online /\ new.applied = c
                 /\ new.reduced = p[i].reduced /\ new.lineTotal = p[i].lineTotal
                 /\ new.quantity = p[i].quantity /\ new.day = p[i].day
  BY DEF IsDone
<1>1. p[i].agent = Online /\ \A j \in DOMAIN q : q[j] = IF j = i THEN new ELSE p[j]
  BY <1>0, OrderedRows
<1>6. \A j \in DOMAIN p : Lines(q)[j] = Lines(p)[j] /\ Sizes(q)[j] = Sizes(p)[j]
  BY <1>0, <1>1 DEF Lines, Sizes
<1>7. \A j \in DOMAIN p : j # i => Earnings(q)[j] = Earnings(p)[j]
  BY <1>0, <1>1 DEF Earnings, Income
<1>8. Earnings(q)[i] = Income(p[i], c)
  BY <1>0, <1>1 DEF Earnings, Income
<1>9. Keeps(p, q)
  BY <1>0, <1>1, <1>6 DEF Keeps, ReportedIn
<1>10. TotalOf(Lines(q), DirectIn(q)) = TotalOf(Lines(p), DirectIn(p))
  <2>1. DirectIn(q) = DirectIn(p) /\ DirectIn(p) \subseteq DOMAIN p
    <3>1. \A j \in DOMAIN p : q[j].agent = p[j].agent
      BY <1>0, <1>1
    <3> QED BY <3>1 DEF DirectIn
  <2> QED BY <1>6, <2>1, TotalOfSame
<1>11. Income(p[i], c) \in Nat /\ Earnings(q)[i] \in Nat
  BY <1>8, OrderedRows
<1>12. TotalOf(Earnings(q), EarningIn(q)) = TotalOf(Earnings(p), EarningIn(p)) + Income(p[i], c)
  <2>1. EarningIn(p) \subseteq DOMAIN p /\ i \notin EarningIn(p) /\ IsFiniteSet(EarningIn(p))
    <3>1. EarningIn(p) \subseteq DOMAIN p /\ i \notin EarningIn(p)
      BY DEF EarningIn
    <3> QED BY <3>1, RowsAreFinite
  <2>2. EarningIn(q) = EarningIn(p) \cup {i}
    BY <1>0, <1>1 DEF EarningIn
  <2>3. \A j \in EarningIn(p) : Earnings(p)[j] \in Nat /\ Earnings(q)[j] = Earnings(p)[j]
    BY <1>7, <2>1, OrderedRows
  <2>4. TotalOf(Earnings(q), EarningIn(p) \cup {i}) = TotalOf(Earnings(p), EarningIn(p)) + Earnings(q)[i]
    <3>1. PICK S, f, g : S = EarningIn(p) /\ f = Earnings(p) /\ g = Earnings(q)
      OBVIOUS
    <3>2. PICK n : n = i
      OBVIOUS
    <3>3. IsFiniteSet(S) /\ n \notin S /\ g[n] \in Nat /\ \A j \in S : f[j] \in Nat /\ g[j] = f[j]
      BY <1>11, <2>1, <2>3, <3>1, <3>2
    <3>4. TotalOf(g, S \cup {n}) = TotalOf(f, S) + g[n] /\ TotalOf(g, S) = TotalOf(f, S) /\ TotalOf(f, S) \in Nat
      BY <3>3, AddedPart
    <3> QED BY <3>1, <3>2, <3>4
  <2> QED BY <1>8, <2>2, <2>4
<1> QED BY <1>9, <1>10, <1>11, <1>12

\* What is reported of later orders is no less.
LEMMA ReportedGrows ==
  ASSUME NEW p \in Seq(Ordered), NEW q \in Seq(Ordered), Keeps(p, q), NEW period
  PROVE  /\ TotalOf(Sizes(p), ReportedIn(p, period)) \in Nat
         /\ TotalOf(Sizes(q), ReportedIn(q, period)) \in Nat
         /\ TotalOf(Sizes(p), ReportedIn(p, period)) <= TotalOf(Sizes(q), ReportedIn(q, period))
<1> DEFINE T == ReportedIn(p, period)
           S == ReportedIn(q, period)
<1>1. T \subseteq DOMAIN p /\ S \subseteq DOMAIN q
  BY DEF ReportedIn
<1>2. T \subseteq S /\ \A i \in DOMAIN p : Sizes(q)[i] = Sizes(p)[i]
  BY DEF Keeps
<1>3. IsFiniteSet(T) /\ IsFiniteSet(S)
  BY <1>1, RowsAreFinite
<1>4. (\A i \in T : Sizes(p)[i] \in Nat) /\ (\A i \in S : Sizes(q)[i] \in Nat)
  BY <1>1, OrderedRows
<1> HIDE DEF T, S
<1>5. TotalOf(Sizes(q), T) <= TotalOf(Sizes(q), S)
  <2>1. \A i \in T : Sizes(q)[i] <= Sizes(q)[i]
    BY <1>2, <1>4
  <2> QED BY <1>2, <1>3, <1>4, <2>1, TotalGrows
<1>6. TotalOf(Sizes(p), T) = TotalOf(Sizes(q), T)
  BY <1>1, <1>2, TotalOfSame
<1>7. TotalOf(Sizes(p), T) \in Nat /\ TotalOf(Sizes(q), S) \in Nat
  BY <1>3, <1>4, TotalIsNat
<1> QED BY <1>5, <1>6, <1>7 DEF T, S

LEMMA ReportKept ==
  ASSUME NEW p \in Seq(Ordered), NEW q \in Seq(Ordered), Keeps(p, q), NEW r
  PROVE  /\ r \in Reading /\ CountedIn(p, r) => CountedIn(q, r)
         /\ ArchivedIn(p, r) => ArchivedIn(q, r)
<1>1. /\ TotalOf(Sizes(p), ReportedIn(p, r.period)) \in Nat
      /\ TotalOf(Sizes(q), ReportedIn(q, r.period)) \in Nat
      /\ TotalOf(Sizes(p), ReportedIn(p, r.period)) <= TotalOf(Sizes(q), ReportedIn(q, r.period))
      /\ ReportedIn(p, r.period) \subseteq ReportedIn(q, r.period)
  BY ReportedGrows DEF Keeps
<1>2. ArchivedIn(p, r) => ArchivedIn(q, r)
  BY <1>1 DEF ArchivedIn
<1>3. ASSUME r \in Reading, CountedIn(p, r) PROVE CountedIn(q, r)
  <2>1. r.tickets \in Nat /\ r.bySeller \in Nat
    BY <1>3 DEF Reading
  <2> QED BY <1>1, <1>3, <2>1 DEF CountedIn
<1> QED BY <1>2, <1>3

LEMMA ReportsKept ==
  ASSUME FiguresTypes, ReportsOK, placed' \in Seq(Ordered), Keeps(placed, placed'),
         UNCHANGED <<reader, archive>>
  PROVE  ReportsOK'
<1>1. placed \in Seq(Ordered) /\ reader \in {NoReader} \cup Reading
  BY DEF FiguresTypes
<1>2. ASSUME reader # NoReader PROVE CountedIn(placed', reader)
  BY <1>1, <1>2, ReportKept DEF ReportsOK
<1>3. ASSUME NEW r \in archive PROVE ArchivedIn(placed', r)
  BY <1>1, <1>3, ReportKept DEF ReportsOK
<1> QED BY <1>2, <1>3 DEF ReportsOK

--------------------------------------------------------------------------------
LEMMA FiguresInvInit == FiguresInit => FiguresInv
<1> SUFFICES ASSUME FiguresInit PROVE FiguresInv
  OBVIOUS
<1>1. Min(Dates) \in Dates /\ Min(Prices) \in Nat /\ Min(Cuts) \in 0..100
  <2>1. ASSUME NEW S \in SUBSET Nat, S # {} PROVE Min(S) \in S
    <3>1. \E x \in S : \A y \in S : x <= y
      BY <2>1, LeastOf
    <3> QED BY <3>1 DEF Min
  <2>2. Min(Dates) \in Dates
    BY <2>1, FiguresAssumption
  <2>3. Min(Prices) \in Prices
    BY <2>1, FiguresAssumption
  <2>4. Min(Cuts) \in Cuts
    <3>1. Cuts \subseteq Nat /\ Cuts # {}
      BY FiguresAssumption
    <3> QED BY <2>1, <3>1
  <2> QED BY <2>2, <2>3, <2>4, FiguresAssumption
<1>2. /\ today = Min(Dates) /\ price \in [Show -> {Min(Prices)}]
      /\ cut = [d \in BOOLEAN |-> Min(Cuts)]
      /\ lot = [a \in Agent |-> [e \in Show |-> NoLot]]
      /\ ledger = <<>> /\ placed = <<>> /\ credited = 0
      /\ reader = NoReader /\ archive = {}
  BY DEF FiguresInit
<1>3. FiguresTypes
  <2>1. today \in Dates /\ price \in [Show -> Nat] /\ cut \in [BOOLEAN -> 0..100]
    BY <1>1, <1>2
  <2>2. lot \in [Agent -> [Show -> {NoLot} \cup LotRow]] /\ ledger \in Seq(Moved) /\ placed \in Seq(Ordered)
    BY <1>2
  <2> QED BY <1>2, <2>1, <2>2 DEF FiguresTypes
<1>4. /\ \A kind, a, e : MovesOf(ledger, kind, a, e) = {}
      /\ SoldRows(ledger) = {} /\ DirectIn(placed) = {} /\ EarningIn(placed) = {}
  BY <1>2 DEF MovesOf, SoldRows, DirectIn, EarningIn
<1>5. \A f : TotalOf(f, {}) = 0
  BY TotalOfNothing
<1>6. \A a \in Agent, e \in Show : ~lot[a][e].here
  BY <1>2 DEF NoLot
<1>7. LotsOK
  BY <1>4, <1>6 DEF LotsOK, LotOK
<1>8. RevenueOK /\ CreditOK
  BY <1>2, <1>4, <1>5 DEF RevenueOK, CreditOK
<1>9. ReportsOK
  BY <1>2 DEF ReportsOK
<1> QED BY <1>3, <1>7, <1>8, <1>9 DEF FiguresInv

\* A movement of a seller's stock, written down with what it moves.
LEMMA StockMoved ==
  ASSUME FiguresTypes, LotsOK, NEW a \in Agent, NEW e \in Show, NEW row \in Moved,
         row.agent = a, row.show = e, ledger' = Append(ledger, row),
         NEW new \in LotRow, lot' = [lot EXCEPT ![a][e] = new],
         new.sold = (IF lot[a][e].here THEN lot[a][e].sold ELSE 0)
                      + (IF row.kind = "SALE" THEN 0 - row.quantity ELSE 0),
         new.allocated = (IF lot[a][e].here THEN lot[a][e].allocated ELSE 0)
                           + (IF row.kind = "SALE" THEN 0 ELSE row.quantity)
  PROVE  /\ LotsOK' /\ ledger' \in Seq(Moved) /\ lot' \in [Agent -> [Show -> {NoLot} \cup LotRow]]
         /\ TotalOf(Payments(ledger'), SoldRows(ledger')) =
              TotalOf(Payments(ledger), SoldRows(ledger))
                + (IF row.kind = "SALE" THEN row.price * (0 - row.quantity) ELSE 0)
<1>1. PICK l, m : l \in Seq(Moved) /\ l = ledger /\ m = ledger'
  BY DEF FiguresTypes
<1>2. PICK n : n = Len(l) + 1
  OBVIOUS
<1>3. /\ m \in Seq(Moved) /\ n \in DOMAIN m /\ m[n] = row
      /\ \A kind, x, y :
              /\ n \notin MovesOf(l, kind, x, y) /\ IsFiniteSet(MovesOf(l, kind, x, y))
              /\ MovesOf(m, kind, x, y) = IF row.kind = kind /\ row.agent = x /\ row.show = y
                                          THEN MovesOf(l, kind, x, y) \cup {n}
                                          ELSE MovesOf(l, kind, x, y)
      /\ SoldRows(m) = IF row.kind = "SALE" THEN SoldRows(l) \cup {n} ELSE SoldRows(l)
      /\ n \notin SoldRows(l) /\ IsFiniteSet(SoldRows(l))
      /\ \A i \in DOMAIN l : Quantities(m)[i] = Quantities(l)[i] /\ Payments(m)[i] = Payments(l)[i]
  BY <1>1, <1>2, LedgerGrows
<1>4. /\ row.kind \in {"SALE", "ALLOCATION"} /\ Quantities(m)[n] \in Nat
      /\ Quantities(m)[n] = IF row.kind = "SALE" THEN 0 - row.quantity ELSE row.quantity
      /\ row.kind = "SALE" => /\ Payments(m)[n] \in Nat
                              /\ Payments(m)[n] = row.price * (0 - row.quantity)
  BY <1>3, MovedRows
<1>5. /\ lot \in [Agent -> [Show -> {NoLot} \cup LotRow]]
      /\ lot' \in [Agent -> [Show -> {NoLot} \cup LotRow]] /\ lot'[a][e] = new
      /\ \A x \in Agent, y \in Show : x # a \/ y # e => lot'[x][y] = lot[x][y]
  BY DEF FiguresTypes
<1>6. \A kind, x, y :
        /\ TotalOf(Quantities(m), MovesOf(l, kind, x, y)) = TotalOf(Quantities(l), MovesOf(l, kind, x, y))
        /\ TotalOf(Quantities(l), MovesOf(l, kind, x, y)) \in Nat
        /\ TotalOf(Quantities(m), MovesOf(l, kind, x, y) \cup {n}) =
             TotalOf(Quantities(l), MovesOf(l, kind, x, y)) + Quantities(m)[n]
  <2> SUFFICES ASSUME NEW kind, NEW x, NEW y
        PROVE
        /\ TotalOf(Quantities(m), MovesOf(l, kind, x, y)) = TotalOf(Quantities(l), MovesOf(l, kind, x, y))
        /\ TotalOf(Quantities(l), MovesOf(l, kind, x, y)) \in Nat
        /\ TotalOf(Quantities(m), MovesOf(l, kind, x, y) \cup {n}) =
             TotalOf(Quantities(l), MovesOf(l, kind, x, y)) + Quantities(m)[n]
    OBVIOUS
  <2>1. MovesOf(l, kind, x, y) \subseteq DOMAIN l
    BY DEF MovesOf
  <2>2. \A i \in MovesOf(l, kind, x, y) : Quantities(l)[i] \in Nat /\ Quantities(m)[i] = Quantities(l)[i]
    BY <1>1, <1>3, <2>1, MovedRows
  <2>3. PICK S, f, g : S = MovesOf(l, kind, x, y) /\ f = Quantities(l) /\ g = Quantities(m)
    OBVIOUS
  <2>4. IsFiniteSet(S) /\ n \notin S /\ g[n] \in Nat /\ \A i \in S : f[i] \in Nat /\ g[i] = f[i]
    BY <1>3, <1>4, <2>2, <2>3
  <2>5. TotalOf(g, S \cup {n}) = TotalOf(f, S) + g[n] /\ TotalOf(g, S) = TotalOf(f, S) /\ TotalOf(f, S) \in Nat
    BY <2>4, AddedPart
  <2> QED BY <2>3, <2>5
<1>7. ASSUME NEW x \in Agent, NEW y \in Show, x # a \/ y # e PROVE LotOK(x, y)'
  <2>1. LotOK(x, y) /\ lot'[x][y] = lot[x][y]
    BY <1>5, <1>7 DEF LotsOK
  <2>2. \A kind : MovesOf(m, kind, x, y) = MovesOf(l, kind, x, y)
    BY <1>3, <1>7
  <2> QED BY <1>1, <1>6, <2>1, <2>2 DEF LotOK
<1>8. LotOK(a, e)'
  <2>1. /\ ~lot[a][e].here => MovesOf(l, "SALE", a, e) = {} /\ MovesOf(l, "ALLOCATION", a, e) = {}
        /\ lot[a][e].here =>
             /\ lot[a][e].sold = TotalOf(Quantities(l), MovesOf(l, "SALE", a, e))
             /\ lot[a][e].allocated = TotalOf(Quantities(l), MovesOf(l, "ALLOCATION", a, e))
    BY <1>1 DEF LotsOK, LotOK
  <2>2. \A f : TotalOf(f, {}) = 0
    BY TotalOfNothing
  <2>3. PICK sold \in Nat, given \in Nat :
          /\ sold = TotalOf(Quantities(l), MovesOf(l, "SALE", a, e))
          /\ given = TotalOf(Quantities(l), MovesOf(l, "ALLOCATION", a, e))
    BY <1>6
  <2>4. /\ sold = IF lot[a][e].here THEN lot[a][e].sold ELSE 0
        /\ given = IF lot[a][e].here THEN lot[a][e].allocated ELSE 0
    BY <2>1, <2>2, <2>3
  <2>5. new.here /\ lot'[a][e] = new
    BY <1>5 DEF LotRow
  <2>6. CASE row.kind = "SALE"
    <3>1. /\ MovesOf(m, "SALE", a, e) = MovesOf(l, "SALE", a, e) \cup {n}
          /\ MovesOf(m, "ALLOCATION", a, e) = MovesOf(l, "ALLOCATION", a, e)
      BY <1>3, <2>6
    <3>2. /\ TotalOf(Quantities(m), MovesOf(m, "SALE", a, e)) = sold + Quantities(m)[n]
          /\ TotalOf(Quantities(m), MovesOf(m, "ALLOCATION", a, e)) = given
      BY <1>6, <2>3, <3>1
    <3>3. new.sold = sold + Quantities(m)[n] /\ new.allocated = given + 0
      BY <1>4, <2>4, <2>6
    <3>4. given + 0 = given
      OBVIOUS
    <3> QED BY <1>1, <2>5, <3>2, <3>3, <3>4 DEF LotOK
  <2>7. CASE row.kind = "ALLOCATION"
    <3>1. /\ MovesOf(m, "SALE", a, e) = MovesOf(l, "SALE", a, e)
          /\ MovesOf(m, "ALLOCATION", a, e) = MovesOf(l, "ALLOCATION", a, e) \cup {n}
      BY <1>3, <2>7
    <3>2. /\ TotalOf(Quantities(m), MovesOf(m, "ALLOCATION", a, e)) = given + Quantities(m)[n]
          /\ TotalOf(Quantities(m), MovesOf(m, "SALE", a, e)) = sold
      BY <1>6, <2>3, <3>1
    <3>3. new.allocated = given + Quantities(m)[n] /\ new.sold = sold + 0
      BY <1>4, <2>4, <2>7
    <3>4. sold + 0 = sold
      OBVIOUS
    <3> QED BY <1>1, <2>5, <3>2, <3>3, <3>4 DEF LotOK
  <2> QED BY <1>4, <2>6, <2>7
<1>9. TotalOf(Payments(m), SoldRows(m)) =
        TotalOf(Payments(l), SoldRows(l)) + (IF row.kind = "SALE" THEN row.price * (0 - row.quantity) ELSE 0)
  <2>1. \A i \in SoldRows(l) : Payments(l)[i] \in Nat /\ Payments(m)[i] = Payments(l)[i]
    <3>1. \A i \in SoldRows(l) : i \in DOMAIN l /\ l[i].kind = "SALE"
      BY DEF SoldRows
    <3> QED BY <1>1, <1>3, <3>1, MovedRows
  <2>2. TotalOf(Payments(l), SoldRows(l)) \in Nat /\ TotalOf(Payments(m), SoldRows(l)) = TotalOf(Payments(l), SoldRows(l))
    BY <1>3, <2>1, TotalIsNat, TotalOfSame
  <2>3. CASE row.kind = "SALE"
    <3>1. TotalOf(Payments(m), SoldRows(l) \cup {n}) = TotalOf(Payments(l), SoldRows(l)) + Payments(m)[n]
      <4>1. PICK S, f, g : S = SoldRows(l) /\ f = Payments(l) /\ g = Payments(m)
        OBVIOUS
      <4>2. IsFiniteSet(S) /\ n \notin S /\ g[n] \in Nat /\ \A i \in S : f[i] \in Nat /\ g[i] = f[i]
        BY <1>3, <1>4, <2>1, <2>3, <4>1
      <4>3. TotalOf(g, S \cup {n}) = TotalOf(f, S) + g[n] /\ TotalOf(g, S) = TotalOf(f, S) /\ TotalOf(f, S) \in Nat
        BY <4>2, AddedPart
      <4> QED BY <4>1, <4>3
    <3> QED BY <1>3, <1>4, <2>3, <3>1
  <2>4. CASE row.kind # "SALE"
    BY <1>3, <2>2, <2>4
  <2> QED BY <2>3, <2>4
<1>10. LotsOK'
  BY <1>7, <1>8 DEF LotsOK
<1> QED BY <1>1, <1>3, <1>5, <1>9, <1>10

LEMMA AllocateInv ==
  ASSUME FiguresInv, NEW a \in Agent, NEW e \in Show, NEW q \in Lots, NEW rate \in Commissions,
         Allocate(a, e, q, rate)
  PROVE  FiguresInv'
<1>1. /\ FiguresTypes /\ LotsOK /\ RevenueOK /\ CreditOK /\ ReportsOK
      /\ UNCHANGED <<today, price, cut, placed, credited, reader, archive>>
  BY DEF FiguresInv, Allocate
<1>2. PICK old : old = IF lot[a][e].here THEN lot[a][e]
                       ELSE [here |-> TRUE, allocated |-> 0, sold |-> 0, rate |-> rate]
  OBVIOUS
<1>3. /\ old \in LotRow
      /\ old.sold = IF lot[a][e].here THEN lot[a][e].sold ELSE 0
      /\ old.allocated = IF lot[a][e].here THEN lot[a][e].allocated ELSE 0
  <2>1. lot[a][e] \in {NoLot} \cup LotRow /\ rate \in 0..100
    BY <1>1, FiguresAssumption DEF FiguresTypes
  <2>2. lot[a][e].here => lot[a][e] \in LotRow
    BY <2>1 DEF NoLot
  <2> QED BY <1>2, <2>1, <2>2 DEF LotRow
<1>4. PICK n \in Nat : n = q
  BY FiguresAssumption
<1>5. PICK new : new = [old EXCEPT !.allocated = @ + q]
  OBVIOUS
<1>6. new \in LotRow /\ new.sold = old.sold /\ new.allocated = old.allocated + n
  <2>1. PICK x \in Nat, y \in Nat, z \in 0..100 :
          old = [here |-> TRUE, allocated |-> x, sold |-> y, rate |-> z]
    BY <1>3 DEF LotRow
  <2>2. new = [here |-> TRUE, allocated |-> x + n, sold |-> y, rate |-> z]
    BY <1>4, <1>5, <2>1
  <2>3. new \in LotRow /\ new.sold = y /\ new.allocated = x + n /\ old.sold = y /\ old.allocated = x
    BY <2>1, <2>2 DEF LotRow
  <2> QED BY <2>3
<1>7. PICK row : row = AllocationRow(a, e, new, q)
  OBVIOUS
<1>8. /\ row \in Moved /\ row.agent = a /\ row.show = e /\ row.kind = "ALLOCATION"
      /\ row.quantity = n /\ row.kind # "SALE"
  <2>1. InLot(new) \in Int
    BY <1>6 DEF InLot, LotRow
  <2>2. PICK x \in Int : x = InLot(new)
    BY <2>1
  <2>3. today \in Dates
    BY <1>1 DEF FiguresTypes
  <2>4. row = [kind |-> "ALLOCATION", agent |-> a, show |-> e, quantity |-> n,
               before |-> x, after |-> x + n, price |-> 0, commission |-> 0, day |-> today]
    BY <1>4, <1>7, <2>2 DEF AllocationRow
  <2>5. row \in LedgerRow
    BY <2>3, <2>4 DEF LedgerRow
  <2>6. row.agent = a /\ row.show = e /\ row.kind = "ALLOCATION" /\ row.quantity = n
    BY <2>4
  <2> QED BY <2>5, <2>6 DEF Moved
<1>9. lot' = [lot EXCEPT ![a][e] = new] /\ ledger' = Append(ledger, row)
  BY <1>2, <1>5, <1>7 DEF Allocate
<1>10. /\ new.sold = (IF lot[a][e].here THEN lot[a][e].sold ELSE 0) + 0
       /\ new.allocated = (IF lot[a][e].here THEN lot[a][e].allocated ELSE 0) + row.quantity
  BY <1>3, <1>6, <1>8 DEF LotRow
<1>11. /\ LotsOK' /\ ledger' \in Seq(Moved) /\ lot' \in [Agent -> [Show -> {NoLot} \cup LotRow]]
       /\ TotalOf(Payments(ledger'), SoldRows(ledger')) = TotalOf(Payments(ledger), SoldRows(ledger)) + 0
  BY <1>1, <1>6, <1>8, <1>9, <1>10, StockMoved
<1>12. TotalOf(Payments(ledger), SoldRows(ledger)) \in Nat
  <2>1. ledger \in Seq(Moved)
    BY <1>1 DEF FiguresTypes
  <2>2. SoldRows(ledger) \subseteq DOMAIN ledger /\ \A i \in SoldRows(ledger) : ledger[i].kind = "SALE"
    BY DEF SoldRows
  <2>3. IsFiniteSet(SoldRows(ledger)) /\ \A i \in SoldRows(ledger) : Payments(ledger)[i] \in Nat
    BY <2>1, <2>2, RowsAreFinite, MovedRows
  <2> QED BY <2>3, TotalIsNat
<1>13. RevenueOK'
  BY <1>1, <1>11, <1>12 DEF RevenueOK
<1>14. FiguresTypes'
  BY <1>1, <1>11 DEF FiguresTypes
<1>15. CreditOK' /\ ReportsOK'
  BY <1>1 DEF CreditOK, ReportsOK
<1> QED BY <1>11, <1>13, <1>14, <1>15 DEF FiguresInv

LEMMA SellInv ==
  ASSUME FiguresInv, NEW a \in Agent, NEW e \in Show, NEW q \in Lots, Sell(a, e, q)
  PROVE  FiguresInv'
<1>1. /\ FiguresTypes /\ LotsOK /\ RevenueOK /\ CreditOK /\ ReportsOK
      /\ UNCHANGED <<today, price, cut, credited, reader, archive>> /\ lot[a][e].here
  BY DEF FiguresInv, Sell
<1>2. PICK old \in LotRow : old = lot[a][e]
  <2>1. lot[a][e] \in {NoLot} \cup LotRow
    BY <1>1 DEF FiguresTypes
  <2> QED BY <1>1, <2>1 DEF NoLot
<1>3. PICK n \in Nat \ {0}, cost \in Nat, day \in Dates : n = q /\ cost = price[e] /\ day = today
  BY <1>1, FiguresAssumption DEF FiguresTypes
<1>4. PICK new : new = [old EXCEPT !.sold = @ + q]
  OBVIOUS
<1>5. new \in LotRow /\ new.sold = old.sold + n /\ new.allocated = old.allocated /\ new.rate \in 0..100
  <2>1. PICK x \in Nat, y \in Nat, z \in 0..100 :
          old = [here |-> TRUE, allocated |-> x, sold |-> y, rate |-> z]
    BY <1>2 DEF LotRow
  <2>2. new = [here |-> TRUE, allocated |-> x, sold |-> y + n, rate |-> z]
    BY <1>3, <1>4, <2>1
  <2>3. /\ new \in LotRow /\ new.sold = y + n /\ new.allocated = x /\ new.rate = z
        /\ old.sold = y /\ old.allocated = x
    BY <2>1, <2>2 DEF LotRow
  <2> QED BY <2>3
<1>6. PICK row : row = SaleRow(a, e, new, q)
  OBVIOUS
<1>7. /\ row \in Moved /\ row.agent = a /\ row.show = e /\ row.kind = "SALE"
      /\ 0 - row.quantity = n /\ row.price * (0 - row.quantity) = cost * n /\ cost * n \in Nat
  <2>1. InLot(new) \in Int
    BY <1>5 DEF InLot, LotRow
  <2>2. PICK x \in Int, y \in 0..100 : x = InLot(new) /\ y = new.rate
    BY <1>5, <2>1
  <2>3. cost * n \in Nat /\ cost * n * y \in Nat
    <3>1. \A i, j \in Nat : i * j \in Nat
      OBVIOUS
    <3>2. y \in Nat
      OBVIOUS
    <3> QED BY <3>1, <3>2
  <2>4. row = [kind |-> "SALE", agent |-> a, show |-> e, quantity |-> 0 - n,
               before |-> x, after |-> x - n, price |-> cost, commission |-> cost * n * y, day |-> day]
    BY <1>3, <1>6, <2>2 DEF SaleRow
  <2>5. PICK amount \in Nat, less \in Int : amount = cost * n * y /\ less = 0 - n
    BY <2>3
  <2>6. row \in LedgerRow
    BY <2>4, <2>5 DEF LedgerRow
  <2>7. /\ row.agent = a /\ row.show = e /\ row.kind = "SALE" /\ row.quantity = less
        /\ row.price = cost /\ less <= 0 /\ 0 - less = n
    BY <2>4, <2>5
  <2> QED BY <2>3, <2>6, <2>7 DEF Moved
<1>8. PICK o : o = [show |-> e, agent |-> a, quantity |-> n, lineTotal |-> cost * n,
                    coupon |-> FALSE, reduced |-> cost * n, day |-> day, status |-> "FINISHED",
                    eTickets |-> n, applied |-> 0]
  OBVIOUS
<1>9. /\ o \in Ordered /\ o.agent = a /\ o.agent # Online /\ o.lineTotal = cost * n
  <2>1. PICK line \in Nat : line = cost * n
    BY <1>7
  <2>2. o \in OrderRow
    BY <1>8, <2>1 DEF OrderRow
  <2>3. /\ o.eTickets = o.quantity /\ o.status = "FINISHED" /\ o.reduced = o.lineTotal
        /\ o.agent = a /\ o.lineTotal = cost * n
    BY <1>8
  <2>4. a # Online
    BY FiguresAssumption DEF Online
  <2> QED BY <2>2, <2>3, <2>4 DEF Ordered
<1>10. /\ lot' = [lot EXCEPT ![a][e] = new] /\ ledger' = Append(ledger, row)
       /\ placed' = Append(placed, o)
  BY <1>2, <1>3, <1>4, <1>6, <1>8 DEF Sell
<1>11. /\ new.sold = (IF lot[a][e].here THEN lot[a][e].sold ELSE 0) + (0 - row.quantity)
       /\ new.allocated = (IF lot[a][e].here THEN lot[a][e].allocated ELSE 0) + 0
  BY <1>1, <1>2, <1>5, <1>7 DEF LotRow
<1>12. /\ LotsOK' /\ ledger' \in Seq(Moved) /\ lot' \in [Agent -> [Show -> {NoLot} \cup LotRow]]
       /\ TotalOf(Payments(ledger'), SoldRows(ledger')) =
            TotalOf(Payments(ledger), SoldRows(ledger)) + row.price * (0 - row.quantity)
  BY <1>1, <1>5, <1>7, <1>10, <1>11, StockMoved
<1>13. /\ placed \in Seq(Ordered) /\ placed' \in Seq(Ordered) /\ Keeps(placed, placed')
       /\ TotalOf(Lines(placed'), DirectIn(placed')) = TotalOf(Lines(placed), DirectIn(placed)) + cost * n
       /\ TotalOf(Earnings(placed'), EarningIn(placed')) = TotalOf(Earnings(placed), EarningIn(placed))
  <2>1. placed \in Seq(Ordered)
    BY <1>1 DEF FiguresTypes
  <2> QED BY <1>9, <1>10, <2>1, OrdersGrow
<1>14. RevenueOK' /\ CreditOK'
  BY <1>1, <1>7, <1>12, <1>13 DEF RevenueOK, CreditOK
<1>15. FiguresTypes'
  BY <1>1, <1>12, <1>13 DEF FiguresTypes
<1>16. ReportsOK'
  BY <1>1, <1>13, ReportsKept
<1> QED BY <1>12, <1>14, <1>15, <1>16 DEF FiguresInv

LEMMA PlaceOrderInv ==
  ASSUME FiguresInv, NEW e \in Show, NEW q \in Lots, NEW coupon \in BOOLEAN, PlaceOrder(e, q, coupon)
  PROVE  FiguresInv'
<1>1. /\ FiguresTypes /\ LotsOK /\ RevenueOK /\ CreditOK /\ ReportsOK
      /\ UNCHANGED <<today, price, cut, lot, ledger, credited, reader, archive>>
  BY DEF FiguresInv, PlaceOrder
<1>2. PICK n \in Nat \ {0}, cost \in Nat, day \in Dates : n = q /\ cost = price[e] /\ day = today
  BY <1>1, FiguresAssumption DEF FiguresTypes
<1>3. PICK line \in Nat : line = cost * n
  <2>1. \A i, j \in Nat : i * j \in Nat
    OBVIOUS
  <2> QED BY <2>1
<1>4. PICK o : o = [show |-> e, agent |-> Online, quantity |-> n, lineTotal |-> line,
                    coupon |-> coupon, reduced |-> Reduced(line, coupon), day |-> day,
                    status |-> "SUBMITTED", eTickets |-> 0, applied |-> 0]
  OBVIOUS
<1>5. o \in Ordered /\ o.agent = Online /\ o.status # "FINISHED"
  <2>1. Reduced(line, coupon) \in Nat /\ (~coupon => Reduced(line, coupon) = line)
    BY DEF Reduced
  <2>2. o \in OrderRow
    BY <1>4, <2>1 DEF OrderRow
  <2>3. /\ o.agent = Online /\ o.status = "SUBMITTED" /\ o.coupon = coupon
        /\ o.reduced = Reduced(line, coupon) /\ o.lineTotal = line
    BY <1>4
  <2> QED BY <2>1, <2>2, <2>3 DEF Ordered
<1>6. placed' = Append(placed, o)
  BY <1>2, <1>3, <1>4 DEF PlaceOrder
<1>7. /\ placed \in Seq(Ordered) /\ placed' \in Seq(Ordered) /\ Keeps(placed, placed')
      /\ TotalOf(Lines(placed'), DirectIn(placed')) = TotalOf(Lines(placed), DirectIn(placed)) + 0
      /\ TotalOf(Earnings(placed'), EarningIn(placed')) = TotalOf(Earnings(placed), EarningIn(placed))
  <2>1. placed \in Seq(Ordered)
    BY <1>1 DEF FiguresTypes
  <2> QED BY <1>5, <1>6, <2>1, OrdersGrow
<1>8. TotalOf(Lines(placed), DirectIn(placed)) \in Nat
  <2>1. DirectIn(placed) \subseteq DOMAIN placed
    BY DEF DirectIn
  <2>2. IsFiniteSet(DirectIn(placed)) /\ \A i \in DirectIn(placed) : Lines(placed)[i] \in Nat
    BY <1>7, <2>1, RowsAreFinite, OrderedRows
  <2> QED BY <2>2, TotalIsNat
<1>9. RevenueOK' /\ CreditOK'
  BY <1>1, <1>7, <1>8 DEF RevenueOK, CreditOK
<1>10. FiguresTypes' /\ LotsOK'
  BY <1>1, <1>7 DEF FiguresTypes, LotsOK, LotOK
<1>11. ReportsOK'
  BY <1>1, <1>7, ReportsKept
<1> QED BY <1>9, <1>10, <1>11 DEF FiguresInv

LEMMA FinishOrderInv ==
  ASSUME FiguresInv, NEW i \in DOMAIN placed, FinishOrder(i)
  PROVE  FiguresInv'
<1>1. /\ FiguresTypes /\ LotsOK /\ RevenueOK /\ CreditOK /\ ReportsOK /\ placed[i].status = "SUBMITTED"
      /\ UNCHANGED <<today, price, cut, lot, ledger, reader, archive>>
  BY DEF FiguresInv, FinishOrder
<1>2. placed \in Seq(Ordered) /\ credited \in Nat /\ cut \in [BOOLEAN -> 0..100]
  BY <1>1 DEF FiguresTypes
<1>3. PICK c \in 0..100 : c = Retribution(placed[i].coupon)
  <2>1. placed[i].coupon \in BOOLEAN
    BY <1>2, OrderedRows DEF OrderRow
  <2> QED BY <1>2, <2>1 DEF Retribution
<1>4. /\ placed' = [placed EXCEPT ![i].status = "FINISHED", ![i].applied = c,
                                  ![i].eTickets = placed[i].quantity]
      /\ credited' = credited + Income(placed[i], c)
  BY <1>3 DEF FinishOrder
<1>5. /\ placed' \in Seq(Ordered) /\ Keeps(placed, placed')
      /\ TotalOf(Lines(placed'), DirectIn(placed')) = TotalOf(Lines(placed), DirectIn(placed))
      /\ TotalOf(Earnings(placed'), EarningIn(placed')) =
           TotalOf(Earnings(placed), EarningIn(placed)) + Income(placed[i], c)
      /\ Income(placed[i], c) \in Nat
  <2>1. PICK p \in Seq(Ordered) : p = placed
    BY <1>2
  <2>2. i \in DOMAIN p /\ p[i].status = "SUBMITTED"
    BY <1>1, <2>1
  <2>3. PICK new : new = DoneRow(p[i], c)
    OBVIOUS
  <2>4. /\ new \in Ordered /\ new.status = "FINISHED" /\ new.agent = Online /\ new.applied = c
        /\ new.reduced = p[i].reduced /\ new.lineTotal = p[i].lineTotal
        /\ new.quantity = p[i].quantity /\ new.day = p[i].day
    <3>1. PICK order \in Ordered : order = p[i]
      BY <2>1, <2>2, RowsAreFinite
    <3>2. order.status = "SUBMITTED" /\ new = DoneRow(order, c) /\ c \in 0..100
      BY <1>3, <2>2, <2>3, <3>1
    <3>3. new \in Ordered /\ IsDone(order, c, new)
      BY ONLY <3>1, <3>2, FinishedRow, ZenonT(30)
    <3> QED BY <3>1, <3>3 DEF IsDone
  <2>5. placed' = [p EXCEPT ![i] = new]
    BY <1>4, <2>1, <2>3 DEF DoneRow
  <2>6. PICK q : q = [p EXCEPT ![i] = new]
    OBVIOUS
  <2>7. p \in [1..Len(p) -> Ordered] /\ Len(p) \in Nat /\ DOMAIN p = 1..Len(p)
    BY <2>1
  <2>8. q \in [1..Len(p) -> Ordered] /\ q[i] = new /\ \A j \in DOMAIN p : j # i => q[j] = p[j]
    BY <2>2, <2>4, <2>6, <2>7
  <2>9. q \in Seq(Ordered) /\ DOMAIN q = DOMAIN p
    BY <2>7, <2>8
  <2>10. /\ Keeps(p, q) /\ TotalOf(Lines(q), DirectIn(q)) = TotalOf(Lines(p), DirectIn(p))
         /\ TotalOf(Earnings(q), EarningIn(q)) = TotalOf(Earnings(p), EarningIn(p)) + Income(p[i], c)
         /\ Income(p[i], c) \in Nat
    <3>1. IsDone(p[i], c, q[i]) /\ c \in 0..100
      BY <1>3, <2>4, <2>8 DEF IsDone
    <3> QED BY <2>2, <2>8, <2>9, <3>1, OrderEarns
  <2> QED BY <2>1, <2>5, <2>6, <2>9, <2>10
<1>6. RevenueOK' /\ CreditOK' /\ credited' \in Nat
  BY <1>1, <1>2, <1>4, <1>5 DEF RevenueOK, CreditOK
<1>7. FiguresTypes' /\ LotsOK'
  BY <1>1, <1>5, <1>6 DEF FiguresTypes, LotsOK, LotOK
<1>8. ReportsOK'
  BY <1>1, <1>2, <1>5, ReportsKept
<1> QED BY <1>6, <1>7, <1>8 DEF FiguresInv

\* What is on sale and when moves no figure.
LEMMA EditsInv ==
  ASSUME FiguresInv,
         \/ \E e \in Show, x \in Prices : EditPrice(e, x)
         \/ \E d \in BOOLEAN, c \in Cuts : EditCut(d, c)
         \/ NextDate \/ UNCHANGED figuresVars
  PROVE  FiguresInv'
<1>1. UNCHANGED <<lot, ledger, placed, credited, reader, archive>>
  BY DEF EditPrice, EditCut, NextDate, figuresVars
<1>2. FiguresTypes
  BY DEF FiguresInv
<1>3. today' \in Dates
  <2>1. ASSUME NextDate PROVE today' \in Dates
    <3>1. PICK S : S = {d \in Dates : d > today}
      OBVIOUS
    <3>2. S \subseteq Nat /\ S # {} /\ today' = Min(S) /\ S \subseteq Dates
      BY <2>1, <3>1, FiguresAssumption DEF NextDate
    <3>3. \E x \in S : \A y \in S : x <= y
      BY <3>2, LeastOf
    <3>4. Min(S) \in S
      BY <3>3 DEF Min
    <3> QED BY <3>2, <3>4
  <2> QED BY <1>2, <2>1 DEF EditPrice, EditCut, figuresVars, FiguresTypes
<1>4. price' \in [Show -> Nat] /\ cut' \in [BOOLEAN -> 0..100]
  BY <1>2, FiguresAssumption DEF EditPrice, EditCut, NextDate, figuresVars, FiguresTypes
<1>5. FiguresTypes'
  BY <1>1, <1>2, <1>3, <1>4 DEF FiguresTypes
<1>6. LotsOK' /\ RevenueOK' /\ CreditOK' /\ ReportsOK'
  BY <1>1 DEF FiguresInv, LotsOK, LotOK, RevenueOK, CreditOK, ReportsOK
<1> QED BY <1>5, <1>6 DEF FiguresInv

--------------------------------------------------------------------------------
\* The greatest of a set that has one.
LEMMA MaxIs ==
  ASSUME NEW S \in SUBSET Int, NEW x \in S, \A y \in S : y <= x
  PROVE  Max(S) = x
<1>1. \A y \in S : x >= y
  OBVIOUS
<1>2. \A y \in S : (\A z \in S : y >= z) => y = x
  <2> SUFFICES ASSUME NEW y \in S, \A z \in S : y >= z PROVE y = x
    OBVIOUS
  <2>1. y >= x /\ y <= x /\ y \in Int /\ x \in Int
    OBVIOUS
  <2> QED BY <2>1
<1> QED BY <1>1, <1>2 DEF Max

\* The month of a date, and the one that follows it.
LEMMA MonthOf ==
  ASSUME NEW d \in Dates
  PROVE  \E m, n \in MonthFirst :
           /\ m \in Nat /\ n \in Nat /\ m <= d /\ d < n /\ n - m <= 31
           /\ MonthBegin(d) = m /\ MonthBegin(m + 27 + 4) = n
<1>1. PICK m \in MonthFirst, n \in MonthFirst : m <= d /\ d < n /\ n - m <= 31
  BY CalendarAssumption
<1>2. /\ m \in Nat /\ n \in Nat /\ d \in Nat
      /\ \A k \in MonthFirst : k \in Nat
      /\ \A k, j \in MonthFirst : k < j => j - k >= 28
  BY CalendarAssumption, FiguresAssumption
<1>3. MonthBegin(d) = m
  <2>1. PICK S : S = {k \in MonthFirst : k <= d}
    OBVIOUS
  <2>2. S \in SUBSET Int /\ m \in S
    <3>1. S \subseteq MonthFirst /\ m \in S
      BY <1>1, <2>1
    <3>2. MonthFirst \subseteq Int
      BY CalendarAssumption
    <3> QED BY <3>1, <3>2
  <2>3. ASSUME NEW k \in S PROVE k <= m
    <3>1. k \in MonthFirst /\ k \in Nat /\ k <= d
      BY <1>2, <2>1
    <3>2. ~(m < k)
      <4>1. ASSUME m < k PROVE FALSE
        <5>1. k < n /\ k - m >= 28 /\ n - k >= 28
          BY <1>1, <1>2, <3>1, <4>1
        <5> QED BY <1>1, <1>2, <3>1, <5>1
      <4> QED BY <4>1
    <3> QED BY <1>2, <3>1, <3>2
  <2>4. Max(S) = m
    BY <2>2, <2>3, MaxIs
  <2> QED BY <2>1, <2>4 DEF MonthBegin
<1>4. MonthBegin(m + 27 + 4) = n
  <2>1. PICK S : S = {k \in MonthFirst : k <= m + 27 + 4}
    OBVIOUS
  <2>2. S \in SUBSET Int /\ n \in S
    <3>1. n <= m + 27 + 4
      BY <1>1, <1>2
    <3>2. S \subseteq MonthFirst /\ n \in S
      BY <1>1, <2>1, <3>1
    <3>3. MonthFirst \subseteq Int
      BY CalendarAssumption
    <3> QED BY <3>2, <3>3
  <2>3. ASSUME NEW k \in S PROVE k <= n
    <3>1. k \in MonthFirst /\ k \in Nat /\ k <= m + 31
      BY <1>2, <2>1
    <3>2. ~(n < k)
      <4>1. ASSUME n < k PROVE FALSE
        <5>1. k - n >= 28 /\ n - m >= 28
          BY <1>1, <1>2, <3>1, <4>1
        <5> QED BY <1>1, <1>2, <3>1, <5>1
      <4> QED BY <4>1
    <3> QED BY <1>2, <3>1, <3>2
  <2>4. Max(S) = n
    BY <2>2, <2>3, MaxIs
  <2> QED BY <2>1, <2>4 DEF MonthBegin
<1> QED BY <1>1, <1>2, <1>3, <1>4

\* The week of a day.
LEMMA WeekOf ==
  ASSUME NEW d \in Nat
  PROVE  \E k \in Int : d - (d % 7) = 7 * k
<1>1. d = 7 * (d \div 7) + (d % 7) /\ d \div 7 \in Int /\ d % 7 \in Int
  OBVIOUS
<1> QED BY <1>1

LEMMA PeriodType ==
  ASSUME NEW f \in Frequencies, NEW d \in Dates
  PROVE  ComputePeriod(f, d) \in Period
<1>1. f \in {"DAILY", "WEEKLY", "MONTHLY"} /\ d \in Nat
  BY FiguresAssumption
<1>2. PICK m, n : m \in Nat /\ n \in Nat /\ MonthBegin(d) = m /\ MonthBegin(m + 27 + 4) = n
  BY MonthOf
<1>3. PICK k \in Int : d - (d % 7) = 7 * k
  BY <1>1, WeekOf
<1>4. ComputePeriod(f, d) \in {[from |-> d, to |-> d], [from |-> 7 * k, to |-> 7 * k + 6], [from |-> m, to |-> n - 1]}
  BY <1>1, <1>2, <1>3 DEF ComputePeriod
<1>5. 7 * k \in Int /\ 7 * k + 6 \in Int /\ n - 1 \in Int
  BY <1>2
<1> QED BY <1>1, <1>2, <1>4, <1>5 DEF Period

\* Two periods of one frequency have no day in common, unless they are the same.
LEMMA PeriodsApart ==
  ASSUME NEW f \in Frequencies, NEW d \in Dates, NEW e \in Dates, NEW x \in Int,
         Within(x, ComputePeriod(f, d)), Within(x, ComputePeriod(f, e))
  PROVE  ComputePeriod(f, d) = ComputePeriod(f, e)
<1>1. f \in {"DAILY", "WEEKLY", "MONTHLY"} /\ d \in Nat /\ e \in Nat
  BY FiguresAssumption
<1>2. CASE f = "DAILY"
  <2>1. /\ ComputePeriod(f, d) = [from |-> d, to |-> d]
        /\ ComputePeriod(f, e) = [from |-> e, to |-> e]
    BY <1>2 DEF ComputePeriod
  <2>2. d <= x /\ x <= d /\ e <= x /\ x <= e
    BY <2>1 DEF Within
  <2>3. d = e
    BY <1>1, <2>2
  <2> QED BY <2>3
<1>3. CASE f = "WEEKLY"
  <2>1. PICK k \in Int : d - (d % 7) = 7 * k
    BY <1>1, WeekOf
  <2>2. PICK j \in Int : e - (e % 7) = 7 * j
    BY <1>1, WeekOf
  <2>3. /\ ComputePeriod(f, d) = [from |-> 7 * k, to |-> 7 * k + 6]
        /\ ComputePeriod(f, e) = [from |-> 7 * j, to |-> 7 * j + 6]
    BY <1>3, <2>1, <2>2 DEF ComputePeriod
  <2>4. 7 * k <= x /\ x <= 7 * k + 6 /\ 7 * j <= x /\ x <= 7 * j + 6
    BY <2>3 DEF Within
  <2>5. k = j
    BY <2>4
  <2> QED BY <2>3, <2>5
<1>4. CASE f = "MONTHLY"
  <2>1. PICK m \in MonthFirst, n \in MonthFirst :
           /\ m \in Nat /\ n \in Nat /\ m <= d /\ d < n /\ n - m <= 31
           /\ MonthBegin(d) = m /\ MonthBegin(m + 27 + 4) = n
    BY MonthOf
  <2>2. PICK i \in MonthFirst, j \in MonthFirst :
           /\ i \in Nat /\ j \in Nat /\ i <= e /\ e < j /\ j - i <= 31
           /\ MonthBegin(e) = i /\ MonthBegin(i + 27 + 4) = j
    BY MonthOf
  <2>3. /\ ComputePeriod(f, d) = [from |-> m, to |-> n - 1]
        /\ ComputePeriod(f, e) = [from |-> i, to |-> j - 1]
    BY <1>4, <2>1, <2>2 DEF ComputePeriod
  <2>4. m <= x /\ x < n /\ i <= x /\ x < j
    BY <2>1, <2>2, <2>3 DEF Within
  <2>5. /\ m < i => i - m >= 28
        /\ i < m => m - i >= 28
        /\ i < n /\ m < j
        /\ n - i >= 28 /\ j - m >= 28 /\ n - m >= 28 /\ j - i >= 28
        /\ n < j => j - n >= 28
        /\ j < n => n - j >= 28
    BY <1>1, <2>1, <2>2, <2>4, CalendarAssumption
  <2>6. m = i /\ n = j
    BY <1>1, <2>1, <2>2, <2>5
  <2> QED BY <2>3, <2>6
<1> QED BY <1>1, <1>2, <1>3, <1>4

--------------------------------------------------------------------------------
\* What a query of a report answers.
LEMMA Queried ==
  ASSUME FiguresTypes, NEW period
  PROVE  /\ Reported(period) = ReportedIn(placed, period) /\ Reported(period) \subseteq Nat
         /\ IsFiniteSet(Reported(period)) /\ Reported(period) \subseteq DOMAIN placed
         /\ Total([i \in Reported(period) |-> placed[i].quantity]) =
              TotalOf(Sizes(placed), ReportedIn(placed, period))
         /\ ETicketsOf(period) = TotalOf(Sizes(placed), ReportedIn(placed, period))
         /\ Total([i \in Reported(period) |-> placed[i].lineTotal]) \in Nat
         /\ TotalOf(Sizes(placed), ReportedIn(placed, period)) \in Nat
         /\ Cardinality(Reported(period)) <= TotalOf(Sizes(placed), ReportedIn(placed, period))
         /\ Cardinality(Reported(period)) \in Nat
<1>1. PICK R : R = Reported(period)
  OBVIOUS
<1>2. placed \in Seq(Ordered)
  BY DEF FiguresTypes
<1>3. R = ReportedIn(placed, period) /\ R \subseteq DOMAIN placed
      /\ \A i \in R : placed[i].status = "FINISHED"
  BY <1>1 DEF Reported, ReportedIn
<1>4. IsFiniteSet(R) /\ R \subseteq Nat
  BY <1>2, <1>3, RowsAreFinite
<1>5. \A i \in R : /\ Sizes(placed)[i] \in Nat \ {0} /\ Sizes(placed)[i] = placed[i].quantity
                   /\ placed[i].eTickets = placed[i].quantity /\ placed[i].lineTotal \in Nat
  BY <1>2, <1>3, OrderedRows
<1>6. Total([i \in R |-> placed[i].quantity]) = TotalOf(Sizes(placed), R)
  <2>1. PICK f : f = [i \in R |-> placed[i].quantity]
    OBVIOUS
  <2>2. DOMAIN f = R /\ \A i \in R : f[i] = Sizes(placed)[i]
    BY <1>5, <2>1
  <2>3. TotalOf(f, R) = TotalOf(Sizes(placed), R)
    BY <2>2, TotalOfSame
  <2> QED BY <2>1, <2>2, <2>3 DEF Total
<1>7. Total([i \in R |-> placed[i].eTickets]) = TotalOf(Sizes(placed), R)
  <2>1. PICK f : f = [i \in R |-> placed[i].eTickets]
    OBVIOUS
  <2>2. DOMAIN f = R /\ \A i \in R : f[i] = Sizes(placed)[i]
    BY <1>5, <2>1
  <2>3. TotalOf(f, R) = TotalOf(Sizes(placed), R)
    BY <2>2, TotalOfSame
  <2> QED BY <2>1, <2>2, <2>3 DEF Total
<1>8. Total([i \in R |-> placed[i].lineTotal]) \in Nat
  <2>1. PICK f : f = [i \in R |-> placed[i].lineTotal]
    OBVIOUS
  <2>2. DOMAIN f = R /\ \A i \in R : f[i] \in Nat
    BY <1>5, <2>1
  <2>3. TotalOf(f, R) \in Nat
    BY <1>4, <2>2, TotalIsNat
  <2> QED BY <2>1, <2>2, <2>3 DEF Total
<1>9. /\ Cardinality(R) \in Nat /\ Cardinality(R) <= TotalOf(Sizes(placed), R)
      /\ TotalOf(Sizes(placed), R) \in Nat
  <2>1. PICK f : f = Sizes(placed)
    OBVIOUS
  <2>2. \A i \in R : f[i] \in Nat \ {0}
    BY <1>5, <2>1
  <2>3. Cardinality(R) \in Nat /\ Cardinality(R) <= TotalOf(f, R)
    BY <1>4, <2>2, PartsAtMostTotal
  <2>4. TotalOf(f, R) \in Nat
    BY <1>4, <2>2, TotalIsNat
  <2> QED BY <2>1, <2>3, <2>4
<1> QED BY <1>1, <1>3, <1>4, <1>6, <1>7, <1>8, <1>9 DEF ETicketsOf

LEMMA BeginReportInv ==
  ASSUME FiguresInv, NEW f \in Frequencies, BeginReport(f)
  PROVE  FiguresInv'
<1>1. /\ FiguresTypes /\ LotsOK /\ RevenueOK /\ CreditOK /\ ReportsOK
      /\ UNCHANGED <<today, price, cut, lot, ledger, placed, credited, archive>>
      /\ reader' = [pc |-> "revenue", frequency |-> f, period |-> ComputePeriod(f, today),
                    orders |-> {}, revenue |-> 0, tickets |-> 0, bySeller |-> 0]
  BY DEF FiguresInv, BeginReport
<1>2. PICK p \in Period : p = ComputePeriod(f, today)
  BY <1>1, PeriodType DEF FiguresTypes
<1>3. reader' = [pc |-> "revenue", frequency |-> f, period |-> p,
                 orders |-> {}, revenue |-> 0, tickets |-> 0, bySeller |-> 0]
  BY <1>1, <1>2
<1>4. reader' \in Reading /\ reader'.pc = "revenue" /\ reader'.frequency = f
      /\ reader'.period = p /\ reader'.orders = {}
  BY <1>3 DEF Reading
<1>5. FiguresTypes'
  BY <1>1, <1>4 DEF FiguresTypes
<1>6. CountedIn(placed, reader')
  <2>1. today \in Dates
    BY <1>1 DEF FiguresTypes
  <2> QED BY <1>2, <1>4, <2>1 DEF CountedIn
<1>7. ReportsOK'
  BY <1>1, <1>6 DEF ReportsOK
<1> QED BY <1>1, <1>5, <1>7 DEF FiguresInv, LotsOK, LotOK, RevenueOK, CreditOK

\* The reader, field by field.
LEMMA ReaderIs ==
  ASSUME FiguresTypes, reader.pc \in {"revenue", "tickets", "sellers", "events"}
  PROVE  /\ reader \in Reading /\ reader # NoReader
         /\ \E f \in Frequencies, p \in Period, orders \in SUBSET Nat, x, y, z \in Nat :
              reader = [pc |-> reader.pc, frequency |-> f, period |-> p, orders |-> orders,
                        revenue |-> x, tickets |-> y, bySeller |-> z]
<1>1. reader # NoReader
  BY DEF NoReader
<1>2. reader \in Reading
  BY <1>1 DEF FiguresTypes
<1> QED BY <1>1, <1>2 DEF Reading

LEMMA ReadRevenueInv ==
  ASSUME FiguresInv, ReadRevenue
  PROVE  FiguresInv'
<1>1. /\ FiguresTypes /\ LotsOK /\ RevenueOK /\ CreditOK /\ ReportsOK /\ reader.pc = "revenue"
      /\ UNCHANGED <<today, price, cut, lot, ledger, placed, credited, archive>>
  BY DEF FiguresInv, ReadRevenue
<1>2. PICK f \in Frequencies, p \in Period, orders \in SUBSET Nat, x \in Nat, y \in Nat, z \in Nat :
              reader = [pc |-> "revenue", frequency |-> f, period |-> p, orders |-> orders,
                        revenue |-> x, tickets |-> y, bySeller |-> z]
  BY <1>1, ReaderIs
<1>3. PICK R, n : R = Reported(p) /\ n = Total([i \in Reported(p) |-> placed[i].lineTotal])
  OBVIOUS
<1>4. R \in SUBSET Nat /\ n \in Nat /\ R = ReportedIn(placed, p)
  BY <1>1, <1>3, Queried
<1>5. reader' = [pc |-> "tickets", frequency |-> f, period |-> p, orders |-> R,
                 revenue |-> n, tickets |-> y, bySeller |-> z]
  <2>1. reader' = [reader EXCEPT !.pc = "tickets", !.orders = R, !.revenue = n]
    BY <1>2, <1>3 DEF ReadRevenue
  <2>2. PICK r1 : r1 = [pc |-> "tickets", frequency |-> f, period |-> p, orders |-> orders,
                 revenue |-> x, tickets |-> y, bySeller |-> z]
    OBVIOUS
  <2>3. PICK r2 : r2 = [pc |-> "tickets", frequency |-> f, period |-> p, orders |-> R,
                 revenue |-> x, tickets |-> y, bySeller |-> z]
    OBVIOUS
  <2>4. [reader EXCEPT !.pc = "tickets"] = r1
    BY <1>2, <2>2
  <2>5. [r1 EXCEPT !.orders = R] = r2
    BY <2>2, <2>3
  <2>6. [r2 EXCEPT !.revenue = n] = [pc |-> "tickets", frequency |-> f, period |-> p, orders |-> R,
                 revenue |-> n, tickets |-> y, bySeller |-> z]
    BY <2>3
  <2>7. [reader EXCEPT !.pc = "tickets", !.orders = R, !.revenue = n] =
          [[[reader EXCEPT !.pc = "tickets"] EXCEPT !.orders = R] EXCEPT !.revenue = n]
    OBVIOUS
  <2> QED BY <2>1, <2>4, <2>5, <2>6, <2>7
<1>6. reader' \in Reading /\ reader'.pc = "tickets" /\ reader'.frequency = f
      /\ reader'.period = p /\ reader'.orders = R
  BY <1>4, <1>5 DEF Reading
<1>7. FiguresTypes'
  BY <1>1, <1>6 DEF FiguresTypes
<1>8. \E d \in Dates : p = ComputePeriod(f, d)
  BY <1>1, <1>2, ReaderIs DEF ReportsOK, CountedIn
<1>9. CountedIn(placed, reader')
  BY <1>4, <1>6, <1>8 DEF CountedIn
<1>10. ReportsOK'
  BY <1>1, <1>9 DEF ReportsOK
<1> QED BY <1>1, <1>7, <1>10 DEF FiguresInv, LotsOK, LotOK, RevenueOK, CreditOK

LEMMA ReadTicketsInv ==
  ASSUME FiguresInv, ReadTickets
  PROVE  FiguresInv'
<1>1. /\ FiguresTypes /\ LotsOK /\ RevenueOK /\ CreditOK /\ ReportsOK /\ reader.pc = "tickets"
      /\ UNCHANGED <<today, price, cut, lot, ledger, placed, credited, archive>>
  BY DEF FiguresInv, ReadTickets
<1>2. PICK f \in Frequencies, p \in Period, orders \in SUBSET Nat, x \in Nat, y \in Nat, z \in Nat :
              reader = [pc |-> "tickets", frequency |-> f, period |-> p, orders |-> orders,
                        revenue |-> x, tickets |-> y, bySeller |-> z]
  BY <1>1, ReaderIs
<1>3. PICK n \in Nat : n = Total([i \in Reported(p) |-> placed[i].quantity])
  BY <1>1, Queried
<1>4. /\ n = TotalOf(Sizes(placed), ReportedIn(placed, p)) /\ IsFiniteSet(ReportedIn(placed, p))
      /\ Cardinality(ReportedIn(placed, p)) <= n /\ Cardinality(ReportedIn(placed, p)) \in Nat
  BY <1>1, <1>3, Queried
<1>5. reader' = [pc |-> "sellers", frequency |-> f, period |-> p, orders |-> orders,
                 revenue |-> x, tickets |-> n, bySeller |-> z]
  <2>1. reader' = [reader EXCEPT !.pc = "sellers", !.tickets = n]
    BY <1>2, <1>3 DEF ReadTickets
  <2>2. PICK r1 : r1 = [pc |-> "sellers", frequency |-> f, period |-> p, orders |-> orders,
                 revenue |-> x, tickets |-> y, bySeller |-> z]
    OBVIOUS
  <2>3. [reader EXCEPT !.pc = "sellers"] = r1
    BY <1>2, <2>2
  <2>4. [r1 EXCEPT !.tickets = n] = [pc |-> "sellers", frequency |-> f, period |-> p, orders |-> orders,
                 revenue |-> x, tickets |-> n, bySeller |-> z]
    BY <2>2
  <2>5. [reader EXCEPT !.pc = "sellers", !.tickets = n] =
          [[reader EXCEPT !.pc = "sellers"] EXCEPT !.tickets = n]
    OBVIOUS
  <2> QED BY <2>1, <2>3, <2>4, <2>5
<1>6. reader' \in Reading /\ reader'.pc = "sellers" /\ reader'.frequency = f
      /\ reader'.period = p /\ reader'.orders = orders /\ reader'.tickets = n
  BY <1>5 DEF Reading
<1>7. FiguresTypes'
  BY <1>1, <1>6 DEF FiguresTypes
<1>8. (\E d \in Dates : p = ComputePeriod(f, d)) /\ orders \subseteq ReportedIn(placed, p)
  BY <1>1, <1>2, ReaderIs DEF ReportsOK, CountedIn
<1>9. Cardinality(orders) \in Nat /\ Cardinality(orders) <= n
  <2>1. Cardinality(orders) <= Cardinality(ReportedIn(placed, p)) /\ IsFiniteSet(orders)
    BY <1>4, <1>8, FS_Subset
  <2> QED BY <1>4, <2>1, FS_CardinalityType
<1>10. CountedIn(placed, reader')
  BY <1>4, <1>6, <1>8, <1>9 DEF CountedIn
<1>11. ReportsOK'
  BY <1>1, <1>10 DEF ReportsOK
<1> QED BY <1>1, <1>7, <1>11 DEF FiguresInv, LotsOK, LotOK, RevenueOK, CreditOK

LEMMA ReadSellersInv ==
  ASSUME FiguresInv, ReadSellers
  PROVE  FiguresInv'
<1>1. /\ FiguresTypes /\ LotsOK /\ RevenueOK /\ CreditOK /\ ReportsOK /\ reader.pc = "sellers"
      /\ UNCHANGED <<today, price, cut, lot, ledger, placed, credited, archive>>
  BY DEF FiguresInv, ReadSellers
<1>2. PICK f \in Frequencies, p \in Period, orders \in SUBSET Nat, x \in Nat, y \in Nat, z \in Nat :
              reader = [pc |-> "sellers", frequency |-> f, period |-> p, orders |-> orders,
                        revenue |-> x, tickets |-> y, bySeller |-> z]
  BY <1>1, ReaderIs
<1>3. PICK n \in Nat : n = ETicketsOf(p) /\ n = TotalOf(Sizes(placed), ReportedIn(placed, p))
  BY <1>1, Queried
<1>4. reader' = [pc |-> "events", frequency |-> f, period |-> p, orders |-> orders,
                 revenue |-> x, tickets |-> y, bySeller |-> n]
  <2>1. reader' = [reader EXCEPT !.pc = "events", !.bySeller = n]
    BY <1>2, <1>3 DEF ReadSellers
  <2>2. PICK r1 : r1 = [pc |-> "events", frequency |-> f, period |-> p, orders |-> orders,
                 revenue |-> x, tickets |-> y, bySeller |-> z]
    OBVIOUS
  <2>3. [reader EXCEPT !.pc = "events"] = r1
    BY <1>2, <2>2
  <2>4. [r1 EXCEPT !.bySeller = n] = [pc |-> "events", frequency |-> f, period |-> p, orders |-> orders,
                 revenue |-> x, tickets |-> y, bySeller |-> n]
    BY <2>2
  <2>5. [reader EXCEPT !.pc = "events", !.bySeller = n] =
          [[reader EXCEPT !.pc = "events"] EXCEPT !.bySeller = n]
    OBVIOUS
  <2> QED BY <2>1, <2>3, <2>4, <2>5
<1>5. reader' \in Reading /\ reader'.pc = "events" /\ reader'.frequency = f /\ reader'.period = p
      /\ reader'.orders = orders /\ reader'.tickets = y /\ reader'.bySeller = n
  BY <1>4 DEF Reading
<1>6. FiguresTypes'
  BY <1>1, <1>5 DEF FiguresTypes
<1>7. /\ \E d \in Dates : p = ComputePeriod(f, d)
      /\ orders \subseteq ReportedIn(placed, p) /\ Cardinality(orders) <= y /\ y <= n
  BY <1>1, <1>2, <1>3, ReaderIs DEF ReportsOK, CountedIn
<1>8. CountedIn(placed, reader')
  BY <1>3, <1>5, <1>7 DEF CountedIn
<1>9. ReportsOK'
  BY <1>1, <1>8 DEF ReportsOK
<1> QED BY <1>1, <1>6, <1>9 DEF FiguresInv, LotsOK, LotOK, RevenueOK, CreditOK

LEMMA ArchiveReportInv ==
  ASSUME FiguresInv, ArchiveReport
  PROVE  FiguresInv'
<1>1. /\ FiguresTypes /\ LotsOK /\ RevenueOK /\ CreditOK /\ ReportsOK /\ reader.pc = "events"
      /\ UNCHANGED <<today, price, cut, lot, ledger, placed, credited>> /\ reader' = NoReader
  BY DEF FiguresInv, ArchiveReport
<1>2. PICK r : r = [frequency |-> reader.frequency, period |-> reader.period, orders |-> reader.orders,
                    revenue |-> reader.revenue, tickets |-> reader.tickets,
                    bySeller |-> reader.bySeller, byEvent |-> ETicketsOf(reader.period)]
  OBVIOUS
<1>3. archive' = archive \cup {r}
  BY <1>2 DEF ArchiveReport
<1>4. CountedIn(placed, reader) /\ reader \in Reading /\ reader.frequency \in Frequencies
  BY <1>1, ReaderIs DEF ReportsOK, Reading
<1>5. /\ r.frequency = reader.frequency /\ r.period = reader.period /\ r.orders = reader.orders
      /\ r.tickets = reader.tickets /\ r.bySeller = reader.bySeller
      /\ r.byEvent = TotalOf(Sizes(placed), ReportedIn(placed, reader.period))
  BY <1>1, <1>2, Queried
<1>6. ArchivedIn(placed, r)
  BY <1>1, <1>4, <1>5 DEF CountedIn, ArchivedIn
<1>7. ReportsOK'
  BY <1>1, <1>3, <1>6 DEF ReportsOK
<1>8. FiguresTypes'
  BY <1>1 DEF FiguresTypes
<1> QED BY <1>1, <1>7, <1>8 DEF FiguresInv, LotsOK, LotOK, RevenueOK, CreditOK

LEMMA FiguresInvNext ==
  ASSUME FiguresInv, [FiguresNext]_figuresVars
  PROVE  FiguresInv'
<1>1. ASSUME PostSale PROVE FiguresInv'
  BY <1>1, SellInv DEF PostSale
<1>2. ASSUME PostAllocation PROVE FiguresInv'
  BY <1>2, AllocateInv DEF PostAllocation
<1>3. ASSUME \E e \in Show, q \in Lots, coupon \in BOOLEAN : PlaceOrder(e, q, coupon) PROVE FiguresInv'
  BY <1>3, PlaceOrderInv
<1>4. ASSUME \E i \in DOMAIN placed : FinishOrder(i) PROVE FiguresInv'
  BY <1>4, FinishOrderInv
<1>5. ASSUME \/ \E e \in Show, x \in Prices : EditPrice(e, x)
             \/ \E d \in BOOLEAN, c \in Cuts : EditCut(d, c)
             \/ NextDate \/ UNCHANGED figuresVars
      PROVE  FiguresInv'
  BY <1>5, EditsInv
<1>6. ASSUME \E f \in Frequencies : BeginReport(f) PROVE FiguresInv'
  BY <1>6, BeginReportInv
<1>7. ASSUME ReadRevenue \/ ReadTickets \/ ReadSellers \/ ArchiveReport PROVE FiguresInv'
  BY <1>7, ReadRevenueInv, ReadTicketsInv, ReadSellersInv, ArchiveReportInv
<1> QED BY <1>1, <1>2, <1>3, <1>4, <1>5, <1>6, <1>7 DEF FiguresNext

--------------------------------------------------------------------------------
Fees(l) == [i \in DOMAIN l |-> l[i].commission]

\* The figures of some sales.
LEMMA SumUpIs ==
  ASSUME FiguresTypes, NEW rows, rows \subseteq SoldRows(ledger)
  PROVE  /\ SumUp(rows) = [tickets    |-> TotalOf(Quantities(ledger), rows),
                           revenue    |-> TotalOf(Payments(ledger), rows),
                           commission |-> TotalOf(Fees(ledger), rows)]
         /\ IsFiniteSet(rows)
         /\ \A i \in rows : /\ Quantities(ledger)[i] \in Nat /\ Payments(ledger)[i] \in Nat
                            /\ Fees(ledger)[i] \in Nat
<1>1. PICK l \in Seq(Moved) : l = ledger
  BY DEF FiguresTypes
<1>2. rows \subseteq DOMAIN l /\ \A i \in rows : l[i].kind = "SALE"
  BY <1>1 DEF SoldRows
<1>3. IsFiniteSet(rows)
  BY <1>2, RowsAreFinite
<1>4. ASSUME NEW i \in rows
      PROVE  /\ Quantities(l)[i] \in Nat /\ Payments(l)[i] \in Nat /\ Fees(l)[i] \in Nat
             /\ Quantities(l)[i] = 0 - l[i].quantity /\ Fees(l)[i] = l[i].commission
             /\ Payments(l)[i] = l[i].price * (0 - l[i].quantity)
  <2>1. i \in DOMAIN l /\ l[i].kind = "SALE"
    BY <1>2, <1>4
  <2>2. Fees(l)[i] = l[i].commission
    BY <2>1 DEF Fees
  <2> QED BY <2>1, <2>2, MovedRows
<1>5. Total([i \in rows |-> 0 - l[i].quantity]) = TotalOf(Quantities(l), rows)
  <2>1. PICK f : f = [i \in rows |-> 0 - l[i].quantity]
    OBVIOUS
  <2>2. DOMAIN f = rows /\ \A i \in rows : f[i] = Quantities(l)[i]
    BY <1>4, <2>1
  <2>3. TotalOf(f, rows) = TotalOf(Quantities(l), rows)
    BY <2>2, TotalOfSame
  <2> QED BY <2>1, <2>2, <2>3 DEF Total
<1>6. Total([i \in rows |-> l[i].price * (0 - l[i].quantity)]) = TotalOf(Payments(l), rows)
  <2>1. PICK f : f = [i \in rows |-> l[i].price * (0 - l[i].quantity)]
    OBVIOUS
  <2>2. DOMAIN f = rows /\ \A i \in rows : f[i] = Payments(l)[i]
    BY <1>4, <2>1
  <2>3. TotalOf(f, rows) = TotalOf(Payments(l), rows)
    BY <2>2, TotalOfSame
  <2> QED BY <2>1, <2>2, <2>3 DEF Total
<1>7. Total([i \in rows |-> l[i].commission]) = TotalOf(Fees(l), rows)
  <2>1. PICK f : f = [i \in rows |-> l[i].commission]
    OBVIOUS
  <2>2. DOMAIN f = rows /\ \A i \in rows : f[i] = Fees(l)[i]
    BY <1>4, <2>1
  <2>3. TotalOf(f, rows) = TotalOf(Fees(l), rows)
    BY <2>2, TotalOfSame
  <2> QED BY <2>1, <2>2, <2>3 DEF Total
<1> QED BY <1>1, <1>3, <1>4, <1>5, <1>6, <1>7 DEF SumUp

\* A total of one figure of each group is the total over them all.
Group(S, g, k) == {x \in S : g[x] = k}

LEMMA GroupedTotal ==
  ASSUME NEW K, IsFiniteSet(K), NEW S, IsFiniteSet(S), NEW f, \A x \in S : f[x] \in Nat,
         NEW g, \A x \in S : g[x] \in K,
         NEW h, DOMAIN h = K, \A k \in K : h[k] = TotalOf(f, Group(S, g, k))
  PROVE  Total(h) = TotalOf(f, S)
<1>1. PICK sums : sums = [k \in K |-> TotalOf(f, {x \in S : g[x] = k})]
  OBVIOUS
<1>2. TotalOf(sums, K) = TotalOf(f, S)
  BY <1>1, TotalOfGroups
<1>3. \A k \in K : h[k] = sums[k]
  BY <1>1 DEF Group
<1>4. TotalOf(h, K) = TotalOf(sums, K)
  BY <1>3, TotalOfSame
<1> QED BY <1>2, <1>4 DEF Total

\* The figures of some sales, taken group by group.
LEMMA GroupFigures ==
  ASSUME FiguresTypes, NEW rows, rows \subseteq SoldRows(ledger), NEW K, IsFiniteSet(K),
         NEW g, \A i \in rows : g[i] \in K,
         NEW F, DOMAIN F = K, \A k \in K : F[k] = SumUp(Group(rows, g, k))
  PROVE  SumOver(F) = SumUp(rows)
<1>1. PICK l : l = ledger
  OBVIOUS
<1>2. /\ SumUp(rows) = [tickets    |-> TotalOf(Quantities(l), rows),
                        revenue    |-> TotalOf(Payments(l), rows),
                        commission |-> TotalOf(Fees(l), rows)]
      /\ IsFiniteSet(rows)
      /\ \A i \in rows : Quantities(l)[i] \in Nat /\ Payments(l)[i] \in Nat /\ Fees(l)[i] \in Nat
  BY <1>1, SumUpIs
<1>3. ASSUME NEW k \in K
      PROVE  F[k] = [tickets    |-> TotalOf(Quantities(l), Group(rows, g, k)),
                     revenue    |-> TotalOf(Payments(l), Group(rows, g, k)),
                     commission |-> TotalOf(Fees(l), Group(rows, g, k))]
  <2>1. PICK group : group = Group(rows, g, k)
    OBVIOUS
  <2>2. group \subseteq SoldRows(ledger) /\ F[k] = SumUp(group)
    BY <2>1 DEF Group
  <2>3. SumUp(group) = [tickets    |-> TotalOf(Quantities(l), group),
                        revenue    |-> TotalOf(Payments(l), group),
                        commission |-> TotalOf(Fees(l), group)]
    BY <1>1, <2>2, SumUpIs
  <2> QED BY <2>1, <2>2, <2>3
<1>4. PICK tickets, revenue, commission :
        /\ tickets = [x \in K |-> F[x].tickets] /\ revenue = [x \in K |-> F[x].revenue]
        /\ commission = [x \in K |-> F[x].commission]
  OBVIOUS
<1>5. /\ DOMAIN tickets = K /\ DOMAIN revenue = K /\ DOMAIN commission = K
      /\ \A k \in K : /\ tickets[k] = F[k].tickets /\ revenue[k] = F[k].revenue
                      /\ commission[k] = F[k].commission
  BY <1>4
<1>6. \A k \in K : /\ tickets[k] = TotalOf(Quantities(l), Group(rows, g, k))
                   /\ revenue[k] = TotalOf(Payments(l), Group(rows, g, k))
                   /\ commission[k] = TotalOf(Fees(l), Group(rows, g, k))
  BY <1>3, <1>5
<1>7. PICK q, pay, fee : q = Quantities(l) /\ pay = Payments(l) /\ fee = Fees(l)
  OBVIOUS
<1>8. Total(tickets) = TotalOf(q, rows)
  <2>1. \A i \in rows : q[i] \in Nat
    BY <1>2, <1>7
  <2>2. \A k \in K : tickets[k] = TotalOf(q, Group(rows, g, k))
    BY <1>6, <1>7
  <2> QED BY <1>2, <1>5, <2>1, <2>2, GroupedTotal
<1>9. Total(revenue) = TotalOf(pay, rows)
  <2>1. \A i \in rows : pay[i] \in Nat
    BY <1>2, <1>7
  <2>2. \A k \in K : revenue[k] = TotalOf(pay, Group(rows, g, k))
    BY <1>6, <1>7
  <2> QED BY <1>2, <1>5, <2>1, <2>2, GroupedTotal
<1>10. Total(commission) = TotalOf(fee, rows)
  <2>1. \A i \in rows : fee[i] \in Nat
    BY <1>2, <1>7
  <2>2. \A k \in K : commission[k] = TotalOf(fee, Group(rows, g, k))
    BY <1>6, <1>7
  <2> QED BY <1>2, <1>5, <2>1, <2>2, GroupedTotal
<1> QED BY <1>2, <1>4, <1>7, <1>8, <1>9, <1>10 DEF SumOver

\* Every date is within all time.
LEMMA AllTime ==
  ASSUME NEW d \in Dates
  PROVE  Within(d, Whenever)
<1>1. PICK x \in Dates : \A y \in Dates : y <= x
  BY FiguresAssumption, GreatestOf
<1>2. Max(Dates) = x
  <2>1. Dates \in SUBSET Int
    BY FiguresAssumption
  <2> QED BY <1>1, <2>1, MaxIs
<1>3. Whenever.from = 0 /\ Whenever.to = x
  BY <1>2 DEF Whenever
<1>4. d \in Nat /\ d <= x
  BY <1>1, FiguresAssumption
<1> QED BY <1>3, <1>4 DEF Within

\* The sales of a period.
LEMMA SalesAre ==
  ASSUME FiguresTypes
  PROVE  /\ \A p : Sales(p) \subseteq SoldRows(ledger)
         /\ Sales(Whenever) = SoldRows(ledger)
         /\ SoldRows(ledger) \subseteq DOMAIN ledger
         /\ \A i \in SoldRows(ledger) : /\ ledger[i].show \in Show /\ ledger[i].agent \in Agent
                                        /\ ledger[i].day \in Dates
<1>1. ledger \in Seq(Moved)
  BY DEF FiguresTypes
<1>2. SoldRows(ledger) \subseteq DOMAIN ledger /\ \A p : Sales(p) \subseteq SoldRows(ledger)
  BY DEF SoldRows, Sales
<1>3. \A i \in SoldRows(ledger) : /\ ledger[i].show \in Show /\ ledger[i].agent \in Agent
                                  /\ ledger[i].day \in Dates
  BY <1>1, <1>2, MovedRows
<1>4. Sales(Whenever) = SoldRows(ledger)
  BY <1>3, AllTime DEF Sales, SoldRows
<1> QED BY <1>2, <1>3, <1>4

\* A seller's own figures are those his super-seller sees of him.
LEMMA SameSeller ==
  ASSUME FiguresTypes, NEW a, NEW p
  PROVE  SellerOverview(a, p) = StatsBySeller(a, p)
<1>1. PICK rows : rows = {i \in Sales(p) : ledger[i].agent = a}
  OBVIOUS
<1>2. rows \subseteq SoldRows(ledger)
  BY <1>1, SalesAre
<1>3. ASSUME NEW i \in rows
      PROVE  (IF ledger[i].quantity < 0 THEN 0 - ledger[i].quantity ELSE ledger[i].quantity)
                = 0 - ledger[i].quantity
  <2>1. i \in DOMAIN ledger /\ ledger[i].kind = "SALE" /\ ledger \in Seq(Moved)
    BY <1>2, <1>3 DEF SoldRows, FiguresTypes
  <2>2. ledger[i].quantity \in Int /\ 0 - ledger[i].quantity \in Nat
    BY <2>1, MovedRows
  <2> QED BY <2>2
<1>4. /\ [i \in rows |-> IF ledger[i].quantity < 0 THEN 0 - ledger[i].quantity ELSE ledger[i].quantity]
           = [i \in rows |-> 0 - ledger[i].quantity]
      /\ [i \in rows |-> ledger[i].price
                           * (IF ledger[i].quantity < 0 THEN 0 - ledger[i].quantity ELSE ledger[i].quantity)]
           = [i \in rows |-> ledger[i].price * (0 - ledger[i].quantity)]
  BY <1>3
<1>5. SellerOverview(a, p) =
        [tickets    |-> Total([i \in rows |-> IF ledger[i].quantity < 0 THEN 0 - ledger[i].quantity
                                                                      ELSE ledger[i].quantity]),
         revenue    |-> Total([i \in rows |-> ledger[i].price
                           * (IF ledger[i].quantity < 0 THEN 0 - ledger[i].quantity ELSE ledger[i].quantity)]),
         commission |-> Total([i \in rows |-> ledger[i].commission])]
  BY <1>1 DEF SellerOverview
<1>6. StatsBySeller(a, p) = SumUp(rows)
  BY <1>1 DEF StatsBySeller
<1> QED BY <1>4, <1>5, <1>6 DEF SumUp

\* Whatever the sales are grouped by, they come to the same.
LEMMA FiguresByGroup ==
  ASSUME FiguresTypes, NEW p
  PROVE  /\ StatsOverview(p) = SumOver([e \in Show |-> StatsByEvent(e, p)])
         /\ StatsOverview(p) = SumOver([a \in Agent |-> StatsBySeller(a, p)])
         /\ StatsOverview(p) = SumOver([d \in Dates |-> StatsByDay(d, p)])
         /\ StatsOverview(p) = SumOver([w \in {d \div 7 : d \in Dates} |-> StatsByWeek(w, p)])
         /\ StatsOverview(p) = SumOver([a \in Agent |-> SellerOverview(a, p)])
<1>1. PICK rows : rows = Sales(p)
  OBVIOUS
<1>2. /\ rows \subseteq SoldRows(ledger)
      /\ \A i \in rows : ledger[i].show \in Show /\ ledger[i].agent \in Agent /\ ledger[i].day \in Dates
  BY <1>1, SalesAre
<1>3. StatsOverview(p) = SumUp(rows)
  BY <1>1 DEF StatsOverview
<1>4. SumOver([e \in Show |-> StatsByEvent(e, p)]) = SumUp(rows)
  <2>1. PICK F, g, K : /\ F = [e \in Show |-> StatsByEvent(e, p)] /\ K = Show
                       /\ g = [i \in rows |-> ledger[i].show]
    OBVIOUS
  <2>2. /\ IsFiniteSet(K) /\ DOMAIN F = K /\ \A i \in rows : g[i] \in K
        /\ \A k \in K : F[k] = SumUp(Group(rows, g, k))
    <3>1. \A k : Group(rows, g, k) = {i \in Sales(p) : ledger[i].show = k}
      BY <1>1, <2>1 DEF Group
    <3> QED BY <1>2, <2>1, <3>1, FiguresAssumption DEF StatsByEvent
  <2>3. SumOver(F) = SumUp(rows)
    BY <1>2, <2>2, GroupFigures
  <2> QED BY <2>1, <2>3
<1>5. SumOver([a \in Agent |-> StatsBySeller(a, p)]) = SumUp(rows)
  <2>1. PICK F, g, K : /\ F = [a \in Agent |-> StatsBySeller(a, p)] /\ K = Agent
                       /\ g = [i \in rows |-> ledger[i].agent]
    OBVIOUS
  <2>2. /\ IsFiniteSet(K) /\ DOMAIN F = K /\ \A i \in rows : g[i] \in K
        /\ \A k \in K : F[k] = SumUp(Group(rows, g, k))
    <3>1. \A k : Group(rows, g, k) = {i \in Sales(p) : ledger[i].agent = k}
      BY <1>1, <2>1 DEF Group
    <3> QED BY <1>2, <2>1, <3>1, FiguresAssumption DEF StatsBySeller
  <2>3. SumOver(F) = SumUp(rows)
    BY <1>2, <2>2, GroupFigures
  <2> QED BY <2>1, <2>3
<1>6. SumOver([d \in Dates |-> StatsByDay(d, p)]) = SumUp(rows)
  <2>1. PICK F, g, K : /\ F = [d \in Dates |-> StatsByDay(d, p)] /\ K = Dates
                       /\ g = [i \in rows |-> ledger[i].day]
    OBVIOUS
  <2>2. /\ IsFiniteSet(K) /\ DOMAIN F = K /\ \A i \in rows : g[i] \in K
        /\ \A k \in K : F[k] = SumUp(Group(rows, g, k))
    <3>1. \A k : Group(rows, g, k) = {i \in Sales(p) : ledger[i].day = k}
      BY <1>1, <2>1 DEF Group
    <3> QED BY <1>2, <2>1, <3>1, FiguresAssumption DEF StatsByDay
  <2>3. SumOver(F) = SumUp(rows)
    BY <1>2, <2>2, GroupFigures
  <2> QED BY <2>1, <2>3
<1>7. SumOver([w \in {d \div 7 : d \in Dates} |-> StatsByWeek(w, p)]) = SumUp(rows)
  <2>1. PICK week, K : week = [d \in Dates |-> d \div 7] /\ K = {d \div 7 : d \in Dates}
    OBVIOUS
  <2>2. PICK F, g : /\ F = [w \in K |-> StatsByWeek(w, p)]
                    /\ g = [i \in rows |-> ledger[i].day \div 7]
    OBVIOUS
  <2>3. IsFiniteSet(K)
    <3>1. week \in Surjection(Dates, K)
      BY <2>1 DEF Surjection
    <3> QED BY <3>1, FiguresAssumption, FS_Surjection
  <2>4. /\ DOMAIN F = K /\ \A i \in rows : g[i] \in K
        /\ \A k \in K : F[k] = SumUp(Group(rows, g, k))
    <3>1. \A k : Group(rows, g, k) = {i \in Sales(p) : ledger[i].day \div 7 = k}
      BY <1>1, <2>2 DEF Group
    <3>2. \A i \in rows : g[i] \in K
      BY <1>2, <2>1, <2>2
    <3> QED BY <2>2, <3>1, <3>2 DEF StatsByWeek
  <2>5. SumOver(F) = SumUp(rows)
    BY <1>2, <2>3, <2>4, GroupFigures
  <2> QED BY <2>1, <2>2, <2>5
<1>8. [a \in Agent |-> SellerOverview(a, p)] = [a \in Agent |-> StatsBySeller(a, p)]
  BY SameSeller
<1> QED BY <1>3, <1>4, <1>5, <1>6, <1>7, <1>8

--------------------------------------------------------------------------------
\* The movements of one kind, in all and stock by stock.
LEMMA MovesByLot ==
  ASSUME FiguresTypes, LotsOK, NEW kind \in {"SALE", "ALLOCATION"},
         NEW h, DOMAIN h = Lotted,
         \A s \in Lotted : h[s] = TotalOf(Quantities(ledger), MovesOf(ledger, kind, s[1], s[2]))
  PROVE  Total(h) = TotalOf(Quantities(ledger), {i \in DOMAIN ledger : ledger[i].kind = kind})
<1>1. PICK rows, f, K : /\ rows = {i \in DOMAIN ledger : ledger[i].kind = kind}
                        /\ f = Quantities(ledger) /\ K = Lotted
  OBVIOUS
<1>2. PICK g : g = [i \in rows |-> <<ledger[i].agent, ledger[i].show>>]
  OBVIOUS
<1>3. IsFiniteSet(K)
  <2>1. IsFiniteSet(Agent \X Show)
    BY FiguresAssumption, FS_Product
  <2>2. K \subseteq Agent \X Show
    BY <1>1 DEF Lotted
  <2> QED BY <2>1, <2>2, FS_Subset
<1>4. ledger \in Seq(Moved) /\ rows \subseteq DOMAIN ledger
  BY <1>1 DEF FiguresTypes
<1>5. IsFiniteSet(rows) /\ \A i \in rows : f[i] \in Nat /\ ledger[i].agent \in Agent /\ ledger[i].show \in Show
  BY <1>1, <1>4, RowsAreFinite, MovedRows
<1>6. ASSUME NEW i \in rows PROVE g[i] \in K
  <2>1. PICK a \in Agent, e \in Show : a = ledger[i].agent /\ e = ledger[i].show
    BY <1>5, <1>6
  <2>2. i \in MovesOf(ledger, kind, a, e)
    BY <1>1, <1>6, <2>1 DEF MovesOf
  <2>3. lot[a][e].here
    BY <2>2 DEF LotsOK, LotOK
  <2>4. g[i] = <<a, e>> /\ <<a, e>> \in Agent \X Show
    BY <1>2, <1>6, <2>1
  <2>5. <<a, e>>[1] = a /\ <<a, e>>[2] = e
    OBVIOUS
  <2> QED BY <1>1, <2>3, <2>4, <2>5 DEF Lotted
<1>7. ASSUME NEW k \in K PROVE h[k] = TotalOf(f, Group(rows, g, k))
  <2>1. PICK a \in Agent, e \in Show : k = <<a, e>>
    BY <1>1, <1>7 DEF Lotted
  <2>2. k[1] = a /\ k[2] = e
    BY <2>1
  <2>3. Group(rows, g, k) = MovesOf(ledger, kind, a, e)
    <3>1. \A i \in rows : g[i] = k <=> ledger[i].agent = a /\ ledger[i].show = e
      BY <1>2, <2>1
    <3> QED BY <1>1, <3>1 DEF MovesOf, Group
  <2> QED BY <1>1, <1>7, <2>2, <2>3
<1>8. Total(h) = TotalOf(f, rows)
  <2>1. /\ IsFiniteSet(K) /\ IsFiniteSet(rows) /\ DOMAIN h = K
        /\ (\A i \in rows : f[i] \in Nat) /\ (\A i \in rows : g[i] \in K)
        /\ \A k \in K : h[k] = TotalOf(f, Group(rows, g, k))
    BY <1>1, <1>3, <1>5, <1>6, <1>7
  <2> QED BY <2>1, GroupedTotal
<1> QED BY <1>1, <1>8

LEMMA LedgerIsRight ==
  ASSUME FiguresInv
  PROVE  LedgerAgrees
<1>1. FiguresTypes /\ LotsOK /\ RevenueOK /\ ledger \in Seq(Moved) /\ placed \in Seq(Ordered)
  BY DEF FiguresInv, FiguresTypes
<1>2. StatsOverview(Whenever) = [tickets    |-> TotalOf(Quantities(ledger), SoldRows(ledger)),
                                 revenue    |-> TotalOf(Payments(ledger), SoldRows(ledger)),
                                 commission |-> TotalOf(Fees(ledger), SoldRows(ledger))]
  BY <1>1, SalesAre, SumUpIs DEF StatsOverview
<1>3. /\ StatsOverview(Whenever).tickets = TotalOf(Quantities(ledger), SoldRows(ledger))
      /\ StatsOverview(Whenever).revenue = TotalOf(Payments(ledger), SoldRows(ledger))
  BY <1>2
<1>4. /\ \A s \in Lotted : /\ s[1] \in Agent /\ s[2] \in Show /\ lot[s[1]][s[2]].here
                           /\ LotOK(s[1], s[2])
  BY <1>1 DEF Lotted, LotsOK
<1>5. TotalSold = TotalOf(Quantities(ledger), SoldRows(ledger))
  <2>1. PICK h : h = [s \in Lotted |-> lot[s[1]][s[2]].sold]
    OBVIOUS
  <2>2. /\ DOMAIN h = Lotted
        /\ \A s \in Lotted : h[s] = TotalOf(Quantities(ledger), MovesOf(ledger, "SALE", s[1], s[2]))
    BY <1>4, <2>1 DEF LotOK
  <2>3. Total(h) = TotalOf(Quantities(ledger), {i \in DOMAIN ledger : ledger[i].kind = "SALE"})
    BY <1>1, <2>2, MovesByLot
  <2> QED BY <2>1, <2>3 DEF TotalSold, SoldRows
<1>6. TotalAllocated = Total([i \in Allocations |-> ledger[i].quantity])
  <2>1. PICK h : h = [s \in Lotted |-> lot[s[1]][s[2]].allocated]
    OBVIOUS
  <2>2. /\ DOMAIN h = Lotted
        /\ \A s \in Lotted : h[s] = TotalOf(Quantities(ledger), MovesOf(ledger, "ALLOCATION", s[1], s[2]))
    BY <1>4, <2>1 DEF LotOK
  <2>3. Total(h) = TotalOf(Quantities(ledger), {i \in DOMAIN ledger : ledger[i].kind = "ALLOCATION"})
    BY <1>1, <2>2, MovesByLot
  <2>4. PICK f, rows : f = [i \in Allocations |-> ledger[i].quantity] /\ rows = Allocations
    OBVIOUS
  <2>5. DOMAIN f = rows /\ \A i \in rows : f[i] = Quantities(ledger)[i]
    <3>1. \A i \in rows : i \in DOMAIN ledger /\ ledger[i].kind = "ALLOCATION" /\ f[i] = ledger[i].quantity
      BY <2>4 DEF Allocations
    <3> QED BY <1>1, <2>4, <3>1, MovedRows
  <2>6. TotalOf(f, rows) = TotalOf(Quantities(ledger), rows)
    BY <2>5, TotalOfSame
  <2> QED BY <2>1, <2>3, <2>4, <2>5, <2>6 DEF TotalAllocated, Allocations, Total
<1>7. StatsOverview(Whenever).revenue = Total([i \in DirectSales |-> placed[i].lineTotal])
  <2>1. PICK f, rows : f = [i \in DirectSales |-> placed[i].lineTotal] /\ rows = DirectSales
    OBVIOUS
  <2>2. rows = DirectIn(placed) /\ rows \subseteq DOMAIN placed
    BY <2>1 DEF DirectSales, DirectIn
  <2>3. DOMAIN f = rows /\ \A i \in rows : f[i] = Lines(placed)[i]
    BY <1>1, <2>1, <2>2, OrderedRows
  <2>4. TotalOf(f, rows) = TotalOf(Lines(placed), rows)
    BY <2>3, TotalOfSame
  <2> QED BY <1>1, <1>3, <2>1, <2>2, <2>3, <2>4 DEF Total, RevenueOK
<1>8. ASSUME NEW a \in Agent, NEW e \in DOMAIN SellerStocks(a)
      PROVE  SellerByEvent(a, e, Whenever).tickets = SellerStocks(a)[e].sold
  <2>1. e \in Show /\ lot[a][e].here /\ SellerStocks(a)[e].sold = lot[a][e].sold
    BY <1>8 DEF SellerStocks
  <2>2. PICK rows : rows = {i \in Sales(Whenever) : ledger[i].agent = a /\ ledger[i].show = e}
    OBVIOUS
  <2>3. rows \subseteq SoldRows(ledger) /\ rows = MovesOf(ledger, "SALE", a, e)
    BY <1>1, <2>2, SalesAre DEF SoldRows, MovesOf
  <2>4. SumUp(rows) = [tickets    |-> TotalOf(Quantities(ledger), rows),
                       revenue    |-> TotalOf(Payments(ledger), rows),
                       commission |-> TotalOf(Fees(ledger), rows)]
    BY <1>1, <2>3, SumUpIs
  <2>5. SellerByEvent(a, e, Whenever) = SumUp(rows)
    BY <2>2 DEF SellerByEvent
  <2>6. SellerByEvent(a, e, Whenever).tickets = TotalOf(Quantities(ledger), rows)
    BY <2>4, <2>5
  <2> QED BY <1>1, <1>8, <2>1, <2>3, <2>6 DEF LotsOK, LotOK
<1> QED BY <1>1, <1>3, <1>5, <1>6, <1>7, <1>8, FiguresByGroup DEF LedgerAgrees

--------------------------------------------------------------------------------
\* What an event has earned of the orders on the site.
LEMMA EarnedOf ==
  ASSUME FiguresTypes, NEW e
  PROVE  LET online == DOMAIN placed \ DirectSales IN
         /\ online \cap Finished(e) = {i \in EarningIn(placed) : placed[i].show = e}
         /\ AmountEarned(e, online) =
              TotalOf(Earnings(placed), {i \in EarningIn(placed) : placed[i].show = e})
<1> DEFINE online == DOMAIN placed \ DirectSales
<1>1. PICK rows : rows = online \cap Finished(e)
  OBVIOUS
<1>2. rows = {i \in EarningIn(placed) : placed[i].show = e} /\ rows \subseteq DOMAIN placed
  BY <1>1 DEF EarningIn, Finished, DirectSales
<1>3. PICK f : f = [i \in rows |-> Income(placed[i], placed[i].applied)]
  OBVIOUS
<1>4. DOMAIN f = rows /\ \A i \in rows : f[i] = Earnings(placed)[i]
  BY <1>2, <1>3 DEF Earnings
<1>5. TotalOf(f, rows) = TotalOf(Earnings(placed), rows)
  BY <1>4, TotalOfSame
<1>6. AmountEarned(e, online) = Total(f)
  BY <1>1, <1>3 DEF AmountEarned
<1> QED BY <1>1, <1>2, <1>4, <1>5, <1>6 DEF Total

LEMMA EarningsAreRight ==
  ASSUME FiguresInv
  PROVE  EarningsWereCredited
<1>1. FiguresTypes /\ CreditOK /\ placed \in Seq(Ordered)
  BY DEF FiguresInv, FiguresTypes
<1>2. PICK online : online = DOMAIN placed \ DirectSales
  OBVIOUS
<1>3. PICK rows, f, g : /\ rows = EarningIn(placed) /\ f = Earnings(placed)
                        /\ g = [i \in rows |-> placed[i].show]
  OBVIOUS
<1>4. /\ rows \subseteq DOMAIN placed
      /\ \A i \in rows : i \in online /\ placed[i].status = "FINISHED"
  BY <1>2, <1>3 DEF EarningIn, DirectSales
<1>5. IsFiniteSet(rows) /\ \A i \in rows : f[i] \in Nat /\ g[i] \in Show
  <2>1. \A i \in rows : placed[i] \in OrderRow /\ f[i] \in Nat
    BY <1>1, <1>3, <1>4, OrderedRows
  <2>2. \A i \in rows : g[i] \in Show
    BY <1>3, <2>1 DEF OrderRow
  <2> QED BY <1>1, <1>4, <2>1, <2>2, RowsAreFinite
<1>6. Total([e \in Show |-> AmountEarned(e, online)]) = credited
  <2>1. PICK h : h = [e \in Show |-> AmountEarned(e, online)]
    OBVIOUS
  <2>2. ASSUME NEW e \in Show PROVE h[e] = TotalOf(f, Group(rows, g, e))
    <3>1. Group(rows, g, e) = {i \in EarningIn(placed) : placed[i].show = e}
      BY <1>3 DEF Group
    <3> QED BY <1>1, <1>2, <1>3, <2>1, <2>2, <3>1, EarnedOf
  <2>3. IsFiniteSet(Show) /\ DOMAIN h = Show
    BY <2>1, FiguresAssumption
  <2>4. Total(h) = TotalOf(f, rows)
    BY <1>5, <2>2, <2>3, GroupedTotal
  <2> QED BY <1>1, <1>3, <2>1, <2>4 DEF CreditOK
<1>7. ASSUME \A i \in online : placed[i].status = "FINISHED" =>
               ~placed[i].coupon /\ placed[i].applied = Retribution(FALSE)
      PROVE  Total([e \in Show |-> GlobalEarned(e, online)]) = credited
  <2>1. ASSUME NEW e \in Show PROVE GlobalEarned(e, online) = AmountEarned(e, online)
    <3>1. PICK S : S = online \cap Finished(e)
      OBVIOUS
    <3>2. ASSUME NEW i \in S
          PROVE  placed[i].lineTotal * (100 - Retribution(placed[i].coupon))
                   = Income(placed[i], placed[i].applied)
      <4>1. i \in DOMAIN placed /\ i \in online /\ placed[i].status = "FINISHED"
        BY <1>2, <3>1, <3>2 DEF Finished
      <4>2. ~placed[i].coupon /\ placed[i].applied = Retribution(FALSE)
        BY <1>7, <4>1
      <4>3. placed[i].coupon \in BOOLEAN /\ placed[i].reduced = placed[i].lineTotal
        BY <1>1, <4>1, <4>2, OrderedRows DEF OrderRow
      <4>4. placed[i].coupon = FALSE
        BY <4>2, <4>3
      <4> QED BY <4>2, <4>3, <4>4 DEF Income
    <3>3. [i \in S |-> placed[i].lineTotal * (100 - Retribution(placed[i].coupon))]
            = [i \in S |-> Income(placed[i], placed[i].applied)]
      BY <3>2
    <3> QED BY <3>1, <3>3 DEF GlobalEarned, AmountEarned
  <2>2. [e \in Show |-> GlobalEarned(e, online)] = [e \in Show |-> AmountEarned(e, online)]
    BY <2>1
  <2> QED BY <1>6, <2>2
<1> QED BY <1>2, <1>6, <1>7 DEF EarningsWereCredited

LEMMA ReportsAreRight ==
  ASSUME FiguresInv
  PROVE  ReportsCountOnce
<1>1. FiguresTypes /\ placed \in Seq(Ordered) /\ \A r \in archive : ArchivedIn(placed, r)
  BY DEF FiguresInv, FiguresTypes, ReportsOK
<1>2. ASSUME NEW r \in archive, NEW s \in archive, r.frequency = s.frequency,
             NEW x \in r.orders \cap s.orders
      PROVE  r.period = s.period
  <2>1. PICK f \in Frequencies, d \in Dates, e \in Dates :
          /\ f = r.frequency /\ r.period = ComputePeriod(f, d) /\ s.period = ComputePeriod(f, e)
          /\ x \in ReportedIn(placed, r.period) /\ x \in ReportedIn(placed, s.period)
    BY <1>1, <1>2 DEF ArchivedIn
  <2>2. x \in DOMAIN placed /\ Within(placed[x].day, r.period) /\ Within(placed[x].day, s.period)
    BY <2>1 DEF ReportedIn
  <2>3. PICK day \in Int : day = placed[x].day
    <3>1. placed[x] \in OrderRow
      BY <1>1, <2>2, OrderedRows
    <3>2. placed[x].day \in Dates
      BY <3>1 DEF OrderRow
    <3>3. Dates \subseteq Int
      BY FiguresAssumption
    <3> QED BY <3>2, <3>3
  <2>4. Within(day, ComputePeriod(f, d)) /\ Within(day, ComputePeriod(f, e))
    BY <2>1, <2>2, <2>3
  <2>5. ComputePeriod(f, d) = ComputePeriod(f, e)
    BY <2>4, PeriodsApart
  <2> QED BY <2>1, <2>5
<1>3. \A r \in archive : r.tickets <= r.bySeller /\ r.bySeller <= r.byEvent
                         /\ Cardinality(r.orders) <= r.tickets
  BY <1>1 DEF ArchivedIn
<1>4. ASSUME NEW r \in archive, NEW s \in archive, r.frequency = s.frequency, r.period # s.period
      PROVE  r.orders \cap s.orders = {}
  BY <1>2, <1>4
<1> QED BY <1>3, <1>4 DEF ReportsCountOnce

\* Of the statistics, the earnings and the reports, whatever sales and allocations are made,
\* prices and percentages changed and reports read in between: the ledger's totals are those of
\* the stocks and of the orders, however they are grouped; what events are said to have earned
\* was credited; and a report's parts are no less than its totals and no order is counted in two.
THEOREM FiguresStaySound == FiguresSpec => []FiguresSound
<1>1. FiguresInv /\ [FiguresNext]_figuresVars => FiguresInv'
  BY FiguresInvNext
<1>2. FiguresInv => FiguresSound
  BY LedgerIsRight, EarningsAreRight, ReportsAreRight DEF FiguresSound, FiguresAgree
<1> QED BY FiguresInvInit, <1>1, <1>2, PTL DEF FiguresSpec

--------------------------------------------------------------------------------
(* That the wallet a seller is shown is the sum of its journal, and that he     *)
(* keeps the one profile he has, for any number of calls, profiles and amounts. *)
(*                                                                              *)
(* A call works on what it has read.  What makes that right is that a purse     *)
(* which nobody ever shared has one caller at most, who has read it as it is    *)
(* (PurseOK), and that a user whose first visits never met has one call at most *)
(* that makes a profile, and has not made one (VisitOK).                        *)

Purses      == [balance : Int, earned : Nat]
JournalRow  == [amount : Int, after : Int]
Cards       == [of : Earner, from : Inviter \cup {"none"}]
Opening     == [pc : {"create"}, of : Earner]
Adjusting      == [pc : {"move"}, at : Card, seen : Purses, amount : Int]
Counting    == [pc : {"count"}, at : Card, seen : Purses, rows : Nat]

DeskTypes ==
  /\ card \in [Card -> {NoCard} \cup Cards]
  /\ purse \in [Card -> Purses]
  /\ journal \in [Card -> Seq(JournalRow)]
  /\ teller \in [Teller -> {NoTeller} \cup Opening \cup Adjusting \cup Counting]

\* What is given by the rows of a journal.
SumGiven(rows) == TotalOf(Given(rows), DOMAIN rows)

JournalOK(p, rows) ==
  /\ p.balance = SumOf(rows) /\ p.earned = SumGiven(rows)
  /\ \A i \in 1..Len(rows) : rows[i].after = SumOf(SubSeq(rows, 1, i))

\* Who is at a purse alone has read it and its journal as they are.
PurseOK(n) ==
  /\ JournalOK(purse[n], journal[n])
  /\ \A t, v \in AtPurse(n) : t = v
  /\ \A t \in AtPurse(n) :
       /\ teller[t].seen = purse[n]
       /\ teller[t].pc = "count" => teller[t].rows = Len(journal[n])

\* Of a user whose first visits did not meet, one call at most makes a profile, and not when he
\* has made one.
Alone(n)   == card[n].from = "none"
VisitOK(u) ==
  /\ \A t, v \in NewHere(u) : t = v
  /\ NewHere(u) # {} => \A n \in CardsOf(u) : ~Alone(n)
  /\ \A m, n \in CardsOf(u) : Alone(m) /\ Alone(n) => m = n

DeskInv ==
  /\ DeskTypes
  /\ \A n \in Card \ mingled : PurseOK(n)
  /\ \A u \in Earner \ twiceNew : VisitOK(u)
  /\ SerialStatsAgree

\* An empty journal.
LEMMA NoRows == SumOf(<<>>) = 0 /\ SumGiven(<<>>) = 0
<1>1. DOMAIN <<>> = {}
  OBVIOUS
<1>2. \A f : TotalOf(f, {}) = 0
  BY TotalOfNothing
<1> QED BY <1>1, <1>2 DEF SumOf, SumGiven

\* What the rows of a journal add up to is a number.
LEMMA SumsAreNumbers ==
  ASSUME NEW rows \in Seq(JournalRow)
  PROVE  SumOf(rows) \in Int /\ SumGiven(rows) \in Nat
<1>1. DOMAIN rows = 1..Len(rows) /\ IsFiniteSet(DOMAIN rows)
  BY FS_Interval
<1>2. \A i \in DOMAIN rows : rows[i].amount \in Int
  <2>1. \A i \in DOMAIN rows : rows[i] \in JournalRow
    BY <1>1
  <2> QED BY <2>1 DEF JournalRow
<1>3. \A i \in DOMAIN rows : Given(rows)[i] \in Nat /\ Taken(rows)[i] \in Nat
  BY <1>2 DEF Given, Taken
<1>4. TotalOf(Given(rows), DOMAIN rows) \in Nat /\ TotalOf(Taken(rows), DOMAIN rows) \in Nat
  BY <1>1, <1>3, TotalIsNat
<1> QED BY <1>4 DEF SumOf, SumGiven

\* A row that is added adds its amount.
LEMMA SumOfAppend ==
  ASSUME NEW rows \in Seq(JournalRow), NEW row \in JournalRow
  PROVE  /\ SumOf(Append(rows, row)) = SumOf(rows) + row.amount
         /\ SumGiven(Append(rows, row)) = SumGiven(rows) + (IF row.amount > 0 THEN row.amount ELSE 0)
<1> DEFINE S == 1..Len(rows)
           x == Len(rows) + 1
           more == Append(rows, row)
<1>1. more \in Seq(JournalRow) /\ Len(more) = x /\ more[x] = row /\ \A i \in S : more[i] = rows[i]
  BY AppendProperties
<1>2. DOMAIN rows = S /\ DOMAIN more = S \cup {x} /\ x \notin S /\ IsFiniteSet(S)
  <2>1. Len(rows) \in Nat
    OBVIOUS
  <2>2. IsFiniteSet(S)
    BY <2>1, FS_Interval
  <2> QED BY <1>1, <2>1, <2>2
<1>3. \A i \in S : rows[i].amount \in Int
  <2>1. \A i \in S : rows[i] \in JournalRow
    OBVIOUS
  <2> QED BY <2>1 DEF JournalRow
<1>4. row.amount \in Int
  BY DEF JournalRow
<1> HIDE DEF S, x, more
<1>5. /\ \A i \in S : /\ Given(more)[i] = Given(rows)[i] /\ Given(more)[i] \in Nat
                      /\ Taken(more)[i] = Taken(rows)[i] /\ Taken(more)[i] \in Nat
      /\ Given(more)[x] = IF row.amount > 0 THEN row.amount ELSE 0
      /\ Taken(more)[x] = IF row.amount < 0 THEN 0 - row.amount ELSE 0
  BY <1>1, <1>2, <1>3 DEF Given, Taken
<1>6. Given(more)[x] \in Nat /\ Taken(more)[x] \in Nat
  BY <1>4, <1>5
<1>7. /\ TotalOf(Given(more), S \cup {x}) = TotalOf(Given(more), S) + Given(more)[x]
      /\ TotalOf(Taken(more), S \cup {x}) = TotalOf(Taken(more), S) + Taken(more)[x]
  BY <1>2, <1>5, <1>6, TotalWithPart
<1>8. /\ TotalOf(Given(more), S) = TotalOf(Given(rows), S)
      /\ TotalOf(Taken(more), S) = TotalOf(Taken(rows), S)
  BY <1>5, TotalOfSame
<1>9. TotalOf(Given(rows), S) \in Nat /\ TotalOf(Taken(rows), S) \in Nat
  BY <1>2, <1>5, TotalIsNat
<1>10. /\ SumOf(more) = SumOf(rows) + row.amount
       /\ SumGiven(more) = SumGiven(rows) + (IF row.amount > 0 THEN row.amount ELSE 0)
  BY <1>2, <1>4, <1>5, <1>7, <1>8, <1>9 DEF SumOf, SumGiven
<1> QED BY <1>10 DEF more

\* The rows up to one stay what they are.
LEMMA RowsUpTo ==
  ASSUME NEW rows \in Seq(JournalRow), NEW row \in JournalRow
  PROVE  /\ \A i \in 1..Len(rows) : SubSeq(Append(rows, row), 1, i) = SubSeq(rows, 1, i)
         /\ SubSeq(Append(rows, row), 1, Len(rows) + 1) = Append(rows, row)
<1> DEFINE more == Append(rows, row)
<1>1. /\ more \in Seq(JournalRow) /\ Len(more) = Len(rows) + 1
      /\ \A i \in 1..Len(rows) : more[i] = rows[i]
  BY AppendProperties
<1> HIDE DEF more
<1>2. ASSUME NEW i \in 1..Len(rows) PROVE SubSeq(more, 1, i) = SubSeq(rows, 1, i)
  <2>1. i \in 0..Len(rows) /\ i \in 0..Len(more)
    BY <1>1
  <2>2. SubSeq(more, 1, i) = Restrict(more, 1..i) /\ SubSeq(rows, 1, i) = Restrict(rows, 1..i)
    BY <1>1, <2>1, SubSeqRestrict
  <2>3. \A k \in 1..i : more[k] = rows[k]
    BY <1>1
  <2> QED BY <2>2, <2>3 DEF Restrict
<1>3. SubSeq(more, 1, Len(more)) = more
  BY <1>1, SubSeqFull
<1> QED BY <1>1, <1>2, <1>3 DEF more

\* A movement over the row that is there keeps the journal in order.
LEMMA JournalGrows ==
  ASSUME NEW p \in Purses, NEW rows \in Seq(JournalRow), JournalOK(p, rows), NEW row \in JournalRow,
         row.after = p.balance + row.amount,
         NEW q, q.balance = p.balance + row.amount,
         q.earned = p.earned + (IF row.amount > 0 THEN row.amount ELSE 0)
  PROVE  JournalOK(q, Append(rows, row))
<1>1. /\ q.balance = SumOf(Append(rows, row)) /\ q.earned = SumGiven(Append(rows, row))
      /\ row.after = SumOf(Append(rows, row))
  BY SumOfAppend DEF JournalOK
<1> DEFINE more == Append(rows, row)
<1>2. /\ Len(more) = Len(rows) + 1 /\ more[Len(rows) + 1] = row
      /\ \A i \in 1..Len(rows) : more[i] = rows[i]
      /\ \A i \in 1..Len(rows) : SubSeq(more, 1, i) = SubSeq(rows, 1, i)
      /\ SubSeq(more, 1, Len(rows) + 1) = more
  BY AppendProperties, RowsUpTo
<1>4. row.after = SumOf(more) /\ q.balance = SumOf(more) /\ q.earned = SumGiven(more)
  BY <1>1
<1> HIDE DEF more
<1>3. ASSUME NEW i \in 1..Len(more) PROVE more[i].after = SumOf(SubSeq(more, 1, i))
  <2>1. CASE i = Len(rows) + 1
    BY <1>2, <1>4, <2>1
  <2>2. CASE i \in 1..Len(rows)
    BY <1>2, <2>2 DEF JournalOK
  <2> QED BY <1>2, <2>1, <2>2
<1>5. JournalOK(q, more)
  BY <1>3, <1>4 DEF JournalOK
<1> QED BY <1>5 DEF more

LEMMA DeskInvInit == WalletDeskInit => DeskInv
<1> SUFFICES ASSUME WalletDeskInit PROVE DeskInv
  OBVIOUS
<1>1. DeskTypes
  BY DEF WalletDeskInit, DeskTypes, Empty, Purses
<1>2. (\A n : AtPurse(n) = {}) /\ (\A u : NewHere(u) = {})
  BY DEF WalletDeskInit, AtPurse, NewHere, NoTeller
<1>3. ASSUME NEW n \in Card PROVE PurseOK(n)
  <2>1. purse[n] = Empty /\ journal[n] = <<>>
    BY DEF WalletDeskInit
  <2>2. JournalOK(Empty, <<>>)
    BY NoRows DEF JournalOK, Empty
  <2> QED BY <1>2, <2>1, <2>2 DEF PurseOK
<1>4. ASSUME NEW u \in Earner PROVE VisitOK(u)
  <2>1. CardsOf(u) = {}
    BY WalletDeskAssumption DEF WalletDeskInit, CardsOf, NoCard
  <2> QED BY <1>2, <2>1 DEF VisitOK
<1>5. SerialStatsAgree
  BY DEF WalletDeskInit, SerialStatsAgree
<1> QED BY <1>1, <1>3, <1>4, <1>5 DEF DeskInv

\* Whoever leaves makes room.
LEMMA Leaves ==
  ASSUME DeskTypes, NEW t \in Teller, GoAway(t)
  PROVE  /\ teller' \in [Teller -> {NoTeller} \cup Opening \cup Adjusting \cup Counting]
         /\ \A v \in Teller : v # t => teller'[v] = teller[v]
         /\ \A n : AtPurse(n)' = AtPurse(n) \ {t}
         /\ \A u : NewHere(u)' = NewHere(u) \ {t}
<1>1. /\ teller' \in [Teller -> {NoTeller} \cup Opening \cup Adjusting \cup Counting]
      /\ teller'[t] = NoTeller /\ \A v \in Teller : v # t => teller'[v] = teller[v]
  BY DEF DeskTypes, GoAway
<1>2. teller'[t].pc = "away"
  BY <1>1 DEF NoTeller
<1> QED BY <1>1, <1>2 DEF AtPurse, NewHere

\* Cards and purses are as before when nobody but one who left has moved.
LEMMA VisitsKept ==
  ASSUME card' = card, NEW u, VisitOK(u), NewHere(u)' \subseteq NewHere(u)
  PROVE  VisitOK(u)'
BY DEF VisitOK, CardsOf, Alone

LEMMA PurseKept ==
  ASSUME NEW n, purse'[n] = purse[n], journal'[n] = journal[n], PurseOK(n),
         AtPurse(n)' \subseteq AtPurse(n), \A t \in AtPurse(n)' : teller'[t] = teller[t]
  PROVE  PurseOK(n)'
BY DEF PurseOK, JournalOK

LEMMA CallFailsInv ==
  ASSUME DeskInv, NEW t \in Teller, CallFails(t)
  PROVE  DeskInv'
<1>1. GoAway(t) /\ UNCHANGED <<card, purse, journal, told, mingled, twiceNew>>
  BY DEF CallFails
<1>2. DeskTypes
  BY DEF DeskInv
<1>3. DeskTypes'
  BY <1>1, <1>2, Leaves DEF DeskTypes
<1>4. \A n \in Card \ mingled' : PurseOK(n)'
  <2> SUFFICES ASSUME NEW n \in Card \ mingled PROVE PurseOK(n)'
    BY <1>1
  <2>1. AtPurse(n)' \subseteq AtPurse(n) /\ \A v \in AtPurse(n)' : teller'[v] = teller[v]
    BY <1>1, <1>2, Leaves DEF AtPurse
  <2> QED BY <1>1, <2>1, PurseKept DEF DeskInv
<1>5. \A u \in Earner \ twiceNew' : VisitOK(u)'
  BY <1>1, <1>2, Leaves, VisitsKept DEF DeskInv
<1>6. SerialStatsAgree'
  BY <1>1 DEF DeskInv, SerialStatsAgree
<1> QED BY <1>3, <1>4, <1>5, <1>6 DEF DeskInv

LEMMA AnswerStatsInv ==
  ASSUME DeskInv, NEW t \in Teller, AnswerStats(t)
  PROVE  DeskInv'
<1>1. GoAway(t) /\ UNCHANGED <<card, purse, journal, mingled, twiceNew>> /\ teller[t].pc = "count"
  BY DEF AnswerStats
<1>2. DeskTypes
  BY DEF DeskInv
<1>3. DeskTypes'
  BY <1>1, <1>2, Leaves DEF DeskTypes
<1>4. \A n \in Card \ mingled' : PurseOK(n)'
  <2> SUFFICES ASSUME NEW n \in Card \ mingled PROVE PurseOK(n)'
    BY <1>1
  <2>1. AtPurse(n)' \subseteq AtPurse(n) /\ \A v \in AtPurse(n)' : teller'[v] = teller[v]
    BY <1>1, <1>2, Leaves DEF AtPurse
  <2> QED BY <1>1, <2>1, PurseKept DEF DeskInv
<1>5. \A u \in Earner \ twiceNew' : VisitOK(u)'
  BY <1>1, <1>2, Leaves, VisitsKept DEF DeskInv
<1>6. SerialStatsAgree'
  <2> DEFINE n == teller[t].at
  <2>1. teller[t] \in Counting
    BY <1>1, <1>2 DEF DeskTypes, NoTeller, Opening, Adjusting
  <2>2. n \in Card /\ t \in AtPurse(n)
    BY <1>1, <2>1 DEF Counting, AtPurse
  <2>3. /\ told'.of = n /\ told'.balance = teller[t].seen.balance /\ told'.rows = teller[t].rows
        /\ told'.total = SumOf(journal[n]) /\ told'.counted = Len(journal[n])
    BY DEF AnswerStats
  <2>4. n \notin mingled =>
          teller[t].seen.balance = SumOf(journal[n]) /\ teller[t].rows = Len(journal[n])
    BY <1>1, <2>2 DEF DeskInv, PurseOK, JournalOK
  <2> QED BY <1>1, <2>3, <2>4 DEF SerialStatsAgree
<1> QED BY <1>3, <1>4, <1>5, <1>6 DEF DeskInv

\* A movement that was alone with the purse is over what is there.
LEMMA SaveMoveInv ==
  ASSUME DeskInv, NEW t \in Teller, SaveMove(t)
  PROVE  DeskInv'
<1>1. GoAway(t) /\ UNCHANGED <<card, told, mingled, twiceNew>> /\ teller[t].pc = "move" /\ DeskTypes
  BY DEF SaveMove, DeskInv
<1>2. teller[t] \in Adjusting
  BY <1>1 DEF DeskTypes, NoTeller, Opening, Counting
<1>3. PICK n \in Card, amount \in Int, seen \in Purses :
        n = teller[t].at /\ amount = teller[t].amount /\ seen = teller[t].seen
  BY <1>2 DEF Adjusting
<1>4. PICK row : row = [amount |-> amount, after |-> seen.balance + amount]
  OBVIOUS
<1>5. PICK new : new = [balance |-> seen.balance + amount,
                        earned |-> IF amount > 0 THEN seen.earned + amount ELSE purse[n].earned]
  OBVIOUS
<1>6. t \in AtPurse(n) /\ seen.balance \in Int /\ seen.earned \in Nat
  BY <1>1, <1>3 DEF AtPurse, Purses
<1>7. /\ purse[n] \in Purses /\ purse \in [Card -> Purses] /\ purse[n].earned \in Nat
      /\ journal[n] \in Seq(JournalRow) /\ journal \in [Card -> Seq(JournalRow)]
  BY <1>1, <1>3 DEF DeskTypes, Purses
<1>8. row \in JournalRow /\ row.amount = amount /\ row.after = seen.balance + amount
  BY <1>4, <1>6 DEF JournalRow
<1>9. /\ new \in Purses /\ new.balance = seen.balance + amount
      /\ new.earned = IF amount > 0 THEN seen.earned + amount ELSE purse[n].earned
  BY <1>5, <1>6, <1>7 DEF Purses
<1>10. purse' = [purse EXCEPT ![n] = new] /\ journal' = [journal EXCEPT ![n] = Append(@, row)]
  <2>1. seen = [balance |-> seen.balance, earned |-> seen.earned]
    BY <1>3 DEF Purses
  <2>2. PICK b \in Int, e \in Nat : b = seen.balance /\ e = seen.earned
    BY <1>6
  <2> QED BY <1>3, <1>4, <1>5, <1>7, <2>1, <2>2 DEF SaveMove, Movement
<1>11. /\ purse' \in [Card -> Purses] /\ purse'[n] = new
       /\ journal' \in [Card -> Seq(JournalRow)] /\ journal'[n] = Append(journal[n], row)
       /\ \A m \in Card : m # n => purse'[m] = purse[m] /\ journal'[m] = journal[m]
  BY <1>7, <1>8, <1>9, <1>10, AppendProperties
<1>12. DeskTypes'
  BY <1>1, <1>11, Leaves DEF DeskTypes
<1>13. ASSUME NEW m \in Card \ mingled PROVE PurseOK(m)'
  <2>1. AtPurse(m)' \subseteq AtPurse(m) /\ \A v \in AtPurse(m)' : teller'[v] = teller[v]
    BY <1>1, Leaves DEF AtPurse
  <2>2. CASE m # n
    BY <1>11, <2>1, <2>2, PurseKept DEF DeskInv
  <2>3. CASE m = n
    <3>1. PurseOK(n)
      BY <2>3 DEF DeskInv
    <3>2. seen = purse[n] /\ AtPurse(n)' = {}
      BY <1>1, <1>3, <1>6, <3>1, Leaves DEF PurseOK
    <3>3. new.earned = purse[n].earned + (IF amount > 0 THEN amount ELSE 0)
      BY <1>7, <1>9, <3>2
    <3>4. JournalOK(new, Append(journal[n], row))
      BY <1>7, <1>8, <1>9, <3>1, <3>2, <3>3, JournalGrows DEF PurseOK
    <3>5. JournalOK(purse'[n], journal'[n])
      BY <1>11, <3>4
    <3> QED BY <2>3, <3>2, <3>5 DEF PurseOK, JournalOK
  <2> QED BY <2>2, <2>3
<1>14. \A u \in Earner \ twiceNew' : VisitOK(u)'
  BY <1>1, Leaves, VisitsKept DEF DeskInv
<1>15. SerialStatsAgree'
  BY <1>1 DEF DeskInv, SerialStatsAgree
<1> QED BY <1>1, <1>12, <1>13, <1>14, <1>15 DEF DeskInv

\* Whoever comes to a purse is alone with it or has mingled.
LEMMA TakeUpInv ==
  ASSUME DeskInv, NEW t \in Teller, NEW n \in Card, NEW job \in Adjusting \cup Counting,
         job.at = n, job.seen = purse[n], job.pc = "count" => job.rows = Len(journal[n]),
         TakeUpPurse(t, n, job), UNCHANGED <<card, purse, journal, told, twiceNew>>
  PROVE  DeskInv'
<1>1. DeskTypes /\ teller[t] = NoTeller /\ job.pc \in {"move", "count"}
  BY DEF DeskInv, TakeUpPurse, Adjusting, Counting
<1>2. /\ teller' \in [Teller -> {NoTeller} \cup Opening \cup Adjusting \cup Counting]
      /\ teller'[t] = job /\ \A v \in Teller : v # t => teller'[v] = teller[v]
  BY <1>1 DEF DeskTypes, TakeUpPurse
<1>3. /\ AtPurse(n)' = AtPurse(n) \cup {t} /\ \A m : m # n => AtPurse(m)' = AtPurse(m) /\ t \notin AtPurse(m)
      /\ \A u : NewHere(u)' = NewHere(u)
  BY <1>1, <1>2 DEF AtPurse, NewHere, NoTeller
<1>4. DeskTypes'
  BY <1>1, <1>2 DEF DeskTypes
<1>5. mingled \subseteq mingled' /\ (AtPurse(n) # {} => n \in mingled')
  BY DEF TakeUpPurse
<1>6. ASSUME NEW m \in Card \ mingled' PROVE PurseOK(m)'
  <2>1. PurseOK(m)
    BY <1>5 DEF DeskInv
  <2>2. CASE m # n
    <3>1. \A v \in AtPurse(m)' : teller'[v] = teller[v]
      BY <1>2, <1>3, <2>2 DEF AtPurse
    <3> QED BY <1>3, <2>1, <2>2, <3>1, PurseKept
  <2>3. CASE m = n
    <3>1. AtPurse(n)' = {t}
      BY <1>3, <1>5, <2>3
    <3> QED BY <1>2, <2>1, <2>3, <3>1 DEF PurseOK, JournalOK
  <2> QED BY <2>2, <2>3
<1>7. \A u \in Earner \ twiceNew' : VisitOK(u)'
  BY <1>3, VisitsKept DEF DeskInv
<1>8. SerialStatsAgree'
  BY <1>5 DEF DeskInv, SerialStatsAgree
<1> QED BY <1>4, <1>6, <1>7, <1>8 DEF DeskInv

LEMMA BeginMoveInv ==
  ASSUME DeskInv, NEW t \in Teller, NEW u \in Earner, NEW n \in Card, NEW a \in Correction,
         BeginMove(t, u, n, a)
  PROVE  DeskInv'
<1> DEFINE job == [pc |-> "move", at |-> n, seen |-> purse[n], amount |-> a]
<1>1. purse[n] \in Purses /\ a \in Int
  BY WalletDeskAssumption DEF DeskInv, DeskTypes
<1>2. job \in Adjusting /\ job.at = n /\ job.seen = purse[n] /\ job.pc # "count"
  BY <1>1 DEF Adjusting
<1>3. TakeUpPurse(t, n, job) /\ UNCHANGED <<card, purse, journal, told, twiceNew>>
  BY DEF BeginMove
<1> HIDE DEF job
<1> QED BY <1>2, <1>3, TakeUpInv

LEMMA BeginStatsInv ==
  ASSUME DeskInv, NEW t \in Teller, NEW u \in Earner, NEW n \in Card, BeginStats(t, u, n)
  PROVE  DeskInv'
<1> DEFINE job == [pc |-> "count", at |-> n, seen |-> purse[n], rows |-> Len(journal[n])]
<1>1. purse[n] \in Purses /\ Len(journal[n]) \in Nat
  <2>1. journal[n] \in Seq(JournalRow) /\ purse[n] \in Purses
    BY DEF DeskInv, DeskTypes
  <2> QED BY <2>1
<1>2. job \in Counting /\ job.at = n /\ job.seen = purse[n] /\ job.rows = Len(journal[n])
  BY <1>1 DEF Counting
<1>3. TakeUpPurse(t, n, job) /\ UNCHANGED <<card, purse, journal, told, twiceNew>>
  BY DEF BeginStats
<1> HIDE DEF job
<1> QED BY <1>2, <1>3, TakeUpInv

\* What is taken up at a purse is not touched by who sees nothing but the cards.
LEMMA PursesKept ==
  ASSUME DeskInv, UNCHANGED <<purse, journal, told, mingled>>,
         \A n : AtPurse(n)' = AtPurse(n), \A n : \A t \in AtPurse(n) : teller'[t] = teller[t]
  PROVE  (\A n \in Card \ mingled' : PurseOK(n)') /\ SerialStatsAgree'
<1>1. ASSUME NEW n \in Card \ mingled PROVE PurseOK(n)'
  <2>1. PurseOK(n)
    BY DEF DeskInv
  <2>2. purse'[n] = purse[n] /\ journal'[n] = journal[n]
    OBVIOUS
  <2> QED BY <2>1, <2>2, PurseKept
<1>2. SerialStatsAgree'
  BY DEF DeskInv, SerialStatsAgree
<1> QED BY <1>1, <1>2

\* A profile that is made.
LEMMA NewCard ==
  ASSUME DeskTypes, NEW u \in Earner, NEW s \in Inviter \cup {"none"}, NewProfile(u, s)
  PROVE  /\ card' \in [Card -> {NoCard} \cup Cards]
         /\ \E m \in Card : /\ card'[m] = [of |-> u, from |-> s]
                            /\ \A n \in Card : n # m => card'[n] = card[n]
<1>1. NextCard \in Card /\ card' = [card EXCEPT ![NextCard] = [of |-> u, from |-> s]]
  BY DEF NewProfile
<1>2. PICK m \in Card : m = NextCard
  BY <1>1
<1>3. card' = [card EXCEPT ![m] = [of |-> u, from |-> s]] /\ card \in [Card -> {NoCard} \cup Cards]
  BY <1>1, <1>2 DEF DeskTypes
<1>4. [of |-> u, from |-> s] \in Cards
  BY DEF Cards
<1> QED BY <1>3, <1>4

\* An invitation makes no profile that is nobody's.
LEMMA JoinTeamInv ==
  ASSUME DeskInv, NEW u \in Earner, NEW s \in Inviter, JoinTeam(u, s)
  PROVE  DeskInv'
<1>1. NewProfile(u, s) /\ UNCHANGED <<purse, journal, teller, told, mingled, twiceNew>> /\ DeskTypes
  BY DEF JoinTeam, DeskInv
<1>2. card' \in [Card -> {NoCard} \cup Cards]
  BY <1>1, NewCard
<1>3. PICK m \in Card : card'[m] = [of |-> u, from |-> s] /\ \A n \in Card : n # m => card'[n] = card[n]
  BY <1>1, NewCard
<1>4. DeskTypes'
  BY <1>1, <1>2 DEF DeskTypes
<1>5. (\A n : AtPurse(n)' = AtPurse(n)) /\ (\A v : NewHere(v)' = NewHere(v))
  BY <1>1 DEF AtPurse, NewHere
<1>6. (\A n \in Card \ mingled' : PurseOK(n)') /\ SerialStatsAgree'
  BY <1>1, <1>5, PursesKept
<1>7. card'[m].from = s /\ s # "none"
  BY <1>3, WalletDeskAssumption
<1>8. ASSUME NEW v \in Earner \ twiceNew PROVE VisitOK(v)'
  <2>1. VisitOK(v)
    BY DEF DeskInv
  <2>2. \A n \in CardsOf(v)' : Alone(n)' => n \in CardsOf(v) /\ Alone(n)
    BY <1>3, <1>7 DEF CardsOf, Alone
  <2> QED BY <1>5, <2>1, <2>2 DEF VisitOK
<1> QED BY <1>1, <1>4, <1>6, <1>8 DEF DeskInv

\* Who has no profile when he looks has none that is nobody's when he is alone at it.
LEMMA FirstVisitInv ==
  ASSUME DeskInv, NEW t \in Teller, NEW u \in Earner, FirstVisit(t, u)
  PROVE  DeskInv'
<1>1. /\ teller[t] = NoTeller /\ CardsOf(u) = {} /\ DeskTypes
      /\ teller' = [teller EXCEPT ![t] = [pc |-> "create", of |-> u]]
      /\ UNCHANGED <<card, purse, journal, told, mingled>>
  BY DEF FirstVisit, DeskInv
<1>2. twiceNew \subseteq twiceNew' /\ (NewHere(u) # {} => u \in twiceNew')
  BY DEF FirstVisit
<1>3. [pc |-> "create", of |-> u] \in Opening
  BY DEF Opening
<1>4. /\ teller' \in [Teller -> {NoTeller} \cup Opening \cup Adjusting \cup Counting]
      /\ teller'[t] = [pc |-> "create", of |-> u] /\ \A v \in Teller : v # t => teller'[v] = teller[v]
  BY <1>1, <1>3 DEF DeskTypes
<1>5. DeskTypes'
  BY <1>1, <1>4 DEF DeskTypes
<1>6. /\ \A n : AtPurse(n)' = AtPurse(n) /\ t \notin AtPurse(n)
      /\ NewHere(u)' = NewHere(u) \cup {t} /\ \A v : v # u => NewHere(v)' = NewHere(v)
  BY <1>1, <1>4 DEF AtPurse, NewHere, NoTeller
<1>7. \A n : \A v \in AtPurse(n) : teller'[v] = teller[v]
  BY <1>4, <1>6 DEF AtPurse
<1>8. (\A n \in Card \ mingled' : PurseOK(n)') /\ SerialStatsAgree'
  BY <1>1, <1>6, <1>7, PursesKept
<1>9. ASSUME NEW v \in Earner \ twiceNew' PROVE VisitOK(v)'
  <2>1. VisitOK(v)
    BY <1>2 DEF DeskInv
  <2>2. CASE v # u
    BY <1>1, <1>6, <2>1, <2>2, VisitsKept
  <2>3. CASE v = u
    <3>1. NewHere(u)' = {t} /\ CardsOf(u)' = {}
      BY <1>1, <1>2, <1>6, <2>3 DEF CardsOf
    <3> QED BY <2>3, <3>1 DEF VisitOK
  <2> QED BY <2>2, <2>3
<1> QED BY <1>5, <1>8, <1>9 DEF DeskInv

\* The one call that makes a profile of nobody's makes the only one.
LEMMA CreateCardInv ==
  ASSUME DeskInv, NEW t \in Teller, CreateCard(t)
  PROVE  DeskInv'
<1>1. /\ teller[t].pc = "create" /\ NewProfile(teller[t].of, "none") /\ GoAway(t) /\ DeskTypes
      /\ UNCHANGED <<purse, journal, told, mingled, twiceNew>>
  BY DEF CreateCard, DeskInv
<1>2. teller[t] \in Opening
  BY <1>1 DEF DeskTypes, NoTeller, Adjusting, Counting
<1>3. PICK u \in Earner : u = teller[t].of
  BY <1>2 DEF Opening
<1>4. card' \in [Card -> {NoCard} \cup Cards]
  BY <1>1, <1>3, NewCard
<1>5. PICK m \in Card :
        card'[m] = [of |-> u, from |-> "none"] /\ \A n \in Card : n # m => card'[n] = card[n]
  BY <1>1, <1>3, NewCard
<1>6. DeskTypes'
  BY <1>1, <1>4, Leaves DEF DeskTypes
<1>7. t \in NewHere(u) /\ \A n : t \notin AtPurse(n)
  BY <1>1, <1>3 DEF NewHere, AtPurse
<1>8. (\A n : AtPurse(n)' = AtPurse(n)) /\ \A n : \A v \in AtPurse(n) : teller'[v] = teller[v]
  BY <1>1, <1>7, Leaves DEF AtPurse
<1>9. (\A n \in Card \ mingled' : PurseOK(n)') /\ SerialStatsAgree'
  BY <1>1, <1>8, PursesKept
<1>10. ASSUME NEW v \in Earner \ twiceNew PROVE VisitOK(v)'
  <2>1. VisitOK(v) /\ NewHere(v)' = NewHere(v) \ {t}
    BY <1>1, Leaves DEF DeskInv
  <2>2. CASE v # u
    <3>1. \A n \in CardsOf(v)' : n \in CardsOf(v) /\ (Alone(n)' => Alone(n))
      BY <1>5, <2>2 DEF CardsOf, Alone
    <3> QED BY <2>1, <3>1 DEF VisitOK
  <2>3. CASE v = u
    <3>1. NewHere(u)' = {} /\ \A n \in CardsOf(u) : ~Alone(n)
      BY <1>7, <2>1, <2>3 DEF VisitOK
    <3>2. \A n \in CardsOf(u)' : Alone(n)' => n = m
      BY <1>5, <3>1 DEF CardsOf, Alone
    <3> QED BY <2>3, <3>1, <3>2 DEF VisitOK
  <2> QED BY <2>2, <2>3
<1> QED BY <1>1, <1>6, <1>9, <1>10 DEF DeskInv

LEMMA DeskInvNext == DeskInv /\ [WalletDeskNext]_walletDeskVars => DeskInv'
<1> SUFFICES ASSUME DeskInv, [WalletDeskNext]_walletDeskVars PROVE DeskInv'
  OBVIOUS
<1>1. CASE \E u \in Earner, s \in Inviter : JoinTeam(u, s)
  BY <1>1, JoinTeamInv
<1>2. ASSUME NEW t \in Teller, CreateCard(t) \/ SaveMove(t) \/ AnswerStats(t) \/ CallFails(t)
      PROVE  DeskInv'
  BY <1>2, CreateCardInv, SaveMoveInv, AnswerStatsInv, CallFailsInv
<1>3. ASSUME NEW t \in Teller, NEW u \in Earner, FirstVisit(t, u) PROVE DeskInv'
  BY <1>3, FirstVisitInv
<1>4. ASSUME NEW t \in Teller, NEW u \in Earner, NEW n \in Card, BeginStats(t, u, n) PROVE DeskInv'
  BY <1>4, BeginStatsInv
<1>5. ASSUME NEW t \in Teller, NEW u \in Earner, NEW n \in Card, NEW a \in Correction,
             BeginMove(t, u, n, a)
      PROVE  DeskInv'
  BY <1>5, BeginMoveInv
<1>6. CASE UNCHANGED walletDeskVars
  <2>1. UNCHANGED <<card, purse, journal, teller, told, mingled, twiceNew>>
    BY <1>6 DEF walletDeskVars
  <2>2. (\A n : AtPurse(n)' = AtPurse(n)) /\ (\A v : NewHere(v)' = NewHere(v))
    BY <2>1 DEF AtPurse, NewHere
  <2>3. (\A n \in Card \ mingled' : PurseOK(n)') /\ SerialStatsAgree'
    BY <2>1, <2>2, PursesKept
  <2>4. \A u \in Earner \ twiceNew' : VisitOK(u)'
    BY <2>1, <2>2, VisitsKept DEF DeskInv
  <2>5. DeskTypes'
    BY <2>1 DEF DeskInv, DeskTypes
  <2> QED BY <2>3, <2>4, <2>5 DEF DeskInv
<1> QED BY <1>1, <1>2, <1>3, <1>4, <1>5, <1>6 DEF WalletDeskNext

\* The page of the newest movements begins with the last one.
LEMMA NewestFirst ==
  ASSUME NEW rows \in Seq(JournalRow), rows # <<>>, NEW k \in Nat \ {0}
  PROVE  Head(SubSeq(Reverse(rows), 1, Min({k, Len(Reverse(rows))}))) = rows[Len(rows)]
<1>1. Len(rows) \in Nat \ {0}
  BY EmptySeq
<1> DEFINE back == Reverse(rows)
<1>2. back = [i \in 1..Len(rows) |-> rows[Len(rows) - i + 1]]
  BY DEF Reverse
<1>3. back \in Seq(JournalRow) /\ Len(back) = Len(rows) /\ back[1] = rows[Len(rows)]
  BY <1>1, <1>2
<1> HIDE DEF back
<1>4. PICK m \in 1..Len(back) : m = Min({k, Len(back)})
  <2>1. \E x \in {k, Len(back)} : \A y \in {k, Len(back)} : x <= y
    BY <1>1, <1>3
  <2>2. Min({k, Len(back)}) \in {k, Len(back)} /\ \A y \in {k, Len(back)} : Min({k, Len(back)}) <= y
    BY <2>1 DEF Min
  <2> QED BY <1>1, <1>3, <2>2
<1>5. SubSeq(back, 1, m)[1] = back[1] /\ Len(SubSeq(back, 1, m)) = m
  BY <1>1, <1>3, <1>4
<1> QED BY <1>3, <1>4, <1>5 DEF back

LEMMA DeskInvSound == DeskInv => WalletDeskSound
<1> SUFFICES ASSUME DeskInv PROVE WalletDeskSound
  OBVIOUS
<1>1. ASSUME NEW n \in Card \ mingled
      PROVE  /\ purse[n].balance = SumOf(journal[n])
             /\ purse[n].earned = TotalOf(Given(journal[n]), DOMAIN journal[n])
             /\ \A i \in DOMAIN journal[n] : journal[n][i].after = SumOf(SubSeq(journal[n], 1, i))
             /\ \A k \in 0..2 :
                  k # 0 /\ History(n, k).count # 0 =>
                    Head(History(n, k).results).after = purse[n].balance
  <2>1. journal[n] \in Seq(JournalRow) /\ JournalOK(purse[n], journal[n])
    BY DEF DeskInv, DeskTypes, PurseOK
  <2>2. DOMAIN journal[n] = 1..Len(journal[n])
    BY <2>1
  <2>3. ASSUME NEW k \in 0..2, k # 0, History(n, k).count # 0
        PROVE  Head(History(n, k).results).after = purse[n].balance
    <3>1. Len(Reverse(journal[n])) # 0 /\ k \in Nat \ {0}
      BY <2>3 DEF History
    <3>2. journal[n] # <<>>
      BY <3>1 DEF Reverse
    <3>3. Head(History(n, k).results) = journal[n][Len(journal[n])]
      BY <2>1, <3>1, <3>2, NewestFirst DEF History
    <3>4. SubSeq(journal[n], 1, Len(journal[n])) = journal[n] /\ Len(journal[n]) \in 1..Len(journal[n])
      BY <2>1, <3>2, SubSeqFull, EmptySeq
    <3> QED BY <2>1, <3>3, <3>4 DEF JournalOK
  <2> QED BY <2>1, <2>2, <2>3 DEF JournalOK, SumGiven
<1>2. SerialJournalAddsUp
  BY <1>1 DEF SerialJournalAddsUp
<1>3. ASSUME NEW u \in Earner \ twiceNew, \A n \in CardsOf(u) : card[n].from = "none"
      PROVE  Cardinality(CardsOf(u)) <= 1
  <2>1. \A m, n \in CardsOf(u) : m = n
    BY <1>3 DEF DeskInv, VisitOK, Alone
  <2>2. CASE CardsOf(u) = {}
    BY <2>2, FS_EmptySet
  <2>3. CASE CardsOf(u) # {}
    <3>1. PICK m : CardsOf(u) = {m}
      BY <2>1, <2>3
    <3>2. Cardinality({m}) = 1
      BY FS_Singleton
    <3> QED BY <3>1, <3>2
  <2> QED BY <2>2, <2>3
<1>4. SerialStatsAgree /\ DeskStaysOpen
  BY <1>3 DEF DeskInv, DeskStaysOpen
<1> QED BY <1>2, <1>4 DEF WalletDeskSound

\* The wallet a seller is shown: for every number of calls, profiles and amounts, a balance is the
\* sum of its journal and of every row of it, and the statistics agree, unless two calls were at
\* the wallet at once; and who never accepted an invitation keeps his one profile, unless his
\* first visits met (_get_or_create_seller, SellerWallet.credit and debit, get_stats).
THEOREM WalletDeskStaysSound == WalletDeskSpec => []WalletDeskSound
<1>1. WalletDeskSpec => []DeskInv
  BY DeskInvInit, DeskInvNext, PTL DEF WalletDeskSpec
<1> QED BY <1>1, DeskInvSound, PTL

--------------------------------------------------------------------------------
(* That a seller's kyc_status is the last word of his submissions, unless two   *)
(* handlers worked on him at once; for any number of people, invitations and    *)
(* processes.                                                                   *)
(*                                                                              *)
(* Submission and seller are saved one after the other, and two of the handlers *)
(* save the whole row.  Who is alone with the seller carries the difference:    *)
(* his verdict is that of the last submission, the row he has read is right.    *)

Accepting  == [pc : {"profile"}, who : Person, inv : Invitation]
Activating == [pc : {"activate"}, who : Person, inv : Invitation, row : ProfileRow]
Changing   == [pc : {"status"}, who : Person, row : ProfileRow, status : SellerStatus]
Judging    == [pc : {"review"}, who : Person, at : Nat, verdict : KycStatus]
Reviewing  == [pc : {"kyc"}, who : Person, verdict : KycStatus]
Jobs       == {FreeDesk} \cup Accepting \cup Activating \cup Changing \cup Judging \cup Reviewing

NetworkTypes ==
  /\ profile \in [Person -> ProfileRow \cup {NoProfile}]
  /\ submissions \in [Person -> Seq(KycStatus)]
  /\ desk \in [DeskWorker -> Jobs]
  /\ crossed \in [Person -> BOOLEAN]

LastKyc(p) ==
  IF submissions[p] = <<>> THEN "NOT_REQUIRED" ELSE submissions[p][Len(submissions[p])]

\* What w, alone with p, knows.
KnowsLast(w, p) ==
  /\ AtDesk(w, "review") =>
       HasProfile(p) /\ submissions[p] # <<>> /\ desk[w].at = Len(submissions[p])
  /\ AtDesk(w, "kyc") => HasProfile(p) /\ desk[w].verdict = LastKyc(p)
  /\ AtDesk(w, "activate") \/ AtDesk(w, "status") => HasProfile(p) /\ desk[w].row.kyc = LastKyc(p)

Orderly(p) ==
  /\ \A v, w \in WorkingOn(p) : v = w
  /\ \A w \in WorkingOn(p) : KnowsLast(w, p)
  /\ ~HasProfile(p) => submissions[p] = <<>>
  /\ HasProfile(p) /\ (\A w \in WorkingOn(p) : ~AtDesk(w, "kyc")) => profile[p].kyc = LastKyc(p)

\* Submissions are made and reviewed for sellers only.
KycOfSellers ==
  \A w \in DeskWorker : AtDesk(w, "review") \/ AtDesk(w, "kyc") => HasProfile(desk[w].who)

NetworkInv ==
  /\ NetworkTypes
  /\ KycOfSellers
  /\ \A p \in Person : ~crossed[p] => Orderly(p)

USE InviteeAssumption

LEMMA NetworkInvInit == SellerInit => NetworkInv
<1> SUFFICES ASSUME SellerInit PROVE NetworkInv
  OBVIOUS
<1>1. profile \in [Person -> ProfileRow \cup {NoProfile}] /\ desk \in [DeskWorker -> Jobs]
  BY DEF SellerInit, Jobs
<1>2. submissions \in [Person -> Seq(KycStatus)]
  BY DEF SellerInit
<1>3. crossed \in [Person -> BOOLEAN]
  BY Zenon DEF SellerInit
<1>4. \A p \in Person : WorkingOn(p) = {} /\ ~HasProfile(p) /\ submissions[p] = <<>>
  BY DEF SellerInit, WorkingOn, AtDesk, FreeDesk, HasProfile
<1>5. \A p \in Person : Orderly(p)
  BY <1>4 DEF Orderly
<1>6. KycOfSellers
  BY DEF SellerInit, KycOfSellers, AtDesk, FreeDesk
<1>7. QED
  BY <1>1, <1>2, <1>3, <1>5, <1>6 DEF NetworkInv, NetworkTypes

LEMMA JobByPc ==
  ASSUME NetworkTypes, NEW w \in DeskWorker
  PROVE  /\ AtDesk(w, "profile")  => desk[w] \in Accepting
         /\ AtDesk(w, "activate") => desk[w] \in Activating
         /\ AtDesk(w, "status")   => desk[w] \in Changing
         /\ AtDesk(w, "review")   => desk[w] \in Judging
         /\ AtDesk(w, "kyc")      => desk[w] \in Reviewing
BY DEF NetworkTypes, Jobs, FreeDesk, Accepting, Activating, Changing, Judging, Reviewing, AtDesk

\* A seller with whom nobody does anything.
LEMMA OthersKeep ==
  ASSUME NetworkInv, NEW q \in Person, NEW w \in DeskWorker, NEW job,
         desk' = [desk EXCEPT ![w] = job],
         profile'[q] = profile[q], submissions'[q] = submissions[q],
         w \notin WorkingOn(q), w \notin WorkingOn(q)', Orderly(q)
  PROVE  Orderly(q)'
<1>1. \A v \in DeskWorker : v # w => desk'[v] = desk[v]
  BY DEF NetworkInv, NetworkTypes
<1>2. WorkingOn(q)' = WorkingOn(q) /\ \A v \in WorkingOn(q) : desk'[v] = desk[v]
  BY <1>1 DEF WorkingOn, AtDesk
<1>3. QED
  BY <1>2 DEF Orderly, KnowsLast, AtDesk, HasProfile, LastKyc

LEMMA RowIsProfile == \A row \in ProfileRow : row # NoProfile
BY DEF ProfileRow, NoProfile, SellerStatus

\* A whole row is saved: its kyc_status with it.
LEMMA SaveProfileKeepsKyc ==
  ASSUME NEW row \in ProfileRow, NEW status \in SellerStatus
  PROVE  SaveProfile(row, status) \in ProfileRow /\ SaveProfile(row, status).kyc = row.kyc
<1>1. PICK b \in BOOLEAN : b = (status = "SUSPENDED")
  BY Zenon
<1>0. /\ [row EXCEPT !.status = status] \in ProfileRow
      /\ [row EXCEPT !.status = status].kyc = row.kyc
  BY DEF ProfileRow
<1>2. PICK u \in ProfileRow : u = [row EXCEPT !.status = status] /\ u.kyc = row.kyc
  BY <1>0
<1>3. SaveProfile(row, status) = [u EXCEPT !.suspendedAt = b]
  BY <1>1, <1>2 DEF SaveProfile, ProfileRow
<1>4. QED
  BY <1>2, <1>3 DEF ProfileRow

\* A handler starts on p.  Where it makes or reviews a submission, it knows the last one.
LEMMA StartKeepsInv ==
  ASSUME NetworkInv, NEW w \in DeskWorker, NEW p \in Person, NEW job \in Jobs,
         Start(w, p, job), job.who = p, job.pc # "rest", UNCHANGED profile,
         submissions' \in [Person -> Seq(KycStatus)],
         \A q \in Person \ {p} : submissions'[q] = submissions[q],
         HasProfile(p) \/ UNCHANGED submissions,
         \/ job.pc = "profile" /\ UNCHANGED submissions
         \/ job.pc = "status" /\ job.row = profile[p] /\ HasProfile(p) /\ UNCHANGED submissions
         \/ /\ job.pc = "review" /\ HasProfile(p) /\ UNCHANGED submissions
            /\ submissions[p] # <<>> /\ job.at = Len(submissions[p])
         \/ job.pc = "kyc" /\ HasProfile(p) /\ LastKyc(p)' = job.verdict
  PROVE  NetworkInv'
<1> USE DEF NetworkInv
<1>1. /\ desk[w].pc = "rest" /\ desk' = [desk EXCEPT ![w] = job]
      /\ crossed' = [crossed EXCEPT ![p] = @ \/ WorkingOn(p) # {}]
  BY DEF Start, AtDesk
<1>2. crossed' \in [Person -> BOOLEAN]
  BY <1>1 DEF NetworkTypes
<1>3. NetworkTypes'
  BY <1>1, <1>2 DEF NetworkTypes
<1>4. desk'[w] = job /\ \A v \in DeskWorker : v # w => desk'[v] = desk[v]
  BY <1>1 DEF NetworkTypes
<1>0. KycOfSellers'
  BY <1>4 DEF KycOfSellers, AtDesk, HasProfile
<1>5. ASSUME NEW q \in Person, q # p, ~crossed'[q] PROVE Orderly(q)'
  <2>1. ~crossed[q] /\ w \notin WorkingOn(q) /\ w \notin WorkingOn(q)'
    BY <1>1, <1>4, <1>5 DEF WorkingOn, AtDesk, NetworkTypes
  <2>2. QED
    BY <1>1, <1>5, <2>1, OthersKeep
<1>6. ASSUME ~crossed'[p] PROVE Orderly(p)'
  <2>1. ~crossed[p] /\ WorkingOn(p) = {}
    BY <1>1, <1>6 DEF NetworkTypes
  <2>2. Orderly(p) /\ (HasProfile(p) => profile[p].kyc = LastKyc(p))
    BY <2>1 DEF Orderly
  <2>3. WorkingOn(p)' = {w}
    BY <1>4, <2>1 DEF WorkingOn, AtDesk
  <2>4. KnowsLast(w, p)'
    BY <1>4, <2>2 DEF KnowsLast, AtDesk, HasProfile, LastKyc
  <2>5. QED
    BY <1>4, <2>2, <2>3, <2>4 DEF Orderly, AtDesk, HasProfile, LastKyc
<1>7. QED
  BY <1>0, <1>3, <1>5, <1>6

\* A handler that was alone with p leaves him: the row it saves says what the last
\* submission says.
LEMMA LeaveKeepsInv ==
  ASSUME NetworkInv, NEW w \in DeskWorker, Leave(w), UNCHANGED <<submissions, crossed>>,
         NEW p \in Person, ~AtDesk(w, "rest"), desk[w].who = p,
         profile' \in [Person -> ProfileRow \cup {NoProfile}],
         \A q \in Person \ {p} : profile'[q] = profile[q],
         HasProfile(p) => HasProfile(p)',
         Orderly(p) => HasProfile(p)' /\ profile'[p].kyc = LastKyc(p)
  PROVE  NetworkInv'
<1> USE DEF NetworkInv
<1>1. desk' = [desk EXCEPT ![w] = FreeDesk]
  BY DEF Leave
<1>2. NetworkTypes'
  BY <1>1 DEF NetworkTypes, Jobs
<1>3. desk'[w] = FreeDesk /\ \A v \in DeskWorker : v # w => desk'[v] = desk[v]
  BY <1>1 DEF NetworkTypes
<1>0. KycOfSellers'
  <2>1. \A q \in Person : HasProfile(q) => HasProfile(q)'
    BY DEF HasProfile
  <2>2. ASSUME NEW v \in DeskWorker, (AtDesk(v, "review") \/ AtDesk(v, "kyc"))'
        PROVE  HasProfile(desk[v].who)'
    <3>1. v # w /\ desk'[v] = desk[v] /\ (AtDesk(v, "review") \/ AtDesk(v, "kyc"))
      BY <1>3, <2>2 DEF AtDesk, FreeDesk
    <3>2. PICK q \in Person : q = desk[v].who /\ HasProfile(q)
      BY <3>1, JobByPc DEF Judging, Reviewing, KycOfSellers
    <3>3. HasProfile(q)' /\ desk'[v].who = q
      BY <2>1, <3>1, <3>2
    <3>4. QED
      BY <3>3 DEF HasProfile
  <2>3. QED
    BY <2>2 DEF KycOfSellers
<1>4. ASSUME NEW q \in Person, q # p, ~crossed'[q] PROVE Orderly(q)'
  <2>1. w \notin WorkingOn(q) /\ w \notin WorkingOn(q)'
    BY <1>3, <1>4 DEF WorkingOn, AtDesk, FreeDesk
  <2>2. QED
    BY <1>1, <1>4, <2>1, OthersKeep
<1>5. ASSUME ~crossed'[p] PROVE Orderly(p)'
  <2>1. Orderly(p) /\ w \in WorkingOn(p)
    BY <1>5 DEF WorkingOn
  <2>2. WorkingOn(p)' = {}
    BY <1>3, <2>1 DEF WorkingOn, AtDesk, FreeDesk, Orderly
  <2>3. QED
    BY <2>1, <2>2 DEF Orderly, LastKyc
<1>6. QED
  BY <1>0, <1>2, <1>4, <1>5

\* Handlers begin: an acceptance, a change of status, a submission, a review.
LEMMA BeginningKeepsInv ==
  ASSUME NetworkInv, NEW w \in DeskWorker,
         \/ \E i \in Invitation : BeginAccept(w, i)
         \/ \E p \in Person :
              \/ CreateSubmission(w, p)
              \/ \E s \in SellerStatus : BeginStatus(w, p, s)
              \/ \E v \in {"VERIFIED", "REJECTED"} : BeginReview(w, p, v)
  PROVE  NetworkInv'
<1> USE DEF NetworkInv
<1>1. ASSUME NEW i \in Invitation, BeginAccept(w, i) PROVE NetworkInv'
  <2> DEFINE job == [pc |-> "profile", who |-> Invitee[i], inv |-> i]
  <2>1. job \in Jobs /\ job.who = Invitee[i] /\ Invitee[i] \in Person
    BY DEF Jobs, Accepting
  <2>2. Start(w, Invitee[i], job) /\ UNCHANGED <<profile, submissions>>
    BY <1>1 DEF BeginAccept
  <2>3. QED
    BY <2>1, <2>2, StartKeepsInv DEF NetworkTypes
<1>2. ASSUME NEW p \in Person, NEW s \in SellerStatus, BeginStatus(w, p, s) PROVE NetworkInv'
  <2> DEFINE job == [pc |-> "status", who |-> p, row |-> profile[p], status |-> s]
  <2>1. HasProfile(p) /\ Start(w, p, job) /\ UNCHANGED <<profile, submissions>>
    BY <1>2 DEF BeginStatus
  <2>2. profile[p] \in ProfileRow
    BY <2>1 DEF NetworkTypes, HasProfile
  <2>3. job \in Jobs
    BY <2>2 DEF Jobs, Changing
  <2>4. QED
    BY <2>1, <2>3, StartKeepsInv DEF NetworkTypes
<1>3. ASSUME NEW p \in Person, CreateSubmission(w, p) PROVE NetworkInv'
  <2> DEFINE job == [pc |-> "kyc", who |-> p, verdict |-> "PENDING"]
  <2>1. /\ HasProfile(p) /\ Start(w, p, job) /\ UNCHANGED profile
        /\ submissions' = [submissions EXCEPT ![p] = Append(@, "PENDING")]
    BY <1>3 DEF CreateSubmission
  <2>2. job \in Jobs
    BY DEF Jobs, Reviewing, KycStatus
  <2>3. submissions[p] \in Seq(KycStatus) /\ submissions'[p] = Append(submissions[p], "PENDING")
    BY <2>1 DEF NetworkTypes
  <2>4. /\ submissions'[p] \in Seq(KycStatus) /\ submissions'[p] # <<>>
        /\ submissions'[p][Len(submissions'[p])] = "PENDING"
    BY <2>3 DEF KycStatus
  <2>5. /\ submissions' \in [Person -> Seq(KycStatus)]
        /\ \A q \in Person \ {p} : submissions'[q] = submissions[q]
    BY <2>1, <2>4 DEF NetworkTypes
  <2>6. LastKyc(p)' = "PENDING"
    BY <2>4 DEF LastKyc
  <2>7. QED
    BY <2>1, <2>2, <2>5, <2>6, StartKeepsInv
<1>4. ASSUME NEW p \in Person, NEW v \in {"VERIFIED", "REJECTED"}, BeginReview(w, p, v)
      PROVE  NetworkInv'
  <2> DEFINE job == [pc |-> "review", who |-> p, at |-> Len(submissions[p]), verdict |-> v]
  <2>1. /\ HasProfile(p) /\ Start(w, p, job) /\ UNCHANGED <<profile, submissions>>
        /\ submissions[p] # <<>>
    BY <1>4 DEF BeginReview
  <2>2. Len(submissions[p]) \in Nat
    BY DEF NetworkTypes
  <2>3. job \in Jobs
    BY <2>2 DEF Jobs, Judging, KycStatus
  <2>4. QED
    BY <2>1, <2>3, StartKeepsInv DEF NetworkTypes
<1>5. QED
  BY <1>1, <1>2, <1>3, <1>4

\* A submission has its verdict: whoever is alone with the seller has judged the last one.
LEMMA ReviewKeepsInv ==
  ASSUME NetworkInv, NEW w \in DeskWorker, NEW p \in Person, NEW j, NEW n,
         ReviewSubmission(w), j = desk[w], p = j.who, n = j.at
  PROVE  NetworkInv'
<1> USE DEF NetworkInv
<1> DEFINE job == [pc |-> "kyc", who |-> p, verdict |-> j.verdict]
<1>1. /\ AtDesk(w, "review") /\ UNCHANGED <<profile, crossed>>
      /\ submissions' = [submissions EXCEPT ![p][n] = j.verdict]
      /\ desk' = [desk EXCEPT ![w] = job]
  BY DEF ReviewSubmission, Reviewed
<1>2. /\ j \in Judging /\ n \in Nat /\ j.verdict \in KycStatus /\ j.pc = "review"
      /\ HasProfile(p)
  BY <1>1, JobByPc DEF Judging, KycOfSellers, AtDesk
<1>3. job \in Jobs /\ job.pc = "kyc" /\ job.who = p /\ job.verdict = j.verdict
  BY <1>2 DEF Jobs, Reviewing
<1> HIDE DEF job
<1>4. submissions'[p] = [submissions[p] EXCEPT ![n] = j.verdict]
  BY <1>1, <1>2 DEF NetworkTypes
<1>5. submissions'[p] \in Seq(KycStatus) /\ Len(submissions'[p]) = Len(submissions[p])
  <2>1. ASSUME NEW s \in Seq(KycStatus), NEW v \in KycStatus, NEW i \in Nat
        PROVE  [s EXCEPT ![i] = v] \in Seq(KycStatus) /\ Len([s EXCEPT ![i] = v]) = Len(s)
    <3>1. CASE i \in 1..Len(s)
      BY <2>1, <3>1, ExceptSeq
    <3>2. CASE i \notin 1..Len(s)
      <4>1. [s EXCEPT ![i] = v] = s
        BY <2>1, <3>2
      <4> QED BY <4>1
    <3> QED BY <3>1, <3>2
  <2>2. submissions[p] \in Seq(KycStatus)
    BY <1>2 DEF NetworkTypes
  <2> QED BY <1>2, <1>4, <2>1, <2>2
<1>6. NetworkTypes'
  <2>1. submissions' \in [Person -> Seq(KycStatus)]
    BY <1>1, <1>2, <1>5 DEF NetworkTypes
  <2> QED BY <1>1, <1>3, <2>1 DEF NetworkTypes
<1>7. /\ desk'[w] = job /\ \A v \in DeskWorker : v # w => desk'[v] = desk[v]
      /\ \A q \in Person \ {p} : submissions'[q] = submissions[q]
  BY <1>1, <1>2 DEF NetworkTypes
<1>8. KycOfSellers'
  BY <1>1, <1>2, <1>3, <1>7 DEF KycOfSellers, AtDesk, HasProfile
<1>9. ASSUME NEW q \in Person, q # p, ~crossed'[q] PROVE Orderly(q)'
  <2>1. ~crossed[q] /\ w \notin WorkingOn(q) /\ w \notin WorkingOn(q)'
    BY <1>1, <1>3, <1>7, <1>9 DEF WorkingOn, AtDesk
  <2> QED BY <1>1, <1>7, <1>9, <2>1, OthersKeep
<1>10. ASSUME ~crossed'[p] PROVE Orderly(p)'
  <2>1. Orderly(p) /\ w \in WorkingOn(p)
    BY <1>1, <1>2, <1>10 DEF WorkingOn, AtDesk
  <2>2. \A v \in DeskWorker : v \in WorkingOn(p)' <=> v \in WorkingOn(p)
    BY <1>2, <1>3, <1>7 DEF WorkingOn, AtDesk
  <2>3. WorkingOn(p)' = {w}
    BY <2>1, <2>2 DEF Orderly, WorkingOn
  <2>4. submissions[p] # <<>> /\ n = Len(submissions[p]) /\ submissions[p] \in Seq(KycStatus)
    BY <1>1, <1>2, <2>1 DEF Orderly, KnowsLast, NetworkTypes
  <2>5. LastKyc(p)' = j.verdict
    <3>1. n \in 1..Len(submissions[p]) /\ submissions'[p][n] = j.verdict
      BY <1>4, <2>4
    <3>2. submissions'[p] # <<>>
      BY <1>5, <2>4, <3>1
    <3>3. Len(submissions'[p]) = n
      BY <1>5, <2>4
    <3>4. LastKyc(p)' = submissions'[p][Len(submissions'[p])]
      BY <3>2 DEF LastKyc
    <3> QED BY <3>1, <3>3, <3>4
  <2>6. KnowsLast(w, p)'
    BY <1>1, <1>2, <1>3, <1>7, <2>5 DEF KnowsLast, AtDesk, HasProfile
  <2> QED BY <1>1, <1>2, <1>3, <1>7, <2>3, <2>6 DEF Orderly, AtDesk, HasProfile
<1> QED BY <1>6, <1>8, <1>9, <1>10

\* Handlers save.
LEMMA SavingKeepsInv ==
  ASSUME NetworkInv, NEW w \in DeskWorker, NEW p \in Person, p = desk[w].who,
         GetOrCreateProfile(w) \/ ActivateOnAccept(w) \/ SaveNewStatus(w) \/ SaveKyc(w)
  PROVE  NetworkInv'
<1> DEFINE j == desk[w]
<1> USE DEF NetworkInv
<1>1. CASE GetOrCreateProfile(w)
  <2>1. AtDesk(w, "profile") /\ j \in Accepting /\ UNCHANGED <<submissions, crossed>>
    BY <1>1, JobByPc DEF GetOrCreateProfile
  <2>2. p \in Person /\ j.inv \in Invitation /\ j.pc = "profile" /\ ~AtDesk(w, "rest")
    BY <2>1 DEF Accepting, AtDesk
  <2>3. CASE HasProfile(p)
    <3> DEFINE job == [pc |-> "activate", who |-> p, inv |-> j.inv, row |-> profile[p]]
    <3>1. desk' = [desk EXCEPT ![w] = job] /\ UNCHANGED profile
      BY <1>1, <2>3 DEF GetOrCreateProfile
    <3>2. profile[p] \in ProfileRow
      BY <2>2, <2>3 DEF NetworkTypes, HasProfile
    <3>3. job \in Jobs
      BY <2>2, <3>2 DEF Jobs, Activating
    <3>4. NetworkTypes'
      BY <2>1, <3>1, <3>3 DEF NetworkTypes
    <3>5. desk'[w] = job /\ \A v \in DeskWorker : v # w => desk'[v] = desk[v]
      BY <3>1 DEF NetworkTypes
    <3>6. ASSUME NEW q \in Person, q # p, ~crossed'[q] PROVE Orderly(q)'
      <4>1. ~crossed[q] /\ w \notin WorkingOn(q) /\ w \notin WorkingOn(q)'
        BY <2>1, <3>5, <3>6 DEF WorkingOn, AtDesk
      <4>2. QED
        BY <2>1, <3>1, <3>6, <4>1, OthersKeep
    <3>7. ASSUME ~crossed'[p] PROVE Orderly(p)'
      <4>1. Orderly(p) /\ w \in WorkingOn(p)
        BY <2>1, <2>2, <3>7 DEF WorkingOn
      <4>2. WorkingOn(p) = {w} /\ WorkingOn(p)' = {w}
        <5>1. \A v \in DeskWorker : v \in WorkingOn(p)' <=> v \in WorkingOn(p)
          BY <2>2, <3>5 DEF WorkingOn, AtDesk
        <5>2. QED
          BY <4>1, <5>1 DEF Orderly, WorkingOn
      <4>3. profile[p].kyc = LastKyc(p)
        BY <2>2, <2>3, <4>1, <4>2 DEF Orderly, AtDesk
      <4>4. KnowsLast(w, p)'
        BY <2>1, <2>3, <3>1, <3>5, <4>3 DEF KnowsLast, AtDesk, HasProfile, LastKyc
      <4>5. QED
        BY <2>1, <2>3, <3>1, <4>2, <4>3, <4>4 DEF Orderly, HasProfile, LastKyc
    <3>8. KycOfSellers'
      BY <3>1, <3>5 DEF KycOfSellers, AtDesk, HasProfile
    <3>9. QED
      BY <3>4, <3>6, <3>7, <3>8
  <2>4. CASE ~HasProfile(p)
    <3> DEFINE new == [status |-> "ACTIVE", kyc |-> "NOT_REQUIRED", active |-> TRUE,
                       suspendedAt |-> FALSE]
    <3>1. profile' = [profile EXCEPT ![p] = new] /\ Leave(w)
      BY <1>1, <2>4 DEF GetOrCreateProfile
    <3>2. new \in ProfileRow /\ new # NoProfile /\ new.kyc = "NOT_REQUIRED"
      BY DEF ProfileRow, SellerStatus, NoProfile
    <3>3. /\ profile' \in [Person -> ProfileRow \cup {NoProfile}] /\ profile'[p] = new
          /\ \A q \in Person \ {p} : profile'[q] = profile[q]
      BY <2>2, <3>1, <3>2 DEF NetworkTypes
    <3>4. HasProfile(p)' /\ (Orderly(p) => profile'[p].kyc = LastKyc(p))
      BY <2>4, <3>2, <3>3 DEF Orderly, HasProfile, LastKyc
    <3>5. QED
      BY <2>1, <2>2, <3>1, <3>3, <3>4, LeaveKeepsInv
  <2>5. QED
    BY <2>3, <2>4
<1>2. CASE ActivateOnAccept(w)
  <2>1. AtDesk(w, "activate") /\ j \in Activating /\ Leave(w) /\ UNCHANGED <<submissions, crossed>>
    BY <1>2, JobByPc DEF ActivateOnAccept
  <2>2. p \in Person /\ j.row \in ProfileRow /\ ~AtDesk(w, "rest")
    BY <2>1 DEF Activating, AtDesk
  <2>3. /\ SaveProfile(j.row, "ACTIVE") \in ProfileRow
        /\ SaveProfile(j.row, "ACTIVE").kyc = j.row.kyc
    BY <2>2, SaveProfileKeepsKyc DEF SellerStatus
  <2>4. ASSUME Orderly(p) PROVE /\ HasProfile(p) /\ j.row.kyc = LastKyc(p)
                                /\ profile[p].kyc = LastKyc(p)
    BY <2>1, <2>2, <2>4 DEF Orderly, KnowsLast, WorkingOn, AtDesk
  <2>5. CASE j.row.status = "ACTIVE"
    <3>1. UNCHANGED profile
      BY <1>2, <2>5 DEF ActivateOnAccept
    <3>2. QED
      BY <2>1, <2>2, <2>4, <3>1, LeaveKeepsInv DEF NetworkTypes, HasProfile
  <2>6. CASE j.row.status # "ACTIVE"
    <3>1. profile' = [profile EXCEPT ![p] = SaveProfile(j.row, "ACTIVE")]
      BY <1>2, <2>6 DEF ActivateOnAccept
    <3>2. /\ profile' \in [Person -> ProfileRow \cup {NoProfile}]
          /\ profile'[p] = SaveProfile(j.row, "ACTIVE")
          /\ \A q \in Person \ {p} : profile'[q] = profile[q]
      BY <2>2, <2>3, <3>1 DEF NetworkTypes
    <3>3. HasProfile(p)'
      BY <2>3, <3>2, RowIsProfile DEF HasProfile
    <3>4. QED
      BY <2>1, <2>2, <2>3, <2>4, <3>2, <3>3, LeaveKeepsInv
  <2>7. QED
    BY <2>5, <2>6
<1>3. CASE SaveNewStatus(w)
  <2>1. AtDesk(w, "status") /\ j \in Changing /\ Leave(w) /\ UNCHANGED <<submissions, crossed>>
    BY <1>3, JobByPc DEF SaveNewStatus
  <2>2. p \in Person /\ j.row \in ProfileRow /\ j.status \in SellerStatus /\ ~AtDesk(w, "rest")
    BY <2>1 DEF Changing, AtDesk
  <2> DEFINE row == SaveProfile(j.row, j.status)
  <2>3. row \in ProfileRow /\ row.kyc = j.row.kyc
    BY <2>2, SaveProfileKeepsKyc
  <2>4. profile' = [profile EXCEPT ![p] = row]
    BY <1>3 DEF SaveNewStatus
  <2>5. /\ profile' \in [Person -> ProfileRow \cup {NoProfile}] /\ profile'[p] = row
        /\ \A q \in Person \ {p} : profile'[q] = profile[q]
    BY <2>2, <2>3, <2>4 DEF NetworkTypes
  <2>6. HasProfile(p)'
    BY <2>3, <2>5, RowIsProfile DEF HasProfile
  <2>7. Orderly(p) => profile'[p].kyc = LastKyc(p)
    BY <2>1, <2>2, <2>3, <2>5 DEF Orderly, KnowsLast, WorkingOn
  <2>8. QED
    BY <2>1, <2>2, <2>5, <2>6, <2>7, LeaveKeepsInv
<1>4. CASE SaveKyc(w)
  <2>1. AtDesk(w, "kyc") /\ j \in Reviewing /\ Leave(w) /\ UNCHANGED <<submissions, crossed>>
    BY <1>4, JobByPc DEF SaveKyc
  <2>2. p \in Person /\ j.verdict \in KycStatus /\ ~AtDesk(w, "rest")
    BY <2>1 DEF Reviewing, AtDesk
  <2>3. profile' = [profile EXCEPT ![p].kyc = j.verdict]
    BY <1>4 DEF SaveKyc, SetKyc
  <2>4. profile[p] \in ProfileRow
    BY <2>1 DEF KycOfSellers, HasProfile, NetworkTypes
  <2> DEFINE row == [profile[p] EXCEPT !.kyc = j.verdict]
  <2>5. row \in ProfileRow /\ row.kyc = j.verdict
    BY <2>2, <2>4 DEF ProfileRow
  <2>6. /\ profile' \in [Person -> ProfileRow \cup {NoProfile}] /\ profile'[p] = row
        /\ \A q \in Person \ {p} : profile'[q] = profile[q]
    BY <2>2, <2>3, <2>5 DEF NetworkTypes
  <2>7. HasProfile(p)'
    BY <2>5, <2>6, RowIsProfile DEF HasProfile
  <2>8. Orderly(p) => profile'[p].kyc = LastKyc(p)
    BY <2>1, <2>2, <2>5, <2>6 DEF Orderly, KnowsLast, WorkingOn
  <2>9. QED
    BY <2>1, <2>2, <2>6, <2>7, <2>8, LeaveKeepsInv
<1>5. QED
  BY <1>1, <1>2, <1>3, <1>4

\* A seller is removed: whoever is working on him crosses that.
LEMMA RemovalKeepsInv ==
  ASSUME NetworkInv, NEW p \in Person, RemoveSeller(p)
  PROVE  NetworkInv'
<1> USE DEF NetworkInv
<1>1. /\ HasProfile(p) /\ crossed' = [crossed EXCEPT ![p] = @ \/ WorkingOn(p) # {}]
      /\ profile' = [profile EXCEPT ![p].status = "INACTIVE", ![p].active = FALSE]
      /\ UNCHANGED <<submissions, desk>>
  BY DEF RemoveSeller
<1>2. profile[p] \in ProfileRow
  BY <1>1 DEF HasProfile, NetworkTypes
<1>3. PICK u \in ProfileRow : u = [profile[p] EXCEPT !.status = "INACTIVE"] /\ u.kyc = profile[p].kyc
  <2>1. /\ [profile[p] EXCEPT !.status = "INACTIVE"] \in ProfileRow
        /\ [profile[p] EXCEPT !.status = "INACTIVE"].kyc = profile[p].kyc
    BY <1>2 DEF ProfileRow, SellerStatus
  <2>2. QED
    BY <2>1
<1>4. PICK b \in BOOLEAN : b = FALSE
  BY Zenon
<1>5. [u EXCEPT !.active = b] \in ProfileRow /\ [u EXCEPT !.active = b].kyc = profile[p].kyc
  BY <1>3 DEF ProfileRow
<1>6. profile'[p] = [u EXCEPT !.active = b]
  BY <1>1, <1>2, <1>3, <1>4 DEF NetworkTypes, ProfileRow
<1>7. /\ profile'[p] \in ProfileRow /\ profile'[p].kyc = profile[p].kyc
      /\ profile' \in [Person -> ProfileRow \cup {NoProfile}]
      /\ \A q \in Person \ {p} : profile'[q] = profile[q]
  BY <1>1, <1>5, <1>6 DEF NetworkTypes
<1>8. crossed' \in [Person -> BOOLEAN]
  BY <1>1 DEF NetworkTypes
<1>9. HasProfile(p)' /\ \A q \in Person : HasProfile(q)' <=> HasProfile(q)
  BY <1>1, <1>7, RowIsProfile DEF HasProfile
<1>10. NetworkTypes' /\ KycOfSellers'
  <2>1. NetworkTypes'
    BY <1>1, <1>7, <1>8 DEF NetworkTypes
  <2>2. ASSUME NEW w \in DeskWorker, (AtDesk(w, "review") \/ AtDesk(w, "kyc"))'
        PROVE  HasProfile(desk[w].who)'
    <3>1. (AtDesk(w, "review") \/ AtDesk(w, "kyc")) /\ desk'[w] = desk[w]
      BY <1>1, <2>2 DEF AtDesk
    <3>2. PICK q \in Person : q = desk[w].who /\ HasProfile(q)
      BY <3>1, JobByPc DEF Judging, Reviewing, KycOfSellers
    <3>3. HasProfile(q)' /\ desk'[w].who = q
      BY <1>9, <3>1, <3>2
    <3>4. QED
      BY <3>3 DEF HasProfile
  <2>3. QED
    BY <2>1, <2>2 DEF KycOfSellers
<1>11. ASSUME NEW q \in Person, ~crossed'[q] PROVE Orderly(q)'
  <2>1. ~crossed[q] /\ Orderly(q) /\ (q = p => WorkingOn(q) = {})
    BY <1>1, <1>11 DEF NetworkTypes
  <2>2. WorkingOn(q)' = WorkingOn(q)
    BY <1>1 DEF WorkingOn, AtDesk
  <2>3. CASE q = p
    BY <1>1, <1>7, <1>9, <2>1, <2>2, <2>3 DEF Orderly, LastKyc
  <2>4. CASE q # p
    BY <1>1, <1>7, <1>9, <2>1, <2>2, <2>4 DEF Orderly, KnowsLast, AtDesk, HasProfile, LastKyc
  <2>5. QED
    BY <2>3, <2>4
<1>12. QED
  BY <1>10, <1>11

LEMMA NetworkInvNext == NetworkInv /\ [SellerNext]_sellerVars => NetworkInv'
<1> SUFFICES ASSUME NetworkInv, [SellerNext]_sellerVars PROVE NetworkInv'
  OBVIOUS
<1>1. ASSUME UNCHANGED <<profile, submissions, desk, crossed>> PROVE NetworkInv'
  BY <1>1 DEF NetworkInv, NetworkTypes, KycOfSellers, Orderly, KnowsLast, WorkingOn, AtDesk,
              HasProfile, LastKyc
<1>2. CASE UNCHANGED sellerVars
  BY <1>1, <1>2 DEF sellerVars
<1>3. ASSUME NEW i \in Invitation, Invite(i) \/ ExpireInvitation(i) \/ Decline(i) \/ AcceptRaises(i)
      PROVE  NetworkInv'
  BY <1>1, <1>3 DEF Invite, ExpireInvitation, Decline, AcceptRaises
<1>4. ASSUME SubmitOrgKyc \/ \E v \in {"VERIFIED", "REJECTED"} : ReviewOrgKyc(v)
      PROVE  NetworkInv'
  BY <1>1, <1>4 DEF SubmitOrgKyc, ReviewOrgKyc
<1>5. ASSUME NEW w \in DeskWorker,
             \/ \E i \in Invitation : BeginAccept(w, i)
             \/ \E p \in Person :
                  \/ CreateSubmission(w, p)
                  \/ \E s \in SellerStatus : BeginStatus(w, p, s)
                  \/ \E v \in {"VERIFIED", "REJECTED"} : BeginReview(w, p, v)
      PROVE  NetworkInv'
  BY <1>5, BeginningKeepsInv
<1>6. ASSUME NEW w \in DeskWorker,
             GetOrCreateProfile(w) \/ ActivateOnAccept(w) \/ SaveNewStatus(w) \/ SaveKyc(w)
      PROVE  NetworkInv'
  <2>1. NetworkTypes
    BY DEF NetworkInv
  <2>2. desk[w].who \in Person
    BY <1>6, <2>1, JobByPc DEF GetOrCreateProfile, ActivateOnAccept, SaveNewStatus, SaveKyc,
                              Accepting, Activating, Changing, Reviewing
  <2>3. QED
    BY <1>6, <2>2, SavingKeepsInv
<1>7. ASSUME NEW p \in Person, RemoveSeller(p) PROVE NetworkInv'
  BY <1>7, RemovalKeepsInv
<1>8. ASSUME NEW w \in DeskWorker, ReviewSubmission(w) PROVE NetworkInv'
  <2>1. PICK p \in Person : p = desk[w].who
    BY <1>8, JobByPc DEF NetworkInv, ReviewSubmission, Reviewed, Judging
  <2>2. QED
    BY <1>8, <2>1, ReviewKeepsInv
<1>9. QED
  BY <1>2, <1>3, <1>4, <1>5, <1>6, <1>7, <1>8 DEF SellerNext

\* SellerKYCSubmitView, SuperSellerReviewSellerKYCView and the handlers that save a seller's
\* whole row: if no two of them worked on one seller at once, his kyc_status is that of his
\* last submission.
THEOREM KycIsTheLast == SellerSpec => []SerialKycIsTheLast
<1>1. NetworkInv => SerialKycIsTheLast
  BY DEF NetworkInv, Orderly, SerialKycIsTheLast, LastKyc
<1>2. QED
  BY <1>1, NetworkInvInit, NetworkInvNext, PTL DEF SellerSpec

--------------------------------------------------------------------------------
(* That a super-seller hears of a low stock, once an hour, as long as           *)
(* transactions come one after the other; for any number of sellers, amounts,   *)
(* thresholds, rollbacks and hours.                                             *)
(*                                                                              *)
(* The keys in the processes' caches and the committed rows change apart.  What *)
(* keeps them together is the transaction in progress: when it ends within the  *)
(* hour of its save, its process has the key if what it is about to commit is   *)
(* low.                                                                         *)

Job == [pc : {"save", "notify", "end"}, of : StockHolder, left : Int, hour : Nat]

AlertTypes ==
  /\ onHand \in [StockHolder -> Int]
  /\ moving \in [StockClerk -> {NotMoving} \cup Job]
  /\ hours \in [StockClerk -> Nat] /\ superTold \in [StockClerk -> Nat]
  /\ notified \in [StockClerk -> BOOLEAN]
  /\ lastMover \in StockClerk \cup {NobodyMoved}

\* Alone, process c works towards a key that stands for what it leaves.
AlertOf(c) ==
  /\ moving[c].hour <= hours[c]
  /\ moving[c].pc = "notify" => ~notified[c]
  /\ moving[c].pc = "end" /\ moving[c].hour = hours[c] /\ RunsLow(InTotal(AsSeen(c)))
       => notified[c]

SerialAlerts ==
  /\ \A c, d \in Moving : c = d
  /\ \A c \in Moving : AlertOf(c)
  /\ \A c \in StockClerk : superTold[c] <= 1 /\ (superTold[c] = 1 => notified[c])
  /\ lastMover # NobodyMoved /\ RunsLow(InTotal(onHand)) => notified[lastMover]

AlertInv == AlertTypes /\ (~together => SerialAlerts)

USE StockAlertsAssumption

LEMMA AlertInvInit == StockAlertsInit => AlertInv
<1> SUFFICES ASSUME StockAlertsInit PROVE AlertInv
  OBVIOUS
<1>1. /\ moving \in [StockClerk -> {NotMoving} \cup Job] /\ onHand \in [StockHolder -> Int]
      /\ hours \in [StockClerk -> Nat] /\ superTold \in [StockClerk -> Nat]
      /\ lastMover \in StockClerk \cup {NobodyMoved}
  BY DEF StockAlertsInit, NoStockRow
<1>2. notified \in [StockClerk -> BOOLEAN]
  BY DEF StockAlertsInit
<1>3. Moving = {}
  BY DEF StockAlertsInit, Moving
<1>4. SerialAlerts
  BY <1>3 DEF StockAlertsInit, SerialAlerts
<1>5. QED
  BY <1>1, <1>2, <1>4 DEF AlertInv, AlertTypes

\* A clerk in the middle of a transaction.
LEMMA ClerkAtWork ==
  ASSUME AlertInv, NEW c \in StockClerk, moving[c].pc \in {"save", "notify", "end"}
  PROVE  moving[c] \in Job /\ c \in Moving
BY DEF AlertInv, AlertTypes, NotMoving, Job, Moving

LEMMA JobGoesOn ==
  ASSUME NEW u \in Job, NEW q \in {"save", "notify", "end"}
  PROVE  [u EXCEPT !.pc = q] = [pc |-> q, of |-> u.of, left |-> u.left, hour |-> u.hour]
BY DEF Job

LEMMA LockKeepsInv ==
  ASSUME AlertInv, NEW c \in StockClerk, NEW s \in StockHolder, NEW n \in StockMoves,
         LockStock(c, s, n)
  PROVE  AlertInv'
<1> USE DEF AlertInv
<1> DEFINE job == [pc |-> "save", of |-> s, hour |-> hours[c],
                   left |-> (IF onHand[s] = NoStockRow THEN 0 ELSE onHand[s]) + n]
<1>1. job \in Job
  BY DEF Job, AlertTypes
<1>2. /\ moving' = [moving EXCEPT ![c] = job] /\ together' = (together \/ Moving # {})
      /\ UNCHANGED <<onHand, notified, hours, superTold, lastMover>>
  BY DEF LockStock
<1>3. AlertTypes'
  BY <1>1, <1>2 DEF AlertTypes
<1>4. ASSUME ~together' PROVE SerialAlerts'
  <2>1. ~together /\ Moving = {} /\ SerialAlerts
    BY <1>2, <1>4
  <2>2. Moving' = {c}
    BY <1>1, <1>2, <2>1 DEF Moving, AlertTypes, NotMoving, Job
  <2>3. AlertOf(c)'
    BY <1>2 DEF AlertOf, AlertTypes
  <2>4. QED
    BY <1>2, <2>1, <2>2, <2>3 DEF SerialAlerts
<1>5. QED
  BY <1>3, <1>4

\* Another step of the same transaction: it saves, and tells if it has to.
LEMMA GoingOnKeepsInv ==
  ASSUME AlertInv, NEW c \in StockClerk, SaveStock(c) \/ NotifyAndCache(c)
  PROVE  AlertInv'
<1> USE DEF AlertInv
<1> DEFINE j == moving[c]
<1>1. CASE SaveStock(c)
  <2> DEFINE pc == IF RunsLow(InTotal(AsSeen(c))) /\ ~notified[c] THEN "notify" ELSE "end"
             k == [j EXCEPT !.hour = hours[c], !.pc = pc]
  <2>1. /\ j.pc = "save" /\ moving' = [moving EXCEPT ![c] = k]
        /\ UNCHANGED <<onHand, notified, hours, superTold, lastMover, together>>
    BY <1>1 DEF SaveStock
  <2>2. j \in Job /\ c \in Moving
    BY <2>1, ClerkAtWork
  <2>3. k = [pc |-> pc, of |-> j.of, left |-> j.left, hour |-> hours[c]] /\ k \in Job
    <3>1. PICK u \in Job : u = [j EXCEPT !.hour = hours[c]]
      BY <2>2 DEF Job, AlertTypes
    <3>2. k = [u EXCEPT !.pc = pc]
      BY <2>2, <3>1 DEF Job
    <3>3. u.of = j.of /\ u.left = j.left /\ u.hour = hours[c]
      BY <2>2, <3>1 DEF Job
    <3>4. pc \in {"save", "notify", "end"}
      OBVIOUS
    <3>5. [u EXCEPT !.pc = pc] = [pc |-> pc, of |-> u.of, left |-> u.left, hour |-> u.hour]
      BY <3>1, <3>4, JobGoesOn, Zenon
    <3>6. k = [pc |-> pc, of |-> j.of, left |-> j.left, hour |-> hours[c]]
      BY <3>2, <3>3, <3>5
    <3>7. QED
      BY <2>2, <3>4, <3>6 DEF Job, AlertTypes
  <2>4. AlertTypes'
    BY <2>1, <2>3 DEF AlertTypes
  <2>5. Moving' = Moving
    BY <2>1, <2>2, <2>3 DEF Moving, AlertTypes, NotMoving
  <2>6. moving'[c] = k
    BY <2>1 DEF AlertTypes
  <2>7. AsSeen(c)' = AsSeen(c)
    BY <2>1, <2>3, <2>6 DEF AsSeen
  <2>8. ASSUME ~together' PROVE SerialAlerts'
    <3>1. Moving = {c} /\ SerialAlerts
      BY <2>1, <2>2, <2>8 DEF SerialAlerts
    <3>2. AlertOf(c)'
      <4>1. moving'[c].pc = pc /\ moving'[c].hour = hours'[c]
        BY <2>1, <2>3, <2>6
      <4>2. moving'[c].pc = "notify" => ~notified'[c]
        BY <2>1, <4>1
      <4>3. moving'[c].pc = "end" /\ RunsLow(InTotal(AsSeen(c)))' => notified'[c]
        BY <2>1, <2>7, <4>1
      <4>4. moving'[c].hour <= hours'[c]
        BY <2>1, <4>1 DEF AlertTypes
      <4>5. QED
        BY <4>1, <4>2, <4>3, <4>4 DEF AlertOf
    <3>3. QED
      BY <2>1, <2>5, <3>1, <3>2 DEF SerialAlerts
  <2>9. QED
    BY <2>4, <2>8
<1>2. CASE NotifyAndCache(c)
  <2> DEFINE k == [j EXCEPT !.pc = "end"]
  <2>1. /\ j.pc = "notify" /\ moving' = [moving EXCEPT ![c] = k]
        /\ superTold' = [superTold EXCEPT ![c] = @ + 1] /\ notified' = [notified EXCEPT ![c] = TRUE]
        /\ UNCHANGED <<onHand, hours, lastMover, together>>
    BY <1>2 DEF NotifyAndCache
  <2>2. j \in Job /\ c \in Moving
    BY <2>1, ClerkAtWork
  <2>3. k = [pc |-> "end", of |-> j.of, left |-> j.left, hour |-> j.hour] /\ k \in Job
    BY <2>2 DEF Job
  <2>4. AlertTypes'
    BY <2>1, <2>3 DEF AlertTypes
  <2>5. Moving' = Moving
    BY <2>1, <2>2, <2>3 DEF Moving, AlertTypes, NotMoving
  <2>6. moving'[c] = k
    BY <2>1 DEF AlertTypes
  <2>7. ASSUME ~together' PROVE SerialAlerts'
    <3>1. Moving = {c} /\ SerialAlerts /\ AlertOf(c)
      BY <2>1, <2>2, <2>7 DEF SerialAlerts
    <3>2. \A d \in StockClerk :
            superTold'[d] <= 1 /\ (superTold'[d] = 1 => notified'[d])
      <4>1. superTold[c] = 0
        BY <2>1, <3>1 DEF AlertOf, SerialAlerts, AlertTypes
      <4>2. QED
        BY <2>1, <3>1, <4>1 DEF SerialAlerts, AlertTypes
    <3>3. AlertOf(c)'
      BY <2>1, <2>3, <2>6, <3>1 DEF AlertOf, AlertTypes
    <3>4. \A d \in StockClerk : notified[d] => notified'[d]
      BY <2>1 DEF AlertTypes
    <3>5. lastMover # NobodyMoved /\ RunsLow(InTotal(onHand)) => notified'[lastMover]
      BY <3>1, <3>4 DEF SerialAlerts, AlertTypes
    <3>6. QED
      BY <2>1, <2>5, <3>1, <3>2, <3>3, <3>5 DEF SerialAlerts
  <2>8. QED
    BY <2>4, <2>7
<1>3. QED
  BY <1>1, <1>2

\* The end of a transaction, and of the hour.
LEMMA EndingKeepsInv ==
  ASSUME AlertInv, NEW c \in StockClerk, CommitMove(c) \/ RollBackMove(c)
  PROVE  AlertInv'
<1> USE DEF AlertInv
<1> DEFINE j == moving[c]
<1>1. /\ j.pc \in {"save", "end"} /\ moving' = [moving EXCEPT ![c] = NotMoving]
      /\ UNCHANGED <<notified, hours, superTold, together>>
      /\ \/ /\ j.pc = "end" /\ onHand' = AsSeen(c)
            /\ lastMover' = IF j.hour = hours[c] THEN c ELSE NobodyMoved
         \/ UNCHANGED <<onHand, lastMover>>
  BY DEF CommitMove, RollBackMove
<1>2. j \in Job /\ c \in Moving
  BY <1>1, ClerkAtWork
<1>3. AsSeen(c) \in [StockHolder -> Int]
  BY <1>2 DEF AsSeen, Job, AlertTypes
<1>4. AlertTypes'
  BY <1>1, <1>3 DEF AlertTypes
<1>5. ASSUME ~together' PROVE SerialAlerts'
  <2>1. Moving = {c} /\ SerialAlerts /\ AlertOf(c)
    BY <1>1, <1>2, <1>5 DEF SerialAlerts
  <2>2. Moving' = {}
    BY <1>1, <2>1 DEF Moving, AlertTypes
  <2>3. lastMover' # NobodyMoved /\ RunsLow(InTotal(onHand')) => notified[lastMover']
    BY <1>1, <2>1 DEF SerialAlerts, AlertOf
  <2>4. QED
    BY <1>1, <2>1, <2>2, <2>3 DEF SerialAlerts
<1>6. QED
  BY <1>4, <1>5

LEMMA HourKeepsInv ==
  ASSUME AlertInv, NEW c \in StockClerk, ForgetNotified(c)
  PROVE  AlertInv'
<1> USE DEF AlertInv
<1>1. /\ notified[c] /\ notified' = [notified EXCEPT ![c] = FALSE]
      /\ hours' = [hours EXCEPT ![c] = @ + 1] /\ superTold' = [superTold EXCEPT ![c] = 0]
      /\ lastMover' = (IF lastMover = c THEN NobodyMoved ELSE lastMover)
      /\ UNCHANGED <<onHand, moving, together>>
  BY DEF ForgetNotified
<1>2. AlertTypes'
  BY <1>1 DEF AlertTypes
<1>3. ASSUME ~together' PROVE SerialAlerts'
  <2>1. SerialAlerts /\ Moving' = Moving
    BY <1>1, <1>3 DEF Moving
  <2>2. ASSUME NEW d \in Moving PROVE AlertOf(d)'
    <3>1. d \in StockClerk /\ moving[d] \in Job /\ AlertOf(d)
      BY <2>1, <2>2 DEF Moving, AlertTypes, SerialAlerts
    <3>2. AsSeen(d)' = AsSeen(d)
      BY <1>1 DEF AsSeen
    <3>3. CASE d = c
      <4>1. /\ hours'[d] = hours[d] + 1 /\ ~notified'[d] /\ hours[d] \in Nat
            /\ moving[d].hour \in Nat
        BY <1>1, <3>1, <3>3 DEF AlertTypes, Job
      <4>2. moving[d].hour <= hours'[d] /\ moving[d].hour # hours'[d]
        BY <3>1, <4>1 DEF AlertOf
      <4>3. QED
        BY <1>1, <4>1, <4>2 DEF AlertOf
    <3>4. CASE d # c
      <4>1. hours'[d] = hours[d] /\ notified'[d] = notified[d]
        BY <1>1, <3>1, <3>4 DEF AlertTypes
      <4>2. QED
        BY <1>1, <3>1, <3>2, <4>1 DEF AlertOf
    <3>5. QED
      BY <3>3, <3>4
  <2>3. \A d \in StockClerk : superTold'[d] <= 1 /\ (superTold'[d] = 1 => notified'[d])
    BY <1>1, <2>1 DEF SerialAlerts, AlertTypes
  <2>4. lastMover' # NobodyMoved /\ RunsLow(InTotal(onHand)) => notified'[lastMover']
    BY <1>1, <2>1 DEF SerialAlerts, AlertTypes
  <2>5. QED
    BY <1>1, <2>1, <2>2, <2>3, <2>4 DEF SerialAlerts
<1>4. QED
  BY <1>2, <1>3

LEMMA AlertInvNext == AlertInv /\ [StockAlertsNext]_alertVars => AlertInv'
<1> SUFFICES ASSUME AlertInv, [StockAlertsNext]_alertVars PROVE AlertInv'
  OBVIOUS
<1>1. CASE UNCHANGED alertVars
  BY <1>1 DEF alertVars, AlertInv, AlertTypes, SerialAlerts, AlertOf, AsSeen, Moving
<1>2. CASE StockAlertsNext
  BY <1>2, LockKeepsInv, GoingOnKeepsInv, EndingKeepsInv, HourKeepsInv DEF StockAlertsNext
<1>3. QED
  BY <1>1, <1>2

\* check_super_seller_total_stock, when transactions come one after the other: after any that
\* leaves little, the process that committed it has the key in its cache, whatever was rolled
\* back before; and each process tells the super-seller once in its hour.
THEOREM ToldOfLowStock == StockAlertsSpec => []SerialToldOfLowStock
<1>1. AlertInv => SerialToldOfLowStock
  BY DEF AlertInv, AlertTypes, SerialAlerts, SerialToldOfLowStock, RunsLow
<1>2. QED
  BY <1>1, AlertInvInit, AlertInvNext, PTL DEF StockAlertsSpec

--------------------------------------------------------------------------------
(* That a mail is neither left under way nor sent over and over; for any       *)
(* e-tickets, processes and maximum of retries.                                *)
(*                                                                             *)
(* A row that says SENDING has a process that is sending it, or that died on   *)
(* it.  While no two processes held a row, its count is what the one that      *)
(* holds it knows, no more mails have left than saves failed, and each save    *)
(* that failed has been counted or is about to be (Accounted).                 *)

DeliveryRow == [status : {"none", "PENDING", "SENDING", "SENT", "FAILED", "RETRY"},
                count : Nat, next : {"unset", "to come", "reached"}]
RowMaps  == UNION {[S -> DeliveryRow] : S \in SUBSET ETicket}
Choosing == [pc : {"choose"}, rows : RowMaps]
AtWork   == {m \in [pc : {"send", "sent", "failed"}, rows : RowMaps, now : ETicket] :
               m.now \in DOMAIN m.rows}

DeliveryTypes ==
  /\ delivery \in [ETicket -> DeliveryRow]
  /\ mailing \in [MailWorker -> {Resting} \cup Choosing \cup AtWork]
  /\ posted \in [ETicket -> Nat] /\ unsaved \in [ETicket -> Nat]

SendsNow(w, e) == mailing[w].pc \in {"send", "sent", "failed"} /\ mailing[w].now = e

LeftSending(e) ==
  delivery[e].status = "SENDING" => (\E w \in MailWorker : SendsNow(w, e)) \/ e \in deserted

\* No more mails have left than saves of them failed: each of these has been counted, or is
\* about to be.
Accounted(e, n) == posted[e] <= unsaved[e] /\ unsaved[e] <= n

\* What the one process that has e knows of it.
HolderOf(w, e) ==
  /\ mailing[w].rows[e].count < MaxRetry
  /\ IF SendsNow(w, e)
     THEN /\ delivery[e].status = "SENDING"
          /\ mailing[w].pc = "send" => Accounted(e, mailing[w].rows[e].count)
          /\ mailing[w].pc = "sent" => /\ posted[e] <= unsaved[e] + 1
                                       /\ unsaved[e] <= mailing[w].rows[e].count
          /\ mailing[w].pc = "failed" => Accounted(e, mailing[w].rows[e].count + 1)
     ELSE /\ delivery[e].status \in {"PENDING", "RETRY", "FAILED"}
          /\ delivery[e].count = mailing[w].rows[e].count

Bounded(e) ==
  /\ posted[e] <= 1 + unsaved[e] /\ posted[e] <= MaxRetry
  /\ delivery[e].status = "RETRY" => delivery[e].count < MaxRetry
  /\ delivery[e].status \in {"none", "PENDING", "RETRY", "FAILED"} =>
       Accounted(e, delivery[e].count)

HeldOnce(e) ==
  /\ \A v, w \in MailWorker : e \in Held(v) /\ e \in Held(w) => v = w
  /\ \A w \in MailWorker : e \in Held(w) => HolderOf(w, e)

MailInv ==
  /\ DeliveryTypes
  /\ \A e \in ETicket : LeftSending(e)
  /\ \A e \in ETicket \ doubled : Bounded(e) /\ HeldOnce(e)

USE MaxRetryAssumption

\* Before the deliveries are created nobody holds a row, and no mail has left.
LEMMA MailInvInit == DeliveryInit => MailInv
  BY DEF DeliveryInit, MailInv, DeliveryTypes, DeliveryRow, NotThere, Resting, LeftSending, Bounded,
         Accounted, HeldOnce, Held

\* What a process has in hand, by what it does.
LEMMA MailingRows ==
  ASSUME DeliveryTypes, NEW w \in MailWorker
  PROVE  /\ mailing[w].pc \in {"rest", "choose", "send", "sent", "failed"}
         /\ mailing[w].pc = "rest" => mailing[w] = Resting /\ Held(w) = {}
         /\ mailing[w].pc = "choose" => mailing[w] \in Choosing
         /\ mailing[w].pc \in {"send", "sent", "failed"} =>
              mailing[w] \in AtWork /\ Current(w) \in Held(w)
         /\ mailing[w].rows \in RowMaps
         /\ Held(w) \in SUBSET ETicket
         /\ \A e \in Held(w) : mailing[w].rows[e] \in DeliveryRow
<1>1. <<>> \in RowMaps /\ DOMAIN <<>> = {}
  <2>1. <<>> \in [{} -> DeliveryRow]
    OBVIOUS
  <2> QED BY <2>1 DEF RowMaps
<1>2. \/ mailing[w] = Resting
      \/ mailing[w] \in Choosing
      \/ mailing[w] \in AtWork
  BY DEF DeliveryTypes
<1>3. mailing[w].rows \in RowMaps
  BY <1>1, <1>2 DEF Resting, Choosing, AtWork
<1>4. /\ Held(w) \in SUBSET ETicket
      /\ \A e \in Held(w) : mailing[w].rows[e] \in DeliveryRow
  BY <1>3 DEF RowMaps, Held
<1> QED BY <1>1, <1>2, <1>3, <1>4 DEF Resting, Choosing, AtWork, Held, Current

\* What a step of process w leaves alone: an e-ticket that w does not send, whose row no other
\* process has touched.
LEMMA OthersMails ==
  ASSUME MailInv, NEW w \in MailWorker, NEW e \in ETicket,
         \A v \in MailWorker : v # w => mailing'[v] = mailing[v],
         delivery'[e] = delivery[e], posted'[e] = posted[e], unsaved'[e] = unsaved[e],
         doubled' = doubled, deserted \subseteq deserted',
         ~SendsNow(w, e), ~SendsNow(w, e)',
         e \in Held(w)' => e \in Held(w) /\ mailing'[w].rows[e] = mailing[w].rows[e]
  PROVE  LeftSending(e)' /\ (e \notin doubled' => Bounded(e)' /\ HeldOnce(e)')
<1>1. \A v \in MailWorker : SendsNow(v, e)' <=> SendsNow(v, e)
  BY DEF SendsNow
<1>2. \A v \in MailWorker : e \in Held(v)' => e \in Held(v) /\ mailing'[v].rows[e] = mailing[v].rows[e]
  BY DEF Held
<1>3. \A v \in MailWorker : SendsNow(v, e) => mailing'[v] = mailing[v]
  BY DEF SendsNow
<1>4. LeftSending(e)'
  BY <1>1 DEF MailInv, LeftSending
<1>5. ASSUME e \notin doubled PROVE Bounded(e)' /\ HeldOnce(e)'
  <2>1. Bounded(e) /\ HeldOnce(e)
    BY <1>5 DEF MailInv
  <2>2. Bounded(e)'
    BY <2>1 DEF Bounded, Accounted
  <2>3. ASSUME NEW v \in MailWorker, e \in Held(v)' PROVE HolderOf(v, e)'
    <3>1. HolderOf(v, e) /\ mailing'[v].rows[e] = mailing[v].rows[e]
      BY <1>2, <2>1, <2>3 DEF HeldOnce
    <3>2. CASE SendsNow(v, e)
      BY <1>1, <1>3, <3>1, <3>2 DEF HolderOf, Accounted
    <3>3. CASE ~SendsNow(v, e)
      BY <1>1, <3>1, <3>3 DEF HolderOf
    <3> QED BY <3>2, <3>3
  <2> QED BY <1>2, <2>1, <2>2, <2>3 DEF HeldOnce
<1> QED BY <1>4, <1>5

\* A process takes rows that may be sent.
LEMMA TakeInv ==
  ASSUME MailInv, NEW w \in MailWorker, NEW rows \in RowMaps, Take(w, rows),
         delivery' \in [ETicket -> DeliveryRow],
         UNCHANGED <<posted, unsaved, deserted>>,
         \A e \in ETicket : \/ delivery'[e] = delivery[e]
                            \/ delivery[e].status = "none" /\ delivery[e].count = 0
                                 /\ delivery'[e].status = "PENDING" /\ delivery'[e].count = 0,
         \A e \in DOMAIN rows \ doubled : /\ delivery'[e].status \in {"PENDING", "RETRY", "FAILED"}
                                          /\ rows[e].count = delivery'[e].count
                                          /\ rows[e].count < MaxRetry
  PROVE  MailInv'
<1> DEFINE job == [pc |-> "choose", rows |-> rows]
<1>1. /\ mailing[w].pc = "rest" /\ mailing' = [mailing EXCEPT ![w] = job]
      /\ doubled' = doubled \cup {e \in DOMAIN rows : Holders(e) # {}}
      /\ Held(w) = {}
  BY MailingRows DEF Take, MailInv
<1>2. job \in Choosing /\ job.pc = "choose" /\ job.rows = rows
  BY DEF Choosing
<1> HIDE DEF job
<1>3. DeliveryTypes'
  BY <1>1, <1>2 DEF MailInv, DeliveryTypes
<1>4. /\ mailing'[w] = job /\ \A v \in MailWorker : v # w => mailing'[v] = mailing[v]
      /\ Held(w)' = DOMAIN rows /\ \A v \in MailWorker : v # w => Held(v)' = Held(v)
  BY <1>1, <1>2 DEF MailInv, DeliveryTypes, Held
<1>5. \A e \in ETicket, v \in MailWorker : SendsNow(v, e)' <=> SendsNow(v, e)
  BY <1>1, <1>2, <1>4 DEF SendsNow
<1>6. ASSUME NEW e \in ETicket PROVE LeftSending(e)'
  BY <1>5 DEF MailInv, LeftSending
<1>7. ASSUME NEW e \in ETicket \ doubled'
      PROVE  Bounded(e)' /\ HeldOnce(e)'
  <2>1. /\ Bounded(e) /\ HeldOnce(e) /\ e \notin doubled
        /\ e \in DOMAIN rows => \A v \in MailWorker : e \notin Held(v)
    BY <1>1, <1>7 DEF MailInv, Holders
  <2>2. Bounded(e)'
    BY <2>1 DEF Bounded, Accounted
  <2>3. \A u, v \in MailWorker : e \in Held(u)' /\ e \in Held(v)' => u = v
    BY <1>4, <2>1 DEF HeldOnce
  <2>4. ASSUME e \in Held(w)' PROVE HolderOf(w, e)'
    <3>1. e \in DOMAIN rows \ doubled /\ ~SendsNow(w, e)' /\ mailing'[w].rows = rows
      BY <1>2, <1>4, <2>1, <2>4 DEF SendsNow
    <3> QED BY <3>1 DEF HolderOf
  <2>5. ASSUME NEW v \in MailWorker, v # w, e \in Held(v)' PROVE HolderOf(v, e)'
    <3>1. HolderOf(v, e) /\ mailing'[v] = mailing[v]
      BY <1>4, <2>1, <2>5 DEF HeldOnce
    <3>2. delivery'[e] = delivery[e]
      BY <3>1 DEF HolderOf
    <3> QED BY <1>5, <3>1, <3>2 DEF HolderOf, Accounted
  <2> QED BY <2>2, <2>3, <2>4, <2>5 DEF HeldOnce
<1> QED BY <1>3, <1>6, <1>7 DEF MailInv

\* create_delivery_tasks: the new rows have been held by nobody.
LEMMA CreateDeliveriesInv ==
  ASSUME MailInv, NEW w \in MailWorker, CreateDeliveries(w)
  PROVE  MailInv'
<1> DEFINE rows == [e \in ETicket |-> NewRow]
<1>1. NewRow \in DeliveryRow /\ NewRow.status = "PENDING" /\ NewRow.count = 0
  BY DEF NewRow, NotThere, DeliveryRow
<1>2. /\ delivery' = rows /\ Take(w, rows) /\ UNCHANGED <<posted, unsaved, deserted>>
      /\ \A e \in ETicket : delivery[e].status = "none" /\ delivery[e].count = 0
  BY DEF CreateDeliveries, NotThere
<1>3. rows \in [ETicket -> DeliveryRow] /\ DOMAIN rows = ETicket /\ \A e \in ETicket : rows[e] = NewRow
  BY <1>1
<1>4. rows \in RowMaps
  BY <1>3 DEF RowMaps
<1> HIDE DEF rows
<1> QED BY <1>1, <1>2, <1>3, <1>4, TakeInv

\* process_pending_retries: a row that waits for a retry has one left.
LEMMA RetrySweepInv ==
  ASSUME MailInv, NEW w \in MailWorker, RetrySweep(w)
  PROVE  MailInv'
<1> DEFINE due == {e \in ETicket : IsPendingRetry(delivery[e])}
           rows == [e \in due |-> delivery[e]]
<1>1. Take(w, rows) /\ UNCHANGED <<delivery, posted, unsaved, deserted>>
  BY DEF RetrySweep
<1>2. /\ rows \in [due -> DeliveryRow] /\ DOMAIN rows = due /\ due \in SUBSET ETicket
      /\ \A e \in due : rows[e] = delivery[e] /\ delivery[e].status = "RETRY"
  BY DEF MailInv, DeliveryTypes, IsPendingRetry
<1>3. rows \in RowMaps
  BY <1>2 DEF RowMaps
<1> HIDE DEF rows, due
<1> QED BY <1>1, <1>2, <1>3, TakeInv DEF MailInv, DeliveryTypes, Bounded

\* retry_delivery: can_retry has counted the attempts.
LEMMA ManualRetryInv ==
  ASSUME MailInv, NEW w \in MailWorker, NEW e \in ETicket, ManualRetry(w, e)
  PROVE  MailInv'
<1> DEFINE rows == [x \in {e} |-> delivery[x]]
<1>1. Take(w, rows) /\ CanRetry(delivery[e]) /\ UNCHANGED <<delivery, posted, unsaved, deserted>>
  BY DEF ManualRetry
<1>2. rows \in [{e} -> DeliveryRow] /\ DOMAIN rows = {e} /\ rows[e] = delivery[e]
  BY DEF MailInv, DeliveryTypes
<1>3. rows \in RowMaps
  BY <1>2 DEF RowMaps
<1> HIDE DEF rows
<1> QED BY <1>1, <1>2, <1>3, TakeInv DEF MailInv, DeliveryTypes, CanRetry

\* The date of a retry comes: neither status nor count of a row changes.
LEMMA RetryDateComesInv ==
  ASSUME MailInv, NEW e \in ETicket, RetryDateComes(e)
  PROVE  MailInv'
<1>1. /\ delivery' = [delivery EXCEPT ![e].next = "reached"]
      /\ UNCHANGED <<mailing, posted, unsaved, deserted, doubled>>
  BY DEF RetryDateComes
<1>2. /\ delivery' \in [ETicket -> DeliveryRow]
      /\ \A x \in ETicket : /\ delivery'[x].status = delivery[x].status
                            /\ delivery'[x].count = delivery[x].count
  BY <1>1 DEF MailInv, DeliveryTypes, DeliveryRow
<1>3. \A w \in MailWorker, x \in ETicket : SendsNow(w, x)' <=> SendsNow(w, x)
  BY <1>1 DEF SendsNow
<1>4. ASSUME NEW x \in ETicket PROVE LeftSending(x)'
  BY <1>1, <1>2, <1>3 DEF MailInv, LeftSending
<1>5. ASSUME NEW x \in ETicket \ doubled PROVE Bounded(x)' /\ HeldOnce(x)'
  <2>1. Bounded(x) /\ HeldOnce(x)
    BY DEF MailInv
  <2> QED BY <1>1, <1>2, <1>3, <2>1 DEF Bounded, HeldOnce, HolderOf, Accounted, Held
<1> QED BY <1>1, <1>2, <1>4, <1>5 DEF MailInv, DeliveryTypes

\* A process that has e-ticket e in hand changes what it has of it, and its row.
LEMMA AboutOne ==
  ASSUME MailInv, NEW w \in MailWorker, NEW e \in ETicket, e \in Held(w),
         \A v \in MailWorker : v # w => mailing'[v] = mailing[v],
         DeliveryTypes', doubled' = doubled, deserted \subseteq deserted',
         \A x \in ETicket \ {e} :
           /\ delivery'[x] = delivery[x] /\ posted'[x] = posted[x] /\ unsaved'[x] = unsaved[x]
           /\ ~SendsNow(w, x) /\ ~SendsNow(w, x)'
           /\ x \in Held(w)' => x \in Held(w) /\ mailing'[w].rows[x] = mailing[w].rows[x],
         LeftSending(e)',
         e \notin doubled /\ Bounded(e) /\ HolderOf(w, e) =>
           Bounded(e)' /\ (e \in Held(w)' => HolderOf(w, e)')
  PROVE  MailInv'
<1>1. \A x \in ETicket \ {e} : LeftSending(x)' /\ (x \notin doubled' => Bounded(x)' /\ HeldOnce(x)')
  BY OthersMails
<1>2. ASSUME e \notin doubled PROVE Bounded(e)' /\ HeldOnce(e)'
  <2>1. Bounded(e) /\ HeldOnce(e) /\ HolderOf(w, e)
    BY <1>2 DEF MailInv, HeldOnce
  <2>2. \A v \in MailWorker : v # w => e \notin Held(v)'
    BY <2>1 DEF HeldOnce, Held
  <2> QED BY <1>2, <2>1, <2>2 DEF HeldOnce
<1> QED BY <1>1, <1>2 DEF MailInv

\* send_ticket_by_email saves SENDING: the sender is there, and the count it knows is the row's.
LEMMA StartSendingInv ==
  ASSUME MailInv, NEW w \in MailWorker, NEW e \in ETicket, StartSending(w, e)
  PROVE  MailInv'
<1> DEFINE job == [pc |-> "send", rows |-> mailing[w].rows, now |-> e]
<1>1. /\ mailing[w].pc = "choose" /\ e \in Held(w) /\ mailing' = [mailing EXCEPT ![w] = job]
      /\ delivery' = [delivery EXCEPT ![e].status = "SENDING"]
      /\ UNCHANGED <<posted, unsaved, deserted, doubled>>
  BY DEF StartSending, AtMail, MailInv, DeliveryTypes
<1>2. job \in AtWork /\ job.pc = "send" /\ job.rows = mailing[w].rows /\ job.now = e
  BY <1>1, MailingRows DEF AtWork, MailInv, Held
<1> HIDE DEF job
<1>3. /\ delivery' \in [ETicket -> DeliveryRow] /\ delivery'[e].status = "SENDING"
      /\ \A x \in ETicket \ {e} : delivery'[x] = delivery[x]
  BY <1>1 DEF MailInv, DeliveryTypes, DeliveryRow
<1>4. DeliveryTypes'
  BY <1>1, <1>2, <1>3 DEF MailInv, DeliveryTypes
<1>5. mailing'[w] = job /\ \A v \in MailWorker : v # w => mailing'[v] = mailing[v]
  BY <1>1 DEF MailInv, DeliveryTypes
<1>6. /\ SendsNow(w, e)' /\ ~SendsNow(w, e) /\ Held(w)' = Held(w)
      /\ \A x \in ETicket \ {e} : ~SendsNow(w, x) /\ ~SendsNow(w, x)'
  BY <1>1, <1>2, <1>5 DEF SendsNow, Held
<1>7. LeftSending(e)'
  BY <1>6 DEF LeftSending
<1>8. ASSUME Bounded(e), HolderOf(w, e) PROVE Bounded(e)' /\ HolderOf(w, e)'
  <2>1. Accounted(e, mailing[w].rows[e].count)
    BY <1>6, <1>8 DEF HolderOf, Bounded
  <2> QED BY <1>1, <1>2, <1>3, <1>5, <1>6, <1>8, <2>1 DEF HolderOf, Bounded, Accounted
<1> QED BY <1>1, <1>2, <1>3, <1>4, <1>5, <1>6, <1>7, <1>8, AboutOne

\* A process at work on e goes on to pc, or puts e away.
LEMMA GoesOn ==
  ASSUME DeliveryTypes, NEW w \in MailWorker, NEW e \in ETicket, SendsNow(w, e),
         \/ \E pc \in {"send", "sent", "failed"} : Goto(w, pc)
         \/ Done(w, e)
         \/ mailing' = [mailing EXCEPT ![w] = Resting]
  PROVE  /\ mailing' \in [MailWorker -> {Resting} \cup Choosing \cup AtWork]
         /\ \A v \in MailWorker : v # w => mailing'[v] = mailing[v]
         /\ \A x \in ETicket \ {e} :
              /\ ~SendsNow(w, x) /\ ~SendsNow(w, x)'
              /\ x \in Held(w)' => x \in Held(w) /\ mailing'[w].rows[x] = mailing[w].rows[x]
         /\ \A pc \in {"send", "sent", "failed"} : Goto(w, pc) =>
              /\ SendsNow(w, e)' /\ mailing'[w].pc = pc /\ mailing'[w].rows = mailing[w].rows
         /\ Done(w, e) => e \notin Held(w)'
<1>1. /\ mailing[w] \in AtWork /\ e \in Held(w) /\ mailing[w].rows \in RowMaps
      /\ mailing[w].now = e /\ e \in DOMAIN mailing[w].rows
      /\ Held(w) \in SUBSET ETicket /\ \A x \in Held(w) : mailing[w].rows[x] \in DeliveryRow
  BY MailingRows DEF SendsNow, Current, Held
<1>2. ASSUME NEW pc \in {"send", "sent", "failed"}, Goto(w, pc)
      PROVE  /\ mailing' \in [MailWorker -> {Resting} \cup Choosing \cup AtWork]
             /\ mailing'[w].pc = pc /\ mailing'[w].rows = mailing[w].rows /\ mailing'[w].now = e
             /\ \A v \in MailWorker : v # w => mailing'[v] = mailing[v]
  <2> DEFINE job == [mailing[w] EXCEPT !.pc = pc]
  <2>1. job \in AtWork /\ job.pc = pc /\ job.rows = mailing[w].rows /\ job.now = e
    BY <1>1 DEF AtWork
  <2>2. mailing' = [mailing EXCEPT ![w] = job]
    BY <1>2 DEF Goto
  <2> HIDE DEF job
  <2> QED BY <2>1, <2>2 DEF DeliveryTypes
<1>3. ASSUME Done(w, e)
      PROVE  /\ mailing' \in [MailWorker -> {Resting} \cup Choosing \cup AtWork]
             /\ mailing'[w].pc \in {"rest", "choose"}
             /\ \A x \in Held(w)' : x # e /\ x \in Held(w) /\ mailing'[w].rows[x] = mailing[w].rows[x]
             /\ \A v \in MailWorker : v # w => mailing'[v] = mailing[v]
  <2> DEFINE rest == [x \in Held(w) \ {e} |-> mailing[w].rows[x]]
             job == [pc |-> "choose", rows |-> rest]
  <2>1. /\ rest \in [Held(w) \ {e} -> DeliveryRow] /\ DOMAIN rest = Held(w) \ {e}
        /\ \A x \in Held(w) \ {e} : rest[x] = mailing[w].rows[x]
    BY <1>1
  <2>2. rest \in RowMaps
    BY <1>1, <2>1 DEF RowMaps
  <2>3. mailing' = [mailing EXCEPT ![w] = IF Held(w) = {e} THEN Resting ELSE job]
    BY <1>3 DEF Done, Without
  <2> HIDE DEF rest
  <2>4. job \in Choosing /\ job.pc = "choose" /\ job.rows = rest
    BY <2>2 DEF Choosing
  <2> HIDE DEF job
  <2>5. CASE Held(w) = {e}
    <3>1. mailing' = [mailing EXCEPT ![w] = Resting]
      BY <2>3, <2>5
    <3>2. mailing'[w] = Resting /\ Held(w)' = {}
      BY <3>1 DEF DeliveryTypes, Held, Resting
    <3> QED BY <3>1, <3>2 DEF DeliveryTypes, Resting
  <2>6. CASE Held(w) # {e}
    <3>1. mailing' = [mailing EXCEPT ![w] = job]
      BY <2>3, <2>6
    <3>2. mailing'[w] = job /\ Held(w)' = Held(w) \ {e}
      BY <2>1, <2>4, <3>1 DEF DeliveryTypes, Held
    <3> QED BY <2>1, <2>4, <3>1, <3>2 DEF DeliveryTypes
  <2> QED BY <2>5, <2>6
<1>4. ASSUME mailing' = [mailing EXCEPT ![w] = Resting]
      PROVE  /\ mailing' \in [MailWorker -> {Resting} \cup Choosing \cup AtWork]
             /\ mailing'[w].pc = "rest" /\ Held(w)' = {}
             /\ \A v \in MailWorker : v # w => mailing'[v] = mailing[v]
  BY <1>4 DEF DeliveryTypes, Held, Resting
<1>5. \A x \in ETicket \ {e} : ~SendsNow(w, x)
  BY <1>1 DEF SendsNow
<1>6. CASE \E pc \in {"send", "sent", "failed"} : Goto(w, pc)
  BY <1>1, <1>2, <1>5, <1>6, <1>3 DEF SendsNow, Held
<1>7. CASE Done(w, e)
  BY <1>1, <1>2, <1>3, <1>5, <1>7 DEF SendsNow
<1>8. CASE mailing' = [mailing EXCEPT ![w] = Resting]
  BY <1>2, <1>3, <1>4, <1>5, <1>8 DEF SendsNow
<1> QED BY <1>6, <1>7, <1>8

\* The mail leaves: one more than saves have failed, until the row says SENT.
LEMMA SendMailInv ==
  ASSUME MailInv, NEW w \in MailWorker, SendMail(w)
  PROVE  MailInv'
<1>1. PICK e \in ETicket : e = Current(w) /\ e \in Held(w) /\ SendsNow(w, e) /\ mailing[w].pc = "send"
  BY MailingRows DEF SendMail, AtMail, MailInv, SendsNow, Current
<1>2. /\ posted' = [posted EXCEPT ![e] = @ + 1] /\ Goto(w, "sent")
      /\ UNCHANGED <<delivery, unsaved, deserted, doubled>>
  BY <1>1 DEF SendMail
<1>3. /\ posted' \in [ETicket -> Nat] /\ posted'[e] = posted[e] + 1
      /\ \A x \in ETicket \ {e} : posted'[x] = posted[x]
  BY <1>2 DEF MailInv, DeliveryTypes
<1>4. /\ DeliveryTypes' /\ SendsNow(w, e)' /\ mailing'[w].pc = "sent"
      /\ mailing'[w].rows = mailing[w].rows
  BY <1>1, <1>2, <1>3, GoesOn DEF MailInv, DeliveryTypes
<1>5. LeftSending(e)'
  BY <1>4 DEF LeftSending
<1>6. ASSUME Bounded(e), HolderOf(w, e) PROVE Bounded(e)' /\ HolderOf(w, e)'
  <2>1. /\ mailing[w].rows[e] \in DeliveryRow /\ mailing[w].rows[e].count \in Nat
        /\ posted[e] \in Nat /\ unsaved[e] \in Nat /\ MaxRetry \in Nat
    BY <1>1, MailingRows DEF MailInv, DeliveryTypes, DeliveryRow
  <2>2. /\ delivery[e].status = "SENDING" /\ mailing[w].rows[e].count < MaxRetry
        /\ posted[e] <= unsaved[e] /\ unsaved[e] <= mailing[w].rows[e].count
    BY <1>1, <1>6 DEF HolderOf, Accounted
  <2>3. posted'[e] <= 1 + unsaved'[e] /\ posted'[e] <= MaxRetry
    BY <1>2, <1>3, <2>1, <2>2
  <2> QED BY <1>2, <1>3, <1>4, <2>1, <2>2, <2>3 DEF HolderOf, Bounded
<1> QED BY <1>1, <1>2, <1>3, <1>4, <1>5, <1>6, GoesOn, AboutOne DEF MailInv

\* The mail does not leave, and mark_as_failed is next.
LEMMA SendFailsInv ==
  ASSUME MailInv, NEW w \in MailWorker, SendFails(w)
  PROVE  MailInv'
<1>1. PICK e \in ETicket : e = Current(w) /\ e \in Held(w) /\ SendsNow(w, e) /\ mailing[w].pc = "send"
  BY MailingRows DEF SendFails, AtMail, MailInv, SendsNow, Current
<1>2. Goto(w, "failed") /\ UNCHANGED <<delivery, posted, unsaved, deserted, doubled>>
  BY DEF SendFails
<1>3. /\ DeliveryTypes' /\ SendsNow(w, e)' /\ mailing'[w].pc = "failed"
      /\ mailing'[w].rows = mailing[w].rows
  BY <1>1, <1>2, GoesOn DEF MailInv, DeliveryTypes
<1>4. LeftSending(e)'
  BY <1>3 DEF LeftSending
<1>5. ASSUME Bounded(e), HolderOf(w, e) PROVE Bounded(e)' /\ HolderOf(w, e)'
  <2>1. /\ mailing[w].rows[e] \in DeliveryRow /\ mailing[w].rows[e].count \in Nat
        /\ posted[e] \in Nat /\ unsaved[e] \in Nat
    BY <1>1, MailingRows DEF MailInv, DeliveryTypes, DeliveryRow
  <2>2. /\ delivery[e].status = "SENDING" /\ mailing[w].rows[e].count < MaxRetry
        /\ posted[e] <= unsaved[e] /\ unsaved[e] <= mailing[w].rows[e].count
    BY <1>1, <1>5 DEF HolderOf, Accounted
  <2> QED BY <1>2, <1>3, <1>5, <2>1, <2>2 DEF HolderOf, Bounded, Accounted
<1> QED BY <1>1, <1>2, <1>3, <1>4, <1>5, GoesOn, AboutOne DEF MailInv

\* mark_as_sent: a row that says SENT is not taken again.
LEMMA MarkAsSentInv ==
  ASSUME MailInv, NEW w \in MailWorker, MarkAsSent(w)
  PROVE  MailInv'
<1>1. PICK e \in ETicket : e = Current(w) /\ e \in Held(w) /\ SendsNow(w, e) /\ mailing[w].pc = "sent"
  BY MailingRows DEF MarkAsSent, AtMail, MailInv, SendsNow, Current
<1>2. /\ delivery' = [delivery EXCEPT ![e].status = "SENT"] /\ Done(w, e)
      /\ UNCHANGED <<posted, unsaved, deserted, doubled>>
  BY <1>1 DEF MarkAsSent
<1>3. /\ delivery' \in [ETicket -> DeliveryRow] /\ delivery'[e].status = "SENT"
      /\ \A x \in ETicket \ {e} : delivery'[x] = delivery[x]
  BY <1>2 DEF MailInv, DeliveryTypes, DeliveryRow
<1>4. DeliveryTypes' /\ e \notin Held(w)'
  BY <1>1, <1>2, <1>3, GoesOn DEF MailInv, DeliveryTypes
<1>5. LeftSending(e)'
  BY <1>3 DEF LeftSending
<1>6. Bounded(e) => Bounded(e)'
  BY <1>2, <1>3 DEF Bounded
<1> QED BY <1>1, <1>2, <1>3, <1>4, <1>5, <1>6, GoesOn, AboutOne DEF MailInv

\* mark_as_sent raises: the mail that left is paid for with an attempt.
LEMMA SaveSentFailsInv ==
  ASSUME MailInv, NEW w \in MailWorker, SaveSentFails(w)
  PROVE  MailInv'
<1>1. PICK e \in ETicket : e = Current(w) /\ e \in Held(w) /\ SendsNow(w, e) /\ mailing[w].pc = "sent"
  BY MailingRows DEF SaveSentFails, AtMail, MailInv, SendsNow, Current
<1>2. /\ unsaved' = [unsaved EXCEPT ![e] = @ + 1] /\ Goto(w, "failed")
      /\ UNCHANGED <<delivery, posted, deserted, doubled>>
  BY <1>1 DEF SaveSentFails
<1>3. /\ unsaved' \in [ETicket -> Nat] /\ unsaved'[e] = unsaved[e] + 1
      /\ \A x \in ETicket \ {e} : unsaved'[x] = unsaved[x]
  BY <1>2 DEF MailInv, DeliveryTypes
<1>4. /\ DeliveryTypes' /\ SendsNow(w, e)' /\ mailing'[w].pc = "failed"
      /\ mailing'[w].rows = mailing[w].rows
  BY <1>1, <1>2, <1>3, GoesOn DEF MailInv, DeliveryTypes
<1>5. LeftSending(e)'
  BY <1>4 DEF LeftSending
<1>6. ASSUME Bounded(e), HolderOf(w, e) PROVE Bounded(e)' /\ HolderOf(w, e)'
  <2>1. /\ mailing[w].rows[e] \in DeliveryRow /\ mailing[w].rows[e].count \in Nat
        /\ posted[e] \in Nat /\ unsaved[e] \in Nat
    BY <1>1, MailingRows DEF MailInv, DeliveryTypes, DeliveryRow
  <2>2. /\ delivery[e].status = "SENDING" /\ mailing[w].rows[e].count < MaxRetry
        /\ posted[e] <= unsaved[e] + 1 /\ unsaved[e] <= mailing[w].rows[e].count
    BY <1>1, <1>6 DEF HolderOf
  <2>3. posted'[e] <= unsaved'[e] /\ unsaved'[e] <= mailing[w].rows[e].count + 1
    BY <1>2, <1>3, <2>1, <2>2
  <2>4. Bounded(e)'
    BY <1>2, <1>3, <1>6, <2>1, <2>2 DEF Bounded
  <2> QED BY <1>2, <1>4, <2>2, <2>3, <2>4 DEF HolderOf, Accounted
<1> QED BY <1>1, <1>2, <1>3, <1>4, <1>5, <1>6, GoesOn, AboutOne DEF MailInv

\* The row that mark_as_failed saves counts one attempt more, and waits for a retry only
\* while one is left.
LEMMA FailedRowCounts ==
  ASSUME NEW row \in DeliveryRow
  PROVE  /\ FailedRow(row) \in DeliveryRow /\ FailedRow(row).count = row.count + 1
         /\ FailedRow(row).status \in {"RETRY", "FAILED"}
         /\ FailedRow(row).status = "RETRY" => row.count + 1 < MaxRetry
<1> DEFINE n == row.count + 1
           later == [status |-> "RETRY", count |-> n, next |-> "to come"]
           over == [row EXCEPT !.status = "FAILED", !.count = n]
<1>1. row.count \in Nat /\ n \in Nat
  <2>1. row.count \in Nat
    BY DEF DeliveryRow
  <2> QED BY <2>1
<1>2. later \in DeliveryRow /\ later.count = n /\ later.status = "RETRY"
  BY <1>1 DEF DeliveryRow
<1>3. over \in DeliveryRow /\ over.count = n /\ over.status = "FAILED"
  BY <1>1 DEF DeliveryRow
<1>4. FailedRow(row) = IF n < MaxRetry THEN later ELSE over
  BY Zenon DEF FailedRow
<1> HIDE DEF later, over
<1> QED BY <1>1, <1>2, <1>3, <1>4

\* mark_as_failed: the attempt is counted in the row.
LEMMA MarkAsFailedInv ==
  ASSUME MailInv, NEW w \in MailWorker, MarkAsFailed(w)
  PROVE  MailInv'
<1>1. PICK e \in ETicket : e = Current(w) /\ e \in Held(w) /\ SendsNow(w, e) /\ mailing[w].pc = "failed"
  BY MailingRows DEF MarkAsFailed, AtMail, MailInv, SendsNow, Current
<1>2. PICK row \in DeliveryRow : row = mailing[w].rows[e]
  BY <1>1, MailingRows DEF MailInv
<1>3. /\ delivery' = [delivery EXCEPT ![e] = FailedRow(row)] /\ Done(w, e)
      /\ UNCHANGED <<posted, unsaved, deserted, doubled>>
  BY <1>1, <1>2 DEF MarkAsFailed
<1>4. /\ delivery' \in [ETicket -> DeliveryRow] /\ delivery'[e] = FailedRow(row)
      /\ \A x \in ETicket \ {e} : delivery'[x] = delivery[x]
  BY <1>3, FailedRowCounts DEF MailInv, DeliveryTypes
<1>5. DeliveryTypes' /\ e \notin Held(w)'
  BY <1>1, <1>3, <1>4, GoesOn DEF MailInv, DeliveryTypes
<1>6. LeftSending(e)'
  BY <1>4, FailedRowCounts DEF LeftSending
<1>7. ASSUME Bounded(e), HolderOf(w, e) PROVE Bounded(e)'
  <2>1. posted[e] <= unsaved[e] /\ unsaved[e] <= row.count + 1
    BY <1>1, <1>2, <1>7 DEF HolderOf, Accounted
  <2> QED BY <1>3, <1>4, <1>7, <2>1, FailedRowCounts DEF Bounded, Accounted
<1> QED BY <1>1, <1>3, <1>4, <1>5, <1>6, <1>7, GoesOn, AboutOne DEF MailInv

\* A process dies: the row it was sending is deserted, the others are as they were.
LEMMA DieInv ==
  ASSUME MailInv, NEW w \in MailWorker, Die(w)
  PROVE  MailInv'
<1>1. /\ mailing[w].pc # "rest" /\ mailing' = [mailing EXCEPT ![w] = Resting]
      /\ UNCHANGED <<delivery, posted, unsaved, doubled>>
  BY DEF Die, AtMail
<1>2. /\ DeliveryTypes' /\ mailing'[w] = Resting /\ Held(w)' = {}
      /\ \A v \in MailWorker : v # w => mailing'[v] = mailing[v]
  BY <1>1 DEF MailInv, DeliveryTypes, Held, Resting
<1>3. \A x \in ETicket : ~SendsNow(w, x)'
  BY <1>2 DEF SendsNow, Resting
<1>4. CASE mailing[w].pc = "choose"
  <2>1. deserted' = deserted /\ \A x \in ETicket : ~SendsNow(w, x)
    BY <1>4 DEF Die, AtMail, SendsNow
  <2>2. \A x \in ETicket : LeftSending(x)' /\ (x \notin doubled' => Bounded(x)' /\ HeldOnce(x)')
    BY <1>1, <1>2, <1>3, <2>1, OthersMails
  <2> QED BY <1>2, <2>2 DEF MailInv
<1>5. CASE mailing[w].pc # "choose"
  <2>1. PICK e \in ETicket : e = Current(w) /\ e \in Held(w) /\ SendsNow(w, e)
    BY <1>1, <1>5, MailingRows DEF MailInv, SendsNow, Current
  <2>2. deserted' = deserted \cup {e}
    BY <1>5, <2>1 DEF Die, AtMail
  <2>3. LeftSending(e)'
    BY <2>2 DEF LeftSending
  <2>4. Bounded(e) => Bounded(e)'
    BY <1>1 DEF Bounded, Accounted
  <2>5. \A x \in ETicket \ {e} : ~SendsNow(w, x)
    BY <2>1 DEF SendsNow
  <2> QED BY <1>1, <1>2, <1>3, <2>1, <2>2, <2>3, <2>4, <2>5, AboutOne
<1> QED BY <1>4, <1>5

\* Every step preserves the invariant.
LEMMA MailInvNext ==
  ASSUME MailInv, [DeliveryNext]_deliveryVars
  PROVE  MailInv'
<1>1. ASSUME NEW w \in MailWorker, CreateDeliveries(w) \/ RetrySweep(w) PROVE MailInv'
  BY <1>1, CreateDeliveriesInv, RetrySweepInv
<1>2. ASSUME NEW w \in MailWorker, SendMail(w) \/ SendFails(w) PROVE MailInv'
  BY <1>2, SendMailInv, SendFailsInv
<1>3. ASSUME NEW w \in MailWorker, MarkAsSent(w) \/ SaveSentFails(w) \/ MarkAsFailed(w) \/ Die(w)
      PROVE  MailInv'
  BY <1>3, MarkAsSentInv, SaveSentFailsInv, MarkAsFailedInv, DieInv
<1>4. ASSUME NEW w \in MailWorker, NEW e \in ETicket, ManualRetry(w, e) \/ StartSending(w, e)
      PROVE  MailInv'
  BY <1>4, ManualRetryInv, StartSendingInv
<1>5. CASE UNCHANGED deliveryVars
  <2>1. \A w \in MailWorker, e \in ETicket : SendsNow(w, e)' <=> SendsNow(w, e)
    BY <1>5 DEF deliveryVars, SendsNow
  <2> QED BY <1>5, <2>1 DEF deliveryVars, MailInv, DeliveryTypes, LeftSending, Bounded, Accounted,
                            HeldOnce, HolderOf, Held
<1> QED BY <1>1, <1>2, <1>3, <1>4, <1>5, RetryDateComesInv DEF DeliveryNext

\* The invariant says what is promised of mails.
LEMMA MailInvMeans == MailInv => MailsAreSafe
<1> SUFFICES ASSUME MailInv PROVE MailsAreSafe
  OBVIOUS
<1>1. ASSUME NEW e \in ETicket, NEW w \in MailWorker, SendsNow(w, e) PROVE Holders(e) # {}
  BY <1>1, MailingRows DEF MailInv, SendsNow, Current, Holders
<1>2. SendingHasASender
  BY <1>1 DEF SendingHasASender, MailInv, LeftSending
<1>3. SerialMailsAreBounded
  BY DEF SerialMailsAreBounded, MailInv, Bounded
<1> QED BY <1>2, <1>3 DEF MailsAreSafe

\* send_ticket_by_email, retry_delivery and process_pending_retries: a delivery that says SENDING
\* is being sent or was left by a process that died on it; and an e-ticket that never two
\* processes held at once is mailed at most max_retry_count times, once plus once for every save
\* that failed, however many processes retry what, and whenever they die.
THEOREM MailsStaySafe == DeliverySpec => []MailsAreSafe
<1>1. DeliverySpec => []MailInv
  BY MailInvInit, MailInvNext, PTL DEF DeliverySpec
<1> QED BY <1>1, MailInvMeans, PTL

--------------------------------------------------------------------------------
(* That an offer counts those who accepted it, that a price is divided without  *)
(* rest and without debt, and that what is shown is what is paid; for any       *)
(* super-sellers, percentages, prices and requests.                             *)
(*                                                                              *)
(* The counter is saved before the row it counts.  A request that is alone has  *)
(* read what is there; until it saves the row, the counter is one ahead of the  *)
(* rows that were ever accepted, and of no others.                              *)

OfferRow == [status : {"ACTIVE", "PAUSED"}, percentage : 0..100, total : Nat, dated : BOOLEAN]
AcceptanceRow ==
  {r \in [status : {"ACCEPTED", "REJECTED"}, share : 0..100, dated : BOOLEAN] :
     r.status = "ACCEPTED" => r.dated}
Acceptances == {NoAcceptance} \cup AcceptanceRow
EditingOffer == [pc : {"edit"}, row : OfferRow]
AcceptingOffer == [pc : {"count", "accept"}, who : SuperSeller, read : OfferRow, row : Acceptances,
              new : AcceptanceRow]
ChangingShare  == [pc : {"accept"}, who : SuperSeller, row : Acceptances, new : AcceptanceRow]
OfferCalls == {OfferIdle} \cup EditingOffer \cup AcceptingOffer \cup ChangingShare

RowsThere == {s \in SuperSeller : acceptance[s] # NoAcceptance}
Dated    == {s \in SuperSeller : acceptance[s].dated}

OfferTypes ==
  /\ offer \in {NoOffer} \cup OfferRow
  /\ acceptance \in [SuperSeller -> Acceptances]
  /\ offering \in [OfferWorker -> OfferCalls]
  /\ overlapping \in BOOLEAN
  /\ IsFiniteSet(RowsThere)

\* Without an offer there is nothing to accept.
NothingBefore ==
  offer = NoOffer => /\ \A w \in OfferWorker : offering[w].pc = "rest"
                     /\ RowsThere = {}

\* What a handler alone with the offer has read is what is there.
UpToDate(w) ==
  /\ offering[w].pc = "edit" => offering[w].row.total = offer.total
  /\ offering[w].pc = "count" => /\ offering[w].read.total = offer.total
                                 /\ ~offering[w].row.dated /\ offering[w].new.dated
  /\ offering[w].pc \in {"count", "accept"} => /\ offering[w].row = acceptance[offering[w].who]
                                               /\ offering[w].row.dated => offering[w].new.dated

\* An acceptance that is counted, and not saved yet.
Ahead(w) == offering[w].pc = "accept" /\ offering[w].new.dated /\ ~offering[w].row.dated

OfferCounted ==
  /\ \A w \in OfferWorker : UpToDate(w)
  /\ \A v, w \in OfferWorker : offering[v].pc # "rest" /\ offering[w].pc # "rest" => v = w
  /\ IF \E w \in OfferWorker : Ahead(w) THEN offer.total = Cardinality(Dated) + 1
     ELSE offer.total = Cardinality(Dated)

OfferInv ==
  /\ OfferTypes
  /\ NothingBefore
  /\ ~overlapping => OfferCounted

USE PercentageAssumption

\* No offer, nothing accepted.
LEMMA OfferInvInit == CommissionInit => OfferInv
<1> SUFFICES ASSUME CommissionInit PROVE OfferInv
  OBVIOUS
<1>1. RowsThere = {} /\ Dated = {}
  BY DEF CommissionInit, RowsThere, Dated, NoAcceptance
<1>2. OfferTypes
  BY <1>1, FS_EmptySet DEF CommissionInit, OfferTypes, OfferCalls, Acceptances
<1>3. \A w \in OfferWorker : offering[w].pc = "rest"
  BY DEF CommissionInit, OfferIdle
<1>4. offer.total = 0
  BY DEF CommissionInit, NoOffer
<1>5. OfferCounted
  BY <1>1, <1>3, <1>4, FS_EmptySet DEF OfferCounted, UpToDate, Ahead
<1> QED BY <1>1, <1>2, <1>3, <1>5 DEF OfferInv, NothingBefore

\* What is there, and what a handler has at hand.
LEMMA OnOffer ==
  ASSUME OfferTypes
  PROVE  /\ offer # NoOffer <=> offer \in OfferRow
         /\ offer.status \in {"ACTIVE", "PAUSED"} => offer \in OfferRow
         /\ offer.total \in Nat /\ offer.percentage \in 0..100
         /\ \A s \in SuperSeller :
              /\ acceptance[s] # NoAcceptance <=> acceptance[s] \in AcceptanceRow
              /\ acceptance[s].share \in 0..100 /\ acceptance[s].dated \in BOOLEAN
              /\ acceptance[s].status \in {"none", "ACCEPTED", "REJECTED"}
              /\ acceptance[s].status = "none" <=> acceptance[s] = NoAcceptance
              /\ acceptance[s].status = "ACCEPTED" => acceptance[s].dated
              /\ acceptance[s].dated => acceptance[s] # NoAcceptance
         /\ \A w \in OfferWorker :
              /\ offering[w].pc = "edit" => offering[w] \in EditingOffer
              /\ offering[w].pc = "count" => offering[w] \in AcceptingOffer
              /\ offering[w].pc \in {"count", "accept"} =>
                   /\ offering[w].who \in SuperSeller /\ offering[w].new \in AcceptanceRow
                   /\ offering[w].row \in Acceptances
<1>1. /\ NoOffer \notin OfferRow /\ NoOffer.status = "none"
      /\ NoOffer.total = 0 /\ NoOffer.percentage = 0
  BY DEF NoOffer, OfferRow
<1>2. \A o \in OfferRow : o.total \in Nat /\ o.percentage \in 0..100
  BY DEF OfferRow
<1>3. offer = NoOffer \/ offer \in OfferRow
  BY DEF OfferTypes
<1>4. /\ NoAcceptance \notin AcceptanceRow /\ NoAcceptance.status = "none"
      /\ NoAcceptance.share = 0 /\ NoAcceptance.dated = FALSE
  BY DEF NoAcceptance, AcceptanceRow
<1>5. \A r \in AcceptanceRow : /\ r.share \in 0..100 /\ r.dated \in BOOLEAN
                               /\ r.status \in {"ACCEPTED", "REJECTED"}
                               /\ r.status = "ACCEPTED" => r.dated
  BY DEF AcceptanceRow
<1>6. \A s \in SuperSeller : acceptance[s] = NoAcceptance \/ acceptance[s] \in AcceptanceRow
  BY DEF OfferTypes, Acceptances
<1>7. ASSUME NEW j \in OfferCalls
      PROVE  /\ j.pc = "edit" => j \in EditingOffer
             /\ j.pc = "count" => j \in AcceptingOffer
             /\ j.pc \in {"count", "accept"} =>
                  j.who \in SuperSeller /\ j.new \in AcceptanceRow /\ j.row \in Acceptances
  BY DEF OfferCalls, OfferIdle, EditingOffer, AcceptingOffer, ChangingShare
<1>8. \A w \in OfferWorker : offering[w] \in OfferCalls
  BY DEF OfferTypes
<1>9. /\ offer # NoOffer <=> offer \in OfferRow
      /\ offer.status \in {"ACTIVE", "PAUSED"} => offer \in OfferRow
      /\ offer.total \in Nat /\ offer.percentage \in 0..100
  BY <1>1, <1>2, <1>3
<1>10. \A s \in SuperSeller :
         /\ acceptance[s] # NoAcceptance <=> acceptance[s] \in AcceptanceRow
         /\ acceptance[s].share \in 0..100 /\ acceptance[s].dated \in BOOLEAN
         /\ acceptance[s].status \in {"none", "ACCEPTED", "REJECTED"}
         /\ acceptance[s].status = "none" <=> acceptance[s] = NoAcceptance
         /\ acceptance[s].status = "ACCEPTED" => acceptance[s].dated
         /\ acceptance[s].dated => acceptance[s] # NoAcceptance
  <2> TAKE s \in SuperSeller
  <2>1. CASE acceptance[s] = NoAcceptance
    <3>1. acceptance[s].share \in 0..100 /\ acceptance[s].dated = FALSE /\ acceptance[s].status = "none"
      BY <1>4, <2>1
    <3> QED BY <1>4, <2>1, <3>1
  <2>2. CASE acceptance[s] \in AcceptanceRow
    BY <1>4, <1>5, <2>2
  <2> QED BY <1>6, <2>1, <2>2
<1> QED BY <1>7, <1>8, <1>9, <1>10

\* A handler begins: it is alone with what it has read, or the overlap is noted.
LEMMA EnterInv ==
  ASSUME OfferInv, NEW w \in OfferWorker, NEW job \in OfferCalls, Enter(w, job), offer # NoOffer,
         job.pc # "rest",
         UNCHANGED <<offer, acceptance>>,
         job.pc = "edit" => job.row.total = offer.total,
         job.pc = "count" => /\ job.read.total = offer.total
                             /\ ~job.row.dated /\ job.new.dated,
         job.pc \in {"count", "accept"} => /\ job.row = acceptance[job.who]
                                           /\ job.row.dated => job.new.dated,
         job.pc = "accept" => (job.new.dated => job.row.dated)
  PROVE  OfferInv'
<1>1. /\ offering[w].pc = "rest" /\ offering' = [offering EXCEPT ![w] = job]
      /\ overlapping' = (overlapping \/ ~NobodyElse(w))
      /\ offering \in [OfferWorker -> OfferCalls]
  BY DEF Enter, UnderOffer, OfferInv, OfferTypes
<1>2. OfferTypes' /\ NothingBefore' /\ Dated' = Dated
  BY <1>1 DEF OfferInv, OfferTypes, NothingBefore, RowsThere, Dated
<1>3. ASSUME ~overlapping' PROVE OfferCounted'
  <2>1. ~overlapping /\ \A v \in OfferWorker \ {w} : offering[v].pc = "rest"
    BY <1>1, <1>3 DEF NobodyElse, UnderOffer
  <2>2. OfferCounted
    BY <2>1 DEF OfferInv
  <2>3. offering'[w] = job /\ \A v \in OfferWorker \ {w} : offering'[v] = offering[v]
    BY <1>1
  <2>4. \A v \in OfferWorker : UpToDate(v)'
    BY <2>1, <2>3 DEF UpToDate
  <2>5. /\ \A v \in OfferWorker : ~Ahead(v)
        /\ \A v \in OfferWorker : ~Ahead(v)'
    BY <1>1, <2>1, <2>3 DEF Ahead
  <2>6. offer'.total = Cardinality(Dated')
    BY <1>2, <2>2, <2>5 DEF OfferCounted
  <2> QED BY <2>1, <2>3, <2>4, <2>5, <2>6 DEF OfferCounted
<1> QED BY <1>2, <1>3 DEF OfferInv

\* The edit, the acceptance and the change of a share read what they will save.
LEMMA OfferBeginsInv ==
  ASSUME OfferInv, NEW w \in OfferWorker,
         \/ \E p \in Percentage, dated \in BOOLEAN : BeginEditOffer(w, p, dated)
         \/ \E s \in SuperSeller, p \in Percentage : BeginAcceptOffer(w, s, p) \/ BeginChangeShare(w, s, p)
  PROVE  OfferInv'
<1>0. OfferTypes /\ NothingBefore
  BY DEF OfferInv
<1>1. ASSUME NEW p \in Percentage, NEW dated \in BOOLEAN, BeginEditOffer(w, p, dated) PROVE OfferInv'
  <2>1. offer # NoOffer /\ offer \in OfferRow /\ p \in 0..100
    <3>1. offer # NoOffer /\ offer \in OfferRow
      BY <1>0, <1>1, OnOffer DEF BeginEditOffer
    <3>2. p \in 0..100
      OBVIOUS
    <3> QED BY <3>1, <3>2
  <2>2. ASSUME NEW o \in OfferRow
        PROVE  LET n == [o EXCEPT !.percentage = p, !.dated = dated]
               IN n \in OfferRow /\ n.total = o.total
    BY <2>1 DEF OfferRow
  <2>3. PICK row \in OfferRow : /\ row = [offer EXCEPT !.percentage = p, !.dated = dated]
                                /\ row.total = offer.total
    BY <2>1, <2>2, Zenon
  <2> DEFINE job == [pc |-> "edit", row |-> row]
  <2>4. job \in OfferCalls /\ job.pc = "edit" /\ job.row = row
    BY DEF OfferCalls, EditingOffer
  <2>5. Enter(w, job) /\ UNCHANGED <<offer, acceptance>>
    BY <1>1, <2>3, Zenon DEF BeginEditOffer
  <2> HIDE DEF job
  <2> QED BY <2>1, <2>3, <2>4, <2>5, EnterInv
<1>2. ASSUME NEW s \in SuperSeller, NEW share \in Percentage, BeginAcceptOffer(w, s, share) PROVE OfferInv'
  <2> DEFINE new == [status |-> "ACCEPTED", share |-> share, dated |-> TRUE]
             pc  == IF CountsNow(acceptance[s]) THEN "count" ELSE "accept"
             job == [pc |-> pc, who |-> s, read |-> offer, row |-> acceptance[s], new |-> new]
  <2>1. offer # NoOffer /\ offer \in OfferRow
    BY <1>0, <1>2, OnOffer DEF BeginAcceptOffer, Listed
  <2>2. new \in AcceptanceRow /\ new.dated
    BY DEF AcceptanceRow
  <2> HIDE DEF new
  <2>3. acceptance[s] \in Acceptances /\ acceptance[s].dated \in BOOLEAN
    BY <1>0, OnOffer DEF OfferTypes
  <2>4. /\ pc \in {"count", "accept"} /\ pc # "rest"
        /\ pc = "count" => ~acceptance[s].dated
        /\ pc = "accept" => acceptance[s].dated
    BY <2>3 DEF CountsNow
  <2> HIDE DEF pc
  <2>5. /\ job \in AcceptingOffer /\ job.pc = pc /\ job.who = s /\ job.read = offer
        /\ job.row = acceptance[s] /\ job.new = new
    BY <2>1, <2>2, <2>3, <2>4 DEF AcceptingOffer
  <2>6. Enter(w, job) /\ UNCHANGED <<offer, acceptance>>
    BY <1>2 DEF BeginAcceptOffer, new, pc
  <2> HIDE DEF job
  <2>7. job \in OfferCalls
    BY <2>5 DEF OfferCalls
  <2> QED BY <2>1, <2>2, <2>4, <2>5, <2>6, <2>7, EnterInv
<1>3. ASSUME NEW s \in SuperSeller, NEW share \in Percentage, BeginChangeShare(w, s, share) PROVE OfferInv'
  <2>1. acceptance[s] \in AcceptanceRow /\ share \in 0..100 /\ s \in RowsThere
    BY <1>0, <1>3, OnOffer DEF BeginChangeShare, RowsThere
  <2>2. offer # NoOffer
    BY <1>0, <2>1 DEF NothingBefore
  <2>3. ASSUME NEW r \in AcceptanceRow
        PROVE  LET n == [r EXCEPT !.share = share] IN n \in AcceptanceRow /\ n.dated = r.dated
    BY <2>1 DEF AcceptanceRow
  <2>4. PICK new \in AcceptanceRow : /\ new = [acceptance[s] EXCEPT !.share = share]
                                     /\ new.dated = acceptance[s].dated
    BY <2>1, <2>3, Zenon
  <2> DEFINE job == [pc |-> "accept", who |-> s, row |-> acceptance[s], new |-> new]
  <2>5. /\ job \in ChangingShare /\ job.pc = "accept" /\ job.who = s
        /\ job.row = acceptance[s] /\ job.new = new
    BY <2>1 DEF ChangingShare, Acceptances
  <2>6. Enter(w, job) /\ UNCHANGED <<offer, acceptance>>
    BY <1>3, <2>4, Zenon DEF BeginChangeShare
  <2> HIDE DEF job
  <2>7. job \in OfferCalls
    BY <2>5 DEF OfferCalls
  <2> QED BY <2>2, <2>4, <2>5, <2>6, <2>7, EnterInv
<1> QED BY <1>1, <1>2, <1>3

\* The offer is made, or paused: its counter stays.
LEMMA OfferChangesInv ==
  ASSUME OfferInv,
         \/ \E p \in Percentage, dated \in BOOLEAN : CreateOffer(p, dated)
         \/ \E status \in {"PAUSED", "ACTIVE"} : PauseOrActivate(status)
  PROVE  OfferInv'
<1>0. OfferTypes /\ NothingBefore
  BY DEF OfferInv
<1>1. /\ offer' \in OfferRow /\ offer'.total = offer.total
      /\ UNCHANGED <<acceptance, offering, overlapping>>
  <2>1. ASSUME NEW p \in Percentage, NEW dated \in BOOLEAN, CreateOffer(p, dated)
        PROVE  offer' \in OfferRow /\ offer'.total = offer.total
    BY <2>1 DEF CreateOffer, OfferRow, NoOffer
  <2>2. ASSUME NEW status \in {"PAUSED", "ACTIVE"}, PauseOrActivate(status)
        PROVE  offer' \in OfferRow /\ offer'.total = offer.total
    <3>1. offer \in OfferRow /\ offer' = [offer EXCEPT !.status = status]
      BY <1>0, <2>2, OnOffer DEF PauseOrActivate
    <3> QED BY <3>1 DEF OfferRow
  <2> QED BY <2>1, <2>2 DEF CreateOffer, PauseOrActivate
<1>2. OfferTypes' /\ NothingBefore'
  <2>1. NoOffer \notin OfferRow
    BY DEF NoOffer, OfferRow
  <2> QED BY <1>0, <1>1, <2>1 DEF OfferTypes, NothingBefore, RowsThere
<1>3. ASSUME ~overlapping' PROVE OfferCounted'
  BY <1>1, <1>3 DEF OfferInv, OfferCounted, UpToDate, Ahead, Dated
<1> QED BY <1>2, <1>3 DEF OfferInv

\* The edit saves the counter it read, the acceptance the counter it read and one more.
LEMMA SaveOfferInv ==
  ASSUME OfferInv, NEW w \in OfferWorker, SaveOffer(w) \/ SaveCount(w)
  PROVE  OfferInv'
<1>0. OfferTypes /\ NothingBefore /\ offering \in [OfferWorker -> OfferCalls]
  BY DEF OfferInv, OfferTypes
<1>1. CASE SaveOffer(w)
  <2>1. /\ offering[w] \in EditingOffer /\ offering[w].pc = "edit" /\ offering[w].row \in OfferRow
        /\ offer' = offering[w].row /\ offering' = [offering EXCEPT ![w] = OfferIdle]
        /\ UNCHANGED <<acceptance, overlapping>>
    <3>1. offering[w].pc = "edit" /\ offering[w] \in EditingOffer
      BY <1>0, <1>1, OnOffer DEF SaveOffer, UnderOffer
    <3> QED BY <1>1, <3>1 DEF SaveOffer, Finish, EditingOffer
  <2>2. OfferTypes'
    BY <1>0, <2>1 DEF OfferTypes, OfferCalls, RowsThere
  <2>3. NothingBefore' /\ OfferIdle.pc = "rest"
    BY <2>1 DEF NothingBefore, NoOffer, OfferRow, OfferIdle
  <2>4. ASSUME ~overlapping' PROVE OfferCounted'
    <3>1. OfferCounted
      BY <2>1, <2>4 DEF OfferInv
    <3>2. offer'.total = offer.total
      BY <2>1, <3>1 DEF OfferCounted, UpToDate
    <3>3. \A v \in OfferWorker : offering[v] = offering'[v] \/ offering'[v].pc = "rest"
      BY <1>0, <2>1, <2>3
    <3>4. \A v \in OfferWorker : offering'[v].pc = "rest"
      BY <1>0, <2>1, <2>3, <3>1 DEF OfferCounted
    <3>5. \A v \in OfferWorker : ~Ahead(v) /\ ~Ahead(v)'
      BY <2>1, <3>1, <3>4 DEF Ahead, OfferCounted
    <3>6. offer'.total = Cardinality(Dated')
      BY <2>1, <3>1, <3>2, <3>5 DEF OfferCounted, Dated
    <3> QED BY <3>4, <3>5, <3>6 DEF OfferCounted, UpToDate
  <2> QED BY <2>2, <2>3, <2>4 DEF OfferInv
<1>2. CASE SaveCount(w)
  <2>1. /\ offering[w] \in AcceptingOffer /\ offering[w].pc = "count"
        /\ offer' = [offer EXCEPT !.total = offering[w].read.total + 1]
        /\ offering' = [offering EXCEPT ![w].pc = "accept"]
        /\ UNCHANGED <<acceptance, overlapping>>
    BY <1>0, <1>2, OnOffer DEF SaveCount, UnderOffer
  <2>2. offer \in OfferRow
    BY <1>0, <2>1, OnOffer DEF NothingBefore
  <2>3. offering[w].read.total \in Nat
    BY <2>1 DEF AcceptingOffer, OfferRow
  <2>4. offer' \in OfferRow /\ offer'.total = offering[w].read.total + 1
    BY <2>1, <2>2, <2>3 DEF OfferRow
  <2>5. PICK job \in AcceptingOffer : /\ job = [offering[w] EXCEPT !.pc = "accept"] /\ job.pc = "accept"
                                 /\ job.who = offering[w].who /\ job.row = offering[w].row
                                 /\ job.new = offering[w].new
    <3>1. ASSUME NEW j \in AcceptingOffer
          PROVE  LET n == [j EXCEPT !.pc = "accept"]
                 IN /\ n \in AcceptingOffer /\ n.pc = "accept" /\ n.who = j.who /\ n.row = j.row
                    /\ n.new = j.new
      BY DEF AcceptingOffer
    <3> QED BY <2>1, <3>1, Zenon
  <2>6. offering' = [offering EXCEPT ![w] = job]
    BY <1>0, <2>1, <2>5
  <2>7. OfferTypes'
    BY <1>0, <2>1, <2>4, <2>5, <2>6 DEF OfferTypes, OfferCalls, RowsThere
  <2>8. NothingBefore'
    BY <2>4 DEF NothingBefore, NoOffer, OfferRow
  <2>9. ASSUME ~overlapping' PROVE OfferCounted'
    <3>1. OfferCounted
      BY <2>1, <2>9 DEF OfferInv
    <3>2. /\ offering[w].read.total = offer.total /\ ~offering[w].row.dated /\ offering[w].new.dated
          /\ offering[w].row = acceptance[offering[w].who]
      BY <2>1, <3>1 DEF OfferCounted, UpToDate
    <3>3. offering'[w] = job /\ \A v \in OfferWorker \ {w} : offering'[v] = offering[v] /\ offering[v].pc = "rest"
      BY <1>0, <2>1, <2>6, <3>1 DEF OfferCounted
    <3>4. \A v \in OfferWorker : ~Ahead(v)
      BY <2>1, <3>3 DEF Ahead
    <3>5. Ahead(w)'
      BY <2>5, <3>2, <3>3 DEF Ahead
    <3>6. offer'.total = Cardinality(Dated') + 1
      BY <2>1, <2>4, <3>1, <3>2, <3>4 DEF OfferCounted, Dated
    <3>7. \A v \in OfferWorker : UpToDate(v)'
      <4>1. UpToDate(w)'
        <5>1. acceptance' = acceptance /\ offering'[w] = job
          BY <2>1, <3>3
        <5>2. job.pc = "accept" /\ job.row = acceptance[job.who] /\ job.new.dated
          BY <2>5, <3>2
        <5> QED BY <5>1, <5>2 DEF UpToDate
      <4>2. ASSUME NEW v \in OfferWorker \ {w} PROVE UpToDate(v)'
        <5>1. offering'[v].pc = "rest"
          BY <3>3
        <5> QED BY <5>1 DEF UpToDate
      <4> QED BY <4>1, <4>2
    <3> QED BY <3>3, <3>5, <3>6, <3>7 DEF OfferCounted
  <2> QED BY <2>7, <2>8, <2>9 DEF OfferInv
<1> QED BY <1>1, <1>2

\* The row follows the counter; only the first acceptance of a super-seller was counted.
LEMMA SaveAcceptanceInv ==
  ASSUME OfferInv, NEW w \in OfferWorker, SaveAcceptance(w)
  PROVE  OfferInv'
<1>0. OfferTypes /\ NothingBefore /\ offering \in [OfferWorker -> OfferCalls]
  BY DEF OfferInv, OfferTypes
<1>1. /\ offering[w].pc = "accept" /\ offering[w].who \in SuperSeller
      /\ offering[w].new \in AcceptanceRow /\ offering[w].row \in Acceptances
      /\ offering' = [offering EXCEPT ![w] = OfferIdle] /\ UNCHANGED <<offer, overlapping>>
  <2>1. offering[w].pc = "accept"
    BY DEF SaveAcceptance, UnderOffer
  <2> QED BY <1>0, <2>1, OnOffer DEF SaveAcceptance, Finish
<1>2. PICK s \in SuperSeller, new \in AcceptanceRow : s = offering[w].who /\ new = offering[w].new
  BY <1>1
<1>3. acceptance' = IF offering[w].row = NoAcceptance /\ acceptance[s] # NoAcceptance THEN acceptance
                    ELSE [acceptance EXCEPT ![s] = new]
  BY <1>2 DEF SaveAcceptance
<1>4. /\ acceptance \in [SuperSeller -> Acceptances] /\ acceptance' \in [SuperSeller -> Acceptances]
      /\ NoAcceptance \notin AcceptanceRow
  BY <1>0, <1>3 DEF OfferTypes, Acceptances, NoAcceptance, AcceptanceRow
<1>5. OfferTypes'
  <2>1. RowsThere' \subseteq RowsThere \cup {s}
    BY <1>3, <1>4 DEF RowsThere
  <2>2. IsFiniteSet(RowsThere')
    BY <1>0, <2>1, FS_AddElement, FS_Subset DEF OfferTypes
  <2> QED BY <1>0, <1>1, <1>4, <2>2 DEF OfferTypes, OfferCalls
<1>6. NothingBefore'
  BY <1>0, <1>1 DEF NothingBefore
<1>7. ASSUME ~overlapping' PROVE OfferCounted'
  <2>1. OfferCounted
    BY <1>1, <1>7 DEF OfferInv
  <2>2. offering[w].row = acceptance[s] /\ (acceptance[s].dated => new.dated)
    BY <1>1, <1>2, <2>1 DEF OfferCounted, UpToDate
  <2>3. acceptance' = [acceptance EXCEPT ![s] = new]
    BY <1>3, <2>2
  <2>4. \A v \in OfferWorker : offering'[v].pc = "rest"
    BY <1>0, <1>1, <2>1 DEF OfferCounted, OfferIdle
  <2>5. (\E v \in OfferWorker : Ahead(v)) <=> new.dated /\ ~acceptance[s].dated
    BY <1>1, <1>2, <2>1, <2>2 DEF Ahead, OfferCounted
  <2>6. acceptance[s].dated \in BOOLEAN /\ new.dated \in BOOLEAN
    BY <1>0, OnOffer DEF AcceptanceRow
  <2>7. IsFiniteSet(Dated)
    <3>1. Dated \subseteq RowsThere
      BY <1>0, OnOffer DEF Dated, RowsThere
    <3> QED BY <1>0, <3>1, FS_Subset DEF OfferTypes
  <2>8. Cardinality(Dated) \in Nat
    BY <2>7, FS_CardinalityType
  <2>9. offer.total = Cardinality(Dated')
    <3>1. CASE new.dated /\ ~acceptance[s].dated
      <4>1. Dated' = Dated \cup {s} /\ s \notin Dated
        BY <1>4, <2>3, <3>1 DEF Dated
      <4>2. Cardinality(Dated') = Cardinality(Dated) + 1
        BY <2>7, <4>1, FS_AddElement
      <4> QED BY <2>1, <2>5, <3>1, <4>2 DEF OfferCounted
    <3>2. CASE ~(new.dated /\ ~acceptance[s].dated)
      <4>1. Dated' = Dated
        BY <1>4, <2>2, <2>3, <2>6, <3>2 DEF Dated
      <4> QED BY <2>1, <2>5, <3>2, <4>1 DEF OfferCounted
    <3> QED BY <3>1, <3>2
  <2> QED BY <1>1, <2>4, <2>9 DEF OfferCounted, UpToDate, Ahead
<1> QED BY <1>5, <1>6, <1>7 DEF OfferInv

\* A rejection keeps the date of an earlier acceptance, so it is not counted again.
LEMMA RejectOfferInv ==
  ASSUME OfferInv, NEW w \in OfferWorker, NEW s \in SuperSeller, RejectOffer(s, w)
  PROVE  OfferInv'
<1>0. OfferTypes /\ NothingBefore
  BY DEF OfferInv
<1>1. /\ offering[w].pc = "rest" /\ offer \in OfferRow /\ offer # NoOffer
      /\ acceptance' = [acceptance EXCEPT ![s].status = "REJECTED"]
      /\ overlapping' = (overlapping \/ ~NobodyElse(w)) /\ UNCHANGED <<offer, offering>>
  BY <1>0, OnOffer DEF RejectOffer, Listed, UnderOffer
<1>2. acceptance \in [SuperSeller -> Acceptances]
  BY <1>0 DEF OfferTypes
<1>3. ASSUME NEW r \in Acceptances
      PROVE  LET n == [r EXCEPT !.status = "REJECTED"]
             IN n \in AcceptanceRow /\ n.dated = r.dated
  <2> DEFINE Row == [status : {"none", "ACCEPTED", "REJECTED"}, share : 0..100, dated : BOOLEAN]
  <2>1. r \in Row
    <3>1. NoAcceptance \in Row
      BY DEF NoAcceptance
    <3>2. AcceptanceRow \subseteq Row
      BY DEF AcceptanceRow
    <3> QED BY <3>1, <3>2 DEF Acceptances
  <2>2. ASSUME NEW o \in Row
        PROVE  LET n == [o EXCEPT !.status = "REJECTED"]
               IN n \in Row /\ n.status = "REJECTED" /\ n.dated = o.dated
    OBVIOUS
  <2>3. [r EXCEPT !.status = "REJECTED"] \in AcceptanceRow
    BY <2>1, <2>2 DEF AcceptanceRow
  <2> QED BY <2>1, <2>2, <2>3
<1>4. PICK row \in AcceptanceRow : /\ row = [acceptance[s] EXCEPT !.status = "REJECTED"]
                                   /\ row.dated = acceptance[s].dated
  BY <1>2, <1>3, Zenon
<1>5. acceptance' = [acceptance EXCEPT ![s] = row]
  BY <1>1, <1>2, <1>4
<1>6. OfferTypes'
  <2>1. RowsThere' \subseteq RowsThere \cup {s}
    BY <1>2, <1>5 DEF RowsThere
  <2>2. IsFiniteSet(RowsThere')
    BY <1>0, <2>1, FS_AddElement, FS_Subset DEF OfferTypes
  <2>3. overlapping' \in BOOLEAN
    BY <1>1
  <2>4. acceptance' \in [SuperSeller -> Acceptances]
    BY <1>2, <1>5 DEF Acceptances
  <2> QED BY <1>0, <1>1, <2>2, <2>3, <2>4 DEF OfferTypes
<1>7. NothingBefore'
  BY <1>1 DEF NothingBefore
<1>8. ASSUME ~overlapping' PROVE OfferCounted'
  <2>1. ~overlapping /\ \A v \in OfferWorker : offering[v].pc = "rest"
    BY <1>1, <1>8 DEF NobodyElse, UnderOffer
  <2>2. OfferCounted
    BY <2>1 DEF OfferInv
  <2>3. Dated' = Dated
    BY <1>2, <1>4, <1>5 DEF Dated
  <2>4. \A v \in OfferWorker : ~Ahead(v) /\ ~Ahead(v)' /\ UpToDate(v)'
    BY <1>1, <2>1 DEF Ahead, UpToDate
  <2> QED BY <1>1, <2>1, <2>2, <2>3, <2>4 DEF OfferCounted
<1> QED BY <1>6, <1>7, <1>8 DEF OfferInv

\* Every step.
LEMMA OfferInvNext ==
  ASSUME OfferInv, [CommissionNext]_commissionVars
  PROVE  OfferInv'
<1>1. CASE LastDayPasses \/ UNCHANGED commissionVars
  <2>1. UNCHANGED <<offer, acceptance, offering, overlapping>>
    BY <1>1 DEF LastDayPasses, commissionVars
  <2>2. RowsThere' = RowsThere /\ Dated' = Dated
    BY <2>1 DEF RowsThere, Dated
  <2>3. OfferTypes' /\ NothingBefore'
    BY <2>1, <2>2 DEF OfferInv, OfferTypes, NothingBefore
  <2>4. OfferCounted => OfferCounted'
    BY <2>1, <2>2 DEF OfferCounted, UpToDate, Ahead
  <2> QED BY <2>1, <2>3, <2>4 DEF OfferInv
<1>2. CASE \/ \E p \in Percentage, dated \in BOOLEAN : CreateOffer(p, dated)
           \/ \E status \in {"PAUSED", "ACTIVE"} : PauseOrActivate(status)
  BY <1>2, OfferChangesInv
<1>3. ASSUME NEW w \in OfferWorker, SaveOffer(w) \/ SaveCount(w) PROVE OfferInv'
  BY <1>3, SaveOfferInv
<1>4. ASSUME NEW w \in OfferWorker, SaveAcceptance(w) PROVE OfferInv'
  BY <1>4, SaveAcceptanceInv
<1>5. ASSUME NEW w \in OfferWorker, NEW s \in SuperSeller, RejectOffer(s, w) PROVE OfferInv'
  BY <1>5, RejectOfferInv
<1>6. ASSUME NEW w \in OfferWorker,
             \/ \E p \in Percentage, dated \in BOOLEAN : BeginEditOffer(w, p, dated)
             \/ \E s \in SuperSeller, p \in Percentage :
                   BeginAcceptOffer(w, s, p) \/ BeginChangeShare(w, s, p)
      PROVE  OfferInv'
  BY <1>6, OfferBeginsInv
<1> QED BY <1>1, <1>2, <1>3, <1>4, <1>5, <1>6 DEF CommissionNext

\* A hundredth of what there is, some hundred times at most, is not more than there is.
LEMMA PartOfWhole ==
  ASSUME NEW x \in Nat, NEW k \in 0..100
  PROVE  (x \div 100) * k \in Nat /\ x - (x \div 100) * k \in Nat
<1> DEFINE q == x \div 100
<1>1. q \in Nat /\ 100 * q <= x
  OBVIOUS
<1> HIDE DEF q
<1>2. q * k \in Nat /\ q * (100 - k) \in Nat
  <2>1. ASSUME NEW a \in Nat, NEW b \in Nat PROVE a * b \in Nat
    OBVIOUS
  <2>2. k \in Nat /\ 100 - k \in Nat
    OBVIOUS
  <2> QED BY <1>1, <2>1, <2>2
<1>3. q * (100 - k) = 100 * q - q * k
  BY <1>1
<1>4. x - q * k \in Nat
  BY <1>1, <1>2, <1>3
<1> QED BY <1>2, <1>4 DEF q

\* The division of a price, for percentages as they are stored.
LEMMA DividedIntoItsParts ==
  ASSUME OfferTypes
  PROVE  PriceIsDivided
<1> SUFFICES ASSUME NEW amount \in TicketPrice, NEW s \in SuperSeller
             PROVE  /\ FinalSuperSellerAmount(amount, s) >= 0
                    /\ WuloAmount(amount) + OrganizationAmount(amount) + SellerAmount(amount, s)
                         + FinalSuperSellerAmount(amount, s) = amount * 1000000
  BY SMT DEF PriceIsDivided
<1>1. amount \in Nat /\ WuloPercentage \in 0..100
  OBVIOUS
<1>2. offer.percentage \in 0..100 /\ acceptance[s].share \in 0..100
  BY OnOffer
<1>3. /\ WuloAmount(amount) + AfterWulo(amount) = amount * 1000000
      /\ WuloAmount(amount) \in Nat /\ AfterWulo(amount) \in Nat
  <2>1. ASSUME NEW a \in Nat, NEW b \in Nat PROVE a * b \in Nat
    OBVIOUS
  <2>2. WuloPercentage \in Nat /\ 100 - WuloPercentage \in Nat
    BY <1>1
  <2>3. amount * WuloPercentage \in Nat /\ amount * (100 - WuloPercentage) \in Nat
    BY <1>1, <2>1, <2>2
  <2>4. amount * (100 - WuloPercentage) = 100 * amount - amount * WuloPercentage
    BY <1>1
  <2> QED BY <1>1, <2>3, <2>4, SMTT(30) DEF WuloAmount, AfterWulo
<1>10. WuloAmount(amount) \in Nat /\ AfterWulo(amount) \in Nat
  BY <1>3, SMT
<1> DEFINE left == AfterWulo(amount)
           org  == OrganizationAmount(amount)
           sup  == SuperSellerAmount(amount)
           sold == SellerAmount(amount, s)
<1>4. org \in Nat /\ sup \in Nat /\ sup = left - org
  <2> HIDE DEF left
  <2>1. left \in Nat
    BY <1>10 DEF left
  <2>2. (left \div 100) * offer.percentage \in Nat /\ left - (left \div 100) * offer.percentage \in Nat
    BY <1>2, <2>1, PartOfWhole
  <2>3. org = (left \div 100) * offer.percentage \/ org = 0
    BY DEF OrganizationAmount, left
  <2>4. sup = left - org
    BY DEF SuperSellerAmount, left
  <2> HIDE DEF org, sup
  <2> QED BY <2>1, <2>2, <2>3, <2>4
<1>5. sold \in Nat /\ sup - sold \in Nat
  <2> HIDE DEF sup
  <2>1. (sup \div 100) * acceptance[s].share \in Nat /\ sup - (sup \div 100) * acceptance[s].share \in Nat
    BY <1>2, <1>4, PartOfWhole
  <2>2. sold = (sup \div 100) * acceptance[s].share \/ sold = 0
    BY DEF SellerAmount, sup
  <2> HIDE DEF sold
  <2> QED BY <1>4, <2>1, <2>2
<1>6. FinalSuperSellerAmount(amount, s) = sup - sold
  BY DEF FinalSuperSellerAmount
<1> HIDE DEF left, org, sup, sold
<1>7. sup - sold >= 0
  BY <1>5
<1>8. /\ WuloAmount(amount) + left = amount * 1000000 /\ WuloAmount(amount) \in Nat /\ left \in Nat
  BY <1>3, SMT DEF left
<1>9. WuloAmount(amount) + org + sold + (sup - sold) = amount * 1000000
  BY <1>1, <1>4, <1>5, <1>8, SMTT(30)
<1> QED BY <1>6, <1>7, <1>9, SMT DEF org, sold

\* What is shown is what is paid, and no more than the offer's counter counts.
LEMMA BoardIsRight ==
  ASSUME OfferInv
  PROVE  BoardAgrees
<1>0. OfferTypes /\ IsFiniteSet(RowsThere)
  BY DEF OfferInv, OfferTypes
<1>1. ASSUME NEW s \in SuperSeller, Listed, NEW amount \in TicketPrice \ {0}
      PROVE  SellerAmount(amount, s) =
               IF ShownAccepted(s) THEN (SuperSellerAmount(amount) \div 100) * ShownShare(s) ELSE 0
  <2>1. acceptance[s].status = "ACCEPTED" => acceptance[s] # NoAcceptance
    BY <1>0, OnOffer
  <2> QED BY <1>1, <2>1 DEF SellerAmount, ShownAccepted, HasAccepted, ShownShare
<1>2. /\ With("ACCEPTED") \cup With("REJECTED") = RowsThere
      /\ With("ACCEPTED") \cap With("REJECTED") = {}
      /\ With("ACCEPTED") \subseteq Dated /\ Dated \subseteq RowsThere
  BY <1>0, OnOffer DEF With, RowsThere, Dated
<1>3. /\ IsFiniteSet(With("ACCEPTED")) /\ IsFiniteSet(With("REJECTED")) /\ IsFiniteSet(Dated)
      /\ Cardinality(With("ACCEPTED")) \in Nat /\ Cardinality(With("REJECTED")) \in Nat
  BY <1>0, <1>2, FS_Subset, FS_CardinalityType
<1>4. Cardinality(With("ACCEPTED")) + Cardinality(With("REJECTED")) = Cardinality(RowsThere)
  <2>1. Cardinality(With("ACCEPTED") \cap With("REJECTED")) = 0
    BY <1>2, FS_EmptySet
  <2>2. Cardinality(With("ACCEPTED") \cup With("REJECTED")) =
          Cardinality(With("ACCEPTED")) + Cardinality(With("REJECTED"))
            - Cardinality(With("ACCEPTED") \cap With("REJECTED"))
    BY <1>3, FS_Union
  <2>3. Cardinality(RowsThere) = Cardinality(With("ACCEPTED")) + Cardinality(With("REJECTED")) - 0
    BY <1>2, <2>1, <2>2, Zenon
  <2> QED BY <1>3, <2>3
<1>5. OfferStats.accepted + OfferStats.rejected = OfferStats.all
  BY <1>4 DEF OfferStats, RowsThere
<1>6. ASSUME ~overlapping, \A w \in OfferWorker : UnderOffer(w, "rest")
      PROVE  OfferStats.accepted <= offer.total
  <2>1. offer.total = Cardinality(Dated)
    BY <1>6 DEF OfferInv, OfferCounted, Ahead, UnderOffer
  <2>2. Cardinality(With("ACCEPTED")) <= Cardinality(Dated)
    BY <1>2, <1>3, FS_Subset
  <2> QED BY <2>1, <2>2 DEF OfferStats
<1> QED BY <1>1, <1>5, <1>6 DEF BoardAgrees

\* SuperSellerOfferAcceptance and calculate_distribution: the counter is how many ever accepted
\* unless handlers overlapped; every price is divided into parts that are its sum and none of them
\* negative; and super-sellers are shown what they are paid; for any super-sellers, percentages,
\* prices, edits, rejections and changes of a share.
THEOREM OfferStaysHonoured == CommissionSpec => []OfferIsHonoured
<1>1. OfferInv => OfferIsHonoured
  <2> SUFFICES ASSUME OfferInv PROVE OfferIsHonoured
    OBVIOUS
  <2>1. SerialAcceptancesCounted
    BY DEF OfferInv, OfferCounted, Ahead, UnderOffer, SerialAcceptancesCounted, Dated
  <2>2. PriceIsDivided
    BY DividedIntoItsParts DEF OfferInv
  <2> QED BY <2>1, <2>2, BoardIsRight DEF OfferIsHonoured
<1>2. CommissionSpec => []OfferInv
  BY OfferInvInit, OfferInvNext, PTL DEF CommissionSpec
<1> QED BY <1>1, <1>2, PTL
================================================================================

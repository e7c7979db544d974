----------------------------- MODULE SellerNetwork -----------------------------
(* How a super-seller gets sellers and what happens to them: invitations and  *)
(* their answers, the status of a seller's profile, the KYC submissions and   *)
(* their review.  One organization of type SUPER_SELLER.                      *)
(*                                                                            *)
(* A profile is one row of the table: Seller.activate and Seller.suspend save *)
(* the whole row they had read, the other handlers only the fields they name, *)
(* so a handler that started earlier may put a field back.  A seller's        *)
(* submissions are rows of their own, kept here in the order of their         *)
(* timestamps; the review takes the last one it finds.                        *)
EXTENDS Naturals, Sequences

CONSTANTS
  Invitation,      \* invitations that may be sent
  Person,          \* users who may become sellers
  Invitee,         \* Invitee[i]: the user whose address invitation i has
  DeskWorker,      \* web processes
  MaxSubmissions,  \* bound: KYC submissions of one seller or of the organization
  MaxAnswers       \* bound: answers to one invitation

ASSUME InviteeAssumption == Invitee \in [Invitation -> Person]

VARIABLES
  invited,      \* invited[i]: "none" or the stored status of the invitation
  expired,      \* expired[i]: expires_at has passed
  answers,      \* answers[i]: what was answered to the invitation, in order (history)
  isMember,     \* isMember[p]: a membership of the organization exists
  profile,      \* profile[p]: NoProfile or the seller's row
  submissions,  \* submissions[p]: the statuses of the seller's KYC submissions
  orgKyc,       \* kyc_status of the SuperSellerProfile, "none" without one
  orgSubs,      \* the statuses of the organization's KYC submissions
  desk,         \* desk[w]: what a web process is doing
  crossed       \* crossed[p]: two handlers have worked on the seller at once (history)

sellerVars == <<invited, expired, answers, isMember, profile, submissions, orgKyc, orgSubs,
                desk, crossed>>

--------------------------------------------------------------------------------

SellerStatus  == {"INVITED", "ACTIVE", "SUSPENDED", "INACTIVE"}
KycStatus     == {"PENDING", "VERIFIED", "REJECTED"}
Answer        == {"accept", "decline"}
NoProfile     == [status |-> "none", kyc |-> "none", active |-> FALSE, suspendedAt |-> FALSE]
ProfileRow    == [status : SellerStatus, kyc : KycStatus \cup {"NOT_REQUIRED"},
                  active : BOOLEAN, suspendedAt : BOOLEAN]
FreeDesk        == [pc |-> "rest"]

HasProfile(p) == profile[p] # NoProfile
AtDesk(w, pc) == desk[w].pc = pc
Leave(w)      == desk' = [desk EXCEPT ![w] = FreeDesk]
WorkingOn(p)  == {w \in DeskWorker : ~AtDesk(w, "rest") /\ desk[w].who = p}

\* A handler starts on p: from now on p's row may be read by two at once.
Start(w, p, job) ==
  /\ AtDesk(w, "rest")
  /\ desk' = [desk EXCEPT ![w] = job]
  /\ crossed' = [crossed EXCEPT ![p] = @ \/ WorkingOn(p) # {}]

\* Seller.save: a suspended row keeps or gets its date, any other row loses it.
SaveProfile(row, status) ==
  [row EXCEPT !.status = status, !.suspendedAt = (status = "SUSPENDED")]

\* SellerInvitation.save reaches the database only while the row has no expires_at.
SaveInvitation(stored, new) == IF stored = "none" THEN new ELSE stored

--------------------------------------------------------------------------------
(* Invitations.                                                               *)

\* InviteSellerAPIView.post; that the message was sent changes nothing that is kept.
Invite(i) ==
  /\ invited[i] = "none"
  /\ invited' = [invited EXCEPT ![i] = SaveInvitation(@, "PENDING")]
  /\ UNCHANGED <<expired, answers, isMember, profile, submissions, orgKyc, orgSubs, desk, crossed>>

\* Time passes the invitation's expires_at.
ExpireInvitation(i) ==
  /\ invited[i] # "none" /\ ~expired[i]
  /\ expired' = [expired EXCEPT ![i] = TRUE]
  /\ UNCHANGED <<invited, answers, isMember, profile, submissions, orgKyc, orgSubs, desk, crossed>>

\* What the answer is checked against: the status as it is stored.
MayAnswer(i) == invited[i] = "PENDING" /\ ~expired[i] /\ Len(answers[i]) < MaxAnswers

Answered(i, a, stored) ==
  /\ answers' = [answers EXCEPT ![i] = Append(@, a)]
  /\ invited' = [invited EXCEPT ![i] = SaveInvitation(@, stored)]

Decline(i) ==
  /\ MayAnswer(i)
  /\ Answered(i, "decline", "DECLINED")
  /\ UNCHANGED <<expired, isMember, profile, submissions, orgKyc, orgSubs, desk, crossed>>

\* The user of the invitation becomes a member of the organization.
BeginAccept(w, i) ==
  /\ MayAnswer(i)
  /\ isMember' = [isMember EXCEPT ![Invitee[i]] = TRUE]
  /\ Start(w, Invitee[i], [pc |-> "profile", who |-> Invitee[i], inv |-> i])
  /\ UNCHANGED <<invited, expired, answers, profile, submissions, orgKyc, orgSubs>>

\* Where an AppRole named SELLER exists, adding it to roles that are of another model raises:
\* the membership stays, nothing else happens.
AcceptRaises(i) ==
  /\ MayAnswer(i)
  /\ isMember' = [isMember EXCEPT ![Invitee[i]] = TRUE]
  /\ UNCHANGED <<invited, expired, answers, profile, submissions, orgKyc, orgSubs, desk, crossed>>

\* Seller.objects.get_or_create: a new profile is ACTIVE at once, another is read.
GetOrCreateProfile(w) ==
  /\ AtDesk(w, "profile")
  /\ LET p == desk[w].who
         i == desk[w].inv
         new == [status |-> "ACTIVE", kyc |-> "NOT_REQUIRED", active |-> TRUE,
                 suspendedAt |-> FALSE]
     IN IF HasProfile(p)
        THEN /\ desk' = [desk EXCEPT ![w] = [pc |-> "activate", who |-> p, inv |-> i,
                                             row |-> profile[p]]]
             /\ UNCHANGED <<profile, answers, invited>>
        ELSE /\ profile' = [profile EXCEPT ![p] = new]
             /\ Answered(i, "accept", "ACCEPTED")
             /\ Leave(w)
  /\ UNCHANGED <<expired, isMember, submissions, orgKyc, orgSubs, crossed>>

\* An existing seller who is not ACTIVE is activated: the whole row read before is saved.
ActivateOnAccept(w) ==
  /\ AtDesk(w, "activate")
  /\ LET p == desk[w].who
         row == desk[w].row
     IN profile' = IF row.status = "ACTIVE" THEN profile
                   ELSE [profile EXCEPT ![p] = SaveProfile(row, "ACTIVE")]
  /\ Answered(desk[w].inv, "accept", "ACCEPTED")
  /\ Leave(w)
  /\ UNCHANGED <<expired, isMember, submissions, orgKyc, orgSubs, crossed>>

--------------------------------------------------------------------------------
(* The super-seller's hand on a seller.                                       *)

\* update_status: the serializer refuses the status the seller already has.
BeginStatus(w, p, status) ==
  /\ HasProfile(p) /\ status \in {"ACTIVE", "SUSPENDED"} \ {profile[p].status}
  /\ Start(w, p, [pc |-> "status", who |-> p, row |-> profile[p], status |-> status])
  /\ UNCHANGED <<invited, expired, answers, isMember, profile, submissions, orgKyc, orgSubs>>

SaveNewStatus(w) ==
  /\ AtDesk(w, "status")
  /\ profile' = [profile EXCEPT ![desk[w].who] = SaveProfile(desk[w].row, desk[w].status)]
  /\ Leave(w)
  /\ UNCHANGED <<invited, expired, answers, isMember, submissions, orgKyc, orgSubs, crossed>>

\* destroy: only status, active and the reason are written; suspended_at stays in the row.
RemoveSeller(p) ==
  /\ HasProfile(p)
  /\ profile' = [profile EXCEPT ![p].status = "INACTIVE", ![p].active = FALSE]
  /\ crossed' = [crossed EXCEPT ![p] = @ \/ WorkingOn(p) # {}]
  /\ UNCHANGED <<invited, expired, answers, isMember, submissions, orgKyc, orgSubs, desk>>

--------------------------------------------------------------------------------
(* KYC.                                                                       *)

SetKyc(p, status) == profile' = [profile EXCEPT ![p].kyc = status]

\* SellerKYCSubmitView.post: the submission, then the seller's kyc_status alone.
CreateSubmission(w, p) ==
  /\ HasProfile(p) /\ Len(submissions[p]) < MaxSubmissions
  /\ submissions' = [submissions EXCEPT ![p] = Append(@, "PENDING")]
  /\ Start(w, p, [pc |-> "kyc", who |-> p, verdict |-> "PENDING"])
  /\ UNCHANGED <<invited, expired, answers, isMember, profile, orgKyc, orgSubs>>

\* SuperSellerReviewSellerKYCView.patch reads the last submission, whatever its status is.
BeginReview(w, p, verdict) ==
  /\ HasProfile(p) /\ submissions[p] # <<>>
  /\ Start(w, p, [pc |-> "review", who |-> p, at |-> Len(submissions[p]), verdict |-> verdict])
  /\ UNCHANGED <<invited, expired, answers, isMember, profile, submissions, orgKyc, orgSubs>>

Reviewed(w, at) ==
  /\ AtDesk(w, "review")
  /\ submissions' = [submissions EXCEPT ![desk[w].who][at] = desk[w].verdict]
  /\ desk' = [desk EXCEPT ![w] = [pc |-> "kyc", who |-> desk[w].who, verdict |-> desk[w].verdict]]
  /\ UNCHANGED <<invited, expired, answers, isMember, profile, orgKyc, orgSubs, crossed>>

\* (A faulty variant: the first submission is reviewed.)
ReviewOldest(w) == Reviewed(w, 1)

\* sub.save(): the submission that was read, which may not be the last one by now.
ReviewSubmission(w) == Reviewed(w, desk[w].at)

SaveKyc(w) ==
  /\ AtDesk(w, "kyc")
  /\ SetKyc(desk[w].who, desk[w].verdict)
  /\ Leave(w)
  /\ UNCHANGED <<invited, expired, answers, isMember, submissions, orgKyc, orgSubs, crossed>>

\* SuperSellerKYCSubmitView: IsSuperSellerMember lets only a VERIFIED organization in.
SubmitOrgKyc ==
  /\ orgKyc = "VERIFIED" /\ Len(orgSubs) < MaxSubmissions
  /\ orgSubs' = Append(orgSubs, "PENDING")
  /\ orgKyc' = "PENDING"
  /\ UNCHANGED <<invited, expired, answers, isMember, profile, submissions, desk, crossed>>

\* AdminSuperSellerKYCVerifyView: the profile is created if there is none.
ReviewOrgKyc(verdict) ==
  /\ orgSubs # <<>>
  /\ orgSubs' = [orgSubs EXCEPT ![Len(orgSubs)] = verdict]
  /\ orgKyc' = verdict
  /\ UNCHANGED <<invited, expired, answers, isMember, profile, submissions, desk, crossed>>

--------------------------------------------------------------------------------

\* The organization's profile is made in the administration, with any status.
SellerInit ==
  /\ invited = [i \in Invitation |-> "none"]
  /\ expired = [i \in Invitation |-> FALSE]
  /\ answers = [i \in Invitation |-> <<>>]
  /\ isMember \in [Person -> BOOLEAN]
  /\ profile = [p \in Person |-> NoProfile]
  /\ submissions = [p \in Person |-> <<>>]
  /\ orgKyc \in KycStatus /\ orgSubs = <<>>
  /\ desk = [w \in DeskWorker |-> FreeDesk]
  /\ crossed = [p \in Person |-> FALSE]

SellerNext ==
  \/ \E i \in Invitation : Invite(i) \/ ExpireInvitation(i) \/ Decline(i) \/ AcceptRaises(i)
  \/ \E w \in DeskWorker, i \in Invitation : BeginAccept(w, i)
  \/ \E w \in DeskWorker : GetOrCreateProfile(w) \/ ActivateOnAccept(w)
                           \/ SaveNewStatus(w) \/ ReviewSubmission(w) \/ SaveKyc(w)
  \/ \E w \in DeskWorker, p \in Person :
        \/ CreateSubmission(w, p)
        \/ \E s \in SellerStatus : BeginStatus(w, p, s)
        \/ \E v \in {"VERIFIED", "REJECTED"} : BeginReview(w, p, v)
  \/ \E p \in Person : RemoveSeller(p)
  \/ SubmitOrgKyc
  \/ \E v \in {"VERIFIED", "REJECTED"} : ReviewOrgKyc(v)

SellerSpec == SellerInit /\ [][SellerNext]_sellerVars

--------------------------------------------------------------------------------

\* The kyc_status of a seller is that of the last submission, and NOT_REQUIRED before the
\* first, as long as no two handlers have worked on the seller at once: a review meanwhile, or
\* a suspension that saves the row it had read, may leave them apart.
SerialKycIsTheLast ==
  \A p \in Person :
    HasProfile(p) /\ ~crossed[p] /\ WorkingOn(p) = {} =>
      profile[p].kyc = IF submissions[p] = <<>> THEN "NOT_REQUIRED"
                       ELSE submissions[p][Len(submissions[p])]

\* "Invitation déjà traitée.": an invitation is answered once.
AnsweredOnce == \A i \in Invitation : Len(answers[i]) <= 1

SellerTypeOK ==
  /\ invited \in [Invitation -> {"none", "PENDING", "ACCEPTED", "DECLINED"}]
  /\ expired \in [Invitation -> BOOLEAN]
  /\ answers \in [Invitation -> Seq(Answer)]
  /\ isMember \in [Person -> BOOLEAN]
  /\ profile \in [Person -> ProfileRow \cup {NoProfile}]
  /\ submissions \in [Person -> Seq(KycStatus)]
  /\ orgKyc \in KycStatus /\ orgSubs \in Seq(KycStatus)
  /\ crossed \in [Person -> BOOLEAN]
================================================================================

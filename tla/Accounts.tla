-------------------------------- MODULE Accounts --------------------------------
(* The accounts of users, and the codes they are mailed to validate an        *)
(* account or to set a new password.                                          *)
(*                                                                            *)
(* A request reads the user when it authenticates or looks him up, and almost *)
(* every handler saves the whole row later; only deactivation writes its own  *)
(* column.  No constraint of the database keeps addresses apart: every        *)
(* handler that gives one looks first and saves afterwards.  A guest's is     *)
(* looked up as he spells it and saved as normalize_email spells it, with the *)
(* domain in small letters; all others are saved as they are spelled.  A code *)
(* is mailed before it is saved.                                              *)
EXTENDS Integers, FiniteSets, TLC

CONSTANTS
  MaxAccounts,   \* bound: accounts are numbered as they are created
  Address,       \* addresses, as they are spelled: an email or a phone number
  NormalOf,      \* what normalize_email makes of an address
  AccountWorker, \* web workers
  MaxCodes,      \* bound: codes that are mailed
  MaxAccCalls,   \* bound: calls of the handlers
  MaxExpiries    \* bound: the times that what is open expires

ASSUME AccountsAssumption ==
  /\ MaxAccounts \in Nat /\ MaxCodes \in Nat /\ MaxAccCalls \in Nat /\ "none" \notin Address
  /\ NormalOf \in [Address -> Address]

VARIABLES
  account,    \* account[a]: the User row, or NoAccount
  request,    \* the open rows of both tables of requests
  call,       \* call[w]: what a worker is doing, with what it has read
  epoch,      \* how often the expiry time (24 hours) has gone by
  codes,      \* codes drawn so far: the n-th is n
  mailed,     \* mailed[a][k]: the last code of kind k that was mailed to a (history)
  spent,      \* codes that were redeemed (history)
  aged,       \* <<a, k>> whose request has expired since it was created (history)
  clashed,    \* addresses two calls were about at once, a stale row put back, or a guest
              \* spelled in another way than they are kept (history)
  crossed,    \* accounts two calls were about at once, or one died on (history)
  accCalls

accountVars ==
  <<account, request, call, epoch, codes, mailed, spent, aged, clashed, crossed, accCalls>>

Account   == 1..MaxAccounts
Kind      == {"validation", "reset"}
NoAccount == [here |-> FALSE]
NoCall    == [pc |-> "free", of |-> 0, mail |-> "none"]

IsHere(a)   == account[a].here
\* User.objects: what has not been deactivated.
IsActive(a) == IsHere(a) /\ account[a].active
NextAccount == Cardinality({a \in Account : IsHere(a)}) + 1
Open(a, k)  == {q \in request : q.of = a /\ q.kind = k}

CountCall == accCalls < MaxAccCalls /\ accCalls' = accCalls + 1

About(a)    == {w \in AccountWorker : call[w].of = a}
Seeking(m)  == {w \in AccountWorker : call[w].mail = m}

\* A worker takes up a call about an account; others may be about it.
TakeUp(w, c) ==
  /\ call[w] = NoCall
  /\ call' = [call EXCEPT ![w] = c]
  /\ crossed' = IF c.of # 0 /\ About(c.of) # {} THEN crossed \cup {c.of} ELSE crossed
  /\ clashed' = IF c.mail \in Address /\ Seeking(c.mail) # {} THEN clashed \cup {c.mail}
                ELSE clashed

Stale(w) ==
  LET row == account[call[w].of]
  IN row.active # call[w].seen.active \/ row.mail # call[w].seen.mail

\* User.save: the whole row, as it was read but for what the handler sets.
SaveUser(w, row) ==
  /\ account' = [account EXCEPT ![call[w].of] = row]
  /\ clashed' = IF Stale(w) THEN clashed \cup {row.mail} ELSE clashed

Hang(w) == call' = [call EXCEPT ![w] = NoCall]

--------------------------------------------------------------------------------
(* Registration, address, profile, deactivation                               *)

\* (A faulty variant: an account that was not validated does not hold its address.)
TakenIfValidated(m) == \E a \in Account : IsActive(a) /\ account[a].mail = m /\ account[a].validated

\* UserSerializer.validate and get_or_create_anonymous_user: active accounts only.
Taken(m) == \E a \in Account : IsActive(a) /\ account[a].mail = m

\* UpdateUserPhoneOrEmailSerializer: deactivated ones too.
EverTaken(m) == \E a \in Account : IsHere(a) /\ account[a].mail = m

NewUser(m) == [here |-> TRUE, active |-> TRUE, mail |-> m, validated |-> FALSE, conf |-> 0]

\* UserSerializer
Register(w, m) ==
  /\ ~Taken(m) /\ CountCall
  /\ TakeUp(w, [pc |-> "register", of |-> 0, mail |-> m])
  /\ UNCHANGED <<account, request, epoch, codes, mailed, spent, aged>>

SaveRegistered(w) ==
  /\ call[w].pc = "register" /\ NextAccount \in Account
  /\ account' = [account EXCEPT ![NextAccount] = NewUser(call[w].mail)]
  /\ Hang(w)
  /\ UNCHANGED <<request, epoch, codes, mailed, spent, aged, clashed, crossed, accCalls>>

\* get_or_create_anonymous_user: he has no account under the address as he spells it.
RegisterGuest(w, m) ==
  /\ ~Taken(m) /\ CountCall
  /\ TakeUp(w, [pc |-> "guest", of |-> 0, mail |-> m])
  /\ UNCHANGED <<account, request, epoch, codes, mailed, spent, aged>>

\* create_user: the address that is saved was not looked up.  (Both callers are one transaction,
\* so that the second save of the row is not seen apart from the first.)
SaveGuest(w) ==
  /\ call[w].pc = "guest" /\ NextAccount \in Account
  /\ LET kept == NormalOf[call[w].mail] IN
     /\ account' = [account EXCEPT ![NextAccount] = NewUser(kept)]
     /\ clashed' = IF kept # call[w].mail THEN clashed \cup {kept} ELSE clashed
  /\ Hang(w)
  /\ UNCHANGED <<request, epoch, codes, mailed, spent, aged, crossed, accCalls>>

\* UpdateUserEmailOrPhoneView
ChangeAddress(w, a, m) ==
  /\ IsActive(a) /\ ~EverTaken(m) /\ CountCall
  /\ TakeUp(w, [pc |-> "save", of |-> a, mail |-> m, seen |-> account[a],
                row |-> [account[a] EXCEPT !.mail = m]])
  /\ UNCHANGED <<account, request, epoch, codes, mailed, spent, aged>>

\* The profile, the password, the profile image: the rest of the row is saved as it was read.
ChangeProfile(w, a) ==
  /\ IsActive(a) /\ CountCall
  /\ TakeUp(w, [pc |-> "save", of |-> a, mail |-> "none", seen |-> account[a],
                row |-> account[a]])
  /\ UNCHANGED <<account, request, epoch, codes, mailed, spent, aged>>

SaveChange(w) ==
  /\ call[w].pc = "save"
  /\ SaveUser(w, call[w].row)
  /\ Hang(w)
  /\ UNCHANGED <<request, epoch, codes, mailed, spent, aged, crossed, accCalls>>

\* DeactivateUserView: queryset.update of one column.
DeactivateUser(a) ==
  /\ IsActive(a) /\ CountCall
  /\ account' = [account EXCEPT ![a].active = FALSE]
  /\ crossed' = IF About(a) # {} THEN crossed \cup {a} ELSE crossed
  /\ UNCHANGED <<request, call, epoch, codes, mailed, spent, aged, clashed>>

--------------------------------------------------------------------------------
(* SendAccountValidationRequestView and SendPasswordResetRequestView          *)

IsOld(q) == q.born < epoch
Sending  == {w \in AccountWorker : call[w].pc \in {"mail", "conf", "request"}}

\* The expiry time goes by: what is open, or being sent again, is too old from now on.
Expire ==
  /\ epoch < MaxExpiries
  /\ epoch' = epoch + 1
  /\ aged' = aged \cup {<<q.of, q.kind>> : q \in request \cup {call[w].req : w \in Sending}}
  /\ UNCHANGED <<account, request, call, codes, mailed, spent, clashed, crossed, accCalls>>

\* A call for an unknown address or a validated account ends here.
ClearExpired(k) ==
  /\ request' = {q \in request : q.kind # k \/ ~IsOld(q)}
  /\ UNCHANGED <<account, call, epoch, codes, mailed, spent, aged, clashed, crossed, accCalls>>

\* What has expired of this kind is cleared, whoever's it is, before the user is looked up;
\* the first open request is taken again, or a new one is made.
SendCode(w, a, k) ==
  /\ IsActive(a) /\ CountCall
  /\ LET left == {q \in request : q.kind # k \/ ~IsOld(q)}
         mine == {q \in left : q.of = a /\ q.kind = k}
         new  == [id |-> 0, of |-> a, kind |-> k, code |-> 0, born |-> 0]
     IN /\ request' = left
        /\ \E q \in IF mine = {} THEN {new} ELSE mine :
             TakeUp(w, [pc |-> "mail", of |-> a, mail |-> "none", seen |-> account[a], req |-> q])
  /\ UNCHANGED <<account, epoch, codes, mailed, spent, aged>>

SendValidationCode(w, a) ==
  IsActive(a) /\ ~account[a].validated /\ SendCode(w, a, "validation")

SendPasswordReset(w, a) == SendCode(w, a, "reset")

\* send_verification_code and re_send_verification_code: the mail goes first.
MailCode(w) ==
  /\ call[w].pc = "mail" /\ codes < MaxCodes
  /\ LET q == call[w].req
         n == codes + 1
     IN /\ codes' = n
        /\ mailed' = [mailed EXCEPT ![q.of][q.kind] = n]
        /\ call' = [call EXCEPT
             ![w].pc = IF q.id = 0 /\ q.kind = "validation" THEN "conf" ELSE "request",
             ![w].req = IF q.id = 0 THEN [q EXCEPT !.code = n, !.id = n, !.born = epoch]
                      ELSE [q EXCEPT !.code = n]]
        /\ aged' = IF q.id = 0 THEN aged \ {<<q.of, q.kind>>} ELSE aged
  /\ UNCHANGED <<account, request, epoch, spent, clashed, crossed, accCalls>>

\* set_conf_num: only the first code of a request goes to the user's row.
SaveConfNum(w) ==
  /\ call[w].pc = "conf"
  /\ SaveUser(w, [call[w].seen EXCEPT !.conf = call[w].req.code])
  /\ call' = [call EXCEPT ![w].pc = "request"]
  /\ UNCHANGED <<request, epoch, codes, mailed, spent, aged, crossed, accCalls>>

\* (A faulty variant: the row is saved before it is given its new code.)
SavedWithoutCode(rows, q) == rows \cup (IF rows = {} THEN {q} ELSE {})

\* The whole row, by its key: one that was deleted meanwhile is there again.
SavedRequest(rows, q) == {q}

SaveRequest(w) ==
  /\ call[w].pc = "request"
  /\ LET same == {q \in request : q.id = call[w].req.id}
     IN request' = (request \ same) \cup SavedRequest(same, call[w].req)
  /\ Hang(w)
  /\ UNCHANGED <<account, epoch, codes, mailed, spent, aged, clashed, crossed, accCalls>>

--------------------------------------------------------------------------------
(* AccountValidationValidateCodeView and ResetPasswordValidateCodeView        *)

\* The request with this code; a password's must not have expired, a validation's may.
Redeem(w, q) ==
  /\ q \in request /\ CountCall
  /\ q.kind = "reset" => ~IsOld(q)
  /\ TakeUp(w, [pc |-> "redeem", of |-> q.of, mail |-> "none", req |-> q,
                seen |-> account[q.of],
                row |-> [account[q.of] EXCEPT !.validated = @ \/ q.kind = "validation"]])
  /\ UNCHANGED <<account, request, epoch, codes, mailed, spent, aged>>

\* PasswordCodeSerializer.validate deletes what it finds expired.
RefuseExpired(q) ==
  /\ q \in request /\ q.kind = "reset" /\ IsOld(q)
  /\ request' = request \ {q}
  /\ UNCHANGED <<account, call, epoch, codes, mailed, spent, aged, clashed, crossed, accCalls>>

\* No open request has the code, but the user's row does: it never expires.
RedeemConfNum(w, a) ==
  /\ IsActive(a) /\ account[a].conf # 0 /\ ~account[a].validated /\ CountCall
  /\ ~\E q \in Open(a, "validation") : q.code = account[a].conf
  /\ TakeUp(w, [pc |-> "save", of |-> a, mail |-> "none", seen |-> account[a],
                row |-> [account[a] EXCEPT !.validated = TRUE]])
  /\ UNCHANGED <<account, request, epoch, codes, mailed, spent, aged>>

RedeemSavesUser(w) ==
  /\ call[w].pc = "redeem"
  /\ SaveUser(w, call[w].row)
  /\ call' = [call EXCEPT ![w].pc = "close"]
  /\ UNCHANGED <<request, epoch, codes, mailed, spent, aged, crossed, accCalls>>

CloseRequest(w) ==
  /\ call[w].pc = "close"
  /\ request' = {q \in request : q.id # call[w].req.id}
  /\ spent' = spent \cup {call[w].req.code}
  /\ Hang(w)
  /\ UNCHANGED <<account, epoch, codes, mailed, aged, clashed, crossed, accCalls>>

\* A worker dies between two saves, or a mail or a save fails.
CallDies(w) ==
  /\ call[w] # NoCall
  /\ Hang(w)
  /\ crossed' = crossed \cup ({call[w].of} \cap Account)
  /\ UNCHANGED <<account, request, epoch, codes, mailed, spent, aged, clashed, accCalls>>

--------------------------------------------------------------------------------
AccountInit ==
  /\ account = [a \in Account |-> NoAccount]
  /\ request = {} /\ spent = {} /\ aged = {} /\ clashed = {} /\ crossed = {}
  /\ call = [w \in AccountWorker |-> NoCall]
  /\ codes = 0 /\ epoch = 0 /\ accCalls = 0
  /\ mailed = [a \in Account |-> [k \in Kind |-> 0]]

AccountNext ==
  \/ \E w \in AccountWorker :
       \/ SaveRegistered(w) \/ SaveGuest(w) \/ SaveChange(w) \/ MailCode(w) \/ SaveConfNum(w)
       \/ SaveRequest(w) \/ RedeemSavesUser(w) \/ CloseRequest(w) \/ CallDies(w)
       \/ \E m \in Address : Register(w, m) \/ RegisterGuest(w, m)
       \/ \E a \in Account : \/ ChangeProfile(w, a) \/ RedeemConfNum(w, a)
                             \/ \E m \in Address : ChangeAddress(w, a, m)
                             \/ SendValidationCode(w, a) \/ SendPasswordReset(w, a)
       \/ \E q \in request : Redeem(w, q)
  \/ \E a \in Account : DeactivateUser(a)
  \/ Expire \/ (\E k \in Kind : ClearExpired(k)) \/ \E q \in request : RefuseExpired(q)

AccountSpec == AccountInit /\ [][AccountNext]_accountVars

--------------------------------------------------------------------------------
(* Properties                                                                 *)

\* Two active accounts do not have the same address, although nothing but the handlers' own
\* look keeps them apart: it takes two calls about the address at once, a row that was read
\* before a deactivation or a change of address and saved after it, or a guest who spells the
\* address in another way than it is kept (who gets a new account each time).
SerialAddressIsUnique ==
  \A a, b \in Account :
    a # b /\ IsActive(a) /\ IsActive(b) /\ account[a].mail = account[b].mail =>
      account[a].mail \in clashed

\* The last code that was mailed is that of the open request, until it is used or expires, as
\* long as calls about the account came one after the other and none was cut short: sending
\* again, expiry and clearing by other users' calls notwithstanding.
SerialLastCodeWorks ==
  \A a \in Account \ crossed, k \in Kind :
    LET n == mailed[a][k] IN
    n # 0 /\ n \notin spent /\ <<a, k>> \notin aged /\ About(a) = {} =>
      \E q \in Open(a, k) : q.code = n /\ ~IsOld(q)

\* Both: an address leads to one account, and its last code to the request that it is for.
AccountsSound == SerialAddressIsUnique /\ SerialLastCodeWorks

AccountTypeOK ==
  /\ \A a \in Account : IsHere(a) => account[a].mail \in Address /\ account[a].conf \in 0..MaxCodes
  /\ \A q \in request : q.of \in Account /\ q.kind \in Kind /\ q.code \in 1..codes
  /\ \A w \in AccountWorker :
       call[w].pc \in {"free", "register", "guest", "save", "mail", "conf", "request", "redeem", "close"}
================================================================================

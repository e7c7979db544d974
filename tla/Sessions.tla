-------------------------------- MODULE Sessions --------------------------------
(* Signing in and out: refresh tokens, what is minted from them, and the      *)
(* devices that notifications go to.                                          *)
(*                                                                            *)
(* A token says whose it is and lives until it expires.  Only refresh tokens  *)
(* can be refused before that, by a row of the blacklist: an access token     *)
(* works as long as its account is active, whatever became of the session.    *)
(* A call checks its refresh token when it starts and blacklists it later;    *)
(* every refresh gives a new token with a new life.  A change of password, or *)
(* of role, touches no token.                                                 *)
EXTENDS Naturals, FiniteSets, FiniteSetsExt, TLC

CONSTANTS
  MaxClients,       \* bound: accounts, numbered in the order of their random keys
  Mailbox,          \* addresses
  Chip,             \* devices, each with a token of its own
  Registration,     \* registration ids a device may have besides "anonymous"
  SessionWorker,    \* web workers
  MaxMinted,        \* bound: refresh tokens
  MaxSessionCalls   \* bound: calls of the handlers

ASSUME SessionsAssumption ==
  /\ MaxClients \in Nat /\ MaxMinted \in Nat /\ MaxSessionCalls \in Nat
  /\ "anonymous" \notin Registration

VARIABLES
  client,     \* client[u]: the User row, or NoClient
  refresh,    \* refresh tokens that have not expired
  access,     \* access tokens that have not expired
  blacklist,  \* refresh tokens that are refused
  minted,     \* refresh tokens minted so far: the n-th is n
  device,     \* MobileDevice rows
  serving,    \* serving[w]: the call a worker is in, with what it has read
  signedOut,  \* sessions one of whose tokens was signed out (history)
  jostled, \* sessions two calls were about at once (history)
  letGo,      \* <<registration, user>> that were signed out (history)
  sessionCalls

sessionVars == <<client, refresh, access, blacklist, minted, device, serving, signedOut, jostled,
                 letGo, sessionCalls>>

Client    == 1..MaxClients
NoClient  == [mail |-> "none", active |-> FALSE, admin |-> FALSE]
NoServing == [pc |-> "rest", token |-> 0]

IsKnown(u)  == client[u] # NoClient
Enabled(u)  == client[u].active
Nobody      == 0

CountSession == sessionCalls < MaxSessionCalls /\ sessionCalls' = sessionCalls + 1

\* A session is known by its first token.
Live(s) == {t \in refresh : t.session = s /\ t.id \notin blacklist}
Using(s) == {w \in SessionWorker : serving[w].pc # "rest" /\ serving[w].token.session = s}

Serve(w, t, call) ==
  /\ serving[w] = NoServing
  /\ serving' = [serving EXCEPT ![w] = call]
  /\ jostled' = IF Using(t.session) # {} THEN jostled \cup {t.session} ELSE jostled

Answer(w) == serving' = [serving EXCEPT ![w] = NoServing]

\* A pair of tokens for u, in a session of its own or in the one that is refreshed.
Mint(u, s) ==
  /\ minted < MaxMinted /\ minted' = minted + 1
  /\ refresh' = refresh \cup {[id |-> minted + 1, of |-> u, session |-> s]}
  /\ access' = access \cup {u}

--------------------------------------------------------------------------------
(* Accounts: how addresses are looked for and rows saved is modelled in module *)
(* Accounts, where two calls at once may give one address to two active        *)
(* accounts; so here any address may be given.                                 *)

\* RegisterView.post and get_or_create_anonymous_user
NewClient(u, m) ==
  /\ ~IsKnown(u)
  /\ client' = [client EXCEPT ![u] = [mail |-> m, active |-> TRUE, admin |-> FALSE]]

\* UpdateUserEmailOrPhoneView and the other views that save a whole row, read when the account
\* was active: it is again, if it was deactivated meanwhile.
SaveClient(u, m) ==
  /\ IsKnown(u) /\ CountSession
  /\ client' = [client EXCEPT ![u].mail = m, ![u].active = TRUE]
  /\ UNCHANGED <<refresh, access, blacklist, minted, device, serving, signedOut, jostled, letGo>>

\* Who registers is signed in at once.
SignUp(u, m) ==
  /\ NewClient(u, m) /\ CountSession
  /\ Mint(u, minted + 1)
  /\ UNCHANGED <<blacklist, device, serving, signedOut, jostled, letGo>>

\* PseudoAnonymousRegisterView.post: a guest is not.
SignUpGuest(u, m) ==
  /\ NewClient(u, m) /\ CountSession
  /\ UNCHANGED <<refresh, access, blacklist, minted, device, serving, signedOut, jostled, letGo>>

\* UserViewSet.set_role, and DeactivateUserView.delete: one column each.  The owner does the
\* latter with a token of his own, or an administrator for him.
SetRole(u) ==
  /\ IsKnown(u) /\ Enabled(u) /\ CountSession
  /\ client' = [client EXCEPT ![u].admin = ~@]
  /\ UNCHANGED <<refresh, access, blacklist, minted, device, serving, signedOut, jostled, letGo>>

Disable(u) ==
  /\ IsKnown(u) /\ Enabled(u) /\ CountSession
  /\ client' = [client EXCEPT ![u].active = FALSE]
  /\ UNCHANGED <<refresh, access, blacklist, minted, device, serving, signedOut, jostled, letGo>>

--------------------------------------------------------------------------------
(* Signing in                                                                 *)

\* authenticate: the account of this address with the smallest key, deactivated or not.
FoundBy(m) ==
  LET them == {u \in Client : IsKnown(u) /\ client[u].mail = m}
  IN IF them = {} THEN Nobody ELSE Min(them)

\* u gives his address and his password.  A deactivated account of the same address that
\* comes first is in his way.
MaySignIn(u, asAdmin) ==
  /\ IsKnown(u) /\ FoundBy(client[u].mail) = u /\ Enabled(u)
  /\ asAdmin => client[u].admin

SignIn(u, asAdmin) ==
  /\ MaySignIn(u, asAdmin) /\ CountSession
  /\ Mint(u, minted + 1)
  /\ UNCHANGED <<client, blacklist, device, serving, signedOut, jostled, letGo>>

--------------------------------------------------------------------------------
(* TokenRefreshSerializer.validate                                            *)

\* The token's own check, then the user: who is deactivated gets an error, and the token stays.
BeginRefresh(w, t) ==
  /\ t \in refresh /\ t.id \notin blacklist /\ CountSession
  /\ Enabled(t.of)
  /\ Serve(w, t, [pc |-> "rotate", token |-> t])
  /\ UNCHANGED <<client, refresh, access, blacklist, minted, device, signedOut, letGo>>

\* (A faulty variant: as before BLACKLIST_AFTER_ROTATION, the old token goes on working.)
RotateOnly(w) ==
  /\ serving[w].pc = "rotate"
  /\ Mint(serving[w].token.of, serving[w].token.session)
  /\ Answer(w)
  /\ UNCHANGED <<client, blacklist, device, signedOut, jostled, letGo, sessionCalls>>

\* The old token goes to the blacklist, if it is not there; a new one takes its place.
Rotate(w) ==
  /\ serving[w].pc = "rotate"
  /\ blacklist' = blacklist \cup {serving[w].token.id}
  /\ Mint(serving[w].token.of, serving[w].token.session)
  /\ Answer(w)
  /\ UNCHANGED <<client, device, signedOut, jostled, letGo, sessionCalls>>

\* The new token never reaches who asked for it: the worker dies after its one write.
RotateInVain(w) ==
  /\ serving[w].pc = "rotate"
  /\ blacklist' = blacklist \cup {serving[w].token.id}
  /\ Answer(w)
  /\ UNCHANGED <<client, refresh, access, minted, device, signedOut, jostled, letGo,
                 sessionCalls>>

--------------------------------------------------------------------------------
(* UserLogoutSerializer.save                                                  *)

\* Any access token opens the view; the session is that of the refresh token in the body.
BeginSignOut(w, u, t, r) ==
  /\ u \in access /\ Enabled(u)
  /\ t \in refresh /\ t.id \notin blacklist /\ CountSession
  /\ Serve(w, t, [pc |-> "blacklist", token |-> t, registration |-> r])
  /\ UNCHANGED <<client, refresh, access, blacklist, minted, device, signedOut, letGo>>

SaveBlacklist(w) ==
  /\ serving[w].pc = "blacklist"
  /\ blacklist' = blacklist \cup {serving[w].token.id}
  /\ signedOut' = signedOut \cup {serving[w].token.session}
  /\ serving' = [serving EXCEPT ![w].pc = "device"]
  /\ UNCHANGED <<client, refresh, access, minted, device, jostled, letGo, sessionCalls>>

RowsOf(r, u) == {d \in device : d.registration = r /\ d.owner = u}

\* (A faulty variant: the row goes only if no one else has the registration.)
RemovedIfAlone(r, u) ==
  IF \A d \in device : d.registration = r => d.owner = u THEN RowsOf(r, u) ELSE {}

\* The one row with this registration that is the user's; of several, none.
Removed(r, u) == IF Cardinality(RowsOf(r, u)) = 1 THEN RowsOf(r, u) ELSE {}

DropDevice(w) ==
  /\ serving[w].pc = "device"
  /\ LET r == serving[w].registration
         u == serving[w].token.of
     IN /\ device' = device \ Removed(r, u)
        /\ letGo' = letGo \cup {<<r, u>>}
  /\ Answer(w)
  /\ UNCHANGED <<client, refresh, access, blacklist, minted, signedOut, jostled, sessionCalls>>

--------------------------------------------------------------------------------
(* MobileDeviceView.post: the owner is whoever the body says, or nobody       *)

Claim(r, u) == letGo' = letGo \ {<<r, u>>}

\* A row of this device that is still anonymous gets the registration, and keeps its owner.
AdoptDevice(c, r) ==
  LET rows == {d \in device : d.chip = c}
  IN /\ Cardinality(rows) = 1 /\ CountSession
     /\ \A d \in rows :
          /\ d.registration = "anonymous"
          /\ device' = {[d EXCEPT !.registration = r]}
                        \cup (device \ rows)
          /\ Claim(r, d.owner)
     /\ UNCHANGED <<client, refresh, access, blacklist, minted, serving, signedOut, jostled>>

\* Otherwise a new row, unless there is one with both.
AddDevice(c, r, u) ==
  LET rows == {d \in device : d.chip = c}
  IN /\ ~\E d \in rows : d.registration = r
     /\ Cardinality(rows) # 1 \/ \A d \in rows : d.registration # "anonymous"
     /\ u # Nobody => Enabled(u)
     /\ CountSession
     /\ device' = device \cup {[chip |-> c, registration |-> r, owner |-> u]}
     /\ Claim(r, u)
     /\ UNCHANGED <<client, refresh, access, blacklist, minted, serving, signedOut, jostled>>

ExpireToken(t) ==
  /\ t \in refresh
  /\ refresh' = refresh \ {t}
  /\ UNCHANGED <<client, access, blacklist, minted, device, serving, signedOut, jostled, letGo,
                 sessionCalls>>

ExpireAccess(u) ==
  /\ u \in access
  /\ access' = access \ {u}
  /\ UNCHANGED <<client, refresh, blacklist, minted, device, serving, signedOut, jostled, letGo,
                 sessionCalls>>

--------------------------------------------------------------------------------
SessionInit ==
  /\ client = [u \in Client |-> NoClient]
  /\ refresh = {} /\ access = {} /\ blacklist = {} /\ minted = 0
  /\ device = {} /\ signedOut = {} /\ jostled = {} /\ letGo = {}
  /\ serving = [w \in SessionWorker |-> NoServing] /\ sessionCalls = 0

SessionNext ==
  \/ \E u \in Client :
       \/ SetRole(u) \/ Disable(u) \/ ExpireAccess(u)
       \/ \E m \in Mailbox : SignUp(u, m) \/ SignUpGuest(u, m) \/ SaveClient(u, m)
       \/ \E asAdmin \in BOOLEAN : SignIn(u, asAdmin)
  \/ \E w \in SessionWorker :
       \/ Rotate(w) \/ RotateInVain(w) \/ SaveBlacklist(w) \/ DropDevice(w)
       \/ \E t \in refresh : \/ BeginRefresh(w, t)
                             \/ \E u \in Client, r \in Registration : BeginSignOut(w, u, t, r)
  \/ \E t \in refresh : ExpireToken(t)
  \/ \E c \in Chip : \/ \E r \in Registration : AdoptDevice(c, r)
                     \/ \E r \in Registration \cup {"anonymous"}, u \in Client \cup {Nobody} :
                          AddDevice(c, r, u)

SessionSpec == SessionInit /\ [][SessionNext]_sessionVars

--------------------------------------------------------------------------------
(* Properties                                                                 *)

\* However often it is refreshed, a session has one token that works; and none once it has
\* been signed out, as long as its calls came one after the other.  (A refresh that was
\* checked before another one, or before the logout, still mints a token.)
SerialOneTokenPerSession ==
  \A s \in 1..minted \ jostled :
    /\ Cardinality(Live(s)) <= 1
    /\ s \in signedOut => Live(s) = {}

\* A device that was signed out is told nothing more of who used it: no row has both, unless
\* two devices had the same registration and the same user.
SignedOutDeviceIsQuiet ==
  \A p \in letGo : Cardinality(RowsOf(p[1], p[2])) # 1

\* Both: a session ends when it is signed out, and so do the messages to its device.
SessionsSound == SerialOneTokenPerSession /\ SignedOutDeviceIsQuiet

SessionTypeOK ==
  /\ \A u \in Client : IsKnown(u) => client[u].mail \in Mailbox
  /\ \A t \in refresh : t.id \in 1..minted /\ t.of \in Client /\ t.session \in 1..minted
  /\ blacklist \subseteq 1..minted /\ access \subseteq Client
  /\ \A d \in device : d.chip \in Chip /\ d.owner \in Client \cup {Nobody}
  /\ \A w \in SessionWorker : serving[w].pc \in {"rest", "rotate", "blacklist", "device"}
================================================================================

------------------------------ MODULE Sessions ------------------------------
(***************************************************************************)
(* Signing in with Genius and linking a Genius account to a session: one   *)
(* browser whose tabs share their cookies, the handlers of the auth        *)
(* service, and the tokens that the API service keeps for users.  A tab's  *)
(* request carries the cookies of the moment it is sent; its answer        *)
(* changes the cookies of the moment it arrives.                           *)
(***************************************************************************)
CONSTANTS Flow,       \* visits to Genius, each in a tab of its own
          Account,    \* Genius accounts
          NoFlow, Nobody,
          Unnamed     \* SessionUserId of every session without a name

CONSTANT PkceEnabled  \* pkce_enabled_

User == Account \cup {Unnamed}

SessionsConstantsOK ==
  /\ NoFlow \notin Flow /\ Nobody \notin User /\ Unnamed \notin Account /\ PkceEnabled \in BOOLEAN

VARIABLES session,    \* six_feat_session: its user, or Nobody when it is absent or not readable
          state,      \* six_feat_oauth_state: the flow that it was made for
          verifier,   \* six_feat_pkce_verifier, likewise
          flows,      \* [Flow -> the flow]
          tokens      \* user_provider_tokens: [User -> account of the Genius token]

sessionsVars == <<session, state, verifier, flows, tokens>>

(* kind: what the state says, "link:" or not; starter: the user who began  *)
(* a link; approver: the account that gave its consent; user and sent: the *)
(* cookies of the callback's request.  History: storedFor, the row that    *)
(* the link wrote; overtaken, whether the answer to a login came in        *)
(* between the request that began the link and the answer to it.           *)
NewFlow == [at |-> "new", kind |-> "login", starter |-> Nobody, approver |-> Nobody,
            user |-> Nobody, sent |-> NoFlow, storedFor |-> Nobody, overtaken |-> FALSE]

SessionsInitWith(user) ==
  /\ session = user /\ state = NoFlow /\ verifier = NoFlow
  /\ flows = [f \in Flow |-> NewFlow]
  /\ tokens = [u \in User |-> Nobody]

SessionsInit == \E user \in Account \cup {Nobody} : SessionsInitWith(user)

Put(f, field, value) == flows' = [flows EXCEPT ![f][field] = value]
Goes(f, to) == Put(f, "at", to)

(* A mutant: a verifier that is still there is used again. *)
StartLoginOnce(f) ==
  /\ flows[f].at = "new" /\ Goes(f, "approving")
  /\ state' = f
  /\ verifier' = IF PkceEnabled /\ verifier = NoFlow THEN f ELSE verifier
  /\ UNCHANGED <<session, tokens>>

(* LoginHandler: one answer sets both cookies. *)
StartLogin(f) ==
  /\ flows[f].at = "new" /\ Goes(f, "approving")
  /\ state' = f
  /\ verifier' = IF PkceEnabled THEN f ELSE verifier
  /\ UNCHANGED <<session, tokens>>

(* SettingsGeniusLinkStartHandler: the session is that of the request.     *)
StartLink(f) ==
  /\ flows[f].at = "new" /\ session # Nobody
  /\ flows' = [flows EXCEPT ![f] = [@ EXCEPT !.at = "starting", !.kind = "link", !.starter = session]]
  /\ UNCHANGED <<session, state, verifier, tokens>>

LinkStarted(f) ==
  /\ flows[f].at = "starting" /\ Goes(f, "approving")
  /\ state' = f
  /\ UNCHANGED <<session, verifier, tokens>>

(* Genius asks the user, who may be signed in there with any account.      *)
Approve(f) ==
  /\ flows[f].at = "approving"
  /\ \E a \in Account :
       flows' = [flows EXCEPT ![f] = [@ EXCEPT !.at = "approved", !.approver = a]]
  /\ UNCHANGED <<session, state, verifier, tokens>>

(* CallbackHandler, with a code: the request takes the cookies along.  One *)
(* with another state ends at once; so does one with an error or without a *)
(* code, in which case the cookies stay.                                   *)
Callback(f) ==
  /\ flows[f].at = "approved"
  /\ IF state = f
     THEN flows' = [flows EXCEPT ![f] = [@ EXCEPT !.at = "exchanging", !.user = session, !.sent = verifier]]
     ELSE Goes(f, "told bad state")
  /\ UNCHANGED <<session, state, verifier, tokens>>

Denied(f) ==
  /\ flows[f].at = "approving" /\ Goes(f, "told denied")
  /\ UNCHANGED <<session, state, verifier, tokens>>

(* What Genius accepts: the verifier of the challenge that it was given.   *)
VerifierFits(f) == flows[f].kind = "login" /\ PkceEnabled => flows[f].sent = f

(* ExchangeCode fails.  The cookie with the verifier is cleared for the    *)
(* callback's own path only, where there is none.                          *)
ExchangeFails(f) ==
  /\ flows[f].at = "exchanging" /\ Goes(f, "told error")
  /\ UNCHANGED <<session, state, verifier, tokens>>

ExchangeCode(f) ==
  /\ flows[f].at = "exchanging" /\ VerifierFits(f) /\ Goes(f, "exchanged")
  /\ UNCHANGED <<session, state, verifier, tokens>>

(* FetchGeniusName may fail: the session is then one without a name.       *)
Names(f) == {flows[f].approver, Unnamed}

(* A mutant: a login leaves the state cookie as it is. *)
StateIsKept == state

StateAfterLogin == NoFlow

(* IssueSessionCookies, when the answer arrives. *)
LoggedIn(f) ==
  /\ flows[f].at = "exchanged" /\ flows[f].kind = "login"
  /\ session' \in Names(f)
  /\ state' = StateAfterLogin
  /\ verifier' = IF flows[f].sent # NoFlow THEN NoFlow ELSE verifier
  /\ flows' = [g \in Flow |->
                 IF g = f THEN [flows[g] EXCEPT !.at = "told signed in"]
                 ELSE IF flows[g].at = "starting" THEN [flows[g] EXCEPT !.overtaken = TRUE] ELSE flows[g]]
  /\ UNCHANGED tokens

(* RelayGeniusLink to the user of the session that the request carried;    *)
(* the relay may fail, and its answer may be lost after the row was        *)
(* written.                                                                *)
StoreToken(f) ==
  /\ flows[f].at = "exchanged" /\ flows[f].kind = "link" /\ flows[f].user # Nobody
  /\ tokens' = [tokens EXCEPT ![flows[f].user] = flows[f].approver]
  /\ \E told \in {"told connected", "told error"} :
       flows' = [flows EXCEPT ![f] = [@ EXCEPT !.at = told, !.storedFor = flows[f].user]]
  /\ UNCHANGED <<session, state, verifier>>

LinkFails(f) ==
  /\ flows[f].at = "exchanged" /\ flows[f].kind = "link" /\ Goes(f, "told error")
  /\ UNCHANGED <<session, state, verifier, tokens>>

(* SettingsGeniusConnectHandler: a token typed in. *)
Connect(a) ==
  /\ session # Nobody /\ tokens' = [tokens EXCEPT ![session] = a]
  /\ UNCHANGED <<session, state, verifier, flows>>

(* SettingsDisconnectHandler; without a row it answers not_connected.      *)
Disconnect ==
  /\ session # Nobody /\ tokens' = [tokens EXCEPT ![session] = Nobody]
  /\ UNCHANGED <<session, state, verifier, flows>>

(* LogoutHandler, with the CSRF token of the session; Decrypt after the    *)
(* time of the session, or with another APP_SECRET.                        *)
Logout ==
  /\ session # Nobody /\ session' = Nobody
  /\ UNCHANGED <<state, verifier, flows, tokens>>

(* kOAuthFlowCookieTtl: either cookie may go first. *)
CookieLapses ==
  /\ \/ state' = NoFlow /\ UNCHANGED verifier
     \/ verifier' = NoFlow /\ UNCHANGED state
  /\ UNCHANGED <<session, flows, tokens>>

Step(f) ==
  \/ StartLogin(f) \/ StartLink(f) \/ LinkStarted(f) \/ Approve(f) \/ Denied(f) \/ Callback(f)
  \/ ExchangeFails(f) \/ ExchangeCode(f) \/ LoggedIn(f) \/ StoreToken(f) \/ LinkFails(f)

SessionsNext ==
  \/ \E f \in Flow : Step(f)
  \/ \E a \in Account : Connect(a)
  \/ Disconnect \/ Logout \/ CookieLapses

SessionsSpec == SessionsInit /\ [][SessionsNext]_sessionsVars

-----------------------------------------------------------------------------
At == {"new", "starting", "approving", "approved", "exchanging", "exchanged", "told bad state",
       "told denied", "told error", "told signed in", "told connected"}

FlowType ==
  [at : At, kind : {"login", "link"}, starter : User \cup {Nobody}, approver : Account \cup {Nobody},
   user : User \cup {Nobody}, sent : Flow \cup {NoFlow}, storedFor : User \cup {Nobody},
   overtaken : BOOLEAN]

SessionsTypeOK ==
  /\ SessionsConstantsOK
  /\ session \in User \cup {Nobody}
  /\ state \in Flow \cup {NoFlow} /\ verifier \in Flow \cup {NoFlow}
  /\ flows \in [Flow -> FlowType]
  /\ tokens \in [User -> Account \cup {Nobody}]

(* Tabs do not mix up their logins: a login whose callback passes the check *)
(* of its state sends the verifier of its own challenge or none, however    *)
(* the answers of other tabs, links and lapsing cookies came in between.    *)
LoginsCarryTheirVerifier ==
  \A f \in Flow : flows[f].kind = "login" => flows[f].sent \in {f, NoFlow}

(* The Genius token of a link goes to the user who began the link, and not  *)
(* to whom the browser belongs when Genius sends it back -- unless a login  *)
(* was answered while the request that began the link was under way.        *)
LinkStaysWithItsUser ==
  \A f \in Flow : flows[f].storedFor \in {Nobody, flows[f].starter} \/ flows[f].overtaken

=============================================================================

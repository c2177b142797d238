---------------------------- MODULE AccessProofs ----------------------------
(***************************************************************************)
(* Proofs about Sessions, ApiKeys and SessionCookie.  The tabs of a        *)
(* browser share three cookies, and still no login sends the verifier of   *)
(* another and no link gives its token to another user.  Requests with an  *)
(* Idempotency-Key look it up, run and store in three steps, and a repeat  *)
(* runs once for each time that left room for it.  And a session cookie    *)
(* reads back as it was minted, whatever bytes the name and the token are  *)
(* made of, although the code that writes and reads it is written by hand. *)
(***************************************************************************)
EXTENDS Sessions, ApiKeys, SessionCookie, FiniteSetTheorems, SequenceTheorems, WellFoundedInduction, TLAPS

-----------------------------------------------------------------------------
(* What a step does to one flow, field by field.                           *)

(* Only the flow of the step changes.                                      *)
LEMMA OneChanges ==
  ASSUME flows \in [Flow -> FlowType], NEW f \in Flow, NEW new \in FlowType,
         flows' = [flows EXCEPT ![f] = new]
  PROVE  /\ flows' \in [Flow -> FlowType] /\ flows'[f] = new
         /\ \A g \in Flow : g # f => flows'[g] = flows[g]
<1> HIDE DEF FlowType
<1> QED
  OBVIOUS

(* A flow that goes on keeps everything but its place.                     *)
LEMMA GoingOn ==
  ASSUME flows \in [Flow -> FlowType], NEW f \in Flow, NEW to \in At, Goes(f, to)
  PROVE  /\ flows' \in [Flow -> FlowType]
         /\ flows'[f].at = to
         /\ \A g \in Flow : g # f => flows'[g] = flows[g]
         /\ flows'[f].kind = flows[f].kind /\ flows'[f].starter = flows[f].starter
         /\ flows'[f].user = flows[f].user /\ flows'[f].sent = flows[f].sent
         /\ flows'[f].storedFor = flows[f].storedFor
         /\ flows'[f].overtaken = flows[f].overtaken
<1>1. flows' = [flows EXCEPT ![f] = [flows[f] EXCEPT !.at = to]]
  BY DEF Goes, Put
<1>2. flows[f] \in FlowType
  OBVIOUS
<1>3. [flows[f] EXCEPT !.at = to] \in FlowType
  BY <1>2 DEF FlowType
<1>4. /\ flows' \in [Flow -> FlowType] /\ flows'[f] = [flows[f] EXCEPT !.at = to]
      /\ \A g \in Flow : g # f => flows'[g] = flows[g]
  BY <1>1, <1>3, OneChanges
<1> QED
  BY <1>2, <1>4 DEF FlowType

(* A link begins with the user of the session.                             *)
LEMMA Linking ==
  ASSUME SessionsTypeOK, NEW f \in Flow, StartLink(f)
  PROVE  /\ flows' \in [Flow -> FlowType]
         /\ flows'[f].at = "starting" /\ flows'[f].kind = "link" /\ flows'[f].starter = session
         /\ flows'[f].sent = flows[f].sent /\ flows'[f].storedFor = flows[f].storedFor
         /\ \A g \in Flow : g # f => flows'[g] = flows[g]
<1> DEFINE new == [flows[f] EXCEPT !.at = "starting", !.kind = "link", !.starter = session]
<1>1. flows[f] \in FlowType /\ flows' = [flows EXCEPT ![f] = new]
  BY DEF SessionsTypeOK, StartLink
<1>2. new \in FlowType
  BY <1>1 DEF SessionsTypeOK, FlowType, At
<1>3. flows' \in [Flow -> FlowType] /\ flows'[f] = new /\ \A g \in Flow : g # f => flows'[g] = flows[g]
  <2> HIDE DEF new
  <2> QED
    BY <1>1, <1>2, OneChanges DEF SessionsTypeOK
<1> QED
  BY <1>1, <1>3 DEF FlowType

(* A callback takes the cookies along if the state is its own.             *)
LEMMA CallingBack ==
  ASSUME SessionsTypeOK, NEW f \in Flow, Callback(f)
  PROVE  /\ flows' \in [Flow -> FlowType]
         /\ \A g \in Flow : g # f => flows'[g] = flows[g]
         /\ flows'[f].kind = flows[f].kind /\ flows'[f].starter = flows[f].starter
         /\ flows'[f].storedFor = flows[f].storedFor /\ flows'[f].overtaken = flows[f].overtaken
         /\ \/ /\ state = f
               /\ flows'[f].at = "exchanging" /\ flows'[f].user = session /\ flows'[f].sent = verifier
            \/ /\ flows'[f].at = "told bad state"
               /\ flows'[f].user = flows[f].user /\ flows'[f].sent = flows[f].sent
<1>1. CASE state = f
  <2> DEFINE new == [flows[f] EXCEPT !.at = "exchanging", !.user = session, !.sent = verifier]
  <2>1. flows[f] \in FlowType /\ flows' = [flows EXCEPT ![f] = new]
    BY <1>1 DEF SessionsTypeOK, Callback
  <2>2. new \in FlowType
    BY <2>1 DEF SessionsTypeOK, FlowType, At
  <2>3. flows' \in [Flow -> FlowType] /\ flows'[f] = new /\ \A g \in Flow : g # f => flows'[g] = flows[g]
    <3> HIDE DEF new
    <3> QED
      BY <2>1, <2>2, OneChanges DEF SessionsTypeOK
  <2> QED
    BY <1>1, <2>1, <2>3 DEF FlowType
<1>2. CASE state # f
  <2>1. Goes(f, "told bad state") /\ "told bad state" \in At /\ flows \in [Flow -> FlowType]
    BY <1>2 DEF Callback, At, SessionsTypeOK
  <2> QED
    BY <2>1, GoingOn
<1> QED
  BY <1>1, <1>2

(* Genius's consent is the only other thing that approval changes.         *)
LEMMA Approving ==
  ASSUME SessionsTypeOK, NEW f \in Flow, Approve(f)
  PROVE  /\ flows' \in [Flow -> FlowType]
         /\ flows'[f].at = "approved"
         /\ \A g \in Flow : g # f => flows'[g] = flows[g]
         /\ flows'[f].kind = flows[f].kind /\ flows'[f].starter = flows[f].starter
         /\ flows'[f].user = flows[f].user /\ flows'[f].sent = flows[f].sent
         /\ flows'[f].storedFor = flows[f].storedFor
         /\ flows'[f].overtaken = flows[f].overtaken
<1>1. PICK a \in Account :
        flows' = [flows EXCEPT ![f] = [flows[f] EXCEPT !.at = "approved", !.approver = a]]
  BY DEF Approve
<1> DEFINE new == [flows[f] EXCEPT !.at = "approved", !.approver = a]
<1>2. flows[f] \in FlowType /\ new \in FlowType
  <2>1. flows[f] \in FlowType
    BY DEF SessionsTypeOK
  <2> QED
    BY <2>1 DEF FlowType, At
<1>3. flows' \in [Flow -> FlowType] /\ flows'[f] = new /\ \A g \in Flow : g # f => flows'[g] = flows[g]
  <2>1. flows' = [flows EXCEPT ![f] = new]
    BY <1>1
  <2> HIDE DEF new
  <2> QED
    BY <2>1, <1>2, OneChanges DEF SessionsTypeOK
<1> QED
  BY <1>2, <1>3 DEF FlowType

(* A token is stored for the user of the callback's request.               *)
LEMMA Storing ==
  ASSUME SessionsTypeOK, NEW f \in Flow, StoreToken(f)
  PROVE  /\ flows' \in [Flow -> FlowType]
         /\ flows'[f].at \in {"told connected", "told error"}
         /\ flows'[f].storedFor = flows[f].user
         /\ \A g \in Flow : g # f => flows'[g] = flows[g]
         /\ flows'[f].kind = flows[f].kind /\ flows'[f].starter = flows[f].starter
         /\ flows'[f].user = flows[f].user /\ flows'[f].sent = flows[f].sent
         /\ flows'[f].overtaken = flows[f].overtaken
<1>1. PICK told \in {"told connected", "told error"} :
        flows' = [flows EXCEPT ![f] = [flows[f] EXCEPT !.at = told, !.storedFor = flows[f].user]]
  BY DEF StoreToken
<1> DEFINE new == [flows[f] EXCEPT !.at = told, !.storedFor = flows[f].user]
<1>2. flows[f] \in FlowType /\ new \in FlowType
  <2>1. flows[f] \in FlowType
    BY DEF SessionsTypeOK
  <2> QED
    BY <2>1 DEF FlowType, At
<1>3. flows' \in [Flow -> FlowType] /\ flows'[f] = new /\ \A g \in Flow : g # f => flows'[g] = flows[g]
  <2>1. flows' = [flows EXCEPT ![f] = new]
    BY <1>1
  <2> HIDE DEF new
  <2> QED
    BY <2>1, <1>2, OneChanges DEF SessionsTypeOK
<1> QED
  BY <1>2, <1>3 DEF FlowType

(* A login overtakes the links whose beginning is not answered yet, and    *)
(* leaves no state behind.                                                 *)
LEMMA LoggingIn ==
  ASSUME SessionsTypeOK, NEW f \in Flow, LoggedIn(f)
  PROVE  /\ flows' \in [Flow -> FlowType]
         /\ session' \in User \cup {Nobody} /\ state' = NoFlow /\ verifier' \in {verifier, NoFlow}
         /\ \A g \in Flow :
              /\ flows'[g].at = "starting" => flows[g].at = "starting" /\ flows'[g].overtaken = TRUE
              /\ flows'[g].at # "told signed in" => flows'[g].at = flows[g].at
              /\ flows'[g].overtaken \in {flows[g].overtaken, TRUE}
              /\ flows'[g].kind = flows[g].kind /\ flows'[g].starter = flows[g].starter
              /\ flows'[g].user = flows[g].user /\ flows'[g].sent = flows[g].sent
              /\ flows'[g].storedFor = flows[g].storedFor
<1> DEFINE new(g) == IF g = f THEN [flows[g] EXCEPT !.at = "told signed in"]
                     ELSE IF flows[g].at = "starting" THEN [flows[g] EXCEPT !.overtaken = TRUE]
                     ELSE flows[g]
<1>1. flows' = [g \in Flow |-> new(g)]
  BY DEF LoggedIn
<1>2. ASSUME NEW g \in Flow
      PROVE  /\ flows[g] \in FlowType /\ new(g) \in FlowType
             /\ new(g).at = "starting" => flows[g].at = "starting" /\ new(g).overtaken = TRUE
             /\ new(g).at # "told signed in" => new(g).at = flows[g].at
             /\ new(g).overtaken \in {flows[g].overtaken, TRUE}
             /\ new(g).kind = flows[g].kind /\ new(g).starter = flows[g].starter
             /\ new(g).user = flows[g].user /\ new(g).sent = flows[g].sent
             /\ new(g).storedFor = flows[g].storedFor
  <2>1. flows[g] \in FlowType
    BY DEF SessionsTypeOK
  <2>2. CASE g = f
    <3>1. new(g) = [flows[g] EXCEPT !.at = "told signed in"]
      BY <2>2
    <3> HIDE DEF new
    <3> QED
      BY <2>1, <3>1 DEF FlowType, At
  <2>3. CASE g # f /\ flows[g].at = "starting"
    BY <2>1, <2>3 DEF FlowType, At
  <2>4. CASE g # f /\ flows[g].at # "starting"
    BY <2>1, <2>4
  <2> QED
    BY <2>2, <2>3, <2>4
<1>3. session' \in User \cup {Nobody} /\ state' = NoFlow /\ verifier' \in {verifier, NoFlow}
  <2>1. flows[f].approver \in Account \cup {Nobody} /\ session' \in {flows[f].approver, Unnamed}
    BY DEF SessionsTypeOK, FlowType, LoggedIn, Names
  <2> QED
    BY <2>1 DEF LoggedIn, StateAfterLogin, User
<1> HIDE DEF new
<1>4. flows' \in [Flow -> FlowType] /\ \A g \in Flow : flows'[g] = new(g)
  BY <1>1, <1>2
<1> QED
  BY <1>2, <1>3, <1>4, ZenonT(40)
-----------------------------------------------------------------------------
(* Types, with the assumption on the constants, which no step can change.  *)

LEMMA InitIsTyped == SessionsConstantsOK /\ SessionsInit => SessionsTypeOK
  BY DEF SessionsConstantsOK, SessionsInit, SessionsInitWith, SessionsTypeOK, NewFlow, FlowType, At, User

(* Every handler, and every lapse of a cookie, keeps the types.            *)
LEMMA StepIsTyped == SessionsTypeOK /\ [SessionsNext]_sessionsVars => SessionsTypeOK'
<1> SUFFICES ASSUME SessionsTypeOK, [SessionsNext]_sessionsVars PROVE SessionsTypeOK'
  OBVIOUS
<1>0. /\ SessionsConstantsOK /\ session \in User \cup {Nobody}
      /\ state \in Flow \cup {NoFlow} /\ verifier \in Flow \cup {NoFlow}
      /\ flows \in [Flow -> FlowType] /\ tokens \in [User -> Account \cup {Nobody}]
  BY DEF SessionsTypeOK
<1>a. SessionsConstantsOK'
  BY <1>0 DEF SessionsConstantsOK
<1> SUFFICES /\ session' \in User \cup {Nobody}
             /\ state' \in Flow \cup {NoFlow} /\ verifier' \in Flow \cup {NoFlow}
             /\ flows' \in [Flow -> FlowType] /\ tokens' \in [User -> Account \cup {Nobody}]
  BY <1>a DEF SessionsTypeOK, FlowType
<1>1. CASE \E f \in Flow : StartLogin(f) \/ LinkStarted(f) \/ Denied(f) \/ ExchangeFails(f)
                         \/ ExchangeCode(f) \/ LinkFails(f)
  <2>1. PICK f \in Flow : StartLogin(f) \/ LinkStarted(f) \/ Denied(f) \/ ExchangeFails(f)
                         \/ ExchangeCode(f) \/ LinkFails(f)
    BY <1>1
  <2>2. PICK to \in At : Goes(f, to)
    BY <2>1 DEF StartLogin, LinkStarted, Denied, ExchangeFails, ExchangeCode, LinkFails, At
  <2>3. flows' \in [Flow -> FlowType]
    BY <1>0, <2>2, GoingOn
  <2> HIDE DEF FlowType, User
  <2> QED
    BY <1>0, <2>1, <2>3 DEF StartLogin, LinkStarted, Denied, ExchangeFails, ExchangeCode, LinkFails
<1>2. CASE \E f \in Flow : StartLink(f) \/ Approve(f) \/ Callback(f)
  <2>1. flows' \in [Flow -> FlowType]
    BY <1>2, Linking, Approving, CallingBack
  <2> QED
    BY <1>0, <1>2, <2>1 DEF StartLink, Approve, Callback
<1>3. CASE \E f \in Flow : LoggedIn(f)
  BY <1>0, <1>3, LoggingIn DEF LoggedIn
<1>4. CASE \E f \in Flow : StoreToken(f)
  <2>1. PICK f \in Flow : StoreToken(f)
    BY <1>4
  <2>2. flows[f].approver \in Account \cup {Nobody}
    BY <1>0 DEF FlowType
  <2> QED
    BY <1>0, <2>1, <2>2, Storing DEF StoreToken
<1>5. CASE (\E a \in Account : Connect(a)) \/ Disconnect \/ Logout \/ CookieLapses
  BY <1>0, <1>5 DEF Connect, Disconnect, Logout, CookieLapses
<1>6. CASE UNCHANGED sessionsVars
  BY <1>0, <1>6 DEF sessionsVars
<1> QED
  BY <1>1, <1>2, <1>3, <1>4, <1>5, <1>6 DEF SessionsNext, Step

(* Type correctness, whatever the tabs do.                                 *)
THEOREM TypeCorrect == SessionsConstantsOK /\ SessionsSpec => []SessionsTypeOK
  BY InitIsTyped, StepIsTyped, PTL DEF SessionsSpec

-----------------------------------------------------------------------------
(* The state cookie of a login is never next to the verifier of another:   *)
(* whoever replaces the verifier replaces the state in the same answer.    *)

VerifierInv ==
  /\ ~PkceEnabled => verifier = NoFlow
  /\ \A f \in Flow : flows[f].at = "starting" => flows[f].kind = "link"
  /\ \A f \in Flow : state = f /\ flows[f].kind = "login" => verifier \in {f, NoFlow}
  /\ LoginsCarryTheirVerifier

LEMMA InitHasVerifierInv == SessionsConstantsOK /\ SessionsInit => VerifierInv
  BY DEF SessionsConstantsOK, SessionsInit, SessionsInitWith, NewFlow, VerifierInv, LoginsCarryTheirVerifier

LEMMA StepKeepsVerifierInv == SessionsTypeOK /\ VerifierInv /\ [SessionsNext]_sessionsVars => VerifierInv'
<1> SUFFICES ASSUME SessionsTypeOK, VerifierInv, [SessionsNext]_sessionsVars PROVE VerifierInv'
  OBVIOUS
<1> USE DEF VerifierInv, LoginsCarryTheirVerifier
<1>0. NoFlow \notin Flow /\ flows \in [Flow -> FlowType]
  BY DEF SessionsTypeOK, SessionsConstantsOK
<1>1. ASSUME NEW f \in Flow, StartLogin(f) PROVE VerifierInv'
  <2>1. Goes(f, "approving") /\ "approving" \in At
    BY <1>1 DEF StartLogin, At
  <2> QED
    BY <1>0, <1>1, <2>1, GoingOn DEF StartLogin
<1>2. ASSUME NEW f \in Flow, StartLink(f) PROVE VerifierInv'
  <2>1. /\ flows'[f].kind = "link"
        /\ \A g \in Flow : g # f => flows'[g] = flows[g]
    BY <1>2, Linking
  <2> QED
    BY <1>2, <2>1 DEF StartLink
<1>3. ASSUME NEW f \in Flow, LinkStarted(f) PROVE VerifierInv'
  <2>1. Goes(f, "approving") /\ "approving" \in At
    BY <1>3 DEF LinkStarted, At
  <2> QED
    BY <1>0, <1>3, <2>1, GoingOn DEF LinkStarted
<1>4. ASSUME NEW f \in Flow, Approve(f) PROVE VerifierInv'
  <2>1. /\ flows'[f].at = "approved" /\ flows'[f].kind = flows[f].kind
        /\ flows'[f].sent = flows[f].sent
        /\ \A g \in Flow : g # f => flows'[g] = flows[g]
    BY <1>4, Approving
  <2> QED
    BY <1>4, <2>1 DEF Approve
<1>5. ASSUME NEW f \in Flow, Callback(f) PROVE VerifierInv'
  <2>1. /\ flows'[f].at # "starting" /\ flows'[f].kind = flows[f].kind
        /\ \/ state = f /\ flows'[f].sent = verifier
           \/ flows'[f].sent = flows[f].sent
        /\ \A g \in Flow : g # f => flows'[g] = flows[g]
    <3> HIDE DEF VerifierInv
    <3> QED
      BY <1>5, CallingBack
  <2> QED
    BY <1>5, <2>1 DEF Callback
<1>6. ASSUME NEW f \in Flow, Denied(f) \/ ExchangeFails(f) \/ ExchangeCode(f) \/ LinkFails(f)
      PROVE  VerifierInv'
  <2>1. PICK to \in At \ {"starting"} : Goes(f, to)
    BY <1>6 DEF Denied, ExchangeFails, ExchangeCode, LinkFails, At
  <2>2. UNCHANGED <<state, verifier>>
    BY <1>6 DEF Denied, ExchangeFails, ExchangeCode, LinkFails
  <2> QED
    BY <1>0, <2>1, <2>2, GoingOn
<1>7. ASSUME NEW f \in Flow, LoggedIn(f) PROVE VerifierInv'
  <2>1. \A g \in Flow : /\ flows'[g].at = "starting" => flows[g].at = "starting"
                        /\ flows'[g].kind = flows[g].kind /\ flows'[g].sent = flows[g].sent
    BY <1>7, LoggingIn
  <2>2. state' = NoFlow /\ verifier' \in {verifier, NoFlow}
    BY <1>7, LoggingIn
  <2> QED
    BY <1>0, <2>1, <2>2
<1>8. ASSUME NEW f \in Flow, StoreToken(f) PROVE VerifierInv'
  <2>1. /\ flows'[f].at # "starting" /\ flows'[f].kind = flows[f].kind
        /\ flows'[f].sent = flows[f].sent
        /\ \A g \in Flow : g # f => flows'[g] = flows[g]
    BY <1>8, Storing
  <2> QED
    BY <1>8, <2>1 DEF StoreToken
<1>9. CASE (\E a \in Account : Connect(a)) \/ Disconnect \/ Logout \/ CookieLapses
  BY <1>0, <1>9 DEF Connect, Disconnect, Logout, CookieLapses
<1>10. CASE UNCHANGED sessionsVars
  BY <1>10 DEF sessionsVars
<1> QED
  BY <1>1, <1>2, <1>3, <1>4, <1>5, <1>6, <1>7, <1>8, <1>9, <1>10 DEF SessionsNext, Step

(* A login sends its own verifier or none, for any number of tabs.         *)
THEOREM LoginsCarryTheirVerifierHolds == SessionsConstantsOK /\ SessionsSpec => []LoginsCarryTheirVerifier
<1>1. VerifierInv => LoginsCarryTheirVerifier
  BY DEF VerifierInv
<1> QED
  BY <1>1, InitHasVerifierInv, StepKeepsVerifierInv, TypeCorrect, PTL DEF SessionsSpec

-----------------------------------------------------------------------------
(* The user of the browser changes in two ways only: a login, which takes  *)
(* the state cookie of every link away, and overtakes those whose cookie   *)
(* is still to come; and signing out, after which nothing is stored.       *)

Stays(f) ==
  /\ flows[f].at = "starting" \/ state = f => session \in {flows[f].starter, Nobody}
  /\ flows[f].at \in {"exchanging", "exchanged"} => flows[f].user \in {flows[f].starter, Nobody}
  /\ flows[f].storedFor \in {Nobody, flows[f].starter}

LinkInv ==
  \A f \in Flow :
    /\ flows[f].kind # "link" => flows[f].storedFor = Nobody
    /\ flows[f].at = "new" => flows[f].kind # "link"
    /\ flows[f].kind = "link" => Stays(f) \/ flows[f].overtaken = TRUE

LEMMA InitHasLinkInv == SessionsConstantsOK /\ SessionsInit => LinkInv
<1> SUFFICES ASSUME SessionsInit, NEW f \in Flow
             PROVE  flows[f].kind # "link" /\ flows[f].storedFor = Nobody
  BY DEF LinkInv
<1> QED
  BY DEF SessionsInit, SessionsInitWith, NewFlow

LEMMA StepKeepsLinkInv == SessionsTypeOK /\ LinkInv /\ [SessionsNext]_sessionsVars => LinkInv'
<1> SUFFICES ASSUME SessionsTypeOK, LinkInv, [SessionsNext]_sessionsVars PROVE LinkInv'
  OBVIOUS
<1> USE DEF LinkInv, Stays
<1>0. NoFlow \notin Flow /\ flows \in [Flow -> FlowType]
  BY DEF SessionsTypeOK, SessionsConstantsOK
<1>1. ASSUME NEW f \in Flow, StartLogin(f) PROVE LinkInv'
  <2>1. Goes(f, "approving") /\ "approving" \in At
    BY <1>1 DEF StartLogin, At
  <2> QED
    BY <1>0, <1>1, <2>1, GoingOn DEF StartLogin
<1>2. ASSUME NEW f \in Flow, StartLink(f) PROVE LinkInv'
  <2>1. /\ flows'[f].at = "starting" /\ flows'[f].kind = "link" /\ flows'[f].starter = session
        /\ flows'[f].storedFor = flows[f].storedFor
        /\ \A g \in Flow : g # f => flows'[g] = flows[g]
    BY <1>2, Linking
  <2>2. flows[f].storedFor = Nobody /\ session' = session /\ state' = state
    BY <1>2 DEF StartLink
  <2> QED
    BY <2>1, <2>2
<1>3. ASSUME NEW f \in Flow, LinkStarted(f) PROVE LinkInv'
  <2>1. Goes(f, "approving") /\ "approving" \in At
    BY <1>3 DEF LinkStarted, At
  <2> QED
    BY <1>0, <1>3, <2>1, GoingOn DEF LinkStarted
<1>4. ASSUME NEW f \in Flow, Approve(f) PROVE LinkInv'
  <2>1. /\ flows'[f].at = "approved"
        /\ flows'[f].kind = flows[f].kind /\ flows'[f].starter = flows[f].starter
        /\ flows'[f].storedFor = flows[f].storedFor /\ flows'[f].overtaken = flows[f].overtaken
        /\ \A g \in Flow : g # f => flows'[g] = flows[g]
    BY <1>4, Approving
  <2> QED
    BY <1>4, <2>1 DEF Approve
<1>5. ASSUME NEW f \in Flow, Callback(f) PROVE LinkInv'
  <2>1. /\ \/ flows'[f].at = "exchanging" /\ state = f /\ flows'[f].user = session
           \/ flows'[f].at = "told bad state"
        /\ flows'[f].kind = flows[f].kind /\ flows'[f].starter = flows[f].starter
        /\ flows'[f].storedFor = flows[f].storedFor /\ flows'[f].overtaken = flows[f].overtaken
        /\ \A g \in Flow : g # f => flows'[g] = flows[g]
    BY <1>5, CallingBack
  <2> QED
    BY <1>5, <2>1 DEF Callback
<1>6. ASSUME NEW f \in Flow, Denied(f) \/ ExchangeFails(f) \/ LinkFails(f) PROVE LinkInv'
  <2>1. PICK to \in At \ {"new", "starting", "exchanging", "exchanged"} : Goes(f, to)
    BY <1>6 DEF Denied, ExchangeFails, LinkFails, At
  <2>2. UNCHANGED <<session, state>>
    BY <1>6 DEF Denied, ExchangeFails, LinkFails
  <2> QED
    BY <1>0, <2>1, <2>2, GoingOn
<1>7. ASSUME NEW f \in Flow, ExchangeCode(f) PROVE LinkInv'
  <2>1. Goes(f, "exchanged") /\ "exchanged" \in At /\ flows[f].at = "exchanging"
    BY <1>7 DEF ExchangeCode, At
  <2> QED
    BY <1>0, <1>7, <2>1, GoingOn DEF ExchangeCode
<1>8. ASSUME NEW f \in Flow, LoggedIn(f) PROVE LinkInv'
  <2>1. \A g \in Flow : /\ flows'[g].at = "starting" => flows'[g].overtaken = TRUE
                        /\ flows'[g].at # "told signed in" => flows'[g].at = flows[g].at
                        /\ flows'[g].overtaken \in {flows[g].overtaken, TRUE}
    BY <1>8, LoggingIn
  <2>2. \A g \in Flow :
          /\ flows'[g].kind = flows[g].kind /\ flows'[g].starter = flows[g].starter
          /\ flows'[g].user = flows[g].user /\ flows'[g].storedFor = flows[g].storedFor
    BY <1>8, LoggingIn
  <2>3. state' = NoFlow
    BY <1>8, LoggingIn
  <2> QED
    BY <1>0, <2>1, <2>2, <2>3, ZenonT(40)
<1>9. ASSUME NEW f \in Flow, StoreToken(f) PROVE LinkInv'
  <2>1. /\ flows'[f].at \in {"told connected", "told error"}
        /\ flows'[f].storedFor = flows[f].user
        /\ flows'[f].kind = flows[f].kind /\ flows'[f].starter = flows[f].starter
        /\ flows'[f].overtaken = flows[f].overtaken
        /\ \A g \in Flow : g # f => flows'[g] = flows[g]
    BY <1>9, Storing
  <2>2. /\ flows[f].at = "exchanged" /\ flows[f].kind = "link"
        /\ session' = session /\ state' = state
    BY <1>9 DEF StoreToken
  <2> QED
    BY <2>1, <2>2
<1>10. CASE (\E a \in Account : Connect(a)) \/ Disconnect \/ Logout \/ CookieLapses
  BY <1>0, <1>10 DEF Connect, Disconnect, Logout, CookieLapses
<1>11. CASE UNCHANGED sessionsVars
  BY <1>11 DEF sessionsVars
<1> QED
  BY <1>1, <1>2, <1>3, <1>4, <1>5, <1>6, <1>7, <1>8, <1>9, <1>10, <1>11 DEF SessionsNext, Step

(* The token of a link goes to the user who began it, for any number of    *)
(* tabs, unless a login overtook the answer to its beginning.              *)
THEOREM LinkStaysWithItsUserHolds == SessionsConstantsOK /\ SessionsSpec => []LinkStaysWithItsUser
<1>1. LinkInv => LinkStaysWithItsUser
  BY DEF LinkInv, Stays, LinkStaysWithItsUser
<1> QED
  BY <1>1, InitHasLinkInv, StepKeepsLinkInv, TypeCorrect, PTL DEF SessionsSpec

-----------------------------------------------------------------------------
(* API keys under an Idempotency-Key.                                      *)

AnAnswer == [status : Nat, id : Nat]
AnApiKey == [tier : Tier, revoked : BOOLEAN]
Request ==
  [at : {"lookup", "body", "store", "done"}, key : IdemKey \cup {NoKey}, ask : Issues \cup Revokes,
   answer : AnAnswer, replay : BOOLEAN]

(* What a body may answer to a request, given the table of API keys.       *)
Fits(keys, route, body, a) ==
  /\ a.status \in {200, 201, 400, 404}
  /\ a.status \in {200, 201} => a.id \in DOMAIN keys
  /\ a.status = 201 => keys[a.id].tier = body
  /\ a.status = 201 <=> route = "api_keys_issue" /\ body # Garbage

RequestOK(keys, r) ==
  r # Free =>
    /\ r.at \in {"lookup", "store"} => r.key \in IdemKey
    /\ r.at # "done" => r.replay = FALSE
    /\ r.at = "store" \/ r.replay = TRUE => Fits(keys, r.ask.route, r.ask.body, r.answer)

RowOK(keys, t, row) ==
  /\ row.expires \in KeyTtl..(t + KeyTtl) /\ row.answer \in AnAnswer
  /\ Fits(keys, row.hash[1], row.hash[2], row.answer)

KeyTypes ==
  /\ KeysConstantsOK
  /\ time \in 0..MaxKeyTime
  /\ apiKeys \in Seq(AnApiKey)
  /\ requests \in [Slot -> {Free} \cup Request]
  /\ bodies \in [IdemKey -> Nat] /\ slips \in [IdemKey -> Nat]
  /\ \A k \in IdemKey : bodies[k] <= MaxBodies
  /\ DOMAIN rows \subseteq IdemKey

(* A request that has looked k up and found nothing.                       *)
Holds(s, k) == requests[s].at \in {"body", "store"} /\ requests[s].key = k

(* While no answer is stored or about to be, every body was paid for.      *)
Covered(k) ==
  /\ bodies[k] <= slips[k] + 1
  /\ k \notin DOMAIN rows /\ (\A s \in Slot : ~Holds(s, k)) => bodies[k] <= slips[k]

KeysInv ==
  /\ KeyTypes
  /\ \A k \in IdemKey : Covered(k)
  /\ \A s \in Slot : RequestOK(apiKeys, requests[s])
  /\ \A k \in DOMAIN rows : RowOK(apiKeys, time, rows[k])

LEMMA FreeIsFree == Free.at = "free" /\ Free \notin Request
BY DEF Free, Request

(* What of a request's fields may be relied on.                            *)
LEMMA RequestFields ==
  ASSUME KeyTypes, NEW s \in Slot, requests[s].at # "free"
  PROVE  requests[s] \in Request /\ requests[s] # Free
BY FreeIsFree DEF KeyTypes

(* API keys are added and revoked, and their tiers stay.                   *)
Tiered(keys, more) ==
  DOMAIN keys \subseteq DOMAIN more /\ \A i \in DOMAIN keys : more[i].tier = keys[i].tier

LEMMA FitsStill ==
  ASSUME NEW keys, NEW more, Tiered(keys, more),
         NEW route, NEW body, NEW a, Fits(keys, route, body, a)
  PROVE  Fits(more, route, body, a)
BY DEF Tiered, Fits

LEMMA OKStill ==
  ASSUME KeysInv, Tiered(apiKeys, apiKeys'), time' \in {time, time + 1}
  PROVE  /\ \A s \in Slot : RequestOK(apiKeys', requests[s])
         /\ \A k \in DOMAIN rows : RowOK(apiKeys', time', rows[k])
<1>1. ASSUME NEW s \in Slot PROVE RequestOK(apiKeys', requests[s])
  <2>1. RequestOK(apiKeys, requests[s])
    BY DEF KeysInv
  <2> QED
    BY <2>1, FitsStill DEF RequestOK
<1>2. ASSUME NEW k \in DOMAIN rows PROVE RowOK(apiKeys', time', rows[k])
  <2>1. RowOK(apiKeys, time, rows[k])
    BY DEF KeysInv
  <2>2. Fits(apiKeys', rows[k].hash[1], rows[k].hash[2], rows[k].answer)
    BY <2>1, FitsStill DEF RowOK
  <2>3. time \in Nat /\ KeyTtl \in Nat
    BY DEF KeysInv, KeyTypes, KeysConstantsOK
  <2>4. rows[k].expires \in KeyTtl..(time' + KeyTtl)
    BY <2>1, <2>3 DEF RowOK
  <2> QED
    BY <2>1, <2>2, <2>4 DEF RowOK
<1> QED
  BY <1>1, <1>2

(* Only the request of the step changes.                                   *)
LEMMA OneRequest ==
  ASSUME KeysInv, NEW s \in Slot, NEW new \in {Free} \cup Request,
         requests' = [requests EXCEPT ![s] = new],
         Tiered(apiKeys, apiKeys'), time' = time, RequestOK(apiKeys', new)
  PROVE  /\ requests' \in [Slot -> {Free} \cup Request] /\ requests'[s] = new
         /\ \A r \in Slot : r # s => requests'[r] = requests[r]
         /\ \A r \in Slot : RequestOK(apiKeys', requests'[r])
<1> DEFINE R == {Free} \cup Request
<1>1. requests \in [Slot -> R] /\ new \in R
  BY DEF KeysInv, KeyTypes
<1> HIDE DEF R
<1>2. /\ requests' \in [Slot -> R] /\ requests'[s] = new
      /\ \A r \in Slot : r # s => requests'[r] = requests[r]
  BY <1>1
<1>3. \A r \in Slot : RequestOK(apiKeys', requests[r])
  BY OKStill
<1>4. ASSUME NEW r \in Slot PROVE RequestOK(apiKeys', requests'[r])
  <2>1. requests'[r] = new \/ requests'[r] = requests[r]
    BY <1>2
  <2>2. CASE requests'[r] = new
    BY <2>2
  <2>3. CASE requests'[r] = requests[r]
    BY <1>3, <2>3
  <2> QED
    BY <2>1, <2>2, <2>3
<1> QED
  BY <1>2, <1>4 DEF R

(* What was paid for stays so while no request under the key ends.         *)
LEMMA StaysCovered ==
  ASSUME NEW k \in IdemKey, Covered(k), bodies'[k] = bodies[k], slips'[k] = slips[k],
         k \in DOMAIN rows => k \in DOMAIN rows',
         \A s \in Slot : Holds(s, k) => Holds(s, k)'
  PROVE  Covered(k)'
BY DEF Covered

LEMMA KeysBegin == KeysConstantsOK /\ KeysInit => KeysInv
<1> SUFFICES ASSUME KeysConstantsOK, KeysInit PROVE KeysInv
  OBVIOUS
<1>1. KeyTypes
  BY FreeIsFree DEF KeysInit, KeyTypes, KeysConstantsOK
<1>2. ASSUME NEW k \in IdemKey PROVE Covered(k)
  BY DEF KeysInit, Covered
<1> QED
  BY <1>1, <1>2 DEF KeysInit, KeysInv, RequestOK

LEMMA ArriveStep ==
  ASSUME KeysInv, NEW s \in Slot, NEW k \in IdemKey \cup {NoKey}, NEW ask \in Issues \cup Revokes,
         Arrive(s, k, ask)
  PROVE  KeysInv'
<1> DEFINE new == [at |-> IF k = NoKey THEN "body" ELSE "lookup", key |-> k, ask |-> ask,
                   answer |-> NoAnswer, replay |-> FALSE]
<1>1. KeyTypes /\ requests[s] = Free /\ requests' = [requests EXCEPT ![s] = new]
      /\ UNCHANGED <<rows, apiKeys, time, bodies, slips>>
  BY DEF KeysInv, Arrive
<1>2. /\ new \in Request /\ new.key = k /\ new.at \in {"body", "lookup"}
      /\ new.at = "lookup" => k \in IdemKey
      /\ new.replay = FALSE
  BY DEF Request, NoAnswer, AnAnswer
<1> HIDE DEF new
<1>3. RequestOK(apiKeys', new)
  BY <1>2 DEF RequestOK
<1>4. /\ requests' \in [Slot -> {Free} \cup Request] /\ requests'[s] = new
      /\ \A r \in Slot : r # s => requests'[r] = requests[r]
      /\ \A r \in Slot : RequestOK(apiKeys', requests'[r])
  BY <1>1, <1>2, <1>3, OneRequest DEF Tiered
<1>5. ASSUME NEW j \in IdemKey PROVE Covered(j)'
  <2>1. Covered(j)
    BY DEF KeysInv
  <2>2. \A r \in Slot : Holds(r, j) => Holds(r, j)'
    BY <1>1, <1>4, FreeIsFree DEF Holds
  <2> QED
    BY <1>1, <2>1, <2>2, StaysCovered
<1>6. KeyTypes'
  BY <1>1, <1>4 DEF KeyTypes, KeysConstantsOK
<1> QED
  BY <1>1, <1>4, <1>5, <1>6 DEF KeysInv

(* What is found in the table fits the request.                            *)
LEMMA Replayed ==
  ASSUME KeysInv, NEW s \in Slot, requests[s].at = "lookup",
         Live(requests[s].key), SameRequest(requests[s].key, requests[s].ask)
  PROVE  /\ rows[requests[s].key].answer \in AnAnswer
         /\ Fits(apiKeys, requests[s].ask.route, requests[s].ask.body, rows[requests[s].key].answer)
<1>1. RowOK(apiKeys, time, rows[requests[s].key])
  BY DEF KeysInv, Live
<1>2. /\ rows[requests[s].key].hash[1] = requests[s].ask.route
      /\ rows[requests[s].key].hash[2] = requests[s].ask.body
  BY DEF SameRequest, HashRequest
<1> QED
  BY <1>1, <1>2 DEF RowOK

LEMMA LookupStep == ASSUME KeysInv, NEW s \in Slot, Lookup(s) PROVE KeysInv'
<1> DEFINE old == requests[s]
           new == IF ~Live(old.key) THEN [old EXCEPT !.at = "body"]
                  ELSE IF ~SameRequest(old.key, old.ask)
                  THEN [old EXCEPT !.at = "done", !.answer = [status |-> 422, id |-> 0]]
                  ELSE [old EXCEPT !.at = "done", !.answer = rows[old.key].answer, !.replay = TRUE]
<1>1. KeyTypes /\ old.at = "lookup" /\ requests' = [requests EXCEPT ![s] = new]
      /\ UNCHANGED <<rows, apiKeys, time>>
      /\ IF ~Live(old.key) THEN LetIn(s, old.key) ELSE UNCHANGED <<bodies, slips>>
  BY DEF KeysInv, Lookup
<1>2. old \in Request /\ old.key \in IdemKey /\ old.replay = FALSE
  <2>1. old \in Request /\ old # Free /\ RequestOK(apiKeys, old)
    BY <1>1, RequestFields DEF KeysInv
  <2> QED
    BY <1>1, <2>1 DEF RequestOK
<1>3. new \in Request /\ new.key = old.key /\ new.at \in {"body", "done"}
      /\ (new.at = "body" <=> ~Live(old.key)) /\ RequestOK(apiKeys, new)
  <2>1. CASE ~Live(old.key)
    <3>1. new = [old EXCEPT !.at = "body"]
      BY <2>1
    <3> HIDE DEF new
    <3>2. new \in Request /\ new.key = old.key /\ new.at = "body" /\ new.replay = FALSE
      BY <1>2, <3>1 DEF Request
    <3> QED
      BY <2>1, <3>2 DEF RequestOK
  <2>2. CASE Live(old.key) /\ ~SameRequest(old.key, old.ask)
    <3> DEFINE refused == [status |-> 422, id |-> 0]
    <3>1. refused \in AnAnswer
      BY DEF AnAnswer
    <3> HIDE DEF refused
    <3>2. new = [old EXCEPT !.at = "done", !.answer = refused]
      BY <2>2 DEF refused
    <3>3. new = [at |-> "done", key |-> old.key, ask |-> old.ask, answer |-> refused,
                 replay |-> old.replay]
      BY <1>2, <3>2, ZenonT(40) DEF Request
    <3> HIDE DEF new
    <3>4. new \in Request /\ new.key = old.key /\ new.at = "done" /\ new.replay = FALSE
      BY <1>2, <3>1, <3>3 DEF Request
    <3> QED
      BY <2>2, <3>4 DEF RequestOK
  <2>3. CASE Live(old.key) /\ SameRequest(old.key, old.ask)
    <3> DEFINE a == rows[old.key].answer
    <3>1. a \in AnAnswer /\ Fits(apiKeys, old.ask.route, old.ask.body, a)
      BY <1>1, <2>3, Replayed
    <3>2. new = [old EXCEPT !.at = "done", !.answer = a, !.replay = TRUE]
      BY <2>3
    <3> HIDE DEF new, a
    <3>3. new = [at |-> "done", key |-> old.key, ask |-> old.ask, answer |-> a, replay |-> TRUE]
      BY <1>2, <3>2, ZenonT(40) DEF Request
    <3>4. /\ new \in Request /\ new.key = old.key /\ new.at = "done" /\ new.ask = old.ask
          /\ new.answer = a
      BY <1>2, <3>1, <3>3 DEF Request
    <3> QED
      BY <2>3, <3>1, <3>4 DEF RequestOK
  <2> QED
    BY <2>1, <2>2, <2>3
<1> HIDE DEF new
<1>4. /\ requests' \in [Slot -> {Free} \cup Request] /\ requests'[s] = new
      /\ \A r \in Slot : r # s => requests'[r] = requests[r]
      /\ \A r \in Slot : RequestOK(apiKeys', requests'[r])
  BY <1>1, <1>3, OneRequest DEF Tiered
<1>5. \A k \in IdemKey : \A r \in Slot : Holds(r, k) => Holds(r, k)'
  BY <1>1, <1>4 DEF Holds
<1>6. CASE Live(old.key)
  <2>1. UNCHANGED <<bodies, slips>>
    BY <1>1, <1>6
  <2>2. \A k \in IdemKey : Covered(k)'
    BY <1>1, <1>5, <2>1, StaysCovered DEF KeysInv
  <2>3. KeyTypes'
    BY <1>1, <1>4, <2>1 DEF KeyTypes, KeysConstantsOK
  <2> QED
    BY <1>1, <1>4, <2>2, <2>3 DEF KeysInv
<1>7. CASE ~Live(old.key)
  <2> DEFINE j == old.key
  <2>1. /\ j \in IdemKey /\ bodies \in [IdemKey -> Nat] /\ slips \in [IdemKey -> Nat]
        /\ bodies[j] < MaxBodies
        /\ bodies' = [bodies EXCEPT ![j] = @ + 1]
        /\ slips' = IF Overlaps(s) \/ Expired(j) THEN [slips EXCEPT ![j] = @ + 1] ELSE slips
    BY <1>1, <1>2, <1>7 DEF LetIn, KeyTypes
  <2> HIDE DEF j
  <2>3. /\ bodies' \in [IdemKey -> Nat] /\ slips' \in [IdemKey -> Nat]
        /\ bodies'[j] = bodies[j] + 1 /\ slips'[j] \in {slips[j], slips[j] + 1}
        /\ \A k \in IdemKey : k # j => bodies'[k] = bodies[k] /\ slips'[k] = slips[k]
    BY <2>1
  <2>4. bodies[j] <= slips[j] \/ slips'[j] = slips[j] + 1
    <3>1. CASE Overlaps(s) \/ Expired(j)
      BY <2>1, <3>1
    <3>2. CASE ~Overlaps(s) /\ ~Expired(j)
      <4>1. \A r \in Slot : ~Holds(r, j)
        BY <1>1, <3>2 DEF Overlaps, Holds, j
      <4>2. j \notin DOMAIN rows
        <5>1. SUFFICES ASSUME j \in DOMAIN rows PROVE FALSE
          OBVIOUS
        <5>2. time \in Nat /\ rows[j].expires \in Nat
          <6>1. RowOK(apiKeys, time, rows[j]) /\ time \in Nat /\ KeyTtl \in Nat
            BY <5>1 DEF KeysInv, KeyTypes, KeysConstantsOK
          <6> QED
            BY <6>1 DEF RowOK
        <5> QED
          BY <1>7, <3>2, <5>1, <5>2 DEF Live, Expired, j
      <4> QED
        BY <2>1, <4>1, <4>2 DEF KeysInv, Covered
    <3> QED
      BY <3>1, <3>2
  <2>5. ASSUME NEW k \in IdemKey PROVE Covered(k)'
    <3>1. Covered(k)
      BY DEF KeysInv
    <3>2. CASE k # j
      BY <1>1, <1>5, <2>3, <3>1, <3>2, StaysCovered
    <3>3. CASE k = j
      <4>1. bodies[j] \in Nat /\ slips[j] \in Nat /\ bodies[j] <= slips[j] + 1
        BY <2>1, <3>1, <3>3 DEF Covered
      <4>2. bodies'[j] <= slips'[j] + 1
        BY <2>3, <2>4, <4>1
      <4>3. bodies'[k] <= slips'[k] + 1
        BY <3>3, <4>2
      <4>4. Holds(s, k)'
        BY <1>3, <1>4, <1>7, <3>3 DEF Holds, j
      <4> QED
        BY <4>3, <4>4 DEF Covered
    <3> QED
      BY <3>2, <3>3
  <2>6. \A k \in IdemKey : bodies'[k] <= MaxBodies
    <3>1. MaxBodies \in Nat /\ \A k \in IdemKey : bodies[k] \in Nat /\ bodies[k] <= MaxBodies
      BY <1>1 DEF KeyTypes, KeysConstantsOK
    <3> QED
      BY <2>1, <2>3, <3>1
  <2>7. KeyTypes'
    BY <1>1, <1>4, <2>3, <2>6 DEF KeyTypes, KeysConstantsOK
  <2> QED
    BY <1>1, <1>4, <2>5, <2>7 DEF KeysInv
<1> QED
  BY <1>6, <1>7

(* What the answer of a body does.                                         *)
LEMMA BodyStep ==
  ASSUME KeysInv, NEW s \in Slot, NEW status \in Nat, NEW id \in Nat,
         requests[s].at = "body", BodyAnswers(s, status, id),
         UNCHANGED <<rows, time, bodies, slips>>,
         apiKeys' \in Seq(AnApiKey), Tiered(apiKeys, apiKeys'),
         Fits(apiKeys', requests[s].ask.route, requests[s].ask.body, [status |-> status, id |-> id])
  PROVE  KeysInv'
<1> DEFINE old == requests[s]
           a == [status |-> status, id |-> id]
           place == IF old.key = NoKey THEN "done" ELSE "store"
           new == [old EXCEPT !.at = place, !.answer = a]
<1>1. KeyTypes /\ old \in Request /\ old # Free /\ a \in AnAnswer /\ old.replay = FALSE
  <2>1. KeyTypes /\ RequestOK(apiKeys, old)
    BY DEF KeysInv
  <2>2. old \in Request /\ old # Free
    BY <2>1, RequestFields
  <2> QED
    BY <2>1, <2>2 DEF RequestOK, AnAnswer
<1>2. requests' = [requests EXCEPT ![s] = new]
  BY <1>1 DEF BodyAnswers, KeyTypes
<1>3. Fits(apiKeys', old.ask.route, old.ask.body, a)
  OBVIOUS
<1>4. place \in {"done", "store"} /\ (place = "store" => old.key \in IdemKey)
      /\ (place = "done" => old.key \notin IdemKey)
  BY <1>1 DEF Request, KeyTypes, KeysConstantsOK
<1> HIDE DEF a, place
<1>12. new = [old EXCEPT !.at = place, !.answer = a]
  OBVIOUS
<1> HIDE DEF new
<1>5. new = [at |-> place, key |-> old.key, ask |-> old.ask, answer |-> a, replay |-> old.replay]
  BY <1>1, <1>12, ZenonT(40) DEF Request
<1>6. /\ new \in Request /\ new.at = place /\ new.key = old.key /\ new.ask = old.ask
      /\ new.answer = a /\ new.replay = FALSE
  BY <1>1, <1>4, <1>5 DEF Request
<1>7. RequestOK(apiKeys', new)
  BY <1>3, <1>4, <1>6 DEF RequestOK
<1>8. /\ requests' \in [Slot -> {Free} \cup Request] /\ requests'[s] = new
      /\ \A r \in Slot : r # s => requests'[r] = requests[r]
      /\ \A r \in Slot : RequestOK(apiKeys', requests'[r])
  BY <1>2, <1>6, <1>7, OneRequest
<1>9. ASSUME NEW k \in IdemKey PROVE Covered(k)'
  <2>1. ASSUME NEW r \in Slot, Holds(r, k) PROVE Holds(r, k)'
    <3>1. CASE r = s
      BY <1>4, <1>6, <1>8, <2>1, <3>1 DEF Holds
    <3>2. CASE r # s
      BY <1>8, <2>1, <3>2 DEF Holds
    <3> QED
      BY <3>1, <3>2
  <2> QED
    BY <2>1, StaysCovered DEF KeysInv
<1>10. KeyTypes'
  BY <1>1, <1>8 DEF KeyTypes, KeysConstantsOK
<1>11. \A k \in DOMAIN rows' : RowOK(apiKeys', time', rows'[k])
  BY OKStill
<1> QED
  BY <1>8, <1>9, <1>10, <1>11 DEF KeysInv

LEMMA IssueStep == ASSUME KeysInv, NEW s \in Slot, Issue(s) PROVE KeysInv'
<1> DEFINE ask == requests[s].ask
<1>1. /\ KeyTypes /\ requests[s].at = "body" /\ UNCHANGED <<rows, time, bodies, slips>>
      /\ ask.route = "api_keys_issue"
  BY DEF KeysInv, Issue
<1>2. ask \in Issues \cup Revokes
  BY <1>1, RequestFields DEF Request
<1>3. apiKeys \in Seq(AnApiKey)
  BY <1>1 DEF KeyTypes
<1>4. CASE ask.body = Garbage
  <2>1. BodyAnswers(s, 400, 0) /\ apiKeys' = apiKeys
    BY <1>4 DEF Issue
  <2>2. Fits(apiKeys', ask.route, ask.body, [status |-> 400, id |-> 0])
    BY <1>4 DEF Fits
  <2>3. Tiered(apiKeys, apiKeys')
    BY <2>1 DEF Tiered
  <2> QED
    BY <1>1, <1>3, <2>1, <2>2, <2>3, BodyStep
<1>5. CASE ask.body # Garbage
  <2> DEFINE row == [tier |-> ask.body, revoked |-> FALSE]
             id == Len(apiKeys) + 1
  <2>1. apiKeys' = Append(apiKeys, row) /\ BodyAnswers(s, 201, id)
    BY <1>5 DEF Issue
  <2>2. row \in AnApiKey /\ row.tier = ask.body
    <3>1. ask.body \in Tier
      BY <1>1, <1>2, <1>5 DEF Issues, Revokes
    <3> QED
      BY <3>1 DEF AnApiKey
  <2>3. id \in Nat /\ id \notin DOMAIN apiKeys
    BY <1>3
  <2> HIDE DEF row
  <2>4. /\ apiKeys' \in Seq(AnApiKey) /\ DOMAIN apiKeys \subseteq DOMAIN apiKeys'
        /\ id \in DOMAIN apiKeys' /\ apiKeys'[id] = row
        /\ \A i \in DOMAIN apiKeys : apiKeys'[i] = apiKeys[i]
    BY <1>3, <2>1, <2>2
  <2> HIDE DEF id
  <2>5. Fits(apiKeys', ask.route, ask.body, [status |-> 201, id |-> id])
    BY <1>1, <1>5, <2>2, <2>4 DEF Fits
  <2>6. Tiered(apiKeys, apiKeys')
    BY <2>4 DEF Tiered
  <2> QED
    BY <1>1, <2>1, <2>3, <2>4, <2>5, <2>6, BodyStep
<1> QED
  BY <1>4, <1>5

LEMMA RevokeStep == ASSUME KeysInv, NEW s \in Slot, Revoke(s) PROVE KeysInv'
<1> DEFINE ask == requests[s].ask
           i == ask.id
<1>1. /\ KeyTypes /\ requests[s].at = "body" /\ UNCHANGED <<rows, time, bodies, slips>>
      /\ ask.route = "api_keys_revoke"
  BY DEF KeysInv, Revoke
<1>2. ask \in Issues \cup Revokes
  BY <1>1, RequestFields DEF Request
<1>3. i \in Nat /\ apiKeys \in Seq(AnApiKey)
  <2>1. ask \in Revokes
    BY <1>1, <1>2 DEF Issues
  <2>2. i \in 1..MaxKeys /\ MaxKeys \in Nat
    BY <1>1, <2>1 DEF Revokes, KeyTypes, KeysConstantsOK
  <2> QED
    BY <1>1, <2>2 DEF KeyTypes
<1>4. CASE CanBeRevoked(i)
  <2> DEFINE row == [apiKeys[i] EXCEPT !.revoked = TRUE]
  <2>1. apiKeys' = [apiKeys EXCEPT ![i] = row] /\ BodyAnswers(s, 200, i) /\ i \in DOMAIN apiKeys
    BY <1>4 DEF Revoke, CanBeRevoked
  <2>2. apiKeys[i] \in AnApiKey
    BY <1>3, <2>1
  <2>3. row \in AnApiKey /\ row.tier = apiKeys[i].tier
    BY <2>2 DEF AnApiKey
  <2> HIDE DEF row
  <2>4. /\ apiKeys' \in Seq(AnApiKey) /\ DOMAIN apiKeys' = DOMAIN apiKeys
        /\ apiKeys'[i] = row /\ \A j \in DOMAIN apiKeys : j # i => apiKeys'[j] = apiKeys[j]
    BY <1>3, <2>1, <2>3
  <2>5. Tiered(apiKeys, apiKeys')
    BY <2>3, <2>4 DEF Tiered
  <2> HIDE DEF i
  <2>6. Fits(apiKeys', ask.route, ask.body, [status |-> 200, id |-> i])
    BY <1>1, <2>1, <2>4 DEF Fits
  <2> QED
    BY <1>1, <1>3, <2>1, <2>4, <2>5, <2>6, BodyStep
<1>5. CASE ~CanBeRevoked(i)
  <2>1. BodyAnswers(s, 404, 0) /\ apiKeys' = apiKeys
    BY <1>5 DEF Revoke
  <2>2. Fits(apiKeys', ask.route, ask.body, [status |-> 404, id |-> 0])
    BY <1>1 DEF Fits
  <2>3. Tiered(apiKeys, apiKeys')
    BY <2>1 DEF Tiered
  <2> QED
    BY <1>1, <1>3, <2>1, <2>2, <2>3, BodyStep
<1> QED
  BY <1>4, <1>5

LEMMA StoreStep == ASSUME KeysInv, NEW s \in Slot, Store(s) PROVE KeysInv'
<1> DEFINE old == requests[s]
           new == [old EXCEPT !.at = "done"]
           row == [hash |-> HashRequest(old.ask), answer |-> old.answer, expires |-> time + KeyTtl]
<1>1. /\ KeyTypes /\ old.at = "store" /\ rows' = Stored(old.key, row)
      /\ requests' = [requests EXCEPT ![s].at = "done"]
      /\ UNCHANGED <<apiKeys, time, bodies, slips>>
  BY DEF KeysInv, Store
<1>2. old \in Request /\ old.key \in IdemKey /\ old.replay = FALSE
      /\ Fits(apiKeys, old.ask.route, old.ask.body, old.answer)
  <2>1. old \in Request /\ old # Free /\ RequestOK(apiKeys, old)
    BY <1>1, RequestFields DEF KeysInv
  <2> QED
    BY <1>1, <2>1 DEF RequestOK
<1>3. new \in Request /\ new.at = "done" /\ new.key = old.key /\ RequestOK(apiKeys, new)
  <2>1. new \in Request /\ new.at = "done" /\ new.key = old.key /\ new.replay = FALSE
    BY <1>2 DEF Request
  <2> HIDE DEF new
  <2> QED
    BY <2>1 DEF RequestOK
<1>4. RowOK(apiKeys, time, row)
  <2>1. time \in Nat /\ KeyTtl \in Nat
    BY <1>1 DEF KeyTypes, KeysConstantsOK
  <2>2. row.expires \in KeyTtl..(time + KeyTtl) /\ row.answer \in AnAnswer
    BY <1>2, <2>1 DEF Request
  <2>3. row.hash[1] = old.ask.route /\ row.hash[2] = old.ask.body /\ row.answer = old.answer
    BY DEF HashRequest
  <2> HIDE DEF row
  <2> QED
    BY <1>2, <2>2, <2>3 DEF RowOK
<1>5. requests' = [requests EXCEPT ![s] = new]
  BY <1>1
<1> HIDE DEF new, row
<1>6. /\ requests' \in [Slot -> {Free} \cup Request] /\ requests'[s] = new
      /\ \A r \in Slot : r # s => requests'[r] = requests[r]
      /\ \A r \in Slot : RequestOK(apiKeys', requests'[r])
  BY <1>1, <1>3, <1>5, OneRequest DEF Tiered
<1>7. /\ DOMAIN rows' = DOMAIN rows \cup {old.key}
      /\ \A k \in DOMAIN rows' : rows'[k] = row \/ (k \in DOMAIN rows /\ rows'[k] = rows[k])
  <2>1. CASE old.key \in DOMAIN rows
    BY <1>1, <2>1 DEF Stored
  <2>2. CASE old.key \notin DOMAIN rows
    BY <1>1, <2>2 DEF Stored
  <2> QED
    BY <2>1, <2>2
<1>8. KeyTypes'
  BY <1>1, <1>2, <1>6, <1>7 DEF KeyTypes, KeysConstantsOK
<1>9. ASSUME NEW k \in IdemKey PROVE Covered(k)'
  <2>1. Covered(k)
    BY DEF KeysInv
  <2>2. CASE k # old.key
    <3>1. \A r \in Slot : Holds(r, k) => Holds(r, k)'
      BY <1>6, <2>2 DEF Holds
    <3> QED
      BY <1>1, <1>7, <2>1, <3>1, StaysCovered
  <2>3. CASE k = old.key
    BY <1>1, <1>7, <2>1, <2>3 DEF Covered
  <2> QED
    BY <2>2, <2>3
<1>10. \A k \in DOMAIN rows' : RowOK(apiKeys', time', rows'[k])
  BY <1>1, <1>4, <1>7 DEF KeysInv
<1> QED
  BY <1>6, <1>8, <1>9, <1>10 DEF KeysInv

(* Requests that end leave their keys without an answer, at most once each *)
(* however many end with the process.                                      *)
LEMMA GoneStep == ASSUME KeysInv, NEW ss \in SUBSET Slot, Gone(ss) PROVE KeysInv'
<1>1. KeyTypes /\ UNCHANGED <<rows, apiKeys, time, bodies>>
  BY DEF KeysInv, Gone
<1>2. \A s \in Slot : requests'[s] = IF s \in ss THEN Free ELSE requests[s]
  BY DEF Gone
<1>3. requests' \in [Slot -> {Free} \cup Request]
  BY <1>1 DEF Gone, KeyTypes
<1>4. \A s \in Slot : RequestOK(apiKeys', requests'[s])
  <2>1. RequestOK(apiKeys', Free)
    BY DEF RequestOK
  <2> QED
    BY <1>1, <1>2, <2>1 DEF KeysInv
<1>5. slips' \in [IdemKey -> Nat]
      /\ \A k \in IdemKey : slips'[k] = IF k \in Unanswered(ss) THEN slips[k] + 1 ELSE slips[k]
  <2> DEFINE U == Unanswered(ss)
  <2>1. slips \in [IdemKey -> Nat] /\ slips' = [k \in IdemKey |-> IF k \in U THEN slips[k] + 1 ELSE slips[k]]
    BY <1>1 DEF Gone, KeyTypes
  <2> HIDE DEF U
  <2>2. \A k \in IdemKey : slips[k] + 1 \in Nat /\ slips[k] \in Nat
    BY <2>1
  <2>3. \A k \in IdemKey : slips'[k] = IF k \in U THEN slips[k] + 1 ELSE slips[k]
    BY <2>1
  <2>4. slips' \in [IdemKey -> Nat]
    BY <2>1, <2>2, Zenon
  <2> QED
    BY <2>3, <2>4 DEF U
<1>6. ASSUME NEW k \in IdemKey PROVE Covered(k)'
  <2>1. Covered(k) /\ bodies[k] \in Nat /\ slips[k] \in Nat
    BY <1>1 DEF KeysInv, KeyTypes
  <2>2. CASE k \in Unanswered(ss)
    <3>1. slips'[k] = slips[k] + 1 /\ bodies'[k] = bodies[k]
      BY <1>1, <1>5, <2>2
    <3> QED
      BY <2>1, <3>1 DEF Covered
  <2>3. CASE k \notin Unanswered(ss)
    <3>1. \A s \in Slot : Holds(s, k) => Holds(s, k)'
      BY <1>2, <2>3 DEF Unanswered, Holds
    <3> QED
      BY <1>1, <1>5, <2>1, <2>3, <3>1, StaysCovered
  <2> QED
    BY <2>2, <2>3
<1>7. KeyTypes'
  BY <1>1, <1>3, <1>5 DEF KeyTypes, KeysConstantsOK
<1> QED
  BY <1>1, <1>4, <1>6, <1>7 DEF KeysInv

LEMMA KeysOtherwise ==
  ASSUME KeysInv, UNCHANGED <<rows, apiKeys, requests, bodies, slips>>,
         time' \in {time, time + 1}, time' \in 0..MaxKeyTime
  PROVE  KeysInv'
<1>1. KeyTypes'
  BY DEF KeysInv, KeyTypes, KeysConstantsOK
<1>2. ASSUME NEW k \in IdemKey PROVE Covered(k)'
  BY DEF KeysInv, Covered, Holds
<1>3. /\ \A s \in Slot : RequestOK(apiKeys', requests[s])
      /\ \A k \in DOMAIN rows : RowOK(apiKeys', time', rows[k])
  BY OKStill DEF Tiered
<1> QED
  BY <1>1, <1>2, <1>3 DEF KeysInv

LEMMA KeysStep == KeysInv /\ [KeysNext]_keyVars => KeysInv'
<1> SUFFICES ASSUME KeysInv, [KeysNext]_keyVars PROVE KeysInv'
  OBVIOUS
<1>0. time \in 0..MaxKeyTime /\ MaxKeyTime \in Nat
  BY DEF KeysInv, KeyTypes, KeysConstantsOK
<1>1. ASSUME NEW s \in Slot, NEW k \in IdemKey \cup {NoKey}, NEW ask \in Issues \cup Revokes,
             Arrive(s, k, ask)
      PROVE  KeysInv'
  BY <1>1, ArriveStep
<1>2. ASSUME NEW s \in Slot, Lookup(s) PROVE KeysInv'
  BY <1>2, LookupStep
<1>3. ASSUME NEW s \in Slot, Issue(s) PROVE KeysInv'
  BY <1>3, IssueStep
<1>4. ASSUME NEW s \in Slot, Revoke(s) PROVE KeysInv'
  BY <1>4, RevokeStep
<1>5. ASSUME NEW s \in Slot, Store(s) PROVE KeysInv'
  BY <1>5, StoreStep
<1>6. ASSUME NEW s \in Slot, Throw(s) \/ Leave(s) PROVE KeysInv'
  <2>1. Gone({s}) /\ {s} \in SUBSET Slot
    BY <1>6 DEF Throw, Leave
  <2> QED
    BY <2>1, GoneStep
<1>7. CASE Crash
  BY <1>7, GoneStep DEF Crash
<1>8. CASE KeysTick
  BY <1>0, <1>8, KeysOtherwise DEF KeysTick
<1>9. CASE UNCHANGED keyVars
  BY <1>0, <1>9, KeysOtherwise DEF keyVars
<1> QED
  BY <1>1, <1>2, <1>3, <1>4, <1>5, <1>6, <1>7, <1>8, <1>9 DEF KeysNext

(* A repeat reaches the body once for each time the protection did not     *)
(* hold, and what is replayed answers the same request, for any number of  *)
(* requests in flight, of keys and of restarts.                            *)
THEOREM RepeatsAreAccountedForHolds == KeysConstantsOK /\ KeysSpec => []RepeatsAreAccountedFor
<1>1. KeysInv => RepeatsAreAccountedFor
  <2> SUFFICES ASSUME KeysInv PROVE RepeatsAreAccountedFor
    OBVIOUS
  <2>1. ASSUME NEW k \in IdemKey PROVE bodies[k] <= 1 + slips[k]
    <3>1. bodies[k] \in Nat /\ slips[k] \in Nat /\ Covered(k)
      BY DEF KeysInv, KeyTypes
    <3> QED
      BY <3>1 DEF Covered
  <2>2. ASSUME NEW s \in Slot, requests[s].at = "done", requests[s].replay
        PROVE  Fits(apiKeys, requests[s].ask.route, requests[s].ask.body, requests[s].answer)
    <3>1. requests[s] \in Request /\ requests[s] # Free /\ RequestOK(apiKeys, requests[s])
      BY <2>2, RequestFields DEF KeysInv
    <3>2. requests[s].replay = TRUE
      BY <2>2, <3>1 DEF Request
    <3> QED
      BY <3>1, <3>2 DEF RequestOK
  <2> QED
    BY <2>1, <2>2 DEF Fits, RepeatsAreAccountedFor
<1> QED
  BY <1>1, KeysBegin, KeysStep, PTL DEF KeysSpec

(* Types of the tables of API keys and of Idempotency-Keys: a stored       *)
(* answer is one of the body's, and a success names a key that exists.     *)
THEOREM KeysTypeCorrect == KeysConstantsOK /\ KeysSpec => []KeysTypeOK
<1>1. KeysInv => KeysTypeOK
  <2> SUFFICES ASSUME KeysInv PROVE KeysTypeOK
    OBVIOUS
  <2>1. /\ KeysConstantsOK /\ time \in 0..MaxKeyTime /\ apiKeys \in Seq(AnApiKey)
        /\ DOMAIN rows \subseteq IdemKey
    BY DEF KeysInv, KeyTypes
  <2>2. \A i \in DOMAIN apiKeys : apiKeys[i].tier \in Tier /\ apiKeys[i].revoked \in BOOLEAN
    <3>1. \A k \in AnApiKey : k.tier \in Tier /\ k.revoked \in BOOLEAN
      BY DEF AnApiKey
    <3>2. \A i \in DOMAIN apiKeys : apiKeys[i] \in AnApiKey
      BY <2>1
    <3> QED
      BY <3>1, <3>2
  <2>3. \A k \in IdemKey : bodies[k] \in 0..MaxBodies
    BY DEF KeysInv, KeyTypes, KeysConstantsOK
  <2>4. \A k \in DOMAIN rows :
          /\ rows[k].expires \in KeyTtl..(time + KeyTtl)
          /\ rows[k].answer.status \in {200, 201, 400, 404}
          /\ rows[k].answer.status \in {200, 201} => rows[k].answer.id \in DOMAIN apiKeys
    BY DEF KeysInv, RowOK, Fits
  <2> QED
    BY <2>1, <2>2, <2>3, <2>4 DEF KeysTypeOK
<1> QED
  BY <1>1, KeysBegin, KeysStep, PTL DEF KeysSpec

-----------------------------------------------------------------------------
(* What follows is about loops over a byte string.  The natural numbers    *)
(* are well founded: shown from the library's facts on finite sets, as the *)
(* initial segments 0..n are ordered like their ends.                      *)
LEMMA LeastNat ==
  ASSUME NEW T \in SUBSET Nat, T # {}
  PROVE  \E n \in T : \A m \in T : n <= m
<1> DEFINE U == {0..n : n \in T}
<1>1. U \subseteq FiniteSubsetsOf(Nat) /\ U # {}
  <2>1. \A n \in T : IsFiniteSet(0..n)
    BY FS_Interval
  <2>2. \A n \in T : 0..n \in SUBSET Nat
    OBVIOUS
  <2> QED
    BY <2>1, <2>2 DEF FiniteSubsetsOf
<1>2. PICK x \in U : \A y \in U : ~ (<<y, x>> \in StrictSubsetOrdering(Nat))
  <2> HIDE DEF U
  <2> QED
    BY <1>1, FS_StrictSubsetOrderingWellFounded, WFMin
<1>3. PICK n \in T : x = 0..n
  OBVIOUS
<1>4. ASSUME NEW m \in T, m < n PROVE FALSE
  <2>1. 0..m \in U
    OBVIOUS
  <2>2. 0..m \subseteq 0..n /\ 0..m # 0..n
    BY <1>4
  <2>3. <<0..m, x>> \in StrictSubsetOrdering(Nat)
    <3>1. 0..m \in SUBSET Nat /\ 0..n \in SUBSET Nat
      OBVIOUS
    <3> QED
      BY <2>2, <3>1, <1>3 DEF StrictSubsetOrdering
  <2> QED
    BY <2>1, <2>3, <1>2
<1>5. \A m \in T : n <= m
  BY <1>4
<1> QED
  BY <1>5

(* What holds at 0 and passes from each number to the next, holds up to n. *)
LEMMA Ladder ==
  ASSUME NEW n \in Nat, NEW T, 0 \in T,
         \A i \in 1..n : i - 1 \in T => i \in T
  PROVE  \A i \in 0..n : i \in T
<1> SUFFICES ASSUME \E i \in 0..n : i \notin T PROVE FALSE
  OBVIOUS
<1> DEFINE U == {i \in 0..n : i \notin T}
<1>1. U \in SUBSET Nat /\ U # {}
  OBVIOUS
<1>2. PICK i \in U : \A j \in U : i <= j
  BY <1>1, LeastNat
<1>3. i \in 1..n /\ i - 1 \notin U
  BY <1>2
<1> QED
  BY <1>2, <1>3

(* The values g of a loop of n turns, of which F is the body.              *)
Runs(n, S, s0, F, g) == g \in [0..n -> S] /\ g[0] = s0 /\ \A i \in 1..n : g[i] = F[i][g[i - 1]]

(* Every such loop has its values.                                         *)
LEMMA LoopRuns ==
  ASSUME NEW n \in Nat, NEW S, NEW s0 \in S, NEW F \in [1..n -> [S -> S]]
  PROVE  \E g : Runs(n, S, s0, F, g)
<1> DEFINE T == {k \in 0..n : \E g : Runs(k, S, s0, F, g)}
<1>1. 0 \in T
  <2> DEFINE g == [i \in 0..0 |-> s0]
  <2>1. Runs(0, S, s0, F, g)
    BY DEF Runs
  <2> QED
    BY <2>1
<1>2. ASSUME NEW k \in 1..n, k - 1 \in T PROVE k \in T
  <2>1. PICK g : Runs(k - 1, S, s0, F, g)
    BY <1>2
  <2>2. g \in [0..(k - 1) -> S] /\ g[0] = s0 /\ \A i \in 1..(k - 1) : g[i] = F[i][g[i - 1]]
    BY <2>1 DEF Runs
  <2> DEFINE h == [i \in 0..k |-> IF i = k THEN F[k][g[k - 1]] ELSE g[i]]
  <2>3. g[k - 1] \in S
    BY <2>2
  <2>4. F[k][g[k - 1]] \in S
    BY <2>3
  <2>5. h \in [0..k -> S]
    BY <2>2, <2>4
  <2>6. h[0] = s0
    BY <2>2
  <2>7. ASSUME NEW i \in 1..k PROVE h[i] = F[i][h[i - 1]]
    <3>1. h[i - 1] = g[i - 1]
      OBVIOUS
    <3>2. CASE i = k
      BY <3>1, <3>2
    <3>3. CASE i # k
      BY <2>2, <3>1, <3>3
    <3> QED
      BY <3>2, <3>3
  <2> HIDE DEF h
  <2>8. Runs(k, S, s0, F, h)
    BY <2>5, <2>6, <2>7 DEF Runs
  <2> QED
    BY <2>8
<1>3. n \in T
  <2> HIDE DEF T
  <2>1. \A k \in 1..n : k - 1 \in T => k \in T
    BY <1>2
  <2>2. \A k \in 0..n : k \in T
    BY <1>1, <2>1, Ladder
  <2> QED
    BY <2>2
<1> QED
  BY <1>3

-----------------------------------------------------------------------------
(* JsonEscape writes a byte in one of four ways.                           *)
LEMMA EscapedKinds ==
  ASSUME NEW c \in Bytes
  PROVE  \/ c \notin {34, 92} /\ c >= 32 /\ EscapedByte(c) = <<c>>
         \/ c \in {34, 92} /\ EscapedByte(c) = <<92, c>>
         \/ c \in DOMAIN Letter /\ EscapedByte(c) = <<92, Letter[c]>>
         \/ /\ c \in 0..31 /\ c \notin DOMAIN Letter
            /\ EscapedByte(c) = <<92, 117, 48, 48, Hex(c \div 16), Hex(c % 16)>>
<1>1. DOMAIN Letter = {8, 9, 10, 12, 13}
  BY DEF Letter
<1>2. Hex(0) = 48
  BY DEF Hex
<1> DEFINE two == c \in {34, 92}
           letter == c \in DOMAIN Letter
           low == c < 32 /\ c \notin DOMAIN Letter
<1>3. CASE two
  <2>1. two /\ ~letter /\ ~low
    BY <1>1, <1>3 DEF Bytes
  <2>2. EscapedByte(c) = <<92, c>>
    BY <2>1, Zenon DEF EscapedByte, Quote, Backslash
  <2> QED
    BY <1>3, <2>2
<1>4. CASE letter
  <2>1. ~two /\ letter /\ ~low
    BY <1>1, <1>4
  <2>2. EscapedByte(c) = <<92, Letter[c]>>
    BY <2>1, Zenon DEF EscapedByte, Quote, Backslash
  <2> QED
    BY <1>4, <2>2
<1>5. CASE low
  <2>1. ~two /\ ~letter /\ low
    BY <1>1, <1>5
  <2>2. EscapedByte(c) = <<92, 117, Hex(0), Hex(0), Hex(c \div 16), Hex(c % 16)>>
    BY <2>1, Zenon DEF EscapedByte, Quote, Backslash, LetterU
  <2> QED
    BY <1>2, <1>5, <2>2 DEF Bytes
<1>6. CASE ~two /\ ~letter /\ ~low
  <2>1. EscapedByte(c) = <<c>>
    BY <1>6, Zenon DEF EscapedByte, Quote, Backslash
  <2>2. c \notin {34, 92} /\ c >= 32
    BY <1>1, <1>6 DEF Bytes
  <2> QED
    BY <2>1, <2>2, Zenon
<1> QED
  BY <1>3, <1>4, <1>5, <1>6

(* The letters of the five bytes that have one.                            *)
LEMMA Letters ==
  /\ DOMAIN Letter = {8, 9, 10, 12, 13}
  /\ Letter[8] = 98 /\ Letter[9] = 116 /\ Letter[10] = 110 /\ Letter[12] = 102 /\ Letter[13] = 114
<1>1. DOMAIN Letter = {8, 9, 10, 12, 13}
  BY DEF Letter
<1> DEFINE L(c) == CASE c = 8 -> 98 [] c = 9 -> 116 [] c = 10 -> 110 [] c = 12 -> 102 [] c = 13 -> 114
<1>2. \A c \in {8, 9, 10, 12, 13} : Letter[c] = L(c)
  BY Zenon DEF Letter
<1>3. L(8) = 98
  <2>1. 8 # 9 /\ 8 # 10 /\ 8 # 12 /\ 8 # 13
    OBVIOUS
  <2> QED
    BY <2>1, Zenon
<1>4. L(9) = 116
  <2>1. 9 # 8 /\ 9 # 10 /\ 9 # 12 /\ 9 # 13
    OBVIOUS
  <2> QED
    BY <2>1, Zenon
<1>5. L(10) = 110
  <2>1. 10 # 9 /\ 10 # 8 /\ 10 # 12 /\ 10 # 13
    OBVIOUS
  <2> QED
    BY <2>1, Zenon
<1>6. L(12) = 102
  <2>1. 12 # 9 /\ 12 # 10 /\ 12 # 8 /\ 12 # 13
    OBVIOUS
  <2> QED
    BY <2>1, Zenon
<1>7. L(13) = 114
  <2>1. 13 # 9 /\ 13 # 10 /\ 13 # 12 /\ 13 # 8
    OBVIOUS
  <2> QED
    BY <2>1, Zenon
<1> HIDE DEF L
<1> QED
  BY <1>1, <1>2, <1>3, <1>4, <1>5, <1>6, <1>7

(* A hex digit reads back, and is neither a quote nor a backslash.         *)
LEMMA Hexes ==
  ASSUME NEW d \in 0..15
  PROVE  Hex(d) \in 48..102 /\ HexValue(Hex(d)) = d /\ Hex(d) \notin {34, 92}
BY DEF Hex, HexValue

(* An escaped byte is a string of bytes.                                   *)
LEMMA EscapedBytes ==
  ASSUME NEW c \in Bytes
  PROVE  EscapedByte(c) \in Seq(Bytes)
<1>1. c \in 0..31 => c \div 16 \in 0..15 /\ c % 16 \in 0..15
  OBVIOUS
<1>2. \A b \in {34, 48, 92, 98, 102, 110, 114, 116, 117} : b \in Bytes
  BY DEF Bytes
<1>3. EscapedByte(c) = <<c>> \/ EscapedByte(c) = <<92, c>> => EscapedByte(c) \in Seq(Bytes)
  <2>1. <<c>> \in Seq(Bytes) /\ <<92, c>> \in Seq(Bytes)
    BY <1>2
  <2> QED
    BY <2>1, Zenon
<1>4. CASE c \in DOMAIN Letter /\ EscapedByte(c) = <<92, Letter[c]>>
  <2>1. Letter[c] \in Bytes
    BY <1>2, <1>4, Letters
  <2> QED
    BY <1>2, <1>4, <2>1
<1>5. CASE c \in 0..31 /\ EscapedByte(c) = <<92, 117, 48, 48, Hex(c \div 16), Hex(c % 16)>>
  <2>1. Hex(c \div 16) \in Bytes /\ Hex(c % 16) \in Bytes
    BY <1>1, <1>5, Hexes, SMTT(30) DEF Bytes
  <2> DEFINE h == Hex(c \div 16)
             g == Hex(c % 16)
  <2> HIDE DEF h, g
  <2>2. <<92, 117, 48, 48, h, g>> \in Seq(Bytes)
    BY <1>2, <2>1 DEF h, g
  <2> QED
    BY <1>5, <2>2 DEF h, g
<1> QED
  BY <1>3, <1>4, <1>5, EscapedKinds

(* The values of a string that grows by a piece a turn.                    *)
Joins(n, piece, out) == out = [i \in 0..n |-> IF i = 0 THEN <<>> ELSE out[i - 1] \o piece[i]]

Joined(n, B, piece, out) ==
  /\ out \in [0..n -> Seq(B)] /\ out[0] = <<>>
  /\ \A i \in 1..n : out[i] = out[i - 1] \o piece[i]

(* Pieces put one after the other make such values.                        *)
LEMMA PiecesExist ==
  ASSUME NEW n \in Nat, NEW B, NEW piece \in [1..n -> Seq(B)]
  PROVE  \E out : Joins(n, piece, out)
<1> DEFINE S == Seq(B)
           F == [i \in 1..n |-> [t \in S |-> t \o piece[i]]]
<1>1. <<>> \in S /\ \A i \in 1..n, t \in S : t \o piece[i] \in S
  OBVIOUS
<1> HIDE DEF S
<1>2. F \in [1..n -> [S -> S]]
  BY <1>1
<1>3. \A i \in 1..n, t \in S : F[i][t] = t \o piece[i]
  OBVIOUS
<1> HIDE DEF F
<1>4. PICK g : Runs(n, S, <<>>, F, g)
  BY <1>1, <1>2, LoopRuns
<1>5. g \in [0..n -> S] /\ g[0] = <<>> /\ \A i \in 1..n : g[i] = F[i][g[i - 1]]
  BY <1>4 DEF Runs
<1>6. \A i \in 1..n : g[i - 1] \in S
  BY <1>5
<1>7. \A i \in 1..n : F[i][g[i - 1]] = g[i - 1] \o piece[i]
  BY <1>3, <1>6
<1>8. g = [i \in 0..n |-> IF i = 0 THEN <<>> ELSE g[i - 1] \o piece[i]]
  <2>1. \A i \in 0..n : i = 0 \/ i \in 1..n
    OBVIOUS
  <2>2. \A i \in 0..n : g[i] = IF i = 0 THEN <<>> ELSE g[i - 1] \o piece[i]
    BY <2>1, <1>5, <1>7, Zenon
  <2> QED
    BY <1>5, <2>2, Zenon
<1> QED
  BY <1>8 DEF Joins

(* They are strings, as the pieces are.                                    *)
LEMMA PiecesJoin ==
  ASSUME NEW n \in Nat, NEW B, NEW piece \in [1..n -> Seq(B)], NEW out, Joins(n, piece, out)
  PROVE  Joined(n, B, piece, out)
<1>1. out[0] = <<>> /\ \A i \in 1..n : out[i] = out[i - 1] \o piece[i]
  <2>1. 0 \in 0..n /\ \A i \in 1..n : i \in 0..n /\ i # 0
    OBVIOUS
  <2> QED
    BY <2>1, Zenon DEF Joins
<1> DEFINE S == Seq(B)
           T == {i \in 0..n : out[i] \in S}
<1>2. <<>> \in S /\ \A i \in 1..n, t \in S : t \o piece[i] \in S
  OBVIOUS
<1> HIDE DEF S
<1>3. 0 \in T /\ \A i \in 1..n : i - 1 \in T => i \in T
  <2>1. 0 \in T
    BY <1>1, <1>2
  <2>2. ASSUME NEW i \in 1..n, i - 1 \in T PROVE i \in T
    <3>1. i - 1 \in 0..n /\ out[i - 1] \in S /\ i \in 0..n
      BY <2>2
    <3>2. out[i] = out[i - 1] \o piece[i]
      BY <1>1
    <3> QED
      BY <1>2, <3>1, <3>2
  <2> QED
    BY <2>1, <2>2
<1>4. \A i \in 0..n : i \in T
  <2> HIDE DEF T
  <2> QED
    BY <1>3, Ladder
<1>5. out \in [0..n -> S]
  BY <1>4 DEF Joins
<1> QED
  BY <1>1, <1>5 DEF S, Joined

(* Each piece stands where the string before it ends.                      *)
Spanned(n, piece, out) ==
  \A i \in 1..n :
    /\ Len(out[i]) = Len(out[i - 1]) + Len(piece[i]) /\ Len(out[i]) <= Len(out[n])
    /\ \A r \in 1..Len(piece[i]) : out[n][Len(out[i - 1]) + r] = piece[i][r]

(* In the whole, every piece stands behind the pieces before it.           *)
LEMMA JoinedSpans ==
  ASSUME NEW n \in Nat, NEW B, NEW piece \in [1..n -> Seq(B)], NEW out, Joined(n, B, piece, out)
  PROVE  Spanned(n, piece, out)
<1>1. ASSUME NEW i \in 1..n
      PROVE  /\ out[i - 1] \in Seq(B) /\ out[i] \in Seq(B) /\ piece[i] \in Seq(B)
             /\ out[i] = out[i - 1] \o piece[i]
  <2>1. i - 1 \in 0..n /\ i \in 0..n
    OBVIOUS
  <2> QED
    BY <2>1, Zenon DEF Joined
<1>2. \A i \in 1..n :
        /\ Len(out[i]) = Len(out[i - 1]) + Len(piece[i])
        /\ Len(out[i - 1]) \in Nat /\ Len(piece[i]) \in Nat
        /\ \A q \in 1..Len(out[i - 1]) : out[i][q] = out[i - 1][q]
        /\ \A r \in 1..Len(piece[i]) : out[i][Len(out[i - 1]) + r] = piece[i][r]
  <2> SUFFICES ASSUME NEW i \in 1..n
               PROVE  /\ Len(out[i]) = Len(out[i - 1]) + Len(piece[i])
                      /\ Len(out[i - 1]) \in Nat /\ Len(piece[i]) \in Nat
                      /\ \A q \in 1..Len(out[i - 1]) : out[i][q] = out[i - 1][q]
                      /\ \A r \in 1..Len(piece[i]) : out[i][Len(out[i - 1]) + r] = piece[i][r]
    OBVIOUS
  <2> DEFINE a == out[i - 1]
             b == piece[i]
  <2>1. a \in Seq(B) /\ b \in Seq(B) /\ out[i] = a \o b
    BY <1>1
  <2> HIDE DEF a, b
  <2>2. /\ Len(a \o b) = Len(a) + Len(b) /\ Len(a) \in Nat /\ Len(b) \in Nat
        /\ \A q \in 1..Len(a) : (a \o b)[q] = a[q]
        /\ \A r \in 1..Len(b) : (a \o b)[Len(a) + r] = b[r]
    BY <2>1
  <2> QED
    BY <2>1, <2>2 DEF a, b
<1> DEFINE Prefix(i, j) == /\ Len(out[i]) <= Len(out[j])
                           /\ \A q \in 1..Len(out[i]) : out[j][q] = out[i][q]
           T == {j \in 0..n : \A i \in 1..n : i <= j => Prefix(i, j)}
<1>3. 0 \in T
  OBVIOUS
<1>4. ASSUME NEW j \in 1..n, j - 1 \in T PROVE j \in T
  <2> SUFFICES ASSUME NEW i \in 1..n, i <= j PROVE Prefix(i, j)
    OBVIOUS
  <2>1. CASE i = j
    <3>1. Len(out[j]) \in Nat
      BY <1>1
    <3> QED
      BY <2>1, <3>1
  <2>2. CASE i < j
    <3>1. Prefix(i, j - 1)
      BY <1>4, <2>2
    <3>2. Len(out[i]) \in Nat
      BY <1>1
    <3> QED
      BY <1>2, <3>1, <3>2, SMTT(30)
  <2> QED
    BY <2>1, <2>2
<1>5. n \in T
  <2> HIDE DEF T
  <2>1. \A j \in 1..n : j - 1 \in T => j \in T
    BY <1>4
  <2>2. \A j \in 0..n : j \in T
    BY <1>3, <2>1, Ladder
  <2> QED
    BY <2>2
<1>6. ASSUME NEW i \in 1..n, NEW r \in 1..Len(piece[i])
      PROVE  out[n][Len(out[i - 1]) + r] = piece[i][r]
  <2>1. Len(out[i - 1]) + r \in 1..Len(out[i])
    BY <1>2
  <2>2. Prefix(i, n)
    <3>1. i <= n
      OBVIOUS
    <3> HIDE DEF Prefix
    <3> QED
      BY <1>5, <3>1
  <2>3. out[n][Len(out[i - 1]) + r] = out[i][Len(out[i - 1]) + r]
    BY <2>1, <2>2
  <2> QED
    BY <1>2, <2>3
<1>7. \A i \in 1..n : Len(out[i]) <= Len(out[n])
  <2> HIDE DEF Prefix
  <2>1. \A i \in 1..n : i <= n /\ Prefix(i, n)
    BY <1>5
  <2> QED
    BY <2>1 DEF Prefix
<1> QED
  BY <1>2, <1>6, <1>7 DEF Spanned

(* JsonEscape writes one byte of the string after the other.               *)
Escapes(s) == [i \in 1..Len(s) |-> EscapedByte(s[i])]

(* What JsonEscape returns is the whole of these pieces.                   *)
LEMMA EscapeLoop ==
  ASSUME NEW s \in Seq(Bytes)
  PROVE  /\ Escapes(s) \in [1..Len(s) -> Seq(Bytes)]
         /\ \E out : Joined(Len(s), Bytes, Escapes(s), out) /\ JsonEscape(s) = out[Len(s)]
<1> DEFINE n == Len(s)
           Turns(out) == [i \in 0..n |-> IF i = 0 THEN <<>> ELSE out[i - 1] \o EscapedByte(s[i])]
           piece == Escapes(s)
           out == CHOOSE out : out = Turns(out)
<1>1. n \in Nat /\ piece \in [1..n -> Seq(Bytes)]
  BY EscapedBytes DEF Escapes
<1>2. JsonEscape(s) = out[n]
  BY Zenon DEF JsonEscape
<1>3. \A g : Turns(g) = [i \in 0..n |-> IF i = 0 THEN <<>> ELSE g[i - 1] \o piece[i]]
  BY <1>1 DEF Escapes
<1>4. \E g : g = Turns(g)
  <2>1. PICK g : Joins(n, piece, g)
    <3> HIDE DEF n, piece
    <3> QED
      BY <1>1, PiecesExist
  <2>2. g = Turns(g)
    BY <1>3, <2>1, Zenon DEF Joins
  <2> QED
    BY <2>2, Zenon
<1>5. out = Turns(out)
  BY <1>4, Zenon
<1>6. Joins(n, piece, out)
  BY <1>3, <1>5, Zenon DEF Joins
<1>7. Joined(n, Bytes, piece, out)
  <2> HIDE DEF n, piece, out
  <2> QED
    BY <1>1, <1>6, PiecesJoin
<1> HIDE DEF out
<1> QED
  BY <1>1, <1>2, <1>7

-----------------------------------------------------------------------------
(* In an escaped string D are the bytes that follow a backslash which      *)
(* escapes: a quote is one of them, and no two are neighbours.             *)
Paired(t, D) ==
  /\ D \subseteq 2..Len(t)
  /\ \A q \in 1..Len(t) : /\ t[q] = 34 => q \in D
                          /\ t[q] = 92 /\ q \notin D => q + 1 \in D
  /\ \A q \in D : t[q - 1] = 92 /\ q - 1 \notin D

(* Another escaped byte keeps quotes behind backslashes.                   *)
LEMMA PairedGrows ==
  ASSUME NEW B, NEW t \in Seq(B), NEW D, Paired(t, D), NEW e \in Seq(B),
         \/ Len(e) = 1 /\ e[1] \notin {34, 92}
         \/ Len(e) = 2 /\ e[1] = 92
         \/ Len(e) = 6 /\ e[1] = 92 /\ \A r \in 3..6 : e[r] \notin {34, 92}
  PROVE  \E D2 : Paired(t \o e, D2)
<1> DEFINE u == t \o e
           m == Len(t)
<1>1. /\ m \in Nat /\ Len(u) = m + Len(e)
      /\ \A q \in 1..m : u[q] = t[q]
      /\ \A r \in 1..Len(e) : u[m + r] = e[r]
  OBVIOUS
<1>2. /\ D \subseteq 2..m
      /\ \A q \in 1..m : (t[q] = 34 => q \in D) /\ (t[q] = 92 /\ q \notin D => q + 1 \in D)
      /\ \A q \in D : t[q - 1] = 92 /\ q - 1 \notin D
  BY DEF Paired
<1> HIDE DEF u, m
<1>3. /\ \A q \in 1..m : (u[q] = 34 => q \in D) /\ (u[q] = 92 /\ q \notin D => q + 1 \in D)
      /\ \A q \in D : u[q - 1] = 92 /\ q - 1 \notin D
  <2>1. ASSUME NEW q \in D PROVE u[q - 1] = 92 /\ q - 1 \notin D
    <3>1. q \in 2..m
      BY <1>2
    <3>2. q - 1 \in 1..m
      BY <1>1, <3>1
    <3>3. u[q - 1] = t[q - 1]
      BY <1>1, <3>2
    <3> QED
      BY <1>2, <3>3, Zenon
  <2> QED
    BY <1>1, <1>2, <2>1
<1>4. CASE Len(e) = 1 /\ e[1] \notin {34, 92}
  <2>1. Len(u) = m + 1 /\ u[m + 1] \notin {34, 92}
    BY <1>1, <1>4
  <2>2. \A q \in 1..Len(u) : q \in 1..m \/ q = m + 1
    BY <1>1, <2>1
  <2>3. Paired(u, D)
    BY <1>1, <1>2, <1>3, <2>1, <2>2 DEF Paired
  <2> QED
    BY <2>3 DEF u
<1>5. CASE Len(e) \in {2, 6} /\ e[1] = 92 /\ \A r \in 3..Len(e) : e[r] \notin {34, 92}
  <2> DEFINE D2 == D \cup {m + 2}
  <2>1. /\ Len(u) = m + Len(e) /\ u[m + 1] = 92
        /\ \A r \in 3..Len(e) : u[m + r] \notin {34, 92}
    BY <1>1, <1>5
  <2>2. D2 \subseteq 2..Len(u)
    <3>1. Len(u) \in Nat /\ m + 2 \in 2..Len(u)
      <4>1. Len(e) = 2 \/ Len(e) = 6
        BY <1>5
      <4>2. Len(u) = m + 2 \/ Len(u) = m + 6
        BY <2>1, <4>1
      <4> QED
        BY <1>1, <4>2
    <3>2. 2..m \subseteq 2..Len(u)
      BY <1>1, <3>1
    <3>3. D \subseteq 2..Len(u)
      BY <1>2, <3>2
    <3>4. ASSUME NEW x \in D2
          PROVE  x \in 2..Len(u)
      <4>1. x \in D \/ x = m + 2
        OBVIOUS
      <4>2. CASE x \in D
        BY <3>3, <4>2
      <4>3. CASE x = m + 2
        BY <3>1, <4>3
      <4> QED
        BY <4>1, <4>2, <4>3
    <3> QED
      BY <3>4, Zenon
  <2>3. ASSUME NEW q \in 1..Len(u)
        PROVE  (u[q] = 34 => q \in D2) /\ (u[q] = 92 /\ q \notin D2 => q + 1 \in D2)
    <3>1. q \in 1..m \/ q = m + 1 \/ q = m + 2 \/ \E r \in 3..Len(e) : q = m + r
      <4>1. q \in 1..m \/ q = m + 1 \/ q = m + 2 \/ q - m \in 3..Len(e)
        BY <1>1, <1>5, <2>1
      <4>2. q = m + (q - m)
        BY <1>1
      <4> QED
        BY <4>1, <4>2
    <3>2. CASE q \in 1..m
      BY <1>3, <3>2
    <3>3. CASE q = m + 1
      BY <1>1, <2>1, <3>3
    <3>4. CASE q = m + 2
      BY <3>4
    <3>5. CASE \E r \in 3..Len(e) : q = m + r
      BY <2>1, <3>5
    <3> QED
      BY <3>1, <3>2, <3>3, <3>4, <3>5
  <2>4. ASSUME NEW q \in D2 PROVE u[q - 1] = 92 /\ q - 1 \notin D2
    <3>1. CASE q \in D
      BY <1>1, <1>2, <1>3, <3>1
    <3>2. CASE q = m + 2
      BY <1>1, <1>2, <2>1, <3>2
    <3> QED
      BY <3>1, <3>2
  <2> HIDE DEF D2
  <2>5. Paired(u, D2)
    BY <2>2, <2>3, <2>4 DEF Paired
  <2> QED
    BY <2>5 DEF u
<1> QED
  BY <1>4, <1>5, SMTT(30)

(* The three forms of an escaped byte, and how each reads back.            *)
LEMMA EscapedKindsOf ==
  ASSUME NEW c \in Bytes, NEW e, e = EscapedByte(c)
  PROVE  \/ Len(e) = 1 /\ e[1] = c /\ c \notin {34, 92}
         \/ /\ Len(e) = 2 /\ e[1] = 92
            /\ \/ c \in {34, 92} /\ e[2] = c
               \/ c \in DOMAIN Letter /\ e[2] = Letter[c]
         \/ /\ Len(e) = 6 /\ e[1] = 92 /\ e[2] = 117 /\ \A r \in 3..6 : e[r] \notin {34, 92}
            /\ HexValue(e[5]) * 16 + HexValue(e[6]) = c
<1>1. CASE c \notin {34, 92} /\ EscapedByte(c) = <<c>>
  BY <1>1
<1>2. CASE c \in {34, 92} /\ EscapedByte(c) = <<92, c>>
  <2>1. Len(e) = 2 /\ e[1] = 92 /\ e[2] = c
    BY <1>2
  <2>2. c \in {34, 92} /\ e[2] = c
    BY <1>2, <2>1, Zenon
  <2>3. Len(e) = 2 /\ e[1] = 92
    BY <2>1, Zenon
  <2> QED
    BY <2>2, <2>3, Zenon
<1>3. CASE c \in DOMAIN Letter /\ EscapedByte(c) = <<92, Letter[c]>>
  <2>1. Len(e) = 2 /\ e[1] = 92 /\ e[2] = Letter[c]
    BY <1>3
  <2> QED
    BY <1>3, <2>1, Zenon
<1>4. CASE c \in 0..31 /\ EscapedByte(c) = <<92, 117, 48, 48, Hex(c \div 16), Hex(c % 16)>>
  <2> DEFINE h == Hex(c \div 16)
             g == Hex(c % 16)
  <2>1. c \div 16 \in 0..15 /\ c % 16 \in 0..15 /\ (c \div 16) * 16 + (c % 16) = c
    BY <1>4
  <2>2. h \notin {34, 92} /\ g \notin {34, 92} /\ HexValue(h) * 16 + HexValue(g) = c
    BY <2>1, Hexes
  <2> HIDE DEF h, g
  <2>3. Len(e) = 6 /\ e[1] = 92 /\ e[2] = 117 /\ e[3] = 48 /\ e[4] = 48 /\ e[5] = h /\ e[6] = g
    BY <1>4 DEF h, g
  <2>4. \A r \in 3..6 : r = 3 \/ r = 4 \/ r = 5 \/ r = 6
    OBVIOUS
  <2>5. \A r \in 3..6 : e[r] \notin {34, 92}
    BY <2>2, <2>3, <2>4
  <2>6. HexValue(e[5]) * 16 + HexValue(e[6]) = c
    BY <2>2, <2>3, Zenon
  <2> QED
    BY <2>3, <2>5, <2>6, Zenon
<1> QED
  BY <1>1, <1>2, <1>3, <1>4, EscapedKinds

(* An escaped string is paired.                                            *)
LEMMA EscapedIsPaired ==
  ASSUME NEW s \in Seq(Bytes)
  PROVE  JsonEscape(s) \in Seq(Bytes) /\ \E D : Paired(JsonEscape(s), D)
<1> DEFINE n == Len(s)
           piece == Escapes(s)
<1>1. n \in Nat /\ piece \in [1..n -> Seq(Bytes)]
  BY EscapeLoop
<1>2. PICK out : Joined(n, Bytes, piece, out) /\ JsonEscape(s) = out[n]
  BY EscapeLoop
<1>3. ASSUME NEW i \in 1..n
      PROVE  /\ \/ Len(piece[i]) = 1 /\ piece[i][1] \notin {34, 92}
                \/ Len(piece[i]) = 2 /\ piece[i][1] = 92
                \/ Len(piece[i]) = 6 /\ piece[i][1] = 92 /\ \A r \in 3..6 : piece[i][r] \notin {34, 92}
  <2>1. s[i] \in Bytes /\ piece[i] = EscapedByte(s[i])
    BY DEF Escapes
  <2> QED
    BY <2>1, EscapedKindsOf
<1> HIDE DEF n, piece
<1> DEFINE T == {i \in 0..n : \E D : Paired(out[i], D)}
<1>4. out[0] = <<>> /\ \A i \in 0..n : out[i] \in Seq(Bytes)
  BY <1>2, Zenon DEF Joined
<1>5. 0 \in T
  <2>1. Paired(out[0], {})
    BY <1>4 DEF Paired
  <2> QED
    BY <1>1, <2>1
<1>6. ASSUME NEW i \in 1..n, i - 1 \in T PROVE i \in T
  <2>1. PICK D : Paired(out[i - 1], D)
    BY <1>6
  <2>2. i - 1 \in 0..n /\ i \in 0..n
    BY <1>1
  <2>3. out[i - 1] \in Seq(Bytes) /\ piece[i] \in Seq(Bytes) /\ out[i] = out[i - 1] \o piece[i]
    BY <1>1, <1>2, <2>2, Zenon DEF Joined
  <2>4. \E D2 : Paired(out[i - 1] \o piece[i], D2)
    <3> DEFINE t == out[i - 1]
               e == piece[i]
    <3>1. t \in Seq(Bytes) /\ e \in Seq(Bytes) /\ Paired(t, D)
      BY <2>1, <2>3
    <3>2. \/ Len(e) = 1 /\ e[1] \notin {34, 92}
          \/ Len(e) = 2 /\ e[1] = 92
          \/ Len(e) = 6 /\ e[1] = 92 /\ \A r \in 3..6 : e[r] \notin {34, 92}
      BY <1>3
    <3> HIDE DEF t, e
    <3>3. \E D2 : Paired(t \o e, D2)
      BY <3>1, <3>2, PairedGrows
    <3> QED
      BY <3>3 DEF t, e
  <2> QED
    BY <2>2, <2>3, <2>4
<1>7. n \in T
  <2> HIDE DEF T
  <2>1. \A i \in 1..n : i - 1 \in T => i \in T
    BY <1>6
  <2>2. \A i \in 0..n : i \in T
    BY <1>1, <1>5, <2>1, Ladder
  <2> QED
    BY <1>1, <2>2
<1> QED
  BY <1>1, <1>2, <1>4, <1>7

-----------------------------------------------------------------------------
(* A turn of JsonUnescape reads what JsonEscape wrote for one byte.        *)
LEMMA UnescapedTurn ==
  ASSUME NEW t \in Seq(Bytes), NEW c \in Bytes, NEW e, e = EscapedByte(c),
         NEW p \in Nat, p + Len(e) <= Len(t), \A r \in 1..Len(e) : t[p + r] = e[r],
         NEW acc, acc.i = p + 1
  PROVE  Unescaped(t, acc) = [i |-> p + 1 + Len(e), out |-> Append(acc.out, c)]
<1> DEFINE i == acc.i
           n == t[i + 1]
           ended == i > Len(t)
           plain == i <= Len(t) /\ (t[i] # Backslash \/ i = Len(t))
           escaped == i < Len(t) /\ t[i] = Backslash
           hex == n = LetterU /\ i + 5 <= Len(t)
           short == n = LetterU /\ i + 5 > Len(t)
           letter == \E b \in DOMAIN Letter : Letter[b] = n
           Further(to, byte) == [i |-> to, out |-> Append(acc.out, byte)]
<1>1. Len(t) \in Nat
  OBVIOUS
<1>2. CASE Len(e) = 1 /\ e[1] = c /\ c \notin {34, 92}
  <2>1. ~ended /\ plain /\ ~escaped /\ t[i] = c /\ i + 1 = p + 1 + Len(e)
    BY <1>1, <1>2 DEF Backslash
  <2>2. Unescaped(t, acc) = Further(i + 1, t[i])
    BY <2>1, Zenon DEF Unescaped
  <2> QED
    BY <2>1, <2>2, Zenon
<1>3. CASE /\ Len(e) = 2 /\ e[1] = 92
           /\ \/ c \in {34, 92} /\ e[2] = c
              \/ c \in DOMAIN Letter /\ e[2] = Letter[c]
  <2>1. ~ended /\ ~plain /\ escaped /\ n = e[2] /\ i + 2 = p + 1 + Len(e)
    BY <1>1, <1>3 DEF Backslash
  <2>2. n # LetterU
    BY <1>3, <2>1, Letters DEF LetterU
  <2>3. CASE c \in DOMAIN Letter /\ n = Letter[c]
    <3>1. (CHOOSE b \in DOMAIN Letter : Letter[b] = n) = c
      BY <2>3, Letters
    <3>2. ~hex /\ ~short /\ letter
      BY <2>2, <2>3
    <3>3. Unescaped(t, acc) = Further(i + 2, CHOOSE b \in DOMAIN Letter : Letter[b] = n)
      BY <2>1, <3>2, Zenon DEF Unescaped
    <3> QED
      BY <2>1, <3>1, <3>3, Zenon
  <2>4. CASE c \in {34, 92} /\ n = c
    <3>1. ~hex /\ ~short /\ ~letter
      BY <2>2, <2>4, Letters
    <3>2. Unescaped(t, acc) = Further(i + 2, n)
      BY <2>1, <3>1, Zenon DEF Unescaped
    <3> QED
      BY <2>1, <2>4, <3>2, Zenon
  <2> QED
    BY <1>3, <2>1, <2>3, <2>4
<1>4. CASE /\ Len(e) = 6 /\ e[1] = 92 /\ e[2] = 117 /\ \A r \in 3..6 : e[r] \notin {34, 92}
           /\ HexValue(e[5]) * 16 + HexValue(e[6]) = c
  <2>1. ~ended /\ ~plain /\ escaped /\ i + 6 = p + 1 + Len(e)
    BY <1>1, <1>4, SMTT(30) DEF Backslash
  <2>2. hex /\ ~short
    BY <1>1, <1>4 DEF LetterU
  <2>3. ~letter
    BY <2>2, Letters, SMTT(30) DEF LetterU
  <2>4. Unescaped(t, acc) = Further(i + 6, HexValue(t[i + 4]) * 16 + HexValue(t[i + 5]))
    BY <2>1, <2>2, <2>3, Zenon DEF Unescaped
  <2>5. t[i + 4] = e[5] /\ t[i + 5] = e[6]
    BY <1>4
  <2> QED
    BY <1>4, <2>1, <2>4, <2>5, ZenonT(30)
<1> QED
  BY <1>2, <1>3, <1>4, EscapedKindsOf

(* Whatever a string is made of, JsonUnescape gives back what JsonEscape   *)
(* took.                                                                   *)
THEOREM UnescapeInvertsEscape ==
  ASSUME NEW s \in Seq(Bytes)
  PROVE  JsonUnescape(JsonEscape(s)) = s
<1> DEFINE n == Len(s)
           piece == Escapes(s)
           t == JsonEscape(s)
           m == Len(t)
<1>1. n \in Nat /\ piece \in [1..n -> Seq(Bytes)] /\ \A k \in 1..n : piece[k] = EscapedByte(s[k])
  BY EscapeLoop DEF Escapes
<1>2. PICK out : Joined(n, Bytes, piece, out) /\ t = out[n]
  BY EscapeLoop
<1> DEFINE cut == [k \in 0..n |-> Len(out[k])]
<1>3. t \in Seq(Bytes) /\ m \in Nat
  BY EscapedIsPaired
<1> HIDE DEF t, piece
<1>4. /\ cut \in [0..n -> Nat] /\ cut[0] = 0 /\ cut[n] = m
      /\ \A k \in 1..n :
           /\ cut[k] = cut[k - 1] + Len(piece[k]) /\ cut[k] <= m
           /\ \A r \in 1..Len(piece[k]) : t[cut[k - 1] + r] = piece[k][r]
  <2>1. \A k \in 0..n : out[k] \in Seq(Bytes)
    BY <1>2, Zenon DEF Joined
  <2>2. out[0] = <<>>
    BY <1>2 DEF Joined
  <2>3. /\ cut \in [0..n -> Nat] /\ cut[0] = 0 /\ cut[n] = m
    BY <1>1, <1>2, <2>1, <2>2
  <2>4. \A k \in 1..n : cut[k] = Len(out[k]) /\ cut[k - 1] = Len(out[k - 1])
    BY <1>1
  <2> HIDE DEF n, cut, m
  <2>5. \A k \in 1..n :
           /\ Len(out[k]) = Len(out[k - 1]) + Len(piece[k]) /\ Len(out[k]) <= Len(out[n])
           /\ \A r \in 1..Len(piece[k]) : out[n][Len(out[k - 1]) + r] = piece[k][r]
    <3>1. Spanned(n, piece, out)
      BY <1>1, <1>2, JoinedSpans
    <3> QED
      BY <3>1 DEF Spanned
  <2> QED
    BY <1>2, <2>3, <2>4, <2>5, Zenon DEF m
<1> HIDE DEF n, cut, m
<1> DEFINE Turns(turn) == [k \in 0..m |-> IF k = 0 THEN [i |-> 1, out |-> <<>>] ELSE Unescaped(t, turn[k - 1])]
           Reached(k) == [i |-> cut[k] + 1, out |-> SubSeq(s, 1, k)]
           w == [k \in 0..m |-> IF k <= n THEN Reached(k) ELSE Reached(n)]
           turn == CHOOSE turn : turn = Turns(turn)
<1>5. ASSUME NEW k \in 1..n PROVE Unescaped(t, Reached(k - 1)) = Reached(k)
  <2>1. s[k] \in Bytes /\ piece[k] = EscapedByte(s[k])
    BY <1>1 DEF n
  <2>2. cut[k - 1] \in Nat /\ cut[k] = cut[k - 1] + Len(piece[k]) /\ cut[k] <= m
    BY <1>1, <1>4
  <2>3. \A r \in 1..Len(piece[k]) : t[cut[k - 1] + r] = piece[k][r]
    BY <1>4
  <2> DEFINE acc == Reached(k - 1)
  <2>4. acc.i = cut[k - 1] + 1 /\ acc.out = SubSeq(s, 1, k - 1)
    OBVIOUS
  <2>5. Append(SubSeq(s, 1, k - 1), s[k]) = SubSeq(s, 1, k)
    BY <1>1 DEF n
  <2> HIDE DEF acc
  <2>6. Unescaped(t, acc) = [i |-> cut[k - 1] + 1 + Len(piece[k]), out |-> Append(acc.out, s[k])]
    <3> DEFINE c == s[k]
               e == piece[k]
               p == cut[k - 1]
    <3>1. /\ c \in Bytes /\ e = EscapedByte(c) /\ p \in Nat /\ p + Len(e) <= Len(t)
          /\ \A r \in 1..Len(e) : t[p + r] = e[r]
          /\ acc.i = p + 1
      BY <2>1, <2>2, <2>3, <2>4 DEF m
    <3> HIDE DEF c, e, p
    <3>2. Unescaped(t, acc) = [i |-> p + 1 + Len(e), out |-> Append(acc.out, c)]
      BY <1>3, <3>1, UnescapedTurn, ZenonT(40)
    <3> QED
      BY <3>2 DEF c, e, p
  <2>7. cut[k - 1] + 1 + Len(piece[k]) = cut[k] + 1
    <3>1. piece[k] \in Seq(Bytes)
      BY <1>1
    <3>2. Len(piece[k]) \in Nat
      BY <3>1
    <3>3. cut[k - 1] \in Nat /\ cut[k] = cut[k - 1] + Len(piece[k])
      BY <2>2
    <3> HIDE DEF cut
    <3> QED
      BY <3>2, <3>3
  <2> QED
    BY <2>4, <2>5, <2>6, <2>7, Zenon DEF acc
<1>6. Unescaped(t, Reached(n)) = Reached(n)
  <2> DEFINE acc == Reached(n)
  <2>1. acc.i = m + 1
    BY <1>4
  <2> HIDE DEF acc
  <2>2. acc.i > Len(t) /\ ~(acc.i <= Len(t)) /\ ~(acc.i < Len(t))
    BY <1>3, <2>1 DEF m
  <2>3. Unescaped(t, acc) = acc
    BY <2>2, Zenon DEF Unescaped
  <2> QED
    BY <2>3 DEF acc
<1>7. n <= m
  <2> DEFINE T == {k \in 0..n : k <= cut[k]}
  <2>1. 0 \in T
    BY <1>1, <1>4
  <2>2. ASSUME NEW k \in 1..n, k - 1 \in T PROVE k \in T
    <3>1. s[k] \in Bytes /\ piece[k] = EscapedByte(s[k])
      BY <1>1 DEF n
    <3>2. Len(piece[k]) \in Nat /\ Len(piece[k]) >= 1
      BY <3>1, EscapedKindsOf
    <3>3. cut[k - 1] \in Nat /\ cut[k] = cut[k - 1] + Len(piece[k])
      BY <1>1, <1>4
    <3> QED
      BY <1>1, <2>2, <3>2, <3>3
  <2>3. \A k \in 0..n : k \in T
    <3> HIDE DEF T
    <3> QED
      BY <1>1, <2>1, <2>2, Ladder
  <2> QED
    BY <1>1, <1>4, <2>3
<1>8. w[0] = [i |-> 1, out |-> <<>>] /\ \A k \in 1..m : w[k] = Unescaped(t, w[k - 1])
  <2>1. w[0] = [i |-> 1, out |-> <<>>]
    <3>1. w[0] = Reached(0)
      BY <1>1, <1>3
    <3>2. SubSeq(s, 1, 0) = <<>>
      OBVIOUS
    <3> QED
      BY <1>4, <3>1, <3>2
  <2> HIDE DEF Reached
  <2>2. ASSUME NEW k \in 1..m PROVE w[k] = Unescaped(t, w[k - 1])
    <3>1. CASE k <= n
      <4>1. k \in 1..n /\ w[k] = Reached(k) /\ w[k - 1] = Reached(k - 1)
        BY <1>1, <1>3, <3>1
      <4> HIDE DEF w
      <4> QED
        BY <1>5, <4>1
    <3>2. CASE ~(k <= n)
      <4>1. w[k] = Reached(n) /\ w[k - 1] = Reached(n)
        BY <1>1, <1>3, <3>2
      <4> HIDE DEF w
      <4> QED
        BY <1>6, <4>1
    <3> QED
      BY <3>1, <3>2
  <2> QED
    BY <2>1, <2>2
<1>9. w = Turns(w)
  <2>1. \A k \in 0..m : k = 0 \/ k \in 1..m
    BY <1>3
  <2>2. w = [k \in 0..m |-> w[k]]
    BY Zenon
  <2> HIDE DEF w
  <2>3. \A k \in 0..m : w[k] = IF k = 0 THEN [i |-> 1, out |-> <<>>] ELSE Unescaped(t, w[k - 1])
    BY <1>8, <2>1, Zenon
  <2> QED
    BY <2>2, <2>3, Zenon
<1>10. turn = Turns(turn)
  BY <1>9, Zenon
<1>11. turn[m] = w[m]
  <2> HIDE DEF turn, w
  <2>1. 0 \in 0..m /\ \A k \in 1..m : k \in 0..m /\ k # 0
    BY <1>3
  <2>2. turn[0] = [i |-> 1, out |-> <<>>] /\ \A k \in 1..m : turn[k] = Unescaped(t, turn[k - 1])
    BY <1>10, <2>1, Zenon
  <2> DEFINE T == {k \in 0..m : turn[k] = w[k]}
  <2>3. 0 \in T
    BY <1>8, <2>1, <2>2, Zenon
  <2>4. \A k \in 1..m : k - 1 \in T => k \in T
    BY <1>8, <2>1, <2>2, Zenon
  <2>5. \A k \in 0..m : k \in T
    <3> HIDE DEF T
    <3> QED
      BY <1>3, <2>3, <2>4, Ladder
  <2> QED
    BY <1>3, <2>5
<1>12. JsonUnescape(t) = turn[m].out
  BY Zenon DEF JsonUnescape, m
<1>13. w[m] = Reached(n)
  BY <1>1, <1>3, <1>7
<1>14. SubSeq(s, 1, n) = s
  BY DEF n
<1> HIDE DEF turn, w
<1>15. turn[m].out = s
  BY <1>11, <1>13, <1>14
<1> QED
  BY <1>12, <1>15 DEF t

-----------------------------------------------------------------------------
(* Base64.  Quotient and remainder, from a decomposition.                  *)
LEMMA Quotients ==
  ASSUME NEW q \in Nat, NEW r \in Nat, NEW w, TRUE
  PROVE  /\ w = 64 * q + r /\ r < 64 => w \div 64 = q /\ w % 64 = r
         /\ w = 256 * q + r /\ r < 256 => w \div 256 = q /\ w % 256 = r
         /\ w = 4096 * q + r /\ r < 4096 => w \div 4096 = q /\ w % 4096 = r
         /\ w = 16384 * q + r /\ r < 16384 => w \div 16384 = q /\ w % 16384 = r
         /\ w = 262144 * q + r /\ r < 262144 => w \div 262144 = q /\ w % 262144 = r
         /\ w = 16 * q + r /\ r < 16 => w \div 16 = q /\ w % 16 = r
         /\ w = 4 * q + r /\ r < 4 => w \div 4 = q /\ w % 4 = r
  OBVIOUS

(* The parts of a byte that Base64 cuts it into.                           *)
LEMMA Parts ==
  ASSUME NEW x \in Bytes
  PROVE  /\ x \div 4 \in 0..63 /\ x % 4 \in 0..3 /\ x = 4 * (x \div 4) + (x % 4)
         /\ x \div 16 \in 0..15 /\ x % 16 \in 0..15 /\ x = 16 * (x \div 16) + (x % 16)
         /\ x \div 64 \in 0..3 /\ x % 64 \in 0..63 /\ x = 64 * (x \div 64) + (x % 64)
<1>1. x \in 0..255
  BY DEF Bytes
<1>2. x \div 4 \in 0..63 /\ x % 4 \in 0..3 /\ x = 4 * (x \div 4) + (x % 4)
  BY <1>1
<1>3. x \div 16 \in 0..15 /\ x % 16 \in 0..15 /\ x = 16 * (x \div 16) + (x % 16)
  BY <1>1
<1>4. x \div 64 \in 0..3 /\ x % 64 \in 0..63 /\ x = 64 * (x \div 64) + (x % 64)
  BY <1>1
<1> QED
  BY <1>2, <1>3, <1>4

(* The four characters of a word of three bytes.                           *)
LEMMA Sixes ==
  ASSUME NEW x \in Bytes, NEW y \in Bytes, NEW z \in Bytes, NEW w, w = x * 65536 + y * 256 + z
  PROVE  /\ (w \div 262144) % 64 = x \div 4
         /\ (w \div 4096) % 64 = (x % 4) * 16 + (y \div 16)
         /\ (w \div 64) % 64 = (y % 16) * 4 + (z \div 64)
         /\ (w \div 1) % 64 = z % 64
<1> DEFINE a == x \div 4
           b == x % 4
           c == y \div 16
           d == y % 16
           e == z \div 64
           f == z % 64
<1>1. a \in 0..63 /\ b \in 0..3 /\ x = 4 * a + b
  BY Parts
<1>2. c \in 0..15 /\ d \in 0..15 /\ y = 16 * c + d
  BY Parts
<1>3. e \in 0..3 /\ f \in 0..63 /\ z = 64 * e + f
  BY Parts
<1> HIDE DEF a, b, c, d, e, f
<1>4. w = 262144 * a + 65536 * b + 4096 * c + 256 * d + 64 * e + f
  BY <1>1, <1>2, <1>3
<1>5. (w \div 262144) % 64 = a
  <2>1. w = 262144 * a + (65536 * b + 4096 * c + 256 * d + 64 * e + f)
    BY <1>1, <1>2, <1>3, <1>4
  <2>2. w \div 262144 = a
    <3> DEFINE r == 65536 * b + 4096 * c + 256 * d + 64 * e + f
    <3>1. r \in Nat /\ r < 262144 /\ a \in Nat /\ w = 262144 * a + r
      BY <1>1, <1>2, <1>3, <2>1
    <3> HIDE DEF r
    <3> QED
      BY <3>1
  <2> QED
    BY <1>1, <2>2
<1>6. (w \div 4096) % 64 = b * 16 + c
  <2>1. w \div 4096 = 64 * a + (16 * b + c)
    BY <1>1, <1>2, <1>3, <1>4, Quotients
  <2> QED
    BY <1>1, <1>2, <2>1
<1>7. (w \div 64) % 64 = d * 4 + e
  <2>1. w \div 64 = 64 * (64 * a + 16 * b + c) + (4 * d + e)
    BY <1>1, <1>2, <1>3, <1>4
  <2> QED
    BY <1>1, <1>2, <1>3, <2>1
<1>8. (w \div 1) % 64 = f
  <2>1. w \div 1 = 64 * (4096 * a + 1024 * b + 64 * c + 4 * d + e) + f
    BY <1>1, <1>2, <1>3, <1>4
  <2> QED
    BY <1>1, <1>2, <1>3, <2>1
<1> QED
  BY <1>5, <1>6, <1>7, <1>8 DEF a, b, c, d, e, f

(* What the loops shift by.                                                *)
LEMMA Powers == 64 ^ 0 = 1 /\ 64 ^ 1 = 64 /\ 64 ^ 2 = 4096 /\ 64 ^ 3 = 262144
  OBVIOUS

(* Past the end stand zeros.                                               *)
LEMMA BytesPast ==
  ASSUME NEW b \in Seq(Bytes), NEW i \in Int, i >= 1
  PROVE  Byte(b, i) \in Bytes
<1>1. 0 \in Bytes
  BY DEF Bytes
<1>2. CASE i <= Len(b)
  <2>1. b[i] \in Bytes
    BY <1>2
  <2> QED
    BY <1>2, <2>1 DEF Byte
<1>3. CASE ~(i <= Len(b))
  BY <1>1, <1>3 DEF Byte
<1> QED
  BY <1>2, <1>3

(* The characters of three bytes.                                          *)
Word(b, i) == Byte(b, i) * 65536 + Byte(b, i + 1) * 256 + Byte(b, i + 2)
EncodedChar(b, k) == (Word(b, 3 * ((k - 1) \div 4) + 1) \div (64 ^ (3 - ((k - 1) % 4)))) % 64
EncodedLen(b) == (Len(b) * 4 + 2) \div 3

(* The characters of three bytes, from the bytes.                          *)
LEMMA EncodedOfThree ==
  ASSUME NEW b \in Seq(Bytes), NEW q \in Nat, NEW x, NEW y, NEW z,
         x = Byte(b, 3 * q + 1), y = Byte(b, 3 * q + 2), z = Byte(b, 3 * q + 3)
  PROVE  /\ x \in Bytes /\ y \in Bytes /\ z \in Bytes
         /\ EncodedChar(b, 4 * q + 1) = x \div 4
         /\ EncodedChar(b, 4 * q + 2) = (x % 4) * 16 + (y \div 16)
         /\ EncodedChar(b, 4 * q + 3) = (y % 16) * 4 + (z \div 64)
         /\ EncodedChar(b, 4 * q + 4) = z % 64
<1>1. x \in Bytes /\ y \in Bytes /\ z \in Bytes
  BY BytesPast
<1> DEFINE w == Word(b, 3 * q + 1)
<1>2. w = x * 65536 + y * 256 + z
  BY SMT DEF Word
<1>3. /\ (4 * q + 1 - 1) \div 4 = q /\ 3 - ((4 * q + 1 - 1) % 4) = 3
      /\ (4 * q + 2 - 1) \div 4 = q /\ 3 - ((4 * q + 2 - 1) % 4) = 2
      /\ (4 * q + 3 - 1) \div 4 = q /\ 3 - ((4 * q + 3 - 1) % 4) = 1
      /\ (4 * q + 4 - 1) \div 4 = q /\ 3 - ((4 * q + 4 - 1) % 4) = 0
  OBVIOUS
<1> HIDE DEF w
<1>4. /\ (w \div 262144) % 64 = x \div 4
      /\ (w \div 4096) % 64 = (x % 4) * 16 + (y \div 16)
      /\ (w \div 64) % 64 = (y % 16) * 4 + (z \div 64)
      /\ (w \div 1) % 64 = z % 64
  BY <1>1, <1>2, Sixes, SMT
<1>5. ASSUME NEW k \in Nat, (k - 1) \div 4 = q
      PROVE  EncodedChar(b, k) = (w \div (64 ^ (3 - ((k - 1) % 4)))) % 64
  BY <1>5, SMT DEF EncodedChar, w
<1>6. EncodedChar(b, 4 * q + 1) = x \div 4
  <2>1. EncodedChar(b, 4 * q + 1) = (w \div (64 ^ (3 - ((4 * q + 1 - 1) % 4)))) % 64
    BY <1>3, <1>5, SMT
  <2>2. 64 ^ (3 - ((4 * q + 1 - 1) % 4)) = 64 ^ 3
    BY <1>3, Zenon
  <2>3. EncodedChar(b, 4 * q + 1) = (w \div (64 ^ 3)) % 64
    BY <2>1, <2>2, Zenon
  <2> QED
    BY <1>4, <2>3, SMT
<1>7. EncodedChar(b, 4 * q + 2) = (x % 4) * 16 + (y \div 16)
  <2>1. EncodedChar(b, 4 * q + 2) = (w \div (64 ^ (3 - ((4 * q + 2 - 1) % 4)))) % 64
    BY <1>3, <1>5, SMT
  <2>2. 64 ^ (3 - ((4 * q + 2 - 1) % 4)) = 64 ^ 2
    BY <1>3, Zenon
  <2>3. EncodedChar(b, 4 * q + 2) = (w \div (64 ^ 2)) % 64
    BY <2>1, <2>2, Zenon
  <2> QED
    BY <1>4, <2>3, SMT
<1>8. EncodedChar(b, 4 * q + 3) = (y % 16) * 4 + (z \div 64)
  <2>1. EncodedChar(b, 4 * q + 3) = (w \div (64 ^ (3 - ((4 * q + 3 - 1) % 4)))) % 64
    BY <1>3, <1>5, SMT
  <2>2. 64 ^ (3 - ((4 * q + 3 - 1) % 4)) = 64 ^ 1
    BY <1>3, Zenon
  <2>3. EncodedChar(b, 4 * q + 3) = (w \div (64 ^ 1)) % 64
    BY <2>1, <2>2, Zenon
  <2> QED
    BY <1>4, <2>3, SMT
<1>9. EncodedChar(b, 4 * q + 4) = z % 64
  <2>1. EncodedChar(b, 4 * q + 4) = (w \div (64 ^ (3 - ((4 * q + 4 - 1) % 4)))) % 64
    BY <1>3, <1>5, SMT
  <2>2. 64 ^ (3 - ((4 * q + 4 - 1) % 4)) = 64 ^ 0
    BY <1>3, Zenon
  <2>3. EncodedChar(b, 4 * q + 4) = (w \div (64 ^ 0)) % 64
    BY <2>1, <2>2, Zenon
  <2> QED
    BY <1>4, <2>3, SMT
<1> QED
  BY <1>1, <1>6, <1>7, <1>8, <1>9

(* The text is as long as its bytes ask for, character by character.       *)
LEMMA EncodedText ==
  ASSUME NEW b \in Seq(Bytes)
  PROVE  /\ Base64UrlEncode(b) \in Seq(0..63) /\ Len(Base64UrlEncode(b)) = EncodedLen(b)
         /\ EncodedLen(b) \in Nat
         /\ \A k \in 1..EncodedLen(b) : Base64UrlEncode(b)[k] = EncodedChar(b, k)
<1> DEFINE L == EncodedLen(b)
           text == [k \in 1..L |-> EncodedChar(b, k)]
<1>1. Base64UrlEncode(b) = text
  BY SMT DEF Base64UrlEncode, EncodedLen, EncodedChar, Word
<1>2. L \in Nat
  BY SMT DEF EncodedLen
<1>3. ASSUME NEW k \in 1..L PROVE EncodedChar(b, k) \in 0..63
  <2> DEFINE q == (k - 1) \div 4
             x == Byte(b, 3 * q + 1)
             y == Byte(b, 3 * q + 2)
             z == Byte(b, 3 * q + 3)
  <2>1. q \in Nat /\ (k = 4 * q + 1 \/ k = 4 * q + 2 \/ k = 4 * q + 3 \/ k = 4 * q + 4)
    BY <1>2, SMT
  <2> HIDE DEF q
  <2>2. /\ x \in Bytes /\ y \in Bytes /\ z \in Bytes
        /\ EncodedChar(b, 4 * q + 1) = x \div 4
        /\ EncodedChar(b, 4 * q + 2) = (x % 4) * 16 + (y \div 16)
        /\ EncodedChar(b, 4 * q + 3) = (y % 16) * 4 + (z \div 64)
        /\ EncodedChar(b, 4 * q + 4) = z % 64
    <3> HIDE DEF x, y, z
    <3>1. x = Byte(b, 3 * q + 1) /\ y = Byte(b, 3 * q + 2) /\ z = Byte(b, 3 * q + 3)
      BY DEF x, y, z
    <3> QED
      BY <2>1, <3>1, EncodedOfThree, SMT
  <2> HIDE DEF x, y, z
  <2>3. /\ x \div 4 \in 0..63 /\ x % 4 \in 0..3 /\ y \div 16 \in 0..15 /\ y % 16 \in 0..15
        /\ z \div 64 \in 0..3 /\ z % 64 \in 0..63
    BY <2>2, Parts, SMT
  <2>4. /\ x \div 4 \in 0..63 /\ z % 64 \in 0..63
        /\ (x % 4) * 16 + (y \div 16) \in 0..63 /\ (y % 16) * 4 + (z \div 64) \in 0..63
    <3> DEFINE i == x % 4
               j == y \div 16
               g == y % 16
               h == z \div 64
    <3>1. i \in 0..3 /\ j \in 0..15 /\ g \in 0..15 /\ h \in 0..3
      BY <2>3, SMT
    <3> HIDE DEF i, j, g, h
    <3>2. i * 16 + j \in 0..63 /\ g * 4 + h \in 0..63
      BY <3>1, SMT
    <3> QED
      BY <2>3, <3>2, SMT DEF i, j, g, h
  <2>5. CASE k = 4 * q + 1
    BY <2>2, <2>4, <2>5, SMT
  <2>6. CASE k = 4 * q + 2
    BY <2>2, <2>4, <2>6, SMT
  <2>7. CASE k = 4 * q + 3
    BY <2>2, <2>4, <2>7, SMT
  <2>8. CASE k = 4 * q + 4
    BY <2>2, <2>4, <2>8, SMT
  <2> QED
    BY <2>1, <2>5, <2>6, <2>7, <2>8
<1> HIDE DEF L
<1>4. text \in Seq(0..63)
  BY <1>2, <1>3, IsASeq, SMT
<1>5. Len(text) = L
  <2>1. DOMAIN text = 1..L
    BY SMT
  <2> HIDE DEF text
  <2>2. DOMAIN text = 1..Len(text) /\ Len(text) \in Nat
    BY <1>4, LenProperties, SMT
  <2> QED
    BY <1>2, <2>1, <2>2, SMT
<1>6. \A k \in 1..L : text[k] = EncodedChar(b, k)
  BY SMT
<1> HIDE DEF text
<1> QED
  BY <1>1, <1>2, <1>4, <1>5, <1>6, SMT DEF L

(* Remainders by two, four and six bits.                                   *)
LEMMA Rest64 ==
  ASSUME NEW q \in Nat, NEW r \in 0..63 PROVE (64 * q + r) % 64 = r
  OBVIOUS

(* A number of base 16 and its last digit.                                 *)
LEMMA Rest16 ==
  ASSUME NEW q \in Nat, NEW r \in 0..15 PROVE (16 * q + r) % 16 = r /\ (16 * q + r) \div 16 = q
  OBVIOUS

(* The same for base 4.                                                    *)
LEMMA Rest4 ==
  ASSUME NEW q \in Nat, NEW r \in 0..3 PROVE (4 * q + r) % 4 = r /\ (4 * q + r) \div 4 = q
  OBVIOUS

(* The parts of buf: two bits, six, and what is above them.                *)
PartsOf(buf, s, t, a) == buf = 256 * s + 64 * t + a
LowParts(a, g, h, i) == a = 16 * g + 4 * h + i

(* buf after a character.                                                  *)
Onto(buf, c) == (buf * 64 + c) % 16384
TakenIn(buf, c, t, a) == Onto(buf, c) = 4096 * t + 64 * a + c

(* Two bits and two sixes are fourteen.                                    *)
LEMMA FourteenBits ==
  ASSUME NEW t \in 0..3, NEW a \in 0..63, NEW c \in 0..63
  PROVE  4096 * t + 64 * a + c \in Nat /\ 4096 * t + 64 * a + c < 16384
<1>1. 64 * a \in Nat /\ 64 * a <= 4032
  OBVIOUS
<1>2. 4096 * t \in Nat /\ 4096 * t <= 12288
  OBVIOUS
<1> DEFINE high == 4096 * t
           mid == 64 * a
<1> HIDE DEF high, mid
<1>3. high \in Nat /\ high <= 12288 /\ mid \in Nat /\ mid <= 4032
  BY <1>1, <1>2 DEF high, mid
<1>4. high + mid + c \in Nat /\ high + mid + c < 16384
  BY <1>3
<1> QED
  BY <1>4 DEF high, mid

(* What is left of buf in its 14 bits.                                     *)
LEMMA Rest14Bits ==
  ASSUME NEW s \in Nat, NEW t \in 0..3, NEW a \in 0..63, NEW buf \in Nat, PartsOf(buf, s, t, a), NEW c \in 0..63
  PROVE  TakenIn(buf, c, t, a)
<1> DEFINE r == 4096 * t + 64 * a + c
<1>1. r \in Nat /\ r < 16384
  BY FourteenBits
<1>2. buf * 64 + c = 16384 * s + r
  BY DEF PartsOf
<1> HIDE DEF r
<1>3. (16384 * s + r) % 16384 = r
  BY <1>1, SMTT(30)
<1> QED
  BY <1>2, <1>3 DEF r, TakenIn, Onto

Kept(buf, c, t, a) ==
  /\ t \in 0..3 /\ a \in 0..63
  /\ TakenIn(buf, c, t, a)
  /\ buf % 64 = a /\ buf % 16 = a % 16 /\ buf % 4 = a % 4

(* All the parts of buf, and a character.                                  *)
Split(buf, c, s, t, a, g, h, i) ==
  /\ s \in Nat /\ t \in 0..3 /\ a \in 0..63 /\ g \in 0..3 /\ h \in 0..3 /\ i \in 0..3 /\ buf \in Nat /\ c \in 0..63
  /\ PartsOf(buf, s, t, a) /\ LowParts(a, g, h, i)

(* From the parts of buf follows all that is read of it.                   *)
LEMMA Keeping ==
  ASSUME NEW buf, NEW c, NEW s, NEW t, NEW a, NEW g, NEW h, NEW i, Split(buf, c, s, t, a, g, h, i)
  PROVE  Kept(buf, c, t, a)
<1>1. /\ s \in Nat /\ t \in 0..3 /\ a \in 0..63 /\ g \in 0..3 /\ h \in 0..3 /\ i \in 0..3 /\ buf \in Nat /\ c \in 0..63
      /\ PartsOf(buf, s, t, a) /\ LowParts(a, g, h, i)
  BY DEF Split
<1>2. TakenIn(buf, c, t, a)
  BY <1>1, Rest14Bits
<1>3. buf % 64 = a
  <2> DEFINE q == 4 * s + t
  <2>1. q \in Nat /\ a \in 0..63 /\ buf = 64 * q + a
    BY <1>1 DEF PartsOf, LowParts
  <2> HIDE DEF q
  <2>2. (64 * q + a) % 64 = a
    BY <2>1, Rest64
  <2> QED
    BY <2>1, <2>2
<1>4. buf % 16 = a % 16
  <2> DEFINE q == 16 * s + 4 * t + g
             r == 4 * h + i
  <2>1. q \in Nat /\ g \in Nat /\ r \in 0..15 /\ buf = 16 * q + r /\ a = 16 * g + r
    BY <1>1 DEF PartsOf, LowParts
  <2> HIDE DEF q, r
  <2>2. (16 * q + r) % 16 = r /\ (16 * g + r) % 16 = r
    BY <2>1, Rest16
  <2> QED
    BY <2>1, <2>2
<1>5. buf % 4 = a % 4
  <2> DEFINE q == 64 * s + 16 * t + 4 * g + h
             p == 4 * g + h
  <2>1. q \in Nat /\ p \in Nat /\ i \in 0..3 /\ buf = 4 * q + i /\ a = 4 * p + i
    BY <1>1 DEF PartsOf, LowParts
  <2> HIDE DEF q, p
  <2>2. (4 * q + i) % 4 = i /\ (4 * p + i) % 4 = i
    BY <2>1, Rest4
  <2> QED
    BY <2>1, <2>2
<1> QED
  BY <1>1, <1>2, <1>3, <1>4, <1>5 DEF Kept

(* The numbers that buf keeps, and the characters.                         *)
Buf == {n \in Nat : n < 16384}
Sixbit == 0..63

(* buf has such parts, whatever it is.                                     *)
LEMMA Shifting ==
  ASSUME NEW buf \in Buf, NEW c \in Sixbit
  PROVE  \E t \in 0..3, a \in 0..63 : Kept(buf, c, t, a)
<1>1. buf \in Nat /\ buf < 16384 /\ c \in 0..63
  BY DEF Buf, Sixbit
<1>2. PICK s \in Nat, u \in 0..255 : buf = 256 * s + u
  <2>1. buf \div 256 \in Nat /\ buf % 256 \in 0..255 /\ buf = 256 * (buf \div 256) + (buf % 256)
    BY <1>1
  <2> QED
    BY <2>1
<1>3. PICK t \in 0..3, a \in 0..63 : u = 64 * t + a
  <2>1. u \div 64 \in 0..3 /\ u % 64 \in 0..63 /\ u = 64 * (u \div 64) + (u % 64)
    OBVIOUS
  <2> QED
    BY <2>1
<1>4. PICK g \in 0..3, r \in 0..15 : a = 16 * g + r
  <2>1. a \div 16 \in 0..3 /\ a % 16 \in 0..15 /\ a = 16 * (a \div 16) + (a % 16)
    OBVIOUS
  <2> QED
    BY <2>1
<1>5. PICK h \in 0..3, i \in 0..3 : r = 4 * h + i
  <2>1. r \div 4 \in 0..3 /\ r % 4 \in 0..3 /\ r = 4 * (r \div 4) + (r % 4)
    OBVIOUS
  <2> QED
    BY <2>1
<1>6. PartsOf(buf, s, t, a)
  BY <1>2, <1>3 DEF PartsOf
<1>7. LowParts(a, g, h, i)
  BY <1>4, <1>5 DEF LowParts
<1>8. s \in Nat /\ t \in 0..3 /\ a \in 0..63 /\ g \in 0..3 /\ h \in 0..3 /\ i \in 0..3 /\ buf \in Nat /\ c \in 0..63
  BY <1>1
<1>9. Kept(buf, c, t, a)
  <2>1. Split(buf, c, s, t, a, g, h, i)
    BY <1>6, <1>7, <1>8 DEF Split
  <2> QED
    BY <2>1, Keeping
<1> QED
  BY <1>8, <1>9

(* buf stays within its 14 bits.                                           *)
LEMMA OntoBuf ==
  ASSUME NEW buf \in Buf, NEW c \in Sixbit
  PROVE  Onto(buf, c) \in Buf
<1>1. PICK t \in 0..3, a \in 0..63 : Kept(buf, c, t, a)
  BY Shifting
<1>2. Onto(buf, c) = 4096 * t + 64 * a + c
  BY <1>1, SMT DEF Kept, TakenIn
<1> QED
  <2>1. c \in 0..63
    BY DEF Sixbit
  <2>2. 4096 * t + 64 * a + c \in Nat /\ 4096 * t + 64 * a + c < 16384
    BY <2>1, FourteenBits
  <2> QED
    BY <1>2, <2>2, SMT DEF Buf

(* Four turns read three bytes: what is left of buf, and what is read.     *)
LEMMA OntoFirst ==
  ASSUME NEW buf \in Buf, NEW c \in Sixbit
  PROVE  Onto(buf, c) % 64 = c
<1>1. PICK t \in 0..3, a \in 0..63 : Kept(buf, c, t, a)
  BY Shifting
<1>2. Onto(buf, c) = 4096 * t + 64 * a + c
  BY <1>1, SMT DEF Kept, TakenIn
<1> QED
  BY <1>2, SMT DEF Sixbit

(* The second turn of four reads the first byte.                           *)
LEMMA OntoSecond ==
  ASSUME NEW x \in Bytes, NEW y \in Bytes, NEW buf \in Buf, NEW c \in Sixbit,
         buf % 64 = x \div 4, c = (x % 4) * 16 + (y \div 16)
  PROVE  (Onto(buf, c) \div 16) % 256 = x /\ Onto(buf, c) % 16 = y \div 16
<1>1. PICK t \in 0..3, a \in 0..63 : Kept(buf, c, t, a)
  BY Shifting
<1>2. Onto(buf, c) = 4096 * t + 64 * a + c /\ buf % 64 = a
  BY <1>1, SMT DEF Kept, TakenIn
<1> DEFINE n == Onto(buf, c)
           p == x \div 4
           q == x % 4
           r == y \div 16
<1>3. p \in 0..63 /\ q \in 0..3 /\ x = 4 * p + q /\ r \in 0..15
  BY Parts
<1>4. c = q * 16 + r /\ a = p /\ x \in 0..255
  BY <1>2 DEF Bytes
<1>5. n = 4096 * t + 64 * a + c
  BY <1>2
<1> HIDE DEF n, p, q, r
<1>6. n = 4096 * t + 16 * x + r
  BY <1>3, <1>4, <1>5, SMT
<1>7. (n \div 16) % 256 = x /\ n % 16 = r
  <2>1. n \div 16 = 256 * t + x
    BY <1>3, <1>4, <1>6, SMT
  <2>2. n = 16 * (256 * t + x) + r
    BY <1>4, <1>6, SMT
  <2> QED
    BY <1>3, <1>4, <2>1, <2>2, SMT
<1> QED
  BY <1>7 DEF n, r

(* The third turn reads the second byte.                                   *)
LEMMA OntoThird ==
  ASSUME NEW y \in Bytes, NEW z \in Bytes, NEW buf \in Buf, NEW c \in Sixbit,
         buf % 16 = y \div 16, c = (y % 16) * 4 + (z \div 64)
  PROVE  (Onto(buf, c) \div 4) % 256 = y /\ Onto(buf, c) % 4 = z \div 64
<1>1. PICK t \in 0..3, a \in 0..63 : Kept(buf, c, t, a)
  BY Shifting
<1>2. Onto(buf, c) = 4096 * t + 64 * a + c /\ buf % 16 = a % 16
  BY <1>1, SMT DEF Kept, TakenIn
<1> DEFINE n == Onto(buf, c)
           p == y \div 16
           q == y % 16
           r == z \div 64
           g == a \div 16
<1>3. p \in 0..15 /\ q \in 0..15 /\ y = 16 * p + q /\ r \in 0..3
  BY Parts
<1>4. g \in 0..3 /\ a = 16 * g + p
  <2>1. g \in 0..3 /\ a = 16 * g + (a % 16)
    OBVIOUS
  <2> QED
    BY <1>2, <2>1
<1>5. c = q * 4 + r /\ y \in 0..255
  BY DEF Bytes
<1>6. n = 4096 * t + 64 * a + c
  BY <1>2
<1> HIDE DEF n, p, q, r, g
<1>7. n = 1024 * (4 * t + g) + 4 * y + r
  BY <1>3, <1>4, <1>5, <1>6, SMT
<1>8. (n \div 4) % 256 = y /\ n % 4 = r
  <2> DEFINE k == 4 * t + g
  <2>1. k \in Nat /\ n = 1024 * k + 4 * y + r
    BY <1>4, <1>7, SMT
  <2> HIDE DEF k
  <2>2. n \div 4 = 256 * k + y
    BY <1>3, <1>5, <2>1, SMT
  <2>3. n = 4 * (256 * k + y) + r
    BY <1>5, <2>1, SMT
  <2> QED
    BY <1>3, <1>5, <2>1, <2>2, <2>3, SMT
<1> QED
  BY <1>8 DEF n, r

(* The fourth turn reads the third byte.                                   *)
LEMMA OntoFourth ==
  ASSUME NEW z \in Bytes, NEW buf \in Buf, NEW c \in Sixbit, buf % 4 = z \div 64, c = z % 64
  PROVE  (Onto(buf, c) \div 1) % 256 = z
<1>1. PICK t \in 0..3, a \in 0..63 : Kept(buf, c, t, a)
  BY Shifting
<1>2. Onto(buf, c) = 4096 * t + 64 * a + c /\ buf % 4 = a % 4
  BY <1>1, SMT DEF Kept, TakenIn
<1> DEFINE n == Onto(buf, c)
           p == z \div 64
           g == a \div 4
<1>3. p \in 0..3 /\ z = 64 * p + c /\ z \in 0..255
  BY Parts, SMT DEF Bytes
<1>4. g \in 0..15 /\ a = 4 * g + p
  <2>1. g \in 0..15 /\ a = 4 * g + (a % 4)
    OBVIOUS
  <2> QED
    BY <1>2, <2>1
<1>5. n = 4096 * t + 64 * a + c
  BY <1>2
<1> HIDE DEF n, p, g
<1>6. n = 256 * (16 * t + g) + z
  BY <1>3, <1>4, <1>5, SMT
<1>7. (n \div 1) % 256 = z
  <2> DEFINE k == 16 * t + g
  <2>1. k \in Nat /\ n = 256 * k + z
    BY <1>4, <1>6, SMT
  <2> HIDE DEF k
  <2> QED
    BY <1>3, <2>1, SMT
<1> QED
  BY <1>7 DEF n

(* The state of the decoding loop.                                         *)
Acc == [buf : Buf, bits : {0, 2, 4, 6}, out : Seq(Bytes)]

(* What a turn of the decoding loop does, by the bits that were left.      *)
LEMMA ShiftedKinds ==
  ASSUME NEW acc \in Acc, NEW c \in Sixbit
  PROVE  /\ acc.bits = 0 => Shifted(acc, c) = [buf |-> Onto(acc.buf, c), bits |-> 6, out |-> acc.out]
         /\ acc.bits = 6 => Shifted(acc, c) = [buf |-> Onto(acc.buf, c), bits |-> 4,
                                               out |-> Append(acc.out, (Onto(acc.buf, c) \div 16) % 256)]
         /\ acc.bits = 4 => Shifted(acc, c) = [buf |-> Onto(acc.buf, c), bits |-> 2,
                                               out |-> Append(acc.out, (Onto(acc.buf, c) \div 4) % 256)]
         /\ acc.bits = 2 => Shifted(acc, c) = [buf |-> Onto(acc.buf, c), bits |-> 0,
                                               out |-> Append(acc.out, (Onto(acc.buf, c) \div 1) % 256)]
<1> DEFINE new == Onto(acc.buf, c)
           bits == acc.bits + 6
<1>1. Shifted(acc, c) = IF bits >= 8
                        THEN [buf |-> new, bits |-> bits - 8,
                              out |-> Append(acc.out, (new \div 2 ^ (bits - 8)) % 256)]
                        ELSE [buf |-> new, bits |-> bits, out |-> acc.out]
  BY SMT DEF Shifted, Onto
<1> HIDE DEF new
<1>2. 2 ^ 0 = 1 /\ 2 ^ 2 = 4 /\ 2 ^ 4 = 16
  OBVIOUS
<1>3. CASE acc.bits = 0
  BY <1>1, <1>3, SMT DEF new
<1>4. ASSUME NEW k \in {0, 2, 4}, acc.bits = k + 2
      PROVE  Shifted(acc, c) = [buf |-> new, bits |-> k, out |-> Append(acc.out, (new \div 2 ^ k) % 256)]
  <2>1. bits >= 8 /\ bits - 8 = k
    BY <1>4
  <2> HIDE DEF bits
  <2> QED
    BY <1>1, <2>1, Zenon
<1>5. CASE acc.bits = 6
  <2>1. 4 \in {0, 2, 4} /\ acc.bits = 4 + 2
    BY <1>5
  <2>2. Shifted(acc, c) = [buf |-> new, bits |-> 4, out |-> Append(acc.out, (new \div 2 ^ 4) % 256)]
    BY <1>4, <2>1
  <2>3. Shifted(acc, c) = [buf |-> new, bits |-> 4, out |-> Append(acc.out, (new \div 16) % 256)]
    BY <1>2, <2>2, Zenon
  <2> QED
    BY <1>5, <2>3 DEF new
<1>6. CASE acc.bits = 4
  <2>1. 2 \in {0, 2, 4} /\ acc.bits = 2 + 2
    BY <1>6
  <2>2. Shifted(acc, c) = [buf |-> new, bits |-> 2, out |-> Append(acc.out, (new \div 2 ^ 2) % 256)]
    BY <1>4, <2>1
  <2>3. Shifted(acc, c) = [buf |-> new, bits |-> 2, out |-> Append(acc.out, (new \div 4) % 256)]
    BY <1>2, <2>2, Zenon
  <2> QED
    BY <1>6, <2>3 DEF new
<1>7. CASE acc.bits = 2
  <2>1. 0 \in {0, 2, 4} /\ acc.bits = 0 + 2
    BY <1>7
  <2>2. Shifted(acc, c) = [buf |-> new, bits |-> 0, out |-> Append(acc.out, (new \div 2 ^ 0) % 256)]
    BY <1>4, <2>1
  <2>3. Shifted(acc, c) = [buf |-> new, bits |-> 0, out |-> Append(acc.out, (new \div 1) % 256)]
    BY <1>2, <2>2, Zenon
  <2> QED
    BY <1>7, <2>3 DEF new
<1>8. acc.bits \in {0, 2, 4, 6}
  BY DEF Acc
<1> QED
  BY <1>3, <1>5, <1>6, <1>7, <1>8

(* A turn keeps the state of the loop in its types.                        *)
LEMMA ShiftedTyped ==
  ASSUME NEW acc \in Acc, NEW c \in Sixbit
  PROVE  Shifted(acc, c) \in Acc
<1> DEFINE new == Onto(acc.buf, c)
<1>1. acc.buf \in Buf /\ acc.out \in Seq(Bytes) /\ acc.bits \in {0, 2, 4, 6}
  BY DEF Acc
<1>2. new \in Buf
  BY <1>1, OntoBuf
<1> HIDE DEF new
<1>3. (new \div 16) % 256 \in Bytes /\ (new \div 4) % 256 \in Bytes /\ (new \div 1) % 256 \in Bytes
  BY <1>2, SMT DEF Buf, Bytes
<1>4. CASE acc.bits = 0
  <2>1. Shifted(acc, c) = [buf |-> new, bits |-> 6, out |-> acc.out]
    BY <1>4, ShiftedKinds DEF new
  <2> QED
    BY <1>1, <1>2, <2>1 DEF Acc
<1>5. ASSUME NEW k \in {0, 2, 4}, NEW x \in Bytes PROVE [buf |-> new, bits |-> k, out |-> Append(acc.out, x)] \in Acc
  <2>1. Append(acc.out, x) \in Seq(Bytes)
    BY <1>1
  <2> QED
    BY <1>2, <2>1 DEF Acc
<1>6. CASE acc.bits = 6
  <2>1. Shifted(acc, c) = [buf |-> new, bits |-> 4, out |-> Append(acc.out, (new \div 16) % 256)]
    BY <1>6, ShiftedKinds DEF new
  <2> QED
    BY <1>3, <1>5, <2>1
<1>7. CASE acc.bits = 4
  <2>1. Shifted(acc, c) = [buf |-> new, bits |-> 2, out |-> Append(acc.out, (new \div 4) % 256)]
    BY <1>7, ShiftedKinds DEF new
  <2> QED
    BY <1>3, <1>5, <2>1
<1>8. CASE acc.bits = 2
  <2>1. Shifted(acc, c) = [buf |-> new, bits |-> 0, out |-> Append(acc.out, (new \div 1) % 256)]
    BY <1>8, ShiftedKinds DEF new
  <2> QED
    BY <1>3, <1>5, <2>1
<1> QED
  BY <1>1, <1>4, <1>6, <1>7, <1>8

(* What the decoding loop has read of b after 4q + r characters.           *)
ReadSoFar(b, acc, q, r) ==
  /\ r = 0 => acc.bits = 0 /\ acc.out = SubSeq(b, 1, 3 * q)
  /\ r = 1 => acc.bits = 6 /\ acc.out = SubSeq(b, 1, 3 * q) /\ acc.buf % 64 = Byte(b, 3 * q + 1) \div 4
  /\ r = 2 => acc.bits = 4 /\ acc.out = SubSeq(b, 1, 3 * q + 1) /\ acc.buf % 16 = Byte(b, 3 * q + 2) \div 16
  /\ r = 3 => acc.bits = 2 /\ acc.out = SubSeq(b, 1, 3 * q + 2) /\ acc.buf % 4 = Byte(b, 3 * q + 3) \div 64

(* A byte is added to what was read.                                       *)
LEMMA OneMore ==
  ASSUME NEW b \in Seq(Bytes), NEW n \in Nat, n + 1 <= Len(b)
  PROVE  Append(SubSeq(b, 1, n), Byte(b, n + 1)) = SubSeq(b, 1, n + 1)
<1>1. Byte(b, n + 1) = b[n + 1]
  BY DEF Byte
<1>2. Append(SubSeq(b, 1, n), b[n + 1]) = SubSeq(b, 1, n + 1)
  OBVIOUS
<1> QED
  BY <1>1, <1>2

(* The loop reads on, a character at a time.                               *)
LEMMA ReadOn ==
  ASSUME NEW b \in Seq(Bytes), NEW q \in Nat, NEW acc \in Acc, NEW c \in Sixbit
  PROVE  /\ c = EncodedChar(b, 4 * q + 1) /\ ReadSoFar(b, acc, q, 0) => ReadSoFar(b, Shifted(acc, c), q, 1)
         /\ c = EncodedChar(b, 4 * q + 2) /\ 3 * q + 1 <= Len(b) /\ ReadSoFar(b, acc, q, 1)
              => ReadSoFar(b, Shifted(acc, c), q, 2)
         /\ c = EncodedChar(b, 4 * q + 3) /\ 3 * q + 2 <= Len(b) /\ ReadSoFar(b, acc, q, 2)
              => ReadSoFar(b, Shifted(acc, c), q, 3)
         /\ c = EncodedChar(b, 4 * q + 4) /\ 3 * q + 3 <= Len(b) /\ ReadSoFar(b, acc, q, 3)
              => ReadSoFar(b, Shifted(acc, c), q + 1, 0)
<1> DEFINE x == Byte(b, 3 * q + 1)
           y == Byte(b, 3 * q + 2)
           z == Byte(b, 3 * q + 3)
           buf == acc.buf
           new == Onto(buf, c)
           Out(n) == SubSeq(b, 1, n)
<1>1. buf \in Buf
  BY DEF Acc
<1>2. x \in Bytes /\ y \in Bytes /\ z \in Bytes
  BY BytesPast
<1>3. /\ EncodedChar(b, 4 * q + 1) = x \div 4
      /\ EncodedChar(b, 4 * q + 2) = (x % 4) * 16 + (y \div 16)
      /\ EncodedChar(b, 4 * q + 3) = (y % 16) * 4 + (z \div 64)
      /\ EncodedChar(b, 4 * q + 4) = z % 64
  <2> HIDE DEF x, y, z
  <2>1. x = Byte(b, 3 * q + 1) /\ y = Byte(b, 3 * q + 2) /\ z = Byte(b, 3 * q + 3)
    BY DEF x, y, z
  <2> QED
    BY <2>1, EncodedOfThree, SMT
<1>4. /\ 3 * q + 1 <= Len(b) => Append(Out(3 * q), x) = Out(3 * q + 1)
      /\ 3 * q + 2 <= Len(b) => Append(Out(3 * q + 1), y) = Out(3 * q + 2)
      /\ 3 * q + 3 <= Len(b) => Append(Out(3 * q + 2), z) = Out(3 * q + 3)
  <2>1. 3 * q \in Nat /\ 3 * q + 1 \in Nat /\ 3 * q + 2 \in Nat
    OBVIOUS
  <2>2. (3 * q + 1) + 1 = 3 * q + 2 /\ (3 * q + 2) + 1 = 3 * q + 3
    OBVIOUS
  <2>3. ASSUME NEW n \in Nat, n + 1 <= Len(b) PROVE Append(Out(n), Byte(b, n + 1)) = Out(n + 1)
    BY <2>3, OneMore
  <2> HIDE DEF Out
  <2> QED
    BY <2>1, <2>2, <2>3
<1> HIDE DEF x, y, z, new, Out, buf
<1>5. ASSUME c = EncodedChar(b, 4 * q + 1), ReadSoFar(b, acc, q, 0) PROVE ReadSoFar(b, Shifted(acc, c), q, 1)
  <2>1. acc.bits = 0 /\ acc.out = Out(3 * q)
    BY <1>5 DEF ReadSoFar, Out
  <2>2. Shifted(acc, c) = [buf |-> new, bits |-> 6, out |-> acc.out]
    BY <2>1, ShiftedKinds DEF new, buf
  <2>3. new % 64 = x \div 4
    BY <1>1, <1>3, <1>5, OntoFirst DEF new
  <2> QED
    BY <2>1, <2>2, <2>3 DEF ReadSoFar, Out, x
<1>6. ASSUME c = EncodedChar(b, 4 * q + 2), 3 * q + 1 <= Len(b), ReadSoFar(b, acc, q, 1)
      PROVE  ReadSoFar(b, Shifted(acc, c), q, 2)
  <2>1. acc.bits = 6 /\ acc.out = Out(3 * q) /\ buf % 64 = x \div 4
    BY <1>6 DEF ReadSoFar, Out, x, buf
  <2>2. Shifted(acc, c) = [buf |-> new, bits |-> 4, out |-> Append(acc.out, (new \div 16) % 256)]
    BY <2>1, ShiftedKinds DEF new, buf
  <2>3. (new \div 16) % 256 = x /\ new % 16 = y \div 16
    BY <1>1, <1>2, <1>3, <1>6, <2>1, OntoSecond, SMT DEF new
  <2>4. Shifted(acc, c) = [buf |-> new, bits |-> 4, out |-> Out(3 * q + 1)]
    BY <1>4, <1>6, <2>1, <2>2, <2>3
  <2> QED
    BY <2>3, <2>4 DEF ReadSoFar, Out, y
<1>7. ASSUME c = EncodedChar(b, 4 * q + 3), 3 * q + 2 <= Len(b), ReadSoFar(b, acc, q, 2)
      PROVE  ReadSoFar(b, Shifted(acc, c), q, 3)
  <2>1. acc.bits = 4 /\ acc.out = Out(3 * q + 1) /\ buf % 16 = y \div 16
    BY <1>7 DEF ReadSoFar, Out, y, buf
  <2>2. Shifted(acc, c) = [buf |-> new, bits |-> 2, out |-> Append(acc.out, (new \div 4) % 256)]
    BY <2>1, ShiftedKinds DEF new, buf
  <2>3. (new \div 4) % 256 = y /\ new % 4 = z \div 64
    BY <1>1, <1>2, <1>3, <1>7, <2>1, OntoThird, SMT DEF new
  <2>4. Shifted(acc, c) = [buf |-> new, bits |-> 2, out |-> Out(3 * q + 2)]
    BY <1>4, <1>7, <2>1, <2>2, <2>3
  <2> QED
    BY <2>3, <2>4 DEF ReadSoFar, Out, z
<1>8. ASSUME c = EncodedChar(b, 4 * q + 4), 3 * q + 3 <= Len(b), ReadSoFar(b, acc, q, 3)
      PROVE  ReadSoFar(b, Shifted(acc, c), q + 1, 0)
  <2>1. acc.bits = 2 /\ acc.out = Out(3 * q + 2) /\ buf % 4 = z \div 64
    BY <1>8 DEF ReadSoFar, Out, z, buf
  <2>2. Shifted(acc, c) = [buf |-> new, bits |-> 0, out |-> Append(acc.out, (new \div 1) % 256)]
    BY <2>1, ShiftedKinds DEF new, buf
  <2>3. (new \div 1) % 256 = z
    BY <1>1, <1>2, <1>3, <1>8, <2>1, OntoFourth, SMT DEF new
  <2>4. Shifted(acc, c) = [buf |-> new, bits |-> 0, out |-> Out(3 * q + 3)]
    BY <1>4, <1>8, <2>1, <2>2, <2>3
  <2>5. 3 * (q + 1) = 3 * q + 3
    OBVIOUS
  <2> QED
    BY <2>4, <2>5 DEF ReadSoFar, Out
<1> QED
  BY <1>5, <1>6, <1>7, <1>8

(* The decoding loop has its values, and they are of its type.             *)
LEMMA DecodingRuns ==
  ASSUME NEW text \in Seq(Sixbit)
  PROVE  \E after : /\ after \in [0..Len(text) -> Acc] /\ after[0] = [buf |-> 0, bits |-> 0, out |-> <<>>]
                    /\ \A i \in 1..Len(text) : after[i] = Shifted(after[i - 1], text[i])
                    /\ Base64UrlDecode(text) = after[Len(text)].out
<1> DEFINE L == Len(text)
           s0 == [buf |-> 0, bits |-> 0, out |-> <<>>]
           Turns(after) == [i \in 0..L |-> IF i = 0 THEN s0 ELSE Shifted(after[i - 1], text[i])]
           after == CHOOSE after : after = Turns(after)
           F == [i \in 1..L |-> [acc \in Acc |-> Shifted(acc, text[i])]]
<1>1. L \in Nat /\ \A i \in 1..L : text[i] \in Sixbit
  OBVIOUS
<1>2. s0 \in Acc
  <2>1. 0 \in Buf /\ <<>> \in Seq(Bytes)
    BY DEF Buf
  <2> QED
    BY <2>1 DEF Acc
<1>3. \A i \in 1..L, acc \in Acc : Shifted(acc, text[i]) \in Acc
  BY <1>1, ShiftedTyped
<1>4. F \in [1..L -> [Acc -> Acc]] /\ \A i \in 1..L, acc \in Acc : F[i][acc] = Shifted(acc, text[i])
  BY <1>3
<1>5. Base64UrlDecode(text) = after[L].out
  BY Zenon DEF Base64UrlDecode
<1> HIDE DEF L, F, s0
<1>6. \E g : Runs(L, Acc, s0, F, g)
  BY <1>1, <1>2, <1>4, LoopRuns
<1>7. PICK g : Runs(L, Acc, s0, F, g)
  BY <1>6
<1>8. g \in [0..L -> Acc] /\ g[0] = s0 /\ \A i \in 1..L : g[i] = F[i][g[i - 1]]
  BY <1>7 DEF Runs
<1>9. \A i \in 1..L : g[i - 1] \in Acc
  BY <1>1, <1>8
<1>10. \A i \in 1..L : g[i] = Shifted(g[i - 1], text[i])
  BY <1>4, <1>8, <1>9
<1>11. \A i \in 0..L : i = 0 \/ i \in 1..L
  BY <1>1
<1>12. g = Turns(g)
  <2>1. \A i \in 0..L : g[i] = IF i = 0 THEN s0 ELSE Shifted(g[i - 1], text[i])
    BY <1>8, <1>10, <1>11, Zenon
  <2> QED
    BY <1>8, <2>1, Zenon
<1>13. after = Turns(after)
  BY <1>12, Zenon
<1>14. 0 \in 0..L /\ \A i \in 1..L : i \in 0..L /\ i # 0
  BY <1>1
<1>15. after[0] = s0 /\ \A i \in 1..L : after[i] = Shifted(after[i - 1], text[i])
  BY <1>13, <1>14, Zenon
<1> HIDE DEF after
<1>16. after \in [0..L -> Acc]
  <2> DEFINE T == {i \in 0..L : after[i] \in Acc}
  <2>1. 0 \in T
    BY <1>2, <1>14, <1>15, Zenon
  <2>2. ASSUME NEW i \in 1..L, i - 1 \in T PROVE i \in T
    <3>1. Shifted(after[i - 1], text[i]) \in Acc
      BY <1>3, <2>2, Zenon
    <3> QED
      BY <1>14, <1>15, <3>1, Zenon
  <2>3. \A i \in 0..L : i \in T
    <3> HIDE DEF T
    <3> QED
      BY <1>1, <2>1, <2>2, Ladder
  <2>4. after = [i \in 0..L |-> after[i]]
    BY <1>13, Zenon
  <2>5. \A i \in 0..L : after[i] \in Acc
    BY <2>3, Zenon
  <2> QED
    BY <2>4, <2>5, Zenon
<1> QED
  BY <1>5, <1>15, <1>16, Zenon DEF L, s0

(* Whatever bytes are encoded, decoding gives them back.                   *)
THEOREM DecodeInvertsEncode ==
  ASSUME NEW b \in Seq(Bytes)
  PROVE  Base64UrlDecode(Base64UrlEncode(b)) = b
<1> DEFINE text == Base64UrlEncode(b)
           L == EncodedLen(b)
           m == Len(b)
<1>1. /\ text \in Seq(Sixbit) /\ Len(text) = L /\ L \in Nat
      /\ \A k \in 1..L : text[k] = EncodedChar(b, k)
  BY EncodedText DEF Sixbit
<1>2. m \in Nat /\ L = (m * 4 + 2) \div 3
  BY DEF EncodedLen
<1> HIDE DEF text, L
<1>3. PICK after : /\ after \in [0..Len(text) -> Acc] /\ after[0] = [buf |-> 0, bits |-> 0, out |-> <<>>]
                   /\ \A i \in 1..Len(text) : after[i] = Shifted(after[i - 1], text[i])
                   /\ Base64UrlDecode(text) = after[Len(text)].out
  BY <1>1, DecodingRuns
<1> DEFINE T == {i \in 0..L : \A q \in Nat, r \in 0..3 : i = 4 * q + r => ReadSoFar(b, after[i], q, r)}
<1>4. 0 \in T
  <2>1. \A q \in Nat, r \in 0..3 : 0 = 4 * q + r => q = 0 /\ r = 0
    OBVIOUS
  <2>2. SubSeq(b, 1, 3 * 0) = <<>>
    OBVIOUS
  <2>3. ReadSoFar(b, after[0], 0, 0)
    BY <1>3, <2>2 DEF ReadSoFar
  <2> QED
    BY <1>1, <2>1, <2>3
<1>5. ASSUME NEW i \in 1..L, i - 1 \in T PROVE i \in T
  <2> SUFFICES ASSUME NEW q \in Nat, NEW r \in 0..3, i = 4 * q + r PROVE ReadSoFar(b, after[i], q, r)
    OBVIOUS
  <2> DEFINE acc == after[i - 1]
             c == text[i]
  <2>1. acc \in Acc /\ c \in Sixbit /\ c = EncodedChar(b, i) /\ after[i] = Shifted(acc, c)
    BY <1>1, <1>3
  <2>2. 4 * q + r <= (m * 4 + 2) \div 3
    BY <1>1, <1>2
  <2>3. \A p \in Nat, u \in 0..3 : i - 1 = 4 * p + u => ReadSoFar(b, acc, p, u)
    BY <1>5
  <2> HIDE DEF acc, c, m
  <2>4. CASE r = 1
    <3>1. ReadSoFar(b, acc, q, 0) /\ i = 4 * q + 1
      BY <2>3, <2>4
    <3>2. ReadSoFar(b, Shifted(acc, c), q, 1)
      BY <2>1, <3>1, ReadOn
    <3> QED
      BY <2>1, <2>4, <3>2
  <2>5. CASE r = 2
    <3>1. ReadSoFar(b, acc, q, 1) /\ i = 4 * q + 2
      BY <2>3, <2>5
    <3>2. 3 * q + 1 <= Len(b)
      BY <1>2, <2>2, <2>5, SMT DEF m
    <3>3. ReadSoFar(b, Shifted(acc, c), q, 2)
      BY <2>1, <3>1, <3>2, ReadOn
    <3> QED
      BY <2>1, <2>5, <3>3
  <2>6. CASE r = 3
    <3>1. ReadSoFar(b, acc, q, 2) /\ i = 4 * q + 3
      BY <2>3, <2>6
    <3>2. 3 * q + 2 <= Len(b)
      BY <1>2, <2>2, <2>6, SMT DEF m
    <3>3. ReadSoFar(b, Shifted(acc, c), q, 3)
      BY <2>1, <3>1, <3>2, ReadOn
    <3> QED
      BY <2>1, <2>6, <3>3
  <2>7. CASE r = 0
    <3> DEFINE p == q - 1
    <3>1. p \in Nat /\ q = p + 1 /\ i = 4 * p + 4 /\ i - 1 = 4 * p + 3
      BY <2>7
    <3> HIDE DEF p
    <3>2. ReadSoFar(b, acc, p, 3)
      BY <2>3, <3>1
    <3>3. 3 * p + 3 <= Len(b)
      BY <1>2, <2>2, <2>7, <3>1, SMT DEF m
    <3>4. ReadSoFar(b, Shifted(acc, c), p + 1, 0)
      BY <2>1, <3>1, <3>2, <3>3, ReadOn
    <3> QED
      BY <2>1, <2>7, <3>1, <3>4
  <2> QED
    BY <2>4, <2>5, <2>6, <2>7
<1>6. L \in T
  <2> HIDE DEF T
  <2>1. \A i \in 1..L : i - 1 \in T => i \in T
    BY <1>5
  <2>2. \A i \in 0..L : i \in T
    BY <1>1, <1>4, <2>1, Ladder
  <2> QED
    BY <1>1, <2>2
<1>7. after[L].out = SubSeq(b, 1, m)
  <2>1. PICK q \in Nat, u \in 0..2 : m = 3 * q + u
    <3>1. m \div 3 \in Nat /\ m % 3 \in 0..2 /\ m = 3 * (m \div 3) + (m % 3)
      BY <1>2
    <3> QED
      BY <3>1
  <2> HIDE DEF m
  <2>2. CASE u = 0
    <3>1. L = 4 * q + 0
      BY <1>2, <2>1, <2>2, SMT
    <3>2. ReadSoFar(b, after[L], q, 0)
      BY <1>6, <3>1
    <3> QED
      BY <2>1, <2>2, <3>2 DEF ReadSoFar
  <2>3. CASE u = 1
    <3>1. L = 4 * q + 2
      BY <1>2, <2>1, <2>3, SMT
    <3>2. ReadSoFar(b, after[L], q, 2)
      BY <1>6, <3>1
    <3> QED
      BY <2>1, <2>3, <3>2 DEF ReadSoFar
  <2>4. CASE u = 2
    <3>1. L = 4 * q + 3
      BY <1>2, <2>1, <2>4, SMT
    <3>2. ReadSoFar(b, after[L], q, 3)
      BY <1>6, <3>1
    <3> QED
      BY <2>1, <2>4, <3>2 DEF ReadSoFar
  <2> QED
    BY <2>2, <2>3, <2>4
<1>8. SubSeq(b, 1, m) = b
  OBVIOUS
<1>9. Base64UrlDecode(text) = b
  BY <1>1, <1>3, <1>7, <1>8
<1> QED
  BY <1>9 DEF text

-----------------------------------------------------------------------------
(* JSON.  What Encrypt seals is {"t":" token ","e": digit, for a name      *)
(* ,"n":" name ", and }.                                                   *)
Fields(t, d) == <<123>> \o Opening(116) \o <<Quote>> \o t \o <<Quote, Comma>> \o Opening(101) \o <<d>>
NameField(t) == <<Comma>> \o Opening(110) \o <<Quote>> \o t \o <<Quote>>

BeginsWith(json, t, d) ==
  /\ json[1] = 123 /\ json[2] = 34 /\ json[3] = 116 /\ json[4] = 34 /\ json[5] = 58 /\ json[6] = 34
  /\ \A r \in 1..Len(t) : json[6 + r] = t[r]
  /\ json[Len(t) + 7] = 34 /\ json[Len(t) + 8] = 44 /\ json[Len(t) + 9] = 34 /\ json[Len(t) + 10] = 101
  /\ json[Len(t) + 11] = 34 /\ json[Len(t) + 12] = 58 /\ json[Len(t) + 13] = d

EndsAt(json, m) == Len(json) = m + 14 /\ json[m + 14] = 125

EndsWith(json, m, t) ==
  /\ Len(json) = m + Len(t) + 21
  /\ json[m + 14] = 44 /\ json[m + 15] = 34 /\ json[m + 16] = 110 /\ json[m + 17] = 34
  /\ json[m + 18] = 58 /\ json[m + 19] = 34
  /\ \A r \in 1..Len(t) : json[m + 19 + r] = t[r]
  /\ json[m + Len(t) + 20] = 34 /\ json[m + Len(t) + 21] = 125

(* Where the parts of a concatenation stand.                               *)
Parted(a, b) ==
  /\ a \o b \in Seq(Bytes) /\ Len(a) \in Nat /\ Len(b) \in Nat /\ Len(a \o b) = Len(a) + Len(b)
  /\ \A i \in 1..Len(a) : (a \o b)[i] = a[i]
  /\ \A r \in 1..Len(b) : (a \o b)[Len(a) + r] = b[r]

(* Strings behind each other are found where they stand.                   *)
LEMMA Parting ==
  ASSUME NEW a \in Seq(Bytes), NEW b \in Seq(Bytes)
  PROVE  Parted(a, b)
<1>1. a \o b \in Seq(Bytes) /\ Len(a) \in Nat /\ Len(b) \in Nat /\ Len(a \o b) = Len(a) + Len(b)
  OBVIOUS
<1>2. \A i \in 1..Len(a) : (a \o b)[i] = a[i]
  OBVIOUS
<1>3. \A r \in 1..Len(b) : (a \o b)[Len(a) + r] = b[r]
  OBVIOUS
<1> QED
  BY <1>1, <1>2, <1>3 DEF Parted

(* The bytes of the layout.                                                *)
LEMMA SmallBytes ==
  /\ 34 \in Bytes /\ 44 \in Bytes /\ 58 \in Bytes /\ 101 \in Bytes /\ 110 \in Bytes /\ 116 \in Bytes
  /\ 123 \in Bytes /\ 125 \in Bytes
BY DEF Bytes

(* What a key looks like.                                                  *)
LEMMA OpeningRead ==
  ASSUME NEW c \in Bytes
  PROVE  /\ Opening(c) \in Seq(Bytes) /\ Len(Opening(c)) = 4
         /\ Opening(c)[1] = 34 /\ Opening(c)[2] = c /\ Opening(c)[3] = 34 /\ Opening(c)[4] = 58
BY SmallBytes DEF Opening, Quote, Colon

Lead(a, l, c) ==
  /\ a \in Seq(Bytes) /\ Len(a) = 6
  /\ a[1] = l /\ a[2] = 34 /\ a[3] = c /\ a[4] = 34 /\ a[5] = 58 /\ a[6] = 34

(* The opening of a key, with what stands on either side.                  *)
LEMMA OpeningBetween ==
  ASSUME NEW l \in Bytes, NEW c \in Bytes
  PROVE  Lead(<<l>> \o Opening(c) \o <<Quote>>, l, c)
<1> DEFINE h == <<l>>
           o == Opening(c)
           b == h \o o
           q == <<Quote>>
<1>1. h \in Seq(Bytes) /\ Len(h) = 1 /\ h[1] = l
  OBVIOUS
<1>2. o \in Seq(Bytes) /\ Len(o) = 4 /\ o[1] = 34 /\ o[2] = c /\ o[3] = 34 /\ o[4] = 58
  BY OpeningRead
<1>3. q \in Seq(Bytes) /\ Len(q) = 1 /\ q[1] = 34
  BY SmallBytes DEF Quote
<1> DEFINE a == b \o q
<1>4. a = <<l>> \o Opening(c) \o <<Quote>>
  OBVIOUS
<1> HIDE DEF h, o, q
<1>5. Parted(h, o)
  BY <1>1, <1>2, Parting
<1>6. /\ b \in Seq(Bytes) /\ Len(b) = 5
      /\ b[1] = l /\ b[2] = 34 /\ b[3] = c /\ b[4] = 34 /\ b[5] = 58
  <2>1. b \in Seq(Bytes) /\ Len(b) = 5
    BY <1>1, <1>2, <1>5 DEF Parted
  <2>2. \A i \in 1..1 : b[i] = h[i]
    BY <1>1, <1>5 DEF Parted
  <2>3. \A r \in 1..4 : b[1 + r] = o[r]
    BY <1>1, <1>2, <1>5 DEF Parted
  <2> HIDE DEF b
  <2>4. b[1] = h[1] /\ b[2] = o[1] /\ b[3] = o[2] /\ b[4] = o[3] /\ b[5] = o[4]
    BY <2>2, <2>3
  <2> QED
    BY <1>1, <1>2, <2>1, <2>4
<1> HIDE DEF b
<1>7. Parted(b, q)
  BY <1>3, <1>6, Parting
<1>8. a \in Seq(Bytes) /\ Len(a) = 6
  BY <1>3, <1>6, <1>7 DEF Parted
<1>9. \A i \in 1..5 : a[i] = b[i]
  BY <1>6, <1>7 DEF Parted
<1>10. a[6] = q[1]
  <2>1. a[5 + 1] = q[1]
    BY <1>3, <1>6, <1>7 DEF Parted
  <2> HIDE DEF a
  <2> QED
    BY <2>1
<1> HIDE DEF a
<1>11. Lead(a, l, c)
  BY <1>3, <1>6, <1>8, <1>9, <1>10 DEF Lead
<1> QED
  BY <1>4, <1>11

(* Where the token and the expiry stand.                                   *)
LEMMA FieldsRead ==
  ASSUME NEW t \in Seq(Bytes), NEW d \in Bytes
  PROVE  Fields(t, d) \in Seq(Bytes) /\ Len(Fields(t, d)) = Len(t) + 13 /\ BeginsWith(Fields(t, d), t, d)
<1> DEFINE a == <<123>> \o Opening(116) \o <<Quote>>
           b == a \o t
           e == <<Quote, Comma>>
           f == b \o e
           o == Opening(101)
           g == f \o o
           l == <<d>>
           h == g \o l
           m == Len(t)
<1>1. /\ a \in Seq(Bytes) /\ Len(a) = 6
      /\ a[1] = 123 /\ a[2] = 34 /\ a[3] = 116 /\ a[4] = 34 /\ a[5] = 58 /\ a[6] = 34
  <2>1. Lead(<<123>> \o Opening(116) \o <<Quote>>, 123, 116)
    BY SmallBytes, OpeningBetween
  <2>2. Lead(a, 123, 116)
    BY <2>1
  <2> HIDE DEF a
  <2> QED
    BY <2>2 DEF Lead
<1>2. e \in Seq(Bytes) /\ Len(e) = 2 /\ e[1] = 34 /\ e[2] = 44
  BY SmallBytes DEF Quote, Comma
<1>3. o \in Seq(Bytes) /\ Len(o) = 4 /\ o[1] = 34 /\ o[2] = 101 /\ o[3] = 34 /\ o[4] = 58
  BY SmallBytes, OpeningRead
<1>4. l \in Seq(Bytes) /\ Len(l) = 1 /\ l[1] = d
  OBVIOUS
<1>5. Fields(t, d) = h
  BY DEF Fields
<1> HIDE DEF a, e, o, l
<1>6. Parted(a, t)
  BY <1>1, Parting
<1>7. /\ b \in Seq(Bytes) /\ Len(b) = m + 6 /\ m \in Nat
      /\ \A i \in 1..6 : b[i] = a[i]
      /\ \A r \in 1..m : b[6 + r] = t[r]
  BY <1>1, <1>6 DEF Parted
<1> HIDE DEF b
<1>8. Parted(b, e)
  BY <1>2, <1>7, Parting
<1>9. /\ f \in Seq(Bytes) /\ Len(f) = m + 8
       /\ \A i \in 1..m + 6 : f[i] = b[i]
       /\ f[m + 7] = 34 /\ f[m + 8] = 44
  <2>1. \A r \in 1..2 : f[m + 6 + r] = e[r]
    BY <1>2, <1>7, <1>8 DEF Parted
  <2> QED
    BY <1>2, <1>7, <1>8, <2>1 DEF Parted
<1> HIDE DEF f
<1>10. Parted(f, o)
  BY <1>3, <1>9, Parting
<1>11. /\ g \in Seq(Bytes) /\ Len(g) = m + 12
       /\ \A i \in 1..m + 8 : g[i] = f[i]
       /\ g[m + 9] = 34 /\ g[m + 10] = 101 /\ g[m + 11] = 34 /\ g[m + 12] = 58
  <2>1. \A r \in 1..4 : g[m + 8 + r] = o[r]
    BY <1>3, <1>9, <1>10 DEF Parted
  <2>2. /\ m + 8 + 1 = m + 9 /\ m + 8 + 2 = m + 10 /\ m + 8 + 3 = m + 11 /\ m + 8 + 4 = m + 12
        /\ 1 \in 1..4 /\ 2 \in 1..4 /\ 3 \in 1..4 /\ 4 \in 1..4
    BY <1>7
  <2>3. g[m + 9] = o[1] /\ g[m + 10] = o[2] /\ g[m + 11] = o[3] /\ g[m + 12] = o[4]
    <3> HIDE DEF m, g
    <3> QED
      BY <2>1, <2>2
  <2>4. g \in Seq(Bytes) /\ Len(g) = m + 12 /\ \A i \in 1..m + 8 : g[i] = f[i]
    BY <1>3, <1>7, <1>9, <1>10 DEF Parted
  <2> QED
    BY <1>3, <2>3, <2>4
<1> HIDE DEF g
<1>12. Parted(g, l)
  BY <1>4, <1>11, Parting
<1>13. /\ h \in Seq(Bytes) /\ Len(h) = m + 13
       /\ \A i \in 1..m + 12 : h[i] = g[i]
       /\ h[m + 13] = d
  <2>1. h[m + 12 + 1] = l[1]
    BY <1>4, <1>11, <1>12 DEF Parted
  <2> QED
    BY <1>4, <1>7, <1>11, <1>12, <2>1 DEF Parted
<1> HIDE DEF h, m
<1> DEFINE Same(u, v, n) == \A i \in 1..n : u[i] = v[i]
<1>14. Same(b, a, 6) /\ Same(f, b, m + 6) /\ Same(g, f, m + 8) /\ Same(h, g, m + 12)
  BY <1>7, <1>9, <1>11, <1>13
<1>15. Same(h, b, m + 6) /\ Same(h, f, m + 8)
  <2>1. \A i \in 1..m + 6 : i \in 1..m + 8 /\ i \in 1..m + 12
    BY <1>7
  <2>2. \A i \in 1..m + 8 : i \in 1..m + 12
    BY <1>7
  <2> QED
    BY <1>14, <2>1, <2>2
<1>16. \A i \in 1..6 : h[i] = a[i]
  <2>1. \A i \in 1..6 : i \in 1..m + 6
    BY <1>7
  <2> QED
    BY <1>14, <1>15, <2>1
<1>17. \A r \in 1..m : h[6 + r] = t[r]
  <2>1. \A r \in 1..m : 6 + r \in 1..m + 6
    BY <1>7
  <2> QED
    BY <1>7, <1>15, <2>1
<1>18. h[m + 7] = 34 /\ h[m + 8] = 44
  <2>1. m + 7 \in 1..m + 8 /\ m + 8 \in 1..m + 8
    BY <1>7
  <2>2. h[m + 7] = f[m + 7] /\ h[m + 8] = f[m + 8]
    BY <1>15, <2>1
  <2>3. f[m + 7] = 34 /\ f[m + 8] = 44
    BY <1>7, <1>9 DEF m
  <2> QED
    BY <2>2, <2>3, Zenon
<1>19. h[m + 9] = 34 /\ h[m + 10] = 101 /\ h[m + 11] = 34 /\ h[m + 12] = 58
  <2>1. m + 9 \in 1..m + 12 /\ m + 10 \in 1..m + 12 /\ m + 11 \in 1..m + 12 /\ m + 12 \in 1..m + 12
    BY <1>7
  <2> QED
    BY <1>11, <1>13, <2>1, SMTT(30)
<1>20. h[1] = 123 /\ h[2] = 34 /\ h[3] = 116 /\ h[4] = 34 /\ h[5] = 58 /\ h[6] = 34
  BY <1>1, <1>16
<1> QED
  BY <1>5, <1>13, <1>17, <1>18, <1>19, <1>20 DEF BeginsWith, m

Named(n, t) ==
  /\ n \in Seq(Bytes) /\ Len(n) = Len(t) + 7
  /\ n[1] = 44 /\ n[2] = 34 /\ n[3] = 110 /\ n[4] = 34 /\ n[5] = 58 /\ n[6] = 34
  /\ \A r \in 1..Len(t) : n[6 + r] = t[r]
  /\ n[Len(t) + 7] = 34

(* Where the name stands.                                                  *)
LEMMA NameFieldRead ==
  ASSUME NEW t \in Seq(Bytes)
  PROVE  Named(NameField(t), t)
<1> DEFINE a == <<Comma>> \o Opening(110) \o <<Quote>>
           b == a \o t
           e == <<Quote>>
           h == b \o e
           m == Len(t)
<1>1. /\ a \in Seq(Bytes) /\ Len(a) = 6
      /\ a[1] = 44 /\ a[2] = 34 /\ a[3] = 110 /\ a[4] = 34 /\ a[5] = 58 /\ a[6] = 34
  <2>1. Lead(<<44>> \o Opening(110) \o <<Quote>>, 44, 110)
    BY SmallBytes, OpeningBetween
  <2>2. Lead(a, 44, 110)
    BY <2>1 DEF Comma
  <2> HIDE DEF a
  <2> QED
    BY <2>2 DEF Lead
<1>2. e \in Seq(Bytes) /\ Len(e) = 1 /\ e[1] = 34
  BY SmallBytes DEF Quote
<1>3. NameField(t) = h
  BY DEF NameField
<1> HIDE DEF a, e
<1>4. Parted(a, t)
  BY <1>1, Parting
<1>5. /\ b \in Seq(Bytes) /\ Len(b) = m + 6 /\ m \in Nat
      /\ \A i \in 1..6 : b[i] = a[i]
      /\ \A r \in 1..m : b[6 + r] = t[r]
  BY <1>1, <1>4 DEF Parted
<1> HIDE DEF b
<1>6. Parted(b, e)
  BY <1>2, <1>5, Parting
<1>7. /\ h \in Seq(Bytes) /\ Len(h) = m + 7
       /\ \A i \in 1..m + 6 : h[i] = b[i]
       /\ h[m + 7] = 34
  <2>1. h[m + 6 + 1] = e[1]
    BY <1>2, <1>5, <1>6 DEF Parted
  <2> QED
    BY <1>2, <1>5, <1>6, <2>1 DEF Parted
<1> HIDE DEF h, m
<1>8. \A i \in 1..6 : h[i] = a[i]
  <2>1. \A i \in 1..6 : i \in 1..m + 6
    BY <1>5
  <2> QED
    BY <1>5, <1>7, <2>1, Zenon
<1>9. \A r \in 1..m : h[6 + r] = t[r]
  <2>1. \A r \in 1..m : 6 + r \in 1..m + 6
    BY <1>5
  <2> QED
    BY <1>5, <1>7, <2>1, Zenon
<1>10. h[1] = 44 /\ h[2] = 34 /\ h[3] = 110 /\ h[4] = 34 /\ h[5] = 58 /\ h[6] = 34
  BY <1>1, <1>8
<1>11. Named(h, t)
  BY <1>7, <1>9, <1>10 DEF m, Named
<1> QED
  BY <1>3, <1>11

(* A session without a name has no such field.                             *)
NameOrNot(s) == IF s.name = <<>> THEN <<>> ELSE NameField(JsonEscape(s.name))
Sealed(s) == Fields(JsonEscape(s.tok), 48 + s.exp) \o NameOrNot(s) \o <<125>>

Session == [tok : Seq(Bytes), exp : 0..9, name : Seq(Bytes)]

(* Encrypt codes the fields and seals them.                                *)
LEMMA EncryptSeals ==
  ASSUME NEW s, NEW key
  PROVE  Encrypt(s, key) = [key |-> key, text |-> Base64UrlEncode(Sealed(s))]
BY Zenon DEF Encrypt, Sealed, NameOrNot, Fields, NameField

(* The layout of what is sealed.                                           *)
Laid(json, t, d, named, n) ==
  /\ json \in Seq(Bytes) /\ BeginsWith(json, t, d)
  /\ named => EndsWith(json, Len(t), n)
  /\ ~named => EndsAt(json, Len(t))

(* A string with the same bytes begins the same.                           *)
LEMMA BeginningCopied ==
  ASSUME NEW g, NEW j, NEW t, NEW d, NEW m \in Nat, m = Len(t), BeginsWith(g, t, d), \A i \in 1..m + 13 : j[i] = g[i]
  PROVE  BeginsWith(j, t, d)
<1>1. /\ g[1] = 123 /\ g[2] = 34 /\ g[3] = 116 /\ g[4] = 34 /\ g[5] = 58 /\ g[6] = 34
      /\ \A r \in 1..m : g[6 + r] = t[r]
      /\ g[m + 7] = 34 /\ g[m + 8] = 44 /\ g[m + 9] = 34 /\ g[m + 10] = 101
      /\ g[m + 11] = 34 /\ g[m + 12] = 58 /\ g[m + 13] = d
  BY DEF BeginsWith
<1>2. \A r \in 1..m : 6 + r \in 1..m + 13
  OBVIOUS
<1>3. \A r \in 1..m : j[6 + r] = t[r]
  BY <1>1, <1>2
<1>4. j[1] = 123 /\ j[2] = 34 /\ j[3] = 116 /\ j[4] = 34 /\ j[5] = 58 /\ j[6] = 34
  <2>1. j[1] = g[1] /\ j[2] = g[2] /\ j[3] = g[3] /\ j[4] = g[4] /\ j[5] = g[5] /\ j[6] = g[6]
    OBVIOUS
  <2> QED
    BY <1>1, <2>1
<1>5. /\ j[m + 7] = 34 /\ j[m + 8] = 44 /\ j[m + 9] = 34 /\ j[m + 10] = 101
      /\ j[m + 11] = 34 /\ j[m + 12] = 58 /\ j[m + 13] = d
  <2>1. /\ j[m + 7] = g[m + 7] /\ j[m + 8] = g[m + 8] /\ j[m + 9] = g[m + 9] /\ j[m + 10] = g[m + 10]
        /\ j[m + 11] = g[m + 11] /\ j[m + 12] = g[m + 12] /\ j[m + 13] = g[m + 13]
    OBVIOUS
  <2> QED
    BY <1>1, <2>1
<1> QED
  BY <1>3, <1>4, <1>5 DEF BeginsWith

(* The beginning stays when something is appended.                         *)
LEMMA BeginningKept ==
  ASSUME NEW a \in Seq(Bytes), NEW b \in Seq(Bytes), NEW t \in Seq(Bytes), NEW d, Len(a) = Len(t) + 13, BeginsWith(a, t, d)
  PROVE  BeginsWith(a \o b, t, d)
<1> DEFINE j == a \o b
           m == Len(t)
<1>1. Parted(a, b)
  BY Parting
<1>2. m \in Nat /\ m = Len(t) /\ \A i \in 1..m + 13 : j[i] = a[i]
  BY <1>1 DEF Parted
<1> HIDE DEF j, m
<1>3. BeginsWith(j, t, d)
  BY <1>2, BeginningCopied
<1> QED
  BY <1>3 DEF j

(* What Encrypt seals is laid out so.                                      *)
LEMMA SealedLaid ==
  ASSUME NEW s \in Session
  PROVE  Laid(Sealed(s), JsonEscape(s.tok), 48 + s.exp, s.name # <<>>, JsonEscape(s.name))
<1> DEFINE t == JsonEscape(s.tok)
           n == JsonEscape(s.name)
           d == 48 + s.exp
           f == Fields(t, d)
           e == <<125>>
<1>1. t \in Seq(Bytes) /\ n \in Seq(Bytes) /\ d \in Bytes
  <2>1. s.tok \in Seq(Bytes) /\ s.name \in Seq(Bytes) /\ s.exp \in 0..9
    BY DEF Session
  <2>2. d \in Bytes
    <3>1. \A x \in 0..9 : 48 + x \in Bytes
      BY DEF Bytes
    <3> QED
      BY <2>1, <3>1, Zenon
  <2> QED
    BY <2>1, <2>2, EscapedIsPaired
<1> HIDE DEF t, n, d
<1>2. f \in Seq(Bytes) /\ Len(f) = Len(t) + 13 /\ BeginsWith(f, t, d)
  BY <1>1, FieldsRead
<1>3. e \in Seq(Bytes) /\ Len(e) = 1 /\ e[1] = 125
  BY SmallBytes
<1> HIDE DEF f, e
<1>4. CASE s.name = <<>>
  <2>1. Sealed(s) = f \o <<>> \o e
    BY <1>4, Zenon DEF Sealed, NameOrNot, f, e, t, d
  <2>2. f \o <<>> = f
    BY <1>2
  <2> DEFINE j == f \o e
  <2>3. Parted(f, e)
    BY <1>2, <1>3, Parting
  <2>4. j \in Seq(Bytes) /\ Len(j) = Len(t) + 14 /\ Len(t) \in Nat
    BY <1>1, <1>2, <1>3, <2>3 DEF Parted
  <2>5. j[Len(t) + 13 + 1] = 125
    BY <1>2, <1>3, <2>3 DEF Parted
  <2>6. BeginsWith(j, t, d)
    BY <1>1, <1>2, <1>3, BeginningKept
  <2> HIDE DEF j
  <2>7. EndsAt(j, Len(t))
    BY <2>4, <2>5 DEF EndsAt
  <2>8. Laid(j, t, d, s.name # <<>>, n)
    BY <1>4, <2>4, <2>6, <2>7 DEF Laid
  <2> QED
    BY <2>1, <2>2, <2>8 DEF j, t, n, d
<1>5. CASE s.name # <<>>
  <2> DEFINE p == NameField(n)
             g == f \o p
             j == g \o e
             m == Len(t)
             k == Len(n)
  <2>1. Sealed(s) = j
    BY <1>5, Zenon DEF Sealed, NameOrNot, f, e, t, d, n
  <2>2. /\ p \in Seq(Bytes) /\ Len(p) = k + 7
        /\ p[1] = 44 /\ p[2] = 34 /\ p[3] = 110 /\ p[4] = 34 /\ p[5] = 58 /\ p[6] = 34
        /\ \A r \in 1..k : p[6 + r] = n[r]
        /\ p[k + 7] = 34
    <3>1. Named(p, n)
      BY <1>1, NameFieldRead
    <3> HIDE DEF p
    <3> QED
      BY <3>1 DEF Named
  <2> HIDE DEF p
  <2>3. m \in Nat /\ k \in Nat
    BY <1>1
  <2>4. Parted(f, p)
    BY <1>2, <2>2, Parting
  <2>5. /\ g \in Seq(Bytes) /\ Len(g) = m + k + 20
        /\ \A r \in 1..k + 7 : g[m + 13 + r] = p[r]
        /\ \A i \in 1..m + 13 : g[i] = f[i]
    BY <1>2, <2>2, <2>3, <2>4, SMTT(30) DEF Parted
  <2>6. BeginsWith(g, t, d)
    BY <1>1, <1>2, <2>2, BeginningKept
  <2> HIDE DEF g, m, k
  <2>7. Parted(g, e)
    BY <1>3, <2>5, Parting
  <2>8. /\ j \in Seq(Bytes) /\ Len(j) = m + k + 21
        /\ \A i \in 1..m + k + 20 : j[i] = g[i]
    BY <1>3, <2>3, <2>5, <2>7 DEF Parted
  <2>9. j[m + k + 21] = 125
    <3>1. j[m + k + 20 + 1] = e[1]
      BY <1>3, <2>3, <2>5, <2>7 DEF Parted
    <3> HIDE DEF j
    <3> QED
      BY <1>3, <2>3, <3>1
  <2> HIDE DEF j
  <2>10. \A r \in 1..k + 7 : j[m + 13 + r] = p[r]
    <3>1. \A r \in 1..k + 7 : m + 13 + r \in 1..m + k + 20
      BY <2>3
    <3> QED
      BY <2>5, <2>8, <3>1
  <2>11. BeginsWith(j, t, d)
    <3>1. \A i \in 1..m + 13 : i \in 1..m + k + 20
      BY <2>3
    <3>2. \A i \in 1..m + 13 : j[i] = g[i]
      BY <2>8, <3>1
    <3>3. m = Len(t)
      BY DEF m
    <3> QED
      BY <2>3, <2>6, <3>2, <3>3, BeginningCopied
  <2>12. \A r \in 1..k : j[m + 19 + r] = n[r]
    <3>1. \A r \in 1..k : 6 + r \in 1..k + 7 /\ m + 13 + (6 + r) = m + 19 + r
      BY <2>3
    <3>2. \A r \in 1..k : j[m + 13 + (6 + r)] = p[6 + r]
      BY <2>10, <3>1
    <3> QED
      BY <2>2, <3>1, <3>2 DEF k
  <2>13. /\ j[m + 14] = 44 /\ j[m + 15] = 34 /\ j[m + 16] = 110 /\ j[m + 17] = 34
         /\ j[m + 18] = 58 /\ j[m + 19] = 34
    <3>1. /\ 1 \in 1..k + 7 /\ 2 \in 1..k + 7 /\ 3 \in 1..k + 7 /\ 4 \in 1..k + 7 /\ 5 \in 1..k + 7 /\ 6 \in 1..k + 7
          /\ m + 13 + 1 = m + 14 /\ m + 13 + 2 = m + 15 /\ m + 13 + 3 = m + 16 /\ m + 13 + 4 = m + 17
          /\ m + 13 + 5 = m + 18 /\ m + 13 + 6 = m + 19
      BY <2>3
    <3>2. /\ j[m + 14] = p[1] /\ j[m + 15] = p[2] /\ j[m + 16] = p[3] /\ j[m + 17] = p[4]
          /\ j[m + 18] = p[5] /\ j[m + 19] = p[6]
      BY <2>10, <3>1
    <3> QED
      BY <2>2, <3>2
  <2>14. j[m + k + 20] = 34
    <3>1. k + 7 \in 1..k + 7 /\ m + 13 + (k + 7) = m + k + 20
      BY <2>3
    <3>2. j[m + k + 20] = p[k + 7]
      BY <2>10, <3>1
    <3> QED
      BY <2>2, <3>2 DEF k
  <2>15. EndsWith(j, m, n)
    BY <2>3, <2>8, <2>9, <2>12, <2>13, <2>14 DEF EndsWith, k
  <2>16. Laid(j, t, d, s.name # <<>>, n)
    BY <1>5, <2>8, <2>11, <2>15 DEF Laid, m
  <2> QED
    BY <2>1, <2>16 DEF t, n, d
<1> QED
  BY <1>4, <1>5

KeyAt(json, c, i) ==
  /\ i \in Nat /\ i >= 1 /\ i + 3 <= Len(json)
  /\ json[i] = 34 /\ json[i + 1] = c /\ json[i + 2] = 34 /\ json[i + 3] = 58

(* A quote in an escaped string has a backslash before it.                 *)
LEMMA QuoteEscaped ==
  ASSUME NEW t \in Seq(Bytes), NEW D, Paired(t, D), NEW q \in 1..Len(t), t[q] = 34
  PROVE  q - 1 \in 1..Len(t) /\ t[q - 1] = 92
<1>1. q \in D /\ D \subseteq 2..Len(t)
  BY DEF Paired
<1>2. t[q - 1] = 92
  BY <1>1, Zenon DEF Paired
<1>3. q - 1 \in 1..Len(t)
  BY <1>1
<1> QED
  BY <1>2, <1>3

(* Whatever token and name are made of, a key is found only where Encrypt  *)
(* put it.                                                                 *)
LEMMA KeyPlaces ==
  ASSUME NEW t \in Seq(Bytes), NEW D, Paired(t, D), NEW n \in Seq(Bytes), NEW C, Paired(n, C),
         NEW d \in 48..57, NEW named \in BOOLEAN, NEW json, Laid(json, t, d, named, n),
         NEW c \in {101, 110, 116}, NEW i, KeyAt(json, c, i)
  PROVE  \/ c = 116 /\ i = 2
         \/ c = 101 /\ i = Len(t) + 9
         \/ c = 110 /\ named /\ i = Len(t) + 15
<1> DEFINE m == Len(t)
           k == Len(n)
           p == i + 2
<1>1. m \in Nat /\ k \in Nat
  OBVIOUS
<1>2. /\ json[1] = 123 /\ json[2] = 34 /\ json[3] = 116 /\ json[4] = 34 /\ json[5] = 58 /\ json[6] = 34
      /\ \A r \in 1..m : json[6 + r] = t[r]
      /\ json[m + 7] = 34 /\ json[m + 8] = 44 /\ json[m + 9] = 34 /\ json[m + 10] = 101
      /\ json[m + 11] = 34 /\ json[m + 12] = 58 /\ json[m + 13] = d
  BY DEF Laid, BeginsWith
<1>3. i \in Nat /\ i >= 1 /\ p - 2 = i /\ p - 1 = i + 1 /\ p + 1 = i + 3 /\ p \in Nat /\ p >= 3 /\ p + 1 <= Len(json)
  BY DEF KeyAt
<1>4. json[p - 2] = 34 /\ json[p - 1] = c /\ json[p] = 34 /\ json[p + 1] = 58
  BY <1>3, Zenon DEF KeyAt
<1> HIDE DEF m, k, p
<1>5. CASE p \in 3..6
  <2>1. p = 3 \/ p = 4 \/ p = 5 \/ p = 6
    BY <1>5
  <2>2. p # 3
    BY <1>2, <1>4
  <2>3. p # 5
    BY <1>2, <1>4
  <2>4. p # 6
    BY <1>2, <1>4, SMTT(30)
  <2>5. p = 4 => c = 116
    BY <1>2, <1>4
  <2> QED
    BY <1>3, <2>1, <2>2, <2>3, <2>4, <2>5
<1>6. CASE p \in 7..m + 6
  <2> DEFINE q == p - 6
  <2>1. q \in 1..m /\ 6 + q = p /\ 6 + (q - 1) = p - 1
    BY <1>1, <1>6
  <2> HIDE DEF q
  <2>2. t[q] = 34
    BY <1>2, <1>4, <2>1
  <2>3. q - 1 \in 1..m /\ t[q - 1] = 92
    BY <2>1, <2>2, QuoteEscaped DEF m
  <2>4. json[6 + (q - 1)] = 92
    BY <1>2, <2>3
  <2> QED
    BY <1>4, <2>1, <2>4
<1>7. CASE p \in m + 7..m + 13
  <2>1. p = m + 7 \/ p = m + 8 \/ p = m + 9 \/ p = m + 10 \/ p = m + 11 \/ p = m + 12 \/ p = m + 13
    BY <1>1, <1>7
  <2>2. p # m + 7
    <3>1. p = m + 7 => p + 1 = m + 8
      BY <1>1
    <3> QED
      BY <1>2, <1>4, <3>1
  <2>3. p # m + 8 /\ p # m + 10 /\ p # m + 12 /\ p # m + 13
    <3>1. json[m + 8] # 34 /\ json[m + 10] # 34 /\ json[m + 12] # 34 /\ json[m + 13] # 34
      BY <1>2
    <3> QED
      BY <1>4, <3>1, Zenon
  <2>4. p # m + 9
    <3>1. p = m + 9 => p - 1 = m + 8
      BY <1>1
    <3> QED
      BY <1>2, <1>4, <3>1, SMTT(30)
  <2>5. p = m + 11 => c = 101 /\ i = m + 9
    <3>1. p = m + 11 => p - 1 = m + 10 /\ i = m + 9
      BY <1>1, <1>3
    <3> QED
      BY <1>2, <1>4, <3>1
  <2> QED
    BY <2>1, <2>2, <2>3, <2>4, <2>5 DEF m
<1>8. CASE p >= m + 14
  <2>1. named
    <3>1. Len(json) # m + 14
      BY <1>1, <1>3, <1>8
    <3> QED
      BY <3>1 DEF Laid, EndsAt, m
  <2>2. /\ Len(json) = m + k + 21
        /\ json[m + 14] = 44 /\ json[m + 15] = 34 /\ json[m + 16] = 110 /\ json[m + 17] = 34
        /\ json[m + 18] = 58 /\ json[m + 19] = 34
        /\ \A r \in 1..k : json[m + 19 + r] = n[r]
        /\ json[m + k + 20] = 34 /\ json[m + k + 21] = 125
    BY <2>1 DEF Laid, EndsWith, m, k
  <2>3. p = m + 14 \/ p = m + 15 \/ p = m + 16 \/ p = m + 17 \/ p = m + 18 \/ p = m + 19
          \/ p \in m + 20..m + k + 19 \/ p = m + k + 20
    BY <1>1, <1>3, <1>8, <2>2
  <2>4. p # m + 14 /\ p # m + 16 /\ p # m + 18
    BY <1>4, <2>2, SMTT(30)
  <2>5. p # m + 15
    <3>1. p = m + 15 => p - 1 = m + 14
      BY <1>1
    <3> QED
      BY <1>4, <2>2, <3>1
  <2>6. p # m + 19
    <3>1. p = m + 19 => p - 1 = m + 18
      BY <1>1
    <3> QED
      BY <1>4, <2>2, <3>1, SMTT(30)
  <2>7. p # m + k + 20
    <3>1. p = m + k + 20 => p + 1 = m + k + 21
      BY <1>1
    <3> QED
      BY <1>4, <2>2, <3>1
  <2>8. p \notin m + 20..m + k + 19
    <3> SUFFICES ASSUME p \in m + 20..m + k + 19 PROVE FALSE
      OBVIOUS
    <3> DEFINE q == p - (m + 19)
    <3>1. q \in 1..k /\ m + 19 + q = p /\ m + 19 + (q - 1) = p - 1
      BY <1>1
    <3> HIDE DEF q
    <3>2. n[q] = 34
      BY <1>4, <2>2, <3>1
    <3>3. q - 1 \in 1..k /\ n[q - 1] = 92
      BY <3>1, <3>2, QuoteEscaped DEF k
    <3>4. json[m + 19 + (q - 1)] = 92
      BY <2>2, <3>3
    <3> QED
      BY <1>4, <3>1, <3>4
  <2>9. p = m + 17 => c = 110 /\ i = m + 15
    <3>1. p = m + 17 => p - 1 = m + 16 /\ i = m + 15
      BY <1>1, <1>3
    <3> QED
      BY <1>4, <2>2, <3>1, SMTT(30)
  <2> QED
    BY <2>1, <2>3, <2>4, <2>5, <2>6, <2>7, <2>8, <2>9 DEF m
<1> QED
  BY <1>1, <1>3, <1>5, <1>6, <1>7, <1>8

(* Where a needle is found.                                                *)
Matches(json, needle, i) ==
  i \in 1..Len(json) - Len(needle) + 1 /\ \A r \in 1..Len(needle) : json[i + r - 1] = needle[r]

(* A needle is found where its bytes stand.                                *)
LEMMA FoundMatches ==
  ASSUME NEW json \in Seq(Bytes), NEW needle \in Seq(Bytes), NEW i \in 1..Len(json) - Len(needle) + 1
  PROVE  SubSeq(json, i, i + Len(needle) - 1) = needle <=> Matches(json, needle, i)
<1> DEFINE u == SubSeq(json, i, i + Len(needle) - 1)
           l == Len(needle)
<1>1. u \in Seq(Bytes) /\ Len(u) = l /\ l \in Nat /\ \A r \in 1..l : u[r] = json[i + r - 1]
  OBVIOUS
<1> HIDE DEF u
<1>2. ASSUME \A r \in 1..l : u[r] = needle[r] PROVE u = needle
  BY <1>1, <1>2, SeqEqual
<1> HIDE DEF l
<1>3. u = needle <=> \A r \in 1..l : u[r] = needle[r]
  BY <1>2
<1>4. u = needle <=> \A r \in 1..l : json[i + r - 1] = needle[r]
  BY <1>1, <1>3
<1> QED
  BY <1>4 DEF u, l, Matches

(* After the only place, and nowhere if there is none.                     *)
LEMMA AfterOnly ==
  ASSUME NEW json \in Seq(Bytes), NEW needle \in Seq(Bytes), NEW p, Matches(json, needle, p),
         \A i : Matches(json, needle, i) => i = p
  PROVE  After(json, needle) = p + Len(needle)
<1> DEFINE found == {i \in 1..(Len(json) - Len(needle) + 1) : SubSeq(json, i, i + Len(needle) - 1) = needle}
<1>1. found = {p}
  <2>1. p \in 1..(Len(json) - Len(needle) + 1)
    BY DEF Matches
  <2>2. p \in found
    BY <2>1, FoundMatches
  <2>3. \A i \in found : i = p
    BY FoundMatches
  <2> QED
    BY <2>2, <2>3, Zenon
<1>2. p \in Nat
  BY DEF Matches
<1>3. After(json, needle) = IF found = {} THEN 0 ELSE (CHOOSE i \in found : \A j \in found : i <= j) + Len(needle)
  BY Zenon DEF After
<1> HIDE DEF found
<1>4. (CHOOSE i \in found : \A j \in found : i <= j) = p
  <2>1. \E i \in found : \A j \in found : i <= j
    BY <1>1, <1>2
  <2> DEFINE first == CHOOSE i \in found : \A j \in found : i <= j
  <2>2. first \in found
    BY <2>1, Zenon
  <2> HIDE DEF first
  <2>3. first = p
    BY <1>1, <2>2
  <2> QED
    BY <2>3 DEF first
<1> QED
  BY <1>1, <1>3, <1>4, Zenon

(* A needle that is nowhere is not found.                                  *)
LEMMA AfterNone ==
  ASSUME NEW json \in Seq(Bytes), NEW needle \in Seq(Bytes), \A i : ~Matches(json, needle, i)
  PROVE  After(json, needle) = 0
<1> DEFINE found == {i \in 1..(Len(json) - Len(needle) + 1) : SubSeq(json, i, i + Len(needle) - 1) = needle}
<1>1. found = {}
  BY FoundMatches
<1>2. After(json, needle) = IF found = {} THEN 0 ELSE (CHOOSE i \in found : \A j \in found : i <= j) + Len(needle)
  BY Zenon DEF After
<1> HIDE DEF found
<1> QED
  BY <1>1, <1>2, Zenon

(* The two needles: what stands before a number, and before a string.      *)
Needle(s, c) ==
  /\ s \in Seq(Bytes) /\ Len(s) = 5
  /\ s[1] = 34 /\ s[2] = c /\ s[3] = 34 /\ s[4] = 58 /\ s[5] = 34

(* The opening of a string is its needle.                                  *)
LEMMA Needles ==
  ASSUME NEW c \in Bytes
  PROVE  Needle(Opening(c) \o <<Quote>>, c)
<1> DEFINE o == Opening(c)
           q == <<Quote>>
           h == o \o q
<1>1. o \in Seq(Bytes) /\ Len(o) = 4 /\ o[1] = 34 /\ o[2] = c /\ o[3] = 34 /\ o[4] = 58
  BY OpeningRead
<1>2. q \in Seq(Bytes) /\ Len(q) = 1 /\ q[1] = 34
  BY SmallBytes DEF Quote
<1>3. Opening(c) \o <<Quote>> = h
  OBVIOUS
<1> HIDE DEF o, q
<1>4. Parted(o, q)
  BY <1>1, <1>2, Parting
<1>5. h \in Seq(Bytes) /\ Len(h) = 5
  BY <1>1, <1>2, <1>4 DEF Parted
<1>6. \A i \in 1..4 : h[i] = o[i]
  BY <1>1, <1>4 DEF Parted
<1>7. h[4 + 1] = q[1]
  BY <1>1, <1>2, <1>4 DEF Parted
<1> HIDE DEF h
<1>8. h[1] = o[1] /\ h[2] = o[2] /\ h[3] = o[3] /\ h[4] = o[4] /\ h[5] = q[1]
  BY <1>6, <1>7
<1>9. Needle(h, c)
  BY <1>1, <1>2, <1>5, <1>8 DEF Needle
<1> QED
  BY <1>3, <1>9

(* A key with its colon, and with a quote after it.                        *)
LEMMA NumberMatches ==
  ASSUME NEW json \in Seq(Bytes), NEW c \in Bytes, NEW i
  PROVE  Matches(json, Opening(c), i) <=> KeyAt(json, c, i)
<1> DEFINE o == Opening(c)
<1>1. o \in Seq(Bytes) /\ Len(o) = 4 /\ o[1] = 34 /\ o[2] = c /\ o[3] = 34 /\ o[4] = 58
  BY OpeningRead
<1> HIDE DEF o
<1>2. Matches(json, o, i) <=> i \in 1..Len(json) - 3 /\ \A r \in 1..4 : json[i + r - 1] = o[r]
  BY <1>1 DEF Matches
<1>3. i \in 1..Len(json) - 3 <=> i \in Nat /\ i >= 1 /\ i + 3 <= Len(json)
  OBVIOUS
<1>4. ASSUME i \in Nat
      PROVE  (\A r \in 1..4 : json[i + r - 1] = o[r])
               <=> json[i] = 34 /\ json[i + 1] = c /\ json[i + 2] = 34 /\ json[i + 3] = 58
  <2>1. \A r \in 1..4 : r = 1 \/ r = 2 \/ r = 3 \/ r = 4
    OBVIOUS
  <2>2. i + 1 - 1 = i /\ i + 2 - 1 = i + 1 /\ i + 3 - 1 = i + 2 /\ i + 4 - 1 = i + 3
    BY <1>4
  <2>3. (\A r \in 1..4 : json[i + r - 1] = o[r])
          <=> json[i + 1 - 1] = o[1] /\ json[i + 2 - 1] = o[2] /\ json[i + 3 - 1] = o[3] /\ json[i + 4 - 1] = o[4]
    <3>1. 1 \in 1..4 /\ 2 \in 1..4 /\ 3 \in 1..4 /\ 4 \in 1..4
      OBVIOUS
    <3> QED
      BY <2>1, <3>1, Zenon
  <2>4. (\A r \in 1..4 : json[i + r - 1] = o[r])
          <=> json[i] = o[1] /\ json[i + 1] = o[2] /\ json[i + 2] = o[3] /\ json[i + 3] = o[4]
    BY <2>2, <2>3, Zenon
  <2> QED
    BY <1>1, <2>4, Zenon
<1>5. Matches(json, o, i) <=> KeyAt(json, c, i)
  BY <1>2, <1>3, <1>4 DEF KeyAt
<1> QED
  BY <1>5 DEF o

(* Where the opening of a string stands, its key does.                     *)
LEMMA StringMatches ==
  ASSUME NEW json \in Seq(Bytes), NEW c \in Bytes, NEW i
  PROVE  /\ Matches(json, Opening(c) \o <<Quote>>, i) => KeyAt(json, c, i)
         /\ KeyAt(json, c, i) /\ i + 4 <= Len(json) /\ json[i + 4] = 34 => Matches(json, Opening(c) \o <<Quote>>, i)
<1> DEFINE o == Opening(c) \o <<Quote>>
<1>1. o \in Seq(Bytes) /\ Len(o) = 5 /\ o[1] = 34 /\ o[2] = c /\ o[3] = 34 /\ o[4] = 58 /\ o[5] = 34
  <2>1. Needle(o, c)
    BY Needles
  <2> HIDE DEF o
  <2> QED
    BY <2>1 DEF Needle
<1> HIDE DEF o
<1>2. Matches(json, o, i) <=> i \in 1..Len(json) - 4 /\ \A r \in 1..5 : json[i + r - 1] = o[r]
  BY <1>1 DEF Matches
<1>3. i \in 1..Len(json) - 4 <=> i \in Nat /\ i >= 1 /\ i + 4 <= Len(json)
  OBVIOUS
<1>4. ASSUME i \in Nat
      PROVE  (\A r \in 1..5 : json[i + r - 1] = o[r])
               <=> json[i] = 34 /\ json[i + 1] = c /\ json[i + 2] = 34 /\ json[i + 3] = 58 /\ json[i + 4] = 34
  <2>1. \A r \in 1..5 : r = 1 \/ r = 2 \/ r = 3 \/ r = 4 \/ r = 5
    OBVIOUS
  <2>2. i + 1 - 1 = i /\ i + 2 - 1 = i + 1 /\ i + 3 - 1 = i + 2 /\ i + 4 - 1 = i + 3 /\ i + 5 - 1 = i + 4
    BY <1>4
  <2>3. (\A r \in 1..5 : json[i + r - 1] = o[r])
          <=> json[i + 1 - 1] = o[1] /\ json[i + 2 - 1] = o[2] /\ json[i + 3 - 1] = o[3] /\ json[i + 4 - 1] = o[4] /\ json[i + 5 - 1] = o[5]
    <3>1. 1 \in 1..5 /\ 2 \in 1..5 /\ 3 \in 1..5 /\ 4 \in 1..5 /\ 5 \in 1..5
      OBVIOUS
    <3> QED
      BY <2>1, <3>1, Zenon
  <2>4. (\A r \in 1..5 : json[i + r - 1] = o[r])
          <=> json[i] = o[1] /\ json[i + 1] = o[2] /\ json[i + 2] = o[3] /\ json[i + 3] = o[4] /\ json[i + 4] = o[5]
    BY <2>2, <2>3, Zenon
  <2> QED
    BY <1>1, <2>4, Zenon
<1>5. i \in Nat /\ i + 4 <= Len(json) => i + 3 <= Len(json)
  OBVIOUS
<1>6. Matches(json, o, i) <=> KeyAt(json, c, i) /\ i + 4 <= Len(json) /\ json[i + 4] = 34
  BY <1>2, <1>3, <1>4, <1>5 DEF KeyAt
<1> QED
  BY <1>6 DEF o

(* What is read: t and n are escaped strings.                              *)
Readable(json, t, d, named, n) ==
  /\ t \in Seq(Bytes) /\ n \in Seq(Bytes) /\ d \in 48..57 /\ named \in BOOLEAN
  /\ Laid(json, t, d, named, n)
  /\ (\E D : Paired(t, D)) /\ \E C : Paired(n, C)

(* Where the two readers start.                                            *)
LEMMA ReadersStart ==
  ASSUME NEW t, NEW n, NEW d, NEW named, NEW json, Readable(json, t, d, named, n)
  PROVE  /\ After(json, Opening(116) \o <<Quote>>) = 7
         /\ After(json, Opening(101)) = Len(t) + 13
         /\ named => After(json, Opening(110) \o <<Quote>>) = Len(t) + 20
         /\ ~named => After(json, Opening(110) \o <<Quote>>) = 0
<1> DEFINE m == Len(t)
           S(c) == Opening(c) \o <<Quote>>
<1>1. /\ t \in Seq(Bytes) /\ n \in Seq(Bytes) /\ d \in 48..57 /\ named \in BOOLEAN
       /\ Laid(json, t, d, named, n)
  BY DEF Readable
<1>2. PICK D, C : Paired(t, D) /\ Paired(n, C)
  BY DEF Readable
<1>3. json \in Seq(Bytes)
  BY <1>1 DEF Laid
<1>4. m \in Nat /\ Len(json) \in Nat /\ m + 14 <= Len(json) /\ (named => m + 21 <= Len(json))
  <2>1. Len(n) \in Nat /\ Len(json) \in Nat
    BY <1>3, <1>1
  <2>2. CASE named
    <3>1. Len(json) = m + Len(n) + 21
      BY <1>1, <2>2, Zenon DEF Laid, EndsWith
    <3> HIDE DEF m
    <3>2. m \in Nat
      BY <1>1 DEF m
    <3> QED
      BY <2>1, <2>2, <3>1, <3>2
  <2>3. CASE ~named
    <3>1. Len(json) = m + 14
      BY <1>1, <2>3, Zenon DEF Laid, EndsAt
    <3> HIDE DEF m
    <3>2. m \in Nat
      BY <1>1 DEF m
    <3> QED
      BY <2>1, <2>3, <3>1, <3>2
  <2> QED
    BY <2>2, <2>3
<1>5. /\ json[2] = 34 /\ json[3] = 116 /\ json[4] = 34 /\ json[5] = 58 /\ json[6] = 34
      /\ json[m + 9] = 34 /\ json[m + 10] = 101 /\ json[m + 11] = 34 /\ json[m + 12] = 58
  BY <1>1 DEF Laid, BeginsWith
<1>6. named => /\ json[m + 15] = 34 /\ json[m + 16] = 110 /\ json[m + 17] = 34
               /\ json[m + 18] = 58 /\ json[m + 19] = 34
  BY <1>1 DEF Laid, EndsWith
<1>7. ASSUME NEW c \in {101, 110, 116}, NEW i, KeyAt(json, c, i)
      PROVE  \/ c = 116 /\ i = 2
             \/ c = 101 /\ i = m + 9
             \/ c = 110 /\ named /\ i = m + 15
  BY <1>7, <1>1, <1>2, KeyPlaces
<1> HIDE DEF m
<1>8. KeyAt(json, 116, 2) /\ json[2 + 4] = 34 /\ 2 + 4 <= Len(json)
  BY <1>4, <1>5 DEF KeyAt
<1>9. KeyAt(json, 101, m + 9)
  <2>1. m + 9 + 1 = m + 10 /\ m + 9 + 2 = m + 11 /\ m + 9 + 3 = m + 12 /\ m + 9 \in Nat /\ m + 9 >= 1 /\ m + 12 <= Len(json)
    BY <1>4
  <2> QED
    BY <1>5, <2>1, SMTT(30) DEF KeyAt
<1>10. named => KeyAt(json, 110, m + 15) /\ json[m + 15 + 4] = 34 /\ m + 15 + 4 <= Len(json)
  <2>1. /\ m + 15 + 1 = m + 16 /\ m + 15 + 2 = m + 17 /\ m + 15 + 3 = m + 18 /\ m + 15 + 4 = m + 19
        /\ m + 15 \in Nat /\ m + 15 >= 1 /\ (named => m + 19 <= Len(json) /\ m + 18 <= Len(json))
    BY <1>4
  <2> QED
    BY <1>6, <2>1 DEF KeyAt
<1>11. ASSUME NEW c \in Bytes PROVE S(c) \in Seq(Bytes) /\ Len(S(c)) = 5 /\ Opening(c) \in Seq(Bytes) /\ Len(Opening(c)) = 4
  <2>1. S(c) \in Seq(Bytes) /\ Len(S(c)) = 5
    BY Needles DEF Needle
  <2> QED
    BY <2>1, OpeningRead
<1>12. ASSUME NEW c \in Bytes, NEW i
      PROVE  /\ Matches(json, S(c), i) => KeyAt(json, c, i)
             /\ KeyAt(json, c, i) /\ i + 4 <= Len(json) /\ json[i + 4] = 34 => Matches(json, S(c), i)
  BY <1>3, StringMatches
<1>13. \A i : Matches(json, Opening(101), i) <=> KeyAt(json, 101, i)
  BY <1>3, NumberMatches, SmallBytes
<1> HIDE DEF S
<1>14. After(json, S(116)) = 7
  <2>1. Matches(json, S(116), 2)
    BY <1>8, <1>12, SmallBytes
  <2>2. \A i : Matches(json, S(116), i) => i = 2
    BY <1>7, <1>12, SmallBytes
  <2>3. S(116) \in Seq(Bytes) /\ Len(S(116)) = 5
    BY <1>11, SmallBytes
  <2> DEFINE s == S(116)
  <2> HIDE DEF s
  <2>4. After(json, s) = 2 + Len(s)
    BY <1>3, <2>1, <2>2, <2>3, AfterOnly DEF s
  <2>5. 2 + 5 = 7
    OBVIOUS
  <2> QED
    BY <2>3, <2>4, <2>5, Zenon DEF s
<1>15. After(json, Opening(101)) = m + 13
  <2>1. Matches(json, Opening(101), m + 9)
    BY <1>9, <1>13
  <2>2. \A i : Matches(json, Opening(101), i) => i = m + 9
    BY <1>7, <1>13
  <2>3. Opening(101) \in Seq(Bytes) /\ Len(Opening(101)) = 4
    BY <1>11, SmallBytes
  <2>4. After(json, Opening(101)) = m + 9 + Len(Opening(101))
    BY <1>3, <2>1, <2>2, <2>3, AfterOnly
  <2>5. m + 9 + 4 = m + 13
    BY <1>4
  <2> QED
    BY <2>3, <2>4, <2>5, Zenon
<1>16. named => After(json, S(110)) = m + 20
  <2> SUFFICES ASSUME named PROVE After(json, S(110)) = m + 20
    OBVIOUS
  <2>1. Matches(json, S(110), m + 15)
    BY <1>10, <1>12, SmallBytes
  <2>2. \A i : Matches(json, S(110), i) => i = m + 15
    BY <1>7, <1>12, SmallBytes
  <2>3. S(110) \in Seq(Bytes) /\ Len(S(110)) = 5
    BY <1>11, SmallBytes
  <2>4. After(json, S(110)) = m + 15 + Len(S(110))
    BY <1>3, <2>1, <2>2, <2>3, AfterOnly
  <2>5. m + 15 + 5 = m + 20
    BY <1>4
  <2> QED
    BY <2>3, <2>4, <2>5, Zenon
<1>17. ~named => After(json, S(110)) = 0
  <2> SUFFICES ASSUME ~named PROVE After(json, S(110)) = 0
    OBVIOUS
  <2>1. \A i : ~Matches(json, S(110), i)
    BY <1>7, <1>12, SmallBytes
  <2>2. S(110) \in Seq(Bytes)
    BY <1>11, SmallBytes
  <2> QED
    BY <1>3, <2>1, <2>2, AfterNone
<1> QED
  BY <1>14, <1>15, <1>16, <1>17 DEF S, m

(* An escaped string stands in json from f on, up to a quote.              *)
StandsAt(json, t, f) ==
  /\ f \in Nat /\ f >= 1 /\ f + Len(t) <= Len(json)
  /\ \A r \in 1..Len(t) : json[f + r - 1] = t[r]
  /\ json[f + Len(t)] = 34

(* Where the search for the closing quote is, p bytes into the string.     *)
LEMMA OnwardInside ==
  ASSUME NEW json \in Seq(Bytes), NEW t \in Seq(Bytes), NEW D, Paired(t, D), NEW f, StandsAt(json, t, f),
         NEW p \in 0..Len(t), p + 1 \notin D
  PROVE  \E q \in 0..Len(t) : /\ q + 1 \notin D /\ Onward(json, f + p) = f + q
                              /\ (p < Len(t) => q > p) /\ (p = Len(t) => q = p)
<1> DEFINE m == Len(t)
           L == Len(json)
           i == f + p
<1>1. /\ m \in Nat /\ L \in Nat /\ f \in Nat /\ f >= 1 /\ f + m <= L /\ p \in 0..m
      /\ \A r \in 1..m : json[f + r - 1] = t[r]
      /\ json[f + m] = 34
  BY DEF StandsAt
<1>2. /\ D \subseteq 2..m
      /\ \A q \in 1..m : (t[q] = 34 => q \in D) /\ (t[q] = 92 /\ q \notin D => q + 1 \in D)
      /\ \A q \in D : t[q - 1] = 92 /\ q - 1 \notin D
  BY DEF Paired
<1> HIDE DEF m, L
<1>3. CASE p = m
  <2>1. Onward(json, i) = i
    BY <1>1, <1>3, Zenon DEF Onward, Quote
  <2> QED
    BY <1>1, <1>3, <2>1 DEF m
<1>4. CASE p < m
  <2>1. p + 1 \in 1..m /\ f + (p + 1) - 1 = i /\ i <= L /\ i < L /\ ~(i > L) /\ i + 1 = f + (p + 1) /\ i + 2 = f + (p + 2)
    BY <1>1, <1>4
  <2> HIDE DEF i
  <2>2. json[i] = t[p + 1] /\ t[p + 1] # 34
    BY <1>1, <1>2, <2>1
  <2>3. CASE t[p + 1] = 92
    <3>1. p + 2 \in D
      <4>1. p + 1 + 1 \in D
        BY <1>2, <2>1, <2>3
      <4> QED
        BY <1>1, <4>1
    <3>2. p + 2 \in 0..m /\ p + 2 > p
      BY <1>1, <1>2, <3>1
    <3>3. p + 2 + 1 \notin D
      <4>1. p + 2 + 1 \in D => p + 2 + 1 - 1 \notin D
        BY <1>2
      <4>2. p + 2 + 1 - 1 = p + 2
        BY <1>1
      <4> QED
        BY <3>1, <4>1, <4>2
    <3>4. Onward(json, i) = i + 2
      <4>1. ~(i > L \/ json[i] = 34) /\ json[i] = 92 /\ i < L
        BY <2>1, <2>2, <2>3
      <4> QED
        BY <4>1, Zenon DEF Onward, Quote, Backslash, L
    <3>5. Onward(json, i) = f + (p + 2)
      BY <2>1, <3>4, Zenon
    <3> QED
      BY <1>4, <3>2, <3>3, <3>5 DEF i, m
  <2>4. CASE t[p + 1] # 92
    <3>1. p + 1 \in 0..m /\ p + 1 > p
      BY <1>1, <1>4
    <3>2. p + 1 + 1 \notin D
      <4>1. p + 1 + 1 \in D => t[p + 1 + 1 - 1] = 92
        BY <1>2
      <4>2. p + 1 + 1 - 1 = p + 1
        BY <1>1
      <4> QED
        BY <2>4, <4>1, <4>2
    <3>3. Onward(json, i) = i + 1
      <4>1. ~(i > L \/ json[i] = 34) /\ ~(json[i] = 92 /\ i < L)
        BY <2>1, <2>2, <2>4
      <4> QED
        BY <4>1, Zenon DEF Onward, Quote, Backslash, L
    <3>4. Onward(json, i) = f + (p + 1)
      BY <2>1, <3>3, Zenon
    <3> QED
      BY <1>4, <3>1, <3>2, <3>4 DEF i, m
  <2> QED
    BY <2>3, <2>4
<1> QED
  BY <1>1, <1>3, <1>4

(* The search for the closing quote has its values.                        *)
LEMMA OnwardRuns ==
  ASSUME NEW json \in Seq(Bytes), NEW f \in Nat
  PROVE  \E turn : turn = [k \in 0..Len(json) |-> IF k = 0 THEN f ELSE Onward(json, turn[k - 1])]
<1> DEFINE L == Len(json)
           F == [k \in 1..L |-> [i \in Nat |-> Onward(json, i)]]
<1>1. L \in Nat
  OBVIOUS
<1>2. \A i \in Nat : Onward(json, i) \in Nat
  BY DEF Onward
<1>3. F \in [1..L -> [Nat -> Nat]] /\ \A k \in 1..L, i \in Nat : F[k][i] = Onward(json, i)
  BY <1>2
<1> HIDE DEF L, F
<1>4. PICK g : Runs(L, Nat, f, F, g)
  BY <1>1, <1>3, LoopRuns
<1>5. g \in [0..L -> Nat] /\ g[0] = f /\ \A k \in 1..L : g[k] = F[k][g[k - 1]]
  BY <1>4 DEF Runs
<1>6. \A k \in 1..L : g[k - 1] \in Nat
  BY <1>1, <1>5
<1>7. \A k \in 1..L : g[k] = Onward(json, g[k - 1])
  BY <1>3, <1>5, <1>6
<1>8. \A k \in 0..L : k = 0 \/ k \in 1..L
  BY <1>1
<1>9. \A k \in 0..L : g[k] = IF k = 0 THEN f ELSE Onward(json, g[k - 1])
  BY <1>5, <1>7, <1>8, Zenon
<1>10. g = [k \in 0..L |-> IF k = 0 THEN f ELSE Onward(json, g[k - 1])]
  BY <1>5, <1>9, Zenon
<1> QED
  BY <1>10 DEF L

(* The search for the closing quote ends at it, whatever stands before it. *)
LEMMA StringRead ==
  ASSUME NEW json \in Seq(Bytes), NEW t \in Seq(Bytes), NEW D, Paired(t, D),
         NEW key, StandsAt(json, t, After(json, Opening(key) \o <<Quote>>))
  PROVE  JsonGetString(json, key) = JsonUnescape(t)
<1> DEFINE f == After(json, Opening(key) \o <<Quote>>)
           m == Len(t)
           L == Len(json)
           Turns(turn) == [k \in 0..L |-> IF k = 0 THEN f ELSE Onward(json, turn[k - 1])]
           turn == CHOOSE turn : turn = Turns(turn)
           end == turn[L]
<1>1. /\ m \in Nat /\ L \in Nat /\ f \in Nat /\ f >= 1 /\ f + m <= L
      /\ \A r \in 1..m : json[f + r - 1] = t[r]
  BY DEF StandsAt
<1>2. StandsAt(json, t, f)
  OBVIOUS
<1>3. JsonGetString(json, key) = IF f = 0 \/ end > L THEN <<>> ELSE JsonUnescape(SubSeq(json, f, end - 1))
  BY Zenon DEF JsonGetString
<1> HIDE DEF f
<1>4. turn = Turns(turn)
  <2>1. \E g : g = Turns(g)
    BY <1>1, OnwardRuns
  <2> QED
    BY <2>1, Zenon
<1> HIDE DEF m, L, turn
<1>5. turn[0] = f /\ \A k \in 1..L : turn[k] = Onward(json, turn[k - 1])
  <2>1. 0 \in 0..L /\ \A k \in 1..L : k \in 0..L /\ k # 0
    BY <1>1
  <2> QED
    BY <1>4, <2>1, Zenon
<1> DEFINE T == {k \in 0..L : \E p \in 0..m : p + 1 \notin D /\ turn[k] = f + p /\ (p = m \/ p >= k)}
<1>6. 0 \in T
  <2>1. 0 + 1 \notin D
    BY DEF Paired
  <2>2. turn[0] = f + 0
    BY <1>1, <1>5
  <2>3. 0 \in 0..m /\ 0 \in 0..L /\ 0 >= 0
    BY <1>1
  <2> QED
    BY <2>1, <2>2, <2>3, Zenon
<1>7. ASSUME NEW k \in 1..L, k - 1 \in T PROVE k \in T
  <2>1. PICK p \in 0..m : p + 1 \notin D /\ turn[k - 1] = f + p /\ (p = m \/ p >= k - 1)
    BY <1>7
  <2>2. PICK q \in 0..m : /\ q + 1 \notin D /\ Onward(json, f + p) = f + q
                          /\ (p < m => q > p) /\ (p = m => q = p)
    BY <1>2, <2>1, OnwardInside DEF m
  <2>3. turn[k] = f + q
    BY <1>5, <2>1, <2>2
  <2>4. q = m \/ q >= k
    BY <1>1, <2>1, <2>2
  <2> QED
    BY <1>1, <2>2, <2>3, <2>4
<1>8. end = f + m
  <2> HIDE DEF T
  <2>1. \A k \in 1..L : k - 1 \in T => k \in T
    BY <1>7
  <2>2. \A k \in 0..L : k \in T
    BY <1>1, <1>6, <2>1, Ladder
  <2>3. L \in T
    BY <1>1, <2>2
  <2>4. PICK p \in 0..m : turn[L] = f + p /\ (p = m \/ p >= L)
    BY <2>3 DEF T
  <2>5. p = m
    BY <1>1, <2>4
  <2> QED
    BY <2>4, <2>5
<1> HIDE DEF end
<1>9. JsonGetString(json, key) = JsonUnescape(SubSeq(json, f, f + m - 1))
  <2>1. ~(f = 0 \/ end > L) /\ end - 1 = f + m - 1
    BY <1>1, <1>8
  <2> QED
    BY <1>3, <2>1, Zenon
<1>10. SubSeq(json, f, f + m - 1) = t
  <2> DEFINE u == SubSeq(json, f, f + m - 1)
  <2>1. u \in Seq(Bytes) /\ Len(u) = m /\ \A r \in 1..m : u[r] = json[f + r - 1]
    BY <1>1 DEF L
  <2> HIDE DEF u
  <2>2. \A r \in 1..Len(u) : u[r] = t[r]
    BY <1>1, <2>1
  <2>3. u = t
    BY <2>1, <2>2, SeqEqual DEF m
  <2> QED
    BY <2>3 DEF u
<1> QED
  BY <1>9, <1>10

(* The digit is read from where it stands.                                 *)
LEMMA NumberRead ==
  ASSUME NEW t, NEW n, NEW d, NEW named, NEW json, Readable(json, t, d, named, n)
  PROVE  JsonGetInt(json, 101) = d - 48
<1> DEFINE first == After(json, Opening(101))
           m == Len(t)
<1>1. first = m + 13
  BY ReadersStart
<1>2. /\ t \in Seq(Bytes) /\ n \in Seq(Bytes) /\ d \in 48..57 /\ named \in BOOLEAN
       /\ Laid(json, t, d, named, n)
  BY DEF Readable
<1>3. json \in Seq(Bytes) /\ json[m + 13] = d /\ m \in Nat
  BY <1>2 DEF Laid, BeginsWith
<1>4. m + 13 <= Len(json)
  <2>1. Len(n) \in Nat /\ Len(json) \in Nat
    BY <1>3, <1>2
  <2>2. CASE named
    <3>1. Len(json) = m + Len(n) + 21
      BY <1>2, <2>2, Zenon DEF Laid, EndsWith
    <3> HIDE DEF m
    <3> QED
      BY <1>3, <2>1, <3>1
  <2>3. CASE ~named
    <3>1. Len(json) = m + 14
      BY <1>2, <2>3, Zenon DEF Laid, EndsAt
    <3> HIDE DEF m
    <3> QED
      BY <1>3, <2>1, <3>1
  <2> QED
    BY <2>2, <2>3
<1>5. JsonGetInt(json, 101) = IF first = 0 \/ Byte(json, first) \notin 48..57 THEN 0 ELSE json[first] - 48
  BY Zenon DEF JsonGetInt
<1> HIDE DEF first, m
<1>6. m + 13 # 0 /\ Byte(json, m + 13) = d
  BY <1>3, <1>4, <1>2 DEF Byte
<1>7. first # 0 /\ Byte(json, first) \in 48..57 /\ json[first] = d
  <2>1. Byte(json, first) = d /\ json[first] = d /\ first # 0
    BY <1>1, <1>3, <1>6, Zenon
  <2> QED
    BY <1>2, <2>1
<1> QED
  BY <1>5, <1>7, Zenon

(* The token and the name stand before a quote.                            *)
LEMMA StringsStand ==
  ASSUME NEW t, NEW n, NEW d, NEW named, NEW json, Readable(json, t, d, named, n)
  PROVE  StandsAt(json, t, 7) /\ (named => StandsAt(json, n, Len(t) + 20))
<1> DEFINE m == Len(t)
           k == Len(n)
<1>1. /\ t \in Seq(Bytes) /\ n \in Seq(Bytes) /\ named \in BOOLEAN /\ json \in Seq(Bytes)
      /\ BeginsWith(json, t, d)
      /\ (named => EndsWith(json, m, n)) /\ (~named => EndsAt(json, m))
  BY Zenon DEF Readable, Laid
<1>2. m \in Nat /\ k \in Nat /\ Len(json) \in Nat
  BY <1>1
<1>3. (\A r \in 1..m : json[6 + r] = t[r]) /\ json[m + 7] = 34
  BY <1>1, Zenon DEF BeginsWith
<1>4. /\ json \in Seq(Bytes) /\ m \in Nat /\ k \in Nat /\ Len(json) \in Nat
      /\ \A r \in 1..m : json[6 + r] = t[r]
      /\ json[m + 7] = 34
  BY <1>1, <1>2, <1>3, Zenon
<1>5. named => /\ Len(json) = m + k + 21
               /\ \A r \in 1..k : json[m + 19 + r] = n[r]
               /\ json[m + k + 20] = 34
  BY <1>1, Zenon DEF EndsWith
<1>6. ~named => Len(json) = m + 14
  BY <1>1, Zenon DEF EndsAt
<1> HIDE DEF m, k
<1>7. StandsAt(json, t, 7)
  <2>1. 7 + m <= Len(json) /\ 7 + m = m + 7
    BY <1>4, <1>5, <1>6
  <2>2. \A r \in 1..m : 7 + r - 1 = 6 + r
    OBVIOUS
  <2>3. (\A r \in 1..m : json[7 + r - 1] = t[r]) /\ json[7 + m] = 34
    BY <1>4, <2>1, <2>2
  <2>4. 7 \in Nat /\ 7 >= 1
    OBVIOUS
  <2> QED
    BY <2>1, <2>3, <2>4, Zenon DEF StandsAt, m
<1>8. ASSUME named PROVE StandsAt(json, n, m + 20)
  <2>1. m + 20 + k <= Len(json) /\ m + 20 + k = m + k + 20 /\ m + 20 \in Nat /\ m + 20 >= 1
    BY <1>4, <1>5, <1>8
  <2>2. \A r \in 1..k : m + 20 + r - 1 = m + 19 + r
    BY <1>4
  <2>3. (\A r \in 1..k : json[m + 20 + r - 1] = n[r]) /\ json[m + 20 + k] = 34
    BY <1>5, <1>8, <2>1, <2>2
  <2> QED
    BY <2>1, <2>3, Zenon DEF StandsAt, k
<1> QED
  BY <1>7, <1>8 DEF m

(* What was sealed is read back: the token and the name, whatever bytes    *)
(* they are made of, and the expiry.                                       *)
LEMMA SealedReadBack ==
  ASSUME NEW s \in Session
  PROVE  /\ JsonGetString(Sealed(s), 116) = s.tok
         /\ JsonGetInt(Sealed(s), 101) = s.exp
         /\ JsonGetString(Sealed(s), 110) = s.name
<1> DEFINE t == JsonEscape(s.tok)
           n == JsonEscape(s.name)
           d == 48 + s.exp
           named == s.name # <<>>
           json == Sealed(s)
<1>1. s.tok \in Seq(Bytes) /\ s.name \in Seq(Bytes) /\ s.exp \in 0..9
  BY DEF Session
<1>2. t \in Seq(Bytes) /\ n \in Seq(Bytes) /\ (\E D : Paired(t, D)) /\ \E C : Paired(n, C)
  BY <1>1, EscapedIsPaired
<1>3. PICK D : Paired(t, D)
  BY <1>2
<1>4. PICK C : Paired(n, C)
  BY <1>2
<1>5. Laid(json, t, d, named, n)
  BY SealedLaid
<1>6. d \in 48..57 /\ d - 48 = s.exp
  <2>1. PICK e \in 0..9 : s.exp = e
    BY <1>1, Zenon
  <2>2. 48 + e \in 48..57 /\ (48 + e) - 48 = e
    OBVIOUS
  <2>3. d = 48 + e
    BY <2>1, Zenon
  <2> HIDE DEF d
  <2> QED
    BY <2>1, <2>2, <2>3, Zenon
<1>7. JsonUnescape(t) = s.tok /\ JsonUnescape(n) = s.name
  BY <1>1, UnescapeInvertsEscape
<1>8. named \in BOOLEAN
  OBVIOUS
<1>9. ~named => s.name = <<>>
  OBVIOUS
<1> HIDE DEF t, n, d, named, json
<1>10. json \in Seq(Bytes)
  BY <1>5 DEF Laid
<1>11. Readable(json, t, d, named, n)
  BY <1>2, <1>5, <1>6, <1>8, Zenon DEF Readable
<1>12. /\ After(json, Opening(116) \o <<Quote>>) = 7
       /\ named => After(json, Opening(110) \o <<Quote>>) = Len(t) + 20
       /\ ~named => After(json, Opening(110) \o <<Quote>>) = 0
  BY <1>11, ReadersStart
<1>13. StandsAt(json, t, 7) /\ (named => StandsAt(json, n, Len(t) + 20))
  BY <1>11, StringsStand
<1>14. JsonGetString(json, 116) = s.tok
  <2>1. StandsAt(json, t, After(json, Opening(116) \o <<Quote>>))
    BY <1>12, <1>13, Zenon
  <2>2. JsonGetString(json, 116) = JsonUnescape(t)
    BY <1>2, <1>3, <1>10, <2>1, StringRead
  <2> QED
    BY <1>7, <2>2
<1>15. JsonGetInt(json, 101) = s.exp
  <2>1. JsonGetInt(json, 101) = d - 48
    BY <1>11, NumberRead
  <2> QED
    BY <1>6, <2>1, Zenon
<1>16. JsonGetString(json, 110) = s.name
  <2>1. CASE named
    <3>1. StandsAt(json, n, After(json, Opening(110) \o <<Quote>>))
      <4>1. After(json, Opening(110) \o <<Quote>>) = Len(t) + 20
        BY <1>12, <2>1, Zenon
      <4>2. StandsAt(json, n, Len(t) + 20)
        BY <1>13, <2>1, Zenon
      <4> QED
        BY <4>1, <4>2, Zenon
    <3>2. JsonGetString(json, 110) = JsonUnescape(n)
      BY <1>2, <1>4, <1>10, <3>1, StringRead
    <3> QED
      BY <1>7, <3>2
  <2>2. CASE ~named
    <3>1. After(json, Opening(110) \o <<Quote>>) = 0
      BY <1>12, <2>2
    <3>2. JsonGetString(json, 110) = <<>>
      BY <3>1, Zenon DEF JsonGetString
    <3> QED
      BY <1>9, <2>2, <3>2
  <2> QED
    BY <2>1, <2>2
<1> QED
  BY <1>14, <1>15, <1>16 DEF json

(* A session that Encrypt sealed with a key is what Decrypt gives with the *)
(* same key until it has expired, and nothing else ever comes out.         *)
THEOREM DecryptInvertsEncrypt ==
  ASSUME NEW s \in Session, NEW key, NEW other, wall \in Nat
  PROVE  Decrypt(Encrypt(s, key), other) = IF key = other /\ wall <= s.exp THEN s ELSE NoSession
<1> DEFINE json == Sealed(s)
           value == Encrypt(s, key)
<1>1. value.key = key /\ value.text = Base64UrlEncode(json)
  BY EncryptSeals
<1>2. json \in Seq(Bytes)
  BY SealedLaid DEF Laid
<1>3. Base64UrlDecode(value.text) = json
  BY <1>1, <1>2, DecodeInvertsEncode
<1>4. JsonGetString(json, 116) = s.tok /\ JsonGetInt(json, 101) = s.exp /\ JsonGetString(json, 110) = s.name
  BY SealedReadBack
<1>5. [tok |-> s.tok, exp |-> s.exp, name |-> s.name] = s
  BY DEF Session
<1> HIDE DEF json, value
<1>6. Decrypt(value, other) = IF value.key # other \/ s.exp < wall THEN NoSession ELSE s
  BY <1>3, <1>4, <1>5, Zenon DEF Decrypt
<1>7. s.exp < wall <=> ~(wall <= s.exp)
  <2>1. s.exp \in 0..9
    BY DEF Session
  <2> QED
    BY <2>1
<1> QED
  BY <1>1, <1>6, <1>7, Zenon DEF value

-----------------------------------------------------------------------------
(* The cookie is what Encrypt made of the session that was minted, and a   *)
(* check that reached the running six-feat-auth knows how the keys are.    *)
CookieSealed ==
  cookie # NoCookie =>
    cookie.key \in Secret /\ minted \in Session /\ cookie = Encrypt(minted, cookie.key)

ParityKnown ==
  compared => \/ parity = IF keyOf["auth"] = keyOf["api"] THEN "ok" ELSE "mismatch"
              \/ parity = "unreachable"

(* Of both, and the types, an inductive invariant.                         *)
CookieInv ==
  /\ wall \in 0..MaxWall /\ restarts \in 0..MaxRestarts /\ compared \in BOOLEAN
  /\ account \in [tok : Token, name : Name]
  /\ keyOf \in [Service -> Secret]
  /\ parity \in {"unknown", "ok", "mismatch", "unreachable"}
  /\ CookieSealed
  /\ ParityKnown

(* The inductive invariant holds at first.                                 *)
LEMMA CookieInvInit == CookieInit => CookieInv
<1> SUFFICES ASSUME NEW who \in [tok : Token, name : Name], NEW keys \in [Service -> Secret], CookieInitWith(who, keys)
             PROVE  CookieInv
  BY DEF CookieInit
<1>1. wall \in 0..MaxWall /\ restarts \in 0..MaxRestarts
  BY CookieConstants DEF CookieInitWith
<1>2. account \in [tok : Token, name : Name] /\ keyOf \in [Service -> Secret] /\ compared \in BOOLEAN
      /\ parity \in {"unknown", "ok", "mismatch", "unreachable"}
  BY DEF CookieInitWith
<1>3. CookieSealed /\ ParityKnown
  BY DEF CookieInitWith, CookieSealed, ParityKnown
<1> QED
  BY <1>1, <1>2, <1>3 DEF CookieInv

(* Every step keeps it.                                                    *)
LEMMA CookieInvStep == CookieInv /\ [CookieNext]_cookieVars => CookieInv'
<1> SUFFICES ASSUME CookieInv, [CookieNext]_cookieVars PROVE CookieInv'
  OBVIOUS
<1>1. /\ wall \in 0..MaxWall /\ restarts \in 0..MaxRestarts /\ compared \in BOOLEAN
      /\ account \in [tok : Token, name : Name]
      /\ keyOf \in [Service -> Secret]
      /\ parity \in {"unknown", "ok", "mismatch", "unreachable"}
      /\ CookieSealed /\ ParityKnown
  BY DEF CookieInv
<1>2. CASE IssueSessionCookies
  <2> DEFINE made == [tok |-> account.tok, exp |-> wall + SessionTtl, name |-> account.name]
             key == keyOf["auth"]
  <2>1. minted' = made /\ cookie' = Encrypt(made, key)
        /\ UNCHANGED <<account, wall, keyOf, parity, restarts, compared>>
    BY <1>2 DEF IssueSessionCookies
  <2>2. made \in Session
    <3>1. account.tok \in Seq(Bytes) /\ account.name \in Seq(Bytes)
      BY <1>1, CookieConstants
    <3>2. wall + SessionTtl \in 0..9
      BY <1>1, CookieConstants
    <3> QED
      BY <3>1, <3>2 DEF Session
  <2>3. key \in Secret
    BY <1>1 DEF Service
  <2> HIDE DEF made, key
  <2>4. cookie'.key = key
    <3>1. Encrypt(made, key).key = key
      BY EncryptSeals
    <3> QED
      BY <2>1, <3>1
  <2>5. CookieSealed'
    BY <2>1, <2>2, <2>3, <2>4 DEF CookieSealed
  <2>6. ParityKnown'
    BY <1>1, <2>1 DEF ParityKnown
  <2> QED
    BY <1>1, <2>1, <2>5, <2>6 DEF CookieInv
<1>3. ASSUME NEW service \in Service, NEW secret \in Secret, RestartService(service, secret) PROVE CookieInv'
  <2>1. /\ restarts < MaxRestarts /\ restarts' = restarts + 1
        /\ keyOf' = [keyOf EXCEPT ![service] = secret]
        /\ parity' = (IF service = "api" THEN "unknown" ELSE parity)
        /\ compared' = FALSE
        /\ UNCHANGED <<account, wall, cookie, minted>>
    BY <1>3 DEF RestartService
  <2>2. restarts' \in 0..MaxRestarts
    BY <1>1, <2>1, CookieConstants
  <2>3. keyOf' \in [Service -> Secret] /\ parity' \in {"unknown", "ok", "mismatch", "unreachable"}
    BY <1>1, <2>1
  <2>4. CookieSealed' /\ ParityKnown'
    BY <1>1, <2>1 DEF CookieSealed, ParityKnown
  <2> QED
    BY <1>1, <2>1, <2>2, <2>3, <2>4 DEF CookieInv
<1>4. CASE PerformCheck
  <2>1. /\ UNCHANGED <<account, wall, keyOf, cookie, restarts, minted>>
        /\ \/ parity' = (IF keyOf["auth"] = keyOf["api"] THEN "ok" ELSE "mismatch") /\ compared' = TRUE
           \/ parity' = "unreachable" /\ UNCHANGED compared
    BY <1>4 DEF PerformCheck, Fingerprint
  <2>2. CookieSealed' /\ ParityKnown'
    BY <1>1, <2>1 DEF CookieSealed, ParityKnown
  <2> QED
    BY <1>1, <2>1, <2>2 DEF CookieInv
<1>5. CASE CookieTick
  <2>1. wall < MaxWall /\ wall' = wall + 1
        /\ UNCHANGED <<account, keyOf, parity, cookie, restarts, minted, compared>>
    BY <1>5 DEF CookieTick
  <2>2. wall' \in 0..MaxWall
    BY <1>1, <2>1, CookieConstants
  <2>3. CookieSealed' /\ ParityKnown'
    BY <1>1, <2>1 DEF CookieSealed, ParityKnown
  <2> QED
    BY <1>1, <2>1, <2>2, <2>3 DEF CookieInv
<1>6. CASE UNCHANGED cookieVars
  BY <1>1, <1>6 DEF cookieVars, CookieInv, CookieSealed, ParityKnown
<1> QED
  BY <1>2, <1>3, <1>4, <1>5, <1>6 DEF CookieNext

(* So it holds always.                                                     *)
LEMMA CookieInvHolds == CookieSpec => []CookieInv
BY CookieInvInit, CookieInvStep, PTL DEF CookieSpec

(* The types: what a cookie holds are characters of Base64.                *)
THEOREM CookieTypeCorrect == CookieSpec => []CookieTypeOK
<1>1. CookieInv => CookieTypeOK
  <2> SUFFICES ASSUME CookieInv PROVE CookieTypeOK
    OBVIOUS
  <2>1. cookie.text \in Seq(0..63)
    <3>1. CASE cookie = NoCookie
      BY <3>1 DEF NoCookie
    <3>2. CASE cookie # NoCookie
      <4>1. minted \in Session /\ cookie = Encrypt(minted, cookie.key)
        BY <3>2 DEF CookieInv, CookieSealed
      <4>2. Sealed(minted) \in Seq(Bytes)
        BY <4>1, SealedLaid DEF Laid
      <4>3. cookie.text = Base64UrlEncode(Sealed(minted))
        BY <4>1, EncryptSeals
      <4> QED
        BY <4>2, <4>3, EncodedText
    <3> QED
      BY <3>1, <3>2
  <2> QED
    BY <2>1 DEF CookieInv, CookieTypeOK
<1> QED
  BY <1>1, CookieInvHolds, PTL

(* Whatever bytes the token and the name are made of, and whenever the two *)
(* services are started again and with which secrets: a session reads back *)
(* as it was minted until it expires by a six-feat with the key of its     *)
(* minter, and by no other; and a six-feat that has compared keys with the *)
(* six-feat-auth that runs tells a browser with an unexpired session of it *)
(* that it is not signed in only while the last check is one that failed.  *)
THEOREM SessionsReadBackHolds == CookieSpec => []SessionsReadBack
<1>1. CookieInv => SessionsReadBack
  <2> SUFFICES ASSUME CookieInv, cookie # NoCookie
               PROVE  /\ RequireFullSession =
                           IF cookie.key = keyOf["api"] /\ wall <= minted.exp THEN minted ELSE NoSession
                      /\ compared /\ cookie.key = keyOf["auth"] /\ wall <= minted.exp =>
                           SettingsStatus # "401 not authenticated" \/ parity = "unreachable"
    BY DEF SessionsReadBack
  <2>1. minted \in Session /\ cookie = Encrypt(minted, cookie.key) /\ ParityKnown /\ wall \in Nat
    BY DEF CookieInv, CookieSealed
  <2> DEFINE api == keyOf["api"]
             read == IF cookie.key = api /\ wall <= minted.exp THEN minted ELSE NoSession
  <2>2. RequireFullSession = read
    <3>1. RequireFullSession = Decrypt(cookie, api)
      BY DEF RequireFullSession
    <3>2. Decrypt(Encrypt(minted, cookie.key), api) = read
      BY <2>1, DecryptInvertsEncrypt
    <3> QED
      BY <2>1, <3>1, <3>2
  <2>3. ASSUME compared, cookie.key = keyOf["auth"], wall <= minted.exp, parity # "unreachable"
        PROVE  SettingsStatus # "401 not authenticated"
    <3>1. minted # NoSession
      BY <2>1 DEF Session, NoSession
    <3>2. CASE keyOf["auth"] = api
      <4>1. RequireFullSession # NoSession
        BY <2>2, <2>3, <3>1, <3>2
      <4>2. SettingsStatus = "200"
        BY <4>1, Zenon DEF SettingsStatus
      <4> QED
        BY <4>2
    <3>3. CASE keyOf["auth"] # api
      <4>1. RequireFullSession = NoSession
        BY <2>2, <2>3, <3>3
      <4>2. parity = "mismatch"
        BY <2>1, <2>3, <3>3 DEF ParityKnown
      <4>3. SettingsStatus = "503 backend_misconfigured"
        BY <4>1, <4>2, Zenon DEF SettingsStatus
      <4> QED
        BY <4>3
    <3> QED
      BY <3>2, <3>3
  <2> QED
    BY <2>2, <2>3
<1> QED
  BY <1>1, CookieInvHolds, PTL

=============================================================================

------------------------------ MODULE ApiKeys ------------------------------
(***************************************************************************)
(* Issuing and revoking API keys under an Idempotency-Key: RunIdempotent   *)
(* looks the key up, runs the handler's body and stores its answer, three  *)
(* steps that other requests, failures and restarts come between.  The     *)
(* requests are those of one user whose session is valid and who has a     *)
(* Genius token; all others end before RunIdempotent and change nothing.   *)
(***************************************************************************)
EXTENDS Integers, Sequences, FiniteSets

CONSTANTS Slot,        \* requests that can be in flight at once
          IdemKey,     \* values of the Idempotency-Key header
          NoKey,       \* the header is missing
          Tier,        \* rate_tier of an issue request
          Garbage,     \* a body that is not JSON
          KeyTtl,      \* kDefaultIdempotencyTtl, in ticks
          MaxKeys,     \* bound of the model: API keys that are issued
          MaxBodies,   \* bound of the model: bodies run under one Idempotency-Key
          MaxKeyTime   \* bound of the model: the clock stops here

KeysConstantsOK ==
  /\ IsFiniteSet(Slot) /\ NoKey \notin IdemKey /\ Garbage \notin Tier
  /\ KeyTtl \in Nat \ {0} /\ MaxKeys \in Nat /\ MaxBodies \in Nat /\ MaxKeyTime \in Nat

Issues == [route : {"api_keys_issue"}, body : Tier \cup {Garbage}, id : {0}]
Revokes == [route : {"api_keys_revoke"}, body : {""}, id : 1..MaxKeys]

VARIABLES rows,         \* table idempotency_keys: key -> [hash, answer, expires]
          apiKeys,      \* table api_keys: id -> [tier, revoked]
          requests,     \* the requests in flight
          time,         \* the clock
          bodies,       \* history: how often each Idempotency-Key let a body run
          slips         \* history: how often each was left without its answer

keyVars == <<rows, apiKeys, requests, time, bodies, slips>>

Free == [at |-> "free"]
NoAnswer == [status |-> 0, id |-> 0]

KeysInit ==
  /\ rows = <<>> /\ apiKeys = <<>>
  /\ requests = [s \in Slot |-> Free]
  /\ time = 0
  /\ bodies = [k \in IdemKey |-> 0] /\ slips = [k \in IdemKey |-> 0]

(* HashRequest: SHA-256 of the route and the body.  The id of a revocation *)
(* is in the query and is not hashed.                                      *)
HashRequest(ask) == <<ask.route, ask.body>>

Arrive(s, k, ask) ==
  /\ requests[s] = Free
  /\ requests' = [requests EXCEPT ![s] =
       [at |-> IF k = NoKey THEN "body" ELSE "lookup", key |-> k, ask |-> ask,
        answer |-> NoAnswer, replay |-> FALSE]]
  /\ UNCHANGED <<rows, apiKeys, time, bodies, slips>>

(* Mutant: the row is read a tick too short. *)
LiveForLess(k) == k \in DOMAIN rows /\ rows[k].expires > time + 1

Live(k) == k \in DOMAIN rows /\ rows[k].expires > time
SameRequest(k, ask) == rows[k].hash = HashRequest(ask)

(* Another request has looked the key up and not stored its answer. *)
Overlaps(s) ==
  \E r \in Slot \ {s} : requests[r].at \in {"body", "store"} /\ requests[r].key = requests[s].key

Expired(k) == k \in DOMAIN rows /\ rows[k].expires <= time

(* A body runs although one was begun or its answer is still in the table. *)
LetIn(s, k) ==
  /\ bodies[k] < MaxBodies
  /\ bodies' = [bodies EXCEPT ![k] = @ + 1]
  /\ slips' = IF Overlaps(s) \/ Expired(k) THEN [slips EXCEPT ![k] = @ + 1] ELSE slips

Lookup(s) ==
  LET r == requests[s] IN
  /\ r.at = "lookup"
  /\ requests' = [requests EXCEPT ![s] =
       IF ~Live(r.key) THEN [r EXCEPT !.at = "body"]
       ELSE IF ~SameRequest(r.key, r.ask)
       THEN [r EXCEPT !.at = "done", !.answer = [status |-> 422, id |-> 0]]
       ELSE [r EXCEPT !.at = "done", !.answer = rows[r.key].answer, !.replay = TRUE]]
  /\ IF ~Live(r.key) THEN LetIn(s, r.key) ELSE UNCHANGED <<bodies, slips>>
  /\ UNCHANGED <<rows, apiKeys, time>>

(* The body has answered: only a request with a key goes on to store it. *)
BodyAnswers(s, status, id) ==
  requests' = [requests EXCEPT
    ![s].at = IF requests[s].key = NoKey THEN "done" ELSE "store",
    ![s].answer = [status |-> status, id |-> id]]

(* ApiKeyIssueHandler: a body that does not parse is answered, not thrown. *)
Issue(s) ==
  LET r == requests[s] IN
  /\ r.at = "body" /\ r.ask.route = "api_keys_issue"
  /\ IF r.ask.body = Garbage
     THEN BodyAnswers(s, 400, 0) /\ UNCHANGED apiKeys
     ELSE /\ Len(apiKeys) < MaxKeys
          /\ apiKeys' = Append(apiKeys, [tier |-> r.ask.body, revoked |-> FALSE])
          /\ BodyAnswers(s, 201, Len(apiKeys) + 1)
  /\ UNCHANGED <<rows, time, bodies, slips>>

CanBeRevoked(i) == i \in DOMAIN apiKeys /\ ~apiKeys[i].revoked

(* ApiKeyRevokeHandler: one UPDATE ... RETURNING decides and revokes. *)
Revoke(s) ==
  LET i == requests[s].ask.id IN
  /\ requests[s].at = "body" /\ requests[s].ask.route = "api_keys_revoke"
  /\ IF CanBeRevoked(i)
     THEN /\ apiKeys' = [apiKeys EXCEPT ![i].revoked = TRUE]
          /\ BodyAnswers(s, 200, i)
     ELSE BodyAnswers(s, 404, 0) /\ UNCHANGED apiKeys
  /\ UNCHANGED <<rows, time, bodies, slips>>

(* INSERT ... ON CONFLICT (key) DO NOTHING, an expired row included. *)
Stored(k, row) ==
  IF k \in DOMAIN rows THEN rows
  ELSE [j \in DOMAIN rows \cup {k} |-> IF j = k THEN row ELSE rows[j]]

Store(s) ==
  LET r == requests[s] IN
  /\ r.at = "store"
  /\ rows' = Stored(r.key, [hash |-> HashRequest(r.ask), answer |-> r.answer, expires |-> time + KeyTtl])
  /\ requests' = [requests EXCEPT ![s].at = "done"]
  /\ UNCHANGED <<apiKeys, time, bodies, slips>>

(* The keys that these requests leave without an answer to replay. *)
Unanswered(ss) == {requests[s].key : s \in {t \in ss : requests[t].at \in {"body", "store"}}}

Gone(ss) ==
  /\ requests' = [s \in Slot |-> IF s \in ss THEN Free ELSE requests[s]]
  /\ slips' = [k \in IdemKey |-> IF k \in Unanswered(ss) THEN slips[k] + 1 ELSE slips[k]]
  /\ UNCHANGED <<rows, apiKeys, time, bodies>>

(* Postgres fails: the exception of any of the three steps ends the        *)
(* request with a 500, and what the body did stays done.                   *)
Throw(s) == requests[s].at \in {"lookup", "body", "store"} /\ Gone({s})

(* The process ends with every request it was handling. *)
Crash == (\E s \in Slot : requests[s] # Free) /\ Gone(Slot)

Leave(s) == requests[s].at = "done" /\ Gone({s})

KeysTick ==
  /\ time < MaxKeyTime
  /\ time' = time + 1
  /\ UNCHANGED <<rows, apiKeys, requests, bodies, slips>>

KeysNext ==
  \/ \E s \in Slot :
       \/ \E k \in IdemKey \cup {NoKey}, ask \in Issues \cup Revokes : Arrive(s, k, ask)
       \/ Lookup(s) \/ Issue(s) \/ Revoke(s) \/ Store(s) \/ Throw(s) \/ Leave(s)
  \/ Crash \/ KeysTick

KeysSpec == KeysInit /\ [][KeysNext]_keyVars

-----------------------------------------------------------------------------
(* The tables hold rows of their columns' types, and a stored success      *)
(* names an API key that exists.                                           *)
KeysTypeOK ==
  /\ KeysConstantsOK
  /\ time \in 0..MaxKeyTime /\ \A k \in IdemKey : bodies[k] \in 0..MaxBodies
  /\ \A i \in DOMAIN apiKeys : apiKeys[i].tier \in Tier /\ apiKeys[i].revoked \in BOOLEAN
  /\ DOMAIN rows \subseteq IdemKey
  /\ \A k \in DOMAIN rows :
       /\ rows[k].expires \in KeyTtl..(time + KeyTtl)
       /\ rows[k].answer.status \in {200, 201, 400, 404}
       /\ rows[k].answer.status \in {200, 201} => rows[k].answer.id \in DOMAIN apiKeys

(* A repeated request reaches the body only where the protection did not   *)
(* hold, once for each time: it overlapped with another, the body or the   *)
(* store of its answer failed, or the row had expired, which stays in the  *)
(* table and keeps every later answer out (idempotency.cpp:59, :74,        *)
(* idempotency_store.cpp:70).  What is replayed instead answers the same   *)
(* request: an API key of the tier asked for, and to no other request is   *)
(* an API key ever shown.                                                  *)
RepeatsAreAccountedFor ==
  /\ \A k \in IdemKey : bodies[k] <= 1 + slips[k]
  /\ \A s \in Slot : LET r == requests[s] IN
       r.at = "done" /\ r.replay =>
         /\ r.answer.status = 201 => apiKeys[r.answer.id].tier = r.ask.body
         /\ r.answer.status = 201 <=> r.ask.route = "api_keys_issue" /\ r.ask.body # Garbage

(* A double click issues one API key: of two issue requests with the same  *)
(* Idempotency-Key and body that both succeed, both are told of the same   *)
(* key.  docs/DEVELOPMENT.md:202 says that the Idempotency-Key protects    *)
(* from repeated side effects on a retry or a double click.                *)
DoubleClickIssuesOne ==
  \A s, t \in Slot : LET q == requests[s]  r == requests[t] IN
    /\ q.at = "done" /\ r.at = "done" /\ q.key = r.key /\ q.key # NoKey /\ q.ask = r.ask
    /\ q.answer.status = 201 /\ r.answer.status = 201
    => q.answer.id = r.answer.id

(* Who is told that the key was revoked may rely on it: schemas/openapi/   *)
(* openapi.json describes the 200 answer of POST /api/v1/api-keys/revoke   *)
(* as "Revoked".                                                           *)
RevokedMeansRevoked ==
  \A s \in Slot : LET r == requests[s] IN
    /\ r.at = "done" /\ r.ask.route = "api_keys_revoke" /\ r.answer.status = 200
    /\ r.ask.id \in DOMAIN apiKeys
    => apiKeys[r.ask.id].revoked

=============================================================================

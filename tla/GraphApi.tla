------------------------------ MODULE GraphApi ------------------------------
(***************************************************************************)
(* One request through the public API of six-feat (graph, edge, deepen,    *)
(* path, search, artist, layout) about one artist, over tables that the    *)
(* enrichment worker, other requests and the prune task change meanwhile.  *)
(* A handler is the sequence of its reads and of its calls to Genius; the  *)
(* reads of one GetArtistSongs are one step, because ArtistStore shows     *)
(* that they tell one story unless the artist is pruned.                   *)
(***************************************************************************)
EXTENDS Integers, FiniteSets

CONSTANTS ApiSong,      \* the artist's songs at Genius
          Routes,       \* the endpoints that are called
          Callers,      \* who calls them
          MaxWrites     \* bound of the model: changes of the tables

VARIABLES table,        \* the artist's rows: known, depth, count, songs, ts
          req,          \* the request
          held,         \* the graph the browser has cached: etag and body
          writes,       \* changes so far, and the clock of last_fetch_ts
          lost          \* history: pruned since the request began

apiVars == <<table, req, held, writes, lost>>

AllRoutes == {"graph", "edge", "deepen", "path", "search", "artist", "layout"}
AllCallers == {"key", "bad key", "user", "stale user", "guest", "nobody"}

ApiConstantsOK ==
  /\ IsFiniteSet(ApiSong) /\ ApiSong # {} /\ MaxWrites \in Nat
  /\ Routes \subseteq AllRoutes /\ Callers \subseteq AllCallers

DepthForeground == 1
DepthFull == 2

NotStored == [known |-> FALSE, depth |-> 0, count |-> 0, songs |-> {}, ts |-> 0]

HasSession(c) == c \in {"user", "stale user", "guest"}

(* The Genius token of a caller: an API key's owner has one that works, a   *)
(* guest's session has none, a stale user's was revoked at Genius.          *)
TokenOf(c) == CASE c \in {"key", "user"} -> "good" [] c = "stale user" -> "stale" [] OTHER -> "none"

NoRequest == [at |-> "idle"]

ApiInitWith(stored) ==
  /\ table = stored
  /\ req = NoRequest
  /\ held = [etag |-> <<>>, body |-> {}]
  /\ writes = 0
  /\ lost = FALSE

(* Scans of other artists may have stored some of the songs. *)
ApiInit ==
  \E stored \in {NotStored} \cup
                [known : {TRUE}, depth : {0}, count : {0}, songs : SUBSET ApiSong, ts : {0}] :
    ApiInitWith(stored)

Answer(status) == req' = [req EXCEPT !.at = "done", !.status = status]
Proceed(step) == req' = [req EXCEPT !.at = step]

-----------------------------------------------------------------------------
(* The gate: API key, rate limit, session, token and arguments.  A guest    *)
(* passes where the tables may have the answer, and a fully cached graph    *)
(* does not look for a token at all.                                        *)

Unlimited(r) == r = "artist"
NeedsToken(r) == r \in {"deepen", "path", "search"}

(* The error a caller gets from the gate; "" lets the request through.      *)
Refusals(r, c) ==
  CASE c = "bad key" -> {"401 invalid_api_key"}
    [] c = "nobody" \/ (c = "guest" /\ r \in {"search", "artist"}) -> {"401 not_authenticated"}
    [] c = "guest" /\ NeedsToken(r) -> {"422 no_genius_token"}
    [] OTHER -> {"", "400 bad_request"}

(* The session's token is looked up at the gate, for a graph after its     *)
(* depth was checked.                                                       *)
TokenAtGate(r, c) == IF r = "graph" /\ HasSession(c) THEN "none" ELSE TokenOf(c)

FirstStep(r) ==
  CASE r \in {"graph", "edge", "artist"} -> "lookup"
    [] r \in {"deepen", "path"} -> "resolve"
    [] r = "search" -> "ask"
    [] r = "layout" -> "place"

Receive(r, c, limited) ==
  /\ req.at = "idle"
  /\ \E refusal \in Refusals(r, c) \cup (IF Unlimited(r) THEN {} ELSE {"429 rate limit"}) :
       req' = [at |-> IF refusal = "" THEN FirstStep(r) ELSE "done", status |-> refusal,
               route |-> r, caller |-> c, token |-> TokenAtGate(r, c),
               limited |-> limited /\ r = "graph",
               cached |-> table.depth >= DepthForeground, seed |-> FALSE,
               data |-> {}, unasked |-> FALSE]
  /\ lost' = FALSE
  /\ UNCHANGED <<table, held, writes>>

-----------------------------------------------------------------------------
(* Finding the artist: by id or name in the tables, then at Genius.         *)

(* A name that matches several cached artists is answered with the list.    *)
Ambiguous ==
  /\ req.at = "lookup" /\ req.route = "graph"
  /\ Answer("200 ambiguous")
  /\ UNCHANGED <<table, held, writes, lost>>

LookUpArtist ==
  /\ req.at = "lookup"
  /\ CASE req.route = "artist" -> IF table.known THEN Proceed("tag") ELSE Answer("404 not_found")
       [] req.route = "graph" -> req' = [req EXCEPT !.seed = table.known, !.at = "depth"]
       [] req.route = "edge" ->
            CASE table.known -> Proceed("songs")
              [] ~table.known /\ req.token = "none" -> Answer("422 no_genius_token")
              [] OTHER -> Proceed("resolve")
  /\ UNCHANGED <<table, held, writes, lost>>

(* A mutant: a seed that is known but not scanned counts as cached.         *)
KnownIsCached == req.seed /\ ~req.limited

(* seed_fully_cached: then the session's token is not needed and not read.  *)
FullyCached == req.seed /\ ~req.limited /\ table.depth >= DepthForeground

TokenAfterDepth ==
  IF HasSession(req.caller) /\ ~FullyCached THEN TokenOf(req.caller) ELSE req.token

CheckDepth ==
  /\ req.at = "depth"
  /\ req' = [req EXCEPT !.token = TokenAfterDepth,
               !.at = CASE req.seed -> "songs"
                        [] ~req.seed /\ TokenAfterDepth = "none" -> "done"
                        [] OTHER -> "resolve",
               !.status = IF ~req.seed /\ TokenAfterDepth = "none"
                          THEN "422 no_genius_token" ELSE ""]
  /\ UNCHANGED <<table, held, writes, lost>>

(* How Genius ends a request that carries this token: 401 only, and always, *)
(* for one that does not work, unless it is not reached.                     *)
Failures(token) ==
  {"503 genius_error", "503 client_cancelled", "502 genius_error"}
    \cup (IF token = "good" THEN {} ELSE {"401 token_invalid"})

(* FetchArtistById: no such artist, or any error but a 401, is no artist.    *)
Refused(token) == {"no artist"} \cup (IF token = "good" THEN {} ELSE {"401 token_invalid"})

(* Artists the tables do not know are fetched by id, or by name for a graph  *)
(* or a path; no such artist is an empty graph or 404.                       *)
Resolve ==
  LET next == IF req.route = "deepen" THEN "ask" ELSE "songs" IN
  /\ req.at = "resolve" /\ req.route # "path"
  /\ \/ table.known /\ Proceed(next)
     \/ req.token = "good" /\ (Proceed(next) \/ (req.route = "graph" /\ Answer("200 ambiguous")))
     \/ ~table.known /\ \E f \in Refused(req.token) :
          Answer(CASE f # "no artist" -> f
                   [] req.route = "graph" -> "200 empty"
                   [] OTHER -> "404 not_found")
     \/ req.route = "graph" /\ \E f \in Failures(req.token) : Answer(f)
  /\ UNCHANGED <<table, held, writes, lost>>

(* An end of a path: an id is looked up first, a name always goes to Genius. *)
ResolveEndpoint ==
  /\ req.at = "resolve" /\ req.route = "path"
  /\ \/ (table.known \/ req.token = "good") /\ Proceed("find")
     \/ Answer("404 resolve_failed")
     \/ \E f \in Failures(req.token) : Answer(f)
  /\ UNCHANGED <<table, held, writes, lost>>

(* One artist at both ends.                                                  *)
SameEnds ==
  /\ req.at = "find" /\ Proceed("tag")
  /\ UNCHANGED <<table, held, writes, lost>>

(* FindPath is CollabPath; here it finds a path, none in time, or fails.     *)
FindPath ==
  /\ req.at = "find"
  /\ \/ Proceed("tag") \/ Answer("200 no_path") \/ Answer("503 deadline_exceeded")
     \/ Answer("500 internal_error")
     \/ \E f \in Failures(req.token) : Answer(f)
  /\ UNCHANGED <<table, held, writes, lost>>

(* Search asks Genius for candidates, deepen for the artist's edges; a       *)
(* neighbour whose card cannot be loaded keeps its edge without a name.      *)
Search ==
  /\ req.at = "ask" /\ req.route = "search"
  /\ \/ req.token = "good" /\ Answer("200")
     \/ \E f \in Failures(req.token) : Answer(f)
  /\ UNCHANGED <<table, held, writes, lost>>

Deepen ==
  /\ req.at = "ask" /\ req.route = "deepen"
  /\ \/ req.token = "good" /\ Answer("200")
     \/ \E f \in Failures(req.token) : Answer(f)
  /\ UNCHANGED <<table, held, writes, lost>>

PlaceNodes ==
  /\ req.at = "place"
  /\ Answer("200")
  /\ UNCHANGED <<table, held, writes, lost>>

-----------------------------------------------------------------------------
(* BuildRadialGraph: the stored songs, or a foreground fetch.                *)

(* A mutant: what is not complete is fetched. *)
MustComplete == table.depth < DepthFull \/ req.limited

MustFetch == table.depth < DepthForeground \/ req.limited

ReadStoredSongs ==
  /\ req.at = "songs"
  /\ req' = [req EXCEPT !.data = IF table.depth > 0 THEN table.songs ELSE {},
                        !.at = IF MustFetch THEN "fetch"
                               ELSE IF req.route = "edge" THEN "edge" ELSE "tag"]
  /\ UNCHANGED <<table, held, writes, lost>>

AfterFetch == IF req.route = "edge" THEN "edge" ELSE "tag"

(* The fetch_state row is not replaced by a shallower one.                   *)
Written(loaded, depth) ==
  LET deeper == depth >= table.depth IN
  [known |-> TRUE, songs |-> table.songs \cup loaded,
   depth |-> IF deeper THEN depth ELSE table.depth,
   count |-> IF deeper THEN Cardinality(loaded) ELSE table.count,
   ts |-> IF deeper THEN writes + 1 ELSE table.ts]

(* As many songs as the limit allows, those whose detail loads.              *)
Loads == {s \in SUBSET ApiSong : Cardinality(s) <= IF req.limited THEN 1 ELSE Cardinality(ApiSong)}

(* Without a token Genius is not asked: the artist then has no songs, and    *)
(* that is stored like any other answer.                                     *)
FetchFg ==
  /\ req.at = "fetch" /\ req.token # "stale" /\ writes < MaxWrites
  /\ \E loaded \in IF req.token = "good" THEN Loads ELSE {{}} :
       /\ table' = Written(loaded, DepthForeground)
       /\ req' = [req EXCEPT !.data = loaded, !.at = AfterFetch, !.unasked = req.token = "none"]
  /\ writes' = writes + 1
  /\ UNCHANGED <<held, lost>>

(* An open breaker or a cancellation serves what is stored, any other error  *)
(* ends the request.                                                         *)
KeepsData(f) == f \in {"503 genius_error", "503 client_cancelled"}

FetchFails ==
  /\ req.at = "fetch" /\ req.token # "none"
  /\ \E f \in Failures(req.token) : IF KeepsData(f) THEN Proceed(AfterFetch) ELSE Answer(f)
  /\ UNCHANGED <<table, held, writes, lost>>

EdgeOfSongs ==
  /\ req.at = "edge"
  /\ Answer("200") \/ Answer("404 no edge")
  /\ UNCHANGED <<table, held, writes, lost>>

-----------------------------------------------------------------------------
(* The ETag is made of a fetch_state read after the data.                    *)

Truncated(songs) == Cardinality(songs) >= (IF req.limited THEN 1 ELSE Cardinality(ApiSong))

GraphETag ==
  <<"graph", table.depth, table.count, Truncated(req.data), req.limited>>
PathETag == <<"path", table.depth, table.count, table.ts>>
ArtistETag == <<"artist", table.depth, table.count, table.ts>>

ETag == CASE req.route = "graph" -> GraphETag
          [] req.route = "path" -> PathETag
          [] req.route = "artist" -> ArtistETag

(* 304 if the browser sends this very tag; the browser keeps the last graph   *)
(* it was sent.                                                              *)
Respond ==
  /\ req.at = "tag"
  /\ IF held.etag = ETag
     THEN Answer("304") /\ UNCHANGED held
     ELSE /\ Answer("200")
          /\ held' = IF req.route = "graph" THEN [etag |-> ETag, body |-> req.data] ELSE held
  /\ UNCHANGED <<table, writes, lost>>

Finish ==
  /\ req.at = "done"
  /\ req' = NoRequest
  /\ UNCHANGED <<table, held, writes, lost>>

-----------------------------------------------------------------------------
(* Everybody else: the worker completes the artist, another request or the   *)
(* scan of another artist writes some of its songs, the prune task deletes   *)
(* the artist.                                                               *)

Complete(loaded) ==
  /\ writes < MaxWrites
  /\ table.known /\ loaded # {}
  /\ table' = Written(loaded, DepthFull)
  /\ writes' = writes + 1
  /\ UNCHANGED <<req, held, lost>>

FetchElsewhere(loaded) ==
  /\ writes < MaxWrites
  /\ table' = Written(loaded, DepthForeground)
  /\ writes' = writes + 1
  /\ UNCHANGED <<req, held, lost>>

Neighbour(loaded) ==
  /\ writes < MaxWrites /\ loaded # {}
  /\ table' = [table EXCEPT !.known = TRUE, !.songs = table.songs \cup loaded]
  /\ writes' = writes + 1
  /\ UNCHANGED <<req, held, lost>>

Prune ==
  /\ writes < MaxWrites
  /\ table.depth > 0
  /\ table' = NotStored
  /\ writes' = writes + 1
  /\ lost' = TRUE
  /\ UNCHANGED <<req, held>>

Handle ==
  \/ Ambiguous \/ LookUpArtist \/ CheckDepth \/ Resolve \/ ResolveEndpoint \/ SameEnds \/ FindPath
  \/ Search \/ Deepen \/ PlaceNodes
  \/ ReadStoredSongs \/ FetchFg \/ FetchFails \/ EdgeOfSongs \/ Respond \/ Finish

ApiNext ==
  \/ \E r \in Routes, c \in Callers, limited \in BOOLEAN : Receive(r, c, limited)
  \/ Handle
  \/ \E loaded \in SUBSET ApiSong :
       Complete(loaded) \/ FetchElsewhere(loaded) \/ Neighbour(loaded)
  \/ Prune

ApiSpec == ApiInit /\ [][ApiNext]_apiVars

-----------------------------------------------------------------------------
ApiTypeOK ==
  /\ ApiConstantsOK
  /\ table.songs \subseteq ApiSong /\ table.depth \in 0..DepthFull /\ table.count \in 0..Cardinality(ApiSong)
  /\ (table.depth > 0 => table.known) /\ writes \in 0..MaxWrites /\ lost \in BOOLEAN
  /\ req.at # "idle" => req.data \subseteq ApiSong /\ req.token \in {"good", "stale", "none"}

(* An artist is marked as scanned after Genius was asked for its songs: the  *)
(* sole requests that store it, with no songs, without having asked are      *)
(* those of a session that has no Genius token, and those for which it was   *)
(* fully cached when the token was left unread and pruned before its songs   *)
(* were read (graph_handler.cpp:222).                                        *)
ScannedWasAsked == req.at # "idle" /\ req.unasked => req.caller = "guest" \/ lost

(* A graph without a limit, or an edge, of an artist that was stored when    *)
(* the request arrived and was not pruned since, is answered from the        *)
(* tables: no failure of Genius, and no missing or revoked token, reaches    *)
(* the caller.                                                               *)
CachedIsServed ==
  req.at = "done" /\ req.route \in {"graph", "edge"} /\ req.cached /\ ~req.limited /\ ~lost
    /\ req.caller \notin {"bad key", "nobody"} =>
      req.status \in {"200", "200 ambiguous", "304", "404 no edge", "400 bad_request",
                      "429 rate limit"}

(* What docs/DEVELOPMENT.md:797 promises of the graph's ETag, that it        *)
(* changes exactly when the body does: a 304 confirms the body that the      *)
(* request would have been answered with.                                    *)
NotModifiedIsTrue ==
  req.at = "done" /\ req.route = "graph" /\ req.status = "304" => held.body = req.data

=============================================================================

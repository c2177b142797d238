-------------------------- MODULE EnrichmentStatus --------------------------
(***************************************************************************)
(* What browsers are told about the scan of an artist: streams and polls   *)
(* read its depth from the database, then ask EnrichmentClient whether the *)
(* worker has it.  That answer is cached for all readers, and is fetched   *)
(* without the lock of the cache, by several readers at once.              *)
(***************************************************************************)
EXTENDS Integers

CONSTANTS Reader,
          Ttl,         \* enriching_cache_ttl_, in ticks
          Timeout      \* of a request to the enrichment service, in ticks

VARIABLES full,        \* depth of the artist: Full, or less
          isPending,   \* EnrichmentWorker::IsPending
          cache,       \* [enriching, age, of]: of is history, how long ago
                       \* the answer was true; none has age Ttl
          at,          \* [Reader -> where it is]
          read,        \* [Reader -> the depth it has read was Full]
          reply,       \* [Reader -> [enriching, of]], the answer under way
          spent        \* [Reader -> ticks since it asked the service]

statusVars == <<full, isPending, cache, at, read, reply, spent>>

StatusConstantsOK == Ttl \in Nat \ {0} /\ Timeout \in Nat \ {0}

(* Ages above Old tell nothing more. *)
Old == Ttl + Timeout + 1
Older(n) == IF n < Old THEN n + 1 ELSE n

NoReply == [enriching |-> FALSE, of |-> 0]
NoEntry == [enriching |-> FALSE, age |-> Ttl, of |-> 0]

StatusInitWith(depthIsFull) ==
  /\ full = depthIsFull /\ isPending = FALSE /\ cache = NoEntry
  /\ at = [r \in Reader |-> "polling"] /\ read = [r \in Reader |-> FALSE]
  /\ reply = [r \in Reader |-> NoReply] /\ spent = [r \in Reader |-> 0]

StatusInit == \E depthIsFull \in BOOLEAN : StatusInitWith(depthIsFull)

(* The worker takes the artist, stores its songs and then lets go of it,   *)
(* or gives it up; the prune task removes it.                              *)
Worker ==
  /\ \/ ~full /\ ~isPending /\ isPending' = TRUE /\ UNCHANGED full
     \/ isPending /\ full' = TRUE /\ UNCHANGED isPending
     \/ isPending' = FALSE /\ isPending /\ UNCHANGED full
     \/ full /\ ~isPending /\ full' = FALSE /\ UNCHANGED isPending
  /\ UNCHANGED <<cache, at, read, reply, spent>>

Goes(r, to) == at' = [at EXCEPT ![r] = to]

(* GetFetchState, first thing in each turn of the loop. *)
GetFetchState(r) ==
  /\ at[r] = "polling" /\ Goes(r, "has depth") /\ read' = [read EXCEPT ![r] = full]
  /\ UNCHANGED <<full, isPending, cache, reply, spent>>

(* A mutant: the stream ends when the scan has ended, too. *)
PushUntilIdle(r, enriching, of) ==
  /\ Goes(r, IF read[r] /\ ~enriching THEN "closed" ELSE "pushed")
  /\ reply' = [reply EXCEPT ![r] = [enriching |-> enriching, of |-> of]]

(* The event of a turn: the stream ends with depth Full, else it sleeps    *)
(* for kPollInterval.                                                      *)
Push(r, enriching, of) ==
  /\ Goes(r, IF read[r] THEN "closed" ELSE "pushed")
  /\ reply' = [reply EXCEPT ![r] = [enriching |-> enriching, of |-> of]]

(* A mutant: an entry is good for as long as it is asked for. *)
IsFreshForEver == cache # NoEntry

IsFresh == cache.age < Ttl

(* IsEnriching: from the cache, or by a request. *)
FromCache(r) ==
  /\ at[r] = "has depth" /\ IsFresh
  /\ Push(r, cache.enriching, cache.of)
  /\ UNCHANGED <<full, isPending, cache, read, spent>>

Ask(r) ==
  /\ at[r] = "has depth" /\ ~IsFresh
  /\ Goes(r, "asking") /\ spent' = [spent EXCEPT ![r] = 0]
  /\ UNCHANGED <<full, isPending, cache, read, reply>>

(* FetchEnriching: the service answers what is so at that moment. *)
Answer(r) ==
  /\ at[r] = "asking" /\ Goes(r, "answered")
  /\ reply' = [reply EXCEPT ![r] = [enriching |-> isPending, of |-> 0]]
  /\ UNCHANGED <<full, isPending, cache, read, spent>>

(* The answer is cached, whatever others cached meanwhile, and pushed.     *)
Cached(r, enriching, of) ==
  /\ cache' = [enriching |-> enriching, age |-> 0, of |-> of]
  /\ Push(r, enriching, of)
  /\ spent' = [spent EXCEPT ![r] = 0]
  /\ UNCHANGED <<full, isPending, read>>

Return(r) == at[r] = "answered" /\ Cached(r, reply[r].enriching, reply[r].of)

(* A time-out or an error, before the answer or after it, counts as "not   *)
(* enriching".                                                             *)
Fail(r) == at[r] \in {"asking", "answered"} /\ Cached(r, FALSE, 0)

(* PruneEnrichingCacheLocked, when other artists have filled the cache. *)
Evict == cache # NoEntry /\ cache' = NoEntry /\ UNCHANGED <<full, isPending, at, read, reply, spent>>

PollAgain(r) ==
  /\ at[r] = "pushed" /\ Goes(r, "polling") /\ reply' = [reply EXCEPT ![r] = NoReply]
  /\ UNCHANGED <<full, isPending, cache, read, spent>>

(* The browser closes the stream, or the database fails; later it opens    *)
(* another one.                                                            *)
Leave(r) ==
  /\ at[r] \in {"polling", "pushed"} /\ Goes(r, "closed")
  /\ UNCHANGED <<full, isPending, cache, read, reply, spent>>

Open(r) ==
  /\ at[r] = "closed" /\ Goes(r, "polling")
  /\ read' = [read EXCEPT ![r] = FALSE] /\ reply' = [reply EXCEPT ![r] = NoReply]
  /\ UNCHANGED <<full, isPending, cache, spent>>

Asking == {r \in Reader : at[r] \in {"asking", "answered"}}

(* A request ends within Timeout. *)
Tick ==
  /\ \A r \in Asking : spent[r] < Timeout
  /\ spent' = [r \in Reader |-> IF r \in Asking THEN spent[r] + 1 ELSE 0]
  /\ cache' = IF cache = NoEntry THEN cache
              ELSE [cache EXCEPT !.age = IF @ < Ttl THEN @ + 1 ELSE @, !.of = Older(@)]
  /\ reply' = [r \in Reader |-> IF at[r] = "answered" /\ reply[r].enriching
                                THEN [reply[r] EXCEPT !.of = Older(@)] ELSE reply[r]]
  /\ UNCHANGED <<full, isPending, at, read>>

ReaderStep(r) ==
  GetFetchState(r) \/ FromCache(r) \/ Ask(r) \/ Answer(r) \/ Return(r) \/ Fail(r) \/ PollAgain(r)

StatusNext == Worker \/ Evict \/ Tick \/ \E r \in Reader : ReaderStep(r) \/ Leave(r) \/ Open(r)

StatusSpec == StatusInit /\ [][StatusNext]_statusVars /\ \A r \in Reader : WF_statusVars(ReaderStep(r))

-----------------------------------------------------------------------------
StatusTypeOK ==
  /\ StatusConstantsOK
  /\ full \in BOOLEAN /\ isPending \in BOOLEAN
  /\ cache \in [enriching : BOOLEAN, age : 0..Ttl, of : 0..Old]
  /\ at \in [Reader -> {"polling", "has depth", "asking", "answered", "pushed", "closed"}]
  /\ read \in [Reader -> BOOLEAN] /\ reply \in [Reader -> [enriching : BOOLEAN, of : 0..Old]]
  /\ spent \in [Reader -> 0..Timeout]

(* "Scanning" is not shown for long after the scan: an event that says so  *)
(* was true at most the life of a cache entry and the length of a request  *)
(* ago, although a slow reader overwrites a newer answer with its older    *)
(* one and the entry then counts as new (enrichment_client.cpp:209, :213). *)
ScanningIsRecent ==
  \A r \in Reader : at[r] \in {"pushed", "closed"} /\ reply[r].enriching =>
    reply[r].of <= Timeout + Ttl - 1

(* A stream notices that the artist is Full and ends, whatever the cache   *)
(* and the service say.                                                    *)
StreamsEnd == \A r \in Reader : full ~> ~full \/ at[r] = "closed"

=============================================================================

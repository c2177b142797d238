----------------------------- MODULE CollabPath -----------------------------
(***************************************************************************)
(* FindPath: how two artists are connected, according to Genius and the    *)
(* artist tables.  The graph grows round by round: the artists at its edge *)
(* that are not stored yet are fetched in parallel, while workers and      *)
(* other requests store artists as well and a prune deletes old ones, until *)
(* a path is found, the rounds or the time are used up, or nothing is left *)
(* to fetch.  A fetch may fail, or bring only some of an artist's songs.   *)
(***************************************************************************)
EXTENDS Integers, Sequences, FiniteSets

CONSTANTS Person,        \* artists
          From, To,
          Worlds,        \* sets of pairs {a, b} with a song in common, one
                         \* of which Genius knows
          Caches,        \* sets of artists that may be stored at the start
          MaxChanges,    \* bound of the model: writes of others
          Omitted,       \* what a fetch may leave out: the songs beyond its
                         \* limit, those whose details fail, all without a token
          Rounds,        \* path-max-expand-rounds
          Frontier       \* path-max-frontier-size

VARIABLES world,         \* what Genius knows
          stored,        \* artists with depth Foreground or more
          edgesStored,   \* pairs in the table credits
          aged,          \* artists so old that a prune may have selected them
          enriching,     \* enrichment_enabled
          known, processed, adj,  \* known_ids, processed_ids, adj
          tasks,         \* running path-expand tasks
          expanding,     \* the artists of this round's tasks
          round, at, answer,
          changes,       \* writes of others so far
          enqueued,      \* handed to the enrichment client
         unread,        \* history: pairs at an artist whose neighbours were
                         \* read while the table did not have them
          excuses        \* history: what happened to the search and the tables

envVars == <<world, aged, enriching>>
pathVars == <<envVars, stored, edgesStored, known, processed, adj, tasks, expanding, round, at,
              answer, changes, enqueued, unread, excuses>>

FinderConstantsOK ==
  /\ IsFiniteSet(Person) /\ {From, To} \subseteq Person /\ From # To
  /\ \A graph \in Worlds : \A e \in graph : \E a, b \in Person : a # b /\ e = {a, b}
  /\ Caches \subseteq SUBSET Person
  /\ Rounds \in Nat /\ Frontier \in Nat \ {0}

Of(edges, as) == {e \in edges : e \cap as # {}}
Near(edges, as) == (UNION Of(edges, as)) \ as

(* What earlier fetches left in the tables. *)
FinderInitWith(graph, cached, omit, enrich) ==
  /\ world = graph /\ stored = cached /\ aged = cached /\ enriching = enrich
  /\ edgesStored = Of(world, stored) \ omit
  /\ known = {From, To} /\ processed = {} /\ adj = {} /\ tasks = {} /\ expanding = {}
  /\ round = 0 /\ at = "direct" /\ answer = <<>> /\ enqueued = {} /\ unread = {} /\ changes = 0
  /\ excuses = IF Of(world, stored) \cap omit = {} THEN {} ELSE {"partial"}

FinderInit ==
  \E graph \in Worlds, cached \in Caches, omit \in Omitted, enrich \in BOOLEAN :
    FinderInitWith(graph, cached, omit, enrich)

Answers(kind, path) == at' = kind /\ answer' = path

Excused(why, if) == excuses' = IF if THEN excuses \cup {why} ELSE excuses

(* FetchFg writes the songs of an artist that were loaded, with all who    *)
(* are credited; the artist counts as fetched although some are missing.   *)
Stores(a, omit) ==
  /\ stored' = stored \cup {a}
  /\ edgesStored' = edgesStored \cup (Of(world, {a}) \ omit)
  /\ Excused("partial", ~(Of(world, {a}) \subseteq edgesStored'))

(* CheckDirectPath: a song list or a song that is not loaded is skipped.   *)
CheckDirect ==
  /\ at = "direct"
  /\ \/ {From, To} \in world /\ Answers("found", <<From, To>>)
     \/ at' = "warm from" /\ UNCHANGED answer
  /\ UNCHANGED <<envVars, changes, stored, edgesStored, known, processed, adj, tasks, expanding, round,
                 enqueued, unread, excuses>>

(* FetchFg, or the warning in the log instead. *)
Fetch(a) ==
  \/ \E omit \in Omitted : Stores(a, omit)
  \/ Excused("failed", TRUE) /\ UNCHANGED <<stored, edgesStored>>

Warm(here, a, next) ==
  /\ at = here /\ at' = next
  /\ IF a \in stored THEN UNCHANGED <<stored, edgesStored, excuses>> ELSE Fetch(a)
  /\ UNCHANGED <<envVars, changes, known, processed, adj, tasks, expanding, round, answer, enqueued, unread>>

(* append_delta, for known ids that include ids. *)
AppendDelta(ids) ==
  /\ known' = ids /\ processed' = ids
  /\ adj' = adj \cup Of(edgesStored, ids \ processed)
  /\ unread' = unread \cup (Of(world, ids \ processed) \ edgesStored)

(* pre_warm: neighbours that are stored are known from the start. *)
Begin ==
  /\ at = "begin" /\ at' = "search"
  /\ AppendDelta(known \cup (Near(edgesStored, {From}) \cap stored)
                       \cup (Near(edgesStored, {To}) \cap stored))
  /\ Excused("used the store", known' # known)
  /\ UNCHANGED <<envVars, changes, stored, edgesStored, tasks, expanding, round, answer, enqueued>>

(* The walks of n hops that begin at From, by n, those that end at To, and *)
(* how few hops lead there.                                                *)
WalksFrom(edges) ==
  LET Walk[n \in 0..Cardinality(Person)] ==
        IF n = 0 THEN {<<From>>}
        ELSE UNION {{Append(w, a) : a \in Near(edges, {w[n]})} : w \in Walk[n - 1]}
  IN Walk

Arriving(edges, n) == {w \in WalksFrom(edges)[n] : w[n + 1] = To}

Hops(edges) ==
  LET lengths == {n \in 0..Cardinality(Person) : Arriving(edges, n) # {}}
  IN IF lengths = {} THEN -1 ELSE CHOOSE n \in lengths : \A m \in lengths : n <= m

Shortest(edges) == IF Hops(edges) = -1 THEN {} ELSE Arriving(edges, Hops(edges))

(* BidirectionalBfs answers one of them (PathSearch). *)
FindInAdj ==
  /\ at = "search" /\ \E p \in Shortest(adj) : Answers("found", p)
  /\ UNCHANGED <<envVars, changes, stored, edgesStored, known, processed, adj, tasks, expanding, round,
                 enqueued, unread, excuses>>

(* The deadline leaves the frontier to the worker, if it may have it. *)
DeadlineReached ==
  /\ at = "search" /\ Answers("timeout", <<>>)
  /\ enqueued' = IF enriching THEN enqueued \cup ((UNION adj) \ known) ELSE enqueued
  /\ UNCHANGED <<envVars, changes, stored, edgesStored, known, processed, adj, tasks, expanding, round,
                 unread, excuses>>

Weight(a) == Cardinality(Of(adj, {a}))

(* The heaviest Frontier of the candidates; ties are broken any way. *)
Heaviest(cs) ==
  IF Cardinality(cs) <= Frontier THEN {cs}
  ELSE {top \in SUBSET cs : /\ Cardinality(top) = Frontier
                            /\ \A a \in top, b \in cs \ top : Weight(a) >= Weight(b)}

Cached == ((UNION adj) \ known) \cap stored
Candidates == (UNION adj) \ (known \cup stored)

(* Of the artists at the edge the stored ones are known from now on; the   *)
(* others are fetched, each by a task of its own.                          *)
ExpandFrontier ==
  /\ at = "search" /\ Hops(adj) = -1 /\ round < Rounds /\ Candidates # {}
  /\ known' = known \cup Cached
  /\ \E top \in Heaviest(Candidates) :
       /\ tasks' = top /\ expanding' = top
       /\ excuses' = excuses \cup (IF top # Candidates THEN {"capped"} ELSE {})
                            \cup (IF Cached # {} THEN {"used the store"} ELSE {})
  /\ at' = "expand"
  /\ UNCHANGED <<envVars, changes, stored, edgesStored, processed, adj, round, answer, enqueued, unread>>

(* path-expand *)
RunTask(a) ==
  /\ at = "expand" /\ a \in tasks /\ tasks' = tasks \ {a}
  /\ Fetch(a)
  /\ UNCHANGED <<envVars, changes, known, processed, adj, expanding, round, at, answer, enqueued, unread>>

Join ==
  /\ at = "expand" /\ tasks = {}
  /\ AppendDelta(known \cup expanding)
  /\ enqueued' = IF enriching THEN enqueued \cup expanding ELSE enqueued
  /\ round' = round + 1 /\ at' = "search" /\ expanding' = {}
  /\ UNCHANGED <<envVars, changes, stored, edgesStored, tasks, answer, excuses>>

(* A mutant: a round fewer. *)
LastRoundEarly == round + 1 >= Rounds

LastRound == round = Rounds

(* No path: after the last round, or because the graph is "saturated".  It *)
(* is so, too, when all artists at its edge are stored and only their      *)
(* rows were not read yet (collab_service.cpp:454).                        *)
NoPath ==
  /\ at = "search" /\ Hops(adj) = -1 /\ (LastRound \/ Candidates = {})
  /\ known' = IF LastRound THEN known ELSE known \cup Cached
  /\ Excused("saturated", ~LastRound /\ Cached # {})
  /\ Answers("none", <<>>)
  /\ UNCHANGED <<envVars, changes, stored, edgesStored, processed, adj, tasks, expanding, round, enqueued,
                 unread>>

Over == at \in {"found", "none", "timeout"}

(* Workers and other requests store artists, or more of their songs. *)
Elsewhere(a) ==
  /\ ~Over /\ changes < MaxChanges
  /\ changes' = changes + 1
  /\ \E omit \in Omitted : Stores(a, omit)
  /\ UNCHANGED <<envVars, known, processed, adj, tasks, expanding, round, at, answer, enqueued, unread>>

(* PruneTask deletes an artist it has found to be stale, even one that was *)
(* stored again since (ArtistStore).                                       *)
PruneStale(a) ==
  /\ ~Over /\ a \in aged \cap stored /\ changes < MaxChanges
  /\ changes' = changes + 1
  /\ stored' = stored \ {a}
  /\ edgesStored' = edgesStored \ Of(world, {a})
  /\ Excused("pruned", TRUE)
  /\ UNCHANGED <<envVars, known, processed, adj, tasks, expanding, round, at, answer, enqueued, unread>>

FinderNext ==
  \/ CheckDirect \/ Warm("warm from", From, "warm to") \/ Warm("warm to", To, "begin") \/ Begin
  \/ FindInAdj \/ DeadlineReached \/ ExpandFrontier \/ Join \/ NoPath
  \/ \E a \in Person : RunTask(a) \/ Elsewhere(a) \/ PruneStale(a)

FinderSpec == FinderInit /\ [][FinderNext]_pathVars

-----------------------------------------------------------------------------
FinderTypeOK ==
  /\ FinderConstantsOK
  /\ world \in Worlds /\ edgesStored \cup adj \cup unread \subseteq world
  /\ enriching \in BOOLEAN
  /\ aged \cup stored \cup known \cup expanding \cup enqueued \subseteq Person
  /\ processed \subseteq known /\ tasks \subseteq expanding /\ expanding \cap known = {}
  /\ round \in 0..Rounds

(* What the search could learn: each pair was in the table whenever the    *)
(* neighbours of one of its artists were read.                             *)
Readable == world \ unread

(* What FindPath answers is true.  A path it finds is one, and as short as *)
(* any that could be read, if nothing but the rounds added to the graph:   *)
(* artists that others stored let the search see a longer path before a    *)
(* short one (collab_service.cpp:325, :432).  No path means that in what   *)
(* could be read the artists are farther apart than the rounds reach,      *)
(* unless the frontier was cut or its artists were all stored.  Nothing    *)
(* was kept from the search but by a fetch that failed or was incomplete   *)
(* and by the prune.  A search that runs out of time leaves what it saw to *)
(* the worker, and none touches the worker that may not have it.           *)
AnswersAreTrue ==
  /\ at = "found" =>
       /\ \A i \in 1..(Len(answer) - 1) : {answer[i], answer[i + 1]} \in world
       /\ excuses \cap {"used the store", "capped"} = {} =>
            Hops(Readable) = -1 \/ Len(answer) <= Hops(Readable) + 1
  /\ at = "none" /\ excuses \cap {"capped", "saturated"} = {} =>
       Hops(Readable) = -1 \/ Hops(Readable) > 2 * (Rounds + 1)
  /\ excuses \cap {"failed", "partial", "pruned"} = {} => unread = {}
  /\ at = "timeout" /\ enriching => UNION adj \subseteq known \cup enqueued
  /\ enqueued # {} => enriching

=============================================================================

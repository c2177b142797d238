---------------------------- MODULE ArtistStore ----------------------------
(***************************************************************************)
(* The artist tables of Postgres and everybody who uses them at once:      *)
(* the background worker and a request that write what the provider        *)
(* fetched, a request that reads an artist in several queries, the image   *)
(* proxy that fills in dominant colours, and the prune task.               *)
(*                                                                         *)
(* A transaction is one step that commits or fails: Postgres makes its     *)
(* rows visible at COMMIT, and every lock conflict or foreign key error    *)
(* between two of them ends one of them with an exception.                 *)
(***************************************************************************)
EXTENDS Integers, FiniteSets

CONSTANTS Artist,        \* artist ids, the constants of ORDER BY artist_id
          Song,
          CreditsOf,     \* [Song -> SUBSET Artist]: who is credited, at Genius
          ImagesOf,      \* the image URLs Genius gives for an artist over time
          NoImage,       \* an empty image URL
          NoColour,      \* SQL NULL of artists.dominant_color
          NoArtist,      \* the worker has no job
          Ttl,           \* ttl_days_, in ticks
          BatchSize,     \* batch_size_
          Asked,         \* bound of the model: the artists that requests read
          MaxTime        \* bound of the model: the clock stops here

Image == UNION {ImagesOf[a] : a \in Artist}

(* The image that comes with an artist in the credits of a song. *)
ImageOf(a) == CHOOSE i \in ImagesOf[a] : TRUE

StoreConstantsOK ==
  /\ Artist \subseteq Nat /\ IsFiniteSet(Artist)
  /\ CreditsOf \in [Song -> SUBSET Artist]
  /\ DOMAIN ImagesOf = Artist /\ {} \notin {ImagesOf[a] : a \in Artist}
  /\ NoColour \notin Image /\ NoArtist \notin Artist
  /\ Ttl \in Nat \ {0} /\ BatchSize \in Nat \ {0} /\ MaxTime \in Nat
  /\ Asked \subseteq Artist

VARIABLES artists,   \* table artists: id -> [image, colour], rows only
          songs,     \* table songs
          credits,   \* table credits
          fetched,   \* table fetch_state: id -> [depth, ts]
          now,       \* the clock
          worker,    \* the artist the enrichment worker is fetching
          pruner,    \* the prune task
          client,    \* one request that is reading, or sampling a colour
          skipped,   \* history: songs whose detail failed in the last Full write
          gone       \* history: artists pruned since that write

tables == <<artists, songs, credits, fetched>>
storeVars == <<tables, now, worker, pruner, client, skipped, gone>>

None == 0
Foreground == 1
Full == 2

SongsBy(a) == {s \in Song : a \in CreditsOf[s]}

(* GetArtistSongs of the provider: the details that fail to load are        *)
(* skipped, the others are returned.                                        *)
ProviderSongs(a) == SUBSET SongsBy(a)

(* FetchDepth: no row reads as Depth::kNone. *)
FetchDepth(a) == IF a \in DOMAIN fetched THEN fetched[a].depth ELSE None

(* SongsForArtist: all credits of the songs that credit the artist. *)
SongsForArtist(a) == {c \in credits : <<c[1], a>> \in credits}

Idle == [at |-> "idle"]

(* The cutoff of a sleeping task is computed anew when it wakes. *)
Asleep == [at |-> "sleep", cutoff |-> 0 - Ttl, ids |-> {}]

StoreInit ==
  /\ artists = <<>> /\ songs = {} /\ credits = {} /\ fetched = <<>>
  /\ now = 0
  /\ worker = NoArtist
  /\ pruner = Asleep
  /\ client = Idle
  /\ skipped = [a \in Artist |-> {}] /\ gone = [a \in Artist |-> {}]

-----------------------------------------------------------------------------
(* Writing.  The worker checks the depth, fetches for a while and writes   *)
(* at depth Full; a request (FetchFg) writes any artist at Foreground.      *)

WorkerFetch(a) ==
  /\ worker = NoArtist
  /\ FetchDepth(a) < Full
  /\ worker' = a
  /\ UNCHANGED <<tables, now, pruner, client, skipped, gone>>

(* A mutant: a new image keeps the old colour. *)
ArtistsKeepColour(job) ==
  [a \in DOMAIN artists \cup (UNION {CreditsOf[s] : s \in job.loaded}) \cup {job.seed} |->
     IF a \notin DOMAIN artists
     THEN [image |-> IF a = job.seed THEN job.image ELSE ImageOf(a), colour |-> NoColour]
     ELSE IF a = job.seed THEN [artists[a] EXCEPT !.image = job.image] ELSE artists[a]]

(* The rows of artists after an upsert: a changed image resets the colour, *)
(* rows of other credited artists are inserted but never updated.          *)
UpsertedArtists(job) ==
  LET others == (UNION {CreditsOf[s] : s \in job.loaded}) \ {job.seed}
      old == DOMAIN artists
      colour == IF job.seed \in old /\ artists[job.seed].image = job.image
                THEN artists[job.seed].colour ELSE NoColour
  IN [a \in old \cup others \cup {job.seed} |->
        IF a = job.seed THEN [image |-> job.image, colour |-> colour]
        ELSE IF a \in old THEN artists[a]
        ELSE [image |-> ImageOf(a), colour |-> NoColour]]

(* fetch_state after an upsert: WHERE excluded.depth >= fetch_state.depth. *)
UpsertedFetchState(job) ==
  IF job.depth >= FetchDepth(job.seed)
  THEN [a \in DOMAIN fetched \cup {job.seed} |->
          IF a = job.seed THEN [depth |-> job.depth, ts |-> now] ELSE fetched[a]]
  ELSE fetched

(* A mutant: an upsert first removes the credits of the artist's songs. *)
CreditsReplaced(job) ==
  {c \in credits : c[1] \notin SongsBy(job.seed)}
    \cup {c \in job.loaded \X Artist : c[2] \in CreditsOf[c[1]]}

UpsertedCredits(job) == credits \cup {c \in job.loaded \X Artist : c[2] \in CreditsOf[c[1]]}

(* WriteThrough commits.  The provider's GetArtistSongs has collected the   *)
(* songs whose detail loaded, and the caller sets the seed's image.         *)
Upsert(job) ==
  /\ artists' = UpsertedArtists(job)
  /\ songs' = songs \cup job.loaded
  /\ credits' = UpsertedCredits(job)
  /\ fetched' = UpsertedFetchState(job)
  /\ IF job.depth = Full
     THEN /\ skipped' = [skipped EXCEPT ![job.seed] = SongsBy(job.seed) \ job.loaded]
          /\ gone' = [gone EXCEPT ![job.seed] = {}]
     ELSE UNCHANGED <<skipped, gone>>
  /\ UNCHANGED <<now, pruner, client>>

(* The worker writes nothing when no song was loaded. *)
WorkerWrite(a, loaded, i) ==
  /\ worker = a
  /\ loaded \in ProviderSongs(a) /\ loaded # {}
  /\ Upsert([seed |-> a, depth |-> Full, loaded |-> loaded, image |-> i])
  /\ worker' = NoArtist

(* No song, or an error of Genius or of the transaction. *)
WorkerGivesUp ==
  /\ worker # NoArtist
  /\ worker' = NoArtist
  /\ UNCHANGED <<tables, now, pruner, client, skipped, gone>>

(* FetchFg has no such check: an artist without songs becomes Foreground. *)
RequestWrite(a, loaded, i) ==
  /\ loaded \in ProviderSongs(a)
  /\ Upsert([seed |-> a, depth |-> Foreground, loaded |-> loaded, image |-> i])
  /\ UNCHANGED worker

-----------------------------------------------------------------------------
(* The prune task: each pass computes its cutoff once and then deletes     *)
(* batch after batch until a select finds nothing.                         *)

StaleAt(cutoff) == {a \in DOMAIN fetched : fetched[a].ts < cutoff}

FirstBatch(ids) == {a \in ids : Cardinality({b \in ids : b < a}) < BatchSize}

(* A mutant: the cutoff is the one of the first pass. *)
PruneWakeStaleCutoff ==
  /\ pruner.at = "sleep"
  /\ pruner' = [pruner EXCEPT !.at = "select"]
  /\ UNCHANGED <<tables, now, worker, client, skipped, gone>>

PruneWake ==
  /\ pruner.at = "sleep"
  /\ pruner' = [pruner EXCEPT !.at = "select", !.cutoff = now - Ttl]
  /\ UNCHANGED <<tables, now, worker, client, skipped, gone>>

PruneSelect ==
  LET ids == FirstBatch(StaleAt(pruner.cutoff)) IN
  /\ pruner.at = "select"
  /\ pruner' = IF ids = {} THEN Asleep ELSE [pruner EXCEPT !.at = "delete", !.ids = ids]
  /\ UNCHANGED <<tables, now, worker, client, skipped, gone>>

(* Mutants: credits go by song, rows of fetch_state stay behind. *)
CreditsOfSongsWithout(ids) == {c \in credits : \A a \in ids : <<c[1], a>> \notin credits}
FetchStateKept(ids) == fetched

CreditsWithout(ids) == {c \in credits : c[2] \notin ids}
FetchStateWithout(ids) == [a \in DOMAIN fetched \ ids |-> fetched[a]]

PruneDelete ==
  LET ids == pruner.ids
      keep == DOMAIN artists \ ids
  IN
  /\ pruner.at = "delete"
  /\ credits' = CreditsWithout(ids)
  /\ fetched' = FetchStateWithout(ids)
  /\ artists' = [a \in keep |-> artists[a]]
  /\ songs' = {s \in songs : \E c \in credits' : c[1] = s}
  /\ gone' = [a \in Artist |-> IF a \in ids THEN {} ELSE gone[a] \cup ids]
  /\ skipped' = [a \in Artist |-> IF a \in ids THEN {} ELSE skipped[a]]
  /\ pruner' = [pruner EXCEPT !.at = "select", !.ids = {}]
  /\ client' = IF client.at \in {"ref", "have", "songs", "depth"}
               THEN [client EXCEPT !.pruned = TRUE] ELSE client
  /\ UNCHANGED <<now, worker>>

(* Any error of Postgres, a time-out of 1.5 s included, leaves Loop, which *)
(* catches nothing: the task ends and is not started again.                *)
PruneFails ==
  /\ pruner.at \in {"select", "delete"}
  /\ pruner' = [Asleep EXCEPT !.at = "dead"]
  /\ UNCHANGED <<tables, now, worker, client, skipped, gone>>

-----------------------------------------------------------------------------
(* GetArtistSongs(ref, want): depth, artist row, songs, depth again, each  *)
(* in a query of its own.  partial is the second attempt at any depth.     *)

Read(a, want) ==
  /\ client = Idle
  /\ client' = [at |-> IF FetchDepth(a) >= want THEN "ref" ELSE "have",
                id |-> a, want |-> want, partial |-> FALSE, have |-> None, whole |-> FALSE,
                before |-> SongsForArtist(a), first |-> FetchDepth(a), pruned |-> FALSE]
  /\ UNCHANGED <<tables, now, worker, pruner, skipped, gone>>

(* GetFetchDepth after the failed first attempt: nothing stored is a miss. *)
ReadHave ==
  /\ client.at = "have"
  /\ client' = [client EXCEPT !.partial = TRUE, !.have = FetchDepth(client.id),
                              !.at = IF FetchDepth(client.id) = None THEN "done" ELSE "ref"]
  /\ UNCHANGED <<tables, now, worker, pruner, skipped, gone>>

(* LoadRef: without a row the attempt is over, and so is a second one. *)
ReadRef ==
  /\ client.at = "ref"
  /\ client' = IF client.id \in DOMAIN artists THEN [client EXCEPT !.at = "songs"]
               ELSE IF client.partial THEN [client EXCEPT !.at = "done", !.have = None]
               ELSE [client EXCEPT !.at = "have"]
  /\ UNCHANGED <<tables, now, worker, pruner, skipped, gone>>

ReadSongs ==
  /\ client.at = "songs"
  /\ client' = [client EXCEPT !.before = {},
                              !.whole = client.before \subseteq SongsForArtist(client.id),
                              !.at = IF client.partial THEN "done" ELSE "depth"]
  /\ UNCHANGED <<tables, now, worker, pruner, skipped, gone>>

ReadDepth ==
  /\ client.at = "depth"
  /\ client' = [client EXCEPT !.have = FetchDepth(client.id), !.at = "done"]
  /\ UNCHANGED <<tables, now, worker, pruner, skipped, gone>>

ReadAgain ==
  /\ client.at = "done"
  /\ client' = Idle
  /\ UNCHANGED <<tables, now, worker, pruner, skipped, gone>>

-----------------------------------------------------------------------------
(* The image proxy has fetched an image and samples it if some row needs it. *)

Sample(i) ==
  /\ client = Idle /\ i # NoImage
  /\ \E a \in DOMAIN artists : artists[a] = [image |-> i, colour |-> NoColour]
  /\ client' = [at |-> "set", image |-> i]
  /\ UNCHANGED <<tables, now, worker, pruner, skipped, gone>>

(* It cannot be decoded, or a query throws: the image is answered anyway.  *)
SamplingFails ==
  /\ client.at = "set"
  /\ client' = Idle
  /\ UNCHANGED <<tables, now, worker, pruner, skipped, gone>>

(* A colour stands for the image it was computed from. *)
SetDominantColor ==
  /\ client.at = "set"
  /\ artists' = [a \in DOMAIN artists |->
       IF artists[a] = [image |-> client.image, colour |-> NoColour]
       THEN [artists[a] EXCEPT !.colour = client.image] ELSE artists[a]]
  /\ client' = Idle
  /\ UNCHANGED <<songs, credits, fetched, now, worker, pruner, skipped, gone>>

Tick ==
  /\ now < MaxTime
  /\ now' = now + 1
  /\ UNCHANGED <<tables, worker, pruner, client, skipped, gone>>

PruneStep == PruneWake \/ PruneSelect \/ PruneDelete

StoreNext ==
  \/ \E a \in Artist : WorkerFetch(a)
  \/ \E a \in Artist, loaded \in SUBSET Song : \E i \in ImagesOf[a] :
       WorkerWrite(a, loaded, i) \/ RequestWrite(a, loaded, i)
  \/ WorkerGivesUp
  \/ PruneStep \/ PruneFails
  \/ \E a \in Asked : Read(a, Foreground)
  \/ ReadHave \/ ReadRef \/ ReadSongs \/ ReadDepth \/ ReadAgain
  \/ \E i \in Image : Sample(i)
  \/ SetDominantColor \/ SamplingFails
  \/ Tick

(* The prune task is a task of its own that always runs on. *)
PruneFairness == WF_storeVars(PruneStep)

StoreSpec == StoreInit /\ [][StoreNext]_storeVars /\ PruneFairness

-----------------------------------------------------------------------------
(* Every row refers to rows that exist, whatever the order in which        *)
(* upserts and prunes commit.                                              *)
StoreTypeOK ==
  /\ StoreConstantsOK
  /\ DOMAIN artists \subseteq Artist /\ songs \subseteq Song
  /\ \A a \in DOMAIN artists :
       artists[a].image \in Image /\ artists[a].colour \in Image \cup {NoColour}
  /\ DOMAIN fetched \subseteq DOMAIN artists
  /\ \A a \in DOMAIN fetched : fetched[a].depth \in {Foreground, Full} /\ fetched[a].ts \in 0..now
  /\ credits \subseteq songs \X DOMAIN artists

(* An artist marked Full has every credit of every song Genius lists for   *)
(* it, except those of songs whose detail failed in that scan and those of *)
(* artists pruned since: these two are lost for good, because a Full       *)
(* artist is not scanned again (genius_music_source_provider.cpp:81,       *)
(* persistent_store.cpp:472).                                              *)
FullIsComplete ==
  \A a \in DOMAIN fetched : fetched[a].depth = Full =>
    \A s \in SongsBy(a) \ skipped[a] : \A x \in CreditsOf[s] \ gone[a] : <<s, x>> \in credits

(* Without a prune in between, the four queries of GetArtistSongs tell one *)
(* story: what was stored when the first one ran is in the answer, which   *)
(* claims no more depth than it was asked for only if it says so, and asks *)
(* for the network only if the artist was too shallow at the start.        *)
ReadsAreNotTorn ==
  client.at = "done" /\ ~client.pruned =>
    /\ ~client.partial <=> client.first >= client.want
    /\ ~client.partial => client.have >= client.want
    /\ client.have >= client.first
    /\ client.have # None => client.whole

(* A stored colour is the colour of the image that is stored with it,      *)
(* although images change while the proxy samples the old one.             *)
ColourIsOfImage ==
  \A a \in DOMAIN artists : artists[a].colour \in {NoColour, artists[a].image}

(* A stale artist is refreshed or pruned in the end, batch by batch,       *)
(* unless an error ended the prune task.                                   *)
StaleLeaves ==
  \A a \in Artist : a \in StaleAt(now - Ttl) ~> a \notin StaleAt(now - Ttl) \/ pruner.at = "dead"

=============================================================================

-------------------------- MODULE ArtistStoreProofs --------------------------
(***************************************************************************)
(* Proofs about ArtistStore, for any artists, songs and credits, any       *)
(* number of writers and any batch size of the prune task.                 *)
(***************************************************************************)
EXTENDS ArtistStore, TLAPS

-----------------------------------------------------------------------------
(* Types, with the references between the tables: a row of fetch_state has *)
(* its row of artists, a credit its song and its artist.                   *)

Row == [image : Image, colour : Image \cup {NoColour}]
Fetch == [depth : {Foreground, Full}, ts : Nat]

TablesOK ==
  /\ songs \subseteq Song
  /\ \E rows \in SUBSET Artist :
       /\ artists \in [rows -> Row]
       /\ credits \subseteq songs \X rows
       /\ \E scanned \in SUBSET rows : fetched \in [scanned -> Fetch]

HistoryOK ==
  /\ skipped \in [Artist -> SUBSET Song]
  /\ gone \in [Artist -> SUBSET Artist]

Pruner == [at : {"sleep", "select", "delete", "dead"}, cutoff : Int, ids : SUBSET Artist]

PrunerOK == pruner \in Pruner

StoreInv ==
  /\ StoreConstantsOK
  /\ now \in Nat /\ worker \in Artist \cup {NoArtist}
  /\ TablesOK /\ HistoryOK /\ PrunerOK

LEMMA ImageOfIsImage ==
  ASSUME StoreConstantsOK, NEW a \in Artist PROVE ImageOf(a) \in Image
  BY DEF StoreConstantsOK, ImageOf, Image

LEMMA InitIsTyped == StoreConstantsOK /\ StoreInit => StoreInv
<1> SUFFICES ASSUME StoreConstantsOK, StoreInit PROVE StoreInv
  OBVIOUS
<1>1. TablesOK
  <2>1. artists \in [{} -> Row] /\ fetched \in [{} -> Fetch] /\ credits = {} /\ songs = {}
    BY DEF StoreInit
  <2> QED
    BY <2>1 DEF TablesOK
<1>2. HistoryOK
  BY DEF StoreInit, HistoryOK
<1>3. PrunerOK
  BY DEF StoreInit, PrunerOK, Pruner, Asleep, StoreConstantsOK
<1> QED
  BY <1>1, <1>2, <1>3 DEF StoreInit, StoreInv

(* What a job may be: any writer's, whatever loaded.                       *)
Job == [seed : Artist, depth : {Foreground, Full}, loaded : SUBSET Song, image : Image]

LEMMA UpsertIsTyped ==
  ASSUME StoreInv, NEW job \in Job, Upsert(job)
  PROVE  TablesOK' /\ HistoryOK' /\ PrunerOK' /\ now' = now
<1>1. PICK rows \in SUBSET Artist :
        /\ artists \in [rows -> Row] /\ credits \subseteq songs \X rows
        /\ \E scanned \in SUBSET rows : fetched \in [scanned -> Fetch]
  BY DEF StoreInv, TablesOK
<1>2. PICK scanned \in SUBSET rows : fetched \in [scanned -> Fetch]
  BY <1>1
<1> DEFINE others == UNION {CreditsOf[s] : s \in job.loaded}
<1> DEFINE newRows == rows \cup others \cup {job.seed}
<1>3. job.seed \in Artist /\ job.loaded \subseteq Song /\ job.image \in Image
      /\ job.depth \in {Foreground, Full}
  BY DEF Job
<1>4. \A s \in job.loaded : CreditsOf[s] \subseteq Artist
  BY <1>3 DEF StoreInv, StoreConstantsOK
<1>5. newRows \in SUBSET Artist
  BY <1>3, <1>4
<1>6. artists' \in [newRows -> Row]
  <2>1. DOMAIN artists = rows
    BY <1>1
  <2>2. artists' = UpsertedArtists(job)
    BY DEF Upsert
  <2>3. \A a \in Artist : ImageOf(a) \in Image
    BY ImageOfIsImage DEF StoreInv
  <2>4. \A a \in rows : artists[a] \in Row /\ artists[a].colour \in Image \cup {NoColour}
    BY <1>1 DEF Row
  <2>5. newRows = rows \cup (others \ {job.seed}) \cup {job.seed}
    OBVIOUS
  <2> DEFINE colour == IF job.seed \in DOMAIN artists /\ artists[job.seed].image = job.image
                       THEN artists[job.seed].colour ELSE NoColour
  <2> DEFINE row(a) == IF a = job.seed THEN [image |-> job.image, colour |-> colour]
                       ELSE IF a \in DOMAIN artists THEN artists[a]
                       ELSE [image |-> ImageOf(a), colour |-> NoColour]
  <2>6. artists' = [a \in newRows |-> row(a)]
    <3>1. artists' = [a \in DOMAIN artists \cup (others \ {job.seed}) \cup {job.seed} |-> row(a)]
      BY <2>2 DEF UpsertedArtists
    <3> HIDE DEF row, others, newRows
    <3> QED
      BY <2>1, <2>5, <3>1
  <2>7. ASSUME NEW a \in newRows PROVE row(a) \in Row
    <3>1. CASE a = job.seed
      <4>1. colour \in Image \cup {NoColour}
        BY <2>1, <2>4
      <4> HIDE DEF colour
      <4>2. row(a) = [image |-> job.image, colour |-> colour]
        BY <3>1
      <4> QED
        BY <1>3, <4>1, <4>2 DEF Row
    <3>2. CASE a # job.seed /\ a \in rows
      BY <2>1, <2>4, <3>2
    <3>3. CASE a # job.seed /\ a \notin rows
      BY <1>5, <2>1, <2>3, <3>3 DEF Row
    <3> QED
      BY <3>1, <3>2, <3>3
  <2> HIDE DEF Row, row, newRows
  <2> QED
    BY <2>6, <2>7
<1>7. credits' \subseteq songs' \X newRows /\ songs' \subseteq Song
  BY <1>1, <1>3 DEF Upsert, UpsertedCredits, StoreInv, TablesOK
<1>8. \E s \in SUBSET newRows : fetched' \in [s -> Fetch]
  <2>1. fetched' = fetched \/ fetched' = [a \in scanned \cup {job.seed} |->
          IF a = job.seed THEN [depth |-> job.depth, ts |-> now] ELSE fetched[a]]
    BY <1>2 DEF Upsert, UpsertedFetchState
  <2>2. [depth |-> job.depth, ts |-> now] \in Fetch
    BY <1>3 DEF Fetch, StoreInv
  <2>3. fetched' \in [scanned -> Fetch] \/ fetched' \in [scanned \cup {job.seed} -> Fetch]
    <3> HIDE DEF Fetch
    <3> QED
      BY <1>2, <2>1, <2>2
  <2> QED
    BY <2>3
<1>9. TablesOK'
  <2> HIDE DEF newRows, Row, Fetch
  <2> QED
    BY <1>5, <1>6, <1>7, <1>8 DEF TablesOK
<1>10. HistoryOK'
  BY <1>3 DEF Upsert, StoreInv, HistoryOK, SongsBy
<1>11. PrunerOK' /\ now' = now
  BY DEF Upsert, StoreInv, PrunerOK
<1> QED
  BY <1>9, <1>10, <1>11

LEMMA PruneDeleteIsTyped ==
  ASSUME StoreInv, PruneDelete
  PROVE  TablesOK' /\ HistoryOK' /\ PrunerOK'
<1>1. PICK rows \in SUBSET Artist :
        /\ artists \in [rows -> Row] /\ credits \subseteq songs \X rows
        /\ \E scanned \in SUBSET rows : fetched \in [scanned -> Fetch]
  BY DEF StoreInv, TablesOK
<1>2. PICK scanned \in SUBSET rows : fetched \in [scanned -> Fetch]
  BY <1>1
<1> DEFINE ids == pruner.ids
<1>3. ids \in SUBSET Artist
  BY DEF StoreInv, PrunerOK, Pruner
<1>4. artists' \in [rows \ ids -> Row]
  <2> HIDE DEF Row
  <2> QED
    BY <1>1 DEF PruneDelete
<1>5. fetched' \in [scanned \ ids -> Fetch]
  <2> HIDE DEF Fetch
  <2> QED
    BY <1>2 DEF PruneDelete, FetchStateWithout
<1>6. songs' \subseteq songs /\ credits' \subseteq songs' \X (rows \ ids)
  <2>1. credits' = {c \in credits : c[2] \notin ids} /\ songs' = {s \in songs : \E c \in credits' : c[1] = s}
    BY DEF PruneDelete, CreditsWithout
  <2> QED
    BY <1>1, <2>1
<1>7. TablesOK'
  <2>1. scanned \ ids \in SUBSET (rows \ ids) /\ rows \ ids \in SUBSET Artist /\ songs \subseteq Song
    BY DEF StoreInv, TablesOK
  <2> HIDE DEF ids, Row, Fetch
  <2> QED
    BY <1>4, <1>5, <1>6, <2>1 DEF TablesOK
<1>8. HistoryOK'
  BY <1>3 DEF PruneDelete, StoreInv, HistoryOK
<1>9. PrunerOK'
  BY DEF PruneDelete, StoreInv, PrunerOK, Pruner
<1> QED
  BY <1>7, <1>8, <1>9

LEMMA StepIsTyped == StoreInv /\ [StoreNext]_storeVars => StoreInv'
<1> SUFFICES ASSUME StoreInv, [StoreNext]_storeVars PROVE StoreInv'
  OBVIOUS
<1>0. StoreConstantsOK'
  BY DEF StoreInv, StoreConstantsOK
<1>1. ASSUME UNCHANGED <<tables, now, pruner, skipped, gone>>, worker' \in Artist \cup {NoArtist}
      PROVE  StoreInv'
  BY <1>0, <1>1 DEF StoreInv, TablesOK, HistoryOK, PrunerOK, tables
<1>2. CASE \E a \in Artist, loaded \in SUBSET Song : \E i \in ImagesOf[a] :
             WorkerWrite(a, loaded, i) \/ RequestWrite(a, loaded, i)
  <2>1. PICK a \in Artist, loaded \in SUBSET Song : \E i \in ImagesOf[a] :
               WorkerWrite(a, loaded, i) \/ RequestWrite(a, loaded, i)
    BY <1>2
  <2>2. PICK i \in ImagesOf[a] : WorkerWrite(a, loaded, i) \/ RequestWrite(a, loaded, i)
    BY <2>1
  <2>3. i \in Image
    BY <2>2 DEF Image
  <2>4. PICK depth \in {Foreground, Full} :
               Upsert([seed |-> a, depth |-> depth, loaded |-> loaded, image |-> i])
    BY <2>2 DEF WorkerWrite, RequestWrite
  <2>5. [seed |-> a, depth |-> depth, loaded |-> loaded, image |-> i] \in Job
    BY <2>3 DEF Job
  <2>6. TablesOK' /\ HistoryOK' /\ PrunerOK' /\ now' = now
    BY <2>4, <2>5, UpsertIsTyped
  <2>7. worker' \in Artist \cup {NoArtist}
    BY <2>2 DEF WorkerWrite, RequestWrite, StoreInv
  <2> QED
    BY <1>0, <2>6, <2>7 DEF StoreInv
<1>3. CASE PruneDelete
  <2>1. now' = now /\ worker' = worker
    BY <1>3 DEF PruneDelete
  <2> QED
    BY <1>0, <1>3, <2>1, PruneDeleteIsTyped DEF StoreInv
<1>4. CASE PruneWake \/ PruneSelect \/ PruneFails
  <2>1. PrunerOK'
    <3>1. FirstBatch(StaleAt(pruner.cutoff)) \in SUBSET Artist
      BY DEF StoreInv, TablesOK, FirstBatch, StaleAt
    <3>2. now - Ttl \in Int /\ 0 - Ttl \in Int
      BY DEF StoreInv, StoreConstantsOK
    <3>3. Asleep \in Pruner /\ [Asleep EXCEPT !.at = "dead"] \in Pruner
      BY <3>2 DEF Asleep, Pruner
    <3>4. pruner \in Pruner
      BY DEF StoreInv, PrunerOK
    <3>5. CASE PruneWake
      BY <3>2, <3>4, <3>5 DEF PruneWake, PrunerOK, Pruner
    <3>6. CASE PruneSelect
      BY <3>1, <3>3, <3>4, <3>6 DEF PruneSelect, PrunerOK, Pruner
    <3>7. CASE PruneFails
      BY <3>3, <3>7 DEF PruneFails, PrunerOK
    <3> QED
      BY <1>4, <3>5, <3>6, <3>7
  <2>2. UNCHANGED <<tables, now, worker, skipped, gone>>
    BY <1>4 DEF PruneWake, PruneSelect, PruneFails
  <2> QED
    BY <1>0, <2>1, <2>2 DEF StoreInv, TablesOK, HistoryOK, tables
<1>5. CASE SetDominantColor
  <2>1. PICK rows \in SUBSET Artist :
          /\ artists \in [rows -> Row] /\ credits \subseteq songs \X rows
          /\ \E scanned \in SUBSET rows : fetched \in [scanned -> Fetch]
    BY DEF StoreInv, TablesOK
  <2>2. \A a \in rows : artists[a] = [image |-> client.image, colour |-> NoColour] =>
          [artists[a] EXCEPT !.colour = client.image] \in Row
    BY <2>1 DEF Row
  <2>3. artists' \in [rows -> Row]
    <3> HIDE DEF Row
    <3> QED
      BY <1>5, <2>1, <2>2 DEF SetDominantColor
  <2>4. UNCHANGED <<songs, credits, fetched, now, worker, pruner, skipped, gone>>
    BY <1>5 DEF SetDominantColor
  <2>5. TablesOK'
    <3> HIDE DEF Row, Fetch
    <3> QED
      BY <2>1, <2>3, <2>4 DEF TablesOK, StoreInv
  <2> QED
    BY <1>0, <2>4, <2>5 DEF StoreInv, HistoryOK, PrunerOK
<1>6. CASE Tick
  BY <1>0, <1>6 DEF Tick, StoreInv, TablesOK, HistoryOK, PrunerOK, tables
<1>7. CASE (\E a \in Artist : WorkerFetch(a)) \/ WorkerGivesUp
  BY <1>1, <1>7 DEF WorkerFetch, WorkerGivesUp
<1>8. CASE \/ \E a \in Asked : Read(a, Foreground)
           \/ ReadHave \/ ReadRef \/ ReadSongs \/ ReadDepth \/ ReadAgain
           \/ (\E i \in Image : Sample(i)) \/ SamplingFails
  <2>1. UNCHANGED <<tables, now, worker, pruner, skipped, gone>>
    BY <1>8 DEF Read, ReadHave, ReadRef, ReadSongs, ReadDepth, ReadAgain, Sample, SamplingFails
  <2> QED
    BY <1>1, <2>1 DEF StoreInv
<1>9. CASE UNCHANGED storeVars
  BY <1>1, <1>9 DEF storeVars, StoreInv
<1> QED
  BY <1>2, <1>3, <1>4, <1>5, <1>6, <1>7, <1>8, <1>9 DEF StoreNext, PruneStep

(* The tables refer to rows that exist, after any upsert and any prune.     *)
THEOREM StoreInvHolds == StoreConstantsOK /\ StoreSpec => []StoreInv
  BY InitIsTyped, StepIsTyped, PTL DEF StoreSpec

-----------------------------------------------------------------------------
(* Depth Full is kept honest by the three ways a row of credits can be     *)
(* missing: an upsert only adds rows, and a prune tells which it took.     *)

LEMMA StepKeepsFullIsComplete == StoreInv /\ FullIsComplete /\ [StoreNext]_storeVars => FullIsComplete'
<1> SUFFICES ASSUME StoreInv, FullIsComplete, [StoreNext]_storeVars PROVE FullIsComplete'
  OBVIOUS
<1>1. ASSUME UNCHANGED <<fetched, credits, skipped, gone>> PROVE FullIsComplete'
  BY <1>1 DEF FullIsComplete, SongsBy
<1>2. CASE \E a \in Artist, loaded \in SUBSET Song : \E i \in ImagesOf[a] :
             WorkerWrite(a, loaded, i) \/ RequestWrite(a, loaded, i)
  <2>1. PICK job \in Job : Upsert(job) /\ job.loaded \subseteq SongsBy(job.seed)
    <3>1. PICK a \in Artist, loaded \in SUBSET Song : \E i \in ImagesOf[a] :
                 WorkerWrite(a, loaded, i) \/ RequestWrite(a, loaded, i)
      BY <1>2
    <3>2. PICK i \in ImagesOf[a] : WorkerWrite(a, loaded, i) \/ RequestWrite(a, loaded, i)
      BY <3>1
    <3>3. PICK depth \in {Foreground, Full} :
                 Upsert([seed |-> a, depth |-> depth, loaded |-> loaded, image |-> i])
      BY <3>2 DEF WorkerWrite, RequestWrite
    <3>4. [seed |-> a, depth |-> depth, loaded |-> loaded, image |-> i] \in Job
      BY <3>2 DEF Job, Image
    <3>5. loaded \subseteq SongsBy(a)
      BY <3>2 DEF WorkerWrite, RequestWrite, ProviderSongs
    <3> QED
      BY <3>3, <3>4, <3>5
  <2>2. job.seed \in Artist /\ job.loaded \subseteq Song /\ job.depth \in {Foreground, Full}
    BY DEF Job
  <2> SUFFICES ASSUME NEW a \in DOMAIN fetched', fetched'[a].depth = Full,
                      NEW s \in SongsBy(a) \ skipped'[a], NEW x \in CreditsOf[s] \ gone'[a]
               PROVE  <<s, x>> \in credits'
    BY DEF FullIsComplete, SongsBy
  <2>3. s \in Song /\ x \in Artist
    BY DEF SongsBy, StoreInv, StoreConstantsOK
  <2>4. credits' = credits \cup {c \in job.loaded \X Artist : c[2] \in CreditsOf[c[1]]}
    BY <2>1 DEF Upsert, UpsertedCredits
  <2>5. CASE job.depth = Full /\ a = job.seed
    <3>1. skipped'[a] = SongsBy(a) \ job.loaded
      BY <2>1, <2>2, <2>5 DEF Upsert, StoreInv, HistoryOK
    <3> QED
      BY <2>3, <2>4, <3>1
  <2>6. CASE ~(job.depth = Full /\ a = job.seed)
    <3>1. a \in DOMAIN fetched /\ fetched[a].depth = Full
      <4>1. CASE a = job.seed
        <5>1. job.depth = Foreground
          BY <2>2, <2>6, <4>1
        <5>2. fetched' = IF Foreground >= FetchDepth(a)
                         THEN [b \in DOMAIN fetched \cup {a} |->
                                 IF b = a THEN [depth |-> Foreground, ts |-> now] ELSE fetched[b]]
                         ELSE fetched
          BY <2>1, <4>1, <5>1 DEF Upsert, UpsertedFetchState
        <5> QED
          BY <5>2 DEF Foreground, Full
      <4>2. CASE a # job.seed
        BY <2>1, <4>2 DEF Upsert, UpsertedFetchState
      <4> QED
        BY <4>1, <4>2
    <3>2. skipped'[a] = skipped[a] /\ gone'[a] = gone[a]
      <4>1. a \in Artist
        BY <3>1 DEF StoreInv, TablesOK
      <4> QED
        BY <2>1, <2>2, <2>6, <4>1 DEF Upsert, StoreInv, HistoryOK
    <3> QED
      BY <2>4, <3>1, <3>2 DEF FullIsComplete
  <2> QED
    BY <2>5, <2>6
<1>3. CASE PruneDelete
  <2> DEFINE ids == pruner.ids
  <2>1. /\ credits' = {c \in credits : c[2] \notin ids}
        /\ fetched' = [a \in DOMAIN fetched \ ids |-> fetched[a]]
        /\ gone' = [a \in Artist |-> IF a \in ids THEN {} ELSE gone[a] \cup ids]
        /\ skipped' = [a \in Artist |-> IF a \in ids THEN {} ELSE skipped[a]]
    BY <1>3 DEF PruneDelete, CreditsWithout, FetchStateWithout
  <2>2. DOMAIN fetched \subseteq Artist
    BY DEF StoreInv, TablesOK
  <2> HIDE DEF ids
  <2> QED
    BY <2>1, <2>2, ZenonT(40) DEF FullIsComplete, SongsBy
<1>4. CASE ~PruneDelete /\ ~(\E a \in Artist, loaded \in SUBSET Song : \E i \in ImagesOf[a] :
             WorkerWrite(a, loaded, i) \/ RequestWrite(a, loaded, i))
  <2>1. UNCHANGED <<fetched, credits, skipped, gone>>
    BY <1>4 DEF StoreNext, PruneStep, WorkerFetch, WorkerGivesUp, PruneWake, PruneSelect, PruneFails,
      Read, ReadHave, ReadRef, ReadSongs, ReadDepth, ReadAgain, Sample, SetDominantColor,
      SamplingFails, Tick, storeVars, tables
  <2> QED
    BY <1>1, <2>1
<1> QED
  BY <1>2, <1>3, <1>4

(* A Full artist lacks no credit but those a scan skipped or a prune took, *)
(* however the writers and the prune task follow each other.               *)
THEOREM FullIsCompleteHolds == StoreConstantsOK /\ StoreSpec => []FullIsComplete
<1>1. StoreInit => FullIsComplete
  BY DEF StoreInit, FullIsComplete
<1> QED
  BY <1>1, StepKeepsFullIsComplete, StoreInvHolds, PTL DEF StoreSpec

-----------------------------------------------------------------------------
(* A colour is stored by image and not by artist, so that an image that    *)
(* was replaced while it was sampled finds no row of its own any more.     *)

LEMMA StepKeepsColours == StoreInv /\ ColourIsOfImage /\ [StoreNext]_storeVars => ColourIsOfImage'
<1> SUFFICES ASSUME StoreInv, ColourIsOfImage, [StoreNext]_storeVars PROVE ColourIsOfImage'
  OBVIOUS
<1>1. CASE artists' = artists
  BY <1>1 DEF ColourIsOfImage
<1>2. ASSUME NEW job, Upsert(job) PROVE ColourIsOfImage'
  <2> DEFINE colour == IF job.seed \in DOMAIN artists /\ artists[job.seed].image = job.image
                       THEN artists[job.seed].colour ELSE NoColour
  <2> DEFINE row(a) == IF a = job.seed THEN [image |-> job.image, colour |-> colour]
                       ELSE IF a \in DOMAIN artists THEN artists[a]
                       ELSE [image |-> ImageOf(a), colour |-> NoColour]
  <2>1. colour \in {NoColour, job.image}
    BY DEF ColourIsOfImage
  <2>2. \A a \in DOMAIN artists' : artists'[a] = row(a)
    BY <1>2 DEF Upsert, UpsertedArtists
  <2> HIDE DEF colour
  <2>3. ASSUME NEW a PROVE row(a).colour \in {NoColour, row(a).image} \/ a \notin DOMAIN artists'
    BY <2>1 DEF ColourIsOfImage
  <2> HIDE DEF row
  <2> QED
    BY <2>2, <2>3 DEF ColourIsOfImage
<1>3. CASE PruneDelete
  BY <1>3 DEF PruneDelete, ColourIsOfImage
<1>4. CASE SetDominantColor
  <2>1. ASSUME NEW a \in DOMAIN artists, artists[a] = [image |-> client.image, colour |-> NoColour]
        PROVE  [artists[a] EXCEPT !.colour = client.image]
                 = [image |-> client.image, colour |-> client.image]
    BY <2>1
  <2>2. /\ DOMAIN artists' = DOMAIN artists
        /\ \A a \in DOMAIN artists :
             \/ artists'[a] = artists[a]
             \/ artists'[a] = [image |-> client.image, colour |-> client.image]
    BY <1>4, <2>1 DEF SetDominantColor
  <2> QED
    BY <2>2 DEF ColourIsOfImage
<1>5. CASE Tick \/ WorkerGivesUp \/ PruneFails \/ PruneWake \/ PruneSelect \/ UNCHANGED storeVars
  BY <1>1, <1>5 DEF Tick, WorkerGivesUp, PruneFails, PruneWake, PruneSelect, storeVars, tables
<1>6. CASE \/ \E a \in Artist : WorkerFetch(a)
           \/ \E a \in Asked : Read(a, Foreground)
           \/ ReadHave \/ ReadRef \/ ReadSongs \/ ReadDepth \/ ReadAgain
           \/ (\E i \in Image : Sample(i)) \/ SamplingFails
  BY <1>1, <1>6 DEF WorkerFetch, Read, ReadHave, ReadRef, ReadSongs, ReadDepth, ReadAgain, Sample,
    SamplingFails, tables
<1>7. CASE \E a \in Artist, loaded \in SUBSET Song : \E i \in ImagesOf[a] :
             WorkerWrite(a, loaded, i) \/ RequestWrite(a, loaded, i)
  BY <1>2, <1>7 DEF WorkerWrite, RequestWrite
<1> QED
  BY <1>3, <1>4, <1>5, <1>6, <1>7 DEF StoreNext, PruneStep

(* No artist is shown in the colour of an image that it had before.        *)
THEOREM ColourIsOfImageHolds == StoreConstantsOK /\ StoreSpec => []ColourIsOfImage
<1>1. StoreInit => ColourIsOfImage
  BY DEF StoreInit, ColourIsOfImage
<1> QED
  BY <1>1, StepKeepsColours, StoreInvHolds, PTL DEF StoreSpec

-----------------------------------------------------------------------------
(* Between the queries of one reader, and until a prune, credits and       *)
(* depths only grow.                                                       *)

Reading == [at : {"ref", "have", "songs", "depth", "done"}, id : Artist, want : {Foreground},
            partial : BOOLEAN, have : {None, Foreground, Full}, whole : BOOLEAN,
            before : SUBSET (Song \X Artist), first : {None, Foreground, Full}, pruned : BOOLEAN]

ClientOK ==
  \/ client = Idle
  \/ client.at = "set" /\ client = [at |-> "set", image |-> client.image]
  \/ client \in Reading

(* What the reader has seen so far still holds.                            *)
SoFar ==
  LET depth == FetchDepth(client.id) IN
  /\ depth >= client.first /\ depth >= client.have
  /\ client.at \in {"ref", "have", "songs"} => client.before \subseteq SongsForArtist(client.id)
  /\ client.at = "depth" => client.whole = TRUE /\ client.partial = FALSE
  /\ client.at = "have" => client.partial = FALSE /\ client.first < client.want
  /\ client.at \in {"ref", "songs", "depth"} =>
       /\ client.partial = FALSE => client.first >= client.want
       /\ client.partial = TRUE =>
            client.first < client.want /\ client.have >= client.first /\ client.have # None

ReadInv ==
  /\ ClientOK
  /\ client \in Reading /\ client.at # "done" /\ client.pruned = FALSE => SoFar
  /\ ReadsAreNotTorn

(* A step of somebody else that removes nothing.                           *)
LEMMA OnlyMore ==
  ASSUME ReadInv, client' = client,
         \A a \in Artist : FetchDepth(a)' >= FetchDepth(a) /\ FetchDepth(a) \in Nat /\ FetchDepth(a)' \in Nat,
         credits \subseteq credits'
  PROVE  ReadInv'
<1>1. ClientOK' /\ ReadsAreNotTorn'
  BY DEF ReadInv, ClientOK, ReadsAreNotTorn, Idle, Reading
<1>2. ASSUME client \in Reading, client.at # "done", client.pruned = FALSE PROVE SoFar'
  <2>1. client.id \in Artist /\ client.first \in Nat /\ client.have \in Nat
    BY <1>2 DEF Reading, None, Foreground, Full
  <2>2. SoFar
    BY <1>2 DEF ReadInv
  <2>3. SongsForArtist(client.id) \subseteq SongsForArtist(client.id)'
    BY DEF SongsForArtist
  <2>4. FetchDepth(client.id)' >= client.first /\ FetchDepth(client.id)' >= client.have
    BY <2>1, <2>2 DEF SoFar
  <2> QED
    BY <2>2, <2>3, <2>4 DEF SoFar
<1> QED
  BY <1>1, <1>2 DEF ReadInv, Reading

LEMMA DepthsAreDepths ==
  ASSUME StoreInv, NEW a \in Artist
  PROVE  /\ FetchDepth(a) \in {None, Foreground, Full}
         /\ FetchDepth(a) # None => a \in DOMAIN artists
<1>1. PICK rows \in SUBSET Artist :
        /\ artists \in [rows -> Row] /\ credits \subseteq songs \X rows
        /\ \E scanned \in SUBSET rows : fetched \in [scanned -> Fetch]
  BY DEF StoreInv, TablesOK
<1>2. PICK scanned \in SUBSET rows : fetched \in [scanned -> Fetch]
  BY <1>1
<1> QED
  BY <1>1, <1>2 DEF FetchDepth, Fetch

LEMMA UpsertOnlyAdds ==
  ASSUME StoreInv, NEW job \in Job, Upsert(job), NEW a \in Artist
  PROVE  FetchDepth(a)' >= FetchDepth(a) /\ FetchDepth(a)' \in Nat /\ credits \subseteq credits'
<1>1. FetchDepth(a) \in {None, Foreground, Full} /\ job.depth \in {Foreground, Full}
  BY DepthsAreDepths DEF Job
<1>2. CASE a = job.seed /\ job.depth >= FetchDepth(a)
  <2>1. FetchDepth(a)' = job.depth
    BY <1>2 DEF Upsert, UpsertedFetchState, FetchDepth
  <2> QED
    BY <1>1, <1>2, <2>1 DEF Upsert, UpsertedCredits, None, Foreground, Full
<1>3. CASE ~(a = job.seed /\ job.depth >= FetchDepth(a))
  <2>1. FetchDepth(a)' = FetchDepth(a)
    BY <1>3 DEF Upsert, UpsertedFetchState, FetchDepth
  <2> QED
    BY <1>1, <2>1 DEF Upsert, UpsertedCredits, None, Foreground, Full
<1> QED
  BY <1>2, <1>3

LEMMA StepKeepsReadInv == StoreInv /\ ReadInv /\ [StoreNext]_storeVars => ReadInv'
<1> SUFFICES ASSUME StoreInv, ReadInv, [StoreNext]_storeVars PROVE ReadInv'
  OBVIOUS
<1> USE DEF None, Foreground, Full
<1>1. CASE \E a \in Artist, loaded \in SUBSET Song : \E i \in ImagesOf[a] :
             WorkerWrite(a, loaded, i) \/ RequestWrite(a, loaded, i)
  <2>1. PICK a \in Artist, loaded \in SUBSET Song : \E i \in ImagesOf[a] :
               WorkerWrite(a, loaded, i) \/ RequestWrite(a, loaded, i)
    BY <1>1
  <2>2. PICK i \in ImagesOf[a] : WorkerWrite(a, loaded, i) \/ RequestWrite(a, loaded, i)
    BY <2>1
  <2>3. PICK depth \in {Foreground, Full} :
               Upsert([seed |-> a, depth |-> depth, loaded |-> loaded, image |-> i])
    BY <2>2 DEF WorkerWrite, RequestWrite
  <2>4. [seed |-> a, depth |-> depth, loaded |-> loaded, image |-> i] \in Job
    BY <2>2 DEF Job, Image
  <2>5. \A b \in Artist : FetchDepth(b)' >= FetchDepth(b) /\ FetchDepth(b)' \in Nat
    BY <2>3, <2>4, UpsertOnlyAdds
  <2>6. \A b \in Artist : FetchDepth(b) \in Nat
    BY DepthsAreDepths
  <2>7. credits \subseteq credits' /\ client' = client
    BY <2>3 DEF Upsert, UpsertedCredits
  <2> QED
    BY <2>5, <2>6, <2>7, OnlyMore
<1>2. CASE PruneDelete
  <2>1. \/ client \in Reading /\ client.at # "done" /\ client' = [client EXCEPT !.pruned = TRUE]
        \/ client' = client /\ (client \notin Reading \/ client.at = "done")
    <3>1. client \in Reading => (client.at # "done" <=> client.at \in {"ref", "have", "songs", "depth"})
      BY DEF Reading
    <3>2. Idle.at \notin {"ref", "have", "songs", "depth"} /\ Idle \notin Reading
      BY DEF Idle, Reading
    <3> QED
      BY <1>2, <3>1, <3>2 DEF PruneDelete, ReadInv, ClientOK
  <2>2. CASE client \in Reading /\ client.at # "done" /\ client' = [client EXCEPT !.pruned = TRUE]
    BY <2>2 DEF ReadInv, ClientOK, Reading, ReadsAreNotTorn
  <2>3. CASE client' = client /\ (client \notin Reading \/ client.at = "done")
    BY <2>3 DEF ReadInv, ClientOK, Reading, ReadsAreNotTorn, Idle
  <2> QED
    BY <2>1, <2>2, <2>3
<1>3. CASE UNCHANGED <<fetched, credits, client>>
  <2>1. \A b \in Artist : FetchDepth(b)' = FetchDepth(b) /\ FetchDepth(b) \in Nat
    BY <1>3, DepthsAreDepths DEF FetchDepth
  <2>2. \A b \in Artist : FetchDepth(b)' >= FetchDepth(b) /\ FetchDepth(b) \in Nat /\ FetchDepth(b)' \in Nat
    BY <2>1
  <2> QED
    BY <1>3, <2>2, OnlyMore
<1>4. CASE \E a \in Asked : Read(a, Foreground)
  <2>1. PICK a \in Asked : Read(a, Foreground)
    BY <1>4
  <2>2. a \in Artist /\ credits \subseteq Song \X Artist
    BY <2>1 DEF StoreInv, StoreConstantsOK, TablesOK
  <2>3. FetchDepth(a) \in {None, Foreground, Full} /\ FetchDepth(a)' = FetchDepth(a)
    BY <2>1, <2>2, DepthsAreDepths DEF Read, FetchDepth, tables
  <2>4. SongsForArtist(a) \subseteq Song \X Artist /\ SongsForArtist(a)' = SongsForArtist(a)
    BY <2>1, <2>2 DEF SongsForArtist, Read, tables
  <2>5. /\ client' \in Reading /\ client'.at \in {"ref", "have"} /\ client'.id = a
        /\ client'.first = FetchDepth(a) /\ client'.want = Foreground /\ client'.have = None
        /\ client'.partial = FALSE /\ client'.before = SongsForArtist(a)
        /\ client'.at = "ref" <=> FetchDepth(a) >= Foreground
    BY <2>1, <2>2, <2>3, <2>4 DEF Read, Reading
  <2>6. SoFar'
    BY <2>3, <2>4, <2>5 DEF SoFar
  <2> QED
    BY <2>5, <2>6 DEF ReadInv, ClientOK, ReadsAreNotTorn
<1>5. CASE ReadHave \/ ReadRef \/ ReadSongs \/ ReadDepth
  <2>1. client \in Reading
    BY <1>5 DEF ReadHave, ReadRef, ReadSongs, ReadDepth, ReadInv, ClientOK, Idle
  <2>2. client.id \in Artist /\ UNCHANGED <<artists, fetched, credits>>
    BY <1>5, <2>1 DEF ReadHave, ReadRef, ReadSongs, ReadDepth, Reading, tables
  <2>3. /\ FetchDepth(client.id) \in {None, Foreground, Full}
        /\ FetchDepth(client.id) # None => client.id \in DOMAIN artists
    BY <2>2, DepthsAreDepths
  <2>4. \A a : FetchDepth(a)' = FetchDepth(a) /\ SongsForArtist(a)' = SongsForArtist(a)
    BY <2>2 DEF FetchDepth, SongsForArtist
  <2>5. client.pruned = FALSE /\ client.at # "done" => SoFar
    BY <2>1 DEF ReadInv
  <2>6. CASE ReadHave
    <3>1. /\ client' \in Reading /\ client'.at \in {"done", "ref"}
          /\ client'.partial = TRUE /\ client'.have = FetchDepth(client.id)
          /\ client'.at = "done" <=> FetchDepth(client.id) = None
          /\ client'.id = client.id /\ client'.first = client.first /\ client'.want = client.want
          /\ client'.before = client.before /\ client'.pruned = client.pruned
      BY <2>1, <2>3, <2>6 DEF ReadHave, Reading
    <3> QED
      BY <2>1, <2>3, <2>4, <2>5, <2>6, <3>1 DEF ReadHave, ReadInv, ClientOK, SoFar, ReadsAreNotTorn, Reading
  <2>7. CASE ReadRef
    <3>1. /\ client' \in Reading
          /\ client'.id = client.id /\ client'.first = client.first /\ client'.want = client.want
          /\ client'.pruned = client.pruned /\ client'.partial = client.partial
          /\ client'.before = client.before /\ client'.whole = client.whole
          /\ \/ /\ client.id \in DOMAIN artists
                /\ client'.at = "songs" /\ client'.have = client.have
             \/ /\ client.id \notin DOMAIN artists /\ client.partial = TRUE
                /\ client'.at = "done" /\ client'.have = None
             \/ /\ client.id \notin DOMAIN artists /\ client.partial = FALSE
                /\ client'.at = "have" /\ client'.have = client.have
      BY <2>1, <2>7 DEF ReadRef, Reading
    <3>2. client.at = "ref" /\ client.first \in Nat /\ client.have \in Nat /\ client.want = Foreground
      BY <2>1, <2>7 DEF ReadRef, Reading
    <3> QED
      BY <2>3, <2>4, <2>5, <3>1, <3>2 DEF ReadInv, ClientOK, SoFar, ReadsAreNotTorn
  <2>8. CASE ReadSongs
    <3>1. /\ client' \in Reading /\ client'.have = client.have
          /\ client'.id = client.id /\ client'.first = client.first /\ client'.want = client.want
          /\ client'.pruned = client.pruned /\ client'.partial = client.partial
          /\ client'.before = {}
          /\ client'.whole = (client.before \subseteq SongsForArtist(client.id))
          /\ client'.at = IF client.partial THEN "done" ELSE "depth"
      BY <2>1, <2>8 DEF ReadSongs, Reading
    <3>2. client.at = "songs" /\ client.partial \in BOOLEAN
      BY <2>1, <2>8 DEF ReadSongs, Reading
    <3>3. client.first \in Nat /\ client.have \in Nat /\ client.want = Foreground
      BY <2>1 DEF Reading
    <3>4. client.pruned = FALSE => client'.whole = TRUE /\ SoFar
      <4>1. client.pruned = FALSE => SoFar
        BY <2>5, <3>2
      <4>2. SoFar => client.before \subseteq SongsForArtist(client.id)
        BY <3>2 DEF SoFar
      <4> QED
        BY <3>1, <4>1, <4>2
    <3>5. CASE client.partial = TRUE
      BY <2>3, <3>1, <3>2, <3>3, <3>4, <3>5 DEF ReadInv, ClientOK, SoFar, ReadsAreNotTorn
    <3>6. CASE client.partial = FALSE
      <4>1. client'.at = "depth"
        BY <3>1, <3>6
      <4>2. client.pruned = FALSE => SoFar'
        BY <2>3, <2>4, <3>1, <3>2, <3>3, <3>4, <3>6, <4>1 DEF SoFar
      <4> QED
        BY <3>1, <4>1, <4>2 DEF ReadInv, ClientOK, ReadsAreNotTorn
    <3> QED
      BY <3>2, <3>5, <3>6
  <2>9. CASE ReadDepth
    <3>1. /\ client' \in Reading /\ client'.have = FetchDepth(client.id)
          /\ client'.id = client.id /\ client'.first = client.first /\ client'.want = client.want
          /\ client'.pruned = client.pruned /\ client'.partial = client.partial
          /\ client'.whole = client.whole /\ client'.at = "done"
      BY <2>1, <2>3, <2>9 DEF ReadDepth, Reading
    <3>2. client.at = "depth" /\ client.first \in Nat /\ client.want = Foreground
      BY <2>1, <2>9 DEF ReadDepth, Reading
    <3> QED
      BY <2>3, <2>4, <2>5, <3>1, <3>2 DEF ReadInv, ClientOK, SoFar, ReadsAreNotTorn
  <2> QED
    BY <1>5, <2>6, <2>7, <2>8, <2>9
<1>6. CASE client' = Idle
  BY <1>6 DEF ReadInv, ClientOK, ReadsAreNotTorn, Idle, Reading
<1>7. CASE \E i \in Image : Sample(i)
  BY <1>7 DEF Sample, ReadInv, ClientOK, ReadsAreNotTorn, Reading
<1>8. \/ UNCHANGED <<fetched, credits, client>> \/ client' = Idle \/ PruneDelete
      \/ (\E i \in Image : Sample(i)) \/ (\E a \in Asked : Read(a, Foreground))
      \/ ReadHave \/ ReadRef \/ ReadSongs \/ ReadDepth
      \/ \E a \in Artist, loaded \in SUBSET Song : \E i \in ImagesOf[a] :
             WorkerWrite(a, loaded, i) \/ RequestWrite(a, loaded, i)
  BY DEF StoreNext, PruneStep, WorkerFetch, WorkerGivesUp, PruneWake, PruneSelect, PruneFails,
    ReadAgain, SetDominantColor, SamplingFails, Tick, storeVars, tables
<1> QED
  BY <1>1, <1>2, <1>3, <1>4, <1>5, <1>6, <1>7, <1>8

(* A reader whose artist is not pruned between its queries gets what was   *)
(* there when it began, at the depth it is told.                           *)
THEOREM ReadsAreNotTornHolds == StoreConstantsOK /\ StoreSpec => []ReadsAreNotTorn
<1>1. StoreConstantsOK /\ StoreInit => ReadInv
  BY DEF StoreInit, ReadInv, ClientOK, ReadsAreNotTorn, Idle, Reading
<1>2. ReadInv => ReadsAreNotTorn
  BY DEF ReadInv
<1> QED
  BY <1>1, <1>2, StepKeepsReadInv, StoreInvHolds, PTL DEF StoreSpec

=============================================================================

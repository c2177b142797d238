-------------------------- MODULE EnrichmentRetry --------------------------
(***************************************************************************)
(* EnrichmentClient of the public service: requests to enrich an artist    *)
(* are posted to the enrichment service; those that fail wait in a bounded *)
(* queue, which FlushLoop sends again.  The loop works on a copy: while it *)
(* sends, requests add to the queue and push out its oldest entries.       *)
(***************************************************************************)
EXTENDS Integers, Sequences, FiniteSets

CONSTANTS Requested,      \* artists that requests ask to enrich
          Requester,      \* the requests' coroutines
          NoRequest,
          RetryCapacity,  \* retry_queue_capacity_
          MaxRetryAge     \* max_retry_age_, in ticks

ASSUME RetryAssumption ==
  /\ NoRequest \notin Requested
  /\ RetryCapacity \in Nat \ {0}   \* RequirePositive
  /\ MaxRetryAge \in Nat \ {0}

VARIABLES retry_queue,  \* [artist, age, copied]: copied is history, whether
                        \* the entry is in the copy FlushLoop works on
          failed,       \* [Requester -> the artist it could not post, or none]
          flush,        \* where FlushLoop is
          snapshot,     \* what it still has to send
          to_remove,
          pushedOut     \* history: artists pushed out since the copy was made

retryVars == <<retry_queue, failed, flush, snapshot, to_remove, pushedOut>>

RetryInit ==
  /\ retry_queue = <<>> /\ failed = [c \in Requester |-> NoRequest]
  /\ flush = "asleep" /\ snapshot = <<>> /\ to_remove = {} /\ pushedOut = {}

(* SendEnqueueRequest fails for EnqueueIfNeeded; a success changes nothing *)
(* here, whether the worker queued the artist or skipped it (202 in either *)
(* case, EnqueueHandler).                                                  *)
PostFails(c, a) ==
  /\ failed[c] = NoRequest /\ failed' = [failed EXCEPT ![c] = a]
  /\ UNCHANGED <<retry_queue, flush, snapshot, to_remove, pushedOut>>

IsStashed(a) == \E i \in DOMAIN retry_queue : retry_queue[i].artist = a

(* EnqueueRetry: the first request for an artist stays, with its token and *)
(* its age; a full queue loses its oldest entry.                           *)
EnqueueRetry(c) ==
  LET a == failed[c]
      full == Len(retry_queue) >= RetryCapacity
  IN
  /\ a # NoRequest /\ failed' = [failed EXCEPT ![c] = NoRequest]
  /\ IF IsStashed(a) THEN UNCHANGED <<retry_queue, pushedOut>>
     ELSE /\ retry_queue' = Append(IF full THEN Tail(retry_queue) ELSE retry_queue,
                                   [artist |-> a, age |-> 0, copied |-> FALSE])
          /\ pushedOut' = IF full THEN pushedOut \cup {retry_queue[1].artist} ELSE pushedOut
  /\ UNCHANGED <<flush, snapshot, to_remove>>

(* The loop wakes every retry_interval_ and copies the queue. *)
Wake ==
  /\ flush = "asleep" /\ retry_queue # <<>>
  /\ snapshot' = retry_queue /\ flush' = "sending"
  /\ retry_queue' = [i \in DOMAIN retry_queue |-> [retry_queue[i] EXCEPT !.copied = TRUE]]
  /\ pushedOut' = {}
  /\ UNCHANGED <<failed, to_remove>>

(* A mutant: entries do not become too old. *)
SendForEver ==
  /\ flush = "sending" /\ snapshot # <<>>
  /\ to_remove' = to_remove \cup {Head(snapshot).artist} \/ UNCHANGED to_remove
  /\ snapshot' = Tail(snapshot)
  /\ UNCHANGED <<retry_queue, failed, flush, pushedOut>>

(* One entry of the copy: too old, sent, or not sent. *)
SendNext ==
  /\ flush = "sending" /\ snapshot # <<>>
  /\ LET job == Head(snapshot) IN
       \/ to_remove' = to_remove \cup {job.artist}
       \/ job.age < MaxRetryAge /\ UNCHANGED to_remove
  /\ snapshot' = Tail(snapshot)
  /\ UNCHANGED <<retry_queue, failed, flush, pushedOut>>

(* A mutant: as many entries as are done leave the front of the queue. *)
KeptFromBack == SubSeq(retry_queue, Cardinality(to_remove) + 1, Len(retry_queue))

(* What is done is removed from the queue by the artist's id; the others   *)
(* keep their order.                                                       *)
Stay == {i \in DOMAIN retry_queue : retry_queue[i].artist \notin to_remove}

Kept ==
  [n \in 1..Cardinality(Stay) |->
     retry_queue[CHOOSE i \in Stay : Cardinality(Stay \cap 1..i) = n]]

Remove ==
  /\ flush = "sending" /\ snapshot = <<>>
  /\ retry_queue' = [i \in DOMAIN Kept |-> [Kept[i] EXCEPT !.copied = FALSE]]
  /\ to_remove' = {} /\ pushedOut' = {} /\ flush' = "asleep"
  /\ UNCHANGED <<failed, snapshot>>

(* Time passes for entries and copies; the age that counts is the one when *)
(* the loop woke (now is read once).                                       *)
RetryTick ==
  /\ retry_queue' = [i \in DOMAIN retry_queue |->
       [retry_queue[i] EXCEPT !.age = IF @ < MaxRetryAge THEN @ + 1 ELSE @]]
  /\ UNCHANGED <<failed, flush, snapshot, to_remove, pushedOut>>

RetryNext ==
  \/ \E c \in Requester : (\E a \in Requested : PostFails(c, a)) \/ EnqueueRetry(c)
  \/ Wake \/ SendNext \/ Remove \/ RetryTick

Flush == Wake \/ SendNext \/ Remove

RetrySpec ==
  RetryInit /\ [][RetryNext]_retryVars /\ WF_retryVars(Flush) /\ WF_retryVars(RetryTick)

-----------------------------------------------------------------------------
AnEntry == [artist : Requested, age : 0..MaxRetryAge, copied : BOOLEAN]

RetryTypeOK ==
  /\ retry_queue \in Seq(AnEntry) /\ Len(retry_queue) <= RetryCapacity
  /\ failed \in [Requester -> Requested \cup {NoRequest}]
  /\ flush \in {"asleep", "sending"} /\ snapshot \in Seq(AnEntry)
  /\ to_remove \subseteq Requested /\ pushedOut \subseteq Requested
  /\ flush = "asleep" => snapshot = <<>> /\ to_remove = {}

(* An artist waits at most once. *)
StashedOnce ==
  \A i, j \in DOMAIN retry_queue : retry_queue[i].artist = retry_queue[j].artist => i = j

(* What the loop has handled or still will is in the queue as the loop     *)
(* copied it, or a full queue has pushed it out since.                     *)
HandledAreCopied ==
  \A a \in to_remove \cup {snapshot[i].artist : i \in DOMAIN snapshot} :
    \/ a \in pushedOut
    \/ \E i \in DOMAIN retry_queue : retry_queue[i].artist = a /\ retry_queue[i].copied

(* FlushLoop removes what it has sent or found too old and nothing else,   *)
(* although it removes by id and without the lock in between: an entry     *)
(* that came after the copy is removed only if it replaced one of the copy *)
(* that a full queue had pushed out (enrichment_client.cpp:231, :252).     *)
OnlyHandledAreRemoved ==
  [][flush = "sending" /\ flush' = "asleep" =>
       \A i \in DOMAIN retry_queue : LET job == retry_queue[i] IN
         \/ \E j \in DOMAIN retry_queue' : retry_queue'[j].artist = job.artist
         \/ job.artist \in to_remove /\ (job.copied \/ job.artist \in pushedOut)]_retryVars

(* Nothing waits for ever: an entry is sent, pushed out or becomes too old *)
(* for the loop.                                                           *)
RetriesEnd == \A a \in Requested : IsStashed(a) ~> ~IsStashed(a)

=============================================================================

-------------------------- MODULE EnrichmentWorker --------------------------
(***************************************************************************)
(* EnrichmentWorker and EnrichmentQueue (libs/six-feat-enrichment): the    *)
(* background deep scan of artists.  Handlers of POST /internal/enqueue    *)
(* put artists in a bounded queue, one worker task scans them, and the set *)
(* `pending_' keeps an artist from being queued twice.  The set, the queue *)
(* and the stored fetch depth are three pieces of state under three        *)
(* different locks; a step here is one critical section or one query.      *)
(*                                                                         *)
(* The module spans processes: depth is in Postgres and survives, the rest *)
(* is lost when the service stops and is rebuilt by RecoverPendingArtists. *)
(***************************************************************************)
EXTENDS Integers, Sequences, FiniteSets

CONSTANTS
  Artist,     \* artist ids; recovery lists them in order
  Caller,     \* coroutines of POST /internal/enqueue
  NoArtist,
  Capacity,   \* queue-capacity
  BatchSize,  \* batch_size of RecoverPendingArtists (256)
  Faults      \* what may go wrong, see Fault

(***************************************************************************)
(* "store"    a query throws                                               *)
(* "replica"  depth and rows are read from a replica that may lag          *)
(* "slow"     a scan outlasts drain-timeout-ms                             *)
(* "kill"     the process dies                                             *)
(***************************************************************************)
Fault == {"store", "replica", "slow", "kill"}

ASSUME WorkerAssumption ==
  /\ Artist \subseteq Nat
  /\ IsFiniteSet(Artist)
  /\ NoArtist \notin Artist
  /\ Capacity \in Nat
  /\ BatchSize \in Nat \ {0}
  /\ Faults \subseteq Fault

VARIABLES
  depth,        \* fetch_state.depth of each artist, None without a row
  queue,        \* queue_
  closed,       \* closed_
  pending,      \* pending_
  recovered,    \* recovered_awaiting_token_
  worker,       \* where the worker task is
  job,          \* the artist the worker popped
  cancelled,    \* the worker task was asked to cancel
  offset,       \* RecoverPendingArtists: rows read so far
  found,        \* RecoverPendingArtists: artists recovered so far
  call,         \* where each caller is in EnqueueIfNeeded
  ref,          \* the artist each caller asks for
  owed,         \* history: rows below Full when recovery began and on every page
  shown         \* history: the incomplete rows the last page was taken from

recovery == <<offset, found, owed, shown>>
callers == <<call, ref>>
vars == <<depth, queue, closed, pending, recovered, worker, job, cancelled,
          offset, found, call, ref, owed, shown>>

None == 0
Foreground == 1
Full == 2
Depth == {None, Foreground, Full}

WorkerPC == {"recovering", "waiting", "checking", "fetching", "writing",
             "backoff", "settling", "stopped", "crashed"}

CallPC == {"idle", "checked", "pushing", "refused"}

Incomplete == {a \in Artist : depth[a] = Foreground}

Queued == {queue[i] : i \in DOMAIN queue}

InWork == {job} \ {NoArtist}

(***************************************************************************)
(* A service that has just been started on what an earlier one stored.     *)
(***************************************************************************)
InitWith(stored) ==
  /\ depth = stored
  /\ queue = <<>>
  /\ closed = FALSE
  /\ pending = {}
  /\ recovered = {}
  /\ worker = "recovering"
  /\ job = NoArtist
  /\ cancelled = FALSE
  /\ offset = 0
  /\ found = 0
  /\ call = [c \in Caller |-> "idle"]
  /\ ref = [c \in Caller |-> NoArtist]
  /\ owed = Incomplete
  /\ shown = {}

Init == \E stored \in [Artist -> Depth] : InitWith(stored)

(***************************************************************************)
(* What GetFetchDepth may answer.                                          *)
(***************************************************************************)
GetFetchDepth(a) == IF "replica" \in Faults THEN Depth ELSE {depth[a]}

(***************************************************************************)
(* The incomplete rows one query may see: a replica lags as long as it     *)
(* likes, and the next query may go to another one.                        *)
(***************************************************************************)
RowsRead == IF "replica" \in Faults THEN SUBSET Artist ELSE {Incomplete}

-----------------------------------------------------------------------------
(* EnrichmentQueue *)

\* Mutant: a closed queue still takes jobs.
PushAlthoughClosed == Len(queue) < Capacity

CanPush == ~closed /\ Len(queue) < Capacity

TryPush(a) == queue' = IF CanPush THEN Append(queue, a) ELSE queue

-----------------------------------------------------------------------------
(* EnqueueIfNeeded *)

Call(c, label) == call' = [call EXCEPT ![c] = label]

(***************************************************************************)
(* The depth is read before the claim, without a lock.                     *)
(***************************************************************************)
EnqueueIfNeeded(c, a) ==
  /\ call[c] = "idle"
  /\ ~closed
  /\ \E d \in GetFetchDepth(a) : d < Full
  /\ Call(c, "checked")
  /\ ref' = [ref EXCEPT ![c] = a]
  /\ UNCHANGED <<depth, queue, closed, pending, recovered, worker, job, cancelled>>
  /\ UNCHANGED recovery

\* Mutant: an artist that is already pending is queued again.
ClaimAnyway(c) ==
  /\ call[c] = "checked"
  /\ pending' = pending \cup {ref[c]}
  /\ recovered' = recovered \ {ref[c]}
  /\ Call(c, "pushing")
  /\ UNCHANGED <<depth, queue, closed, worker, job, cancelled, ref>>
  /\ UNCHANGED recovery

(***************************************************************************)
(* Under pending_mu_: an artist is claimed by the caller that adds it, or  *)
(* that takes it over from recovery.                                       *)
(***************************************************************************)
ClaimPending(c) ==
  /\ call[c] = "checked"
  /\ IF ref[c] \in pending \ recovered
     THEN Call(c, "idle") /\ UNCHANGED <<pending, recovered>>
     ELSE /\ pending' = pending \cup {ref[c]}
          /\ recovered' = recovered \ {ref[c]}
          /\ Call(c, "pushing")
  /\ UNCHANGED <<depth, queue, closed, worker, job, cancelled, ref>>
  /\ UNCHANGED recovery

PushJob(c) ==
  /\ call[c] = "pushing"
  /\ TryPush(ref[c])
  /\ Call(c, IF CanPush THEN "idle" ELSE "refused")
  /\ UNCHANGED <<depth, closed, pending, recovered, worker, job, cancelled, ref>>
  /\ UNCHANGED recovery

DropRefused(c) ==
  /\ call[c] = "refused"
  /\ pending' = pending \ {ref[c]}
  /\ Call(c, "idle")
  /\ UNCHANGED <<depth, queue, closed, recovered, worker, job, cancelled, ref>>
  /\ UNCHANGED recovery

-----------------------------------------------------------------------------
(* RecoverPendingArtists *)

(***************************************************************************)
(* One page of the incomplete rows, in the order of their ids.             *)
(***************************************************************************)
ListIncompleteArtists(rows, limit, from) ==
  {a \in rows :
     LET before == Cardinality({b \in rows : b < a})
     IN  from <= before /\ before < from + limit}

(***************************************************************************)
(* An artist is owed only where its database allows it: the page's rows    *)
(* have it, and have every row before it that the page before counted.     *)
(***************************************************************************)
StillOwed(rows) == {a \in owed \cap rows : \A b \in shown : b < a => b \in rows}

(***************************************************************************)
(* Recovery is over: its locals are gone and the worker task starts.       *)
(***************************************************************************)
StartWorker ==
  /\ worker' = "waiting"
  /\ offset' = 0 /\ found' = 0
  /\ owed' = {} /\ shown' = {}

\* Mutant: a page without a new artist ends the recovery.
RecoverUntilNothingNew(rows) ==
  LET limit == IF Capacity - found < BatchSize THEN Capacity - found ELSE BatchSize
      ids == ListIncompleteArtists(rows, limit, offset)
      total == found + Cardinality(ids \ pending)
  IN
  /\ worker = "recovering"
  /\ recovered' = recovered \cup (ids \ pending)
  /\ pending' = pending \cup ids
  /\ IF ids \subseteq pending \/ total >= Capacity
     THEN StartWorker
     ELSE /\ found' = total
          /\ offset' = offset + Cardinality(ids)
          /\ owed' = StillOwed(rows)
          /\ shown' = rows
          /\ UNCHANGED worker
  /\ UNCHANGED <<depth, queue, closed, job, cancelled>>
  /\ UNCHANGED callers

(***************************************************************************)
(* One turn of the loop: a query and an update of the sets under           *)
(* pending_mu_.  Requests and the other services do not wait for it, so    *)
(* rows may come in between two pages.                                     *)
(***************************************************************************)
RecoverFrom(rows) ==
  LET limit == IF Capacity - found < BatchSize THEN Capacity - found ELSE BatchSize
      ids == ListIncompleteArtists(rows, limit, offset)
      total == found + Cardinality(ids \ pending)
  IN
  /\ worker = "recovering"
  /\ recovered' = recovered \cup (ids \ pending)
  /\ pending' = pending \cup ids
  /\ IF Cardinality(ids) < limit \/ total >= Capacity
     THEN StartWorker
     ELSE /\ found' = total
          /\ offset' = offset + Cardinality(ids)
          /\ owed' = StillOwed(rows)
          /\ shown' = rows
          /\ UNCHANGED worker
  /\ UNCHANGED <<depth, queue, closed, job, cancelled>>
  /\ UNCHANGED callers

RecoverPage == \E rows \in RowsRead : RecoverFrom(rows)

(***************************************************************************)
(* OnAllComponentsLoaded goes on with what was recovered so far.           *)
(***************************************************************************)
RecoverFails ==
  /\ "store" \in Faults
  /\ worker = "recovering"
  /\ StartWorker
  /\ UNCHANGED <<depth, queue, closed, pending, recovered, job, cancelled>>
  /\ UNCHANGED callers

-----------------------------------------------------------------------------
(* WorkerLoop *)

Work(label) == worker' = label

BlockingPop ==
  /\ worker = "waiting"
  /\ queue # <<>>
  /\ job' = Head(queue)
  /\ queue' = Tail(queue)
  /\ Work("checking")
  /\ UNCHANGED <<depth, closed, pending, recovered, cancelled>>
  /\ UNCHANGED recovery /\ UNCHANGED callers

\* Mutant: the worker leaves as soon as the queue is closed.
ExitWhenClosed ==
  /\ worker = "waiting"
  /\ closed
  /\ Work("stopped")
  /\ UNCHANGED <<depth, queue, closed, pending, recovered, job, cancelled>>
  /\ UNCHANGED recovery /\ UNCHANGED callers

Exit ==
  /\ worker = "waiting"
  /\ closed /\ queue = <<>>
  /\ Work("stopped")
  /\ UNCHANGED <<depth, queue, closed, pending, recovered, job, cancelled>>
  /\ UNCHANGED recovery /\ UNCHANGED callers

(***************************************************************************)
(* The second look at the depth, and the cancellation point before the     *)
(* scan, which unwinds the task with the job in hand.  GetFetchDepth and   *)
(* Lookup are outside the try block: what they throw ends the task.        *)
(***************************************************************************)
CheckDepth ==
  /\ worker = "checking"
  /\ \/ \E d \in GetFetchDepth(job) :
          Work(IF d = Full THEN "settling" ELSE IF cancelled THEN "stopped" ELSE "fetching")
     \/ "store" \in Faults /\ Work("crashed")
  /\ UNCHANGED <<depth, queue, closed, pending, recovered, job, cancelled>>
  /\ UNCHANGED recovery /\ UNCHANGED callers

(***************************************************************************)
(* The scan brings songs ("writing"), nothing or an error ("settling"), or *)
(* finds the breaker of the gateway open ("backoff").                      *)
(***************************************************************************)
GetArtistSongs ==
  /\ worker = "fetching"
  /\ \E result \in {"writing", "settling", "backoff"} : Work(result)
  /\ UNCHANGED <<depth, queue, closed, pending, recovered, job, cancelled>>
  /\ UNCHANGED recovery /\ UNCHANGED callers

(***************************************************************************)
(* One transaction; its exceptions are caught.                             *)
(***************************************************************************)
WriteThrough ==
  /\ worker = "writing"
  /\ \/ depth' = [depth EXCEPT ![job] = Full]
     \/ "store" \in Faults /\ UNCHANGED depth
  /\ Work("settling")
  /\ UNCHANGED <<queue, closed, pending, recovered, job, cancelled>>
  /\ UNCHANGED recovery /\ UNCHANGED callers

\* Mutant: a job that cannot be queued again stays pending.
RequeueOrForget ==
  /\ worker = "backoff"
  /\ IF job \in pending THEN TryPush(job) ELSE UNCHANGED queue
  /\ job' = NoArtist
  /\ Work("waiting")
  /\ UNCHANGED <<depth, closed, pending, recovered, cancelled>>
  /\ UNCHANGED recovery /\ UNCHANGED callers

(***************************************************************************)
(* After the sleep, under pending_mu_.                                     *)
(***************************************************************************)
RequeueJob ==
  /\ worker = "backoff"
  /\ IF job \in pending
     THEN TryPush(job) /\ pending' = IF CanPush THEN pending ELSE pending \ {job}
     ELSE UNCHANGED <<queue, pending>>
  /\ job' = NoArtist
  /\ Work("waiting")
  /\ UNCHANGED <<depth, closed, recovered, cancelled>>
  /\ UNCHANGED recovery /\ UNCHANGED callers

SettleJob ==
  /\ worker = "settling"
  /\ pending' = pending \ {job}
  /\ job' = NoArtist
  /\ Work("waiting")
  /\ UNCHANGED <<depth, queue, closed, recovered, cancelled>>
  /\ UNCHANGED recovery /\ UNCHANGED callers

-----------------------------------------------------------------------------
(* The life of the process *)

(***************************************************************************)
(* ~EnrichmentWorker closes the queue; the enqueue handler, which uses the *)
(* worker, is gone by then.                                                *)
(***************************************************************************)
Close ==
  /\ worker # "recovering"
  /\ ~closed
  /\ \A c \in Caller : call[c] = "idle"
  /\ closed' = TRUE
  /\ UNCHANGED <<depth, queue, pending, recovered, worker, job, cancelled>>
  /\ UNCHANGED recovery /\ UNCHANGED callers

DrainTimeout ==
  /\ "slow" \in Faults
  /\ closed /\ ~cancelled
  /\ worker \notin {"stopped", "crashed"}
  /\ cancelled' = TRUE
  /\ UNCHANGED <<depth, queue, closed, pending, recovered, worker, job>>
  /\ UNCHANGED recovery /\ UNCHANGED callers

(***************************************************************************)
(* The next process.                                                       *)
(***************************************************************************)
Restart ==
  /\ \/ closed /\ worker \in {"stopped", "crashed"}
     \/ "kill" \in Faults
  /\ queue' = <<>>
  /\ closed' = FALSE
  /\ pending' = {}
  /\ recovered' = {}
  /\ worker' = "recovering"
  /\ job' = NoArtist
  /\ cancelled' = FALSE
  /\ offset' = 0
  /\ found' = 0
  /\ call' = [c \in Caller |-> "idle"]
  /\ ref' = [c \in Caller |-> NoArtist]
  /\ owed' = Incomplete
  /\ shown' = {}
  /\ UNCHANGED depth

-----------------------------------------------------------------------------
(* The other writers of fetch_state *)

(***************************************************************************)
(* A foreground fetch of the six-feat service (CollabService::FetchFg).    *)
(***************************************************************************)
WriteForeground(a) ==
  /\ depth[a] = None
  /\ depth' = [depth EXCEPT ![a] = Foreground]
  /\ UNCHANGED <<queue, closed, pending, recovered, worker, job, cancelled>>
  /\ UNCHANGED recovery /\ UNCHANGED callers

(***************************************************************************)
(* PruneTask deletes a stale artist; its first pass comes one interval     *)
(* after the start, when recovery is over.                                 *)
(***************************************************************************)
PruneStaleArtist(a) ==
  /\ worker # "recovering"
  /\ depth[a] # None
  /\ depth' = [depth EXCEPT ![a] = None]
  /\ UNCHANGED <<queue, closed, pending, recovered, worker, job, cancelled>>
  /\ UNCHANGED recovery /\ UNCHANGED callers

-----------------------------------------------------------------------------

Enqueue(c) == ClaimPending(c) \/ PushJob(c) \/ DropRefused(c)

Recover == RecoverPage \/ RecoverFails

WorkerLoop ==
  \/ BlockingPop \/ Exit \/ CheckDepth \/ GetArtistSongs
  \/ WriteThrough \/ RequeueJob \/ SettleJob

Next ==
  \/ \E c \in Caller : Enqueue(c) \/ \E a \in Artist : EnqueueIfNeeded(c, a)
  \/ Recover \/ WorkerLoop
  \/ Close \/ DrainTimeout \/ Restart
  \/ \E a \in Artist : WriteForeground(a) \/ PruneStaleArtist(a)

Spec == Init /\ [][Next]_vars

(***************************************************************************)
(* Tasks that can run do, and every scan ends: the HTTP client has a       *)
(* timeout and the 503 sleep is 30 s.  Nothing is assumed of the outcome:  *)
(* the breaker may be open for ever.                                       *)
(***************************************************************************)
FairSpec ==
  /\ Spec
  /\ WF_vars(Recover)
  /\ WF_vars(WorkerLoop)
  /\ \A c \in Caller : WF_vars(Enqueue(c))

-----------------------------------------------------------------------------
(* Properties *)

TypeOK ==
  /\ depth \in [Artist -> Depth]
  /\ queue \in Seq(Artist)
  /\ Len(queue) <= Capacity
  /\ closed \in BOOLEAN
  /\ pending \subseteq Artist
  /\ recovered \subseteq Artist
  /\ worker \in WorkerPC
  /\ job \in Artist \cup {NoArtist}
  /\ worker \in {"checking", "fetching", "writing", "backoff", "settling"} => job \in Artist
  /\ worker \in {"recovering", "waiting"} => job = NoArtist
  /\ cancelled \in BOOLEAN
  /\ offset \in Nat
  /\ found \in Nat
  /\ call \in [Caller -> CallPC]
  /\ ref \in [Caller -> Artist \cup {NoArtist}]
  /\ \A c \in Caller : call[c] # "idle" => ref[c] \in Artist
  /\ owed \subseteq Artist
  /\ shown \subseteq Artist

Holding == {c \in Caller : call[c] \in {"pushing", "refused"}}

Claimed == {ref[c] : c \in Holding}

(***************************************************************************)
(* IsPending tells the truth: an artist is reported as being enriched      *)
(* exactly while it waits for a token, is in the queue, is scanned, or is  *)
(* on its way into the queue, although pending_ and queue_ are never       *)
(* updated under one lock (EnqueueIfNeeded, WorkerLoop).                   *)
(***************************************************************************)
PendingIsAccountedFor == pending = recovered \cup Queued \cup InWork \cup Claimed

(***************************************************************************)
(* An artist has at most one job at a time, in the queue, with the worker  *)
(* or with a caller, however the claims, the re-queueing after 503 and the *)
(* recovery interleave: no scan is paid for twice at once.                 *)
(***************************************************************************)
OneJobPerArtist ==
  /\ \A i, j \in DOMAIN queue : queue[i] = queue[j] => i = j
  /\ \A c, d \in Holding : ref[c] = ref[d] => c = d
  /\ Queued \cap InWork = {}
  /\ Queued \cap Claimed = {}
  /\ InWork \cap Claimed = {}
  /\ recovered \cap (Queued \cup InWork \cup Claimed) = {}

(***************************************************************************)
(* The page ends a recovery that neither failed nor used up the capacity,  *)
(* and found room in the queue: claims that a full queue refuses are       *)
(* dropped, those of recovered artists included.                           *)
(***************************************************************************)
RecoveredWithRoom(rows) ==
  /\ RecoverFrom(rows)
  /\ worker' = "waiting"
  /\ found + Cardinality(pending' \ pending) < Capacity
  /\ Len(queue) < Capacity

(***************************************************************************)
(* Recovery misses no artist that was incomplete when it began, unless the *)
(* capacity is used up: rows that come up between two pages, added by a    *)
(* foreground fetch or by a replica that catches up, shift the pages but   *)
(* skip nothing.  Only a replica can hide an artist, by lacking its row or *)
(* by dropping one that an earlier page counted (RecoverPendingArtists).   *)
(***************************************************************************)
RecoveryIsComplete ==
  [][\A rows \in RowsRead :
       RecoveredWithRoom(rows) => StillOwed(rows) \subseteq pending']_vars

(***************************************************************************)
(* A queued artist is scanned or found complete: the drain at shutdown     *)
(* reaches every job unless it takes too long, and an artist that keeps    *)
(* finding the breaker open does not keep the others waiting               *)
(* (WorkerLoop, ~EnrichmentWorker).                                        *)
(***************************************************************************)
QueuedIsTried ==
  \A a \in Artist : a \in Queued ~> job = a \/ cancelled \/ worker = "crashed"

(***************************************************************************)
(* Shutdown ends: the worker does not take up for ever the jobs it puts    *)
(* back itself (TryPush, Close).                                           *)
(***************************************************************************)
ShutdownEnds == closed ~> worker \in {"stopped", "crashed"}

(***************************************************************************)
(* The worker implements EnrichmentJobs: seen from outside, queue, callers *)
(* and recovery are one set of wanted artists, and an artist becomes Full  *)
(* only while it is the one that is scanned.                               *)
(***************************************************************************)
Jobs == INSTANCE EnrichmentJobs WITH
  wanted   <- pending \ InWork,
  scanned  <- job,
  complete <- {a \in Artist : depth[a] = Full}

ImplementsJobs == Jobs!Spec

=============================================================================

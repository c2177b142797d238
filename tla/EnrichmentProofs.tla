-------------------------- MODULE EnrichmentProofs --------------------------
(***************************************************************************)
(* Proofs about the enrichment service.  First the worker's bookkeeping of *)
(* pending artists, for every set of artists and callers, every capacity   *)
(* and page size, and every combination of faults, with the recovery that  *)
(* fills them at the start; then the retry queue of its client, for any    *)
(* number of requests and any capacity; then what its readers are told,    *)
(* for any number of streams and polls, any life of a cache entry and any  *)
(* time-out of a request.                                                  *)
(*                                                                         *)
(* PendingIsAccountedFor and OneJobPerArtist are inductive only together:  *)
(* removing an artist from pending_ is right because it has no other job,  *)
(* and adding a job is right because an artist that has one is pending.    *)
(***************************************************************************)
EXTENDS EnrichmentWorker, EnrichmentRetry, EnrichmentStatus, FiniteSetTheorems, TLAPS

-----------------------------------------------------------------------------
(* Queues *)

LEMMA AppendedElements ==
  ASSUME NEW q \in Seq(Artist), NEW a \in Artist
  PROVE  /\ Append(q, a) \in Seq(Artist)
         /\ Len(Append(q, a)) = Len(q) + 1
         /\ DOMAIN Append(q, a) = 1..(Len(q) + 1)
         /\ {Append(q, a)[i] : i \in DOMAIN Append(q, a)} = {q[i] : i \in DOMAIN q} \cup {a}
         /\ \A i \in 1..(Len(q) + 1) : Append(q, a)[i] = IF i <= Len(q) THEN q[i] ELSE a
<1>1. Append(q, a) \in Seq(Artist) /\ Len(Append(q, a)) = Len(q) + 1
  OBVIOUS
<1>2. DOMAIN Append(q, a) = 1..(Len(q) + 1) /\ DOMAIN q = 1..Len(q) /\ Len(q) \in Nat
  BY <1>1
<1>3. \A i \in 1..(Len(q) + 1) : Append(q, a)[i] = IF i <= Len(q) THEN q[i] ELSE a
  BY <1>2
<1>4. ASSUME NEW x, x \in {q[i] : i \in DOMAIN q} \cup {a}
      PROVE  \E i \in 1..(Len(q) + 1) : Append(q, a)[i] = x
  <2>1. CASE x = a
    <3>1. Len(q) + 1 \in 1..(Len(q) + 1) /\ ~(Len(q) + 1 <= Len(q))
      BY <1>2
    <3> QED BY <3>1, <1>3, <2>1
  <2>2. ASSUME NEW i \in 1..Len(q), x = q[i]
        PROVE  \E k \in 1..(Len(q) + 1) : Append(q, a)[k] = x
    <3>1. i \in 1..(Len(q) + 1) /\ i <= Len(q)
      BY <1>2
    <3> QED BY <3>1, <1>3, <2>2
  <2> QED BY <1>2, <1>4, <2>1, <2>2
<1>5. ASSUME NEW i \in 1..(Len(q) + 1)
      PROVE  Append(q, a)[i] \in {q[j] : j \in DOMAIN q} \cup {a}
  BY <1>2, <1>3
<1> QED BY <1>1, <1>2, <1>3, <1>4, <1>5

LEMMA AppendedStayDistinct ==
  ASSUME NEW q \in Seq(Artist), NEW a \in Artist, a \notin {q[i] : i \in DOMAIN q},
         \A i, j \in DOMAIN q : q[i] = q[j] => i = j
  PROVE  \A i, j \in DOMAIN Append(q, a) : Append(q, a)[i] = Append(q, a)[j] => i = j
<1> DEFINE r == Append(q, a)
<1>1. /\ DOMAIN r = 1..(Len(q) + 1)
      /\ DOMAIN q = 1..Len(q)
      /\ \A i \in 1..(Len(q) + 1) : r[i] = IF i <= Len(q) THEN q[i] ELSE a
      /\ Len(q) \in Nat
  BY AppendedElements
<1>2. \A i \in 1..Len(q) : q[i] # a
  BY <1>1
<1> HIDE DEF r
<1>3. ASSUME NEW i \in 1..(Len(q) + 1), NEW j \in 1..(Len(q) + 1), r[i] = r[j]
      PROVE  i = j
  <2>1. CASE i <= Len(q) /\ j <= Len(q)
    <3>1. i \in DOMAIN q /\ j \in DOMAIN q /\ q[i] = q[j]
      BY <1>1, <1>3, <2>1
    <3> QED BY <3>1
  <2>2. CASE ~(i <= Len(q)) /\ ~(j <= Len(q))
    BY <1>1, <2>2
  <2>3. CASE i <= Len(q) /\ ~(j <= Len(q))
    <3>1. i \in 1..Len(q) /\ q[i] = a
      BY <1>1, <1>3, <2>3
    <3> QED BY <3>1, <1>2
  <2>4. CASE ~(i <= Len(q)) /\ j <= Len(q)
    <3>1. j \in 1..Len(q) /\ q[j] = a
      BY <1>1, <1>3, <2>4
    <3> QED BY <3>1, <1>2
  <2> QED BY <2>1, <2>2, <2>3, <2>4
<1>4. \A i, j \in DOMAIN r : r[i] = r[j] => i = j
  BY <1>1, <1>3
<1> QED BY <1>4 DEF r

LEMMA PoppedElements ==
  ASSUME NEW q \in Seq(Artist), q # <<>>,
         \A i, j \in DOMAIN q : q[i] = q[j] => i = j
  PROVE  /\ Head(q) \in Artist
         /\ Tail(q) \in Seq(Artist)
         /\ Len(Tail(q)) = Len(q) - 1
         /\ Head(q) \in {q[i] : i \in DOMAIN q}
         /\ {Tail(q)[i] : i \in DOMAIN Tail(q)} = {q[i] : i \in DOMAIN q} \ {Head(q)}
         /\ \A i, j \in DOMAIN Tail(q) : Tail(q)[i] = Tail(q)[j] => i = j
<1>1. /\ Len(q) \in Nat /\ Len(q) > 0
      /\ Head(q) = q[1] /\ DOMAIN q = 1..Len(q)
  OBVIOUS
<1>2. /\ Tail(q) \in Seq(Artist) /\ Len(Tail(q)) = Len(q) - 1
      /\ DOMAIN Tail(q) = 1..(Len(q) - 1)
      /\ \A i \in 1..(Len(q) - 1) : Tail(q)[i] = q[i + 1]
  BY <1>1
<1>3. ASSUME NEW i \in 2..Len(q)
      PROVE  q[i] \in {Tail(q)[k] : k \in DOMAIN Tail(q)} /\ q[i] # Head(q)
  <2>1. i - 1 \in DOMAIN Tail(q) /\ (i - 1) + 1 = i
    BY <1>1, <1>2
  <2>2. q[i] = Tail(q)[i - 1]
    BY <2>1, <1>2
  <2>3. i \in DOMAIN q /\ 1 \in DOMAIN q /\ i # 1
    BY <1>1
  <2>4. q[i] # q[1]
    BY <2>3
  <2> QED BY <2>1, <2>2, <2>4, <1>1
<1>4. ASSUME NEW k \in DOMAIN Tail(q)
      PROVE  Tail(q)[k] \in {q[i] : i \in DOMAIN q} \ {Head(q)}
  <2>1. k + 1 \in 1..Len(q) /\ k + 1 # 1 /\ 1 \in 1..Len(q)
    BY <1>1, <1>2
  <2> QED BY <2>1, <1>1, <1>2
<1>5. {Tail(q)[i] : i \in DOMAIN Tail(q)} = {q[i] : i \in DOMAIN q} \ {Head(q)}
  <2>1. ASSUME NEW i \in DOMAIN q, q[i] # Head(q)
        PROVE  q[i] \in {Tail(q)[k] : k \in DOMAIN Tail(q)}
    <3>1. i \in 2..Len(q)
      BY <2>1, <1>1
    <3> QED BY <3>1, <1>3
  <2> QED BY <2>1, <1>4
<1>6. \A i, j \in DOMAIN Tail(q) : Tail(q)[i] = Tail(q)[j] => i = j
  <2> SUFFICES ASSUME NEW i \in DOMAIN Tail(q), NEW j \in DOMAIN Tail(q),
                      Tail(q)[i] = Tail(q)[j]
               PROVE  i = j
    OBVIOUS
  <2>1. i + 1 \in DOMAIN q /\ j + 1 \in DOMAIN q /\ i \in Int /\ j \in Int
    BY <1>1, <1>2
  <2>2. q[i + 1] = q[j + 1]
    BY <1>2
  <2>3. i + 1 = j + 1
    BY <2>1, <2>2
  <2> QED BY <2>1, <2>3
<1> QED BY <1>1, <1>2, <1>5, <1>6, SMTT(30)

-----------------------------------------------------------------------------
(* Types *)

LEMMA RowsAreArtists ==
  ASSUME NEW rows \in RowsRead
  PROVE  rows \subseteq Artist
BY DEF RowsRead, Incomplete

LEMMA PageIsFinite ==
  ASSUME NEW rows \in SUBSET Artist, NEW limit \in Int, NEW from \in Int
  PROVE  LET ids == ListIncompleteArtists(rows, limit, from) IN
         /\ ids \subseteq Artist
         /\ Cardinality(ids) \in Nat
         /\ Cardinality(ids \ pending) \in Nat
<1> DEFINE ids == ListIncompleteArtists(rows, limit, from)
<1>1. ids \in SUBSET Artist /\ ids \ pending \in SUBSET Artist
  BY DEF ListIncompleteArtists
<1>2. IsFiniteSet(ids) /\ IsFiniteSet(ids \ pending)
  BY <1>1, WorkerAssumption, FS_Subset DEF WorkerAssumption
<1> QED
  BY <1>1, <1>2, FS_CardinalityType

LEMMA QueuedAreArtists ==
  ASSUME queue \in Seq(Artist)
  PROVE  Queued \subseteq Artist
BY DEF Queued

(***************************************************************************)
(* The queue respects its capacity and the worker has a job exactly where  *)
(* its code uses one.                                                      *)
(***************************************************************************)
THEOREM TypeCorrect == Spec => []TypeOK
<1> USE DEF Depth, None, Foreground, Full, WorkerPC, CallPC
<1>1. Init => TypeOK
  <2> SUFFICES ASSUME Init
               PROVE  TypeOK
    OBVIOUS
  <2>1. closed \in BOOLEAN /\ cancelled \in BOOLEAN
    BY Zenon DEF Init, InitWith
  <2>2. queue \in Seq(Artist) /\ Len(queue) <= Capacity
    BY WorkerAssumption DEF Init, InitWith, WorkerAssumption
  <2> QED
    BY <2>1, <2>2 DEF Init, InitWith, TypeOK, Incomplete
<1>2. TypeOK /\ [Next]_vars => TypeOK'
  <2> SUFFICES ASSUME TypeOK, [Next]_vars
               PROVE  TypeOK'
    OBVIOUS
  <2> USE DEF TypeOK, callers, recovery
  <2>1. ASSUME NEW c \in Caller, NEW a \in Artist, EnqueueIfNeeded(c, a)
        PROVE  TypeOK'
    BY <2>1 DEF EnqueueIfNeeded, Call
  <2>2. ASSUME NEW c \in Caller, ClaimPending(c) \/ DropRefused(c)
        PROVE  TypeOK'
    BY <2>2 DEF ClaimPending, DropRefused, Call
  <2>3. ASSUME NEW c \in Caller, PushJob(c)
        PROVE  TypeOK'
    <3>1. queue' \in Seq(Artist) /\ Len(queue') <= Capacity
      <4>1. ref[c] \in Artist
        BY <2>3 DEF PushJob
      <4>2. Append(queue, ref[c]) \in Seq(Artist) /\ Len(Append(queue, ref[c])) = Len(queue) + 1
        BY <4>1, AppendedElements
      <4> QED
        BY <2>3, <4>2, WorkerAssumption DEF PushJob, TryPush, CanPush, WorkerAssumption
    <3> QED
      BY <2>3, <3>1 DEF PushJob, Call
  <2>4. ASSUME NEW rows \in RowsRead, RecoverFrom(rows)
        PROVE  TypeOK'
    <3> DEFINE limit == IF Capacity - found < BatchSize THEN Capacity - found ELSE BatchSize
               ids == ListIncompleteArtists(rows, limit, offset)
    <3>1. limit \in Int /\ offset \in Int /\ rows \in SUBSET Artist
      BY WorkerAssumption, RowsAreArtists DEF WorkerAssumption
    <3>2. ids \subseteq Artist /\ Cardinality(ids) \in Nat /\ Cardinality(ids \ pending) \in Nat
      BY <3>1, PageIsFinite
    <3>3. /\ recovered' = recovered \cup (ids \ pending)
          /\ pending' = pending \cup ids
          /\ \/ StartWorker
             \/ /\ found' = found + Cardinality(ids \ pending)
                /\ offset' = offset + Cardinality(ids)
                /\ owed' = StillOwed(rows) /\ shown' = rows
                /\ UNCHANGED worker
          /\ UNCHANGED <<depth, queue, closed, job, cancelled, call, ref>>
          /\ worker = "recovering"
      BY <2>4 DEF RecoverFrom
    <3>4. StillOwed(rows) \subseteq Artist
      BY DEF StillOwed
    <3> HIDE DEF ids
    <3>5. shown' \subseteq Artist /\ owed' \subseteq Artist
      BY <3>1, <3>3, <3>4 DEF StartWorker
    <3>6. offset' \in Nat /\ found' \in Nat
      BY <3>2, <3>3 DEF StartWorker
    <3>7. worker' \in {"recovering", "waiting"} /\ job' = NoArtist
      BY <3>3 DEF StartWorker
    <3> QED
      BY <3>2, <3>3, <3>5, <3>6, <3>7
  <2>5. CASE RecoverFails
    BY <2>5 DEF RecoverFails, StartWorker
  <2>6. CASE BlockingPop
    <3>1. /\ queue' \in Seq(Artist) /\ Len(queue') <= Capacity
          /\ job' \in Artist
      BY <2>6, WorkerAssumption DEF BlockingPop, WorkerAssumption
    <3> QED
      BY <2>6, <3>1 DEF BlockingPop, Work
  <2>7. CASE Exit \/ CheckDepth \/ GetArtistSongs
    BY <2>7 DEF Exit, CheckDepth, GetArtistSongs, Work
  <2>8. CASE WriteThrough \/ SettleJob
    BY <2>8 DEF WriteThrough, SettleJob, Work
  <2>9. CASE RequeueJob
    <3>1. queue' \in Seq(Artist) /\ Len(queue') <= Capacity
      <4>1. job \in Artist
        BY <2>9 DEF RequeueJob
      <4>2. Append(queue, job) \in Seq(Artist) /\ Len(Append(queue, job)) = Len(queue) + 1
        BY <4>1, AppendedElements
      <4> QED
        BY <2>9, <4>2, WorkerAssumption DEF RequeueJob, TryPush, CanPush, WorkerAssumption
    <3> QED
      BY <2>9, <3>1 DEF RequeueJob, Work
  <2>10. CASE Close \/ DrainTimeout
    <3>1. closed' \in BOOLEAN /\ cancelled' \in BOOLEAN
      BY <2>10, Zenon DEF Close, DrainTimeout
    <3> QED
      BY <2>10, <3>1 DEF Close, DrainTimeout
  <2>11. CASE Restart
    <3>1. closed' \in BOOLEAN /\ cancelled' \in BOOLEAN
      BY <2>11, Zenon DEF Restart
    <3>2. queue' \in Seq(Artist) /\ Len(queue') <= Capacity
      BY <2>11, WorkerAssumption DEF Restart, WorkerAssumption
    <3>3. shown' \subseteq Artist /\ owed' \subseteq Artist
      BY <2>11 DEF Restart, Incomplete
    <3> QED
      BY <2>11, <3>1, <3>2, <3>3 DEF Restart
  <2>12. ASSUME NEW a \in Artist, WriteForeground(a) \/ PruneStaleArtist(a)
         PROVE  TypeOK'
    BY <2>12 DEF WriteForeground, PruneStaleArtist
  <2>13. CASE UNCHANGED vars
    BY <2>13 DEF vars
  <2> QED
    BY <2>1, <2>2, <2>3, <2>4, <2>5, <2>6, <2>7, <2>8, <2>9, <2>10, <2>11, <2>12, <2>13
    DEF Next, Enqueue, Recover, RecoverPage, WorkerLoop
<1> QED BY <1>1, <1>2, PTL DEF Spec

-----------------------------------------------------------------------------
(* The callers *)

LEMMA HoldingStays ==
  ASSUME TypeOK, NEW c \in Caller,
         \/ call[c] \notin {"pushing", "refused"} /\ Call(c, "checked") /\ (\E a : ref' = [ref EXCEPT ![c] = a])
         \/ call[c] \notin {"pushing", "refused"} /\ Call(c, "idle") /\ ref' = ref
         \/ call[c] = "pushing" /\ Call(c, "refused") /\ ref' = ref
  PROVE  /\ Holding' = Holding
         /\ Claimed' = Claimed
         /\ \A d \in Holding : ref'[d] = ref[d]
<1>1. Holding' = Holding
  BY DEF TypeOK, Call, Holding
<1>2. \A d \in Holding : ref'[d] = ref[d]
  BY DEF TypeOK, Call, Holding
<1> QED
  BY <1>1, <1>2 DEF Claimed

LEMMA HoldingEnds ==
  ASSUME TypeOK, OneJobPerArtist, NEW c \in Holding, Call(c, "idle"), ref' = ref
  PROVE  /\ Holding' = Holding \ {c}
         /\ Claimed' = Claimed \ {ref[c]}
<1>1. Holding' = Holding \ {c}
  BY DEF TypeOK, Call, Holding
<1>2. \A d \in Holding : ref[d] = ref[c] => d = c
  BY DEF OneJobPerArtist
<1> QED
  BY <1>1, <1>2 DEF Claimed

-----------------------------------------------------------------------------
(* The books *)

Books == PendingIsAccountedFor /\ OneJobPerArtist

(***************************************************************************)
(* A step that moves none of the pieces keeps the books.                   *)
(***************************************************************************)
LEMMA BooksStay ==
  ASSUME Books, queue' = queue, pending' = pending, recovered' = recovered, job' = job,
         Holding' = Holding, Claimed' = Claimed, \A d \in Holding : ref'[d] = ref[d]
  PROVE  Books'
<1>1. Queued' = Queued /\ InWork' = InWork
  BY DEF Queued, InWork
<1> QED
  BY <1>1 DEF Books, PendingIsAccountedFor, OneJobPerArtist

LEMMA EnqueueKeepsBooks ==
  ASSUME TypeOK, Books, NEW c \in Caller, Enqueue(c)
  PROVE  Books'
<1> USE DEF Books, PendingIsAccountedFor, OneJobPerArtist
<1>1. CASE ClaimPending(c) /\ ref[c] \in pending \ recovered
  <2>1. /\ Holding' = Holding /\ Claimed' = Claimed
        /\ \A d \in Holding : ref'[d] = ref[d]
    BY <1>1, HoldingStays DEF ClaimPending
  <2> QED
    BY <1>1, <2>1, BooksStay DEF ClaimPending
<1>2. CASE ClaimPending(c) /\ ref[c] \notin pending \ recovered
  <2>1. /\ pending' = pending \cup {ref[c]}
        /\ recovered' = recovered \ {ref[c]}
        /\ Call(c, "pushing") /\ call[c] = "checked"
        /\ ref' = ref /\ queue' = queue /\ job' = job
    BY <1>2 DEF ClaimPending
  <2>2. Holding' = Holding \cup {c} /\ c \notin Holding
    BY <2>1 DEF TypeOK, Call, Holding
  <2>3. Claimed' = Claimed \cup {ref[c]}
    BY <2>1, <2>2 DEF Claimed
  <2>4. Queued' = Queued /\ InWork' = InWork
    BY <2>1 DEF Queued, InWork
  <2>5. ref[c] \notin Queued \cup InWork \cup Claimed
    BY <1>2
  <2>6. \A d \in Holding : ref[d] # ref[c]
    BY <2>5 DEF Claimed
  <2> QED
    BY <2>1, <2>2, <2>3, <2>4, <2>5, <2>6
<1>3. CASE PushJob(c) /\ CanPush
  <2>1. /\ queue' = Append(queue, ref[c])
        /\ Call(c, "idle") /\ c \in Holding /\ ref[c] \in Artist
        /\ ref' = ref /\ pending' = pending /\ recovered' = recovered /\ job' = job
    BY <1>3 DEF PushJob, TryPush, TypeOK, Holding
  <2>2. Holding' = Holding \ {c} /\ Claimed' = Claimed \ {ref[c]}
    BY <2>1, HoldingEnds
  <2>3. InWork' = InWork
    BY <2>1 DEF InWork
  <2>4. ref[c] \in Claimed /\ ref[c] \notin Queued
    BY <2>1 DEF Claimed
  <2>5. Queued' = Queued \cup {ref[c]}
    BY <2>1, AppendedElements, SMTT(30) DEF Queued, TypeOK
  <2>6. \A i, j \in DOMAIN queue' : queue'[i] = queue'[j] => i = j
    BY <2>1, <2>4, AppendedStayDistinct DEF Queued, TypeOK
  <2> QED
    BY <2>1, <2>2, <2>3, <2>4, <2>5, <2>6
<1>4. CASE PushJob(c) /\ ~CanPush
  <2>1. /\ Holding' = Holding /\ Claimed' = Claimed
        /\ \A d \in Holding : ref'[d] = ref[d]
    BY <1>4, HoldingStays DEF PushJob
  <2> QED
    BY <1>4, <2>1, BooksStay DEF PushJob, TryPush
<1>5. CASE DropRefused(c)
  <2>1. /\ pending' = pending \ {ref[c]}
        /\ Call(c, "idle") /\ c \in Holding
        /\ ref' = ref /\ queue' = queue /\ recovered' = recovered /\ job' = job
    BY <1>5 DEF DropRefused, Holding
  <2>2. Holding' = Holding \ {c} /\ Claimed' = Claimed \ {ref[c]}
    BY <2>1, HoldingEnds
  <2>3. Queued' = Queued /\ InWork' = InWork
    BY <2>1 DEF Queued, InWork
  <2>4. ref[c] \in Claimed
    BY <2>1 DEF Claimed
  <2> QED
    BY <2>1, <2>2, <2>3, <2>4
<1> QED
  BY <1>1, <1>2, <1>3, <1>4, <1>5 DEF Enqueue

LEMMA RecoverKeepsBooks ==
  ASSUME TypeOK, Books, Recover
  PROVE  Books'
<1> USE DEF Books, PendingIsAccountedFor, OneJobPerArtist
<1>1. ASSUME NEW rows \in RowsRead, RecoverFrom(rows)
      PROVE  Books'
  <2> DEFINE limit == IF Capacity - found < BatchSize THEN Capacity - found ELSE BatchSize
             ids == ListIncompleteArtists(rows, limit, offset)
  <2>1. /\ recovered' = recovered \cup (ids \ pending)
        /\ pending' = pending \cup ids
        /\ queue' = queue /\ job' = job /\ call' = call /\ ref' = ref
    BY <1>1 DEF RecoverFrom, callers
  <2> HIDE DEF ids
  <2>2. Queued' = Queued /\ InWork' = InWork /\ Holding' = Holding /\ Claimed' = Claimed
    BY <2>1 DEF Queued, InWork, Holding, Claimed
  <2> QED
    BY <2>1, <2>2
<1>2. CASE RecoverFails
  <2>1. /\ queue' = queue /\ pending' = pending /\ recovered' = recovered /\ job' = job
        /\ call' = call /\ ref' = ref
    BY <1>2 DEF RecoverFails, callers
  <2> QED
    BY <2>1, BooksStay DEF Holding, Claimed
<1> QED
  BY <1>1, <1>2 DEF Recover, RecoverPage

LEMMA WorkerKeepsBooks ==
  ASSUME TypeOK, Books, WorkerLoop
  PROVE  Books'
<1> USE DEF Books, PendingIsAccountedFor, OneJobPerArtist
<1>1. /\ call' = call /\ ref' = ref
      /\ Holding' = Holding /\ Claimed' = Claimed
  <2>1. call' = call /\ ref' = ref
    BY DEF WorkerLoop, BlockingPop, Exit, CheckDepth, GetArtistSongs, WriteThrough,
           RequeueJob, SettleJob, callers
  <2> QED
    BY <2>1 DEF Holding, Claimed
<1>2. CASE BlockingPop
  <2>1. /\ queue # <<>> /\ queue \in Seq(Artist)
        /\ job = NoArtist /\ job' = Head(queue) /\ queue' = Tail(queue)
        /\ pending' = pending /\ recovered' = recovered
    BY <1>2 DEF BlockingPop, TypeOK
  <2>2. /\ Head(queue) \in Queued /\ Head(queue) \in Artist
        /\ Queued' = Queued \ {Head(queue)}
        /\ \A i, j \in DOMAIN queue' : queue'[i] = queue'[j] => i = j
    <3>1. \A i, j \in DOMAIN queue : queue[i] = queue[j] => i = j
      OBVIOUS
    <3>2. /\ Head(queue) \in Artist
          /\ Head(queue) \in {queue[i] : i \in DOMAIN queue}
          /\ {Tail(queue)[i] : i \in DOMAIN Tail(queue)} = {queue[i] : i \in DOMAIN queue} \ {Head(queue)}
          /\ \A i, j \in DOMAIN Tail(queue) : Tail(queue)[i] = Tail(queue)[j] => i = j
      BY <2>1, <3>1, PoppedElements
    <3>3. Queued' = {Tail(queue)[i] : i \in DOMAIN Tail(queue)}
      BY <2>1 DEF Queued
    <3> QED
      BY <2>1, <3>2, <3>3, Zenon DEF Queued
  <2>3. InWork = {} /\ InWork' = {Head(queue)}
    BY <2>1, <2>2, WorkerAssumption DEF InWork, WorkerAssumption
  <2> QED
    BY <1>1, <2>1, <2>2, <2>3
<1>3. CASE Exit \/ CheckDepth \/ GetArtistSongs \/ WriteThrough
  <2>1. queue' = queue /\ pending' = pending /\ recovered' = recovered /\ job' = job
    BY <1>3 DEF Exit, CheckDepth, GetArtistSongs, WriteThrough
  <2> QED
    BY <1>1, <2>1, BooksStay
<1>4. CASE RequeueJob \/ SettleJob
  <2>1. job \in Artist /\ job' = NoArtist /\ recovered' = recovered
    BY <1>4 DEF RequeueJob, SettleJob, TypeOK
  <2>2. InWork = {job} /\ InWork' = {}
    BY <2>1, WorkerAssumption DEF InWork, WorkerAssumption
  <2>3. job \in pending /\ job \notin Queued
    BY <2>2
  <2>4. CASE queue' = queue /\ pending' = pending \ {job}
    <3>1. Queued' = Queued
      BY <2>4 DEF Queued
    <3> QED
      BY <1>1, <2>1, <2>2, <2>4, <3>1
  <2>5. CASE queue' = Append(queue, job) /\ pending' = pending
    <3>1. Queued' = Queued \cup {job}
      BY <2>1, <2>5, AppendedElements, SMTT(30) DEF TypeOK, Queued
    <3>2. \A i, j \in DOMAIN queue' : queue'[i] = queue'[j] => i = j
      BY <2>1, <2>3, <2>5, AppendedStayDistinct DEF Queued, TypeOK
    <3> QED
      BY <1>1, <2>1, <2>2, <2>3, <2>5, <3>1, <3>2
  <2>6. CASE SettleJob
    BY <2>4, <2>6 DEF SettleJob
  <2>7. CASE RequeueJob
    <3>1. CASE CanPush
      BY <2>3, <2>5, <2>7, <3>1 DEF RequeueJob, TryPush
    <3>2. CASE ~CanPush
      BY <2>3, <2>4, <2>7, <3>2 DEF RequeueJob, TryPush
    <3> QED BY <3>1, <3>2
  <2> QED
    BY <1>4, <2>6, <2>7
<1> QED
  BY <1>2, <1>3, <1>4 DEF WorkerLoop

LEMMA StepKeepsBooks == TypeOK /\ Books /\ [Next]_vars => Books'
<1> SUFFICES ASSUME TypeOK, Books, [Next]_vars
             PROVE  Books'
  OBVIOUS
<1>1. ASSUME NEW c \in Caller, NEW a \in Artist, EnqueueIfNeeded(c, a)
      PROVE  Books'
  <2>1. /\ Holding' = Holding /\ Claimed' = Claimed
        /\ \A d \in Holding : ref'[d] = ref[d]
    BY <1>1, HoldingStays DEF EnqueueIfNeeded
  <2> QED
    BY <1>1, <2>1, BooksStay DEF EnqueueIfNeeded
<1>2. CASE \/ Close \/ DrainTimeout
           \/ \E a \in Artist : WriteForeground(a) \/ PruneStaleArtist(a)
           \/ UNCHANGED vars
  <2>1. /\ queue' = queue /\ pending' = pending /\ recovered' = recovered /\ job' = job
        /\ call' = call /\ ref' = ref
    BY <1>2 DEF Close, DrainTimeout, WriteForeground, PruneStaleArtist, callers, vars
  <2> QED
    BY <2>1, BooksStay DEF Holding, Claimed
<1>3. CASE Restart
  <2>1. /\ queue' = <<>> /\ pending' = {} /\ recovered' = {} /\ job' = NoArtist
        /\ call' = [c \in Caller |-> "idle"]
    BY <1>3 DEF Restart
  <2>2. Queued' = {} /\ InWork' = {} /\ Holding' = {} /\ DOMAIN queue' = {}
    BY <2>1 DEF Queued, InWork, Holding
  <2>3. Claimed' = {}
    BY <2>2 DEF Claimed
  <2> QED
    BY <2>1, <2>2, <2>3 DEF Books, PendingIsAccountedFor, OneJobPerArtist
<1> QED
  BY <1>1, <1>2, <1>3, EnqueueKeepsBooks, RecoverKeepsBooks, WorkerKeepsBooks DEF Next

LEMMA InitBooks == Init => Books
<1> SUFFICES ASSUME Init
             PROVE  Books
  OBVIOUS
<1>1. Queued = {} /\ InWork = {} /\ Holding = {} /\ DOMAIN queue = {}
  BY DEF Init, InitWith, Queued, InWork, Holding
<1>2. Claimed = {}
  BY <1>1 DEF Claimed
<1> QED
  BY <1>1, <1>2 DEF Init, InitWith, Books, PendingIsAccountedFor, OneJobPerArtist

LEMMA BooksInvariant == Spec => []Books
BY TypeCorrect, InitBooks, StepKeepsBooks, PTL DEF Spec

(***************************************************************************)
(* An artist is pending exactly while somebody is responsible for it.      *)
(***************************************************************************)
THEOREM PendingIsAccountedForHolds == Spec => []PendingIsAccountedFor
<1>1. Books => PendingIsAccountedFor
  BY DEF Books
<1> QED BY <1>1, BooksInvariant, PTL

(***************************************************************************)
(* No artist has two jobs at a time.                                       *)
(***************************************************************************)
THEOREM OneJobPerArtistHolds == Spec => []OneJobPerArtist
<1>1. Books => OneJobPerArtist
  BY DEF Books
<1> QED BY <1>1, BooksInvariant, PTL

-----------------------------------------------------------------------------
(* Recovery *)

(***************************************************************************)
(* The position of a row in the query of ListIncompleteArtists.            *)
(***************************************************************************)
Before(rows, a) == Cardinality({b \in rows : b < a})

LEMMA Positions ==
  ASSUME NEW rows \in SUBSET Artist, NEW a \in Artist
  PROVE  /\ IsFiniteSet(rows) /\ Cardinality(rows) \in Nat
         /\ Before(rows, a) \in Nat
         /\ a \in rows => Before(rows, a) < Cardinality(rows)
         /\ \A b \in rows : b < a => Before(rows, b) < Before(rows, a)
<1>1. IsFiniteSet(rows)
  BY WorkerAssumption, FS_Subset DEF WorkerAssumption
<1> DEFINE Lower(b) == {x \in rows : x < b}
<1>2. ASSUME NEW b \in Artist
      PROVE  /\ IsFiniteSet(Lower(b)) /\ Cardinality(Lower(b)) \in Nat
             /\ Cardinality(Lower(b)) <= Cardinality(rows)
             /\ b \in rows => Cardinality(Lower(b)) # Cardinality(rows)
  <2>1. Lower(b) \in SUBSET rows
    OBVIOUS
  <2>2. b \notin Lower(b)
    BY WorkerAssumption DEF WorkerAssumption
  <2>3. b \in rows => Lower(b) # rows
    BY <2>2
  <2> HIDE DEF Lower
  <2>4. IsFiniteSet(Lower(b)) /\ Cardinality(Lower(b)) <= Cardinality(rows)
        /\ (Cardinality(rows) = Cardinality(Lower(b)) => rows = Lower(b))
    BY <1>1, <2>1, FS_Subset
  <2> QED
    BY <2>3, <2>4, FS_CardinalityType
<1>3. Cardinality(rows) \in Nat
  BY <1>1, FS_CardinalityType
<1>4. ASSUME NEW b \in rows, b < a
      PROVE  Before(rows, b) < Before(rows, a)
  <2>1. b \in Artist /\ b \in Nat /\ a \in Nat /\ Artist \subseteq Nat
    BY WorkerAssumption DEF WorkerAssumption
  <2>2. Lower(b) \in SUBSET Lower(a) /\ b \in Lower(a) /\ b \notin Lower(b)
    <3>1. \A x \in rows : (x < b => x < a) /\ ~(b < b)
      BY <1>4, <2>1
    <3>2. Lower(b) \subseteq Lower(a)
      BY <3>1, Zenon
    <3>3. b \in Lower(a)
      BY <1>4
    <3>4. b \notin Lower(b)
      BY <3>1, <1>4
    <3> QED
      BY <3>2, <3>3, <3>4
  <2>3. Before(rows, b) = Cardinality(Lower(b)) /\ Before(rows, a) = Cardinality(Lower(a))
    BY DEF Before
  <2> HIDE DEF Lower
  <2>4. Cardinality(Lower(b)) <= Cardinality(Lower(a)) /\ Cardinality(Lower(a)) # Cardinality(Lower(b))
    BY <1>2, <2>1, <2>2, FS_Subset
  <2> QED
    BY <1>2, <2>1, <2>3, <2>4
<1>5. Before(rows, a) = Cardinality(Lower(a))
  BY DEF Before
<1> HIDE DEF Lower
<1> QED
  BY <1>1, <1>2, <1>3, <1>4, <1>5

(***************************************************************************)
(* A page has as many rows as it was asked for, unless it is the last.     *)
(***************************************************************************)
LEMMA PageIs ==
  ASSUME NEW rows \in SUBSET Artist, NEW limit \in Nat, NEW from \in Nat
  PROVE  LET ids == ListIncompleteArtists(rows, limit, from) IN
         /\ Cardinality(ids) \in Nat /\ Cardinality(ids) <= limit
         /\ \A a \in rows :
              Before(rows, a) >= from + limit => Cardinality(ids) = limit
<1> DEFINE ids == ListIncompleteArtists(rows, limit, from)
           T == from..(from + limit - 1)
           place == [a \in ids |-> Before(rows, a)]
<1>1. rows \subseteq Artist /\ Artist \subseteq Nat
  BY WorkerAssumption DEF WorkerAssumption
<1>2. ids = {a \in rows : Before(rows, a) \in T}
  <2>1. \A a \in rows : Before(rows, a) \in Nat
    BY <1>1, Positions
  <2>2. ids = {a \in rows : from <= Before(rows, a) /\ Before(rows, a) < from + limit}
    BY DEF ListIncompleteArtists, Before
  <2> QED
    BY <2>1, <2>2
<1>3. IsFiniteSet(T) /\ Cardinality(T) = limit
  BY FS_Interval
<1> HIDE DEF ids
<1>4. \A a, b \in rows : Before(rows, a) = Before(rows, b) => a = b
  <2> SUFFICES ASSUME NEW a \in rows, NEW b \in rows, Before(rows, a) = Before(rows, b)
               PROVE  a = b
    OBVIOUS
  <2>1. a \in Nat /\ b \in Nat /\ Before(rows, a) \in Nat /\ Before(rows, b) \in Nat
    BY <1>1, Positions
  <2>2. ~(a < b) /\ ~(b < a)
    BY <1>1, <2>1, Positions
  <2> QED
    BY <2>1, <2>2
<1>5. place \in Injection(ids, T)
  <2>1. place \in [ids -> T]
    BY <1>2
  <2>2. \A a, b \in ids : place[a] = place[b] => a = b
    BY <1>2, <1>4
  <2> QED
    BY <2>1, <2>2 DEF Injection, IsInjective
<1>6. IsFiniteSet(ids) /\ Cardinality(ids) <= limit
  BY <1>3, <1>5, FS_Injection
<1>7. Cardinality(ids) \in Nat
  BY <1>6, FS_CardinalityType
<1>8. ASSUME NEW a \in rows, Before(rows, a) >= from + limit
      PROVE  Cardinality(ids) = limit
  <2> DEFINE whole == [b \in rows |-> Before(rows, b)]
             W == 0..(Cardinality(rows) - 1)
  <2>1. /\ IsFiniteSet(rows) /\ Cardinality(rows) \in Nat
        /\ \A b \in rows : Before(rows, b) \in W
        /\ Before(rows, a) \in Nat /\ Before(rows, a) < Cardinality(rows)
    BY <1>1, Positions
  <2>2. whole \in Injection(rows, W)
    BY <1>4, <2>1 DEF Injection, IsInjective
  <2>3. IsFiniteSet(W) /\ Cardinality(W) = Cardinality(rows)
    BY <2>1, FS_Interval
  <2>4. whole \in Surjection(rows, W)
    BY <2>1, <2>2, <2>3, FS_Injection
  <2>5. \A n \in W : \E b \in rows : Before(rows, b) = n
    BY <2>4 DEF Surjection
  <2>6. T \subseteq W
    BY <2>1, <1>8
  <2>7. \A n \in T : \E b \in ids : place[b] = n
    BY <1>2, <2>5, <2>6
  <2>8. place \in Surjection(ids, T)
    BY <1>5, <2>7 DEF Surjection, Injection
  <2> QED
    BY <1>3, <1>5, <2>8, FS_Injection
<1> QED
  BY <1>6, <1>7, <1>8 DEF ids

(***************************************************************************)
(* Rows may only come up below a row that is still owed, so it only moves  *)
(* to later pages; and nothing leaves the queue, so as long as it has room *)
(* no claim has been refused, and what a page brought is still pending.    *)
(* On the master no row goes away while the pages are read.                *)
(***************************************************************************)
RecoveryInv ==
  worker = "recovering" =>
    /\ ~closed
    /\ "replica" \notin Faults => owed \subseteq Incomplete /\ shown \subseteq Incomplete
    /\ Len(queue) < Capacity =>
         /\ \A c \in Caller : call[c] # "refused"
         /\ \A a \in owed : Before(shown, a) < offset => a \in pending

LEMMA RowsOnlyMoveBack ==
  ASSUME NEW S \in SUBSET Artist, NEW T \in SUBSET Artist, NEW a \in Artist,
         \A b \in S : b < a => b \in T
  PROVE  Before(S, a) \in Nat /\ Before(T, a) \in Nat /\ Before(S, a) <= Before(T, a)
<1> DEFINE Now == {b \in S : b < a}
           Next1 == {b \in T : b < a}
<1>1. Before(S, a) = Cardinality(Now) /\ Before(T, a) = Cardinality(Next1)
  BY DEF Before
<1>2. Now \in SUBSET Next1 /\ Next1 \in SUBSET Artist
  OBVIOUS
<1> HIDE DEF Now, Next1
<1>3. IsFiniteSet(Next1)
  BY <1>2, WorkerAssumption, FS_Subset DEF WorkerAssumption
<1>4. IsFiniteSet(Now) /\ Cardinality(Now) <= Cardinality(Next1)
  BY <1>2, <1>3, FS_Subset
<1> QED
  BY <1>1, <1>3, <1>4, FS_CardinalityType

(***************************************************************************)
(* A page leaves no row behind that is still owed.                         *)
(***************************************************************************)
LEMMA PageKeepsRecovery ==
  ASSUME TypeOK, RecoveryInv, NEW rows \in RowsRead, RecoverFrom(rows)
  PROVE  /\ RecoveryInv'
         /\ RecoveredWithRoom(rows) => StillOwed(rows) \subseteq pending'
<1> DEFINE limit == IF Capacity - found < BatchSize THEN Capacity - found ELSE BatchSize
           ids == ListIncompleteArtists(rows, limit, offset)
           total == found + Cardinality(ids \ pending)
           due == StillOwed(rows)
<1>1. /\ worker = "recovering"
      /\ pending' = pending \cup ids
      /\ UNCHANGED <<depth, queue, closed, call>>
      /\ IF Cardinality(ids) < limit \/ total >= Capacity
         THEN worker' = "waiting"
         ELSE /\ offset' = offset + Cardinality(ids)
              /\ owed' = due /\ shown' = rows
              /\ UNCHANGED worker
  BY DEF RecoverFrom, StartWorker, callers
<1>2. limit \in Int /\ offset \in Nat /\ found \in Nat /\ Capacity \in Nat /\ BatchSize \in Nat
  BY WorkerAssumption DEF TypeOK, WorkerAssumption
<1>r. rows \in SUBSET Artist /\ shown \in SUBSET Artist
  BY RowsAreArtists DEF TypeOK
<1>3. IsFiniteSet(ids \ pending) /\ Cardinality(ids \ pending) \in Nat
  <2>1. ids \ pending \in SUBSET Artist
    BY <1>r DEF ListIncompleteArtists
  <2> QED
    BY <2>1, WorkerAssumption, FS_Subset, FS_CardinalityType DEF WorkerAssumption
<1>4. \A a \in due : /\ a \in owed /\ a \in rows
                     /\ Before(shown, a) \in Nat /\ Before(rows, a) \in Nat
                     /\ Before(shown, a) <= Before(rows, a)
  <2> SUFFICES ASSUME NEW a \in due
               PROVE  /\ a \in owed /\ a \in rows
                      /\ Before(shown, a) \in Nat /\ Before(rows, a) \in Nat
                      /\ Before(shown, a) <= Before(rows, a)
    OBVIOUS
  <2>1. a \in owed /\ a \in rows /\ a \in Artist /\ \A b \in shown : b < a => b \in rows
    BY <1>r DEF StillOwed
  <2> QED
    BY <1>r, <2>1, RowsOnlyMoveBack
<1>5. ASSUME total < Capacity
      PROVE  /\ limit \in Nat /\ Cardinality(ids) \in Nat /\ Cardinality(ids) <= limit
             /\ \A a \in rows : Before(rows, a) >= offset + limit => Cardinality(ids) = limit
  <2>1. limit \in Nat
    BY <1>2, <1>3, <1>5
  <2> HIDE DEF limit
  <2> QED
    BY <1>2, <1>r, <2>1, PageIs
<1>6. \A a \in rows : offset <= Before(rows, a) /\ Before(rows, a) < offset + limit => a \in ids
  BY DEF ListIncompleteArtists, Before
<1>7. ASSUME total < Capacity, Len(queue) < Capacity, NEW a \in due,
             Before(rows, a) < offset + Cardinality(ids) \/ Cardinality(ids) < limit
      PROVE  a \in pending'
  <2> DEFINE was == Before(shown, a)
             is == Before(rows, a)
  <2>0. a \in owed /\ a \in rows /\ was \in Nat /\ is \in Nat /\ was <= is
    BY <1>4
  <2>1. CASE is < offset
    <3>1. was < offset
      <4> HIDE DEF was, is
      <4> QED
        BY <1>2, <2>0, <2>1
    <3> QED
      BY <1>1, <1>7, <2>0, <3>1 DEF RecoveryInv
  <2>2. CASE ~(is < offset)
    <3>1. is < offset + limit
      <4>1. is >= offset + limit => Cardinality(ids) = limit
        BY <1>5, <1>7, <2>0
      <4> HIDE DEF limit, ids, total, was, is
      <4> QED
        BY <1>2, <2>0, <1>5, <1>7, <4>1 DEF is
    <3> QED
      BY <1>1, <1>2, <2>0, <1>6, <2>2, <3>1
  <2> QED
    BY <2>1, <2>2
<1>8. RecoveryInv'
  <2> SUFFICES ASSUME worker' = "recovering"
               PROVE  RecoveryInv'
    BY DEF RecoveryInv
  <2>1. total < Capacity /\ offset' = offset + Cardinality(ids) /\ owed' = due /\ shown' = rows
    BY <1>1, <1>2, <1>3
  <2>2. Incomplete' = Incomplete
    BY <1>1 DEF Incomplete
  <2>3. \A a \in due : Before(shown, a)' = Before(rows, a)
    BY <2>1 DEF Before
  <2>4. "replica" \notin Faults => due \subseteq Incomplete /\ rows \subseteq Incomplete
    BY <1>1 DEF RecoveryInv, StillOwed, RowsRead
  <2> HIDE DEF ids, limit, total, due
  <2>5. ASSUME Len(queue) < Capacity, NEW a \in due, Before(rows, a) < offset'
        PROVE  a \in pending'
    BY <1>7, <2>1, <2>5
  <2>6. /\ \A a \in owed' : Len(queue') < Capacity /\ Before(shown', a) < offset' => a \in pending'
        /\ Len(queue') < Capacity => \A c \in Caller : call'[c] # "refused"
        /\ ~closed'
    BY <1>1, <2>1, <2>3, <2>5 DEF RecoveryInv
  <2> QED
    BY <2>1, <2>2, <2>4, <2>6 DEF RecoveryInv
<1>9. ASSUME RecoveredWithRoom(rows)
      PROVE  due \subseteq pending'
  <2>1. worker' = "waiting" /\ found + Cardinality(pending' \ pending) < Capacity /\ Len(queue) < Capacity
    BY <1>9 DEF RecoveredWithRoom
  <2>2. pending' \ pending = ids \ pending
    BY <1>1
  <2>3. total < Capacity
    BY <2>1, <2>2
  <2>4. Cardinality(ids) < limit
    BY <1>1, <1>2, <1>3, <2>1, <2>3
  <2> HIDE DEF ids, limit, total, due
  <2> QED
    BY <1>7, <2>1, <2>3, <2>4
<1> QED
  BY <1>8, <1>9

(***************************************************************************)
(* A step that is not recovery's own.                                      *)
(***************************************************************************)
LEMMA OthersKeepRecovery ==
  ASSUME TypeOK, RecoveryInv,
         worker' = worker, closed' = closed, owed' = owed, shown' = shown, offset' = offset,
         worker = "recovering" => Incomplete \subseteq Incomplete',
         Len(queue') >= Len(queue), Len(queue') \in Nat,
         Len(queue') < Capacity /\ ~closed /\ (\A c \in Caller : call[c] # "refused")
           => pending \subseteq pending' /\ \A c \in Caller : call'[c] # "refused"
  PROVE  RecoveryInv'
<1> SUFFICES ASSUME worker = "recovering"
             PROVE  RecoveryInv'
  BY DEF RecoveryInv
<1>1. /\ "replica" \notin Faults => owed \subseteq Incomplete /\ shown \subseteq Incomplete
      /\ Incomplete \subseteq Incomplete' /\ ~closed
  BY DEF RecoveryInv
<1>2. Len(queue) \in Nat /\ Capacity \in Nat /\ offset \in Nat
  BY WorkerAssumption DEF TypeOK, WorkerAssumption
<1>3. ASSUME Len(queue') < Capacity
      PROVE  /\ \A c \in Caller : call'[c] # "refused"
             /\ \A a \in owed : Before(shown, a) < offset => a \in pending'
  <2>1. Len(queue) < Capacity
    BY <1>2, <1>3
  <2>2. /\ \A c \in Caller : call[c] # "refused"
        /\ \A a \in owed : Before(shown, a) < offset => a \in pending
    BY <2>1 DEF RecoveryInv
  <2>3. pending \subseteq pending' /\ \A c \in Caller : call'[c] # "refused"
    BY <1>1, <1>3, <2>2
  <2> QED
    BY <2>2, <2>3
<1>4. \A a \in owed : Before(shown', a) = Before(shown, a)
  OBVIOUS
<1> QED
  BY <1>1, <1>3, <1>4 DEF RecoveryInv

LEMMA StepKeepsRecovery ==
  ASSUME TypeOK, RecoveryInv, [Next]_vars
  PROVE  /\ RecoveryInv'
         /\ \A rows \in RowsRead : RecoveredWithRoom(rows) => StillOwed(rows) \subseteq pending'
<1> USE DEF recovery, callers
<1>1. ASSUME NEW rows \in RowsRead, RecoverFrom(rows)
      PROVE  RecoveryInv' /\ (RecoveredWithRoom(rows) => StillOwed(rows) \subseteq pending')
  BY <1>1, PageKeepsRecovery
<1>2. ASSUME ~RecoverPage
      PROVE  RecoveryInv'
  <2>1. Len(queue) \in Nat /\ Capacity \in Nat
    BY WorkerAssumption DEF TypeOK, WorkerAssumption
  <2>2. CASE RecoverFails
    BY <2>2 DEF RecoverFails, StartWorker, RecoveryInv
  <2>3. CASE Restart
    <3>1. /\ owed' = Incomplete' /\ shown' = {} /\ offset' = 0 /\ ~closed'
          /\ \A c \in Caller : call'[c] # "refused"
      BY <2>3 DEF Restart, Incomplete
    <3>2. \A a \in Artist : Before({}, a) \in Nat
      BY Positions
    <3>3. \A a \in owed' : Before(shown', a) \in Nat
      BY <3>1, <3>2 DEF Incomplete
    <3> QED
      BY <3>1, <3>3 DEF RecoveryInv
  <2>4. CASE WorkerLoop
    BY <2>4 DEF WorkerLoop, BlockingPop, Exit, CheckDepth, GetArtistSongs, WriteThrough,
                RequeueJob, SettleJob, Work, RecoveryInv
  <2>5. ASSUME NEW c \in Caller, NEW a \in Artist, EnqueueIfNeeded(c, a)
        PROVE  RecoveryInv'
    <3>1. \A d \in Caller : call[d] # "refused" => call'[d] # "refused"
      BY <2>5 DEF EnqueueIfNeeded, Call, TypeOK
    <3> QED
      BY <2>1, <2>5, <3>1, OthersKeepRecovery DEF EnqueueIfNeeded, Incomplete
  <2>6. ASSUME NEW c \in Caller, ClaimPending(c)
        PROVE  RecoveryInv'
    <3>1. \A d \in Caller : call[d] # "refused" => call'[d] # "refused"
      BY <2>6 DEF ClaimPending, Call, TypeOK
    <3>2. pending \subseteq pending'
      BY <2>6 DEF ClaimPending
    <3> QED
      BY <2>1, <2>6, <3>1, <3>2, OthersKeepRecovery DEF ClaimPending, Incomplete
  <2>7. ASSUME NEW c \in Caller, PushJob(c)
        PROVE  RecoveryInv'
    <3>1. ref[c] \in Artist /\ queue \in Seq(Artist)
      BY <2>7 DEF PushJob, TypeOK
    <3>2. Len(queue') \in Nat /\ Len(queue') >= Len(queue)
      BY <2>1, <2>7, <3>1 DEF PushJob, TryPush
    <3>3. Len(queue') < Capacity /\ ~closed => CanPush
      BY <2>1, <3>2 DEF CanPush
    <3>4. CanPush => \A d \in Caller : call[d] # "refused" => call'[d] # "refused"
      BY <2>7 DEF PushJob, Call, TypeOK
    <3> QED
      BY <2>1, <2>7, <3>2, <3>3, <3>4, OthersKeepRecovery DEF PushJob, Incomplete
  <2>8. ASSUME NEW c \in Caller, DropRefused(c)
        PROVE  RecoveryInv'
    BY <2>1, <2>8, OthersKeepRecovery DEF DropRefused, Incomplete
  <2>9. CASE Close
    BY <2>9 DEF Close, RecoveryInv
  <2>10. CASE DrainTimeout
    BY <2>1, <2>10, OthersKeepRecovery DEF DrainTimeout, Incomplete
  <2>11. ASSUME NEW a \in Artist, WriteForeground(a)
         PROVE  RecoveryInv'
    <3>1. Incomplete \subseteq Incomplete'
      BY <2>11 DEF WriteForeground, Incomplete, TypeOK, None, Foreground, Full
    <3> QED
      BY <2>1, <2>11, <3>1, OthersKeepRecovery DEF WriteForeground
  <2>12. ASSUME NEW a \in Artist, PruneStaleArtist(a)
         PROVE  RecoveryInv'
    BY <2>12 DEF PruneStaleArtist, RecoveryInv
  <2>13. CASE UNCHANGED vars
    BY <2>1, <2>13, OthersKeepRecovery DEF vars, Incomplete
  <2> QED
    BY <1>2, <2>2, <2>3, <2>4, <2>5, <2>6, <2>7, <2>8, <2>9, <2>10, <2>11, <2>12, <2>13
    DEF Next, Enqueue, Recover
<1> QED
  BY <1>1, <1>2 DEF RecoveredWithRoom, RecoverPage

LEMMA InitRecovery == Init => RecoveryInv
<1> SUFFICES ASSUME Init PROVE RecoveryInv
  OBVIOUS
<1>1. /\ owed = Incomplete /\ shown = {} /\ offset = 0 /\ ~closed
      /\ \A c \in Caller : call[c] # "refused"
  BY DEF Init, InitWith
<1>2. \A a \in Artist : Before({}, a) \in Nat
  BY Positions
<1> QED
  BY <1>1, <1>2 DEF RecoveryInv, Incomplete

(***************************************************************************)
(* Whatever is claimed, refused and stored while recovery reads its pages, *)
(* a recovery that ends with room in the queue and below the capacity has  *)
(* made every artist pending that was incomplete when it began and that    *)
(* its own reads did not hide.                                             *)
(***************************************************************************)
THEOREM RecoveryIsCompleteHolds == Spec => RecoveryIsComplete
<1>1. TypeOK /\ RecoveryInv /\ [Next]_vars
        => /\ RecoveryInv'
           /\ [\A rows \in RowsRead : RecoveredWithRoom(rows) => StillOwed(rows) \subseteq pending']_vars
  BY StepKeepsRecovery
<1> QED
  BY <1>1, TypeCorrect, InitRecovery, PTL DEF Spec, RecoveryIsComplete

(***************************************************************************)
(* Where recovery reads the master, its reads hide nothing: until it ends, *)
(* all that was incomplete when it began is owed, so the theorem above     *)
(* speaks of every such artist (RecoverPendingArtists).                    *)
(***************************************************************************)
THEOREM MasterHidesNothing ==
  "replica" \notin Faults =>
    (Spec => [](worker = "recovering" => StillOwed(Incomplete) = owed))
<1> SUFFICES ASSUME "replica" \notin Faults
             PROVE  Spec => [](worker = "recovering" => StillOwed(Incomplete) = owed)
  OBVIOUS
<1>1. TypeOK /\ RecoveryInv /\ [Next]_vars => RecoveryInv'
  BY StepKeepsRecovery
<1>2. RecoveryInv => (worker = "recovering" => StillOwed(Incomplete) = owed)
  BY DEF RecoveryInv, StillOwed
<1> QED
  BY <1>1, <1>2, TypeCorrect, InitRecovery, PTL DEF Spec
-----------------------------------------------------------------------------
(* Refinement *)

AbstractStep == Jobs!Next \/ UNCHANGED Jobs!vars

LEMMA EnqueueImplementsJobs ==
  ASSUME TypeOK, Books, NEW c \in Caller, Enqueue(c)
  PROVE  AbstractStep
<1>1. /\ {a \in Artist : depth[a] = Full}' = {a \in Artist : depth[a] = Full}
      /\ job' = job /\ InWork' = InWork
  BY DEF Enqueue, ClaimPending, PushJob, DropRefused, InWork
<1>2. CASE UNCHANGED pending
  BY <1>1, <1>2 DEF AbstractStep, Jobs!vars
<1>3. CASE ClaimPending(c) /\ ~(ref[c] \in pending \ recovered)
  <2>1. ref[c] \in Artist /\ pending' = pending \cup {ref[c]}
    BY <1>3 DEF ClaimPending, TypeOK
  <2>2. pending' \subseteq Artist /\ pending \subseteq pending'
    BY <2>1 DEF TypeOK
  <2>3. Jobs!Want
    BY <1>1, <2>2, WorkerAssumption DEF Jobs!Want, InWork, WorkerAssumption
  <2> QED
    BY <2>3 DEF AbstractStep, Jobs!Next
<1>4. CASE DropRefused(c)
  <2>1. /\ c \in Holding /\ ref[c] \in Artist /\ ref[c] \in Claimed
        /\ pending' = pending \ {ref[c]}
    BY <1>4 DEF DropRefused, Holding, Claimed, TypeOK
  <2>2. ref[c] \in pending \ InWork
    BY <2>1 DEF Books, PendingIsAccountedFor, OneJobPerArtist
  <2>3. pending' \ InWork' = (pending \ InWork) \ {ref[c]}
    BY <1>1, <2>1
  <2>4. Jobs!GiveUp(ref[c])
    BY <1>1, <2>2, <2>3 DEF Jobs!GiveUp
  <2> QED
    BY <2>1, <2>4 DEF AbstractStep, Jobs!Next
<1>5. Enqueue(c) => \/ UNCHANGED pending
                    \/ ClaimPending(c) /\ ~(ref[c] \in pending \ recovered)
                    \/ DropRefused(c)
  BY DEF Enqueue, ClaimPending, PushJob
<1> QED
  BY <1>2, <1>3, <1>4, <1>5

LEMMA RecoverImplementsJobs ==
  ASSUME TypeOK, Recover
  PROVE  AbstractStep
<1>1. /\ {a \in Artist : depth[a] = Full}' = {a \in Artist : depth[a] = Full}
      /\ job' = job /\ InWork' = InWork
  BY DEF Recover, RecoverPage, RecoverFrom, RecoverFails, InWork
<1>2. CASE RecoverFails
  BY <1>1, <1>2 DEF RecoverFails, AbstractStep, Jobs!vars
<1>3. ASSUME NEW rows \in RowsRead, RecoverFrom(rows)
      PROVE  AbstractStep
  <2>1. pending \subseteq pending' /\ pending' \subseteq Artist
    BY <1>3, RowsAreArtists DEF RecoverFrom, ListIncompleteArtists, TypeOK
  <2>2. Jobs!Want
    BY <1>1, <2>1, WorkerAssumption DEF Jobs!Want, InWork, WorkerAssumption
  <2> QED
    BY <2>2 DEF AbstractStep, Jobs!Next
<1> QED
  BY <1>2, <1>3 DEF Recover, RecoverPage

LEMMA WorkerImplementsJobs ==
  ASSUME TypeOK, Books, WorkerLoop
  PROVE  AbstractStep
<1> USE WorkerAssumption DEF WorkerAssumption
<1> DEFINE scanned == {a \in Artist : depth[a] = Full}
<1>1. CASE BlockingPop
  <2>1. /\ job = NoArtist /\ job' = Head(queue) /\ pending' = pending /\ scanned' = scanned
        /\ queue # <<>>
    BY <1>1 DEF BlockingPop, TypeOK
  <2>2. Head(queue) \in Artist /\ Head(queue) \in Queued
    BY <2>1, PoppedElements DEF TypeOK, Queued, Books, OneJobPerArtist
  <2>3. Head(queue) \in pending \ InWork
    BY <2>2 DEF Books, PendingIsAccountedFor, OneJobPerArtist
  <2>4. InWork = {} /\ InWork' = {Head(queue)}
    BY <2>1, <2>2 DEF InWork
  <2>5. Jobs!Scan(Head(queue))
    BY <2>1, <2>3, <2>4 DEF Jobs!Scan
  <2> QED
    BY <2>2, <2>5 DEF AbstractStep, Jobs!Next
<1>2. CASE Exit \/ CheckDepth \/ GetArtistSongs \/ (WriteThrough /\ UNCHANGED depth)
  <2>1. job' = job /\ pending' = pending /\ depth' = depth
    BY <1>2 DEF Exit, CheckDepth, GetArtistSongs, WriteThrough
  <2> QED
    BY <2>1 DEF AbstractStep, Jobs!vars, InWork
<1>3. CASE WriteThrough /\ depth' = [depth EXCEPT ![job] = Full]
  <2>1. job \in Artist /\ job # NoArtist /\ job' = job /\ pending' = pending
    BY <1>3 DEF WriteThrough, TypeOK
  <2>2. scanned' = scanned \cup {job}
    BY <1>3, <2>1 DEF TypeOK
  <2>3. Jobs!Complete
    BY <2>1, <2>2 DEF Jobs!Complete, InWork
  <2> QED
    BY <2>3 DEF AbstractStep, Jobs!Next
<1>4. CASE RequeueJob \/ SettleJob
  <2>1. /\ job \in Artist /\ job # NoArtist /\ job' = NoArtist /\ scanned' = scanned
        /\ pending' = pending \/ pending' = pending \ {job}
    BY <1>4 DEF RequeueJob, SettleJob, TypeOK
  <2>2. InWork = {job} /\ InWork' = {}
    BY <2>1 DEF InWork
  <2>3. job \in pending
    BY <2>2 DEF Books, PendingIsAccountedFor
  <2>4. \/ pending' \ InWork' = (pending \ InWork) \cup {job}
        \/ pending' \ InWork' = pending \ InWork
    BY <2>1, <2>2, <2>3
  <2>5. Jobs!Finish
    BY <2>1, <2>4 DEF Jobs!Finish
  <2> QED
    BY <2>5 DEF AbstractStep, Jobs!Next
<1> QED
  BY <1>1, <1>2, <1>3, <1>4 DEF WorkerLoop, WriteThrough

LEMMA StepImplementsJobs ==
  ASSUME TypeOK, Books, [Next]_vars
  PROVE  AbstractStep
<1> DEFINE scanned == {a \in Artist : depth[a] = Full}
<1>1. CASE \/ \E c \in Caller, a \in Artist : EnqueueIfNeeded(c, a)
           \/ Close \/ DrainTimeout \/ UNCHANGED vars
  <2>1. job' = job /\ pending' = pending /\ depth' = depth
    BY <1>1 DEF EnqueueIfNeeded, Close, DrainTimeout, vars
  <2> QED
    BY <2>1 DEF AbstractStep, Jobs!vars, InWork
<1>2. CASE Restart
  <2>1. pending' \ InWork' = {} /\ job' = NoArtist /\ scanned' = scanned
    BY <1>2 DEF Restart
  <2>2. Jobs!Forget
    BY <2>1 DEF Jobs!Forget
  <2> QED
    BY <2>2 DEF AbstractStep, Jobs!Next
<1>3. ASSUME NEW a \in Artist, WriteForeground(a)
      PROVE  AbstractStep
  <2>1. job' = job /\ pending' = pending /\ scanned' = scanned
    BY <1>3 DEF WriteForeground, TypeOK, None, Foreground, Full
  <2> QED
    BY <2>1 DEF AbstractStep, Jobs!vars, InWork
<1>4. ASSUME NEW a \in Artist, PruneStaleArtist(a)
      PROVE  AbstractStep
  <2>1. job' = job /\ pending' = pending /\ scanned' = scanned \ {a}
    BY <1>4 DEF PruneStaleArtist, TypeOK, None, Full
  <2>2. Jobs!Prune(a)
    BY <2>1 DEF Jobs!Prune, InWork
  <2> QED
    BY <2>2 DEF AbstractStep, Jobs!Next
<1> QED
  BY <1>1, <1>2, <1>3, <1>4, EnqueueImplementsJobs, RecoverImplementsJobs,
     WorkerImplementsJobs DEF Next

(***************************************************************************)
(* The worker is a set of wanted artists with one scan at a time: every    *)
(* step of callers, worker, recovery and the other services is a step of   *)
(* EnrichmentJobs or is not visible there.                                 *)
(***************************************************************************)
THEOREM WorkerImplementsJobsSpec == Spec => ImplementsJobs
<1>1. Init => Jobs!Init
  <2> SUFFICES ASSUME Init PROVE Jobs!Init
    OBVIOUS
  <2> QED
    BY DEF Init, InitWith, Jobs!Init, InWork
<1>2. TypeOK /\ Books /\ [Next]_vars => [Jobs!Next]_(Jobs!vars)
  BY StepImplementsJobs DEF AbstractStep
<1> QED
  BY <1>1, <1>2, TypeCorrect, BooksInvariant, PTL DEF Spec, ImplementsJobs, Jobs!Spec

-----------------------------------------------------------------------------
(* The retry queue of the client *)

(***************************************************************************)
(* The members of a set of numbers are counted through, each by how many   *)
(* there are up to it.                                                     *)
(***************************************************************************)
LEMMA Ranks ==
  ASSUME NEW k \in Nat, NEW S \in SUBSET (1..k)
  PROVE  /\ Cardinality(S) \in Nat /\ Cardinality(S) <= k
         /\ \A i, j \in S : Cardinality(S \cap 1..i) = Cardinality(S \cap 1..j) => i = j
         /\ \A n \in 1..Cardinality(S) : \E i \in S : Cardinality(S \cap 1..i) = n
<1>1. IsFiniteSet(S) /\ Cardinality(S) \in Nat /\ Cardinality(S) <= k
  <2>1. IsFiniteSet(1..k) /\ Cardinality(1..k) <= k
    BY FS_Interval
  <2>2. IsFiniteSet(S) /\ Cardinality(S) <= Cardinality(1..k)
    BY <2>1, FS_Subset
  <2>3. Cardinality(S) \in Nat /\ Cardinality(1..k) \in Nat
    BY <2>1, <2>2, FS_CardinalityType
  <2> QED
    BY <2>1, <2>2, <2>3
<1> DEFINE rank == [i \in S |-> Cardinality(S \cap 1..i)]
           T == 1..Cardinality(S)
<1>2. ASSUME NEW i \in S
      PROVE  /\ IsFiniteSet(S \cap 1..i) /\ rank[i] \in T
  <2>1. S \cap 1..i \in SUBSET S /\ i \in S \cap 1..i
    OBVIOUS
  <2>2. IsFiniteSet(S \cap 1..i) /\ Cardinality(S \cap 1..i) <= Cardinality(S)
    BY <1>1, <2>1, FS_Subset
  <2>3. Cardinality(S \cap 1..i) \in Nat /\ Cardinality(S \cap 1..i) # 0
    BY <2>1, <2>2, FS_CardinalityType, FS_EmptySet
  <2> QED
    BY <1>1, <2>2, <2>3
<1>3. ASSUME NEW i \in S, NEW j \in S, i < j
      PROVE  rank[i] # rank[j]
  <2>1. S \cap 1..i \in SUBSET (S \cap 1..j) /\ j \in S \cap 1..j /\ j \notin S \cap 1..i
    BY <1>3
  <2> QED
    BY <1>2, <2>1, FS_Subset
<1>4. rank \in Injection(S, T)
  <2>1. rank \in [S -> T]
    BY <1>2
  <2>2. ASSUME NEW i \in S, NEW j \in S, rank[i] = rank[j] PROVE i = j
    <3>1. i \in Int /\ j \in Int /\ ~(i < j) /\ ~(j < i)
      BY <1>3, <2>2
    <3> QED
      BY <3>1
  <2> QED
    BY <2>1, <2>2 DEF Injection, IsInjective
<1>5. IsFiniteSet(T) /\ Cardinality(T) = Cardinality(S)
  BY <1>1, FS_Interval
<1>6. rank \in Surjection(S, T)
  BY <1>4, <1>5, FS_Injection
<1>7. \A n \in T : \E i \in S : rank[i] = n
  BY <1>6 DEF Surjection
<1> QED
  BY <1>1, <1>4, <1>7 DEF Injection, IsInjective

(***************************************************************************)
(* What stays in the queue stays once, and nothing else is in it.          *)
(***************************************************************************)
LEMMA KeptIs ==
  ASSUME RetryTypeOK
  PROVE  /\ Kept \in Seq(AnEntry) /\ Len(Kept) <= RetryCapacity
         /\ \A i \in Stay : \E n \in DOMAIN Kept : Kept[n] = retry_queue[i]
         /\ StashedOnce =>
              \A m, n \in DOMAIN Kept : Kept[m].artist = Kept[n].artist => m = n
<1> DEFINE Chosen(n) == CHOOSE i \in Stay : Cardinality(Stay \cap 1..i) = n
<1>1. /\ Len(retry_queue) \in Nat /\ DOMAIN retry_queue = 1..Len(retry_queue)
      /\ \A i \in DOMAIN retry_queue : retry_queue[i] \in AnEntry
      /\ Len(retry_queue) <= RetryCapacity
  BY DEF RetryTypeOK
<1>2. Stay \in SUBSET (1..Len(retry_queue))
  BY <1>1 DEF Stay
<1>3. /\ Cardinality(Stay) \in Nat /\ Cardinality(Stay) <= Len(retry_queue)
      /\ \A i, j \in Stay : Cardinality(Stay \cap 1..i) = Cardinality(Stay \cap 1..j) => i = j
      /\ \A n \in 1..Cardinality(Stay) : \E i \in Stay : Cardinality(Stay \cap 1..i) = n
  BY <1>1, <1>2, Ranks
<1>4. \A n \in 1..Cardinality(Stay) : Chosen(n) \in Stay /\ Cardinality(Stay \cap 1..Chosen(n)) = n
  BY <1>3
<1>5. /\ DOMAIN Kept = 1..Cardinality(Stay)
      /\ \A n \in 1..Cardinality(Stay) : Kept[n] = retry_queue[Chosen(n)]
  BY DEF Kept
<1>6. ASSUME NEW i \in Stay
      PROVE  \E n \in 1..Cardinality(Stay) : Chosen(n) = i
  <2> DEFINE n == Cardinality(Stay \cap 1..i)
  <2>1. n \in 1..Cardinality(Stay)
    <3>1. Stay \cap 1..i \in SUBSET Stay /\ i \in Stay \cap 1..i
      BY <1>1, <1>2
    <3>0. IsFiniteSet(Stay)
      <4>1. IsFiniteSet(1..Len(retry_queue))
        BY <1>1, FS_Interval
      <4> QED
        BY <1>2, <4>1, FS_Subset
    <3>2. IsFiniteSet(Stay \cap 1..i) /\ n <= Cardinality(Stay)
      BY <3>0, <3>1, FS_Subset
    <3>3. n \in Nat /\ n # 0
      BY <3>1, <3>2, FS_CardinalityType, FS_EmptySet
    <3> QED
      BY <1>3, <3>2, <3>3
  <2>2. Chosen(n) \in Stay /\ Cardinality(Stay \cap 1..Chosen(n)) = n
    BY <1>4, <2>1
  <2>3. Chosen(n) = i
    BY <1>3, <2>2
  <2> QED
    BY <2>1, <2>3
<1> HIDE DEF Chosen
<1>7. /\ Kept \in [1..Cardinality(Stay) -> AnEntry]
      /\ \A n \in 1..Cardinality(Stay) : Kept[n] \in AnEntry
  <2>1. \A n \in 1..Cardinality(Stay) : Kept[n] \in AnEntry
    BY <1>1, <1>2, <1>4, <1>5
  <2>2. Kept = [n \in 1..Cardinality(Stay) |-> Kept[n]]
    BY DEF Kept
  <2> QED
    BY <2>1, <2>2
<1>8. Kept \in Seq(AnEntry) /\ Len(Kept) = Cardinality(Stay)
  BY <1>3, <1>7
<1>9. Len(Kept) <= RetryCapacity
  BY <1>1, <1>3, <1>8, RetryAssumption DEF RetryAssumption
<1>10. ASSUME StashedOnce, NEW m \in DOMAIN Kept, NEW n \in DOMAIN Kept,
              Kept[m].artist = Kept[n].artist
       PROVE  m = n
  <2>1. Chosen(m) \in DOMAIN retry_queue /\ Chosen(n) \in DOMAIN retry_queue
    BY <1>1, <1>2, <1>4, <1>5
  <2>2. Chosen(m) = Chosen(n)
    BY <1>5, <1>10, <2>1 DEF StashedOnce
  <2>3. m = Cardinality(Stay \cap 1..Chosen(m)) /\ n = Cardinality(Stay \cap 1..Chosen(n))
    BY <1>4, <1>5
  <2> QED
    BY <2>2, <2>3, Zenon
<1> QED
  BY <1>5, <1>6, <1>8, <1>9, <1>10

(***************************************************************************)
(* A queue whose entries only grow older or are marked.                    *)
(***************************************************************************)
LEMMA EntriesStay ==
  ASSUME RetryTypeOK,
         DOMAIN retry_queue' = DOMAIN retry_queue,
         retry_queue' = [i \in DOMAIN retry_queue |-> retry_queue'[i]],
         \A i \in DOMAIN retry_queue :
           retry_queue'[i] \in AnEntry /\ retry_queue'[i].artist = retry_queue[i].artist
  PROVE  /\ retry_queue' \in Seq(AnEntry) /\ Len(retry_queue') = Len(retry_queue)
         /\ StashedOnce => StashedOnce'
<1>1. Len(retry_queue) \in Nat /\ DOMAIN retry_queue = 1..Len(retry_queue)
  BY DEF RetryTypeOK
<1>2. retry_queue' \in [1..Len(retry_queue) -> AnEntry]
  BY <1>1
<1>3. retry_queue' \in Seq(AnEntry) /\ Len(retry_queue') = Len(retry_queue)
  BY <1>1, <1>2
<1> QED
  BY <1>3 DEF StashedOnce

(***************************************************************************)
(* EnqueueRetry puts in an artist that does not wait, and takes out no     *)
(* other than the oldest.                                                  *)
(***************************************************************************)
RetryIsFull == Len(retry_queue) >= RetryCapacity

LEMMA Stashed ==
  ASSUME RetryTypeOK, StashedOnce, NEW a \in Requested, ~IsStashed(a),
         retry_queue' = Append(IF RetryIsFull THEN Tail(retry_queue) ELSE retry_queue,
                               [artist |-> a, age |-> 0, copied |-> FALSE])
  PROVE  /\ retry_queue' \in Seq(AnEntry) /\ Len(retry_queue') <= RetryCapacity
         /\ RetryIsFull => retry_queue[1].artist \in Requested
         /\ StashedOnce'
         /\ \A i \in DOMAIN retry_queue :
              (RetryIsFull /\ i = 1) \/ \E j \in DOMAIN retry_queue' : retry_queue'[j] = retry_queue[i]
<1> DEFINE entry == [artist |-> a, age |-> 0, copied |-> FALSE]
           q == IF RetryIsFull THEN Tail(retry_queue) ELSE retry_queue
           skip == IF RetryIsFull THEN 1 ELSE 0
<1>1. entry \in AnEntry /\ entry.artist = a
  BY RetryAssumption DEF AnEntry, RetryAssumption
<1>2. /\ Len(retry_queue) \in Nat /\ DOMAIN retry_queue = 1..Len(retry_queue)
      /\ \A i \in DOMAIN retry_queue : retry_queue[i] \in AnEntry
      /\ Len(retry_queue) <= RetryCapacity /\ RetryCapacity \in Nat \ {0}
      /\ retry_queue \in Seq(AnEntry)
  BY RetryAssumption DEF RetryTypeOK, RetryAssumption
<1>3. RetryIsFull => Len(retry_queue) >= 1 /\ 1 \in DOMAIN retry_queue
  BY <1>2 DEF RetryIsFull
<1>4. /\ q \in Seq(AnEntry) /\ Len(q) \in Nat /\ skip \in Int
      /\ \A i \in 1..Len(q) : i + skip \in DOMAIN retry_queue /\ q[i] = retry_queue[i + skip]
      /\ \A i \in DOMAIN retry_queue :
           (RetryIsFull /\ i = 1) \/ (i - skip \in 1..Len(q) /\ (i - skip) + skip = i)
      /\ Len(q) < RetryCapacity
  <2>1. CASE RetryIsFull
    BY <1>2, <1>3, <2>1 DEF RetryIsFull
  <2>2. CASE ~RetryIsFull
    BY <1>2, <2>2 DEF RetryIsFull
  <2> QED
    BY <2>1, <2>2
<1> HIDE DEF q, skip
<1>5. retry_queue' = Append(q, entry)
  BY DEF q
<1> HIDE DEF entry
<1>6. /\ retry_queue' \in Seq(AnEntry) /\ Len(retry_queue') = Len(q) + 1 /\ Len(q) \in Nat
      /\ DOMAIN retry_queue' = 1..(Len(q) + 1)
      /\ \A i \in 1..(Len(q) + 1) : retry_queue'[i] = IF i <= Len(q) THEN q[i] ELSE entry
  <2>1. /\ Append(q, entry) \in Seq(AnEntry) /\ Len(Append(q, entry)) = Len(q) + 1
        /\ \A i \in 1..(Len(q) + 1) : Append(q, entry)[i] = IF i <= Len(q) THEN q[i] ELSE entry
    BY <1>1, <1>4
  <2>2. DOMAIN Append(q, entry) = 1..(Len(q) + 1)
    BY <1>4, <2>1
  <2> QED
    BY <1>4, <1>5, <2>1, <2>2
<1>7. \A i \in 1..Len(q) : /\ i + skip \in DOMAIN retry_queue
                           /\ retry_queue'[i] = retry_queue[i + skip]
  <2> SUFFICES ASSUME NEW i \in 1..Len(q)
               PROVE  i + skip \in DOMAIN retry_queue /\ retry_queue'[i] = retry_queue[i + skip]
    OBVIOUS
  <2>1. i \in 1..(Len(q) + 1) /\ i <= Len(q)
    BY <1>4
  <2> QED
    BY <1>4, <1>6, <2>1
<1>8. StashedOnce'
  <2> SUFFICES ASSUME NEW i \in 1..(Len(q) + 1), NEW j \in 1..(Len(q) + 1),
                      retry_queue'[i].artist = retry_queue'[j].artist
               PROVE  i = j
    BY <1>6 DEF StashedOnce
  <2>1. CASE i \in 1..Len(q) /\ j \in 1..Len(q)
    <3>0. /\ i + skip \in DOMAIN retry_queue /\ j + skip \in DOMAIN retry_queue
          /\ retry_queue[i + skip].artist = retry_queue[j + skip].artist
      BY <1>7, <2>1
    <3>1. i + skip = j + skip
      BY <3>0 DEF StashedOnce
    <3> QED
      BY <1>4, <2>1, <3>1
  <2>2. CASE i \in 1..Len(q) /\ j = Len(q) + 1
    <3>1. retry_queue[i + skip].artist = a /\ i + skip \in DOMAIN retry_queue
      BY <1>1, <1>6, <1>7, <2>2
    <3> QED
      BY <3>1 DEF IsStashed
  <2>3. CASE i = Len(q) + 1 /\ j \in 1..Len(q)
    <3>1. retry_queue[j + skip].artist = a /\ j + skip \in DOMAIN retry_queue
      BY <1>1, <1>6, <1>7, <2>3
    <3> QED
      BY <3>1 DEF IsStashed
  <2> QED
    BY <1>6, <2>1, <2>2, <2>3
<1>9. ASSUME NEW i \in DOMAIN retry_queue, ~(RetryIsFull /\ i = 1)
      PROVE  \E j \in DOMAIN retry_queue' : retry_queue'[j] = retry_queue[i]
  <2>1. i - skip \in 1..Len(q) /\ (i - skip) + skip = i
    BY <1>4, <1>9
  <2>2. i - skip \in DOMAIN retry_queue'
    BY <1>4, <1>6, <2>1
  <2> QED
    BY <1>7, <2>1, <2>2
<1>10. RetryIsFull => retry_queue[1].artist \in Requested
  BY <1>2, <1>3 DEF AnEntry
<1>11. \A i \in DOMAIN retry_queue :
         (RetryIsFull /\ i = 1) \/ \E j \in DOMAIN retry_queue' : retry_queue'[j] = retry_queue[i]
  BY <1>9
<1>12. Len(retry_queue') <= RetryCapacity
  <2>1. /\ Len(q) \in Nat /\ Len(q) < RetryCapacity /\ RetryCapacity \in Nat
        /\ Len(retry_queue') = Len(q) + 1
    BY <1>2, <1>4, <1>6, Zenon
  <2> HIDE DEF q
  <2> QED
    BY <2>1
<1> QED
  BY <1>6, <1>8, <1>10, <1>11, <1>12

RetryInv == RetryTypeOK /\ StashedOnce /\ HandledAreCopied

Handled == to_remove \cup {snapshot[i].artist : i \in DOMAIN snapshot}

CopyWaits(a) == \E i \in DOMAIN retry_queue : retry_queue[i].artist = a /\ retry_queue[i].copied

(***************************************************************************)
(* One step of a request, of the loop or of the clock.                     *)
(***************************************************************************)
LEMMA RetryStep == RetryInv /\ [RetryNext]_retryVars => RetryInv'
<1> SUFFICES ASSUME RetryInv, [RetryNext]_retryVars PROVE RetryInv'
  OBVIOUS
<1>0. /\ RetryTypeOK /\ StashedOnce
      /\ \A a \in Handled : a \in pushedOut \/ CopyWaits(a)
      /\ Len(retry_queue) \in Nat /\ DOMAIN retry_queue = 1..Len(retry_queue)
      /\ \A i \in DOMAIN retry_queue : retry_queue[i] \in AnEntry
  BY DEF RetryInv, HandledAreCopied, Handled, CopyWaits, RetryTypeOK
<1>1. (\A a \in Handled' : a \in pushedOut' \/ CopyWaits(a)') => HandledAreCopied'
  BY DEF HandledAreCopied, Handled, CopyWaits
<1>2. ASSUME NEW c \in Requester, NEW a \in Requested, PostFails(c, a) PROVE RetryInv'
  BY <1>2 DEF PostFails, RetryInv, RetryTypeOK, StashedOnce, HandledAreCopied
<1>3. ASSUME NEW c \in Requester, EnqueueRetry(c), IsStashed(failed[c]) PROVE RetryInv'
  BY <1>3 DEF EnqueueRetry, RetryInv, RetryTypeOK, StashedOnce, HandledAreCopied
<1>4. ASSUME NEW c \in Requester, EnqueueRetry(c), ~IsStashed(failed[c]) PROVE RetryInv'
  <2> DEFINE a == failed[c]
  <2>1. /\ a # NoRequest /\ failed' = [failed EXCEPT ![c] = NoRequest]
        /\ retry_queue' = Append(IF RetryIsFull THEN Tail(retry_queue) ELSE retry_queue,
                                 [artist |-> a, age |-> 0, copied |-> FALSE])
        /\ pushedOut' = IF RetryIsFull THEN pushedOut \cup {retry_queue[1].artist} ELSE pushedOut
        /\ flush' = flush /\ snapshot' = snapshot /\ to_remove' = to_remove
    BY <1>4 DEF EnqueueRetry, RetryIsFull
  <2>2. a \in Requested
    BY <1>0, <2>1 DEF RetryTypeOK
  <2> HIDE DEF a
  <2>3. ~IsStashed(a)
    BY <1>4 DEF a
  <2>4. /\ retry_queue' \in Seq(AnEntry) /\ Len(retry_queue') <= RetryCapacity
        /\ RetryIsFull => retry_queue[1].artist \in Requested
        /\ StashedOnce'
        /\ \A i \in DOMAIN retry_queue :
             (RetryIsFull /\ i = 1) \/ \E j \in DOMAIN retry_queue' : retry_queue'[j] = retry_queue[i]
    BY <1>0, <2>1, <2>2, <2>3, Stashed
  <2>5. RetryTypeOK'
    BY <1>0, <2>1, <2>4 DEF RetryTypeOK
  <2>6. ASSUME NEW b \in Handled' PROVE b \in pushedOut' \/ CopyWaits(b)'
    <3>1. b \in pushedOut \/ CopyWaits(b)
      BY <1>0, <2>1, <2>6 DEF Handled
    <3>2. CASE b \in pushedOut
      BY <2>1, <3>2
    <3>3. ASSUME NEW i \in DOMAIN retry_queue, retry_queue[i].artist = b, retry_queue[i].copied
          PROVE  b \in pushedOut' \/ CopyWaits(b)'
      <4>1. CASE RetryIsFull /\ i = 1
        BY <2>1, <3>3, <4>1
      <4>2. CASE \E j \in DOMAIN retry_queue' : retry_queue'[j] = retry_queue[i]
        BY <3>3, <4>2 DEF CopyWaits
      <4> QED
        BY <2>4, <4>1, <4>2
    <3> QED
      BY <3>1, <3>2, <3>3 DEF CopyWaits
  <2> QED
    BY <1>1, <2>4, <2>5, <2>6 DEF RetryInv
<1>5. CASE Wake
  <2>1. /\ snapshot' = retry_queue /\ flush' = "sending" /\ pushedOut' = {}
        /\ failed' = failed /\ to_remove' = to_remove /\ to_remove = {}
        /\ retry_queue' = [i \in DOMAIN retry_queue |-> [retry_queue[i] EXCEPT !.copied = TRUE]]
    BY <1>0, <1>5 DEF Wake, RetryTypeOK
  <2>2. /\ DOMAIN retry_queue' = DOMAIN retry_queue
        /\ retry_queue' = [i \in DOMAIN retry_queue |-> retry_queue'[i]]
    BY <2>1
  <2>3. \A i \in DOMAIN retry_queue :
          /\ retry_queue'[i] \in AnEntry /\ retry_queue'[i].artist = retry_queue[i].artist
          /\ retry_queue'[i].copied = TRUE
    BY <1>0, <2>1 DEF AnEntry
  <2>4. /\ retry_queue' \in Seq(AnEntry) /\ Len(retry_queue') = Len(retry_queue) /\ StashedOnce'
    BY <1>0, <2>2, <2>3, EntriesStay
  <2>5. RetryTypeOK'
    BY <1>0, <2>1, <2>4 DEF RetryTypeOK
  <2>6. ASSUME NEW b \in Handled' PROVE CopyWaits(b)'
    BY <2>1, <2>2, <2>3, <2>6 DEF Handled, CopyWaits
  <2> QED
    BY <1>1, <2>4, <2>5, <2>6 DEF RetryInv
<1>6. CASE SendNext
  <2>1. /\ snapshot # <<>> /\ flush = "sending" /\ snapshot' = Tail(snapshot)
        /\ to_remove' \subseteq to_remove \cup {Head(snapshot).artist}
        /\ UNCHANGED <<retry_queue, failed, flush, pushedOut>>
    BY <1>6 DEF SendNext
  <2>2. /\ snapshot \in Seq(AnEntry) /\ Tail(snapshot) \in Seq(AnEntry) /\ Head(snapshot) \in AnEntry
        /\ 1 \in DOMAIN snapshot /\ Head(snapshot) = snapshot[1]
        /\ \A i \in DOMAIN Tail(snapshot) :
             i + 1 \in DOMAIN snapshot /\ Tail(snapshot)[i] = snapshot[i + 1]
    BY <1>0, <2>1 DEF RetryTypeOK
  <2>3. Handled' \subseteq Handled
    BY <2>1, <2>2 DEF Handled
  <2>4. RetryTypeOK'
    BY <1>0, <2>1, <2>2 DEF RetryTypeOK, AnEntry
  <2>5. StashedOnce' /\ \A b \in Handled' : b \in pushedOut' \/ CopyWaits(b)'
    BY <1>0, <2>1, <2>3 DEF StashedOnce, CopyWaits
  <2> QED
    BY <1>1, <2>4, <2>5 DEF RetryInv
<1>7. CASE Remove
  <2>1. /\ snapshot = <<>> /\ snapshot' = <<>> /\ failed' = failed
        /\ to_remove' = {} /\ pushedOut' = {} /\ flush' = "asleep"
        /\ retry_queue' = [i \in DOMAIN Kept |-> [Kept[i] EXCEPT !.copied = FALSE]]
    BY <1>7 DEF Remove
  <2>2. /\ Kept \in Seq(AnEntry) /\ Len(Kept) <= RetryCapacity
        /\ \A m, n \in DOMAIN Kept : Kept[m].artist = Kept[n].artist => m = n
    BY <1>0, KeptIs
  <2>3. /\ Len(Kept) \in Nat /\ DOMAIN Kept = 1..Len(Kept)
        /\ \A i \in DOMAIN Kept : Kept[i] \in AnEntry
    BY <2>2
  <2>4. \A i \in DOMAIN Kept : /\ [Kept[i] EXCEPT !.copied = FALSE] \in AnEntry
                               /\ retry_queue'[i].artist = Kept[i].artist
    BY <2>1, <2>3 DEF AnEntry
  <2>5. retry_queue' \in [1..Len(Kept) -> AnEntry]
    BY <2>1, <2>3, <2>4
  <2>6. retry_queue' \in Seq(AnEntry) /\ Len(retry_queue') = Len(Kept)
    BY <2>3, <2>5
  <2>7. StashedOnce'
    BY <2>2, <2>3, <2>4, <2>5 DEF StashedOnce
  <2>8. RetryTypeOK'
    BY <1>0, <2>1, <2>2, <2>6 DEF RetryTypeOK
  <2>9. Handled' = {}
    BY <2>1 DEF Handled
  <2> QED
    BY <1>1, <2>7, <2>8, <2>9 DEF RetryInv
<1>8. CASE RetryTick
  <2>1. /\ retry_queue' = [i \in DOMAIN retry_queue |->
             [retry_queue[i] EXCEPT !.age = IF @ < MaxRetryAge THEN @ + 1 ELSE @]]
        /\ UNCHANGED <<failed, flush, snapshot, to_remove, pushedOut>>
    BY <1>8 DEF RetryTick
  <2>2. /\ DOMAIN retry_queue' = DOMAIN retry_queue
        /\ retry_queue' = [i \in DOMAIN retry_queue |-> retry_queue'[i]]
    BY <2>1
  <2>3. \A i \in DOMAIN retry_queue :
          /\ retry_queue'[i] \in AnEntry /\ retry_queue'[i].artist = retry_queue[i].artist
          /\ retry_queue'[i].copied = retry_queue[i].copied
    BY <1>0, <2>1, RetryAssumption DEF AnEntry, RetryAssumption
  <2>4. /\ retry_queue' \in Seq(AnEntry) /\ Len(retry_queue') = Len(retry_queue) /\ StashedOnce'
    BY <1>0, <2>2, <2>3, EntriesStay
  <2>5. RetryTypeOK'
    BY <1>0, <2>1, <2>4 DEF RetryTypeOK
  <2>6. \A b \in Handled' : b \in pushedOut' \/ CopyWaits(b)'
    BY <1>0, <2>1, <2>2, <2>3 DEF Handled, CopyWaits
  <2> QED
    BY <1>1, <2>4, <2>5, <2>6 DEF RetryInv
<1>9. CASE UNCHANGED retryVars
  BY <1>9 DEF retryVars, RetryInv, RetryTypeOK, StashedOnce, HandledAreCopied
<1> QED
  BY <1>2, <1>3, <1>4, <1>5, <1>6, <1>7, <1>8, <1>9 DEF RetryNext

LEMMA RetryInvariant == RetrySpec => []RetryInv
<1>1. RetryInit => RetryInv
  <2> SUFFICES ASSUME RetryInit PROVE RetryInv
    OBVIOUS
  <2>1. retry_queue = <<>> /\ snapshot = <<>> /\ to_remove = {} /\ DOMAIN retry_queue = {}
    BY DEF RetryInit
  <2>2. retry_queue \in Seq(AnEntry) /\ snapshot \in Seq(AnEntry) /\ Len(retry_queue) = 0
    BY <2>1
  <2>3. RetryTypeOK
    BY <2>1, <2>2, RetryAssumption DEF RetryInit, RetryTypeOK, RetryAssumption
  <2> QED
    BY <2>1, <2>3 DEF RetryInv, StashedOnce, HandledAreCopied
<1> QED
  BY <1>1, RetryStep, PTL DEF RetrySpec

(* The queue of failed requests respects its capacity and the copy the     *)
(* loop works on is gone when it sleeps.                                   *)
THEOREM RetryTypeCorrect == RetrySpec => []RetryTypeOK
<1>1. RetryInv => RetryTypeOK
  BY DEF RetryInv
<1> QED
  BY <1>1, RetryInvariant, PTL

(* The loop loses no request that it has neither sent nor found too old,   *)
(* for any number of requests that come while it sends, and any capacity.  *)
THEOREM OnlyHandledAreRemovedHolds == RetrySpec => OnlyHandledAreRemoved
<1>1. ASSUME RetryInv, RetryNext, flush = "sending", flush' = "asleep"
      PROVE  \A i \in DOMAIN retry_queue : LET e == retry_queue[i] IN
               \/ \E j \in DOMAIN retry_queue' : retry_queue'[j].artist = e.artist
               \/ e.artist \in to_remove /\ (e.copied \/ e.artist \in pushedOut)
  <2> SUFFICES ASSUME NEW i \in DOMAIN retry_queue
               PROVE  \/ \E j \in DOMAIN retry_queue' : retry_queue'[j].artist = retry_queue[i].artist
                      \/ /\ retry_queue[i].artist \in to_remove
                         /\ retry_queue[i].copied \/ retry_queue[i].artist \in pushedOut
    OBVIOUS
  <2>1. RetryTypeOK /\ StashedOnce /\ HandledAreCopied
    BY <1>1 DEF RetryInv
  <2>2. Remove
    BY <1>1 DEF RetryNext, PostFails, EnqueueRetry, Wake, SendNext, RetryTick
  <2>3. CASE i \in Stay
    <3>1. PICK n \in DOMAIN Kept : Kept[n] = retry_queue[i]
      BY <2>1, <2>3, KeptIs
    <3>2. /\ Kept \in Seq(AnEntry)
          /\ retry_queue' = [m \in DOMAIN Kept |-> [Kept[m] EXCEPT !.copied = FALSE]]
      BY <2>1, <2>2, KeptIs DEF Remove
    <3>3. Kept[n] \in AnEntry
      BY <3>2
    <3>4. n \in DOMAIN retry_queue' /\ retry_queue'[n].artist = Kept[n].artist
      BY <3>2, <3>3 DEF AnEntry
    <3> QED
      BY <3>1, <3>4
  <2>4. CASE i \notin Stay
    <3>1. retry_queue[i].artist \in to_remove
      BY <2>4 DEF Stay
    <3>2. \/ retry_queue[i].artist \in pushedOut
          \/ \E j \in DOMAIN retry_queue :
               retry_queue[j].artist = retry_queue[i].artist /\ retry_queue[j].copied
      BY <2>1, <3>1 DEF HandledAreCopied
    <3>3. retry_queue[i].copied \/ retry_queue[i].artist \in pushedOut
      BY <2>1, <3>2 DEF StashedOnce
    <3> QED
      BY <3>1, <3>3
  <2> QED
    BY <2>3, <2>4
<1>2. RetryInv /\ [RetryNext]_retryVars =>
        [flush = "sending" /\ flush' = "asleep" =>
           \A i \in DOMAIN retry_queue : LET e == retry_queue[i] IN
             \/ \E j \in DOMAIN retry_queue' : retry_queue'[j].artist = e.artist
             \/ e.artist \in to_remove /\ (e.copied \/ e.artist \in pushedOut)]_retryVars
  BY <1>1
<1> QED
  BY <1>2, RetryInvariant, PTL DEF RetrySpec, OnlyHandledAreRemoved

-----------------------------------------------------------------------------
(* What readers are told.                                                  *)

Places == {"polling", "has depth", "asking", "answered", "pushed", "closed"}
Reply == [enriching : BOOLEAN, of : Nat]
Entry == [enriching : BOOLEAN, age : 0..Ttl, of : Nat]

Types ==
  /\ StatusConstantsOK
  /\ isPending \in BOOLEAN
  /\ cache \in Entry
  /\ at \in [Reader -> Places]
  /\ reply \in [Reader -> Reply]
  /\ spent \in [Reader -> 0..Timeout]

LEMMA InitIsTyped == StatusConstantsOK /\ StatusInit => Types
<1> SUFFICES ASSUME StatusConstantsOK, StatusInit PROVE Types
  OBVIOUS
<1>1. PICK d \in BOOLEAN : StatusInitWith(d)
  BY DEF StatusInit
<1>2. NoEntry \in Entry /\ NoReply \in Reply
  BY DEF NoEntry, Entry, NoReply, Reply, StatusConstantsOK
<1>3. 0 \in 0..Timeout
  BY DEF StatusConstantsOK
<1>4. reply \in [Reader -> Reply] /\ cache \in Entry
  BY <1>1, <1>2 DEF StatusInitWith
<1>5. spent \in [Reader -> 0..Timeout]
  BY <1>1, <1>3 DEF StatusInitWith
<1>6. at \in [Reader -> Places] /\ isPending \in BOOLEAN
  BY <1>1 DEF StatusInitWith, Places
<1> QED
  BY <1>4, <1>5, <1>6 DEF Types

(* What a push leaves of the reader.                                       *)
LEMMA Pushed ==
  ASSUME Types, NEW r \in Reader, NEW e \in BOOLEAN, NEW n \in Nat, Push(r, e, n)
  PROVE  /\ at' \in [Reader -> Places] /\ reply' \in [Reader -> Reply]
         /\ at'[r] \in {"pushed", "closed"} /\ reply'[r].enriching = e /\ reply'[r].of = n
         /\ \A q \in Reader : q # r => at'[q] = at[q] /\ reply'[q] = reply[q]
<1>1. at' \in [Reader -> Places] /\ at'[r] \in {"pushed", "closed"}
      /\ \A q \in Reader : q # r => at'[q] = at[q]
  BY DEF Types, Push, Goes, Places
<1> DEFINE new == [enriching |-> e, of |-> n]
<1>2. new \in Reply /\ new.enriching = e /\ new.of = n
  BY DEF Reply
<1>3. reply' = [reply EXCEPT ![r] = new] /\ reply \in [Reader -> Reply]
  BY DEF Push, Types
<1> HIDE DEF new, Reply
<1>4. reply' \in [Reader -> Reply] /\ reply'[r] = new /\ \A q \in Reader : q # r => reply'[q] = reply[q]
  BY <1>2, <1>3
<1> QED
  BY <1>1, <1>2, <1>4

(* What the return of a request, answered or failed, leaves.               *)
LEMMA CachedAndPushed ==
  ASSUME Types, NEW r \in Reader, NEW e \in BOOLEAN, NEW n \in Nat, Cached(r, e, n)
  PROVE  /\ Types'
         /\ at'[r] \in {"pushed", "closed"} /\ reply'[r].enriching = e /\ reply'[r].of = n
         /\ \A q \in Reader : q # r => at'[q] = at[q] /\ reply'[q] = reply[q] /\ spent'[q] = spent[q]
         /\ cache'.enriching = e /\ cache'.of = n /\ cache'.age = 0
<1>1. Push(r, e, n)
  BY DEF Cached
<1>2. /\ at' \in [Reader -> Places] /\ reply' \in [Reader -> Reply]
      /\ at'[r] \in {"pushed", "closed"} /\ reply'[r].enriching = e /\ reply'[r].of = n
      /\ \A q \in Reader : q # r => at'[q] = at[q] /\ reply'[q] = reply[q]
  BY <1>1, Pushed
<1>3. cache' = [enriching |-> e, age |-> 0, of |-> n] /\ isPending' = isPending
      /\ spent' = [spent EXCEPT ![r] = 0]
  BY DEF Cached
<1>4. cache' \in Entry /\ cache'.enriching = e /\ cache'.of = n /\ cache'.age = 0
  BY <1>3 DEF Entry, Types, StatusConstantsOK
<1>5. spent' \in [Reader -> 0..Timeout] /\ \A q \in Reader : q # r => spent'[q] = spent[q]
  BY <1>3 DEF Types, StatusConstantsOK
<1>6. StatusConstantsOK' /\ isPending' \in BOOLEAN
  BY <1>3 DEF Types, StatusConstantsOK
<1> QED
  BY <1>2, <1>4, <1>5, <1>6 DEF Types, Entry

(* Time passes for entries, answers and requests alike.                    *)
LEMMA Aged ==
  ASSUME Types, Tick
  PROVE  /\ Types' /\ at' = at
         /\ cache'.enriching = cache.enriching
         /\ cache'.enriching => cache'.of <= cache.of + 1
         /\ cache'.enriching /\ cache'.age < Ttl => cache'.age = cache.age + 1
         /\ \A r \in Reader : /\ reply'[r].enriching = reply[r].enriching
                              /\ reply'[r].of <= reply[r].of + 1
                              /\ at[r] # "answered" => reply'[r] = reply[r]
                              /\ at[r] = "answered" => spent'[r] = spent[r] + 1
<1>1. ASSUME NEW n \in Nat PROVE Older(n) \in Nat /\ Older(n) <= n + 1
  BY DEF Older, Old, Types, StatusConstantsOK
<1>2. /\ cache' \in Entry /\ cache'.enriching = cache.enriching
      /\ cache'.enriching => cache'.of <= cache.of + 1
      /\ cache'.enriching /\ cache'.age < Ttl => cache'.age = cache.age + 1
  <2>1. CASE cache = NoEntry
    <3>1. cache' = NoEntry
      BY <2>1 DEF Tick
    <3>2. cache' = cache /\ cache \in Entry /\ cache.enriching = FALSE
      BY <2>1, <3>1 DEF Types, NoEntry
    <3> QED
      BY <3>2
  <2>2. CASE cache # NoEntry
    <3>1. cache' = [cache EXCEPT !.age = IF cache.age < Ttl THEN cache.age + 1 ELSE cache.age,
                                 !.of = Older(cache.of)]
      BY <2>2 DEF Tick
    <3>2. cache \in Entry /\ cache.of \in Nat /\ cache.age \in 0..Ttl
      BY DEF Types, Entry
    <3>3. Older(cache.of) \in Nat /\ Older(cache.of) <= cache.of + 1
      BY <1>1, <3>2
    <3>4. Ttl \in Nat \ {0}
      BY DEF Types, StatusConstantsOK
    <3>5. CASE cache.age < Ttl
      <4>1. cache' = [cache EXCEPT !.age = cache.age + 1, !.of = Older(cache.of)]
        BY <3>1, <3>5
      <4>2. cache.age + 1 \in 0..Ttl
        BY <3>2, <3>4, <3>5
      <4> QED
        BY <4>1, <4>2, <3>2, <3>3 DEF Entry
    <3>6. CASE ~(cache.age < Ttl)
      <4>1. cache' = [cache EXCEPT !.age = cache.age, !.of = Older(cache.of)]
        BY <3>1, <3>6
      <4>2. cache'.age = cache.age
        BY <4>1, <3>2 DEF Entry
      <4> QED
        BY <4>1, <4>2, <3>2, <3>3, <3>6 DEF Entry
    <3> QED
      BY <3>5, <3>6
  <2> QED
    BY <2>1, <2>2
<1> DEFINE new(r) == IF at[r] = "answered" /\ reply[r].enriching
                     THEN [reply[r] EXCEPT !.of = Older(reply[r].of)] ELSE reply[r]
<1>3. reply' = [r \in Reader |-> new(r)]
  BY DEF Tick
<1>4. ASSUME NEW r \in Reader
      PROVE  /\ new(r) \in Reply /\ new(r).enriching = reply[r].enriching
             /\ new(r).of <= reply[r].of + 1
             /\ at[r] # "answered" => new(r) = reply[r]
  <2>1. reply[r] \in Reply /\ reply[r].of \in Nat
    BY DEF Types, Reply
  <2>2. Older(reply[r].of) \in Nat /\ Older(reply[r].of) <= reply[r].of + 1
    BY <1>1, <2>1
  <2>3. CASE at[r] = "answered" /\ reply[r].enriching
    BY <2>1, <2>2, <2>3 DEF Reply
  <2>4. CASE ~(at[r] = "answered" /\ reply[r].enriching)
    BY <2>1, <2>4
  <2> QED
    BY <2>3, <2>4
<1> HIDE DEF new
<1>5. reply' \in [Reader -> Reply] /\ \A r \in Reader : reply'[r] = new(r)
  BY <1>3, <1>4
<1>6. /\ spent' \in [Reader -> 0..Timeout]
      /\ \A r \in Reader : at[r] = "answered" => spent'[r] = spent[r] + 1
  BY DEF Tick, Asking, Types, StatusConstantsOK
<1>7. at' = at /\ isPending' = isPending /\ StatusConstantsOK'
  BY DEF Tick, Types, StatusConstantsOK
<1> QED
  BY <1>2, <1>4, <1>5, <1>6, <1>7 DEF Types, Entry

-----------------------------------------------------------------------------
(* An entry of age n was true at most the length of a request and n ago,   *)
(* and an answer on its way at most as long ago as its request has taken:  *)
(* the slow reader's answer is old when it is cached as new.               *)

RecencyInv ==
  /\ cache.enriching /\ cache.age < Ttl => cache.of <= Timeout + cache.age
  /\ \A r \in Reader : at[r] = "answered" /\ reply[r].enriching => reply[r].of <= spent[r]
  /\ \A r \in Reader : at[r] = "polling" => reply[r].enriching = FALSE
  /\ ScanningIsRecent

LEMMA StepKeepsRecency == Types /\ RecencyInv /\ [StatusNext]_statusVars => Types' /\ RecencyInv'
<1> SUFFICES ASSUME Types, RecencyInv, [StatusNext]_statusVars PROVE Types' /\ RecencyInv'
  OBVIOUS
<1> USE DEF RecencyInv, ScanningIsRecent
<1>a. StatusConstantsOK /\ StatusConstantsOK' /\ Ttl \in Nat \ {0} /\ Timeout \in Nat \ {0}
  BY DEF Types, StatusConstantsOK
<1>b. cache.of \in Nat /\ cache.age \in 0..Ttl /\ cache.enriching \in BOOLEAN
  BY DEF Types, Entry
<1>c. \A r \in Reader : /\ reply[r].of \in Nat /\ reply[r].enriching \in BOOLEAN
                        /\ spent[r] \in 0..Timeout
  BY DEF Types, Reply
<1>1. CASE Worker \/ UNCHANGED statusVars
  BY <1>1, <1>a DEF Worker, statusVars, Types, Entry
<1>2. CASE Evict
  <2>1. cache' \in Entry /\ cache'.age = Ttl
    BY <1>2, <1>a DEF Evict, NoEntry, Entry
  <2> QED
    BY <1>2, <1>a, <2>1 DEF Evict, Types, Entry
<1>3. CASE Tick
  <2>1. /\ Types' /\ at' = at
        /\ cache'.enriching = cache.enriching
        /\ cache'.enriching => cache'.of <= cache.of + 1
        /\ cache'.enriching /\ cache'.age < Ttl => cache'.age = cache.age + 1
    BY <1>3, Aged
  <2>2. \A r \in Reader : /\ reply'[r].enriching = reply[r].enriching
                          /\ reply'[r].of <= reply[r].of + 1
                          /\ at[r] # "answered" => reply'[r] = reply[r]
                          /\ at[r] = "answered" => spent'[r] = spent[r] + 1
    BY <1>3, Aged
  <2>3. cache'.of \in Nat /\ cache'.age \in 0..Ttl
    BY <2>1 DEF Types, Entry
  <2>4. \A r \in Reader : reply'[r].of \in Nat /\ spent'[r] \in 0..Timeout
    BY <2>1 DEF Types, Reply
  <2>5. cache'.enriching /\ cache'.age < Ttl => cache'.of <= Timeout + cache'.age
    BY <1>a, <1>b, <2>1, <2>3
  <2>6. \A r \in Reader : at'[r] = "answered" /\ reply'[r].enriching => reply'[r].of <= spent'[r]
    BY <1>c, <2>1, <2>2, <2>4
  <2> QED
    BY <2>1, <2>2, <2>5, <2>6
<1>4. ASSUME NEW r \in Reader, GetFetchState(r) \/ Ask(r) \/ Leave(r)
      PROVE  Types' /\ RecencyInv'
  <2>1. /\ reply' = reply /\ cache' = cache /\ isPending' = isPending
        /\ at' \in [Reader -> Places] /\ \A q \in Reader : q # r => at'[q] = at[q]
        /\ at'[r] \in {"has depth", "asking", "closed"}
        /\ at'[r] = "closed" => at[r] \in {"polling", "pushed"}
    BY <1>4 DEF GetFetchState, Ask, Leave, Goes, Types, Places
  <2>2. /\ spent' \in [Reader -> 0..Timeout]
        /\ \A q \in Reader : q # r => spent'[q] = spent[q]
    <3>1. spent' = spent \/ spent' = [spent EXCEPT ![r] = 0]
      BY <1>4 DEF GetFetchState, Ask, Leave
    <3>2. spent \in [Reader -> 0..Timeout] /\ 0 \in 0..Timeout
      BY <1>a DEF Types
    <3> QED
      BY <3>1, <3>2
  <2>3. Types'
    BY <2>1, <2>2, <1>a DEF Types, Entry
  <2> QED
    BY <2>1, <2>2, <2>3
<1>5. ASSUME NEW r \in Reader, PollAgain(r) \/ Open(r)
      PROVE  Types' /\ RecencyInv'
  <2>1. NoReply \in Reply /\ NoReply.enriching = FALSE
    BY DEF NoReply, Reply
  <2>2. /\ reply' = [reply EXCEPT ![r] = NoReply] /\ reply \in [Reader -> Reply]
        /\ cache' = cache /\ isPending' = isPending /\ spent' = spent
    BY <1>5 DEF PollAgain, Open, Types
  <2>3. /\ reply' \in [Reader -> Reply] /\ reply'[r].enriching = FALSE
        /\ \A q \in Reader : q # r => reply'[q] = reply[q]
    BY <2>1, <2>2
  <2>4. /\ at' \in [Reader -> Places] /\ at'[r] = "polling"
        /\ \A q \in Reader : q # r => at'[q] = at[q]
    BY <1>5 DEF PollAgain, Open, Goes, Types, Places
  <2>5. Types'
    BY <2>2, <2>3, <2>4, <1>a DEF Types, Entry
  <2> QED
    BY <2>2, <2>3, <2>4, <2>5
<1>6. ASSUME NEW r \in Reader, FromCache(r)
      PROVE  Types' /\ RecencyInv'
  <2>1. Push(r, cache.enriching, cache.of) /\ cache.age < Ttl
        /\ cache' = cache /\ isPending' = isPending /\ spent' = spent
    BY <1>6 DEF FromCache, IsFresh
  <2>2. /\ at' \in [Reader -> Places] /\ reply' \in [Reader -> Reply]
        /\ at'[r] \in {"pushed", "closed"}
        /\ reply'[r].enriching = cache.enriching /\ reply'[r].of = cache.of
        /\ \A q \in Reader : q # r => at'[q] = at[q] /\ reply'[q] = reply[q]
    BY <2>1, <1>b, Pushed
  <2>3. Types'
    BY <2>1, <2>2, <1>a DEF Types, Entry
  <2>4. cache.enriching => cache.of <= Timeout + Ttl - 1
    BY <2>1, <1>a, <1>b
  <2> QED
    BY <2>1, <2>2, <2>3, <2>4
<1>7. ASSUME NEW r \in Reader, Answer(r)
      PROVE  Types' /\ RecencyInv'
  <2> DEFINE new == [enriching |-> isPending, of |-> 0]
  <2>1. new \in Reply /\ new.of = 0
    BY DEF Reply, Types
  <2>2. /\ reply' = [reply EXCEPT ![r] = new] /\ reply \in [Reader -> Reply]
        /\ cache' = cache /\ isPending' = isPending /\ spent' = spent
    BY <1>7 DEF Answer, Types
  <2> HIDE DEF new
  <2>3. /\ reply' \in [Reader -> Reply] /\ reply'[r].of = 0
        /\ \A q \in Reader : q # r => reply'[q] = reply[q]
    BY <2>1, <2>2
  <2>4. /\ at' \in [Reader -> Places] /\ at'[r] = "answered"
        /\ \A q \in Reader : q # r => at'[q] = at[q]
    BY <1>7 DEF Answer, Goes, Types, Places
  <2>5. Types'
    BY <2>2, <2>3, <2>4, <1>a DEF Types, Entry
  <2>6. 0 <= spent[r]
    BY <1>a, <1>c
  <2> QED
    BY <2>2, <2>3, <2>4, <2>5, <2>6
<1>8. ASSUME NEW r \in Reader, Return(r) \/ Fail(r)
      PROVE  Types' /\ RecencyInv'
  <2>1. PICK e \in BOOLEAN, n \in Nat : Cached(r, e, n) /\ (e => n <= spent[r])
    <3>1. CASE Return(r)
      BY <3>1, <1>c DEF Return
    <3>2. CASE Fail(r)
      BY <3>2 DEF Fail
    <3> QED
      BY <1>8, <3>1, <3>2
  <2>2. /\ Types'
        /\ at'[r] \in {"pushed", "closed"} /\ reply'[r].enriching = e /\ reply'[r].of = n
        /\ \A q \in Reader : q # r => at'[q] = at[q] /\ reply'[q] = reply[q] /\ spent'[q] = spent[q]
        /\ cache'.enriching = e /\ cache'.of = n /\ cache'.age = 0
    BY <2>1, CachedAndPushed
  <2>3. e => n <= Timeout /\ n <= Timeout + Ttl - 1
    BY <2>1, <1>a, <1>c
  <2> QED
    BY <2>2, <2>3, <1>a
<1> QED
  BY <1>1, <1>2, <1>3, <1>4, <1>5, <1>6, <1>7, <1>8 DEF StatusNext, ReaderStep

-----------------------------------------------------------------------------
(* No event says "scanning" of a scan that ended longer ago than a request *)
(* may take and an entry may live, however many slow readers overwrite the *)
(* cache with older answers.                                               *)
THEOREM ScanningIsRecentHolds == StatusConstantsOK /\ StatusSpec => []ScanningIsRecent
<1>1. StatusConstantsOK /\ StatusInit => Types /\ RecencyInv
  <2> SUFFICES ASSUME StatusConstantsOK, StatusInit PROVE Types /\ RecencyInv
    OBVIOUS
  <2>1. Types
    BY InitIsTyped
  <2>2. PICK d \in BOOLEAN : StatusInitWith(d)
    BY DEF StatusInit
  <2>3. /\ cache.enriching = FALSE
        /\ \A r \in Reader : reply[r].enriching = FALSE
    BY <2>2 DEF StatusInitWith, NoEntry, NoReply
  <2> QED
    BY <2>1, <2>3 DEF RecencyInv, ScanningIsRecent
<1>2. RecencyInv => ScanningIsRecent
  BY DEF RecencyInv
<1> QED
  BY <1>1, <1>2, StepKeepsRecency, PTL DEF StatusSpec

=============================================================================

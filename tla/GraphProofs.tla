----------------------------- MODULE GraphProofs -----------------------------
(***************************************************************************)
(* Proofs about the graph that users see.  PathSearch, for every graph of  *)
(* any size: what the search from two ends answers is a path and as short  *)
(* as any, and where it finds none there is none.  GraphApi, for any songs *)
(* and routes and any number of writes meanwhile: what is stored as        *)
(* scanned was asked for, and what is stored is served without Genius.     *)
(* CollabPath, for every graph at Genius, every store and whatever others  *)
(* write and delete meanwhile: a path that FindPath answers exists and is  *)
(* as short as any it could read, and where it answers none the artists    *)
(* are as far apart as it says.                                            *)
(* IdealPath, for every graph, what scans, prunes and replicas make of it  *)
(* meanwhile and every limit: the game's ideal path has hops that were     *)
(* ties, and no chain that lasted is shorter if nothing was missed.        *)
(* EdgeAggregation, for all songs and credits in any order: an edge weighs *)
(* the titles it stands for, and a neighbour with a name has one node.     *)
(***************************************************************************)
EXTENDS PathSearch, GraphApi, CollabPath, IdealPath, EdgeAggregation, FiniteSetTheorems,
        SequenceTheorems, WellFoundedInduction, TLAPS

-----------------------------------------------------------------------------
(* The natural numbers are well founded: shown from the library's facts on *)
(* finite sets, as the initial segments 0..n are ordered like their ends.  *)
LEMMA LeastNat ==
  ASSUME NEW T \in SUBSET Nat, T # {}
  PROVE  \E n \in T : \A m \in T : n <= m
<1> DEFINE U == {0..n : n \in T}
<1>1. U \subseteq FiniteSubsetsOf(Nat) /\ U # {}
  <2>1. \A n \in T : IsFiniteSet(0..n)
    BY FS_Interval
  <2>2. \A n \in T : 0..n \in SUBSET Nat
    OBVIOUS
  <2> QED
    BY <2>1, <2>2 DEF FiniteSubsetsOf
<1>2. PICK x \in U : \A y \in U : ~ (<<y, x>> \in StrictSubsetOrdering(Nat))
  <2> HIDE DEF U
  <2> QED
    BY <1>1, FS_StrictSubsetOrderingWellFounded, WFMin
<1>3. PICK n \in T : x = 0..n
  OBVIOUS
<1>4. ASSUME NEW m \in T, m < n PROVE FALSE
  <2>1. 0..m \in U
    OBVIOUS
  <2>2. 0..m \subseteq 0..n /\ 0..m # 0..n
    BY <1>4
  <2>3. <<0..m, x>> \in StrictSubsetOrdering(Nat)
    <3>1. 0..m \in SUBSET Nat /\ 0..n \in SUBSET Nat
      OBVIOUS
    <3> QED
      BY <2>2, <3>1, <1>3 DEF StrictSubsetOrdering
  <2> QED
    BY <2>1, <2>3, <1>2
<1>5. \A m \in T : n <= m
  BY <1>4
<1> QED
  BY <1>5

-----------------------------------------------------------------------------
(* The invariant.                                                          *)

Types ==
  /\ SearchConstantsOK
  /\ edges \subseteq Pairs
  /\ pred \in [Side -> UNION {[S -> Node \cup {NoNode}] : S \in SUBSET Node}]
  /\ dist \in [Side -> UNION {[S -> Nat] : S \in SUBSET Node}]
  /\ \A s \in Side : DOMAIN dist[s] = Visited(s)
  /\ queue \in [Side -> SUBSET Node]
  /\ \A s \in Side : queue[s] \subseteq Visited(s)
  /\ meetings \subseteq Node
  /\ phase \in Side \cup {"search", "choose", "back", "on", "found", "none"}
  /\ path \in Seq(Node)

(* The tree of a side: distances count the edges to its start.             *)
TreeOf(s) ==
  /\ Start(s) \in Visited(s) /\ dist[s][Start(s)] = 0 /\ pred[s][Start(s)] = NoNode
  /\ \A v \in Visited(s) :
       v # Start(s) => /\ pred[s][v] \in Visited(s) /\ v \in Neighbours(pred[s][v])
                       /\ dist[s][v] = dist[s][pred[s][v]] + 1

(* The layers of a side: what lies before the queue is done with, and the  *)
(* queue is the last layer.                                                *)
LayersOf(s) ==
  /\ \A v \in Visited(s) \ queue[s] : \A w \in Neighbours(v) :
       w \in Visited(s) /\ dist[s][w] <= dist[s][v] + 1
  /\ \A v \in Visited(s) : \A q \in queue[s] : dist[s][v] <= dist[s][q]

SidesInv == \A s \in Side : TreeOf(s) /\ LayersOf(s)

(* No walk is shorter than k. *)
NoneBelow(k) == \A n \in Nat : Walks(n) # {} => k <= n

Linked(p) == \A i \in 1..(Len(p) - 1) : p[i + 1] \in Neighbours(p[i])

(* What is known in each phase.                                            *)
PhaseInv ==
  /\ phase = "search" => Visited("fwd") \cap Visited("bwd") = {}
  /\ phase \in Side \cup {"choose"} =>
       /\ meetings \subseteq Visited("fwd") \cap Visited("bwd")
       /\ \E m \in meetings : NoneBelow(HopsBy(m))
  /\ phase = "back" =>
       /\ path # <<>> /\ Linked(path)
       /\ path[1] \in Visited("fwd") /\ path[Len(path)] \in Visited("bwd")
       /\ NoneBelow(dist["fwd"][path[1]] + (Len(path) - 1) + dist["bwd"][path[Len(path)]])
  /\ phase = "on" =>
       /\ path # <<>> /\ Linked(path)
       /\ path[1] = Src /\ path[Len(path)] \in Visited("bwd")
       /\ NoneBelow((Len(path) - 1) + dist["bwd"][path[Len(path)]])
  /\ phase = "found" => IsPath(path) /\ NoneBelow(Len(path) - 1)
  /\ NoneIsSeparated

SearchInv == Types /\ SidesInv /\ PhaseInv

-----------------------------------------------------------------------------
(* Neighbours are neighbours both ways. *)
LEMMA Symmetric ==
  ASSUME NEW v \in Node, NEW w \in Neighbours(v) PROVE w \in Node /\ v \in Neighbours(w)
<1>1. {v, w} = {w, v}
  OBVIOUS
<1> QED
  BY <1>1 DEF Neighbours

(* What the distances and parents of a side are.                           *)
LEMMA Typed ==
  ASSUME Types, NEW s \in Side
  PROVE  /\ Visited(s) \subseteq Node /\ Start(s) \in Node
         /\ \A v \in Visited(s) : dist[s][v] \in Nat /\ pred[s][v] \in Node \cup {NoNode}
<1>1. PICK S \in SUBSET Node : pred[s] \in [S -> Node \cup {NoNode}]
  BY DEF Types
<1>2. PICK R \in SUBSET Node : dist[s] \in [R -> Nat]
  BY DEF Types
<1>3. S = Visited(s) /\ R = Visited(s)
  BY <1>1, <1>2 DEF Types, Visited
<1> QED
  BY <1>1, <1>2, <1>3 DEF Types, SearchConstantsOK, Start, Side

(* A walk from the start of a side that does not go beyond the queue, or   *)
(* that nothing is left of, stays among what the side has visited, and no  *)
(* node of it is farther than the walk took to it.                         *)
LEMMA WalkIsVisited ==
  ASSUME Types, SidesInv, NEW s \in Side, NEW n \in Nat, NEW w \in [0..n -> Node],
         w[0] = Start(s), \A i \in 0..(n - 1) : w[i + 1] \in Neighbours(w[i]),
         NEW k \in 0..n, queue[s] = {} \/ \E q \in queue[s] : k <= dist[s][q]
  PROVE  \A i \in 0..k : w[i] \in Visited(s) /\ dist[s][w[i]] <= i
<1> DEFINE Good(i) == w[i] \in Visited(s) /\ dist[s][w[i]] <= i
           Bad == {i \in 0..k : ~ Good(i)}
<1>1. SUFFICES ASSUME Bad # {} PROVE FALSE
  OBVIOUS
<1>2. PICK i \in Bad : \A j \in Bad : i <= j
  <2>1. Bad \in SUBSET Nat
    OBVIOUS
  <2> HIDE DEF Bad
  <2> QED
    BY <1>1, <2>1, LeastNat
<1>3. Good(0)
  BY DEF SidesInv, TreeOf
<1>4. i \in 0..k /\ i # 0
  BY <1>2, <1>3
<1>5. i - 1 \in 0..k /\ i - 1 \in 0..(n - 1) /\ (i - 1) + 1 = i
  BY <1>4
<1>6. Good(i - 1)
  <2>1. ~ (i <= i - 1)
    BY <1>4
  <2> QED
    BY <1>2, <1>5, <2>1
<1>7. w[i] \in Neighbours(w[i - 1])
  BY <1>5
<1>8. w[i - 1] \notin queue[s]
  <2>1. SUFFICES ASSUME w[i - 1] \in queue[s] PROVE FALSE
    OBVIOUS
  <2>2. PICK q \in queue[s] : k <= dist[s][q]
    BY <2>1
  <2>3. q \in Visited(s) /\ dist[s][q] \in Nat /\ dist[s][w[i - 1]] \in Nat
    BY <1>6, Typed DEF Types
  <2>4. dist[s][q] <= dist[s][w[i - 1]]
    BY <2>1, <2>3 DEF SidesInv, LayersOf
  <2> QED
    BY <1>4, <1>6, <2>2, <2>3, <2>4
<1>9. w[i] \in Visited(s) /\ dist[s][w[i]] <= dist[s][w[i - 1]] + 1
  BY <1>6, <1>7, <1>8 DEF SidesInv, LayersOf
<1>10. dist[s][w[i]] \in Nat /\ dist[s][w[i - 1]] \in Nat
  BY <1>6, <1>9, Typed
<1>11. Good(i)
  BY <1>4, <1>6, <1>9, <1>10
<1> QED
  BY <1>2, <1>11

(* The walks seen from a side, and back again. *)
LEMMA WalkFrom ==
  ASSUME SearchConstantsOK, NEW n \in Nat, NEW w \in Walks(n), NEW s \in Side
  PROVE  \E r \in [0..n -> Node] :
           /\ r[0] = Start(s) /\ r[n] = Start(Other(s))
           /\ \A i \in 0..(n - 1) : r[i + 1] \in Neighbours(r[i])
           /\ \E b \in [0..n -> Node] :
                /\ b[0] = Start(Other(s)) /\ \A i \in 0..n : b[n - i] = r[i]
                /\ \A i \in 0..(n - 1) : b[i + 1] \in Neighbours(b[i])
<1> DEFINE back == [i \in 0..n |-> w[n - i]]
<1>1. w \in [0..n -> Node] /\ w[0] = Src /\ w[n] = Dst
      /\ \A i \in 0..(n - 1) : w[i + 1] \in Neighbours(w[i])
  BY DEF Walks
<1>2. back \in [0..n -> Node] /\ back[0] = Dst /\ back[n] = Src
  BY <1>1
<1>3. \A i \in 0..n : back[n - i] = w[i] /\ w[n - i] = back[i]
  <2> TAKE i \in 0..n
  <2>1. n - i \in 0..n /\ n - (n - i) = i
    OBVIOUS
  <2> QED
    BY <2>1
<1>4. \A i \in 0..(n - 1) : back[i + 1] \in Neighbours(back[i])
  <2> TAKE i \in 0..(n - 1)
  <2> DEFINE j == n - (i + 1)
  <2>1. j \in 0..(n - 1) /\ j + 1 = n - i /\ i + 1 \in 0..n /\ i \in 0..n /\ j \in 0..n
    OBVIOUS
  <2>2. back[i + 1] = w[j] /\ back[i] = w[j + 1]
    BY <2>1
  <2>3. w[j + 1] \in Neighbours(w[j]) /\ w[j] \in Node
    BY <1>1, <2>1
  <2> QED
    BY <2>2, <2>3, Symmetric
<1> HIDE DEF back
<1>5. CASE s = "fwd"
  BY <1>1, <1>2, <1>3, <1>4, <1>5 DEF Start, Other
<1>6. CASE s = "bwd"
  BY <1>1, <1>2, <1>3, <1>4, <1>6 DEF Start, Other
<1> QED
  BY <1>5, <1>6 DEF Side

(* While the sides have not met, the ends are farther apart than their     *)
(* queues are deep.                                                        *)
LEMMA FarApart ==
  ASSUME Types, SidesInv, Visited("fwd") \cap Visited("bwd") = {},
         NEW s \in Side, NEW q \in queue[s], NEW n \in Nat, Walks(n) # {}
  PROVE  \E e \in queue[Other(s)] : dist[s][q] + dist[Other(s)][e] + 1 <= n
<1> DEFINE o == Other(s)
<1>1. o \in Side /\ Visited(s) \cap Visited(o) = {}
  BY DEF Other, Side
<1>2. PICK r \in [0..n -> Node] :
           /\ r[0] = Start(s) /\ r[n] = Start(o)
           /\ \A i \in 0..(n - 1) : r[i + 1] \in Neighbours(r[i])
           /\ \E b \in [0..n -> Node] :
                /\ b[0] = Start(o) /\ \A i \in 0..n : b[n - i] = r[i]
                /\ \A i \in 0..(n - 1) : b[i + 1] \in Neighbours(b[i])
  <2>1. PICK w \in Walks(n) : TRUE
    OBVIOUS
  <2>2. SearchConstantsOK
    BY DEF Types
  <2> HIDE DEF o
  <2> QED
    BY <2>1, <2>2, WalkFrom, SMTT(30) DEF o
<1>3. PICK b \in [0..n -> Node] :
                /\ b[0] = Start(o) /\ \A i \in 0..n : b[n - i] = r[i]
                /\ \A i \in 0..(n - 1) : b[i + 1] \in Neighbours(b[i])
  BY <1>2
<1> HIDE DEF o
<1>4. q \in Visited(s) /\ dist[s][q] \in Nat
  BY Typed DEF Types
<1>5. \A k \in 0..n : k <= dist[s][q] => r[k] \in Visited(s)
  <2> SUFFICES ASSUME NEW k \in 0..n, k <= dist[s][q] PROVE r[k] \in Visited(s)
    OBVIOUS
  <2>1. \A i \in 0..k : r[i] \in Visited(s) /\ dist[s][r[i]] <= i
    BY <1>2, WalkIsVisited
  <2> QED
    BY <2>1
<1>6. \A k \in 0..n : queue[o] = {} \/ (\E e \in queue[o] : k <= dist[o][e]) => b[k] \in Visited(o)
  <2> SUFFICES ASSUME NEW k \in 0..n, queue[o] = {} \/ (\E e \in queue[o] : k <= dist[o][e])
               PROVE b[k] \in Visited(o)
    OBVIOUS
  <2>1. \A i \in 0..k : b[i] \in Visited(o) /\ dist[o][b[i]] <= i
    BY <1>1, <1>3, WalkIsVisited
  <2> QED
    BY <2>1
<1>7. queue[o] # {}
  <2>1. SUFFICES ASSUME queue[o] = {} PROVE FALSE
    OBVIOUS
  <2>2. b[n] = r[0] /\ b[n] \in Visited(o)
    BY <1>3, <1>6, <2>1
  <2>3. r[0] \in Visited(s)
    BY <1>2 DEF SidesInv, TreeOf
  <2> QED
    BY <1>1, <2>2, <2>3
<1>8. PICK e \in queue[o] : TRUE
  BY <1>7
<1>9. dist[o][e] \in Nat
  BY <1>1, <1>8, Typed DEF Types
<1>10. SUFFICES ASSUME n <= dist[s][q] + dist[o][e] PROVE FALSE
  BY <1>4, <1>8, <1>9 DEF o
<1> DEFINE k == IF dist[s][q] <= n THEN dist[s][q] ELSE n
<1>11. k \in 0..n /\ k <= dist[s][q] /\ n - k \in 0..n /\ n - k <= dist[o][e]
  BY <1>4, <1>9, <1>10
<1> HIDE DEF k
<1>12. r[k] \in Visited(s) /\ b[n - k] \in Visited(o) /\ b[n - k] = r[k]
  BY <1>3, <1>5, <1>6, <1>8, <1>11
<1> QED
  BY <1>1, <1>12

-----------------------------------------------------------------------------
(* What the commit of a layer leaves of its side: what was visited stays,  *)
(* the new layer is added beneath its parents.                             *)
LEMMA Committed ==
  ASSUME Types, NEW s \in Side, NEW f \in Parents(s), Commit(s, f)
  PROVE  /\ Visited(s)' = Visited(s) \cup Found(s)
         /\ \A v \in Visited(s) : pred'[s][v] = pred[s][v] /\ dist'[s][v] = dist[s][v]
         /\ \A w \in Found(s) : /\ w \in Node /\ f[w] \in queue[s] /\ w \in Neighbours(f[w])
                                /\ pred'[s][w] = f[w] /\ dist'[s][w] = dist[s][f[w]] + 1
         /\ queue'[s] = Found(s)
         /\ \A o \in Side : o # s => pred'[o] = pred[o] /\ dist'[o] = dist[o] /\ queue'[o] = queue[o]
         /\ pred' \in [Side -> UNION {[S -> Node \cup {NoNode}] : S \in SUBSET Node}]
         /\ dist' \in [Side -> UNION {[S -> Nat] : S \in SUBSET Node}]
         /\ \A o \in Side : DOMAIN dist'[o] = Visited(o)'
         /\ queue' \in [Side -> SUBSET Node]
         /\ \A o \in Side : queue'[o] \subseteq Visited(o)'
<1> DEFINE V == Visited(s)
           N == Found(s)
           newPred == [w \in V \cup N |-> IF w \in N THEN f[w] ELSE pred[s][w]]
           newDist == [w \in V \cup N |-> IF w \in N THEN dist[s][f[w]] + 1 ELSE dist[s][w]]
<1>1. DOMAIN f = N /\ N \subseteq Node /\ N \cap V = {}
      /\ \A w \in N : f[w] \in queue[s] /\ w \in Neighbours(f[w])
  BY DEF Parents, Found
<1>2. V \subseteq Node /\ \A v \in V : dist[s][v] \in Nat /\ pred[s][v] \in Node \cup {NoNode}
  BY Typed
<1>3. /\ pred \in [Side -> UNION {[S -> Node \cup {NoNode}] : S \in SUBSET Node}]
      /\ dist \in [Side -> UNION {[S -> Nat] : S \in SUBSET Node}]
      /\ queue \in [Side -> SUBSET Node]
      /\ \A o \in Side : DOMAIN dist[o] = DOMAIN pred[o] /\ queue[o] \subseteq DOMAIN pred[o]
  BY DEF Types, Visited
<1>4. \A w \in N : f[w] \in V /\ f[w] \in Node
  BY <1>1, <1>2, <1>3 DEF Visited
<1>5. pred' = [pred EXCEPT ![s] = newPred]
  BY <1>1 DEF Commit
<1>6. dist' = [dist EXCEPT ![s] = newDist]
  BY <1>1 DEF Commit
<1>7. queue' = [queue EXCEPT ![s] = N]
  BY <1>1 DEF Commit
<1>8. newPred \in [V \cup N -> Node \cup {NoNode}] /\ newDist \in [V \cup N -> Nat]
      /\ V \cup N \in SUBSET Node
  BY <1>1, <1>2, <1>4
<1>9. DOMAIN newPred = V \cup N /\ DOMAIN newDist = V \cup N
  OBVIOUS
<1>10. /\ \A v \in V : newPred[v] = pred[s][v] /\ newDist[v] = dist[s][v]
       /\ \A w \in N : newPred[w] = f[w] /\ newDist[w] = dist[s][f[w]] + 1
  BY <1>1
<1> HIDE DEF newPred, newDist, N
<1>11. pred'[s] = newPred /\ dist'[s] = newDist /\ queue'[s] = N
       /\ \A o \in Side : o # s => pred'[o] = pred[o] /\ dist'[o] = dist[o] /\ queue'[o] = queue[o]
  BY <1>3, <1>5, <1>6, <1>7
<1>12. Visited(s)' = V \cup N
  BY <1>9, <1>11 DEF Visited
<1>13. newPred \in UNION {[S -> Node \cup {NoNode}] : S \in SUBSET Node}
       /\ newDist \in UNION {[S -> Nat] : S \in SUBSET Node}
  BY <1>8
<1>14. /\ pred' \in [Side -> UNION {[S -> Node \cup {NoNode}] : S \in SUBSET Node}]
       /\ dist' \in [Side -> UNION {[S -> Nat] : S \in SUBSET Node}]
  BY <1>3, <1>5, <1>6, <1>13
<1>15. queue' \in [Side -> SUBSET Node]
  BY <1>1, <1>3, <1>7
<1>16. \A o \in Side : DOMAIN dist'[o] = DOMAIN pred'[o] /\ queue'[o] \subseteq DOMAIN pred'[o]
  BY <1>3, <1>9, <1>11
<1> QED
  BY <1>1, <1>10, <1>11, <1>12, <1>14, <1>15, <1>16 DEF Visited, N

(* A layer keeps the two sides' trees and layers.                          *)
LEMMA CommitKeepsSides ==
  ASSUME Types, SidesInv, NEW s \in Side, NEW f \in Parents(s), Commit(s, f), edges' = edges
  PROVE  SidesInv'
<1> DEFINE V == Visited(s)
           N == Found(s)
<1>1. /\ Visited(s)' = V \cup N
      /\ \A v \in V : pred'[s][v] = pred[s][v] /\ dist'[s][v] = dist[s][v]
      /\ \A w \in N : /\ w \in Node /\ f[w] \in queue[s] /\ w \in Neighbours(f[w])
                      /\ pred'[s][w] = f[w] /\ dist'[s][w] = dist[s][f[w]] + 1
      /\ queue'[s] = N
      /\ \A o \in Side : o # s => pred'[o] = pred[o] /\ dist'[o] = dist[o] /\ queue'[o] = queue[o]
  BY Committed
<1>2. \A v \in V : v \in Node /\ dist[s][v] \in Nat
  BY Typed
<1>3. queue[s] \subseteq V /\ N \cap V = {}
  BY DEF Types, Found
<1>4. \A v : Neighbours(v)' = Neighbours(v)
  BY DEF Neighbours
<1>5. \A o \in Side : Start(o)' = Start(o)
  BY DEF Start
<1>6. TreeOf(s) /\ LayersOf(s)
  BY DEF SidesInv
<1>7. TreeOf(s)'
  <2>1. Start(s) \in V /\ dist[s][Start(s)] = 0 /\ pred[s][Start(s)] = NoNode
    BY <1>6 DEF TreeOf
  <2>2. ASSUME NEW v \in V, v # Start(s)
        PROVE  /\ pred'[s][v] \in V /\ v \in Neighbours(pred'[s][v])
               /\ dist'[s][v] = dist'[s][pred'[s][v]] + 1
    BY <1>1, <1>6, <2>2 DEF TreeOf
  <2>3. ASSUME NEW w \in N
        PROVE  /\ pred'[s][w] \in V /\ w \in Neighbours(pred'[s][w])
               /\ dist'[s][w] = dist'[s][pred'[s][w]] + 1
    BY <1>1, <1>3, <2>3
  <2> HIDE DEF V, N
  <2> QED
    BY <1>1, <1>4, <1>5, <2>1, <2>2, <2>3 DEF TreeOf
<1>8. \A q, r \in queue[s] : dist[s][q] = dist[s][r]
  BY <1>2, <1>3, <1>6 DEF LayersOf
<1>9. LayersOf(s)'
  <2>1. ASSUME NEW v \in V, NEW w \in Neighbours(v)
        PROVE  w \in V \cup N /\ dist'[s][w] <= dist'[s][v] + 1
    <3>1. CASE v \notin queue[s]
      BY <1>1, <1>2, <1>6, <3>1 DEF LayersOf
    <3>2. CASE v \in queue[s] /\ w \in V
      <4>1. dist[s][w] <= dist[s][v]
        BY <1>6, <3>2 DEF LayersOf
      <4> QED
        BY <1>1, <1>2, <3>2, <4>1
    <3>3. CASE v \in queue[s] /\ w \notin V
      <4>1. w \in N
        BY <3>3 DEF Found, Neighbours
      <4>2. dist'[s][w] = dist[s][f[w]] + 1 /\ dist[s][f[w]] = dist[s][v] /\ dist'[s][v] = dist[s][v]
        BY <1>1, <1>8, <3>3, <4>1
      <4>3. dist[s][v] \in Nat
        BY <1>2
      <4> QED
        BY <4>1, <4>2, <4>3
    <3> QED
      BY <3>1, <3>2, <3>3
  <2>2. ASSUME NEW v \in V \cup N, NEW q \in N PROVE dist'[s][v] <= dist'[s][q]
    <3>1. f[q] \in queue[s] /\ f[q] \in V /\ dist[s][f[q]] \in Nat /\ dist'[s][q] = dist[s][f[q]] + 1
      BY <1>1, <1>2, <1>3
    <3>2. CASE v \in V
      <4>1. dist[s][v] <= dist[s][f[q]] /\ dist[s][v] \in Nat /\ dist'[s][v] = dist[s][v]
        BY <1>1, <1>2, <1>6, <3>1, <3>2 DEF LayersOf
      <4> QED
        BY <3>1, <4>1
    <3>3. CASE v \in N
      <4>1. dist'[s][v] = dist[s][f[v]] + 1 /\ dist[s][f[v]] = dist[s][f[q]]
        BY <1>1, <1>8, <3>1, <3>3
      <4> QED
        BY <3>1, <4>1
    <3> QED
      BY <3>2, <3>3
  <2>3. (V \cup N) \ N \subseteq V
    OBVIOUS
  <2> HIDE DEF V, N
  <2> QED
    BY <1>1, <1>4, <2>1, <2>2, <2>3 DEF LayersOf
<1>10. ASSUME NEW o \in Side, o # s PROVE TreeOf(o)' /\ LayersOf(o)'
  <2>1. Visited(o)' = Visited(o) /\ pred'[o] = pred[o] /\ dist'[o] = dist[o] /\ queue'[o] = queue[o]
    BY <1>1, <1>10 DEF Visited
  <2>2. TreeOf(o) /\ LayersOf(o)
    BY DEF SidesInv
  <2> QED
    BY <1>4, <1>5, <2>1, <2>2 DEF TreeOf, LayersOf
<1> QED
  BY <1>7, <1>9, <1>10 DEF SidesInv

-----------------------------------------------------------------------------
(* One step at a time.                                                     *)

LEMMA InitHolds == SearchConstantsOK /\ SearchInit => SearchInv
<1> SUFFICES ASSUME SearchConstantsOK, NEW graph \in SUBSET Pairs, SearchInitWith(graph) PROVE SearchInv
  BY DEF SearchInit
<1>1. \A s \in Side : Start(s) \in Node
  BY DEF SearchConstantsOK, Start, Side
<1>2. \A s \in Side : /\ pred[s] \in [{Start(s)} -> Node \cup {NoNode}]
                      /\ dist[s] \in [{Start(s)} -> Nat]
                      /\ pred[s][Start(s)] = NoNode /\ dist[s][Start(s)] = 0
                      /\ queue[s] = {Start(s)} /\ Visited(s) = {Start(s)}
                      /\ DOMAIN dist[s] = {Start(s)} /\ {Start(s)} \in SUBSET Node
  BY <1>1 DEF SearchInitWith, Visited
<1>3. \A s \in Side : /\ pred[s] \in UNION {[S -> Node \cup {NoNode}] : S \in SUBSET Node}
                      /\ dist[s] \in UNION {[S -> Nat] : S \in SUBSET Node}
  BY <1>2
<1>4. Types
  <2>1. /\ pred \in [Side -> UNION {[S -> Node \cup {NoNode}] : S \in SUBSET Node}]
        /\ dist \in [Side -> UNION {[S -> Nat] : S \in SUBSET Node}]
    BY <1>3 DEF SearchInitWith
  <2>2. queue \in [Side -> SUBSET Node]
    BY <1>2 DEF SearchInitWith
  <2>3. edges \subseteq Pairs /\ meetings = {} /\ path = <<>> /\ phase \in {"none", "search"}
    BY DEF SearchInitWith
  <2>4. meetings \subseteq Node /\ path \in Seq(Node)
    BY <2>3
  <2>5. \A s \in Side : DOMAIN dist[s] = Visited(s) /\ queue[s] \subseteq Visited(s)
    BY <1>2
  <2> QED
    BY <2>1, <2>2, <2>3, <2>4, <2>5 DEF Types
<1>5. SidesInv
  <2> SUFFICES ASSUME NEW s \in Side PROVE TreeOf(s) /\ LayersOf(s)
    BY DEF SidesInv
  <2>1. Visited(s) = {Start(s)} /\ queue[s] = {Start(s)}
        /\ dist[s][Start(s)] = 0 /\ pred[s][Start(s)] = NoNode
    BY <1>2
  <2>2. TreeOf(s)
    BY <2>1 DEF TreeOf
  <2>3. LayersOf(s)
    BY <2>1 DEF LayersOf
  <2> QED
    BY <2>2, <2>3
<1>6. "fwd" \in Side /\ "bwd" \in Side /\ Start("fwd") = Src /\ Start("bwd") = Dst
      /\ Src # Dst /\ Src \in Node /\ Dst \in Node
  BY DEF Side, Start, SearchConstantsOK
<1>7. phase = "search" => Visited("fwd") \cap Visited("bwd") = {}
  BY <1>2, <1>6
<1>8. NoneIsSeparated
  <2>1. SUFFICES ASSUME Neighbours(Src) = {} \/ Neighbours(Dst) = {} PROVE Separated
    BY DEF SearchInitWith, NoneIsSeparated
  <2>2. CASE Neighbours(Src) = {}
    <3>1. /\ {Src} \in SUBSET Node /\ Src \in {Src} /\ Dst \notin {Src}
          /\ \A v \in {Src} : Neighbours(v) \subseteq {Src}
      BY <1>6, <2>2
    <3> QED
      BY <3>1 DEF Separated
  <2>3. CASE Neighbours(Dst) = {}
    <3>1. \A v \in Node \ {Dst} : Neighbours(v) \subseteq Node \ {Dst}
      BY <2>3, <1>6, Symmetric
    <3> QED
      BY <1>6, <3>1 DEF Separated
  <2> QED
    BY <2>1, <2>2, <2>3
<1>9. phase \in {"none", "search"}
  BY DEF SearchInitWith
<1>10. PhaseInv
  BY <1>7, <1>8, <1>9 DEF PhaseInv, Side
<1> QED
  BY <1>4, <1>5, <1>10 DEF SearchInv

(* Of two disjoint sides, a new layer meets the other one only in itself,  *)
(* and by every meeting the way is the shortest.                           *)
LEMMA Met ==
  ASSUME Types, SidesInv, Visited("fwd") \cap Visited("bwd") = {},
         NEW s \in Side, NEW f \in Parents(s), Commit(s, f), edges' = edges
  PROVE  /\ (Visited("fwd") \cap Visited("bwd"))' = DOMAIN f \cap Visited(Other(s))
         /\ \A m \in DOMAIN f \cap Visited(Other(s)) : NoneBelow(HopsBy(m)')
<1> DEFINE o == Other(s)
<1>1. o \in Side /\ o # s /\ Visited(s) \cap Visited(o) = {}
      /\ Visited("fwd") \cap Visited("bwd") = Visited(s) \cap Visited(o)
      /\ (Visited("fwd") \cap Visited("bwd"))' = Visited(s)' \cap Visited(o)'
  BY DEF Other, Side, Visited
<1>2. DOMAIN f = Found(s)
  BY DEF Parents
<1>3. /\ Visited(s)' = Visited(s) \cup Found(s)
      /\ \A w \in Found(s) : /\ w \in Node /\ f[w] \in queue[s] /\ w \in Neighbours(f[w])
                             /\ pred'[s][w] = f[w] /\ dist'[s][w] = dist[s][f[w]] + 1
      /\ \A u \in Side : u # s => pred'[u] = pred[u] /\ dist'[u] = dist[u] /\ queue'[u] = queue[u]
  BY Committed
<1>4. Visited(o)' = Visited(o) /\ dist'[o] = dist[o]
  BY <1>1, <1>3 DEF Visited
<1>5. (Visited("fwd") \cap Visited("bwd"))' = DOMAIN f \cap Visited(o)
  BY <1>1, <1>2, <1>3, <1>4
<1>6. ASSUME NEW m \in DOMAIN f \cap Visited(o) PROVE NoneBelow(HopsBy(m)')
  <2>1. m \in Found(s) /\ m \in Visited(o)
    BY <1>2
  <2>2. HopsBy(m)' = dist'[s][m] + dist'[o][m]
    <3>1. CASE s = "fwd"
      BY <3>1, <1>1, <2>1, <1>3, <1>4, Typed DEF HopsBy, Other, Side, Types
    <3>2. CASE s = "bwd"
      <4>1. o = "fwd"
        BY <3>2 DEF Other
      <4>2. dist'["fwd"][m] \in Nat
        BY <1>1, <1>4, <2>1, <4>1, Typed
      <4>3. dist'["bwd"][m] \in Nat
        <5>1. f[m] \in queue[s] /\ f[m] \in Visited(s) /\ dist'[s][m] = dist[s][f[m]] + 1
          BY <1>3, <2>1 DEF Types
        <5>2. dist[s][f[m]] \in Nat
          BY <5>1, Typed
        <5> QED
          BY <5>1, <5>2, <3>2
      <4> QED
        BY <3>2, <4>1, <4>2, <4>3 DEF HopsBy
    <3> QED
      BY <3>1, <3>2 DEF Side
  <2>3. f[m] \in queue[s] /\ f[m] \in Visited(s) /\ dist'[s][m] = dist[s][f[m]] + 1
    BY <1>3, <2>1 DEF Types
  <2>4. dist[s][f[m]] \in Nat /\ dist[o][m] \in Nat /\ dist'[o][m] = dist[o][m]
    BY <1>1, <1>4, <2>1, <2>3, Typed
  <2>5. ASSUME NEW n \in Nat, Walks(n) # {} PROVE HopsBy(m)' <= n
    <3>1. PICK e \in queue[o] : dist[s][f[m]] + dist[o][e] + 1 <= n
      BY <2>3, <2>5, FarApart
    <3>2. dist[o][m] <= dist[o][e] /\ dist[o][e] \in Nat
      BY <1>1, <2>1, <3>1, Typed DEF SidesInv, LayersOf, Types
    <3> QED
      BY <2>2, <2>3, <2>4, <3>1, <3>2
  <2> QED
    BY <2>5 DEF NoneBelow
<1> QED
  BY <1>5, <1>6

(* While the search goes on or a meeting is being settled.                 *)
LEMMA ExpandStep == SearchInv /\ Expand => SearchInv'
<1> SUFFICES ASSUME SearchInv, Expand PROVE SearchInv'
  OBVIOUS
<1> DEFINE s == Turn
<1>1. /\ Types /\ SidesInv /\ phase = "search" /\ Visited("fwd") \cap Visited("bwd") = {}
      /\ s \in Side /\ Other(s) \in Side /\ edges' = edges /\ path' = path
  BY DEF SearchInv, PhaseInv, Expand, Turn, Other, Side
<1>2. PICK f \in Parents(s) :
        /\ Commit(s, f)
        /\ meetings' = DOMAIN f \cap Visited(Other(s))
        /\ phase' = IF meetings' = {} THEN "search"
                    ELSE IF queue[Other(s)] = {} THEN "choose" ELSE Other(s)
  BY DEF Expand
<1> HIDE DEF s
<1>3. Types'
  <2>1. DOMAIN f \subseteq Node
    BY DEF Parents, Found
  <2>2. phase' \in Side \cup {"search", "choose"} /\ path' \in Seq(Node) /\ SearchConstantsOK'
        /\ edges' \subseteq Pairs' /\ meetings' \subseteq Node
    BY <1>1, <1>2, <2>1 DEF Types, Pairs, SearchConstantsOK
  <2>3. /\ pred' \in [Side -> UNION {[S -> Node \cup {NoNode}] : S \in SUBSET Node}]
        /\ dist' \in [Side -> UNION {[S -> Nat] : S \in SUBSET Node}]
        /\ \A o \in Side : DOMAIN dist'[o] = Visited(o)'
        /\ queue' \in [Side -> SUBSET Node]
        /\ \A o \in Side : queue'[o] \subseteq Visited(o)'
    BY <1>1, <1>2, Committed
  <2> QED
    BY <2>2, <2>3 DEF Types
<1>4. SidesInv'
  BY <1>1, <1>2, CommitKeepsSides
<1>5. /\ (Visited("fwd") \cap Visited("bwd"))' = meetings'
      /\ \A m \in meetings' : NoneBelow(HopsBy(m)')
  BY <1>1, <1>2, Met
<1>6. \A k : NoneBelow(k)' = NoneBelow(k)
  BY <1>1 DEF NoneBelow, Walks, Neighbours
<1>7. PhaseInv'
  <2>1. CASE meetings' = {}
    BY <1>2, <1>5, <2>1 DEF PhaseInv, NoneIsSeparated, Side
  <2>2. CASE meetings' # {}
    <3>1. phase' \in Side \cup {"choose"}
      BY <1>1, <1>2, <2>2
    <3>2. /\ meetings' \subseteq (Visited("fwd") \cap Visited("bwd"))'
          /\ \E m \in meetings' : NoneBelow(HopsBy(m)')
      BY <1>5, <2>2
    <3>3. \E m \in meetings' : NoneBelow(HopsBy(m))'
      BY <1>1, <3>2 DEF NoneBelow, Walks, Neighbours
    <3> QED
      BY <3>1, <3>2, <3>3 DEF PhaseInv, NoneIsSeparated, Side
  <2> QED
    BY <2>1, <2>2
<1> QED
  BY <1>3, <1>4, <1>7 DEF SearchInv

LEMMA ExpandOtherStep == ASSUME SearchInv, NEW s \in Side, ExpandOther(s) PROVE SearchInv'
<1>1. /\ Types /\ SidesInv /\ phase = s /\ phase' = "choose" /\ Other(s) \in Side
      /\ edges' = edges /\ path' = path
  BY DEF SearchInv, ExpandOther, Other, Side
<1>2. PICK f \in Parents(s) :
        Commit(s, f) /\ meetings' = meetings \cup (DOMAIN f \cap Visited(Other(s)))
  BY DEF ExpandOther
<1>3. /\ Visited(s)' = Visited(s) \cup Found(s)
      /\ \A v \in Visited(s) : dist'[s][v] = dist[s][v]
      /\ \A o \in Side : o # s => pred'[o] = pred[o] /\ dist'[o] = dist[o] /\ queue'[o] = queue[o]
  BY <1>1, <1>2, Committed
<1>4. \A o \in Side : Visited(o) \subseteq Visited(o)' /\ \A v \in Visited(o) : dist'[o][v] = dist[o][v]
  BY <1>3 DEF Visited
<1>5. DOMAIN f = Found(s)
  BY DEF Parents
<1>6. Types'
  <2>1. DOMAIN f \subseteq Node
    BY DEF Parents, Found
  <2>2. phase' \in {"choose"} /\ path' \in Seq(Node) /\ SearchConstantsOK'
        /\ edges' \subseteq Pairs' /\ meetings' \subseteq Node
    BY <1>1, <1>2, <2>1 DEF Types, Pairs, SearchConstantsOK
  <2>3. /\ pred' \in [Side -> UNION {[S -> Node \cup {NoNode}] : S \in SUBSET Node}]
        /\ dist' \in [Side -> UNION {[S -> Nat] : S \in SUBSET Node}]
        /\ \A o \in Side : DOMAIN dist'[o] = Visited(o)'
        /\ queue' \in [Side -> SUBSET Node]
        /\ \A o \in Side : queue'[o] \subseteq Visited(o)'
    BY <1>1, <1>2, Committed
  <2> QED
    BY <2>2, <2>3 DEF Types
<1>7. SidesInv'
  BY <1>1, <1>2, CommitKeepsSides
<1>8. "fwd" \in Side /\ "bwd" \in Side
  BY DEF Side
<1>9. PICK m \in meetings : NoneBelow(HopsBy(m))
  BY <1>1 DEF SearchInv, PhaseInv
<1>10. meetings \subseteq Visited("fwd") \cap Visited("bwd")
  BY <1>1 DEF SearchInv, PhaseInv
<1>11. HopsBy(m)' = HopsBy(m)
  BY <1>4, <1>8, <1>9, <1>10 DEF HopsBy
<1>12. NoneBelow(HopsBy(m))'
  BY <1>1, <1>9, <1>11 DEF NoneBelow, Walks, Neighbours
<1>13. meetings' \subseteq (Visited("fwd") \cap Visited("bwd"))'
  <2>1. DOMAIN f \cap Visited(Other(s)) \subseteq (Visited("fwd") \cap Visited("bwd"))'
    BY <1>1, <1>3, <1>4, <1>5 DEF Other, Side
  <2> QED
    BY <1>2, <1>4, <1>8, <1>10, <2>1
<1>14. PhaseInv'
  BY <1>1, <1>2, <1>9, <1>12, <1>13 DEF PhaseInv, NoneIsSeparated, Side
<1> QED
  BY <1>6, <1>7, <1>14 DEF SearchInv

(* What is left alone by the steps that follow the search.                 *)
LEMMA SidesStay ==
  ASSUME Types, SidesInv, UNCHANGED <<edges, pred, dist, queue, meetings>>,
         path' \in Seq(Node), phase' \in {"back", "on", "found", "none"}
  PROVE  /\ Types' /\ SidesInv'
         /\ Visited("fwd")' = Visited("fwd") /\ Visited("bwd")' = Visited("bwd")
         /\ \A k : NoneBelow(k)' = NoneBelow(k)
         /\ \A v : Neighbours(v)' = Neighbours(v)
         /\ Separated' = Separated
<1>1. \A v : Neighbours(v)' = Neighbours(v)
  BY DEF Neighbours
<1>2. \A s \in Side : Visited(s)' = Visited(s)
  BY DEF Visited
<1>3. Types'
  BY <1>2 DEF Types, SearchConstantsOK, Pairs
<1>4. SidesInv'
  BY <1>1, <1>2 DEF SidesInv, TreeOf, LayersOf, Start
<1>5. \A n : Walks(n)' = Walks(n)
  BY <1>1 DEF Walks
<1>6. \A k : NoneBelow(k)' = NoneBelow(k)
  BY <1>5 DEF NoneBelow
<1>7. Separated' = Separated
  BY <1>1 DEF Separated
<1> QED
  BY <1>1, <1>2, <1>3, <1>4, <1>6, <1>7 DEF Side

LEMMA ChooseStep == SearchInv /\ Choose => SearchInv'
<1> SUFFICES ASSUME SearchInv, Choose PROVE SearchInv'
  OBVIOUS
<1>1. PICK m \in BestMeetings : path' = <<m>>
  BY DEF Choose
<1>2. /\ Types /\ SidesInv /\ phase = "choose" /\ phase' = "back"
      /\ UNCHANGED <<edges, pred, dist, queue, meetings>>
  BY DEF SearchInv, Choose
<1>3. /\ m \in meetings /\ meetings \subseteq Visited("fwd") \cap Visited("bwd")
      /\ \A k \in meetings : HopsBy(m) <= HopsBy(k)
  BY <1>1, <1>2 DEF BestMeetings, SearchInv, PhaseInv
<1>4. m \in Node /\ path' \in Seq(Node) /\ Len(path') = 1 /\ path'[1] = m /\ path' # <<>>
  BY <1>1, <1>2, <1>3 DEF Types
<1>5. /\ Types' /\ SidesInv'
      /\ Visited("fwd")' = Visited("fwd") /\ Visited("bwd")' = Visited("bwd")
      /\ \A k : NoneBelow(k)' = NoneBelow(k)
      /\ \A v : Neighbours(v)' = Neighbours(v)
      /\ Separated' = Separated
  BY <1>2, <1>4, SidesStay
<1>6. PICK b \in meetings : NoneBelow(HopsBy(b))
  BY <1>2 DEF SearchInv, PhaseInv
<1>7. \A k \in meetings : dist["fwd"][k] \in Nat /\ dist["bwd"][k] \in Nat /\ HopsBy(k) \in Nat
  BY <1>2, <1>3, Typed DEF HopsBy, Side
<1>8. NoneBelow(HopsBy(m))
  BY <1>3, <1>6, <1>7 DEF NoneBelow
<1>9. HopsBy(m) = dist["fwd"][m] + (1 - 1) + dist["bwd"][m]
  BY <1>3, <1>7 DEF HopsBy
<1>10. NoneBelow(dist["fwd"][m] + (1 - 1) + dist["bwd"][m])'
  BY <1>2, <1>5, <1>8, <1>9
<1>11. Linked(path')
  BY <1>4 DEF Linked
<1>12. PhaseInv'
  BY <1>2, <1>3, <1>4, <1>5, <1>10, <1>11 DEF PhaseInv, NoneIsSeparated, Linked, Side
<1> QED
  BY <1>5, <1>12 DEF SearchInv

LEMMA WalkBackStep == SearchInv /\ WalkBack => SearchInv'
<1> SUFFICES ASSUME SearchInv, WalkBack PROVE SearchInv'
  OBVIOUS
<1> DEFINE p == pred["fwd"][path[1]]
<1>1. /\ Types /\ SidesInv /\ phase = "back" /\ UNCHANGED <<edges, pred, dist, queue, meetings>>
      /\ "fwd" \in Side /\ "bwd" \in Side /\ Start("fwd") = Src
  BY DEF SearchInv, WalkBack, Side, Start
<1>2. /\ path # <<>> /\ Linked(path)
      /\ path[1] \in Visited("fwd") /\ path[Len(path)] \in Visited("bwd")
      /\ NoneBelow(dist["fwd"][path[1]] + (Len(path) - 1) + dist["bwd"][path[Len(path)]])
  BY <1>1 DEF SearchInv, PhaseInv
<1>3. path \in Seq(Node) /\ Len(path) \in Nat \ {0} /\ NoneIsSeparated
  BY <1>1, <1>2 DEF Types, SearchInv, PhaseInv
<1>4. dist["fwd"][path[1]] \in Nat /\ dist["bwd"][path[Len(path)]] \in Nat
  BY <1>1, <1>2, Typed
<1>5. TreeOf("fwd") /\ NoNode \notin Node
  BY <1>1 DEF SidesInv, Types, SearchConstantsOK
<1>6. CASE p = NoNode
  <2>1. path[1] = Src
    <3>1. SUFFICES ASSUME path[1] # Src PROVE FALSE
      OBVIOUS
    <3>2. p \in Visited("fwd")
      BY <1>1, <1>2, <1>5, <3>1 DEF TreeOf
    <3> QED
      BY <1>1, <1>5, <1>6, <3>2, Typed
  <2>2. dist["fwd"][path[1]] = 0
    BY <1>1, <1>5, <2>1 DEF TreeOf
  <2>3. phase' = "on" /\ path' = path
    BY <1>6 DEF WalkBack
  <2>4. /\ Types' /\ SidesInv'
        /\ Visited("fwd")' = Visited("fwd") /\ Visited("bwd")' = Visited("bwd")
        /\ \A k : NoneBelow(k)' = NoneBelow(k)
        /\ \A v : Neighbours(v)' = Neighbours(v)
        /\ Separated' = Separated
    BY <1>1, <1>3, <2>3, SidesStay
  <2>5. dist["fwd"][path[1]] + (Len(path) - 1) + dist["bwd"][path[Len(path)]]
          = (Len(path) - 1) + dist["bwd"][path[Len(path)]]
    BY <1>3, <1>4, <2>2
  <2>6. NoneBelow((Len(path) - 1) + dist["bwd"][path[Len(path)]])'
    BY <1>1, <1>2, <2>3, <2>4, <2>5
  <2>7. Linked(path)'
    BY <1>2, <2>3, <2>4 DEF Linked
  <2>8. PhaseInv'
    BY <1>2, <1>3, <2>1, <2>3, <2>4, <2>6, <2>7 DEF PhaseInv, NoneIsSeparated, Side
  <2> QED
    BY <2>4, <2>8 DEF SearchInv
<1>7. CASE p # NoNode
  <2>1. path[1] # Src
    BY <1>1, <1>5, <1>7 DEF TreeOf
  <2>2. /\ p \in Visited("fwd") /\ path[1] \in Neighbours(p)
        /\ dist["fwd"][path[1]] = dist["fwd"][p] + 1
    BY <1>1, <1>2, <1>5, <2>1 DEF TreeOf
  <2>3. p \in Node /\ dist["fwd"][p] \in Nat
    BY <1>1, <2>2, Typed
  <2>4. phase' = "back" /\ path' = <<p>> \o path
    BY <1>1, <1>7 DEF WalkBack
  <2> HIDE DEF p
  <2>5. /\ path' \in Seq(Node) /\ Len(path') = Len(path) + 1 /\ path' # <<>> /\ path'[1] = p
        /\ \A i \in 1..Len(path) : path'[i + 1] = path[i]
    BY <1>3, <2>3, <2>4
  <2>6. /\ Types' /\ SidesInv'
        /\ Visited("fwd")' = Visited("fwd") /\ Visited("bwd")' = Visited("bwd")
        /\ \A k : NoneBelow(k)' = NoneBelow(k)
        /\ \A v : Neighbours(v)' = Neighbours(v)
        /\ Separated' = Separated
    BY <1>1, <2>4, <2>5, SidesStay
  <2>7. path'[Len(path')] = path[Len(path)]
    BY <1>3, <2>5
  <2>8. \A i \in 1..(Len(path') - 1) : path'[i + 1] \in Neighbours(path'[i])
    <3> SUFFICES ASSUME NEW i \in 1..(Len(path') - 1) PROVE path'[i + 1] \in Neighbours(path'[i])
      OBVIOUS
    <3>1. CASE i = 1
      BY <1>3, <2>2, <2>5, <3>1
    <3>2. CASE i # 1
      <4>1. i - 1 \in 1..(Len(path) - 1) /\ i \in 1..Len(path) /\ i - 1 \in 1..Len(path)
        BY <1>3, <2>5, <3>2
      <4>2. path'[i + 1] = path[i] /\ path'[(i - 1) + 1] = path[i - 1] /\ (i - 1) + 1 = i
        BY <2>5, <4>1
      <4>3. path[(i - 1) + 1] \in Neighbours(path[i - 1])
        BY <1>2, <4>1 DEF Linked
      <4> QED
        BY <4>1, <4>2, <4>3
    <3> QED
      BY <3>1, <3>2
  <2>9. dist["fwd"][p] + (Len(path') - 1) + dist["bwd"][path'[Len(path')]]
          = dist["fwd"][path[1]] + (Len(path) - 1) + dist["bwd"][path[Len(path)]]
    <3>1. dist["bwd"][path'[Len(path')]] = dist["bwd"][path[Len(path)]]
      BY <2>7
    <3>2. \A a, b, c, d \in Nat : a = d + 1 => d + ((b + 1) - 1) + c = a + (b - 1) + c
      OBVIOUS
    <3>3. dist["fwd"][path[1]] \in Nat /\ dist["bwd"][path[Len(path)]] \in Nat
          /\ dist["fwd"][p] \in Nat /\ Len(path) \in Nat
      BY <1>3, <1>4, <2>3
    <3>4. dist["fwd"][path[1]] = dist["fwd"][p] + 1
      BY <2>2
    <3>5. dist["fwd"][p] + ((Len(path) + 1) - 1) + dist["bwd"][path[Len(path)]]
            = dist["fwd"][path[1]] + (Len(path) - 1) + dist["bwd"][path[Len(path)]]
      <4> DEFINE a == dist["fwd"][path[1]]
                 c == dist["bwd"][path[Len(path)]]
                 d == dist["fwd"][p]
                 b == Len(path)
      <4>1. a \in Nat /\ b \in Nat /\ c \in Nat /\ d \in Nat /\ a = d + 1
        BY <3>3, <3>4
      <4> HIDE DEF a, b, c, d
      <4>2. d + ((b + 1) - 1) + c = a + (b - 1) + c
        BY <4>1, <3>2
      <4> QED
        BY <4>2 DEF a, b, c, d
    <3> QED
      BY <2>5, <3>1, <3>5
  <2>10. NoneBelow(dist["fwd"][p] + (Len(path') - 1) + dist["bwd"][path'[Len(path')]])
    BY <1>2, <2>9
  <2>11. NoneBelow(dist["fwd"][path[1]] + (Len(path) - 1) + dist["bwd"][path[Len(path)]])'
    BY <1>1, <2>5, <2>6, <2>10
  <2>12. PhaseInv'
    BY <1>2, <1>3, <2>2, <2>4, <2>5, <2>6, <2>7, <2>8, <2>11
    DEF PhaseInv, NoneIsSeparated, Linked, Side
  <2> QED
    BY <2>6, <2>12 DEF SearchInv
<1> QED
  BY <1>6, <1>7

LEMMA WalkOnStep == SearchInv /\ WalkOn => SearchInv'
<1> SUFFICES ASSUME SearchInv, WalkOn PROVE SearchInv'
  OBVIOUS
<1> DEFINE last == path[Len(path)]
           p == pred["bwd"][last]
<1>1. /\ Types /\ SidesInv /\ phase = "on" /\ UNCHANGED <<edges, pred, dist, queue, meetings>>
      /\ "bwd" \in Side /\ Start("bwd") = Dst
  BY DEF SearchInv, WalkOn, Side, Start
<1>2. /\ path # <<>> /\ Linked(path)
      /\ path[1] = Src /\ last \in Visited("bwd")
      /\ NoneBelow((Len(path) - 1) + dist["bwd"][last])
  BY <1>1 DEF SearchInv, PhaseInv
<1>3. path \in Seq(Node) /\ Len(path) \in Nat \ {0} /\ NoneIsSeparated
  BY <1>1, <1>2 DEF Types, SearchInv, PhaseInv
<1>4. dist["bwd"][last] \in Nat
  BY <1>1, <1>2, Typed
<1>5. TreeOf("bwd") /\ NoNode \notin Node
  BY <1>1 DEF SidesInv, Types, SearchConstantsOK
<1>6. CASE p = NoNode
  <2>1. last = Dst
    <3>1. SUFFICES ASSUME last # Dst PROVE FALSE
      OBVIOUS
    <3>2. p \in Visited("bwd")
      BY <1>1, <1>2, <1>5, <3>1 DEF TreeOf
    <3> QED
      BY <1>1, <1>5, <1>6, <3>2, Typed
  <2>2. dist["bwd"][last] = 0
    BY <1>1, <1>5, <2>1 DEF TreeOf
  <2>3. phase' = "found" /\ path' = path
    BY <1>6 DEF WalkOn
  <2>4. /\ Types' /\ SidesInv'
        /\ \A k : NoneBelow(k)' = NoneBelow(k)
        /\ \A v : Neighbours(v)' = Neighbours(v)
        /\ Separated' = Separated
    BY <1>1, <1>3, <2>3, SidesStay
  <2>5. (Len(path) - 1) + dist["bwd"][last] = Len(path) - 1
    BY <1>3, <2>2
  <2>6. NoneBelow(Len(path) - 1)
    BY <1>2, <2>5
  <2>7. NoneBelow(Len(path) - 1)'
    BY <2>3, <2>4, <2>6
  <2>8. IsPath(path)'
    BY <1>2, <2>1, <2>3, <2>4 DEF IsPath, Linked
  <2>9. PhaseInv'
    BY <1>3, <2>3, <2>4, <2>7, <2>8 DEF PhaseInv, NoneIsSeparated, Side
  <2> QED
    BY <2>4, <2>9 DEF SearchInv
<1>7. CASE p # NoNode
  <2>1. last # Dst
    BY <1>1, <1>5, <1>7 DEF TreeOf
  <2>2. /\ p \in Visited("bwd") /\ last \in Neighbours(p)
        /\ dist["bwd"][last] = dist["bwd"][p] + 1
    BY <1>1, <1>2, <1>5, <2>1 DEF TreeOf
  <2>3. p \in Node /\ dist["bwd"][p] \in Nat /\ p \in Neighbours(last)
    BY <1>1, <2>2, Typed, Symmetric
  <2>4. phase' = "on" /\ path' = Append(path, p)
    BY <1>1, <1>7 DEF WalkOn
  <2> HIDE DEF p
  <2>5. /\ path' \in Seq(Node) /\ Len(path') = Len(path) + 1 /\ path' # <<>>
        /\ path'[Len(path')] = p /\ \A i \in 1..Len(path) : path'[i] = path[i]
    BY <1>3, <2>3, <2>4
  <2>6. /\ Types' /\ SidesInv'
        /\ Visited("bwd")' = Visited("bwd")
        /\ \A k : NoneBelow(k)' = NoneBelow(k)
        /\ \A v : Neighbours(v)' = Neighbours(v)
        /\ Separated' = Separated
    BY <1>1, <2>4, <2>5, SidesStay
  <2>7. \A i \in 1..(Len(path') - 1) : path'[i + 1] \in Neighbours(path'[i])
    <3> SUFFICES ASSUME NEW i \in 1..(Len(path') - 1) PROVE path'[i + 1] \in Neighbours(path'[i])
      OBVIOUS
    <3>1. CASE i = Len(path)
      BY <1>3, <2>3, <2>5, <3>1
    <3>2. CASE i # Len(path)
      <4>1. i \in 1..(Len(path) - 1) /\ i \in 1..Len(path) /\ i + 1 \in 1..Len(path)
        BY <1>3, <2>5, <3>2
      <4> QED
        BY <1>2, <2>5, <4>1 DEF Linked
    <3> QED
      BY <3>1, <3>2
  <2>8. (Len(path') - 1) + dist["bwd"][p] = (Len(path) - 1) + dist["bwd"][last]
    BY <1>3, <1>4, <2>2, <2>3, <2>5
  <2>9. NoneBelow((Len(path') - 1) + dist["bwd"][p])
    BY <1>2, <2>8
  <2>10. NoneBelow((Len(path) - 1) + dist["bwd"][path[Len(path)]])'
    BY <1>1, <2>5, <2>6, <2>9
  <2>11. path'[1] = Src
    BY <1>2, <1>3, <2>5
  <2>12. PhaseInv'
    BY <1>3, <2>2, <2>4, <2>5, <2>6, <2>7, <2>10, <2>11
    DEF PhaseInv, NoneIsSeparated, Linked, Side
  <2> QED
    BY <2>6, <2>12 DEF SearchInv
<1> QED
  BY <1>6, <1>7

LEMMA GiveUpStep == SearchInv /\ GiveUp => SearchInv'
<1> SUFFICES ASSUME SearchInv, GiveUp PROVE SearchInv'
  OBVIOUS
<1>1. /\ Types /\ SidesInv /\ Visited("fwd") \cap Visited("bwd") = {} /\ queue["fwd"] = {}
      /\ phase' = "none" /\ UNCHANGED <<edges, pred, dist, queue, meetings, path>>
      /\ "fwd" \in Side /\ "bwd" \in Side /\ Start("fwd") = Src /\ Start("bwd") = Dst
  BY DEF SearchInv, PhaseInv, GiveUp, Side, Start
<1>2. /\ Types' /\ SidesInv' /\ Separated' = Separated
  BY <1>1, SidesStay DEF Types
<1>3. Separated
  <2>1. Src \in Visited("fwd") /\ Dst \in Visited("bwd") /\ Visited("fwd") \in SUBSET Node
    BY <1>1, Typed DEF SidesInv, TreeOf
  <2>2. \A v \in Visited("fwd") : Neighbours(v) \subseteq Visited("fwd")
    BY <1>1 DEF SidesInv, LayersOf
  <2> QED
    BY <1>1, <2>1, <2>2 DEF Separated
<1>4. PhaseInv'
  BY <1>1, <1>2, <1>3 DEF PhaseInv, NoneIsSeparated, Side
<1> QED
  BY <1>2, <1>4 DEF SearchInv

LEMMA SearchStays == SearchInv /\ UNCHANGED searchVars => SearchInv'
<1> SUFFICES ASSUME SearchInv, UNCHANGED searchVars PROVE SearchInv'
  OBVIOUS
<1>1. UNCHANGED <<edges, pred, dist, queue, meetings, phase, path>>
  BY DEF searchVars
<1>2. \A v : Neighbours(v)' = Neighbours(v)
  BY <1>1 DEF Neighbours
<1>3. \A s \in Side : Visited(s)' = Visited(s)
  BY <1>1 DEF Visited
<1>4. Types'
  BY <1>1, <1>3 DEF SearchInv, Types, SearchConstantsOK, Pairs
<1>5. SidesInv'
  BY <1>1, <1>2, <1>3 DEF SearchInv, SidesInv, TreeOf, LayersOf, Start
<1>6. \A n : Walks(n)' = Walks(n)
  BY <1>2 DEF Walks
<1>7. \A k : NoneBelow(k)' = NoneBelow(k)
  BY <1>6 DEF NoneBelow
<1>8. Separated' = Separated
  BY <1>2 DEF Separated
<1>9. \A m : NoneBelow(HopsBy(m))' = NoneBelow(HopsBy(m))
  BY <1>1, <1>6 DEF NoneBelow, HopsBy
<1>10. Linked(path)' = Linked(path) /\ IsPath(path)' = IsPath(path)
  BY <1>1, <1>2 DEF Linked, IsPath
<1>11. "fwd" \in Side /\ "bwd" \in Side
  BY DEF Side
<1>12. PhaseInv'
  BY <1>1, <1>3, <1>6, <1>8, <1>9, <1>10, <1>11 DEF SearchInv, PhaseInv, NoneIsSeparated, NoneBelow
<1> QED
  BY <1>4, <1>5, <1>12 DEF SearchInv

(* The search is right for every graph: what it answers is a path and as   *)
(* short as any, and it answers none only where there is none              *)
(* (analytics.cpp:113).                                                    *)
THEOREM ShortestIsFoundHolds == SearchConstantsOK /\ SearchSpec => []ShortestIsFound
<1>1. SearchConstantsOK /\ SearchInit => SearchInv
  BY InitHolds
<1>2. SearchInv /\ [SearchNext]_searchVars => SearchInv'
  BY ExpandStep, ExpandOtherStep, ChooseStep, WalkBackStep, WalkOnStep, GiveUpStep, SearchStays
  DEF SearchNext
<1>3. SearchInv => ShortestIsFound
  <2> SUFFICES ASSUME SearchInv PROVE ShortestIsFound
    OBVIOUS
  <2>1. ASSUME phase = "found", NEW n \in 0..(Len(path) - 2) PROVE Walks(n) = {}
    <3>1. NoneBelow(Len(path) - 1) /\ path \in Seq(Node)
      BY <2>1 DEF SearchInv, PhaseInv, Types
    <3>2. Len(path) \in Nat /\ n \in Nat /\ ~ (Len(path) - 1 <= n)
      BY <3>1
    <3> QED
      BY <3>1, <3>2 DEF NoneBelow
  <2> QED
    BY <2>1 DEF ShortestIsFound, PathIsReal, SearchInv, PhaseInv
<1> QED
  BY <1>1, <1>2, <1>3, PTL DEF SearchSpec


-----------------------------------------------------------------------------
(* A request to the public API.                                            *)

Statuses ==
  {"", "200", "200 ambiguous", "200 empty", "200 no_path", "304", "400 bad_request",
   "401 invalid_api_key", "401 not_authenticated", "401 token_invalid", "404 not_found",
   "404 resolve_failed", "404 no edge", "422 no_genius_token", "429 rate limit",
   "500 internal_error", "502 genius_error", "503 genius_error", "503 client_cancelled",
   "503 deadline_exceeded"}
Steps == {"lookup", "depth", "resolve", "find", "ask", "place", "songs", "fetch", "edge", "tag", "done"}
Tokens == {"good", "stale", "none"}

ApiRequest ==
  [at : Steps, status : Statuses, route : AllRoutes, caller : AllCallers, token : Tokens,
   limited : BOOLEAN, cached : BOOLEAN, seed : BOOLEAN, data : SUBSET ApiSong, unasked : BOOLEAN]
StoredArtist == [known : BOOLEAN, depth : 0..DepthFull, count : Nat, songs : SUBSET ApiSong, ts : Nat]

ApiTypes ==
  /\ ApiConstantsOK
  /\ table \in StoredArtist /\ (table.depth > 0 => table.known)
  /\ writes \in Nat /\ lost \in BOOLEAN
  /\ req \in {NoRequest} \cup ApiRequest

Admitted(r) == r.caller \notin {"bad key", "nobody"}

(* What a request without a token may still reach: only a guest's, or one  *)
(* whose artist was in the tables when its depth was read, goes on to the  *)
(* songs without one.                                                      *)
TokenInv(r) ==
  /\ r.at # "done" => Admitted(r)
  /\ r.at = "lookup" => r.route \in {"graph", "edge", "artist"}
  /\ r.at = "depth" => r.route = "graph"
  /\ r.at = "lookup" /\ r.route # "graph" /\ r.token = "none" => r.caller = "guest"
  /\ r.at \in {"lookup", "depth"} /\ ~HasSession(r.caller) => r.token # "none"
  /\ r.at = "resolve" => r.token # "none"
  /\ r.at \in {"songs", "fetch"} /\ r.token = "none" =>
       r.caller = "guest" \/ lost \/ (r.at = "songs" /\ ~r.limited /\ table.depth >= DepthForeground)
  /\ r.unasked => r.caller = "guest" \/ lost

Served ==
  {"200", "200 ambiguous", "304", "404 no edge", "400 bad_request", "429 rate limit"}

(* A request for what is in the tables goes to no step that asks Genius.   *)
InTables(r) ==
  r.route \in {"graph", "edge"} /\ r.cached /\ ~r.limited /\ ~lost /\ Admitted(r)

ServedInv(r) ==
  InTables(r) =>
    /\ table.depth >= DepthForeground
    /\ r.at \in {"lookup", "depth", "songs", "edge", "tag", "done"}
    /\ r.at = "depth" => r.seed
    /\ r.at = "done" => r.status \in Served

ApiInv == ApiTypes /\ (req.at # "idle" => TokenInv(req) /\ ServedInv(req))

LEMMA StoredTypes ==
  ASSUME ApiTypes
  PROVE  table.depth \in 0..2 /\ table.known \in BOOLEAN /\ (table.depth >= 1 => table.known)
<1>1. table \in StoredArtist /\ (table.depth > 0 => table.known)
  BY DEF ApiTypes
<1>2. table.depth \in 0..2 /\ table.known \in BOOLEAN
  BY <1>1 DEF StoredArtist, DepthFull
<1> QED
  BY <1>1, <1>2

LEMMA Requested == ApiTypes /\ req.at # "idle" => req \in ApiRequest
BY DEF ApiTypes, NoRequest

(* The request answers, and tells the truth about what is in the tables.   *)
LEMMA Answering ==
  ASSUME ApiInv, req.at # "idle", NEW status \in Statuses, Answer(status),
         InTables(req) => status \in Served,
         UNCHANGED <<table, writes, lost>>
  PROVE  ApiInv'
<1>1. ApiTypes /\ TokenInv(req) /\ ServedInv(req)
  BY DEF ApiInv
<1>2. req \in ApiRequest
  BY <1>1, Requested
<1>3. /\ req' \in ApiRequest /\ req'.at = "done" /\ req'.status = status
      /\ req'.route = req.route /\ req'.caller = req.caller /\ req'.limited = req.limited
      /\ req'.cached = req.cached /\ req'.unasked = req.unasked
  BY <1>2 DEF Answer, ApiRequest, Steps
<1> HIDE DEF Statuses, Steps
<1>4. ApiTypes'
  BY <1>1, <1>3 DEF ApiTypes, ApiConstantsOK
<1>5. TokenInv(req)'
  BY <1>1, <1>3 DEF TokenInv
<1>6. ServedInv(req)'
  BY <1>1, <1>3 DEF ServedInv, InTables, Admitted
<1> QED
  BY <1>4, <1>5, <1>6 DEF ApiInv

(* The request goes on to another step, with what it has.                  *)
LEMMA Proceeding ==
  ASSUME ApiInv, req.at \notin {"idle", "done"}, NEW step \in Steps \ {"lookup", "depth", "done"},
         Proceed(step),
         step = "resolve" => req.token # "none",
         step = "fetch" => FALSE,
         step = "songs" /\ req.token = "none" => req.caller = "guest",
         InTables(req) => step \in {"songs", "edge", "tag"},
         UNCHANGED <<table, writes, lost>>
  PROVE  ApiInv'
<1>1. ApiTypes /\ TokenInv(req) /\ ServedInv(req)
  BY DEF ApiInv
<1>2. req \in ApiRequest
  BY <1>1, Requested
<1>3. /\ req' \in ApiRequest /\ req'.at = step /\ req'.token = req.token
      /\ req'.route = req.route /\ req'.caller = req.caller /\ req'.limited = req.limited
      /\ req'.cached = req.cached /\ req'.unasked = req.unasked
  BY <1>2 DEF Proceed, ApiRequest
<1>4. ApiTypes'
  BY <1>1, <1>3 DEF ApiTypes, ApiConstantsOK
<1>5. TokenInv(req)'
  BY <1>1, <1>3 DEF TokenInv, Admitted, Steps
<1>6. ServedInv(req)'
  BY <1>1, <1>3 DEF ServedInv, InTables, Admitted
<1> QED
  BY <1>4, <1>5, <1>6 DEF ApiInv

LEMMA FailuresAnswer ==
  ASSUME NEW token PROVE Failures(token) \subseteq Statuses /\ Refused(token) \ {"no artist"} \subseteq Statuses
BY DEF Failures, Refused, Statuses

LEMMA ApiBegins == ApiConstantsOK /\ ApiInit => ApiInv
<1> SUFFICES ASSUME ApiConstantsOK, ApiInit PROVE ApiInv
  OBVIOUS
<1>1. req = NoRequest /\ writes = 0 /\ lost = FALSE
  BY DEF ApiInit, ApiInitWith
<1>2. table \in StoredArtist /\ table.depth = 0
  <2>1. PICK row \in {NotStored} \cup
               [known : {TRUE}, depth : {0}, count : {0}, songs : SUBSET ApiSong, ts : {0}] :
          table = row
    BY DEF ApiInit, ApiInitWith
  <2>2. row = NotStored => row \in StoredArtist /\ row.depth = 0
    BY DEF NotStored, StoredArtist, DepthFull
  <2>3. ASSUME row \in [known : {TRUE}, depth : {0}, count : {0}, songs : SUBSET ApiSong, ts : {0}]
        PROVE  row \in StoredArtist /\ row.depth = 0
    <3>1. PICK songs \in SUBSET ApiSong :
            row = [known |-> TRUE, depth |-> 0, count |-> 0, songs |-> songs, ts |-> 0]
      BY <2>3
    <3> QED
      BY <3>1 DEF StoredArtist, DepthFull
  <2> QED
    BY <2>1, <2>2, <2>3
<1>3. req.at = "idle"
  BY <1>1 DEF NoRequest
<1>4. ~(table.depth > 0)
  BY <1>2
<1> QED
  BY <1>1, <1>2, <1>3, <1>4 DEF ApiInv, ApiTypes

LEMMA Comparable == ASSUME NEW d \in 0..2 PROVE (d >= 1) \in BOOLEAN
<1>1. d \in Int
  OBVIOUS
<1> QED
  BY <1>1

LEMMA ReceiveStep ==
  ASSUME ApiInv, NEW r \in Routes, NEW c \in Callers, NEW limited \in BOOLEAN, Receive(r, c, limited)
  PROVE  ApiInv'
<1>1. ApiTypes /\ r \in AllRoutes /\ c \in AllCallers
  BY DEF ApiInv, ApiTypes, ApiConstantsOK
<1>2. PICK refusal \in Refusals(r, c) \cup (IF Unlimited(r) THEN {} ELSE {"429 rate limit"}) :
        req' = [at |-> IF refusal = "" THEN FirstStep(r) ELSE "done", status |-> refusal,
                route |-> r, caller |-> c, token |-> TokenAtGate(r, c),
                limited |-> limited /\ r = "graph",
                cached |-> table.depth >= DepthForeground, seed |-> FALSE,
                data |-> {}, unasked |-> FALSE]
  BY DEF Receive
<1>3. refusal \in Statuses /\ (refusal = "" => c \notin {"bad key", "nobody"})
      /\ (refusal = "" /\ c = "guest" => ~NeedsToken(r))
      /\ (c \notin {"bad key", "nobody"} /\ r \in {"graph", "edge"} => refusal \in Served \cup {""})
  BY <1>1, <1>2 DEF Refusals, Statuses, AllRoutes, AllCallers, NeedsToken, Unlimited, Served
<1>4. FirstStep(r) \in Steps \ {"depth", "done"}
      /\ (FirstStep(r) = "lookup" <=> r \in {"graph", "edge", "artist"})
      /\ (FirstStep(r) = "resolve" <=> r \in {"deepen", "path"})
      /\ FirstStep(r) \notin {"songs", "fetch"}
  BY <1>1 DEF FirstStep, AllRoutes, Steps
<1>5. TokenAtGate(r, c) \in Tokens
      /\ (TokenAtGate(r, c) = "none" =>
            c \in {"guest", "bad key", "nobody"} \/ (r = "graph" /\ HasSession(c)))
  BY <1>1 DEF TokenAtGate, TokenOf, Tokens, AllCallers
<1>6. (table.depth >= DepthForeground) \in BOOLEAN /\ (limited /\ r = "graph") \in BOOLEAN
  <2>1. table.depth \in 0..2
    BY <1>1, StoredTypes
  <2>2. (table.depth >= 1) \in BOOLEAN
    BY <2>1, Comparable
  <2>3. (limited /\ r = "graph") \in BOOLEAN
    OBVIOUS
  <2> QED
    BY <2>2, <2>3 DEF DepthForeground
<1>7. req' \in ApiRequest
  BY <1>1, <1>2, <1>3, <1>4, <1>5, <1>6 DEF ApiRequest, Steps
<1>8. ApiTypes'
  BY <1>1, <1>7 DEF Receive, ApiTypes, ApiConstantsOK
<1>9. TokenInv(req)'
  BY <1>2, <1>3, <1>4, <1>5 DEF TokenInv, Admitted, NeedsToken, HasSession
<1>10. ServedInv(req)'
  BY <1>1, <1>2, <1>3, <1>4 DEF ServedInv, InTables, Admitted, Receive
<1> QED
  BY <1>8, <1>9, <1>10 DEF ApiInv
(* Steps that answer, or go on, whatever they read.                        *)
LEMMA LookUpStep == ASSUME ApiInv, LookUpArtist PROVE ApiInv'
<1>1. /\ ApiTypes /\ TokenInv(req) /\ ServedInv(req) /\ req.at = "lookup"
      /\ UNCHANGED <<table, held, writes, lost>>
  BY DEF ApiInv, LookUpArtist
<1>2. req \in ApiRequest /\ table \in StoredArtist
  BY <1>1, Requested DEF ApiTypes
<1>3. Answer("404 not_found") /\ req.route = "artist" => ApiInv'
  BY <1>1, Answering DEF Statuses, InTables
<1>4. Answer("422 no_genius_token") /\ ~table.known => ApiInv'
  <2>1. ~table.known => ~InTables(req)
    BY <1>1, StoredTypes DEF ServedInv, DepthForeground
  <2> QED
    BY <1>1, <2>1, Answering DEF Statuses
<1>5. Proceed("tag") => ApiInv'
  BY <1>1, Proceeding DEF Steps
<1>6. Proceed("songs") /\ req.route = "edge" => ApiInv'
  BY <1>1, Proceeding DEF Steps, TokenInv
<1>7. Proceed("resolve") /\ ~table.known /\ req.token # "none" => ApiInv'
  <2>1. ~table.known => ~InTables(req)
    BY <1>1, StoredTypes DEF ServedInv, DepthForeground
  <2> QED
    BY <1>1, <2>1, Proceeding DEF Steps
<1>8. ASSUME req.route = "graph", req' = [req EXCEPT !.seed = table.known, !.at = "depth"]
      PROVE  ApiInv'
  <2>1. /\ req' \in ApiRequest /\ req'.at = "depth" /\ req'.seed = table.known
        /\ req'.token = req.token /\ req'.route = req.route /\ req'.caller = req.caller
        /\ req'.limited = req.limited /\ req'.cached = req.cached /\ req'.unasked = req.unasked
    BY <1>2, <1>8 DEF ApiRequest, StoredArtist, Steps
  <2>2. ApiTypes'
    BY <1>1, <2>1 DEF ApiTypes, ApiConstantsOK
  <2>3. TokenInv(req)'
    BY <1>1, <1>8, <2>1 DEF TokenInv, Admitted
  <2>4. ServedInv(req)'
    BY <1>1, <2>1, StoredTypes DEF ServedInv, InTables, Admitted, DepthForeground
  <2> QED
    BY <2>2, <2>3, <2>4 DEF ApiInv
<1>9. CASE req.route = "artist"
  BY <1>3, <1>5, <1>9 DEF LookUpArtist
<1>10. CASE req.route = "graph"
  BY <1>8, <1>10 DEF LookUpArtist
<1>11. CASE req.route = "edge"
  BY <1>4, <1>6, <1>7, <1>11 DEF LookUpArtist
<1>12. CASE req.route \notin {"artist", "graph", "edge"}
  BY <1>12, <1>1 DEF TokenInv
<1> QED
  BY <1>9, <1>10, <1>11, <1>12
LEMMA CheckDepthStep == ASSUME ApiInv, CheckDepth PROVE ApiInv'
<1>1. /\ ApiTypes /\ TokenInv(req) /\ ServedInv(req) /\ req.at = "depth"
      /\ UNCHANGED <<table, held, writes, lost>>
  BY DEF ApiInv, CheckDepth
<1>2. req \in ApiRequest /\ req.route = "graph" /\ Admitted(req)
  BY <1>1, Requested DEF TokenInv
<1> DEFINE token == TokenAfterDepth
<1>3. /\ token \in Tokens
      /\ token = "none" => req.caller = "guest" \/ FullyCached
  BY <1>1, <1>2 DEF TokenAfterDepth, TokenOf, ApiRequest, AllCallers, Tokens, TokenInv, HasSession, Admitted
<1> HIDE DEF token
<1> DEFINE step == CASE req.seed -> "songs" [] ~req.seed /\ token = "none" -> "done" [] OTHER -> "resolve"
           status == IF ~req.seed /\ token = "none" THEN "422 no_genius_token" ELSE ""
<1>4. req' = [req EXCEPT !.token = token, !.at = step, !.status = status]
  BY DEF CheckDepth, token
<1>5. /\ step \in {"songs", "done", "resolve"} /\ status \in Statuses
      /\ (step = "songs" <=> req.seed) /\ (step = "resolve" => token # "none")
  BY <1>2 DEF ApiRequest, Statuses
<1> HIDE DEF step, status
<1>6. /\ req' \in ApiRequest /\ req'.at = step /\ req'.token = token
      /\ req'.route = req.route /\ req'.caller = req.caller
      /\ req'.limited = req.limited /\ req'.cached = req.cached /\ req'.unasked = req.unasked
  BY <1>2, <1>3, <1>4, <1>5 DEF ApiRequest, Steps
<1>7. ApiTypes'
  BY <1>1, <1>6 DEF ApiTypes, ApiConstantsOK
<1>8. TokenInv(req)'
  BY <1>1, <1>2, <1>3, <1>5, <1>6 DEF TokenInv, Admitted, FullyCached
<1>9. ServedInv(req)'
  BY <1>1, <1>2, <1>5, <1>6 DEF ServedInv, InTables, Admitted
<1> QED
  BY <1>7, <1>8, <1>9 DEF ApiInv

LEMMA ResolveStep == ASSUME ApiInv, Resolve PROVE ApiInv'
<1>1. /\ ApiTypes /\ TokenInv(req) /\ ServedInv(req) /\ req.at = "resolve"
      /\ UNCHANGED <<table, held, writes, lost>>
  BY DEF ApiInv, Resolve
<1>2. ~InTables(req) /\ req.token # "none"
  BY <1>1 DEF ServedInv, TokenInv
<1>3. ASSUME NEW status \in Statuses, Answer(status) PROVE ApiInv'
  BY <1>1, <1>2, <1>3, Answering
<1>4. ASSUME NEW step \in {"ask", "songs"}, Proceed(step) PROVE ApiInv'
  BY <1>1, <1>2, <1>4, Proceeding DEF Steps
<1> DEFINE next == IF req.route = "deepen" THEN "ask" ELSE "songs"
<1>5. CASE Proceed(next)
  BY <1>4, <1>5
<1>6. CASE Answer("200 ambiguous")
  BY <1>3, <1>6 DEF Statuses
<1>7. ASSUME NEW f \in Refused(req.token),
             Answer(CASE f # "no artist" -> f [] req.route = "graph" -> "200 empty"
                      [] OTHER -> "404 not_found")
      PROVE  ApiInv'
  <2>1. (CASE f # "no artist" -> f [] req.route = "graph" -> "200 empty" [] OTHER -> "404 not_found")
          \in Statuses
    BY <1>7, FailuresAnswer DEF Statuses
  <2> QED
    BY <1>3, <1>7, <2>1
<1>8. ASSUME NEW f \in Failures(req.token), Answer(f) PROVE ApiInv'
  BY <1>3, <1>8, FailuresAnswer
<1> QED
  BY <1>5, <1>6, <1>7, <1>8 DEF Resolve

LEMMA EndpointStep == ASSUME ApiInv, ResolveEndpoint \/ SameEnds \/ FindPath PROVE ApiInv'
<1>1. /\ ApiTypes /\ TokenInv(req) /\ ServedInv(req) /\ req.at \in {"resolve", "find"}
      /\ UNCHANGED <<table, held, writes, lost>>
  BY DEF ApiInv, ResolveEndpoint, SameEnds, FindPath
<1>2. ~InTables(req)
  BY <1>1 DEF ServedInv
<1>3. ASSUME NEW status \in Statuses, Answer(status) PROVE ApiInv'
  BY <1>1, <1>2, <1>3, Answering
<1>4. ASSUME NEW step \in {"find", "tag"}, Proceed(step) PROVE ApiInv'
  BY <1>1, <1>2, <1>4, Proceeding DEF Steps
<1>5. ASSUME NEW f \in Failures(req.token), Answer(f) PROVE ApiInv'
  BY <1>3, <1>5, FailuresAnswer
<1>6. CASE ResolveEndpoint
  BY <1>3, <1>4, <1>5, <1>6 DEF ResolveEndpoint, Statuses
<1>7. CASE SameEnds
  BY <1>4, <1>7 DEF SameEnds
<1>8. CASE FindPath
  BY <1>3, <1>4, <1>5, <1>8 DEF FindPath, Statuses
<1> QED
  BY <1>6, <1>7, <1>8

(* Steps that end in an answer of their own.                               *)
LEMMA AnswerStep ==
  ASSUME ApiInv, Ambiguous \/ Search \/ Deepen \/ PlaceNodes \/ EdgeOfSongs
  PROVE  ApiInv'
<1>1. /\ ApiTypes /\ TokenInv(req) /\ ServedInv(req) /\ req.at \notin {"idle", "done"}
      /\ UNCHANGED <<table, held, writes, lost>>
  BY DEF ApiInv, Ambiguous, Search, Deepen, PlaceNodes, EdgeOfSongs
<1>2. ASSUME NEW status \in Served, Answer(status) PROVE ApiInv'
  BY <1>1, <1>2, Answering DEF Served, Statuses
<1>3. CASE Ambiguous
  BY <1>2, <1>3 DEF Ambiguous, Served
<1>4. CASE Search \/ Deepen
  <2>1. ~InTables(req)
    BY <1>1, <1>4 DEF ServedInv, Search, Deepen
  <2>2. ASSUME NEW f \in Failures(req.token), Answer(f) PROVE ApiInv'
    BY <1>1, <2>1, <2>2, FailuresAnswer, Answering
  <2> QED
    BY <1>2, <1>4, <2>2 DEF Search, Deepen, Served
<1>5. CASE PlaceNodes \/ EdgeOfSongs
  BY <1>2, <1>5 DEF PlaceNodes, EdgeOfSongs, Served
<1> QED
  BY <1>3, <1>4, <1>5

LEMMA ReadStep == ASSUME ApiInv, ReadStoredSongs PROVE ApiInv'
<1> DEFINE data == IF table.depth > 0 THEN table.songs ELSE {}
           step == IF MustFetch THEN "fetch" ELSE IF req.route = "edge" THEN "edge" ELSE "tag"
<1>1. /\ ApiTypes /\ TokenInv(req) /\ ServedInv(req) /\ req.at = "songs"
      /\ UNCHANGED <<table, held, writes, lost>>
  BY DEF ApiInv, ReadStoredSongs
<1>0. req' = [req EXCEPT !.data = data, !.at = step]
  BY DEF ReadStoredSongs
<1>2. req \in ApiRequest /\ table \in StoredArtist
  BY <1>1, Requested DEF ApiTypes
<1>3. data \in SUBSET ApiSong
  BY <1>2 DEF StoredArtist
<1>4. step \in {"fetch", "edge", "tag"} /\ (step = "fetch" <=> MustFetch)
  OBVIOUS
<1> HIDE DEF data, step
<1>5. /\ req' \in ApiRequest /\ req'.at = step /\ req'.token = req.token
      /\ req'.route = req.route /\ req'.caller = req.caller
      /\ req'.limited = req.limited /\ req'.cached = req.cached /\ req'.unasked = req.unasked
  BY <1>0, <1>2, <1>3, <1>4 DEF ApiRequest, Steps
<1>6. ApiTypes'
  BY <1>1, <1>5 DEF ApiTypes, ApiConstantsOK
<1>7. MustFetch => ~(table.depth >= DepthForeground) \/ req.limited
  BY <1>1, StoredTypes DEF MustFetch, DepthForeground
<1>8. step = "fetch" /\ req.token = "none" => req.caller = "guest" \/ lost
  BY <1>1, <1>4, <1>7 DEF TokenInv
<1>9. TokenInv(req)'
  BY <1>1, <1>4, <1>5, <1>8 DEF TokenInv, Admitted
<1>10. ServedInv(req)'
  BY <1>1, <1>4, <1>5, <1>7 DEF ServedInv, InTables, Admitted
<1> QED
  BY <1>6, <1>9, <1>10 DEF ApiInv

(* What a write leaves in the tables.                                      *)
LEMMA WrittenTypes ==
  ASSUME ApiTypes, NEW loaded \in SUBSET ApiSong, NEW d \in {DepthForeground, DepthFull}
  PROVE  /\ Written(loaded, d) \in StoredArtist
         /\ Written(loaded, d).depth >= DepthForeground /\ Written(loaded, d).known
         /\ Written(loaded, d).depth >= table.depth
<1>1. table \in StoredArtist /\ writes + 1 \in Nat /\ table.depth \in 0..2
  BY StoredTypes DEF ApiTypes
<1>2. Cardinality(loaded) \in Nat
  BY FS_Subset, FS_CardinalityType DEF ApiTypes, ApiConstantsOK
<1> DEFINE deeper == d >= table.depth
           w == [known |-> TRUE, songs |-> table.songs \cup loaded,
                 depth |-> IF deeper THEN d ELSE table.depth,
                 count |-> IF deeper THEN Cardinality(loaded) ELSE table.count,
                 ts |-> IF deeper THEN writes + 1 ELSE table.ts]
<1>3. Written(loaded, d) = w
  BY DEF Written
<1>4. /\ table.songs \cup loaded \in SUBSET ApiSong /\ table.count \in Nat /\ table.ts \in Nat
  BY <1>1 DEF StoredArtist
<1>5. /\ (IF deeper THEN d ELSE table.depth) \in 1..2
      /\ (IF deeper THEN d ELSE table.depth) >= table.depth
  BY <1>1 DEF DepthForeground, DepthFull
<1>6. /\ (IF deeper THEN Cardinality(loaded) ELSE table.count) \in Nat
      /\ (IF deeper THEN writes + 1 ELSE table.ts) \in Nat
  BY <1>1, <1>2, <1>4
<1> HIDE DEF deeper
<1>7. w \in StoredArtist
  BY <1>4, <1>5, <1>6 DEF StoredArtist, DepthFull
<1> QED
  BY <1>3, <1>5, <1>7 DEF DepthForeground

LEMMA FetchStep == ASSUME ApiInv, FetchFg \/ FetchFails PROVE ApiInv'
<1>1. /\ ApiTypes /\ TokenInv(req) /\ ServedInv(req) /\ req.at = "fetch"
  BY DEF ApiInv, FetchFg, FetchFails
<1>2. req \in ApiRequest /\ ~InTables(req)
  BY <1>1, Requested DEF ServedInv
<1>3. AfterFetch \in {"edge", "tag"}
  BY DEF AfterFetch
<1>4. CASE FetchFg
  <2>1. PICK loaded \in IF req.token = "good" THEN Loads ELSE {{}} :
          /\ table' = Written(loaded, DepthForeground)
          /\ req' = [req EXCEPT !.data = loaded, !.at = AfterFetch, !.unasked = req.token = "none"]
    BY <1>4 DEF FetchFg
  <2>2. loaded \in SUBSET ApiSong
    BY <2>1 DEF Loads
  <2>3. table' \in StoredArtist /\ table'.known
    BY <1>1, <2>1, <2>2, WrittenTypes
  <2>4. /\ req' \in ApiRequest /\ req'.at = AfterFetch /\ req'.unasked = (req.token = "none")
        /\ req'.route = req.route /\ req'.caller = req.caller /\ req'.token = req.token
        /\ req'.limited = req.limited /\ req'.cached = req.cached
    <3>1. (req.token = "none") \in BOOLEAN
      OBVIOUS
    <3> QED
      BY <1>2, <1>3, <2>1, <2>2, <3>1 DEF ApiRequest, Steps
  <2>5. writes' = writes + 1 /\ lost' = lost
    BY <1>4 DEF FetchFg
  <2>6. ApiTypes'
    BY <1>1, <2>3, <2>4, <2>5 DEF ApiTypes, ApiConstantsOK
  <2>7. TokenInv(req)'
    BY <1>1, <1>3, <2>4, <2>5 DEF TokenInv, Admitted
  <2>8. ServedInv(req)'
    BY <1>2, <2>4, <2>5 DEF ServedInv, InTables, Admitted
  <2> QED
    BY <2>6, <2>7, <2>8 DEF ApiInv
<1>5. CASE FetchFails
  <2>1. PICK f \in Failures(req.token) : Proceed(AfterFetch) \/ Answer(f)
    BY <1>5 DEF FetchFails
  <2>2. UNCHANGED <<table, held, writes, lost>>
    BY <1>5 DEF FetchFails
  <2>3. f \in Statuses
    BY FailuresAnswer
  <2>4. CASE Proceed(AfterFetch)
    BY <1>1, <1>2, <1>3, <2>2, <2>4, Proceeding DEF Steps
  <2>5. CASE Answer(f)
    BY <1>1, <1>2, <2>2, <2>3, <2>5, Answering
  <2> QED
    BY <2>1, <2>4, <2>5
<1> QED
  BY <1>4, <1>5

LEMMA RespondStep == ASSUME ApiInv, Respond PROVE ApiInv'
<1>1. /\ req.at = "tag" /\ UNCHANGED <<table, writes, lost>>
      /\ Answer("304") \/ Answer("200")
  BY DEF Respond
<1> QED
  BY <1>1, Answering DEF Statuses, Served

LEMMA FinishStep == ASSUME ApiInv, Finish PROVE ApiInv'
<1>1. req' = NoRequest /\ UNCHANGED <<table, writes, lost>>
  BY DEF Finish
<1>2. req'.at = "idle"
  BY <1>1 DEF NoRequest
<1> QED
  BY <1>1, <1>2 DEF ApiInv, ApiTypes, ApiConstantsOK

(* Who writes elsewhere makes the artist no shallower, or prunes it.       *)
LEMMA ElsewhereStep ==
  ASSUME ApiInv, req' = req, table' \in StoredArtist, table'.depth > 0 => table'.known,
         writes' \in Nat, lost' \in BOOLEAN, lost => lost',
         lost' \/ table'.depth >= table.depth
  PROVE  ApiInv'
<1>1. ApiTypes'
  BY DEF ApiInv, ApiTypes, ApiConstantsOK
<1>2. table.depth \in 0..2 /\ table'.depth \in 0..2
  BY StoredTypes, <1>1 DEF ApiInv, StoredArtist, DepthFull
<1>0. table.depth >= DepthForeground => lost' \/ table'.depth >= DepthForeground
  BY <1>2 DEF DepthForeground
<1>3. ASSUME req.at # "idle" PROVE TokenInv(req)' /\ ServedInv(req)'
  <2>1. TokenInv(req) /\ ServedInv(req)
    BY <1>3 DEF ApiInv
  <2>2. TokenInv(req)'
    BY <1>0, <2>1 DEF TokenInv, Admitted
  <2>3. ServedInv(req)'
    BY <1>0, <2>1 DEF ServedInv, InTables, Admitted
  <2> QED
    BY <2>2, <2>3
<1> QED
  BY <1>1, <1>3 DEF ApiInv

LEMMA ApiSteps == ApiInv /\ [ApiNext]_apiVars => ApiInv'
<1> SUFFICES ASSUME ApiInv, [ApiNext]_apiVars PROVE ApiInv'
  OBVIOUS
<1>1. ApiTypes /\ table \in StoredArtist /\ table.depth \in 0..2
  BY StoredTypes DEF ApiInv, ApiTypes
<1>2. ASSUME NEW r \in Routes, NEW c \in Callers, NEW limited \in BOOLEAN, Receive(r, c, limited)
      PROVE  ApiInv'
  BY <1>2, ReceiveStep
<1>3. CASE Handle
  BY <1>3, AnswerStep, LookUpStep, CheckDepthStep, ResolveStep, EndpointStep, ReadStep, FetchStep,
     RespondStep, FinishStep DEF Handle
<1>4. ASSUME NEW loaded \in SUBSET ApiSong,
             Complete(loaded) \/ FetchElsewhere(loaded)
      PROVE  ApiInv'
  <2>1. /\ req' = req /\ writes' = writes + 1 /\ lost' = lost
        /\ \E d \in {DepthForeground, DepthFull} : table' = Written(loaded, d)
    BY <1>4 DEF Complete, FetchElsewhere
  <2> QED
    BY <1>1, <2>1, WrittenTypes, ElsewhereStep DEF ApiTypes
<1>5. ASSUME NEW loaded \in SUBSET ApiSong, Neighbour(loaded) PROVE ApiInv'
  <2>1. /\ req' = req /\ writes' = writes + 1 /\ lost' = lost
        /\ table' = [table EXCEPT !.known = TRUE, !.songs = table.songs \cup loaded]
    BY <1>5 DEF Neighbour
  <2>2. table' \in StoredArtist /\ table'.known /\ table'.depth = table.depth
    BY <1>1, <2>1 DEF StoredArtist
  <2> QED
    BY <1>1, <2>1, <2>2, ElsewhereStep DEF ApiTypes
<1>6. CASE Prune
  <2>1. /\ req' = req /\ writes' = writes + 1 /\ lost' = TRUE /\ table' = NotStored
    BY <1>6 DEF Prune
  <2>2. table' \in StoredArtist /\ table'.depth = 0
    BY <2>1 DEF NotStored, StoredArtist, DepthFull
  <2> QED
    BY <1>1, <2>1, <2>2, ElsewhereStep DEF ApiTypes
<1>7. CASE UNCHANGED apiVars
  BY <1>1, <1>7, ElsewhereStep DEF apiVars, ApiTypes
<1> QED
  BY <1>2, <1>3, <1>4, <1>5, <1>6, <1>7 DEF ApiNext

(* Who stores an artist as scanned has asked Genius for its songs, except  *)
(* a guest and who lost the artist to the prune task, whatever other       *)
(* requests, scans and prunes come between the reads of a handler.         *)
THEOREM ScannedWasAskedHolds == ApiConstantsOK /\ ApiSpec => []ScannedWasAsked
<1>1. ApiInv => ScannedWasAsked
  BY DEF ApiInv, TokenInv, ScannedWasAsked
<1> QED
  BY <1>1, ApiBegins, ApiSteps, PTL DEF ApiSpec

(* What was in the tables when the request arrived and was not pruned is   *)
(* served from them, whatever comes between the reads of a handler.        *)
THEOREM CachedIsServedHolds == ApiConstantsOK /\ ApiSpec => []CachedIsServed
<1>1. ApiInv => CachedIsServed
  BY DEF ApiInv, ServedInv, InTables, Admitted, Served, CachedIsServed
<1> QED
  BY <1>1, ApiBegins, ApiSteps, PTL DEF ApiSpec

-----------------------------------------------------------------------------
(* FindPath: a path in a graph that is fetched round by round.             *)

PairsOnly(es) == \A e \in es : \E a, b \in Person : a # b /\ e = {a, b}

(* Walks of n hops through es. *)
Ways(es, n) ==
  {w \in [1..(n + 1) -> Person] : \A i \in 1..n : {w[i], w[i + 1]} \in es}
Reaches(es, a, b, n) == \E w \in Ways(es, n) : w[1] = a /\ w[n + 1] = b

LEMMA ReachesItself ==
  ASSUME NEW E, NEW a \in Person PROVE Reaches(E, a, a, 0)
<1> DEFINE w == [i \in 1..(0 + 1) |-> a]
<1>1. w \in Ways(E, 0) /\ w[1] = a /\ w[0 + 1] = a
  BY DEF Ways
<1> QED
  BY <1>1 DEF Reaches

LEMMA ReachesNext ==
  ASSUME NEW E, NEW n \in Nat, NEW a, NEW b, NEW c \in Person, Reaches(E, a, b, n), {b, c} \in E
  PROVE  Reaches(E, a, c, n + 1)
<1>1. PICK w \in Ways(E, n) : w[1] = a /\ w[n + 1] = b
  BY DEF Reaches
<1>2. w \in [1..(n + 1) -> Person] /\ \A i \in 1..n : {w[i], w[i + 1]} \in E
  BY DEF Ways
<1> DEFINE v == [i \in 1..(n + 1 + 1) |-> IF i = n + 2 THEN c ELSE w[i]]
<1>3. v \in [1..(n + 1 + 1) -> Person]
  BY <1>2
<1>4. v[1] = a /\ v[n + 1] = b /\ v[n + 1 + 1] = c
  BY <1>1
<1>5. ASSUME NEW i \in 1..(n + 1) PROVE {v[i], v[i + 1]} \in E
  <2>1. CASE i = n + 1
    BY <2>1, <1>4
  <2>2. CASE i \in 1..n
    <3>1. v[i] = w[i] /\ v[i + 1] = w[i + 1]
      BY <2>2
    <3> HIDE DEF v
    <3> QED
      BY <2>2, <3>1, <1>2
  <2> QED
    BY <2>1, <2>2
<1> HIDE DEF v
<1> QED
  BY <1>3, <1>4, <1>5 DEF Reaches, Ways

LEMMA ReachesBack ==
  ASSUME NEW E, NEW n \in Nat, NEW a, NEW b, Reaches(E, a, b, n)
  PROVE  Reaches(E, b, a, n)
<1>1. PICK w \in Ways(E, n) : w[1] = a /\ w[n + 1] = b
  BY DEF Reaches
<1>2. w \in [1..(n + 1) -> Person] /\ \A i \in 1..n : {w[i], w[i + 1]} \in E
  BY DEF Ways
<1> DEFINE v == [i \in 1..(n + 1) |-> w[n + 2 - i]]
<1>3. v \in [1..(n + 1) -> Person] /\ v[1] = b /\ v[n + 1] = a
  BY <1>1, <1>2
<1>4. ASSUME NEW i \in 1..n PROVE {v[i], v[i + 1]} \in E
  <2> DEFINE k == n + 1 - i
  <2>1. k \in 1..n /\ v[i] = w[k + 1] /\ v[i + 1] = w[k]
    OBVIOUS
  <2>2. {v[i], v[i + 1]} = {w[k], w[k + 1]}
    BY <2>1
  <2> HIDE DEF k
  <2> QED
    BY <2>1, <2>2, <1>2
<1> HIDE DEF v
<1> QED
  BY <1>3, <1>4 DEF Reaches, Ways

LEMMA ReachesOn ==
  ASSUME NEW E, NEW n \in Nat, NEW m \in Nat, NEW a, NEW b, NEW c,
         Reaches(E, a, b, n), Reaches(E, b, c, m)
  PROVE  Reaches(E, a, c, n + m)
<1>1. PICK w \in Ways(E, n) : w[1] = a /\ w[n + 1] = b
  BY DEF Reaches
<1>2. PICK u \in Ways(E, m) : u[1] = b /\ u[m + 1] = c
  BY DEF Reaches
<1>3. /\ w \in [1..(n + 1) -> Person] /\ \A i \in 1..n : {w[i], w[i + 1]} \in E
      /\ u \in [1..(m + 1) -> Person] /\ \A i \in 1..m : {u[i], u[i + 1]} \in E
  BY DEF Ways
<1> DEFINE v == [i \in 1..(n + m + 1) |-> IF i <= n THEN w[i] ELSE u[i - n]]
<1>4. \A i \in 1..(n + 1) : v[i] = w[i]
  BY <1>1, <1>2
<1>5. \A i \in 1..(m + 1) : v[i + n] = u[i]
  OBVIOUS
<1>6. v \in [1..(n + m + 1) -> Person]
  BY <1>3
<1> HIDE DEF v
<1>7. v[1] = a /\ v[n + m + 1] = c
  BY <1>1, <1>2, <1>4, <1>5
<1>8. ASSUME NEW i \in 1..(n + m) PROVE {v[i], v[i + 1]} \in E
  <2>1. CASE i <= n
    BY <2>1, <1>3, <1>4
  <2>2. CASE ~ (i <= n)
    <3> DEFINE k == i - n
    <3>1. k \in 1..m /\ k \in 1..(m + 1) /\ k + 1 \in 1..(m + 1) /\ i = k + n /\ i + 1 = (k + 1) + n
      BY <2>2
    <3> HIDE DEF k
    <3> QED
      BY <3>1, <1>3, <1>5
  <2> QED
    BY <2>1, <2>2
<1> QED
  BY <1>6, <1>7, <1>8 DEF Reaches, Ways

LEMMA Prefix ==
  ASSUME NEW E, NEW n \in Nat, NEW w \in Ways(E, n), NEW i \in 1..(n + 1)
  PROVE  Reaches(E, w[1], w[i], i - 1)
<1>1. w \in [1..(n + 1) -> Person] /\ \A k \in 1..n : {w[k], w[k + 1]} \in E
  BY DEF Ways
<1> DEFINE v == [k \in 1..(i - 1 + 1) |-> w[k]]
<1>2. v \in [1..(i - 1 + 1) -> Person] /\ v[1] = w[1] /\ v[i - 1 + 1] = w[i]
  BY <1>1
<1>3. ASSUME NEW k \in 1..(i - 1) PROVE {v[k], v[k + 1]} \in E
  <2>1. k \in 1..n /\ v[k] = w[k] /\ v[k + 1] = w[k + 1]
    OBVIOUS
  <2> QED
    BY <2>1, <1>1
<1> HIDE DEF v
<1> QED
  BY <1>2, <1>3 DEF Reaches, Ways

LEMMA Suffix ==
  ASSUME NEW E, NEW n \in Nat, NEW w \in Ways(E, n), NEW i \in 1..(n + 1)
  PROVE  Reaches(E, w[i], w[n + 1], n + 1 - i)
<1>1. w \in [1..(n + 1) -> Person] /\ \A k \in 1..n : {w[k], w[k + 1]} \in E
  BY DEF Ways
<1> DEFINE v == [k \in 1..(n + 1 - i + 1) |-> w[k + i - 1]]
<1>2. v \in [1..(n + 1 - i + 1) -> Person] /\ v[1] = w[i] /\ v[n + 1 - i + 1] = w[n + 1]
  BY <1>1
<1>3. ASSUME NEW k \in 1..(n + 1 - i) PROVE {v[k], v[k + 1]} \in E
  <2> DEFINE j == k + i - 1
  <2>1. j \in 1..n /\ v[k] = w[j] /\ v[k + 1] = w[j + 1]
    OBVIOUS
  <2> HIDE DEF j
  <2> QED
    BY <2>1, <1>1
<1> HIDE DEF v
<1> QED
  BY <1>2, <1>3 DEF Reaches, Ways

(* What is near is a hop away. *)
LEMMA NearIs ==
  ASSUME NEW E, PairsOnly(E), NEW S \in SUBSET Person, NEW a
  PROVE  a \in Near(E, S) <=> a \in Person \ S /\ \E v \in S : {v, a} \in E
<1>1. ASSUME a \in Near(E, S) PROVE a \in Person \ S /\ \E v \in S : {v, a} \in E
  <2>1. a \notin S /\ a \in UNION Of(E, S)
    BY <1>1 DEF Near
  <2>a. PICK e \in Of(E, S) : a \in e
    BY <2>1
  <2>2. e \in E /\ a \in e /\ e \cap S # {}
    BY <2>a DEF Of
  <2>3. PICK x, y \in Person : x # y /\ e = {x, y}
    BY <2>2 DEF PairsOnly
  <2>4. PICK v \in S : v \in e
    BY <2>2
  <2>5. v # a /\ a \in Person
    BY <2>1, <2>2, <2>3
  <2>6. e = {v, a}
    BY <2>2, <2>3, <2>4, <2>5
  <2> QED
    BY <2>1, <2>2, <2>4, <2>5, <2>6
<1>2. ASSUME a \in Person \ S, NEW v \in S, {v, a} \in E PROVE a \in Near(E, S)
  <2> DEFINE e == {v, a}
  <2>1. e \in Of(E, S)
    BY <1>2 DEF Of
  <2>2. a \in e
    OBVIOUS
  <2>3. a \in UNION Of(E, S)
    BY <2>1, <2>2
  <2> QED
    BY <1>2, <2>3 DEF Near
<1> QED
  BY <1>1, <1>2

-----------------------------------------------------------------------------
(* What the recursion computes: the walks that begin at From.              *)

WaysFrom(es, n) == {w \in Ways(es, n) : w[1] = From}
Further(es, ws, n) ==
  UNION {{Append(w, a) : a \in Near(es, {w[n]})} : w \in ws}

LEMMA FurtherIs ==
  ASSUME NEW E, PairsOnly(E), From \in Person, NEW n \in Nat \ {0}
  PROVE  WaysFrom(E, n) = Further(E, WaysFrom(E, n - 1), n)
<1>1. ASSUME NEW w \in WaysFrom(E, n - 1), NEW a \in Near(E, {w[n]})
      PROVE  Append(w, a) \in WaysFrom(E, n)
  <2> DEFINE v == Append(w, a)
  <2>1. /\ w \in [1..n -> Person] /\ w[1] = From
        /\ \A i \in 1..(n - 1) : {w[i], w[i + 1]} \in E
    BY DEF WaysFrom, Ways
  <2>2. w[n] \in Person
    BY <2>1
  <2>3. a \in Person /\ {w[n], a} \in E
    <3> DEFINE S == {w[n]}
    <3>1. S \in SUBSET Person /\ a \in Near(E, S) /\ \A x \in S : x = w[n]
      BY <2>2
    <3> HIDE DEF S
    <3>2. a \in Person \ S /\ \E x \in S : {x, a} \in E
      BY <3>1, NearIs
    <3> QED
      BY <3>1, <3>2
  <2>4. w \in Seq(Person) /\ Len(w) = n
    BY <2>1
  <2>5. /\ v \in [1..(n + 1) -> Person] /\ v[n + 1] = a /\ \A i \in 1..n : v[i] = w[i]
    <3>1. v \in Seq(Person) /\ Len(v) = n + 1 /\ v[n + 1] = a /\ \A i \in 1..n : v[i] = w[i]
      BY <2>3, <2>4, AppendProperties
    <3> HIDE DEF v
    <3> QED
      BY <3>1, LenProperties
  <2> HIDE DEF v
  <2>6. ASSUME NEW i \in 1..n PROVE {v[i], v[i + 1]} \in E
    <3>1. CASE i = n
      BY <3>1, <2>3, <2>5
    <3>2. CASE i \in 1..(n - 1)
      <4>1. v[i] = w[i] /\ v[i + 1] = w[i + 1]
        BY <3>2, <2>5
      <4> QED
        BY <4>1, <3>2, <2>1
    <3> QED
      BY <3>1, <3>2
  <2>7. v[1] = From
    BY <2>1, <2>5
  <2> QED
    BY <2>5, <2>6, <2>7 DEF WaysFrom, Ways, v
<1>2. ASSUME NEW v \in WaysFrom(E, n)
      PROVE  \E w \in WaysFrom(E, n - 1) : \E a \in Near(E, {w[n]}) : v = Append(w, a)
  <2>1. /\ v \in [1..(n + 1) -> Person] /\ v[1] = From
        /\ \A i \in 1..n : {v[i], v[i + 1]} \in E
    BY DEF WaysFrom, Ways
  <2> DEFINE w == [i \in 1..n |-> v[i]]
             a == v[n + 1]
  <2>2. w \in [1..n -> Person] /\ w[1] = From /\ \A i \in 1..n : w[i] = v[i]
    BY <2>1
  <2>3. a \in Person /\ {v[n], a} \in E /\ v[n] \in Person
    BY <2>1
  <2>4. w[n] = v[n]
    BY <2>2
  <2>5. v = Append(w, a)
    <3>1. w \in Seq(Person) /\ Len(w) = n
      BY <2>2
    <3>2. v \in Seq(Person) /\ Len(v) = n + 1
      BY <2>1
    <3>3. /\ Append(w, a) \in Seq(Person) /\ Len(Append(w, a)) = n + 1
          /\ Append(w, a)[n + 1] = a /\ \A i \in 1..n : Append(w, a)[i] = w[i]
      BY <3>1, <2>3, AppendProperties
    <3>4. \A i \in 1..(n + 1) : v[i] = Append(w, a)[i]
      <4>1. \A i \in 1..(n + 1) : i = n + 1 \/ i \in 1..n
        OBVIOUS
      <4> HIDE DEF w
      <4> QED
        BY <4>1, <3>3, <2>2
    <3> HIDE DEF w, a
    <3> QED
      BY <3>2, <3>3, <3>4, SeqEqual
  <2> HIDE DEF w
  <2>6. w \in WaysFrom(E, n - 1)
    <3>1. \A i \in 1..(n - 1) : {w[i], w[i + 1]} \in E
      <4>1. \A i \in 1..(n - 1) : i \in 1..n /\ i + 1 \in 1..n
        OBVIOUS
      <4> QED
        BY <4>1, <2>1, <2>2
    <3> QED
      BY <3>1, <2>2 DEF WaysFrom, Ways
  <2>7. a # w[n]
    <3>1. PICK x, y \in Person : x # y /\ {v[n], a} = {x, y}
      BY <2>3 DEF PairsOnly
    <3> QED
      BY <3>1, <2>4
  <2>8. a \in Near(E, {w[n]})
    <3> DEFINE S == {w[n]}
    <3>1. S \in SUBSET Person /\ a \in Person \ S /\ w[n] \in S /\ {w[n], a} \in E
      BY <2>3, <2>4, <2>7
    <3> HIDE DEF S
    <3>2. a \in Near(E, S)
      BY <3>1, NearIs
    <3> QED
      BY <3>2 DEF S
  <2> HIDE DEF a
  <2> QED
    BY <2>5, <2>6, <2>8
<1>3. \A v \in WaysFrom(E, n) : v \in Further(E, WaysFrom(E, n - 1), n)
  <2> SUFFICES ASSUME NEW v \in WaysFrom(E, n) PROVE v \in Further(E, WaysFrom(E, n - 1), n)
    OBVIOUS
  <2>1. PICK w \in WaysFrom(E, n - 1) : \E a \in Near(E, {w[n]}) : v = Append(w, a)
    BY <1>2
  <2> DEFINE T == {Append(w, a) : a \in Near(E, {w[n]})}
  <2>2. v \in T
    BY <2>1
  <2>3. T \in {{Append(x, a) : a \in Near(E, {x[n]})} : x \in WaysFrom(E, n - 1)}
    OBVIOUS
  <2> HIDE DEF T
  <2> QED
    BY <2>2, <2>3 DEF Further
<1>4. ASSUME NEW v \in Further(E, WaysFrom(E, n - 1), n) PROVE v \in WaysFrom(E, n)
  <2>1. PICK w \in WaysFrom(E, n - 1) : v \in {Append(w, a) : a \in Near(E, {w[n]})}
    BY <1>4 DEF Further
  <2>2. PICK a \in Near(E, {w[n]}) : v = Append(w, a)
    BY <2>1
  <2> QED
    BY <2>2, <1>1
<1> QED
  BY <1>3, <1>4

LEMMA WalksAre ==
  ASSUME NEW E, PairsOnly(E), IsFiniteSet(Person), From \in Person
  PROVE  \A n \in 0..Cardinality(Person) : WalksFrom(E)[n] = WaysFrom(E, n)
<1> DEFINE N == Cardinality(Person)
           Step(g) == [n \in 0..N |-> IF n = 0 THEN {<<From>>} ELSE Further(E, g[n - 1], n)]
           G == [n \in 0..N |-> WaysFrom(E, n)]
           W == WalksFrom(E)
<1>1. N \in Nat
  BY FS_CardinalityType
<1>2. WaysFrom(E, 0) = {<<From>>}
  <2>1. ASSUME NEW w \in WaysFrom(E, 0) PROVE w = <<From>>
    <3>1. w \in [1..1 -> Person] /\ w[1] = From
      BY DEF WaysFrom, Ways
    <3>2. <<From>> \in [1..1 -> Person] /\ <<From>>[1] = From
      OBVIOUS
    <3>3. \A i \in 1..1 : w[i] = <<From>>[i]
      BY <3>1, <3>2
    <3> QED
      BY <3>1, <3>2, <3>3
  <2>2. <<From>> \in WaysFrom(E, 0)
    BY DEF WaysFrom, Ways
  <2> QED
    BY <2>1, <2>2
<1>3. G = Step(G)
  <2>1. ASSUME NEW n \in 0..N, n # 0 PROVE WaysFrom(E, n) = Further(E, G[n - 1], n)
    <3>1. n \in Nat \ {0} /\ n - 1 \in 0..N
      BY <1>1, <2>1
    <3>2. G[n - 1] = WaysFrom(E, n - 1)
      BY <3>1
    <3> HIDE DEF G
    <3> QED
      BY <3>1, <3>2, FurtherIs
  <2>2. \A n \in 0..N : WaysFrom(E, n) = IF n = 0 THEN {<<From>>} ELSE Further(E, G[n - 1], n)
    BY <2>1, <1>2
  <2> QED
    BY <2>2
<1>4. W = Step(W)
  <2>1. W = CHOOSE g : g = Step(g)
    BY DEF WalksFrom, Further
  <2> HIDE DEF W, G, Step
  <2> QED
    BY <2>1, <1>3
<1>5. \A n \in 0..N : W[n] = IF n = 0 THEN {<<From>>} ELSE Further(E, W[n - 1], n)
  <2> HIDE DEF W
  <2> QED
    BY <1>4
<1> HIDE DEF W, Step, G
<1> DEFINE Bad == {n \in 0..N : W[n] # WaysFrom(E, n)}
<1>6. SUFFICES ASSUME Bad # {} PROVE FALSE
  BY DEF W
<1>7. PICK n \in Bad : \A m \in Bad : n <= m
  <2>1. Bad \in SUBSET Nat
    OBVIOUS
  <2> HIDE DEF Bad
  <2> QED
    BY <2>1, <1>6, LeastNat
<1>8. n # 0
  BY <1>2, <1>5
<1>9. n \in Nat \ {0} /\ n - 1 \in 0..N /\ n - 1 \notin Bad
  BY <1>1, <1>7, <1>8
<1>10. W[n - 1] = WaysFrom(E, n - 1)
  BY <1>9
<1> QED
  BY <1>5, <1>8, <1>9, <1>10, FurtherIs

(* How few hops lead to the other end. *)
LEMMA ArrivingIs ==
  ASSUME NEW E, PairsOnly(E), IsFiniteSet(Person), From \in Person, To \in Person,
         NEW n \in 0..Cardinality(Person)
  PROVE  /\ \A w : w \in Arriving(E, n) <=> w \in Ways(E, n) /\ w[1] = From /\ w[n + 1] = To
         /\ Arriving(E, n) # {} <=> Reaches(E, From, To, n)
<1>1. WalksFrom(E)[n] = WaysFrom(E, n)
  BY WalksAre
<1>2. \A w : w \in Arriving(E, n) <=> w \in Ways(E, n) /\ w[1] = From /\ w[n + 1] = To
  BY <1>1 DEF Arriving, WaysFrom
<1>3. Arriving(E, n) # {} <=> Reaches(E, From, To, n)
  <2> HIDE DEF Arriving, Ways
  <2> QED
    BY <1>2 DEF Reaches
<1> QED
  BY <1>2, <1>3

LEMMA HopsAre ==
  ASSUME NEW E, PairsOnly(E), IsFiniteSet(Person), From \in Person, To \in Person
  PROVE  LET N == Cardinality(Person) IN
         \/ Hops(E) = -1 /\ \A n \in 0..N : ~ Reaches(E, From, To, n)
         \/ /\ Hops(E) \in 0..N /\ Reaches(E, From, To, Hops(E))
            /\ \A n \in 0..N : Reaches(E, From, To, n) => Hops(E) <= n
<1> DEFINE N == Cardinality(Person)
           lengths == {n \in 0..N : Arriving(E, n) # {}}
<1>1. \A n \in 0..N : n \in lengths <=> Reaches(E, From, To, n)
  BY ArrivingIs
<1>2. Hops(E) = IF lengths = {} THEN -1 ELSE CHOOSE n \in lengths : \A m \in lengths : n <= m
  BY DEF Hops
<1>3. lengths \in SUBSET (0..N) /\ lengths \in SUBSET Nat
  OBVIOUS
<1> HIDE DEF lengths
<1>4. CASE lengths = {}
  BY <1>1, <1>2, <1>4
<1>5. CASE lengths # {}
  <2>1. \E n \in lengths : \A m \in lengths : n <= m
    BY <1>3, <1>5, LeastNat
  <2>2. Hops(E) \in lengths /\ \A m \in lengths : Hops(E) <= m
    BY <1>2, <1>5, <2>1
  <2> QED
    BY <1>1, <1>3, <2>2
<1> QED
  BY <1>4, <1>5

-----------------------------------------------------------------------------
(* What the rounds have seen.                                              *)

(* Artists within r hops of one of the ends. *)
Within(E, a, r) == \E x \in {From, To} : \E n \in 0..r : Reaches(E, x, a, n)

LEMMA WithinNext ==
  ASSUME NEW E, NEW r \in Nat, NEW a, NEW b \in Person, Within(E, a, r), {a, b} \in E
  PROVE  Within(E, b, r + 1)
<1>1. PICK x \in {From, To}, n \in 0..r : Reaches(E, x, a, n)
  BY DEF Within
<1>2. Reaches(E, x, b, n + 1) /\ n + 1 \in 0..(r + 1)
  BY <1>1, ReachesNext
<1> QED
  BY <1>2 DEF Within

LEMMA WithinMore ==
  ASSUME NEW E, NEW r \in Nat, NEW a, Within(E, a, r) PROVE Within(E, a, r + 1)
<1>1. 0..r \subseteq 0..(r + 1)
  OBVIOUS
<1> QED
  BY <1>1 DEF Within

LEMMA WithinPrevious ==
  ASSUME NEW E, NEW r \in Nat, NEW a \in Person, Within(E, a, r + 1)
  PROVE  Within(E, a, r) \/ \E b \in Person : Within(E, b, r) /\ {b, a} \in E
<1>1. PICK x \in {From, To}, n \in 0..(r + 1) : Reaches(E, x, a, n)
  BY DEF Within
<1>2. CASE n <= r
  BY <1>1, <1>2 DEF Within
<1>3. CASE n = r + 1
  <2>1. PICK w \in Ways(E, n) : w[1] = x /\ w[n + 1] = a
    BY <1>1 DEF Reaches
  <2>2. n \in Nat /\ n \in 1..(n + 1) /\ n \in 1..n /\ n - 1 \in 0..r
    BY <1>3
  <2>3. Reaches(E, x, w[n], n - 1)
    BY <2>1, <2>2, Prefix
  <2>4. w[n] \in Person /\ {w[n], a} \in E
    BY <2>1, <2>2 DEF Ways
  <2> QED
    BY <2>2, <2>3, <2>4 DEF Within
<1>4. n <= r \/ n = r + 1
  OBVIOUS
<1> QED
  BY <1>2, <1>3, <1>4

LEMMA WithinMonotone ==
  ASSUME NEW E, NEW F, E \subseteq F, NEW a, NEW r, Within(E, a, r) PROVE Within(F, a, r)
<1>1. \A n : Ways(E, n) \subseteq Ways(F, n)
  BY DEF Ways
<1> QED
  BY <1>1 DEF Within, Reaches

(* A walk between the ends that is short enough for both sides to have met *)
(* leads through what was added to the graph.                              *)
LEMMA ShortWaysAreSeen ==
  ASSUME NEW E, NEW r \in Nat, NEW n \in Nat, n <= 2 * r + 2,
         NEW w \in Ways(E, n), w[1] = From, w[n + 1] = To,
         \A a \in Person : Within(E, a, r) => Of(E, {a}) \subseteq adj
  PROVE  w \in Ways(adj, n)
<1>1. w \in [1..(n + 1) -> Person] /\ \A i \in 1..n : {w[i], w[i + 1]} \in E
  BY DEF Ways
<1>2. ASSUME NEW i \in 1..n PROVE {w[i], w[i + 1]} \in adj
  <2>1. /\ i \in 1..(n + 1) /\ i + 1 \in 1..(n + 1) /\ i - 1 \in Nat /\ n - i \in Nat
        /\ n + 1 - (i + 1) = n - i /\ i \in Nat
    OBVIOUS
  <2>2. w[i] \in Person /\ w[i + 1] \in Person /\ {w[i], w[i + 1]} \in E
    BY <1>1, <2>1
  <2>3. CASE i - 1 <= r
    <3>1. Reaches(E, From, w[i], i - 1)
      BY <2>1, Prefix
    <3>2. i - 1 \in 0..r
      BY <2>1, <2>3
    <3>3. Within(E, w[i], r)
      BY <3>1, <3>2 DEF Within
    <3>4. {w[i], w[i + 1]} \in Of(E, {w[i]})
      BY <2>2 DEF Of
    <3> QED
      BY <2>2, <3>3, <3>4
  <2>4. CASE ~ (i - 1 <= r)
    <3>1. Reaches(E, w[i + 1], To, n - i)
      BY <2>1, Suffix
    <3>2. Reaches(E, To, w[i + 1], n - i)
      BY <2>1, <3>1, ReachesBack
    <3>3. n - i \in 0..r
      BY <2>1, <2>4
    <3>4. Within(E, w[i + 1], r)
      BY <3>2, <3>3 DEF Within
    <3>5. {w[i], w[i + 1]} \in Of(E, {w[i + 1]})
      BY <2>2 DEF Of
    <3> QED
      BY <2>2, <3>4, <3>5
  <2> QED
    BY <2>3, <2>4
<1> QED
  BY <1>1, <1>2 DEF Ways

(* If nothing else was added, the sides have met where the ends connect.   *)
LEMMA SeenWaysAreShort ==
  ASSUME NEW r \in Nat, NEW n \in Nat, From \in Person, To \in Person,
         \A e \in adj : \E a \in e : a \in Person /\ Within(adj, a, r),
         Reaches(adj, From, To, n)
  PROVE  \E m \in 0..(2 * r + 2) : Reaches(adj, From, To, m)
<1> DEFINE AtFrom(a) == \E k \in 0..r : Reaches(adj, From, a, k)
<1>1. PICK w \in Ways(adj, n) : w[1] = From /\ w[n + 1] = To
  BY DEF Reaches
<1>2. /\ w \in [1..(n + 1) -> Person]
      /\ \A i \in 1..n : {w[i], w[i + 1]} \in adj
  BY DEF Ways
<1>3. AtFrom(w[1])
  <2>1. Reaches(adj, From, From, 0) /\ 0 \in 0..r
    BY ReachesItself
  <2> QED
    BY <2>1, <1>1
<1> DEFINE Back == {k \in 0..n : AtFrom(w[n + 1 - k])}
<1>4. PICK k \in Back : \A j \in Back : k <= j
  <2>1. n \in Back
    BY <1>3
  <2>2. Back \in SUBSET Nat
    OBVIOUS
  <2> HIDE DEF Back
  <2> QED
    BY <2>1, <2>2, LeastNat
<1> DEFINE i == n + 1 - k
<1>5. /\ k \in 0..n /\ i \in 1..(n + 1) /\ i \in Nat /\ AtFrom(w[i])
  BY <1>4
<1>6. \A j \in (i + 1)..(n + 1) : ~ AtFrom(w[j])
  <2> SUFFICES ASSUME NEW j \in (i + 1)..(n + 1), AtFrom(w[j]) PROVE FALSE
    OBVIOUS
  <2>1. n + 1 - j \in 0..n /\ n + 1 - (n + 1 - j) = j /\ n + 1 - j < k
    BY <1>5
  <2>2. n + 1 - j \in Back
    BY <2>1
  <2> HIDE DEF Back
  <2> QED
    BY <1>4, <1>5, <2>1, <2>2
<1> HIDE DEF Back
<1>7. PICK h \in 0..r : Reaches(adj, From, w[i], h)
  BY <1>5
<1>8. h \in Nat /\ h <= r
  OBVIOUS
<1> HIDE DEF i, AtFrom
<1>9. CASE i = n + 1
  BY <1>1, <1>7, <1>8, <1>9
<1>10. CASE i \in 1..n
  <2>1. i + 1 \in (i + 1)..(n + 1) /\ i + 1 \in 1..(n + 1)
    BY <1>10
  <2>2. w[i + 1] \in Person /\ {w[i], w[i + 1]} \in adj
    BY <1>2, <1>10, <2>1
  <2>3. Reaches(adj, From, w[i + 1], h + 1) /\ h + 1 \in Nat
    BY <2>2, <1>7, <1>8, ReachesNext
  <2>4. ASSUME NEW g \in Nat, g <= r + 1, Reaches(adj, To, w[i + 1], g)
        PROVE  \E m \in 0..(2 * r + 2) : Reaches(adj, From, To, m)
    <3>1. Reaches(adj, w[i + 1], To, g)
      BY <2>4, ReachesBack
    <3>2. Reaches(adj, From, To, h + 1 + g)
      BY <2>3, <2>4, <3>1, ReachesOn
    <3>3. h + 1 + g \in 0..(2 * r + 2)
      BY <1>8, <2>4
    <3> QED
      BY <3>2, <3>3
  <2>5. CASE i = n
    <3>1. w[i + 1] = To /\ h + 1 \in 0..(2 * r + 2)
      BY <1>1, <1>8, <2>5
    <3> QED
      BY <3>1, <2>3
  <2>6. CASE i \in 1..(n - 1)
    <3>1. i + 1 \in 1..n /\ i + 2 \in (i + 1)..(n + 1) /\ i + 1 + 1 = i + 2 /\ i + 2 \in 1..(n + 1)
      BY <2>6
    <3>2. {w[i + 1], w[i + 2]} \in adj
      BY <1>2, <3>1
    <3>3. PICK a \in {w[i + 1], w[i + 2]} : Within(adj, a, r)
      BY <3>2
    <3>4. ~ AtFrom(a)
      BY <1>6, <2>1, <3>1
    <3>5. PICK x \in {From, To}, g \in 0..r : Reaches(adj, x, a, g)
      BY <3>3 DEF Within
    <3>6. x = To
      BY <3>4, <3>5 DEF AtFrom
    <3>7. CASE a = w[i + 1]
      BY <2>4, <3>5, <3>6, <3>7
    <3>8. CASE a = w[i + 2]
      <4>1. {a, w[i + 1]} \in adj
        <5>1. {a, w[i + 1]} = {w[i + 1], w[i + 2]}
          BY <3>8
        <5> QED
          BY <5>1, <3>2
      <4>2. Reaches(adj, To, w[i + 1], g + 1)
        BY <4>1, <2>2, <3>5, <3>6, ReachesNext
      <4> QED
        BY <2>4, <4>2
    <3> QED
      BY <3>7, <3>8
  <2> QED
    BY <1>10, <2>5, <2>6
<1> QED
  BY <1>5, <1>9, <1>10

(* Where nothing is left to add, no walk leads out.                        *)
LEMMA SaturatedWays ==
  ASSUME NEW E, NEW n \in Nat, From \in known, NEW w \in Ways(E, n), w[1] = From,
         \A a \in known : Of(E, {a}) \subseteq adj, UNION adj \subseteq known
  PROVE  w \in Ways(adj, n)
<1>1. w \in [1..(n + 1) -> Person] /\ \A i \in 1..n : {w[i], w[i + 1]} \in E
  BY DEF Ways
<1>2. \A i \in 1..n : w[i] \in known => {w[i], w[i + 1]} \in adj /\ w[i + 1] \in known
  <2> SUFFICES ASSUME NEW i \in 1..n, w[i] \in known
               PROVE  {w[i], w[i + 1]} \in adj /\ w[i + 1] \in known
    OBVIOUS
  <2> DEFINE e == {w[i], w[i + 1]}
  <2>1. e \in Of(E, {w[i]})
    BY <1>1 DEF Of
  <2>2. e \in adj /\ w[i + 1] \in e
    BY <2>1
  <2> HIDE DEF e
  <2>3. w[i + 1] \in UNION adj
    BY <2>2
  <2> QED
    BY <2>2, <2>3 DEF e
<1> DEFINE Bad == {i \in 1..(n + 1) : w[i] \notin known}
<1>3. ASSUME Bad # {} PROVE FALSE
  <2>1. PICK i \in Bad : \A j \in Bad : i <= j
    <3>1. Bad \in SUBSET Nat
      OBVIOUS
    <3> HIDE DEF Bad
    <3> QED
      BY <1>3, <3>1, LeastNat
  <2>2. i # 1
    BY <2>1
  <2>3. i - 1 \in 1..n /\ i - 1 + 1 = i /\ i - 1 \notin Bad /\ i - 1 \in 1..(n + 1)
    BY <2>1, <2>2
  <2>4. w[i - 1] \in known
    BY <2>3
  <2>5. w[i] \in known
    BY <2>3, <2>4, <1>2
  <2> QED
    BY <2>1, <2>5
<1>4. \A i \in 1..n : w[i] \in known
  BY <1>3
<1> QED
  BY <1>1, <1>2, <1>4 DEF Ways

-----------------------------------------------------------------------------
(* The inductive invariant.                                                *)

Beginning == {"direct", "warm from", "warm to", "begin"}
Ending == {"found", "none", "timeout"}

(* Nothing has kept an artist's songs from the tables. *)
Faults == {"failed", "partial", "pruned"}
NoFault == excuses \cap Faults = {}

(* The artists of each stage have had their songs stored, and nothing was  *)
(* read before it was stored.                                              *)
FetchedSoFar ==
  /\ at \in {"warm to", "begin"} => From \in stored
  /\ at = "begin" => To \in stored
  /\ at = "expand" => known \ processed \subseteq stored /\ expanding \ tasks \subseteq stored
  /\ \A a \in stored : Of(world, {a}) \subseteq edgesStored
  /\ unread = {}

(* What a round has added: the artists within as many hops of what could   *)
(* be read, and of what was read no others, unless the store knew them.    *)
RoundsReach ==
  LET seen == IF at = "expand" THEN known \cup expanding ELSE known
      radius == IF at = "expand" THEN round + 1 ELSE round
  IN /\ "capped" \notin excuses => \A a \in Person : Within(Readable, a, radius) => a \in seen
     /\ "used the store" \notin excuses => \A a \in seen : Within(adj, a, radius)

Shape ==
  /\ FinderTypeOK /\ {From, To} \subseteq known
  /\ at \in Beginning \cup {"search", "expand"} \cup Ending
  /\ at \in Beginning => known = {From, To} /\ processed = {} /\ adj = {} /\ round = 0
  /\ at = "search" => processed = known
  /\ IF at = "expand" THEN round < Rounds ELSE expanding = {} /\ tasks = {}
  /\ enqueued # {} => enriching

(* The artists gone through are in the graph with all that could be read.  *)
GoneThrough ==
  /\ \A a \in processed : Of(Readable, {a}) \subseteq adj
  /\ \A e \in adj : e \cap processed # {}

Outcome ==
  /\ at = "found" =>
       /\ \A i \in 1..(Len(answer) - 1) : {answer[i], answer[i + 1]} \in world
       /\ excuses \cap {"used the store", "capped"} = {} =>
            Hops(Readable) = -1 \/ Len(answer) <= Hops(Readable) + 1
  /\ at = "none" /\ excuses \cap {"capped", "saturated"} = {} =>
       Hops(Readable) = -1 \/ Hops(Readable) > 2 * (Rounds + 1)
  /\ at = "timeout" /\ enriching => UNION adj \subseteq known \cup enqueued

FinderInv ==
  /\ Shape /\ GoneThrough
  /\ NoFault => FetchedSoFar
  /\ at \in {"search", "expand"} => RoundsReach
  /\ Outcome

LEMMA FinderFacts ==
  ASSUME FinderInv
  PROVE  /\ From \in Person /\ To \in Person /\ From # To /\ IsFiniteSet(Person)
         /\ PairsOnly(world) /\ PairsOnly(adj) /\ adj \subseteq world
         /\ PairsOnly(Readable) /\ Readable \subseteq world
         /\ Rounds \in Nat /\ round \in Nat /\ round <= Rounds /\ known \subseteq Person
<1>1. FinderTypeOK
  BY DEF FinderInv, Shape
<1>2. PairsOnly(world) /\ adj \subseteq world
  BY <1>1 DEF FinderTypeOK, FinderConstantsOK, PairsOnly
<1>3. PairsOnly(adj) /\ PairsOnly(Readable) /\ Readable \subseteq world
  BY <1>2 DEF PairsOnly, Readable
<1> QED
  BY <1>1, <1>2, <1>3 DEF FinderTypeOK, FinderConstantsOK

(* A path found is there, and as short as any that could be read.          *)
LEMMA FoundIsTrue ==
  ASSUME FinderInv, at = "search", NEW p \in Shortest(adj)
  PROVE  /\ \A i \in 1..(Len(p) - 1) : {p[i], p[i + 1]} \in world
         /\ excuses \cap {"used the store", "capped"} = {} =>
              Hops(Readable) = -1 \/ Len(p) <= Hops(Readable) + 1
<1> DEFINE N == Cardinality(Person)
           h == Hops(adj)
           L == Hops(Readable)
<1>1. /\ From \in Person /\ To \in Person /\ From # To /\ IsFiniteSet(Person)
      /\ PairsOnly(Readable) /\ PairsOnly(adj) /\ adj \subseteq world /\ round \in Nat
      /\ N \in Nat /\ known \subseteq Person
  BY FinderFacts, FS_CardinalityType
<1>2. h # -1 /\ p \in Arriving(adj, h)
  BY DEF Shortest
<1>3. h \in 0..N /\ Reaches(adj, From, To, h) /\ \A n \in 0..N : Reaches(adj, From, To, n) => h <= n
  BY <1>1, <1>2, HopsAre
<1>4. p \in Ways(adj, h)
  BY <1>1, <1>2, <1>3, ArrivingIs
<1>5. p \in [1..(h + 1) -> Person] /\ \A i \in 1..h : {p[i], p[i + 1]} \in world
  BY <1>1, <1>4 DEF Ways
<1>6. p \in Seq(Person) /\ Len(p) = h + 1
  BY <1>3, <1>5
<1>7. \A i \in 1..(Len(p) - 1) : {p[i], p[i + 1]} \in world
  BY <1>3, <1>5, <1>6
<1>8. ASSUME excuses \cap {"used the store", "capped"} = {}, L # -1 PROVE Len(p) <= L + 1
  <2>1. /\ \A a \in known : Of(Readable, {a}) \subseteq adj
        /\ \A a \in Person : Within(Readable, a, round) => a \in known
        /\ \A a \in known : Within(adj, a, round)
        /\ \A e \in adj : e \cap known # {}
    BY <1>8 DEF FinderInv, Shape, GoneThrough, RoundsReach
  <2>2. \A e \in adj : \E a \in e : a \in Person /\ Within(adj, a, round)
    BY <2>1, <1>1
  <2>3. h \in Nat
    BY <1>3
  <2>4. PICK m \in 0..(2 * round + 2) : Reaches(adj, From, To, m)
    BY <1>1, <1>3, <2>2, <2>3, SeenWaysAreShort
  <2>5. L \in 0..N /\ Reaches(Readable, From, To, L)
    BY <1>1, <1>8, HopsAre
  <2>6. PICK w \in Ways(Readable, L) : w[1] = From /\ w[L + 1] = To
    BY <2>5 DEF Reaches
  <2>7. CASE L <= 2 * round + 2
    <3>1. w \in Ways(adj, L)
      <4>1. \A a \in Person : Within(Readable, a, round) => Of(Readable, {a}) \subseteq adj
        BY <2>1
      <4>2. L \in Nat
        BY <2>5
      <4> HIDE DEF L
      <4> QED
        BY <4>1, <4>2, <1>1, <2>6, <2>7, ShortWaysAreSeen
    <3>2. h <= L
      BY <1>3, <2>5, <2>6, <3>1 DEF Reaches
    <3> HIDE DEF h, L
    <3> QED
      BY <1>3, <1>6, <2>5, <3>2
  <2>8. CASE ~ (L <= 2 * round + 2)
    <3>1. m \in Nat /\ m < L /\ L \in Nat /\ L <= N
      <4> HIDE DEF L, N
      <4> QED
        BY <1>1, <2>4, <2>5, <2>8
    <3>2. m \in 0..N
      BY <3>1, <1>1
    <3>3. h <= m
      BY <1>3, <2>4, <3>2
    <3> HIDE DEF h, L, N
    <3> QED
      BY <1>6, <2>3, <3>1, <3>3
  <2> QED
    BY <2>7, <2>8
<1> QED
  BY <1>7, <1>8

(* No path means that the artists are farther apart than the rounds reach. *)
LEMMA NoneIsTrue ==
  /\ FinderInv /\ at = "search" /\ Hops(adj) = -1 /\ "capped" \notin excuses
  /\ round = Rounds \/ UNION adj \subseteq known
  => Hops(Readable) = -1 \/ Hops(Readable) > 2 * (Rounds + 1)
<1>0. SUFFICES ASSUME FinderInv, at = "search", Hops(adj) = -1,
                      "capped" \notin excuses,
                      round = Rounds \/ UNION adj \subseteq known
               PROVE  Hops(Readable) = -1 \/ Hops(Readable) > 2 * (Rounds + 1)
  OBVIOUS
<1> DEFINE N == Cardinality(Person)
           L == Hops(Readable)
<1>1. /\ From \in Person /\ To \in Person /\ From # To /\ IsFiniteSet(Person)
      /\ PairsOnly(Readable) /\ PairsOnly(adj) /\ adj \subseteq world /\ round \in Nat
      /\ N \in Nat /\ known \subseteq Person /\ Rounds \in Nat /\ From \in known
  BY <1>0, FinderFacts, FS_CardinalityType DEF FinderInv, Shape
<1>2. \A n \in 0..N : ~ Reaches(adj, From, To, n)
  <2>1. \/ Hops(adj) = -1 /\ \A n \in 0..N : ~ Reaches(adj, From, To, n)
        \/ Hops(adj) \in 0..N
    BY <1>0, <1>1, HopsAre
  <2>2. -1 \notin 0..N
    BY <1>1
  <2> QED
    BY <1>0, <2>1, <2>2
<1>3. SUFFICES ASSUME L # -1, ~ (L > 2 * (Rounds + 1)) PROVE FALSE
  OBVIOUS
<1>4. L \in 0..N /\ Reaches(Readable, From, To, L)
  BY <1>1, <1>3, HopsAre
<1>5. PICK w \in Ways(Readable, L) : w[1] = From /\ w[L + 1] = To
  BY <1>4 DEF Reaches
<1>6. /\ \A a \in known : Of(Readable, {a}) \subseteq adj
      /\ \A a \in Person : Within(Readable, a, round) => a \in known
  BY <1>0 DEF FinderInv, Shape, GoneThrough, RoundsReach
<1>7. L \in Nat /\ ~ Reaches(adj, From, To, L)
  <2> HIDE DEF L
  <2>1. L \in 0..N
    BY <1>4
  <2>2. L \in Nat
    BY <2>1, <1>1
  <2> HIDE DEF N
  <2> QED
    BY <1>2, <2>1, <2>2
<1> HIDE DEF L
<1>8. w \notin Ways(adj, L)
  BY <1>5, <1>7 DEF Reaches
<1>9. CASE round = Rounds
  <2>1. L <= 2 * round + 2
    BY <1>1, <1>3, <1>7, <1>9
  <2> QED
    BY <1>1, <1>5, <1>6, <1>7, <1>8, <2>1, ShortWaysAreSeen
<1>10. CASE UNION adj \subseteq known
  BY <1>1, <1>5, <1>6, <1>7, <1>8, <1>10, SaturatedWays
<1> QED
  BY <1>0, <1>9, <1>10

(* What a change of the tables keeps.                                      *)
TablesFit ==
  /\ stored' \subseteq Person /\ edgesStored' \subseteq world
  /\ excuses \subseteq excuses' /\ excuses' \subseteq excuses \cup Faults
  /\ excuses' \cap Faults = {} =>
       /\ excuses' = excuses /\ stored \subseteq stored'
       /\ (\A b \in stored : Of(world, {b}) \subseteq edgesStored) =>
            \A b \in stored' : Of(world, {b}) \subseteq edgesStored'

LEMMA StoresKeeps ==
  ASSUME FinderInv, NEW a \in Person, NEW omit, Stores(a, omit)
  PROVE  TablesFit /\ a \in stored'
<1>1. stored \subseteq Person /\ edgesStored \subseteq world
  BY DEF FinderInv, Shape, FinderTypeOK
<1>2. /\ stored' = stored \cup {a} /\ edgesStored' = edgesStored \cup (Of(world, {a}) \ omit)
      /\ excuses' = IF ~(Of(world, {a}) \subseteq edgesStored') THEN excuses \cup {"partial"}
                    ELSE excuses
  BY DEF Stores, Excused
<1>3. Of(world, {a}) \subseteq world
  BY DEF Of
<1>4. ASSUME excuses' \cap Faults = {}
      PROVE  excuses' = excuses /\ Of(world, {a}) \subseteq edgesStored'
  BY <1>2, <1>4 DEF Faults
<1>5. excuses \subseteq excuses' /\ excuses' \subseteq excuses \cup Faults
  BY <1>2 DEF Faults
<1> QED
  BY <1>1, <1>2, <1>3, <1>4, <1>5 DEF TablesFit

LEMMA FetchKeeps ==
  ASSUME FinderInv, NEW a \in Person, Fetch(a)
  PROVE  TablesFit /\ (excuses' \cap Faults = {} => a \in stored')
<1>1. ASSUME NEW omit, Stores(a, omit)
      PROVE  TablesFit /\ (excuses' \cap Faults = {} => a \in stored')
  BY <1>1, StoresKeeps
<1>2. CASE Excused("failed", TRUE) /\ UNCHANGED <<stored, edgesStored>>
  BY <1>2 DEF Excused, FinderInv, Shape, FinderTypeOK, TablesFit, Faults
<1> QED
  BY <1>1, <1>2 DEF Fetch

(* Reading the artists of the round: append_delta.                         *)
LEMMA AppendKeeps ==
  ASSUME FinderInv, NEW ids, AppendDelta(ids), known \subseteq ids,
         world' = world, edgesStored' = edgesStored
  PROVE  /\ adj \subseteq adj' /\ adj' \subseteq world /\ unread' \subseteq world
         /\ Readable' \subseteq Readable /\ known' = ids /\ processed' = ids
         /\ GoneThrough'
         /\ FetchedSoFar /\ ids \ processed \subseteq stored => unread' = {}
<1> DEFINE new == ids \ processed
<1>1. /\ known' = ids /\ processed' = ids /\ adj' = adj \cup Of(edgesStored, new)
      /\ unread' = unread \cup (Of(world, new) \ edgesStored)
  BY DEF AppendDelta
<1>2. /\ adj \subseteq world /\ edgesStored \subseteq world /\ unread \subseteq world
      /\ processed \subseteq ids
      /\ \A e \in adj : e \cap processed # {}
      /\ \A b \in processed : Of(Readable, {b}) \subseteq adj
  BY DEF FinderInv, Shape, FinderTypeOK, GoneThrough
<1>3. /\ Of(edgesStored, new) \subseteq edgesStored /\ Of(world, new) \subseteq world
      /\ \A e \in Of(edgesStored, new) : e \cap new # {}
  BY DEF Of
<1>4. adj' \subseteq world /\ unread' \subseteq world /\ adj \subseteq adj'
  BY <1>1, <1>2, <1>3
<1>5. Readable' \subseteq Readable /\ Readable' = world \ unread'
  BY <1>1 DEF Readable
<1>6. \A e \in adj' : e \cap ids # {}
  BY <1>1, <1>2, <1>3
<1>7. ASSUME NEW a \in ids PROVE Of(Readable', {a}) \subseteq adj'
  <2>1. CASE a \in processed
    <3>1. Of(Readable', {a}) \subseteq Of(Readable, {a})
      BY <1>5 DEF Of
    <3> QED
      BY <1>2, <1>4, <2>1, <3>1
  <2>2. CASE a \notin processed
    <3>1. SUFFICES ASSUME NEW e \in Of(Readable', {a}) PROVE e \in adj'
      OBVIOUS
    <3>2. e \in Readable' /\ a \in e
      BY DEF Of
    <3>3. e \in world /\ e \notin unread' /\ e \cap new # {}
      BY <1>5, <2>2, <3>2
    <3>4. e \in Of(world, new)
      BY <3>3 DEF Of
    <3>5. e \in edgesStored
      BY <1>1, <3>3, <3>4
    <3>6. e \in Of(edgesStored, new)
      BY <3>3, <3>5 DEF Of
    <3> QED
      BY <1>1, <3>6
  <2> QED
    BY <2>1, <2>2
<1>8. GoneThrough'
  <2>1. \A a : Of(Readable, {a})' = Of(Readable', {a})
    BY DEF Of
  <2> QED
    BY <1>1, <1>6, <1>7, <2>1 DEF GoneThrough
<1>9. ASSUME FetchedSoFar, new \subseteq stored PROVE unread' = {}
  <2>1. SUFFICES ASSUME NEW e \in Of(world, new) PROVE e \in edgesStored
    BY <1>1, <1>9 DEF FetchedSoFar
  <2>2. PICK a \in new : a \in e /\ e \in world
    BY DEF Of
  <2>3. e \in Of(world, {a})
    BY <2>2 DEF Of
  <2>4. Of(world, {a}) \subseteq edgesStored
    BY <1>9 DEF FetchedSoFar
  <2> QED
    BY <2>3, <2>4
<1> QED
  BY <1>1, <1>4, <1>5, <1>8, <1>9

LEMMA FinderStarts ==
  ASSUME FinderConstantsOK, FinderInit PROVE FinderInv
<1>1. PICK graph \in Worlds, cached \in Caches, omit \in Omitted, enrich \in BOOLEAN :
        FinderInitWith(graph, cached, omit, enrich)
  BY DEF FinderInit
<1>2. edgesStored \subseteq world /\ (NoFault => \A a \in stored : Of(world, {a}) \subseteq edgesStored)
  BY <1>1 DEF FinderInitWith, Of, NoFault, Faults
<1>3. enriching \in BOOLEAN
  BY <1>1, Zenon DEF FinderInitWith
<1>4. Shape
  BY <1>1, <1>2, <1>3 DEF FinderInitWith, Shape, FinderTypeOK, FinderConstantsOK, Beginning
<1> QED
  BY <1>1, <1>2, <1>4 DEF FinderInitWith, FinderInv, GoneThrough, FetchedSoFar, Outcome

(* What could be read stays so while nothing is read.                      *)
LEMMA ReadableStays ==
  ASSUME UNCHANGED <<envVars, unread>>
  PROVE  Readable' = Readable /\ Hops(Readable)' = Hops(Readable)
<1>1. world' = world /\ unread' = unread
  BY DEF envVars
<1>2. Readable' = Readable
  BY <1>1 DEF Readable
<1> QED
  BY <1>2 DEF Hops, Arriving, WalksFrom, Near, Of

LEMMA GoneThroughStays ==
  ASSUME GoneThrough, UNCHANGED <<envVars, processed, adj, unread>> PROVE GoneThrough'
<1>1. Readable' = Readable
  BY ReadableStays
<1>2. \A a : Of(Readable, {a})' = Of(Readable, {a})
  BY <1>1 DEF Of
<1> QED
  BY <1>2 DEF GoneThrough

LEMMA RoundsReachKept ==
  ASSUME RoundsReach, UNCHANGED <<envVars, unread, adj, known, expanding, round, at>>,
         excuses \subseteq excuses'
  PROVE  RoundsReach'
<1>1. /\ Readable' = Readable /\ adj' = adj /\ known' = known /\ expanding' = expanding
      /\ round' = round /\ at' = at
  BY ReadableStays
<1> DEFINE seen == IF at = "expand" THEN known \cup expanding ELSE known
           radius == IF at = "expand" THEN round + 1 ELSE round
<1>2. /\ "capped" \notin excuses' => \A a \in Person : Within(Readable, a, radius) => a \in seen
      /\ "used the store" \notin excuses' => \A a \in seen : Within(adj, a, radius)
  BY DEF RoundsReach
<1>3. seen' = seen /\ radius' = radius
  BY <1>1
<1> HIDE DEF seen, radius
<1>4. /\ "capped" \notin excuses' => \A a \in Person : Within(Readable', a, radius') => a \in seen'
      /\ "used the store" \notin excuses' => \A a \in seen' : Within(adj', a, radius')
  BY <1>1, <1>2, <1>3
<1> QED
  BY <1>4 DEF RoundsReach, Within, Reaches, Ways, seen, radius

(* Fetches, writes of others and the prune leave the search as it is.      *)
LEMMA TablesStep ==
  ASSUME FinderInv, TablesFit,
         UNCHANGED <<envVars, known, processed, adj, expanding, round, at, answer, enqueued, unread>>,
         tasks' \subseteq tasks, at # "expand" => tasks' = tasks,
         excuses' \cap Faults = {} => tasks \ tasks' \subseteq stored',
         at \in Ending => excuses' = excuses
  PROVE  FinderInv'
<1>1. Shape'
  BY DEF FinderInv, Shape, FinderTypeOK, TablesFit, envVars, Beginning, Ending
<1>2. GoneThrough'
  BY GoneThroughStays DEF FinderInv
<1>3. NoFault' => FetchedSoFar'
  <2>1. SUFFICES ASSUME excuses' \cap Faults = {} PROVE FetchedSoFar'
    BY DEF NoFault, Faults
  <2>2. /\ stored \subseteq stored' /\ FetchedSoFar
        /\ (\A b \in stored : Of(world, {b}) \subseteq edgesStored) =>
             \A b \in stored' : Of(world, {b}) \subseteq edgesStored'
    BY <2>1 DEF TablesFit, FinderInv, NoFault
  <2>3. \A b \in stored' : Of(world', {b}) \subseteq edgesStored'
    BY <2>2 DEF FetchedSoFar, envVars
  <2>4. \A b : Of(world, {b})' = Of(world', {b})
    BY DEF Of
  <2> QED
    BY <2>1, <2>2, <2>3, <2>4 DEF FetchedSoFar
<1>4. at' \in {"search", "expand"} => RoundsReach'
  BY RoundsReachKept DEF FinderInv, TablesFit
<1>5. Outcome'
  <2>1. Hops(Readable)' = Hops(Readable) /\ world' = world /\ enriching' = enriching
    BY ReadableStays DEF envVars
  <2> QED
    BY <2>1 DEF FinderInv, Outcome, Ending
<1> QED
  BY <1>1, <1>2, <1>3, <1>4, <1>5 DEF FinderInv

LEMMA CheckDirectStep ==
  ASSUME FinderInv, CheckDirect PROVE FinderInv'
<1>1. /\ at = "direct" /\ Shape /\ GoneThrough
      /\ UNCHANGED <<envVars, stored, edgesStored, known, processed, adj, tasks, expanding, round,
                     enqueued, unread, excuses>>
  BY DEF CheckDirect, FinderInv
<1>2. at' \in {"found", "warm from"}
  BY DEF CheckDirect, Answers
<1>3. Shape'
  BY <1>1, <1>2 DEF Shape, FinderTypeOK, envVars, Beginning, Ending
<1>4. GoneThrough'
  BY <1>1, GoneThroughStays
<1>5. (NoFault' => FetchedSoFar') /\ at' \notin {"search", "expand"}
  BY <1>1, <1>2 DEF FinderInv, NoFault, Faults, FetchedSoFar, envVars, Of
<1>6. Outcome'
  <2>1. CASE at' = "warm from"
    BY <2>1 DEF Outcome
  <2>2. CASE at' = "found"
    <3>1. {From, To} \in world /\ answer' = <<From, To>>
      BY <2>2 DEF CheckDirect, Answers
    <3>2. /\ From \in Person /\ To \in Person /\ From # To /\ IsFiniteSet(Person)
          /\ PairsOnly(Readable)
      BY FinderFacts
    <3>3. Hops(Readable) = -1 \/ 2 <= Hops(Readable) + 1
      <4> DEFINE N == Cardinality(Person)
                 L == Hops(Readable)
      <4>1. N \in Nat
        BY <3>2, FS_CardinalityType
      <4>2. ~ Reaches(Readable, From, To, 0)
        BY <3>2 DEF Reaches, Ways
      <4>3. \/ L = -1
            \/ L \in 0..N /\ Reaches(Readable, From, To, L)
        BY <3>2, HopsAre
      <4>4. L = -1 \/ (L \in 0..N /\ L # 0)
        BY <4>2, <4>3
      <4> HIDE DEF L, N
      <4>5. L = -1 \/ 2 <= L + 1
        BY <4>1, <4>4
      <4> QED
        BY <4>5 DEF L
    <3>4. Hops(Readable)' = Hops(Readable)
      BY <1>1, ReadableStays
    <3>5. Len(answer') = 2 /\ answer'[1] = From /\ answer'[2] = To
      BY <3>1
    <3>6. \A i \in 1..(Len(answer') - 1) : {answer'[i], answer'[i + 1]} \in world'
      BY <1>1, <3>1, <3>5 DEF envVars
    <3> QED
      BY <2>2, <3>3, <3>4, <3>5, <3>6 DEF Outcome
  <2> QED
    BY <1>2, <2>1, <2>2
<1> QED
  BY <1>3, <1>4, <1>5, <1>6 DEF FinderInv

LEMMA WarmStep ==
  ASSUME FinderInv, NEW here \in {"warm from", "warm to"}, NEW a \in Person, NEW next,
         here = "warm from" => a = From /\ next = "warm to",
         here = "warm to" => a = To /\ next = "begin",
         Warm(here, a, next)
  PROVE  FinderInv'
<1>1. /\ at = here /\ at' = next /\ Shape /\ GoneThrough
      /\ UNCHANGED <<envVars, known, processed, adj, tasks, expanding, round, answer, enqueued, unread>>
  BY DEF Warm, FinderInv
<1>2. next \in {"warm to", "begin"}
  OBVIOUS
<1>3. TablesFit /\ (excuses' \cap Faults = {} => a \in stored')
  <2>1. CASE a \in stored
    BY <1>1, <2>1 DEF Warm, Shape, FinderTypeOK, TablesFit
  <2>2. CASE a \notin stored
    BY <1>1, <2>2, FetchKeeps DEF Warm
  <2> QED
    BY <2>1, <2>2
<1>4. Shape'
  BY <1>1, <1>2, <1>3 DEF Shape, FinderTypeOK, TablesFit, envVars, Beginning, Ending
<1>5. GoneThrough'
  BY <1>1, GoneThroughStays
<1>6. NoFault' => FetchedSoFar'
  <2>1. SUFFICES ASSUME excuses' \cap Faults = {} PROVE FetchedSoFar'
    BY DEF NoFault, Faults
  <2>2. /\ stored \subseteq stored' /\ FetchedSoFar /\ a \in stored'
        /\ (\A b \in stored : Of(world, {b}) \subseteq edgesStored) =>
             \A b \in stored' : Of(world, {b}) \subseteq edgesStored'
    BY <1>3, <2>1 DEF TablesFit, FinderInv, NoFault
  <2>3. \A b \in stored' : Of(world, {b})' \subseteq edgesStored'
    BY <1>1, <2>2 DEF FetchedSoFar, envVars, Of
  <2>4. unread' = {} /\ at' # "expand"
    BY <1>1, <1>2, <2>2 DEF FetchedSoFar
  <2>5. /\ at' \in {"warm to", "begin"} => From \in stored'
        /\ at' = "begin" => To \in stored'
    BY <1>1, <2>2 DEF FetchedSoFar
  <2> QED
    BY <2>3, <2>4, <2>5 DEF FetchedSoFar
<1>7. Outcome' /\ at' \notin {"search", "expand"}
  BY <1>1, <1>2 DEF Outcome
<1> QED
  BY <1>4, <1>5, <1>6, <1>7 DEF FinderInv

(* The two ends are all there is within no hops.                           *)
LEMMA WithinNoHops ==
  ASSUME NEW E, From \in Person, To \in Person, NEW a \in Person
  PROVE  Within(E, a, 0) <=> a \in {From, To}
<1>1. ASSUME Within(E, a, 0) PROVE a \in {From, To}
  BY <1>1 DEF Within, Reaches, Ways
<1>2. Within(E, From, 0) /\ Within(E, To, 0)
  BY ReachesItself DEF Within
<1> QED
  BY <1>1, <1>2

LEMMA BeginStep ==
  ASSUME FinderInv, Begin PROVE FinderInv'
<1> DEFINE ids == known \cup (Near(edgesStored, {From}) \cap stored)
                        \cup (Near(edgesStored, {To}) \cap stored)
<1>1. /\ at = "begin" /\ at' = "search" /\ Shape /\ AppendDelta(ids)
      /\ UNCHANGED <<envVars, stored, edgesStored, tasks, expanding, round, answer, enqueued>>
      /\ excuses' = IF known' # known THEN excuses \cup {"used the store"} ELSE excuses
  BY DEF Begin, FinderInv, Excused
<1>2. /\ known = {From, To} /\ processed = {} /\ round = 0 /\ known \subseteq ids
      /\ ids \subseteq known \cup stored
  BY <1>1 DEF Shape, Beginning
<1>3. world' = world /\ enriching' = enriching /\ aged' = aged
  BY <1>1 DEF envVars
<1> HIDE DEF ids
<1>4. /\ adj' \subseteq world /\ unread' \subseteq world /\ known' = ids /\ processed' = ids
      /\ GoneThrough'
      /\ FetchedSoFar /\ ids \ processed \subseteq stored => unread' = {}
  BY <1>1, <1>2, <1>3, AppendKeeps
<1>5. Shape'
  BY <1>1, <1>2, <1>3, <1>4 DEF Shape, FinderTypeOK, Beginning, Ending
<1>6. ASSUME NoFault' PROVE FetchedSoFar'
  <2>1. FetchedSoFar
    BY <1>1, <1>6 DEF NoFault, Faults, FinderInv
  <2>2. From \in stored /\ To \in stored
    <3>1. at = "begin" => To \in stored
      BY <2>1 DEF FetchedSoFar
    <3>2. at \in {"warm to", "begin"} => From \in stored
      BY <2>1 DEF FetchedSoFar
    <3> QED
      BY <1>1, <3>1, <3>2
  <2>3. ids \ processed \subseteq stored
    BY <1>2, <2>2
  <2>4. unread' = {}
    BY <1>4, <2>1, <2>3
  <2> QED
    BY <1>1, <1>3, <2>1, <2>4 DEF FetchedSoFar, Of
<1>7. RoundsReach'
  <2>1. From \in Person /\ To \in Person /\ ids \subseteq Person
    BY <1>1, <1>2, FinderFacts DEF Shape, FinderTypeOK
  <2>2. \A a \in Person : Within(Readable', a, 0) => a \in known'
    BY <1>2, <1>4, <2>1, WithinNoHops
  <2>3. "used the store" \notin excuses' => \A a \in known' : Within(adj', a, 0)
    <3>1. SUFFICES ASSUME "used the store" \notin excuses', NEW a \in known'
                   PROVE  Within(adj', a, 0)
      OBVIOUS
    <3>2. a \in {From, To}
      BY <1>1, <1>2, <3>1
    <3> QED
      BY <2>1, <3>2, WithinNoHops
  <2>4. round' = 0 /\ at' # "expand"
    BY <1>1, <1>2
  <2> QED
    BY <2>2, <2>3, <2>4 DEF RoundsReach, Within, Reaches, Ways
<1>8. Outcome'
  BY <1>1 DEF Outcome
<1> QED
  BY <1>4, <1>5, <1>6, <1>7, <1>8 DEF FinderInv

LEMMA FindInAdjStep ==
  ASSUME FinderInv, FindInAdj PROVE FinderInv'
<1>1. /\ at = "search" /\ at' = "found" /\ Shape /\ GoneThrough
      /\ UNCHANGED <<envVars, stored, edgesStored, known, processed, adj, tasks, expanding, round,
                     enqueued, unread, excuses>>
  BY DEF FindInAdj, FinderInv, Answers
<1>2. PICK p \in Shortest(adj) : answer' = p
  BY DEF FindInAdj, Answers
<1>3. /\ \A i \in 1..(Len(p) - 1) : {p[i], p[i + 1]} \in world
      /\ excuses \cap {"used the store", "capped"} = {} =>
           Hops(Readable) = -1 \/ Len(p) <= Hops(Readable) + 1
  BY <1>1, FoundIsTrue
<1>4. Hops(Readable)' = Hops(Readable) /\ world' = world
  BY <1>1, ReadableStays DEF envVars
<1>5. Outcome'
  BY <1>1, <1>2, <1>3, <1>4 DEF Outcome
<1>6. Shape' /\ GoneThrough'
  BY <1>1, GoneThroughStays DEF Shape, FinderTypeOK, envVars, Beginning, Ending
<1>7. NoFault' => FetchedSoFar'
  BY <1>1 DEF FinderInv, NoFault, Faults, FetchedSoFar, envVars, Of
<1> QED
  BY <1>1, <1>5, <1>6, <1>7 DEF FinderInv

LEMMA DeadlineReachedStep ==
  ASSUME FinderInv, DeadlineReached PROVE FinderInv'
<1>1. /\ at = "search" /\ at' = "timeout" /\ Shape /\ GoneThrough
      /\ enqueued' = IF enriching THEN enqueued \cup ((UNION adj) \ known) ELSE enqueued
      /\ UNCHANGED <<envVars, stored, edgesStored, known, processed, adj, tasks, expanding, round,
                     unread, excuses>>
  BY DEF DeadlineReached, FinderInv, Answers
<1>2. UNION adj \subseteq Person
  BY FinderFacts DEF PairsOnly
<1>3. Outcome'
  BY <1>1 DEF Outcome, envVars
<1>4. Shape'
  BY <1>1, <1>2 DEF Shape, FinderTypeOK, envVars, Beginning, Ending
<1>5. GoneThrough' /\ (NoFault' => FetchedSoFar')
  BY <1>1, GoneThroughStays DEF FinderInv, NoFault, Faults, FetchedSoFar, envVars, Of
<1> QED
  BY <1>1, <1>3, <1>4, <1>5 DEF FinderInv

LEMMA NoPathStep ==
  ASSUME FinderInv, NoPath PROVE FinderInv'
<1>1. /\ at = "search" /\ at' = "none" /\ Shape /\ GoneThrough /\ Hops(adj) = -1
      /\ round = Rounds \/ Candidates = {}
      /\ known' = IF round = Rounds THEN known ELSE known \cup Cached
      /\ excuses' = IF round # Rounds /\ Cached # {} THEN excuses \cup {"saturated"} ELSE excuses
      /\ UNCHANGED <<envVars, stored, edgesStored, processed, adj, tasks, expanding, round, enqueued,
                     unread>>
  BY DEF NoPath, FinderInv, Answers, Excused, LastRound
<1>2. /\ UNION adj \subseteq known \cup Cached \cup Candidates
      /\ Cached \subseteq stored /\ Cached \cap known = {}
  BY DEF Cached, Candidates
<1>3. Hops(Readable)' = Hops(Readable)
  BY <1>1, ReadableStays
<1>4. Outcome'
  <2>1. SUFFICES ASSUME excuses' \cap {"capped", "saturated"} = {}
                 PROVE  Hops(Readable) = -1 \/ Hops(Readable) > 2 * (Rounds + 1)
    BY <1>1, <1>3 DEF Outcome
  <2>2. "capped" \notin excuses /\ (round = Rounds \/ Cached = {})
    BY <1>1, <2>1
  <2>3. round = Rounds \/ UNION adj \subseteq known
    BY <1>1, <1>2, <2>2
  <2> QED
    BY <1>1, <2>2, <2>3, NoneIsTrue
<1>5. Shape'
  BY <1>1, <1>2 DEF Shape, FinderTypeOK, envVars, Beginning, Ending
<1>6. GoneThrough'
  BY <1>1, GoneThroughStays
<1>7. NoFault' => FetchedSoFar'
  BY <1>1 DEF FinderInv, NoFault, Faults, FetchedSoFar, envVars, Of
<1> QED
  BY <1>1, <1>4, <1>5, <1>6, <1>7 DEF FinderInv

(* A round reaches a hop farther.                                          *)
LEMMA ExpandFrontierStep ==
  ASSUME FinderInv, ExpandFrontier PROVE FinderInv'
<1>1. PICK top \in Heaviest(Candidates) :
        /\ tasks' = top /\ expanding' = top
        /\ excuses' = excuses \cup (IF top # Candidates THEN {"capped"} ELSE {})
                             \cup (IF Cached # {} THEN {"used the store"} ELSE {})
  BY DEF ExpandFrontier
<1>2. /\ at = "search" /\ at' = "expand" /\ Shape /\ GoneThrough /\ round < Rounds
      /\ known' = known \cup Cached
      /\ UNCHANGED <<envVars, stored, edgesStored, processed, adj, round, answer, enqueued, unread>>
  BY DEF ExpandFrontier, FinderInv
<1>3. top \subseteq Candidates
  BY <1>1 DEF Heaviest
<1>4. /\ UNION adj \subseteq known \cup Cached \cup Candidates
      /\ Cached \subseteq stored /\ Cached \cap known = {} /\ Cached \subseteq UNION adj
      /\ Candidates \cap known = {} /\ Candidates \cap stored = {} /\ Candidates \subseteq UNION adj
  BY DEF Cached, Candidates
<1>5. UNION adj \subseteq Person /\ PairsOnly(adj) /\ known \subseteq Person /\ round \in Nat
  BY FinderFacts DEF PairsOnly
<1>6. processed = known
  BY <1>2 DEF Shape
<1>7. Shape'
  BY <1>1, <1>2, <1>3, <1>4, <1>5, <1>6 DEF Shape, FinderTypeOK, envVars, Beginning, Ending
<1>8. GoneThrough'
  BY <1>2, GoneThroughStays
<1>9. NoFault' => FetchedSoFar'
  <2>1. NoFault' => FetchedSoFar
    BY <1>1 DEF FinderInv, NoFault, Faults
  <2> QED
    BY <1>1, <1>2, <1>4, <1>6, <2>1 DEF FetchedSoFar, envVars, Of
<1>10. RoundsReach'
  <2>1. Readable' = Readable /\ adj' = adj /\ round' = round /\ at' = "expand"
    BY <1>2, ReadableStays
  <2>2. ASSUME "capped" \notin excuses', NEW a \in Person, Within(Readable, a, round + 1)
        PROVE  a \in known' \cup expanding'
    <3>1. "capped" \notin excuses /\ top = Candidates
      BY <1>1, <2>2
    <3>2. /\ \A b \in Person : Within(Readable, b, round) => b \in known
          /\ \A b \in known : Of(Readable, {b}) \subseteq adj
      BY <1>2, <1>6, <3>1 DEF FinderInv, GoneThrough, RoundsReach
    <3>3. CASE Within(Readable, a, round)
      BY <1>2, <3>2, <3>3
    <3>4. CASE \E b \in Person : Within(Readable, b, round) /\ {b, a} \in Readable
      <4>1. PICK b \in Person : Within(Readable, b, round) /\ {b, a} \in Readable
        BY <3>4
      <4> DEFINE e == {b, a}
      <4>2. e \in Of(Readable, {b}) /\ a \in e
        BY <4>1 DEF Of
      <4> HIDE DEF e
      <4>3. a \in UNION adj
        BY <3>2, <4>1, <4>2
      <4> QED
        BY <1>1, <1>2, <1>4, <3>1, <4>3
    <3> QED
      BY <1>5, <2>2, <3>3, <3>4, WithinPrevious
  <2>3. ASSUME "used the store" \notin excuses', NEW a \in known' \cup expanding'
        PROVE  Within(adj, a, round + 1)
    <3>1. "used the store" \notin excuses /\ Cached = {}
      BY <1>1, <2>3
    <3>2. \A b \in known : Within(adj, b, round)
      BY <1>2, <3>1 DEF FinderInv, RoundsReach
    <3>3. CASE a \in known
      BY <1>5, <3>2, <3>3, WithinMore
    <3>4. CASE a \notin known
      <4>1. a \in Candidates
        BY <1>1, <1>2, <1>3, <2>3, <3>1, <3>4
      <4>2. PICK e \in adj : a \in e
        BY <1>4, <4>1
      <4>3. PICK b \in e : b \in known
        BY <1>2, <1>6, <4>2 DEF GoneThrough
      <4>4. b # a /\ a \in Person
        BY <1>5, <3>4, <4>2, <4>3
      <4>5. e = {b, a}
        BY <1>5, <4>2, <4>3, <4>4 DEF PairsOnly
      <4> QED
        BY <1>5, <3>2, <4>2, <4>3, <4>4, <4>5, WithinNext
    <3> QED
      BY <3>3, <3>4
  <2>4. "capped" \notin excuses' =>
          \A a \in Person : Within(Readable', a, round' + 1) => a \in known' \cup expanding'
    BY <2>1, <2>2
  <2>5. "used the store" \notin excuses' =>
          \A a \in known' \cup expanding' : Within(adj', a, round' + 1)
    BY <2>1, <2>3
  <2> QED
    BY <2>1, <2>4, <2>5 DEF RoundsReach, Within, Reaches, Ways
<1>11. Outcome'
  BY <1>2 DEF Outcome
<1> QED
  BY <1>7, <1>8, <1>9, <1>10, <1>11, <1>2 DEF FinderInv

LEMMA RunTaskStep ==
  ASSUME FinderInv, NEW a \in Person, RunTask(a) PROVE FinderInv'
<1>1. /\ at = "expand" /\ a \in tasks /\ tasks' = tasks \ {a} /\ Fetch(a)
      /\ UNCHANGED <<envVars, known, processed, adj, expanding, round, at, answer, enqueued, unread>>
  BY DEF RunTask
<1>2. TablesFit /\ (excuses' \cap Faults = {} => a \in stored')
  BY <1>1, FetchKeeps
<1>3. at \notin Ending /\ tasks \ tasks' \subseteq {a} /\ tasks' \subseteq tasks
  BY <1>1 DEF Ending
<1> QED
  BY <1>1, <1>2, <1>3, TablesStep

LEMMA OthersStoreStep ==
  ASSUME FinderInv, NEW a \in Person, Elsewhere(a) PROVE FinderInv'
<1>1. /\ ~Over /\ \E omit \in Omitted : Stores(a, omit)
      /\ UNCHANGED <<envVars, known, processed, adj, tasks, expanding, round, at, answer, enqueued,
                     unread>>
  BY DEF Elsewhere
<1>2. TablesFit
  BY <1>1, StoresKeeps
<1>3. at \notin Ending
  BY <1>1 DEF Over, Ending
<1> QED
  BY <1>1, <1>2, <1>3, TablesStep

LEMMA PruneStaleStep ==
  ASSUME FinderInv, NEW a \in Person, PruneStale(a) PROVE FinderInv'
<1>1. /\ ~Over /\ stored' = stored \ {a} /\ edgesStored' = edgesStored \ Of(world, {a})
      /\ excuses' = excuses \cup {"pruned"}
      /\ UNCHANGED <<envVars, known, processed, adj, tasks, expanding, round, at, answer, enqueued,
                     unread>>
  BY DEF PruneStale, Excused
<1>2. TablesFit
  BY <1>1 DEF FinderInv, Shape, FinderTypeOK, TablesFit, Faults
<1>3. at \notin Ending
  BY <1>1 DEF Over, Ending
<1> QED
  BY <1>1, <1>2, <1>3, TablesStep

LEMMA JoinStep ==
  ASSUME FinderInv, Join PROVE FinderInv'
<1> DEFINE ids == known \cup expanding
<1>1. /\ at = "expand" /\ at' = "search" /\ Shape /\ tasks = {} /\ AppendDelta(ids)
      /\ enqueued' = IF enriching THEN enqueued \cup expanding ELSE enqueued
      /\ round' = round + 1 /\ expanding' = {}
      /\ UNCHANGED <<envVars, stored, edgesStored, tasks, answer, excuses>>
  BY DEF Join, FinderInv
<1>2. known \subseteq ids
  OBVIOUS
<1>3. world' = world /\ enriching' = enriching /\ aged' = aged
  BY <1>1 DEF envVars
<1>4. /\ adj \subseteq adj' /\ adj' \subseteq world /\ unread' \subseteq world
      /\ Readable' \subseteq Readable /\ known' = ids /\ processed' = ids /\ GoneThrough'
      /\ FetchedSoFar /\ ids \ processed \subseteq stored => unread' = {}
  <2> HIDE DEF ids
  <2> QED
    BY <1>1, <1>2, <1>3, AppendKeeps
<1>5. Shape'
  <2>1. expanding \subseteq Person /\ round < Rounds /\ Rounds \in Nat /\ round \in 0..Rounds
    BY <1>1 DEF Shape, FinderTypeOK, FinderConstantsOK
  <2>2. round' \in 0..Rounds
    BY <1>1, <2>1
  <2>3. enqueued' \subseteq Person /\ (enqueued' # {} => enriching')
    BY <1>1, <1>3, <2>1 DEF Shape, FinderTypeOK
  <2> QED
    BY <1>1, <1>3, <1>4, <2>1, <2>2, <2>3 DEF Shape, FinderTypeOK, Beginning, Ending
<1>6. NoFault' => FetchedSoFar'
  <2>1. SUFFICES ASSUME NoFault' PROVE FetchedSoFar'
    OBVIOUS
  <2>2. FetchedSoFar
    BY <1>1, <2>1 DEF NoFault, Faults, FinderInv
  <2>3. ids \ processed \subseteq stored
    BY <1>1, <2>2 DEF FetchedSoFar
  <2>4. unread' = {}
    BY <1>4, <2>2, <2>3
  <2> QED
    BY <1>1, <1>3, <2>2, <2>4 DEF FetchedSoFar, Of
<1>7. RoundsReach'
  <2>1. /\ "capped" \notin excuses =>
             \A a \in Person : Within(Readable, a, round + 1) => a \in ids
        /\ "used the store" \notin excuses => \A a \in ids : Within(adj, a, round + 1)
    BY <1>1 DEF FinderInv, RoundsReach
  <2>2. /\ \A a : Within(Readable', a, round + 1) => Within(Readable, a, round + 1)
        /\ \A a : Within(adj, a, round + 1) => Within(adj', a, round + 1)
    BY <1>4, WithinMonotone
  <2>3. round' = round + 1 /\ at' # "expand" /\ excuses' = excuses /\ known' = ids
    BY <1>1, <1>4
  <2> HIDE DEF ids
  <2>4. "capped" \notin excuses' =>
          \A a \in Person : Within(Readable', a, round') => a \in known'
    BY <2>1, <2>2, <2>3
  <2>5. "used the store" \notin excuses' => \A a \in known' : Within(adj', a, round')
    BY <2>1, <2>2, <2>3
  <2> QED
    BY <2>3, <2>4, <2>5 DEF RoundsReach, Within, Reaches, Ways
<1>8. Outcome'
  BY <1>1 DEF Outcome
<1> QED
  BY <1>4, <1>5, <1>6, <1>7, <1>8 DEF FinderInv

LEMMA FinderStutters ==
  ASSUME FinderInv, UNCHANGED pathVars PROVE FinderInv'
<1>1. /\ UNCHANGED <<stored, edgesStored, tasks, excuses>>
      /\ UNCHANGED <<envVars, known, processed, adj, expanding, round, at, answer, enqueued, unread>>
  BY DEF pathVars
<1>2. TablesFit
  BY <1>1 DEF FinderInv, Shape, FinderTypeOK, TablesFit
<1> QED
  BY <1>1, <1>2, TablesStep

LEMMA FinderSteps ==
  FinderInv /\ [FinderNext]_pathVars => FinderInv'
<1> SUFFICES ASSUME FinderInv, [FinderNext]_pathVars PROVE FinderInv'
  OBVIOUS
<1>1. From \in Person /\ To \in Person
  BY FinderFacts
<1>2. CASE CheckDirect
  BY <1>2, CheckDirectStep
<1>3. CASE Warm("warm from", From, "warm to")
  BY <1>1, <1>3, WarmStep
<1>4. CASE Warm("warm to", To, "begin")
  BY <1>1, <1>4, WarmStep
<1>5. CASE Begin
  BY <1>5, BeginStep
<1>6. CASE FindInAdj
  BY <1>6, FindInAdjStep
<1>7. CASE DeadlineReached
  BY <1>7, DeadlineReachedStep
<1>8. CASE ExpandFrontier
  BY <1>8, ExpandFrontierStep
<1>9. CASE Join
  BY <1>9, JoinStep
<1>10. CASE NoPath
  BY <1>10, NoPathStep
<1>11. ASSUME NEW a \in Person, RunTask(a) PROVE FinderInv'
  BY <1>11, RunTaskStep
<1>12. ASSUME NEW a \in Person, Elsewhere(a) PROVE FinderInv'
  BY <1>12, OthersStoreStep
<1>13. ASSUME NEW a \in Person, PruneStale(a) PROVE FinderInv'
  BY <1>13, PruneStaleStep
<1>14. CASE UNCHANGED pathVars
  BY <1>14, FinderStutters
<1> QED
  BY <1>2, <1>3, <1>4, <1>5, <1>6, <1>7, <1>8, <1>9, <1>10, <1>11, <1>12, <1>13, <1>14 DEF FinderNext

(* What FindPath answers is true of what it could read, and that is all    *)
(* that Genius knows unless a fetch failed or was incomplete or a prune    *)
(* came between: for every graph, every store it starts with, whatever     *)
(* others write and delete meanwhile, and every number of rounds.          *)
THEOREM AnswersAreTrueHolds == FinderConstantsOK /\ FinderSpec => []AnswersAreTrue
<1>1. FinderConstantsOK /\ FinderInit => FinderInv
  BY FinderStarts
<1>2. FinderInv /\ [FinderNext]_pathVars => FinderInv'
  BY FinderSteps
<1>3. FinderInv => AnswersAreTrue
  BY DEF FinderInv, Outcome, Shape, NoFault, Faults, FetchedSoFar, AnswersAreTrue
<1> QED
  BY <1>1, <1>2, <1>3, PTL DEF FinderSpec

-----------------------------------------------------------------------------
(* IdealPath: the game's search for the path it keeps *)

Members(s) == {s[i] : i \in DOMAIN s}

ChainTo(graph, chain, b) ==
  /\ chain \in Seq(Musician) /\ Len(chain) >= 1
  /\ chain[1] = FromId /\ chain[Len(chain)] = b
  /\ \A i \in 1..(Len(chain) - 1) : chain[i + 1] \in NeighboursOf(graph, chain[i])

LeadsBack(parents, f) ==
  f = [b \in DOMAIN parents \cup {FromId} |->
         IF b = FromId THEN <<b>> ELSE Append(f[parents[b]], b)]

(***************************************************************************)
(* Following the parents back from an artist gives a chain of ties, as     *)
(* long as the round in which it was met says.                             *)
(***************************************************************************)
TreeOK(f) ==
  /\ LeadsBack(parent, f)
  /\ \A b \in visited : ChainTo(Ever, f[b], b)
  /\ \A b \in Members(frontier) : Len(f[b]) = depth + 1
  /\ \A b \in Members(upcoming) : Len(f[b]) = depth + 2
  /\ toMeet # {} => Len(f[asked]) = depth + 1

(***************************************************************************)
(* Unless something was left out, what is left to be met over ties that    *)
(* last is next to an artist of this round or the next, and all that is    *)
(* near over such ties is met before this round is over.                   *)
(***************************************************************************)
NothingIsLeftOut ==
  /\ \A v \in visited : \A w \in NeighboursOf(Lasting, v) :
       w \in visited \cup toMeet \/ v \in Members(frontier) \cup Members(upcoming)
  /\ \A n \in 0..depth : Ball(Lasting, n) \subseteq visited \ Members(upcoming)

ParentsOK ==
  /\ FromId \notin DOMAIN parent /\ visited = DOMAIN parent \cup {FromId}
  /\ \A b \in DOMAIN parent : parent[b] \in visited
  /\ toMeet \subseteq NeighboursOf(Ever, asked) \ visited

IdealInv ==
  /\ IdealTypeOK
  /\ ParentsOK
  /\ ~ended => ideal = <<>> /\ ToId \notin visited /\ \E f : TreeOK(f)
  /\ ~ended /\ ~missed => NothingIsLeftOut
  /\ IdealIsShortest

LEMMA IdealConstants ==
  /\ FromId \in Musician /\ ToId \in Musician /\ FromId # ToId
  /\ kIdealFinderMaxDepth \in Nat \ {0} /\ kIdealFinderMaxFrontier \in Nat
  BY IdealAssumption DEF IdealAssumption

(***************************************************************************)
(* What walking back computes, once there is a function that does so.      *)
(***************************************************************************)
LEMMA PathBackIs ==
  ASSUME NEW parents, NEW f, LeadsBack(parents, f), FromId \notin DOMAIN parents,
         \A b \in DOMAIN parents : parents[b] \in DOMAIN parents \cup {FromId},
         \A b \in DOMAIN parents \cup {FromId} : f[b] \in Seq(Musician),
         NEW a \in DOMAIN parents \cup {FromId}
  PROVE  PathBack(parents, a) = f[a]
<1> DEFINE D == DOMAIN parents \cup {FromId}
           Step(g) == [b \in D |-> IF b = FromId THEN <<b>> ELSE Append(g[parents[b]], b)]
           W == CHOOSE g : g = Step(g)
<1>1. PathBack(parents, a) = W[a]
  BY DEF PathBack
<1>2. f = Step(f)
  BY DEF LeadsBack
<1>3. W = Step(W)
  <2> HIDE DEF Step
  <2> QED
    BY <1>2
<1>4. /\ \A b \in D : W[b] = IF b = FromId THEN <<b>> ELSE Append(W[parents[b]], b)
      /\ \A b \in D : f[b] = IF b = FromId THEN <<b>> ELSE Append(f[parents[b]], b)
  <2> HIDE DEF W
  <2> QED
    BY <1>2, <1>3
<1> HIDE DEF W, Step
<1> DEFINE Bad == {b \in D : W[b] # f[b]}
           Lengths == {Len(f[b]) : b \in Bad}
<1>5. SUFFICES ASSUME Bad # {} PROVE FALSE
  BY <1>1
<1>6. PICK b \in Bad : \A c \in Bad : Len(f[b]) <= Len(f[c])
  <2>1. Lengths \in SUBSET Nat /\ Lengths # {}
    <3>1. \A b \in Bad : Len(f[b]) \in Nat
      OBVIOUS
    <3> QED
      BY <1>5, <3>1
  <2>2. PICK n \in Lengths : \A m \in Lengths : n <= m
    <3> HIDE DEF Lengths
    <3> QED
      BY <2>1, LeastNat
  <2> QED
    BY <2>2
<1>7. b # FromId /\ b \in DOMAIN parents /\ parents[b] \in D
  BY <1>4, <1>6
<1>8. f[b] = Append(f[parents[b]], b) /\ f[parents[b]] \in Seq(Musician)
  BY <1>4, <1>6, <1>7
<1>9. Len(f[b]) = Len(f[parents[b]]) + 1 /\ Len(f[parents[b]]) \in Nat
  BY <1>8
<1>10. parents[b] \notin Bad
  BY <1>6, <1>9
<1>11. W[parents[b]] = f[parents[b]]
  BY <1>7, <1>10
<1>12. W[b] = f[b]
  BY <1>4, <1>7, <1>8, <1>11
<1> QED
  BY <1>6, <1>12

(***************************************************************************)
(* The balls around the first artist.                                      *)
(***************************************************************************)
LEMMA BallIs ==
  ASSUME NEW graph
  PROVE  /\ Ball(graph, 0) = {FromId}
         /\ \A n \in 1..kIdealFinderMaxDepth :
              Ball(graph, n) = Ball(graph, n - 1) \cup
                {b \in Musician : \E a \in Ball(graph, n - 1) : <<a, b>> \in graph}
<1> DEFINE K == kIdealFinderMaxDepth
           Around(s) == s \cup {b \in Musician : \E a \in s : <<a, b>> \in graph}
           Step(N, g) == [m \in 0..N |-> IF m = 0 THEN {FromId} ELSE Around(g[m - 1])]
           Short == {N \in 0..K : ~\E g : g = Step(N, g)}
           W == CHOOSE g : g = Step(K, g)
<1>0. K \in Nat
  BY IdealConstants
<1>1. \A n : Ball(graph, n) = W[n]
  BY DEF Ball
<1> HIDE DEF Around, W
<1>2. Short = {}
  <2> SUFFICES ASSUME Short # {} PROVE FALSE
    OBVIOUS
  <2>1. PICK N \in Short : \A m \in Short : N <= m
    <3>1. Short \in SUBSET Nat
      OBVIOUS
    <3> HIDE DEF Short
    <3> QED
      BY <3>1, LeastNat
  <2>2. N \in 0..K /\ ~\E g : g = Step(N, g)
    OBVIOUS
  <2>3. N # 0
    <3> SUFFICES ASSUME N = 0 PROVE FALSE
      OBVIOUS
    <3> DEFINE g == [m \in 0..0 |-> {FromId}]
    <3>1. g = Step(0, g)
      OBVIOUS
    <3> QED
      BY <2>2, <3>1
  <2>4. N - 1 \in 0..K /\ N - 1 \notin Short /\ N \in Nat \ {0}
    <3>1. N \in Nat \ {0} /\ N - 1 \in 0..K /\ ~(N <= N - 1)
      BY <1>0, <2>2, <2>3
    <3> HIDE DEF Short
    <3> QED
      BY <2>1, <3>1
  <2>5. PICK g : g = Step(N - 1, g)
    BY <2>4
  <2> DEFINE h == [m \in 0..N |-> IF m = N THEN Around(g[N - 1]) ELSE g[m]]
  <2>6. h = Step(N, h)
    <3>1. \A m \in 0..(N - 1) : g[m] = IF m = 0 THEN {FromId} ELSE Around(g[m - 1])
      BY <2>5
    <3>2. ASSUME NEW m \in 0..N PROVE h[m] = IF m = 0 THEN {FromId} ELSE Around(h[m - 1])
      <4>1. CASE m = N
        <5>1. h[N - 1] = g[N - 1]
          BY <2>4
        <5> QED
          BY <2>4, <4>1, <5>1
      <4>2. CASE m # N
        <5>1. m \in 0..(N - 1) /\ h[m] = g[m]
          BY <2>4, <4>2
        <5>2. m # 0 => h[m - 1] = g[m - 1]
          BY <2>4, <4>2
        <5> QED
          BY <3>1, <5>1, <5>2
      <4> QED
        BY <4>1, <4>2
    <3> HIDE DEF h
    <3>3. h = [m \in 0..N |-> h[m]]
      BY DEF h
    <3> QED
      BY <3>2, <3>3
  <2> QED
    BY <2>2, <2>6
<1>3. PICK g : g = Step(K, g)
  <2>1. K \notin Short
    BY <1>2
  <2> QED
    BY <1>0, <2>1
<1>4. W = Step(K, W)
  <2> HIDE DEF Step
  <2> QED
    BY <1>3 DEF W
<1>5. \A m \in 0..K : W[m] = IF m = 0 THEN {FromId} ELSE Around(W[m - 1])
  BY <1>4
<1>6. ASSUME NEW n \in 1..K PROVE W[n] = Around(W[n - 1])
  <2>1. n \in 0..K /\ n # 0
    BY <1>0
  <2> QED
    BY <1>5, <2>1
<1>7. W[0] = {FromId}
  BY <1>0, <1>5
<1>8. \A n \in 1..K : Ball(graph, n) = Around(Ball(graph, n - 1))
  BY <1>1, <1>6
<1> QED
  BY <1>1, <1>7, <1>8 DEF Around

LEMMA DistanceIs ==
  ASSUME NEW graph, NEW n \in 0..kIdealFinderMaxDepth,
         \A m \in 0..n : ToId \notin Ball(graph, m)
  PROVE  /\ Distance(graph) \in Nat /\ Distance(graph) > n
         /\ n = kIdealFinderMaxDepth => Distance(graph) > kIdealFinderMaxDepth
<1> DEFINE K == kIdealFinderMaxDepth
           reach == {m \in 0..K : ToId \in Ball(graph, m)}
<1>0. K \in Nat
  BY IdealConstants
<1>1. Distance(graph) = IF reach = {} THEN K + 1 ELSE CHOOSE m \in reach : \A k \in reach : m <= k
  BY DEF Distance
<1>2. \A m \in reach : m \in Nat /\ m > n
  BY <1>0
<1> HIDE DEF reach
<1>3. CASE reach = {}
  BY <1>0, <1>1, <1>3
<1>4. CASE reach # {}
  <2>1. reach \in SUBSET Nat
    BY <1>2
  <2>2. \E m \in reach : \A k \in reach : m <= k
    BY <1>4, <2>1, LeastNat
  <2>3. Distance(graph) \in reach
    BY <1>1, <1>4, <2>2
  <2>4. n # K
    <3>1. \A m \in reach : m <= K
      BY DEF reach
    <3> QED
      BY <1>0, <1>2, <2>3, <3>1
  <2> QED
    BY <1>2, <2>3, <2>4
<1> QED
  BY <1>3, <1>4

(***************************************************************************)
(* A graph that grows keeps its chains.                                    *)
(***************************************************************************)
LEMMA ChainsStay ==
  ASSUME NEW graph, NEW more, graph \subseteq more, NEW chain, NEW b, ChainTo(graph, chain, b)
  PROVE  ChainTo(more, chain, b)
  BY DEF ChainTo, NeighboursOf

LEMMA ChainGrows ==
  ASSUME NEW graph, NEW c, NEW b, ChainTo(graph, c, b), NEW a \in NeighboursOf(graph, b)
  PROVE  ChainTo(graph, Append(c, a), a) /\ Len(Append(c, a)) = Len(c) + 1
<1>1. /\ c \in Seq(Musician) /\ Len(c) \in Nat \ {0} /\ c[1] = FromId /\ c[Len(c)] = b
      /\ \A i \in 1..(Len(c) - 1) : c[i + 1] \in NeighboursOf(graph, c[i])
      /\ a \in Musician
  <2>1. /\ c \in Seq(Musician) /\ Len(c) >= 1 /\ c[1] = FromId /\ c[Len(c)] = b
        /\ \A i \in 1..(Len(c) - 1) : c[i + 1] \in NeighboursOf(graph, c[i])
    BY DEF ChainTo
  <2>2. Len(c) \in Nat \ {0}
    BY <2>1
  <2>3. a \in Musician
    BY DEF NeighboursOf
  <2> QED
    BY <2>1, <2>2, <2>3
<1> DEFINE d == Append(c, a)
<1>2. /\ d \in Seq(Musician) /\ Len(d) = Len(c) + 1 /\ d[Len(c) + 1] = a
      /\ \A i \in 1..Len(c) : d[i] = c[i]
  BY <1>1, AppendProperties
<1> HIDE DEF d
<1>3. ASSUME NEW i \in 1..(Len(d) - 1) PROVE d[i + 1] \in NeighboursOf(graph, d[i])
  <2>1. i \in 1..Len(c) /\ d[i] = c[i]
    BY <1>1, <1>2
  <2>2. CASE i = Len(c)
    BY <1>1, <1>2, <2>1, <2>2
  <2>3. CASE i # Len(c)
    <3>1. i \in 1..(Len(c) - 1) /\ i + 1 \in 1..Len(c)
      BY <1>1, <2>1, <2>3
    <3>2. d[i + 1] = c[i + 1]
      BY <1>2, <3>1
    <3> QED
      BY <1>1, <2>1, <3>1, <3>2
  <2> QED
    BY <2>2, <2>3
<1>4. 1 \in 1..Len(c) /\ d[1] = FromId /\ Len(d) >= 1 /\ d[Len(d)] = a
  BY <1>1, <1>2
<1>5. ChainTo(graph, d, a)
  BY <1>2, <1>3, <1>4 DEF ChainTo
<1> QED
  BY <1>2, <1>5 DEF d

LEMMA ValidIs ==
  ASSUME NEW graph, NEW chain, Len(chain) >= 2, ChainTo(graph, chain, ToId)
  PROVE  ValidateChain(graph, chain) = "valid"
<1>1. chain[1] = FromId /\ chain[Len(chain)] = ToId /\ Len(chain) \in Nat
  BY DEF ChainTo
<1>2. ~(Len(chain) < 2 \/ chain[1] # FromId \/ chain[Len(chain)] # ToId)
  BY <1>1
<1>3. ~\E i \in 1..(Len(chain) - 1) : chain[i + 1] \notin NeighboursOf(graph, chain[i])
  BY DEF ChainTo
<1> QED
  BY <1>2, <1>3 DEF ValidateChain

(***************************************************************************)
(* The balls of a graph lie within those of a larger one.                  *)
(***************************************************************************)
LEMMA BallShrinks ==
  ASSUME NEW graph, NEW more, graph \subseteq more, NEW n \in 0..kIdealFinderMaxDepth
  PROVE  Ball(graph, n) \subseteq Ball(more, n)
<1> DEFINE K == kIdealFinderMaxDepth
           Out == {m \in 0..K : ~(Ball(graph, m) \subseteq Ball(more, m))}
<1>0. K \in Nat
  BY IdealConstants
<1>1. SUFFICES ASSUME Out # {} PROVE FALSE
  OBVIOUS
<1>2. PICK m \in Out : \A k \in Out : m <= k
  <2>1. Out \in SUBSET Nat
    OBVIOUS
  <2> HIDE DEF Out
  <2> QED
    BY <1>1, <2>1, LeastNat
<1>3. Ball(graph, 0) = Ball(more, 0)
  BY BallIs
<1>4. m \in 1..K /\ m - 1 \in 0..K /\ ~(m <= m - 1)
  <2>1. m \in 0..K /\ m # 0
    BY <1>3
  <2> QED
    BY <1>0, <2>1
<1>5. Ball(graph, m - 1) \subseteq Ball(more, m - 1)
  <2>1. m - 1 \notin Out
    <3> HIDE DEF Out
    <3> QED
      BY <1>2, <1>4
  <2> QED
    BY <1>4, <2>1
<1>6. /\ Ball(graph, m) = Ball(graph, m - 1) \cup
           {b \in Musician : \E a \in Ball(graph, m - 1) : <<a, b>> \in graph}
      /\ Ball(more, m) = Ball(more, m - 1) \cup
           {b \in Musician : \E a \in Ball(more, m - 1) : <<a, b>> \in more}
  <2>1. /\ \A k \in 1..K : Ball(graph, k) = Ball(graph, k - 1) \cup
             {b \in Musician : \E a \in Ball(graph, k - 1) : <<a, b>> \in graph}
        /\ \A k \in 1..K : Ball(more, k) = Ball(more, k - 1) \cup
             {b \in Musician : \E a \in Ball(more, k - 1) : <<a, b>> \in more}
    BY BallIs
  <2> HIDE DEF K
  <2> QED
    BY <1>4, <2>1
<1>7. Ball(graph, m) \subseteq Ball(more, m)
  BY <1>5, <1>6
<1> QED
  BY <1>2, <1>7

(***************************************************************************)
(* The graphs that a call may show, one by one and together.               *)
(***************************************************************************)
LEMMA ShownFacts ==
  /\ \A graph \in shown : Lasting \subseteq graph /\ graph \subseteq Ever
  /\ shown' = shown => Ever' = Ever /\ Lasting' = Lasting
  /\ shown \subseteq shown' /\ shown # {} => Ever \subseteq Ever' /\ Lasting' \subseteq Lasting
<1>1. \A graph \in shown : Lasting \subseteq graph /\ graph \subseteq Ever
  BY DEF Lasting, Ever
<1>2. shown' = shown => Ever' = Ever /\ Lasting' = Lasting
  BY DEF Lasting, Ever
<1>3. ASSUME shown \subseteq shown', shown # {} PROVE Ever \subseteq Ever' /\ Lasting' \subseteq Lasting
  <2>1. Ever \subseteq Ever'
    BY <1>3 DEF Ever
  <2>2. ASSUME NEW tie \in Lasting' PROVE tie \in Lasting
    <3>1. \A graph \in shown : tie \in graph
      BY <1>3 DEF Lasting
    <3>2. tie \in Ever
      BY <1>3, <3>1 DEF Ever
    <3> QED
      BY <3>1, <3>2 DEF Lasting
  <2> QED
    BY <2>1, <2>2
<1> QED
  BY <1>1, <1>2, <1>3

LEMMA IdealStarts == IdealInit => IdealInv
<1> SUFFICES ASSUME IdealInit PROVE IdealInv
  OBVIOUS
<1>1. PICK graph \in Graphs : IdealInitWith(graph)
  BY DEF IdealInit
<1>2. /\ ties = graph /\ shown = {graph} /\ visited = {FromId} /\ parent = [a \in {} |-> FromId]
      /\ frontier = <<FromId>> /\ upcoming = <<>> /\ depth = 0 /\ asked = FromId /\ toMeet = {}
      /\ ideal = <<>> /\ ended = FALSE /\ missed = FALSE
  BY <1>1 DEF IdealInitWith
<1>3. IdealTypeOK
  <2>1. /\ frontier \in Seq(visited) /\ upcoming \in Seq(visited)
        /\ Len(upcoming) <= kIdealFinderMaxFrontier
    BY <1>2, IdealConstants
  <2>2. visited \subseteq Musician /\ DOMAIN parent \subseteq visited /\ ideal \in Seq(Musician)
    BY <1>2, IdealConstants
  <2>3. depth \in 0..kIdealFinderMaxDepth
    BY <1>2, IdealConstants
  <2> QED
    BY <1>2, <2>1, <2>2, <2>3 DEF IdealTypeOK
<1>4. DOMAIN parent = {} /\ ParentsOK
  BY <1>2 DEF ParentsOK
<1>5. Members(frontier) = {FromId} /\ Members(upcoming) = {}
  BY <1>2 DEF Members
<1>6. TreeOK([b \in {FromId} |-> <<b>>])
  <2> DEFINE f == [b \in {FromId} |-> <<b>>]
  <2>1. LeadsBack(parent, f)
    BY <1>4 DEF LeadsBack
  <2>2. ChainTo(Ever, f[FromId], FromId) /\ Len(f[FromId]) = 1
    BY IdealConstants DEF ChainTo
  <2> QED
    BY <1>2, <1>5, <2>1, <2>2 DEF TreeOK
<1>7. NothingIsLeftOut
  <2>1. \A n \in 0..depth : n = 0
    BY <1>2
  <2>2. Ball(Lasting, 0) = {FromId}
    BY BallIs
  <2> QED
    BY <1>2, <1>5, <2>1, <2>2 DEF NothingIsLeftOut
<1> QED
  BY <1>2, <1>3, <1>4, <1>6, <1>7, IdealConstants DEF IdealInv, IdealIsShortest

LEMMA AskStep == ASSUME IdealInv, Ask PROVE IdealInv'
<1>0. /\ IdealTypeOK /\ ParentsOK /\ ~ended /\ toMeet = {} /\ frontier # <<>>
      /\ ideal = <<>> /\ ToId \notin visited
      /\ UNCHANGED <<ties, shown, visited, parent, upcoming, depth, ideal, ended>>
      /\ asked' = Head(frontier) /\ frontier' = Tail(frontier)
      /\ missed => missed'
      /\ toMeet' \subseteq NeighboursOf(Ever, asked') \ visited
      /\ ~missed' => NeighboursOf(Lasting, asked') \ visited \subseteq toMeet'
      /\ missed' \in BOOLEAN
  <2>1. IdealTypeOK /\ ParentsOK /\ ~ended /\ ideal = <<>> /\ ToId \notin visited
    BY DEF IdealInv, Ask, Searching
  <2>2. missed \in BOOLEAN
    BY <2>1 DEF IdealTypeOK
  <2>3. /\ toMeet = {} /\ frontier # <<>>
        /\ UNCHANGED <<ties, shown, visited, parent, upcoming, depth, ideal, ended>>
        /\ asked' = Head(frontier) /\ frontier' = Tail(frontier)
    BY DEF Ask, Searching, graphVars
  <2>4. \/ \E graph \in shown : toMeet' = NeighboursOf(graph, asked') \ visited /\ missed' = missed
        \/ toMeet' = {} /\ missed' = TRUE
    BY DEF Ask
  <2>5. \A graph \in shown : NeighboursOf(Lasting, asked') \subseteq NeighboursOf(graph, asked')
                            /\ NeighboursOf(graph, asked') \subseteq NeighboursOf(Ever, asked')
    BY ShownFacts DEF NeighboursOf
  <2>6. /\ toMeet' \subseteq NeighboursOf(Ever, asked') \ visited
        /\ ~missed' => NeighboursOf(Lasting, asked') \ visited \subseteq toMeet'
        /\ missed => missed'
        /\ missed' \in BOOLEAN
    BY <2>2, <2>4, <2>5
  <2> QED
    BY <2>1, <2>3, <2>6
<1>1. PICK f : TreeOK(f)
  BY <1>0 DEF IdealInv
<1>2. /\ frontier \in Seq(visited) /\ asked' \in visited /\ frontier' \in Seq(visited)
      /\ Members(frontier) = {asked'} \cup Members(frontier')
  <2>1. frontier \in Seq(visited)
    BY <1>0 DEF IdealTypeOK
  <2>2. /\ Len(Tail(frontier)) = Len(frontier) - 1 /\ Tail(frontier) \in Seq(visited)
        /\ \A i \in 1..Len(Tail(frontier)) : Tail(frontier)[i] = frontier[i + 1]
        /\ Head(frontier) = frontier[1] /\ Head(frontier) \in visited /\ Len(frontier) \in Nat \ {0}
    BY <1>0, <2>1
  <2>3. ASSUME NEW b \in Members(frontier) PROVE b = asked' \/ b \in Members(frontier')
    <3>1. PICK i \in 1..Len(frontier) : b = frontier[i]
      BY <2>1 DEF Members
    <3>2. CASE i = 1
      BY <1>0, <2>2, <3>1, <3>2
    <3>3. CASE i # 1
      <4>1. i - 1 \in 1..Len(Tail(frontier)) /\ (i - 1) + 1 = i
        BY <2>2, <3>3
      <4>2. Tail(frontier)[i - 1] = frontier[i] /\ i - 1 \in DOMAIN Tail(frontier)
        BY <2>2, <4>1
      <4> QED
        BY <1>0, <3>1, <4>2 DEF Members
    <3> QED
      BY <3>2, <3>3
  <2>4. Members(frontier') \subseteq Members(frontier)
    <3>1. ASSUME NEW i \in 1..Len(Tail(frontier)) PROVE Tail(frontier)[i] \in Members(frontier)
      <4>1. i + 1 \in 1..Len(frontier) /\ Tail(frontier)[i] = frontier[i + 1]
        BY <2>2
      <4> QED
        BY <2>1, <4>1 DEF Members
    <3> QED
      BY <1>0, <2>2, <3>1 DEF Members
  <2>5. asked' \in Members(frontier)
    BY <1>0, <2>1, <2>2 DEF Members
  <2> QED
    BY <1>0, <2>1, <2>2, <2>3, <2>4, <2>5
<1>3. toMeet' \subseteq NeighboursOf(Ever, asked') \ visited /\ toMeet' \subseteq Musician
  BY <1>0 DEF NeighboursOf
<1>4. IdealTypeOK'
  BY <1>0, <1>2, <1>3 DEF IdealTypeOK
<1>0a. Ever' = Ever /\ Lasting' = Lasting
  BY <1>0, ShownFacts
<1>5. ParentsOK'
  BY <1>0, <1>0a, <1>3 DEF ParentsOK
<1>6. TreeOK(f)'
  BY <1>0, <1>0a, <1>1, <1>2 DEF TreeOK
<1>7. ASSUME ~missed' PROVE NothingIsLeftOut'
  <2>1. NothingIsLeftOut
    BY <1>0, <1>7 DEF IdealInv
  <2>2. Members(upcoming)' = Members(upcoming)
    BY <1>0
  <2>3. ASSUME NEW v \in visited, NEW w \in NeighboursOf(Lasting, v)
        PROVE  w \in visited \cup toMeet' \/ v \in Members(frontier') \cup Members(upcoming)
    <3>1. CASE v = asked'
      BY <1>0, <1>7, <2>3, <3>1
    <3>2. CASE v # asked'
      BY <1>0, <1>2, <2>1, <3>2 DEF NothingIsLeftOut
    <3> QED
      BY <3>1, <3>2
  <2> QED
    BY <1>0, <1>0a, <2>1, <2>2, <2>3 DEF NothingIsLeftOut
<1>8. IdealIsShortest'
  BY <1>0 DEF IdealIsShortest
<1> QED
  BY <1>0, <1>4, <1>5, <1>6, <1>7, <1>8 DEF IdealInv

LEMMA MeetStep == ASSUME IdealInv, Meet PROVE IdealInv'
<1>0. /\ IdealTypeOK /\ ParentsOK /\ ~ended /\ ideal = <<>> /\ ToId \notin visited
      /\ UNCHANGED <<ties, shown, frontier, depth, asked>>
      /\ Ever' = Ever /\ Lasting' = Lasting
  BY ShownFacts DEF IdealInv, Meet, graphVars
<1>1. PICK a \in toMeet :
        /\ visited' = visited \cup {a}
        /\ parent' = [b \in DOMAIN parent \cup {a} |-> IF b = a THEN asked ELSE parent[b]]
        /\ IF a = ToId
           THEN ideal' = PathBack(parent', a) /\ ended' = TRUE /\ UNCHANGED <<upcoming, missed>>
           ELSE PutNext(a) /\ UNCHANGED <<ideal, ended>>
        /\ toMeet' = toMeet \ {a}
  BY DEF Meet
<1>2. PICK f : TreeOK(f)
  BY <1>0 DEF IdealInv
<1>3. /\ a \in NeighboursOf(Ever, asked) /\ a \notin visited /\ a \in Musician
      /\ asked \in visited /\ visited \subseteq Musician
      /\ frontier \in Seq(visited) /\ upcoming \in Seq(visited) /\ depth \in Nat
      /\ Members(frontier) \subseteq visited /\ Members(upcoming) \subseteq visited
  BY <1>0 DEF ParentsOK, IdealTypeOK, Members
<1>4. /\ DOMAIN parent' = DOMAIN parent \cup {a}
      /\ parent'[a] = asked
      /\ \A b \in DOMAIN parent : b # a /\ parent'[b] = parent[b] /\ parent[b] # a
  BY <1>0, <1>1, <1>3 DEF ParentsOK
<1>5. ParentsOK'
  BY <1>0, <1>1, <1>3, <1>4, IdealConstants DEF ParentsOK
<1> PICK g : g = [b \in visited' |-> IF b = a THEN Append(f[asked], a) ELSE f[b]]
  OBVIOUS
<1>6. /\ LeadsBack(parent', g)
      /\ g[a] = Append(f[asked], a) /\ \A b \in visited : g[b] = f[b]
  <2>1. /\ DOMAIN parent' \cup {FromId} = visited' /\ a # FromId
        /\ visited = DOMAIN parent \cup {FromId}
        /\ \A b \in DOMAIN parent : parent[b] \in visited
    BY <1>0, <1>1, <1>3, <1>4 DEF ParentsOK
  <2>2. g[a] = Append(f[asked], a) /\ \A b \in visited : g[b] = f[b]
    BY <1>1, <1>3
  <2>3. \A b \in visited : f[b] = IF b = FromId THEN <<b>> ELSE Append(f[parent[b]], b)
    BY <1>2, <2>1 DEF TreeOK, LeadsBack
  <2>4. ASSUME NEW b \in visited'
        PROVE  g[b] = IF b = FromId THEN <<b>> ELSE Append(g[parent'[b]], b)
    <3>1. CASE b = a
      BY <1>3, <1>4, <2>1, <2>2, <3>1
    <3>2. CASE b = FromId
      BY <2>1, <2>2, <2>3, <3>2
    <3>3. CASE b \in DOMAIN parent /\ b # FromId
      BY <1>4, <2>1, <2>2, <2>3, <3>3
    <3> QED
      BY <1>1, <2>1, <3>1, <3>2, <3>3
  <2>5. g = [b \in visited' |-> g[b]]
    OBVIOUS
  <2>6. g = [b \in visited' |-> IF b = FromId THEN <<b>> ELSE Append(g[parent'[b]], b)]
    BY <2>4, <2>5
  <2> QED
    BY <2>1, <2>2, <2>6 DEF LeadsBack
<1>7. /\ \A b \in visited : ChainTo(Ever, f[b], b)
      /\ Len(f[asked]) = depth + 1
  BY <1>1, <1>2 DEF TreeOK
<1>8. ChainTo(Ever, g[a], a) /\ Len(g[a]) = depth + 2
  <2> DEFINE c == f[asked]
  <2>1. ChainTo(Ever, c, asked) /\ Len(c) = depth + 1
    BY <1>3, <1>7
  <2>2. g[a] = Append(c, a)
    BY <1>6
  <2> HIDE DEF c
  <2>3. ChainTo(Ever, Append(c, a), a) /\ Len(Append(c, a)) = Len(c) + 1
    BY <1>3, <2>1, ChainGrows
  <2>4. (depth + 1) + 1 = depth + 2
    BY <1>3
  <2> QED
    BY <2>1, <2>2, <2>3, <2>4
<1>9. \A b \in visited' : ChainTo(Ever, g[b], b)
  BY <1>1, <1>6, <1>7, <1>8
<1>10. CASE a = ToId
  <2>1. ideal' = PathBack(parent', a) /\ ended' = TRUE /\ UNCHANGED <<upcoming, missed>>
    BY <1>1, <1>10
  <2>2. ideal' = g[a]
    <3>1. visited' = DOMAIN parent' \cup {FromId} /\ a \in visited'
      BY <1>1, <1>5 DEF ParentsOK
    <3>2. \A b \in DOMAIN parent' \cup {FromId} : g[b] \in Seq(Musician)
      BY <1>9, <3>1 DEF ChainTo
    <3>3. /\ FromId \notin DOMAIN parent'
          /\ \A b \in DOMAIN parent' : parent'[b] \in DOMAIN parent' \cup {FromId}
      BY <1>5, <3>1 DEF ParentsOK
    <3>4. LeadsBack(parent', g) /\ a \in DOMAIN parent' \cup {FromId}
      BY <1>6, <3>1
    <3>5. PathBack(parent', a) = g[a]
      BY <3>2, <3>3, <3>4, PathBackIs
    <3> QED
      BY <2>1, <3>5
  <2>3. ideal' # <<>> /\ ValidateChain(Ever, ideal') = "valid" /\ ideal' \in Seq(Musician)
    <3>1. Len(ideal') >= 2 /\ ideal' \in Seq(Musician)
      BY <1>3, <1>8, <2>2 DEF ChainTo
    <3>2. ChainTo(Ever, ideal', ToId)
      BY <1>8, <1>10, <2>2
    <3>3. ValidateChain(Ever, ideal') = "valid"
      BY <3>1, <3>2, ValidIs
    <3>4. Len(<<>>) = 0
      OBVIOUS
    <3> QED
      BY <3>1, <3>3, <3>4
  <2>4. ~missed => Len(ideal') - 1 <= Distance(Lasting)
    <3> SUFFICES ASSUME ~missed PROVE Len(ideal') - 1 <= Distance(Lasting)
      OBVIOUS
    <3>1. \A m \in 0..depth : ToId \notin Ball(Lasting, m)
      BY <1>0 DEF IdealInv, NothingIsLeftOut
    <3>2. depth \in 0..kIdealFinderMaxDepth
      BY <1>0 DEF IdealTypeOK
    <3>3. Distance(Lasting) \in Nat /\ Distance(Lasting) > depth
      BY <3>1, <3>2, DistanceIs
    <3> QED
      BY <1>3, <1>8, <2>2, <3>3
  <2>5. IdealTypeOK'
    <3>1. frontier \in Seq(visited') /\ upcoming \in Seq(visited')
      BY <1>1, <1>3
    <3> QED
      BY <1>0, <1>1, <1>3, <1>4, <2>1, <2>3, <3>1 DEF IdealTypeOK
  <2>6. IdealIsShortest'
    BY <1>0, <2>1, <2>3, <2>4 DEF IdealIsShortest
  <2> QED
    BY <1>5, <2>1, <2>5, <2>6 DEF IdealInv
<1>11. CASE a # ToId
  <2>1. PutNext(a) /\ UNCHANGED <<ideal, ended>>
    BY <1>1, <1>11
  <2>2. /\ upcoming' \in Seq(visited') /\ frontier \in Seq(visited')
        /\ Len(upcoming') <= kIdealFinderMaxFrontier /\ missed' \in BOOLEAN
        /\ missed => missed'
        /\ Members(upcoming') \subseteq Members(upcoming) \cup {a}
        /\ Members(upcoming) \subseteq Members(upcoming')
        /\ ~missed' => a \in Members(upcoming')
    <3>0. /\ frontier \in Seq(visited') /\ upcoming \in Seq(visited') /\ a \in visited'
          /\ Len(upcoming) <= kIdealFinderMaxFrontier /\ missed \in BOOLEAN
      BY <1>0, <1>1, <1>3 DEF IdealTypeOK
    <3>1. CASE Len(upcoming) < kIdealFinderMaxFrontier
      <4>1. upcoming' = Append(upcoming, a) /\ missed' = missed
        BY <2>1, <3>1 DEF PutNext
      <4>2. /\ upcoming' \in Seq(visited') /\ Len(upcoming') = Len(upcoming) + 1
            /\ upcoming'[Len(upcoming) + 1] = a
            /\ \A i \in 1..Len(upcoming) : upcoming'[i] = upcoming[i]
            /\ Len(upcoming) \in Nat
        BY <3>0, <4>1
      <4>3. Members(upcoming') = Members(upcoming) \cup {a}
        <5>1. DOMAIN upcoming = 1..Len(upcoming) /\ DOMAIN upcoming' = 1..(Len(upcoming) + 1)
          BY <3>0, <4>2
        <5>2. \A i \in 1..(Len(upcoming) + 1) : i \in 1..Len(upcoming) \/ i = Len(upcoming) + 1
          BY <4>2
        <5>3. /\ 1..Len(upcoming) \subseteq 1..(Len(upcoming) + 1)
              /\ Len(upcoming) + 1 \in 1..(Len(upcoming) + 1)
          BY <4>2
        <5> QED
          BY <4>2, <5>1, <5>2, <5>3 DEF Members
      <4> QED
        BY <3>0, <3>1, <4>1, <4>2, <4>3, IdealConstants
    <3>2. CASE ~(Len(upcoming) < kIdealFinderMaxFrontier)
      <4>1. missed' = TRUE /\ upcoming' = upcoming
        BY <2>1, <3>2 DEF PutNext
      <4> QED
        BY <3>0, <4>1
    <3> QED
      BY <3>1, <3>2
  <2>3. IdealTypeOK'
    BY <1>0, <1>1, <1>3, <1>4, <2>1, <2>2 DEF IdealTypeOK
  <2>4. TreeOK(g)'
    <3>1. /\ \A b \in Members(frontier) : Len(g[b]) = depth + 1
          /\ \A b \in Members(upcoming) : Len(g[b]) = depth + 2
          /\ Len(g[asked]) = depth + 1
      BY <1>2, <1>3, <1>6, <1>7 DEF TreeOK
    <3>2. \A b \in Members(upcoming') : Len(g[b]) = depth + 2
      BY <1>8, <2>2, <3>1
    <3>3. Members(frontier)' = Members(frontier) /\ Members(upcoming)' = Members(upcoming')
      BY <1>0
    <3> QED
      BY <1>0, <1>6, <1>9, <3>1, <3>2, <3>3 DEF TreeOK
  <2>5. ASSUME ~missed' PROVE NothingIsLeftOut'
    <3>1. NothingIsLeftOut
      BY <1>0, <2>2, <2>5 DEF IdealInv
    <3>2. ASSUME NEW v \in visited', NEW w \in NeighboursOf(Lasting, v)
          PROVE  w \in visited' \cup toMeet' \/ v \in Members(frontier) \cup Members(upcoming')
      BY <1>1, <2>2, <2>5, <3>1, <3>2 DEF NothingIsLeftOut
    <3>3. \A n \in 0..depth : Ball(Lasting, n) \subseteq visited' \ Members(upcoming')
      BY <1>1, <1>3, <2>2, <3>1 DEF NothingIsLeftOut
    <3>4. Members(frontier)' = Members(frontier) /\ Members(upcoming)' = Members(upcoming')
      BY <1>0
    <3> QED
      BY <1>0, <3>2, <3>3, <3>4 DEF NothingIsLeftOut
  <2>6. ToId \notin visited'
    BY <1>0, <1>1, <1>11
  <2> QED
    BY <1>0, <1>5, <2>1, <2>3, <2>4, <2>5, <2>6 DEF IdealInv, IdealIsShortest
<1> QED
  BY <1>10, <1>11

LEMMA DeeperStep == ASSUME IdealInv, Deeper PROVE IdealInv'
<1>0. /\ IdealTypeOK /\ ParentsOK /\ ~ended /\ toMeet = {} /\ frontier = <<>>
      /\ depth < kIdealFinderMaxDepth /\ ideal = <<>> /\ ToId \notin visited
      /\ depth' = depth + 1 /\ frontier' = upcoming /\ upcoming' = <<>>
      /\ UNCHANGED <<ties, shown, visited, parent, asked, toMeet, ideal, ended, missed>>
      /\ Ever' = Ever /\ Lasting' = Lasting
  BY ShownFacts DEF IdealInv, Deeper, Searching, graphVars
<1>1. PICK f : TreeOK(f)
  BY <1>0 DEF IdealInv
<1>2. depth \in 0..kIdealFinderMaxDepth /\ depth \in Nat /\ depth + 1 \in 1..kIdealFinderMaxDepth
  BY <1>0, IdealConstants DEF IdealTypeOK
<1>3. Members(frontier) = {} /\ Members(upcoming') = {} /\ Members(frontier') = Members(upcoming)
  BY <1>0 DEF Members
<1>4. IdealTypeOK'
  BY <1>0, <1>2, IdealConstants DEF IdealTypeOK
<1>5. ParentsOK'
  BY <1>0 DEF ParentsOK
<1>6. TreeOK(f)'
  <2>1. Members(frontier)' = Members(upcoming) /\ Members(upcoming)' = {}
    BY <1>3
  <2>2. depth' + 1 = depth + 2
    BY <1>0, <1>2
  <2> QED
    BY <1>0, <1>1, <2>1, <2>2 DEF TreeOK
<1>7. ASSUME ~missed' PROVE NothingIsLeftOut'
  <2>1. NothingIsLeftOut
    BY <1>0, <1>7 DEF IdealInv
  <2>2. Ball(Lasting, depth) \subseteq visited \ Members(upcoming)
    BY <1>2, <2>1 DEF NothingIsLeftOut
  <2>3. Ball(Lasting, depth + 1) = Ball(Lasting, depth) \cup
          {b \in Musician : \E a \in Ball(Lasting, depth) : <<a, b>> \in Lasting}
    <3>1. PICK n \in 1..kIdealFinderMaxDepth : n = depth + 1 /\ n - 1 = depth
      BY <1>2
    <3>2. Ball(Lasting, n) = Ball(Lasting, n - 1) \cup
            {b \in Musician : \E a \in Ball(Lasting, n - 1) : <<a, b>> \in Lasting}
      BY BallIs
    <3> QED
      BY <3>1, <3>2
  <2>4. Ball(Lasting, depth + 1) \subseteq visited
    <3> SUFFICES ASSUME NEW b \in Musician, NEW a \in Ball(Lasting, depth), <<a, b>> \in Lasting
                 PROVE  b \in visited
      BY <2>2, <2>3
    <3>1. a \in visited /\ a \notin Members(upcoming) /\ b \in NeighboursOf(Lasting, a)
      BY <2>2 DEF NeighboursOf
    <3> QED
      BY <1>0, <1>3, <2>1, <3>1 DEF NothingIsLeftOut
  <2>5. ASSUME NEW n \in 0..(depth + 1) PROVE Ball(Lasting, n) \subseteq visited
    <3>1. n = depth + 1 \/ n \in 0..depth
      BY <1>2
    <3> QED
      BY <2>1, <2>4, <3>1 DEF NothingIsLeftOut
  <2>6. Members(frontier)' = Members(upcoming) /\ Members(upcoming)' = {}
    BY <1>3
  <2>7. \A v \in visited : \A w \in NeighboursOf(Lasting, v) :
          w \in visited \cup toMeet \/ v \in Members(upcoming)
    BY <1>3, <2>1 DEF NothingIsLeftOut
  <2> QED
    BY <1>0, <2>5, <2>6, <2>7 DEF NothingIsLeftOut
<1>8. IdealIsShortest'
  BY <1>0 DEF IdealIsShortest
<1> QED
  BY <1>0, <1>4, <1>5, <1>6, <1>7, <1>8 DEF IdealInv

LEMMA FindsNoneStep == ASSUME IdealInv, FindsNone PROVE IdealInv'
<1>0. /\ IdealTypeOK /\ ParentsOK /\ ~ended /\ toMeet = {} /\ ideal = <<>> /\ ToId \notin visited
      /\ depth = kIdealFinderMaxDepth \/ (frontier = <<>> /\ upcoming = <<>>)
      /\ ended' = TRUE
      /\ UNCHANGED <<ties, shown, visited, parent, frontier, upcoming, depth, asked, toMeet, ideal,
                     missed>>
      /\ Ever' = Ever /\ Lasting' = Lasting
  BY ShownFacts DEF IdealInv, FindsNone, graphVars
<1> DEFINE K == kIdealFinderMaxDepth
<1>1. IdealTypeOK' /\ ParentsOK'
  BY <1>0 DEF IdealTypeOK, ParentsOK
<1>2. K \in Nat /\ K \in 0..K
  BY IdealConstants
<1>3. ASSUME ~missed PROVE \A n \in 0..K : ToId \notin Ball(Lasting, n)
  <2>1. NothingIsLeftOut
    BY <1>0, <1>3 DEF IdealInv
  <2>2. CASE depth = K
    BY <1>0, <2>1, <2>2 DEF NothingIsLeftOut
  <2>3. CASE frontier = <<>> /\ upcoming = <<>>
    <3>1. Members(frontier) = {} /\ Members(upcoming) = {}
      BY <2>3 DEF Members
    <3>2. \A v \in visited : NeighboursOf(Lasting, v) \subseteq visited
      BY <1>0, <2>1, <3>1 DEF NothingIsLeftOut
    <3> DEFINE Out == {n \in 0..K : ~(Ball(Lasting, n) \subseteq visited)}
    <3>3. Out = {}
      <4> SUFFICES ASSUME Out # {} PROVE FALSE
        OBVIOUS
      <4>1. PICK n \in Out : \A m \in Out : n <= m
        <5>1. Out \in SUBSET Nat
          OBVIOUS
        <5> HIDE DEF Out
        <5> QED
          BY <5>1, LeastNat
      <4>2. Ball(Lasting, 0) \subseteq visited
        BY <1>0, BallIs DEF ParentsOK
      <4>3. n \in 0..K /\ n # 0
        BY <4>2
      <4>4. n \in 1..K /\ n - 1 \in 0..K /\ ~(n <= n - 1)
        BY <1>2, <4>3
      <4>5. n - 1 \notin Out
        <5> HIDE DEF Out
        <5> QED
          BY <4>1, <4>4
      <4>6. Ball(Lasting, n - 1) \subseteq visited
        BY <4>4, <4>5
      <4>7. Ball(Lasting, n) = Ball(Lasting, n - 1) \cup
              {b \in Musician : \E a \in Ball(Lasting, n - 1) : <<a, b>> \in Lasting}
        <5>1. \A k \in 1..K : Ball(Lasting, k) = Ball(Lasting, k - 1) \cup
                {b \in Musician : \E a \in Ball(Lasting, k - 1) : <<a, b>> \in Lasting}
          BY BallIs
        <5> HIDE DEF K
        <5> QED
          BY <4>4, <5>1
      <4>8. Ball(Lasting, n) \subseteq visited
        BY <3>2, <4>6, <4>7 DEF NeighboursOf
      <4> QED
        BY <4>1, <4>8
    <3> QED
      BY <1>0, <3>3
  <2> QED
    BY <1>0, <2>2, <2>3
<1>4. ~missed => Distance(Lasting) > kIdealFinderMaxDepth
  BY <1>2, <1>3, DistanceIs
<1>5. IdealIsShortest'
  BY <1>0, <1>4 DEF IdealIsShortest
<1> QED
  BY <1>0, <1>1, <1>5 DEF IdealInv

LEMMA ChangesStep == ASSUME IdealInv, NEW graph, Changes(graph) PROVE IdealInv'
<1>0. /\ IdealTypeOK /\ ParentsOK /\ ~ended /\ ties' = graph /\ shown' = shown \cup {graph}
      /\ UNCHANGED <<visited, parent, frontier, upcoming, depth, asked, toMeet, ideal, ended, missed>>
  BY DEF IdealInv, Changes
<1>1. Ever \subseteq Ever' /\ Lasting' \subseteq Lasting
  BY <1>0, ShownFacts DEF IdealTypeOK
<1>2. IdealTypeOK'
  BY <1>0 DEF IdealTypeOK
<1>3. ParentsOK'
  BY <1>0, <1>1 DEF ParentsOK, NeighboursOf
<1>4. Members(frontier)' = Members(frontier) /\ Members(upcoming)' = Members(upcoming)
  BY <1>0
<1>5. \E f : TreeOK(f)'
  <2>1. PICK f : TreeOK(f)
    BY <1>0 DEF IdealInv
  <2>2. \A b \in visited : ChainTo(Ever', f[b], b)
    BY <1>1, <2>1, ChainsStay DEF TreeOK
  <2>3. TreeOK(f)'
    BY <1>0, <1>4, <2>1, <2>2 DEF TreeOK
  <2> QED
    BY <2>3
<1>6. ASSUME ~missed PROVE NothingIsLeftOut'
  <2>1. NothingIsLeftOut
    BY <1>0, <1>6 DEF IdealInv
  <2>2. \A v \in visited : NeighboursOf(Lasting', v) \subseteq NeighboursOf(Lasting, v)
    BY <1>1 DEF NeighboursOf
  <2>3. ASSUME NEW n \in 0..depth PROVE Ball(Lasting', n) \subseteq Ball(Lasting, n)
    <3>1. n \in 0..kIdealFinderMaxDepth
      BY <1>0, IdealConstants DEF IdealTypeOK
    <3> QED
      BY <1>1, <3>1, BallShrinks
  <2>4. \A v \in visited : \A w \in NeighboursOf(Lasting', v) :
          w \in visited \cup toMeet \/ v \in Members(frontier) \cup Members(upcoming)
    BY <2>1, <2>2 DEF NothingIsLeftOut
  <2>5. \A n \in 0..depth : Ball(Lasting', n) \subseteq visited \ Members(upcoming)
    BY <2>1, <2>3 DEF NothingIsLeftOut
  <2> QED
    BY <1>0, <1>4, <2>4, <2>5 DEF NothingIsLeftOut
<1>7. IdealIsShortest'
  BY <1>0 DEF IdealIsShortest
<1> QED
  BY <1>0, <1>2, <1>3, <1>5, <1>6, <1>7 DEF IdealInv

LEMMA IdealStutters == ASSUME IdealInv, UNCHANGED idealVars PROVE IdealInv'
<1>0. UNCHANGED <<ties, shown, visited, parent, frontier, upcoming, depth, asked, toMeet, ideal,
                  ended, missed>>
  BY DEF idealVars, graphVars
<1>0a. Ever' = Ever /\ Lasting' = Lasting
  BY <1>0, ShownFacts
<1>1. IdealTypeOK' /\ ParentsOK' /\ IdealIsShortest'
  BY <1>0, <1>0a DEF IdealInv, IdealTypeOK, ParentsOK, IdealIsShortest
<1>2. (NothingIsLeftOut => NothingIsLeftOut') /\ \A f : TreeOK(f) => TreeOK(f)'
  <2>1. Members(frontier)' = Members(frontier) /\ Members(upcoming)' = Members(upcoming)
    BY <1>0
  <2> QED
    BY <1>0, <1>0a, <2>1 DEF NothingIsLeftOut, TreeOK
<1> QED
  BY <1>0, <1>1, <1>2 DEF IdealInv

(***************************************************************************)
(* Every hop of the path that is kept was a tie while it was looked for    *)
(* and, if no call failed and nothing was cut, no chain that lasted is     *)
(* shorter; for every graph, all that scans, prunes and replicas do to it  *)
(* meanwhile and every depth and width of the search.                      *)
(***************************************************************************)
THEOREM IdealIsShortestHolds == IdealSpec => []IdealIsShortest
<1>1. IdealInv /\ [IdealNext]_idealVars => IdealInv'
  BY AskStep, MeetStep, DeeperStep, FindsNoneStep, ChangesStep, IdealStutters
  DEF IdealNext, Enrich, PruneArtist
<1>2. IdealInv => IdealIsShortest
  BY DEF IdealInv
<1> QED
  BY <1>1, <1>2, IdealStarts, PTL DEF IdealSpec

(***************************************************************************)
(* Type correctness of the search's locals.                                *)
(***************************************************************************)
THEOREM IdealTypeCorrect == IdealSpec => []IdealTypeOK
<1>1. IdealInv /\ [IdealNext]_idealVars => IdealInv'
  BY AskStep, MeetStep, DeeperStep, FindsNoneStep, ChangesStep, IdealStutters
  DEF IdealNext, Enrich, PruneArtist
<1>2. IdealInv => IdealTypeOK
  BY DEF IdealInv
<1> QED
  BY <1>1, <1>2, IdealStarts, PTL DEF IdealSpec

-----------------------------------------------------------------------------
(* EdgeAggregation *)

LEMMA RanksDiffer ==
  /\ \A r \in Role : RoleRank[r] \in 1..4
  /\ \A r, q \in Role : RoleRank[r] = RoleRank[q] => r = q
BY DEF Role, RoleRank

LEMMA BestIs ==
  ASSUME NEW R \in SUBSET Role, R # {}
  PROVE  BestRole(R) \in R /\ \A q \in R : RoleRank[q] <= RoleRank[BestRole(R)]
<1>1. \E r \in R : \A q \in R : RoleRank[q] <= RoleRank[r]
  <2> DEFINE T == {5 - RoleRank[r] : r \in R}
  <2>1. T \in SUBSET Nat /\ T # {}
    BY RanksDiffer
  <2>2. PICK n \in T : \A m \in T : n <= m
    <3> HIDE DEF T
    <3> QED
      BY <2>1, LeastNat
  <2>3. PICK r \in R : n = 5 - RoleRank[r]
    BY <2>2
  <2>4. \A q \in R : RoleRank[q] \in Nat /\ 5 - RoleRank[r] <= 5 - RoleRank[q]
    BY <2>2, <2>3, RanksDiffer
  <2>5. \A q \in R : RoleRank[q] <= RoleRank[r]
    BY <2>3, <2>4, RanksDiffer
  <2> QED
    BY <2>5
<1> QED
  BY <1>1 DEF BestRole

LEMMA BestOfBoth ==
  ASSUME NEW A \in SUBSET Role, NEW B \in SUBSET Role, A # {}, B # {}
  PROVE  BestRole(A \cup B) = IF RoleRank[BestRole(B)] > RoleRank[BestRole(A)]
                              THEN BestRole(B) ELSE BestRole(A)
<1> DEFINE a == BestRole(A)
           b == BestRole(B)
           c == BestRole(A \cup B)
<1>1. /\ a \in A /\ \A q \in A : RoleRank[q] <= RoleRank[a]
      /\ b \in B /\ \A q \in B : RoleRank[q] <= RoleRank[b]
      /\ c \in A \cup B /\ \A q \in A \cup B : RoleRank[q] <= RoleRank[c]
  <2>1. A \cup B \in SUBSET Role /\ A \cup B # {}
    OBVIOUS
  <2> QED
    BY <2>1, BestIs
<1> HIDE DEF a, b, c
<1>2. RoleRank[a] \in Int /\ RoleRank[b] \in Int /\ RoleRank[c] \in Int
  BY <1>1, RanksDiffer
<1>3. IF RoleRank[b] > RoleRank[a] THEN RoleRank[c] = RoleRank[b] ELSE RoleRank[c] = RoleRank[a]
  BY <1>1, <1>2
<1>4. IF RoleRank[b] > RoleRank[a] THEN c = b ELSE c = a
  BY <1>1, <1>3, RanksDiffer
<1> QED
  BY <1>4 DEF a, b, c

(***************************************************************************)
(* What the loop knows of a neighbour: its edge is made of the songs that  *)
(* it has reached, and it is the one of the empty map before the first.    *)
(***************************************************************************)
EdgeIsExact(a) ==
  LET e == byNeighbour[a] IN
  /\ e.titles = TitlesWith(a)
  /\ e.weight = Cardinality(TitlesWith(a))
  /\ e.roles = AllRoles(a)
  /\ {c.song : c \in e.collaborations} = TitlesWith(a)
  /\ IsFiniteSet(e.collaborations)
  /\ Cardinality(e.collaborations) = Cardinality(TitlesWith(a))
  /\ IF SongsWith(a) = {} THEN e = NoEdge
     ELSE e.dominant = BestRole(AllRoles(a)) /\ e.best_rank = RoleRank[e.dominant]

Shown(a) == \E i \in DOMAIN order : order[i] = a

EdgesInv ==
  /\ EdgesTypeOK
  /\ \A a \in Collaborator : EdgeIsExact(a)
  /\ \A a \in Collaborator : Shown(a) <=> SongsWith(a) # {}
  /\ \A i, j \in DOMAIN order : order[i] = order[j] /\ order[i] \notin Nameless => i = j

LEMMA TitlesAreFinite ==
  ASSUME EdgesTypeOK, NEW a
  PROVE  IsFiniteSet(TitlesWith(a)) /\ Cardinality(TitlesWith(a)) \in Nat
         /\ (SongsWith(a) # {} => Cardinality(TitlesWith(a)) # 0)
<1>1. SongsWith(a) \in SUBSET Track /\ IsFiniteSet(Track)
  BY DEF SongsWith, EdgesTypeOK, EdgesConstantsOK
<1>2. IsFiniteSet(SongsWith(a))
  BY <1>1, FS_Subset
<1> DEFINE f == [s \in SongsWith(a) |-> TitleOf[s]]
<1>3. f \in Surjection(SongsWith(a), TitlesWith(a))
  BY DEF Surjection, TitlesWith
<1>4. IsFiniteSet(TitlesWith(a))
  BY <1>2, <1>3, FS_Surjection
<1>5. SongsWith(a) # {} => TitlesWith(a) # {}
  BY DEF TitlesWith
<1> QED
  BY <1>4, <1>5, FS_CardinalityType, FS_EmptySet

LEMMA RolesAreRoles ==
  ASSUME EdgesTypeOK, NEW a
  PROVE  /\ \A s : RolesOn(s, a) \in SUBSET Role
         /\ AllRoles(a) \in SUBSET Role
         /\ a \in Collaborator /\ SongsWith(a) # {} => AllRoles(a) # {}
BY DEF EdgesTypeOK, EdgesConstantsOK, RolesOn, AllRoles, SongsWith, On

LEMMA EdgesBegin == EdgesConstantsOK /\ EdgesInit => EdgesInv
<1> SUFFICES ASSUME EdgesConstantsOK, EdgesInit PROVE EdgesInv
  OBVIOUS
<1>1. /\ credited \in Catalogues /\ rest = Track /\ order = <<>>
      /\ byNeighbour = [a \in Collaborator |-> NoEdge]
  BY DEF EdgesInit, EdgesInitWith
<1>2. EdgesTypeOK
  BY <1>1 DEF EdgesTypeOK
<1>3. \A a \in Collaborator : SongsWith(a) = {} /\ TitlesWith(a) = {} /\ AllRoles(a) = {}
  BY <1>1 DEF SongsWith, TitlesWith, AllRoles
<1>4. \A a \in Collaborator : EdgeIsExact(a)
  BY <1>1, <1>3, FS_EmptySet DEF EdgeIsExact, NoEdge
<1>5. \A a \in Collaborator : ~Shown(a)
  BY <1>1 DEF Shown
<1> QED
  BY <1>1, <1>2, <1>3, <1>4, <1>5 DEF EdgesInv

(***************************************************************************)
(* A song adds its title and its roles to what is known of whom it credits.*)
(***************************************************************************)
LEMMA SongCounts ==
  ASSUME EdgesTypeOK, NEW s \in Track, AddSong(s), NEW a \in Collaborator
  PROVE  /\ On(s)' = On(s)
         /\ a \in On(s) =>
              /\ SongsWith(a)' = SongsWith(a) \cup {s}
              /\ TitlesWith(a)' = TitlesWith(a) \cup {TitleOf[s]}
              /\ AllRoles(a)' = AllRoles(a) \cup RolesOn(s, a)
         /\ a \notin On(s) =>
              /\ SongsWith(a)' = SongsWith(a)
              /\ TitlesWith(a)' = TitlesWith(a)
              /\ AllRoles(a)' = AllRoles(a)
<1>1. /\ \A t, b : RolesOn(t, b)' = RolesOn(t, b)
      /\ \A t : On(t)' = On(t)
  BY DEF AddSong, RolesOn, On
<1>2. s \in rest /\ rest' = rest \ {s} /\ rest \subseteq Track
  BY DEF AddSong, EdgesTypeOK
<1>3. SongsWith(a)' = {t \in Track \ rest' : a \in On(t)}
  BY <1>1 DEF SongsWith
<1>4. CASE a \in On(s)
  <2>1. SongsWith(a)' = SongsWith(a) \cup {s}
    BY <1>2, <1>3, <1>4 DEF SongsWith
  <2>2. TitlesWith(a)' = TitlesWith(a) \cup {TitleOf[s]}
    BY <2>1 DEF TitlesWith
  <2>3. AllRoles(a)' = AllRoles(a) \cup RolesOn(s, a)
    BY <1>1, <2>1 DEF AllRoles
  <2> QED
    BY <1>1, <1>4, <2>1, <2>2, <2>3
<1>5. CASE a \notin On(s)
  <2>1. SongsWith(a)' = SongsWith(a)
    BY <1>2, <1>3, <1>5 DEF SongsWith
  <2> QED
    BY <1>1, <1>5, <2>1 DEF TitlesWith, AllRoles
<1> QED
  BY <1>4, <1>5

LEMMA EdgeStaysExact ==
  ASSUME EdgesTypeOK, NEW s \in Track, AddSong(s), NEW a \in Collaborator, EdgeIsExact(a)
  PROVE  EdgeIsExact(a)'
<1> DEFINE e == byNeighbour[a]
           roles == RolesOn(s, a)
           title == TitleOf[s]
<1>1. byNeighbour'[a] = IF a \in On(s) THEN Extended(e, roles, title) ELSE e
  BY DEF AddSong
<1>2. CASE a \notin On(s)
  BY <1>1, <1>2, SongCounts DEF EdgeIsExact
<1>3. CASE a \in On(s)
  <2> DEFINE n == byNeighbour'[a]
  <2>1. /\ SongsWith(a)' = SongsWith(a) \cup {s}
        /\ TitlesWith(a)' = TitlesWith(a) \cup {title}
        /\ AllRoles(a)' = AllRoles(a) \cup roles
    BY <1>3, SongCounts
  <2>2. /\ n.titles = e.titles \cup {title}
        /\ n.weight = e.weight + (IF title \in e.titles THEN 0 ELSE 1)
        /\ n.roles = e.roles \cup roles
        /\ n.best_rank = IF RoleRank[BestRole(roles)] > e.best_rank
                         THEN RoleRank[BestRole(roles)] ELSE e.best_rank
        /\ n.dominant = IF RoleRank[BestRole(roles)] > e.best_rank
                        THEN BestRole(roles) ELSE e.dominant
        /\ n.collaborations = IF title \in e.titles THEN e.collaborations
                              ELSE e.collaborations \cup {[song |-> title, roles |-> roles]}
    BY <1>1, <1>3 DEF Extended
  <2>3. /\ e.titles = TitlesWith(a) /\ e.weight = Cardinality(TitlesWith(a))
        /\ e.roles = AllRoles(a)
        /\ {c.song : c \in e.collaborations} = TitlesWith(a)
        /\ IsFiniteSet(e.collaborations)
        /\ Cardinality(e.collaborations) = Cardinality(TitlesWith(a))
        /\ IF SongsWith(a) = {} THEN e = NoEdge
           ELSE e.dominant = BestRole(AllRoles(a)) /\ e.best_rank = RoleRank[e.dominant]
    BY DEF EdgeIsExact
  <2>4. /\ roles \in SUBSET Role /\ roles # {} /\ AllRoles(a) \in SUBSET Role
        /\ SongsWith(a) # {} => AllRoles(a) # {}
    BY <1>3, RolesAreRoles DEF On
  <2>5. IsFiniteSet(TitlesWith(a)) /\ Cardinality(TitlesWith(a)) \in Nat
    BY TitlesAreFinite
  <2> HIDE DEF e, n, roles, title
  <2>6. Cardinality(TitlesWith(a)') =
          Cardinality(TitlesWith(a)) + (IF title \in TitlesWith(a) THEN 0 ELSE 1)
    <3> DEFINE T == TitlesWith(a)
               U == T \cup {title}
    <3>1. TitlesWith(a)' = U
      BY <2>1
    <3>2. IsFiniteSet(T) /\ Cardinality(T) \in Nat
      BY <2>5
    <3> HIDE DEF T
    <3>3. Cardinality(U) = IF title \in T THEN Cardinality(T) ELSE Cardinality(T) + 1
      BY <3>2, FS_AddElement
    <3>4. Cardinality(U) = Cardinality(T) + (IF title \in T THEN 0 ELSE 1)
      BY <3>2, <3>3
    <3> HIDE DEF U
    <3> QED
      BY <3>1, <3>4 DEF T
  <2>7. {c.song : c \in n.collaborations} = TitlesWith(a)'
    <3>1. CASE title \in e.titles
      BY <2>1, <2>2, <2>3, <3>1
    <3>2. CASE title \notin e.titles
      <4>1. n.collaborations = e.collaborations \cup {[song |-> title, roles |-> roles]}
        BY <2>2, <3>2
      <4>2. [song |-> title, roles |-> roles].song = title
        OBVIOUS
      <4>3. {c.song : c \in n.collaborations} = {c.song : c \in e.collaborations} \cup {title}
        BY <4>1, <4>2, Zenon
      <4> QED
        BY <2>1, <2>3, <4>3
    <3> QED
      BY <3>1, <3>2
  <2>8. IsFiniteSet(n.collaborations) /\ Cardinality(n.collaborations) = Cardinality(TitlesWith(a)')
    <3>1. CASE title \in e.titles
      <4>1. TitlesWith(a)' = TitlesWith(a) /\ n.collaborations = e.collaborations
        BY <2>1, <2>2, <2>3, <3>1
      <4> QED
        BY <2>3, <4>1
    <3>2. CASE title \notin e.titles
      <4> DEFINE k == [song |-> title, roles |-> roles]
      <4>1. k.song = title
        OBVIOUS
      <4>2. k \notin e.collaborations
        BY <2>3, <3>2, <4>1
      <4>3. n.collaborations = e.collaborations \cup {k}
        BY <2>2, <3>2
      <4> HIDE DEF k
      <4> DEFINE C == e.collaborations
      <4>4. IsFiniteSet(C) /\ k \notin C /\ n.collaborations = C \cup {k}
        BY <2>3, <4>2, <4>3
      <4> HIDE DEF C
      <4>5. IsFiniteSet(C \cup {k}) /\ Cardinality(C \cup {k}) = Cardinality(C) + 1
        BY <4>4, FS_AddElement
      <4>6. IsFiniteSet(n.collaborations) /\ Cardinality(n.collaborations) = Cardinality(C) + 1
        BY <4>4, <4>5
      <4>7. Cardinality(C) = Cardinality(TitlesWith(a))
        BY <2>3 DEF C
      <4> QED
        BY <2>3, <2>6, <3>2, <4>6, <4>7
    <3> QED
      BY <3>1, <3>2
  <2>9. n.dominant = BestRole(AllRoles(a)') /\ n.best_rank = RoleRank[n.dominant]
    <3>1. CASE SongsWith(a) = {}
      <4>1. AllRoles(a)' = roles
        BY <2>1, <3>1 DEF AllRoles
      <4>2. e.best_rank = 0
        BY <2>3, <3>1 DEF NoEdge
      <4>3. BestRole(roles) \in Role
        BY <2>4, BestIs
      <4>4. RoleRank[BestRole(roles)] > e.best_rank
        BY <4>2, <4>3, RanksDiffer
      <4> QED
        BY <2>2, <4>1, <4>4
    <3>2. CASE SongsWith(a) # {}
      <4>1. BestRole(AllRoles(a)') =
              IF RoleRank[BestRole(roles)] > RoleRank[BestRole(AllRoles(a))]
              THEN BestRole(roles) ELSE BestRole(AllRoles(a))
        BY <2>1, <2>4, <3>2, BestOfBoth
      <4> QED
        BY <2>2, <2>3, <3>2, <4>1
    <3> QED
      BY <3>1, <3>2
  <2>10. SongsWith(a)' # {}
    BY <2>1
  <2>11. n.titles = TitlesWith(a)' /\ n.roles = AllRoles(a)'
    BY <2>1, <2>2, <2>3
  <2> QED
    BY <2>2, <2>3, <2>6, <2>7, <2>8, <2>9, <2>10, <2>11 DEF EdgeIsExact, n
<1> QED
  BY <1>2, <1>3

(***************************************************************************)
(* What is appended when a song is added.                                  *)
(***************************************************************************)
LEMMA ListedOnce ==
  ASSUME NEW S, IsFiniteSet(S), NEW new \in Lists!SetToSeqs(S)
  PROVE  /\ new \in Seq(S)
         /\ \A i, j \in 1..Len(new) : new[i] = new[j] => i = j
         /\ \A x \in S : \E i \in 1..Len(new) : new[i] = x
<1> DEFINE n == Cardinality(S)
<1>1. n \in Nat
  BY FS_CardinalityType
<1>2. new \in [1..n -> S] /\ \A i, j \in 1..n : i # j => new[i] # new[j]
  <2>1. Lists!Cardinality(S) = Cardinality(S)
    BY DEF Lists!Cardinality, Cardinality
  <2> QED
    BY <2>1 DEF Lists!SetToSeqs
<1>3. new \in Seq(S) /\ Len(new) = n
  BY <1>1, <1>2
<1>4. new \in Injection(1..n, S)
  BY <1>2 DEF Injection, IsInjective
<1>5. IsFiniteSet(1..n) /\ Cardinality(1..n) = n
  BY <1>1, FS_Interval
<1>6. new \in Surjection(1..n, S)
  BY <1>4, <1>5, FS_Injection
<1> QED
  BY <1>2, <1>3, <1>6 DEF Surjection

LEMMA OrderStaysExact ==
  ASSUME EdgesInv, NEW s \in Track, AddSong(s)
  PROVE  /\ order' \in Seq(Collaborator)
         /\ \A a \in Collaborator : Shown(a)' <=> SongsWith(a)' # {}
         /\ \A i, j \in DOMAIN order' :
              order'[i] = order'[j] /\ order'[i] \notin Nameless => i = j
<1> DEFINE N == NewNodes(s)
<1>1. IsFiniteSet(N) /\ N \subseteq Collaborator
  <2>1. N \in SUBSET Collaborator
    BY DEF NewNodes, On
  <2> HIDE DEF N
  <2> QED
    BY <2>1, FS_Subset DEF EdgesInv, EdgesTypeOK, EdgesConstantsOK
<1>2. PICK new \in Lists!SetToSeqs(N) : order' = order \o new
  BY DEF AddSong
<1>3. /\ new \in Seq(N)
      /\ \A i, j \in 1..Len(new) : new[i] = new[j] => i = j
      /\ \A x \in N : \E i \in 1..Len(new) : new[i] = x
  <2> HIDE DEF N
  <2> QED
    BY <1>1, <1>2, ListedOnce
<1>4. order \in Seq(Collaborator) /\ new \in Seq(Collaborator)
  BY <1>1, <1>3 DEF EdgesInv, EdgesTypeOK
<1> DEFINE k == Len(order)
           m == Len(new)
<1>5. /\ k \in Nat /\ m \in Nat /\ DOMAIN order = 1..k /\ DOMAIN new = 1..m
      /\ order' \in Seq(Collaborator) /\ DOMAIN order' = 1..(k + m)
      /\ \A i \in 1..(k + m) : order'[i] = IF i <= k THEN order[i] ELSE new[i - k]
  BY <1>2, <1>4
<1>6. \A i \in 1..m : new[i] \in N
  BY <1>3, <1>5
<1>7. \A a \in Collaborator : Shown(a) <=> SongsWith(a) # {}
  BY DEF EdgesInv
<1>8. \A a \in Collaborator : SongsWith(a) # {} => byNeighbour[a] # NoEdge
  <2> SUFFICES ASSUME NEW a \in Collaborator, SongsWith(a) # {} PROVE byNeighbour[a] # NoEdge
    OBVIOUS
  <2>1. byNeighbour[a].weight = Cardinality(TitlesWith(a)) /\ Cardinality(TitlesWith(a)) # 0
    BY TitlesAreFinite DEF EdgesInv, EdgeIsExact
  <2>2. NoEdge.weight = 0
    BY DEF NoEdge
  <2> QED
    BY <2>1, <2>2
<1>9. \A a \in Collaborator : a \in On(s) <=> a \in N \/ (a \in On(s) /\ SongsWith(a) # {})
  BY DEF NewNodes, EdgesInv, EdgeIsExact
<1>10. \A a \in N : a \in Nameless \/ SongsWith(a) = {}
  BY <1>1, <1>8 DEF NewNodes
<1> HIDE DEF N
<1>11. ASSUME NEW a \in Collaborator
       PROVE  Shown(a)' <=> SongsWith(a)' # {}
  <2>1. SongsWith(a)' # {} <=> SongsWith(a) # {} \/ a \in On(s)
    BY SongCounts DEF EdgesInv
  <2>2. Shown(a)' <=> Shown(a) \/ a \in N
    <3>1. ASSUME NEW i \in 1..(k + m), order'[i] = a
          PROVE  Shown(a) \/ a \in N
      <4>1. CASE i <= k
        BY <1>5, <3>1, <4>1 DEF Shown
      <4>2. CASE ~(i <= k)
        <5>1. i - k \in 1..m
          BY <1>5, <4>2
        <5> QED
          BY <1>5, <1>6, <3>1, <4>2, <5>1
      <4> QED
        BY <4>1, <4>2
    <3>2. ASSUME NEW i \in 1..k, order[i] = a
          PROVE  \E j \in 1..(k + m) : order'[j] = a
      <4>1. i \in 1..(k + m) /\ i <= k
        BY <1>5
      <4> QED
        BY <1>5, <3>2, <4>1
    <3>3. ASSUME NEW i \in 1..m, new[i] = a
          PROVE  \E j \in 1..(k + m) : order'[j] = a
      <4>1. i + k \in 1..(k + m) /\ ~(i + k <= k) /\ (i + k) - k = i
        BY <1>5
      <4> QED
        BY <1>5, <3>3, <4>1
    <3> QED
      BY <1>3, <1>5, <3>1, <3>2, <3>3 DEF Shown
  <2> QED
    BY <1>7, <1>9, <2>1, <2>2
<1>12. ASSUME NEW i \in 1..(k + m), NEW j \in 1..(k + m), i < j,
              order'[i] = order'[j], order'[i] \notin Nameless
       PROVE  FALSE
  <2>1. CASE j <= k
    <3>1. i \in DOMAIN order /\ j \in DOMAIN order /\ order'[i] = order[i] /\ order'[j] = order[j]
      BY <1>5, <1>12, <2>1
    <3>2. i # j
      BY <1>5, <1>12
    <3>3. order[i] = order[j] /\ order[i] \notin Nameless
      BY <1>12, <3>1
    <3> QED
      BY <3>1, <3>2, <3>3 DEF EdgesInv
  <2>2. CASE k < i
    <3>1. i - k \in 1..m /\ j - k \in 1..m /\ i - k # j - k
      BY <1>5, <1>12, <2>2
    <3>2. order'[i] = new[i - k] /\ order'[j] = new[j - k]
      BY <1>5, <1>12, <2>2
    <3> QED
      BY <1>3, <1>12, <3>1, <3>2
  <2>3. CASE i <= k /\ k < j
    <3>1. j - k \in 1..m /\ i \in 1..k
      BY <1>5, <2>3
    <3>2. order'[i] = order[i] /\ order'[j] = new[j - k] /\ order[i] \in Collaborator
      BY <1>4, <1>5, <2>3, <3>1
    <3>3. Shown(order[i])
      BY <1>5, <3>1 DEF Shown
    <3>4. order[i] \in N /\ order[i] \notin Nameless
      BY <1>6, <1>12, <3>1, <3>2
    <3> QED
      BY <1>7, <1>10, <3>2, <3>3, <3>4
  <2> QED
    BY <1>5, <2>1, <2>2, <2>3
<1>13. \A i, j \in DOMAIN order' : order'[i] = order'[j] /\ order'[i] \notin Nameless => i = j
  <2> SUFFICES ASSUME NEW i \in DOMAIN order', NEW j \in DOMAIN order',
                      order'[i] = order'[j], order'[i] \notin Nameless
               PROVE  i = j
    OBVIOUS
  <2>1. i \in 1..(k + m) /\ j \in 1..(k + m) /\ i \in Int /\ j \in Int
    BY <1>5
  <2>2. ~(i < j) /\ ~(j < i)
    BY <1>12, <2>1
  <2> QED
    BY <2>1, <2>2
<1> QED
  BY <1>5, <1>11, <1>13

LEMMA EdgesStep == EdgesInv /\ [EdgesNext]_edgeVars => EdgesInv'
<1> SUFFICES ASSUME EdgesInv, [EdgesNext]_edgeVars PROVE EdgesInv'
  OBVIOUS
<1>1. ASSUME NEW s \in Track, AddSong(s)
      PROVE  EdgesInv'
  <2>1. EdgesTypeOK /\ \A a \in Collaborator : EdgeIsExact(a)
    BY DEF EdgesInv
  <2>2. \A a \in Collaborator : EdgeIsExact(a)'
    BY <1>1, <2>1, EdgeStaysExact
  <2>3. EdgesTypeOK'
    BY <1>1, <2>1, OrderStaysExact DEF EdgesTypeOK, AddSong, EdgesConstantsOK
  <2> QED
    BY <1>1, <2>2, <2>3, OrderStaysExact DEF EdgesInv
<1>2. CASE UNCHANGED edgeVars
  <2>1. UNCHANGED <<credited, rest, byNeighbour, order>>
    BY <1>2 DEF edgeVars
  <2>2. \A a \in Collaborator : /\ SongsWith(a)' = SongsWith(a) /\ AllRoles(a)' = AllRoles(a)
                                /\ TitlesWith(a)' = TitlesWith(a) /\ Shown(a)' = Shown(a)
    BY <2>1 DEF Shown, SongsWith, TitlesWith, AllRoles, On, RolesOn
  <2>3. EdgesTypeOK'
    BY <2>1 DEF EdgesInv, EdgesTypeOK, EdgesConstantsOK
  <2>4. \A a \in Collaborator : EdgeIsExact(a)'
    BY <2>1, <2>2 DEF EdgesInv, EdgeIsExact
  <2> QED
    BY <2>1, <2>2, <2>3, <2>4 DEF EdgesInv
<1> QED
  BY <1>1, <1>2 DEF EdgesNext

(***************************************************************************)
(* The titles that the first n nodes' edges stand for.                     *)
(***************************************************************************)
TitlesUpTo(n) == UNION {{order[j]} \X TitlesWith(order[j]) : j \in 1..n}

LEMMA EdgeWeighsItsTitles ==
  ASSUME NEW a, NEW T, IsFiniteSet(T)
  PROVE  IsFiniteSet({a} \X T) /\ Cardinality({a} \X T) = Cardinality(T)
<1> DEFINE f == [t \in T |-> <<a, t>>]
<1>1. f \in [T -> {a} \X T] /\ \A t, r \in T : f[t] = f[r] => t = r
  OBVIOUS
<1>2. \A p \in {a} \X T : \E t \in T : f[t] = p
  OBVIOUS
<1>3. f \in Bijection(T, {a} \X T)
  BY <1>1, <1>2 DEF Bijection, Injection, Surjection, IsInjective
<1>4. ExistsBijection(T, {a} \X T)
  BY <1>3 DEF ExistsBijection
<1> QED
  BY <1>4, FS_Bijection

LEMMA SeedWeighsAll ==
  ASSUME EdgesInv, \A i, j \in DOMAIN order : order[i] = order[j] => i = j
  PROVE  SeedWeight = Cardinality(TitlesUpTo(Len(order)))
<1> DEFINE L == Len(order)
           WeightAt(i) == byNeighbour[order[i]].weight
           Step(g) == [i \in 0..L |-> IF i = 0 THEN 0 ELSE g[i - 1] + WeightAt(i)]
           W == CHOOSE g : g = Step(g)
           f == [i \in 0..L |-> Cardinality(TitlesUpTo(i))]
<1>1. SeedWeight = W[L]
  BY DEF SeedWeight
<1>2. /\ L \in Nat /\ DOMAIN order = 1..L
      /\ \A i \in 1..L : order[i] \in Collaborator
  BY DEF EdgesInv, EdgesTypeOK
<1>3. \A i \in 1..L : /\ IsFiniteSet(TitlesWith(order[i]))
                      /\ WeightAt(i) = Cardinality(TitlesWith(order[i])) /\ WeightAt(i) \in Nat
  BY <1>2, TitlesAreFinite DEF EdgesInv, EdgeIsExact
<1> HIDE DEF L, WeightAt
<1>4. TitlesUpTo(0) = {} /\ f[0] = 0
  <2>1. 1..0 = {}
    OBVIOUS
  <2>2. TitlesUpTo(0) = {}
    BY <2>1 DEF TitlesUpTo
  <2>3. f[0] = Cardinality(TitlesUpTo(0))
    BY <1>2
  <2> QED
    BY <2>2, <2>3, FS_EmptySet
<1>5. ASSUME NEW i \in 1..L
      PROVE  /\ TitlesUpTo(i) = TitlesUpTo(i - 1) \cup ({order[i]} \X TitlesWith(order[i]))
             /\ TitlesUpTo(i - 1) \cap ({order[i]} \X TitlesWith(order[i])) = {}
  <2>1. 1..i = 1..(i - 1) \cup {i} /\ i \notin 1..(i - 1) /\ 1..(i - 1) \subseteq 1..L
    BY <1>2
  <2>2. \A j \in 1..(i - 1) : order[j] # order[i]
    BY <1>2, <2>1
  <2>3. TitlesUpTo(i) = TitlesUpTo(i - 1) \cup ({order[i]} \X TitlesWith(order[i]))
    BY <2>1 DEF TitlesUpTo
  <2>4. \A p \in TitlesUpTo(i - 1) : p[1] # order[i]
    BY <2>2 DEF TitlesUpTo
  <2> QED
    BY <2>3, <2>4
<1> DEFINE Bad == {i \in 0..L : ~IsFiniteSet(TitlesUpTo(i))}
<1>6. Bad = {}
  <2> SUFFICES ASSUME Bad # {} PROVE FALSE
    OBVIOUS
  <2>1. PICK i \in Bad : \A j \in Bad : i <= j
    <3>1. Bad \in SUBSET Nat
      BY <1>2
    <3> HIDE DEF Bad
    <3> QED
      BY <3>1, LeastNat
  <2>2. i # 0
    BY <1>4, <2>1, FS_EmptySet
  <2>3. i \in 1..L /\ i - 1 \in 0..L /\ i - 1 \notin Bad
    BY <1>2, <2>1, <2>2
  <2>4. IsFiniteSet(TitlesUpTo(i - 1)) /\ IsFiniteSet({order[i]} \X TitlesWith(order[i]))
    BY <1>3, <2>3, EdgeWeighsItsTitles
  <2>5. IsFiniteSet(TitlesUpTo(i - 1) \cup ({order[i]} \X TitlesWith(order[i])))
    BY <2>4, FS_Union
  <2>6. IsFiniteSet(TitlesUpTo(i))
    BY <1>5, <2>3, <2>5
  <2> QED
    BY <2>1, <2>6
<1>7. ASSUME NEW i \in 1..L
      PROVE  f[i] = f[i - 1] + WeightAt(i)
  <2> DEFINE A == TitlesUpTo(i - 1)
             B == {order[i]} \X TitlesWith(order[i])
  <2>1. i - 1 \in 0..L /\ i \in 0..L
    BY <1>2
  <2>2. IsFiniteSet(A) /\ IsFiniteSet(B) /\ Cardinality(B) = WeightAt(i)
    BY <1>3, <1>6, <2>1, EdgeWeighsItsTitles
  <2>3. TitlesUpTo(i) = A \cup B /\ A \cap B = {}
    BY <1>5
  <2>4. f[i] = Cardinality(TitlesUpTo(i)) /\ f[i - 1] = Cardinality(A)
    BY <2>1
  <2> HIDE DEF A, B, f
  <2>5. Cardinality(A \cup B) = Cardinality(A) + Cardinality(B) - Cardinality({})
    BY <2>2, <2>3, FS_Union
  <2>6. Cardinality({}) = 0 /\ Cardinality(A) \in Nat /\ Cardinality(B) \in Nat
    BY <2>2, FS_EmptySet, FS_CardinalityType
  <2> QED
    BY <2>2, <2>3, <2>4, <2>5, <2>6
<1>8. f = Step(f)
  <2>1. \A i \in 0..L : f[i] = IF i = 0 THEN 0 ELSE f[i - 1] + WeightAt(i)
    <3> SUFFICES ASSUME NEW i \in 0..L
                 PROVE  f[i] = IF i = 0 THEN 0 ELSE f[i - 1] + WeightAt(i)
      OBVIOUS
    <3>1. i = 0 \/ i \in 1..L
      BY <1>2
    <3> HIDE DEF f
    <3> QED
      BY <1>4, <1>7, <3>1
  <2>2. DOMAIN f = 0..L /\ f = [i \in 0..L |-> f[i]]
    OBVIOUS
  <2> HIDE DEF f
  <2> QED
    BY <2>1, <2>2
<1>9. W = Step(W)
  <2> HIDE DEF Step, f
  <2> QED
    BY <1>8
<1>10. \A i \in 0..L : W[i] = IF i = 0 THEN 0 ELSE W[i - 1] + WeightAt(i)
  <2> HIDE DEF W
  <2> QED
    BY <1>9
<1> HIDE DEF W, Step
<1> DEFINE Wrong == {i \in 0..L : W[i] # f[i]}
<1>11. Wrong = {}
  <2> SUFFICES ASSUME Wrong # {} PROVE FALSE
    OBVIOUS
  <2>1. PICK i \in Wrong : \A j \in Wrong : i <= j
    <3>1. Wrong \in SUBSET Nat
      BY <1>2
    <3> HIDE DEF Wrong
    <3> QED
      BY <3>1, LeastNat
  <2> HIDE DEF f
  <2>2. i # 0
    BY <1>2, <1>4, <1>10, <2>1
  <2>3. i \in 1..L /\ i - 1 \in 0..L /\ i - 1 \notin Wrong
    BY <1>2, <2>1, <2>2
  <2>4. W[i - 1] = f[i - 1]
    BY <2>3
  <2> QED
    BY <1>7, <1>10, <2>1, <2>2, <2>3, <2>4
<1>12. L \in 0..L
  BY <1>2
<1>13. f[L] = Cardinality(TitlesUpTo(L))
  BY <1>12
<1>14. W[L] = f[L]
  <2> HIDE DEF f
  <2> QED
    BY <1>11, <1>12
<1> HIDE DEF f
<1> QED
  BY <1>1, <1>13, <1>14 DEF L

(***************************************************************************)
(* Whatever the order of the songs and of the credits, an edge weighs the  *)
(* titles it stands for, shows all roles and the highest of them, and a    *)
(* neighbour with a name has one node.                                     *)
(***************************************************************************)
LEMMA ExactIsExact == EdgesInv => AggregationIsExact
<1> SUFFICES ASSUME EdgesInv PROVE AggregationIsExact
  OBVIOUS
<1>1. /\ DOMAIN Graph.nodes = DOMAIN order /\ Graph.seed = SeedWeight
      /\ \A i \in DOMAIN order :
           /\ Graph.nodes[i].id = order[i]
           /\ Graph.nodes[i].weight = byNeighbour[order[i]].weight
           /\ Graph.nodes[i].roles = byNeighbour[order[i]].roles
           /\ Graph.nodes[i].style = byNeighbour[order[i]].dominant
  BY DEF Graph
<1>2. ASSUME NEW a \in Collaborator
      PROVE  LET mine == {i \in DOMAIN Graph.nodes : Graph.nodes[i].id = a} IN
             /\ a \notin Nameless => Cardinality(mine) = IF SongsWith(a) = {} THEN 0 ELSE 1
             /\ \A i \in mine :
                  /\ Graph.nodes[i].weight = Cardinality(TitlesWith(a))
                  /\ Graph.nodes[i].roles = AllRoles(a)
                  /\ Graph.nodes[i].style = BestRole(AllRoles(a))
             /\ {c.song : c \in byNeighbour[a].collaborations} = TitlesWith(a)
             /\ Cardinality(byNeighbour[a].collaborations) = Cardinality(TitlesWith(a))
  <2> DEFINE mine == {i \in DOMAIN Graph.nodes : Graph.nodes[i].id = a}
  <2>1. mine = {i \in DOMAIN order : order[i] = a}
    BY <1>1
  <2>2. EdgeIsExact(a) /\ (Shown(a) <=> SongsWith(a) # {})
    BY DEF EdgesInv
  <2>3. ASSUME a \notin Nameless
        PROVE  Cardinality(mine) = IF SongsWith(a) = {} THEN 0 ELSE 1
    <3>1. CASE SongsWith(a) = {}
      <4>1. mine = {}
        BY <2>1, <2>2, <3>1 DEF Shown
      <4> QED
        BY <3>1, <4>1, FS_EmptySet
    <3>2. CASE SongsWith(a) # {}
      <4>1. PICK i \in DOMAIN order : order[i] = a
        BY <2>2, <3>2 DEF Shown
      <4>2. \A j \in DOMAIN order : order[j] = a => j = i
        BY <2>3, <4>1 DEF EdgesInv
      <4>3. mine = {i}
        BY <2>1, <4>1, <4>2
      <4> QED
        BY <3>2, <4>3, FS_Singleton
    <3> QED
      BY <3>1, <3>2
  <2>4. ASSUME NEW i \in mine
        PROVE  /\ Graph.nodes[i].weight = Cardinality(TitlesWith(a))
               /\ Graph.nodes[i].roles = AllRoles(a)
               /\ Graph.nodes[i].style = BestRole(AllRoles(a))
    <3>1. i \in DOMAIN order /\ order[i] = a
      BY <2>1
    <3>2. SongsWith(a) # {}
      BY <2>2, <3>1 DEF Shown
    <3> QED
      BY <1>1, <2>2, <3>1, <3>2 DEF EdgeIsExact
  <2>5. /\ {c.song : c \in byNeighbour[a].collaborations} = TitlesWith(a)
        /\ Cardinality(byNeighbour[a].collaborations) = Cardinality(TitlesWith(a))
    BY <2>2 DEF EdgeIsExact
  <2> QED
    BY <2>3, <2>4, <2>5
<1>3. ASSUME \A a \in Nameless : SongsWith(a) = {}
      PROVE  Graph.seed = Cardinality(SharedTitles)
  <2>1. \A i \in DOMAIN order : order[i] \in Collaborator /\ SongsWith(order[i]) # {}
    BY DEF EdgesInv, EdgesTypeOK, Shown
  <2>2. \A i, j \in DOMAIN order : order[i] = order[j] => i = j
    BY <1>3, <2>1 DEF EdgesInv
  <2>3. DOMAIN order = 1..Len(order)
    BY DEF EdgesInv, EdgesTypeOK
  <2>4. ASSUME NEW a \in Collaborator, TitlesWith(a) # {}
        PROVE  \E i \in 1..Len(order) : order[i] = a
    <3>1. SongsWith(a) # {}
      BY <2>4 DEF TitlesWith
    <3> QED
      BY <2>3, <3>1 DEF EdgesInv, Shown
  <2>5. TitlesUpTo(Len(order)) = SharedTitles
    <3>1. ASSUME NEW p \in SharedTitles
          PROVE  p \in TitlesUpTo(Len(order))
      <4>1. PICK a \in Collaborator : p \in {a} \X TitlesWith(a)
        BY <3>1 DEF SharedTitles
      <4>2. TitlesWith(a) # {}
        BY <4>1
      <4> QED
        BY <2>4, <4>1, <4>2 DEF TitlesUpTo
    <3>2. ASSUME NEW p \in TitlesUpTo(Len(order))
          PROVE  p \in SharedTitles
      BY <2>1, <2>3, <3>2 DEF SharedTitles, TitlesUpTo
    <3> QED
      BY <3>1, <3>2
  <2> QED
    BY <1>1, <2>2, <2>5, SeedWeighsAll
<1> QED
  BY <1>2, <1>3 DEF AggregationIsExact

THEOREM AggregationIsExactHolds == EdgesConstantsOK /\ EdgesSpec => []AggregationIsExact
<1>1. EdgesConstantsOK /\ EdgesInit => EdgesInv
  BY EdgesBegin
<1> QED
  BY <1>1, EdgesStep, ExactIsExact, PTL DEF EdgesSpec

=============================================================================

----------------------------- MODULE PathSearch -----------------------------
(***************************************************************************)
(* BidirectionalBfs: the shortest path between two artists of a graph,     *)
(* searched from both ends, one layer at a time, always on the side whose  *)
(* queue is shorter.  The adjacency lists are filled from hash tables, so  *)
(* which of several parents a node gets, and which of several meetings is  *)
(* taken, is open.                                                         *)
(***************************************************************************)
EXTENDS Integers, Sequences, FiniteSets

CONSTANTS Node, Src, Dst,
          NoNode     \* -1, the parent of the two ends

VARIABLES edges,     \* adj: the set of pairs {a, b} that worked together
          pred,      \* pred_fwd, pred_bwd
          dist,      \* dist_fwd, dist_bwd
          queue,     \* q_fwd, q_bwd: a layer at a time
          meetings,  \* nodes reached from both sides
          phase, path

searchVars == <<edges, pred, dist, queue, meetings, phase, path>>

Side == {"fwd", "bwd"}
Start(side) == IF side = "fwd" THEN Src ELSE Dst
Other(side) == IF side = "fwd" THEN "bwd" ELSE "fwd"

SearchConstantsOK == /\ Src \in Node /\ Dst \in Node /\ Src # Dst /\ NoNode \notin Node
               /\ IsFiniteSet(Node)

Pairs == {{a, b} : a \in Node, b \in Node} \ {{a} : a \in Node}

Neighbours(v) == {w \in Node : {v, w} \in edges}

SearchInitWith(graph) ==
  /\ edges = graph
  /\ pred = [s \in Side |-> [v \in {Start(s)} |-> NoNode]]
  /\ dist = [s \in Side |-> [v \in {Start(s)} |-> 0]]
  /\ queue = [s \in Side |-> {Start(s)}]
  /\ meetings = {} /\ path = <<>>
  /\ phase = IF Neighbours(Src) = {} \/ Neighbours(Dst) = {} THEN "none" ELSE "search"

SearchInit == \E graph \in SUBSET Pairs : SearchInitWith(graph)

Visited(side) == DOMAIN pred[side]

(* collect_layer: what the layer reaches first, each node with a parent.   *)
Found(side) == {w \in Node \ Visited(side) : \E v \in queue[side] : w \in Neighbours(v)}

Parents(side) == {f \in [Found(side) -> queue[side]] : \A w \in Found(side) : w \in Neighbours(f[w])}

(* commit *)
Commit(side, f) ==
  /\ pred' = [pred EXCEPT ![side] =
       [w \in Visited(side) \cup DOMAIN f |-> IF w \in DOMAIN f THEN f[w] ELSE @[w]]]
  /\ dist' = [dist EXCEPT ![side] =
       [w \in Visited(side) \cup DOMAIN f |-> IF w \in DOMAIN f THEN @[f[w]] + 1 ELSE @[w]]]
  /\ queue' = [queue EXCEPT ![side] = DOMAIN f]

(* expand_fwd, or its opposite *)
Turn ==
  IF queue["bwd"] = {} \/ (queue["fwd"] # {} /\ Cardinality(queue["fwd"]) <= Cardinality(queue["bwd"]))
  THEN "fwd" ELSE "bwd"

(* One turn of the loop, up to its meetings. *)
Expand ==
  /\ phase = "search" /\ (queue["fwd"] # {} \/ queue["bwd"] # {})
  /\ \E f \in Parents(Turn) :
       /\ Commit(Turn, f)
       /\ meetings' = DOMAIN f \cap Visited(Other(Turn))
       /\ phase' = IF meetings' = {} THEN "search"
                   ELSE IF queue[Other(Turn)] = {} THEN "choose" ELSE Other(Turn)
  /\ UNCHANGED <<edges, path>>

(* After a meeting the other side is expanded by a layer, too. *)
ExpandOther(side) ==
  /\ phase = side
  /\ \E f \in Parents(side) :
       /\ Commit(side, f)
       /\ meetings' = meetings \cup (DOMAIN f \cap Visited(Other(side)))
  /\ phase' = "choose"
  /\ UNCHANGED <<edges, path>>

HopsBy(m) == dist["fwd"][m] + dist["bwd"][m]

(* A mutant: the first meeting will do. *)
AnyMeeting == meetings

(* best_meeting *)
BestMeetings == {m \in meetings : \A n \in meetings : HopsBy(m) <= HopsBy(n)}

Choose ==
  /\ phase = "choose"
  /\ \E m \in BestMeetings : path' = <<m>>
  /\ phase' = "back"
  /\ UNCHANGED <<edges, pred, dist, queue, meetings>>

(* reconstruct: back to the source and then on to the destination. *)
WalkBack ==
  /\ phase = "back"
  /\ LET p == pred["fwd"][path[1]] IN
       IF p = NoNode THEN phase' = "on" /\ UNCHANGED path
       ELSE path' = <<p>> \o path /\ UNCHANGED phase
  /\ UNCHANGED <<edges, pred, dist, queue, meetings>>

WalkOn ==
  /\ phase = "on"
  /\ LET p == pred["bwd"][path[Len(path)]] IN
       IF p = NoNode THEN phase' = "found" /\ UNCHANGED path
       ELSE path' = Append(path, p) /\ UNCHANGED phase
  /\ UNCHANGED <<edges, pred, dist, queue, meetings>>

GiveUp ==
  /\ phase = "search" /\ queue["fwd"] = {} /\ queue["bwd"] = {}
  /\ phase' = "none"
  /\ UNCHANGED <<edges, pred, dist, queue, meetings, path>>

SearchNext == Expand \/ (\E side \in Side : ExpandOther(side)) \/ Choose \/ WalkBack \/ WalkOn \/ GiveUp

SearchSpec == SearchInit /\ [][SearchNext]_searchVars

-----------------------------------------------------------------------------
SearchTypeOK ==
  /\ SearchConstantsOK
  /\ edges \subseteq Pairs
  /\ \A s \in Side : /\ Visited(s) \subseteq Node /\ queue[s] \subseteq Visited(s)
                     /\ pred[s] \in [Visited(s) -> Node \cup {NoNode}]
                     /\ dist[s] \in [Visited(s) -> Nat]
  /\ meetings \subseteq Node
  /\ phase \in Side \cup {"search", "choose", "back", "on", "found", "none"}
  /\ path \in Seq(Node)

(* What is answered is a path: it leads from the source to the destination *)
(* along edges of the graph, whichever parents and meetings were taken     *)
(* (analytics.cpp:148, :163).                                              *)
IsPath(p) ==
  /\ p # <<>> /\ p[1] = Src /\ p[Len(p)] = Dst
  /\ \A i \in 1..(Len(p) - 1) : p[i + 1] \in Neighbours(p[i])

PathIsReal == phase = "found" => IsPath(path)

(* No path is reported only if there is none: a set of nodes holds the     *)
(* source, every neighbour of its nodes, and not the destination.          *)
Separated ==
  \E S \in SUBSET Node :
    Src \in S /\ Dst \notin S /\ \A v \in S : Neighbours(v) \subseteq S

NoneIsSeparated == phase = "none" => Separated

(* The reference: the ways of n hops from the source to the destination.   *)
Walks(n) ==
  {w \in [0..n -> Node] :
     w[0] = Src /\ w[n] = Dst /\ \A i \in 0..(n - 1) : w[i + 1] \in Neighbours(w[i])}

(* The search decides: a path is real and as short as any, and none is     *)
(* reported only if source and destination are not connected, although a   *)
(* meeting ends the search before the other layers of the two sides.       *)
ShortestIsFound ==
  /\ PathIsReal
  /\ NoneIsSeparated
  /\ phase = "found" => \A n \in 0..(Len(path) - 2) : Walks(n) = {}

=============================================================================

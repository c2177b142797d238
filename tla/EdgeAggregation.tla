-------------------------- MODULE EdgeAggregation --------------------------
(***************************************************************************)
(* AggregateEdges: the songs of an artist folded into one edge per         *)
(* collaborator, in whatever order the query returned them.  Two songs of  *)
(* one title (remixes, re-releases) count once.  GraphHandler makes its    *)
(* nodes of the result, the edge handler shows one edge of it.             *)
(***************************************************************************)
EXTENDS Integers, Sequences, FiniteSets

Lists == INSTANCE SequencesExt

CONSTANTS Collaborator, \* whom the artist may share a song with
          Seed,         \* seed_id
          Track,        \* the artist's songs
          TitleOf,      \* [Track -> normalised titles]
          Catalogues,   \* the credits to try: sets of [Track -> SUBSET (Collaborator \X Role)]
          Nameless,     \* artists stored with an empty name
          Mask          \* the roles that the request allows

Role == {"primary", "featured", "writer", "producer"}
RoleRank == [primary |-> 1, featured |-> 2, writer |-> 3, producer |-> 4]

EdgesConstantsOK ==
  /\ IsFiniteSet(Track) /\ IsFiniteSet(Collaborator) /\ Seed \notin Collaborator
  /\ Mask \subseteq Role /\ Nameless \subseteq Collaborator
  /\ DOMAIN TitleOf = Track
  /\ Catalogues \subseteq [Track -> SUBSET ((Collaborator \cup {Seed}) \X Role)]

VARIABLES credited,     \* who did what on which song
          rest,         \* songs the loop has not reached
          byNeighbour,  \* weight, roles, best_rank, dominant role, collaborations of each
          order         \* the neighbours in the order of their nodes

edgeVars == <<credited, rest, byNeighbour, order>>

NoEdge == [titles |-> {}, weight |-> 0, roles |-> {}, best_rank |-> 0, dominant |-> "featured",
           collaborations |-> {}]

EdgesInitWith(catalogue) ==
  /\ credited = catalogue
  /\ rest = Track
  /\ byNeighbour = [a \in Collaborator |-> NoEdge]
  /\ order = <<>>

EdgesInit == \E c \in Catalogues : EdgesInitWith(c)

(* RoleAllowed, for everybody but the seed. *)
RolesOn(s, a) == {r \in Mask : <<a, r>> \in credited[s]}

BestRole(roles) == CHOOSE r \in roles : \A q \in roles : RoleRank[q] <= RoleRank[r]

(* A mutant: the dominant role is that of the last song. *)
LastRoleWins(e, roles, title) ==
  [titles |-> e.titles \cup {title},
   weight |-> e.weight + (IF title \in e.titles THEN 0 ELSE 1),
   roles |-> e.roles \cup roles,
   best_rank |-> RoleRank[BestRole(roles)], dominant |-> BestRole(roles),
   collaborations |-> IF title \in e.titles THEN e.collaborations
                      ELSE e.collaborations \cup {[song |-> title, roles |-> roles]}]

(* One song of a neighbour: its title counts once, its roles always. *)
Extended(e, roles, title) ==
  LET better == RoleRank[BestRole(roles)] > e.best_rank IN
  [titles |-> e.titles \cup {title},
   weight |-> e.weight + (IF title \in e.titles THEN 0 ELSE 1),
   roles |-> e.roles \cup roles,
   best_rank |-> IF better THEN RoleRank[BestRole(roles)] ELSE e.best_rank,
   dominant |-> IF better THEN BestRole(roles) ELSE e.dominant,
   collaborations |-> IF title \in e.titles THEN e.collaborations
                      ELSE e.collaborations \cup {[song |-> title, roles |-> roles]}]

On(s) == {a \in Collaborator : RolesOn(s, a) # {}}

(* A neighbour gets a node when it is first seen, which the code takes from *)
(* its name being empty: one without a name gets a node per song.           *)
NewNodes(s) == {a \in On(s) : byNeighbour[a] = NoEdge \/ a \in Nameless}

AddSong(s) ==
  /\ s \in rest
  /\ rest' = rest \ {s}
  /\ byNeighbour' = [a \in Collaborator |->
                       IF a \in On(s) THEN Extended(byNeighbour[a], RolesOn(s, a), TitleOf[s])
                       ELSE byNeighbour[a]]
  /\ \E new \in Lists!SetToSeqs(NewNodes(s)) : order' = order \o new
  /\ UNCHANGED credited

(* seed_weight: what the edges weigh together. *)
SeedWeight ==
  LET w[i \in 0..Len(order)] == IF i = 0 THEN 0 ELSE w[i - 1] + byNeighbour[order[i]].weight
  IN  w[Len(order)]

(* BuildGraphJson: a node and an edge per entry of order. *)
Graph ==
  [nodes |-> [i \in DOMAIN order |->
                [id |-> order[i], weight |-> byNeighbour[order[i]].weight,
                 roles |-> byNeighbour[order[i]].roles, style |-> byNeighbour[order[i]].dominant]],
   seed |-> SeedWeight]

EdgesNext == \E s \in Track : AddSong(s)

EdgesSpec == EdgesInit /\ [][EdgesNext]_edgeVars

-----------------------------------------------------------------------------
SongsWith(a) == {s \in Track \ rest : a \in On(s)}
TitlesWith(a) == {TitleOf[s] : s \in SongsWith(a)}
AllRoles(a) == UNION {RolesOn(s, a) : s \in SongsWith(a)}

(* Who shares which title with the artist. *)
SharedTitles == UNION {{a} \X TitlesWith(a) : a \in Collaborator}

EdgesTypeOK ==
  /\ EdgesConstantsOK /\ credited \in Catalogues /\ rest \subseteq Track /\ order \in Seq(Collaborator)
  /\ DOMAIN byNeighbour = Collaborator

(* Whatever the order of the songs, an edge weighs the different titles the  *)
(* two artists share, lists one collaboration for each, shows the highest    *)
(* role the neighbour had on any song, also on one whose title was seen      *)
(* before, and has one node if the neighbour has a name; the seed weighs     *)
(* what its edges weigh together.                                            *)
AggregationIsExact ==
  /\ \A a \in Collaborator :
       LET shown == {i \in DOMAIN Graph.nodes : Graph.nodes[i].id = a} IN
       /\ a \notin Nameless => Cardinality(shown) = IF SongsWith(a) = {} THEN 0 ELSE 1
       /\ \A i \in shown :
            /\ Graph.nodes[i].weight = Cardinality(TitlesWith(a))
            /\ Graph.nodes[i].roles = AllRoles(a)
            /\ Graph.nodes[i].style = BestRole(AllRoles(a))
       /\ {c.song : c \in byNeighbour[a].collaborations} = TitlesWith(a)
       /\ Cardinality(byNeighbour[a].collaborations) = Cardinality(TitlesWith(a))
  /\ (\A a \in Nameless : SongsWith(a) = {}) => Graph.seed = Cardinality(SharedTitles)

=============================================================================

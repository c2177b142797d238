------------------------------ MODULE IdealPath ------------------------------
(***************************************************************************)
(* services/game/src/core: FindIdealPath looks for the shortest chain      *)
(* between the artists of a challenge, one POST /internal/neighbours per   *)
(* artist, and ValidateChain checks a player's chain in the same way.      *)
(* While it looks, scans add ties to the graph and prunes remove artists   *)
(* with theirs, a replica answers that may lag, calls fail, and the        *)
(* frontier is cut at MaxFrontier artists.                                 *)
(***************************************************************************)
EXTENDS Integers, Sequences, FiniteSets

CONSTANTS
  Musician, FromId, ToId,
  Graphs,          \* the graphs the search may begin with, see NeighboursOf
  Growth,          \* the sets of ties that scans may add
  MaxShown,        \* bound of the model
  CallsFail,       \* whether a call to the graph service may fail
  kIdealFinderMaxDepth, kIdealFinderMaxFrontier

(***************************************************************************)
(* Every caller refuses a pair of one artist before it asks for a path     *)
(* (challenge_handler.cpp:147, admin_handler.cpp:170; the daily task draws *)
(* two).                                                                   *)
(***************************************************************************)
ASSUME IdealAssumption ==
  /\ FromId \in Musician /\ ToId \in Musician /\ FromId # ToId
  /\ kIdealFinderMaxDepth \in Nat \ {0} /\ kIdealFinderMaxFrontier \in Nat

VARIABLES
  ties,            \* the graph on the master
  shown,           \* the graphs that a call may be answered from
  visited, parent, frontier, upcoming, depth,   \* the locals of FindIdealPath; next
  asked,           \* the artist whose neighbours are being gone through
  toMeet,          \* its neighbours still to be gone through
  ideal,           \* the path found, <<>> while there is none
  ended,
  missed           \* history: an answer was missing or an artist was left out

graphVars == <<ties, shown>>
idealVars == <<graphVars, visited, parent, frontier, upcoming, depth, asked, toMeet, ideal,
               ended, missed>>

(***************************************************************************)
(* A tie leads from an artist to one credited on a song of its own in a    *)
(* role of the challenge's mask: it may lead one way only.                 *)
(***************************************************************************)
NeighboursOf(graph, a) == {b \in Musician : <<a, b>> \in graph}

IdealInitWith(graph) ==
  /\ ties = graph /\ shown = {graph}
  /\ visited = {FromId}
  /\ parent = [a \in {} |-> FromId]
  /\ frontier = <<FromId>> /\ upcoming = <<>>
  /\ depth = 0
  /\ asked = FromId /\ toMeet = {}
  /\ ideal = <<>>
  /\ ended = FALSE
  /\ missed = FALSE

IdealInit == \E graph \in Graphs : IdealInitWith(graph)

-----------------------------------------------------------------------------

Searching == ~ended /\ toMeet = {} /\ depth < kIdealFinderMaxDepth

(***************************************************************************)
(* One call, answered by the master or by a replica that shows what was    *)
(* there before.  A failed one leaves the artist out.                      *)
(***************************************************************************)
Ask ==
  /\ Searching /\ frontier # <<>>
  /\ asked' = Head(frontier)
  /\ frontier' = Tail(frontier)
  /\ \/ \E graph \in shown : toMeet' = NeighboursOf(graph, asked') \ visited /\ UNCHANGED missed
     \/ CallsFail /\ toMeet' = {} /\ missed' = TRUE
  /\ UNCHANGED <<graphVars, visited, parent, upcoming, depth, ideal, ended>>

(***************************************************************************)
(* From the artist back to where the search began, parent by parent.       *)
(***************************************************************************)
PathBack(parents, a) ==
  LET back[b \in DOMAIN parents \cup {FromId}] ==
        IF b = FromId THEN <<b>> ELSE Append(back[parents[b]], b)
  IN  back[a]

PutNext(a) ==
  IF Len(upcoming) < kIdealFinderMaxFrontier
  THEN upcoming' = Append(upcoming, a) /\ UNCHANGED missed
  ELSE missed' = TRUE /\ UNCHANGED upcoming

\* Mutant: an artist is visited when its neighbours are asked for, not when it is met.
MeetLate ==
  /\ ~ended
  /\ \E a \in toMeet :
       /\ parent' = [b \in DOMAIN parent \cup {a} |-> IF b = a THEN asked ELSE parent[b]]
       /\ visited' = visited \cup {asked}
       /\ IF a = ToId
          THEN ideal' = PathBack(parent', a) /\ ended' = TRUE /\ UNCHANGED <<upcoming, missed>>
          ELSE PutNext(a) /\ UNCHANGED <<ideal, ended>>
       /\ toMeet' = toMeet \ {a}
  /\ UNCHANGED <<graphVars, frontier, depth, asked>>

(***************************************************************************)
(* The next neighbour of the answer, in any order.  The artist at the      *)
(* frontier's limit is marked visited although it is never asked about.    *)
(***************************************************************************)
Meet ==
  /\ ~ended
  /\ \E a \in toMeet :
       /\ visited' = visited \cup {a}
       /\ parent' = [b \in DOMAIN parent \cup {a} |-> IF b = a THEN asked ELSE parent[b]]
       /\ IF a = ToId
          THEN ideal' = PathBack(parent', a) /\ ended' = TRUE /\ UNCHANGED <<upcoming, missed>>
          ELSE PutNext(a) /\ UNCHANGED <<ideal, ended>>
       /\ toMeet' = toMeet \ {a}
  /\ UNCHANGED <<graphVars, frontier, depth, asked>>

Deeper ==
  /\ Searching /\ frontier = <<>> /\ upcoming # <<>>
  /\ depth' = depth + 1
  /\ frontier' = upcoming
  /\ upcoming' = <<>>
  /\ UNCHANGED <<graphVars, visited, parent, asked, toMeet, ideal, ended, missed>>

FindsNone ==
  /\ ~ended /\ toMeet = {}
  /\ depth = kIdealFinderMaxDepth \/ (frontier = <<>> /\ upcoming = <<>>)
  /\ ended' = TRUE
  /\ UNCHANGED <<graphVars, visited, parent, frontier, upcoming, depth, asked, toMeet, ideal, missed>>

(***************************************************************************)
(* The store's next state.  One that comes before the first call is what a *)
(* replica lags behind when the search begins.                             *)
(***************************************************************************)
Changes(graph) ==
  /\ ~ended /\ Cardinality(shown) < MaxShown
  /\ ties' = graph /\ shown' = shown \cup {graph}
  /\ UNCHANGED <<visited, parent, frontier, upcoming, depth, asked, toMeet, ideal, ended, missed>>

(***************************************************************************)
(* A scan stores songs; a prune deletes an artist with its credits.        *)
(***************************************************************************)
Enrich == \E more \in Growth : Changes(ties \cup more)

PruneArtist == \E a \in Musician : Changes({tie \in ties : tie[1] # a /\ tie[2] # a})

IdealNext == Ask \/ Meet \/ Deeper \/ FindsNone \/ Enrich \/ PruneArtist

IdealSpec == IdealInit /\ [][IdealNext]_idealVars

-----------------------------------------------------------------------------
(***************************************************************************)
(* What ValidateChain says of a chain when every call is answered.         *)
(***************************************************************************)
ValidateChain(graph, chain) ==
  CASE Len(chain) < 2 \/ chain[1] # FromId \/ chain[Len(chain)] # ToId
         -> "endpoint mismatch"
    [] \E i \in 1..(Len(chain) - 1) : chain[i + 1] \notin NeighboursOf(graph, chain[i])
         -> "invalid hop"
    [] OTHER -> "valid"

(***************************************************************************)
(* The artists at most n hops from the first one, and the number of hops   *)
(* to the other, kIdealFinderMaxDepth + 1 when it is more than that.       *)
(***************************************************************************)
Ball(graph, n) ==
  LET ball[m \in 0..kIdealFinderMaxDepth] ==
        IF m = 0 THEN {FromId}
        ELSE ball[m - 1] \cup {b \in Musician : \E a \in ball[m - 1] : <<a, b>> \in graph}
  IN  ball[n]

Distance(graph) ==
  LET reach == {n \in 0..kIdealFinderMaxDepth : ToId \in Ball(graph, n)}
  IN  IF reach = {} THEN kIdealFinderMaxDepth + 1
      ELSE CHOOSE n \in reach : \A m \in reach : n <= m

IdealTypeOK ==
  /\ ties \in shown
  /\ visited \subseteq Musician /\ DOMAIN parent \subseteq visited
  /\ frontier \in Seq(visited) /\ upcoming \in Seq(visited)
  /\ Len(upcoming) <= kIdealFinderMaxFrontier /\ asked \in visited
  /\ depth \in 0..kIdealFinderMaxDepth
  /\ toMeet \subseteq Musician
  /\ ideal \in Seq(Musician)
  /\ ended \in BOOLEAN /\ missed \in BOOLEAN

(* The ties that some call could show, and those that every call showed.   *)
Ever == UNION shown
Lasting == {tie \in Ever : \A graph \in shown : tie \in graph}

(***************************************************************************)
(* The ideal path is fair to the players, although the graph changes while *)
(* it is looked for, call by call: each of its hops was a tie meanwhile    *)
(* (so the validator accepts it while none of them is pruned), and unless  *)
(* a call failed or the frontier was cut, no chain of at most MaxDepth     *)
(* hops that lasted is shorter, and a search that finds none left none.    *)
(***************************************************************************)
IdealIsShortest ==
  ended =>
    IF ideal = <<>>
    THEN missed \/ Distance(Lasting) > kIdealFinderMaxDepth
    ELSE /\ ValidateChain(Ever, ideal) = "valid"
         /\ missed \/ Len(ideal) - 1 <= Distance(Lasting)

=============================================================================

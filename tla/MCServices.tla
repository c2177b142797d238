----------------------------- MODULE MCServices -----------------------------
(***************************************************************************)
(* One model-checking run for components that do not share state.  focus   *)
(* chooses at the start which of them runs; the others rest in their       *)
(* initial states, so TLC explores the sum of the components' state        *)
(* spaces and not their product.                                           *)
(***************************************************************************)
EXTENDS RateLimiter, GeniusGateway, RateLimitStore, ArtistStore, GraphApi,
        PathSearch, CollabPath, IdealPath, EdgeAggregation, SessionCookie, TLC

VARIABLE focus

(* Two artists with a song in common and one of the first artist's own.    *)
OneSongShared == [s \in Song |-> IF s = "s" THEN Artist ELSE {1}]
NoPhotos == [a \in Artist |-> {NoImage}]

(* The same when the first artist's photo changes and nobody reads.        *)
Photos == INSTANCE ArtistStore WITH
  ImagesOf <- [a \in Artist |-> IF a = 1 THEN {"old", "new"} ELSE {NoImage}], Asked <- {}

(* A cookie with a short window and an API key with a long one. *)
OneOrTwo == [k \in Key |-> IF k = "cookie" THEN 1 ELSE 2]
ShortOrLong == [k \in Key |-> IF k = "cookie" THEN 1 ELSE 6]

(* A chain that two rounds' reach just covers and one that is too long for *)
(* it, a short way beside a longer one, and neighbours.                    *)
FourGraphs ==
  {{{1, 3}, {3, 4}, {4, 5}, {5, 2}}, {{1, 3}, {3, 4}, {4, 5}, {5, 6}, {6, 2}},
   {{1, 3}, {3, 4}, {4, 2}, {1, 5}, {5, 6}, {6, 7}, {7, 2}}, {{1, 2}, {1, 3}, {1, 4}, {5, 2}}}

(* Nobody is stored, one end, neighbours of both, and much of the graphs.  *)
SomeStored == {{}, {1}, {5, 7}, {3, 4}, {1, 2, 3, 5, 7}}

(* A fetch that leaves out a song, or has no token. *)
SomeOrAll == {{}, {{3, 4}}, UNION FourGraphs}

(* Three songs, two of one title, a neighbour with a name and one without. *)
Credits == {{}, {<<0, "primary">>, <<1, "producer">>, <<1, "featured">>}, {<<1, "featured">>},
            {<<1, "writer">>, <<2, "writer">>}, {<<2, "featured">>, <<1, "primary">>},
            {<<2, "producer">>}}
OneTitleTwice == [s \in Track |-> IF s = "u" THEN "other" ELSE "one"]
AllCredits == [Track -> Credits]

(* Two calls of one lane, each tried twice. *)
SongListAndSong == <<"song list", "song">>
BothForeground == <<"fg", "fg">>
TwoTicks == [l \in {"fg"} |-> 2]
OneOfIt == [l \in {"fg"} |-> 1]

(* All graphs of five artists in which two are not neighbours, and three  *)
(* songs of two artists that scans may add; some ties lead one way only.  *)
BothWays(g) == UNION {{<<a, b>> : a \in pair, b \in pair} : pair \in g} \ {<<a, a>> : a \in 1..5}
OneWay(g) == {<<a, b>> \in BothWays(g) : a < b \/ b = 2}
GraphsOfFive ==
  LET pairs == {g \in SUBSET ({{a, b} : a \in 1..5, b \in 1..5} \ {{a} : a \in 1..5}) :
                  {1, 2} \notin g /\ Cardinality(g) <= 5}
  IN  {BothWays(g) : g \in pairs} \cup {OneWay(g) : g \in pairs}
ThreeSongs == {BothWays({{1, 3}}), BothWays({{3, 4}}), BothWays({{4, 2}})}

(* Sessions of many tokens and names that differ in what has to be escaped *)
(* or look like a key, and two accounts while the services restart with    *)
(* other secrets.                                                          *)
Strings(bytes, n) == UNION {[1..k -> bytes] : k \in 0..n}
HeldTokens == {<<34, 92, 10>>}
HeldNames == {<<>>, <<110, 34>>}
Tokens == Strings({34, 92, 110}, 2) \cup {<<34, 110, 34, 58, 34>>, <<92, 34, 44>>} \cup HeldTokens
Names == Strings({1, 10, 34, 92, 117}, 2) \cup HeldNames
OneSecret == [service \in Service |-> "k"]

servicesVars == <<focus, edgeVars, storeVars, rateVars, searchVars, pathVars, apiVars, geniusVars, idealVars, cookieVars, vars>>

(* The component in focus begins in any of its initial states, every other *)
(* one in one of them.                                                     *)
ServicesInit ==
  /\ focus \in {"tables", "photos", "limits", "search", "finder",
                "api", "limiter", "edges", "genius", "ideal", "cookies", "secrets"}
  /\ StoreInit
  /\ LimitsInit /\ (focus # "limits" => ~shared)
  /\ IF focus = "search" THEN SearchInit ELSE SearchInitWith({})
  /\ IF focus = "finder" THEN FinderInit ELSE FinderInitWith({}, {}, {}, TRUE)
  /\ IF focus = "api" THEN ApiInit ELSE ApiInitWith(NotStored)
  /\ IF focus = "edges" THEN EdgesInit ELSE EdgesInitWith([s \in Track |-> {}])
  /\ GatewayInit
  /\ IF focus = "ideal" THEN IdealInit ELSE IdealInitWith({})
  /\ CASE focus = "cookies" ->
              \E who \in [tok : Token, name : Name] : CookieInitWith(who, OneSecret)
       [] focus = "secrets" ->
              CookieInit /\ account \in [tok : HeldTokens, name : HeldNames]
       [] OTHER -> CookieInitWith([tok |-> <<>>, name |-> <<>>], OneSecret)
  /\ IF focus = "limiter" THEN Init ELSE InitWith(Quota)

ServicesNext ==
  /\ \/ /\ \/ focus = "tables" /\ StoreNext
           \/ focus = "photos" /\ Photos!StoreNext
        /\ UNCHANGED <<rateVars, searchVars, pathVars, apiVars, edgeVars, vars, geniusVars, idealVars, cookieVars>>
     \/ /\ focus = "limits" /\ LimitsNext
        /\ UNCHANGED <<storeVars, searchVars, pathVars, apiVars, edgeVars, vars, geniusVars, idealVars, cookieVars>>
     \/ /\ focus = "search" /\ SearchNext
        /\ UNCHANGED <<storeVars, rateVars, pathVars, apiVars, edgeVars, vars, geniusVars, idealVars, cookieVars>>
     \/ /\ focus = "finder" /\ FinderNext
        /\ UNCHANGED <<storeVars, rateVars, searchVars, apiVars, edgeVars, vars, geniusVars, idealVars, cookieVars>>
     \/ /\ focus = "api" /\ ApiNext
        /\ UNCHANGED <<storeVars, rateVars, searchVars, pathVars, edgeVars, vars, geniusVars, idealVars, cookieVars>>
     \/ /\ focus = "limiter" /\ Next
        /\ UNCHANGED <<storeVars, rateVars, searchVars, pathVars, apiVars, edgeVars, geniusVars, idealVars, cookieVars>>
     \/ /\ focus = "edges" /\ EdgesNext
        /\ UNCHANGED <<storeVars, rateVars, searchVars, pathVars, apiVars, vars, geniusVars, idealVars, cookieVars>>
     \/ /\ focus = "genius" /\ GatewayNext
        /\ UNCHANGED <<edgeVars, storeVars, rateVars, searchVars, pathVars, apiVars, vars, idealVars, cookieVars>>
     \/ /\ focus = "ideal" /\ IdealNext
        /\ UNCHANGED <<edgeVars, storeVars, rateVars, searchVars, pathVars, apiVars, geniusVars, vars, cookieVars>>
     \/ /\ CookieNext
        /\ focus \in {"cookies", "secrets"}
        /\ focus = "cookies" => restarts' = 0 /\ wall' = 0
        /\ UNCHANGED <<edgeVars, storeVars, rateVars, searchVars, pathVars, apiVars, geniusVars, idealVars, vars>>
  /\ UNCHANGED focus

ServicesSpec == ServicesInit /\ [][ServicesNext]_servicesVars

-----------------------------------------------------------------------------
(* The variables of the component in focus have their types.  The other    *)
(* properties of the run are those of the modules extended, and explained  *)
(* there; where a component rests, its own hold of its initial state.      *)
TypesOK ==
  /\ focus = "tables" => StoreTypeOK
  /\ focus = "photos" => Photos!StoreTypeOK
  /\ focus = "limits" => LimitsTypeOK
  /\ focus = "search" => SearchTypeOK
  /\ focus = "finder" => FinderTypeOK
  /\ focus = "api" => ApiTypeOK
  /\ focus = "edges" => EdgesTypeOK
  /\ focus = "genius" => GatewayTypeOK
  /\ focus = "ideal" => IdealTypeOK
  /\ focus \in {"cookies", "secrets"} => CookieTypeOK
  /\ focus = "limiter" => TypeOK

=============================================================================

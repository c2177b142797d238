---------------------------- MODULE EnrichmentJobs ----------------------------
(***************************************************************************)
(* What the enrichment worker promises, without its queue, locks, callers  *)
(* and recovery: a set of artists somebody wants scanned, at most one scan *)
(* at a time, and only of a wanted artist.  An artist is complete only     *)
(* through its own scan.                                                   *)
(***************************************************************************)
CONSTANTS Artist, NoArtist

VARIABLES
  wanted,    \* artists that wait for a scan
  scanned,   \* the artist that is scanned, or NoArtist
  complete   \* artists stored with depth Full

vars == <<wanted, scanned, complete>>

Init == wanted = {} /\ scanned = NoArtist /\ complete \subseteq Artist

(***************************************************************************)
(* Recovery adds many artists at once.                                     *)
(***************************************************************************)
Want ==
  /\ wanted \subseteq wanted' /\ wanted' \subseteq Artist
  /\ scanned \notin wanted'
  /\ UNCHANGED <<scanned, complete>>

(***************************************************************************)
(* A full or closed queue refuses an artist.                               *)
(***************************************************************************)
GiveUp(a) ==
  /\ a \in wanted
  /\ wanted' = wanted \ {a}
  /\ UNCHANGED <<scanned, complete>>

Scan(a) ==
  /\ scanned = NoArtist
  /\ a \in wanted
  /\ scanned' = a
  /\ wanted' = wanted \ {a}
  /\ UNCHANGED complete

Complete ==
  /\ scanned # NoArtist
  /\ complete' = complete \cup {scanned}
  /\ UNCHANGED <<wanted, scanned>>

(***************************************************************************)
(* The scan ends; an artist that could not be fetched now may be wanted on.*)
(***************************************************************************)
Finish ==
  /\ scanned # NoArtist
  /\ wanted' \in {wanted, wanted \cup {scanned}}
  /\ scanned' = NoArtist
  /\ UNCHANGED complete

Forget ==
  /\ wanted' = {}
  /\ scanned' = NoArtist
  /\ UNCHANGED complete

Prune(a) ==
  /\ complete' = complete \ {a}
  /\ UNCHANGED <<wanted, scanned>>

Next ==
  \/ Want \/ Complete \/ Finish \/ Forget
  \/ \E a \in Artist : GiveUp(a) \/ Scan(a) \/ Prune(a)

Spec == Init /\ [][Next]_vars

=============================================================================

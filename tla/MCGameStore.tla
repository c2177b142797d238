---------------------------- MODULE MCGameStore ----------------------------
(* Model values for GameStore; submissions and publishers are interchangeable. *)
EXTENDS GameStore, TLC

Deltas == {-1, 1}

Interchangeable ==
  Permutations(Submission) \cup Permutations(Publisher) \cup Permutations(Challenge)

=============================================================================

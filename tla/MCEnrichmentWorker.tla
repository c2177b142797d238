------------------------- MODULE MCEnrichmentWorker -------------------------
(* Model values for EnrichmentWorker; the callers are interchangeable. *)
EXTENDS EnrichmentWorker, TLC

CallerSymmetry == Permutations(Caller)

=============================================================================

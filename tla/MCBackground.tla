---------------------------- MODULE MCBackground ----------------------------
(***************************************************************************)
(* Background work that has to come to an end: the enrichment worker, the  *)
(* retry queue of its client, the streams that report on it, and the prune *)
(* task.  Each is fair on its own and they share no state here; focus      *)
(* chooses at the start which of them runs, the others rest.               *)
(***************************************************************************)
EXTENDS EnrichmentWorker, EnrichmentRetry, EnrichmentStatus, TLC

VARIABLES focus,
          artists, songs, credits, fetched, now, writer, pruner, client, skipped, gone

(* Two artists that become stale, and batches of one. *)
Prune == INSTANCE ArtistStore WITH
  worker <- writer, Artist <- 1..2, Song <- {"s"},
  CreditsOf <- [x \in {"s"} |-> 1..2], ImagesOf <- [a \in 1..2 |-> {"none"}],
  NoImage <- "none", NoColour <- "null", NoArtist <- 0,
  Ttl <- 1, BatchSize <- 1, Asked <- {}, MaxTime <- 2

storeVars == <<artists, songs, credits, fetched, now, writer, pruner, client, skipped, gone>>
backgroundVars == <<focus, vars, retryVars, statusVars, storeVars>>

BackgroundInit ==
  /\ focus \in {"worker", "retries", "status", "prune"}
  /\ IF focus = "worker" THEN Init ELSE InitWith([a \in Artist |-> None])
  /\ RetryInit
  /\ IF focus = "status" THEN StatusInit ELSE StatusInitWith(FALSE)
  /\ Prune!StoreInit

BackgroundNext ==
  /\ \/ focus = "worker" /\ Next /\ UNCHANGED <<retryVars, statusVars, storeVars>>
     \/ focus = "retries" /\ RetryNext /\ UNCHANGED <<vars, statusVars, storeVars>>
     \/ focus = "status" /\ StatusNext /\ UNCHANGED <<vars, retryVars, storeVars>>
     \/ focus = "prune" /\ Prune!StoreNext /\ UNCHANGED <<vars, retryVars, statusVars>>
  /\ UNCHANGED focus

(* The fairness of each component's own specification. *)
Fairness ==
  /\ WF_vars(focus = "worker" /\ Recover)
  /\ WF_vars(focus = "worker" /\ WorkerLoop)
  /\ \A c \in Caller : WF_vars(focus = "worker" /\ Enqueue(c))
  /\ WF_retryVars(focus = "retries" /\ Flush)
  /\ WF_retryVars(focus = "retries" /\ RetryTick)
  /\ \A r \in Reader : WF_statusVars(focus = "status" /\ ReaderStep(r))
  /\ WF_storeVars(focus = "prune" /\ Prune!PruneStep)

BackgroundSpec == BackgroundInit /\ [][BackgroundNext]_backgroundVars /\ Fairness

-----------------------------------------------------------------------------
(* The prune task's property, named for the run; it is explained where it  *)
(* is defined.                                                             *)
StaleLeaves == focus = "prune" => Prune!StaleLeaves

=============================================================================

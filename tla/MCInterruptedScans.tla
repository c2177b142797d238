------------------------ MODULE MCInterruptedScans -------------------------
(***************************************************************************)
(* EnrichmentWorker with a history of what the end of a process left over. *)
(***************************************************************************)
EXTENDS EnrichmentWorker

VARIABLE interrupted   \* artists queued or scanned when the last process ended

InterruptedInit == Init /\ interrupted = {}

InterruptedNext ==
  /\ Next
  /\ interrupted' = IF Restart THEN Queued \cup InWork ELSE interrupted

InterruptedSpec == InterruptedInit /\ [][InterruptedNext]_<<vars, interrupted>>

(***************************************************************************)
(* Scans that the end of the process interrupted are taken up again by the *)
(* next one.                                                               *)
(***************************************************************************)
InterruptedScansAreRecovered ==
  [][\A rows \in RowsRead :
       RecoveredWithRoom(rows) => interrupted \subseteq pending']_<<vars, interrupted>>

=============================================================================

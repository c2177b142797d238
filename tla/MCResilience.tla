---------------------------- MODULE MCResilience ----------------------------
(***************************************************************************)
(* What a request to Genius passes after failures: the circuit breaker and *)
(* the gate of the cooldown.  Neither reads the other's state; focus       *)
(* chooses at the start which of them runs, the other rests.               *)
(***************************************************************************)
EXTENDS CircuitBreaker, CooldownGate

VARIABLE focus

resilienceVars == <<focus, vars, gateVars>>

ResilienceInit == focus \in {"breaker", "gate"} /\ Init /\ GateInit

ResilienceNext ==
  /\ \/ focus = "breaker" /\ Next /\ UNCHANGED gateVars
     \/ focus = "gate" /\ GateNext /\ UNCHANGED vars
  /\ UNCHANGED focus

(* The fairness of each one's own specification. *)
ResilienceFairness ==
  /\ WF_vars(focus = "breaker" /\ Tick)
  /\ \A t \in Task :
       /\ WF_vars(focus = "breaker" /\ Decide(t)) /\ WF_vars(focus = "breaker" /\ Finish(t))
       /\ WF_vars(focus = "breaker" /\ Record(t))
  /\ WF_gateVars(focus = "gate" /\ GateTick)
  /\ \A t \in Caller : WF_gateVars(focus = "gate" /\ Wake(t))

ResilienceSpec == ResilienceInit /\ [][ResilienceNext]_resilienceVars /\ ResilienceFairness

=============================================================================

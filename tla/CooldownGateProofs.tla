------------------------- MODULE CooldownGateProofs -------------------------
(***************************************************************************)
(* What the cooldown gate keeps for every set of tasks, every length of    *)
(* the cooldowns and every horizon.                                        *)
(***************************************************************************)
EXTENDS CooldownGate, TLAPS

LEMMA TypeCorrect == GateSpec => []GateTypeOK
<1>1. GateInit => GateTypeOK
  <2>1. GateInit => active \in BOOLEAN /\ calm \in BOOLEAN
    BY DEF GateInit
  <2> QED BY <2>1 DEF GateInit, GateTypeOK, Place, Waiting
<1>2. GateTypeOK /\ [GateNext]_gateVars => GateTypeOK'
  <2> SUFFICES ASSUME GateTypeOK, [GateNext]_gateVars
               PROVE  GateTypeOK'
    OBVIOUS
  <2> USE GateAssumption DEF GateAssumption, GateTypeOK, Place, Waiting
  <2>1. CASE GateTick
    BY <2>1 DEF GateTick
  <2>2. ASSUME NEW c \in Cooldown, Activate(c)
        PROVE  GateTypeOK'
    <3>1. active' \in BOOLEAN
      BY <2>2, Zenon DEF Activate
    <3> QED BY <2>2, <3>1 DEF Activate
  <2>3. ASSUME NEW t \in Caller, Enter(t) \/ Cancel(t) \/ Return(t)
        PROVE  GateTypeOK'
    <3>1. calm' \in BOOLEAN
      BY <2>3, Zenon DEF Enter, Cancel, Return
    <3> QED BY <2>3, <3>1 DEF Enter, Cancel, Return
  <2>4. ASSUME NEW t \in Caller, Wake(t)
        PROVE  GateTypeOK'
    <3>1. ASSUME Leave(t) PROVE GateTypeOK'
      <4>1. active' \in BOOLEAN
        BY <3>1, Zenon DEF Leave, Open
      <4> QED BY <3>1, <4>1 DEF Leave, Open
    <3>2. CASE WakeOnTimeout(t) \/ WakeOnCancel(t)
      BY <3>1, <3>2 DEF WakeOnTimeout, WakeOnCancel
    <3>3. CASE WakeOnNotify(t)
      BY <3>1, <3>3 DEF WakeOnNotify
    <3>4. CASE NotifyAll(t)
      <4>1. calm' \in BOOLEAN /\ active' \in BOOLEAN
        BY <3>4, Zenon DEF NotifyAll
      <4> QED BY <3>4, <4>1 DEF NotifyAll
    <3> QED BY <2>4, <3>2, <3>3, <3>4 DEF Wake
  <2>5. CASE UNCHANGED gateVars
    BY <2>5 DEF gateVars
  <2> QED BY <2>1, <2>2, <2>3, <2>4, <2>5 DEF GateNext
<1> QED BY <1>1, <1>2, PTL DEF GateSpec

(***************************************************************************)
(* The waiter whose wait ended by its deadline may open the gate only if   *)
(* that deadline is the gate's; one that was notified finds the gate       *)
(* changed and so never opens it.                                          *)
(***************************************************************************)
THEOREM OpensOnTimeHolds == GateSpec => OpensOnTimeUnlessCancelled
<1> DEFINE OnTime == active /\ ~active' =>
             \/ now >= deadline
             \/ \E t \in cancelled : gate[t] = "waiting" /\ gate'[t] = "notifying"
<1>1. GateTypeOK /\ [GateNext]_gateVars => [OnTime]_gateVars
  <2> SUFFICES ASSUME GateTypeOK, GateNext, active, ~active'
               PROVE  \/ now >= deadline
                      \/ \E t \in cancelled : gate[t] = "waiting" /\ gate'[t] = "notifying"
    OBVIOUS
  <2>1. PICK t \in Caller : Wake(t)
    BY DEF GateNext, GateTick, Activate, Enter, Cancel, Return
  <2>2. CASE WakeOnTimeout(t)
    BY <2>2 DEF WakeOnTimeout, Leave, Open, GateTypeOK
  <2>3. CASE WakeOnNotify(t)
    BY <2>3 DEF WakeOnNotify, Leave, Open, Changed
  <2>4. CASE WakeOnCancel(t)
    BY <2>4 DEF WakeOnCancel, Leave, Open, GateTypeOK
  <2>5. CASE NotifyAll(t)
    BY <2>5 DEF NotifyAll
  <2> QED BY <2>1, <2>2, <2>3, <2>4, <2>5 DEF Wake
<1> QED BY <1>1, TypeCorrect, PTL DEF GateSpec, OpensOnTimeUnlessCancelled

(***************************************************************************)
(* Deadlines only move forward: none that a waiter saw lies beyond the     *)
(* gate's, and that of an open gate has passed.                            *)
(***************************************************************************)
DeadlineInv ==
  /\ \A t \in Waiting : seen[t] <= deadline
  /\ ~active => deadline <= now

CalmInv == calm => cancelled = {} /\ DeadlineInv

(***************************************************************************)
(* As long as nobody is cancelled every waiter stays until the deadline it *)
(* saw or one that has replaced it, and does not open the gate early.      *)
(***************************************************************************)
THEOREM WaitsItsDeadlineHolds == GateSpec => WaitsItsDeadline
<1> USE GateAssumption DEF GateAssumption
<1>1. GateInit => CalmInv
  BY DEF GateInit, CalmInv, DeadlineInv, Waiting
<1>2. GateTypeOK /\ CalmInv /\ [GateNext]_gateVars => CalmInv'
  <2> SUFFICES ASSUME GateTypeOK, CalmInv, [GateNext]_gateVars, calm'
               PROVE  cancelled' = {} /\ DeadlineInv'
    BY DEF CalmInv
  <2>0. ~ \E t \in Caller : Cancel(t)
    BY DEF Cancel
  <2>1. calm
    BY <2>0 DEF GateNext, GateTick, Activate, Enter, Wake, WakeOnTimeout, WakeOnNotify,
                WakeOnCancel, NotifyAll, Leave, Return, gateVars
  <2>2. cancelled = {} /\ DeadlineInv
    BY <2>1 DEF CalmInv
  <2>3. cancelled' = {}
    BY <2>0, <2>2 DEF GateNext, GateTick, Activate, Enter, Wake, WakeOnTimeout,
                WakeOnNotify, WakeOnCancel, NotifyAll, Leave, Return, gateVars
  <2> USE DEF DeadlineInv, Waiting, GateTypeOK
  <2>4. CASE GateTick
    BY <2>2, <2>4 DEF GateTick
  <2>5. ASSUME NEW c \in Cooldown, Activate(c)
        PROVE  DeadlineInv'
    <3>1. CASE active /\ deadline >= now + c
      BY <2>2, <2>5, <3>1 DEF Activate
    <3>2. CASE ~(active /\ deadline >= now + c)
      <4>1. active' /\ deadline' = now + c /\ deadline <= now + c
        BY <2>2, <2>5, <3>2 DEF Activate
      <4> QED BY <2>2, <2>5, <4>1 DEF Activate
    <3> QED BY <3>1, <3>2
  <2>6. ASSUME NEW t \in Caller, Enter(t)
        PROVE  DeadlineInv'
    BY <2>2, <2>6 DEF Enter
  <2>7. ASSUME NEW t \in Caller, Leave(t), seen[t] <= now \/ Changed(t), gate[t] = "waiting"
        PROVE  DeadlineInv'
    BY <2>2, <2>7 DEF Leave, Open, Changed
  <2>8. ASSUME NEW t \in Caller, Wake(t)
        PROVE  DeadlineInv'
    <3>1. CASE WakeOnTimeout(t)
      BY <2>7, <3>1 DEF WakeOnTimeout
    <3>2. CASE WakeOnNotify(t)
      BY <2>2, <2>7, <3>2 DEF WakeOnNotify
    <3>3. CASE NotifyAll(t)
      BY <2>2, <3>3 DEF NotifyAll
    <3> QED BY <2>2, <2>8, <3>1, <3>2, <3>3 DEF Wake, WakeOnCancel
  <2>9. ASSUME NEW t \in Caller, Return(t)
        PROVE  DeadlineInv'
    BY <2>2, <2>9 DEF Return
  <2>10. CASE UNCHANGED gateVars
    BY <2>2, <2>10 DEF gateVars
  <2> QED BY <2>0, <2>3, <2>4, <2>5, <2>6, <2>8, <2>9, <2>10 DEF GateNext
<1> DEFINE Stays == calm => \A t \in Caller :
                      gate[t] = "waiting" /\ gate'[t] # "waiting" =>
                        now >= seen[t] \/ (active' /\ deadline > seen[t])
<1>3. GateTypeOK /\ CalmInv /\ [GateNext]_gateVars => [Stays]_gateVars
  <2> SUFFICES ASSUME GateTypeOK, CalmInv, GateNext, calm,
                      NEW t \in Caller, gate[t] = "waiting", gate'[t] # "waiting"
               PROVE  now >= seen[t] \/ (active' /\ deadline > seen[t])
    OBVIOUS
  <2>1. PICK s \in Caller : Enter(s) \/ Wake(s) \/ Return(s)
    BY DEF GateNext, GateTick, Activate, Cancel
  <2>2. Wake(s) /\ s = t
    BY <2>1 DEF Enter, Return, Wake, WakeOnTimeout, WakeOnNotify, WakeOnCancel, NotifyAll,
                Leave, Open, GateTypeOK
  <2>3. cancelled = {} /\ seen[t] <= deadline /\ (~active => deadline <= now)
    BY DEF CalmInv, DeadlineInv, Waiting
  <2>4. now \in Nat /\ deadline \in Nat /\ seen[t] \in Nat
    BY DEF GateTypeOK
  <2>5. CASE WakeOnTimeout(t)
    BY <2>5 DEF WakeOnTimeout
  <2>6. CASE WakeOnNotify(t)
    <3>1. Changed(t) /\ Leave(t)
      BY <2>6 DEF WakeOnNotify
    <3>2. active /\ deadline # seen[t] => active'
      BY <3>1 DEF Leave
    <3> QED BY <2>3, <2>4, <3>1, <3>2 DEF Changed
  <2> QED BY <2>2, <2>3, <2>5, <2>6 DEF Wake, WakeOnCancel, NotifyAll
<1> QED BY <1>1, <1>2, <1>3, TypeCorrect, PTL DEF GateSpec, WaitsItsDeadline

=============================================================================

------------------------ MODULE CircuitBreakerProofs ------------------------
(***************************************************************************)
(* Safety of the circuit breaker for every number of tasks, every          *)
(* threshold and every open period.                                        *)
(***************************************************************************)
EXTENDS CircuitBreaker, TLAPS

USE BreakerAssumption DEF BreakerAssumption

LEMMA TypeCorrect == Spec => []TypeOK
<1>1. Init => TypeOK
  <2> SUFFICES ASSUME Init PROVE TypeOK
    OBVIOUS
  <2>1. probe_in_flight \in BOOLEAN
    BY DEF Init
  <2>2. QED BY <2>1 DEF Init, TypeOK, State, PC, ThroughCap
<1>2. TypeOK /\ [Next]_vars => TypeOK'
  <2> SUFFICES ASSUME TypeOK, [Next]_vars
               PROVE  TypeOK'
    OBVIOUS
  <2> USE DEF TypeOK, State, PC, Goto, Saturate, ThroughCap
  <2>1. CASE Tick
    BY <2>1 DEF Tick
  <2>2. ASSUME NEW t \in Task, Decide(t)
        PROVE  TypeOK'
    <3>1. CASE AllowRequest(t)
      BY <3>1 DEF AllowRequest
    <3>2. CASE ClaimProbe(t)
      <4>1. probe_in_flight' \in BOOLEAN
        BY <3>2, Zenon DEF ClaimProbe, TryClaimProbe
      <4> QED BY <3>2, <4>1 DEF ClaimProbe, TryClaimProbe, CountThrough
    <3>3. CASE AllowLocked(t)
      <4>1. probe_in_flight' \in BOOLEAN
        BY <3>3, Zenon DEF AllowLocked, TryClaimProbe
      <4> QED BY <3>3, <4>1 DEF AllowLocked, TryClaimProbe, CountThrough
    <3>4. CASE OpenProbe(t)
      BY <3>4 DEF OpenProbe
    <3> QED BY <2>2, <3>1, <3>2, <3>3, <3>4 DEF Decide
  <2>3. ASSUME NEW t \in Task, Finish(t)
        PROVE  TypeOK'
    BY <2>3 DEF Finish, RecordSuccess, Fail, LeaveUnrecorded
  <2>4. ASSUME NEW t \in Task, Record(t)
        PROVE  TypeOK'
    <3>1. CASE ClearFailures(t)
      BY <3>1 DEF ClearFailures
    <3>2. CASE CloseIfHalfOpen(t)
      BY <3>2 DEF CloseIfHalfOpen, Reset
    <3>3. CASE ReleaseProbe(t)
      BY <3>3 DEF ReleaseProbe
    <3>4. CASE RecordFailure(t)
      BY <3>4 DEF RecordFailure, Trip
    <3> QED BY <2>4, <3>1, <3>2, <3>3, <3>4 DEF Record
  <2>5. CASE UNCHANGED vars
    BY <2>5 DEF vars
  <2> QED BY <2>1, <2>2, <2>3, <2>4, <2>5 DEF Next
<1> QED BY <1>1, <1>2, PTL DEF Spec

(***************************************************************************)
(* A closed breaker never holds a spent failure budget: the invariant is   *)
(* inductive as it stands, because Reset clears the count in the step that *)
(* closes the breaker and RecordFailure trips in the step that spends it.  *)
(***************************************************************************)
THEOREM ClosedBelowThresholdHolds == Spec => []ClosedBelowThreshold
<1>1. Init => ClosedBelowThreshold
  BY DEF Init, ClosedBelowThreshold
<1>2. TypeOK /\ ClosedBelowThreshold /\ [Next]_vars => ClosedBelowThreshold'
  <2> SUFFICES ASSUME TypeOK, ClosedBelowThreshold, [Next]_vars
               PROVE  ClosedBelowThreshold'
    OBVIOUS
  <2> USE DEF ClosedBelowThreshold
  <2>1. CASE UNCHANGED <<state, consecutive_failures>>
    BY <2>1
  <2>2. ASSUME NEW t \in Task, AllowLocked(t)
        PROVE  ClosedBelowThreshold'
    BY <2>2 DEF AllowLocked
  <2>3. ASSUME NEW t \in Task, Record(t)
        PROVE  ClosedBelowThreshold'
    <3>1. CASE ClearFailures(t) \/ CloseIfHalfOpen(t)
      BY <3>1 DEF ClearFailures, CloseIfHalfOpen, Reset
    <3>2. CASE RecordFailure(t)
      BY <3>2 DEF RecordFailure, Trip, Saturate, TypeOK
    <3>3. CASE ReleaseProbe(t)
      BY <3>3, <2>1 DEF ReleaseProbe
    <3> QED BY <2>3, <3>1, <3>2, <3>3 DEF Record
  <2>4. ASSUME NEW t \in Task, Decide(t), ~AllowLocked(t)
        PROVE  UNCHANGED <<state, consecutive_failures>>
    BY <2>4 DEF Decide, AllowRequest, ClaimProbe, OpenProbe
  <2>5. ASSUME NEW t \in Task, Finish(t)
        PROVE  UNCHANGED <<state, consecutive_failures>>
    BY <2>5 DEF Finish, RecordSuccess, Fail, LeaveUnrecorded
  <2>6. Tick \/ UNCHANGED vars => UNCHANGED <<state, consecutive_failures>>
    BY DEF Tick, vars
  <2> QED BY <2>1, <2>2, <2>3, <2>4, <2>5, <2>6 DEF Next
<1> QED BY <1>1, <1>2, TypeCorrect, PTL DEF Spec

-----------------------------------------------------------------------------

(***************************************************************************)
(* What the half-done transitions mean: whoever is between the two stores  *)
(* holds mu_, and the state is the one its first store left.               *)
(***************************************************************************)
MuInv ==
  \A t \in Task :
    /\ pc[t] \in HoldsMu => mu = t
    /\ pc[t] = "tripping" => state = "Open"
    /\ pc[t] = "resetting" => state = "Closed"

LEMMA MuInvariant == Spec => []MuInv
<1>1. Init => MuInv
  BY DEF Init, MuInv, HoldsMu
<1>2. TypeOK /\ MuInv /\ [Next]_vars => MuInv'
  <2> SUFFICES ASSUME TypeOK, MuInv, [Next]_vars
               PROVE  MuInv'
    OBVIOUS
  <2> USE DEF TypeOK, MuInv, HoldsMu, Goto
  <2>1. ASSUME NEW t \in Task, Decide(t)
        PROVE  MuInv'
    <3>1. CASE AllowRequest(t)
      BY <3>1 DEF AllowRequest, State
    <3>2. CASE ClaimProbe(t)
      BY <3>2 DEF ClaimProbe, TryClaimProbe
    <3>3. CASE AllowLocked(t)
      BY <3>3 DEF AllowLocked, TryClaimProbe
    <3>4. CASE OpenProbe(t)
      BY <3>4 DEF OpenProbe
    <3> QED BY <2>1, <3>1, <3>2, <3>3, <3>4 DEF Decide
  <2>2. ASSUME NEW t \in Task, Finish(t)
        PROVE  MuInv'
    BY <2>2 DEF Finish, RecordSuccess, Fail, LeaveUnrecorded, State
  <2>3. ASSUME NEW t \in Task, Record(t)
        PROVE  MuInv'
    <3>1. CASE ClearFailures(t)
      BY <3>1 DEF ClearFailures
    <3>2. CASE CloseIfHalfOpen(t)
      BY <3>2 DEF CloseIfHalfOpen, Reset
    <3>3. CASE ReleaseProbe(t)
      BY <3>3 DEF ReleaseProbe
    <3>4. CASE RecordFailure(t)
      BY <3>4 DEF RecordFailure, Trip
    <3> QED BY <2>3, <3>1, <3>2, <3>3, <3>4 DEF Record
  <2>4. Tick \/ UNCHANGED vars => MuInv'
    BY DEF Tick, vars
  <2> QED BY <2>1, <2>2, <2>3, <2>4 DEF Next
<1> QED BY <1>1, <1>2, TypeCorrect, PTL DEF Spec

(***************************************************************************)
(* The budget behind FewRequestsPerTrip: how much of it is left depends on *)
(* probe_in_flight_, which a claim must find clear, and on whether Trip    *)
(* still has to clear it.                                                  *)
(***************************************************************************)
Budget(n) == through <= n /\ (through = n => probe_in_flight)

BudgetInv ==
  /\ \A t \in Task : pc[t] = "tripping" => Budget(1)
  /\ state = "Open" => Budget(2)
  /\ state = "HalfOpen" => Budget(3)

LEMMA BudgetInvariant == Spec => []BudgetInv
<1>1. Init => BudgetInv
  BY DEF Init, BudgetInv
<1>2. TypeOK /\ MuInv /\ BudgetInv /\ [Next]_vars => BudgetInv'
  <2> SUFFICES ASSUME TypeOK, MuInv, BudgetInv, [Next]_vars
               PROVE  BudgetInv'
    OBVIOUS
  <2>0. through \in Nat
    BY DEF TypeOK, ThroughCap
  <2> USE <2>0 DEF BudgetInv, Budget
  <2>1. ASSUME NEW t \in Task, TryClaimProbe(t), pc[t] \in {"claiming", "locking"},
               UNCHANGED state
        PROVE  BudgetInv'
    <3>1. CASE probe_in_flight
      BY <2>1, <3>1 DEF TryClaimProbe, Goto, TypeOK
    <3>2. CASE ~probe_in_flight
      <4>1. /\ \A s \in Task : pc[s] = "tripping" => through = 0
            /\ state = "Open" => through <= 1
            /\ state = "HalfOpen" => through <= 2
        BY <3>2
      <4>2. /\ probe_in_flight'
            /\ through' \in Nat
            /\ through' <= through + 1
        BY <2>1, <3>2 DEF TryClaimProbe, CountThrough, Saturate, ThroughCap
      <4>3. \A s \in Task : pc'[s] = "tripping" => pc[s] = "tripping"
        BY <2>1, <3>2 DEF TryClaimProbe, Goto, TypeOK
      <4> QED BY <2>1, <4>1, <4>2, <4>3
    <3> QED BY <3>1, <3>2
  <2>2. ASSUME NEW t \in Task, Decide(t)
        PROVE  BudgetInv'
    <3>1. CASE AllowRequest(t)
      BY <3>1 DEF AllowRequest, Goto, TypeOK, State
    <3>2. CASE ClaimProbe(t)
      BY <3>2, <2>1 DEF ClaimProbe
    <3>3. CASE AllowLocked(t)
      <4>1. CASE TryClaimProbe(t) /\ UNCHANGED state
        BY <3>3, <4>1, <2>1 DEF AllowLocked
      <4>2. CASE Goto(t, "idle") /\ UNCHANGED <<state, probe_in_flight, through>>
        BY <3>3, <4>2 DEF Goto, TypeOK
      <4>3. CASE /\ state = "Open"
                 /\ mu = NoTask
                 /\ state' = "HalfOpen"
                 /\ CountThrough
                 /\ Goto(t, "opening")
                 /\ UNCHANGED probe_in_flight
        <5>1. Budget(3)'
          BY <4>3 DEF CountThrough, Saturate, ThroughCap
        <5>2. \A s \in Task : pc'[s] # "tripping"
          BY <4>3 DEF Goto, TypeOK, MuInv, HoldsMu
        <5> QED BY <4>3, <5>1, <5>2
      <4> QED BY <3>3, <4>1, <4>2, <4>3 DEF AllowLocked
    <3>4. CASE OpenProbe(t)
      BY <3>4 DEF OpenProbe, Goto, TypeOK
    <3> QED BY <2>2, <3>1, <3>2, <3>3, <3>4 DEF Decide
  <2>3. ASSUME NEW t \in Task, Finish(t)
        PROVE  BudgetInv'
    BY <2>3 DEF Finish, RecordSuccess, Fail, LeaveUnrecorded, Goto, TypeOK, State
  <2>4. ASSUME NEW t \in Task, Record(t)
        PROVE  BudgetInv'
    <3>1. CASE ClearFailures(t)
      BY <3>1 DEF ClearFailures, Goto, TypeOK
    <3>2. CASE CloseIfHalfOpen(t)
      BY <3>2 DEF CloseIfHalfOpen, Reset, Goto, TypeOK
    <3>3. CASE ReleaseProbe(t)
      <4>1. \A s \in Task : pc'[s] # "tripping"
        BY <3>3 DEF ReleaseProbe, Goto, TypeOK, MuInv, HoldsMu
      <4>2. state' = "Open" => through' <= 1
        BY <3>3 DEF ReleaseProbe, MuInv
      <4>3. state' # "HalfOpen"
        BY <3>3 DEF ReleaseProbe, MuInv
      <4> QED BY <2>0, <4>1, <4>2, <4>3, <3>3 DEF ReleaseProbe
    <3>4. CASE RecordFailure(t)
      BY <3>4 DEF RecordFailure, Trip, Goto, TypeOK
    <3> QED BY <2>4, <3>1, <3>2, <3>3, <3>4 DEF Record
  <2>5. Tick \/ UNCHANGED vars => BudgetInv'
    BY DEF Tick, vars
  <2> QED BY <2>2, <2>3, <2>4, <2>5 DEF Next
<1> QED BY <1>1, <1>2, TypeCorrect, MuInvariant, PTL DEF Spec

(***************************************************************************)
(* Between a trip and the next reset or trip the upstream sees at most     *)
(* three requests, whatever the number of callers.                         *)
(***************************************************************************)
THEOREM FewRequestsPerTripHolds == Spec => []FewRequestsPerTrip
<1>1. TypeOK /\ BudgetInv => FewRequestsPerTrip
  BY DEF TypeOK, BudgetInv, Budget, FewRequestsPerTrip, State, ThroughCap
<1> QED BY <1>1, TypeCorrect, BudgetInvariant, PTL

(***************************************************************************)
(* A late success never closes an open breaker (CloseIfHalfOpen reads the  *)
(* state again under mu_).                                                 *)
(***************************************************************************)
THEOREM OpenClosesViaHalfOpenHolds == Spec => OpenClosesViaHalfOpen
<1>1. TypeOK /\ [Next]_vars => [state = "Open" => state' \in {"Open", "HalfOpen"}]_state
  <2> SUFFICES ASSUME TypeOK, [Next]_vars, state = "Open"
               PROVE  state' \in {"Open", "HalfOpen"}
    OBVIOUS
  <2>1. ASSUME NEW t \in Task, Decide(t)
        PROVE  state' \in {"Open", "HalfOpen"}
    BY <2>1 DEF Decide, AllowRequest, ClaimProbe, AllowLocked, OpenProbe
  <2>2. ASSUME NEW t \in Task, Finish(t) \/ Record(t)
        PROVE  state' = "Open"
    BY <2>2 DEF Finish, RecordSuccess, Fail, LeaveUnrecorded,
                Record, ClearFailures, CloseIfHalfOpen, ReleaseProbe, RecordFailure
  <2> QED BY <2>1, <2>2 DEF Next, Tick, vars
<1> QED BY <1>1, TypeCorrect, PTL DEF Spec, OpenClosesViaHalfOpen

(***************************************************************************)
(* A half-open breaker is owned by the request that opened it, unless that *)
(* request left unrecorded (LeaveUnrecorded is the one step that ends a    *)
(* request and says nothing).                                              *)
(***************************************************************************)
THEOREM HalfOpenIsOwnedHolds == Spec => []HalfOpenIsOwned
<1>1. Init => HalfOpenIsOwned
  BY DEF Init, HalfOpenIsOwned
<1>2. TypeOK /\ HalfOpenIsOwned /\ [Next]_vars => HalfOpenIsOwned'
  <2> SUFFICES ASSUME TypeOK, HalfOpenIsOwned, [Next]_vars
               PROVE  HalfOpenIsOwned'
    OBVIOUS
  <2> USE DEF TypeOK, HalfOpenIsOwned, Goto
  <2>1. ASSUME NEW t \in Task, Decide(t)
        PROVE  HalfOpenIsOwned'
    BY <2>1 DEF Decide, AllowRequest, ClaimProbe, TryClaimProbe, AllowLocked, OpenProbe
  <2>2. ASSUME NEW t \in Task, Finish(t)
        PROVE  HalfOpenIsOwned'
    BY <2>2 DEF Finish, RecordSuccess, Fail, LeaveUnrecorded
  <2>3. ASSUME NEW t \in Task, Record(t)
        PROVE  HalfOpenIsOwned'
    BY <2>3 DEF Record, ClearFailures, CloseIfHalfOpen, Reset, ReleaseProbe,
                RecordFailure, Trip
  <2>4. Tick \/ UNCHANGED vars => HalfOpenIsOwned'
    BY DEF Tick, vars
  <2> QED BY <2>1, <2>2, <2>3, <2>4 DEF Next
<1> QED BY <1>1, <1>2, TypeCorrect, PTL DEF Spec

=============================================================================

--------------------------- MODULE CircuitBreaker ---------------------------
(***************************************************************************)
(* six_feat::CircuitBreaker (libs/six-feat-core/src/resilience.cpp), the   *)
(* breaker that stands in front of every request to Genius.                *)
(*                                                                         *)
(* The code keeps `state_' and `probe_in_flight_' in two atomics that      *)
(* AllowRequest and RecordSuccess read WITHOUT the mutex, and writes them  *)
(* under `mu_' in two separate stores.  The model has one step per atomic  *)
(* access, so every interleaving of callers with a half-done Trip, Reset   *)
(* or Open -> HalfOpen transition is explored.  Accesses are interleaved   *)
(* sequentially; the acquire/release orders of the code add no behaviour   *)
(* on one variable, and none of the operations reads both atomics twice.   *)
(***************************************************************************)
EXTENDS Naturals, FiniteSets

CONSTANTS
  Task,              \* coroutines that call the breaker
  NoTask,            \* "the mutex is free", "nobody opened the half-open period"
  FailureThreshold,  \* failure_threshold_ (cb-failure-threshold, default 5)
  OpenDuration,      \* open_duration_ in clock ticks (cb-open-seconds, default 30)
  Outcomes           \* how an admitted request may end, see Outcome

(***************************************************************************)
(* "success"    RecordSuccess is called (2xx)                              *)
(* "failure"    RecordFailure is called (5xx or a network error)           *)
(* "unrecorded" neither is called: 429 and 4xx answers, a cancelled task,  *)
(*              an exhausted deadline                                      *)
(***************************************************************************)
Outcome == {"success", "failure", "unrecorded"}

ASSUME BreakerAssumption ==
  /\ NoTask \notin Task
  /\ FailureThreshold \in Nat \ {0}
  /\ OpenDuration \in Nat
  /\ Outcomes \subseteq Outcome

VARIABLES
  state,                 \* state_
  probe_in_flight,       \* probe_in_flight_
  consecutive_failures,  \* consecutive_failures_, saturated at the threshold
  trip_age,              \* now - trip_time_, saturated at OpenDuration
  mu,                    \* the task that holds mu_, between two steps
  pc,                    \* where each task is in the breaker's code
  opener,                \* history: the task that made the last Open -> HalfOpen,
                         \* unless it left unrecorded
  through                \* history: requests let through since the last trip

vars == <<state, probe_in_flight, consecutive_failures, trip_age, mu, pc,
          opener, through>>

State == {"Closed", "Open", "HalfOpen"}

PC == {"idle",      \* outside the breaker, no request running
       "locking",   \* AllowRequest read Open, is about to lock mu_
       "claiming",  \* AllowRequest read HalfOpen, is about to try the claim
       "opening",   \* holds mu_, stored HalfOpen, not yet probe_in_flight_
       "admitted",  \* AllowRequest returned true, the request is running
       "clearing",  \* RecordSuccess read Closed, is about to lock mu_
       "closing",   \* RecordSuccess read HalfOpen, is about to lock mu_
       "resetting", \* holds mu_, Reset stored Closed, not yet probe_in_flight_
       "failing",   \* RecordFailure is about to lock mu_
       "tripping"}  \* holds mu_, Trip stored Open, not yet probe_in_flight_

HoldsMu == {"opening", "resetting", "tripping"}

(***************************************************************************)
(* The bound on the two counters the code only compares with a threshold.  *)
(***************************************************************************)
Saturate(n, bound) == IF n >= bound THEN bound ELSE n

(***************************************************************************)
(* Requests the history counter tells apart.  More than this is "many".    *)
(***************************************************************************)
ThroughCap == 5

Init ==
  /\ state = "Closed"
  /\ probe_in_flight = FALSE
  /\ consecutive_failures = 0
  /\ trip_age = 0
  /\ mu = NoTask
  /\ pc = [t \in Task |-> "idle"]
  /\ opener = NoTask
  /\ through = 0

Goto(t, label) == pc' = [pc EXCEPT ![t] = label]

CountThrough == through' = Saturate(through + 1, ThroughCap)

-----------------------------------------------------------------------------
(* AllowRequest *)

(***************************************************************************)
(* The unlocked read that every request starts with.  Closed admits.       *)
(***************************************************************************)
AllowRequest(t) ==
  /\ pc[t] = "idle"
  /\ Goto(t, CASE state = "Closed"   -> "admitted"
               [] state = "HalfOpen" -> "claiming"
               [] state = "Open"     -> "locking")
  /\ UNCHANGED <<state, probe_in_flight, consecutive_failures, trip_age, mu,
                 opener, through>>

\* Mutant: a load and a store instead of the compare-exchange.
ClaimWithoutExchange(t) ==
  Goto(t, "admitted") /\ probe_in_flight' = TRUE /\ CountThrough

TryClaimProbe(t) ==
  IF probe_in_flight
  THEN Goto(t, "idle") /\ UNCHANGED <<probe_in_flight, through>>
  ELSE Goto(t, "admitted") /\ probe_in_flight' = TRUE /\ CountThrough

(***************************************************************************)
(* The claim after the unlocked read: the state read may be long gone.     *)
(***************************************************************************)
ClaimProbe(t) ==
  /\ pc[t] = "claiming"
  /\ TryClaimProbe(t)
  /\ UNCHANGED <<state, consecutive_failures, trip_age, mu, opener>>

(***************************************************************************)
(* The slow path under mu_.  The caller that finds the open period over    *)
(* becomes the probe; it stores HalfOpen first.                            *)
(***************************************************************************)
AllowLocked(t) ==
  /\ pc[t] = "locking"
  /\ mu = NoTask
  /\ \/ /\ state = "HalfOpen"
        /\ TryClaimProbe(t)
        /\ UNCHANGED <<state, mu, opener>>
     \/ /\ state = "Closed" \/ (state = "Open" /\ trip_age < OpenDuration)
        /\ Goto(t, "idle")
        /\ UNCHANGED <<state, probe_in_flight, mu, opener, through>>
     \/ /\ state = "Open" /\ trip_age >= OpenDuration
        /\ state' = "HalfOpen"
        /\ mu' = t
        /\ opener' = t
        /\ CountThrough
        /\ Goto(t, "opening")
        /\ UNCHANGED probe_in_flight
  /\ UNCHANGED <<consecutive_failures, trip_age>>

OpenProbe(t) ==
  /\ pc[t] = "opening"
  /\ probe_in_flight' = TRUE
  /\ mu' = NoTask
  /\ Goto(t, "admitted")
  /\ UNCHANGED <<state, consecutive_failures, trip_age, opener, through>>

-----------------------------------------------------------------------------
(* The end of an admitted request *)

(***************************************************************************)
(* RecordSuccess: an unlocked read decides what is done under mu_; Open    *)
(* does nothing.                                                           *)
(***************************************************************************)
RecordSuccess(t) ==
  /\ "success" \in Outcomes
  /\ pc[t] = "admitted"
  /\ Goto(t, CASE state = "Closed"   -> "clearing"
               [] state = "HalfOpen" -> "closing"
               [] state = "Open"     -> "idle")
  /\ UNCHANGED <<state, probe_in_flight, consecutive_failures, trip_age, mu,
                 opener, through>>

ClearFailures(t) ==
  /\ pc[t] = "clearing"
  /\ mu = NoTask
  /\ consecutive_failures' = 0
  /\ Goto(t, "idle")
  /\ UNCHANGED <<state, probe_in_flight, trip_age, mu, opener, through>>

Reset(t) ==
  /\ consecutive_failures' = 0
  /\ state' = "Closed"
  /\ mu' = t
  /\ Goto(t, "resetting")

CloseIfHalfOpen(t) ==
  /\ pc[t] = "closing"
  /\ mu = NoTask
  /\ IF state = "HalfOpen"
     THEN Reset(t)
     ELSE Goto(t, "idle") /\ UNCHANGED <<state, consecutive_failures, mu>>
  /\ UNCHANGED <<probe_in_flight, trip_age, opener, through>>

(***************************************************************************)
(* Reset and Trip end alike: the second store, then mu_ is released.       *)
(***************************************************************************)
ReleaseProbe(t) ==
  /\ pc[t] \in {"resetting", "tripping"}
  /\ probe_in_flight' = FALSE
  /\ mu' = NoTask
  /\ Goto(t, "idle")
  /\ UNCHANGED <<state, consecutive_failures, trip_age, opener, through>>

Trip(t) ==
  /\ trip_age' = 0
  /\ state' = "Open"
  /\ mu' = t
  /\ through' = 0
  /\ Goto(t, "tripping")

Fail(t) ==
  /\ "failure" \in Outcomes
  /\ pc[t] = "admitted"
  /\ Goto(t, "failing")
  /\ UNCHANGED <<state, probe_in_flight, consecutive_failures, trip_age, mu,
                 opener, through>>

\* Mutant: the failed probe is only counted.
FailureIgnoresHalfOpen(t) ==
  /\ pc[t] = "failing"
  /\ mu = NoTask
  /\ consecutive_failures' = Saturate(consecutive_failures + 1, FailureThreshold)
  /\ IF state = "Closed" /\ consecutive_failures' >= FailureThreshold
     THEN Trip(t)
     ELSE Goto(t, "idle") /\ UNCHANGED <<state, trip_age, mu, through>>
  /\ UNCHANGED <<probe_in_flight, opener>>

RecordFailure(t) ==
  /\ pc[t] = "failing"
  /\ mu = NoTask
  /\ consecutive_failures' = Saturate(consecutive_failures + 1, FailureThreshold)
  /\ IF \/ state = "HalfOpen"
        \/ state = "Closed" /\ consecutive_failures' >= FailureThreshold
     THEN Trip(t)
     ELSE Goto(t, "idle") /\ UNCHANGED <<state, trip_age, mu, through>>
  /\ UNCHANGED <<probe_in_flight, opener>>

(***************************************************************************)
(* The request ends and the breaker is not told.                           *)
(***************************************************************************)
LeaveUnrecorded(t) ==
  /\ "unrecorded" \in Outcomes
  /\ pc[t] = "admitted"
  /\ Goto(t, "idle")
  /\ opener' = IF opener = t THEN NoTask ELSE opener
  /\ UNCHANGED <<state, probe_in_flight, consecutive_failures, trip_age, mu,
                 through>>

(***************************************************************************)
(* One tick of steady_clock, as far as the breaker can tell.               *)
(***************************************************************************)
Tick ==
  /\ state = "Open"
  /\ trip_age < OpenDuration
  /\ trip_age' = trip_age + 1
  /\ UNCHANGED <<state, probe_in_flight, consecutive_failures, mu, pc, opener,
                 through>>

-----------------------------------------------------------------------------

Decide(t) == AllowRequest(t) \/ ClaimProbe(t) \/ AllowLocked(t) \/ OpenProbe(t)

Finish(t) == RecordSuccess(t) \/ Fail(t) \/ LeaveUnrecorded(t)

Record(t) == ClearFailures(t) \/ CloseIfHalfOpen(t) \/ ReleaseProbe(t) \/ RecordFailure(t)

Next == Tick \/ \E t \in Task : Decide(t) \/ Finish(t) \/ Record(t)

Spec == Init /\ [][Next]_vars

(***************************************************************************)
(* Requests keep coming, every request ends (the HTTP timeout is 5 s),     *)
(* code that holds or wants mu_ runs on, and time passes.                  *)
(***************************************************************************)
FairSpec ==
  /\ Spec
  /\ WF_vars(Tick)
  /\ \A t \in Task : WF_vars(Decide(t)) /\ WF_vars(Finish(t)) /\ WF_vars(Record(t))

-----------------------------------------------------------------------------
(* Properties *)

TypeOK ==
  /\ state \in State
  /\ probe_in_flight \in BOOLEAN
  /\ consecutive_failures \in 0..FailureThreshold
  /\ trip_age \in 0..OpenDuration
  /\ mu \in Task \cup {NoTask}
  /\ pc \in [Task -> PC]
  /\ opener \in Task \cup {NoTask}
  /\ through \in 0..ThroughCap

(***************************************************************************)
(* A closed breaker has seen fewer than failure_threshold_ failures since  *)
(* the last success it counted: no interleaving of late failures, stale    *)
(* successes and resets leaves it closed with a spent budget               *)
(* (RecordFailure, RecordSuccess, Reset).                                  *)
(***************************************************************************)
ClosedBelowThreshold ==
  state = "Closed" => consecutive_failures < FailureThreshold

(***************************************************************************)
(* A half-open breaker is being decided: the request that opened the       *)
(* half-open period, unless it left without recording an outcome, is still *)
(* running or is about to record it.  RecordSuccess and RecordFailure are  *)
(* the only ways out of HalfOpen, whatever stale claims and late results   *)
(* come in between.                                                        *)
(***************************************************************************)
HalfOpenIsOwned ==
  state = "HalfOpen" /\ opener # NoTask =>
    pc[opener] \in {"opening", "admitted", "closing", "failing"}

(***************************************************************************)
(* An open breaker is closed only by way of HalfOpen: the late success of  *)
(* a request sent before the trip does not close it, although              *)
(* RecordSuccess may have read HalfOpen before the trip.                   *)
(***************************************************************************)
OpenClosesViaHalfOpen == [][state = "Open" => state' \in {"Open", "HalfOpen"}]_state

(***************************************************************************)
(* From a trip to the next trip or reset the failing upstream sees at most *)
(* three requests: the probe that opens the half-open period, one caller   *)
(* whose read of HalfOpen was stale when Trip cleared probe_in_flight_,    *)
(* and one that claimed it after.  The two stores of Trip and of           *)
(* AllowRequest are what makes it more than the one probe intended.        *)
(***************************************************************************)
FewRequestsPerTrip == state # "Closed" => through <= 3

(***************************************************************************)
(* The half-open state is transient as long as its probe reports: it       *)
(* closes or re-opens the breaker.                                         *)
(***************************************************************************)
HalfOpenIsDecidedIfRecorded ==
  state = "HalfOpen" /\ opener # NoTask ~> state # "HalfOpen" \/ opener = NoTask

(***************************************************************************)
(* The half-open state is transient: the breaker recovers or opens again   *)
(* (the documented recovery time of 30 s).                                 *)
(***************************************************************************)
HalfOpenIsDecided == state = "HalfOpen" ~> state # "HalfOpen"

=============================================================================

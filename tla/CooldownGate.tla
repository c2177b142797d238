---------------------------- MODULE CooldownGate ----------------------------
(***************************************************************************)
(* six_feat::CooldownGate (libs/six-feat-core/src/resilience.cpp): the     *)
(* gate every request to Genius waits at after Genius answered 429.        *)
(*                                                                         *)
(* A waiter keeps the deadline it saw and sleeps on `cv_' until that       *)
(* deadline, a wake-up that finds the gate changed, or the cancellation of *)
(* its task, which userver reports by ending the wait early; the code does *)
(* not look at which of the three it was.  Activate notifies nobody.  One  *)
(* step is one critical section of `mu_'; NotifyAll is a step of its own,  *)
(* after the lock was given back.                                          *)
(***************************************************************************)
EXTENDS Naturals

CONSTANTS
  Caller,       \* coroutines that pass the gate
  Cooldown,     \* lengths a 429 may ask for, in ticks
  Horizon,      \* bound: no 429 after this instant
  Spurious      \* TRUE if cv_ may wake a task that nobody notified

ASSUME GateAssumption ==
  /\ Cooldown \subseteq Nat
  /\ Horizon \in Nat
  /\ Spurious \in BOOLEAN

VARIABLES
  now,        \* steady_clock
  active,     \* active_
  deadline,   \* deadline_
  gate,       \* where each task is
  seen,       \* the deadline a task captured when it began to wait
  notified,   \* waiters woken by NotifyAll that have not run yet
  cancelled,  \* tasks that were cancelled
  calm,       \* history: no waiting task has been cancelled so far
  paused      \* history: the latest instant a 429 asked to pause until

gateVars == <<now, active, deadline, gate, seen, notified, cancelled, calm, paused>>

Place == {"outside", "waiting", "notifying", "through"}

Waiting == {t \in Caller : gate[t] = "waiting"}

GateInit ==
  /\ now = 0
  /\ active = FALSE
  /\ deadline = 0
  /\ gate = [t \in Caller |-> "outside"]
  /\ seen = [t \in Caller |-> 0]
  /\ notified = {}
  /\ cancelled = {}
  /\ calm = TRUE
  /\ paused = 0

(***************************************************************************)
(* A 429 asks for a pause of c ticks; a deadline already later is kept.    *)
(***************************************************************************)
Activate(c) ==
  /\ now <= Horizon
  /\ IF active /\ deadline >= now + c
     THEN UNCHANGED <<active, deadline>>
     ELSE active' = TRUE /\ deadline' = now + c
  /\ paused' = IF paused >= now + c THEN paused ELSE now + c
  /\ UNCHANGED <<now, gate, seen, notified, cancelled, calm>>

(***************************************************************************)
(* WaitForCooldown up to the wait.  The wait does not begin when its       *)
(* deadline has passed: that is a Leave right after.                       *)
(***************************************************************************)
Enter(t) ==
  /\ gate[t] = "outside"
  /\ IF active
     THEN /\ gate' = [gate EXCEPT ![t] = "waiting"]
          /\ seen' = [seen EXCEPT ![t] = deadline]
     ELSE /\ gate' = [gate EXCEPT ![t] = "through"]
          /\ UNCHANGED seen
  /\ UNCHANGED <<now, active, deadline, notified, cancelled, calm, paused>>

(***************************************************************************)
(* The wait ended.  The waiter whose deadline is still the gate's opens    *)
(* it for everyone, on the assumption that the deadline has passed, and    *)
(* gives the lock back before it notifies.                                 *)
(***************************************************************************)
Open(t) ==
  /\ active' = FALSE
  /\ gate' = [gate EXCEPT ![t] = "notifying"]

\* Mutant: any waiter whose wait ended opens the gate.
LeaveOpening(t) ==
  /\ Open(t)
  /\ notified' = notified \ {t}
  /\ UNCHANGED <<now, deadline, seen, cancelled, calm, paused>>

Leave(t) ==
  /\ IF active /\ deadline = seen[t]
     THEN Open(t)
     ELSE UNCHANGED active /\ gate' = [gate EXCEPT ![t] = "through"]
  /\ notified' = notified \ {t}
  /\ UNCHANGED <<now, deadline, seen, cancelled, calm, paused>>

(***************************************************************************)
(* Whoever waits now is woken, also those that came after the gate opened. *)
(***************************************************************************)
NotifyAll(t) ==
  /\ gate[t] = "notifying"
  /\ gate' = [gate EXCEPT ![t] = "through"]
  /\ notified' = Waiting
  /\ UNCHANGED <<now, active, deadline, seen, cancelled, calm, paused>>

(***************************************************************************)
(* The predicate of the wait.                                              *)
(***************************************************************************)
Changed(t) == ~active \/ deadline # seen[t]

\* Mutant: a wait that timed out goes back to sleep unless the gate changed.
TimeoutNeedsChange(t) ==
  /\ gate[t] = "waiting"
  /\ now >= seen[t]
  /\ Changed(t)
  /\ Leave(t)

WakeOnTimeout(t) ==
  /\ gate[t] = "waiting"
  /\ now >= seen[t]
  /\ Leave(t)

WakeOnNotify(t) ==
  /\ gate[t] = "waiting"
  /\ t \in notified \/ (Spurious /\ Changed(t))
  /\ IF Changed(t)
     THEN Leave(t)
     ELSE /\ notified' = notified \ {t}
          /\ UNCHANGED <<now, active, deadline, gate, seen, cancelled, calm, paused>>

WakeOnCancel(t) ==
  /\ gate[t] = "waiting"
  /\ t \in cancelled
  /\ Leave(t)

Cancel(t) ==
  /\ gate[t] = "waiting"
  /\ cancelled' = cancelled \cup {t}
  /\ calm' = FALSE
  /\ UNCHANGED <<now, active, deadline, gate, seen, notified, paused>>

(***************************************************************************)
(* The request behind the gate is over and its coroutine serves another.   *)
(***************************************************************************)
Return(t) ==
  /\ gate[t] = "through"
  /\ gate' = [gate EXCEPT ![t] = "outside"]
  /\ cancelled' = cancelled \ {t}
  /\ UNCHANGED <<now, active, deadline, seen, notified, calm, paused>>

(***************************************************************************)
(* The clock runs until every cooldown asked for is over.                  *)
(***************************************************************************)
GateTick ==
  /\ now <= Horizon \/ now < paused
  /\ now' = now + 1
  /\ UNCHANGED <<active, deadline, gate, seen, notified, cancelled, calm, paused>>

Wake(t) == WakeOnTimeout(t) \/ WakeOnNotify(t) \/ WakeOnCancel(t) \/ NotifyAll(t)

GateNext ==
  \/ GateTick
  \/ \E c \in Cooldown : Activate(c)
  \/ \E t \in Caller : Enter(t) \/ Wake(t) \/ Cancel(t) \/ Return(t)

GateSpec == GateInit /\ [][GateNext]_gateVars

(***************************************************************************)
(* Time passes and a runnable coroutine runs.                              *)
(***************************************************************************)
GateFairSpec == GateSpec /\ WF_gateVars(GateTick) /\ \A t \in Caller : WF_gateVars(Wake(t))

-----------------------------------------------------------------------------
(* Properties *)

GateTypeOK ==
  /\ now \in Nat
  /\ active \in BOOLEAN
  /\ deadline \in Nat
  /\ gate \in [Caller -> Place]
  /\ seen \in [Caller -> Nat]
  /\ notified \subseteq Waiting
  /\ cancelled \subseteq Caller
  /\ calm \in BOOLEAN
  /\ paused \in Nat

(***************************************************************************)
(* As long as nobody is cancelled, a task that found the gate closed stays *)
(* until the deadline it saw or one that has replaced it: a gate opened by *)
(* others does not let it out early, and who leaves early leaves the gate  *)
(* closed for those to come (WaitForCooldown, Activate).                   *)
(***************************************************************************)
WaitsItsDeadline ==
  [][calm => \A t \in Caller :
       gate[t] = "waiting" /\ gate'[t] # "waiting" =>
         now >= seen[t] \/ (active' /\ deadline > seen[t])]_gateVars

(***************************************************************************)
(* A gate that opens before its deadline was opened by a cancelled waiter: *)
(* an extension that comes while waiters sleep is not undone by their old  *)
(* deadlines.                                                              *)
(***************************************************************************)
OpensOnTimeUnlessCancelled ==
  [][active /\ ~active' =>
       \/ now >= deadline
       \/ \E t \in cancelled : gate[t] = "waiting" /\ gate'[t] = "notifying"]_gateVars

(***************************************************************************)
(* Nobody sleeps on: every waiter leaves, although Activate moves the      *)
(* deadline without a notification and only one waiter opens the gate.     *)
(***************************************************************************)
WaitersLeave == \A t \in Caller : gate[t] = "waiting" ~> gate[t] = "through"

(***************************************************************************)
(* Requests are paused for as long as Genius asked: nobody passes the gate *)
(* before the latest cooldown is over.                                     *)
(***************************************************************************)
PausedForCooldown ==
  [][\A t \in Caller \ cancelled :
       gate[t] # "through" /\ gate'[t] = "through" => now >= paused]_gateVars

=============================================================================

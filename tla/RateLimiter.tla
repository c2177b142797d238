---------------------------- MODULE RateLimiter ----------------------------
(***************************************************************************)
(* six_feat::RateLimiter (libs/six-feat-core/src/resilience.cpp): the slot *)
(* counter that holds requests back when Genius reports that few remain in *)
(* its rate-limit window, together with that window on Genius's side.      *)
(*                                                                         *)
(* A waiter is taken to run as soon as its predicate holds: every raise of *)
(* the counter is followed by a notification (Update notifies all when it  *)
(* raises, ReleaseSlot notifies one), so no wake-up is lost.               *)
(*                                                                         *)
(* A fault is an answer without X-RateLimit-Remaining, a request or answer *)
(* that is lost, or a task cancelled while it waits for a slot.            *)
(***************************************************************************)
EXTENDS Integers, FiniteSets

CONSTANTS
  Task,          \* requests that may run at once
  Quota,         \* requests Genius admits per window
  kMinRemaining, \* the margin AcquireSlot leaves (2 in the code)
  MaxFaults      \* bound of the model

ASSUME LimiterAssumption ==
  IsFiniteSet(Task) /\ Quota \in Nat /\ kMinRemaining \in Nat /\ MaxFaults \in Nat

VARIABLES
  available_slots,  \* available_slots_; negative means unknown
  pc,               \* where each request is
  quota,            \* requests left in Genius's window
  reply,            \* X-RateLimit-Remaining of the answer on its way, or -1
  faults,           \* how many faults there were
  later,            \* history: [Task -> requests of this window counted after its answer]
  unseen,           \* history: requests and slots the counter knows nothing of
  sure              \* history: unseen was within the margin when the last request went

vars == <<available_slots, pc, quota, reply, faults, later, unseen, sure>>

PC == {"idle",      \* no request
       "checked",   \* AcquireSlot saw a known counter, WaitAndDecrement is next
       "sent",      \* the request is on its way to Genius
       "answered",  \* Genius counted it, the answer is on its way
       "refused",   \* Genius's window was empty: a 429 is on its way
       "updated",   \* OnResponse has called Update, ReleaseSlot is next
       "dropped"}   \* cancelled before it was sent

Unknown == -1

(***************************************************************************)
(* The gateway starts with an unknown counter in a window that others, or  *)
(* the process before it, may have used up.                                *)
(***************************************************************************)
InitWith(left) ==
  /\ available_slots = Unknown
  /\ pc = [t \in Task |-> "idle"]
  /\ quota = left
  /\ reply = [t \in Task |-> Unknown]
  /\ faults = 0
  /\ later = [t \in Task |-> 0] /\ unseen = 0 /\ sure = TRUE

Init == \E left \in 0..Quota : InitWith(left)

Goto(t, label) == pc' = [pc EXCEPT ![t] = label]

Fault == faults < MaxFaults /\ faults' = faults + 1

OnTheWire == {t \in Task : pc[t] = "sent"}

\* History: a request is sent.
Sending == sure' = (available_slots >= 0 /\ unseen <= kMinRemaining)

-----------------------------------------------------------------------------
(* RateLimiter *)

(***************************************************************************)
(* ReleaseSlot gives a slot back, unless the counter is unknown; an Update *)
(* in between may have counted that slot already.                          *)
(***************************************************************************)
ReleaseSlot ==
  IF available_slots < 0
  THEN UNCHANGED <<available_slots, unseen>>
  ELSE available_slots' = available_slots + 1 /\ unseen' = unseen + 1

(***************************************************************************)
(* Update overwrites the counter when the answer reports a number: what    *)
(* was sent or counted after it was written goes unseen.                   *)
(***************************************************************************)
Update(t) ==
  IF reply[t] >= 0
  THEN available_slots' = reply[t] /\ unseen' = Cardinality(OnTheWire) + later[t]
  ELSE UNCHANGED <<available_slots, unseen>>

(***************************************************************************)
(* AcquireSlot, first critical section.                                    *)
(***************************************************************************)
AcquireSlot(t) ==
  /\ pc[t] = "idle"
  /\ IF available_slots < 0
     THEN Goto(t, "sent") /\ Sending
     ELSE Goto(t, "checked") /\ UNCHANGED sure
  /\ UNCHANGED <<available_slots, quota, reply, faults, later, unseen>>

(***************************************************************************)
(* WaitAndDecrement; the counter may have become unknown in between.       *)
(***************************************************************************)
\* Mutant: slots are given out to the last one.
HasSlotAboveZero(n) == n < 0 \/ n > 0

HasSlot(n) == n < 0 \/ n > kMinRemaining

Taken(n) == IF n < 0 THEN n ELSE n - 1

WaitAndDecrement(t) ==
  /\ pc[t] = "checked"
  /\ HasSlot(available_slots)
  /\ available_slots' = Taken(available_slots)
  /\ Goto(t, "sent") /\ Sending
  /\ UNCHANGED <<quota, reply, faults, later, unseen>>

(***************************************************************************)
(* A cancelled wait returns without its predicate, and the code decrements *)
(* all the same: from 0 the counter becomes "unknown".                     *)
(***************************************************************************)
CancelledWait(t) ==
  /\ pc[t] = "checked" /\ Fault
  /\ available_slots' = Taken(available_slots)
  /\ Goto(t, "dropped")
  /\ UNCHANGED <<quota, reply, later, unseen, sure>>

(***************************************************************************)
(* ~Guard of a request that was not settled by an answer.                  *)
(***************************************************************************)
Abandon(t) ==
  /\ \/ pc[t] = "dropped" /\ UNCHANGED faults
     \/ pc[t] \in {"sent", "answered", "refused"} /\ Fault
  /\ ReleaseSlot
  /\ Goto(t, "idle")
  /\ reply' = [reply EXCEPT ![t] = Unknown]
  /\ UNCHANGED <<quota, later, sure>>

(***************************************************************************)
(* OnResponse: the counter is overwritten by what the answer reports; a    *)
(* 429 and an answer that reports nothing give the slot back, in another   *)
(* critical section.                                                       *)
(***************************************************************************)
OnResponse(t) ==
  /\ pc[t] \in {"answered", "refused"}
  /\ Update(t)
  /\ Goto(t, IF pc[t] = "refused" \/ reply[t] < 0 THEN "updated" ELSE "idle")
  /\ reply' = [reply EXCEPT ![t] = Unknown]
  /\ UNCHANGED <<quota, faults, later, sure>>

SettleSlot(t) ==
  /\ pc[t] = "updated"
  /\ ReleaseSlot
  /\ Goto(t, "idle")
  /\ UNCHANGED <<quota, reply, faults, later, sure>>

-----------------------------------------------------------------------------
(* Genius *)

Reports(t, r) ==
  \/ reply' = [reply EXCEPT ![t] = r] /\ UNCHANGED faults
  \/ reply' = [reply EXCEPT ![t] = Unknown] /\ Fault

Process(t) ==
  /\ pc[t] = "sent"
  /\ IF quota > 0
     THEN /\ quota' = quota - 1 /\ Goto(t, "answered") /\ Reports(t, quota - 1)
          /\ later' = [u \in Task |-> IF u = t \/ reply[u] < 0 THEN 0 ELSE later[u] + 1]
     ELSE /\ Goto(t, "refused") /\ Reports(t, 0)
          /\ later' = [later EXCEPT ![t] = 0]
          /\ UNCHANGED quota
  /\ UNCHANGED <<available_slots, unseen, sure>>

NewWindow ==
  /\ quota < Quota
  /\ quota' = Quota
  /\ later' = [t \in Task |-> 0]
  /\ UNCHANGED <<available_slots, pc, reply, faults, unseen, sure>>

-----------------------------------------------------------------------------

Call(t) ==
  \/ AcquireSlot(t) \/ WaitAndDecrement(t) \/ CancelledWait(t)
  \/ OnResponse(t) \/ SettleSlot(t) \/ Abandon(t)

Next == NewWindow \/ \E t \in Task : Call(t) \/ Process(t)

Spec == Init /\ [][Next]_vars

-----------------------------------------------------------------------------
(* Properties *)

TypeOK ==
  /\ available_slots \in Int
  /\ available_slots >= Unknown
  /\ pc \in [Task -> PC]
  /\ quota \in 0..Quota
  /\ reply \in [Task -> Unknown..Quota]
  /\ faults \in 0..MaxFaults
  /\ later \in [Task -> Nat] /\ unseen \in Nat /\ sure \in BOOLEAN

(***************************************************************************)
(* What the counter is for: the requests on their way fit in what is left  *)
(* of Genius's window.  An answer overwrites the counter without regard to *)
(* the requests sent, or counted by Genius, after it was written, and a    *)
(* 429 gives a slot back after that (Update, OnResponse): the free slots   *)
(* and the requests on their way exceed the window by no more than those,  *)
(* whatever is lost or cancelled.  And as long as no more than the margin  *)
(* kMinRemaining goes unseen when a request is sent (AcquireSlot,          *)
(* WaitAndDecrement), it and all others on their way do fit.               *)
(***************************************************************************)
RequestsFit ==
  /\ available_slots >= 0 => available_slots + Cardinality(OnTheWire) <= quota + unseen
  /\ sure => Cardinality(OnTheWire) <= quota

InFlight == {t \in Task : pc[t] \in {"sent", "answered", "refused", "updated", "dropped"}}

(***************************************************************************)
(* Slots are not made up: whatever is lost, cancelled or answered without  *)
(* a header, the slots free and taken never exceed the window plus one per *)
(* request that was sent before the counter was known.  Such a request     *)
(* took nothing and ReleaseSlot gives a slot back for it all the same.     *)
(***************************************************************************)
SlotsAreBounded ==
  available_slots + Cardinality(InFlight) <= Quota + Cardinality(Task)

=============================================================================

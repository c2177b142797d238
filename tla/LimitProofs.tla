----------------------------- MODULE LimitProofs -----------------------------
(***************************************************************************)
(* Proofs about what is let through.  To Genius: the slot counter of the   *)
(* rate limiter, for every finite set of tasks, every quota and every      *)
(* combination of faults, and the lanes of the gateway, for any number of  *)
(* calls, any rates and any number of attempts.  From the clients: the     *)
(* rate limit stores, for any keys, limits and windows.                    *)
(***************************************************************************)
EXTENDS RateLimiter, GeniusGateway, RateLimitStore, FiniteSetTheorems, TLAPS

LEMMA WireIsFinite ==
  IsFiniteSet(OnTheWire) /\ Cardinality(OnTheWire) \in Nat
<1>1. OnTheWire \in SUBSET Task
  BY DEF OnTheWire
<1> QED
  BY <1>1, LimiterAssumption, FS_Subset, FS_CardinalityType DEF LimiterAssumption

(***************************************************************************)
(* The counter stays an integer from -1 on, whatever the answers report:   *)
(* WaitAndDecrement never moves an unknown counter, and a cancelled wait   *)
(* can at worst turn 0 into unknown.                                       *)
(***************************************************************************)
THEOREM TypeCorrect == Spec => []TypeOK
<1> USE DEF Unknown
<1>1. Init => TypeOK
  <2>1. Init => sure \in BOOLEAN
    BY DEF Init, InitWith
  <2> QED BY <2>1, LimiterAssumption DEF LimiterAssumption, Init, InitWith, TypeOK, PC
<1>2. TypeOK /\ [Next]_vars => TypeOK'
  <2> SUFFICES ASSUME TypeOK, [Next]_vars
               PROVE  TypeOK'
    OBVIOUS
  <2>0. sure' \in BOOLEAN
    BY Zenon DEF TypeOK, Next, Call, NewWindow, AcquireSlot, WaitAndDecrement, Sending,
                 CancelledWait, OnResponse, SettleSlot, Abandon, Process, vars
  <2>a. Cardinality(OnTheWire) \in Nat
    BY WireIsFinite
  <2> USE <2>0, LimiterAssumption DEF LimiterAssumption, TypeOK, PC, Goto, Fault
  <2>1. CASE NewWindow
    BY <2>1 DEF NewWindow
  <2>2. ASSUME NEW t \in Task, AcquireSlot(t)
        PROVE  TypeOK'
    BY <2>2 DEF AcquireSlot
  <2>3. ASSUME NEW t \in Task, WaitAndDecrement(t) \/ CancelledWait(t)
        PROVE  TypeOK'
    BY <2>3 DEF WaitAndDecrement, CancelledWait, Taken
  <2>4. ASSUME NEW t \in Task, OnResponse(t)
        PROVE  TypeOK'
    BY <2>4, <2>a DEF OnResponse, Update
  <2>5. ASSUME NEW t \in Task, Abandon(t) \/ SettleSlot(t)
        PROVE  TypeOK'
    BY <2>5 DEF Abandon, SettleSlot, ReleaseSlot
  <2>6. ASSUME NEW t \in Task, Process(t)
        PROVE  TypeOK'
    BY <2>6 DEF Process, Reports
  <2>7. CASE UNCHANGED vars
    BY <2>7 DEF vars
  <2> QED BY <2>1, <2>2, <2>3, <2>4, <2>5, <2>6, <2>7 DEF Next, Call
<1> QED BY <1>1, <1>2, PTL DEF Spec

-----------------------------------------------------------------------------
(* How a step changes the number of requests in flight. *)

LEMMA InFlightFinite ==
  /\ IsFiniteSet(InFlight)
  /\ Cardinality(InFlight) \in Nat
  /\ Cardinality(Task) \in Nat
  /\ Cardinality(InFlight) <= Cardinality(Task)
<1>1. InFlight \in SUBSET Task
  BY DEF InFlight
<1> QED
  BY <1>1, LimiterAssumption, FS_Subset, FS_CardinalityType DEF LimiterAssumption

LEMMA TaskIsLaunched ==
  ASSUME TypeOK, NEW t \in Task, t \notin InFlight,
         NEW label \in {"sent", "dropped"}, Goto(t, label)
  PROVE  Cardinality(InFlight') = Cardinality(InFlight) + 1
<1>1. InFlight' = InFlight \cup {t}
  BY DEF TypeOK, Goto, InFlight
<1> QED
  BY <1>1, InFlightFinite, FS_AddElement

LEMMA TaskIsLanded ==
  ASSUME TypeOK, NEW t \in InFlight, Goto(t, "idle")
  PROVE  /\ Cardinality(InFlight') = Cardinality(InFlight) - 1
         /\ Cardinality(InFlight) >= 1
<1>1. InFlight' = InFlight \ {t}
  BY DEF TypeOK, Goto, InFlight
<1>2. Cardinality(InFlight') = Cardinality(InFlight) - 1
  BY <1>1, InFlightFinite, FS_RemoveElement
<1>3. Cardinality(InFlight) # 0
  BY InFlightFinite, FS_EmptySet
<1> QED
  BY <1>2, <1>3, InFlightFinite

-----------------------------------------------------------------------------

(***************************************************************************)
(* Slots are not made up.  The bound is inductive: taking a slot and       *)
(* giving it back move the sum by nothing, an answer resets it, and a slot *)
(* that is given back without having been taken is paid for by the request *)
(* that ends.                                                              *)
(***************************************************************************)
THEOREM SlotsAreBoundedHolds == Spec => []SlotsAreBounded
<1>1. Init => SlotsAreBounded
  <2> SUFFICES ASSUME Init
               PROVE  SlotsAreBounded
    OBVIOUS
  <2>1. InFlight = {}
    BY DEF Init, InitWith, InFlight
  <2> QED
    BY <2>1, FS_EmptySet, InFlightFinite, LimiterAssumption
    DEF Init, InitWith, SlotsAreBounded, LimiterAssumption, Unknown
<1>2. TypeOK /\ TypeOK' /\ SlotsAreBounded /\ [Next]_vars => SlotsAreBounded'
  <2> SUFFICES ASSUME TypeOK, TypeOK', SlotsAreBounded, [Next]_vars
               PROVE  SlotsAreBounded'
    OBVIOUS
  <2> DEFINE n  == Cardinality(InFlight)
             n1 == Cardinality(InFlight')
             N  == Cardinality(Task)
  <2>a. /\ n \in Nat /\ N \in Nat /\ n <= N
        /\ Quota \in Nat
        /\ available_slots \in Int /\ available_slots >= -1
        /\ available_slots + n <= Quota + N
    BY InFlightFinite, LimiterAssumption
    DEF TypeOK, SlotsAreBounded, LimiterAssumption, Unknown
  <2>b. SUFFICES available_slots' + n1 <= Quota + N
    BY DEF SlotsAreBounded
  <2>1. CASE NewWindow
    <3>1. n1 = n /\ available_slots' = available_slots
      BY <2>1 DEF NewWindow, InFlight
    <3> HIDE DEF n, n1, N
    <3> QED BY <3>1, <2>a
  <2>2. ASSUME NEW t \in Task, AcquireSlot(t)
        PROVE  available_slots' + n1 <= Quota + N
    <3>1. available_slots' = available_slots /\ t \notin InFlight
      BY <2>2 DEF AcquireSlot, InFlight
    <3>2. CASE available_slots < 0
      <4>1. n1 = n + 1
        BY <2>2, <3>1, <3>2, TaskIsLaunched DEF AcquireSlot
      <4>2. n + 1 <= N
        <5>1. InFlight \in SUBSET (Task \ {t}) /\ IsFiniteSet(Task \ {t})
          BY <3>1, LimiterAssumption, FS_RemoveElement DEF InFlight, LimiterAssumption
        <5>2. n <= Cardinality(Task \ {t})
          BY <5>1, FS_Subset
        <5>3. Cardinality(Task \ {t}) = N - 1
          BY LimiterAssumption, FS_RemoveElement DEF LimiterAssumption
        <5> HIDE DEF n, N
        <5> QED BY <5>2, <5>3, <2>a
      <4> HIDE DEF n, n1, N
      <4> QED BY <3>1, <3>2, <4>1, <4>2, <2>a
    <3>3. CASE ~(available_slots < 0)
      <4>1. InFlight' = InFlight
        BY <2>2, <3>3 DEF AcquireSlot, Goto, InFlight, TypeOK
      <4> QED BY <4>1, <3>1, <2>a
    <3> QED BY <3>2, <3>3
  <2>3. ASSUME NEW t \in Task, WaitAndDecrement(t) \/ CancelledWait(t)
        PROVE  available_slots' + n1 <= Quota + N
    <3>1. t \notin InFlight /\ available_slots' = Taken(available_slots)
      BY <2>3 DEF WaitAndDecrement, CancelledWait, InFlight
    <3>2. n1 = n + 1
      BY <2>3, <3>1, TaskIsLaunched DEF WaitAndDecrement, CancelledWait
    <3>3. n1 <= N
      <4>1. IsFiniteSet(Task) /\ InFlight' \in SUBSET Task
        BY LimiterAssumption DEF LimiterAssumption, InFlight
      <4> QED BY <4>1, FS_Subset
    <3> HIDE DEF n, n1, N
    <3> QED BY <3>1, <3>2, <3>3, <2>a DEF Taken
  <2>4. ASSUME NEW t \in Task, OnResponse(t)
        PROVE  available_slots' + n1 <= Quota + N
    <3>1. t \in InFlight
      BY <2>4 DEF OnResponse, InFlight
    <3>2. reply[t] \in Int /\ reply[t] <= Quota
      BY <2>4, LimiterAssumption DEF TypeOK, LimiterAssumption, Unknown
    <3>3. available_slots' \in {reply[t], available_slots}
      BY <2>4 DEF OnResponse, Update
    <3>4. CASE Goto(t, "idle")
      <4>1. n1 = n - 1 /\ n >= 1
        BY <3>1, <3>4, TaskIsLanded
      <4> HIDE DEF n, n1, N
      <4> QED BY <4>1, <3>2, <3>3, <2>a
    <3>5. CASE Goto(t, "updated")
      <4>1. InFlight' = InFlight
        BY <3>1, <3>5 DEF Goto, InFlight, TypeOK
      <4> QED BY <4>1, <3>2, <3>3, <2>a
    <3> QED BY <2>4, <3>4, <3>5 DEF OnResponse
  <2>5. ASSUME NEW t \in Task, Abandon(t) \/ SettleSlot(t)
        PROVE  available_slots' + n1 <= Quota + N
    <3>1. t \in InFlight
      BY <2>5 DEF Abandon, SettleSlot, InFlight
    <3>2. n1 = n - 1 /\ n >= 1
      BY <2>5, <3>1, TaskIsLanded DEF Abandon, SettleSlot
    <3>3. available_slots' = available_slots \/ available_slots' = available_slots + 1
      BY <2>5 DEF Abandon, SettleSlot, ReleaseSlot
    <3> HIDE DEF n, n1, N
    <3> QED BY <3>2, <3>3, <2>a
  <2>6. ASSUME NEW t \in Task, Process(t)
        PROVE  available_slots' + n1 <= Quota + N
    <3>1. InFlight' = InFlight /\ available_slots' = available_slots
      BY <2>6 DEF Process, Goto, InFlight, TypeOK
    <3> QED BY <3>1, <2>a
  <2>7. CASE UNCHANGED vars
    <3>1. InFlight' = InFlight /\ available_slots' = available_slots
      BY <2>7 DEF vars, InFlight
    <3> QED BY <3>1, <2>a
  <2> QED BY <2>1, <2>2, <2>3, <2>4, <2>5, <2>6, <2>7 DEF Next, Call
<1> QED BY <1>1, <1>2, TypeCorrect, PTL DEF Spec

-----------------------------------------------------------------------------
(* The counter and Genius's window *)

(* An answer on its way reports what was left when it was written.         *)
ReportsOK == \A t \in Task : reply[t] >= 0 => reply[t] <= quota + later[t]

LEMMA RequestGoes ==
  ASSUME TypeOK, NEW t \in Task, pc[t] # "sent", Goto(t, "sent")
  PROVE  Cardinality(OnTheWire') = Cardinality(OnTheWire) + 1
<1>1. OnTheWire' = OnTheWire \cup {t} /\ t \notin OnTheWire
  BY DEF TypeOK, Goto, OnTheWire
<1> QED
  BY <1>1, WireIsFinite, FS_AddElement

LEMMA RequestEnds ==
  ASSUME TypeOK, NEW t \in Task, NEW label \in PC, label # "sent", Goto(t, label)
  PROVE  /\ pc[t] = "sent" => Cardinality(OnTheWire') = Cardinality(OnTheWire) - 1
         /\ pc[t] # "sent" => OnTheWire' = OnTheWire
<1>1. pc[t] = "sent" => OnTheWire' = OnTheWire \ {t} /\ t \in OnTheWire
  BY DEF TypeOK, Goto, OnTheWire
<1>2. pc[t] # "sent" => OnTheWire' = OnTheWire
  BY DEF TypeOK, Goto, OnTheWire
<1> QED
  BY <1>1, <1>2, WireIsFinite, FS_RemoveElement

(***************************************************************************)
(* The requests on their way fit, for any number of tasks and any margin,  *)
(* but for those the counter knows nothing of.  Sending and counting a     *)
(* request move both sides alike; a slot given back is one more unseen,    *)
(* and an Update starts again from what its answer reports.                *)
(***************************************************************************)
THEOREM RequestsFitHolds == Spec => []RequestsFit
<1>1. Init => RequestsFit /\ ReportsOK
  <2> SUFFICES ASSUME Init
               PROVE  RequestsFit /\ ReportsOK
    OBVIOUS
  <2>1. OnTheWire = {}
    BY DEF Init, InitWith, OnTheWire
  <2>2. Cardinality(OnTheWire) = 0
    BY <2>1, FS_EmptySet
  <2> QED
    BY <2>2, LimiterAssumption
    DEF Init, InitWith, RequestsFit, ReportsOK, LimiterAssumption, Unknown
<1>2. TypeOK /\ TypeOK' /\ RequestsFit /\ ReportsOK /\ [Next]_vars => RequestsFit' /\ ReportsOK'
  <2> SUFFICES ASSUME TypeOK, TypeOK', RequestsFit, ReportsOK, [Next]_vars
               PROVE  RequestsFit' /\ ReportsOK'
    OBVIOUS
  <2> DEFINE w == Cardinality(OnTheWire)  w1 == Cardinality(OnTheWire')
  <2>a. /\ w \in Nat /\ quota \in Nat /\ quota <= Quota /\ quota' \in Nat /\ kMinRemaining \in Nat
        /\ Quota \in Nat /\ available_slots \in Int /\ available_slots' \in Int /\ unseen \in Nat /\ unseen' \in Nat
    BY WireIsFinite, LimiterAssumption DEF TypeOK, LimiterAssumption, Unknown
  <2>e. \A t \in Task : reply[t] \in Int /\ reply[t] <= Quota /\ later[t] \in Nat
    BY LimiterAssumption DEF TypeOK, LimiterAssumption, Unknown
  <2>b. available_slots >= 0 => available_slots + w <= quota + unseen
    BY DEF RequestsFit
  <2>c. sure => w <= quota
    BY DEF RequestsFit
  <2>d. SUFFICES /\ available_slots' >= 0 => available_slots' + w1 <= quota' + unseen'
                 /\ sure' => w1 <= quota'
                 /\ ReportsOK'
    BY DEF RequestsFit
  <2>1. CASE NewWindow
    <3>1. /\ w1 = w /\ available_slots' = available_slots
          /\ unseen' = unseen /\ sure' = sure /\ quota' = Quota
      BY <2>1 DEF NewWindow, OnTheWire
    <3>2. ReportsOK'
      BY <2>1, <2>a, <2>e DEF NewWindow, ReportsOK
    <3> HIDE DEF w, w1
    <3> QED BY <3>1, <3>2, <2>a, <2>b, <2>c
  <2>2. ASSUME NEW t \in Task, AcquireSlot(t)
        PROVE  /\ available_slots' >= 0 => available_slots' + w1 <= quota' + unseen'
               /\ sure' => w1 <= quota'
               /\ ReportsOK'
    <3>1. ReportsOK' /\ available_slots' = available_slots /\ unseen' = unseen /\ quota' = quota
      BY <2>2 DEF AcquireSlot, ReportsOK
    <3>2. CASE available_slots < 0
      <4>1. ~(available_slots >= 0) /\ ~(available_slots' >= 0)
        BY <3>1, <3>2, <2>a
      <4>2. ~sure'
        BY <2>2, <3>2, <4>1, Zenon DEF AcquireSlot, Sending
      <4> HIDE DEF w, w1
      <4> QED BY <3>1, <4>1, <4>2, Zenon
    <3>3. CASE ~(available_slots < 0)
      <4>1. OnTheWire' = OnTheWire /\ sure' = sure
        BY <2>2, <3>3, RequestEnds DEF AcquireSlot, PC
      <4> QED BY <4>1, <3>1, <2>b, <2>c
    <3> QED BY <3>2, <3>3
  <2>3. ASSUME NEW t \in Task, WaitAndDecrement(t)
        PROVE  /\ available_slots' >= 0 => available_slots' + w1 <= quota' + unseen'
               /\ sure' => w1 <= quota'
               /\ ReportsOK'
    <3>1. unseen' = unseen /\ quota' = quota
      BY <2>3 DEF WaitAndDecrement
    <3>a. ReportsOK'
      BY <2>3 DEF WaitAndDecrement, ReportsOK
    <3>2. /\ available_slots < 0 => available_slots' = available_slots
          /\ available_slots >= 0 => available_slots' = available_slots - 1 /\ available_slots > kMinRemaining
      BY <2>3, <2>a DEF WaitAndDecrement, HasSlot, Taken
    <3>3. sure' => available_slots >= 0 /\ unseen <= kMinRemaining
      BY <2>3 DEF WaitAndDecrement, Sending
    <3>4. w1 = w + 1
      BY <2>3, RequestGoes DEF WaitAndDecrement
    <3> HIDE DEF w, w1
    <3>5. CASE available_slots < 0
      <4>1. ~(available_slots >= 0) /\ ~(available_slots' >= 0)
        BY <3>2, <3>5, <2>a
      <4> QED BY <3>a, <3>3, <4>1, Zenon
    <3>6. CASE available_slots >= 0
      <4>1. available_slots' + w1 <= quota' + unseen'
        BY <3>1, <3>2, <3>4, <3>6, <2>a, <2>b
      <4>2. unseen <= kMinRemaining => w1 <= quota'
        BY <3>1, <3>2, <3>4, <3>6, <2>a, <2>b
      <4> QED BY <3>a, <3>3, <4>1, <4>2, Zenon
    <3>7. available_slots < 0 \/ available_slots >= 0
      BY <2>a
    <3> QED BY <3>5, <3>6, <3>7
  <2>4. ASSUME NEW t \in Task, CancelledWait(t)
        PROVE  /\ available_slots' >= 0 => available_slots' + w1 <= quota' + unseen'
               /\ sure' => w1 <= quota'
               /\ ReportsOK'
    <3>1. ReportsOK' /\ sure' = sure
      BY <2>4 DEF CancelledWait, ReportsOK
    <3>4. unseen' = unseen /\ quota' = quota
      BY <2>4 DEF CancelledWait
    <3>5. available_slots' = available_slots \/ available_slots' = available_slots - 1
      BY <2>4 DEF CancelledWait, Taken
    <3>2. OnTheWire' = OnTheWire
      BY <2>4, RequestEnds DEF CancelledWait, PC
    <3>3. w1 = w
      BY <3>2
    <3> HIDE DEF w, w1
    <3>6. available_slots' >= 0 => available_slots' + w1 <= quota' + unseen'
      <4>1. CASE available_slots' = available_slots
        BY <3>3, <3>4, <4>1, <2>a, <2>b
      <4>2. CASE available_slots' = available_slots - 1
        BY <3>3, <3>4, <4>2, <2>a, <2>b
      <4> QED BY <3>5, <4>1, <4>2
    <3> QED BY <3>1, <3>3, <3>4, <3>6, <2>c, Zenon
  <2>5. ASSUME NEW t \in Task, Abandon(t) \/ SettleSlot(t)
        PROVE  /\ available_slots' >= 0 => available_slots' + w1 <= quota' + unseen'
               /\ sure' => w1 <= quota'
               /\ ReportsOK'
    <3>1. quota' = quota /\ later' = later /\ sure' = sure
      BY <2>5 DEF Abandon, SettleSlot
    <3>2. \A v \in Task : reply'[v] = reply[v] \/ reply'[v] = -1
      BY <2>5 DEF Abandon, SettleSlot, TypeOK, Unknown
    <3>3. ReportsOK'
      BY <3>1, <3>2, <2>a, <2>e DEF ReportsOK
    <3>4. (available_slots' < 0 /\ available_slots < 0) \/ (available_slots >= 0 /\ available_slots' = available_slots + 1 /\ unseen' = unseen + 1)
      BY <2>5, <2>a DEF Abandon, SettleSlot, ReleaseSlot
    <3>5. w1 <= w /\ w1 \in Nat
      <4>1. pc[t] = "sent" => w1 = w - 1
        BY <2>5, RequestEnds DEF Abandon, SettleSlot, PC
      <4>2. pc[t] # "sent" => w1 = w
        BY <2>5, RequestEnds DEF Abandon, SettleSlot, PC
      <4>3. pc[t] = "sent" => w # 0
        BY WireIsFinite, FS_EmptySet DEF OnTheWire
      <4> HIDE DEF w, w1
      <4> QED BY <4>1, <4>2, <4>3, <2>a
    <3> HIDE DEF w, w1
    <3>6. available_slots' >= 0 => available_slots' + w1 <= quota' + unseen'
      <4>1. CASE available_slots' < 0 /\ available_slots < 0
        BY <4>1, <2>a
      <4>2. CASE available_slots >= 0 /\ available_slots' = available_slots + 1 /\ unseen' = unseen + 1
        BY <3>1, <3>5, <4>2, <2>a, <2>b
      <4> QED BY <3>4, <4>1, <4>2
    <3>7. w <= quota => w1 <= quota'
      BY <3>1, <3>5, <2>a
    <3> QED BY <3>1, <3>3, <3>6, <3>7, <2>c, Zenon
  <2>6. ASSUME NEW t \in Task, OnResponse(t)
        PROVE  /\ available_slots' >= 0 => available_slots' + w1 <= quota' + unseen'
               /\ sure' => w1 <= quota'
               /\ ReportsOK'
    <3>1. quota' = quota /\ later' = later /\ sure' = sure
      BY <2>6 DEF OnResponse
    <3>2. \A v \in Task : reply'[v] = reply[v] \/ reply'[v] = -1
      BY <2>6 DEF OnResponse, TypeOK, Unknown
    <3>3. ReportsOK'
      BY <3>1, <3>2, <2>a, <2>e DEF ReportsOK
    <3>4. \/ available_slots' = available_slots /\ unseen' = unseen
          \/ available_slots' = reply[t] /\ unseen' = w + later[t] /\ reply[t] <= quota + later[t]
      BY <2>6 DEF OnResponse, Update, ReportsOK
    <3>5. w1 = w
      BY <2>6, RequestEnds DEF OnResponse, PC
    <3>6. reply[t] \in Int /\ later[t] \in Nat
      BY <2>e
    <3> HIDE DEF w, w1
    <3>7. available_slots' >= 0 => available_slots' + w1 <= quota' + unseen'
      <4>1. CASE available_slots' = available_slots /\ unseen' = unseen
        BY <3>1, <3>5, <4>1, <2>a, <2>b
      <4>2. CASE available_slots' = reply[t] /\ unseen' = w + later[t] /\ reply[t] <= quota + later[t]
        <5> DEFINE r == reply[t]  l == later[t]
        <5>1. r \in Int /\ l \in Nat /\ available_slots' = r /\ unseen' = w + l /\ r <= quota + l
          BY <3>6, <4>2
        <5> HIDE DEF r, l
        <5> QED BY <3>1, <3>5, <5>1, <2>a
      <4> QED BY <3>4, <4>1, <4>2
    <3> QED BY <3>1, <3>3, <3>5, <3>7, <2>c, Zenon
  <2>7. ASSUME NEW t \in Task, Process(t)
        PROVE  /\ available_slots' >= 0 => available_slots' + w1 <= quota' + unseen'
               /\ sure' => w1 <= quota'
               /\ ReportsOK'
    <3>1. available_slots' = available_slots /\ unseen' = unseen /\ sure' = sure
      BY <2>7 DEF Process
    <3>2. w1 = w - 1
      BY <2>7, RequestEnds DEF Process, PC
    <3>3. quota' = quota - 1 \/ (quota = 0 /\ quota' = 0)
      BY <2>7, <2>a DEF Process
    <3>4. ReportsOK'
      <4>1. CASE quota > 0
        <5>1. /\ \A v \in Task : v # t => reply'[v] = reply[v]
              /\ reply'[t] = quota - 1 \/ reply'[t] = -1
              /\ \A v \in Task : v # t /\ reply[v] >= 0 => later'[v] = later[v] + 1
              /\ later'[t] = 0 /\ quota' = quota - 1
          BY <2>7, <4>1 DEF Process, Reports, TypeOK, Unknown
        <5> QED BY <5>1, <2>a, <2>e DEF ReportsOK
      <4>2. CASE ~(quota > 0)
        <5>1. /\ \A v \in Task : v # t => reply'[v] = reply[v] /\ later'[v] = later[v]
              /\ reply'[t] = 0 \/ reply'[t] = -1
              /\ later'[t] = 0 /\ quota' = quota
          BY <2>7, <4>2 DEF Process, Reports, TypeOK, Unknown
        <5> QED BY <5>1, <2>a, <2>e DEF ReportsOK
      <4> QED BY <4>1, <4>2
    <3> HIDE DEF w, w1
    <3>5. available_slots' >= 0 => available_slots' + w1 <= quota' + unseen'
      <4>1. CASE quota' = quota - 1
        BY <3>1, <3>2, <4>1, <2>a, <2>b
      <4>2. CASE quota = 0 /\ quota' = 0
        BY <3>1, <3>2, <4>2, <2>a, <2>b
      <4> QED BY <3>3, <4>1, <4>2
    <3>6. w <= quota => w1 <= quota'
      BY <3>2, <3>3, <2>a
    <3> QED BY <3>1, <3>4, <3>5, <3>6, <2>c, Zenon
  <2>8. CASE UNCHANGED vars
    <3>1. /\ OnTheWire' = OnTheWire /\ available_slots' = available_slots
          /\ unseen' = unseen /\ sure' = sure /\ quota' = quota
      BY <2>8 DEF vars, OnTheWire
    <3>2. ReportsOK'
      BY <2>8 DEF vars, ReportsOK
    <3> QED BY <3>1, <3>2, <2>b, <2>c
  <2> QED BY <2>1, <2>2, <2>3, <2>4, <2>5, <2>6, <2>7, <2>8 DEF Next, Call
<1> QED BY <1>1, <1>2, TypeCorrect, PTL DEF Spec

-----------------------------------------------------------------------------
(* The gateway: how many requests of a lane go out, and how many at once.  *)

Stages == {"new", "pipeline", "bucket", "semaphore", "limiter", "genius", "sleeping", "backoff", "ended"}
Statuses == {"200", "400", "401", "404", "499", "500", "503", "504", "5xx"}
CallType == [at : Stages, attempts : Nat, answer : Statuses \cup {"none", "not found"}, waits : BOOLEAN]

GatewayTypes ==
  /\ GatewayConstantsOK
  /\ calls \in [Caller -> CallType]
  /\ bucket \in [Lane -> Nat] /\ filled \in [Lane -> Nat] /\ granted \in [Lane -> Nat]
  /\ sent \in [Lane -> Nat] /\ waited \in [Lane -> Nat]
  /\ ticks \in Nat /\ since \in 0..ticks

Size(l) == Burst[l] * Refill[l]

(* What a lane has taken and still has.  Before its first refill in the    *)
(* span that is at most a full bucket, and something was taken only if the *)
(* bucket was filled less than a period before; each refill adds no more   *)
(* than the time since the one before.                                     *)
LaneOK(l) ==
  /\ bucket[l] <= Size(l) /\ filled[l] <= ticks
  /\ filled[l] < since =>
       /\ granted[l] * Refill[l] + bucket[l] <= Size(l)
       /\ granted[l] > 0 => since < filled[l] + Refill[l]
  /\ filled[l] >= since =>
       granted[l] * Refill[l] + bucket[l] <= Size(l) + (filled[l] - since) + (Refill[l] - 1)

SlotsOK(l) == Cardinality(Busy(l)) <= Concurrent[l]

(* What was sent had a token, taken in the span or before it.              *)
TokensOK(l) == sent[l] + Cardinality(Unsent(l)) <= granted[l] + waited[l]

GatewayInv == GatewayTypes /\ \A l \in Lane : LaneOK(l) /\ SlotsOK(l) /\ TokensOK(l)

LEMMA SizeIsNat ==
  ASSUME GatewayConstantsOK, NEW l \in Lane
  PROVE  Size(l) \in Nat /\ Refill[l] \in Nat \ {0} /\ Size(l) >= Refill[l]
<1>1. Refill[l] \in Nat \ {0} /\ Burst[l] \in Nat \ {0}
  BY DEF GatewayConstantsOK
<1>2. \A b, r \in Nat \ {0} : b * r \in Nat /\ b * r >= r
  OBVIOUS
<1> QED
  BY <1>1, <1>2 DEF Size

(* Only one call changes, and the bucket and the clock do not.             *)
OnlyCall(c, new) ==
  /\ calls' = [calls EXCEPT ![c] = new] /\ new \in CallType
  /\ UNCHANGED <<bucketVars, ticks, historyVars>>

LEMMA OneCallMoves ==
  ASSUME GatewayTypes, NEW c \in Caller, NEW new \in CallType, calls' = [calls EXCEPT ![c] = new]
  PROVE  /\ calls' \in [Caller -> CallType] /\ calls'[c] = new
         /\ \A d \in Caller : d # c => calls'[d] = calls[d]
<1> USE DEF GatewayTypes
<1> HIDE DEF CallType
<1> QED
  OBVIOUS

LEMMA BusyIsFinite == ASSUME GatewayConstantsOK, NEW l PROVE IsFiniteSet(Busy(l))
BY FS_Subset DEF GatewayConstantsOK, Busy

LEMMA UnsentIsFinite ==
  ASSUME GatewayConstantsOK, NEW l
  PROVE  IsFiniteSet(Unsent(l)) /\ Cardinality(Unsent(l)) \in Nat
BY FS_Subset, FS_CardinalityType DEF GatewayConstantsOK, Unsent

(* A call that takes no token leaves no more of them unsent.               *)
LEMMA NoTokenTaken ==
  ASSUME GatewayTypes, \A l \in Lane : TokensOK(l), NEW c \in Caller, NEW new \in CallType,
         calls' = [calls EXCEPT ![c] = new],
         new.at \in {"semaphore", "limiter"} => Stage(c) \in {"semaphore", "limiter"},
         UNCHANGED <<granted, sent, waited>>
  PROVE  \A l \in Lane : TokensOK(l)'
<1>1. SUFFICES ASSUME NEW l \in Lane PROVE TokensOK(l)'
  OBVIOUS
<1>2. Unsent(l)' \subseteq Unsent(l)
  BY OneCallMoves DEF Unsent, Stage
<1>3. IsFiniteSet(Unsent(l)) /\ Cardinality(Unsent(l)) \in Nat
  BY UnsentIsFinite DEF GatewayTypes
<1>4. Cardinality(Unsent(l)') <= Cardinality(Unsent(l)) /\ Cardinality(Unsent(l)') \in Nat
  BY <1>2, <1>3, FS_Subset, FS_CardinalityType
<1>5. sent[l] \in Nat /\ granted[l] \in Nat /\ waited[l] \in Nat
      /\ sent[l] + Cardinality(Unsent(l)) <= granted[l] + waited[l]
  BY DEF GatewayTypes, TokensOK
<1> QED
  BY <1>3, <1>4, <1>5 DEF TokensOK

(* A call that does not come to hold a slot leaves no more of them held.   *)
LEMMA NoSlotTaken ==
  ASSUME GatewayTypes, \A l \in Lane : SlotsOK(l), NEW c \in Caller, NEW new \in CallType,
         calls' = [calls EXCEPT ![c] = new],
         new.at \in {"limiter", "genius", "backoff"} => Holds(c)
  PROVE  \A l \in Lane : SlotsOK(l)'
<1>1. SUFFICES ASSUME NEW l \in Lane PROVE SlotsOK(l)'
  OBVIOUS
<1>2. Busy(l)' \subseteq Busy(l)
  BY OneCallMoves DEF Busy, Holds, Stage
<1>3. IsFiniteSet(Busy(l))
  BY BusyIsFinite DEF GatewayTypes
<1>4. Cardinality(Busy(l)') <= Cardinality(Busy(l)) /\ Cardinality(Busy(l)') \in Nat
      /\ Cardinality(Busy(l)) \in Nat
  BY <1>2, <1>3, FS_Subset, FS_CardinalityType
<1>5. Concurrent[l] \in Nat /\ Cardinality(Busy(l)) <= Concurrent[l]
  BY DEF GatewayTypes, GatewayConstantsOK, SlotsOK
<1> QED
  BY <1>4, <1>5 DEF SlotsOK

LEMMA LanesStay ==
  ASSUME GatewayInv, UNCHANGED <<bucketVars, ticks, historyVars>>
  PROVE  \A l \in Lane : LaneOK(l)'
BY DEF GatewayInv, LaneOK, bucketVars, historyVars, Size

(* A call that comes to hold no slot and to have no token.                 *)
TakesNothing(c, new) ==
  /\ new.at \in {"limiter", "genius", "backoff"} => Holds(c)
  /\ new.at \in {"semaphore", "limiter"} => Stage(c) \in {"semaphore", "limiter"}

(* The steps of one call, but for those that take a token or a slot, and   *)
(* the sending.                                                            *)
LEMMA CallStep ==
  ASSUME GatewayInv, NEW c \in Caller,
         \/ Post(c) \/ BreakerOpen(c) \/ PassGates(c) \/ Answered(c) \/ TooMany(c)
         \/ SleptOff(c) \/ Failed(c) \/ Retry(c) \/ ClientGivesUp(c) \/ Cancelled(c)
  PROVE  GatewayInv'
<1>1. /\ GatewayTypes /\ calls[c] \in CallType
      /\ \A l \in Lane : SlotsOK(l) /\ TokensOK(l)
  BY DEF GatewayInv, GatewayTypes, CallType
<1>2. \A status \in Statuses : AnswerFor(c, status) \in Statuses \cup {"not found"}
  BY DEF AnswerFor
<1>3. \E new \in CallType :
        /\ calls' = [calls EXCEPT ![c] = new]
        /\ TakesNothing(c, new)
  <2>1. ASSUME NEW step \in {"pipeline", "bucket"}, MoveTo(c, step)
        PROVE  \E new \in CallType :
                 /\ calls' = [calls EXCEPT ![c] = new]
                 /\ TakesNothing(c, new)
    <3> DEFINE new == [calls[c] EXCEPT !.at = step]
    <3>1. calls' = [calls EXCEPT ![c] = new]
      BY <2>1 DEF MoveTo
    <3>2. new \in CallType /\ new.at = step
      BY <1>1 DEF CallType, Stages
    <3> QED
      BY <3>1, <3>2 DEF TakesNothing
  <2>2. ASSUME NEW status \in Statuses, End(c, status)
        PROVE  \E new \in CallType :
                 /\ calls' = [calls EXCEPT ![c] = new]
                 /\ TakesNothing(c, new)
    <3> DEFINE new == [calls[c] EXCEPT !.at = "ended", !.answer = AnswerFor(c, status)]
    <3>1. calls' = [calls EXCEPT ![c] = new]
      BY <1>1, <2>2 DEF End, GatewayTypes
    <3>2. new \in CallType /\ new.at = "ended"
      BY <1>1, <1>2 DEF CallType, Stages
    <3> QED
      BY <3>1, <3>2 DEF TakesNothing
  <2>3. ASSUME NEW to \in {"sleeping", "backoff"}, Stage(c) = "genius",
               calls' = [calls EXCEPT ![c].at = to, ![c].attempts = @ + 1]
        PROVE  \E new \in CallType :
                 /\ calls' = [calls EXCEPT ![c] = new]
                 /\ TakesNothing(c, new)
    <3> DEFINE new == [calls[c] EXCEPT !.at = to, !.attempts = calls[c].attempts + 1]
    <3>1. calls' = [calls EXCEPT ![c] = new]
      BY <1>1, <2>3 DEF GatewayTypes
    <3>2. new \in CallType /\ new.at = to
      <4>1. to \in Stages
        BY DEF Stages
      <4>2. calls[c].attempts \in Nat
        BY <1>1 DEF CallType
      <4>3. calls[c].attempts + 1 \in Nat
        BY <4>2
      <4> QED
        BY <1>1, <4>1, <4>3 DEF CallType
    <3> QED
      BY <2>3, <3>1, <3>2 DEF TakesNothing, Holds
  <2>4. CASE Post(c)
    BY <2>1, <2>2, <2>4 DEF Post, Stages, Statuses
  <2>5. CASE BreakerOpen(c)
    BY <2>2, <2>5 DEF BreakerOpen, Stages, Statuses
  <2>6. CASE PassGates(c)
    BY <2>1, <2>6 DEF PassGates, Stages, Statuses
  <2>7. CASE Answered(c)
    BY <2>2, <2>7 DEF Answered, Stages, Statuses
  <2>8. CASE TooMany(c)
    BY <2>3, <2>8 DEF TooMany, Stages, Statuses
  <2>9. CASE SleptOff(c)
    BY <2>1, <2>2, <2>9 DEF SleptOff, Stages, Statuses
  <2>10. CASE Failed(c)
    BY <2>2, <2>3, <2>10 DEF Failed, Stages, Statuses
  <2>11. CASE Retry(c)
    BY <2>1, <2>11 DEF Retry, Stages, Statuses
  <2>12. CASE ClientGivesUp(c)
    <3> DEFINE new == [calls[c] EXCEPT !.waits = FALSE]
    <3>1. calls' = [calls EXCEPT ![c] = new]
      BY <2>12 DEF ClientGivesUp
    <3>2. new \in CallType /\ new.at = Stage(c)
      BY <1>1 DEF CallType, Stage
    <3> QED
      BY <3>1, <3>2 DEF TakesNothing, Holds
  <2>13. CASE Cancelled(c)
    BY <2>2, <2>13 DEF Cancelled, Stages, Statuses
  <2> QED
    BY <2>4, <2>5, <2>6, <2>7, <2>8, <2>9, <2>10, <2>11, <2>12, <2>13
<1>4. UNCHANGED <<bucketVars, ticks, historyVars>>
  BY DEF Post, BreakerOpen, PassGates, Answered, TooMany, SleptOff, Failed, Retry, ClientGivesUp,
         Cancelled
<1>5. GatewayTypes'
  BY <1>1, <1>3, <1>4, OneCallMoves DEF GatewayTypes, GatewayConstantsOK, bucketVars, historyVars
<1>6. \A l \in Lane : SlotsOK(l)' /\ TokensOK(l)'
  BY <1>1, <1>3, <1>4, NoSlotTaken, NoTokenTaken DEF TakesNothing, historyVars
<1> QED
  BY <1>4, <1>5, <1>6, LanesStay DEF GatewayInv

(* The request goes to Genius: a call that had a token has sent.           *)
LEMMA SendStep == ASSUME GatewayInv, NEW c \in Caller, Send(c) PROVE GatewayInv'
<1> DEFINE new == [calls[c] EXCEPT !.at = "genius"]
<1>1. GatewayTypes /\ calls[c] \in CallType /\ LaneOf[c] \in Lane
  BY DEF GatewayInv, GatewayTypes, GatewayConstantsOK
<1>2. new \in CallType /\ new.at = "genius" /\ calls' = [calls EXCEPT ![c] = new]
      /\ Stage(c) = "limiter"
  BY <1>1 DEF CallType, Stages, Send, MoveTo
<1>3. /\ UNCHANGED <<bucket, filled, ticks, since, granted, waited>>
      /\ sent' = [sent EXCEPT ![LaneOf[c]] = sent[LaneOf[c]] + 1]
  BY DEF Send, bucketVars
<1> HIDE DEF new
<1>4. /\ calls' \in [Caller -> CallType] /\ calls'[c] = new
      /\ \A d \in Caller : d # c => calls'[d] = calls[d]
  BY <1>1, <1>2, OneCallMoves
<1>5. sent' \in [Lane -> Nat] /\ sent'[LaneOf[c]] = sent[LaneOf[c]] + 1
      /\ \A l \in Lane : l # LaneOf[c] => sent'[l] = sent[l]
  BY <1>1, <1>3 DEF GatewayTypes
<1>6. GatewayTypes'
  BY <1>1, <1>3, <1>4, <1>5 DEF GatewayTypes, GatewayConstantsOK
<1>7. \A l \in Lane : SlotsOK(l)'
  BY <1>1, <1>2, NoSlotTaken DEF GatewayInv, Holds
<1>8. ASSUME NEW l \in Lane PROVE TokensOK(l)'
  <2>1. /\ IsFiniteSet(Unsent(l)) /\ Cardinality(Unsent(l)) \in Nat
        /\ sent[l] \in Nat /\ granted[l] \in Nat /\ waited[l] \in Nat
        /\ sent[l] + Cardinality(Unsent(l)) <= granted[l] + waited[l]
    BY <1>1, UnsentIsFinite DEF GatewayTypes, GatewayInv, TokensOK
  <2>2. CASE LaneOf[c] = l
    <3>1. Unsent(l)' = Unsent(l) \ {c} /\ c \in Unsent(l)
      BY <1>2, <1>4, <2>2 DEF Unsent, Stage
    <3>2. Cardinality(Unsent(l) \ {c}) = Cardinality(Unsent(l)) - 1
      BY <2>1, <3>1, FS_RemoveElement
    <3> QED
      BY <1>3, <1>5, <2>1, <2>2, <3>1, <3>2 DEF TokensOK
  <2>3. CASE LaneOf[c] # l
    <3>1. Unsent(l)' = Unsent(l)
      BY <1>4, <2>3 DEF Unsent, Stage
    <3> QED
      BY <1>3, <1>5, <2>1, <2>3, <3>1 DEF TokensOK
  <2> QED
    BY <2>2, <2>3
<1>9. \A l \in Lane : LaneOK(l)'
  BY <1>3 DEF GatewayInv, LaneOK, Size
<1> QED
  BY <1>6, <1>7, <1>8, <1>9 DEF GatewayInv


LEMMA TakeSlotStep == ASSUME GatewayInv, NEW c \in Caller, TakeSlot(c) PROVE GatewayInv'
<1> DEFINE new == [calls[c] EXCEPT !.at = "limiter"]
<1>1. GatewayTypes /\ calls[c] \in CallType
  BY DEF GatewayInv, GatewayTypes
<1>2. new \in CallType /\ new.at = "limiter" /\ calls' = [calls EXCEPT ![c] = new]
  BY <1>1 DEF CallType, Stages, TakeSlot, MoveTo
<1>3. UNCHANGED <<bucketVars, ticks, historyVars>>
  BY DEF TakeSlot
<1> HIDE DEF new
<1>4. /\ calls' \in [Caller -> CallType] /\ calls'[c] = new
      /\ \A d \in Caller : d # c => calls'[d] = calls[d]
  BY <1>1, <1>2, OneCallMoves
<1>5. GatewayTypes'
  BY <1>1, <1>3, <1>4 DEF GatewayTypes, GatewayConstantsOK, bucketVars, historyVars
<1>6. ASSUME NEW l \in Lane PROVE SlotsOK(l)'
  <2>1. IsFiniteSet(Busy(l)) /\ Cardinality(Busy(l)) \in Nat /\ Concurrent[l] \in Nat
        /\ Cardinality(Busy(l)) <= Concurrent[l]
    BY <1>1, BusyIsFinite, FS_CardinalityType DEF GatewayTypes, GatewayConstantsOK, GatewayInv, SlotsOK
  <2>2. CASE LaneOf[c] = l
    <3>1. Busy(l)' = Busy(l) \cup {c}
      BY <1>2, <1>4, <2>2 DEF Busy, Holds, Stage
    <3>2. Cardinality(Busy(l) \cup {c}) \in {Cardinality(Busy(l)), Cardinality(Busy(l)) + 1}
      BY <2>1, FS_AddElement
    <3>3. Cardinality(Busy(l)) < Concurrent[l]
      BY <2>2 DEF TakeSlot
    <3> QED
      BY <2>1, <3>1, <3>2, <3>3 DEF SlotsOK
  <2>3. CASE LaneOf[c] # l
    <3>1. Busy(l)' = Busy(l)
      BY <1>4, <2>3 DEF Busy, Holds, Stage
    <3> QED
      BY <2>1, <3>1 DEF SlotsOK
  <2> QED
    BY <2>2, <2>3
<1>7. ASSUME NEW l \in Lane PROVE TokensOK(l)'
  <2>1. Unsent(l)' = Unsent(l)
    BY <1>2, <1>4 DEF Unsent, Stage, TakeSlot
  <2> QED
    BY <1>3, <2>1 DEF TokensOK, GatewayInv, historyVars
<1> QED
  BY <1>3, <1>5, <1>6, <1>7, LanesStay DEF GatewayInv

(* Taking a token, with the refill that is due.                            *)
LEMMA TakeTokenStep == ASSUME GatewayInv, NEW c \in Caller, TakeToken(c) PROVE GatewayInv'
<1> DEFINE l == LaneOf[c]
           due == ticks - filled[l] >= Refill[l]
           have == IF due THEN RefilledTokens(l) ELSE bucket[l]
           pays == have >= Refill[l]
<1>1. /\ GatewayTypes /\ l \in Lane /\ calls[c] \in CallType /\ Stage(c) = "bucket"
      /\ bucket[l] \in Nat /\ filled[l] \in Nat /\ granted[l] \in Nat /\ ticks \in Nat /\ since \in 0..ticks
      /\ Size(l) \in Nat /\ Refill[l] \in Nat \ {0}
      /\ LaneOK(l)
  BY SizeIsNat DEF GatewayInv, GatewayTypes, GatewayConstantsOK, TakeToken
<1>2. /\ filled' = IF due THEN [filled EXCEPT ![l] = ticks] ELSE filled
      /\ bucket' = [bucket EXCEPT ![l] = IF pays THEN have - Refill[l] ELSE have]
      /\ granted' = IF pays THEN [granted EXCEPT ![l] = @ + 1] ELSE granted
      /\ IF pays THEN MoveTo(c, "semaphore") ELSE calls' = calls
      /\ ticks' = ticks /\ since' = since /\ sent' = sent /\ waited' = waited
  BY DEF TakeToken
<1>3. /\ have \in Nat /\ have <= Size(l)
      /\ due => have <= bucket[l] + ticks - filled[l]
      /\ ~due => have = bucket[l]
  BY <1>1 DEF RefilledTokens, Size, LaneOK
<1> HIDE DEF have
<1>4. /\ filled' \in [Lane -> Nat] /\ bucket' \in [Lane -> Nat] /\ granted' \in [Lane -> Nat]
      /\ filled'[l] = IF due THEN ticks ELSE filled[l]
      /\ bucket'[l] = IF pays THEN have - Refill[l] ELSE have
      /\ granted'[l] = IF pays THEN granted[l] + 1 ELSE granted[l]
      /\ \A k \in Lane : k # l => filled'[k] = filled[k] /\ bucket'[k] = bucket[k] /\ granted'[k] = granted[k]
  BY <1>1, <1>2, <1>3 DEF GatewayTypes
<1>5. \E new \in CallType :
        /\ calls' = [calls EXCEPT ![c] = new]
        /\ new.at \in {"limiter", "genius", "backoff"} => Holds(c)
  <2>1. CASE pays
    <3> DEFINE new == [calls[c] EXCEPT !.at = "semaphore"]
    <3>1. new \in CallType /\ new.at = "semaphore" /\ calls' = [calls EXCEPT ![c] = new]
      BY <1>1, <1>2, <2>1 DEF CallType, Stages, MoveTo
    <3> QED
      BY <3>1
  <2>2. CASE ~pays
    <3>1. calls' = [calls EXCEPT ![c] = calls[c]]
      BY <1>1, <1>2, <2>2 DEF GatewayTypes
    <3> QED
      BY <1>1, <3>1 DEF Holds, Stage
  <2> QED
    BY <2>1, <2>2
<1>6. \A k \in Lane : SlotsOK(k)'
  BY <1>1, <1>5, NoSlotTaken DEF GatewayInv
<1>7. GatewayTypes'
  BY <1>1, <1>2, <1>4, <1>5, OneCallMoves DEF GatewayTypes, GatewayConstantsOK
<1>8. granted'[l] * Refill[l] + bucket'[l] = granted[l] * Refill[l] + have
  <2>1. \A g, r, h \in Nat : (g + 1) * r + (h - r) = g * r + h
    OBVIOUS
  <2>2. CASE pays
    <3>1. granted'[l] = granted[l] + 1 /\ bucket'[l] = have - Refill[l]
      BY <1>4, <2>2
    <3> QED
      BY <1>1, <1>3, <2>1, <3>1
  <2>3. CASE ~pays
    BY <1>4, <2>3
  <2> QED
    BY <2>2, <2>3
<1>9. granted[l] * Refill[l] \in Nat /\ (granted[l] = 0 => granted[l] * Refill[l] = 0)
  <2>1. \A g, r \in Nat : g * r \in Nat /\ 0 * r = 0
    OBVIOUS
  <2> QED
    BY <1>1, <2>1
<1>10. LaneOK(l)'
  <2> DEFINE G == granted[l] * Refill[l]
  <2>1. /\ bucket[l] <= Size(l) /\ filled[l] <= ticks
        /\ filled[l] < since =>
             /\ G + bucket[l] <= Size(l)
             /\ granted[l] > 0 => since < filled[l] + Refill[l]
        /\ filled[l] >= since =>
             G + bucket[l] <= Size(l) + (filled[l] - since) + (Refill[l] - 1)
    BY <1>1 DEF LaneOK
  <2>2. G \in Nat /\ (granted[l] = 0 => G = 0)
    BY <1>9
  <2> HIDE DEF G
  <2>3. bucket'[l] <= Size(l) /\ filled'[l] <= ticks
    BY <1>1, <1>3, <1>4, <2>1
  <2>4. CASE due
    <3>1. filled'[l] = ticks /\ have <= bucket[l] + ticks - filled[l]
      BY <1>3, <1>4, <2>4
    <3>2. G + have <= Size(l) + (ticks - since) + (Refill[l] - 1)
      <4>1. CASE filled[l] >= since
        BY <1>1, <1>3, <2>1, <2>2, <3>1, <4>1
      <4>2. CASE filled[l] < since /\ granted[l] = 0
        <5>1. G = 0 /\ have \in Nat /\ have <= Size(l) /\ Size(l) \in Nat
          BY <1>1, <1>3, <2>2, <4>2
        <5>2. \A h, z, t, n, r \in Nat : h <= z /\ n <= t /\ r # 0 => 0 + h <= z + (t - n) + (r - 1)
          OBVIOUS
        <5>3. ticks \in Nat /\ since \in Nat /\ since <= ticks /\ Refill[l] \in Nat /\ Refill[l] # 0
          BY <1>1
        <5> QED
          BY <5>1, <5>2, <5>3
      <4>3. CASE filled[l] < since /\ granted[l] > 0
        BY <1>1, <1>3, <2>1, <2>2, <3>1, <4>3
      <4> QED
        BY <1>1, <4>1, <4>2, <4>3
    <3>3. granted'[l] * Refill[l] + bucket'[l] <= Size(l) + (ticks - since) + (Refill[l] - 1)
      BY <1>8, <3>2 DEF G
    <3> QED
      BY <1>1, <1>2, <2>3, <3>1, <3>3 DEF LaneOK, Size
  <2>5. CASE ~due
    <3>1. filled'[l] = filled[l] /\ have = bucket[l] /\ ticks < filled[l] + Refill[l]
      BY <1>1, <1>3, <1>4, <2>5
    <3>2. granted'[l] * Refill[l] + bucket'[l] = G + bucket[l]
      BY <1>8, <3>1 DEF G
    <3>3. since < filled[l] + Refill[l]
      BY <1>1, <3>1
    <3> QED
      BY <1>1, <1>2, <2>1, <2>3, <3>1, <3>2, <3>3 DEF LaneOK, Size
  <2> QED
    BY <2>4, <2>5
<1>11. ASSUME NEW k \in Lane, k # l PROVE LaneOK(k)'
  <2>1. LaneOK(k)
    BY DEF GatewayInv
  <2> QED
    BY <1>2, <1>4, <1>11, <2>1 DEF LaneOK, Size
<1>12. ASSUME NEW k \in Lane PROVE TokensOK(k)'
  <2>1. /\ IsFiniteSet(Unsent(k)) /\ Cardinality(Unsent(k)) \in Nat
        /\ sent[k] \in Nat /\ granted[k] \in Nat /\ waited[k] \in Nat
        /\ sent[k] + Cardinality(Unsent(k)) <= granted[k] + waited[k]
    BY <1>1, UnsentIsFinite DEF GatewayTypes, GatewayInv, TokensOK
  <2>2. CASE pays
    <3> DEFINE new == [calls[c] EXCEPT !.at = "semaphore"]
    <3>1. new \in CallType /\ new.at = "semaphore" /\ calls' = [calls EXCEPT ![c] = new]
      BY <1>1, <1>2, <2>2 DEF CallType, Stages, MoveTo
    <3>2. calls'[c] = new /\ \A d \in Caller : d # c => calls'[d] = calls[d]
      BY <1>1, <3>1, OneCallMoves
    <3>3. CASE k = l
      <4>1. Unsent(k)' = Unsent(k) \cup {c} /\ c \notin Unsent(k)
        BY <1>1, <3>1, <3>2, <3>3 DEF Unsent, Stage
      <4>2. Cardinality(Unsent(k) \cup {c}) = Cardinality(Unsent(k)) + 1
        BY <2>1, <4>1, FS_AddElement
      <4>3. granted'[k] = granted[k] + 1
        BY <1>4, <2>2, <3>3
      <4>4. sent'[k] = sent[k] /\ waited'[k] = waited[k]
        BY <1>2
      <4> HIDE DEF l, pays, new
      <4> QED
        BY <2>1, <4>1, <4>2, <4>3, <4>4 DEF TokensOK
    <3>4. CASE k # l
      <4>1. Unsent(k)' = Unsent(k) /\ granted'[k] = granted[k]
        BY <1>4, <3>2, <3>4 DEF Unsent, Stage
      <4> QED
        BY <1>2, <2>1, <4>1 DEF TokensOK
    <3> QED
      BY <3>3, <3>4
  <2>3. CASE ~pays
    <3>1. Unsent(k)' = Unsent(k) /\ granted'[k] = granted[k]
      BY <1>2, <2>3 DEF Unsent, Stage
    <3> QED
      BY <1>2, <2>1, <3>1 DEF TokensOK
  <2> QED
    BY <2>2, <2>3
<1> QED
  BY <1>6, <1>7, <1>10, <1>11, <1>12 DEF GatewayInv

LEMMA ClockStep == GatewayInv /\ (ClockTicks \/ Observe) => GatewayInv'
<1> SUFFICES ASSUME GatewayInv, ClockTicks \/ Observe PROVE GatewayInv'
  OBVIOUS
<1>1. GatewayTypes /\ calls' = calls /\ bucket' = bucket /\ filled' = filled
  BY DEF GatewayInv, ClockTicks, Observe, bucketVars
<1>2. \A l \in Lane : SlotsOK(l)'
  BY <1>1 DEF GatewayInv, SlotsOK, Busy, Holds, Stage
<1>3. GatewayTypes'
  <2>1. CASE ClockTicks
    BY <1>1, <2>1 DEF ClockTicks, GatewayTypes, GatewayConstantsOK, historyVars
  <2>2. CASE Observe
    <3>1. \A l \in Lane : Cardinality(Unsent(l)) \in Nat
      BY <1>1, UnsentIsFinite DEF GatewayTypes
    <3> QED
      BY <1>1, <2>2, <3>1 DEF Observe, GatewayTypes, GatewayConstantsOK
  <2> QED
    BY <2>1, <2>2
<1>4. ASSUME NEW l \in Lane PROVE LaneOK(l)'
  <2>1. /\ bucket[l] \in Nat /\ filled[l] \in Nat /\ granted[l] \in Nat /\ ticks \in Nat /\ since \in 0..ticks
        /\ Size(l) \in Nat /\ Refill[l] \in Nat \ {0} /\ LaneOK(l)
    BY <1>1, SizeIsNat DEF GatewayTypes, GatewayInv
  <2>2. CASE ClockTicks
    <3>1. ticks' = ticks + 1 /\ since' = since /\ granted' = granted
      BY <2>2 DEF ClockTicks, historyVars
    <3> QED
      BY <1>1, <2>1, <3>1 DEF LaneOK, Size
  <2>3. CASE Observe
    <3>1. since' = ticks /\ granted'[l] = 0 /\ ticks' = ticks
      BY <2>3 DEF Observe
    <3>2. granted'[l] * Refill[l] = 0
      <4>1. \A r \in Nat : 0 * r = 0
        OBVIOUS
      <4> QED
        BY <2>1, <3>1, <4>1
    <3>3. bucket[l] <= Size(l) /\ filled[l] <= ticks
      BY <2>1 DEF LaneOK
    <3> HIDE DEF Size
    <3>4. granted'[l] * Refill[l] + bucket[l] <= Size(l)
      BY <2>1, <3>2, <3>3
    <3>5. Size(l)' = Size(l)
      BY DEF Size
    <3>6. filled[l] >= ticks => granted'[l] * Refill[l] + bucket[l] <= Size(l) + (filled[l] - ticks) + (Refill[l] - 1)
      BY <2>1, <3>2, <3>3, <3>4
    <3> QED
      BY <1>1, <2>1, <3>1, <3>3, <3>4, <3>5, <3>6 DEF LaneOK
  <2> QED
    BY <2>2, <2>3
<1>5. ASSUME NEW l \in Lane PROVE TokensOK(l)'
  <2>1. Unsent(l)' = Unsent(l) /\ Cardinality(Unsent(l)) \in Nat
    BY <1>1, UnsentIsFinite DEF GatewayTypes, Unsent, Stage
  <2>2. CASE ClockTicks
    BY <2>1, <2>2 DEF ClockTicks, historyVars, GatewayInv, TokensOK
  <2>3. CASE Observe
    <3>1. sent'[l] = 0 /\ granted'[l] = 0 /\ waited'[l] = Cardinality(Unsent(l))
      BY <2>3 DEF Observe
    <3> QED
      BY <2>1, <3>1 DEF TokensOK
  <2> QED
    BY <2>2, <2>3
<1> QED
  BY <1>2, <1>3, <1>4, <1>5 DEF GatewayInv

LEMMA GatewayBegins == GatewayConstantsOK /\ GatewayInit => GatewayInv
<1> SUFFICES ASSUME GatewayConstantsOK, GatewayInit PROVE GatewayInv
  OBVIOUS
<1>1. \A l \in Lane : Size(l) \in Nat /\ Refill[l] \in Nat \ {0}
  BY SizeIsNat
<1>2. bucket = [l \in Lane |-> Size(l)]
  BY DEF GatewayInit, Size
<1>3. calls \in [Caller -> CallType]
  BY DEF GatewayInit, NewCall, CallType, Stages
<1>4. GatewayTypes
  BY <1>1, <1>2, <1>3 DEF GatewayInit, GatewayTypes
<1>5. ASSUME NEW l \in Lane PROVE LaneOK(l)
  <2>1. \A r \in Nat : 0 * r = 0
    OBVIOUS
  <2>2. granted[l] * Refill[l] = 0
    BY <1>1, <2>1 DEF GatewayInit
  <2>3. bucket[l] = Size(l) /\ filled[l] = 0 /\ ticks = 0 /\ since = 0
    BY <1>2 DEF GatewayInit
  <2>4. Size(l) \in Nat /\ Refill[l] \in Nat \ {0}
    BY <1>1
  <2> QED
    BY <2>2, <2>3, <2>4 DEF LaneOK
<1>6. ASSUME NEW l \in Lane PROVE SlotsOK(l)
  <2>1. Busy(l) = {}
    BY DEF GatewayInit, NewCall, Busy, Holds, Stage
  <2> QED
    BY <2>1, FS_EmptySet DEF SlotsOK, GatewayConstantsOK
<1>7. ASSUME NEW l \in Lane PROVE TokensOK(l)
  <2>1. Unsent(l) = {}
    BY DEF GatewayInit, NewCall, Unsent, Stage
  <2>2. Cardinality(Unsent(l)) = 0
    BY <2>1, FS_EmptySet
  <2> QED
    BY <2>2 DEF GatewayInit, TokensOK
<1> QED
  BY <1>4, <1>5, <1>6, <1>7 DEF GatewayInv

LEMMA GatewayStays == GatewayInv /\ UNCHANGED geniusVars => GatewayInv'
BY DEF GatewayInv, geniusVars, GatewayTypes, GatewayConstantsOK, LaneOK, SlotsOK, Busy, Holds, Stage, Size,
       TokensOK, Unsent

(* A quotient is as large as its product allows. *)
LEMMA AtMostQuotient ==
  ASSUME NEW g \in Int, NEW r \in Nat \ {0}, NEW x \in Int, g * r <= x
  PROVE  g <= x \div r
OBVIOUS

(* In any span of time a lane sends to Genius no more than its burst, one  *)
(* request per period begun and one for each call that had its token when  *)
(* the span began and waited behind it (resilience.cpp:260-264), and no    *)
(* more at once than its semaphore has slots.                              *)
THEOREM LoadIsBoundedHolds == GatewayConstantsOK /\ GatewaySpec => []LoadIsBounded
<1>1. GatewayInv /\ [GatewayNext]_geniusVars => GatewayInv'
  BY CallStep, SendStep, TakeSlotStep, TakeTokenStep, ClockStep, GatewayStays DEF GatewayNext, GeniusGet
<1>2. GatewayInv => LoadIsBounded
  <2> SUFFICES ASSUME GatewayInv, NEW l \in Lane
               PROVE  /\ sent[l] <= waited[l] + Burst[l] + (ticks - since + Refill[l] - 1) \div Refill[l]
                      /\ Cardinality(Busy(l)) <= Concurrent[l]
    BY DEF LoadIsBounded
  <2>1. /\ bucket[l] \in Nat /\ filled[l] \in Nat /\ granted[l] \in Nat /\ ticks \in Nat /\ since \in 0..ticks
        /\ Burst[l] \in Nat /\ Refill[l] \in Nat \ {0} /\ LaneOK(l)
    BY DEF GatewayInv, GatewayTypes, GatewayConstantsOK
  <2>2. granted[l] * Refill[l] <= Burst[l] * Refill[l] + (ticks - since + Refill[l] - 1)
    <3> DEFINE G == granted[l] * Refill[l]
               F == Burst[l] * Refill[l]
    <3>1. G \in Nat /\ F \in Nat
      <4>1. \A g, r \in Nat : g * r \in Nat
        OBVIOUS
      <4> QED
        BY <2>1, <4>1
    <3>2. /\ filled[l] <= ticks
          /\ filled[l] < since => G + bucket[l] <= F
          /\ filled[l] >= since => G + bucket[l] <= F + (filled[l] - since) + (Refill[l] - 1)
      BY <2>1 DEF LaneOK, Size
    <3> HIDE DEF G, F
    <3>3. G <= F + (ticks - since + Refill[l] - 1)
      BY <2>1, <3>1, <3>2
    <3> QED
      BY <3>3 DEF G, F
  <2>3. (granted[l] - Burst[l]) * Refill[l] <= ticks - since + Refill[l] - 1
    <3>1. \A g, b, r \in Nat, x \in Int : g * r <= b * r + x => (g - b) * r <= x
      OBVIOUS
    <3> QED
      BY <2>1, <2>2, <3>1
  <2>4. granted[l] - Burst[l] <= (ticks - since + Refill[l] - 1) \div Refill[l]
    <3> DEFINE g == granted[l] - Burst[l]
               x == ticks - since + Refill[l] - 1
    <3>1. g \in Int /\ x \in Int /\ g * Refill[l] <= x
      BY <2>1, <2>3
    <3> HIDE DEF g, x
    <3>2. g <= x \div Refill[l]
      BY <2>1, <3>1, AtMostQuotient
    <3> QED
      BY <3>2 DEF g, x
  <2>5. (ticks - since + Refill[l] - 1) \div Refill[l] \in Int
    BY <2>1
  <2>6. /\ sent[l] + Cardinality(Unsent(l)) <= granted[l] + waited[l]
        /\ Cardinality(Unsent(l)) \in Nat /\ sent[l] \in Nat /\ waited[l] \in Nat
    BY UnsentIsFinite DEF GatewayInv, GatewayTypes, TokensOK
  <2>7. sent[l] <= waited[l] + Burst[l] + (ticks - since + Refill[l] - 1) \div Refill[l]
    <3> DEFINE q == (ticks - since + Refill[l] - 1) \div Refill[l]
    <3>1. q \in Int /\ granted[l] - Burst[l] <= q
      BY <2>4, <2>5
    <3> HIDE DEF q
    <3>2. sent[l] <= waited[l] + Burst[l] + q
      BY <2>1, <2>6, <3>1
    <3> QED
      BY <3>2 DEF q
  <2> QED
    BY <2>7 DEF GatewayInv, SlotsOK
<1> QED
  BY <1>1, <1>2, GatewayBegins, PTL DEF GatewaySpec


-----------------------------------------------------------------------------
(* The rate limit store.                                                   *)

Window0 == [start : Nat, n : Nat]
AnAdmission == [by : {"count", "failure"}, start : Nat, life : Nat, n : Nat, at : Nat]

LimitTypes ==
  /\ LimitsConstantsOK
  /\ shared \in BOOLEAN /\ clock \in Nat
  /\ DOMAIN buckets \subseteq Key \X Nat /\ \A b \in DOMAIN buckets : buckets[b] \in Nat \ {0}
  /\ \A b, c \in DOMAIN buckets : b[1] = c[1] => b = c
  /\ served \in [Key -> Window0]
  /\ recent \in [Key -> SUBSET AnAdmission]
  /\ forgotten \in [Key -> Nat] /\ failures \in Nat

Aligned(k, start) == shared => \E m \in Nat : start = m * Window[k]

(* The bucket of a window has counted all that was admitted in it.         *)
CountsServed(k) ==
  LET s == served[k] IN
  /\ s.n <= Max[k] /\ s.start <= clock /\ Aligned(k, s.start)
  /\ s.n > 0 /\ ValidStart(k, s.start) =>
       <<k, s.start>> \in DOMAIN buckets /\ buckets[<<k, s.start>>] >= s.n
  /\ ~shared => \A b \in DOMAIN buckets :
       b[1] = k /\ ValidStart(k, b[2]) => s.n > 0 /\ b[2] = s.start

(* A counted admission lies in its window and has a number of it; what a   *)
(* counter that is alive admitted was in its window or an earlier one.     *)
Placed(k, a) ==
  LET s == served[k] IN
  /\ a.n >= 1 /\ a.n <= Max[k] /\ a.start <= a.at /\ a.at < a.start + Window[k]
  /\ a.at <= clock /\ Aligned(k, a.start) /\ a.life <= forgotten[k]
  /\ ~shared /\ a.n = 1 => a.at = a.start
  /\ a.life = forgotten[k] =>
       /\ s.n > 0
       /\ (a.start = s.start /\ a.n <= s.n) \/ a.start + Window[k] <= s.start
  /\ a.life < forgotten[k] /\ s.n > 0 => a.start <= s.start

(* Two of them are less than a window's length apart; windows of one life  *)
(* of the counter do not overlap, later lives have no earlier windows, and *)
(* none has a number twice.                                                *)
Ordered(k, a, b) ==
  /\ a.at < b.at + Window[k]
  /\ a.life = b.life =>
       a.start = b.start \/ a.start + Window[k] <= b.start \/ b.start + Window[k] <= a.start
  /\ a.life < b.life => a.start <= b.start
  /\ a.life = b.life /\ a.start = b.start /\ a.n = b.n => a = b

Admissions(k) ==
  /\ IsFiniteSet(recent[k])
  /\ \A a \in CountedOf(k) : Placed(k, a)
  /\ \A a, b \in CountedOf(k) : Ordered(k, a, b)

ForgottenByShorter(k) == forgotten[k] > 0 => \E j \in Key : Window[k] > 2 * Window[j]

LimitInv ==
  /\ LimitTypes
  /\ \A k \in Key : CountsServed(k) /\ Admissions(k) /\ ForgottenByShorter(k)

-----------------------------------------------------------------------------
(* Windows that are aligned to the clock.                                  *)
LEMMA Floor ==
  ASSUME NEW t \in Nat, NEW w \in Nat \ {0}
  PROVE  /\ t \div w \in Nat /\ (t \div w) * w \in Nat
         /\ (t \div w) * w <= t /\ t < (t \div w) * w + w
OBVIOUS

LEMMA Multiples ==
  ASSUME NEW a \in Nat, NEW b \in Nat, NEW w \in Nat \ {0}
  PROVE  /\ a <= b => a * w <= b * w
         /\ a < b => a * w + w <= b * w
         /\ a * w \in Nat
OBVIOUS

LEMMA FloorIs ==
  ASSUME NEW t \in Nat, NEW w \in Nat \ {0}, NEW m \in Nat, m * w <= t
  PROVE  /\ t < m * w + w => (t \div w) * w = m * w
         /\ ~(t < m * w + w) => m * w + w <= (t \div w) * w
<1> DEFINE q == t \div w
<1>1. q \in Nat /\ q * w <= t /\ t < q * w + w /\ q * w \in Nat
  BY Floor
<1> HIDE DEF q
<1>2. m * w \in Nat
  BY Multiples
<1>3. m <= q
  <2>1. q < m => q * w + w <= m * w
    BY <1>1, Multiples
  <2> QED
    BY <1>1, <1>2, <2>1
<1>4. m < q => m * w + w <= q * w
  BY <1>1, Multiples
<1>5. CASE m = q
  BY <1>1, <1>5 DEF q
<1>6. CASE m < q
  BY <1>1, <1>2, <1>4, <1>6 DEF q
<1> QED
  BY <1>1, <1>3, <1>5, <1>6

LEMMA Windows ==
  ASSUME LimitTypes, NEW k \in Key
  PROVE  /\ Window[k] \in Nat \ {0} /\ Max[k] \in Nat \ {0}
         /\ NewStart(k) \in Nat /\ NewStart(k) <= clock /\ clock < NewStart(k) + Window[k]
         /\ Aligned(k, NewStart(k)) /\ ValidStart(k, NewStart(k))
<1>1. Window[k] \in Nat \ {0} /\ Max[k] \in Nat \ {0} /\ clock \in Nat
  BY DEF LimitTypes, LimitsConstantsOK
<1>2. CASE shared
  <2>1. NewStart(k) = (clock \div Window[k]) * Window[k] /\ clock \div Window[k] \in Nat
    BY <1>1, <1>2, Floor DEF NewStart
  <2>2. NewStart(k) \in Nat /\ NewStart(k) <= clock /\ clock < NewStart(k) + Window[k]
    BY <1>1, <2>1, Floor
  <2> QED
    BY <1>1, <1>2, <2>1, <2>2 DEF Aligned, ValidStart
<1>3. CASE ~shared
  BY <1>1, <1>3 DEF NewStart, Aligned, ValidStart
<1> QED
  BY <1>2, <1>3

LEMMA Validity ==
  ASSUME LimitTypes, NEW k \in Key, NEW s \in Nat, s <= clock, Aligned(k, s)
  PROVE  /\ ValidStart(k, s) <=> clock < s + Window[k]
         /\ ~ValidStart(k, s) => s + Window[k] <= NewStart(k)
<1>1. Window[k] \in Nat \ {0} /\ clock \in Nat
  BY DEF LimitTypes, LimitsConstantsOK
<1>2. CASE shared
  <2>1. PICK m \in Nat : s = m * Window[k]
    BY <1>2 DEF Aligned
  <2>2. NewStart(k) = (clock \div Window[k]) * Window[k]
    BY <1>2 DEF NewStart
  <2>3. /\ clock < s + Window[k] => NewStart(k) = s
        /\ ~(clock < s + Window[k]) => s + Window[k] <= NewStart(k)
    BY <1>1, <2>1, <2>2, FloorIs, ZenonT(40)
  <2>4. NewStart(k) = s => clock < s + Window[k]
    BY Windows
  <2> QED
    BY <1>2, <2>3, <2>4 DEF ValidStart
<1>3. CASE ~shared
  BY <1>1, <1>3 DEF ValidStart, NewStart
<1> QED
  BY <1>2, <1>3

-----------------------------------------------------------------------------
(* Counting.                                                               *)
LEMMA BucketIs ==
  ASSUME LimitTypes, NEW k \in Key, NEW kept \in SUBSET DOMAIN buckets
  PROVE  LET b == BucketOf(k, kept) IN
         /\ b \in Key \X Nat /\ b[1] = k /\ ValidStart(k, b[2])
         /\ b \notin kept => b = <<k, NewStart(k)>> /\ \A o \in kept : o[1] = k => ~ValidStart(k, o[2])
         /\ shared => b = <<k, NewStart(k)>>
<1> DEFINE valid == {b \in kept : b[1] = k /\ ValidStart(k, b[2])}
           b == BucketOf(k, kept)
<1>1. CASE valid = {}
  <2>1. b = <<k, NewStart(k)>>
    BY <1>1 DEF BucketOf
  <2>2. NewStart(k) \in Nat /\ ValidStart(k, NewStart(k))
    BY Windows
  <2> QED
    BY <1>1, <2>1, <2>2
<1>2. CASE valid # {}
  <2>1. b \in valid
    BY <1>2 DEF BucketOf
  <2>2. b \in Key \X Nat /\ b[1] = k /\ ValidStart(k, b[2]) /\ b \in kept
    BY <2>1 DEF LimitTypes
  <2>3. shared => b = <<k, NewStart(k)>>
    BY <2>2 DEF ValidStart
  <2> QED
    BY <2>2, <2>3
<1> QED
  BY <1>1, <1>2

LEMMA CountIs ==
  ASSUME LimitTypes, NEW k \in Key, NEW kept \in SUBSET DOMAIN buckets
  PROVE  LET b == BucketOf(k, kept)
             c == Counted(k, kept)
         IN
         /\ b \in DOMAIN c /\ c[b] = CountIn(b, kept) /\ CountIn(b, kept) \in Nat \ {0}
         /\ b \in kept => /\ CountIn(b, kept) >= buckets[b]
                          /\ buckets[b] <= Max[k] => CountIn(b, kept) = buckets[b] + 1
         /\ b \notin kept => CountIn(b, kept) = 1
         /\ \A o \in DOMAIN c : o = b \/ (o \in kept /\ o[1] # k /\ c[o] = buckets[o])
         /\ \A o \in kept : o[1] # k /\ ValidStart(o[1], o[2]) => o \in DOMAIN c /\ c[o] = buckets[o]
<1> DEFINE b == BucketOf(k, kept)
           others == {o \in kept : o[1] # k /\ ValidStart(o[1], o[2])}
           c == Counted(k, kept)
<1>1. b[1] = k
  BY BucketIs
<1>2. Max[k] \in Nat
  BY Windows
<1>3. b \in kept => buckets[b] \in Nat \ {0}
  BY DEF LimitTypes
<1>4. /\ CountIn(b, kept) \in Nat \ {0}
      /\ b \in kept => /\ CountIn(b, kept) >= buckets[b]
                       /\ buckets[b] <= Max[k] => CountIn(b, kept) = buckets[b] + 1
      /\ b \notin kept => CountIn(b, kept) = 1
  <2> HIDE DEF b
  <2>1. CASE b \in kept
    BY <1>1, <1>2, <1>3, <2>1 DEF CountIn
  <2>2. CASE b \notin kept
    BY <2>2 DEF CountIn
  <2> QED
    BY <2>1, <2>2
<1>5. c = [o \in others \cup {b} |-> IF o = b THEN CountIn(b, kept) ELSE buckets[o]]
  BY DEF Counted
<1>6. b \notin others
  BY <1>1
<1> HIDE DEF b, c
<1> QED
  BY <1>4, <1>5, <1>6 DEF b, c

LEMMA CountedTypes ==
  ASSUME LimitTypes, NEW k \in Key, NEW kept \in SUBSET DOMAIN buckets, NEW gone
  PROVE  LET c == Without(Counted(k, kept), gone) IN
         /\ DOMAIN c \subseteq Key \X Nat /\ \A b \in DOMAIN c : c[b] \in Nat \ {0}
         /\ \A o, p \in DOMAIN c : o[1] = p[1] => o = p
         /\ DOMAIN Counted(k, kept) \subseteq Key \X Nat
         /\ \A b \in DOMAIN Counted(k, kept) : Counted(k, kept)[b] \in Nat \ {0}
         /\ \A o, p \in DOMAIN Counted(k, kept) : o[1] = p[1] => o = p
<1> DEFINE b == BucketOf(k, kept)
           c == Counted(k, kept)
<1>1. b \in Key \X Nat /\ b[1] = k
  BY BucketIs
<1>2. /\ c[b] \in Nat \ {0}
      /\ \A o \in DOMAIN c : o = b \/ (o \in kept /\ o[1] # k /\ c[o] = buckets[o])
  BY CountIs
<1> HIDE DEF b, c
<1>3. /\ DOMAIN c \subseteq Key \X Nat /\ \A o \in DOMAIN c : c[o] \in Nat \ {0}
      /\ \A o, p \in DOMAIN c : o[1] = p[1] => o = p
  BY <1>1, <1>2 DEF LimitTypes
<1>4. DOMAIN Without(c, gone) \subseteq DOMAIN c /\ \A o \in DOMAIN Without(c, gone) : Without(c, gone)[o] = c[o]
  BY DEF Without
<1> QED
  BY <1>3, <1>4 DEF c

(* Who collects a valid bucket has a window less than half as long.        *)
LEMMA CollectedIsLonger ==
  ASSUME LimitTypes, NEW k \in Key, NEW b \in Collected(k), ValidStart(b[1], b[2])
  PROVE  b[1] \in Key /\ Window[b[1]] > 2 * Window[k]
<1>1. b \in Key \X Nat /\ TooOld(k, b[2])
  BY DEF Collected, LimitTypes
<1>2. b[1] \in Key /\ b[2] \in Nat /\ clock \in Nat
  BY <1>1 DEF LimitTypes
<1>3. Window[k] \in Nat \ {0} /\ Window[b[1]] \in Nat \ {0}
  BY <1>2, Windows
<1>4. CASE shared
  <2>1. b[2] = NewStart(b[1]) /\ clock < NewStart(b[1]) + Window[b[1]]
    BY <1>2, <1>4, Windows DEF ValidStart
  <2>2. b[2] < clock - 4 * Window[k]
    BY <1>1, <1>4 DEF TooOld
  <2> QED
    BY <1>2, <1>3, <2>1, <2>2
<1>5. CASE ~shared
  BY <1>1, <1>2, <1>3, <1>5 DEF TooOld, ValidStart
<1> QED
  BY <1>2, <1>4, <1>5

LEMMA OwnIsKept ==
  ASSUME LimitTypes, NEW k \in Key, NEW start \in Nat, ValidStart(k, start)
  PROVE  ~TooOld(k, start)
<1>1. Window[k] \in Nat \ {0} /\ clock \in Nat
  BY Windows DEF LimitTypes
<1>2. CASE shared
  <2>1. start = NewStart(k) /\ clock < NewStart(k) + Window[k]
    BY <1>2, Windows DEF ValidStart
  <2> QED
    BY <1>1, <1>2, <2>1 DEF TooOld
<1>3. CASE ~shared
  BY <1>1, <1>3 DEF TooOld, ValidStart
<1> QED
  BY <1>2, <1>3
-----------------------------------------------------------------------------
(* What a request does to the history of its own key.                      *)
LEMMA StartsInOrder ==
  ASSUME LimitTypes, NEW k \in Key, NEW a \in Nat, a <= clock, Aligned(k, a)
  PROVE  a <= NewStart(k)
<1>1. Window[k] \in Nat \ {0} /\ clock \in Nat /\ NewStart(k) \in Nat
  BY Windows DEF LimitTypes
<1>2. CASE ValidStart(k, a)
  BY <1>1, <1>2 DEF ValidStart, NewStart
<1>3. CASE ~ValidStart(k, a)
  <2>1. a + Window[k] <= NewStart(k)
    BY <1>3, Validity
  <2> QED
    BY <1>1, <2>1
<1> QED
  BY <1>2, <1>3

(* What is recorded of a request leaves the earlier ones of its last       *)
(* window, and itself.                                                     *)
LEMMA RecordedIs ==
  ASSUME LimitTypes, NEW k \in Key, IsFiniteSet(recent[k]),
         NEW by \in {"count", "failure"}, NEW now \in Window0,
         recent' = Recorded(k, by, now)
  PROVE  LET kept == {a \in recent[k] : a.at > clock - Window[k]}
             new == [by |-> by, start |-> now.start, life |-> forgotten[k], n |-> now.n, at |-> clock]
         IN
         /\ recent' \in [Key -> SUBSET AnAdmission]
         /\ recent'[k] = kept \cup {new} /\ new \in AnAdmission
         /\ IsFiniteSet(recent'[k])
         /\ \A j \in Key \ {k} : recent'[j] = recent[j]
<1> DEFINE kept == {a \in recent[k] : a.at > clock - Window[k]}
           new == [by |-> by, start |-> now.start, life |-> forgotten[k], n |-> now.n, at |-> clock]
<1>1. new \in AnAdmission
  BY DEF LimitTypes, Window0, AnAdmission
<1>2. kept \subseteq recent[k] /\ recent[k] \subseteq AnAdmission
  BY DEF LimitTypes
<1>3. recent' = [recent EXCEPT ![k] = kept \cup {new}]
  BY DEF Recorded
<1>4. IsFiniteSet(kept \cup {new})
  <2>1. IsFiniteSet(kept)
    BY <1>2, FS_Subset
  <2> HIDE DEF kept, new
  <2> QED
    BY <2>1, FS_AddElement
<1> HIDE DEF kept, new
<1>5. kept \cup {new} \in SUBSET AnAdmission
  BY <1>1, <1>2
<1>6. recent' \in [Key -> SUBSET AnAdmission] /\ recent'[k] = kept \cup {new}
      /\ \A j \in Key \ {k} : recent'[j] = recent[j]
  BY <1>3, <1>5 DEF LimitTypes
<1> QED
  BY <1>1, <1>4, <1>6 DEF kept, new

(* Where a counted admission is placed next to what its counter had.       *)
LEMMA AdmissionIs ==
  ASSUME LimitTypes, NEW k \in Key, CountsServed(k)
  PROVE  LET now == Admission(k)
             s == served[k]
         IN
         /\ now \in Window0 /\ now.n >= 1 /\ now.start <= clock /\ clock < now.start + Window[k]
         /\ Aligned(k, now.start)
         /\ ~shared /\ now.n = 1 => clock = now.start
         /\ s.n = 0 => now.n = 1 /\ now.start = NewStart(k)
         /\ s.n > 0 => \/ now.start = s.start /\ now.n = s.n + 1
                       \/ s.start + Window[k] <= now.start
<1> DEFINE s == served[k]
           same == s.n > 0 /\ ValidStart(k, s.start)
           now == Admission(k)
<1>1. s \in Window0 /\ clock \in Nat /\ Window[k] \in Nat \ {0}
  BY Windows DEF LimitTypes
<1>2. now = IF same THEN [start |-> s.start, n |-> s.n + 1] ELSE [start |-> NewStart(k), n |-> 1]
  BY DEF Admission
<1>3. /\ NewStart(k) \in Nat /\ NewStart(k) <= clock /\ clock < NewStart(k) + Window[k]
      /\ Aligned(k, NewStart(k)) /\ (~shared => NewStart(k) = clock)
  BY Windows DEF NewStart
<1>4. /\ s.start <= clock /\ s.start \in Nat /\ s.n \in Nat /\ Aligned(k, s.start)
      /\ ValidStart(k, s.start) <=> clock < s.start + Window[k]
      /\ ~ValidStart(k, s.start) => s.start + Window[k] <= NewStart(k)
  BY <1>1, Validity DEF CountsServed, Window0
<1> HIDE DEF now, s
<1>5. CASE same
  <2>1. now = [start |-> s.start, n |-> s.n + 1]
    BY <1>2, <1>5, Zenon
  <2>2. now.start = s.start /\ now.n = s.n + 1 /\ now \in Window0
    BY <1>4, <2>1 DEF Window0
  <2>3. s.n > 0 /\ clock < s.start + Window[k]
    BY <1>4, <1>5
  <2>4. now.n >= 1 /\ now.n # 1 /\ s.n # 0
    BY <1>4, <2>2, <2>3
  <2>5. Aligned(k, now.start) /\ now.start <= clock /\ clock < now.start + Window[k]
    BY <1>4, <2>2, <2>3
  <2> QED
    BY <2>2, <2>4, <2>5 DEF now, s
<1>6. CASE ~same
  <2>1. now = [start |-> NewStart(k), n |-> 1]
    BY <1>2, <1>6, Zenon
  <2>2. now.start = NewStart(k) /\ now.n = 1 /\ now \in Window0
    BY <1>3, <2>1 DEF Window0
  <2>3. s.n > 0 => s.start + Window[k] <= NewStart(k)
    BY <1>4, <1>6
  <2>4. Aligned(k, now.start) /\ now.start <= clock /\ clock < now.start + Window[k]
    BY <1>3, <2>2
  <2> QED
    BY <1>3, <2>2, <2>3, <2>4 DEF now, s
<1> HIDE DEF same
<1> QED
  BY <1>5, <1>6

(* A counted admission goes on with what Admissions says of its key.       *)
LEMMA AdmittedWindows ==
  ASSUME LimitTypes, NEW k \in Key, CountsServed(k), Admissions(k),
         recent' = Recorded(k, "count", Admission(k)), served'[k] = Admission(k),
         forgotten'[k] = forgotten[k],
         Admission(k).n <= Max[k], UNCHANGED <<shared, clock>>
  PROVE  Admissions(k)' /\ recent' \in [Key -> SUBSET AnAdmission]
<1> DEFINE s == served[k]
           now == Admission(k)
           new == [by |-> "count", start |-> now.start, life |-> forgotten[k], n |-> now.n, at |-> clock]
           kept == {a \in recent[k] : a.at > clock - Window[k]}
           w == Window[k]
           f == forgotten[k]
<1>1. s \in Window0 /\ clock \in Nat /\ w \in Nat \ {0} /\ f \in Nat /\ recent[k] \subseteq AnAdmission
  BY Windows DEF LimitTypes
<1>2. /\ now \in Window0 /\ now.n >= 1 /\ now.start <= clock /\ clock < now.start + w
      /\ Aligned(k, now.start)
      /\ ~shared /\ now.n = 1 => clock = now.start
      /\ s.n = 0 => now.n = 1 /\ now.start = NewStart(k)
      /\ s.n > 0 => \/ now.start = s.start /\ now.n = s.n + 1
                    \/ s.start + w <= now.start
  BY AdmissionIs
<1>3. /\ recent' \in [Key -> SUBSET AnAdmission]
      /\ recent'[k] = kept \cup {new} /\ IsFiniteSet(recent'[k])
  BY <1>2, RecordedIs DEF Admissions
<1>4. /\ new.by = "count" /\ new.start = now.start /\ new.life = f /\ new.n = now.n /\ new.at = clock
      /\ now.start \in Nat /\ now.n \in Nat /\ s.start \in Nat /\ s.n \in Nat
  BY <1>1, <1>2 DEF Window0
<1>5. \A a \in kept : a \in recent[k] /\ a.at > clock - w /\ a.start \in Nat /\ a.n \in Nat
                      /\ a.at \in Nat /\ a.life \in Nat
  BY <1>1 DEF AnAdmission
<1>6. \A a \in kept : a.by = "count" => Placed(k, a)
  BY <1>5 DEF Admissions, CountedOf
<1>7. \A a, b \in kept : a.by = "count" /\ b.by = "count" => Ordered(k, a, b)
  BY <1>5 DEF Admissions, CountedOf
<1> HIDE DEF now, new, kept, w, f, s
<1>8. ASSUME NEW a \in kept, a.by = "count"
      PROVE  /\ a.at <= clock /\ clock < a.at + w
             /\ a.life <= f
             /\ a.life = f => \/ a.start = now.start /\ a.n < now.n
                              \/ a.start + w <= now.start
             /\ a.life < f => a.start <= now.start
  <2>1. /\ a.start \in Nat /\ a.n \in Nat /\ a.at \in Nat /\ a.life \in Nat /\ a.at > clock - w
        /\ a.start <= a.at /\ a.at <= clock /\ Aligned(k, a.start) /\ a.life <= f
        /\ a.life = f => /\ s.n > 0
                         /\ (a.start = s.start /\ a.n <= s.n) \/ a.start + w <= s.start
        /\ a.life < f /\ s.n > 0 => a.start <= s.start
    BY <1>5, <1>6, <1>8, Zenon DEF Placed, s, w, f
  <2>2. a.start <= NewStart(k) /\ NewStart(k) \in Nat
    <3>1. a.start <= clock
      BY <1>1, <2>1
    <3> QED
      BY <2>1, <3>1, StartsInOrder, Windows
  <2>3. clock < a.at + w
    BY <1>1, <2>1
  <2>4. s.n > 0 => s.start <= now.start
    BY <1>1, <1>2, <1>4
  <2>5. a.life < f => a.start <= now.start
    BY <1>2, <1>4, <2>1, <2>2, <2>4
  <2>6. a.life = f => \/ a.start = now.start /\ a.n < now.n
                     \/ a.start + w <= now.start
    BY <1>1, <1>2, <1>4, <2>1
  <2> QED
    BY <2>1, <2>3, <2>5, <2>6
<1>9. \A a : Aligned(k, a)' <=> Aligned(k, a)
  BY DEF Aligned
<1>10. ASSUME NEW a \in kept \cup {new}, a.by = "count" PROVE Placed(k, a)'
  <2>1. /\ a.n >= 1 /\ a.n <= Max[k] /\ a.start <= a.at /\ a.at < a.start + w
        /\ a.at <= clock /\ Aligned(k, a.start) /\ a.life <= f
        /\ ~shared /\ a.n = 1 => a.at = a.start
        /\ a.life = f => (a.start = now.start /\ a.n <= now.n) \/ a.start + w <= now.start
        /\ a.life < f => a.start <= now.start
    <3>1. CASE a \in kept
      <4>1. /\ a.n >= 1 /\ a.n <= Max[k] /\ a.start <= a.at /\ a.at < a.start + w
            /\ Aligned(k, a.start)
            /\ ~shared /\ a.n = 1 => a.at = a.start
        BY <1>6, <1>10, <3>1, Zenon DEF Placed, w
      <4>2. a.n \in Nat
        BY <1>5, <3>1
      <4> QED
        BY <1>4, <1>8, <1>10, <3>1, <4>1, <4>2
    <3>2. CASE a = new
      <4>1. a.n = now.n /\ a.start = now.start /\ a.at = clock /\ a.life = f
        BY <1>4, <3>2
      <4>2. now.n <= Max[k]
        BY DEF now
      <4> QED
        BY <1>1, <1>2, <1>4, <4>1, <4>2
    <3> QED
      BY <3>1, <3>2
  <2>2. now.n > 0
    BY <1>2, <1>4
  <2>3. served'[k] = now /\ forgotten'[k] = f /\ clock' = clock /\ shared' = shared
    BY DEF now, f
  <2>4. Aligned(k, a.start)'
    BY <1>9, <2>1
  <2> QED
    BY <2>1, <2>2, <2>3, <2>4 DEF Placed, w
<1>11. ASSUME NEW a \in kept \cup {new}, NEW b \in kept \cup {new}, a.by = "count", b.by = "count"
       PROVE  Ordered(k, a, b)'
  <2>1. Ordered(k, a, b)
    <3>1. CASE a \in kept /\ b \in kept
      BY <1>7, <1>11, <3>1
    <3>2. CASE a \in kept /\ b = new
      <4>1. b.life = f /\ b.start = now.start /\ b.n = now.n /\ b.at = clock
        BY <1>4, <3>2
      <4>2. /\ a.at <= clock /\ clock < a.at + w /\ a.life <= f
            /\ a.life = f => \/ a.start = now.start /\ a.n < now.n
                             \/ a.start + w <= now.start
            /\ a.life < f => a.start <= now.start
        BY <1>8, <1>11, <3>2
      <4>3. a.at \in Nat /\ a.n \in Nat /\ a.start \in Nat
        BY <1>5, <3>2
      <4>4. a.at < b.at + w /\ ~(a.life = b.life /\ a.start = b.start /\ a.n = b.n)
        BY <1>1, <1>4, <4>1, <4>2, <4>3
      <4> QED
        BY <4>1, <4>2, <4>4 DEF Ordered, w
    <3>3. CASE a = new /\ b \in kept
      <4>1. a.life = f /\ a.start = now.start /\ a.n = now.n /\ a.at = clock
        BY <1>4, <3>3
      <4>2. /\ b.at <= clock /\ clock < b.at + w /\ b.life <= f
            /\ b.life = f => \/ b.start = now.start /\ b.n < now.n
                             \/ b.start + w <= now.start
        BY <1>8, <1>11, <3>3
      <4>3. b.at \in Nat /\ b.n \in Nat /\ b.start \in Nat /\ b.life \in Nat
        BY <1>5, <3>3
      <4>4. ~(a.life < b.life) /\ ~(a.life = b.life /\ a.start = b.start /\ a.n = b.n)
        BY <1>1, <1>4, <4>1, <4>2, <4>3
      <4> QED
        BY <4>1, <4>2, <4>4 DEF Ordered, w
    <3>4. CASE a = new /\ b = new
      <4>1. a.at = clock /\ b.at = clock /\ a.life = f /\ b.life = f /\ a.start = b.start /\ a = b
        BY <1>4, <3>4
      <4>2. clock < clock + w /\ ~(f < f)
        BY <1>1
      <4> QED
        BY <4>1, <4>2 DEF Ordered, w
    <3> QED
      BY <3>1, <3>2, <3>3, <3>4
  <2> QED
    BY <2>1 DEF Ordered
<1> QED
  BY <1>3, <1>10, <1>11 DEF Admissions, CountedOf

LEMMA OwnCounts ==
  ASSUME LimitTypes, NEW k \in Key, CountsServed(k), Admissions(k),
         NEW kept \in SUBSET DOMAIN buckets,
         \A o \in DOMAIN buckets : o[1] = k /\ ValidStart(k, o[2]) => o \in kept,
         BucketOf(k, kept) \in DOMAIN buckets',
         buckets'[BucketOf(k, kept)] = CountIn(BucketOf(k, kept), kept),
         \A o \in DOMAIN buckets' : o[1] = k => o = BucketOf(k, kept),
         UNCHANGED <<shared, clock>>,
         NEW admitted, admitted <=> CountIn(BucketOf(k, kept), kept) <= Max[k],
         recent' = (IF admitted THEN Recorded(k, "count", Admission(k)) ELSE recent),
         served'[k] = (IF admitted THEN Admission(k) ELSE served[k]),
         forgotten'[k] = forgotten[k]
  PROVE  /\ CountsServed(k)' /\ Admissions(k)'
         /\ recent' \in [Key -> SUBSET AnAdmission]
<1> DEFINE s == served[k]
           b == BucketOf(k, kept)
           count == CountIn(b, kept)
           valid == s.n > 0 /\ ValidStart(k, s.start)
<1>1. /\ b \in Key \X Nat /\ b[1] = k /\ ValidStart(k, b[2])
      /\ b \notin kept => b = <<k, NewStart(k)>> /\ \A o \in kept : o[1] = k => ~ValidStart(k, o[2])
      /\ shared => b = <<k, NewStart(k)>>
  BY BucketIs
<1>2. /\ count \in Nat \ {0} /\ (b \notin kept => count = 1)
      /\ b \in kept => count >= buckets[b] /\ (buckets[b] <= Max[k] => count = buckets[b] + 1)
  BY CountIs
<1>3. /\ s \in Window0 /\ s.n \in Nat /\ s.start \in Nat /\ Max[k] \in Nat \ {0}
      /\ s.n <= Max[k] /\ s.start <= clock
      /\ \A o \in DOMAIN buckets : buckets[o] \in Nat
  BY Windows DEF LimitTypes, CountsServed, Window0
<1>4. b = <<k, b[2]>>
  BY <1>1
<1>5. valid => b = <<k, s.start>> /\ b \in kept /\ buckets[b] >= s.n
  <2> SUFFICES ASSUME valid PROVE b = <<k, s.start>> /\ b \in kept /\ buckets[b] >= s.n
    OBVIOUS
  <2> DEFINE o == <<k, s.start>>
  <2>1. o \in DOMAIN buckets /\ buckets[o] >= s.n /\ o[1] = k /\ o[2] = s.start
    BY DEF CountsServed
  <2>2. o \in kept
    BY <2>1
  <2>3. b \in kept
    BY <1>1, <2>1, <2>2
  <2>4. b = o
    BY <1>1, <2>1, <2>3 DEF LimitTypes
  <2> QED
    BY <2>1, <2>2, <2>4
<1>6. ~valid => b = <<k, NewStart(k)>>
  <2>1. CASE shared
    BY <1>1, <2>1
  <2>2. CASE ~shared /\ ~valid
    <3>1. b \notin kept
      BY <1>1, <2>2 DEF CountsServed
    <3> QED
      BY <1>1, <3>1
  <2> QED
    BY <2>1, <2>2
<1>7. /\ Admission(k).start = b[2] /\ Admission(k).n >= 1 /\ Admission(k).n \in Nat
      /\ count <= Max[k] => Admission(k).n <= count
  <2>1. CASE valid
    <3>1. Admission(k) = [start |-> s.start, n |-> s.n + 1]
      BY <2>1 DEF Admission
    <3>2. b[2] = s.start
      BY <1>5, <2>1
    <3>3. count <= Max[k] => s.n + 1 <= count
      BY <1>2, <1>3, <1>5, <2>1
    <3> QED
      BY <1>3, <3>1, <3>2, <3>3
  <2>2. CASE ~valid
    <3>1. Admission(k) = [start |-> NewStart(k), n |-> 1]
      BY <2>2 DEF Admission
    <3>2. b[2] = NewStart(k)
      BY <1>6, <2>2
    <3> QED
      BY <1>2, <3>1, <3>2
  <2> QED
    BY <2>1, <2>2
<1>8. b[2] <= clock /\ Aligned(k, b[2])
  <2>1. CASE valid
    BY <1>5, <2>1 DEF CountsServed
  <2>2. CASE ~valid
    BY <1>6, <2>2, Windows
  <2> QED
    BY <2>1, <2>2
<1> HIDE DEF b, count
<1>9. /\ b \in DOMAIN buckets' /\ buckets'[b] = count /\ \A o \in DOMAIN buckets' : o[1] = k => o = b
      /\ admitted <=> count <= Max[k]
  BY DEF b, count
<1>10. CASE count <= Max[k]
  <2>1. recent' = Recorded(k, "count", Admission(k)) /\ served'[k] = Admission(k)
    BY <1>9, <1>10
  <2>2. Admission(k).n <= Max[k]
    BY <1>2, <1>3, <1>7, <1>10
  <2>3. Admissions(k)' /\ recent' \in [Key -> SUBSET AnAdmission]
    BY <2>1, <2>2, AdmittedWindows
  <2>4. CountsServed(k)'
    <3>1. /\ served'[k].n <= Max[k] /\ served'[k].n >= 1 /\ served'[k].start = b[2]
          /\ count >= served'[k].n
      BY <1>7, <1>10, <2>1, <2>2
    <3>2. shared => \E m \in Nat : served'[k].start = m * Window[k]
      BY <1>8, <3>1 DEF Aligned
    <3>3. served'[k].n > 0
      BY <1>7, <2>1
    <3> QED
      BY <1>4, <1>8, <1>9, <3>1, <3>2, <3>3 DEF CountsServed, Aligned
  <2> QED
    BY <2>3, <2>4
<1>11. CASE ~(count <= Max[k])
  <2>1. served'[k] = served[k] /\ recent' = recent
    BY <1>9, <1>11
  <2>2. b \in kept
    BY <1>2, <1>3, <1>11
  <2>3. Admissions(k)'
    BY <2>1 DEF Admissions, CountedOf, Placed, Ordered, Aligned
  <2>4. \A start : ValidStart(k, start)' <=> ValidStart(k, start)
    BY DEF ValidStart, NewStart
  <2>5. valid => <<k, s.start>> \in DOMAIN buckets' /\ buckets'[<<k, s.start>>] >= s.n
    BY <1>2, <1>3, <1>5, <1>9
  <2>6. ~shared => s.n > 0 /\ b[2] = s.start
    BY <1>1, <2>2 DEF CountsServed
  <2>7. CountsServed(k)'
    BY <1>9, <2>1, <2>4, <2>5, <2>6 DEF CountsServed, Aligned
  <2> QED
    BY <2>1, <2>3, <2>7 DEF LimitTypes
<1> QED
  BY <1>10, <1>11

LEMMA TransitiveBound == \A a, b, c \in Nat : a >= b /\ b >= c => a >= c
OBVIOUS

(* A counter that is not k's goes on if its valid bucket is kept.          *)
LEMMA OthersCount ==
  ASSUME LimitTypes, NEW j \in Key, CountsServed(j),
         served'[j] = served[j], UNCHANGED <<shared, clock>>,
         ~shared => \A o \in DOMAIN buckets' : o[1] = j => o \in DOMAIN buckets,
         \A o \in DOMAIN buckets : o[1] = j /\ ValidStart(j, o[2]) =>
           o \in DOMAIN buckets' /\ buckets'[o] \in Nat /\ buckets'[o] >= buckets[o]
  PROVE  CountsServed(j)'
<1> DEFINE s == served[j]
           o == <<j, s.start>>
<1>1. \A start : ValidStart(j, start)' <=> ValidStart(j, start)
  BY DEF ValidStart, NewStart
<1>2. s.n \in Nat /\ (o \in DOMAIN buckets => buckets[o] \in Nat) /\ o[1] = j /\ o[2] = s.start
  BY DEF LimitTypes, Window0
<1>3. ASSUME s.n > 0, ValidStart(j, s.start)
      PROVE  o \in DOMAIN buckets' /\ buckets'[o] >= s.n
  <2>1. o \in DOMAIN buckets /\ buckets[o] >= s.n
    BY <1>3 DEF CountsServed
  <2>2. o \in DOMAIN buckets' /\ buckets'[o] \in Nat /\ buckets'[o] >= buckets[o]
    BY <1>2, <1>3, <2>1
  <2> QED
    BY <2>1, <2>2, <1>2, TransitiveBound
<1> QED
  BY <1>1, <1>3 DEF CountsServed, Aligned

(* A key whose bucket is gone begins to count anew.                        *)
LEMMA ForgottenCount ==
  ASSUME LimitTypes, NEW j \in Key, CountsServed(j),
         served'[j] = [start |-> served[j].start, n |-> 0], UNCHANGED <<shared, clock>>,
         \A o \in DOMAIN buckets' : o[1] # j
  PROVE  CountsServed(j)'
<1>1. served'[j].n = 0 /\ served'[j].start = served[j].start /\ Max[j] \in Nat
  BY Windows
<1> QED
  BY <1>1 DEF CountsServed, Aligned

(* Admissions that stay on record stay placed, by a counter that lives on  *)
(* or has begun another life.                                              *)
LEMMA AdmissionsStay ==
  ASSUME LimitTypes, NEW j \in Key, Admissions(j), IsFiniteSet(recent'[j]),
         \A a \in recent'[j] : a.by = "count" => a \in recent[j],
         shared' = shared, clock' \in Nat, clock <= clock',
         \/ served'[j] = served[j] /\ forgotten'[j] = forgotten[j]
         \/ served'[j].n = 0 /\ forgotten'[j] = forgotten[j] + 1
  PROVE  Admissions(j)'
<1>1. ASSUME NEW a \in CountedOf(j)' PROVE a \in CountedOf(j) /\ Placed(j, a)'
  <2>1. a \in CountedOf(j) /\ a \in AnAdmission
    BY DEF CountedOf, LimitTypes
  <2>2. /\ a.n \in Nat /\ a.start \in Nat /\ a.at \in Nat /\ a.life \in Nat /\ clock \in Nat
        /\ forgotten[j] \in Nat
    BY <2>1 DEF AnAdmission, LimitTypes
  <2>3. Placed(j, a)
    BY <2>1 DEF Admissions
  <2>4. Aligned(j, a.start)'
    BY <2>3 DEF Placed, Aligned
  <2>5. a.at <= clock'
    BY <2>2, <2>3 DEF Placed
  <2>6. CASE served'[j] = served[j] /\ forgotten'[j] = forgotten[j]
    BY <2>1, <2>3, <2>4, <2>5, <2>6 DEF Placed
  <2>7. CASE served'[j].n = 0 /\ forgotten'[j] = forgotten[j] + 1
    <3>1. a.life <= forgotten'[j] /\ a.life # forgotten'[j] /\ ~(served'[j].n > 0)
      BY <2>2, <2>3, <2>7 DEF Placed
    <3> QED
      BY <2>1, <2>3, <2>4, <2>5, <3>1 DEF Placed
  <2> QED
    BY <2>6, <2>7
<1>2. \A a, b : Ordered(j, a, b)' <=> Ordered(j, a, b)
  BY DEF Ordered
<1> QED
  BY <1>1, <1>2 DEF Admissions

(* What settling does to each key.                                         *)
LEMMA SettleIs ==
  ASSUME LimitTypes, NEW k \in Key, CountsServed(k), NEW gone \in SUBSET Collected(k),
         NEW admitted, Settle(k, admitted, gone)
  PROVE  /\ k \notin Forgets(gone)
         /\ \A j \in Forgets(gone) : j \in Key /\ Window[j] > 2 * Window[k]
         /\ served' \in [Key -> Window0] /\ forgotten' \in [Key -> Nat]
         /\ served'[k] = (IF admitted THEN Admission(k) ELSE served[k])
         /\ forgotten'[k] = forgotten[k]
         /\ \A j \in Forgets(gone) :
              served'[j] = [start |-> served[j].start, n |-> 0] /\ forgotten'[j] = forgotten[j] + 1
         /\ \A j \in Key \ {k} : j \notin Forgets(gone) =>
              served'[j] = served[j] /\ forgotten'[j] = forgotten[j]
<1> DEFINE G == Forgets(gone)
<1>1. \A j \in G : j \in Key /\ Window[j] > 2 * Window[k]
  BY CollectedIsLonger DEF Forgets
<1>2. k \notin G
  <2>1. Window[k] \in Nat \ {0}
    BY Windows
  <2>2. ~(Window[k] > 2 * Window[k])
    BY <2>1
  <2> QED
    BY <1>1, <2>2
<1>3. Admission(k) \in Window0
  BY AdmissionIs
<1>4. /\ forgotten' = [j \in Key |-> IF j \in G THEN forgotten[j] + 1 ELSE forgotten[j]]
      /\ served' = [j \in Key |->
           IF j \in G THEN [start |-> served[j].start, n |-> 0]
           ELSE IF j = k /\ admitted THEN Admission(k) ELSE served[j]]
  BY DEF Settle
<1>5. \A j \in Key : served[j] \in Window0 /\ [start |-> served[j].start, n |-> 0] \in Window0
                     /\ forgotten[j] \in Nat
  BY DEF LimitTypes, Window0
<1> HIDE DEF G
<1>6. served' \in [Key -> Window0]
  BY <1>3, <1>4, <1>5
<1>7. forgotten' \in [Key -> Nat]
  <2>1. ASSUME NEW j \in Key PROVE (IF j \in G THEN forgotten[j] + 1 ELSE forgotten[j]) \in Nat
    <3>1. forgotten[j] \in Nat /\ forgotten[j] + 1 \in Nat
      BY DEF LimitTypes
    <3> QED
      BY <3>1, Zenon
  <2> QED
    BY <1>4, <2>1
<1> QED
  BY <1>1, <1>2, <1>4, <1>6, <1>7 DEF G

-----------------------------------------------------------------------------
LEMMA LimitsBegin == LimitsConstantsOK /\ LimitsInit => LimitInv
<1> SUFFICES ASSUME LimitsConstantsOK, LimitsInit PROVE LimitInv
  OBVIOUS
<1>1. DOMAIN buckets = {}
  BY DEF LimitsInit
<1>2. \A k \in Key : served[k] = [start |-> 0, n |-> 0] /\ recent[k] = {} /\ forgotten[k] = 0
  BY DEF LimitsInit
<1>3. LimitTypes
  BY <1>1 DEF LimitsInit, LimitTypes, Window0
<1>4. ASSUME NEW k \in Key PROVE CountsServed(k) /\ Admissions(k) /\ ForgottenByShorter(k)
  <2>1. Window[k] \in Nat /\ Max[k] \in Nat
    BY Windows, <1>3
  <2>2. 0 = 0 * Window[k]
    BY <2>1
  <2>3. Aligned(k, 0)
    BY <2>2 DEF Aligned
  <2>4. IsFiniteSet(recent[k]) /\ CountedOf(k) = {}
    BY <1>2, FS_EmptySet DEF CountedOf
  <2> QED
    BY <1>1, <1>2, <2>1, <2>3, <2>4 DEF CountsServed, Admissions, ForgottenByShorter, LimitsInit
<1> QED
  BY <1>3, <1>4 DEF LimitInv

(* What a table is after a request of k that counted in what was kept,     *)
(* after or before others' buckets were collected.                         *)
IsTableAfter(table, k, kept, gone) ==
  /\ \A o \in DOMAIN buckets : o \notin gone => o \in kept
  /\ DOMAIN table \subseteq Key \X Nat
  /\ \A o \in DOMAIN table : table[o] \in Nat \ {0}
  /\ \A o, p \in DOMAIN table : o[1] = p[1] => o = p
  /\ \A o \in DOMAIN table : o \in DOMAIN Counted(k, kept) /\ o \notin gone
  /\ \A o \in DOMAIN Counted(k, kept) : o \notin gone =>
       o \in DOMAIN table /\ table[o] = Counted(k, kept)[o]
  /\ BucketOf(k, kept) \notin gone

(* The counters of the other keys, kept or forgotten.                      *)
LEMMA OthersStep ==
  ASSUME LimitTypes, NEW k \in Key, CountsServed(k), NEW gone \in SUBSET Collected(k),
         NEW kept \in SUBSET DOMAIN buckets, IsTableAfter(buckets', k, kept, gone),
         NEW admitted, Settle(k, admitted, gone), UNCHANGED <<shared, clock>>,
         NEW j \in Key \ {k}, CountsServed(j)
  PROVE  CountsServed(j)'
<1> DEFINE b == BucketOf(k, kept)
           c == Counted(k, kept)
<1>1. /\ \A o \in DOMAIN c : o = b \/ (o \in kept /\ o[1] # k /\ c[o] = buckets[o])
      /\ \A o \in kept : o[1] # k /\ ValidStart(o[1], o[2]) => o \in DOMAIN c /\ c[o] = buckets[o]
  BY CountIs
<1>2. b[1] = k
  BY BucketIs
<1>3. /\ j \in Forgets(gone) => served'[j] = [start |-> served[j].start, n |-> 0]
      /\ j \notin Forgets(gone) => served'[j] = served[j]
  BY SettleIs
<1>4. /\ \A o \in DOMAIN buckets : o \notin gone => o \in kept
      /\ \A o \in DOMAIN buckets' : o \in DOMAIN c /\ o \notin gone
      /\ \A o \in DOMAIN c : o \notin gone => o \in DOMAIN buckets' /\ buckets'[o] = c[o]
  BY Zenon DEF IsTableAfter
<1> HIDE DEF b, c
<1>5. \A o \in DOMAIN buckets' : o[1] = j => o \in DOMAIN buckets
  BY <1>1, <1>2, <1>4
<1>6. CASE j \in Forgets(gone)
  <2>1. PICK g \in gone : g[1] = j
    BY <1>6 DEF Forgets
  <2>2. g \in DOMAIN buckets
    BY DEF Collected
  <2>3. \A o \in DOMAIN buckets' : o[1] # j
    BY <1>4, <1>5, <2>1, <2>2 DEF LimitTypes
  <2> QED
    BY <1>3, <1>6, <2>3, ForgottenCount
<1>7. CASE j \notin Forgets(gone)
  <2>1. ASSUME NEW o \in DOMAIN buckets, o[1] = j, ValidStart(j, o[2])
        PROVE  o \in DOMAIN buckets' /\ buckets'[o] \in Nat /\ buckets'[o] >= buckets[o]
    <3>1. o \notin gone
      BY <1>7, <2>1 DEF Forgets
    <3>2. o \in DOMAIN c /\ c[o] = buckets[o]
      BY <1>1, <1>4, <2>1, <3>1
    <3>3. o \in DOMAIN buckets' /\ buckets'[o] = buckets[o]
      BY <1>4, <3>1, <3>2
    <3>4. buckets[o] \in Nat
      BY DEF LimitTypes
    <3> QED
      BY <3>3, <3>4
  <2> QED
    BY <1>3, <1>5, <1>7, <2>1, OthersCount
<1> QED
  BY <1>6, <1>7

(* The keys but k: their admissions stay, and a shorter window forgot them.*)
LEMMA OthersAdmissions ==
  ASSUME LimitInv, NEW k \in Key, NEW gone \in SUBSET Collected(k),
         NEW admitted, Settle(k, admitted, gone), UNCHANGED <<shared, clock>>,
         NEW j \in Key \ {k}, recent'[j] = recent[j]
  PROVE  Admissions(j)' /\ ForgottenByShorter(j)'
<1>1. LimitTypes /\ CountsServed(k) /\ Admissions(j) /\ ForgottenByShorter(j)
  BY DEF LimitInv
<1>2. /\ \A i \in Forgets(gone) : i \in Key /\ Window[i] > 2 * Window[k]
      /\ \A i \in Forgets(gone) :
           served'[i] = [start |-> served[i].start, n |-> 0] /\ forgotten'[i] = forgotten[i] + 1
      /\ \A i \in Key \ {k} : i \notin Forgets(gone) =>
           served'[i] = served[i] /\ forgotten'[i] = forgotten[i]
  BY <1>1, SettleIs
<1>3. \/ served'[j] = served[j] /\ forgotten'[j] = forgotten[j]
      \/ served'[j].n = 0 /\ forgotten'[j] = forgotten[j] + 1
  <2>1. CASE j \in Forgets(gone)
    <3>1. served'[j] = [start |-> served[j].start, n |-> 0] /\ forgotten'[j] = forgotten[j] + 1
      BY <1>2, <2>1
    <3> QED
      BY <3>1
  <2>2. CASE j \notin Forgets(gone)
    BY <1>2, <2>2
  <2> QED
    BY <2>1, <2>2
<1>4. clock' \in Nat /\ clock <= clock' /\ IsFiniteSet(recent'[j])
  BY <1>1 DEF LimitTypes, Admissions
<1>5. Admissions(j)'
  BY <1>1, <1>3, <1>4, AdmissionsStay
<1>6. ForgottenByShorter(j)'
  BY <1>1, <1>2 DEF ForgottenByShorter
<1> QED
  BY <1>5, <1>6

(* A request of k that is counted and decided.                             *)
LEMMA AllowStep ==
  ASSUME LimitInv, NEW k \in Key, NEW gone \in SUBSET Collected(k),
         NEW kept \in SUBSET DOMAIN buckets, IsTableAfter(buckets', k, kept, gone),
         Decide(k, CountIn(BucketOf(k, kept), kept), gone),
         UNCHANGED <<shared, clock>>
  PROVE  LimitInv'
<1> DEFINE b == BucketOf(k, kept)
           c == Counted(k, kept)
           count == CountIn(b, kept)
           admitted == count <= Max[k]
<1>1. LimitTypes /\ CountsServed(k) /\ Admissions(k) /\ ForgottenByShorter(k)
  BY DEF LimitInv
<1>2. /\ Settle(k, admitted, gone) /\ failures' = failures
      /\ recent' = IF admitted THEN Recorded(k, "count", Admission(k)) ELSE recent
  BY DEF Decide
<1>3. /\ b \in DOMAIN c /\ c[b] = count
      /\ \A o \in DOMAIN c : o = b \/ (o \in kept /\ o[1] # k /\ c[o] = buckets[o])
  BY <1>1, CountIs
<1> HIDE DEF b, c, count, admitted
<1>4. /\ served' \in [Key -> Window0] /\ forgotten' \in [Key -> Nat]
      /\ served'[k] = (IF admitted THEN Admission(k) ELSE served[k])
      /\ forgotten'[k] = forgotten[k]
  <2>1. CASE admitted
    <3>1. Settle(k, TRUE, gone)
      BY <1>2, <2>1, Zenon DEF Settle
    <3> QED
      BY <1>1, <2>1, <3>1, SettleIs
  <2>2. CASE ~admitted
    <3>1. Settle(k, FALSE, gone)
      BY <1>2, <2>2, Zenon DEF Settle
    <3> QED
      BY <1>1, <2>2, <3>1, SettleIs
  <2> QED
    BY <2>1, <2>2
<1>5. /\ b \in DOMAIN buckets' /\ buckets'[b] = count
      /\ \A o \in DOMAIN buckets' : o[1] = k => o = b
  BY <1>3, Zenon DEF IsTableAfter, b, c
<1>6. \A o \in DOMAIN buckets : o[1] = k /\ ValidStart(k, o[2]) => o \in kept
  <2>1. \A o \in gone : o \in DOMAIN buckets /\ TooOld(k, o[2])
    BY DEF Collected
  <2>2. \A o \in DOMAIN buckets : ValidStart(k, o[2]) => ~TooOld(k, o[2])
    BY <1>1, OwnIsKept DEF LimitTypes
  <2>3. \A o \in DOMAIN buckets : o \notin gone => o \in kept
    BY Zenon DEF IsTableAfter
  <2> QED
    BY <2>1, <2>2, <2>3
<1>7. CountsServed(k)' /\ Admissions(k)' /\ recent' \in [Key -> SUBSET AnAdmission]
  <2>1. admitted <=> count <= Max[k]
    BY DEF admitted
  <2> QED
    BY <1>1, <1>2, <1>4, <1>5, <1>6, <2>1, OwnCounts DEF b, count
<1>8. \A j \in Key \ {k} : recent'[j] = recent[j]
  <2>1. CASE admitted
    <3>1. Admission(k) \in Window0 /\ IsFiniteSet(recent[k])
      BY <1>1, AdmissionIs DEF Admissions
    <3>2. recent' = Recorded(k, "count", Admission(k))
      BY <1>2, <2>1
    <3> QED
      BY <1>1, <3>1, <3>2, RecordedIs
  <2>2. CASE ~admitted
    BY <1>2, <2>2
  <2> QED
    BY <2>1, <2>2
<1>9. LimitTypes'
  <2>1. /\ DOMAIN buckets' \subseteq Key \X Nat
        /\ \A o \in DOMAIN buckets' : buckets'[o] \in Nat \ {0}
        /\ \A o, p \in DOMAIN buckets' : o[1] = p[1] => o = p
    BY Zenon DEF IsTableAfter
  <2> QED
    BY <1>1, <1>2, <1>4, <1>7, <2>1 DEF LimitTypes, LimitsConstantsOK
<1>10. ASSUME NEW j \in Key \ {k} PROVE CountsServed(j)' /\ Admissions(j)' /\ ForgottenByShorter(j)'
  <2>1. CountsServed(j)
    BY DEF LimitInv
  <2>2. CountsServed(j)'
    BY <1>1, <1>2, <2>1, OthersStep
  <2>3. Admissions(j)' /\ ForgottenByShorter(j)'
    BY <1>2, <1>8, OthersAdmissions
  <2> QED
    BY <2>2, <2>3
<1>11. ForgottenByShorter(k)'
  BY <1>1, <1>4 DEF ForgottenByShorter
<1> QED
  BY <1>7, <1>9, <1>10, <1>11 DEF LimitInv

LEMMA InProcessStep == ASSUME LimitInv, NEW k \in Key, AllowInProcess(k) PROVE LimitInv'
<1> DEFINE gc == clock - lastGc > 4 * Window[k]
           gone == IF gc THEN Collected(k) ELSE {}
           kept == DOMAIN buckets \ gone
<1>1. LimitTypes
  BY DEF LimitInv
<1>2. /\ buckets' = Counted(k, kept) /\ Decide(k, CountIn(BucketOf(k, kept), kept), gone)
      /\ UNCHANGED <<shared, clock>>
  BY DEF AllowInProcess
<1>3. gone \in SUBSET Collected(k) /\ kept \in SUBSET DOMAIN buckets
      /\ (\A o \in DOMAIN buckets : o \notin gone => o \in kept)
      /\ \A o \in kept : o \notin gone
  OBVIOUS
<1>4. BucketOf(k, kept) \notin gone
  <2>1. \A o \in gone : TooOld(k, o[2])
    BY DEF Collected
  <2>2. BucketOf(k, kept) \in Key \X Nat /\ ValidStart(k, BucketOf(k, kept)[2])
    BY <1>1, <1>3, BucketIs
  <2> HIDE DEF gone, kept
  <2> QED
    BY <1>1, <2>1, <2>2, OwnIsKept
<1> HIDE DEF gone, kept
<1>5. /\ DOMAIN Counted(k, kept) \subseteq Key \X Nat
      /\ \A b \in DOMAIN Counted(k, kept) : Counted(k, kept)[b] \in Nat \ {0}
      /\ \A o, p \in DOMAIN Counted(k, kept) : o[1] = p[1] => o = p
  BY <1>1, <1>3, CountedTypes
<1>6. \A o \in DOMAIN Counted(k, kept) : o \notin gone
  BY <1>1, <1>3, <1>4, CountIs
<1>7. IsTableAfter(buckets', k, kept, gone)
  BY <1>2, <1>3, <1>4, <1>5, <1>6, Zenon DEF IsTableAfter
<1> QED
  BY <1>2, <1>3, <1>7, AllowStep

(* The table of Postgres after a request, with or without a collection.    *)
LEMMA SharedTable ==
  ASSUME LimitTypes, NEW k \in Key, NEW gone \in SUBSET Collected(k),
         buckets' = Without(Counted(k, DOMAIN buckets), gone)
  PROVE  IsTableAfter(buckets', k, DOMAIN buckets, gone)
<1> DEFINE kept == DOMAIN buckets
           c == Counted(k, kept)
<1>1. BucketOf(k, kept) \notin gone
  <2>1. \A o \in gone : TooOld(k, o[2])
    BY DEF Collected
  <2>2. BucketOf(k, kept) \in Key \X Nat /\ ValidStart(k, BucketOf(k, kept)[2])
    BY BucketIs
  <2> HIDE DEF kept
  <2> QED
    BY <2>1, <2>2, OwnIsKept
<1>2. /\ DOMAIN Without(c, gone) \subseteq Key \X Nat
      /\ \A b \in DOMAIN Without(c, gone) : Without(c, gone)[b] \in Nat \ {0}
      /\ \A o, p \in DOMAIN Without(c, gone) : o[1] = p[1] => o = p
  BY CountedTypes
<1> HIDE DEF c
<1>3. /\ \A o \in DOMAIN Without(c, gone) : o \in DOMAIN c /\ o \notin gone
      /\ \A o \in DOMAIN c : o \notin gone =>
           o \in DOMAIN Without(c, gone) /\ Without(c, gone)[o] = c[o]
  BY DEF Without
<1>4. buckets' = Without(c, gone)
  BY DEF c
<1> QED
  BY <1>1, <1>2, <1>3, <1>4, Zenon DEF IsTableAfter, c

LEMMA SharedStep ==
  ASSUME LimitInv, NEW k \in Key, NEW gc \in BOOLEAN, AllowShared(k, gc) PROVE LimitInv'
<1> DEFINE gone == IF gc THEN Collected(k) ELSE {}
           kept == DOMAIN buckets
<1>1. LimitTypes
  BY DEF LimitInv
<1>2. /\ buckets' = Without(Counted(k, kept), gone) /\ Decide(k, CountIn(BucketOf(k, kept), kept), gone)
      /\ UNCHANGED <<shared, clock>>
  BY DEF AllowShared
<1>3. gone \in SUBSET Collected(k) /\ kept \in SUBSET DOMAIN buckets
  OBVIOUS
<1> HIDE DEF gone
<1>4. IsTableAfter(buckets', k, kept, gone)
  BY <1>1, <1>2, <1>3, SharedTable
<1> QED
  BY <1>2, <1>3, <1>4, AllowStep

(* A failing Postgres may have counted and collected.                      *)
LEMMA FailOpenStep == ASSUME LimitInv, NEW k \in Key, FailOpen(k) PROVE LimitInv'
<1>1. LimitTypes /\ CountsServed(k) /\ Admissions(k) /\ ForgottenByShorter(k)
  BY DEF LimitInv
<1> DEFINE now == [start |-> 0, n |-> failures + 1]
<1>2. /\ shared /\ shared' = shared /\ clock' = clock /\ failures' = failures + 1 /\ failures \in Nat
      /\ recent' = Recorded(k, "failure", now)
  BY <1>1 DEF FailOpen, LimitTypes
<1>3. PICK gone \in SUBSET Collected(k) :
        /\ Settle(k, FALSE, gone)
        /\ \/ buckets' = buckets /\ gone = {}
           \/ buckets' = Without(Counted(k, DOMAIN buckets), gone)
  <2>1. {} \in SUBSET Collected(k) /\ Collected(k) \in SUBSET Collected(k)
    OBVIOUS
  <2> QED
    BY <2>1, Zenon DEF FailOpen
<1>4. now \in Window0
  BY <1>2 DEF Window0
<1>5. /\ recent' \in [Key -> SUBSET AnAdmission] /\ IsFiniteSet(recent'[k])
      /\ recent'[k] = {a \in recent[k] : a.at > clock - Window[k]} \cup
           {[by |-> "failure", start |-> now.start, life |-> forgotten[k], n |-> now.n, at |-> clock]}
      /\ \A j \in Key \ {k} : recent'[j] = recent[j]
  BY <1>1, <1>2, <1>4, RecordedIs DEF Admissions
<1>6. /\ served' \in [Key -> Window0] /\ forgotten' \in [Key -> Nat]
      /\ served'[k] = served[k] /\ forgotten'[k] = forgotten[k]
  BY <1>1, <1>3, SettleIs
<1>7. Admissions(k)'
  <2>1. \A a \in recent'[k] : a.by = "count" => a \in recent[k]
    BY <1>5
  <2>2. clock' \in Nat /\ clock <= clock'
    BY <1>1, <1>2 DEF LimitTypes
  <2> QED
    BY <1>1, <1>2, <1>5, <1>6, <2>1, <2>2, AdmissionsStay
<1> HIDE DEF now
<1>8. CASE buckets' = buckets /\ gone = {}
  <2>1. LimitTypes'
    BY <1>1, <1>2, <1>5, <1>6, <1>8 DEF LimitTypes, LimitsConstantsOK
  <2>2. Forgets(gone) = {}
    BY <1>8 DEF Forgets
  <2>3. served' = served /\ forgotten' = forgotten
    BY <1>1, <1>3, <2>2 DEF Settle, LimitTypes
  <2>4. \A j \in Key : CountsServed(j)'
    <3>1. \A j, start : ValidStart(j, start)' <=> ValidStart(j, start)
      BY <1>2 DEF ValidStart, NewStart
    <3>2. \A j \in Key : CountsServed(j)
      BY DEF LimitInv
    <3> QED
      BY <1>2, <1>8, <2>3, <3>1, <3>2 DEF CountsServed, Aligned
  <2>5. \A j \in Key \ {k} : Admissions(j)' /\ ForgottenByShorter(j)'
    BY <1>2, <1>3, <1>5, OthersAdmissions
  <2>6. ForgottenByShorter(k)'
    BY <1>1, <1>6 DEF ForgottenByShorter
  <2> QED
    BY <1>7, <2>1, <2>4, <2>5, <2>6 DEF LimitInv
<1>9. CASE buckets' = Without(Counted(k, DOMAIN buckets), gone)
  <2> DEFINE kept == DOMAIN buckets
             b == BucketOf(k, kept)
             c == Counted(k, kept)
  <2>1. IsTableAfter(buckets', k, kept, gone)
    BY <1>1, <1>9, SharedTable
  <2>2. LimitTypes'
    <3>1. /\ DOMAIN buckets' \subseteq Key \X Nat
          /\ \A o \in DOMAIN buckets' : buckets'[o] \in Nat \ {0}
          /\ \A o, p \in DOMAIN buckets' : o[1] = p[1] => o = p
      BY <2>1, Zenon DEF IsTableAfter
    <3> QED
      BY <1>1, <1>2, <1>5, <1>6, <3>1 DEF LimitTypes, LimitsConstantsOK
  <2>3. ASSUME NEW j \in Key \ {k} PROVE CountsServed(j)' /\ Admissions(j)' /\ ForgottenByShorter(j)'
    <3>1. CountsServed(j)
      BY DEF LimitInv
    <3>2. CountsServed(j)'
      <4>1. kept \in SUBSET DOMAIN buckets /\ UNCHANGED <<shared, clock>>
        BY <1>2
      <4> QED
        BY <1>1, <1>3, <2>1, <3>1, <4>1, OthersStep
    <3>3. Admissions(j)' /\ ForgottenByShorter(j)'
      BY <1>2, <1>3, <1>5, OthersAdmissions
    <3> QED
      BY <3>2, <3>3
  <2>4. CountsServed(k)'
    <3>1. /\ b \in DOMAIN c /\ c[b] = CountIn(b, kept) /\ CountIn(b, kept) \in Nat \ {0}
          /\ b \in kept => CountIn(b, kept) >= buckets[b]
      BY <1>1, CountIs
    <3>2. b = <<k, NewStart(k)>>
      BY <1>1, <1>2, BucketIs
    <3>3. b \in DOMAIN buckets' /\ buckets'[b] = c[b]
      BY <2>1, <3>1, Zenon DEF IsTableAfter
    <3> HIDE DEF b, c
    <3>4. ASSUME NEW o \in DOMAIN buckets, o[1] = k, ValidStart(k, o[2])
          PROVE  o \in DOMAIN buckets' /\ buckets'[o] \in Nat /\ buckets'[o] >= buckets[o]
      <4>1. o[2] = NewStart(k) /\ o \in Key \X Nat
        BY <1>1, <1>2, <3>4 DEF ValidStart, LimitTypes
      <4>2. o = b
        BY <3>2, <3>4, <4>1
      <4> QED
        BY <3>1, <3>3, <4>2
    <3>5. UNCHANGED <<shared, clock>> /\ shared
      BY <1>2
    <3> QED
      BY <1>1, <1>6, <3>4, <3>5, OthersCount
  <2>5. ForgottenByShorter(k)'
    BY <1>1, <1>6 DEF ForgottenByShorter
  <2> QED
    BY <1>7, <2>2, <2>3, <2>4, <2>5 DEF LimitInv
<1> QED
  BY <1>3, <1>8, <1>9

LEMMA LimitsTickStep == ASSUME LimitInv, LimitsTick PROVE LimitInv'
<1>1. /\ LimitTypes /\ clock' = clock + 1 /\ clock \in Nat
      /\ UNCHANGED <<shared, buckets, lastGc, served, recent, forgotten, failures>>
  BY DEF LimitInv, LimitsTick, LimitTypes
<1>2. LimitTypes'
  BY <1>1 DEF LimitTypes, LimitsConstantsOK
<1>3. ASSUME NEW j \in Key, CountsServed(j) PROVE CountsServed(j)'
  <2> DEFINE s == served[j]
  <2>1. s.start \in Nat /\ s.n \in Nat /\ s.start <= clock /\ Aligned(j, s.start)
    BY <1>1, <1>3 DEF LimitTypes, Window0, CountsServed
  <2>2. ValidStart(j, s.start)' => ValidStart(j, s.start)
    <3>1. ValidStart(j, s.start) <=> clock < s.start + Window[j]
      BY <1>1, <2>1, Validity
    <3>2. ValidStart(j, s.start)' => clock' < s.start + Window[j]
      <4>1. CASE shared
        <5>1. ValidStart(j, s.start)' => s.start = (clock' \div Window[j]) * Window[j]
          BY <1>1, <4>1 DEF ValidStart, NewStart
        <5>2. clock' \in Nat /\ Window[j] \in Nat \ {0}
          BY <1>1, Windows
        <5>3. clock' < (clock' \div Window[j]) * Window[j] + Window[j]
          BY <5>2, Floor
        <5> QED
          BY <5>1, <5>3
      <4>2. CASE ~shared
        BY <1>1, <2>1, <4>2, Windows DEF ValidStart
      <4> QED
        BY <4>1, <4>2
    <3>3. Window[j] \in Nat
      BY <1>1, Windows
    <3> QED
      BY <1>1, <2>1, <3>1, <3>2, <3>3
  <2>3. ~shared => \A o \in DOMAIN buckets :
          o[1] = j /\ ValidStart(j, o[2])' => ValidStart(j, o[2])
    <3>1. \A o \in DOMAIN buckets : o[2] \in Nat
      BY <1>1 DEF LimitTypes
    <3>2. Window[j] \in Nat
      BY <1>1, Windows
    <3> QED
      BY <1>1, <3>1, <3>2 DEF ValidStart
  <2>4. s.start <= clock'
    BY <1>1, <2>1
  <2> QED
    BY <1>1, <1>3, <2>2, <2>3, <2>4 DEF CountsServed, Aligned
<1>4. ASSUME NEW j \in Key, Admissions(j) PROVE Admissions(j)'
  <2>1. clock' \in Nat /\ clock <= clock' /\ IsFiniteSet(recent'[j])
    BY <1>1, <1>4 DEF Admissions
  <2> QED
    BY <1>1, <1>4, <2>1, AdmissionsStay
<1> QED
  BY <1>1, <1>2, <1>3, <1>4 DEF LimitInv, ForgottenByShorter

LEMMA LimitsStep == LimitInv /\ [LimitsNext]_rateVars => LimitInv'
<1> SUFFICES ASSUME LimitInv, [LimitsNext]_rateVars PROVE LimitInv'
  OBVIOUS
<1>1. ASSUME NEW k \in Key, AllowInProcess(k) PROVE LimitInv'
  BY <1>1, InProcessStep
<1>2. ASSUME NEW k \in Key, NEW gc \in BOOLEAN, AllowShared(k, gc) PROVE LimitInv'
  BY <1>2, SharedStep
<1>3. ASSUME NEW k \in Key, FailOpen(k) PROVE LimitInv'
  BY <1>3, FailOpenStep
<1>4. CASE LimitsTick
  BY <1>4, LimitsTickStep
<1>5. CASE UNCHANGED rateVars
  <2>1. UNCHANGED <<shared, clock, buckets, served, recent, forgotten, failures>>
    BY <1>5 DEF rateVars
  <2>2. \A k, start : ValidStart(k, start)' <=> ValidStart(k, start)
    BY <2>1 DEF ValidStart, NewStart
  <2>3. LimitTypes'
    BY <2>1 DEF LimitInv, LimitTypes, LimitsConstantsOK
  <2>4. \A k \in Key : CountsServed(k) => CountsServed(k)'
    BY <2>1, <2>2 DEF CountsServed, Aligned
  <2>5. \A k \in Key : Admissions(k) => Admissions(k)'
    BY <2>1 DEF Admissions, CountedOf, Placed, Ordered, Aligned
  <2> QED
    BY <2>1, <2>3, <2>4, <2>5 DEF LimitInv, ForgottenByShorter
<1> QED
  BY <1>1, <1>2, <1>3, <1>4, <1>5 DEF LimitsNext

-----------------------------------------------------------------------------
(* Counted admissions are told apart by life and number, those of the      *)
(* earlier window of a life that has two in the span by number alone: only *)
(* one life can have two.                                                  *)
LEMMA CountedAreFew ==
  ASSUME LimitTypes, NEW k \in Key, Admissions(k)
  PROVE  /\ IsFiniteSet(Lives(k))
         /\ IsFiniteSet(CountedOf(k))
         /\ Cardinality(CountedOf(k)) <=
              (Cardinality(Lives(k)) + 1) * Max[k] - (IF shared THEN 0 ELSE 1)
<1> DEFINE C == CountedOf(k)
           L == Lives(k)
           w == Window[k]
           max == Max[k]
           lo == IF shared THEN 1 ELSE 2
           First(a) == \E b \in C : b.life = a.life /\ a.start + w <= b.start
           f == [a \in C |-> IF First(a) THEN <<-1, a.n>> ELSE <<a.life, a.n>>]
           T == (L \X (1..max)) \cup ({-1} \X (lo..max))
<1>1. /\ max \in Nat \ {0} /\ w \in Nat \ {0} /\ C \subseteq AnAdmission /\ IsFiniteSet(C)
      /\ clock \in Nat /\ forgotten[k] \in Nat
  <2>1. C \subseteq recent[k] /\ recent[k] \subseteq AnAdmission
    BY DEF CountedOf, LimitTypes
  <2> QED
    BY <2>1, FS_Subset, Windows DEF Admissions, LimitTypes
<1>2. \A a \in C : /\ a.n \in Nat /\ a.start \in Nat /\ a.at \in Nat /\ a.life \in Nat
                   /\ a.n >= 1 /\ a.n <= max /\ a.start <= a.at /\ a.at < a.start + w
                   /\ ~shared /\ a.n = 1 => a.at = a.start
  BY <1>1 DEF Admissions, Placed, AnAdmission
<1>3. \A a, b \in C :
        /\ a.at < b.at + w
        /\ a.life = b.life =>
             a.start = b.start \/ a.start + w <= b.start \/ b.start + w <= a.start
        /\ a.life < b.life => a.start <= b.start
        /\ a.life = b.life /\ a.start = b.start /\ a.n = b.n => a = b
  BY DEF Admissions, Ordered
<1>4. L = {a.life : a \in C}
  BY DEF Lives
<1> HIDE DEF C, L, w, max
<1>5. IsFiniteSet(L) /\ Cardinality(L) \in Nat
  <2> DEFINE g == [a \in C |-> a.life]
  <2>1. L = {g[a] : a \in C}
    BY <1>4
  <2>2. g \in Surjection(C, L)
    BY <2>1 DEF Surjection
  <2> HIDE DEF g
  <2>3. IsFiniteSet(L)
    BY <1>1, <2>2, FS_Surjection
  <2> QED
    BY <2>3, FS_CardinalityType
<1>6. \A a \in C : First(a) /\ ~shared => a.n # 1
  <2> SUFFICES ASSUME NEW a \in C, First(a), ~shared, a.n = 1 PROVE FALSE
    OBVIOUS
  <2>1. PICK b \in C : b.life = a.life /\ a.start + w <= b.start
    OBVIOUS
  <2>2. a.at = a.start /\ b.start <= b.at /\ b.at < a.at + w
    BY <1>2, <1>3
  <2> QED
    BY <1>1, <1>2, <2>1, <2>2
<1>7. \A a, b \in C : First(a) /\ First(b) => a.life = b.life /\ a.start = b.start
  <2> SUFFICES ASSUME NEW a \in C, NEW b \in C, First(a), First(b), a.life <= b.life
               PROVE  a.life = b.life /\ a.start = b.start
    BY <1>2
  <2>1. PICK c \in C : c.life = a.life /\ a.start + w <= c.start
    OBVIOUS
  <2>2. PICK d \in C : d.life = b.life /\ b.start + w <= d.start
    OBVIOUS
  <2>3. /\ a.at < a.start + w /\ d.start <= d.at /\ d.at < a.at + w
        /\ b.at < b.start + w /\ c.start <= c.at /\ c.at < b.at + w
    BY <1>2, <1>3
  <2>4. /\ a.start \in Nat /\ b.start \in Nat /\ c.start \in Nat /\ d.start \in Nat
        /\ a.at \in Nat /\ b.at \in Nat /\ c.at \in Nat /\ d.at \in Nat /\ w \in Nat
    BY <1>1, <1>2
  <2>5. d.start < a.start + w + w /\ c.start < b.start + w + w
    BY <2>3, <2>4
  <2>6. ~(a.start + w <= b.start)
    BY <2>2, <2>4, <2>5
  <2>7. ~(b.start + w <= a.start)
    BY <2>1, <2>4, <2>5
  <2>8. a.life = b.life
    <3> SUFFICES ASSUME a.life # b.life PROVE FALSE
      OBVIOUS
    <3>1. c.life < b.life
      BY <1>2, <2>1
    <3>2. c.start <= b.start
      BY <1>3, <3>1
    <3> QED
      BY <2>1, <2>4, <2>6, <3>2
  <2> QED
    BY <1>3, <2>6, <2>7, <2>8
<1>8. \A a, b \in C : ~First(a) /\ ~First(b) /\ a.life = b.life => a.start = b.start
  BY <1>3
<1> HIDE DEF First
<1>9. f \in Injection(C, T)
  <2>1. ASSUME NEW a \in C PROVE f[a] \in T
    <3>1. CASE First(a)
      <4>1. a.n \in lo..max
        BY <1>1, <1>2, <1>6, <3>1
      <4> QED
        BY <3>1, <4>1
    <3>2. CASE ~First(a)
      <4>1. a.n \in 1..max /\ a.life \in L
        BY <1>1, <1>2, <1>4
      <4> QED
        BY <3>2, <4>1
    <3> QED
      BY <3>1, <3>2
  <2>2. ASSUME NEW a \in C, NEW b \in C, f[a] = f[b] PROVE a = b
    <3>1. a.life \in Nat /\ b.life \in Nat
      BY <1>2
    <3>2. CASE First(a) /\ First(b)
      BY <1>3, <1>7, <2>2, <3>2
    <3>3. CASE ~First(a) /\ ~First(b)
      <4>1. a.life = b.life /\ a.n = b.n
        BY <2>2, <3>3
      <4> QED
        BY <1>3, <1>8, <3>3, <4>1
    <3>4. CASE First(a) /\ ~First(b)
      BY <2>2, <3>1, <3>4
    <3>5. CASE ~First(a) /\ First(b)
      BY <2>2, <3>1, <3>5
    <3> QED
      BY <3>2, <3>3, <3>4, <3>5
  <2>3. f \in [C -> T]
    BY <2>1
  <2> HIDE DEF f, T
  <2> QED
    BY <2>2, <2>3 DEF Injection, IsInjective
<1>10. IsFiniteSet(T) /\ Cardinality(T) <= Cardinality(L) * max + (max - lo + 1)
  <2>1. /\ IsFiniteSet(1..max) /\ Cardinality(1..max) = max
        /\ IsFiniteSet(lo..max) /\ Cardinality(lo..max) = max - lo + 1
    <3>1. /\ max \in Int /\ lo \in Int /\ 1 \in Int
          /\ (1 > max => 0 = max - 1 + 1) /\ (lo > max => 0 = max - lo + 1) /\ max - 1 + 1 = max
      BY <1>1
    <3> HIDE DEF lo
    <3> QED
      BY <3>1, FS_Interval
  <2>2. IsFiniteSet({-1}) /\ Cardinality({-1}) = 1
    BY FS_Singleton
  <2>3. /\ IsFiniteSet(L \X (1..max)) /\ Cardinality(L \X (1..max)) = Cardinality(L) * max
        /\ IsFiniteSet({-1} \X (lo..max)) /\ Cardinality({-1} \X (lo..max)) = 1 * (max - lo + 1)
    <3> DEFINE S == lo..max
               R == 1..max
               M == {-1}
    <3>1. IsFiniteSet(S) /\ IsFiniteSet(R) /\ IsFiniteSet(M) /\ IsFiniteSet(L)
      BY <1>5, <2>1, <2>2
    <3> HIDE DEF S, R, M
    <3>2. IsFiniteSet(L \X R) /\ Cardinality(L \X R) = Cardinality(L) * Cardinality(R)
      BY <3>1, FS_Product
    <3>3. IsFiniteSet(M \X S) /\ Cardinality(M \X S) = Cardinality(M) * Cardinality(S)
      BY <3>1, FS_Product
    <3>4. Cardinality(R) = max /\ Cardinality(M) = 1 /\ Cardinality(S) = max - lo + 1
      BY <2>1, <2>2 DEF R, M, S
    <3> QED
      BY <3>2, <3>3, <3>4 DEF R, M, S
  <2> DEFINE A == L \X (1..max)
             B == {-1} \X (lo..max)
  <2>4. IsFiniteSet(A) /\ IsFiniteSet(B) /\ Cardinality(A) \in Nat /\ Cardinality(B) \in Nat
        /\ T = A \cup B
    BY <2>3, FS_CardinalityType
  <2>5. Cardinality(A) = Cardinality(L) * max /\ Cardinality(B) = max - lo + 1
    BY <1>1, <2>3
  <2> HIDE DEF A, B, T, lo
  <2>6. IsFiniteSet(A \cup B) /\ Cardinality(A \cup B) = Cardinality(A) + Cardinality(B) - Cardinality(A \cap B)
    BY <2>4, FS_Union
  <2>7. Cardinality(A \cap B) \in Nat
    BY <2>4, FS_Intersection, FS_CardinalityType
  <2>8. Cardinality(A \cup B) <= Cardinality(A) + Cardinality(B)
    BY <2>4, <2>6, <2>7
  <2> QED
    BY <2>4, <2>5, <2>6, <2>8
<1>11. Cardinality(C) <= Cardinality(T) /\ Cardinality(C) \in Nat /\ Cardinality(T) \in Nat
  <2> HIDE DEF f, T
  <2> QED
    BY <1>1, <1>9, <1>10, FS_Injection, FS_CardinalityType
<1>12. Cardinality(L) * max + (max - lo + 1) = (Cardinality(L) + 1) * max - (IF shared THEN 0 ELSE 1)
  <2> DEFINE l == Cardinality(L)
  <2>1. l \in Nat /\ max \in Nat
    BY <1>1, <1>5
  <2> HIDE DEF l
  <2>2. (l + 1) * max = l * max + max /\ l * max \in Nat
    BY <2>1
  <2>3. CASE shared
    BY <2>1, <2>2, <2>3 DEF l
  <2>4. CASE ~shared
    BY <2>1, <2>2, <2>4 DEF l
  <2> QED
    BY <2>3, <2>4
<1>13. Cardinality(L) * max + (max - lo + 1) \in Int
  BY <1>1, <1>5
<1>14. Cardinality(C) <= Cardinality(L) * max + (max - lo + 1)
  <2> HIDE DEF lo, T
  <2> DEFINE n == Cardinality(L) * max + (max - lo + 1)
  <2>1. n \in Int /\ Cardinality(T) <= n
    BY <1>10, <1>13
  <2> HIDE DEF n
  <2> QED
    BY <1>11, <2>1 DEF n
<1> HIDE DEF lo
<1> QED
  BY <1>1, <1>5, <1>12, <1>14, Zenon DEF C, L, max

(* In either store the counter of a key admits at most Max requests of a   *)
(* window; within any span of one the key is admitted at most twice that,  *)
(* once more for each further life of its counter, and when Postgres       *)
(* fails; and only a key with a far shorter window ends a life: for any    *)
(* keys, limits and windows.                                               *)
THEOREM LimitHoldsHolds == LimitsConstantsOK /\ LimitsSpec => []LimitHolds
<1>1. ASSUME LimitInv, NEW k \in Key
      PROVE  /\ served[k].n <= Max[k]
             /\ Cardinality(recent[k]) <=
                  (Cardinality(Lives(k)) + 1) * Max[k] - (IF shared THEN 0 ELSE 1)
                    + Cardinality(recent[k] \ CountedOf(k))
             /\ forgotten[k] > 0 => \E j \in Key : Window[k] > 2 * Window[j]
  <2> DEFINE C == CountedOf(k)
             F == recent[k] \ CountedOf(k)
             bound == (Cardinality(Lives(k)) + 1) * Max[k] - (IF shared THEN 0 ELSE 1)
  <2>1. LimitTypes /\ CountsServed(k) /\ Admissions(k) /\ ForgottenByShorter(k)
    BY <1>1 DEF LimitInv
  <2>2. /\ IsFiniteSet(Lives(k)) /\ IsFiniteSet(C) /\ Cardinality(C) <= bound
        /\ Cardinality(Lives(k)) \in Nat /\ Max[k] \in Nat
    BY <2>1, CountedAreFew, Windows, FS_CardinalityType
  <2>3. bound \in Int
    BY <2>2
  <2>4. IsFiniteSet(F) /\ recent[k] = C \cup F /\ C \cap F = {}
    <3>1. IsFiniteSet(recent[k])
      BY <2>1 DEF Admissions
    <3> QED
      BY <3>1, FS_Subset DEF CountedOf
  <2> HIDE DEF C, F, bound
  <2>5. Cardinality(recent[k]) = Cardinality(C) + Cardinality(F) - Cardinality(C \cap F)
    BY <2>2, <2>4, FS_Union
  <2>6. Cardinality(C \cap F) = 0 /\ Cardinality(C) \in Nat /\ Cardinality(F) \in Nat
    BY <2>2, <2>4, FS_EmptySet, FS_CardinalityType
  <2>7. Cardinality(recent[k]) <= bound + Cardinality(F)
    BY <2>2, <2>3, <2>5, <2>6
  <2> QED
    BY <2>1, <2>7 DEF CountsServed, ForgottenByShorter, bound, F
<1>2. LimitInv => LimitHolds
  BY <1>1, Zenon DEF LimitHolds
<1> QED
  BY <1>2, LimitsBegin, LimitsStep, PTL DEF LimitsSpec

=============================================================================

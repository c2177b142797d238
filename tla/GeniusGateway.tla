---------------------------- MODULE GeniusGateway ----------------------------
(***************************************************************************)
(* Calls to Genius: GeniusGatewayClient posts one to the gateway service,  *)
(* whose handler runs GeniusGet through the pipeline -- breaker, cooldown, *)
(* the lane's token bucket and semaphore, the rate limiter -- and tries    *)
(* again after a 429, a 5xx or a network error.  The client may give up    *)
(* meanwhile.  Breaker, cooldown and limiter are modules of their own;     *)
(* here they let a call pass after any time, or refuse it.                 *)
(***************************************************************************)
EXTENDS Integers, FiniteSets

CONSTANTS Caller,        \* one for each call
          Kind,          \* [Caller -> what it asks for]
          Lane,          \* lanes of the pipeline
          LaneOf,        \* [Caller -> lane]
          Refill,        \* [Lane -> refill_ns_, in ticks]
          Burst,         \* [Lane -> capacity_]
          Concurrent,    \* [Lane -> slots of the semaphore]
          MaxAttempts,   \* backoff_max_attempts_
          MaxTicks        \* bound of the model

Kinds == {"candidates", "artist", "song list", "song"}

GatewayConstantsOK ==
  /\ IsFiniteSet(Caller) /\ MaxAttempts \in Nat \ {0} /\ MaxTicks \in Nat
  /\ Kind \in [Caller -> Kinds] /\ LaneOf \in [Caller -> Lane]
  /\ \A l \in Lane : Refill[l] \in Nat \ {0} /\ Burst[l] \in Nat \ {0} /\ Concurrent[l] \in Nat \ {0}

VARIABLES calls,    \* [Caller -> [at, attempts, answer, waits]]; waits: the client does
          bucket,   \* [Lane -> tokens_, in parts of Refill to the token]
          filled,   \* [Lane -> last_refill_]
          ticks,    \* steady_clock
          since,    \* history: when the counts below began
          granted,  \* history: [Lane -> tokens taken since]
          sent,     \* history: [Lane -> requests sent to Genius since]
          waited    \* history: [Lane -> calls that had a token then and had not sent]

geniusVars == <<calls, bucket, filled, ticks, since, granted, sent, waited>>

NewCall == [at |-> "new", attempts |-> 0, answer |-> "none", waits |-> TRUE]

GatewayInit ==
  /\ calls = [c \in Caller |-> NewCall]
  /\ bucket = [l \in Lane |-> Burst[l] * Refill[l]]
  /\ filled = [l \in Lane |-> 0]
  /\ ticks = 0
  /\ since = 0
  /\ granted = [l \in Lane |-> 0] /\ sent = [l \in Lane |-> 0] /\ waited = [l \in Lane |-> 0]

Stage(c) == calls[c].at
MoveTo(c, step) == calls' = [calls EXCEPT ![c].at = step]

(* HandleGeniusError, and the client's answer to a client that waits: the   *)
(* handlers of an artist and of a song call any error but a 401 "not        *)
(* found".                                                                  *)
AnswerFor(c, status) ==
  IF Kind[c] \in {"artist", "song"} /\ status \notin {"200", "401", "400"} THEN "not found" ELSE status

End(c, status) == calls' = [calls EXCEPT ![c].at = "ended", ![c].answer = AnswerFor(c, status)]

bucketVars == <<bucket, filled>>
historyVars == <<since, granted, sent, waited>>

(* The handler refuses a request without a token; GeniusGet begins.         *)
Post(c) ==
  /\ Stage(c) = "new"
  /\ MoveTo(c, "pipeline") \/ End(c, "400")
  /\ UNCHANGED <<bucketVars, ticks, historyVars>>

(* AllowRequest. *)
BreakerOpen(c) ==
  /\ Stage(c) = "pipeline" /\ End(c, "503")
  /\ UNCHANGED <<bucketVars, ticks, historyVars>>

(* WaitForCooldown is over. *)
PassGates(c) ==
  /\ Stage(c) = "pipeline" /\ MoveTo(c, "bucket")
  /\ UNCHANGED <<bucketVars, ticks, historyVars>>

(* A mutant: an idle bucket goes on filling. *)
Uncapped(l) == bucket[l] + ticks - filled[l]

(* Refill counts whole periods and what is left of the last one. *)
RefilledTokens(l) ==
  LET full == Burst[l] * Refill[l]  more == bucket[l] + ticks - filled[l] IN
  IF more < full THEN more ELSE full

(* TokenBucket::Acquire, each time that it looks. *)
TakeToken(c) ==
  LET l == LaneOf[c]
      due == ticks - filled[l] >= Refill[l]
      have == IF due THEN RefilledTokens(l) ELSE bucket[l] IN
  /\ Stage(c) = "bucket"
  /\ filled' = IF due THEN [filled EXCEPT ![l] = ticks] ELSE filled
  /\ IF have >= Refill[l]
     THEN /\ bucket' = [bucket EXCEPT ![l] = have - Refill[l]] /\ MoveTo(c, "semaphore")
          /\ granted' = [granted EXCEPT ![l] = @ + 1]
     ELSE bucket' = [bucket EXCEPT ![l] = have] /\ UNCHANGED <<calls, granted>>
  /\ UNCHANGED <<ticks, since, sent, waited>>

(* Calls that have taken a token and wait for the semaphore or the limiter.*)
Unsent(l) == {c \in Caller : LaneOf[c] = l /\ Stage(c) \in {"semaphore", "limiter"}}

(* A call holds its lane's slot until its Guard goes: at once after a 429,  *)
(* and after the pause of any other retry.                                  *)
Holds(c) == Stage(c) \in {"limiter", "genius", "backoff"}
Busy(l) == {c \in Caller : LaneOf[c] = l /\ Holds(c)}

TakeSlot(c) ==
  /\ Stage(c) = "semaphore" /\ Cardinality(Busy(LaneOf[c])) < Concurrent[LaneOf[c]]
  /\ MoveTo(c, "limiter")
  /\ UNCHANGED <<bucketVars, ticks, historyVars>>

(* AcquireSlot is over; the request goes to Genius. *)
Send(c) ==
  /\ Stage(c) = "limiter" /\ MoveTo(c, "genius")
  /\ sent' = [sent EXCEPT ![LaneOf[c]] = @ + 1]
  /\ UNCHANGED <<bucketVars, ticks, since, granted, waited>>

(* OnResponse: 2xx, and 4xx but 429, end the call. *)
Answered(c) ==
  /\ Stage(c) = "genius"
  /\ \E status \in {"200", "401", "404"} : End(c, status)
  /\ UNCHANGED <<bucketVars, ticks, historyVars>>

(* A 429 is slept off, also the last one. *)
TooMany(c) ==
  /\ Stage(c) = "genius"
  /\ calls' = [calls EXCEPT ![c].at = "sleeping", ![c].attempts = @ + 1]
  /\ UNCHANGED <<bucketVars, ticks, historyVars>>

SleptOff(c) ==
  /\ Stage(c) = "sleeping"
  /\ IF calls[c].attempts >= MaxAttempts THEN End(c, "503") ELSE MoveTo(c, "pipeline")
  /\ UNCHANGED <<bucketVars, ticks, historyVars>>

(* A 5xx answer or a network error, and a pause. *)
Failed(c) ==
  /\ Stage(c) = "genius"
  /\ IF calls[c].attempts + 1 >= MaxAttempts
     THEN End(c, "5xx")
     ELSE calls' = [calls EXCEPT ![c].at = "backoff", ![c].attempts = @ + 1]
  /\ UNCHANGED <<bucketVars, ticks, historyVars>>

(* ExponentialBackoff is over. *)
Retry(c) ==
  /\ Stage(c) = "backoff" /\ MoveTo(c, "pipeline")
  /\ UNCHANGED <<bucketVars, ticks, historyVars>>

(* The client's time-out: it sees a 502, or nothing found.                 *)
ClientGivesUp(c) ==
  /\ calls[c].waits /\ Stage(c) \notin {"new", "ended"}
  /\ calls' = [calls EXCEPT ![c].waits = FALSE]
  /\ UNCHANGED <<bucketVars, ticks, historyVars>>

(* A handler whose client has gone is cancelled: its next wait ends, and    *)
(* the request to Genius is not counted as a failure; the semaphore throws. *)
Cancelled(c) ==
  /\ ~calls[c].waits
  /\ \/ Stage(c) = "genius" /\ (End(c, "499") \/ End(c, "504"))
     \/ Stage(c) = "semaphore" /\ End(c, "500")
  /\ UNCHANGED <<bucketVars, ticks, historyVars>>

ClockTicks ==
  /\ ticks < MaxTicks /\ ticks' = ticks + 1
  /\ UNCHANGED <<calls, bucketVars, historyVars>>

(* Part of the history: the count begins anew, once. *)
Observe ==
  /\ since = 0 /\ ticks > 0
  /\ since' = ticks
  /\ granted' = [l \in Lane |-> 0] /\ sent' = [l \in Lane |-> 0]
  /\ waited' = [l \in Lane |-> Cardinality(Unsent(l))]
  /\ UNCHANGED <<calls, bucketVars, ticks>>

GeniusGet(c) ==
  \/ BreakerOpen(c) \/ PassGates(c) \/ TakeToken(c) \/ TakeSlot(c) \/ Send(c)
  \/ Answered(c) \/ TooMany(c) \/ SleptOff(c) \/ Failed(c) \/ Retry(c) \/ Cancelled(c)

GatewayNext == ClockTicks \/ Observe \/ \E c \in Caller : Post(c) \/ GeniusGet(c) \/ ClientGivesUp(c)

GatewaySpec == GatewayInit /\ [][GatewayNext]_geniusVars

-----------------------------------------------------------------------------
GatewayTypeOK ==
  /\ GatewayConstantsOK
  /\ \A c \in Caller :
       /\ Stage(c) \in {"new", "pipeline", "bucket", "semaphore", "limiter", "genius", "sleeping",
                     "backoff", "ended"}
       /\ calls[c].attempts \in 0..MaxAttempts
  /\ \A l \in Lane : bucket[l] >= 0 /\ filled[l] \in 0..ticks

(* Genius is not flooded, whoever tries again and however long a lane was   *)
(* idle: in any span of time a lane sends at most its burst, one request    *)
(* per refill period begun (a full bucket still counts the period before)   *)
(* and, for a token is taken before the waits for the semaphore and the     *)
(* limiter, one for each call that stood there when the span began; and at  *)
(* most Concurrent are under way at a time, among them those that pause     *)
(* after a failure.                                                         *)
LoadIsBounded ==
  \A l \in Lane :
    /\ sent[l] <= waited[l] + Burst[l] + (ticks - since + Refill[l] - 1) \div Refill[l]
    /\ Cardinality(Busy(l)) <= Concurrent[l]

=============================================================================

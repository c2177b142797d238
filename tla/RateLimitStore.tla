--------------------------- MODULE RateLimitStore ---------------------------
(***************************************************************************)
(* The rate limit of one handler: fixed windows per key in a store that    *)
(* cookies and IP addresses (short windows) share with API keys (long      *)
(* windows).  shared tells the store: rows of Postgres, whose windows are  *)
(* aligned to the clock, or a table in the process, where they begin with  *)
(* a request.  A call is one step: a mutex, or one statement.              *)
(***************************************************************************)
EXTENDS Integers, FiniteSets

CONSTANTS Key,      \* limit keys: a session, an IP address, "apikey:<id>"
          Max,      \* [Key -> requests per window], from the handler or the tier
          Window,   \* [Key -> length of the window], in ticks
          MaxClock, MaxForgotten, MaxFailures
                    \* bounds of the model: on the clock, on how often the counter of a key
                    \* is collected while it is valid, and on failures of Postgres

VARIABLES shared,    \* backend of the static config: TRUE for Postgres, FALSE for one process
          clock,
          buckets,   \* <<key, window_start>> -> count
          lastGc,    \* last_gc_ of the store in the process
          served,    \* history: [start, n] of a key's counter and what it admitted
          recent,    \* history: a key's admissions of the last Window before its latest
                     \* one, by its counter or because Postgres failed: the window, the
                     \* life of the counter, its number in that, or its failure's, and the time
          forgotten, \* history: how often a key's counter was collected while valid
          failures   \* history: how many requests met a failing Postgres

rateVars == <<shared, clock, buckets, lastGc, served, recent, forgotten, failures>>

LimitsConstantsOK ==
  /\ Max \in [Key -> Nat \ {0}] /\ Window \in [Key -> Nat \ {0}]
  /\ MaxClock \in Nat /\ MaxForgotten \in Nat /\ MaxFailures \in Nat

(* last_gc_ is the epoch until the first call. *)
LimitsInit ==
  /\ shared \in BOOLEAN
  /\ clock = 0 /\ buckets = <<>> /\ lastGc = 0 - MaxClock
  /\ served = [k \in Key |-> [start |-> 0, n |-> 0]]
  /\ recent = [k \in Key |-> {}]
  /\ forgotten = [k \in Key |-> 0] /\ failures = 0

(* WindowStart: windows of Postgres are aligned to the clock. *)
NewStart(k) == IF shared THEN (clock \div Window[k]) * Window[k] ELSE clock

ValidStart(k, start) ==
  IF shared THEN start = NewStart(k) ELSE clock - start < Window[k]

(* A collection removes what is old for the caller, who has key k.         *)
TooOld(k, start) ==
  IF shared THEN start < clock - 4 * Window[k] ELSE clock - start > 2 * Window[k]

Collected(k) == {b \in DOMAIN buckets : TooOld(k, b[2])}

(* The bucket that k counts in is the valid one of those kept, or a new one. *)
BucketOf(k, kept) ==
  LET valid == {b \in kept : b[1] = k /\ ValidStart(k, b[2])}
  IN IF valid = {} THEN <<k, NewStart(k)>> ELSE CHOOSE b \in valid : TRUE

(* A mutant: the limit itself is refused, and so the count stays too low.  *)
CountUnlessFull(b, kept) ==
  IF b \notin kept THEN 1 ELSE IF buckets[b] < Max[b[1]] THEN buckets[b] + 1 ELSE buckets[b]

(* Counts above Max + 1 tell nothing more. *)
CountIn(b, kept) ==
  IF b \notin kept THEN 1
  ELSE IF buckets[b] <= Max[b[1]] THEN buckets[b] + 1 ELSE buckets[b]

(* The table after k's request; buckets that no request can count in any   *)
(* more are left out.                                                      *)
Counted(k, kept) ==
  LET b == BucketOf(k, kept)
      others == {o \in kept : o[1] # k /\ ValidStart(o[1], o[2])}
  IN [o \in others \cup {b} |-> IF o = b THEN CountIn(b, kept) ELSE buckets[o]]

Without(table, gone) == [b \in DOMAIN table \ gone |-> table[b]]

(* An admission that was counted, in the counter that is still valid or in *)
(* a new one.                                                              *)
Admission(k) ==
  IF served[k].n > 0 /\ ValidStart(k, served[k].start)
  THEN [start |-> served[k].start, n |-> served[k].n + 1]
  ELSE [start |-> NewStart(k), n |-> 1]

Recorded(k, by, now) ==
  [recent EXCEPT ![k] =
     {a \in recent[k] : a.at > clock - Window[k]}
       \cup {[by |-> by, start |-> now.start, life |-> forgotten[k], n |-> now.n, at |-> clock]}]

(* The keys whose counter is collected though it is valid. *)
Forgets(gone) == {b[1] : b \in {g \in gone : ValidStart(g[1], g[2])}}

(* What is known of the counters when k was counted, and admitted or not.  *)
Settle(k, admitted, gone) ==
  /\ \A j \in Forgets(gone) : forgotten[j] < MaxForgotten
  /\ forgotten' = [j \in Key |-> IF j \in Forgets(gone) THEN forgotten[j] + 1 ELSE forgotten[j]]
  /\ served' = [j \in Key |->
       IF j \in Forgets(gone) THEN [start |-> served[j].start, n |-> 0]
       ELSE IF j = k /\ admitted THEN Admission(k) ELSE served[j]]

(* The answer of Allow, for a request that Postgres or the mutex counted   *)
(* as the count-th of its window.                                          *)
Decide(k, count, gone) ==
  /\ Settle(k, count <= Max[k], gone)
  /\ recent' = IF count <= Max[k] THEN Recorded(k, "count", Admission(k)) ELSE recent
  /\ UNCHANGED failures

(* InProcessRateLimitStore::Allow collects, if it is time to, and counts.  *)
AllowInProcess(k) ==
  LET gc == clock - lastGc > 4 * Window[k]
      gone == IF gc THEN Collected(k) ELSE {}
      kept == DOMAIN buckets \ gone
  IN
  /\ ~shared
  /\ buckets' = Counted(k, kept)
  /\ Decide(k, CountIn(BucketOf(k, kept), kept), gone)
  /\ lastGc' = IF gc THEN clock ELSE lastGc
  /\ UNCHANGED <<shared, clock>>

(* PostgresRateLimitStore::Allow counts and, one time in 128, collects.    *)
AllowShared(k, gc) ==
  LET gone == IF gc THEN Collected(k) ELSE {} IN
  /\ shared
  /\ buckets' = Without(Counted(k, DOMAIN buckets), gone)
  /\ Decide(k, CountIn(BucketOf(k, DOMAIN buckets), DOMAIN buckets), gone)
  /\ UNCHANGED <<shared, clock, lastGc>>

(* Postgres fails before it has counted, or after that, or after it has    *)
(* collected: the request is admitted, whatever its count.                 *)
FailOpen(k) ==
  /\ shared /\ failures < MaxFailures
  /\ \/ buckets' = buckets /\ Settle(k, FALSE, {})
     \/ \E gone \in {{}, Collected(k)} :
          buckets' = Without(Counted(k, DOMAIN buckets), gone) /\ Settle(k, FALSE, gone)
  /\ failures' = failures + 1
  /\ recent' = Recorded(k, "failure", [start |-> 0, n |-> failures + 1])
  /\ UNCHANGED <<shared, clock, lastGc>>

LimitsTick ==
  /\ clock < MaxClock
  /\ clock' = clock + 1
  /\ UNCHANGED <<shared, buckets, lastGc, served, recent, forgotten, failures>>

LimitsNext ==
  \/ \E k \in Key : AllowInProcess(k) \/ (\E gc \in BOOLEAN : AllowShared(k, gc)) \/ FailOpen(k)
  \/ LimitsTick

LimitsSpec == LimitsInit /\ [][LimitsNext]_rateVars

-----------------------------------------------------------------------------
LimitsTypeOK ==
  /\ LimitsConstantsOK /\ shared \in BOOLEAN
  /\ clock \in 0..MaxClock /\ lastGc \in (0 - MaxClock)..MaxClock
  /\ DOMAIN buckets \subseteq Key \X (0..MaxClock)
  /\ \A b \in DOMAIN buckets : buckets[b] \in Nat \ {0} /\ b[2] <= clock
  /\ forgotten \in [Key -> 0..MaxForgotten] /\ failures \in 0..MaxFailures

CountedOf(k) == {a \in recent[k] : a.by = "count"}
Lives(k) == {a.life : a \in CountedOf(k)}

(* A counter admits at most Max requests of a window.  Within any span of  *)
(* one window's length a key is admitted at most twice its limit, around   *)
(* the boundary of two windows (in the process, where a window begins with *)
(* a request, once less), and its limit more for each further life of its  *)
(* counter, which a collection ends while the window lasts; what comes on  *)
(* top of that met a failing Postgres.  And a counter is collected in its  *)
(* window only if another key's is less than half as long: the 60 s of an  *)
(* API key next to the 1 s of a cookie (rate_limit_store.cpp:13,           *)
(* rate_limit_store_postgres.cpp:50).                                      *)
LimitHolds ==
  \A k \in Key :
    /\ served[k].n <= Max[k]
    /\ Cardinality(recent[k]) <=
         (Cardinality(Lives(k)) + 1) * Max[k] - (IF shared THEN 0 ELSE 1)
           + Cardinality(recent[k] \ CountedOf(k))
    /\ forgotten[k] > 0 => \E j \in Key : Window[k] > 2 * Window[j]

=============================================================================

----------------------------- MODULE GameSeasons -----------------------------
(***************************************************************************)
(* services/game: how challenges are published.  DailyChallengeTask, the   *)
(* admin handler and the challenge handler find a path (IdealPath), make   *)
(* sure of the season (EnsureCurrentSeason), then store the challenge and, *)
(* in another statement, its ideal path.  A step is one statement or one   *)
(* transaction of GameStore; a query may throw between any two.            *)
(***************************************************************************)
EXTENDS Integers, Sequences, FiniteSets

CONSTANTS
  Author,          \* publishers of challenges
  KindOf,          \* "task", "admin" or "player", of each publisher
  Pair,            \* pairs of artists
  PathLengths,     \* lengths of the paths FindIdealPath may find, 0 for none
  MinPathLen,      \* ChallengeRules
  Tries,           \* max_attempts_, kRandomPairAttempts
  SeasonLen,       \* kSeasonLenSeconds
  MaxSeasonTime,   \* a bound on the clock
  MaxRuns          \* and one on what a publisher publishes

SeasonsConstantsOK ==
  /\ KindOf \in [Author -> {"task", "admin", "player"}]
  /\ PathLengths \subseteq Nat /\ MinPathLen \in Nat \ {0}
  /\ Tries \in Nat \ {0} /\ SeasonLen \in Nat \ {0}

VARIABLES
  wallClock,
  seasons,      \* game_seasons: start of each season, by id
  challenges,   \* game_challenges, by id
  job,          \* the publishers' locals
  orphans       \* history: rows whose last publisher failed before the ideal was stored

seasonVars == <<wallClock, seasons, challenges, job, orphans>>

Null == 0

Resting(runs, at) ==
  [at |-> at, runs |-> runs, tries |-> Tries, pair |-> Null, len |-> Null, clock |-> Null,
   season |-> Null, row |-> Null, created |-> FALSE, told |-> Null]

(***************************************************************************)
(* The task runs once at startup.                                          *)
(***************************************************************************)
SeasonsInit ==
  /\ wallClock = 0
  /\ seasons = <<>>
  /\ challenges = <<>>
  /\ job = [q \in Author |-> Resting(0, IF KindOf[q] = "task" THEN "looking" ELSE "idle")]
  /\ orphans = {}

ChallengeKind(q) == IF KindOf[q] = "player" THEN "custom" ELSE "daily"

-----------------------------------------------------------------------------
(* Finding a pair *)

(***************************************************************************)
(* The task's interval is over, or a request arrives.                      *)
(***************************************************************************)
BeginToPublish(q) ==
  /\ job[q].at = "idle" /\ job[q].runs < MaxRuns
  /\ job' = [job EXCEPT ![q].at = "looking", ![q].runs = @ + 1]
  /\ UNCHANGED <<wallClock, seasons, challenges, orphans>>

PathLenOk(len) == len >= MinPathLen

(***************************************************************************)
(* RunOnce and the admin handler try pairs until one is far enough apart.  *)
(* Given a pair, an admin or a player has one try; without a path a        *)
(* player's challenge is published all the same, a too short one is not.   *)
(* NowUnix, the first thing EnsureCurrentSeason does, is part of the step. *)
(***************************************************************************)
Look(q, pair, len) ==
  LET enough == PathLenOk(len) \/ (KindOf[q] = "player" /\ len = Null)
      given == KindOf[q] # "task"
  IN
  /\ job[q].at = "looking"
  /\ \/ /\ enough
        /\ job' = [job EXCEPT ![q].at = "dated", ![q].pair = pair, ![q].len = len,
                                ![q].clock = wallClock]
     \/ /\ ~enough /\ KindOf[q] # "player" /\ job[q].tries > 1
        /\ job' = [job EXCEPT ![q].tries = @ - 1]
     \/ /\ ~enough /\ (given \/ job[q].tries = 1)
        /\ job' = [job EXCEPT ![q] = Resting(@.runs, "idle")]
  /\ UNCHANGED <<wallClock, seasons, challenges, orphans>>

-----------------------------------------------------------------------------
(* EnsureCurrentSeason *)

StartOf(t) == t - (t % SeasonLen)

Covering(t) ==
  {i \in DOMAIN seasons : seasons[i] <= t /\ t < seasons[i] + SeasonLen}

(***************************************************************************)
(* The transaction: LOCK TABLE ... IN EXCLUSIVE MODE makes it one step.    *)
(* The clock was read before the lock was waited for.                      *)
(***************************************************************************)
EnsureCurrentSeason(q) ==
  LET now == job[q].clock IN
  /\ job[q].at = "dated"
  /\ \/ /\ \E i \in Covering(now) :
             job' = [job EXCEPT ![q].at = "in season", ![q].season = i]
        /\ UNCHANGED seasons
     \/ /\ Covering(now) = {}
        /\ seasons' = Append(seasons, StartOf(now))
        /\ job' = [job EXCEPT ![q].at = "in season", ![q].season = Len(seasons')]
  /\ UNCHANGED <<wallClock, challenges, orphans>>

-----------------------------------------------------------------------------
(* Storing the challenge *)

Rows(kind) == {i \in DOMAIN challenges : challenges[i].kind = kind}

(***************************************************************************)
(* INSERT ... ON CONFLICT DO UPDATE SET kind = kind: a row that is there   *)
(* keeps its season and its created_ts.                                    *)
(***************************************************************************)
UpsertRow(q) ==
  LET old == {i \in Rows(ChallengeKind(q)) : challenges[i].pair = job[q].pair}
      row == [pair |-> job[q].pair, kind |-> ChallengeKind(q), season |-> job[q].season,
              created |-> wallClock, ideal |-> Null]
  IN
  /\ job[q].at = "in season"
  /\ challenges' = IF old = {} THEN Append(challenges, row) ELSE challenges
  /\ LET i == IF old = {} THEN Len(challenges') ELSE CHOOSE i \in old : TRUE IN
     job' = [job EXCEPT ![q].at = "stored", ![q].row = i, ![q].created = (old = {}),
                        ![q].told = challenges'[i].ideal]
  /\ UNCHANGED <<wallClock, seasons, orphans>>

\* Mutant: who inserted the row stores its ideal (created instead of optimal_len).
StoresIdealOfNew(q) == job[q].created /\ job[q].len # Null

(***************************************************************************)
(* Whether a publisher that has stored its challenge goes on to store the  *)
(* ideal: the RETURNING of UpsertRow knew none.                      *)
(***************************************************************************)
StoresIdeal(q) == job[q].told = Null /\ job[q].len # Null

(***************************************************************************)
(* UPDATE ... WHERE optimal_len IS NULL, if there is something to store.   *)
(* The player is told the ideal only if its own was stored; the admin is   *)
(* told its own in any case.                                               *)
(***************************************************************************)
SetIdealOf(q) ==
  LET i == job[q].row
      stores == StoresIdeal(q)
  IN
  /\ job[q].at = "stored"
  /\ challenges' = IF stores /\ challenges[i].ideal = Null
                   THEN [challenges EXCEPT ![i].ideal = job[q].len] ELSE challenges
  /\ job' = [job EXCEPT
       ![q].at = "published",
       ![q].told = IF stores /\ (KindOf[q] # "player" \/ challenges[i].ideal = Null)
                   THEN job[q].len ELSE @]
  /\ orphans' = IF job[q].len # Null THEN orphans \ {i} ELSE orphans
  /\ UNCHANGED <<wallClock, seasons>>

(***************************************************************************)
(* The answer; the task goes to sleep.                                     *)
(***************************************************************************)
Conclude(q) ==
  /\ job[q].at = "published"
  /\ job' = [job EXCEPT ![q] = Resting(@.runs, "idle")]
  /\ UNCHANGED <<wallClock, seasons, challenges, orphans>>

(***************************************************************************)
(* A query throws or the process dies.  The task's Loop does not catch     *)
(* anything: it has ended until the service is started again.              *)
(***************************************************************************)
QueryThrows(q) ==
  /\ job[q].at \in {"looking", "dated", "in season", "stored"}
  /\ job' = [job EXCEPT ![q] = Resting(@.runs, IF KindOf[q] = "task" THEN "dead" ELSE "idle")]
  /\ orphans' = IF job[q].at = "stored" /\ challenges[job[q].row].ideal = Null
                THEN orphans \cup {job[q].row} ELSE orphans
  /\ UNCHANGED <<wallClock, seasons, challenges>>

Restart(q) ==
  /\ job[q].at = "dead" /\ job[q].runs < MaxRuns
  /\ job' = [job EXCEPT ![q] = Resting(@.runs + 1, "looking")]
  /\ UNCHANGED <<wallClock, seasons, challenges, orphans>>

SeasonsTick ==
  /\ wallClock < MaxSeasonTime
  /\ wallClock' = wallClock + 1
  /\ UNCHANGED <<seasons, challenges, job, orphans>>

PublishStep(q) ==
  \/ BeginToPublish(q) \/ EnsureCurrentSeason(q) \/ UpsertRow(q)
  \/ SetIdealOf(q) \/ Conclude(q) \/ QueryThrows(q) \/ Restart(q)
  \/ \E pair \in Pair, len \in PathLengths : Look(q, pair, len)

SeasonsNext == SeasonsTick \/ \E q \in Author : PublishStep(q)

SeasonsSpec == SeasonsInit /\ [][SeasonsNext]_seasonVars

-----------------------------------------------------------------------------

(***************************************************************************)
(* GetLatestDailyChallenge: any of the youngest.                           *)
(***************************************************************************)
LatestDaily ==
  {i \in Rows("daily") : \A j \in Rows("daily") : challenges[j].created <= challenges[i].created}

(* Rows, seasons and failures refer to one another, never to nothing.      *)
SeasonsTypeOK ==
  /\ SeasonsConstantsOK
  /\ wallClock \in Nat
  /\ seasons \in Seq(Nat)
  /\ \A i \in DOMAIN challenges :
       /\ challenges[i].season \in DOMAIN seasons
       /\ challenges[i].ideal \in PathLengths \cup {Null}
  /\ orphans \subseteq DOMAIN challenges

(***************************************************************************)
(* "Today's" challenge can be played: GET /game/challenge?daily=1 shows a  *)
(* row without an ideal path (to which every submission is refused) only   *)
(* while its publisher is about to store it or after the last who          *)
(* published it failed on the way, and the season it belongs to is the     *)
(* only one of its time, whoever asked for the season first.               *)
(***************************************************************************)
DailyIsPlayable ==
  \A i \in LatestDaily :
    /\ \/ challenges[i].ideal # Null
       \/ i \in orphans
       \/ \E q \in Author : job[q].at = "stored" /\ job[q].row = i /\ StoresIdeal(q)
    /\ LET s == challenges[i].season IN Covering(seasons[s]) = {s}

=============================================================================

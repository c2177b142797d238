------------------------------ MODULE GameStore ------------------------------
(***************************************************************************)
(* services/game: challenges, submissions, ratings and achievements.       *)
(* Handlers of POST /game/submit run GameStore's SQL at READ COMMITTED, so *)
(* a step is one statement, or one transaction as seen by the others: what *)
(* a transaction has written is visible when it commits.  The publishers   *)
(* are the challenge handler, the admin handler and DailyChallengeTask.    *)
(*                                                                         *)
(* The logistic curve of UpdateElo is left out: a rated game moves the     *)
(* rating by some member of Delta, down to kMinRating at the lowest.       *)
(***************************************************************************)
EXTENDS Integers, Sequences, FiniteSets

CONSTANTS
  Player, Challenge,
  Submission,     \* POST /game/submit requests
  Publisher,      \* tasks and handlers that publish challenges
  NoOne,
  Hops,           \* lengths of chains and ideal paths
  Elapsed,        \* elapsed_ms of the requests
  Delta,          \* UpdateElo: what a rated game adds
  StartElo,       \* 1200
  kMinRating,     \* 100
  kEloMasterThreshold,  \* 1500
  kVeteranGames         \* 50

ASSUME GameAssumption ==
  /\ Hops \subseteq Nat \ {0}
  /\ Elapsed \subseteq Nat
  /\ Delta \subseteq Int
  /\ StartElo \in Int /\ kMinRating \in Int /\ kEloMasterThreshold \in Int
  /\ kMinRating <= StartElo
  /\ StartElo < kEloMasterThreshold
  /\ kVeteranGames \in Nat \ {0}
  /\ NoOne \notin Submission

VARIABLES
  ideal,         \* game_challenges.optimal_len, Unknown while NULL
  elo, games,    \* game_profiles
  row_lock,      \* the transaction that holds the profile's row
  attempts,      \* committed rows of game_attempts
  achievements,  \* game_user_achievements
  pc, req,       \* where each submission is, and its request and locals
  publishing,    \* what each publisher found before it stores an ideal
  gained,        \* history: the sum of the elo_delta of a player's games
  announced,     \* history: achievements the answers report as unlocked
  interrupted    \* history: players with a submission that died

store == <<ideal, elo, games, row_lock, attempts, achievements>>
history == <<gained, announced, interrupted>>
vars == <<store, pc, req, publishing, history>>

Unknown == 0

Code == {"first_win", "perfect_solve", "speedrunner", "veteran", "elo_1500"}

(***************************************************************************)
(* EvaluateAndAwardAchievements inserts its candidates in this order.      *)
(***************************************************************************)
Rank == [first_win |-> 1, perfect_solve |-> 2, speedrunner |-> 3, veteran |-> 4,
         elo_1500 |-> 5]

PC == {"idle", "read", "counted", "locked", "awarding", "done"}

(***************************************************************************)
(* The request of a submission and what its handler has read and computed. *)
(***************************************************************************)
Request ==
  [player : Player, challenge : Challenge, hops : Hops, valid : BOOLEAN,
   elapsed : Elapsed, optimal : Hops, ranked : BOOLEAN, began : Nat, score : Int,
   elo_before : Int, elo_after : Int, todo : SUBSET Code]

Work == [challenge : Challenge, path : Hops]

Init ==
  /\ ideal = [c \in Challenge |-> Unknown]
  /\ elo = [p \in Player |-> StartElo]
  /\ games = [p \in Player |-> 0]
  /\ row_lock = [p \in Player |-> NoOne]
  /\ attempts = <<>>
  /\ achievements = [p \in Player |-> {}]
  /\ pc = [s \in Submission |-> "idle"]
  /\ req = [s \in Submission |-> NoOne]
  /\ publishing = [q \in Publisher |-> NoOne]
  /\ gained = [p \in Player |-> 0]
  /\ announced = {}
  /\ interrupted = {}

-----------------------------------------------------------------------------
(* Publishers *)

(***************************************************************************)
(* FindIdealPath answers from the graph of that moment; UpsertChallenge    *)
(* tells whether the challenge has an ideal already.                       *)
(***************************************************************************)
UpsertChallenge(q, c, path) ==
  /\ publishing[q] = NoOne
  /\ ideal[c] = Unknown
  /\ publishing' = [publishing EXCEPT ![q] = [challenge |-> c, path |-> path]]
  /\ UNCHANGED <<store, pc, req, history>>

\* Mutant: UPDATE without "AND optimal_len IS NULL".
OverwriteIdeal(q) ==
  /\ publishing[q] # NoOne
  /\ ideal' = [ideal EXCEPT ![publishing[q].challenge] = publishing[q].path]
  /\ publishing' = [publishing EXCEPT ![q] = NoOne]
  /\ UNCHANGED <<elo, games, row_lock, attempts, achievements, pc, req, history>>

SetChallengeIdeal(q) ==
  /\ publishing[q] # NoOne
  /\ LET c == publishing[q].challenge IN
     ideal' = [ideal EXCEPT ![c] = IF @ = Unknown THEN publishing[q].path ELSE @]
  /\ publishing' = [publishing EXCEPT ![q] = NoOne]
  /\ UNCHANGED <<elo, games, row_lock, attempts, achievements, pc, req, history>>

-----------------------------------------------------------------------------
(* Submissions *)

Goto(s, label) == pc' = [pc EXCEPT ![s] = label]

Close(s) ==
  /\ Goto(s, "done")
  /\ req' = [req EXCEPT ![s] = NoOne]

(***************************************************************************)
(* GetChallenge, then ValidateChain, which asks the graph service whether  *)
(* the chain is valid.                                                     *)
(***************************************************************************)
Submit(s, p, c, hops, valid, elapsed) ==
  /\ pc[s] = "idle"
  /\ ideal[c] # Unknown
  /\ req' = [req EXCEPT ![s] =
       [player |-> p, challenge |-> c, hops |-> hops, valid |-> valid,
        elapsed |-> elapsed, optimal |-> ideal[c], ranked |-> FALSE, began |-> Len(attempts),
        score |-> 0, elo_before |-> 0, elo_after |-> 0, todo |-> {}]]
  /\ Goto(s, "read")
  /\ UNCHANGED <<store, publishing, history>>

(***************************************************************************)
(* A row of game_attempts; ranked and began (how many attempts were        *)
(* committed when the request was read) are history.                       *)
(***************************************************************************)
Attempt(r) ==
  [player |-> r.player, challenge |-> r.challenge, valid |-> r.valid,
   optimal |-> r.optimal, ranked |-> r.ranked, began |-> r.began]

RecordInvalidAttempt(s) ==
  /\ pc[s] = "read"
  /\ ~req[s].valid
  /\ attempts' = Append(attempts, Attempt(req[s]))
  /\ Close(s)
  /\ UNCHANGED <<ideal, elo, games, row_lock, achievements, publishing, history>>

(***************************************************************************)
(* The committed attempts of a player at a challenge.                      *)
(***************************************************************************)
AttemptsOf(p, c) ==
  {i \in DOMAIN attempts : attempts[i].player = p /\ attempts[i].challenge = c}

kMaxScore == 1000

AtLeastZero(n) == IF n < 0 THEN 0 ELSE n

ComputeScore(optimal, hops, prior, elapsed) ==
  AtLeastZero(kMaxScore - 100 * AtLeastZero(hops - optimal) - 50 * prior
                - AtLeastZero(elapsed - 30000) \div 2000)

\* Mutant: the second attempt is rated as well.
CountOffByOne(s) ==
  /\ pc[s] = "read"
  /\ req[s].valid
  /\ LET prior == Cardinality(AttemptsOf(req[s].player, req[s].challenge)) IN
     req' = [req EXCEPT ![s].ranked = (prior <= 1), ![s].score = kMaxScore - 50 * prior]
  /\ Goto(s, "counted")
  /\ UNCHANGED <<store, publishing, history>>

(***************************************************************************)
(* RecordValidAttempt, first statement: no lock is held.                   *)
(***************************************************************************)
CountAttempts(s) ==
  /\ pc[s] = "read"
  /\ req[s].valid
  /\ LET r == req[s]
         prior == Cardinality(AttemptsOf(r.player, r.challenge))
     IN  req' = [req EXCEPT
           ![s].ranked = (prior = 0),
           ![s].score  = ComputeScore(r.optimal, r.hops, prior, r.elapsed)]
  /\ Goto(s, "counted")
  /\ UNCHANGED <<store, publishing, history>>

UpdateElo(rating, delta) ==
  IF rating + delta < kMinRating THEN kMinRating ELSE rating + delta

\* Mutant: SELECT without FOR UPDATE.
ReadProfile(s) ==
  /\ pc[s] = "counted"
  /\ \E delta \in Delta :
       LET before == elo[req[s].player] IN
       req' = [req EXCEPT
         ![s].elo_before = before,
         ![s].elo_after  = IF req[s].ranked THEN UpdateElo(before, delta) ELSE before]
  /\ Goto(s, "locked")
  /\ UNCHANGED <<store, publishing, history>>

(***************************************************************************)
(* SELECT elo ... FOR UPDATE waits for the row and reads what was          *)
(* committed last.                                                         *)
(***************************************************************************)
LockProfile(s) ==
  LET p == req[s].player IN
  /\ pc[s] = "counted"
  /\ row_lock[p] = NoOne
  /\ row_lock' = [row_lock EXCEPT ![p] = s]
  /\ \E delta \in Delta :
       req' = [req EXCEPT
         ![s].elo_before = elo[p],
         ![s].elo_after  = IF req[s].ranked THEN UpdateElo(elo[p], delta) ELSE elo[p]]
  /\ Goto(s, "locked")
  /\ UNCHANGED <<ideal, elo, games, attempts, achievements, publishing, history>>

\* Mutant: a veteran has played more than kVeteranGames.
VeteransLate(r, games_after) ==
  {code \in Code :
     \/ code = "first_win"     /\ games_after = 1
     \/ code = "perfect_solve" /\ r.score >= kMaxScore
     \/ code = "speedrunner"   /\ r.elapsed < 15000
     \/ code = "veteran"       /\ games_after > kVeteranGames
     \/ code = "elo_1500"      /\ r.elo_after >= kEloMasterThreshold}

(***************************************************************************)
(* EvaluateAndAwardAchievements goes by what the attempt returned.  A      *)
(* request without elapsed_ms behaves like one of 15000 to 30000 ms.       *)
(***************************************************************************)
Candidates(r, games_after) ==
  {code \in Code :
     \/ code = "first_win"     /\ games_after = 1
     \/ code = "perfect_solve" /\ r.score >= kMaxScore
     \/ code = "speedrunner"   /\ r.elapsed < 15000
     \/ code = "veteran"       /\ games_after >= kVeteranGames
     \/ code = "elo_1500"      /\ r.elo_after >= kEloMasterThreshold}

(***************************************************************************)
(* The rest of the transaction, from the INSERT to COMMIT: while the row   *)
(* is locked nobody else can see or touch what it writes.                  *)
(***************************************************************************)
CommitAttempt(s) ==
  LET r == req[s]
      p == r.player
      games_after == IF r.ranked THEN games[p] + 1 ELSE games[p]
  IN
  /\ pc[s] = "locked"
  /\ attempts' = Append(attempts, Attempt(r))
  /\ elo' = [elo EXCEPT ![p] = IF r.ranked THEN r.elo_after ELSE @]
  /\ games' = [games EXCEPT ![p] = games_after]
  /\ row_lock' = [row_lock EXCEPT ![p] = NoOne]
  /\ req' = [req EXCEPT ![s].todo = Candidates(r, games_after)]
  /\ gained' = [gained EXCEPT ![p] = @ + (r.elo_after - r.elo_before)]
  /\ Goto(s, "awarding")
  /\ UNCHANGED <<ideal, achievements, publishing, announced, interrupted>>

First(codes) == CHOOSE code \in codes : \A other \in codes : Rank[code] <= Rank[other]

(***************************************************************************)
(* INSERT ... ON CONFLICT DO NOTHING RETURNING, a statement of its own.    *)
(***************************************************************************)
AwardAchievement(s) ==
  LET p == req[s].player IN
  /\ pc[s] = "awarding"
  /\ req[s].todo # {}
  /\ LET code == First(req[s].todo) IN
     /\ achievements' = [achievements EXCEPT ![p] = @ \cup {code}]
     /\ announced' = IF code \in achievements[p] THEN announced
                     ELSE announced \cup {<<s, p, code>>}
     /\ req' = [req EXCEPT ![s].todo = @ \ {code}]
  /\ UNCHANGED <<ideal, elo, games, row_lock, attempts, pc, publishing, gained, interrupted>>

Answer(s) ==
  /\ pc[s] = "awarding"
  /\ req[s].todo = {}
  /\ Close(s)
  /\ UNCHANGED <<store, publishing, history>>

(***************************************************************************)
(* The graph service is unavailable, a query throws or the process dies:   *)
(* an open transaction is rolled back, a committed one stays.              *)
(***************************************************************************)
Fail(s) ==
  LET p == req[s].player IN
  /\ pc[s] \in {"read", "counted", "locked", "awarding"}
  /\ row_lock' = [row_lock EXCEPT ![p] = IF @ = s THEN NoOne ELSE @]
  /\ interrupted' = interrupted \cup {p}
  /\ Close(s)
  /\ UNCHANGED <<ideal, elo, games, attempts, achievements, publishing, gained, announced>>

-----------------------------------------------------------------------------

Publish(q) ==
  \/ SetChallengeIdeal(q)
  \/ \E c \in Challenge, path \in Hops : UpsertChallenge(q, c, path)

Handle(s) ==
  \/ RecordInvalidAttempt(s) \/ CountAttempts(s) \/ LockProfile(s)
  \/ CommitAttempt(s) \/ AwardAchievement(s) \/ Answer(s)

Start(s) ==
  \E p \in Player, c \in Challenge, hops \in Hops, valid \in BOOLEAN, elapsed \in Elapsed :
    Submit(s, p, c, hops, valid, elapsed)

Next ==
  \/ \E q \in Publisher : Publish(q)
  \/ \E s \in Submission : Start(s) \/ Handle(s) \/ Fail(s)

Spec == Init /\ [][Next]_vars

-----------------------------------------------------------------------------
(* Properties *)

(***************************************************************************)
(* Every variable is of its type, and no rating is below the floor.        *)
(***************************************************************************)
TypeOK ==
  /\ ideal \in [Challenge -> Hops \cup {Unknown}]
  /\ elo \in [Player -> Int]
  /\ \A p \in Player : elo[p] >= kMinRating
  /\ games \in [Player -> Nat]
  /\ row_lock \in [Player -> Submission \cup {NoOne}]
  /\ attempts \in Seq([player : Player, challenge : Challenge, valid : BOOLEAN,
                       optimal : Hops, ranked : BOOLEAN, began : Nat])
  /\ achievements \in [Player -> SUBSET Code]
  /\ pc \in [Submission -> PC]
  /\ req \in [Submission -> Request \cup {NoOne}]
  /\ \A s \in Submission : pc[s] \notin {"idle", "done"} => req[s] \in Request
  /\ publishing \in [Publisher -> Work \cup {NoOne}]
  /\ gained \in [Player -> Int]
  /\ announced \subseteq Submission \X Player \X Code
  /\ interrupted \subseteq Player

(***************************************************************************)
(* No rating is lost: a player's rating is what the answers say it gained, *)
(* although parallel submissions read it, compute and write it back        *)
(* (RecordValidAttempt).                                                   *)
(***************************************************************************)
RatingsAddUp == \A p \in Player : elo[p] = StartElo + gained[p]

(***************************************************************************)
(* A replay is never rated: a submission that arrives after an attempt of  *)
(* the same player at the same challenge was committed leaves the rating   *)
(* and the games alone, whatever runs in parallel (CountAttempts reads     *)
(* without a lock; only submissions that overlap can both be rated).       *)
(***************************************************************************)
RatedTwiceOnlyIfOverlapping ==
  \A i, j \in DOMAIN attempts :
    /\ i <= attempts[j].began
    /\ attempts[i].player = attempts[j].player
    /\ attempts[i].challenge = attempts[j].challenge
    => ~attempts[j].ranked

(***************************************************************************)
(* Attempts at a challenge are comparable: all of them were scored against *)
(* one ideal path, whoever published the challenge and whatever path each  *)
(* publisher found (SetChallengeIdeal, GetChallenge).                      *)
(***************************************************************************)
OneIdealPerChallenge ==
  \A i, j \in DOMAIN attempts :
    attempts[i].challenge = attempts[j].challenge => attempts[i].optimal = attempts[j].optimal

(***************************************************************************)
(* An achievement is announced once, however many submissions earn it at   *)
(* the same time.                                                          *)
(***************************************************************************)
AnnouncedOnce ==
  \A s, t \in Submission, p \in Player, code \in Code :
    <<s, p, code>> \in announced /\ <<t, p, code>> \in announced => s = t

Settled(p) ==
  /\ p \notin interrupted
  /\ \A s \in Submission : pc[s] = "awarding" => req[s].player # p

(***************************************************************************)
(* No achievement is missed: games_after and elo_after are handed from the *)
(* transaction to the awards, so parallel games do not hide the moment at  *)
(* which a player had played one game (EvaluateAndAwardAchievements).      *)
(***************************************************************************)
NoAwardIsMissed ==
  \A p \in Player : Settled(p) =>
    /\ games[p] >= 1 => "first_win" \in achievements[p]
    /\ games[p] >= kVeteranGames => "veteran" \in achievements[p]
    /\ elo[p] >= kEloMasterThreshold => "elo_1500" \in achievements[p]

(***************************************************************************)
(* Every achievement is awarded, and announced once, although parallel     *)
(* games of the player decide about it outside their transactions.         *)
(***************************************************************************)
AwardsAreExact == AnnouncedOnce /\ NoAwardIsMissed

(***************************************************************************)
(* A player is rated for a challenge once; replays count for nothing.      *)
(***************************************************************************)
RatedOncePerChallenge ==
  \A i, j \in DOMAIN attempts :
    /\ attempts[i].ranked /\ attempts[j].ranked
    /\ attempts[i].player = attempts[j].player
    /\ attempts[i].challenge = attempts[j].challenge
    => i = j

=============================================================================

----------------------------- MODULE GameProofs ------------------------------
(***************************************************************************)
(* Proofs about the game.  GameStore: what ratings, attempts and           *)
(* achievements keep for any number of players, challenges, submissions    *)
(* and publishers, whichever of them die.  GameSeasons: that a daily can   *)
(* be played, for any publishers, whoever of them fails on its way.        *)
(* GameBoards: that pages show every row once, whatever is written between *)
(* them.                                                                   *)
(***************************************************************************)
EXTENDS GameStore, GameSeasons, GameBoards, FiniteSetTheorems, SequenceTheorems, TLAPS

Active == {"read", "counted", "locked", "awarding"}

-----------------------------------------------------------------------------
(* Types.  The floor of the ratings needs the rating about to be stored. *)

RatingIsAboveFloor ==
  \A s \in Submission : pc[s] = "locked" => req[s].elo_after >= kMinRating

TypeInv == TypeOK /\ RatingIsAboveFloor

LEMMA ScoreIsInt ==
  ASSUME NEW optimal \in Hops, NEW hops \in Hops, NEW prior \in Nat, NEW elapsed \in Elapsed
  PROVE  ComputeScore(optimal, hops, prior, elapsed) \in Int
<1> DEFINE late == AtLeastZero(elapsed - 30000)
<1>1. optimal \in Int /\ hops \in Int /\ elapsed \in Int
  BY GameAssumption DEF GameAssumption
<1>2. late \in Int
  BY <1>1 DEF AtLeastZero
<1>3. late \div 2000 \in Int
  <2> HIDE DEF late
  <2> QED BY <1>2
<1> HIDE DEF late
<1>4. AtLeastZero(hops - optimal) \in Int
  BY <1>1 DEF AtLeastZero
<1>5. kMaxScore - 100 * AtLeastZero(hops - optimal) - 50 * prior - late \div 2000 \in Int
  BY <1>3, <1>4 DEF kMaxScore
<1> QED
  BY <1>5 DEF ComputeScore, AtLeastZero, late

LEMMA CountIsNat ==
  ASSUME TypeOK, NEW p, NEW c
  PROVE  /\ Cardinality(AttemptsOf(p, c)) \in Nat
         /\ Cardinality(AttemptsOf(p, c)) = 0 =>
              \A i \in DOMAIN attempts : attempts[i].player = p => attempts[i].challenge # c
<1>1. DOMAIN attempts = 1..Len(attempts) /\ Len(attempts) \in Nat
  BY DEF TypeOK
<1>2. IsFiniteSet(DOMAIN attempts)
  BY <1>1, FS_Interval
<1>3. AttemptsOf(p, c) \in SUBSET DOMAIN attempts
  BY DEF AttemptsOf
<1>4. IsFiniteSet(AttemptsOf(p, c))
  BY <1>2, <1>3, FS_Subset
<1>5. Cardinality(AttemptsOf(p, c)) = 0 => AttemptsOf(p, c) = {}
  BY <1>4, FS_EmptySet
<1> QED
  BY <1>4, <1>5, FS_CardinalityType DEF AttemptsOf

LEMMA FirstIsOneOfThem ==
  ASSUME NEW codes \in SUBSET Code, codes # {}
  PROVE  First(codes) \in codes
<1>1. \E code \in codes : \A other \in codes : Rank[code] <= Rank[other]
  <2>1. CASE "first_win" \in codes
    BY <2>1 DEF Code, Rank
  <2>2. CASE "first_win" \notin codes /\ "perfect_solve" \in codes
    BY <2>2 DEF Code, Rank
  <2>3. CASE /\ "first_win" \notin codes /\ "perfect_solve" \notin codes
             /\ "speedrunner" \in codes
    BY <2>3 DEF Code, Rank
  <2>4. CASE /\ "first_win" \notin codes /\ "perfect_solve" \notin codes
             /\ "speedrunner" \notin codes /\ "veteran" \in codes
    BY <2>4 DEF Code, Rank
  <2>5. CASE /\ "first_win" \notin codes /\ "perfect_solve" \notin codes
             /\ "speedrunner" \notin codes /\ "veteran" \notin codes
    <3>1. \A code \in codes : code = "elo_1500"
      BY <2>5 DEF Code
    <3>2. Rank["elo_1500"] <= Rank["elo_1500"]
      BY DEF Rank
    <3> QED BY <3>1, <3>2
  <2> QED BY <2>1, <2>2, <2>3, <2>4, <2>5
<1> QED
  BY <1>1 DEF First

LEMMA TypeInit == Init => TypeInv
BY GameAssumption DEF GameAssumption, Init, TypeInv, TypeOK, RatingIsAboveFloor, PC

LEMMA TypeStep == TypeInv /\ [Next]_vars => TypeInv'
<1> SUFFICES ASSUME TypeInv, [Next]_vars
             PROVE  TypeInv'
  OBVIOUS
<1> USE GameAssumption DEF GameAssumption
<1>1. ASSUME NEW q \in Publisher, NEW c \in Challenge, NEW path \in Hops,
             UpsertChallenge(q, c, path)
      PROVE  TypeInv'
  BY <1>1 DEF UpsertChallenge, store, history, TypeInv, TypeOK, RatingIsAboveFloor, Work
<1>2. ASSUME NEW q \in Publisher, SetChallengeIdeal(q)
      PROVE  TypeInv'
  BY <1>2 DEF SetChallengeIdeal, history, TypeInv, TypeOK, RatingIsAboveFloor, Work, Unknown
<1>3. ASSUME NEW s \in Submission, NEW p \in Player, NEW c \in Challenge, NEW hops \in Hops,
             NEW valid \in BOOLEAN, NEW elapsed \in Elapsed,
             Submit(s, p, c, hops, valid, elapsed)
      PROVE  TypeInv'
  <2>1. req'[s] \in Request
    BY <1>3 DEF Submit, TypeInv, TypeOK, Request, Unknown
  <2> QED
    BY <2>1, <1>3 DEF Submit, Goto, store, history, TypeInv, TypeOK, RatingIsAboveFloor, PC
<1>4. ASSUME NEW s \in Submission, RecordInvalidAttempt(s)
      PROVE  TypeInv'
  <2>1. Attempt(req[s]) \in [player : Player, challenge : Challenge, valid : BOOLEAN,
                             optimal : Hops, ranked : BOOLEAN, began : Nat]
    BY <1>4 DEF RecordInvalidAttempt, Attempt, TypeInv, TypeOK, Request
  <2> QED
    BY <2>1, <1>4, SMTT(30) DEF RecordInvalidAttempt, Close, Goto, history, TypeInv, TypeOK,
                      RatingIsAboveFloor, PC
<1>5. ASSUME NEW s \in Submission, CountAttempts(s)
      PROVE  TypeInv'
  <2> DEFINE r == req[s]
             prior == Cardinality(AttemptsOf(r.player, r.challenge))
             score == ComputeScore(r.optimal, r.hops, prior, r.elapsed)
  <2>1. r \in Request
    BY <1>5 DEF CountAttempts, TypeInv, TypeOK
  <2>2. prior \in Nat
    BY CountIsNat DEF TypeInv
  <2>3. r.optimal \in Hops /\ r.hops \in Hops /\ r.elapsed \in Elapsed
    BY <2>1 DEF Request
  <2>4. score \in Int
    <3> HIDE DEF r, prior
    <3> QED BY <2>2, <2>3, ScoreIsInt DEF score
  <2>5. req' = [req EXCEPT ![s] = [r EXCEPT !.ranked = (prior = 0), !.score = score]]
    BY <1>5 DEF CountAttempts, TypeInv, TypeOK
  <2> HIDE DEF r, prior, score
  <2>6. [r EXCEPT !.ranked = (prior = 0), !.score = score] \in Request
    BY <2>1, <2>4 DEF Request
  <2> QED
    BY <2>5, <2>6, <1>5 DEF CountAttempts, Goto, store, history, TypeInv, TypeOK,
                            RatingIsAboveFloor, PC
<1>6. ASSUME NEW s \in Submission, LockProfile(s)
      PROVE  TypeInv'
  <2>1. PICK delta \in Delta : req' = [req EXCEPT ![s].elo_before = elo[req[s].player],
          ![s].elo_after = IF req[s].ranked THEN UpdateElo(elo[req[s].player], delta)
                           ELSE elo[req[s].player]]
    BY <1>6 DEF LockProfile
  <2>2. req[s] \in Request /\ elo[req[s].player] \in Int /\ elo[req[s].player] >= kMinRating
    BY <1>6 DEF LockProfile, TypeInv, TypeOK, Request
  <2>3. UpdateElo(elo[req[s].player], delta) \in Int
        /\ UpdateElo(elo[req[s].player], delta) >= kMinRating
    BY <2>2 DEF UpdateElo
  <2>4. req'[s] \in Request /\ req'[s].elo_after >= kMinRating
    BY <2>1, <2>2, <2>3 DEF Request, TypeInv, TypeOK
  <2> QED
    BY <2>1, <2>2, <2>4, <1>6, ZenonT(40) DEF LockProfile, Goto, history, TypeInv, TypeOK,
                                  RatingIsAboveFloor, PC, Request
<1>7. ASSUME NEW s \in Submission, CommitAttempt(s)
      PROVE  TypeInv'
  <2>1. req[s] \in Request /\ req[s].elo_after >= kMinRating
    BY <1>7 DEF CommitAttempt, TypeInv, TypeOK, RatingIsAboveFloor
  <2>2. Attempt(req[s]) \in [player : Player, challenge : Challenge, valid : BOOLEAN,
                             optimal : Hops, ranked : BOOLEAN, began : Nat]
    BY <2>1 DEF Attempt, Request
  <2>3. \A n : Candidates(req[s], n) \in SUBSET Code
    BY DEF Candidates
  <2>4. req' \in [Submission -> Request \cup {NoOne}] /\ req'[s] \in Request
        /\ \A t \in Submission : t # s => req'[t] = req[t]
    BY <1>7, <2>1, <2>3 DEF CommitAttempt, TypeInv, TypeOK, Request
  <2>5. attempts' \in Seq([player : Player, challenge : Challenge, valid : BOOLEAN,
                           optimal : Hops, ranked : BOOLEAN, began : Nat])
    BY <1>7, <2>2 DEF CommitAttempt, TypeInv, TypeOK
  <2>6. elo' \in [Player -> Int] /\ (\A p \in Player : elo'[p] >= kMinRating)
    BY <1>7, <2>1 DEF CommitAttempt, TypeInv, TypeOK, Request
  <2>7. games' \in [Player -> Nat] /\ gained' \in [Player -> Int]
    <3> DEFINE p == req[s].player
               won == req[s].elo_after - req[s].elo_before
               games_after == IF req[s].ranked THEN games[p] + 1 ELSE games[p]
    <3>1. p \in Player /\ won \in Int
      BY <2>1 DEF Request
    <3>2. games[p] \in Nat /\ gained[p] \in Int
      BY <3>1 DEF TypeInv, TypeOK
    <3>3. games_after \in Nat /\ games' = [games EXCEPT ![p] = games_after]
      BY <1>7, <3>2 DEF CommitAttempt
    <3>4. gained' = [gained EXCEPT ![p] = @ + won]
      BY <1>7 DEF CommitAttempt
    <3> HIDE DEF p, won, games_after
    <3> QED BY <3>1, <3>2, <3>3, <3>4 DEF TypeInv, TypeOK
  <2>8. pc' \in [Submission -> PC] /\ pc'[s] = "awarding"
        /\ \A t \in Submission : t # s => pc'[t] = pc[t]
    BY <1>7 DEF CommitAttempt, Goto, TypeInv, TypeOK, PC
  <2>9. row_lock' \in [Player -> Submission \cup {NoOne}]
    BY <1>7 DEF CommitAttempt, TypeInv, TypeOK
  <2>10. TypeOK'
    BY <2>4, <2>5, <2>6, <2>7, <2>8, <2>9, <1>7 DEF CommitAttempt, TypeInv, TypeOK
  <2>11. RatingIsAboveFloor'
    BY <2>4, <2>8, <1>7 DEF TypeInv, RatingIsAboveFloor
  <2> QED BY <2>10, <2>11 DEF TypeInv
<1>8. ASSUME NEW s \in Submission, AwardAchievement(s)
      PROVE  TypeInv'
  <2>1. req[s] \in Request
    BY <1>8 DEF AwardAchievement, TypeInv, TypeOK
  <2>2. First(req[s].todo) \in Code
    BY <1>8, <2>1, FirstIsOneOfThem DEF AwardAchievement, Request
  <2>3. req' \in [Submission -> Request \cup {NoOne}] /\ req'[s] \in Request
        /\ \A t \in Submission : t # s => req'[t] = req[t]
    BY <1>8, <2>1 DEF AwardAchievement, TypeInv, TypeOK, Request
  <2>4. req[s].player \in Player
    BY <2>1 DEF Request
  <2> DEFINE code == First(req[s].todo)
  <2>5. achievements' = [achievements EXCEPT ![req[s].player] = @ \cup {code}]
        /\ announced' \in {announced, announced \cup {<<s, req[s].player, code>>}}
    BY <1>8 DEF AwardAchievement
  <2> HIDE DEF code
  <2>6. achievements' \in [Player -> SUBSET Code]
    BY <2>2, <2>4, <2>5 DEF TypeInv, TypeOK, code
  <2>7. announced' \subseteq Submission \X Player \X Code
    BY <2>2, <2>4, <2>5 DEF TypeInv, TypeOK, code
  <2> QED
    BY <1>8, <2>3, <2>6, <2>7 DEF AwardAchievement, TypeInv, TypeOK, RatingIsAboveFloor
<1>9. ASSUME NEW s \in Submission, Answer(s)
      PROVE  TypeInv'
  BY <1>9 DEF Answer, Close, Goto, store, history, TypeInv, TypeOK, RatingIsAboveFloor, PC
<1>10. ASSUME NEW s \in Submission, Fail(s)
       PROVE  TypeInv'
  <2>1. req[s] \in Request
    BY <1>10 DEF Fail, TypeInv, TypeOK
  <2> QED
    BY <1>10, <2>1 DEF Fail, Close, Goto, TypeInv, TypeOK, RatingIsAboveFloor, PC, Request
<1>11. CASE UNCHANGED vars
  BY <1>11 DEF vars, store, history, TypeInv, TypeOK, RatingIsAboveFloor
<1> QED
  BY <1>1, <1>2, <1>3, <1>4, <1>5, <1>6, <1>7, <1>8, <1>9, <1>10, <1>11
     DEF Next, Publish, Start, Handle

(***************************************************************************)
(* The types and the floor of the ratings (UpdateElo).                     *)
(***************************************************************************)
THEOREM TypeCorrect == Spec => []TypeInv
BY TypeInit, TypeStep, PTL DEF Spec

-----------------------------------------------------------------------------
(* Ratings.  Whoever holds the row read the rating that is still there. *)

Prepared(s) ==
  pc[s] = "locked" =>
    /\ row_lock[req[s].player] = s
    /\ req[s].elo_before = elo[req[s].player]
    /\ ~req[s].ranked => req[s].elo_after = req[s].elo_before

RatingInv == RatingsAddUp /\ \A s \in Submission : Prepared(s)

LEMMA RatingsUntouched ==
  ASSUME RatingInv, UNCHANGED <<elo, gained, row_lock>>,
         \A s \in Submission : pc'[s] = "locked" => pc[s] = "locked" /\ req'[s] = req[s]
  PROVE  RatingInv'
BY DEF RatingInv, RatingsAddUp, Prepared

LEMMA RatingStep == TypeInv /\ RatingInv /\ [Next]_vars => RatingInv'
<1> SUFFICES ASSUME TypeInv, RatingInv, [Next]_vars
             PROVE  RatingInv'
  OBVIOUS
<1>1. ASSUME NEW q \in Publisher, Publish(q)
      PROVE  RatingInv'
  <2>1. UNCHANGED <<elo, gained, row_lock, pc, req>>
    BY <1>1 DEF Publish, UpsertChallenge, SetChallengeIdeal, store, history
  <2> QED BY <2>1, RatingsUntouched
<1>2. ASSUME NEW s \in Submission, Start(s)
      PROVE  RatingInv'
  <2>1. /\ UNCHANGED <<elo, gained, row_lock>>
        /\ \A t \in Submission : pc'[t] = "locked" => pc[t] = "locked" /\ req'[t] = req[t]
    BY <1>2 DEF Start, Submit, Goto, store, history, TypeInv, TypeOK
  <2> QED BY <2>1, RatingsUntouched
<1>3. ASSUME NEW s \in Submission, RecordInvalidAttempt(s) \/ Answer(s)
      PROVE  RatingInv'
  <2>1. /\ UNCHANGED <<elo, gained, row_lock>>
        /\ \A t \in Submission : pc'[t] = "locked" => pc[t] = "locked" /\ req'[t] = req[t]
    BY <1>3 DEF RecordInvalidAttempt, Answer, Close, Goto, store, history, TypeInv, TypeOK
  <2> QED BY <2>1, RatingsUntouched
<1>4. ASSUME NEW s \in Submission, CountAttempts(s)
      PROVE  RatingInv'
  <2>1. /\ UNCHANGED <<elo, gained, row_lock>>
        /\ pc' = [pc EXCEPT ![s] = "counted"]
        /\ \E r : req' = [req EXCEPT ![s] = r]
    BY <1>4 DEF CountAttempts, Goto, store, history, TypeInv, TypeOK
  <2>2. \A t \in Submission : pc'[t] = "locked" => pc[t] = "locked" /\ req'[t] = req[t]
    BY <2>1 DEF TypeInv, TypeOK
  <2> QED BY <2>1, <2>2, RatingsUntouched
<1>5. ASSUME NEW s \in Submission, LockProfile(s)
      PROVE  RatingInv'
  <2> DEFINE p == req[s].player
  <2>1. req[s] \in Request /\ p \in Player
    BY <1>5 DEF LockProfile, TypeInv, TypeOK, Request
  <2>2. /\ UNCHANGED <<elo, gained>>
        /\ row_lock[p] = NoOne
        /\ row_lock' = [row_lock EXCEPT ![p] = s]
        /\ pc' = [pc EXCEPT ![s] = "locked"]
    <3>1. UNCHANGED <<elo, gained>>
      BY <1>5 DEF LockProfile, history
    <3>2. row_lock[p] = NoOne /\ row_lock' = [row_lock EXCEPT ![p] = s]
      BY <1>5 DEF LockProfile
    <3>3. pc' = [pc EXCEPT ![s] = "locked"]
      BY <1>5 DEF LockProfile, Goto
    <3> QED BY <3>1, <3>2, <3>3
  <2>3. PICK delta \in Delta : req' = [req EXCEPT ![s].elo_before = elo[p],
          ![s].elo_after = IF req[s].ranked THEN UpdateElo(elo[p], delta) ELSE elo[p]]
    BY <1>5 DEF LockProfile
  <2>4. /\ req'[s].player = p
        /\ req'[s].elo_before = elo[p]
        /\ ~req'[s].ranked => req'[s].elo_after = elo[p]
        /\ \A t \in Submission : t # s => req'[t] = req[t]
    BY <2>1, <2>3 DEF Request, TypeInv, TypeOK
  <2> HIDE DEF p
  <2>5. Prepared(s)'
    BY <2>1, <2>2, <2>4 DEF Prepared, TypeInv, TypeOK
  <2>6. ASSUME NEW t \in Submission, t # s
        PROVE  Prepared(t)'
    <3> SUFFICES ASSUME pc'[t] = "locked"
                 PROVE  Prepared(t)'
      BY DEF Prepared
    <3>1. pc[t] = "locked" /\ req'[t] = req[t]
      BY <2>2, <2>4, <2>6 DEF TypeInv, TypeOK
    <3>2. Prepared(t) /\ row_lock[req[t].player] = t
      BY <3>1 DEF RatingInv, Prepared
    <3>3. row_lock'[req[t].player] = row_lock[req[t].player]
      BY <2>2, <3>2, GameAssumption DEF GameAssumption, TypeInv, TypeOK
    <3> QED BY <2>2, <3>1, <3>2, <3>3 DEF Prepared
  <2> QED BY <2>2, <2>5, <2>6 DEF RatingInv, RatingsAddUp
<1>6. ASSUME NEW s \in Submission, CommitAttempt(s)
      PROVE  RatingInv'
  <2> DEFINE p == req[s].player
             stored == IF req[s].ranked THEN req[s].elo_after ELSE elo[p]
             won == req[s].elo_after - req[s].elo_before
  <2>1. /\ req[s] \in Request /\ p \in Player
        /\ req[s].elo_before \in Int /\ req[s].elo_after \in Int
        /\ row_lock[p] = s
        /\ req[s].elo_before = elo[p]
        /\ stored = elo[p] + won
    <3>1. pc[s] = "locked" /\ req[s] \in Request
      BY <1>6 DEF CommitAttempt, TypeInv, TypeOK
    <3>2. /\ p \in Player /\ req[s].elo_before \in Int /\ req[s].elo_after \in Int
      BY <3>1 DEF Request
    <3>3. /\ row_lock[p] = s /\ req[s].elo_before = elo[p]
          /\ ~req[s].ranked => req[s].elo_after = req[s].elo_before
      BY <3>1 DEF RatingInv, Prepared
    <3> QED BY <3>1, <3>2, <3>3
  <2>2. /\ elo' = [elo EXCEPT ![p] = stored]
        /\ gained' = [gained EXCEPT ![p] = @ + won]
        /\ row_lock' = [row_lock EXCEPT ![p] = NoOne]
        /\ pc' = [pc EXCEPT ![s] = "awarding"]
    BY <1>6 DEF CommitAttempt, Goto
  <2>3. \A t \in Submission : t # s => req'[t] = req[t]
    BY <1>6 DEF CommitAttempt, TypeInv, TypeOK
  <2>4. elo[p] \in Int /\ gained[p] \in Int /\ won \in Int /\ StartElo \in Int
    BY <2>1, GameAssumption DEF GameAssumption, TypeInv, TypeOK
  <2> HIDE DEF p, stored, won
  <2>5. RatingsAddUp'
    BY <2>1, <2>2, <2>4 DEF RatingInv, RatingsAddUp, TypeInv, TypeOK
  <2>6. ASSUME NEW t \in Submission
        PROVE  Prepared(t)'
    <3> SUFFICES ASSUME pc'[t] = "locked"
                 PROVE  Prepared(t)'
      BY DEF Prepared
    <3>1. t # s /\ pc[t] = "locked" /\ req'[t] = req[t]
      BY <2>2, <2>3 DEF TypeInv, TypeOK
    <3>2. Prepared(t) /\ row_lock[req[t].player] = t
      BY <3>1 DEF RatingInv, Prepared
    <3>3. req[t].player # p
      BY <2>1, <3>1, <3>2
    <3>4. /\ row_lock'[req[t].player] = row_lock[req[t].player]
          /\ elo'[req[t].player] = elo[req[t].player]
      BY <2>2, <3>3 DEF TypeInv, TypeOK
    <3> QED BY <3>1, <3>2, <3>4 DEF Prepared
  <2> QED BY <2>5, <2>6 DEF RatingInv
<1>7. ASSUME NEW s \in Submission, AwardAchievement(s)
      PROVE  RatingInv'
  <2>1. /\ UNCHANGED <<elo, gained, row_lock, pc>>
        /\ pc[s] = "awarding"
        /\ \E r : req' = [req EXCEPT ![s] = r]
    BY <1>7 DEF AwardAchievement, TypeInv, TypeOK
  <2>2. \A t \in Submission : pc'[t] = "locked" => pc[t] = "locked" /\ req'[t] = req[t]
    BY <2>1 DEF TypeInv, TypeOK
  <2> QED BY <2>1, <2>2, RatingsUntouched
<1>8. ASSUME NEW s \in Submission, Fail(s)
      PROVE  RatingInv'
  <2>1. /\ UNCHANGED <<elo, gained>>
        /\ pc' = [pc EXCEPT ![s] = "done"]
        /\ \A t \in Submission : t # s => req'[t] = req[t]
        /\ row_lock' = [row_lock EXCEPT ![req[s].player] = IF @ = s THEN NoOne ELSE @]
    BY <1>8 DEF Fail, Close, Goto, TypeInv, TypeOK
  <2>2. ASSUME NEW t \in Submission
        PROVE  Prepared(t)'
    <3> SUFFICES ASSUME pc'[t] = "locked"
                 PROVE  Prepared(t)'
      BY DEF Prepared
    <3>1. t # s /\ pc[t] = "locked" /\ req'[t] = req[t]
      BY <2>1 DEF TypeInv, TypeOK
    <3>2. Prepared(t) /\ row_lock[req[t].player] = t
      BY <3>1 DEF RatingInv, Prepared
    <3>3. row_lock'[req[t].player] = row_lock[req[t].player]
      BY <2>1, <3>1, <3>2 DEF TypeInv, TypeOK
    <3> QED BY <2>1, <3>1, <3>2, <3>3 DEF Prepared
  <2> QED BY <2>1, <2>2 DEF RatingInv, RatingsAddUp
<1>9. CASE UNCHANGED vars
  BY <1>9, RatingsUntouched DEF vars, store, history
<1> QED
  BY <1>1, <1>2, <1>3, <1>4, <1>5, <1>6, <1>7, <1>8, <1>9 DEF Next, Handle

(***************************************************************************)
(* Submissions of one player that run at the same time lose no rating      *)
(* (RecordValidAttempt: SELECT ... FOR UPDATE).                            *)
(***************************************************************************)
THEOREM NoRatingIsLost == Spec => []RatingsAddUp
<1>1. Init => RatingInv
  BY GameAssumption DEF GameAssumption, Init, RatingInv, RatingsAddUp, Prepared
<1>2. RatingInv => RatingsAddUp
  BY DEF RatingInv
<1> QED
  BY <1>1, <1>2, RatingStep, TypeCorrect, PTL DEF Spec

-----------------------------------------------------------------------------
(* Attempts.  What a submission found still holds of the rows it could see. *)

Replays(row, i) ==
  /\ attempts[i].player = row.player
  /\ attempts[i].challenge = row.challenge

Counted(s) ==
  pc[s] \in Active =>
    /\ req[s].began <= Len(attempts)
    /\ req[s].ranked => \A i \in DOMAIN attempts : i <= req[s].began => ~Replays(req[s], i)

AttemptInv ==
  /\ \A j \in DOMAIN attempts : attempts[j].began < j
  /\ \A i, j \in DOMAIN attempts :
       attempts[j].ranked /\ i <= attempts[j].began => ~Replays(attempts[j], i)
  /\ \A s \in Submission : Counted(s)

LEMMA AttemptsUntouched ==
  ASSUME AttemptInv, attempts' = attempts,
         \A s \in Submission : pc'[s] \in Active => pc[s] \in Active /\ req'[s] = req[s]
  PROVE  AttemptInv'
BY DEF AttemptInv, Counted, Replays

(***************************************************************************)
(* A submission appends its row and does nothing else to the attempts.     *)
(***************************************************************************)
LEMMA AttemptsAppended ==
  ASSUME TypeInv, AttemptInv, NEW s \in Submission, pc[s] \in Active \ {"awarding"},
         attempts' = Append(attempts, Attempt(req[s])),
         pc'[s] \in {"awarding", "done"}, pc'[s] \in Active => req'[s].began = req[s].began
           /\ req'[s].ranked = req[s].ranked /\ req'[s].player = req[s].player
           /\ req'[s].challenge = req[s].challenge,
         \A t \in Submission : t # s => pc'[t] = pc[t] /\ req'[t] = req[t]
  PROVE  AttemptInv'
<1> DEFINE n == Len(attempts)
           r == req[s]
<1>1. /\ n \in Nat /\ DOMAIN attempts = 1..n
      /\ Len(attempts') = n + 1 /\ DOMAIN attempts' = 1..(n + 1)
      /\ \A i \in 1..n : attempts'[i] = attempts[i]
      /\ attempts'[n + 1] = Attempt(r)
  BY DEF TypeInv, TypeOK
<1>2. /\ r \in Request /\ r.began \in Nat /\ r.began <= n
      /\ r.ranked => \A i \in 1..n : i <= r.began => ~Replays(r, i)
  BY <1>1 DEF AttemptInv, Counted, Active, TypeInv, TypeOK, Request
<1>3. /\ Attempt(r).began = r.began /\ Attempt(r).ranked = r.ranked
      /\ Attempt(r).player = r.player /\ Attempt(r).challenge = r.challenge
  BY DEF Attempt
<1>4. \A j \in 1..n : attempts[j].began \in Nat /\ attempts[j].began < j
  <2> DEFINE Row == [player : Player, challenge : Challenge, valid : BOOLEAN,
                     optimal : Hops, ranked : BOOLEAN, began : Nat]
  <2>1. attempts \in Seq(Row)
    BY DEF TypeInv, TypeOK
  <2>2. \A row \in Row : row.began \in Nat
    OBVIOUS
  <2> HIDE DEF Row
  <2>3. \A j \in 1..n : attempts[j] \in Row
    BY <2>1
  <2> QED BY <1>1, <2>2, <2>3 DEF AttemptInv
<1>5. \A i, j \in 1..n :
        attempts[j].ranked /\ i <= attempts[j].began => ~Replays(attempts[j], i)
  BY <1>1 DEF AttemptInv
<1> DEFINE row == Attempt(r)
<1> HIDE DEF n, r, row
<1>6. \A j \in 1..(n + 1) : attempts'[j].began < j
  BY <1>1, <1>2, <1>3, <1>4 DEF row
<1>7. ASSUME NEW i \in 1..(n + 1), NEW j \in 1..(n + 1),
             attempts'[j].ranked, i <= attempts'[j].began
      PROVE  ~Replays(attempts[j], i)'
  <2>1. CASE j \in 1..n
    <3>1. attempts'[j] = attempts[j] /\ attempts[j].began < j /\ i \in 1..n
      BY <1>1, <1>4, <1>7, <2>1
    <3>2. ~Replays(attempts[j], i)
      BY <1>5, <1>7, <2>1, <3>1
    <3> QED BY <1>1, <3>1, <3>2 DEF Replays
  <2>2. CASE j = n + 1
    <3>1. attempts'[j] = Attempt(r) /\ i <= r.began /\ r.ranked /\ i \in 1..n
      BY <1>1, <1>2, <1>3, <1>7, <2>2
    <3>2. ~Replays(r, i)
      BY <1>2, <3>1
    <3> QED BY <1>1, <1>3, <3>1, <3>2 DEF Replays
  <2> QED BY <1>1, <1>7, <2>1, <2>2
<1>8. ASSUME NEW t \in Submission
      PROVE  Counted(t)'
  <2> SUFFICES ASSUME pc'[t] \in Active
               PROVE  /\ req'[t].began <= n + 1
                      /\ req'[t].ranked =>
                           \A i \in 1..(n + 1) : i <= req'[t].began => ~Replays(req[t], i)'
    BY <1>1 DEF Counted
  <2>1. /\ pc[t] \in Active /\ req[t] \in Request
        /\ req'[t].began = req[t].began /\ req'[t].ranked = req[t].ranked
        /\ req'[t].player = req[t].player /\ req'[t].challenge = req[t].challenge
    BY DEF Active, TypeInv, TypeOK
  <2>2. req[t].began \in Nat
    BY <2>1 DEF Request
  <2>3. req[t].began <= n
    BY <1>1, <2>1 DEF AttemptInv, Counted, n
  <2>4. ASSUME req[t].ranked, NEW i \in 1..(n + 1), i <= req[t].began
        PROVE  ~Replays(req[t], i)'
    <3>1. i \in 1..n
      BY <1>1, <2>2, <2>3, <2>4
    <3>2. ~Replays(req[t], i)
      BY <1>1, <2>1, <2>4, <3>1 DEF AttemptInv, Counted
    <3> QED BY <1>1, <2>1, <3>1, <3>2 DEF Replays
  <2> QED BY <1>1, <2>1, <2>2, <2>3, <2>4
<1> QED
  BY <1>1, <1>6, <1>7, <1>8 DEF AttemptInv

LEMMA AttemptStep == TypeInv /\ AttemptInv /\ [Next]_vars => AttemptInv'
<1> SUFFICES ASSUME TypeInv, AttemptInv, [Next]_vars
             PROVE  AttemptInv'
  OBVIOUS
<1>1. ASSUME NEW q \in Publisher, Publish(q)
      PROVE  AttemptInv'
  <2>1. UNCHANGED <<attempts, pc, req>>
    BY <1>1 DEF Publish, UpsertChallenge, SetChallengeIdeal, store, history
  <2> QED BY <2>1, AttemptsUntouched
<1>2. ASSUME NEW s \in Submission, Start(s)
      PROVE  AttemptInv'
  <2>1. /\ attempts' = attempts
        /\ \A t \in Submission : t # s => pc'[t] = pc[t] /\ req'[t] = req[t]
        /\ req'[s].began = Len(attempts) /\ req'[s].ranked = FALSE
    BY <1>2 DEF Start, Submit, Goto, store, history, TypeInv, TypeOK
  <2>2. Counted(s)'
    BY <2>1 DEF Counted, TypeInv, TypeOK
  <2>3. ASSUME NEW t \in Submission, t # s
        PROVE  Counted(t)'
    BY <2>1, <2>3 DEF AttemptInv, Counted, Replays
  <2> QED BY <2>1, <2>2, <2>3 DEF AttemptInv, Replays
<1>3. ASSUME NEW s \in Submission, RecordInvalidAttempt(s)
      PROVE  AttemptInv'
  <2>1. /\ pc[s] = "read" /\ pc'[s] = "done"
        /\ attempts' = Append(attempts, Attempt(req[s]))
        /\ \A t \in Submission : t # s => pc'[t] = pc[t] /\ req'[t] = req[t]
    BY <1>3 DEF RecordInvalidAttempt, Close, Goto, TypeInv, TypeOK
  <2> QED BY <2>1, AttemptsAppended DEF Active
<1>4. ASSUME NEW s \in Submission, CountAttempts(s)
      PROVE  AttemptInv'
  <2> DEFINE prior == Cardinality(AttemptsOf(req[s].player, req[s].challenge))
             score == ComputeScore(req[s].optimal, req[s].hops, prior, req[s].elapsed)
  <2>1. /\ attempts' = attempts /\ pc[s] = "read" /\ pc' = [pc EXCEPT ![s] = "counted"]
        /\ req' = [req EXCEPT ![s].ranked = (prior = 0), ![s].score = score]
    BY <1>4 DEF CountAttempts, Goto, store
  <2>2. prior = 0 => \A i \in DOMAIN attempts : ~Replays(req[s], i)
    BY CountIsNat DEF TypeInv, Replays
  <2>3. Counted(s) /\ req[s] \in Request
    BY <2>1 DEF AttemptInv, TypeInv, TypeOK
  <2> HIDE DEF prior, score
  <2>4. /\ req'[s].began = req[s].began /\ req'[s].ranked = (prior = 0)
        /\ req'[s].player = req[s].player /\ req'[s].challenge = req[s].challenge
    BY <2>1, <2>3 DEF Request, TypeInv, TypeOK
  <2>5. Counted(s)'
    BY <2>1, <2>2, <2>3, <2>4, ZenonT(40) DEF Counted, Replays, Active
  <2>6. \A t \in Submission : t # s => pc'[t] = pc[t] /\ req'[t] = req[t]
    BY <2>1 DEF TypeInv, TypeOK
  <2>7. ASSUME NEW t \in Submission, t # s
        PROVE  Counted(t)'
    <3>1. attempts' = attempts
      BY <2>1
    <3>2. pc'[t] = pc[t] /\ req'[t] = req[t]
      BY <2>6, <2>7
    <3>3. Counted(t)
      BY DEF AttemptInv
    <3> QED BY <3>1, <3>2, <3>3 DEF Counted, Replays
  <2> QED BY <2>1, <2>5, <2>7 DEF AttemptInv, Replays
<1>5. ASSUME NEW s \in Submission, LockProfile(s)
      PROVE  AttemptInv'
  <2>1. PICK delta \in Delta : req' = [req EXCEPT ![s].elo_before = elo[req[s].player],
          ![s].elo_after = IF req[s].ranked THEN UpdateElo(elo[req[s].player], delta)
                           ELSE elo[req[s].player]]
    BY <1>5 DEF LockProfile
  <2>2. attempts' = attempts /\ pc[s] = "counted" /\ pc' = [pc EXCEPT ![s] = "locked"]
    BY <1>5 DEF LockProfile, Goto
  <2>3. req[s] \in Request
    BY <2>2 DEF TypeInv, TypeOK
  <2>4. /\ req'[s].began = req[s].began /\ req'[s].ranked = req[s].ranked
        /\ req'[s].player = req[s].player /\ req'[s].challenge = req[s].challenge
    BY <2>1, <2>3 DEF Request, TypeInv, TypeOK
  <2>5. Counted(s) /\ pc[s] \in Active
    BY <2>2 DEF AttemptInv, Active
  <2>6. Counted(s)'
    BY <2>2, <2>4, <2>5 DEF Counted, Replays
  <2>7. \A t \in Submission : t # s => pc'[t] = pc[t] /\ req'[t] = req[t]
    BY <2>1, <2>2 DEF TypeInv, TypeOK
  <2>8. ASSUME NEW t \in Submission, t # s
        PROVE  Counted(t)'
    BY <2>2, <2>7, <2>8 DEF AttemptInv, Counted, Replays
  <2> QED BY <2>2, <2>6, <2>8 DEF AttemptInv, Replays
<1>6. ASSUME NEW s \in Submission, CommitAttempt(s)
      PROVE  AttemptInv'
  <2>1. /\ pc[s] = "locked" /\ pc'[s] = "awarding"
        /\ attempts' = Append(attempts, Attempt(req[s]))
        /\ \A t \in Submission : t # s => pc'[t] = pc[t]
    BY <1>6 DEF CommitAttempt, Goto, TypeInv, TypeOK
  <2>2. \E codes : req' = [req EXCEPT ![s].todo = codes]
    BY <1>6 DEF CommitAttempt
  <2>3. /\ req'[s].began = req[s].began /\ req'[s].ranked = req[s].ranked
        /\ req'[s].player = req[s].player /\ req'[s].challenge = req[s].challenge
        /\ \A t \in Submission : t # s => req'[t] = req[t]
    BY <2>1, <2>2 DEF Request, TypeInv, TypeOK
  <2> QED BY <2>1, <2>3, AttemptsAppended DEF Active
<1>7. ASSUME NEW s \in Submission, AwardAchievement(s)
      PROVE  AttemptInv'
  <2>1. attempts' = attempts /\ pc' = pc /\ pc[s] = "awarding"
    BY <1>7 DEF AwardAchievement
  <2>2. \E codes : req' = [req EXCEPT ![s].todo = codes]
    BY <1>7 DEF AwardAchievement
  <2>3. /\ req'[s].began = req[s].began /\ req'[s].ranked = req[s].ranked
        /\ req'[s].player = req[s].player /\ req'[s].challenge = req[s].challenge
        /\ \A t \in Submission : t # s => req'[t] = req[t]
    BY <2>1, <2>2 DEF Request, TypeInv, TypeOK
  <2>4. ASSUME NEW t \in Submission
        PROVE  Counted(t)'
    BY <2>1, <2>3 DEF AttemptInv, Counted, Replays
  <2> QED BY <2>1, <2>4 DEF AttemptInv, Replays
<1>8. ASSUME NEW s \in Submission, Answer(s) \/ Fail(s)
      PROVE  AttemptInv'
  <2>1. /\ attempts' = attempts
        /\ \A t \in Submission : pc'[t] \in Active => pc[t] \in Active /\ req'[t] = req[t]
    BY <1>8 DEF Answer, Fail, Close, Goto, store, Active, TypeInv, TypeOK
  <2> QED BY <2>1, AttemptsUntouched
<1>9. CASE UNCHANGED vars
  BY <1>9, AttemptsUntouched DEF vars, store
<1> QED
  BY <1>1, <1>2, <1>3, <1>4, <1>5, <1>6, <1>7, <1>8, <1>9 DEF Next, Handle

(***************************************************************************)
(* What is sent after an attempt was committed is not rated                *)
(* (RecordValidAttempt: prior_attempts).                                   *)
(***************************************************************************)
THEOREM ReplaysAreNotRated == Spec => []RatedTwiceOnlyIfOverlapping
<1>1. Init => AttemptInv
  BY DEF Init, AttemptInv, Counted, Active
<1>2. AttemptInv => RatedTwiceOnlyIfOverlapping
  BY DEF AttemptInv, RatedTwiceOnlyIfOverlapping, Replays
<1> QED
  BY <1>1, <1>2, AttemptStep, TypeCorrect, PTL DEF Spec

-----------------------------------------------------------------------------
(* Ideal paths.  An ideal, once read, is still the ideal of its challenge. *)

ScoredAgainstIdeal(row) == row.optimal = ideal[row.challenge]

IdealInv ==
  /\ \A i \in DOMAIN attempts : ScoredAgainstIdeal(attempts[i])
  /\ \A s \in Submission : pc[s] \in Active => ScoredAgainstIdeal(req[s])

SameQuestion(s) ==
  pc'[s] \in Active =>
    /\ pc[s] \in Active
    /\ req'[s].challenge = req[s].challenge
    /\ req'[s].optimal = req[s].optimal

LEMMA SameIdealRows ==
  ASSUME TypeInv, IdealInv, ideal' = ideal, \A t \in Submission : SameQuestion(t),
         \/ attempts' = attempts
         \/ \E s \in Submission :
              pc[s] \in Active /\ attempts' = Append(attempts, Attempt(req[s]))
  PROVE  IdealInv'
<1>1. \A t \in Submission : pc'[t] \in Active => ScoredAgainstIdeal(req[t])'
  BY DEF IdealInv, SameQuestion, ScoredAgainstIdeal
<1>2. CASE attempts' = attempts
  BY <1>1, <1>2 DEF IdealInv, ScoredAgainstIdeal
<1>3. ASSUME NEW s \in Submission, pc[s] \in Active,
             attempts' = Append(attempts, Attempt(req[s]))
      PROVE  IdealInv'
  <2> DEFINE n == Len(attempts)
             row == Attempt(req[s])
  <2>1. row.optimal = ideal[row.challenge]
    BY <1>3 DEF Attempt, IdealInv, ScoredAgainstIdeal
  <2>2. /\ DOMAIN attempts = 1..n /\ DOMAIN attempts' = 1..(n + 1) /\ n \in Nat
        /\ \A i \in 1..n : attempts'[i] = attempts[i]
        /\ attempts'[n + 1] = row
    BY <1>3 DEF TypeInv, TypeOK
  <2>3. \A i \in 1..n : attempts[i].optimal = ideal[attempts[i].challenge]
    BY <2>2 DEF IdealInv, ScoredAgainstIdeal
  <2> HIDE DEF n, row
  <2>4. \A i \in 1..(n + 1) : attempts'[i].optimal = ideal[attempts'[i].challenge]
    BY <2>1, <2>2, <2>3
  <2> QED BY <1>1, <2>2, <2>4 DEF IdealInv, ScoredAgainstIdeal
<1> QED BY <1>2, <1>3

LEMMA IdealStep == TypeInv /\ IdealInv /\ [Next]_vars => IdealInv'
<1> SUFFICES ASSUME TypeInv, IdealInv, [Next]_vars
             PROVE  IdealInv'
  OBVIOUS
<1>1. ASSUME NEW q \in Publisher, NEW c \in Challenge, NEW path \in Hops,
             UpsertChallenge(q, c, path)
      PROVE  IdealInv'
  BY <1>1, SameIdealRows DEF UpsertChallenge, store, SameQuestion
<1>2. ASSUME NEW q \in Publisher, SetChallengeIdeal(q)
      PROVE  IdealInv'
  <2>1. UNCHANGED <<attempts, pc, req>>
    BY <1>2 DEF SetChallengeIdeal
  <2>2. \A c \in Challenge : ideal[c] # Unknown => ideal'[c] = ideal[c]
    BY <1>2 DEF SetChallengeIdeal, TypeInv, TypeOK
  <2>3. Unknown \notin Hops
    BY GameAssumption DEF GameAssumption, Unknown
  <2> DEFINE Row == [player : Player, challenge : Challenge, valid : BOOLEAN,
                     optimal : Hops, ranked : BOOLEAN, began : Nat]
  <2>4. attempts \in Seq(Row)
    BY DEF TypeInv, TypeOK
  <2>5. \A row \in Row : row.optimal \in Hops /\ row.challenge \in Challenge
    OBVIOUS
  <2> HIDE DEF Row
  <2>6. \A i \in DOMAIN attempts : attempts[i] \in Row
    BY <2>4
  <2>7. \A i \in DOMAIN attempts : ScoredAgainstIdeal(attempts[i])'
    BY <2>1, <2>2, <2>3, <2>5, <2>6 DEF IdealInv, ScoredAgainstIdeal
  <2>8. \A s \in Submission : pc[s] \in Active =>
          req[s].optimal \in Hops /\ req[s].challenge \in Challenge
    BY DEF TypeInv, TypeOK, Active, Request
  <2>9. \A s \in Submission : pc[s] \in Active => ScoredAgainstIdeal(req[s])'
    BY <2>1, <2>2, <2>3, <2>8 DEF IdealInv, ScoredAgainstIdeal
  <2> QED BY <2>1, <2>7, <2>9 DEF IdealInv
<1>3. ASSUME NEW s \in Submission, Start(s)
      PROVE  IdealInv'
  <2>1. /\ ideal' = ideal /\ attempts' = attempts
        /\ \A t \in Submission : t # s => pc'[t] = pc[t] /\ req'[t] = req[t]
        /\ req'[s].optimal = ideal[req'[s].challenge]
    BY <1>3 DEF Start, Submit, Goto, store, TypeInv, TypeOK
  <2> QED BY <2>1 DEF IdealInv, ScoredAgainstIdeal
<1>4. ASSUME NEW s \in Submission, RecordInvalidAttempt(s)
      PROVE  IdealInv'
  <2>1. /\ ideal' = ideal /\ pc[s] \in Active
        /\ attempts' = Append(attempts, Attempt(req[s]))
        /\ \A t \in Submission : SameQuestion(t)
    BY <1>4 DEF RecordInvalidAttempt, Close, Goto, TypeInv, TypeOK, SameQuestion, Active
  <2> QED BY <2>1, SameIdealRows
<1>5. ASSUME NEW s \in Submission, CountAttempts(s)
      PROVE  IdealInv'
  <2>1. \E b, n : req' = [req EXCEPT ![s].ranked = b, ![s].score = n]
    BY <1>5, Zenon DEF CountAttempts
  <2>2. ideal' = ideal /\ attempts' = attempts /\ pc' = [pc EXCEPT ![s] = "counted"]
        /\ pc[s] = "read"
    BY <1>5 DEF CountAttempts, Goto, store
  <2>3. \A t \in Submission : SameQuestion(t)
    BY <2>1, <2>2 DEF SameQuestion, Active, TypeInv, TypeOK, Request
  <2> QED BY <2>2, <2>3, SameIdealRows
<1>6. ASSUME NEW s \in Submission, LockProfile(s)
      PROVE  IdealInv'
  <2>1. PICK delta \in Delta : req' = [req EXCEPT ![s].elo_before = elo[req[s].player],
          ![s].elo_after = IF req[s].ranked THEN UpdateElo(elo[req[s].player], delta)
                           ELSE elo[req[s].player]]
    BY <1>6 DEF LockProfile
  <2>2. /\ ideal' = ideal /\ attempts' = attempts
        /\ pc[s] = "counted" /\ pc' = [pc EXCEPT ![s] = "locked"]
    BY <1>6 DEF LockProfile, Goto
  <2>3. \A t \in Submission : SameQuestion(t)
    BY <2>1, <2>2 DEF SameQuestion, Active, TypeInv, TypeOK, Request
  <2> QED BY <2>2, <2>3, SameIdealRows
<1>7. ASSUME NEW s \in Submission, CommitAttempt(s)
      PROVE  IdealInv'
  <2>1. \E codes : req' = [req EXCEPT ![s].todo = codes]
    BY <1>7 DEF CommitAttempt
  <2>2. /\ ideal' = ideal /\ attempts' = Append(attempts, Attempt(req[s]))
        /\ pc[s] = "locked" /\ pc' = [pc EXCEPT ![s] = "awarding"]
    BY <1>7 DEF CommitAttempt, Goto
  <2>3. \A t \in Submission : SameQuestion(t)
    BY <2>1, <2>2 DEF SameQuestion, Active, TypeInv, TypeOK, Request
  <2> QED BY <2>2, <2>3, SameIdealRows DEF Active
<1>8. ASSUME NEW s \in Submission, AwardAchievement(s)
      PROVE  IdealInv'
  <2>1. \E codes : req' = [req EXCEPT ![s].todo = codes]
    BY <1>8 DEF AwardAchievement
  <2>2. ideal' = ideal /\ attempts' = attempts /\ pc[s] = "awarding" /\ pc' = pc
    BY <1>8 DEF AwardAchievement
  <2>3. \A t \in Submission : SameQuestion(t)
    BY <2>1, <2>2 DEF SameQuestion, Active, TypeInv, TypeOK, Request
  <2> QED BY <2>2, <2>3, SameIdealRows
<1>9. ASSUME NEW s \in Submission, Answer(s) \/ Fail(s)
      PROVE  IdealInv'
  <2>1. /\ ideal' = ideal /\ attempts' = attempts
        /\ \A t \in Submission : SameQuestion(t)
    BY <1>9 DEF Answer, Fail, Close, Goto, store, Active, TypeInv, TypeOK, SameQuestion
  <2> QED BY <2>1, SameIdealRows
<1>10. CASE UNCHANGED vars
  BY <1>10, SameIdealRows DEF vars, store, SameQuestion
<1> QED
  BY <1>1, <1>2, <1>3, <1>4, <1>5, <1>6, <1>7, <1>8, <1>9, <1>10 DEF Next, Publish, Handle

(***************************************************************************)
(* All attempts at a challenge are scored against one ideal path, however  *)
(* many publishers found one (SetChallengeIdeal).                          *)
(***************************************************************************)
THEOREM IdealIsSetOnce == Spec => []OneIdealPerChallenge
<1>1. Init => IdealInv
  BY DEF Init, IdealInv, Active
<1>2. IdealInv => OneIdealPerChallenge
  BY DEF IdealInv, ScoredAgainstIdeal, OneIdealPerChallenge
<1> QED
  BY <1>1, <1>2, IdealStep, TypeCorrect, PTL DEF Spec

-----------------------------------------------------------------------------
(* Achievements.  What was announced is in the table. *)

AwardInv ==
  /\ AnnouncedOnce
  /\ \A s \in Submission, p \in Player, code \in Code :
       <<s, p, code>> \in announced => code \in achievements[p]

LEMMA AwardStep == TypeInv /\ AwardInv /\ [Next]_vars => AwardInv'
<1> SUFFICES ASSUME TypeInv, AwardInv, [Next]_vars
             PROVE  AwardInv'
  OBVIOUS
<1>1. CASE UNCHANGED <<achievements, announced>>
  BY <1>1 DEF AwardInv, AnnouncedOnce
<1>2. ASSUME NEW s \in Submission, AwardAchievement(s)
      PROVE  AwardInv'
  <2> DEFINE p == req[s].player
             earned == First(req[s].todo)
  <2>1. req[s] \in Request /\ p \in Player
    BY <1>2 DEF AwardAchievement, TypeInv, TypeOK, Request
  <2>2. /\ achievements' = [achievements EXCEPT ![p] = @ \cup {earned}]
        /\ announced' = IF earned \in achievements[p] THEN announced
                        ELSE announced \cup {<<s, p, earned>>}
    BY <1>2 DEF AwardAchievement
  <2> HIDE DEF p, earned
  <2>3. \A q \in Player : achievements[q] \subseteq achievements'[q]
    BY <2>1, <2>2 DEF TypeInv, TypeOK
  <2>4. earned \in achievements'[p]
    BY <2>1, <2>2 DEF TypeInv, TypeOK
  <2>5. CASE earned \in achievements[p]
    BY <2>2, <2>3, <2>5 DEF AwardInv, AnnouncedOnce
  <2>6. CASE earned \notin achievements[p]
    BY <2>1, <2>2, <2>3, <2>4, <2>6 DEF AwardInv, AnnouncedOnce
  <2> QED BY <2>5, <2>6
<1> QED
  BY <1>1, <1>2, ZenonT(40) DEF Next, Publish, UpsertChallenge, SetChallengeIdeal, Start, Submit, Handle,
     RecordInvalidAttempt, CountAttempts, LockProfile, CommitAttempt, Answer, Fail, store,
     history, vars

(***************************************************************************)
(* Submissions that earn an achievement at the same time announce it once  *)
(* (EvaluateAndAwardAchievements: ON CONFLICT DO NOTHING RETURNING).       *)
(***************************************************************************)
THEOREM AwardsAreAnnouncedOnce == Spec => []AnnouncedOnce
<1>1. Init => AwardInv
  BY DEF Init, AwardInv, AnnouncedOnce
<1>2. AwardInv => AnnouncedOnce
  BY DEF AwardInv
<1> QED
  BY <1>1, <1>2, AwardStep, TypeCorrect, PTL DEF Spec

-----------------------------------------------------------------------------
(* Achievements again.  What a player has earned is in the table, or on    *)
(* the list of a submission that is about to insert it, or lost with a     *)
(* submission that died.                                                   *)

Deserved(p, code) ==
  \/ code = "first_win" /\ games[p] >= 1
  \/ code = "veteran"   /\ games[p] >= kVeteranGames
  \/ code = "elo_1500"  /\ elo[p] >= kEloMasterThreshold

OnTheList(p, code) ==
  \E s \in Submission : pc[s] = "awarding" /\ req[s].player = p /\ code \in req[s].todo

EarnedInv ==
  \A p \in Player, code \in Code :
    Deserved(p, code) => code \in achievements[p] \/ p \in interrupted \/ OnTheList(p, code)

(* A step of somebody who is not awarding and rates nobody.                *)
LEMMA ListsAreKept ==
  ASSUME EarnedInv, UNCHANGED <<elo, games>>,
         \A p \in Player : achievements[p] \subseteq achievements'[p],
         interrupted \subseteq interrupted',
         \A s \in Submission : pc[s] = "awarding" => pc'[s] = "awarding" /\ req'[s] = req[s]
  PROVE  EarnedInv'
<1>1. ASSUME NEW p \in Player, NEW code \in Code, Deserved(p, code)'
      PROVE  code \in achievements'[p] \/ p \in interrupted' \/ OnTheList(p, code)'
  <2>1. Deserved(p, code)
    BY <1>1 DEF Deserved
  <2>2. code \in achievements[p] \/ p \in interrupted \/ OnTheList(p, code)
    BY <2>1 DEF EarnedInv
  <2>3. OnTheList(p, code) => OnTheList(p, code)'
    BY DEF OnTheList
  <2> QED BY <2>2, <2>3
<1> QED BY <1>1 DEF EarnedInv

LEMMA EarnedStep == TypeInv /\ EarnedInv /\ [Next]_vars => EarnedInv'
<1> SUFFICES ASSUME TypeInv, EarnedInv, [Next]_vars
             PROVE  EarnedInv'
  OBVIOUS
<1>1. ASSUME NEW q \in Publisher, Publish(q)
      PROVE  EarnedInv'
  BY <1>1, ListsAreKept DEF Publish, UpsertChallenge, SetChallengeIdeal, store, history
<1>2. ASSUME NEW s \in Submission,
             Start(s) \/ RecordInvalidAttempt(s) \/ CountAttempts(s) \/ LockProfile(s)
      PROVE  EarnedInv'
  <2>1. /\ UNCHANGED <<elo, games, achievements, interrupted>>
        /\ pc[s] # "awarding"
    BY <1>2 DEF Start, Submit, RecordInvalidAttempt, CountAttempts, LockProfile, store, history
  <2>2. \A t \in Submission : t # s => pc'[t] = pc[t] /\ req'[t] = req[t]
    BY <1>2 DEF Start, Submit, RecordInvalidAttempt, CountAttempts, LockProfile, Close, Goto,
                TypeInv, TypeOK
  <2> QED BY <2>1, <2>2, ListsAreKept
<1>3. ASSUME NEW s \in Submission, CommitAttempt(s)
      PROVE  EarnedInv'
  <2>0. PICK p \in Player : req[s].player = p
    BY <1>3 DEF CommitAttempt, TypeInv, TypeOK, Request
  <2> DEFINE games_after == IF req[s].ranked THEN games[p] + 1 ELSE games[p]
             codes == Candidates(req[s], games_after)
  <2>1. req[s] \in Request /\ games[p] \in Nat
    BY <1>3 DEF CommitAttempt, TypeInv, TypeOK, Request
  <2>2. /\ elo' = [elo EXCEPT ![p] = IF req[s].ranked THEN req[s].elo_after ELSE @]
        /\ games' = [games EXCEPT ![p] = games_after]
        /\ pc[s] = "locked" /\ UNCHANGED <<achievements, interrupted>>
        /\ pc' = [pc EXCEPT ![s] = "awarding"]
        /\ req' = [req EXCEPT ![s].todo = codes]
    BY <1>3, <2>0 DEF CommitAttempt, Goto
  <2>3. /\ pc'[s] = "awarding" /\ req'[s].player = p /\ req'[s].todo = codes
        /\ \A t \in Submission : t # s => pc'[t] = pc[t] /\ req'[t] = req[t]
    BY <2>0, <2>1, <2>2 DEF TypeInv, TypeOK, Request
  <2>4. /\ elo'[p] = IF req[s].ranked THEN req[s].elo_after ELSE elo[p]
        /\ games'[p] = games_after
        /\ \A q \in Player : q # p => elo'[q] = elo[q] /\ games'[q] = games[q]
    BY <2>1, <2>2 DEF TypeInv, TypeOK
  <2>5. ASSUME NEW q \in Player, NEW code \in Code, OnTheList(q, code)
        PROVE  OnTheList(q, code)'
    <3>1. PICK t \in Submission : pc[t] = "awarding" /\ req[t].player = q /\ code \in req[t].todo
      BY <2>5 DEF OnTheList
    <3>2. t # s
      BY <2>2, <3>1
    <3> QED BY <2>3, <3>1, <3>2 DEF OnTheList
  <2>6. ASSUME NEW q \in Player, NEW code \in Code, Deserved(q, code)
        PROVE  (code \in achievements[q] \/ q \in interrupted \/ OnTheList(q, code))'
    BY <2>2, <2>5, <2>6 DEF EarnedInv
  <2>7. ASSUME NEW code \in Code, Deserved(p, code)', ~Deserved(p, code)
        PROVE  code \in codes
    <3>1. CASE ~req[s].ranked
      BY <2>4, <2>7, <3>1 DEF Deserved
    <3>2. CASE req[s].ranked
      <4>1. games'[p] = games[p] + 1 /\ games_after = games[p] + 1 /\ elo'[p] = req[s].elo_after
        BY <2>4, <3>2
      <4>2. CASE code = "first_win"
        <5>1. games_after = 1
          BY <2>1, <2>7, <4>1, <4>2 DEF Deserved
        <5> QED BY <4>2, <5>1 DEF Candidates
      <4>3. CASE code = "veteran"
        <5>1. games_after >= kVeteranGames
          BY <2>7, <4>1, <4>3 DEF Deserved
        <5> HIDE DEF games_after
        <5> QED BY <4>3, <5>1 DEF Candidates
      <4>4. CASE code = "elo_1500"
        <5>1. req[s].elo_after >= kEloMasterThreshold
          BY <2>7, <4>1, <4>4 DEF Deserved
        <5> QED BY <4>4, <5>1 DEF Candidates
      <4> QED BY <2>7, <4>2, <4>3, <4>4 DEF Deserved
    <3> QED BY <3>1, <3>2
  <2> HIDE DEF games_after, codes
  <2>8. ASSUME NEW q \in Player, NEW code \in Code, Deserved(q, code)', ~Deserved(q, code)
        PROVE  OnTheList(q, code)'
    <3>1. q = p
      BY <2>4, <2>8 DEF Deserved
    <3>2. code \in codes
      BY <2>7, <2>8, <3>1
    <3> QED BY <2>3, <3>1, <3>2 DEF OnTheList
  <2> QED BY <2>6, <2>8 DEF EarnedInv
<1>4. ASSUME NEW s \in Submission, AwardAchievement(s)
      PROVE  EarnedInv'
  <2> DEFINE p == req[s].player
             earned == First(req[s].todo)
  <2>1. req[s] \in Request /\ p \in Player /\ req[s].todo \in SUBSET Code
    BY <1>4 DEF AwardAchievement, TypeInv, TypeOK, Request
  <2>2. /\ achievements' = [achievements EXCEPT ![p] = @ \cup {earned}]
        /\ req' = [req EXCEPT ![s].todo = @ \ {earned}]
        /\ UNCHANGED <<elo, games, interrupted, pc>> /\ pc[s] = "awarding"
    BY <1>4 DEF AwardAchievement
  <2> HIDE DEF earned
  <2>3. /\ req'[s].player = p /\ req'[s].todo = req[s].todo \ {earned}
        /\ \A t \in Submission : t # s => req'[t] = req[t]
    BY <2>1, <2>2 DEF TypeInv, TypeOK, Request
  <2> HIDE DEF p
  <2>4. earned \in achievements'[p] /\ \A q \in Player : achievements[q] \subseteq achievements'[q]
    BY <2>1, <2>2 DEF TypeInv, TypeOK
  <2>5. ASSUME NEW q \in Player, NEW code \in Code, OnTheList(q, code)
        PROVE  code \in achievements'[q] \/ OnTheList(q, code)'
    <3>1. PICK t \in Submission : pc[t] = "awarding" /\ req[t].player = q /\ code \in req[t].todo
      BY <2>5 DEF OnTheList
    <3>2. CASE t # s
      BY <2>2, <2>3, <3>1, <3>2 DEF OnTheList
    <3>3. CASE t = s /\ code = earned
      BY <2>4, <3>1, <3>3 DEF p
    <3>4. CASE t = s /\ code # earned
      <4>1. code \in req'[s].todo /\ req'[s].player = q /\ pc'[s] = "awarding"
        BY <2>2, <2>3, <3>1, <3>4 DEF p
      <4> QED BY <4>1 DEF OnTheList
    <3> QED BY <3>2, <3>3, <3>4
  <2>6. \A q \in Player, code \in Code : Deserved(q, code)' => Deserved(q, code)
    BY <2>2 DEF Deserved
  <2> QED BY <2>2, <2>4, <2>5, <2>6 DEF EarnedInv
<1>5. ASSUME NEW s \in Submission, Answer(s) \/ Fail(s)
      PROVE  EarnedInv'
  <2>1. /\ UNCHANGED <<elo, games, achievements>> /\ interrupted \subseteq interrupted'
        /\ \/ pc[s] = "awarding" /\ req[s].todo = {}
           \/ req[s].player \in interrupted'
    BY <1>5 DEF Answer, Fail, store, history
  <2>2. \A t \in Submission : t # s => pc'[t] = pc[t] /\ req'[t] = req[t]
    BY <1>5 DEF Answer, Fail, Close, Goto, TypeInv, TypeOK
  <2>3. ASSUME NEW q \in Player, NEW code \in Code, OnTheList(q, code)
        PROVE  q \in interrupted' \/ OnTheList(q, code)'
    <3>1. PICK t \in Submission : pc[t] = "awarding" /\ req[t].player = q /\ code \in req[t].todo
      BY <2>3 DEF OnTheList
    <3>2. CASE t # s
      BY <2>2, <3>1, <3>2 DEF OnTheList
    <3>3. CASE t = s
      BY <2>1, <3>1, <3>3
    <3> QED BY <3>2, <3>3
  <2>4. \A q \in Player, code \in Code : Deserved(q, code)' => Deserved(q, code)
    BY <2>1 DEF Deserved
  <2> QED BY <2>1, <2>3, <2>4 DEF EarnedInv
<1>6. CASE UNCHANGED vars
  BY <1>6, ListsAreKept DEF vars, store, history
<1> QED
  BY <1>1, <1>2, <1>3, <1>4, <1>5, <1>6 DEF Next, Handle

(***************************************************************************)
(* Achievements are awarded exactly: announced once, and missed by nobody  *)
(* whose submissions came to their end, however parallel games decide      *)
(* about them (EvaluateAndAwardAchievements).                              *)
(***************************************************************************)
THEOREM AwardsAreExactHolds == Spec => []AwardsAreExact
<1>1. Init => EarnedInv
  BY GameAssumption DEF GameAssumption, Init, EarnedInv, Deserved
<1>2. EarnedInv => NoAwardIsMissed
  <2> SUFFICES ASSUME EarnedInv, NEW p \in Player, Settled(p)
               PROVE  /\ games[p] >= 1 => "first_win" \in achievements[p]
                      /\ games[p] >= kVeteranGames => "veteran" \in achievements[p]
                      /\ elo[p] >= kEloMasterThreshold => "elo_1500" \in achievements[p]
    BY DEF NoAwardIsMissed
  <2>1. \A code \in Code : ~OnTheList(p, code)
    BY DEF Settled, OnTheList
  <2>2. \A code \in Code : Deserved(p, code) => code \in achievements[p]
    BY <2>1 DEF EarnedInv, Settled
  <2>3. {"first_win", "veteran", "elo_1500"} \subseteq Code
    BY DEF Code
  <2> QED BY <2>2, <2>3 DEF Deserved
<1>3. Spec => []NoAwardIsMissed
  BY <1>1, <1>2, EarnedStep, TypeCorrect, PTL DEF Spec
<1> QED
  BY <1>3, AwardsAreAnnouncedOnce, PTL DEF AwardsAreExact


-----------------------------------------------------------------------------
(* The publication of challenges.                                          *)

Stages == {"idle", "looking", "dated", "in season", "stored", "published", "dead"}
OptLength == PathLengths \cup {Null}
Publication ==
  [at : Stages, runs : Nat, tries : Nat, pair : Pair \cup {Null}, len : OptLength, clock : Nat,
   season : Nat, row : Nat, created : BOOLEAN, told : OptLength]
ChallengeRow ==
  [pair : Pair \cup {Null}, kind : {"custom", "daily"}, season : Nat, created : Nat,
   ideal : OptLength]

SeasonTypes ==
  /\ SeasonsConstantsOK
  /\ wallClock \in Nat
  /\ seasons \in Seq(Nat)
  /\ challenges \in Seq(ChallengeRow)
  /\ job \in [Author -> Publication]

(* Seasons begin at different multiples of their length.                   *)
Multiple(start) == \E m \in Nat : start = m * SeasonLen
SeasonsApart ==
  /\ \A i \in DOMAIN seasons : Multiple(seasons[i])
  /\ \A i, j \in DOMAIN seasons : seasons[i] = seasons[j] => i = j

(* What a publisher knows stays true: its season is there, a daily has a   *)
(* path, and an ideal it was told is still stored.                         *)
JobOK(q) ==
  LET j == job[q] IN
  /\ j.at = "in season" => j.season \in DOMAIN seasons
  /\ j.at \in {"dated", "in season", "stored"} /\ KindOf[q] # "player" => j.len # Null
  /\ j.at = "stored" =>
       /\ j.row \in DOMAIN challenges
       /\ challenges[j.row].kind = ChallengeKind(q)
       /\ j.told # Null => challenges[j.row].ideal # Null

Storing(q, i) == job[q].at = "stored" /\ job[q].row = i /\ StoresIdeal(q)

(* The property for every daily, not only the latest.                      *)
RowOK(i) ==
  /\ challenges[i].season \in DOMAIN seasons
  /\ challenges[i].kind = "daily" =>
       \/ challenges[i].ideal # Null
       \/ i \in orphans
       \/ \E q \in Author : Storing(q, i)

SeasonsInv ==
  /\ SeasonTypes /\ SeasonsApart
  /\ \A q \in Author : JobOK(q)
  /\ \A i \in DOMAIN challenges : RowOK(i)

-----------------------------------------------------------------------------
LEMMA Appended ==
  ASSUME NEW S, NEW s \in Seq(S), NEW e \in S, NEW t, t = Append(s, e)
  PROVE  /\ Len(s) \in Nat /\ DOMAIN s = 1..Len(s) /\ DOMAIN s \subseteq Nat
         /\ t \in Seq(S) /\ Len(t) = Len(s) + 1 /\ DOMAIN t = 1..(Len(s) + 1)
         /\ t[Len(s) + 1] = e /\ \A i \in 1..Len(s) : t[i] = s[i]
<1>1. Len(s) \in Nat /\ DOMAIN s = 1..Len(s)
  BY LenProperties
<1>2. DOMAIN s \subseteq Nat
  BY <1>1
<1>3. t \in Seq(S) /\ Len(t) = Len(s) + 1 /\ t[Len(s) + 1] = e /\ \A i \in 1..Len(s) : t[i] = s[i]
  BY AppendProperties
<1>4. DOMAIN t = 1..(Len(s) + 1)
  BY <1>3, LenProperties
<1> QED
  BY <1>1, <1>2, <1>3, <1>4

(* The season of a time is a multiple of the length.                       *)
LEMMA StartOfIsMultiple ==
  ASSUME SeasonsConstantsOK, NEW t \in Nat
  PROVE  StartOf(t) \in Nat /\ Multiple(StartOf(t)) /\ StartOf(t) <= t /\ t < StartOf(t) + SeasonLen
<1>1. SeasonLen \in Nat /\ SeasonLen > 0
  BY DEF SeasonsConstantsOK
<1> DEFINE m == t \div SeasonLen
           r == t % SeasonLen
<1>2. /\ m \in Nat /\ r \in Nat /\ r < SeasonLen
      /\ t = m * SeasonLen + r /\ m * SeasonLen \in Nat
  BY <1>1, Z3
<1>3. StartOf(t) = t - r
  BY DEF StartOf
<1> HIDE DEF m, r
<1> QED
  BY <1>1, <1>2, <1>3 DEF Multiple

(* Different multiples are a length apart. *)
LEMMA MultiplesApart ==
  ASSUME NEW a \in Nat, NEW b \in Nat, NEW w \in Nat \ {0}, a * w <= b * w, b * w < a * w + w
  PROVE  a = b
<1>1. a < b => a * w + w <= b * w
  OBVIOUS
<1>2. b < a => b * w < a * w
  OBVIOUS
<1> QED
  BY <1>1, <1>2

LEMMA CoversItself ==
  ASSUME SeasonTypes, SeasonsApart, NEW s \in DOMAIN seasons
  PROVE  Covering(seasons[s]) = {s}
<1>1. SeasonLen \in Nat \ {0} /\ \A i \in DOMAIN seasons : seasons[i] \in Nat
  BY DEF SeasonTypes, SeasonsConstantsOK
<1>2. ASSUME NEW i \in DOMAIN seasons, seasons[i] <= seasons[s], seasons[s] < seasons[i] + SeasonLen
      PROVE  i = s
  <2>1. PICK a \in Nat : seasons[i] = a * SeasonLen
    BY DEF SeasonsApart, Multiple
  <2>2. PICK b \in Nat : seasons[s] = b * SeasonLen
    BY DEF SeasonsApart, Multiple
  <2>3. a = b
    BY <1>1, <1>2, <2>1, <2>2, MultiplesApart
  <2> QED
    BY <2>1, <2>2, <2>3 DEF SeasonsApart
<1>3. s \in Covering(seasons[s])
  BY <1>1 DEF Covering
<1> QED
  BY <1>2, <1>3 DEF Covering

-----------------------------------------------------------------------------
LEMMA SeasonsBegin == SeasonsConstantsOK /\ SeasonsInit => SeasonsInv
<1> SUFFICES ASSUME SeasonsConstantsOK, SeasonsInit PROVE SeasonsInv
  OBVIOUS
<1>1. \A q \in Author : \A at \in {"looking", "idle"} : Resting(0, at) \in Publication
  BY DEF Resting, Publication, Stages, OptLength, Null, SeasonsConstantsOK
<1>2. job \in [Author -> Publication]
  BY <1>1 DEF SeasonsInit
<1>3. \A q \in Author : job[q].at \in {"looking", "idle"}
  BY DEF SeasonsInit, Resting
<1>4. \A q \in Author : JobOK(q)
  BY <1>3 DEF JobOK
<1> QED
  BY <1>2, <1>4 DEF SeasonsInv, SeasonTypes, SeasonsApart, SeasonsInit

(* Steps of a publisher that touch neither the seasons nor the challenges, *)
(* and are not taken while it has a challenge to complete.                 *)
LEMMA OnlyItsJob ==
  ASSUME SeasonsInv, NEW q \in Author, NEW j \in Publication,
         job' = [job EXCEPT ![q] = j], job[q].at # "stored",
         j.at \notin {"in season", "stored"},
         j.at = "dated" /\ KindOf[q] # "player" => j.len # Null,
         UNCHANGED <<wallClock, seasons, challenges, orphans>>
  PROVE  SeasonsInv'
<1>1. SeasonTypes' /\ SeasonsApart'
  BY DEF SeasonsInv, SeasonTypes, SeasonsApart, Multiple
<1>2. job'[q] = j /\ \A p \in Author \ {q} : job'[p] = job[p]
  BY DEF SeasonsInv, SeasonTypes
<1>3. ASSUME NEW p \in Author PROVE JobOK(p)'
  BY <1>2 DEF SeasonsInv, JobOK, ChallengeKind
<1>4. ASSUME NEW i \in DOMAIN challenges PROVE RowOK(i)'
  <2>1. \A p \in Author : Storing(p, i) => Storing(p, i)'
    BY <1>2 DEF Storing, StoresIdeal
  <2> QED
    BY <2>1 DEF SeasonsInv, RowOK
<1> QED
  BY <1>1, <1>3, <1>4 DEF SeasonsInv

LEMMA JobTypes ==
  ASSUME SeasonsInv, NEW q \in Author
  PROVE  /\ job[q] \in Publication
         /\ \A at \in Stages : Resting(job[q].runs, at) \in Publication
                               /\ Resting(job[q].runs + 1, at) \in Publication
                               /\ Resting(job[q].runs, at).at = at
                               /\ Resting(job[q].runs + 1, at).at = at
<1>1. job[q] \in Publication
  BY DEF SeasonsInv, SeasonTypes
<1>2. job[q].runs \in Nat /\ job[q].runs + 1 \in Nat
  BY <1>1 DEF Publication
<1>3. Tries \in Nat /\ Null \in Nat /\ Null \in OptLength
  BY DEF SeasonsInv, SeasonTypes, SeasonsConstantsOK, Null, OptLength
<1>4. ASSUME NEW n \in Nat, NEW at \in Stages
      PROVE  Resting(n, at) \in Publication /\ Resting(n, at).at = at
  BY <1>3 DEF Resting, Publication
<1> QED
  BY <1>1, <1>2, <1>4

LEMMA BeginToPublishStep == ASSUME SeasonsInv, NEW q \in Author, BeginToPublish(q) PROVE SeasonsInv'
<1> DEFINE n == job[q].runs + 1
           j == [job[q] EXCEPT !.at = "looking", !.runs = n]
<1>1. job[q] \in Publication
  BY JobTypes
<1>3. job' = [job EXCEPT ![q] = j]
  BY DEF BeginToPublish, SeasonsInv, SeasonTypes
<1>4. n \in Nat
  BY <1>1 DEF Publication
<1> HIDE DEF n
<1>2. j \in Publication /\ j.at = "looking"
  BY <1>1, <1>4 DEF Publication, Stages
<1> HIDE DEF j
<1> QED
  BY <1>2, <1>3, OnlyItsJob DEF BeginToPublish

LEMMA LookStep ==
  ASSUME SeasonsInv, NEW q \in Author, NEW pair \in Pair, NEW len \in PathLengths, Look(q, pair, len)
  PROVE  SeasonsInv'
<1>1. job[q] \in Publication /\ wallClock \in Nat
  BY JobTypes DEF SeasonsInv, SeasonTypes
<1>2. MinPathLen \in Nat \ {0} /\ PathLengths \subseteq Nat
  BY DEF SeasonsInv, SeasonTypes, SeasonsConstantsOK
<1>3. job[q].at = "looking" /\ UNCHANGED <<wallClock, seasons, challenges, orphans>>
  BY DEF Look
<1>4. CASE /\ PathLenOk(len) \/ (KindOf[q] = "player" /\ len = Null)
           /\ job' = [job EXCEPT ![q].at = "dated", ![q].pair = pair, ![q].len = len,
                                 ![q].clock = wallClock]
  <2> DEFINE j == [job[q] EXCEPT !.at = "dated", !.pair = pair, !.len = len, !.clock = wallClock]
  <2>1. j \in Publication /\ j.at = "dated" /\ j.len = len
    BY <1>1 DEF Publication, Stages, OptLength
  <2>2. job' = [job EXCEPT ![q] = j]
    BY <1>4 DEF SeasonsInv, SeasonTypes
  <2>3. KindOf[q] # "player" => len # Null
    BY <1>2, <1>4 DEF PathLenOk, Null
  <2> HIDE DEF j
  <2> QED
    BY <1>3, <2>1, <2>2, <2>3, OnlyItsJob
<1>5. CASE job[q].tries > 1 /\ job' = [job EXCEPT ![q].tries = @ - 1]
  <2> DEFINE j == [job[q] EXCEPT !.tries = job[q].tries - 1]
  <2>1. j \in Publication /\ j.at = "looking"
    BY <1>1, <1>3, <1>5 DEF Publication
  <2>2. job' = [job EXCEPT ![q] = j]
    BY <1>5 DEF SeasonsInv, SeasonTypes
  <2> HIDE DEF j
  <2> QED
    BY <1>3, <2>1, <2>2, OnlyItsJob
<1>6. CASE job' = [job EXCEPT ![q] = Resting(@.runs, "idle")]
  <2> DEFINE j == Resting(job[q].runs, "idle")
  <2>1. j \in Publication /\ j.at = "idle"
    BY JobTypes DEF Stages
  <2>2. job' = [job EXCEPT ![q] = j]
    BY <1>6 DEF SeasonsInv, SeasonTypes
  <2> HIDE DEF j
  <2> QED
    BY <1>3, <2>1, <2>2, OnlyItsJob
<1> QED
  BY <1>4, <1>5, <1>6 DEF Look

LEMMA ConcludeStep == ASSUME SeasonsInv, NEW q \in Author, Conclude(q) PROVE SeasonsInv'
<1> DEFINE j == Resting(job[q].runs, "idle")
<1>1. j \in Publication /\ j.at = "idle"
  BY JobTypes DEF Stages
<1>2. job' = [job EXCEPT ![q] = j]
  BY DEF Conclude, SeasonsInv, SeasonTypes
<1> HIDE DEF j
<1> QED
  BY <1>1, <1>2, OnlyItsJob DEF Conclude

LEMMA RestartStep == ASSUME SeasonsInv, NEW q \in Author, Restart(q) PROVE SeasonsInv'
<1> DEFINE j == Resting(job[q].runs + 1, "looking")
<1>1. j \in Publication /\ j.at = "looking"
  BY JobTypes DEF Stages
<1>2. job' = [job EXCEPT ![q] = j]
  BY DEF Restart, SeasonsInv, SeasonTypes
<1> HIDE DEF j
<1> QED
  BY <1>1, <1>2, OnlyItsJob DEF Restart

(* The transaction keeps seasons apart: it begins one only where none      *)
(* covers the time it read before it waited for the lock.                  *)
LEMMA EnsureStep == ASSUME SeasonsInv, NEW q \in Author, EnsureCurrentSeason(q) PROVE SeasonsInv'
<1> DEFINE now == job[q].clock
<1>1. /\ job[q] \in Publication /\ now \in Nat /\ job[q].at = "dated"
      /\ seasons \in Seq(Nat) /\ SeasonsConstantsOK /\ SeasonLen \in Nat \ {0}
      /\ UNCHANGED <<wallClock, challenges, orphans>>
  BY JobTypes DEF SeasonsInv, SeasonTypes, SeasonsConstantsOK, Publication, EnsureCurrentSeason
<1>2. PICK s \in Nat : /\ job' = [job EXCEPT ![q].at = "in season", ![q].season = s]
                       /\ s \in DOMAIN seasons' /\ seasons' \in Seq(Nat)
                       /\ DOMAIN seasons \subseteq DOMAIN seasons'
                       /\ SeasonsApart'
  <2>1. CASE \E i \in Covering(now) :
               job' = [job EXCEPT ![q].at = "in season", ![q].season = i] /\ UNCHANGED seasons
    <3>1. PICK i \in Covering(now) :
            job' = [job EXCEPT ![q].at = "in season", ![q].season = i] /\ UNCHANGED seasons
      BY <2>1
    <3>2. i \in DOMAIN seasons /\ i \in Nat
      <4>1. i \in DOMAIN seasons
        BY <3>1 DEF Covering
      <4> QED
        BY <1>1, <4>1, LenProperties
    <3> QED
      BY <1>1, <3>1, <3>2 DEF SeasonsInv, SeasonsApart, Multiple
  <2>2. CASE /\ Covering(now) = {}
             /\ seasons' = Append(seasons, StartOf(now))
             /\ job' = [job EXCEPT ![q].at = "in season", ![q].season = Len(seasons')]
    <3> DEFINE b == StartOf(now)
               n == Len(seasons)
    <3>1. b \in Nat /\ Multiple(b) /\ b <= now /\ now < b + SeasonLen
      BY <1>1, StartOfIsMultiple
    <3>2. \A i \in DOMAIN seasons : seasons[i] # b
      BY <2>2, <3>1 DEF Covering
    <3>3. /\ n \in Nat /\ DOMAIN seasons = 1..n
          /\ seasons' \in Seq(Nat) /\ Len(seasons') = n + 1 /\ DOMAIN seasons' = 1..(n + 1)
          /\ seasons'[n + 1] = b /\ \A i \in 1..n : seasons'[i] = seasons[i]
      <4>1. seasons' = Append(seasons, b)
        BY <2>2
      <4> HIDE DEF b
      <4> QED
        BY <1>1, <3>1, <4>1, Appended
    <3> HIDE DEF b, n
    <3>4. \A i \in 1..(n + 1) : i = n + 1 \/ i \in 1..n
      BY <3>3
    <3>5. \A i \in DOMAIN seasons : Multiple(seasons[i])
      BY DEF SeasonsInv, SeasonsApart
    <3>6. \A i \in DOMAIN seasons' : Multiple(seasons'[i])
      BY <3>1, <3>3, <3>4, <3>5
    <3>7. ASSUME NEW i \in DOMAIN seasons', NEW k \in DOMAIN seasons', seasons'[i] = seasons'[k]
          PROVE  i = k
      BY <3>2, <3>3, <3>4, <3>7 DEF SeasonsInv, SeasonsApart
    <3>8. SeasonsApart'
      BY <3>6, <3>7 DEF SeasonsApart, Multiple
    <3>9. /\ n + 1 \in Nat /\ n + 1 \in DOMAIN seasons' /\ DOMAIN seasons \subseteq DOMAIN seasons'
          /\ job' = [job EXCEPT ![q].at = "in season", ![q].season = n + 1]
      <4>1. /\ n + 1 \in Nat /\ n + 1 \in DOMAIN seasons' /\ DOMAIN seasons \subseteq DOMAIN seasons'
        BY <3>3
      <4>2. Len(seasons') = n + 1
        BY <3>3
      <4> QED
        BY <2>2, <4>1, <4>2
    <3> QED
      BY <3>3, <3>8, <3>9
  <2> QED
    BY <2>1, <2>2 DEF EnsureCurrentSeason
<1> DEFINE j == [job[q] EXCEPT !.at = "in season", !.season = s]
<1>3. j \in Publication /\ j.at = "in season" /\ j.season = s /\ j.len = job[q].len
  BY <1>1 DEF Publication, Stages
<1>4. job' = [job EXCEPT ![q] = j]
  BY <1>2 DEF SeasonsInv, SeasonTypes
<1> HIDE DEF j
<1>5. job'[q] = j /\ \A p \in Author \ {q} : job'[p] = job[p]
  BY <1>4 DEF SeasonsInv, SeasonTypes
<1>6. SeasonTypes'
  BY <1>1, <1>2, <1>3, <1>4 DEF SeasonsInv, SeasonTypes
<1>7. ASSUME NEW p \in Author PROVE JobOK(p)'
  <2>1. CASE p = q
    BY <2>1, <1>1, <1>2, <1>3, <1>5 DEF SeasonsInv, JobOK
  <2>2. CASE p # q
    BY <2>2, <1>1, <1>2, <1>5 DEF SeasonsInv, JobOK, ChallengeKind
  <2> QED
    BY <2>1, <2>2
<1>8. ASSUME NEW i \in DOMAIN challenges PROVE RowOK(i)'
  <2>1. \A p \in Author : Storing(p, i) => Storing(p, i)'
    BY <1>1, <1>5 DEF Storing, StoresIdeal
  <2> QED
    BY <2>1, <1>1, <1>2 DEF SeasonsInv, RowOK
<1> QED
  BY <1>1, <1>2, <1>6, <1>7, <1>8 DEF SeasonsInv

LEMMA UpsertRowStep == ASSUME SeasonsInv, NEW q \in Author, UpsertRow(q) PROVE SeasonsInv'
<1> DEFINE old == {i \in Rows(ChallengeKind(q)) : challenges[i].pair = job[q].pair}
           row == [pair |-> job[q].pair, kind |-> ChallengeKind(q), season |-> job[q].season,
                   created |-> wallClock, ideal |-> Null]
           n == Len(challenges)
<1>1. /\ job[q] \in Publication /\ job[q].at = "in season"
      /\ wallClock \in Nat /\ challenges \in Seq(ChallengeRow)
      /\ job[q].season \in DOMAIN seasons
      /\ UNCHANGED <<wallClock, seasons, orphans>>
  BY JobTypes DEF SeasonsInv, SeasonTypes, UpsertRow, JobOK
<1>2. row \in ChallengeRow
  BY <1>1 DEF Publication, ChallengeRow, ChallengeKind, OptLength
<1>3. /\ row.kind = ChallengeKind(q) /\ row.season = job[q].season /\ row.ideal = Null
  OBVIOUS
<1>4. old \subseteq DOMAIN challenges /\ \A i \in old : challenges[i].kind = ChallengeKind(q)
  BY DEF Rows
<1>5. n \in Nat /\ DOMAIN challenges = 1..n
  BY <1>1, LenProperties
<1>6. PICK k \in Nat, made \in BOOLEAN :
        /\ challenges' \in Seq(ChallengeRow)
        /\ DOMAIN challenges \subseteq DOMAIN challenges'
        /\ \A i \in DOMAIN challenges : challenges'[i] = challenges[i]
        /\ k \in DOMAIN challenges' /\ challenges'[k].kind = ChallengeKind(q)
        /\ \A i \in DOMAIN challenges' : i \in DOMAIN challenges \/ (i = k /\ challenges'[i] = row)
        /\ job' = [job EXCEPT ![q].at = "stored", ![q].row = k, ![q].created = made,
                              ![q].told = challenges'[k].ideal]
  <2>1. CASE old = {}
    <3>1. /\ challenges' = Append(challenges, row)
          /\ job' = [job EXCEPT ![q].at = "stored", ![q].row = Len(challenges'), ![q].created = TRUE,
                                ![q].told = challenges'[Len(challenges')].ideal]
      BY <2>1 DEF UpsertRow
    <3> HIDE DEF row
    <3>2. /\ challenges' \in Seq(ChallengeRow) /\ Len(challenges') = n + 1
          /\ DOMAIN challenges' = 1..(n + 1) /\ challenges'[n + 1] = row
          /\ \A i \in 1..n : challenges'[i] = challenges[i]
      <4>1. challenges \in Seq(ChallengeRow)
        BY <1>1
      <4>2. challenges' = Append(challenges, row)
        BY <3>1
      <4> QED
        BY <4>1, <4>2, <1>2, Appended
    <3> HIDE DEF n, old
    <3>3. \A i \in 1..(n + 1) : i = n + 1 \/ i \in 1..n
      BY <1>5
    <3>4. n + 1 \in Nat /\ n + 1 \in 1..(n + 1) /\ 1..n \subseteq 1..(n + 1)
      BY <1>5
    <3> QED
      <4> DEFINE k == n + 1
      <4>1. /\ k \in Nat /\ k \in DOMAIN challenges' /\ challenges'[k] = row
            /\ DOMAIN challenges \subseteq DOMAIN challenges'
            /\ \A i \in DOMAIN challenges' : i \in DOMAIN challenges \/ i = k
            /\ job' = [job EXCEPT ![q].at = "stored", ![q].row = k, ![q].created = TRUE,
                                  ![q].told = challenges'[k].ideal]
        BY <1>5, <3>1, <3>2, <3>3, <3>4
      <4> HIDE DEF k
      <4> QED
        BY <1>3, <1>5, <3>2, <4>1
  <2>2. CASE old # {}
    <3> DEFINE k == CHOOSE i \in old : TRUE
    <3>1. /\ challenges' = challenges
          /\ job' = [job EXCEPT ![q].at = "stored", ![q].row = k, ![q].created = FALSE,
                                ![q].told = challenges'[k].ideal]
      BY <2>2 DEF UpsertRow
    <3>2. k \in old
      BY <2>2
    <3> HIDE DEF k
    <3>3. k \in Nat
      BY <1>4, <1>5, <3>2
    <3> QED
      BY <1>1, <1>4, <3>1, <3>2, <3>3
  <2> QED
    BY <2>1, <2>2
<1> HIDE DEF old, row, n
<1>a. challenges'[k].ideal \in OptLength
  <2>1. challenges'[k] \in ChallengeRow
    BY <1>6, ElementOfSeq, LenProperties
  <2> QED
    BY <2>1 DEF ChallengeRow
<1> DEFINE kept == challenges'[k].ideal
           j == [job[q] EXCEPT !.at = "stored", !.row = k, !.created = made, !.told = kept]
<1>b. kept \in OptLength
  BY <1>a
<1>c. job' = [job EXCEPT ![q] = j]
  BY <1>6 DEF SeasonsInv, SeasonTypes
<1>d. kept = challenges'[k].ideal
  OBVIOUS
<1> HIDE DEF kept
<1>7. /\ j \in Publication /\ j.at = "stored" /\ j.len = job[q].len /\ j.row = k /\ j.told = kept
  BY <1>1, <1>6, <1>b DEF Publication, Stages
<1> HIDE DEF j
<1>8. job'[q] = j /\ \A p \in Author \ {q} : job'[p] = job[p]
  BY <1>c DEF SeasonsInv, SeasonTypes
<1>9. SeasonTypes' /\ SeasonsApart'
  <2>1. job' \in [Author -> Publication]
    BY <1>7, <1>c DEF SeasonsInv, SeasonTypes
  <2>2. SeasonsApart'
    BY <1>1 DEF SeasonsInv, SeasonsApart, Multiple
  <2>3. challenges' \in Seq(ChallengeRow)
    BY <1>6
  <2> QED
    BY <2>1, <2>2, <2>3, <1>1 DEF SeasonsInv, SeasonTypes
<1>10. ASSUME NEW p \in Author PROVE JobOK(p)'
  <2>1. CASE p = q
    <3>1. KindOf[q] # "player" => job[q].len # Null
      BY <1>1 DEF SeasonsInv, JobOK
    <3>2. k \in DOMAIN challenges' /\ challenges'[k].kind = ChallengeKind(q)
      BY <1>6
    <3>3. ChallengeKind(q)' = ChallengeKind(q)
      BY DEF ChallengeKind
    <3> QED
      BY <2>1, <3>1, <3>2, <3>3, <1>7, <1>8, <1>d DEF JobOK
  <2>2. CASE p # q
    BY <2>2, <1>1, <1>6, <1>8, ZenonT(40) DEF SeasonsInv, JobOK, ChallengeKind
  <2> QED
    BY <2>1, <2>2
<1>11. ASSUME NEW i \in DOMAIN challenges' PROVE RowOK(i)'
  <2>1. CASE i \in DOMAIN challenges
    <3>1. \A p \in Author : Storing(p, i) => Storing(p, i)'
      BY <1>1, <1>8 DEF Storing, StoresIdeal
    <3> QED
      BY <2>1, <3>1, <1>1, <1>6 DEF SeasonsInv, RowOK
  <2>2. CASE i = k /\ challenges'[i] = row
    <3>1. row.kind = "daily" => Storing(q, k)'
      <4> SUFFICES ASSUME row.kind = "daily" PROVE Storing(q, k)'
        OBVIOUS
      <4>1. KindOf[q] # "player"
        BY <1>3 DEF ChallengeKind
      <4>2. job[q].len # Null
        BY <4>1, <1>1 DEF SeasonsInv, JobOK
      <4> QED
        BY <4>2, <1>3, <1>7, <1>8, <1>d, <2>2 DEF Storing, StoresIdeal
    <3> QED
      BY <2>2, <3>1, <1>1, <1>3 DEF RowOK
  <2> QED
    BY <2>1, <2>2, <1>6
<1> QED
  BY <1>9, <1>10, <1>11 DEF SeasonsInv

LEMMA SetIdealOfStep == ASSUME SeasonsInv, NEW q \in Author, SetIdealOf(q) PROVE SeasonsInv'
<1> DEFINE i == job[q].row
           sets == StoresIdeal(q) /\ challenges[i].ideal = Null
<1>1. /\ job[q] \in Publication /\ job[q].at = "stored"
      /\ i \in DOMAIN challenges /\ challenges[i].kind = ChallengeKind(q)
      /\ job[q].told # Null => challenges[i].ideal # Null
      /\ KindOf[q] # "player" => job[q].len # Null
      /\ challenges \in Seq(ChallengeRow)
      /\ UNCHANGED <<wallClock, seasons>>
  BY JobTypes DEF SeasonsInv, SeasonTypes, JobOK, SetIdealOf
<1>2. /\ challenges' \in Seq(ChallengeRow)
      /\ DOMAIN challenges' = DOMAIN challenges
      /\ \A k \in DOMAIN challenges :
           /\ challenges'[k].kind = challenges[k].kind /\ challenges'[k].season = challenges[k].season
           /\ challenges[k].ideal # Null => challenges'[k].ideal # Null
      /\ job[q].len # Null => challenges'[i].ideal # Null
  <2>1. challenges \in [1..Len(challenges) -> ChallengeRow] /\ DOMAIN challenges = 1..Len(challenges)
    BY <1>1, LenProperties
  <2>2. CASE sets
    <3> DEFINE r == [challenges[i] EXCEPT !.ideal = job[q].len]
    <3>1. challenges' = [challenges EXCEPT ![i] = r]
      BY <1>1, <2>1, <2>2 DEF SetIdealOf
    <3>2. job[q].len \in OptLength /\ job[q].len # Null
      BY <1>1, <2>2 DEF Publication, StoresIdeal
    <3>3. challenges[i] \in ChallengeRow
      BY <1>1, <2>1
    <3>4. /\ r \in ChallengeRow /\ r.kind = challenges[i].kind /\ r.season = challenges[i].season
          /\ r.ideal # Null
      BY <3>2, <3>3 DEF ChallengeRow
    <3> HIDE DEF r, i
    <3>5. challenges' \in Seq(ChallengeRow)
      BY <1>1, <3>1, <3>4, ExceptSeq
    <3> QED
      BY <1>1, <2>1, <3>1, <3>4, <3>5
  <2>3. CASE ~ sets
    <3>1. challenges' = challenges
      BY <2>3 DEF SetIdealOf
    <3>2. job[q].len # Null => challenges[i].ideal # Null
      BY <1>1, <2>3 DEF StoresIdeal
    <3> QED
      BY <1>1, <3>1, <3>2
  <2> QED
    BY <2>2, <2>3
<1>3. PICK told \in OptLength : job' = [job EXCEPT ![q].at = "published", ![q].told = told]
  BY <1>1 DEF SetIdealOf, Publication
<1>4. orphans' = IF job[q].len # Null THEN orphans \ {i} ELSE orphans
  BY DEF SetIdealOf
<1> DEFINE j == [job[q] EXCEPT !.at = "published", !.told = told]
<1>5. j \in Publication /\ j.at = "published"
  BY <1>1, <1>3 DEF Publication, Stages
<1>6. job' = [job EXCEPT ![q] = j]
  BY <1>3 DEF SeasonsInv, SeasonTypes
<1> HIDE DEF j, sets
<1>7. job'[q] = j /\ \A p \in Author \ {q} : job'[p] = job[p]
  BY <1>6 DEF SeasonsInv, SeasonTypes
<1>8. SeasonTypes' /\ SeasonsApart'
  <2>1. job' \in [Author -> Publication]
    BY <1>5, <1>6 DEF SeasonsInv, SeasonTypes
  <2>2. SeasonsApart'
    BY <1>1 DEF SeasonsInv, SeasonsApart, Multiple
  <2> QED
    BY <2>1, <2>2, <1>1, <1>2 DEF SeasonsInv, SeasonTypes
<1>9. ASSUME NEW p \in Author PROVE JobOK(p)'
  <2>1. CASE p = q
    BY <2>1, <1>5, <1>7 DEF JobOK
  <2>2. CASE p # q
    <3>1. JobOK(p) /\ job'[p] = job[p] /\ seasons' = seasons
      BY <2>2, <1>1, <1>7 DEF SeasonsInv
    <3> DEFINE r == job[p].row
    <3>2. r \in DOMAIN challenges =>
            /\ r \in DOMAIN challenges' /\ challenges'[r].kind = challenges[r].kind
            /\ challenges[r].ideal # Null => challenges'[r].ideal # Null
      BY <1>2
    <3> QED
      BY <3>1, <3>2 DEF JobOK, ChallengeKind
  <2> QED
    BY <2>1, <2>2
<1>10. ASSUME NEW k \in DOMAIN challenges PROVE RowOK(k)'
  <2>1. \A p \in Author \ {q} : Storing(p, k) => Storing(p, k)'
    BY <1>1, <1>7 DEF Storing, StoresIdeal
  <2>2. CASE k # i
    <3>1. ~ Storing(q, k)
      BY <2>2 DEF Storing
    <3>2. k \in orphans => k \in orphans'
      BY <2>2, <1>4
    <3> QED
      BY <2>1, <3>1, <3>2, <1>1, <1>2 DEF SeasonsInv, RowOK
  <2>3. CASE k = i
    <3>1. challenges[i].kind = "daily" => job[q].len # Null
      BY <1>1 DEF ChallengeKind
    <3>2. challenges[k].season \in DOMAIN seasons
      BY DEF SeasonsInv, RowOK
    <3> QED
      BY <2>3, <3>1, <3>2, <1>1, <1>2 DEF RowOK
  <2> QED
    BY <2>2, <2>3
<1> QED
  BY <1>2, <1>8, <1>9, <1>10 DEF SeasonsInv

(* A publisher that fails leaves an orphan, or a row another one completes *)
(* or has completed.                                                       *)
LEMMA QueryThrowsStep == ASSUME SeasonsInv, NEW q \in Author, QueryThrows(q) PROVE SeasonsInv'
<1> DEFINE j == Resting(job[q].runs, IF KindOf[q] = "task" THEN "dead" ELSE "idle")
<1>1. j \in Publication /\ j.at \notin {"dated", "in season", "stored"}
  <2>1. (IF KindOf[q] = "task" THEN "dead" ELSE "idle") \in {"dead", "idle"}
    OBVIOUS
  <2> QED
    BY <2>1, JobTypes DEF Stages
<1>2. job' = [job EXCEPT ![q] = j] /\ UNCHANGED <<wallClock, seasons, challenges>>
  BY DEF QueryThrows, SeasonsInv, SeasonTypes
<1> HIDE DEF j
<1>3. job'[q] = j /\ \A p \in Author \ {q} : job'[p] = job[p]
  BY <1>2 DEF SeasonsInv, SeasonTypes
<1>4. SeasonTypes' /\ SeasonsApart'
  BY <1>1, <1>2 DEF SeasonsInv, SeasonTypes, SeasonsApart, Multiple
<1>5. ASSUME NEW p \in Author PROVE JobOK(p)'
  <2>1. CASE p = q
    BY <2>1, <1>1, <1>3 DEF JobOK
  <2>2. CASE p # q
    BY <2>2, <1>2, <1>3 DEF SeasonsInv, JobOK, ChallengeKind
  <2> QED
    BY <2>1, <2>2
<1>6. ASSUME NEW k \in DOMAIN challenges PROVE RowOK(k)'
  <2>1. \A p \in Author \ {q} : Storing(p, k) => Storing(p, k)'
    BY <1>2, <1>3 DEF Storing, StoresIdeal
  <2>2. orphans \subseteq orphans'
    BY DEF QueryThrows
  <2>3. Storing(q, k) => challenges[k].ideal # Null \/ k \in orphans'
    BY DEF Storing, QueryThrows
  <2> QED
    BY <2>1, <2>2, <2>3, <1>2 DEF SeasonsInv, RowOK
<1> QED
  BY <1>2, <1>4, <1>5, <1>6 DEF SeasonsInv

LEMMA SeasonsTickStep == SeasonsInv /\ (SeasonsTick \/ UNCHANGED seasonVars) => SeasonsInv'
<1> SUFFICES ASSUME SeasonsInv, SeasonsTick \/ UNCHANGED seasonVars PROVE SeasonsInv'
  OBVIOUS
<1>1. wallClock' \in Nat /\ UNCHANGED <<seasons, challenges, job, orphans>>
  BY DEF SeasonsTick, seasonVars, SeasonsInv, SeasonTypes
<1>2. SeasonTypes' /\ SeasonsApart'
  BY <1>1 DEF SeasonsInv, SeasonTypes, SeasonsApart, Multiple
<1>3. \A q \in Author : JobOK(q)'
  BY <1>1 DEF SeasonsInv, JobOK, ChallengeKind
<1>4. \A i \in DOMAIN challenges : RowOK(i)'
  BY <1>1 DEF SeasonsInv, RowOK, Storing, StoresIdeal
<1> QED
  BY <1>1, <1>2, <1>3, <1>4 DEF SeasonsInv

LEMMA SeasonsSteps == SeasonsInv /\ [SeasonsNext]_seasonVars => SeasonsInv'
<1> SUFFICES ASSUME SeasonsInv, [SeasonsNext]_seasonVars PROVE SeasonsInv'
  OBVIOUS
<1>1. CASE SeasonsTick \/ UNCHANGED seasonVars
  BY <1>1, SeasonsTickStep
<1>2. ASSUME NEW q \in Author, PublishStep(q) PROVE SeasonsInv'
  BY <1>2, BeginToPublishStep, EnsureStep, UpsertRowStep, SetIdealOfStep, ConcludeStep,
     QueryThrowsStep, RestartStep, LookStep DEF PublishStep
<1> QED
  BY <1>1, <1>2 DEF SeasonsNext

(* What is shown as today's challenge can be played, or its publisher is   *)
(* about to complete it or failed, for any number of publishers of any     *)
(* kind, and the season it belongs to is the only one of its time.         *)
THEOREM DailyIsPlayableHolds == SeasonsConstantsOK /\ SeasonsSpec => []DailyIsPlayable
<1>1. SeasonsInv => DailyIsPlayable
  <2> SUFFICES ASSUME SeasonsInv, NEW i \in LatestDaily
               PROVE  /\ \/ challenges[i].ideal # Null
                         \/ i \in orphans
                         \/ \E q \in Author : Storing(q, i)
                      /\ LET s == challenges[i].season IN Covering(seasons[s]) = {s}
    BY DEF DailyIsPlayable, Storing
  <2>1. i \in DOMAIN challenges /\ challenges[i].kind = "daily"
    BY DEF LatestDaily, Rows
  <2> QED
    BY <2>1, CoversItself DEF SeasonsInv, RowOK
<1> QED
  BY <1>1, SeasonsBegin, SeasonsSteps, PTL DEF SeasonsSpec

(* Rows never leave, and what failed is a row.                             *)
OrphansAreRows == orphans \subseteq DOMAIN challenges

LEMMA OrphansStayRows == SeasonsInv /\ OrphansAreRows /\ [SeasonsNext]_seasonVars => OrphansAreRows'
<1> SUFFICES ASSUME SeasonsInv, OrphansAreRows, [SeasonsNext]_seasonVars PROVE OrphansAreRows'
  OBVIOUS
<1>1. challenges \in Seq(ChallengeRow)
  BY DEF SeasonsInv, SeasonTypes
<1>2. ASSUME UNCHANGED challenges, orphans' \subseteq orphans \cup DOMAIN challenges
      PROVE  OrphansAreRows'
  BY <1>2 DEF OrphansAreRows
<1>3. ASSUME NEW q \in Author, UpsertRow(q) PROVE OrphansAreRows'
  <2>1. PICK row : challenges' = challenges \/ challenges' = Append(challenges, row)
    BY <1>3 DEF UpsertRow
  <2>2. DOMAIN challenges \subseteq DOMAIN challenges'
    BY <1>1, <2>1
  <2> QED
    BY <1>3, <2>2 DEF UpsertRow, OrphansAreRows
<1>4. ASSUME NEW q \in Author, SetIdealOf(q) PROVE OrphansAreRows'
  <2>1. DOMAIN challenges' = DOMAIN challenges /\ orphans' \subseteq orphans
    BY <1>4 DEF SetIdealOf
  <2> QED
    BY <2>1 DEF OrphansAreRows
<1>5. ASSUME NEW q \in Author, QueryThrows(q) PROVE OrphansAreRows'
  <2>1. job[q].at = "stored" => job[q].row \in DOMAIN challenges
    BY DEF SeasonsInv, JobOK
  <2> QED
    BY <1>2, <1>5, <2>1 DEF QueryThrows
<1>6. ASSUME NEW q \in Author,
             \/ BeginToPublish(q) \/ EnsureCurrentSeason(q) \/ Conclude(q) \/ Restart(q)
             \/ \E pair \in Pair, len \in PathLengths : Look(q, pair, len)
      PROVE  OrphansAreRows'
  BY <1>2, <1>6 DEF BeginToPublish, EnsureCurrentSeason, Conclude, Restart, Look
<1>7. CASE SeasonsTick \/ UNCHANGED seasonVars
  BY <1>2, <1>7 DEF SeasonsTick, seasonVars
<1> QED
  BY <1>3, <1>4, <1>5, <1>6, <1>7 DEF SeasonsNext, PublishStep

(* Types of the publishers' tables: a challenge belongs to a season that   *)
(* exists, its ideal is the length of a path, and what failed is a row.    *)
THEOREM SeasonsTypeCorrect == SeasonsConstantsOK /\ SeasonsSpec => []SeasonsTypeOK
<1>1. SeasonsConstantsOK /\ SeasonsInit => OrphansAreRows
  BY DEF SeasonsInit, OrphansAreRows
<1>2. SeasonsInv /\ OrphansAreRows => SeasonsTypeOK
  <2> SUFFICES ASSUME SeasonsInv, OrphansAreRows PROVE SeasonsTypeOK
    OBVIOUS
  <2>1. ASSUME NEW i \in DOMAIN challenges
        PROVE  /\ challenges[i].season \in DOMAIN seasons
               /\ challenges[i].ideal \in PathLengths \cup {Null}
    <3>1. challenges[i] \in ChallengeRow
      BY DEF SeasonsInv, SeasonTypes
    <3> QED
      BY <3>1 DEF SeasonsInv, RowOK, ChallengeRow, OptLength
  <2> QED
    BY <2>1 DEF SeasonsInv, SeasonTypes, OrphansAreRows, SeasonsTypeOK
<1> QED
  BY <1>1, <1>2, SeasonsBegin, SeasonsSteps, OrphansStayRows, PTL DEF SeasonsSpec

-----------------------------------------------------------------------------
(* GameBoards: pages of rows *)

(***************************************************************************)
(* Rows are ordered by score and id, and as ids differ, strictly.          *)
(***************************************************************************)
LEMMA RowsAreOrdered ==
  ASSUME NEW rows \in SUBSET ARow, \A x, y \in rows : x.id = y.id => x = y
  PROVE  /\ \A x \in rows : x.score \in Int /\ x.id \in Int /\ ~Below(x, x)
         /\ \A x, y \in rows : x = y \/ Below(x, y) \/ Below(y, x)
         /\ \A x, y \in rows : Below(x, y) => ~Below(y, x)
         /\ \A x, y, z \in rows : Below(x, y) /\ Below(y, z) => Below(x, z)
<1>1. \A x \in rows : x.score \in Int /\ x.id \in Int
  <2>1. Score \subseteq Int /\ 1..MaxRows \subseteq Int
    BY BoardsAssumption DEF BoardsAssumption
  <2>2. \A x \in rows : x.score \in Score /\ x.id \in 1..MaxRows
    BY DEF ARow
  <2> QED
    BY <2>1, <2>2
<1>2. \A x, y \in rows : x = y \/ Below(x, y) \/ Below(y, x)
  BY <1>1 DEF Below
<1> QED
  BY <1>1, <1>2, SMTT(30) DEF Below

(***************************************************************************)
(* A page holds the Limit highest rows: it ends at a row above which its   *)
(* other rows are, or it holds all.                                        *)
(***************************************************************************)
LEMMA PageEnds ==
  ASSUME NEW rest \in SUBSET ARow, IsFiniteSet(rest), \A x, y \in rest : x.id = y.id => x = y
  PROVE  LET page == PageOf(rest) IN
         /\ page # rest \/ Cardinality(page) = Limit =>
              \E l \in page : \A b \in rest : b \in page <=> b = l \/ Below(l, b)
         /\ page # rest => Cardinality(page) = Limit
<1> DEFINE Above(a) == {b \in rest : Below(a, b)}
           page == PageOf(rest)
           n == Cardinality(rest)
           rank == [a \in rest |-> Cardinality(Above(a))]
<1>1. /\ \A x \in rest : ~Below(x, x)
      /\ \A x, y \in rest : x = y \/ Below(x, y) \/ Below(y, x)
      /\ \A x, y \in rest : Below(x, y) => ~Below(y, x)
      /\ \A x, y, z \in rest : Below(x, y) /\ Below(y, z) => Below(x, z)
  BY RowsAreOrdered
<1>2. n \in Nat /\ Limit \in Nat \ {0}
  BY FS_CardinalityType, BoardsAssumption DEF BoardsAssumption
<1>3. ASSUME NEW a \in rest
      PROVE  /\ IsFiniteSet(Above(a)) /\ rank[a] \in 0..(n - 1)
  <2>1. Above(a) \in SUBSET rest /\ a \notin Above(a)
    BY <1>1
  <2>2. IsFiniteSet(Above(a)) /\ Cardinality(Above(a)) <= n /\ Cardinality(Above(a)) # n
    BY <2>1, FS_Subset
  <2>3. Cardinality(Above(a)) \in Nat
    BY <2>2, FS_CardinalityType
  <2> QED
    BY <1>2, <2>2, <2>3
<1>4. ASSUME NEW a \in rest, NEW b \in rest, Below(a, b)
      PROVE  rank[b] < rank[a]
  <2>1. Above(b) \in SUBSET Above(a) /\ b \in Above(a) /\ b \notin Above(b)
    BY <1>1, <1>4
  <2>2. /\ Cardinality(Above(b)) <= Cardinality(Above(a))
        /\ Cardinality(Above(b)) # Cardinality(Above(a))
    BY <1>3, <2>1, FS_Subset
  <2>3. Cardinality(Above(a)) \in Nat /\ Cardinality(Above(b)) \in Nat
    BY <1>3, FS_CardinalityType
  <2> QED
    BY <2>2, <2>3
<1>5. \A a \in rest : a \in page <=> rank[a] < Limit
  BY DEF PageOf
<1> HIDE DEF Above, page, rank
<1>6. rank \in [rest -> 0..(n - 1)]
  BY <1>3 DEF rank
<1>7. ASSUME NEW a \in rest, NEW b \in rest, rank[a] = rank[b] PROVE a = b
  <2>1. ~Below(a, b) /\ ~Below(b, a)
    BY <1>2, <1>4, <1>6, <1>7
  <2> QED
    BY <1>1, <2>1
<1>8. \A k \in 0..(n - 1) : \E a \in rest : rank[a] = k
  <2>1. rank \in Injection(rest, 0..(n - 1))
    BY <1>6, <1>7 DEF Injection, IsInjective
  <2>2. IsFiniteSet(0..(n - 1)) /\ Cardinality(0..(n - 1)) = n
    BY <1>2, FS_Interval
  <2>3. rank \in Surjection(rest, 0..(n - 1))
    BY <2>1, <2>2, FS_Injection
  <2> QED
    BY <2>3 DEF Surjection
<1>9. page \subseteq rest
  BY DEF page, PageOf
<1>10. page # rest => n > Limit
  <2> SUFFICES ASSUME NEW a \in rest, a \notin page PROVE n > Limit
    BY <1>9
  <2>1. rank[a] \in 0..(n - 1) /\ ~(rank[a] < Limit)
    BY <1>5, <1>6
  <2> QED
    BY <1>2, <2>1
<1>11. ASSUME n >= Limit
       PROVE  \E l \in page : \A b \in rest : b \in page <=> b = l \/ Below(l, b)
  <2>1. PICK l \in rest : rank[l] = Limit - 1
    BY <1>2, <1>8, <1>11
  <2>2. l \in page
    BY <1>2, <1>5, <2>1
  <2>3. ASSUME NEW b \in rest PROVE b \in page <=> b = l \/ Below(l, b)
    <3>1. CASE b = l
      BY <2>2, <3>1
    <3>2. CASE Below(l, b)
      <4>1. rank[b] < Limit
        BY <1>2, <1>4, <1>6, <2>1, <3>2
      <4> QED
        BY <1>5, <3>2, <4>1
    <3>3. CASE b # l /\ Below(b, l)
      <4>1. ~(rank[b] < Limit)
        BY <1>2, <1>4, <1>6, <2>1, <3>3
      <4> QED
        BY <1>1, <1>5, <3>3, <4>1
    <3> QED
      BY <1>1, <3>1, <3>2, <3>3
  <2> QED
    BY <2>2, <2>3
<1>12. page # rest => Cardinality(page) = Limit
  <2> SUFFICES ASSUME page # rest PROVE Cardinality(page) = Limit
    OBVIOUS
  <2> DEFINE inPage == [a \in page |-> rank[a]]
  <2>1. inPage \in [page -> 0..(Limit - 1)]
    <3> SUFFICES ASSUME NEW a \in page PROVE rank[a] \in 0..(Limit - 1)
      OBVIOUS
    <3>1. a \in rest
      BY <1>9
    <3>2. rank[a] < Limit /\ rank[a] \in 0..(n - 1)
      BY <1>5, <1>6, <3>1
    <3> QED
      BY <1>2, <3>2
  <2>2. \A a, b \in page : inPage[a] = inPage[b] => a = b
    BY <1>7, <1>9
  <2>3. \A k \in 0..(Limit - 1) : \E a \in page : inPage[a] = k
    <3> SUFFICES ASSUME NEW k \in 0..(Limit - 1) PROVE \E a \in page : rank[a] = k
      OBVIOUS
    <3>1. k \in 0..(n - 1) /\ k < Limit
      BY <1>2, <1>10
    <3>2. PICK a \in rest : rank[a] = k
      BY <1>8, <3>1
    <3> QED
      BY <1>5, <3>1, <3>2
  <2> HIDE DEF inPage
  <2>4. inPage \in Injection(page, 0..(Limit - 1)) /\ inPage \in Surjection(page, 0..(Limit - 1))
    BY <2>1, <2>2, <2>3 DEF Injection, Surjection, IsInjective, inPage
  <2>5. IsFiniteSet(0..(Limit - 1)) /\ Cardinality(0..(Limit - 1)) = Limit
    BY <1>2, FS_Interval
  <2> QED
    BY <2>4, <2>5, FS_Injection
<1>13. page # rest \/ Cardinality(page) = Limit => n >= Limit
  <2>1. page = rest /\ Cardinality(page) = Limit => n = Limit
    BY DEF n
  <2> QED
    BY <1>2, <1>10, <2>1
<1> QED
  BY <1>11, <1>12, <1>13 DEF page

-----------------------------------------------------------------------------
(* What readers have seen of a board *)

FirstPageOf(b, got, rows) == \E view \in Views(b, rows) : got = LeaderboardPage(view, NoCursor)

Ahead(x, cursor) == \A c \in cursor : Below(x, c)

Steady(o, x, asOf) == \A rows \in asOf : Best(rows, o) = {x}

ACursor == [score : Score, id : 1..MaxRows]

(***************************************************************************)
(* What a reader has counted on pages made of the rows asOf: a row that    *)
(* was in its place in all of them has been shown once if it is not ahead  *)
(* of the cursor.                                                          *)
(***************************************************************************)
Counts(times, asOf, cursor) ==
  \A o \in Owner, x \in ARow : Steady(o, x, asOf) =>
    times[o] = IF Ahead(x, cursor) THEN 0 ELSE 1

CountsAll(times, asOf) == \A o \in Owner, x \in ARow : Steady(o, x, asOf) => times[o] = 1

Seen(t) ==
  /\ t.at = "paging" => (\E c \in ACursor : t.cursor = {c}) /\ Counts(t.times, t.asOf, t.cursor)
  /\ t.at = "done" => CountsAll(t.times, t.asOf)

IsFirstPage(b, got, asOf) ==
  \E rows : AreRows(b, rows) /\ asOf = {rows} /\ FirstPageOf(b, got, rows)

(***************************************************************************)
(* How far one reader is.                                                  *)
(***************************************************************************)
ReaderOK(b, patient, t) ==
  /\ t.at = "read" => IsFirstPage(b, t.got, t.asOf)
  /\ t.at \in {"idle", "read"} => t.cursor = NoCursor /\ t.times = [o \in Owner |-> 0]
  /\ patient => t.at # "left" /\ Seen(t)
  /\ ~patient => t.at \notin {"paging", "done"}

ShelfOK(b, s) == s.until > 0 => IsFirstPage(b, s.got, s.asOf)

BoardsInv ==
  /\ BoardsTypeOK
  /\ ShelfOK(board, shelf)
  /\ \A r \in Reader : ReaderOK(board, r \in Patient, reader[r])

LEMMA LastIs ==
  ASSUME NEW rest \in SUBSET ARow, \A x, y \in rest : x.id = y.id => x = y,
         NEW page \in SUBSET rest, NEW l \in page, \A b \in page : b = l \/ Below(l, b)
  PROVE  Last(page) = l
<1>1. /\ \A x \in rest : ~Below(x, x)
      /\ \A x, y \in rest : Below(x, y) => ~Below(y, x)
  BY RowsAreOrdered
<1>2. \A b \in page \ {l} : Below(l, b)
  OBVIOUS
<1>3. ASSUME NEW a \in page, \A b \in page \ {a} : Below(a, b) PROVE a = l
  BY <1>1, <1>2, <1>3
<1>4. /\ Last(page) \in page
      /\ \A b \in page \ {Last(page)} : Below(Last(page), b)
  BY <1>2, Zenon DEF Last
<1> QED
  BY <1>3, <1>4

(***************************************************************************)
(* What a query finds of an owner with one best row is that row.           *)
(***************************************************************************)
LEMMA ViewIs ==
  ASSUME NEW b \in Boards, NEW rows, AreRows(b, rows), NEW view \in Views(b, rows)
  PROVE  /\ view \subseteq rows
         /\ \A o \in Owner, x \in rows : Best(rows, o) = {x} =>
              x \in view /\ \A a \in view : a.owner = o => a = x
<1>1. CASE b = "challenge"
  <2>1. /\ view \subseteq UNION {Best(rows, o) : o \in Owner}
        /\ \A o \in Owner : Best(rows, o) # {} => Cardinality(view \cap Best(rows, o)) = 1
    <3>1. view \in BestAttempts(rows)
      BY <1>1 DEF Views
    <3>2. /\ view \in SUBSET UNION {Best(rows, o) : o \in Owner}
          /\ \A o \in Owner :
               Cardinality(view \cap Best(rows, o)) = IF Best(rows, o) = {} THEN 0 ELSE 1
      BY <3>1, Zenon DEF BestAttempts
    <3> QED
      BY <3>2, Zenon
  <2>2. \A o \in Owner : \A a \in Best(rows, o) : a \in rows /\ a.owner = o
    BY DEF Best
  <2>3. \A a \in view : \E p \in Owner : a \in Best(rows, p)
    BY <2>1
  <2>4. view \subseteq rows /\ \A a \in view, o \in Owner : a.owner = o => a \in Best(rows, o)
    BY <2>2, <2>3
  <2>5. ASSUME NEW o \in Owner, NEW x \in rows, Best(rows, o) = {x}
        PROVE  x \in view /\ \A a \in view : a.owner = o => a = x
    <3>1. Cardinality(view \cap {x}) = 1
      BY <2>1, <2>5
    <3>2. view \cap {x} # {}
      BY <3>1, FS_EmptySet
    <3> QED
      BY <2>4, <2>5, <3>2
  <2> QED
    BY <2>4, <2>5
<1>2. CASE b # "challenge"
  <2>1. view = {a \in rows : a.listed}
    <3>1. b \in {"season", "list"}
      BY <1>2, BoardsAssumption DEF BoardsAssumption
    <3> QED
      BY <3>1 DEF Views, SeasonEloBoard, ListChallenges
  <2>2. \A a, c \in rows : a.owner = c.owner => a = c
    BY <1>2 DEF AreRows
  <2>3. \A o \in Owner : \A x \in Best(rows, o) : x.owner = o /\ x.listed
    BY DEF Best
  <2> QED
    BY <2>1, <2>2, <2>3
<1> QED
  BY <1>1, <1>2

(***************************************************************************)
(* A page of either kind that follows a cursor shows what is ahead of it   *)
(* and, if there is more, not ahead of its own last row.                   *)
(***************************************************************************)
LEMMA PageShows ==
  ASSUME NEW b \in Boards, NEW rows, AreRows(b, rows), NEW view \in Views(b, rows),
         NEW cursor, cursor = {} \/ \E c \in ACursor : cursor = {c},
         NEW got, got = LeaderboardPage(view, cursor) \/ got = ChallengesPage(view, cursor)
  PROVE  /\ got \in APage /\ IsFiniteSet(got.page) /\ got.page \subseteq rows
         /\ got.more => Last(got.page) \in got.page
         /\ \A o \in Owner, x \in rows : Best(rows, o) = {x} =>
              /\ {a \in got.page : a.owner = o} = IF x \in got.page THEN {x} ELSE {}
              /\ got.more => /\ x \in got.page <=> Ahead(x, cursor) /\ ~Below(x, Last(got.page))
                             /\ Below(x, Last(got.page)) => Ahead(x, cursor)
              /\ ~got.more => (x \in got.page <=> Ahead(x, cursor))
<1> DEFINE rest == {a \in view : Ahead(a, cursor)}
           page == PageOf(rest)
           l == Last(page)
<1>1. /\ view \subseteq rows
      /\ \A o \in Owner, x \in rows : Best(rows, o) = {x} =>
           x \in view /\ \A a \in view : a.owner = o => a = x
  BY ViewIs
<1>2. /\ rows \subseteq ARow /\ IsFiniteSet(rows)
      /\ \A x, y \in rows : x.id = y.id => x = y
  BY DEF AreRows
<1>3. /\ rest \in SUBSET rows /\ rest \in SUBSET ARow /\ IsFiniteSet(rest)
      /\ \A x, y \in rest : x.id = y.id => x = y
  BY <1>1, <1>2, FS_Subset
<1>4. /\ got.page = page /\ got = [page |-> page, more |-> got.more] /\ got.more \in BOOLEAN
      /\ got.more => page # rest \/ Cardinality(page) = Limit
      /\ ~got.more => page = rest \/ Cardinality(page) # Limit
  <2>1. After(view, cursor) = rest
    BY DEF After, Ahead
  <2>2. \/ got = [page |-> page, more |-> page # rest]
        \/ got = [page |-> page, more |-> Cardinality(page) = Limit]
    BY <2>1 DEF LeaderboardPage, ChallengesPage
  <2> HIDE DEF page
  <2>3. CASE got = [page |-> page, more |-> page # rest]
    BY <2>3
  <2>4. CASE got = [page |-> page, more |-> Cardinality(page) = Limit]
    BY <2>4
  <2> QED
    BY <2>2, <2>3, <2>4
<1> HIDE DEF rest
<1>5. page \in SUBSET rest
  BY DEF PageOf
<1>6. /\ got.more => \E k \in page : \A a \in rest : a \in page <=> a = k \/ Below(k, a)
      /\ ~got.more => page = rest
  <2>1. /\ page # rest \/ Cardinality(page) = Limit =>
             \E k \in page : \A a \in rest : a \in page <=> a = k \/ Below(k, a)
        /\ page # rest => Cardinality(page) = Limit
    BY <1>3, PageEnds
  <2> HIDE DEF page
  <2> QED
    BY <1>4, <2>1, Zenon
<1>7. got.more => l \in page /\ \A a \in rest : a \in page <=> a = l \/ Below(l, a)
  <2> SUFFICES ASSUME got.more PROVE l \in page /\ \A a \in rest : a \in page <=> a = l \/ Below(l, a)
    OBVIOUS
  <2>1. PICK k \in page : \A a \in rest : a \in page <=> a = k \/ Below(k, a)
    BY <1>6
  <2>2. Last(page) = k
    BY <1>3, <1>5, <2>1, LastIs
  <2> QED
    BY <2>1, <2>2
<1> HIDE DEF page, l
<1>8. IsFiniteSet(page) /\ page \subseteq rows /\ page \subseteq ARow
  BY <1>3, <1>5, FS_Subset
<1>9. got \in APage
  <2>1. got = [page |-> page, more |-> got.more] /\ got.more \in BOOLEAN /\ page \in SUBSET ARow
    BY <1>4, <1>8
  <2> QED
    BY <2>1 DEF APage
<1>10. l = Last(got.page)
  BY <1>4 DEF l, page
<1>11. ASSUME NEW o \in Owner, NEW x \in rows, Best(rows, o) = {x}
       PROVE  /\ {a \in page : a.owner = o} = IF x \in page THEN {x} ELSE {}
              /\ got.more => /\ x \in page <=> Ahead(x, cursor) /\ ~Below(x, l)
                             /\ Below(x, l) => Ahead(x, cursor)
              /\ ~got.more => (x \in page <=> Ahead(x, cursor))
  <2>1. /\ x \in view /\ \A a \in view : a.owner = o => a = x
        /\ x.owner = o
    BY <1>1, <1>11 DEF Best
  <2>2. page \subseteq view /\ (x \in rest <=> Ahead(x, cursor))
    BY <1>5, <2>1 DEF rest
  <2>3. {a \in page : a.owner = o} = IF x \in page THEN {x} ELSE {}
    BY <2>1, <2>2
  <2>4. ASSUME got.more, Below(x, l) PROVE Ahead(x, cursor)
    <3>1. l \in rest
      BY <1>5, <1>7, <2>4
    <3>2. Ahead(l, cursor)
      BY <3>1 DEF rest
    <3>3. /\ x.score \in Int /\ x.id \in Int /\ l.score \in Int /\ l.id \in Int
      BY <1>2, <1>3, <3>1, RowsAreOrdered
    <3>4. \A c \in cursor : c.score \in Int /\ c.id \in Int
      <4>1. Score \subseteq Int /\ 1..MaxRows \subseteq Int
        BY BoardsAssumption DEF BoardsAssumption
      <4> QED
        BY <4>1 DEF ACursor
    <3> QED
      BY <2>4, <3>2, <3>3, <3>4 DEF Ahead, Below
  <2>5. ASSUME got.more PROVE x \in page <=> Ahead(x, cursor) /\ ~Below(x, l)
    <3>1. l \in rows
      BY <1>7, <1>8, <2>5
    <3>2. /\ x = l \/ Below(x, l) \/ Below(l, x)
          /\ Below(l, x) => ~Below(x, l)
          /\ ~Below(l, l)
      BY <1>2, <3>1, RowsAreOrdered
    <3>3. x \in rest => (x \in page <=> ~Below(x, l))
      BY <1>7, <2>5, <3>2
    <3> QED
      BY <1>5, <2>2, <3>3
  <2>6. ~got.more => (x \in page <=> Ahead(x, cursor))
    BY <1>6, <2>2 DEF page
  <2> QED
    BY <2>3, <2>4, <2>5, <2>6
<1>12. got.page = page
  BY <1>4
<1> QED
  BY <1>7, <1>8, <1>9, <1>10, <1>11, <1>12

(***************************************************************************)
(* A page adds to what a reader has counted what it shows.                 *)
(***************************************************************************)
LEMMA ShowKeeps ==
  ASSUME BoardsTypeOK, NEW r \in Reader, NEW rows, AreRows(board, rows),
         NEW view \in Views(board, rows), NEW got,
         \/ got = LeaderboardPage(view, reader[r].cursor)
         \/ got = ChallengesPage(view, reader[r].cursor),
         NEW asOf, asOf = {rows},
         reader[r].cursor = {} \/ \E c \in ACursor : reader[r].cursor = {c},
         r \in Patient => Counts(reader[r].times, reader[r].asOf, reader[r].cursor),
         Show(r, got, asOf)
  PROVE  /\ reader' \in [Reader -> AReader]
         /\ \A q \in Reader : q # r => reader'[q] = reader[q]
         /\ ReaderOK(board, r \in Patient, reader'[r])
<1> DEFINE cursor == reader[r].cursor
           l == Last(got.page)
           seen == reader[r].asOf \cup asOf
           times == [o \in Owner |->
                       reader[r].times[o] + Cardinality({a \in got.page : a.owner = o})]
           new == [at |-> IF got.more THEN "paging" ELSE "done",
                   got |-> Nothing,
                   cursor |-> IF got.more THEN {[score |-> l.score, id |-> l.id]} ELSE cursor,
                   asOf |-> seen,
                   times |-> times]
           left == [Fresh EXCEPT !.at = "left"]
<1>0. /\ board \in Boards /\ reader \in [Reader -> AReader] /\ reader[r] \in AReader
      /\ rows \subseteq ARow
  BY DEF BoardsTypeOK, AreRows
<1>1. /\ got \in APage /\ IsFiniteSet(got.page) /\ got.page \subseteq rows
      /\ got.more => l \in got.page
      /\ \A o \in Owner, x \in rows : Best(rows, o) = {x} =>
           /\ {a \in got.page : a.owner = o} = IF x \in got.page THEN {x} ELSE {}
           /\ got.more => /\ x \in got.page <=> Ahead(x, cursor) /\ ~Below(x, l)
                          /\ Below(x, l) => Ahead(x, cursor)
           /\ ~got.more => (x \in got.page <=> Ahead(x, cursor))
  BY <1>0, PageShows
<1>2. /\ reader' = [reader EXCEPT ![r] = IF r \in Patient THEN new ELSE left]
  BY DEF Show
<1>3. /\ DOMAIN reader' = Reader /\ \A q \in Reader : q # r => reader'[q] = reader[q]
      /\ reader'[r] = IF r \in Patient THEN new ELSE left
      /\ reader' = [q \in Reader |-> reader'[q]]
  <2> HIDE DEF new, left
  <2> QED
    BY <1>0, <1>2
<1>4. left \in AReader /\ left.at = "left"
  <2>1. Nothing \in APage
    BY DEF Nothing, APage
  <2>2. [o \in Owner |-> 0] \in [Owner -> Nat]
    OBVIOUS
  <2>3. left = [at |-> "left", got |-> Nothing, cursor |-> {}, asOf |-> {},
                times |-> [o \in Owner |-> 0]]
    BY DEF Fresh, NoCursor
  <2> QED
    BY <2>1, <2>2, <2>3 DEF AReader
<1>5. times \in [Owner -> Nat]
  <2> SUFFICES ASSUME NEW o \in Owner
               PROVE  reader[r].times[o] + Cardinality({a \in got.page : a.owner = o}) \in Nat
    OBVIOUS
  <2>1. reader[r].times[o] \in Nat
    BY <1>0 DEF AReader
  <2>2. IsFiniteSet({a \in got.page : a.owner = o})
    BY <1>1, FS_Subset
  <2>3. Cardinality({a \in got.page : a.owner = o}) \in Nat
    BY <2>2, FS_CardinalityType
  <2> QED
    BY <2>1, <2>3
<1>6. ASSUME NEW o \in Owner, NEW x \in ARow, Steady(o, x, seen), r \in Patient
      PROVE  times[o] = IF got.more /\ Below(x, l) THEN 0 ELSE 1
  <2>1. x \in rows /\ Best(rows, o) = {x}
    <3>1. rows \in seen
      OBVIOUS
    <3> QED
      BY <1>6, <3>1 DEF Steady, Best
  <2>2. reader[r].times[o] = IF Ahead(x, cursor) THEN 0 ELSE 1
    BY <1>6 DEF Counts, Steady
  <2>3. /\ {a \in got.page : a.owner = o} = IF x \in got.page THEN {x} ELSE {}
        /\ got.more => /\ x \in got.page <=> Ahead(x, cursor) /\ ~Below(x, l)
                       /\ Below(x, l) => Ahead(x, cursor)
        /\ ~got.more => (x \in got.page <=> Ahead(x, cursor))
    BY <1>1, <2>1
  <2>4. /\ Cardinality({x}) = 1 /\ Cardinality({}) = 0
    BY FS_EmptySet, FS_Singleton
  <2>5. Cardinality({a \in got.page : a.owner = o}) = IF x \in got.page THEN 1 ELSE 0
    BY <2>3, <2>4
  <2>6. times[o] = reader[r].times[o] + Cardinality({a \in got.page : a.owner = o})
    OBVIOUS
  <2> HIDE DEF times, l, cursor
  <2> QED
    BY <2>2, <2>3, <2>5, <2>6
<1>6a. seen \in SUBSET SUBSET ARow
  BY <1>0 DEF AReader
<1> HIDE DEF seen
<1>7. got.more => [score |-> l.score, id |-> l.id] \in ACursor
  <2>1. got.more => l \in ARow
    BY <1>0, <1>1
  <2> HIDE DEF l
  <2> QED
    BY <2>1 DEF ARow, ACursor
<1>8. CASE r \notin Patient
  <2>1. reader'[r] = left
    BY <1>3, <1>8
  <2>2. ReaderOK(board, r \in Patient, left)
    <3> HIDE DEF left
    <3> QED
      BY <1>4, <1>8 DEF ReaderOK
  <2> HIDE DEF left
  <2> QED
    BY <1>0, <1>3, <1>4, <2>1, <2>2
<1>9. CASE r \in Patient
  <2>1. reader'[r] = new
    BY <1>3, <1>9
  <2> HIDE DEF times
  <2>2. CASE got.more
    <3> DEFINE c == [score |-> l.score, id |-> l.id]
    <3>1. new = [at |-> "paging", got |-> Nothing, cursor |-> {c}, asOf |-> seen, times |-> times]
      BY <2>2
    <3>2. c \in ACursor /\ c.score = l.score /\ c.id = l.id
      BY <1>7, <2>2
    <3>3. \A x : Ahead(x, {c}) <=> Below(x, l)
      BY <3>2 DEF Ahead, Below
    <3> HIDE DEF c, l, new
    <3>4. Counts(times, seen, {c})
      BY <1>6, <1>9, <2>2, <3>3 DEF Counts
    <3>5. new \in AReader
      <4>1. Nothing \in APage /\ {c} \in SUBSET [score : Score, id : 1..MaxRows]
        BY <3>2 DEF Nothing, APage, ACursor
      <4> QED
        BY <1>5, <1>6a, <3>1, <4>1 DEF AReader
    <3>6. Seen(new)
      BY <3>1, <3>2, <3>4 DEF Seen
    <3>7. ReaderOK(board, r \in Patient, new)
      BY <1>9, <3>1, <3>6 DEF ReaderOK
    <3> QED
      BY <1>0, <1>3, <2>1, <3>5, <3>7
  <2>3. CASE ~got.more
    <3>1. new = [at |-> "done", got |-> Nothing, cursor |-> cursor, asOf |-> seen, times |-> times]
      BY <2>3
    <3> HIDE DEF new, l
    <3>2. CountsAll(times, seen)
      BY <1>6, <1>9, <2>3 DEF CountsAll
    <3>3. new \in AReader
      <4>1. Nothing \in APage /\ cursor \in SUBSET [score : Score, id : 1..MaxRows]
        BY <1>0 DEF Nothing, APage, AReader
      <4> QED
        BY <1>5, <1>6a, <3>1, <4>1 DEF AReader
    <3>4. Seen(new)
      BY <3>1, <3>2 DEF Seen
    <3>5. ReaderOK(board, r \in Patient, new)
      BY <1>9, <3>1, <3>4 DEF ReaderOK
    <3> QED
      BY <1>0, <1>3, <2>1, <3>3, <3>5
  <2> QED
    BY <2>2, <2>3
<1> QED
  BY <1>8, <1>9

-----------------------------------------------------------------------------
(* The steps of GameBoards *)

(***************************************************************************)
(* What is written is rows again.                                          *)
(***************************************************************************)
LEMMA WritesAreRows ==
  ASSUME BoardsTypeOK, Write
  PROVE  AreRows(board, boardRows')
<1>0. /\ board \in Boards /\ AreRows(board, boardRows) /\ boardClock \in Nat
      /\ IsFiniteSet(boardRows) /\ boardRows \subseteq ARow
      /\ \A x, y \in boardRows : x.id = y.id => x = y
      /\ board # "challenge" => \A x \in boardRows : x.id = x.owner
      /\ board = "list" => \A x \in boardRows : x.listed \/ x.ts = 0
  BY DEF BoardsTypeOK, AreRows
<1>1. Owner \subseteq 1..MaxRows /\ Score \subseteq Int
  BY BoardsAssumption DEF BoardsAssumption
<1>2. \A x \in boardRows : x.ts \in Nat /\ x.ts <= x.ts
  BY <1>0 DEF ARow
<1>3. ASSUME NEW p \in Owner, NEW s \in Score, NEW i \in 1..MaxRows, RecordAttempt(p, s, i)
      PROVE  AreRows(board, boardRows')
  <2> DEFINE a == [owner |-> p, score |-> s, id |-> i, ts |-> boardClock, listed |-> TRUE]
  <2>1. board = "challenge" /\ boardRows' = boardRows \cup {a} /\ \A x \in boardRows : x.id # i
    BY <1>3 DEF RecordAttempt
  <2>2. a \in ARow /\ a.id = i
    BY <1>0 DEF ARow
  <2> HIDE DEF a
  <2>3. IsFiniteSet(boardRows')
    BY <1>0, <2>1, FS_AddElement
  <2> QED
    BY <1>0, <2>1, <2>2, <2>3 DEF AreRows
<1>4. ASSUME board # "challenge", NEW a \in boardRows, NEW z \in ARow,
             boardRows' = (boardRows \ {a}) \cup {z}, z.owner = a.owner, z.id = a.id, z.listed,
             z.ts > a.ts
      PROVE  AreRows(board, boardRows')
  <2>1. IsFiniteSet(boardRows')
    <3>1. IsFiniteSet(boardRows \ {a})
      BY <1>0, FS_Subset
    <3> QED
      BY <1>4, <3>1, FS_AddElement
  <2> QED
    BY <1>0, <1>4, <2>1 DEF AreRows
<1>5. ASSUME NEW p \in Owner, NEW s \in Score, Rate(p, s)
      PROVE  AreRows(board, boardRows')
  <2>1. PICK a \in boardRows :
          boardRows' = (boardRows \ {a}) \cup {[a EXCEPT !.score = s, !.ts = @ + 1, !.listed = TRUE]}
    BY <1>5 DEF Rate
  <2> DEFINE z == [a EXCEPT !.score = s, !.ts = @ + 1, !.listed = TRUE]
  <2>2. a \in ARow /\ board # "challenge"
    BY <1>0, <1>5 DEF Rate
  <2>3. z \in ARow /\ z.owner = a.owner /\ z.id = a.id /\ z.listed /\ z.ts > a.ts
    <3> DEFINE a1 == [a EXCEPT !.score = s]
               a2 == [a1 EXCEPT !.ts = a.ts + 1]
               a3 == [a2 EXCEPT !.listed = TRUE]
    <3>1. a.ts \in Nat /\ a.ts + 1 \in Nat /\ a.ts + 1 > a.ts
      BY <2>2 DEF ARow
    <3>2. a1 \in ARow /\ a1.owner = a.owner /\ a1.id = a.id /\ a1.score = s
      BY <2>2, <3>1 DEF ARow
    <3> HIDE DEF a1
    <3>3. a2 \in ARow /\ a2.owner = a1.owner /\ a2.id = a1.id /\ a2.ts = a.ts + 1
      BY <3>1, <3>2 DEF ARow
    <3> HIDE DEF a2
    <3>4. a3 \in ARow /\ a3.owner = a2.owner /\ a3.id = a2.id /\ a3.listed = TRUE /\ a3.ts = a2.ts
      BY <3>1, <3>3 DEF ARow
    <3> HIDE DEF a3
    <3>5. z = a3
      BY DEF a1, a2, a3, z
    <3> QED
      BY <2>2, <3>1, <3>2, <3>3, <3>4, <3>5
  <2>4. boardRows' = (boardRows \ {a}) \cup {z}
    BY <2>1
  <2> HIDE DEF z
  <2> QED
    BY <1>4, <2>2, <2>3, <2>4
<1>6. ASSUME NEW c \in Owner, SetIdeal(c)
      PROVE  AreRows(board, boardRows')
  <2>1. PICK a \in boardRows :
          ~a.listed /\ boardRows' = (boardRows \ {a}) \cup {[a EXCEPT !.listed = TRUE, !.ts = 1]}
    BY <1>6 DEF SetIdeal
  <2> DEFINE z == [a EXCEPT !.listed = TRUE, !.ts = 1]
  <2>2. a \in ARow /\ board # "challenge" /\ a.ts = 0
    BY <1>0, <1>6, <2>1 DEF SetIdeal
  <2>3. z \in ARow /\ z.owner = a.owner /\ z.id = a.id /\ z.listed /\ z.ts > a.ts
    <3> DEFINE a1 == [a EXCEPT !.listed = TRUE]
               a2 == [a1 EXCEPT !.ts = 1]
    <3>1. a.ts \in Nat /\ a.ts + 1 \in Nat /\ a.ts + 1 > a.ts
      BY <2>2 DEF ARow
    <3>2. a1 \in ARow /\ a1.owner = a.owner /\ a1.id = a.id /\ a1.listed = TRUE
      BY <2>2, <3>1 DEF ARow
    <3> HIDE DEF a1
    <3>3. a2 \in ARow /\ a2.owner = a1.owner /\ a2.id = a1.id /\ a2.ts = 1 /\ a2.listed
      BY <3>1, <3>2 DEF ARow
    <3> HIDE DEF a2
    <3>4. z = a2
      BY DEF a1, a2, z
    <3> QED
      BY <2>2, <3>1, <3>2, <3>3, <3>4
  <2>4. boardRows' = (boardRows \ {a}) \cup {z}
    BY <2>1
  <2> HIDE DEF z
  <2> QED
    BY <1>4, <2>2, <2>3, <2>4
<1>7. ASSUME NEW c \in Owner, PublishChallenge(c)
      PROVE  AreRows(board, boardRows')
  <2> DEFINE a == [owner |-> c, score |-> boardClock, id |-> c, ts |-> 0, listed |-> FALSE]
  <2>1. /\ board = "list" /\ boardRows' = boardRows \cup {a}
        /\ \A x \in boardRows : x.owner # c /\ x.id # c
    BY <1>0, <1>7 DEF PublishChallenge
  <2>2. a \in ARow /\ a.id = c /\ a.owner = c /\ a.ts = 0
    BY <1>1, <1>7 DEF ARow, PublishChallenge
  <2> HIDE DEF a
  <2>3. IsFiniteSet(boardRows')
    BY <1>0, <2>1, FS_AddElement
  <2> QED
    BY <1>0, <2>1, <2>2, <2>3 DEF AreRows
<1> QED
  BY <1>3, <1>5, <1>6, <1>7 DEF Write

LEMMA BoardsInvStarts == BoardsInit => BoardsInv
<1> SUFFICES ASSUME BoardsInit PROVE BoardsInv
  OBVIOUS
<1>1. PICK b \in Boards : \E rows \in Firsts[b] : BoardsInitWith(b, rows)
  BY DEF BoardsInit
<1>2. PICK rows \in Firsts[b] : BoardsInitWith(b, rows)
  BY <1>1
<1>3. /\ board = b /\ AreRows(board, boardRows) /\ past = {boardRows} /\ boardClock = 0
      /\ shelf = [got |-> Nothing, until |-> 0, asOf |-> {}]
      /\ reader = [r \in Reader |-> Fresh]
  BY <1>2, BoardsAssumption DEF BoardsAssumption, BoardsInitWith
<1>4. Nothing \in APage /\ [o \in Owner |-> 0] \in [Owner -> Nat]
  BY DEF Nothing, APage
<1>5. Fresh \in AReader
  BY <1>4 DEF Fresh, AReader, NoCursor
<1>6. BoardsTypeOK
  BY <1>3, <1>4, <1>5 DEF BoardsTypeOK
<1>7. ShelfOK(board, shelf)
  BY <1>3 DEF ShelfOK
<1>8. \A r \in Reader : ReaderOK(board, r \in Patient, reader[r])
  BY <1>3 DEF ReaderOK, Fresh, Seen
<1> QED
  BY <1>6, <1>7, <1>8 DEF BoardsInv

(***************************************************************************)
(* A step that shows a page keeps the invariant of the readers.            *)
(***************************************************************************)
LEMMA ReadingKeeps ==
  ASSUME BoardsInv, NEW r \in Reader,
         FirstFromCache(r) \/ AskFirst(r) \/ Fill(r) \/ TurnPage(r) \/ List(r)
  PROVE  BoardsInv'
<1>0. /\ BoardsTypeOK /\ board \in Boards /\ AreRows(board, boardRows) /\ boardClock \in Nat
      /\ shelf \in [got : APage, until : Nat, asOf : SUBSET SUBSET ARow]
      /\ reader \in [Reader -> AReader] /\ reader[r] \in AReader
      /\ ShelfOK(board, shelf)
      /\ \A q \in Reader : ReaderOK(board, q \in Patient, reader[q])
  BY DEF BoardsInv, BoardsTypeOK
<1>1. boardRows \in past /\ \A rows \in past : AreRows(board, rows) /\ rows \subseteq ARow
  BY <1>0 DEF BoardsTypeOK, AreRows
<1>2. SUFFICES /\ UNCHANGED <<board, boardRows, boardClock, past>>
               /\ shelf' \in [got : APage, until : Nat, asOf : SUBSET SUBSET ARow]
               /\ ShelfOK(board, shelf')
               /\ reader' \in [Reader -> AReader]
               /\ \A q \in Reader : q # r => reader'[q] = reader[q]
               /\ ReaderOK(board, r \in Patient, reader'[r])
  <2>1. board' = board /\ boardRows' = boardRows /\ boardClock' = boardClock /\ past' = past
    BY <1>2
  <2>2. ShelfOK(board, shelf)'
    BY <1>2, <2>1 DEF ShelfOK
  <2>3. ASSUME NEW q \in Reader
        PROVE  ReaderOK(board, q \in Patient, reader[q])'
    <3>1. ReaderOK(board, q \in Patient, reader'[q])
      BY <1>0, <1>2
    <3> QED
      BY <2>1, <3>1
  <2>4. BoardsTypeOK'
    BY <1>0, <1>2, <2>1 DEF BoardsTypeOK
  <2> QED
    BY <2>2, <2>3, <2>4 DEF BoardsInv
<1>3. reader[r].at \in {"idle", "read"} =>
        /\ reader[r].cursor = {} /\ reader[r].cursor = NoCursor
        /\ \A asOf : Counts(reader[r].times, asOf, {})
  <2> SUFFICES ASSUME reader[r].at \in {"idle", "read"}
               PROVE  /\ reader[r].cursor = {} /\ reader[r].cursor = NoCursor
                      /\ \A asOf : Counts(reader[r].times, asOf, {})
    OBVIOUS
  <2>1. reader[r].cursor = NoCursor /\ reader[r].times = [o \in Owner |-> 0]
    BY <1>0 DEF ReaderOK
  <2>2. \A x : Ahead(x, {})
    BY DEF Ahead
  <2> QED
    BY <2>1, <2>2 DEF Counts, NoCursor
<1>4. reader[r].at = "paging" =>
        /\ r \in Patient
        /\ \E c \in ACursor : reader[r].cursor = {c}
        /\ Counts(reader[r].times, reader[r].asOf, reader[r].cursor)
  BY <1>0 DEF ReaderOK, Seen
<1>5. CASE FirstFromCache(r)
  <2>1. /\ reader[r].at = "idle" /\ shelf.until > boardClock
        /\ Show(r, shelf.got, shelf.asOf)
        /\ UNCHANGED <<board, boardRows, boardClock, past, shelf>>
    BY <1>5 DEF FirstFromCache
  <2>2. shelf.until > 0
    BY <1>0, <2>1
  <2>3. PICK rows : /\ AreRows(board, rows) /\ shelf.asOf = {rows}
                    /\ FirstPageOf(board, shelf.got, rows)
    BY <1>0, <2>2 DEF ShelfOK, IsFirstPage
  <2>4. PICK view \in Views(board, rows) : shelf.got = LeaderboardPage(view, reader[r].cursor)
    BY <1>3, <2>1, <2>3 DEF FirstPageOf
  <2>4a. /\ reader[r].cursor = {}
         /\ Counts(reader[r].times, reader[r].asOf, reader[r].cursor)
    BY <1>3, <2>1
  <2>5. /\ reader' \in [Reader -> AReader]
        /\ \A q \in Reader : q # r => reader'[q] = reader[q]
        /\ ReaderOK(board, r \in Patient, reader'[r])
    <3> DEFINE got == shelf.got
               asOf == shelf.asOf
    <3>1. /\ Show(r, got, asOf) /\ asOf = {rows} /\ got = LeaderboardPage(view, reader[r].cursor)
          /\ AreRows(board, rows)
      BY <2>1, <2>3, <2>4
    <3> HIDE DEF got, asOf
    <3> QED
      BY <1>0, <2>4a, <3>1, ShowKeeps
  <2>6. shelf' = shelf /\ UNCHANGED <<board, boardRows, boardClock, past>>
    BY <2>1
  <2> QED
    BY <1>0, <2>5, <2>6
<1>6. CASE AskFirst(r)
  <2>1. reader[r].at = "idle" /\ UNCHANGED <<board, boardRows, boardClock, past, shelf>>
    BY <1>6 DEF AskFirst
  <2>2. PICK rows \in past : \E view \in Views(board, rows) :
          reader' = [reader EXCEPT ![r].at = "read", ![r].got = LeaderboardPage(view, NoCursor),
                                   ![r].asOf = {rows}]
    BY <1>6 DEF AskFirst
  <2>2a. PICK view \in Views(board, rows) :
          reader' = [reader EXCEPT ![r].at = "read", ![r].got = LeaderboardPage(view, NoCursor),
                                   ![r].asOf = {rows}]
    BY <2>2
  <2> DEFINE got == LeaderboardPage(view, NoCursor)
             new == [reader[r] EXCEPT !.at = "read", !.got = got, !.asOf = {rows}]
  <2>3. got \in APage
    <3>1. got = LeaderboardPage(view, {})
      BY DEF NoCursor
    <3> HIDE DEF got
    <3> QED
      BY <1>0, <1>1, <3>1, PageShows
  <2>4. IsFirstPage(board, got, {rows})
    BY <1>1 DEF FirstPageOf, IsFirstPage
  <2> HIDE DEF got
  <2>5. reader' = [reader EXCEPT ![r] = new]
    BY <1>0, <2>2a DEF AReader, got
  <2>6. /\ new \in AReader
        /\ new.at = "read" /\ new.got = got /\ new.asOf = {rows}
        /\ new.cursor = reader[r].cursor /\ new.times = reader[r].times
    <3>1. {rows} \in SUBSET SUBSET ARow
      BY <1>1
    <3> QED
      BY <1>0, <2>3, <3>1 DEF AReader
  <2>7. ReaderOK(board, r \in Patient, new)
    <3>1. reader[r].cursor = NoCursor /\ reader[r].times = [o \in Owner |-> 0]
      BY <1>0, <2>1 DEF ReaderOK
    <3> HIDE DEF new
    <3> QED
      BY <2>4, <2>6, <3>1 DEF ReaderOK, Seen
  <2> HIDE DEF new
  <2>8. /\ reader' \in [Reader -> AReader]
        /\ \A q \in Reader : q # r => reader'[q] = reader[q]
        /\ reader'[r] = new
    BY <1>0, <2>5, <2>6
  <2> QED
    BY <1>0, <2>1, <2>7, <2>8
<1>7. CASE Fill(r)
  <2>1. /\ reader[r].at = "read"
        /\ shelf' = [got |-> reader[r].got, until |-> boardClock + CacheTtl,
                     asOf |-> reader[r].asOf]
        /\ Show(r, reader[r].got, reader[r].asOf)
        /\ UNCHANGED <<board, boardRows, boardClock, past>>
    BY <1>7 DEF Fill
  <2>2. IsFirstPage(board, reader[r].got, reader[r].asOf)
    BY <1>0, <2>1 DEF ReaderOK
  <2>3. PICK rows : /\ AreRows(board, rows) /\ reader[r].asOf = {rows}
                    /\ FirstPageOf(board, reader[r].got, rows)
    BY <2>2 DEF IsFirstPage
  <2>4. PICK view \in Views(board, rows) :
          reader[r].got = LeaderboardPage(view, reader[r].cursor)
    BY <1>3, <2>1, <2>3 DEF FirstPageOf
  <2>4a. /\ reader[r].cursor = {}
         /\ Counts(reader[r].times, reader[r].asOf, reader[r].cursor)
    BY <1>3, <2>1
  <2>5. /\ reader' \in [Reader -> AReader]
        /\ \A q \in Reader : q # r => reader'[q] = reader[q]
        /\ ReaderOK(board, r \in Patient, reader'[r])
    BY <1>0, <2>1, <2>3, <2>4, <2>4a, ShowKeeps
  <2>6. /\ shelf' \in [got : APage, until : Nat, asOf : SUBSET SUBSET ARow]
        /\ ShelfOK(board, shelf')
    <3>1. boardClock + CacheTtl \in Nat
      BY <1>0, BoardsAssumption DEF BoardsAssumption
    <3>2. reader[r].got \in APage /\ reader[r].asOf \in SUBSET SUBSET ARow
      BY <1>0 DEF AReader
    <3> QED
      BY <2>1, <2>2, <3>1, <3>2 DEF ShelfOK
  <2> QED
    BY <2>1, <2>5, <2>6
<1>8. CASE TurnPage(r)
  <2>1. reader[r].at = "paging" /\ UNCHANGED <<board, boardRows, boardClock, past, shelf>>
    BY <1>8 DEF TurnPage
  <2>2. PICK rows \in past : \E view \in Views(board, rows) :
          Show(r, LeaderboardPage(view, reader[r].cursor), {rows})
    BY <1>8 DEF TurnPage
  <2>3. PICK view \in Views(board, rows) :
          Show(r, LeaderboardPage(view, reader[r].cursor), {rows})
    BY <2>2
  <2> DEFINE got == LeaderboardPage(view, reader[r].cursor)
  <2>4. got = LeaderboardPage(view, reader[r].cursor) /\ Show(r, got, {rows})
    BY <2>3
  <2> HIDE DEF got
  <2>5. /\ reader' \in [Reader -> AReader]
        /\ \A q \in Reader : q # r => reader'[q] = reader[q]
        /\ ReaderOK(board, r \in Patient, reader'[r])
    BY <1>0, <1>1, <1>4, <2>1, <2>4, ShowKeeps
  <2> QED
    BY <1>0, <2>1, <2>5
<1>9. CASE List(r)
  <2>1. /\ reader[r].at \in {"idle", "paging"}
        /\ UNCHANGED <<board, boardRows, boardClock, past, shelf>>
    BY <1>9 DEF List
  <2>2. PICK view \in Views(board, boardRows) :
          Show(r, ChallengesPage(view, reader[r].cursor), {boardRows})
    BY <1>9 DEF List
  <2> DEFINE got == ChallengesPage(view, reader[r].cursor)
  <2>3. got = ChallengesPage(view, reader[r].cursor) /\ Show(r, got, {boardRows})
    BY <2>2
  <2>4. /\ reader[r].cursor = {} \/ \E c \in ACursor : reader[r].cursor = {c}
        /\ r \in Patient => Counts(reader[r].times, reader[r].asOf, reader[r].cursor)
    BY <1>3, <1>4, <2>1
  <2> HIDE DEF got
  <2>5. /\ reader' \in [Reader -> AReader]
        /\ \A q \in Reader : q # r => reader'[q] = reader[q]
        /\ ReaderOK(board, r \in Patient, reader'[r])
    BY <1>0, <2>3, <2>4, ShowKeeps
  <2> QED
    BY <1>0, <2>1, <2>5
<1> QED
  BY <1>5, <1>6, <1>7, <1>8, <1>9

LEMMA BoardsInvKept == BoardsInv /\ [BoardsNext]_boardVars => BoardsInv'
<1> SUFFICES ASSUME BoardsInv, [BoardsNext]_boardVars PROVE BoardsInv'
  OBVIOUS
<1>0. /\ BoardsTypeOK /\ board \in Boards /\ AreRows(board, boardRows) /\ boardClock \in Nat
      /\ shelf \in [got : APage, until : Nat, asOf : SUBSET SUBSET ARow]
      /\ reader \in [Reader -> AReader]
      /\ ShelfOK(board, shelf)
      /\ \A q \in Reader : ReaderOK(board, q \in Patient, reader[q])
  BY DEF BoardsInv, BoardsTypeOK
<1>1. CASE Write
  <2>1. UNCHANGED <<board, boardClock, shelf, reader>> /\ past' = past \cup {boardRows'}
    BY <1>1 DEF Write
  <2>2. AreRows(board, boardRows')
    BY <1>0, <1>1, WritesAreRows
  <2>3. BoardsTypeOK'
    BY <1>0, <2>1, <2>2 DEF BoardsTypeOK
  <2> QED
    BY <1>0, <2>1, <2>3 DEF BoardsInv
<1>2. CASE BoardTick
  <2>1. UNCHANGED <<board, boardRows, past, shelf, reader>> /\ boardClock' = boardClock + 1
    BY <1>2 DEF BoardTick
  <2>2. BoardsTypeOK'
    BY <1>0, <2>1 DEF BoardsTypeOK
  <2> QED
    BY <1>0, <2>1, <2>2 DEF BoardsInv
<1>3. CASE \E r \in Reader :
             FirstFromCache(r) \/ AskFirst(r) \/ Fill(r) \/ TurnPage(r) \/ List(r)
  BY <1>3, ReadingKeeps
<1>4. CASE UNCHANGED boardVars
  <2>1. UNCHANGED <<board, boardRows, boardClock, past, shelf, reader>>
    BY <1>4 DEF boardVars
  <2>2. BoardsTypeOK'
    BY <1>0, <2>1 DEF BoardsTypeOK
  <2> QED
    BY <1>0, <2>1, <2>2 DEF BoardsInv
<1> QED
  BY <1>1, <1>2, <1>3, <1>4 DEF BoardsNext

(***************************************************************************)
(* A challenge has one row, a player one profile, attempts have distinct   *)
(* ids, and the board, its cache and its readers keep their types.         *)
(***************************************************************************)
THEOREM BoardsTypeCorrect == BoardsSpec => []BoardsTypeOK
<1>1. BoardsInv => BoardsTypeOK
  BY DEF BoardsInv
<1> QED
  BY <1>1, BoardsInvStarts, BoardsInvKept, PTL DEF BoardsSpec

(***************************************************************************)
(* An owner whose place was the same whenever a page was read is shown     *)
(* exactly once by a reader who turns all pages of a board while others    *)
(* write it, whatever the page size, the age of the cached first page, the *)
(* lag of the replicas and the order of the writes.                        *)
(***************************************************************************)
THEOREM StableRowsAreShownOnceHolds == BoardsSpec => []StableRowsAreShownOnce
<1>1. BoardsInv => StableRowsAreShownOnce
  <2> SUFFICES ASSUME BoardsInv, NEW r \in Patient, NEW o \in Owner,
                      NEW x \in UNION reader[r].asOf,
                      \A rows \in reader[r].asOf : Best(rows, o) = {x}
               PROVE  /\ reader[r].times[o] <= 1
                      /\ reader[r].at = "done" => reader[r].times[o] = 1
    BY DEF StableRowsAreShownOnce
  <2>1. r \in Reader /\ ReaderOK(board, TRUE, reader[r]) /\ reader[r] \in AReader
    <3>1. r \in Reader
      BY BoardsAssumption DEF BoardsAssumption
    <3>2. ReaderOK(board, r \in Patient, reader[r])
      BY <3>1 DEF BoardsInv
    <3>3. (r \in Patient) = TRUE
      OBVIOUS
    <3> QED
      BY <3>1, <3>2, <3>3 DEF BoardsInv, BoardsTypeOK
  <2>2. x \in ARow /\ Steady(o, x, reader[r].asOf)
    BY <2>1 DEF Steady, AReader
  <2>3. CASE reader[r].at \in {"idle", "read"}
    BY <2>1, <2>3 DEF ReaderOK
  <2>4. CASE reader[r].at = "paging"
    BY <2>1, <2>2, <2>4 DEF ReaderOK, Seen, Counts
  <2>5. CASE reader[r].at = "done"
    BY <2>1, <2>2, <2>5 DEF ReaderOK, Seen, CountsAll
  <2> QED
    BY <2>1, <2>3, <2>4, <2>5 DEF AReader, ReaderOK
<1> QED
  BY <1>1, BoardsInvStarts, BoardsInvKept, PTL DEF BoardsSpec

=============================================================================

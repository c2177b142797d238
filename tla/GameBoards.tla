----------------------------- MODULE GameBoards -----------------------------
(***************************************************************************)
(* services/game: lists that are read page by page while they change, the  *)
(* leaderboard of a challenge, the rating board of a season, and the list  *)
(* of challenges.  The cursor is the score and id of the last row shown.   *)
(* The first page of a leaderboard is kept in LeaderboardHandler's cache.  *)
(* Leaderboards are read from a replica, which lags (kSlave); the list of  *)
(* challenges from the master.                                             *)
(*                                                                         *)
(* A row of the table is an attempt (whose owner is the player), a         *)
(* profile, or a challenge; id makes the order total.  ts is when an       *)
(* attempt was recorded and, of the other two, counts their changes.       *)
(***************************************************************************)
EXTENDS Integers, FiniteSets

CONSTANTS
  Owner,           \* players or challenges, positive numbers
  Score,           \* scores, ratings or times
  Reader, Patient, \* who reads boards, and who of them turns the page
  Limit,           \* the limit argument
  CacheTtl,        \* cache_ttl_
  Boards,          \* which of the three there are
  Firsts,          \* of each board, the rows it may begin with
  MaxRows, MaxChanges, MaxBoardTime  \* bounds on attempts, on changes of a rating, and on time

ARow == [owner : Owner, score : Score, id : 1..MaxRows, ts : Nat, listed : BOOLEAN]

(***************************************************************************)
(* What the primary keys grant: a player has one profile, a challenge one  *)
(* row; a challenge without an ideal path has not been changed.            *)
(***************************************************************************)
AreRows(b, rows) ==
  /\ IsFiniteSet(rows) /\ rows \subseteq ARow
  /\ \A x, y \in rows : x.id = y.id => x = y
  /\ b # "challenge" => \A x \in rows : x.id = x.owner
  /\ b = "list" => \A x \in rows : x.listed \/ x.ts = 0

ASSUME BoardsAssumption ==
  /\ Score \subseteq Int /\ MaxRows \in Nat /\ Owner \subseteq 1..MaxRows
  /\ Limit \in Nat \ {0} /\ CacheTtl \in Nat
  /\ Patient \subseteq Reader
  /\ Boards \subseteq {"challenge", "season", "list"}
  /\ \A b \in Boards : \A rows \in Firsts[b] : AreRows(b, rows)

VARIABLES
  board,     \* the one that is read
  boardRows, boardClock,
  past,      \* what the table was so far, which a replica may still show
  shelf,     \* cache_: the first page, when it lapses, and (history) the rows it was made of
  reader

boardVars == <<board, boardRows, boardClock, past, shelf, reader>>

Nothing == [page |-> {}, more |-> FALSE]
NoCursor == {}
Fresh == [at |-> "idle", got |-> Nothing, cursor |-> NoCursor, asOf |-> {},
          times |-> [o \in Owner |-> 0]]

BoardsInitWith(b, rows) ==
  /\ board = b
  /\ boardRows = rows /\ past = {rows}
  /\ boardClock = 0
  /\ shelf = [got |-> Nothing, until |-> 0, asOf |-> {}]
  /\ reader = [r \in Reader |-> Fresh]

BoardsInit == \E b \in Boards : \E rows \in Firsts[b] : BoardsInitWith(b, rows)

-----------------------------------------------------------------------------
(* What writers do to the tables *)

(***************************************************************************)
(* An attempt is committed.  Its id was taken before, so attempts appear   *)
(* in any order of ids.                                                    *)
(***************************************************************************)
RecordAttempt(p, s, i) ==
  /\ board = "challenge"
  /\ Cardinality(boardRows) < MaxRows
  /\ \A a \in boardRows : a.id # i
  /\ boardRows' = boardRows \cup
       {[owner |-> p, score |-> s, id |-> i, ts |-> boardClock, listed |-> TRUE]}

(***************************************************************************)
(* A rated game: the first one puts the player on the board.               *)
(***************************************************************************)
Rate(p, s) ==
  /\ board = "season"
  /\ \E a \in boardRows :
       /\ a.owner = p /\ a.ts < MaxChanges
       /\ boardRows' = (boardRows \ {a}) \cup
            {[a EXCEPT !.score = s, !.ts = @ + 1, !.listed = TRUE]}

(***************************************************************************)
(* A challenge is stored without an ideal path, and gets one later.        *)
(***************************************************************************)
PublishChallenge(c) ==
  /\ board = "list"
  /\ \A a \in boardRows : a.owner # c
  /\ boardClock \in Score
  /\ boardRows' = boardRows \cup
       {[owner |-> c, score |-> boardClock, id |-> c, ts |-> 0, listed |-> FALSE]}

SetIdeal(c) ==
  /\ board = "list"
  /\ \E a \in boardRows :
       /\ a.owner = c /\ ~a.listed
       /\ boardRows' = (boardRows \ {a}) \cup {[a EXCEPT !.listed = TRUE, !.ts = 1]}

(***************************************************************************)
(* A bound: nothing is written once everything has been read.              *)
(***************************************************************************)
BeingRead == \E r \in Patient : reader[r].at # "done"

Write ==
  /\ BeingRead
  /\ \E o \in Owner :
       \/ \E s \in Score : Rate(o, s) \/ \E i \in 1..MaxRows : RecordAttempt(o, s, i)
       \/ PublishChallenge(o) \/ SetIdeal(o)
  /\ past' = past \cup {boardRows'}
  /\ UNCHANGED <<board, boardClock, shelf, reader>>

BoardTick ==
  /\ BeingRead
  /\ boardClock < MaxBoardTime
  /\ boardClock' = boardClock + 1
  /\ UNCHANGED <<board, boardRows, past, shelf, reader>>

-----------------------------------------------------------------------------
(* Pages *)

(***************************************************************************)
(* The rows of one owner of which a query takes one: DISTINCT ON (user_id) *)
(* ordered by score and time leaves a tie to the database.                 *)
(***************************************************************************)
Best(rows, o) ==
  {a \in rows : a.owner = o /\ a.listed /\ \A b \in rows : b.owner = o /\ b.listed =>
     b.score < a.score \/ (b.score = a.score /\ a.ts <= b.ts)}

(***************************************************************************)
(* What a query may find: GetLeaderboard by attempts, SeasonEloBoard by    *)
(* rating (the season it is asked for makes no difference), ListChallenges *)
(* with an ideal path.                                                     *)
(***************************************************************************)
BestAttempts(rows) ==
  {view \in SUBSET UNION {Best(rows, o) : o \in Owner} :
     \A o \in Owner :
       Cardinality(view \cap Best(rows, o)) = IF Best(rows, o) = {} THEN 0 ELSE 1}

SeasonEloBoard(rows) == {a \in rows : a.listed}

ListChallenges(rows) == {a \in rows : a.listed}

Views(b, rows) ==
  CASE b = "challenge" -> BestAttempts(rows)
    [] b = "season" -> {SeasonEloBoard(rows)}
    [] b = "list" -> {ListChallenges(rows)}

Below(a, b) == a.score < b.score \/ (a.score = b.score /\ a.id < b.id)

\* Mutant: score < cursor's score.
BelowByScore(rows, cursor) == {a \in rows : \A c \in cursor : a.score < c.score}

(***************************************************************************)
(* WHERE (score, id) < cursor, if there is one.                            *)
(***************************************************************************)
After(rows, cursor) == {a \in rows : \A c \in cursor : Below(a, c)}

PageOf(rest) == {a \in rest : Cardinality({b \in rest : Below(a, b)}) < Limit}

(***************************************************************************)
(* A leaderboard's query asks for one row more than is shown, to know      *)
(* whether there is another page; a full page of challenges is taken for   *)
(* the sign of one.                                                        *)
(***************************************************************************)
LeaderboardPage(view, cursor) ==
  LET rest == After(view, cursor) IN [page |-> PageOf(rest), more |-> PageOf(rest) # rest]

ChallengesPage(view, cursor) ==
  LET page == PageOf(After(view, cursor)) IN [page |-> page, more |-> Cardinality(page) = Limit]

Last(page) == CHOOSE a \in page : \A b \in page \ {a} : Below(a, b)

(***************************************************************************)
(* asOf (history) is the rows that the page was made of.                   *)
(***************************************************************************)
Show(r, got, asOf) ==
  reader' = [reader EXCEPT ![r] = IF r \notin Patient THEN [Fresh EXCEPT !.at = "left"] ELSE
    [at |-> IF got.more THEN "paging" ELSE "done",
     got |-> Nothing,
     cursor |-> IF got.more THEN {[score |-> Last(got.page).score, id |-> Last(got.page).id]}
                ELSE @.cursor,
     asOf |-> reader[r].asOf \cup asOf,
     times |-> [o \in Owner |-> @.times[o] + Cardinality({a \in got.page : a.owner = o})]]]

(***************************************************************************)
(* A request without a cursor.                                             *)
(***************************************************************************)
FirstFromCache(r) ==
  /\ reader[r].at = "idle" /\ board # "list"
  /\ shelf.until > boardClock
  /\ Show(r, shelf.got, shelf.asOf)
  /\ UNCHANGED <<board, boardRows, boardClock, past, shelf>>

AskFirst(r) ==
  /\ reader[r].at = "idle" /\ board # "list"
  /\ shelf.until <= boardClock
  /\ \E rows \in past : \E view \in Views(board, rows) :
       reader' = [reader EXCEPT ![r].at = "read", ![r].got = LeaderboardPage(view, NoCursor),
                                ![r].asOf = {rows}]
  /\ UNCHANGED <<board, boardRows, boardClock, past, shelf>>

(***************************************************************************)
(* cache_mu_ is not held during the query: an older page may replace a     *)
(* younger one.                                                            *)
(***************************************************************************)
Fill(r) ==
  /\ reader[r].at = "read"
  /\ shelf' = [got |-> reader[r].got, until |-> boardClock + CacheTtl, asOf |-> reader[r].asOf]
  /\ Show(r, reader[r].got, reader[r].asOf)
  /\ UNCHANGED <<board, boardRows, boardClock, past>>

(***************************************************************************)
(* A request with the cursor of the last page, answered by a replica that  *)
(* may be ahead of the last one's or behind it.                            *)
(***************************************************************************)
TurnPage(r) ==
  /\ reader[r].at = "paging" /\ board # "list"
  /\ \E rows \in past : \E view \in Views(board, rows) :
       Show(r, LeaderboardPage(view, reader[r].cursor), {rows})
  /\ UNCHANGED <<board, boardRows, boardClock, past, shelf>>

(***************************************************************************)
(* GET /game/challenges, from the start or with a cursor.                  *)
(***************************************************************************)
List(r) ==
  /\ board = "list" /\ reader[r].at \in {"idle", "paging"}
  /\ \E view \in Views(board, boardRows) :
       Show(r, ChallengesPage(view, reader[r].cursor), {boardRows})
  /\ UNCHANGED <<board, boardRows, boardClock, past, shelf>>

BoardsNext ==
  \/ Write \/ BoardTick
  \/ \E r \in Reader : FirstFromCache(r) \/ AskFirst(r) \/ Fill(r) \/ TurnPage(r) \/ List(r)

BoardsSpec == BoardsInit /\ [][BoardsNext]_boardVars

-----------------------------------------------------------------------------
APage == [page : SUBSET ARow, more : BOOLEAN]

AReader == [at : {"idle", "read", "paging", "done", "left"}, got : APage,
            cursor : SUBSET [score : Score, id : 1..MaxRows], asOf : SUBSET SUBSET ARow,
            times : [Owner -> Nat]]

BoardsTypeOK ==
  /\ board \in Boards
  /\ boardRows \in past /\ \A rows \in past : AreRows(board, rows)
  /\ boardClock \in Nat
  /\ shelf \in [got : APage, until : Nat, asOf : SUBSET SUBSET ARow]
  /\ reader \in [Reader -> AReader]

(***************************************************************************)
(* An owner whose place was the same whenever a page was read is shown     *)
(* once, no matter what happens to the others between the pages, how old   *)
(* the cached first page is, how far the replicas lag and whether scores   *)
(* are equal.  (A player with two best attempts of the same second may be  *)
(* shown twice or not at all.)                                             *)
(***************************************************************************)
StableRowsAreShownOnce ==
  \A r \in Patient, o \in Owner : \A x \in UNION reader[r].asOf :
    (\A rows \in reader[r].asOf : Best(rows, o) = {x})
    => /\ reader[r].times[o] <= 1
       /\ reader[r].at = "done" => reader[r].times[o] = 1

=============================================================================

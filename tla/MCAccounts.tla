----------------------------- MODULE MCAccounts -----------------------------
(***************************************************************************)
(* What belongs to a user, in one run: sign-in and API keys of the auth    *)
(* service, and the submissions, challenges and boards of the game         *)
(* service.  They share no state in their models; focus chooses at the     *)
(* start which of them runs, the others rest.                              *)
(***************************************************************************)
EXTENDS MCGameStore, GameSeasons, GameBoards, Sessions, ApiKeys

VARIABLE focus

ASSUME SeasonsConstantsOK /\ SessionsConstantsOK /\ KeysConstantsOK

(* Boards of three that are read in pages of one.                          *)
BoardRow(o, score, listed) ==
  [owner |-> o, score |-> score, id |-> o, ts |-> 0, listed |-> listed]
FirstRows ==
  [challenge |-> {{BoardRow(1, 0, TRUE), BoardRow(2, 0, TRUE)}},
   season |-> {{BoardRow(1, 0, TRUE), BoardRow(2, 0, TRUE), BoardRow(3, 1, FALSE)}},
   list |-> {{}}]

(* Publishers of every kind for one pair of artists, or two of dailies    *)
(* that have a choice of pairs.                                           *)
TaskAdminPlayer == <<"task", "admin", "player">>
OfOnePair == \A q \in Author : job'[q].pair \in {Null, 1}
OfDailies == \A q \in Author : KindOf[q] = "player" => UNCHANGED job[q]

accountsVars == <<focus, vars, seasonVars, boardVars, sessionsVars, keyVars>>

AccountsInit ==
  /\ focus \in {"sessions", "keys", "store", "dailies", "publishers", "board"}
  /\ IF focus = "sessions" THEN SessionsInit ELSE SessionsInitWith(Nobody)
  /\ KeysInit
  /\ Init
  /\ SeasonsInit
  /\ IF focus = "board" THEN BoardsInit ELSE BoardsInitWith("list", {})

AccountsNext ==
  /\ \/ /\ focus = "sessions" /\ SessionsNext
        /\ UNCHANGED <<keyVars, vars, seasonVars, boardVars>>
     \/ /\ focus = "keys" /\ KeysNext
        /\ UNCHANGED <<sessionsVars, vars, seasonVars, boardVars>>
     \/ /\ focus = "store" /\ Next
        /\ UNCHANGED <<keyVars, sessionsVars, seasonVars, boardVars>>
     \/ /\ focus \in {"dailies", "publishers"} /\ SeasonsNext
        /\ IF focus = "dailies" THEN OfDailies ELSE OfOnePair
        /\ UNCHANGED <<keyVars, sessionsVars, vars, boardVars>>
     \/ /\ focus = "board" /\ BoardsNext
        /\ UNCHANGED <<keyVars, sessionsVars, vars, seasonVars>>
  /\ UNCHANGED focus

AccountsSpec == AccountsInit /\ [][AccountsNext]_accountsVars

=============================================================================

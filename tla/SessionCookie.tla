---------------------------- MODULE SessionCookie ----------------------------
(***************************************************************************)
(* The session cookie: six-feat-auth writes it (Encrypt), six-feat reads   *)
(* it (Decrypt), each with the key of the APP_SECRET that it was started   *)
(* with.  Inside is a line of JSON that hand-written functions write and   *)
(* search, in Base64 that hand-written loops code.  AppSecretParityChecker *)
(* compares the keys of the two services from time to time.                *)
(*                                                                         *)
(* Bytes are numbers, a character of Base64 is its value.  AES-GCM is the  *)
(* key that a payload was sealed with: with another one it does not open.  *)
(***************************************************************************)
EXTENDS Integers, Sequences

CONSTANTS
  Token, Name,           \* byte strings: access tokens and display names
  Secret,                \* keys made of APP_SECRET
  SessionTtl,            \* session_ttl_days_
  MaxWall, MaxRestarts   \* bounds on the clock (of one digit) and on restarts

Bytes == 0..255

ASSUME CookieConstants ==
  /\ Token \subseteq Seq(Bytes) /\ Name \subseteq Seq(Bytes)
  /\ SessionTtl \in Nat /\ MaxWall \in Nat /\ MaxWall + SessionTtl <= 9 /\ MaxRestarts \in Nat

VARIABLES
  account,    \* who signs in: token and name, the same each time
  wall,       \* system_clock, in the units of SessionTtl
  keyOf,      \* the keys the two services run with
  parity,     \* status_ of the checker
  cookie,     \* six_feat_session: the key it was sealed with, and the Base64 of what was sealed
  restarts,
  minted,     \* history: what the cookie was made of
  compared    \* history: a check reached six-feat-auth after the last restart

cookieVars == <<account, wall, keyOf, parity, cookie, restarts, minted, compared>>

Service == {"auth", "api"}
NoCookie == [key |-> "none", text |-> <<>>]
NoSession == [tok |-> <<>>, exp |-> -1, name |-> <<>>]

CookieInitWith(who, keys) ==
  /\ account = who
  /\ wall = 0
  /\ keyOf = keys
  /\ parity = "unknown"
  /\ cookie = NoCookie
  /\ restarts = 0
  /\ minted = NoSession
  /\ compared = FALSE

CookieInit == \E who \in [tok : Token, name : Name], keys \in [Service -> Secret] : CookieInitWith(who, keys)

-----------------------------------------------------------------------------
(* Base64 without padding *)

Byte(b, i) == IF i <= Len(b) THEN b[i] ELSE 0

(***************************************************************************)
(* Three bytes give four characters, a last one or two give two or three.  *)
(***************************************************************************)
Base64UrlEncode(b) ==
  LET Char(k) ==
        LET i == 3 * ((k - 1) \div 4) + 1
            word == Byte(b, i) * 65536 + Byte(b, i + 1) * 256 + Byte(b, i + 2)
        IN (word \div (64 ^ (3 - ((k - 1) % 4)))) % 64
  IN [k \in 1..((Len(b) * 4 + 2) \div 3) |-> Char(k)]

(***************************************************************************)
(* buf is an int that is shifted and never cleared; what is read of it are *)
(* at most its last 14 bits, so it is kept modulo 2^14.                    *)
(***************************************************************************)
Shifted(acc, char) ==
  LET buf == (acc.buf * 64 + char) % 16384
      bits == acc.bits + 6
  IN IF bits >= 8
     THEN [buf |-> buf, bits |-> bits - 8,
           out |-> Append(acc.out, (buf \div 2 ^ (bits - 8)) % 256)]
     ELSE [buf |-> buf, bits |-> bits, out |-> acc.out]

Base64UrlDecode(text) ==
  LET after[i \in 0..Len(text)] ==
        IF i = 0 THEN [buf |-> 0, bits |-> 0, out |-> <<>>] ELSE Shifted(after[i - 1], text[i])
  IN after[Len(text)].out

-----------------------------------------------------------------------------
(* JSON *)

Quote == 34
Backslash == 92
Colon == 58
Comma == 44
LetterU == 117

(* \b \t \n \f \r, each with its letter. *)
Letter ==
  [c \in {8, 9, 10, 12, 13} |->
     CASE c = 8 -> 98 [] c = 9 -> 116 [] c = 10 -> 110 [] c = 12 -> 102 [] c = 13 -> 114]

Hex(digit) == IF digit < 10 THEN 48 + digit ELSE 87 + digit
HexValue(char) == IF char < 58 THEN char - 48 ELSE char - 87

EscapedByte(c) ==
  CASE c \in {Quote, Backslash} -> <<Backslash, c>>
    [] c \in DOMAIN Letter -> <<Backslash, Letter[c]>>
    [] c < 32 /\ c \notin DOMAIN Letter -> <<Backslash, LetterU, Hex(0), Hex(0), Hex(c \div 16), Hex(c % 16)>>
    [] OTHER -> <<c>>

\* Mutant: a backslash is left as it is.
EscapeQuotesOnly(s) ==
  LET out[i \in 0..Len(s)] ==
        IF i = 0 THEN <<>>
        ELSE out[i - 1] \o (IF s[i] = Backslash THEN <<s[i]>> ELSE EscapedByte(s[i]))
  IN out[Len(s)]

JsonEscape(s) ==
  LET out[i \in 0..Len(s)] == IF i = 0 THEN <<>> ELSE out[i - 1] \o EscapedByte(s[i])
  IN out[Len(s)]

(***************************************************************************)
(* A turn of JsonUnescape's loop, i bytes into s: the byte as it is, or    *)
(* what a backslash and the next stand for: a letter, four hex digits (of  *)
(* a byte below 128: JsonEscape writes no other), or that byte itself.     *)
(***************************************************************************)
Unescaped(s, acc) ==
  LET i == acc.i
      Goes(to, byte) == [i |-> to, out |-> Append(acc.out, byte)]
  IN
  CASE i > Len(s) -> acc
    [] i <= Len(s) /\ (s[i] # Backslash \/ i = Len(s)) -> Goes(i + 1, s[i])
    [] i < Len(s) /\ s[i] = Backslash ->
         LET n == s[i + 1] IN
         CASE n = LetterU /\ i + 5 <= Len(s) ->
                Goes(i + 6, HexValue(s[i + 4]) * 16 + HexValue(s[i + 5]))
           [] n = LetterU /\ i + 5 > Len(s) -> [acc EXCEPT !.i = i + 2]
           [] \E b \in DOMAIN Letter : Letter[b] = n ->
                Goes(i + 2, CHOOSE b \in DOMAIN Letter : Letter[b] = n)
           [] OTHER -> Goes(i + 2, n)

JsonUnescape(s) ==
  LET turn[k \in 0..Len(s)] ==
        IF k = 0 THEN [i |-> 1, out |-> <<>>] ELSE Unescaped(s, turn[k - 1])
  IN turn[Len(s)].out

(* Where needle ends first in json, 0 if it is not there. *)
After(json, needle) ==
  LET found == {i \in 1..(Len(json) - Len(needle) + 1) : SubSeq(json, i, i + Len(needle) - 1) = needle}
  IN IF found = {} THEN 0 ELSE (CHOOSE i \in found : \A j \in found : i <= j) + Len(needle)

(* Keys are one letter here: t(ok), e(xp), n(ame). *)
Opening(key) == <<Quote, key, Quote, Colon>>

(***************************************************************************)
(* The first text that looks like the key, up to the first quote that no   *)
(* backslash stands before.                                                *)
(***************************************************************************)
Onward(json, i) ==
  IF i > Len(json) \/ json[i] = Quote THEN i
  ELSE IF json[i] = Backslash /\ i < Len(json) THEN i + 2 ELSE i + 1

JsonGetString(json, key) ==
  LET first == After(json, Opening(key) \o <<Quote>>)
      turn[k \in 0..Len(json)] == IF k = 0 THEN first ELSE Onward(json, turn[k - 1])
      end == turn[Len(json)]
  IN IF first = 0 \/ end > Len(json) THEN <<>> ELSE JsonUnescape(SubSeq(json, first, end - 1))

(* Times have one digit. *)
JsonGetInt(json, key) ==
  LET first == After(json, Opening(key)) IN
  IF first = 0 \/ Byte(json, first) \notin 48..57 THEN 0 ELSE json[first] - 48

-----------------------------------------------------------------------------
(* The cookie *)

(***************************************************************************)
(* The name is the one optional field here: prov and uid, written and read *)
(* by the same lines after it, are left out.                               *)
(***************************************************************************)
Encrypt(s, key) ==
  LET json == <<123>> \o Opening(116) \o <<Quote>> \o JsonEscape(s.tok) \o <<Quote, Comma>>
                \o Opening(101) \o <<48 + s.exp>>
                \o (IF s.name = <<>> THEN <<>>
                    ELSE <<Comma>> \o Opening(110) \o <<Quote>> \o JsonEscape(s.name) \o <<Quote>>)
                \o <<125>>
  IN [key |-> key, text |-> Base64UrlEncode(json)]

(* A session is valid through the second it expires in. *)
Decrypt(value, key) ==
  LET json == Base64UrlDecode(value.text)
      session == [tok |-> JsonGetString(json, 116), exp |-> JsonGetInt(json, 101),
                  name |-> JsonGetString(json, 110)]
  IN IF value.key # key \/ session.exp < wall THEN NoSession ELSE session

(***************************************************************************)
(* IssueSessionCookies, by six-feat-auth.                                  *)
(***************************************************************************)
IssueSessionCookies ==
  LET session == [tok |-> account.tok, exp |-> wall + SessionTtl, name |-> account.name] IN
  /\ minted' = session
  /\ cookie' = Encrypt(session, keyOf["auth"])
  /\ UNCHANGED <<account, wall, keyOf, parity, restarts, compared>>

-----------------------------------------------------------------------------
(* The two services *)

(***************************************************************************)
(* A service is started again, perhaps with another APP_SECRET (KeyFromEnv *)
(* at construction).                                                       *)
(***************************************************************************)
RestartService(service, secret) ==
  /\ restarts < MaxRestarts
  /\ restarts' = restarts + 1
  /\ keyOf' = [keyOf EXCEPT ![service] = secret]
  /\ parity' = IF service = "api" THEN "unknown" ELSE parity
  /\ compared' = FALSE
  /\ UNCHANGED <<account, wall, cookie, minted>>

Fingerprint(service) == keyOf[service]

(***************************************************************************)
(* At the start, before requests are served, and then by CheckLoop.  A     *)
(* check that fails leaves "unreachable", also where an earlier one found  *)
(* a mismatch.                                                             *)
(***************************************************************************)
PerformCheck ==
  /\ \/ /\ parity' = IF Fingerprint("auth") = Fingerprint("api") THEN "ok" ELSE "mismatch"
        /\ compared' = TRUE
     \/ /\ parity' = "unreachable"
        /\ UNCHANGED compared
  /\ UNCHANGED <<account, wall, keyOf, cookie, restarts, minted>>

(***************************************************************************)
(* What SettingsStatusHandler answers: without a session it blames the     *)
(* configuration if the last check found a mismatch.                       *)
(***************************************************************************)
RequireFullSession == IF cookie = NoCookie THEN NoSession ELSE Decrypt(cookie, keyOf["api"])

SettingsStatus ==
  CASE RequireFullSession # NoSession -> "200"
    [] RequireFullSession = NoSession /\ parity = "mismatch" -> "503 backend_misconfigured"
    [] OTHER -> "401 not authenticated"

CookieTick ==
  /\ wall < MaxWall
  /\ wall' = wall + 1
  /\ UNCHANGED <<account, keyOf, parity, cookie, restarts, minted, compared>>

CookieNext ==
  \/ IssueSessionCookies
  \/ \E service \in Service, secret \in Secret : RestartService(service, secret)
  \/ PerformCheck \/ CookieTick

CookieSpec == CookieInit /\ [][CookieNext]_cookieVars

-----------------------------------------------------------------------------
CookieTypeOK ==
  /\ wall \in 0..MaxWall /\ restarts \in 0..MaxRestarts /\ compared \in BOOLEAN
  /\ keyOf \in [Service -> Secret]
  /\ parity \in {"unknown", "ok", "mismatch", "unreachable"}
  /\ cookie.text \in Seq(0..63)

(***************************************************************************)
(* A session that has not expired reads back as it was minted, whatever    *)
(* the token and the name are made of, by a six-feat that runs with the    *)
(* key of the six-feat-auth that minted it; by any other, or after its     *)
(* time, not at all.  And once a check has reached the six-feat-auth that  *)
(* runs, a browser with an unexpired session of it is told that it is not  *)
(* signed in only while the last check is one that failed, which forgets   *)
(* a mismatch that was found before: otherwise the status is given, or     *)
(* secrets that differ are blamed.                                         *)
(***************************************************************************)
SessionsReadBack ==
  cookie # NoCookie =>
    /\ RequireFullSession =
         IF cookie.key = keyOf["api"] /\ wall <= minted.exp THEN minted ELSE NoSession
    /\ compared /\ cookie.key = keyOf["auth"] /\ wall <= minted.exp =>
         SettingsStatus # "401 not authenticated" \/ parity = "unreachable"

=============================================================================

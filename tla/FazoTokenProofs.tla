---------------------------- MODULE FazoTokenProofs ----------------------------
(***************************************************************************)
(* The token of creation-fazo.client.ts, for any number of calls and of    *)
(* tokens.                                                                 *)
(***************************************************************************)
EXTENDS FazoToken, TLAPS

(***************************************************************************)
(* Types.                                                                  *)
(***************************************************************************)

\* A step of the token or of a call keeps the shapes of the cached token and of
\* the calls' local variables.
LEMMA FazoTypeStep == ASSUME FazoTypeOK, [FazoNext]_fazoVars PROVE FazoTypeOK'
<1> USE TokensAssumption DEF FazoTypeOK, FazoEnded
<1>1. CASE TokenAges BY <1>1 DEF TokenAges, isTokenExpired
<1>2. CASE TokenRevoked
  <2>1. PICK t \in fazo.valid : fazo' = [fazo EXCEPT !.valid = @ \ {t}] BY <1>2 DEF TokenRevoked
  <2>2. fcall' = [c \in FazoCalls |->
          IF fcall[c].pc \in FazoEnded \cup {"new"} THEN fcall[c] ELSE [fcall[c] EXCEPT !.revoked = TRUE]]
    BY <1>2 DEF TokenRevoked
  <2> QED BY <2>1, <2>2
<1>3. ASSUME NEW c \in FazoCalls, ensureValidToken(c) PROVE FazoTypeOK'
  BY <1>3 DEF ensureValidToken, FazoTo
<1>4. ASSUME NEW c \in FazoCalls, getToken(c) PROVE FazoTypeOK'
  <2>1. CASE FazoTo(c, "failed") /\ UNCHANGED fazo BY <2>1 DEF FazoTo
  <2>2. CASE /\ fazo.issued < MaxTokens
             /\ fazo' = [token |-> fazo.issued + 1, stale |-> FALSE, issued |-> fazo.issued + 1,
                         valid |-> fazo.valid \cup {fazo.issued + 1}]
             /\ FazoTo(c, IF fcall[c].pc = "login" THEN "send" ELSE "again")
    <3>1. fazo.issued + 1 \in 0..MaxTokens /\ fazo.issued + 1 \in 1..MaxTokens BY <2>2
    <3> QED BY <2>2, <3>1 DEF FazoTo
  <2> QED BY <1>4, <2>1, <2>2 DEF getToken
<1>5. ASSUME NEW c \in FazoCalls, requestWithAuth(c) PROVE FazoTypeOK'
  BY <1>5 DEF requestWithAuth
<1>6. CASE UNCHANGED fazoVars BY <1>6 DEF fazoVars
<1> QED BY <1>1, <1>2, <1>3, <1>4, <1>5, <1>6 DEF FazoNext, FazoStep

\* The cached token, its expiry and every call's local variables always have
\* the shapes of creation-fazo.client.ts.
THEOREM FazoTypeCorrect == FazoSpec => []FazoTypeOK
<1>1. FazoInit => FazoTypeOK
  BY TokensAssumption DEF FazoInit, FazoTypeOK, FazoEnded
<1> QED BY <1>1, FazoTypeStep, PTL DEF FazoSpec

(***************************************************************************)
(* One account per call.                                                   *)
(***************************************************************************)

\* A call that is not over has not been executed, and has been sent once if its
\* one repetition is used up.
CallsAreCounted ==
  \A c \in FazoCalls :
    /\ fcall[c].done <= 1 /\ fcall[c].sent <= 2
    /\ fcall[c].pc \notin FazoEnded =>
         fcall[c].done = 0 /\ fcall[c].sent = IF fcall[c].retry THEN 0 ELSE 1

\* requestWithAuth is the only step that counts; it repeats a refusal once.
LEMMA CountStep ==
  ASSUME FazoTypeOK, CallsAreCounted, [FazoNext]_fazoVars PROVE CallsAreCounted'
<1> USE DEF FazoTypeOK, FazoEnded, CallsAreCounted
<1>1. CASE TokenAges BY <1>1 DEF TokenAges
<1>2. CASE TokenRevoked BY <1>2 DEF TokenRevoked
<1>3. ASSUME NEW c \in FazoCalls, ensureValidToken(c) PROVE CallsAreCounted'
  BY <1>3 DEF ensureValidToken, FazoTo
<1>4. ASSUME NEW c \in FazoCalls, getToken(c) PROVE CallsAreCounted'
  <2>1. \E p \in FazoEnded \cup {"send", "again"} : fcall' = [fcall EXCEPT ![c].pc = p]
    BY <1>4 DEF getToken, FazoTo
  <2> QED BY <1>4, <2>1 DEF getToken
<1>5. ASSUME NEW c \in FazoCalls, requestWithAuth(c) PROVE CallsAreCounted'
  <2>1. fcall[c].pc = "send" /\ fcall[c].done = 0 /\ fcall[c].sent = IF fcall[c].retry THEN 0 ELSE 1
    BY <1>5 DEF requestWithAuth
  <2>2. ASSUME NEW d \in FazoCalls, d # c PROVE fcall'[d] = fcall[d]
    BY <1>5, <2>2 DEF requestWithAuth
  <2>3. /\ fcall'[c].done <= 1 /\ fcall'[c].sent <= 2
        /\ fcall'[c].pc \notin FazoEnded =>
             fcall'[c].done = 0 /\ fcall'[c].sent = IF fcall'[c].retry THEN 0 ELSE 1
    BY <1>5, <2>1 DEF requestWithAuth
  <2> QED BY <2>2, <2>3
<1>6. CASE UNCHANGED fazoVars BY <1>6 DEF fazoVars
<1> QED BY <1>1, <1>2, <1>3, <1>4, <1>5, <1>6 DEF FazoNext, FazoStep

\* requestWithAuth sends a call at most twice and the broker executes it at most
\* once, however tokens expire and answers are lost.
THEOREM FazoOneAccount == FazoSpec => []OneAccountPerCall
<1>1. FazoInit => FazoTypeOK /\ CallsAreCounted
  BY TokensAssumption DEF FazoInit, FazoTypeOK, FazoEnded, CallsAreCounted
<1>2. FazoTypeOK /\ CallsAreCounted /\ [FazoNext]_fazoVars => (FazoTypeOK /\ CallsAreCounted)'
  BY FazoTypeStep, CountStep
<1>3. CallsAreCounted => OneAccountPerCall BY DEF CallsAreCounted, OneAccountPerCall
<1> QED BY <1>1, <1>2, <1>3, PTL DEF FazoSpec

(***************************************************************************)
(* A refusal is the broker's doing.                                        *)
(***************************************************************************)

\* When a call that was refused once goes on, the cached token is one the broker
\* accepts, unless the broker ended a token while the call ran.
SecondTokenIsGood ==
  \A c \in FazoCalls :
    /\ fcall[c].pc = "new" => fcall[c].retry
    /\ fcall[c].pc = "again" /\ ~fcall[c].revoked => fazo.token \in fazo.valid
    /\ fcall[c].pc = "send" /\ ~fcall[c].retry /\ ~fcall[c].revoked => fazo.token \in fazo.valid
    /\ fcall[c].pc = "unauthorized" => fcall[c].revoked

\* A token that is stored, by whichever call, is one the broker has just given.
LEMMA SecondTokenStep ==
  ASSUME FazoTypeOK, SecondTokenIsGood, [FazoNext]_fazoVars PROVE SecondTokenIsGood'
<1> USE DEF FazoTypeOK, FazoEnded, SecondTokenIsGood
<1>1. CASE TokenAges BY <1>1 DEF TokenAges
<1>2. CASE TokenRevoked BY <1>2 DEF TokenRevoked
<1>3. ASSUME NEW c \in FazoCalls, ensureValidToken(c) PROVE SecondTokenIsGood'
  BY <1>3 DEF ensureValidToken, FazoTo
<1>4. ASSUME NEW c \in FazoCalls, getToken(c) PROVE SecondTokenIsGood'
  <2>1. CASE FazoTo(c, "failed") /\ UNCHANGED fazo BY <2>1 DEF FazoTo
  <2>2. CASE fazo'.token \in fazo'.valid
    <3>1. \E p \in {"failed", "send", "again"} : fcall' = [fcall EXCEPT ![c].pc = p]
      BY <1>4 DEF getToken, FazoTo
    <3> QED BY <2>2, <3>1
  <2>3. (FazoTo(c, "failed") /\ UNCHANGED fazo) \/ fazo'.token \in fazo'.valid
    BY <1>4 DEF getToken
  <2> QED BY <2>1, <2>2, <2>3
<1>5. ASSUME NEW c \in FazoCalls, requestWithAuth(c) PROVE SecondTokenIsGood'
  BY <1>5 DEF requestWithAuth
<1>6. CASE UNCHANGED fazoVars BY <1>6 DEF fazoVars
<1> QED BY <1>1, <1>2, <1>3, <1>4, <1>5, <1>6 DEF FazoNext, FazoStep

\* requestWithAuth answers a refusal only if the broker ended a token while the
\* call ran: neither an old cached token nor a concurrent login fails a call.
THEOREM FazoRefusedOnlyIfRevoked == FazoSpec => []RefusedOnlyIfRevoked
<1>1. FazoInit => FazoTypeOK /\ SecondTokenIsGood
  BY TokensAssumption DEF FazoInit, FazoTypeOK, FazoEnded, SecondTokenIsGood
<1>2. FazoTypeOK /\ SecondTokenIsGood /\ [FazoNext]_fazoVars => (FazoTypeOK /\ SecondTokenIsGood)'
  BY FazoTypeStep, SecondTokenStep
<1>3. SecondTokenIsGood => RefusedOnlyIfRevoked BY DEF SecondTokenIsGood, RefusedOnlyIfRevoked
<1> QED BY <1>1, <1>2, <1>3, PTL DEF FazoSpec
=============================================================================

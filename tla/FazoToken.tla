------------------------------ MODULE FazoToken ------------------------------
(***************************************************************************)
(* creation-fazo.client.ts: the token every call to the broker's account   *)
(* API shares, its expiry in this process and at the broker, and the one   *)
(* repetition of a call the broker does not authorise.                     *)
(***************************************************************************)
EXTENDS Naturals

CONSTANTS FazoCalls, MaxTokens   \* bound on the tokens the broker gives

ASSUME TokensAssumption == MaxTokens \in Nat

VARIABLES fazo, fcall

fazoVars == <<fazo, fcall>>

FazoEnded == {"ok", "failed", "unauthorized"}

FazoInit ==
  /\ fazo = [token |-> 0,          \* the cached token, 0 for none
             stale |-> FALSE,      \* its fifteen minutes are over
             issued |-> 0,         \* tokens given so far
             valid |-> {}]         \* those the broker accepts
  /\ fcall = [c \in FazoCalls |-> [pc |-> "new", retry |-> TRUE, sent |-> 0, done |-> 0, revoked |-> FALSE]]

FazoTo(c, p) == fcall' = [fcall EXCEPT ![c].pc = p]
isTokenExpired == fazo.token = 0 \/ fazo.stale

\* requestWithAuth begins, and begins again after a refusal: ensureValidToken.
ensureValidToken(c) ==
  /\ fcall[c].pc \in {"new", "again"}
  /\ FazoTo(c, IF isTokenExpired THEN "login" ELSE "send")
  /\ UNCHANGED fazo

\* Mutant of getToken: after a refusal the cached token is taken if it is fresh.
getTokenUnlessFresh(c) ==
  /\ fcall[c].pc \in {"login", "relogin"}
  /\ \/ /\ isTokenExpired /\ fazo.issued < MaxTokens
        /\ fazo' = [token |-> fazo.issued + 1, stale |-> FALSE, issued |-> fazo.issued + 1,
                    valid |-> fazo.valid \cup {fazo.issued + 1}]
        /\ FazoTo(c, IF fcall[c].pc = "login" THEN "send" ELSE "again")
     \/ ~isTokenExpired /\ UNCHANGED fazo /\ FazoTo(c, IF fcall[c].pc = "login" THEN "send" ELSE "again")
     \/ FazoTo(c, "failed") /\ UNCHANGED fazo

\* Mutant of getToken: the tokens are counted from the one that is cached.
getTokenAgain(c) ==
  /\ fcall[c].pc \in {"login", "relogin"}
  /\ fazo' = [fazo EXCEPT !.token = fazo.issued + 1, !.issued = @ + 1, !.stale = FALSE]
  /\ FazoTo(c, "send")

\* getToken: the answer is stored whatever is stored by then; without one the
\* call fails.
getToken(c) ==
  /\ fcall[c].pc \in {"login", "relogin"}
  /\ \/ /\ fazo.issued < MaxTokens
        /\ fazo' = [token |-> fazo.issued + 1, stale |-> FALSE, issued |-> fazo.issued + 1,
                    valid |-> fazo.valid \cup {fazo.issued + 1}]
        /\ FazoTo(c, IF fcall[c].pc = "login" THEN "send" ELSE "again")
     \/ FazoTo(c, "failed") /\ UNCHANGED fazo

\* Mutant of requestWithAuth: also a lost answer is tried again.
requestRepeated(c) ==
  /\ fcall[c].pc = "send"
  /\ \/ /\ fazo.token \in fazo.valid
        /\ \E p \in {"ok", IF fcall[c].retry THEN "relogin" ELSE "failed"} :
             fcall' = [fcall EXCEPT ![c].pc = p, ![c].sent = @ + 1, ![c].done = @ + 1, ![c].retry = FALSE]
     \/ fcall' = [fcall EXCEPT ![c].pc = "failed", ![c].sent = @ + 1]
  /\ UNCHANGED fazo

\* The request carries the token that is cached when it is sent.  The broker
\* executes it, or refuses the token; the answer may be lost.
requestWithAuth(c) ==
  /\ fcall[c].pc = "send"
  /\ \/ /\ fazo.token \in fazo.valid
        /\ \E p \in {"ok", "failed"} :
             fcall' = [fcall EXCEPT ![c].pc = p, ![c].sent = @ + 1, ![c].done = @ + 1]
     \/ /\ fazo.token \notin fazo.valid
        /\ fcall' = [fcall EXCEPT ![c].pc = IF fcall[c].retry THEN "relogin" ELSE "unauthorized",
                                  ![c].sent = @ + 1, ![c].retry = FALSE]
     \/ fcall' = [fcall EXCEPT ![c].pc = "failed", ![c].sent = @ + 1]
  /\ UNCHANGED fazo

\* Fifteen minutes go by here, and a token ends at the broker.
TokenAges == ~isTokenExpired /\ fazo' = [fazo EXCEPT !.stale = TRUE] /\ UNCHANGED fcall

TokenRevoked ==
  /\ \E t \in fazo.valid : fazo' = [fazo EXCEPT !.valid = @ \ {t}]
  /\ fcall' = [c \in FazoCalls |->
       IF fcall[c].pc \in FazoEnded \cup {"new"} THEN fcall[c] ELSE [fcall[c] EXCEPT !.revoked = TRUE]]

FazoStep(c) == ensureValidToken(c) \/ getToken(c) \/ requestWithAuth(c)

FazoNext == TokenAges \/ TokenRevoked \/ \E c \in FazoCalls : FazoStep(c)

FazoSpec == FazoInit /\ [][FazoNext]_fazoVars

FazoTypeOK ==
  /\ fazo \in [token : 0..MaxTokens, stale : BOOLEAN, issued : 0..MaxTokens, valid : SUBSET (1..MaxTokens)]
  /\ fcall \in [FazoCalls -> [pc : FazoEnded \cup {"new", "again", "login", "relogin", "send"},
                              retry : BOOLEAN, sent : Nat, done : Nat, revoked : BOOLEAN]]

\* The broker opens at most one account for a call, which is sent at most twice:
\* only a refusal is tried again, never a call whose answer was lost.
OneAccountPerCall == \A c \in FazoCalls : fcall[c].done <= 1 /\ fcall[c].sent <= 2

\* A call is refused for good only if the broker ended a token while it ran: a
\* cached token that ended before, or one another call fetched meanwhile, does
\* not fail it.
RefusedOnlyIfRevoked == \A c \in FazoCalls : fcall[c].pc = "unauthorized" => fcall[c].revoked
=============================================================================

------------------------- MODULE CachedTokenSource -------------------------
(***************************************************************************)
(* The OIDC credential shared by the senders of one connection             *)
(* (managerclient/oidc_token.go).  Callers join a singleflight group under *)
(* one of two keys, "normal" and "force"; the goroutine of a flight holds  *)
(* acquireMu while it looks at the cache or mints; Close cancels minting.  *)
(* Local steps take no time, so time passes only while everybody waits.    *)
(***************************************************************************)
EXTENDS Integers

CONSTANTS Callers,       \* goroutines that ask for a token
          Lifetime,      \* how long a minted token is valid
          EarlyExpiry,   \* DefaultIDTokenEarlyExpiry
          MintTimeout,   \* DefaultMintHTTPTimeout
          MaxTime        \* bound on the clock

ASSUME TokenAssumption ==
    /\ {Lifetime, EarlyExpiry, MintTimeout, MaxTime} \subseteq Nat
    /\ EarlyExpiry < Lifetime /\ MintTimeout > 0

VARIABLES now,        \* the clock
          flight,     \* per key, the flight that callers join
          acquireMu,  \* the key whose flight holds the mutex, or "free"
          reuse,      \* the token of the reuse source
          closed,     \* CachedTokenSource.closed
          cancelled,  \* opCtx has been cancelled
          waiting,    \* the flight a caller waits for
          answer,     \* what the flight told the caller
          refreshed   \* history: the last token a forced refresh returned

tokenVars == <<flight, acquireMu, reuse, closed, cancelled, waiting, answer, refreshed>>

Keys == {"normal", "force"}
NoToken == [minted |-> -1, exp |-> -1]
Failed == [minted |-> -2, exp |-> -1]
Tokens == [minted : 0 .. MaxTime, exp : 0 .. MaxTime + Lifetime] \cup {NoToken, Failed}
NoFlight == [stage |-> "none", since |-> 0, token |-> NoToken]
Queued == [stage |-> "queued", since |-> 0, token |-> NoToken]
Stages == {"none", "queued", "minting", "minted", "done"}

TokenTypeOK ==
    /\ now \in 0 .. MaxTime
    /\ flight \in [Keys -> [stage : Stages, since : 0 .. MaxTime, token : Tokens]]
    /\ acquireMu \in Keys \cup {"free"}
    /\ {reuse, refreshed} \subseteq Tokens \ {Failed}
    /\ closed \in BOOLEAN /\ cancelled \in BOOLEAN /\ (cancelled => closed)
    /\ waiting \in [Callers -> Keys \cup {"none"}]
    /\ answer \in [Callers -> Tokens]
    /\ \A k \in Keys : acquireMu = k <=> flight[k].stage \in {"minting", "minted"}

TokenInit ==
    /\ now = 0
    /\ flight = [k \in Keys |-> NoFlight]
    /\ acquireMu = "free"
    /\ reuse = NoToken
    /\ closed = FALSE /\ cancelled = FALSE
    /\ waiting = [c \in Callers |-> "none"]
    /\ answer = [c \in Callers |-> NoToken]
    /\ refreshed = NoToken

(* The token is not within the early-expiry window. *)
Valid(t) == t.exp - EarlyExpiry > now

(* DoChan: start a flight, or join the one under way. *)
waitAcquire(c, k) ==
    /\ waiting' = [waiting EXCEPT ![c] = k]
    /\ answer' = [answer EXCEPT ![c] = NoToken]
    /\ flight' = [flight EXCEPT ![k] = IF @ = NoFlight THEN Queued ELSE @]
    /\ UNCHANGED <<acquireMu, reuse, closed, cancelled, refreshed>>

(* The caller's context ends: it leaves, the flight goes on. *)
GiveUp(c) ==
    /\ waiting' = [waiting EXCEPT ![c] = "none"]
    /\ answer' = [answer EXCEPT ![c] = NoToken]
    /\ UNCHANGED <<flight, acquireMu, reuse, closed, cancelled, refreshed>>

Finish(k, t) == flight' = [flight EXCEPT ![k] = [stage |-> "done", since |-> 0, token |-> t]]

\* Mutant: flights of the two keys do not exclude each other.
LockPerKey(k) == TRUE

LockFree(k) == acquireMu = "free"

(* executeAcquire up to the mint: closed, cache hit, or a mint begins. *)
executeAcquire(k) ==
    /\ flight[k].stage = "queued" /\ LockFree(k)
    /\ \/ /\ closed
          /\ Finish(k, Failed) /\ UNCHANGED acquireMu
       \/ /\ ~closed /\ k = "normal" /\ Valid(reuse)
          /\ Finish(k, reuse) /\ UNCHANGED acquireMu
       \/ /\ ~closed /\ (k = "force" \/ ~Valid(reuse))
          /\ flight' = [flight EXCEPT ![k] = [stage |-> "minting", since |-> now, token |-> NoToken]]
          /\ acquireMu' = k
    /\ UNCHANGED <<now, reuse, closed, cancelled, waiting, answer, refreshed>>

(* The mint endpoint answers; its token is dated when it was issued. *)
TokenContext(k) ==
    /\ flight[k].stage = "minting" /\ ~cancelled
    /\ \E issued \in flight[k].since .. now :
         LET t == [minted |-> issued, exp |-> issued + Lifetime]
         IN IF k = "normal"
            THEN /\ Finish(k, t) /\ acquireMu' = "free" /\ reuse' = t
            ELSE /\ flight' = [flight EXCEPT ![k] = [stage |-> "minted", since |-> 0, token |-> t]]
                 /\ UNCHANGED <<acquireMu, reuse>>
    /\ UNCHANGED <<now, closed, cancelled, waiting, answer, refreshed>>

(* It refuses, times out or is cancelled: the cache stays as it is. *)
MintFails(k) ==
    /\ flight[k].stage = "minting"
    /\ Finish(k, Failed) /\ acquireMu' = "free"
    /\ UNCHANGED <<now, reuse, closed, cancelled, waiting, answer, refreshed>>

\* Mutant: the forced refresh does not look at closed again.
InstallUnchecked(k) ==
    /\ flight[k].stage = "minted"
    /\ Finish(k, flight[k].token)
    /\ reuse' = flight[k].token /\ refreshed' = flight[k].token
    /\ acquireMu' = "free"
    /\ UNCHANGED <<now, closed, cancelled, waiting, answer>>

\* Mutant: the forced refresh returns the token without seeding the cache.
InstallNothing(k) ==
    /\ flight[k].stage = "minted"
    /\ Finish(k, IF closed THEN Failed ELSE flight[k].token)
    /\ refreshed' = IF closed THEN refreshed ELSE flight[k].token
    /\ acquireMu' = "free"
    /\ UNCHANGED <<now, reuse, closed, cancelled, waiting, answer>>

(* A forced refresh seeds the cache, unless the source was closed meanwhile. *)
Install(k) ==
    /\ flight[k].stage = "minted"
    /\ \/ /\ closed
          /\ Finish(k, Failed) /\ UNCHANGED <<reuse, refreshed>>
       \/ /\ ~closed
          /\ Finish(k, flight[k].token)
          /\ reuse' = flight[k].token /\ refreshed' = flight[k].token
    /\ acquireMu' = "free"
    /\ UNCHANGED <<now, closed, cancelled, waiting, answer>>

(* singleflight forgets the key and hands the result to all who joined;    *)
(* ForceRefresh drops the token, and its caller only logs the error.       *)
Deliver(k) ==
    /\ flight[k].stage = "done"
    /\ answer' = [c \in Callers |-> IF waiting[c] = k /\ k = "normal" THEN flight[k].token ELSE answer[c]]
    /\ waiting' = [c \in Callers |-> IF waiting[c] = k THEN "none" ELSE waiting[c]]
    /\ flight' = [flight EXCEPT ![k] = NoFlight]
    /\ UNCHANGED <<now, acquireMu, reuse, closed, cancelled, refreshed>>

(* Close sets the flag under mu and cancels after unlocking. *)
Close ==
    /\ ~closed /\ closed' = TRUE
    /\ UNCHANGED <<now, flight, acquireMu, reuse, cancelled, waiting, answer, refreshed>>

Cancel ==
    /\ closed /\ ~cancelled /\ cancelled' = TRUE
    /\ UNCHANGED <<now, flight, acquireMu, reuse, closed, waiting, answer, refreshed>>

TokenStep ==
    \/ \E k \in Keys : executeAcquire(k) \/ TokenContext(k) \/ MintFails(k) \/ Install(k) \/ Deliver(k)
    \/ Close \/ Cancel

(* Nothing local is left to do, and no mint has outlived its context. *)
TokenQuiet ==
    /\ closed => cancelled
    /\ \A k \in Keys :
         /\ flight[k].stage \notin {"minted", "done"}
         /\ flight[k].stage = "queued" => ~LockFree(k)
         /\ flight[k].stage = "minting" => ~cancelled /\ now < flight[k].since + MintTimeout

(***************************************************************************)
(* Properties                                                              *)
(***************************************************************************)

(* The cached token is only ever replaced by one issued no earlier: a      *)
(* failed refresh leaves it, and a slow mint never overwrites a newer      *)
(* token (executeAcquire serializes both keys with acquireMu).             *)
CacheMonotone == [][reuse'.minted >= reuse.minted]_reuse

(* Once Close has set the flag, a forced refresh neither seeds the cache   *)
(* nor returns a token, even when its mint was answered before.            *)
NothingForcedAfterClose == [][closed => refreshed' = refreshed]_refreshed

(* A forced refresh spares later callers the mint: as long as its token is *)
(* valid, no normal flight starts minting (project result refreshes so     *)
(* that the summary sent at shutdown needs no mint service).               *)
RefreshServes ==
    [][flight'["normal"].stage = "minting" /\ flight["normal"].stage # "minting" => ~Valid(refreshed)]_flight
=============================================================================

------------------------- MODULE LogDelivery_proofs -------------------------
(***************************************************************************)
(* Theorems about LogDelivery and the credential it shares, for any number *)
(* of senders and refreshers, any lifetimes, timeouts and delays.          *)
(***************************************************************************)
EXTENDS LogDelivery, TLAPS

TokenRecord == [minted : Int, exp : Int]
Flight == [stage : Stages, since : Nat, token : TokenRecord]

(* A token lives for Lifetime, unless it is none at all. *)
Dated(t) ==
    /\ t \in TokenRecord
    /\ t.minted < 0 => t.exp < 0
    /\ t.minted >= 0 => t.exp = t.minted + Lifetime

FlightTypes == now \in Nat /\ flight \in [Keys -> Flight]

(* Only the flight that holds acquireMu mints. *)
OneMints == \A k \in Keys : flight[k].stage \in {"minting", "minted"} => acquireMu = k

(* The cached token is no older than the one the last forced refresh       *)
(* returned, and no newer than the one that is being minted.               *)
CacheOrdered ==
    /\ Dated(reuse) /\ Dated(refreshed)
    /\ reuse.minted <= now /\ refreshed.minted <= reuse.minted
    /\ \A k \in Keys : flight[k].stage = "minting" =>
         reuse.minted <= flight[k].since /\ flight[k].since <= now
    /\ \A k \in Keys : flight[k].stage = "minted" =>
         /\ Dated(flight[k].token)
         /\ reuse.minted <= flight[k].token.minted /\ flight[k].token.minted <= now

TokenInv == FlightTypes /\ OneMints /\ CacheOrdered

(* The sender's side: no wait reaches past the deadline. *)
SendState == [phase : Phases, attempt : Nat, delay : Nat, until : Nat, deadline : Nat]

InTime(st) ==
    /\ st \in SendState
    /\ st.phase \in {"token", "posted"} => st.until <= st.deadline
    /\ st.phase \in {"token", "posted", "sleep"} => now <= st.deadline

WaitTypes ==
    /\ waiting \in [Callers -> Keys \cup {"none"}]
    /\ \A s \in Senders : waiting[s] # "force"

SendInv ==
    /\ send \in [Senders -> SendState]
    /\ \A s \in Senders : InTime(send[s])
    /\ \A m \in network : m.sender \in Senders

SendSafe == SendInv /\ SentIsStored

IInv == TokenInv /\ WaitTypes /\ SendSafe

(***************************************************************************)
(* The steps of the credential                                             *)
(***************************************************************************)

LEMMA TokenConstants == /\ {Lifetime, EarlyExpiry, MintTimeout, MaxTime} \subseteq Nat
                        /\ NoToken \in TokenRecord /\ Failed \in TokenRecord
                        /\ Dated(NoToken) /\ NoToken.minted = -1
  BY TokenAssumption DEF NoToken, Failed, TokenRecord, Dated

(* A flight that is not minting afterwards, with the cache as it was.  If  *)
(* it lets go of acquireMu, it is the flight that held it.                 *)
LEMMA FlightMoves ==
  ASSUME TokenInv, NEW k \in Keys, NEW f \in Flight,
         f.stage \notin {"minting", "minted"},
         flight' = [flight EXCEPT ![k] = f],
         acquireMu' = acquireMu \/ acquireMu = k,
         UNCHANGED <<now, reuse, refreshed>>
  PROVE  TokenInv'
<1> USE DEF TokenInv, FlightTypes
<1>1. FlightTypes'
  OBVIOUS
<1>2. OneMints'
  BY DEF OneMints
<1>3. CacheOrdered'
  BY DEF CacheOrdered, Dated
<1> QED BY <1>1, <1>2, <1>3

(* The holder of acquireMu ends and replaces the cached token. *)
LEMMA CacheAdvances ==
  ASSUME TokenInv, NEW k \in Keys, NEW t, acquireMu = k, Dated(t),
         reuse.minted <= t.minted, t.minted <= now,
         Finish(k, t), reuse' = t,
         refreshed' = refreshed \/ refreshed' = t, UNCHANGED now
  PROVE  TokenInv'
<1> USE DEF TokenInv, FlightTypes
<1>1. [stage |-> "done", since |-> 0, token |-> t] \in Flight
  BY DEF Flight, Stages, Dated
<1>2. FlightTypes'
  BY <1>1 DEF Finish
<1>3. OneMints'
  BY DEF OneMints, Finish
<1>4. \A j \in Keys : flight'[j].stage \notin {"minting", "minted"}
  BY DEF OneMints, Finish
<1>5. Dated(t)' /\ Dated(reuse)' /\ Dated(refreshed)'
  BY DEF Dated, CacheOrdered
<1>6. reuse'.minted <= now' /\ refreshed'.minted <= reuse'.minted
  BY DEF CacheOrdered, Dated, TokenRecord
<1>7. CacheOrdered'
  BY <1>4, <1>5, <1>6 DEF CacheOrdered
<1> QED BY <1>2, <1>3, <1>7

(* A flight that looks at the cache: it ends, or it takes the mutex. *)
LEMMA ExecuteInv == ASSUME TokenInv, NEW k \in Keys, executeAcquire(k) PROVE TokenInv'
<1> USE DEF TokenInv, FlightTypes
<1>1. CASE \E t \in TokenRecord : Finish(k, t) /\ UNCHANGED acquireMu
  <2>1. PICK t \in TokenRecord : Finish(k, t) /\ UNCHANGED acquireMu
    BY <1>1
  <2>2. [stage |-> "done", since |-> 0, token |-> t] \in Flight
    BY DEF Flight, Stages
  <2> QED BY <2>1, <2>2, FlightMoves, Zenon DEF Finish, executeAcquire
<1>2. CASE /\ flight' = [flight EXCEPT ![k] = [stage |-> "minting", since |-> now, token |-> NoToken]]
           /\ acquireMu' = k /\ LockFree(k)
  <2>1. FlightTypes'
    BY <1>2, TokenConstants DEF executeAcquire, Flight, Stages
  <2>2. OneMints'
    BY <1>2 DEF OneMints, LockFree, Flight, Keys
  <2>3. CacheOrdered'
    BY <1>2 DEF executeAcquire, CacheOrdered, Flight, Dated, TokenRecord
  <2> QED BY <2>1, <2>2, <2>3
<1>3. reuse \in TokenRecord /\ Failed \in TokenRecord
  BY TokenConstants DEF CacheOrdered, Dated
<1> QED BY <1>1, <1>2, <1>3 DEF executeAcquire

(* The mint is answered: the token is no older than the flight.  A normal  *)
(* flight ends, a forced one keeps the mutex for the second look at closed.*)
LEMMA ContextInv ==
  ASSUME TokenInv, NEW k \in Keys, TokenContext(k)
  PROVE  TokenInv' /\ reuse.minted <= reuse'.minted
<1> USE DEF TokenInv, FlightTypes
<1>1. PICK issued \in flight[k].since .. now :
        LET t == [minted |-> issued, exp |-> issued + Lifetime]
        IN IF k = "normal"
           THEN Finish(k, t) /\ acquireMu' = "free" /\ reuse' = t
           ELSE /\ flight' = [flight EXCEPT ![k] = [stage |-> "minted", since |-> 0, token |-> t]]
                /\ UNCHANGED <<acquireMu, reuse>>
  BY DEF TokenContext
<1> DEFINE t == [minted |-> issued, exp |-> issued + Lifetime]
<1>2. acquireMu = k /\ flight[k].since \in Nat /\ UNCHANGED <<now, refreshed>>
  BY DEF TokenContext, OneMints, Flight
<1>3. issued \in Nat /\ issued <= now /\ reuse.minted <= issued
  BY <1>2 DEF TokenContext, CacheOrdered, Dated, TokenRecord
<1>4. Dated(t) /\ t.minted = issued /\ t \in TokenRecord
  BY <1>3, TokenConstants DEF Dated, TokenRecord
<1>5. CASE k = "normal"
  BY <1>1, <1>2, <1>3, <1>4, <1>5, CacheAdvances
<1>6. CASE k # "normal"
  <2> HIDE DEF t
  <2>1. /\ flight' = [flight EXCEPT ![k] = [stage |-> "minted", since |-> 0, token |-> t]]
        /\ UNCHANGED <<acquireMu, reuse>>
    BY <1>1, <1>6 DEF t
  <2>2. FlightTypes'
    BY <2>1, <1>2, <1>4 DEF Flight, Stages
  <2>3. OneMints'
    BY <2>1, <1>2 DEF OneMints
  <2>4. CacheOrdered'
    BY <2>1, <1>2, <1>3, <1>4 DEF CacheOrdered, Dated, Flight
  <2>5. reuse.minted <= reuse'.minted
    BY <2>1 DEF CacheOrdered, Dated, TokenRecord
  <2> QED BY <2>2, <2>3, <2>4, <2>5
<1> QED BY <1>5, <1>6

LEMMA FailsInv ==
  ASSUME TokenInv, NEW k \in Keys, MintFails(k)
  PROVE  TokenInv' /\ UNCHANGED <<reuse, refreshed>>
<1>1. [stage |-> "done", since |-> 0, token |-> Failed] \in Flight
  BY TokenConstants DEF Flight, Stages
<1>2. acquireMu = k
  BY DEF MintFails, TokenInv, OneMints
<1> QED BY <1>1, <1>2, FlightMoves, Zenon DEF MintFails, Finish

(* The second look at closed: the minted token, no older than the cached   *)
(* one because the flight still holds acquireMu, is installed or dropped.  *)
LEMMA InstallInv ==
  ASSUME TokenInv, NEW k \in Keys, Install(k)
  PROVE  TokenInv' /\ reuse.minted <= reuse'.minted /\ (closed => UNCHANGED refreshed)
<1>1. acquireMu = k /\ UNCHANGED now
  BY DEF Install, TokenInv, OneMints
<1>2. CASE closed /\ Finish(k, Failed) /\ UNCHANGED <<reuse, refreshed>>
  <2>1. [stage |-> "done", since |-> 0, token |-> Failed] \in Flight
    BY TokenConstants DEF Flight, Stages
  <2>2. TokenInv'
    BY <1>1, <1>2, <2>1, FlightMoves, Zenon DEF Finish
  <2>3. reuse.minted <= reuse'.minted
    BY <1>2 DEF TokenInv, CacheOrdered, Dated, TokenRecord
  <2> QED BY <1>2, <2>2, <2>3
<1>3. CASE /\ ~closed /\ Finish(k, flight[k].token)
           /\ reuse' = flight[k].token /\ refreshed' = flight[k].token
  <2>1. /\ Dated(flight[k].token)
        /\ reuse.minted <= flight[k].token.minted /\ flight[k].token.minted <= now
    BY DEF Install, TokenInv, CacheOrdered
  <2>2. TokenInv'
    BY <1>1, <1>3, <2>1, CacheAdvances
  <2> QED BY <1>3, <2>1, <2>2
<1> QED BY <1>2, <1>3 DEF Install

LEMMA DeliverInv ==
  ASSUME TokenInv, NEW k \in Keys, Deliver(k)
  PROVE  TokenInv' /\ UNCHANGED <<reuse, refreshed>>
<1>1. NoFlight \in Flight /\ NoFlight.stage = "none"
  BY TokenConstants DEF NoFlight, Flight, Stages
<1> QED BY <1>1, FlightMoves, Zenon DEF Deliver

(* Steps that move neither a flight nor the cache. *)
LEMMA TokenFrame ==
  ASSUME TokenInv, UNCHANGED <<now, flight, acquireMu, reuse, refreshed>>
  PROVE  TokenInv'
BY DEF TokenInv, FlightTypes, OneMints, CacheOrdered, Dated

LEMMA WaitInv ==
  ASSUME TokenInv, NEW c \in Callers, NEW k \in Keys, waitAcquire(c, k), UNCHANGED now
  PROVE  TokenInv'
<1>1. Queued \in Flight /\ Queued.stage = "queued"
  BY TokenConstants DEF Queued, Flight, Stages
<1>2. CASE flight[k] = NoFlight
  <2>1. flight' = [flight EXCEPT ![k] = Queued]
    BY <1>2 DEF waitAcquire
  <2> QED BY <1>1, <2>1, FlightMoves, Zenon DEF waitAcquire
<1>3. CASE flight[k] # NoFlight
  <2>1. flight' = flight
    BY <1>3 DEF waitAcquire, TokenInv, FlightTypes
  <2> QED BY <2>1, TokenFrame DEF waitAcquire
<1> QED BY <1>2, <1>3

(* What every step of the credential keeps, and what it may never do. *)
TokenSafe ==
    /\ TokenInv'
    /\ reuse.minted <= reuse'.minted
    /\ closed => UNCHANGED refreshed

LEMMA UnchangedCache ==
  ASSUME TokenInv, TokenInv', UNCHANGED <<reuse, refreshed>>
  PROVE  TokenSafe
BY DEF TokenSafe, TokenInv, CacheOrdered, Dated, TokenRecord

LEMMA TokenStepSafe == ASSUME TokenInv, TokenStep PROVE TokenSafe
<1>1. CASE Close \/ Cancel
  <2>1. UNCHANGED <<now, flight, acquireMu, reuse, refreshed>>
    BY <1>1 DEF Close, Cancel
  <2> QED BY <2>1, TokenFrame, UnchangedCache
<1>2. ASSUME NEW k \in Keys, executeAcquire(k) PROVE TokenSafe
  <2>1. UNCHANGED <<reuse, refreshed>>
    BY <1>2 DEF executeAcquire
  <2> QED BY <1>2, <2>1, ExecuteInv, UnchangedCache
<1>3. ASSUME NEW k \in Keys, TokenContext(k) PROVE TokenSafe
  <2>1. UNCHANGED refreshed
    BY <1>3 DEF TokenContext
  <2> QED BY <1>3, <2>1, ContextInv DEF TokenSafe
<1>4. ASSUME NEW k \in Keys, MintFails(k) PROVE TokenSafe
  BY <1>4, FailsInv, UnchangedCache
<1>5. ASSUME NEW k \in Keys, Install(k) PROVE TokenSafe
  BY <1>5, InstallInv DEF TokenSafe
<1>6. ASSUME NEW k \in Keys, Deliver(k) PROVE TokenSafe
  BY <1>6, DeliverInv, UnchangedCache
<1> QED BY <1>1, <1>2, <1>3, <1>4, <1>5, <1>6 DEF TokenStep

(***************************************************************************)
(* The steps of a send                                                     *)
(***************************************************************************)

LEMMA IdleInTime ==
  ASSUME NEW p \in {"idle", "sent", "failed"}, now \in Nat
  PROVE  /\ InTime([Idle EXCEPT !.phase = p])
         /\ [Idle EXCEPT !.phase = p].phase = p
BY DeliveryAssumption DEF Idle, InTime, SendState, Phases

(* One sender moves to a state that keeps its deadline, and reports        *)
(* success only of a batch that is stored.                                 *)
LEMMA SendMoves ==
  ASSUME SendSafe, NEW s \in Senders, NEW st, InTime(st),
         send' = [send EXCEPT ![s] = st],
         st.phase = "sent" => \E o \in objects' : o.batch = s,
         objects \subseteq objects',
         \A m \in network' : m.sender \in Senders,
         UNCHANGED now
  PROVE  SendSafe'
<1>1. send' \in [Senders -> SendState]
  BY DEF SendSafe, SendInv, InTime
<1>2. \A x \in Senders : send'[x] = IF x = s THEN st ELSE send[x]
  BY DEF SendSafe, SendInv
<1>3. \A x \in Senders : InTime(send[x])'
  BY <1>2 DEF SendSafe, SendInv, InTime
<1>4. SentIsStored'
  BY <1>2 DEF SendSafe, SentIsStored
<1> QED BY <1>1, <1>3, <1>4 DEF SendSafe, SendInv

LEMMA SendFrame ==
  ASSUME SendSafe, UNCHANGED <<now, send>>, objects \subseteq objects',
         \A m \in network' : m.sender \in Senders
  PROVE  SendSafe'
BY Zenon DEF SendSafe, SendInv, SentIsStored, InTime

(* Both outcomes of an error: the send ends, or sleeps with its deadline   *)
(* still ahead.                                                            *)
LEMMA RetryInTime ==
  ASSUME SendSafe, now \in Nat, NEW s \in Senders, NEW code, Retry(s, code)
  PROVE  \E st : /\ InTime(st) /\ st.phase # "sent"
                 /\ send' = [send EXCEPT ![s] = st]
<1>1. CASE Stop(s, "failed")
  BY <1>1, IdleInTime, Zenon DEF Stop
<1>2. CASE /\ ~(send[s].deadline - now <= send[s].delay \div 2)
           /\ \E d \in jitterHalf(send[s].delay) :
                send' = [send EXCEPT ![s] =
                  [send[s] EXCEPT !.phase = "sleep", !.attempt = @ + 1, !.until = now + d]]
  <2>1. send[s] \in SendState
    BY DEF SendSafe, SendInv
  <2>2. PICK d \in jitterHalf(send[s].delay) :
                send' = [send EXCEPT ![s] =
                  [send[s] EXCEPT !.phase = "sleep", !.attempt = @ + 1, !.until = now + d]]
    BY <1>2, Zenon
  <2>3. send[s].delay \div 2 \in Nat
    BY <2>1 DEF SendState
  <2>4. d \in Nat
    BY <2>1, <2>2, <2>3 DEF jitterHalf, SendState
  <2>5. now <= send[s].deadline
    BY <1>2, <2>1, <2>3 DEF SendState
  <2> DEFINE st == [send[s] EXCEPT !.phase = "sleep", !.attempt = @ + 1, !.until = now + d]
  <2>6. send[s].attempt + 1 \in Nat /\ now + d \in Nat
    BY <2>1, <2>4 DEF SendState
  <2>7. st \in SendState
    BY <2>1, <2>6, Zenon DEF SendState, Phases
  <2>8. st.phase = "sleep" /\ st.deadline = send[s].deadline
    BY <2>1 DEF SendState
  <2>9. InTime(st) /\ st.phase # "sent"
    BY <2>5, <2>7, <2>8 DEF InTime
  <2> QED BY <2>2, <2>9, Zenon
<1> QED BY <1>1, <1>2, Zenon DEF Retry

LEMMA RetrySafe ==
  ASSUME SendSafe, now \in Nat, NEW s \in Senders, NEW code, Retry(s, code), UNCHANGED now,
         objects \subseteq objects', \A m \in network' : m.sender \in Senders
  PROVE  SendSafe'
<1>1. PICK st : InTime(st) /\ st.phase # "sent" /\ send' = [send EXCEPT ![s] = st]
  BY RetryInTime
<1> QED BY <1>1, SendMoves, Zenon

(* A turn of the loop waits for its token no longer than the deadline. *)
LEMMA AttemptSafe ==
  ASSUME SendSafe, now \in Nat, NEW s \in Senders, NEW st \in SendState, Attempt(s, st),
         now <= st.deadline, UNCHANGED <<now, network, objects>>
  PROVE  SendSafe'
<1> DEFINE until == Minimum(now + RequestTimeout, st.deadline)
           new == [st EXCEPT !.phase = "token", !.until = until]
<1>1. until \in Nat /\ until <= st.deadline
  BY DeliveryAssumption DEF Minimum, SendState
<1> HIDE DEF until
<1>2. new \in SendState /\ new.phase = "token" /\ new.until = until /\ new.deadline = st.deadline
  BY <1>1, Zenon DEF SendState, Phases
<1>3. InTime(new) /\ new.phase # "sent"
  BY <1>1, <1>2 DEF InTime
<1>4. send' = [send EXCEPT ![s] = new]
  BY DEF Attempt, until
<1>5. \A m \in network' : m.sender \in Senders
  BY DEF SendSafe, SendInv
<1> HIDE DEF new
<1> QED BY <1>3, <1>4, <1>5, SendMoves, Zenon

LEMMA StartSafe ==
  ASSUME SendSafe, now \in Nat, NEW s \in Senders, SendLogBatch(s)
  PROVE  SendSafe'
<1>1. PICK b \in Budgets : Attempt(s, [Idle EXCEPT !.deadline = now + b])
  BY DEF SendLogBatch
<1>2. now + b \in Nat /\ now <= now + b
  BY DeliveryAssumption
<1>3. RetryBase \in Nat
  BY DeliveryAssumption
<1> DEFINE st == [Idle EXCEPT !.deadline = now + b]
<1>4. st \in SendState /\ st.deadline = now + b
  BY <1>2, <1>3 DEF Idle, SendState, Phases
<1> HIDE DEF st
<1> QED BY <1>1, <1>2, <1>4, AttemptSafe, Zenon DEF SendLogBatch, st

LEMMA WakeSafe ==
  ASSUME SendSafe, now \in Nat, NEW s \in Senders, Wake(s)
  PROVE  SendSafe'
<1>1. send[s] \in SendState /\ now <= send[s].deadline
  BY DEF Wake, SendSafe, SendInv, InTime
<1>2. Minimum(2 * send[s].delay, RetryMax) \in Nat
  BY <1>1, DeliveryAssumption DEF Minimum, SendState
<1> DEFINE st == [send[s] EXCEPT !.delay = Minimum(2 * send[s].delay, RetryMax)]
<1>3. st \in SendState /\ st.deadline = send[s].deadline
  BY <1>1, <1>2 DEF SendState
<1>4. Attempt(s, st) /\ UNCHANGED <<now, network, objects>>
  BY DEF Wake
<1> HIDE DEF st
<1> QED BY <1>1, <1>3, <1>4, AttemptSafe

LEMMA AuthorizeSafe ==
  ASSUME SendSafe, now \in Nat, NEW s \in Senders, Authorize(s)
  PROVE  SendSafe'
<1>1. UNCHANGED <<now, objects>> /\ \A m \in network' : m.sender \in Senders
  BY DEF Authorize, SendSafe, SendInv
<1>2. CASE Retry(s, "unavailable")
  BY <1>1, <1>2, RetrySafe
<1>3. CASE send' = [send EXCEPT ![s] = [@ EXCEPT !.phase = "posted"]]
  <2> DEFINE st == [send[s] EXCEPT !.phase = "posted"]
  <2>1. InTime(send[s]) /\ send[s].phase = "token"
    BY DEF Authorize, SendSafe, SendInv
  <2>2. InTime(st) /\ st.phase # "sent"
    BY <2>1 DEF InTime, SendState, Phases
  <2>3. send' = [send EXCEPT ![s] = st]
    BY <1>3
  <2> HIDE DEF st
  <2> QED BY <1>1, <2>2, <2>3, SendMoves, Zenon
<1> QED BY <1>2, <1>3 DEF Authorize

LEMMA StopSafe ==
  ASSUME SendSafe, now \in Nat, NEW s \in Senders, NEW p \in {"sent", "failed"}, Stop(s, p),
         p = "sent" => \E o \in objects' : o.batch = s,
         objects \subseteq objects', \A m \in network' : m.sender \in Senders,
         UNCHANGED now
  PROVE  SendSafe'
<1> DEFINE st == [Idle EXCEPT !.phase = p]
<1>1. InTime(st) /\ st.phase = p
  BY IdleInTime
<1>2. send' = [send EXCEPT ![s] = st]
  BY DEF Stop
<1> HIDE DEF st
<1> QED BY <1>1, <1>2, SendMoves, Zenon

LEMMA ExpireSafe ==
  ASSUME SendSafe, now \in Nat, NEW s \in Senders, Expire(s) \/ Disconnect(s)
  PROVE  SendSafe'
<1>1. UNCHANGED <<now, network, objects>> /\ \A m \in network' : m.sender \in Senders
  BY DEF Expire, Disconnect, SendSafe, SendInv
<1>2. Stop(s, "failed") \/ Retry(s, "deadline_exceeded") \/ Retry(s, "unavailable")
  BY DEF Expire, Disconnect
<1> QED BY <1>1, <1>2, StopSafe, RetrySafe

(* The answer of the manager: success follows only a write that stored the *)
(* batch; an answer that nobody waits for changes nothing.                 *)
LEMMA IngestSafe ==
  ASSUME SendSafe, now \in Nat, NEW m \in network, IngestLog(m)
  PROVE  SendSafe'
<1>1. /\ m.sender \in Senders /\ UNCHANGED now /\ objects \subseteq objects'
      /\ \A x \in network' : x.sender \in Senders
  BY DEF IngestLog, SendSafe, SendInv
<1>2. CASE UNCHANGED send
  BY <1>1, <1>2, SendFrame
<1>3. ASSUME NEW code, Retry(m.sender, code) PROVE SendSafe'
  BY <1>1, <1>3, RetrySafe
<1>4. CASE Stop(m.sender, "sent") /\ objects' = objects \cup {objectKey(m.sender)}
  <2>1. objectKey(m.sender) \in objects' /\ objectKey(m.sender).batch = m.sender
    BY <1>4 DEF objectKey
  <2> QED BY <1>1, <1>4, <2>1, StopSafe
<1>5. \A code : Answer(m, code) => \/ UNCHANGED send
                                   \/ code = "ok" /\ Stop(m.sender, "sent")
                                   \/ Retry(m.sender, code)
  BY Zenon DEF Answer
<1>6. \A w \in writeWithRetry(m.sender) : w.code = "ok" => w.stored
  BY DEF writeWithRetry
<1>7. \/ UNCHANGED send
      \/ Answer(m, "unavailable") \/ Answer(m, "unauthenticated")
      \/ \E w \in writeWithRetry(m.sender) :
           /\ objects' = IF w.stored THEN objects \cup {objectKey(m.sender)} ELSE objects
           /\ Answer(m, w.code)
  BY Zenon DEF IngestLog
<1> QED BY <1>2, <1>3, <1>4, <1>5, <1>6, <1>7

(***************************************************************************)
(* All steps                                                               *)
(***************************************************************************)

(* Time passes only while every context that a sender waits on has some    *)
(* left: this is where the bound on the wait for a token is needed.        *)
LEMMA TickInv == ASSUME IInv, Tick PROVE IInv'
<1>1. now \in Nat /\ now' = now + 1 /\ UNCHANGED <<tokenVars, send, network, objects>>
  BY DEF Tick, IInv, TokenInv, FlightTypes
<1>2. TokenInv'
  <2>1. FlightTypes' /\ OneMints'
    BY <1>1 DEF IInv, TokenInv, FlightTypes, OneMints, tokenVars
  <2>2. CacheOrdered'
    BY <1>1 DEF IInv, TokenInv, FlightTypes, CacheOrdered, Dated, TokenRecord, Flight, tokenVars
  <2> QED BY <2>1, <2>2 DEF TokenInv
<1>3. WaitTypes'
  BY <1>1 DEF IInv, WaitTypes, tokenVars
<1>4. ASSUME NEW s \in Senders PROVE InTime(send[s])'
  <2>1. InTime(send[s])
    BY DEF IInv, SendSafe, SendInv
  <2>2. CASE send[s].phase = "token"
    <3>1. waiting[s] = "normal"
      BY <2>2, DeliveryAssumption DEF Tick, IInv, WaitTypes, Keys
    <3>2. ~(now >= send[s].until)
      BY <2>2, <3>1 DEF Tick, ContextDone
    <3> QED BY <1>1, <2>1, <2>2, <3>2 DEF InTime, SendState
  <2>3. CASE send[s].phase = "posted"
    <3>1. ~(now >= send[s].until)
      BY <2>3 DEF Tick, ContextDone
    <3> QED BY <1>1, <2>1, <2>3, <3>1 DEF InTime, SendState
  <2>4. CASE send[s].phase = "sleep"
    <3>1. ~(now >= send[s].deadline)
      BY <2>4 DEF Tick, ContextDone
    <3> QED BY <1>1, <2>1, <2>4, <3>1 DEF InTime, SendState
  <2> QED BY <1>1, <2>1, <2>2, <2>3, <2>4 DEF InTime
<1>5. SendSafe'
  BY <1>1, <1>4 DEF IInv, SendSafe, SendInv, SentIsStored
<1> QED BY <1>2, <1>3, <1>5 DEF IInv

(* A sender only ever waits for a normal flight, a refresher for a forced one. *)
LEMMA WaitStep == ASSUME IInv, [Next]_vars PROVE WaitTypes'
<1> USE DEF WaitTypes, Keys
<1>0. WaitTypes /\ Senders \subseteq Callers /\ Refreshers \subseteq Callers
      /\ Senders \cap Refreshers = {}
  BY DeliveryAssumption DEF IInv
<1>1. CASE UNCHANGED waiting
  BY <1>0, <1>1
<1>2. ASSUME NEW c \in Callers, GiveUp(c) PROVE WaitTypes'
  BY <1>0, <1>2 DEF GiveUp
<1>3. ASSUME NEW k \in Keys, Deliver(k) PROVE WaitTypes'
  <2>1. waiting' = [c \in Callers |-> IF waiting[c] = k THEN "none" ELSE waiting[c]]
    BY <1>3 DEF Deliver
  <2> QED BY <1>0, <2>1
<1>4. ASSUME NEW s \in Senders, waitAcquire(s, "normal") PROVE WaitTypes'
  BY <1>0, <1>4 DEF waitAcquire
<1>5. ASSUME NEW r \in Refreshers, waitAcquire(r, "force") PROVE WaitTypes'
  BY <1>0, <1>5 DEF waitAcquire
<1>6. CASE TokenStep
  BY <1>1, <1>3, <1>6 DEF TokenStep, executeAcquire, TokenContext, MintFails, Install, Close, Cancel
<1>7. ASSUME NEW s \in Senders,
             SendLogBatch(s) \/ Wake(s) \/ Authorize(s) \/ Expire(s) \/ Disconnect(s)
      PROVE  WaitTypes'
  <2>1. waitAcquire(s, "normal") \/ GiveUp(s) \/ UNCHANGED waiting
    BY <1>7, Zenon DEF SendLogBatch, Wake, Attempt, Authorize, Expire, Disconnect, tokenVars
  <2> QED BY <1>0, <1>1, <1>2, <1>4, <2>1, Zenon
<1>8. ASSUME NEW r \in Refreshers, ForceRefreshIDToken(r) \/ Abandon(r) PROVE WaitTypes'
  BY <1>0, <1>2, <1>5, <1>8, SMTT(30) DEF ForceRefreshIDToken, Abandon
<1>9. ASSUME NEW m \in network, IngestLog(m) PROVE WaitTypes'
  BY <1>1, <1>9 DEF IngestLog, tokenVars
<1>10. CASE Tick \/ UNCHANGED vars
  BY <1>1, <1>10 DEF Tick, vars, tokenVars
<1> QED BY <1>6, <1>7, <1>8, <1>9, <1>10 DEF Next

(* Outside TokenStep nobody touches the cache. *)
LEMMA Elsewhere ==
  ASSUME IInv, [Next]_vars, ~TokenStep
  PROVE  TokenInv' /\ UNCHANGED <<reuse, refreshed>>
<1>0. Senders \subseteq Callers /\ Refreshers \subseteq Callers /\ "normal" \in Keys /\ "force" \in Keys
  BY DeliveryAssumption DEF Keys
<1>1. ASSUME NEW c \in Callers, NEW k \in Keys, waitAcquire(c, k), UNCHANGED now
      PROVE  TokenInv' /\ UNCHANGED <<reuse, refreshed>>
  BY <1>1, WaitInv, Zenon DEF IInv, waitAcquire
<1>2. CASE UNCHANGED <<now, flight, acquireMu, reuse, refreshed>>
  BY <1>2, TokenFrame DEF IInv
<1>3. ASSUME NEW s \in Senders, SendLogBatch(s) \/ Wake(s)
      PROVE  waitAcquire(s, "normal") /\ UNCHANGED now
  BY <1>3, Zenon DEF SendLogBatch, Wake, Attempt
<1>4. ASSUME NEW s \in Senders, Authorize(s) \/ Expire(s) \/ Disconnect(s)
      PROVE  UNCHANGED <<now, flight, acquireMu, reuse, refreshed>>
  BY <1>4 DEF Authorize, Expire, Disconnect, GiveUp, tokenVars
<1>5. ASSUME NEW r \in Refreshers, ForceRefreshIDToken(r)
      PROVE  waitAcquire(r, "force") /\ UNCHANGED now
  BY <1>5 DEF ForceRefreshIDToken
<1>6. ASSUME NEW r \in Refreshers, Abandon(r)
      PROVE  UNCHANGED <<now, flight, acquireMu, reuse, refreshed>>
  BY <1>6 DEF Abandon, GiveUp
<1>7. ASSUME NEW m \in network, IngestLog(m)
      PROVE  UNCHANGED <<now, flight, acquireMu, reuse, refreshed>>
  BY <1>7 DEF IngestLog, tokenVars
<1>8. CASE Tick
  BY <1>8, TickInv DEF IInv, Tick, tokenVars
<1>9. CASE UNCHANGED vars
  BY <1>2, <1>9 DEF vars, tokenVars
<1> QED BY <1>0, <1>1, <1>2, <1>3, <1>4, <1>5, <1>6, <1>7, <1>8, <1>9 DEF Next

LEMMA SendStep == ASSUME IInv, [Next]_vars, ~Tick PROVE SendSafe'
<1>0. SendSafe /\ now \in Nat /\ \A m \in network : m.sender \in Senders
  BY DEF IInv, TokenInv, FlightTypes, SendSafe, SendInv
<1>1. CASE UNCHANGED <<now, send, network, objects>>
  BY <1>0, <1>1, SendFrame
<1>2. CASE TokenStep /\ UNCHANGED <<send, network, objects>>
  <2>1. UNCHANGED now
    BY <1>2 DEF TokenStep, executeAcquire, TokenContext, MintFails, Install, Deliver, Close, Cancel
  <2> QED BY <1>1, <1>2, <2>1
<1>3. ASSUME NEW s \in Senders,
             SendLogBatch(s) \/ Wake(s) \/ Authorize(s) \/ Expire(s) \/ Disconnect(s)
      PROVE  SendSafe'
  BY <1>0, <1>3, StartSafe, WakeSafe, AuthorizeSafe, ExpireSafe
<1>4. ASSUME NEW r \in Refreshers, ForceRefreshIDToken(r) \/ Abandon(r) PROVE SendSafe'
  BY <1>1, <1>4 DEF ForceRefreshIDToken, Abandon
<1>5. ASSUME NEW m \in network, IngestLog(m) PROVE SendSafe'
  BY <1>0, <1>5, IngestSafe
<1>6. CASE UNCHANGED vars
  BY <1>1, <1>6 DEF vars
<1> QED BY <1>2, <1>3, <1>4, <1>5, <1>6 DEF Next

LEMMA InitIInv == ASSUME Init PROVE IInv
<1> USE DEF Init, TokenInit
<1>1. FlightTypes /\ OneMints
  BY TokenConstants DEF FlightTypes, OneMints, Flight, NoFlight, Stages
<1>2. CacheOrdered
  BY TokenConstants DEF CacheOrdered, NoFlight
<1>3. WaitTypes
  BY DeliveryAssumption DEF WaitTypes
<1>4. InTime(Idle) /\ Idle.phase = "idle" /\ Idle \in SendState
  BY DeliveryAssumption DEF InTime, Idle, SendState, Phases
<1>5. SendSafe
  BY <1>4 DEF SendSafe, SendInv, SentIsStored
<1> QED BY <1>1, <1>2, <1>3, <1>5 DEF IInv, TokenInv

LEMMA StepIInv == ASSUME IInv, [Next]_vars PROVE IInv'
<1>1. CASE Tick
  BY <1>1, TickInv
<1>2. CASE ~Tick
  <2>1. TokenInv'
    BY TokenStepSafe, Elsewhere DEF TokenSafe, IInv
  <2> QED BY <1>2, <2>1, WaitStep, SendStep DEF IInv
<1> QED BY <1>1, <1>2

LEMMA AlwaysIInv == Spec => []IInv
<1> QED BY InitIInv, StepIInv, PTL DEF Spec

(***************************************************************************)
(* Theorems                                                                *)
(***************************************************************************)

(* sendIngestLogBatch returns by the deadline of its context, whatever the *)
(* shared flight, the mint service and the network do.                     *)
THEOREM InTimeAlways == Spec => []SendReturnsInTime
<1>1. IInv => SendReturnsInTime
  BY DEF IInv, SendSafe, SendInv, InTime, SendState, Phases, SendReturnsInTime, Ended
<1> QED BY <1>1, AlwaysIInv, PTL

(* A send that reports success has its batch in storage. *)
THEOREM StoredAlways == Spec => []SentIsStored
<1>1. IInv => SentIsStored
  BY DEF IInv, SendSafe
<1> QED BY <1>1, AlwaysIInv, PTL

(* The cached token is only replaced by one issued no earlier. *)
THEOREM Monotone == Spec => CacheMonotone
<1>1. ASSUME IInv, [Next]_vars PROVE reuse.minted <= reuse'.minted
  <2>1. CASE TokenStep
    BY <1>1, <2>1, TokenStepSafe DEF TokenSafe, IInv
  <2>2. CASE ~TokenStep
    BY <1>1, <2>2, Elsewhere, UnchangedCache DEF TokenSafe, IInv
  <2> QED BY <2>1, <2>2
<1>2. ASSUME IInv, IInv', [Next]_vars PROVE [reuse'.minted >= reuse.minted]_reuse
  <2>1. reuse.minted \in Int /\ reuse'.minted \in Int
    BY <1>2 DEF IInv, TokenInv, CacheOrdered, Dated, TokenRecord
  <2> QED BY <1>1, <1>2, <2>1
<1> QED BY <1>2, AlwaysIInv, PTL DEF Spec, CacheMonotone

(* After Close a forced refresh neither seeds the cache nor returns a token. *)
THEOREM NotForcedAfterClose == Spec => NothingForcedAfterClose
<1>1. ASSUME IInv, [Next]_vars PROVE [closed => refreshed' = refreshed]_refreshed
  <2>1. CASE TokenStep
    BY <1>1, <2>1, TokenStepSafe DEF TokenSafe, IInv
  <2>2. CASE ~TokenStep
    BY <1>1, <2>2, Elsewhere
  <2> QED BY <2>1, <2>2
<1> QED BY <1>1, AlwaysIInv, PTL DEF Spec, NothingForcedAfterClose

(* No normal flight starts minting while the token of the last forced      *)
(* refresh is valid: the cached token is at least as young.                *)
THEOREM Serves == Spec => RefreshServes
<1> DEFINE Starts == flight'["normal"].stage = "minting" /\ flight["normal"].stage # "minting"
<1>1. ASSUME IInv, ~Valid(reuse) PROVE ~Valid(refreshed)
  BY <1>1, TokenAssumption DEF IInv, TokenInv, FlightTypes, CacheOrdered, Dated, TokenRecord, Valid
<1>2. ASSUME IInv, NEW k \in Keys, NEW f, f.stage # "minting",
             flight' = [flight EXCEPT ![k] = f]
      PROVE  ~Starts
  BY <1>2 DEF IInv, TokenInv, FlightTypes
<1>3. ASSUME IInv, NEW k \in Keys, executeAcquire(k), Starts PROVE ~Valid(reuse)
  <2>1. CASE \E t : Finish(k, t)
    <3>1. PICK t : flight' = [flight EXCEPT ![k] = [stage |-> "done", since |-> 0, token |-> t]]
      BY <2>1, Zenon DEF Finish
    <3>2. [stage |-> "done", since |-> 0, token |-> t].stage # "minting"
      OBVIOUS
    <3> QED BY <1>2, <1>3, <3>1, <3>2
  <2>2. CASE /\ k = "force" \/ ~Valid(reuse)
             /\ flight' = [flight EXCEPT ![k] = [stage |-> "minting", since |-> now, token |-> NoToken]]
    <3>1. k = "force" => flight'["normal"] = flight["normal"]
      BY <1>3, <2>2 DEF IInv, TokenInv, FlightTypes, Keys
    <3> QED BY <1>3, <2>2, <3>1
  <2> QED BY <1>3, <2>1, <2>2, Zenon DEF executeAcquire
<1>4. ASSUME IInv, NEW k \in Keys, TokenContext(k) \/ MintFails(k) \/ Install(k) \/ Deliver(k)
      PROVE  ~Starts
  <2>1. \E f : f.stage # "minting" /\ flight' = [flight EXCEPT ![k] = f]
    BY <1>4, Zenon DEF TokenContext, MintFails, Install, Deliver, Finish, NoFlight
  <2> QED BY <1>2, <1>4, <2>1
<1>5. ASSUME IInv, NEW c, NEW k \in Keys, waitAcquire(c, k) PROVE ~Starts
  BY <1>5 DEF IInv, TokenInv, FlightTypes, waitAcquire, Queued
<1>6. ASSUME IInv, [Next]_vars, Starts PROVE ~Valid(reuse)
  <2>1. "normal" \in Keys /\ "force" \in Keys
    BY DEF Keys
  <2>2. flight' # flight
    BY <1>6
  <2>3. CASE TokenStep
    BY <1>3, <1>4, <1>6, <2>2, <2>3 DEF TokenStep, Close, Cancel
  <2>4. CASE ~TokenStep
    <3>1. \E c, k : k \in Keys /\ waitAcquire(c, k)
      BY <1>6, <2>1, <2>2, <2>4, Zenon DEF Next, SendLogBatch, Wake, Attempt, Authorize, Expire, Disconnect,
         ForceRefreshIDToken, Abandon, GiveUp, IngestLog, Tick, vars, tokenVars
    <3> QED BY <1>5, <1>6, <3>1, Zenon
  <2> QED BY <2>3, <2>4
<1>7. ASSUME IInv, [Next]_vars PROVE [Starts => ~Valid(refreshed)]_flight
  BY <1>1, <1>6, <1>7
<1> QED BY <1>7, AlwaysIInv, PTL DEF Spec, RefreshServes
=============================================================================

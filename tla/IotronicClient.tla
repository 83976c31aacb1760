--------------------------- MODULE IotronicClient ---------------------------
(***************************************************************************)
(* The satellite's client of IoTronic, satellite/app/iotronic_client.py:   *)
(* calls of plugins and board listings that share one cached token.        *)
(*                                                                         *)
(* A call takes the token from the cache, or authenticates with Keystone   *)
(* under the lock; the conductor refuses an expired token with 401, upon   *)
(* which the call refreshes the token and tries once more.  Keystone and   *)
(* the conductor are known only by how the client uses them.               *)
(***************************************************************************)
EXTENDS Integers

CONSTANTS
  Calls,            \* calls of call_plugin and list_online_boards
  NoCall,           \* the lock is free
  MaxTokens,        \* bound of the model: tokens Keystone ever issues
  AuthMayFail,      \* may Keystone refuse, fail or time out?
  ConductorMayFail  \* may the conductor fail or time out?

ASSUME ClientAssumption ==
  /\ NoCall \notin Calls
  /\ MaxTokens \in Nat
  /\ {AuthMayFail, ConductorMayFail} \subseteq BOOLEAN

VARIABLES
  token,       \* _token: the tokens are numbered as they are issued, 0 is none
  lock,        \* who holds _lock
  pc,          \* call -> where it is
  refused,     \* call -> the token that got a 401 the first time, 0 if none
  held,        \* call -> the token it sends, or is about to cache
  issued,      \* Keystone: how many tokens it has issued
  expired,     \* Keystone: tokens that are no longer valid
  carriedOut,  \* conductor: call -> how often it has carried it out
  late         \* calls given up by the client that the conductor still has

clientVars == <<token, lock, pc, refused, held, issued, expired, carriedOut, late>>

Tokens == 1 .. MaxTokens

ClientTypeOK ==
  /\ token \in 0 .. issued
  /\ lock \in Calls \cup {NoCall}
  /\ pc \in [Calls -> {"new", "token", "auth", "issued", "send", "sent", "done",
                       "refused", "ok", "failed"}]
  /\ refused \in [Calls -> 0 .. issued]
  /\ held \in [Calls -> 0 .. issued]
  /\ issued \in 0 .. MaxTokens
  /\ expired \in SUBSET Tokens
  /\ carriedOut \in [Calls -> 0 .. 2]
  /\ late \in SUBSET Calls
  /\ \A c \in Calls : lock = c <=> pc[c] \in {"auth", "issued"}

ClientInit ==
  /\ token = 0 /\ lock = NoCall
  /\ pc = [c \in Calls |-> "new"] /\ refused = [c \in Calls |-> 0]
  /\ held = [c \in Calls |-> 0]
  /\ issued = 0 /\ expired = {}
  /\ carriedOut = [c \in Calls |-> 0] /\ late = {}

Goto(c, place) == pc' = [pc EXCEPT ![c] = place]

-----------------------------------------------------------------------------
(***************************************************************************)
(* get_token.                                                              *)
(***************************************************************************)
Begin(c) ==
  /\ pc[c] = "new" /\ Goto(c, "token")
  /\ UNCHANGED <<token, lock, refused, held, issued, expired, carriedOut, late>>

\* The second time the refresh is forced.
UseCached(c) ==
  /\ pc[c] = "token" /\ lock = NoCall
  /\ token # 0 /\ refused[c] = 0
  /\ held' = [held EXCEPT ![c] = token]
  /\ Goto(c, "send")
  /\ UNCHANGED <<token, lock, refused, issued, expired, carriedOut, late>>

Authenticate(c) ==
  /\ pc[c] = "token" /\ lock = NoCall
  /\ token = 0 \/ refused[c] # 0
  /\ lock' = c
  /\ Goto(c, "auth")
  /\ UNCHANGED <<token, refused, held, issued, expired, carriedOut, late>>

KeystoneIssues(c) ==
  /\ pc[c] = "auth" /\ issued < MaxTokens
  /\ issued' = issued + 1
  /\ held' = [held EXCEPT ![c] = issued + 1]
  /\ Goto(c, "issued")
  /\ UNCHANGED <<token, lock, refused, expired, carriedOut, late>>

CacheToken(c) ==
  /\ pc[c] = "issued"
  /\ token' = held[c]
  /\ lock' = NoCall
  /\ Goto(c, "send")
  /\ UNCHANGED <<refused, held, issued, expired, carriedOut, late>>

\* Faulty variant: the lock is not released when authentication fails.
AuthFailsLocked(c) ==
  /\ pc[c] \in {"auth", "issued"}
  /\ AuthMayFail \/ issued = MaxTokens
  /\ Goto(c, "failed")
  /\ UNCHANGED <<token, lock, refused, held, issued, expired, carriedOut, late>>

\* The answer may also be lost on its way back: the token is issued in vain.
AuthFails(c) ==
  /\ pc[c] \in {"auth", "issued"}
  /\ AuthMayFail \/ issued = MaxTokens
  /\ lock' = NoCall
  /\ Goto(c, "failed")
  /\ UNCHANGED <<token, refused, held, issued, expired, carriedOut, late>>

-----------------------------------------------------------------------------
(***************************************************************************)
(* call_plugin and list_online_boards.                                     *)
(***************************************************************************)
Send(c) ==
  /\ pc[c] = "send" /\ Goto(c, "sent")
  /\ UNCHANGED <<token, lock, refused, held, issued, expired, carriedOut, late>>

\* The conductor checks the token before it does anything.
Execute(c) ==
  /\ \/ pc[c] = "sent" /\ Goto(c, "done") /\ UNCHANGED late
     \/ c \in late /\ late' = late \ {c} /\ UNCHANGED pc
  /\ held[c] \notin expired
  /\ carriedOut' = [carriedOut EXCEPT ![c] = @ + 1]
  /\ UNCHANGED <<token, lock, refused, held, issued, expired>>

Refuse(c) ==
  /\ \/ pc[c] = "sent" /\ Goto(c, "refused") /\ UNCHANGED late
     \/ c \in late /\ late' = late \ {c} /\ UNCHANGED pc
  /\ held[c] \in expired
  /\ UNCHANGED <<token, lock, refused, held, issued, expired, carriedOut>>

Succeed(c) ==
  /\ pc[c] = "done" /\ Goto(c, "ok")
  /\ UNCHANGED <<token, lock, refused, held, issued, expired, carriedOut, late>>

\* Faulty variant: the second attempt takes whatever the cache holds.
RetryCached(c) ==
  /\ pc[c] = "refused"
  /\ IF refused[c] # 0
     THEN Goto(c, "failed") /\ UNCHANGED <<refused, held>>
     ELSE /\ held' = [held EXCEPT ![c] = token]
          /\ refused' = [refused EXCEPT ![c] = held[c]]
          /\ Goto(c, "send")
  /\ UNCHANGED <<token, lock, issued, expired, carriedOut, late>>

\* 401: refresh the token and try again, once.
Retry(c) ==
  /\ pc[c] = "refused"
  /\ IF refused[c] # 0
     THEN Goto(c, "failed") /\ UNCHANGED refused
     ELSE Goto(c, "token") /\ refused' = [refused EXCEPT ![c] = held[c]]
  /\ UNCHANGED <<token, lock, held, issued, expired, carriedOut, late>>

\* Faulty variant: a timeout is treated like an expired token.
GiveUpRetry(c) ==
  /\ ConductorMayFail /\ pc[c] \in {"sent", "done"}
  /\ IF refused[c] # 0
     THEN Goto(c, "failed") /\ UNCHANGED refused
     ELSE Goto(c, "token") /\ refused' = [refused EXCEPT ![c] = held[c]]
  /\ UNCHANGED <<token, lock, held, issued, expired, carriedOut, late>>

\* A timeout, a connection error or another status; after a timeout the
\* conductor may still carry the call out.
GiveUp(c) ==
  /\ ConductorMayFail /\ pc[c] \in {"sent", "done"}
  /\ Goto(c, "failed")
  /\ late' \in IF pc[c] = "sent" THEN {late, late \cup {c}} ELSE {late}
  /\ UNCHANGED <<token, lock, refused, held, issued, expired, carriedOut>>

Expire(t) ==
  /\ t <= issued /\ t \notin expired
  /\ expired' = expired \cup {t}
  /\ UNCHANGED <<token, lock, pc, refused, held, issued, carriedOut, late>>

-----------------------------------------------------------------------------
Step(c) ==
  \/ Begin(c) \/ UseCached(c) \/ Authenticate(c) \/ KeystoneIssues(c)
  \/ CacheToken(c) \/ AuthFails(c) \/ Send(c) \/ Execute(c) \/ Refuse(c)
  \/ Succeed(c) \/ Retry(c)

ClientNext ==
  \/ \E c \in Calls : Step(c) \/ GiveUp(c)
  \/ \E t \in Tokens : Expire(t)

ClientSpec == ClientInit /\ [][ClientNext]_clientVars

\* The event loop runs what is ready, asyncio.Lock is first come first served
\* and every request to Keystone or the conductor is answered or times out.
ClientFairSpec == ClientSpec /\ \A c \in Calls : SF_clientVars(Step(c))

-----------------------------------------------------------------------------
(***************************************************************************)
(* Properties.                                                             *)
(***************************************************************************)
\* The second attempt never makes the conductor do a thing twice, and a call
\* that succeeds has been carried out: the client retries only what has
\* certainly not been done.
AtMostOnce ==
  \A c \in Calls : carriedOut[c] <= 1 /\ (pc[c] = "ok" => carriedOut[c] = 1)

\* The second attempt is made with a token issued after the first was refused,
\* so that it is refused only if that one has expired too.
RetryIsFresh ==
  \A c \in Calls :
    refused[c] # 0 /\ pc[c] \in {"issued", "send", "sent", "done", "refused", "ok"}
    => held[c] > refused[c]

\* Every call ends, also when authentication fails under the lock.
CallsEnd == \A c \in Calls : pc[c] = "token" ~> (pc[c] \in {"ok", "failed"})
=============================================================================

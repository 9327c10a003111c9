------------------------------ MODULE TokenCache ------------------------------
(***************************************************************************)
(* The bearer token a worker process keeps for a gateway: _TokenCache of    *)
(* src/app/payments/base.py, shared by the request threads of the process   *)
(* without a lock, and the _token of the gateways that fills it.  set       *)
(* writes its two fields one after the other, and get reads the token again *)
(* after it has compared the time, so threads come between.  A token is     *)
(* named by the moment the gateway granted it.                              *)
(***************************************************************************)
EXTENDS Integers

CONSTANTS
  Threads,    \* request threads of the process
  Ttl,        \* expires_in: how long the gateway honours a token
  Margin,     \* seconds before its end a token is no longer handed out
  Latency,    \* the longest an answer of the gateway is under way
  Delay,      \* the longest a thread rests between two of its steps
  Empty       \* an empty cache

Timely ==
  /\ Ttl \in Nat /\ Margin \in Nat /\ Latency \in Nat /\ Delay \in Nat /\ Empty \notin Nat
  /\ Latency + 2 * Delay <= Margin /\ Latency + Delay < Ttl

VARIABLES
  now,       \* the clock
  cached,    \* _token
  expires,   \* _expires_at
  thread     \* what each thread is doing

cacheVars == <<now, cached, expires, thread>>

ThreadSteps == {"idle", "look", "ask", "granted", "written", "send"}
ThreadRows == [step: ThreadSteps, token: Nat \cup {Empty}, at: Nat]
Resting == [step |-> "idle", token |-> Empty, at |-> 0]

CacheTypeOK ==
  /\ now \in Nat
  /\ cached \in Nat \cup {Empty}
  /\ expires \in Nat
  /\ thread \in [Threads -> ThreadRows]

-----------------------------------------------------------------------------

Does(w, step) == thread[w].step = step
Go(w, step, t) == thread' = [thread EXCEPT ![w] = [step |-> step, token |-> t, at |-> now]]

\* get: is there a token, with more than the margin left?
Fresh == cached # Empty /\ now < expires - Margin

Look(w) ==
  /\ Does(w, "idle")
  /\ Go(w, IF Fresh THEN "look" ELSE "ask", Empty)
  /\ UNCHANGED <<now, cached, expires>>

\* ... and return self._token
Take(w) ==
  /\ Does(w, "look")
  /\ Go(w, "send", cached)
  /\ UNCHANGED <<now, cached, expires>>

\* External: the gateway grants a token.
Grant(w) ==
  /\ Does(w, "ask")
  /\ Go(w, "granted", now)
  /\ UNCHANGED <<now, cached, expires>>

\* The gateway refuses, does not answer, or answers without a token.
Refuse(w) ==
  /\ Does(w, "ask")
  /\ Go(w, "idle", Empty)
  /\ UNCHANGED <<now, cached, expires>>

\* set: the token ...
WriteToken(w) ==
  /\ Does(w, "granted")
  /\ cached' = thread[w].token
  /\ Go(w, "written", thread[w].token)
  /\ UNCHANGED <<now, expires>>

\* ... and when it ends
WriteExpiry(w) ==
  /\ Does(w, "written")
  /\ expires' = now + Ttl
  /\ Go(w, "send", thread[w].token)
  /\ UNCHANGED <<now, cached>>

\* The request has been sent.
Sent(w) ==
  /\ Does(w, "send")
  /\ Go(w, "idle", Empty)
  /\ UNCHANGED <<now, cached, expires>>

\* A new process starts with an empty cache.
Restart ==
  /\ cached' = Empty
  /\ expires' = 0
  /\ thread' = [w \in Threads |-> Resting]
  /\ UNCHANGED now

\* Time passes, and nobody is later than assumed.
Late(w) ==
  \/ Does(w, "granted") /\ now >= thread[w].at + Latency
  \/ thread[w].step \in {"look", "written"} /\ now >= thread[w].at + Delay
Tick ==
  /\ \A w \in Threads : ~Late(w)
  /\ now' = now + 1
  /\ UNCHANGED <<cached, expires, thread>>

CacheInit ==
  /\ now = 0
  /\ cached = Empty
  /\ expires = 0
  /\ thread = [w \in Threads |-> Resting]

CacheNext ==
  \/ \E w \in Threads :
       Look(w) \/ Take(w) \/ Grant(w) \/ Refuse(w) \/ WriteToken(w) \/ WriteExpiry(w) \/ Sent(w)
  \/ Restart
  \/ Tick

CacheSpec == CacheInit /\ [][CacheNext]_cacheVars

-----------------------------------------------------------------------------

\* base.py:134, "30s safety margin": a token goes into a request only while the
\* gateway still honours it.
SentWhileGood ==
  \A w \in Threads : Does(w, "send") => thread[w].token # Empty /\ thread[w].at < thread[w].token + Ttl

-----------------------------------------------------------------------------
(* What keeps it so.                                                       *)

\* The cache, at any moment.
CacheOK ==
  /\ expires <= now + Ttl
  /\ cached # Empty => cached <= now /\ expires <= cached + Ttl + Latency + Delay

\* Every thread, wherever it stands.
ThreadOK(w) ==
  /\ thread[w].at <= now
  /\ Does(w, "granted") => thread[w].token = thread[w].at /\ now <= thread[w].at + Latency
  /\ Does(w, "written") =>
       /\ cached # Empty /\ thread[w].token # Empty
       /\ thread[w].at <= cached + Latency /\ thread[w].at <= thread[w].token + Latency
       /\ now <= thread[w].at + Delay
  /\ Does(w, "look") =>
       /\ cached # Empty /\ Margin < Ttl
       /\ thread[w].at + Delay < cached + Ttl /\ now <= thread[w].at + Delay
  /\ Does(w, "send") => thread[w].token # Empty /\ thread[w].at < thread[w].token + Ttl

CacheInv == Timely /\ CacheTypeOK /\ CacheOK /\ (\A w \in Threads : ThreadOK(w))
=============================================================================

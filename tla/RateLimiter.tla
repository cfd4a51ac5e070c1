---------------------------- MODULE RateLimiter ----------------------------
(***************************************************************************)
(* The fixed-window rate limiter in front of the login and trigger routes  *)
(* (internal/api/rate_limiter.go): one bucket per source address, the      *)
(* clock read and the bucket changed under one mutex.  FrontDoor has two   *)
(* instances of it.                                                        *)
(***************************************************************************)
EXTENDS Naturals, FiniteSets

CONSTANTS
  Addrs,    \* source addresses
  limit,    \* requests per window (10 logins, 20 triggers)
  window,   \* length of a window (a minute)
  NoBucket  \* no entry in the map

VARIABLES
  now,       \* the clock
  buckets,   \* the map: count and reset of each address seen
  recent,    \* the requests of an address let through within the last window:
             \* when, and the how manieth of that tick
  refused    \* the addresses answered 429 since the clock last moved

LimiterInit ==
  /\ buckets = [ip \in Addrs |-> NoBucket]
  /\ recent = [ip \in Addrs |-> {}]
  /\ refused = {}

-----------------------------------------------------------------------------

\* Mutant of Fresh: a bucket is renewed at every tick after its first.
FreshTooSoon(ip) == buckets[ip] = NoBucket \/ now + window > buckets[ip].reset

\* The address is new, or its window is over.
Fresh(ip) == buckets[ip] = NoBucket \/ now > buckets[ip].reset

\* The window's limit is used up.
Full(ip) == buckets[ip].count >= limit

\* The request gets a 429.
Blocked(ip) == ~Fresh(ip) /\ Full(ip)

\* The first bucket of a new window.
Opened(ip) == [count |-> 1, reset |-> now + window]

\* One more request in the window.
Counted(ip) == [count |-> buckets[ip].count + 1, reset |-> buckets[ip].reset]

\* Mutant of Refuse: a refused request holds the window of its address open.
RefuseExtends(ip) ==
  /\ Blocked(ip)
  /\ buckets' = [buckets EXCEPT ![ip].reset = now + window]
  /\ refused' = refused \cup {ip}
  /\ UNCHANGED recent

\* A request let through at t, after those in G.
Grant(t, G) == [at |-> t, no |-> Cardinality({g \in G : g.at = t}) + 1]

\* allow, returning true.
Admit(ip) ==
  /\ ~Blocked(ip)
  /\ buckets' = [buckets EXCEPT ![ip] = IF Fresh(ip) THEN Opened(ip) ELSE Counted(ip)]
  /\ recent' = [recent EXCEPT ![ip] = @ \cup {Grant(now, @)}]
  /\ UNCHANGED refused

\* allow, returning false.
Refuse(ip) ==
  /\ Blocked(ip)
  /\ refused' = refused \cup {ip}
  /\ UNCHANGED <<buckets, recent>>

\* Those of G that are still within a window of t.
Lately(t, G) == {g \in G : t <= g.at + window}

\* The clock moves: what was let through is a tick older.
Age ==
  /\ recent' = [ip \in Addrs |-> Lately(now + 1, recent[ip])]
  /\ refused' = {}
  /\ UNCHANGED buckets

\* The process starts: the map is empty, and the history begins anew with it.
Forget ==
  /\ buckets' = [ip \in Addrs |-> NoBucket]
  /\ recent' = [ip \in Addrs |-> {}]
  /\ refused' = {}

-----------------------------------------------------------------------------

\* A fixed window lets through at most twice its limit in any stretch of its
\* length, wherever the stretch begins.
WithinTwice == \A ip \in Addrs : Cardinality(recent[ip]) <= 2 * limit

\* An address is refused only while it really has had its limit within the
\* last window: neither old windows nor refused requests hold it back.
HadItsShare == \A ip \in refused : Cardinality(recent[ip]) >= limit
=============================================================================

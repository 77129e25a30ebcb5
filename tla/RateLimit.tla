------------------------------- MODULE RateLimit -------------------------------
(***************************************************************************)
(* The rate limit of one route for one client (rate-limit.guard.ts).       *)
(* Without REDIS_URL each instance counts in its own memory and prunes     *)
(* what has lapsed; with it all instances count in one key: INCR, PEXPIRE  *)
(* by whoever counted first, PTTL by whoever is refused.  A Redis command  *)
(* that fails rejects the request; whether it was let through is counted   *)
(* as if it had not failed.                                                *)
(***************************************************************************)
EXTENDS Naturals

CONSTANTS
    Guards,        \* server instances
    Calls,         \* requests in progress
    LIMIT,
    MaxCalls       \* bound on the counters

Shared == "redis"

ASSUME RateLimitAssumption ==
    LIMIT \in Nat \ {0} /\ MaxCalls \in Nat /\ Shared \notin Guards

VARIABLES
    redis,         \* a Redis is configured
    local,         \* bucket of each instance
    key,           \* the key in Redis
    call,          \* "idle", or the Redis command a request waits for
    admitted       \* history: requests let through since the window opened

rateVars == <<redis, local, key, call, admitted>>

NoBucket == [count |-> 0, lapsed |-> FALSE]
NoKey == [count |-> 0, expires |-> FALSE, orphan |-> FALSE]

RateInit ==
    /\ redis \in BOOLEAN
    /\ local = [i \in Guards |-> NoBucket]
    /\ key = NoKey
    /\ call = [c \in Calls |-> "idle"]
    /\ admitted = [w \in Guards \cup {Shared} |-> 0]

\* Variant: a bucket lets one request more through than the limit.
LocallyFullOver(b) == b.count > LIMIT

LocallyFull(b) == b.count >= LIMIT

\* checkLocal, in one synchronous step.
CheckLocal(i) ==
    /\ ~redis
    /\ LET b == local[i] IN
       \/ /\ b = NoBucket \/ b.lapsed
          /\ local' = [local EXCEPT ![i] = [count |-> 1, lapsed |-> FALSE]]
          /\ admitted' = [admitted EXCEPT ![i] = 1]
       \/ /\ ~(b = NoBucket \/ b.lapsed)
          /\ IF LocallyFull(b)
             THEN UNCHANGED <<local, admitted>>
             ELSE /\ local' = [local EXCEPT ![i].count = @ + 1]
                  /\ admitted' = [admitted EXCEPT ![i] = @ + 1]
    /\ UNCHANGED <<redis, key, call>>

\* pruneLocal, run on behalf of other clients.
PruneLocal(i) ==
    /\ local[i].lapsed
    /\ local' = [local EXCEPT ![i] = NoBucket]
    /\ UNCHANGED <<redis, key, call, admitted>>

-----------------------------------------------------------------------------

Incr(c) ==
    /\ redis
    /\ call[c] = "idle"
    /\ key.count < MaxCalls
    /\ LET n == key.count + 1 IN
       /\ key' = [key EXCEPT !.count = n]
       /\ call' = [call EXCEPT ![c] =
             IF n = 1 THEN "pexpire" ELSE IF n > LIMIT THEN "pttl" ELSE "idle"]
       /\ admitted' = [admitted EXCEPT ![Shared] =
             IF n > LIMIT THEN @ ELSE IF n = 1 THEN 1 ELSE @ + 1]
    /\ UNCHANGED <<redis, local>>

\* Variant: whoever counts first leaves the expiry to others.
PexpireLater(c) ==
    /\ call[c] = "pexpire"
    /\ call' = [call EXCEPT ![c] = "idle"]
    /\ UNCHANGED <<redis, local, admitted, key>>

Pexpire(c) ==
    /\ call[c] = "pexpire"
    /\ key' = IF key.count = 0 THEN key ELSE [key EXCEPT !.expires = TRUE, !.orphan = FALSE]
    /\ call' = [call EXCEPT ![c] = "idle"]
    /\ UNCHANGED <<redis, local, admitted>>

Pttl(c) ==
    /\ call[c] = "pttl"
    /\ call' = [call EXCEPT ![c] = "idle"]
    /\ UNCHANGED <<redis, local, key, admitted>>

\* The instance stops, or Redis fails the command.
CallFails(c) ==
    /\ call[c] # "idle"
    /\ call' = [call EXCEPT ![c] = "idle"]
    /\ key' = IF call[c] = "pexpire" /\ key.count > 0 /\ ~key.expires
              THEN [key EXCEPT !.orphan = TRUE] ELSE key
    /\ UNCHANGED <<redis, local, admitted>>

-----------------------------------------------------------------------------

\* The window of an instance ends.
BucketLapses(i) ==
    /\ local[i].count > 0 /\ ~local[i].lapsed
    /\ local' = [local EXCEPT ![i].lapsed = TRUE]
    /\ UNCHANGED <<redis, key, call, admitted>>

KeyExpires ==
    /\ key.expires
    /\ key' = NoKey
    /\ UNCHANGED <<redis, local, call, admitted>>

\* Redis comes back empty.
RedisRestart ==
    /\ redis /\ key # NoKey
    /\ key' = NoKey
    /\ UNCHANGED <<redis, local, call, admitted>>

RateNext ==
    \/ \E i \in Guards : CheckLocal(i) \/ PruneLocal(i) \/ BucketLapses(i)
    \/ \E c \in Calls : Incr(c) \/ Pexpire(c) \/ Pttl(c) \/ CallFails(c)
    \/ KeyExpires \/ RedisRestart

RateSpec == RateInit /\ [][RateNext]_rateVars

-----------------------------------------------------------------------------
(* Properties.                                                             *)

RateTypeOK ==
    /\ redis \in BOOLEAN
    /\ local \in [Guards -> [count : 0..LIMIT, lapsed : BOOLEAN]]
    /\ key \in [count : 0..MaxCalls, expires : BOOLEAN, orphan : BOOLEAN]
    /\ call \in [Calls -> {"idle", "pexpire", "pttl"}]
    /\ admitted \in [Guards \cup {Shared} -> Nat]

\* A client gets at most LIMIT requests through in one window, whatever counts
\* them, and every window ends: a counter in Redis has an expiry, or a request
\* is about to set it, unless that request failed between INCR and PEXPIRE.
LimitKept ==
    /\ \A w \in Guards \cup {Shared} : admitted[w] <= LIMIT
    /\ key.count > 0 =>
          key.expires \/ key.orphan \/ \E c \in Calls : call[c] = "pexpire"
=============================================================================

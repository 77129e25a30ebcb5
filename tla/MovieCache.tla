------------------------------ MODULE MovieCache ------------------------------
(***************************************************************************)
(* The two levels of cache in front of the movie sources: per instance a   *)
(* bounded TtlCache with in-flight de-duplication (ttl-cache.util.ts),     *)
(* behind it Redis (movie-cache.service.ts).                               *)
(*                                                                         *)
(* The unit of time is a minute, the life of an entry in memory.  An entry *)
(* carries the source that answered, its age since that answer and what is *)
(* left of its life; a load takes any time, a Redis command less than a    *)
(* minute.  What a load comes to is what MovieSources lets a request come  *)
(* to: a source the request may reach, or an error.                        *)
(***************************************************************************)
EXTENDS Naturals, SequencesExt

CONSTANTS
    Servers,           \* server instances
    Requests,          \* requests in progress
    Contexts,          \* the service's methods being called
    Origins,           \* sources
    Pins,              \* sources asked for, or Whatever
    L1_MAX_ENTRIES

Whatever == "whatever"    \* no pinned source

Nobody == "nobody"

ASSUME MovieCacheAssumption ==
    /\ L1_MAX_ENTRIES \in Nat \ {0}
    /\ Contexts \subseteq {"list", "search", "detail", "meta"}
    /\ Pins \subseteq Origins \cup {Whatever}
    /\ Nobody \notin Requests

MOVIE_CACHE_TTL ==
    [list |-> 3, search |-> 2, detail |-> 10, meta |-> 60]
L1_MAX_TTL == 1

VARIABLES
    l1,         \* entries of each instance, in the order of the Map
    loading,    \* the request whose load others join, per instance and key
    l2,         \* Redis: entry of each key, or Missing
    writing,    \* SET commands an instance has sent
    request,    \* requests of clients, the load of one being its own
    answered    \* the answers that the last step gave

cacheVars == <<l1, loading, l2, writing, request, answered>>

\* Variant: what one source answered is kept for every request.
CacheKeyWithoutPin(context, pin) == <<context, Whatever>>

CacheKey(context, pin) == <<context, pin>>

CacheKeys == {CacheKey(c, p) : c \in Contexts, p \in Pins}
TtlOf(k) == MOVIE_CACHE_TTL[k[1]]

NoRequest == [pc |-> "idle"]
Missing == [left |-> 0]
Value(s, age) == [source |-> s, age |-> age]
Failure == Value("error", 0)

CacheInit ==
    /\ l1 = [i \in Servers |-> <<>>]
    /\ loading = [i \in Servers |-> [k \in CacheKeys |-> Nobody]]
    /\ l2 = [k \in CacheKeys |-> Missing]
    /\ writing = [i \in Servers |-> <<>>]
    /\ request = [r \in Requests |-> NoRequest]
    /\ answered = {}

-----------------------------------------------------------------------------
(* TtlCache.                                                               *)

Without(i, k) == RemoveFirstMatch(l1[i], LAMBDA e : e.key = k)

\* Variant: memory keeps an entry as long as Redis does.
LifeInMemoryOfRedis(k) == TtlOf(k)

LifeInMemory(k) == IF TtlOf(k) < L1_MAX_TTL THEN TtlOf(k) ELSE L1_MAX_TTL

\* set: a new entry goes last, and the oldest go beyond the limit.
Remember(i, k, v) ==
    LET all == Append(Without(i, k), [key |-> k, left |-> LifeInMemory(k), value |-> v]) IN
    l1' = [l1 EXCEPT ![i] = IF Len(all) > L1_MAX_ENTRIES THEN Tail(all) ELSE all]

Answer(asked, v) == [asked |-> asked, value |-> v]

Join(i, k) == loading[i][k]

\* getOrLoad up to its first await: a hit, a load to join, or a load of its own.
\* Redis is asked when its client is ready.
Ask(r, i, context, pin) ==
    LET k == CacheKey(context, pin)
        hits == {e \in Range(l1[i]) : e.key = k}
    IN
    /\ request[r] = NoRequest
    /\ IF \E e \in hits : e.left > 0
       THEN LET e == CHOOSE e \in hits : TRUE IN
            /\ answered' = {Answer(<<context, pin>>, e.value)}
            /\ l1' = [l1 EXCEPT ![i] = Append(Without(i, k), e)]
            /\ UNCHANGED <<loading, request>>
       ELSE /\ answered' = {}
            /\ l1' = [l1 EXCEPT ![i] = Without(i, k)]
            /\ IF Join(i, k) # Nobody
               THEN /\ request' = [request EXCEPT ![r] = 
                        [pc |-> "joined", at |-> i, asked |-> <<context, pin>>, on |-> Join(i, k)]]
                    /\ UNCHANGED loading
               ELSE /\ \E pc \in {"get", "load"} :
                          request' = [request EXCEPT ![r] =
                             [pc |-> pc, at |-> i, asked |-> <<context, pin>>, write |-> pc = "get"]]
                    /\ loading' = [loading EXCEPT ![i][k] = r]
    /\ UNCHANGED <<l2, writing>>

-----------------------------------------------------------------------------
(* MovieCacheService.                                                      *)

Followers(r) == {f \in Requests : request[f].pc = "joined" /\ request[f].on = r}
Awaiting(r) == Followers(r) \cup {r}
KeyOf(r) == CacheKey(request[r].asked[1], request[r].asked[2])

\* The promise settles: whoever awaits it goes on.
Settle(r, v) ==
    /\ request' = [f \in Requests |-> IF f \in Awaiting(r) THEN NoRequest ELSE request[f]]
    /\ answered' = {Answer(request[f].asked, v) : f \in Awaiting(r)}

Loaded(r, v) ==
    /\ Remember(request[r].at, KeyOf(r), v)
    /\ loading' = [loading EXCEPT ![request[r].at][KeyOf(r)] = Nobody]
    /\ Settle(r, v)

\* Commands of one instance reach Redis in the order it sent them.
Get(r) ==
    /\ request[r].pc = "get"
    /\ writing[request[r].at] = <<>>
    /\ \/ /\ l2[KeyOf(r)].left > 0
          /\ Loaded(r, l2[KeyOf(r)].value)
       \/ \* a miss, or an error
          /\ request' = [request EXCEPT ![r].pc = "load"]
          /\ answered' = {}
          /\ UNCHANGED <<l1, loading>>
    /\ UNCHANGED <<l2, writing>>

\* Errors of the load pass through and are not kept.
MayAnswer(r) == IF request[r].asked[2] = Whatever THEN Origins ELSE {request[r].asked[2]}

Load(r) ==
    /\ request[r].pc = "load"
    /\ \E s \in MayAnswer(r) :
          /\ Loaded(r, Value(s, 0))
          /\ writing' = IF request[r].write
                        THEN [writing EXCEPT ![request[r].at] =
                                 Append(@, [key |-> KeyOf(r), value |-> Value(s, 0)])]
                        ELSE writing
    /\ UNCHANGED l2

\* Variant: loading forgets only the loads that succeed.
LoadFailsPending(r) ==
    /\ request[r].pc = "load"
    /\ Settle(r, Failure)
    /\ UNCHANGED <<l1, l2, writing, loading>>

LoadFails(r) ==
    /\ request[r].pc = "load"
    /\ loading' = [loading EXCEPT ![request[r].at][KeyOf(r)] = Nobody]
    /\ Settle(r, Failure)
    /\ UNCHANGED <<l1, l2, writing>>

\* The write is not waited for; it may fail.
Set(i) ==
    /\ writing[i] # <<>>
    /\ LET w == Head(writing[i]) IN
       l2' \in {l2, [l2 EXCEPT ![w.key] = [left |-> TtlOf(w.key), value |-> w.value]]}
    /\ writing' = [writing EXCEPT ![i] = Tail(@)]
    /\ answered' = {}
    /\ UNCHANGED <<l1, loading, request>>

-----------------------------------------------------------------------------

\* A minute older; the age of an entry past its life does not matter any more.
Aged(e) == IF e.left = 0 THEN e ELSE [e EXCEPT !.left = @ - 1, !.value.age = @ + 1]

\* Redis commands are faster than a minute.
Minute ==
    /\ \A i \in Servers : writing[i] = <<>>
    /\ l1' = [i \in Servers |-> [n \in DOMAIN l1[i] |-> Aged(l1[i][n])]]
    /\ l2' = [k \in CacheKeys |-> IF l2[k].left <= 1 THEN Missing ELSE Aged(l2[k])]
    /\ answered' = {}
    /\ UNCHANGED <<loading, writing, request>>

\* A restarted instance has an empty memory; its requests are gone.
ServerRestart(i) ==
    /\ l1' = [l1 EXCEPT ![i] = <<>>]
    /\ loading' = [loading EXCEPT ![i] = [k \in CacheKeys |-> Nobody]]
    /\ writing' = [writing EXCEPT ![i] = <<>>]
    /\ request' = [r \in Requests |->
                      IF request[r].pc # "idle" /\ request[r].at = i THEN NoRequest ELSE request[r]]
    /\ answered' = {}
    /\ UNCHANGED l2

CacheNext ==
    \/ \E r \in Requests, i \in Servers, c \in Contexts, p \in Pins : Ask(r, i, c, p)
    \/ \E r \in Requests : Get(r) \/ Load(r) \/ LoadFails(r)
    \/ \E i \in Servers : Set(i) \/ ServerRestart(i)
    \/ Minute

CacheSpec == CacheInit /\ [][CacheNext]_cacheVars

-----------------------------------------------------------------------------
(* Properties.                                                             *)

CacheTypeOK ==
    /\ \A i \in Servers : /\ Len(l1[i]) <= L1_MAX_ENTRIES
                          /\ \A m, n \in DOMAIN l1[i] : m # n => l1[i][m].key # l1[i][n].key
    /\ \A k \in CacheKeys : l2[k].left \in 0..TtlOf(k)
    /\ \A r \in Requests : request[r].pc \in {"idle", "get", "load", "joined"}

Working(r) == request[r].pc \in {"get", "load"}

\* No client is given an answer older than its life in Redis and one minute of
\* memory together, however instances read from each other through Redis
\* ("keep it short so instances sharing Redis stay in step").  Ages count whole
\* minutes: the answer is up to one more.
FreshEnough ==
    \A a \in answered :
        a.value # Failure => a.value.age + 1 < TtlOf(a.asked) + L1_MAX_TTL

\* An instance asks for the same thing once at a time, whatever expires, is
\* evicted or fails meanwhile; and who joined a load waits for one that is still
\* going on, never for one that failed before it came (TtlCache.getOrLoad).
LoadsAreShared ==
    /\ \A q, r \in Requests :
          /\ Working(q) /\ Working(r)
          /\ request[q].at = request[r].at /\ request[q].asked = request[r].asked
          => q = r
    /\ \A r \in Requests : request[r].pc = "joined" => Working(request[r].on)

\* Who asked for one source is answered by that source, from both caches and
\* from loads that others started (the source is part of the key).
PinnedSourceAnswers ==
    \A a \in answered :
        a.value # Failure /\ a.asked[2] # Whatever => a.value.source = a.asked[2]
=============================================================================

----------------------------- MODULE SearchCache -----------------------------
(***************************************************************************)
(* api/cache.py around GET /indicators/search: requests for one query, the *)
(* Redis entry they share, the connections their SELECTs hold, and the API *)
(* process, PostgreSQL and Redis coming and going.                         *)
(*                                                                         *)
(* An answer is known by the instant of the SELECT it came from, whatever  *)
(* the indicators table held then (also nothing: the empty list is cached  *)
(* like any other).                                                        *)
(***************************************************************************)
EXTENDS Integers, FiniteSets, ApiProcess

CONSTANTS
    Ttl,         \* seconds an entry lives: 60 at routes.py:19
    MaxLatency,  \* the most that passes between a SELECT and its SETEX
    PoolSize,    \* pool_size + max_overflow connections: 30 at database.py:16
    Nothing,     \* no entry
    MaxTime      \* bound: the last instant

ASSUME CacheAssumption ==
    /\ Ttl \in Nat \ {0}
    /\ MaxLatency \in Nat
    /\ PoolSize \in Nat \ {0}
    /\ MaxTime \in Nat

VARIABLES
    clock,
    cached,      \* the entry: [asOf, expires], or Nothing
    phase,       \* where each request is in the wrapper
    alive,       \* requests whose session has a connection that still works
    asOf,        \* the instant of the SELECT whose result it is to store
    age          \* history: how old the data of its answer was when given

vars == <<process, clock, cached, phase, alive, asOf, age>>

Time == 0..MaxTime
Entry == [asOf : Time, expires : Nat]
Ended == {"answered", "failed", "rejected"}
Phases == {"new", "get", "select", "setex"} \cup Ended

TypeOK ==
    /\ ProcessTypeOK
    /\ clock \in Time
    /\ cached \in Entry \cup {Nothing}
    /\ phase \in [Requests -> Phases]
    /\ alive \in SUBSET Requests
    /\ asOf \in [Requests -> Time]
    /\ age \in [Requests -> Time]

Init ==
    /\ ProcessInit
    /\ clock = 0
    /\ cached = Nothing
    /\ phase = [r \in Requests |-> "new"]
    /\ alive = {}
    /\ asOf = [r \in Requests |-> 0]
    /\ age = [r \in Requests |-> 0]

------------------------------------------------------------------------------
(* The wrapper                                                              *)

Move(r, from, to) == phase[r] = from /\ phase' = [phase EXCEPT ![r] = to]

Answer(r, from, time) == /\ Move(r, from, "answered")
                         /\ age' = [age EXCEPT ![r] = clock - time]

\* A 401 or 403, before the wrapper looks at the cache.
Reject(r) ==
    /\ server = "serving" /\ ~Allowed(r, require_analyst)
    /\ Move(r, "new", "rejected")
    /\ UNCHANGED <<process, clock, cached, alive, asOf, age>>

\* "execute the route without caching" when there is no client.
Begin(r) ==
    /\ server = "serving" /\ Allowed(r, require_analyst)
    /\ Move(r, "new", IF client THEN "get" ELSE "select")
    /\ UNCHANGED <<process, clock, cached, alive, asOf, age>>

\* Mutant of Hit: each hit renews the entry.
HitRenewing(r) ==
    /\ redisUp /\ cached # Nothing
    /\ Answer(r, "get", cached.asOf)
    /\ cached' = [cached EXCEPT !.expires = clock + Ttl]
    /\ UNCHANGED <<process, clock, alive, asOf>>

\* Its session has sent nothing: a hit needs no database.
Hit(r) ==
    /\ redisUp /\ cached # Nothing
    /\ Answer(r, "get", cached.asOf)
    /\ UNCHANGED <<process, clock, cached, alive, asOf>>

\* Mutant of GetFails: the read is tried again.
GetFailsAgain(r) == phase[r] = "get" /\ ~redisUp /\ UNCHANGED vars

Miss(r) ==
    /\ redisUp /\ cached = Nothing
    /\ Move(r, "get", "select")
    /\ UNCHANGED <<process, clock, cached, alive, asOf, age>>

\* "Redis cache read error": logged, and the route is executed.
GetFails(r) ==
    /\ ~redisUp
    /\ Move(r, "get", "select")
    /\ UNCHANGED <<process, clock, cached, alive, asOf, age>>

\* A session keeps its connection until the dependency ends, after the SETEX.
PoolFull == Cardinality({r \in Requests : phase[r] = "setex"}) >= PoolSize

\* The route's SELECT, on a connection that pool_pre_ping has tried; without a
\* client its result is the answer and the session ends.
Select(r) ==
    /\ dbUp /\ tables /\ ~PoolFull
    /\ IF client
         THEN /\ Move(r, "select", "setex")
              /\ alive' = alive \cup {r}
              /\ asOf' = [asOf EXCEPT ![r] = clock]
              /\ UNCHANGED age
         ELSE Answer(r, "select", clock) /\ UNCHANGED <<alive, asOf>>
    /\ UNCHANGED <<process, clock, cached>>

\* No connection, no table, or no connection free in time: nothing is cached,
\* and get_async_session rolls back and raises.
SelectFails(r) ==
    /\ ~dbUp \/ ~tables \/ PoolFull
    /\ Move(r, "select", "failed")
    /\ UNCHANGED <<process, clock, cached, alive, asOf, age>>

\* The dependency's commit: on a connection cut meanwhile it raises, and the
\* response is an error whatever has been cached.
EndSession(r) ==
    /\ alive' = alive \ {r}
    /\ asOf' = [asOf EXCEPT ![r] = 0]
    /\ IF r \in alive THEN Answer(r, "setex", asOf[r])
       ELSE Move(r, "setex", "failed") /\ UNCHANGED age

\* Mutant of SetEx: the default time to live, 300 seconds instead of 60.
SetExDefault(r) ==
    /\ redisUp
    /\ EndSession(r)
    /\ cached' = [asOf |-> asOf[r], expires |-> clock + 5 * Ttl]
    /\ UNCHANGED <<process, clock>>

\* Whatever entry is there is overwritten, a younger one too.
SetEx(r) ==
    /\ redisUp
    /\ EndSession(r)
    /\ cached' = [asOf |-> asOf[r], expires |-> clock + Ttl]
    /\ UNCHANGED <<process, clock>>

\* "Redis cache write error": logged, and the result is the answer.
SetExFails(r) ==
    /\ ~redisUp
    /\ EndSession(r)
    /\ UNCHANGED <<process, clock, cached>>

Step(r) ==
    \/ Reject(r) \/ Begin(r) \/ Hit(r) \/ Miss(r) \/ GetFails(r)
    \/ Select(r) \/ SelectFails(r) \/ SetEx(r) \/ SetExFails(r)

------------------------------------------------------------------------------
(* The process and its surroundings, and time                               *)

Start == StartStep /\ UNCHANGED <<clock, cached, phase, alive, asOf, age>>

\* A crash takes the requests in progress with it; after an orderly shutdown
\* there are none.  Entries stay in Redis.
Stop ==
    /\ ServerStops
    /\ phase' = [r \in Requests |-> IF phase[r] \in Ended \cup {"new"}
                                    THEN phase[r] ELSE "failed"]
    /\ alive' = {}
    /\ asOf' = [r \in Requests |-> 0]
    /\ UNCHANGED <<clock, cached, age>>

\* The connections of sessions in progress are cut.
DatabaseStops ==
    /\ DbStops
    /\ alive' = {}
    /\ UNCHANGED <<clock, cached, phase, asOf, age>>

DatabaseStarts ==
    DbStarts /\ UNCHANGED <<clock, cached, phase, alive, asOf, age>>

RedisStops ==
    RedisDown /\ UNCHANGED <<clock, cached, phase, alive, asOf, age>>

\* It comes back with what it had saved, or empty.
RedisStarts ==
    /\ RedisUp
    /\ cached' \in {cached, Nothing}
    /\ UNCHANGED <<clock, phase, alive, asOf, age>>

Expired(entry, time) == entry # Nothing /\ entry.expires <= time

\* A result is not held longer than MaxLatency before it is stored.
Tick ==
    /\ clock < MaxTime
    /\ \A r \in Requests : phase[r] = "setex" => clock - asOf[r] < MaxLatency
    /\ clock' = clock + 1
    /\ cached' = IF Expired(cached, clock') THEN Nothing ELSE cached
    /\ UNCHANGED <<process, phase, alive, asOf, age>>

Next ==
    \/ \E r \in Requests : Step(r)
    \/ Start \/ Stop
    \/ DatabaseStops \/ DatabaseStarts
    \/ RedisStops \/ RedisStarts
    \/ Tick

Spec == Init /\ [][Next]_vars

\* The end of a start-up.
Yield == Start /\ server' = "serving"

\* A coroutine whose awaited call has returned or raised goes on, and so does
\* a start-up.  Of starts that keep reaching init_redis one gets through it:
\* a process killed in each of them would never serve.  Nothing else is owed.
FairSpec ==
    /\ Spec
    /\ WF_vars(Start) /\ SF_vars(Yield)
    /\ \A r \in Requests : WF_vars(Step(r))

------------------------------------------------------------------------------
(* Properties                                                               *)

\* What a search returns was the table's content less than Ttl + MaxLatency
\* ago: although an old result may overwrite a younger one (cache.py:83), is
\* served again and again, and survives a restart of Redis and of the API.
AnswerFresh ==
    \A r \in Requests :
        phase[r] = "answered" => age[r] < Ttl + MaxLatency

\* No instant of a SELECT is ahead of the clock.
PastOnly == \A r \in Requests : asOf[r] <= clock

\* A live entry expires Ttl + MaxLatency after its SELECT at the latest,
\* whichever of the racing requests stored it last.
EntryYoung ==
    cached # Nothing
      => /\ cached.asOf <= clock
         /\ clock < cached.expires
         /\ cached.expires <= cached.asOf + Ttl + MaxLatency

\* A result on its way to Redis is no older than MaxLatency.
ResultYoung ==
    \A r \in Requests : phase[r] = "setex" => clock - asOf[r] <= MaxLatency

\* The invariant that makes AnswerFresh inductive over cache.py:65-88: it
\* bounds the age of what is stored and of what is about to be.
IInv == TypeOK /\ PastOnly /\ EntryYoung /\ ResultYoung /\ AnswerFresh

\* A failed create_all (main.py:32) and a failed ping (cache.py:22) are both
\* survived: whatever is down at a start, and however often starts are cut
\* off, unless every single one is, the process serves again.
ServesAgain == server # "serving" ~> server = "serving"

\* "Falls back gracefully if Redis is unavailable" (cache.py:37): no search
\* waits for Redis, for PostgreSQL or for a connection, however they come and
\* go.
EveryAnswered == \A r \in Requests : phase[r] # "new" ~> phase[r] \in Ended
==============================================================================

-------------------------- MODULE SearchCacheProofs --------------------------
(***************************************************************************)
(* Proofs about SearchCache, for every time to live, latency, pool size    *)
(* and number of searches.                                                 *)
(***************************************************************************)
EXTENDS SearchCache, TLAPS

\* Nothing has been read when the first search comes.
LEMMA InitInv == Init => IInv
  <1> SUFFICES ASSUME Init
               PROVE  IInv
    OBVIOUS
  <1> USE CacheAssumption DEF Init
  <1>1. ProcessTypeOK
    BY DEF ProcessInit, ProcessTypeOK
  <1>2. TypeOK
    BY <1>1 DEF TypeOK, Time, Phases, Ended
  <1>3. PastOnly /\ EntryYoung /\ ResultYoung /\ AnswerFresh
    BY DEF PastOnly, EntryYoung, ResultYoung, AnswerFresh
  <1> QED
    BY <1>2, <1>3 DEF IInv

\* The steps of a search that neither answer it nor store anything.
LEMMA MoveStep ==
    ASSUME IInv, NEW r \in Requests,
           Reject(r) \/ Begin(r) \/ Miss(r) \/ GetFails(r) \/ SelectFails(r)
    PROVE  IInv'
  <1>1. \E p \in {"get", "select", "failed", "rejected"} :
           phase' = [phase EXCEPT ![r] = p]
    BY DEF Reject, Begin, Miss, GetFails, SelectFails, Move
  <1>2. UNCHANGED <<process, clock, cached, alive, asOf, age>>
    BY DEF Reject, Begin, Miss, GetFails, SelectFails
  <1>3. TypeOK'
    BY <1>1, <1>2 DEF IInv, TypeOK, ProcessTypeOK, process, Phases, Ended
  <1> QED
    BY <1>1, <1>2, <1>3
    DEF IInv, TypeOK, PastOnly, EntryYoung, ResultYoung, AnswerFresh

\* A hit answers with a live entry, and no live entry is too old.
LEMMA HitStep ==
    ASSUME IInv, NEW r \in Requests, Hit(r)
    PROVE  IInv'
  <1> USE CacheAssumption
  <1>1. /\ clock \in Nat
        /\ cached.asOf \in Nat
        /\ clock - cached.asOf \in Time
        /\ clock - cached.asOf < Ttl + MaxLatency
    BY DEF IInv, TypeOK, EntryYoung, Entry, Time, Hit
  <1>2. /\ phase' = [phase EXCEPT ![r] = "answered"]
        /\ age' = [age EXCEPT ![r] = clock - cached.asOf]
        /\ UNCHANGED <<process, clock, cached, alive, asOf>>
    BY DEF Hit, Answer, Move
  <1>3. TypeOK'
    BY <1>1, <1>2 DEF IInv, TypeOK, ProcessTypeOK, process, Phases, Ended
  <1>4. PastOnly' /\ EntryYoung' /\ ResultYoung'
    BY <1>1, <1>2 DEF IInv, TypeOK, PastOnly, EntryYoung, ResultYoung
  <1>5. AnswerFresh'
    BY <1>1, <1>2 DEF IInv, TypeOK, AnswerFresh
  <1> QED
    BY <1>3, <1>4, <1>5 DEF IInv

\* The SELECT is as of now.
LEMMA SelectStep ==
    ASSUME IInv, NEW r \in Requests, Select(r)
    PROVE  IInv'
  <1> USE CacheAssumption
  <1>1. /\ clock \in Time /\ clock \in Nat /\ clock - clock \in Time
        /\ UNCHANGED <<process, clock, cached>>
    BY DEF Select, IInv, TypeOK, Time
  <1>2. CASE client
    <2>1. /\ phase' = [phase EXCEPT ![r] = "setex"]
          /\ alive' = alive \cup {r}
          /\ asOf' = [asOf EXCEPT ![r] = clock]
          /\ age' = age
      BY <1>2 DEF Select, Move
    <2>2. TypeOK'
      BY <1>1, <2>1 DEF IInv, TypeOK, ProcessTypeOK, process, Phases, Ended
    <2>3. PastOnly' /\ EntryYoung' /\ ResultYoung' /\ AnswerFresh'
      BY <1>1, <2>1
      DEF IInv, TypeOK, PastOnly, EntryYoung, ResultYoung, AnswerFresh
    <2> QED
      BY <2>2, <2>3 DEF IInv
  <1>3. CASE ~client
    <2>1. /\ phase' = [phase EXCEPT ![r] = "answered"]
          /\ age' = [age EXCEPT ![r] = clock - clock]
          /\ UNCHANGED <<alive, asOf>>
      BY <1>3 DEF Select, Answer, Move
    <2>2. TypeOK'
      BY <1>1, <2>1 DEF IInv, TypeOK, ProcessTypeOK, process, Phases, Ended
    <2>3. PastOnly' /\ EntryYoung' /\ ResultYoung' /\ AnswerFresh'
      BY <1>1, <2>1
      DEF IInv, TypeOK, PastOnly, EntryYoung, ResultYoung, AnswerFresh
    <2> QED
      BY <2>2, <2>3 DEF IInv
  <1> QED
    BY <1>2, <1>3

\* What is stored, or could not be stored, is a young result, and an answer
\* only if the session ends well.
LEMMA StoreStep ==
    ASSUME IInv, NEW r \in Requests, SetEx(r) \/ SetExFails(r)
    PROVE  IInv'
  <1> USE CacheAssumption
  <1>1. /\ asOf[r] \in Time /\ asOf[r] \in Nat
        /\ clock \in Time /\ clock \in Nat
        /\ asOf[r] <= clock
        /\ clock - asOf[r] <= MaxLatency
        /\ clock - asOf[r] \in Time
    BY DEF SetEx, SetExFails, EndSession, Answer, Move, IInv, TypeOK, Time,
           PastOnly, ResultYoung
  <1>2. /\ UNCHANGED <<process, clock>>
        /\ asOf' = [asOf EXCEPT ![r] = 0]
        /\ alive' = alive \ {r}
        /\ cached' \in {cached, [asOf |-> asOf[r], expires |-> clock + Ttl]}
    BY DEF SetEx, SetExFails, EndSession
  <1>3. \/ /\ phase' = [phase EXCEPT ![r] = "answered"]
           /\ age' = [age EXCEPT ![r] = clock - asOf[r]]
        \/ /\ phase' = [phase EXCEPT ![r] = "failed"]
           /\ age' = age
    BY DEF SetEx, SetExFails, EndSession, Answer, Move
  <1>4. TypeOK'
    <2>1. ProcessTypeOK'
      BY <1>2 DEF IInv, TypeOK, ProcessTypeOK, process
    <2>2. cached' \in Entry' \cup {Nothing}
      BY <1>1, <1>2 DEF IInv, TypeOK, Entry, Time
    <2>3. /\ clock' \in Time
          /\ alive' \in SUBSET Requests
          /\ asOf' \in [Requests -> Time]
      BY <1>1, <1>2 DEF IInv, TypeOK, Time
    <2>4. phase' \in [Requests -> Phases] /\ age' \in [Requests -> Time]
      BY <1>1, <1>3 DEF IInv, TypeOK, Phases, Ended
    <2> QED
      BY <2>1, <2>2, <2>3, <2>4 DEF TypeOK
  <1>5. PastOnly' /\ ResultYoung'
    BY <1>1, <1>2, <1>3 DEF IInv, TypeOK, PastOnly, ResultYoung
  <1>6. EntryYoung'
    <2>1. CASE cached' = cached
      BY <1>2, <2>1 DEF IInv, EntryYoung
    <2>2. CASE cached' = [asOf |-> asOf[r], expires |-> clock + Ttl]
      BY <1>1, <1>2, <2>2 DEF EntryYoung
    <2> QED
      BY <1>2, <2>1, <2>2
  <1>7. AnswerFresh'
    BY <1>1, <1>3 DEF IInv, TypeOK, AnswerFresh
  <1> QED
    BY <1>4, <1>5, <1>6, <1>7 DEF IInv

\* Redis, PostgreSQL and a start-up invent no entry, result or answer.
LEMMA SurroundingsStep ==
    ASSUME IInv,
           Start \/ DatabaseStops \/ DatabaseStarts \/ RedisStops \/ RedisStarts
    PROVE  IInv'
  <1>1. ProcessTypeOK'
    BY DEF IInv, TypeOK, ProcessTypeOK, Start, StartStep, InitDb, InitRedis,
           DatabaseStops, DbStops, DatabaseStarts, DbStarts, RedisStops,
           RedisDown, RedisStarts, RedisUp
  <1>2. /\ UNCHANGED <<clock, phase, asOf, age>>
        /\ cached' \in {cached, Nothing}
        /\ alive' \in {alive, {}}
    BY DEF Start, DatabaseStops, DatabaseStarts, RedisStops, RedisStarts
  <1> QED
    BY <1>1, <1>2
    DEF IInv, TypeOK, PastOnly, EntryYoung, ResultYoung, AnswerFresh

\* A stop of the process ends its requests, and answers none.
LEMMA StopStep ==
    ASSUME IInv, Stop
    PROVE  IInv'
  <1>1. ProcessTypeOK'
    BY DEF IInv, TypeOK, ProcessTypeOK, Stop, ServerStops
  <1>2. /\ UNCHANGED <<clock, cached, age>>
        /\ alive' = {}
        /\ asOf' = [r \in Requests |-> 0]
        /\ phase' = [r \in Requests |-> IF phase[r] \in Ended \cup {"new"}
                                        THEN phase[r] ELSE "failed"]
    BY DEF Stop
  <1>3. \A r \in Requests : /\ phase'[r] # "setex"
                            /\ phase'[r] = "answered" => phase[r] = "answered"
    BY <1>2 DEF Ended
  <1>4. TypeOK'
    BY <1>1, <1>2, CacheAssumption DEF IInv, TypeOK, Time, Phases, Ended
  <1>5. PastOnly' /\ EntryYoung' /\ ResultYoung' /\ AnswerFresh'
    BY <1>2, <1>3
    DEF IInv, TypeOK, Time, PastOnly, EntryYoung, ResultYoung, AnswerFresh
  <1> QED
    BY <1>4, <1>5 DEF IInv

\* As time passes an entry is dropped when it expires, and no result is held
\* longer than MaxLatency.
LEMMA TickStep ==
    ASSUME IInv, Tick
    PROVE  IInv'
  <1> USE CacheAssumption
  <1>1. /\ clock \in Nat /\ clock' = clock + 1 /\ clock' \in Time
        /\ UNCHANGED <<process, phase, alive, asOf, age>>
        /\ cached' \in {cached, Nothing}
        /\ cached' # Nothing => cached' = cached /\ clock' < cached.expires
    BY DEF Tick, Expired, IInv, TypeOK, Time, Entry
  <1>2. \A r \in Requests : phase[r] = "setex" => clock - asOf[r] < MaxLatency
    BY DEF Tick
  <1>3. \A r \in Requests : asOf[r] \in Nat
    BY DEF IInv, TypeOK, Time
  <1>4. TypeOK'
    BY <1>1 DEF IInv, TypeOK, ProcessTypeOK, process
  <1>5. PastOnly' /\ ResultYoung'
    BY <1>1, <1>2, <1>3 DEF IInv, PastOnly, ResultYoung
  <1>6. EntryYoung'
    <2>1. CASE cached' = Nothing
      BY <2>1 DEF EntryYoung
    <2>2. CASE cached' # Nothing
      BY <1>1, <2>2 DEF IInv, TypeOK, Entry, Time, EntryYoung
    <2> QED
      BY <2>1, <2>2
  <1>7. AnswerFresh'
    BY <1>1 DEF IInv, AnswerFresh
  <1> QED
    BY <1>4, <1>5, <1>6, <1>7 DEF IInv

\* Every step of a search, of its surroundings and of the clock preserves the
\* invariant.
LEMMA NextInv == IInv /\ Next => IInv'
  <1> SUFFICES ASSUME IInv, Next
               PROVE  IInv'
    OBVIOUS
  <1>1. ASSUME NEW r \in Requests, Step(r)
        PROVE  IInv'
    BY <1>1, MoveStep, HitStep, SelectStep, StoreStep DEF Step
  <1> QED
    BY <1>1, SurroundingsStep, StopStep, TickStep DEF Next

\* Ages stay bounded, whatever the number of searches that race.
THEOREM Invariance == Spec => []IInv
  <1>1. IInv /\ UNCHANGED vars => IInv'
    BY DEF vars, process, IInv, TypeOK, ProcessTypeOK, PastOnly, EntryYoung,
           ResultYoung, AnswerFresh
  <1> QED
    BY <1>1, InitInv, NextInv, PTL DEF Spec

\* No search returns what is Ttl + MaxLatency old, although the result of a
\* slow request may replace that of a fast one (cache.py:83).
THEOREM Fresh == Spec => []AnswerFresh
  <1>1. IInv => AnswerFresh
    BY DEF IInv
  <1> QED
    BY <1>1, Invariance, PTL
==============================================================================

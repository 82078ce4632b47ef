--------------------------- MODULE DeliveryProofs ---------------------------
(***************************************************************************)
(* Proofs about how often a request is applied, and that a committed row   *)
(* is not forgotten before it is enriched, for every number of workers,    *)
(* requests, retries and faults.                                           *)
(***************************************************************************)
EXTENDS PipelineProofs, FiniteSetTheorems

------------------------------------------------------------------------------
(* The copies of a request's messages                                       *)

\* An attempt of request r is a message.
LEMMA RequestMessages ==
    ASSUME NEW r \in Requests, NEW m \in OfRequest(r)
    PROVE  m \in Message /\ m \in IngestMessage /\ m.target = r
  BY DEF OfRequest, Message

\* A message is of one request, and an enrichment of none.
LEMMA OneRequest ==
    ASSUME NEW m \in IngestMessage
    PROVE  /\ m.target \in Requests
           /\ \A r \in Requests : m \in OfRequest(r) <=> r = m.target
  BY DEF OfRequest, IngestMessage

LEMMA EnrichmentsApart ==
    ASSUME NEW m \in EnrichMessage
    PROVE  m \notin IngestMessage /\ \A r : m \notin OfRequest(r)
  BY DEF OfRequest, IngestMessage, EnrichMessage

\* The copies are what the counters of the broker say, and nothing else.
LEMMA CopiesAre ==
    ASSUME NEW r, NEW c
    PROVE  c \in Copies(r)
             <=> \E m \in OfRequest(r) : \E k \in 1..broker[m] : c = <<m, k>>
  <1>1. ASSUME NEW m \in OfRequest(r)
        PROVE  c \in {m} \X (1..broker[m])
                 <=> \E k \in 1..broker[m] : c = <<m, k>>
    OBVIOUS
  <1> QED
    BY <1>1 DEF Copies

\* Counters that stay leave the copies.
LEMMA CopiesSame ==
    ASSUME NEW r, \A m \in OfRequest(r) : broker'[m] = broker[m]
    PROVE  Copies(r)' = Copies(r)
  BY DEF Copies, OfRequest

\* A copy more is one element more.
LEMMA CopiesSent ==
    ASSUME TypeOK, NEW r \in Requests, NEW m \in OfRequest(r),
           broker' = Sent(m), IsFiniteSet(Copies(r))
    PROVE  /\ IsFiniteSet(Copies(r)')
           /\ Cardinality(Copies(r)') = Cardinality(Copies(r)) + 1
  <1> DEFINE new == <<m, broker[m] + 1>>
  <1>1. m \in Message /\ broker \in [Message -> Nat] /\ broker[m] \in Nat
    BY RequestMessages DEF TypeOK
  <1>2. /\ broker'[m] = broker[m] + 1
        /\ \A n \in OfRequest(r) : n # m => broker'[n] = broker[n]
    BY <1>1, RequestMessages DEF Sent
  <1>3. 1..(broker[m] + 1) = (1..broker[m]) \cup {broker[m] + 1}
    BY <1>1
  <1>4. Copies(r)' = Copies(r) \cup {new}
    <2>1. \A c : c \in Copies(r)'
                   <=> \E n \in OfRequest(r) : c \in {n} \X (1..broker'[n])
      BY DEF Copies, OfRequest
    <2>2. \A c : c \in Copies(r)
                   <=> \E n \in OfRequest(r) : c \in {n} \X (1..broker[n])
      BY DEF Copies
    <2>3. \A c : c \in {m} \X (1..broker'[m])
                   <=> c \in {m} \X (1..broker[m]) \/ c = new
      BY <1>2, <1>3
    <2> HIDE DEF new
    <2>4. \A c : c \in Copies(r)' <=> c \in Copies(r) \/ c = new
      BY <1>2, <2>1, <2>2, <2>3
    <2> QED
      BY <2>4
  <1>5. new \notin Copies(r)
    <2>1. SUFFICES ASSUME new \in Copies(r) PROVE FALSE
      OBVIOUS
    <2>2. PICK n \in OfRequest(r) : \E k \in 1..broker[n] : new = <<n, k>>
      BY <2>1, CopiesAre
    <2>3. PICK k \in 1..broker[n] : new = <<n, k>>
      BY <2>2
    <2>4. n = m /\ k = broker[m] + 1
      BY <2>3
    <2> QED
      BY <1>1, <2>3, <2>4
  <1> QED
    BY <1>4, <1>5, FS_AddElement

\* A copy less is one element less.
LEMMA CopiesTaken ==
    ASSUME TypeOK, NEW r \in Requests, NEW m \in OfRequest(r), broker[m] > 0,
           broker' = [broker EXCEPT ![m] = @ - 1], IsFiniteSet(Copies(r))
    PROVE  /\ IsFiniteSet(Copies(r)')
           /\ Cardinality(Copies(r)') = Cardinality(Copies(r)) - 1
  <1> DEFINE old == <<m, broker[m]>>
  <1>1. m \in Message /\ broker \in [Message -> Nat] /\ broker[m] \in Nat
    BY RequestMessages DEF TypeOK
  <1>2. /\ broker'[m] = broker[m] - 1
        /\ \A n \in OfRequest(r) : n # m => broker'[n] = broker[n]
    BY <1>1, RequestMessages
  <1>3. 1..(broker[m] - 1) = (1..broker[m]) \ {broker[m]}
    BY <1>1
  <1>4. Copies(r)' = Copies(r) \ {old}
    <2>1. \A c : c \in Copies(r)'
                   <=> \E n \in OfRequest(r) : c \in {n} \X (1..broker'[n])
      BY DEF Copies, OfRequest
    <2>2. \A c : c \in Copies(r)
                   <=> \E n \in OfRequest(r) : c \in {n} \X (1..broker[n])
      BY DEF Copies
    <2>3. \A c : c \in {m} \X (1..broker'[m])
                   <=> c \in {m} \X (1..broker[m]) /\ c # old
      BY <1>2, <1>3
    <2>4. \A n \in OfRequest(r) :
             n # m => old \notin {n} \X (1..broker[n])
      OBVIOUS
    <2> HIDE DEF old
    <2>5. \A c : c \in Copies(r)' <=> c \in Copies(r) /\ c # old
      BY <1>2, <2>1, <2>2, <2>3, <2>4
    <2> QED
      BY <2>5
  <1>5. old \in Copies(r)
    BY <1>1, CopiesAre
  <1> QED
    BY <1>4, <1>5, FS_RemoveElement

\* A message of something else leaves the copies.
LEMMA OtherSent ==
    ASSUME TypeOK, NEW r \in Requests, NEW m \in Message, m \notin OfRequest(r),
           broker' = Sent(m)
    PROVE  Copies(r)' = Copies(r)
  <1>1. \A n \in OfRequest(r) : broker'[n] = broker[n]
    BY RequestMessages DEF TypeOK, Sent
  <1> QED
    BY <1>1, CopiesSame

------------------------------------------------------------------------------
(* The workers that hold a request                                          *)

OthersStay(w) ==
    \A v \in Workers \ {w} : phase'[v] = phase[v] /\ message'[v] = message[v]

\* A worker that is not about to commit holds nothing, ...
LEMMA HoldersLeave ==
    ASSUME NEW r, NEW w \in Workers, OthersStay(w),
           phase'[w] \notin {"fetch", "upsert"}
    PROVE  Holders(r)' = Holders(r) \ {w}
  BY DEF Holders, OthersStay, OfRequest

\* ... one that has received the request holds it, ...
LEMMA HoldersJoin ==
    ASSUME NEW r, NEW w \in Workers, OthersStay(w),
           phase'[w] = "fetch", message'[w] \in OfRequest(r)
    PROVE  Holders(r)' = Holders(r) \cup {w}
  BY DEF Holders, OthersStay, OfRequest

\* ... and of any other request nothing changes.
LEMMA HoldersSame ==
    ASSUME NEW r, NEW w \in Workers, OthersStay(w),
           w \in Holders(r) <=> w \in Holders(r)'
    PROVE  Holders(r)' = Holders(r)
  BY DEF Holders, OthersStay, OfRequest

------------------------------------------------------------------------------
(* The balance of one request                                               *)

\* Counts are natural numbers.
LEMMA Counts ==
    ASSUME TypeOK, NEW r \in Requests, Counted(r)
    PROVE  /\ Cardinality(Copies(r)) \in Nat
           /\ Cardinality(Holders(r)) \in Nat
           /\ applied[r] \in Nat /\ crashes[r] \in Nat
  BY FS_CardinalityType DEF TypeOK, Counted

\* A request whose copies, holders and commits stay remains in balance.
LEMMA Still ==
    ASSUME TypeOK, TypeOK', NEW r \in Requests, Counted(r),
           Copies(r)' = Copies(r), Holders(r)' = Holders(r),
           applied'[r] = applied[r], crashes[r] <= crashes'[r],
           posted \subseteq posted'
    PROVE  Counted(r)'
  <1>1. crashes'[r] \in Nat
    BY DEF TypeOK
  <1> QED
    BY <1>1, Counts DEF Counted

\* A worker that gives the request up may leave one copy or one commit.
LEMMA Leaves ==
    ASSUME TypeOK, TypeOK', NEW r \in Requests, Counted(r),
           NEW w \in Holders(r), OthersStay(w),
           phase'[w] \notin {"fetch", "upsert"},
           posted' = posted, crashes[r] <= crashes'[r],
           \/ Copies(r)' = Copies(r) /\ applied'[r] \in {applied[r], applied[r] + 1}
           \/ /\ \E m \in OfRequest(r) : broker' = Sent(m)
              /\ applied'[r] = applied[r]
    PROVE  Counted(r)'
  <1>1. w \in Workers
    BY DEF Holders
  <1>2. Holders(r)' = Holders(r) \ {w}
    BY <1>1, HoldersLeave
  <1>3. /\ IsFiniteSet(Holders(r)')
        /\ Cardinality(Holders(r)') = Cardinality(Holders(r)) - 1
    BY <1>2, FS_RemoveElement DEF Counted
  <1>4. crashes'[r] \in Nat
    BY DEF TypeOK
  <1>5. CASE Copies(r)' = Copies(r) /\ applied'[r] \in {applied[r], applied[r] + 1}
    BY <1>3, <1>4, <1>5, Counts DEF Counted
  <1>6. CASE /\ \E m \in OfRequest(r) : broker' = Sent(m)
             /\ applied'[r] = applied[r]
    <2>1. /\ IsFiniteSet(Copies(r)')
          /\ Cardinality(Copies(r)') = Cardinality(Copies(r)) + 1
      BY <1>6, CopiesSent DEF Counted
    <2> QED
      BY <1>3, <1>4, <1>6, <2>1, Counts DEF Counted
  <1> QED
    BY <1>5, <1>6

------------------------------------------------------------------------------
(* Every step                                                               *)

\* Accepting a request makes its one attempt.
LEMMA TriggerCounts ==
    ASSUME IInv, TypeOK', DeliveryInv, NEW q \in Requests, TriggerIngestion(q)
    PROVE  DeliveryInv'
  <1> SUFFICES ASSUME NEW r \in Requests
               PROVE  Counted(r)'
    BY DEF DeliveryInv
  <1> DEFINE m == Ingest(q, 0)
  <1>1. /\ TypeOK /\ Counted(r)
        /\ m \in IngestMessage /\ m \in Message /\ m.target = q
        /\ broker' = Sent(m) /\ q \notin posted /\ posted' = posted \cup {q}
        /\ UNCHANGED <<phase, message, applied, crashes>>
    BY PlatformAssumption
    DEF IInv, DeliveryInv, TriggerIngestion, local, history, Ingest, Message,
        IngestMessage
  <1>2. Holders(r)' = Holders(r)
    BY <1>1 DEF Holders, OfRequest
  <1>3. CASE r = q
    <2>1. m \in OfRequest(r)
      BY <1>1, <1>3 DEF OfRequest
    <2>2. /\ IsFiniteSet(Copies(r)')
          /\ Cardinality(Copies(r)') = Cardinality(Copies(r)) + 1
      BY <1>1, <2>1, CopiesSent DEF Counted
    <2>3. r \notin posted /\ r \in posted'
      BY <1>1, <1>3
    <2> QED
      BY <1>1, <1>2, <2>2, <2>3, Counts DEF Counted
  <1>4. CASE r # q
    <2>1. m \notin OfRequest(r)
      BY <1>1, <1>4 DEF OfRequest
    <2>2. Copies(r)' = Copies(r)
      BY <1>1, <2>1, OtherSent
    <2>3. crashes[r] <= crashes'[r]
      BY <1>1 DEF TypeOK
    <2> QED
      BY <1>1, <1>2, <2>2, <2>3, Still
  <1> QED
    BY <1>3, <1>4

\* An ingestion that is received is held instead of waiting; an enrichment is
\* about no request.
LEMMA StartCounts ==
    ASSUME IInv, TypeOK', DeliveryInv, NEW w \in Workers, NEW m \in Message,
           (m \in IngestMessage /\ StartIngestion(w, m))
             \/ (m \in EnrichMessage /\ StartEnrichment(w, m))
    PROVE  DeliveryInv'
  <1> SUFFICES ASSUME NEW r \in Requests
               PROVE  Counted(r)'
    BY DEF DeliveryInv
  <1>1. /\ TypeOK /\ Counted(r)
        /\ phase[w] = "idle" /\ broker[m] > 0
        /\ broker' = [broker EXCEPT ![m] = @ - 1]
        /\ message' = [message EXCEPT ![w] = m]
        /\ UNCHANGED <<posted, applied, crashes>>
    BY DEF IInv, DeliveryInv, StartIngestion, StartEnrichment, Receive, history
  <1>2. /\ m \in IngestMessage => phase' = [phase EXCEPT ![w] = "fetch"]
        /\ m \in EnrichMessage => \E p \in {"ack", "lookup"} :
                                     phase' = [phase EXCEPT ![w] = p]
    BY EnrichmentsApart DEF StartIngestion, StartEnrichment
  <1>3. OthersStay(w) /\ w \notin Holders(r) /\ message'[w] = m
    BY <1>1, <1>2 DEF OthersStay, Holders, TypeOK, Message
  <1>4. CASE m \in OfRequest(r)
    <2>1. /\ IsFiniteSet(Copies(r)')
          /\ Cardinality(Copies(r)') = Cardinality(Copies(r)) - 1
      BY <1>1, <1>4, CopiesTaken DEF Counted
    <2>2. phase'[w] = "fetch"
      BY <1>1, <1>2, <1>4, RequestMessages DEF TypeOK
    <2>3. Holders(r)' = Holders(r) \cup {w}
      BY <1>3, <1>4, <2>2, HoldersJoin
    <2>4. /\ IsFiniteSet(Holders(r)')
          /\ Cardinality(Holders(r)') = Cardinality(Holders(r)) + 1
      BY <1>1, <1>3, <2>3, FS_AddElement DEF Counted
    <2> QED
      BY <1>1, <2>1, <2>4, Counts DEF Counted
  <1>5. CASE m \notin OfRequest(r)
    <2>1. \A n \in OfRequest(r) : broker'[n] = broker[n]
      BY <1>1, <1>5, RequestMessages DEF TypeOK
    <2>2. Copies(r)' = Copies(r)
      BY <2>1, CopiesSame
    <2>3. w \notin Holders(r)'
      BY <1>3, <1>5 DEF Holders, OfRequest
    <2>4. Holders(r)' = Holders(r)
      BY <1>3, <2>3, HoldersSame
    <2>5. crashes[r] <= crashes'[r]
      BY <1>1 DEF TypeOK
    <2> QED
      BY <1>1, <2>2, <2>4, <2>5, Still
  <1> QED
    BY <1>4, <1>5

\* A task that ends gives its request up, and a retry is an attempt at the
\* same request.
LEMMA OverCounts ==
    ASSUME IInv, TypeOK', DeliveryInv, NEW w \in Workers, Over(w),
           UNCHANGED <<posted, applied, crashes>>,
           \/ broker' = broker
           \/ phase[w] \in {"fetch", "lookup"} /\ RetryTask(w)
    PROVE  DeliveryInv'
  <1> SUFFICES ASSUME NEW r \in Requests
               PROVE  Counted(r)'
    BY DEF DeliveryInv
  <1>1. /\ TypeOK /\ PhaseOK /\ Counted(r)
        /\ phase' = [phase EXCEPT ![w] = "ack"] /\ message' = message
    BY DEF IInv, DeliveryInv, Over
  <1>2. phase'[w] = "ack" /\ OthersStay(w)
    BY <1>1 DEF OthersStay, TypeOK
  <1>3. crashes[r] <= crashes'[r] /\ applied'[r] = applied[r]
    BY <1>1 DEF TypeOK
  <1>4. ASSUME broker' # broker
        PROVE  /\ broker' = Sent(NextAttempt(message[w]))
               /\ NextAttempt(message[w]) \in Message
               /\ NextAttempt(message[w]) \in OfRequest(r) <=> w \in Holders(r)
    <2> DEFINE n == NextAttempt(message[w])
    <2>1. /\ phase[w] \in {"fetch", "lookup"}
          /\ MayRetry(message[w]) /\ broker' = Sent(n)
      BY <1>4 DEF RetryTask
    <2>2. message[w] \in Message
      BY <1>1, <2>1 DEF PhaseOK, Message
    <2>3. /\ n \in Message /\ n.task = message[w].task
          /\ n.target = message[w].target
      BY <2>1, <2>2, NextAttemptType
    <2>4. CASE phase[w] = "fetch"
      <3>1. message[w] \in IngestMessage
        BY <1>1, <2>4 DEF PhaseOK
      <3>2. n \in IngestMessage
        BY <2>3, <3>1 DEF Message, IngestMessage, EnrichMessage
      <3> QED
        BY <2>1, <2>3, <2>4, <3>1, <3>2, OneRequest DEF Holders
    <2>5. CASE phase[w] = "lookup"
      <3>1. message[w] \in EnrichMessage
        BY <1>1, <2>5 DEF PhaseOK
      <3>2. n \in EnrichMessage
        BY <2>3, <3>1 DEF Message, IngestMessage, EnrichMessage
      <3> QED
        BY <2>1, <2>3, <2>5, <3>2, EnrichmentsApart DEF Holders
    <2> QED
      BY <2>1, <2>4, <2>5
  <1>5. CASE w \in Holders(r)
    <2>1. \/ Copies(r)' = Copies(r)
          \/ \E m \in OfRequest(r) : broker' = Sent(m)
      BY <1>4, <1>5, CopiesSame
    <2> QED
      BY <1>1, <1>2, <1>3, <1>5, <2>1, Leaves
  <1>6. CASE w \notin Holders(r)
    <2>1. Copies(r)' = Copies(r)
      BY <1>1, <1>4, <1>6, CopiesSame, OtherSent
    <2>2. w \notin Holders(r)'
      BY <1>2 DEF Holders
    <2>3. Holders(r)' = Holders(r)
      BY <1>2, <1>6, <2>2, HoldersSame
    <2> QED
      BY <1>1, <1>3, <2>1, <2>3, Still
  <1> QED
    BY <1>5, <1>6

\* The commit turns the attempt into an application.
LEMMA CommitCounts ==
    ASSUME IInv, TypeOK', DeliveryInv, NEW w \in Workers,
           NEW rescored \in BOOLEAN, CommitUpsert(w, rescored)
    PROVE  DeliveryInv'
  <1> SUFFICES ASSUME NEW r \in Requests
               PROVE  Counted(r)'
    BY DEF DeliveryInv
  <1>1. /\ TypeOK /\ PhaseOK /\ Counted(r)
        /\ phase[w] = "upsert"
        /\ applied' = [applied EXCEPT ![message[w].target] = @ + 1]
        /\ UNCHANGED <<broker, posted, message, crashes>>
    BY DEF IInv, DeliveryInv, CommitUpsert
  <1>2. phase'[w] \in {"ack", "dispatch"} /\ OthersStay(w)
    BY <1>1 DEF CommitUpsert, OthersStay, TypeOK
  <1>3. message[w] \in IngestMessage
    BY <1>1 DEF PhaseOK
  <1>4. Copies(r)' = Copies(r) /\ crashes[r] <= crashes'[r]
    BY <1>1, CopiesSame DEF TypeOK
  <1>5. CASE w \in Holders(r)
    <2>1. applied'[r] = applied[r] + 1
      BY <1>1, <1>5 DEF Holders, OfRequest, TypeOK
    <2> QED
      BY <1>1, <1>2, <1>4, <1>5, <2>1, Leaves
  <1>6. CASE w \notin Holders(r)
    <2>1. message[w].target # r
      BY <1>1, <1>3, <1>6, OneRequest DEF Holders
    <2>2. applied'[r] = applied[r]
      BY <1>1, <2>1 DEF TypeOK
    <2>3. w \notin Holders(r)'
      BY <1>2 DEF Holders
    <2>4. Holders(r)' = Holders(r)
      BY <1>2, <1>6, <2>3, HoldersSame
    <2> QED
      BY <1>1, <1>4, <2>2, <2>4, Still
  <1> QED
    BY <1>5, <1>6

\* Steps between the fetch and the commit, or after it, that neither begin nor
\* end an attempt.
LEMMA InsideCounts ==
    ASSUME IInv, TypeOK', DeliveryInv, NEW w \in Workers,
           UNCHANGED <<posted, message, applied, crashes>>,
           OthersStay(w),
           phase[w] \in {"fetch", "upsert"} <=> phase'[w] \in {"fetch", "upsert"},
           \/ broker' = broker
           \/ \E m \in EnrichMessage : broker' = Sent(m)
    PROVE  DeliveryInv'
  <1> SUFFICES ASSUME NEW r \in Requests
               PROVE  Counted(r)'
    BY DEF DeliveryInv
  <1>1. TypeOK /\ Counted(r)
    BY DEF IInv, DeliveryInv
  <1>2. Copies(r)' = Copies(r)
    BY <1>1, CopiesSame, OtherSent, EnrichmentsApart DEF Message
  <1>3. w \in Holders(r) <=> w \in Holders(r)'
    BY DEF Holders, OfRequest
  <1>4. Holders(r)' = Holders(r)
    BY <1>3, HoldersSame
  <1>5. crashes[r] <= crashes'[r] /\ applied'[r] = applied[r]
    BY <1>1 DEF TypeOK
  <1> QED
    BY <1>1, <1>2, <1>4, <1>5, Still

\* A death sends one copy more of what the worker held, and is counted.
LEMMA CrashCounts ==
    ASSUME IInv, TypeOK', DeliveryInv, NEW w \in Workers, Crash(w)
    PROVE  DeliveryInv'
  <1> SUFFICES ASSUME NEW r \in Requests
               PROVE  Counted(r)'
    BY DEF DeliveryInv
  <1>1. /\ TypeOK /\ PhaseOK /\ Counted(r)
        /\ phase[w] # "idle" /\ broker' = Sent(message[w])
        /\ phase' = [phase EXCEPT ![w] = "idle"]
        /\ message' = [message EXCEPT ![w] = NoMessage]
        /\ crashes' = IF message[w] \in IngestMessage
                      THEN [crashes EXCEPT ![message[w].target] = @ + 1]
                      ELSE crashes
        /\ UNCHANGED <<posted, applied>>
    BY DEF IInv, DeliveryInv, Crash
  <1>2. phase'[w] = "idle" /\ OthersStay(w)
    BY <1>1 DEF OthersStay, TypeOK
  <1>3. message[w] \in Message
    BY <1>1 DEF PhaseOK, TypeOK, Phases, Message
  <1>4. CASE message[w] \in OfRequest(r)
    <2>1. crashes'[r] = crashes[r] + 1 /\ crashes[r] \in Nat
      BY <1>1, <1>4 DEF OfRequest, TypeOK
    <2>2. CASE w \in Holders(r)
      <3>1. applied'[r] = applied[r] /\ crashes[r] <= crashes'[r]
        BY <1>1, <2>1
      <3> QED
        BY <1>1, <1>2, <1>4, <2>2, <3>1, Leaves
    <2>3. CASE w \notin Holders(r)
      <3>1. w \notin Holders(r)'
        BY <1>2 DEF Holders
      <3>2. Holders(r)' = Holders(r)
        BY <1>2, <2>3, <3>1, HoldersSame
      <3>3. /\ IsFiniteSet(Copies(r)')
            /\ Cardinality(Copies(r)') = Cardinality(Copies(r)) + 1
        BY <1>1, <1>4, CopiesSent DEF Counted
      <3> QED
        BY <1>1, <2>1, <3>2, <3>3, Counts DEF Counted
    <2> QED
      BY <2>2, <2>3
  <1>5. CASE message[w] \notin OfRequest(r)
    <2>1. w \notin Holders(r) /\ w \notin Holders(r)'
      BY <1>2, <1>5 DEF Holders
    <2>2. Holders(r)' = Holders(r)
      BY <1>2, <2>1, HoldersSame
    <2>3. Copies(r)' = Copies(r)
      BY <1>1, <1>3, <1>5, OtherSent
    <2>4. crashes[r] <= crashes'[r] /\ applied'[r] = applied[r]
      BY <1>1 DEF TypeOK
    <2> QED
      BY <1>1, <2>2, <2>3, <2>4, Still
  <1> QED
    BY <1>4, <1>5

\* Nothing is posted, waiting or applied at first.
LEMMA InitCounts == Init => DeliveryInv
  <1> SUFFICES ASSUME Init, NEW r \in Requests
               PROVE  Counted(r)
    BY DEF DeliveryInv
  <1>1. /\ \A m \in OfRequest(r) : broker[m] = 0
        /\ \A w \in Workers : phase[w] = "idle"
        /\ applied[r] = 0 /\ crashes[r] = 0 /\ posted = {}
    BY RequestMessages DEF Init
  <1>2. Copies(r) = {}
    <2>1. \A c : c \notin Copies(r)
      BY <1>1, CopiesAre
    <2> QED
      BY <2>1
  <1>3. Holders(r) = {}
    BY <1>1 DEF Holders
  <1> QED
    BY <1>1, <1>2, <1>3, FS_EmptySet DEF Counted

\* Every step keeps every request in balance.
LEMMA NextCounts == IInv /\ DeliveryInv /\ Next => DeliveryInv'
  <1> SUFFICES ASSUME IInv, DeliveryInv, Next
               PROVE  DeliveryInv'
    OBVIOUS
  <1> USE DEF history
  <1>0. TypeOK' /\ TypeOK /\ phase \in [Workers -> Phases]
    BY StepType DEF IInv, TypeOK
  <1>1. ASSUME NEW q \in Requests, TriggerIngestion(q)
        PROVE  DeliveryInv'
    BY <1>0, <1>1, TriggerCounts
  <1>2. ASSUME NEW w \in Workers, IngestStep(w)
        PROVE  DeliveryInv'
    <2>1. ASSUME NEW m \in IngestMessage, StartIngestion(w, m)
          PROVE  DeliveryInv'
      BY <1>0, <2>1, StartCounts DEF Message
    <2>2. CASE FetchFails(w) \/ MalformedFeed(w) \/ EmptyFeed(w)
               \/ FetchLost(w) \/ UpsertFails(w) \/ DispatchFails(w)
      BY <1>0, <2>2, OverCounts
      DEF FetchFails, RetryTask, FetchLost, RetryRefused, MalformedFeed, EmptyFeed, UpsertFails,
          DispatchFails
    <2>3. ASSUME NEW items \in FeedBodies, BeginUpsert(w, items)
          PROVE  DeliveryInv'
      <3>1. /\ phase[w] = "fetch" /\ phase'[w] = "upsert"
            /\ OthersStay(w)
            /\ UNCHANGED <<broker, posted, message, applied, crashes>>
        BY <1>0, <2>3 DEF BeginUpsert, OthersStay
      <3> QED
        BY <1>0, <3>1, InsideCounts
    <2>4. ASSUME SkipUnknown(w)
                   \/ \E id \in RowIds : UpsertExisting(w, id) \/ UpsertNew(w, id)
          PROVE  DeliveryInv'
      <3>1. UNCHANGED <<broker, posted, phase, message, applied, crashes>>
        BY <2>4 DEF SkipUnknown, UpsertExisting, UpsertNew
      <3>2. OthersStay(w)
        BY <3>1 DEF OthersStay
      <3> QED
        BY <1>0, <3>1, <3>2, InsideCounts
    <2>5. ASSUME NEW rescored \in BOOLEAN, CommitUpsert(w, rescored)
          PROVE  DeliveryInv'
      BY <1>0, <2>5, CommitCounts
    <2>6. CASE Dispatch(w)
      <3>1. /\ phase[w] = "dispatch" /\ phase'[w] \in {"ack", "dispatch"}
            /\ OthersStay(w)
            /\ UNCHANGED <<posted, message, applied, crashes>>
            /\ broker' = Sent(EnrichTask(Head(saved[w]), 0))
        BY <1>0, <2>6 DEF Dispatch, OthersStay
      <3>2. Head(saved[w]) \in RowIds
        <4>1. saved[w] \in Seq(RowIds) /\ saved[w] # <<>>
          BY <1>0, <3>1 DEF TypeOK, IInv, PhaseOK
        <4> QED
          BY <4>1
      <3>3. EnrichTask(Head(saved[w]), 0) \in EnrichMessage
        BY <3>2, PlatformAssumption DEF EnrichTask, EnrichMessage
      <3> QED
        BY <1>0, <3>1, <3>3, InsideCounts
    <2> QED
      BY <1>2, <2>1, <2>2, <2>3, <2>4, <2>5, <2>6 DEF IngestStep
  <1>3. ASSUME NEW w \in Workers, EnrichStep(w)
        PROVE  DeliveryInv'
    <2>1. ASSUME NEW m \in EnrichMessage, StartEnrichment(w, m)
          PROVE  DeliveryInv'
      BY <1>0, <2>1, StartCounts DEF Message
    <2>2. ASSUME NEW vt \in VtResults, NEW sh \in Results,
                 NEW rescored \in BOOLEAN,
                 CommitEnrichment(w, vt, sh, rescored)
          PROVE  DeliveryInv'
      BY <1>0, <2>2, OverCounts DEF CommitEnrichment
    <2>3. CASE LookupRaises(w) \/ LookupLost(w) \/ EnrichmentFails(w)
      BY <1>0, <2>3, OverCounts
      DEF LookupRaises, RetryTask, LookupLost, RetryRefused, EnrichmentFails
    <2> QED
      BY <1>3, <2>1, <2>2, <2>3 DEF EnrichStep
  <1>4. ASSUME NEW w \in Workers, Ack(w)
        PROVE  DeliveryInv'
    <2> SUFFICES ASSUME NEW r \in Requests
                 PROVE  Counted(r)'
      BY DEF DeliveryInv
    <2>1. /\ phase[w] = "ack" /\ phase'[w] = "idle" /\ OthersStay(w)
          /\ UNCHANGED <<broker, posted, applied, crashes>>
      BY <1>0, <1>4 DEF Ack, OthersStay, TypeOK
    <2>2. w \notin Holders(r) /\ w \notin Holders(r)'
      BY <2>1 DEF Holders
    <2>3. Holders(r)' = Holders(r) /\ Copies(r)' = Copies(r)
      BY <2>1, <2>2, HoldersSame, CopiesSame
    <2>4. crashes[r] <= crashes'[r] /\ Counted(r)
      BY <1>0, <2>1 DEF TypeOK, DeliveryInv
    <2> QED
      BY <1>0, <2>1, <2>3, <2>4, Still
  <1>5. ASSUME NEW w \in Workers, Crash(w)
        PROVE  DeliveryInv'
    BY <1>0, <1>5, CrashCounts
  <1> QED
    BY <1>1, <1>2, <1>3, <1>4, <1>5 DEF Next, WorkerStep

\* For every request the attempts under way and the commits stay within the
\* POST and the deaths of workers, with any number of workers and faults.
THEOREM Deliveries == Spec => []DeliveryInv
  <1>1. DeliveryInv /\ UNCHANGED vars => DeliveryInv'
    <2> SUFFICES ASSUME DeliveryInv, UNCHANGED vars, NEW r \in Requests
                 PROVE  Counted(r)'
      BY DEF DeliveryInv
    <2>1. UNCHANGED <<broker, posted, phase, message, applied, crashes>>
      BY DEF vars, local, history
    <2>2. Copies(r)' = Copies(r) /\ Holders(r)' = Holders(r) /\ Counted(r)
      BY <2>1, CopiesSame DEF Holders, DeliveryInv
    <2> QED
      BY <2>1, <2>2 DEF Counted
  <1>2. IInv /\ DeliveryInv /\ [Next]_vars => DeliveryInv'
    BY <1>1, NextCounts
  <1> QED
    BY <1>2, InitCounts, Invariance, PTL DEF Spec

\* A feed is counted into confidences once, and once more at most for each
\* worker that died holding its request (tasks.py:28-31, celery_app.py:25).
THEOREM AppliedOnce == Spec => []AppliedOncePerDelivery
  <1>1. IInv /\ DeliveryInv => AppliedOncePerDelivery
    <2> SUFFICES ASSUME IInv, DeliveryInv, NEW r \in Requests
                 PROVE  applied[r] <= 1 + crashes[r]
      BY DEF AppliedOncePerDelivery
    <2>1. TypeOK /\ Counted(r)
      BY DEF IInv, DeliveryInv
    <2> QED
      BY <2>1, Counts DEF Counted
  <1> QED
    BY <1>1, Invariance, Deliveries, PTL

------------------------------------------------------------------------------
(* What is promised to a row                                                *)

\* The list of saved indicators keeps its members as it grows, ...
LEMMA Appended ==
    ASSUME NEW s \in Seq(RowIds), NEW id \in RowIds
    PROVE  /\ \A k \in DOMAIN s : k \in DOMAIN Append(s, id)
                                  /\ Append(s, id)[k] = s[k]
           /\ Len(s) + 1 \in DOMAIN Append(s, id)
           /\ Append(s, id)[Len(s) + 1] = id
  OBVIOUS

\* ... and loses its head only.
LEMMA AfterHead ==
    ASSUME NEW s \in Seq(RowIds), NEW k \in DOMAIN s, s[k] # Head(s)
    PROVE  k - 1 \in DOMAIN Tail(s) /\ Tail(s)[k - 1] = s[k]
  <1>1. k \in 1..Len(s) /\ Head(s) = s[1] /\ s # <<>>
    OBVIOUS
  <1>2. k # 1
    BY <1>1
  <1>3. k - 1 \in 1..(Len(s) - 1) /\ DOMAIN Tail(s) = 1..(Len(s) - 1)
    BY <1>1, <1>2
  <1> QED
    BY <1>1, <1>3

\* Only an upsert and the dispatches after it have something saved.
LEMMA NothingSaved ==
    ASSUME IInv, NEW w \in Workers, phase[w] \notin {"upsert", "dispatch"}
    PROVE  \A id : ~InSaved(w, id)
  BY DEF IInv, SavedOK, InSaved

\* A worker that is not in a lookup or an upsert has nothing loaded.
LEMMA NothingLoaded ==
    ASSUME IInv, NEW w \in Workers, phase[w] \notin {"upsert", "lookup"}
    PROVE  session[w] = EmptySession
  BY DEF IInv, PhaseOK

\* Steps that change no row, send and take no enrichment message, begin and
\* end no lookup and forget nothing that was saved.
LEMMA QuietOwed ==
    ASSUME IInv, TypeOK', OwedInv, UNCHANGED rows, faults <= faults',
           \A m \in EnrichMessage : broker'[m] = broker[m],
           \A v \in Workers :
              /\ \A id \in RowIds : InSaved(v, id) => InSaved(v, id)'
              /\ session'[v] \in {session[v], EmptySession}
              /\ phase'[v] = "lookup" <=> phase[v] = "lookup"
              /\ phase[v] = "lookup" => message'[v] = message[v]
              /\ phase'[v] = "upsert"
                   => phase[v] = "upsert" \/ session'[v] = EmptySession
    PROVE  OwedInv'
  <1>1. ASSUME NEW id \in RowIds, Promised(id)
        PROVE  Promised(id)'
    BY <1>1 DEF Promised
  <1>2. ASSUME NEW id \in Committed', rows'[id].enrichment = NotEnriched
        PROVE  Promised(id)'
    BY <1>1, <1>2 DEF OwedInv, Committed
  <1>3. RetriesFaulted'
    <2>1. faults \in Nat /\ faults' \in Nat
      BY DEF IInv, TypeOK
    <2>2. ASSUME NEW m \in EnrichMessage, m.retries <= faults
          PROVE  m.retries <= faults'
      BY <2>1, <2>2 DEF EnrichMessage
    <2>3. \A v \in Workers : phase[v] = "lookup" => message[v] \in EnrichMessage
      BY DEF IInv, PhaseOK
    <2> QED
      BY <2>2, <2>3 DEF OwedInv, RetriesFaulted
  <1>4. ASSUME NEW v \in Workers, NEW id \in RowIds,
               phase'[v] = "upsert", session'[v][id] # NotLoaded
        PROVE  InSaved(v, id)'
    BY <1>4 DEF OwedInv, EmptySession
  <1> QED
    BY <1>2, <1>3, <1>4 DEF OwedInv

\* A task that is over, with nothing enriched or sent, after a fetch.
LEMMA FetchOwed ==
    ASSUME IInv, TypeOK', OwedInv, NEW w \in Workers, phase[w] = "fetch",
           Over(w), UNCHANGED rows, faults <= faults',
           \A m \in EnrichMessage : broker'[m] = broker[m]
    PROVE  OwedInv'
  <1>1. /\ phase'[w] = "ack" /\ session'[w] = EmptySession
        /\ \A v \in Workers \ {w} : /\ phase'[v] = phase[v]
                                    /\ session'[v] = session[v]
                                    /\ saved'[v] = saved[v]
                                    /\ message'[v] = message[v]
    BY DEF Over, IInv, TypeOK
  <1>2. ASSUME NEW v \in Workers, NEW id \in RowIds, InSaved(v, id)
        PROVE  InSaved(v, id)'
    <2>1. v # w
      BY <1>2, NothingSaved
    <2> QED
      BY <1>1, <1>2, <2>1 DEF InSaved
  <1> QED
    BY <1>1, <1>2, QuietOwed

\* An enrichment that is received is a lookup instead of a message, about a
\* row that is there (manager.py:60-63).
LEMMA StartOwed ==
    ASSUME IInv, TypeOK', OwedInv, NEW w \in Workers, NEW m \in EnrichMessage,
           StartEnrichment(w, m)
    PROVE  OwedInv'
  <1> DEFINE id == m.target
  <1>1. /\ TypeOK /\ m \in Message /\ id \in RowIds
        /\ phase[w] = "idle" /\ broker[m] > 0
    BY DEF IInv, StartEnrichment, Receive, Message, EnrichMessage
  <1>2. rows[id] # NoRow
    BY <1>1, TargetsByMessage DEF IInv
  <1>3. /\ UNCHANGED <<rows, saved, faults>>
        /\ phase'[w] = "lookup" /\ message'[w] = m
        /\ broker'[m] = broker[m] - 1 /\ broker[m] \in Nat
        /\ \A n \in EnrichMessage : n # m => broker'[n] = broker[n]
        /\ session'[w][id] = [base |-> rows[id], object |-> rows[id], hits |-> 0]
        /\ \A j \in RowIds : j # id => session'[w][j] = session[w][j]
        /\ \A v \in Workers : v # w => /\ phase'[v] = phase[v]
                                       /\ session'[v] = session[v]
                                       /\ message'[v] = message[v]
    BY <1>1, <1>2 DEF StartEnrichment, Receive, TypeOK, Message, history
  <1>4. \A j \in RowIds : session[w][j] = NotLoaded
    BY <1>1, NothingLoaded DEF EmptySession
  <1>5. ASSUME NEW j \in Committed', rows'[j].enrichment = NotEnriched
        PROVE  Promised(j)'
    <2>1. j \in RowIds /\ Promised(j)
      BY <1>3, <1>5 DEF OwedInv, Committed
    <2>2. CASE j = id
      BY <1>3, <2>2 DEF Promised
    <2>3. CASE j # id
      <3>1. ASSUME NEW n \in EnrichMessage, n.target = j, broker[n] > 0
            PROVE  Promised(j)'
        BY <1>3, <2>3, <3>1 DEF Promised
      <3>2. ASSUME NEW v \in Workers, phase[v] = "lookup", message[v].target = j
            PROVE  Promised(j)'
        BY <1>1, <1>3, <3>2 DEF Promised
      <3>3. ASSUME NEW v \in Workers, InSaved(v, j)
            PROVE  Promised(j)'
        BY <1>3, <3>3 DEF Promised, InSaved
      <3> QED
        BY <2>1, <3>1, <3>2, <3>3 DEF Promised
    <2> QED
      BY <2>2, <2>3
  <1>6. RetriesFaulted'
    <2>1. \A n \in EnrichMessage : broker'[n] > 0 => broker[n] > 0
      BY <1>1, <1>3
    <2> QED
      BY <1>1, <1>3, <2>1 DEF OwedInv, RetriesFaulted
  <1>7. ASSUME NEW v \in Workers, NEW j \in RowIds,
               phase'[v] = "upsert", session'[v][j] # NotLoaded
        PROVE  InSaved(v, j)'
    BY <1>3, <1>7 DEF OwedInv, InSaved
  <1> QED
    BY <1>5, <1>6, <1>7 DEF OwedInv

\* An item that is upserted is saved (parser.py:126-197).
LEMMA UpsertOwed ==
    ASSUME IInv, TypeOK', OwedInv, NEW w \in Workers, NEW id \in RowIds,
           UpsertExisting(w, id) \/ UpsertNew(w, id)
    PROVE  OwedInv'
  <1>1. /\ TypeOK /\ phase[w] = "upsert"
        /\ UNCHANGED <<rows, broker, phase, message, faults>>
        /\ saved' = [saved EXCEPT ![w] = Append(@, id)]
    BY DEF IInv, UpsertExisting, UpsertNew, Upserting
  <1>2. /\ session'[w][id].base # NoRow
             => session'[w][id].base = Loaded(w, id).base
        /\ \A j \in RowIds : j # id => session'[w][j] = session[w][j]
        /\ \A v \in Workers : v # w => session'[v] = session[v]
    BY <1>1 DEF UpsertExisting, UpsertNew, TypeOK
  <1>3. /\ saved[w] \in Seq(RowIds) /\ saved'[w] = Append(saved[w], id)
        /\ \A v \in Workers : v # w => saved'[v] = saved[v]
    BY <1>1 DEF TypeOK
  <1>4. InSaved(w, id)'
    BY <1>3, Appended DEF InSaved
  <1>5. ASSUME NEW v \in Workers, NEW j, InSaved(v, j)
        PROVE  InSaved(v, j)'
    BY <1>3, <1>5, Appended DEF InSaved
  <1>6. ASSUME NEW j \in Committed', rows'[j].enrichment = NotEnriched
        PROVE  Promised(j)'
    <2>1. Promised(j)
      BY <1>1, <1>6 DEF OwedInv, Committed
    <2> QED
      BY <1>1, <1>5, <2>1 DEF Promised
  <1>7. RetriesFaulted'
    BY <1>1 DEF OwedInv, RetriesFaulted
  <1>8. ASSUME NEW v \in Workers, NEW j \in RowIds,
               phase'[v] = "upsert", session'[v][j] # NotLoaded
        PROVE  InSaved(v, j)'
    <2>1. CASE v = w /\ j = id
      BY <1>4, <2>1
    <2>2. CASE v # w \/ j # id
      <3>1. session[v][j] # NotLoaded /\ phase[v] = "upsert"
        BY <1>1, <1>2, <1>8, <2>2
      <3> QED
        BY <1>5, <3>1 DEF OwedInv
    <2> QED
      BY <2>1, <2>2
  <1> QED
    BY <1>6, <1>7, <1>8 DEF OwedInv

\* The commit makes rows of what is saved, and changes the enrichment of no
\* other (parser.py:200).
LEMMA CommitUpsertOwed ==
    ASSUME IInv, TypeOK', OwedInv, NEW w \in Workers, NEW rescored \in BOOLEAN,
           CommitUpsert(w, rescored)
    PROVE  OwedInv'
  <1>1. /\ TypeOK /\ phase[w] = "upsert"
        /\ UNCHANGED <<broker, message, saved, faults>>
        /\ \A id \in RowIds :
              rows'[id] = Flushed(rows[id], session[w][id], rescored)
    BY DEF IInv, CommitUpsert
  <1>2. /\ phase'[w] \in {"ack", "dispatch"}
        /\ session'[w] = EmptySession
        /\ \A v \in Workers : v # w => /\ session'[v] = session[v]
                                       /\ phase'[v] = phase[v]
    BY <1>1 DEF CommitUpsert, TypeOK
  <1>3. \A id \in RowIds : rows[id] # NoRow
                             => rows'[id].enrichment = rows[id].enrichment
    BY CommitUpsertStep
  <1>4. ASSUME NEW id, Promised(id)
        PROVE  Promised(id)'
    BY <1>1, <1>2, <1>4 DEF Promised, InSaved
  <1>5. ASSUME NEW id \in Committed', rows'[id].enrichment = NotEnriched
        PROVE  Promised(id)'
    <2>1. id \in RowIds /\ rows'[id] # NoRow
      BY <1>5 DEF Committed
    <2>2. CASE rows[id] # NoRow
      BY <1>3, <1>4, <1>5, <2>1, <2>2 DEF OwedInv, Committed
    <2>3. CASE rows[id] = NoRow
      <3>1. session[w][id] # NotLoaded
        BY <1>1, <2>1, <2>3 DEF Flushed
      <3>2. InSaved(w, id)
        BY <1>1, <2>1, <3>1 DEF OwedInv
      <3> QED
        BY <1>4, <3>2 DEF Promised
    <2> QED
      BY <2>2, <2>3
  <1>6. RetriesFaulted'
    BY <1>1, <1>2 DEF OwedInv, RetriesFaulted
  <1>7. ASSUME NEW v \in Workers, NEW id \in RowIds,
               phase'[v] = "upsert", session'[v][id] # NotLoaded
        PROVE  InSaved(v, id)'
    BY <1>1, <1>2, <1>7 DEF OwedInv, InSaved
  <1> QED
    BY <1>5, <1>6, <1>7 DEF OwedInv

\* The commit of an enrichment enriches its row and touches no other.
LEMMA CommitEnrichmentOwed ==
    ASSUME IInv, TypeOK', TableInv, OwedInv, NEW w \in Workers,
           NEW vt \in VtResults, NEW sh \in Results, NEW rescored \in BOOLEAN,
           CommitEnrichment(w, vt, sh, rescored)
    PROVE  OwedInv'
  <1> DEFINE id == message[w].target
             entry == session[w][id]
             row == Updated(rows[id], entry.base, Enriched(entry.object, vt, sh),
                            rescored)
  <1>1. /\ TypeOK /\ phase[w] = "lookup" /\ rows' = [rows EXCEPT ![id] = row]
        /\ Over(w) /\ UNCHANGED <<broker, faults>>
    BY DEF IInv, CommitEnrichment
  <1>2. id \in RowIds /\ entry # NotLoaded /\ entry.base # NoRow
    BY <1>1 DEF IInv, PhaseOK, LookupLoaded, EnrichMessage
  <1>3. rows[id] \in Row /\ entry.base \in Row /\ entry.object \in Row
    BY <1>1, <1>2, EntryType DEF IInv, SessionsDisjoint, TypeOK, Entry
  <1>4. row.enrichment # NotEnriched
    <2>1. entry.base.enrichment # NotEnriched => rows[id].enrichment # NotEnriched
      BY <1>1, <1>2 DEF TableInv, LoadedEnriched
    <2>2. vt \in Results
      BY DEF VtResults
    <2> HIDE DEF id, entry
    <2> QED
      BY <1>3, <2>1, <2>2, WrittenEnriched
  <1> HIDE DEF row, entry
  <1>5. /\ rows'[id] = row
        /\ \A j \in RowIds : j # id => rows'[j] = rows[j]
    BY <1>1, <1>2 DEF TypeOK
  <1>6. /\ phase'[w] = "ack" /\ session'[w] = EmptySession /\ message' = message
        /\ \A v \in Workers : v # w => /\ session'[v] = session[v]
                                       /\ phase'[v] = phase[v]
                                       /\ saved'[v] = saved[v]
    BY <1>1 DEF Over, TypeOK
  <1>7. ASSUME NEW v \in Workers, NEW j \in RowIds, InSaved(v, j)
        PROVE  InSaved(v, j)'
    <2>1. v # w
      BY <1>1, <1>7, NothingSaved
    <2> QED
      BY <1>6, <1>7, <2>1 DEF InSaved
  <1>8. ASSUME NEW j \in Committed', rows'[j].enrichment = NotEnriched
        PROVE  Promised(j)'
    <2>1. j \in RowIds /\ j # id
      BY <1>4, <1>5, <1>8 DEF Committed
    <2>2. Promised(j)
      BY <1>5, <1>8, <2>1 DEF OwedInv, Committed
    <2> QED
      BY <1>1, <1>6, <1>7, <2>1, <2>2 DEF Promised
  <1>9. RetriesFaulted'
    BY <1>1, <1>6 DEF OwedInv, RetriesFaulted
  <1>10. ASSUME NEW v \in Workers, NEW j \in RowIds,
                phase'[v] = "upsert", session'[v][j] # NotLoaded
         PROVE  InSaved(v, j)'
    BY <1>6, <1>7, <1>10 DEF OwedInv
  <1> QED
    BY <1>8, <1>9, <1>10 DEF OwedInv

\* What is dispatched waits in the broker, and the rest stays saved
\* (tasks.py:46-52).
LEMMA DispatchOwed ==
    ASSUME IInv, TypeOK', OwedInv, NEW w \in Workers, Dispatch(w)
    PROVE  OwedInv'
  <1> DEFINE id == Head(saved[w])
             m == EnrichTask(id, 0)
  <1>1. /\ TypeOK /\ phase[w] = "dispatch"
        /\ saved[w] \in Seq(RowIds) /\ saved[w] # <<>>
        /\ broker' = Sent(m) /\ UNCHANGED <<rows, message, session, faults>>
    BY DEF IInv, TypeOK, PhaseOK, Dispatch
  <1>2. /\ phase'[w] \in {"ack", "dispatch"} /\ saved'[w] = Tail(saved[w])
        /\ \A v \in Workers : v # w => /\ phase'[v] = phase[v]
                                       /\ saved'[v] = saved[v]
    BY <1>1 DEF Dispatch, TypeOK
  <1>3. m \in EnrichMessage /\ m \in Message /\ m.target = id /\ m.retries = 0
    <2>1. id \in RowIds
      BY <1>1
    <2> HIDE DEF id
    <2> QED
      BY <2>1, PlatformAssumption DEF EnrichTask, EnrichMessage, Message
  <1> HIDE DEF m
  <1>4. /\ broker'[m] > 0
        /\ \A n \in EnrichMessage : broker[n] > 0 => broker'[n] > 0
        /\ \A n \in EnrichMessage : broker'[n] > 0 => n = m \/ broker[n] > 0
    <2>1. broker \in [Message -> Nat] /\ EnrichMessage \subseteq Message
      BY <1>1 DEF TypeOK, Message
    <2> QED
      BY <1>1, <1>3, <2>1 DEF Sent
  <1>5. ASSUME NEW v \in Workers, NEW j \in RowIds, InSaved(v, j), v # w \/ j # id
        PROVE  InSaved(v, j)'
    <2>1. PICK k \in DOMAIN saved[v] : saved[v][k] = j
      BY <1>5 DEF InSaved
    <2>2. CASE v # w
      BY <1>2, <2>1, <2>2 DEF InSaved
    <2>3. CASE v = w
      <3>1. saved[w][k] # Head(saved[w])
        BY <1>5, <2>1, <2>3
      <3>2. k - 1 \in DOMAIN Tail(saved[w]) /\ Tail(saved[w])[k - 1] = j
        BY <1>1, <2>1, <2>3, <3>1, AfterHead
      <3> QED
        BY <1>2, <2>3, <3>2 DEF InSaved
    <2> QED
      BY <2>2, <2>3
  <1> HIDE DEF id
  <1>6. ASSUME NEW j \in Committed', rows'[j].enrichment = NotEnriched
        PROVE  Promised(j)'
    <2>1. j \in RowIds /\ Promised(j)
      BY <1>1, <1>6 DEF OwedInv, Committed
    <2>2. CASE j = id
      BY <1>3, <1>4, <2>2 DEF Promised
    <2>3. CASE j # id
      <3>1. \A v \in Workers : phase[v] = "lookup" => phase'[v] = "lookup"
        BY <1>1, <1>2
      <3> QED
        BY <1>1, <1>4, <1>5, <2>1, <2>3, <3>1 DEF Promised
    <2> QED
      BY <2>2, <2>3
  <1>7. RetriesFaulted'
    <2>1. faults \in Nat
      BY <1>1 DEF TypeOK
    <2> QED
      BY <1>1, <1>2, <1>3, <1>4, <2>1 DEF OwedInv, RetriesFaulted
  <1>8. ASSUME NEW v \in Workers, NEW j \in RowIds,
               phase'[v] = "upsert", session'[v][j] # NotLoaded
        PROVE  InSaved(v, j)'
    BY <1>1, <1>2, <1>5, <1>8 DEF OwedInv
  <1> QED
    BY <1>6, <1>7, <1>8 DEF OwedInv

\* A lookup that raises is retried: fewer have raised before than a task has
\* retries (manager.py:70-74).
LEMMA LookupOwed ==
    ASSUME IInv, TypeOK', OwedInv, ServicesUp, NEW w \in Workers, LookupRaises(w)
    PROVE  OwedInv'
  <1> DEFINE m == message[w]
             n == NextAttempt(message[w])
  <1>1. /\ TypeOK /\ phase[w] = "lookup" /\ faults < MaxFaults
        /\ faults' = faults + 1 /\ RetryTask(w) /\ UNCHANGED rows
    BY DEF IInv, LookupRaises, Fault
  <1>2. m \in EnrichMessage /\ m \in Message /\ m.retries <= faults
    BY <1>1 DEF IInv, PhaseOK, OwedInv, RetriesFaulted, Message
  <1>3. MayRetry(m)
    BY <1>1, <1>2, PlatformAssumption
    DEF ServicesUp, MayRetry, TypeOK, EnrichMessage
  <1>4. /\ n \in Message /\ n \in EnrichMessage /\ n.target = m.target
        /\ n.retries = m.retries + 1
    <2>1. n \in Message /\ n.task = m.task /\ n.target = m.target
      BY <1>2, <1>3, NextAttemptType
    <2>2. n.retries = m.retries + 1
      BY <1>2 DEF NextAttempt, EnrichMessage
    <2> QED
      BY <1>2, <2>1, <2>2 DEF Message, EnrichMessage, IngestMessage
  <1>5. broker' = Sent(n) /\ Over(w)
    BY <1>1, <1>3 DEF RetryTask
  <1> HIDE DEF m, n
  <1>6. /\ broker'[n] > 0
        /\ \A k \in EnrichMessage : broker[k] > 0 => broker'[k] > 0
        /\ \A k \in EnrichMessage : broker'[k] > 0 => k = n \/ broker[k] > 0
    <2>1. broker \in [Message -> Nat] /\ EnrichMessage \subseteq Message
      BY <1>1 DEF TypeOK, Message
    <2> QED
      BY <1>4, <1>5, <2>1 DEF Sent
  <1>7. /\ phase'[w] = "ack" /\ session'[w] = EmptySession /\ message' = message
        /\ \A v \in Workers : v # w => /\ session'[v] = session[v]
                                       /\ phase'[v] = phase[v]
                                       /\ saved'[v] = saved[v]
    BY <1>1, <1>5 DEF Over, TypeOK
  <1>8. ASSUME NEW v \in Workers, NEW j \in RowIds, InSaved(v, j)
        PROVE  InSaved(v, j)'
    <2>1. v # w
      BY <1>1, <1>8, NothingSaved
    <2> QED
      BY <1>7, <1>8, <2>1 DEF InSaved
  <1>9. ASSUME NEW j \in Committed', rows'[j].enrichment = NotEnriched
        PROVE  Promised(j)'
    <2>1. j \in RowIds /\ Promised(j)
      BY <1>1, <1>9 DEF OwedInv, Committed
    <2>2. CASE j = m.target
      BY <1>4, <1>6, <2>2 DEF Promised
    <2>3. CASE j # m.target
      BY <1>6, <1>7, <1>8, <2>1, <2>3 DEF Promised, m
    <2> QED
      BY <2>2, <2>3
  <1>10. RetriesFaulted'
    <2>1. faults \in Nat /\ \A k \in EnrichMessage : k.retries \in Nat
      BY <1>1 DEF TypeOK, EnrichMessage
    <2>2. ASSUME NEW k \in EnrichMessage, broker'[k] > 0
          PROVE  k.retries <= faults'
      BY <1>1, <1>2, <1>4, <1>6, <2>1, <2>2 DEF OwedInv, RetriesFaulted
    <2>3. ASSUME NEW v \in Workers, phase'[v] = "lookup"
          PROVE  message'[v].retries <= faults'
      <3>1. message'[v] = message[v] /\ phase[v] = "lookup"
        BY <1>7, <2>3
      <3>2. message[v] \in EnrichMessage /\ message[v].retries <= faults
        BY <3>1 DEF IInv, PhaseOK, OwedInv, RetriesFaulted
      <3> QED
        BY <1>1, <2>1, <3>1, <3>2
    <2> QED
      BY <2>2, <2>3 DEF RetriesFaulted
  <1>11. ASSUME NEW v \in Workers, NEW j \in RowIds,
                phase'[v] = "upsert", session'[v][j] # NotLoaded
         PROVE  InSaved(v, j)'
    BY <1>7, <1>8, <1>11 DEF OwedInv
  <1> QED
    BY <1>9, <1>10, <1>11 DEF OwedInv

\* Nothing is committed at first.
LEMMA InitOwed == Init => OwedInv
  <1> SUFFICES ASSUME Init PROVE OwedInv
    OBVIOUS
  <1>1. \A id \in RowIds : rows[id] = NoRow
    BY DEF Init
  <1>2. \A w \in Workers : phase[w] = "idle"
    BY DEF Init
  <1>3. \A w \in Workers, id \in RowIds : session[w][id] = NotLoaded
    BY DEF Init, EmptySession
  <1>4. \A m \in EnrichMessage : broker[m] = 0
    BY DEF Init, Message
  <1> QED
    BY <1>1, <1>2, <1>3, <1>4
    DEF OwedInv, Committed, RetriesFaulted

\* While the services are up every step passes every promise on.
LEMMA NextOwed == WriteInv /\ OwedInv /\ ServicesUp /\ Next => OwedInv'
  <1> SUFFICES ASSUME IInv, TableInv, OwedInv, ServicesUp, Next
               PROVE  OwedInv'
    BY DEF WriteInv
  <1> USE DEF local, history
  <1>0. TypeOK' /\ TypeOK /\ PhaseOK /\ faults \in Nat
    BY StepType DEF IInv, TypeOK
  <1>1. \A kind \in {"crash", "database", "publish"} : ~Fault(kind)
    BY DEF ServicesUp, Fault
  <1>2. ASSUME NEW r \in Requests, TriggerIngestion(r)
        PROVE  OwedInv'
    <2>1. /\ UNCHANGED <<rows, phase, message, session, saved, faults>>
          /\ broker' = Sent(Ingest(r, 0))
      BY <1>2 DEF TriggerIngestion
    <2>2. \A m \in EnrichMessage : m # Ingest(r, 0) /\ m \in Message
      BY DEF EnrichMessage, Ingest, Message
    <2>3. \A m \in EnrichMessage : broker'[m] = broker[m]
      BY <1>0, <2>1, <2>2 DEF Sent, TypeOK
    <2> QED
      BY <1>0, <2>1, <2>3, QuietOwed DEF InSaved
  <1>3. ASSUME NEW w \in Workers, IngestStep(w)
        PROVE  OwedInv'
    <2>1. ASSUME NEW m \in IngestMessage, StartIngestion(w, m)
          PROVE  OwedInv'
      <3>1. /\ UNCHANGED <<rows, session, saved, faults>>
            /\ phase[w] = "idle" /\ phase'[w] = "fetch"
            /\ \A v \in Workers : v # w => /\ phase'[v] = phase[v]
                                           /\ message'[v] = message[v]
        BY <1>0, <2>1 DEF StartIngestion, Receive, TypeOK
      <3>2. \A n \in EnrichMessage : broker'[n] = broker[n]
        BY <1>0, <2>1, EnrichmentsApart
        DEF StartIngestion, Receive, TypeOK, Message
      <3> QED
        BY <1>0, <3>1, <3>2, QuietOwed DEF InSaved
    <2>2. CASE FetchFails(w)
      <3>1. message[w] \in IngestMessage /\ message[w] \in Message
        BY <1>0, <2>2 DEF FetchFails, PhaseOK, Message
      <3>2. \A n \in EnrichMessage : broker'[n] = broker[n]
        <4>1. CASE ~MayRetry(message[w])
          BY <2>2, <4>1 DEF FetchFails, RetryTask
        <4>2. CASE MayRetry(message[w])
          <5>1. \A n \in EnrichMessage : n # NextAttempt(message[w])
            BY <3>1, <4>2, NextAttemptType DEF IngestMessage, EnrichMessage
          <5>2. broker' = Sent(NextAttempt(message[w]))
            BY <2>2, <4>2 DEF FetchFails, RetryTask
          <5> QED
            BY <1>0, <5>1, <5>2 DEF Sent, TypeOK, Message
        <4> QED
          BY <4>1, <4>2
      <3> QED
        BY <1>0, <2>2, <3>2, FetchOwed DEF FetchFails, RetryTask
    <2>3. CASE MalformedFeed(w) \/ EmptyFeed(w)
      BY <1>0, <2>3, FetchOwed DEF MalformedFeed, EmptyFeed, Fault
    <2>4. ASSUME NEW items \in FeedBodies, BeginUpsert(w, items)
          PROVE  OwedInv'
      <3>1. /\ UNCHANGED <<rows, broker, message, session, saved, faults>>
            /\ phase[w] = "fetch" /\ phase'[w] = "upsert"
            /\ \A v \in Workers : v # w => phase'[v] = phase[v]
        BY <1>0, <2>4 DEF BeginUpsert, TypeOK
      <3>2. session'[w] = EmptySession
        BY <3>1, NothingLoaded
      <3> QED
        BY <1>0, <3>1, <3>2, QuietOwed DEF InSaved
    <2>5. CASE SkipUnknown(w)
      BY <1>0, <2>5, QuietOwed DEF SkipUnknown, InSaved
    <2>6. ASSUME NEW id \in RowIds, UpsertExisting(w, id) \/ UpsertNew(w, id)
          PROVE  OwedInv'
      BY <1>0, <2>6, UpsertOwed
    <2>7. ASSUME NEW rescored \in BOOLEAN, CommitUpsert(w, rescored)
          PROVE  OwedInv'
      BY <1>0, <2>7, CommitUpsertOwed
    <2>8. CASE Dispatch(w)
      BY <1>0, <2>8, DispatchOwed
    <2>9. ~UpsertFails(w) /\ ~DispatchFails(w) /\ ~FetchLost(w)
      BY <1>1 DEF UpsertFails, DispatchFails, FetchLost, RetryRefused
    <2> QED
      BY <1>3, <2>1, <2>2, <2>3, <2>4, <2>5, <2>6, <2>7, <2>8, <2>9
      DEF IngestStep
  <1>4. ASSUME NEW w \in Workers, EnrichStep(w)
        PROVE  OwedInv'
    <2>1. ~EnrichmentFails(w) /\ ~LookupLost(w)
      BY <1>1 DEF EnrichmentFails, LookupLost, RetryRefused
    <2> QED
      BY <1>0, <1>4, <2>1, StartOwed, CommitEnrichmentOwed, LookupOwed
      DEF EnrichStep
  <1>5. ASSUME NEW w \in Workers, Ack(w)
        PROVE  OwedInv'
    <2>1. /\ UNCHANGED <<rows, broker, session, saved, faults>>
          /\ phase[w] = "ack" /\ phase'[w] = "idle"
          /\ \A v \in Workers : v # w => /\ phase'[v] = phase[v]
                                         /\ message'[v] = message[v]
      BY <1>0, <1>5 DEF Ack, TypeOK
    <2> QED
      BY <1>0, <2>1, QuietOwed DEF InSaved
  <1>6. \A w \in Workers : ~Crash(w)
    BY <1>1 DEF Crash
  <1> QED
    BY <1>2, <1>3, <1>4, <1>5, <1>6 DEF Next, WorkerStep

\* A message or a worker is the promise of a row.
LEMMA PromiseKept == IInv /\ OwedInv => EnrichmentOwed
  <1> SUFFICES ASSUME IInv, OwedInv, NEW id \in Committed,
                      rows[id].enrichment = NotEnriched
               PROVE  \/ EnrichmentPending(id)
                      \/ \E w \in Workers : InSaved(w, id)
    BY DEF EnrichmentOwed, InSaved
  <1>1. Promised(id)
    BY DEF OwedInv
  <1>2. ASSUME NEW m \in EnrichMessage, m.target = id
        PROVE  \E n \in 0..MaxRetries : m = EnrichTask(id, n)
    BY <1>2 DEF EnrichMessage, EnrichTask
  <1>3. \A w \in Workers : phase[w] = "lookup" => message[w] \in EnrichMessage
    BY DEF IInv, PhaseOK
  <1> QED
    BY <1>1, <1>2, <1>3 DEF Promised, EnrichmentPending

\* While the services are up, and no task runs out of retries, the promise of
\* every committed row is passed on from the worker that committed it to the
\* broker, to the lookup, and to the lookup's retry (tasks.py:33-62,
\* manager.py:50-103).
THEOREM Promises == ASSUME ServicesUp PROVE Spec => []OwedInv
  <1>1. OwedInv /\ UNCHANGED vars => OwedInv'
    <2> SUFFICES ASSUME OwedInv, UNCHANGED vars
                 PROVE  OwedInv'
      OBVIOUS
    <2>1. UNCHANGED <<rows, broker, phase, message, session, saved, faults>>
      BY DEF vars, local
    <2> QED
      BY <2>1 DEF OwedInv, Committed, Promised, InSaved, RetriesFaulted
  <1>2. WriteInv /\ OwedInv /\ [Next]_vars => OwedInv'
    BY <1>1, NextOwed
  <1> QED
    BY <1>2, InitOwed, WriteInvariance, PTL DEF Spec

\* Then no committed row is forgotten before it is enriched: a message, a
\* lookup or a dispatch for it is under way (tasks.py:46-52, manager.py:66-91).
THEOREM Owed == ASSUME ServicesUp PROVE Spec => []EnrichmentOwed
  <1> QED
    BY Promises, Invariance, PromiseKept, PTL
------------------------------------------------------------------------------
(* What is settled stays settled                                            *)

\* IngestionPending, by message instead of by attempt.
LEMMA PendingByMessage ==
    ASSUME NEW r \in Requests
    PROVE  IngestionPending(r) <=>
             \/ \E m \in OfRequest(r) : broker[m] > 0
             \/ \E w \in Workers : message[w] \in OfRequest(r)
  <1>1. \A m : m \in OfRequest(r) <=> \E n \in 0..MaxRetries : m = Ingest(r, n)
    BY DEF OfRequest, IngestMessage, Ingest
  <1> QED
    BY <1>1 DEF IngestionPending

\* A step in which messages of a request come from messages of it.
LEMMA SettledStep ==
    ASSUME NEW r \in Requests, ~IngestionPending(r),
           applied'[r] = applied[r],
           \A m \in OfRequest(r) :
              broker'[m] > 0 => \/ broker[m] > 0
                                \/ \E w \in Workers : message[w] \in OfRequest(r),
           \A v \in Workers : \/ message'[v] = message[v]
                              \/ message'[v] \notin OfRequest(r)
                              \/ broker[message'[v]] > 0
    PROVE  ~IngestionPending(r)' /\ applied'[r] = applied[r]
  <1>1. IngestionPending(r)' <=>
          \/ \E m \in OfRequest(r) : broker'[m] > 0
          \/ \E w \in Workers : message'[w] \in OfRequest(r)
    <2>1. \A m : m \in OfRequest(r) <=> \E n \in 0..MaxRetries : m = Ingest(r, n)
      BY DEF OfRequest, IngestMessage, Ingest
    <2> QED
      BY <2>1 DEF IngestionPending
  <1> QED
    BY <1>1, PendingByMessage

\* What a worker sends for its own task is of the same request.
LEMMA ResentSettled ==
    ASSUME TypeOK, NEW r \in Requests, NEW w \in Workers, NEW m \in Message,
           \A q \in Requests : m \in OfRequest(q) => message[w] \in OfRequest(q),
           broker' = Sent(m),
           NEW n \in OfRequest(r), broker'[n] > 0
    PROVE  \/ broker[n] > 0
           \/ \E v \in Workers : message[v] \in OfRequest(r)
  <1>1. n \in Message
    BY RequestMessages
  <1>2. n = m \/ broker[n] > 0
    BY <1>1, SentCounts DEF TypeOK
  <1> QED
    BY <1>2

\* The next attempt of a task is of the same request.
LEMMA RetrySettled ==
    ASSUME TypeOK, NEW r \in Requests, NEW w \in Workers,
           message[w] \in Message, RetryTask(w),
           NEW n \in OfRequest(r), broker'[n] > 0
    PROVE  \/ broker[n] > 0
           \/ \E v \in Workers : message[v] \in OfRequest(r)
  <1>1. CASE ~MayRetry(message[w])
    BY <1>1 DEF RetryTask
  <1>2. CASE MayRetry(message[w])
    <2> DEFINE m == NextAttempt(message[w])
    <2>1. /\ m \in Message /\ m.task = message[w].task
          /\ m.target = message[w].target /\ broker' = Sent(m)
      BY <1>2, NextAttemptType DEF RetryTask
    <2> HIDE DEF m
    <2>2. \A q \in Requests : m \in OfRequest(q) => message[w] \in OfRequest(q)
      BY <2>1 DEF OfRequest, IngestMessage, EnrichMessage, Message
    <2> QED
      BY <2>1, <2>2, ResentSettled
  <1> QED
    BY <1>1, <1>2

\* No step revives a request.
LEMMA NextSettled ==
    ASSUME IInv, Next, NEW r \in posted, ~IngestionPending(r)
    PROVE  ~IngestionPending(r)' /\ applied'[r] = applied[r]
  <1> USE DEF local, history
  <1>0. TypeOK /\ PhaseOK /\ r \in Requests
    BY DEF IInv, TypeOK
  <1>1. ASSUME NEW q \in Requests, TriggerIngestion(q)
        PROVE  ~IngestionPending(r)' /\ applied'[r] = applied[r]
    <2>1. /\ q # r /\ broker' = Sent(Ingest(q, 0))
          /\ UNCHANGED <<message, applied>>
      BY <1>1 DEF TriggerIngestion
    <2>2. Ingest(q, 0) \in Message /\ Ingest(q, 0) \notin OfRequest(r)
      BY <2>1, PlatformAssumption
      DEF Ingest, OfRequest, IngestMessage, Message
    <2>3. \A m \in OfRequest(r) : broker'[m] > 0 => broker[m] > 0
      BY <1>0, <2>1, <2>2, SentCounts, RequestMessages DEF TypeOK
    <2> QED
      BY <1>0, <2>1, <2>3, SettledStep
  <1>2. ASSUME NEW w \in Workers, NEW m \in Message, Receive(w, m),
               UNCHANGED applied
        PROVE  ~IngestionPending(r)' /\ applied'[r] = applied[r]
    <2>1. \A n \in OfRequest(r) : broker'[n] > 0 => broker[n] > 0
      <3>1. \A n \in Message : broker[n] \in Nat
        BY <1>0 DEF TypeOK
      <3>2. \A n \in Message : broker'[n] = IF n = m THEN broker[m] - 1
                                            ELSE broker[n]
        BY <1>0, <1>2 DEF Receive, TypeOK
      <3> QED
        BY <3>1, <3>2, RequestMessages, <1>0
    <2>2. \A v \in Workers : message'[v] = message[v] \/ message'[v] = m
      BY <1>0, <1>2 DEF Receive, TypeOK
    <2> QED
      BY <1>0, <1>2, <2>1, <2>2, SettledStep DEF Receive
  <1>3. ASSUME NEW w \in Workers, RetryTask(w), message[w] \in Message,
               UNCHANGED applied
        PROVE  ~IngestionPending(r)' /\ applied'[r] = applied[r]
    <2>1. UNCHANGED message
      BY <1>3 DEF RetryTask, Over
    <2> QED
      BY <1>0, <1>3, <2>1, RetrySettled, SettledStep
  <1>4. ASSUME UNCHANGED <<broker, message, applied>>
        PROVE  ~IngestionPending(r)' /\ applied'[r] = applied[r]
    BY <1>0, <1>4, SettledStep
  <1>5. ASSUME NEW w \in Workers, NEW rescored \in BOOLEAN,
               CommitUpsert(w, rescored)
        PROVE  ~IngestionPending(r)' /\ applied'[r] = applied[r]
    <2>1. message[w] \in IngestMessage /\ UNCHANGED <<broker, message>>
      BY <1>0, <1>5 DEF CommitUpsert, PhaseOK
    <2>2. message[w].target # r
      BY <1>0, <2>1, PendingByMessage DEF OfRequest
    <2>3. applied'[r] = applied[r]
      BY <1>0, <1>5, <2>2 DEF CommitUpsert, TypeOK
    <2> QED
      BY <1>0, <2>1, <2>3, SettledStep
  <1>6. ASSUME NEW w \in Workers, Dispatch(w)
        PROVE  ~IngestionPending(r)' /\ applied'[r] = applied[r]
    <2> DEFINE m == EnrichTask(Head(saved[w]), 0)
    <2>1. UNCHANGED <<message, applied>> /\ broker' = Sent(m)
      BY <1>6 DEF Dispatch
    <2>2. m \notin OfRequest(r)
      BY DEF EnrichTask, OfRequest, IngestMessage
    <2> HIDE DEF m
    <2>3. \A n \in OfRequest(r) : broker'[n] = broker[n]
      BY <1>0, <2>1, <2>2, RequestMessages DEF Sent, TypeOK
    <2> QED
      BY <1>0, <2>1, <2>3, SettledStep
  <1>7. ASSUME NEW w \in Workers, Ack(w)
        PROVE  ~IngestionPending(r)' /\ applied'[r] = applied[r]
    <2>1. /\ UNCHANGED <<broker, applied>>
          /\ \A v \in Workers : message'[v] \in {message[v], NoMessage}
      BY <1>0, <1>7 DEF Ack, TypeOK
    <2>2. NoMessage \notin OfRequest(r)
      BY <1>0, MarkerAssumption, RequestMessages
    <2> QED
      BY <1>0, <2>1, <2>2, SettledStep
  <1>8. ASSUME NEW w \in Workers, Crash(w)
        PROVE  ~IngestionPending(r)' /\ applied'[r] = applied[r]
    <2>1. /\ message[w] \in Message /\ broker' = Sent(message[w])
          /\ UNCHANGED applied
          /\ \A v \in Workers : message'[v] \in {message[v], NoMessage}
      BY <1>0, <1>8 DEF Crash, PhaseOK, Message, TypeOK, Phases
    <2>2. NoMessage \notin OfRequest(r)
      BY <1>0, MarkerAssumption, RequestMessages
    <2>3. \A n \in OfRequest(r) :
             broker'[n] > 0 => \/ broker[n] > 0
                               \/ \E v \in Workers : message[v] \in OfRequest(r)
      BY <1>0, <2>1, ResentSettled
    <2> QED
      BY <1>0, <2>1, <2>2, <2>3, SettledStep
  <1>9. ASSUME NEW w \in Workers, IngestStep(w)
        PROVE  ~IngestionPending(r)' /\ applied'[r] = applied[r]
    <2>1. ASSUME NEW m \in IngestMessage, StartIngestion(w, m)
          PROVE  ~IngestionPending(r)' /\ applied'[r] = applied[r]
      BY <1>2, <2>1 DEF StartIngestion, Message
    <2>2. CASE FetchFails(w)
      BY <1>0, <1>3, <2>2 DEF FetchFails, PhaseOK, Message
    <2> QED
      BY <1>4, <1>5, <1>6, <1>9, <2>1, <2>2
      DEF IngestStep, FetchLost, RetryRefused, MalformedFeed, EmptyFeed,
          BeginUpsert, SkipUnknown, UpsertExisting, UpsertNew, UpsertFails,
          DispatchFails, Over
  <1>10. ASSUME NEW w \in Workers, EnrichStep(w)
         PROVE  ~IngestionPending(r)' /\ applied'[r] = applied[r]
    <2>1. ASSUME NEW m \in EnrichMessage, StartEnrichment(w, m)
          PROVE  ~IngestionPending(r)' /\ applied'[r] = applied[r]
      BY <1>2, <2>1 DEF StartEnrichment, Message
    <2>2. CASE LookupRaises(w)
      BY <1>0, <1>3, <2>2 DEF LookupRaises, PhaseOK, Message
    <2> QED
      BY <1>4, <1>10, <2>1, <2>2
      DEF EnrichStep, CommitEnrichment, LookupLost, RetryRefused,
          EnrichmentFails, Over
  <1> QED
    BY <1>1, <1>7, <1>8, <1>9, <1>10 DEF Next, WorkerStep

\* A request whose messages are all gone is over for good: no retry,
\* redelivery or death of a worker brings it back, and its feed is not applied
\* again (tasks.py:28-31, celery_app.py:25).  That every request gets there is
\* RequestsSettle.
THEOREM SettledForGood ==
    Spec => [][\A r \in posted :
                  ~IngestionPending(r)
                    => ~IngestionPending(r)' /\ applied'[r] = applied[r]]_vars
  <1> DEFINE Kept == \A r \in posted :
                        ~IngestionPending(r)
                          => ~IngestionPending(r)' /\ applied'[r] = applied[r]
  <1>1. IInv /\ [Next]_vars => [Kept]_vars
    BY NextSettled
  <1> QED
    BY <1>1, Invariance, PTL DEF Spec
==============================================================================

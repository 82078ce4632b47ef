--------------------------- MODULE PipelineProofs ---------------------------
(***************************************************************************)
(* Proofs about Pipeline, for every number of workers, requests, sources,  *)
(* indicators, rows and faults.                                            *)
(***************************************************************************)
EXTENDS PipelineInvariant, TLAPS

------------------------------------------------------------------------------
(* The data operators keep to their types                                   *)

\* The broker counts copies whatever message is sent.
LEMMA SentType ==
    ASSUME broker \in [Message -> Nat], NEW m \in Message
    PROVE  Sent(m) \in [Message -> Nat]
  BY DEF Sent

\* Sending a message takes none from the broker and adds that one only.
LEMMA SentCounts ==
    ASSUME broker \in [Message -> Nat], NEW m \in Message,
           NEW n \in Message,
           Sent(m)[n] > 0
    PROVE  n = m \/ broker[n] > 0
  BY DEF Sent

\* A sighted object is a row again: parser.py:132-157.
LEMMA SightedType ==
    ASSUME NEW object \in Row, NEW source \in Sources, NEW time \in Nat
    PROVE  /\ Sighted(object, source, time) \in Row
           /\ Sighted(object, source, time).confidence <= object.confidence + 5
           /\ Sighted(object, source, time).sources = object.sources \cup {source}
           /\ Sighted(object, source, time).enrichment = object.enrichment
  <1>1. object.confidence \in Int /\ object.enrichment \in Enrichment
    BY DEF Row
  <1>2. /\ Boosted(object.confidence) \in Int
        /\ Boosted(object.confidence) <= object.confidence + 5
    BY <1>1 DEF Boosted
  <1>3. ScoreOf(Boosted(object.confidence), object.enrichment) \in Score
    BY <1>1, <1>2 DEF ScoreOf, Score
  <1> QED
    BY <1>1, <1>2, <1>3 DEF Sighted, Row

\* A new object is a row: parser.py:175-194.
LEMMA CreatedType ==
    ASSUME NEW item \in Item, item.ioc \in Iocs, NEW source \in Sources,
           NEW time \in Nat
    PROVE  /\ Created(item, source, time) \in Row
           /\ Created(item, source, time).sources = {source}
  <1>1. item.confidence \in Int
    BY DEF Item
  <1>2. NotEnriched \in Enrichment
    BY DEF Enrichment
  <1>3. ScoreOf(item.confidence, NotEnriched) \in Score
    BY <1>1, <1>2 DEF ScoreOf, Score
  <1> QED
    BY <1>1, <1>2, <1>3 DEF Created, Row

\* An enriched object is a row that differs in enrichment and score only.
LEMMA EnrichedType ==
    ASSUME NEW object \in Row, NEW vt \in Results, NEW sh \in Results
    PROVE  /\ Enriched(object, vt, sh) \in Row
           /\ Enriched(object, vt, sh).confidence = object.confidence
           /\ Enriched(object, vt, sh).last = object.last
           /\ Enriched(object, vt, sh).sources = object.sources
  BY DEF Enriched, Merged, Row, ScoreOf, Score, Enrichment, EnrichmentData

\* An UPDATE of a row leaves a row.
LEMMA UpdatedType ==
    ASSUME NEW db \in Row, NEW base \in Row, NEW object \in Row,
           NEW rescored \in BOOLEAN
    PROVE  Updated(db, base, object, rescored) \in Row
  BY DEF Updated, Column, Row

------------------------------------------------------------------------------
(* Type correctness                                                         *)

\* What IInv says of a worker that runs an upsert.
LEMMA UpsertSource ==
    ASSUME IInv, NEW w \in Workers, phase[w] = "upsert"
    PROVE  /\ message[w] \in IngestMessage
           /\ message[w].target \in Requests
           /\ SourceName(w) \in Sources
  <1>1. message[w] \in IngestMessage
    BY DEF IInv, PhaseOK
  <1>2. message[w].target \in Requests
    BY <1>1 DEF IngestMessage
  <1> QED
    BY <1>1, <1>2, PlatformAssumption DEF SourceName

\* A session holds entries.
LEMMA EntryType ==
    ASSUME TypeOK, NEW w \in Workers, NEW id \in RowIds
    PROVE  session[w][id] \in Entry \cup {NotLoaded}
  BY DEF TypeOK

\* A task that is over leaves well-typed worker state.
LEMMA OverType ==
    ASSUME TypeOK, NEW w \in Workers, Over(w)
    PROVE  /\ phase' \in [Workers -> Phases]
           /\ message' \in [Workers -> Message \cup {NoMessage}]
           /\ now' \in [Workers -> Nat]
           /\ todo' \in [Workers -> Seq(Item)]
           /\ session' \in [Workers -> [RowIds -> Entry \cup {NotLoaded}]]
           /\ saved' \in [Workers -> Seq(RowIds)]
  BY DEF TypeOK, Over, Phases, EmptySession

\* Taking a message leaves well-typed broker and worker state.
LEMMA ReceiveType ==
    ASSUME TypeOK, NEW w \in Workers, NEW m \in Message, Receive(w, m)
    PROVE  /\ broker' \in [Message -> Nat]
           /\ message' \in [Workers -> Message \cup {NoMessage}]
  BY DEF TypeOK, Receive

\* A retry sends one well-formed message, of the same task and target.
LEMMA NextAttemptType ==
    ASSUME NEW m \in Message, MayRetry(m)
    PROVE  /\ NextAttempt(m) \in Message
           /\ NextAttempt(m).task = m.task
           /\ NextAttempt(m).target = m.target
  <1>1. CASE m \in IngestMessage
    BY <1>1, PlatformAssumption DEF MayRetry, NextAttempt, Message, IngestMessage
  <1>2. CASE m \in EnrichMessage
    BY <1>2, PlatformAssumption DEF MayRetry, NextAttempt, Message, EnrichMessage
  <1> QED
    BY <1>1, <1>2 DEF Message

\* Ending a task with a retry leaves a well-typed broker.
LEMMA RetryType ==
    ASSUME TypeOK, NEW w \in Workers, message[w] \in Message, RetryTask(w)
    PROVE  broker' \in [Message -> Nat]
  BY SentType, NextAttemptType DEF RetryTask, TypeOK

\* What a commit writes in place of a row is a row, or still nothing.
LEMMA FlushedType ==
    ASSUME IInv, NEW w \in Workers, NEW id \in RowIds, NEW rescored \in BOOLEAN
    PROVE  Flushed(rows[id], session[w][id], rescored) \in Row \cup {NoRow}
  <1> DEFINE entry == session[w][id]
  <1>1. CASE entry = NotLoaded
    BY <1>1 DEF Flushed, IInv, TypeOK
  <1>2. CASE entry # NotLoaded
    <2>1. entry.base \in Row \cup {NoRow} /\ entry.object \in Row
      BY <1>2, EntryType DEF IInv, Entry
    <2>2. CASE entry.base = NoRow
      BY <1>2, <2>1, <2>2 DEF Flushed
    <2>3. CASE entry.base # NoRow
      <3>1. rows[id] \in Row
        BY <1>2, <2>3 DEF IInv, SessionsDisjoint, TypeOK
      <3>2. Flushed(rows[id], entry, rescored)
              = Updated(rows[id], entry.base, entry.object, rescored)
        BY <1>2, <2>3 DEF Flushed
      <3> QED
        BY <2>1, <2>3, <3>1, <3>2, UpdatedType
    <2> QED
      BY <2>2, <2>3
  <1> QED
    BY <1>1, <1>2

\* The history of a row stays a ledger.
LEMMA RecordedType ==
    ASSUME IInv, NEW w \in Workers, NEW id \in RowIds, NEW source \in Sources
    PROVE  Recorded(ledger[id], session[w][id], source) \in Ledger \cup {NoRow}
  <1> DEFINE entry == session[w][id]
  <1>1. CASE entry = NotLoaded
    BY <1>1 DEF Recorded, IInv, TypeOK
  <1>2. CASE entry # NotLoaded
    <2>1. entry.object.confidence \in Int /\ entry.hits \in Nat
      BY <1>2, EntryType DEF IInv, Entry, Row
    <2>2. CASE entry.base = NoRow
      BY <1>2, <2>1, <2>2 DEF Recorded, Ledger
    <2>3. CASE entry.base # NoRow
      <3>1. ledger[id] \in Ledger
        BY <1>2, <2>3 DEF IInv, SessionsDisjoint, LedgerOK, TypeOK
      <3> QED
        BY <1>2, <2>1, <2>3, <3>1 DEF Recorded, Ledger
    <2> QED
      BY <2>2, <2>3
  <1> QED
    BY <1>1, <1>2

\* Every step keeps the state well typed.
LEMMA StepType == IInv /\ Next => TypeOK'
  <1> SUFFICES ASSUME IInv, Next PROVE TypeOK'
    OBVIOUS
  <1> USE DEF local, history
  <1>0. TypeOK /\ PhaseOK
    BY DEF IInv
  <1>1. ASSUME NEW r \in Requests, TriggerIngestion(r) PROVE TypeOK'
    <2>1. Ingest(r, 0) \in Message
      BY PlatformAssumption DEF Ingest, Message, IngestMessage
    <2> QED
      BY <1>0, <1>1, <2>1, SentType DEF TypeOK, TriggerIngestion
  <1>2. ASSUME NEW w \in Workers PROVE WorkerStep(w) \/ Crash(w) => TypeOK'
    <2>1. ASSUME NEW m \in IngestMessage, StartIngestion(w, m) PROVE TypeOK'
      <3>1. m \in Message
        BY DEF Message
      <3> QED
        BY <1>0, <2>1, <3>1, ReceiveType DEF TypeOK, StartIngestion, Phases
    <2>2. CASE FetchFails(w)
      <3>1. message[w] \in Message
        BY <1>0, <2>2 DEF FetchFails, PhaseOK, Message
      <3> QED
        BY <1>0, <2>2, <3>1, RetryType, OverType
        DEF TypeOK, FetchFails, RetryTask
    <2>3. CASE MalformedFeed(w) \/ FetchLost(w)
      BY <1>0, <2>3, OverType
      DEF TypeOK, MalformedFeed, FetchLost, RetryRefused, Fault
    <2>4. CASE EmptyFeed(w)
      BY <1>0, <2>4, OverType DEF TypeOK, EmptyFeed
    <2>5. ASSUME NEW items \in FeedBodies, BeginUpsert(w, items) PROVE TypeOK'
      BY <1>0, <2>5, PlatformAssumption DEF TypeOK, BeginUpsert, Phases
    <2>6. CASE SkipUnknown(w)
      BY <1>0, <2>6 DEF TypeOK, SkipUnknown, Upserting
    <2>7. ASSUME NEW id \in RowIds, UpsertExisting(w, id) PROVE TypeOK'
      <3>1. rows[id] \in Row /\ phase[w] = "upsert"
        BY <1>0, <2>7 DEF UpsertExisting, Upserting, Matches, TypeOK
      <3>2. Loaded(w, id) \in Entry
        BY <1>0, <3>1, EntryType DEF Loaded, Entry
      <3>3. [base |-> Loaded(w, id).base,
             object |-> Sighted(Loaded(w, id).object, SourceName(w), now[w]),
             hits |-> Loaded(w, id).hits + 1] \in Entry
        <4>1. now[w] \in Nat /\ SourceName(w) \in Sources
          BY <1>0, <3>1, UpsertSource DEF TypeOK
        <4>2. Loaded(w, id).object \in Row /\ Loaded(w, id).hits \in Nat
          BY <3>2 DEF Entry
        <4>3. Sighted(Loaded(w, id).object, SourceName(w), now[w]) \in Row
          BY <4>1, <4>2, SightedType
        <4> QED
          BY <3>2, <4>2, <4>3 DEF Entry
      <3>4. session' \in [Workers -> [RowIds -> Entry \cup {NotLoaded}]]
        BY <1>0, <2>7, <3>3 DEF UpsertExisting, TypeOK
      <3> QED
        BY <1>0, <2>7, <3>4 DEF UpsertExisting, Upserting, TypeOK
    <2>8. ASSUME NEW id \in RowIds, UpsertNew(w, id) PROVE TypeOK'
      <3>1. phase[w] = "upsert" /\ todo[w] \in Seq(Item) /\ todo[w] # <<>>
        BY <1>0, <2>8 DEF UpsertNew, Upserting, TypeOK
      <3>2. Head(todo[w]) \in Item /\ Head(todo[w]).ioc \in Iocs
        BY <2>8, <3>1 DEF UpsertNew, IsNew
      <3>3. Created(Head(todo[w]), SourceName(w), now[w]) \in Row
        BY <1>0, <3>1, <3>2, CreatedType, UpsertSource DEF TypeOK
      <3>4. session' \in [Workers -> [RowIds -> Entry \cup {NotLoaded}]]
        BY <1>0, <2>8, <3>3 DEF UpsertNew, TypeOK, Entry
      <3> QED
        BY <1>0, <2>8, <3>4 DEF UpsertNew, Upserting, TypeOK
    <2>9. CASE UpsertFails(w)
      BY <1>0, <2>9, OverType DEF TypeOK, UpsertFails, Fault
    <2>10. ASSUME NEW rescored \in BOOLEAN, CommitUpsert(w, rescored)
           PROVE  TypeOK'
      <3>1. rows' \in [RowIds -> Row \cup {NoRow}]
        BY <1>0, <2>10, FlushedType DEF CommitUpsert, TypeOK
      <3>2. ledger' \in [RowIds -> Ledger \cup {NoRow}]
        BY <1>0, <2>10, RecordedType, UpsertSource DEF CommitUpsert, TypeOK
      <3>3. applied' \in [Requests -> Nat]
        BY <1>0, <2>10, UpsertSource DEF CommitUpsert, TypeOK
      <3> QED
        BY <1>0, <2>10, <3>1, <3>2, <3>3
        DEF CommitUpsert, TypeOK, Phases, EmptySession
    <2>11. CASE Dispatch(w)
      <3>1. saved[w] # <<>>
        BY <1>0, <2>11 DEF Dispatch, PhaseOK
      <3>2. Head(saved[w]) \in RowIds /\ Tail(saved[w]) \in Seq(RowIds)
        BY <1>0, <3>1 DEF TypeOK
      <3>3. EnrichTask(Head(saved[w]), 0) \in Message
        BY <3>2, PlatformAssumption DEF EnrichTask, Message, EnrichMessage
      <3> QED
        BY <1>0, <2>11, <3>2, <3>3, SentType DEF Dispatch, TypeOK, Phases
    <2>12. CASE DispatchFails(w)
      BY <1>0, <2>12, OverType DEF TypeOK, DispatchFails, Fault
    <2>13. ASSUME NEW m \in EnrichMessage, StartEnrichment(w, m) PROVE TypeOK'
      <3>1. m \in Message /\ m.target \in RowIds
        BY <2>13 DEF Message, EnrichMessage
      <3>2. session' \in [Workers -> [RowIds -> Entry \cup {NotLoaded}]]
        <4>1. CASE rows[m.target] = NoRow
          BY <1>0, <2>13, <4>1 DEF StartEnrichment, TypeOK
        <4>2. CASE rows[m.target] # NoRow
          <5> DEFINE row == rows[m.target]
          <5>1. [base |-> row, object |-> row, hits |-> 0] \in Entry
            BY <1>0, <3>1, <4>2 DEF TypeOK, Entry
          <5>2. session' = [session EXCEPT ![w][m.target] =
                               [base |-> row, object |-> row, hits |-> 0]]
            BY <2>13, <4>2 DEF StartEnrichment
          <5> QED
            BY <1>0, <3>1, <5>1, <5>2 DEF TypeOK
        <4> QED
          BY <4>1, <4>2
      <3> QED
        BY <1>0, <2>13, <3>1, <3>2, ReceiveType
        DEF StartEnrichment, TypeOK, Phases
    <2>14. ASSUME NEW vt \in VtResults, NEW sh \in Results,
                  NEW rescored \in BOOLEAN, CommitEnrichment(w, vt, sh, rescored)
           PROVE  TypeOK'
      <3> DEFINE id == message[w].target
      <3>1. phase[w] = "lookup" /\ id \in RowIds
        BY <1>0, <2>14 DEF CommitEnrichment, PhaseOK, EnrichMessage
      <3>2. /\ session[w][id] \in Entry
            /\ session[w][id].base \in Row /\ session[w][id].object \in Row
            /\ rows[id] \in Row
        BY <1>0, <3>1, EntryType DEF IInv, LookupLoaded, SessionsDisjoint, TypeOK, Entry
      <3>3. Enriched(session[w][id].object, vt, sh) \in Row
        BY <3>2, EnrichedType DEF VtResults
      <3>4. rows' \in [RowIds -> Row \cup {NoRow}]
        BY <1>0, <2>14, <3>1, <3>2, <3>3, UpdatedType
        DEF CommitEnrichment, TypeOK
      <3> QED
        BY <1>0, <2>14, <3>4, OverType DEF CommitEnrichment, TypeOK
    <2>15. CASE LookupRaises(w)
      <3>1. message[w] \in Message
        BY <1>0, <2>15 DEF LookupRaises, PhaseOK, Message
      <3>2. broker' \in [Message -> Nat]
        BY <1>0, <2>15, <3>1, RetryType DEF LookupRaises
      <3>3. Over(w) /\ faults' \in Nat
        BY <1>0, <2>15 DEF LookupRaises, RetryTask, Fault, TypeOK
      <3> QED
        BY <1>0, <2>15, <3>2, <3>3, OverType DEF TypeOK, LookupRaises
    <2>16. CASE EnrichmentFails(w) \/ LookupLost(w)
      BY <1>0, <2>16, OverType
      DEF TypeOK, EnrichmentFails, LookupLost, RetryRefused, Fault
    <2>17. CASE Ack(w)
      BY <1>0, <2>17 DEF TypeOK, Ack, Phases
    <2>18. CASE Crash(w)
      <3>1. message[w] \in Message
        BY <1>0, <2>18 DEF Crash, PhaseOK, Message, TypeOK, Phases
      <3>2. crashes' \in [Requests -> Nat]
        <4>1. CASE message[w] \in IngestMessage
          <5>1. message[w].target \in Requests
            BY <4>1 DEF IngestMessage
          <5> QED
            BY <1>0, <2>18, <4>1, <5>1 DEF Crash, TypeOK
        <4>2. CASE message[w] \notin IngestMessage
          BY <1>0, <2>18, <4>2 DEF Crash, TypeOK
        <4> QED
          BY <4>1, <4>2
      <3> QED
        BY <1>0, <2>18, <3>1, <3>2, SentType
        DEF TypeOK, Crash, Fault, Phases, EmptySession
    <2> QED
      BY <2>1, <2>2, <2>3, <2>4, <2>5, <2>6, <2>7, <2>8, <2>9, <2>10, <2>11,
         <2>12, <2>13, <2>14, <2>15, <2>16, <2>17, <2>18
      DEF WorkerStep, IngestStep, EnrichStep
  <1> QED
    BY <1>1, <1>2 DEF Next

------------------------------------------------------------------------------
(* Steps that leave the table alone                                         *)

\* A task message is that of its own target and attempt.
LEMMA EnrichMessageIs ==
    \A m : m \in EnrichMessage <=>
              \E id \in RowIds, n \in 0..MaxRetries : m = EnrichTask(id, n)
  BY DEF EnrichMessage, EnrichTask

\* EnrichmentTargetsExist, by message instead of by row.
LEMMA TargetsByMessage ==
    EnrichmentTargetsExist <=>
      /\ \A m \in EnrichMessage : broker[m] > 0 => rows[m.target] # NoRow
      /\ \A w \in Workers : message[w] \in EnrichMessage
                              => rows[message[w].target] # NoRow
  <1>1. ASSUME NEW id \in RowIds, NEW n \in 0..MaxRetries
        PROVE  /\ EnrichTask(id, n) \in EnrichMessage
               /\ EnrichTask(id, n).target = id
    BY DEF EnrichTask, EnrichMessage
  <1> QED
    BY <1>1, EnrichMessageIs DEF EnrichmentTargetsExist, EnrichmentPending

\* A step that changes no row, and forgets the session of each worker it
\* moves, keeps what relates sessions and rows.
LEMMA QuietStep ==
    ASSUME IInv, UNCHANGED <<rows, ledger>>,
           \A v \in Workers :
              \/ /\ session'[v] = session[v]
                 /\ phase'[v] = phase[v]
                 /\ message'[v] = message[v]
              \/ session'[v] = EmptySession /\ phase'[v] # "lookup"
    PROVE  /\ LedgerOK' /\ NeverOverstated'
           /\ SessionsDisjoint' /\ SessionsEarned' /\ LookupLoaded'
  <1>1. LedgerOK' /\ NeverOverstated'
    BY DEF IInv, LedgerOK, NeverOverstated, Committed
  <1>2. ASSUME NEW v \in Workers, NEW id \in RowIds,
               session'[v][id] # NotLoaded
        PROVE  /\ session'[v] = session[v]
               /\ phase'[v] = phase[v]
               /\ message'[v] = message[v]
    BY <1>2 DEF EmptySession
  <1>3. ASSUME NEW v \in Workers, NEW id \in RowIds,
               session[v][id] = NotLoaded
        PROVE  session'[v][id] = NotLoaded
    BY <1>3 DEF EmptySession
  <1>4. SessionsDisjoint'
    BY <1>2, <1>3 DEF IInv, SessionsDisjoint
  <1>5. SessionsEarned'
    BY <1>2 DEF IInv, SessionsEarned, LoadedEarned, NewEarned, SourceName
  <1>6. LookupLoaded'
    BY DEF IInv, LookupLoaded
  <1> QED
    BY <1>1, <1>4, <1>5, <1>6

------------------------------------------------------------------------------
(* What a commit does to one row and its ledger                             *)

\* Markers are not records.
LEMMA MarkersApart ==
    /\ \A row \in Row : row # NoRow
    /\ \A entry \in Ledger : entry # NoRow
    /\ \A entry \in Entry : entry # NotLoaded
    /\ \A m \in Message : m # NoMessage
  BY MarkerAssumption

\* After the commit of an upsert a row still is what its ledger allows, and
\* the ledger has only grown: parser.py:132-200.
LEMMA CommittedRow ==
    ASSUME IInv, NEW w \in Workers, phase[w] = "upsert",
           NEW id \in RowIds, NEW rescored \in BOOLEAN,
           NEW row, row = Flushed(rows[id], session[w][id], rescored),
           NEW led, led = Recorded(ledger[id], session[w][id], SourceName(w))
    PROVE  /\ row = NoRow <=> led = NoRow
           /\ session[w][id] = NotLoaded => row = rows[id] /\ led = ledger[id]
           /\ session[w][id] # NotLoaded => row # NoRow
           /\ rows[id] # NoRow
                => /\ row # NoRow
                   /\ row.enrichment = rows[id].enrichment
                   /\ led.earned >= ledger[id].earned
                   /\ led.reporter = ledger[id].reporter
                   /\ ledger[id].reported \subseteq led.reported
           /\ row # NoRow => /\ row.confidence <= led.earned
                             /\ led.reporter \in row.sources
                             /\ row.sources \subseteq led.reported
  <1> DEFINE entry == session[w][id]
             source == SourceName(w)
  <1>0. /\ entry \in Entry \cup {NotLoaded}
        /\ rows[id] \in Row \cup {NoRow}
        /\ ledger[id] \in Ledger \cup {NoRow}
        /\ source \in Sources
        /\ rows[id] = NoRow <=> ledger[id] = NoRow
    BY EntryType, UpsertSource DEF IInv, TypeOK, LedgerOK
  <1>1. CASE entry = NotLoaded
    <2>1. row = rows[id] /\ led = ledger[id]
      BY <1>1 DEF Flushed, Recorded
    <2>2. rows[id] # NoRow => rows[id].confidence <= ledger[id].earned
                              /\ ledger[id].reporter \in rows[id].sources
                              /\ rows[id].sources \subseteq ledger[id].reported
      BY DEF IInv, NeverOverstated, Committed
    <2>3. rows[id] # NoRow => ledger[id].earned \in Int
      BY <1>0 DEF Ledger
    <2> QED
      BY <1>0, <1>1, <2>1, <2>2, <2>3
  <1>2. CASE entry # NotLoaded /\ entry.base = NoRow
    <2>1. entry \in Entry /\ entry.object \in Row
      BY <1>0, <1>2 DEF Entry
    <2>2. entry.object.sources = {source} /\ entry.object.confidence \in Int
      BY <1>2, <2>1 DEF IInv, SessionsEarned, NewEarned, Row
    <2>3. /\ row = entry.object
          /\ led = [earned |-> entry.object.confidence, reporter |-> source,
                    reported |-> {source}]
      BY <1>2 DEF Flushed, Recorded
    <2>4. led \in Ledger
      BY <1>0, <2>2, <2>3 DEF Ledger
    <2>5. rows[id] = NoRow
      BY <1>2 DEF IInv, SessionsDisjoint
    <2> QED
      BY <1>2, <2>1, <2>2, <2>3, <2>4, <2>5, MarkersApart
  <1>3. CASE entry # NotLoaded /\ entry.base # NoRow
    <2> DEFINE db == rows[id]
               old == ledger[id]
    <2>1. /\ entry.base \in Row /\ entry.object \in Row /\ entry.hits \in Nat
          /\ db \in Row /\ old \in Ledger
      BY <1>0, <1>3 DEF Entry, IInv, SessionsDisjoint
    <2>2. /\ entry.base.confidence <= old.earned
          /\ entry.object.confidence <= entry.base.confidence + 5 * entry.hits
          /\ old.reporter \in entry.object.sources
          /\ entry.object.enrichment = entry.base.enrichment
          /\ entry.object.sources \subseteq old.reported \cup {source}
      BY <1>3 DEF IInv, SessionsEarned, LoadedEarned
    <2>3. /\ db.confidence <= old.earned
          /\ old.reporter \in db.sources
          /\ db.sources \subseteq old.reported
      BY <2>1, MarkersApart DEF IInv, NeverOverstated, Committed
    <2>4. row = Updated(db, entry.base, entry.object, rescored)
      BY <1>3 DEF Flushed
    <2>5. row \in Row
      BY <2>1, <2>4, UpdatedType
    <2>6. /\ row.confidence \in {db.confidence, entry.object.confidence}
          /\ row.sources \in {db.sources, entry.object.sources}
          /\ row.enrichment = db.enrichment
      BY <2>2, <2>4 DEF Updated, Column
    <2>7. led = [earned |-> old.earned + 5 * entry.hits,
                 reporter |-> old.reporter,
                 reported |-> old.reported \cup {source}]
      BY <1>3 DEF Recorded
    <2>8. /\ led \in Ledger
          /\ led.earned = old.earned + 5 * entry.hits
          /\ led.reporter = old.reporter
          /\ led.reported = old.reported \cup {source}
      BY <1>0, <2>1, <2>7 DEF Ledger
    <2>9. /\ old.earned \in Int /\ db.confidence \in Int
          /\ entry.base.confidence \in Int /\ entry.object.confidence \in Int
      BY <2>1 DEF Row, Ledger
    <2>10. row.confidence <= led.earned /\ led.earned >= old.earned
      BY <2>1, <2>2, <2>3, <2>6, <2>8, <2>9
    <2>11. led.reporter \in row.sources /\ row.sources \subseteq led.reported
      BY <2>2, <2>3, <2>6, <2>8
    <2> QED
      BY <1>3, <2>1, <2>5, <2>6, <2>8, <2>10, <2>11, MarkersApart
  <1> QED
    BY <1>1, <1>2, <1>3

------------------------------------------------------------------------------
(* The invariant, action by action                                          *)

\* No row vanishes, and a new enrichment message is about a row: then every
\* enrichment message is.
LEMMA TargetsStep ==
    ASSUME IInv,
           \A id \in RowIds : rows[id] # NoRow => rows'[id] # NoRow,
           \A m \in EnrichMessage :
              broker'[m] > 0 => broker[m] > 0 \/ rows'[m.target] # NoRow,
           \A v \in Workers :
              \/ message'[v] = message[v]
              \/ message'[v] \notin EnrichMessage
              \/ rows'[message'[v].target] # NoRow
    PROVE  EnrichmentTargetsExist'
  <1>1. ASSUME NEW id \in RowIds, NEW n \in 0..MaxRetries
        PROVE  /\ EnrichTask(id, n) \in EnrichMessage
               /\ EnrichTask(id, n).target = id
    BY DEF EnrichTask, EnrichMessage
  <1>2. EnrichmentTargetsExist
    BY DEF IInv
  <1> QED
    BY <1>1, <1>2 DEF EnrichmentTargetsExist, EnrichmentPending

\* A retry of an enrichment is about the same row, a retry of an ingestion
\* about none.
LEMMA RetrySends ==
    ASSUME IInv, NEW w \in Workers, message[w] \in Message, RetryTask(w),
           NEW m \in EnrichMessage, broker'[m] > 0
    PROVE  broker[m] > 0 \/ rows[m.target] # NoRow
  <1>1. CASE ~MayRetry(message[w])
    BY <1>1 DEF RetryTask
  <1>2. CASE MayRetry(message[w])
    <2> DEFINE n == NextAttempt(message[w])
    <2>1. /\ n \in Message /\ n.task = message[w].task
          /\ n.target = message[w].target
      BY <1>2, NextAttemptType
    <2>2. Sent(n)[m] > 0 /\ broker \in [Message -> Nat] /\ m \in Message
      BY <1>2 DEF RetryTask, IInv, TypeOK, Message
    <2>3. m = n \/ broker[m] > 0
      BY <2>1, <2>2, SentCounts
    <2>4. CASE m = n
      <3>1. message[w] \in EnrichMessage
        BY <2>1, <2>4 DEF Message, EnrichMessage, IngestMessage
      <3> QED
        BY <2>1, <2>4, <3>1, TargetsByMessage DEF IInv
    <2> QED
      BY <2>3, <2>4
  <1> QED
    BY <1>1, <1>2

\* A task that ends without writing keeps the invariant.
LEMMA OverStep ==
    ASSUME IInv, TypeOK', NEW w \in Workers, message[w] \in Message, Over(w),
           UNCHANGED <<rows, ledger>>,
           \A m \in EnrichMessage :
              broker'[m] > 0 => broker[m] > 0 \/ rows[m.target] # NoRow
    PROVE  IInv'
  <1>1. /\ phase \in [Workers -> Phases]
        /\ DOMAIN session = Workers /\ DOMAIN saved = Workers
        /\ DOMAIN message = Workers
    BY DEF IInv, TypeOK
  <1>2. /\ phase'[w] = "ack" /\ session'[w] = EmptySession /\ saved'[w] = <<>>
        /\ message' = message
        /\ \A v \in Workers \ {w} :
              /\ phase'[v] = phase[v]
              /\ session'[v] = session[v]
              /\ saved'[v] = saved[v]
    BY <1>1 DEF Over
  <1>3. /\ LedgerOK' /\ NeverOverstated'
        /\ SessionsDisjoint' /\ SessionsEarned' /\ LookupLoaded'
    BY <1>2, QuietStep
  <1>4. PhaseOK'
    BY <1>2 DEF IInv, PhaseOK, EmptySession
  <1>5. SavedOK'
    BY <1>2 DEF IInv, SavedOK
  <1>6. EnrichmentTargetsExist'
    BY <1>2, TargetsStep
  <1> QED
    BY <1>3, <1>4, <1>5, <1>6 DEF IInv

\* A request that is posted starts nothing but an ingestion.
LEMMA TriggerStep ==
    ASSUME IInv, TypeOK', NEW r \in Requests, TriggerIngestion(r)
    PROVE  IInv'
  <1>1. TypeOK /\ PhaseOK /\ SavedOK
    BY DEF IInv
  <1>2. UNCHANGED <<rows, ledger, session, phase, message, saved>>
    BY DEF TriggerIngestion, local, history
  <1>3. Ingest(r, 0) \in Message \ EnrichMessage
    BY PlatformAssumption DEF Ingest, Message, IngestMessage, EnrichMessage
  <1>4. \A m \in EnrichMessage : broker'[m] > 0 => broker[m] > 0
    BY <1>1, <1>3, SentCounts DEF TriggerIngestion, TypeOK, Message
  <1>5. EnrichmentTargetsExist'
    BY <1>2, <1>4, TargetsStep
  <1>6. PhaseOK' /\ SavedOK'
    BY <1>1, <1>2 DEF PhaseOK, SavedOK
  <1> QED
    BY <1>2, <1>5, <1>6, QuietStep DEF IInv

\* The actions that only move a worker or a message.
LEMMA MoveSteps ==
    ASSUME IInv, TypeOK', NEW w \in Workers,
           \/ \E m \in IngestMessage : StartIngestion(w, m)
           \/ \E items \in FeedBodies : BeginUpsert(w, items)
           \/ SkipUnknown(w)
           \/ Dispatch(w)
           \/ Ack(w)
           \/ Crash(w)
    PROVE  IInv'
  <1> USE DEF local, history
  <1>0. TypeOK /\ PhaseOK /\ SavedOK
    BY DEF IInv
  <1>2. CASE \E m \in IngestMessage : StartIngestion(w, m)
    <2>1. PICK m \in IngestMessage : StartIngestion(w, m)
      BY <1>2
    <2>2. /\ phase[w] = "idle" /\ phase' = [phase EXCEPT ![w] = "fetch"]
          /\ message' = [message EXCEPT ![w] = m]
          /\ UNCHANGED <<rows, ledger, session, saved>>
          /\ session[w] = EmptySession
      BY <1>0, <2>1 DEF StartIngestion, Receive, PhaseOK
    <2>3. m \notin EnrichMessage
      BY DEF IngestMessage, EnrichMessage
    <2>4. \A n \in EnrichMessage : broker'[n] > 0 => broker[n] > 0
      BY <1>0, <2>1, <2>3 DEF StartIngestion, Receive, TypeOK, Message
    <2>5. EnrichmentTargetsExist'
      BY <1>0, <2>2, <2>3, <2>4, TargetsStep DEF TypeOK
    <2>6. PhaseOK' /\ SavedOK'
      BY <1>0, <2>2 DEF PhaseOK, SavedOK, TypeOK, EmptySession
    <2>7. /\ LedgerOK' /\ NeverOverstated'
          /\ SessionsDisjoint' /\ SessionsEarned' /\ LookupLoaded'
      BY <1>0, <2>2, QuietStep DEF TypeOK
    <2> QED
      BY <2>5, <2>6, <2>7 DEF IInv
  <1>3. CASE \E items \in FeedBodies : BeginUpsert(w, items)
    <2>2. /\ phase[w] = "fetch" /\ phase' = [phase EXCEPT ![w] = "upsert"]
          /\ UNCHANGED <<rows, ledger, session, saved, message, broker>>
          /\ session[w] = EmptySession
      BY <1>0, <1>3 DEF BeginUpsert, PhaseOK
    <2>5. EnrichmentTargetsExist'
      BY <2>2, TargetsStep
    <2>6. PhaseOK' /\ SavedOK'
      BY <1>0, <2>2 DEF PhaseOK, SavedOK, TypeOK, EmptySession
    <2>7. /\ LedgerOK' /\ NeverOverstated'
          /\ SessionsDisjoint' /\ SessionsEarned' /\ LookupLoaded'
      BY <1>0, <2>2, QuietStep DEF TypeOK
    <2> QED
      BY <2>5, <2>6, <2>7 DEF IInv
  <1>4. CASE SkipUnknown(w)
    <2>2. UNCHANGED <<rows, ledger, session, phase, message, saved, broker>>
      BY <1>4 DEF SkipUnknown
    <2>6. PhaseOK' /\ SavedOK'
      BY <1>0, <2>2 DEF PhaseOK, SavedOK
    <2> QED
      BY <2>2, <2>6, QuietStep, TargetsStep DEF IInv
  <1>5. CASE Dispatch(w)
    <2>1. saved[w] # <<>> /\ saved[w] \in Seq(RowIds)
      BY <1>0, <1>5 DEF Dispatch, PhaseOK, TypeOK
    <2>2. /\ phase[w] = "dispatch"
          /\ phase' = [phase EXCEPT ![w] = IF Tail(saved[w]) = <<>> THEN "ack"
                                           ELSE "dispatch"]
          /\ saved' = [saved EXCEPT ![w] = Tail(@)]
          /\ UNCHANGED <<rows, ledger, session, message>>
          /\ session[w] = EmptySession
          /\ message[w] \in IngestMessage
      BY <1>0, <1>5 DEF Dispatch, PhaseOK
    <2>3. /\ Head(saved[w]) \in RowIds /\ rows[Head(saved[w])] # NoRow
          /\ EnrichTask(Head(saved[w]), 0) \in EnrichMessage
          /\ EnrichTask(Head(saved[w]), 0).target = Head(saved[w])
      <3>1. 1 \in DOMAIN saved[w] /\ Head(saved[w]) = saved[w][1]
        BY <2>1
      <3>2. Head(saved[w]) \in RowIds /\ rows[Head(saved[w])] # NoRow
        BY <1>0, <2>1, <2>2, <3>1 DEF SavedOK
      <3> QED
        BY <3>2, PlatformAssumption DEF EnrichTask, EnrichMessage
    <2>4. \A n \in EnrichMessage :
             broker'[n] > 0 => broker[n] > 0 \/ rows[n.target] # NoRow
      <3>1. EnrichTask(Head(saved[w]), 0) \in Message
        BY <2>3 DEF Message
      <3> QED
        BY <1>0, <1>5, <2>3, <3>1, SentCounts DEF Dispatch, TypeOK, Message
    <2>5. EnrichmentTargetsExist'
      BY <2>2, <2>4, TargetsStep
    <2>6. PhaseOK'
      BY <1>0, <2>2 DEF PhaseOK, TypeOK, EmptySession, Message
    <2>7. SavedOK'
      <3>1. ASSUME NEW v \in Workers, NEW k \in DOMAIN saved'[v]
            PROVE  \/ phase'[v] = "upsert" /\ session'[v][saved'[v][k]] # NotLoaded
                   \/ phase'[v] = "dispatch" /\ rows'[saved'[v][k]] # NoRow
        <4>1. CASE v # w
          BY <1>0, <2>2, <3>1, <4>1 DEF SavedOK, TypeOK
        <4>2. CASE v = w
          <5>1. saved'[w] = Tail(saved[w]) /\ Tail(saved[w]) # <<>>
            BY <1>0, <2>1, <2>2, <3>1, <4>2 DEF TypeOK
          <5>2. k + 1 \in DOMAIN saved[w] /\ saved'[w][k] = saved[w][k + 1]
            BY <2>1, <3>1, <4>2, <5>1
          <5> QED
            BY <1>0, <2>2, <4>2, <5>1, <5>2 DEF SavedOK, TypeOK
        <4> QED
          BY <4>1, <4>2
      <3> QED
        BY <3>1 DEF SavedOK
    <2>8. /\ LedgerOK' /\ NeverOverstated'
          /\ SessionsDisjoint' /\ SessionsEarned' /\ LookupLoaded'
      BY <1>0, <2>2, QuietStep DEF TypeOK
    <2> QED
      BY <2>5, <2>6, <2>7, <2>8 DEF IInv
  <1>6. CASE Ack(w)
    <2>2. /\ phase[w] = "ack" /\ phase' = [phase EXCEPT ![w] = "idle"]
          /\ message' = [message EXCEPT ![w] = NoMessage]
          /\ UNCHANGED <<rows, ledger, session, saved, broker>>
          /\ session[w] = EmptySession
      BY <1>0, <1>6 DEF Ack, PhaseOK
    <2>5. EnrichmentTargetsExist'
      BY <1>0, <2>2, TargetsStep, MarkersApart DEF TypeOK, Message
    <2>6. PhaseOK' /\ SavedOK'
      BY <1>0, <2>2 DEF PhaseOK, SavedOK, TypeOK, EmptySession
    <2>7. /\ LedgerOK' /\ NeverOverstated'
          /\ SessionsDisjoint' /\ SessionsEarned' /\ LookupLoaded'
      BY <1>0, <2>2, QuietStep DEF TypeOK
    <2> QED
      BY <2>5, <2>6, <2>7 DEF IInv
  <1>7. CASE Crash(w)
    <2>1. message[w] \in Message
      BY <1>0, <1>7 DEF Crash, PhaseOK, Message, TypeOK, Phases
    <2>2. /\ phase' = [phase EXCEPT ![w] = "idle"]
          /\ message' = [message EXCEPT ![w] = NoMessage]
          /\ session' = [session EXCEPT ![w] = EmptySession]
          /\ saved' = [saved EXCEPT ![w] = <<>>]
          /\ broker' = Sent(message[w])
          /\ UNCHANGED <<rows, ledger>>
      BY <1>7 DEF Crash
    <2>3. \A n \in EnrichMessage :
             broker'[n] > 0 => broker[n] > 0 \/ rows[n.target] # NoRow
      BY <1>0, <2>1, <2>2, SentCounts, TargetsByMessage
      DEF IInv, TypeOK, Message
    <2>5. EnrichmentTargetsExist'
      BY <1>0, <2>2, <2>3, TargetsStep, MarkersApart DEF TypeOK, Message
    <2>6. PhaseOK' /\ SavedOK'
      BY <1>0, <2>2 DEF PhaseOK, SavedOK, TypeOK, EmptySession
    <2>7. /\ LedgerOK' /\ NeverOverstated'
          /\ SessionsDisjoint' /\ SessionsEarned' /\ LookupLoaded'
      BY <1>0, <2>2, QuietStep DEF TypeOK
    <2> QED
      BY <2>5, <2>6, <2>7 DEF IInv
  <1> QED
    BY <1>2, <1>3, <1>4, <1>5, <1>6, <1>7

\* The actions that fill a session: what they load is a committed row, what
\* they create has an identifier of its own.
LEMMA SessionSteps ==
    ASSUME IInv, TypeOK', NEW w \in Workers,
           \/ \E id \in RowIds : UpsertExisting(w, id) \/ UpsertNew(w, id)
           \/ \E m \in EnrichMessage : StartEnrichment(w, m)
    PROVE  IInv'
  <1> USE DEF local, history
  <1>0. TypeOK /\ PhaseOK /\ SavedOK /\ LookupLoaded /\ LedgerOK
        /\ NeverOverstated /\ SessionsDisjoint /\ SessionsEarned
    BY DEF IInv
  <1>1. ASSUME NEW id \in RowIds, UpsertExisting(w, id) PROVE IInv'
    <2> DEFINE old == Loaded(w, id)
               new == session'[w][id]
    <2>1. /\ phase[w] = "upsert" /\ rows[id] \in Row
          /\ UNCHANGED <<rows, ledger, phase, message, broker>>
          /\ saved' = [saved EXCEPT ![w] = Append(@, id)]
          /\ session' = [session EXCEPT ![w][id] =
                [base |-> old.base,
                 object |-> Sighted(old.object, SourceName(w), now[w]),
                 hits |-> old.hits + 1]]
      BY <1>0, <1>1 DEF UpsertExisting, Upserting, Matches, TypeOK
    <2>2. /\ new = [base |-> old.base,
                    object |-> Sighted(old.object, SourceName(w), now[w]),
                    hits |-> old.hits + 1]
          /\ \A v \in Workers, j \in RowIds :
                v # w \/ j # id => session'[v][j] = session[v][j]
      BY <1>0, <2>1 DEF TypeOK
    <2>3. rows[id] # NoRow
      BY <2>1, MarkersApart
    <2>4. old \in Entry /\ old.base # NoRow
      <3>1. CASE session[w][id] = NotLoaded
        BY <2>1, <2>3, <3>1 DEF Loaded, Entry
      <3>2. CASE session[w][id] # NotLoaded
        BY <1>0, <2>3, <3>2, EntryType DEF Loaded, SessionsDisjoint
      <3> QED
        BY <3>1, <3>2
    <2>5. /\ old.base.confidence <= ledger[id].earned
          /\ old.object.confidence <= old.base.confidence + 5 * old.hits
          /\ ledger[id].reporter \in old.object.sources
          /\ old.object.enrichment = old.base.enrichment
          /\ old.object.sources \subseteq ledger[id].reported \cup {SourceName(w)}
      <3>1. CASE session[w][id] = NotLoaded
        <4>1. old.base = rows[id] /\ old.object = rows[id] /\ old.hits = 0
          BY <3>1 DEF Loaded
        <4> QED
          BY <1>0, <2>1, <2>3, <4>1 DEF NeverOverstated, Committed, Row
      <3>2. CASE session[w][id] # NotLoaded
        BY <1>0, <2>1, <2>4, <3>2
        DEF Loaded, SessionsEarned, LoadedEarned
      <3> QED
        BY <3>1, <3>2
    <2>6. /\ new.base = old.base /\ new \in Entry
          /\ new.base.confidence <= ledger[id].earned
          /\ new.object.confidence <= new.base.confidence + 5 * new.hits
          /\ ledger[id].reporter \in new.object.sources
          /\ new.object.enrichment = new.base.enrichment
          /\ new.object.sources \subseteq ledger[id].reported \cup {SourceName(w)}
      <3>1. /\ old.object \in Row /\ old.hits \in Nat /\ old.base \in Row
            /\ SourceName(w) \in Sources /\ now[w] \in Nat
        BY <1>0, <2>1, <2>4, UpsertSource DEF Entry, TypeOK
      <3>2. /\ new.object.confidence <= old.object.confidence + 5
            /\ new.object.sources = old.object.sources \cup {SourceName(w)}
            /\ new.object.enrichment = old.object.enrichment
            /\ new.object \in Row
        <4>1. new.object = Sighted(old.object, SourceName(w), now[w])
          BY <2>2
        <4> HIDE DEF old, new
        <4> QED
          BY <3>1, <4>1, SightedType
      <3>3. /\ old.object.confidence \in Int /\ old.base.confidence \in Int
            /\ new.object.confidence \in Int
        BY <3>1, <3>2 DEF Row
      <3>4. new.base = old.base /\ new.hits = old.hits + 1
        BY <2>2
      <3>5. new.object.confidence <= old.base.confidence + 5 * (old.hits + 1)
        <4> HIDE DEF old, new
        <4> QED
          BY <2>5, <3>1, <3>2, <3>3
      <3>6. new \in Entry
        BY <2>2, <2>4, <3>1, <3>2 DEF Entry
      <3> QED
        BY <2>5, <3>1, <3>2, <3>4, <3>5, <3>6
    <2>7. SessionsDisjoint'
      BY <1>0, <2>1, <2>2, <2>3, <2>4, <2>6 DEF SessionsDisjoint
    <2>8. SessionsEarned'
      <3>1. ASSUME NEW v \in Workers, NEW j \in RowIds,
                   session'[v][j] # NotLoaded
            PROVE  IF session'[v][j].base # NoRow THEN LoadedEarned(v, j)'
                   ELSE phase'[v] = "upsert" /\ NewEarned(v, j)'
        <4>1. CASE v = w /\ j = id
          BY <2>1, <2>4, <2>6, <4>1 DEF LoadedEarned, SourceName
        <4>2. CASE v # w \/ j # id
          BY <1>0, <2>1, <2>2, <3>1, <4>2
          DEF SessionsEarned, LoadedEarned, NewEarned, SourceName
        <4> QED
          BY <4>1, <4>2
      <3> QED
        BY <3>1 DEF SessionsEarned
    <2>9. SavedOK'
      <3>1. ASSUME NEW v \in Workers, NEW k \in DOMAIN saved'[v]
            PROVE  \/ phase'[v] = "upsert" /\ session'[v][saved'[v][k]] # NotLoaded
                   \/ phase'[v] = "dispatch" /\ rows'[saved'[v][k]] # NoRow
        <4>1. new # NotLoaded
          BY <2>6, MarkersApart
        <4>2. CASE v # w
          BY <1>0, <2>1, <2>2, <3>1, <4>2 DEF SavedOK, TypeOK
        <4>3. CASE v = w /\ k \in DOMAIN saved[w]
          BY <1>0, <2>1, <2>2, <3>1, <4>1, <4>3 DEF SavedOK, TypeOK
        <4>4. CASE v = w /\ k \notin DOMAIN saved[w]
          <5>1. saved'[w][k] = id
            BY <1>0, <2>1, <3>1, <4>4 DEF TypeOK
          <5> QED
            BY <2>1, <4>1, <4>4, <5>1
        <4> QED
          BY <4>2, <4>3, <4>4
      <3> QED
        BY <3>1 DEF SavedOK
    <2>10. EnrichmentTargetsExist'
      BY <2>1, TargetsStep
    <2>11. PhaseOK' /\ LookupLoaded' /\ LedgerOK' /\ NeverOverstated'
      <3>1. PhaseOK'
        BY <1>0, <2>1, <2>2 DEF PhaseOK, TypeOK
      <3>2. LookupLoaded'
        BY <1>0, <2>1, <2>2 DEF LookupLoaded, TypeOK
      <3>3. LedgerOK' /\ NeverOverstated'
        BY <1>0, <2>1 DEF LedgerOK, NeverOverstated, Committed
      <3> QED
        BY <3>1, <3>2, <3>3
    <2> QED
      BY <2>7, <2>8, <2>9, <2>10, <2>11 DEF IInv
  <1>2. ASSUME NEW id \in RowIds, UpsertNew(w, id) PROVE IInv'
    <2> DEFINE new == session'[w][id]
               object == Created(Head(todo[w]), SourceName(w), now[w])
    <2>1. /\ phase[w] = "upsert"
          /\ rows[id] = NoRow /\ \A v \in Workers : session[v][id] = NotLoaded
          /\ UNCHANGED <<rows, ledger, phase, message, broker>>
          /\ saved' = [saved EXCEPT ![w] = Append(@, id)]
          /\ session' = [session EXCEPT ![w][id] =
                [base |-> NoRow, object |-> object, hits |-> 0]]
      BY <1>2 DEF UpsertNew, Upserting, Fresh
    <2>2. /\ new = [base |-> NoRow, object |-> object, hits |-> 0]
          /\ \A v \in Workers, j \in RowIds :
                v # w \/ j # id => session'[v][j] = session[v][j]
      BY <1>0, <2>1 DEF TypeOK
    <2>3. object \in Row /\ object.sources = {SourceName(w)}
      <3>1. /\ Head(todo[w]) \in Item /\ Head(todo[w]).ioc \in Iocs
            /\ now[w] \in Nat /\ SourceName(w) \in Sources
        BY <1>0, <1>2, <2>1, UpsertSource
        DEF UpsertNew, Upserting, IsNew, TypeOK
      <3> QED
        BY <3>1, CreatedType
    <2>4. new \in Entry /\ new # NotLoaded
      BY <2>2, <2>3, MarkersApart DEF Entry
    <2>5. new.base = NoRow /\ new.object = object
      BY <2>2
    <2>6. SessionsDisjoint'
      BY <1>0, <2>1, <2>2, <2>5 DEF SessionsDisjoint
    <2>7. SessionsEarned'
      <3>1. ASSUME NEW v \in Workers, NEW j \in RowIds,
                   session'[v][j] # NotLoaded
            PROVE  IF session'[v][j].base # NoRow THEN LoadedEarned(v, j)'
                   ELSE phase'[v] = "upsert" /\ NewEarned(v, j)'
        <4>1. CASE v = w /\ j = id
          BY <2>1, <2>3, <2>5, <4>1 DEF NewEarned, SourceName
        <4>2. CASE v # w \/ j # id
          BY <1>0, <2>1, <2>2, <3>1, <4>2
          DEF SessionsEarned, LoadedEarned, NewEarned, SourceName
        <4> QED
          BY <4>1, <4>2
      <3> QED
        BY <3>1 DEF SessionsEarned
    <2>8. SavedOK'
      <3>1. ASSUME NEW v \in Workers, NEW k \in DOMAIN saved'[v]
            PROVE  \/ phase'[v] = "upsert" /\ session'[v][saved'[v][k]] # NotLoaded
                   \/ phase'[v] = "dispatch" /\ rows'[saved'[v][k]] # NoRow
        <4>1. CASE v # w
          BY <1>0, <2>1, <2>2, <3>1, <4>1 DEF SavedOK, TypeOK
        <4>2. CASE v = w /\ k \in DOMAIN saved[w]
          BY <1>0, <2>1, <2>2, <2>4, <3>1, <4>2 DEF SavedOK, TypeOK
        <4>3. CASE v = w /\ k \notin DOMAIN saved[w]
          <5>1. saved'[w][k] = id
            BY <1>0, <2>1, <3>1, <4>3 DEF TypeOK
          <5> QED
            BY <2>1, <2>4, <4>3, <5>1
        <4> QED
          BY <4>1, <4>2, <4>3
      <3> QED
        BY <3>1 DEF SavedOK
    <2>9. PhaseOK'
      BY <1>0, <2>1, <2>2 DEF PhaseOK, TypeOK
    <2>10. LookupLoaded'
      BY <1>0, <2>1, <2>2 DEF LookupLoaded, TypeOK
    <2>11. LedgerOK' /\ NeverOverstated' /\ EnrichmentTargetsExist'
      BY <1>0, <2>1, TargetsStep DEF LedgerOK, NeverOverstated, Committed
    <2> QED
      BY <2>6, <2>7, <2>8, <2>9, <2>10, <2>11 DEF IInv
  <1>3. ASSUME NEW m \in EnrichMessage, StartEnrichment(w, m) PROVE IInv'
    <2> DEFINE id == m.target
               row == rows[id]
    <2>1. /\ m \in Message /\ id \in RowIds /\ phase[w] = "idle"
          /\ broker[m] > 0 /\ broker' = [broker EXCEPT ![m] = @ - 1]
          /\ message' = [message EXCEPT ![w] = m]
          /\ UNCHANGED <<rows, ledger, saved>>
          /\ session[w] = EmptySession
      BY <1>0, <1>3
      DEF StartEnrichment, Receive, Message, EnrichMessage, PhaseOK
    <2>2. row # NoRow /\ row \in Row
      BY <1>0, <2>1, TargetsByMessage DEF IInv, TypeOK
    <2>3. /\ phase' = [phase EXCEPT ![w] = "lookup"]
          /\ session' = [session EXCEPT ![w][id] =
                            [base |-> row, object |-> row, hits |-> 0]]
      BY <1>3, <2>2 DEF StartEnrichment
    <2>4. /\ phase'[w] = "lookup" /\ message'[w] = m
          /\ session'[w][id] = [base |-> row, object |-> row, hits |-> 0]
          /\ \A j \in RowIds \ {id} : session'[w][j] = NotLoaded
          /\ \A v \in Workers \ {w} : /\ session'[v] = session[v]
                                      /\ phase'[v] = phase[v]
                                      /\ message'[v] = message[v]
      BY <1>0, <2>1, <2>3 DEF TypeOK, EmptySession
    <2>5. /\ session'[w][id] \in Entry /\ session'[w][id] # NotLoaded
          /\ session'[w][id].base = row /\ session'[w][id].object = row
          /\ session'[w][id].hits = 0
      BY <2>2, <2>4, MarkersApart DEF Entry
    <2>6. SessionsDisjoint'
      BY <1>0, <2>1, <2>2, <2>4, <2>5 DEF SessionsDisjoint
    <2>7. SessionsEarned'
      <3>1. ASSUME NEW v \in Workers, NEW j \in RowIds,
                   session'[v][j] # NotLoaded
            PROVE  IF session'[v][j].base # NoRow THEN LoadedEarned(v, j)'
                   ELSE phase'[v] = "upsert" /\ NewEarned(v, j)'
        <4>1. CASE v = w
          <5>1. j = id
            BY <2>4, <3>1, <4>1
          <5>2. /\ row.confidence <= ledger[id].earned
                /\ ledger[id].reporter \in row.sources
                /\ row.confidence \in Int
            BY <1>0, <2>1, <2>2 DEF NeverOverstated, Committed, Row
          <5> QED
            BY <2>1, <2>2, <2>4, <2>5, <4>1, <5>1, <5>2 DEF LoadedEarned
        <4>2. CASE v # w
          BY <1>0, <2>1, <2>4, <3>1, <4>2
          DEF SessionsEarned, LoadedEarned, NewEarned, SourceName
        <4> QED
          BY <4>1, <4>2
      <3> QED
        BY <3>1 DEF SessionsEarned
    <2>8. LookupLoaded'
      BY <1>0, <2>2, <2>4, <2>5 DEF LookupLoaded
    <2>9. PhaseOK'
      <3>1. ASSUME NEW v \in Workers, v # w
            PROVE  /\ phase'[v] = phase[v] /\ message'[v] = message[v]
                   /\ session'[v] = session[v] /\ saved'[v] = saved[v]
        BY <2>1, <2>4, <3>1
      <3> QED
        BY <1>0, <2>4, <3>1 DEF PhaseOK, EmptySession
    <2>10. SavedOK'
      <3>1. ASSUME NEW v \in Workers, NEW k \in DOMAIN saved[v]
            PROVE  v # w
        BY <1>0, <2>1, <3>1 DEF SavedOK
      <3> QED
        BY <1>0, <2>1, <2>4, <3>1 DEF SavedOK
    <2>11. LedgerOK' /\ NeverOverstated'
      BY <1>0, <2>1 DEF LedgerOK, NeverOverstated, Committed
    <2>12. EnrichmentTargetsExist'
      <3>1. \A n \in EnrichMessage : broker'[n] > 0 => broker[n] > 0
        BY <1>0, <2>1 DEF TypeOK, Message
      <3> QED
        BY <2>1, <2>2, <2>4, <3>1, TargetsStep
    <2> QED
      BY <2>6, <2>7, <2>8, <2>9, <2>10, <2>11, <2>12 DEF IInv
  <1> QED
    BY <1>1, <1>2, <1>3

\* The commit of an upsert: every row of the session becomes, or stays, what
\* its ledger allows, and the sessions of the others lose nothing by it.
LEMMA CommitUpsertStep ==
    ASSUME IInv, TypeOK', NEW w \in Workers, NEW rescored \in BOOLEAN,
           CommitUpsert(w, rescored)
    PROVE  /\ IInv'
           /\ \A id \in RowIds : rows[id] # NoRow
                => rows'[id].enrichment = rows[id].enrichment
  <1> USE DEF local, history
  <1>0. TypeOK /\ PhaseOK /\ SavedOK /\ LookupLoaded /\ LedgerOK
        /\ NeverOverstated /\ SessionsDisjoint /\ SessionsEarned
    BY DEF IInv
  <1>1. /\ phase[w] = "upsert"
        /\ \A id \in RowIds :
              /\ rows'[id] = Flushed(rows[id], session[w][id], rescored)
              /\ ledger'[id] = Recorded(ledger[id], session[w][id], SourceName(w))
        /\ UNCHANGED <<broker, message, saved>>
    BY DEF CommitUpsert
  <1>2. /\ phase'[w] = IF saved[w] = <<>> THEN "ack" ELSE "dispatch"
        /\ session'[w] = EmptySession
        /\ \A v \in Workers : v # w => /\ session'[v] = session[v]
                                       /\ phase'[v] = phase[v]
    BY <1>0 DEF CommitUpsert, TypeOK
  <1>3. ASSUME NEW id \in RowIds
        PROVE  /\ rows'[id] = NoRow <=> ledger'[id] = NoRow
               /\ session[w][id] = NotLoaded
                    => rows'[id] = rows[id] /\ ledger'[id] = ledger[id]
               /\ session[w][id] # NotLoaded => rows'[id] # NoRow
               /\ rows[id] # NoRow
                    => /\ rows'[id] # NoRow
                       /\ rows'[id].enrichment = rows[id].enrichment
                       /\ ledger'[id].earned >= ledger[id].earned
                       /\ ledger'[id].reporter = ledger[id].reporter
                       /\ ledger[id].reported \subseteq ledger'[id].reported
               /\ rows'[id] # NoRow
                    => /\ rows'[id].confidence <= ledger'[id].earned
                       /\ ledger'[id].reporter \in rows'[id].sources
                       /\ rows'[id].sources \subseteq ledger'[id].reported
    BY <1>1, CommittedRow
  <1>4. LedgerOK' /\ NeverOverstated'
    BY <1>3 DEF LedgerOK, NeverOverstated, Committed
  <1>5. SessionsDisjoint'
    <2>1. ASSUME NEW v \in Workers, NEW id \in RowIds,
                 session'[v][id] # NotLoaded
          PROVE  IF session'[v][id].base # NoRow THEN rows'[id] # NoRow
                 ELSE /\ rows'[id] = NoRow
                      /\ \A u \in Workers \ {v} : session'[u][id] = NotLoaded
      <3>1. v # w /\ session'[v] = session[v]
        BY <1>2, <2>1 DEF EmptySession
      <3>2. CASE session[v][id].base # NoRow
        BY <1>0, <1>3, <2>1, <3>1, <3>2 DEF SessionsDisjoint
      <3>3. CASE session[v][id].base = NoRow
        <4>1. rows[id] = NoRow
              /\ \A u \in Workers \ {v} : session[u][id] = NotLoaded
          BY <1>0, <2>1, <3>1, <3>3 DEF SessionsDisjoint
        <4>2. rows'[id] = NoRow
          BY <1>3, <3>1, <4>1
        <4> QED
          BY <1>2, <3>1, <3>3, <4>1, <4>2 DEF EmptySession
      <3> QED
        BY <3>2, <3>3
    <2> QED
      BY <2>1 DEF SessionsDisjoint
  <1>6. SessionsEarned'
    <2>1. ASSUME NEW v \in Workers, NEW id \in RowIds,
                 session'[v][id] # NotLoaded
          PROVE  IF session'[v][id].base # NoRow THEN LoadedEarned(v, id)'
                 ELSE phase'[v] = "upsert" /\ NewEarned(v, id)'
      <3>1. /\ v # w /\ session'[v] = session[v] /\ phase'[v] = phase[v]
            /\ message'[v] = message[v]
        BY <1>1, <1>2, <2>1 DEF EmptySession
      <3>2. CASE session[v][id].base # NoRow
        <4>1. LoadedEarned(v, id)
          BY <1>0, <2>1, <3>1, <3>2 DEF SessionsEarned
        <4>2. /\ rows[id] # NoRow /\ rows'[id] # NoRow
              /\ ledger'[id].earned >= ledger[id].earned
              /\ ledger'[id].reporter = ledger[id].reporter
              /\ ledger[id].reported \subseteq ledger'[id].reported
          BY <1>0, <1>3, <2>1, <3>1, <3>2 DEF SessionsDisjoint
        <4>3. /\ ledger[id].earned \in Int /\ ledger'[id].earned \in Int
              /\ session[v][id].base.confidence \in Int
          <5>1. ledger[id] \in Ledger /\ ledger'[id] \in Ledger
            BY <1>0, <1>3, <4>2 DEF LedgerOK, TypeOK
          <5>2. session[v][id].base \in Row
            BY <1>0, <2>1, <3>1, <3>2, EntryType DEF Entry
          <5> QED
            BY <5>1, <5>2 DEF Ledger, Row
        <4> QED
          BY <3>1, <3>2, <4>1, <4>2, <4>3 DEF LoadedEarned, SourceName
      <3>3. CASE session[v][id].base = NoRow
        BY <1>0, <2>1, <3>1, <3>3 DEF SessionsEarned, NewEarned, SourceName
      <3> QED
        BY <3>2, <3>3
    <2> QED
      BY <2>1 DEF SessionsEarned
  <1>7. SavedOK'
    <2>1. ASSUME NEW v \in Workers, NEW k \in DOMAIN saved[v]
          PROVE  \/ phase'[v] = "upsert" /\ session'[v][saved[v][k]] # NotLoaded
                 \/ phase'[v] = "dispatch" /\ rows'[saved[v][k]] # NoRow
      <3>1. saved[v][k] \in RowIds /\ saved[v] # <<>>
        BY <1>0, <2>1 DEF TypeOK
      <3>2. CASE v = w
        BY <1>0, <1>1, <1>2, <1>3, <2>1, <3>1, <3>2 DEF SavedOK
      <3>3. CASE v # w
        BY <1>0, <1>2, <1>3, <2>1, <3>1, <3>3 DEF SavedOK
      <3> QED
        BY <3>2, <3>3
    <2> QED
      BY <1>1, <2>1 DEF SavedOK
  <1>8. PhaseOK'
    <2>1. message[w] \in IngestMessage
      BY <1>0, <1>1 DEF PhaseOK
    <2>2. ASSUME NEW v \in Workers, v # w
          PROVE  /\ phase'[v] = phase[v] /\ message'[v] = message[v]
                 /\ session'[v] = session[v] /\ saved'[v] = saved[v]
      BY <1>1, <1>2, <2>2
    <2>3. /\ message'[w] \in IngestMessage /\ message'[w] \in Message
          /\ saved'[w] = saved[w]
      BY <1>1, <2>1 DEF Message
    <2> QED
      BY <1>0, <1>2, <2>2, <2>3 DEF PhaseOK, EmptySession
  <1>9. LookupLoaded'
    BY <1>0, <1>1, <1>2 DEF LookupLoaded
  <1>10. EnrichmentTargetsExist'
    BY <1>1, <1>3, TargetsStep
  <1> QED
    BY <1>3, <1>4, <1>5, <1>6, <1>7, <1>8, <1>9, <1>10 DEF IInv

\* The commit of an enrichment: it writes the enrichment and the score only,
\* because the object it read is unchanged otherwise.
LEMMA CommitEnrichmentStep ==
    ASSUME IInv, TypeOK', NEW w \in Workers, NEW vt \in VtResults,
           NEW sh \in Results, NEW rescored \in BOOLEAN,
           CommitEnrichment(w, vt, sh, rescored)
    PROVE  /\ IInv'
           /\ \A id \in RowIds : rows[id] # NoRow
                => /\ rows'[id].confidence = rows[id].confidence
                   /\ rows'[id].last = rows[id].last
                   /\ rows'[id].sources = rows[id].sources
  <1> USE DEF local, history
  <1> DEFINE id == message[w].target
             entry == session[w][id]
             object == Enriched(entry.object, vt, sh)
             row == Updated(rows[id], entry.base, object, rescored)
  <1>0. TypeOK /\ PhaseOK /\ SavedOK /\ LookupLoaded /\ LedgerOK
        /\ NeverOverstated /\ SessionsDisjoint /\ SessionsEarned
    BY DEF IInv
  <1>1. /\ phase[w] = "lookup" /\ rows' = [rows EXCEPT ![id] = row]
        /\ Over(w) /\ UNCHANGED <<broker, ledger>>
    BY DEF CommitEnrichment
  <1>2. message[w] \in EnrichMessage /\ message[w] \in Message /\ id \in RowIds
    BY <1>0, <1>1 DEF PhaseOK, EnrichMessage, Message
  <1>3. /\ entry # NotLoaded /\ entry.base # NoRow /\ rows[id] # NoRow
        /\ entry.object = entry.base
    BY <1>0, <1>1, <1>2
    DEF LookupLoaded, SessionsDisjoint, SessionsEarned, LoadedEarned
  <1>4. rows[id] \in Row /\ entry.base \in Row /\ entry.object \in Row
    BY <1>0, <1>2, <1>3, EntryType DEF TypeOK, Entry
  <1>5. /\ row \in Row /\ row # NoRow
        /\ row.confidence = rows[id].confidence
        /\ row.last = rows[id].last
        /\ row.sources = rows[id].sources
    <2>1. /\ object \in Row /\ object.confidence = entry.base.confidence
          /\ object.last = entry.base.last
          /\ object.sources = entry.base.sources
      <3>1. vt \in Results
        BY DEF VtResults
      <3> HIDE DEF entry, id, row
      <3>2. /\ object \in Row /\ object.confidence = entry.object.confidence
            /\ object.last = entry.object.last
            /\ object.sources = entry.object.sources
        BY <1>4, <3>1, EnrichedType
      <3> QED
        BY <1>3, <3>2
    <2>2. row \in Row /\ row # NoRow
      <3> HIDE DEF object, entry, id
      <3> QED
        BY <1>4, <2>1, UpdatedType, MarkersApart
    <2> HIDE DEF object, entry
    <2> QED
      BY <2>1, <2>2 DEF Updated, Column
  <1>6. /\ rows'[id] = row
        /\ \A j \in RowIds : j # id => rows'[j] = rows[j]
    BY <1>0, <1>1, <1>2 DEF TypeOK
  <1> HIDE DEF row, entry
  <1>7. \A j \in RowIds : /\ rows'[j] = NoRow <=> rows[j] = NoRow
                          /\ rows[j] # NoRow
                               => /\ rows'[j].confidence = rows[j].confidence
                                  /\ rows'[j].last = rows[j].last
                                  /\ rows'[j].sources = rows[j].sources
    BY <1>3, <1>5, <1>6
  <1>8. /\ phase'[w] = "ack" /\ session'[w] = EmptySession /\ saved'[w] = <<>>
        /\ message' = message
        /\ \A v \in Workers : v # w => /\ session'[v] = session[v]
                                       /\ phase'[v] = phase[v]
                                       /\ saved'[v] = saved[v]
    BY <1>0, <1>1 DEF Over, TypeOK
  <1>9. LedgerOK' /\ NeverOverstated'
    BY <1>0, <1>1, <1>7 DEF LedgerOK, NeverOverstated, Committed
  <1>10. SessionsDisjoint'
    BY <1>0, <1>7, <1>8 DEF SessionsDisjoint, EmptySession
  <1>11. SessionsEarned'
    <2>1. ASSUME NEW v \in Workers, NEW j \in RowIds,
                 session'[v][j] # NotLoaded
          PROVE  /\ v # w /\ session'[v] = session[v] /\ phase'[v] = phase[v]
                 /\ message'[v] = message[v]
      BY <1>8, <2>1 DEF EmptySession
    <2> QED
      BY <1>0, <1>1, <2>1
      DEF SessionsEarned, LoadedEarned, NewEarned, SourceName
  <1>12. SavedOK' /\ LookupLoaded'
    <2>1. ASSUME NEW v \in Workers, NEW k \in DOMAIN saved'[v]
          PROVE  /\ v # w /\ saved'[v] = saved[v] /\ session'[v] = session[v]
                 /\ phase'[v] = phase[v] /\ saved[v][k] \in RowIds
      <3>1. v # w
        BY <1>8, <2>1
      <3> QED
        BY <1>0, <1>8, <2>1, <3>1 DEF TypeOK
    <2>2. SavedOK'
      BY <1>0, <1>7, <2>1 DEF SavedOK
    <2>3. LookupLoaded'
      BY <1>0, <1>8 DEF LookupLoaded
    <2> QED
      BY <2>2, <2>3
  <1>13. PhaseOK'
    BY <1>0, <1>2, <1>8 DEF PhaseOK
  <1>14. EnrichmentTargetsExist'
    BY <1>1, <1>7, <1>8, TargetsStep
  <1> QED
    BY <1>7, <1>9, <1>10, <1>11, <1>12, <1>13, <1>14 DEF IInv

------------------------------------------------------------------------------
(* The theorems                                                             *)

\* The invariant holds before any task has run.
LEMMA InitInv == Init => IInv
  <1> SUFFICES ASSUME Init PROVE IInv
    OBVIOUS
  <1>1. TypeOK
    BY DEF Init, TypeOK, Phases, EmptySession
  <1>2. PhaseOK /\ LedgerOK /\ SavedOK /\ LookupLoaded
    BY DEF Init, PhaseOK, LedgerOK, SavedOK, LookupLoaded
  <1>3. SessionsDisjoint /\ SessionsEarned
    BY DEF Init, EmptySession, SessionsDisjoint, SessionsEarned
  <1>4. NeverOverstated
    BY DEF Init, NeverOverstated, Committed
  <1>5. EnrichmentTargetsExist
    <2>1. /\ \A m \in EnrichMessage : broker[m] = 0
          /\ \A w \in Workers : message[w] \notin EnrichMessage
      BY MarkersApart DEF Init, Message
    <2> QED
      BY <2>1, TargetsByMessage
  <1> QED
    BY <1>1, <1>2, <1>3, <1>4, <1>5 DEF IInv

\* Every step of every worker, and of the API, preserves it.
LEMMA NextInv == IInv /\ Next => IInv'
  <1> SUFFICES ASSUME IInv, Next PROVE IInv'
    OBVIOUS
  <1> USE DEF history
  <1>0. TypeOK'
    BY StepType
  <1>1. ASSUME NEW r \in Requests, TriggerIngestion(r) PROVE IInv'
    BY <1>0, <1>1, TriggerStep
  <1>2. ASSUME NEW w \in Workers, WorkerStep(w) \/ Crash(w) PROVE IInv'
    <2>1. CASE Over(w) /\ UNCHANGED <<rows, broker, ledger>>
               /\ message[w] \in Message
      BY <1>0, <2>1, OverStep
    <2>2. CASE RetryTask(w) /\ UNCHANGED <<rows, ledger>>
               /\ message[w] \in Message
      BY <1>0, <2>2, OverStep, RetrySends DEF RetryTask
    <2>3. phase[w] \in {"fetch", "upsert", "dispatch", "lookup"}
            => message[w] \in Message
      BY DEF IInv, PhaseOK, Message
    <2>4. CASE FetchFails(w) \/ LookupRaises(w)
      BY <2>2, <2>3, <2>4 DEF FetchFails, LookupRaises
    <2>5. CASE MalformedFeed(w) \/ EmptyFeed(w) \/ UpsertFails(w)
               \/ DispatchFails(w) \/ EnrichmentFails(w)
               \/ FetchLost(w) \/ LookupLost(w)
      BY <2>1, <2>3, <2>5
      DEF MalformedFeed, EmptyFeed, UpsertFails, DispatchFails, EnrichmentFails,
          FetchLost, LookupLost, RetryRefused
    <2> QED
      BY <1>0, <1>2, <2>4, <2>5, MoveSteps, SessionSteps, CommitUpsertStep,
         CommitEnrichmentStep
      DEF WorkerStep, IngestStep, EnrichStep
  <1> QED
    BY <1>1, <1>2 DEF Next

\* The invariant reads the variables only.
LEMMA StutterInv == IInv /\ UNCHANGED vars => IInv'
  BY DEF vars, local, history, IInv, TypeOK, PhaseOK, LedgerOK,
         SessionsDisjoint, SessionsEarned, LoadedEarned, NewEarned, SourceName,
         LookupLoaded, SavedOK, EnrichmentTargetsExist, EnrichmentPending,
         NeverOverstated, Committed

\* The inductive invariant holds for every deployment: any number of worker
\* processes, requests, rows and faults.
THEOREM Invariance == Spec => []IInv
  <1>1. IInv /\ [Next]_vars => IInv'
    BY NextInv, StutterInv
  <1> QED
    BY <1>1, InitInv, PTL DEF Spec

\* The state keeps its types, whatever fails.
THEOREM TypeCorrect == Spec => []TypeOK
  <1>1. IInv => TypeOK
    BY DEF IInv
  <1> QED
    BY <1>1, Invariance, PTL

\* No enrichment task ever looks for a row that is not there.
THEOREM TargetsExist == Spec => []EnrichmentTargetsExist
  <1>1. IInv => EnrichmentTargetsExist
    BY DEF IInv
  <1> QED
    BY <1>1, Invariance, PTL

\* Lost updates, crashes and redeliveries never make a row claim more than
\* was reported of it.
THEOREM Overstated == Spec => []NeverOverstated
  <1>1. IInv => NeverOverstated
    BY DEF IInv
  <1> QED
    BY <1>1, Invariance, PTL

\* An enrichment and the sightings committed while it was looked up never
\* undo each other.
THEOREM NothingClobbered == Spec => NoClobber
  <1> DEFINE Kept == \A id \in Committed :
                        rows'[id].enrichment # rows[id].enrichment
                          => /\ rows'[id].confidence = rows[id].confidence
                             /\ rows'[id].last = rows[id].last
                             /\ rows'[id].sources = rows[id].sources
  <1>1. IInv /\ [Next]_vars => [Kept]_rows
    <2> SUFFICES ASSUME IInv, Next, rows' # rows PROVE Kept
      BY DEF vars
    <2>1. TypeOK'
      BY StepType
    <2>2. PICK w \in Workers :
             \/ \E rescored \in BOOLEAN : CommitUpsert(w, rescored)
             \/ \E vt \in VtResults, sh \in Results, rescored \in BOOLEAN :
                   CommitEnrichment(w, vt, sh, rescored)
      BY DEF Next, WorkerStep, IngestStep, EnrichStep, Crash, Ack,
         TriggerIngestion, StartIngestion, FetchFails, MalformedFeed, EmptyFeed,
         BeginUpsert, SkipUnknown, UpsertExisting, UpsertNew, UpsertFails,
         Dispatch, DispatchFails, StartEnrichment, LookupRaises,
         EnrichmentFails, FetchLost, LookupLost
    <2> QED
      BY <2>1, <2>2, CommitUpsertStep, CommitEnrichmentStep DEF Committed
  <1> QED
    BY <1>1, Invariance, PTL DEF Spec, NoClobber
------------------------------------------------------------------------------
(* What the sessions will write                                             *)

\* A feed's confidences are integers, and among those given.
LEMMA GivenType ==
    /\ Given \subseteq Int
    /\ \A items \in FeedBodies :
          \A k \in DOMAIN items : items[k].confidence \in Given
  <1>1. \A items \in FeedBodies : items \in Seq(Item)
    BY PlatformAssumption
  <1>2. \A items \in Seq(Item) : \A k \in DOMAIN items : items[k] \in Item
    OBVIOUS
  <1>3. \A item \in Item : item.confidence \in Int
    BY DEF Item
  <1> QED
    BY <1>1, <1>2, <1>3 DEF Given

\* The rest of a feed, one item shorter.
LEMMA RestOfItems ==
    ASSUME NEW items \in Seq(Item), items # <<>>
    PROVE  /\ Head(items) \in Item /\ Tail(items) \in Seq(Item)
           /\ 1 \in DOMAIN items /\ Head(items) = items[1]
           /\ Len(items) \in Nat /\ Len(Tail(items)) = Len(items) - 1
           /\ \A k \in DOMAIN Tail(items) :
                 k + 1 \in DOMAIN items /\ Tail(items)[k] = items[k + 1]
  OBVIOUS

\* A sighted object is scored by its confidence, and keeps what it was first.
LEMMA SightedScore ==
    ASSUME NEW object \in Row, NEW source, NEW time
    PROVE  /\ Sighted(object, source, time).first = object.first
           /\ Sighted(object, source, time).last = time
           /\ Sighted(object, source, time).score.confidence
                = Sighted(object, source, time).confidence
  BY DEF Sighted, Row, ScoreOf

\* An object that a step leaves in its session stays as it was kept, when
\* nothing is taken from what was reported of its row.
LEMMA EntryKept ==
    ASSUME TypeOK, TableInv, NEW v \in Workers, NEW id \in RowIds,
           session[v][id] # NotLoaded, session'[v][id] = session[v][id],
           phase'[v] = phase[v], message'[v] = message[v], now'[v] = now[v],
           session[v][id].base # NoRow =>
              \/ ledger'[id] = ledger[id]
              \/ /\ ledger[id] \in Ledger /\ ledger'[id] \in Ledger
                 /\ ledger[id].earned <= ledger'[id].earned
    PROVE  IF session'[v][id].base # NoRow THEN LoadedKept(v, id)'
           ELSE NewAsGiven(v, id)'
  <1>1. CASE session[v][id].base # NoRow
    <2>1. LoadedKept(v, id)
      BY <1>1 DEF TableInv, SessionsKept
    <2>2. /\ session[v][id].object.score.confidence \in Int
          /\ session[v][id].hits \in Nat
      BY EntryType DEF Entry, Row, Score
    <2>3. CASE ledger'[id] = ledger[id]
      BY <1>1, <2>1, <2>3 DEF LoadedKept
    <2>4. CASE /\ ledger[id] \in Ledger /\ ledger'[id] \in Ledger
               /\ ledger[id].earned <= ledger'[id].earned
      <3>1. ledger[id].earned \in Int /\ ledger'[id].earned \in Int
        BY <2>4 DEF Ledger
      <3> QED
        BY <1>1, <2>1, <2>2, <2>4, <3>1 DEF LoadedKept
    <2> QED
      BY <1>1, <2>3, <2>4
  <1>2. CASE session[v][id].base = NoRow
    <2>1. NewAsGiven(v, id)
      BY <1>2 DEF TableInv, SessionsKept
    <2>2. SourceName(v)' = SourceName(v)
      BY DEF SourceName
    <2> QED
      BY <1>2, <2>1, <2>2 DEF NewAsGiven, Given
  <1> QED
    BY <1>1, <1>2

\* A step that leaves the table alone, in which each worker keeps its session
\* or forgets it, and has no more left of its feed than it had.
LEMMA QuietTable ==
    ASSUME TypeOK, TableInv, UNCHANGED <<rows, ledger>>,
           \A v \in Workers :
              /\ FitsFeed(v)'
              /\ \/ /\ session'[v] = session[v] /\ phase'[v] = phase[v]
                    /\ message'[v] = message[v] /\ now'[v] = now[v]
                 \/ session'[v] = EmptySession
    PROVE  TableInv'
  <1>1. ScoresEarned'
    BY DEF TableInv, ScoresEarned, Committed
  <1>2. ASSUME NEW v \in Workers, NEW id \in RowIds,
               session'[v][id] # NotLoaded
        PROVE  /\ session'[v] = session[v] /\ phase'[v] = phase[v]
               /\ message'[v] = message[v] /\ now'[v] = now[v]
    BY <1>2 DEF EmptySession
  <1>3. SessionsKept'
    <2>1. ASSUME NEW v \in Workers, NEW id \in RowIds,
                 session'[v][id] # NotLoaded
          PROVE  IF session'[v][id].base # NoRow THEN LoadedKept(v, id)'
                 ELSE NewAsGiven(v, id)'
      BY <1>2, <2>1, EntryKept
    <2> QED
      BY <2>1 DEF SessionsKept
  <1>4. FeedsFit'
    BY DEF FeedsFit
  <1>5. LoadedEnriched'
    BY <1>2 DEF TableInv, LoadedEnriched
  <1> QED
    BY <1>1, <1>3, <1>4, <1>5 DEF TableInv

\* A worker that is not in an upsert has a fitting rest, if it had one or has
\* none.
LEMMA RestFits ==
    ASSUME TableInv, NEW v \in Workers, todo'[v] \in {todo[v], <<>>},
           \/ phase'[v] # "upsert"
           \/ /\ phase[v] = "upsert" /\ todo'[v] = todo[v]
              /\ session'[v] = session[v]
    PROVE  FitsFeed(v)'
  BY DEF TableInv, FeedsFit, FitsFeed, Given

\* A step of a worker that ends a task, or moves it to anything but an upsert,
\* and forgets its session.
LEMMA ForgetStep ==
    ASSUME TypeOK, TableInv, UNCHANGED <<rows, ledger>>, NEW w \in Workers,
           session'[w] = EmptySession, phase'[w] # "upsert",
           todo'[w] \in {todo[w], <<>>},
           \A v \in Workers \ {w} :
              /\ session'[v] = session[v] /\ phase'[v] = phase[v]
              /\ message'[v] = message[v] /\ now'[v] = now[v]
              /\ todo'[v] = todo[v]
    PROVE  TableInv'
  <1>1. ASSUME NEW v \in Workers PROVE FitsFeed(v)'
    <2>1. CASE v = w
      BY <2>1, RestFits
    <2>2. CASE v # w /\ phase[v] # "upsert"
      BY <2>2, RestFits
    <2>3. CASE v # w /\ phase[v] = "upsert"
      BY <2>3, RestFits
    <2> QED
      BY <2>1, <2>2, <2>3
  <1> QED
    BY <1>1, QuietTable

\* The actions that fill no session and write no row.
LEMMA TableMoves ==
    ASSUME IInv, TableInv, NEW w \in Workers,
           \/ \E m \in IngestMessage : StartIngestion(w, m)
           \/ FetchFails(w) \/ MalformedFeed(w) \/ EmptyFeed(w)
           \/ FetchLost(w) \/ LookupLost(w)
           \/ UpsertFails(w) \/ Dispatch(w) \/ DispatchFails(w)
           \/ LookupRaises(w) \/ EnrichmentFails(w)
           \/ Ack(w) \/ Crash(w)
    PROVE  TableInv'
  <1> USE DEF local, history
  <1>0. TypeOK /\ PhaseOK
    BY DEF IInv
  <1>1. CASE Over(w) /\ UNCHANGED <<rows, ledger>>
    BY <1>0, <1>1, ForgetStep DEF Over, TypeOK
  <1>2. CASE \E m \in IngestMessage : StartIngestion(w, m)
    <2>1. /\ UNCHANGED <<rows, ledger, session, now, todo>>
          /\ phase[w] = "idle" /\ phase'[w] = "fetch"
          /\ \A v \in Workers \ {w} : /\ phase'[v] = phase[v]
                                      /\ message'[v] = message[v]
      BY <1>0, <1>2 DEF StartIngestion, Receive, TypeOK
    <2> QED
      BY <1>0, <2>1, ForgetStep DEF PhaseOK
  <1>3. CASE Dispatch(w)
    <2>1. /\ UNCHANGED <<rows, ledger, session, now, todo, message>>
          /\ phase[w] = "dispatch" /\ phase'[w] \in {"ack", "dispatch"}
          /\ \A v \in Workers \ {w} : phase'[v] = phase[v]
      BY <1>0, <1>3 DEF Dispatch, TypeOK
    <2> QED
      BY <1>0, <2>1, ForgetStep DEF PhaseOK
  <1>4. CASE Ack(w)
    <2>1. /\ UNCHANGED <<rows, ledger, session, now, todo>>
          /\ phase[w] = "ack" /\ phase'[w] = "idle"
          /\ \A v \in Workers \ {w} : /\ phase'[v] = phase[v]
                                      /\ message'[v] = message[v]
      BY <1>0, <1>4 DEF Ack, TypeOK
    <2> QED
      BY <1>0, <2>1, ForgetStep DEF PhaseOK
  <1>5. CASE Crash(w)
    BY <1>0, <1>5, ForgetStep DEF Crash, TypeOK
  <1> QED
    BY <1>1, <1>2, <1>3, <1>4, <1>5
    DEF FetchFails, MalformedFeed, EmptyFeed, UpsertFails, DispatchFails,
        LookupRaises, EnrichmentFails, RetryTask, FetchLost, LookupLost,
        RetryRefused

\* A feed is what its upsert starts from.
LEMMA TableBegins ==
    ASSUME IInv, TableInv, NEW w \in Workers, NEW items \in FeedBodies,
           BeginUpsert(w, items)
    PROVE  TableInv'
  <1> USE DEF history
  <1>1. /\ TypeOK /\ session[w] = EmptySession
        /\ UNCHANGED <<rows, ledger, session, message>>
        /\ todo'[w] = items
        /\ \A v \in Workers \ {w} : /\ phase'[v] = phase[v] /\ now'[v] = now[v]
                                    /\ todo'[v] = todo[v]
    BY DEF IInv, TypeOK, PhaseOK, BeginUpsert
  <1>2. items \in Seq(Item) /\ Len(items) <= Len(items)
    <2>1. items \in Seq(Item)
      BY PlatformAssumption
    <2> QED
      BY <2>1
  <1>3. ASSUME NEW v \in Workers PROVE FitsFeed(v)'
    <2>1. CASE v = w
      BY <1>1, <1>2, <2>1, GivenType DEF FitsFeed, EmptySession, Given
    <2>2. CASE v # w
      BY <1>1, <2>2 DEF TableInv, FeedsFit, FitsFeed, Given
    <2> QED
      BY <2>1, <2>2
  <1> QED
    BY <1>1, <1>3, QuietTable
\* What fits a feed still fits it when one item has been taken off, and one
\* object has been sighted once more, is loaded and sighted, or is new.
LEMMA RestShorter ==
    ASSUME TypeOK, TableInv, NEW w \in Workers, todo[w] # <<>>,
           phase'[w] = phase[w], phase[w] = "upsert",
           todo'[w] = Tail(todo[w]),
           \A id \in RowIds :
              session'[w][id] # NotLoaded =>
                 \/ session'[w][id] = session[w][id]
                 \/ /\ session[w][id] # NotLoaded
                    /\ session'[w][id].hits = session[w][id].hits + 1
                 \/ session'[w][id].hits \in {0, 1}
    PROVE  FitsFeed(w)'
  <1>1. todo[w] \in Seq(Item)
    BY DEF TypeOK
  <1> DEFINE items == todo[w]
  <1>2. /\ Len(items) \in Nat /\ Len(Tail(items)) = Len(items) - 1
        /\ \A k \in DOMAIN Tail(items) :
              k + 1 \in DOMAIN items /\ Tail(items)[k] = items[k + 1]
    BY <1>1, RestOfItems
  <1>3. FitsFeed(w)
    BY DEF TableInv, FeedsFit
  <1>4. \A k \in DOMAIN Tail(items) : Tail(items)[k].confidence \in Given
    BY <1>2, <1>3 DEF FitsFeed
  <1>5. PICK feed \in FeedBodies :
           /\ Len(items) <= Len(feed)
           /\ \A id \in RowIds :
                 session[w][id] # NotLoaded
                   => session[w][id].hits + Len(items) <= Len(feed)
    BY <1>3 DEF FitsFeed
  <1>6. Len(feed) \in Nat
    <2>1. feed \in Seq(Item)
      BY PlatformAssumption
    <2> QED
      BY <2>1
  <1>7. \A id \in RowIds : session[w][id] # NotLoaded => session[w][id].hits \in Nat
    BY EntryType DEF Entry
  <1> HIDE DEF items
  <1>8. ASSUME NEW id \in RowIds, session'[w][id] # NotLoaded
        PROVE  session'[w][id].hits + Len(Tail(items)) <= Len(feed)
    <2>1. CASE session'[w][id] = session[w][id]
      BY <1>2, <1>5, <1>6, <1>7, <1>8, <2>1
    <2>2. CASE /\ session[w][id] # NotLoaded
               /\ session'[w][id].hits = session[w][id].hits + 1
      BY <1>2, <1>5, <1>6, <1>7, <2>2
    <2>3. CASE session'[w][id].hits \in {0, 1}
      BY <1>2, <1>5, <1>6, <2>3
    <2> QED
      BY <1>8, <2>1, <2>2, <2>3
  <1>9. Len(Tail(items)) <= Len(feed) /\ todo'[w] = Tail(items)
    BY <1>2, <1>5, <1>6 DEF items
  <1> QED
    BY <1>4, <1>8, <1>9 DEF FitsFeed, Given

\* One item less, of no type.
LEMMA TableSkips ==
    ASSUME IInv, TableInv, NEW w \in Workers, SkipUnknown(w)
    PROVE  TableInv'
  <1> USE DEF history
  <1>1. /\ TypeOK /\ phase[w] = "upsert" /\ todo[w] # <<>>
        /\ UNCHANGED <<rows, ledger, session, message, phase, now>>
        /\ todo'[w] = Tail(todo[w])
        /\ \A v \in Workers \ {w} : todo'[v] = todo[v]
    BY DEF IInv, TypeOK, SkipUnknown, Upserting
  <1>2. FitsFeed(w)'
    BY <1>1, RestShorter
  <1>3. ASSUME NEW v \in Workers PROVE FitsFeed(v)'
    BY <1>1, <1>2, <1>3 DEF TableInv, FeedsFit, FitsFeed, Given
  <1> QED
    BY <1>1, <1>3, QuietTable
\* A step within an upsert that changes one entry of the session.
LEMMA TableEntry ==
    ASSUME IInv, TypeOK', TableInv, NEW w \in Workers, NEW id \in RowIds,
           phase[w] = "upsert", todo[w] # <<>>, todo'[w] = Tail(todo[w]),
           UNCHANGED <<rows, ledger, phase, message, now>>,
           \A v \in Workers \ {w} : /\ todo'[v] = todo[v]
                                    /\ session'[v] = session[v],
           \A other \in RowIds \ {id} : session'[w][other] = session[w][other],
           IF session'[w][id].base # NoRow THEN LoadedKept(w, id)'
           ELSE NewAsGiven(w, id)',
           session'[w][id].base # NoRow =>
              \/ session'[w][id].base = rows[id]
              \/ /\ session[w][id] # NotLoaded
                 /\ session'[w][id].base = session[w][id].base,
           \/ /\ session[w][id] # NotLoaded
              /\ session'[w][id].hits = session[w][id].hits + 1
           \/ session'[w][id].hits \in {0, 1}
    PROVE  TableInv'
  <1>0. TypeOK
    BY DEF IInv
  <1>1. ScoresEarned'
    BY DEF TableInv, ScoresEarned, Committed
  <1>2. SessionsKept'
    <2>1. ASSUME NEW v \in Workers, NEW j \in RowIds,
                 session'[v][j] # NotLoaded
          PROVE  IF session'[v][j].base # NoRow THEN LoadedKept(v, j)'
                 ELSE NewAsGiven(v, j)'
      <3>1. CASE v = w /\ j = id
        BY <3>1
      <3>2. CASE v # w \/ j # id
        <4>1. session'[v][j] = session[v][j]
          BY <3>2
        <4> QED
          BY <1>0, <2>1, <4>1, EntryKept
      <3> QED
        BY <3>1, <3>2
    <2> QED
      BY <2>1 DEF SessionsKept
  <1>3. FeedsFit'
    <2>1. FitsFeed(w)'
      BY <1>0, RestShorter
    <2>2. ASSUME NEW v \in Workers, v # w PROVE FitsFeed(v)'
      BY <2>2 DEF TableInv, FeedsFit, FitsFeed, Given
    <2> QED
      BY <2>1, <2>2 DEF FeedsFit
  <1>4. LoadedEnriched'
    <2>1. ASSUME NEW v \in Workers, NEW j \in RowIds,
                 session'[v][j] # NotLoaded, session'[v][j].base # NoRow,
                 session'[v][j].base.enrichment # NotEnriched
          PROVE  rows'[j].enrichment # NotEnriched
      <3>1. CASE v = w /\ j = id /\ session'[w][id].base = rows[id]
        BY <2>1, <3>1
      <3>2. CASE /\ v = w /\ j = id /\ session[w][id] # NotLoaded
                 /\ session'[w][id].base = session[w][id].base
        BY <2>1, <3>2 DEF TableInv, LoadedEnriched
      <3>3. CASE v # w \/ j # id
        <4>1. session'[v][j] = session[v][j]
          BY <3>3
        <4> QED
          BY <2>1, <4>1 DEF TableInv, LoadedEnriched
      <3> QED
        BY <2>1, <3>1, <3>2, <3>3
    <2> QED
      BY <2>1 DEF LoadedEnriched
  <1> QED
    BY <1>1, <1>2, <1>3, <1>4 DEF TableInv

\* A sighting of a committed row (parser.py:132-157).
LEMMA TableSights ==
    ASSUME IInv, IInv', TableInv, NEW w \in Workers, NEW id \in RowIds,
           UpsertExisting(w, id)
    PROVE  TableInv'
  <1> USE DEF history
  <1> DEFINE old == Loaded(w, id)
             object == Sighted(old.object, SourceName(w), now[w])
             entry == [base |-> old.base, object |-> object, hits |-> old.hits + 1]
  <1>1. /\ TypeOK /\ TypeOK' /\ phase[w] = "upsert" /\ todo[w] # <<>>
        /\ todo'[w] = Tail(todo[w]) /\ rows[id] \in Row
        /\ UNCHANGED <<rows, ledger, phase, message, now>>
        /\ \A v \in Workers \ {w} : /\ todo'[v] = todo[v]
                                    /\ session'[v] = session[v]
        /\ \A other \in RowIds \ {id} : session'[w][other] = session[w][other]
        /\ session'[w][id] = entry
    BY DEF IInv, TypeOK, UpsertExisting, Upserting, Matches
  <1>2. rows[id] # NoRow
    BY <1>1, MarkersApart
  <1>3. /\ old \in Entry /\ old.object \in Row /\ old.hits \in Nat
        /\ old.base # NoRow /\ old.base \in Row
    <2>1. CASE session[w][id] = NotLoaded
      BY <1>1, <1>2, <2>1 DEF Loaded, Entry
    <2>2. CASE session[w][id] # NotLoaded
      <3>1. session[w][id] \in Entry /\ old = session[w][id]
        BY <1>1, <2>2, EntryType DEF Loaded
      <3>2. old.base # NoRow
        BY <1>2, <2>2, <3>1 DEF IInv, SessionsDisjoint
      <3> QED
        BY <3>1, <3>2 DEF Entry
    <2> QED
      BY <2>1, <2>2
  <1>4. \/ old.base = rows[id] /\ old.hits = 0 /\ old.object.first = old.base.first
        \/ /\ session[w][id] # NotLoaded /\ old = session[w][id]
           /\ old.object.first = old.base.first
    <2>1. CASE session[w][id] = NotLoaded
      BY <2>1 DEF Loaded
    <2>2. CASE session[w][id] # NotLoaded
      BY <1>1, <1>3, <2>2 DEF Loaded, TableInv, SessionsKept, LoadedKept
    <2> QED
      BY <2>1, <2>2
  <1>5. /\ object.first = old.object.first /\ object.last = now[w]
        /\ object.score.confidence = object.confidence /\ object \in Row
    <2>1. SourceName(w) \in Sources /\ now[w] \in Nat
      BY <1>1, UpsertSource DEF TypeOK
    <2> QED
      BY <1>3, <2>1, SightedScore, SightedType
  <1> HIDE DEF old, object
  <1>6. /\ entry.base = old.base /\ entry.object = object
        /\ entry.hits = old.hits + 1 /\ entry # NotLoaded
    <2>1. entry \in Entry
      BY <1>3, <1>5 DEF Entry
    <2> QED
      BY <2>1, MarkersApart
  <1>7. LoadedKept(w, id)'
    <2>1. LoadedEarned(w, id)'
      <3>1. SessionsEarned'
        BY DEF IInv
      <3> QED
        BY <1>1, <1>3, <1>6, <3>1 DEF SessionsEarned
    <2>2. /\ old.base.confidence <= ledger[id].earned
          /\ object.confidence <= old.base.confidence + 5 * (old.hits + 1)
      BY <1>1, <1>6, <2>1 DEF LoadedEarned
    <2>3. ledger[id] \in Ledger
      BY <1>1, <1>2 DEF IInv, LedgerOK, TypeOK
    <2>4. /\ ledger[id].earned \in Int /\ old.base.confidence \in Int
          /\ object.confidence \in Int
      BY <1>3, <1>5, <2>3 DEF Ledger, Row
    <2>5. object.score.confidence <= ledger[id].earned + 5 * (old.hits + 1)
      BY <1>3, <1>5, <2>2, <2>4
    <2>6. old.hits + 1 > 0 /\ object.first = old.base.first
      BY <1>3, <1>4, <1>5
    <2> HIDE DEF entry
    <2> QED
      BY <1>1, <1>5, <1>6, <2>5, <2>6 DEF LoadedKept
  <1>8. \/ /\ session[w][id] # NotLoaded
           /\ session'[w][id].hits = session[w][id].hits + 1
        \/ session'[w][id].hits \in {0, 1}
    BY <1>1, <1>4, <1>6
  <1> HIDE DEF entry
  <1> QED
    BY <1>1, <1>3, <1>4, <1>6, <1>7, <1>8, TableEntry

\* A new indicator (parser.py:160-197).
LEMMA TableCreates ==
    ASSUME IInv, TypeOK', TableInv, NEW w \in Workers, NEW id \in RowIds,
           UpsertNew(w, id)
    PROVE  TableInv'
  <1> USE DEF history
  <1> DEFINE item == Head(todo[w])
             object == Created(item, SourceName(w), now[w])
             entry == [base |-> NoRow, object |-> object, hits |-> 0]
  <1>1. /\ TypeOK /\ phase[w] = "upsert" /\ todo[w] # <<>>
        /\ todo[w] \in Seq(Item) /\ todo'[w] = Tail(todo[w])
        /\ UNCHANGED <<rows, ledger, phase, message, now>>
        /\ \A v \in Workers \ {w} : /\ todo'[v] = todo[v]
                                    /\ session'[v] = session[v]
        /\ \A other \in RowIds \ {id} : session'[w][other] = session[w][other]
        /\ session'[w][id] = entry
    BY DEF IInv, TypeOK, UpsertNew, Upserting
  <1>2. item.confidence \in Given
    <2>1. 1 \in DOMAIN todo[w] /\ item = todo[w][1]
      BY <1>1, RestOfItems
    <2> QED
      BY <2>1 DEF TableInv, FeedsFit, FitsFeed
  <1>3. object = Created([ioc |-> object.ioc, confidence |-> item.confidence],
                         SourceName(w), now[w])
    BY DEF Created
  <1>4. SourceName(w)' = SourceName(w)
    BY <1>1 DEF SourceName
  <1>5. /\ entry.base = NoRow /\ entry.object = object /\ entry.hits = 0
    OBVIOUS
  <1> HIDE DEF item, object, entry
  <1>6. NewAsGiven(w, id)'
    BY <1>1, <1>2, <1>3, <1>4, <1>5 DEF NewAsGiven, Given
  <1> QED
    BY <1>1, <1>5, <1>6, TableEntry

\* The row of an enrichment, as it is read (manager.py:59-63).
LEMMA TableLooks ==
    ASSUME IInv, TableInv, NEW w \in Workers, NEW m \in EnrichMessage,
           StartEnrichment(w, m)
    PROVE  TableInv'
  <1> USE DEF history
  <1> DEFINE id == m.target
             entry == [base |-> rows[id], object |-> rows[id], hits |-> 0]
  <1>1. /\ TypeOK /\ id \in RowIds /\ m \in Message
        /\ phase[w] = "idle" /\ broker[m] > 0
        /\ UNCHANGED <<rows, ledger, now, todo>>
        /\ session[w] = EmptySession
    BY DEF IInv, PhaseOK, StartEnrichment, Receive, Message, EnrichMessage
  <1>2. rows[id] # NoRow
    BY <1>1, TargetsByMessage DEF IInv
  <1>3. /\ phase'[w] = "lookup" /\ session'[w][id] = entry
        /\ \A other \in RowIds \ {id} : session'[w][other] = NotLoaded
        /\ \A v \in Workers \ {w} : /\ phase'[v] = phase[v]
                                    /\ session'[v] = session[v]
                                    /\ message'[v] = message[v]
    BY <1>1, <1>2 DEF StartEnrichment, Receive, TypeOK, EmptySession
  <1>4. ScoresEarned'
    BY <1>1 DEF TableInv, ScoresEarned, Committed
  <1>5. SessionsKept'
    <2>1. ASSUME NEW v \in Workers, NEW j \in RowIds,
                 session'[v][j] # NotLoaded
          PROVE  IF session'[v][j].base # NoRow THEN LoadedKept(v, j)'
                 ELSE NewAsGiven(v, j)'
      <3>1. CASE v = w
        <4>1. session'[v][j].base # NoRow
          BY <1>2, <1>3, <2>1, <3>1
        <4> QED
          BY <1>3, <3>1, <4>1 DEF LoadedKept
      <3>2. CASE v # w
        BY <1>1, <1>3, <2>1, <3>2, EntryKept
      <3> QED
        BY <3>1, <3>2
    <2> QED
      BY <2>1 DEF SessionsKept
  <1>6. FeedsFit'
    <2>1. ASSUME NEW v \in Workers PROVE FitsFeed(v)'
      <3>1. CASE v = w
        BY <1>1, <1>3, <3>1, RestFits
      <3>2. CASE v # w
        BY <1>1, <1>3, <3>2, RestFits
      <3> QED
        BY <3>1, <3>2
    <2> QED
      BY <2>1 DEF FeedsFit
  <1>7. LoadedEnriched'
    <2>1. ASSUME NEW v \in Workers, NEW j \in RowIds,
                 session'[v][j] # NotLoaded, session'[v][j].base # NoRow,
                 session'[v][j].base.enrichment # NotEnriched
          PROVE  rows'[j].enrichment # NotEnriched
      <3>1. CASE v = w
        BY <1>1, <1>3, <2>1, <3>1
      <3>2. CASE v # w
        BY <1>1, <1>3, <2>1, <3>2 DEF TableInv, LoadedEnriched
      <3> QED
        BY <3>1, <3>2
    <2> QED
      BY <2>1 DEF LoadedEnriched
  <1> QED
    BY <1>4, <1>5, <1>6, <1>7 DEF TableInv

\* What the commit of an upsert makes of one row of its session, seen from
\* outside: a record that is opened, or one that is reinforced.
LEMMA CommittedTable ==
    ASSUME IInv, TableInv, NEW w \in Workers, phase[w] = "upsert",
           NEW id \in RowIds, session[w][id] # NotLoaded,
           NEW rescored \in BOOLEAN,
           NEW row, row = Flushed(rows[id], session[w][id], rescored),
           NEW led, led = Recorded(ledger[id], session[w][id], SourceName(w))
    PROVE  /\ rows[id] = NoRow =>
                /\ row.confidence \in Given
                /\ row.first = now[w] /\ row.last = now[w]
                /\ row.sources = {SourceName(w)}
                /\ row.enrichment = NotEnriched
                /\ row.score = ScoreOf(row.confidence, NotEnriched)
                /\ led.earned = row.confidence
                /\ led.reporter = SourceName(w)
                /\ led.reported = {SourceName(w)}
           /\ rows[id] # NoRow =>
                /\ \E n \in UNION {DOMAIN items : items \in FeedBodies} :
                      led.earned = ledger[id].earned + 5 * n
                /\ led.reporter = ledger[id].reporter
                /\ led.reported = ledger[id].reported \cup {SourceName(w)}
                /\ row.ioc = rows[id].ioc
                /\ row.first = rows[id].first
                /\ row.enrichment = rows[id].enrichment
                /\ row.last \in {rows[id].last, now[w]}
           /\ row.score.confidence <= led.earned
  <1> DEFINE entry == session[w][id]
             source == SourceName(w)
  <1>0. /\ entry \in Entry /\ entry.object \in Row /\ entry.hits \in Nat
        /\ entry.base \in Row \cup {NoRow}
    BY EntryType DEF IInv, Entry
  <1>1. CASE entry.base = NoRow
    <2>1. rows[id] = NoRow
      BY <1>1 DEF IInv, SessionsDisjoint
    <2>2. PICK c \in Given :
             entry.object = Created([ioc |-> entry.object.ioc, confidence |-> c],
                                    source, now[w])
      BY <1>1 DEF TableInv, SessionsKept, NewAsGiven
    <2>3. /\ entry.object.confidence = c
          /\ entry.object.first = now[w] /\ entry.object.last = now[w]
          /\ entry.object.sources = {source}
          /\ entry.object.enrichment = NotEnriched
          /\ entry.object.score = ScoreOf(c, NotEnriched)
          /\ entry.object.score.confidence = c
      <3> DEFINE item == [ioc |-> entry.object.ioc, confidence |-> c]
                 new == Created(item, source, now[w])
      <3>1. /\ new.confidence = c
            /\ new.first = now[w] /\ new.last = now[w]
            /\ new.sources = {source}
            /\ new.enrichment = NotEnriched
            /\ new.score = ScoreOf(c, NotEnriched)
            /\ new.score.confidence = c
        BY DEF Created, ScoreOf
      <3> QED
        BY <2>2, <3>1
    <2>4. /\ row = entry.object
          /\ led = [earned |-> c, reporter |-> source, reported |-> {source}]
      BY <1>1, <2>3 DEF Flushed, Recorded
    <2>5. c \in Int
      BY GivenType
    <2>6. led.earned = c /\ led.reporter = source /\ led.reported = {source}
      BY <2>4
    <2>7. row.score.confidence <= led.earned
      BY <2>3, <2>4, <2>5
    <2> QED
      BY <2>1, <2>3, <2>4, <2>6, <2>7
  <1>2. CASE entry.base # NoRow
    <2> DEFINE db == rows[id]
               old == ledger[id]
    <2>1. /\ entry.base \in Row /\ db \in Row /\ old \in Ledger /\ db # NoRow
      BY <1>0, <1>2 DEF IInv, SessionsDisjoint, LedgerOK, TypeOK
    <2>2. /\ entry.object.enrichment = entry.base.enrichment
          /\ entry.object.first = entry.base.first
          /\ entry.object.last = now[w]
          /\ entry.hits > 0
          /\ entry.object.score.confidence <= old.earned + 5 * entry.hits
      BY <1>2 DEF IInv, SessionsEarned, LoadedEarned, TableInv, SessionsKept,
         LoadedKept
    <2>3. row = Updated(db, entry.base, entry.object, rescored) /\ row \in Row
      BY <1>0, <1>2, <2>1, UpdatedType DEF Flushed
    <2>4. led = [earned |-> old.earned + 5 * entry.hits,
                 reporter |-> old.reporter, reported |-> old.reported \cup {source}]
      BY <1>2 DEF Recorded
    <2>5. /\ led.earned = old.earned + 5 * entry.hits
          /\ led.reporter = old.reporter
          /\ led.reported = old.reported \cup {source}
      BY <2>4
    <2>6. /\ row.ioc = db.ioc /\ row.first = db.first
          /\ row.enrichment = db.enrichment
          /\ row.last \in {db.last, now[w]}
          /\ row.score \in {db.score, entry.object.score}
      BY <2>2, <2>3 DEF Updated, Column
    <2>7. entry.hits \in UNION {DOMAIN items : items \in FeedBodies}
      <3>1. PICK items \in FeedBodies : entry.hits + Len(todo[w]) <= Len(items)
        BY DEF TableInv, FeedsFit, FitsFeed
      <3>2. items \in Seq(Item) /\ todo[w] \in Seq(Item)
        BY PlatformAssumption DEF IInv, TypeOK
      <3>3. /\ Len(items) \in Nat /\ Len(todo[w]) \in Nat
            /\ DOMAIN items = 1..Len(items)
        BY <3>2
      <3>4. entry.hits \in DOMAIN items
        BY <1>0, <2>2, <3>1, <3>3
      <3> QED
        BY <3>4
    <2>8. row.score.confidence <= led.earned
      <3>1. /\ db.score.confidence <= old.earned
            /\ led.earned = old.earned + 5 * entry.hits
        BY <2>1, <2>4 DEF TableInv, ScoresEarned, Committed
      <3>2. /\ db.score.confidence \in Int /\ old.earned \in Int
            /\ entry.object.score.confidence \in Int
        BY <1>0, <2>1 DEF Row, Score, Ledger
      <3> QED
        BY <1>0, <2>2, <2>6, <3>1, <3>2
    <2> QED
      BY <2>1, <2>5, <2>6, <2>7, <2>8
  <1> QED
    BY <1>1, <1>2

\* The commit of an upsert leaves what the sessions of the others will write.
LEMMA TableUpserts ==
    ASSUME IInv, IInv', TableInv, NEW w \in Workers, NEW rescored \in BOOLEAN,
           CommitUpsert(w, rescored)
    PROVE  TableInv'
  <1>1. /\ TypeOK /\ TypeOK' /\ phase[w] = "upsert"
        /\ UNCHANGED <<message, todo>>
        /\ \A id \in RowIds :
              /\ rows'[id] = Flushed(rows[id], session[w][id], rescored)
              /\ ledger'[id] = Recorded(ledger[id], session[w][id], SourceName(w))
    BY DEF IInv, CommitUpsert
  <1>2. /\ phase'[w] # "upsert" /\ session'[w] = EmptySession
        /\ \A v \in Workers : v # w => /\ session'[v] = session[v]
                                       /\ phase'[v] = phase[v]
                                       /\ now'[v] = now[v]
    BY <1>1 DEF CommitUpsert, TypeOK
  <1>3. ASSUME NEW id \in RowIds
        PROVE  /\ session[w][id] = NotLoaded
                    => rows'[id] = rows[id] /\ ledger'[id] = ledger[id]
               /\ rows[id] # NoRow
                    => /\ rows'[id].enrichment = rows[id].enrichment
                       /\ ledger[id] \in Ledger /\ ledger'[id] \in Ledger
                       /\ ledger[id].earned <= ledger'[id].earned
    <2>1. /\ rows'[id] = NoRow <=> ledger'[id] = NoRow
          /\ session[w][id] = NotLoaded
               => rows'[id] = rows[id] /\ ledger'[id] = ledger[id]
          /\ rows[id] # NoRow
               => /\ rows'[id] # NoRow
                  /\ rows'[id].enrichment = rows[id].enrichment
                  /\ ledger'[id].earned >= ledger[id].earned
      BY <1>1, CommittedRow
    <2>2. rows[id] # NoRow => ledger[id] \in Ledger /\ ledger'[id] \in Ledger
      BY <1>1, <2>1 DEF IInv, LedgerOK, TypeOK
    <2>3. rows[id] # NoRow => ledger[id].earned \in Int /\ ledger'[id].earned \in Int
      BY <2>2 DEF Ledger
    <2> QED
      BY <2>1, <2>2, <2>3
  <1>4. ScoresEarned'
    <2>1. ASSUME NEW id \in RowIds, rows'[id] # NoRow
          PROVE  rows'[id].score.confidence <= ledger'[id].earned
      <3>1. CASE session[w][id] = NotLoaded
        BY <1>3, <2>1, <3>1 DEF TableInv, ScoresEarned, Committed
      <3>2. CASE session[w][id] # NotLoaded
        <4> DEFINE row == rows'[id]
                   led == ledger'[id]
        <4>1. /\ row = Flushed(rows[id], session[w][id], rescored)
              /\ led = Recorded(ledger[id], session[w][id], SourceName(w))
          BY <1>1
        <4> HIDE DEF row, led
        <4>2. row.score.confidence <= led.earned
          BY <1>1, <3>2, <4>1, CommittedTable
        <4> QED
          BY <4>2 DEF row, led
      <3> QED
        BY <3>1, <3>2
    <2> QED
      BY <2>1 DEF ScoresEarned, Committed
  <1>5. SessionsKept'
    <2>1. ASSUME NEW v \in Workers, NEW id \in RowIds,
                 session'[v][id] # NotLoaded
          PROVE  IF session'[v][id].base # NoRow THEN LoadedKept(v, id)'
                 ELSE NewAsGiven(v, id)'
      <3>1. v # w /\ session'[v] = session[v]
        BY <1>2, <2>1 DEF EmptySession
      <3>2. session[v][id].base # NoRow => rows[id] # NoRow
        BY <2>1, <3>1 DEF IInv, SessionsDisjoint
      <3> QED
        BY <1>1, <1>2, <1>3, <2>1, <3>1, <3>2, EntryKept
    <2> QED
      BY <2>1 DEF SessionsKept
  <1>6. FeedsFit'
    <2>1. ASSUME NEW v \in Workers PROVE FitsFeed(v)'
      BY <1>1, <1>2, RestFits DEF TableInv, FeedsFit, FitsFeed, Given
    <2> QED
      BY <2>1 DEF FeedsFit
  <1>7. LoadedEnriched'
    <2>1. ASSUME NEW v \in Workers, NEW id \in RowIds,
                 session'[v][id] # NotLoaded, session'[v][id].base # NoRow,
                 session'[v][id].base.enrichment # NotEnriched
          PROVE  rows'[id].enrichment # NotEnriched
      <3>1. session'[v] = session[v]
        BY <1>2, <2>1 DEF EmptySession
      <3>2. rows[id] # NoRow
        BY <2>1, <3>1 DEF IInv, SessionsDisjoint
      <3> QED
        BY <1>3, <2>1, <3>1, <3>2 DEF TableInv, LoadedEnriched
    <2> QED
      BY <2>1 DEF LoadedEnriched
  <1> QED
    BY <1>4, <1>5, <1>6, <1>7 DEF TableInv

\* A row whose lookups have returned is enriched, also when they return what
\* was there already: the column keeps what is in the table (manager.py:76-91).
LEMMA WrittenEnriched ==
    ASSUME NEW row \in Row, NEW base \in Row, NEW object \in Row,
           NEW vt \in Results, NEW sh \in Results, NEW rescored \in BOOLEAN,
           base.enrichment # NotEnriched => row.enrichment # NotEnriched
    PROVE  Updated(row, base, Enriched(object, vt, sh), rescored).enrichment
             # NotEnriched
  <1> DEFINE data == Merged(object.enrichment, vt, sh)
  <1>1. data # NotEnriched
    BY MarkerAssumption DEF Merged, EnrichmentData
  <1>2. Enriched(object, vt, sh).enrichment = data
    BY DEF Enriched, Row
  <1>3. Updated(row, base, Enriched(object, vt, sh), rescored).enrichment
          = Column(row.enrichment, base.enrichment, data)
    BY <1>2 DEF Updated
  <1> HIDE DEF data
  <1> QED
    BY <1>1, <1>3 DEF Column

\* Lookups leave what is reported of an object, and score it by that.
LEMMA EnrichedKeeps ==
    ASSUME NEW object \in Row, NEW vt \in Results, NEW sh \in Results
    PROVE  /\ Enriched(object, vt, sh).first = object.first
           /\ Enriched(object, vt, sh).last = object.last
           /\ Enriched(object, vt, sh).confidence = object.confidence
           /\ Enriched(object, vt, sh).sources = object.sources
           /\ Enriched(object, vt, sh).score.confidence = object.confidence
  BY DEF Enriched, Row, ScoreOf

\* What the commit of an enrichment does to the table, seen from outside.
LEMMA EnrichedTable ==
    ASSUME IInv, TypeOK', TableInv, NEW w \in Workers, NEW vt \in VtResults,
           NEW sh \in Results, NEW rescored \in BOOLEAN,
           CommitEnrichment(w, vt, sh, rescored),
           NEW id, id = message[w].target
    PROVE  /\ id \in RowIds /\ rows[id] \in Row /\ rows[id] # NoRow
           /\ ledger' = ledger
           /\ \A other \in RowIds \ {id} : rows'[other] = rows[other]
           /\ rows'[id] \in Row /\ rows'[id] # NoRow
           /\ rows'[id].enrichment \in EnrichmentData
           /\ rows'[id].ioc = rows[id].ioc
           /\ rows'[id].first = rows[id].first
           /\ rows'[id].last = rows[id].last
           /\ rows'[id].confidence = rows[id].confidence
           /\ rows'[id].sources = rows[id].sources
           /\ rows'[id].score.confidence <= ledger[id].earned
  <1> USE DEF history
  <1> DEFINE entry == session[w][id]
             db == rows[id]
             row == Updated(db, entry.base, Enriched(entry.object, vt, sh),
                            rescored)
  <1>1. /\ TypeOK /\ phase[w] = "lookup" /\ rows' = [rows EXCEPT ![id] = row]
        /\ UNCHANGED ledger
    BY DEF IInv, CommitEnrichment
  <1>2. id \in RowIds /\ entry # NotLoaded /\ entry.base # NoRow
    BY <1>1 DEF IInv, PhaseOK, LookupLoaded, EnrichMessage
  <1>3. /\ db \in Row /\ db # NoRow /\ ledger[id] \in Ledger
        /\ entry.base \in Row /\ entry.object = entry.base
        /\ entry.base.confidence <= ledger[id].earned
    <2>1. db # NoRow /\ entry \in Entry
      BY <1>1, <1>2, EntryType DEF IInv, SessionsDisjoint
    <2>2. db \in Row /\ ledger[id] \in Ledger /\ entry.base \in Row
      BY <1>1, <1>2, <2>1 DEF IInv, LedgerOK, TypeOK, Entry
    <2> QED
      BY <1>1, <1>2, <2>1, <2>2 DEF IInv, SessionsEarned, LoadedEarned
  <1>4. rows'[id] = row /\ \A other \in RowIds \ {id} : rows'[other] = rows[other]
    BY <1>1, <1>2 DEF TypeOK
  <1>5. row.enrichment # NotEnriched
    <2>1. entry.base.enrichment # NotEnriched => db.enrichment # NotEnriched
      BY <1>2 DEF TableInv, LoadedEnriched
    <2> HIDE DEF entry, db
    <2> QED
      BY <1>3, <2>1, WrittenEnriched DEF VtResults
  <1>6. /\ row \in Row
        /\ row.ioc = db.ioc /\ row.first = db.first /\ row.last = db.last
        /\ row.confidence = db.confidence /\ row.sources = db.sources
        /\ row.score = db.score \/ row.score.confidence = entry.base.confidence
    <2> DEFINE base == entry.base
               new == Enriched(base, vt, sh)
    <2>1. row = Updated(db, base, new, rescored) /\ base \in Row
      BY <1>3
    <2>2. vt \in Results
      BY DEF VtResults
    <2> HIDE DEF entry, db, row, base
    <2>3. /\ new \in Row /\ new.first = base.first /\ new.last = base.last
          /\ new.confidence = base.confidence /\ new.sources = base.sources
          /\ new.score.confidence = base.confidence
      BY <2>1, <2>2, EnrichedType, EnrichedKeeps
    <2> HIDE DEF new
    <2>4. row \in Row
      BY <1>3, <2>1, <2>3, UpdatedType
    <2>5. /\ row.ioc = db.ioc /\ row.first = db.first /\ row.last = db.last
          /\ row.confidence = db.confidence /\ row.sources = db.sources
          /\ row.score = db.score \/ row.score.confidence = base.confidence
      BY <2>1, <2>3 DEF Updated, Column
    <2> QED
      BY <2>4, <2>5 DEF base
  <1> HIDE DEF row, entry
  <1>7. row.enrichment \in EnrichmentData /\ row # NoRow
    BY <1>5, <1>6, MarkersApart DEF Row, Enrichment
  <1>8. row.score.confidence <= ledger[id].earned
    <2>1. db.score.confidence <= ledger[id].earned
      BY <1>2, <1>3 DEF TableInv, ScoresEarned, Committed
    <2> QED
      BY <1>3, <1>6, <2>1
  <1> QED
    BY <1>1, <1>2, <1>3, <1>4, <1>6, <1>7, <1>8

\* The commit of an enrichment leaves what the sessions of the others will
\* write.
LEMMA TableEnriches ==
    ASSUME IInv, TypeOK', TableInv, NEW w \in Workers, NEW vt \in VtResults,
           NEW sh \in Results, NEW rescored \in BOOLEAN,
           CommitEnrichment(w, vt, sh, rescored)
    PROVE  TableInv'
  <1> USE DEF history
  <1> DEFINE id == message[w].target
  <1>0. TypeOK /\ id = message[w].target
    BY DEF IInv
  <1> HIDE DEF id
  <1>1. /\ id \in RowIds /\ UNCHANGED ledger
        /\ \A other \in RowIds \ {id} : rows'[other] = rows[other]
        /\ rows'[id].enrichment \in EnrichmentData
        /\ rows'[id].score.confidence <= ledger[id].earned
    BY <1>0, EnrichedTable
  <1>2. /\ phase'[w] = "ack" /\ session'[w] = EmptySession
        /\ todo'[w] = <<>> /\ message' = message
        /\ \A v \in Workers \ {w} : /\ session'[v] = session[v]
                                    /\ phase'[v] = phase[v]
                                    /\ now'[v] = now[v] /\ todo'[v] = todo[v]
    BY <1>0 DEF CommitEnrichment, Over, TypeOK
  <1>3. ScoresEarned'
    BY <1>1 DEF TableInv, ScoresEarned, Committed
  <1>4. SessionsKept'
    <2>1. ASSUME NEW v \in Workers, NEW j \in RowIds,
                 session'[v][j] # NotLoaded
          PROVE  IF session'[v][j].base # NoRow THEN LoadedKept(v, j)'
                 ELSE NewAsGiven(v, j)'
      <3>1. v # w
        BY <1>2, <2>1 DEF EmptySession
      <3> QED
        BY <1>0, <1>1, <1>2, <2>1, <3>1, EntryKept
    <2> QED
      BY <2>1 DEF SessionsKept
  <1>5. FeedsFit'
    <2>1. ASSUME NEW v \in Workers PROVE FitsFeed(v)'
      <3>1. CASE v = w
        BY <1>2, <3>1, RestFits
      <3>2. CASE v # w
        BY <1>2, <3>2, RestFits
      <3> QED
        BY <3>1, <3>2
    <2> QED
      BY <2>1 DEF FeedsFit
  <1>6. LoadedEnriched'
    <2>1. ASSUME NEW v \in Workers, NEW j \in RowIds,
                 session'[v][j] # NotLoaded, session'[v][j].base # NoRow,
                 session'[v][j].base.enrichment # NotEnriched
          PROVE  rows'[j].enrichment # NotEnriched
      <3>1. session'[v] = session[v]
        BY <1>2, <2>1 DEF EmptySession
      <3>2. rows[j].enrichment # NotEnriched
        BY <2>1, <3>1 DEF TableInv, LoadedEnriched
      <3> QED
        BY <1>1, <3>2, MarkerAssumption
    <2> QED
      BY <2>1 DEF LoadedEnriched
  <1> QED
    BY <1>3, <1>4, <1>5, <1>6 DEF TableInv

\* Nothing is loaded at first.
LEMMA InitTable == Init => TableInv
  <1> SUFFICES ASSUME Init PROVE TableInv
    OBVIOUS
  <1>1. ScoresEarned
    BY DEF Init, ScoresEarned, Committed
  <1>2. \A w \in Workers, id \in RowIds : session[w][id] = NotLoaded
    BY DEF Init, EmptySession
  <1>3. \A w \in Workers : phase[w] # "upsert" /\ todo[w] = <<>>
    BY DEF Init
  <1>4. SessionsKept /\ LoadedEnriched
    BY <1>2 DEF SessionsKept, LoadedEnriched
  <1>5. FeedsFit
    BY <1>3 DEF FeedsFit, FitsFeed
  <1> QED
    BY <1>1, <1>4, <1>5 DEF TableInv

\* Every step keeps what the sessions will write.
LEMMA NextTable == IInv /\ TableInv /\ Next => TableInv'
  <1> SUFFICES ASSUME IInv, TableInv, Next PROVE TableInv'
    OBVIOUS
  <1>0. IInv' /\ TypeOK /\ TypeOK'
    BY NextInv DEF IInv
  <1>1. ASSUME NEW r \in Requests, TriggerIngestion(r) PROVE TableInv'
    <2>1. UNCHANGED <<rows, ledger, session, phase, message, now, todo>>
      BY <1>1 DEF TriggerIngestion, local, history
    <2>2. ASSUME NEW v \in Workers PROVE FitsFeed(v)'
      BY <2>1 DEF TableInv, FeedsFit, FitsFeed, Given
    <2> QED
      BY <1>0, <2>1, <2>2, QuietTable
  <1>2. ASSUME NEW w \in Workers, WorkerStep(w) \/ Crash(w) PROVE TableInv'
    BY <1>0, <1>2, TableMoves, TableBegins, TableSkips, TableSights,
       TableCreates, TableLooks, TableUpserts, TableEnriches
    DEF WorkerStep, IngestStep, EnrichStep
  <1> QED
    BY <1>1, <1>2 DEF Next

\* The inductive invariant of the write side, sessions and feeds included, for
\* every number of workers: a score, too, claims no more than was reported.
THEOREM WriteInvariance == Spec => []WriteInv
  <1>1. TableInv /\ UNCHANGED vars => TableInv'
    <2> SUFFICES ASSUME TableInv, UNCHANGED vars PROVE TableInv'
      OBVIOUS
    <2>1. UNCHANGED <<rows, ledger, session, phase, message, now, todo>>
      BY DEF vars, local, history
    <2> QED
      BY <2>1 DEF TableInv, ScoresEarned, Committed, SessionsKept, LoadedKept,
         NewAsGiven, SourceName, Given, FeedsFit, FitsFeed, LoadedEnriched
  <1>2. IInv /\ TableInv /\ [Next]_vars => TableInv'
    BY <1>1, NextTable
  <1>3. IInv /\ TableInv => WriteInv
    BY DEF WriteInv
  <1> QED
    BY <1>2, <1>3, InitTable, Invariance, PTL DEF Spec
------------------------------------------------------------------------------
(* The table is what concurrent reports and enrichments may make of it      *)

\* One row of a committed feed, as the shared table sees it: opened by the
\* feed's source at the feed's time, or reinforced.
LEMMA UpsertTable ==
    ASSUME IInv, IInv', TableInv, NEW w \in Workers, NEW rescored \in BOOLEAN,
           CommitUpsert(w, rescored),
           NEW id \in RowIds, session[w][id] # NotLoaded
    PROVE  /\ rows'[id] # NoRow
           /\ rows[id] = NoRow => /\ Table!Opens(id, SourceName(w), now[w])
                                  /\ rows'[id].last = now[w]
           /\ rows[id] # NoRow =>
                 /\ rows'[id].last # now[w] =>
                       \A t : Table!Reinforces(id, SourceName(w), t)
                 /\ Table!Reinforces(id, SourceName(w), now[w])
  <1> DEFINE row == rows'[id]
             led == ledger'[id]
             db == rows[id]
             old == ledger[id]
             source == SourceName(w)
  <1>1. /\ phase[w] = "upsert"
        /\ row = Flushed(db, session[w][id], rescored)
        /\ led = Recorded(old, session[w][id], source)
    BY DEF CommitUpsert
  <1> HIDE DEF row, led
  <1>2. /\ db # NoRow =>
             /\ \E n \in UNION {DOMAIN items : items \in FeedBodies} :
                   led.earned = old.earned + 5 * n
             /\ led.reporter = old.reporter
             /\ led.reported = old.reported \cup {source}
             /\ row.ioc = db.ioc /\ row.first = db.first
             /\ row.enrichment = db.enrichment
             /\ row.last \in {db.last, now[w]}
        /\ row.score.confidence <= led.earned
    BY <1>1, CommittedTable
  <1>3. row # NoRow
    BY <1>1, CommittedRow
  <1>4. Table!Supported(row, led)
    <2>1. /\ row.confidence <= led.earned
          /\ led.reporter \in row.sources
          /\ row.sources \subseteq led.reported
      BY <1>3 DEF IInv, NeverOverstated, Committed, row, led
    <2> QED
      BY <1>2, <2>1 DEF Table!Supported
  <1>5. ASSUME db = NoRow
        PROVE  Table!Opens(id, source, now[w]) /\ row.last = now[w]
    <2> HIDE DEF source
    <2> DEFINE c == row.confidence
    <2>1. /\ c \in Given /\ row.first = now[w] /\ row.last = now[w]
          /\ row.sources = {source} /\ row.enrichment = NotEnriched
          /\ row.score = ScoreOf(c, NotEnriched)
          /\ led.earned = c /\ led.reporter = source /\ led.reported = {source}
      BY <1>1, <1>5, CommittedTable DEF source
    <2>2. row \in Row /\ led \in Ledger
      BY <1>3 DEF IInv, LedgerOK, TypeOK, row, led
    <2> HIDE DEF c
    <2>3. row.score = Table!Score(c, NotEnriched)
      BY <2>1 DEF ScoreOf, Table!Score
    <2>4. row = [ioc |-> row.ioc, confidence |-> c, first |-> now[w],
                 last |-> now[w], sources |-> {source},
                 enrichment |-> NotEnriched,
                 score |-> Table!Score(c, NotEnriched)]
      BY <2>1, <2>2, <2>3 DEF c, Row
    <2>5. led = [earned |-> c, reporter |-> source, reported |-> {source}]
      BY <2>1, <2>2 DEF Ledger
    <2>6. row.ioc \in Iocs
      BY <2>2 DEF Row
    <2> QED
      BY <2>1, <2>4, <2>5, <2>6 DEF Table!Opens, row, led
  <1>6. ASSUME db # NoRow, NEW t, row.last \in {db.last, t}
        PROVE  Table!Reinforces(id, source, t)
    <2>1. db \in Row /\ row \in Row /\ old \in Ledger /\ led \in Ledger
      BY <1>3, <1>6 DEF IInv, LedgerOK, TypeOK, row, led
    <2>2. PICK n \in UNION {DOMAIN items : items \in FeedBodies} :
             led.earned = old.earned + 5 * n
      BY <1>2, <1>6
    <2> DEFINE earned == old.earned + 5 * n
               reported == old.reported \cup {source}
    <2>3. /\ led.earned = earned /\ led.reporter = old.reporter
          /\ led.reported = reported
          /\ row.ioc = db.ioc /\ row.first = db.first
          /\ row.enrichment = db.enrichment
      BY <1>2, <1>6, <2>2
    <2> HIDE DEF db, old, earned, reported
    <2>4. led = [old EXCEPT !.earned = earned, !.reported = reported]
      BY <2>1, <2>3 DEF Ledger
    <2>5. row = [db EXCEPT !.confidence = row.confidence, !.last = row.last,
                           !.sources = row.sources, !.score = row.score]
      BY <2>1, <2>3 DEF Row
    <2>6. row.last \in {db.last, t} /\ Table!Supported(row, led)
      BY <1>4, <1>6
    <2> QED
      BY <2>4, <2>5, <2>6
      DEF Table!Reinforces, row, led, db, old, earned, reported
  <1>7. /\ db # NoRow => row.last \in {db.last, now[w]}
        /\ db # NoRow /\ row.last # now[w] => \A t : row.last \in {db.last, t}
    BY <1>2
  <1> QED
    <2>1. CASE db = NoRow
      BY <1>3, <1>5, <2>1 DEF row
    <2>2. CASE db # NoRow
      BY <1>3, <1>6, <1>7, <2>2 DEF row
    <2> QED
      BY <2>1, <2>2

\* The commit of an upsert is one report of the shared table, or nothing when
\* the feed had only unknown formats.
LEMMA UpsertIsReport ==
    ASSUME IInv, IInv', TableInv, NEW w \in Workers, NEW rescored \in BOOLEAN,
           CommitUpsert(w, rescored)
    PROVE  Table!Next \/ UNCHANGED Table!vars
  <1> DEFINE S == {id \in RowIds : session[w][id] # NotLoaded}
             source == SourceName(w)
  <1>1. /\ TypeOK /\ phase[w] = "upsert" /\ source \in Sources
        /\ rows' = [id \in RowIds |-> Flushed(rows[id], session[w][id], rescored)]
        /\ ledger' = [id \in RowIds |->
                         Recorded(ledger[id], session[w][id], SourceName(w))]
    BY UpsertSource DEF IInv, CommitUpsert
  <1>2. ASSUME NEW id \in RowIds \ S
        PROVE  rows'[id] = rows[id] /\ ledger'[id] = ledger[id]
    BY <1>1 DEF Flushed, Recorded
  <1>3. /\ rows' = [id \in RowIds |-> IF id \in S THEN rows'[id] ELSE rows[id]]
        /\ ledger' = [id \in RowIds |->
                         IF id \in S THEN ledger'[id] ELSE ledger[id]]
    <2> DEFINE R == [id \in RowIds |-> IF id \in S THEN rows'[id] ELSE rows[id]]
               L == [id \in RowIds |->
                        IF id \in S THEN ledger'[id] ELSE ledger[id]]
    <2>1. \A id \in RowIds : rows'[id] = R[id] /\ ledger'[id] = L[id]
      BY <1>2
    <2>2. /\ DOMAIN rows' = RowIds /\ rows' = [id \in RowIds |-> rows'[id]]
          /\ DOMAIN ledger' = RowIds /\ ledger' = [id \in RowIds |-> ledger'[id]]
      BY <1>1
    <2> QED
      BY <2>1, <2>2
  <1>4. CASE S = {}
    <2>1. rows' = rows /\ ledger' = ledger
      BY <1>1, <1>3, <1>4 DEF TypeOK
    <2> QED
      BY <2>1 DEF Table!vars
  <1>5. CASE S # {}
    <2>1. PICK t \in {rows'[id].last : id \in S} :
             \/ t = now[w]
             \/ \A id \in S : rows'[id].last # now[w]
      BY <1>5
    <2>2. ASSUME NEW id \in S
          PROVE  /\ rows'[id] # NoRow
                 /\ IF rows[id] = NoRow THEN Table!Opens(id, source, t)
                    ELSE Table!Reinforces(id, source, t)
      <3> HIDE DEF source
      <3>1. /\ rows'[id] # NoRow
            /\ rows[id] = NoRow => /\ Table!Opens(id, source, now[w])
                                   /\ rows'[id].last = now[w]
            /\ rows[id] # NoRow =>
                 /\ rows'[id].last # now[w] =>
                       \A u : Table!Reinforces(id, source, u)
                 /\ Table!Reinforces(id, source, now[w])
        BY UpsertTable DEF source
      <3> QED
        BY <2>1, <3>1
    <2>3. Table!Report(source, S)
      <3> HIDE DEF S, source
      <3> QED
        BY <1>3, <2>2 DEF Table!Report
    <2>4. S \in (SUBSET RowIds) \ {{}}
      BY <1>5
    <2> QED
      BY <1>1, <2>3, <2>4 DEF Table!Next
  <1> QED
    BY <1>4, <1>5
\* The commit of an enrichment is an enrichment of the shared table.
LEMMA EnrichmentIsEnrich ==
    ASSUME IInv, IInv', TableInv, NEW w \in Workers, NEW vt \in VtResults,
           NEW sh \in Results, NEW rescored \in BOOLEAN,
           CommitEnrichment(w, vt, sh, rescored)
    PROVE  Table!Next
  <1> DEFINE id == message[w].target
             row == rows'[id]
             db == rows[id]
  <1>0. TypeOK /\ TypeOK' /\ id = message[w].target
    BY DEF IInv
  <1> HIDE DEF id
  <1>1. /\ id \in RowIds /\ db \in Row /\ db # NoRow
        /\ ledger' = ledger
        /\ \A other \in RowIds \ {id} : rows'[other] = rows[other]
        /\ row \in Row /\ row # NoRow /\ row.enrichment \in EnrichmentData
        /\ row.ioc = db.ioc /\ row.first = db.first /\ row.last = db.last
        /\ row.confidence = db.confidence /\ row.sources = db.sources
        /\ row.score.confidence <= ledger[id].earned
    BY <1>0, EnrichedTable
  <1>2. Table!Supported(row, ledger[id])
    BY <1>1 DEF IInv, NeverOverstated, Committed, Table!Supported
  <1> DEFINE data == row.enrichment
             score == row.score
  <1>3. row = [db EXCEPT !.enrichment = data, !.score = score]
    <2>1. data = row.enrichment /\ score = row.score
      OBVIOUS
    <2> HIDE DEF data, score, row, db
    <2> QED
      BY <1>1, <2>1 DEF Row
  <1> HIDE DEF data, score
  <1>4. rows' = [rows EXCEPT ![id].enrichment = data, ![id].score = score]
    <2> DEFINE new == [rows EXCEPT ![id].enrichment = data, ![id].score = score]
               mid == [rows EXCEPT ![id].enrichment = data]
    <2>1. DOMAIN rows = RowIds /\ DOMAIN rows' = RowIds
          /\ rows' = [j \in RowIds |-> rows'[j]]
      BY <1>0 DEF TypeOK
    <2>2. /\ mid = [rows EXCEPT ![id] = [db EXCEPT !.enrichment = data]]
          /\ new = [mid EXCEPT ![id] = [mid[id] EXCEPT !.score = score]]
      OBVIOUS
    <2> QED
      BY <1>1, <1>3, <2>1, <2>2
  <1>5. Table!Enrich(id)
    BY <1>1, <1>2, <1>4 DEF Table!Enrich, data, score
  <1> QED
    BY <1>1, <1>5 DEF Table!Next

\* Only the two commits write to the table and its ledger.
LEMMA CommitsWrite ==
    ASSUME Next, ~(UNCHANGED <<rows, ledger>>)
    PROVE  \E w \in Workers :
              \/ \E rescored \in BOOLEAN : CommitUpsert(w, rescored)
              \/ \E vt \in VtResults, sh \in Results, rescored \in BOOLEAN :
                    CommitEnrichment(w, vt, sh, rescored)
  BY DEF Next, WorkerStep, IngestStep, EnrichStep, Crash, Ack, history,
     TriggerIngestion, StartIngestion, FetchFails, MalformedFeed, EmptyFeed,
     BeginUpsert, SkipUnknown, UpsertExisting, UpsertNew, UpsertFails, Dispatch,
     DispatchFails, StartEnrichment, LookupRaises, EnrichmentFails, FetchLost,
     LookupLost

\* However many workers write at once, the pipeline implements the shared
\* table: each commit is one report or one enrichment of it, no more of a row
\* is claimed than was reported, and no row loses its enrichment or its place.
THEOREM TableRefined == Spec => TableSpec
  <1>1. Init => Table!Init
    BY DEF Init, Table!Init
  <1>2. WriteInv /\ [Next]_vars /\ WriteInv' => [Table!Next]_(Table!vars)
    <2> SUFFICES ASSUME IInv, IInv', TableInv, [Next]_vars
                 PROVE  [Table!Next]_(Table!vars)
      BY DEF WriteInv
    <2>1. CASE UNCHANGED <<rows, ledger>>
      BY <2>1 DEF Table!vars
    <2>2. CASE ~(UNCHANGED <<rows, ledger>>)
      <3>1. Next
        BY <2>2 DEF vars, history
      <3> QED
        BY <2>2, <3>1, CommitsWrite, UpsertIsReport, EnrichmentIsEnrich
    <2> QED
      BY <2>1, <2>2
  <1>3. TableSpec <=> Table!Init /\ [][Table!Next]_(Table!vars)
    BY DEF TableSpec, Table!Spec
  <1> QED
    BY <1>1, <1>2, <1>3, WriteInvariance, PTL DEF Spec
\* What that means for a row: once committed it is never deleted, never given
\* to another indicator nor first seen at another time, and once it has been
\* enriched no late upsert sets it back to {} (parser.py:126-157,
\* manager.py:71-91).
THEOREM RowsKept ==
    Spec => [][\A id \in Committed :
                  /\ rows'[id] # NoRow
                  /\ rows'[id].ioc = rows[id].ioc
                  /\ rows'[id].first = rows[id].first
                  /\ rows[id].enrichment # NotEnriched
                       => rows'[id].enrichment # NotEnriched]_rows
  <1> DEFINE Kept(id) ==
               /\ rows'[id] # NoRow
               /\ rows'[id].ioc = rows[id].ioc
               /\ rows'[id].first = rows[id].first
               /\ rows[id].enrichment # NotEnriched
                    => rows'[id].enrichment # NotEnriched
  <1>1. ASSUME TypeOK, [Table!Next]_(Table!vars), NEW id \in Committed,
               rows' # rows
        PROVE  Kept(id)
    <2> DEFINE db == rows[id]
               row == rows'[id]
    <2>1. db \in Row /\ db # NoRow /\ id \in RowIds /\ Table!Next
      BY <1>1 DEF Committed, TypeOK, Table!vars
    <2>2. ASSUME NEW source \in Sources, NEW S \in SUBSET RowIds,
                 Table!Report(source, S)
          PROVE  Kept(id)
      <3>1. CASE id \notin S
        <4>1. rows' = [j \in RowIds |-> IF j \in S THEN rows'[j] ELSE rows[j]]
          BY <2>2 DEF Table!Report
        <4>2. row = db
          BY <2>1, <3>1, <4>1
        <4> QED
          BY <2>1, <4>2
      <3>2. CASE id \in S
        <4>1. PICK t : Table!Reinforces(id, source, t)
          BY <2>1, <2>2, <3>2 DEF Table!Report
        <4>2. /\ row # NoRow
              /\ row = [db EXCEPT !.confidence = row.confidence,
                                  !.last = row.last,
                                  !.sources = row.sources,
                                  !.score = row.score]
          BY <2>2, <3>2, <4>1 DEF Table!Report, Table!Reinforces
        <4> DEFINE c == row.confidence
                   l == row.last
                   s == row.sources
                   v == row.score
        <4>3. row = [db EXCEPT !.confidence = c, !.last = l, !.sources = s,
                               !.score = v]
          BY <4>2
        <4>4. /\ row.ioc = db.ioc /\ row.first = db.first
              /\ row.enrichment = db.enrichment
          <5> HIDE DEF c, l, s, v, row, db
          <5> QED
            BY <2>1, <4>3 DEF Row
        <4> QED
          BY <4>2, <4>4
      <3> QED
        BY <3>1, <3>2
    <2>3. ASSUME NEW j \in RowIds, Table!Enrich(j) PROVE Kept(id)
      <3>1. PICK data \in EnrichmentData :
               rows' = [rows EXCEPT ![j].enrichment = data,
                                    ![j].score = rows'[j].score]
        BY <2>3 DEF Table!Enrich
      <3> DEFINE score == rows'[j].score
                 mid == [rows EXCEPT ![j].enrichment = data]
      <3>2. rows' = [mid EXCEPT ![j].score = score]
        BY <3>1
      <3> HIDE DEF score
      <3>3. CASE j # id
        BY <1>1, <2>1, <3>2, <3>3 DEF TypeOK
      <3>4. CASE j = id
        <4>1. row # NoRow
          BY <2>3, <3>4 DEF Table!Enrich
        <4>2. mid[id] = [db EXCEPT !.enrichment = data]
          BY <1>1, <2>1, <3>4 DEF TypeOK
        <4>3. row = [mid[id] EXCEPT !.score = score]
          BY <1>1, <2>1, <3>2, <3>4 DEF TypeOK
        <4>4. /\ row.ioc = db.ioc /\ row.first = db.first
              /\ row.enrichment = data
          <5> HIDE DEF row, db, mid
          <5> QED
            BY <2>1, <4>2, <4>3 DEF Row
        <4>5. data # NotEnriched
          BY MarkerAssumption
        <4> QED
          BY <4>1, <4>4, <4>5
      <3> QED
        BY <3>3, <3>4
    <2> QED
      BY <2>1, <2>2, <2>3 DEF Table!Next
  <1>2. TypeOK /\ [Table!Next]_(Table!vars)
          => [\A id \in Committed : Kept(id)]_rows
    BY <1>1
  <1>3. TableSpec => [][Table!Next]_(Table!vars)
    BY DEF TableSpec, Table!Spec
  <1> QED
    BY <1>2, <1>3, TableRefined, TypeCorrect, PTL
=============================================================================

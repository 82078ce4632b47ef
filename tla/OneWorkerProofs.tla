--------------------------- MODULE OneWorkerProofs ---------------------------
(***************************************************************************)
(* Proofs about Pipeline with one worker process and feeds that name no    *)
(* indicator twice, for every number of requests, indicators, retries and  *)
(* faults.                                                                 *)
(***************************************************************************)
EXTENDS OneWorkerInvariant, PipelineProofs

------------------------------------------------------------------------------
(* Feeds                                                                    *)

\* What is left of a feed names nothing twice, nor what was its head.
LEMMA TailNamesOnce ==
    ASSUME NEW items \in Seq(Item), items # <<>>, NamesOnce(items)
    PROVE  /\ NamesOnce(Tail(items))
           /\ \A k \in DOMAIN Tail(items) :
                 /\ k + 1 \in DOMAIN items
                 /\ Tail(items)[k] = items[k + 1]
                 /\ Head(items).ioc # Unknown
                      => Tail(items)[k].ioc # Head(items).ioc
  <1>1. \A k \in DOMAIN Tail(items) :
           /\ k \in Nat /\ k >= 1
           /\ k + 1 \in DOMAIN items
           /\ Tail(items)[k] = items[k + 1]
    OBVIOUS
  <1>2. 1 \in DOMAIN items /\ Head(items) = items[1]
    OBVIOUS
  <1>3. \A j, k \in DOMAIN Tail(items) : j + 1 = k + 1 => j = k
    BY <1>1
  <1> QED
    BY <1>1, <1>2, <1>3 DEF NamesOnce

------------------------------------------------------------------------------
(* Steps that leave the table alone                                         *)

\* The table is as exact as it was.
LEMMA SameTable ==
    ASSUME OneWorkerInv, UNCHANGED <<rows, ledger>>
    PROVE  /\ UniqueRows' /\ LedgerExact' /\ ScoreCoherent' /\ SeenInOrder'
           /\ Committed' = Committed
           /\ \A ioc : Matches(ioc)' = Matches(ioc)
  BY DEF OneWorkerInv, UniqueRows, LedgerExact, ScoreCoherent, SeenInOrder,
     Committed, Matches

\* A step that moves no worker into an upsert and forgets the session of each
\* worker it moves.
LEMMA RestingStep ==
    ASSUME OneWorkerInv, UNCHANGED <<rows, ledger, clock>>,
           \A v \in Workers :
              \/ /\ session'[v] = session[v] /\ phase'[v] = phase[v]
                 /\ message'[v] = message[v]
                 /\ now'[v] = now[v] /\ todo'[v] = todo[v]
              \/ /\ session'[v] = EmptySession /\ phase'[v] # "upsert"
                 /\ todo'[v] \in {<<>>, todo[v]}
    PROVE  OneWorkerInv'
  <1>1. /\ UniqueRows' /\ LedgerExact' /\ ScoreCoherent' /\ SeenInOrder'
        /\ Committed' = Committed
        /\ \A ioc : Matches(ioc)' = Matches(ioc)
    BY SameTable
  <1>2. ASSUME NEW v \in Workers, NEW id \in RowIds,
               session'[v][id] # NotLoaded
        PROVE  /\ session'[v] = session[v] /\ phase'[v] = phase[v]
               /\ message'[v] = message[v]
               /\ now'[v] = now[v] /\ todo'[v] = todo[v]
    BY <1>2 DEF EmptySession
  <1>3. RestNamesOnce'
    <2>1. NamesOnce(<<>>) /\ DOMAIN <<>> = {}
      BY DEF NamesOnce
    <2> SUFFICES ASSUME NEW v \in Workers
                 PROVE  /\ NamesOnce(todo'[v])
                        /\ \A k \in DOMAIN todo'[v] :
                              todo'[v][k].confidence \in Given
                        /\ phase'[v] = "upsert" =>
                              \A id \in RowIds, k \in DOMAIN todo'[v] :
                                  session'[v][id] # NotLoaded
                                    => session'[v][id].object.ioc
                                         # todo'[v][k].ioc
      BY DEF RestNamesOnce, NamesOnce, Given
    <2>2. NamesOnce(todo'[v]) /\ \A k \in DOMAIN todo'[v] :
                                    todo'[v][k].confidence \in Given
      BY <2>1 DEF OneWorkerInv, RestNamesOnce
    <2> QED
      BY <1>2, <2>2 DEF OneWorkerInv, RestNamesOnce
  <1>4. SessionCurrent'
    <2> SUFFICES ASSUME NEW v \in Workers, NEW id \in RowIds,
                        session'[v][id] # NotLoaded
                 PROVE  IF session'[v][id].base # NoRow
                          THEN LoadedCurrent(v, id)' ELSE NewCurrent(v, id)'
      BY DEF SessionCurrent
    <2>1. IF session[v][id].base # NoRow
            THEN LoadedCurrent(v, id) ELSE NewCurrent(v, id)
      BY <1>2 DEF OneWorkerInv, SessionCurrent
    <2>2. SourceName(v)' = SourceName(v)
      BY <1>2 DEF SourceName
    <2>3. CASE session[v][id].base # NoRow
      BY <1>2, <2>1, <2>2, <2>3 DEF LoadedCurrent, Sighted
    <2>4. CASE session[v][id].base = NoRow
      BY <1>1, <1>2, <2>1, <2>2, <2>4 DEF NewCurrent, Created, Given
    <2> QED
      BY <1>2, <2>3, <2>4
  <1>5. SessionNamesOnce'
    BY <1>2 DEF OneWorkerInv, SessionNamesOnce
  <1>6. Clocked'
    BY <1>1 DEF OneWorkerInv, Clocked
  <1> QED
    BY <1>1, <1>3, <1>4, <1>5, <1>6 DEF OneWorkerInv

\* A task that ends is such a step.
LEMMA OverRests ==
    ASSUME TypeOK, OneWorkerInv, UNCHANGED <<rows, ledger, clock>>,
           NEW w \in Workers, Over(w)
    PROVE  OneWorkerInv'
  <1>1. /\ session'[w] = EmptySession /\ phase'[w] = "ack" /\ todo'[w] = <<>>
        /\ \A v \in Workers \ {w} :
              /\ session'[v] = session[v] /\ phase'[v] = phase[v]
              /\ message'[v] = message[v]
              /\ now'[v] = now[v] /\ todo'[v] = todo[v]
    BY DEF TypeOK, Over
  <1> QED
    BY <1>1, RestingStep

\* The steps that end a task or leave its session empty.
LEMMA RestingSteps ==
    ASSUME IInv, OneWorkerInv,
           \/ \E r \in Requests : TriggerIngestion(r)
           \/ \E w \in Workers :
                 \/ \E m \in IngestMessage : StartIngestion(w, m)
                 \/ FetchFails(w) \/ MalformedFeed(w) \/ EmptyFeed(w)
                 \/ FetchLost(w) \/ LookupLost(w)
                 \/ UpsertFails(w) \/ Dispatch(w) \/ DispatchFails(w)
                 \/ LookupRaises(w) \/ EnrichmentFails(w)
                 \/ Ack(w) \/ Crash(w)
    PROVE  OneWorkerInv'
  <1> USE DEF history, local
  <1>1. TypeOK /\ PhaseOK
    BY DEF IInv
  <1>2. ASSUME NEW r \in Requests, TriggerIngestion(r) PROVE OneWorkerInv'
    BY <1>2, RestingStep DEF TriggerIngestion
  <1>3. ASSUME NEW w \in Workers,
               \/ FetchFails(w) \/ MalformedFeed(w) \/ EmptyFeed(w)
               \/ FetchLost(w) \/ LookupLost(w)
               \/ UpsertFails(w) \/ DispatchFails(w)
               \/ LookupRaises(w) \/ EnrichmentFails(w)
        PROVE  OneWorkerInv'
    <2>1. Over(w) /\ UNCHANGED <<rows, ledger, clock>>
      BY <1>3 DEF FetchFails, MalformedFeed, EmptyFeed, UpsertFails,
         DispatchFails, LookupRaises, EnrichmentFails, RetryTask, FetchLost,
         LookupLost, RetryRefused
    <2> QED
      BY <1>1, <2>1, OverRests
  <1>4. ASSUME NEW w \in Workers,
               \/ \E m \in IngestMessage : StartIngestion(w, m)
               \/ Dispatch(w) \/ Ack(w)
        PROVE  OneWorkerInv'
    <2>1. session[w] = EmptySession
      BY <1>1, <1>4 DEF StartIngestion, Receive, Dispatch, Ack, PhaseOK
    <2>2. /\ session' = session /\ todo' = todo /\ now' = now
          /\ phase'[w] # "upsert"
          /\ \A v \in Workers \ {w} :
                phase'[v] = phase[v] /\ message'[v] = message[v]
          /\ UNCHANGED <<rows, ledger, clock>>
      BY <1>1, <1>4 DEF StartIngestion, Receive, Dispatch, Ack, TypeOK
    <2> QED
      BY <2>1, <2>2, RestingStep
  <1>5. ASSUME NEW w \in Workers, Crash(w) PROVE OneWorkerInv'
    <2>1. /\ session'[w] = EmptySession /\ phase'[w] = "idle"
          /\ todo'[w] = <<>>
          /\ \A v \in Workers \ {w} :
                /\ session'[v] = session[v] /\ phase'[v] = phase[v]
                /\ message'[v] = message[v]
                /\ now'[v] = now[v] /\ todo'[v] = todo[v]
          /\ UNCHANGED <<rows, ledger, clock>>
      BY <1>1, <1>5 DEF Crash, TypeOK
    <2> QED
      BY <2>1, RestingStep
  <1> QED
    BY <1>2, <1>3, <1>4, <1>5

------------------------------------------------------------------------------
(* Steps of an upsert before its commit                                     *)

\* The clock is read: later than everything that is committed.
LEMMA BeginStep ==
    ASSUME IInv, OneWorker, PlainFeeds, OneWorkerInv,
           NEW w \in Workers, NEW items \in FeedBodies, BeginUpsert(w, items)
    PROVE  OneWorkerInv'
  <1> USE DEF history
  <1>1. TypeOK /\ PhaseOK /\ \A v \in Workers : v = w
    BY DEF IInv, OneWorker
  <1>2. /\ \A v \in Workers : session'[v] = EmptySession
        /\ todo'[w] = items /\ now'[w] = clock + 1 /\ clock' = clock + 1
        /\ UNCHANGED <<rows, ledger>>
    BY <1>1 DEF BeginUpsert, PhaseOK, TypeOK
  <1>3. /\ UniqueRows' /\ LedgerExact' /\ ScoreCoherent' /\ SeenInOrder'
        /\ Committed' = Committed
    BY <1>2, SameTable
  <1>4. \A v \in Workers, id \in RowIds : session'[v][id] = NotLoaded
    BY <1>2 DEF EmptySession
  <1>5. RestNamesOnce'
    <2>1. NamesOnce(items) /\ \A k \in DOMAIN items :
                                 items[k].confidence \in Given
      BY GivenType DEF PlainFeeds
    <2> QED
      BY <1>1, <1>2, <1>4, <2>1 DEF RestNamesOnce, NamesOnce, Given
  <1>6. SessionCurrent' /\ SessionNamesOnce'
    BY <1>4 DEF SessionCurrent, SessionNamesOnce
  <1>7. Clocked'
    <2>1. \A id \in Committed : rows[id].last \in Nat /\ rows[id].last <= clock
      BY <1>1 DEF OneWorkerInv, Clocked, Committed, TypeOK, Row
    <2>2. clock \in Nat
      BY <1>1 DEF TypeOK
    <2> QED
      BY <1>1, <1>2, <1>3, <2>1, <2>2 DEF Clocked
  <1> QED
    BY <1>3, <1>5, <1>6, <1>7 DEF OneWorkerInv

\* What an upsert knows of the rest of its feed.
LEMMA RestOfFeed ==
    ASSUME TypeOK, OneWorkerInv, NEW w \in Workers, todo[w] # <<>>
    PROVE  /\ Head(todo[w]) \in Item
           /\ Head(todo[w]).confidence \in Given
           /\ NamesOnce(Tail(todo[w]))
           /\ \A k \in DOMAIN Tail(todo[w]) :
                 /\ Tail(todo[w])[k].confidence \in Given
                 /\ Head(todo[w]).ioc # Unknown
                      => Tail(todo[w])[k].ioc # Head(todo[w]).ioc
           /\ phase[w] = "upsert" =>
                 \A id \in RowIds :
                    session[w][id] # NotLoaded =>
                       /\ session[w][id].object.ioc # Head(todo[w]).ioc
                       /\ \A k \in DOMAIN Tail(todo[w]) :
                             session[w][id].object.ioc # Tail(todo[w])[k].ioc
  <1> DEFINE items == todo[w]
  <1>1. items \in Seq(Item) /\ items # <<>>
    BY DEF TypeOK
  <1>2. 1 \in DOMAIN items /\ Head(items) = items[1] /\ items[1] \in Item
    BY <1>1
  <1>3. /\ NamesOnce(items)
        /\ \A k \in DOMAIN items : items[k].confidence \in Given
        /\ phase[w] = "upsert" =>
              \A id \in RowIds, k \in DOMAIN items :
                  session[w][id] # NotLoaded
                    => session[w][id].object.ioc # items[k].ioc
    BY DEF OneWorkerInv, RestNamesOnce
  <1>4. /\ NamesOnce(Tail(items))
        /\ \A k \in DOMAIN Tail(items) :
              /\ k + 1 \in DOMAIN items
              /\ Tail(items)[k] = items[k + 1]
              /\ Head(items).ioc # Unknown
                   => Tail(items)[k].ioc # Head(items).ioc
    BY <1>1, <1>3, TailNamesOnce
  <1> HIDE DEF items
  <1>5. \A k \in DOMAIN Tail(items) :
           \E j \in DOMAIN items : Tail(items)[k] = items[j]
    BY <1>4
  <1> QED
    BY <1>2, <1>3, <1>4, <1>5 DEF items

\* Taking the head off keeps RestNamesOnce, if nothing but the head came into
\* the session.
LEMMA RestStep ==
    ASSUME TypeOK, OneWorker, OneWorkerInv,
           NEW w \in Workers, todo[w] # <<>>, phase[w] = "upsert",
           todo'[w] = Tail(todo[w]),
           \A id \in RowIds :
              session'[w][id] # NotLoaded =>
                 \/ session[w][id] # NotLoaded /\ session'[w][id] = session[w][id]
                 \/ /\ session'[w][id].object.ioc = Head(todo[w]).ioc
                    /\ Head(todo[w]).ioc # Unknown
    PROVE  RestNamesOnce'
  <1> DEFINE rest == Tail(todo[w])
  <1>1. \A v \in Workers : v = w
    BY DEF OneWorker
  <1>2. NamesOnce(rest) /\ \A k \in DOMAIN rest : rest[k].confidence \in Given
    BY RestOfFeed
  <1>3. \A id \in RowIds, k \in DOMAIN rest :
           session'[w][id] # NotLoaded
             => session'[w][id].object.ioc # rest[k].ioc
    BY RestOfFeed
  <1>4. todo'[w] = rest
    OBVIOUS
  <1> HIDE DEF rest
  <1> QED
    BY <1>1, <1>2, <1>3, <1>4 DEF RestNamesOnce, NamesOnce, Given

\* An item of no type changes only what is left of the feed.
LEMMA SkipStep ==
    ASSUME IInv, OneWorker, OneWorkerInv,
           NEW w \in Workers, SkipUnknown(w)
    PROVE  OneWorkerInv'
  <1> USE DEF history
  <1>1. TypeOK /\ \A v \in Workers : v = w
    BY DEF IInv, OneWorker
  <1>2. /\ todo[w] \in Seq(Item) /\ todo[w] # <<>>
        /\ todo'[w] = Tail(todo[w])
        /\ UNCHANGED <<rows, ledger, clock, session, phase, message, now>>
    BY <1>1 DEF SkipUnknown, Upserting, TypeOK
  <1>3. /\ UniqueRows' /\ LedgerExact' /\ ScoreCoherent' /\ SeenInOrder'
        /\ Committed' = Committed
        /\ \A ioc : Matches(ioc)' = Matches(ioc)
    BY <1>2, SameTable
  <1>4. RestNamesOnce'
    BY <1>1, <1>2, RestStep DEF SkipUnknown, Upserting
  <1>5. SessionCurrent'
    BY <1>2, <1>3 DEF OneWorkerInv, SessionCurrent, LoadedCurrent, NewCurrent,
       Sighted, Created, SourceName, Given
  <1>6. SessionNamesOnce' /\ Clocked'
    BY <1>2, <1>3 DEF OneWorkerInv, SessionNamesOnce, Clocked
  <1> QED
    BY <1>3, <1>4, <1>5, <1>6 DEF OneWorkerInv

\* A sighted object stays the object of its indicator.
LEMMA SightedIoc ==
    ASSUME NEW object \in Row, NEW source, NEW time
    PROVE  /\ Sighted(object, source, time).ioc = object.ioc
           /\ Sighted(object, source, time).first = object.first
           /\ Sighted(object, source, time).last = time
           /\ Sighted(object, source, time).confidence = Boosted(object.confidence)
           /\ Sighted(object, source, time).sources = object.sources \cup {source}
           /\ Sighted(object, source, time).enrichment = object.enrichment
           /\ Sighted(object, source, time).score
                = ScoreOf(Boosted(object.confidence), object.enrichment)
  BY DEF Sighted, Row

\* A step within an upsert that changes one entry of the session, or none.
LEMMA SessionStep ==
    ASSUME TypeOK, OneWorker, OneWorkerInv,
           NEW w \in Workers, phase[w] = "upsert", todo[w] # <<>>,
           todo'[w] = Tail(todo[w]),
           UNCHANGED <<rows, ledger, clock, phase, message, now>>,
           NEW id \in RowIds,
           \A other \in RowIds \ {id} : session'[w][other] = session[w][other],
           session'[w][id] # NotLoaded,
           session'[w][id].object.ioc = Head(todo[w]).ioc,
           Head(todo[w]).ioc # Unknown,
           IF session'[w][id].base # NoRow
             THEN LoadedCurrent(w, id)' ELSE NewCurrent(w, id)'
    PROVE  OneWorkerInv'
  <1>1. \A v \in Workers : v = w
    BY DEF OneWorker
  <1>2. /\ UniqueRows' /\ LedgerExact' /\ ScoreCoherent' /\ SeenInOrder'
        /\ Committed' = Committed
        /\ \A ioc : Matches(ioc)' = Matches(ioc)
    BY SameTable
  <1>3. RestNamesOnce'
    BY RestStep
  <1>4. SessionCurrent'
    <2> SUFFICES ASSUME NEW other \in RowIds \ {id},
                        session'[w][other] # NotLoaded
                 PROVE  IF session'[w][other].base # NoRow
                          THEN LoadedCurrent(w, other)'
                          ELSE NewCurrent(w, other)'
      BY <1>1 DEF SessionCurrent
    <2>1. session'[w][other] = session[w][other]
      OBVIOUS
    <2>2. IF session[w][other].base # NoRow
            THEN LoadedCurrent(w, other) ELSE NewCurrent(w, other)
      BY <2>1 DEF OneWorkerInv, SessionCurrent
    <2>3. SourceName(w)' = SourceName(w)
      BY DEF SourceName
    <2>4. CASE session[w][other].base # NoRow
      BY <2>1, <2>2, <2>3, <2>4 DEF LoadedCurrent, Sighted
    <2>5. CASE session[w][other].base = NoRow
      BY <1>2, <2>1, <2>2, <2>3, <2>5 DEF NewCurrent, Created, Given
    <2> QED
      BY <2>1, <2>4, <2>5
  <1>5. SessionNamesOnce'
    <2>1. \A other \in RowIds \ {id} :
             session'[w][other] # NotLoaded
               => session'[w][other].object.ioc # Head(todo[w]).ioc
      BY RestOfFeed
    <2> QED
      BY <1>1, <2>1 DEF OneWorkerInv, SessionNamesOnce
  <1>6. Clocked'
    BY <1>2 DEF OneWorkerInv, Clocked
  <1> QED
    BY <1>2, <1>3, <1>4, <1>5, <1>6 DEF OneWorkerInv

\* A known indicator: the row is loaded as it is, and sighted once.
LEMMA ExistingStep ==
    ASSUME IInv, OneWorker, OneWorkerInv,
           NEW w \in Workers, NEW id \in RowIds, UpsertExisting(w, id)
    PROVE  OneWorkerInv'
  <1> USE DEF history
  <1>1. TypeOK
    BY DEF IInv
  <1>2. /\ phase[w] = "upsert" /\ todo[w] # <<>>
        /\ rows[id] \in Row /\ rows[id] # NoRow
        /\ rows[id].ioc = Head(todo[w]).ioc /\ rows[id].ioc \in Iocs
    BY <1>1 DEF UpsertExisting, Upserting, Matches, TypeOK, Row
  <1>3. session[w][id] = NotLoaded
    <2> SUFFICES ASSUME session[w][id] # NotLoaded PROVE FALSE
      OBVIOUS
    <2>1. session[w][id].base # NoRow
      BY <1>2 DEF IInv, SessionsDisjoint
    <2>2. session[w][id].object = Sighted(rows[id], SourceName(w), now[w])
      BY <1>2, <2>1 DEF OneWorkerInv, SessionCurrent, LoadedCurrent
    <2>3. session[w][id].object.ioc = Head(todo[w]).ioc
      BY <1>2, <2>2, SightedIoc
    <2> QED
      BY <1>1, <1>2, <2>3, RestOfFeed
  <1> DEFINE entry == [base |-> rows[id],
                       object |-> Sighted(rows[id], SourceName(w), now[w]),
                       hits |-> 1]
  <1>4. session' = [session EXCEPT ![w][id] = entry]
    BY <1>3 DEF UpsertExisting, Loaded
  <1>5. /\ session'[w][id] = entry
        /\ \A other \in RowIds \ {id} : session'[w][other] = session[w][other]
        /\ todo'[w] = Tail(todo[w])
        /\ UNCHANGED <<rows, ledger, clock, phase, message, now>>
    BY <1>1, <1>4 DEF UpsertExisting, TypeOK
  <1>6. entry # NotLoaded
    <2>1. SourceName(w) \in Sources /\ now[w] \in Nat
      BY <1>1, <1>2, UpsertSource DEF TypeOK
    <2>2. entry \in Entry
      BY <1>2, <2>1, SightedType DEF Entry
    <2> QED
      BY <2>2, MarkersApart
  <1>7. entry.base # NoRow /\ entry.object.ioc = Head(todo[w]).ioc
    BY <1>2, SightedIoc
  <1>8. LoadedCurrent(w, id)'
    <2>1. SourceName(w)' = SourceName(w)
      BY <1>5 DEF SourceName
    <2> QED
      BY <1>5, <2>1 DEF LoadedCurrent, Sighted
  <1>9. Head(todo[w]).ioc # Unknown
    BY <1>2, PlatformAssumption
  <1> HIDE DEF entry
  <1> QED
    BY <1>1, <1>2, <1>5, <1>6, <1>7, <1>8, <1>9, SessionStep

\* NewCurrent after a step that leaves the table alone.
LEMMA NewCurrentNext ==
    ASSUME NEW w \in Workers, NEW id \in RowIds, UNCHANGED rows,
           NEW object, session'[w][id].object = object,
           Matches(object.ioc) = {},
           NEW c \in Given, NEW source, SourceName(w)' = source,
           NEW time, now'[w] = time,
           object = Created([ioc |-> object.ioc, confidence |-> c],
                            source, time)
    PROVE  NewCurrent(w, id)'
  BY DEF NewCurrent, Matches, Given

\* A new indicator: no row of it is committed.
LEMMA NewStep ==
    ASSUME IInv, OneWorker, OneWorkerInv,
           NEW w \in Workers, NEW id \in RowIds, UpsertNew(w, id)
    PROVE  OneWorkerInv'
  <1> USE DEF history
  <1>1. TypeOK
    BY DEF IInv
  <1> DEFINE item == Head(todo[w])
  <1>2. /\ phase[w] = "upsert" /\ todo[w] # <<>>
        /\ item.ioc \in Iocs /\ Matches(item.ioc) = {}
    BY DEF UpsertNew, Upserting, IsNew
  <1>3. item \in Item /\ item.confidence \in Given
    BY <1>1, <1>2, RestOfFeed
  <1> DEFINE object == Created(item, SourceName(w), now[w])
  <1> DEFINE entry == [base |-> NoRow, object |-> object, hits |-> 0]
  <1>4. /\ session'[w][id] = entry
        /\ \A other \in RowIds \ {id} : session'[w][other] = session[w][other]
        /\ todo'[w] = Tail(todo[w])
        /\ UNCHANGED <<rows, ledger, clock, phase, message, now>>
    BY <1>1 DEF UpsertNew, TypeOK
  <1>5. entry # NotLoaded
    <2>1. SourceName(w) \in Sources /\ now[w] \in Nat
      BY <1>1, <1>2, UpsertSource DEF TypeOK
    <2>2. entry \in Entry
      BY <1>2, <1>3, <2>1, CreatedType DEF Entry
    <2> QED
      BY <2>2, MarkersApart
  <1>6. entry.base = NoRow /\ entry.object.ioc = item.ioc
    BY DEF Created
  <1>7. NewCurrent(w, id)'
    <2>1. SourceName(w)' = SourceName(w) /\ now'[w] = now[w] /\ rows' = rows
      BY <1>4 DEF SourceName
    <2>2. /\ session'[w][id].object = object
          /\ Matches(object.ioc) = {}
      BY <1>2, <1>4 DEF Created
    <2>3. object = Created([ioc |-> object.ioc, confidence |-> item.confidence],
                           SourceName(w), now[w])
      BY DEF Created
    <2> HIDE DEF item, object
    <2> QED
      BY <1>3, <2>1, <2>2, <2>3, NewCurrentNext
  <1>8. item.ioc # Unknown
    BY <1>2, PlatformAssumption
  <1> HIDE DEF object
  <1> QED
    BY <1>1, <1>2, <1>4, <1>5, <1>6, <1>7, <1>8, SessionStep

------------------------------------------------------------------------------
(* An enrichment's read, and the two commits                                *)

\* The lookups start from the row as it is.
LEMMA LookupStep ==
    ASSUME IInv, OneWorker, OneWorkerInv,
           NEW w \in Workers, NEW m \in EnrichMessage, StartEnrichment(w, m)
    PROVE  OneWorkerInv'
  <1> USE DEF history
  <1>1. TypeOK /\ PhaseOK /\ \A v \in Workers : v = w
    BY DEF IInv, OneWorker
  <1>2. /\ session[w] = EmptySession
        /\ UNCHANGED <<rows, ledger, clock, todo, now>>
        /\ m.target \in RowIds
    BY <1>1 DEF StartEnrichment, Receive, PhaseOK, EnrichMessage
  <1>3. CASE rows[m.target] = NoRow
    <2>1. /\ session'[w] = EmptySession /\ phase'[w] = "ack"
          /\ todo'[w] = todo[w]
      BY <1>1, <1>2, <1>3 DEF StartEnrichment, TypeOK
    <2> QED
      BY <1>1, <1>2, <2>1, RestingStep
  <1>4. CASE rows[m.target] # NoRow
    <2>1. /\ session'[w][m.target] = [base |-> rows[m.target],
                                      object |-> rows[m.target], hits |-> 0]
          /\ \A id \in RowIds \ {m.target} : session'[w][id] = NotLoaded
          /\ phase'[w] = "lookup"
      BY <1>1, <1>2, <1>4 DEF StartEnrichment, TypeOK, EmptySession
    <2>2. /\ UniqueRows' /\ LedgerExact' /\ ScoreCoherent' /\ SeenInOrder'
          /\ Committed' = Committed
      BY <1>2, SameTable
    <2>3. RestNamesOnce'
      BY <1>1, <1>2, <2>1
      DEF OneWorkerInv, RestNamesOnce, NamesOnce, Given
    <2>4. SessionCurrent'
      BY <1>1, <1>2, <1>4, <2>1 DEF SessionCurrent, LoadedCurrent
    <2>5. SessionNamesOnce' /\ Clocked'
      BY <1>1, <1>2, <2>1, <2>2 DEF OneWorkerInv, SessionNamesOnce, Clocked
    <2> QED
      BY <2>2, <2>3, <2>4, <2>5 DEF OneWorkerInv
  <1> QED
    BY <1>3, <1>4

\* The flush of an object over the row it was loaded from writes the object.
LEMMA UpdatedCurrent ==
    ASSUME NEW db \in Row, NEW object \in Row, object.ioc = db.ioc,
           NEW rescored \in BOOLEAN
    PROVE  Updated(db, db, object, rescored) = object
  BY DEF Updated, Column, Row

\* After a step that empties the sessions and ends every upsert only the
\* table matters.
LEMMA EmptiedStep ==
    ASSUME OneWorkerInv, todo' = todo \/ (\A w \in Workers : todo'[w] = <<>>),
           \A w \in Workers : session'[w] = EmptySession /\ phase'[w] # "upsert"
    PROVE  RestNamesOnce' /\ SessionCurrent' /\ SessionNamesOnce'
  <1>1. \A w \in Workers, id \in RowIds : session'[w][id] = NotLoaded
    BY DEF EmptySession
  <1>2. NamesOnce(<<>>) /\ DOMAIN <<>> = {}
    BY DEF NamesOnce
  <1>3. RestNamesOnce'
    BY <1>1, <1>2 DEF OneWorkerInv, RestNamesOnce, NamesOnce, Given
  <1> QED
    BY <1>1, <1>3 DEF SessionCurrent, SessionNamesOnce

\* What the commit of an upsert makes of one row and its ledger.
LEMMA CommittedExact ==
    ASSUME IInv, PlainFeeds, OneWorkerInv, NEW w \in Workers,
           phase[w] = "upsert", NEW id \in RowIds, NEW rescored \in BOOLEAN,
           session[w][id] # NotLoaded,
           NEW row, row = Flushed(rows[id], session[w][id], rescored),
           NEW led, led = Recorded(ledger[id], session[w][id], SourceName(w))
    PROVE  /\ row = session[w][id].object /\ row \in Row
           /\ row.last = now[w] /\ row.first <= row.last
           /\ row.score = ScoreOf(row.confidence, row.enrichment)
           /\ row.confidence = IF led.earned <= 100 THEN led.earned ELSE 100
           /\ row.sources = led.reported
           /\ session[w][id].base # NoRow
                => /\ id \in Committed /\ rows[id] \in Row
                   /\ row = Sighted(rows[id], SourceName(w), now[w])
           /\ session[w][id].base = NoRow
                => rows[id] = NoRow /\ Matches(row.ioc) = {}
  <1> DEFINE entry == session[w][id]
             source == SourceName(w)
  <1>1. TypeOK
    BY DEF IInv
  <1>2. /\ entry \in Entry /\ entry.object \in Row
        /\ rows[id] \in Row \cup {NoRow} /\ ledger[id] \in Ledger \cup {NoRow}
        /\ now[w] \in Nat /\ source \in Sources
    BY <1>1, UpsertSource DEF TypeOK, Entry
  <1>3. CASE entry.base = NoRow
    <2>1. PICK c \in Given :
             entry.object = Created([ioc |-> entry.object.ioc,
                                     confidence |-> c], source, now[w])
      BY <1>3 DEF OneWorkerInv, SessionCurrent, NewCurrent
    <2>2. c \in Int /\ c <= 100
      BY GivenType DEF PlainFeeds
    <2>3. /\ entry.object.confidence = c
          /\ entry.object.first = now[w] /\ entry.object.last = now[w]
          /\ entry.object.sources = {source}
          /\ entry.object.score = ScoreOf(entry.object.confidence,
                                          entry.object.enrichment)
      <3> HIDE DEF entry, source
      <3> QED
        BY <2>1 DEF Created
    <2>4. /\ row = entry.object
          /\ led = [earned |-> entry.object.confidence, reporter |-> source,
                    reported |-> {source}]
      BY <1>3 DEF Flushed, Recorded
    <2>5. rows[id] = NoRow /\ Matches(entry.object.ioc) = {}
      BY <1>3 DEF IInv, SessionsDisjoint, OneWorkerInv, SessionCurrent,
         NewCurrent
    <2> QED
      BY <1>2, <1>3, <2>2, <2>3, <2>4, <2>5
  <1>4. CASE entry.base # NoRow
    <2> DEFINE db == rows[id]
               old == ledger[id]
    <2>1. /\ db \in Row /\ db # NoRow /\ old \in Ledger /\ id \in Committed
      BY <1>2, <1>4 DEF IInv, SessionsDisjoint, LedgerOK, Committed
    <2>2. /\ entry.base = db /\ entry.hits = 1
          /\ entry.object = Sighted(db, source, now[w])
      BY <1>4 DEF OneWorkerInv, SessionCurrent, LoadedCurrent
    <2>3. row = Updated(db, db, entry.object, rescored)
      BY <1>4, <2>2 DEF Flushed
    <2>4. /\ entry.object.ioc = db.ioc /\ entry.object.first = db.first
          /\ entry.object.last = now[w]
          /\ entry.object.confidence = Boosted(db.confidence)
          /\ entry.object.sources = db.sources \cup {source}
          /\ entry.object.score = ScoreOf(entry.object.confidence,
                                          entry.object.enrichment)
      <3> HIDE DEF entry, db, source
      <3> QED
        BY <2>1, <2>2, SightedIoc
    <2>5. row = entry.object
      BY <1>2, <2>1, <2>3, <2>4, UpdatedCurrent
    <2>6. led.earned = old.earned + 5 /\ led.reported = old.reported \cup {source}
      BY <1>4, <2>2 DEF Recorded
    <2>7. /\ db.confidence = IF old.earned <= 100 THEN old.earned ELSE 100
          /\ db.sources = old.reported
          /\ db.first <= db.last /\ db.last < now[w]
          /\ db.first \in Nat /\ db.last \in Nat /\ old.earned \in Int
      BY <2>1 DEF OneWorkerInv, LedgerExact, SeenInOrder, Clocked, Row, Ledger
    <2>8. entry.object.confidence = IF led.earned <= 100 THEN led.earned ELSE 100
      BY <2>4, <2>6, <2>7 DEF Boosted
    <2> QED
      BY <1>2, <1>4, <2>1, <2>2, <2>4, <2>5, <2>6, <2>7, <2>8
  <1> QED
    BY <1>3, <1>4

\* The commit of an upsert.
LEMMA CommitUpsertExact ==
    ASSUME IInv, OneWorker, PlainFeeds, OneWorkerInv, NEW w \in Workers,
           NEW rescored \in BOOLEAN, CommitUpsert(w, rescored)
    PROVE  OneWorkerInv'
  <1>1. TypeOK /\ \A v \in Workers : v = w
    BY DEF IInv, OneWorker
  <1>2. /\ phase[w] = "upsert" /\ phase'[w] \in {"ack", "dispatch"}
        /\ session'[w] = EmptySession
        /\ UNCHANGED <<todo, clock>>
        /\ \A id \in RowIds :
              /\ rows'[id] = Flushed(rows[id], session[w][id], rescored)
              /\ ledger'[id] = Recorded(ledger[id], session[w][id],
                                        SourceName(w))
    BY <1>1 DEF CommitUpsert, TypeOK
  <1>3. ASSUME NEW id \in RowIds, session[w][id] = NotLoaded
        PROVE  rows'[id] = rows[id] /\ ledger'[id] = ledger[id]
    BY <1>2, <1>3 DEF Flushed, Recorded
  <1>4. ASSUME NEW id \in RowIds, session[w][id] # NotLoaded
        PROVE  /\ rows'[id].ioc = session[w][id].object.ioc
               /\ rows'[id].last = now[w] /\ rows'[id].first <= rows'[id].last
               /\ rows'[id].score = ScoreOf(rows'[id].confidence,
                                            rows'[id].enrichment)
               /\ rows'[id].confidence = IF ledger'[id].earned <= 100
                                           THEN ledger'[id].earned ELSE 100
               /\ rows'[id].sources = ledger'[id].reported
               /\ \A other \in Committed :
                     rows[other].ioc = rows'[id].ioc
                       => id \in Committed /\ rows[id].ioc = rows'[id].ioc
    <2> DEFINE row == rows'[id]
               led == ledger'[id]
    <2>1. /\ row = session[w][id].object
          /\ row.last = now[w] /\ row.first <= row.last
          /\ row.score = ScoreOf(row.confidence, row.enrichment)
          /\ row.confidence = IF led.earned <= 100 THEN led.earned ELSE 100
          /\ row.sources = led.reported
          /\ session[w][id].base # NoRow
               => /\ id \in Committed /\ rows[id] \in Row
                  /\ row = Sighted(rows[id], SourceName(w), now[w])
          /\ session[w][id].base = NoRow
               => rows[id] = NoRow /\ Matches(row.ioc) = {}
      <3>1. /\ row = Flushed(rows[id], session[w][id], rescored)
            /\ led = Recorded(ledger[id], session[w][id], SourceName(w))
        BY <1>2
      <3> HIDE DEF row, led
      <3> QED
        BY <1>2, <1>4, <3>1, CommittedExact
    <2>2. CASE session[w][id].base # NoRow
      BY <2>1, <2>2, SightedIoc
    <2>3. CASE session[w][id].base = NoRow
      <3>1. \A other \in Committed : rows[other].ioc # row.ioc
        BY <2>1, <2>3 DEF Matches, Committed
      <3> QED
        BY <2>1, <3>1
    <2> QED
      BY <2>2, <2>3
  <1>5. \A id \in RowIds :
           id \in Committed' => id \in Committed \/ session[w][id] # NotLoaded
    BY <1>3 DEF Committed
  <1>6. UniqueRows'
    <2> SUFFICES ASSUME NEW id1 \in Committed', NEW id2 \in Committed',
                        rows'[id1].ioc = rows'[id2].ioc
                 PROVE  id1 = id2
      BY DEF UniqueRows
    <2>0. id1 \in RowIds /\ id2 \in RowIds
      BY DEF Committed
    <2>1. \A i, j \in Committed : rows[i].ioc = rows[j].ioc => i = j
      BY DEF OneWorkerInv, UniqueRows
    <2>2. CASE session[w][id1] # NotLoaded /\ session[w][id2] # NotLoaded
      BY <1>2, <1>4, <2>0, <2>2 DEF OneWorkerInv, SessionNamesOnce
    <2>3. CASE session[w][id1] = NotLoaded /\ session[w][id2] = NotLoaded
      BY <1>3, <1>5, <2>0, <2>1, <2>3
    <2>4. CASE session[w][id1] # NotLoaded /\ session[w][id2] = NotLoaded
      BY <1>3, <1>4, <1>5, <2>0, <2>1, <2>4
    <2>5. CASE session[w][id1] = NotLoaded /\ session[w][id2] # NotLoaded
      BY <1>3, <1>4, <1>5, <2>0, <2>1, <2>5
    <2> QED
      BY <2>2, <2>3, <2>4, <2>5
  <1>7. LedgerExact' /\ ScoreCoherent' /\ SeenInOrder'
    <2> SUFFICES ASSUME NEW id \in Committed'
                 PROVE  /\ rows'[id].confidence =
                             IF ledger'[id].earned <= 100
                               THEN ledger'[id].earned ELSE 100
                        /\ rows'[id].sources = ledger'[id].reported
                        /\ rows'[id].score = ScoreOf(rows'[id].confidence,
                                                     rows'[id].enrichment)
                        /\ rows'[id].first <= rows'[id].last
      BY DEF LedgerExact, ScoreCoherent, SeenInOrder, ScoreOf
    <2>0. id \in RowIds
      BY DEF Committed
    <2>1. CASE session[w][id] = NotLoaded
      BY <1>3, <1>5, <2>0, <2>1
      DEF OneWorkerInv, LedgerExact, ScoreCoherent, SeenInOrder
    <2> QED
      BY <1>4, <2>0, <2>1
  <1>8. Clocked'
    <2>1. /\ \A id \in Committed : rows[id].last <= clock
          /\ now[w] = clock /\ clock \in Nat
      BY <1>1, <1>2 DEF OneWorkerInv, Clocked, TypeOK
    <2>2. \A id \in Committed' : id \in RowIds /\ rows'[id].last <= clock'
      BY <1>2, <1>3, <1>4, <1>5, <2>1 DEF Committed
    <2> QED
      BY <1>1, <1>2, <2>2 DEF Clocked
  <1> QED
    BY <1>1, <1>2, <1>6, <1>7, <1>8, EmptiedStep DEF OneWorkerInv

\* What an enrichment writes: its data and the score, over the row as it is.
LEMMA EnrichedExact ==
    ASSUME IInv, OneWorkerInv, NEW w \in Workers, NEW vt \in VtResults,
           NEW sh \in Results, NEW rescored \in BOOLEAN,
           CommitEnrichment(w, vt, sh, rescored)
    PROVE  /\ message[w].target \in Committed
           /\ rows' = [rows EXCEPT ![message[w].target] = Enriched(@, vt, sh)]
  <1> DEFINE id == message[w].target
             entry == session[w][id]
  <1>1. TypeOK /\ phase[w] = "lookup"
    BY DEF IInv, CommitEnrichment
  <1>2. id \in RowIds
    BY <1>1 DEF IInv, PhaseOK, EnrichMessage
  <1>3. entry # NotLoaded /\ entry.base # NoRow
    BY <1>1 DEF IInv, LookupLoaded
  <1>4. id \in Committed /\ rows[id] \in Row
    BY <1>1, <1>2, <1>3 DEF IInv, SessionsDisjoint, Committed, TypeOK
  <1>5. entry.base = rows[id] /\ entry.object = rows[id]
    BY <1>1, <1>2, <1>3 DEF OneWorkerInv, SessionCurrent, LoadedCurrent, IInv,
       SessionsEarned, LoadedEarned
  <1>6. rows' = [rows EXCEPT ![id] = Updated(rows[id], rows[id],
                                             Enriched(rows[id], vt, sh),
                                             rescored)]
    BY <1>5 DEF CommitEnrichment
  <1> HIDE DEF id, entry
  <1>7. Enriched(rows[id], vt, sh) \in Row
    BY <1>4, EnrichedType DEF VtResults
  <1>8. Enriched(rows[id], vt, sh).ioc = rows[id].ioc
    BY <1>4 DEF Enriched, Row
  <1>9. Updated(rows[id], rows[id], Enriched(rows[id], vt, sh), rescored)
          = Enriched(rows[id], vt, sh)
    BY <1>4, <1>7, <1>8, UpdatedCurrent
  <1> QED
    BY <1>4, <1>6, <1>9 DEF id

\* The commit of an enrichment.
LEMMA CommitEnrichmentExact ==
    ASSUME IInv, OneWorker, OneWorkerInv, NEW w \in Workers,
           NEW vt \in VtResults, NEW sh \in Results, NEW rescored \in BOOLEAN,
           CommitEnrichment(w, vt, sh, rescored)
    PROVE  OneWorkerInv'
  <1> USE DEF history
  <1> DEFINE id == message[w].target
  <1>1. TypeOK /\ \A v \in Workers : v = w
    BY DEF IInv, OneWorker
  <1>2. /\ id \in Committed
        /\ rows' = [rows EXCEPT ![id] = Enriched(@, vt, sh)]
    BY EnrichedExact
  <1>3. /\ phase'[w] = "ack" /\ session'[w] = EmptySession /\ todo'[w] = <<>>
        /\ UNCHANGED <<clock, ledger>>
    BY <1>1 DEF CommitEnrichment, Over, TypeOK
  <1> HIDE DEF id
  <1>4. id \in RowIds /\ rows[id] \in Row /\ rows[id] # NoRow
    BY <1>1, <1>2 DEF Committed, TypeOK
  <1>5. /\ Enriched(rows[id], vt, sh) \in Row
        /\ Enriched(rows[id], vt, sh).ioc = rows[id].ioc
        /\ Enriched(rows[id], vt, sh).confidence = rows[id].confidence
        /\ Enriched(rows[id], vt, sh).first = rows[id].first
        /\ Enriched(rows[id], vt, sh).last = rows[id].last
        /\ Enriched(rows[id], vt, sh).sources = rows[id].sources
        /\ Enriched(rows[id], vt, sh).score
             = ScoreOf(Enriched(rows[id], vt, sh).confidence,
                       Enriched(rows[id], vt, sh).enrichment)
    <2>1. Enriched(rows[id], vt, sh) \in Row
      BY <1>4, EnrichedType DEF VtResults
    <2> QED
      BY <1>4, <2>1 DEF Enriched, Row
  <1>6. /\ rows'[id] = Enriched(rows[id], vt, sh)
        /\ \A other \in RowIds \ {id} : rows'[other] = rows[other]
    BY <1>1, <1>2, <1>4 DEF TypeOK
  <1>7. Committed' = Committed
    BY <1>4, <1>5, <1>6, MarkersApart DEF Committed
  <1>8. ASSUME NEW other \in Committed
        PROVE  /\ other \in RowIds
               /\ rows'[other].ioc = rows[other].ioc
               /\ rows'[other].confidence = rows[other].confidence
               /\ rows'[other].first = rows[other].first
               /\ rows'[other].last = rows[other].last
               /\ rows'[other].sources = rows[other].sources
               /\ rows'[other].score = ScoreOf(rows'[other].confidence,
                                               rows'[other].enrichment)
    <2>1. other \in RowIds
      BY DEF Committed
    <2>2. CASE other = id
      BY <1>5, <1>6, <2>1, <2>2
    <2>3. CASE other # id
      BY <1>6, <2>1, <2>3 DEF OneWorkerInv, ScoreCoherent
    <2> QED
      BY <2>2, <2>3
  <1>9. UniqueRows'
    BY <1>7, <1>8 DEF OneWorkerInv, UniqueRows
  <1>10. LedgerExact'
    BY <1>3, <1>7, <1>8 DEF OneWorkerInv, LedgerExact
  <1>11. ScoreCoherent'
    BY <1>7, <1>8 DEF ScoreCoherent, ScoreOf
  <1>12. SeenInOrder'
    BY <1>7, <1>8 DEF OneWorkerInv, SeenInOrder
  <1>13. Clocked'
    BY <1>1, <1>3, <1>7, <1>8 DEF OneWorkerInv, Clocked
  <1> QED
    BY <1>1, <1>3, <1>9, <1>10, <1>11, <1>12, <1>13, EmptiedStep
    DEF OneWorkerInv

------------------------------------------------------------------------------
(* The invariant                                                            *)

\* Nothing is loaded and nothing committed when the platform starts.
LEMMA InitOneWorker == Init => OneWorkerInv
  <1> SUFFICES ASSUME Init PROVE OneWorkerInv
    OBVIOUS
  <1>1. /\ Committed = {}
        /\ \A w \in Workers :
              /\ todo[w] = <<>> /\ phase[w] = "idle"
              /\ \A id \in RowIds : session[w][id] = NotLoaded
    BY DEF Init, Committed, EmptySession
  <1>2. RestNamesOnce
    BY <1>1 DEF RestNamesOnce, NamesOnce
  <1>3. SessionCurrent /\ SessionNamesOnce
    BY <1>1 DEF SessionCurrent, SessionNamesOnce
  <1>4. Clocked
    BY <1>1 DEF Clocked
  <1>5. UniqueRows /\ LedgerExact /\ ScoreCoherent /\ SeenInOrder
    BY <1>1 DEF UniqueRows, LedgerExact, ScoreCoherent, SeenInOrder
  <1> QED
    BY <1>2, <1>3, <1>4, <1>5 DEF OneWorkerInv

\* Each action of the API and of the worker preserves it.
LEMMA NextOneWorker ==
    ASSUME OneWorker, PlainFeeds
    PROVE  IInv /\ OneWorkerInv /\ [Next]_vars => OneWorkerInv'
  <1> SUFFICES ASSUME IInv, OneWorkerInv, [Next]_vars PROVE OneWorkerInv'
    OBVIOUS
  <1>1. CASE \E r \in Requests : TriggerIngestion(r)
    BY <1>1, RestingSteps
  <1>2. ASSUME NEW w \in Workers, IngestStep(w) PROVE OneWorkerInv'
    BY <1>2, RestingSteps, BeginStep, SkipStep, ExistingStep, NewStep,
       CommitUpsertExact DEF IngestStep
  <1>3. ASSUME NEW w \in Workers, EnrichStep(w) PROVE OneWorkerInv'
    <2>1. CASE \E m \in EnrichMessage : StartEnrichment(w, m)
      BY <2>1, LookupStep
    <2>2. CASE \E vt \in VtResults, sh \in Results, rescored \in BOOLEAN :
                  CommitEnrichment(w, vt, sh, rescored)
      BY <2>2, CommitEnrichmentExact
    <2>3. CASE LookupRaises(w) \/ LookupLost(w) \/ EnrichmentFails(w)
      BY <2>3, RestingSteps
    <2> QED
      BY <1>3, <2>1, <2>2, <2>3 DEF EnrichStep
  <1>4. ASSUME NEW w \in Workers, Ack(w) \/ Crash(w) PROVE OneWorkerInv'
    BY <1>4, RestingSteps
  <1>5. CASE UNCHANGED vars
    <2>1. UNCHANGED <<rows, ledger, clock, session, phase, message, now, todo>>
      BY <1>5 DEF vars, local, history
    <2> QED
      BY <2>1, RestingStep
  <1> QED
    BY <1>1, <1>2, <1>3, <1>4, <1>5 DEF Next, WorkerStep

\* One worker's sessions are never out of date, so the table it writes is
\* exact: the invariant behind the theorems that follow.
THEOREM OneWorkerInvariance ==
    ASSUME OneWorker, PlainFeeds
    PROVE  Spec => []OneWorkerInv
  <1>1. IInv /\ OneWorkerInv /\ [Next]_vars => OneWorkerInv'
    BY NextOneWorker
  <1> QED
    BY <1>1, InitOneWorker, Invariance, PTL DEF Spec

\* The SELECT before each INSERT keeps an indicator in one row, although the
\* table has no unique constraint.
THEOREM RowsUnique ==
    ASSUME OneWorker, PlainFeeds
    PROVE  Spec => []UniqueRows
  <1>1. OneWorkerInv => UniqueRows
    BY DEF OneWorkerInv
  <1> QED
    BY <1>1, OneWorkerInvariance, PTL

\* A row is exactly what its sightings amount to: no update is lost and none
\* counted twice, whatever crashes roll back and redeliveries repeat.
THEOREM RowsExact ==
    ASSUME OneWorker, PlainFeeds
    PROVE  Spec => []LedgerExact
  <1>1. OneWorkerInv => LedgerExact
    BY DEF OneWorkerInv
  <1> QED
    BY <1>1, OneWorkerInvariance, PTL

\* The stored score is always that of the stored confidence and enrichment.
THEOREM ScoresCoherent ==
    ASSUME OneWorker, PlainFeeds
    PROVE  Spec => []ScoreCoherent
  <1>1. OneWorkerInv => ScoreCoherent
    BY DEF OneWorkerInv
  <1> QED
    BY <1>1, OneWorkerInvariance, PTL

\* No row is last seen before it was first seen.
THEOREM RowsInOrder ==
    ASSUME OneWorker, PlainFeeds
    PROVE  Spec => []SeenInOrder
  <1>1. OneWorkerInv => SeenInOrder
    BY DEF OneWorkerInv
  <1> QED
    BY <1>1, OneWorkerInvariance, PTL

------------------------------------------------------------------------------
(* The refinement of the registry                                           *)

\* A table without doubles has of each indicator its one row.
LEMMA RegistryOfIs ==
    ASSUME NEW t \in [RowIds -> Row \cup {NoRow}],
           \A id1, id2 \in RowIds :
              t[id1] # NoRow /\ t[id2] # NoRow /\ t[id1].ioc = t[id2].ioc
                => id1 = id2
    PROVE  /\ DOMAIN RegistryOf(t) = Iocs
           /\ RegistryOf(t) = [i \in Iocs |-> RegistryOf(t)[i]]
           /\ \A id \in RowIds :
                 t[id] # NoRow => /\ t[id].ioc \in Iocs
                                  /\ RegistryOf(t)[t[id].ioc] = t[id]
           /\ \A i \in Iocs :
                 RegistryOf(t)[i] # NoRow
                   => \E id \in RowIds : /\ t[id] # NoRow /\ t[id].ioc = i
                                         /\ RegistryOf(t)[i] = t[id]
  <1> DEFINE Ids(i) == {id \in RowIds : t[id] # NoRow /\ t[id].ioc = i}
             pick(i) == CHOOSE id \in Ids(i) : TRUE
  <1>1. RegistryOf(t) = [i \in Iocs |-> IF Ids(i) = {} THEN NoRow
                                        ELSE t[pick(i)]]
    BY DEF RegistryOf
  <1>2. \A i \in Iocs : Ids(i) # {} => pick(i) \in Ids(i)
    OBVIOUS
  <1>3. \A i \in Iocs : RegistryOf(t)[i] = IF Ids(i) = {} THEN NoRow
                                           ELSE t[pick(i)]
    <2> HIDE DEF pick, Ids
    <2> QED
      BY <1>1
  <1>4. \A i \in Iocs : \A id \in Ids(i) :
           id \in RowIds /\ t[id] # NoRow /\ t[id].ioc = i
    OBVIOUS
  <1>5. \A id \in RowIds : t[id] # NoRow => t[id].ioc \in Iocs
                                            /\ id \in Ids(t[id].ioc)
    BY DEF Row
  <1>6. /\ DOMAIN RegistryOf(t) = Iocs
        /\ RegistryOf(t) = [i \in Iocs |-> RegistryOf(t)[i]]
    BY <1>1, <1>3
  <1> HIDE DEF pick, Ids
  <1>7. \A id \in RowIds : t[id] # NoRow => RegistryOf(t)[t[id].ioc] = t[id]
    BY <1>2, <1>3, <1>4, <1>5
  <1> QED
    BY <1>2, <1>3, <1>4, <1>5, <1>6, <1>7

\* The table before and after a step.
LEMMA TableIs ==
    ASSUME TypeOK, UniqueRows
    PROVE  /\ rows \in [RowIds -> Row \cup {NoRow}]
           /\ \A id1, id2 \in RowIds :
                 /\ rows[id1] # NoRow /\ rows[id2] # NoRow
                 /\ rows[id1].ioc = rows[id2].ioc
                 => id1 = id2
  BY DEF TypeOK, UniqueRows, Committed

\* The commit of an upsert is one report of its source, on every indicator in
\* the session at once.
LEMMA UpsertReports ==
    ASSUME IInv, OneWorker, PlainFeeds, OneWorkerInv, NEW w \in Workers,
           NEW rescored \in BOOLEAN, CommitUpsert(w, rescored),
           TypeOK', UniqueRows'
    PROVE  [Registry!Next]_(RegistryOf(rows))
  <1> DEFINE reg == RegistryOf(rows)
             next == RegistryOf(rows')
             source == SourceName(w)
             time == now[w]
             Touched == {id \in RowIds : session[w][id] # NotLoaded}
             S == {rows'[id].ioc : id \in Touched}
  <1>1. /\ TypeOK /\ phase[w] = "upsert" /\ source \in Sources
        /\ rows' = [id \in RowIds |->
                       Flushed(rows[id], session[w][id], rescored)]
        /\ \A id \in RowIds :
              rows'[id] = Flushed(rows[id], session[w][id], rescored)
    BY UpsertSource DEF IInv, CommitUpsert
  <1>2. /\ \A id \in RowIds :
              rows[id] # NoRow => /\ rows[id].ioc \in Iocs
                                  /\ reg[rows[id].ioc] = rows[id]
        /\ \A i \in Iocs :
              reg[i] # NoRow
                => \E id \in RowIds : /\ rows[id] # NoRow /\ rows[id].ioc = i
                                      /\ reg[i] = rows[id]
        /\ DOMAIN reg = Iocs /\ reg = [i \in Iocs |-> reg[i]]
    BY <1>1, TableIs, RegistryOfIs DEF OneWorkerInv
  <1>3. /\ \A id \in RowIds :
              rows'[id] # NoRow => /\ rows'[id].ioc \in Iocs
                                   /\ next[rows'[id].ioc] = rows'[id]
        /\ \A i \in Iocs :
              next[i] # NoRow
                => \E id \in RowIds : /\ rows'[id] # NoRow
                                      /\ rows'[id].ioc = i
                                      /\ next[i] = rows'[id]
        /\ DOMAIN next = Iocs /\ next = [i \in Iocs |-> next[i]]
    <2>1. /\ rows' \in [RowIds -> Row \cup {NoRow}]
          /\ \A id1, id2 \in RowIds :
                /\ rows'[id1] # NoRow /\ rows'[id2] # NoRow
                /\ rows'[id1].ioc = rows'[id2].ioc
                => id1 = id2
      BY DEF TypeOK, UniqueRows, Committed
    <2> QED
      BY <2>1, RegistryOfIs
  <1>4. ASSUME NEW id \in RowIds, session[w][id] = NotLoaded
        PROVE  rows'[id] = rows[id]
    BY <1>1, <1>4 DEF Flushed
  <1>5. ASSUME NEW id \in Touched
        PROVE  /\ id \in RowIds /\ rows'[id] \in Row /\ rows'[id] # NoRow
               /\ rows'[id].ioc \in Iocs /\ rows'[id].last = time
               /\ rows'[id] = session[w][id].object
               /\ \/ /\ rows[id] # NoRow /\ rows[id] \in Row
                     /\ rows[id].ioc = rows'[id].ioc
                     /\ rows[id].last < time
                     /\ rows'[id] = Sighted(rows[id], source, time)
                  \/ /\ rows[id] = NoRow
                     /\ \A other \in RowIds : rows[other] # NoRow
                           => rows[other].ioc # rows'[id].ioc
                     /\ \E c \in Given :
                           rows'[id] = Created([ioc |-> rows'[id].ioc,
                                                confidence |-> c],
                                               source, time)
    <2> DEFINE row == rows'[id]
    <2>1. /\ row = session[w][id].object /\ row \in Row
          /\ row.last = time
          /\ session[w][id].base # NoRow
               => /\ id \in Committed /\ rows[id] \in Row
                  /\ row = Sighted(rows[id], source, time)
          /\ session[w][id].base = NoRow
               => rows[id] = NoRow /\ Matches(row.ioc) = {}
      <3>1. row = Flushed(rows[id], session[w][id], rescored)
        BY <1>1
      <3> DEFINE led == Recorded(ledger[id], session[w][id], SourceName(w))
      <3>2. led = Recorded(ledger[id], session[w][id], SourceName(w))
        OBVIOUS
      <3> HIDE DEF row, led
      <3> QED
        BY <1>1, <1>5, <3>1, <3>2, CommittedExact
    <2>2. row # NoRow /\ row.ioc \in Iocs
      BY <2>1, MarkersApart DEF Row
    <2>3. CASE session[w][id].base # NoRow
      BY <1>1, <2>1, <2>2, <2>3, SightedIoc
      DEF OneWorkerInv, Clocked, Committed
    <2>4. CASE session[w][id].base = NoRow
      <3>1. PICK c \in Given :
               session[w][id].object
                 = Created([ioc |-> session[w][id].object.ioc,
                            confidence |-> c], source, time)
        BY <1>5, <2>4 DEF OneWorkerInv, SessionCurrent, NewCurrent
      <3>2. \A other \in RowIds : rows[other] # NoRow => rows[other].ioc # row.ioc
        BY <2>1, <2>4 DEF Matches
      <3> HIDE DEF source, time
      <3> QED
        BY <1>5, <2>1, <2>2, <2>4, <3>1, <3>2
    <2> QED
      BY <2>3, <2>4
  <1>6. CASE Touched = {}
    <2>1. rows' = rows
      BY <1>1, <1>4, <1>6 DEF TypeOK
    <2> QED
      BY <2>1
  <1>7. CASE Touched # {}
    <2> HIDE DEF reg, next, source, time
    <2>1. ASSUME NEW i \in Iocs, i \notin S
          PROVE  next[i] = reg[i]
      <3>1. CASE next[i] # NoRow
        <4>1. PICK id \in RowIds : /\ rows'[id] # NoRow /\ rows'[id].ioc = i
                                   /\ next[i] = rows'[id]
          BY <1>3, <3>1
        <4>2. session[w][id] = NotLoaded
          BY <2>1, <4>1
        <4> QED
          BY <1>2, <1>4, <4>1, <4>2
      <3>2. CASE reg[i] # NoRow
        <4>1. PICK id \in RowIds : /\ rows[id] # NoRow /\ rows[id].ioc = i
                                   /\ reg[i] = rows[id]
          BY <1>2, <3>2
        <4>2. session[w][id] = NotLoaded
          BY <1>5, <2>1, <4>1
        <4> QED
          BY <1>3, <1>4, <4>1, <4>2
      <3> QED
        BY <3>1, <3>2
    <2>2. ASSUME NEW i \in S
          PROVE  IF reg[i] = NoRow
                   THEN \E c \in Given :
                           next[i] = Created([ioc |-> i, confidence |-> c],
                                             source, time)
                   ELSE /\ reg[i] \in Row /\ reg[i].last < time
                        /\ next[i] = Sighted(reg[i], source, time)
      <3>1. PICK id \in Touched : rows'[id].ioc = i
        OBVIOUS
      <3>2. next[i] = rows'[id] /\ i \in Iocs
        BY <1>3, <1>5, <3>1
      <3>3. CASE rows[id] # NoRow
        BY <1>2, <1>5, <3>1, <3>2, <3>3
      <3>4. CASE rows[id] = NoRow
        <4>1. reg[i] = NoRow
          BY <1>2, <1>5, <3>1, <3>2, <3>4
        <4> QED
          BY <1>5, <3>1, <3>2, <3>4, <4>1
      <3> QED
        BY <3>3, <3>4
    <2>3. /\ S \in (SUBSET Iocs) \ {{}}
          /\ \E i \in Iocs : next[i] # NoRow /\ next[i].last = time
      <3>1. PICK id \in Touched : TRUE
        BY <1>7
      <3>2. S # {} /\ next[rows'[id].ioc] = rows'[id]
        BY <1>3, <1>5, <3>1
      <3>3. S \subseteq Iocs
        BY <1>5
      <3> QED
        BY <1>5, <3>1, <3>2, <3>3
    <2> HIDE DEF S, Touched
    <2>4. Registry!Report(source, S)
      <3>1. time \in Registry!Times
        BY <2>3 DEF Registry!Times, next
      <3>2. ASSUME NEW i \in Iocs, i \in S, reg[i] = NoRow
            PROVE  Registry!Opens(i, source, time)
        <4>1. PICK c \in Given :
                 next[i] = Created([ioc |-> i, confidence |-> c], source, time)
          BY <2>2, <3>2
        <4> QED
          BY <4>1 DEF Registry!Opens, Registry!Score, Created, ScoreOf, Given,
             next
      <3>3. ASSUME NEW i \in Iocs, i \in S, reg[i] # NoRow
            PROVE  Registry!Reinforces(i, source, time)
        <4>1. /\ reg[i] \in Row /\ reg[i].last < time
              /\ next[i] = Sighted(reg[i], source, time)
          BY <2>2, <3>3
        <4> QED
          BY <4>1 DEF Registry!Reinforces, Registry!Score,
             Registry!Reinforced, Sighted, Boosted, ScoreOf, reg, next
      <3> QED
        BY <2>1, <3>1, <3>2, <3>3 DEF Registry!Report, reg, next
    <2> QED
      BY <1>1, <2>3, <2>4 DEF Registry!Next, source
  <1> QED
    BY <1>6, <1>7

\* The commit of an enrichment completes one record.
LEMMA EnrichmentEnriches ==
    ASSUME IInv, OneWorkerInv, NEW w \in Workers, NEW vt \in VtResults,
           NEW sh \in Results, NEW rescored \in BOOLEAN,
           CommitEnrichment(w, vt, sh, rescored), TypeOK', UniqueRows'
    PROVE  [Registry!Next]_(RegistryOf(rows))
  <1> DEFINE id == message[w].target
             reg == RegistryOf(rows)
             next == RegistryOf(rows')
  <1>1. /\ id \in Committed
        /\ rows' = [rows EXCEPT ![id] = Enriched(@, vt, sh)]
    BY EnrichedExact
  <1> HIDE DEF id
  <1>2. TypeOK /\ id \in RowIds /\ rows[id] \in Row /\ rows[id] # NoRow
    BY <1>1 DEF IInv, Committed, TypeOK
  <1>3. /\ Enriched(rows[id], vt, sh) \in Row
        /\ Enriched(rows[id], vt, sh).ioc = rows[id].ioc
    <2>1. Enriched(rows[id], vt, sh) \in Row
      BY <1>2, EnrichedType DEF VtResults
    <2> QED
      BY <1>2, <2>1 DEF Enriched, Row
  <1>4. /\ rows'[id] = Enriched(rows[id], vt, sh) /\ rows'[id] # NoRow
        /\ \A other \in RowIds \ {id} : rows'[other] = rows[other]
    BY <1>1, <1>2, <1>3, MarkersApart DEF TypeOK
  <1>5. /\ \A other \in RowIds :
              rows[other] # NoRow => /\ rows[other].ioc \in Iocs
                                     /\ reg[rows[other].ioc] = rows[other]
        /\ \A i \in Iocs :
              reg[i] # NoRow
                => \E other \in RowIds : /\ rows[other] # NoRow
                                         /\ rows[other].ioc = i
                                         /\ reg[i] = rows[other]
        /\ DOMAIN reg = Iocs /\ reg = [i \in Iocs |-> reg[i]]
    BY <1>2, TableIs, RegistryOfIs DEF OneWorkerInv
  <1>6. /\ \A other \in RowIds :
              rows'[other] # NoRow => /\ rows'[other].ioc \in Iocs
                                      /\ next[rows'[other].ioc] = rows'[other]
        /\ \A i \in Iocs :
              next[i] # NoRow
                => \E other \in RowIds : /\ rows'[other] # NoRow
                                         /\ rows'[other].ioc = i
                                         /\ next[i] = rows'[other]
        /\ DOMAIN next = Iocs /\ next = [i \in Iocs |-> next[i]]
    <2>1. /\ rows' \in [RowIds -> Row \cup {NoRow}]
          /\ \A id1, id2 \in RowIds :
                /\ rows'[id1] # NoRow /\ rows'[id2] # NoRow
                /\ rows'[id1].ioc = rows'[id2].ioc
                => id1 = id2
      BY DEF TypeOK, UniqueRows, Committed
    <2> QED
      BY <2>1, RegistryOfIs
  <1> DEFINE at == rows[id].ioc
             data == [virustotal |-> vt, shodan |-> sh]
  <1> HIDE DEF reg, next
  <1>7. /\ at \in Iocs /\ reg[at] = rows[id] /\ reg[at] # NoRow
        /\ next[at] = Enriched(reg[at], vt, sh)
    BY <1>2, <1>3, <1>4, <1>5, <1>6
  <1>8. ASSUME NEW i \in Iocs, i # at
        PROVE  next[i] = reg[i]
    <2>1. CASE next[i] # NoRow
      <3>1. PICK other \in RowIds : /\ rows'[other] # NoRow
                                    /\ rows'[other].ioc = i
                                    /\ next[i] = rows'[other]
        BY <1>6, <2>1
      <3>2. other # id
        BY <1>3, <1>4, <1>8, <3>1
      <3> QED
        BY <1>4, <1>5, <3>1, <3>2
    <2>2. CASE reg[i] # NoRow
      <3>1. PICK other \in RowIds : /\ rows[other] # NoRow
                                    /\ rows[other].ioc = i
                                    /\ reg[i] = rows[other]
        BY <1>5, <2>2
      <3>2. other # id
        BY <1>8, <3>1
      <3> QED
        BY <1>4, <1>6, <3>1, <3>2
    <2> QED
      BY <2>1, <2>2
  <1>9. /\ reg[at] \in Row /\ data \in EnrichmentData
        /\ Enriched(reg[at], vt, sh)
             = [reg[at] EXCEPT !.enrichment = data,
                               !.score = ScoreOf(reg[at].confidence, data)]
    BY <1>2, <1>7 DEF Enriched, Merged, EnrichmentData, VtResults
  <1> HIDE DEF at, data
  <1>10. next = [reg EXCEPT ![at].enrichment = data,
                            ![at].score = ScoreOf(reg[at].confidence, data)]
    BY <1>5, <1>6, <1>7, <1>8, <1>9
  <1>11. Registry!Enrich(at)
    BY <1>7, <1>9, <1>10 DEF Registry!Enrich, Registry!Score, ScoreOf, reg, next
  <1> QED
    BY <1>7, <1>11 DEF Registry!Next

\* Behind one worker the platform is a registry: each commit is one report or
\* one enrichment that sees all those before it, and nothing else shows.
THEOREM PlatformIsRegistry ==
    ASSUME OneWorker, PlainFeeds
    PROVE  Spec => RegistrySpec
  <1>1. Init => Registry!Init
    BY DEF Init, Registry!Init, RegistryOf
  <1>2. /\ IInv /\ OneWorkerInv /\ [Next]_vars /\ IInv' /\ OneWorkerInv'
        => [Registry!Next]_(RegistryOf(rows))
    <2> SUFFICES ASSUME IInv, OneWorkerInv, [Next]_vars, TypeOK', UniqueRows'
                 PROVE  [Registry!Next]_(RegistryOf(rows))
      BY DEF IInv, OneWorkerInv
    <2>1. CASE rows' = rows
      BY <2>1
    <2>2. CASE rows' # rows
      <3>1. PICK w \in Workers :
               \/ \E rescored \in BOOLEAN : CommitUpsert(w, rescored)
               \/ \E vt \in VtResults, sh \in Results, rescored \in BOOLEAN :
                     CommitEnrichment(w, vt, sh, rescored)
        BY <2>2 DEF vars, Next, WorkerStep, IngestStep, EnrichStep, Crash, Ack,
           TriggerIngestion, StartIngestion, FetchFails, MalformedFeed,
           EmptyFeed, BeginUpsert, SkipUnknown, UpsertExisting, UpsertNew,
           UpsertFails, Dispatch, DispatchFails, StartEnrichment, LookupRaises,
           EnrichmentFails, FetchLost, LookupLost
      <3> QED
        BY <3>1, UpsertReports, EnrichmentEnriches
    <2> QED
      BY <2>1, <2>2
  <1>3. RegistrySpec <=> Registry!Init /\ [][Registry!Next]_(RegistryOf(rows))
    BY DEF RegistrySpec, Registry!Spec
  <1> QED
    BY <1>1, <1>2, <1>3, Invariance, OneWorkerInvariance, PTL DEF Spec
=============================================================================

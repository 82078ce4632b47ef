----------------------------- MODULE Ingestion ------------------------------
(***************************************************************************)
(* workers/ingestion: ingest_feed_url_task and upsert_indicators, one      *)
(* action for each point where the task meets the broker, the feed or the  *)
(* database.                                                               *)
(***************************************************************************)
EXTENDS Platform

\* POST /ingest: the request is accepted and its task published.
TriggerIngestion(r) ==
    /\ r \notin posted
    /\ posted' = posted \cup {r}
    /\ broker' = Sent(Ingest(r, 0))
    /\ UNCHANGED <<rows, clock, local, faults, history>>

StartIngestion(w, m) ==
    /\ Receive(w, m)
    /\ phase' = [phase EXCEPT ![w] = "fetch"]
    /\ UNCHANGED <<rows, posted, clock, now, todo, session, saved, faults,
                   history>>

\* Mutant of FetchFails: the task is put back instead of retried.
FetchFailsRequeued(w) ==
    /\ phase[w] = "fetch"
    /\ broker' = Sent(message[w])
    /\ Over(w)
    /\ UNCHANGED <<rows, posted, clock, faults, history>>

\* The GET fails, answers with an error status, or its body is not JSON.
FetchFails(w) ==
    /\ phase[w] = "fetch"
    /\ RetryTask(w)
    /\ UNCHANGED <<rows, posted, clock, faults, history>>

\* The same, and the broker refuses the retry: the request is lost.
FetchLost(w) ==
    /\ phase[w] = "fetch"
    /\ RetryRefused(w)
    /\ UNCHANGED <<rows, posted, clock, history>>

\* The JSON is not a list of objects: parse_generic_json_feed raises, and
\* what is raised after the fetch is not retried.
MalformedFeed(w) ==
    /\ phase[w] = "fetch"
    /\ Fault("malformed")
    /\ Over(w)
    /\ UNCHANGED <<rows, broker, posted, clock, history>>

\* A feed without items is a success that touches nothing.
EmptyFeed(w) ==
    /\ phase[w] = "fetch"
    /\ <<>> \in FeedBodies
    /\ Over(w)
    /\ UNCHANGED <<rows, broker, posted, clock, faults, history>>

\* upsert_indicators reads the clock once, for all the items of the feed.
\* Nothing else reads it, so it moves only here, and two reads differ.
BeginUpsert(w, items) ==
    /\ phase[w] = "fetch"
    /\ items # <<>>
    /\ clock' = clock + 1
    /\ now' = [now EXCEPT ![w] = clock']
    /\ todo' = [todo EXCEPT ![w] = items]
    /\ phase' = [phase EXCEPT ![w] = "upsert"]
    /\ UNCHANGED <<rows, broker, posted, message, session, saved, faults,
                   history>>

------------------------------------------------------------------------------
(* One turn of the loop over raw_indicators                                 *)

Upserting(w) == phase[w] = "upsert" /\ todo[w] # <<>>

SourceName(w) == SourceOf[message[w].target]

\* "Skipping unknown IOC format"
SkipUnknown(w) ==
    /\ Upserting(w)
    /\ Head(todo[w]).ioc = Unknown
    /\ todo' = [todo EXCEPT ![w] = Tail(@)]
    /\ UNCHANGED <<rows, broker, posted, clock, phase, message, now, session,
                   saved, faults, history>>

\* Mutant of Boosted: no cap.
BoostedUncapped(c) == c + 5

Boosted(c) == IF c + 5 <= 100 THEN c + 5 ELSE 100

\* Mutants of Sighted: the sources are replaced; the score is not computed
\* again; first_seen is moved instead of last_seen.
SightedReplacing(object, source, time) ==
    [object EXCEPT !.last = time,
                   !.confidence = Boosted(object.confidence),
                   !.sources = {source},
                   !.score = ScoreOf(Boosted(object.confidence),
                                     object.enrichment)]
SightedUnscored(object, source, time) ==
    [object EXCEPT !.last = time,
                   !.confidence = Boosted(object.confidence),
                   !.sources = @ \cup {source}]
SightedFirst(object, source, time) ==
    [object EXCEPT !.first = time,
                   !.confidence = Boosted(object.confidence),
                   !.sources = @ \cup {source},
                   !.score = ScoreOf(Boosted(object.confidence),
                                     object.enrichment)]

\* "DEDUPLICATION LOGIC"
Sighted(object, source, time) ==
    [object EXCEPT !.last = time,
                   !.confidence = Boosted(object.confidence),
                   !.sources = @ \cup {source},
                   !.score = ScoreOf(Boosted(object.confidence),
                                     object.enrichment)]

\* "NEW INDICATOR LOGIC"
Created(item, source, time) ==
    [ioc |-> item.ioc, confidence |-> item.confidence,
     first |-> time, last |-> time, sources |-> {source},
     enrichment |-> NotEnriched,
     score |-> ScoreOf(item.confidence, NotEnriched)]

\* The rows that the SELECT on (ioc_type, value) matches.
Matches(ioc) == {id \in RowIds : rows[id] # NoRow /\ rows[id].ioc = ioc}

\* What .first() makes of row id: an object that is already in the session is
\* not refreshed by the SELECT, it keeps what it was loaded with.
Loaded(w, id) ==
    IF session[w][id] = NotLoaded
      THEN [base |-> rows[id], object |-> rows[id], hits |-> 0]
      ELSE session[w][id]

\* .first() without ORDER BY: any match.
UpsertExisting(w, id) ==
    /\ Upserting(w)
    /\ id \in Matches(Head(todo[w]).ioc)
    /\ session' = [session EXCEPT ![w][id] =
                      [base |-> Loaded(w, id).base,
                       object |-> Sighted(Loaded(w, id).object, SourceName(w),
                                          now[w]),
                       hits |-> Loaded(w, id).hits + 1]]
    /\ saved' = [saved EXCEPT ![w] = Append(@, id)]
    /\ todo' = [todo EXCEPT ![w] = Tail(@)]
    /\ UNCHANGED <<rows, broker, posted, clock, phase, message, now, faults,
                   history>>

\* generate_stix_id: an identifier no row and no session has.
Fresh(id) == rows[id] = NoRow /\ \A v \in Workers : session[v][id] = NotLoaded

\* Mutants of IsNew: no SELECT, every item is inserted; an unknown format is
\* not skipped.
IsNewAlways(ioc) == ioc \in Iocs
IsNewUnknown(ioc) == Matches(ioc) = {}

IsNew(ioc) == ioc \in Iocs /\ Matches(ioc) = {}

\* Mutant of UpsertNew: the enrichment is dispatched inside the loop.
UpsertNewDispatching(w, id) ==
    /\ Upserting(w)
    /\ IsNew(Head(todo[w]).ioc)
    /\ Fresh(id)
    /\ session' = [session EXCEPT ![w][id] =
                      [base |-> NoRow,
                       object |-> Created(Head(todo[w]), SourceName(w), now[w]),
                       hits |-> 0]]
    /\ broker' = Sent(EnrichTask(id, 0))
    /\ todo' = [todo EXCEPT ![w] = Tail(@)]
    /\ UNCHANGED <<rows, posted, clock, phase, message, now, saved, faults,
                   history>>

\* The SELECT sees committed rows only: autoflush is off, so the objects this
\* session has added are not in the table yet.
UpsertNew(w, id) ==
    /\ Upserting(w)
    /\ IsNew(Head(todo[w]).ioc)
    /\ Fresh(id)
    /\ session' = [session EXCEPT ![w][id] =
                      [base |-> NoRow,
                       object |-> Created(Head(todo[w]), SourceName(w), now[w]),
                       hits |-> 0]]
    /\ saved' = [saved EXCEPT ![w] = Append(@, id)]
    /\ todo' = [todo EXCEPT ![w] = Tail(@)]
    /\ UNCHANGED <<rows, broker, posted, clock, phase, message, now, faults,
                   history>>

------------------------------------------------------------------------------
(* The commit and what follows it                                           *)

\* A statement or the commit raises: the session is closed, nothing was
\* written, and the error is raised again instead of retried.
UpsertFails(w) ==
    /\ phase[w] = "upsert"
    /\ Fault("database")
    /\ Over(w)
    /\ UNCHANGED <<rows, broker, posted, clock, history>>

\* History: the sightings of this session, added to those of the row.
Recorded(old, entry, source) ==
    CASE entry = NotLoaded -> old
      [] entry # NotLoaded /\ entry.base = NoRow ->
            [earned |-> entry.object.confidence, reporter |-> source,
             reported |-> {source}]
      [] entry # NotLoaded /\ entry.base # NoRow ->
            [earned |-> old.earned + 5 * entry.hits,
             reporter |-> old.reporter,
             reported |-> old.reported \cup {source}]

\* session.commit(): every object of the session in one transaction.
CommitUpsert(w, rescored) ==
    /\ phase[w] = "upsert"
    /\ todo[w] = <<>>
    /\ rows' = [id \in RowIds |->
                   Flushed(rows[id], session[w][id], rescored)]
    /\ ledger' = [id \in RowIds |->
                     Recorded(ledger[id], session[w][id], SourceName(w))]
    /\ applied' = [applied EXCEPT ![message[w].target] = @ + 1]
    /\ phase' = [phase EXCEPT ![w] = IF saved[w] = <<>> THEN "ack"
                                     ELSE "dispatch"]
    /\ session' = [session EXCEPT ![w] = EmptySession]
    /\ now' = [now EXCEPT ![w] = 0]
    /\ UNCHANGED <<broker, posted, clock, message, todo, saved, faults, crashes>>

\* enrich_indicator_task.delay for the next of the saved indicators.
Dispatch(w) ==
    /\ phase[w] = "dispatch"
    /\ broker' = Sent(EnrichTask(Head(saved[w]), 0))
    /\ saved' = [saved EXCEPT ![w] = Tail(@)]
    /\ phase' = [phase EXCEPT ![w] = IF Tail(saved[w]) = <<>> THEN "ack"
                                     ELSE "dispatch"]
    /\ UNCHANGED <<rows, posted, clock, message, now, todo, session, faults,
                   history>>

\* Mutant of DispatchFails: the task is retried, as a failed fetch is.
DispatchFailsRetrying(w) ==
    /\ phase[w] = "dispatch"
    /\ Fault("publish")
    /\ RetryTask(w)
    /\ UNCHANGED <<rows, posted, clock, history>>

\* The broker refuses a message: the rest is not dispatched, and the task
\* fails for good with its rows committed.
DispatchFails(w) ==
    /\ phase[w] = "dispatch"
    /\ Fault("publish")
    /\ Over(w)
    /\ UNCHANGED <<rows, broker, posted, clock, history>>
==============================================================================

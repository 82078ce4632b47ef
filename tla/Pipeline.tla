------------------------------ MODULE Pipeline ------------------------------
(***************************************************************************)
(* Ingestion and enrichment tasks in one worker pool over one table: the   *)
(* platform's write side.                                                  *)
(***************************************************************************)
EXTENDS Ingestion, Enrichment

IngestStep(w) ==
    \/ \E m \in IngestMessage : StartIngestion(w, m)
    \/ FetchFails(w)
    \/ FetchLost(w)
    \/ MalformedFeed(w)
    \/ EmptyFeed(w)
    \/ \E items \in FeedBodies : BeginUpsert(w, items)
    \/ SkipUnknown(w)
    \/ \E id \in RowIds : UpsertExisting(w, id) \/ UpsertNew(w, id)
    \/ UpsertFails(w)
    \/ \E rescored \in BOOLEAN : CommitUpsert(w, rescored)
    \/ Dispatch(w)
    \/ DispatchFails(w)

EnrichStep(w) ==
    \/ \E m \in EnrichMessage : StartEnrichment(w, m)
    \/ \E vt \in VtResults, sh \in Results, rescored \in BOOLEAN :
          CommitEnrichment(w, vt, sh, rescored)
    \/ LookupRaises(w)
    \/ LookupLost(w)
    \/ EnrichmentFails(w)

WorkerStep(w) == IngestStep(w) \/ EnrichStep(w) \/ Ack(w)

Next ==
    \/ \E r \in Requests : TriggerIngestion(r)
    \/ \E w \in Workers : WorkerStep(w) \/ Crash(w)

Spec == Init /\ [][Next]_vars

\* A worker process that can go on does: Celery runs what it receives, every
\* client call has a timeout, and the containers restart.  Nobody has to post.
FairSpec == Spec /\ \A w \in Workers : WF_vars(WorkerStep(w))

------------------------------------------------------------------------------
(* Properties of every deployment                                           *)

Committed == {id \in RowIds : rows[id] # NoRow}

\* The messages that will enrich row id: in the broker, or with a worker.
EnrichmentPending(id) ==
    \E n \in 0..MaxRetries :
        \/ broker[EnrichTask(id, n)] > 0
        \/ \E w \in Workers : message[w] = EnrichTask(id, n)

\* No enrichment task looks for a row before it is committed, so none is
\* "not_found" (manager.py:61): the ingestion commits before it dispatches
\* (parser.py:200, tasks.py:52), and no crash, retry or redelivery undoes it.
EnrichmentTargetsExist ==
    \A id \in RowIds : EnrichmentPending(id) => rows[id] # NoRow

\* Whatever updates are lost between concurrent tasks (parser.py:126-157), a
\* row never claims more than was reported: its confidence is at most the
\* first one plus 5 for each committed sighting, and its sources have all
\* reported it and include the one that did so first.
NeverOverstated ==
    \A id \in Committed :
        /\ rows[id].confidence <= ledger[id].earned
        /\ ledger[id].reporter \in rows[id].sources
        /\ rows[id].sources \subseteq ledger[id].reported

\* An enrichment that read a row minutes ago never overwrites the confidence,
\* the last_seen or the sources that sightings committed since, nor a sighting
\* the enrichment: each transaction writes the columns it changed
\* (parser.py:133-157, manager.py:79-91).  Both change risk_score, and there
\* one does overwrite the other (ScoresSettle).
NoClobber ==
    [][\A id \in Committed :
          rows'[id].enrichment # rows[id].enrichment
            => /\ rows'[id].confidence = rows[id].confidence
               /\ rows'[id].last = rows[id].last
               /\ rows'[id].sources = rows[id].sources]_rows

\* A request is counted into confidences once, and once more at most for each
\* worker that died holding it: whatever else fails, and however attempts,
\* retries and redeliveries of one request run beside each other, a task is
\* only retried before its commit (tasks.py:28-31, 63-65).
AppliedOncePerDelivery == \A r \in Requests : applied[r] <= 1 + crashes[r]

\* A committed row that was never enriched is on its way to be: a message
\* for it exists, or the worker that committed it has still to dispatch it
\* (tasks.py:46-52).  True while workers live and the broker and database
\* answer.
EnrichmentOwed ==
    \A id \in Committed :
        rows[id].enrichment = NotEnriched
          => \/ EnrichmentPending(id)
             \/ \E w \in Workers : \E k \in DOMAIN saved[w] : saved[w][k] = id

\* The confidences that feeds give.
Given == UNION {{items[k].confidence : k \in DOMAIN items} :
                    items \in FeedBodies}

\* The table is what concurrent reports and enrichments may make of it: no
\* row claims or is scored by more than was reported, none loses its first
\* sighting, its enrichment or its place, whoever commits when.
Table ==
    INSTANCE SharedTable WITH
        Ids <- RowIds,
        Absent <- NoRow,
        Confidences <- Given,
        Repeats <- UNION {DOMAIN items : items \in FeedBodies},
        records <- rows
TableSpec == Table!Spec

------------------------------------------------------------------------------
(* Properties of a deployment with one worker process                       *)

\* upsert_indicators: "Avoids row duplication" (parser.py:109).
UniqueRows ==
    \A id1, id2 \in Committed :
        rows[id1].ioc = rows[id2].ioc => id1 = id2

\* "+5 per sighting, max 100" (parser.py:138) and every reporting source
\* recorded (parser.py:141): the row is exactly what its sightings amount to.
LedgerExact ==
    \A id \in Committed :
        /\ rows[id].confidence =
             IF ledger[id].earned <= 100 THEN ledger[id].earned ELSE 100
        /\ rows[id].sources = ledger[id].reported

\* The stored score is the one of the confidence and the enrichment stored
\* beside it (parser.py:151, manager.py:81).
ScoreCoherent ==
    \A id \in Committed :
        rows[id].score = ScoreOf(rows[id].confidence, rows[id].enrichment)

\* A row is not last seen (modified) before it was first seen (created):
\* parser.py:135-136 and 179-187.
SeenInOrder == \A id \in Committed : rows[id].first <= rows[id].last

\* What table t has of each indicator.
RegistryOf(t) ==
    [i \in Iocs |->
        LET ids == {id \in RowIds : t[id] # NoRow /\ t[id].ioc = i}
        IN  IF ids = {} THEN NoRow ELSE t[CHOOSE id \in ids : TRUE]]

\* The table is a registry with atomic reports and enrichments.
Registry ==
    INSTANCE IndicatorRegistry WITH
        Absent <- NoRow,
        Confidences <- Given,
        registry <- RegistryOf(rows)
RegistrySpec == Registry!Spec

------------------------------------------------------------------------------
(* What the two merges are documented to do                                 *)

\* manager.py:76: "Merge new enrichment data with existing enrichment data".
ProviderDataKept ==
    [][\A id \in Committed :
          rows[id].enrichment # NotEnriched
            => /\ rows[id].enrichment.virustotal # Empty
                    => rows'[id].enrichment.virustotal # Empty
               /\ rows[id].enrichment.shodan # Empty
                    => rows'[id].enrichment.shodan # Empty]_rows

------------------------------------------------------------------------------
(* Liveness, under FairSpec                                                 *)

\* Messages of request r, waiting or with a worker.
IngestionPending(r) ==
    \E n \in 0..MaxRetries :
        \/ broker[Ingest(r, n)] > 0
        \/ \E w \in Workers : message[w] = Ingest(r, n)

\* Every accepted request comes to an end, for good, however its fetches
\* fail and its workers die: retries are bounded and late acks lose nothing.
RequestsSettle ==
    \A r \in Requests : r \in posted ~> [](~IngestionPending(r))

\* Every row that is committed is enriched (tasks.py:46), while nothing
\* but feeds and providers fails.
EveryRowEnriched ==
    \A id \in RowIds :
        rows[id] # NoRow ~> (rows[id] # NoRow /\ rows[id].enrichment # NotEnriched)

\* Once the traffic is over the scores agree with their rows.
ScoresSettle == <>[]ScoreCoherent
==============================================================================

----------------------------- MODULE Enrichment -----------------------------
(***************************************************************************)
(* workers/enrichment/manager.py: enrich_indicator_task.  The row is read, *)
(* the two providers are asked, and the results are written to the row as  *)
(* it was read.                                                            *)
(***************************************************************************)
EXTENDS Platform

\* Received, and session.get: an indicator that is not there is skipped.
StartEnrichment(w, m) ==
    /\ Receive(w, m)
    /\ LET row == rows[m.target]
       IN  IF row = NoRow
             THEN /\ phase' = [phase EXCEPT ![w] = "ack"]
                  /\ UNCHANGED session
             ELSE /\ phase' = [phase EXCEPT ![w] = "lookup"]
                  /\ session' = [session EXCEPT ![w][m.target] =
                                    [base |-> row, object |-> row, hits |-> 0]]
    /\ UNCHANGED <<rows, posted, clock, now, todo, saved, faults, history>>

\* VirusTotalClient.enrich_ioc and ShodanClient.enrich_ioc: any failure is {},
\* and Shodan answers {} for what is not on the network.
VtResults == Results
ShodanResults(ioc) == IF ioc \in NetworkIocs THEN Results ELSE {Empty}

\* {**existing_enrichment, **enrichment_results}: the results always have
\* both providers' keys, so nothing of the existing data is left.
Merged(existing, vt, sh) == [virustotal |-> vt, shodan |-> sh]

\* Mutants of Enriched: modified is moved too; the score is not computed again.
EnrichedTouching(object, vt, sh) ==
    LET data == Merged(object.enrichment, vt, sh)
    IN  [object EXCEPT !.enrichment = data,
                       !.last = clock,
                       !.score = ScoreOf(object.confidence, data)]
EnrichedUnscored(object, vt, sh) ==
    [object EXCEPT !.enrichment = Merged(@, vt, sh)]

Enriched(object, vt, sh) ==
    LET data == Merged(object.enrichment, vt, sh)
    IN  [object EXCEPT !.enrichment = data,
                       !.score = ScoreOf(object.confidence, data)]

\* The lookups have returned: merge, score and commit.
CommitEnrichment(w, vt, sh, rescored) ==
    LET id == message[w].target
        entry == session[w][id]
    IN  /\ phase[w] = "lookup"
        /\ sh \in ShodanResults(entry.object.ioc)
        /\ rows' = [rows EXCEPT ![id] =
                       Updated(@, entry.base, Enriched(entry.object, vt, sh),
                               rescored)]
        /\ Over(w)
        /\ UNCHANGED <<broker, posted, clock, faults, history>>

\* Mutant of LookupRaises: the failed task is not retried.
LookupRaisesOver(w) ==
    /\ phase[w] = "lookup"
    /\ Fault("lookup")
    /\ Over(w)
    /\ UNCHANGED <<rows, broker, posted, clock, history>>

\* run_async itself raises: not a provider's error, those are caught below it.
LookupRaises(w) ==
    /\ phase[w] = "lookup"
    /\ Fault("lookup")
    /\ RetryTask(w)
    /\ UNCHANGED <<rows, posted, clock, history>>

\* The same, and the broker refuses the retry; counted as one fault.
LookupLost(w) ==
    /\ phase[w] = "lookup"
    /\ RetryRefused(w)
    /\ UNCHANGED <<rows, posted, clock, history>>

\* A statement or the commit raises outside the try: the task fails for good.
EnrichmentFails(w) ==
    /\ phase[w] = "lookup"
    /\ Fault("database")
    /\ Over(w)
    /\ UNCHANGED <<rows, broker, posted, clock, history>>
==============================================================================

-------------------------- MODULE PipelineInvariant --------------------------
(***************************************************************************)
(* The inductive invariant behind the safety properties of Pipeline: what  *)
(* the sessions, messages and saved indicators of the workers have to do   *)
(* with the committed rows and with each other.                            *)
(***************************************************************************)
EXTENDS Pipeline

\* What a worker does matches the message it holds.
PhaseOK ==
    \A w \in Workers :
        /\ phase[w] = "ack" => message[w] \in Message
        /\ phase[w] \in {"fetch", "upsert", "dispatch"}
             => message[w] \in IngestMessage
        /\ phase[w] = "lookup" => message[w] \in EnrichMessage
        /\ phase[w] = "dispatch" => saved[w] # <<>>
        /\ phase[w] \notin {"upsert", "lookup"}
             => session[w] = EmptySession

\* A row has a ledger from its first commit on.
LedgerOK == \A id \in RowIds : rows[id] = NoRow <=> ledger[id] = NoRow

\* A loaded object is that of a row that still exists; a new one is the only
\* object with its identifier, which no row has yet.
SessionsDisjoint ==
    \A w \in Workers, id \in RowIds :
        session[w][id] # NotLoaded
          => IF session[w][id].base # NoRow THEN rows[id] # NoRow
             ELSE /\ rows[id] = NoRow
                  /\ \A v \in Workers \ {w} : session[v][id] = NotLoaded

\* An upsert never touches the enrichment of an object, and what it adds is
\* what its sightings are worth; before the lookups end nothing is changed.
LoadedEarned(w, id) ==
    LET base == session[w][id].base
        object == session[w][id].object
    IN  /\ base.confidence <= ledger[id].earned
        /\ object.confidence <= base.confidence + 5 * session[w][id].hits
        /\ ledger[id].reporter \in object.sources
        /\ object.enrichment = base.enrichment
        /\ phase[w] = "upsert" =>
              object.sources \subseteq ledger[id].reported \cup {SourceName(w)}
        /\ phase[w] = "lookup" => object = base /\ session[w][id].hits = 0

NewEarned(w, id) == session[w][id].object.sources = {SourceName(w)}

SessionsEarned ==
    \A w \in Workers, id \in RowIds :
        session[w][id] # NotLoaded
          => IF session[w][id].base # NoRow THEN LoadedEarned(w, id)
             ELSE phase[w] = "upsert" /\ NewEarned(w, id)

\* The row an enrichment task works on is in its session.
LookupLoaded ==
    \A w \in Workers :
        phase[w] = "lookup"
          => /\ session[w][message[w].target] # NotLoaded
             /\ session[w][message[w].target].base # NoRow

\* What will be dispatched is in the session, and after the commit a row.
SavedOK ==
    \A w \in Workers : \A k \in DOMAIN saved[w] :
        \/ phase[w] = "upsert" /\ session[w][saved[w][k]] # NotLoaded
        \/ phase[w] = "dispatch" /\ rows[saved[w][k]] # NoRow

\* The invariant that makes EnrichmentTargetsExist, NeverOverstated and
\* NoClobber inductive: each step of parser.py:98-201, tasks.py:10-65 and
\* manager.py:50-103 preserves it.
IInv ==
    /\ TypeOK
    /\ PhaseOK
    /\ LedgerOK
    /\ SessionsDisjoint
    /\ SessionsEarned
    /\ LookupLoaded
    /\ SavedOK
    /\ EnrichmentTargetsExist
    /\ NeverOverstated

\* Rows, like their confidences, are scored by what was reported.
ScoresEarned ==
    \A id \in Committed : rows[id].score.confidence <= ledger[id].earned

\* An object of an upsert is sighted, at the time of the upsert, and as what
\* was first seen when its row was.
LoadedKept(w, id) ==
    LET base == session[w][id].base
        object == session[w][id].object
    IN  phase[w] = "upsert" =>
          /\ object.first = base.first
          /\ object.last = now[w]
          /\ session[w][id].hits > 0
          /\ object.score.confidence
               <= ledger[id].earned + 5 * session[w][id].hits

\* A new one is as a feed gave it: the SELECT does not see it, so that nothing
\* sights it again before it is committed (database.py: autoflush is off).
NewAsGiven(w, id) ==
    LET object == session[w][id].object
    IN  \E c \in Given :
           object = Created([ioc |-> object.ioc, confidence |-> c],
                            SourceName(w), now[w])

SessionsKept ==
    \A w \in Workers, id \in RowIds :
        session[w][id] # NotLoaded
          => IF session[w][id].base # NoRow THEN LoadedKept(w, id)
             ELSE NewAsGiven(w, id)

\* What remains of a feed was given, and what it adds to the sightings of an
\* object is no more than the feed has items.
FitsFeed(w) ==
    /\ \A k \in DOMAIN todo[w] : todo[w][k].confidence \in Given
    /\ phase[w] = "upsert" =>
          \E items \in FeedBodies :
             /\ Len(todo[w]) <= Len(items)
             /\ \A id \in RowIds :
                   session[w][id] # NotLoaded
                     => session[w][id].hits + Len(todo[w]) <= Len(items)

FeedsFit == \A w \in Workers : FitsFeed(w)

\* What was loaded enriched is enriched: nothing writes {} back.
LoadedEnriched ==
    \A w \in Workers, id \in RowIds :
        /\ session[w][id] # NotLoaded /\ session[w][id].base # NoRow
        /\ session[w][id].base.enrichment # NotEnriched
        => rows[id].enrichment # NotEnriched

\* What IInv leaves out, and TableSpec needs, of parser.py:98-201 and
\* manager.py:50-103: what the objects in the sessions will write.
TableInv ==
    /\ ScoresEarned
    /\ SessionsKept
    /\ FeedsFit
    /\ LoadedEnriched

\* The inductive invariant of the write side.
WriteInv == IInv /\ TableInv

\* What may still lead to a commit for request r: the copies of its messages
\* that wait, and the workers that have received one and not committed.
OfRequest(r) == {m \in IngestMessage : m.target = r}
Copies(r) == UNION {{m} \X (1..broker[m]) : m \in OfRequest(r)}
Holders(r) == {w \in Workers : /\ phase[w] \in {"fetch", "upsert"}
                               /\ message[w] \in OfRequest(r)}

\* These, and the commits there were, are no more than the POST and the deaths
\* of workers account for.  A death while only the acknowledgement is missing
\* makes a second attempt beside a retry that is already waiting.
Counted(r) ==
    /\ IsFiniteSet(Copies(r)) /\ IsFiniteSet(Holders(r))
    /\ Cardinality(Copies(r)) + Cardinality(Holders(r)) + applied[r]
         <= (IF r \in posted THEN 1 ELSE 0) + crashes[r]

\* The invariant that makes AppliedOncePerDelivery inductive: each step of
\* tasks.py:10-65 moves one attempt, and only a death (celery_app.py:25) adds.
DeliveryInv == \A r \in Requests : Counted(r)

\* A deployment in which workers live and the broker and the database answer,
\* and in which no more lookups raise than one task is retried.
ServicesUp == Faults \subseteq {"malformed", "lookup"} /\ MaxFaults <= MaxRetries

InSaved(w, id) == \E k \in DOMAIN saved[w] : saved[w][k] = id

\* What will still enrich row id: a message, a lookup, a worker's dispatch.  A
\* message that only lacks its acknowledgement will not.
Promised(id) ==
    \/ \E m \in EnrichMessage : m.target = id /\ broker[m] > 0
    \/ \E w \in Workers : phase[w] = "lookup" /\ message[w].target = id
    \/ \E w \in Workers : InSaved(w, id)

\* Every retry was caused by a fault.
RetriesFaulted ==
    /\ \A m \in EnrichMessage : broker[m] > 0 => m.retries <= faults
    /\ \A w \in Workers : phase[w] = "lookup" => message[w].retries <= faults

\* The invariant that makes EnrichmentOwed inductive while ServicesUp: each
\* step of tasks.py:33-62 and manager.py:50-103 passes the promise on.
OwedInv ==
    /\ \A id \in Committed : rows[id].enrichment = NotEnriched => Promised(id)
    /\ RetriesFaulted
    /\ \A w \in Workers, id \in RowIds :
          phase[w] = "upsert" /\ session[w][id] # NotLoaded => InSaved(w, id)
==============================================================================

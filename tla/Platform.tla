------------------------------ MODULE Platform ------------------------------
(***************************************************************************)
(* What the two kinds of Celery task share: the indicators table in        *)
(* PostgreSQL, the broker, and the pool of worker processes with the       *)
(* state each holds while it runs a task.                                  *)
(*                                                                         *)
(* A database transaction is modelled by its two observable points: a      *)
(* SELECT sees the last committed rows (READ COMMITTED, the default of the *)
(* engine in models/database.py), and a commit writes at once.  The        *)
(* SQLAlchemy session between them is the variable session.                *)
(***************************************************************************)
EXTENDS Integers, Sequences, FiniteSets

CONSTANTS
    Workers,      \* worker processes, each running one task at a time
    Requests,     \* POST /ingest calls, each one ingestion task
    Sources,      \* feed providers
    SourceOf,     \* SourceOf[r]: the source_name of request r
    Iocs,         \* the (ioc_type, value) pairs feeds report
    NetworkIocs,  \* those that are addresses or domains
    Unknown,      \* a value identify_ioc_type cannot place
    FeedBodies,   \* what a fetch may yield: sequences of parsed items
    Results,      \* what a provider's lookup may yield
    Empty,        \* the {} a failed or inapplicable lookup yields
    NotEnriched,  \* the enrichment_data of a new row: {}
    RowIds,       \* bound: the row identifiers that can be generated
    NoRow,        \* an identifier that no committed row has
    NotLoaded,    \* a row that is not in a session
    NoMessage,    \* an idle worker's message
    MaxRetries,   \* max_retries of both tasks: 3 in the source
    Faults,       \* the kinds of fault that may happen
    MaxFaults     \* bound: how many faults happen in all

FaultKinds == {"crash", "database", "publish", "malformed", "lookup"}

Item == [ioc : Iocs \cup {Unknown}, confidence : Int]

ASSUME PlatformAssumption ==
    /\ SourceOf \in [Requests -> Sources]
    /\ NetworkIocs \subseteq Iocs
    /\ Unknown \notin Iocs
    /\ FeedBodies \subseteq Seq(Item)
    /\ Empty \in Results
    /\ MaxRetries \in Nat
    /\ MaxFaults \in Nat
    /\ Faults \subseteq FaultKinds

------------------------------------------------------------------------------
(* Rows, sessions and messages                                              *)

EnrichmentData == [virustotal : Results, shodan : Results]
Enrichment == EnrichmentData \cup {NotEnriched}

\* A risk score, by what it was computed from (module Scoring has the
\* formula; the age it also depends on is that of the running task).
Score == [confidence : Int, enrichment : Enrichment]
ScoreOf(confidence, enrichment) ==
    [confidence |-> confidence, enrichment |-> enrichment]

\* first is created and first_seen, last is modified and last_seen; sources
\* is custom_properties["reporting_sources"].
Row == [ioc : Iocs, confidence : Int, first : Nat, last : Nat,
        sources : SUBSET Sources, enrichment : Enrichment, score : Score]

\* An object in a session: the row as loaded (NoRow when the object is new),
\* the object as it stands, and how many sightings were applied to it.
Entry == [base : Row \cup {NoRow}, object : Row, hits : Nat]

\* History kept beside a row.  earned: its first confidence, plus 5 for each
\* committed sighting since; reporter: who reported it first; reported: who
\* has reported it at all.
Ledger == [earned : Int, reporter : Sources, reported : SUBSET Sources]

IngestMessage == [task : {"ingest"}, target : Requests, retries : 0..MaxRetries]
EnrichMessage == [task : {"enrich"}, target : RowIds, retries : 0..MaxRetries]
Message == IngestMessage \cup EnrichMessage

Ingest(r, n) == [task |-> "ingest", target |-> r, retries |-> n]
EnrichTask(id, n) == [task |-> "enrich", target |-> id, retries |-> n]

\* The markers are none of the values they stand beside.
ASSUME MarkerAssumption ==
    /\ NoRow \notin Row \cup Ledger
    /\ NotLoaded \notin Entry
    /\ NoMessage \notin Message
    /\ NotEnriched \notin EnrichmentData

VARIABLES
    rows,     \* rows[id]: the committed row, or NoRow
    broker,   \* broker[m]: how many copies of message m wait
    posted,   \* the requests the API has accepted
    clock,    \* the time last read by a task
    phase,    \* what each worker is doing
    message,  \* the message each worker has received and not acknowledged
    now,      \* upsert_indicators' local now
    todo,     \* raw_indicators not yet processed
    session,  \* the objects in each worker's session
    saved,    \* saved_indicators not yet dispatched
    faults,   \* how many faults have happened
    ledger,   \* history: what the committed sightings of a row amount to
    applied,  \* history: how often each request's upsert was committed
    crashes   \* history: how many workers died holding each request

local == <<phase, message, now, todo, session, saved>>
history == <<ledger, applied, crashes>>
vars == <<rows, broker, posted, clock, local, faults, history>>

Phases == {"idle", "fetch", "upsert", "dispatch", "lookup", "ack"}

TypeOK ==
    /\ rows \in [RowIds -> Row \cup {NoRow}]
    /\ broker \in [Message -> Nat]
    /\ posted \in SUBSET Requests
    /\ clock \in Nat
    /\ phase \in [Workers -> Phases]
    /\ message \in [Workers -> Message \cup {NoMessage}]
    /\ now \in [Workers -> Nat]
    /\ todo \in [Workers -> Seq(Item)]
    /\ session \in [Workers -> [RowIds -> Entry \cup {NotLoaded}]]
    /\ saved \in [Workers -> Seq(RowIds)]
    /\ faults \in Nat
    /\ ledger \in [RowIds -> Ledger \cup {NoRow}]
    /\ applied \in [Requests -> Nat]
    /\ crashes \in [Requests -> Nat]

EmptySession == [id \in RowIds |-> NotLoaded]

Init ==
    /\ rows = [id \in RowIds |-> NoRow]
    /\ broker = [m \in Message |-> 0]
    /\ posted = {}
    /\ clock = 0
    /\ phase = [w \in Workers |-> "idle"]
    /\ message = [w \in Workers |-> NoMessage]
    /\ now = [w \in Workers |-> 0]
    /\ todo = [w \in Workers |-> <<>>]
    /\ session = [w \in Workers |-> EmptySession]
    /\ saved = [w \in Workers |-> <<>>]
    /\ faults = 0
    /\ ledger = [id \in RowIds |-> NoRow]
    /\ applied = [r \in Requests |-> 0]
    /\ crashes = [r \in Requests |-> 0]

------------------------------------------------------------------------------
(* The session's flush                                                      *)

\* Mutant of Column: an upsert written as one UPDATE of every column.
ColumnAlways(db, base, object) == object

\* An UPDATE names the columns whose value differs from the loaded one.
Column(db, base, object) == IF object = base THEN db ELSE object

\* rescored: two scores of the same inputs may differ by their decay, and
\* then the column is written even though the inputs are equal.
Updated(db, base, object, rescored) ==
    [ioc        |-> db.ioc,
     confidence |-> Column(db.confidence, base.confidence, object.confidence),
     first      |-> Column(db.first, base.first, object.first),
     last       |-> Column(db.last, base.last, object.last),
     sources    |-> Column(db.sources, base.sources, object.sources),
     enrichment |-> Column(db.enrichment, base.enrichment, object.enrichment),
     score      |-> IF rescored THEN object.score
                    ELSE Column(db.score, base.score, object.score)]

Flushed(db, entry, rescored) ==
    CASE entry = NotLoaded -> db
      [] entry # NotLoaded /\ entry.base = NoRow -> entry.object
      [] entry # NotLoaded /\ entry.base # NoRow ->
            Updated(db, entry.base, entry.object, rescored)

------------------------------------------------------------------------------
(* The broker and the worker pool                                           *)

Fault(kind) ==
    /\ kind \in Faults
    /\ faults < MaxFaults
    /\ faults' = faults + 1

Sent(m) == [broker EXCEPT ![m] = @ + 1]

\* An idle worker takes message m; acks are late, so it stays unacknowledged.
Receive(w, m) ==
    /\ phase[w] = "idle"
    /\ broker[m] > 0
    /\ broker' = [broker EXCEPT ![m] = @ - 1]
    /\ message' = [message EXCEPT ![w] = m]

\* The task has returned or raised: only the acknowledgement is left.
Over(w) ==
    /\ phase' = [phase EXCEPT ![w] = "ack"]
    /\ todo' = [todo EXCEPT ![w] = <<>>]
    /\ session' = [session EXCEPT ![w] = EmptySession]
    /\ saved' = [saved EXCEPT ![w] = <<>>]
    /\ now' = [now EXCEPT ![w] = 0]
    /\ UNCHANGED message

\* Mutant of MayRetry: one retry less than max_retries.
MayRetryLess(m) == m.retries + 1 < MaxRetries

MayRetry(m) == m.retries < MaxRetries
NextAttempt(m) == [m EXCEPT !.retries = @ + 1]

\* self.retry: the next attempt is published, up to max_retries, and the
\* current one ends with Retry, or with the error itself at the limit.
RetryTask(w) ==
    /\ broker' = IF MayRetry(message[w]) THEN Sent(NextAttempt(message[w]))
                 ELSE broker
    /\ Over(w)

\* self.retry itself fails, because the broker refuses the next attempt:
\* Celery rejects the message without a requeue.
RetryRefused(w) ==
    /\ MayRetry(message[w])
    /\ Fault("publish")
    /\ Over(w)
    /\ UNCHANGED broker

\* task_acks_late: the message goes away when the task is over.
Ack(w) ==
    /\ phase[w] = "ack"
    /\ phase' = [phase EXCEPT ![w] = "idle"]
    /\ message' = [message EXCEPT ![w] = NoMessage]
    /\ UNCHANGED <<rows, broker, posted, clock, now, todo, session, saved,
                   faults, history>>

\* A worker process dies: its open transaction is rolled back and, because of
\* task_acks_late and task_reject_on_worker_lost, its message is delivered
\* again, also when only the acknowledgement was missing.
Crash(w) ==
    /\ phase[w] # "idle"
    /\ Fault("crash")
    /\ broker' = Sent(message[w])
    /\ phase' = [phase EXCEPT ![w] = "idle"]
    /\ message' = [message EXCEPT ![w] = NoMessage]
    /\ now' = [now EXCEPT ![w] = 0]
    /\ todo' = [todo EXCEPT ![w] = <<>>]
    /\ session' = [session EXCEPT ![w] = EmptySession]
    /\ saved' = [saved EXCEPT ![w] = <<>>]
    /\ crashes' = IF message[w] \in IngestMessage
                  THEN [crashes EXCEPT ![message[w].target] = @ + 1]
                  ELSE crashes
    /\ UNCHANGED <<rows, posted, clock, ledger, applied>>
==============================================================================

--------------------------- MODULE ScoreLifecycle ---------------------------
(***************************************************************************)
(* The stored risk_score of one indicator over its life, in numbers: the   *)
(* row has been created by a feed; tasks sight it again and enrich it      *)
(* while days pass.  A task reads the row, computes, and commits later;    *)
(* between its steps other tasks may commit.  Module Pipeline has the      *)
(* tasks in full, but only the inputs of the score; here is its value.     *)
(* Time is counted in whole days.                                          *)
(***************************************************************************)
EXTENDS Scoring

CONSTANTS
    Workers,          \* worker processes
    FeedConfidences,  \* what feeds give: the parser takes any int, unchecked
    VtReports,        \* what VirusTotalClient.enrich_ioc may return
    ShodanReports,    \* what ShodanClient.enrich_ioc may return
    MaxFeeds,         \* bound: feeds that name the indicator after its first
    NotLoaded         \* the session of a task holds no row

ASSUME FeedConfidenceAssumption == FeedConfidences \subseteq Int
ASSUME ReportAssumption ==
    /\ VtReports \subseteq VtReport \cup {NoReport}
    /\ ShodanReports \subseteq ShodanReport \cup {NoReport}
    /\ NoReport \in VtReports \cap ShodanReports
ASSUME FeedAssumption == MaxFeeds \in Nat
\* A report is a record and {} is neither a record nor a report.
ASSUME NotEnrichedAssumption == NotEnriched \notin EnrichmentData

VARIABLES
    iocType,  \* Indicator.ioc_type, fixed at creation
    row,      \* the committed columns that this module is about
    feeds,    \* ingestion tasks that name the indicator, not yet received
    waiting,  \* enrichment tasks dispatched for the row, not yet received
    today,    \* the clock; bounded by MaxAge
    job,      \* job[w]: how far the task of worker w is
    now,      \* now[w]: "now" of upsert_indicators, read before the row is
    loaded,   \* loaded[w]: the row as the session of w read it
    object,   \* object[w]: the row as the session of w is to write it
    raced     \* history: the last commit was by a task that had read a row
              \* other than the one it wrote to; no guard reads it

task == <<job, now, loaded, object>>
vars == <<iocType, row, feeds, waiting, today, task, raced>>

Row == [confidence : Int, lastSeen : 0..MaxAge,
        enrichment : EnrichmentData \cup {NotEnriched}, score : Int]

Jobs == {"idle", "upserting", "sighted", "looking up", "enriched"}
CommitDue == {"sighted", "enriched"}

TypeOK ==
    /\ iocType \in IocTypes
    /\ row \in Row
    /\ feeds \in Nat /\ waiting \in Nat
    /\ today \in 0..MaxAge
    /\ job \in [Workers -> Jobs]
    /\ now \in [Workers -> 0..MaxAge]
    /\ loaded \in [Workers -> Row \cup {NotLoaded}]
    /\ object \in [Workers -> Row \cup {NotLoaded}]
    /\ raced \in BOOLEAN

Scored(confidence, lastSeen, data) ==
    FinalScore(iocType, confidence, today - lastSeen, data)

\* The row as upsert_indicators created it, its enrichment task dispatched.
Init ==
    /\ iocType \in IocTypes
    /\ today = 0
    /\ \E c \in FeedConfidences :
          row = [confidence |-> c, lastSeen |-> today,
                 enrichment |-> NotEnriched,
                 score |-> Scored(c, today, NotEnriched)]
    /\ feeds = MaxFeeds /\ waiting = 1
    /\ job = [w \in Workers |-> "idle"]
    /\ now = [w \in Workers |-> 0]
    /\ loaded = [w \in Workers |-> NotLoaded]
    /\ object = [w \in Workers |-> NotLoaded]
    /\ raced = FALSE

------------------------------------------------------------------------------
(* A sighting: upsert_indicators finds the row                              *)

\* The feed is received and upsert_indicators reads the clock.
BeginUpsert(w) ==
    /\ job[w] = "idle" /\ feeds > 0
    /\ job' = [job EXCEPT ![w] = "upserting"]
    /\ now' = [now EXCEPT ![w] = today]
    /\ feeds' = feeds - 1
    /\ UNCHANGED <<iocType, row, waiting, today, loaded, object, raced>>

\* "min(existing.confidence + 5, 100)"
Boosted(c) == Least(c + 5, 100)

\* Mutant of Sighted: scored before last_seen has been moved.
SightedTooOld(r, t) ==
    [r EXCEPT !.lastSeen = t, !.confidence = Boosted(@),
              !.score = Scored(Boosted(r.confidence), r.lastSeen, r.enrichment)]

\* Mutant of Sighted: scored without enrichment data, as a new row is.
SightedUnenriched(r, t) ==
    [r EXCEPT !.lastSeen = t, !.confidence = Boosted(@),
              !.score = Scored(Boosted(r.confidence), t, NotEnriched)]

\* The row r sighted at t, scored on the day of the SELECT.
Sighted(r, t) ==
    [r EXCEPT !.lastSeen = t, !.confidence = Boosted(@),
              !.score = Scored(Boosted(r.confidence), t, r.enrichment)]

\* The SELECT of the item and the assignments after it.
SightRow(w) ==
    /\ job[w] = "upserting"
    /\ job' = [job EXCEPT ![w] = "sighted"]
    /\ loaded' = [loaded EXCEPT ![w] = row]
    /\ object' = [object EXCEPT ![w] = Sighted(row, now[w])]
    /\ now' = [now EXCEPT ![w] = 0]
    /\ UNCHANGED <<iocType, row, feeds, waiting, today, raced>>

------------------------------------------------------------------------------
(* An enrichment: enrich_indicator_task                                     *)

\* Mutant of StartEnrichment: it runs though nothing was dispatched.
StartUndispatched(w) ==
    /\ job[w] = "idle"
    /\ job' = [job EXCEPT ![w] = "looking up"]
    /\ loaded' = [loaded EXCEPT ![w] = row]
    /\ waiting' = waiting - 1
    /\ UNCHANGED <<iocType, row, feeds, today, now, object, raced>>

\* The task is received and session.get reads the row.
StartEnrichment(w) ==
    /\ job[w] = "idle" /\ waiting > 0
    /\ job' = [job EXCEPT ![w] = "looking up"]
    /\ loaded' = [loaded EXCEPT ![w] = row]
    /\ waiting' = waiting - 1
    /\ UNCHANGED <<iocType, row, feeds, today, now, object, raced>>

\* Shodan is asked about addresses and domains only.
ShodanFor(t) ==
    IF t \in {"ipv4-addr", "ipv6-addr", "domain-name"} THEN ShodanReports
    ELSE {NoReport}

\* Mutant of Enriched: scored before the results are merged.
EnrichedScoredFirst(r, vt, sh) ==
    [r EXCEPT !.enrichment = [virustotal |-> vt, shodan |-> sh],
              !.score = Scored(r.confidence, r.lastSeen, r.enrichment)]

\* The two results replace both providers' entries; the rest of the row, the
\* score's inputs included, is as it was before the lookups.
Enriched(r, vt, sh) ==
    LET data == [virustotal |-> vt, shodan |-> sh]
    IN  [r EXCEPT !.enrichment = data,
                  !.score = Scored(r.confidence, r.lastSeen, data)]

\* Both lookups are over; the result is merged and scored.
LookupsReturn(w) ==
    /\ job[w] = "looking up"
    /\ job' = [job EXCEPT ![w] = "enriched"]
    /\ \E vt \in VtReports, sh \in ShodanFor(iocType) :
          object' = [object EXCEPT ![w] = Enriched(loaded[w], vt, sh)]
    /\ UNCHANGED <<iocType, row, feeds, waiting, today, now, loaded, raced>>

------------------------------------------------------------------------------
(* Both                                                                     *)

\* The UPDATE names a column if the session has changed it.
Column(db, old, new) == IF new = old THEN db ELSE new

\* The row after w's UPDATE.  A sighting always changes last_seen: two
\* readings of the clock differ.  A score computed anew may differ from the
\* one that was read (rescored) though both are equal here, where a day is the
\* unit of time.
Written(w, rescored) ==
    [confidence |-> Column(row.confidence, loaded[w].confidence,
                           object[w].confidence),
     lastSeen   |-> IF job[w] = "sighted" THEN object[w].lastSeen
                    ELSE row.lastSeen,
     enrichment |-> Column(row.enrichment, loaded[w].enrichment,
                           object[w].enrichment),
     score      |-> IF rescored THEN object[w].score
                    ELSE Column(row.score, loaded[w].score, object[w].score)]

Overtaken(w) == loaded[w] # row

EndTask(w) ==
    /\ job' = [job EXCEPT ![w] = "idle"]
    /\ now' = [now EXCEPT ![w] = 0]
    /\ loaded' = [loaded EXCEPT ![w] = NotLoaded]
    /\ object' = [object EXCEPT ![w] = NotLoaded]

\* session.commit() and the end of the task; a sighting dispatches one more
\* enrichment of the row.  A dispatch the broker refuses is one that nobody
\* receives, and a feed that a dead worker leaves to be applied once more is
\* one more feed.
Commit(w) ==
    /\ job[w] \in CommitDue
    /\ \E rescored \in BOOLEAN : row' = Written(w, rescored)
    /\ raced' = Overtaken(w)
    /\ waiting' = IF job[w] = "sighted" THEN waiting + 1 ELSE waiting
    /\ EndTask(w)
    /\ UNCHANGED <<iocType, feeds, today>>

\* The lookups or the commit raise, or the worker dies: the session is closed
\* without a commit, and the task is either over or waits to run again.
GiveUp(w) ==
    /\ \/ /\ job[w] \in {"upserting", "sighted"}
          /\ feeds' \in {feeds, feeds + 1}
          /\ UNCHANGED waiting
       \/ /\ job[w] \in {"looking up", "enriched"}
          /\ waiting' \in {waiting, waiting + 1}
          /\ UNCHANGED feeds
    /\ EndTask(w)
    /\ UNCHANGED <<iocType, row, today, raced>>

\* No code runs as time passes: nothing recomputes a stored score.
NextDay ==
    /\ today < MaxAge
    /\ today' = today + 1
    /\ UNCHANGED <<iocType, row, feeds, waiting, task, raced>>

Next ==
    \/ \E w \in Workers :
          \/ BeginUpsert(w) \/ SightRow(w)
          \/ StartEnrichment(w) \/ LookupsReturn(w)
          \/ Commit(w) \/ GiveUp(w)
    \/ NextDay

Spec == Init /\ [][Next]_vars

------------------------------------------------------------------------------
(* Properties                                                               *)

\* What compute_final_risk_score returns for the row r today, and what it
\* would if r had been seen today.
ScoreNow(r) == Scored(r.confidence, r.lastSeen, r.enrichment)
ScoreFresh(r) == Scored(r.confidence, today, r.enrichment)

\* Whatever a feed or a provider says, a confidence outside 0..100 included,
\* the risk_score stored in the row lies in [0, 100] (scoring.py:135).
ScoreInRange == row.score \in 0..FullScore

\* A stored score may be out of date, but a row scores below what the formula
\* gives now only while its last commit was by a task that another had
\* overtaken between its read and its commit (manager.py:60-91,
\* parser.py:126-200).  So such a score is repaired by the next task that
\* nobody overtakes, and age alone never makes a row look too harmless.
UnderstatesOnlyAfterRace == ~raced => ScoreNow(row) <= row.score

\* A score of r's own confidence and enrichment at some age.
ScoreOfRow(r) == ScoreNow(r) <= r.score /\ r.score <= ScoreFresh(r)

\* What tasks are about to write: a row whose score was computed from the
\* columns beside it, and a row the sighting or the enrichment made of the one
\* that was loaded.
SessionOK(w) ==
    /\ job[w] = "upserting" => now[w] <= today
    /\ job[w] \in CommitDue \cup {"looking up"} =>
          loaded[w] \in Row /\ loaded[w].lastSeen <= today
    /\ job[w] \in CommitDue =>
          /\ object[w] \in Row /\ object[w].lastSeen <= today
          /\ object[w].score \in 0..FullScore
          /\ ScoreOfRow(object[w])
    /\ job[w] = "sighted" =>
          /\ object[w].confidence = Boosted(loaded[w].confidence)
          /\ object[w].enrichment = loaded[w].enrichment
    /\ job[w] = "enriched" => object[w].lastSeen = loaded[w].lastSeen

SessionInv == \A w \in Workers : SessionOK(w)

\* What is inductive over the tasks' steps.  The upper bound on the stored
\* score is what SightingLowersOnlyAfterRace needs.
IInv ==
    /\ TypeOK
    /\ row.lastSeen <= today
    /\ ScoreInRange
    /\ ~raced => ScoreOfRow(row)
    /\ SessionInv

\* Being reported again lowers the risk of an indicator only through a race, or
\* because the task takes days: the boost, the fresh last_seen and the
\* recomputation (parser.py:135-157) go one way when nobody commits between the
\* SELECT and the commit, nobody raced before, and the confidence is a
\* percentage.  A sighting that is overtaken by an enrichment does store the
\* score of the unenriched row over the enriched one.
SightingLowersOnlyAfterRace ==
    [][\A w \in Workers :
          (/\ job[w] = "sighted" /\ job'[w] = "idle"
           /\ object[w].lastSeen = today
           /\ ~raced /\ ~Overtaken(w)
           /\ row.confidence <= 100)
          => row.score <= row'.score]_vars
==============================================================================

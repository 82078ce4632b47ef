----------------------------- MODULE SharedTable -----------------------------
(***************************************************************************)
(* What the indicators table promises whatever number of workers write to  *)
(* it.  A report commits in one step but computes from records as it read  *)
(* them, so it may undo what another report has added meanwhile.  It never *)
(* makes more of a record than its reports amount to, and it never touches *)
(* what belongs to the enrichment.                                         *)
(***************************************************************************)
EXTENDS Integers

CONSTANTS
    Ids,             \* the identifiers records may have
    Iocs, Sources,
    Confidences,     \* what a report may open a record with
    Repeats,         \* how often one report may sight one record
    EnrichmentData,  \* what an enrichment may find
    NotEnriched,
    Absent           \* no record yet

VARIABLES
    records,  \* records[id]: the record, or Absent
    ledger    \* ledger[id]: what was reported of it, or Absent

vars == <<records, ledger>>

Init == /\ records = [id \in Ids |-> Absent]
        /\ ledger = [id \in Ids |-> Absent]

Score(confidence, data) == [confidence |-> confidence, enrichment |-> data]

\* A record claims, and is scored by, no more than has been reported of it.
Supported(record, entry) ==
    /\ record.confidence <= entry.earned
    /\ record.score.confidence <= entry.earned
    /\ entry.reporter \in record.sources
    /\ record.sources \subseteq entry.reported

\* The report is the first of its record: nothing else has written to it.
Opens(id, source, t) ==
    \E i \in Iocs, c \in Confidences :
        /\ records'[id] = [ioc |-> i, confidence |-> c, first |-> t, last |-> t,
                           sources |-> {source}, enrichment |-> NotEnriched,
                           score |-> Score(c, NotEnriched)]
        /\ ledger'[id] = [earned |-> c, reporter |-> source,
                          reported |-> {source}]

\* The record was there: it keeps its indicator, the time it was first seen
\* and its enrichment, and the rest may be the outcome of any interleaving.
Reinforces(id, source, t) ==
    LET old == records[id]
        new == records'[id]
    IN  /\ \E n \in Repeats :
              ledger'[id] = [ledger[id] EXCEPT !.earned = @ + 5 * n,
                                               !.reported = @ \cup {source}]
        /\ new = [old EXCEPT !.confidence = new.confidence,
                             !.last = new.last,
                             !.sources = new.sources,
                             !.score = new.score]
        /\ new.last \in {old.last, t}
        /\ Supported(new, ledger'[id])

\* One feed of one source is committed, at one time, to the records S.
Report(source, S) ==
    /\ records' = [id \in Ids |-> IF id \in S THEN records'[id] ELSE records[id]]
    /\ ledger' = [id \in Ids |-> IF id \in S THEN ledger'[id] ELSE ledger[id]]
    /\ \A id \in S : records'[id] # Absent
    /\ \E t \in {records'[id].last : id \in S} :
          \A id \in S : IF records[id] = Absent THEN Opens(id, source, t)
                        ELSE Reinforces(id, source, t)

\* One record is enriched, for good: no report makes it NotEnriched again.
Enrich(id) ==
    /\ records[id] # Absent /\ records'[id] # Absent
    /\ \E data \in EnrichmentData :
          records' = [records EXCEPT ![id].enrichment = data,
                                     ![id].score = records'[id].score]
    /\ Supported(records'[id], ledger[id])
    /\ UNCHANGED ledger

Next ==
    \/ \E source \in Sources, S \in (SUBSET Ids) \ {{}} : Report(source, S)
    \/ \E id \in Ids : Enrich(id)

Spec == Init /\ [][Next]_vars
==============================================================================

-------------------------- MODULE IndicatorRegistry --------------------------
(***************************************************************************)
(* What upsert_indicators and enrich_indicator_task promise, without       *)
(* tasks, sessions or messages: one record for each indicator, which a     *)
(* feed's report opens or reinforces and an enrichment completes, each in  *)
(* one step that sees all the steps before it.                             *)
(***************************************************************************)
EXTENDS Integers

CONSTANTS
    Iocs, Sources, Confidences,
    EnrichmentData,  \* what an enrichment may find
    NotEnriched,
    Absent           \* no record yet

VARIABLE registry    \* registry[i]: the record of indicator i, or Absent

Init == registry = [i \in Iocs |-> Absent]

Score(confidence, data) == [confidence |-> confidence, enrichment |-> data]

Reinforced(c) == IF c + 5 <= 100 THEN c + 5 ELSE 100

Opens(i, source, t) ==
    \E c \in Confidences :
        registry'[i] = [ioc |-> i, confidence |-> c, first |-> t, last |-> t,
                        sources |-> {source}, enrichment |-> NotEnriched,
                        score |-> Score(c, NotEnriched)]

Reinforces(i, source, t) ==
    LET old == registry[i]
        c == Reinforced(old.confidence)
    IN  /\ old.last < t
        /\ registry'[i] = [old EXCEPT !.confidence = c, !.last = t,
                                      !.sources = @ \cup {source},
                                      !.score = Score(c, old.enrichment)]

\* The times there are to choose from: those the step leaves in the registry.
Times == {registry'[i].last : i \in {j \in Iocs : registry'[j] # Absent}}

\* One feed of one source reports the indicators S, once each, at one time.
Report(source, S) ==
    \E t \in Times :
        \A i \in Iocs :
            IF i \notin S THEN registry'[i] = registry[i]
            ELSE IF registry[i] = Absent THEN Opens(i, source, t)
            ELSE Reinforces(i, source, t)

Enrich(i) ==
    /\ registry[i] # Absent
    /\ \E data \in EnrichmentData :
          registry' = [registry EXCEPT
                          ![i].enrichment = data,
                          ![i].score = Score(registry[i].confidence, data)]

Next ==
    \/ \E source \in Sources, S \in (SUBSET Iocs) \ {{}} : Report(source, S)
    \/ \E i \in Iocs : Enrich(i)

Spec == Init /\ [][Next]_registry
==============================================================================

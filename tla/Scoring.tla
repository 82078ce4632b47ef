------------------------------- MODULE Scoring -------------------------------
(***************************************************************************)
(* core/domain/scoring.py: the risk score of an indicator as a pure        *)
(* function of its type, confidence, age and enrichment data.              *)
(*                                                                         *)
(* Units.  The source computes with floats in [0, 100] and rounds the      *)
(* result to two decimals; here a score is an integer number of            *)
(* hundredths, 0..10000, and every division rounds down.                   *)
(***************************************************************************)
EXTENDS Integers

CONSTANTS
    MaxAge,       \* the largest age, in days, at which a score is computed
    DecayFactor,  \* DecayFactor[d]: e^(-DECAY_LAMBDA * d), in thousandths
    NoReport,     \* a provider's entry that is absent or an empty dict
    NotEnriched   \* the enrichment_data of a row never enriched: {}

ASSUME DecayAssumption ==
    /\ MaxAge \in Nat
    /\ DecayFactor \in [0..MaxAge -> 0..1000]
    /\ \A d, e \in 0..MaxAge : d <= e => DecayFactor[e] <= DecayFactor[d]

Least(a, b) == IF a <= b THEN a ELSE b
Greatest(a, b) == IF a <= b THEN b ELSE a

FullScore == 10000

------------------------------------------------------------------------------
(* Base score                                                               *)

IocTypes == {"file-sha256", "file-md5", "domain-name", "url",
             "ipv4-addr", "ipv6-addr"}

\* DEFAULT_IOC_TYPE_WEIGHTS, in percent, and the default of .get(..., 0.5).
TypeWeight(t) ==
    CASE t = "file-sha256" -> 100
      [] t = "file-md5"    -> 95
      [] t = "domain-name" -> 80
      [] t = "url"         -> 75
      [] t \in {"ipv4-addr", "ipv6-addr"} -> 60
      [] OTHER -> 50

\* Hundredths, because the weight is a percentage.
BaseScore(t, confidence) == confidence * TypeWeight(t)

------------------------------------------------------------------------------
(* Enrichment score                                                         *)

\* What the two clients return, reduced to what the score reads.  total is
\* the sum over all of VirusTotal's verdicts, so it bounds the other two.
VtReport == {r \in [malicious : Nat, suspicious : Nat, total : Nat] :
                r.malicious + r.suspicious <= r.total}
ShodanReport == [vulns : Nat, critical : Nat]
EnrichmentData == [virustotal : VtReport \cup {NoReport},
                   shodan     : ShodanReport \cup {NoReport}]

\* An empty last_analysis_stats gives no VirusTotal score.
VtCounts(vt) == vt # NoReport /\ vt.total > 0
ShodanCounts(shodan) == shodan # NoReport

\* (malicious + suspicious / 2) / total * 100
VtScore(vt) == ((2 * vt.malicious + vt.suspicious) * 5000) \div vt.total

\* 20 per CVE up to 70, and 10 per critical port up to 30.
ShodanScore(shodan) ==
    Least(Least(2000 * shodan.vulns, 7000)
            + Least(1000 * shodan.critical, 3000), FullScore)

\* The average of the scores there are; 0 when there is none.
EnrichmentScore(data) ==
    LET vt == VtCounts(data.virustotal)
        sh == ShodanCounts(data.shodan)
    IN  CASE vt /\ sh   -> (VtScore(data.virustotal)
                              + ShodanScore(data.shodan)) \div 2
          [] vt /\ ~sh  -> VtScore(data.virustotal)
          [] ~vt /\ sh  -> ShodanScore(data.shodan)
          [] ~vt /\ ~sh -> 0

------------------------------------------------------------------------------
(* Final score                                                              *)

\* "if not enrichment_data": only the empty dict is without enrichment.
InitialScore(t, confidence, data) ==
    IF data = NotEnriched
      THEN BaseScore(t, confidence)
      ELSE (4 * BaseScore(t, confidence) + 6 * EnrichmentScore(data)) \div 10

\* A last_seen in the future (age < 0) does not decay.
Decayed(score, age) ==
    IF age < 0 THEN score ELSE (score * DecayFactor[age]) \div 1000

\* Mutant of Clamped: the upper bound is forgotten.
ClampedBelowOnly(score) == Greatest(0, score)

Clamped(score) == Greatest(0, Least(FullScore, score))

FinalScore(t, confidence, age, data) ==
    Clamped(Decayed(InitialScore(t, confidence, data), age))
==============================================================================

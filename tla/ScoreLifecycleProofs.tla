------------------------ MODULE ScoreLifecycleProofs ------------------------
(***************************************************************************)
(* Proofs about the stored risk score, for every decay table that never    *)
(* rises, every set of confidences and reports, and any number of days.    *)
(***************************************************************************)
EXTENDS ScoreLifecycle, TLAPS

------------------------------------------------------------------------------
(* The formula                                                              *)

\* Multiplying by a natural number, and rounding down, keep the order.
LEMMA Monotone ==
    ASSUME NEW k \in Nat, NEW x \in Int, NEW y \in Int, x <= y
    PROVE  /\ k * x \in Int /\ k * y \in Int
           /\ k * x <= k * y
  <1>1. y - x \in Nat
    OBVIOUS
  <1>2. k * (y - x) >= 0
    BY <1>1
  <1>3. k * (y - x) = k * y - k * x
    OBVIOUS
  <1> QED
    BY <1>2, <1>3

LEMMA Rounded ==
    ASSUME NEW x \in Int, NEW y \in Int, x <= y, NEW k \in {10, 1000}
    PROVE  /\ x \div k \in Int /\ y \div k \in Int
           /\ x \div k <= y \div k
  OBVIOUS

\* Every type has a weight that is a percentage.
LEMMA Weights == \A t : TypeWeight(t) \in Nat
  BY DEF TypeWeight

\* The clamp gives a percentage and keeps the order.
LEMMA Clamping ==
    ASSUME NEW x \in Int, NEW y \in Int, x <= y
    PROVE  /\ Clamped(x) \in 0..FullScore
           /\ Clamped(x) <= Clamped(y)
  BY DEF Clamped, Least, Greatest, FullScore

\* Whatever is in the reports, their score is a number.
LEMMA EnrichmentScores ==
    ASSUME NEW data \in EnrichmentData
    PROVE  EnrichmentScore(data) \in Int
  <1>1. ASSUME VtCounts(data.virustotal)
        PROVE  VtScore(data.virustotal) \in Int
    <2> DEFINE vt == data.virustotal
    <2>1. /\ vt.malicious \in Nat /\ vt.suspicious \in Nat
          /\ vt.total \in Nat /\ vt.total > 0
      BY <1>1 DEF EnrichmentData, VtReport, VtCounts
    <2>2. (2 * vt.malicious + vt.suspicious) * 5000 \in Int
      BY <2>1
    <2> QED
      BY <2>1, <2>2 DEF VtScore
  <1>2. ASSUME ShodanCounts(data.shodan)
        PROVE  ShodanScore(data.shodan) \in Int
    BY <1>2 DEF EnrichmentData, ShodanReport, ShodanCounts, ShodanScore, Least,
                FullScore
  <1> QED
    BY <1>1, <1>2 DEF EnrichmentScore

Data == EnrichmentData \cup {NotEnriched}

\* Before decay, a higher confidence gives no lower score.
LEMMA Initial ==
    ASSUME NEW t, NEW data \in Data, NEW c \in Int, NEW d \in Int, c <= d
    PROVE  /\ InitialScore(t, c, data) \in Int
           /\ InitialScore(t, d, data) \in Int
           /\ InitialScore(t, c, data) <= InitialScore(t, d, data)
  <1>1. /\ BaseScore(t, c) \in Int /\ BaseScore(t, d) \in Int
        /\ BaseScore(t, c) <= BaseScore(t, d)
    <2>1. TypeWeight(t) \in Nat
      BY Weights
    <2>2. /\ TypeWeight(t) * c <= TypeWeight(t) * d
          /\ TypeWeight(t) * c = c * TypeWeight(t)
          /\ TypeWeight(t) * d = d * TypeWeight(t)
      BY <2>1, Monotone
    <2> QED
      BY <2>1, <2>2 DEF BaseScore
  <1>2. CASE data = NotEnriched
    BY <1>1, <1>2 DEF InitialScore
  <1>3. CASE data # NotEnriched
    <2>1. EnrichmentScore(data) \in Int
      BY <1>3, EnrichmentScores DEF Data
    <2> DEFINE x == 4 * BaseScore(t, c) + 6 * EnrichmentScore(data)
               y == 4 * BaseScore(t, d) + 6 * EnrichmentScore(data)
    <2>2. x \in Int /\ y \in Int /\ x <= y
      BY <1>1, <2>1
    <2>3. x \div 10 \in Int /\ y \div 10 \in Int /\ x \div 10 <= y \div 10
      <3> HIDE DEF x, y
      <3> QED
        BY <2>2, Rounded
    <2> QED
      BY <1>3, <2>3 DEF InitialScore
  <1> QED
    BY <1>2, <1>3

\* A day's factor is a number between 0 and 1000.
LEMMA Factors == \A a \in 0..MaxAge : DecayFactor[a] \in Nat
  <1> DEFINE Days == 0..MaxAge
  <1> DEFINE Factor == 0..1000
  <1>1. DecayFactor \in [Days -> Factor]
    BY DecayAssumption
  <1>2. Factor \subseteq Nat
    OBVIOUS
  <1> HIDE DEF Days, Factor
  <1>3. \A a \in Days : DecayFactor[a] \in Nat
    BY <1>1, <1>2
  <1> QED
    BY <1>3 DEF Days

\* Decay keeps the order of scores, ...
LEMMA DecayKeepsOrder ==
    ASSUME NEW a \in 0..MaxAge, NEW x \in Int, NEW y \in Int, x <= y
    PROVE  /\ Decayed(x, a) \in Int /\ Decayed(y, a) \in Int
           /\ Decayed(x, a) <= Decayed(y, a)
  <1>1. DecayFactor[a] \in Nat /\ ~(a < 0)
    BY Factors, DecayAssumption
  <1>2. /\ x * DecayFactor[a] \in Int /\ y * DecayFactor[a] \in Int
        /\ x * DecayFactor[a] <= y * DecayFactor[a]
    <2>1. /\ DecayFactor[a] * x <= DecayFactor[a] * y
          /\ DecayFactor[a] * x = x * DecayFactor[a]
          /\ DecayFactor[a] * y = y * DecayFactor[a]
      BY <1>1, Monotone
    <2> QED
      BY <1>1, <2>1
  <1>3. /\ (x * DecayFactor[a]) \div 1000 \in Int
        /\ (y * DecayFactor[a]) \div 1000 \in Int
        /\ (x * DecayFactor[a]) \div 1000 <= (y * DecayFactor[a]) \div 1000
    BY <1>2, Rounded
  <1> QED
    BY <1>1, <1>3 DEF Decayed

\* ... and after the clamp an older score is no higher: a negative one is 0 at
\* any age.
LEMMA OlderIsLower ==
    ASSUME NEW a \in 0..MaxAge, NEW b \in 0..MaxAge, a <= b, NEW x \in Int
    PROVE  Clamped(Decayed(x, b)) <= Clamped(Decayed(x, a))
  <1>1. /\ DecayFactor[a] \in Nat /\ DecayFactor[b] \in Nat
        /\ DecayFactor[b] <= DecayFactor[a]
        /\ ~(a < 0) /\ ~(b < 0)
    BY Factors, DecayAssumption
  <1>2. Decayed(x, a) \in Int /\ Decayed(x, b) \in Int
    BY DecayKeepsOrder
  <1>3. CASE x >= 0
    <2>1. x * DecayFactor[b] <= x * DecayFactor[a]
      BY <1>1, <1>3, Monotone
    <2>2. x * DecayFactor[a] \in Int /\ x * DecayFactor[b] \in Int
      BY <1>1
    <2>3. (x * DecayFactor[b]) \div 1000 <= (x * DecayFactor[a]) \div 1000
      BY <2>1, <2>2, Rounded
    <2>4. Decayed(x, b) <= Decayed(x, a)
      BY <1>1, <2>3 DEF Decayed
    <2> QED
      BY <1>2, <2>4, Clamping
  <1>4. CASE x < 0
    <2>1. ASSUME NEW e \in {a, b}
          PROVE  Decayed(x, e) <= 0
      <3>1. Decayed(0, e) = 0
        <4>1. DecayFactor[e] \in Nat /\ ~(e < 0)
          BY <1>1
        <4>2. 0 * DecayFactor[e] = 0
          BY <4>1
        <4> QED
          BY <4>1, <4>2 DEF Decayed
      <3> QED
        BY <1>4, <3>1, DecayKeepsOrder
    <2>2. Clamped(Decayed(x, a)) = 0 /\ Clamped(Decayed(x, b)) = 0
      BY <1>2, <2>1 DEF Clamped, Least, Greatest, FullScore
    <2> QED
      BY <2>2
  <1> QED
    BY <1>3, <1>4

\* Together: a final score lies in range, falls with age and rises with
\* confidence.
LEMMA Final ==
    ASSUME NEW t, NEW data \in Data, NEW c \in Int,
           NEW a \in 0..MaxAge
    PROVE  /\ FinalScore(t, c, a, data) \in 0..FullScore
           /\ \A b \in 0..MaxAge :
                 a <= b => FinalScore(t, c, b, data) <= FinalScore(t, c, a, data)
           /\ \A d \in Int :
                 c <= d => FinalScore(t, c, a, data) <= FinalScore(t, d, a, data)
  <1>1. InitialScore(t, c, data) \in Int
    BY Initial
  <1>2. Decayed(InitialScore(t, c, data), a) \in Int
    BY <1>1, DecayKeepsOrder
  <1>3. FinalScore(t, c, a, data) \in 0..FullScore
    BY <1>2, Clamping DEF FinalScore
  <1>4. ASSUME NEW b \in 0..MaxAge, a <= b
        PROVE  FinalScore(t, c, b, data) <= FinalScore(t, c, a, data)
    BY <1>1, <1>4, OlderIsLower DEF FinalScore
  <1>5. ASSUME NEW d \in Int, c <= d
        PROVE  FinalScore(t, c, a, data) <= FinalScore(t, d, a, data)
    <2>1. /\ InitialScore(t, d, data) \in Int
          /\ InitialScore(t, c, data) <= InitialScore(t, d, data)
      BY <1>5, Initial
    <2>2. /\ Decayed(InitialScore(t, d, data), a) \in Int
          /\ Decayed(InitialScore(t, c, data), a)
               <= Decayed(InitialScore(t, d, data), a)
      BY <1>1, <2>1, DecayKeepsOrder
    <2> QED
      BY <1>2, <2>2, Clamping DEF FinalScore
  <1> QED
    BY <1>3, <1>4, <1>5

------------------------------------------------------------------------------
(* The life of a score                                                      *)

\* Scores are in hundredths, so integers.
LEMMA Hundredths == 0..FullScore \subseteq Int
  BY DEF FullScore

\* The formula today, for a row seen at l: in range, no more than for a row
\* seen today, and no less with more confidence.
LEMMA ScoredToday ==
    ASSUME today \in 0..MaxAge,
           NEW c \in Int, NEW l \in 0..MaxAge, l <= today, NEW data \in Data
    PROVE  /\ Scored(c, l, data) \in 0..FullScore
           /\ Scored(c, l, data) <= Scored(c, today, data)
           /\ \A d \in Int : c <= d => Scored(c, l, data) <= Scored(d, l, data)
  <1>1. /\ today - l \in 0..MaxAge /\ today - today = 0 /\ 0 \in 0..MaxAge
        /\ 0 <= today - l
    BY DecayAssumption
  <1> QED
    BY <1>1, Final DEF Scored

\* A row with a score just computed has a score of its own.
LEMMA FreshlyScored ==
    ASSUME today \in 0..MaxAge, NEW r, r.confidence \in Int,
           r.lastSeen \in 0..MaxAge, r.lastSeen <= today, r.enrichment \in Data,
           r.score = Scored(r.confidence, r.lastSeen, r.enrichment)
    PROVE  /\ r.score \in 0..FullScore
           /\ ScoreOfRow(r)
  <1>1. /\ r.score \in 0..FullScore
        /\ r.score <= Scored(r.confidence, today, r.enrichment)
    BY ScoredToday
  <1>2. r.score <= r.score
    BY <1>1, Hundredths
  <1> QED
    BY <1>1, <1>2 DEF ScoreOfRow, ScoreNow, ScoreFresh

\* A row is known by its columns.
LEMMA RowFields ==
    ASSUME NEW r \in Row
    PROVE  /\ r.confidence \in Int /\ r.lastSeen \in 0..MaxAge
           /\ r.enrichment \in Data /\ r.score \in Int
  BY DEF Row, Data

LEMMA RowOf ==
    ASSUME NEW c \in Int, NEW l \in 0..MaxAge, NEW data \in Data, NEW s \in Int
    PROVE  [confidence |-> c, lastSeen |-> l, enrichment |-> data, score |-> s]
             \in Row
  BY DEF Row, Data

LEMMA RowEqual ==
    ASSUME NEW r \in Row, NEW q \in Row,
           r.confidence = q.confidence, r.lastSeen = q.lastSeen,
           r.enrichment = q.enrichment, r.score = q.score
    PROVE  r = q
  BY DEF Row

\* The object of a sighting: all four columns.
LEMMA SightedRow ==
    ASSUME today \in 0..MaxAge, NEW r \in Row, NEW t \in 0..MaxAge, t <= today
    PROVE  LET o == Sighted(r, t)
           IN  /\ o \in Row /\ o.lastSeen = t
               /\ o.confidence = Boosted(r.confidence)
               /\ o.enrichment = r.enrichment
               /\ o.score \in 0..FullScore /\ ScoreOfRow(o)
  <1> DEFINE o == Sighted(r, t)
             sc == Scored(Boosted(r.confidence), t, r.enrichment)
  <1>1. Boosted(r.confidence) \in Int /\ r.enrichment \in Data
    BY RowFields DEF Boosted, Least
  <1>2. sc \in 0..FullScore /\ sc \in Int
    BY <1>1, ScoredToday, Hundredths
  <1>3. /\ o.lastSeen = t /\ o.confidence = Boosted(r.confidence)
        /\ o.enrichment = r.enrichment /\ o.score = sc
        /\ o = [confidence |-> Boosted(r.confidence), lastSeen |-> t,
                enrichment |-> r.enrichment, score |-> sc]
    <2> HIDE DEF sc
    <2>1. o = [r EXCEPT !.lastSeen = t, !.confidence = Boosted(@), !.score = sc]
      BY DEF Sighted, sc
    <2> HIDE DEF o
    <2> QED
      BY <2>1 DEF Row
  <1>4. o \in Row
    <2> HIDE DEF sc, o
    <2> QED
      BY <1>1, <1>2, <1>3, RowOf
  <1>5. o.score = Scored(o.confidence, o.lastSeen, o.enrichment)
    BY <1>3
  <1>6. o.score \in 0..FullScore /\ ScoreOfRow(o)
    <2> HIDE DEF sc, o
    <2> QED
      BY <1>1, <1>3, <1>5, FreshlyScored
  <1> QED
    BY <1>3, <1>4, <1>6

\* The object of an enrichment.
LEMMA EnrichedRow ==
    ASSUME today \in 0..MaxAge, NEW r \in Row, r.lastSeen <= today,
           NEW vt \in VtReports, NEW sh \in ShodanFor(iocType)
    PROVE  LET o == Enriched(r, vt, sh)
           IN  /\ o \in Row /\ o.lastSeen = r.lastSeen
               /\ o.score \in 0..FullScore /\ ScoreOfRow(o)
  <1> DEFINE o == Enriched(r, vt, sh)
             data == [virustotal |-> vt, shodan |-> sh]
             sc == Scored(r.confidence, r.lastSeen, data)
  <1>1. data \in Data
    <2>1. vt \in VtReport \cup {NoReport}
      BY ReportAssumption
    <2>2. sh \in ShodanReport \cup {NoReport}
      BY ReportAssumption DEF ShodanFor
    <2> QED
      BY <2>1, <2>2 DEF EnrichmentData, Data
  <1>2. /\ r.confidence \in Int /\ r.lastSeen \in 0..MaxAge
        /\ sc \in 0..FullScore /\ sc \in Int
    <2> HIDE DEF data
    <2> QED
      BY <1>1, RowFields, ScoredToday, Hundredths
  <1>3. /\ o.lastSeen = r.lastSeen /\ o.confidence = r.confidence
        /\ o.enrichment = data /\ o.score = sc
        /\ o = [confidence |-> r.confidence, lastSeen |-> r.lastSeen,
                enrichment |-> data, score |-> sc]
    <2>1. o = [r EXCEPT !.enrichment = data, !.score = sc]
      BY DEF Enriched
    <2> HIDE DEF o, data, sc
    <2> QED
      BY <2>1 DEF Row
  <1>4. o \in Row
    <2> HIDE DEF sc, o, data
    <2> QED
      BY <1>1, <1>2, <1>3, RowOf
  <1>5. o.score = Scored(o.confidence, o.lastSeen, o.enrichment)
    BY <1>3
  <1>6. o.score \in 0..FullScore /\ ScoreOfRow(o)
    <2> HIDE DEF sc, o, data
    <2> QED
      BY <1>1, <1>2, <1>3, <1>5, FreshlyScored
  <1> QED
    BY <1>3, <1>4, <1>6

------------------------------------------------------------------------------
(* What a step leaves alone                                                 *)

RowInv ==
    /\ row.lastSeen <= today
    /\ ScoreInRange
    /\ ~raced => ScoreOfRow(row)

LEMMA RowKept ==
    ASSUME RowInv, UNCHANGED <<iocType, row, today, raced>>
    PROVE  RowInv'
  BY DEF RowInv, ScoreInRange, ScoreOfRow, ScoreNow, ScoreFresh, Scored

LEMMA SessionKept ==
    ASSUME NEW v, SessionOK(v), UNCHANGED <<iocType, today>>,
           job'[v] = job[v], now'[v] = now[v],
           loaded'[v] = loaded[v], object'[v] = object[v]
    PROVE  SessionOK(v)'
  BY DEF SessionOK, ScoreOfRow, ScoreNow, ScoreFresh, Scored, CommitDue, Boosted

LEMMA SessionOver ==
    ASSUME NEW v, job'[v] = "idle"
    PROVE  SessionOK(v)'
  BY DEF SessionOK, CommitDue
\* A step of one worker that leaves the row, the clock and other workers alone
\* only has its own session to answer for.
LEMMA OwnStep ==
    ASSUME RowInv, SessionInv, NEW w \in Workers,
           UNCHANGED <<iocType, row, today, raced>>,
           \A v \in Workers : v # w =>
              /\ job'[v] = job[v] /\ now'[v] = now[v]
              /\ loaded'[v] = loaded[v] /\ object'[v] = object[v],
           SessionOK(w)'
    PROVE  RowInv' /\ SessionInv'
  <1>1. RowInv'
    BY RowKept
  <1>2. ASSUME NEW v \in Workers
        PROVE  SessionOK(v)'
    <2>1. CASE v = w
      BY <2>1
    <2>2. CASE v # w
      <3>1. SessionOK(v)
        BY DEF SessionInv
      <3> QED
        BY <2>2, <3>1, SessionKept
    <2> QED
      BY <2>1, <2>2
  <1> QED
    BY <1>1, <1>2 DEF SessionInv

------------------------------------------------------------------------------
(* The steps                                                                *)

LEMMA InvParts == IInv <=> TypeOK /\ RowInv /\ SessionInv
  BY DEF IInv, RowInv

LEMMA InitInv == Init => IInv
  <1> SUFFICES ASSUME Init
               PROVE  IInv
    OBVIOUS
  <1>1. PICK c \in FeedConfidences :
           row = [confidence |-> c, lastSeen |-> today,
                  enrichment |-> NotEnriched,
                  score |-> Scored(c, today, NotEnriched)]
    BY DEF Init
  <1>2. /\ today \in 0..MaxAge /\ today <= today /\ c \in Int
        /\ NotEnriched \in Data /\ 0 \in 0..MaxAge
    BY DecayAssumption, FeedConfidenceAssumption DEF Init, Data
  <1>3. /\ row.confidence = c /\ row.lastSeen = today
        /\ row.enrichment = NotEnriched
        /\ row.score = Scored(row.confidence, row.lastSeen, row.enrichment)
    BY <1>1
  <1>4. row.score \in 0..FullScore /\ ScoreOfRow(row)
    BY <1>2, <1>3, FreshlyScored
  <1>5. row \in Row
    <2>1. Scored(c, today, NotEnriched) \in Int
      BY <1>2, ScoredToday, Hundredths
    <2> QED
      BY <1>1, <1>2, <2>1, RowOf
  <1>6. TypeOK
    BY <1>2, <1>5, FeedAssumption DEF Init, TypeOK, Jobs
  <1>7. RowInv
    BY <1>2, <1>3, <1>4 DEF RowInv, ScoreInRange
  <1>8. SessionInv
    BY DEF Init, SessionInv, SessionOK, CommitDue
  <1> QED
    BY <1>6, <1>7, <1>8, InvParts

\* upsert_indicators reads the clock.
LEMMA BeginUpsertStep ==
    ASSUME IInv, NEW w \in Workers, BeginUpsert(w)
    PROVE  IInv'
  <1>1. TypeOK /\ RowInv /\ SessionInv
    BY InvParts
  <1>2. TypeOK'
    <2>1. /\ job' \in [Workers -> Jobs] /\ now' \in [Workers -> 0..MaxAge]
      BY <1>1 DEF TypeOK, BeginUpsert, Jobs
    <2>2. feeds' \in Nat
      BY <1>1 DEF TypeOK, BeginUpsert
    <2> QED
      BY <1>1, <2>1, <2>2 DEF TypeOK, BeginUpsert
  <1>3. SessionOK(w)'
    <2>1. job'[w] = "upserting" /\ now'[w] = today /\ today' = today
      BY <1>1 DEF TypeOK, BeginUpsert
    <2>2. now'[w] <= today'
      BY <1>1, <2>1 DEF TypeOK
    <2> QED
      BY <2>1, <2>2 DEF SessionOK, CommitDue
  <1>4. RowInv' /\ SessionInv'
    BY <1>1, <1>3, OwnStep DEF BeginUpsert, TypeOK
  <1> QED
    BY <1>2, <1>4 DEF IInv, RowInv

\* The SELECT and the assignments after it: the object is scored.
LEMMA SightRowStep ==
    ASSUME IInv, NEW w \in Workers, SightRow(w)
    PROVE  IInv'
  <1>1. TypeOK /\ RowInv /\ SessionInv /\ SessionOK(w)
    BY InvParts DEF SessionInv
  <1> DEFINE o == Sighted(row, now[w])
  <1>2. /\ job' = [job EXCEPT ![w] = "sighted"]
        /\ loaded' = [loaded EXCEPT ![w] = row]
        /\ object' = [object EXCEPT ![w] = o]
        /\ now' = [now EXCEPT ![w] = 0]
        /\ UNCHANGED <<iocType, row, feeds, waiting, today, raced>>
        /\ job[w] = "upserting"
    BY DEF SightRow
  <1>3. /\ o \in Row /\ o.lastSeen = now[w] /\ now[w] <= today
        /\ o.confidence = Boosted(row.confidence)
        /\ o.enrichment = row.enrichment
        /\ o.score \in 0..FullScore /\ ScoreOfRow(o)
    <2>1. row \in Row /\ now[w] \in 0..MaxAge /\ today \in 0..MaxAge
      BY <1>1 DEF TypeOK
    <2>2. now[w] <= today
      BY <1>1, <1>2 DEF SessionOK
    <2> QED
      BY <2>1, <2>2, SightedRow
  <1> HIDE DEF o
  <1>4. TypeOK'
    <2>1. /\ job' \in [Workers -> Jobs] /\ now' \in [Workers -> 0..MaxAge]
      <3>1. "sighted" \in Jobs /\ 0 \in 0..MaxAge
        BY DecayAssumption DEF Jobs
      <3> QED
        BY <1>1, <1>2, <3>1 DEF TypeOK
    <2>2. /\ loaded' \in [Workers -> Row \cup {NotLoaded}]
          /\ object' \in [Workers -> Row \cup {NotLoaded}]
      BY <1>1, <1>2, <1>3 DEF TypeOK
    <2> QED
      BY <1>1, <1>2, <2>1, <2>2 DEF TypeOK
  <1>5. /\ job'[w] = "sighted" /\ loaded'[w] = row /\ object'[w] = o
    BY <1>1, <1>2 DEF TypeOK
  <1>6. SessionOK(w)'
    <2>1. ScoreOfRow(o)' = ScoreOfRow(o)'
      OBVIOUS
    <2>2. /\ ScoreNow(object[w])' = ScoreNow(o)
          /\ ScoreFresh(object[w])' = ScoreFresh(o)
      BY <1>2, <1>5 DEF ScoreNow, ScoreFresh, Scored
    <2>3. ScoreOfRow(object[w])'
      BY <1>3, <1>5, <2>2 DEF ScoreOfRow
    <2>4. row \in Row /\ row.lastSeen <= today
      BY <1>1 DEF TypeOK, RowInv
    <2> QED
      BY <1>2, <1>3, <1>5, <2>3, <2>4 DEF SessionOK, CommitDue, Boosted
  <1>7. RowInv' /\ SessionInv'
    BY <1>1, <1>2, <1>6, OwnStep DEF TypeOK
  <1> QED
    BY <1>4, <1>7 DEF IInv, RowInv

\* session.get: the row is loaded.
LEMMA StartEnrichmentStep ==
    ASSUME IInv, NEW w \in Workers, StartEnrichment(w)
    PROVE  IInv'
  <1>1. TypeOK /\ RowInv /\ SessionInv
    BY InvParts
  <1>2. TypeOK'
    <2>1. /\ job' \in [Workers -> Jobs]
          /\ loaded' \in [Workers -> Row \cup {NotLoaded}]
      BY <1>1 DEF TypeOK, StartEnrichment, Jobs
    <2>2. waiting' \in Nat
      <3>1. waiting \in Nat /\ waiting > 0 /\ waiting' = waiting - 1
        BY <1>1 DEF TypeOK, StartEnrichment
      <3> QED
        BY <3>1
    <2> QED
      BY <1>1, <2>1, <2>2 DEF TypeOK, StartEnrichment
  <1>3. SessionOK(w)'
    <2>1. /\ job'[w] = "looking up" /\ loaded'[w] = row /\ today' = today
          /\ row \in Row /\ row.lastSeen <= today
      BY <1>1 DEF TypeOK, RowInv, StartEnrichment
    <2> QED
      BY <2>1 DEF SessionOK, CommitDue
  <1>4. RowInv' /\ SessionInv'
    BY <1>1, <1>3, OwnStep DEF StartEnrichment, TypeOK
  <1> QED
    BY <1>2, <1>4 DEF IInv, RowInv

\* The results are merged into what was loaded, and scored.
LEMMA LookupsReturnStep ==
    ASSUME IInv, NEW w \in Workers, LookupsReturn(w)
    PROVE  IInv'
  <1>1. TypeOK /\ RowInv /\ SessionInv /\ SessionOK(w)
    BY InvParts DEF SessionInv
  <1>2. PICK vt \in VtReports, sh \in ShodanFor(iocType) :
           object' = [object EXCEPT ![w] = Enriched(loaded[w], vt, sh)]
    BY DEF LookupsReturn
  <1> DEFINE o == Enriched(loaded[w], vt, sh)
  <1>3. /\ job' = [job EXCEPT ![w] = "enriched"]
        /\ object' = [object EXCEPT ![w] = o]
        /\ UNCHANGED <<iocType, row, feeds, waiting, today, now, loaded, raced>>
        /\ job[w] = "looking up"
    BY <1>2 DEF LookupsReturn
  <1>4. loaded[w] \in Row /\ loaded[w].lastSeen <= today /\ today \in 0..MaxAge
    BY <1>1, <1>3 DEF SessionOK, TypeOK
  <1>5. /\ o \in Row /\ o.lastSeen = loaded[w].lastSeen
        /\ o.score \in 0..FullScore /\ ScoreOfRow(o)
    BY <1>4, EnrichedRow
  <1> HIDE DEF o
  <1>6. TypeOK'
    BY <1>1, <1>3, <1>5 DEF TypeOK, Jobs
  <1>7. /\ job'[w] = "enriched" /\ loaded'[w] = loaded[w] /\ object'[w] = o
    BY <1>1, <1>3 DEF TypeOK
  <1>8. SessionOK(w)'
    <2>1. /\ ScoreNow(object[w])' = ScoreNow(o)
          /\ ScoreFresh(object[w])' = ScoreFresh(o)
      BY <1>3, <1>7 DEF ScoreNow, ScoreFresh, Scored
    <2>2. ScoreOfRow(object[w])'
      BY <1>5, <1>7, <2>1 DEF ScoreOfRow
    <2> QED
      BY <1>3, <1>4, <1>5, <1>7, <2>2 DEF SessionOK, CommitDue
  <1>9. RowInv' /\ SessionInv'
    BY <1>1, <1>3, <1>8, OwnStep DEF TypeOK
  <1> QED
    BY <1>6, <1>9 DEF IInv, RowInv
\* session.commit: a task that nobody overtook writes its object as it is.
LEMMA CommitStep ==
    ASSUME IInv, NEW w \in Workers, Commit(w)
    PROVE  IInv'
  <1>1. TypeOK /\ RowInv /\ SessionInv /\ SessionOK(w)
    BY InvParts DEF SessionInv
  <1>2. PICK rescored \in BOOLEAN : row' = Written(w, rescored)
    BY DEF Commit
  <1>3. /\ job[w] \in CommitDue
        /\ UNCHANGED <<iocType, feeds, today>>
        /\ waiting' = IF job[w] = "sighted" THEN waiting + 1 ELSE waiting
        /\ raced' = Overtaken(w)
        /\ EndTask(w)
    BY DEF Commit
  <1> DEFINE l == loaded[w]
             o == object[w]
  <1>4. /\ l \in Row /\ l.lastSeen <= today
        /\ o \in Row /\ o.lastSeen <= today
        /\ o.score \in 0..FullScore /\ ScoreOfRow(o)
        /\ job[w] = "enriched" => o.lastSeen = l.lastSeen
        /\ row \in Row /\ row.lastSeen <= today /\ row.score \in 0..FullScore
    BY <1>1, <1>3 DEF SessionOK, TypeOK, RowInv, ScoreInRange
  <1>5. /\ row'.confidence \in {o.confidence, row.confidence}
        /\ row'.lastSeen \in {o.lastSeen, row.lastSeen}
        /\ row'.enrichment \in {o.enrichment, row.enrichment}
        /\ row'.score \in {o.score, row.score}
        /\ row' = [confidence |-> row'.confidence, lastSeen |-> row'.lastSeen,
                   enrichment |-> row'.enrichment, score |-> row'.score]
    BY <1>2 DEF Written, Column
  <1>6. row' \in Row
    <2>1. /\ row'.confidence \in Int /\ row'.lastSeen \in 0..MaxAge
          /\ row'.enrichment \in Data /\ row'.score \in Int
      <3>1. /\ o.confidence \in Int /\ o.lastSeen \in 0..MaxAge
            /\ o.enrichment \in Data /\ o.score \in Int
            /\ row.confidence \in Int /\ row.lastSeen \in 0..MaxAge
            /\ row.enrichment \in Data /\ row.score \in Int
        BY <1>4, RowFields
      <3> QED
        BY <1>5, <3>1
    <2> QED
      BY <1>5, <2>1, RowOf
  <1>7. TypeOK'
    <2>1. "idle" \in Jobs /\ 0 \in 0..MaxAge
      BY DecayAssumption DEF Jobs
    <2>2. /\ job' \in [Workers -> Jobs] /\ now' \in [Workers -> 0..MaxAge]
          /\ loaded' \in [Workers -> Row \cup {NotLoaded}]
          /\ object' \in [Workers -> Row \cup {NotLoaded}]
      BY <1>1, <1>3, <2>1 DEF TypeOK, EndTask
    <2>3. waiting' \in Nat
      BY <1>1, <1>3 DEF TypeOK
    <2>4. raced' \in BOOLEAN
      BY <1>3 DEF Overtaken
    <2> QED
      BY <1>1, <1>3, <1>6, <2>2, <2>3, <2>4 DEF TypeOK
  <1>8. row'.lastSeen <= today' /\ row'.score \in 0..FullScore
    BY <1>3, <1>4, <1>5
  <1>9. ASSUME ~raced'
        PROVE  ScoreOfRow(row)'
    <2>1. l = row
      BY <1>3, <1>9 DEF Overtaken
    <2>2. /\ row'.confidence = o.confidence /\ row'.lastSeen = o.lastSeen
          /\ row'.enrichment = o.enrichment /\ row'.score = o.score
      BY <1>2, <1>3, <1>4, <2>1 DEF Written, Column, CommitDue
    <2>3. row' = o
      BY <1>4, <1>6, <2>2, RowEqual
    <2>4. /\ ScoreNow(row)' = ScoreNow(o)
          /\ ScoreFresh(row)' = ScoreFresh(o)
      <3> HIDE DEF o
      <3> QED
        BY <1>3, <2>3 DEF ScoreNow, ScoreFresh, Scored
    <2> QED
      BY <1>4, <2>3, <2>4 DEF ScoreOfRow
  <1>10. RowInv'
    BY <1>8, <1>9 DEF RowInv, ScoreInRange
  <1>11. SessionInv'
    <2>1. ASSUME NEW v \in Workers
          PROVE  SessionOK(v)'
      <3>1. CASE v = w
        <4>1. job'[v] = "idle"
          BY <1>1, <1>3, <3>1 DEF TypeOK, EndTask
        <4> QED
          BY <4>1, SessionOver
      <3>2. CASE v # w
        <4>1. /\ job'[v] = job[v] /\ now'[v] = now[v]
              /\ loaded'[v] = loaded[v] /\ object'[v] = object[v]
          BY <1>1, <1>3, <3>2 DEF TypeOK, EndTask
        <4>2. SessionOK(v)
          BY <1>1 DEF SessionInv
        <4> QED
          BY <1>3, <4>1, <4>2, SessionKept
      <3> QED
        BY <3>1, <3>2
    <2> QED
      BY <2>1 DEF SessionInv
  <1> QED
    BY <1>7, <1>10, <1>11 DEF IInv, RowInv

\* The session is closed without a commit.
LEMMA GiveUpStep ==
    ASSUME IInv, NEW w \in Workers, GiveUp(w)
    PROVE  IInv'
  <1>1. TypeOK /\ RowInv /\ SessionInv
    BY InvParts
  <1>2. EndTask(w) /\ UNCHANGED <<iocType, row, today, raced>>
    BY DEF GiveUp
  <1>3. TypeOK'
    <2>1. "idle" \in Jobs /\ 0 \in 0..MaxAge
      BY DecayAssumption DEF Jobs
    <2>2. /\ job' \in [Workers -> Jobs] /\ now' \in [Workers -> 0..MaxAge]
          /\ loaded' \in [Workers -> Row \cup {NotLoaded}]
          /\ object' \in [Workers -> Row \cup {NotLoaded}]
      BY <1>1, <1>2, <2>1 DEF TypeOK, EndTask
    <2>3. feeds' \in Nat /\ waiting' \in Nat
      <3>1. feeds \in Nat /\ waiting \in Nat
        BY <1>1 DEF TypeOK
      <3>2. feeds' \in {feeds, feeds + 1} /\ waiting' \in {waiting, waiting + 1}
        BY DEF GiveUp
      <3> QED
        BY <3>1, <3>2
    <2> QED
      BY <1>1, <1>2, <2>2, <2>3 DEF TypeOK
  <1>4. SessionOK(w)'
    <2>1. job'[w] = "idle"
      BY <1>1, <1>2 DEF TypeOK, EndTask
    <2> QED
      BY <2>1, SessionOver
  <1>5. RowInv' /\ SessionInv'
    <2>1. \A v \in Workers : v # w =>
             /\ job'[v] = job[v] /\ now'[v] = now[v]
             /\ loaded'[v] = loaded[v] /\ object'[v] = object[v]
      BY <1>1, <1>2 DEF TypeOK, EndTask
    <2> QED
      BY <1>1, <1>2, <1>4, <2>1, OwnStep
  <1> QED
    BY <1>3, <1>5 DEF IInv, RowInv

\* As a day passes what the formula gives now falls, and what it gives for a
\* row seen today stays.
LEMMA DayAfter ==
    ASSUME today \in 0..MaxAge, NextDay, NEW r \in Row, r.lastSeen <= today,
           ScoreOfRow(r)
    PROVE  ScoreNow(r)' <= r.score /\ r.score <= ScoreFresh(r)'
  <1>1. /\ today' = today + 1 /\ iocType' = iocType /\ today < MaxAge
        /\ r.confidence \in Int /\ r.enrichment \in Data /\ r.score \in Int
        /\ r.lastSeen \in 0..MaxAge
    BY RowFields DEF NextDay
  <1> DEFINE f(age) == FinalScore(iocType, r.confidence, age, r.enrichment)
             a == today - r.lastSeen
             b == today' - r.lastSeen
  <1>2. a \in 0..MaxAge /\ b \in 0..MaxAge /\ a <= b
    BY <1>1, DecayAssumption
  <1>3. f(a) \in 0..FullScore /\ f(b) \in 0..FullScore /\ f(b) <= f(a)
    BY <1>1, <1>2, Final
  <1>4. f(a) <= r.score
    BY DEF ScoreOfRow, ScoreNow, Scored
  <1>5. ScoreNow(r)' = f(b)
    BY <1>1 DEF ScoreNow, Scored
  <1>6. f(b) <= r.score
    <2> HIDE DEF f, a, b
    <2> QED
      BY <1>1, <1>3, <1>4, Hundredths
  <1>7. ScoreFresh(r)' = ScoreFresh(r)
    <2>1. today' - today' = today - today
      BY <1>1
    <2> QED
      BY <1>1, <2>1 DEF ScoreFresh, Scored
  <1> QED
    BY <1>5, <1>6, <1>7 DEF ScoreOfRow

LEMMA NextDayStep == IInv /\ NextDay => IInv'
  <1> SUFFICES ASSUME IInv, NextDay
               PROVE  IInv'
    OBVIOUS
  <1>1. TypeOK /\ RowInv /\ SessionInv
    BY InvParts
  <1>2. /\ today \in 0..MaxAge /\ today' = today + 1 /\ today' \in 0..MaxAge
        /\ UNCHANGED <<iocType, row, feeds, waiting, job, now, loaded, object,
                       raced>>
    BY <1>1, DecayAssumption DEF NextDay, TypeOK, task
  <1>3. TypeOK'
    BY <1>1, <1>2 DEF TypeOK
  <1>4. ASSUME NEW x \in 0..MaxAge, x <= today
        PROVE  x <= today'
    BY <1>2, <1>4
  <1>5. RowInv'
    <2>1. row \in Row /\ row.lastSeen <= today /\ row.lastSeen \in 0..MaxAge
      BY <1>1, RowFields DEF TypeOK, RowInv
    <2>2. ASSUME ~raced
          PROVE  ScoreOfRow(row)'
      <3>1. ScoreOfRow(row)
        BY <1>1, <2>2 DEF RowInv
      <3>2. ASSUME NEW r \in Row, r.lastSeen <= today, ScoreOfRow(r), row' = r
            PROVE  ScoreOfRow(row)'
        BY <1>2, <3>2, DayAfter DEF ScoreOfRow, ScoreNow, ScoreFresh, Scored
      <3> QED
        BY <1>2, <2>1, <3>1, <3>2
    <2> QED
      BY <1>1, <1>2, <1>4, <2>1, <2>2 DEF RowInv, ScoreInRange
  <1>6. ASSUME NEW v \in Workers
        PROVE  SessionOK(v)'
    <2>1. SessionOK(v)
      BY <1>1 DEF SessionInv
    <2>2. job[v] = "upserting" => now'[v] <= today'
      BY <1>1, <1>2, <1>4, <2>1 DEF SessionOK, TypeOK
    <2>3. ASSUME job[v] \in CommitDue \cup {"looking up"}
          PROVE  loaded'[v] \in Row /\ loaded'[v].lastSeen <= today'
      <3>1. loaded[v] \in Row /\ loaded[v].lastSeen <= today
        BY <2>1, <2>3 DEF SessionOK
      <3> QED
        BY <1>2, <1>4, <3>1, RowFields
    <2>4. ASSUME job[v] \in CommitDue
          PROVE  /\ object'[v] \in Row /\ object'[v].lastSeen <= today'
                 /\ object'[v].score \in 0..FullScore
                 /\ ScoreOfRow(object[v])'
      <3>1. /\ object[v] \in Row /\ object[v].lastSeen <= today
            /\ object[v].score \in 0..FullScore /\ ScoreOfRow(object[v])
        BY <2>1, <2>4 DEF SessionOK
      <3>2. ASSUME NEW r \in Row, r.lastSeen <= today, ScoreOfRow(r),
                   object'[v] = r
            PROVE  ScoreOfRow(object[v])'
        BY <1>2, <3>2, DayAfter DEF ScoreOfRow, ScoreNow, ScoreFresh, Scored
      <3>3. object[v].lastSeen <= today'
        BY <1>4, <3>1, RowFields
      <3> QED
        BY <1>2, <3>1, <3>2, <3>3
    <2> QED
      BY <1>2, <2>1, <2>2, <2>3, <2>4 DEF SessionOK, CommitDue, Boosted
  <1> QED
    BY <1>3, <1>5, <1>6 DEF IInv, RowInv, SessionInv

------------------------------------------------------------------------------
(* Theorems                                                                 *)

\* While tasks read, compute and commit in any interleaving: what a session is
\* about to write is scored by the columns beside it, and so is the row, but
\* for a commit that was overtaken.
THEOREM Invariance == Spec => []IInv
  <1>1. IInv /\ UNCHANGED vars => IInv'
    <2> SUFFICES ASSUME IInv, UNCHANGED vars
                 PROVE  IInv'
      OBVIOUS
    <2>1. UNCHANGED <<iocType, row, feeds, waiting, today, raced, job, now,
                      loaded, object>>
      BY DEF vars, task
    <2>2. TypeOK /\ RowInv /\ SessionInv
      BY InvParts
    <2>3. TypeOK'
      BY <2>1, <2>2 DEF TypeOK
    <2>4. RowInv'
      BY <2>1, <2>2, RowKept
    <2>5. SessionInv'
      BY <2>1, <2>2, SessionKept DEF SessionInv
    <2> QED
      BY <2>3, <2>4, <2>5 DEF IInv, RowInv
  <1>2. IInv /\ [Next]_vars => IInv'
    BY <1>1, BeginUpsertStep, SightRowStep, StartEnrichmentStep,
       LookupsReturnStep, CommitStep, GiveUpStep, NextDayStep DEF Next
  <1> QED
    BY <1>2, InitInv, PTL DEF Spec

\* Whatever order the steps of tasks and the days come in, row and sessions
\* keep the types of their columns.
THEOREM TypeCorrect == Spec => []TypeOK
  <1>1. IInv => TypeOK
    BY DEF IInv
  <1> QED
    BY <1>1, Invariance, PTL

\* The risk_score of a row never leaves [0, 100] (scoring.py:135), races
\* included.
THEOREM InRange == Spec => []ScoreInRange
  <1>1. IInv => ScoreInRange
    BY DEF IInv
  <1> QED
    BY <1>1, Invariance, PTL

\* With any number of workers, a row scores below what the formula gives now
\* only while its last commit was by a task that had been overtaken.
THEOREM UnderstatesOnlyRaced == Spec => []UnderstatesOnlyAfterRace
  <1>1. IInv => UnderstatesOnlyAfterRace
    BY DEF IInv, UnderstatesOnlyAfterRace, ScoreOfRow
  <1> QED
    BY <1>1, Invariance, PTL

\* A sighting (parser.py:126-200) that starts and commits on one day, on a row
\* that is as it read it and was not raced for before, does not lower the
\* score.
THEOREM SightingsLowerOnlyRaced == Spec => SightingLowersOnlyAfterRace
  <1>1. ASSUME IInv, [Next]_vars, NEW w \in Workers,
               job[w] = "sighted", job'[w] = "idle",
               object[w].lastSeen = today, ~raced, ~Overtaken(w),
               row.confidence <= 100
        PROVE  row.score <= row'.score
    <2>1. TypeOK /\ RowInv /\ SessionInv /\ SessionOK(w)
      BY <1>1, InvParts DEF SessionInv
    <2> DEFINE o == object[w]
    <2>2. /\ row \in Row /\ loaded[w] = row /\ row.lastSeen <= today
          /\ row.score <= ScoreFresh(row)
          /\ o \in Row /\ o.score \in 0..FullScore /\ ScoreNow(o) <= o.score
          /\ o.confidence = Boosted(row.confidence)
          /\ o.enrichment = row.enrichment /\ today \in 0..MaxAge
      BY <1>1, <2>1 DEF TypeOK, RowInv, SessionOK, ScoreOfRow, Overtaken,
                        CommitDue
    <2>3. row.score <= o.score
      <3>1. /\ row.confidence \in Int /\ row.enrichment \in Data
            /\ row.score \in Int
        BY <2>2, RowFields
      <3>2. o.confidence \in Int /\ row.confidence <= o.confidence
        BY <1>1, <2>2, <3>1 DEF Boosted, Least
      <3>3. /\ Scored(row.confidence, today, row.enrichment) \in 0..FullScore
            /\ Scored(o.confidence, today, row.enrichment) \in 0..FullScore
            /\ Scored(row.confidence, today, row.enrichment)
                 <= Scored(o.confidence, today, row.enrichment)
        BY <2>2, <3>1, <3>2, ScoredToday
      <3>4. ScoreNow(o) = Scored(o.confidence, today, row.enrichment)
        BY <1>1, <2>2 DEF ScoreNow
      <3> QED
        BY <2>2, <3>1, <3>3, <3>4, Hundredths DEF ScoreFresh
    <2>4. row'.score \in {o.score, row.score}
      <3>1. CASE UNCHANGED row
        BY <3>1
      <3>2. CASE \E v \in Workers : Commit(v)
        <4>1. PICK v \in Workers : Commit(v)
          BY <3>2
        <4>2. v = w
          BY <1>1, <2>1, <4>1 DEF Commit, EndTask, TypeOK
        <4> QED
          BY <2>2, <4>1, <4>2 DEF Commit, Written, Column
      <3> QED
        BY <1>1, <3>1, <3>2 DEF Next, vars, BeginUpsert, SightRow,
           StartEnrichment, LookupsReturn, GiveUp, NextDay
    <2> QED
      BY <2>2, <2>3, <2>4, RowFields
  <1>2. IInv /\ [Next]_vars
          => [\A w \in Workers :
                (/\ job[w] = "sighted" /\ job'[w] = "idle"
                 /\ object[w].lastSeen = today
                 /\ ~raced /\ ~Overtaken(w)
                 /\ row.confidence <= 100)
                => row.score <= row'.score]_vars
    BY <1>1
  <1> QED
    BY <1>2, Invariance, PTL DEF Spec, SightingLowersOnlyAfterRace
==============================================================================

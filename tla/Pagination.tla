------------------------------ MODULE Pagination ------------------------------
(***************************************************************************)
(* GET /indicators (api/v1/routes.py): a client pages through the filtered *)
(* list by limit and offset while tasks write the rows it is sorted by.    *)
(* Each page is a statement of its own and sees what is committed then.    *)
(***************************************************************************)
EXTENDS Integers, FiniteSets

CONSTANTS
    Indicators,  \* the rows there may be
    Risks,       \* risk_score values
    Times,       \* last_seen values
    MinRisk,     \* the filters of the query: min_risk and max_risk
    MaxRisk,
    Limit,       \* the page size
    Absent,      \* no row yet
    MaxWrites    \* bound: writes during the traversal

\* A table has finitely many rows.
ASSUME PaginationAssumption ==
    /\ IsFiniteSet(Indicators)
    /\ Risks \subseteq Int /\ Times \subseteq Int
    /\ MinRisk \in Int /\ MaxRisk \in Int
    /\ Limit \in Nat \ {0}
    /\ MaxWrites \in Nat

VARIABLES
    rows,    \* rows[i]: the sort columns of indicator i's row, or Absent
    offset,  \* the offset of the next page
    over,    \* whether the client has seen the last page
    shown,   \* history: shown[i], the pages that indicator i was on
    steady,  \* history: listed from the start, never written, never tied
    pulls,   \* history: writes that moved a row down the list, or off it
    pushes,  \* history: writes that moved a row up the list, or onto it
    writes   \* how many writes there were

vars == <<rows, offset, over, shown, steady, pulls, pushes, writes>>

Row == [risk : Risks, seen : Times]

TypeOK ==
    /\ rows \in [Indicators -> Row \cup {Absent}]
    /\ offset \in Nat
    /\ over \in BOOLEAN
    /\ shown \in [Indicators -> Nat]
    /\ steady \in SUBSET Indicators
    /\ pulls \in Nat /\ pushes \in Nat /\ writes \in Nat

------------------------------------------------------------------------------
(* The query                                                                *)

Passes(row) == row # Absent /\ MinRisk <= row.risk /\ row.risk <= MaxRisk
Listed == {i \in Indicators : Passes(rows[i])}

\* ORDER BY risk_score DESC, last_seen DESC
Above(a, b) == a.risk > b.risk \/ (a.risk = b.risk /\ a.seen > b.seen)

Fewer(m, n) == IF m <= n THEN m ELSE n

\* The sets that may be the first n of rows S: ties fall as they like.
Tops(S, n) ==
    {T \in SUBSET S :
        /\ Cardinality(T) = Fewer(n, Cardinality(S))
        /\ \A i \in T, j \in S \ T : ~Above(rows[j], rows[i])}

\* Mutant of Pages: the list is not ordered.
PagesUnordered(n) ==
    {P \in SUBSET Listed :
        Cardinality(P) = Fewer(Limit, Cardinality(Listed)
                                        - Fewer(n, Cardinality(Listed)))}

\* LIMIT and OFFSET
Pages(n) == UNION {Tops(Listed \ skipped, Limit) : skipped \in Tops(Listed, n)}

------------------------------------------------------------------------------
(* The client and the tasks                                                 *)

Init ==
    /\ rows \in [Indicators -> Row \cup {Absent}]
    /\ offset = 0
    /\ over = FALSE
    /\ shown = [i \in Indicators |-> 0]
    /\ steady = Listed
    /\ pulls = 0
    /\ pushes = 0
    /\ writes = 0

Tied(i) == \E j \in Listed \ {i} : rows[j] = rows[i]

\* The client asks for the next page, until one is not full.
ReadPage ==
    /\ ~over
    /\ \E page \in Pages(offset) :
          /\ shown' = [i \in Indicators |-> IF i \in page THEN shown[i] + 1
                                            ELSE shown[i]]
          /\ over' = (Cardinality(page) < Limit)
    /\ offset' = offset + Limit
    /\ steady' = {i \in steady : ~Tied(i)}
    /\ UNCHANGED <<rows, pulls, pushes, writes>>

\* A row is committed between two pages.
Write(i, row) ==
    LET old == rows[i]
    IN  /\ ~over /\ offset > 0
        /\ writes < MaxWrites
        /\ rows' = [rows EXCEPT ![i] = row]
        /\ steady' = steady \ {i}
        /\ pulls' = IF Passes(old) /\ (Passes(row) => Above(old, row))
                    THEN pulls + 1 ELSE pulls
        /\ pushes' = IF Passes(row) /\ (Passes(old) => Above(row, old))
                     THEN pushes + 1 ELSE pushes
        /\ writes' = writes + 1
        /\ UNCHANGED <<offset, over, shown>>

\* upsert_indicators finds the row: a new score, and the time its worker read.
Sight(i) ==
    /\ rows[i] # Absent
    /\ \E row \in Row : Write(i, row)

\* enrich_indicator_task: a new score only.
Enrich(i) ==
    /\ rows[i] # Absent
    /\ \E risk \in Risks : Write(i, [rows[i] EXCEPT !.risk = risk])

\* upsert_indicators inserts it.
Insert(i) ==
    /\ rows[i] = Absent
    /\ \E row \in Row : Write(i, row)

Next ==
    \/ ReadPage
    \/ \E i \in Indicators : Sight(i) \/ Enrich(i) \/ Insert(i)

Spec == Init /\ [][Next]_vars

------------------------------------------------------------------------------
(* Properties                                                               *)

\* A client that pages to the end misses of the rows that were there all the
\* time, unwritten and without an equal, no more than were moved down or off
\* the list meanwhile: one write costs it one indicator at the most, and a
\* write that only moves a row up costs none (routes.py:71).
MissedOnlyByWrites ==
    over => Cardinality({i \in steady : shown[i] = 0}) <= pulls

\* And it sees no more of them twice than rows were moved up or onto the list.
RepeatedOnlyByWrites ==
    Cardinality({i \in steady : shown[i] > 1}) <= pushes

------------------------------------------------------------------------------
(* The invariant behind them                                                *)

\* How many rows of the list are before s.
Rank(s) == Cardinality({j \in Listed : Above(rows[j], rows[s])})

\* Behind the offset and never shown; shown, and still to be met or met again.
Skipped == {s \in steady : shown[s] = 0 /\ Rank(s) < offset}
Returning ==
    {s \in steady : shown[s] > 1 \/ (shown[s] = 1 /\ Rank(s) >= offset)}

\* Once pages are read no two steady rows are equal, so that a write, which
\* moves each of them by one place at the most, takes one over the offset.
PagingInv ==
    /\ TypeOK
    /\ steady \subseteq Listed
    /\ offset > 0 => \A i, j \in steady : i # j => rows[i] # rows[j]
    /\ over => Cardinality(Listed) < offset
    /\ Cardinality(Skipped) <= pulls
    /\ Cardinality(Returning) <= pushes
==============================================================================

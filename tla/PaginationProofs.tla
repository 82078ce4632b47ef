--------------------------- MODULE PaginationProofs ---------------------------
(***************************************************************************)
(* For any rows, filters, page size and number of writes: each write that  *)
(* moves a row down costs a paging client one indicator at the most, and   *)
(* each that moves a row up shows it one at the most twice.                *)
(***************************************************************************)
EXTENDS Pagination, FiniteSetTheorems, TLAPS

------------------------------------------------------------------------------
(* The order of the list                                                    *)

\* ORDER BY is a strict weak order; rows that it leaves together are equal.
LEMMA AboveOrders ==
    ASSUME NEW a \in Row, NEW b \in Row, NEW c \in Row
    PROVE  /\ ~Above(a, a)
           /\ Above(a, b) => ~Above(b, a)
           /\ Above(a, c) /\ ~Above(b, c) => Above(a, b)
           /\ ~Above(a, b) /\ ~Above(b, a) => a = b
  <1>1. /\ a.risk \in Int /\ b.risk \in Int /\ c.risk \in Int
        /\ a.seen \in Int /\ b.seen \in Int /\ c.seen \in Int
    BY PaginationAssumption DEF Row
  <1>2. a.risk = b.risk /\ a.seen = b.seen => a = b
    BY DEF Row
  <1> QED
    BY <1>1, <1>2 DEF Above

\* The rows of a table t that are before row s.
Ahead(t, s) == {j \in Indicators : Passes(t[j]) /\ Above(t[j], t[s])}

LEMMA RankIsAhead == ASSUME NEW s PROVE Rank(s) = Cardinality(Ahead(rows, s))
  <1>1. Ahead(rows, s) = {j \in Listed : Above(rows[j], rows[s])}
    BY DEF Ahead, Listed
  <1> QED
    BY <1>1 DEF Rank

LEMMA AheadFinite ==
    ASSUME NEW t, NEW s
    PROVE  IsFiniteSet(Ahead(t, s)) /\ Cardinality(Ahead(t, s)) \in Nat
  <1>1. Ahead(t, s) \in SUBSET Indicators
    BY DEF Ahead
  <1> QED
    BY <1>1, FS_Subset, FS_CardinalityType, PaginationAssumption

LEMMA ListedFinite ==
    /\ IsFiniteSet(Listed) /\ Cardinality(Listed) \in Nat
    /\ TypeOK => \A i \in Listed : rows[i] \in Row
  <1>1. Listed \in SUBSET Indicators
    BY DEF Listed
  <1>2. IsFiniteSet(Listed) /\ Cardinality(Listed) \in Nat
    BY <1>1, FS_Subset, FS_CardinalityType, PaginationAssumption
  <1>3. TypeOK => \A i \in Listed : rows[i] \in Row
    BY DEF TypeOK, Listed, Passes
  <1> QED
    BY <1>2, <1>3

------------------------------------------------------------------------------
(* A page                                                                   *)

\* A row without an equal is among the first n exactly when fewer than n are
\* above it; and when it is not, all of the first n are.
LEMMA AmongTheFirst ==
    ASSUME NEW S \in SUBSET Indicators, \A i \in S : rows[i] \in Row,
           NEW n \in Nat, NEW T \in Tops(S, n),
           NEW s \in S, \A j \in S \ {s} : rows[j] # rows[s]
    PROVE  /\ s \in T <=> Cardinality({j \in S : Above(rows[j], rows[s])}) < n
           /\ s \notin T => /\ Cardinality(T) = n
                            /\ T \subseteq {j \in S : Above(rows[j], rows[s])}
  <1> DEFINE A == {j \in S : Above(rows[j], rows[s])}
  <1>1. /\ IsFiniteSet(S) /\ IsFiniteSet(A) /\ IsFiniteSet(T)
        /\ Cardinality(S) \in Nat /\ Cardinality(A) \in Nat
        /\ Cardinality(T) \in Nat
    <2>1. IsFiniteSet(S)
      BY FS_Subset, PaginationAssumption
    <2>2. A \in SUBSET S /\ T \in SUBSET S
      BY DEF Tops
    <2> QED
      BY <2>1, <2>2, FS_Subset, FS_CardinalityType
  <1>2. /\ T \subseteq S
        /\ Cardinality(T) = Fewer(n, Cardinality(S))
        /\ \A i \in T, j \in S \ T : ~Above(rows[j], rows[i])
    BY DEF Tops
  <1>3. ASSUME s \in T
        PROVE  Cardinality(A) < n
    <2>1. A \subseteq T
      BY <1>2, <1>3
    <2>2. s \notin A
      BY AboveOrders
    <2>3. A \cup {s} \in SUBSET T
      BY <2>1, <1>3
    <2>4. Cardinality(A \cup {s}) = Cardinality(A) + 1
      BY <2>2, <1>1, FS_AddElement
    <2>5. Cardinality(A \cup {s}) <= Cardinality(T)
      BY <2>3, <1>1, FS_Subset
    <2> QED
      BY <2>4, <2>5, <1>1, <1>2 DEF Fewer
  <1>4. ASSUME s \notin T
        PROVE  Cardinality(T) = n /\ T \subseteq A /\ ~(Cardinality(A) < n)
    <2>1. ASSUME NEW i \in T
          PROVE  i \in A
      <3>1. i \in S /\ i # s /\ ~Above(rows[s], rows[i])
        BY <1>2, <1>4
      <3>2. rows[i] # rows[s] /\ rows[i] \in Row /\ rows[s] \in Row
        BY <3>1
      <3>3. Above(rows[i], rows[s])
        BY <3>1, <3>2, AboveOrders
      <3> QED
        BY <3>1, <3>3
    <2>2. T # S /\ T \in SUBSET S
      BY <1>2, <1>4
    <2>3. Cardinality(T) # Cardinality(S)
      BY <2>2, <1>1, FS_Subset
    <2>4. Cardinality(T) = n
      BY <2>3, <1>1, <1>2 DEF Fewer
    <2>5. T \in SUBSET A
      BY <2>1
    <2>6. Cardinality(T) <= Cardinality(A)
      BY <2>5, <1>1, FS_Subset
    <2> QED
      BY <2>1, <2>4, <2>6, <1>1
  <1> QED
    BY <1>3, <1>4

\* LIMIT and OFFSET: a row without an equal is on the page exactly when its
\* rank is from the offset on and before the offset of the next page.
LEMMA OnThePage ==
    ASSUME TypeOK, NEW page \in Pages(offset),
           NEW s \in Listed, ~Tied(s)
    PROVE  s \in page <=> offset <= Rank(s) /\ Rank(s) < offset + Limit
  <1>1. PICK skipped \in Tops(Listed, offset) :
               page \in Tops(Listed \ skipped, Limit)
    BY DEF Pages
  <1> DEFINE A == {j \in Listed : Above(rows[j], rows[s])}
             B == {j \in Listed \ skipped : Above(rows[j], rows[s])}
  <1>2. /\ Listed \in SUBSET Indicators
        /\ Listed \ skipped \in SUBSET Indicators
        /\ \A i \in Listed : rows[i] \in Row
        /\ \A j \in Listed \ {s} : rows[j] # rows[s]
        /\ offset \in Nat /\ Limit \in Nat
    BY ListedFinite, PaginationAssumption DEF Listed, Tied, TypeOK
  <1>3. /\ Rank(s) = Cardinality(A)
        /\ IsFiniteSet(A) /\ Cardinality(A) \in Nat
    <2>1. A \in SUBSET Listed
      OBVIOUS
    <2> QED
      BY <2>1, ListedFinite, FS_Subset, FS_CardinalityType DEF Rank
  <1>4. /\ s \in skipped <=> Cardinality(A) < offset
        /\ s \notin skipped => /\ Cardinality(skipped) = offset
                               /\ skipped \subseteq A
    BY <1>1, <1>2, AmongTheFirst
  <1>5. CASE s \in skipped
    <2>1. page \subseteq Listed \ skipped
      BY <1>1 DEF Tops
    <2> QED
      BY <2>1, <1>2, <1>3, <1>4, <1>5
  <1>6. CASE s \notin skipped
    <2>1. s \in page <=> Cardinality(B) < Limit
      <3>1. s \in Listed \ skipped
        BY <1>6
      <3>2. \A i \in Listed \ skipped : rows[i] \in Row
        BY <1>2
      <3>3. \A j \in (Listed \ skipped) \ {s} : rows[j] # rows[s]
        BY <1>2
      <3> QED
        BY <1>1, <1>2, <3>1, <3>2, <3>3, AmongTheFirst
    <2>2. B = A \ skipped /\ A \cap skipped = skipped
      BY <1>4, <1>6
    <2>3. Cardinality(B) = Cardinality(A) - offset
      <3>1. Cardinality(A \ skipped)
              = Cardinality(A) - Cardinality(A \cap skipped)
        BY <1>3, FS_Difference
      <3> QED
        BY <3>1, <2>2, <1>4, <1>6
    <2> QED
      BY <2>1, <2>3, <1>2, <1>3, <1>4, <1>6
  <1> QED
    BY <1>5, <1>6

\* A page that is not full reaches the end of the list.
LEMMA LastPage ==
    ASSUME TypeOK, NEW page \in Pages(offset), Cardinality(page) < Limit
    PROVE  Cardinality(Listed) < offset + Limit
  <1>1. PICK skipped \in Tops(Listed, offset) :
               page \in Tops(Listed \ skipped, Limit)
    BY DEF Pages
  <1>2. /\ skipped \in SUBSET Listed
        /\ Cardinality(skipped) = Fewer(offset, Cardinality(Listed))
        /\ Cardinality(page) = Fewer(Limit, Cardinality(Listed \ skipped))
    BY <1>1 DEF Tops
  <1>3. Listed \cap skipped = skipped
    BY <1>2
  <1>4. Cardinality(Listed \ skipped)
          = Cardinality(Listed) - Cardinality(skipped)
    BY <1>3, ListedFinite, FS_Difference
  <1> QED
    BY <1>2, <1>4, ListedFinite, PaginationAssumption DEF Fewer, TypeOK

------------------------------------------------------------------------------
(* A write                                                                  *)

\* A write to row i moves another by one place at the most: down the numbers
\* only if it pulled i away from before it, up only if it pushed i there.
LEMMA OnePlace ==
    ASSUME NEW t \in [Indicators -> Row \cup {Absent}],
           NEW i \in Indicators, NEW row \in Row,
           NEW s \in Indicators, s # i, t[s] \in Row,
           Passes(t[i]) => t[i] \in Row
    PROVE  LET u   == [t EXCEPT ![i] = row]
               old == Cardinality(Ahead(t, s))
               new == Cardinality(Ahead(u, s))
           IN  /\ new \in {old - 1, old, old + 1}
               /\ new < old => /\ Passes(t[i])
                               /\ Passes(row) => Above(t[i], row)
               /\ new > old => /\ Passes(row)
                               /\ Passes(t[i]) => Above(row, t[i])
  <1> DEFINE u == [t EXCEPT ![i] = row]
             A == Ahead(t, s)
             B == Ahead(u, s)
  <1>1. u[i] = row /\ u[s] = t[s] /\ \A j \in Indicators : j # i => u[j] = t[j]
    OBVIOUS
  <1>2. A \ {i} = B \ {i}
    BY <1>1 DEF Ahead
  <1>3. /\ i \in A <=> Passes(t[i]) /\ Above(t[i], t[s])
        /\ i \in B <=> Passes(row) /\ Above(row, t[s])
    BY <1>1 DEF Ahead
  <1> HIDE DEF u, A, B
  <1>4. /\ IsFiniteSet(A) /\ Cardinality(A) \in Nat
        /\ IsFiniteSet(B) /\ Cardinality(B) \in Nat
    BY AheadFinite DEF A, B
  <1>5. /\ Cardinality(A \ {i}) = IF i \in A THEN Cardinality(A) - 1
                                  ELSE Cardinality(A)
        /\ Cardinality(B \ {i}) = IF i \in B THEN Cardinality(B) - 1
                                  ELSE Cardinality(B)
    BY <1>4, FS_RemoveElement
  <1>6. /\ i \in A /\ i \notin B => (Passes(row) => Above(t[i], row))
        /\ i \in B /\ i \notin A => (Passes(t[i]) => Above(row, t[i]))
    BY <1>3, AboveOrders
  <1>7. /\ Cardinality(B) \in {Cardinality(A) - 1, Cardinality(A),
                               Cardinality(A) + 1}
        /\ Cardinality(B) < Cardinality(A) => i \in A /\ i \notin B
        /\ Cardinality(B) > Cardinality(A) => i \in B /\ i \notin A
    BY <1>2, <1>4, <1>5
  <1> QED
    BY <1>3, <1>6, <1>7 DEF u, A, B

\* Two listed rows that are not equal have not the same rank.
LEMMA RanksDiffer ==
    ASSUME TypeOK, NEW a \in Listed, NEW b \in Listed, rows[a] # rows[b]
    PROVE  Rank(a) # Rank(b)
  <1>1. ASSUME NEW x \in Listed, NEW y \in Listed, Above(rows[x], rows[y])
        PROVE  Rank(x) < Rank(y)
    <2>1. Ahead(rows, x) \in SUBSET Ahead(rows, y)
      <3>1. ASSUME NEW j \in Ahead(rows, x)
            PROVE  j \in Ahead(rows, y)
        <4>1. j \in Listed /\ Above(rows[j], rows[x])
          BY DEF Ahead, Listed
        <4>2. rows[j] \in Row /\ rows[x] \in Row /\ rows[y] \in Row
          BY <4>1, ListedFinite
        <4>3. ~Above(rows[y], rows[x])
          BY <1>1, <4>2, AboveOrders
        <4>4. Above(rows[j], rows[y])
          <5>1. Above(rows[x], rows[y]) /\ ~Above(rows[j], rows[y])
                  => Above(rows[x], rows[j])
            BY <4>2, AboveOrders
          <5>2. Above(rows[j], rows[x]) => ~Above(rows[x], rows[j])
            BY <4>2, AboveOrders
          <5> QED
            BY <5>1, <5>2, <4>1, <1>1
        <4> QED
          BY <4>1, <4>4 DEF Ahead, Listed
      <3> QED
        BY <3>1
    <2>2. x \in Ahead(rows, y) /\ x \notin Ahead(rows, x)
      BY <1>1, ListedFinite, AboveOrders DEF Ahead, Listed
    <2>3. /\ Cardinality(Ahead(rows, x)) <= Cardinality(Ahead(rows, y))
          /\ Cardinality(Ahead(rows, x)) # Cardinality(Ahead(rows, y))
      BY <2>1, <2>2, AheadFinite, FS_Subset
    <2> QED
      BY <2>3, AheadFinite, RankIsAhead
  <1>2. Above(rows[a], rows[b]) \/ Above(rows[b], rows[a])
    BY ListedFinite, AboveOrders
  <1>3. Rank(a) \in Nat /\ Rank(b) \in Nat
    BY AheadFinite, RankIsAhead
  <1> QED
    BY <1>1, <1>2, <1>3

\* What a write may add to a set of rows: one element at the most.
LEMMA OneMore ==
    ASSUME NEW S, IsFiniteSet(S), NEW T, IsFiniteSet(T),
           \A x, y \in T \ S : x = y,
           NEW n \in Nat, Cardinality(S) <= n
    PROVE  /\ Cardinality(T) <= n + 1
           /\ T \subseteq S => Cardinality(T) <= n
  <1>1. T \subseteq S => Cardinality(T) <= Cardinality(S)
    BY FS_Subset
  <1>2. /\ Cardinality(S) \in Nat /\ Cardinality(T) \in Nat
    BY FS_CardinalityType
  <1>3. CASE T \subseteq S
    BY <1>1, <1>2, <1>3
  <1>4. CASE ~(T \subseteq S)
    <2>1. PICK x \in T : x \notin S
      BY <1>4
    <2>2. T \in SUBSET (S \cup {x})
      BY <2>1
    <2>3. /\ IsFiniteSet(S \cup {x})
          /\ Cardinality(S \cup {x}) = Cardinality(S) + 1
      BY <2>1, FS_AddElement
    <2>4. Cardinality(T) <= Cardinality(S \cup {x})
      BY <2>2, <2>3, FS_Subset
    <2> QED
      BY <2>3, <2>4, <1>2, <1>4
  <1> QED
    BY <1>3, <1>4

------------------------------------------------------------------------------
(* The invariant                                                            *)

LEMMA InitPaging == Init => PagingInv
  <1> SUFFICES ASSUME Init PROVE PagingInv
    OBVIOUS
  <1>1. TypeOK
    BY DEF Init, TypeOK, Listed
  <1>2. Skipped = {} /\ Returning = {}
    <2>1. \A s : Rank(s) \in Nat
      BY RankIsAhead, AheadFinite
    <2> QED
      BY <2>1 DEF Init, Skipped, Returning, Listed
  <1> QED
    BY <1>1, <1>2, FS_EmptySet DEF PagingInv, Init

LEMMA CountsFinite ==
    ASSUME TypeOK
    PROVE  /\ IsFiniteSet(Skipped) /\ Cardinality(Skipped) \in Nat
           /\ IsFiniteSet(Returning) /\ Cardinality(Returning) \in Nat
  <1>1. Skipped \in SUBSET Indicators /\ Returning \in SUBSET Indicators
    BY DEF Skipped, Returning, TypeOK
  <1> QED
    BY <1>1, FS_Subset, FS_CardinalityType, PaginationAssumption

\* A page shows the steady rows between its offset and the next: it neither
\* leaves one behind nor leaves one that was shown for later.
LEMMA ReadPageStep ==
    ASSUME PagingInv, ReadPage
    PROVE  PagingInv'
  <1>1. PICK page \in Pages(offset) :
          /\ shown' = [i \in Indicators |-> IF i \in page THEN shown[i] + 1
                                            ELSE shown[i]]
          /\ over' = (Cardinality(page) < Limit)
    BY DEF ReadPage
  <1>2. /\ offset' = offset + Limit
        /\ steady' = {i \in steady : ~Tied(i)}
        /\ rows' = rows /\ pulls' = pulls /\ pushes' = pushes
        /\ writes' = writes
    BY DEF ReadPage
  <1>3. TypeOK /\ Limit \in Nat \ {0} /\ offset \in Nat
    BY PaginationAssumption DEF PagingInv, TypeOK
  <1>4. TypeOK'
    BY <1>1, <1>2, <1>3 DEF TypeOK
  <1>5. Listed' = Listed /\ \A s : Rank(s)' = Rank(s)
    BY <1>2 DEF Listed, Rank
  <1>6. /\ (steady \subseteq Listed)'
        /\ (\A i, j \in steady : i # j => rows[i] # rows[j])'
    BY <1>2, <1>5 DEF PagingInv, Tied
  <1>7. (over => Cardinality(Listed) < offset)'
    BY <1>1, <1>2, <1>3, <1>5, LastPage
  <1>8. ASSUME NEW s \in steady'
        PROVE  /\ s \in steady /\ s \in Indicators
               /\ Rank(s) \in Nat
               /\ shown[s] \in Nat
               /\ shown'[s] = IF offset <= Rank(s) /\ Rank(s) < offset + Limit
                              THEN shown[s] + 1 ELSE shown[s]
    <2>1. s \in steady /\ s \in Listed /\ ~Tied(s)
      BY <1>2 DEF PagingInv
    <2>2. s \in Indicators
      BY <2>1 DEF Listed
    <2>3. s \in page <=> offset <= Rank(s) /\ Rank(s) < offset + Limit
      BY <2>1, <1>3, OnThePage
    <2>4. Rank(s) \in Nat
      BY RankIsAhead, AheadFinite
    <2> QED
      BY <2>1, <2>2, <2>3, <2>4, <1>1, <1>3 DEF TypeOK
  <1>9. Skipped' \in SUBSET Skipped
    BY <1>2, <1>3, <1>5, <1>8 DEF Skipped
  <1>10. Returning' \in SUBSET Returning
    BY <1>2, <1>3, <1>5, <1>8 DEF Returning
  <1>11. Cardinality(Skipped)' <= pulls' /\ Cardinality(Returning)' <= pushes'
    <2>1. /\ Cardinality(Skipped') <= Cardinality(Skipped)
          /\ Cardinality(Returning') <= Cardinality(Returning)
      BY <1>3, <1>9, <1>10, CountsFinite, FS_Subset
    <2>2. Cardinality(Skipped') \in Nat /\ Cardinality(Returning') \in Nat
      BY <1>3, <1>9, <1>10, CountsFinite, FS_Subset, FS_CardinalityType
    <2> QED
      BY <2>1, <2>2, <1>2, <1>3, CountsFinite DEF PagingInv, TypeOK
  <1> QED
    BY <1>4, <1>6, <1>7, <1>11 DEF PagingInv

\* A write takes one steady row over the offset at the most: forward only if
\* it is counted by pulls, back only if it is counted by pushes.
LEMMA WriteStep ==
    ASSUME PagingInv, NEW i \in Indicators, NEW row \in Row, Write(i, row)
    PROVE  PagingInv'
  <1>1. /\ ~over /\ over' = over
        /\ offset > 0 /\ offset' = offset
        /\ shown' = shown
        /\ rows' = [rows EXCEPT ![i] = row]
        /\ steady' = steady \ {i}
        /\ writes' = writes + 1
        /\ pulls' = IF Passes(rows[i]) /\ (Passes(row) => Above(rows[i], row))
                    THEN pulls + 1 ELSE pulls
        /\ pushes' = IF Passes(row) /\ (Passes(rows[i]) => Above(row, rows[i]))
                     THEN pushes + 1 ELSE pushes
    BY DEF Write
  <1>2. TypeOK /\ offset \in Nat /\ pulls \in Nat /\ pushes \in Nat
    BY DEF PagingInv, TypeOK
  <1>3. TypeOK'
    BY <1>1, <1>2 DEF TypeOK
  <1>4. /\ (steady \subseteq Listed)'
        /\ (\A x, y \in steady : x # y => rows[x] # rows[y])'
    BY <1>1, <1>2 DEF PagingInv, Listed, TypeOK
  <1>5. ASSUME NEW s \in steady'
        PROVE  /\ s \in steady
               /\ Rank(s) \in Nat /\ Rank(s)' \in Nat
               /\ Rank(s)' \in {Rank(s) - 1, Rank(s), Rank(s) + 1}
               /\ Rank(s)' < Rank(s) => pulls' = pulls + 1
               /\ Rank(s)' > Rank(s) => pushes' = pushes + 1
    <2>1. s \in steady /\ s # i /\ s \in Indicators /\ rows[s] \in Row
      BY <1>1, <1>2, ListedFinite DEF PagingInv, Listed
    <2>2. Passes(rows[i]) => rows[i] \in Row
      BY <1>2 DEF Passes, TypeOK
    <2>3. Rank(s) = Cardinality(Ahead(rows, s))
      BY RankIsAhead
    <2>4. Rank(s)' = Cardinality(Ahead(rows', s))
      <3>1. Ahead(rows', s) = {j \in Listed' : Above(rows'[j], rows'[s])}
        BY DEF Ahead, Listed
      <3> QED
        BY <3>1 DEF Rank
    <2>5. rows \in [Indicators -> Row \cup {Absent}]
      BY <1>2 DEF TypeOK
    <2> DEFINE old == Cardinality(Ahead(rows, s))
               new == Cardinality(Ahead(rows', s))
    <2>6. /\ new \in {old - 1, old, old + 1}
          /\ new < old => /\ Passes(rows[i])
                          /\ Passes(row) => Above(rows[i], row)
          /\ new > old => /\ Passes(row)
                          /\ Passes(rows[i]) => Above(row, rows[i])
      BY <1>1, <2>1, <2>2, <2>5, OnePlace
    <2>7. old \in Nat /\ new \in Nat
      BY AheadFinite
    <2> HIDE DEF old, new
    <2>8. Rank(s) = old /\ Rank(s)' = new
      BY <2>3, <2>4 DEF old, new
    <2> QED
      BY <2>1, <2>6, <2>7, <2>8, <1>1
  <1>6. ASSUME NEW x \in steady', NEW y \in steady', Rank(x) = Rank(y)
        PROVE  x = y
    <2>1. x \in Listed /\ y \in Listed /\ x \in steady /\ y \in steady
      BY <1>5 DEF PagingInv
    <2>2. rows[x] = rows[y]
      BY <2>1, <1>2, <1>6, RanksDiffer
    <2> QED
      BY <2>1, <2>2, <1>1 DEF PagingInv
  <1>7. Cardinality(Skipped)' <= pulls'
    <2>1. ASSUME NEW s \in Skipped', s \notin Skipped
          PROVE  s \in steady' /\ Rank(s) = offset /\ pulls' = pulls + 1
      <3>1. s \in steady' /\ shown[s] = 0 /\ Rank(s)' < offset
        BY <1>1 DEF Skipped
      <3>2. ~(Rank(s) < offset)
        BY <2>1, <3>1, <1>5 DEF Skipped
      <3> QED
        BY <3>1, <3>2, <1>2, <1>5
    <2>2. \A x, y \in Skipped' \ Skipped : x = y
      BY <2>1, <1>6
    <2>3. /\ IsFiniteSet(Skipped) /\ IsFiniteSet(Skipped')
          /\ Cardinality(Skipped) <= pulls
      <3>1. Skipped' \in SUBSET Indicators
        BY <1>3 DEF Skipped, TypeOK
      <3>2. IsFiniteSet(Skipped')
        BY <3>1, FS_Subset, PaginationAssumption
      <3> QED
        BY <3>2, <1>2, CountsFinite DEF PagingInv
    <2>4. /\ Cardinality(Skipped') <= pulls + 1
          /\ Skipped' \subseteq Skipped => Cardinality(Skipped') <= pulls
      BY <2>2, <2>3, <1>2, OneMore
    <2> QED
      BY <2>1, <2>4, <1>1
  <1>8. Cardinality(Returning)' <= pushes'
    <2>1. ASSUME NEW s \in Returning', s \notin Returning
          PROVE  s \in steady' /\ Rank(s) = offset - 1 /\ pushes' = pushes + 1
      <3>1. s \in steady' /\ shown[s] = 1 /\ ~(shown[s] > 1) /\ Rank(s)' >= offset
        BY <1>1, <1>5, <2>1 DEF Returning
      <3>2. ~(Rank(s) >= offset)
        BY <2>1, <3>1, <1>5 DEF Returning
      <3> QED
        BY <3>1, <3>2, <1>2, <1>5
    <2>2. \A x, y \in Returning' \ Returning : x = y
      BY <2>1, <1>6
    <2>3. /\ IsFiniteSet(Returning) /\ IsFiniteSet(Returning')
          /\ Cardinality(Returning) <= pushes
      <3>1. Returning' \in SUBSET Indicators
        BY <1>3 DEF Returning, TypeOK
      <3>2. IsFiniteSet(Returning')
        BY <3>1, FS_Subset, PaginationAssumption
      <3> QED
        BY <3>2, <1>2, CountsFinite DEF PagingInv
    <2>4. /\ Cardinality(Returning') <= pushes + 1
          /\ Returning' \subseteq Returning => Cardinality(Returning') <= pushes
      BY <2>2, <2>3, <1>2, OneMore
    <2> QED
      BY <2>1, <2>4, <1>1
  <1> QED
    BY <1>1, <1>3, <1>4, <1>7, <1>8 DEF PagingInv

\* For a list of any length, any page size and any number of writes between
\* pages, the rows skipped so far are no more than were moved down, and those
\* to be met again no more than were moved up (routes.py:71).
THEOREM Paging == Spec => []PagingInv
  <1>1. PagingInv /\ UNCHANGED vars => PagingInv'
    BY DEF vars, PagingInv, TypeOK, Skipped, Returning, Rank, Listed
  <1>2. ASSUME PagingInv, Next
        PROVE  PagingInv'
    <2>1. CASE ReadPage
      BY <1>2, <2>1, ReadPageStep
    <2>2. ASSUME NEW i \in Indicators, Sight(i) \/ Enrich(i) \/ Insert(i)
          PROVE  \E row \in Row : Write(i, row)
      <3>1. CASE Sight(i) \/ Insert(i)
        BY <3>1 DEF Sight, Insert
      <3>2. CASE Enrich(i)
        <4>1. rows[i] \in Row
          BY <1>2, <3>2 DEF Enrich, PagingInv, TypeOK
        <4>2. \A risk \in Risks : [rows[i] EXCEPT !.risk = risk] \in Row
          BY <4>1 DEF Row
        <4> QED
          BY <4>2, <3>2 DEF Enrich
      <3> QED
        BY <2>2, <3>1, <3>2
    <2> QED
      BY <1>2, <2>1, <2>2, WriteStep DEF Next
  <1> QED
    BY <1>1, <1>2, InitPaging, PTL DEF Spec

\* A client that pages to the end misses of the rows that were there all the
\* time, unwritten and without an equal, no more than were moved down or off
\* the list meanwhile (routes.py:71).
THEOREM MissedBounded == Spec => []MissedOnlyByWrites
  <1>1. PagingInv => MissedOnlyByWrites
    <2> SUFFICES ASSUME PagingInv, over
                 PROVE  Cardinality({i \in steady : shown[i] = 0}) <= pulls
      BY DEF MissedOnlyByWrites
    <2>1. ASSUME NEW s \in steady
          PROVE  Rank(s) < offset
      <3>1. {j \in Listed : Above(rows[j], rows[s])} \in SUBSET Listed
        OBVIOUS
      <3>2. Rank(s) <= Cardinality(Listed) /\ Rank(s) \in Nat
        BY <3>1, ListedFinite, FS_Subset, FS_CardinalityType DEF Rank
      <3> QED
        BY <3>2, ListedFinite DEF PagingInv, TypeOK
    <2>2. Skipped = {i \in steady : shown[i] = 0}
      BY <2>1 DEF Skipped
    <2> QED
      BY <2>2 DEF PagingInv
  <1> QED
    BY <1>1, Paging, PTL

\* And it sees no more of them twice than rows were moved up or onto the list.
THEOREM RepeatedBounded == Spec => []RepeatedOnlyByWrites
  <1>1. PagingInv => RepeatedOnlyByWrites
    <2> SUFFICES ASSUME PagingInv
                 PROVE  Cardinality({i \in steady : shown[i] > 1}) <= pushes
      BY DEF RepeatedOnlyByWrites
    <2>1. {i \in steady : shown[i] > 1} \in SUBSET Returning
      BY DEF Returning
    <2>2. /\ Cardinality({i \in steady : shown[i] > 1})
               <= Cardinality(Returning)
          /\ IsFiniteSet({i \in steady : shown[i] > 1})
      BY <2>1, CountsFinite, FS_Subset DEF PagingInv
    <2>3. Cardinality({i \in steady : shown[i] > 1}) \in Nat
      BY <2>2, FS_CardinalityType
    <2> QED
      BY <2>2, <2>3, CountsFinite DEF PagingInv, TypeOK
  <1> QED
    BY <1>1, Paging, PTL
==============================================================================

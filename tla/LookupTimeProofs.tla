--------------------------- MODULE LookupTimeProofs ---------------------------
(***************************************************************************)
(* No lookup takes longer than its callers ahead need the two locks for,   *)
(* for every number of lookups and clients, every rate, interval, backoff  *)
(* and timeout, if the event loop runs what is due before time goes on.    *)
(***************************************************************************)
EXTENDS PacingInvariant, PacingProofs, FiniteSetTheorems

------------------------------------------------------------------------------
(* A fair lock's queue                                                      *)

\* What a waiter that joins a line leaves as it is.
LEMMA Appended ==
    ASSUME NEW line \in Seq(Lookups), NEW l \in Lookups
    PROVE  /\ \A p \in DOMAIN Append(line, l) :
                 p # Len(line) + 1
                   => /\ p \in DOMAIN line
                      /\ Append(line, l)[p] = line[p]
                      /\ Head(Append(line, l)) = Head(line)
           /\ Head(Append(line, l)) = IF Len(line) = 0 THEN l ELSE Head(line)
  <1>1. /\ Len(line) \in Nat /\ DOMAIN line = 1..Len(line)
        /\ DOMAIN Append(line, l) = 1..(Len(line) + 1)
        /\ \A p \in 1..Len(line) : Append(line, l)[p] = line[p]
        /\ Append(line, l)[Len(line) + 1] = l
        /\ Append(line, l) \in Seq(Lookups) /\ Append(line, l) # <<>>
    OBVIOUS
  <1>2. Head(Append(line, l)) = Append(line, l)[1]
    BY <1>1
  <1>3. Len(line) # 0 => 1 \in 1..Len(line) /\ Head(line) = line[1]
    BY <1>1
  <1>4. \A p \in 1..(Len(line) + 1) :
            p # Len(line) + 1 => p \in 1..Len(line) /\ Len(line) # 0
    BY <1>1
  <1>5. Len(line) = 0 => Head(Append(line, l)) = l
    BY <1>1, <1>2
  <1> QED
    BY <1>1, <1>2, <1>3, <1>4, <1>5

\* There are no more lookups in the queue than use its client.
LEMMA LineLength ==
    ASSUME IsFiniteSet(Lookups),
           NEW queue \in [Clients -> Seq(Lookups)], NEW phase,
           InLine(queue, phase), NEW l \in Lookups
    PROVE  /\ Cardinality(Sharing(l)) \in Nat
           /\ Len(queue[ClientOf[l]]) <= Cardinality(Sharing(l))
           /\ phase[l] \notin Waiting
                => Len(queue[ClientOf[l]]) + 1 <= Cardinality(Sharing(l))
  <1> DEFINE k == ClientOf[l]
             line == queue[k]
             n == Len(line)
             others == IF phase[l] \in Waiting THEN Sharing(l)
                       ELSE Sharing(l) \ {l}
  <1>1. k \in Clients /\ line \in Seq(Lookups) /\ n \in Nat
    BY ClientsAssumption
  <1>2. /\ Sharing(l) \in SUBSET Lookups /\ l \in Sharing(l)
        /\ others \in SUBSET Lookups
    BY DEF Sharing
  <1>3. /\ IsFiniteSet(Sharing(l)) /\ IsFiniteSet(others)
        /\ Cardinality(Sharing(l)) \in Nat /\ Cardinality(others) \in Nat
    BY <1>2, FS_Subset, FS_CardinalityType
  <1>4. Cardinality(others) = IF phase[l] \in Waiting THEN Cardinality(Sharing(l))
                              ELSE Cardinality(Sharing(l)) - 1
    BY <1>2, <1>3, FS_RemoveElement
  <1>5. ASSUME NEW p \in 1..n
        PROVE  line[p] \in others
    BY <1>1 DEF InLine, Sharing
  <1>6. \A p, q \in 1..n : line[p] = line[q] => p = q
    BY <1>1 DEF InLine
  <1> DEFINE f == [p \in 1..n |-> line[p]]
  <1>7. f \in Injection(1..n, others)
    BY <1>5, <1>6 DEF Injection, IsInjective
  <1>8. Cardinality(1..n) <= Cardinality(others)
    BY <1>3, <1>7, FS_Injection
  <1>9. Cardinality(1..n) = n
    BY <1>1, FS_Interval
  <1> QED
    BY <1>1, <1>3, <1>4, <1>8, <1>9

\* A lookup that waits for nothing joins at the end.
LEMMA JoinLine ==
    ASSUME NEW queue \in [Clients -> Seq(Lookups)],
           NEW phase \in [Lookups -> VtPhases \cup ShPhases],
           InLine(queue, phase),
           NEW l \in Lookups, phase[l] \notin Waiting
    PROVE  InLine(Joined(l, queue), [phase EXCEPT ![l] = "queued"])
  <1> DEFINE k == ClientOf[l]
             line == queue[k]
             n == Len(line)
             after == Joined(l, queue)
             phase2 == [phase EXCEPT ![l] = "queued"]
  <1>1. k \in Clients /\ line \in Seq(Lookups) /\ n \in Nat
    BY ClientsAssumption
  <1>2. /\ after[k] = Append(line, l)
        /\ DOMAIN line = 1..n /\ DOMAIN after[k] = 1..(n + 1)
        /\ after[k][n + 1] = l
        /\ \A p \in 1..n : after[k][p] = line[p]
        /\ \A j \in Clients \ {k} : after[j] = queue[j]
    BY <1>1 DEF Joined
  <1>3. \A j \in Clients : \A p \in DOMAIN queue[j] :
            queue[j][p] \in Lookups /\ queue[j][p] # l
    <2>1. \A j \in Clients : \A p \in DOMAIN queue[j] : queue[j][p] \in Lookups
      OBVIOUS
    <2> QED
      BY <2>1 DEF InLine
  <1>4. /\ phase2[l] = "queued"
        /\ \A m \in Lookups : m # l => phase2[m] = phase[m]
    OBVIOUS
  <1> HIDE DEF after, phase2, n, line, k
  <1>5. ASSUME NEW j \in Clients, NEW p \in DOMAIN after[j]
        PROVE  /\ phase2[after[j][p]] \in Waiting
               /\ ClientOf[after[j][p]] = j
               /\ \A q \in DOMAIN after[j] : after[j][q] = after[j][p] => q = p
    <2>1. CASE j = k
      <3>1. \A r \in 1..n : /\ line[r] \in Lookups /\ line[r] # l
                           /\ phase[line[r]] \in Waiting
                           /\ ClientOf[line[r]] = k
                           /\ \A q \in 1..n : line[q] = line[r] => q = r
        BY <1>1, <1>2, <1>3 DEF InLine, line
      <3>2. ClientOf[l] = k /\ "queued" \in Waiting
        BY DEF k, Waiting
      <3>3. DOMAIN after[j] = 1..(n + 1) /\ p \in 1..(n + 1)
        BY <1>2, <2>1
      <3>4. \A r \in 1..(n + 1) : r # n + 1 => r \in 1..n /\ after[j][r] = line[r]
        <4>1. \A r \in 1..(n + 1) : r # n + 1 => r \in 1..n
          BY <1>1
        <4> QED
          BY <4>1, <1>2, <2>1
      <3>5. after[j][n + 1] = l
        BY <1>2, <2>1
      <3>6. CASE p = n + 1
        BY <1>4, <2>1, <3>1, <3>2, <3>3, <3>4, <3>5, <3>6
      <3>7. CASE p # n + 1
        BY <1>4, <2>1, <3>1, <3>2, <3>3, <3>4, <3>5, <3>7
      <3> QED
        BY <3>6, <3>7
    <2>2. CASE j # k
      BY <1>2, <1>3, <1>4, <1>5, <2>2 DEF InLine
    <2> QED
      BY <2>1, <2>2
  <1>6. ASSUME NEW m \in Lookups, phase2[m] \in Waiting
        PROVE  \E p \in DOMAIN after[ClientOf[m]] : after[ClientOf[m]][p] = m
    <2>1. CASE m = l
      <3>1. n + 1 \in DOMAIN after[k] /\ after[k][n + 1] = m
        BY <1>1, <1>2, <2>1
      <3> QED
        BY <3>1, <2>1 DEF k
    <2>2. CASE m # l
      <3>1. phase[m] \in Waiting /\ ClientOf[m] \in Clients
        BY <1>4, <1>6, <2>2, ClientsAssumption
      <3>2. PICK p \in DOMAIN queue[ClientOf[m]] : queue[ClientOf[m]][p] = m
        BY <3>1 DEF InLine
      <3>3. CASE ClientOf[m] = k
        <4>1. p \in 1..n /\ p \in DOMAIN after[k] /\ after[k][p] = m
          BY <1>1, <1>2, <3>2, <3>3 DEF line
        <4> QED
          BY <3>3, <4>1
      <3>4. CASE ClientOf[m] # k
        BY <1>2, <3>1, <3>2, <3>4
      <3> QED
        BY <3>3, <3>4
    <2> QED
      BY <2>1, <2>2
  <1> QED
    BY <1>5, <1>6 DEF InLine, after, phase2

\* The holder leaves the front.
LEMMA LeaveLine ==
    ASSUME NEW queue \in [Clients -> Seq(Lookups)],
           NEW phase \in [Lookups -> VtPhases \cup ShPhases],
           InLine(queue, phase),
           NEW l \in Lookups, Holds(l, queue),
           NEW next \in (VtPhases \cup ShPhases) \ Waiting
    PROVE  InLine(Released(l, queue), [phase EXCEPT ![l] = next])
  <1> DEFINE k == ClientOf[l]
             line == queue[k]
             n == Len(line)
             after == Released(l, queue)
             phase2 == [phase EXCEPT ![l] = next]
  <1>1. /\ k \in Clients /\ line \in Seq(Lookups) /\ n \in Nat \ {0}
        /\ line[1] = l
    BY ClientsAssumption DEF Holds
  <1>2. /\ after[k] = Tail(line)
        /\ DOMAIN line = 1..n /\ DOMAIN after[k] = 1..(n - 1)
        /\ \A p \in 1..(n - 1) : after[k][p] = line[p + 1]
        /\ \A j \in Clients \ {k} : after[j] = queue[j]
    BY <1>1 DEF Released
  <1>3. \A j \in Clients : \A p \in DOMAIN queue[j] :
            /\ queue[j][p] \in Lookups
            /\ queue[j][p] = l => j = k /\ p = 1
    <2>1. \A j \in Clients : \A p \in DOMAIN queue[j] : queue[j][p] \in Lookups
      OBVIOUS
    <2> QED
      BY <1>1, <1>2, <2>1 DEF InLine
  <1>4. /\ phase2[l] = next /\ next \notin Waiting
        /\ \A m \in Lookups : m # l => phase2[m] = phase[m]
    OBVIOUS
  <1> HIDE DEF after, phase2, n, line, k
  <1>5. ASSUME NEW j \in Clients, NEW p \in DOMAIN after[j]
        PROVE  /\ phase2[after[j][p]] \in Waiting
               /\ ClientOf[after[j][p]] = j
               /\ \A q \in DOMAIN after[j] : after[j][q] = after[j][p] => q = p
    <2>1. CASE j = k
      <3>1. p \in 1..(n - 1) /\ p + 1 \in 1..n /\ after[j][p] = line[p + 1]
        BY <1>1, <1>2, <2>1
      <3>2. line[p + 1] \in Lookups /\ line[p + 1] # l
        BY <1>1, <1>2, <1>3, <3>1 DEF line
      <3>3. phase[line[p + 1]] \in Waiting /\ ClientOf[line[p + 1]] = k
        BY <1>1, <1>2, <3>1 DEF InLine, line
      <3>4. ASSUME NEW q \in DOMAIN after[j], after[j][q] = after[j][p]
            PROVE  q = p
        <4>1. q \in 1..(n - 1) /\ q + 1 \in 1..n /\ line[q + 1] = line[p + 1]
          <5>1. q \in 1..(n - 1)
            BY <1>2, <2>1, <3>4
          <5>2. after[j][q] = line[q + 1]
            BY <1>2, <2>1, <5>1
          <5> QED
            BY <1>1, <3>1, <3>4, <5>1, <5>2
        <4>2. q + 1 = p + 1
          BY <1>1, <1>2, <3>1, <4>1 DEF InLine, line
        <4> QED
          BY <3>1, <4>1, <4>2
      <3> QED
        BY <1>4, <2>1, <3>1, <3>2, <3>3, <3>4
    <2>2. CASE j # k
      BY <1>2, <1>3, <1>4, <1>5, <2>2 DEF InLine
    <2> QED
      BY <2>1, <2>2
  <1>6. ASSUME NEW m \in Lookups, phase2[m] \in Waiting
        PROVE  \E p \in DOMAIN after[ClientOf[m]] : after[ClientOf[m]][p] = m
    <2>1. m # l /\ phase[m] \in Waiting /\ ClientOf[m] \in Clients
      BY <1>4, <1>6, ClientsAssumption
    <2>2. PICK p \in DOMAIN queue[ClientOf[m]] : queue[ClientOf[m]][p] = m
      BY <2>1 DEF InLine
    <2>3. CASE ClientOf[m] = k
      <3>1. p \in 1..n /\ p # 1 /\ line[p] = m
        BY <1>1, <1>2, <2>1, <2>2, <2>3 DEF line
      <3>2. p - 1 \in DOMAIN after[k] /\ after[k][p - 1] = m
        BY <1>1, <1>2, <3>1
      <3> QED
        BY <2>3, <3>2
    <2>4. CASE ClientOf[m] # k
      BY <1>2, <2>1, <2>2, <2>4
    <2> QED
      BY <2>3, <2>4
  <1> QED
    BY <1>5, <1>6 DEF InLine, after, phase2

\* Anything else that leaves who waits alone leaves the queue in line.
LEMMA SameLine ==
    ASSUME NEW queue \in [Clients -> Seq(Lookups)],
           NEW phase, NEW phase2, InLine(queue, phase),
           \A m \in Lookups : phase[m] \in Waiting <=> phase2[m] \in Waiting
    PROVE  InLine(queue, phase2)
  <1>1. \A j \in Clients : \A p \in DOMAIN queue[j] : queue[j][p] \in Lookups
    OBVIOUS
  <1> QED
    BY <1>1 DEF InLine

------------------------------------------------------------------------------
(* Deadlines                                                                *)

\* One more wait.
LEMMA Waits ==
    ASSUME NEW w \in Nat, NEW a \in Int, NEW b \in Int
    PROVE  /\ a * w \in Int
           /\ (a + 1) * w = a * w + w
           /\ (a - 1) * w = a * w - w
           /\ a <= b => a * w <= b * w
           /\ 0 * w = 0
  <1>1. a * w \in Int /\ b * w \in Int
    OBVIOUS
  <1>2. (a + 1) * w = a * w + w /\ (a - 1) * w = a * w - w
    OBVIOUS
  <1>3. a <= b => a * w <= b * w
    <2> SUFFICES ASSUME a <= b PROVE a * w <= b * w
      OBVIOUS
    <2>1. (b - a) * w \in Nat
      OBVIOUS
    <2>2. (b - a) * w = b * w - a * w
      OBVIOUS
    <2> QED
      BY <1>1, <2>1, <2>2
  <1>4. 0 * w = 0
    OBVIOUS
  <1> QED
    BY <1>1, <1>2, <1>3, <1>4

\* Who waits for a lock has not passed its deadline.
LEMMA InTime ==
    ASSUME NEW now \in Int, NEW queue \in [Clients -> Seq(Lookups)],
           NEW phase, NEW due \in [Lookups -> Int], NEW w \in Nat,
           NEW deadline \in [Lookups -> Int],
           OnTime(now, queue, phase, due, w, deadline)
    PROVE  \A l \in Lookups : phase[l] \in Waiting => now <= deadline[l]
  <1> SUFFICES ASSUME NEW l \in Lookups, phase[l] \in Waiting
               PROVE  now <= deadline[l]
    OBVIOUS
  <1> DEFINE k == ClientOf[l]
             h == Head(queue[k])
  <1>1. k \in Clients
    BY ClientsAssumption
  <1>2. PICK p \in DOMAIN queue[k] : queue[k][p] = l
    BY DEF OnTime, InLine
  <1>3. p \in Nat /\ p >= 1 /\ h \in Lookups
    BY <1>1, <1>2
  <1>4. Leaves(now, queue[k], phase, due, w) + (p - 1) * w <= deadline[l]
    BY <1>1, <1>2 DEF OnTime
  <1>5. /\ now <= Leaves(now, queue[k], phase, due, w)
        /\ Leaves(now, queue[k], phase, due, w) \in Int
    <2>1. CASE phase[h] = "sleeping"
      <3>1. now <= due[h] /\ due[h] \in Int
        BY <1>3, <2>1 DEF OnTime
      <3> QED
        BY <2>1, <3>1 DEF Leaves
    <2>2. CASE phase[h] # "sleeping"
      BY <2>2 DEF Leaves
    <2> QED
      BY <2>1, <2>2
  <1>6. (p - 1) * w \in Nat
    BY <1>3
  <1> QED
    BY <1>4, <1>5, <1>6

\* Joining the queue, with a deadline that allows for all that share it.
LEMMA JoinInTime ==
    ASSUME IsFiniteSet(Lookups),
           NEW now \in Int, NEW queue \in [Clients -> Seq(Lookups)],
           NEW phase \in [Lookups -> VtPhases \cup ShPhases],
           NEW due \in [Lookups -> Int], NEW w \in Nat,
           NEW deadline \in [Lookups -> Int],
           OnTime(now, queue, phase, due, w, deadline),
           NEW l \in Lookups, phase[l] \notin Waiting,
           NEW deadline2 \in [Lookups -> Int],
           \A m \in Lookups \ {l} : deadline2[m] = deadline[m],
           now + Cardinality(Sharing(l)) * w <= deadline2[l]
    PROVE  OnTime(now, Joined(l, queue), [phase EXCEPT ![l] = "queued"],
                  due, w, deadline2)
  <1> DEFINE k == ClientOf[l]
             line == queue[k]
             n == Len(line)
             after == Joined(l, queue)
             phase2 == [phase EXCEPT ![l] = "queued"]
             room == Cardinality(Sharing(l))
  <1>1. /\ k \in Clients /\ line \in Seq(Lookups) /\ n \in Nat
        /\ InLine(queue, phase)
    BY ClientsAssumption DEF OnTime
  <1>2. InLine(after, phase2)
    BY <1>1, JoinLine
  <1>3. room \in Nat /\ n + 1 <= room
    BY <1>1, LineLength
  <1>4. /\ after[k] = Append(line, l)
        /\ DOMAIN line = 1..n /\ DOMAIN after[k] = 1..(n + 1)
        /\ after[k][n + 1] = l
        /\ \A p \in 1..n : after[k][p] = line[p]
        /\ \A j \in Clients \ {k} : after[j] = queue[j]
    BY <1>1 DEF Joined
  <1>5. \A j \in Clients : \A p \in DOMAIN queue[j] :
            /\ queue[j][p] \in Lookups /\ queue[j][p] # l
            /\ Head(queue[j]) \in Lookups /\ Head(queue[j]) # l
    <2>1. ASSUME NEW j \in Clients, NEW p \in DOMAIN queue[j]
          PROVE  /\ queue[j][p] \in Lookups /\ Head(queue[j]) = queue[j][1]
                 /\ 1 \in DOMAIN queue[j] /\ Head(queue[j]) \in Lookups
      OBVIOUS
    <2> QED
      BY <1>1, <2>1 DEF InLine
  <1>6. /\ phase2[l] = "queued"
        /\ \A m \in Lookups : m # l => phase2[m] = phase[m]
    OBVIOUS
  <1>7. ASSUME NEW m \in Lookups, phase2[m] = "sleeping"
        PROVE  Holds(m, after) /\ now <= due[m] /\ due[m] <= now + w
    <2>1. m # l /\ phase[m] = "sleeping"
      BY <1>6, <1>7
    <2>2. Holds(m, queue) /\ now <= due[m] /\ due[m] <= now + w
      BY <2>1 DEF OnTime
    <2> QED
      BY <2>2, HolderStays
  <1> HIDE DEF after, phase2
  <1>8. ASSUME NEW j \in Clients, NEW p \in DOMAIN after[j]
        PROVE  Leaves(now, after[j], phase2, due, w) + (p - 1) * w
                 <= deadline2[after[j][p]]
    <2>1. CASE j # k
      <3>1. after[j] = queue[j]
        BY <1>4, <2>1
      <3>2. Leaves(now, after[j], phase2, due, w)
              = Leaves(now, queue[j], phase, due, w)
        BY <1>5, <1>6, <1>8, <3>1 DEF Leaves
      <3> QED
        BY <1>5, <1>8, <3>1, <3>2 DEF OnTime
    <2>2. CASE j = k /\ p # n + 1
      <3>1. p \in 1..n /\ p \in DOMAIN queue[j] /\ after[j][p] = queue[j][p]
        BY <1>1, <1>4, <1>8, <2>2, Appended
      <3>2. Head(after[j]) = Head(queue[j])
        <4>1. after[j] = Append(line, l) /\ queue[j] = line
          BY <1>4, <2>2
        <4>2. p \in DOMAIN Append(line, l) /\ p # Len(line) + 1
          BY <4>1, <1>8, <2>2
        <4> QED
          BY <1>1, <4>1, <4>2, Appended
      <3>3. Leaves(now, after[j], phase2, due, w)
              = Leaves(now, queue[j], phase, due, w)
        BY <1>5, <1>6, <3>1, <3>2 DEF Leaves
      <3> QED
        BY <1>5, <3>1, <3>3 DEF OnTime
    <2>3. CASE j = k /\ p = n + 1
      <3>1. after[j][p] = l /\ p - 1 = n
        BY <1>1, <1>4, <2>3
      <3>2. /\ Leaves(now, after[j], phase2, due, w) \in Int
            /\ Leaves(now, after[j], phase2, due, w) <= now + w
        <4>1. CASE n = 0
          <5>1. Head(after[j]) = l
            BY <1>1, <1>4, <2>3, <4>1, Appended
          <5> QED
            BY <5>1, <1>6 DEF Leaves
        <4>2. CASE n # 0
          <5>1. Head(after[j]) = Head(line) /\ 1 \in DOMAIN line
            BY <1>1, <1>4, <2>3, <4>2, Appended
          <5>2. Head(after[j]) \in Lookups
            BY <1>1, <1>5, <5>1
          <5> QED
            BY <5>2, <1>7 DEF Leaves
        <4> QED
          BY <4>1, <4>2
      <3>3. /\ (n + 1) * w = n * w + w /\ n * w \in Int
            /\ (n + 1) * w <= room * w /\ room * w \in Int
        <4>1. n \in Int /\ n + 1 \in Int /\ room \in Int
          BY <1>1, <1>3
        <4> HIDE DEF n, room
        <4> QED
          BY <4>1, <1>3, Waits
      <3>4. deadline2[l] \in Int
        OBVIOUS
      <3> HIDE DEF n, room
      <3> QED
        BY <3>1, <3>2, <3>3, <3>4 DEF room
    <2> QED
      BY <2>1, <2>2, <2>3
  <1> QED
    BY <1>2, <1>7, <1>8 DEF OnTime, after, phase2

\* The holder goes to sleep, for one wait at the most.
LEMMA SleepInTime ==
    ASSUME NEW now \in Int, NEW queue \in [Clients -> Seq(Lookups)],
           NEW phase \in [Lookups -> VtPhases \cup ShPhases],
           NEW due \in [Lookups -> Int], NEW w \in Nat,
           NEW deadline \in [Lookups -> Int],
           OnTime(now, queue, phase, due, w, deadline),
           NEW l \in Lookups, phase[l] = "queued", Holds(l, queue),
           NEW d \in Int, now <= d, d <= now + w
    PROVE  OnTime(now, queue, [phase EXCEPT ![l] = "sleeping"],
                  [due EXCEPT ![l] = d], w, deadline)
  <1> DEFINE phase2 == [phase EXCEPT ![l] = "sleeping"]
             due2 == [due EXCEPT ![l] = d]
  <1>1. /\ phase2[l] = "sleeping" /\ due2[l] = d
        /\ \A m \in Lookups : m # l => phase2[m] = phase[m] /\ due2[m] = due[m]
    OBVIOUS
  <1> HIDE DEF phase2, due2
  <1>2. InLine(queue, phase2)
    <2>1. \A m \in Lookups : phase[m] \in Waiting <=> phase2[m] \in Waiting
      BY <1>1 DEF Waiting
    <2> QED
      BY <2>1, SameLine DEF OnTime
  <1>3. ASSUME NEW m \in Lookups, phase2[m] = "sleeping"
        PROVE  Holds(m, queue) /\ now <= due2[m] /\ due2[m] <= now + w
    BY <1>1, <1>3 DEF OnTime
  <1>4. ASSUME NEW j \in Clients, NEW p \in DOMAIN queue[j]
        PROVE  Leaves(now, queue[j], phase2, due2, w) + (p - 1) * w
                 <= deadline[queue[j][p]]
    <2>1. /\ Head(queue[j]) \in Lookups /\ p \in Int
          /\ queue[j][p] \in Lookups
      OBVIOUS
    <2>2. /\ Leaves(now, queue[j], phase2, due2, w)
               <= Leaves(now, queue[j], phase, due, w)
          /\ Leaves(now, queue[j], phase2, due2, w) \in Int
          /\ Leaves(now, queue[j], phase, due, w) \in Int
      <3>1. CASE Head(queue[j]) = l
        BY <1>1, <3>1 DEF Leaves
      <3>2. CASE Head(queue[j]) # l
        <4>1. due2[Head(queue[j])] = due[Head(queue[j])]
          BY <1>1, <2>1, <3>2
        <4>2. due[Head(queue[j])] \in Int
          BY <2>1
        <4> QED
          BY <1>1, <2>1, <3>2, <4>1, <4>2 DEF Leaves
      <3> QED
        BY <3>1, <3>2
    <2>3. Leaves(now, queue[j], phase, due, w) + (p - 1) * w
            <= deadline[queue[j][p]]
      BY DEF OnTime
    <2>4. (p - 1) * w \in Int /\ deadline[queue[j][p]] \in Int
      BY <2>1
    <2> QED
      BY <2>2, <2>3, <2>4
  <1> QED
    BY <1>2, <1>3, <1>4 DEF OnTime, phase2, due2

\* The holder leaves, not after it had to: the next one may take a wait.
LEMMA LeaveInTime ==
    ASSUME NEW now \in Int, NEW queue \in [Clients -> Seq(Lookups)],
           NEW phase \in [Lookups -> VtPhases \cup ShPhases],
           NEW due \in [Lookups -> Int], NEW w \in Nat,
           NEW deadline \in [Lookups -> Int],
           OnTime(now, queue, phase, due, w, deadline),
           NEW l \in Lookups, Holds(l, queue),
           NEW next \in (VtPhases \cup ShPhases) \ Waiting,
           NEW d \in Int
    PROVE  OnTime(now, Released(l, queue), [phase EXCEPT ![l] = next],
                  [due EXCEPT ![l] = d], w, deadline)
  <1> DEFINE k == ClientOf[l]
             line == queue[k]
             n == Len(line)
             after == Released(l, queue)
             phase2 == [phase EXCEPT ![l] = next]
             due2 == [due EXCEPT ![l] = d]
  <1>1. /\ k \in Clients /\ line \in Seq(Lookups) /\ n \in Nat \ {0}
        /\ line[1] = l /\ Head(line) = l
    BY ClientsAssumption DEF Holds
  <1>2. /\ after[k] = Tail(line)
        /\ DOMAIN line = 1..n /\ DOMAIN after[k] = 1..(n - 1)
        /\ \A p \in 1..(n - 1) : after[k][p] = line[p + 1]
        /\ \A j \in Clients \ {k} : after[j] = queue[j]
    BY <1>1 DEF Released
  <1>3. InLine(queue, phase) /\ InLine(after, phase2)
    BY LeaveLine DEF OnTime
  <1>4. /\ phase2[l] = next /\ next # "sleeping"
        /\ \A m \in Lookups : m # l => phase2[m] = phase[m] /\ due2[m] = due[m]
    BY DEF Waiting
  <1>5. after \in [Clients -> Seq(Lookups)]
    BY QueueType
  <1> HIDE DEF phase2, due2
  <1>6. ASSUME NEW m \in Lookups, phase2[m] = "sleeping"
        PROVE  /\ ClientOf[m] # k
               /\ Holds(m, after) /\ now <= due2[m] /\ due2[m] <= now + w
    <2>1. m # l /\ phase[m] = "sleeping" /\ due2[m] = due[m]
      BY <1>4, <1>6
    <2>2. Holds(m, queue) /\ now <= due[m] /\ due[m] <= now + w
      BY <2>1 DEF OnTime
    <2> QED
      BY <2>1, <2>2, OtherHolderStays
  <1> HIDE DEF after
  <1>7. ASSUME NEW j \in Clients, NEW p \in DOMAIN after[j]
        PROVE  Leaves(now, after[j], phase2, due2, w) + (p - 1) * w
                 <= deadline[after[j][p]]
    <2>1. CASE j # k
      <3>1. after[j] = queue[j] /\ p \in DOMAIN queue[j]
        BY <1>2, <1>7, <2>1
      <3>2. Head(queue[j]) \in Lookups /\ Head(queue[j]) # l
        <4>1. Head(queue[j]) \in Lookups /\ 1 \in DOMAIN queue[j]
              /\ Head(queue[j]) = queue[j][1]
          BY <3>1
        <4> QED
          BY <4>1, <1>3, <2>1 DEF InLine
      <3>3. Leaves(now, after[j], phase2, due2, w)
              = Leaves(now, queue[j], phase, due, w)
        BY <1>4, <3>1, <3>2 DEF Leaves
      <3> QED
        BY <3>1, <3>3 DEF OnTime
    <2>2. CASE j = k
      <3>1. /\ p \in 1..(n - 1) /\ p + 1 \in DOMAIN line
            /\ after[j][p] = line[p + 1]
        <4>1. p \in 1..(n - 1)
          BY <1>2, <1>7, <2>2
        <4>2. p + 1 \in 1..n
          BY <1>1, <4>1
        <4> QED
          BY <1>2, <2>2, <4>1, <4>2
      <3>2. Head(after[j]) \in Lookups /\ ClientOf[Head(after[j])] = k
        <4>1. 1 \in DOMAIN after[j] /\ Head(after[j]) = after[j][1]
          BY <1>5, <1>7
        <4>2. after[j][1] \in Lookups
          BY <1>5, <4>1
        <4> QED
          BY <1>3, <2>2, <4>1, <4>2 DEF InLine
      <3>3. Leaves(now, after[j], phase2, due2, w) = now + w
        BY <1>6, <3>2 DEF Leaves
      <3>4. Leaves(now, line, phase, due, w) + ((p + 1) - 1) * w
              <= deadline[line[p + 1]]
        BY <1>1, <3>1 DEF OnTime
      <3>5. /\ now <= Leaves(now, line, phase, due, w)
            /\ Leaves(now, line, phase, due, w) \in Int
        BY <1>1 DEF OnTime, Leaves
      <3>6. /\ (p + 1) - 1 = p /\ (p - 1) * w = p * w - w /\ p * w \in Int
            /\ deadline[line[p + 1]] \in Int
        <4>1. p \in Int /\ line[p + 1] \in Lookups
          BY <1>1, <3>1
        <4>2. deadline[line[p + 1]] \in Int
          BY <4>1
        <4>3. (p - 1) * w = p * w - w /\ p * w \in Int
          BY <4>1, Waits
        <4> QED
          BY <4>1, <4>2, <4>3
      <3> HIDE DEF n, line, k
      <3> QED
        BY <3>1, <3>3, <3>4, <3>5, <3>6
    <2> QED
      BY <2>1, <2>2
  <1> QED
    BY <1>3, <1>6, <1>7 DEF OnTime, after, phase2, due2

\* What happens to a lookup that waits for no lock does not delay those that do.
LEMMA OtherInTime ==
    ASSUME NEW now \in Int, NEW queue \in [Clients -> Seq(Lookups)],
           NEW phase \in [Lookups -> VtPhases \cup ShPhases],
           NEW due \in [Lookups -> Int], NEW w \in Nat,
           NEW deadline \in [Lookups -> Int],
           OnTime(now, queue, phase, due, w, deadline),
           NEW l \in Lookups, phase[l] \notin Waiting,
           NEW next \in (VtPhases \cup ShPhases) \ Waiting,
           NEW due2, \A m \in Lookups \ {l} : due2[m] = due[m],
           NEW deadline2 \in [Lookups -> Int],
           \A m \in Lookups \ {l} : deadline2[m] = deadline[m]
    PROVE  OnTime(now, queue, [phase EXCEPT ![l] = next], due2, w, deadline2)
  <1> DEFINE phase2 == [phase EXCEPT ![l] = next]
  <1>1. /\ phase2[l] = next /\ next \notin Waiting
        /\ \A m \in Lookups : m # l => /\ phase2[m] = phase[m]
                                      /\ due2[m] = due[m]
                                      /\ deadline2[m] = deadline[m]
    OBVIOUS
  <1>2. InLine(queue, phase)
    BY DEF OnTime
  <1> HIDE DEF phase2
  <1>3. InLine(queue, phase2)
    <2>1. \A m \in Lookups : phase[m] \in Waiting <=> phase2[m] \in Waiting
      BY <1>1
    <2> QED
      BY <1>2, <2>1, SameLine
  <1>4. ASSUME NEW m \in Lookups, phase2[m] = "sleeping"
        PROVE  Holds(m, queue) /\ now <= due2[m] /\ due2[m] <= now + w
    <2>1. m # l
      BY <1>1, <1>4 DEF Waiting
    <2> QED
      BY <1>1, <1>4, <2>1 DEF OnTime
  <1>5. ASSUME NEW j \in Clients, NEW p \in DOMAIN queue[j]
        PROVE  Leaves(now, queue[j], phase2, due2, w) + (p - 1) * w
                 <= deadline2[queue[j][p]]
    <2>1. /\ Head(queue[j]) \in Lookups /\ queue[j][p] \in Lookups
          /\ 1 \in DOMAIN queue[j] /\ Head(queue[j]) = queue[j][1]
      OBVIOUS
    <2>2. Head(queue[j]) # l /\ queue[j][p] # l
      BY <1>2, <2>1 DEF InLine
    <2>3. Leaves(now, queue[j], phase2, due2, w)
            = Leaves(now, queue[j], phase, due, w)
      BY <1>1, <2>1, <2>2 DEF Leaves
    <2> QED
      BY <1>1, <2>1, <2>2, <2>3 DEF OnTime
  <1> QED
    BY <1>3, <1>4, <1>5 DEF OnTime, phase2

\* Time goes on only while every holder sleeps and is not due.
LEMMA TickInTime ==
    ASSUME NEW now \in Int, NEW queue \in [Clients -> Seq(Lookups)],
           NEW phase \in [Lookups -> VtPhases \cup ShPhases],
           NEW due \in [Lookups -> Int], NEW w \in Nat,
           NEW deadline \in [Lookups -> Int],
           OnTime(now, queue, phase, due, w, deadline),
           \A l \in Lookups :
              /\ Holds(l, queue) /\ phase[l] \in Waiting => phase[l] = "sleeping"
              /\ Holds(l, queue) /\ phase[l] = "sleeping" => due[l] > now
    PROVE  OnTime(now + 1, queue, phase, due, w, deadline)
  <1>1. InLine(queue, phase)
    BY DEF OnTime
  <1>2. ASSUME NEW m \in Lookups, phase[m] = "sleeping"
        PROVE  Holds(m, queue) /\ now + 1 <= due[m] /\ due[m] <= now + 1 + w
    <2>1. Holds(m, queue) /\ due[m] > now /\ due[m] <= now + w
      BY <1>2 DEF OnTime
    <2>2. due[m] \in Int
      OBVIOUS
    <2> QED
      BY <2>1, <2>2
  <1>3. ASSUME NEW j \in Clients, NEW p \in DOMAIN queue[j]
        PROVE  Leaves(now + 1, queue[j], phase, due, w) + (p - 1) * w
                 <= deadline[queue[j][p]]
    <2>1. /\ Head(queue[j]) \in Lookups /\ queue[j] # <<>>
          /\ 1 \in DOMAIN queue[j] /\ Head(queue[j]) = queue[j][1]
      OBVIOUS
    <2>2. phase[Head(queue[j])] \in Waiting /\ Holds(Head(queue[j]), queue)
      BY <1>1, <2>1 DEF InLine, Holds
    <2>3. phase[Head(queue[j])] = "sleeping"
      BY <2>1, <2>2
    <2>4. Leaves(now + 1, queue[j], phase, due, w)
            = Leaves(now, queue[j], phase, due, w)
      BY <2>3 DEF Leaves
    <2> QED
      BY <2>4 DEF OnTime
  <1> QED
    BY <1>1, <1>2, <1>3 DEF OnTime

------------------------------------------------------------------------------
(* virustotal.py                                                            *)

VtTime ==
    /\ OnTime(clock, vtQueue, vtPhase, vtDue, TokenWait(0), VtDeadline)
    /\ WakesToToken
    /\ VtAnswered

\* A sleep for what is missing of a token brings one, and lasts no longer than
\* one that begins with an empty bucket.
LEMMA TokenWaits ==
    /\ TokenWait(0) \in Nat
    /\ \A u \in Nat : u < Minute => /\ TokenWait(u) \in Nat
                                   /\ TokenWait(u) <= TokenWait(0)
                                   /\ u + TokenWait(u) * RateLimit >= Minute
  <1>1. RateLimit \in Nat \ {0} /\ Minute \in Nat \ {0}
    BY VirusTotalAssumption
  <1>2. ASSUME NEW a \in Nat
        PROVE  /\ a \div RateLimit \in Nat
               /\ (a \div RateLimit) * RateLimit <= a
               /\ a < (a \div RateLimit) * RateLimit + RateLimit
    BY <1>1
  <1>3. ASSUME NEW q \in Nat, NEW r \in Nat,
               q * RateLimit < r * RateLimit + RateLimit
        PROVE  q <= r
    <2>1. CASE q <= r
      BY <2>1
    <2>2. CASE q >= r + 1
      <3>1. (r + 1) * RateLimit <= q * RateLimit
        BY <1>1, <2>2, Waits
      <3>2. (r + 1) * RateLimit = r * RateLimit + RateLimit
        BY <1>1, Waits
      <3>3. q * RateLimit \in Int /\ r * RateLimit \in Int
        BY <1>1
      <3> QED
        BY <1>1, <1>3, <3>1, <3>2, <3>3
    <2> QED
      BY <2>1, <2>2
  <1>4. ASSUME NEW u \in Nat, u < Minute
        PROVE  /\ TokenWait(u) \in Nat
               /\ TokenWait(u) <= TokenWait(0)
               /\ u + TokenWait(u) * RateLimit >= Minute
    <2> DEFINE a == Minute - u + RateLimit - 1
               b == Minute - 0 + RateLimit - 1
               q == a \div RateLimit
               r == b \div RateLimit
    <2>1. a \in Nat /\ b \in Nat /\ a <= b
      BY <1>1, <1>4
    <2>2. TokenWait(u) = q /\ TokenWait(0) = r
      BY DEF TokenWait
    <2> HIDE DEF a, b
    <2>3. /\ q \in Nat /\ q * RateLimit <= a /\ a < q * RateLimit + RateLimit
          /\ r \in Nat /\ b < r * RateLimit + RateLimit
      BY <1>2, <2>1
    <2> HIDE DEF q, r
    <2>4. q * RateLimit \in Int /\ r * RateLimit \in Int
      BY <1>1, <2>3
    <2>5. q <= r
      <3>1. q * RateLimit < r * RateLimit + RateLimit
        BY <1>1, <2>1, <2>3, <2>4
      <3> QED
        BY <1>3, <2>3, <3>1
    <2>6. u + q * RateLimit >= Minute
      BY <1>1, <1>4, <2>3, <2>4 DEF a
    <2> QED
      BY <2>2, <2>3, <2>5, <2>6
  <1> QED
    BY <1>1, <1>4

LEMMA VtDeadlines ==
    ASSUME IsFiniteSet(Lookups), NEW from \in [Lookups -> Time]
    PROVE  /\ [l \in Lookups |-> from[l] + Cardinality(Sharing(l)) * TokenWait(0)]
                \in [Lookups -> Int]
           /\ \A l \in Lookups : Cardinality(Sharing(l)) * TokenWait(0) \in Nat
  <1>1. ASSUME NEW l \in Lookups
        PROVE  Cardinality(Sharing(l)) * TokenWait(0) \in Nat
    <2>1. Sharing(l) \in SUBSET Lookups
      BY DEF Sharing
    <2>2. Cardinality(Sharing(l)) \in Nat
      BY <2>1, FS_Subset, FS_CardinalityType
    <2> QED
      BY <2>2, TokenWaits
  <1>2. \A l \in Lookups : from[l] \in Int
    BY ClientsAssumption DEF Time
  <1> QED
    BY <1>1, <1>2

\* Facts that every step of virustotal.py starts from.
LEMMA VtFacts ==
    ASSUME TypeOK, IsFiniteSet(Lookups)
    PROVE  /\ clock \in Int
           /\ vtQueue \in [Clients -> Seq(Lookups)]
           /\ vtPhase \in [Lookups -> VtPhases]
           /\ vtPhase \in [Lookups -> VtPhases \cup ShPhases]
           /\ vtDue \in [Lookups -> Int]
           /\ VtDeadline \in [Lookups -> Int]
           /\ TokenWait(0) \in Nat /\ Timeout \in Nat /\ Backoff \in Nat
           /\ \A m \in Lookups : ClientOf[m] \in Clients
  <1>1. started \in [Lookups -> Time]
    BY DEF TypeOK
  <1>2. VtDeadline \in [Lookups -> Int]
    BY <1>1, VtDeadlines DEF VtDeadline
  <1> QED
    BY <1>2, TokenWaits, ClientsAssumption, VirusTotalAssumption
    DEF TypeOK, VtTypeOK, Time

\* A lookup begins: it has a wait for each that shares its client.
LEMMA VtStartTime ==
    ASSUME TypeOK, IsFiniteSet(Lookups), VtTime, NEW l \in Lookups, Start(l)
    PROVE  VtTime'
  <1>1. /\ VtStart(l) /\ clock' = clock
        /\ started' = [started EXCEPT ![l] = clock]
    BY DEF Start
  <1>2. /\ clock \in Int /\ clock \in Time
        /\ started \in [Lookups -> Time] /\ started' \in [Lookups -> Time]
    BY <1>1, VtFacts DEF TypeOK
  <1>3. /\ VtDeadline' \in [Lookups -> Int]
        /\ \A m \in Lookups \ {l} : VtDeadline'[m] = VtDeadline[m]
        /\ VtDeadline'[l] = clock + Cardinality(Sharing(l)) * TokenWait(0)
    <2>1. VtDeadline' = [m \in Lookups |->
                           started'[m] + Cardinality(Sharing(m)) * TokenWait(0)]
      BY DEF VtDeadline
    <2>2. VtDeadline' \in [Lookups -> Int]
      BY <1>2, <2>1, VtDeadlines
    <2> QED
      BY <1>1, <1>2, <2>1, <2>2 DEF VtDeadline
  <1>4. /\ vtPhase[l] = "new" /\ vtPhase[l] \notin Waiting
        /\ vtDue' = vtDue /\ level' = level /\ updated' = updated
        /\ \/ /\ vtPhase' = [vtPhase EXCEPT ![l] = "queued"]
              /\ vtQueue' = Joined(l, vtQueue)
           \/ /\ vtPhase' = [vtPhase EXCEPT ![l] = "done"]
              /\ vtQueue' = vtQueue
    BY <1>1 DEF VtStart, VtMove, Waiting
  <1>5. OnTime(clock', vtQueue', vtPhase', vtDue', TokenWait(0), VtDeadline')
    <2>0. OnTime(clock, vtQueue, vtPhase, vtDue, TokenWait(0), VtDeadline)
      BY DEF VtTime
    <2>1. CASE /\ vtPhase' = [vtPhase EXCEPT ![l] = "queued"]
               /\ vtQueue' = Joined(l, vtQueue)
      <3>1. clock + Cardinality(Sharing(l)) * TokenWait(0) <= VtDeadline'[l]
        BY <1>3
      <3>2. OnTime(clock, Joined(l, vtQueue), [vtPhase EXCEPT ![l] = "queued"],
                   vtDue, TokenWait(0), VtDeadline')
        BY <1>3, <1>4, <2>0, <3>1, VtFacts, JoinInTime
      <3> QED
        BY <1>1, <1>4, <2>1, <3>2
    <2>2. CASE /\ vtPhase' = [vtPhase EXCEPT ![l] = "done"]
               /\ vtQueue' = vtQueue
      <3>1. "done" \in (VtPhases \cup ShPhases) \ Waiting
        BY DEF VtPhases, Waiting
      <3>2. OnTime(clock, vtQueue, [vtPhase EXCEPT ![l] = "done"],
                   vtDue, TokenWait(0), VtDeadline')
        BY <1>3, <1>4, <2>0, <3>1, VtFacts, OtherInTime
      <3> QED
        BY <1>1, <1>4, <2>2, <3>2
    <2> QED
      BY <1>4, <2>1, <2>2
  <1>6. \A m \in Lookups :
            vtPhase'[m] \in {"sleeping", "sent", "backoff", "resent"}
              => m # l /\ vtPhase'[m] = vtPhase[m]
    BY <1>4, VtFacts
  <1>7. WakesToToken' /\ VtAnswered'
    <2>1. WakesToToken'
      BY <1>4, <1>6 DEF VtTime, WakesToToken
    <2>2. VtAnswered'
      BY <1>1, <1>3, <1>4, <1>6 DEF VtTime, VtAnswered
    <2> QED
      BY <2>1, <2>2
  <1> QED
    BY <1>5, <1>7 DEF VtTime

\* Who wakes finds a whole token: 60 / RPM seconds have passed since it looked
\* (virustotal.py:46-52).
LEMMA WokenHasToken ==
    ASSUME TypeOK, BucketInv, WakesToToken,
           NEW l \in Lookups, vtPhase[l] = "sleeping", vtDue[l] <= clock
    PROVE  Refilled(ClientOf[l]) >= Minute
  <1> DEFINE k == ClientOf[l]
  <1>1. /\ k \in Clients /\ level[k] \in Nat /\ updated[k] \in Nat
        /\ clock \in Nat /\ vtDue[l] \in Int
        /\ RateLimit \in Nat \ {0} /\ Minute \in Nat \ {0}
    BY ClientsAssumption, VirusTotalAssumption DEF TypeOK, VtTypeOK, Time
  <1>2. level[k] + (vtDue[l] - updated[k]) * RateLimit >= Minute
    BY DEF WakesToToken
  <1>3. (vtDue[l] - updated[k]) * RateLimit <= (clock - updated[k]) * RateLimit
    <2>1. /\ vtDue[l] - updated[k] \in Int /\ clock - updated[k] \in Int
          /\ vtDue[l] - updated[k] <= clock - updated[k]
      BY <1>1
    <2> QED
      BY <1>1, <2>1, Waits
  <1>4. /\ (vtDue[l] - updated[k]) * RateLimit \in Int
        /\ (clock - updated[k]) * RateLimit \in Int
    BY <1>1
  <1>5. RateLimit * Minute >= Minute /\ RateLimit * Minute \in Nat
    <2>1. 1 * Minute <= RateLimit * Minute
      BY <1>1, Waits
    <2> QED
      BY <1>1, <2>1
  <1> HIDE DEF k
  <1> QED
    BY <1>1, <1>2, <1>3, <1>4, <1>5 DEF Refilled, k

\* Steps of virustotal.py.
LEMMA VtStepTime ==
    ASSUME TypeOK, BucketInv, IsFiniteSet(Lookups), VtTime,
           NEW l \in Lookups, VtStep(l), UNCHANGED <<clock, started>>
    PROVE  VtTime'
  <1> DEFINE k == ClientOf[l]
             W == TokenWait(0)
  <1>0. /\ OnTime(clock, vtQueue, vtPhase, vtDue, W, VtDeadline)
        /\ WakesToToken /\ VtAnswered
    BY DEF VtTime
  <1>1. VtDeadline' = VtDeadline /\ clock' = clock
    BY DEF VtDeadline
  <1>2. /\ k \in Clients /\ clock \in Int
        /\ vtPhase \in [Lookups -> VtPhases] /\ vtDue \in [Lookups -> Int]
        /\ VtDeadline \in [Lookups -> Int]
        /\ VtDeadline[l] \in Int /\ vtDue[l] \in Int
        /\ W \in Nat /\ Timeout \in Nat /\ Backoff \in Nat
        /\ \A m \in Lookups : ClientOf[m] \in Clients
    BY VtFacts
  <1>3. ASSUME NEW m \in Lookups, m # l, Holds(l, vtQueue),
               vtPhase[m] = "sleeping"
        PROVE  ClientOf[m] # k
    <2>1. Holds(m, vtQueue)
      BY <1>0, <1>3 DEF OnTime
    <2> QED
      BY <1>3, <2>1, VtFacts, OtherHolderStays
  <1>4. CASE VtSleep(l)
    <2> DEFINE R == Refilled(k)
               d == clock + TokenWait(R)
    <2>1. /\ Holds(l, vtQueue) /\ R < Minute
          /\ \/ vtPhase[l] = "queued"
             \/ vtPhase[l] = "sleeping" /\ vtDue[l] <= clock
          /\ level' = [level EXCEPT ![k] = R]
          /\ updated' = [updated EXCEPT ![k] = clock]
          /\ vtPhase' = [vtPhase EXCEPT ![l] = "sleeping"]
          /\ vtDue' = [vtDue EXCEPT ![l] = d]
          /\ vtQueue' = vtQueue
      BY <1>4 DEF VtSleep, Checking, VtMove, VtWait
    <2>2. R \in Nat
      BY <1>2, RefilledBounds
    <2>3. vtPhase[l] = "queued"
      BY <1>0, <2>1, <2>2, WokenHasToken, VirusTotalAssumption
    <2> HIDE DEF R
    <2>4. /\ TokenWait(R) \in Nat /\ TokenWait(R) <= W
          /\ R + TokenWait(R) * RateLimit >= Minute
      BY <2>1, <2>2, TokenWaits
    <2>5. d \in Int /\ clock <= d /\ d <= clock + W /\ d - clock = TokenWait(R)
      BY <1>2, <2>4
    <2> HIDE DEF d, W
    <2>6. OnTime(clock, vtQueue, [vtPhase EXCEPT ![l] = "sleeping"],
                 [vtDue EXCEPT ![l] = d], W, VtDeadline)
      BY <1>0, <1>2, <2>1, <2>3, <2>5, VtFacts, SleepInTime
    <2>7. OnTime(clock', vtQueue', vtPhase', vtDue', W, VtDeadline')
      BY <1>1, <2>1, <2>6
    <2>8. WakesToToken'
      <3> SUFFICES ASSUME NEW m \in Lookups, vtPhase'[m] = "sleeping"
                   PROVE  level'[ClientOf[m]]
                            + (vtDue'[m] - updated'[ClientOf[m]]) * RateLimit
                              >= Minute
        BY DEF WakesToToken
      <3>1. /\ level \in [Clients -> 0..RateLimit * Minute]
            /\ updated \in [Clients -> Time]
        BY DEF TypeOK, VtTypeOK
      <3>2. CASE m = l
        <4>1. /\ level'[ClientOf[m]] = R /\ updated'[ClientOf[m]] = clock
              /\ vtDue'[m] = d
          BY <1>2, <2>1, <3>1, <3>2
        <4> QED
          BY <2>4, <2>5, <4>1
      <3>3. CASE m # l
        <4>1. vtPhase[m] = "sleeping" /\ vtDue'[m] = vtDue[m]
          BY <1>2, <2>1, <3>3
        <4>2. ClientOf[m] # k
          BY <1>3, <2>1, <3>3, <4>1
        <4>3. /\ level'[ClientOf[m]] = level[ClientOf[m]]
              /\ updated'[ClientOf[m]] = updated[ClientOf[m]]
          BY <1>2, <2>1, <3>1, <4>2
        <4> QED
          BY <1>0, <4>1, <4>3 DEF WakesToToken
      <3> QED
        BY <3>2, <3>3
    <2>9. VtAnswered'
      <3>1. \A m \in Lookups : vtPhase'[m] # "sleeping"
                => m # l /\ vtPhase'[m] = vtPhase[m] /\ vtDue'[m] = vtDue[m]
        BY <1>2, <2>1
      <3> QED
        BY <1>0, <1>1, <3>1 DEF VtAnswered
    <2> QED
      BY <2>7, <2>8, <2>9 DEF VtTime, W
  <1>5. CASE VtSend(l)
    <2> DEFINE d == clock + Timeout
    <2>1. /\ Holds(l, vtQueue) /\ vtPhase[l] \in Waiting
          /\ level' = [level EXCEPT ![k] = Refilled(k) - Minute]
          /\ updated' = [updated EXCEPT ![k] = clock]
          /\ vtPhase' = [vtPhase EXCEPT ![l] = "sent"]
          /\ vtDue' = [vtDue EXCEPT ![l] = d]
          /\ vtQueue' = Released(l, vtQueue)
      BY <1>5 DEF VtSend, Checking, VtMove, VtWait, Waiting
    <2>2. d \in Int /\ "sent" \in (VtPhases \cup ShPhases) \ Waiting
      BY <1>2 DEF VtPhases, Waiting
    <2>3. clock <= VtDeadline[l]
      BY <1>0, <2>1, VtFacts, InTime
    <2>4. clock <= d /\ d <= VtDeadline[l] + Timeout
      BY <1>2, <2>3
    <2> HIDE DEF d, W
    <2>5. OnTime(clock, Released(l, vtQueue), [vtPhase EXCEPT ![l] = "sent"],
                 [vtDue EXCEPT ![l] = d], W, VtDeadline)
      BY <1>0, <1>2, <2>1, <2>2, VtFacts, LeaveInTime
    <2>6. OnTime(clock', vtQueue', vtPhase', vtDue', W, VtDeadline')
      BY <1>1, <2>1, <2>5
    <2>7. WakesToToken'
      <3> SUFFICES ASSUME NEW m \in Lookups, vtPhase'[m] = "sleeping"
                   PROVE  level'[ClientOf[m]]
                            + (vtDue'[m] - updated'[ClientOf[m]]) * RateLimit
                              >= Minute
        BY DEF WakesToToken
      <3>1. /\ level \in [Clients -> 0..RateLimit * Minute]
            /\ updated \in [Clients -> Time]
        BY DEF TypeOK, VtTypeOK
      <3>2. m # l /\ vtPhase[m] = "sleeping" /\ vtDue'[m] = vtDue[m]
        BY <1>2, <2>1
      <3>3. ClientOf[m] # k
        BY <1>3, <2>1, <3>2
      <3>4. /\ level'[ClientOf[m]] = level[ClientOf[m]]
            /\ updated'[ClientOf[m]] = updated[ClientOf[m]]
        BY <1>2, <2>1, <3>1, <3>3
      <3> QED
        BY <1>0, <3>2, <3>4 DEF WakesToToken
    <2>8. VtAnswered'
      <3> SUFFICES ASSUME NEW m \in Lookups
                   PROVE  /\ vtPhase'[m] \in {"sent", "backoff", "resent"}
                                => clock' <= vtDue'[m]
                          /\ vtPhase'[m] = "sent"
                                => vtDue'[m] <= VtDeadline'[m] + Timeout
                          /\ vtPhase'[m] = "backoff"
                                => vtDue'[m] <= VtDeadline'[m] + Timeout + Backoff
                          /\ vtPhase'[m] = "resent"
                                => vtDue'[m]
                                     <= VtDeadline'[m] + 2 * Timeout + Backoff
        BY DEF VtAnswered
      <3>1. CASE m = l
        <4>1. vtPhase'[m] = "sent" /\ vtDue'[m] = d
          BY <1>2, <2>1, <3>1
        <4> QED
          BY <1>1, <2>4, <3>1, <4>1
      <3>2. CASE m # l
        <4>1. vtPhase'[m] = vtPhase[m] /\ vtDue'[m] = vtDue[m]
          BY <1>2, <2>1, <3>2
        <4> QED
          BY <1>0, <1>1, <4>1 DEF VtAnswered
      <3> QED
        BY <3>1, <3>2
    <2> QED
      BY <2>6, <2>7, <2>8 DEF VtTime, W
  <1>6. ASSUME vtPhase[l] \in {"sent", "backoff", "resent"},
               NEW next \in {"backoff", "resent", "done"},
               vtPhase' = [vtPhase EXCEPT ![l] = next],
               \A m \in Lookups \ {l} : vtDue'[m] = vtDue[m],
               UNCHANGED <<vtQueue, level, updated>>,
               next = "backoff" => /\ clock <= vtDue'[l]
                                   /\ vtDue'[l] <= VtDeadline[l] + Timeout + Backoff,
               next = "resent" => /\ clock <= vtDue'[l]
                                  /\ vtDue'[l]
                                       <= VtDeadline[l] + 2 * Timeout + Backoff
        PROVE  VtTime'
    <2>1. /\ vtPhase[l] \notin Waiting
          /\ next \in (VtPhases \cup ShPhases) \ Waiting
      BY <1>6 DEF VtPhases, Waiting
    <2>2. OnTime(clock, vtQueue, [vtPhase EXCEPT ![l] = next],
                 vtDue', W, VtDeadline)
      BY <1>0, <1>2, <1>6, <2>1, VtFacts, OtherInTime
    <2>3. OnTime(clock', vtQueue', vtPhase', vtDue', W, VtDeadline')
      BY <1>1, <1>6, <2>2
    <2>4. /\ vtPhase'[l] = next
          /\ \A m \in Lookups \ {l} : vtPhase'[m] = vtPhase[m]
      BY <1>2, <1>6
    <2>5. WakesToToken'
      BY <1>0, <1>6, <2>4 DEF WakesToToken
    <2>6. VtAnswered'
      <3> SUFFICES ASSUME NEW m \in Lookups
                   PROVE  /\ vtPhase'[m] \in {"sent", "backoff", "resent"}
                                => clock' <= vtDue'[m]
                          /\ vtPhase'[m] = "sent"
                                => vtDue'[m] <= VtDeadline'[m] + Timeout
                          /\ vtPhase'[m] = "backoff"
                                => vtDue'[m] <= VtDeadline'[m] + Timeout + Backoff
                          /\ vtPhase'[m] = "resent"
                                => vtDue'[m]
                                     <= VtDeadline'[m] + 2 * Timeout + Backoff
        BY DEF VtAnswered
      <3>1. CASE m = l
        BY <1>1, <1>6, <2>4, <3>1
      <3>2. CASE m # l
        BY <1>0, <1>1, <1>6, <2>4, <3>2 DEF VtAnswered
      <3> QED
        BY <3>1, <3>2
    <2> QED
      BY <2>3, <2>5, <2>6 DEF VtTime
  <1>7. CASE VtThrottled(l)
    <2>1. /\ vtPhase[l] = "sent"
          /\ vtPhase' = [vtPhase EXCEPT ![l] = "backoff"]
          /\ vtDue' = [vtDue EXCEPT ![l] = clock + Backoff]
          /\ UNCHANGED <<vtQueue, level, updated>>
      BY <1>7 DEF VtThrottled, VtMove, VtWait
    <2>2. clock <= vtDue[l] /\ vtDue[l] <= VtDeadline[l] + Timeout
      BY <1>0, <2>1 DEF VtAnswered
    <2>3. /\ vtDue'[l] = clock + Backoff
          /\ \A m \in Lookups \ {l} : vtDue'[m] = vtDue[m]
      BY <1>2, <2>1
    <2>4. clock <= vtDue'[l] /\ vtDue'[l] <= VtDeadline[l] + Timeout + Backoff
      BY <1>2, <2>2, <2>3
    <2> QED
      BY <1>6, <2>1, <2>3, <2>4
  <1>8. CASE VtResend(l)
    <2>1. /\ vtPhase[l] = "backoff"
          /\ vtPhase' = [vtPhase EXCEPT ![l] = "resent"]
          /\ vtDue' = [vtDue EXCEPT ![l] = clock + Timeout]
          /\ UNCHANGED <<vtQueue, level, updated>>
      BY <1>8 DEF VtResend, VtMove, VtWait
    <2>2. clock <= vtDue[l] /\ vtDue[l] <= VtDeadline[l] + Timeout + Backoff
      BY <1>0, <2>1 DEF VtAnswered
    <2>3. /\ vtDue'[l] = clock + Timeout
          /\ \A m \in Lookups \ {l} : vtDue'[m] = vtDue[m]
      BY <1>2, <2>1
    <2>4. clock <= vtDue'[l] /\ vtDue'[l] <= VtDeadline[l] + 2 * Timeout + Backoff
      BY <1>2, <2>2, <2>3
    <2> QED
      BY <1>6, <2>1, <2>3, <2>4
  <1>9. CASE VtAnswer(l)
    <2>1. /\ vtPhase[l] \in {"sent", "resent"}
          /\ vtPhase' = [vtPhase EXCEPT ![l] = "done"]
          /\ vtDue' = vtDue
          /\ UNCHANGED <<vtQueue, level, updated>>
      BY <1>9 DEF VtAnswer, VtMove
    <2> QED
      BY <1>6, <2>1
  <1> QED
    BY <1>4, <1>5, <1>7, <1>8, <1>9 DEF VtStep

------------------------------------------------------------------------------
(* shodan.py                                                                *)

ShTime ==
    /\ OnTime(clock, shQueue, shPhase, shDue, Interval, ShDeadline)
    /\ ShAnswered

Turn(l) == Cardinality(Sharing(l)) * Interval

LEMMA ShDeadlines ==
    ASSUME IsFiniteSet(Lookups), NEW from \in [Lookups -> Time], NEW asks
    PROVE  /\ \A l \in Lookups : Turn(l) \in Nat
           /\ [l \in Lookups |->
                LET turn == Cardinality(Sharing(l)) * Interval
                IN  from[l] + turn
                      + IF IocTypeOf[l] = "domain-name" /\ asks[l] = "host"
                          THEN turn + Timeout ELSE 0] \in [Lookups -> Int]
  <1>1. ASSUME NEW l \in Lookups
        PROVE  Turn(l) \in Nat
    <2>1. Sharing(l) \in SUBSET Lookups
      BY DEF Sharing
    <2>2. Cardinality(Sharing(l)) \in Nat
      BY <2>1, FS_Subset, FS_CardinalityType
    <2> QED
      BY <2>2, ShodanAssumption DEF Turn
  <1>2. \A l \in Lookups : from[l] \in Int /\ Timeout \in Nat
    BY ClientsAssumption DEF Time
  <1> QED
    BY <1>1, <1>2 DEF Turn

\* Facts that every step of shodan.py starts from.
LEMMA ShFacts ==
    ASSUME TypeOK, IsFiniteSet(Lookups)
    PROVE  /\ clock \in Int
           /\ shQueue \in [Clients -> Seq(Lookups)]
           /\ shPhase \in [Lookups -> ShPhases]
           /\ shPhase \in [Lookups -> VtPhases \cup ShPhases]
           /\ shDue \in [Lookups -> Int]
           /\ target \in [Lookups -> {"host", "domain"}]
           /\ last \in [Clients -> Int]
           /\ ShDeadline \in [Lookups -> Int]
           /\ Interval \in Nat /\ Timeout \in Nat
           /\ \A m \in Lookups : /\ ClientOf[m] \in Clients
                                /\ Turn(m) \in Nat /\ started[m] \in Int
  <1>1. started \in [Lookups -> Time]
    BY DEF TypeOK
  <1>2. ShDeadline \in [Lookups -> Int] /\ \A m \in Lookups : Turn(m) \in Nat
    BY <1>1, ShDeadlines DEF ShDeadline
  <1>3. \A m \in Lookups : started[m] \in Int
    BY <1>1, ClientsAssumption DEF Time
  <1> QED
    BY <1>2, <1>3, ClientsAssumption, ShodanAssumption DEF TypeOK, ShTypeOK, Time

LEMMA ShStartTime ==
    ASSUME TypeOK, IsFiniteSet(Lookups), ShTime, NEW l \in Lookups, Start(l)
    PROVE  ShTime'
  <1>1. /\ ShStart(l) /\ clock' = clock
        /\ started' = [started EXCEPT ![l] = clock]
    BY DEF Start
  <1>2. /\ clock \in Int /\ clock \in Time
        /\ started \in [Lookups -> Time] /\ started' \in [Lookups -> Time]
    BY <1>1, ShFacts DEF TypeOK
  <1>3. /\ shPhase[l] = "new" /\ shPhase[l] \notin Waiting
        /\ shDue' = shDue /\ target' = target
        /\ \/ /\ shPhase' = [shPhase EXCEPT ![l] = "queued"]
              /\ shQueue' = Joined(l, shQueue)
           \/ /\ shPhase' = [shPhase EXCEPT ![l] = "done"]
              /\ shQueue' = shQueue
    BY <1>1 DEF ShStart, ShMove, Waiting
  <1>4. /\ ShDeadline' \in [Lookups -> Int]
        /\ \A m \in Lookups \ {l} : ShDeadline'[m] = ShDeadline[m]
        /\ clock + Turn(l) <= ShDeadline'[l]
    <2>1. ShDeadline' = [m \in Lookups |->
             LET turn == Cardinality(Sharing(m)) * Interval
             IN  started'[m] + turn
                   + IF IocTypeOf[m] = "domain-name" /\ target'[m] = "host"
                       THEN turn + Timeout ELSE 0]
      BY DEF ShDeadline
    <2>2. ShDeadline' \in [Lookups -> Int]
      BY <1>2, <2>1, ShDeadlines
    <2>3. \A m \in Lookups \ {l} : ShDeadline'[m] = ShDeadline[m]
      BY <1>1, <1>2, <1>3, <2>1 DEF ShDeadline
    <2>4. ShDeadline'[l] = clock + Turn(l)
             + IF IocTypeOf[l] = "domain-name" /\ target'[l] = "host"
                 THEN Turn(l) + Timeout ELSE 0
      BY <1>1, <1>2, <2>1 DEF Turn
    <2>5. Turn(l) \in Nat /\ Timeout \in Nat
      BY ShFacts
    <2> QED
      BY <1>2, <2>2, <2>3, <2>4, <2>5
  <1>5. OnTime(clock', shQueue', shPhase', shDue', Interval, ShDeadline')
    <2>0. OnTime(clock, shQueue, shPhase, shDue, Interval, ShDeadline)
      BY DEF ShTime
    <2>1. CASE /\ shPhase' = [shPhase EXCEPT ![l] = "queued"]
               /\ shQueue' = Joined(l, shQueue)
      <3>1. clock + Cardinality(Sharing(l)) * Interval <= ShDeadline'[l]
        BY <1>4 DEF Turn
      <3>2. OnTime(clock, Joined(l, shQueue), [shPhase EXCEPT ![l] = "queued"],
                   shDue, Interval, ShDeadline')
        BY <1>3, <1>4, <2>0, <3>1, ShFacts, JoinInTime
      <3> QED
        BY <1>1, <1>3, <2>1, <3>2
    <2>2. CASE /\ shPhase' = [shPhase EXCEPT ![l] = "done"]
               /\ shQueue' = shQueue
      <3>1. "done" \in (VtPhases \cup ShPhases) \ Waiting
        BY DEF VtPhases, Waiting
      <3>2. OnTime(clock, shQueue, [shPhase EXCEPT ![l] = "done"],
                   shDue, Interval, ShDeadline')
        BY <1>3, <1>4, <2>0, <3>1, ShFacts, OtherInTime
      <3> QED
        BY <1>1, <1>3, <2>2, <3>2
    <2> QED
      BY <1>3, <2>1, <2>2
  <1>6. ShAnswered'
    <2>1. \A m \in Lookups : shPhase'[m] = "sent"
             => m # l /\ shPhase'[m] = shPhase[m]
      BY <1>3, ShFacts
    <2> QED
      BY <1>1, <1>3, <1>4, <2>1 DEF ShTime, ShAnswered
  <1> QED
    BY <1>5, <1>6 DEF ShTime

\* Steps of shodan.py.
LEMMA ShStepTime ==
    ASSUME TypeOK, SpacingInv, IsFiniteSet(Lookups), ShTime,
           NEW l \in Lookups, ShStep(l), UNCHANGED <<clock, started>>
    PROVE  ShTime'
  <1> DEFINE k == ClientOf[l]
  <1>0. /\ OnTime(clock, shQueue, shPhase, shDue, Interval, ShDeadline)
        /\ ShAnswered
    BY DEF ShTime
  <1>1. clock' = clock /\ started' = started
    OBVIOUS
  <1>2. /\ k \in Clients /\ clock \in Int /\ last[k] \in Int
        /\ shPhase \in [Lookups -> ShPhases] /\ shDue \in [Lookups -> Int]
        /\ ShDeadline \in [Lookups -> Int] /\ ShDeadline[l] \in Int
        /\ Interval \in Nat /\ Timeout \in Nat
        /\ last[k] <= clock
    BY ShFacts DEF SpacingInv
  <1>3. ASSUME target' = target
        PROVE  ShDeadline' = ShDeadline
    BY <1>1, <1>3 DEF ShDeadline
  <1>4. CASE ShSleep(l)
    <2> DEFINE d == last[k] + Interval
    <2>1. /\ shPhase[l] = "queued" /\ Holds(l, shQueue)
          /\ clock - last[k] < Interval
          /\ shPhase' = [shPhase EXCEPT ![l] = "sleeping"]
          /\ shDue' = [shDue EXCEPT ![l] = d]
          /\ shQueue' = shQueue /\ target' = target
      BY <1>4 DEF ShSleep, ShMove, Early
    <2>2. d \in Int /\ clock <= d /\ d <= clock + Interval
      BY <1>2, <2>1
    <2> HIDE DEF d
    <2>3. OnTime(clock, shQueue, [shPhase EXCEPT ![l] = "sleeping"],
                 [shDue EXCEPT ![l] = d], Interval, ShDeadline)
      BY <1>0, <1>2, <2>1, <2>2, ShFacts, SleepInTime
    <2>4. OnTime(clock', shQueue', shPhase', shDue', Interval, ShDeadline')
      BY <1>1, <1>3, <2>1, <2>3
    <2>5. ShAnswered'
      <3>1. \A m \in Lookups : shPhase'[m] = "sent"
               => m # l /\ shPhase'[m] = shPhase[m] /\ shDue'[m] = shDue[m]
        BY <1>2, <2>1
      <3> QED
        BY <1>0, <1>1, <1>3, <2>1, <3>1 DEF ShAnswered
    <2> QED
      BY <2>4, <2>5 DEF ShTime
  <1>5. CASE ShSend(l)
    <2> DEFINE d == clock + Timeout
    <2>1. /\ Holds(l, shQueue) /\ shPhase[l] \in Waiting
          /\ shPhase' = [shPhase EXCEPT ![l] = "sent"]
          /\ shDue' = [shDue EXCEPT ![l] = d]
          /\ shQueue' = Released(l, shQueue) /\ target' = target
      BY <1>5 DEF ShSend, Paced, ShMove, Waiting
    <2>2. d \in Int /\ "sent" \in (VtPhases \cup ShPhases) \ Waiting
      BY <1>2 DEF VtPhases, Waiting
    <2>3. clock <= ShDeadline[l]
      BY <1>0, <2>1, ShFacts, InTime
    <2>4. clock <= d /\ d <= ShDeadline[l] + Timeout
      BY <1>2, <2>3
    <2> HIDE DEF d
    <2>5. OnTime(clock, Released(l, shQueue), [shPhase EXCEPT ![l] = "sent"],
                 [shDue EXCEPT ![l] = d], Interval, ShDeadline)
      BY <1>0, <1>2, <2>1, <2>2, ShFacts, LeaveInTime
    <2>6. OnTime(clock', shQueue', shPhase', shDue', Interval, ShDeadline')
      BY <1>1, <1>3, <2>1, <2>5
    <2>7. ShAnswered'
      <3> SUFFICES ASSUME NEW m \in Lookups
                   PROVE  /\ target'[m] = "domain" => IocTypeOf[m] = "domain-name"
                          /\ shPhase'[m] = "sent"
                                => /\ clock' <= shDue'[m]
                                   /\ shDue'[m] <= ShDeadline'[m] + Timeout
        BY DEF ShAnswered
      <3>1. CASE m = l
        <4>1. shDue'[m] = d
          BY <1>2, <2>1, <3>1
        <4> QED
          BY <1>0, <1>1, <1>3, <2>1, <2>4, <3>1, <4>1 DEF ShAnswered
      <3>2. CASE m # l
        <4>1. shPhase'[m] = shPhase[m] /\ shDue'[m] = shDue[m]
          BY <1>2, <2>1, <3>2
        <4> QED
          BY <1>0, <1>1, <1>3, <2>1, <4>1 DEF ShAnswered
      <3> QED
        BY <3>1, <3>2
    <2> QED
      BY <2>6, <2>7 DEF ShTime
  <1>6. CASE ShResolved(l)
    <2>1. /\ shPhase[l] = "sent" /\ shPhase[l] \notin Waiting
          /\ target[l] = "domain"
          /\ target' = [target EXCEPT ![l] = "host"]
          /\ shPhase' = [shPhase EXCEPT ![l] = "queued"]
          /\ shQueue' = Joined(l, shQueue)
          /\ shDue' = shDue
      BY <1>6 DEF ShResolved, ShMove, Waiting
    <2>2. /\ IocTypeOf[l] = "domain-name"
          /\ clock <= shDue[l] /\ shDue[l] <= ShDeadline[l] + Timeout
          /\ shDue[l] \in Int
      BY <1>0, <1>2, <2>1 DEF ShAnswered
    <2>3. /\ target'[l] = "host"
          /\ \A m \in Lookups \ {l} : target'[m] = target[m]
      BY <2>1, ShFacts
    <2>4. /\ ShDeadline' \in [Lookups -> Int]
          /\ \A m \in Lookups \ {l} : ShDeadline'[m] = ShDeadline[m]
          /\ ShDeadline'[l] = started[l] + Turn(l) + (Turn(l) + Timeout)
          /\ ShDeadline[l] = started[l] + Turn(l) + 0
      <3>1. ShDeadline' = [m \in Lookups |->
               LET turn == Cardinality(Sharing(m)) * Interval
               IN  started'[m] + turn
                     + IF IocTypeOf[m] = "domain-name" /\ target'[m] = "host"
                         THEN turn + Timeout ELSE 0]
        BY DEF ShDeadline
      <3>2. started' \in [Lookups -> Time]
        BY <1>1 DEF TypeOK
      <3>3. ShDeadline' \in [Lookups -> Int]
        BY <3>1, <3>2, ShDeadlines
      <3>4. \A m \in Lookups \ {l} : ShDeadline'[m] = ShDeadline[m]
        BY <1>1, <2>3, <3>1 DEF ShDeadline
      <3>5. ShDeadline'[l] = started[l] + Turn(l) + (Turn(l) + Timeout)
        BY <1>1, <2>2, <2>3, <3>1 DEF Turn
      <3>6. ShDeadline[l] = started[l] + Turn(l) + 0
        BY <2>1 DEF ShDeadline, Turn
      <3> QED
        BY <3>3, <3>4, <3>5, <3>6
    <2>5. clock + Turn(l) <= ShDeadline'[l]
      <3>1. Turn(l) \in Nat /\ started[l] \in Int
        BY ShFacts
      <3> QED
        BY <1>2, <2>2, <2>4, <3>1
    <2>6. clock + Cardinality(Sharing(l)) * Interval <= ShDeadline'[l]
      BY <2>5 DEF Turn
    <2>7. OnTime(clock, Joined(l, shQueue), [shPhase EXCEPT ![l] = "queued"],
                 shDue, Interval, ShDeadline')
      BY <1>0, <2>1, <2>4, <2>6, ShFacts, JoinInTime
    <2>8. OnTime(clock', shQueue', shPhase', shDue', Interval, ShDeadline')
      BY <1>1, <2>1, <2>7
    <2>9. ShAnswered'
      <3>1. \A m \in Lookups : shPhase'[m] = "sent"
               => m # l /\ shPhase'[m] = shPhase[m]
        BY <1>2, <2>1
      <3>2. \A m \in Lookups : target'[m] = "domain" => target[m] = "domain"
        BY <2>3
      <3> QED
        BY <1>0, <1>1, <2>1, <2>4, <3>1, <3>2 DEF ShAnswered
    <2> QED
      BY <2>8, <2>9 DEF ShTime
  <1>7. CASE ShAnswer(l)
    <2>1. /\ shPhase[l] = "sent" /\ shPhase[l] \notin Waiting
          /\ shPhase' = [shPhase EXCEPT ![l] = "done"]
          /\ shQueue' = shQueue /\ shDue' = shDue /\ target' = target
          /\ "done" \in (VtPhases \cup ShPhases) \ Waiting
      BY <1>7 DEF ShAnswer, ShMove, Waiting, ShPhases
    <2>2. OnTime(clock, shQueue, [shPhase EXCEPT ![l] = "done"],
                 shDue, Interval, ShDeadline)
      BY <1>0, <2>1, ShFacts, OtherInTime
    <2>3. OnTime(clock', shQueue', shPhase', shDue', Interval, ShDeadline')
      BY <1>1, <1>3, <2>1, <2>2
    <2>4. ShAnswered'
      <3>1. \A m \in Lookups : shPhase'[m] = "sent" => shPhase[m] = "sent"
        BY <1>2, <2>1
      <3> QED
        BY <1>0, <1>1, <1>3, <2>1, <3>1 DEF ShAnswered
    <2> QED
      BY <2>3, <2>4 DEF ShTime
  <1> QED
    BY <1>4, <1>5, <1>6, <1>7 DEF ShStep

------------------------------------------------------------------------------
(* The invariant                                                            *)

\* Time goes on when nothing is due: no sleep and no answer becomes overdue.
LEMMA TickTime ==
    ASSUME Prompt, IsFiniteSet(Lookups), TypeOK, VtTime, ShTime, Tick
    PROVE  VtTime' /\ ShTime'
  <1>1. /\ clock' = clock + 1 /\ clock \in Int
        /\ \A l \in Lookups : ~VtUrgent(l) /\ ~ShUrgent(l)
        /\ UNCHANGED <<vtPhase, vtDue, vtQueue, level, updated>>
        /\ UNCHANGED <<shPhase, shDue, shQueue, target>>
        /\ started' = started
    BY VtFacts DEF Tick, vtVars, shVars
  <1>2. VtDeadline' = VtDeadline /\ ShDeadline' = ShDeadline
    BY <1>1 DEF VtDeadline, ShDeadline
  <1>3. VtTime'
    <2>1. \A l \in Lookups :
             /\ vtDue[l] \in Int
             /\ Holds(l, vtQueue) /\ vtPhase[l] \in Waiting
                  => vtPhase[l] = "sleeping"
             /\ Holds(l, vtQueue) /\ vtPhase[l] = "sleeping" => vtDue[l] > clock
             /\ vtPhase[l] \in {"sent", "backoff", "resent"} => vtDue[l] > clock
      BY <1>1, VtFacts DEF VtUrgent, Checking, Waiting
    <2>2. OnTime(clock + 1, vtQueue, vtPhase, vtDue, TokenWait(0), VtDeadline)
      BY <2>1, VtFacts, TickInTime DEF VtTime
    <2>3. OnTime(clock', vtQueue', vtPhase', vtDue', TokenWait(0), VtDeadline')
      BY <1>1, <1>2, <2>2
    <2>4. WakesToToken'
      BY <1>1 DEF VtTime, WakesToToken
    <2>5. VtAnswered'
      <3>1. \A l \in Lookups : vtDue[l] > clock => clock' <= vtDue[l]
        BY <1>1, <2>1
      <3> QED
        BY <1>1, <1>2, <2>1, <3>1 DEF VtTime, VtAnswered
    <2> QED
      BY <2>3, <2>4, <2>5 DEF VtTime
  <1>4. ShTime'
    <2>1. \A l \in Lookups :
             /\ shDue[l] \in Int
             /\ Holds(l, shQueue) /\ shPhase[l] \in Waiting
                  => shPhase[l] = "sleeping"
             /\ Holds(l, shQueue) /\ shPhase[l] = "sleeping" => shDue[l] > clock
             /\ shPhase[l] = "sent" => shDue[l] > clock
      BY <1>1, ShFacts DEF ShUrgent, Waiting
    <2>2. OnTime(clock + 1, shQueue, shPhase, shDue, Interval, ShDeadline)
      BY <2>1, ShFacts, TickInTime DEF ShTime
    <2>3. OnTime(clock', shQueue', shPhase', shDue', Interval, ShDeadline')
      BY <1>1, <1>2, <2>2
    <2>4. ShAnswered'
      <3>1. \A l \in Lookups : shDue[l] > clock => clock' <= shDue[l]
        BY <1>1, <2>1
      <3> QED
        BY <1>1, <1>2, <2>1, <3>1 DEF ShTime, ShAnswered
    <2> QED
      BY <2>3, <2>4 DEF ShTime
  <1> QED
    BY <1>3, <1>4

LEMMA TimeParts == TimeInv <=> VtTime /\ ShTime
  BY DEF TimeInv, VtTime, ShTime

LEMMA InitTime == Init => TimeInv
  <1> SUFFICES ASSUME Init PROVE TimeInv
    OBVIOUS
  <1>1. /\ \A l \in Lookups : vtPhase[l] = "new" /\ shPhase[l] = "new"
        /\ \A k \in Clients : vtQueue[k] = <<>> /\ shQueue[k] = <<>>
        /\ \A l \in Lookups : target[l] = "domain" => IocTypeOf[l] = "domain-name"
    BY DEF Init, VtInit, ShInit
  <1>2. \A k \in Clients : DOMAIN vtQueue[k] = {} /\ DOMAIN shQueue[k] = {}
    BY <1>1
  <1>3. InLine(vtQueue, vtPhase) /\ InLine(shQueue, shPhase)
    BY <1>1, <1>2 DEF InLine, Waiting
  <1>4. /\ OnTime(clock, vtQueue, vtPhase, vtDue, TokenWait(0), VtDeadline)
        /\ OnTime(clock, shQueue, shPhase, shDue, Interval, ShDeadline)
    BY <1>1, <1>2, <1>3 DEF OnTime
  <1> QED
    BY <1>1, <1>4 DEF TimeInv, WakesToToken, VtAnswered, ShAnswered

\* While the event loop runs what is due, every lookup in the line of a lock
\* leaves it by the deadline its place gives it, and has its answers a timeout
\* later (virustotal.py:37-54, shodan.py:25-35).
THEOREM Timing ==
    ASSUME Prompt, IsFiniteSet(Lookups)
    PROVE  Spec => [](IInv /\ TimeInv)
  <1>1. Init => IInv /\ TimeInv
    BY InitInv, InitTime
  <1>2. ASSUME IInv, TimeInv, [Next]_vars
        PROVE  TimeInv'
    <2>1. TypeOK /\ BucketInv /\ SpacingInv /\ VtTime /\ ShTime
      BY <1>2, TimeParts DEF IInv
    <2>2. ASSUME UNCHANGED <<clock, shVars, started>>
          PROVE  ShTime'
      <3>1. ShDeadline' = ShDeadline
        BY <2>2 DEF ShDeadline, shVars
      <3> QED
        BY <2>1, <2>2, <3>1 DEF ShTime, ShAnswered, shVars
    <2>3. ASSUME UNCHANGED <<clock, vtVars, started>>
          PROVE  VtTime'
      <3>1. VtDeadline' = VtDeadline
        BY <2>3 DEF VtDeadline
      <3> QED
        BY <2>1, <2>3, <3>1 DEF VtTime, VtAnswered, WakesToToken, vtVars
    <2>4. ASSUME NEW l \in Lookups, Start(l)
          PROVE  VtTime' /\ ShTime'
      BY <2>1, <2>4, VtStartTime, ShStartTime
    <2>5. ASSUME NEW l \in Lookups,
                 VtStep(l) /\ UNCHANGED <<clock, shVars, started>>
          PROVE  VtTime' /\ ShTime'
      BY <2>1, <2>2, <2>5, VtStepTime
    <2>6. ASSUME NEW l \in Lookups,
                 ShStep(l) /\ UNCHANGED <<clock, vtVars, started>>
          PROVE  VtTime' /\ ShTime'
      BY <2>1, <2>3, <2>6, ShStepTime
    <2>7. ASSUME Tick
          PROVE  VtTime' /\ ShTime'
      BY <2>1, <2>7, TickTime
    <2>8. ASSUME UNCHANGED vars
          PROVE  VtTime' /\ ShTime'
      BY <2>2, <2>3, <2>8 DEF vars
    <2>9. VtTime' /\ ShTime'
      BY <1>2, <2>4, <2>5, <2>6, <2>7, <2>8 DEF Next, Step
    <2> QED
      BY <2>9 DEF TimeInv, VtTime, ShTime
  <1>3. IInv /\ TimeInv /\ [Next]_vars => (IInv /\ TimeInv)'
    BY <1>2, NextInv
  <1> QED
    BY <1>1, <1>3, PTL DEF Spec

\* A session is held over a lookup (manager.py:58-74) no longer than each
\* caller ahead needs a token or an interval, whoever sleeps with a lock held,
\* and two answers, a backoff and a resolution.
THEOREM LookupBounded ==
    ASSUME Prompt, IsFiniteSet(Lookups)
    PROVE  Spec => []LookupInTime
  <1>1. ASSUME IInv, TimeInv
        PROVE  LookupInTime
    <2>1. TypeOK /\ VtTime /\ ShTime
      BY <1>1, TimeParts DEF IInv
    <2> SUFFICES ASSUME NEW l \in Lookups
                 PROVE  /\ vtPhase[l] \notin {"new", "done"}
                              => clock - started[l]
                                   <= VtLongest(Cardinality(Sharing(l)))
                        /\ shPhase[l] \notin {"new", "done"}
                              => clock - started[l]
                                   <= ShLongest(Cardinality(Sharing(l)))
      BY DEF LookupInTime
    <2>2. ASSUME vtPhase[l] \notin {"new", "done"}
          PROVE  clock - started[l] <= VtLongest(Cardinality(Sharing(l)))
      <3> DEFINE need == Cardinality(Sharing(l)) * TokenWait(0)
      <3>1. /\ VtDeadline[l] = started[l] + need
            /\ need \in Nat /\ started[l] \in Int
        <4>1. started \in [Lookups -> Time]
          BY <2>1 DEF TypeOK
        <4>2. started[l] \in Int
          BY <2>1, ShFacts
        <4> QED
          BY <4>1, <4>2, VtDeadlines DEF VtDeadline
      <3> HIDE DEF need
      <3>2. /\ clock \in Int /\ Timeout \in Nat /\ Backoff \in Nat
            /\ vtPhase[l] \in VtPhases /\ vtDue[l] \in Int
        BY <2>1, VtFacts
      <3>3. clock <= VtDeadline[l] + 2 * Timeout + Backoff
        <4>1. CASE vtPhase[l] \in Waiting
          <5>1. clock <= VtDeadline[l]
            BY <2>1, <4>1, VtFacts, InTime DEF VtTime
          <5> QED
            BY <5>1, <3>1, <3>2
        <4>2. CASE vtPhase[l] = "sent"
          <5>1. clock <= vtDue[l] /\ vtDue[l] <= VtDeadline[l] + Timeout
            BY <2>1, <4>2 DEF VtTime, VtAnswered
          <5> QED
            BY <5>1, <3>1, <3>2
        <4>3. CASE vtPhase[l] = "backoff"
          <5>1. clock <= vtDue[l] /\ vtDue[l] <= VtDeadline[l] + Timeout + Backoff
            BY <2>1, <4>3 DEF VtTime, VtAnswered
          <5> QED
            BY <5>1, <3>1, <3>2
        <4>4. CASE vtPhase[l] = "resent"
          <5>1. /\ clock <= vtDue[l]
                /\ vtDue[l] <= VtDeadline[l] + 2 * Timeout + Backoff
            BY <2>1, <4>4 DEF VtTime, VtAnswered
          <5> QED
            BY <5>1, <3>1, <3>2
        <4> QED
          BY <2>2, <3>2, <4>1, <4>2, <4>3, <4>4 DEF VtPhases, Waiting
      <3> QED
        BY <3>1, <3>2, <3>3 DEF VtLongest, need
    <2>3. ASSUME shPhase[l] \notin {"new", "done"}
          PROVE  clock - started[l] <= ShLongest(Cardinality(Sharing(l)))
      <3>1. /\ ShDeadline[l] <= started[l] + Turn(l) + (Turn(l) + Timeout)
            /\ Turn(l) \in Nat /\ started[l] \in Int /\ ShDeadline[l] \in Int
            /\ clock \in Int /\ Timeout \in Nat
            /\ shPhase[l] \in ShPhases /\ shDue[l] \in Int
        <4>1. /\ Turn(l) \in Nat /\ started[l] \in Int /\ ShDeadline[l] \in Int
              /\ clock \in Int /\ Timeout \in Nat
              /\ shPhase[l] \in ShPhases /\ shDue[l] \in Int
          BY <2>1, ShFacts
        <4>2. ShDeadline[l] = started[l] + Turn(l)
                + IF IocTypeOf[l] = "domain-name" /\ target[l] = "host"
                    THEN Turn(l) + Timeout ELSE 0
          BY DEF ShDeadline, Turn
        <4> QED
          BY <4>1, <4>2
      <3>2. clock <= ShDeadline[l] + Timeout
        <4>1. CASE shPhase[l] \in Waiting
          <5>1. clock <= ShDeadline[l]
            BY <2>1, <4>1, ShFacts, InTime DEF ShTime
          <5> QED
            BY <5>1, <3>1
        <4>2. CASE shPhase[l] = "sent"
          <5>1. clock <= shDue[l] /\ shDue[l] <= ShDeadline[l] + Timeout
            BY <2>1, <4>2 DEF ShTime, ShAnswered
          <5> QED
            BY <5>1, <3>1
        <4> QED
          BY <2>3, <3>1, <4>1, <4>2 DEF ShPhases, Waiting
      <3>3. ShLongest(Cardinality(Sharing(l))) = 2 * (Turn(l) + Timeout)
        BY DEF ShLongest, Turn
      <3> QED
        BY <3>1, <3>2, <3>3
    <2> QED
      BY <2>2, <2>3
  <1>2. IInv /\ TimeInv => LookupInTime
    BY <1>1
  <1> QED
    BY <1>2, Timing, PTL
==============================================================================

----------------------------- MODULE PacingProofs -----------------------------
(***************************************************************************)
(* Proofs about ProviderPacing, for every number of lookups and clients    *)
(* and every rate, interval, backoff and timeout, whether or not the event *)
(* loop keeps up (Prompt).                                                 *)
(***************************************************************************)
EXTENDS ProviderPacing, TLAPS

------------------------------------------------------------------------------
(* The locks' queues and the request counts                                 *)

\* Joining and leaving a lock's queue keep it a queue of lookups.
LEMMA QueueType ==
    ASSUME NEW queue \in [Clients -> Seq(Lookups)], NEW l \in Lookups
    PROVE  /\ Joined(l, queue) \in [Clients -> Seq(Lookups)]
           /\ Holds(l, queue) => Released(l, queue) \in [Clients -> Seq(Lookups)]
  BY ClientsAssumption DEF Joined, Released, Holds

\* Who holds a lock still holds it when somebody joins the queue.
LEMMA HolderStays ==
    ASSUME NEW queue \in [Clients -> Seq(Lookups)],
           NEW l \in Lookups, NEW m \in Lookups, Holds(l, queue)
    PROVE  Holds(l, Joined(m, queue))
  <1>1. /\ ClientOf[l] \in Clients /\ ClientOf[m] \in Clients
        /\ queue[ClientOf[l]] \in Seq(Lookups)
        /\ queue[ClientOf[l]] # <<>>
        /\ Head(queue[ClientOf[l]]) = l
    BY ClientsAssumption DEF Holds
  <1>2. CASE ClientOf[m] = ClientOf[l]
    <2>1. Joined(m, queue)[ClientOf[l]] = Append(queue[ClientOf[l]], m)
      BY <1>1, <1>2 DEF Joined
    <2>2. /\ Append(queue[ClientOf[l]], m) # <<>>
          /\ Head(Append(queue[ClientOf[l]], m)) = l
      BY <1>1
    <2> QED
      BY <2>1, <2>2 DEF Holds
  <1>3. CASE ClientOf[m] # ClientOf[l]
    BY <1>1, <1>3 DEF Joined, Holds
  <1> QED
    BY <1>2, <1>3

\* Leaving a client's lock does not concern another client's holder.
LEMMA OtherHolderStays ==
    ASSUME NEW queue \in [Clients -> Seq(Lookups)],
           NEW l \in Lookups, NEW m \in Lookups,
           Holds(l, queue), Holds(m, queue), l # m
    PROVE  ClientOf[l] # ClientOf[m] /\ Holds(l, Released(m, queue))
  BY ClientsAssumption DEF Holds, Released

\* One more request counts in the windows that began before it.
LEMMA OneMoreCounts ==
    ASSUME NEW count \in [Time -> Nat], clock \in Time
    PROVE  /\ OneMore(count) \in [Time -> Nat]
           /\ \A t \in Time :
                 /\ t <= clock => OneMore(count)[t] = count[t] + 1
                 /\ t > clock => OneMore(count)[t] = count[t]
  BY ClientsAssumption DEF OneMore, Time

------------------------------------------------------------------------------
(* The bucket                                                               *)

\* What the bucket holds after a refill: virustotal.py:39-45.
LEMMA RefilledBounds ==
    ASSUME TypeOK, BucketInv, NEW k \in Clients
    PROVE  /\ Refilled(k) \in 0..RateLimit * Minute
           /\ Refilled(k) <= level[k] + (clock - updated[k]) * RateLimit
  <1>1. /\ level[k] \in 0..RateLimit * Minute
        /\ updated[k] \in Nat /\ clock \in Nat /\ updated[k] <= clock
    BY ClientsAssumption DEF TypeOK, VtTypeOK, Time, BucketInv
  <1>2. RateLimit \in Nat /\ Minute \in Nat /\ RateLimit * Minute \in Nat
    BY VirusTotalAssumption
  <1>3. (clock - updated[k]) * RateLimit \in Nat
    BY <1>1, <1>2
  <1> QED
    BY <1>1, <1>2, <1>3 DEF Refilled

\* What flows in until now is what flowed in until last_update and since.
LEMMA Inflow ==
    ASSUME NEW r \in Nat, NEW a \in Nat, NEW b \in Nat, NEW t \in Nat
    PROVE  r * (a - t) + (b - a) * r = r * (b - t)
  OBVIOUS

\* A refill that keeps a part of what it finds, with n more tokens taken:
\* VtSleep takes none, VtSend takes one.
LEMMA BucketStep ==
    ASSUME TypeOK, BucketInv, NEW k \in Clients, NEW n \in {0, 1},
           Refilled(k) >= n * Minute,
           NEW counts \in [Time -> Nat],
           \A t \in Time :
              counts[t] = IF t <= clock THEN granted[k][t] + n ELSE granted[k][t]
    PROVE  \A t \in Time :
              /\ t > clock => counts[t] = 0
              /\ t <= clock =>
                    Minute * counts[t] + (Refilled(k) - n * Minute)
                      <= RateLimit * Minute + RateLimit * (clock - t)
  <1> SUFFICES ASSUME NEW t \in Time
               PROVE  /\ t > clock => counts[t] = 0
                      /\ t <= clock =>
                           Minute * counts[t] + (Refilled(k) - n * Minute)
                             <= RateLimit * Minute + RateLimit * (clock - t)
    OBVIOUS
  <1>1. /\ level[k] \in Nat /\ updated[k] \in Nat /\ clock \in Nat
        /\ updated[k] <= clock /\ t \in Nat /\ granted[k][t] \in Nat
        /\ RateLimit \in Nat /\ Minute \in Nat
    BY ClientsAssumption, VirusTotalAssumption
    DEF TypeOK, VtTypeOK, Time, BucketInv
  <1>2. /\ Refilled(k) \in 0..RateLimit * Minute
        /\ Refilled(k) <= level[k] + (clock - updated[k]) * RateLimit
    BY RefilledBounds
  <1>3. t > clock => counts[t] = 0
    BY <1>1 DEF BucketInv
  <1>4. ASSUME t <= clock
        PROVE  Minute * counts[t] + (Refilled(k) - n * Minute)
                 <= RateLimit * Minute + RateLimit * (clock - t)
    <2>1. counts[t] = granted[k][t] + n
      BY <1>4
    <2>2. Minute * counts[t] = Minute * granted[k][t] + n * Minute
      BY <1>1, <2>1
    <2>3. Minute * counts[t] \in Int /\ RateLimit * Minute \in Int
          /\ n * Minute \in Int /\ Minute * granted[k][t] \in Int
      BY <1>1, <2>1
    <2>4. CASE t <= updated[k]
      <3>1. Minute * granted[k][t] + level[k]
              <= RateLimit * Minute + RateLimit * (updated[k] - t)
        BY <2>4 DEF BucketInv
      <3>2. RateLimit * (updated[k] - t) + (clock - updated[k]) * RateLimit
              = RateLimit * (clock - t)
        BY <1>1, Inflow
      <3>3. /\ RateLimit * (updated[k] - t) \in Int
            /\ (clock - updated[k]) * RateLimit \in Int
            /\ RateLimit * (clock - t) \in Int
        BY <1>1
      <3> QED
        BY <1>1, <1>2, <2>2, <2>3, <3>1, <3>2, <3>3
    <2>5. CASE t > updated[k]
      <3>1. granted[k][t] = 0
        BY <2>5 DEF BucketInv
      <3>2. RateLimit * (clock - t) \in Nat
        BY <1>1, <1>4
      <3>3. Minute * granted[k][t] = 0
        BY <1>1, <3>1
      <3>4. Minute * counts[t] + (Refilled(k) - n * Minute) = Refilled(k)
        <4>1. Minute * counts[t] = n * Minute
          BY <2>2, <2>3, <3>3
        <4> QED
          BY <1>1, <1>2, <2>3, <4>1
      <3>5. Refilled(k) <= RateLimit * Minute /\ Refilled(k) \in Nat
        BY <1>2
      <3> HIDE DEF Refilled
      <3> QED
        BY <2>3, <3>2, <3>4, <3>5
    <2> QED
      BY <1>1, <2>4, <2>5
  <1> QED
    BY <1>3, <1>4

------------------------------------------------------------------------------
(* Every step keeps the types                                               *)

\* The steps of virustotal.py keep its variables well typed.
LEMMA VtStepType ==
    ASSUME TypeOK, BucketInv, NEW l \in Lookups, VtStep(l) \/ VtStart(l)
    PROVE  VtTypeOK'
  <1> USE DEF TypeOK, VtTypeOK, VtPhases
  <1>1. /\ ClientOf[l] \in Clients
        /\ clock \in Nat /\ Timeout \in Nat /\ Backoff \in Nat
        /\ RateLimit \in Nat \ {0} /\ Minute \in Nat \ {0}
    BY ClientsAssumption, VirusTotalAssumption DEF Time
  <1> DEFINE k == ClientOf[l]
  <1>2. /\ Refilled(k) \in 0..RateLimit * Minute
        /\ RateLimit * Minute \in Nat
    BY <1>1, RefilledBounds
  <1>3. CASE VtStart(l)
    <2>1. vtPhase' \in [Lookups -> VtPhases]
      BY <1>3 DEF VtStart, VtMove
    <2>2. vtQueue' \in [Clients -> Seq(Lookups)]
      <3>1. Joined(l, vtQueue) \in [Clients -> Seq(Lookups)]
        BY QueueType
      <3> QED
        BY <1>3, <3>1 DEF VtStart
    <2> QED
      BY <1>3, <2>1, <2>2 DEF VtStart
  <1>4. CASE VtSleep(l)
    <2>1. TokenWait(Refilled(k)) \in Int
      <3>1. Minute - Refilled(k) + RateLimit - 1 \in Int
        BY <1>1, <1>2, <1>4 DEF VtSleep
      <3> QED
        BY <1>1, <3>1 DEF TokenWait
    <2>2. vtDue' \in [Lookups -> Int]
      BY <1>1, <1>4, <2>1 DEF VtSleep, VtWait
    <2>3. level' \in [Clients -> 0..RateLimit * Minute]
      BY <1>1, <1>2, <1>4 DEF VtSleep
    <2> QED
      BY <1>1, <1>4, <2>2, <2>3 DEF VtSleep, VtMove
  <1>5. CASE VtSend(l)
    <2>1. level' \in [Clients -> 0..RateLimit * Minute]
      <3>1. Refilled(k) - Minute \in 0..RateLimit * Minute
        BY <1>1, <1>2, <1>5 DEF VtSend
      <3> QED
        BY <1>1, <1>5, <3>1 DEF VtSend
    <2>2. vtQueue' \in [Clients -> Seq(Lookups)]
      BY <1>5, QueueType DEF VtSend, Checking
    <2>3. /\ granted' \in [Clients -> [Time -> Nat]]
          /\ sent' \in [Time -> Nat]
      BY <1>1, <1>5, OneMoreCounts DEF VtSend
    <2>4. vtDue' \in [Lookups -> Int] /\ vtPhase' \in [Lookups -> VtPhases]
      BY <1>1, <1>5 DEF VtSend, VtWait, VtMove
    <2>5. updated' \in [Clients -> Time]
      BY <1>1, <1>5 DEF VtSend
    <2> QED
      BY <2>1, <2>2, <2>3, <2>4, <2>5
  <1>6. CASE VtThrottled(l)
    BY <1>1, <1>6 DEF VtThrottled, VtMove, VtWait
  <1>7. CASE VtResend(l)
    BY <1>1, <1>7, OneMoreCounts DEF VtResend, VtMove, VtWait
  <1>8. CASE VtAnswer(l)
    BY <1>8 DEF VtAnswer, VtMove
  <1> QED
    BY <1>3, <1>4, <1>5, <1>6, <1>7, <1>8 DEF VtStep

\* The steps of shodan.py keep its variables well typed.
LEMMA ShStepType ==
    ASSUME TypeOK, NEW l \in Lookups, ShStep(l) \/ ShStart(l)
    PROVE  ShTypeOK'
  <1> USE DEF TypeOK, ShTypeOK, ShPhases
  <1>1. /\ ClientOf[l] \in Clients
        /\ clock \in Int /\ Timeout \in Int /\ Interval \in Int
    BY ClientsAssumption, ShodanAssumption DEF Time
  <1>2. CASE ShStart(l)
    <2>1. shPhase' \in [Lookups -> ShPhases]
      BY <1>2 DEF ShStart, ShMove
    <2>2. shQueue' \in [Clients -> Seq(Lookups)]
      <3>1. Joined(l, shQueue) \in [Clients -> Seq(Lookups)]
        BY QueueType
      <3> QED
        BY <1>2, <3>1 DEF ShStart
    <2> QED
      BY <1>2, <2>1, <2>2 DEF ShStart
  <1>3. CASE ShSleep(l)
    BY <1>1, <1>3 DEF ShSleep, ShMove
  <1>4. CASE ShSend(l)
    <2>1. shQueue' \in [Clients -> Seq(Lookups)]
      BY <1>4, QueueType DEF ShSend, Paced
    <2>2. asked' \in [Clients -> [Time -> Nat]]
      BY <1>1, <1>4, OneMoreCounts DEF ShSend
    <2> QED
      BY <1>1, <1>4, <2>1, <2>2 DEF ShSend, ShMove
  <1>5. CASE ShResolved(l)
    BY <1>5, QueueType DEF ShResolved, ShMove
  <1>6. CASE ShAnswer(l)
    BY <1>6 DEF ShAnswer, ShMove
  <1> QED
    BY <1>2, <1>3, <1>4, <1>5, <1>6 DEF ShStep

------------------------------------------------------------------------------
(* Every step keeps the two invariants                                      *)

\* The bucket through the steps of virustotal.py.
LEMMA VtStepBucket ==
    ASSUME TypeOK, BucketInv, NEW l \in Lookups, VtStep(l) \/ VtStart(l),
           UNCHANGED clock
    PROVE  BucketInv'
  <1> DEFINE k == ClientOf[l]
  <1>1. k \in Clients /\ clock \in Time /\ clock \in Nat
    BY ClientsAssumption DEF TypeOK, Time
  <1>2. /\ level \in [Clients -> 0..RateLimit * Minute]
        /\ updated \in [Clients -> Time]
        /\ granted \in [Clients -> [Time -> Nat]]
    BY DEF TypeOK, VtTypeOK
  <1>3. CASE UNCHANGED <<level, updated, granted>>
    BY <1>3 DEF BucketInv
  <1>4. CASE VtSleep(l)
    <2>1. \A t \in Time :
             /\ t > clock => granted[k][t] = 0
             /\ t <= clock =>
                   Minute * granted[k][t] + (Refilled(k) - 0 * Minute)
                     <= RateLimit * Minute + RateLimit * (clock - t)
      <3>1. Refilled(k) >= 0 * Minute
        BY <1>1, RefilledBounds, VirusTotalAssumption
      <3>2. \A t \in Time :
               granted[k][t] = IF t <= clock THEN granted[k][t] + 0
                               ELSE granted[k][t]
        BY <1>1, <1>2
      <3>3. granted[k] \in [Time -> Nat]
        BY <1>1, <1>2
      <3> QED
        BY <1>1, <3>1, <3>2, <3>3, BucketStep
    <2>2. Refilled(k) - 0 * Minute = Refilled(k)
      BY <1>1, RefilledBounds, VirusTotalAssumption
    <2>3. /\ level' = [level EXCEPT ![k] = Refilled(k)]
          /\ updated' = [updated EXCEPT ![k] = clock]
          /\ granted' = granted
      BY <1>4 DEF VtSleep
    <2> HIDE DEF k
    <2> QED
      BY <1>1, <1>2, <2>1, <2>2, <2>3 DEF BucketInv
  <1>5. CASE VtSend(l)
    <2>1. \A t \in Time :
             /\ t > clock => OneMore(granted[k])[t] = 0
             /\ t <= clock =>
                   Minute * OneMore(granted[k])[t] + (Refilled(k) - 1 * Minute)
                     <= RateLimit * Minute + RateLimit * (clock - t)
      <3>1. Refilled(k) >= 1 * Minute
        BY <1>5, VirusTotalAssumption DEF VtSend
      <3>2. /\ OneMore(granted[k]) \in [Time -> Nat]
            /\ \A t \in Time :
                  OneMore(granted[k])[t] =
                    IF t <= clock THEN granted[k][t] + 1 ELSE granted[k][t]
        BY <1>1, <1>2 DEF OneMore
      <3> QED
        BY <1>1, <3>1, <3>2, BucketStep
    <2>2. Refilled(k) - 1 * Minute = Refilled(k) - Minute
      BY VirusTotalAssumption
    <2>3. /\ level' = [level EXCEPT ![k] = Refilled(k) - Minute]
          /\ updated' = [updated EXCEPT ![k] = clock]
          /\ granted' = [granted EXCEPT ![k] = OneMore(granted[k])]
      BY <1>1, <1>2, <1>5 DEF VtSend
    <2> HIDE DEF k
    <2> QED
      BY <1>1, <1>2, <2>1, <2>2, <2>3 DEF BucketInv
  <1> QED
    BY <1>3, <1>4, <1>5 DEF VtStep, VtStart, VtThrottled, VtResend, VtAnswer

\* The spacing through the steps of shodan.py.
LEMMA ShStepSpacing ==
    ASSUME TypeOK, SpacingInv, NEW l \in Lookups, ShStep(l) \/ ShStart(l),
           UNCHANGED clock
    PROVE  SpacingInv'
  <1> DEFINE k == ClientOf[l]
  <1>1. /\ k \in Clients /\ clock \in Time /\ clock \in Int
        /\ Interval \in Nat \ {0}
        /\ \A t \in Time : t \in Int
        /\ \A m \in Lookups : ClientOf[m] \in Clients
    BY ClientsAssumption, ShodanAssumption DEF TypeOK, Time
  <1>2. /\ shPhase \in [Lookups -> ShPhases]
        /\ shDue \in [Lookups -> Int]
        /\ shQueue \in [Clients -> Seq(Lookups)]
        /\ last \in [Clients -> Int]
        /\ asked \in [Clients -> [Time -> Nat]]
    BY DEF TypeOK, ShTypeOK
  <1>3. ASSUME UNCHANGED <<last, asked, shDue>>,
               \/ UNCHANGED shQueue
               \/ shQueue' = Joined(l, shQueue),
               NEW p \in ShPhases \ {"sleeping"}, ShMove(l, p)
        PROVE  SpacingInv'
    <2>1. ASSUME NEW m \in Lookups, shPhase'[m] = "sleeping"
          PROVE  /\ Holds(m, shQueue')
                 /\ shDue'[m] >= last'[ClientOf[m]] + Interval
      <3>1. shPhase[m] = "sleeping"
        BY <1>2, <1>3, <2>1 DEF ShMove
      <3>2. Holds(m, shQueue) /\ shDue[m] >= last[ClientOf[m]] + Interval
        BY <3>1 DEF SpacingInv
      <3> QED
        BY <1>2, <1>3, <3>2, HolderStays
    <2> QED
      BY <1>3, <2>1 DEF SpacingInv, Holds
  <1>4. CASE ShStart(l)
    BY <1>3, <1>4 DEF ShStart, ShPhases
  <1>5. CASE ShResolved(l)
    BY <1>3, <1>5 DEF ShResolved, ShPhases
  <1>6. CASE ShAnswer(l)
    BY <1>3, <1>6 DEF ShAnswer, ShPhases
  <1>7. CASE ShSleep(l)
    BY <1>1, <1>2, <1>7 DEF ShSleep, ShMove, SpacingInv, Holds
  <1>8. CASE ShSend(l)
    <2>1. clock - last[k] >= Interval
      BY <1>1, <1>2, <1>8 DEF ShSend, Paced, Early, SpacingInv
    <2>2. \A t \in Time :
             /\ t > clock => OneMore(asked[k])[t] = 0
             /\ t > clock - Interval => OneMore(asked[k])[t] <= 1
      BY <1>1, <1>2, <2>1 DEF OneMore, SpacingInv
    <2>3. /\ last' = [last EXCEPT ![k] = clock]
          /\ asked' = [asked EXCEPT ![k] = OneMore(asked[k])]
          /\ shPhase' = [shPhase EXCEPT ![l] = "sent"]
          /\ shDue' = [shDue EXCEPT ![l] = clock + Timeout]
          /\ shQueue' = Released(l, shQueue)
          /\ Holds(l, shQueue)
      BY <1>1, <1>2, <1>8 DEF ShSend, ShMove, Paced
    <2>4. ASSUME NEW j \in Clients
          PROVE  /\ last'[j] <= clock'
                 /\ \A t \in Time :
                       /\ t > last'[j] => asked'[j][t] = 0
                       /\ t > last'[j] - Interval => asked'[j][t] <= 1
      <3>1. CASE j = k
        BY <1>1, <1>2, <2>2, <2>3, <3>1
      <3>2. CASE j # k
        BY <1>1, <1>2, <2>3, <3>2 DEF SpacingInv
      <3> QED
        BY <3>1, <3>2
    <2>5. ASSUME NEW m \in Lookups, shPhase'[m] = "sleeping"
          PROVE  /\ Holds(m, shQueue')
                 /\ shDue'[m] >= last'[ClientOf[m]] + Interval
      <3>1. m # l /\ shPhase[m] = "sleeping" /\ shDue'[m] = shDue[m]
        BY <1>2, <2>3, <2>5
      <3>2. Holds(m, shQueue) /\ shDue[m] >= last[ClientOf[m]] + Interval
        BY <3>1 DEF SpacingInv
      <3>3. ClientOf[m] # k /\ Holds(m, shQueue')
        BY <1>2, <2>3, <3>1, <3>2, OtherHolderStays
      <3>4. last'[ClientOf[m]] = last[ClientOf[m]]
        BY <1>1, <1>2, <2>3, <3>3
      <3> QED
        BY <3>1, <3>2, <3>3, <3>4
    <2> QED
      BY <2>4, <2>5 DEF SpacingInv, Holds
  <1> QED
    BY <1>4, <1>5, <1>6, <1>7, <1>8 DEF ShStep

------------------------------------------------------------------------------
(* The invariant                                                            *)

\* Before any lookup the buckets are full and nothing has been sent.
LEMMA InitInv == Init => IInv
  <1> SUFFICES ASSUME Init PROVE IInv
    OBVIOUS
  <1>1. /\ 0 \in Time
        /\ RateLimit \in Nat /\ Minute \in Nat /\ RateLimit * Minute \in Nat
        /\ Interval \in Nat \ {0} /\ -Interval \in Int
        /\ \A t \in Time : t \in Nat
    BY ClientsAssumption, VirusTotalAssumption, ShodanAssumption DEF Time
  <1>2. TypeOK
    BY <1>1 DEF Init, VtInit, ShInit, TypeOK, VtTypeOK, ShTypeOK, VtPhases,
                ShPhases
  <1>3. BucketInv
    <2> SUFFICES ASSUME NEW k \in Clients
                 PROVE  /\ updated[k] <= clock
                        /\ \A t \in Time :
                              /\ t > updated[k] => granted[k][t] = 0
                              /\ t <= updated[k] =>
                                    Minute * granted[k][t] + level[k]
                                      <= RateLimit * Minute
                                           + RateLimit * (updated[k] - t)
      BY DEF BucketInv
    <2>1. /\ updated[k] = 0 /\ clock = 0 /\ level[k] = RateLimit * Minute
          /\ \A t \in Time : granted[k][t] = 0
      BY DEF Init, VtInit
    <2>2. ASSUME NEW t \in Time, t <= 0
          PROVE  Minute * 0 + RateLimit * Minute
                   <= RateLimit * Minute + RateLimit * (0 - t)
      <3>1. t = 0
        BY <1>1, <2>2
      <3>2. Minute * 0 = 0 /\ RateLimit * (0 - t) = 0
        BY <1>1, <3>1
      <3> QED
        BY <1>1, <3>2
    <2> QED
      BY <2>1, <2>2
  <1>4. SpacingInv
    BY <1>1 DEF Init, ShInit, SpacingInv
  <1> QED
    BY <1>2, <1>3, <1>4 DEF IInv

\* Every step of Next, and every stutter, preserves the invariant.
LEMMA NextInv == IInv /\ [Next]_vars => IInv'
  <1> SUFFICES ASSUME IInv, [Next]_vars PROVE IInv'
    OBVIOUS
  <1>0. TypeOK /\ BucketInv /\ SpacingInv
    BY DEF IInv
  <1>1. ASSUME NEW l \in Lookups, Start(l) PROVE IInv'
    <2>1. /\ VtStart(l) /\ ShStart(l) /\ UNCHANGED clock
          /\ started' = [started EXCEPT ![l] = clock]
      BY <1>1 DEF Start
    <2>2. TypeOK'
      BY <1>0, <2>1, VtStepType, ShStepType DEF TypeOK
    <2> QED
      BY <1>0, <2>1, <2>2, VtStepBucket, ShStepSpacing DEF IInv
  <1>2. ASSUME NEW l \in Lookups, VtStep(l), UNCHANGED <<clock, shVars, started>>
        PROVE  IInv'
    <2>1. TypeOK'
      BY <1>0, <1>2, VtStepType DEF TypeOK, ShTypeOK, shVars
    <2>2. SpacingInv'
      BY <1>0, <1>2 DEF SpacingInv, Holds, shVars
    <2> QED
      BY <1>0, <1>2, <2>1, <2>2, VtStepBucket DEF IInv
  <1>3. ASSUME NEW l \in Lookups, ShStep(l), UNCHANGED <<clock, vtVars, started>>
        PROVE  IInv'
    <2>1. TypeOK'
      BY <1>0, <1>3, ShStepType DEF TypeOK, VtTypeOK, vtVars
    <2>2. BucketInv'
      BY <1>0, <1>3 DEF BucketInv, vtVars
    <2> QED
      BY <1>0, <1>3, <2>1, <2>2, ShStepSpacing DEF IInv
  <1>4. CASE Tick
    <2>1. clock \in Int /\ clock' = clock + 1 /\ clock' \in Time
      BY <1>0, <1>4, ClientsAssumption DEF Tick, TypeOK, Time
    <2>2. TypeOK'
      BY <1>0, <1>4, <2>1
      DEF Tick, TypeOK, VtTypeOK, ShTypeOK, vtVars, shVars
    <2>3. \A k \in Clients : updated[k] \in Int /\ last[k] \in Int
      BY <1>0 DEF TypeOK, VtTypeOK, ShTypeOK, Time
    <2>4. BucketInv'
      <3>1. /\ updated' = updated /\ granted' = granted /\ level' = level
        BY <1>4 DEF Tick, vtVars
      <3>2. \A k \in Clients : updated[k] <= clock'
        BY <1>0, <2>1, <2>3 DEF BucketInv
      <3> QED
        BY <1>0, <3>1, <3>2 DEF BucketInv
    <2>5. SpacingInv'
      <3>1. /\ shPhase' = shPhase /\ shDue' = shDue /\ shQueue' = shQueue
            /\ last' = last /\ asked' = asked
        BY <1>4 DEF Tick, shVars
      <3>2. \A k \in Clients : last[k] <= clock'
        BY <1>0, <2>1, <2>3 DEF SpacingInv
      <3> QED
        BY <1>0, <3>1, <3>2 DEF SpacingInv, Holds
    <2> QED
      BY <2>2, <2>4, <2>5 DEF IInv
  <1>5. CASE UNCHANGED vars
    BY <1>0, <1>5
    DEF vars, vtVars, shVars, IInv, TypeOK, VtTypeOK, ShTypeOK, BucketInv,
        SpacingInv, Holds
  <1> QED
    BY <1>1, <1>2, <1>3, <1>4, <1>5 DEF Next, Step

\* In every reachable state the buckets and the spacing are in order.
THEOREM Invariance == Spec => []IInv
  BY InitInv, NextInv, PTL DEF Spec

------------------------------------------------------------------------------
(* What follows from it                                                     *)

\* From any instant on, a client takes no more tokens than a full bucket and
\* what has flowed in since.
THEOREM Burst == Spec => []BurstBound
  <1>1. IInv => BurstBound
    <2> SUFFICES ASSUME IInv, NEW k \in Clients, NEW t \in Time, t <= clock
                 PROVE  Minute * granted[k][t]
                          <= RateLimit * Minute + RateLimit * (clock - t)
      BY DEF BurstBound
    <2>1. /\ level[k] \in Nat /\ updated[k] \in Nat /\ clock \in Nat
          /\ t \in Nat /\ granted[k][t] \in Nat /\ updated[k] <= clock
          /\ RateLimit \in Nat /\ Minute \in Nat
      BY ClientsAssumption, VirusTotalAssumption
      DEF IInv, TypeOK, VtTypeOK, BucketInv, Time
    <2>2. /\ RateLimit * Minute \in Nat /\ RateLimit * (clock - t) \in Nat
          /\ (clock - updated[k]) * RateLimit \in Nat
      BY <2>1
    <2>3. CASE t <= updated[k]
      <3>1. Minute * granted[k][t] + level[k]
              <= RateLimit * Minute + RateLimit * (updated[k] - t)
        BY <2>3 DEF IInv, BucketInv
      <3>2. RateLimit * (updated[k] - t) + (clock - updated[k]) * RateLimit
              = RateLimit * (clock - t)
        BY <2>1, Inflow
      <3>3. /\ RateLimit * (updated[k] - t) \in Int
            /\ Minute * granted[k][t] \in Int
        BY <2>1
      <3> QED
        BY <2>1, <2>2, <3>1, <3>2, <3>3
    <2>4. CASE t > updated[k]
      <3>1. Minute * granted[k][t] = 0
        BY <2>1, <2>4 DEF IInv, BucketInv
      <3> QED
        BY <2>2, <3>1
    <2> QED
      BY <2>1, <2>3, <2>4
  <1> QED
    BY <1>1, Invariance, PTL

\* No two requests of a Shodan client go out within an interval.
THEOREM Spacing == Spec => []Spaced
  <1>1. IInv => Spaced
    <2> SUFFICES ASSUME IInv, NEW k \in Clients, NEW t \in Time,
                        t <= clock, clock - t < Interval
                 PROVE  asked[k][t] <= 1
      BY DEF Spaced
    <2>1. /\ last[k] \in Int /\ clock \in Int /\ t \in Int /\ Interval \in Int
          /\ last[k] <= clock
      BY ShodanAssumption DEF IInv, TypeOK, ShTypeOK, SpacingInv, Time
    <2>2. t > last[k] - Interval
      BY <2>1
    <2> QED
      BY <2>2 DEF IInv, SpacingInv
  <1> QED
    BY <1>1, Invariance, PTL
==============================================================================

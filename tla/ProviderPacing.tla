---------------------------- MODULE ProviderPacing ----------------------------
(***************************************************************************)
(* execute_enrichment (manager.py): both clients asked at once, and the    *)
(* lookup over when both have answered.                                    *)
(*                                                                         *)
(* The code makes a pair of clients for each lookup (manager.py:23-24):    *)
(* Clients = Lookups.  A pair that lookups share is what the locks of the  *)
(* classes are there for; it is the harder case, and no caller makes one.  *)
(***************************************************************************)
EXTENDS VirusTotalPacing, ShodanPacing, FiniteSets

CONSTANTS
    Prompt,  \* whether the event loop runs what is due before time goes on
    StartBy  \* bound: the last instant at which a lookup starts

ASSUME PacingAssumption == Prompt \in BOOLEAN /\ StartBy \in Nat

VARIABLE started  \* when each lookup was started

vars == <<clock, vtVars, shVars, started>>

TypeOK ==
    /\ clock \in Time
    /\ VtTypeOK
    /\ ShTypeOK
    /\ started \in [Lookups -> Time]

Init ==
    /\ clock = 0
    /\ VtInit
    /\ ShInit
    /\ started = [l \in Lookups |-> 0]

\* asyncio.gather starts both coroutines.
Start(l) ==
    /\ clock <= StartBy
    /\ VtStart(l)
    /\ ShStart(l)
    /\ started' = [started EXCEPT ![l] = clock]
    /\ UNCHANGED clock

Tick ==
    /\ clock < MaxTime
    /\ Prompt => \A l \in Lookups : ~VtUrgent(l) /\ ~ShUrgent(l)
    /\ clock' = clock + 1
    /\ UNCHANGED <<vtVars, shVars, started>>

Step(l) ==
    \/ VtStep(l) /\ UNCHANGED <<clock, shVars, started>>
    \/ ShStep(l) /\ UNCHANGED <<clock, vtVars, started>>

Next ==
    \/ \E l \in Lookups : Start(l) \/ Step(l)
    \/ Tick

Spec == Init /\ [][Next]_vars

\* What is due is run, and time passes.  Nobody has to start a lookup.
FairSpec ==
    /\ Spec
    /\ \A l \in Lookups : WF_vars(Step(l))
    /\ WF_vars(Tick)

------------------------------------------------------------------------------
(* Properties                                                               *)

Running(l) == vtPhase[l] # "new" /\ ~(vtPhase[l] = "done" /\ shPhase[l] = "done")

\* The lookups that may be ahead of l in a lock's queue, and l.
Sharing(l) == {m \in Lookups : ClientOf[m] = ClientOf[l]}

\* The longest that each client can keep a lookup, with n sharing it.
VtLongest(n) == n * TokenWait(0) + 2 * Timeout + Backoff
ShLongest(n) == 2 * (n * Interval + Timeout)

\* enrich_indicator_task holds its session, and with it a transaction, over
\* the whole lookup (manager.py:58-74).  If no answer takes longer than Timeout,
\* that lasts no longer than each caller ahead needs a token or an interval,
\* whoever sleeps with a lock held (virustotal.py:37, shodan.py:25), and two
\* answers, a backoff, a resolution.
LookupInTime ==
    \A l \in Lookups :
        LET n == Cardinality(Sharing(l))
        IN  /\ vtPhase[l] \notin {"new", "done"}
                 => clock - started[l] <= VtLongest(n)
            /\ shPhase[l] \notin {"new", "done"}
                 => clock - started[l] <= ShLongest(n)

\* Every lookup that was started comes to its end.
EveryLookupEnds == \A l \in Lookups : Running(l) ~> ~Running(l)

\* The invariant behind BurstBound and Spaced.  A bucket's level and the
\* tokens taken from it since t are never more than a full bucket and what
\* flowed in between t and last_update.
BucketInv ==
    \A k \in Clients :
        /\ updated[k] <= clock
        /\ \A t \in Time :
              /\ t > updated[k] => granted[k][t] = 0
              /\ t <= updated[k] =>
                    Minute * granted[k][t] + level[k]
                      <= RateLimit * Minute + RateLimit * (updated[k] - t)

\* Nothing was sent after last_request_time, and one request in the interval
\* before it; who sleeps holds the lock and wakes an interval after it.
SpacingInv ==
    /\ \A k \in Clients :
          /\ last[k] <= clock
          /\ \A t \in Time :
                /\ t > last[k] => asked[k][t] = 0
                /\ t > last[k] - Interval => asked[k][t] <= 1
    /\ \A l \in Lookups :
          shPhase[l] = "sleeping"
            => /\ Holds(l, shQueue)
               /\ shDue[l] >= last[ClientOf[l]] + Interval

IInv == TypeOK /\ BucketInv /\ SpacingInv
==============================================================================

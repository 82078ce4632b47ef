-------------------------- MODULE VirusTotalPacing --------------------------
(***************************************************************************)
(* workers/enrichment/virustotal.py: the token bucket of a client, its     *)
(* lock, and the request that follows with its one repetition after a 429. *)
(*                                                                         *)
(* The bucket's level is counted in units of 1 / Minute token, so that it  *)
(* gains RateLimit of them per tick and a token is Minute of them.         *)
(***************************************************************************)
EXTENDS ProviderClients

CONSTANTS
    RateLimit,  \* VIRUSTOTAL_RATE_LIMIT_RPM, requests per minute: 4
    Minute,     \* the ticks of a minute
    Backoff     \* the wait after a 429: 5 seconds

ASSUME VirusTotalAssumption ==
    /\ RateLimit \in Nat \ {0}
    /\ Minute \in Nat \ {0}
    /\ Backoff \in Nat

VARIABLES
    vtPhase,  \* where each lookup is in enrich_ioc
    vtDue,    \* when its sleep is over, or its answer here at the latest
    vtQueue,  \* vtQueue[k]: holder and waiters of client k's _lock
    level,    \* level[k]: client k's tokens
    updated,  \* updated[k]: its last_update
    granted,  \* history: granted[k][t], the tokens taken at t or later
    sent      \* history: sent[t], the requests of all clients at t or later

vtVars == <<vtPhase, vtDue, vtQueue, level, updated, granted, sent>>

VtPhases == {"new", "queued", "sleeping", "sent", "backoff", "resent", "done"}

VtTypeOK ==
    /\ vtPhase \in [Lookups -> VtPhases]
    /\ vtDue \in [Lookups -> Int]
    /\ vtQueue \in [Clients -> Seq(Lookups)]
    /\ level \in [Clients -> 0..RateLimit * Minute]
    /\ updated \in [Clients -> Time]
    /\ granted \in [Clients -> [Time -> Nat]]
    /\ sent \in [Time -> Nat]

VtInit ==
    /\ vtPhase = [l \in Lookups |-> "new"]
    /\ vtDue = [l \in Lookups |-> 0]
    /\ vtQueue = [k \in Clients |-> <<>>]
    /\ level = [k \in Clients |-> RateLimit * Minute]
    /\ updated = [k \in Clients |-> 0]
    /\ granted = [k \in Clients |-> [t \in Time |-> 0]]
    /\ sent = [t \in Time |-> 0]

VtMove(l, phase) == vtPhase' = [vtPhase EXCEPT ![l] = phase]
VtWait(l, ticks) == vtDue' = [vtDue EXCEPT ![l] = clock + ticks]

\* The types with an endpoint; a URL and a mocked key are answered at once.
VtTypes == {"ipv4-addr", "ipv6-addr", "domain-name", "file-md5", "file-sha256"}

VtStart(l) ==
    /\ vtPhase[l] = "new"
    /\ IF "virustotal" \in Configured /\ IocTypeOf[l] \in VtTypes
         THEN VtMove(l, "queued") /\ vtQueue' = Joined(l, vtQueue)
         ELSE VtMove(l, "done") /\ UNCHANGED vtQueue
    /\ UNCHANGED <<vtDue, level, updated, granted, sent>>

------------------------------------------------------------------------------
(* _consume_token                                                           *)

\* Mutant of Refilled: no cap.
RefilledUncapped(k) == level[k] + (clock - updated[k]) * RateLimit

Refilled(k) ==
    LET filled == level[k] + (clock - updated[k]) * RateLimit
    IN  IF filled <= RateLimit * Minute THEN filled ELSE RateLimit * Minute

\* The holder of the lock, at the top of the loop.
Checking(l) ==
    /\ Holds(l, vtQueue)
    /\ \/ vtPhase[l] = "queued"
       \/ vtPhase[l] = "sleeping" /\ vtDue[l] <= clock

\* The ticks until the first one with a whole token.
TokenWait(units) == (Minute - units + RateLimit - 1) \div RateLimit

\* Mutant of VtSleep: the tokens that have come in are not kept.
VtSleepForgetting(l) ==
    LET k == ClientOf[l]
    IN  /\ Checking(l)
        /\ Refilled(k) < Minute
        /\ updated' = [updated EXCEPT ![k] = clock]
        /\ VtMove(l, "sleeping")
        /\ VtWait(l, TokenWait(Refilled(k)))
        /\ UNCHANGED <<level, vtQueue, granted, sent>>

\* It sleeps with the lock held.
VtSleep(l) ==
    LET k == ClientOf[l]
    IN  /\ Checking(l)
        /\ Refilled(k) < Minute
        /\ level' = [level EXCEPT ![k] = Refilled(k)]
        /\ updated' = [updated EXCEPT ![k] = clock]
        /\ VtMove(l, "sleeping")
        /\ VtWait(l, TokenWait(Refilled(k)))
        /\ UNCHANGED <<vtQueue, granted, sent>>

\* It takes a token, leaves the lock, and sends its request.
VtSend(l) ==
    LET k == ClientOf[l]
    IN  /\ Checking(l)
        /\ Refilled(k) >= Minute
        /\ level' = [level EXCEPT ![k] = Refilled(k) - Minute]
        /\ updated' = [updated EXCEPT ![k] = clock]
        /\ vtQueue' = Released(l, vtQueue)
        /\ VtMove(l, "sent")
        /\ VtWait(l, Timeout)
        /\ granted' = [granted EXCEPT ![k] = OneMore(@)]
        /\ sent' = OneMore(sent)

------------------------------------------------------------------------------
(* The request                                                              *)

\* "Retrying once with backoff."
VtThrottled(l) ==
    /\ vtPhase[l] = "sent"
    /\ VtMove(l, "backoff")
    /\ VtWait(l, Backoff)
    /\ UNCHANGED <<vtQueue, level, updated, granted, sent>>

\* The second request takes no token.
VtResend(l) ==
    /\ vtPhase[l] = "backoff"
    /\ vtDue[l] <= clock
    /\ VtMove(l, "resent")
    /\ VtWait(l, Timeout)
    /\ sent' = OneMore(sent)
    /\ UNCHANGED <<vtQueue, level, updated, granted>>

\* A report, the 404 report, or {} for any other answer or error.
VtAnswer(l) ==
    /\ vtPhase[l] \in {"sent", "resent"}
    /\ VtMove(l, "done")
    /\ UNCHANGED <<vtDue, vtQueue, level, updated, granted, sent>>

VtStep(l) ==
    VtSleep(l) \/ VtSend(l) \/ VtThrottled(l) \/ VtResend(l) \/ VtAnswer(l)

\* What cannot wait for another tick: a check, the end of a sleep, an answer
\* that has taken Timeout.
VtUrgent(l) ==
    \/ Checking(l)
    \/ vtPhase[l] \in {"sent", "backoff", "resent"} /\ vtDue[l] <= clock

------------------------------------------------------------------------------
(* Properties                                                               *)

\* "Token bucket mechanism" (virustotal.py:32): from any instant t on, one
\* client takes no more tokens than a full bucket and what flows in since,
\* however its callers queue, sleep and wake.
BurstBound ==
    \A k \in Clients, t \in Time :
        t <= clock
          => Minute * granted[k][t] <= RateLimit * Minute + RateLimit * (clock - t)

\* The free tier (virustotal.py:18, core/config.py:48): no more requests in
\* any minute than the limit, whoever sends them.
MinuteLimit ==
    \A t \in Time : t <= clock /\ clock - t < Minute => sent[t] <= RateLimit
==============================================================================

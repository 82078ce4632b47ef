----------------------------- MODULE ShodanPacing -----------------------------
(***************************************************************************)
(* workers/enrichment/shodan.py: the spacing of a client's requests, and   *)
(* the second request that the lookup of a domain makes for its address.   *)
(***************************************************************************)
EXTENDS ProviderClients

CONSTANT Interval  \* 1 / SHODAN_RATE_LIMIT_RPS: one second

ASSUME ShodanAssumption == Interval \in Nat \ {0}

VARIABLES
    shPhase,  \* where each lookup is in enrich_ioc
    shDue,    \* when its sleep is over, or its answer here at the latest
    shQueue,  \* shQueue[k]: holder and waiters of client k's _lock
    last,     \* last[k]: its last_request_time
    target,   \* what the running enrich_ioc asks about
    asked     \* history: asked[k][t], client k's requests at t or later

shVars == <<shPhase, shDue, shQueue, last, target, asked>>

ShPhases == {"new", "queued", "sleeping", "sent", "done"}

ShTypeOK ==
    /\ shPhase \in [Lookups -> ShPhases]
    /\ shDue \in [Lookups -> Int]
    /\ shQueue \in [Clients -> Seq(Lookups)]
    /\ last \in [Clients -> Int]
    /\ target \in [Lookups -> {"host", "domain"}]
    /\ asked \in [Clients -> [Time -> Nat]]

\* last_request_time is 0.0 on a clock that started long ago.
ShInit ==
    /\ shPhase = [l \in Lookups |-> "new"]
    /\ shDue = [l \in Lookups |-> 0]
    /\ shQueue = [k \in Clients |-> <<>>]
    /\ last = [k \in Clients |-> -Interval]
    /\ target = [l \in Lookups |->
                   IF IocTypeOf[l] = "domain-name" THEN "domain" ELSE "host"]
    /\ asked = [k \in Clients |-> [t \in Time |-> 0]]

ShMove(l, phase) == shPhase' = [shPhase EXCEPT ![l] = phase]

\* "Shodan is only useful for network assets (IPs / domains)"
ShTypes == {"ipv4-addr", "ipv6-addr", "domain-name"}

ShStart(l) ==
    /\ shPhase[l] = "new"
    /\ IF "shodan" \in Configured /\ IocTypeOf[l] \in ShTypes
         THEN ShMove(l, "queued") /\ shQueue' = Joined(l, shQueue)
         ELSE ShMove(l, "done") /\ UNCHANGED shQueue
    /\ UNCHANGED <<shDue, last, target, asked>>

------------------------------------------------------------------------------
(* _pace_request                                                            *)

Early(k) == clock - last[k] < Interval

\* It sleeps with the lock held, for what is missing of the interval.
ShSleep(l) ==
    /\ shPhase[l] = "queued"
    /\ Holds(l, shQueue)
    /\ Early(ClientOf[l])
    /\ ShMove(l, "sleeping")
    /\ shDue' = [shDue EXCEPT ![l] = last[ClientOf[l]] + Interval]
    /\ UNCHANGED <<shQueue, last, target, asked>>

\* After the sleep nothing is checked again.
Paced(l) ==
    /\ Holds(l, shQueue)
    /\ \/ shPhase[l] = "queued" /\ ~Early(ClientOf[l])
       \/ shPhase[l] = "sleeping" /\ shDue[l] <= clock

\* Mutant of ShSend: after a sleep the time of the request is not kept.
ShSendUntimed(l) ==
    /\ Paced(l)
    /\ last' = IF shPhase[l] = "sleeping" THEN last
               ELSE [last EXCEPT ![ClientOf[l]] = clock]
    /\ shQueue' = Released(l, shQueue)
    /\ ShMove(l, "sent")
    /\ shDue' = [shDue EXCEPT ![l] = clock + Timeout]
    /\ asked' = [asked EXCEPT ![ClientOf[l]] = OneMore(@)]
    /\ UNCHANGED target

\* Mutant of ShSend: the lock is not left, and a second request waits for it.
ShSendHolding(l) ==
    /\ Paced(l)
    /\ last' = [last EXCEPT ![ClientOf[l]] = clock]
    /\ ShMove(l, "sent")
    /\ shDue' = [shDue EXCEPT ![l] = clock + Timeout]
    /\ asked' = [asked EXCEPT ![ClientOf[l]] = OneMore(@)]
    /\ UNCHANGED <<shQueue, target>>

\* It notes the time, leaves the lock, and sends its request.
ShSend(l) ==
    /\ Paced(l)
    /\ last' = [last EXCEPT ![ClientOf[l]] = clock]
    /\ shQueue' = Released(l, shQueue)
    /\ ShMove(l, "sent")
    /\ shDue' = [shDue EXCEPT ![l] = clock + Timeout]
    /\ asked' = [asked EXCEPT ![ClientOf[l]] = OneMore(@)]
    /\ UNCHANGED target

------------------------------------------------------------------------------
(* The request                                                              *)

\* "Recurse query for the resolved IP address": paced like any other.
ShResolved(l) ==
    /\ shPhase[l] = "sent"
    /\ target[l] = "domain"
    /\ target' = [target EXCEPT ![l] = "host"]
    /\ ShMove(l, "queued")
    /\ shQueue' = Joined(l, shQueue)
    /\ UNCHANGED <<shDue, last, asked>>

\* A report, nothing known, or {} for an error.
ShAnswer(l) ==
    /\ shPhase[l] = "sent"
    /\ ShMove(l, "done")
    /\ UNCHANGED <<shDue, shQueue, last, target, asked>>

ShStep(l) == ShSleep(l) \/ ShSend(l) \/ ShResolved(l) \/ ShAnswer(l)

ShUrgent(l) ==
    \/ shPhase[l] = "queued" /\ Holds(l, shQueue)
    \/ shPhase[l] \in {"sleeping", "sent"} /\ shDue[l] <= clock

------------------------------------------------------------------------------
(* Properties                                                               *)

\* "Includes request spacing" (shodan.py:13): no two requests of one client
\* within an interval, whether their senders slept, queued, or asked a second
\* time for a resolved address.
Spaced ==
    \A k \in Clients, t \in Time :
        t <= clock /\ clock - t < Interval => asked[k][t] <= 1
==============================================================================

--------------------------- MODULE PacingInvariant ---------------------------
(***************************************************************************)
(* The invariant behind LookupInTime: by when each lookup leaves the locks *)
(* and has its answers, if the event loop runs what is due (Prompt).       *)
(***************************************************************************)
EXTENDS ProviderPacing

Waiting == {"queued", "sleeping"}

\* A lock's queue holds the lookups that wait for it, each once.
InLine(queue, phase) ==
    /\ \A k \in Clients : \A p \in DOMAIN queue[k] :
          /\ phase[queue[k][p]] \in Waiting
          /\ ClientOf[queue[k][p]] = k
          /\ \A q \in DOMAIN queue[k] : queue[k][q] = queue[k][p] => q = p
    /\ \A l \in Lookups :
          phase[l] \in Waiting
            => \E p \in DOMAIN queue[ClientOf[l]] : queue[ClientOf[l]][p] = l

\* By when the holder of a lock leaves it: when its sleep is over, or after
\* the longest one if it has not slept yet.
Leaves(now, line, phase, due, wait) ==
    IF phase[Head(line)] = "sleeping" THEN due[Head(line)] ELSE now + wait

\* Only the holder sleeps, no sleep is overdue, and every lookup leaves the
\* lock by its deadline if each one ahead of it takes the longest wait.
OnTime(now, queue, phase, due, wait, deadline) ==
    /\ InLine(queue, phase)
    /\ \A l \in Lookups :
          phase[l] = "sleeping" => /\ Holds(l, queue)
                                   /\ now <= due[l] /\ due[l] <= now + wait
    /\ \A k \in Clients : \A p \in DOMAIN queue[k] :
          Leaves(now, queue[k], phase, due, wait) + (p - 1) * wait
            <= deadline[queue[k][p]]

VtDeadline == [l \in Lookups |-> started[l] + Cardinality(Sharing(l)) * TokenWait(0)]

\* The second request of a domain has a turn of its own.
ShDeadline ==
    [l \in Lookups |->
       LET turn == Cardinality(Sharing(l)) * Interval
       IN  started[l] + turn
             + IF IocTypeOf[l] = "domain-name" /\ target[l] = "host"
                 THEN turn + Timeout ELSE 0]

\* After its sleep the holder finds a whole token, so that it sleeps once.
WakesToToken ==
    \A l \in Lookups :
        vtPhase[l] = "sleeping"
          => LET k == ClientOf[l]
             IN  level[k] + (vtDue[l] - updated[k]) * RateLimit >= Minute

VtAnswered ==
    \A l \in Lookups :
        /\ vtPhase[l] \in {"sent", "backoff", "resent"} => clock <= vtDue[l]
        /\ vtPhase[l] = "sent" => vtDue[l] <= VtDeadline[l] + Timeout
        /\ vtPhase[l] = "backoff" => vtDue[l] <= VtDeadline[l] + Timeout + Backoff
        /\ vtPhase[l] = "resent"
             => vtDue[l] <= VtDeadline[l] + 2 * Timeout + Backoff

ShAnswered ==
    \A l \in Lookups :
        /\ target[l] = "domain" => IocTypeOf[l] = "domain-name"
        /\ shPhase[l] = "sent"
             => clock <= shDue[l] /\ shDue[l] <= ShDeadline[l] + Timeout

TimeInv ==
    /\ OnTime(clock, vtQueue, vtPhase, vtDue, TokenWait(0), VtDeadline)
    /\ WakesToToken
    /\ VtAnswered
    /\ OnTime(clock, shQueue, shPhase, shDue, Interval, ShDeadline)
    /\ ShAnswered
==============================================================================

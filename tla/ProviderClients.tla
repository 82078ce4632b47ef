-------------------------- MODULE ProviderClients --------------------------
(***************************************************************************)
(* What the two provider clients share: the lookups that use them and a    *)
(* clock in ticks.  A lookup is one execute_enrichment (manager.py).       *)
(***************************************************************************)
EXTENDS Integers, Sequences

CONSTANTS
    Lookups,     \* calls of execute_enrichment
    Clients,     \* pairs of a VirusTotalClient and a ShodanClient
    ClientOf,    \* ClientOf[l]: the pair that lookup l uses
    IocTypeOf,   \* IocTypeOf[l]: the ioc_type looked up
    Configured,  \* the providers with a real API key
    Timeout,     \* assumed: no answer takes longer (httpx's 10 seconds bound
                 \* each phase and each chunk, not their sum)
    MaxTime      \* bound: the last instant

ASSUME ClientsAssumption ==
    /\ ClientOf \in [Lookups -> Clients]
    /\ Configured \subseteq {"virustotal", "shodan"}
    /\ Timeout \in Nat
    /\ MaxTime \in Nat

VARIABLE clock

Time == 0..MaxTime

\* A lock's waiters in the order they came (asyncio.Lock is fair), its holder
\* first.
Holds(l, queue) ==
    queue[ClientOf[l]] # <<>> /\ Head(queue[ClientOf[l]]) = l
Joined(l, queue) == [queue EXCEPT ![ClientOf[l]] = Append(@, l)]
Released(l, queue) == [queue EXCEPT ![ClientOf[l]] = Tail(@)]

\* History: how many requests went out at instant t or later, one more now.
OneMore(count) == [t \in Time |-> IF t <= clock THEN count[t] + 1 ELSE count[t]]
==============================================================================

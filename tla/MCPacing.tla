------------------------------- MODULE MCPacing -------------------------------
(* Constants of the pacing runs.                                            *)
EXTENDS PacingInvariant

CONSTANTS domain, address, file, k1, k2, k3

\* One of each kind: both clients twice, both clients, VirusTotal only.
MCLookups == {domain, address, file}
MCIocTypeOf ==
    [l \in Lookups |-> CASE l = domain -> "domain-name"
                         [] l = address -> "ipv4-addr"
                         [] l = file -> "file-sha256"]

\* A client shared by all lookups, as its lock provides for, and one client
\* for each, as execute_enrichment makes them.
MCOneClient == {k1}
MCShared == [l \in Lookups |-> k1]
MCThreeClients == {k1, k2, k3}
MCOwn == [l \in Lookups |-> CASE l = domain -> k1
                              [] l = address -> k2
                              [] l = file -> k3]
==============================================================================

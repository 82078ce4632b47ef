----------------------------- MODULE MCPipeline -----------------------------
(* Constants of the Pipeline runs.                                          *)
EXTENDS OneWorkerInvariant, TLC

CONSTANTS r1, r2, r3, s1, s2, s3, a, b, d1

MCRequests == {r1, r2}
MCSources == {s1, s2}
MCThreeRequests == {r1, r2, r3}
MCSourceOf == [r \in Requests |-> IF r = r1 THEN s1 ELSE s2]
\* Every request from a source of its own.
MCThreeSources == {s1, s2, s3}
MCThreeSourceOf ==
    [r \in Requests |-> IF r = r1 THEN s1 ELSE IF r = r2 THEN s2 ELSE s3]
MCIocs == {a, b}
MCNetworkIocs == {a}

Report(i, c) == [ioc |-> i, confidence |-> c]

\* One or two indicators, in either order, and one no type is found for.
MCFeedBodies == {<<Report(a, 50)>>, <<Report(b, 97), Report(a, 60)>>,
                 <<Report(Unknown, 50), Report(a, 50)>>}
\* The same indicator twice in one feed.
MCRepeatingFeed == {<<Report(a, 50), Report(a, 50)>>}
MCSingleFeed == {<<Report(a, 50)>>}
\* One indicator, and one no type is found for.
MCMixedFeed == {<<Report(Unknown, 50), Report(a, 97)>>}
\* An empty feed too, for the runs that look at ends.
MCSmallFeeds == {<<>>, <<Report(a, 50)>>, <<Report(b, 97), Report(a, 60)>>}

MCSymmetry == Permutations(Workers) \cup Permutations(RowIds)
==============================================================================

-------------------------- MODULE MCScoreLifecycle --------------------------
(* Constants of the ScoreLifecycle run.                                     *)
EXTENDS ScoreLifecycle, TLC

\* e^(-0.05 d) in thousandths, for the first days.
MCDecayFactor == [d \in 0..MaxAge |->
                    CASE d = 0 -> 1000 [] d = 1 -> 951 [] d = 2 -> 905
                      [] d = 3 -> 861  [] d = 4 -> 819]

\* Below the percentage, near its end, and above it.
MCFeedConfidences == {-20, 97, 150}

\* An empty last_analysis_stats, a condemned sample, and a failed call.
MCVtReports == {[malicious |-> 0, suspicious |-> 0, total |-> 0],
                [malicious |-> 60, suspicious |-> 12, total |-> 72],
                NoReport}

\* A host past both caps, and a failed call.
MCShodanReports == {[vulns |-> 4, critical |-> 5], NoReport}

MCSymmetry == Permutations(Workers)
==============================================================================

---------------------------- MODULE MCSearchCache ----------------------------
(* Constants of the search_cache run.                                       *)
EXTENDS SearchCache, TLC

CONSTANTS q1, q2, q3, q4

MCRequests == {q1, q2, q3, q4}

\* Two analysts, an administrator, and a key in neither list.
MCKeyOf == q1 :> "ANALYST_API_KEYS" @@ q2 :> "ANALYST_API_KEYS"
             @@ q3 :> "ADMIN_API_KEYS" @@ q4 :> "none"
==============================================================================

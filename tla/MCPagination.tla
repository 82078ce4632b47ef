----------------------------- MODULE MCPagination -----------------------------
(* Constants of the pagination run.                                         *)
EXTENDS Pagination, TLC

MCSymmetry == Permutations(Indicators)
==============================================================================

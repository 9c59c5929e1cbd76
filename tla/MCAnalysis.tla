----------------------------- MODULE MCAnalysis -----------------------------
(* Requests and users are interchangeable.                                   *)
EXTENDS AnalysisService, TLC

AnalysisSymmetry == Permutations(Requests) \cup Permutations(Users)
=============================================================================

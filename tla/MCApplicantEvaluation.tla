------------------------ MODULE MCApplicantEvaluation ------------------------
(* ApplicantEvaluation with a few requests and workers. *)
EXTENDS ApplicantEvaluation, TLC

Symmetry == Permutations(Requests) \cup Permutations(Workers)

AllFaults == {"stall", "crash", "redis", "db"}
NoFaults == {}
=============================================================================

--------------------------- MODULE MCJobApplicants ---------------------------
(* JobApplicants on one job: its owner, another company, a few users. *)
EXTENDS JobApplicants

CONSTANTS j1, c1, c2

MCJobs == {j1}
MCCompanies == {c1, c2}
MCOwner == [j \in MCJobs |-> c1]
=============================================================================

-------------------------- MODULE MCResumeIngestion --------------------------
(* ResumeIngestion with a few requests and executions. *)
EXTENDS ResumeIngestion, TLC

Symmetry == Permutations(Requests) \cup Permutations(Workers)

(* No fault, every fault but lost locks, every fault. *)
SomeFaults == {{}, {"crash", "redis", "db"}, {"stall", "crash", "redis", "db"}}
NoFaults == {{}}
=============================================================================

---------------------------- MODULE MCDemoCleanup ----------------------------
(* Instances of DemoCleanup for TLC. *)
EXTENDS DemoCleanup, TLC

\* Runs, requests and executions are interchangeable within their sets; keys too.
Symmetry ==
  Permutations(Cleaners) \cup Permutations(Keys) \cup Permutations(Requests)

(* Every fault, and every fault but lost locks and outlived leases. *)
AllFaults == {"crash", "stall", "slow", "storage", "db"}
Environments == {AllFaults, AllFaults \ {"stall", "slow"}}

(* Processes die and the bucket fails. *)
Crashes == {{"crash", "storage"}}
=============================================================================

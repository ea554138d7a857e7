------------------------------- MODULE Hiring -------------------------------
(***************************************************************************)
(* What the job module promises about hiring, whatever the number of       *)
(* concurrent requests: an application appears once, is decided once, and  *)
(* a job hires at most one applicant.  JobApplicants.tla is the detailed   *)
(* specification that implements it.                                       *)
(***************************************************************************)
CONSTANTS Jobs,     \* the job postings
          Users     \* the users who may apply

VARIABLE app        \* app[j][u]: the status of u's application to job j

Statuses == {"NONE", "PENDING", "ACCEPTED", "REJECTED", "COMPLETED"}

Selected == {"ACCEPTED", "COMPLETED"}

(* The users job j has hired. *)
Hires(j) == {u \in Users : app[j][u] \in Selected}

Init == app = [j \in Jobs |-> [u \in Users |-> "NONE"]]

Apply(j, u) ==
  /\ app[j][u] = "NONE"
  /\ app' = [app EXCEPT ![j][u] = "PENDING"]

Reject(j, u) ==
  /\ app[j][u] = "PENDING"
  /\ app' = [app EXCEPT ![j][u] = "REJECTED"]

(* Hiring u rejects in the same step the competitors it found pending; an  *)
(* application that arrives while the hire is being made may stay pending. *)
Hire(j, u, rejected) ==
  /\ Hires(j) = {}
  /\ app[j][u] = "PENDING"
  /\ \A v \in rejected : v # u /\ app[j][v] = "PENDING"
  /\ app' = [app EXCEPT ![j] = [v \in Users |->
                IF v = u THEN "ACCEPTED"
                ELSE IF v \in rejected THEN "REJECTED" ELSE @[v]]]

Complete(j, u) ==
  /\ app[j][u] = "ACCEPTED"
  /\ app' = [app EXCEPT ![j][u] = "COMPLETED"]

Next ==
  \E j \in Jobs, u \in Users :
    \/ Apply(j, u)
    \/ Reject(j, u)
    \/ Complete(j, u)
    \/ \E rejected \in SUBSET Users : Hire(j, u, rejected)

Spec == Init /\ [][Next]_app
=============================================================================

---------------------------- MODULE JobApplicants ----------------------------
(***************************************************************************)
(* Hiring as the code does it: PATCH .../status (confirmJobApplicantAsync),*)
(* POST .../apply (applyJobAsync) and the owner's OPEN/CLOSED edits, run   *)
(* by concurrent HTTP requests over PostgreSQL at READ COMMITTED.          *)
(*                                                                         *)
(* A request is a process that advances one SQL statement at a time: the   *)
(* ORM issues one SELECT per relation level, so the "status context" of a  *)
(* decision is three reads and may be torn.  The accept transaction is     *)
(* four steps under the row lock of the job; what it writes is invisible   *)
(* until it commits, and single-statement updates of a locked row wait.    *)
(***************************************************************************)
EXTENDS Naturals, FiniteSets

CONSTANTS
  Jobs,        \* the job postings
  Users,       \* the users who may apply
  Companies,   \* the users who may call the status endpoint
  Owner,       \* Owner[j]: the company that posted job j
  Requests,    \* slots for the HTTP requests in flight
  NoOne,       \* no request holds the lock
  Indexed      \* whether the partial unique index is deployed

ASSUME OwnerAssumption == Owner \in [Jobs -> Companies]
ASSUME NoOneAssumption == NoOne \notin Requests
ASSUME IndexedAssumption == Indexed \in BOOLEAN

VARIABLES
  app,     \* app[j][u]: committed status of u's application to job j
  job,     \* job[j]: committed posting status and optimistic version
  lock,    \* lock[j]: the request whose open transaction updated job j's row
  req,     \* req[r]: the local state of request r, Idle when the slot is free
  acked    \* history: the requests <<j, u, status>> answered with success

vars == <<app, job, lock, req, acked>>

Statuses == {"NONE", "PENDING", "ACCEPTED", "REJECTED", "COMPLETED"}
Requested == Statuses \ {"NONE"}   \* what a request may ask for
Selected == {"ACCEPTED", "COMPLETED"}
Hires(j) == {u \in Users : app[j][u] \in Selected}
HasAccepted(j) == Hires(j) # {}

AllowedTransitions ==
  {<<"PENDING", "ACCEPTED">>, <<"PENDING", "REJECTED">>, <<"ACCEPTED", "COMPLETED">>}
CanTransition(from, to) == <<from, to>> \in AllowedTransitions

PCs == {"application", "job", "accepted", "transition",
        "claim", "winner", "sweep", "commit", "target", "filled", "insert"}

Idle == [pc |-> "idle"]

RequestState ==
  [pc : PCs, job : Jobs, user : Users, actor : Companies,
   next : Requested, status : Statuses, version : Nat, swept : SUBSET Users]

TypeOK ==
  /\ app \in [Jobs -> [Users -> Statuses]]
  /\ job \in [Jobs -> [status : {"OPEN", "CLOSED"}, version : Nat]]
  /\ lock \in [Jobs -> Requests \cup {NoOne}]
  /\ req \in [Requests -> RequestState \cup {Idle}]
  /\ acked \subseteq Jobs \X Users \X Requested

Init ==
  /\ app = [j \in Jobs |-> [u \in Users |-> "NONE"]]
  /\ job \in [Jobs -> [status : {"OPEN", "CLOSED"}, version : {0}]]
  /\ lock = [j \in Jobs |-> NoOne]
  /\ req = [r \in Requests |-> Idle]
  /\ acked = {}

-----------------------------------------------------------------------------
At(r, pc) == req[r].pc = pc
Goto(r, pc) == req' = [req EXCEPT ![r].pc = pc] /\ UNCHANGED acked

(* The rows an open transaction has updated and not committed: another     *)
(* UPDATE of such a row waits.                                             *)
RowLocked(j, u) ==
  \E r \in Requests :
    /\ req[r].pc \in {"sweep", "commit"}
    /\ req[r].job = j
    /\ u = req[r].user \/ (At(r, "commit") /\ u \in req[r].swept)

(* A request that begins at the statement pc. *)
Begin(r, pc, j, u, c, next) ==
  /\ At(r, "idle")
  /\ req' = [req EXCEPT ![r] =
        [pc |-> pc, job |-> j, user |-> u, actor |-> c, next |-> next,
         status |-> "NONE", version |-> 0, swept |-> {}]]
  /\ UNCHANGED <<app, job, lock, acked>>

(* The answers: success is remembered; 4xx and 5xx promise nothing. *)
Succeed(r) ==
  /\ req' = [req EXCEPT ![r] = Idle]
  /\ acked' = acked \cup {<<req[r].job, req[r].user, req[r].next>>}
Decline(r) == req' = [req EXCEPT ![r] = Idle] /\ UNCHANGED acked

Unlocked(r) == [j \in Jobs |-> IF lock[j] = r THEN NoOne ELSE lock[j]]

-----------------------------------------------------------------------------
(* PATCH /job/applicants/:id/status *)

StartDecision(r, j, u, c, next) ==
  Begin(r, "application", j, u, c, next)

(* getStatusContext reads the application, its job and the job's selected   *)
(* applicants in three SELECTs; the checks follow the last one.  A request *)
(* that an earlier read already condemns is declined there, since the      *)
(* remaining reads change nothing.                                         *)
ReadApplication(r) ==
  LET s == req[r]
      status == app[s.job][s.user] IN
  /\ At(r, "application")
  /\ IF CanTransition(status, s.next)
       THEN req' = [req EXCEPT ![r].status = status, ![r].pc = "job"] /\ UNCHANGED acked
       ELSE Decline(r)
  /\ UNCHANGED <<app, job, lock>>

ReadJob(r) ==
  LET s == req[r] IN
  /\ At(r, "job")
  /\ IF s.actor # Owner[s.job] THEN Decline(r)
     ELSE IF s.next # "ACCEPTED" THEN Goto(r, "transition")
     ELSE req' = [req EXCEPT ![r].version = job[s.job].version, ![r].pc = "accepted"]
          /\ UNCHANGED acked
  /\ UNCHANGED <<app, job, lock>>

ReadAccepted(r) ==
  /\ At(r, "accepted")
  /\ IF HasAccepted(req[r].job) THEN Decline(r) ELSE Goto(r, "claim")
  /\ UNCHANGED <<app, job, lock>>

MutTransitionStatusUnconditional(r) ==
  LET s == req[r] IN
  /\ At(r, "transition")
  /\ ~RowLocked(s.job, s.user)
  /\ app' = [app EXCEPT ![s.job][s.user] = s.next]
  /\ Succeed(r)
  /\ UNCHANGED <<job, lock>>

(* transitionStatus: one conditional UPDATE. *)
TransitionStatus(r) ==
  LET s == req[r] IN
  /\ At(r, "transition")
  /\ ~RowLocked(s.job, s.user)
  /\ IF app[s.job][s.user] = s.status
       THEN app' = [app EXCEPT ![s.job][s.user] = s.next] /\ Succeed(r)
       ELSE UNCHANGED app /\ Decline(r)
  /\ UNCHANGED <<job, lock>>

-----------------------------------------------------------------------------
(* acceptApplicantAndRejectOthers: one transaction of three UPDATEs. *)

MutClaimJobUnversioned(r) ==
  LET s == req[r] IN
  /\ At(r, "claim")
  /\ lock[s.job] = NoOne
  /\ lock' = [lock EXCEPT ![s.job] = r] /\ Goto(r, "winner")
  /\ UNCHANGED <<app, job>>

(* UPDATE job SET version = version + 1 WHERE version = <the version read>: *)
(* waits for the row, then holds it until the transaction ends.             *)
ClaimJob(r) ==
  LET s == req[r] IN
  /\ At(r, "claim")
  /\ lock[s.job] = NoOne
  /\ IF job[s.job].version = s.version
       THEN lock' = [lock EXCEPT ![s.job] = r] /\ Goto(r, "winner")
       ELSE UNCHANGED lock /\ Decline(r)
  /\ UNCHANGED <<app, job>>

MutUpdateWinnerUncounted(r) ==
  /\ At(r, "winner")
  /\ Goto(r, "sweep")
  /\ UNCHANGED <<app, job, lock>>

(* The winner's conditional UPDATE.  No row matched, or the unique index   *)
(* refuses a second selected application: the transaction is rolled back.  *)
UpdateWinner(r) ==
  LET s == req[r] IN
  /\ At(r, "winner")
  /\ IF app[s.job][s.user] = s.status /\ (Indexed => ~HasAccepted(s.job))
       THEN Goto(r, "sweep") /\ UNCHANGED lock
       ELSE Decline(r) /\ lock' = Unlocked(r)
  /\ UNCHANGED <<app, job>>

(* The competitors' UPDATE takes those that have the winner's old status   *)
(* in this statement's snapshot.                                           *)
RejectOthers(r) ==
  LET s == req[r] IN
  /\ At(r, "sweep")
  /\ req' = [req EXCEPT ![r].pc = "commit",
        ![r].swept = {v \in Users \ {s.user} : app[s.job][v] = s.status}]
  /\ UNCHANGED <<app, job, lock, acked>>

(* What the transaction makes of the applications of its job. *)
Settled(r) ==
  [v \in Users |-> IF v = req[r].user THEN "ACCEPTED"
                   ELSE IF v \in req[r].swept THEN "REJECTED"
                   ELSE app[req[r].job][v]]

MutCommitWithoutVersion(r) ==
  LET s == req[r] IN
  /\ At(r, "commit")
  /\ app' = [app EXCEPT ![s.job] = Settled(r)]
  /\ UNCHANGED job
  /\ lock' = Unlocked(r)
  /\ Succeed(r) \/ Decline(r)

(* COMMIT; the connection may be lost before the caller learns of it. *)
Commit(r) ==
  LET s == req[r] IN
  /\ At(r, "commit")
  /\ app' = [app EXCEPT ![s.job] = Settled(r)]
  /\ job' = [job EXCEPT ![s.job].version = @ + 1]
  /\ lock' = Unlocked(r)
  /\ Succeed(r) \/ Decline(r)

-----------------------------------------------------------------------------
(* POST /job/:id/apply *)

(* JobApplicant.create: terms it refuses end the request at CheckFilled;   *)
(* any other application starts here.                                      *)
NewStatus == "PENDING"

StartApply(r, j, u) ==
  Begin(r, "target", j, u, Owner[j], "PENDING")

(* getApplicationTarget, first SELECT: a job that is not open is refused. *)
ReadTarget(r) ==
  /\ At(r, "target")
  /\ IF job[req[r].job].status = "OPEN" THEN Goto(r, "filled") ELSE Decline(r)
  /\ UNCHANGED <<app, job, lock>>

(* getApplicationTarget, second SELECT, then the checks of the resume and  *)
(* of the proposed terms, which may refuse.                                *)
CheckFilled(r) ==
  /\ At(r, "filled")
  /\ IF HasAccepted(req[r].job)
       THEN Decline(r)
       ELSE Decline(r) \/ Goto(r, "insert")
  /\ UNCHANGED <<app, job, lock>>

MutAddJobApplicantStatus(r) ==
  LET s == req[r] IN
  /\ At(r, "insert")
  /\ IF app[s.job][s.user] = "NONE"
       THEN app' = [app EXCEPT ![s.job][s.user] = job[s.job].status] /\ Succeed(r)
       ELSE UNCHANGED app /\ Decline(r)
  /\ UNCHANGED <<job, lock>>

(* addJobApplicant: the INSERT needs no lock the accept transaction holds; *)
(* a second application of the user breaks the unique key and answers 500. *)
AddJobApplicant(r) ==
  LET s == req[r] IN
  /\ At(r, "insert")
  /\ IF app[s.job][s.user] = "NONE"
       THEN app' = [app EXCEPT ![s.job][s.user] = NewStatus] /\ Succeed(r)
       ELSE UNCHANGED app /\ Decline(r)
  /\ UNCHANGED <<job, lock>>

-----------------------------------------------------------------------------
(* PATCH /job/:id with a status: writes the posting's status, not its      *)
(* version, and waits for an accept transaction that holds the row.        *)
UpdateJob(j, status) ==
  /\ lock[j] = NoOne
  /\ job' = [job EXCEPT ![j].status = status]
  /\ UNCHANGED <<app, lock, req, acked>>

MutFailHoldingLock(r) ==
  /\ ~At(r, "idle")
  /\ Decline(r)
  /\ UNCHANGED <<app, job, lock>>

(* A database error, the transaction's time limit or the death of the      *)
(* process ends a request anywhere; its open transaction rolls back.       *)
Fail(r) ==
  /\ ~At(r, "idle")
  /\ Decline(r)
  /\ lock' = Unlocked(r)
  /\ UNCHANGED <<app, job>>

-----------------------------------------------------------------------------
Advance(r) ==
  \/ ReadApplication(r) \/ ReadJob(r) \/ ReadAccepted(r) \/ TransitionStatus(r)
  \/ ClaimJob(r) \/ UpdateWinner(r) \/ RejectOthers(r) \/ Commit(r)
  \/ ReadTarget(r) \/ CheckFilled(r) \/ AddJobApplicant(r)

Next ==
  \/ \E r \in Requests : Advance(r) \/ Fail(r)
  \/ \E r \in Requests, j \in Jobs, u \in Users :
       \/ StartApply(r, j, u)
       \/ \E c \in Companies, next \in Requested : StartDecision(r, j, u, c, next)
  \/ \E j \in Jobs, status \in {"OPEN", "CLOSED"} : UpdateJob(j, status)

Spec == Init /\ [][Next]_vars

(* The event loop keeps running requests, and PostgreSQL queues the waiters *)
(* of a row lock, so a claim that keeps finding the row free gets it.       *)
Fairness == \A r \in Requests : WF_vars(Advance(r)) /\ SF_vars(ClaimJob(r))
                                /\ SF_vars(TransitionStatus(r))
FairSpec == Spec /\ Fairness

-----------------------------------------------------------------------------
(* A job never has two selected applicants, with or without the index:     *)
(* the version check of acceptApplicantAndRejectOthers is enough.          *)
OneHire == \A j \in Jobs : \A u, v \in Hires(j) : u = v

(* The optimistic version counts committed hires: an accept that rolls     *)
(* back leaves no bump behind, and no hire goes uncounted.                 *)
VersionCountsHires == \A j \in Jobs : job[j].version = IF HasAccepted(j) THEN 1 ELSE 0

(* A decision that passed its checks on a torn context still cannot hire   *)
(* twice: whenever the version it read is the current one, nobody has been *)
(* accepted since.                                                         *)
VersionGuardsHire ==
  \A r \in Requests :
    At(r, "claim") /\ req[r].version = job[req[r].job].version
      => ~HasAccepted(req[r].job)

(* A request answered with success is never undone by another one: the     *)
(* application still has the status that was acknowledged, or one that     *)
(* legally follows it.                                                     *)
AcknowledgedDecision ==
  \A j \in Jobs, u \in Users, next \in Requested : <<j, u, next>> \in acked =>
    \/ app[j][u] = next
    \/ CanTransition(next, app[j][u])
    \/ next = "PENDING" /\ app[j][u] = "COMPLETED"

(* The detailed steps implement the one-step decisions of Hiring.tla. *)
Abstract == INSTANCE Hiring WITH Jobs <- Jobs, Users <- Users, app <- app
ImplementsHiring == Abstract!Spec

(* Every request is answered: nobody waits for a row lock for ever. *)
RequestsAnswered == \A r \in Requests : ~At(r, "idle") ~> At(r, "idle")

(* What docs/api/job.md says of an accept: it turns the other pending      *)
(* applications of the job into rejected ones in the transaction.          *)
AcceptLeavesNonePending ==
  [][\A j \in Jobs : job'[j].version # job[j].version =>
        \A u \in Users : app'[j][u] # "PENDING"]_vars
=============================================================================

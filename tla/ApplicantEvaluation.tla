------------------------- MODULE ApplicantEvaluation -------------------------
(***************************************************************************)
(* One applicant evaluation: its database row, the BullMQ job that carries *)
(* the same id, the HTTP requests that ask for it (evaluateApplicantAsync) *)
(* and the workers that run it (ApplicantEvaluationProcessingService).     *)
(*                                                                         *)
(* Row and job live in different stores and no step changes both: a request*)
(* prepares the row and then talks to the queue command by command; a      *)
(* worker writes its verdict to the row and only then settles the job.     *)
(* The job's own steps are those of QueueJob.  Evaluations with other ids  *)
(* share no state with this one.                                           *)
(***************************************************************************)
EXTENDS QueueJob

CONSTANTS
  Requests,    \* slots for POST .../evaluate requests in flight
  Demo,        \* the applicant is a demo identity
  AiPerSession,\* the LLM runs a demo session may be charged
  Faults       \* what the environment may do: see below

ASSUME DemoAssumption == Demo \in BOOLEAN /\ AiPerSession \in Nat

(* "stall": a live worker misses its lock renewals; "crash": a process     *)
(* dies; "redis", "db": a command or statement fails, with or without      *)
(* having been applied.                                                    *)
ASSUME FaultsAssumption == Faults \subseteq {"stall", "crash", "redis", "db"}

VARIABLES
  status,      \* the row's status, NONE before the first request
  verdict,     \* the execution whose result the row holds, NoWorker if none
  request,     \* request[r]: where request r is
  worker,      \* worker[w]: where execution w is and the attempt it was given
  session,     \* the demo session: revoked or expired, LLM runs charged to it
  calls        \* history: the LLM calls made for a demo session

vars == <<status, verdict, job, request, worker, session, calls>>

Attempts == IF Demo THEN 1 ELSE 3

Claimable == {"PENDING", "PROCESSING"}
Terminal == {"COMPLETED", "FAILED"}

TypeOK ==
  /\ status \in {"NONE", "PENDING", "PROCESSING", "COMPLETED", "FAILED"}
  /\ verdict \in Workers \cup {NoWorker}
  /\ job \in JobsOf(Attempts)
  /\ request \in [Requests -> {"idle", "enqueue", "remove", "add", "retry", "reprocess", "refused"}]
  /\ worker \in [Workers ->
       [at : {"idle", "claim", "evaluate", "complete", "failure", "ok", "err"}, made : 0..Attempts]]
  /\ session \in [revoked : BOOLEAN, aiRuns : Nat]
  /\ calls \in Nat

Init ==
  /\ status = "NONE"
  /\ verdict = NoWorker
  /\ job = NoJob
  /\ request = [r \in Requests |-> "idle"]
  /\ worker = [w \in Workers |-> [at |-> "idle", made |-> 0]]
  /\ session = [revoked |-> FALSE, aiRuns |-> 0]
  /\ calls = 0

-----------------------------------------------------------------------------
(* consumeDemoAi: refused for a session that is over or has no runs left. *)
Charge ==
  IF Demo
    THEN /\ ~session.revoked /\ session.aiRuns < AiPerSession
         /\ session' = [session EXCEPT !.aiRuns = @ + 1]
    ELSE UNCHANGED session

Answered(r) == request' = [request EXCEPT ![r] = "idle"]
Asks(r, at) == request' = [request EXCEPT ![r] = at]

MutPrepareUncharged(r) ==
  /\ request[r] = "idle"
  /\ \/ status \in {"NONE", "FAILED"} /\ status' = "PENDING"
        /\ Asks(r, IF status = "NONE" THEN "enqueue" ELSE "retry")
        /\ IF status = "NONE" THEN Charge ELSE UNCHANGED session
     \/ status = "PENDING" /\ UNCHANGED <<status, session>> /\ Asks(r, "enqueue")
  /\ UNCHANGED <<verdict, job, worker, calls>>

(* prepare: one transaction, serialized by the update of the application.  *)
(* A new or failed row is pending again, and charged to a demo session; a  *)
(* request that finds the row in progress or completed, or is refused by   *)
(* the session's checks, answers without a further effect.                 *)
Prepare(r) ==
  /\ request[r] = "idle"
  /\ \/ /\ status \in {"NONE", "FAILED"}
        /\ Charge
        /\ status' = "PENDING"
        /\ Asks(r, IF status = "NONE" THEN "enqueue" ELSE "retry")
     \/ status = "PENDING" /\ UNCHANGED <<status, session>> /\ Asks(r, "enqueue")
     \/ UNCHANGED <<status, session, request>>
  /\ UNCHANGED <<verdict, job, worker, calls>>

(* enqueue: a job that is not finished is left alone. *)
Enqueue(r) ==
  /\ request[r] = "enqueue"
  /\ IF job.at = "none" THEN Asks(r, "add")
     ELSE IF job.at \in Finished THEN Asks(r, "remove")
     ELSE Answered(r)
  /\ UNCHANGED <<status, verdict, job, worker, session, calls>>

Remove(r) ==
  /\ request[r] = "remove"
  /\ RemoveJob
  /\ Asks(r, "add")
  /\ UNCHANGED <<status, verdict, worker, session, calls>>

Add(r) ==
  /\ request[r] = "add"
  /\ AddJob
  /\ Answered(r) \/ ("redis" \in Faults /\ Asks(r, "refused"))
  /\ UNCHANGED <<status, verdict, worker, session, calls>>

MutRetryWithoutDemoWait(r) ==
  /\ request[r] = "retry"
  /\ \/ job.at = "none" /\ Asks(r, "add")
     \/ job.at = "failed" /\ Asks(r, "reprocess")
     \/ job.at = "completed" /\ Asks(r, "remove")
     \/ job.at \in {"waiting", "delayed", "active"} /\ Answered(r)
  /\ UNCHANGED <<status, verdict, job, worker, session, calls>>

(* retry: for a demo identity an active job is polled until a deadline, and*)
(* active, completed or vanished since it was looked up are errors; for    *)
(* others an active job is left alone.                                     *)
Retry(r) ==
  /\ request[r] = "retry"
  /\ \/ job.at = "none" /\ (Asks(r, "add") \/ (Demo /\ Asks(r, "refused")))
     \/ job.at = "failed" /\ Asks(r, "reprocess")
     \/ job.at \in {"waiting", "delayed"} /\ Answered(r)
     \/ job.at = "active" /\ IF Demo THEN Asks(r, "refused") ELSE Answered(r)
     \/ job.at = "completed" /\ IF Demo THEN Asks(r, "refused") ELSE Asks(r, "remove")
  /\ UNCHANGED <<status, verdict, job, worker, session, calls>>

(* existingJob.retry(): refused unless the job is still in the failed set. *)
Reprocess(r) ==
  /\ request[r] = "reprocess"
  /\ IF job.at = "failed"
       THEN /\ job' = [job EXCEPT !.at = "waiting"]
            /\ Answered(r) \/ ("redis" \in Faults /\ Asks(r, "refused"))
       ELSE UNCHANGED job /\ Asks(r, "refused")
  /\ UNCHANGED <<status, verdict, worker, session, calls>>

(* The queue failed the request: a demo evaluation is marked failed, any   *)
(* other stays as it is; the answer is an error.                           *)
Refused(r) ==
  /\ request[r] = "refused"
  /\ \/ status' = IF Demo /\ status \in Claimable THEN "FAILED" ELSE status
     \/ "db" \in Faults /\ UNCHANGED status
  /\ Answered(r)
  /\ UNCHANGED <<verdict, job, worker, session, calls>>

RedisFails(r) ==
  /\ "redis" \in Faults
  /\ request[r] \in {"enqueue", "remove", "add", "retry", "reprocess"}
  /\ Asks(r, "refused")
  /\ UNCHANGED <<status, verdict, job, worker, session, calls>>

CrashRequest(r) ==
  /\ "crash" \in Faults
  /\ request[r] # "idle"
  /\ Answered(r)
  /\ UNCHANGED <<status, verdict, job, worker, session, calls>>

-----------------------------------------------------------------------------
(* The workers. *)

WorkerGoes(w, at) == worker' = [worker EXCEPT ![w].at = at]

(* A free worker takes the job, its lock and the number of failed attempts.*)
Take(w) ==
  /\ worker[w].at = "idle"
  /\ HandOut(w)
  /\ worker' = [worker EXCEPT ![w] = [at |-> "claim", made |-> job.made]]
  /\ UNCHANGED <<status, verdict, request, session, calls>>

(* claimForProcessing: not an exclusive lock, a PROCESSING row is claimed  *)
(* again.  A terminal row or a revoked session leaves nothing to do; inputs*)
(* that are missing or do not match their hashes fail the attempt.         *)
ClaimForProcessing(w) ==
  /\ worker[w].at = "claim"
  /\ IF status \in Claimable /\ ~session.revoked
       THEN \/ /\ status' = "PROCESSING"
               /\ WorkerGoes(w, "evaluate") \/ ("db" \in Faults /\ WorkerGoes(w, "failure"))
            \/ UNCHANGED status /\ WorkerGoes(w, "failure")
       ELSE UNCHANGED status /\ WorkerGoes(w, "ok")
  /\ UNCHANGED <<verdict, job, request, session, calls>>

(* The LLM call and the validation of what it returned. *)
Evaluate(w) ==
  /\ worker[w].at = "evaluate"
  /\ WorkerGoes(w, "complete") \/ WorkerGoes(w, "failure")
  /\ calls' = IF Demo THEN calls + 1 ELSE calls
  /\ UNCHANGED <<status, verdict, job, request, session>>

MutMarkCompletedUnconditional(w) ==
  /\ worker[w].at = "complete"
  /\ status' = "COMPLETED" /\ verdict' = w
  /\ WorkerGoes(w, "ok")
  /\ UNCHANGED <<job, request, session, calls>>

(* markCompleted: only a row in PROCESSING takes the result. *)
MarkCompleted(w) ==
  /\ worker[w].at = "complete"
  /\ IF status = "PROCESSING"
       THEN status' = "COMPLETED" /\ verdict' = w
       ELSE UNCHANGED <<status, verdict>>
  /\ WorkerGoes(w, "ok") \/ ("db" \in Faults /\ WorkerGoes(w, "failure"))
  /\ UNCHANGED <<job, request, session, calls>>

IsFinalAttempt(w) == worker[w].made + 1 >= Attempts

(* handleFailure: markFailed on the final attempt, markPending before; both*)
(* clear the result.  A row that is terminal already ends the job quietly. *)
HandleFailure(w) ==
  /\ worker[w].at = "failure"
  /\ IF status \in Claimable
       THEN /\ status' = IF IsFinalAttempt(w) THEN "FAILED" ELSE "PENDING"
            /\ verdict' = NoWorker
            /\ WorkerGoes(w, "err")
       ELSE /\ UNCHANGED <<status, verdict>>
            /\ WorkerGoes(w, "ok")
  /\ UNCHANGED <<job, request, session, calls>>

(* A statement fails without effect: the claim and the completion turn into*)
(* a failure of the attempt, a failure that cannot be recorded is reported *)
(* to the queue alone.                                                     *)
DatabaseFails(w) ==
  /\ "db" \in Faults
  /\ \/ worker[w].at \in {"claim", "complete"} /\ WorkerGoes(w, "failure")
     \/ worker[w].at = "failure" /\ WorkerGoes(w, "err")
  /\ UNCHANGED <<status, verdict, job, request, session, calls>>

WorkerIdle(w) == worker' = [worker EXCEPT ![w] = [at |-> "idle", made |-> 0]]

MutSettleAgain(w) ==
  /\ worker[w].at \in {"ok", "err"}
  /\ WorkerIdle(w)
  /\ Report(w, worker[w].at = "ok", FALSE, Attempts + 1)
  /\ UNCHANGED <<status, verdict, request, session, calls>>

(* The processor returns or throws, and the queue learns the outcome. *)
Settle(w) ==
  /\ worker[w].at \in {"ok", "err"}
  /\ WorkerIdle(w)
  /\ Report(w, worker[w].at = "ok", IsFinalAttempt(w), Attempts)
  /\ UNCHANGED <<status, verdict, request, session, calls>>

CrashWorker(w) ==
  /\ "crash" \in Faults
  /\ worker[w].at # "idle"
  /\ WorkerIdle(w)
  /\ UNCHANGED <<status, verdict, job, request, session, calls>>

-----------------------------------------------------------------------------
(* BullMQ on its own. *)

Promote == Backoff /\ UNCHANGED <<status, verdict, request, worker, session, calls>>

Stall ==
  /\ LoseLock
  /\ "stall" \in Faults \/ worker[job.holder].at = "idle"
  /\ UNCHANGED <<status, verdict, request, worker, session, calls>>

Expire == Retain /\ UNCHANGED <<status, verdict, request, worker, session, calls>>

(* The demo session is revoked, or its time is over. *)
Revoke ==
  /\ Demo /\ ~session.revoked
  /\ session' = [session EXCEPT !.revoked = TRUE]
  /\ UNCHANGED <<status, verdict, job, request, worker, calls>>

-----------------------------------------------------------------------------
RequestStep(r) == Enqueue(r) \/ Remove(r) \/ Add(r) \/ Retry(r) \/ Reprocess(r) \/ Refused(r)

WorkerStep(w) ==
  Take(w) \/ ClaimForProcessing(w) \/ Evaluate(w) \/ MarkCompleted(w) \/ HandleFailure(w) \/ Settle(w)

Next ==
  \/ \E r \in Requests : Prepare(r) \/ RequestStep(r) \/ RedisFails(r) \/ CrashRequest(r)
  \/ \E w \in Workers : WorkerStep(w) \/ DatabaseFails(w) \/ CrashWorker(w)
  \/ Promote \/ Stall \/ Expire \/ Revoke

Spec == Init /\ [][Next]_vars

(* Requests and executions are promises the event loop keeps running, some *)
(* free worker takes a waiting job, backoffs elapse.                       *)
Fairness ==
  /\ \A r \in Requests : WF_vars(RequestStep(r))
  /\ \A w \in Workers : WF_vars(ClaimForProcessing(w) \/ Evaluate(w) \/ MarkCompleted(w)
                                \/ HandleFailure(w) \/ Settle(w))
  /\ WF_vars(\E w \in Workers : Take(w))
  /\ WF_vars(Promote) /\ WF_vars(Stall)

FairSpec == Spec /\ Fairness

-----------------------------------------------------------------------------
(* The result of a completed evaluation is never replaced, cleared or      *)
(* recomputed, whatever late or duplicated execution reports afterwards.   *)
CompletedIsFinal ==
  [][status = "COMPLETED" => status' = "COMPLETED" /\ verdict' = verdict]_vars

(* A score is shown for completed evaluations and for no other. *)
ResultOnlyWhenCompleted == verdict # NoWorker <=> status = "COMPLETED"

(* The attempt an execution believes in is the attempt the queue counts,   *)
(* as long as it holds the job: that is what makes "final" final.          *)
AttemptsAgree ==
  job.at = "active" /\ worker[job.holder].at # "idle"
    => worker[job.holder].made = job.made

(* Whatever the requests do to the queue, the LLM is not called twice at a *)
(* time, unless a live worker lost its lock.                               *)
SoleExecution ==
  "stall" \notin Faults =>
    \A v, w \in Workers : worker[v].at # "idle" /\ worker[w].at # "idle" => v = w

WillRun ==
  \/ job.at \in {"waiting", "delayed"}
  \/ \E w \in Workers :
       \/ worker[w].at \in {"claim", "evaluate", "complete", "failure"}
       \/ worker[w].at = "err" /\ job.holder = w /\ ~IsFinalAttempt(w)

(* What the comment above isFinished fears does not happen: no answered    *)
(* request leaves the evaluation pending with nothing to run it.           *)
PendingIsQueued ==
  status \in Claimable /\ (\A r \in Requests : request[r] = "idle") /\ ~session.revoked
    => WillRun

(* Every prepared evaluation is decided, unless its session ends. *)
EventuallyDecided == status = "PENDING" ~> (status \in Terminal \/ session.revoked)

(* A demo session never gets an LLM call it was not charged for. *)
CallsAreCharged == calls <= session.aiRuns
=============================================================================

---------------------- MODULE ApplicantEvaluationProofs ----------------------
(***************************************************************************)
(* Proofs about ApplicantEvaluation for every number of requests and       *)
(* workers: what holds under all faults, what holds without stalls, and    *)
(* that a demo evaluation is neither lost nor run without being charged    *)
(* when nothing fails.                                                     *)
(***************************************************************************)
EXTENDS ApplicantEvaluation, TLAPS

RequestPlaces == {"idle", "enqueue", "remove", "add", "retry", "reprocess", "refused"}
WorkerPlaces == {"idle", "claim", "evaluate", "complete", "failure", "ok", "err"}

(* The job is active exactly while somebody holds its lock. *)
HolderInv == job.at = "active" <=> job.holder \in Workers

IInv ==
  /\ TypeOK
  /\ HolderInv
  /\ ResultOnlyWhenCompleted
  /\ AttemptsAgree

-----------------------------------------------------------------------------
(* How a step moves one execution or one request. *)
LEMMA WorkerMoves ==
  ASSUME TypeOK, NEW w \in Workers, NEW at \in WorkerPlaces, WorkerGoes(w, at)
  PROVE  /\ worker' \in [Workers -> [at : WorkerPlaces, made : 0..Attempts]]
         /\ worker'[w].at = at /\ worker'[w].made = worker[w].made
         /\ \A v \in Workers \ {w} : worker'[v] = worker[v]
  BY DEF TypeOK, JobsOf, WorkerGoes, WorkerPlaces

LEMMA WorkerEnds ==
  ASSUME TypeOK, NEW w \in Workers, WorkerIdle(w)
  PROVE  /\ worker' \in [Workers -> [at : WorkerPlaces, made : 0..Attempts]]
         /\ worker'[w].at = "idle"
         /\ \A v \in Workers \ {w} : worker'[v] = worker[v]
  BY DEF TypeOK, JobsOf, WorkerIdle, WorkerPlaces, Attempts

LEMMA RequestMoves ==
  ASSUME TypeOK, NEW r \in Requests, NEW at \in RequestPlaces, Asks(r, at)
  PROVE  /\ request' \in [Requests -> RequestPlaces]
         /\ request'[r] = at
         /\ \A q \in Requests \ {r} : request'[q] = request[q]
  BY DEF TypeOK, JobsOf, Asks, RequestPlaces

LEMMA RequestEnds ==
  ASSUME TypeOK, NEW r \in Requests, Answered(r)
  PROVE  /\ request' \in [Requests -> RequestPlaces]
         /\ request'[r] = "idle"
         /\ \A q \in Requests \ {r} : request'[q] = request[q]
  BY DEF TypeOK, JobsOf, Answered, RequestPlaces

-----------------------------------------------------------------------------
LEMMA InitIInv == Init => IInv
  BY NoWorkerAssumption DEF Init, IInv, TypeOK, JobsOf, HolderInv, ResultOnlyWhenCompleted,
     AttemptsAgree, NoJob, Attempts, MaxStalled

(* The requests: they never touch an active job. *)
LEMMA RequestKeepsIInv ==
  ASSUME IInv, NEW r \in Requests,
         Prepare(r) \/ RequestStep(r) \/ RedisFails(r) \/ CrashRequest(r)
  PROVE  IInv'
  <1>a. TypeOK /\ request \in [Requests -> RequestPlaces]
    BY DEF IInv, TypeOK, JobsOf, RequestPlaces
  <1>b. UNCHANGED <<verdict, worker, calls>>
    BY DEF Prepare, RequestStep, RedisFails, CrashRequest, Enqueue, Remove, Add, Retry,
           Reprocess, Refused
  <1>1. request' \in [Requests -> RequestPlaces]
    <2>1. \/ Answered(r) \/ UNCHANGED request
          \/ \E at \in RequestPlaces : Asks(r, at)
      BY DEF Prepare, RequestStep, RedisFails, CrashRequest, Enqueue, Remove, Add, Retry,
             Reprocess, Refused, RequestPlaces
    <2> QED
      BY <1>a, <2>1, RequestMoves, RequestEnds
  <1>2. /\ job' \in [at : {"none", "waiting", "delayed", "active", "completed", "failed"},
                     made : 0..Attempts, stalls : 0..MaxStalled, holder : Workers \cup {NoWorker}]
        /\ job'.at = "active" <=> job'.holder \in Workers
        /\ job'.at = "active" => job' = job
    <2>1. CASE UNCHANGED job
      BY <2>1 DEF IInv, TypeOK, JobsOf, HolderInv
    <2>2. CASE Remove(r) \/ Add(r)
      BY <2>2, NoWorkerAssumption
         DEF Remove, Add, RemoveJob, AddJob, NoJob, IInv, TypeOK, JobsOf, HolderInv, Attempts,
             MaxStalled
    <2>3. CASE Reprocess(r) /\ job.at = "failed"
      BY <2>3 DEF Reprocess, IInv, TypeOK, JobsOf, HolderInv
    <2> QED
      BY <2>1, <2>2, <2>3 DEF Prepare, RequestStep, RedisFails, CrashRequest, Enqueue, Retry,
                              Reprocess, Refused
  <1>3. /\ status' \in {"NONE", "PENDING", "PROCESSING", "COMPLETED", "FAILED"}
        /\ status' = "COMPLETED" <=> status = "COMPLETED"
    <2>1. CASE UNCHANGED status
      BY <2>1 DEF IInv, TypeOK, JobsOf
    <2>2. CASE status' = "PENDING" /\ status \in {"NONE", "FAILED"}
      BY <2>2
    <2>3. CASE status' = "FAILED" /\ status \in Claimable
      BY <2>3 DEF Claimable
    <2>4. CASE Prepare(r)
      BY <2>1, <2>2, <2>4 DEF Prepare
    <2>5. CASE Refused(r)
      BY <2>1, <2>3, <2>5 DEF Refused
    <2> QED
      BY <2>1, <2>4, <2>5 DEF RequestStep, RedisFails, CrashRequest, Enqueue, Remove, Add,
                              Retry, Reprocess
  <1>4. session' \in [revoked : BOOLEAN, aiRuns : Nat]
    <2>1. CASE UNCHANGED session
      BY <2>1 DEF IInv, TypeOK, JobsOf
    <2>2. CASE session' = [session EXCEPT !.aiRuns = @ + 1]
      BY <2>2 DEF IInv, TypeOK, JobsOf
    <2> QED
      BY <2>1, <2>2 DEF Prepare, Charge, RequestStep, RedisFails, CrashRequest, Enqueue, Remove,
                        Add, Retry, Reprocess, Refused
  <1>5. TypeOK'
    BY <1>a, <1>b, <1>1, <1>2, <1>3, <1>4 DEF TypeOK, JobsOf, RequestPlaces
  <1>6. HolderInv' /\ AttemptsAgree'
    BY <1>b, <1>2 DEF IInv, HolderInv, AttemptsAgree
  <1>7. ResultOnlyWhenCompleted'
    BY <1>b, <1>3 DEF IInv, ResultOnlyWhenCompleted
  <1> QED
    BY <1>5, <1>6, <1>7 DEF IInv

(* The executions. *)
LEMMA WorkerKeepsIInv ==
  ASSUME IInv, NEW w \in Workers, WorkerStep(w) \/ DatabaseFails(w) \/ CrashWorker(w)
  PROVE  IInv'
  <1>a. TypeOK /\ HolderInv /\ AttemptsAgree
    BY DEF IInv
  <1>b. UNCHANGED <<request, session>> /\ calls' \in Nat
    BY <1>a DEF TypeOK, JobsOf, WorkerStep, DatabaseFails, CrashWorker, Take, HandOut,
                ClaimForProcessing, Evaluate,
           MarkCompleted, HandleFailure, Settle, Report
  <1>1. ASSUME NEW at \in WorkerPlaces, WorkerGoes(w, at), worker[w].at # "idle", UNCHANGED job
        PROVE  /\ worker' \in [Workers -> [at : WorkerPlaces, made : 0..Attempts]]
               /\ HolderInv' /\ AttemptsAgree'
    <2>1. /\ worker' \in [Workers -> [at : WorkerPlaces, made : 0..Attempts]]
          /\ worker'[w].made = worker[w].made
          /\ \A v \in Workers \ {w} : worker'[v] = worker[v]
      BY <1>a, <1>1, WorkerMoves
    <2>2. HolderInv'
      BY <1>a, <1>1 DEF HolderInv
    <2>3. AttemptsAgree'
      BY <1>a, <1>1, <2>1 DEF HolderInv, AttemptsAgree
    <2> QED
      BY <2>1, <2>2, <2>3
  <1>2. ASSUME WorkerIdle(w), UNCHANGED job
        PROVE  /\ worker' \in [Workers -> [at : WorkerPlaces, made : 0..Attempts]]
               /\ HolderInv' /\ AttemptsAgree'
    <2>1. /\ worker' \in [Workers -> [at : WorkerPlaces, made : 0..Attempts]]
          /\ worker'[w].at = "idle"
          /\ \A v \in Workers \ {w} : worker'[v] = worker[v]
      BY <1>a, <1>2, WorkerEnds
    <2> QED
      BY <1>a, <1>2, <2>1 DEF HolderInv, AttemptsAgree
  <1>3. CASE Take(w)
    <2>1. /\ worker' \in [Workers -> [at : WorkerPlaces, made : 0..Attempts]]
          /\ worker'[w].made = job.made
      BY <1>a, <1>3 DEF Take, HandOut, TypeOK, JobsOf, WorkerPlaces
    <2>2. /\ job' \in [at : {"none", "waiting", "delayed", "active", "completed", "failed"},
                       made : 0..Attempts, stalls : 0..MaxStalled, holder : Workers \cup {NoWorker}]
          /\ job'.at = "active" /\ job'.holder = w /\ job'.made = job.made
      BY <1>a, <1>3 DEF Take, HandOut, TypeOK, JobsOf
    <2>3. UNCHANGED <<status, verdict>>
      BY <1>3 DEF Take, HandOut
    <2> QED
      BY <1>b, <2>1, <2>2, <2>3
         DEF IInv, TypeOK, JobsOf, HolderInv, AttemptsAgree, ResultOnlyWhenCompleted,
             WorkerPlaces
  <1>4. CASE ClaimForProcessing(w)
    <2>1. \E at \in {"evaluate", "failure", "ok"} : WorkerGoes(w, at)
      BY <1>4 DEF ClaimForProcessing
    <2>2. /\ worker' \in [Workers -> [at : WorkerPlaces, made : 0..Attempts]]
          /\ HolderInv' /\ AttemptsAgree'
      BY <1>1, <1>4, <2>1 DEF ClaimForProcessing, WorkerPlaces
    <2>3. UNCHANGED <<verdict, job>>
          /\ (status' = status \/ (status \in Claimable /\ status' = "PROCESSING"))
      <3>1. CASE status \in Claimable /\ ~session.revoked
        BY <1>4, <3>1 DEF ClaimForProcessing
      <3>2. CASE ~(status \in Claimable /\ ~session.revoked)
        BY <1>4, <3>2 DEF ClaimForProcessing
      <3> QED
        BY <3>1, <3>2
    <2> QED
      BY <1>b, <2>2, <2>3 DEF IInv, TypeOK, JobsOf, ResultOnlyWhenCompleted, WorkerPlaces,
                              Claimable
  <1>5. CASE Evaluate(w)
    <2>1. /\ worker' \in [Workers -> [at : WorkerPlaces, made : 0..Attempts]]
          /\ HolderInv' /\ AttemptsAgree'
      BY <1>1, <1>5 DEF Evaluate, WorkerPlaces
    <2>2. UNCHANGED <<status, verdict, job>>
      BY <1>5 DEF Evaluate
    <2> QED
      BY <1>b, <2>1, <2>2 DEF IInv, TypeOK, JobsOf, ResultOnlyWhenCompleted, WorkerPlaces
  <1>6. CASE MarkCompleted(w)
    <2>1. /\ worker' \in [Workers -> [at : WorkerPlaces, made : 0..Attempts]]
          /\ HolderInv' /\ AttemptsAgree'
      BY <1>1, <1>6 DEF MarkCompleted, WorkerPlaces
    <2>2. UNCHANGED job
          /\ (UNCHANGED <<status, verdict>> \/ (status' = "COMPLETED" /\ verdict' = w))
      <3>1. CASE status = "PROCESSING"
        BY <1>6, <3>1 DEF MarkCompleted
      <3>2. CASE status # "PROCESSING"
        BY <1>6, <3>2 DEF MarkCompleted
      <3> QED
        BY <3>1, <3>2
    <2> QED
      BY <1>b, <2>1, <2>2, NoWorkerAssumption DEF IInv, TypeOK, JobsOf,
                                                  ResultOnlyWhenCompleted, WorkerPlaces
  <1>7. CASE HandleFailure(w)
    <2>1. \E at \in {"err", "ok"} : WorkerGoes(w, at)
      BY <1>7 DEF HandleFailure
    <2>2. /\ worker' \in [Workers -> [at : WorkerPlaces, made : 0..Attempts]]
          /\ HolderInv' /\ AttemptsAgree'
      BY <1>1, <1>7, <2>1 DEF HandleFailure, WorkerPlaces
    <2>3. UNCHANGED job
          /\ (UNCHANGED <<status, verdict>> \/ (status' \in {"FAILED", "PENDING"} /\ verdict' = NoWorker))
      <3>1. CASE status \in Claimable
        BY <1>7, <3>1 DEF HandleFailure
      <3>2. CASE status \notin Claimable
        BY <1>7, <3>2 DEF HandleFailure
      <3> QED
        BY <3>1, <3>2
    <2> QED
      BY <1>b, <2>2, <2>3 DEF IInv, TypeOK, JobsOf, ResultOnlyWhenCompleted, WorkerPlaces
  <1>8. CASE DatabaseFails(w)
    <2>1. \E at \in {"failure", "err"} : WorkerGoes(w, at)
      BY <1>8 DEF DatabaseFails
    <2>2. /\ worker' \in [Workers -> [at : WorkerPlaces, made : 0..Attempts]]
          /\ HolderInv' /\ AttemptsAgree'
      BY <1>1, <1>8, <2>1 DEF DatabaseFails, WorkerPlaces
    <2>3. UNCHANGED <<status, verdict, job>>
      BY <1>8 DEF DatabaseFails
    <2> QED
      BY <1>b, <2>2, <2>3 DEF IInv, TypeOK, JobsOf, ResultOnlyWhenCompleted, WorkerPlaces
  <1>9. CASE CrashWorker(w)
    <2>1. UNCHANGED <<status, verdict, job>> /\ WorkerIdle(w)
      BY <1>9 DEF CrashWorker
    <2> QED
      BY <1>b, <1>2, <2>1 DEF IInv, TypeOK, JobsOf, ResultOnlyWhenCompleted, WorkerPlaces
  <1>10. CASE Settle(w)
    <2>1. UNCHANGED <<status, verdict>> /\ WorkerIdle(w)
      BY <1>10 DEF Settle, Report
    <2>2. CASE UNCHANGED job
      BY <1>b, <1>2, <2>1, <2>2 DEF IInv, TypeOK, JobsOf, ResultOnlyWhenCompleted, WorkerPlaces
    <2>3. CASE job.at = "active" /\ job.holder = w
      <3>1. /\ job' \in [at : {"none", "waiting", "delayed", "active", "completed", "failed"},
                         made : 0..Attempts, stalls : 0..MaxStalled, holder : Workers \cup {NoWorker}]
            /\ job'.at \in {"completed", "failed", "delayed"} /\ job'.holder = NoWorker
        <4>1. CASE worker[w].at = "ok"
          BY <1>a, <1>10, <2>3, <4>1 DEF Settle, Report, TypeOK, JobsOf
        <4>2. CASE worker[w].at # "ok"
          <5> DEFINE made == IF job.made < Attempts THEN job.made + 1 ELSE job.made
          <5>1. made \in 0..Attempts
            BY <1>a DEF TypeOK, JobsOf, Attempts
          <5>2. \E at \in {"failed", "delayed"} :
                   job' = [job EXCEPT !.at = at, !.made = made, !.holder = NoWorker]
            BY <1>10, <2>3, <4>2 DEF Settle, Report
          <5> HIDE DEF made
          <5> QED
            BY <1>a, <5>1, <5>2 DEF TypeOK, JobsOf
        <4> QED
          BY <4>1, <4>2
      <3>2. worker' \in [Workers -> [at : WorkerPlaces, made : 0..Attempts]]
        BY <1>a, <2>1, WorkerEnds
      <3> QED
        BY <1>b, <2>1, <3>1, <3>2, NoWorkerAssumption
           DEF IInv, TypeOK, JobsOf, HolderInv, AttemptsAgree, ResultOnlyWhenCompleted,
               WorkerPlaces
    <2> QED
      BY <1>10, <2>2, <2>3 DEF Settle, Report
  <1> QED
    BY <1>3, <1>4, <1>5, <1>6, <1>7, <1>8, <1>9, <1>10 DEF WorkerStep

(* The queue on its own, and the end of the session. *)
LEMMA QueueKeepsIInv ==
  ASSUME IInv, Promote \/ Stall \/ Expire \/ Revoke
  PROVE  IInv'
  <1>1. CASE Promote \/ Stall \/ Expire
    <2>1. /\ job' \in [at : {"none", "waiting", "delayed", "active", "completed", "failed"},
                       made : 0..Attempts, stalls : 0..MaxStalled, holder : Workers \cup {NoWorker}]
          /\ job'.at # "active"
          /\ job'.holder \notin Workers
      <3>1. CASE Promote
        BY <3>1 DEF Promote, Backoff, IInv, TypeOK, JobsOf, HolderInv
      <3>2. CASE Stall
        <4>1. CASE job.stalls < MaxStalled
          <5> DEFINE stalls == job.stalls + 1
          <5>1. stalls \in 0..MaxStalled
            BY <4>1 DEF IInv, TypeOK, JobsOf, MaxStalled
          <5>2. job' = [job EXCEPT !.at = "waiting", !.stalls = stalls, !.holder = NoWorker]
            BY <3>2, <4>1 DEF Stall, LoseLock
          <5> HIDE DEF stalls
          <5> QED
            BY <5>1, <5>2, NoWorkerAssumption DEF IInv, TypeOK, JobsOf
        <4>2. CASE ~(job.stalls < MaxStalled)
          BY <3>2, <4>2, NoWorkerAssumption DEF Stall, LoseLock, IInv, TypeOK, JobsOf
        <4> QED
          BY <4>1, <4>2
      <3>3. CASE Expire
        BY <3>3, NoWorkerAssumption DEF Expire, Retain, NoJob, MaxStalled, Attempts
      <3> QED
        BY <1>1, <3>1, <3>2, <3>3
    <2>2. UNCHANGED <<status, verdict, request, worker, session, calls>>
      BY <1>1 DEF Promote, Backoff, Stall, LoseLock, Expire, Retain
    <2> QED
      BY <2>1, <2>2 DEF IInv, TypeOK, JobsOf, HolderInv, AttemptsAgree, ResultOnlyWhenCompleted
  <1>2. CASE Revoke
    BY <1>2 DEF Revoke, IInv, TypeOK, JobsOf, HolderInv, AttemptsAgree, ResultOnlyWhenCompleted
  <1> QED
    BY <1>1, <1>2

LEMMA NextIInv == IInv /\ [Next]_vars => IInv'
  <1> SUFFICES ASSUME IInv, [Next]_vars PROVE IInv'
    OBVIOUS
  <1>1. CASE Next
    BY <1>1, RequestKeepsIInv, WorkerKeepsIInv, QueueKeepsIInv DEF Next
  <1>2. CASE UNCHANGED vars
    BY <1>2 DEF vars, IInv, TypeOK, JobsOf, HolderInv, AttemptsAgree, ResultOnlyWhenCompleted
  <1> QED
    BY <1>1, <1>2

LEMMA Inductive == Spec => []IInv
  BY InitIInv, NextIInv, PTL DEF Spec

(* Every reachable state is well typed. *)
THEOREM TypeCorrect == Spec => []TypeOK
  <1>1. IInv => TypeOK
    BY DEF IInv
  <1> QED
    BY Inductive, <1>1, PTL

(* A score is shown for completed evaluations and for no other. *)
THEOREM ResultIffCompleted == Spec => []ResultOnlyWhenCompleted
  <1>1. IInv => ResultOnlyWhenCompleted
    BY DEF IInv
  <1> QED
    BY Inductive, <1>1, PTL

(* The holder of the job knows how many attempts have failed. *)
THEOREM HolderKnowsAttempts == Spec => []AttemptsAgree
  <1>1. IInv => AttemptsAgree
    BY DEF IInv
  <1> QED
    BY Inductive, <1>1, PTL

(* Under all faults, a completed evaluation keeps its result. *)
THEOREM CompletionIsFinal == Spec => CompletedIsFinal
  <1>1. IInv /\ [Next]_vars
          => [status = "COMPLETED" => status' = "COMPLETED" /\ verdict' = verdict]_vars
    <2> SUFFICES ASSUME IInv, Next, status = "COMPLETED"
                 PROVE  status' = "COMPLETED" /\ verdict' = verdict
      BY DEF vars
    <2>1. ASSUME NEW r \in Requests,
                 Prepare(r) \/ RequestStep(r) \/ RedisFails(r) \/ CrashRequest(r)
          PROVE  status' = "COMPLETED" /\ verdict' = verdict
      <3>1. CASE Prepare(r)
        BY <3>1 DEF Prepare
      <3>2. CASE Refused(r)
        BY <3>2 DEF Refused, Claimable
      <3> QED
        BY <2>1, <3>1, <3>2 DEF RequestStep, RedisFails, CrashRequest, Enqueue, Remove, Add,
                                Retry, Reprocess
    <2>2. ASSUME NEW w \in Workers, WorkerStep(w) \/ DatabaseFails(w) \/ CrashWorker(w)
          PROVE  status' = "COMPLETED" /\ verdict' = verdict
      <3>1. CASE ClaimForProcessing(w)
        BY <3>1 DEF ClaimForProcessing, Claimable
      <3>2. CASE MarkCompleted(w)
        BY <3>2 DEF MarkCompleted
      <3>3. CASE HandleFailure(w)
        BY <3>3 DEF HandleFailure, Claimable
      <3> QED
        BY <2>2, <3>1, <3>2, <3>3 DEF WorkerStep, DatabaseFails, CrashWorker, Take, HandOut,
                                      Evaluate, Settle, Report
    <2> QED
      BY <2>1, <2>2 DEF Next, Promote, Backoff, Stall, LoseLock, Expire, Retain, Revoke
  <1> QED
    BY Inductive, <1>1, PTL DEF Spec, CompletedIsFinal

-----------------------------------------------------------------------------
(* Without stalls an execution is running exactly while it holds the job,  *)
(* or it has crashed.                                                      *)
SoleInv ==
  "stall" \notin Faults =>
    \A w \in Workers : worker[w].at # "idle" => job.at = "active" /\ job.holder = w

LEMMA NextSoleInv == IInv /\ SoleInv /\ [Next]_vars => SoleInv'
  <1> SUFFICES ASSUME IInv, SoleInv, [Next]_vars, "stall" \notin Faults,
                      NEW v \in Workers, worker'[v].at # "idle"
               PROVE  job'.at = "active" /\ job'.holder = v
    BY DEF SoleInv
  <1>a. TypeOK
    BY DEF IInv
  <1>0. worker[v].at # "idle" => job.at = "active" /\ job.holder = v
    BY DEF SoleInv
  <1>1. ASSUME NEW r \in Requests,
               Prepare(r) \/ RequestStep(r) \/ RedisFails(r) \/ CrashRequest(r)
        PROVE  job'.at = "active" /\ job'.holder = v
    <2>1. UNCHANGED worker /\ (job.at = "active" => job' = job)
      BY <1>1 DEF Prepare, RequestStep, RedisFails, CrashRequest, Enqueue, Remove, Add, Retry,
                  Reprocess, Refused, RemoveJob, AddJob
    <2> QED
      BY <1>0, <2>1
  <1>2. ASSUME NEW w \in Workers, WorkerStep(w) \/ DatabaseFails(w) \/ CrashWorker(w)
        PROVE  job'.at = "active" /\ job'.holder = v
    <2>1. CASE Take(w)
      <3>1. v = w
        <4>1. job.at = "waiting" /\ \A u \in Workers \ {w} : worker'[u] = worker[u]
          BY <2>1, <1>a DEF Take, HandOut, TypeOK, JobsOf
        <4> QED
          BY <1>0, <4>1
      <3> QED
        BY <2>1, <3>1, <1>a DEF Take, HandOut, TypeOK, JobsOf
    <2>2. CASE Settle(w)
      <3>1. v # w /\ worker'[v] = worker[v]
        BY <2>2, <1>a, WorkerEnds DEF Settle, Report
      <3>2. UNCHANGED job
        BY <1>0, <2>2, <3>1 DEF Settle, Report
      <3> QED
        BY <1>0, <3>1, <3>2
    <2>3. CASE CrashWorker(w)
      <3>1. v # w /\ worker'[v] = worker[v] /\ UNCHANGED job
        BY <2>3, <1>a, WorkerEnds DEF CrashWorker
      <3> QED
        BY <1>0, <3>1
    <2>4. ASSUME NEW at \in WorkerPlaces, WorkerGoes(w, at), worker[w].at # "idle", UNCHANGED job
          PROVE  job'.at = "active" /\ job'.holder = v
      <3>1. worker[v].at # "idle"
        BY <2>4, <1>a, WorkerMoves
      <3> QED
        BY <1>0, <2>4, <3>1
    <2>5. CASE ClaimForProcessing(w) \/ Evaluate(w) \/ MarkCompleted(w) \/ HandleFailure(w)
               \/ DatabaseFails(w)
      BY <2>4, <2>5 DEF ClaimForProcessing, Evaluate, MarkCompleted, HandleFailure,
                        DatabaseFails,
                        WorkerPlaces
    <2> QED
      BY <1>2, <2>1, <2>2, <2>3, <2>5 DEF WorkerStep
  <1>3. CASE Promote \/ Expire
    BY <1>0, <1>3 DEF Promote, Backoff, Expire, Retain, Finished
  <1>4. CASE Stall
    BY <1>0, <1>4 DEF Stall, LoseLock
  <1>5. CASE Revoke \/ UNCHANGED vars
    BY <1>0, <1>5 DEF Revoke, vars
  <1> QED
    BY <1>1, <1>2, <1>3, <1>4, <1>5 DEF Next

LEMMA SoleInductive == Spec => []SoleInv
  <1>1. Init => SoleInv
    BY DEF Init, SoleInv
  <1> QED
    BY Inductive, <1>1, NextSoleInv, PTL DEF Spec

(* Without stalls the evaluation is never executed twice at a time. *)
THEOREM OneExecution == Spec => []SoleExecution
  <1>1. SoleInv => SoleExecution
    BY DEF SoleInv, SoleExecution
  <1> QED
    BY SoleInductive, <1>1, PTL

-----------------------------------------------------------------------------
(* A demo evaluation when nothing fails. *)
Quiet == Demo /\ Faults = {}

HolderRuns == job.at = "active" => worker[job.holder].at # "idle"

FreshInv ==
  status = "NONE" => job.at = "none" /\ \A r \in Requests : request[r] = "idle"

ProcessingRuns ==
  status = "PROCESSING" => \E w \in Workers : worker[w].at \in {"evaluate", "complete", "failure"}

(* Every call made or still to come has been charged. *)
Pending == IF status = "PENDING" THEN 1 ELSE 0
Evaluating == IF \E w \in Workers : worker[w].at = "evaluate" THEN 1 ELSE 0
Credit == calls + Pending + Evaluating <= session.aiRuns

(* Somebody is responsible for a pending evaluation: the queue, an         *)
(* execution that has not claimed it or is failing it, the request that    *)
(* reset it, or one that is about to put it into the queue.                *)
PendingServed ==
  status = "PENDING" /\ ~session.revoked =>
    \/ job.at \in {"waiting", "delayed"}
    \/ \E w \in Workers : worker[w].at \in {"claim", "failure"}
    \/ \E r \in Requests : request[r] \in {"retry", "reprocess", "refused"}
    \/ job.at \in Finished \cup {"none"} /\ \E r \in Requests : request[r] \in {"enqueue", "remove"}
    \/ job.at = "none" /\ \E r \in Requests : request[r] = "add"

DemoInv == HolderRuns /\ FreshInv /\ ProcessingRuns /\ Credit /\ PendingServed

LEMMA InitDemoInv == Init => DemoInv
  BY DEF Init, DemoInv, HolderRuns, FreshInv, ProcessingRuns, Credit, Pending, Evaluating,
         PendingServed, NoJob

LEMMA RequestKeepsDemoInv ==
  ASSUME Quiet, IInv, SoleInv, DemoInv, NEW r \in Requests, Prepare(r) \/ RequestStep(r)
  PROVE  DemoInv'
  <1>a. TypeOK
    BY DEF IInv
  <1>b. UNCHANGED <<verdict, worker, calls>>
    BY DEF Prepare, RequestStep, Enqueue, Remove, Add, Retry, Reprocess, Refused
  <1>c. job'.at = "active" => job' = job
    BY DEF Prepare, RequestStep, Enqueue, Remove, Add, Retry, Reprocess, Refused, RemoveJob,
           AddJob, NoJob, IInv, TypeOK, JobsOf
  <1>1. HolderRuns'
    BY <1>b, <1>c DEF DemoInv, HolderRuns
  <1>2. CASE Prepare(r)
    <2>1. CASE UNCHANGED <<status, session, request>>
      BY <1>2, <2>1, <1>1, <1>b DEF Prepare, DemoInv, FreshInv, ProcessingRuns, Credit, Pending,
                                    Evaluating, PendingServed
    <2>2. CASE status = "PENDING" /\ UNCHANGED <<status, session>> /\ Asks(r, "enqueue")
      <3>1. /\ request[r] = "idle" /\ request'[r] = "enqueue"
            /\ \A q \in Requests \ {r} : request'[q] = request[q]
            /\ UNCHANGED job
        BY <1>2, <2>2, <1>a, RequestMoves DEF Prepare, RequestPlaces
      <3>2. PendingServed'
        BY <1>b, <2>2, <3>1 DEF DemoInv, PendingServed
      <3> QED
        BY <1>1, <1>b, <2>2, <3>1, <3>2 DEF DemoInv, FreshInv, ProcessingRuns, Credit,
                                            Pending, Evaluating
    <2>3. CASE /\ status \in {"NONE", "FAILED"} /\ Charge /\ status' = "PENDING"
               /\ Asks(r, IF status = "NONE" THEN "enqueue" ELSE "retry")
      <3>1. /\ request'[r] = IF status = "NONE" THEN "enqueue" ELSE "retry"
            /\ UNCHANGED job
        BY <1>2, <2>3, <1>a, RequestMoves DEF Prepare, RequestPlaces
      <3>2. session'.aiRuns = session.aiRuns + 1
        BY <2>3, <1>a DEF Charge, TypeOK, JobsOf, Quiet
      <3>3. Credit'
        BY <1>a, <1>b, <2>3, <3>2 DEF DemoInv, Credit, Pending, Evaluating, TypeOK, JobsOf
      <3>4. PendingServed'
        BY <2>3, <3>1 DEF DemoInv, FreshInv, PendingServed
      <3> QED
        BY <1>1, <2>3, <3>3, <3>4 DEF DemoInv, FreshInv, ProcessingRuns
    <2> QED
      BY <1>2, <2>1, <2>2, <2>3 DEF Prepare
  <1>3. CASE Refused(r)
    <2>1. status' = (IF status \in Claimable THEN "FAILED" ELSE status) /\ UNCHANGED <<job, session>>
      BY <1>3 DEF Refused, Quiet
    <2>2. request[r] = "refused"
      BY <1>3 DEF Refused
    <2>3. status' # "PENDING" /\ status # "NONE" /\ (status' = "PROCESSING" => status = "PROCESSING")
          /\ status' # "NONE"
      BY <2>1, <2>2 DEF Claimable, DemoInv, FreshInv
    <2> QED
      BY <1>1, <1>a, <1>b, <2>1, <2>3 DEF DemoInv, FreshInv, ProcessingRuns, Credit, Pending,
                                           Evaluating, PendingServed, TypeOK, JobsOf
  <1>4. ASSUME UNCHANGED <<status, session>>, request[r] # "idle", PendingServed'
        PROVE  DemoInv'
    <2>1. status # "NONE"
      BY <1>4 DEF DemoInv, FreshInv
    <2> QED
      BY <1>1, <1>4, <1>b, <2>1 DEF DemoInv, FreshInv, ProcessingRuns, Credit, Pending,
                                    Evaluating
  <1>5. ASSUME NEW at \in RequestPlaces, Asks(r, at) \/ (at = "idle" /\ Answered(r))
        PROVE  request'[r] = at /\ \A q \in Requests \ {r} : request'[q] = request[q]
    BY <1>5, <1>a, RequestMoves, RequestEnds
  <1>6. CASE Enqueue(r)
    <2>1. UNCHANGED <<status, session, job>> /\ request[r] = "enqueue"
      BY <1>6 DEF Enqueue
    <2>2. /\ request'[r] = IF job.at = "none" THEN "add"
                           ELSE IF job.at \in Finished THEN "remove" ELSE "idle"
          /\ \A q \in Requests \ {r} : request'[q] = request[q]
      BY <1>5, <1>6 DEF Enqueue, RequestPlaces
    <2>3. PendingServed'
      BY <1>b, <2>1, <2>2 DEF DemoInv, PendingServed, Finished
    <2> QED
      BY <1>4, <2>1, <2>3
  <1>7. CASE Remove(r)
    <2>1. /\ UNCHANGED <<status, session>> /\ request[r] = "remove"
          /\ job' = IF job.at = "active" THEN job ELSE NoJob
      BY <1>7 DEF Remove, RemoveJob
    <2>2. request'[r] = "add" /\ \A q \in Requests \ {r} : request'[q] = request[q]
      BY <1>5, <1>7 DEF Remove, RequestPlaces
    <2>3. PendingServed'
      BY <1>b, <2>1, <2>2 DEF DemoInv, PendingServed, Finished, NoJob
    <2> QED
      BY <1>4, <2>1, <2>3
  <1>8. CASE Add(r)
    <2>1. /\ UNCHANGED <<status, session>> /\ request[r] = "add"
          /\ job.at = "none" => job'.at = "waiting"
          /\ job.at # "none" => job' = job
      BY <1>8 DEF Add, AddJob, NoJob
    <2>2. request'[r] = "idle" /\ \A q \in Requests \ {r} : request'[q] = request[q]
      BY <1>5, <1>8 DEF Add, RequestPlaces, Quiet
    <2>3. PendingServed'
      BY <1>b, <2>1, <2>2 DEF DemoInv, PendingServed, Finished
    <2> QED
      BY <1>4, <2>1, <2>3
  <1>9. CASE Retry(r)
    <2>1. UNCHANGED <<status, session, job>> /\ request[r] = "retry"
      BY <1>9 DEF Retry
    <2>2. \/ job.at = "none" /\ request'[r] = "add"
          \/ request'[r] \in {"reprocess", "refused"}
          \/ job.at \in {"waiting", "delayed"} /\ request'[r] = "idle"
      BY <1>5, <1>9 DEF Retry, RequestPlaces, Quiet
    <2>3. PendingServed'
      BY <1>b, <2>1, <2>2 DEF PendingServed
    <2> QED
      BY <1>4, <2>1, <2>3
  <1>10. CASE Reprocess(r)
    <2>1. UNCHANGED <<status, session>> /\ request[r] = "reprocess"
      BY <1>10 DEF Reprocess
    <2>2. job'.at = "waiting" \/ request'[r] = "refused"
      BY <1>5, <1>10, <1>a DEF Reprocess, RequestPlaces, Quiet, TypeOK, JobsOf
    <2>3. PendingServed'
      BY <1>b, <2>1, <2>2 DEF PendingServed
    <2> QED
      BY <1>4, <2>1, <2>3
  <1> QED
    BY <1>2, <1>3, <1>6, <1>7, <1>8, <1>9, <1>10 DEF RequestStep

LEMMA WorkerKeepsDemoInv ==
  ASSUME Quiet, IInv, SoleInv, DemoInv, NEW w \in Workers, WorkerStep(w)
  PROVE  DemoInv'
  <1>a. TypeOK /\ \A v \in Workers : worker[v].at # "idle" => job.at = "active" /\ job.holder = v
    BY DEF IInv, SoleInv, Quiet
  <1>b. UNCHANGED <<request, session>>
    BY DEF WorkerStep, Take, HandOut, ClaimForProcessing, Evaluate, MarkCompleted,
           HandleFailure, Settle, Report
  <1>c. \A v \in Workers \ {w} : worker[w].at # "idle" => worker[v].at = "idle"
    BY <1>a
  <1>d. ASSUME NEW at \in WorkerPlaces, WorkerGoes(w, at)
        PROVE  worker'[w].at = at /\ \A v \in Workers \ {w} : worker'[v] = worker[v]
    BY <1>a, <1>d, WorkerMoves
  <1>1. CASE Take(w)
    <2>1. /\ worker'[w].at = "claim" /\ \A v \in Workers \ {w} : worker'[v] = worker[v]
          /\ worker[w].at = "idle" /\ job.at = "waiting" /\ job'.holder = w /\ job'.at = "active"
          /\ UNCHANGED <<status, calls>>
      BY <1>1, <1>a DEF Take, HandOut, TypeOK, JobsOf
    <2>2. HolderRuns' /\ FreshInv'
      BY <1>b, <2>1 DEF DemoInv, HolderRuns, FreshInv
    <2>3. ProcessingRuns' /\ Credit'
      BY <1>a, <1>b, <2>1 DEF DemoInv, ProcessingRuns, Credit, Pending, Evaluating
    <2>4. PendingServed'
      BY <2>1 DEF PendingServed
    <2> QED
      BY <2>2, <2>3, <2>4 DEF DemoInv
  <1>2. CASE ClaimForProcessing(w)
    <2>1. worker[w].at = "claim" /\ UNCHANGED <<job, calls>>
      BY <1>2 DEF ClaimForProcessing
    <2>2. \A v \in Workers : worker[v].at \notin {"evaluate", "complete", "failure"}
      BY <1>c, <2>1
    <2>3. status \notin {"PROCESSING", "NONE"}
      BY <1>a, <2>1, <2>2 DEF DemoInv, ProcessingRuns, FreshInv
    <2>4. CASE status = "PENDING" /\ ~session.revoked
      <3>1. \/ status' = "PROCESSING" /\ WorkerGoes(w, "evaluate")
            \/ status' = "PENDING" /\ WorkerGoes(w, "failure")
        BY <1>2, <2>4 DEF ClaimForProcessing, Claimable, Quiet
      <3>2. CASE status' = "PROCESSING" /\ WorkerGoes(w, "evaluate")
        <4>1. worker'[w].at = "evaluate" /\ \A v \in Workers \ {w} : worker'[v] = worker[v]
          BY <1>d, <3>2 DEF WorkerPlaces
        <4>2. HolderRuns'
          BY <1>a, <2>1, <4>1 DEF HolderRuns
        <4>3. Evaluating = 0 /\ Pending = 1
          BY <2>2, <2>4 DEF Evaluating, Pending
        <4>4. Evaluating' = 1 /\ Pending' = 0
          BY <3>2, <4>1 DEF Evaluating, Pending
        <4>5. Credit'
          BY <1>a, <1>b, <2>1, <4>3, <4>4 DEF DemoInv, Credit, TypeOK, JobsOf
        <4> QED
          BY <3>2, <4>1, <4>2, <4>5 DEF DemoInv, FreshInv, ProcessingRuns, PendingServed
      <3>3. CASE status' = "PENDING" /\ WorkerGoes(w, "failure")
        <4>1. worker'[w].at = "failure" /\ \A v \in Workers \ {w} : worker'[v] = worker[v]
          BY <1>d, <3>3 DEF WorkerPlaces
        <4>2. HolderRuns'
          BY <1>a, <2>1, <4>1 DEF HolderRuns
        <4>3. Evaluating' = Evaluating /\ Pending' = Pending
          BY <2>2, <2>4, <3>3, <4>1 DEF Evaluating, Pending
        <4>4. Credit'
          BY <1>b, <2>1, <4>3 DEF DemoInv, Credit
        <4>5. PendingServed'
          BY <1>a, <1>b, <2>1, <4>1 DEF PendingServed
        <4> QED
          BY <3>3, <4>1, <4>2, <4>4, <4>5 DEF DemoInv, FreshInv, ProcessingRuns
      <3> QED
        BY <3>1, <3>2, <3>3
    <2>5. CASE ~(status = "PENDING" /\ ~session.revoked)
      <3>1. status' = status /\ worker'[w].at = "ok"
            /\ \A v \in Workers \ {w} : worker'[v] = worker[v]
        <4>1. ~(status \in Claimable /\ ~session.revoked)
          BY <2>3, <2>5 DEF Claimable
        <4> QED
          BY <1>2, <1>d, <4>1 DEF ClaimForProcessing, WorkerPlaces
      <3>2. HolderRuns'
        BY <1>a, <2>1, <3>1 DEF HolderRuns
      <3>3. Credit'
        <4>1. Evaluating' = Evaluating /\ Pending' = Pending
          BY <2>2, <3>1 DEF Evaluating, Pending
        <4> QED
          BY <1>b, <2>1, <4>1 DEF DemoInv, Credit
      <3>4. PendingServed'
        BY <1>b, <2>5, <3>1 DEF PendingServed
      <3> QED
        BY <2>3, <3>1, <3>2, <3>3, <3>4 DEF DemoInv, FreshInv, ProcessingRuns
    <2> QED
      BY <2>4, <2>5
  <1>3. CASE Evaluate(w)
    <2>1. /\ worker[w].at = "evaluate" /\ UNCHANGED <<status, job>> /\ calls' = calls + 1
          /\ worker'[w].at \in {"complete", "failure"}
          /\ \A v \in Workers \ {w} : worker'[v] = worker[v]
      BY <1>3, <1>d DEF Evaluate, WorkerPlaces, Quiet
    <2>2. HolderRuns'
      BY <1>a, <2>1 DEF HolderRuns
    <2>3. Credit'
      <3>1. Evaluating = 1 /\ Pending' = Pending
        BY <2>1 DEF Evaluating, Pending
      <3>2. Evaluating' = 0
        BY <1>c, <2>1 DEF Evaluating
      <3>3. calls \in Nat /\ session.aiRuns \in Nat /\ Pending \in {0, 1}
        BY <1>a DEF TypeOK, JobsOf, Pending
      <3> QED
        BY <1>b, <2>1, <3>1, <3>2, <3>3 DEF DemoInv, Credit
    <2>4. PendingServed' /\ FreshInv' /\ ProcessingRuns'
      BY <1>b, <2>1 DEF DemoInv, PendingServed, FreshInv, ProcessingRuns
    <2> QED
      BY <2>2, <2>3, <2>4 DEF DemoInv
  <1>4. CASE MarkCompleted(w)
    <2>1. /\ worker[w].at = "complete" /\ UNCHANGED <<job, calls>> /\ worker'[w].at = "ok"
          /\ \A v \in Workers \ {w} : worker'[v] = worker[v]
      BY <1>4, <1>d DEF MarkCompleted, WorkerPlaces, Quiet
    <2>2. status' = IF status = "PROCESSING" THEN "COMPLETED" ELSE status
      BY <1>4 DEF MarkCompleted
    <2>3. HolderRuns'
      BY <1>a, <2>1 DEF HolderRuns
    <2>4. Credit'
      <3>1. Evaluating' = Evaluating
        BY <2>1 DEF Evaluating
      <3>2. Pending' = Pending
        BY <2>2 DEF Pending
      <3> QED
        BY <1>b, <2>1, <3>1, <3>2 DEF DemoInv, Credit
    <2>5. PendingServed' /\ FreshInv'
      BY <1>b, <2>1, <2>2 DEF DemoInv, PendingServed, FreshInv
    <2>6. ProcessingRuns'
      BY <2>2 DEF ProcessingRuns
    <2> QED
      BY <2>3, <2>4, <2>5, <2>6 DEF DemoInv
  <1>5. CASE HandleFailure(w)
    <2>1. IsFinalAttempt(w)
      BY <1>a DEF IsFinalAttempt, Attempts, Quiet, TypeOK, JobsOf
    <2>2. /\ worker[w].at = "failure" /\ UNCHANGED <<job, calls>>
          /\ worker'[w].at \in {"ok", "err"}
          /\ \A v \in Workers \ {w} : worker'[v] = worker[v]
      BY <1>5, <1>d DEF HandleFailure, WorkerPlaces
    <2>3. status' = IF status \in Claimable THEN "FAILED" ELSE status
      BY <1>5, <2>1 DEF HandleFailure
    <2>4. HolderRuns'
      BY <1>a, <2>2 DEF HolderRuns
    <2>5. Credit'
      <3>1. Evaluating' = Evaluating
        BY <2>2 DEF Evaluating
      <3>2. Pending' = 0 /\ Pending \in {0, 1} /\ Evaluating \in {0, 1}
        BY <2>3 DEF Pending, Evaluating, Claimable
      <3>3. calls \in Nat /\ session.aiRuns \in Nat
        BY <1>a DEF TypeOK, JobsOf
      <3> QED
        BY <1>b, <2>2, <3>1, <3>2, <3>3 DEF DemoInv, Credit
    <2>6. PendingServed' /\ ProcessingRuns'
      BY <2>3 DEF PendingServed, ProcessingRuns, Claimable
    <2>7. FreshInv'
      BY <1>b, <2>2, <2>3 DEF DemoInv, FreshInv
    <2> QED
      BY <2>4, <2>5, <2>6, <2>7 DEF DemoInv
  <1>6. CASE Settle(w)
    <2>1. /\ worker[w].at \in {"ok", "err"} /\ worker'[w].at = "idle"
          /\ \A v \in Workers \ {w} : worker'[v] = worker[v]
          /\ UNCHANGED <<status, calls>>
      BY <1>6, <1>a, WorkerEnds DEF Settle, Report
    <2>2. job.at = "active" /\ job.holder = w
      BY <1>a, <2>1
    <2>3. job'.at # "active"
      BY <1>6, <1>a, <2>2 DEF Settle, Report, TypeOK, JobsOf
    <2>4. Credit'
      <3>1. Evaluating' = Evaluating /\ Pending' = Pending
        BY <2>1 DEF Evaluating, Pending
      <3> QED
        BY <1>b, <2>1, <3>1 DEF DemoInv, Credit
    <2>5. HolderRuns' /\ FreshInv' /\ ProcessingRuns'
      BY <1>b, <2>1, <2>2, <2>3 DEF DemoInv, HolderRuns, FreshInv, ProcessingRuns
    <2>6. PendingServed'
      BY <1>b, <2>1, <2>2 DEF DemoInv, PendingServed, Finished
    <2> QED
      BY <2>4, <2>5, <2>6 DEF DemoInv
  <1> QED
    BY <1>1, <1>2, <1>3, <1>4, <1>5, <1>6 DEF WorkerStep

LEMMA NextDemoInv ==
  ASSUME Quiet
  PROVE  IInv /\ SoleInv /\ DemoInv /\ [Next]_vars => DemoInv'
  <1> SUFFICES ASSUME IInv, SoleInv, DemoInv, [Next]_vars PROVE DemoInv'
    OBVIOUS
  <1>1. ASSUME NEW r \in Requests,
               Prepare(r) \/ RequestStep(r) \/ RedisFails(r) \/ CrashRequest(r)
        PROVE  DemoInv'
    <2>1. ~RedisFails(r) /\ ~CrashRequest(r)
      BY DEF RedisFails, CrashRequest, Quiet
    <2> QED
      BY <1>1, <2>1, RequestKeepsDemoInv
  <1>2. ASSUME NEW w \in Workers, WorkerStep(w) \/ DatabaseFails(w) \/ CrashWorker(w)
        PROVE  DemoInv'
    <2>1. ~DatabaseFails(w) /\ ~CrashWorker(w)
      BY DEF DatabaseFails, CrashWorker, Quiet
    <2> QED
      BY <1>2, <2>1, WorkerKeepsDemoInv
  <1>3. CASE Promote
    <2>1. job.at = "delayed" /\ job'.at = "waiting"
          /\ UNCHANGED <<status, request, worker, session, calls>>
      BY <1>3 DEF Promote, Backoff, IInv, TypeOK, JobsOf
    <2> QED
      BY <2>1 DEF DemoInv, HolderRuns, FreshInv, ProcessingRuns, Credit, Pending, Evaluating,
                  PendingServed
  <1>4. CASE Stall
    BY <1>4 DEF Stall, LoseLock, Quiet, DemoInv, HolderRuns
  <1>5. CASE Expire
    <2>1. job.at \in Finished /\ job'.at = "none"
          /\ UNCHANGED <<status, request, worker, session, calls>>
      BY <1>5 DEF Expire, Retain, NoJob
    <2>2. HolderRuns' /\ FreshInv' /\ ProcessingRuns' /\ Credit'
      BY <2>1 DEF DemoInv, HolderRuns, FreshInv, ProcessingRuns, Credit, Pending, Evaluating,
                  Finished
    <2>3. PendingServed'
      BY <2>1 DEF DemoInv, PendingServed, Finished
    <2> QED
      BY <2>2, <2>3 DEF DemoInv
  <1>6. CASE Revoke
    <2>1. session'.revoked /\ session'.aiRuns = session.aiRuns
          /\ UNCHANGED <<status, job, request, worker, calls>>
      BY <1>6 DEF Revoke, IInv, TypeOK, JobsOf
    <2> QED
      BY <2>1 DEF DemoInv, HolderRuns, FreshInv, ProcessingRuns, Credit, Pending, Evaluating,
                  PendingServed
  <1>7. CASE UNCHANGED vars
    BY <1>7 DEF vars, DemoInv, HolderRuns, FreshInv, ProcessingRuns, Credit, Pending,
                Evaluating,
                PendingServed
  <1> QED
    BY <1>1, <1>2, <1>3, <1>4, <1>5, <1>6, <1>7 DEF Next

LEMMA DemoInductive ==
  ASSUME Quiet
  PROVE  Spec => []DemoInv
  <1>1. IInv /\ SoleInv /\ DemoInv /\ [Next]_vars => DemoInv'
    BY NextDemoInv
  <1> QED
    BY InitDemoInv, Inductive, SoleInductive, <1>1, PTL DEF Spec

(* When nothing fails, a demo session gets no LLM call it is not charged for.*)
THEOREM DemoCallsCharged ==
  ASSUME Quiet
  PROVE  Spec => []CallsAreCharged
  <1>1. IInv /\ DemoInv => CallsAreCharged
    BY DEF IInv, TypeOK, JobsOf, DemoInv, Credit, Pending, Evaluating, CallsAreCharged
  <1> QED
    BY Inductive, DemoInductive, <1>1, PTL

(* When nothing fails, an answered demo request leaves no evaluation       *)
(* pending with nothing to run it.                                         *)
THEOREM DemoNeverForgotten ==
  ASSUME Quiet
  PROVE  Spec => []PendingIsQueued
  <1>1. IInv /\ DemoInv => PendingIsQueued
    <2> SUFFICES ASSUME IInv, DemoInv, status \in Claimable,
                        \A r \in Requests : request[r] = "idle", ~session.revoked
                 PROVE  WillRun
      BY DEF PendingIsQueued
    <2>1. CASE status = "PROCESSING"
      BY <2>1 DEF DemoInv, ProcessingRuns, WillRun
    <2>2. CASE status = "PENDING"
      BY <2>2 DEF DemoInv, PendingServed, WillRun
    <2> QED
      BY <2>1, <2>2 DEF Claimable
  <1> QED
    BY Inductive, DemoInductive, <1>1, PTL
=============================================================================

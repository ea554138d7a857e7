------------------------ MODULE ResumeIngestionProofs ------------------------
(***************************************************************************)
(* Proofs about ResumeIngestion for every number of requests and workers   *)
(* and every fault model: types, the tie between text and status, and the  *)
(* protection of completed versions under all faults; single execution     *)
(* while locks hold; and, when nothing fails, that a version shown as      *)
(* processing has somebody who will end it.                                *)
(***************************************************************************)
EXTENDS ResumeIngestion, TLAPS

RequestPlaces == {"idle", "reset", "lookup", "state", "remove", "add", "refused"}
WorkerPlaces == {"idle", "read", "start", "extract", "complete", "failure", "ok", "err"}
Statuses == {"NONE", "PENDING", "PROCESSING", "COMPLETED", "FAILED"}

(* The job is active exactly while somebody holds its lock. *)
HolderInv == job.at = "active" <=> job.holder \in Workers

IInv == TypeOK /\ HolderInv /\ TextOnlyWhenCompleted

-----------------------------------------------------------------------------
(* How a step moves one execution or one request. *)
LEMMA WorkerMoves ==
  ASSUME TypeOK, NEW w \in Workers, NEW at \in WorkerPlaces, WorkerGoes(w, at)
  PROVE  /\ worker' \in [Workers -> [at : WorkerPlaces, made : 0..Attempts]]
         /\ worker'[w].at = at /\ worker'[w].made = worker[w].made
         /\ \A v \in Workers \ {w} : worker'[v] = worker[v]
  BY DEF TypeOK, WorkerGoes, WorkerPlaces

LEMMA WorkerEnds ==
  ASSUME TypeOK, NEW w \in Workers, WorkerIdle(w)
  PROVE  /\ worker' \in [Workers -> [at : WorkerPlaces, made : 0..Attempts]]
         /\ worker'[w].at = "idle"
         /\ \A v \in Workers \ {w} : worker'[v] = worker[v]
  BY DEF TypeOK, WorkerIdle, WorkerPlaces, Attempts

LEMMA RequestMoves ==
  ASSUME TypeOK, NEW r \in Requests, NEW at \in RequestPlaces,
         Asks(r, at) \/ (at = "idle" /\ Answered(r))
  PROVE  /\ request' \in [Requests -> RequestPlaces]
         /\ request'[r] = at
         /\ \A q \in Requests \ {r} : request'[q] = request[q]
  BY DEF TypeOK, Asks, Answered, RequestPlaces

(* What a request does to its own place, to the job and to the row. *)
LEMMA RequestEffect ==
  ASSUME TypeOK, NEW r \in Requests, RequestStep(r)
  PROVE  /\ request' \in [Requests -> RequestPlaces]
         /\ \A q \in Requests \ {r} : request'[q] = request[q]
         /\ UNCHANGED <<worker, faults>>
  <1>1. \/ UNCHANGED request
        \/ \E at \in RequestPlaces : Asks(r, at) \/ (at = "idle" /\ Answered(r))
    BY DEF RequestStep, Register, Reset, Lookup, State, Remove, Add, Refused, RequestFails,
           RequestPlaces
  <1>2. UNCHANGED <<worker, faults>>
    BY DEF RequestStep, Register, Reset, Lookup, State, Remove, Add, Refused, RequestFails
  <1> QED
    BY <1>1, <1>2, RequestMoves DEF TypeOK, RequestPlaces

LEMMA RequestAndJob ==
  ASSUME TypeOK, HolderInv, NEW r \in Requests, RequestStep(r)
  PROVE  /\ job' \in JobsOf(Attempts) /\ HolderInv'
         /\ job.at = "active" => job' = job
         /\ job.at # "active" => job'.at # "active"
  <1>1. CASE UNCHANGED job
    BY <1>1 DEF TypeOK, HolderInv
  <1>2. CASE Remove(r) \/ Add(r)
    BY <1>2, NoWorkerAssumption
       DEF Remove, Add, AddJob, NoJob, TypeOK, JobsOf, HolderInv, Attempts, MaxStalled
  <1> QED
    BY <1>1, <1>2 DEF RequestStep, Register, Reset, Lookup, State, Refused, RequestFails

LEMMA RequestAndRow ==
  ASSUME TypeOK, NEW r \in Requests, RequestStep(r)
  PROVE  \/ UNCHANGED <<status, text>>
         \/ status \in {"NONE", "FAILED"} /\ status' \in {"PENDING", "FAILED"} /\ text' = text
         \/ status # "COMPLETED" /\ status' = "FAILED" /\ text' = text
         \/ Reset(r) /\ status' = "PENDING" /\ text' = NoWorker
  <1>1. CASE Register(r)
    BY <1>1 DEF Register
  <1>2. CASE Reset(r)
    BY <1>2 DEF Reset
  <1>3. CASE Refused(r)
    BY <1>3 DEF Refused, Mark
  <1> QED
    BY <1>1, <1>2, <1>3 DEF RequestStep, Lookup, State, Remove, Add, RequestFails

(* The outcome of an execution: it changes the job only under its lock. *)
LEMMA SettleAndJob ==
  ASSUME TypeOK, NEW w \in Workers, Settle(w)
  PROVE  \/ job' = job /\ ~(job.at = "active" /\ job.holder = w)
         \/ /\ job.at = "active" /\ job.holder = w
            /\ job' \in JobsOf(Attempts) /\ job'.holder = NoWorker
            /\ job'.at = IF worker[w].at = "ok" THEN "completed"
                         ELSE IF IsFinalAttempt(w) THEN "failed" ELSE "delayed"
  <1>1. CASE ~(job.at = "active" /\ job.holder = w)
    BY <1>1 DEF Settle, Report
  <1>2. CASE job.at = "active" /\ job.holder = w /\ worker[w].at = "ok"
    BY <1>2 DEF Settle, Report, TypeOK, JobsOf
  <1>3. CASE job.at = "active" /\ job.holder = w /\ worker[w].at # "ok"
    <2> DEFINE made == IF job.made < Attempts THEN job.made + 1 ELSE job.made
               at == IF IsFinalAttempt(w) THEN "failed" ELSE "delayed"
    <2>1. made \in 0..Attempts
      BY DEF TypeOK, JobsOf, Attempts
    <2>2. at \in {"failed", "delayed"}
      OBVIOUS
    <2>3. job' = [job EXCEPT !.at = at, !.made = made, !.holder = NoWorker]
      BY <1>3 DEF Settle, Report
    <2>4. at = IF IsFinalAttempt(w) THEN "failed" ELSE "delayed"
      OBVIOUS
    <2> HIDE DEF made, at
    <2>5. job' \in JobsOf(Attempts) /\ job'.holder = NoWorker /\ job'.at = at
      BY <2>1, <2>2, <2>3 DEF TypeOK, JobsOf
    <2> QED
      BY <1>3, <2>4, <2>5
  <1> QED
    BY <1>1, <1>2, <1>3

(* An execution leaves the job alone unless it takes it or settles. *)
LEMMA WorkerAndJob ==
  ASSUME TypeOK, HolderInv, NEW w \in Workers, WorkerStep(w)
  PROVE  job' \in JobsOf(Attempts) /\ HolderInv'
  <1>1. CASE Take(w)
    BY <1>1 DEF Take, HandOut, TypeOK, JobsOf, HolderInv
  <1>2. CASE Settle(w)
    <2>1. CASE job' = job
      BY <2>1 DEF TypeOK, HolderInv
    <2>2. CASE job' # job
      BY <1>2, <2>2, SettleAndJob, NoWorkerAssumption DEF HolderInv
    <2> QED
      BY <2>1, <2>2
  <1>3. CASE UNCHANGED job
    BY <1>3 DEF TypeOK, HolderInv
  <1> QED
    BY <1>1, <1>2, <1>3 DEF WorkerStep, ReadContent, MarkProcessing, Extract, MarkCompleted,
                            HandleFailure, DatabaseFails, CrashWorker

LEMMA WorkerAndRow ==
  ASSUME TypeOK, NEW w \in Workers, WorkerStep(w)
  PROVE  \/ UNCHANGED <<status, text>>
         \/ status # "COMPLETED" /\ status' \in {"PROCESSING", "FAILED"} /\ text' = text
         \/ status # "COMPLETED" /\ status' = "COMPLETED" /\ text' = w
  <1>1. CASE MarkProcessing(w)
    BY <1>1 DEF MarkProcessing, Mark
  <1>2. CASE MarkCompleted(w)
    BY <1>2 DEF MarkCompleted, Mark
  <1>3. CASE HandleFailure(w)
    BY <1>3 DEF HandleFailure, Mark
  <1> QED
    BY <1>1, <1>2, <1>3 DEF WorkerStep, Take, ReadContent, Extract, Settle, DatabaseFails,
                            CrashWorker

LEMMA WorkerEffect ==
  ASSUME TypeOK, NEW w \in Workers, WorkerStep(w)
  PROVE  /\ worker' \in [Workers -> [at : WorkerPlaces, made : 0..Attempts]]
         /\ \A v \in Workers \ {w} : worker'[v] = worker[v]
         /\ UNCHANGED <<request, faults>>
  <1>1. CASE Take(w)
    <2>1. UNCHANGED <<request, faults>>
      BY <1>1 DEF Take
    <2> QED
      BY <1>1, <2>1 DEF Take, TypeOK, JobsOf, WorkerPlaces
  <1>2. ASSUME NEW at \in WorkerPlaces, WorkerGoes(w, at)
        PROVE  /\ worker' \in [Workers -> [at : WorkerPlaces, made : 0..Attempts]]
               /\ \A v \in Workers \ {w} : worker'[v] = worker[v]
    BY <1>2, WorkerMoves
  <1>3. CASE Settle(w) \/ CrashWorker(w)
    BY <1>3, WorkerEnds DEF Settle, CrashWorker
  <1>4. CASE ReadContent(w) \/ MarkProcessing(w) \/ Extract(w) \/ MarkCompleted(w)
             \/ HandleFailure(w) \/ DatabaseFails(w)
    <2>1. \E at \in WorkerPlaces : WorkerGoes(w, at)
      BY <1>4 DEF ReadContent, MarkProcessing, Extract, MarkCompleted, HandleFailure,
                  DatabaseFails, WorkerPlaces
    <2>2. UNCHANGED <<request, faults>>
      BY <1>4 DEF ReadContent, MarkProcessing, Extract, MarkCompleted, HandleFailure,
                  DatabaseFails
    <2> QED
      BY <1>2, <2>1, <2>2
  <1> QED
    BY <1>1, <1>3, <1>4 DEF WorkerStep

(* BullMQ on its own never makes the job active. *)
LEMMA QueueAndJob ==
  ASSUME TypeOK, HolderInv, Promote \/ Stall \/ Expire
  PROVE  /\ job' \in JobsOf(Attempts) /\ HolderInv' /\ job'.at # "active"
         /\ UNCHANGED <<status, text, request, worker, faults>>
  <1>1. UNCHANGED <<status, text, request, worker, faults>>
    BY DEF Promote, Stall, Expire
  <1>2. CASE Promote
    BY <1>1, <1>2 DEF Promote, Backoff, TypeOK, JobsOf, HolderInv
  <1>3. CASE Stall
    <2>1. CASE job.stalls < MaxStalled
      <3> DEFINE stalls == job.stalls + 1
      <3>1. stalls \in 0..MaxStalled
        BY <2>1 DEF TypeOK, JobsOf, MaxStalled
      <3>2. job' = [job EXCEPT !.at = "waiting", !.stalls = stalls, !.holder = NoWorker]
        BY <1>3, <2>1 DEF Stall, LoseLock
      <3> HIDE DEF stalls
      <3> QED
        BY <1>1, <3>1, <3>2, NoWorkerAssumption DEF TypeOK, JobsOf, HolderInv
    <2>2. CASE ~(job.stalls < MaxStalled)
      BY <1>1, <1>3, <2>2, NoWorkerAssumption DEF Stall, LoseLock, TypeOK, JobsOf, HolderInv
    <2> QED
      BY <2>1, <2>2
  <1>4. CASE Expire
    BY <1>1, <1>4, NoWorkerAssumption
       DEF Expire, Retain, NoJob, JobsOf, HolderInv, MaxStalled, Attempts
  <1> QED
    BY <1>2, <1>3, <1>4

-----------------------------------------------------------------------------
LEMMA InitIInv == Init => IInv
  BY NoWorkerAssumption, FaultSetsAssumption
     DEF Init, IInv, TypeOK, JobsOf, HolderInv, TextOnlyWhenCompleted, NoJob, Attempts, MaxStalled

LEMMA NextIInv == IInv /\ [Next]_vars => IInv'
  <1> SUFFICES ASSUME IInv, [Next]_vars PROVE IInv'
    OBVIOUS
  <1>a. TypeOK /\ HolderInv /\ TextOnlyWhenCompleted
    BY DEF IInv
  <1>1. ASSUME NEW r \in Requests, RequestStep(r) PROVE IInv'
    <2>1. /\ request' \in [Requests -> RequestPlaces] /\ UNCHANGED <<worker, faults>>
      BY <1>1, <1>a, RequestEffect
    <2>2. job' \in JobsOf(Attempts) /\ HolderInv'
      BY <1>1, <1>a, RequestAndJob
    <2>3. /\ status' \in Statuses /\ text' \in Workers \cup {NoWorker}
          /\ TextOnlyWhenCompleted'
      BY <1>1, <1>a, RequestAndRow DEF TypeOK, TextOnlyWhenCompleted, Statuses
    <2> QED
      BY <1>a, <2>1, <2>2, <2>3 DEF IInv, TypeOK, RequestPlaces, Statuses
  <1>2. ASSUME NEW w \in Workers, WorkerStep(w) PROVE IInv'
    <2>1. /\ worker' \in [Workers -> [at : WorkerPlaces, made : 0..Attempts]]
          /\ UNCHANGED <<request, faults>>
      BY <1>2, <1>a, WorkerEffect
    <2>2. job' \in JobsOf(Attempts) /\ HolderInv'
      BY <1>2, <1>a, WorkerAndJob
    <2>3. /\ status' \in Statuses /\ text' \in Workers \cup {NoWorker}
          /\ TextOnlyWhenCompleted'
      BY <1>2, <1>a, WorkerAndRow, NoWorkerAssumption DEF TypeOK, TextOnlyWhenCompleted, Statuses
    <2> QED
      BY <1>a, <2>1, <2>2, <2>3 DEF IInv, TypeOK, WorkerPlaces, Statuses
  <1>3. CASE Promote \/ Stall \/ Expire
    BY <1>3, <1>a, QueueAndJob DEF IInv, TypeOK, TextOnlyWhenCompleted
  <1>4. CASE UNCHANGED vars
    BY <1>4 DEF vars, IInv, TypeOK, HolderInv, TextOnlyWhenCompleted
  <1> QED
    BY <1>1, <1>2, <1>3, <1>4 DEF Next

LEMMA Inductive == Spec => []IInv
  BY InitIInv, NextIInv, PTL DEF Spec

(* Every reachable state is well typed, whatever fails. *)
THEOREM TypeCorrect == Spec => []TypeOK
  <1>1. IInv => TypeOK
    BY DEF IInv
  <1> QED
    BY Inductive, <1>1, PTL

(* markCompleted, the reset and updateMutable keep text and status together*)
(* in every order of requests and executions.                              *)
THEOREM TextIffCompleted == Spec => []TextOnlyWhenCompleted
  <1>1. IInv => TextOnlyWhenCompleted
    BY DEF IInv
  <1> QED
    BY Inductive, <1>1, PTL

(* updateMutable: nothing but the reset of a version read as failed changes*)
(* a completed version.                                                    *)
THEOREM CompletedProtected == Spec => CompletedIsProtected
  <1>1. IInv /\ [Next]_vars =>
          [status = "COMPLETED" =>
             \/ status' = "COMPLETED" /\ text' = text
             \/ \E r \in Requests : request[r] = "reset" /\ request'[r] # "reset"]_vars
    <2> SUFFICES ASSUME IInv, [Next]_vars, status = "COMPLETED"
                 PROVE  \/ status' = "COMPLETED" /\ text' = text
                        \/ \E r \in Requests : request[r] = "reset" /\ request'[r] # "reset"
      OBVIOUS
    <2>a. TypeOK /\ HolderInv
      BY DEF IInv
    <2>1. ASSUME NEW r \in Requests, RequestStep(r)
          PROVE  \/ status' = "COMPLETED" /\ text' = text
                 \/ request[r] = "reset" /\ request'[r] # "reset"
      <3>1. CASE Reset(r)
        <4>1. request[r] = "reset" /\ Asks(r, "lookup")
          BY <3>1 DEF Reset
        <4>2. request'[r] = "lookup"
          BY <4>1, <2>a, RequestMoves DEF RequestPlaces
        <4> QED
          BY <4>1, <4>2
      <3>2. CASE ~Reset(r)
        BY <2>1, <2>a, <3>2, RequestAndRow
      <3> QED
        BY <3>1, <3>2
    <2>2. ASSUME NEW w \in Workers, WorkerStep(w) PROVE status' = "COMPLETED" /\ text' = text
      BY <2>2, <2>a, WorkerAndRow
    <2>3. CASE Promote \/ Stall \/ Expire
      BY <2>3 DEF Promote, Stall, Expire
    <2>4. CASE UNCHANGED vars
      BY <2>4 DEF vars
    <2> QED
      BY <2>1, <2>2, <2>3, <2>4 DEF Next
  <1> QED
    BY Inductive, <1>1, PTL DEF Spec, CompletedIsProtected

-----------------------------------------------------------------------------
(* While locks hold, the only execution is the one the job was handed to. *)
SoleInv ==
  "stall" \notin faults =>
    \A w \in Workers : worker[w].at # "idle" => job.at = "active" /\ job.holder = w

LEMMA NextSoleInv == IInv /\ SoleInv /\ [Next]_vars => SoleInv'
  <1> SUFFICES ASSUME IInv, SoleInv, [Next]_vars, "stall" \notin faults',
                      NEW v \in Workers, worker'[v].at # "idle"
               PROVE  job'.at = "active" /\ job'.holder = v
    BY DEF SoleInv
  <1>a. TypeOK /\ HolderInv
    BY DEF IInv
  <1>1. ASSUME NEW r \in Requests, RequestStep(r)
        PROVE  job'.at = "active" /\ job'.holder = v
    <2>1. UNCHANGED <<worker, faults>> /\ (job.at = "active" => job' = job)
      BY <1>1, <1>a, RequestEffect, RequestAndJob
    <2> QED
      BY <2>1 DEF SoleInv
  <1>2. ASSUME NEW w \in Workers, WorkerStep(w)
        PROVE  job'.at = "active" /\ job'.holder = v
    <2>0. /\ UNCHANGED faults
          /\ worker[v].at # "idle" => job.at = "active" /\ job.holder = v
      BY <1>2, <1>a, WorkerEffect DEF SoleInv
    <2>1. CASE Take(w)
      <3>1. job.at = "waiting" /\ \A u \in Workers \ {w} : worker'[u] = worker[u]
        BY <2>1, <1>a DEF Take, HandOut, TypeOK, JobsOf
      <3>2. v = w
        BY <2>0, <3>1
      <3> QED
        BY <2>1, <3>2, <1>a DEF Take, HandOut, TypeOK, JobsOf
    <2>2. CASE Settle(w)
      <3>1. v # w /\ worker'[v] = worker[v]
        BY <2>2, <1>a, WorkerEnds DEF Settle
      <3>2. UNCHANGED job
        BY <2>0, <2>2, <3>1 DEF Settle, Report
      <3> QED
        BY <2>0, <3>1, <3>2
    <2>3. CASE CrashWorker(w)
      <3>1. v # w /\ worker'[v] = worker[v] /\ UNCHANGED job
        BY <2>3, <1>a, WorkerEnds DEF CrashWorker
      <3> QED
        BY <2>0, <3>1
    <2>4. ASSUME NEW at \in WorkerPlaces, WorkerGoes(w, at), worker[w].at # "idle", UNCHANGED job
          PROVE  job'.at = "active" /\ job'.holder = v
      <3>1. worker[v].at # "idle"
        BY <2>4, <1>a, WorkerMoves
      <3> QED
        BY <2>0, <2>4, <3>1
    <2>5. CASE ReadContent(w) \/ MarkProcessing(w) \/ Extract(w) \/ MarkCompleted(w)
               \/ HandleFailure(w) \/ DatabaseFails(w)
      BY <2>4, <2>5 DEF ReadContent, MarkProcessing, Extract, MarkCompleted, HandleFailure,
                        DatabaseFails, WorkerPlaces
    <2> QED
      BY <1>2, <2>1, <2>2, <2>3, <2>5 DEF WorkerStep
  <1>3. CASE Promote \/ Expire
    BY <1>3 DEF SoleInv, Promote, Backoff, Expire, Retain, Finished
  <1>4. CASE Stall
    BY <1>4 DEF SoleInv, Stall, LoseLock
  <1>5. CASE UNCHANGED vars
    BY <1>5 DEF SoleInv, vars
  <1> QED
    BY <1>1, <1>2, <1>3, <1>4, <1>5 DEF Next

LEMMA SoleInductive == Spec => []SoleInv
  <1>1. Init => SoleInv
    BY DEF Init, SoleInv
  <1> QED
    BY Inductive, <1>1, NextSoleInv, PTL DEF Spec

(* While locks hold, requests that replace a finished job never make the   *)
(* queue start a second execution next to a first.                         *)
THEOREM OneExecution == Spec => []SoleExecution
  <1>1. SoleInv => SoleExecution
    BY DEF SoleInv, SoleExecution
  <1> QED
    BY SoleInductive, <1>1, PTL

-----------------------------------------------------------------------------
(* When nothing fails, an active job has its execution, and a version shown*)
(* as processing has a job, an execution that has not ended its last       *)
(* attempt, or a request between the removal of the job and its successor. *)
Running(w) ==
  \/ worker[w].at \in {"read", "start", "extract", "complete", "failure"}
  \/ worker[w].at = "err" /\ ~IsFinalAttempt(w)

HolderRuns == job.at = "active" => worker[job.holder].at # "idle"

Served ==
  \/ job.at \in {"waiting", "delayed"}
  \/ \E w \in Workers : Running(w)
  \/ job.at = "none" /\ \E r \in Requests : request[r] = "add"

RunnerInv == faults = {} => HolderRuns /\ (status = "PROCESSING" => Served)

LEMMA RequestKeepsRunner ==
  ASSUME IInv, RunnerInv, faults = {}, NEW r \in Requests, RequestStep(r)
  PROVE  RunnerInv'
  <1>a. TypeOK /\ HolderInv
    BY DEF IInv
  <1>b. HolderRuns /\ (status = "PROCESSING" => Served)
    BY DEF RunnerInv
  <1>1. /\ UNCHANGED <<worker, faults>>
        /\ \A q \in Requests \ {r} : request'[q] = request[q]
        /\ job'.at = "active" => job' = job
    BY <1>a, RequestEffect, RequestAndJob
  <1>2. HolderRuns'
    BY <1>b, <1>1 DEF HolderRuns
  <1>3. ASSUME status' = "PROCESSING" PROVE Served'
    <2>1. status = "PROCESSING" /\ Served
      BY <1>3, <1>a, <1>b, RequestAndRow
    <2>2. ASSUME NEW w \in Workers, Running(w) PROVE Served'
      BY <1>1, <2>2 DEF Running, IsFinalAttempt, Served
    <2>3. CASE Remove(r)
      <3>1. CASE job.at = "active"
        BY <2>1, <2>2, <3>1 DEF Served
      <3>2. CASE job.at # "active"
        <4>1. job' = NoJob /\ Asks(r, "add")
          BY <2>3, <3>2 DEF Remove
        <4>2. request'[r] = "add"
          BY <4>1, <1>a, RequestMoves DEF RequestPlaces
        <4> QED
          BY <4>1, <4>2 DEF Served, NoJob
      <3> QED
        BY <3>1, <3>2
    <2>4. CASE Add(r)
      <3>1. job' = IF job.at = "none" THEN [NoJob EXCEPT !.at = "waiting"] ELSE job
        BY <2>4 DEF Add, AddJob
      <3>2. CASE job.at = "none" \/ job.at \in {"waiting", "delayed"}
        BY <3>1, <3>2 DEF Served, NoJob
      <3> QED
        BY <2>1, <2>2, <3>2 DEF Served
    <2>5. CASE request[r] # "add" /\ UNCHANGED job
      BY <1>1, <2>1, <2>2, <2>5 DEF Served
    <2>6. CASE Register(r) \/ Reset(r) \/ Lookup(r) \/ State(r)
      BY <2>5, <2>6 DEF Register, Reset, Lookup, State
    <2>7. CASE Refused(r)
      BY <2>5, <2>7 DEF Refused
    <2>8. ~RequestFails(r) \/ ~(faults = {})
      BY DEF RequestFails
    <2> QED
      BY <2>3, <2>4, <2>6, <2>7, <2>8 DEF RequestStep
  <1> QED
    BY <1>1, <1>2, <1>3 DEF RunnerInv

LEMMA WorkerKeepsRunner ==
  ASSUME IInv, SoleInv, RunnerInv, faults = {}, NEW w \in Workers, WorkerStep(w)
  PROVE  RunnerInv'
  <1>a. TypeOK /\ HolderInv
    BY DEF IInv
  <1>b. HolderRuns /\ (status = "PROCESSING" => Served)
    BY DEF RunnerInv
  <1>c. UNCHANGED <<request, faults>> /\ \A v \in Workers \ {w} : worker'[v] = worker[v]
    BY <1>a, WorkerEffect
  <1>d. /\ worker[w].at # "idle" => job.at = "active" /\ job.holder = w
        /\ \A v \in Workers : worker[v].at # "idle" => job.at = "active" /\ job.holder = v
    BY DEF SoleInv
  <1>1. CASE Take(w)
    <2>1. worker'[w].at = "read" /\ job'.holder = w
      BY <1>1, <1>a DEF Take, HandOut, TypeOK, JobsOf
    <2> QED
      BY <2>1 DEF RunnerInv, HolderRuns, Served, Running
  <1>2. ASSUME NEW at \in WorkerPlaces \ {"idle"}, WorkerGoes(w, at), UNCHANGED job
        PROVE  /\ HolderRuns'
               /\ worker'[w].at = at /\ worker'[w].made = worker[w].made
    <2>1. worker'[w].at = at /\ worker'[w].made = worker[w].made
      BY <1>2, <1>a, WorkerMoves
    <2>2. HolderRuns'
      <3> SUFFICES ASSUME job.at = "active" PROVE worker'[job.holder].at # "idle"
        BY <1>2 DEF HolderRuns
      <3>1. job.holder \in Workers /\ worker[job.holder].at # "idle"
        BY <1>a, <1>b DEF HolderInv, HolderRuns
      <3> QED
        BY <1>c, <2>1, <3>1
    <2> QED
      BY <2>1, <2>2
  <1>3. CASE ReadContent(w)
    <2>1. PICK at \in {"ok", "start"} : WorkerGoes(w, at) /\ (at = "ok" => status = "COMPLETED")
      BY <1>3 DEF ReadContent
    <2>2. UNCHANGED <<job, status>>
      BY <1>3 DEF ReadContent
    <2>3. HolderRuns' /\ worker'[w].at = at
      BY <1>2, <2>1, <2>2 DEF WorkerPlaces
    <2> QED
      BY <2>1, <2>2, <2>3 DEF RunnerInv, Served, Running
  <1>4. CASE MarkProcessing(w)
    <2>1. WorkerGoes(w, "extract") /\ UNCHANGED job
      BY <1>4 DEF MarkProcessing
    <2>2. HolderRuns' /\ worker'[w].at = "extract"
      BY <1>2, <2>1 DEF WorkerPlaces
    <2> QED
      BY <2>2 DEF RunnerInv, Served, Running
  <1>5. CASE Extract(w)
    <2>1. PICK at \in {"complete", "failure"} : WorkerGoes(w, at)
      BY <1>5 DEF Extract
    <2>2. UNCHANGED job
      BY <1>5 DEF Extract
    <2>3. HolderRuns' /\ worker'[w].at = at
      BY <1>2, <2>1, <2>2 DEF WorkerPlaces
    <2> QED
      BY <2>3 DEF RunnerInv, Served, Running
  <1>6. CASE MarkCompleted(w)
    <2>1. WorkerGoes(w, "ok") /\ UNCHANGED job /\ status' = "COMPLETED"
      BY <1>6 DEF MarkCompleted, Mark
    <2>2. HolderRuns'
      BY <1>2, <2>1 DEF WorkerPlaces
    <2> QED
      BY <2>1, <2>2 DEF RunnerInv
  <1>7. CASE HandleFailure(w)
    <2>1. WorkerGoes(w, "err") /\ UNCHANGED job
      BY <1>7 DEF HandleFailure
    <2>2. HolderRuns' /\ worker'[w].at = "err" /\ worker'[w].made = worker[w].made
      BY <1>2, <2>1 DEF WorkerPlaces
    <2>3. CASE IsFinalAttempt(w)
      <3>1. status' # "PROCESSING"
        BY <1>7, <2>3 DEF HandleFailure, Mark
      <3> QED
        BY <2>2, <3>1 DEF RunnerInv
    <2>4. CASE ~IsFinalAttempt(w)
      <3>1. Running(w)'
        BY <2>2, <2>4 DEF Running, IsFinalAttempt, Attempts
      <3> QED
        BY <2>2, <3>1 DEF RunnerInv, Served
    <2> QED
      BY <2>3, <2>4
  <1>8. CASE Settle(w)
    <2>1. job.at = "active" /\ job.holder = w /\ worker[w].at \in {"ok", "err"} /\ status' = status
      BY <1>8, <1>d DEF Settle
    <2>2. job'.at = IF worker[w].at = "ok" THEN "completed"
                    ELSE IF IsFinalAttempt(w) THEN "failed" ELSE "delayed"
      BY <1>8, <1>a, <2>1, SettleAndJob
    <2>3. HolderRuns'
      BY <2>2 DEF HolderRuns
    <2>4. ASSUME status = "PROCESSING" PROVE worker[w].at = "err" /\ ~IsFinalAttempt(w)
      <3>1. PICK u \in Workers : Running(u)
        BY <1>b, <2>1, <2>4 DEF Served
      <3>2. u = w
        <4>1. worker[u].at # "idle"
          BY <3>1 DEF Running
        <4>2. job.holder = u
          BY <1>d, <4>1
        <4> QED
          BY <2>1, <4>2
      <3> QED
        BY <2>1, <3>1, <3>2 DEF Running
    <2> QED
      BY <2>1, <2>2, <2>3, <2>4 DEF RunnerInv, Served
  <1>9. ~DatabaseFails(w) /\ ~CrashWorker(w)
    BY DEF DatabaseFails, CrashWorker
  <1> QED
    BY <1>1, <1>3, <1>4, <1>5, <1>6, <1>7, <1>8, <1>9 DEF WorkerStep

LEMMA NextRunnerInv == IInv /\ SoleInv /\ RunnerInv /\ [Next]_vars => RunnerInv'
  <1> SUFFICES ASSUME IInv, SoleInv, RunnerInv, [Next]_vars, faults' = {} PROVE RunnerInv'
    BY DEF RunnerInv
  <1>a. TypeOK /\ HolderInv
    BY DEF IInv
  <1>b. faults = {}
    <2>1. ASSUME NEW r \in Requests, RequestStep(r) PROVE faults' = faults
      BY <2>1, <1>a, RequestEffect
    <2>2. ASSUME NEW w \in Workers, WorkerStep(w) PROVE faults' = faults
      BY <2>2, <1>a, WorkerEffect
    <2>3. CASE Promote \/ Stall \/ Expire \/ UNCHANGED vars
      BY <2>3 DEF Promote, Stall, Expire, vars
    <2> QED
      BY <2>1, <2>2, <2>3 DEF Next
  <1>1. ASSUME NEW r \in Requests, RequestStep(r) PROVE RunnerInv'
    BY <1>1, <1>b, RequestKeepsRunner
  <1>2. ASSUME NEW w \in Workers, WorkerStep(w) PROVE RunnerInv'
    BY <1>2, <1>b, WorkerKeepsRunner
  <1>3. CASE Promote
    BY <1>3, <1>a, <1>b DEF Promote, Backoff, RunnerInv, HolderRuns, Served, TypeOK, JobsOf
  <1>4. ~Stall
    BY <1>b DEF Stall, LoseLock, RunnerInv, HolderRuns
  <1>5. CASE Expire
    BY <1>5, <1>b DEF Expire, Retain, Finished, NoJob, RunnerInv, HolderRuns, Served, Running,
                      IsFinalAttempt
  <1>6. CASE UNCHANGED vars
    BY <1>6, <1>b DEF vars, RunnerInv, HolderRuns, Served, Running, IsFinalAttempt
  <1> QED
    BY <1>1, <1>2, <1>3, <1>4, <1>5, <1>6 DEF Next

(* Without faults a version shown as processing, with no request at work,  *)
(* has a job in the queue or an execution that has not given up on it.     *)
THEOREM ProcessingRuns == Spec => []ProcessingHasRunner
  <1>1. Init => RunnerInv
    BY DEF Init, RunnerInv, HolderRuns, NoJob
  <1>2. RunnerInv => ProcessingHasRunner
    BY DEF RunnerInv, Served, Running, ProcessingHasRunner
  <1> QED
    BY Inductive, SoleInductive, <1>1, <1>2, NextRunnerInv, PTL DEF Spec
=============================================================================

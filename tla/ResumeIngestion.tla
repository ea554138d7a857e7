--------------------------- MODULE ResumeIngestion ---------------------------
(***************************************************************************)
(* One version of a resume's content: its row, the BullMQ job that carries *)
(* its id, the requests that register the file again (createResumeAsync,   *)
(* updateResumeAsync) and the workers that extract its text (ingest).      *)
(*                                                                         *)
(* Unlike an evaluation, a content row may be changed by anybody as long as*)
(* it is not completed (updateMutable), and a failed version is reset by a *)
(* transaction that read it one statement earlier.  Versions with other    *)
(* ids share no state with this one.                                       *)
(***************************************************************************)
EXTENDS QueueJob

CONSTANTS
  Requests,    \* slots for the HTTP requests in flight
  FaultSets    \* the sets of faults a behaviour may suffer

(* "stall": a live worker misses its lock renewals; "crash": a process     *)
(* dies; "redis", "db": a command or statement fails, with or without      *)
(* having been applied.                                                    *)
ASSUME FaultSetsAssumption == FaultSets \subseteq SUBSET {"stall", "crash", "redis", "db"}

VARIABLES
  status,      \* the row's status, NONE before the file is registered
  text,        \* the execution whose text the row holds, NoWorker if none
  request,     \* request[r]: where request r is
  worker,      \* worker[w]: where execution w is and the attempt it was given
  faults       \* what goes wrong in this behaviour

vars == <<status, text, job, request, worker, faults>>

Attempts == 3

TypeOK ==
  /\ status \in {"NONE", "PENDING", "PROCESSING", "COMPLETED", "FAILED"}
  /\ text \in Workers \cup {NoWorker}
  /\ job \in JobsOf(Attempts)
  /\ request \in [Requests -> {"idle", "reset", "lookup", "state", "remove", "add", "refused"}]
  /\ worker \in [Workers ->
       [at : {"idle", "read", "start", "extract", "complete", "failure", "ok", "err"},
        made : 0..Attempts]]
  /\ faults \in FaultSets

Init ==
  /\ status = "NONE"
  /\ text = NoWorker
  /\ job = NoJob
  /\ request = [r \in Requests |-> "idle"]
  /\ worker = [w \in Workers |-> [at |-> "idle", made |-> 0]]
  /\ faults \in FaultSets

-----------------------------------------------------------------------------
(* The requests. *)

Answered(r) == request' = [request EXCEPT ![r] = "idle"]
Asks(r, at) == request' = [request EXCEPT ![r] = at]

(* updateMutable: a completed row is left as it is, and that is no error.  *)
Mark(new) == status' = IF status = "COMPLETED" THEN status ELSE new

(* The transaction that registers the file creates the version or finds    *)
(* it; it holds the resume's row from its first statement on, so only a    *)
(* failed version, reset by a later statement, shows the reader a pause.   *)
(* A completed version needs no ingestion: its request is answered at once.*)
Register(r) ==
  /\ request[r] = "idle"
  /\ \A q \in Requests : request[q] # "reset"
  /\ \/ status = "NONE" /\ status' = "PENDING" /\ Asks(r, "lookup")
     \/ status = "FAILED" /\ UNCHANGED status /\ Asks(r, "reset")
     \/ status \in {"PENDING", "PROCESSING"} /\ UNCHANGED status /\ Asks(r, "lookup")
     \/ status = "COMPLETED" /\ UNCHANGED <<status, request>>
  /\ UNCHANGED <<text, job, worker, faults>>

(* The reset does not look at the status again. *)
Reset(r) ==
  /\ request[r] = "reset"
  /\ status' = "PENDING" /\ text' = NoWorker
  /\ Asks(r, "lookup")
  /\ UNCHANGED <<job, worker, faults>>

(* enqueue: getJob, then getState of the job found, which by then may have *)
(* changed or gone; only a finished job is replaced.                       *)
Lookup(r) ==
  /\ request[r] = "lookup"
  /\ Asks(r, IF job.at = "none" THEN "add" ELSE "state")
  /\ UNCHANGED <<status, text, job, worker, faults>>

State(r) ==
  /\ request[r] = "state"
  /\ IF job.at \in Finished THEN Asks(r, "remove") ELSE Answered(r)
  /\ UNCHANGED <<status, text, job, worker, faults>>

MutRemoveActive(r) ==
  /\ request[r] = "remove"
  /\ job' = NoJob /\ Asks(r, "add")
  /\ UNCHANGED <<status, text, worker, faults>>

(* existingJob.remove() throws when a worker holds the job of that id. *)
Remove(r) ==
  /\ request[r] = "remove"
  /\ IF job.at = "active"
       THEN UNCHANGED job /\ Asks(r, "refused")
       ELSE job' = NoJob /\ Asks(r, "add")
  /\ UNCHANGED <<status, text, worker, faults>>

Add(r) ==
  /\ request[r] = "add"
  /\ AddJob
  /\ Answered(r) \/ ("redis" \in faults /\ Asks(r, "refused"))
  /\ UNCHANGED <<status, text, worker, faults>>

(* The queue failed the request: the version is marked failed, whoever is  *)
(* working on it, and the answer is an error.                              *)
Refused(r) ==
  /\ request[r] = "refused"
  /\ Mark("FAILED") \/ ("db" \in faults /\ UNCHANGED status)
  /\ Answered(r)
  /\ UNCHANGED <<text, job, worker, faults>>

RequestFails(r) ==
  /\ \/ /\ "redis" \in faults
        /\ request[r] \in {"lookup", "state", "remove", "add"}
        /\ Asks(r, "refused")
     \/ "db" \in faults /\ request[r] = "reset" /\ Answered(r)
     \/ "crash" \in faults /\ request[r] # "idle" /\ Answered(r)
  /\ UNCHANGED <<status, text, job, worker, faults>>

-----------------------------------------------------------------------------
(* The workers: ingest. *)

WorkerGoes(w, at) == worker' = [worker EXCEPT ![w].at = at]

Take(w) ==
  /\ worker[w].at = "idle"
  /\ HandOut(w)
  /\ worker' = [worker EXCEPT ![w] = [at |-> "read", made |-> job.made]]
  /\ UNCHANGED <<status, text, request, faults>>

ReadContent(w) ==
  /\ worker[w].at = "read"
  /\ WorkerGoes(w, IF status = "COMPLETED" THEN "ok" ELSE "start")
  /\ UNCHANGED <<status, text, job, request, faults>>

(* markProcessing answers with the row, completed or not: the work goes on.*)
MarkProcessing(w) ==
  /\ worker[w].at = "start"
  /\ Mark("PROCESSING")
  /\ WorkerGoes(w, "extract") \/ ("db" \in faults /\ WorkerGoes(w, "failure"))
  /\ UNCHANGED <<text, job, request, faults>>

(* Download, size check, parsing, normalisation. *)
Extract(w) ==
  /\ worker[w].at = "extract"
  /\ WorkerGoes(w, "complete") \/ WorkerGoes(w, "failure")
  /\ UNCHANGED <<status, text, job, request, faults>>

MutMarkCompletedAgain(w) ==
  /\ worker[w].at = "complete"
  /\ Mark("COMPLETED")
  /\ text' = w
  /\ WorkerGoes(w, "ok")
  /\ UNCHANGED <<job, request, faults>>

MarkCompleted(w) ==
  /\ worker[w].at = "complete"
  /\ Mark("COMPLETED")
  /\ text' = IF status = "COMPLETED" THEN text ELSE w
  /\ WorkerGoes(w, "ok") \/ ("db" \in faults /\ WorkerGoes(w, "failure"))
  /\ UNCHANGED <<job, request, faults>>

IsFinalAttempt(w) == worker[w].made + 1 >= Attempts

MutHandleFailureLate(w) ==
  /\ worker[w].at = "failure"
  /\ IF worker[w].made >= Attempts THEN Mark("FAILED") ELSE UNCHANGED status
  /\ WorkerGoes(w, "err")
  /\ UNCHANGED <<text, job, request, faults>>

(* The catch of ingest: only the final attempt is recorded, an earlier one *)
(* leaves the row as it is; either way the error goes on to the queue.     *)
HandleFailure(w) ==
  /\ worker[w].at = "failure"
  /\ IF IsFinalAttempt(w) THEN Mark("FAILED") ELSE UNCHANGED status
  /\ WorkerGoes(w, "err")
  /\ UNCHANGED <<text, job, request, faults>>

DatabaseFails(w) ==
  /\ "db" \in faults
  /\ \/ worker[w].at \in {"read", "start", "complete"} /\ WorkerGoes(w, "failure")
     \/ worker[w].at = "failure" /\ WorkerGoes(w, "err")
  /\ UNCHANGED <<status, text, job, request, faults>>

WorkerIdle(w) == worker' = [worker EXCEPT ![w] = [at |-> "idle", made |-> 0]]

MutSettleAgain(w) ==
  /\ worker[w].at \in {"ok", "err"}
  /\ WorkerIdle(w)
  /\ Report(w, worker[w].at = "ok", FALSE, Attempts + 1)
  /\ UNCHANGED <<status, text, request, faults>>

(* The processor returns or throws, and the queue learns the outcome. *)
Settle(w) ==
  /\ worker[w].at \in {"ok", "err"}
  /\ WorkerIdle(w)
  /\ Report(w, worker[w].at = "ok", IsFinalAttempt(w), Attempts)
  /\ UNCHANGED <<status, text, request, faults>>

CrashWorker(w) ==
  /\ "crash" \in faults
  /\ worker[w].at # "idle"
  /\ WorkerIdle(w)
  /\ UNCHANGED <<status, text, job, request, faults>>

-----------------------------------------------------------------------------
(* BullMQ on its own. *)

Promote == Backoff /\ UNCHANGED <<status, text, request, worker, faults>>

Stall ==
  /\ LoseLock
  /\ "stall" \in faults \/ worker[job.holder].at = "idle"
  /\ UNCHANGED <<status, text, request, worker, faults>>

Expire == Retain /\ UNCHANGED <<status, text, request, worker, faults>>

-----------------------------------------------------------------------------
RequestStep(r) ==
  \/ Register(r) \/ Reset(r) \/ Lookup(r) \/ State(r) \/ Remove(r) \/ Add(r)
  \/ Refused(r) \/ RequestFails(r)

WorkerStep(w) ==
  \/ Take(w) \/ ReadContent(w) \/ MarkProcessing(w) \/ Extract(w) \/ MarkCompleted(w)
  \/ HandleFailure(w) \/ Settle(w) \/ DatabaseFails(w) \/ CrashWorker(w)

Next ==
  \/ \E r \in Requests : RequestStep(r)
  \/ \E w \in Workers : WorkerStep(w)
  \/ Promote \/ Stall \/ Expire

Spec == Init /\ [][Next]_vars

-----------------------------------------------------------------------------
(* The extracted text is there exactly when the row says so, and it is the *)
(* text of one execution.                                                  *)
TextOnlyWhenCompleted == text # NoWorker <=> status = "COMPLETED"

(* "Completed content is protected": no execution, late or duplicated, and *)
(* no request that fails in the queue changes a completed version.  Only a *)
(* reset that read the version as failed can.                              *)
CompletedIsProtected ==
  [][status = "COMPLETED" =>
       \/ status' = "COMPLETED" /\ text' = text
       \/ \E r \in Requests : request[r] = "reset" /\ request'[r] # "reset"]_vars

(* Two requests that replace the same finished job do not start two        *)
(* executions, unless a live worker loses its lock.                        *)
SoleExecution ==
  "stall" \notin faults =>
    \A v, w \in Workers : worker[v].at # "idle" /\ worker[w].at # "idle" => v = w

(* Without faults a version shown as processing is being processed, or     *)
(* will be again.                                                          *)
ProcessingHasRunner ==
  faults = {} /\ status = "PROCESSING" /\ (\A r \in Requests : request[r] = "idle") =>
    \/ job.at \in {"waiting", "delayed"}
    \/ \E w \in Workers :
         \/ worker[w].at \in {"read", "start", "extract", "complete", "failure"}
         \/ worker[w].at = "err" /\ ~IsFinalAttempt(w)

(* What the state diagram of the ingestion says: nothing leads out of      *)
(* COMPLETED.                                                              *)
CompletedIsFinal == [][status = "COMPLETED" => status' = "COMPLETED"]_vars
=============================================================================

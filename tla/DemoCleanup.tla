----------------------------- MODULE DemoCleanup -----------------------------
(***************************************************************************)
(* The end of one demo workspace (DemoCleanup.run): its session, the       *)
(* uploads it was granted, the objects it left in the bucket, one of its   *)
(* evaluations with the queued job, and the cleaners of all processes.     *)
(*                                                                         *)
(* Transactions under lockDemo are single steps, except for the last one of*)
(* a run, because other runs claim the session without that lock.  A run   *)
(* owns the session only through a lease of two minutes, and between steps *)
(* the lease may run out, a client may use an upload URL, a request that   *)
(* was authorized before the end may reach the queue, and the process may  *)
(* die.  Time is a set of deadlines that pass at any moment.               *)
(***************************************************************************)
EXTENDS QueueJob, FiniteSets

CONSTANTS
  Keys,        \* the storage keys the session may be granted (uploadsPerSession of them)
  Requests,    \* slots for evaluation requests in flight
  Cleaners,    \* slots for runs of the cleaner, over all processes
  Nobody,      \* no cleaner
  FaultSets    \* the environments to consider: see below

ASSUME NobodyAssumption == Nobody \notin Cleaners

(* "crash": a process dies; "stall": a live worker misses its lock         *)
(* renewals; "slow": a cleaner at work outlives its lease; "storage", "db":*)
(* a call or statement fails, a transaction possibly after its commit.     *)
ASSUME FaultSetsAssumption ==
  \A f \in FaultSets : f \subseteq {"crash", "stall", "slow", "storage", "db"}

VARIABLES
  session,     \* revoked, expired, its cleanupStatus and its lease
  recorded,    \* the DemoUpload rows
  url,         \* the keys whose upload URL a client can still use
  object,      \* the objects in the bucket
  evaluation,  \* the evaluation row
  request,     \* request[r]: between prepare and the queue, or not
  worker,      \* worker[w]: where execution w is
  cleaner,     \* cleaner[c]: where run c is and the keys it has left to delete
  faults,      \* the environment of this behaviour
  calm         \* its faults are over

weather == <<faults, calm>>
uploads == <<recorded, url, object>>
work == <<evaluation, request, worker, job>>
vars == <<session, uploads, work, cleaner, weather>>

Attempts == 1

AtWork == {"uploads", "queue", "remove", "storage", "finish", "failed", "release"}

TypeOK ==
  /\ session \in [revoked : BOOLEAN, expired : BOOLEAN,
                  status : {"PENDING", "WAITING", "FAILED", "DONE", "GONE"},
                  owner : Cleaners \cup {Nobody}, lapsed : BOOLEAN]
  /\ session.owner = Nobody => session.lapsed
  /\ recorded \subseteq Keys /\ url \subseteq Keys /\ object \subseteq Keys
  /\ evaluation \in {"none", "open", "closed"}
  /\ request \in [Requests -> {"idle", "enqueue"}]
  /\ worker \in [Workers -> {"idle", "claim", "call", "settle"}]
  /\ job \in JobsOf(Attempts)
  /\ cleaner \in [Cleaners -> [at : {"idle", "list", "claim"} \cup AtWork, keys : SUBSET Keys]]
  /\ faults \in FaultSets /\ calm \in BOOLEAN

Init ==
  /\ session = [revoked |-> FALSE, expired |-> FALSE, status |-> "PENDING",
                owner |-> Nobody, lapsed |-> TRUE]
  /\ recorded = {} /\ url = {} /\ object = {}
  /\ evaluation = "none"
  /\ request = [r \in Requests |-> "idle"]
  /\ worker = [w \in Workers |-> "idle"]
  /\ job = NoJob
  /\ cleaner = [c \in Cleaners |-> [at |-> "idle", keys |-> {}]]
  /\ faults \in FaultSets /\ calm = FALSE

May(f) == f \in faults /\ ~calm

-----------------------------------------------------------------------------
(* The living session and its end. *)

Over == session.revoked \/ session.expired
Done == session.status \in {"DONE", "GONE"}

MutReserveUploadUnchecked(k) ==
  /\ ~session.expired /\ ~Done /\ k \notin recorded
  /\ recorded' = recorded \cup {k} /\ url' = url \cup {k}
  /\ UNCHANGED <<session, object, work, cleaner, weather>>

(* The row is committed before the URL is signed, and the URL ends no later*)
(* than the row says.                                                      *)
ReserveUpload(k) ==
  /\ ~Over /\ k \notin recorded
  /\ recorded' = recorded \cup {k} /\ url' = url \cup {k}
  /\ UNCHANGED <<session, object, work, cleaner, weather>>

(* The client's PUT: neither the session nor the application is asked. *)
Put(k) ==
  /\ k \in url
  /\ object' = object \cup {k}
  /\ UNCHANGED <<session, recorded, url, work, cleaner, weather>>

UrlExpires(k) ==
  /\ k \in url
  /\ url' = url \ {k}
  /\ UNCHANGED <<session, recorded, object, work, cleaner, weather>>

Revoke ==
  /\ ~Over
  /\ session' = [session EXCEPT !.revoked = TRUE]
  /\ UNCHANGED <<uploads, work, cleaner, weather>>

(* No upload URL outlives the session's deadline.  For a session that has  *)
(* been revoked the deadline of its URLs is UrlExpires.                    *)
SessionExpires ==
  /\ ~Over
  /\ session' = [session EXCEPT !.expired = TRUE]
  /\ url' = {}
  /\ UNCHANGED <<recorded, object, work, cleaner, weather>>

-----------------------------------------------------------------------------
(* An evaluation: requested, queued, claimed, run. *)

Prepare(r) ==
  /\ request[r] = "idle"
  /\ ~Over /\ evaluation \in {"none", "open"}
  /\ evaluation' = "open"
  /\ request' = [request EXCEPT ![r] = "enqueue"]
  /\ UNCHANGED <<session, uploads, worker, job, cleaner, weather>>

(* The queue is reached, or the request ends without. *)
Enqueue(r) ==
  /\ request[r] = "enqueue"
  /\ request' = [request EXCEPT ![r] = "idle"]
  /\ AddJob \/ UNCHANGED job
  /\ UNCHANGED <<session, uploads, evaluation, worker, cleaner, weather>>

WorkerGoes(w, at) == worker' = [worker EXCEPT ![w] = at]

Take(w) ==
  /\ worker[w] = "idle"
  /\ HandOut(w)
  /\ WorkerGoes(w, "claim")
  /\ UNCHANGED <<session, uploads, evaluation, request, cleaner, weather>>

MutClaimUnchecked(w) ==
  /\ worker[w] = "claim"
  /\ WorkerGoes(w, IF evaluation = "open" THEN "call" ELSE "settle")
  /\ UNCHANGED <<session, uploads, evaluation, request, job, cleaner, weather>>

(* claimForProcessing: nothing to do without a row or a live session. *)
ClaimForProcessing(w) ==
  /\ worker[w] = "claim"
  /\ WorkerGoes(w, IF evaluation = "open" /\ ~Over THEN "call" ELSE "settle")
  /\ UNCHANGED <<session, uploads, evaluation, request, job, cleaner, weather>>

(* The LLM call returns and its verdict is written, if there is a row. *)
Evaluate(w) ==
  /\ worker[w] = "call"
  /\ evaluation' = IF evaluation = "open" THEN "closed" ELSE evaluation
  /\ WorkerGoes(w, "settle")
  /\ UNCHANGED <<session, uploads, request, job, cleaner, weather>>

(* Good or bad, the outcome ends the job: a demo job has one attempt. *)
Settle(w) ==
  /\ worker[w] = "settle"
  /\ Report(w, TRUE, TRUE, Attempts)
  /\ WorkerGoes(w, "idle")
  /\ UNCHANGED <<session, uploads, evaluation, request, cleaner, weather>>

CrashWorker(w) ==
  /\ May("crash") /\ worker[w] # "idle"
  /\ WorkerGoes(w, "idle")
  /\ UNCHANGED <<session, uploads, evaluation, request, job, cleaner, weather>>

Stall ==
  /\ LoseLock
  /\ May("stall") \/ worker[job.holder] = "idle"
  /\ UNCHANGED <<session, uploads, evaluation, request, worker, cleaner, weather>>

-----------------------------------------------------------------------------
(* One run of the cleaner, as far as this session is concerned. *)

Goes(c, at) == cleaner' = [cleaner EXCEPT ![c].at = at]

(* lockDemo, while the last transaction of a run is under way.  The other  *)
(* transactions that take it find the session over by then.                *)
Unlocked == \A c \in Cleaners : cleaner[c].at # "finish"

(* The first transaction: a session that is over is closed for good.  It is*)
(* skipped if another run is in it.                                        *)
Sweep(c) ==
  /\ cleaner[c].at = "idle" /\ Unlocked
  /\ Goes(c, "list")
  /\ session' = IF session.status = "PENDING" /\ Over
                  THEN [session EXCEPT !.revoked = TRUE, !.status = "WAITING"]
                  ELSE session
  /\ UNCHANGED <<uploads, work, weather>>

MutListForgetsFailed(c) ==
  /\ cleaner[c].at = "list"
  /\ Goes(c, IF session.revoked /\ session.status = "WAITING" THEN "claim" ELSE "idle")
  /\ UNCHANGED <<session, uploads, work, weather>>

List(c) ==
  /\ cleaner[c].at = "list"
  /\ Goes(c, IF session.revoked /\ session.status \in {"WAITING", "FAILED"} THEN "claim" ELSE "idle")
  /\ UNCHANGED <<session, uploads, work, weather>>

MutClaimAnyway(c) ==
  /\ cleaner[c].at = "claim"
  /\ IF ~Done
       THEN Goes(c, "uploads") /\ session' = [session EXCEPT !.owner = c, !.lapsed = FALSE]
       ELSE Goes(c, "idle") /\ UNCHANGED session
  /\ UNCHANGED <<uploads, work, weather>>

(* One conditional update takes a lease that is free or has run out. *)
Claim(c) ==
  /\ cleaner[c].at = "claim"
  /\ IF ~Done /\ session.lapsed
       THEN Goes(c, "uploads") /\ session' = [session EXCEPT !.owner = c, !.lapsed = FALSE]
       ELSE Goes(c, "idle") /\ UNCHANGED session
  /\ UNCHANGED <<uploads, work, weather>>

MutReadUploadsAlways(c) ==
  /\ cleaner[c].at = "uploads"
  /\ cleaner' = [cleaner EXCEPT ![c] = [at |-> "queue", keys |-> recorded]]
  /\ UNCHANGED <<session, uploads, work, weather>>

(* The uploads are read; one that a client may still use ends the run. *)
ReadUploads(c) ==
  /\ cleaner[c].at = "uploads"
  /\ IF url \cap recorded # {} THEN Goes(c, "release")
     ELSE cleaner' = [cleaner EXCEPT ![c] = [at |-> "queue", keys |-> recorded]]
  /\ UNCHANGED <<session, uploads, work, weather>>

MutReadJobIgnoresActive(c) ==
  /\ cleaner[c].at = "queue"
  /\ Goes(c, IF evaluation = "none" \/ job.at \in {"none", "active"} THEN "storage" ELSE "remove")
  /\ UNCHANGED <<session, uploads, work, weather>>

(* The job of a known evaluation: absent, active or to be removed. *)
ReadJob(c) ==
  /\ cleaner[c].at = "queue"
  /\ Goes(c, IF evaluation = "none" \/ job.at = "none" THEN "storage"
             ELSE IF job.at = "active" THEN "release" ELSE "remove")
  /\ UNCHANGED <<session, uploads, work, weather>>

(* remove() of a job that a worker has taken since throws. *)
Remove(c) ==
  /\ cleaner[c].at = "remove"
  /\ RemoveJob
  /\ Goes(c, IF job.at = "active" THEN "release" ELSE "storage")
  /\ UNCHANGED <<session, uploads, evaluation, request, worker, weather>>

MutDeleteObjectIgnoresErrors(c, k) ==
  /\ cleaner[c].at = "storage" /\ k \in cleaner[c].keys
  /\ \/ object' = object \ {k}
     \/ May("storage") /\ UNCHANGED object
  /\ cleaner' = [cleaner EXCEPT ![c].keys = @ \ {k}]
  /\ UNCHANGED <<session, recorded, url, work, weather>>

(* An object that is gone is deleted again without harm. *)
DeleteObject(c, k) ==
  /\ cleaner[c].at = "storage" /\ k \in cleaner[c].keys
  /\ \/ object' = object \ {k} /\ cleaner' = [cleaner EXCEPT ![c].keys = @ \ {k}]
     \/ May("storage") /\ UNCHANGED object /\ Goes(c, "failed")
  /\ UNCHANGED <<session, recorded, url, work, weather>>

(* The last transaction reads the lease; the row may be gone.              *)
CheckLease(c) ==
  /\ cleaner[c].at = "storage" /\ cleaner[c].keys = {} /\ Unlocked
  /\ Goes(c, IF session.owner = c /\ ~session.lapsed /\ session.status # "GONE"
                THEN "finish" ELSE "failed")
  /\ UNCHANGED <<session, uploads, work, weather>>

(* It commits: every row of the workspace goes and the session is DONE,    *)
(* also if the lease ran out meanwhile.                                    *)
Finish(c) ==
  /\ cleaner[c].at = "finish"
  /\ IF session.status # "GONE"
       THEN /\ session' = [session EXCEPT !.status = "DONE"]
            /\ recorded' = {} /\ evaluation' = "none"
            /\ Goes(c, "release") \/ (May("db") /\ Goes(c, "failed"))
       ELSE UNCHANGED <<session, recorded, evaluation>> /\ Goes(c, "failed")
  /\ UNCHANGED <<url, object, request, worker, job, weather>>

(* A statement of the run fails without effect. *)
DatabaseFails(c) ==
  /\ May("db")
  /\ \/ cleaner[c].at \in {"uploads", "queue", "storage", "finish"} /\ Goes(c, "failed")
     \/ cleaner[c].at = "failed" /\ Goes(c, "release")
     \/ cleaner[c].at \in {"list", "claim", "release"} /\ Goes(c, "idle")
  /\ UNCHANGED <<session, uploads, work, weather>>

MutRecordFailureAnyway(c) ==
  /\ cleaner[c].at = "failed"
  /\ Goes(c, "release")
  /\ session' = IF session.owner = c THEN [session EXCEPT !.status = "FAILED"] ELSE session
  /\ UNCHANGED <<uploads, work, weather>>

(* The catch block: FAILED, if the session is still this run's and not done.*)
RecordFailure(c) ==
  /\ cleaner[c].at = "failed"
  /\ Goes(c, "release")
  /\ session' = IF session.owner = c /\ ~Done THEN [session EXCEPT !.status = "FAILED"] ELSE session
  /\ UNCHANGED <<uploads, work, weather>>

MutReleaseOwnerOnly(c) ==
  /\ cleaner[c].at = "release"
  /\ Goes(c, "idle")
  /\ session' = IF session.owner = c THEN [session EXCEPT !.owner = Nobody] ELSE session
  /\ UNCHANGED <<uploads, work, weather>>

(* The finally block: the lease is given back, if it is this run's. *)
Release(c) ==
  /\ cleaner[c].at = "release"
  /\ Goes(c, "idle")
  /\ session' = IF session.owner = c
                  THEN [session EXCEPT !.owner = Nobody, !.lapsed = TRUE] ELSE session
  /\ UNCHANGED <<uploads, work, weather>>

(* The end of any run deletes the tombstones that are a day old. *)
Prune ==
  /\ session.status = "DONE"
  /\ session' = [session EXCEPT !.status = "GONE", !.owner = Nobody, !.lapsed = TRUE]
  /\ UNCHANGED <<uploads, work, cleaner, weather>>

CrashCleaner(c) ==
  /\ May("crash") /\ cleaner[c].at # "idle"
  /\ Goes(c, "idle")
  /\ UNCHANGED <<session, uploads, work, weather>>

(* Two minutes have passed since the claim. *)
LeaseExpires ==
  /\ ~session.lapsed
  /\ May("slow") \/ cleaner[session.owner].at \notin AtWork
  /\ session' = [session EXCEPT !.lapsed = TRUE]
  /\ UNCHANGED <<uploads, work, cleaner, weather>>

Calm == Over /\ ~calm /\ calm' = TRUE /\ UNCHANGED <<session, uploads, work, cleaner, faults>>

-----------------------------------------------------------------------------
WorkerStep(w) == ClaimForProcessing(w) \/ Evaluate(w) \/ Settle(w)

CleanerStep(c) ==
  \/ Sweep(c) \/ List(c) \/ Claim(c) \/ ReadUploads(c) \/ ReadJob(c) \/ Remove(c)
  \/ \E k \in Keys : DeleteObject(c, k)
  \/ CheckLease(c) \/ Finish(c) \/ RecordFailure(c) \/ Release(c)

Next ==
  \/ \E k \in Keys : ReserveUpload(k) \/ Put(k) \/ UrlExpires(k)
  \/ Revoke \/ SessionExpires
  \/ \E r \in Requests : Prepare(r) \/ Enqueue(r)
  \/ \E w \in Workers : Take(w) \/ WorkerStep(w) \/ CrashWorker(w)
  \/ \E c \in Cleaners : CleanerStep(c) \/ DatabaseFails(c) \/ CrashCleaner(c)
  \/ Stall \/ LeaseExpires \/ Prune \/ Calm

Spec == Init /\ [][Next]_vars

(* The timer starts a run every ten minutes and a run goes on by itself;   *)
(* deadlines pass; an execution that started ends, and a lost lock is      *)
(* noticed.  Nothing makes a client log out or a worker take a job.        *)
Fairness ==
  /\ \A c \in Cleaners : WF_vars(CleanerStep(c))
  /\ \A w \in Workers : WF_vars(WorkerStep(w))
  /\ \A k \in Keys : WF_vars(UrlExpires(k))
  /\ WF_vars(LeaseExpires) /\ WF_vars(Stall)

FairSpec == Spec /\ Fairness

-----------------------------------------------------------------------------
(* A workspace that counts as cleaned has left nothing in the bucket, and  *)
(* no client can put anything there any more: the rows that name the       *)
(* objects are gone, so whatever is left now is left for good.             *)
DoneIsClean == Done => object = {} /\ url = {}

(* No LLM call is running for a workspace that has been cleaned, unless a  *)
(* live worker lost its lock.                                              *)
NoCallAfterDone == Done /\ "stall" \notin faults => \A w \in Workers : worker[w] # "call"

(* The lease keeps cleaners apart, as long as none outlives it. *)
SoleCleaner ==
  "slow" \notin faults =>
    \A c, d \in Cleaners : cleaner[c].at \in AtWork /\ cleaner[d].at \in AtWork => c = d

(* A cleaned workspace stays so, whatever a run that lost the lease, or was*)
(* told of a failure that was none, writes afterwards.                     *)
DoneIsFinal == [][Done => Done']_vars

(* Once the faults are over every session that has ended is cleaned,       *)
(* whatever crashed runs and leases they have left behind.                 *)
EventuallyDone == Over /\ calm ~> Done
=============================================================================

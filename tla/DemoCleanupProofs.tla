-------------------------- MODULE DemoCleanupProofs --------------------------
(***************************************************************************)
(* Proofs about DemoCleanup for every number of cleaners, uploads,         *)
(* requests and workers and for every environment: a workspace that counts *)
(* as cleaned has left nothing behind and stays cleaned; the lease keeps   *)
(* cleaners apart; no LLM call runs on.                                    *)
(***************************************************************************)
EXTENDS DemoCleanup, TLAPS

Places == {"idle", "list", "claim"} \cup AtWork

(* A cleaner that has read the uploads and not yet failed or finished. *)
Cleaning == {"queue", "remove", "storage", "finish"}

(* Whatever is or may be in the bucket is named by a row. *)
Tracked == url \subseteq recorded /\ object \subseteq recorded

ClosedIsRevoked == session.status # "PENDING" => session.revoked

(* What a run may rely on: the session is closed for good, nobody can      *)
(* upload any more, and every object that is left is on its list, which is *)
(* empty when it finishes.                                                 *)
RunKnows ==
  \A c \in Cleaners :
    /\ cleaner[c].at \in {"claim"} \cup AtWork => session.status # "PENDING"
    /\ cleaner[c].at \in Cleaning => url = {} /\ object \subseteq cleaner[c].keys
    /\ cleaner[c].at = "finish" => cleaner[c].keys = {}

IInv == TypeOK /\ Tracked /\ ClosedIsRevoked /\ RunKnows /\ DoneIsClean

-----------------------------------------------------------------------------
LEMMA CleanerMoves ==
  ASSUME TypeOK, NEW c \in Cleaners, NEW at \in Places, Goes(c, at)
  PROVE  /\ cleaner' \in [Cleaners -> [at : Places, keys : SUBSET Keys]]
         /\ cleaner'[c].at = at /\ cleaner'[c].keys = cleaner[c].keys
         /\ \A d \in Cleaners \ {c} : cleaner'[d] = cleaner[d]
  BY DEF TypeOK, Goes, Places

LEMMA InitIInv == Init => IInv
  <1> SUFFICES ASSUME Init
               PROVE  IInv
    OBVIOUS
  <1>1. job \in JobsOf(Attempts)
    BY NoWorkerAssumption DEF Init, JobsOf, NoJob, Attempts, MaxStalled
  <1>2. TypeOK
    BY <1>1 DEF Init, TypeOK
  <1>3. Tracked /\ ClosedIsRevoked /\ RunKnows /\ DoneIsClean
    BY DEF Init, Tracked, ClosedIsRevoked, RunKnows, DoneIsClean, Done, AtWork, Cleaning
  <1> QED
    BY <1>2, <1>3 DEF IInv

(* Requests, executions and the queue stay away from the session. *)
WorkOnly ==
  \/ \E r \in Requests : Prepare(r) \/ Enqueue(r)
  \/ \E w \in Workers : Take(w) \/ WorkerStep(w) \/ CrashWorker(w)
  \/ Stall

JobOK == job \in JobsOf(Attempts)

LEMMA JobHandled ==
  ASSUME JobOK, NEW w \in Workers, HandOut(w) \/ Report(w, TRUE, TRUE, Attempts)
  PROVE  JobOK'
  <1>1. CASE HandOut(w)
    BY <1>1 DEF JobOK, JobsOf, HandOut
  <1>2. CASE Report(w, TRUE, TRUE, Attempts)
    BY <1>2 DEF JobOK, JobsOf, Report
  <1> QED
    BY <1>1, <1>2

LEMMA JobMoves ==
  ASSUME JobOK, AddJob \/ RemoveJob \/ LoseLock
  PROVE  JobOK'
  <1>1. CASE AddJob \/ RemoveJob
    <2>1. NoJob \in JobsOf(Attempts) /\ [NoJob EXCEPT !.at = "waiting"] \in JobsOf(Attempts)
      BY DEF JobsOf, NoJob, Attempts, MaxStalled
    <2> QED
      BY <1>1, <2>1 DEF JobOK, AddJob, RemoveJob
  <1>2. CASE LoseLock
    <2> DEFINE more == job.stalls + 1
    <2>1. job.stalls < MaxStalled => more \in 0..MaxStalled
      BY DEF JobOK, JobsOf, MaxStalled
    <2> HIDE DEF more
    <2>2. CASE job.stalls < MaxStalled
      <3>1. job' = [job EXCEPT !.at = "waiting", !.stalls = more, !.holder = NoWorker]
        BY <1>2, <2>2 DEF LoseLock, more
      <3> QED
        BY <2>1, <2>2, <3>1 DEF JobOK, JobsOf
    <2>3. CASE ~(job.stalls < MaxStalled)
      BY <1>2, <2>3 DEF LoseLock, JobOK, JobsOf
    <2> QED
      BY <2>2, <2>3
  <1> QED
    BY <1>1, <1>2

LEMMA WorkKeepsIInv ==
  ASSUME IInv, WorkOnly
  PROVE  IInv'
  <1>a. TypeOK /\ JobOK
    BY DEF IInv, TypeOK, JobOK
  <1>1. UNCHANGED <<session, uploads, cleaner, weather>>
    BY DEF WorkOnly, Prepare, Enqueue, Take, WorkerStep, ClaimForProcessing, Evaluate, Settle,
           CrashWorker, Stall
  <1>2. JobOK'
    <2>1. CASE UNCHANGED job
      BY <1>a, <2>1 DEF JobOK
    <2>2. CASE AddJob \/ LoseLock
      BY <1>a, <2>2, JobMoves
    <2>3. CASE \E w \in Workers : HandOut(w) \/ Report(w, TRUE, TRUE, Attempts)
      BY <1>a, <2>3, JobHandled
    <2> QED
      BY <2>1, <2>2, <2>3 DEF WorkOnly, Prepare, Enqueue, Take, WorkerStep, ClaimForProcessing,
                              Evaluate, Settle, CrashWorker, Stall
  <1>3. /\ evaluation' \in {"none", "open", "closed"}
        /\ request' \in [Requests -> {"idle", "enqueue"}]
        /\ worker' \in [Workers -> {"idle", "claim", "call", "settle"}]
    BY <1>a DEF WorkOnly, TypeOK, Prepare, Enqueue, Take, WorkerStep, ClaimForProcessing,
                Evaluate, Settle, CrashWorker, Stall, WorkerGoes
  <1>4. TypeOK'
    BY <1>a, <1>1, <1>2, <1>3 DEF TypeOK, JobOK, uploads, weather
  <1> QED
    BY <1>1, <1>4 DEF IInv, uploads, Tracked, ClosedIsRevoked, RunKnows, DoneIsClean, Done

(* The client: uploads are granted and used only before a run has read     *)
(* that there are none.                                                    *)
LEMMA ClientKeepsIInv ==
  ASSUME IInv,
         \/ \E k \in Keys : ReserveUpload(k) \/ Put(k) \/ UrlExpires(k)
         \/ Revoke \/ SessionExpires \/ LeaseExpires \/ Prune \/ Calm
  PROVE  IInv'
  <1>a. TypeOK /\ Tracked /\ ClosedIsRevoked /\ RunKnows /\ DoneIsClean
    BY DEF IInv
  <1>1. ASSUME NEW k \in Keys, ReserveUpload(k)
        PROVE  IInv'
    BY <1>a, <1>1 DEF ReserveUpload, IInv, TypeOK, Tracked, ClosedIsRevoked, RunKnows, DoneIsClean,
                      Done, Over, work, weather, Cleaning, AtWork
  <1>2. ASSUME NEW k \in Keys, Put(k)
        PROVE  IInv'
    BY <1>a, <1>2 DEF Put, IInv, TypeOK, Tracked, ClosedIsRevoked, RunKnows, DoneIsClean, Done,
                      work, weather
  <1>3. ASSUME NEW k \in Keys, UrlExpires(k)
        PROVE  IInv'
    BY <1>a, <1>3 DEF UrlExpires, IInv, TypeOK, Tracked, ClosedIsRevoked, RunKnows, DoneIsClean,
                      Done, work, weather
  <1>4. CASE Revoke \/ SessionExpires
    BY <1>a, <1>4 DEF Revoke, SessionExpires, IInv, TypeOK, Tracked, ClosedIsRevoked, RunKnows,
                      DoneIsClean, Done, Over, uploads, work, weather
  <1>5. CASE LeaseExpires \/ Prune
    BY <1>a, <1>5 DEF LeaseExpires, Prune, IInv, TypeOK, Tracked, ClosedIsRevoked, RunKnows,
                      DoneIsClean, Done, uploads, work, weather
  <1>6. CASE Calm
    BY <1>a, <1>6 DEF Calm, IInv, TypeOK, Tracked, ClosedIsRevoked, RunKnows, DoneIsClean,
                      Done, uploads, work
  <1> QED
    BY <1>1, <1>2, <1>3, <1>4, <1>5, <1>6

(* A run that only moves on, or writes its verdict on the session. *)
LEMMA CleanerKeepsIInv ==
  ASSUME IInv, NEW c \in Cleaners, CleanerStep(c) \/ DatabaseFails(c) \/ CrashCleaner(c)
  PROVE  IInv'
  <1>a. TypeOK /\ Tracked /\ ClosedIsRevoked /\ RunKnows /\ DoneIsClean /\ JobOK
    BY DEF IInv, TypeOK, JobOK
  <1>w. UNCHANGED weather
    BY DEF CleanerStep, DatabaseFails, CrashCleaner, Sweep, List, Claim, ReadUploads, ReadJob,
           Remove, DeleteObject, CheckLease, Finish,
                  RecordFailure, Release
  <1>0. ASSUME NEW at \in {"idle", "list", "claim", "uploads", "release", "failed"}, Goes(c, at),
               at \in {"claim"} \cup AtWork => session.status # "PENDING",
               UNCHANGED <<uploads, work>>,
               session' \in [revoked : BOOLEAN, expired : BOOLEAN,
                  status : {"PENDING", "WAITING", "FAILED", "DONE", "GONE"},
                  owner : Cleaners \cup {Nobody}, lapsed : BOOLEAN],
               session'.owner = Nobody => session'.lapsed,
               session'.status = "PENDING" => session.status = "PENDING",
               session'.status # "PENDING" => session'.revoked,
               session'.status \in {"DONE", "GONE"} => Done
        PROVE  IInv'
    <2>1. /\ cleaner' \in [Cleaners -> [at : Places, keys : SUBSET Keys]]
          /\ cleaner'[c].at = at
          /\ \A d \in Cleaners \ {c} : cleaner'[d] = cleaner[d]
      BY <1>a, <1>0, CleanerMoves DEF Places, AtWork
    <2>2. TypeOK' /\ Tracked' /\ ClosedIsRevoked' /\ DoneIsClean'
      BY <1>a, <1>w, <1>0, <2>1 DEF TypeOK, Tracked, ClosedIsRevoked, DoneIsClean, Done, uploads,
                                    work, weather, Places
    <2>3. RunKnows'
      BY <1>a, <1>0, <2>1 DEF RunKnows, uploads, Cleaning
    <2> QED
      BY <2>2, <2>3 DEF IInv
  <1>1. CASE Sweep(c)
    <2>1. CASE session.status = "PENDING" /\ Over
      <3>1. session' = [session EXCEPT !.revoked = TRUE, !.status = "WAITING"]
        BY <1>1, <2>1 DEF Sweep
      <3> QED
        BY <1>a, <1>0, <1>1, <3>1 DEF Sweep, TypeOK, AtWork, Done
    <2>2. CASE UNCHANGED session
      BY <1>a, <1>0, <1>1, <2>2 DEF Sweep, TypeOK, AtWork, Done, ClosedIsRevoked
    <2> QED
      BY <1>1, <2>1, <2>2 DEF Sweep
  <1>2. CASE List(c)
    BY <1>a, <1>0, <1>2 DEF List, TypeOK, AtWork, Done, ClosedIsRevoked
  <1>3. CASE Claim(c)
    <2>1. session.status # "PENDING"
      BY <1>a, <1>3 DEF Claim, RunKnows
    <2>2. CASE session' = [session EXCEPT !.owner = c, !.lapsed = FALSE] /\ Goes(c, "uploads")
      BY <1>a, <1>0, <1>3, <2>1, <2>2, NobodyAssumption DEF Claim, TypeOK, AtWork, Done,
                                                          ClosedIsRevoked
    <2>3. CASE UNCHANGED session /\ Goes(c, "idle")
      BY <1>a, <1>0, <1>3, <2>3 DEF Claim, TypeOK, AtWork, Done, ClosedIsRevoked
    <2> QED
      BY <1>3, <2>2, <2>3 DEF Claim
  <1>4. CASE ReadUploads(c)
    <2>0. session.status # "PENDING"
      BY <1>a, <1>4 DEF ReadUploads, RunKnows, AtWork
    <2>1. CASE Goes(c, "release")
      BY <1>a, <1>0, <1>4, <2>0, <2>1 DEF ReadUploads, TypeOK, AtWork, Done, ClosedIsRevoked
    <2>2. CASE url \cap recorded = {}
      <3>1. /\ cleaner' \in [Cleaners -> [at : Places, keys : SUBSET Keys]]
            /\ cleaner'[c].at = "queue" /\ cleaner'[c].keys = recorded
            /\ \A d \in Cleaners \ {c} : cleaner'[d] = cleaner[d]
        BY <1>a, <1>4, <2>2 DEF ReadUploads, TypeOK, Places, AtWork
      <3>2. TypeOK' /\ Tracked' /\ ClosedIsRevoked' /\ DoneIsClean'
        BY <1>a, <1>4, <3>1 DEF ReadUploads, TypeOK, Tracked, ClosedIsRevoked, DoneIsClean, Done,
                                uploads, work, weather, Places
      <3>3. RunKnows'
        BY <1>a, <1>4, <2>0, <2>2, <3>1 DEF ReadUploads, RunKnows, Tracked, uploads
      <3> QED
        BY <3>2, <3>3 DEF IInv
    <2> QED
      BY <1>4, <2>1, <2>2 DEF ReadUploads
  <1>5. CASE ReadJob(c) \/ Remove(c)
    <2>0. session.status # "PENDING" /\ url = {} /\ object \subseteq cleaner[c].keys
      BY <1>a, <1>5 DEF ReadJob, Remove, RunKnows, AtWork, Cleaning
    <2>1. PICK at \in {"storage", "release", "remove"} : Goes(c, at)
      BY <1>5 DEF ReadJob, Remove
    <2>2. /\ cleaner' \in [Cleaners -> [at : Places, keys : SUBSET Keys]]
          /\ cleaner'[c].at = at /\ cleaner'[c].keys = cleaner[c].keys
          /\ \A d \in Cleaners \ {c} : cleaner'[d] = cleaner[d]
      BY <1>a, <2>1, CleanerMoves DEF Places, AtWork
    <2>3. UNCHANGED <<session, uploads, evaluation, request, worker>> /\ JobOK'
      BY <1>a, <1>5, JobMoves DEF ReadJob, Remove, work, JobOK
    <2>4. TypeOK'
      BY <1>a, <1>w, <2>2, <2>3 DEF TypeOK, JobOK, uploads, weather, Places
    <2>5. Tracked' /\ ClosedIsRevoked' /\ DoneIsClean' /\ RunKnows'
      BY <1>a, <2>0, <2>2, <2>3 DEF Tracked, ClosedIsRevoked, DoneIsClean, Done, RunKnows, uploads
    <2> QED
      BY <2>4, <2>5 DEF IInv
  <1>6. ASSUME NEW k \in Keys, DeleteObject(c, k)
        PROVE  IInv'
    <2>0. session.status # "PENDING" /\ url = {} /\ object \subseteq cleaner[c].keys
      BY <1>a, <1>6 DEF DeleteObject, RunKnows, AtWork, Cleaning
    <2>1. CASE Goes(c, "failed") /\ UNCHANGED object
      BY <1>a, <1>0, <1>6, <2>0, <2>1 DEF DeleteObject, TypeOK, AtWork, Done, ClosedIsRevoked,
                                          uploads
    <2>2. CASE object' = object \ {k} /\ cleaner' = [cleaner EXCEPT ![c].keys = @ \ {k}]
      <3>1. /\ cleaner' \in [Cleaners -> [at : Places, keys : SUBSET Keys]]
            /\ cleaner'[c].at = cleaner[c].at /\ cleaner'[c].keys = cleaner[c].keys \ {k}
            /\ \A d \in Cleaners \ {c} : cleaner'[d] = cleaner[d]
        BY <1>a, <2>2 DEF TypeOK, Places
      <3>2. TypeOK' /\ Tracked' /\ ClosedIsRevoked' /\ DoneIsClean'
        BY <1>a, <1>6, <2>2, <3>1 DEF DeleteObject, TypeOK, Tracked, ClosedIsRevoked, DoneIsClean,
                                      Done, work, weather, Places
      <3>3. RunKnows'
        BY <1>a, <1>6, <2>0, <2>2, <3>1 DEF DeleteObject, RunKnows
      <3> QED
        BY <3>2, <3>3 DEF IInv
    <2> QED
      BY <1>6, <2>1, <2>2 DEF DeleteObject
  <1>7. CASE Finish(c)
    <2>0. session.status # "PENDING" /\ url = {} /\ object = {}
      <3>1. cleaner[c].at = "finish"
        BY <1>7 DEF Finish
      <3> QED
        BY <1>a, <3>1 DEF RunKnows, AtWork, Cleaning
    <2>1. CASE UNCHANGED <<session, recorded, evaluation>> /\ Goes(c, "failed")
      BY <1>a, <1>0, <1>7, <2>0, <2>1 DEF Finish, TypeOK, AtWork, Done, ClosedIsRevoked, uploads,
                                          work
    <2>2. CASE /\ session' = [session EXCEPT !.status = "DONE"]
               /\ recorded' = {} /\ evaluation' = "none"
               /\ Goes(c, "release") \/ Goes(c, "failed")
      <3>1. /\ cleaner' \in [Cleaners -> [at : Places, keys : SUBSET Keys]]
            /\ cleaner'[c].at \in {"release", "failed"}
            /\ \A d \in Cleaners \ {c} : cleaner'[d] = cleaner[d]
        BY <1>a, <2>2, CleanerMoves DEF Places, AtWork
      <3>2. UNCHANGED <<url, object, request, worker, job, weather>>
        BY <1>7 DEF Finish
      <3>3. TypeOK'
        BY <1>a, <2>2, <3>1, <3>2 DEF TypeOK, weather, Places
      <3>4. Tracked' /\ ClosedIsRevoked' /\ DoneIsClean' /\ RunKnows'
        BY <1>a, <2>0, <2>2, <3>1, <3>2 DEF TypeOK, Tracked, ClosedIsRevoked, DoneIsClean, Done,
                                            RunKnows, Cleaning
      <3> QED
        BY <3>3, <3>4 DEF IInv
    <2> QED
      BY <1>7, <2>1, <2>2 DEF Finish
  <1>8. CASE RecordFailure(c)
    <2>0. session.status # "PENDING"
      BY <1>a, <1>8 DEF RecordFailure, RunKnows, AtWork
    <2>1. CASE session' = [session EXCEPT !.status = "FAILED"]
      BY <1>a, <1>0, <1>8, <2>0, <2>1 DEF RecordFailure, TypeOK, AtWork, Done, ClosedIsRevoked
    <2>2. CASE UNCHANGED session
      BY <1>a, <1>0, <1>8, <2>0, <2>2 DEF RecordFailure, TypeOK, AtWork, Done, ClosedIsRevoked
    <2> QED
      BY <1>8, <2>1, <2>2 DEF RecordFailure
  <1>9. CASE Release(c)
    <2>1. CASE session' = [session EXCEPT !.owner = Nobody, !.lapsed = TRUE]
      BY <1>a, <1>0, <1>9, <2>1 DEF Release, TypeOK, AtWork, Done, ClosedIsRevoked
    <2>2. CASE UNCHANGED session
      BY <1>a, <1>0, <1>9, <2>2 DEF Release, TypeOK, AtWork, Done, ClosedIsRevoked
    <2> QED
      BY <1>9, <2>1, <2>2 DEF Release
  <1>10. CASE DatabaseFails(c) \/ CrashCleaner(c)
    <2>1. PICK at \in {"idle", "release", "failed"} :
            Goes(c, at) /\ (at # "idle" => cleaner[c].at \in AtWork)
      BY <1>10 DEF DatabaseFails, CrashCleaner, AtWork
    <2>2. UNCHANGED <<session, uploads, work>>
      BY <1>10 DEF DatabaseFails, CrashCleaner
    <2> QED
      BY <1>a, <1>0, <2>1, <2>2 DEF TypeOK, AtWork, Done, ClosedIsRevoked, RunKnows
  <1>11. CASE CheckLease(c)
    <2>0. /\ session.status # "PENDING" /\ url = {} /\ object \subseteq cleaner[c].keys
          /\ cleaner[c].keys = {}
      BY <1>a, <1>11 DEF CheckLease, RunKnows, AtWork, Cleaning
    <2>1. PICK at \in {"finish", "failed"} : Goes(c, at)
      BY <1>11 DEF CheckLease
    <2>2. /\ cleaner' \in [Cleaners -> [at : Places, keys : SUBSET Keys]]
          /\ cleaner'[c].at = at /\ cleaner'[c].keys = cleaner[c].keys
          /\ \A d \in Cleaners \ {c} : cleaner'[d] = cleaner[d]
      BY <1>a, <2>1, CleanerMoves DEF Places, AtWork
    <2>3. UNCHANGED <<session, uploads, work>>
      BY <1>11 DEF CheckLease
    <2>4. TypeOK'
      BY <1>a, <1>w, <2>2, <2>3 DEF TypeOK, uploads, work, weather, Places
    <2>5. Tracked' /\ ClosedIsRevoked' /\ DoneIsClean' /\ RunKnows'
      BY <1>a, <2>0, <2>2, <2>3 DEF Tracked, ClosedIsRevoked, DoneIsClean, Done, RunKnows, uploads
    <2> QED
      BY <2>4, <2>5 DEF IInv
  <1> QED
    BY <1>1, <1>2, <1>3, <1>4, <1>5, <1>6, <1>7, <1>8, <1>9, <1>10, <1>11 DEF CleanerStep

LEMMA NextIInv == IInv /\ [Next]_vars => IInv'
  <1> SUFFICES ASSUME IInv, [Next]_vars
               PROVE  IInv'
    OBVIOUS
  <1>1. CASE UNCHANGED vars
    BY <1>1 DEF IInv, vars, uploads, work, weather, TypeOK, Tracked, ClosedIsRevoked, RunKnows,
                DoneIsClean, Done
  <1>2. CASE Next
    BY <1>2, WorkKeepsIInv, ClientKeepsIInv, CleanerKeepsIInv DEF Next, WorkOnly
  <1> QED
    BY <1>1, <1>2

LEMMA AlwaysIInv == Spec => []IInv
  BY InitIInv, NextIInv, PTL DEF Spec

(* Every reachable state of the cleanup is well typed (demo-cleanup.ts). *)
THEOREM TypeCorrect == Spec => []TypeOK
  BY AlwaysIInv, PTL DEF IInv

(* A session that run() has marked DONE has no object in the bucket and no *)
(* upload URL that could still bring one.                                  *)
THEOREM NothingIsLeft == Spec => []DoneIsClean
  BY AlwaysIInv, PTL DEF IInv

(* DONE is left only for the deletion of the row, whatever late run writes.*)
THEOREM CleanedForGood == Spec => DoneIsFinal
  <1>1. TypeOK /\ [Next]_vars => (Done => Done')
    <2> SUFFICES ASSUME TypeOK, [Next]_vars, Done
                 PROVE  Done'
      OBVIOUS
    <2>1. CASE UNCHANGED session
      BY <2>1 DEF Done
    <2>2. CASE Revoke \/ SessionExpires \/ LeaseExpires \/ Prune
      BY <2>2 DEF TypeOK, Revoke, SessionExpires, LeaseExpires, Prune, Done
    <2>3. ASSUME NEW c \in Cleaners, CleanerStep(c)
          PROVE  Done'
      <3>1. CASE Finish(c)
        BY <2>1, <3>1 DEF TypeOK, Finish, Done
      <3>2. CASE Sweep(c) \/ RecordFailure(c)
        BY <3>2 DEF Sweep, RecordFailure, Done
      <3>3. CASE Claim(c) \/ Release(c)
        BY <3>3 DEF TypeOK, Claim, Release, Done
      <3>4. CASE List(c) \/ ReadUploads(c) \/ ReadJob(c) \/ Remove(c) \/ CheckLease(c)
                  \/ \E k \in Keys : DeleteObject(c, k)
        BY <2>1, <3>4 DEF List, ReadUploads, ReadJob, Remove, CheckLease, DeleteObject
      <3> QED
        BY <2>3, <3>1, <3>2, <3>3, <3>4 DEF CleanerStep
    <2> QED
      BY <2>1, <2>2, <2>3
         DEF Next, vars, ReserveUpload, Put, UrlExpires, Calm, Prepare, Enqueue, Take, WorkerStep,
             ClaimForProcessing, Evaluate, Settle, CrashWorker, Stall, DatabaseFails, CrashCleaner
  <1> QED
    BY <1>1, TypeCorrect, PTL DEF Spec, DoneIsFinal

-----------------------------------------------------------------------------
(* The lease.  A run at work holds it, unless the row is gone; if runs do  *)
(* not outlive their lease, another can claim only when none is at work.   *)
LeaseInv ==
  "slow" \notin faults =>
    \A c \in Cleaners : cleaner[c].at \in AtWork =>
      session.status = "GONE" \/ (session.owner = c /\ ~session.lapsed)

LEMMA NextLease ==
  ASSUME TypeOK, LeaseInv, SoleCleaner, [Next]_vars
  PROVE  LeaseInv' /\ SoleCleaner'
  <1> SUFFICES ASSUME "slow" \notin faults
               PROVE  LeaseInv' /\ SoleCleaner'
    BY DEF Next, vars, weather, LeaseInv, SoleCleaner, ReserveUpload, Put, UrlExpires, Revoke,
           SessionExpires, Prepare, Enqueue, Take, WorkerStep, ClaimForProcessing, Evaluate, Settle,
           CrashWorker, CleanerStep, Sweep, List, Claim, ReadUploads, ReadJob, Remove, DeleteObject,
           CheckLease, Finish, RecordFailure, Release, DatabaseFails, CrashCleaner, Stall, LeaseExpires,
           Prune, Calm
  <1>0. CASE UNCHANGED <<session, cleaner>>
    BY <1>0 DEF LeaseInv, SoleCleaner
  <1>1. CASE Revoke \/ SessionExpires \/ Prune
    <2>1. UNCHANGED cleaner
      BY <1>1 DEF Revoke, SessionExpires, Prune
    <2>2. \/ session'.status = "GONE"
          \/ session'.status = session.status /\ session'.owner = session.owner
             /\ session'.lapsed = session.lapsed
      BY <1>1 DEF TypeOK, Revoke, SessionExpires, Prune
    <2> QED
      BY <2>1, <2>2 DEF LeaseInv, SoleCleaner
  <1>2. CASE LeaseExpires
    <2>1. cleaner[session.owner].at \notin AtWork /\ ~session.lapsed
      BY <1>2 DEF LeaseExpires, May
    <2>2. \A c \in Cleaners : cleaner[c].at \in AtWork => session.status = "GONE"
      BY <2>1 DEF LeaseInv
    <2> QED
      BY <1>2, <2>2 DEF LeaseExpires, TypeOK, LeaseInv, SoleCleaner
  <1>3. ASSUME NEW c \in Cleaners, CleanerStep(c) \/ DatabaseFails(c) \/ CrashCleaner(c)
        PROVE  LeaseInv' /\ SoleCleaner'
    <2>0. \A d \in Cleaners \ {c} : cleaner'[d] = cleaner[d]
      BY <1>3 DEF TypeOK, CleanerStep, DatabaseFails, CrashCleaner, Goes, Sweep, List, Claim,
                  ReadUploads, ReadJob, Remove, DeleteObject, CheckLease, Finish,
                  RecordFailure, Release
    <2>1. CASE Claim(c) /\ Goes(c, "uploads")
      <3>1. session.lapsed /\ ~Done
        BY <2>1 DEF Claim, Goes, TypeOK
      <3>2. \A d \in Cleaners : cleaner[d].at \notin AtWork
        BY <3>1 DEF LeaseInv, Done
      <3>3. session'.owner = c /\ ~session'.lapsed
        BY <2>1, <3>1 DEF Claim, TypeOK
      <3> QED
        BY <2>0, <3>2, <3>3 DEF LeaseInv, SoleCleaner
    <2>2. CASE cleaner'[c].at \notin AtWork /\ (UNCHANGED session \/ cleaner[c].at \in AtWork)
      <3>1. CASE UNCHANGED session
        BY <2>0, <2>2, <3>1 DEF LeaseInv, SoleCleaner
      <3>2. CASE cleaner[c].at \in AtWork
        BY <2>0, <2>2, <3>2 DEF LeaseInv, SoleCleaner
      <3> QED
        BY <2>2, <3>1, <3>2
    <2>3. CASE cleaner[c].at \in AtWork /\ cleaner'[c].at \in AtWork
               /\ (UNCHANGED session \/ session.owner # c \/
                   (session'.owner = session.owner /\ session'.lapsed = session.lapsed))
      <3>1. \A d \in Cleaners \ {c} : cleaner[d].at \notin AtWork
        BY <2>3 DEF SoleCleaner
      <3>2. session'.status = "GONE" \/ (session'.owner = c /\ ~session'.lapsed)
        BY <1>3, <2>3 DEF LeaseInv, TypeOK, CleanerStep, DatabaseFails, CrashCleaner, Goes, Sweep,
                          List, Claim, ReadUploads, ReadJob, Remove, DeleteObject, CheckLease,
                          Finish,
                          RecordFailure, Release, Done
      <3> QED
        BY <2>0, <2>3, <3>1, <3>2 DEF LeaseInv, SoleCleaner
    <2>4. CASE Sweep(c)
      BY <2>0, <2>4 DEF Sweep, Goes, TypeOK, AtWork, LeaseInv, SoleCleaner
    <2>5. CASE List(c) \/ (Claim(c) /\ Goes(c, "idle"))
      <3>1. cleaner'[c].at \notin AtWork /\ UNCHANGED session
        BY <2>5 DEF List, Claim, Goes, TypeOK, AtWork
      <3> QED
        BY <2>2, <3>1
    <2>6. CASE \/ ReadUploads(c) \/ ReadJob(c) \/ Remove(c) \/ CheckLease(c)
               \/ \E k \in Keys : DeleteObject(c, k)
      <3>1. cleaner[c].at \in AtWork /\ cleaner'[c].at \in AtWork /\ UNCHANGED session
        BY <2>6 DEF ReadUploads, ReadJob, Remove, CheckLease, DeleteObject, Goes, TypeOK, AtWork
      <3> QED
        BY <2>3, <3>1
    <2>7. CASE Finish(c) \/ RecordFailure(c)
      <3>1. cleaner[c].at \in AtWork /\ cleaner'[c].at \in AtWork
        BY <2>7 DEF Finish, RecordFailure, Goes, TypeOK, AtWork
      <3>2. session'.owner = session.owner /\ session'.lapsed = session.lapsed
        BY <2>7 DEF Finish, RecordFailure, TypeOK
      <3> QED
        BY <2>3, <3>1, <3>2
    <2>8. CASE Release(c)
      <3>1. cleaner[c].at \in AtWork /\ cleaner'[c].at \notin AtWork
        BY <2>8 DEF Release, Goes, TypeOK, AtWork
      <3> QED
        BY <2>2, <3>1
    <2>9. CASE DatabaseFails(c) \/ CrashCleaner(c)
      <3>1. UNCHANGED session
        BY <2>9 DEF DatabaseFails, CrashCleaner
      <3>2. cleaner'[c].at \in AtWork => cleaner[c].at \in AtWork
        BY <2>9 DEF DatabaseFails, CrashCleaner, Goes, TypeOK, AtWork
      <3> QED
        BY <2>2, <2>3, <3>1, <3>2
    <2>10. Claim(c) => Goes(c, "uploads") \/ Goes(c, "idle")
      BY DEF Claim
    <2> QED
      BY <1>3, <2>1, <2>4, <2>5, <2>6, <2>7, <2>8, <2>9, <2>10 DEF CleanerStep
  <1> QED
    BY <1>0, <1>1, <1>2, <1>3
       DEF Next, vars, uploads, work, ReserveUpload, Put, UrlExpires, Prepare, Enqueue, Take,
           WorkerStep, ClaimForProcessing, Evaluate, Settle, CrashWorker, Stall, Calm

(* Two runs are never at work on one session, for any number of processes, *)
(* as long as none outlives its lease (the conditional update of run()).   *)
THEOREM CleanersAreApart == Spec => []SoleCleaner
  <1>1. Init => LeaseInv /\ SoleCleaner
    BY DEF Init, LeaseInv, SoleCleaner, AtWork
  <1>2. TypeOK /\ LeaseInv /\ SoleCleaner /\ [Next]_vars => LeaseInv' /\ SoleCleaner'
    BY NextLease
  <1> QED
    BY <1>1, <1>2, TypeCorrect, PTL DEF Spec

-----------------------------------------------------------------------------
(* The LLM call.  An execution keeps the job active, so a run that has seen*)
(* or made the job anything else has nobody in a call, and a session that  *)
(* is over lets nobody into one.                                           *)
PastQueue == {"remove", "storage", "finish"}

CallInv ==
  "stall" \notin faults =>
    /\ \A w \in Workers :
         /\ worker[w] # "idle" => job.at = "active" /\ job.holder = w
         /\ worker[w] = "call" => evaluation # "none"
    /\ \A c \in Cleaners : cleaner[c].at \in PastQueue =>
         \A w \in Workers : worker[w] # "call"

LEMMA NextCall ==
  ASSUME IInv, CallInv, NoCallAfterDone, [Next]_vars
  PROVE  CallInv' /\ NoCallAfterDone'
  <1> USE DEF PastQueue
  <1>a. TypeOK /\ ClosedIsRevoked /\ RunKnows
    BY DEF IInv
  <1>f. UNCHANGED faults
    BY DEF Next, vars, weather, ReserveUpload, Put, UrlExpires, Revoke,
           SessionExpires, Prepare, Enqueue, Take, WorkerStep, ClaimForProcessing, Evaluate, Settle,
           CrashWorker, CleanerStep, Sweep, List, Claim, ReadUploads, ReadJob, Remove, DeleteObject,
           CheckLease, Finish, RecordFailure, Release, DatabaseFails, CrashCleaner, Stall, LeaseExpires,
           Prune, Calm
  <1> SUFFICES ASSUME "stall" \notin faults
               PROVE  CallInv' /\ NoCallAfterDone'
    BY <1>f DEF CallInv, NoCallAfterDone
  <1>0. CASE UNCHANGED <<worker, job, evaluation, cleaner>> /\ (Done' => Done)
    BY <1>0 DEF CallInv, NoCallAfterDone
  <1>1. CASE \/ \E k \in Keys : ReserveUpload(k) \/ Put(k) \/ UrlExpires(k)
             \/ Revoke \/ SessionExpires \/ LeaseExpires \/ Prune \/ Calm \/ UNCHANGED vars
    <2>1. UNCHANGED <<worker, job, evaluation, cleaner>> /\ (Done' => Done)
      BY <1>a, <1>1 DEF TypeOK, ReserveUpload, Put, UrlExpires, Revoke, SessionExpires, LeaseExpires,
                        Prune, Calm, vars, work, Done
    <2> QED
      BY <1>0, <2>1
  <1>2. ASSUME NEW r \in Requests, Prepare(r) \/ Enqueue(r)
        PROVE  CallInv' /\ NoCallAfterDone'
    <2>1. UNCHANGED <<worker, cleaner, session>> /\ (evaluation' = "none" => evaluation = "none")
      BY <1>2 DEF Prepare, Enqueue
    <2>2. job.at = "active" => job' = job
      BY <1>2 DEF Prepare, Enqueue, AddJob
    <2> QED
      BY <2>1, <2>2 DEF CallInv, NoCallAfterDone, Done
  <1>3. CASE \E w \in Workers : Take(w) \/ WorkerStep(w) \/ CrashWorker(w)
    <2>1. PICK w \in Workers : Take(w) \/ WorkerStep(w) \/ CrashWorker(w)
      BY <1>3
    <2>2. UNCHANGED <<cleaner, session>> /\ \A v \in Workers \ {w} : worker'[v] = worker[v]
      BY <1>a, <2>1 DEF TypeOK, Take, WorkerStep, ClaimForProcessing, Evaluate, Settle, CrashWorker,
                        WorkerGoes
    <2>3. CASE Take(w)
      <3>1. worker'[w] = "claim" /\ UNCHANGED evaluation
        BY <1>a, <2>3 DEF TypeOK, Take, WorkerGoes
      <3>2. job.at # "active" /\ job'.at = "active" /\ job'.holder = w
        BY <1>a, <2>3 DEF TypeOK, JobsOf, Take, HandOut
      <3>3. \A v \in Workers : worker[v] = "idle"
        BY <3>2 DEF CallInv
      <3> QED
        BY <2>2, <3>1, <3>2, <3>3 DEF CallInv, NoCallAfterDone
    <2>4. CASE ClaimForProcessing(w)
      <3>1. worker[w] = "claim" /\ UNCHANGED <<job, evaluation>>
        BY <2>4 DEF ClaimForProcessing
      <3>2. worker'[w] = "settle" \/ (worker'[w] = "call" /\ evaluation # "none" /\ ~Over)
        BY <1>a, <2>4 DEF TypeOK, ClaimForProcessing, WorkerGoes
      <3>3. ~Over => ~Done /\ \A c \in Cleaners : cleaner[c].at \notin PastQueue
        BY <1>a DEF ClosedIsRevoked, RunKnows, Over, Done, AtWork
      <3> QED
        BY <2>2, <3>1, <3>2, <3>3 DEF CallInv, NoCallAfterDone, Done
    <2>5. CASE Evaluate(w)
      <3>1. worker[w] = "call" /\ worker'[w] = "settle" /\ UNCHANGED job
        BY <1>a, <2>5 DEF TypeOK, Evaluate, WorkerGoes
      <3>2. evaluation' = "none" => evaluation = "none"
        BY <2>5 DEF Evaluate
      <3> QED
        BY <2>2, <3>1, <3>2 DEF CallInv, NoCallAfterDone, Done
    <2>6. CASE Settle(w) \/ CrashWorker(w)
      <3>1. worker[w] # "idle" /\ worker'[w] = "idle" /\ UNCHANGED evaluation
        BY <1>a, <2>6 DEF TypeOK, Settle, CrashWorker, WorkerGoes
      <3>2. \A v \in Workers \ {w} : worker[v] = "idle"
        BY <3>1 DEF CallInv
      <3> QED
        BY <2>2, <3>1, <3>2 DEF CallInv, NoCallAfterDone, Done
    <2> QED
      BY <2>1, <2>3, <2>4, <2>5, <2>6 DEF WorkerStep
  <1>4. CASE Stall
    <2>1. job.at = "active" /\ worker[job.holder] = "idle"
      BY <1>4 DEF Stall, LoseLock, May
    <2>2. \A w \in Workers : worker[w] = "idle"
      BY <2>1 DEF CallInv
    <2> QED
      BY <1>4, <2>2 DEF Stall, CallInv, NoCallAfterDone
  <1>5. ASSUME NEW c \in Cleaners, CleanerStep(c) \/ DatabaseFails(c) \/ CrashCleaner(c)
        PROVE  CallInv' /\ NoCallAfterDone'
    <2>0. \A d \in Cleaners \ {c} : cleaner'[d] = cleaner[d]
      BY <1>a, <1>5 DEF TypeOK, CleanerStep, DatabaseFails, CrashCleaner, Goes, Sweep, List, Claim,
                  ReadUploads, ReadJob, Remove, DeleteObject, CheckLease, Finish,
                  RecordFailure, Release
    <2>1. CASE Finish(c)
      <3>1. \A w \in Workers : worker[w] # "call"
        BY <2>1 DEF Finish, CallInv
      <3>2. cleaner'[c].at \notin PastQueue /\ UNCHANGED <<worker, job>>
        BY <1>a, <2>1 DEF Finish, Goes, TypeOK
      <3> QED
        BY <2>0, <3>1, <3>2 DEF CallInv, NoCallAfterDone
    <2>2. CASE ReadJob(c)
      <3>1. UNCHANGED <<session, worker, job, evaluation>>
        BY <2>2 DEF ReadJob, work
      <3>2. cleaner'[c].at \in PastQueue => evaluation = "none" \/ job.at # "active"
        BY <1>a, <2>2 DEF ReadJob, Goes, TypeOK
      <3> QED
        BY <2>0, <3>1, <3>2 DEF CallInv, NoCallAfterDone, Done
    <2>3. CASE Remove(c)
      <3>1. UNCHANGED <<session, worker, evaluation>> /\ cleaner[c].at = "remove"
        BY <2>3 DEF Remove
      <3>2. job.at = "active" => job' = job
        BY <2>3 DEF Remove, RemoveJob
      <3> QED
        BY <2>0, <3>1, <3>2 DEF CallInv, NoCallAfterDone, Done
    <2>4. CASE \/ UNCHANGED work /\ (Done' => Done)
                  /\ (cleaner'[c].at \in PastQueue => cleaner[c].at \in PastQueue)
      BY <2>0, <2>4 DEF work, CallInv, NoCallAfterDone
    <2>5. CASE Sweep(c) \/ List(c) \/ Claim(c) \/ ReadUploads(c) \/ RecordFailure(c) \/ Release(c)
      <3>1. UNCHANGED work /\ cleaner'[c].at \notin PastQueue
        BY <1>a, <2>5 DEF Sweep, List, Claim, ReadUploads, RecordFailure, Release, Goes, TypeOK
      <3>2. Done' => Done
        BY <1>a, <2>5 DEF Sweep, List, Claim, ReadUploads, RecordFailure, Release, TypeOK, Done
      <3> QED
        BY <2>4, <3>1, <3>2
    <2>6. CASE DatabaseFails(c) \/ CrashCleaner(c) \/ \E k \in Keys : DeleteObject(c, k)
      <3>1. UNCHANGED <<work, session>>
        BY <2>6 DEF DatabaseFails, CrashCleaner, DeleteObject
      <3>2. cleaner'[c].at \in PastQueue => cleaner[c].at \in PastQueue
        BY <1>a, <2>6 DEF DatabaseFails, CrashCleaner, DeleteObject, Goes, TypeOK
      <3> QED
        BY <2>4, <3>1, <3>2 DEF Done
    <2>7. CASE CheckLease(c)
      <3>1. UNCHANGED <<work, session>> /\ cleaner[c].at = "storage"
        BY <2>7 DEF CheckLease
      <3> QED
        BY <2>4, <3>1 DEF Done
    <2> QED
      BY <1>5, <2>1, <2>2, <2>3, <2>5, <2>6, <2>7 DEF CleanerStep
  <1> QED
    BY <1>1, <1>2, <1>3, <1>4, <1>5 DEF Next

(* No LLM call outlives the workspace it was made for, unless a live worker*)
(* lost its lock: run() waits for active jobs, claimForProcessing refuses  *)
(* sessions that are over.                                                 *)
THEOREM NoLateCall == Spec => []NoCallAfterDone
  <1>1. Init => CallInv /\ NoCallAfterDone
    BY DEF Init, CallInv, NoCallAfterDone
  <1>2. IInv /\ CallInv /\ NoCallAfterDone /\ [Next]_vars => CallInv' /\ NoCallAfterDone'
    BY NextCall
  <1> QED
    BY <1>1, <1>2, AlwaysIInv, PTL DEF Spec
=============================================================================

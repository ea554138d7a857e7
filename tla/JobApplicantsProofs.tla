------------------------- MODULE JobApplicantsProofs -------------------------
(***************************************************************************)
(* Proofs about JobApplicants for every set of jobs, users, companies and  *)
(* concurrent requests, with or without the partial unique index.          *)
(***************************************************************************)
EXTENDS JobApplicants, TLAPS

InTransaction == {"winner", "sweep", "commit"}

(* What a request carries agrees with the statements it has executed. *)
ContextOK(s) ==
  /\ s.pc \in {"job", "transition"} => CanTransition(s.status, s.next)
  /\ s.pc = "transition" => s.next # "ACCEPTED"
  /\ s.pc \in {"accepted", "claim"} \cup InTransaction
       => s.status = "PENDING" /\ s.next = "ACCEPTED"
  /\ s.pc = "accepted" => s.version <= job[s.job].version
  /\ s.pc = "claim" => s.version = 0
  /\ s.pc \in {"target", "filled", "insert"} => s.next = "PENDING"

ContextInv == \A r \in Requests : ContextOK(req[r])

(* The row lock of a job belongs to the one open transaction on it, and    *)
(* nobody else commits a hire of that job meanwhile.                       *)
LockInv ==
  /\ \A j \in Jobs : \A r \in Requests :
       lock[j] = r => req[r].pc \in InTransaction /\ req[r].job = j
  /\ \A r \in Requests : req[r].pc \in InTransaction =>
       /\ lock[req[r].job] = r
       /\ job[req[r].job].version = 0

(* The rows an open transaction has updated keep the status it saw. *)
TransactionOK(s) ==
  /\ s.pc \in {"sweep", "commit"} => app[s.job][s.user] = "PENDING"
  /\ s.pc = "commit" => \A v \in s.swept : v # s.user /\ app[s.job][v] = "PENDING"

TransactionInv == \A r \in Requests : TransactionOK(req[r])

IInv ==
  /\ TypeOK
  /\ ContextInv
  /\ LockInv
  /\ TransactionInv
  /\ OneHire
  /\ VersionCountsHires
  /\ AcknowledgedDecision

-----------------------------------------------------------------------------
(* How a step changes the request r: the others keep their state, r keeps  *)
(* its call and goes on with the given pc, status, version and sweep.      *)
OnlyMoves(r) ==
  /\ req' \in [Requests -> RequestState \cup {Idle}]
  /\ \A q \in Requests \ {r} : req'[q] = req[q]

Moves(r, pc, status, version, swept) ==
  /\ OnlyMoves(r)
  /\ req'[r] = [pc |-> pc, job |-> req[r].job, user |-> req[r].user,
                actor |-> req[r].actor, next |-> req[r].next,
                status |-> status, version |-> version, swept |-> swept]
  /\ acked' = acked

(* Whoever is not idle carries a full request. *)
LEMMA RequestTyped ==
  ASSUME TypeOK, NEW r \in Requests, ~At(r, "idle")
  PROVE  req[r] \in RequestState
  BY DEF TypeOK, At, Idle

LEMMA GotoMoves ==
  ASSUME TypeOK, NEW r \in Requests, req[r] \in RequestState, NEW pc \in PCs, Goto(r, pc)
  PROVE  Moves(r, pc, req[r].status, req[r].version, req[r].swept)
  BY DEF TypeOK, RequestState, Goto, Moves, OnlyMoves

LEMMA StatusMoves ==
  ASSUME TypeOK, NEW r \in Requests, req[r] \in RequestState, NEW pc \in PCs,
         NEW status \in Statuses, UNCHANGED acked,
         req' = [req EXCEPT ![r].status = status, ![r].pc = pc]
  PROVE  Moves(r, pc, status, req[r].version, req[r].swept)
  BY DEF TypeOK, RequestState, Moves, OnlyMoves

LEMMA VersionMoves ==
  ASSUME TypeOK, NEW r \in Requests, req[r] \in RequestState, NEW pc \in PCs,
         NEW version \in Nat, UNCHANGED acked,
         req' = [req EXCEPT ![r].version = version, ![r].pc = pc]
  PROVE  Moves(r, pc, req[r].status, version, req[r].swept)
  BY DEF TypeOK, RequestState, Moves, OnlyMoves

LEMMA SweptMoves ==
  ASSUME TypeOK, NEW r \in Requests, req[r] \in RequestState, NEW pc \in PCs,
         NEW swept \in SUBSET Users, UNCHANGED acked,
         req' = [req EXCEPT ![r].pc = pc, ![r].swept = swept]
  PROVE  Moves(r, pc, req[r].status, req[r].version, swept)
  BY DEF TypeOK, RequestState, Moves, OnlyMoves

LEMMA DeclineEnds ==
  ASSUME TypeOK, NEW r \in Requests, Decline(r)
  PROVE  OnlyMoves(r) /\ req'[r] = Idle /\ acked' = acked
  BY DEF TypeOK, Decline, OnlyMoves

LEMMA SucceedEnds ==
  ASSUME TypeOK, NEW r \in Requests, req[r] \in RequestState, Succeed(r)
  PROVE  /\ OnlyMoves(r) /\ req'[r] = Idle
         /\ acked' = acked \cup {<<req[r].job, req[r].user, req[r].next>>}
         /\ acked' \subseteq Jobs \X Users \X Requested
  BY DEF TypeOK, Succeed, OnlyMoves, RequestState

(* A step that gives one application a new status. *)
Writes(j, u, status) ==
  /\ app' \in [Jobs -> [Users -> Statuses]]
  /\ app'[j][u] = status
  /\ \A i \in Jobs, v \in Users : i # j \/ v # u => app'[i][v] = app[i][v]

LEMMA AppWrite ==
  ASSUME TypeOK, NEW j \in Jobs, NEW u \in Users, NEW status \in Statuses,
         app' = [app EXCEPT ![j][u] = status]
  PROVE  Writes(j, u, status)
  BY DEF TypeOK, Writes

-----------------------------------------------------------------------------
LEMMA InitTypeOK == Init => TypeOK
  BY OwnerAssumption DEF Init, TypeOK, Statuses

(* Type correctness, one step per action. *)
LEMMA NextTypeOK == TypeOK /\ [Next]_vars => TypeOK'
  <1> SUFFICES ASSUME TypeOK, [Next]_vars PROVE TypeOK'
    OBVIOUS
  <1>1. ASSUME NEW r \in Requests, NEW j \in Jobs, NEW u \in Users, StartApply(r, j, u)
        PROVE  TypeOK'
    <2>1. Owner[j] \in Companies
      BY OwnerAssumption
    <2> QED
      BY <1>1, <2>1 DEF StartApply, Begin, RequestState, PCs, Statuses, Requested, TypeOK
  <1>2. ASSUME NEW r \in Requests, NEW j \in Jobs, NEW u \in Users, NEW c \in Companies,
               NEW next \in Requested, StartDecision(r, j, u, c, next)
        PROVE  TypeOK'
    BY <1>2 DEF StartDecision, Begin, RequestState, PCs, Statuses, TypeOK
  <1>3. ASSUME NEW j \in Jobs, NEW status \in {"OPEN", "CLOSED"}, UpdateJob(j, status)
        PROVE  TypeOK'
    BY <1>3 DEF UpdateJob, TypeOK
  <1>4. ASSUME NEW r \in Requests, Fail(r)
        PROVE  TypeOK'
    BY <1>4 DEF Fail, Decline, Unlocked, TypeOK
  <1>5. ASSUME NEW r \in Requests, Advance(r), req[r] \in RequestState
        PROVE  TypeOK'
    <2> DEFINE ReqTypeOK == /\ req' \in [Requests -> RequestState \cup {Idle}]
                            /\ acked' \subseteq Jobs \X Users \X Requested
    <2> DEFINE s == req[r]
    <2>a. s.job \in Jobs /\ s.user \in Users /\ s.next \in Requested
      BY <1>5 DEF RequestState
    <2>b. ASSUME Decline(r) PROVE ReqTypeOK
      BY <2>b, DeclineEnds DEF OnlyMoves, TypeOK
    <2>c. ASSUME Succeed(r) PROVE ReqTypeOK
      BY <1>5, <2>c, SucceedEnds DEF OnlyMoves
    <2>d. ASSUME NEW pc \in PCs, Goto(r, pc) PROVE ReqTypeOK
      BY <1>5, <2>d, GotoMoves DEF Moves, OnlyMoves, TypeOK
    <2>1. CASE ReadApplication(r)
      <3>1. app[s.job][s.user] \in Statuses
        BY <2>a DEF TypeOK
      <3>2. ReqTypeOK
        <4>1. CASE Decline(r)
          BY <4>1, <2>b
        <4>2. CASE req' = [req EXCEPT ![r].status = app[s.job][s.user], ![r].pc = "job"]
                   /\ UNCHANGED acked
          BY <1>5, <4>2, <3>1, StatusMoves DEF Moves, OnlyMoves, TypeOK, PCs
        <4> QED
          BY <2>1, <4>1, <4>2 DEF ReadApplication
      <3> QED
        BY <2>1, <3>2 DEF ReadApplication, TypeOK
    <2>2. CASE ReadJob(r)
      <3>1. job[s.job].version \in Nat
        BY <2>a DEF TypeOK
      <3>2. ReqTypeOK
        <4>1. CASE Decline(r)
          BY <4>1, <2>b
        <4>2. CASE Goto(r, "transition")
          BY <4>2, <2>d DEF PCs
        <4>3. CASE req' = [req EXCEPT ![r].version = job[s.job].version, ![r].pc = "accepted"]
                   /\ UNCHANGED acked
          BY <1>5, <4>3, <3>1, VersionMoves DEF Moves, OnlyMoves, TypeOK, PCs
        <4> QED
          BY <2>2, <4>1, <4>2, <4>3 DEF ReadJob
      <3> QED
        BY <2>2, <3>2 DEF ReadJob, TypeOK
    <2>3. CASE ReadAccepted(r)
      <3>1. ReqTypeOK
        BY <2>3, <2>b, <2>d DEF ReadAccepted, PCs
      <3> QED
        BY <2>3, <3>1 DEF ReadAccepted, TypeOK
    <2>4. CASE TransitionStatus(r)
      <3>1. ReqTypeOK
        BY <2>4, <2>b, <2>c DEF TransitionStatus
      <3>2. app' \in [Jobs -> [Users -> Statuses]]
        <4>1. CASE app' = app
          BY <4>1 DEF TypeOK
        <4>2. CASE app' = [app EXCEPT ![s.job][s.user] = s.next]
          BY <4>2, <2>a, AppWrite DEF Writes, Requested
        <4> QED
          BY <2>4, <4>1, <4>2 DEF TransitionStatus
      <3> QED
        BY <2>4, <3>1, <3>2 DEF TransitionStatus, TypeOK
    <2>5. CASE ClaimJob(r)
      <3>1. ReqTypeOK
        BY <2>5, <2>b, <2>d DEF ClaimJob, PCs
      <3>2. lock' \in [Jobs -> Requests \cup {NoOne}]
        BY <2>5, <2>a DEF ClaimJob, TypeOK
      <3> QED
        BY <2>5, <3>1, <3>2 DEF ClaimJob, TypeOK
    <2>6. CASE UpdateWinner(r)
      <3>1. ReqTypeOK
        BY <2>6, <2>b, <2>d DEF UpdateWinner, PCs
      <3>2. lock' \in [Jobs -> Requests \cup {NoOne}]
        BY <2>6 DEF UpdateWinner, TypeOK, Unlocked
      <3> QED
        BY <2>6, <3>1, <3>2 DEF UpdateWinner, TypeOK
    <2>7. CASE RejectOthers(r)
      <3> DEFINE swept == {v \in Users \ {s.user} : app[s.job][v] = s.status}
      <3>1. ReqTypeOK
        <4>1. req' = [req EXCEPT ![r].pc = "commit", ![r].swept = swept] /\ UNCHANGED acked
          BY <2>7 DEF RejectOthers
        <4>2. swept \in SUBSET Users /\ "commit" \in PCs
          BY DEF PCs
        <4> HIDE DEF swept
        <4> QED
          BY <1>5, <4>1, <4>2, SweptMoves DEF Moves, OnlyMoves, TypeOK
      <3> QED
        BY <2>7, <3>1 DEF RejectOthers, TypeOK
    <2>8. CASE Commit(r)
      <3>1. ReqTypeOK
        BY <2>8, <2>b, <2>c DEF Commit
      <3>2. app' \in [Jobs -> [Users -> Statuses]]
        BY <2>8, <2>a DEF Commit, TypeOK, Settled, Statuses
      <3>3. job' \in [Jobs -> [status : {"OPEN", "CLOSED"}, version : Nat]]
        BY <2>8, <2>a DEF Commit, TypeOK
      <3>4. lock' \in [Jobs -> Requests \cup {NoOne}]
        BY <2>8 DEF Commit, TypeOK, Unlocked
      <3> QED
        BY <3>1, <3>2, <3>3, <3>4 DEF TypeOK
    <2>9. CASE ReadTarget(r)
      <3>1. ReqTypeOK
        BY <2>9, <2>b, <2>d DEF ReadTarget, PCs
      <3> QED
        BY <2>9, <3>1 DEF ReadTarget, TypeOK
    <2>10. CASE CheckFilled(r)
      <3>1. ReqTypeOK
        BY <2>10, <2>b, <2>d DEF CheckFilled, PCs
      <3> QED
        BY <2>10, <3>1 DEF CheckFilled, TypeOK
    <2>11. CASE AddJobApplicant(r)
      <3>1. ReqTypeOK
        BY <2>11, <2>b, <2>c DEF AddJobApplicant, NewStatus
      <3>2. app' \in [Jobs -> [Users -> Statuses]]
        <4>1. CASE app' = app
          BY <4>1 DEF TypeOK
        <4>2. CASE app' = [app EXCEPT ![s.job][s.user] = "PENDING"]
          BY <4>2, <2>a, AppWrite DEF Writes, Statuses
        <4> QED
          BY <2>11, <4>1, <4>2 DEF AddJobApplicant, NewStatus
      <3> QED
        BY <2>11, <3>1, <3>2 DEF AddJobApplicant, NewStatus, TypeOK
    <2> QED
      BY <1>5, <2>1, <2>2, <2>3, <2>4, <2>5, <2>6, <2>7, <2>8, <2>9, <2>10, <2>11 DEF Advance
  <1>6. ASSUME NEW r \in Requests, Advance(r)
        PROVE  req[r] \in RequestState
    <2>1. ~At(r, "idle")
      BY <1>6 DEF Advance, ReadApplication, ReadJob, ReadAccepted, TransitionStatus, ClaimJob,
                  UpdateWinner, RejectOthers, Commit, ReadTarget, CheckFilled,
                  AddJobApplicant, At
    <2> QED
      BY <2>1, RequestTyped
  <1>7. CASE UNCHANGED vars
    BY <1>7 DEF vars, TypeOK
  <1> QED
    BY <1>1, <1>2, <1>3, <1>4, <1>5, <1>6, <1>7 DEF Next

(* Every reachable state is well typed. *)
THEOREM TypeCorrect == Spec => []TypeOK
  BY InitTypeOK, NextTypeOK, PTL DEF Spec

-----------------------------------------------------------------------------
LEMMA InitIInv == Init => IInv
  <1> SUFFICES ASSUME Init PROVE IInv
    OBVIOUS
  <1>1. TypeOK
    BY InitTypeOK
  <1>2. ContextInv /\ TransactionInv
    BY DEF Init, ContextInv, ContextOK, TransactionInv, TransactionOK, InTransaction, Idle
  <1>3. LockInv
    BY NoOneAssumption DEF Init, LockInv, InTransaction, Idle
  <1>4. \A j \in Jobs : Hires(j) = {}
    BY DEF Init, Hires, Selected
  <1>5. OneHire /\ VersionCountsHires
    BY <1>4 DEF OneHire, VersionCountsHires, HasAccepted, Init
  <1>6. AcknowledgedDecision
    BY DEF Init, AcknowledgedDecision
  <1> QED
    BY <1>1, <1>2, <1>3, <1>5, <1>6 DEF IInv

(* A step that only moves a request outside of the transaction. *)
LEMMA QuietStep ==
  ASSUME IInv, TypeOK', NEW r \in Requests, OnlyMoves(r), UNCHANGED <<app, job, lock, acked>>,
         req[r].pc \notin InTransaction, req'[r].pc \notin InTransaction,
         ContextOK(req'[r])
  PROVE  IInv'
  <1>1. ContextInv'
    BY DEF IInv, ContextInv, ContextOK, OnlyMoves
  <1>2. LockInv'
    BY DEF IInv, LockInv, OnlyMoves
  <1>3. TransactionInv'
    BY DEF IInv, TransactionInv, TransactionOK, OnlyMoves, InTransaction
  <1>4. OneHire' /\ VersionCountsHires' /\ AcknowledgedDecision'
    BY DEF IInv, OneHire, VersionCountsHires, AcknowledgedDecision, Hires, HasAccepted
  <1> QED
    BY <1>1, <1>2, <1>3, <1>4 DEF IInv

(* A request that is declined, or dies, and whose transaction rolls back. *)
LEMMA EndStep ==
  ASSUME IInv, TypeOK', NEW r \in Requests, OnlyMoves(r), req'[r] = Idle,
         UNCHANGED <<app, job, acked>>, lock' = Unlocked(r)
  PROVE  IInv'
  <1>0. req'[r].pc = "idle"
    BY DEF Idle
  <1>1. ContextInv'
    BY <1>0 DEF IInv, ContextInv, ContextOK, OnlyMoves, InTransaction
  <1>2. LockInv'
    BY <1>0, NoOneAssumption DEF IInv, LockInv, OnlyMoves, Unlocked, TypeOK, InTransaction,
                                 RequestState, Idle
  <1>3. TransactionInv'
    BY <1>0 DEF IInv, TransactionInv, TransactionOK, OnlyMoves, InTransaction
  <1>4. OneHire' /\ VersionCountsHires' /\ AcknowledgedDecision'
    BY DEF IInv, OneHire, VersionCountsHires, AcknowledgedDecision, Hires, HasAccepted
  <1> QED
    BY <1>1, <1>2, <1>3, <1>4 DEF IInv

(* A declined request that holds no lock. *)
LEMMA DeclineStep ==
  ASSUME IInv, TypeOK', NEW r \in Requests, Decline(r), UNCHANGED <<app, job, lock>>,
         req[r].pc \notin InTransaction
  PROVE  IInv'
  <1>1. OnlyMoves(r) /\ req'[r] = Idle /\ acked' = acked
    BY DeclineEnds DEF IInv
  <1>2. req'[r].pc \notin InTransaction /\ ContextOK(req'[r])
    BY <1>1 DEF Idle, InTransaction, ContextOK
  <1> QED
    BY <1>1, <1>2, QuietStep

LEMMA BeginStep ==
  ASSUME IInv, TypeOK', NEW r \in Requests, NEW pc \in {"application", "target"},
         NEW j \in Jobs, NEW u \in Users, NEW c \in Companies, NEW next \in Requested,
         pc = "target" => next = "PENDING",
         Begin(r, pc, j, u, c, next)
  PROVE  IInv'
  <1>1. OnlyMoves(r)
    BY DEF Begin, OnlyMoves, IInv, TypeOK
  <1>2. req[r].pc \notin InTransaction
    BY DEF Begin, At, InTransaction
  <1>3. req'[r].pc = pc /\ req'[r].next = next
    BY DEF Begin, IInv, TypeOK
  <1>4. ContextOK(req'[r]) /\ req'[r].pc \notin InTransaction
    BY <1>3 DEF ContextOK, InTransaction
  <1> QED
    BY <1>1, <1>2, <1>4, QuietStep DEF Begin

(* The reads of both endpoints. *)
LEMMA ReadStep ==
  ASSUME IInv, TypeOK', NEW r \in Requests, req[r] \in RequestState,
         \/ ReadApplication(r) \/ ReadJob(r) \/ ReadAccepted(r)
         \/ ReadTarget(r) \/ CheckFilled(r)
  PROVE  IInv'
  <1> DEFINE s == req[r]
  <1>a. TypeOK /\ ContextOK(s) /\ VersionCountsHires
    BY DEF IInv, ContextInv
  <1>b. s.job \in Jobs /\ s.user \in Users
    BY DEF RequestState
  <1>c. s.pc \notin InTransaction
    BY DEF ReadApplication, ReadJob, ReadAccepted, ReadTarget, CheckFilled, At, InTransaction
  <1>d. UNCHANGED <<app, job, lock>>
    BY DEF ReadApplication, ReadJob, ReadAccepted, ReadTarget, CheckFilled
  <1>e. ASSUME NEW pc \in PCs \ InTransaction, NEW status, NEW version, NEW swept,
               Moves(r, pc, status, version, swept), ContextOK(req'[r])
        PROVE  IInv'
    <2>1. req'[r].pc \notin InTransaction
      BY <1>e DEF Moves
    <2> QED
      BY <1>c, <1>d, <1>e, <2>1, QuietStep DEF Moves
  <1>f. CASE Decline(r)
    BY <1>c, <1>d, <1>f, DeclineStep
  <1>1. CASE ReadApplication(r) /\ ~Decline(r)
    <2> DEFINE status == app[s.job][s.user]
    <2>1. req' = [req EXCEPT ![r].status = status, ![r].pc = "job"] /\ UNCHANGED acked
          /\ CanTransition(status, s.next)
      BY <1>1 DEF ReadApplication
    <2>2. status \in Statuses /\ "job" \in PCs
      BY <1>a, <1>b DEF TypeOK, PCs
    <2>3. Moves(r, "job", status, s.version, s.swept)
      BY <1>a, <2>1, <2>2, StatusMoves
    <2>4. ContextOK(req'[r])
      BY <2>1, <2>3 DEF Moves, ContextOK, InTransaction
    <2>5. "job" \in PCs \ InTransaction
      BY DEF PCs, InTransaction
    <2> QED
      BY <1>e, <2>3, <2>4, <2>5
  <1>2. CASE ReadJob(r) /\ ~Decline(r)
    <2>1. CanTransition(s.status, s.next)
      BY <1>2, <1>a DEF ReadJob, ContextOK, At
    <2>2. CASE s.next # "ACCEPTED"
      <3>1. Goto(r, "transition")
        BY <1>2, <2>2 DEF ReadJob
      <3>2. "transition" \in PCs \ InTransaction
        BY DEF PCs, InTransaction
      <3>3. Moves(r, "transition", s.status, s.version, s.swept)
        BY <1>a, <3>1, <3>2, GotoMoves
      <3>4. ContextOK(req'[r])
        BY <2>1, <2>2, <3>3 DEF Moves, ContextOK, InTransaction
      <3> QED
        BY <1>e, <3>2, <3>3, <3>4
    <2>3. CASE s.next = "ACCEPTED"
      <3> DEFINE version == job[s.job].version
      <3>1. req' = [req EXCEPT ![r].version = version, ![r].pc = "accepted"] /\ UNCHANGED acked
        BY <1>2, <2>3 DEF ReadJob
      <3>2. version \in Nat /\ "accepted" \in PCs \ InTransaction
        BY <1>a, <1>b DEF TypeOK, PCs, InTransaction
      <3>3. Moves(r, "accepted", s.status, version, s.swept)
        BY <1>a, <3>1, <3>2, VersionMoves
      <3>4. s.status = "PENDING"
        BY <2>1, <2>3 DEF CanTransition, AllowedTransitions
      <3>5. ContextOK(req'[r])
        BY <2>3, <3>2, <3>3, <3>4 DEF Moves, ContextOK, InTransaction
      <3> QED
        BY <1>e, <3>2, <3>3, <3>5
    <2> QED
      BY <2>2, <2>3
  <1>3. CASE ReadAccepted(r) /\ ~Decline(r)
    <2>1. Goto(r, "claim") /\ ~HasAccepted(s.job)
      BY <1>3 DEF ReadAccepted
    <2>2. "claim" \in PCs \ InTransaction
      BY DEF PCs, InTransaction
    <2>3. Moves(r, "claim", s.status, s.version, s.swept)
      BY <1>a, <2>1, <2>2, GotoMoves
    <2>4. job[s.job].version = 0
      BY <1>a, <1>b, <2>1 DEF VersionCountsHires
    <2>5. s.status = "PENDING" /\ s.next = "ACCEPTED" /\ s.version <= job[s.job].version
      BY <1>3, <1>a DEF ReadAccepted, ContextOK, At
    <2>6. s.version = 0
      BY <2>4, <2>5 DEF RequestState
    <2>7. ContextOK(req'[r])
      BY <2>3, <2>5, <2>6 DEF Moves, ContextOK, InTransaction
    <2> QED
      BY <1>e, <2>2, <2>3, <2>7
  <1>4. CASE ReadTarget(r) /\ ~Decline(r)
    <2>1. Goto(r, "filled")
      BY <1>4 DEF ReadTarget
    <2>2. "filled" \in PCs \ InTransaction
      BY DEF PCs, InTransaction
    <2>3. Moves(r, "filled", s.status, s.version, s.swept)
      BY <1>a, <2>1, <2>2, GotoMoves
    <2>4. s.next = "PENDING"
      BY <1>4, <1>a DEF ReadTarget, ContextOK, At
    <2>5. ContextOK(req'[r])
      BY <2>3, <2>4 DEF Moves, ContextOK, InTransaction
    <2> QED
      BY <1>e, <2>2, <2>3, <2>5
  <1>5. CASE CheckFilled(r) /\ ~Decline(r)
    <2>1. Goto(r, "insert")
      BY <1>5 DEF CheckFilled
    <2>2. "insert" \in PCs \ InTransaction
      BY DEF PCs, InTransaction
    <2>3. Moves(r, "insert", s.status, s.version, s.swept)
      BY <1>a, <2>1, <2>2, GotoMoves
    <2>4. s.next = "PENDING"
      BY <1>5, <1>a DEF CheckFilled, ContextOK, At
    <2>5. ContextOK(req'[r])
      BY <2>3, <2>4 DEF Moves, ContextOK, InTransaction
    <2> QED
      BY <1>e, <2>2, <2>3, <2>5
  <1> QED
    BY <1>f, <1>1, <1>2, <1>3, <1>4, <1>5

(* The claim takes the row lock, or the request is declined. *)
LEMMA ClaimStep ==
  ASSUME IInv, TypeOK', NEW r \in Requests, req[r] \in RequestState, ClaimJob(r)
  PROVE  IInv'
  <1> DEFINE s == req[r]
  <1>1. s.pc = "claim" /\ s.job \in Jobs /\ UNCHANGED <<app, job>>
    BY DEF ClaimJob, At, RequestState
  <1>2. CASE Decline(r) /\ UNCHANGED lock
    BY <1>1, <1>2, DeclineStep DEF InTransaction
  <1>3. CASE Goto(r, "winner") /\ lock' = [lock EXCEPT ![s.job] = r]
    <2>1. Moves(r, "winner", s.status, s.version, s.swept)
      BY <1>3, GotoMoves DEF IInv, PCs
    <2>2. job[s.job].version = s.version \/ Decline(r)
      BY DEF ClaimJob
    <2>3. ~Decline(r)
      <3>1. req'[r].pc = "winner"
        BY <2>1 DEF Moves
      <3> QED
        BY <3>1, DeclineEnds DEF IInv, Idle
    <2>4. s.status = "PENDING" /\ s.next = "ACCEPTED" /\ s.version = 0
      BY <1>1 DEF IInv, ContextInv, ContextOK
    <2>5. lock[s.job] = NoOne
      BY DEF ClaimJob
    <2>6. ContextInv'
      <3>1. ContextOK(req'[r])
        BY <2>1, <2>4 DEF Moves, ContextOK, InTransaction
      <3> QED
        BY <1>1, <2>1, <3>1 DEF IInv, ContextInv, ContextOK, Moves, OnlyMoves
    <2>7. LockInv'
      <3>1. /\ req'[r].pc = "winner" /\ req'[r].job = s.job
            /\ \A q \in Requests \ {r} : req'[q] = req[q]
        BY <2>1 DEF Moves, OnlyMoves
      <3>2. /\ lock'[s.job] = r
            /\ \A j \in Jobs \ {s.job} : lock'[j] = lock[j]
        BY <1>1, <1>3 DEF IInv, TypeOK
      <3>3. job'[s.job].version = 0
        BY <1>1, <2>2, <2>3, <2>4
      <3>4. \A j \in Jobs, q \in Requests :
              lock'[j] = q => req'[q].pc \in InTransaction /\ req'[q].job = j
        BY <1>1, <3>1, <3>2 DEF IInv, LockInv, InTransaction
      <3>5. ASSUME NEW q \in Requests, req'[q].pc \in InTransaction
            PROVE  lock'[req'[q].job] = q /\ job'[req'[q].job].version = 0
        <4>1. CASE q = r
          BY <3>1, <3>2, <3>3, <4>1
        <4>2. CASE q # r
          <5>1. lock[req[q].job] = q /\ job[req[q].job].version = 0 /\ req'[q] = req[q]
            BY <3>1, <3>5, <4>2 DEF IInv, LockInv
          <5>2. req[q].job \in Jobs
            BY <3>1, <3>5, <4>2 DEF IInv, TypeOK, RequestState, Idle, InTransaction
          <5>3. req[q].job # s.job
            BY <2>5, <5>1, NoOneAssumption
          <5> QED
            BY <1>1, <3>2, <5>1, <5>2, <5>3
        <4> QED
          BY <4>1, <4>2
      <3> QED
        BY <3>4, <3>5 DEF LockInv
    <2>8. TransactionInv'
      BY <1>1, <2>1 DEF IInv, TransactionInv, TransactionOK, Moves, OnlyMoves
    <2>9. OneHire' /\ VersionCountsHires' /\ AcknowledgedDecision'
      BY <1>1, <2>1 DEF IInv, OneHire, VersionCountsHires, AcknowledgedDecision, Hires,
                        HasAccepted, Moves
    <2> QED
      BY <2>6, <2>7, <2>8, <2>9 DEF IInv
  <1> QED
    BY <1>2, <1>3 DEF ClaimJob

(* The winner's update and the sweep move on inside the transaction. *)
LEMMA TransactionStep ==
  ASSUME IInv, TypeOK', NEW r \in Requests, req[r] \in RequestState,
         UpdateWinner(r) \/ RejectOthers(r)
  PROVE  IInv'
  <1> DEFINE s == req[r]
  <1>1. /\ s.pc \in InTransaction /\ s.job \in Jobs /\ s.user \in Users
        /\ UNCHANGED <<app, job>>
    BY DEF UpdateWinner, RejectOthers, At, RequestState, InTransaction
  <1>2. s.status = "PENDING" /\ s.next = "ACCEPTED"
    BY <1>1 DEF IInv, ContextInv, ContextOK
  <1>3. CASE Decline(r) /\ lock' = Unlocked(r)
    BY <1>1, <1>3, DeclineEnds, EndStep DEF IInv
  <1>4. ASSUME NEW pc \in {"sweep", "commit"}, NEW swept \in SUBSET Users,
               Moves(r, pc, s.status, s.version, swept), UNCHANGED lock,
               app[s.job][s.user] = "PENDING",
               pc = "commit" => \A v \in swept : v # s.user /\ app[s.job][v] = "PENDING"
        PROVE  IInv'
    <2>1. /\ req'[r].pc = pc /\ req'[r].job = s.job /\ req'[r].user = s.user
          /\ req'[r].status = s.status /\ req'[r].next = s.next /\ req'[r].swept = swept
          /\ \A q \in Requests \ {r} : req'[q] = req[q]
          /\ acked' = acked
      BY <1>4 DEF Moves, OnlyMoves
    <2>2. ContextInv'
      <3>1. ContextOK(req[r])'
        BY <1>2, <2>1 DEF ContextOK
      <3> QED
        BY <1>1, <2>1, <3>1 DEF IInv, ContextInv, ContextOK
    <2>3. LockInv'
      BY <1>1, <1>4, <2>1 DEF IInv, LockInv, InTransaction
    <2>4. TransactionInv'
      <3>1. TransactionOK(req[r])'
        BY <1>1, <1>4, <2>1 DEF TransactionOK
      <3> QED
        BY <1>1, <2>1, <3>1 DEF IInv, TransactionInv, TransactionOK
    <2>5. OneHire' /\ VersionCountsHires' /\ AcknowledgedDecision'
      BY <1>1, <2>1 DEF IInv, OneHire, VersionCountsHires, AcknowledgedDecision, Hires,
                        HasAccepted
    <2> QED
      BY <2>2, <2>3, <2>4, <2>5 DEF IInv
  <1>5. CASE UpdateWinner(r)
    <2>1. CASE Goto(r, "sweep") /\ UNCHANGED lock /\ app[s.job][s.user] = s.status
      <3>1. Moves(r, "sweep", s.status, s.version, s.swept)
        BY <2>1, GotoMoves DEF IInv, PCs
      <3>2. s.swept \in SUBSET Users
        BY DEF RequestState
      <3> QED
        BY <1>2, <1>4, <2>1, <3>1, <3>2
    <2> QED
      BY <1>3, <1>5, <2>1 DEF UpdateWinner
  <1>6. CASE RejectOthers(r)
    <2> DEFINE swept == {v \in Users \ {s.user} : app[s.job][v] = s.status}
    <2>1. req' = [req EXCEPT ![r].pc = "commit", ![r].swept = swept] /\ UNCHANGED <<lock, acked>>
      BY <1>6 DEF RejectOthers
    <2>2. /\ swept \in SUBSET Users
          /\ \A v \in swept : v # s.user /\ app[s.job][v] = "PENDING"
      BY <1>2
    <2>3. app[s.job][s.user] = "PENDING"
      BY <1>6 DEF IInv, TransactionInv, TransactionOK, RejectOthers, At
    <2> HIDE DEF swept
    <2>4. Moves(r, "commit", s.status, s.version, swept)
      BY <2>1, <2>2, SweptMoves DEF IInv, PCs
    <2> QED
      BY <1>4, <2>1, <2>2, <2>3, <2>4
  <1> QED
    BY <1>5, <1>6

(* A step that leaves every selection and every version as it was. *)
LEMMA SameHires ==
  ASSUME IInv, TypeOK', 
         \A j \in Jobs : job'[j].version = job[j].version,
         \A j \in Jobs, u \in Users : app'[j][u] \in Selected <=> app[j][u] \in Selected
  PROVE  OneHire' /\ VersionCountsHires'
  <1>1. \A j \in Jobs : Hires(j)' = Hires(j)
    BY DEF Hires
  <1> QED
    BY <1>1 DEF IInv, OneHire, VersionCountsHires, HasAccepted

(* A single-statement write of one application and its acknowledgement. *)
LEMMA WriteStep ==
  ASSUME IInv, TypeOK', NEW r \in Requests, req[r] \in RequestState,
         TransitionStatus(r) \/ AddJobApplicant(r)
  PROVE  IInv'
  <1> DEFINE s == req[r]
  <1>1. /\ s.pc \in {"transition", "insert"} /\ s.job \in Jobs /\ s.user \in Users
        /\ s.next \in Requested /\ UNCHANGED <<job, lock>>
    BY DEF TransitionStatus, AddJobApplicant, NewStatus, At, RequestState
  <1>2. CASE Decline(r) /\ UNCHANGED app
    BY <1>1, <1>2, DeclineStep DEF InTransaction
  <1>3. ASSUME app' = [app EXCEPT ![s.job][s.user] = s.next], Succeed(r),
               app[s.job][s.user] \in Selected <=> s.next \in Selected,
               app[s.job][s.user] = "NONE" \/ CanTransition(app[s.job][s.user], s.next),
               \A q \in Requests :
                 TransactionOK(req[q]) /\ req[q].pc \in {"sweep", "commit"} =>
                   \/ req[q].job # s.job
                   \/ /\ req[q].user # s.user
                      /\ req[q].pc = "commit" => s.user \notin req[q].swept
        PROVE  IInv'
    <2>1. Writes(s.job, s.user, s.next)
      BY <1>1, <1>3, AppWrite DEF IInv, Requested
    <2>2. /\ OnlyMoves(r) /\ req'[r].pc = "idle"
          /\ \A q \in Requests \ {r} : req'[q] = req[q]
          /\ acked' = acked \cup {<<s.job, s.user, s.next>>}
      BY <1>3, SucceedEnds DEF IInv, Idle, OnlyMoves
    <2>3. ContextInv'
      BY <1>1, <2>2 DEF IInv, ContextInv, ContextOK, InTransaction
    <2>4. LockInv'
      BY <1>1, <2>2 DEF IInv, LockInv, InTransaction
    <2>5. TransactionInv'
      <3> SUFFICES ASSUME NEW q \in Requests, req'[q].pc \in {"sweep", "commit"}
                   PROVE  TransactionOK(req[q])'
        BY DEF TransactionInv, TransactionOK
      <3>1. q # r /\ req'[q] = req[q]
        BY <2>2
      <3>2. TransactionOK(req[q])
        BY DEF IInv, TransactionInv
      <3>3. req[q].job \in Jobs /\ req[q].user \in Users /\ req[q].swept \subseteq Users
        BY <3>1 DEF IInv, TypeOK, RequestState, Idle
      <3>4. req[q].job # s.job
              \/ (req[q].user # s.user /\ (req[q].pc = "commit" => s.user \notin req[q].swept))
        BY <1>3, <3>1, <3>2
      <3> QED
        BY <2>1, <3>1, <3>2, <3>3, <3>4 DEF TransactionOK, Writes
    <2>6. OneHire' /\ VersionCountsHires'
      <3>1. \A j \in Jobs, u \in Users : app'[j][u] \in Selected <=> app[j][u] \in Selected
        BY <1>1, <1>3, <2>1 DEF Writes
      <3> QED
        BY <1>1, <3>1, SameHires
    <2>7. AcknowledgedDecision'
      <3> SUFFICES ASSUME NEW j \in Jobs, NEW u \in Users, NEW next \in Requested,
                          <<j, u, next>> \in acked'
                   PROVE  \/ app'[j][u] = next
                          \/ CanTransition(next, app'[j][u])
                          \/ next = "PENDING" /\ app'[j][u] = "COMPLETED"
        BY DEF AcknowledgedDecision
      <3>1. CASE <<j, u, next>> = <<s.job, s.user, s.next>>
        BY <2>1, <3>1 DEF Writes
      <3>2. CASE <<j, u, next>> \in acked
        <4>1. \/ app[j][u] = next
              \/ CanTransition(next, app[j][u])
              \/ next = "PENDING" /\ app[j][u] = "COMPLETED"
          BY <3>2 DEF IInv, AcknowledgedDecision
        <4>2. CASE j = s.job /\ u = s.user
          BY <1>3, <2>1, <4>1, <4>2
             DEF Writes, CanTransition, AllowedTransitions, Requested, Statuses
        <4>3. CASE j # s.job \/ u # s.user
          BY <2>1, <4>1, <4>3 DEF Writes
        <4> QED
          BY <4>2, <4>3
      <3> QED
        BY <2>2, <3>1, <3>2
    <2> QED
      BY <2>3, <2>4, <2>5, <2>6, <2>7 DEF IInv
  <1>4. CASE TransitionStatus(r) /\ app[s.job][s.user] = s.status
    <2>1. CanTransition(s.status, s.next) /\ s.next # "ACCEPTED"
      BY <1>4 DEF IInv, ContextInv, ContextOK, TransitionStatus, At
    <2>2. app[s.job][s.user] \in Selected <=> s.next \in Selected
      BY <1>4, <2>1 DEF CanTransition, AllowedTransitions, Selected
    <2>3. ~RowLocked(s.job, s.user)
      BY <1>4 DEF TransitionStatus
    <2>4. \A q \in Requests :
            TransactionOK(req[q]) /\ req[q].pc \in {"sweep", "commit"} =>
              \/ req[q].job # s.job
              \/ /\ req[q].user # s.user
                 /\ req[q].pc = "commit" => s.user \notin req[q].swept
      BY <2>3 DEF RowLocked, At
    <2> QED
      BY <1>3, <1>4, <2>1, <2>2, <2>4 DEF TransitionStatus
  <1>5. CASE AddJobApplicant(r) /\ app[s.job][s.user] = "NONE"
    <2>1. s.next = "PENDING"
      BY <1>5 DEF IInv, ContextInv, ContextOK, AddJobApplicant, NewStatus, At
    <2>2. \A q \in Requests :
            TransactionOK(req[q]) /\ req[q].pc \in {"sweep", "commit"} =>
              \/ req[q].job # s.job
              \/ /\ req[q].user # s.user
                 /\ req[q].pc = "commit" => s.user \notin req[q].swept
      BY <1>5 DEF TransactionOK
    <2> QED
      BY <1>3, <1>5, <2>1, <2>2 DEF AddJobApplicant, NewStatus, Selected
  <1> QED
    BY <1>2, <1>4, <1>5 DEF TransitionStatus, AddJobApplicant, NewStatus

(* What a commit writes: the winner, the swept competitors, the version. *)
LEMMA CommitWrites ==
  ASSUME IInv, NEW r \in Requests, req[r] \in RequestState, Commit(r)
  PROVE  LET s == req[r] IN
         /\ s.job \in Jobs /\ s.user \in Users /\ s.swept \subseteq Users
         /\ s.status = "PENDING" /\ s.next = "ACCEPTED"
         /\ lock[s.job] = r /\ job[s.job].version = 0 /\ ~HasAccepted(s.job)
         /\ app[s.job][s.user] = "PENDING"
         /\ \A v \in s.swept : v # s.user /\ app[s.job][v] = "PENDING"
         /\ app'[s.job] = Settled(r)
         /\ \A i \in Jobs \ {s.job} : app'[i] = app[i] /\ job'[i] = job[i]
         /\ job'[s.job].version = 1
  <1> DEFINE s == req[r]
  <1>1. s.pc = "commit" /\ s.job \in Jobs /\ s.user \in Users /\ s.swept \subseteq Users
    BY DEF Commit, At, RequestState
  <1>2. lock[s.job] = r /\ job[s.job].version = 0
    BY <1>1 DEF IInv, LockInv, InTransaction
  <1>3. ~HasAccepted(s.job)
    BY <1>1, <1>2 DEF IInv, VersionCountsHires
  <1>4. app[s.job][s.user] = "PENDING" /\ \A v \in s.swept : v # s.user /\ app[s.job][v] = "PENDING"
    BY <1>1 DEF IInv, TransactionInv, TransactionOK
  <1>5. s.status = "PENDING" /\ s.next = "ACCEPTED"
    BY <1>1 DEF IInv, ContextInv, ContextOK, InTransaction
  <1>6. app'[s.job] = Settled(r) /\ \A i \in Jobs \ {s.job} : app'[i] = app[i]
    BY <1>1 DEF Commit, IInv, TypeOK
  <1>7. job'[s.job].version = 1 /\ \A i \in Jobs \ {s.job} : job'[i] = job[i]
    BY <1>1, <1>2 DEF Commit, IInv, TypeOK
  <1> QED
    BY <1>1, <1>2, <1>3, <1>4, <1>5, <1>6, <1>7

LEMMA CommitStep ==
  ASSUME IInv, TypeOK', NEW r \in Requests, req[r] \in RequestState, Commit(r)
  PROVE  IInv'
  <1> DEFINE s == req[r]
  <1>1. /\ s.job \in Jobs /\ s.user \in Users /\ s.swept \subseteq Users
        /\ s.status = "PENDING" /\ s.next = "ACCEPTED"
        /\ lock[s.job] = r /\ ~HasAccepted(s.job)
        /\ app[s.job][s.user] = "PENDING"
        /\ \A v \in s.swept : v # s.user /\ app[s.job][v] = "PENDING"
    BY CommitWrites
  <1>2. /\ \A i \in Jobs \ {s.job} : app'[i] = app[i] /\ job'[i] = job[i]
        /\ job'[s.job].version = 1
    BY CommitWrites
  <1>3. \A v \in Users : app'[s.job][v] = IF v = s.user THEN "ACCEPTED"
                                           ELSE IF v \in s.swept THEN "REJECTED"
                                           ELSE app[s.job][v]
    <2>1. app'[s.job] = Settled(r)
      BY CommitWrites
    <2> QED
      BY <2>1 DEF Settled
  <1>4. /\ OnlyMoves(r) /\ req'[r].pc = "idle"
        /\ \A q \in Requests \ {r} : req'[q] = req[q]
        /\ acked' \subseteq acked \cup {<<s.job, s.user, s.next>>}
    BY DeclineEnds, SucceedEnds DEF Commit, IInv, Idle, OnlyMoves
  <1>5. \A i \in Jobs : lock'[i] = IF lock[i] = r THEN NoOne ELSE lock[i]
    BY DEF Commit, Unlocked
  <1>6. \A q \in Requests \ {r} : req[q].pc \in InTransaction =>
             req[q].job \in Jobs \ {s.job} /\ lock[req[q].job] = q
    <2> SUFFICES ASSUME NEW q \in Requests \ {r}, req[q].pc \in InTransaction
                 PROVE  req[q].job \in Jobs \ {s.job} /\ lock[req[q].job] = q
      OBVIOUS
    <2>1. req[q].job \in Jobs
      BY DEF IInv, TypeOK, RequestState, Idle, InTransaction
    <2>2. lock[req[q].job] = q
      BY DEF IInv, LockInv
    <2> QED
      BY <1>1, <2>1, <2>2
  <1>7. ContextInv'
    <2> SUFFICES ASSUME NEW q \in Requests, q # r PROVE ContextOK(req[q])'
      BY <1>4 DEF ContextInv, ContextOK, InTransaction
    <2>1. req'[q] = req[q] /\ ContextOK(req[q])
      BY <1>4 DEF IInv, ContextInv
    <2>2. ASSUME req[q].pc = "accepted" PROVE req[q].version <= job'[req[q].job].version
      <3>1. req[q].job \in Jobs /\ req[q].version \in Nat
        BY <2>2 DEF IInv, TypeOK, RequestState, Idle
      <3>2. req[q].version <= job[req[q].job].version
        BY <2>1, <2>2 DEF ContextOK
      <3>3. job[s.job].version = 0
        BY CommitWrites
      <3> QED
        BY <1>1, <1>2, <3>1, <3>2, <3>3
    <2> QED
      BY <2>1, <2>2 DEF ContextOK
  <1>8. LockInv'
    <2>1. ASSUME NEW j \in Jobs, NEW q \in Requests, lock'[j] = q
          PROVE  req'[q].pc \in InTransaction /\ req'[q].job = j
      <3>1. lock[j] = q /\ q # r
        BY <1>5, <2>1, NoOneAssumption
      <3> QED
        BY <1>4, <3>1 DEF IInv, LockInv
    <2>2. ASSUME NEW q \in Requests, req'[q].pc \in InTransaction
          PROVE  lock'[req'[q].job] = q /\ job'[req'[q].job].version = 0
      <3>1. q # r /\ req'[q] = req[q]
        BY <1>4, <2>2 DEF InTransaction
      <3>2. req[q].job \in Jobs \ {s.job} /\ lock[req[q].job] = q
        BY <1>6, <2>2, <3>1
      <3>3. job[req[q].job].version = 0
        BY <2>2, <3>1 DEF IInv, LockInv
      <3> QED
        BY <1>2, <1>5, <3>1, <3>2, <3>3
    <2> QED
      BY <2>1, <2>2 DEF LockInv
  <1>9. TransactionInv'
    <2> SUFFICES ASSUME NEW q \in Requests, req'[q].pc \in {"sweep", "commit"}
                 PROVE  TransactionOK(req[q])'
      BY DEF TransactionInv, TransactionOK
    <2>1. q # r /\ req'[q] = req[q]
      BY <1>4
    <2>2. req[q].job \in Jobs \ {s.job}
      BY <1>6, <2>1 DEF InTransaction
    <2>3. TransactionOK(req[q])
      BY DEF IInv, TransactionInv
    <2> QED
      BY <1>2, <2>1, <2>2, <2>3 DEF TransactionOK
  <1>10. OneHire' /\ VersionCountsHires'
    <2>1. \A v \in Users : app[s.job][v] \notin Selected
      BY <1>1 DEF HasAccepted, Hires
    <2>2. ASSUME NEW i \in Jobs, i = s.job
          PROVE  Hires(i)' = {s.user}
      <3>1. \A v \in Users : app'[i][v] \in Selected <=> v = s.user
        BY <1>3, <2>1, <2>2 DEF Selected
      <3> QED
        BY <1>1, <3>1 DEF Hires
    <2>3. \A i \in Jobs \ {s.job} : Hires(i)' = Hires(i)
      BY <1>2 DEF Hires
    <2>4. OneHire'
      BY <2>2, <2>3 DEF IInv, OneHire
    <2>5. VersionCountsHires'
      <3> SUFFICES ASSUME NEW i \in Jobs
                   PROVE  job'[i].version = IF Hires(i)' # {} THEN 1 ELSE 0
        BY DEF VersionCountsHires, HasAccepted
      <3>1. CASE i = s.job
        BY <1>2, <2>2, <3>1
      <3>2. CASE i # s.job
        BY <1>2, <2>3, <3>2 DEF IInv, VersionCountsHires, HasAccepted
      <3> QED
        BY <3>1, <3>2
    <2> QED
      BY <2>4, <2>5
  <1>11. AcknowledgedDecision'
    <2> SUFFICES ASSUME NEW j \in Jobs, NEW u \in Users, NEW next \in Requested,
                        <<j, u, next>> \in acked'
                 PROVE  \/ app'[j][u] = next
                        \/ CanTransition(next, app'[j][u])
                        \/ next = "PENDING" /\ app'[j][u] = "COMPLETED"
      BY DEF AcknowledgedDecision
    <2>1. CASE <<j, u, next>> = <<s.job, s.user, s.next>>
      BY <1>1, <1>3, <2>1
    <2>2. CASE <<j, u, next>> \in acked
      <3>1. \/ app[j][u] = next
            \/ CanTransition(next, app[j][u])
            \/ next = "PENDING" /\ app[j][u] = "COMPLETED"
        BY <2>2 DEF IInv, AcknowledgedDecision
      <3>2. CASE j = s.job /\ (u = s.user \/ u \in s.swept)
        <4>1. app[j][u] = "PENDING" /\ app'[j][u] \in {"ACCEPTED", "REJECTED"}
          BY <1>1, <1>3, <3>2
        <4>2. next = "PENDING"
          BY <3>1, <4>1 DEF CanTransition, AllowedTransitions
        <4> QED
          BY <4>1, <4>2 DEF CanTransition, AllowedTransitions
      <3>3. CASE ~(j = s.job /\ (u = s.user \/ u \in s.swept))
        BY <1>2, <1>3, <3>1, <3>3
      <3> QED
        BY <3>2, <3>3
    <2> QED
      BY <1>4, <2>1, <2>2
  <1> QED
    BY <1>7, <1>8, <1>9, <1>10, <1>11 DEF IInv

(* The owner's status edit touches nothing the hiring depends on. *)
LEMMA UpdateJobStep ==
  ASSUME IInv, TypeOK', NEW j \in Jobs, NEW status \in {"OPEN", "CLOSED"}, UpdateJob(j, status)
  PROVE  IInv'
  <1>1. /\ UNCHANGED <<app, lock, req, acked>>
        /\ \A i \in Jobs : job'[i].version = job[i].version
    BY DEF UpdateJob, IInv, TypeOK
  <1>2. ContextInv'
    <2> SUFFICES ASSUME NEW q \in Requests PROVE ContextOK(req[q])'
      BY DEF ContextInv
    <2>1. req[q].pc = "accepted" => req[q].job \in Jobs
      BY DEF IInv, TypeOK, RequestState, Idle
    <2> QED
      BY <1>1, <2>1 DEF IInv, ContextInv, ContextOK
  <1>3. LockInv'
    <2> SUFFICES ASSUME NEW q \in Requests, req[q].pc \in InTransaction
                 PROVE  job'[req[q].job].version = 0
      BY <1>1 DEF IInv, LockInv
    <2>1. req[q].job \in Jobs
      BY DEF IInv, TypeOK, RequestState, Idle, InTransaction
    <2> QED
      BY <1>1, <2>1 DEF IInv, LockInv
  <1>4. TransactionInv' /\ AcknowledgedDecision'
    BY <1>1 DEF IInv, TransactionInv, TransactionOK, AcknowledgedDecision
  <1>5. OneHire' /\ VersionCountsHires'
    BY <1>1, SameHires
  <1> QED
    BY <1>2, <1>3, <1>4, <1>5 DEF IInv

LEMMA NextIInv == IInv /\ [Next]_vars => IInv'
  <1> SUFFICES ASSUME IInv, [Next]_vars PROVE IInv'
    OBVIOUS
  <1>0. TypeOK /\ TypeOK'
    BY NextTypeOK DEF IInv
  <1>1. ASSUME NEW r \in Requests, NEW j \in Jobs, NEW u \in Users, StartApply(r, j, u)
        PROVE  IInv'
    <2>1. Owner[j] \in Companies /\ "PENDING" \in Requested
      BY OwnerAssumption DEF Requested, Statuses
    <2> QED
      BY <1>0, <1>1, <2>1, BeginStep DEF StartApply
  <1>2. ASSUME NEW r \in Requests, NEW j \in Jobs, NEW u \in Users, NEW c \in Companies,
               NEW next \in Requested, StartDecision(r, j, u, c, next)
        PROVE  IInv'
    BY <1>0, <1>2, BeginStep DEF StartDecision
  <1>3. ASSUME NEW j \in Jobs, NEW status \in {"OPEN", "CLOSED"}, UpdateJob(j, status)
        PROVE  IInv'
    BY <1>0, <1>3, UpdateJobStep
  <1>4. ASSUME NEW r \in Requests, Fail(r)
        PROVE  IInv'
    BY <1>0, <1>4, DeclineEnds, EndStep DEF Fail
  <1>5. ASSUME NEW r \in Requests, Advance(r)
        PROVE  IInv'
    <2>1. ~At(r, "idle")
      BY <1>5 DEF Advance, ReadApplication, ReadJob, ReadAccepted, TransitionStatus, ClaimJob,
                  UpdateWinner, RejectOthers, Commit, ReadTarget, CheckFilled,
                  AddJobApplicant, At
    <2>2. req[r] \in RequestState
      BY <1>0, <2>1, RequestTyped
    <2> QED
      BY <1>0, <1>5, <2>2, ReadStep, ClaimStep, TransactionStep, WriteStep, CommitStep DEF Advance
  <1>6. CASE UNCHANGED vars
    BY <1>6 DEF vars, IInv, TypeOK, ContextInv, ContextOK, LockInv, TransactionInv,
                TransactionOK,
                OneHire, VersionCountsHires, AcknowledgedDecision, Hires, HasAccepted
  <1> QED
    BY <1>1, <1>2, <1>3, <1>4, <1>5, <1>6 DEF Next

LEMMA Inductive == Spec => []IInv
  BY InitIInv, NextIInv, PTL DEF Spec

-----------------------------------------------------------------------------
(* No job ever has two selected applicants. *)
THEOREM HiresAtMostOne == Spec => []OneHire
  <1>1. IInv => OneHire
    BY DEF IInv
  <1> QED
    BY Inductive, <1>1, PTL

(* The optimistic version of a job counts its committed hires. *)
THEOREM VersionIsHireCount == Spec => []VersionCountsHires
  <1>1. IInv => VersionCountsHires
    BY DEF IInv
  <1> QED
    BY Inductive, <1>1, PTL

(* A claim that will pass the version check claims a job without a hire. *)
THEOREM VersionGuards == Spec => []VersionGuardsHire
  <1>1. IInv => VersionGuardsHire
    <2> SUFFICES ASSUME IInv, NEW r \in Requests, At(r, "claim"),
                        req[r].version = job[req[r].job].version
                 PROVE  ~HasAccepted(req[r].job)
      BY DEF VersionGuardsHire
    <2>1. req[r].version = 0
      BY DEF IInv, ContextInv, ContextOK, At
    <2>2. req[r].job \in Jobs
      BY RequestTyped DEF IInv, At, RequestState
    <2>3. job[req[r].job].version = 0
      BY <2>1
    <2> QED
      BY <2>2, <2>3 DEF IInv, VersionCountsHires, HasAccepted
  <1> QED
    BY Inductive, <1>1, PTL

(* What a request was told stays true. *)
THEOREM AcknowledgementsHold == Spec => []AcknowledgedDecision
  <1>1. IInv => AcknowledgedDecision
    BY DEF IInv
  <1> QED
    BY Inductive, <1>1, PTL

(* Every step of the requests is a step of Hiring or changes no application. *)
LEMMA StepImplements == IInv /\ [Next]_vars => [Abstract!Next]_app
  <1> SUFFICES ASSUME IInv, [Next]_vars, app' # app PROVE Abstract!Next
    OBVIOUS
  <1>1. ASSUME NEW r \in Requests, Advance(r)
        PROVE  Abstract!Next
    <2> DEFINE s == req[r]
    <2>1. TransitionStatus(r) \/ AddJobApplicant(r) \/ Commit(r)
      BY <1>1 DEF Advance, ReadApplication, ReadJob, ReadAccepted, ClaimJob,
                  UpdateWinner, RejectOthers, ReadTarget, CheckFilled
    <2>2. s \in RequestState
      BY <2>1, RequestTyped DEF TransitionStatus, AddJobApplicant, NewStatus, Commit, At, IInv
    <2>3. s.job \in Jobs /\ s.user \in Users
      BY <2>2 DEF RequestState
    <2>4. CASE TransitionStatus(r)
      <3>1. /\ app[s.job][s.user] = s.status
            /\ app' = [app EXCEPT ![s.job][s.user] = s.next]
        BY <2>4 DEF TransitionStatus
      <3>2. CanTransition(s.status, s.next) /\ s.next # "ACCEPTED"
        BY <2>4 DEF IInv, ContextInv, ContextOK, TransitionStatus, At
      <3>3. \/ s.status = "PENDING" /\ s.next = "REJECTED"
            \/ s.status = "ACCEPTED" /\ s.next = "COMPLETED"
        BY <3>2 DEF CanTransition, AllowedTransitions
      <3>4. Abstract!Reject(s.job, s.user) \/ Abstract!Complete(s.job, s.user)
        BY <3>1, <3>3 DEF Abstract!Reject, Abstract!Complete
      <3> QED
        BY <2>3, <3>4 DEF Abstract!Next
    <2>5. CASE AddJobApplicant(r)
      <3>1. Abstract!Apply(s.job, s.user)
        BY <2>5 DEF AddJobApplicant, NewStatus, Abstract!Apply
      <3> QED
        BY <2>3, <3>1 DEF Abstract!Next
    <2>6. CASE Commit(r)
      <3>1. app' = [app EXCEPT ![s.job] = Settled(r)]
        BY <2>6 DEF Commit
      <3>2. /\ ~HasAccepted(s.job) /\ app[s.job][s.user] = "PENDING"
            /\ s.swept \in SUBSET Users
            /\ \A v \in s.swept : v # s.user /\ app[s.job][v] = "PENDING"
        BY <2>2, <2>6, CommitWrites
      <3>3. Abstract!Hires(s.job) = {}
        BY <3>2 DEF HasAccepted, Hires, Selected, Abstract!Hires, Abstract!Selected
      <3>4. Abstract!Hire(s.job, s.user, s.swept)
        BY <2>3, <3>1, <3>2, <3>3 DEF Abstract!Hire, Settled, IInv, TypeOK
      <3> QED
        BY <2>3, <3>2, <3>4 DEF Abstract!Next
    <2> QED
      BY <2>1, <2>4, <2>5, <2>6
  <1> QED
    BY <1>1 DEF Next, Fail, StartApply, StartDecision, Begin, UpdateJob, vars

(* The requests implement Hiring. *)
THEOREM HiringImplemented == Spec => ImplementsHiring
  <1>1. Init => Abstract!Init
    BY DEF Init, Abstract!Init
  <1> QED
    BY <1>1, Inductive, StepImplements, PTL DEF Spec, ImplementsHiring, Abstract!Spec
=============================================================================

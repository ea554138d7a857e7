---------------------------- MODULE SessionsProofs ----------------------------
(***************************************************************************)
(* Proofs about the rest of a deployment (Sessions), for every number of   *)
(* sockets, processes, versions, accounts and tokens: joining a room misses*)
(* no event; what AuthProofs shows of ordinary accounts by themselves holds*)
(* next to the demo, its sockets and the end of the process; the process   *)
(* exits once and in order; and every variable keeps its type.             *)
(***************************************************************************)
EXTENDS DemoSessionsProofs

SocketRecords ==
  [at : {"off", "auth", "open"}, room : {"evaluation", "resume"}, home : Processes,
   s : 0..MaxSessions, generation : Nat, owner : BOOLEAN, member : BOOLEAN,
   join : {"none", "allowed", "entered", "read", "answered"}, seen : Versions, known : Versions]

RowRecords ==
  [status : Statuses, version : Versions, resetting : BOOLEAN, rereading : SUBSET Processes]

(* Nothing is announced or emitted before it is committed. *)
RowInv ==
  /\ row \in RowRecords
  /\ unsent \subseteq Versions \X Processes
  /\ emitted \in [Processes -> Versions]
  /\ \A e \in unsent : e[1] <= row.version
  /\ \A p \in Processes : emitted[p] <= row.version

(* What is known of one socket: a client is not ahead of the row, who has  *)
(* entered a room is a member of it, and every event its process emitted   *)
(* so far was sent to it or is covered by the second read.                 *)
Informed(q) ==
  /\ q.known <= row.version /\ q.seen <= row.version
  /\ q.join \in {"entered", "read", "answered"} => q.member
  /\ q.join = "read" => emitted[q.home] <= q.known \/ emitted[q.home] <= q.seen
  /\ q.join = "answered" => emitted[q.home] <= q.known

SocketInv ==
  /\ RowInv
  /\ socket \in [Sockets -> SocketRecords]
  /\ \A k \in Sockets : Informed(socket[k])

LEMMA OffIsInformed ==
  ASSUME row \in RowRecords
  PROVE  Off \in SocketRecords /\ Informed(Off) /\ Off.join = "none" /\ Off.known = 0 /\ Off.seen = 0
  <1>1. (CHOOSE p \in Processes : TRUE) \in Processes
    BY RealtimeAssumption
  <1> DEFINE home == CHOOSE p \in Processes : TRUE
  <1> HIDE DEF home
  <1>2. Off = [at |-> "off", room |-> "evaluation", home |-> home, s |-> 0, generation |-> 0,
               owner |-> FALSE, member |-> FALSE, join |-> "none", seen |-> 0, known |-> 0]
    BY DEF Off, home
  <1> QED
    BY <1>1, <1>2, RealtimeAssumption, DemoAssumption
       DEF SocketRecords, Informed, RowRecords, Versions, home

LEMMA SocketIsInformed ==
  ASSUME SocketInv, NEW k \in Sockets
  PROVE  /\ socket[k] \in SocketRecords /\ Informed(socket[k])
         /\ socket[k].home \in Processes /\ emitted[socket[k].home] \in Nat
         /\ socket[k].known \in Nat /\ socket[k].seen \in Nat
         /\ row \in RowRecords /\ row.version \in Nat
  BY RealtimeAssumption DEF SocketInv, RowInv, SocketRecords, RowRecords, Versions

(* One socket changes. *)
LEMMA SocketBecomes ==
  ASSUME SocketInv, NEW k \in Sockets, NEW q \in SocketRecords, Informed(q),
         socket' = [socket EXCEPT ![k] = q], UNCHANGED rowVars
  PROVE  SocketInv'
  <1>1. UNCHANGED <<row, unsent, emitted>>
    BY DEF rowVars
  <1>2. RowInv'
    BY <1>1 DEF SocketInv, RowInv
  <1>3. socket' \in [Sockets -> SocketRecords]
    BY DEF SocketInv
  <1>4. ASSUME NEW j \in Sockets PROVE Informed(socket[j])'
    <2>1. Informed(socket'[j])
      BY DEF SocketInv
    <2> QED
      BY <1>1, <2>1 DEF Informed
  <1> QED
    BY <1>2, <1>3, <1>4 DEF SocketInv

(* The row changes, announced or not. *)
LEMMA RowBecomes ==
  ASSUME SocketInv, row' \in RowRecords, row.version <= row'.version,
         unsent' \subseteq Versions \X Processes, \A e \in unsent' : e[1] <= row'.version,
         UNCHANGED <<socket, emitted>>
  PROVE  SocketInv'
  <1>1. row.version \in Nat /\ row'.version \in Nat
    BY RealtimeAssumption DEF SocketInv, RowInv, RowRecords, Versions
  <1>2. RowInv'
    <2>1. ASSUME NEW p \in Processes PROVE emitted'[p] <= row'.version
      <3>1. emitted[p] \in Nat /\ emitted[p] <= row.version
        BY RealtimeAssumption DEF SocketInv, RowInv, Versions
      <3> QED
        BY <1>1, <3>1
    <2>2. emitted' \in [Processes -> Versions]
      BY DEF SocketInv, RowInv
    <2> QED
      BY <2>1, <2>2 DEF RowInv
  <1>3. ASSUME NEW k \in Sockets PROVE Informed(socket[k])'
    <2>1. Informed(socket[k]) /\ socket[k].known \in Nat /\ socket[k].seen \in Nat
      BY SocketIsInformed
    <2>2. socket[k].known <= row'.version /\ socket[k].seen <= row'.version
      BY <1>1, <2>1 DEF Informed
    <2> QED
      BY <2>1, <2>2 DEF Informed
  <1> QED
    BY <1>2, <1>3 DEF SocketInv

LEMMA NewerIsNewest ==
  ASSUME NEW v \in Nat, NEW w \in Nat
  PROVE  Newer(v, w) \in {v, w} /\ v <= Newer(v, w) /\ w <= Newer(v, w)
  BY DEF Newer

LEMMA SocketStepsKeep ==
  ASSUME SocketInv, DemoTypeOK, NEW k \in Sockets, SocketSteps(k)
  PROVE  SocketInv'
  <1>a. /\ socket[k] \in SocketRecords /\ Informed(socket[k]) /\ row \in RowRecords
        /\ socket[k].known \in Nat /\ socket[k].seen \in Nat /\ row.version \in Nat
    BY SocketIsInformed
  <1>b. /\ Off \in SocketRecords /\ Informed(Off) /\ Off.join = "none"
        /\ Off.known = 0 /\ Off.seen = 0
    BY <1>a, OffIsInformed
  <1>1. CASE Recheck(k) \/ Deadline(k) \/ Disconnect(k)
    BY <1>1, <1>b, SocketBecomes DEF Recheck, Deadline, Disconnect, Close
  <1>2. ASSUME NEW room \in traffic.rooms, NEW s \in Sessions, NEW p \in Processes,
               HandleConnection(k, room, s, p)
        PROVE  SocketInv'
    <2> DEFINE g == session[s].generation
               owner == session[s].role = "APPLICANT"
               q == [Off EXCEPT !.at = "auth", !.room = room, !.home = p, !.s = s,
                                !.generation = g, !.owner = owner]
    <2>1. socket' = [socket EXCEPT ![k] = q] /\ UNCHANGED rowVars
      BY <1>2 DEF HandleConnection
    <2>2. g \in Nat /\ owner \in BOOLEAN /\ s \in 0..MaxSessions
      <3>1. session[s] \in SessionRows
        BY RowIsTyped
      <3>2. g \in Nat
        BY <3>1 DEF SessionRows
      <3>3. s \in 0..MaxSessions
        BY Numbers
      <3> QED
        BY <3>2, <3>3
    <2>3. room \in {"evaluation", "resume"}
      BY RealtimeAssumption DEF DemoTypeOK
    <2> HIDE DEF g, owner
    <2>4. q \in SocketRecords /\ q.join = "none" /\ q.known = 0 /\ q.seen = 0
      BY <1>b, <2>2, <2>3 DEF SocketRecords
    <2> HIDE DEF q
    <2>5. Informed(q)
      BY <1>a, <2>4 DEF Informed
    <2> QED
      BY <2>1, <2>4, <2>5, SocketBecomes
  <1>3. CASE WatchSocket(k)
    <2> DEFINE q == [socket[k] EXCEPT !.at = "open"]
    <2>1. socket' = [socket EXCEPT ![k] = q] /\ UNCHANGED rowVars
      BY <1>3 DEF WatchSocket, At
    <2>2. q \in SocketRecords /\ Informed(q)
      BY <1>a DEF SocketRecords, Informed
    <2> HIDE DEF q
    <2> QED
      BY <2>1, <2>2, SocketBecomes
  <1>4. CASE HandleEvaluationJoin(k) \/ HandleResumeJoin(k)
    <2> DEFINE q == [socket[k] EXCEPT !.join = "allowed"]
    <2>1. socket' = [socket EXCEPT ![k] = q] /\ UNCHANGED rowVars
      BY <1>4 DEF HandleEvaluationJoin, HandleResumeJoin, Step
    <2>2. q \in SocketRecords /\ Informed(q)
      BY <1>a DEF SocketRecords, Informed
    <2> HIDE DEF q
    <2> QED
      BY <2>1, <2>2, SocketBecomes
  <1>5. CASE EnterRoom(k)
    <2> DEFINE q == [socket[k] EXCEPT !.join = "entered", !.member = TRUE]
    <2>1. socket' = [socket EXCEPT ![k] = q] /\ UNCHANGED rowVars
      BY <1>5 DEF EnterRoom
    <2>2. q \in SocketRecords /\ Informed(q)
      BY <1>a DEF SocketRecords, Informed
    <2> HIDE DEF q
    <2> QED
      BY <2>1, <2>2, SocketBecomes
  <1>6. CASE ReadCurrent(k)
    <2> DEFINE q == [socket[k] EXCEPT !.join = "read", !.seen = row.version]
    <2>1. socket' = [socket EXCEPT ![k] = q] /\ UNCHANGED rowVars
      BY <1>6 DEF ReadCurrent
    <2>2. socket[k].join = "entered" /\ socket[k].home \in Processes
      BY <1>6, SocketIsInformed DEF ReadCurrent
    <2>3. emitted[socket[k].home] <= row.version
      BY <2>2 DEF SocketInv, RowInv
    <2>4. q \in SocketRecords
      BY <1>a DEF SocketRecords, RowRecords
    <2>5. /\ q.join = "read" /\ q.seen = row.version /\ q.known = socket[k].known
          /\ q.member = socket[k].member /\ q.home = socket[k].home
      BY <1>a DEF SocketRecords
    <2> HIDE DEF q
    <2>6. Informed(q)
      BY <1>a, <2>2, <2>3, <2>5 DEF Informed
    <2> QED
      BY <2>1, <2>4, <2>6, SocketBecomes
  <1>7. CASE AnswerJoin(k)
    <2> DEFINE known == Newer(socket[k].known, socket[k].seen)
               q == [socket[k] EXCEPT !.join = "answered", !.known = known, !.seen = 0]
    <2>1. socket' = [socket EXCEPT ![k] = q] /\ UNCHANGED rowVars
      BY <1>7 DEF AnswerJoin
    <2>2. socket[k].join = "read" /\ emitted[socket[k].home] \in Nat
      BY <1>7, SocketIsInformed DEF AnswerJoin
    <2>3. /\ known \in {socket[k].known, socket[k].seen}
          /\ socket[k].known <= known /\ socket[k].seen <= known
      BY <1>a, NewerIsNewest
    <2> HIDE DEF known
    <2>4. known \in Versions /\ known \in Nat /\ 0 \in Versions
      BY <1>a, <2>3, RealtimeAssumption DEF SocketRecords, Versions
    <2>5. q \in SocketRecords
      BY <1>a, <2>4 DEF SocketRecords
    <2>6. /\ q.join = "answered" /\ q.seen = 0 /\ q.known = known
          /\ q.member = socket[k].member /\ q.home = socket[k].home
      BY <1>a DEF SocketRecords
    <2> HIDE DEF q
    <2>7. Informed(q)
      BY <1>a, <2>2, <2>3, <2>4, <2>6 DEF Informed
    <2> QED
      BY <2>1, <2>5, <2>7, SocketBecomes
  <1>8. CASE FailJoin(k) \/ HandleResumeLeave(k)
    <2> DEFINE q == [socket[k] EXCEPT !.join = "none", !.member = FALSE]
    <2>1. socket' = [socket EXCEPT ![k] = q] /\ UNCHANGED rowVars
      BY <1>8 DEF FailJoin, HandleResumeLeave
    <2>2. q \in SocketRecords /\ Informed(q)
      BY <1>a DEF SocketRecords, Informed
    <2> HIDE DEF q
    <2> QED
      BY <2>1, <2>2, SocketBecomes
  <1> QED
    BY <1>1, <1>2, <1>3, <1>4, <1>5, <1>6, <1>7, <1>8 DEF SocketSteps

LEMMA ChangeKeeps ==
  ASSUME SocketInv, DemoTypeOK, NEW status \in Statuses,
         NEW events \in SUBSET {<<row.version + 1, p>> : p \in Processes}, Change(status, events)
  PROVE  SocketInv'
  <1> DEFINE n == row.version + 1
  <1>1. row \in RowRecords /\ unsent \subseteq Versions \X Processes
    BY DEF SocketInv, RowInv
  <1>2. n \in Versions /\ row.version \in Nat /\ row.version <= n /\ n \in Nat
    <2>1. traffic.changes \in 0..MaxVersion /\ row.version < traffic.changes
      BY RealtimeAssumption DEF DemoTypeOK, Change
    <2>2. row.version \in 0..MaxVersion
      BY <1>1 DEF RowRecords, Versions
    <2> QED
      BY <2>1, <2>2, RealtimeAssumption DEF Versions
  <1>3. row' = [row EXCEPT !.status = status, !.version = n] /\ unsent' = unsent \cup events
        /\ UNCHANGED <<socket, emitted>>
    BY DEF Change
  <1>4. events \subseteq {<<n, p>> : p \in Processes}
    OBVIOUS
  <1> HIDE DEF n
  <1>5. row' \in RowRecords /\ row'.version = n
    BY <1>1, <1>2, <1>3 DEF RowRecords
  <1>6. unsent' \subseteq Versions \X Processes
    BY <1>1, <1>2, <1>3, <1>4
  <1>7. ASSUME NEW e \in unsent' PROVE e[1] <= row'.version
    <2>1. CASE e \in unsent
      <3>1. e[1] \in Nat /\ e[1] <= row.version
        BY <1>1, <2>1, RealtimeAssumption DEF SocketInv, RowInv, Versions
      <3> QED
        BY <1>2, <1>5, <3>1
    <2>2. CASE e \in events
      <3>1. e[1] = n
        BY <1>4, <2>2
      <3> QED
        BY <1>2, <1>5, <3>1
    <2> QED
      BY <1>3, <2>1, <2>2
  <1> QED
    BY <1>2, <1>3, <1>5, <1>6, <1>7, RowBecomes

LEMMA AnnouncedKeeps ==
  ASSUME SocketInv, DemoTypeOK, NEW status \in Statuses, NEW p \in Processes
  PROVE  /\ Silently(status) => SocketInv'
         /\ Announced(status, p) => SocketInv'
  <1>1. Silently(status) => SocketInv'
    BY ChangeKeeps DEF Silently
  <1>2. Change(status, {<<row.version + 1, p>>}) => SocketInv'
    BY ChangeKeeps
  <1> QED
    BY <1>1, <1>2 DEF Announced

LEMMA UpdateKeeps ==
  ASSUME SocketInv, DemoTypeOK, NEW p \in Processes, UpdateRow(p)
  PROVE  SocketInv'
  <1>a. /\ row \in RowRecords /\ unsent \subseteq Versions \X Processes
        /\ \A e \in unsent : e[1] <= row.version
        /\ row.version \in Versions /\ row.version \in Nat
    BY RealtimeAssumption DEF SocketInv, RowInv, RowRecords, Versions
  <1>1. ASSUME EvaluationChanges(p) PROVE SocketInv'
    BY <1>1, AnnouncedKeeps
       DEF EvaluationChanges, ClaimForProcessing, MarkCompleted, HandleFailure, PrepareAgain,
           QueueUnavailable, Statuses
  <1>2. ASSUME UpdateMutable(p) PROVE SocketInv'
    BY <1>2, AnnouncedKeeps DEF UpdateMutable, Statuses
  <1>3. ASSUME LeaveCompleted(p) \/ ReadFailed PROVE SocketInv'
    <2>1. row' \in RowRecords /\ row'.version = row.version /\ UNCHANGED <<socket, unsent, emitted>>
      <3>1. CASE LeaveCompleted(p)
        BY <1>a, <3>1 DEF LeaveCompleted, RowRecords
      <3>2. CASE ReadFailed
        BY <1>a, <3>2 DEF ReadFailed, RowRecords
      <3> QED
        BY <1>3, <3>1, <3>2
    <2> QED
      BY <1>a, <2>1, RowBecomes
  <1>4. ASSUME ReadBack(p) PROVE SocketInv'
    <2>1. /\ row' \in RowRecords /\ row'.version = row.version /\ UNCHANGED <<socket, emitted>>
          /\ unsent' = unsent \cup {<<row.version, p>>}
      BY <1>a, <1>4 DEF ReadBack, RowRecords
    <2>2. unsent' \subseteq Versions \X Processes /\ \A e \in unsent' : e[1] <= row'.version
      BY <1>a, <2>1
    <2> QED
      BY <1>a, <2>1, <2>2, RowBecomes
  <1>5. ASSUME ResetFailed PROVE SocketInv'
    <2>1. row.version < traffic.changes /\ traffic.changes \in 0..MaxVersion
      BY <1>5, RealtimeAssumption DEF DemoTypeOK, ResetFailed
    <2>2. row.version + 1 \in Versions /\ row.version <= row.version + 1
      BY <1>a, <2>1, RealtimeAssumption DEF Versions
    <2>3. /\ row' \in RowRecords /\ row'.version = row.version + 1
          /\ UNCHANGED <<socket, unsent, emitted>>
      BY <1>a, <1>5, <2>2 DEF ResetFailed, RowRecords, Statuses
    <2>4. \A e \in unsent' : e[1] <= row'.version
      <3>1. \A e \in unsent : e[1] \in Nat
        BY <1>a, RealtimeAssumption DEF Versions
      <3> QED
        BY <1>a, <2>3, <3>1
    <2> QED
      BY <1>a, <2>2, <2>3, <2>4, RowBecomes
  <1> QED
    BY <1>1, <1>2, <1>3, <1>4, <1>5 DEF UpdateRow, ResumeChanges

LEMMA NotifyKeeps ==
  ASSUME SocketInv, NEW v \in Versions, NEW p \in Processes, Notify(v, p)
  PROVE  SocketInv'
  <1>1. /\ UNCHANGED row /\ unsent' = unsent \ {<<v, p>>} /\ <<v, p>> \in unsent
        /\ emitted' = [emitted EXCEPT ![p] = Newer(@, v)]
    BY DEF Notify
  <1>2. v \in Nat /\ v <= row.version
    BY <1>1, RealtimeAssumption DEF SocketInv, RowInv, Versions
  <1>3. ASSUME NEW o \in Processes
        PROVE  /\ emitted'[o] \in Versions /\ emitted'[o] <= row.version
               /\ emitted'[o] = IF o = p THEN Newer(emitted[p], v) ELSE emitted[o]
    <2>1. emitted[o] \in Nat /\ emitted[o] \in Versions /\ emitted[o] <= row.version
      BY RealtimeAssumption DEF SocketInv, RowInv, Versions
    <2>2. emitted'[o] = IF o = p THEN Newer(emitted[p], v) ELSE emitted[o]
      BY <1>1 DEF SocketInv, RowInv
    <2>3. Newer(emitted[o], v) \in {emitted[o], v}
      BY <1>2, <2>1, NewerIsNewest
    <2> QED
      BY <1>2, <2>1, <2>2, <2>3
  <1>4. RowInv'
    <2>1. emitted' \in [Processes -> Versions]
      BY <1>1, <1>3 DEF SocketInv, RowInv
    <2> QED
      BY <1>1, <1>3, <2>1 DEF SocketInv, RowInv
  <1>5. ASSUME NEW k \in Sockets
        PROVE  socket'[k] \in SocketRecords /\ Informed(socket[k])'
    <2> DEFINE q == socket[k]
               known == Newer(q.known, v)
    <2>a. /\ q \in SocketRecords /\ Informed(q) /\ q.home \in Processes
          /\ emitted[q.home] \in Nat /\ q.known \in Nat /\ q.seen \in Nat
      BY SocketIsInformed
    <2>1. CASE q.member /\ q.home = p
      <3>1. known \in {q.known, v} /\ q.known <= known /\ v <= known
        BY <1>2, <2>a, NewerIsNewest
      <3>2. socket'[k] = [q EXCEPT !.known = known]
        BY <2>1 DEF Notify
      <3>3. Newer(emitted[p], v) \in {emitted[p], v} /\ emitted'[q.home] = Newer(emitted[p], v)
        BY <1>2, <1>3, <2>a, <2>1, NewerIsNewest
      <3>4. known \in Versions /\ known \in Nat
        BY <1>2, <2>a, <3>1 DEF SocketRecords
      <3> HIDE DEF known
      <3>5. /\ socket'[k] \in SocketRecords /\ socket'[k].known = known
            /\ socket'[k].join = q.join /\ socket'[k].home = q.home
            /\ socket'[k].member = q.member /\ socket'[k].seen = q.seen
        BY <2>a, <3>2, <3>4 DEF SocketRecords
      <3>6. known <= row.version
        BY <1>2, <2>a, <3>1 DEF Informed
      <3>7. emitted[p] <= q.known => emitted'[q.home] <= known
        BY <1>2, <2>a, <2>1, <3>1, <3>3, <3>4
      <3>8. emitted[p] <= q.seen => emitted'[q.home] <= known \/ emitted'[q.home] <= q.seen
        BY <2>a, <2>1, <3>1, <3>3
      <3> HIDE DEF q
      <3> QED
        BY <1>1, <2>a, <2>1, <3>5, <3>6, <3>7, <3>8 DEF Informed
    <2>2. CASE ~(q.member /\ q.home = p)
      <3>1. socket'[k] = q
        BY <2>2 DEF Notify
      <3>2. q.member => emitted'[q.home] = emitted[q.home]
        BY <1>3, <2>a, <2>2
      <3> HIDE DEF q
      <3> QED
        BY <1>1, <2>a, <3>1, <3>2 DEF Informed
    <2> QED
      BY <2>1, <2>2
  <1>6. socket' = [k \in Sockets |-> socket'[k]]
    BY DEF Notify
  <1>7. socket' \in [Sockets -> SocketRecords]
    BY <1>5, <1>6
  <1> QED
    BY <1>4, <1>5, <1>7 DEF SocketInv

LEMMA DeathKeeps ==
  ASSUME SocketInv, NEW p \in Processes, ProcessDies(p)
  PROVE  SocketInv'
  <1>1. /\ row' = [row EXCEPT !.rereading = @ \ {p}] /\ unsent' \subseteq unsent
        /\ emitted' = [emitted EXCEPT ![p] = 0]
    BY DEF ProcessDies
  <1>2. row' \in RowRecords /\ row'.version = row.version /\ row.version \in Nat
    BY <1>1, RealtimeAssumption DEF SocketInv, RowInv, RowRecords, Versions
  <1>3. RowInv'
    <2>1. emitted' \in [Processes -> Versions]
      BY <1>1, RealtimeAssumption DEF SocketInv, RowInv, Versions
    <2>2. \A o \in Processes : emitted'[o] <= row'.version
      BY <1>1, <1>2 DEF SocketInv, RowInv
    <2> QED
      BY <1>1, <1>2, <2>1, <2>2 DEF SocketInv, RowInv
  <1>4. /\ Off \in SocketRecords /\ Off.join = "none" /\ Off.known = 0 /\ Off.seen = 0
    BY OffIsInformed DEF SocketInv, RowInv
  <1>5. ASSUME NEW k \in Sockets
        PROVE  socket'[k] \in SocketRecords /\ Informed(socket[k])'
    <2>1. CASE socket[k].home = p
      <3>1. socket'[k] = Off
        BY <2>1 DEF ProcessDies
      <3> QED
        BY <1>2, <1>4, <3>1 DEF Informed
    <2>2. CASE socket[k].home # p
      <3>1. socket'[k] = socket[k]
        BY <2>2 DEF ProcessDies
      <3>2. /\ socket[k] \in SocketRecords /\ Informed(socket[k]) /\ socket[k].home \in Processes
        BY SocketIsInformed
      <3>3. emitted'[socket[k].home] = emitted[socket[k].home]
        BY <1>1, <2>2, <3>2 DEF SocketInv, RowInv
      <3> QED
        BY <1>2, <3>1, <3>2, <3>3 DEF Informed
    <2> QED
      BY <2>1, <2>2
  <1>6. socket' = [k \in Sockets |-> socket'[k]]
    BY DEF ProcessDies
  <1>7. socket' \in [Sockets -> SocketRecords]
    BY <1>5, <1>6
  <1> QED
    BY <1>3, <1>5, <1>7 DEF SocketInv

LEMMA InvalidateSocketsKeeps ==
  ASSUME SocketInv, NEW c \in Callers, NEW p \in Processes, InvalidateSockets(c, p)
  PROVE  SocketInv'
  <1>1. Off \in SocketRecords /\ Informed(Off)
    BY OffIsInformed DEF SocketInv, RowInv
  <1>2. UNCHANGED <<row, unsent, emitted>>
    BY DEF InvalidateSockets, rowVars
  <1>3. ASSUME NEW k \in Sockets PROVE socket'[k] = Off \/ socket'[k] = socket[k]
    BY DEF InvalidateSockets
  <1>4. socket' = [k \in Sockets |-> socket'[k]]
    BY DEF InvalidateSockets
  <1>5. socket' \in [Sockets -> SocketRecords]
    BY <1>1, <1>3, <1>4 DEF SocketInv
  <1>6. ASSUME NEW k \in Sockets PROVE Informed(socket[k])'
    <2>1. Informed(socket'[k])
      BY <1>1, <1>3 DEF SocketInv
    <2> QED
      BY <1>2, <2>1 DEF Informed
  <1>7. RowInv'
    BY <1>2 DEF SocketInv, RowInv
  <1> QED
    BY <1>5, <1>6, <1>7 DEF SocketInv

LEMMA NextSocketInv == SocketInv /\ DemoInv /\ [Next]_sessionsVars => SocketInv'
  <1> SUFFICES ASSUME SocketInv, DemoInv, [Next]_sessionsVars PROVE SocketInv'
    OBVIOUS
  <1>1. CASE UNCHANGED realtimeVars
    BY <1>1 DEF realtimeVars, SocketInv, RowInv, Informed
  <1>2. CASE RealtimeNext
    <2>1. DemoTypeOK
      BY DEF DemoInv
    <2> QED
      BY <1>1, <1>2, <2>1, SocketStepsKeep, UpdateKeeps, NotifyKeeps, DeathKeeps,
         InvalidateSocketsKeeps DEF RealtimeNext
  <1> QED
    BY <1>1, <1>2 DEF Next, sessionsVars, demoPart

LEMMA SocketInductive == Spec => []SocketInv
  <1>1. Init => SocketInv
    <2> SUFFICES ASSUME Init PROVE SocketInv
      OBVIOUS
    <2>1. /\ row \in [status : Statuses, version : {0}, resetting : {FALSE}, rereading : {{}}]
          /\ unsent = {} /\ emitted = [p \in Processes |-> 0]
          /\ socket = [k \in Sockets |-> Off]
      BY DEF Init, RealtimeInit
    <2>2. row \in RowRecords /\ row.version = 0 /\ 0 \in Versions
      <3>1. 0 \in Versions
        BY RealtimeAssumption DEF Versions
      <3>2. row.version \in {0} /\ row.status \in Statuses
        BY <2>1
      <3>3. {0} \subseteq Versions /\ {FALSE} \subseteq BOOLEAN /\ {{}} \subseteq SUBSET Processes
        BY <3>1
      <3> HIDE DEF Statuses, Versions
      <3>4. row \in RowRecords
        BY <2>1, <3>3 DEF RowRecords
      <3> QED
        BY <3>1, <3>2, <3>4
    <2>3. Off \in SocketRecords /\ Informed(Off)
      BY <2>2, OffIsInformed
    <2>4. RowInv
      BY <2>1, <2>2 DEF RowInv
    <2> QED
      BY <2>1, <2>3, <2>4 DEF SocketInv
  <1> QED
    BY <1>1, NextSocketInv, DemoInductive, PTL DEF Spec

(* handleJoin and emit: every event that the process of a client whose     *)
(* join was answered has emitted is known to that client, also the one     *)
(* emitted between the authorization of the join and the subscription.     *)
(* Changes without an event, and events of other processes, are left to    *)
(* the next event or the next join.                                        *)
THEOREM JoinsMissNothing == Spec => []JoinedIsCurrent
  <1>1. SocketInv => JoinedIsCurrent
    BY DEF SocketInv, Informed, JoinedIsCurrent
  <1> QED
    BY <1>1, SocketInductive, PTL

-----------------------------------------------------------------------------
(* Ordinary accounts. *)

AP == INSTANCE AuthProofs WITH token <- authToken, req <- authReq, MaxTokens <- MaxOrdinary

(* The two instances of Auth, here and in Sessions, are one: the operators *)
(* of the libraries they bring along agree, and so do the helpers.         *)
LEMMA SameCounting == \A S : A!Cardinality(S) = AP!Cardinality(S)
  BY DEF A!Cardinality, AP!Cardinality

LEMMA SameTokens ==
  /\ A!Numbers = AP!Numbers /\ A!Issued = AP!Issued /\ A!Idle = AP!Idle
  /\ \A f : A!Live(f) = AP!Live(f) /\ A!Rotating(f) = AP!Rotating(f)
  BY DEF A!Numbers, AP!Numbers, A!Issued, AP!Issued, A!Idle, AP!Idle, A!Live, AP!Live,
     A!Rotating, AP!Rotating

LEMMA SameSteps ==
  ASSUME NEW q \in Slots
  PROVE  /\ A!SignIn(q) => AP!SignIn(q)
         /\ A!Present(q) => AP!Present(q)
         /\ A!Continue(q) => AP!Continue(q)
  <1> USE SameTokens
  <1>1. A!SignIn(q) => AP!SignIn(q)
    BY DEF A!SignIn, AP!SignIn, A!Register, AP!Register, A!Login, AP!Login, A!Found, AP!Found,
       A!Go, AP!Go
  <1>2. A!Present(q) => AP!Present(q)
    <2>1. ASSUME NEW n, A!Refresh(q, n) PROVE AP!Refresh(q, n)
      BY <2>1 DEF A!Refresh, AP!Refresh, A!Go, AP!Go
    <2>2. ASSUME NEW n, A!Logout(q, n) PROVE AP!Logout(q, n)
      BY <2>2 DEF A!Logout, AP!Logout, A!Go, AP!Go
    <2> QED
      BY <2>1, <2>2 DEF A!Present, AP!Present
  <1>3. A!Continue(q) => AP!Continue(q)
    <2>1. A!CreateUser(q) => AP!CreateUser(q)
      BY DEF A!CreateUser, AP!CreateUser, A!AddUser, AP!AddUser, A!Found, AP!Found, A!Answer, AP!Answer
    <2>2. A!IssueTokens(q) => AP!IssueTokens(q)
      BY SameCounting DEF A!IssueTokens, AP!IssueTokens, A!Answer, AP!Answer
    <2>3. A!CheckUser(q) => AP!CheckUser(q)
      BY DEF A!CheckUser, AP!CheckUser, A!Go, AP!Go, A!Answer, AP!Answer
    <2>4. A!RevokeToken(q) => AP!RevokeToken(q)
      BY DEF A!RevokeToken, AP!RevokeToken, A!Go, AP!Go
    <2>5. A!RevokeAll(q) => AP!RevokeAll(q)
      BY DEF A!RevokeAll, AP!RevokeAll, A!Answer, AP!Answer
    <2>6. A!Drop(q) => AP!Drop(q)
      BY DEF A!Drop, AP!Drop, A!Answer, AP!Answer
    <2>7. A!Fail(q) => AP!Fail(q)
      BY DEF A!Fail, AP!Fail, A!Answer, AP!Answer
    <2> QED
      BY <2>1, <2>2, <2>3, <2>4, <2>5, <2>6, <2>7 DEF A!Continue, AP!Continue
  <1> QED
    BY <1>1, <1>2, <1>3

LEMMA OrdinarySized == AP!Sized
  BY SessionsAssumption DEF AP!Sized

LEMMA OrdinaryInit == Init => AP!Init
  BY DEF Init, A!Init, AP!Init, A!Numbers, AP!Numbers, A!Idle, AP!Idle

LEMMA OrdinaryNext == [Next]_sessionsVars => [AP!Next]_(AP!vars)
  <1> SUFFICES ASSUME [Next]_sessionsVars, ~UNCHANGED authVars PROVE AP!Next
    BY DEF authVars, AP!vars
  <1>1. CASE \E q \in Slots : Enter(q) \/ Present(q)
    BY <1>1, SameSteps DEF Enter, Present, AP!Next
  <1>2. CASE Proceed
    <2>1. ASSUME NEW n \in A!Numbers, A!TokenExpires(n) PROVE AP!TokenExpires(n)
      BY <2>1 DEF A!TokenExpires, AP!TokenExpires
    <2> QED
      BY <1>2, <2>1, SameSteps, SameTokens DEF Proceed, AP!Next
  <1>3. \/ \E q \in Slots : Enter(q) \/ Present(q)
        \/ Proceed
    BY DEF Next, sessionsVars
  <1> QED
    BY <1>1, <1>2, <1>3

(* AuthController, AuthService: next to the demo, its sockets and a        *)
(* process that ends, ordinary accounts take only steps of Auth.           *)
THEOREM DeploymentImplementsAuth == Spec => AP!Spec
  BY OrdinaryInit, OrdinaryNext, PTL DEF Spec, AP!Spec

(* refreshTokens: in any deployment, a client that waits for one refresh   *)
(* before it starts the next has at most one usable token per login.       *)
THEOREM RotationIsSingle == Spec => []SequentialRotation
  <1>1. AP!SequentialRotation => SequentialRotation
    BY SameTokens, SameCounting DEF SequentialRotation, A!SequentialRotation, AP!SequentialRotation
  <1>2. AP!Spec => []AP!SequentialRotation
    BY AP!RotationIsSingle, OrdinarySized
  <1> QED
    BY <1>1, <1>2, DeploymentImplementsAuth, PTL

(* revokeAllRefreshTokensForUser: in any deployment, a login ended by a    *)
(* replay while nobody rotated its tokens never has a usable token again.  *)
THEOREM KilledLoginsStayDead == Spec => []KilledStayDead
  <1>1. AP!KilledStayDead => KilledStayDead
    BY SameTokens DEF KilledStayDead, A!KilledStayDead, AP!KilledStayDead
  <1>2. AP!Spec => []AP!KilledStayDead
    BY AP!KilledLoginsStayDead, OrdinarySized
  <1> QED
    BY <1>1, <1>2, DeploymentImplementsAuth, PTL

-----------------------------------------------------------------------------
(* The end of the process. *)

(* What exit was called with, if it was called. *)
ExitCodes == {<<>>, <<0>>, <<1>>}

(* A close that succeeded leaves its code, and start-up, as they are. *)
ExitInv ==
  /\ P!TypeOK /\ exits \in ExitCodes
  /\ phase \in {"telemetry", "settled"} /\ code = 0 => startup = "up" /\ closed = "ok"
  /\ exits = <<0>> => startup = "up" /\ closed = "ok" /\ phase = "settled"

LEMMA Finishes ==
  ASSUME exits \in ExitCodes, NEW c \in {0, 1}, P!Finish(c)
  PROVE  /\ exits' \in ExitCodes
         /\ exits' = <<0>> => exits = <<0>> \/ c = 0
  BY DEF P!Finish, ExitCodes

LEMMA ExitsAreTyped == ExitCodes \subseteq {<<>>} \cup [1..1 -> {0, 1}] \cup [1..2 -> {0, 1}]
  <1>1. <<0>> \in [1..1 -> {0, 1}] /\ <<1>> \in [1..1 -> {0, 1}]
    OBVIOUS
  <1> QED
    BY <1>1 DEF ExitCodes

LEMMA NextExitInv == ExitInv /\ [Next]_sessionsVars => ExitInv'
  <1> SUFFICES ASSUME ExitInv, [Next]_sessionsVars PROVE ExitInv'
    OBVIOUS
  <1>1. CASE UNCHANGED exitVars
    BY <1>1 DEF exitVars, ExitInv, P!TypeOK
  <1>2. CASE P!Next
    <2>1. CASE P!StartupSucceeds \/ P!StartupFails \/ P!Signal \/ P!Begin
      BY <2>1 DEF ExitInv, P!TypeOK, P!StartupSucceeds, P!StartupFails, P!Signal, P!Begin, P!Call
    <2>2. CASE P!Deadline
      <3>1. /\ exits' \in ExitCodes /\ (exits' = <<0>> => exits = <<0>>)
            /\ armed' = FALSE /\ UNCHANGED <<startup, phase, code, closed>>
        BY <2>2, Finishes DEF ExitInv, P!Deadline
      <3> QED
        BY <3>1, ExitsAreTyped DEF ExitInv, P!TypeOK
    <2>3. ASSUME NEW ok \in BOOLEAN, P!CloseApplication(ok) PROVE ExitInv'
      BY <2>3 DEF ExitInv, P!TypeOK, P!CloseApplication
    <2>4. ASSUME NEW ok \in BOOLEAN, P!ShutdownTelemetry(ok) PROVE ExitInv'
      <3>1. code' \in {0, 1} /\ (code' = 0 => code = 0)
        BY <2>4 DEF ExitInv, P!TypeOK, P!ShutdownTelemetry
      <3>2. /\ exits' \in ExitCodes /\ (exits' = <<0>> => exits = <<0>> \/ code' = 0)
            /\ phase' = "settled" /\ phase = "telemetry" /\ armed' = FALSE
            /\ UNCHANGED <<startup, closed>>
        BY <2>4, <3>1, Finishes DEF ExitInv, P!ShutdownTelemetry
      <3> QED
        BY <3>1, <3>2, ExitsAreTyped DEF ExitInv, P!TypeOK
    <2> QED
      BY <1>2, <2>1, <2>2, <2>3, <2>4 DEF P!Next
  <1> QED
    BY <1>1, <1>2 DEF Next, sessionsVars

LEMMA ExitInductive == Spec => []ExitInv
  <1>1. Init => ExitInv
    <2>1. <<>> # <<0>>
      <3>1. Len(<<>>) # Len(<<0>>)
        OBVIOUS
      <3> QED
        BY <3>1
    <2> SUFFICES ASSUME P!Init PROVE ExitInv
      BY DEF Init
    <2>2. P!TypeOK
      BY DEF P!Init, P!TypeOK
    <2> QED
      BY <2>1, <2>2 DEF P!Init, ExitInv, ExitCodes
  <1> QED
    BY <1>1, NextExitInv, PTL DEF Spec

(* createShutdown: signals, failures and the deadline in any order make the*)
(* process exit once, with success only if everything succeeded.           *)
THEOREM ExitIsOrderly == Spec => []OrderlyExit
  <1>1. ExitInv => OrderlyExit
    BY DEF ExitInv, ExitCodes, OrderlyExit, P!OrderlyExit
  <1> QED
    BY <1>1, ExitInductive, PTL

(* Every variable of a deployment keeps its type; in particular the lock is*)
(* held exactly by the transaction that is inside.                         *)
THEOREM DeploymentIsTyped == Spec => []TypeOK
  <1>1. DemoInv => DemoTypeOK
    BY DEF DemoInv
  <1>2. SocketInv => RealtimeTypeOK
    BY DEF SocketInv, RowInv, SocketRecords, RowRecords, RealtimeTypeOK
  <1>3. ExitInv => P!TypeOK
    BY DEF ExitInv
  <1>4. AP!IInv => A!TypeOK
    BY SameTokens DEF AP!IInv, AP!TypeOK, A!TypeOK
  <1>5. AP!Spec => []AP!IInv
    BY AP!Inductive, OrdinarySized
  <1>6. DemoTypeOK /\ RealtimeTypeOK /\ A!TypeOK /\ P!TypeOK => TypeOK
    BY DEF TypeOK
  <1> QED
    BY <1>1, <1>2, <1>3, <1>4, <1>5, <1>6, DemoInductive, SocketInductive, DeploymentImplementsAuth,
       ExitInductive, PTL
=============================================================================

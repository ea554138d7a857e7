------------------------------ MODULE Realtime ------------------------------
(***************************************************************************)
(* The sockets of a demo client (ApplicantEvaluationGateway, ResumeGateway,*)
(* DemoAccessService.watchSocket) on top of the sessions they belong to.   *)
(*                                                                         *)
(* A handler's steps are separated by its awaits.  A switch or logout      *)
(* closes the watched sockets of the process that served it; every socket  *)
(* asks the database again every five seconds and ends at its deadline.    *)
(* The row a client follows is one evaluation or one version of a resume.  *)
(* Workers and requests of any process change it, with and without an      *)
(* event; an event reaches the room of the process that changed the row,   *)
(* unless that process dies first.                                         *)
(***************************************************************************)
EXTENDS DemoSessions

CONSTANTS
  Sockets,
  Processes,   \* instances of the server
  MaxVersion   \* bound on the changes of the row, see changes in RealtimeAssumption

ASSUME RealtimeAssumption ==
  /\ Processes # {} /\ MaxVersion \in Nat
  /\ \A t \in Traffics : t.rooms \subseteq {"evaluation", "resume"} /\ t.changes \in 0..MaxVersion

VARIABLES
  socket,  \* socket[k]: connection, identity, membership, newest change its client was told of
  row,     \* status and number of changes, the registration and the updates under way
  unsent,  \* the events of committed changes that are not emitted yet, with their process
  emitted  \* emitted[p]: the newest change whose event process p has emitted since it started

realtimeVars == <<socket, row, unsent, emitted>>
rowVars == <<row, unsent, emitted>>

Statuses == {"PENDING", "PROCESSING", "COMPLETED", "FAILED"}
Versions == 0..MaxVersion

Off == [at |-> "off", room |-> "evaluation", home |-> CHOOSE p \in Processes : TRUE, s |-> 0,
        generation |-> 0, owner |-> FALSE, member |-> FALSE, join |-> "none",
        seen |-> 0, known |-> 0]

RealtimeTypeOK ==
  /\ socket \in [Sockets -> [at : {"off", "auth", "open"}, room : {"evaluation", "resume"},
       home : Processes, s : 0..MaxSessions, generation : Nat, owner : BOOLEAN, member : BOOLEAN,
       join : {"none", "allowed", "entered", "read", "answered"}, seen : Versions, known : Versions]]
  /\ row \in [status : Statuses, version : Versions, resetting : BOOLEAN, rereading : SUBSET Processes]
  /\ unsent \subseteq Versions \X Processes
  /\ emitted \in [Processes -> Versions]

RealtimeInit ==
  /\ socket = [k \in Sockets |-> Off]
  /\ row \in [status : Statuses, version : {0}, resetting : {FALSE}, rereading : {{}}]
  /\ traffic.changes = 0 => row.status = "PENDING"
  /\ unsent = {}
  /\ emitted = [p \in Processes |-> 0]

At(k, at) == socket' = [socket EXCEPT ![k].at = at]
Close(k) == socket' = [socket EXCEPT ![k] = Off]

\* The sockets that are closed when session s is invalidated in process p.
Watched(s, p) == {k \in Sockets : socket[k].at = "open" /\ socket[k].s = s /\ socket[k].home = p}

-----------------------------------------------------------------------------
(* Connections. *)

(* handleConnection up to its await: a live token is authorized. *)
HandleConnection(k, room, s, p) ==
  /\ socket[k].at = "off" /\ room \in traffic.rooms
  /\ s \in Active
  /\ socket' = [socket EXCEPT ![k] =
       [Off EXCEPT !.at = "auth", !.room = room, !.home = p, !.s = s,
                   !.generation = session[s].generation,
                   !.owner = session[s].role = "APPLICANT"]]
  /\ UNCHANGED rowVars

(* The rest of it: the identity is kept and the socket is watched. *)
WatchSocket(k) ==
  /\ socket[k].at = "auth"
  /\ At(k, "open")
  /\ UNCHANGED rowVars

MutRecheck(k) ==
  /\ socket[k].at = "open" /\ Over(socket[k].s)
  /\ Close(k)
  /\ UNCHANGED rowVars

(* The interval of watchSocket. *)
Recheck(k) ==
  /\ socket[k].at = "open" /\ ~Identity(socket[k])
  /\ Close(k)
  /\ UNCHANGED rowVars

(* The timer set for the earlier of the session's and the token's end. *)
Deadline(k) ==
  /\ socket[k].at = "open" /\ session[socket[k].s].expired
  /\ Close(k)
  /\ UNCHANGED rowVars

Disconnect(k) ==
  /\ socket[k].at = "open"
  /\ Close(k)
  /\ UNCHANGED rowVars

-----------------------------------------------------------------------------
(* Rooms. *)

Step(k, join) == socket' = [socket EXCEPT ![k].join = join]

(* The join handlers: the identity is authorized, ownership is read. *)
HandleEvaluationJoin(k) ==
  /\ socket[k].at = "open" /\ socket[k].room = "evaluation" /\ socket[k].join \in {"none", "answered"}
  /\ Identity(socket[k]) /\ socket[k].owner
  /\ Step(k, "allowed")
  /\ UNCHANGED rowVars

HandleResumeJoin(k) ==
  /\ socket[k].at = "open" /\ socket[k].room = "resume" /\ socket[k].join \in {"none", "answered"}
  /\ Identity(socket[k]) /\ socket[k].owner
  /\ Step(k, "allowed")
  /\ UNCHANGED rowVars

EnterRoom(k) ==
  /\ socket[k].join = "allowed"
  /\ socket' = [socket EXCEPT ![k].join = "entered", ![k].member = TRUE]
  /\ UNCHANGED rowVars

MutReadCurrent(k) ==
  /\ socket[k].join = "entered"
  /\ Step(k, "read")
  /\ UNCHANGED rowVars

(* The second read, of a member of the room. *)
ReadCurrent(k) ==
  /\ socket[k].join = "entered"
  /\ socket' = [socket EXCEPT ![k].join = "read", ![k].seen = row.version]
  /\ UNCHANGED rowVars

(* The second read fails, and the client leaves again. *)
FailJoin(k) ==
  /\ socket[k].join = "entered"
  /\ socket' = [socket EXCEPT ![k].join = "none", ![k].member = FALSE]
  /\ UNCHANGED rowVars

Newer(v, w) == IF v < w THEN w ELSE v

(* The answer carries what was read; the client keeps the newest it has.   *)
AnswerJoin(k) ==
  /\ socket[k].join = "read"
  /\ socket' = [socket EXCEPT ![k].join = "answered",
                              ![k].known = Newer(@, socket[k].seen), ![k].seen = 0]
  /\ UNCHANGED rowVars

HandleResumeLeave(k) ==
  /\ socket[k].at = "open" /\ socket[k].room = "resume" /\ socket[k].member
  /\ socket[k].join = "answered"
  /\ socket' = [socket EXCEPT ![k].join = "none", ![k].member = FALSE]
  /\ UNCHANGED rowVars

-----------------------------------------------------------------------------
(* The row. *)

(* A committed change, and the events that will follow it. *)
Change(status, events) ==
  /\ row.version < traffic.changes
  /\ row' = [row EXCEPT !.status = status, !.version = @ + 1]
  /\ unsent' = unsent \cup events
  /\ UNCHANGED <<socket, emitted>>

(* Changes that nobody is told of. *)
Silently(status) == Change(status, {})

(* Changes that are announced by the process that made them, unless the    *)
(* answer of the database is lost: then the caller takes them for failed.  *)
Announced(status, p) == Change(status, {<<row.version + 1, p>>}) \/ Silently(status)

Unfinished == row.status \in {"PENDING", "PROCESSING"}

ClaimForProcessing == Unfinished /\ Silently("PROCESSING")

MarkCompleted(p) == row.status = "PROCESSING" /\ Announced("COMPLETED", p)

HandleFailure(p) == Unfinished /\ (Announced("PENDING", p) \/ Announced("FAILED", p))

(* A request asks for the failed evaluation again. *)
PrepareAgain == row.status = "FAILED" /\ Silently("PENDING")

(* The queue refused the evaluation of a demo request. *)
QueueUnavailable == Unfinished /\ Silently("FAILED")

EvaluationChanges(p) ==
  \/ ClaimForProcessing \/ MarkCompleted(p) \/ HandleFailure(p)
  \/ PrepareAgain \/ QueueUnavailable

(* ResumeContentRepository.updateMutable, of executions and of a request   *)
(* whose enqueue failed: a completed version is left alone ...             *)
UpdateMutable(p) ==
  /\ row.status # "COMPLETED"
  /\ \E status \in {"PROCESSING", "COMPLETED", "FAILED"} : Announced(status, p)

(* ... and read again and announced as it is by then. *)
LeaveCompleted(p) ==
  /\ row.status = "COMPLETED"
  /\ row' = [row EXCEPT !.rereading = @ \cup {p}]
  /\ UNCHANGED <<socket, unsent, emitted>>

ReadBack(p) ==
  /\ p \in row.rereading
  /\ row' = [row EXCEPT !.rereading = @ \ {p}]
  /\ unsent' = unsent \cup {<<row.version, p>>}
  /\ UNCHANGED <<socket, emitted>>

(* A registration of the same file reads the version as failed, and resets *)
(* it with its next statement.                                             *)
ReadFailed ==
  /\ row.status = "FAILED" /\ ~row.resetting
  /\ row' = [row EXCEPT !.resetting = TRUE]
  /\ UNCHANGED <<socket, unsent, emitted>>

ResetFailed ==
  /\ row.resetting /\ row.version < traffic.changes
  /\ row' = [row EXCEPT !.status = "PENDING", !.version = @ + 1, !.resetting = FALSE]
  /\ UNCHANGED <<socket, unsent, emitted>>

ResumeChanges(p) ==
  \/ UpdateMutable(p) \/ LeaveCompleted(p) \/ ReadBack(p)
  \/ ReadFailed \/ ResetFailed

UpdateRow(p) ==
  \/ "evaluation" \in traffic.rooms /\ EvaluationChanges(p)
  \/ "resume" \in traffic.rooms /\ ResumeChanges(p)

(* The event reaches the members of the room in this process; a client     *)
(* keeps the newest it was sent.                                           *)
Notify(v, p) ==
  /\ <<v, p>> \in unsent
  /\ unsent' = unsent \ {<<v, p>>}
  /\ emitted' = [emitted EXCEPT ![p] = Newer(@, v)]
  /\ socket' = [k \in Sockets |->
       IF socket[k].member /\ socket[k].home = p
       THEN [socket[k] EXCEPT !.known = Newer(@, v)] ELSE socket[k]]
  /\ UNCHANGED row

(* A process dies with its connections and the events it had not emitted. *)
ProcessDies(p) ==
  /\ socket' = [k \in Sockets |-> IF socket[k].home = p THEN Off ELSE socket[k]]
  /\ row' = [row EXCEPT !.rereading = @ \ {p}]
  /\ unsent' = {e \in unsent : e[2] # p}
  /\ emitted' = [emitted EXCEPT ![p] = 0]

-----------------------------------------------------------------------------
(* DemoAccessService.invalidate, where a switch or logout was served: it   *)
(* knows only the sockets that are watched by now.                         *)
InvalidateSockets(c, p) ==
  /\ Invalidate(c)
  /\ socket' = [k \in Sockets |-> IF k \in Watched(caller[c].s, p) THEN Off ELSE socket[k]]
  /\ UNCHANGED rowVars

SocketSteps(k) ==
  \/ \E room \in traffic.rooms, s \in Sessions, p \in Processes : HandleConnection(k, room, s, p)
  \/ WatchSocket(k) \/ Recheck(k) \/ Deadline(k) \/ Disconnect(k)
  \/ HandleEvaluationJoin(k) \/ HandleResumeJoin(k) \/ EnterRoom(k)
  \/ ReadCurrent(k) \/ FailJoin(k) \/ AnswerJoin(k) \/ HandleResumeLeave(k)

Requests(c) ==
  \/ Lock(c) \/ Check(c) \/ CountRequest(c)
  \/ \E s \in Sessions, n \in Tokens : CommitCreate(c, s, n)
  \/ \E n \in Tokens : CommitSwitch(c, n) \/ CommitRefresh(c, n)
  \/ CommitLogout(c) \/ ReserveUpload(c) \/ ConsumeAi(c)
  \/ Arrivals(c) \/ Fail(c)

RealtimeNext ==
  \/ \E k \in Sockets : SocketSteps(k) /\ UNCHANGED demoVars
  \/ /\ traffic.rooms # {}
     /\ \E p \in Processes :
          \/ UpdateRow(p) \/ ProcessDies(p)
          \/ \E v \in Versions : Notify(v, p)
     /\ UNCHANGED demoVars
  \/ \E c \in Callers, p \in Processes : InvalidateSockets(c, p)
  \/ (Time \/ \E c \in Callers : Requests(c)) /\ UNCHANGED realtimeVars

-----------------------------------------------------------------------------
(* A client whose join was answered knows every change whose event its     *)
(* process has emitted: one emitted between the query that allowed the join*)
(* and the subscription was read again, and later ones reach the client,   *)
(* also before its answer does.  Silent changes, and those that another    *)
(* process announced, it learns with the next of these events.             *)
JoinedIsCurrent ==
  \A k \in Sockets :
    socket[k].join = "answered" => emitted[socket[k].home] <= socket[k].known

(* A socket of an ended session or of an earlier generation is closed in   *)
(* the end, also when the switch found it unwatched or in another process. *)
OldSocketsClose ==
  \A k \in Sockets :
    socket[k].at = "open" /\ ~Identity(socket[k]) ~> socket[k].at # "open" \/ Identity(socket[k])
=============================================================================

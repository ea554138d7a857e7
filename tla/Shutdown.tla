------------------------------ MODULE Shutdown ------------------------------
(***************************************************************************)
(* The end of a process (createShutdown and its use in main.ts): signals   *)
(* that may come during start-up and more than once, an application that   *)
(* may fail or hang while it closes, telemetry that may too, and the       *)
(* deadline of ten seconds.                                                *)
(***************************************************************************)
EXTENDS Naturals, Sequences

VARIABLES
  startup,   \* "running", "up" or "failed"
  phase,     \* where the one pending shutdown is
  code,      \* the exit code it has collected
  armed,     \* its deadline is set
  closed,    \* how the application's close ended: "open", "ok" or "error"
  exits      \* the codes the process was told to exit with, in order

vars == <<startup, phase, code, armed, closed, exits>>

TypeOK ==
  /\ startup \in {"running", "up", "failed"}
  /\ phase \in {"none", "queued", "closing", "telemetry", "settled"}
  /\ code \in {0, 1} /\ armed \in BOOLEAN
  /\ closed \in {"open", "ok", "error"}
  /\ exits \in {<<>>} \cup [1..1 -> {0, 1}] \cup [1..2 -> {0, 1}]

Init ==
  /\ startup = "running" /\ phase = "none" /\ code = 0
  /\ armed = FALSE /\ closed = "open" /\ exits = <<>>

MutFinish(c) == exits' = Append(exits, c)

(* finish(): the process is told to exit once. *)
Finish(c) == exits' = IF exits = <<>> THEN <<c>> ELSE exits

(* shutdown(): whoever calls it, there is one pending promise. *)
Call == phase' = IF phase = "none" THEN "queued" ELSE phase

-----------------------------------------------------------------------------
StartupSucceeds ==
  /\ startup = "running"
  /\ startup' = "up"
  /\ UNCHANGED <<phase, code, armed, closed, exits>>

StartupFails ==
  /\ startup = "running"
  /\ startup' = "failed"
  /\ Call
  /\ UNCHANGED <<code, armed, closed, exits>>

Signal ==
  /\ phase = "none"
  /\ Call
  /\ UNCHANGED <<startup, code, armed, closed, exits>>

Begin ==
  /\ phase = "queued"
  /\ phase' = "closing" /\ armed' = TRUE
  /\ UNCHANGED <<startup, code, closed, exits>>

(* closeApplication waits for start-up, closes what was created, and fails *)
(* if either did.                                                          *)
CloseApplication(ok) ==
  /\ phase = "closing" /\ startup # "running"
  /\ ok => startup = "up"
  /\ phase' = "telemetry"
  /\ closed' = (IF ok THEN "ok" ELSE "error")
  /\ code' = (IF ok THEN code ELSE 1)
  /\ UNCHANGED <<startup, armed, exits>>

ShutdownTelemetry(ok) ==
  /\ phase = "telemetry"
  /\ phase' = "settled" /\ armed' = FALSE
  /\ code' = (IF ok THEN code ELSE 1)
  /\ Finish(code')
  /\ UNCHANGED <<startup, closed>>

Deadline ==
  /\ armed
  /\ armed' = FALSE
  /\ Finish(1)
  /\ UNCHANGED <<startup, phase, code, closed>>

Next ==
  \/ StartupSucceeds \/ StartupFails \/ Signal \/ Begin \/ Deadline
  \/ \E ok \in BOOLEAN : CloseApplication(ok) \/ ShutdownTelemetry(ok)

-----------------------------------------------------------------------------
(* However often the process is signalled, and whichever of the deadline,  *)
(* a failure and the last step comes first, it exits once, and with success*)
(* only when start-up, the application's close and telemetry succeeded.    *)
OrderlyExit ==
  /\ Len(exits) <= 1
  /\ exits = <<0>> => startup = "up" /\ closed = "ok" /\ phase = "settled"

=============================================================================

------------------------------ MODULE Sessions ------------------------------
(***************************************************************************)
(* A deployment: the routes of AuthController and the guards that choose   *)
(* between ordinary accounts and demo workspaces, and the process that ends*)
(* under them.  In an ordinary deployment only Auth is reachable, in a     *)
(* dedicated demo only DemoSessions with its sockets.  With DEMO_ENABLED   *)
(* but not DEMO_ONLY visitors register and log in, while refresh and logout*)
(* go to the demo, which knows no ordinary token.                          *)
(*                                                                         *)
(* The parts share no state, so their product is explored only where both  *)
(* are reachable; the end of the process is explored next to none of them. *)
(***************************************************************************)
EXTENDS Realtime, Sequences

CONSTANTS Accounts, Slots, MaxOrdinary  \* of Auth

VARIABLES
  account, authToken, authReq, overlapped, killed,  \* of Auth
  startup, phase, code, armed, closed, exits        \* of Shutdown

A == INSTANCE Auth WITH token <- authToken, req <- authReq, MaxTokens <- MaxOrdinary
P == INSTANCE Shutdown

authVars == <<account, authToken, authReq, overlapped, killed>>
exitVars == <<startup, phase, code, armed, closed, exits>>
sessionsVars == <<demoVars, realtimeVars, authVars, exitVars>>

ASSUME SessionsAssumption ==
  /\ \A t \in Traffics : {t.enabled, t.only, t.ending} \subseteq BOOLEAN
  /\ MaxOrdinary \in Nat /\ Accounts # {}

TypeOK == DemoTypeOK /\ RealtimeTypeOK /\ A!TypeOK /\ P!TypeOK

Init ==
  /\ DemoInit /\ RealtimeInit /\ P!Init
  /\ A!Init
  /\ traffic.only \/ traffic.ending => account = [a \in Accounts |-> "absent"]

demoPart == <<demoVars, realtimeVars>>

(* DemoOrdinaryAuthGuard *)
OrdinaryRoutes == ~traffic.only /\ ~traffic.ending

(* Registration and login. *)
Enter(q) == OrdinaryRoutes /\ A!SignIn(q)

(* Refresh and logout go to one service or the other. *)
Present(q) == ~traffic.enabled /\ OrdinaryRoutes /\ A!Present(q)

Proceed == (\E q \in Slots : A!Continue(q)) \/ \E n \in A!Numbers : A!TokenExpires(n)

Next ==
  \/ /\ \/ \E q \in Slots : Enter(q) \/ Present(q)
        \/ Proceed
     /\ UNCHANGED <<demoPart, exitVars>>
  \/ traffic.enabled /\ RealtimeNext /\ UNCHANGED <<authVars, exitVars>>
  \/ traffic.ending /\ P!Next /\ UNCHANGED <<demoPart, authVars>>

(* Timers fire; nobody has to send a request. *)
Fairness ==
  \A k \in Sockets : WF_sessionsVars(Recheck(k) /\ UNCHANGED <<demoVars, authVars, exitVars>>)

Spec == Init /\ [][Next]_sessionsVars /\ Fairness

-----------------------------------------------------------------------------
(* The properties of the parts, in the deployment. *)

(* Auth: one usable token per login of a client that refreshes in sequence.*)
SequentialRotation == A!SequentialRotation

(* Auth: a login ended by a detected replay stays ended. *)
KilledStayDead == A!KilledStayDead

(* Shutdown: one exit, with success only if everything succeeded. *)
OrderlyExit == P!OrderlyExit

=============================================================================

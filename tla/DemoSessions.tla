---------------------------- MODULE DemoSessions ----------------------------
(***************************************************************************)
(* Demo workspaces (DemoService, DemoRepository, DemoAccessService): their *)
(* creation, the switch between the two primary accounts, the tokens of the*)
(* active one, logout and the usage limits.                                *)
(*                                                                         *)
(* Every transaction takes one advisory lock, reads, and writes; its writes*)
(* appear when it commits.  These are three steps, so that what a          *)
(* transaction relies on depends on the lock.  An access token is a session*)
(* with the generation it was issued in; a client may present any it holds.*)
(***************************************************************************)
EXTENDS Naturals, FiniteSets

CONSTANTS
  MaxSessions,    \* bound on the sessions of one behaviour
  MaxTokens,      \* bound on the refresh tokens of one session
  Addresses,      \* hashed client addresses
  Callers,        \* slots for requests in flight
  NoOne,          \* holds no lock
  MaxActive, PerHour, PerMinute, Uploads, AiPerSession, AiPerDay, AiPerIpDay, \* DemoLimits
  Traffics        \* the mixes of requests to consider, see DemoAssumption: their
                  \* kinds, roles and slots, the sessions created, the clocks that run

Kinds == {"create", "switch", "refresh", "logout", "forget", "upload", "ai"}
Roles == {"COMPANY", "APPLICANT"}
Limits == {MaxActive, PerHour, PerMinute, Uploads, AiPerSession, AiPerDay, AiPerIpDay}
Sessions == 1..MaxSessions
Tokens == 1..MaxTokens

ASSUME DemoAssumption ==
  /\ MaxSessions \in Nat /\ MaxTokens \in Nat \ {0} /\ NoOne \notin Callers /\ Addresses # {}
  /\ Limits \subseteq Nat \ {0}  \* demoConfig
  /\ \A t \in Traffics : /\ t.kinds \subseteq Kinds /\ t.sessions \in Nat /\ t.roles \subseteq Roles
                         /\ t.callers \subseteq Callers /\ t.addresses \subseteq Addresses
                         /\ t.clocks \subseteq {"session", "hour", "minute", "day"}

VARIABLES
  session,  \* session[s]: the row, with recent = created within the last hour
  token,    \* token[s][n]: the refresh tokens of its two accounts
  usage,    \* the demo_usage counters of this minute and this day
  lock,     \* the holder of pg_advisory_xact_lock
  caller,   \* caller[c]: where request c is and what it carries
  traffic   \* the mix of this behaviour

demoVars == <<session, token, usage, lock, caller, traffic>>

Idle == [at |-> "idle", kind |-> "create", s |-> 0, generation |-> 0, token |-> 0,
         address |-> CHOOSE a \in Addresses : TRUE, role |-> "COMPANY", counted |-> FALSE]

DemoTypeOK ==
  /\ session \in [Sessions -> [made : BOOLEAN, address : Addresses, recent : BOOLEAN,
                               revoked : BOOLEAN, expired : BOOLEAN, role : Roles,
                               generation : Nat, uploads : Nat, ai : Nat]]
  /\ token \in [Sessions -> [Tokens -> [state : {"none", "live", "revoked"}, role : Roles]]]
  /\ usage \in [minute : [Sessions -> Nat], day : Nat, address : [Addresses -> Nat]]
  /\ lock \in Callers \cup {NoOne}
  /\ \A c \in Callers : caller[c].at \in {"locked", "write"} <=> lock = c
  /\ caller \in [Callers -> [at : {"idle", "wait", "locked", "write", "notify"}, kind : Kinds,
                             s : 0..MaxSessions, generation : Nat, token : 0..MaxTokens,
                             address : Addresses, role : Roles, counted : BOOLEAN]]
  /\ traffic \in Traffics

DemoInit ==
  /\ session = [s \in Sessions |->
       [made |-> FALSE, address |-> Idle.address, recent |-> FALSE, revoked |-> FALSE,
        expired |-> FALSE, role |-> "COMPANY", generation |-> 0, uploads |-> 0, ai |-> 0]]
  /\ token = [s \in Sessions |-> [n \in Tokens |-> [state |-> "none", role |-> "COMPANY"]]]
  /\ usage = [minute |-> [s \in Sessions |-> 0], day |-> 0, address |-> [a \in Addresses |-> 0]]
  /\ lock = NoOne
  /\ caller = [c \in Callers |-> Idle]
  /\ traffic \in Traffics

Made == {s \in Sessions : session[s].made}
Over(s) == session[s].revoked \/ session[s].expired
Active == {s \in Made : ~Over(s)}
Unused(s) == {n \in Tokens : token[s][n].state = "none"}

\* assertDemoIdentity: the session is open and the access token is of its current
\* generation.  Account and role change only together with the generation.
Identity(p) == p.s \in Active /\ p.generation = session[p.s].generation

-----------------------------------------------------------------------------
(* Arrival of a request. *)

Arrive(c, p) ==
  /\ caller[c].at = "idle" /\ c \in traffic.callers /\ p.kind \in traffic.kinds
  /\ caller' = [caller EXCEPT ![c] = p]
  /\ UNCHANGED <<session, token, usage, lock, traffic>>

Create(c, a, role) ==
  /\ role \in traffic.roles /\ a \in traffic.addresses
  /\ Arrive(c, [Idle EXCEPT !.at = "wait", !.kind = "create", !.address = a, !.role = role])

(* JwtAuthGuard authorizes without the lock. *)
Authorize(c, kind, s, g, role) ==
  LET p == [Idle EXCEPT !.at = "wait", !.kind = kind, !.s = s, !.generation = g, !.role = role]
  IN /\ kind \in {"switch", "upload", "ai"}
     /\ IF kind = "switch" THEN role \in traffic.roles ELSE role = Idle.role
     /\ Identity(p)
     /\ Arrive(c, p)

Refresh(c, s, n) ==
  /\ s \in Made /\ n \notin Unused(s)
  /\ Arrive(c, [Idle EXCEPT !.at = "wait", !.kind = "refresh", !.s = s, !.token = n])

(* Logout with an access token, or with the refresh cookie alone.  Neither *)
(* passes the guard.                                                       *)
Logout(c, s, g) ==
  /\ s \in Made /\ g <= session[s].generation
  /\ Arrive(c, [Idle EXCEPT !.at = "wait", !.kind = "logout", !.s = s, !.generation = g])

LogoutByCookie(c, s, n) ==
  /\ s \in Made /\ n \notin Unused(s)
  /\ Arrive(c, [Idle EXCEPT !.at = "wait", !.kind = "forget", !.s = s, !.token = n])

-----------------------------------------------------------------------------
(* Transactions: lock, read, write. *)

MutLock(c) ==
  /\ caller[c].at = "wait"
  /\ lock' = c
  /\ caller' = [caller EXCEPT ![c].at = "locked"]
  /\ UNCHANGED <<session, token, usage, traffic>>

(* lockDemo *)
Lock(c) ==
  /\ caller[c].at = "wait" /\ lock = NoOne
  /\ lock' = c
  /\ caller' = [caller EXCEPT ![c].at = "locked"]
  /\ UNCHANGED <<session, token, usage, traffic>>

MutUnlock(c) == lock' = lock
Unlock(c) == lock' = IF lock = c THEN NoOne ELSE lock

MutMayCreate(a) ==
  /\ Cardinality(Active) < MaxActive
  /\ Cardinality({s \in Active : session[s].address = a /\ session[s].recent}) < PerHour

(* Expired and revoked sessions still count towards the hour. *)
MayCreate(a) ==
  /\ Cardinality(Active) < MaxActive
  /\ Cardinality({s \in Made : session[s].address = a /\ session[s].recent}) < PerHour

(* Only the token of the active account of an open session is refreshed. *)
MayRefresh(s, n) ==
  /\ token[s][n].state = "live" /\ token[s][n].role = session[s].role
  /\ s \in Active

(* consumeDemoAi asks for an open session, not for a generation. *)
MayRunAi(s) ==
  /\ s \in Active
  /\ session[s].ai < AiPerSession
  /\ usage.day < AiPerDay
  /\ usage.address[session[s].address] < AiPerIpDay

Allowed(p) ==
  IF p.kind \in {"switch", "upload", "ai"} /\ ~p.counted
  THEN Identity(p) /\ usage.minute[p.s] < PerMinute
  ELSE \/ p.kind = "create" /\ MayCreate(p.address)
       \/ p.kind \in {"switch", "logout"} /\ Identity(p)
       \/ p.kind = "refresh" /\ MayRefresh(p.s, p.token)
       \/ p.kind = "forget" /\ token[p.s][p.token].state = "live" /\ ~session[p.s].expired
       \/ p.kind = "upload" /\ Identity(p) /\ session[p.s].uploads < Uploads
       \/ p.kind = "ai" /\ MayRunAi(p.s)

Check(c) ==
  /\ caller[c].at = "locked"
  /\ IF Allowed(caller[c])
     THEN caller' = [caller EXCEPT ![c].at = "write"] /\ UNCHANGED lock
     ELSE caller' = [caller EXCEPT ![c] = Idle] /\ Unlock(c)
  /\ UNCHANGED <<session, token, usage, traffic>>

Writes(c, kind) ==
  /\ caller[c].at = "write" /\ caller[c].kind = kind
  /\ caller[c].counted \/ kind \notin {"switch", "upload", "ai"}
  /\ Unlock(c)

Done(c) == caller' = [caller EXCEPT ![c] = Idle]

(* authorizeHttp: only the applicant applies and evaluates. *)
MayUse(kind, role) == kind = "ai" => role = "APPLICANT"

(* rateLimit, before the handler of every authorized request; one with the *)
(* wrong role has been counted when it is refused.                         *)
CountRequest(c) ==
  /\ caller[c].at = "write" /\ caller[c].kind \in {"switch", "upload", "ai"} /\ ~caller[c].counted
  /\ usage' = [usage EXCEPT !.minute[caller[c].s] = @ + 1]
  /\ IF MayUse(caller[c].kind, session[caller[c].s].role)
       THEN caller' = [caller EXCEPT ![c].at = "wait", ![c].counted = TRUE]
     ELSE caller' = [caller EXCEPT ![c] = Idle]
  /\ Unlock(c)
  /\ UNCHANGED <<session, token, traffic>>

\* The session's tokens once those in Revoked are revoked and a new one, n, is inserted.
Rotate(s, Revoked, n, role) ==
  [token EXCEPT ![s] = [m \in Tokens |->
     IF m = n THEN [state |-> "live", role |-> role]
     ELSE IF m \in Revoked THEN [token[s][m] EXCEPT !.state = "revoked"]
     ELSE token[s][m]]]

LiveTokens(s) == {n \in Tokens : token[s][n].state = "live"}

CommitCreate(c, s, n) ==
  /\ Writes(c, "create")
  /\ s = Cardinality(Made) + 1 /\ s <= traffic.sessions /\ ~session[s].made
  /\ n \in Unused(s)
  /\ session' = [session EXCEPT ![s].made = TRUE, ![s].recent = TRUE,
                                ![s].address = caller[c].address, ![s].role = caller[c].role]
  /\ token' = Rotate(s, {}, n, caller[c].role)
  /\ Done(c)
  /\ UNCHANGED <<usage, traffic>>

MutCommitSwitch(c, n) ==
  LET s == caller[c].s
  IN /\ Writes(c, "switch")
     /\ n \in Unused(s)
     /\ session' = [session EXCEPT ![s].generation = @ + 1, ![s].role = caller[c].role]
     /\ token' = Rotate(s, {m \in LiveTokens(s) : token[s][m].role = caller[c].role},
                        n, caller[c].role)
     /\ caller' = [caller EXCEPT ![c].at = "notify"]
     /\ UNCHANGED <<usage, traffic>>

(* The transaction of switchRole.  Its sockets are closed afterwards. *)
CommitSwitch(c, n) ==
  LET s == caller[c].s
  IN /\ Writes(c, "switch")
     /\ n \in Unused(s)
     /\ session' = [session EXCEPT ![s].generation = @ + 1, ![s].role = caller[c].role]
     /\ token' = Rotate(s, LiveTokens(s), n, caller[c].role)
     /\ caller' = [caller EXCEPT ![c].at = "notify"]
     /\ UNCHANGED <<usage, traffic>>

CommitRefresh(c, n) ==
  LET s == caller[c].s
      old == caller[c].token
  IN /\ Writes(c, "refresh")
     /\ n \in Unused(s)
     /\ token' = Rotate(s, {old}, n, token[s][old].role)
     /\ Done(c)
     /\ UNCHANGED <<session, usage, traffic>>

(* revoke(payload, tokenHash): the session and all its live tokens. *)
CommitLogout(c) ==
  LET s == caller[c].s
  IN /\ Writes(c, "logout") \/ Writes(c, "forget")
     /\ session' = [session EXCEPT ![s].revoked = TRUE]
     /\ token' = Rotate(s, LiveTokens(s), 0, "COMPANY")
     /\ IF caller[c].kind = "logout" THEN caller' = [caller EXCEPT ![c].at = "notify"] ELSE Done(c)
     /\ UNCHANGED <<usage, traffic>>

ReserveUpload(c) ==
  /\ Writes(c, "upload")
  /\ session' = [session EXCEPT ![caller[c].s].uploads = @ + 1]
  /\ Done(c)
  /\ UNCHANGED <<token, usage, traffic>>

MutConsumeAi(c) ==
  LET s == caller[c].s
  IN /\ Writes(c, "ai")
     /\ session' = [session EXCEPT ![s].ai = @ + 1]
     /\ usage' = [usage EXCEPT !.day = @ + 1]
     /\ Done(c)
     /\ UNCHANGED <<token, traffic>>

ConsumeAi(c) ==
  LET s == caller[c].s
  IN /\ Writes(c, "ai")
     /\ session' = [session EXCEPT ![s].ai = @ + 1]
     /\ usage' = [usage EXCEPT !.day = @ + 1, !.address[session[s].address] = @ + 1]
     /\ Done(c)
     /\ UNCHANGED <<token, traffic>>

(* The end of a switch or logout, in the process that served it: see the   *)
(* sockets of Realtime.                                                    *)
Invalidate(c) ==
  /\ caller[c].at = "notify"
  /\ Done(c)
  /\ UNCHANGED <<session, token, usage, lock, traffic>>

(* A statement fails, the transaction times out or the process dies: the   *)
(* transaction rolls back and the lock goes.                               *)
Fail(c) ==
  /\ caller[c].at # "idle"
  /\ Done(c) /\ Unlock(c)
  /\ UNCHANGED <<session, token, usage, traffic>>

-----------------------------------------------------------------------------
(* Time. *)

SessionExpires(s) ==
  /\ "session" \in traffic.clocks /\ s \in Active
  /\ session' = [session EXCEPT ![s].expired = TRUE]
  /\ UNCHANGED <<token, usage, lock, caller, traffic>>

HourPasses(s) ==
  /\ "hour" \in traffic.clocks /\ session[s].recent
  /\ session' = [session EXCEPT ![s].recent = FALSE]
  /\ UNCHANGED <<token, usage, lock, caller, traffic>>

(* A new minute has a new key; the old row is garbage. *)
MinutePasses ==
  /\ "minute" \in traffic.clocks
  /\ usage' = [usage EXCEPT !.minute = [s \in Sessions |-> 0]]
  /\ UNCHANGED <<session, token, lock, caller, traffic>>

DayPasses ==
  /\ "day" \in traffic.clocks
  /\ usage' = [minute |-> [s \in Sessions |-> 0], day |-> 0, address |-> [a \in Addresses |-> 0]]
  /\ UNCHANGED <<session, token, lock, caller, traffic>>

Steps(c) ==
  \/ Lock(c) \/ Check(c) \/ CountRequest(c)
  \/ \E s \in Sessions, n \in Tokens : CommitCreate(c, s, n)
  \/ \E n \in Tokens : CommitSwitch(c, n) \/ CommitRefresh(c, n)
  \/ CommitLogout(c) \/ ReserveUpload(c) \/ ConsumeAi(c) \/ Invalidate(c)

Arrivals(c) ==
  \/ \E a \in Addresses, role \in Roles : Create(c, a, role)
  \/ \E s \in Sessions, kind \in Kinds, role \in Roles :
       Authorize(c, kind, s, session[s].generation, role)
  \/ \E s \in Sessions, n \in Tokens : Refresh(c, s, n) \/ LogoutByCookie(c, s, n)
  \/ \E s \in Sessions : \E g \in 0..session[s].generation : Logout(c, s, g)

Time == MinutePasses \/ DayPasses \/ \E s \in Sessions : SessionExpires(s) \/ HourPasses(s)

DemoNext == Time \/ \E c \in Callers : Steps(c) \/ Arrivals(c) \/ Fail(c)

DemoSpec == DemoInit /\ [][DemoNext]_demoVars

-----------------------------------------------------------------------------
MutRemaining(s) ==
  IF usage.day >= AiPerDay THEN 0 ELSE AiPerSession - session[s].ai

(* What view() tells the client of its AI runs: the least of three budgets.*)
Remaining(s) ==
  LET left == {AiPerSession - session[s].ai, AiPerDay - usage.day,
               AiPerIpDay - usage.address[session[s].address]}
  IN CHOOSE k \in left : \A m \in left : k <= m

(* DemoService.view: whether the client is offered another run. *)
Available(s) == Remaining(s) > 0

(* One element for every unit that f counts, the sum of f over S. *)
Units(f, S) == UNION {{x} \X (1..f[x]) : x \in S}

Total(f, S) == Cardinality(Units(f, S))

(* However many visitors start a demo at once, no more sessions are open   *)
(* than maxActiveSessions and no address creates more than                 *)
(* sessionsPerIpHour within any hour.                                      *)
CreationLimits ==
  /\ Cardinality(Active) <= MaxActive
  /\ \A a \in Addresses :
       Cardinality({s \in Made : session[s].address = a /\ session[s].recent}) <= PerHour

(* Switches, refreshes and logouts race for the tokens of a session: while *)
(* it is not revoked it has exactly one live refresh token, of the account *)
(* it shows; once revoked it has none.                                     *)
OneLiveToken ==
  \A s \in Made :
    IF session[s].revoked THEN LiveTokens(s) = {}
    ELSE \E n \in Tokens : LiveTokens(s) = {n} /\ token[s][n].role = session[s].role

(* What a request was allowed to do is still so when it does it: a switch, *)
(* logout, upload or refresh that is about to write holds the current      *)
(* generation or the live token, so of two switches of one generation one  *)
(* loses.                                                                  *)
CheckedIsCurrent ==
  \A c \in Callers : LET p == caller[c] IN
    p.at = "write" /\ p.kind # "create" =>
      /\ ~session[p.s].revoked
      /\ p.kind \in {"switch", "upload", "logout"} => p.generation = session[p.s].generation
      /\ p.kind \in {"refresh", "forget"} => token[p.s][p.token].state = "live"

(* No limit is exceeded by concurrent requests, the day's total is what the*)
(* addresses used together, and the remaining runs a client is shown are   *)
(* never negative, and another run is offered exactly when it would not be *)
(* refused.                                                                *)
QuotasHold ==
  /\ usage.day <= AiPerDay /\ usage.day = Total(usage.address, Addresses)
  /\ \A a \in Addresses : usage.address[a] <= AiPerIpDay
  /\ \A s \in Made :
       /\ session[s].uploads <= Uploads /\ session[s].ai <= AiPerSession
       /\ usage.minute[s] <= PerMinute
       /\ Remaining(s) \in Nat
       /\ s \in Active => (Available(s) <=> MayRunAi(s))
=============================================================================

-------------------------- MODULE DemoSessionsProofs --------------------------
(***************************************************************************)
(* Proofs about the demo workspaces of a deployment (Sessions) for every   *)
(* number of requests, sessions, tokens and addresses and for all limits:  *)
(* what a transaction has checked under the advisory lock holds when it    *)
(* writes, a session has one live refresh token, and concurrent creations  *)
(* keep the limits.                                                        *)
(***************************************************************************)
EXTENDS Sessions, FiniteSetTheorems, TLAPS

SessionRows ==
  [made : BOOLEAN, address : Addresses, recent : BOOLEAN, revoked : BOOLEAN, expired : BOOLEAN,
   role : Roles, generation : Nat, uploads : Nat, ai : Nat]
TokenRows == [state : {"none", "live", "revoked"}, role : Roles]
Usages == [minute : [Sessions -> Nat], day : Nat, address : [Addresses -> Nat]]
CallerRecords ==
  [at : {"idle", "wait", "locked", "write", "notify"}, kind : Kinds, s : 0..MaxSessions,
   generation : Nat, token : 0..MaxTokens, address : Addresses, role : Roles, counted : BOOLEAN]

(* A request that is under way names a session that exists, and a token if *)
(* it presents one.                                                        *)
Names(p) ==
  p.at # "idle" /\ p.kind # "create" =>
    /\ p.s \in Made
    /\ p.kind \in {"refresh", "forget"} => p.token \in Tokens

RequestInv == \A c \in Callers : Names(caller[c])

(* A row that does not exist yet has no history. *)
FreshInv ==
  \A s \in Sessions : ~session[s].made =>
    ~session[s].revoked /\ \A n \in Tokens : token[s][n].state = "none"

(* A creation that is about to write finds the limits as it read them. *)
CreateInv == \A c \in Callers :
  caller[c].at = "write" /\ caller[c].kind = "create" => MayCreate(caller[c].address)

DemoInv ==
  /\ DemoTypeOK /\ RequestInv /\ FreshInv /\ OneLiveToken
  /\ CheckedIsCurrent /\ CreateInv /\ CreationLimits

-----------------------------------------------------------------------------
(* Requests. *)

LEMMA IdleIsCaller == Idle \in CallerRecords /\ Idle.at = "idle"
  BY DemoAssumption DEF Idle, CallerRecords, Kinds, Roles

LEMMA Numbers ==
  Sessions \subseteq 0..MaxSessions /\ Tokens \subseteq 0..MaxTokens /\ 0 \notin Tokens
  BY DemoAssumption DEF Sessions, Tokens

LEMMA CallerBecomes ==
  ASSUME DemoTypeOK, NEW c \in Callers, NEW p \in CallerRecords,
         caller' = [caller EXCEPT ![c] = p]
  PROVE  /\ caller' \in [Callers -> CallerRecords]
         /\ caller'[c] = p
         /\ \A d \in Callers \ {c} : caller'[d] = caller[d]
  BY DEF DemoTypeOK, CallerRecords

LEMMA CallerGoes ==
  ASSUME DemoTypeOK, NEW c \in Callers,
         NEW at \in {"idle", "wait", "locked", "write", "notify"},
         caller' = [caller EXCEPT ![c].at = at]
  PROVE  /\ caller' \in [Callers -> CallerRecords]
         /\ caller'[c] = [caller[c] EXCEPT !.at = at]
         /\ \A d \in Callers \ {c} : caller'[d] = caller[d]
  <1> DEFINE p == [caller[c] EXCEPT !.at = at]
  <1>1. p \in CallerRecords
    BY DEF DemoTypeOK, CallerRecords
  <1>2. caller' = [caller EXCEPT ![c] = p]
    OBVIOUS
  <1> HIDE DEF p
  <1> QED
    BY <1>1, <1>2, CallerBecomes DEF p

(* The lock admits one transaction. *)
LEMMA Alone ==
  ASSUME DemoTypeOK, NEW c \in Callers, caller[c].at \in {"locked", "write"}
  PROVE  /\ lock = c
         /\ \A d \in Callers \ {c} : caller[d].at \notin {"locked", "write"}
  BY DEF DemoTypeOK

(* A transaction that ends leaves nobody inside. *)
LEMMA Ends ==
  ASSUME DemoTypeOK, NEW c \in Callers, caller[c].at \in {"locked", "write"}, Unlock(c),
         NEW p \in CallerRecords, p.at \notin {"locked", "write"},
         caller' = [caller EXCEPT ![c] = p]
  PROVE  /\ caller' \in [Callers -> CallerRecords]
         /\ lock' = NoOne
         /\ \A d \in Callers : caller'[d].at \notin {"locked", "write"}
         /\ \A d \in Callers : caller'[d].at \in {"locked", "write"} <=> lock' = d
  <1>1. lock' = NoOne
    BY Alone DEF Unlock
  <1>2. \A d \in Callers : caller'[d].at \notin {"locked", "write"}
    BY CallerBecomes, Alone
  <1> QED
    BY <1>1, <1>2, CallerBecomes, DemoAssumption

-----------------------------------------------------------------------------
(* A step that moves one request and leaves rows and tokens alone. *)
LEMMA Moves ==
  ASSUME DemoInv, NEW c \in Callers, NEW p \in CallerRecords,
         caller' = [caller EXCEPT ![c] = p],
         UNCHANGED <<session, token, traffic>>, usage' \in Usages,
         lock' \in Callers \cup {NoOne},
         \A d \in Callers : caller'[d].at \in {"locked", "write"} <=> lock' = d,
         Names(p),
         p.at = "write" => Allowed(p)
  PROVE  DemoInv'
  <1>a. DemoTypeOK
    BY DEF DemoInv
  <1>b. /\ caller' \in [Callers -> CallerRecords]
        /\ caller'[c] = p /\ \A d \in Callers \ {c} : caller'[d] = caller[d]
    BY <1>a, CallerBecomes
  <1>1. DemoTypeOK'
    BY <1>a, <1>b DEF DemoTypeOK, CallerRecords, Usages
  <1>2. RequestInv'
    BY <1>b DEF DemoInv, RequestInv, Names, Made
  <1>3. FreshInv' /\ OneLiveToken' /\ CreationLimits'
    BY DEF DemoInv, FreshInv, OneLiveToken, LiveTokens, CreationLimits, Active, Made, Over
  <1>4. CreateInv'
    <2> SUFFICES ASSUME NEW d \in Callers, caller'[d].at = "write", caller'[d].kind = "create"
                 PROVE  MayCreate(caller'[d].address)
      BY DEF CreateInv, MayCreate, Active, Made, Over
    <2>1. CASE d = c
      BY <1>b, <2>1 DEF Allowed
    <2>2. CASE d # c
      BY <1>b, <2>2 DEF DemoInv, CreateInv
    <2> QED
      BY <2>1, <2>2
  <1>5. CheckedIsCurrent'
    <2> SUFFICES ASSUME NEW d \in Callers, caller'[d].at = "write", caller'[d].kind # "create"
                 PROVE  LET q == caller'[d] IN
                        /\ ~session[q.s].revoked
                        /\ q.kind \in {"switch", "upload", "logout"} =>
                             q.generation = session[q.s].generation
                        /\ q.kind \in {"refresh", "forget"} => token[q.s][q.token].state = "live"
      BY DEF CheckedIsCurrent
    <2>1. CASE d = c
      <3>1. p.at = "write" /\ p.kind # "create" /\ Allowed(p) /\ p.kind \in Kinds
        BY <1>b, <2>1 DEF CallerRecords
      <3>2. p.s \in Made /\ (p.kind \in {"refresh", "forget"} => p.token \in Tokens)
        BY <3>1 DEF Names
      <3>3. CASE p.kind \in {"switch", "upload", "logout"}
        BY <1>b, <2>1, <3>1, <3>3 DEF Allowed, Identity, Active, Over
      <3>4. CASE p.kind = "ai"
        BY <1>b, <2>1, <3>1, <3>4 DEF Allowed, Identity, MayRunAi, Active, Over
      <3>5. CASE p.kind = "refresh"
        BY <1>b, <2>1, <3>1, <3>5 DEF Allowed, MayRefresh, Active, Over
      <3>6. CASE p.kind = "forget"
        <4>1. token[p.s][p.token].state = "live"
          BY <3>1, <3>6 DEF Allowed
        <4>2. ~session[p.s].revoked
          BY <3>2, <3>6, <4>1 DEF DemoInv, OneLiveToken, LiveTokens
        <4> QED
          BY <1>b, <2>1, <3>6, <4>1, <4>2
      <3> QED
        BY <3>1, <3>3, <3>4, <3>5, <3>6 DEF Kinds
    <2>2. CASE d # c
      BY <1>b, <2>2 DEF DemoInv, CheckedIsCurrent
    <2> QED
      BY <2>1, <2>2
  <1> QED
    BY <1>1, <1>2, <1>3, <1>4, <1>5 DEF DemoInv

(* A step of one request outside the lock. *)
LEMMA Outside ==
  ASSUME DemoInv, NEW c \in Callers, caller[c].at \notin {"locked", "write"},
         NEW p \in CallerRecords, p.at \notin {"locked", "write"}, Names(p),
         caller' = [caller EXCEPT ![c] = p],
         UNCHANGED <<session, token, usage, lock, traffic>>
  PROVE  DemoInv'
  <1>a. DemoTypeOK
    BY DEF DemoInv
  <1>1. \A d \in Callers : caller'[d].at \in {"locked", "write"} <=> lock' = d
    BY <1>a, CallerBecomes DEF DemoTypeOK
  <1> QED
    BY <1>a, <1>1, Moves DEF DemoTypeOK, Usages

LEMMA ArrivalsKeep ==
  ASSUME DemoInv, NEW c \in Callers, Arrivals(c)
  PROVE  DemoInv'
  <1>a. DemoTypeOK
    BY DEF DemoInv
  <1>1. ASSUME NEW p \in CallerRecords, p.at = "wait", Names(p), Arrive(c, p) PROVE DemoInv'
    BY <1>1, Outside DEF Arrive
  <1>2. ASSUME NEW a \in Addresses, NEW role \in Roles, Create(c, a, role) PROVE DemoInv'
    <2> DEFINE p == [Idle EXCEPT !.at = "wait", !.kind = "create", !.address = a, !.role = role]
    <2>1. p \in CallerRecords /\ p.at = "wait" /\ p.kind = "create"
      BY IdleIsCaller DEF CallerRecords, Kinds
    <2>2. Arrive(c, p)
      BY <1>2 DEF Create
    <2> HIDE DEF p
    <2> QED
      BY <1>1, <2>1, <2>2 DEF Names
  <1>3. ASSUME NEW s \in Sessions, NEW kind \in Kinds, NEW role \in Roles,
               Authorize(c, kind, s, session[s].generation, role)
        PROVE  DemoInv'
    <2> DEFINE g == session[s].generation
               p == [Idle EXCEPT !.at = "wait", !.kind = kind, !.s = s, !.generation = g,
                                 !.role = role]
    <2>1. g \in Nat
      BY <1>a DEF DemoTypeOK
    <2>2. kind \in {"switch", "upload", "ai"} /\ Identity(p) /\ Arrive(c, p)
      BY <1>3 DEF Authorize
    <2> HIDE DEF g
    <2>3. p \in CallerRecords /\ p.at = "wait" /\ p.kind = kind /\ p.s = s
      BY <2>1, IdleIsCaller, Numbers DEF CallerRecords
    <2>4. p.s \in Made
      BY <2>2 DEF Identity, Active
    <2> HIDE DEF p
    <2> QED
      BY <1>1, <2>2, <2>3, <2>4 DEF Names
  <1>4. ASSUME NEW s \in Sessions, NEW n \in Tokens, Refresh(c, s, n) PROVE DemoInv'
    <2> DEFINE p == [Idle EXCEPT !.at = "wait", !.kind = "refresh", !.s = s, !.token = n]
    <2>1. p \in CallerRecords /\ p.at = "wait" /\ p.s = s /\ p.token = n
      BY IdleIsCaller, Numbers DEF CallerRecords, Kinds
    <2>2. Arrive(c, p) /\ s \in Made
      BY <1>4 DEF Refresh
    <2> HIDE DEF p
    <2> QED
      BY <1>1, <2>1, <2>2 DEF Names
  <1>5. ASSUME NEW s \in Sessions, NEW n \in Tokens, LogoutByCookie(c, s, n) PROVE DemoInv'
    <2> DEFINE p == [Idle EXCEPT !.at = "wait", !.kind = "forget", !.s = s, !.token = n]
    <2>1. p \in CallerRecords /\ p.at = "wait" /\ p.s = s /\ p.token = n
      BY IdleIsCaller, Numbers DEF CallerRecords, Kinds
    <2>2. Arrive(c, p) /\ s \in Made
      BY <1>5 DEF LogoutByCookie
    <2> HIDE DEF p
    <2> QED
      BY <1>1, <2>1, <2>2 DEF Names
  <1>6. ASSUME NEW s \in Sessions, NEW g \in 0..session[s].generation, Logout(c, s, g)
        PROVE  DemoInv'
    <2> DEFINE p == [Idle EXCEPT !.at = "wait", !.kind = "logout", !.s = s, !.generation = g]
    <2>1. g \in Nat
      BY <1>a DEF DemoTypeOK
    <2>2. p \in CallerRecords /\ p.at = "wait" /\ p.kind = "logout" /\ p.s = s
      BY <2>1, IdleIsCaller, Numbers DEF CallerRecords, Kinds
    <2>3. Arrive(c, p) /\ s \in Made
      BY <1>6 DEF Logout
    <2> HIDE DEF p
    <2> QED
      BY <1>1, <2>2, <2>3 DEF Names
  <1> QED
    BY <1>2, <1>3, <1>4, <1>5, <1>6 DEF Arrivals

LEMMA LockKeeps ==
  ASSUME DemoInv, NEW c \in Callers, Lock(c)
  PROVE  DemoInv'
  <1>a. DemoTypeOK /\ Names(caller[c])
    BY DEF DemoInv, RequestInv
  <1> DEFINE p == [caller[c] EXCEPT !.at = "locked"]
  <1>1. p \in CallerRecords /\ p.at = "locked" /\ p.kind = caller[c].kind /\ p.s = caller[c].s
        /\ p.token = caller[c].token
    BY <1>a DEF DemoTypeOK, CallerRecords
  <1>2. caller' = [caller EXCEPT ![c] = p] /\ caller[c].at = "wait" /\ lock = NoOne /\ lock' = c
        /\ UNCHANGED <<session, token, usage, traffic>>
    BY DEF Lock
  <1> HIDE DEF p
  <1>3. \A d \in Callers : caller'[d].at \in {"locked", "write"} <=> lock' = d
    BY <1>a, <1>1, <1>2, CallerBecomes, DemoAssumption DEF DemoTypeOK
  <1>4. Names(p)
    BY <1>a, <1>1, <1>2 DEF Names
  <1> QED
    BY <1>a, <1>1, <1>2, <1>3, <1>4, Moves DEF DemoTypeOK, Usages

LEMMA EndsWithoutWriting ==
  ASSUME DemoInv, NEW c \in Callers, Done(c), Unlock(c), UNCHANGED <<session, token, traffic>>,
         usage' \in Usages
  PROVE  DemoInv'
  <1>a. DemoTypeOK
    BY DEF DemoInv
  <1>1. Names(Idle) /\ Idle \in CallerRecords /\ Idle.at = "idle"
    BY IdleIsCaller DEF Names
  <1>2. caller' = [caller EXCEPT ![c] = Idle]
    BY DEF Done
  <1>3. lock' \in Callers \cup {NoOne}
    BY <1>a DEF Unlock, DemoTypeOK
  <1>4. \A d \in Callers : caller'[d].at \in {"locked", "write"} <=> lock' = d
    BY <1>a, <1>1, <1>2, CallerBecomes, DemoAssumption DEF Unlock, DemoTypeOK
  <1> QED
    BY <1>1, <1>2, <1>3, <1>4, Moves

LEMMA CheckKeeps ==
  ASSUME DemoInv, NEW c \in Callers, Check(c)
  PROVE  DemoInv'
  <1>a. DemoTypeOK /\ Names(caller[c]) /\ caller[c].at = "locked"
    BY DEF DemoInv, RequestInv, Check
  <1>1. CASE Allowed(caller[c])
    <2> DEFINE p == [caller[c] EXCEPT !.at = "write"]
    <2>1. p \in CallerRecords /\ p.at = "write"
      BY <1>a DEF DemoTypeOK, CallerRecords
    <2>2. /\ p.kind = caller[c].kind /\ p.s = caller[c].s /\ p.token = caller[c].token
          /\ p.generation = caller[c].generation /\ p.address = caller[c].address
          /\ p.counted = caller[c].counted
      BY <1>a DEF DemoTypeOK, CallerRecords
    <2>3. caller' = [caller EXCEPT ![c] = p] /\ UNCHANGED <<session, token, usage, lock, traffic>>
      BY <1>1 DEF Check
    <2> HIDE DEF p
    <2>4. Allowed(p)
      BY <1>1, <2>2 DEF Allowed, Identity
    <2>5. Names(p)
      BY <1>a, <2>2 DEF Names
    <2>6. \A d \in Callers : caller'[d].at \in {"locked", "write"} <=> lock' = d
      BY <1>a, <2>1, <2>3, CallerBecomes DEF DemoTypeOK
    <2> QED
      BY <1>a, <2>1, <2>3, <2>4, <2>5, <2>6, Moves DEF DemoTypeOK, Usages
  <1>2. CASE ~Allowed(caller[c])
    BY <1>a, <1>2, EndsWithoutWriting DEF Check, Done, DemoTypeOK, Usages
  <1> QED
    BY <1>1, <1>2

LEMMA CountKeeps ==
  ASSUME DemoInv, NEW c \in Callers, CountRequest(c)
  PROVE  DemoInv'
  <1>a. DemoTypeOK /\ Names(caller[c]) /\ caller[c].at = "write" /\ Unlock(c)
        /\ UNCHANGED <<session, token, traffic>> /\ caller[c].kind # "create"
    BY DEF DemoInv, RequestInv, CountRequest
  <1>1. usage' \in Usages
    <2> DEFINE s == caller[c].s
               k == usage.minute[s] + 1
               minute == [usage.minute EXCEPT ![s] = k]
    <2>1. s \in Sessions
      BY <1>a DEF Names, Made
    <2>2. k \in Nat
      BY <1>a, <2>1 DEF DemoTypeOK
    <2>3. usage' = [usage EXCEPT !.minute = minute]
      BY DEF CountRequest
    <2> HIDE DEF k
    <2>4. minute \in [Sessions -> Nat]
      BY <1>a, <2>2 DEF DemoTypeOK
    <2> HIDE DEF minute
    <2> QED
      BY <1>a, <2>3, <2>4 DEF DemoTypeOK, Usages
  <1>2. CASE Done(c)
    BY <1>a, <1>1, <1>2, EndsWithoutWriting
  <1>3. CASE ~Done(c)
    <2> DEFINE p == [caller[c] EXCEPT !.at = "wait", !.counted = TRUE]
    <2>1. p \in CallerRecords /\ p.at = "wait" /\ p.kind = caller[c].kind /\ p.s = caller[c].s
          /\ p.token = caller[c].token
      BY <1>a DEF DemoTypeOK, CallerRecords
    <2>2. caller' = [caller EXCEPT ![c] = p]
      BY <1>3 DEF CountRequest, Done
    <2> HIDE DEF p
    <2>3. Names(p)
      BY <1>a, <2>1 DEF Names
    <2>4. /\ lock' = NoOne
          /\ \A d \in Callers : caller'[d].at \in {"locked", "write"} <=> lock' = d
      BY <1>a, <2>1, <2>2, Ends
    <2> QED
      BY <1>a, <1>1, <2>1, <2>2, <2>3, <2>4, Moves
  <1> QED
    BY <1>2, <1>3

LEMMA InvalidateKeeps ==
  ASSUME DemoInv, NEW c \in Callers, Invalidate(c)
  PROVE  DemoInv'
  BY IdleIsCaller, Outside DEF Invalidate, Done, Names

LEMMA FailKeeps ==
  ASSUME DemoInv, NEW c \in Callers, Fail(c)
  PROVE  DemoInv'
  BY EndsWithoutWriting DEF Fail, DemoInv, DemoTypeOK, Usages

-----------------------------------------------------------------------------
(* The limits of creation. *)

Recent(a) == {s \in Made : session[s].address = a /\ session[s].recent}

LEMMA SessionsAreFinite ==
  ASSUME NEW S \in SUBSET Sessions
  PROVE  IsFiniteSet(S) /\ Cardinality(S) \in Nat
  <1>1. IsFiniteSet(Sessions)
    BY DemoAssumption, FS_Interval DEF Sessions
  <1>2. IsFiniteSet(S)
    BY <1>1, FS_Subset
  <1> QED
    BY <1>2, FS_CardinalityType

LEMMA FewerSessions ==
  ASSUME NEW S \in SUBSET Sessions, NEW T \in SUBSET S
  PROVE  Cardinality(T) <= Cardinality(S) /\ Cardinality(T) \in Nat /\ Cardinality(S) \in Nat
  <1>1. IsFiniteSet(S) /\ Cardinality(S) \in Nat
    BY SessionsAreFinite
  <1>2. Cardinality(T) <= Cardinality(S)
    BY <1>1, FS_Subset
  <1>3. Cardinality(T) \in Nat
    BY SessionsAreFinite
  <1> QED
    BY <1>1, <1>2, <1>3

LEMMA OneMoreSession ==
  ASSUME NEW S \in SUBSET Sessions, NEW T \in SUBSET Sessions, NEW s \in Sessions,
         T \subseteq S \cup {s}, NEW k \in Nat, Cardinality(S) < k
  PROVE  Cardinality(T) <= k
  <1>1. IsFiniteSet(S) /\ Cardinality(S) \in Nat
    BY SessionsAreFinite
  <1>2. Cardinality(S \cup {s}) <= Cardinality(S) + 1
    <2>1. Cardinality(S \cup {s}) = IF s \in S THEN Cardinality(S) ELSE Cardinality(S) + 1
      BY <1>1, FS_AddElement, Zenon
    <2> QED
      BY <1>1, <2>1
  <1>3. T \in SUBSET (S \cup {s}) /\ S \cup {s} \in SUBSET Sessions
    OBVIOUS
  <1>4. Cardinality(T) <= Cardinality(S \cup {s}) /\ Cardinality(T) \in Nat
        /\ Cardinality(S \cup {s}) \in Nat
    BY <1>3, FewerSessions
  <1> QED
    BY <1>1, <1>2, <1>4

(* A step that creates no session leaves room for what was allowed. *)
LEMMA NoMoreSessions ==
  ASSUME DemoTypeOK, CreationLimits,
         \A s \in Sessions :
           /\ session'[s].made = session[s].made /\ session'[s].address = session[s].address
           /\ session'[s].recent => session[s].recent
           /\ Over(s) => session'[s].revoked \/ session'[s].expired
  PROVE  CreationLimits' /\ \A a \in Addresses : MayCreate(a) => MayCreate(a)'
  <1>1. Made' = Made /\ Active \in SUBSET Sessions /\ Active' \in SUBSET Active
    BY DEF Made, Active, Over
  <1>2. \A a \in Addresses : Recent(a) \in SUBSET Sessions /\ Recent(a)' \in SUBSET Recent(a)
    BY DEF Made, Recent
  <1>3. /\ Cardinality(Active') <= Cardinality(Active)
        /\ Cardinality(Active') \in Nat /\ Cardinality(Active) \in Nat
    BY <1>1, FewerSessions
  <1>4. ASSUME NEW a \in Addresses
        PROVE  /\ Cardinality(Recent(a)') <= Cardinality(Recent(a))
               /\ Cardinality(Recent(a)') \in Nat /\ Cardinality(Recent(a)) \in Nat
    BY <1>2, FewerSessions
  <1>5. MaxActive \in Nat /\ PerHour \in Nat
    BY DemoAssumption DEF Limits
  <1>6. Cardinality(Active') <= MaxActive
    BY <1>3, <1>5 DEF CreationLimits
  <1>7. ASSUME NEW a \in Addresses PROVE Cardinality(Recent(a)') <= PerHour
    <2>1. Cardinality(Recent(a)) <= PerHour
      BY DEF CreationLimits, Recent
    <2> QED
      BY <1>4, <1>5, <2>1
  <1>8. ASSUME NEW a \in Addresses, MayCreate(a) PROVE MayCreate(a)'
    <2>1. Cardinality(Active) < MaxActive /\ Cardinality(Recent(a)) < PerHour
      BY <1>8 DEF MayCreate, Recent
    <2>2. Cardinality(Active') < MaxActive /\ Cardinality(Recent(a)') < PerHour
      BY <1>3, <1>4, <1>5, <2>1
    <2> QED
      BY <2>2 DEF MayCreate, Recent
  <1> QED
    BY <1>6, <1>7, <1>8 DEF CreationLimits, Recent

-----------------------------------------------------------------------------
(* Commits. *)

(* The writer leaves the lock; what is left to show is about the rows. *)
LEMMA Commits ==
  ASSUME DemoInv, NEW c \in Callers, caller[c].at = "write", Unlock(c),
         Done(c) \/ caller' = [caller EXCEPT ![c].at = "notify"],
         session' \in [Sessions -> SessionRows], token' \in [Sessions -> [Tokens -> TokenRows]],
         usage' \in Usages, UNCHANGED traffic, Made \subseteq Made',
         FreshInv', OneLiveToken', CreationLimits'
  PROVE  DemoInv'
  <1>a. DemoTypeOK /\ Names(caller[c])
    BY DEF DemoInv, RequestInv
  <1>1. PICK p \in CallerRecords :
          /\ p.at \notin {"locked", "write"}
          /\ p.at # "idle" => p.kind = caller[c].kind /\ p.s = caller[c].s
                              /\ p.token = caller[c].token
          /\ caller' = [caller EXCEPT ![c] = p]
    <2>1. CASE Done(c)
      BY <2>1, IdleIsCaller DEF Done
    <2>2. CASE ~Done(c)
      <3> DEFINE p == [caller[c] EXCEPT !.at = "notify"]
      <3>1. p \in CallerRecords /\ p.at = "notify" /\ p.kind = caller[c].kind
            /\ p.s = caller[c].s /\ p.token = caller[c].token
        BY <1>a DEF DemoTypeOK, CallerRecords
      <3>2. caller' = [caller EXCEPT ![c] = p]
        BY <2>2
      <3> HIDE DEF p
      <3> QED
        BY <3>1, <3>2
    <2> QED
      BY <2>1, <2>2
  <1>2. /\ caller' \in [Callers -> CallerRecords] /\ lock' = NoOne
        /\ \A d \in Callers : caller'[d].at \notin {"locked", "write"}
        /\ \A d \in Callers : caller'[d].at \in {"locked", "write"} <=> lock' = d
    BY <1>a, <1>1, Ends
  <1>3. caller'[c] = p /\ \A d \in Callers \ {c} : caller'[d] = caller[d]
    BY <1>a, <1>1, CallerBecomes
  <1>4. DemoTypeOK'
    BY <1>a, <1>2 DEF DemoTypeOK, CallerRecords, SessionRows, TokenRows, Usages
  <1>5. RequestInv'
    <2> SUFFICES ASSUME NEW d \in Callers, caller'[d].at # "idle", caller'[d].kind # "create"
                 PROVE  /\ caller'[d].s \in Made
                        /\ caller'[d].kind \in {"refresh", "forget"} => caller'[d].token \in Tokens
      BY DEF RequestInv, Names
    <2>1. CASE d = c
      BY <1>a, <1>1, <1>3, <2>1 DEF Names
    <2>2. CASE d # c
      BY <1>3, <2>2 DEF DemoInv, RequestInv, Names
    <2> QED
      BY <2>1, <2>2
  <1>6. CheckedIsCurrent' /\ CreateInv'
    BY <1>2 DEF CheckedIsCurrent, CreateInv
  <1> QED
    BY <1>4, <1>5, <1>6 DEF DemoInv

(* What Rotate does to the tokens of one session. *)
Rotated(s, R, n, role) ==
  /\ token' \in [Sessions -> [Tokens -> TokenRows]]
  /\ \A t \in Sessions \ {s} : token'[t] = token[t]
  /\ n \in Tokens => token'[s][n] = [state |-> "live", role |-> role]
  /\ \A m \in Tokens \ {n} :
       /\ m \in R => token'[s][m].state = "revoked"
       /\ m \notin R => token'[s][m] = token[s][m]

LEMMA Rotates ==
  ASSUME DemoTypeOK, NEW s \in Sessions, NEW R \in SUBSET Tokens, NEW n \in 0..MaxTokens,
         NEW role \in Roles, token' = Rotate(s, R, n, role)
  PROVE  Rotated(s, R, n, role)
  <1> DEFINE tokens == [m \in Tokens |->
                       IF m = n THEN [state |-> "live", role |-> role]
                       ELSE IF m \in R THEN [token[s][m] EXCEPT !.state = "revoked"]
                       ELSE token[s][m]]
  <1>1. token \in [Sessions -> [Tokens -> TokenRows]]
    BY DEF DemoTypeOK, TokenRows
  <1>2. tokens \in [Tokens -> TokenRows]
    BY <1>1 DEF TokenRows
  <1>3. token' = [token EXCEPT ![s] = tokens]
    BY DEF Rotate
  <1>4. /\ n \in Tokens => tokens[n] = [state |-> "live", role |-> role]
        /\ \A m \in Tokens \ {n} :
             /\ m \in R => tokens[m].state = "revoked"
             /\ m \notin R => tokens[m] = token[s][m]
    BY <1>1 DEF TokenRows
  <1> HIDE DEF tokens
  <1>5. token' \in [Sessions -> [Tokens -> TokenRows]] /\ token'[s] = tokens
        /\ \A t \in Sessions \ {s} : token'[t] = token[t]
    BY <1>1, <1>2, <1>3
  <1>6. /\ n \in Tokens => token'[s][n] = [state |-> "live", role |-> role]
        /\ \A m \in Tokens \ {n} :
             /\ m \in R => token'[s][m].state = "revoked"
             /\ m \notin R => token'[s][m] = token[s][m]
    BY <1>4, <1>5
  <1> QED
    BY <1>5, <1>6 DEF Rotated

LEMMA RowIsTyped ==
  ASSUME DemoTypeOK, NEW s \in Sessions
  PROVE  session[s] \in SessionRows
  BY DEF DemoTypeOK, SessionRows

(* One row of the sessions is replaced. *)
LEMMA Replaces ==
  ASSUME DemoTypeOK, NEW s \in Sessions, NEW r \in SessionRows, session' = [session EXCEPT ![s] = r]
  PROVE  /\ session' \in [Sessions -> SessionRows]
         /\ session'[s] = r
         /\ \A t \in Sessions \ {s} : session'[t] = session[t]
  BY DEF DemoTypeOK, SessionRows

LEMMA CreateKeeps ==
  ASSUME DemoInv, NEW c \in Callers, NEW s \in Sessions, NEW n \in Tokens, CommitCreate(c, s, n)
  PROVE  DemoInv'
  <1>a. /\ DemoTypeOK /\ FreshInv /\ OneLiveToken /\ CreationLimits
        /\ caller[c].at = "write" /\ caller[c].kind = "create" /\ Unlock(c) /\ Done(c)
        /\ ~session[s].made /\ UNCHANGED <<usage, traffic>>
    BY DEF DemoInv, CommitCreate, Writes
  <1> DEFINE a == caller[c].address
             role == caller[c].role
             r == [session[s] EXCEPT !.made = TRUE, !.recent = TRUE, !.address = a, !.role = role]
  <1>1. a \in Addresses /\ role \in Roles /\ MayCreate(a)
    BY <1>a DEF DemoTypeOK, DemoInv, CreateInv
  <1>2. session' = [session EXCEPT ![s] = r] /\ token' = Rotate(s, {}, n, role)
    BY DEF CommitCreate
  <1> HIDE DEF a, role
  <1>3. r \in SessionRows /\ r.made /\ r.address = a /\ r.recent /\ r.role = role
        /\ r.revoked = session[s].revoked
    BY <1>a, <1>1, RowIsTyped DEF SessionRows
  <1> HIDE DEF r
  <1>4. /\ session' \in [Sessions -> SessionRows] /\ session'[s] = r
        /\ \A t \in Sessions \ {s} : session'[t] = session[t]
    BY <1>a, <1>2, <1>3, Replaces
  <1>5. Rotated(s, {}, n, role)
    <2>1. {} \in SUBSET Tokens /\ n \in 0..MaxTokens
      BY Numbers
    <2> QED
      BY <1>a, <1>1, <1>2, <2>1, Rotates
  <1>6. Made' = Made \cup {s}
    BY <1>3, <1>4 DEF Made
  <1>7. FreshInv'
    BY <1>a, <1>3, <1>4, <1>5 DEF FreshInv, Rotated
  <1>8. OneLiveToken'
    <2> SUFFICES ASSUME NEW t \in Made'
                 PROVE  IF session'[t].revoked THEN LiveTokens(t)' = {}
                        ELSE \E m \in Tokens : LiveTokens(t)' = {m}
                                               /\ token'[t][m].role = session'[t].role
      BY DEF OneLiveToken
    <2>1. CASE t = s
      <3>1. ~session'[t].revoked /\ LiveTokens(t)' = {n} /\ token'[t][n].role = session'[t].role
        BY <1>a, <1>3, <1>4, <1>5, <2>1 DEF FreshInv, LiveTokens, Rotated
      <3> QED
        BY <3>1
    <2>2. CASE t # s
      <3>1. t \in Made /\ session'[t] = session[t] /\ token'[t] = token[t]
        BY <1>4, <1>5, <1>6, <2>2 DEF Made, Rotated
      <3> QED
        BY <1>a, <3>1 DEF OneLiveToken, LiveTokens
    <2> QED
      BY <2>1, <2>2
  <1>9. CreationLimits'
    <2>1. MaxActive \in Nat /\ PerHour \in Nat
      BY DemoAssumption DEF Limits
    <2>2. Active \in SUBSET Sessions /\ Active' \in SUBSET Sessions /\ Active' \subseteq Active \cup {s}
      BY <1>4 DEF Active, Made, Over
    <2>3. Cardinality(Active) < MaxActive
      BY <1>1 DEF MayCreate
    <2>4. Cardinality(Active') <= MaxActive
      BY <2>1, <2>2, <2>3, OneMoreSession
    <2>5. ASSUME NEW b \in Addresses PROVE Cardinality(Recent(b)') <= PerHour
      <3>1. CASE b = a
        <4>1. /\ Recent(b) \in SUBSET Sessions /\ Recent(b)' \in SUBSET Sessions
              /\ Recent(b)' \subseteq Recent(b) \cup {s}
          BY <1>4 DEF Recent, Made
        <4>2. Cardinality(Recent(b)) < PerHour
          BY <1>1, <3>1 DEF MayCreate, Recent
        <4> QED
          BY <2>1, <4>1, <4>2, OneMoreSession
      <3>2. CASE b # a
        <4>1. Recent(b) \in SUBSET Sessions /\ Recent(b)' \in SUBSET Recent(b)
          BY <1>3, <1>4, <3>2 DEF Recent, Made
        <4>2. /\ Cardinality(Recent(b)') <= Cardinality(Recent(b))
              /\ Cardinality(Recent(b)') \in Nat /\ Cardinality(Recent(b)) \in Nat
          BY <4>1, FewerSessions
        <4>3. Cardinality(Recent(b)) <= PerHour
          BY <1>a DEF CreationLimits, Recent
        <4> QED
          BY <2>1, <4>2, <4>3
      <3> QED
        BY <3>1, <3>2
    <2> QED
      BY <2>4, <2>5 DEF CreationLimits, Recent
  <1> QED
    BY <1>a, <1>4, <1>5, <1>6, <1>7, <1>8, <1>9, Commits DEF DemoTypeOK, Usages, Rotated

(* A commit on an existing row that leaves its tokens alone. *)
LEMMA RowCommit ==
  ASSUME DemoInv, NEW c \in Callers, caller[c].at = "write", Unlock(c), Done(c),
         NEW s \in Sessions, NEW r \in SessionRows,
         session' = [session EXCEPT ![s] = r],
         r.made = session[s].made, r.address = session[s].address, r.recent = session[s].recent,
         r.revoked = session[s].revoked, r.expired = session[s].expired,
         r.role = session[s].role,
         usage' \in Usages, UNCHANGED <<token, traffic>>
  PROVE  DemoInv'
  <1>a. DemoTypeOK /\ FreshInv /\ OneLiveToken /\ CreationLimits
    BY DEF DemoInv
  <1>1. /\ session' \in [Sessions -> SessionRows] /\ session'[s] = r
        /\ \A t \in Sessions \ {s} : session'[t] = session[t]
    BY <1>a, Replaces
  <1>2. \A t \in Sessions :
          /\ session'[t].made = session[t].made /\ session'[t].address = session[t].address
          /\ session'[t].recent = session[t].recent /\ session'[t].revoked = session[t].revoked
          /\ session'[t].expired = session[t].expired /\ session'[t].role = session[t].role
    BY <1>1
  <1>3. FreshInv'
    BY <1>a, <1>2 DEF FreshInv
  <1>4. Made' = Made
    BY <1>2 DEF Made
  <1>5. OneLiveToken'
    BY <1>a, <1>2, <1>4 DEF OneLiveToken, LiveTokens, Made
  <1>6. CreationLimits'
    BY <1>a, <1>2, NoMoreSessions DEF Over
  <1>7. token' \in [Sessions -> [Tokens -> TokenRows]]
    BY <1>a DEF DemoTypeOK, TokenRows
  <1> QED
    BY <1>1, <1>3, <1>4, <1>5, <1>6, <1>7, Commits

LEMMA UploadKeeps ==
  ASSUME DemoInv, NEW c \in Callers, ReserveUpload(c)
  PROVE  DemoInv'
  <1>a. /\ DemoTypeOK /\ Names(caller[c]) /\ caller[c].at = "write" /\ caller[c].kind = "upload"
        /\ Unlock(c) /\ Done(c) /\ UNCHANGED <<token, usage, traffic>>
    BY DEF DemoInv, RequestInv, ReserveUpload, Writes
  <1> DEFINE s == caller[c].s
             k == session[s].uploads + 1
             r == [session[s] EXCEPT !.uploads = k]
  <1>1. s \in Sessions
    BY <1>a DEF Names, Made
  <1>2. k \in Nat
    BY <1>a, <1>1 DEF DemoTypeOK
  <1>3. session' = [session EXCEPT ![s] = r]
    BY DEF ReserveUpload
  <1> HIDE DEF s, k
  <1>4. /\ r \in SessionRows /\ r.made = session[s].made /\ r.address = session[s].address
        /\ r.recent = session[s].recent /\ r.revoked = session[s].revoked
        /\ r.expired = session[s].expired /\ r.role = session[s].role
    BY <1>a, <1>1, <1>2, RowIsTyped DEF SessionRows
  <1> HIDE DEF r
  <1>5. usage' \in Usages
    BY <1>a DEF DemoTypeOK, Usages
  <1> QED
    BY <1>a, <1>1, <1>3, <1>4, <1>5, RowCommit

LEMMA ConsumeKeeps ==
  ASSUME DemoInv, NEW c \in Callers, ConsumeAi(c)
  PROVE  DemoInv'
  <1>a. /\ DemoTypeOK /\ Names(caller[c]) /\ caller[c].at = "write" /\ caller[c].kind = "ai"
        /\ Unlock(c) /\ Done(c) /\ UNCHANGED <<token, traffic>>
    BY DEF DemoInv, RequestInv, ConsumeAi, Writes
  <1> DEFINE s == caller[c].s
             k == session[s].ai + 1
             r == [session[s] EXCEPT !.ai = k]
             a == session[s].address
             day == usage.day + 1
             m == usage.address[a] + 1
             address == [usage.address EXCEPT ![a] = m]
  <1>1. s \in Sessions
    BY <1>a DEF Names, Made
  <1>2. k \in Nat /\ a \in Addresses /\ day \in Nat
    BY <1>a, <1>1 DEF DemoTypeOK
  <1>3. m \in Nat
    BY <1>a, <1>2 DEF DemoTypeOK
  <1>4. session' = [session EXCEPT ![s] = r]
    BY DEF ConsumeAi
  <1>5. usage' = [usage EXCEPT !.day = day, !.address = address]
    BY DEF ConsumeAi
  <1> HIDE DEF s, k, a, day, m
  <1>6. /\ r \in SessionRows /\ r.made = session[s].made /\ r.address = session[s].address
        /\ r.recent = session[s].recent /\ r.revoked = session[s].revoked
        /\ r.expired = session[s].expired /\ r.role = session[s].role
    BY <1>a, <1>1, <1>2, RowIsTyped DEF SessionRows
  <1>7. address \in [Addresses -> Nat]
    BY <1>a, <1>2, <1>3 DEF DemoTypeOK
  <1> HIDE DEF r, address
  <1>8. usage' \in Usages
    BY <1>a, <1>2, <1>5, <1>7 DEF DemoTypeOK, Usages
  <1> QED
    BY <1>a, <1>1, <1>4, <1>6, <1>8, RowCommit

LEMMA SwitchKeeps ==
  ASSUME DemoInv, NEW c \in Callers, NEW n \in Tokens, CommitSwitch(c, n),
         NEW s \in Sessions, s = caller[c].s, NEW role \in Roles, role = caller[c].role
  PROVE  DemoInv'
  <1> DEFINE g == session[s].generation + 1
             r == [session[s] EXCEPT !.generation = g, !.role = role]
  <1>a. /\ DemoTypeOK /\ FreshInv /\ OneLiveToken /\ CreationLimits
        /\ caller[c].at = "write" /\ caller[c].kind = "switch" /\ Unlock(c)
        /\ caller' = [caller EXCEPT ![c].at = "notify"]
        /\ UNCHANGED <<usage, traffic>>
    BY DEF DemoInv, CommitSwitch, Writes
  <1>b. s \in Made /\ ~session[s].revoked
    BY <1>a DEF DemoInv, RequestInv, Names, CheckedIsCurrent
  <1>c. session' = [session EXCEPT ![s] = r] /\ token' = Rotate(s, LiveTokens(s), n, role)
    BY DEF CommitSwitch
  <1>d. g \in Nat
    BY <1>a DEF DemoTypeOK
  <1> HIDE DEF g
  <1>1. /\ r \in SessionRows /\ r.made = session[s].made /\ r.address = session[s].address
        /\ r.recent = session[s].recent /\ r.revoked = session[s].revoked
        /\ r.expired = session[s].expired /\ r.role = role
    BY <1>a, <1>d, RowIsTyped DEF SessionRows
  <1> HIDE DEF r
  <1>2. /\ session' \in [Sessions -> SessionRows] /\ session'[s] = r
        /\ \A t \in Sessions \ {s} : session'[t] = session[t]
    BY <1>a, <1>c, <1>1, Replaces
  <1>3. Rotated(s, LiveTokens(s), n, role)
    <2>1. LiveTokens(s) \in SUBSET Tokens /\ n \in 0..MaxTokens
      BY Numbers DEF LiveTokens
    <2> QED
      BY <1>a, <1>c, <2>1, Rotates
  <1>4. \A t \in Sessions :
          /\ session'[t].made = session[t].made /\ session'[t].address = session[t].address
          /\ session'[t].recent = session[t].recent /\ session'[t].revoked = session[t].revoked
          /\ session'[t].expired = session[t].expired
    BY <1>1, <1>2
  <1>5. Made' = Made
    BY <1>4 DEF Made
  <1>6. FreshInv'
    BY <1>a, <1>b, <1>3, <1>4 DEF FreshInv, Made, Rotated
  <1>7. OneLiveToken'
    <2> SUFFICES ASSUME NEW t \in Made
                 PROVE  IF session'[t].revoked THEN LiveTokens(t)' = {}
                        ELSE \E m \in Tokens : LiveTokens(t)' = {m}
                                               /\ token'[t][m].role = session'[t].role
      BY <1>5 DEF OneLiveToken
    <2>1. CASE t = s
      <3>1. LiveTokens(t)' = {n} /\ token'[t][n].role = role
        BY <1>3, <2>1 DEF LiveTokens, Rotated
      <3>2. ~session'[t].revoked /\ session'[t].role = role
        BY <1>b, <1>1, <1>2, <2>1
      <3> QED
        BY <3>1, <3>2
    <2>2. CASE t # s
      <3>1. session'[t] = session[t] /\ token'[t] = token[t]
        BY <1>2, <1>3, <2>2 DEF Made, Rotated
      <3> QED
        BY <1>a, <3>1 DEF OneLiveToken, LiveTokens
    <2> QED
      BY <2>1, <2>2
  <1>8. CreationLimits'
    BY <1>a, <1>4, NoMoreSessions DEF Over
  <1>9. usage' \in Usages /\ token' \in [Sessions -> [Tokens -> TokenRows]]
    BY <1>a, <1>3 DEF DemoTypeOK, Usages, Rotated
  <1> QED
    BY <1>a, <1>2, <1>5, <1>6, <1>7, <1>8, <1>9, Commits

LEMMA RefreshKeeps ==
  ASSUME DemoInv, NEW c \in Callers, NEW n \in Tokens, CommitRefresh(c, n),
         NEW s \in Sessions, s = caller[c].s, NEW old \in Tokens, old = caller[c].token
  PROVE  DemoInv'
  <1>a. /\ DemoTypeOK /\ FreshInv /\ OneLiveToken /\ CreationLimits
        /\ caller[c].at = "write" /\ caller[c].kind = "refresh" /\ Unlock(c) /\ Done(c)
        /\ n \in Unused(s) /\ UNCHANGED <<session, usage, traffic>>
    BY DEF DemoInv, CommitRefresh, Writes
  <1>b. s \in Made /\ token[s][old].state = "live" /\ ~session[s].revoked
    BY <1>a DEF DemoInv, RequestInv, Names, CheckedIsCurrent
  <1>c. LiveTokens(s) = {old} /\ token[s][old].role = session[s].role /\ n # old
    BY <1>a, <1>b DEF OneLiveToken, LiveTokens, Unused
  <1>1. Rotated(s, {old}, n, session[s].role)
    <2>1. {old} \in SUBSET Tokens /\ session[s].role \in Roles /\ n \in 0..MaxTokens
      BY <1>a, Numbers DEF DemoTypeOK
    <2>2. token' = Rotate(s, {old}, n, session[s].role)
      BY <1>c DEF CommitRefresh
    <2> QED
      BY <1>a, <2>1, <2>2, Rotates
  <1>2. FreshInv'
    BY <1>a, <1>b, <1>1 DEF FreshInv, Made, Rotated
  <1>3. CreationLimits' /\ Made' = Made
    BY <1>a DEF CreationLimits, Active, Made, Over
  <1>4. OneLiveToken'
    <2> SUFFICES ASSUME NEW t \in Made
                 PROVE  IF session[t].revoked THEN LiveTokens(t)' = {}
                        ELSE \E m \in Tokens : LiveTokens(t)' = {m}
                                               /\ token'[t][m].role = session[t].role
      BY <1>a, <1>3 DEF OneLiveToken
    <2>1. CASE t = s
      <3>1. ASSUME NEW m \in Tokens, m # n PROVE token'[s][m].state # "live"
        <4>1. m # old => token[s][m].state # "live"
          BY <1>c DEF LiveTokens
        <4> QED
          BY <1>1, <3>1, <4>1 DEF Rotated
      <3>2. token'[s][n].state = "live" /\ token'[s][n].role = session[s].role
        BY <1>1 DEF Rotated
      <3>3. LiveTokens(s)' = {n}
        BY <3>1, <3>2 DEF LiveTokens
      <3> QED
        BY <1>b, <2>1, <3>2, <3>3
    <2>2. CASE t # s
      <3>1. token'[t] = token[t]
        BY <1>1, <2>2 DEF Made, Rotated
      <3> QED
        BY <1>a, <3>1 DEF OneLiveToken, LiveTokens
    <2> QED
      BY <2>1, <2>2
  <1>5. /\ usage' \in Usages /\ session' \in [Sessions -> SessionRows]
        /\ token' \in [Sessions -> [Tokens -> TokenRows]]
    BY <1>a, <1>1 DEF DemoTypeOK, Usages, SessionRows, Rotated
  <1> QED
    BY <1>a, <1>2, <1>3, <1>4, <1>5, Commits

LEMMA LogoutKeeps ==
  ASSUME DemoInv, NEW c \in Callers, CommitLogout(c), NEW s \in Sessions, s = caller[c].s
  PROVE  DemoInv'
  <1> DEFINE r == [session[s] EXCEPT !.revoked = TRUE]
  <1>a. /\ DemoTypeOK /\ FreshInv /\ OneLiveToken /\ CreationLimits
        /\ caller[c].at = "write" /\ caller[c].kind \in {"logout", "forget"} /\ Unlock(c)
        /\ Done(c) \/ caller' = [caller EXCEPT ![c].at = "notify"]
        /\ UNCHANGED <<usage, traffic>>
    BY DEF DemoInv, CommitLogout, Writes
  <1>b. s \in Made
    BY <1>a DEF DemoInv, RequestInv, Names
  <1>c. session' = [session EXCEPT ![s] = r] /\ token' = Rotate(s, LiveTokens(s), 0, "COMPANY")
    BY DEF CommitLogout
  <1>1. /\ r \in SessionRows /\ r.made = session[s].made /\ r.address = session[s].address
        /\ r.recent = session[s].recent /\ r.revoked /\ r.expired = session[s].expired
    BY <1>a, RowIsTyped DEF SessionRows
  <1> HIDE DEF r
  <1>2. /\ session' \in [Sessions -> SessionRows] /\ session'[s] = r
        /\ \A t \in Sessions \ {s} : session'[t] = session[t]
    BY <1>a, <1>c, <1>1, Replaces
  <1>3. Rotated(s, LiveTokens(s), 0, "COMPANY")
    <2>1. LiveTokens(s) \in SUBSET Tokens /\ "COMPANY" \in Roles /\ 0 \in 0..MaxTokens
      BY DemoAssumption DEF LiveTokens, Roles
    <2> QED
      BY <1>a, <1>c, <2>1, Rotates
  <1>4. \A t \in Sessions :
          /\ session'[t].made = session[t].made /\ session'[t].address = session[t].address
          /\ session'[t].recent = session[t].recent
          /\ session[t].revoked => session'[t].revoked
          /\ session'[t].expired = session[t].expired
    BY <1>1, <1>2
  <1>5. Made' = Made
    BY <1>4 DEF Made
  <1>6. FreshInv'
    <2> SUFFICES ASSUME NEW t \in Sessions, ~session'[t].made
                 PROVE  ~session'[t].revoked /\ \A m \in Tokens : token'[t][m].state = "none"
      BY DEF FreshInv
    <2>1. t # s /\ ~session[t].made
      BY <1>b, <1>4 DEF Made
    <2> QED
      BY <1>a, <1>2, <1>3, <2>1 DEF FreshInv, Rotated
  <1>7. OneLiveToken'
    <2> SUFFICES ASSUME NEW t \in Made
                 PROVE  IF session'[t].revoked THEN LiveTokens(t)' = {}
                        ELSE \E m \in Tokens : LiveTokens(t)' = {m}
                                               /\ token'[t][m].role = session'[t].role
      BY <1>5 DEF OneLiveToken
    <2>1. CASE t = s
      <3>1. LiveTokens(t)' = {}
        BY <1>3, <2>1, Numbers DEF LiveTokens, Rotated
      <3> QED
        BY <1>1, <1>2, <2>1, <3>1
    <2>2. CASE t # s
      <3>1. session'[t] = session[t] /\ token'[t] = token[t]
        BY <1>2, <1>3, <2>2 DEF Made, Rotated
      <3> QED
        BY <1>a, <3>1 DEF OneLiveToken, LiveTokens
    <2> QED
      BY <2>1, <2>2
  <1>8. CreationLimits'
    BY <1>a, <1>4, NoMoreSessions DEF Over
  <1>9. usage' \in Usages /\ token' \in [Sessions -> [Tokens -> TokenRows]]
    BY <1>a, <1>3 DEF DemoTypeOK, Usages, Rotated
  <1> QED
    BY <1>a, <1>2, <1>5, <1>6, <1>7, <1>8, <1>9, Commits

-----------------------------------------------------------------------------
(* Time. *)
LEMMA ClockKeeps ==
  ASSUME DemoInv, NEW s \in Sessions, SessionExpires(s) \/ HourPasses(s)
  PROVE  DemoInv'
  <1>a. DemoTypeOK /\ UNCHANGED <<token, usage, lock, caller, traffic>>
    BY DEF DemoInv, SessionExpires, HourPasses
  <1>1. PICK r \in SessionRows :
          /\ session' = [session EXCEPT ![s] = r]
          /\ r.made = session[s].made /\ r.address = session[s].address
          /\ r.recent => session[s].recent
          /\ r.revoked = session[s].revoked /\ (session[s].expired => r.expired)
          /\ r.role = session[s].role /\ r.generation = session[s].generation
    <2>1. CASE SessionExpires(s)
      <3> DEFINE r == [session[s] EXCEPT !.expired = TRUE]
      <3>1. session' = [session EXCEPT ![s] = r]
        BY <2>1 DEF SessionExpires
      <3>2. session[s] \in SessionRows
        BY <1>a, RowIsTyped
      <3>3. /\ r \in SessionRows
            /\ r.made = session[s].made /\ r.address = session[s].address
            /\ r.recent => session[s].recent
            /\ r.revoked = session[s].revoked /\ (session[s].expired => r.expired)
            /\ r.role = session[s].role /\ r.generation = session[s].generation
        BY <3>2 DEF SessionRows
      <3> HIDE DEF r
      <3> QED
        BY <3>1, <3>3
    <2>2. CASE HourPasses(s)
      <3> DEFINE r == [session[s] EXCEPT !.recent = FALSE]
      <3>1. session' = [session EXCEPT ![s] = r]
        BY <2>2 DEF HourPasses
      <3>2. session[s] \in SessionRows
        BY <1>a, RowIsTyped
      <3>3. /\ r \in SessionRows
            /\ r.made = session[s].made /\ r.address = session[s].address
            /\ r.recent => session[s].recent
            /\ r.revoked = session[s].revoked /\ (session[s].expired => r.expired)
            /\ r.role = session[s].role /\ r.generation = session[s].generation
        BY <3>2 DEF SessionRows
      <3> HIDE DEF r
      <3> QED
        BY <3>1, <3>3
    <2> QED
      BY <2>1, <2>2
  <1>2. /\ session' \in [Sessions -> SessionRows] /\ session'[s] = r
        /\ \A t \in Sessions \ {s} : session'[t] = session[t]
    BY <1>a, <1>1, Replaces
  <1>3. \A t \in Sessions :
          /\ session'[t].made = session[t].made /\ session'[t].address = session[t].address
          /\ session'[t].recent => session[t].recent
          /\ session'[t].revoked = session[t].revoked
          /\ Over(t) => session'[t].revoked \/ session'[t].expired
          /\ session'[t].role = session[t].role /\ session'[t].generation = session[t].generation
    <2> TAKE t \in Sessions
    <2>1. CASE t = s
      BY <1>1, <1>2, <2>1 DEF Over
    <2>2. CASE t # s
      BY <1>2, <2>2 DEF Over
    <2> QED
      BY <2>1, <2>2
  <1>4. Made' = Made
    BY <1>3 DEF Made
  <1>5. DemoTypeOK'
    BY <1>a, <1>2 DEF DemoTypeOK, SessionRows
  <1>6. RequestInv'
    BY <1>a, <1>4 DEF DemoInv, RequestInv, Names
  <1>7. FreshInv'
    BY <1>a, <1>3 DEF DemoInv, FreshInv
  <1>8. OneLiveToken'
    BY <1>a, <1>3, <1>4 DEF DemoInv, OneLiveToken, LiveTokens, Made
  <1>9. CreationLimits' /\ \A a \in Addresses : MayCreate(a) => MayCreate(a)'
    BY <1>a, <1>3, NoMoreSessions DEF DemoInv
  <1>10. CreateInv'
    <2> SUFFICES ASSUME NEW c \in Callers, caller[c].at = "write", caller[c].kind = "create",
                        NEW a \in Addresses, a = caller[c].address
                 PROVE  MayCreate(a)'
      <3>1. ASSUME NEW c \in Callers PROVE caller[c].address \in Addresses
        BY <1>a DEF DemoTypeOK
      <3> QED
        BY <1>a, <3>1 DEF CreateInv, MayCreate
    <2>1. MayCreate(a)
      BY DEF DemoInv, CreateInv
    <2> QED
      BY <1>9, <2>1
  <1>11. CheckedIsCurrent'
    <2> SUFFICES ASSUME NEW c \in Callers, caller[c].at = "write", caller[c].kind # "create"
                 PROVE  LET p == caller[c] IN
                        /\ ~session'[p.s].revoked
                        /\ p.kind \in {"switch", "upload", "logout"} =>
                             p.generation = session'[p.s].generation
                        /\ p.kind \in {"refresh", "forget"} => token[p.s][p.token].state = "live"
      BY <1>a DEF CheckedIsCurrent
    <2>1. caller[c].s \in Sessions
      BY DEF DemoInv, RequestInv, Names, Made
    <2> QED
      BY <1>3, <2>1 DEF DemoInv, CheckedIsCurrent
  <1> QED
    BY <1>5, <1>6, <1>7, <1>8, <1>9, <1>10, <1>11 DEF DemoInv

LEMMA CountersReset ==
  ASSUME DemoInv, MinutePasses \/ DayPasses
  PROVE  DemoInv'
  <1>1. usage' \in Usages /\ UNCHANGED <<session, token, lock, caller, traffic>>
    <2>1. [s \in Sessions |-> 0] \in [Sessions -> Nat]
      OBVIOUS
    <2>2. CASE MinutePasses
      BY <2>1, <2>2 DEF MinutePasses, DemoInv, DemoTypeOK, Usages
    <2>3. CASE DayPasses
      BY <2>1, <2>3 DEF DayPasses, Usages
    <2> QED
      BY <2>2, <2>3
  <1>2. DemoTypeOK'
    BY <1>1 DEF DemoInv, DemoTypeOK, Usages
  <1>3. RequestInv' /\ FreshInv' /\ OneLiveToken'
    BY <1>1 DEF DemoInv, RequestInv, Names, Made, FreshInv, OneLiveToken, LiveTokens
  <1>4. CheckedIsCurrent'
    BY <1>1 DEF DemoInv, CheckedIsCurrent
  <1>5. CreateInv' /\ CreationLimits'
    BY <1>1 DEF DemoInv, CreateInv, MayCreate, CreationLimits, Active, Made, Over
  <1> QED
    BY <1>2, <1>3, <1>4, <1>5 DEF DemoInv

-----------------------------------------------------------------------------
LEMMA InitDemoInv == DemoInit => DemoInv
  <1> SUFFICES ASSUME DemoInit PROVE DemoInv
    OBVIOUS
  <1>1. DemoTypeOK
    <2>1. Idle.address \in Addresses /\ Idle.at = "idle" /\ Idle \in CallerRecords
      BY IdleIsCaller DEF CallerRecords
    <2>2. \A c \in Callers : c # NoOne
      BY DemoAssumption
    <2> QED
      BY <2>1, <2>2 DEF DemoInit, DemoTypeOK, CallerRecords, Roles
  <1>2. Made = {} /\ Active = {}
    BY DEF DemoInit, Made, Active
  <1>3. RequestInv /\ CheckedIsCurrent /\ CreateInv
    BY IdleIsCaller DEF DemoInit, RequestInv, Names, CheckedIsCurrent, CreateInv
  <1>4. FreshInv /\ OneLiveToken
    BY <1>2 DEF DemoInit, FreshInv, OneLiveToken
  <1>5. CreationLimits
    <2>1. Cardinality({}) = 0 /\ MaxActive \in Nat /\ PerHour \in Nat
      BY FS_EmptySet, DemoAssumption DEF Limits
    <2>2. \A a \in Addresses :
            {s \in Made : session[s].address = a /\ session[s].recent} = {}
      BY <1>2
    <2> QED
      BY <1>2, <2>1, <2>2 DEF CreationLimits
  <1> QED
    BY <1>1, <1>3, <1>4, <1>5 DEF DemoInv

LEMMA NextDemoInv == DemoInv /\ [DemoNext]_demoVars => DemoInv'
  <1> SUFFICES ASSUME DemoInv, [DemoNext]_demoVars PROVE DemoInv'
    OBVIOUS
  <1>1. ASSUME NEW c \in Callers, Steps(c) PROVE DemoInv'
    <2>1. ASSUME caller[c].at = "write", caller[c].kind # "create"
          PROVE  /\ caller[c].s \in Sessions /\ caller[c].role \in Roles
                 /\ caller[c].kind = "refresh" => caller[c].token \in Tokens
      BY <2>1 DEF DemoInv, DemoTypeOK, RequestInv, Names, Made
    <2>2. ASSUME NEW n \in Tokens, CommitSwitch(c, n) PROVE DemoInv'
      BY <2>1, <2>2, SwitchKeeps DEF CommitSwitch, Writes
    <2>3. ASSUME NEW n \in Tokens, CommitRefresh(c, n) PROVE DemoInv'
      BY <2>1, <2>3, RefreshKeeps DEF CommitRefresh, Writes
    <2>4. CASE CommitLogout(c)
      BY <2>1, <2>4, LogoutKeeps DEF CommitLogout, Writes
    <2> QED
      BY <1>1, <2>2, <2>3, <2>4, LockKeeps, CheckKeeps, CountKeeps, CreateKeeps, UploadKeeps,
         ConsumeKeeps, InvalidateKeeps DEF Steps
  <1>2. CASE Time
    BY <1>2, ClockKeeps, CountersReset DEF Time
  <1>3. CASE UNCHANGED demoVars
    <2>1. UNCHANGED <<session, token, usage, lock, caller, traffic>>
      BY <1>3 DEF demoVars
    <2>2. DemoTypeOK' /\ RequestInv' /\ FreshInv' /\ OneLiveToken'
      <3>1. DemoTypeOK'
        BY <2>1 DEF DemoInv, DemoTypeOK
      <3>2. RequestInv' /\ FreshInv'
        BY <2>1 DEF DemoInv, RequestInv, Names, Made, FreshInv
      <3>3. OneLiveToken'
        BY <2>1 DEF DemoInv, OneLiveToken, LiveTokens, Made
      <3> QED
        BY <3>1, <3>2, <3>3
    <2>3. CheckedIsCurrent' /\ CreateInv' /\ CreationLimits'
      BY <2>1 DEF DemoInv, CheckedIsCurrent, CreateInv, MayCreate, CreationLimits, Active, Made, Over
    <2> QED
      BY <2>2, <2>3 DEF DemoInv
  <1> QED
    BY <1>1, <1>2, <1>3, ArrivalsKeep, FailKeeps DEF DemoNext

(* Every step of the deployment is a step of the demo, or none of it. *)
LEMMA DeploymentSteps == [Next]_sessionsVars => [DemoNext]_demoVars
  <1> SUFFICES ASSUME [Next]_sessionsVars, ~UNCHANGED demoVars PROVE DemoNext
    OBVIOUS
  <1>1. RealtimeNext
    BY DEF Next, sessionsVars, demoPart
  <1>2. CASE Time \/ \E c \in Callers : Requests(c)
    BY <1>2 DEF DemoNext, Requests, Steps
  <1>3. ASSUME NEW c \in Callers, NEW p \in Processes, InvalidateSockets(c, p) PROVE DemoNext
    BY <1>3 DEF InvalidateSockets, DemoNext, Steps
  <1> QED
    BY <1>1, <1>2, <1>3 DEF RealtimeNext

LEMMA DemoInductive == Spec => []DemoInv
  <1>1. Init => DemoInv
    BY InitDemoInv DEF Init
  <1>2. DemoInv /\ [Next]_sessionsVars => DemoInv'
    BY NextDemoInv, DeploymentSteps
  <1> QED
    BY <1>1, <1>2, PTL DEF Spec

(* The demo inside a deployment, with its sockets and the process that     *)
(* ends, does nothing that DemoSessions alone does not do.                 *)
THEOREM DeploymentImplementsDemo == Spec => DemoSpec
  <1>1. Init => DemoInit
    BY DEF Init
  <1> QED
    BY <1>1, DeploymentSteps, PTL DEF Spec, DemoSpec

(* lockDemo: what a transaction read is still true when it writes, so of   *)
(* two switches, or of a switch and a refresh, of one generation one loses.*)
THEOREM ChecksHold == Spec => []CheckedIsCurrent
  <1>1. DemoInv => CheckedIsCurrent
    BY DEF DemoInv
  <1> QED
    BY DemoInductive, <1>1, PTL

(* However switches, refreshes and logouts race, an open session has one   *)
(* live refresh token, of the account it shows, and an ended one has none. *)
THEOREM TokensAreSingle == Spec => []OneLiveToken
  <1>1. DemoInv => OneLiveToken
    BY DEF DemoInv
  <1> QED
    BY DemoInductive, <1>1, PTL

(* maxActiveSessions and sessionsPerIpHour hold for any number of visitors *)
(* who start a demo at once.                                               *)
THEOREM LimitsOfCreation == Spec => []CreationLimits
  <1>1. DemoInv => CreationLimits
    BY DEF DemoInv
  <1> QED
    BY DemoInductive, <1>1, PTL
-----------------------------------------------------------------------------
(* The quotas. *)

(* What the counters say. *)
BudgetInv ==
  /\ usage.day <= AiPerDay
  /\ IsFiniteSet(Units(usage.address, Addresses)) /\ usage.day = Total(usage.address, Addresses)
  /\ \A a \in Addresses : usage.address[a] <= AiPerIpDay
  /\ \A s \in Sessions : /\ session[s].uploads <= Uploads /\ session[s].ai <= AiPerSession
                         /\ usage.minute[s] <= PerMinute

(* A request that is about to write finds the unit it was granted. *)
Granted(p) ==
  p.at = "write" =>
    /\ p.kind \in {"switch", "upload", "ai"} /\ ~p.counted => usage.minute[p.s] < PerMinute
    /\ p.kind = "upload" /\ p.counted => session[p.s].uploads < Uploads
    /\ p.kind = "ai" /\ p.counted =>
         /\ session[p.s].ai < AiPerSession /\ usage.day < AiPerDay
         /\ usage.address[session[p.s].address] < AiPerIpDay

GrantInv == \A c \in Callers : Granted(caller[c])

QuotaInv == BudgetInv /\ GrantInv

LEMMA NoUnits ==
  ASSUME NEW S
  PROVE  /\ IsFiniteSet(Units([x \in S |-> 0], S))
         /\ Total([x \in S |-> 0], S) = 0
  <1>1. Units([x \in S |-> 0], S) = {}
    BY DEF Units
  <1> QED
    BY <1>1, FS_EmptySet DEF Total

LEMMA OneMoreUnit ==
  ASSUME NEW S, NEW f \in [S -> Nat], NEW a \in S, IsFiniteSet(Units(f, S)),
         NEW n \in Nat, n = f[a] + 1, NEW g, g = [f EXCEPT ![a] = n]
  PROVE  IsFiniteSet(Units(g, S)) /\ Total(g, S) = Total(f, S) + 1
  <1>1. Units(g, S) = Units(f, S) \cup {<<a, n>>}
    <2>1. ASSUME NEW x \in S PROVE {x} \X (1..g[x]) \subseteq Units(f, S) \cup {<<a, n>>}
      BY <2>1 DEF Units
    <2>2. ASSUME NEW x \in S PROVE {x} \X (1..f[x]) \subseteq {x} \X (1..g[x])
      BY <2>2
    <2>3. <<a, n>> \in {a} \X (1..g[a])
      OBVIOUS
    <2>4. Units(g, S) \subseteq Units(f, S) \cup {<<a, n>>}
      BY <2>1 DEF Units
    <2>5. Units(f, S) \cup {<<a, n>>} \subseteq Units(g, S)
      BY <2>2, <2>3 DEF Units
    <2> QED
      BY <2>4, <2>5
  <1>2. <<a, n>> \notin Units(f, S)
    BY DEF Units
  <1>3. IsFiniteSet(Units(g, S))
    <2>1. IsFiniteSet(Units(f, S) \cup {<<a, n>>})
      BY FS_AddElement
    <2> QED
      BY <1>1, <2>1
  <1>4. Cardinality(Units(f, S) \cup {<<a, n>>}) = Cardinality(Units(f, S)) + 1
    BY <1>2, FS_AddElement
  <1> QED
    BY <1>1, <1>3, <1>4 DEF Total

(* A step that leaves the counters alone, and one that ends the only writer. *)
LEMMA BudgetStays ==
  ASSUME BudgetInv, UNCHANGED usage,
         \A s \in Sessions : /\ session'[s].uploads = session[s].uploads
                             /\ session'[s].ai = session[s].ai
  PROVE  BudgetInv'
  BY DEF BudgetInv

LEMMA GrantsStay ==
  ASSUME DemoInv, QuotaInv, UNCHANGED usage,
         \A s \in Sessions : /\ session'[s].uploads = session[s].uploads
                             /\ session'[s].ai = session[s].ai
                             /\ session'[s].address = session[s].address,
         \A c \in Callers : caller'[c].at = "write" => caller'[c] = caller[c]
  PROVE  QuotaInv'
  <1>1. BudgetInv'
    BY BudgetStays DEF QuotaInv
  <1>2. ASSUME NEW c \in Callers, caller'[c].at = "write" PROVE Granted(caller[c])'
    <2>1. caller'[c] = caller[c] /\ Granted(caller[c])
      BY <1>2 DEF QuotaInv, GrantInv
    <2>2. caller[c].kind # "create" => caller[c].s \in Sessions
      BY <1>2, <2>1 DEF DemoInv, RequestInv, Names, Made
    <2> QED
      BY <1>2, <2>1, <2>2 DEF Granted
  <1>3. GrantInv'
    BY <1>2 DEF GrantInv, Granted
  <1> QED
    BY <1>1, <1>3 DEF QuotaInv

LEMMA LastWriter ==
  ASSUME DemoTypeOK, NEW c \in Callers, caller[c].at = "write", NEW p \in CallerRecords,
         p.at # "write", caller' = [caller EXCEPT ![c] = p]
  PROVE  GrantInv'
  BY Alone, CallerBecomes DEF GrantInv, Granted

LEMMA WriterLeaves ==
  ASSUME DemoTypeOK, NEW c \in Callers, caller[c].at = "write",
         Done(c) \/ caller' = [caller EXCEPT ![c].at = "notify"]
  PROVE  GrantInv'
  <1>1. CASE Done(c)
    BY <1>1, IdleIsCaller, LastWriter DEF Done
  <1>2. CASE caller' = [caller EXCEPT ![c].at = "notify"]
    <2> DEFINE p == [caller[c] EXCEPT !.at = "notify"]
    <2>1. p \in CallerRecords /\ p.at = "notify" /\ caller' = [caller EXCEPT ![c] = p]
      BY <1>2 DEF DemoTypeOK, CallerRecords
    <2> HIDE DEF p
    <2> QED
      BY <2>1, LastWriter
  <1> QED
    BY <1>1, <1>2

(* The request that is about to write, and the unit it was granted. *)
LEMMA WriterIsGranted ==
  ASSUME DemoInv, QuotaInv, NEW c \in Callers, caller[c].at = "write", caller[c].kind # "create"
  PROVE  DemoTypeOK /\ caller[c].s \in Sessions /\ Granted(caller[c])
  BY DEF DemoInv, QuotaInv, GrantInv, RequestInv, Names, Made

LEMMA CheckGrants ==
  ASSUME DemoInv, QuotaInv, NEW c \in Callers, Check(c)
  PROVE  QuotaInv'
  <1>a. /\ DemoTypeOK /\ BudgetInv /\ UNCHANGED <<session, token, usage, traffic>>
        /\ caller[c] \in CallerRecords
    BY DEF DemoInv, DemoTypeOK, CallerRecords, QuotaInv, Check
  <1>1. CASE Allowed(caller[c])
    <2> DEFINE p == [caller[c] EXCEPT !.at = "write"]
    <2>1. /\ p \in CallerRecords /\ p.kind = caller[c].kind /\ p.s = caller[c].s
          /\ p.counted = caller[c].counted /\ caller' = [caller EXCEPT ![c] = p]
      BY <1>a, <1>1 DEF Check, CallerRecords
    <2> HIDE DEF p
    <2>2. Granted(p)
      BY <1>1, <2>1 DEF Granted, Allowed, MayRunAi
    <2>3. \A d \in Callers : Granted(caller'[d])
      BY <1>a, <2>1, <2>2, CallerBecomes DEF QuotaInv, GrantInv
    <2>4. GrantInv'
      BY <1>a, <2>3 DEF GrantInv, Granted
    <2> QED
      BY <1>a, <2>4, BudgetStays DEF QuotaInv
  <1>2. CASE ~Allowed(caller[c])
    <2>1. caller' = [caller EXCEPT ![c] = Idle]
      BY <1>2 DEF Check
    <2> QED
      BY <1>a, <2>1, IdleIsCaller, CallerBecomes, GrantsStay
  <1> QED
    BY <1>1, <1>2

LEMMA CountGrants ==
  ASSUME DemoInv, QuotaInv, NEW c \in Callers, CountRequest(c)
  PROVE  QuotaInv'
  <1> DEFINE s == caller[c].s
             n == usage.minute[s] + 1
             minute == [usage.minute EXCEPT ![s] = n]
             p == [caller[c] EXCEPT !.at = "wait", !.counted = TRUE]
  <1>a. /\ caller[c].at = "write" /\ caller[c].kind \in {"switch", "upload", "ai"}
        /\ ~caller[c].counted /\ UNCHANGED session /\ usage' = [usage EXCEPT !.minute = minute]
    BY DEF CountRequest
  <1>b. DemoTypeOK /\ s \in Sessions /\ Granted(caller[c]) /\ BudgetInv
    BY <1>a, WriterIsGranted DEF QuotaInv
  <1>1. n \in Nat /\ n <= PerMinute
    BY <1>a, <1>b, DemoAssumption DEF Granted, DemoTypeOK, Limits
  <1> HIDE DEF n
  <1>2. \A t \in Sessions : minute[t] <= PerMinute
    BY <1>b, <1>1 DEF BudgetInv, DemoTypeOK
  <1> HIDE DEF minute
  <1>3. usage'.minute = minute /\ usage'.day = usage.day /\ usage'.address = usage.address
    BY <1>a, <1>b DEF DemoTypeOK
  <1>4. BudgetInv'
    BY <1>a, <1>b, <1>2, <1>3 DEF BudgetInv
  <1>5. GrantInv'
    <2>1. p \in CallerRecords /\ p.at = "wait"
      BY <1>b DEF DemoTypeOK, CallerRecords
    <2>2. caller' = [caller EXCEPT ![c] = p] \/ caller' = [caller EXCEPT ![c] = Idle]
      BY DEF CountRequest
    <2> HIDE DEF p
    <2> QED
      BY <1>a, <1>b, <2>1, <2>2, IdleIsCaller, LastWriter
  <1> QED
    BY <1>4, <1>5 DEF QuotaInv

LEMMA UploadGrants ==
  ASSUME DemoInv, QuotaInv, NEW c \in Callers, ReserveUpload(c)
  PROVE  QuotaInv'
  <1> DEFINE s == caller[c].s
             n == session[s].uploads + 1
  <1>a. /\ caller[c].at = "write" /\ caller[c].kind = "upload" /\ caller[c].counted
        /\ Done(c) /\ UNCHANGED usage /\ session' = [session EXCEPT ![s].uploads = n]
    BY DEF ReserveUpload, Writes
  <1>b. DemoTypeOK /\ s \in Sessions /\ Granted(caller[c]) /\ BudgetInv
    BY <1>a, WriterIsGranted DEF QuotaInv
  <1>1. n \in Nat /\ n <= Uploads
    BY <1>a, <1>b, DemoAssumption DEF Granted, DemoTypeOK, Limits
  <1> HIDE DEF s, n
  <1>2. /\ session'[s].uploads = n
        /\ \A t \in Sessions : session'[t].ai = session[t].ai
        /\ \A t \in Sessions \ {s} : session'[t].uploads = session[t].uploads
    BY <1>a, <1>b DEF DemoTypeOK
  <1>3. BudgetInv'
    BY <1>a, <1>b, <1>1, <1>2 DEF BudgetInv
  <1> QED
    BY <1>a, <1>b, <1>3, WriterLeaves DEF QuotaInv

LEMMA ConsumeGrants ==
  ASSUME DemoInv, QuotaInv, NEW c \in Callers, ConsumeAi(c)
  PROVE  QuotaInv'
  <1> DEFINE s == caller[c].s
             a == session[s].address
             n == session[s].ai + 1
             day == usage.day + 1
             m == usage.address[a] + 1
             address == [usage.address EXCEPT ![a] = m]
  <1>a. /\ caller[c].at = "write" /\ caller[c].kind = "ai" /\ caller[c].counted
        /\ Done(c) /\ session' = [session EXCEPT ![s].ai = n]
        /\ usage' = [usage EXCEPT !.day = day, !.address = address]
    BY DEF ConsumeAi, Writes
  <1>b. DemoTypeOK /\ s \in Sessions /\ Granted(caller[c]) /\ BudgetInv
    BY <1>a, WriterIsGranted DEF QuotaInv
  <1>c. /\ session[s].ai < AiPerSession /\ usage.day < AiPerDay /\ usage.address[a] < AiPerIpDay
        /\ a \in Addresses /\ usage.address \in [Addresses -> Nat] /\ usage.day \in Nat
        /\ session[s].ai \in Nat
    BY <1>a, <1>b DEF Granted, DemoTypeOK
  <1>1. /\ n \in Nat /\ n <= AiPerSession
        /\ day \in Nat /\ day <= AiPerDay
        /\ m \in Nat /\ m <= AiPerIpDay
    BY <1>c, DemoAssumption DEF Limits
  <1>2. /\ IsFiniteSet(Units(address, Addresses))
        /\ Total(address, Addresses) = Total(usage.address, Addresses) + 1
    <2>1. IsFiniteSet(Units(usage.address, Addresses))
      BY <1>b DEF BudgetInv
    <2> QED
      BY <1>c, <1>1, <2>1, OneMoreUnit
  <1>3. \A b \in Addresses : address[b] <= AiPerIpDay
    BY <1>b, <1>c, <1>1 DEF BudgetInv
  <1>4. day = Total(address, Addresses)
    BY <1>b, <1>2 DEF BudgetInv
  <1>5. /\ usage'.day = day /\ usage'.address = address /\ usage'.minute = usage.minute
    BY <1>a, <1>b DEF DemoTypeOK
  <1> HIDE DEF s, n, day, m, address
  <1>6. /\ session'[s].ai = n
        /\ \A t \in Sessions : session'[t].uploads = session[t].uploads
        /\ \A t \in Sessions \ {s} : session'[t].ai = session[t].ai
    BY <1>a, <1>b DEF DemoTypeOK
  <1>7. BudgetInv'
    BY <1>b, <1>1, <1>2, <1>3, <1>4, <1>5, <1>6 DEF BudgetInv
  <1> QED
    BY <1>a, <1>b, <1>7, WriterLeaves DEF QuotaInv

(* The other commits write rows, but no counter. *)
LEMMA CommitGrants ==
  ASSUME DemoInv, QuotaInv, NEW c \in Callers,
         \/ \E s \in Sessions, n \in Tokens : CommitCreate(c, s, n)
         \/ \E n \in Tokens : CommitSwitch(c, n) \/ CommitRefresh(c, n)
         \/ CommitLogout(c)
  PROVE  QuotaInv'
  <1>1. /\ caller[c].at = "write" /\ UNCHANGED usage
        /\ Done(c) \/ caller' = [caller EXCEPT ![c].at = "notify"]
    BY DEF CommitCreate, CommitSwitch, CommitRefresh, CommitLogout, Writes
  <1>2. /\ DemoTypeOK /\ BudgetInv
    BY DEF DemoInv, QuotaInv
  <1>3. \A t \in Sessions : session'[t].uploads = session[t].uploads /\ session'[t].ai = session[t].ai
    <2>1. ASSUME NEW s \in Sessions, NEW n \in Tokens, CommitCreate(c, s, n)
          PROVE  \A t \in Sessions : /\ session'[t].uploads = session[t].uploads
                                     /\ session'[t].ai = session[t].ai
      <3> DEFINE a == caller[c].address
                 role == caller[c].role
                 r == [session[s] EXCEPT !.made = TRUE, !.recent = TRUE, !.address = a, !.role = role]
      <3>1. a \in Addresses /\ role \in Roles /\ session' = [session EXCEPT ![s] = r]
        BY <1>2, <2>1 DEF DemoTypeOK, CommitCreate
      <3> HIDE DEF a, role
      <3>2. r \in SessionRows /\ r.uploads = session[s].uploads /\ r.ai = session[s].ai
        BY <1>2, <3>1, RowIsTyped DEF SessionRows
      <3> HIDE DEF r
      <3> QED
        BY <1>2, <3>1, <3>2, Replaces
    <2>2. ASSUME NEW n \in Tokens, CommitSwitch(c, n)
          PROVE  \A t \in Sessions : /\ session'[t].uploads = session[t].uploads
                                     /\ session'[t].ai = session[t].ai
      BY <1>2, <2>2 DEF CommitSwitch, DemoTypeOK
    <2>3. ASSUME NEW n \in Tokens, CommitRefresh(c, n) PROVE UNCHANGED session
      BY <2>3 DEF CommitRefresh
    <2>4. ASSUME CommitLogout(c)
          PROVE  \A t \in Sessions : /\ session'[t].uploads = session[t].uploads
                                     /\ session'[t].ai = session[t].ai
      BY <1>2, <2>4 DEF CommitLogout, DemoTypeOK
    <2> QED
      BY <2>1, <2>2, <2>3, <2>4
  <1> QED
    BY <1>1, <1>2, <1>3, BudgetStays, WriterLeaves DEF QuotaInv

LEMMA ClockGrants ==
  ASSUME DemoInv, QuotaInv, Time
  PROVE  QuotaInv'
  <1>a. DemoTypeOK /\ BudgetInv
    BY DEF DemoInv, QuotaInv
  <1>1. ASSUME NEW s \in Sessions, SessionExpires(s) \/ HourPasses(s) PROVE QuotaInv'
    <2>1. /\ UNCHANGED <<usage, caller>>
          /\ \A t \in Sessions : /\ session'[t].uploads = session[t].uploads
                                 /\ session'[t].ai = session[t].ai
                                 /\ session'[t].address = session[t].address
      <3>1. CASE SessionExpires(s)
        BY <1>a, <3>1 DEF SessionExpires, DemoTypeOK
      <3>2. CASE HourPasses(s)
        BY <1>a, <3>2 DEF HourPasses, DemoTypeOK
      <3> QED
        BY <1>1, <3>1, <3>2
    <2> QED
      BY <2>1, GrantsStay
  <1>2. CASE MinutePasses \/ DayPasses
    <2>1. UNCHANGED <<session, caller>>
      BY <1>2 DEF MinutePasses, DayPasses
    <2>2. /\ \A t \in Sessions : usage'.minute[t] = 0
          /\ \/ usage'.day = usage.day /\ usage'.address = usage.address
             \/ usage'.day = 0 /\ usage'.address = [a \in Addresses |-> 0]
      BY <1>a, <1>2 DEF MinutePasses, DayPasses, DemoTypeOK
    <2>3. /\ IsFiniteSet(Units(usage'.address, Addresses))
          /\ usage'.day = Total(usage'.address, Addresses)
      BY <1>a, <2>2, NoUnits DEF BudgetInv
    <2>4. BudgetInv'
      <3>1. 0 <= AiPerDay /\ 0 <= AiPerIpDay /\ 0 <= PerMinute
        BY DemoAssumption DEF Limits
      <3> QED
        BY <1>a, <2>1, <2>2, <2>3, <3>1 DEF BudgetInv
    <2>5. ASSUME NEW c \in Callers, caller[c].at = "write" PROVE Granted(caller[c])'
      <3>1. Granted(caller[c]) /\ (caller[c].kind # "create" => caller[c].s \in Sessions)
        BY <2>5, WriterIsGranted DEF QuotaInv, GrantInv
      <3>2. 0 < AiPerDay /\ 0 < AiPerIpDay /\ 0 < PerMinute
        BY DemoAssumption DEF Limits
      <3>3. \A s \in Sessions : session[s].address \in Addresses
        BY <1>a DEF DemoTypeOK
      <3> QED
        BY <2>1, <2>2, <3>1, <3>2, <3>3 DEF Granted
    <2>6. GrantInv'
      BY <2>1, <2>5 DEF GrantInv, Granted
    <2> QED
      BY <2>4, <2>6 DEF QuotaInv
  <1> QED
    BY <1>1, <1>2 DEF Time

LEMMA QuietGrants ==
  ASSUME DemoInv, QuotaInv, NEW c \in Callers,
         Lock(c) \/ Invalidate(c) \/ Fail(c) \/ Arrivals(c)
  PROVE  QuotaInv'
  <1>a. DemoTypeOK
    BY DEF DemoInv
  <1>1. UNCHANGED <<session, usage>>
    BY DEF Lock, Invalidate, Fail, Arrivals, Create, Authorize, Refresh, Logout, LogoutByCookie, Arrive
  <1>2. PICK p : caller' = [caller EXCEPT ![c] = p] /\ p.at # "write"
    <2>1. CASE Lock(c)
      <3>1. [caller[c] EXCEPT !.at = "locked"].at = "locked"
        BY <1>a DEF DemoTypeOK
      <3> QED
        BY <2>1, <3>1 DEF Lock
    <2>2. CASE Invalidate(c) \/ Fail(c)
      BY <2>2, IdleIsCaller DEF Invalidate, Fail, Done
    <2>3. CASE Arrivals(c)
      <3>1. DOMAIN Idle = {"at", "kind", "s", "generation", "token", "address", "role", "counted"}
        BY DEF Idle
      <3>2. PICK q : Arrive(c, q) /\ q.at = "wait"
        <4>1. ASSUME NEW a \in Addresses, NEW role \in Roles, Create(c, a, role)
              PROVE  \E q : Arrive(c, q) /\ q.at = "wait"
          <5> DEFINE q == [Idle EXCEPT !.at = "wait", !.kind = "create", !.address = a, !.role = role]
          <5>1. q.at = "wait"
            BY <3>1
          <5>2. Arrive(c, q)
            BY <4>1 DEF Create
          <5> QED
            BY <5>1, <5>2
        <4>2. ASSUME NEW s \in Sessions, NEW kind \in Kinds, NEW role \in Roles, NEW g,
                     Authorize(c, kind, s, g, role)
              PROVE  \E q : Arrive(c, q) /\ q.at = "wait"
          <5> DEFINE q == [Idle EXCEPT !.at = "wait", !.kind = kind, !.s = s, !.generation = g,
                                     !.role = role]
          <5>1. q.at = "wait"
            BY <3>1
          <5>2. Arrive(c, q)
            BY <4>2 DEF Authorize
          <5> QED
            BY <5>1, <5>2
        <4>3. ASSUME NEW s \in Sessions, NEW n \in Tokens, Refresh(c, s, n) \/ LogoutByCookie(c, s, n)
              PROVE  \E q : Arrive(c, q) /\ q.at = "wait"
          <5> DEFINE q(kind) == [Idle EXCEPT !.at = "wait", !.kind = kind, !.s = s, !.token = n]
          <5>1. q("refresh").at = "wait" /\ q("forget").at = "wait"
            BY <3>1
          <5>2. Arrive(c, q("refresh")) \/ Arrive(c, q("forget"))
            BY <4>3 DEF Refresh, LogoutByCookie
          <5> HIDE DEF q
          <5> QED
            BY <5>1, <5>2
        <4>4. ASSUME NEW s \in Sessions, NEW g, Logout(c, s, g)
              PROVE  \E q : Arrive(c, q) /\ q.at = "wait"
          <5> DEFINE q == [Idle EXCEPT !.at = "wait", !.kind = "logout", !.s = s, !.generation = g]
          <5>1. q.at = "wait"
            BY <3>1
          <5>2. Arrive(c, q)
            BY <4>4 DEF Logout
          <5> QED
            BY <5>1, <5>2
        <4> QED
          BY <2>3, <4>1, <4>2, <4>3, <4>4 DEF Arrivals
      <3> QED
        BY <3>2 DEF Arrive
    <2> QED
      BY <2>1, <2>2, <2>3
  <1>3. \A d \in Callers : caller'[d].at = "write" => caller'[d] = caller[d]
    BY <1>a, <1>2 DEF DemoTypeOK
  <1> QED
    BY <1>1, <1>3, GrantsStay

LEMMA InitQuotaInv == DemoInit => QuotaInv
  <1> SUFFICES ASSUME DemoInit PROVE QuotaInv
    OBVIOUS
  <1>1. GrantInv
    BY IdleIsCaller DEF DemoInit, GrantInv, Granted
  <1>2. 0 <= AiPerDay /\ 0 <= AiPerIpDay /\ 0 <= PerMinute /\ 0 <= Uploads /\ 0 <= AiPerSession
    BY DemoAssumption DEF Limits
  <1>3. /\ usage.day = 0 /\ usage.address = [a \in Addresses |-> 0]
        /\ \A s \in Sessions : usage.minute[s] = 0 /\ session[s].uploads = 0 /\ session[s].ai = 0
    BY DEF DemoInit
  <1>4. IsFiniteSet(Units(usage.address, Addresses)) /\ Total(usage.address, Addresses) = 0
    BY <1>3, NoUnits
  <1> QED
    BY <1>1, <1>2, <1>3, <1>4 DEF QuotaInv, BudgetInv

LEMMA NextQuotaInv == DemoInv /\ QuotaInv /\ [DemoNext]_demoVars => QuotaInv'
  <1> SUFFICES ASSUME DemoInv, QuotaInv, [DemoNext]_demoVars PROVE QuotaInv'
    OBVIOUS
  <1>1. ASSUME NEW c \in Callers, Steps(c) \/ Arrivals(c) \/ Fail(c) PROVE QuotaInv'
    BY <1>1, QuietGrants, CheckGrants, CountGrants, CommitGrants, UploadGrants, ConsumeGrants
       DEF Steps
  <1>2. CASE UNCHANGED demoVars
    BY <1>2, GrantsStay DEF demoVars
  <1> QED
    BY <1>1, <1>2, ClockGrants DEF DemoNext

(* The least of the three budgets is one of them and no more than the others. *)
LEMMA LeastBudget ==
  ASSUME DemoTypeOK, BudgetInv, NEW s \in Sessions
  PROVE  /\ Remaining(s) \in Nat
         /\ Available(s) <=> /\ session[s].ai < AiPerSession /\ usage.day < AiPerDay
                             /\ usage.address[session[s].address] < AiPerIpDay
  <1> DEFINE a == AiPerSession - session[s].ai
             b == AiPerDay - usage.day
             c == AiPerIpDay - usage.address[session[s].address]
             left == {a, b, c}
  <1>1. /\ session[s].ai \in Nat /\ usage.day \in Nat /\ session[s].address \in Addresses
        /\ usage.address[session[s].address] \in Nat
    BY DEF DemoTypeOK
  <1>2. a \in Nat /\ b \in Nat /\ c \in Nat
    BY <1>1, DemoAssumption DEF BudgetInv, Limits
  <1>3. /\ a > 0 <=> session[s].ai < AiPerSession
        /\ b > 0 <=> usage.day < AiPerDay
        /\ c > 0 <=> usage.address[session[s].address] < AiPerIpDay
    BY <1>1, DemoAssumption DEF Limits
  <1>4. Remaining(s) = CHOOSE k \in left : \A m \in left : k <= m
    BY DEF Remaining
  <1> HIDE DEF a, b, c
  <1>5. \E k \in left : \A m \in left : k <= m
    BY <1>2
  <1>6. Remaining(s) \in left /\ \A m \in left : Remaining(s) <= m
    BY <1>4, <1>5
  <1>7. Remaining(s) \in Nat /\ (Remaining(s) > 0 <=> a > 0 /\ b > 0 /\ c > 0)
    BY <1>2, <1>6
  <1> QED
    BY <1>3, <1>7 DEF Available

LEMMA QuotaInvIsEnough == DemoInv /\ QuotaInv => QuotasHold
  <1> SUFFICES ASSUME DemoTypeOK, BudgetInv PROVE QuotasHold
    BY DEF DemoInv, QuotaInv
  <1>1. Made \subseteq Sessions
    BY DEF Made
  <1>2. \A s \in Made : Remaining(s) \in Nat /\ (s \in Active => (Available(s) <=> MayRunAi(s)))
    BY <1>1, LeastBudget DEF MayRunAi
  <1> QED
    BY <1>1, <1>2 DEF QuotasHold, BudgetInv

LEMMA QuotaInductive == Spec => []QuotaInv
  <1>1. Init => QuotaInv
    BY InitQuotaInv DEF Init
  <1>2. DemoInv /\ QuotaInv /\ [Next]_sessionsVars => QuotaInv'
    BY NextQuotaInv, DeploymentSteps
  <1> QED
    BY <1>1, <1>2, DemoInductive, PTL DEF Spec

(* consumeDemoAi, rateLimit, reserveUpload: however many requests run at   *)
(* once, no limit is exceeded, the day's count is what the addresses used  *)
(* together, and a client is offered a run exactly when it would get one.  *)
THEOREM QuotasAreKept == Spec => []QuotasHold
  BY QuotaInductive, DemoInductive, QuotaInvIsEnough, PTL
=============================================================================

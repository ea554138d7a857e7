------------------------------ MODULE AuthProofs ------------------------------
(***************************************************************************)
(* Proofs about ordinary refresh tokens (Auth) for every number of         *)
(* accounts, tokens and requests: one usable token per login whose         *)
(* refreshes do not overlap, and no way back for a login that a detected   *)
(* replay has ended.                                                       *)
(***************************************************************************)
EXTENDS Auth, FiniteSetTheorems, TLAPS

(* What the proofs need to know of the bounds; every instance has them. *)
Sized == MaxTokens \in Nat /\ Accounts # {}

States == {"none", "live", "expired", "revoked"}
TokenRows == [state : States, user : Accounts, family : 0..MaxTokens]
Requests ==
  [at : {"idle", "create", "check", "revoke", "kill", "issue", "drop"},
   user : Accounts, token : 0..MaxTokens]

(* Rows are inserted in order; a row belongs to the family of the login    *)
(* that began it, and with it to the login's user.                         *)
OrderInv == \E k \in 0..MaxTokens : Issued = 1..k

FamilyInv ==
  /\ \A n \in Issued : token[n].family \in Issued
  /\ \A m, n \in Issued : token[m].family = token[n].family => token[m].user = token[n].user
  /\ killed \subseteq Issued

(* A request that carries a token carries an issued one, and its user. *)
CarriesInv ==
  \A q \in Slots :
    /\ req[q].at \in {"check", "revoke", "kill", "drop"} => req[q].token # 0
    /\ req[q].at # "idle" /\ req[q].token # 0 =>
         req[q].token \in Issued /\ token[req[q].token].user = req[q].user

(* A login ended by a replay has neither a usable token nor a rotation     *)
(* that could still insert one.                                            *)
DeadInv == \A f \in killed : Live(f) = {} /\ Rotating(f) = {}

(* A login whose refreshes never overlapped has at most one usable token,  *)
(* and the rotation in flight, if there is one, is of that token.          *)
OneInv ==
  \A f \in Numbers \ overlapped :
    /\ \A m, n \in Live(f) : m = n
    /\ \A p, q \in Rotating(f) : p = q
    /\ \A q \in Rotating(f) :
         IF req[q].at = "issue" THEN Live(f) = {} ELSE Live(f) \subseteq {req[q].token}

IInv == TypeOK /\ OrderInv /\ FamilyInv /\ CarriesInv /\ DeadInv /\ OneInv

-----------------------------------------------------------------------------
LEMMA NumbersAreTokens ==
  ASSUME Sized
  PROVE  Numbers \subseteq 0..MaxTokens /\ 0 \notin Numbers
  BY DEF Sized, Numbers

LEMMA Goes ==
  ASSUME TypeOK, NEW q \in Slots, NEW r \in Requests, req' = [req EXCEPT ![q] = r]
  PROVE  /\ req' \in [Slots -> Requests] /\ req'[q] = r
         /\ \A p \in Slots \ {q} : req'[p] = req[p]
  BY DEF TypeOK, Requests

(* The next row. *)
LEMMA NextRow ==
  ASSUME Sized, OrderInv, Cardinality(Issued) < MaxTokens
  PROVE  /\ Cardinality(Issued) + 1 \in Numbers
         /\ Cardinality(Issued) + 1 \notin Issued
         /\ \E k \in 0..MaxTokens : Issued \cup {Cardinality(Issued) + 1} = 1..k
  <1>1. PICK k \in 0..MaxTokens : Issued = 1..k
    BY DEF OrderInv
  <1>2. Cardinality(1..k) = k
    BY <1>1, FS_Interval DEF Sized
  <1>3. k + 1 \in 0..MaxTokens /\ (1..k) \cup {k + 1} = 1..(k + 1) /\ k + 1 \notin 1..k
        /\ k + 1 \in 1..MaxTokens
    BY <1>1, <1>2 DEF Sized
  <1> QED
    BY <1>1, <1>2, <1>3 DEF Numbers

-----------------------------------------------------------------------------
(* A step that leaves the tokens alone: the request q goes on as r. *)
LEMMA RequestOnly ==
  ASSUME Sized, IInv, NEW q \in Slots, NEW r \in Requests, req' = [req EXCEPT ![q] = r],
         UNCHANGED <<token, killed>>, account' \in [Accounts -> {"absent", "active", "inactive", "demo"}],
         overlapped \subseteq overlapped', overlapped' \subseteq Numbers,
         r.at \in {"check", "revoke", "kill", "drop"} => r.token # 0,
         r.at # "idle" /\ r.token # 0 => r.token \in Issued /\ token[r.token].user = r.user,
         \/ r.at \notin {"check", "revoke", "issue"} \/ r.token = 0
         \/ r.at = "revoke" /\ req[q].at = "check" /\ req[q].token = r.token
         \/ /\ r.at = "check" /\ req[q].at = "idle" /\ token[r.token].state = "live"
            /\ Rotating(token[r.token].family) = {} \/ token[r.token].family \in overlapped'
  PROVE  IInv'
  <1>a. TypeOK /\ OrderInv /\ FamilyInv /\ CarriesInv /\ DeadInv /\ OneInv
    BY DEF IInv
  <1>b. /\ req' \in [Slots -> Requests] /\ req'[q] = r
        /\ \A p \in Slots \ {q} : req'[p] = req[p]
    BY <1>a, Goes
  <1>c. Issued' = Issued /\ \A f \in Numbers : Live(f)' = Live(f)
    BY DEF Issued, Live
  <1>1. TypeOK'
    BY <1>a, <1>b DEF TypeOK, Requests
  <1>2. OrderInv' /\ FamilyInv'
    BY <1>a, <1>c DEF OrderInv, FamilyInv
  <1>3. CarriesInv'
    BY <1>a, <1>b, <1>c DEF CarriesInv
  <1>4. CASE r.at \notin {"check", "revoke", "issue"} \/ r.token = 0
    <2>1. ASSUME NEW f PROVE Rotating(f)' \subseteq Rotating(f) \ {q}
      BY <1>b, <1>4 DEF Rotating
    <2>2. DeadInv'
      BY <1>a, <1>c, <2>1 DEF DeadInv, FamilyInv, Issued
    <2>3. OneInv'
      <3> SUFFICES ASSUME NEW f \in Numbers \ overlapped'
                   PROVE  /\ \A m, n \in Live(f) : m = n
                          /\ \A p, s \in Rotating(f)' : p = s
                          /\ \A s \in Rotating(f)' : IF req'[s].at = "issue" THEN Live(f) = {}
                                                     ELSE Live(f) \subseteq {req'[s].token}
        BY <1>c DEF OneInv
      <3>1. \A s \in Rotating(f)' : s \in Rotating(f) /\ req'[s] = req[s]
        BY <1>b, <2>1 DEF Rotating
      <3> QED
        BY <1>a, <3>1 DEF OneInv
    <2> QED
      BY <1>1, <1>2, <1>3, <2>2, <2>3 DEF IInv
  <1>5. CASE r.at = "revoke" /\ req[q].at = "check" /\ req[q].token = r.token
    <2>1. ASSUME NEW f PROVE Rotating(f)' = Rotating(f)
      BY <1>b, <1>5 DEF Rotating
    <2>2. DeadInv'
      BY <1>a, <1>c, <2>1 DEF DeadInv, FamilyInv, Issued
    <2>3. OneInv'
      <3> SUFFICES ASSUME NEW f \in Numbers \ overlapped'
                   PROVE  /\ \A m, n \in Live(f) : m = n
                          /\ \A p, s \in Rotating(f) : p = s
                          /\ \A s \in Rotating(f) : IF req'[s].at = "issue" THEN Live(f) = {}
                                                    ELSE Live(f) \subseteq {req'[s].token}
        BY <1>c, <2>1 DEF OneInv
      <3>1. \A s \in Slots : /\ req'[s].at = "issue" <=> req[s].at = "issue"
                             /\ req'[s].token = req[s].token
        BY <1>b, <1>5
      <3> QED
        BY <1>a, <3>1 DEF OneInv, Rotating
    <2> QED
      BY <1>1, <1>2, <1>3, <2>2, <2>3 DEF IInv
  <1>6. CASE /\ r.at = "check" /\ req[q].at = "idle" /\ token[r.token].state = "live"
             /\ Rotating(token[r.token].family) = {} \/ token[r.token].family \in overlapped'
    <2> DEFINE g == token[r.token].family
    <2>0. r.token \in Issued /\ r.token # 0 /\ r.token \in Live(g)
      BY <1>6 DEF Live
    <2>1. ASSUME NEW f, f # g PROVE Rotating(f)' = Rotating(f)
      BY <1>b, <1>6, <2>1 DEF Rotating
    <2>2. Rotating(token[r.token].family)' = Rotating(g) \cup {q}
      BY <1>b, <1>6, <2>0 DEF Rotating
    <2>3. \A f \in Numbers : req[q].at = "idle" => q \notin Rotating(f)
      BY DEF Rotating
    <2>4. DeadInv'
      <3>1. g \notin killed
        BY <1>a, <2>0 DEF DeadInv
      <3> QED
        BY <1>a, <1>c, <2>1, <3>1 DEF DeadInv, FamilyInv, Issued
    <2>5. OneInv'
      <3> SUFFICES ASSUME NEW f \in Numbers \ overlapped'
                   PROVE  /\ \A m, n \in Live(f) : m = n
                          /\ \A p, s \in Rotating(f)' : p = s
                          /\ \A s \in Rotating(f)' : IF req'[s].at = "issue" THEN Live(f) = {}
                                                     ELSE Live(f) \subseteq {req'[s].token}
        BY <1>c DEF OneInv
      <3>1. CASE f = g
        <4>1. Rotating(f)' = {q}
          <5>1. Rotating(g) = {}
            BY <1>6, <3>1
          <5> QED
            BY <2>2, <3>1, <5>1
        <4>2. \A m, n \in Live(f) : m = n
          BY <1>a DEF OneInv
        <4>3. Live(f) \subseteq {r.token}
          BY <2>0, <3>1, <4>2
        <4> QED
          BY <1>b, <1>6, <4>1, <4>2, <4>3
      <3>2. CASE f # g
        <4>1. Rotating(f)' = Rotating(f) /\ q \notin Rotating(f)
          BY <1>6, <2>1, <2>3, <3>2
        <4>2. \A s \in Rotating(f) : req'[s] = req[s]
          BY <1>b, <4>1 DEF Rotating
        <4> QED
          BY <1>a, <4>1, <4>2 DEF OneInv
      <3> QED
        BY <3>1, <3>2
    <2> QED
      BY <1>1, <1>2, <1>3, <2>4, <2>5 DEF IInv
  <1> QED
    BY <1>4, <1>5, <1>6

(* A step that makes no token usable: every request stays, ends, or has    *)
(* just revoked the token it rotates.                                      *)
LEMMA OnlyRevokes ==
  ASSUME Sized, IInv, token' \in [Numbers -> TokenRows], UNCHANGED <<account, overlapped>>,
         \A n \in Numbers :
           /\ token'[n].user = token[n].user /\ token'[n].family = token[n].family
           /\ token'[n].state = "none" <=> token[n].state = "none"
           /\ token'[n].state = "live" => token[n].state = "live",
         req' \in [Slots -> Requests],
         \A q \in Slots :
           \/ req'[q] = req[q]
           \/ req'[q].at = "idle" /\ req'[q].token = 0
           \/ /\ req[q].at = "revoke" /\ req'[q].at = "issue" /\ req'[q].user = req[q].user
              /\ req'[q].token = req[q].token /\ token'[req[q].token].state # "live",
         killed \subseteq killed',
         \A f \in killed' \ killed : f \in Issued /\ Rotating(f) = {} /\ Live(f)' = {}
  PROVE  IInv'
  <1>a. TypeOK /\ OrderInv /\ FamilyInv /\ CarriesInv /\ DeadInv /\ OneInv
    BY DEF IInv
  <1>b. Issued' = Issued
    BY DEF Issued
  <1>c. ASSUME NEW f PROVE Live(f)' \subseteq Live(f)
    BY <1>b DEF Live, Issued
  <1>d. ASSUME NEW f PROVE Rotating(f)' \subseteq Rotating(f)
    <2> SUFFICES ASSUME NEW q \in Rotating(f)' PROVE q \in Rotating(f)
      OBVIOUS
    <2>1. /\ q \in Slots /\ req'[q].at \in {"check", "revoke", "issue"} /\ req'[q].token # 0
          /\ token'[req'[q].token].family = f
      BY DEF Rotating
    <2>2. req[q].at \in {"check", "revoke", "issue"} /\ req'[q].token = req[q].token
      BY <2>1
    <2>3. req[q].token \in Numbers
      BY <1>a, <2>1, <2>2 DEF CarriesInv, Issued
    <2> QED
      BY <2>1, <2>2, <2>3 DEF Rotating
  <1>1. TypeOK'
    <2>1. killed' \subseteq Numbers
      BY <1>a DEF TypeOK, Issued
    <2> QED
      BY <1>a, <2>1 DEF TypeOK, TokenRows, Requests, States
  <1>2. OrderInv'
    BY <1>a, <1>b DEF OrderInv
  <1>3. FamilyInv'
    BY <1>a, <1>b DEF FamilyInv, Issued
  <1>4. CarriesInv'
    <2> SUFFICES ASSUME NEW q \in Slots
                 PROVE  /\ req'[q].at \in {"check", "revoke", "kill", "drop"} => req'[q].token # 0
                        /\ req'[q].at # "idle" /\ req'[q].token # 0 =>
                             /\ req'[q].token \in Issued
                             /\ token'[req'[q].token].user = req'[q].user
      BY <1>b DEF CarriesInv
    <2>1. CASE req'[q] = req[q]
      BY <1>a, <2>1 DEF CarriesInv, Issued
    <2>2. CASE req'[q].at = "idle" /\ req'[q].token = 0
      BY <2>2
    <2>3. CASE /\ req[q].at = "revoke" /\ req'[q].at = "issue" /\ req'[q].user = req[q].user
               /\ req'[q].token = req[q].token
      BY <1>a, <2>3 DEF CarriesInv, Issued
    <2> QED
      BY <2>1, <2>2, <2>3
  <1>5. DeadInv'
    <2> SUFFICES ASSUME NEW f \in killed' PROVE Live(f)' = {} /\ Rotating(f)' = {}
      BY DEF DeadInv
    <2>1. CASE f \in killed
      BY <1>a, <1>c, <1>d, <2>1 DEF DeadInv
    <2>2. CASE f \notin killed
      BY <1>d, <2>2
    <2> QED
      BY <2>1, <2>2
  <1>6. OneInv'
    <2> SUFFICES ASSUME NEW f \in Numbers \ overlapped
                 PROVE  /\ \A m, n \in Live(f)' : m = n
                        /\ \A p, q \in Rotating(f)' : p = q
                        /\ \A q \in Rotating(f)' : IF req'[q].at = "issue" THEN Live(f)' = {}
                                                   ELSE Live(f)' \subseteq {req'[q].token}
      BY DEF OneInv
    <2>1. /\ \A m, n \in Live(f) : m = n
          /\ \A p, q \in Rotating(f) : p = q
          /\ \A q \in Rotating(f) : IF req[q].at = "issue" THEN Live(f) = {}
                                    ELSE Live(f) \subseteq {req[q].token}
      BY <1>a DEF OneInv
    <2>2. Live(f)' \subseteq Live(f) /\ Rotating(f)' \subseteq Rotating(f)
      BY <1>c, <1>d
    <2>3. ASSUME NEW q \in Rotating(f)'
          PROVE  IF req'[q].at = "issue" THEN Live(f)' = {}
                 ELSE Live(f)' \subseteq {req'[q].token}
      <3>1. q \in Rotating(f) /\ q \in Slots /\ req'[q].at # "idle"
        BY <2>2, <2>3 DEF Rotating
      <3>2. CASE req'[q] = req[q]
        BY <2>1, <2>2, <3>1, <3>2
      <3>3. CASE /\ req[q].at = "revoke" /\ req'[q].at = "issue"
                 /\ token'[req[q].token].state # "live"
        <4>1. Live(f)' \subseteq {req[q].token}
          BY <2>1, <2>2, <3>1, <3>3
        <4>2. req[q].token \notin Live(f)'
          BY <3>3 DEF Live
        <4> QED
          BY <3>3, <4>1, <4>2
      <3> QED
        BY <3>1, <3>2, <3>3
    <2> QED
      BY <2>1, <2>2, <2>3
  <1> QED
    BY <1>1, <1>2, <1>3, <1>4, <1>5, <1>6 DEF IInv

(* One row changes its state and nothing else. *)
LEMMA OneRow ==
  ASSUME TypeOK, NEW n \in Numbers, token[n].state # "none", NEW state \in States \ {"none", "live"},
         token' = [token EXCEPT ![n].state = state]
  PROVE  /\ token' \in [Numbers -> TokenRows]
         /\ token'[n].state = state
         /\ \A m \in Numbers :
              /\ token'[m].user = token[m].user /\ token'[m].family = token[m].family
              /\ token'[m].state = "none" <=> token[m].state = "none"
              /\ token'[m].state = "live" => token[m].state = "live"
  <1> DEFINE row == [token[n] EXCEPT !.state = state]
  <1>1. token \in [Numbers -> TokenRows] /\ token[n] \in TokenRows
    BY DEF TypeOK, TokenRows, States
  <1>2. row \in TokenRows /\ row.state = state /\ row.user = token[n].user
        /\ row.family = token[n].family
    BY <1>1 DEF TokenRows
  <1>3. token' = [token EXCEPT ![n] = row]
    OBVIOUS
  <1> HIDE DEF row
  <1>4. token' \in [Numbers -> TokenRows] /\ token'[n] = row
        /\ \A m \in Numbers \ {n} : token'[m] = token[m]
    BY <1>1, <1>2, <1>3
  <1> QED
    BY <1>2, <1>4

(* A request that ends is as if it had never been made. *)
LEMMA Answers ==
  ASSUME Sized, TypeOK, NEW q \in Slots, Answer(q)
  PROVE  /\ req' \in [Slots -> Requests] /\ req'[q] = Idle /\ Idle \in Requests
         /\ Idle.at = "idle" /\ Idle.token = 0 /\ req' = [req EXCEPT ![q] = Idle]
         /\ \A p \in Slots \ {q} : req'[p] = req[p]
  <1>1. Idle \in Requests /\ Idle.at = "idle" /\ Idle.token = 0
    BY DEF Idle, Requests, Sized
  <1>2. req' = [req EXCEPT ![q] = Idle]
    BY DEF Answer
  <1> QED
    BY <1>1, <1>2, Goes

-----------------------------------------------------------------------------
(* The steps. *)
LEMMA SignInKeeps ==
  ASSUME Sized, IInv, NEW q \in Slots, SignIn(q)
  PROVE  IInv'
  <1>1. ASSUME NEW a \in Accounts, NEW at \in {"create", "issue"}, Go(q, at, a, 0),
               UNCHANGED <<account, token, overlapped, killed>>
        PROVE  IInv'
    <2> DEFINE r == [at |-> at, user |-> a, token |-> 0]
    <2>1. r \in Requests /\ r.token = 0 /\ r.at = at
      BY DEF Requests, Sized
    <2>2. req' = [req EXCEPT ![q] = r]
      BY <1>1 DEF Go
    <2> HIDE DEF r
    <2>3. account' \in [Accounts -> {"absent", "active", "inactive", "demo"}]
          /\ overlapped' \subseteq Numbers
      BY <1>1 DEF IInv, TypeOK
    <2> QED
      BY <1>1, <2>1, <2>2, <2>3, RequestOnly
  <1> QED
    BY <1>1 DEF SignIn, Register, Login

LEMMA RefreshKeeps ==
  ASSUME Sized, IInv, NEW q \in Slots, NEW n \in Numbers, Refresh(q, n)
  PROVE  IInv'
  <1>a. TypeOK /\ req[q].at = "idle" /\ n \in Issued /\ UNCHANGED <<account, token, killed>>
    BY DEF IInv, Refresh
  <1>b. token[n].user \in Accounts /\ n \in 0..MaxTokens /\ n # 0
        /\ token[n].family \in Numbers
    BY <1>a, NumbersAreTokens DEF TypeOK, IInv, FamilyInv, Issued
  <1> DEFINE a == token[n].user
             kill == [at |-> "kill", user |-> a, token |-> n]
             check == [at |-> "check", user |-> a, token |-> n]
  <1>1. /\ kill \in Requests /\ kill.at = "kill" /\ kill.token = n /\ kill.user = a
        /\ check \in Requests /\ check.at = "check" /\ check.token = n /\ check.user = a
    BY <1>b DEF Requests
  <1>2. /\ account' \in [Accounts -> {"absent", "active", "inactive", "demo"}]
        /\ overlapped \subseteq overlapped' /\ overlapped' \subseteq Numbers
    BY <1>a, <1>b DEF TypeOK, Refresh
  <1>3. \/ req' = [req EXCEPT ![q] = kill]
        \/ /\ token[n].state = "live" /\ req' = [req EXCEPT ![q] = check]
           /\ Rotating(token[n].family) = {} \/ token[n].family \in overlapped'
    BY DEF Refresh, Go
  <1> HIDE DEF kill, check
  <1>4. CASE req' = [req EXCEPT ![q] = kill]
    BY <1>a, <1>b, <1>1, <1>2, <1>4, RequestOnly
  <1>5. CASE /\ token[n].state = "live" /\ req' = [req EXCEPT ![q] = check]
             /\ Rotating(token[n].family) = {} \/ token[n].family \in overlapped'
    BY <1>a, <1>b, <1>1, <1>2, <1>5, RequestOnly
  <1> QED
    BY <1>3, <1>4, <1>5

LEMMA LogoutKeeps ==
  ASSUME Sized, IInv, NEW q \in Slots, NEW n \in Numbers, Logout(q, n)
  PROVE  IInv'
  <1> DEFINE a == token[n].user
             r == [at |-> "drop", user |-> a, token |-> n]
  <1>a. TypeOK /\ n \in Issued /\ UNCHANGED <<account, token, overlapped, killed>>
    BY DEF IInv, Logout
  <1>1. r \in Requests /\ r.at = "drop" /\ r.token = n /\ r.user = a /\ n # 0
    BY <1>a, NumbersAreTokens DEF TypeOK, Requests
  <1>2. req' = [req EXCEPT ![q] = r]
    BY DEF Logout, Go
  <1> HIDE DEF r
  <1> QED
    BY <1>a, <1>1, <1>2, RequestOnly DEF TypeOK

LEMMA EndKeeps ==
  ASSUME Sized, IInv, NEW q \in Slots, Answer(q), UNCHANGED <<token, overlapped, killed>>,
         account' \in [Accounts -> {"absent", "active", "inactive", "demo"}]
  PROVE  IInv'
  <1>1. TypeOK
    BY DEF IInv
  <1> QED
    BY <1>1, Answers, RequestOnly DEF TypeOK

LEMMA CreateKeeps ==
  ASSUME Sized, IInv, NEW q \in Slots, CreateUser(q)
  PROVE  IInv'
  BY EndKeeps DEF CreateUser, AddUser, IInv, TypeOK

LEMMA CheckKeeps ==
  ASSUME Sized, IInv, NEW q \in Slots, CheckUser(q)
  PROVE  IInv'
  <1>a. TypeOK /\ CarriesInv /\ req[q].at = "check"
        /\ UNCHANGED <<account, token, overlapped, killed>>
    BY DEF IInv, CheckUser
  <1>1. CASE Answer(q)
    BY <1>a, <1>1, EndKeeps DEF TypeOK
  <1>2. CASE ~Answer(q)
    <2> DEFINE a == req[q].user
               n == req[q].token
               r == [at |-> "revoke", user |-> a, token |-> n]
    <2>1. r \in Requests /\ r.at = "revoke" /\ r.token = n /\ r.user = a
      BY <1>a DEF TypeOK, Requests
    <2>2. req' = [req EXCEPT ![q] = r]
      BY <1>2 DEF CheckUser, Go
    <2>3. n # 0 /\ n \in Issued /\ token[n].user = a
      BY <1>a DEF CarriesInv
    <2> HIDE DEF r
    <2> QED
      BY <1>a, <2>1, <2>2, <2>3, RequestOnly DEF TypeOK
  <1> QED
    BY <1>1, <1>2

LEMMA RevokeTokenKeeps ==
  ASSUME Sized, IInv, NEW q \in Slots, RevokeToken(q), NEW n, n = req[q].token
  PROVE  IInv'
  <1>a. TypeOK /\ CarriesInv /\ req[q].at = "revoke" /\ UNCHANGED <<account, overlapped, killed>>
    BY DEF IInv, RevokeToken
  <1>b. n \in Numbers /\ token[n].state # "none" /\ n \in 0..MaxTokens
    BY <1>a, NumbersAreTokens DEF CarriesInv, Issued
  <1>1. /\ token' \in [Numbers -> TokenRows] /\ token'[n].state = "revoked"
        /\ \A m \in Numbers :
             /\ token'[m].user = token[m].user /\ token'[m].family = token[m].family
             /\ token'[m].state = "none" <=> token[m].state = "none"
             /\ token'[m].state = "live" => token[m].state = "live"
    <2>1. token' = [token EXCEPT ![n].state = "revoked"] /\ "revoked" \in States \ {"none", "live"}
      BY DEF RevokeToken, States
    <2> QED
      BY <1>a, <1>b, <2>1, OneRow
  <1> DEFINE a == req[q].user
             r == [at |-> "issue", user |-> a, token |-> n]
  <1>2. r \in Requests /\ r.at = "issue" /\ r.token = n /\ r.user = a
    BY <1>a, <1>b DEF TypeOK, Requests
  <1>3. req' = [req EXCEPT ![q] = r]
    BY DEF RevokeToken, Go
  <1> HIDE DEF r
  <1>4. /\ req' \in [Slots -> Requests] /\ req'[q] = r
        /\ \A p \in Slots \ {q} : req'[p] = req[p]
    BY <1>a, <1>2, <1>3, Goes
  <1>5. \A p \in Slots :
          \/ req'[p] = req[p]
          \/ /\ req[p].at = "revoke" /\ req'[p].at = "issue" /\ req'[p].user = req[p].user
             /\ req'[p].token = req[p].token /\ token'[req[p].token].state # "live"
    BY <1>a, <1>1, <1>2, <1>4
  <1> QED
    BY <1>a, <1>1, <1>4, <1>5, OnlyRevokes

LEMMA DropKeeps ==
  ASSUME Sized, IInv, NEW q \in Slots, Drop(q), NEW n, n = req[q].token
  PROVE  IInv'
  <1>a. TypeOK /\ CarriesInv /\ req[q].at = "drop" /\ UNCHANGED <<account, overlapped, killed>>
        /\ Answer(q)
    BY DEF IInv, Drop
  <1>b. n \in Numbers /\ token[n].state # "none"
    BY <1>a DEF CarriesInv, Issued
  <1>1. /\ token' \in [Numbers -> TokenRows]
        /\ \A m \in Numbers :
             /\ token'[m].user = token[m].user /\ token'[m].family = token[m].family
             /\ token'[m].state = "none" <=> token[m].state = "none"
             /\ token'[m].state = "live" => token[m].state = "live"
    <2>1. token' = [token EXCEPT ![n].state = "revoked"] /\ "revoked" \in States \ {"none", "live"}
      BY DEF Drop, States
    <2> QED
      BY <1>a, <1>b, <2>1, OneRow
  <1>2. req' \in [Slots -> Requests]
        /\ \A p \in Slots : req'[p] = req[p] \/ (req'[p].at = "idle" /\ req'[p].token = 0)
    BY <1>a, Answers
  <1> QED
    BY <1>a, <1>1, <1>2, OnlyRevokes

LEMMA ExpiryKeeps ==
  ASSUME Sized, IInv, NEW n \in Numbers, TokenExpires(n)
  PROVE  IInv'
  <1>a. TypeOK /\ UNCHANGED <<account, req, overlapped, killed>>
    BY DEF IInv, TokenExpires
  <1>1. /\ token' \in [Numbers -> TokenRows]
        /\ \A m \in Numbers :
             /\ token'[m].user = token[m].user /\ token'[m].family = token[m].family
             /\ token'[m].state = "none" <=> token[m].state = "none"
             /\ token'[m].state = "live" => token[m].state = "live"
    <2>1. token' = [token EXCEPT ![n].state = "expired"] /\ "expired" \in States \ {"none", "live"}
          /\ token[n].state # "none"
      BY DEF TokenExpires, States
    <2> QED
      BY <1>a, <2>1, OneRow
  <1>2. req' \in [Slots -> Requests]
    BY <1>a DEF TypeOK, Requests
  <1> QED
    BY <1>a, <1>1, <1>2, OnlyRevokes

LEMMA RevokeAllKeeps ==
  ASSUME Sized, IInv, NEW q \in Slots, RevokeAll(q), NEW u, u = req[q].user
  PROVE  IInv'
  <1>a. TypeOK /\ FamilyInv /\ UNCHANGED <<account, overlapped>> /\ Answer(q)
    BY DEF IInv, RevokeAll
  <1> DEFINE mine == {n \in Issued : token[n].user = u}
  <1>b. /\ token' = [n \in Numbers |-> IF n \in mine THEN [token[n] EXCEPT !.state = "revoked"]
                                      ELSE token[n]]
        /\ killed' = killed \cup {f \in {token[n].family : n \in mine} : Rotating(f) = {}}
    BY DEF RevokeAll
  <1>c. mine \subseteq Numbers /\ \A n \in Numbers : token[n] \in TokenRows
    BY <1>a DEF Issued, TypeOK, TokenRows, States
  <1>1. ASSUME NEW n \in Numbers
        PROVE  /\ token'[n] \in TokenRows
               /\ token'[n].user = token[n].user /\ token'[n].family = token[n].family
               /\ token'[n].state = "none" <=> token[n].state = "none"
               /\ token'[n].state = "live" => token[n].state = "live" /\ n \notin mine
    <2>1. CASE n \in mine
      <3>1. token'[n] = [token[n] EXCEPT !.state = "revoked"]
        BY <1>b, <2>1
      <3>2. token[n].state # "none"
        BY <2>1 DEF Issued
      <3> HIDE DEF mine
      <3> QED
        BY <1>c, <2>1, <3>1, <3>2 DEF TokenRows, States
    <2>2. CASE n \notin mine
      BY <1>b, <1>c, <2>2
    <2> QED
      BY <2>1, <2>2
  <1>2. token' \in [Numbers -> TokenRows]
    <2>1. token' = [n \in Numbers |-> token'[n]]
      BY <1>b
    <2> QED
      BY <1>1, <2>1
  <1>3. ASSUME NEW f \in killed' \ killed
        PROVE  f \in Issued /\ Rotating(f) = {} /\ Live(f)' = {}
    <2>1. PICK n \in mine : f = token[n].family /\ Rotating(f) = {}
      BY <1>b, <1>3
    <2>2. f \in Issued
      BY <1>a, <2>1 DEF FamilyInv
    <2>3. ASSUME NEW m \in Live(f)' PROVE FALSE
      <3>1. m \in Numbers /\ token'[m].family = f /\ token'[m].state = "live"
        BY <2>3 DEF Live, Issued
      <3>2. m \in Issued /\ token[m].family = f /\ m \notin mine
        BY <1>1, <3>1 DEF Issued
      <3>3. token[m].user = u
        BY <1>a, <2>1, <3>2 DEF FamilyInv
      <3> QED
        BY <3>2, <3>3
    <2> QED
      BY <2>1, <2>2, <2>3
  <1>4. req' \in [Slots -> Requests]
        /\ \A p \in Slots : req'[p] = req[p] \/ (req'[p].at = "idle" /\ req'[p].token = 0)
    BY <1>a, Answers
  <1>5. killed \subseteq killed'
    BY <1>b
  <1> QED
    BY <1>a, <1>1, <1>2, <1>3, <1>4, <1>5, OnlyRevokes

LEMMA IssueKeeps ==
  ASSUME Sized, IInv, NEW q \in Slots, IssueTokens(q), NEW n, n = Cardinality(Issued) + 1,
         NEW old, old = req[q].token
  PROVE  IInv'
  <1> DEFINE u == req[q].user
             g == IF old = 0 THEN n ELSE token[old].family
             row == [state |-> "live", user |-> u, family |-> g]
  <1>a. /\ TypeOK /\ OrderInv /\ FamilyInv /\ CarriesInv /\ DeadInv /\ OneInv
        /\ req[q].at = "issue" /\ UNCHANGED <<account, overlapped, killed>> /\ Answer(q)
        /\ Cardinality(Issued) < MaxTokens
    BY DEF IInv, IssueTokens
  <1>b. n \in Numbers /\ n \notin Issued /\ \E k \in 0..MaxTokens : Issued \cup {n} = 1..k
    BY <1>a, NextRow
  <1>c. token' = [token EXCEPT ![n] = row]
    BY DEF IssueTokens
  <1>d. old # 0 => old \in Issued /\ token[old].user = u /\ token[old].family \in Issued
    BY <1>a DEF CarriesInv, FamilyInv
  <1>e. /\ req' \in [Slots -> Requests] /\ req'[q].at = "idle"
        /\ req'[q].token = 0 /\ \A p \in Slots \ {q} : req'[p] = req[p]
    BY <1>a, Answers
  <1>1. /\ row \in TokenRows /\ row.state = "live" /\ row.user = u /\ row.family = g
        /\ g \in Issued \cup {n}
    <2>1. u \in Accounts
      BY <1>a DEF TypeOK
    <2>2. g \in Issued \cup {n} /\ g \in 0..MaxTokens
      <3>1. g \in Issued \cup {n}
        BY <1>d
      <3> QED
        BY <1>b, <3>1, NumbersAreTokens DEF Issued
    <2> HIDE DEF g, u
    <2> QED
      BY <2>1, <2>2 DEF TokenRows, States
  <1>2. /\ token' \in [Numbers -> TokenRows] /\ token'[n] = row
        /\ \A m \in Numbers \ {n} : token'[m] = token[m]
    <2> HIDE DEF row
    <2> QED
      BY <1>a, <1>b, <1>c, <1>1 DEF TypeOK, TokenRows, States
  <1>f. old = 0 => g = n
    OBVIOUS
  <1>g. old # 0 => g = token[old].family
    OBVIOUS
  <1> HIDE DEF row, g
  <1>3. Issued' = Issued \cup {n}
    BY <1>b, <1>1, <1>2 DEF Issued
  <1>4. ASSUME NEW f, f # g PROVE Live(f)' = Live(f)
    <2>1. n \notin Live(f) /\ n \notin Live(f)'
      BY <1>b, <1>1, <1>2, <1>4 DEF Live
    <2>2. \A m \in Issued : m # n /\ token'[m] = token[m]
      BY <1>b, <1>2 DEF Issued
    <2> QED
      BY <1>3, <2>1, <2>2 DEF Live
  <1>6. ASSUME NEW f PROVE Rotating(f)' = Rotating(f) \ {q}
    <2>1. ASSUME NEW p \in Slots \ {q}, req[p].at # "idle", req[p].token # 0
          PROVE  token'[req[p].token] = token[req[p].token]
      <3>1. req[p].token \in Issued
        BY <1>a, <2>1 DEF CarriesInv
      <3> QED
        BY <1>b, <1>2, <3>1 DEF Issued
    <2> QED
      BY <1>e, <2>1 DEF Rotating
  <1>7. old # 0 => q \in Rotating(g)
    BY <1>a, <1>g DEF Rotating
  <1>8. ASSUME NEW m \in Issued, token[m].family = g PROVE old # 0 /\ token[m].user = u
    <2>1. token[m].family \in Issued
      BY <1>a, <1>8 DEF FamilyInv
    <2>2. old # 0
      BY <1>b, <1>f, <1>8, <2>1
    <2> QED
      BY <1>a, <1>d, <1>g, <1>8, <2>2 DEF FamilyInv
  <1>9. TypeOK'
    BY <1>a, <1>2, <1>e DEF TypeOK, TokenRows, States, Requests
  <1>10. OrderInv'
    BY <1>b, <1>3 DEF OrderInv
  <1>11. FamilyInv'
    <2>1. \A m \in Issued' : token'[m].family \in Issued'
      BY <1>a, <1>1, <1>2, <1>3 DEF FamilyInv, Issued
    <2>2. ASSUME NEW l \in Issued', NEW m \in Issued', token'[l].family = token'[m].family
          PROVE  token'[l].user = token'[m].user
      <3>1. CASE l # n /\ m # n
        <4>1. l \in Issued /\ m \in Issued /\ token'[l] = token[l] /\ token'[m] = token[m]
          BY <1>2, <1>3, <3>1 DEF Issued
        <4> QED
          BY <1>a, <2>2, <4>1 DEF FamilyInv
      <3>2. CASE l = n /\ m # n
        <4>1. m \in Issued /\ token'[m] = token[m] /\ token[m].family = g
          BY <1>1, <1>2, <1>3, <2>2, <3>2 DEF Issued
        <4> QED
          BY <1>1, <1>2, <1>8, <3>2, <4>1
      <3>3. CASE l # n /\ m = n
        <4>1. l \in Issued /\ token'[l] = token[l] /\ token[l].family = g
          BY <1>1, <1>2, <1>3, <2>2, <3>3 DEF Issued
        <4> QED
          BY <1>1, <1>2, <1>8, <3>3, <4>1
      <3> QED
        BY <3>1, <3>2, <3>3
    <2> QED
      BY <1>a, <1>3, <2>1, <2>2 DEF FamilyInv
  <1>12. CarriesInv'
    <2> SUFFICES ASSUME NEW p \in Slots
                 PROVE  /\ req'[p].at \in {"check", "revoke", "kill", "drop"} => req'[p].token # 0
                        /\ req'[p].at # "idle" /\ req'[p].token # 0 =>
                             /\ req'[p].token \in Issued'
                             /\ token'[req'[p].token].user = req'[p].user
      BY DEF CarriesInv
    <2>1. CASE p = q
      BY <1>e, <2>1
    <2>2. CASE p # q
      <3>1. req'[p] = req[p]
        BY <1>e, <2>2
      <3>2. ASSUME req[p].at # "idle", req[p].token # 0
            PROVE  /\ req[p].token \in Issued /\ token[req[p].token].user = req[p].user
                   /\ token'[req[p].token] = token[req[p].token]
        <4>1. req[p].token \in Issued /\ token[req[p].token].user = req[p].user
          BY <1>a, <3>2 DEF CarriesInv
        <4> QED
          BY <1>b, <1>2, <4>1 DEF Issued
      <3> QED
        BY <1>a, <1>3, <3>1, <3>2 DEF CarriesInv
    <2> QED
      BY <2>1, <2>2
  <1>13. DeadInv'
    <2>1. g \notin killed
      <3>1. CASE old = 0
        BY <1>a, <1>b, <1>f, <3>1 DEF FamilyInv
      <3>2. CASE old # 0
        BY <1>a, <1>7, <3>2 DEF DeadInv
      <3> QED
        BY <3>1, <3>2
    <2> QED
      BY <1>a, <1>4, <1>6, <2>1 DEF DeadInv
  <1>14. OneInv'
    <2> SUFFICES ASSUME NEW f \in Numbers \ overlapped
                 PROVE  /\ \A l, m \in Live(f)' : l = m
                        /\ \A p, r \in Rotating(f)' : p = r
                        /\ \A p \in Rotating(f)' : IF req'[p].at = "issue" THEN Live(f)' = {}
                                                   ELSE Live(f)' \subseteq {req'[p].token}
      BY <1>a DEF OneInv
    <2>1. /\ \A l, m \in Live(f) : l = m
          /\ \A p, r \in Rotating(f) : p = r
          /\ \A p \in Rotating(f) : IF req[p].at = "issue" THEN Live(f) = {}
                                    ELSE Live(f) \subseteq {req[p].token}
      BY <1>a DEF OneInv
    <2>2. Rotating(f)' = Rotating(f) \ {q} /\ \A p \in Rotating(f)' : req'[p] = req[p]
      BY <1>6, <1>e DEF Rotating
    <2>3. CASE f # g
      <3>1. Live(f)' = Live(f)
        BY <1>4, <2>3
      <3> QED
        BY <2>1, <2>2, <3>1
    <2>4. CASE f = g
      <3>1. Live(f) = {}
        <4>1. CASE old = 0
          BY <1>8, <2>4, <4>1 DEF Live
        <4>2. CASE old # 0
          BY <1>7, <1>a, <2>1, <2>4, <4>2
        <4> QED
          BY <4>1, <4>2
      <3>2. Rotating(f)' = {}
        <4>1. CASE old = 0
          <5> SUFFICES ASSUME NEW p \in Rotating(f) PROVE FALSE
            BY <2>2
          <5>1. req[p].token \in Issued /\ token[req[p].token].family = g
            BY <1>a, <2>4 DEF Rotating, CarriesInv
          <5> QED
            BY <1>8, <4>1, <5>1
        <4>2. CASE old # 0
          BY <1>7, <2>1, <2>2, <2>4, <4>2
        <4> QED
          BY <4>1, <4>2
      <3>3. \A m \in Live(f)' : m = n
        <4> SUFFICES ASSUME NEW m \in Live(f)', m # n PROVE FALSE
          OBVIOUS
        <4>1. m \in Issued /\ token[m].family = f /\ token[m].state = "live"
          BY <1>2, <1>3 DEF Live, Issued
        <4> QED
          BY <3>1, <4>1 DEF Live
      <3> QED
        BY <3>2, <3>3
    <2> QED
      BY <2>3, <2>4
  <1> QED
    BY <1>9, <1>10, <1>11, <1>12, <1>13, <1>14 DEF IInv

-----------------------------------------------------------------------------
LEMMA InitIInv == Sized /\ Init => IInv
  <1> SUFFICES ASSUME Sized, Init PROVE IInv
    OBVIOUS
  <1>1. Idle.user \in Accounts /\ Idle \in Requests /\ Idle.at = "idle" /\ Idle.token = 0
    BY DEF Idle, Requests, Sized
  <1>2. TypeOK
    BY <1>1 DEF Init, TypeOK, Requests, Sized
  <1>3. Issued = {} /\ killed = {} /\ \A f : Live(f) = {} /\ Rotating(f) = {}
    BY <1>1 DEF Init, Issued, Live, Rotating
  <1>4. OrderInv
    BY <1>3 DEF OrderInv, Sized
  <1>5. CarriesInv
    BY <1>1 DEF Init, CarriesInv
  <1> QED
    BY <1>2, <1>3, <1>4, <1>5 DEF IInv, FamilyInv, DeadInv, OneInv

LEMMA NextIInv == Sized /\ IInv /\ [Next]_vars => IInv'
  <1> SUFFICES ASSUME Sized, IInv, [Next]_vars PROVE IInv'
    OBVIOUS
  <1>1. CASE UNCHANGED vars
    <2>1. UNCHANGED <<account, token, req, overlapped, killed>>
      BY <1>1 DEF vars
    <2>2. TypeOK' /\ OrderInv' /\ FamilyInv' /\ CarriesInv'
      BY <2>1 DEF IInv, TypeOK, OrderInv, FamilyInv, CarriesInv, Issued
    <2>3. DeadInv' /\ OneInv'
      BY <2>1 DEF IInv, DeadInv, OneInv, Live, Rotating, Issued
    <2> QED
      BY <2>2, <2>3 DEF IInv
  <1>2. ASSUME NEW q \in Slots, Present(q) PROVE IInv'
    BY <1>2, RefreshKeeps, LogoutKeeps DEF Present
  <1>3. ASSUME NEW q \in Slots, Continue(q) PROVE IInv'
    <2>1. CASE Fail(q)
      BY <2>1, EndKeeps DEF Fail, IInv, TypeOK
    <2> QED
      BY <1>3, <2>1, CreateKeeps, IssueKeeps, CheckKeeps, RevokeTokenKeeps, RevokeAllKeeps,
         DropKeeps DEF Continue
  <1> QED
    BY <1>1, <1>2, <1>3, SignInKeeps, ExpiryKeeps DEF Next

LEMMA Inductive == ASSUME Sized PROVE Spec => []IInv
  <1>1. Init => IInv
    BY InitIInv
  <1>2. IInv /\ [Next]_vars => IInv'
    BY NextIInv
  <1> QED
    BY <1>1, <1>2, PTL DEF Spec

(* refreshTokens: a client that waits for one refresh before it starts the *)
(* next holds at most one usable token per login, whatever fails between   *)
(* the statements of a rotation.                                           *)
THEOREM RotationIsSingle == ASSUME Sized PROVE Spec => []SequentialRotation
  <1>1. IInv => SequentialRotation
    <2> SUFFICES ASSUME OneInv, NEW f \in Numbers \ overlapped PROVE Cardinality(Live(f)) <= 1
      BY DEF IInv, SequentialRotation
    <2>1. \A m, n \in Live(f) : m = n
      BY DEF OneInv
    <2>2. CASE Live(f) = {}
      BY <2>2, FS_EmptySet
    <2>3. CASE Live(f) # {}
      <3>1. PICK n \in Live(f) : Live(f) = {n}
        BY <2>1, <2>3
      <3>2. Cardinality({n}) = 1
        BY FS_Singleton
      <3> QED
        BY <3>1, <3>2
    <2> QED
      BY <2>2, <2>3
  <1> QED
    BY Inductive, <1>1, PTL

(* refreshTokens, revokeAllRefreshTokensForUser: once a replay has ended a *)
(* login whose tokens nobody was rotating, no refresh, logout or failure   *)
(* gives it a usable token again.                                          *)
THEOREM KilledLoginsStayDead == ASSUME Sized PROVE Spec => []KilledStayDead
  <1>1. IInv => KilledStayDead
    BY DEF IInv, DeadInv, KilledStayDead
  <1> QED
    BY Inductive, <1>1, PTL
=============================================================================

-------------------------------- MODULE Auth --------------------------------
(***************************************************************************)
(* Ordinary accounts and their refresh tokens (AuthService).               *)
(*                                                                         *)
(* Rotation is not a transaction: a refresh reads the token, reads its     *)
(* user, revokes the token and inserts a successor in four statements, and *)
(* other requests act in between.  A step is one statement; hashing and    *)
(* signing happen on values already read and belong to the step before.    *)
(* A client may present any token it was ever given.                       *)
(***************************************************************************)
EXTENDS Naturals, FiniteSets

CONSTANTS
  Accounts,   \* e-mail addresses
  MaxTokens,  \* bound on the tokens of one behaviour
  Slots       \* slots for requests in flight

VARIABLES
  account,    \* account[a]: "absent", "active", "inactive" or "demo"
  token,      \* token[n]: the rows, in the order of their insertion
  req,        \* req[q]: what request q does next, for whom, with which token
  overlapped, \* families two refreshes of which were in flight at once
  killed      \* families revoked by a detected replay with no refresh in flight

vars == <<account, token, req, overlapped, killed>>

Numbers == 1..MaxTokens
Idle == [at |-> "idle", user |-> CHOOSE a \in Accounts : TRUE, token |-> 0]

TypeOK ==
  /\ account \in [Accounts -> {"absent", "active", "inactive", "demo"}]
  /\ token \in [Numbers -> [state : {"none", "live", "expired", "revoked"},
                            user : Accounts, family : 0..MaxTokens]]
  /\ req \in [Slots -> [at : {"idle", "create", "check", "revoke", "kill", "issue", "drop"},
                        user : Accounts, token : 0..MaxTokens]]
  /\ overlapped \subseteq Numbers /\ killed \subseteq Numbers

Init ==
  /\ account \in [Accounts -> {"absent", "active", "inactive", "demo"}]
  /\ token = [n \in Numbers |-> [state |-> "none", user |-> Idle.user, family |-> 0]]
  /\ req = [q \in Slots |-> Idle]
  /\ overlapped = {} /\ killed = {}

\* findByEmail and findById: the row, if there is one.
Found(a) == account[a] # "absent"

\* The rows getRefreshTokenByHash finds.
Issued == {n \in Numbers : token[n].state # "none"}

Go(q, at, a, n) == req' = [req EXCEPT ![q] = [at |-> at, user |-> a, token |-> n]]
Answer(q) == req' = [req EXCEPT ![q] = Idle]

\* The requests that found a token of family f valid and have not ended.
Rotating(f) ==
  {q \in Slots : req[q].at \in {"check", "revoke", "issue"} /\ req[q].token # 0
                   /\ token[req[q].token].family = f}

-----------------------------------------------------------------------------
(* Registration: the check and the insertion are two statements, the unique*)
(* e-mail address decides between them.                                    *)
Register(q, a) ==
  /\ req[q].at = "idle" /\ ~Found(a)
  /\ Go(q, "create", a, 0)
  /\ UNCHANGED <<account, token, overlapped, killed>>

(* UsersRepository.create: a second row of an e-mail address is an error.  *)
AddUser(a) == account' = [account EXCEPT ![a] = IF Found(a) THEN @ ELSE "active"]

CreateUser(q) ==
  /\ req[q].at = "create"
  /\ AddUser(req[q].user)
  /\ Answer(q)
  /\ UNCHANGED <<token, overlapped, killed>>

(* Login with the right password; any other login changes nothing. *)
Login(q, a) ==
  /\ req[q].at = "idle" /\ account[a] = "active"
  /\ Go(q, "issue", a, 0)
  /\ UNCHANGED <<account, token, overlapped, killed>>

(* The insertion that ends a login or a refresh.  A login starts a family, *)
(* a refresh continues the one of the token it presented.                  *)
IssueTokens(q) ==
  /\ req[q].at = "issue" /\ Cardinality(Issued) < MaxTokens
  /\ LET n == Cardinality(Issued) + 1
         old == req[q].token
     IN token' = [token EXCEPT ![n] =
                   [state |-> "live", user |-> req[q].user,
                    family |-> IF old = 0 THEN n ELSE token[old].family]]
  /\ Answer(q)
  /\ UNCHANGED <<account, overlapped, killed>>

-----------------------------------------------------------------------------
(* Refresh. *)

MutRefresh(q, n) ==
  /\ req[q].at = "idle" /\ n \in Issued /\ token[n].state # "expired"
  /\ Go(q, "check", token[n].user, n)
  /\ overlapped' = overlapped \cup (IF Rotating(token[n].family) = {} THEN {} ELSE {token[n].family})
  /\ UNCHANGED <<account, token, killed>>

(* getRefreshTokenByHash: a revoked token, expired or not, is a replay; an *)
(* expired one is refused, an unknown one too.                             *)
Refresh(q, n) ==
  /\ req[q].at = "idle" /\ n \in Issued
  /\ \/ /\ token[n].state = "revoked"
        /\ Go(q, "kill", token[n].user, n)
        /\ UNCHANGED overlapped
     \/ /\ token[n].state = "live"
        /\ Go(q, "check", token[n].user, n)
        /\ overlapped' = IF Rotating(token[n].family) = {} THEN overlapped
                         ELSE overlapped \cup {token[n].family}
  /\ UNCHANGED <<account, token, killed>>

(* findById *)
CheckUser(q) ==
  /\ req[q].at = "check"
  /\ IF account[req[q].user] = "active"
     THEN Go(q, "revoke", req[q].user, req[q].token)
     ELSE Answer(q)
  /\ UNCHANGED <<account, token, overlapped, killed>>

MutRevokeToken(q) ==
  /\ req[q].at = "revoke"
  /\ Go(q, "issue", req[q].user, req[q].token)
  /\ UNCHANGED <<account, token, overlapped, killed>>

(* The update repeats none of what was read: a token revoked meanwhile is  *)
(* revoked again and the successor is issued all the same.                 *)
RevokeToken(q) ==
  /\ req[q].at = "revoke"
  /\ token' = [token EXCEPT ![req[q].token].state = "revoked"]
  /\ Go(q, "issue", req[q].user, req[q].token)
  /\ UNCHANGED <<account, overlapped, killed>>

MutRevokeAll(q) ==
  /\ req[q].at = "kill"
  /\ LET family == token[req[q].token].family
     IN /\ token' = [token EXCEPT ![req[q].token].state = "revoked"]
        /\ killed' = IF Rotating(family) = {} THEN killed \cup {family} ELSE killed
  /\ Answer(q)
  /\ UNCHANGED <<account, overlapped>>

(* revokeAllRefreshTokensForUser: every session of the user ends, except   *)
(* those whose successor is still to be inserted.                          *)
RevokeAll(q) ==
  /\ req[q].at = "kill"
  /\ LET mine == {n \in Issued : token[n].user = req[q].user}
     IN /\ token' = [n \in Numbers |-> IF n \in mine THEN [token[n] EXCEPT !.state = "revoked"]
                                       ELSE token[n]]
        /\ killed' = killed \cup {f \in {token[n].family : n \in mine} : Rotating(f) = {}}
  /\ Answer(q)
  /\ UNCHANGED <<account, overlapped>>

-----------------------------------------------------------------------------
(* Logout: find the token, then revoke it.  The cookie is scoped to the    *)
(* refresh route: a browser's logout brings no token and changes nothing.  *)
Logout(q, n) ==
  /\ req[q].at = "idle" /\ n \in Issued
  /\ Go(q, "drop", token[n].user, n)
  /\ UNCHANGED <<account, token, overlapped, killed>>

Drop(q) ==
  /\ req[q].at = "drop"
  /\ token' = [token EXCEPT ![req[q].token].state = "revoked"]
  /\ Answer(q)
  /\ UNCHANGED <<account, overlapped, killed>>

(* A statement fails or the process dies: what was written stays. *)
Fail(q) ==
  /\ req[q].at # "idle"
  /\ Answer(q)
  /\ UNCHANGED <<account, token, overlapped, killed>>

TokenExpires(n) ==
  /\ token[n].state = "live"
  /\ token' = [token EXCEPT ![n].state = "expired"]
  /\ UNCHANGED <<account, req, overlapped, killed>>

SignIn(q) == \E a \in Accounts : Register(q, a) \/ Login(q, a)
Present(q) == \E n \in Numbers : Refresh(q, n) \/ Logout(q, n)
Continue(q) ==
  \/ CreateUser(q) \/ IssueTokens(q) \/ CheckUser(q)
  \/ RevokeToken(q) \/ RevokeAll(q) \/ Drop(q) \/ Fail(q)

Next ==
  \/ \E q \in Slots : SignIn(q) \/ Present(q) \/ Continue(q)
  \/ \E n \in Numbers : TokenExpires(n)

Spec == Init /\ [][Next]_vars

-----------------------------------------------------------------------------
Live(f) == {n \in Issued : token[n].family = f /\ token[n].state = "live"}

(* A client that waits for each refresh to end before it starts the next   *)
(* holds one usable token per login, whatever fails in between; only       *)
(* overlapping refreshes multiply a session.                               *)
SequentialRotation ==
  \A f \in Numbers : f \in overlapped \/ Cardinality(Live(f)) <= 1

(* When a replayed token is detected and none of a login's tokens is being *)
(* rotated at that moment, that login never has a usable token again: no   *)
(* refresh, logout or failure brings one back.                             *)
KilledStayDead == \A f \in killed : Live(f) = {}
=============================================================================

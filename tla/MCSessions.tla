----------------------------- MODULE MCSessions -----------------------------
(* Sessions under several mixes of requests, each small. *)
EXTENDS Sessions, TLC

CONSTANTS q1, q2, ip1, ip2

Quiet == [kinds |-> {}, roles |-> {"COMPANY"}, callers |-> {q1, q2}, addresses |-> {ip1},
          sessions |-> 1, clocks |-> {}, rooms |-> {}, changes |-> 0,
          enabled |-> TRUE, only |-> TRUE, ending |-> FALSE]

Mixes == {
  \* the process ends
  [Quiet EXCEPT !.ending = TRUE, !.enabled = FALSE],
  \* an ordinary deployment
  [Quiet EXCEPT !.enabled = FALSE, !.only = FALSE],
  \* the demo next to ordinary logins
  [Quiet EXCEPT !.only = FALSE, !.kinds = {"create", "refresh"}, !.callers = {q1}],
  \* creation at its limits, from one address and from two
  [Quiet EXCEPT !.kinds = {"create"}, !.sessions = 3, !.clocks = {"session", "hour"}],
  [Quiet EXCEPT !.kinds = {"create"}, !.sessions = 3, !.clocks = {"session"},
                !.addresses = {ip1, ip2}],
  \* role switches and refreshes
  [Quiet EXCEPT !.kinds = {"create", "switch", "refresh"}, !.roles = Roles, !.clocks = {"minute"}],
  \* logouts next to refreshes and uploads
  [Quiet EXCEPT !.kinds = {"create", "refresh", "logout", "forget", "upload"},
                !.clocks = {"session", "minute"}],
  \* AI runs of two sessions, from one address over days, and from two
  [Quiet EXCEPT !.kinds = {"create", "ai"}, !.roles = {"APPLICANT"}, !.sessions = 2,
                !.clocks = {"day"}],
  [Quiet EXCEPT !.kinds = {"create", "ai"}, !.roles = {"APPLICANT"}, !.sessions = 2,
                !.addresses = {ip1, ip2}],
  \* an evaluation asked for in either role
  [Quiet EXCEPT !.kinds = {"create", "ai"}, !.roles = Roles],
  \* sockets, switches and logouts
  [Quiet EXCEPT !.kinds = {"create", "switch", "logout"}, !.roles = {"APPLICANT"},
                !.callers = {q1}, !.rooms = {"evaluation"}],
  [Quiet EXCEPT !.kinds = {"create"}, !.roles = Roles, !.clocks = {"session"},
                !.callers = {q1}, !.rooms = {"resume"}],
  \* a client that follows a row, and everything that happens to the row
  [Quiet EXCEPT !.kinds = {"create"}, !.roles = {"APPLICANT"}, !.callers = {q1},
                !.rooms = {"evaluation"}, !.changes = 2],
  [Quiet EXCEPT !.kinds = {"create"}, !.roles = {"APPLICANT"}, !.callers = {q1},
                !.rooms = {"resume"}, !.changes = 1]}
=============================================================================

SPECIFICATION Spec
CONSTANTS
  j1 = j1
  c1 = c1
  c2 = c2
  Jobs <- MCJobs
  Companies <- MCCompanies
  Owner <- MCOwner
  Users = {u1, u2}
  Requests = {r1, r2}
  NoOne = NoOne
  Indexed = TRUE
PROPERTY AcceptLeavesNonePending

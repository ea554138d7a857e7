SPECIFICATION Spec
CONSTANTS
  f1 = f1
  f2 = f2
  f3 = f3
  q1 = q1
  q2 = q2
  w1 = w1
  w2 = w2
  x1 = x1
  x2 = x2
  k1 = k1
  k2 = k2
  sa = sa
  sb = sb
  t1 = t1
  t2 = t2
  Files = {f1, f2, f3}
  Readable = {f1, f2, f3}
  Redacted <- TextOf
  Parts = 2
  Resumes = {r1}
  Keys = {k1, k2}
  Size <- SizeOf
  MaxFileSize = 2
  Writers = {q1, q2}
  Extractors = {x1, x2}
  NoKey = NoKey
  NoFile = NoFile
  Jobs = {j1}
  Skills = {sa, sb}
  Texts = {t1, t2}
  Budgets <- SomeBudgets
  Editors = {q1, q2}
  NoJob = NoJob
  Unset = Unset
  TheJob = j1
  TheResume = r1
  Requests = {q1}
  Workers = {w1, w2}
  Viewers = {u1}
  Answers <- SomeAnswers
  MaxCharacters = 3
  Scenarios <- Mixes
  NoInput = NoInput
CHECK_DEADLOCK FALSE
INVARIANTS InputsTypeOK FilteredByPrice CurrentIsRegistered EvidenceIsQuoted InputsFrozen CachedIsCurrent
PROPERTIES DeletedStaysDeleted

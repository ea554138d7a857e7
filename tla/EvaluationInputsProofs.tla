------------------------ MODULE EvaluationInputsProofs ------------------------
(***************************************************************************)
(* Proofs about what an evaluation is made from and what its readers see   *)
(* (JobPostings, Resumes, Evidence, EvaluationInputs), for every number of *)
(* postings, resumes, keys, requests, executions and readers, every answer *)
(* of the model and every scenario.                                        *)
(*                                                                         *)
(* The postings, the resumes and the evaluations each have an inductive    *)
(* invariant of their own; a step of one leaves the variables of the others*)
(* alone, and what the evaluations need of a step of the resumes is that a *)
(* completed version stays what it is (CompletedStays).                    *)
(***************************************************************************)
EXTENDS EvaluationInputs, FiniteSetTheorems, TLAPS

-----------------------------------------------------------------------------
(* Postings. *)

Updates == [job : Jobs, change : Changes, base : Nat]

(* An update in flight belongs to a posting and carries a valid budget; if *)
(* no other one overlapped it, it is the only one of its posting and what  *)
(* it will write was derived from the row as it still is.                  *)
UpdateAgrees(q) ==
  /\ Posted(edit[q].job) /\ ValidBudget(edit[q].change.budget)
  /\ edit[q].job \notin raced =>
       /\ edit[q].base = BaseAfter(job[edit[q].job], edit[q].change)
       /\ \A p \in Editors : p # q /\ edit[p] # NoEdit => edit[p].job # edit[q].job

Converted(j) == job[j].base = ConvertToBase(job[j].budget, job[j].currency)

PostingsInv ==
  /\ PostingsTypeOK
  /\ edit \in [Editors -> {NoEdit} \cup Updates]
  /\ \A j \in Jobs \ raced : Posted(j) => Converted(j)
  /\ \A q \in Editors : edit[q] # NoEdit => UpdateAgrees(q)
  /\ FilteredByPrice

LEMMA BaseIsNatural ==
  ASSUME NEW r \in Rows, NEW change \in Changes, ValidBudget(change.budget)
  PROVE  BaseAfter(r, change) \in Nat
  <1>1. CASE change.budget = Unset
    BY <1>1 DEF BaseAfter, Rows
  <1>2. CASE change.budget # Unset
    <2>1. change.budget \in Nat
      <3>1. change.budget \in Budgets
        BY <1>2 DEF Changes
      <3>2. change.budget \in Int
        BY <3>1, PostingsAssumption
      <3>3. change.budget >= 0
        BY <1>2 DEF ValidBudget
      <3> QED
        BY <3>2, <3>3
    <2>2. ExchangeRateToBase[r.currency] \in {1, 25000}
      BY DEF Rows, Currencies, ExchangeRateToBase
    <2> QED
      BY <1>2, <2>1, <2>2 DEF BaseAfter, ConvertToBase
  <1> QED
    BY <1>1, <1>2

LEMMA CreateKeeps ==
  ASSUME PostingsInv, NEW j \in Jobs, NEW text \in Texts, NEW skills \in SUBSET Skills,
         NEW status \in Statuses, NEW currency \in Currencies, NEW budget \in Budgets,
         CreateJob(j, text, skills, status, currency, budget)
  PROVE  PostingsInv'
  <1> DEFINE r == NewRow(text, skills, status, currency, budget)
  <1>1. /\ job' = [job EXCEPT ![j] = r] /\ ~Posted(j)
        /\ edit' = edit /\ raced' = raced /\ page' = page
    BY DEF CreateJob, AddJob
  <1>2. r \in Rows /\ r.base = ConvertToBase(r.budget, r.currency)
    <2>1. budget \in Nat
      BY PostingsAssumption DEF CreateJob, ValidBudget
    <2>2. ExchangeRateToBase[currency] \in {1, 25000}
      BY DEF Currencies, ExchangeRateToBase
    <2> QED
      BY <2>1, <2>2 DEF NewRow, Rows, ConvertToBase
  <1> HIDE DEF r
  <1>3. \A i \in Jobs : i # j => job'[i] = job[i]
    BY <1>1 DEF PostingsInv, PostingsTypeOK
  <1>4. job'[j] = r
    BY <1>1 DEF PostingsInv, PostingsTypeOK
  <1>5. PostingsTypeOK'
    BY <1>1, <1>2 DEF PostingsInv, PostingsTypeOK
  <1>6. \A i \in Jobs \ raced' : Posted(i)' => Converted(i)'
    BY <1>1, <1>2, <1>3, <1>4 DEF PostingsInv, Posted, Converted
  <1>7. ASSUME NEW q \in Editors, edit'[q] # NoEdit
        PROVE  UpdateAgrees(q)'
    <2>1. edit[q] \in Updates /\ UpdateAgrees(q)
      BY <1>1, <1>7 DEF PostingsInv
    <2>2. edit[q].job \in Jobs /\ edit[q].job # j
      BY <1>1, <2>1 DEF UpdateAgrees, Updates
    <2> QED
      BY <1>1, <1>3, <2>1, <2>2 DEF UpdateAgrees, Posted
  <1> QED
    BY <1>1, <1>5, <1>6, <1>7 DEF PostingsInv, FilteredByPrice

LEMMA ReadJobKeeps ==
  ASSUME PostingsInv, NEW q \in Editors, NEW j \in Jobs, NEW change \in Changes, ReadJob(q, j, change)
  PROVE  PostingsInv'
  <1> DEFINE e == [job |-> j, change |-> change, base |-> BaseAfter(job[j], change)]
  <1>1. /\ edit[q] = NoEdit /\ Posted(j) /\ ValidBudget(change.budget)
        /\ edit' = [edit EXCEPT ![q] = e] /\ job' = job /\ page' = page
        /\ raced' = IF \E p \in Editors : edit[p].job = j THEN raced \cup {j} ELSE raced
    BY DEF ReadJob
  <1>2. e \in Updates /\ e # NoEdit
    <2>1. job[j] \in Rows
      BY <1>1 DEF PostingsInv, PostingsTypeOK, Posted
    <2>2. BaseAfter(job[j], change) \in Nat
      BY <1>1, <2>1, BaseIsNatural
    <2> QED
      BY <2>2 DEF Updates, NoEdit
  <1>3. e.job = j /\ e.change = change /\ e.base = BaseAfter(job[j], change)
    OBVIOUS
  <1> HIDE DEF e
  <1>4. edit'[q] = e /\ \A p \in Editors : p # q => edit'[p] = edit[p]
    BY <1>1 DEF PostingsInv
  <1>5. edit' \in [Editors -> {NoEdit} \cup Updates]
    BY <1>1, <1>2 DEF PostingsInv
  <1>6. raced \subseteq raced' /\ raced' \subseteq Jobs
    BY <1>1 DEF PostingsInv, PostingsTypeOK
  <1>7. PostingsTypeOK'
    BY <1>1, <1>5, <1>6 DEF PostingsInv, PostingsTypeOK, Updates
  <1>8. ASSUME NEW p \in Editors, edit'[p] # NoEdit
        PROVE  UpdateAgrees(p)'
    <2>1. CASE p = q
      <3>1. j \notin raced' => \A o \in Editors : o # q => edit'[o].job # j
        BY <1>1, <1>4
      <3> QED
        BY <1>1, <1>3, <1>4, <2>1, <3>1 DEF UpdateAgrees, Posted
    <2>2. CASE p # q
      <3>1. edit'[p] = edit[p] /\ edit[p] # NoEdit /\ UpdateAgrees(p)
        BY <1>4, <1>8, <2>2 DEF PostingsInv
      <3>2. edit[p].job \notin raced' => edit[p].job # j
        BY <1>1
      <3>3. \A o \in Editors : edit[p].job \notin raced' /\ o # p /\ edit'[o] # NoEdit => edit'[o].job # edit[p].job
        BY <1>3, <1>4, <1>6, <3>1, <3>2 DEF UpdateAgrees
      <3> QED
        BY <1>1, <1>6, <3>1, <3>3 DEF UpdateAgrees, Posted
    <2> QED
      BY <2>1, <2>2
  <1> QED
    BY <1>1, <1>5, <1>6, <1>7, <1>8 DEF PostingsInv, FilteredByPrice, Posted, Converted

LEMMA WriteJobKeeps ==
  ASSUME PostingsInv, NEW q \in Editors, WriteJob(q)
  PROVE  PostingsInv'
  <1> DEFINE j == edit[q].job
             change == edit[q].change
             r == [job[j] EXCEPT !.text = Given(change.text, @), !.status = Given(change.status, @),
                                 !.budget = Given(change.budget, @), !.base = edit[q].base]
  <1>1. edit[q] # NoEdit /\ edit[q] \in Updates /\ UpdateAgrees(q)
    BY DEF WriteJob, PostingsInv
  <1>2. job' = [job EXCEPT ![j] = r] /\ raced' = raced /\ page' = page
    BY DEF WriteJob
  <1>3. edit' = [edit EXCEPT ![q] = NoEdit]
    BY DEF WriteJob
  <1>4. j \in Jobs /\ change \in Changes /\ edit[q].base \in Nat /\ job[j] \in Rows /\ ValidBudget(change.budget)
    BY <1>1 DEF Updates, UpdateAgrees, Posted, PostingsInv, PostingsTypeOK
  <1>5. /\ r \in Rows /\ r.base = edit[q].base /\ r.currency = job[j].currency
        /\ r.budget = Given(change.budget, job[j].budget)
    <2>1. Given(change.budget, job[j].budget) \in Budgets \cap Nat
      <3>1. change.budget # Unset => change.budget \in Budgets
        BY <1>4 DEF Changes
      <3>2. job[j].budget \in Budgets \cap Nat
        BY <1>4 DEF Rows
      <3>3. change.budget # Unset => change.budget >= 0 /\ change.budget \in Int
        BY <1>4, <3>1, PostingsAssumption DEF ValidBudget
      <3> QED
        BY <3>1, <3>2, <3>3 DEF Given
    <2>2. Given(change.text, job[j].text) \in Texts /\ Given(change.status, job[j].status) \in Statuses
      BY <1>4 DEF Rows, Changes, Given
    <2> QED
      BY <1>4, <2>1, <2>2 DEF Rows
  <1>6. /\ j \notin raced => edit[q].base = BaseAfter(job[j], change)
        /\ j \notin raced => \A p \in Editors : p # q /\ edit[p] # NoEdit => edit[p].job # j
    BY <1>1 DEF UpdateAgrees
  <1>7. j \notin raced => Converted(j)
    BY <1>1, <1>4 DEF PostingsInv, UpdateAgrees
  <1>8. j \notin raced => r.base = ConvertToBase(r.budget, r.currency)
    BY <1>5, <1>6, <1>7 DEF BaseAfter, Given, Converted
  <1> HIDE DEF r, j, change
  <1>9. job'[j] = r /\ \A i \in Jobs : i # j => job'[i] = job[i]
    BY <1>2, <1>4 DEF PostingsInv, PostingsTypeOK
  <1>10. edit'[q] = NoEdit /\ \A p \in Editors : p # q => edit'[p] = edit[p]
    BY <1>3 DEF PostingsInv
  <1>11. edit' \in [Editors -> {NoEdit} \cup Updates]
    BY <1>3 DEF PostingsInv
  <1>12. PostingsTypeOK'
    BY <1>2, <1>4, <1>5, <1>11 DEF PostingsInv, PostingsTypeOK, Updates
  <1>13. \A i \in Jobs \ raced' : Posted(i)' => Converted(i)'
    BY <1>2, <1>8, <1>9 DEF PostingsInv, Posted, Converted
  <1>14. ASSUME NEW p \in Editors, edit'[p] # NoEdit
         PROVE  UpdateAgrees(p)'
    <2>1. p # q /\ edit'[p] = edit[p] /\ UpdateAgrees(p) /\ edit[p] \in Updates
      BY <1>10, <1>14 DEF PostingsInv
    <2>2. edit[p].job \in Jobs
      BY <2>1 DEF Updates
    <2>3. edit[p].job \notin raced => edit[p].job # j
      BY <1>6, <1>14, <2>1
    <2>4. Posted(edit[p].job)'
      BY <1>5, <1>9, <2>1, <2>2, PostingsAssumption DEF UpdateAgrees, Posted
    <2>5. ASSUME edit[p].job \notin raced, NEW o \in Editors, o # p, edit'[o] # NoEdit
          PROVE  edit'[o].job # edit[p].job
      BY <1>10, <2>1, <2>5 DEF UpdateAgrees
    <2> QED
      BY <1>2, <1>9, <2>1, <2>2, <2>3, <2>4, <2>5 DEF UpdateAgrees
  <1> QED
    BY <1>2, <1>11, <1>12, <1>13, <1>14 DEF PostingsInv, FilteredByPrice

LEMMA UpdateFailsKeeps ==
  ASSUME PostingsInv, NEW q \in Editors, UpdateFails(q)
  PROVE  PostingsInv'
  <1>1. edit' = [edit EXCEPT ![q] = NoEdit] /\ job' = job /\ raced' = raced /\ page' = page
    BY DEF UpdateFails
  <1>2. \A p \in Editors : edit'[p] # NoEdit => p # q /\ edit'[p] = edit[p]
    BY <1>1 DEF PostingsInv
  <1>3. edit' \in [Editors -> {NoEdit} \cup Updates]
    BY <1>1 DEF PostingsInv
  <1>4. PostingsTypeOK'
    BY <1>1, <1>3 DEF PostingsInv, PostingsTypeOK, Updates
  <1>5. ASSUME NEW p \in Editors, edit'[p] # NoEdit
        PROVE  UpdateAgrees(p)'
    <2>1. edit'[p] = edit[p] /\ UpdateAgrees(p)
      BY <1>2, <1>5 DEF PostingsInv
    <2>2. \A o \in Editors : edit'[o] # NoEdit => edit'[o] = edit[o]
      BY <1>2
    <2> QED
      BY <1>1, <2>1, <2>2 DEF UpdateAgrees, Posted
  <1> QED
    BY <1>1, <1>3, <1>4, <1>5 DEF PostingsInv, FilteredByPrice, Posted, Converted

LEMMA SearchJobsKeeps ==
  ASSUME PostingsInv, NEW min \in Nat, NEW max \in Nat, SearchJobs(min, max)
  PROVE  PostingsInv'
  <1> DEFINE items == {Item(j) : j \in {i \in Jobs : Listed(i, min, max)}}
             answer == [min |-> min, max |-> max, items |-> items]
  <1>1. page' = answer /\ job' = job /\ edit' = edit /\ raced' = raced
    BY DEF SearchJobs
  <1>2. ASSUME NEW item \in items
        PROVE  /\ item \in [job : Jobs, budget : Nat, currency : Currencies]
               /\ item.job \notin raced => ConvertToBase(item.budget, item.currency) \in min..max
    <2>1. PICK j \in Jobs : Listed(j, min, max) /\ item = Item(j)
      OBVIOUS
    <2>2. job[j] \in Rows /\ job[j].base \in min..max
      BY <2>1 DEF Listed, Posted, PostingsInv, PostingsTypeOK
    <2>3. j \notin raced => job[j].base = ConvertToBase(job[j].budget, job[j].currency)
      BY <2>1 DEF Listed, PostingsInv, Converted
    <2> QED
      BY <2>1, <2>2, <2>3 DEF Item, Rows
  <1> HIDE DEF items
  <1>3. answer \in [min : Nat, max : Nat, items : SUBSET [job : Jobs, budget : Nat, currency : Currencies]]
    BY <1>2
  <1>4. answer.min = min /\ answer.max = max /\ answer.items = items
    OBVIOUS
  <1> HIDE DEF answer
  <1>5. PostingsTypeOK'
    BY <1>1, <1>3 DEF PostingsInv, PostingsTypeOK
  <1>6. FilteredByPrice'
    BY <1>1, <1>2, <1>4 DEF FilteredByPrice
  <1> QED
    BY <1>1, <1>5, <1>6 DEF PostingsInv, Posted, Converted, UpdateAgrees

(* The inputs of a scenario. *)
LEMMA ScenarioInputs ==
  ASSUME NEW s \in Scenarios
  PROVE  /\ s.key \in Keys /\ s.file \in Files /\ s.text \in Texts /\ s.skills \in SUBSET Skills
         /\ s.extracted => s.file \in Readable
         /\ s.demo => s.applied /\ s.extracted
         /\ s.legacy => s.applied
         /\ \A f \in s.files : f \in Files
         /\ \A q \in s.writers : q \in Writers
         /\ \A x \in s.extractors : x \in Extractors
         /\ \A w \in s.workers : w \in Workers
         /\ \A c \in s.changes : c \in Changes
         /\ \A d \in s.drafts : d \in [text : Texts, skills : SUBSET Skills, status : Statuses,
                                       currency : Currencies, budget : Budgets]
         /\ \A r \in s.ranges : r[1] \in Nat /\ r[2] \in Nat
  BY ScenariosAssumption

LEMMA PostingStepKeeps ==
  ASSUME PostingsInv, scenario \in Scenarios, PostingNext
  PROVE  PostingsInv'
  <1>1. ASSUME NEW j \in Jobs, NEW draft \in scenario.drafts,
               CreateJob(j, draft.text, draft.skills, draft.status, draft.currency, draft.budget)
        PROVE  PostingsInv'
    <2>1. draft \in [text : Texts, skills : SUBSET Skills, status : Statuses,
                     currency : Currencies, budget : Budgets]
      BY ScenarioInputs
    <2>2. /\ draft.text \in Texts /\ draft.skills \in SUBSET Skills /\ draft.status \in Statuses
          /\ draft.currency \in Currencies /\ draft.budget \in Budgets
      BY <2>1
    <2> QED
      BY <1>1, <2>2, CreateKeeps
  <1>2. ASSUME NEW range \in scenario.ranges, SearchJobs(range[1], range[2])
        PROVE  PostingsInv'
    BY <1>2, SearchJobsKeeps, ScenarioInputs
  <1>3. ASSUME NEW q \in Editors, EditStep(q)
        PROVE  PostingsInv'
    BY <1>3, WriteJobKeeps, UpdateFailsKeeps DEF EditStep
  <1>4. ASSUME NEW q \in Editors, NEW j \in Jobs, NEW change \in scenario.changes, ReadJob(q, j, change)
        PROVE  PostingsInv'
    BY <1>4, ReadJobKeeps, ScenarioInputs
  <1> QED
    BY <1>1, <1>2, <1>3, <1>4 DEF PostingNext

LEMMA PostingsStart ==
  ASSUME Init
  PROVE  PostingsInv
  <1> DEFINE s == scenario
  <1>1. s.text \in Texts /\ s.skills \in SUBSET Skills
    BY ScenarioInputs DEF Init
  <1>2. /\ job = [j \in Jobs |-> IF s.applied /\ j = TheJob THEN Posting(s.text, s.skills) ELSE NoJob]
        /\ edit = [q \in Editors |-> NoEdit] /\ raced = {} /\ page = NoPage
    BY DEF Init
  <1> HIDE DEF s
  <1>3. Posting(s.text, s.skills) \in Rows
    BY <1>1, InputsAssumption DEF Posting, Rows, Statuses, Currencies
  <1>4. \A j \in Jobs : Posted(j) => job[j] = Posting(s.text, s.skills)
    BY <1>2 DEF Posted
  <1>5. PostingsTypeOK
    BY <1>2, <1>3 DEF PostingsTypeOK, NoPage
  <1>6. \A j \in Jobs \ raced : Posted(j) => Converted(j)
    BY <1>4 DEF Converted, Posting, ConvertToBase, ExchangeRateToBase
  <1> QED
    BY <1>2, <1>5, <1>6 DEF PostingsInv, FilteredByPrice, NoPage

LEMMA PostingsStay ==
  ASSUME PostingsInv, UNCHANGED <<job, edit, raced, page>>
  PROVE  PostingsInv'
  BY DEF PostingsInv, PostingsTypeOK, Posted, Converted, UpdateAgrees, FilteredByPrice

-----------------------------------------------------------------------------
(* Resumes. *)

WriterSteps == [at : {"create", "find", "keep", "reset"}, resume : Resumes, key : Keys, size : Nat]
Extractions == [at : {"extract"}, version : Versions, file : Files \cup {NoFile}]

(* A first registration is alone with its resume, which has no version yet;*)
(* everything else is about a registered resume.                           *)
WritersAgree ==
  /\ \A q \in Writers : writer[q] # Idle => (writer[q].at = "create" <=> ~Registered(writer[q].resume))
  /\ \A p, q \in Writers :
       p # q /\ writer[p] # Idle /\ writer[q] # Idle /\ writer[q].at = "create" =>
         writer[p].resume # writer[q].resume

(* A version of a resume that is not registered is not there; a completed  *)
(* one names a file of its length.                                         *)
VersionAgrees(v) ==
  /\ ~Registered(v[1]) => content[v].status = "NONE"
  /\ content[v].status = "COMPLETED" => content[v].hash \in Files /\ Size[content[v].hash] = content[v].size

ResumesInv ==
  /\ ResumesTypeOK
  /\ writer \in [Writers -> {Idle} \cup WriterSteps]
  /\ extractor \in [Extractors -> {Idle} \cup Extractions]
  /\ \A r \in Resumes : Active(r) => Registered(r)
  /\ WritersAgree
  /\ \A v \in Versions : VersionAgrees(v)
  /\ \A x \in Extractors : extractor[x] # Idle => Registered(extractor[x].version[1])
  /\ \A r \in Resumes : Registered(r) => Detail(r) # "NONE"

(* What the evaluations see of a step of the resumes: as long as no        *)
(* completed version was reset, completed versions stay as they are.       *)
CompletedStays ==
  thrown' = {} =>
    /\ thrown = {}
    /\ \A v \in Versions :
         content[v].status = "COMPLETED" =>
           content'[v].status = "COMPLETED" /\ content'[v].hash = content[v].hash

AllStayDeleted == \A r \in Resumes : StaysDeleted(r)

(* The records of the resumes and of the versions, without those at work   *)
(* on them.                                                                *)
RecordsAgree ==
  /\ resume \in [Resumes -> [key : Keys \cup {NoKey}, active : BOOLEAN]]
  /\ content \in [Versions -> [status : {"NONE", "PENDING", "COMPLETED", "FAILED"},
                               size : Nat, hash : Files \cup {NoFile}]]
  /\ \A r \in Resumes : Active(r) => Registered(r)
  /\ \A v \in Versions : VersionAgrees(v)
  /\ \A r \in Resumes : Registered(r) => Detail(r) # "NONE"

(* The bucket changes: uploads, their URLs and objects. *)
LEMMA BucketKeeps ==
  ASSUME ResumesInv,
         upload' \in [Keys -> {"none", "open", "expired"}], object' \in [Keys -> Files \cup {NoFile}],
         UNCHANGED <<resume, content, writer, extractor, thrown>>
  PROVE  ResumesInv' /\ CompletedStays /\ AllStayDeleted
  BY DEF ResumesInv, ResumesTypeOK, WritersAgree, VersionAgrees, Active, Registered, Detail, Current,
         CompletedStays, AllStayDeleted, StaysDeleted

(* A registration proceeds and nothing else changes. *)
LEMMA WriterBecomes ==
  ASSUME ResumesInv, NEW q \in Writers, NEW w \in WriterSteps,
         writer' = [writer EXCEPT ![q] = w],
         w.at = "create" <=> ~Registered(w.resume),
         w.at = "create" => \A p \in Writers : p # q /\ writer[p] # Idle => writer[p].resume # w.resume,
         UNCHANGED <<upload, object, resume, content, extractor, thrown>>
  PROVE  ResumesInv' /\ CompletedStays /\ AllStayDeleted
  <1>1. writer'[q] = w /\ \A p \in Writers : p # q => writer'[p] = writer[p]
    BY DEF ResumesInv
  <1>2. writer' \in [Writers -> {Idle} \cup WriterSteps]
    BY DEF ResumesInv
  <1>3. ResumesTypeOK'
    BY <1>2 DEF ResumesInv, ResumesTypeOK, WriterSteps
  <1>4. WritersAgree'
    <2>1. \A p \in Writers : writer'[p] # Idle => (writer'[p].at = "create" <=> ~Registered(writer'[p].resume))
      BY <1>1 DEF ResumesInv, WritersAgree
    <2>2. ASSUME NEW p \in Writers, NEW o \in Writers, p # o, writer'[p] # Idle, writer'[o] # Idle,
                 writer'[o].at = "create"
          PROVE  writer'[p].resume # writer'[o].resume
      <3>1. CASE o = q
        BY <1>1, <2>2, <3>1
      <3>2. CASE p = q
        <4>1. writer'[o] = writer[o] /\ ~Registered(writer[o].resume)
          BY <1>1, <2>1, <2>2, <3>2
        <4>2. CASE w.at = "create"
          BY <1>1, <2>2, <3>2, <4>1, <4>2
        <4>3. CASE w.at # "create"
          BY <1>1, <3>2, <4>1, <4>3
        <4> QED
          BY <4>2, <4>3
      <3>3. CASE o # q /\ p # q
        BY <1>1, <2>2, <3>3 DEF ResumesInv, WritersAgree
      <3> QED
        BY <3>1, <3>2, <3>3
    <2> QED
      BY <2>1, <2>2 DEF WritersAgree, Registered
  <1> QED
    BY <1>2, <1>3, <1>4 DEF ResumesInv, VersionAgrees, Active, Registered, Detail, Current,
         CompletedStays, AllStayDeleted, StaysDeleted

(* A registration ends: the records may have changed, but a resume stays   *)
(* registered, and no other registration of it is a first one.             *)
LEMMA WriterEnds ==
  ASSUME ResumesInv, NEW q \in Writers, NEW r \in Resumes,
         writer' = [writer EXCEPT ![q] = Idle], RecordsAgree', thrown' \in SUBSET Versions,
         \A o \in Resumes : o # r => resume'[o] = resume[o],
         Registered(r) => Registered(r)',
         \A p \in Writers : p # q /\ writer[p] # Idle /\ writer[p].at = "create" =>
           writer[p].resume # r \/ ~Registered(r)',
         UNCHANGED <<upload, object, extractor>>
  PROVE  ResumesInv'
  <1>1. writer'[q] = Idle /\ \A p \in Writers : p # q => writer'[p] = writer[p]
    BY DEF ResumesInv
  <1>2. writer' \in [Writers -> {Idle} \cup WriterSteps]
    BY DEF ResumesInv
  <1>3. ResumesTypeOK'
    BY <1>2 DEF ResumesInv, ResumesTypeOK, WriterSteps, RecordsAgree
  <1>4. \A p \in Writers : writer'[p] # Idle => p # q /\ writer'[p] = writer[p] /\ writer[p] \in WriterSteps
    BY <1>1 DEF ResumesInv
  <1>5. ASSUME NEW p \in Writers, writer'[p] # Idle
        PROVE  writer'[p].at = "create" <=> resume'[writer'[p].resume].key = NoKey
    <2>1. p # q /\ writer'[p] = writer[p] /\ writer[p].resume \in Resumes /\ writer[p] # Idle
      BY <1>4, <1>5 DEF WriterSteps
    <2>2. writer[p].at = "create" <=> resume[writer[p].resume].key = NoKey
      BY <2>1 DEF ResumesInv, WritersAgree, Registered
    <2>3. CASE writer[p].resume # r
      BY <2>1, <2>2, <2>3
    <2>4. CASE writer[p].resume = r
      BY <2>1, <2>2, <2>4 DEF Registered
    <2> QED
      BY <2>3, <2>4
  <1>6. WritersAgree'
    <2>1. \A p, o \in Writers : p # o /\ writer'[p] # Idle /\ writer'[o] # Idle /\ writer'[o].at = "create" =>
            writer'[p].resume # writer'[o].resume
      BY <1>4 DEF ResumesInv, WritersAgree
    <2> QED
      BY <1>5, <2>1 DEF WritersAgree, Registered
  <1>7. ASSUME NEW x \in Extractors, extractor'[x] # Idle
        PROVE  resume'[extractor'[x].version[1]].key # NoKey
    <2>1. extractor[x] \in Extractions /\ resume[extractor[x].version[1]].key # NoKey
      BY <1>7 DEF ResumesInv, Registered
    <2>2. extractor[x].version[1] \in Resumes
      BY <2>1 DEF Extractions, Versions
    <2> QED
      BY <2>1, <2>2 DEF Registered
  <1>8. extractor' \in [Extractors -> {Idle} \cup Extractions]
    BY DEF ResumesInv
  <1> QED
    BY <1>2, <1>3, <1>6, <1>7, <1>8 DEF ResumesInv, RecordsAgree, Registered

(* One version changes, of a registered resume and not away from the file  *)
(* it was completed with.                                                  *)
LEMMA VersionBecomes ==
  ASSUME ResumesInv, NEW v \in Versions, NEW c \in [status : {"PENDING", "COMPLETED", "FAILED"},
                                                     size : Nat, hash : Files \cup {NoFile}],
         content' = [content EXCEPT ![v] = c],
         c.status = "COMPLETED" => c.hash \in Files /\ Size[c.hash] = c.size,
         resume' \in [Resumes -> [key : Keys \cup {NoKey}, active : BOOLEAN]],
         \A r \in Resumes : Active(r)' => Registered(r)',
         Registered(v[1])',
         \A r \in Resumes : Registered(r) => Registered(r)',
         \A r \in Resumes : Registered(r)' => resume'[r].key = resume[r].key \/ <<r, resume'[r].key>> = v
  PROVE  RecordsAgree'
  <1>1. content'[v] = c /\ \A u \in Versions : u # v => content'[u] = content[u]
    BY DEF ResumesInv, ResumesTypeOK
  <1>2. content' \in [Versions -> [status : {"NONE", "PENDING", "COMPLETED", "FAILED"},
                                   size : Nat, hash : Files \cup {NoFile}]]
    BY DEF ResumesInv, ResumesTypeOK
  <1>3. ASSUME NEW u \in Versions
        PROVE  VersionAgrees(u)'
    <2>1. CASE u = v
      BY <1>1, <2>1 DEF VersionAgrees
    <2>2. CASE u # v
      <3>1. u[1] \in Resumes
        BY DEF Versions
      <3> QED
        BY <1>1, <2>2, <3>1 DEF ResumesInv, VersionAgrees
    <2> QED
      BY <2>1, <2>2
  <1>4. ASSUME NEW r \in Resumes, Registered(r)'
        PROVE  Detail(r)' # "NONE"
    <2>1. CASE <<r, resume'[r].key>> = v
      BY <1>1, <2>1 DEF Detail, Current
    <2>2. CASE <<r, resume'[r].key>> # v
      <3>1. resume'[r].key = resume[r].key /\ Registered(r)
        BY <1>4, <2>2 DEF Registered
      <3>2. <<r, resume[r].key>> \in Versions
        BY <3>1 DEF ResumesInv, ResumesTypeOK, Registered, Versions
      <3> QED
        BY <1>1, <2>2, <3>1, <3>2 DEF ResumesInv, Detail, Current
    <2> QED
      BY <2>1, <2>2
  <1> QED
    BY <1>2, <1>3, <1>4 DEF RecordsAgree

LEMMA CreateResumeKeeps ==
  ASSUME ResumesInv, NEW q \in Writers, NEW r \in Resumes, NEW k \in Keys, CreateResume(q, r, k)
  PROVE  ResumesInv' /\ CompletedStays /\ AllStayDeleted
  <1> DEFINE w == [at |-> "create", resume |-> r, key |-> k, size |-> Size[object[k]]]
  <1>1. /\ writer' = [writer EXCEPT ![q] = w] /\ ~Registered(r)
        /\ \A p \in Writers : writer[p] # Idle => writer[p].resume # r
        /\ UNCHANGED <<upload, object, resume, content, extractor, thrown>>
    BY DEF CreateResume, Writes
  <1>2. object[k] \in Files
    BY DEF CreateResume, Acceptable, Stored, ResumesInv, ResumesTypeOK
  <1>3. w \in WriterSteps /\ w.at = "create" /\ w.resume = r
    BY <1>2, ResumesAssumption DEF WriterSteps
  <1> HIDE DEF w
  <1> QED
    BY <1>1, <1>3, WriterBecomes

LEMMA UpdateResumeKeeps ==
  ASSUME ResumesInv, NEW q \in Writers, NEW r \in Resumes, NEW k \in Keys, UpdateResume(q, r, k)
  PROVE  ResumesInv' /\ CompletedStays /\ AllStayDeleted
  <1> DEFINE w == [at |-> "find", resume |-> r, key |-> k, size |-> Size[object[k]]]
  <1>1. /\ writer' = [writer EXCEPT ![q] = w] /\ Active(r)
        /\ UNCHANGED <<upload, object, resume, content, extractor, thrown>>
    BY DEF UpdateResume, Writes, Authorized
  <1>2. object[k] \in Files
    BY DEF UpdateResume, Acceptable, Stored, ResumesInv, ResumesTypeOK
  <1>3. w \in WriterSteps /\ w.at = "find" /\ w.resume = r
    BY <1>2, ResumesAssumption DEF WriterSteps
  <1>4. Registered(r)
    BY <1>1 DEF ResumesInv
  <1> HIDE DEF w
  <1> QED
    BY <1>1, <1>3, <1>4, WriterBecomes

LEMMA FindContentKeeps ==
  ASSUME ResumesInv, NEW q \in Writers, FindContent(q)
  PROVE  ResumesInv' /\ CompletedStays /\ AllStayDeleted
  <1> DEFINE at == IF content[<<writer[q].resume, writer[q].key>>].status = "FAILED" THEN "reset" ELSE "keep"
             w == [writer[q] EXCEPT !.at = at]
  <1>1. /\ writer' = [writer EXCEPT ![q] = w]
        /\ UNCHANGED <<upload, object, resume, content, extractor, thrown>>
    BY DEF FindContent
  <1>2. writer[q] \in WriterSteps /\ writer[q].at = "find"
    BY DEF FindContent, ResumesInv, Idle
  <1>3. Registered(writer[q].resume)
    BY <1>2 DEF ResumesInv, WritersAgree, Idle, WriterSteps
  <1>4. at \in {"keep", "reset"}
    OBVIOUS
  <1> HIDE DEF at
  <1>5. w \in WriterSteps /\ w.at # "create" /\ w.resume = writer[q].resume
    BY <1>2, <1>4 DEF WriterSteps
  <1> HIDE DEF w
  <1> QED
    BY <1>1, <1>3, <1>5, WriterBecomes

LEMMA PendingIsTyped ==
  ASSUME NEW size \in Nat
  PROVE  /\ Pending(size) \in [status : {"PENDING", "COMPLETED", "FAILED"}, size : Nat, hash : Files \cup {NoFile}]
         /\ Pending(size).status = "PENDING"
  BY DEF Pending

LEMMA AddResumeKeeps ==
  ASSUME ResumesInv, NEW q \in Writers, AddResumeWithPendingContent(q)
  PROVE  ResumesInv' /\ CompletedStays /\ AllStayDeleted
  <1>a. writer[q] \in WriterSteps /\ writer[q] # Idle
    BY DEF ResumesInv, Idle, AddResumeWithPendingContent
  <1> SUFFICES ASSUME NEW r \in Resumes, NEW k \in Keys, NEW size \in Nat,
                      r = writer[q].resume, k = writer[q].key, size = writer[q].size
               PROVE  ResumesInv' /\ CompletedStays /\ AllStayDeleted
    BY <1>a DEF WriterSteps
  <1> DEFINE c == Pending(size)
             n == NewRecord(k)
  <1>1. /\ writer[q].at = "create"
        /\ resume' = [resume EXCEPT ![r] = n] /\ content' = [content EXCEPT ![<<r, k>>] = c]
        /\ writer' = [writer EXCEPT ![q] = Idle]
        /\ UNCHANGED <<upload, object, extractor, thrown>>
    BY DEF AddResumeWithPendingContent, WriterDone
  <1>3. <<r, k>> \in Versions
    BY DEF Versions
  <1>4. ~Registered(r) /\ content[<<r, k>>].status = "NONE"
    <2>1. ~Registered(r)
      BY <1>1, <1>a DEF ResumesInv, WritersAgree
    <2> QED
      BY <1>3, <2>1 DEF ResumesInv, VersionAgrees
  <1>5. n \in [key : Keys \cup {NoKey}, active : BOOLEAN] /\ n.key = k /\ n.active
    BY <1>3 DEF NewRecord
  <1>6. \A p \in Writers : p # q /\ writer[p] # Idle /\ writer[p].at = "create" => writer[p].resume # r
    BY <1>1, <1>a DEF ResumesInv, WritersAgree
  <1>7. c \in [status : {"PENDING", "COMPLETED", "FAILED"}, size : Nat, hash : Files \cup {NoFile}] /\ c.status = "PENDING"
    BY <1>3, PendingIsTyped
  <1> HIDE DEF c, n
  <1>8. resume'[r] = n /\ \A o \in Resumes : o # r => resume'[o] = resume[o]
    BY <1>1, <1>3 DEF ResumesInv, ResumesTypeOK
  <1>9. resume' \in [Resumes -> [key : Keys \cup {NoKey}, active : BOOLEAN]]
    BY <1>1, <1>5 DEF ResumesInv, ResumesTypeOK
  <1>10. Registered(r)' /\ \A o \in Resumes : Registered(o) => Registered(o)'
    BY <1>3, <1>5, <1>8, ResumesAssumption DEF Registered
  <1>11. \A o \in Resumes : Active(o)' => Registered(o)'
    BY <1>8, <1>10 DEF ResumesInv, Active, Registered
  <1>12. \A o \in Resumes : Registered(o)' => resume'[o].key = resume[o].key \/ <<o, resume'[o].key>> = <<r, k>>
    BY <1>5, <1>8
  <1>13. RecordsAgree'
    <2> DEFINE v == <<r, k>>
    <2>1. v \in Versions /\ v[1] = r
      BY <1>3
    <2>2. content' = [content EXCEPT ![v] = c] /\ c.status # "COMPLETED"
      BY <1>1, <1>7
    <2>3. \A o \in Resumes : Registered(o)' => resume'[o].key = resume[o].key \/ <<o, resume'[o].key>> = v
      BY <1>12
    <2> HIDE DEF v
    <2> QED
      BY <1>7, <1>9, <1>10, <1>11, <2>1, <2>2, <2>3, VersionBecomes
  <1>14. thrown' \in SUBSET Versions
    BY <1>1 DEF ResumesInv, ResumesTypeOK
  <1>15. ResumesInv'
    <2>1. UNCHANGED <<upload, object, extractor>>
      BY <1>1
    <2>2. writer' = [writer EXCEPT ![q] = Idle]
      BY <1>1
    <2>3. \A o \in Resumes : o # r => resume'[o] = resume[o]
      BY <1>8
    <2>4. Registered(r) => Registered(r)'
      BY <1>10
    <2>5. \A p \in Writers : p # q /\ writer[p] # Idle /\ writer[p].at = "create" =>
            writer[p].resume # r \/ ~Registered(r)'
      BY <1>6
    <2> QED
      BY <1>13, <1>14, <2>1, <2>2, <2>3, <2>4, <2>5, WriterEnds
  <1>16. CompletedStays
    <2>1. \A v \in Versions : v # <<r, k>> => content'[v] = content[v]
      BY <1>1, <1>3 DEF ResumesInv, ResumesTypeOK
    <2> QED
      BY <1>1, <1>4, <2>1 DEF CompletedStays
  <1>17. AllStayDeleted
    BY <1>4, <1>8 DEF AllStayDeleted, StaysDeleted, Active
  <1> QED
    BY <1>15, <1>16, <1>17

(* The records agree after a step that leaves every version alone. *)
LEMMA VersionsStay ==
  ASSUME ResumesInv, content' = content,
         resume' \in [Resumes -> [key : Keys \cup {NoKey}, active : BOOLEAN]],
         \A r \in Resumes : Active(r)' => Registered(r)',
         \A r \in Resumes : Registered(r) => Registered(r)',
         \A r \in Resumes : Registered(r)' =>
           resume'[r].key = resume[r].key \/ content[<<r, resume'[r].key>>].status # "NONE"
  PROVE  RecordsAgree'
  <1>1. ASSUME NEW v \in Versions
        PROVE  VersionAgrees(v)'
    <2>1. v[1] \in Resumes
      BY DEF Versions
    <2> QED
      BY <2>1 DEF ResumesInv, VersionAgrees
  <1>2. ASSUME NEW r \in Resumes, Registered(r)'
        PROVE  Detail(r)' # "NONE"
    BY <1>2 DEF ResumesInv, Detail, Current, Registered
  <1> QED
    BY <1>1, <1>2 DEF RecordsAgree, ResumesInv, ResumesTypeOK

LEMMA UpdateRecordKeeps ==
  ASSUME ResumesInv, NEW q \in Writers, UpdateResumeWithPendingContent(q)
  PROVE  ResumesInv' /\ CompletedStays /\ AllStayDeleted
  <1>a. writer[q] \in WriterSteps /\ writer[q] # Idle
    BY DEF ResumesInv, Idle, UpdateResumeWithPendingContent
  <1> SUFFICES ASSUME NEW r \in Resumes, NEW k \in Keys, NEW size \in Nat,
                      r = writer[q].resume, k = writer[q].key, size = writer[q].size
               PROVE  ResumesInv' /\ CompletedStays /\ AllStayDeleted
    BY <1>a DEF WriterSteps
  <1>b. <<r, k>> \in Versions
    BY DEF Versions
  <1> SUFFICES ASSUME NEW v \in Versions, v = <<r, k>>
               PROVE  ResumesInv' /\ CompletedStays /\ AllStayDeleted
    BY <1>b
  <1>1. /\ writer[q].at \in {"keep", "reset"}
        /\ resume' = [resume EXCEPT ![r] = Repointed(@, k)]
        /\ writer' = [writer EXCEPT ![q] = Idle]
        /\ UNCHANGED <<upload, object, extractor>>
    BY DEF UpdateResumeWithPendingContent, WriterDone
  <1>2. /\ content' = IF content[v].status = "NONE" THEN [content EXCEPT ![v] = Pending(size)]
                      ELSE IF writer[q].at = "reset" THEN [content EXCEPT ![v] = Pending(@.size)]
                      ELSE content
        /\ thrown' = IF writer[q].at = "reset" /\ content[v].status = "COMPLETED"
                       THEN thrown \cup {v} ELSE thrown
    BY DEF UpdateResumeWithPendingContent
  <1>3. Registered(r)
    BY <1>a, <1>1 DEF ResumesInv, WritersAgree
  <1>4. resume[r] \in [key : Keys \cup {NoKey}, active : BOOLEAN]
    BY DEF ResumesInv, ResumesTypeOK
  <1>5. /\ resume' \in [Resumes -> [key : Keys \cup {NoKey}, active : BOOLEAN]]
        /\ resume'[r].key = k /\ resume'[r].active = resume[r].active
        /\ \A o \in Resumes : o # r => resume'[o] = resume[o]
    BY <1>1, <1>4 DEF ResumesInv, ResumesTypeOK, Repointed
  <1>6. \A o \in Resumes : Registered(o) => Registered(o)'
    BY <1>5, ResumesAssumption DEF Registered
  <1>7. \A o \in Resumes : Active(o)' => Registered(o)'
    BY <1>3, <1>5, <1>6 DEF ResumesInv, Active
  <1>8. \A p \in Writers : p # q /\ writer[p] # Idle /\ writer[p].at = "create" => writer[p].resume # r
    BY <1>3 DEF ResumesInv, WritersAgree
  <1>9. content[v] \in [status : {"NONE", "PENDING", "COMPLETED", "FAILED"}, size : Nat, hash : Files \cup {NoFile}]
    BY DEF ResumesInv, ResumesTypeOK
  <1>10. RecordsAgree'
    <2>1. ASSUME NEW n \in Nat, content' = [content EXCEPT ![v] = Pending(n)]
          PROVE  RecordsAgree'
      <3>1. Registered(v[1])'
        BY <1>3, <1>6
      <3>2. \A o \in Resumes : Registered(o)' => resume'[o].key = resume[o].key \/ <<o, resume'[o].key>> = v
        BY <1>5
      <3> DEFINE c == Pending(n)
      <3>3. /\ c \in [status : {"PENDING", "COMPLETED", "FAILED"}, size : Nat, hash : Files \cup {NoFile}]
            /\ c.status # "COMPLETED" /\ content' = [content EXCEPT ![v] = c]
        BY <2>1, PendingIsTyped
      <3> HIDE DEF c
      <3> QED
        BY <1>5, <1>6, <1>7, <3>1, <3>2, <3>3, VersionBecomes
    <2>2. CASE content' = content /\ content[v].status # "NONE"
      <3>1. \A o \in Resumes : Registered(o)' =>
              resume'[o].key = resume[o].key \/ content[<<o, resume'[o].key>>].status # "NONE"
        BY <1>5, <2>2
      <3> QED
        BY <1>5, <1>6, <1>7, <2>2, <3>1, VersionsStay
    <2>3. content[v].size \in Nat
      BY <1>9
    <2> QED
      BY <1>2, <2>1, <2>2, <2>3
  <1>11. thrown' \in SUBSET Versions
    BY <1>2 DEF ResumesInv, ResumesTypeOK
  <1>12. ResumesInv'
    <2>1. UNCHANGED <<upload, object, extractor>> /\ writer' = [writer EXCEPT ![q] = Idle]
      BY <1>1
    <2>2. \A o \in Resumes : o # r => resume'[o] = resume[o]
      BY <1>5
    <2>3. Registered(r) => Registered(r)'
      BY <1>6
    <2>4. \A p \in Writers : p # q /\ writer[p] # Idle /\ writer[p].at = "create" =>
            writer[p].resume # r \/ ~Registered(r)'
      BY <1>8
    <2> QED
      BY <1>10, <1>11, <2>1, <2>2, <2>3, <2>4, WriterEnds
  <1>13. CompletedStays
    <2>1. \A u \in Versions : u # v => content'[u] = content[u]
      BY <1>2 DEF ResumesInv, ResumesTypeOK
    <2>2. thrown \subseteq thrown'
      BY <1>2
    <2>3. thrown' = {} /\ content[v].status = "COMPLETED" => content' = content
      BY <1>1, <1>2
    <2> QED
      BY <2>1, <2>2, <2>3 DEF CompletedStays
  <1>14. AllStayDeleted
    BY <1>5 DEF AllStayDeleted, StaysDeleted, Active
  <1> QED
    BY <1>12, <1>13, <1>14

LEMMA RegistrationFailsKeeps ==
  ASSUME ResumesInv, NEW q \in Writers, RegistrationFails(q)
  PROVE  ResumesInv' /\ CompletedStays /\ AllStayDeleted
  <1>1. /\ writer' = [writer EXCEPT ![q] = Idle]
        /\ UNCHANGED <<upload, object, resume, content, extractor, thrown>>
    BY DEF RegistrationFails, WriterDone
  <1>2. writer' \in [Writers -> {Idle} \cup WriterSteps]
    BY <1>1 DEF ResumesInv
  <1>3. \A p \in Writers : writer'[p] # Idle => writer'[p] = writer[p]
    BY <1>1 DEF ResumesInv
  <1>4. WritersAgree'
    BY <1>1, <1>3 DEF ResumesInv, WritersAgree, Registered
  <1>5. ResumesTypeOK'
    BY <1>1, <1>2 DEF ResumesInv, ResumesTypeOK, WriterSteps
  <1> QED
    BY <1>1, <1>2, <1>4, <1>5 DEF ResumesInv, VersionAgrees, Active, Registered, Detail, Current,
         CompletedStays, AllStayDeleted, StaysDeleted

LEMMA DeleteResumeKeeps ==
  ASSUME ResumesInv, NEW r \in Resumes, DeleteResume(r)
  PROVE  ResumesInv' /\ CompletedStays /\ AllStayDeleted
  <1>1. /\ resume' = [resume EXCEPT ![r].active = FALSE] /\ Active(r)
        /\ UNCHANGED <<upload, object, content, writer, extractor, thrown>>
    BY DEF DeleteResume, Deactivate, Authorized
  <1>2. resume[r] \in [key : Keys \cup {NoKey}, active : BOOLEAN]
    BY DEF ResumesInv, ResumesTypeOK
  <1>3. /\ resume' \in [Resumes -> [key : Keys \cup {NoKey}, active : BOOLEAN]]
        /\ \A o \in Resumes : resume'[o].key = resume[o].key
        /\ \A o \in Resumes : resume'[o].active => resume[o].active
    BY <1>1, <1>2 DEF ResumesInv, ResumesTypeOK
  <1>4. \A o \in Resumes : resume'[o].key # NoKey <=> resume[o].key # NoKey
    BY <1>3
  <1>5. ResumesTypeOK'
    BY <1>1, <1>3 DEF ResumesInv, ResumesTypeOK
  <1>6. WritersAgree'
    <2>1. \A q \in Writers : writer[q] # Idle => writer[q].resume \in Resumes
      BY DEF ResumesInv, WriterSteps
    <2> QED
      BY <1>1, <1>4, <2>1 DEF ResumesInv, WritersAgree, Registered
  <1>7. RecordsAgree'
    BY <1>1, <1>3, <1>4, VersionsStay DEF ResumesInv, Active, Registered
  <1>8. \A x \in Extractors : extractor'[x] # Idle => resume'[extractor'[x].version[1]].key # NoKey
    <2>1. \A x \in Extractors : extractor[x] # Idle => extractor[x].version[1] \in Resumes
      BY DEF ResumesInv, Extractions, Versions
    <2> QED
      BY <1>1, <1>4, <2>1 DEF ResumesInv, Registered
  <1>9. ResumesInv'
    BY <1>1, <1>5, <1>6, <1>7, <1>8 DEF ResumesInv, RecordsAgree, Registered
  <1> QED
    BY <1>1, <1>3, <1>9 DEF CompletedStays, AllStayDeleted, StaysDeleted, Active

(* An extraction proceeds, and at most one version changes. *)
LEMMA ExtractorBecomes ==
  ASSUME ResumesInv, NEW x \in Extractors, NEW e \in {Idle} \cup Extractions,
         extractor' = [extractor EXCEPT ![x] = e],
         e # Idle => resume[e.version[1]].key # NoKey,
         RecordsAgree', UNCHANGED <<upload, object, resume, writer, thrown>>
  PROVE  ResumesInv' /\ AllStayDeleted
  <1>1. extractor' \in [Extractors -> {Idle} \cup Extractions]
    BY DEF ResumesInv
  <1>2. \A y \in Extractors : extractor'[y] # Idle => resume'[extractor'[y].version[1]].key # NoKey
    BY DEF ResumesInv, Registered
  <1>3. ResumesTypeOK'
    BY <1>1 DEF ResumesInv, ResumesTypeOK, RecordsAgree, Extractions
  <1>4. WritersAgree'
    BY DEF ResumesInv, WritersAgree, Registered
  <1> QED
    BY <1>1, <1>2, <1>3, <1>4 DEF ResumesInv, RecordsAgree, Registered, AllStayDeleted, StaysDeleted, Active

LEMMA RecordsStay ==
  ASSUME ResumesInv, UNCHANGED <<resume, content>>
  PROVE  RecordsAgree'
  BY DEF ResumesInv, ResumesTypeOK, RecordsAgree, VersionAgrees, Active, Registered, Detail, Current

LEMMA FetchObjectKeeps ==
  ASSUME ResumesInv, NEW x \in Extractors, NEW v \in Versions, FetchObject(x, v)
  PROVE  ResumesInv' /\ CompletedStays /\ AllStayDeleted
  <1> DEFINE e == [at |-> "extract", version |-> v, file |-> Bytes(v[2])]
  <1>1. /\ extractor' = [extractor EXCEPT ![x] = e] /\ content[v].status \in {"PENDING", "FAILED"}
        /\ UNCHANGED <<upload, object, resume, content, writer, thrown>>
    BY DEF FetchObject
  <1>2. e \in Extractions
    <2>1. v[2] \in Keys
      BY DEF Versions
    <2> QED
      BY <2>1 DEF Extractions, Bytes, ResumesInv, ResumesTypeOK
  <1>3. resume[v[1]].key # NoKey
    BY <1>1 DEF ResumesInv, VersionAgrees, Registered
  <1>4. e.version = v
    OBVIOUS
  <1> HIDE DEF e
  <1>5. RecordsAgree'
    BY <1>1, RecordsStay
  <1>6. ResumesInv' /\ AllStayDeleted
    BY <1>1, <1>2, <1>3, <1>4, <1>5, ExtractorBecomes
  <1> QED
    BY <1>1, <1>6 DEF CompletedStays

(* What an extraction leaves of the version it was about. *)
LEMMA ExtractorStepKeeps ==
  ASSUME ResumesInv, NEW x \in Extractors, ExtractorStep(x)
  PROVE  ResumesInv' /\ CompletedStays /\ AllStayDeleted
  <1>1. /\ extractor[x] # Idle /\ extractor' = [extractor EXCEPT ![x] = Idle]
        /\ UNCHANGED <<upload, object, resume, writer, thrown>>
    BY DEF ExtractorStep, StoreText, ExtractionFails
  <1>2. extractor[x] \in Extractions
    BY <1>1 DEF ResumesInv
  <1> SUFFICES ASSUME NEW v \in Versions, NEW f \in Files \cup {NoFile},
                      v = extractor[x].version, f = extractor[x].file
               PROVE  ResumesInv' /\ CompletedStays /\ AllStayDeleted
    BY <1>2 DEF Extractions
  <1>3. v[1] \in Resumes /\ Registered(v[1])
    BY <1>1 DEF ResumesInv, Versions
  <1>4. content[v] \in [status : {"NONE", "PENDING", "COMPLETED", "FAILED"}, size : Nat, hash : Files \cup {NoFile}]
    BY DEF ResumesInv, ResumesTypeOK
  <1>5. ASSUME NEW c \in [status : {"PENDING", "COMPLETED", "FAILED"}, size : Nat, hash : Files \cup {NoFile}],
               content[v].status # "COMPLETED", content' = [content EXCEPT ![v] = c],
               c.status = "COMPLETED" => c.hash \in Files /\ Size[c.hash] = c.size
        PROVE  ResumesInv' /\ CompletedStays /\ AllStayDeleted
    <2>1. RecordsAgree'
      <3>1. \A r \in Resumes : Active(r)' => Registered(r)'
        BY <1>1 DEF ResumesInv, Active, Registered
      <3>2. \A r \in Resumes : Registered(r)' <=> Registered(r)
        BY <1>1 DEF Registered
      <3>3. resume' \in [Resumes -> [key : Keys \cup {NoKey}, active : BOOLEAN]]
        BY <1>1 DEF ResumesInv, ResumesTypeOK
      <3>4. \A r \in Resumes : resume'[r].key = resume[r].key
        BY <1>1
      <3>5. Registered(v[1])'
        BY <1>3, <3>2
      <3> QED
        BY <1>5, <3>1, <3>2, <3>3, <3>4, <3>5, VersionBecomes
    <2>2. CompletedStays
      <3>1. \A u \in Versions : u # v => content'[u] = content[u]
        BY <1>5 DEF ResumesInv, ResumesTypeOK
      <3> QED
        BY <1>1, <1>5, <3>1 DEF CompletedStays
    <2> QED
      BY <1>1, <2>1, <2>2, ExtractorBecomes
  <1>6. CASE content' = content
    <2>1. CompletedStays
      BY <1>1, <1>6 DEF CompletedStays
    <2> QED
      BY <1>1, <1>6, <2>1, RecordsStay, ExtractorBecomes
  <1>7. CASE StoreText(x)
    <2>1. f \in Files /\ Size[f] = content[v].size
      BY <1>7, ResumesAssumption DEF StoreText, Extracts
    <2> DEFINE c == [content[v] EXCEPT !.status = "COMPLETED", !.hash = f]
    <2>2. content' = IF content[v].status = "COMPLETED" THEN content ELSE [content EXCEPT ![v] = c]
      BY <1>7 DEF StoreText
    <2>3. /\ c \in [status : {"PENDING", "COMPLETED", "FAILED"}, size : Nat, hash : Files \cup {NoFile}]
          /\ c.hash = f /\ c.size = content[v].size
      BY <1>4
    <2> HIDE DEF c
    <2> QED
      BY <1>5, <1>6, <2>1, <2>2, <2>3
  <1>8. CASE ExtractionFails(x)
    <2> DEFINE c == [content[v] EXCEPT !.status = "FAILED"]
    <2>1. \/ content' = content
          \/ content[v].status = "PENDING" /\ content' = [content EXCEPT ![v] = c]
      BY <1>8 DEF ExtractionFails
    <2>2. /\ c \in [status : {"PENDING", "COMPLETED", "FAILED"}, size : Nat, hash : Files \cup {NoFile}]
          /\ c.status = "FAILED"
      BY <1>4
    <2> HIDE DEF c
    <2> QED
      BY <1>5, <1>6, <2>1, <2>2
  <1> QED
    BY <1>7, <1>8 DEF ExtractorStep

LEMMA ResumeStepKeeps ==
  ASSUME ResumesInv, scenario \in Scenarios, ResumeNext
  PROVE  ResumesInv' /\ CompletedStays /\ AllStayDeleted
  <1>1. ASSUME NEW k \in Keys, GetUploadUrl(k) \/ UrlExpires(k)
        PROVE  ResumesInv' /\ CompletedStays /\ AllStayDeleted
    <2>1. upload' \in [Keys -> {"none", "open", "expired"}] /\ UNCHANGED <<object, resume, content, writer, extractor, thrown>>
      BY <1>1 DEF GetUploadUrl, Sign, UrlExpires, ResumesInv, ResumesTypeOK
    <2> QED
      BY <2>1, BucketKeeps DEF ResumesInv, ResumesTypeOK
  <1>2. ASSUME NEW k \in Keys, NEW f \in Files, Put(k, f)
        PROVE  ResumesInv' /\ CompletedStays /\ AllStayDeleted
    <2>1. object' \in [Keys -> Files \cup {NoFile}] /\ UNCHANGED <<upload, resume, content, writer, extractor, thrown>>
      BY <1>2 DEF Put, ResumesInv, ResumesTypeOK
    <2> QED
      BY <2>1, BucketKeeps DEF ResumesInv, ResumesTypeOK
  <1>3. ASSUME NEW q \in Writers, NEW r \in Resumes, NEW k \in Keys, CreateResume(q, r, k) \/ UpdateResume(q, r, k)
        PROVE  ResumesInv' /\ CompletedStays /\ AllStayDeleted
    BY <1>3, CreateResumeKeeps, UpdateResumeKeeps
  <1>4. ASSUME NEW q \in Writers, WriterStep(q)
        PROVE  ResumesInv' /\ CompletedStays /\ AllStayDeleted
    BY <1>4, AddResumeKeeps, FindContentKeeps, UpdateRecordKeeps, RegistrationFailsKeeps DEF WriterStep
  <1> QED
    BY <1>1, <1>2, <1>3, <1>4, DeleteResumeKeeps, ExtractorStepKeeps, FetchObjectKeeps, ScenarioInputs DEF ResumeNext

LEMMA ResumesStart ==
  ASSUME Init
  PROVE  ResumesInv
  <1> DEFINE s == scenario
             v == <<TheResume, s.key>>
  <1>1. /\ s.key \in Keys /\ s.file \in Files /\ (s.extracted => s.file \in Readable)
    BY ScenarioInputs DEF Init
  <1>2. /\ upload = [k \in Keys |-> IF s.applied /\ k = s.key THEN "open" ELSE "none"]
        /\ object = [k \in Keys |-> IF s.applied /\ k = s.key THEN s.file ELSE NoFile]
        /\ resume = [r \in Resumes |-> IF s.applied /\ r = TheResume THEN [key |-> s.key, active |-> TRUE]
                                       ELSE [key |-> NoKey, active |-> FALSE]]
        /\ content = [u \in Versions |-> IF s.applied /\ u = v THEN FirstVersion(s) ELSE NoVersion]
        /\ writer = [q \in Writers |-> Idle] /\ extractor = [x \in Extractors |-> Idle] /\ thrown = {}
    BY DEF Init
  <1>3. /\ FirstVersion(s) \in [status : {"PENDING", "COMPLETED"}, size : Nat, hash : Files \cup {NoFile}]
        /\ FirstVersion(s).status = "COMPLETED" =>
             FirstVersion(s).hash \in Files /\ Size[FirstVersion(s).hash] = FirstVersion(s).size
    <2>1. Size[s.file] \in Nat
      BY <1>1, ResumesAssumption
    <2> QED
      BY <1>1, <2>1 DEF FirstVersion, Pending
  <1>4. NoVersion \in [status : {"NONE"}, size : Nat, hash : Files \cup {NoFile}] /\ NoVersion.status = "NONE"
    BY DEF NoVersion
  <1>5. v \in Versions
    BY <1>1, InputsAssumption DEF Versions
  <1>6. ResumesTypeOK
    BY <1>1, <1>2, <1>3, <1>4 DEF ResumesTypeOK
  <1>7. \A r \in Resumes : resume[r].key # NoKey <=> s.applied /\ r = TheResume
    BY <1>1, <1>2, ResumesAssumption
  <1>8. \A u \in Versions : VersionAgrees(u)
    <2>1. v[1] = TheResume /\ \A u \in Versions : u[1] \in Resumes
      BY DEF Versions
    <2> QED
      BY <1>2, <1>3, <1>4, <1>7, <2>1 DEF VersionAgrees, Registered
  <1>9. \A r \in Resumes : Registered(r) => Detail(r) # "NONE"
    BY <1>2, <1>3, <1>5, <1>7 DEF Registered, Detail, Current
  <1> QED
    BY <1>2, <1>6, <1>7, <1>8, <1>9 DEF ResumesInv, WritersAgree, Active, Registered

-----------------------------------------------------------------------------
(* Evaluations. *)

RedactedTexts == {Redacted[f] : f \in Files}

RequestStates ==
  {Idle}
    \cup [at : {"resume"}, snapshot : Snapshots \cup {NoInput}, version : {NoInput}]
    \cup [at : {"version"}, snapshot : Snapshots \cup {NoInput}, version : Versions]
    \cup [at : {"redact"}, snapshot : Snapshots \cup {NoInput}, version : Versions, file : Files]
    \cup [at : {"prepare"}, snapshot : Snapshots, version : Versions, file : Files, text : RedactedTexts]

(* Unless a completed version was reset, version v has file f. *)
Keeps(v, f) == thrown = {} => content[v].status = "COMPLETED" /\ content[v].hash = f

(* What a request may have read. *)
RequestAgrees(e) ==
  /\ e.at \in {"redact", "prepare"} => Keeps(e.version, e.file)
  /\ e.at = "prepare" /\ thrown = {} => e.text = Redacted[e.file]

(* EvidenceIsQuoted for one result. *)
Quoted(skills, text, result) ==
  LET criteria == result.criteria
  IN  /\ {criteria[n].criterion : n \in DOMAIN criteria} = skills
      /\ Len(criteria) = Cardinality(skills)
      /\ \A n \in DOMAIN criteria :
           /\ criteria[n].points \in 0..Weight(skills)
           /\ criteria[n].verdict = "MISSING" <=> criteria[n].points = 0
           /\ \A ref \in criteria[n].refs : Slice(text, ref.start, ref.end) = ref.snippet
      /\ LET points == 2 * Points(criteria)
             score == 2 * result.score
         IN  (score - 1) * Parts <= points /\ points < (score + 1) * Parts
      /\ result.score \in 0..100

(* What row e of input i may be. *)
RowAgrees(i, e) ==
  /\ e = [status |-> e.status, snapshot |-> e.snapshot, version |-> e.version, text |-> e.text, result |-> e.result]
  /\ e.status \in {"PENDING", "PROCESSING", "COMPLETED", "FAILED"}
  /\ e.snapshot \in {NoInput, i.snapshot} /\ e.version \in Versions \cup {NoInput}
  /\ e.snapshot = NoInput <=> e.version = NoInput
  /\ e.text \in RedactedTexts \cup {NoInput}
  /\ e.status \in {"PROCESSING", "COMPLETED"} => e.text # NoInput
  /\ e.status = "COMPLETED" <=> e.result # NoResult
  /\ thrown = {} /\ e.text # NoInput => e.text = Redacted[i.file]
  /\ e.version # NoInput => Keeps(e.version, i.file)
  /\ e.status = "COMPLETED" /\ i.snapshot.skills # {} => Quoted(i.snapshot.skills, e.text, e.result)

RowsAgree == \A i \in DOMAIN row : i \in Inputs /\ RowAgrees(i, row[i])

(* What an execution was given is what its row has. *)
WorkerAgrees(w) ==
  worker[w] # Idle =>
    LET i == worker[w].input
    IN  /\ i \in DOMAIN row
        /\ worker[w].skills = i.snapshot.skills
        /\ worker[w].text = row[i].text /\ row[i].text # NoInput

(* A reader's result is the one of a completed row. *)
Shown(i, result) == i \in DOMAIN row /\ row[i].status = "COMPLETED" /\ result = row[i].result

ReadersAgree ==
  /\ \A i \in DOMAIN cache : Shown(i, cache[i])
  /\ \A u \in Viewers : viewer[u] # Idle => Shown(viewer[u].input, viewer[u].result)

EvaluationsInv ==
  /\ scenario \in Scenarios /\ over \in BOOLEAN
  /\ applied.snapshot \in Snapshots \cup {NoInput} /\ applied.version \in Versions \cup {NoInput}
  /\ request \in [Requests -> RequestStates] /\ (\A q \in Requests : RequestAgrees(request[q]))
  /\ RowsAgree
  /\ DOMAIN worker = Workers /\ (\A w \in Workers : WorkerAgrees(w))
  /\ DOMAIN viewer = Viewers /\ ReadersAgree

-----------------------------------------------------------------------------
(* The evidence of a result. *)

LEMMA Division ==
  ASSUME NEW a \in Nat, NEW b \in Nat \ {0}
  PROVE  a \div b \in Nat /\ b * (a \div b) <= a /\ a < b * (a \div b) + b
  OBVIOUS

LEMMA WeightIsNatural ==
  ASSUME NEW skills, Cardinality(skills) \in Nat \ {0}
  PROVE  Weight(skills) \in Nat
  <1>1. Hundred \in Nat
    BY InputsAssumption DEF Hundred
  <1> QED
    BY <1>1, Division DEF Weight

(* Math.round: the nearest whole number, halves go up. *)
LEMMA HalvesGoUp ==
  ASSUME NEW p \in Nat, p <= Hundred, NEW score, score = (2 * p + Parts) \div (2 * Parts)
  PROVE  /\ score \in 0..100
         /\ (2 * score - 1) * Parts <= 2 * p /\ 2 * p < (2 * score + 1) * Parts
  <1>1. Parts \in Nat \ {0} /\ p <= 100 * Parts
    BY InputsAssumption DEF Hundred
  <1>2. score \in Nat /\ 2 * Parts * score <= 2 * p + Parts /\ 2 * p + Parts < 2 * Parts * score + 2 * Parts
    <2> DEFINE a == 2 * p + Parts
               b == 2 * Parts
    <2>1. a \in Nat /\ b \in Nat \ {0}
      BY <1>1
    <2> HIDE DEF a, b
    <2>2. a \div b \in Nat /\ b * (a \div b) <= a /\ a < b * (a \div b) + b
      BY <2>1, Division
    <2> QED
      BY <2>2 DEF a, b
  <1> DEFINE rounded == Parts * score
  <1>3. 2 * Parts * score = 2 * rounded /\ rounded \in Nat
    BY <1>1, <1>2
  <1>4. (2 * score - 1) * Parts = 2 * rounded - Parts /\ (2 * score + 1) * Parts = 2 * rounded + Parts
    BY <1>1, <1>2
  <1>5. score <= 100
    <2> SUFFICES ASSUME score >= 101 PROVE FALSE
      BY <1>2
    <2>1. rounded >= 101 * Parts
      BY <1>1, <1>2
    <2> HIDE DEF rounded
    <2> QED
      BY <1>1, <1>2, <1>3, <2>1
  <1> HIDE DEF rounded
  <1>6. 2 * rounded <= 2 * p + Parts /\ 2 * p + Parts < 2 * rounded + 2 * Parts
    BY <1>2, <1>3
  <1> QED
    BY <1>1, <1>2, <1>3, <1>4, <1>5, <1>6

(* The points of valid contributions are finitely many. *)
LEMMA PointsAreNatural ==
  ASSUME NEW n \in Nat, NEW answer, DOMAIN answer = 1..n, NEW most \in Nat,
         \A i \in 1..n : answer[i].points \in 0..most
  PROVE  Points(answer) \in Nat
  <1> DEFINE units == UNION {{i} \X (1..answer[i].points) : i \in DOMAIN answer}
  <1>1. units \subseteq (1..n) \X (1..most)
    OBVIOUS
  <1>2. IsFiniteSet((1..n) \X (1..most))
    <2>1. IsFiniteSet(1..n) /\ IsFiniteSet(1..most)
      BY FS_Interval
    <2> QED
      BY <2>1, FS_Product
  <1> HIDE DEF units
  <1>3. IsFiniteSet(units)
    BY <1>1, <1>2, FS_Subset
  <1>4. Cardinality(units) \in Nat
    BY <1>3, FS_CardinalityType
  <1> QED
    BY <1>4 DEF Points, units

(* A validated answer and its score show what EvidenceIsQuoted asks for:   *)
(* as many criteria as skills, all different, are all the skills.          *)
LEMMA ValidatedIsQuoted ==
  ASSUME NEW skills \in SUBSET Skills, NEW text, NEW S, NEW answer,
         answer \in Seq(S), Validated(skills, text, answer)
  PROVE  Quoted(skills, text, [score |-> OverallScore(answer), criteria |-> answer])
  <1> DEFINE m == Cardinality(skills)
  <1>1. IsFiniteSet(skills) /\ m \in Nat /\ m # 0 /\ Len(answer) = m /\ DOMAIN answer = 1..m
    <2>1. IsFiniteSet(skills) /\ skills # {}
      BY InputsAssumption, FS_Subset DEF Validated
    <2>2. m \in Nat /\ m # 0
      BY <2>1, FS_CardinalityType, FS_EmptySet
    <2>3. Len(answer) = m
      BY DEF Validated
    <2> QED
      BY <2>1, <2>2, <2>3
  <1>2. \A i \in 1..m : ValidResult(skills, text, answer[i])
    BY <1>1 DEF Validated
  <1>3. \A i, k \in 1..m : answer[i].criterion = answer[k].criterion => i = k
    BY <1>1 DEF Validated
  <1> DEFINE name == [i \in 1..m |-> answer[i].criterion]
  <1> HIDE DEF m
  <1>4. name \in Injection(1..m, skills)
    BY <1>2, <1>3 DEF Injection, IsInjective, ValidResult
  <1>5. IsFiniteSet(1..m) /\ Cardinality(1..m) = m
    BY <1>1, FS_Interval
  <1>6. name \in Surjection(1..m, skills)
    BY <1>1, <1>4, <1>5, FS_Injection DEF m
  <1>7. {answer[i].criterion : i \in 1..m} = skills
    <2>1. \A skill \in skills : \E i \in 1..m : name[i] = skill
      BY <1>6 DEF Surjection
    <2>2. \A i \in 1..m : answer[i].criterion \in skills
      BY <1>2 DEF ValidResult
    <2> QED
      BY <2>1, <2>2
  <1>8. Weight(skills) \in Nat
    BY <1>1, WeightIsNatural DEF m
  <1>9. \A i \in 1..m : answer[i].points \in 0..Weight(skills)
    BY <1>2 DEF ValidResult
  <1>10. Points(answer) \in Nat /\ Points(answer) <= Hundred
    BY <1>1, <1>8, <1>9, PointsAreNatural DEF Validated
  <1>11. /\ OverallScore(answer) \in 0..100
         /\ (2 * OverallScore(answer) - 1) * Parts <= 2 * Points(answer)
         /\ 2 * Points(answer) < (2 * OverallScore(answer) + 1) * Parts
    BY <1>10, HalvesGoUp DEF OverallScore
  <1>12. ASSUME NEW i \in 1..m
         PROVE  /\ answer[i].verdict = "MISSING" <=> answer[i].points = 0
                /\ \A ref \in answer[i].refs : Slice(text, ref.start, ref.end) = ref.snippet
    <2>1. ValidResult(skills, text, answer[i]) /\ answer[i].points \in 0..Weight(skills)
      BY <1>2, <1>9
    <2>2. answer[i].verdict = "MISSING" <=> answer[i].points = 0
      BY <1>8, <2>1 DEF ValidResult
    <2> QED
      BY <2>1, <2>2 DEF ValidResult, Quotes
  <1> QED
    BY <1>1, <1>7, <1>9, <1>11, <1>12 DEF Quoted, m

LEMMA ScoredIsResult ==
  ASSUME NEW result, result.score \in 0..100
  PROVE  result # NoResult
  <1>1. NoResult.score = -1
    BY DEF NoResult
  <1> QED
    BY <1>1

(* What an execution may write. *)
LEMMA ResultsAreQuoted ==
  ASSUME NEW skills \in SUBSET Skills, NEW text, NEW result \in Results(skills, text)
  PROVE  result # NoResult /\ (skills # {} => Quoted(skills, text, result))
  <1>1. CASE skills = {}
    BY <1>1, ScoredIsResult DEF Results, V1Result
  <1>2. CASE skills # {}
    <2>1. PICK raw \in Answers :
            /\ Validated(skills, text, Resolve(text, raw))
            /\ result = [score |-> OverallScore(Resolve(text, raw)), criteria |-> Resolve(text, raw)]
      BY <1>2 DEF Results, LiveAnswers
    <2> DEFINE answer == Resolve(text, raw)
               S == {answer[i] : i \in DOMAIN raw}
    <2>2. answer \in Seq(S)
      <3>1. raw \in Seq({raw[i] : i \in DOMAIN raw})
        BY InputsAssumption
      <3>2. Len(raw) \in Nat /\ DOMAIN raw = 1..Len(raw)
        BY <3>1
      <3>3. answer \in [1..Len(raw) -> S]
        BY <3>2 DEF Resolve
      <3> HIDE DEF answer, S
      <3> QED
        BY <3>2, <3>3
    <2> HIDE DEF S, answer
    <2>3. Quoted(skills, text, [score |-> OverallScore(answer), criteria |-> answer])
      BY <2>1, <2>2, ValidatedIsQuoted DEF answer
    <2>4. Quoted(skills, text, result)
      BY <2>1, <2>3 DEF answer
    <2>5. result.score \in 0..100
      BY <2>4 DEF Quoted
    <2> QED
      BY <2>4, <2>5, ScoredIsResult
  <1> QED
    BY <1>1, <1>2

(* The sample of a demo workspace. *)
LEMMA SampleIsQuoted ==
  ASSUME NEW s \in Scenarios, s.demo
  PROVE  SampleRow(s).result # NoResult /\ Quoted(s.skills, Redacted[s.file], SampleRow(s).result)
  <1> DEFINE n == Cardinality(s.skills)
             one == [1..n -> s.skills]
             order == CHOOSE f \in one : \A i, k \in DOMAIN f : f[i] = f[k] => i = k
             answer == SampleAnswer(s)
             S == {answer[i] : i \in 1..n}
  <1>1. s.skills \in SUBSET Skills /\ Validated(s.skills, Redacted[s.file], answer)
    BY ScenariosAssumption
  <1>2. IsFiniteSet(s.skills) /\ n \in Nat
    BY <1>1, InputsAssumption, FS_Subset, FS_CardinalityType
  <1>3. order \in one
    <2>1. ExistsBijection(1..n, s.skills)
      BY <1>2, FS_CardinalityType
    <2>2. \E f \in one : \A i, k \in DOMAIN f : f[i] = f[k] => i = k
      BY <2>1 DEF ExistsBijection, Bijection, Injection, IsInjective
    <2> HIDE DEF one
    <2> QED
      BY <2>2
  <1>4. answer = [i \in DOMAIN order |-> SampleResult(s.skills, Redacted[s.file], order[i])]
    BY DEF SampleAnswer
  <1> HIDE DEF order, answer
  <1>5. answer \in [1..n -> S]
    BY <1>3, <1>4
  <1> HIDE DEF S, n
  <1>6. answer \in Seq(S)
    BY <1>2, <1>5
  <1>7. Quoted(s.skills, Redacted[s.file], [score |-> OverallScore(answer), criteria |-> answer])
    BY <1>1, <1>6, ValidatedIsQuoted
  <1>8. SampleRow(s).result = [score |-> OverallScore(answer), criteria |-> answer]
    BY DEF SampleRow, answer
  <1>9. SampleRow(s).result.score \in 0..100
    BY <1>7, <1>8 DEF Quoted
  <1> QED
    BY <1>7, <1>8, <1>9, ScoredIsResult

-----------------------------------------------------------------------------
(* The steps of the evaluations. *)

(* Rows are never dropped; a text and a completed row never change. *)
RowsGrow ==
  /\ DOMAIN row \subseteq DOMAIN row'
  /\ \A k \in DOMAIN row :
       /\ row[k].text # NoInput => row'[k].text = row[k].text
       /\ row[k].status = "COMPLETED" => row'[k] = row[k]

LEMMA RowBecomes ==
  ASSUME RowsAgree, NEW i \in Inputs, NEW e, RowAgrees(i, e),
         DOMAIN row' = DOMAIN row \cup {i}, row'[i] = e,
         \A k \in DOMAIN row : k # i => row'[k] = row[k],
         i \in DOMAIN row /\ row[i].text # NoInput => e.text = row[i].text,
         i \in DOMAIN row /\ row[i].status = "COMPLETED" => e = row[i],
         UNCHANGED <<content, thrown>>
  PROVE  RowsAgree' /\ RowsGrow
  <1>1. ASSUME NEW k \in DOMAIN row'
        PROVE  k \in Inputs /\ RowAgrees(k, row'[k])
    BY <1>1 DEF RowsAgree
  <1>2. ASSUME NEW k \in DOMAIN row'
        PROVE  RowAgrees(k, row[k])'
    BY <1>1, <1>2 DEF RowAgrees, Keeps
  <1> QED
    BY <1>1, <1>2 DEF RowsAgree, RowsGrow

(* An input of a row that is there. *)
LEMMA RowReplaced ==
  ASSUME RowsAgree, NEW i \in DOMAIN row, NEW e, RowAgrees(i, e), row' = [row EXCEPT ![i] = e],
         row[i].text # NoInput => e.text = row[i].text, row[i].status # "COMPLETED",
         UNCHANGED <<content, thrown>>
  PROVE  RowsAgree' /\ RowsGrow
  <1>1. i \in Inputs
    BY DEF RowsAgree
  <1>2. DOMAIN row' = DOMAIN row \cup {i} /\ row'[i] = e /\ \A k \in DOMAIN row : k # i => row'[k] = row[k]
    OBVIOUS
  <1> QED
    BY <1>1, <1>2, RowBecomes

LEMMA RowsUnchanged ==
  ASSUME RowsAgree, UNCHANGED <<row, content, thrown>>
  PROVE  RowsAgree' /\ RowsGrow
  BY DEF RowsAgree, RowsGrow, RowAgrees, Keeps

LEMMA WorkersFollow ==
  ASSUME EvaluationsInv, RowsGrow, NEW w \in Workers, worker'[w] \in {worker[w], Idle}
  PROVE  WorkerAgrees(w)'
  <1>1. CASE worker'[w] = Idle
    BY <1>1 DEF WorkerAgrees
  <1>2. CASE worker'[w] = worker[w] /\ worker[w] # Idle
    BY <1>2 DEF EvaluationsInv, WorkerAgrees, RowsGrow
  <1> QED
    BY <1>1, <1>2

LEMMA ReadersFollow ==
  ASSUME EvaluationsInv, RowsGrow, UNCHANGED <<cache, viewer>>
  PROVE  ReadersAgree'
  BY DEF EvaluationsInv, ReadersAgree, Shown, RowsGrow

(* The columns the steps write. *)
LEMMA StatusOnly ==
  ASSUME NEW i, NEW e, RowAgrees(i, e), NEW status
  PROVE  [e EXCEPT !.status = status] =
           [status |-> status, snapshot |-> e.snapshot, version |-> e.version, text |-> e.text, result |-> e.result]
  <1>1. e = [status |-> e.status, snapshot |-> e.snapshot, version |-> e.version, text |-> e.text, result |-> e.result]
    BY DEF RowAgrees
  <1> DEFINE a == e.status
             b == e.snapshot
             c == e.version
             d == e.text
             f == e.result
  <1>2. e = [status |-> a, snapshot |-> b, version |-> c, text |-> d, result |-> f]
    BY <1>1
  <1> HIDE DEF a, b, c, d, f
  <1>3. [e EXCEPT !.status = status] = [status |-> status, snapshot |-> b, version |-> c, text |-> d, result |-> f]
    BY <1>2
  <1> QED
    BY <1>3 DEF a, b, c, d, f

LEMMA StatusAndResult ==
  ASSUME NEW i, NEW e, RowAgrees(i, e), NEW status, NEW result
  PROVE  [e EXCEPT !.status = status, !.result = result] =
           [status |-> status, snapshot |-> e.snapshot, version |-> e.version, text |-> e.text, result |-> result]
  <1>1. e = [status |-> e.status, snapshot |-> e.snapshot, version |-> e.version, text |-> e.text, result |-> e.result]
    BY DEF RowAgrees
  <1> DEFINE a == e.status
             b == e.snapshot
             c == e.version
             d == e.text
             f == e.result
  <1>2. e = [status |-> a, snapshot |-> b, version |-> c, text |-> d, result |-> f]
    BY <1>1
  <1> HIDE DEF a, b, c, d, f
  <1> DEFINE e1 == [e EXCEPT !.status = status]
  <1>3. e1 = [status |-> status, snapshot |-> b, version |-> c, text |-> d, result |-> f]
    BY <1>2
  <1>4. [e EXCEPT !.status = status, !.result = result] = [e1 EXCEPT !.result = result]
    OBVIOUS
  <1> HIDE DEF e1
  <1>5. [e1 EXCEPT !.result = result] =
          [status |-> status, snapshot |-> b, version |-> c, text |-> d, result |-> result]
    BY <1>3
  <1> QED
    BY <1>4, <1>5 DEF a, b, c, d, f

LEMMA StatusAndText ==
  ASSUME NEW i, NEW e, RowAgrees(i, e), NEW status, NEW text
  PROVE  [e EXCEPT !.status = status, !.text = text] =
           [status |-> status, snapshot |-> e.snapshot, version |-> e.version, text |-> text, result |-> e.result]
  <1>1. e = [status |-> e.status, snapshot |-> e.snapshot, version |-> e.version, text |-> e.text, result |-> e.result]
    BY DEF RowAgrees
  <1> DEFINE a == e.status
             b == e.snapshot
             c == e.version
             d == e.text
             f == e.result
  <1>2. e = [status |-> a, snapshot |-> b, version |-> c, text |-> d, result |-> f]
    BY <1>1
  <1> HIDE DEF a, b, c, d, f
  <1> DEFINE e1 == [e EXCEPT !.status = status]
  <1>3. e1 = [status |-> status, snapshot |-> b, version |-> c, text |-> d, result |-> f]
    BY <1>2
  <1>4. [e EXCEPT !.status = status, !.text = text] = [e1 EXCEPT !.text = text]
    OBVIOUS
  <1> HIDE DEF e1
  <1>5. [e1 EXCEPT !.text = text] =
          [status |-> status, snapshot |-> b, version |-> c, text |-> text, result |-> f]
    BY <1>3
  <1> QED
    BY <1>4, <1>5 DEF a, b, c, d, f

(* A request proceeds or ends and nothing else changes. *)
LEMMA RequestBecomes ==
  ASSUME EvaluationsInv, NEW q \in Requests, NEW e \in RequestStates, RequestAgrees(e),
         request' = [request EXCEPT ![q] = e],
         UNCHANGED <<scenario, over, applied, row, worker, cache, viewer, content, thrown>>
  PROVE  EvaluationsInv'
  <1>1. request' \in [Requests -> RequestStates]
    BY DEF EvaluationsInv
  <1>2. \A p \in Requests : RequestAgrees(request'[p])
    BY DEF EvaluationsInv
  <1>3. \A p \in Requests : RequestAgrees(request[p])'
    BY <1>2 DEF RequestAgrees, Keeps
  <1>4. RowsAgree' /\ RowsGrow
    BY RowsUnchanged DEF EvaluationsInv
  <1>5. \A w \in Workers : WorkerAgrees(w)'
    BY <1>4, WorkersFollow
  <1>6. ReadersAgree'
    BY <1>4, ReadersFollow
  <1> QED
    BY <1>1, <1>3, <1>4, <1>5, <1>6 DEF EvaluationsInv

LEMMA RequestStepKeeps ==
  ASSUME EvaluationsInv, ResumesInv, PostingsInv, NEW q \in Requests, UNCHANGED <<scenario, content, thrown>>,
         Evaluate(q) \/ ReadPosting(q) \/ ReadResume(q) \/ ReadVersion(q) \/ RedactResume(q) \/ RequestFails(q)
  PROVE  EvaluationsInv'
  <1>1. request[q] \in RequestStates /\ RequestAgrees(request[q])
    BY DEF EvaluationsInv
  <1>2. UNCHANGED <<scenario, over, applied, row, worker, cache, viewer, content, thrown>>
    BY DEF Evaluate, ReadPosting, ReadResume, ReadVersion, RedactResume, RequestFails
  <1>3. CASE Evaluate(q)
    <2> DEFINE e == [at |-> "resume", snapshot |-> NoInput, version |-> NoInput]
    <2>1. request' = [request EXCEPT ![q] = e]
      BY <1>3 DEF Evaluate
    <2>2. e \in RequestStates /\ RequestAgrees(e)
      BY DEF RequestStates, RequestAgrees
    <2> HIDE DEF e
    <2> QED
      BY <1>2, <2>1, <2>2, RequestBecomes
  <1>4. CASE ReadPosting(q)
    <2> DEFINE x == [text |-> job[TheJob].text, skills |-> job[TheJob].skills]
               e == [request[q] EXCEPT !.snapshot = x]
    <2>1. request' = [request EXCEPT ![q] = e] /\ request[q] # Idle /\ request[q].snapshot = NoInput
      BY <1>4 DEF ReadPosting
    <2>2. x \in Snapshots
      <3>1. job[TheJob] \in Rows
        BY <1>4, InputsAssumption DEF ReadPosting, Posted, PostingsInv, PostingsTypeOK
      <3> QED
        BY <3>1 DEF Rows, Snapshots
    <2> HIDE DEF x
    <2>3. request[q].at # "prepare"
      BY <1>1, <2>1, InputsAssumption DEF RequestStates, Idle
    <2>4. e \in RequestStates
      BY <1>1, <2>1, <2>2, <2>3 DEF RequestStates, Idle
    <2>5. RequestAgrees(e)
      BY <1>1, <2>1, <2>3 DEF RequestStates, RequestAgrees, Idle
    <2> HIDE DEF e
    <2> QED
      BY <1>2, <2>1, <2>4, <2>5, RequestBecomes
  <1>5. CASE ReadResume(q)
    <2> DEFINE v == Current(TheResume)
               e == [request[q] EXCEPT !.at = "version", !.version = v]
    <2>1. request' = [request EXCEPT ![q] = e] /\ request[q].at = "resume"
      BY <1>5 DEF ReadResume
    <2>2. v \in Versions
      <3>1. Registered(TheResume)
        BY <1>5, InputsAssumption DEF ReadResume, ResumesInv
      <3> QED
        BY <3>1, InputsAssumption DEF Current, Registered, Versions, ResumesInv, ResumesTypeOK
    <2> HIDE DEF v
    <2>3. e \in RequestStates /\ e.at = "version"
      <3>1. request[q] \in [at : {"resume"}, snapshot : Snapshots \cup {NoInput}, version : {NoInput}]
        BY <1>1, <2>1 DEF RequestStates, Idle
      <3>2. e \in [at : {"version"}, snapshot : Snapshots \cup {NoInput}, version : Versions]
        BY <2>2, <3>1
      <3> QED
        BY <3>2 DEF RequestStates
    <2>4. RequestAgrees(e)
      BY <2>3 DEF RequestAgrees
    <2> HIDE DEF e
    <2> QED
      BY <1>2, <2>1, <2>3, <2>4, RequestBecomes
  <1>6. CASE ReadVersion(q)
    <2> DEFINE v == request[q].version
               f == content[v].hash
               e == [at |-> "redact", version |-> v, snapshot |-> request[q].snapshot, file |-> f]
    <2>1. request' = [request EXCEPT ![q] = e] /\ request[q].at = "version" /\ content[v].status = "COMPLETED"
      BY <1>6 DEF ReadVersion
    <2>2. v \in Versions /\ request[q].snapshot \in Snapshots \cup {NoInput}
      BY <1>1, <2>1 DEF RequestStates, Idle
    <2>3. f \in Files
      BY <2>1, <2>2 DEF ResumesInv, VersionAgrees
    <2>4. RequestAgrees(e)
      BY <2>1 DEF RequestAgrees, Keeps
    <2> HIDE DEF f, v
    <2>5. e \in RequestStates
      BY <2>2, <2>3 DEF RequestStates
    <2> HIDE DEF e
    <2> QED
      BY <1>2, <2>1, <2>4, <2>5, RequestBecomes
  <1>7. CASE RedactResume(q)
    <2> DEFINE v == request[q].version
               f == content[v].hash
               e == [at |-> "prepare", version |-> v, snapshot |-> request[q].snapshot,
                     file |-> request[q].file, text |-> Redacted[f]]
    <2>1. /\ request' = [request EXCEPT ![q] = e] /\ request[q].at = "redact" /\ request[q].snapshot # NoInput
          /\ content[v].status = "COMPLETED"
      BY <1>7 DEF RedactResume
    <2>2. v \in Versions /\ request[q].snapshot \in Snapshots /\ request[q].file \in Files
      BY <1>1, <2>1 DEF RequestStates, Idle
    <2>3. f \in Files
      BY <2>1, <2>2 DEF ResumesInv, VersionAgrees
    <2>4. RequestAgrees(e)
      BY <1>1, <2>1 DEF RequestAgrees, Keeps
    <2> HIDE DEF f, v
    <2>5. e \in RequestStates
      BY <2>2, <2>3 DEF RequestStates, RedactedTexts
    <2> HIDE DEF e
    <2> QED
      BY <1>2, <2>1, <2>4, <2>5, RequestBecomes
  <1>8. CASE RequestFails(q)
    <2>1. request' = [request EXCEPT ![q] = Idle]
      BY <1>8 DEF RequestFails, Answered
    <2>2. Idle \in RequestStates /\ RequestAgrees(Idle)
      BY DEF RequestStates, RequestAgrees, Idle
    <2> QED
      BY <1>2, <2>1, <2>2, RequestBecomes
  <1> QED
    BY <1>3, <1>4, <1>5, <1>6, <1>7, <1>8

(* The row of a request that was prepared. *)
LEMMA PrepareKeeps ==
  ASSUME EvaluationsInv, NEW q \in Requests, UNCHANGED <<scenario, content, thrown>>, Prepare(q)
  PROVE  EvaluationsInv'
  <1> DEFINE r == request[q]
             i == RequestInput(q)
             n == [status |-> "PENDING", snapshot |-> r.snapshot, version |-> r.version,
                   text |-> r.text, result |-> NoResult]
  <1>1. /\ r.at = "prepare" /\ applied' = [snapshot |-> r.snapshot, version |-> r.version]
        /\ row' = Upsert(i, n) /\ request' = [request EXCEPT ![q] = Idle]
        /\ UNCHANGED <<over, worker, cache, viewer>>
    BY DEF Prepare, Answered
  <1>2. /\ r.snapshot \in Snapshots /\ r.version \in Versions /\ r.file \in Files /\ r.text \in RedactedTexts
        /\ RequestAgrees(r)
    BY <1>1 DEF EvaluationsInv, RequestStates, Idle
  <1>3. i \in Inputs /\ i.snapshot = r.snapshot /\ i.file = r.file
    BY <1>2 DEF RequestInput, Inputs
  <1>4. RowAgrees(i, n)
    <2>1. r.snapshot # NoInput /\ r.version # NoInput
      BY <1>2, InputsAssumption
    <2>2. Keeps(r.version, i.file) /\ (thrown = {} => r.text = Redacted[i.file])
      BY <1>1, <1>2, <1>3 DEF RequestAgrees
    <2> QED
      BY <1>2, <1>3, <2>1, <2>2 DEF RowAgrees
  <1> HIDE DEF r, i, n
  <1>5. RowsAgree' /\ RowsGrow
    <2>1. RowsAgree
      BY DEF EvaluationsInv
    <2>2. CASE i \notin DOMAIN row
      <3>1. row' = [k \in DOMAIN row \cup {i} |-> IF k = i THEN n ELSE row[k]]
        BY <1>1, <2>2 DEF Upsert, Insert
      <3> QED
        BY <1>3, <1>4, <2>1, <2>2, <3>1, RowBecomes
    <2>3. CASE i \in DOMAIN row /\ row[i].status = "FAILED"
      <3> DEFINE e == [row[i] EXCEPT !.status = "PENDING", !.result = NoResult]
      <3>1. row' = [row EXCEPT ![i] = e]
        BY <1>1, <2>3 DEF Upsert
      <3>2. RowAgrees(i, row[i])
        BY <2>1, <2>3 DEF RowsAgree
      <3>3. e = [status |-> "PENDING", snapshot |-> row[i].snapshot, version |-> row[i].version,
                 text |-> row[i].text, result |-> NoResult]
        BY <3>2, StatusAndResult
      <3> HIDE DEF e
      <3>4. RowAgrees(i, e) /\ e.text = row[i].text
        BY <3>2, <3>3 DEF RowAgrees
      <3> QED
        BY <1>1, <2>1, <2>3, <3>1, <3>4, RowReplaced
    <2>4. CASE row' = row
      BY <2>1, <2>4, RowsUnchanged
    <2> QED
      BY <1>1, <2>2, <2>3, <2>4 DEF Upsert
  <1>6. request' \in [Requests -> RequestStates] /\ \A p \in Requests : request'[p] \in {Idle, request[p]}
    BY <1>1 DEF EvaluationsInv, RequestStates
  <1>7. \A p \in Requests : RequestAgrees(request[p])'
    <2>1. RequestAgrees(Idle) /\ \A p \in Requests : RequestAgrees(request[p])
      BY DEF RequestAgrees, Idle, EvaluationsInv
    <2>2. \A p \in Requests : RequestAgrees(request'[p])
      BY <1>6, <2>1
    <2> QED
      BY <2>2 DEF RequestAgrees, Keeps
  <1>8. \A w \in Workers : WorkerAgrees(w)'
    BY <1>1, <1>5, WorkersFollow
  <1>9. ReadersAgree'
    BY <1>1, <1>5, ReadersFollow
  <1>10. applied'.snapshot \in Snapshots \cup {NoInput} /\ applied'.version \in Versions \cup {NoInput}
    BY <1>1, <1>2
  <1> QED
    BY <1>1, <1>5, <1>6, <1>7, <1>8, <1>9, <1>10 DEF EvaluationsInv

(* A row that may be claimed is marked pending or failed. *)
LEMMA HandleFailureKeeps ==
  ASSUME RowsAgree, NEW i \in DOMAIN row, HandleFailure(i), UNCHANGED <<content, thrown>>
  PROVE  RowsAgree' /\ RowsGrow
  <1>1. PICK status \in {"PENDING", "FAILED"} : row' = [row EXCEPT ![i].status = status]
    BY DEF HandleFailure
  <1>2. RowAgrees(i, row[i]) /\ row[i].status \in {"PENDING", "PROCESSING"}
    BY DEF HandleFailure, Claimable, RowsAgree
  <1> DEFINE e == [row[i] EXCEPT !.status = status]
  <1>3. row' = [row EXCEPT ![i] = e]
    BY <1>1
  <1>4. e = [status |-> status, snapshot |-> row[i].snapshot, version |-> row[i].version,
             text |-> row[i].text, result |-> row[i].result]
    BY <1>2, StatusOnly
  <1> HIDE DEF e
  <1>5. RowAgrees(i, e) /\ e.text = row[i].text
    <2>1. row[i].result = NoResult
      BY <1>2 DEF RowAgrees
    <2> QED
      BY <1>2, <1>4, <2>1 DEF RowAgrees
  <1> QED
    BY <1>2, <1>3, <1>5, RowReplaced

LEMMA ClaimKeeps ==
  ASSUME EvaluationsInv, ResumesInv, NEW w \in Workers, NEW i \in DOMAIN row,
         UNCHANGED <<scenario, content, thrown>>, ClaimForProcessing(w, i)
  PROVE  EvaluationsInv'
  <1> DEFINE text == StoredText(i)
             skills == StoredInput(i).snapshot.skills
             e == [row[i] EXCEPT !.status = "PROCESSING", !.text = text]
             work == [input |-> i, skills |-> skills, text |-> text]
  <1>1. /\ row[i].status \in {"PENDING", "PROCESSING"} /\ Intact(i)
        /\ row' = [row EXCEPT ![i] = e]
        /\ worker' = [worker EXCEPT ![w] = work]
        /\ UNCHANGED <<over, applied, request, cache, viewer>>
    BY DEF ClaimForProcessing, Claimable
  <1>2. RowsAgree /\ RowAgrees(i, row[i]) /\ i \in Inputs
    BY DEF EvaluationsInv, RowsAgree
  <1>3. skills = i.snapshot.skills
    BY <1>1 DEF Intact
  <1>4. /\ row[i].text # NoInput => text = row[i].text
        /\ row[i].text = NoInput => text = Redacted[i.file]
    BY <1>1 DEF StoredText, Intact
  <1>5. text \in RedactedTexts /\ text # NoInput /\ (thrown = {} => text = Redacted[i.file])
    <2>1. Redacted[i.file] \in RedactedTexts
      BY <1>2 DEF RedactedTexts, Inputs
    <2>2. \A t \in RedactedTexts : t # NoInput
      BY InputsAssumption DEF RedactedTexts
    <2>3. CASE row[i].text = NoInput
      BY <1>4, <2>1, <2>2, <2>3
    <2>4. CASE row[i].text # NoInput
      BY <1>2, <1>4, <2>2, <2>4 DEF RowAgrees
    <2> QED
      BY <2>3, <2>4
  <1> HIDE DEF text, skills
  <1>6. e = [status |-> "PROCESSING", snapshot |-> row[i].snapshot, version |-> row[i].version,
             text |-> text, result |-> row[i].result]
    BY <1>2, StatusAndText
  <1> HIDE DEF e
  <1>7. RowAgrees(i, e) /\ e.text = text
    <2>1. row[i].result = NoResult
      BY <1>1, <1>2 DEF RowAgrees
    <2> QED
      BY <1>2, <1>5, <1>6, <2>1 DEF RowAgrees
  <1>8. RowsAgree' /\ RowsGrow
    BY <1>1, <1>2, <1>4, <1>7, RowReplaced
  <1>9. \A v \in Workers : WorkerAgrees(v)'
    <2>1. worker'[w] = work /\ DOMAIN worker = Workers
      BY <1>1 DEF EvaluationsInv
    <2>2. work.input = i /\ work.skills = skills /\ work.text = text
      OBVIOUS
    <2> HIDE DEF work
    <2>3. row'[i] = e /\ i \in DOMAIN row'
      BY <1>1
    <2>4. WorkerAgrees(w)'
      BY <1>3, <1>5, <1>7, <2>1, <2>2, <2>3 DEF WorkerAgrees
    <2>5. ASSUME NEW v \in Workers, v # w
          PROVE  WorkerAgrees(v)'
      <3>1. worker'[v] \in {worker[v], Idle}
        BY <1>1, <2>1, <2>5
      <3> QED
        BY <1>8, <3>1, WorkersFollow
    <2> QED
      BY <2>4, <2>5
  <1>10. ReadersAgree'
    BY <1>1, <1>8, ReadersFollow
  <1>11. \A q \in Requests : RequestAgrees(request[q])'
    BY <1>1 DEF EvaluationsInv, RequestAgrees, Keeps
  <1> QED
    BY <1>1, <1>8, <1>9, <1>10, <1>11 DEF EvaluationsInv

(* An execution ends; what it does to the rows is shown elsewhere. *)
LEMMA WorkerEnds ==
  ASSUME EvaluationsInv, NEW w \in Workers, RowsAgree', RowsGrow,
         worker' = worker \/ worker' = [worker EXCEPT ![w] = Idle],
         UNCHANGED <<scenario, over, applied, request, cache, viewer, content, thrown>>
  PROVE  EvaluationsInv'
  <1>1. \A v \in Workers : worker'[v] \in {worker[v], Idle}
    BY DEF EvaluationsInv
  <1>2. \A v \in Workers : WorkerAgrees(v)'
    BY <1>1, WorkersFollow
  <1>3. ReadersAgree'
    BY ReadersFollow
  <1>4. \A q \in Requests : RequestAgrees(request[q])'
    BY DEF EvaluationsInv, RequestAgrees, Keeps
  <1> QED
    BY <1>2, <1>3, <1>4 DEF EvaluationsInv

LEMMA CompleteKeeps ==
  ASSUME EvaluationsInv, NEW w \in Workers, UNCHANGED <<scenario, content, thrown>>, Complete(w)
  PROVE  EvaluationsInv'
  <1> DEFINE i == worker[w].input
  <1>1. /\ worker[w] # Idle /\ worker' = [worker EXCEPT ![w] = Idle]
        /\ UNCHANGED <<over, applied, request, cache, viewer>>
    BY DEF Complete, WorkerIdle
  <1>2. /\ i \in DOMAIN row /\ worker[w].skills = i.snapshot.skills
        /\ worker[w].text = row[i].text /\ row[i].text # NoInput
    BY <1>1 DEF EvaluationsInv, WorkerAgrees
  <1>3. RowsAgree /\ RowAgrees(i, row[i]) /\ i \in Inputs
    BY <1>2 DEF EvaluationsInv, RowsAgree
  <1>4. PICK result \in Results(worker[w].skills, worker[w].text) :
          row' = IF row[i].status = "PROCESSING"
                   THEN [row EXCEPT ![i].status = "COMPLETED", ![i].result = result]
                 ELSE row
    BY DEF Complete
  <1>5. i.snapshot.skills \in SUBSET Skills
    BY <1>3 DEF Inputs, Snapshots
  <1>6. result # NoResult /\ (i.snapshot.skills # {} => Quoted(i.snapshot.skills, row[i].text, result))
    BY <1>2, <1>4, <1>5, ResultsAreQuoted
  <1> HIDE DEF i
  <1>7. RowsAgree' /\ RowsGrow
    <2>1. CASE row[i].status = "PROCESSING"
      <3> DEFINE e == [row[i] EXCEPT !.status = "COMPLETED", !.result = result]
      <3>1. row' = [row EXCEPT ![i] = e]
        BY <1>4, <2>1
      <3>2. e = [status |-> "COMPLETED", snapshot |-> row[i].snapshot, version |-> row[i].version,
                 text |-> row[i].text, result |-> result]
        BY <1>3, StatusAndResult
      <3> HIDE DEF e
      <3>3. RowAgrees(i, e) /\ e.text = row[i].text
        BY <1>2, <1>3, <1>6, <3>2 DEF RowAgrees
      <3> QED
        BY <1>2, <1>3, <2>1, <3>1, <3>3, RowReplaced
    <2>2. CASE row[i].status # "PROCESSING"
      BY <1>3, <1>4, <2>2, RowsUnchanged
    <2> QED
      BY <2>1, <2>2
  <1> QED
    BY <1>1, <1>7, WorkerEnds

LEMMA FailureKeeps ==
  ASSUME EvaluationsInv, NEW w \in Workers, UNCHANGED <<scenario, content, thrown>>,
         EvaluationFails(w) \/ \E i \in DOMAIN row : ClaimFails(w, i)
  PROVE  EvaluationsInv'
  <1>1. /\ worker' = worker \/ worker' = [worker EXCEPT ![w] = Idle]
        /\ UNCHANGED <<over, applied, request, cache, viewer>>
    BY DEF EvaluationFails, ClaimFails, WorkerIdle
  <1>2. UNCHANGED row \/ \E i \in DOMAIN row : HandleFailure(i)
    BY DEF EvaluationFails, ClaimFails, EvaluationsInv, WorkerAgrees
  <1>3. RowsAgree' /\ RowsGrow
    BY <1>2, HandleFailureKeeps, RowsUnchanged DEF EvaluationsInv
  <1> QED
    BY <1>1, <1>3, WorkerEnds

(* The readers change, and the rows do not. *)
LEMMA ReadersBecome ==
  ASSUME EvaluationsInv, over' \in BOOLEAN, DOMAIN viewer' = Viewers, ReadersAgree',
         UNCHANGED <<scenario, applied, row, request, worker, content, thrown>>
  PROVE  EvaluationsInv'
  <1>1. RowsAgree' /\ RowsGrow
    BY RowsUnchanged DEF EvaluationsInv
  <1>2. \A w \in Workers : WorkerAgrees(w)'
    BY <1>1, WorkersFollow
  <1>3. \A q \in Requests : RequestAgrees(request[q])'
    BY DEF EvaluationsInv, RequestAgrees, Keeps
  <1> QED
    BY <1>1, <1>2, <1>3 DEF EvaluationsInv

LEMMA ReadDetailKeeps ==
  ASSUME EvaluationsInv, UNCHANGED <<scenario, content, thrown>>,
         NEW u \in Viewers, NEW i \in DOMAIN row, ReadDetail(u, i)
  PROVE  EvaluationsInv'
  <1> DEFINE v == [input |-> i, result |-> row[i].result]
  <1>1. /\ viewer' = [viewer EXCEPT ![u] = v] /\ row[i].result # NoResult
        /\ UNCHANGED <<over, applied, row, request, worker, cache>>
    BY DEF ReadDetail, ForJobOwner
  <1>2. row[i].status = "COMPLETED"
    BY <1>1 DEF EvaluationsInv, RowsAgree, RowAgrees
  <1>3. v.input = i /\ v.result = row[i].result
    OBVIOUS
  <1> HIDE DEF v
  <1>4. ReadersAgree'
    <2>1. \A k \in Viewers : k # u => viewer'[k] = viewer[k]
      BY <1>1 DEF EvaluationsInv
    <2>2. viewer'[u] = v
      BY <1>1 DEF EvaluationsInv
    <2> QED
      BY <1>1, <1>2, <1>3, <2>1, <2>2 DEF EvaluationsInv, ReadersAgree, Shown
  <1> QED
    BY <1>1, <1>4, ReadersBecome DEF EvaluationsInv

LEMMA CacheDetailKeeps ==
  ASSUME EvaluationsInv, UNCHANGED <<scenario, content, thrown>>, NEW u \in Viewers, CacheDetail(u)
  PROVE  EvaluationsInv'
  <1> DEFINE i == viewer[u].input
             result == viewer[u].result
  <1>1. /\ viewer[u] # Idle /\ viewer' = [viewer EXCEPT ![u] = Idle]
        /\ cache' = Insert(cache, i, result) \/ cache' = cache
        /\ UNCHANGED <<over, applied, row, request, worker>>
    BY DEF CacheDetail, CacheSet
  <1>2. Shown(i, result) /\ \A k \in DOMAIN cache : Shown(k, cache[k])
    BY <1>1 DEF EvaluationsInv, ReadersAgree
  <1> HIDE DEF i, result
  <1>3. \A k \in DOMAIN cache' : Shown(k, cache'[k])
    BY <1>1, <1>2 DEF Insert
  <1>4. ReadersAgree'
    <2>1. \A k \in Viewers : viewer'[k] # Idle => viewer'[k] = viewer[k]
      BY <1>1 DEF EvaluationsInv
    <2> QED
      BY <1>1, <1>3, <2>1 DEF EvaluationsInv, ReadersAgree, Shown
  <1> QED
    BY <1>1, <1>4, ReadersBecome DEF EvaluationsInv

LEMMA EvaluationStepKeeps ==
  ASSUME EvaluationsInv, ResumesInv, PostingsInv, UNCHANGED <<scenario, resumeVars, postingVars>>, EvaluationNext
  PROVE  EvaluationsInv'
  <1>a. UNCHANGED <<scenario, content, thrown>>
    BY DEF resumeVars
  <1>1. CASE \E q \in Requests : Evaluate(q) \/ RequestStep(q)
    BY <1>1, <1>a, RequestStepKeeps, PrepareKeeps DEF RequestStep
  <1>2. CASE \E w \in Workers : \/ Complete(w) \/ EvaluationFails(w)
                                \/ \E i \in DOMAIN row : ClaimForProcessing(w, i) \/ ClaimFails(w, i)
    BY <1>2, <1>a, ClaimKeeps, CompleteKeeps, FailureKeeps
  <1>3. CASE \E u \in Viewers : CacheDetail(u) \/ \E i \in DOMAIN row : ReadDetail(u, i)
    BY <1>3, <1>a, ReadDetailKeeps, CacheDetailKeeps
  <1>4. ASSUME NEW i \in DOMAIN row, CacheExpires(i)
        PROVE  EvaluationsInv'
    <2>1. /\ cache' = [k \in DOMAIN cache \ {i} |-> cache[k]]
          /\ UNCHANGED <<over, applied, row, request, worker, viewer>>
      BY <1>4 DEF CacheExpires
    <2>2. ReadersAgree'
      BY <2>1 DEF EvaluationsInv, ReadersAgree, Shown
    <2> QED
      BY <1>a, <2>1, <2>2, ReadersBecome DEF EvaluationsInv
  <1>5. CASE SessionEnds
    <2>1. over' = TRUE /\ UNCHANGED <<applied, row, request, worker, cache, viewer>>
      BY <1>5 DEF SessionEnds
    <2>2. ReadersAgree'
      BY <2>1 DEF EvaluationsInv, ReadersAgree, Shown
    <2> QED
      BY <1>a, <2>1, <2>2, ReadersBecome DEF EvaluationsInv
  <1> QED
    BY <1>1, <1>2, <1>3, <1>4, <1>5 DEF EvaluationNext

(* A step of the resumes or of the postings leaves every input as it was,  *)
(* as far as it is known to be one.                                        *)
LEMMA EvaluationsFollow ==
  ASSUME EvaluationsInv, CompletedStays, UNCHANGED <<scenario, evaluationVars>>
  PROVE  EvaluationsInv'
  <1>1. UNCHANGED <<over, applied, row, request, worker, cache, viewer>>
    BY DEF evaluationVars
  <1>3. thrown' = {} => thrown = {}
    BY DEF CompletedStays
  <1>4. \A q \in Requests : RequestAgrees(request[q])'
    <2>1. ASSUME NEW q \in Requests
          PROVE  RequestAgrees(request[q])'
      <3>1. request[q] \in RequestStates /\ RequestAgrees(request[q])
        BY DEF EvaluationsInv
      <3>2. request[q].at \in {"redact", "prepare"} => request[q].version \in Versions
        BY <3>1 DEF RequestStates, Idle
      <3>3. request'[q] = request[q]
        BY <1>1
      <3>4. request[q].at \in {"redact", "prepare"} =>
              (Keeps(request[q].version, request[q].file) =>
                 (thrown' = {} => content'[request[q].version].status = "COMPLETED"
                                  /\ content'[request[q].version].hash = request[q].file))
        BY <3>2 DEF CompletedStays, Keeps
      <3> QED
        BY <1>3, <3>1, <3>3, <3>4 DEF RequestAgrees, Keeps
    <2> QED
      BY <2>1
  <1>5. RowsAgree'
    <2>1. ASSUME NEW i \in DOMAIN row
          PROVE  RowAgrees(i, row[i])'
      <3>1. RowAgrees(i, row[i])
        BY DEF EvaluationsInv, RowsAgree
      <3>2. row[i].version # NoInput =>
              (thrown' = {} => content'[row[i].version].status = "COMPLETED"
                               /\ content'[row[i].version].hash = i.file)
        BY <3>1 DEF RowAgrees, Keeps, CompletedStays
      <3> QED
        BY <1>1, <1>3, <3>1, <3>2 DEF RowAgrees, Keeps
    <2> QED
      BY <1>1, <2>1 DEF EvaluationsInv, RowsAgree
  <1>6. \A w \in Workers : WorkerAgrees(w)'
    BY <1>1 DEF EvaluationsInv, WorkerAgrees
  <1>7. ReadersAgree'
    BY <1>1 DEF EvaluationsInv, ReadersAgree, Shown
  <1> QED
    BY <1>1, <1>4, <1>5, <1>6, <1>7 DEF EvaluationsInv

LEMMA EvaluationsStart ==
  ASSUME Init
  PROVE  EvaluationsInv
  <1> SUFFICES ASSUME NEW s \in Scenarios, s = scenario
               PROVE  EvaluationsInv
    BY DEF Init
  <1> DEFINE v == <<TheResume, s.key>>
             shot == [text |-> s.text, skills |-> s.skills]
  <1>1. /\ s.file \in Files /\ shot \in Snapshots /\ v \in Versions /\ v # NoInput /\ shot # NoInput
        /\ Redacted[s.file] \in RedactedTexts /\ Redacted[s.file] # NoInput
    <2>1. s.file \in Files /\ shot \in Snapshots /\ v \in Versions
      BY ScenarioInputs, InputsAssumption DEF Snapshots, Versions
    <2> QED
      BY <2>1, InputsAssumption DEF RedactedTexts
  <1>2. /\ over = FALSE /\ request = [q \in Requests |-> Idle] /\ worker = [w \in Workers |-> Idle]
        /\ cache = <<>> /\ viewer = [u \in Viewers |-> Idle]
        /\ applied = IF s.demo \/ s.legacy THEN [snapshot |-> shot, version |-> v]
                     ELSE [snapshot |-> NoInput, version |-> NoInput]
        /\ row = IF s.demo THEN [i \in {InputOf(s, "SAMPLE")} |-> SampleRow(s)]
                 ELSE IF s.legacy THEN [i \in {InputOf(s, "LIVE")} |-> LegacyRow]
                 ELSE <<>>
        /\ content = [u \in Versions |-> IF s.applied /\ u = v THEN FirstVersion(s) ELSE NoVersion]
    BY DEF Init
  <1>3. \A source \in {"LIVE", "SAMPLE"} :
          /\ InputOf(s, source) \in Inputs /\ InputOf(s, source).snapshot = shot
          /\ InputOf(s, source).file = s.file
    BY <1>1 DEF InputOf, Inputs
  <1>4. ASSUME s.demo
        PROVE  RowAgrees(InputOf(s, "SAMPLE"), SampleRow(s))
    <2>1. Keeps(v, s.file)
      <3>1. s.applied /\ s.extracted
        BY <1>4, ScenarioInputs
      <3>2. content[v] = FirstVersion(s)
        BY <1>1, <1>2, <3>1
      <3> QED
        BY <3>1, <3>2 DEF Keeps, FirstVersion
    <2>2. /\ SampleRow(s).result # NoResult
          /\ Quoted(s.skills, Redacted[s.file], SampleRow(s).result)
      BY <1>4, SampleIsQuoted
    <2> DEFINE result == SampleRow(s).result
    <2>3. SampleRow(s) = [status |-> "COMPLETED", snapshot |-> shot, version |-> v,
                          text |-> Redacted[s.file], result |-> result]
      BY DEF SampleRow
    <2>4. shot.skills = s.skills
      OBVIOUS
    <2> HIDE DEF result, shot, v
    <2>5. RowAgrees(InputOf(s, "SAMPLE"), [status |-> "COMPLETED", snapshot |-> shot, version |-> v,
                                           text |-> Redacted[s.file], result |-> result])
      BY <1>1, <1>3, <2>1, <2>2, <2>4 DEF RowAgrees, result
    <2> QED
      BY <2>3, <2>5
  <1>5. RowAgrees(InputOf(s, "LIVE"), LegacyRow)
    <2>1. LegacyRow = [status |-> "PENDING", snapshot |-> NoInput, version |-> NoInput, text |-> NoInput,
                       result |-> NoResult]
      BY DEF LegacyRow, NoRow
    <2> QED
      BY <2>1 DEF RowAgrees
  <1> HIDE DEF v, shot
  <1>6. RowsAgree
    <2>1. CASE s.demo
      BY <1>2, <1>3, <1>4, <2>1 DEF RowsAgree
    <2>2. CASE ~s.demo /\ s.legacy
      BY <1>2, <1>3, <1>5, <2>2 DEF RowsAgree
    <2>3. CASE ~s.demo /\ ~s.legacy
      <3>1. DOMAIN row = {}
        BY <1>2, <2>3
      <3> QED
        BY <3>1 DEF RowsAgree
    <2> QED
      BY <2>1, <2>2, <2>3
  <1>7. request \in [Requests -> RequestStates] /\ \A q \in Requests : RequestAgrees(request[q])
    BY <1>2 DEF RequestStates, RequestAgrees, Idle
  <1>8. (\A w \in Workers : WorkerAgrees(w)) /\ ReadersAgree
    <2>1. DOMAIN cache = {}
      BY <1>2
    <2> QED
      BY <1>2, <2>1 DEF WorkerAgrees, ReadersAgree
  <1>9. applied.snapshot \in Snapshots \cup {NoInput} /\ applied.version \in Versions \cup {NoInput}
    BY <1>1, <1>2
  <1> QED
    BY <1>2, <1>6, <1>7, <1>8, <1>9 DEF EvaluationsInv

-----------------------------------------------------------------------------
(* The three invariants together are inductive. *)

InputsInv == PostingsInv /\ ResumesInv /\ EvaluationsInv

LEMMA InputsStep ==
  ASSUME InputsInv, [Next]_inputsVars
  PROVE  InputsInv' /\ AllStayDeleted
  <1> USE DEF InputsInv
  <1>s. scenario \in Scenarios
    BY DEF EvaluationsInv
  <1>1. CASE PostingNext /\ UNCHANGED <<scenario, resumeVars, evaluationVars>>
    <2>1. PostingsInv'
      BY <1>1, <1>s, PostingStepKeeps
    <2>2. ResumesInv' /\ CompletedStays /\ AllStayDeleted
      BY <1>1, BucketKeeps DEF resumeVars, ResumesInv, ResumesTypeOK
    <2> QED
      BY <1>1, <2>1, <2>2, EvaluationsFollow
  <1>2. CASE ResumeNext /\ UNCHANGED <<scenario, postingVars, evaluationVars>>
    <2>1. ResumesInv' /\ CompletedStays /\ AllStayDeleted
      BY <1>2, <1>s, ResumeStepKeeps
    <2>2. PostingsInv'
      BY <1>2, PostingsStay DEF postingVars
    <2> QED
      BY <1>2, <2>1, <2>2, EvaluationsFollow
  <1>3. CASE EvaluationNext /\ UNCHANGED <<scenario, resumeVars, postingVars>>
    <2>1. ResumesInv' /\ CompletedStays /\ AllStayDeleted
      BY <1>3, BucketKeeps DEF resumeVars, ResumesInv, ResumesTypeOK
    <2>2. PostingsInv'
      BY <1>3, PostingsStay DEF postingVars
    <2>3. EvaluationsInv'
      BY <1>3, EvaluationStepKeeps
    <2> QED
      BY <2>1, <2>2, <2>3
  <1>4. CASE UNCHANGED inputsVars
    <2>1. UNCHANGED <<scenario, resumeVars, postingVars, evaluationVars>>
      BY <1>4 DEF inputsVars
    <2>2. ResumesInv' /\ CompletedStays /\ AllStayDeleted
      BY <2>1, BucketKeeps DEF resumeVars, ResumesInv, ResumesTypeOK
    <2>3. PostingsInv'
      BY <2>1, PostingsStay DEF postingVars
    <2> QED
      BY <2>1, <2>2, <2>3, EvaluationsFollow
  <1> QED
    BY <1>1, <1>2, <1>3, <1>4 DEF Next

LEMMA InputsAreKept == Spec => []InputsInv
  <1>1. Init => InputsInv
    BY PostingsStart, ResumesStart, EvaluationsStart DEF InputsInv
  <1>2. InputsInv /\ [Next]_inputsVars => InputsInv'
    BY InputsStep
  <1> QED
    BY <1>1, <1>2, PTL DEF Spec

(* Type correctness: every row belongs to an input and has a result exactly*)
(* when it is completed, an execution belongs to a row, and nothing is     *)
(* cached of a row that is not there.                                      *)
THEOREM InputsAreTyped == Spec => []InputsTypeOK
  <1>1. InputsInv => InputsTypeOK
    <2> SUFFICES ASSUME InputsInv
                 PROVE  InputsTypeOK
      OBVIOUS
    <2>1. \A q \in Requests : request[q].at \in {"idle", "resume", "version", "redact", "prepare"}
      BY DEF InputsInv, EvaluationsInv, RequestStates, Idle
    <2>2. ASSUME NEW i \in DOMAIN row
          PROVE  /\ i \in Inputs
                 /\ row[i].status \in {"PENDING", "PROCESSING"} \cup Terminal
                 /\ row[i].snapshot = NoInput <=> row[i].version = NoInput
                 /\ row[i].status = "COMPLETED" <=> row[i].result # NoResult
      <3>1. i \in Inputs /\ RowAgrees(i, row[i])
        BY DEF InputsInv, EvaluationsInv, RowsAgree
      <3> QED
        BY <3>1 DEF RowAgrees, Terminal
    <2>3. \A w \in Workers : worker[w] # Idle => worker[w].input \in DOMAIN row
      BY DEF InputsInv, EvaluationsInv, WorkerAgrees
    <2>4. DOMAIN cache \subseteq DOMAIN row
      BY DEF InputsInv, EvaluationsInv, ReadersAgree, Shown
    <2> QED
      BY <2>1, <2>2, <2>3, <2>4 DEF InputsInv, InputsTypeOK, PostingsInv, ResumesInv, EvaluationsInv
  <1> QED
    BY <1>1, InputsAreKept, PTL

(* Job search (JobService.searchJobsAsync, updateJobAsync): whatever edits *)
(* a posting has seen, a search answers it only if what it pays is in the  *)
(* range asked for, unless two updates of it overlapped.                   *)
THEOREM SearchIsByPrice == Spec => []FilteredByPrice
  <1>1. InputsInv => FilteredByPrice
    BY DEF InputsInv, PostingsInv
  <1> QED
    BY <1>1, InputsAreKept, PTL

(* Registration (updateResumeWithPendingContent): the current file of a    *)
(* resume always has a version, and a completed one names a file of the    *)
(* registered length.                                                      *)
THEOREM CurrentHasVersion == Spec => []CurrentIsRegistered
  <1>1. InputsInv => CurrentIsRegistered
    <2> SUFFICES ASSUME InputsInv, NEW r \in Resumes, Registered(r)
                 PROVE  /\ Detail(r) # "NONE"
                        /\ Detail(r) = "COMPLETED" =>
                             Size[content[Current(r)].hash] = content[Current(r)].size
      BY DEF CurrentIsRegistered
    <2>1. Current(r) \in Versions
      BY DEF InputsInv, ResumesInv, ResumesTypeOK, Registered, Current, Versions
    <2> QED
      BY <2>1 DEF InputsInv, ResumesInv, VersionAgrees, Detail
  <1> QED
    BY <1>1, InputsAreKept, PTL

(* Versioned inputs (prepare, claimForProcessing): unless a completed      *)
(* version was reset, the text of a row is the redaction of the file in its*)
(* key, its snapshot the one in its key, and its version still has the     *)
(* file.                                                                   *)
THEOREM InputsStayFrozen == Spec => []InputsFrozen
  <1>1. InputsInv => InputsFrozen
    <2> SUFFICES ASSUME InputsInv, thrown = {}, NEW i \in DOMAIN row
                 PROVE  /\ row[i].text # NoInput => row[i].text = Redacted[i.file]
                        /\ row[i].snapshot # NoInput => /\ row[i].snapshot = i.snapshot
                                                        /\ content[row[i].version].hash = i.file
                        /\ row[i].status = "COMPLETED" => row[i].text # NoInput
      BY DEF InputsFrozen
    <2>1. RowAgrees(i, row[i])
      BY DEF InputsInv, EvaluationsInv, RowsAgree
    <2> QED
      BY <2>1 DEF RowAgrees, Keeps
  <1> QED
    BY <1>1, InputsAreKept, PTL

(* The cache of details (getApplicantEvaluationForJobOwnerAsync): what the *)
(* cache answers is the result of a completed row, which no later step     *)
(* changes.                                                                *)
THEOREM CacheIsCurrent == Spec => []CachedIsCurrent
  <1>1. InputsInv => CachedIsCurrent
    <2> SUFFICES ASSUME InputsInv, NEW i \in DOMAIN row, NEW shown \in CacheGet(i) \ {NoResult}
                 PROVE  row[i].status = "COMPLETED" /\ ApplicantDetail(i) = {shown}
      BY DEF CachedIsCurrent
    <2>1. i \in DOMAIN cache /\ shown = cache[i]
      BY DEF CacheGet
    <2>2. row[i].status = "COMPLETED" /\ shown = row[i].result
      BY <2>1 DEF InputsInv, EvaluationsInv, ReadersAgree, Shown
    <2> QED
      BY <2>2 DEF ApplicantDetail, ForApplicant
  <1> QED
    BY <1>1, InputsAreKept, PTL

(* V2 results (resolveEvaluationV2EvidenceOffsets, validateEvaluationV2):  *)
(* whatever the model answers, a completed row names every skill once,     *)
(* quotes its text letter by letter, keeps within the weights and scores   *)
(* the rounded sum.                                                        *)
THEOREM EvidenceIsShown == Spec => []EvidenceIsQuoted
  <1>1. InputsInv => EvidenceIsQuoted
    <2> SUFFICES ASSUME InputsInv, NEW i \in DOMAIN row, row[i].status = "COMPLETED", i.snapshot.skills # {}
                 PROVE  Quoted(i.snapshot.skills, row[i].text, row[i].result)
      BY DEF EvidenceIsQuoted, Quoted
    <2>1. RowAgrees(i, row[i])
      BY DEF InputsInv, EvaluationsInv, RowsAgree
    <2> QED
      BY <2>1 DEF RowAgrees
  <1> QED
    BY <1>1, InputsAreKept, PTL

(* Soft deletion (deleteResumeAsync, updateResumeAsync): no step makes a   *)
(* deleted resume active again.                                            *)
THEOREM DeletionLasts == Spec => DeletedStaysDeleted
  <1>1. InputsInv /\ [Next]_inputsVars => [\A r \in Resumes : StaysDeleted(r)]_resumeVars
    BY InputsStep DEF AllStayDeleted
  <1> QED
    BY <1>1, InputsAreKept, PTL DEF Spec, DeletedStaysDeleted
=============================================================================

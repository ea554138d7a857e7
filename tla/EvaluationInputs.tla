--------------------------- MODULE EvaluationInputs ---------------------------
(***************************************************************************)
(* What an evaluation is made from and what its readers see: one           *)
(* application of resume TheResume to posting TheJob, the evaluations of   *)
(* every pair of a file and a posting text, the workers that run them and  *)
(* the cache of results in front of them.                                  *)
(*                                                                         *)
(* The request reads the posting and the resume in several statements, in  *)
(* the middle of edits, replacements, repeated uploads and extractions; a  *)
(* worker runs it later, more than once if it must.  When a job is queued, *)
(* charged or retried is in ApplicantEvaluation: here a pending or         *)
(* processing row may be claimed at any time.                              *)
(*                                                                         *)
(* Hashes are the values they are taken of.  The parser, the prompt and the*)
(* model of live evaluations do not change.                                *)
(***************************************************************************)
EXTENDS Resumes, JobPostings

CONSTANTS
  TheJob, TheResume,  \* the application
  Requests,           \* slots for POST .../evaluate in flight
  Workers,            \* slots for executions
  Viewers,            \* slots for the job owner's reads in flight
  Answers,            \* V2 answers of the model, whatever their schema
  MaxCharacters,      \* the longest redacted text a demo session may have evaluated
  Scenarios,          \* what happens in a behaviour: see Init
  NoInput             \* not stored

VARIABLES
  scenario,   \* what happens in this behaviour
  over,       \* the applicant's demo session is over
  applied,    \* the application's columns: posting and version of the last request
  row,        \* row[i]: the evaluation of input i
  request,    \* request[q]: what request q has read
  worker,     \* worker[w]: the input execution w was given
  cache,      \* cache[i]: the job owner's cached result of row i
  viewer      \* viewer[u]: the result read u is about to cache

evaluationVars == <<over, applied, row, request, worker, cache, viewer>>
inputsVars == <<scenario, resumeVars, postingVars, evaluationVars>>

(* JobSnapshot, V2 if the posting lists skills. *)
Snapshots == [text : Texts, skills : SUBSET Skills]

(* The unique key of a row: the inputs' hashes and the model. *)
Inputs == [source : {"LIVE", "SAMPLE"}, file : Files, snapshot : Snapshots]

NoResult == [score |-> -1, criteria |-> <<>>]
NoRow == [status |-> "NONE", snapshot |-> NoInput, version |-> NoInput, text |-> NoInput,
          result |-> NoResult]

Terminal == {"COMPLETED", "FAILED"}

ASSUME InputsAssumption ==
  /\ TheJob \in Jobs /\ TheResume \in Resumes
  /\ Parts \in Nat \ {0} /\ IsFiniteSet(Skills)
  /\ \A n \in 1..Cardinality(Skills) : Hundred % n = 0  \* weights are exact
  /\ 1 \in Budgets
  /\ NoInput \notin Snapshots \cup Versions \cup {Redacted[f] : f \in Files}
  /\ \A answer \in Answers : answer \in Seq({answer[i] : i \in DOMAIN answer})

InputsTypeOK ==
  /\ ResumesTypeOK /\ PostingsTypeOK
  /\ scenario \in Scenarios /\ over \in BOOLEAN
  /\ applied.snapshot \in Snapshots \cup {NoInput} /\ applied.version \in Versions \cup {NoInput}
  /\ \A i \in DOMAIN row :
       /\ i \in Inputs
       /\ row[i].status \in {"PENDING", "PROCESSING"} \cup Terminal
       /\ row[i].snapshot = NoInput <=> row[i].version = NoInput
       /\ row[i].status = "COMPLETED" <=> row[i].result # NoResult
  /\ \A q \in Requests : request[q].at \in {"idle", "resume", "version", "redact", "prepare"}
  /\ \A w \in Workers : worker[w] # Idle => worker[w].input \in DOMAIN row
  /\ DOMAIN cache \subseteq DOMAIN row

-----------------------------------------------------------------------------
(* A registered file, a version of it that is completed, a posting. *)

Posting(text, skills) ==
  [text |-> text, skills |-> skills, status |-> "OPEN", currency |-> "VND", budget |-> 1, base |-> 1]

FirstVersion(s) ==
  IF s.extracted THEN [status |-> "COMPLETED", size |-> Size[s.file], hash |-> s.file]
  ELSE Pending(Size[s.file])

(* The sample of a new demo workspace: evaluated without the model, but    *)
(* validated like its answers (a workspace whose sample is invalid is not  *)
(* created).                                                               *)
SampleAnswer(s) ==
  LET order == CHOOSE f \in [1..Cardinality(s.skills) -> s.skills] :
                 \A i, k \in DOMAIN f : f[i] = f[k] => i = k
  IN  [i \in DOMAIN order |-> SampleResult(s.skills, Redacted[s.file], order[i])]

SampleRow(s) ==
  [status |-> "COMPLETED", snapshot |-> [text |-> s.text, skills |-> s.skills],
   version |-> <<TheResume, s.key>>, text |-> Redacted[s.file],
   result |-> [score |-> OverallScore(SampleAnswer(s)), criteria |-> SampleAnswer(s)]]

(* A scenario names things of this system; a demo workspace has its resume *)
(* extracted and a sample that is valid.                                   *)
ASSUME ScenariosAssumption ==
  \A s \in Scenarios :
    /\ {s.applied, s.demo, s.legacy, s.extracted} \subseteq BOOLEAN
    /\ s.key \in Keys /\ s.file \in Files /\ s.text \in Texts /\ s.skills \subseteq Skills
    /\ s.extracted => s.file \in Readable
    /\ s.files \subseteq Files /\ s.writers \subseteq Writers
    /\ s.extractors \subseteq Extractors /\ s.workers \subseteq Workers
    /\ s.drafts \subseteq [text : Texts, skills : SUBSET Skills, status : Statuses,
                          currency : Currencies, budget : Budgets]
    /\ s.changes \subseteq Changes /\ s.ranges \subseteq Nat \X Nat
    /\ s.demo => /\ s.applied /\ s.extracted
                 /\ Validated(s.skills, Redacted[s.file], SampleAnswer(s))
    /\ s.legacy => s.applied

(* A row of a release that kept the inputs with the application only. *)
LegacyRow == [NoRow EXCEPT !.status = "PENDING"]

InputOf(s, source) ==
  [source |-> source, file |-> s.file, snapshot |-> [text |-> s.text, skills |-> s.skills]]

(* The behaviours start before anything was posted or registered, or with  *)
(* an application, in a demo workspace with its sample, or with a row of an*)
(* older release.                                                          *)
Init ==
  /\ scenario \in Scenarios
  /\ LET s == scenario
     IN  /\ upload = [k \in Keys |-> IF s.applied /\ k = s.key THEN "open" ELSE "none"]
         /\ object = [k \in Keys |-> IF s.applied /\ k = s.key THEN s.file ELSE NoFile]
         /\ resume = [r \in Resumes |-> IF s.applied /\ r = TheResume THEN [key |-> s.key, active |-> TRUE]
                                        ELSE [key |-> NoKey, active |-> FALSE]]
         /\ content = [v \in Versions |-> IF s.applied /\ v = <<TheResume, s.key>> THEN FirstVersion(s)
                                          ELSE NoVersion]
         /\ job = [j \in Jobs |-> IF s.applied /\ j = TheJob THEN Posting(s.text, s.skills) ELSE NoJob]
         /\ applied = IF s.demo \/ s.legacy
                        THEN [snapshot |-> [text |-> s.text, skills |-> s.skills], version |-> <<TheResume, s.key>>]
                      ELSE [snapshot |-> NoInput, version |-> NoInput]
         /\ row = IF s.demo THEN [i \in {InputOf(s, "SAMPLE")} |-> SampleRow(s)]
                  ELSE IF s.legacy THEN [i \in {InputOf(s, "LIVE")} |-> LegacyRow]
                  ELSE <<>>
  /\ writer = [q \in Writers |-> Idle] /\ extractor = [x \in Extractors |-> Idle] /\ thrown = {}
  /\ edit = [q \in Editors |-> NoEdit] /\ raced = {} /\ page = NoPage
  /\ over = FALSE
  /\ request = [q \in Requests |-> Idle]
  /\ worker = [w \in Workers |-> Idle]
  /\ cache = <<>> /\ viewer = [u \in Viewers |-> Idle]
-----------------------------------------------------------------------------
(* evaluateApplicantAsync. *)

May(kind) == kind \in scenario.may

Insert(f, i, value) == [k \in DOMAIN f \cup {i} |-> IF k = i THEN value ELSE f[k]]

Answered(q) == request' = [request EXCEPT ![q] = Idle]

(* principal: a demo applicant is refused once the session is over.        *)
Principal == ~over

(* The posting and the current version are read side by side, the version  *)
(* in two statements.                                                      *)
Evaluate(q) ==
  /\ request[q] = Idle /\ Principal
  /\ request' = [request EXCEPT ![q] = [at |-> "resume", snapshot |-> NoInput, version |-> NoInput]]
  /\ UNCHANGED <<over, applied, row, worker, cache, viewer>>

(* getJobDataForSnapshot *)
ReadPosting(q) ==
  /\ request[q] # Idle /\ request[q].snapshot = NoInput /\ Posted(TheJob)
  /\ request' = [request EXCEPT ![q].snapshot = [text |-> job[TheJob].text, skills |-> job[TheJob].skills]]
  /\ UNCHANGED <<over, applied, row, worker, cache, viewer>>

(* getCurrentForOwner: the resume. *)
ReadResume(q) ==
  /\ request[q].at = "resume" /\ Active(TheResume)
  /\ request' = [request EXCEPT ![q].at = "version", ![q].version = Current(TheResume)]
  /\ UNCHANGED <<over, applied, row, worker, cache, viewer>>

(* getCurrentForOwner: its version, which must be completed. *)
ReadVersion(q) ==
  /\ request[q].at = "version"
  /\ LET v == content[request[q].version]
     IN  /\ v.status = "COMPLETED"
         /\ request' = [request EXCEPT ![q] =
              [at |-> "redact", version |-> @.version, snapshot |-> @.snapshot, file |-> v.hash]]
  /\ UNCHANGED <<over, applied, row, worker, cache, viewer>>

TooLong(text) == scenario.demo /\ Len(text) > MaxCharacters

(* redactResumeAsync reads the version again, by its id. *)
RedactResume(q) ==
  /\ request[q].at = "redact" /\ request[q].snapshot # NoInput
  /\ LET v == content[request[q].version]
     IN  /\ v.status = "COMPLETED" /\ CanRedact(v.hash) /\ ~TooLong(Redacted[v.hash])
         /\ request' = [request EXCEPT ![q] =
              [at |-> "prepare", version |-> @.version, snapshot |-> @.snapshot,
               file |-> @.file, text |-> Redacted[v.hash]]]
  /\ UNCHANGED <<over, applied, row, worker, cache, viewer>>

RequestInput(q) == [source |-> "LIVE", file |-> request[q].file, snapshot |-> request[q].snapshot]

MutUpsert(i, new) ==
  IF i \notin DOMAIN row THEN Insert(row, i, new)
  ELSE [row EXCEPT ![i].status = "PENDING", ![i].result = NoResult]

(* A row of the same input is reused as it is, a failed one reset. *)
Upsert(i, new) ==
  IF i \notin DOMAIN row THEN Insert(row, i, new)
  ELSE IF row[i].status = "FAILED" THEN [row EXCEPT ![i].status = "PENDING", ![i].result = NoResult]
  ELSE row

(* A new or failed row is charged to a demo session, which must not be over*)
(* then.                                                                   *)
ChargeRefused(i) == over /\ (i \notin DOMAIN row \/ row[i].status = "FAILED")

(* prepare: one transaction, serialized by the update of the application.  *)
Prepare(q) ==
  /\ request[q].at = "prepare" /\ ~ChargeRefused(RequestInput(q))
  /\ applied' = [snapshot |-> request[q].snapshot, version |-> request[q].version]
  /\ row' = Upsert(RequestInput(q),
       [status |-> "PENDING", snapshot |-> request[q].snapshot, version |-> request[q].version,
        text |-> request[q].text, result |-> NoResult])
  /\ Answered(q)
  /\ UNCHANGED <<over, worker, cache, viewer>>

(* Something is missing, not completed or too long, a read or the         *)
(* transaction fails, or the process dies.                                 *)
RequestFails(q) ==
  /\ request[q] # Idle
  /\ Answered(q)
  /\ UNCHANGED <<over, applied, row, worker, cache, viewer>>

-----------------------------------------------------------------------------
(* The workers. *)

Claimable(i) == row[i].status \in {"PENDING", "PROCESSING"}

WorkerIdle(w) == worker' = [worker EXCEPT ![w] = Idle]

(* A row of an older release is evaluated from what its application holds. *)
StoredInput(i) ==
  IF row[i].snapshot = NoInput THEN applied
  ELSE [snapshot |-> row[i].snapshot, version |-> row[i].version]

(* The hashes of the row must be those of what is stored now. *)
Intact(i) ==
  /\ StoredInput(i).snapshot # NoInput
  /\ StoredInput(i).snapshot = i.snapshot
  /\ content[StoredInput(i).version].hash = i.file
  /\ CanRedact(i.file)

StoredText(i) ==
  IF row[i].text = NoInput THEN Redacted[content[StoredInput(i).version].hash] ELSE row[i].text

(* claimForProcessing: not for a session that is over. *)
ClaimForProcessing(w, i) ==
  /\ worker[w] = Idle /\ Claimable(i) /\ ~over
  /\ Intact(i)
  /\ row' = [row EXCEPT ![i].status = "PROCESSING", ![i].text = StoredText(i)]
  /\ worker' = [worker EXCEPT ![w] =
       [input |-> i, skills |-> StoredInput(i).snapshot.skills, text |-> StoredText(i)]]
  /\ UNCHANGED <<over, applied, request, cache, viewer>>

MutHandleFailure(i) ==
  \E status \in {"PENDING", "FAILED"} : row' = [row EXCEPT ![i].status = status]

(* markPending or, after the last attempt, markFailed. *)
HandleFailure(i) ==
  /\ Claimable(i)
  /\ \E status \in {"PENDING", "FAILED"} : row' = [row EXCEPT ![i].status = status]

ClaimFails(w, i) ==
  /\ worker[w] = Idle /\ ~over
  /\ HandleFailure(i)
  /\ UNCHANGED <<over, applied, request, worker, cache, viewer>>

(* The provider: it checks the length again and the answer's schema. *)
LiveAnswers(text) == IF TooLong(text) THEN {} ELSE {answer \in Answers : FitsSchema(answer)}

(* The schema of V1 answers asks for a score and free text; one stands for *)
(* all.                                                                    *)
V1Result == [score |-> 50, criteria |-> <<>>]

(* A posting without skills gets a V1 prompt, whose answer needs no more   *)
(* than its schema; a V2 answer is resolved, validated and scored.         *)
Results(skills, text) ==
  IF skills = {} THEN {V1Result}
  ELSE {[score |-> OverallScore(answer), criteria |-> answer] :
          answer \in {a \in {Resolve(text, raw) : raw \in LiveAnswers(text)} : Validated(skills, text, a)}}

(* markCompleted: another execution may have ended the row before. *)
Complete(w) ==
  /\ worker[w] # Idle
  /\ LET i == worker[w].input
     IN  \E result \in Results(worker[w].skills, worker[w].text) :
           row' = IF row[i].status = "PROCESSING"
                    THEN [row EXCEPT ![i].status = "COMPLETED", ![i].result = result]
                  ELSE row
  /\ WorkerIdle(w)
  /\ UNCHANGED <<over, applied, request, cache, viewer>>

(* No answer, one that breaks the schema or the rules, or a dead worker. *)
EvaluationFails(w) ==
  /\ worker[w] # Idle
  /\ HandleFailure(worker[w].input) \/ UNCHANGED row
  /\ WorkerIdle(w)
  /\ UNCHANGED <<over, applied, request, cache, viewer>>

-----------------------------------------------------------------------------
(* The two details. *)

(* getApplicantEvaluationForJobOwner, getApplicantEvaluationDetail *)
ForJobOwner(i) == row[i].result
ForApplicant(i) == row[i].result

(* The applicant's detail, never cached: a result or a conflict. *)
ApplicantDetail(i) == {ForApplicant(i)} \ {NoResult}

(* RedisApplicationCache.get: nothing, if it fails or the key is missing.  *)
CacheGet(i) == {NoResult} \cup {cache[k] : k \in DOMAIN cache \cap {i}}

(* The job owner's, after the check of ownership: what the cache answers,  *)
(* otherwise the row's, and only if there is a result.                     *)
ReadDetail(u, i) ==
  /\ viewer[u] = Idle /\ NoResult \in CacheGet(i)
  /\ ForJobOwner(i) # NoResult
  /\ viewer' = [viewer EXCEPT ![u] = [input |-> i, result |-> ForJobOwner(i)]]
  /\ UNCHANGED <<over, applied, row, request, worker, cache>>

(* A cache that fails is ignored. *)
CacheSet(i, result) == cache' = Insert(cache, i, result) \/ UNCHANGED cache

CacheDetail(u) ==
  /\ viewer[u] # Idle
  /\ CacheSet(viewer[u].input, viewer[u].result)
  /\ viewer' = [viewer EXCEPT ![u] = Idle]
  /\ UNCHANGED <<over, applied, row, request, worker>>

CacheExpires(i) ==
  /\ i \in DOMAIN cache
  /\ cache' = [k \in DOMAIN cache \ {i} |-> cache[k]]
  /\ UNCHANGED <<over, applied, row, request, worker, viewer>>

SessionEnds ==
  /\ scenario.demo /\ ~over
  /\ over' = TRUE
  /\ UNCHANGED <<applied, row, request, worker, cache, viewer>>

-----------------------------------------------------------------------------
PostingNext ==
  \/ /\ May("post")
     /\ \E j \in Jobs, draft \in scenario.drafts :
          CreateJob(j, draft.text, draft.skills, draft.status, draft.currency, draft.budget)
  \/ May("search") /\ \E range \in scenario.ranges : SearchJobs(range[1], range[2])
  \/ \E q \in Editors :
       EditStep(q) \/ \E j \in Jobs, change \in scenario.changes : ReadJob(q, j, change)

ResumeNext ==
  \/ \E k \in Keys :
       \/ May("upload") /\ GetUploadUrl(k)
       \/ \E f \in scenario.files : Put(k, f)
       \/ May("expire") /\ UrlExpires(k)
  \/ \E q \in scenario.writers, r \in Resumes, k \in Keys : CreateResume(q, r, k) \/ UpdateResume(q, r, k)
  \/ May("delete") /\ \E r \in Resumes : DeleteResume(r)
  \/ \E q \in Writers : WriterStep(q)
  \/ \E x \in Extractors :
       ExtractorStep(x) \/ (x \in scenario.extractors /\ \E v \in Versions : FetchObject(x, v))

RequestStep(q) ==
  ReadPosting(q) \/ ReadResume(q) \/ ReadVersion(q) \/ RedactResume(q) \/ Prepare(q) \/ RequestFails(q)

EvaluationNext ==
  \/ May("evaluate") /\ \E q \in Requests : Evaluate(q)
  \/ \E q \in Requests : RequestStep(q)
  \/ \E w \in Workers :
       \/ w \in scenario.workers /\ \E i \in DOMAIN row : ClaimForProcessing(w, i) \/ ClaimFails(w, i)
       \/ Complete(w)
       \/ EvaluationFails(w)
  \/ \E u \in Viewers : CacheDetail(u) \/ (May("view") /\ \E i \in DOMAIN row : ReadDetail(u, i))
  \/ \E i \in DOMAIN row : CacheExpires(i)
  \/ SessionEnds

Next ==
  /\ \/ PostingNext /\ UNCHANGED <<resumeVars, evaluationVars>>
     \/ ResumeNext /\ UNCHANGED <<postingVars, evaluationVars>>
     \/ EvaluationNext /\ UNCHANGED <<resumeVars, postingVars>>
  /\ UNCHANGED scenario

Spec == Init /\ [][Next]_inputsVars

-----------------------------------------------------------------------------
(* V2 results: what a completed evaluation shows names every skill of its  *)
(* posting once, quotes its redacted text letter by letter, gives a        *)
(* criterion at most its weight and a missing one nothing, and scores the  *)
(* rounded sum, whichever answer, retry or sample it came from.            *)
EvidenceIsQuoted ==
  \A i \in DOMAIN row :
    row[i].status = "COMPLETED" /\ i.snapshot.skills # {} =>
      LET criteria == row[i].result.criteria
      IN  /\ {criteria[n].criterion : n \in DOMAIN criteria} = i.snapshot.skills
          /\ Len(criteria) = Cardinality(i.snapshot.skills)
          /\ \A n \in DOMAIN criteria :
               /\ criteria[n].points \in 0..Weight(i.snapshot.skills)
               /\ criteria[n].verdict = "MISSING" <=> criteria[n].points = 0
               /\ \A ref \in criteria[n].refs : Slice(row[i].text, ref.start, ref.end) = ref.snippet
          /\ LET points == 2 * Points(criteria)
                 score == 2 * row[i].result.score
             IN  (score - 1) * Parts <= points /\ points < (score + 1) * Parts
          /\ row[i].result.score \in 0..100

(* Versioned inputs (README.md: the hashes "tie results to the inputs      *)
(* used"): a row's text is the redaction of the file its hash names and its*)
(* snapshot the posting of its key, however often the posting was edited,  *)
(* the resume replaced or the object overwritten between the reads of the  *)
(* request and the runs of the workers; the version behind it still has    *)
(* that file.  Only the reset of a completed version (ResumeReset) breaks  *)
(* the tie.                                                                *)
InputsFrozen ==
  thrown = {} =>
    \A i \in DOMAIN row :
      /\ row[i].text # NoInput => row[i].text = Redacted[i.file]
      /\ row[i].snapshot # NoInput => /\ row[i].snapshot = i.snapshot
                                      /\ content[row[i].version].hash = i.file
      /\ row[i].status = "COMPLETED" => row[i].text # NoInput

(* The cache of details: what a job owner is shown from the cache is the   *)
(* result the applicant is shown, though it is written in a step after the *)
(* read and nobody ever invalidates it.                                    *)
CachedIsCurrent ==
  \A i \in DOMAIN row : \A shown \in CacheGet(i) \ {NoResult} :
    row[i].status = "COMPLETED" /\ ApplicantDetail(i) = {shown}

(* Soft deletion: a replacement that overlaps a deletion does not undo it. *)
DeletedStaysDeleted == [][\A r \in Resumes : StaysDeleted(r)]_resumeVars
=============================================================================

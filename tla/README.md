# A TLA+ model of the Fitwork backend

Fitwork is a NestJS service: companies post jobs, users keep resumes and apply, an LLM evaluates
applications, and time-limited demo workspaces let visitors try all of it. State lives in
PostgreSQL, work is queued in Redis (BullMQ), files are in an S3 bucket, and every process runs
HTTP handlers, queue workers, sockets and timers in one event loop. This directory holds a TLA+
model of it, the TLC runs that check the model and the proofs TLAPS checks. Paths in this file are
relative to the root of the repository.

Run things here: `tlc -workers 2 -config <run>.cfg <module of the run>` and
`tlapm <module>Proofs.tla`. `PROJECT.json` lists the components, runs, mutants, theorems and
hazards, and which lines of the code each definition models.

## 1. Inventory

| Component (code) | State | Operations | Talks to | What is hard | What makes it correct | Module |
|---|---|---|---|---|---|---|
| Hiring (`modules/job`: job-applicant service and repo) | application statuses, the job's OPEN/CLOSED status and optimistic version | apply, decide (accept, reject, complete) | job edits | torn multi-statement reads, concurrent accepts, roll-backs, lost commits | one hire per job, acknowledged decisions hold, every request ends | `JobApplicants`, abstractly `Hiring` |
| Applicant evaluation (`modules/applicant-evaluation`: service, queue, processor, repo) | evaluation row, BullMQ job, demo charge | request, retry, claim, complete, fail | application row, queue, LLM, demo session | two stores without a common transaction, late and duplicated executions, stalls, retries against a job still active | a result is final and belongs to one execution, no pending row without a job, no uncharged demo call | `ApplicantEvaluation` |
| Resume ingestion (`modules/resume`: ingestion service, queue, content repo) | content version row, BullMQ job | register a file, reset a failed version, extract | bucket, parsers, queue | resets on stale reads, replaced jobs, late reports | completed text is protected, one execution, nothing stuck | `ResumeIngestion` |
| Demo cleanup (`modules/demo`: demo-cleanup) | session tombstone, lease, upload rows, bucket | sweep, claim, delete, finish, prune | bucket, evaluation queue, all demo rows | leases that run out, partial deletion, upload URLs in clients' hands, lost acknowledgements | DONE means clean and final, every ended session gets there | `DemoCleanup` |
| Demo sessions, roles, quotas (`modules/demo`: repo, service, access, transaction) | session, role, generation, refresh token, usage counters | create, principal, refresh, switch role, log out, reserve, consume | everything a demo user does | limits under concurrent requests, races for the only live token | limits hold, one live token, an old generation writes nothing | `DemoSessions` |
| Realtime gateways (`modules/realtime`, demo-access) | sockets, their watch, rooms | connect, join, leave, notify, recheck | sessions, evaluation and resume workers | a socket is authorized before it is watched, a row changes while its room is joined, silently or with an event of one process | who has joined knows every event of the own process, sockets of an old identity close | `Realtime` |
| Authentication and users (`modules/auth`, `modules/users`) | accounts, refresh tokens | register, log in, rotate, log out | demo | rotation is four statements, a replay revokes everything | one usable token per login, a login ended by a replay stays ended | `Auth` |
| Shutdown (`shutdown.ts`, `main.ts`) | one promise, one deadline, exit code | signal, close, telemetry | all | second signal, failing start-up, hanging close | one exit, success only if all succeeded | `Shutdown` |
| Job postings and search (`modules/job`: job service, entity, repo) | posting, derived budget | create, partial update, search | hiring | derived amounts computed from a stale read | a search finds postings by what they pay | `JobPostings` |
| Resume records and URLs (`modules/resume`: resume service and repo) | resume row, objects, URLs, version rows | upload URL, register, replace, delete | bucket, ingestion | an object replaced or a resume deleted under a registration | deleted stays deleted, the current file has a version | `Resumes` |
| Evaluation inputs, scoring, redaction, readers and their cache (`modules/applicant-evaluation`) | snapshots, result, cache | snapshot, redact, resolve, validate, score, read | postings, resumes, LLM | inputs read in several statements, answers with wrong offsets, sums in doubles | a result belongs to the inputs its hashes name and quotes them | `Evidence`, `EvaluationInputs`, `FullMarks` |
| LLM provider (`shared/.../llm`) | none | ask, check the schema | evaluation | | only well-formed answers get through | the answers it lets through: `Evidence.FitsSchema` |
| File storage and parsers | bucket | sign, head, get, delete | resumes, cleanup | not transactional | | the bucket: `Resumes`, `DemoCleanup` |
| Reference data caches (`modules/job`: skill, category, arrangement) | cached lists | cache-aside reads | Redis | nothing: no request writes these tables | | not modelled |
| Observability, exception mapping, validation pipes; performance scripts, seed, deployment | none | | | | | not modelled |

Interactions that cross components: an HTTP request commits a row and then talks to the queue
(evaluation, ingestion); a worker writes its verdict and then settles its job; an evaluation reads
the posting and the resume while their owners change them; a demo session's end races with all
requests, workers, sockets and URLs authorized before it; the cleaner deletes rows, jobs and
objects that four other components created.

## 2. Modules

| Module | What it is |
|---|---|
| `Hiring` | abstract specification: an application is made once, decided once, and a job hires once |
| `JobApplicants` | the requests and transactions that implement it |
| `QueueJob` | one BullMQ job as the two queues use it: an external component, extended by the next three |
| `ApplicantEvaluation` | the evaluation row, its requests, workers and demo charge |
| `ResumeIngestion` | the content row, its requests and workers |
| `DemoCleanup` | the end of a workspace: session, uploads, bucket, evaluation, cleaners |
| `Auth` | ordinary accounts, their logins and refresh tokens |
| `DemoSessions` | demo sessions, their tokens, roles and limits |
| `Realtime` | extends `DemoSessions` with the sockets of a demo client |
| `Shutdown` | the end of a process |
| `Sessions` | a deployment: `Realtime` next to instances of `Auth` and `Shutdown` |
| `JobPostings` | postings, their edits and the search |
| `Evidence` | operators: redaction, resolution of quotes, validation, score |
| `Resumes` | extends `Evidence` with resumes, objects and content versions |
| `EvaluationInputs` | extends `Resumes` and `JobPostings` with evaluations made from them and their readers |
| `FullMarks` | the sum of a V2 score in doubles |
| `MC<module>` | instances for TLC: sets of faults, mixes of requests, scenarios |
| `<module>Proofs` | theorems and their proofs: `SessionsProofs` covers `Realtime` and `Shutdown` too, `EvaluationInputsProofs` the four modules it composes |

In every module the operators that begin with `Mut` are wrong variants of the definition below
them: each names a plausible mistake in that code (a dropped condition, an ignored error, a
missing reset). They are used by no specification; put in place of the definition, each makes
the property it is listed with in `PROJECT.json` fail, which shows that the property depends
on that piece of code.

### JobApplicants

One action is one SQL statement. A request is a record with a program counter: a decision reads
the application, then the job, then the job's selected applicants (`getStatusContext`; the ORM
sends one SELECT per relation), then either updates one row conditionally (`transitionStatus`)
or runs the accept transaction (`acceptApplicantAndRejectOthers`): claim the job's version,
update the winner, reject the competitors, commit. The version claim takes the job's row lock; the
later writes become visible at `Commit`, and `RowLocked` makes other UPDATEs of those rows wait,
as READ COMMITTED does. `Commit` may succeed and still answer with an error. `Fail` ends
a request anywhere (database error, transaction timeout, death of the process) and rolls back.
Applying reads the target in two statements and inserts. `UpdateJob` is the owner's OPEN/CLOSED
edit. `acked` is a history variable: what clients have been told.

### ApplicantEvaluation, ResumeIngestion

State: the row's `status` and the execution whose result it holds; `job` (from `QueueJob`);
one program counter per request and per execution. A request's queue commands are separate
actions (`Enqueue`/`Lookup`, `State`, `Remove`, `Add`, `Retry`, `Reprocess`), because other
requests and workers act between them. `prepare` is one transaction and one action, since its
first UPDATE serializes it; `Register` is one too, apart from the reset of a failed version, which
is written after the status was read and without repeating the condition. An execution reads,
works and writes in separate actions, and settles its job in a last one: in between, the row is
already COMPLETED or FAILED and the job still active. Faults: `stall` (a live worker loses its
lock: a second execution runs next to it), `crash`, `redis` and `db` (a command fails, applied or not).
In ApplicantEvaluation `session` and `calls` count what a demo session was charged and what
was run for it.

### DemoCleanup

One session from its creation to its tombstone. Transactions under `lockDemo` are single steps, all else
is one step per statement or call. Only the last transaction of a run is two steps, since a claim does not take the lock. A run of the cleaner goes Sweep, List, Claim (the conditional
UPDATE that takes the two-minute lease), ReadUploads, ReadJob/Remove, DeleteObject for each key,
CheckLease and Finish (which commits even if the lease ran out after it was read), with RecordFailure and Release for the `catch` and `finally` blocks. Clients hold upload URLs
until they expire; requests that were authorized before the end may still reach the queue; workers may
take the job at any moment. Time is a set of deadlines: a URL expires, a session expires, a
lease lapses. A lease lapses under a run at work only with the fault `slow`. `calm` is the moment
the faults are over; it only matters to the liveness property.

### Sessions: Auth, DemoSessions, Realtime, Shutdown

`Auth`: a refresh reads the token, reads its user, revokes the token and inserts a successor in
four statements; each is an action, and any other request, failure or expiry may come in between.
A client may present any token it was ever given. A token's `family` is the login it descends from.
`overlapped` and `killed` are history variables: the logins two refreshes of which were in flight at
once, and those ended by a detected replay while none was.

`DemoSessions`: every transaction of `demo.repo.ts` begins with one advisory lock. `Lock`, `Check`
and the commit are three actions, so that what a transaction read could have changed if the lock did
not work (the mutants of `Lock` and `Unlock` show that it would). An access token is a session with
the generation it was issued in; the guard authorizes it without the lock, `rateLimit` counts the
request, then the handler's own transaction runs. Commits are one action per kind: create, switch,
refresh, logout (with an access token or with the cookie alone), reserve an upload, consume an AI run.

`Realtime` adds what happens at each `await` of a connection and of a join: authorize, then watch;
authorize, enter the room, read the row again, answer. A switch or logout closes the sockets that are
watched in the process that served it; every socket asks again every five seconds (`Recheck`). A socket follows
one evaluation or one version of a resume, whose row workers and requests of every process change by the conditional
updates of the code. Events are emitted after the commit, in the process that made the change, and only by some changes:

* an evaluation: `markCompleted`, and `markPending`/`markFailed` of a worker. Silent are the claim, the reset of a failed row by
  `prepare` and `markFailed` after a demo request's queue failure;
* a version of a resume: every `markProcessing`, `markCompleted` and `markFailed`, of a worker or of a request whose enqueue failed;
  on a completed row they change nothing and announce what the row is then. Silent is the reset by a registration, which is
  written after the status was read;
* no change whose answer from the database is lost, and none whose process dies before it emits (`ProcessDies` takes its sockets along).

What the worker or the request was about before it reaches these updates is in the modules of evaluations and ingestion: here any of
them may come at any time its condition allows. A replaced file makes another version with events of its own, which is not followed.

`Shutdown` has the one promise all callers share, start-up that may still run, the two closes and the
deadline.

`Sessions` chooses by deployment what is reachable: without `DEMO_ENABLED` the ordinary routes, with
`DEMO_ONLY` the demo, with the first and not the second registration and login next to the demo,
whose refresh and logout know no ordinary token. The three parts share no variable, so their
product is explored only where a deployment has both.

### EvaluationInputs: Evidence, Resumes, JobPostings

`Resumes`: a file may be put under a key as often as its upload URL lasts, so the bytes a version is
registered for (`headObject`), extracted from and completed with may differ. A registration is a
transaction of several statements (`create`/`find`, `keep`, `reset`), next to replacements, soft
deletions and extractions. `JobPostings`: an update reads the posting, derives the budget in the base
currency and writes later, leaving fields that were not sent alone.

`EvaluationInputs` is one application. A request reads the posting and the resume side by side,
the version in two statements, the text in a third, redacts, and runs `prepare`; a worker checks the
stored inputs against the row's hashes when it claims the row, asks the model and resolves,
validates and scores the answer; the job owner's detail is cached after it was read. A hash is the value it
is taken of; a text is a short sequence of skills' names, so that a quote can occur once, twice and
never. When a job is queued, retried or charged is in `ApplicantEvaluation`: here a pending or
processing row may be claimed at any time, by several workers. The row of an older release has no
inputs of its own, and a demo workspace starts with its sample evaluation.

`FullMarks` adds the weights of a perfect candidate. A double is an integer multiple of 2^-52 plus
`k * 100 / n`, so sums and roundings are computed exactly with integers of modest size.

## 3. Runs

Every run finishes within four minutes with two workers.

| Run | Question | Result |
|---|---|---|
| `JobApplicants` | With two concurrent requests of any kind and failures anywhere: one hire per job (`OneHire`), the version counts hires (`VersionCountsHires`) and a stale one never passes (`VersionGuardsHire`), what a client was told holds (`AcknowledgedDecision`), the whole implements `Hiring` (`ImplementsHiring`), and every request ends, row locks included (`RequestsAnswered`). The unique index is left out (`Indexed = FALSE`): the code alone suffices. | holds |
| `JobApplicantsSweep` | Does an accept leave no PENDING application, as `docs/api/job.md:347` says? | violated: finding 1 |
| `EvaluationFaults` | With all faults: completion is final (`CompletedIsFinal`). | holds |
| `EvaluationDemo` | A demo evaluation without faults: never pending without a job (`PendingIsQueued`), no uncharged call (`CallsAreCharged`), one execution at a time (`SoleExecution`), always decided (`EventuallyDecided`). | holds |
| `EvaluationRetryLost` | The same `PendingIsQueued` for ordinary users. | violated: finding 2 |
| `ResumeIngestion` | Without and with faults: one execution (`SoleExecution`), nothing shown as processing that is not (`ProcessingHasRunner`), completed text changed by nothing but a stale reset (`CompletedIsProtected`). | holds |
| `ResumeReset` | Does nothing lead out of COMPLETED, as the state diagram says? | violated: finding 3 |
| `DemoCleanup` | With all faults, with and without lost locks and outlived leases: a cleaned workspace has left no object and no usable URL (`DoneIsClean`), no LLM call (`NoCallAfterDone`), stays cleaned (`DoneIsFinal`); one run at a time (`SoleCleaner`). | holds |
| `DemoCleanupLive` | After crashes and storage errors are over, is every ended session cleaned (`EventuallyDone`)? | holds |
| `Sessions` | Fourteen mixes of requests. Ordinary logins: one usable token per login unless its refreshes overlap (`SequentialRotation`), a login ended by a replay stays ended (`KilledStayDead`). Demo: limits of creation (`CreationLimits`) and of use (`QuotasHold`), one live token of the account shown (`OneLiveToken`), what was checked still holds when it is written (`CheckedIsCurrent`). Sockets: a client whose join was answered knows every change its process has announced (`JoinedIsCurrent`), sockets of an old identity close (`OldSocketsClose`). Process: `OrderlyExit`. | holds |
| `EvaluationInputs` | Seven scenarios. A search answers postings that are edited one update at a time by what they pay (`FilteredByPrice`), a resume's current file always has a version, and a completed one the registered length (`CurrentIsRegistered`), a deleted resume stays deleted (`DeletedStaysDeleted`); a row's text and snapshot are those its hashes name (`InputsFrozen`), its result quotes the text and scores the sum (`EvidenceIsQuoted`), and what is cached is what the other reader sees (`CachedIsCurrent`). | holds |
| `FullMarks` | Is the candidate who matches every criterion accepted, as "equal weights totaling 100" (`README.md:46`) makes one expect? | violated: finding 4 |

Each module's `TypeOK` is checked once, in the run of its component.

### Bounds

Jobs, evaluations, content versions and sessions share no state with others of their kind
(every statement names one row, and the accept transaction names one job), so one of each is
enough for the safety of the first three components. Two requests allow two accepts to race, or one
to race an application, a rejection or an edit, and roll-backs let them be tried again; two users make a winner
and a competitor, two companies an owner and a stranger. Requests and executions are slots that are
used again, so histories are not bounded. Two executions are enough for a duplicated one, since a job
stalls at most once before it fails (`MaxStalled`). `Attempts` is the code's own number, three, and one
for demo identities. `AiPerSession = 3` allows a first run, a retry and a refusal, which
bounds `calls`. Two storage keys make a deletion partial; two cleaners make a claim race, and a run
that lost its lease meet its successor.

`Sessions`: two requests in flight, as every race here is between two; three ordinary tokens are a
login, its successor and a third that a replay or a lost race could bring; a demo session has three
tokens, two switches or refreshes after its creation. Three sessions meet a limit of two active ones or two per hour and
address; the other limits are one or two, so that one more request exceeds them. One socket is enough, since sockets do not
read each other's state; two processes separate a switch from the socket it should close and a worker from a client.
A followed row starts with any status; an evaluation then changes twice, so that it can be claimed and decided or fail and be reset, and its
events can overtake each other between two processes; a version of a resume changes once, which is enough for each of its updates.
The whole product of requests is not explored: each of the fourteen mixes in `MCSessions` has the kinds of requests
that share what one property is about, with two callers wherever a race matters.

`EvaluationInputs`: one posting, one resume with two keys, three files (two of one length; one with a
longer text than a demo may have evaluated), two skills, two texts of a posting, an answer for each kind
of mistake the resolution and the validation know. One request at a time (its race with others is
in `ApplicantEvaluation`), two workers, two editors and writers. Seven scenarios in
`MCEvaluationInputs` choose what happens next to what.

Contributions are counted in half points (`Parts = 2`), the coarsest units in which rounding can be seen at work.
`MaxOrdinary`, `MaxTokens`, `MaxSessions`, `MaxVersion` bound what is created in a behaviour; `MaxCriteria = 30` is how many
skills `FullMarks` tries.

Symmetry is used in `EvaluationFaults`, `DemoCleanup` and `ResumeIngestion`, whose properties are safety
properties that name no request, user, worker, key or cleaner.

Deadlock is checked in the first nine runs of the table, where a new request or run can always start. In `Sessions` (a process that has
exited, a session that is over), `EvaluationInputs` (a scenario that is through) and `FullMarks` (the sum is
complete) the system may stop.

### Fairness

* `JobApplicants`: weak fairness of each request's next statement (the event loop resumes
  resolved promises); strong fairness of the two statements that wait for a row lock, since
  PostgreSQL queues the waiters. Nobody has to start a request, and none has to fail.
* `ApplicantEvaluation`: weak fairness of request and execution steps, of some free worker taking
  a waiting job, of backoffs and of BullMQ's stalled check. Not of new requests: a row is decided without
  anybody asking again.
* `DemoCleanup`: weak fairness of each run's next step, which includes starting one (an interval
  timer), of executions that started, and of deadlines. Neither logout nor the taking of a job is
  assumed: a workspace is cleaned although no worker ever runs. Progress is claimed from the moment
  the faults are over and stay over (`calm`), since a crash or a failing bucket may otherwise recur for ever.
* `Sessions`: weak fairness of each socket's five-second check (`setInterval` in `watchSocket`), of nothing else.

## 4. Findings

1. `src/modules/job/infrastructure/job-applicant.repo.ts:64`: the competitors' UPDATE takes its snapshot before the commit
   and an application is inserted without touching the job's row, so an application that arrives
   in between stays PENDING on a job that has hired. It can then only be rejected by hand (an
   accept is refused), so no second hire follows. `docs/api/job.md:347` says otherwise.
2. `src/modules/applicant-evaluation/infrastructure/applicant-evaluation.queue.ts:89`: `retry()` of an ordinary request does nothing while the job
   is active, which it still is between `markFailed` and the moment BullMQ moves the job to failed.
   The row is then PENDING and only a failed job exists. The demo branch waits for exactly
   this window; the comment at line 126 says what should not happen. A further request repairs it.
3. `src/modules/resume/infrastructure/resume.repo.ts:133`: the reset of a FAILED version does not repeat the status it read.
   If a worker completes the version in between (a failed enqueue of another request had marked it FAILED
   under that worker), the text is lost and the row is PENDING.
4. `src/modules/applicant-evaluation/application/services/evaluation-v2-validator.ts:144`: every skill weighs `100 / n` as a
   double and an answer whose contributions add up to more than 100 is refused. For n = 6, 7, 9, 11, 15, 18, 19, 22,
   24, 27 and 29 the sum of n full weights rounds to a double above 100: a candidate who matches every criterion in full
   is refused on every attempt. `README.md:46` speaks of "equal weights totaling 100".

Remarks: differences from documents and limits of the code that have no run of their own.

Queues and rows:

* The window of finding 2 exists in the resume queue too (`src/modules/resume/infrastructure/resume-ingestion.queue.ts:35`): a
  version registered again while the job that failed it is still active stays PENDING. `ProcessingHasRunner` says nothing
  of pending versions for this reason.
* An evaluation stays PROCESSING for good if its job stalls twice or its final failure cannot be
  recorded: BullMQ then ends the job without the code noticing, and a new request finds the
  row in progress. A process that dies between `prepare` and the queue command leaves a PENDING row
  until somebody asks again. `EvaluationFaults` reaches these states; no document denies them.
* `docs/specification/workflows.md:80` and `docs/api/job.md:262` say that applying does not reject a closed job, the
  code does (`src/modules/job/application/services/job-applicant.service.ts:163`, modelled so);
  `docs/specification/workflows.md:94` says that nothing makes the accepted applicant unique, the migration
  `20261024090000_one_accepted_applicant_per_job` adds the index (`Indexed`).

Inputs of an evaluation:

* Of two updates of one posting that overlap, the later write brings back the derived budget it read: the posting is then
  filtered by a stale price until its budget is edited again. `FilteredByPrice` holds for every posting that never had two
  updates in flight at once (`raced`).
* `prepare` overwrites an application's `jobSnapshot` with every request (`applicant-evaluation.repo.ts:209`), while
  `prisma/models/job.prisma:46` calls it "Immutable job input captured when the applicant submits the application". The evaluation
  keeps a snapshot of its own, which is immutable (`InputsFrozen`); only a row of an older release reads the application's, and its hash then
  decides whether it may be used.
* `InputsFrozen` holds while no completed version was thrown away (`thrown`): after finding 3 a version may be completed again from another file.

Accounts and sessions:

* Two overlapping refreshes of one token both succeed and the login then has two usable tokens; `docs/specification/workflows.md:11` admits that
  rotation is not atomic. A refresh in flight while a replay "kills every session" (`auth.service.ts:226`) inserts its
  successor afterwards. A client that repeats a refresh whose answer was lost is taken for a replay. `SequentialRotation` and `KilledStayDead` say what
  holds nevertheless.
* A browser's logout brings no refresh token, since the cookie is scoped to `/api/auth/refresh`, and revokes nothing (`docs/specification/workflows.md:13` says
  so, `README.md:31` promises a revocation).
* With `DEMO_ENABLED` and not `DEMO_ONLY`, ordinary users can log in and never refresh.
* `docs/demo/operations.md:17` says "Switch/logout invalidates local sockets immediately": not one that was authorized before and is
  watched after it, and not with a logout by cookie alone. The five-second check closes both (`OldSocketsClose`).
* "With the current state returned when joining" (`README.md:39`) is true at the moment of the join. A client is not told of the silent
  changes listed under Realtime, so none learns that processing has started, and a row that is retried is shown as FAILED until
  its next verdict; events of other processes never arrive (`docs/specification/api-contracts.md:271` says "best effort and local").
  `JoinedIsCurrent` promises the rest: what the own process has announced.
* A download URL of a demo user may outlive the session by less than a second (`resume.service.ts:397` grants at least one), where
  `docs/demo/frontend-handoff.md:100` says "at or before". `consumeDemoAi` asks for an open session, not for the current generation.

## 5. Proofs

TLC checks instances; the theorems hold for every set of jobs, users, requests, workers, keys, files, texts, skills,
answers, sockets and cleaners and for all limits. Every invariant of a passing run, every action property and the
refinement of `Hiring` have a theorem. Assumptions are the ASSUMEs of the modules, which TLC evaluates in every run: a
model value for "nobody" or "nothing" is not a member of the set it stands beside, constants have their types, owners
are companies, limits are positive (`demoConfig`); skills are finitely many and a point has parts enough to state the
weight of each (any multiple of the numbers of skills will do); a scenario names things of this system, and the sample
of a new demo workspace is a valid answer for its posting and resume.

* `JobApplicantsProofs`: `TypeCorrect`, `HiresAtMostOne`, `VersionIsHireCount`, `VersionGuards`,
  `AcknowledgementsHold`, `HiringImplemented`. The properties are not inductive by themselves: that a
  claim cannot hire twice needs to know what a request carries through its torn reads. `IInv` adds
  `ContextInv` (the status a decision read is one from which its transition is legal, the version it
  read is never ahead of the current one, and it is 0 once the third read has found nobody hired),
  `LockInv` (exactly the request inside a transaction holds the lock) and
  `TransactionInv` (in a transaction the version is still the one claimed, nobody is hired, the winner's row
  is untouched after its update, and the swept rows still have the winner's old status). One lemma per group of
  actions shows preservation. `HiringImplemented` maps every step to a step of `Hiring` or a
  stutter: `Commit` to `Hire`, `TransitionStatus` to `Reject` or `Complete`, the insert to `Apply`.
* `ApplicantEvaluationProofs`: `TypeCorrect`, `ResultIffCompleted`, `HolderKnowsAttempts`,
  `CompletionIsFinal` under any faults, from `IInv` (types; an active job has a holder; its holder's
  attempt is the job's). `OneExecution` from `SoleInv` (without stalls only the holder works).
  `DemoCallsCharged` and `DemoNeverForgotten` are about a demo identity without faults (`Quiet`): with
  faults both are false, as section 4 explains for the second; for the first, a run repeated after
  a crash was charged once. `DemoInv` makes them inductive: the charge
  covers the calls made, the call in progress and the one a pending row will make (`Credit`), and a pending row
  has a job, or a request or an execution that will see to it (`PendingServed`).
* `ResumeIngestionProofs`: `TypeCorrect`, `TextIffCompleted` and `CompletedProtected` under any faults from `IInv` (types; an
  active job has a holder; a text exactly on completed rows), `OneExecution` from `SoleInv` as above. `ProcessingRuns`
  (`ProcessingHasRunner`, without faults) needs `RunnerInv`: the holder of an active job is at work, and a PROCESSING row has a job that waits, an execution that is
  not through with its last attempt, or a request that has removed the finished job and is about to add a new one.
* `DemoCleanupProofs`: `TypeCorrect`, `NothingIsLeft` (DoneIsClean), `CleanedForGood` (DoneIsFinal),
  under any faults. `IInv` adds `Tracked` (every object and usable URL has a row), `ClosedIsRevoked`, and
  `RunKnows`: past ReadUploads a run knows every row, the objects not yet deleted are among the keys
  it has left, and no URL is usable any more. This is why a run that outlived its lease is harmless: its
  knowledge stays true. `CleanersAreApart` needs that a run at work owns an unexpired lease (`LeaseInv`);
  `NoLateCall` that past the check of the queue no execution can reach the LLM (`CallInv`).
* `AuthProofs`, of `Auth` alone: `RotationIsSingle`, `KilledLoginsStayDead`. Neither is inductive: between the revocation and
  the insertion a login has no usable token and a second one must not come from elsewhere. `IInv` says that rows are inserted in order (`OrderInv`),
  that a family belongs to one user (`FamilyInv`), that a request in flight carries an issued token and its
  user (`CarriesInv`), that a login without overlapping refreshes has at most one rotation, of its only usable token, and none
  usable once that is revoked (`OneInv`), and that a killed login has neither a usable token nor a rotation (`DeadInv`).
* `SessionsProofs` carries them over to a deployment: `DeploymentImplementsAuth` (`Spec => AP!Spec`: whatever the demo, its sockets and a
  shutdown do, ordinary accounts take only steps of `Auth`), and from it `RotationIsSingle` and `KilledLoginsStayDead` of `Sessions`.
* `DemoSessionsProofs`, over the specification of `Sessions`: `DeploymentImplementsDemo` (`Spec => DemoSpec`), `ChecksHold` (CheckedIsCurrent),
  `TokensAreSingle` (OneLiveToken), `LimitsOfCreation` (CreationLimits), `QuotasAreKept` (QuotasHold). `DemoInv` adds that the lock is held by exactly the
  request inside a transaction (in `DemoTypeOK`), that a request names a session that exists (`RequestInv`), that a session not created yet has no tokens
  (`FreshInv`), and that a creation that was allowed still is when it commits (`CreateInv`). The limits of use need two more parts: `BudgetInv` (counters are within
  their limits, and the day's is the sum of those of the addresses) and `GrantInv` (what a transaction found free is
  still free when it commits). A sum is the number of elements of a set of units, so that adding one to a counter adds one to the sum by
  a lemma about cardinalities and not by an induction.
* `SessionsProofs`, on top of the two: `JoinsMissNothing` (JoinedIsCurrent) from `SocketInv` (whoever entered a room is a member, no event is newer than the
  row, and whatever the process has emitted is known to a member that was answered, or covered by its second read while the answer is under way); `ExitIsOrderly` (OrderlyExit) from `ExitInv` (the
  code is 0 past the first close only if that close and start-up succeeded, and `exit` was called at most once); `DeploymentIsTyped` (TypeOK).
  `DeploymentImplementsAuth` is `Spec => AP!Spec`: whatever the demo, its sockets and a shutdown do, ordinary accounts take only
  steps of `Auth`, and so `RotationIsSingle` (SequentialRotation) and `KilledLoginsStayDead` (KilledStayDead) hold in every deployment.
* `EvaluationInputsProofs`: the three parts have an inductive invariant each, and the theorems follow from their conjunction.
  * `PostingsInv`: an update in flight of a posting that never had two carries the base price derived from the row as it still is
    (`UpdateAgrees`). This gives `SearchIsByPrice` (FilteredByPrice): a page holds only postings whose own price, converted, is in its range.
  * `ResumesInv`: a registration that will create its resume is the only one of it, and everything else in flight is about a registered
    resume (`WritersAgree`); an unregistered resume has no versions, and a completed version has the length of the file it was
    completed from (`VersionAgrees`). From it `CurrentHasVersion` (CurrentIsRegistered)
    and `DeletionLasts` (DeletedStaysDeleted), and for the next part `CompletedStays`: until a completed version is thrown away, a step
    leaves completed versions as they are.
  * `EvaluationsInv`: the version and text a request carries through its reads are, as long as no completed version was thrown away (`Keeps`),
    those still stored (`RequestAgrees`); a row keeps the text and snapshot its key names (`RowAgrees`), a worker has its row's
    (`WorkerAgrees`), a reader and the cache have results of completed rows (`ReadersAgree`). Rows only grow: a text once stored and a completed row never
    change (`RowsGrow`), which is why a late worker and a late cache write are harmless. From it `InputsStayFrozen` (InputsFrozen), `CacheIsCurrent`
    (CachedIsCurrent) and `InputsAreTyped`.
  * `EvidenceIsShown` (EvidenceIsQuoted) needs a lemma on validation: n different names out of n skills are all the skills (an injection
    between finite sets of one size is onto), and the rounded sum of contributions of at most 100 points is the nearest
    whole number, halves going up, from 0 to 100 (`ValidatedIsQuoted`). It holds for any list of skills, any text and whatever the model answers.

Only model-checked: liveness (`RequestsAnswered`, `EventuallyDecided`, `EventuallyDone`, `OldSocketsClose`), since the prover treats
neither ENABLED nor fairness. The four violated properties are refuted on their instances; the sum in doubles of `FullMarks`, a recursive
computation, is evaluated for each n up to `MaxCriteria`.

## 6. What the models leave out

* Authorization, validation of inputs, notifications and cache invalidation, unless a later step depends
  on them. An ownership check is a guard; a validation that may fail is a disjunct.
* Rejecting all applicants of a job (`rejectAllApplicants` has no caller).
* In `ApplicantEvaluation` and `ResumeIngestion`, the content of results (`verdict` and `text` name the execution
  they came from) and other evaluations and versions; `EvaluationInputs` has the contents and not the queue.
* In DemoCleanup, the resume queue, which the cleaner treats as it
  treats the evaluation queue, the batch of twenty sessions and its order, and the
  difference between the outcomes of an execution.
* A PUT that begins before its URL expires and ends after the object was deleted: whether S3
  accepts it is S3's business; the model has a PUT as one step.
* In the search, the filters by title, category and skill, paging and counts. In the redaction, the patterns: a file's redacted text
  is a function of its text, which may be empty.
* Password hashes, signatures and random values: a token is what it was issued as and cannot be guessed.
* BullMQ and PostgreSQL are what `QueueJob`, the row locks of `JobApplicants` and the advisory lock of `DemoSessions` say they are.

Not modelled: the caches of skills, categories and arrangements, since no request writes these tables and a cached list
therefore equals the table in whatever order loads and expiries come; logging, tracing, metrics, exception
mapping and the validation pipes, on which no state depends; performance and smoke scripts, seed and deployment,
which are not part of the running service. Of the LLM provider only the schema it enforces is modelled, of file storage
only what the bucket holds: the rest is input and output.

## 7. Plan

Done, in this order: Hiring and JobApplicants, QueueJob and ApplicantEvaluation, ResumeIngestion, DemoCleanup, each with its proofs;
then Auth, DemoSessions, Realtime, Shutdown and their composition; the inputs of evaluations; the sum in doubles; proofs of
all their safety properties.

What could follow: one session shared by `DemoSessions` and `DemoCleanup` (today the first ends a session by revocation or expiry and
the second begins there); sockets in the composition with the queue, to state that a joined applicant sees the verdict of `ApplicantEvaluation`; an
abstract specification of an evaluation that both `ApplicantEvaluation` and `EvaluationInputs` refine.

----------------------------- MODULE JobPostings -----------------------------
(***************************************************************************)
(* The postings of a company: creation, partial updates and the public     *)
(* search by budget.  A posting keeps its budget twice, in its own currency*)
(* and in the base currency the search compares; an update reads the row,  *)
(* derives the second from what it read, and writes later.                 *)
(*                                                                         *)
(* A request that fails a check (another owner, a past due date, a negative*)
(* budget, an unknown category, arrangement or skill) changes nothing.     *)
(***************************************************************************)
EXTENDS Integers, FiniteSets

CONSTANTS
  Jobs,       \* postings
  Skills,     \* skills a posting may list
  Texts,      \* the free text of a posting: title, description, requirements
  Budgets,    \* amounts a company asks for
  Editors,    \* slots for updates in flight
  NoJob,      \* not posted yet
  Unset       \* a field that was not sent

VARIABLES
  job,        \* job[j]: the row
  edit,       \* edit[q]: the update between its read and its write
  raced,      \* history: postings of which two updates overlapped
  page        \* the last answer of the search

postingVars == <<job, edit, raced, page>>

Currencies == {"VND", "USD"}
Statuses == {"OPEN", "CLOSED"}

ExchangeRateToBase == [VND |-> 1, USD |-> 25000]

ConvertToBase(amount, currency) == amount * ExchangeRateToBase[currency]

Rows == [text : Texts, skills : SUBSET Skills, status : Statuses, currency : Currencies,
         budget : Budgets \cap Nat, base : Nat]
Changes == [text : Texts \cup {Unset}, status : Statuses \cup {Unset}, budget : Budgets \cup {Unset}]

ASSUME PostingsAssumption == Budgets \subseteq Int /\ Unset \notin Budgets /\ NoJob \notin Rows

NoEdit == [job |-> NoJob]
NoPage == [min |-> 0, max |-> 0, items |-> {}]

PostingsTypeOK ==
  /\ job \in [Jobs -> Rows \cup {NoJob}]
  /\ \A q \in Editors : \/ edit[q] = NoEdit
                        \/ edit[q] \in [job : Jobs, change : Changes, base : Nat]
  /\ raced \subseteq Jobs
  /\ page \in [min : Nat, max : Nat,
               items : SUBSET [job : Jobs, budget : Nat, currency : Currencies]]

Posted(j) == job[j] # NoJob

-----------------------------------------------------------------------------
(* Job.validate: what was not sent is not checked. *)
ValidBudget(budget) == budget # Unset => budget >= 0

(* Job.create *)
NewRow(text, skills, status, currency, budget) ==
  [text |-> text, skills |-> skills, status |-> status, currency |-> currency,
   budget |-> budget, base |-> ConvertToBase(budget, currency)]

(* addJob: the row and its skills in one statement. *)
AddJob(j, row) == job' = [job EXCEPT ![j] = row]

(* createJobAsync: the lookups before it read what no request deletes. *)
CreateJob(j, text, skills, status, currency, budget) ==
  /\ ~Posted(j) /\ ValidBudget(budget)
  /\ AddJob(j, NewRow(text, skills, status, currency, budget))
  /\ UNCHANGED <<edit, raced, page>>

MutBaseAfter(row, change) == row.base

(* Job.update: only a new budget changes the derived one. *)
BaseAfter(row, change) ==
  IF change.budget = Unset THEN row.base ELSE ConvertToBase(change.budget, row.currency)

(* updateJobAsync up to the write: the row as it was read decides. *)
ReadJob(q, j, change) ==
  /\ edit[q] = NoEdit /\ Posted(j) /\ ValidBudget(change.budget)
  /\ edit' = [edit EXCEPT ![q] =
       [job |-> j, change |-> change, base |-> BaseAfter(job[j], change)]]
  /\ raced' = IF \E p \in Editors : edit[p].job = j THEN raced \cup {j} ELSE raced
  /\ UNCHANGED <<job, page>>

Given(new, old) == IF new = Unset THEN old ELSE new

(* updateJob: fields that were not sent are undefined and stay as they are *)
(* in the database; the derived budget is always written.                  *)
WriteJob(q) ==
  /\ edit[q] # NoEdit
  /\ LET j == edit[q].job
         change == edit[q].change
     IN  job' = [job EXCEPT ![j].text = Given(change.text, @),
                            ![j].status = Given(change.status, @),
                            ![j].budget = Given(change.budget, @),
                            ![j].base = edit[q].base]
  /\ edit' = [edit EXCEPT ![q] = NoEdit]
  /\ UNCHANGED <<raced, page>>

UpdateFails(q) ==
  /\ edit[q] # NoEdit
  /\ edit' = [edit EXCEPT ![q] = NoEdit]
  /\ UNCHANGED <<job, raced, page>>

(* getListJobs: open postings whose budget in the base currency is in the  *)
(* range.                                                                  *)
Listed(j, min, max) == Posted(j) /\ job[j].status = "OPEN" /\ job[j].base \in min..max

(* They are answered in their own currency.  The number of matches and the *)
(* numbers of applicants come from queries of their own and are left out.  *)
Item(j) == [job |-> j, budget |-> job[j].budget, currency |-> job[j].currency]

SearchJobs(min, max) ==
  /\ page' = [min |-> min, max |-> max, items |-> {Item(j) : j \in {i \in Jobs : Listed(i, min, max)}}]
  /\ UNCHANGED <<job, edit, raced>>

EditStep(q) == WriteJob(q) \/ UpdateFails(q)

-----------------------------------------------------------------------------
(* Job search (README.md: "Budget filters use VND as the base currency"):  *)
(* whatever edits a posting has seen, a search answers it only if what it  *)
(* pays, converted, is in the range that was asked for.  Two updates that  *)
(* overlapped may have left the derived budget of a posting stale for good *)
(* (the second write brings back the one it read).                         *)
FilteredByPrice ==
  \A item \in page.items :
    item.job \notin raced => ConvertToBase(item.budget, item.currency) \in page.min..page.max
=============================================================================

-------------------------- MODULE MCEvaluationInputs --------------------------
(* EvaluationInputs in several scenarios, each with its own operations. *)
EXTENDS EvaluationInputs, TLC

CONSTANTS f1, f2, f3, k1, k2, q1, q2, sa, sb, t1, t2, w1, w2, x1, x2

(* f1 and f2 have the same length; the text of f1 names sa twice; f3 is    *)
(* longer than a demo session may have evaluated.                          *)
TextOf == f1 :> <<sa, sb, sa>> @@ f2 :> <<sb>> @@ f3 :> <<sb, sb, sb, sb>>
SizeOf == f1 :> 1 @@ f2 :> 1 @@ f3 :> 2

Ref(symbol, start) == [snippet |-> <<symbol>>, start |-> start, end |-> start + 1]

Result(skill, verdict, points, refs) ==
  [criterion |-> skill, verdict |-> verdict, points |-> points, refs |-> refs]

(* Answers for two criteria and for one: right and wrong offsets of quotes *)
(* that occur once, twice and never, contributions that do not fit their   *)
(* weight or the schema.                                                   *)
ForA == {Result(sa, "MATCHED", 100, {Ref(sa, 2)}), Result(sa, "PARTIAL", 25, {Ref(sa, 1)}),
         Result(sa, "PARTIAL", 25, {}), Result(sa, "MISSING", 0, {})}
ForB == {Result(sb, "PARTIAL", 50, {Ref(sb, 0)}), Result(sb, "MATCHED", 101, {Ref(sb, 1)}),
         Result(sb, "MATCHED", 201, {Ref(sb, 0)}), Result(sb, "MISSING", 25, {}), Result(sb, "MISSING", 0, {})}
SomeAnswers == {<<a, b>> : a \in ForA, b \in ForB} \cup {<<a, a>> : a \in ForA} \cup {<<b>> : b \in ForB}

(* One amount no posting may have. *)
SomeBudgets == {-1, 1, 2}

TextEdit == [text |-> t2, status |-> Unset, budget |-> Unset]
Edits == [text : {Unset}, status : {"CLOSED", Unset}, budget : Budgets \cup {Unset}]
Drafts == [text : {t1}, skills : {{sa}}, status : {"OPEN"}, currency : Currencies, budget : Budgets]
Ranges == {<<0, 1>>, <<2, 2>>, <<2, 25000>>, <<50000, 1>>}

Applied == [applied |-> TRUE, demo |-> FALSE, legacy |-> FALSE, key |-> k1, file |-> f1, extracted |-> TRUE,
            text |-> t1, skills |-> {sa, sb}, drafts |-> {}, changes |-> {}, ranges |-> {},
            files |-> {}, writers |-> {}, extractors |-> {x1}, workers |-> {w1}, may |-> {}]

Mixes == {
  \* postings, their edits and the search
  [Applied EXCEPT !.applied = FALSE, !.drafts = Drafts, !.changes = Edits, !.ranges = Ranges,
                  !.may = {"post", "search"}],
  \* uploads, registrations and deletions
  [Applied EXCEPT !.applied = FALSE, !.files = {f1, f2}, !.writers = {q1, q2}, !.may = {"upload", "delete"}],
  \* evaluations while the posting is edited
  [Applied EXCEPT !.changes = {TextEdit}, !.workers = {w1, w2}, !.may = {"evaluate", "view"}],
  \* evaluations while the resume is replaced
  [Applied EXCEPT !.skills = {sb}, !.files = {f2}, !.writers = {q1}, !.may = {"evaluate", "upload"}],
  \* evaluations while the object of a new version is overwritten
  [Applied EXCEPT !.skills = {sb}, !.extracted = FALSE, !.files = {f2}, !.writers = {q1},
                  !.extractors = {x1, x2}, !.may = {"evaluate"}],
  \* a posting without skills, and a row of an older release
  [Applied EXCEPT !.skills = {}, !.legacy = TRUE, !.files = {f2}, !.writers = {q1},
                  !.may = {"evaluate", "upload"}],
  \* a demo workspace, whose session may end
  [Applied EXCEPT !.demo = TRUE, !.files = {f3}, !.writers = {q1},
                  !.may = {"evaluate", "upload", "expire"}]}
=============================================================================

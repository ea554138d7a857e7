------------------------------ MODULE Evidence ------------------------------
(***************************************************************************)
(* The V2 result of an evaluation: the criteria a job's skills become, the *)
(* redacted text, the answer of the language model and what the code makes *)
(* of it.  A text is a sequence of symbols, a snippet too.  Contributions  *)
(* are counted in parts of a point; the sum in doubles is in FullMarks.    *)
(***************************************************************************)
EXTENDS Integers, Sequences, FiniteSets, FiniteSetsExt

CONSTANTS
  Files,      \* what a resume file may contain, byte for byte
  Readable,   \* those whose text can be extracted
  Redacted,   \* Redacted[f]: the redacted text of file f
  Parts       \* what a point is divided into

(* Redaction: the header lines that name somebody, addresses, mails, links *)
(* and phone numbers are replaced; the same text always becomes the same.  *)
(* Text that is empty after normalization is an error, like text that was  *)
(* never extracted.                                                        *)
CanRedact(file) == file \in Readable /\ Redacted[file] # <<>>

(* JobCriterion: one per skill, however often the skill is listed. *)
Hundred == 100 * Parts
Weight(skills) == Hundred \div Cardinality(skills)

(* String.slice and String.indexOf, offsets from 0 as in the code. *)
Slice(string, start, end) == SubSeq(string, start + 1, end)

Matches(string, snippet) ==
  {p \in 0..(Len(string) - Len(snippet)) : Slice(string, p, p + Len(snippet)) = snippet}

InRange(string, ref) == 0 <= ref.start /\ ref.start < ref.end /\ ref.end <= Len(string)

Quotes(string, ref) == InRange(string, ref) /\ Slice(string, ref.start, ref.end) = ref.snippet

(* A quote at wrong offsets is moved to its only match; a missing or an    *)
(* ambiguous one is left for the validation to refuse.                     *)
ResolveReference(string, ref) ==
  IF Quotes(string, ref) \/ ref.snippet = <<>> \/ Cardinality(Matches(string, ref.snippet)) # 1
    THEN ref
    ELSE LET start == CHOOSE p \in Matches(string, ref.snippet) : TRUE
         IN  [ref EXCEPT !.start = start, !.end = start + Len(ref.snippet)]

Resolve(string, answer) ==
  [i \in DOMAIN answer |->
     [answer[i] EXCEPT !.refs = {ResolveReference(string, ref) : ref \in @}]]

(* APPLICANT_EVALUATION_RESPONSE_SCHEMA_V2: a contribution up to 100. *)
FitsSchema(answer) ==
  \A i \in DOMAIN answer :
    /\ answer[i].verdict \in {"MATCHED", "PARTIAL", "MISSING"}
    /\ answer[i].points \in 0..Hundred
    /\ \A ref \in answer[i].refs : ref.start >= 0 /\ ref.end >= 0

(* A contribution, a verdict and the references must fit together. *)
MutValidResult(skills, string, result) ==
  /\ result.criterion \in skills
  /\ result.points \in 0..Weight(skills)
  /\ \/ result.verdict = "MISSING" /\ result.points = 0
     \/ result.verdict \in {"MATCHED", "PARTIAL"} /\ result.points > 0 /\ result.refs # {}

ValidResult(skills, string, result) ==
  /\ result.criterion \in skills
  /\ result.points \in 0..Weight(skills)
  /\ \/ result.verdict = "MISSING" /\ result.points = 0
     \/ result.verdict \in {"MATCHED", "PARTIAL"} /\ result.points > 0 /\ result.refs # {}
  /\ \A ref \in result.refs : Quotes(string, ref)

(* The sum of the contributions, part by part. *)
Points(answer) == Cardinality(UNION {{i} \X (1..answer[i].points) : i \in DOMAIN answer})

(* Every criterion once, and no more than 100 points in all. *)
Validated(skills, string, answer) ==
  /\ skills # {}
  /\ Len(answer) = Cardinality(skills)
  /\ \A i, k \in DOMAIN answer : answer[i].criterion = answer[k].criterion => i = k
  /\ \A i \in DOMAIN answer : ValidResult(skills, string, answer[i])
  /\ Points(answer) <= Hundred

(* Math.round: halves go up. *)
OverallScore(answer) == (2 * Points(answer) + Parts) \div (2 * Parts)

(* The sample answer of a new workspace: a skill is matched where the text *)
(* names it first.                                                         *)
SampleResult(skills, string, skill) ==
  LET found == Matches(string, <<skill>>)
      start == Min(found)
  IN  IF found = {}
        THEN [criterion |-> skill, verdict |-> "MISSING", points |-> 0, refs |-> {}]
        ELSE [criterion |-> skill, verdict |-> "MATCHED", points |-> Weight(skills),
              refs |-> {[snippet |-> <<skill>>, start |-> start, end |-> start + 1]}]
=============================================================================

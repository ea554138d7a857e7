------------------------------ MODULE FullMarks ------------------------------
(***************************************************************************)
(* The sum of the contributions of a V2 answer in doubles, for a candidate *)
(* who matches every criterion and is given the full weight of each.       *)
(*                                                                         *)
(* With n criteria, a double between 1 and 128 is written as               *)
(*                                                                         *)
(*    k * 100 / n  +  error / (n * 2^52)                                   *)
(*                                                                         *)
(* where k is how many weights it stands for: in units of 1 / (n * 2^52)   *)
(* the sums are integers, and the neighbours of a double between 2^b and   *)
(* 2^(b+1) are n * 2^b units away.  The error alone is small, and all that *)
(* rounding needs of the large part is its remainder.                      *)
(***************************************************************************)
EXTENDS Integers

CONSTANT MaxCriteria   \* the longest list of skills that is tried, at most 100

VARIABLES
  n,       \* the number of criteria
  k,       \* how many contributions have been added to total
  total    \* the error of the sum so far

marksVars == <<n, k, total>>

Two[i \in 0..6] == IF i = 0 THEN 1 ELSE 2 * Two[i - 1]

(* Whether k * 100 / n + error / (n * 2^52) is below 2^b. *)
Below(c, j, error, b) == j * 100 < c * Two[b] \/ (j * 100 = c * Two[b] /\ error < 0)

(* The distance of neighbouring doubles around a number from 1 up to 128. *)
Ulp(c, j, error) == c * Two[CHOOSE b \in 0..6 : /\ ~Below(c, j, error, b)
                                                /\ b < 6 => Below(c, j, error, b + 1)]

(* (j * 100 * 2^52 + error) % m, by doubling. *)
Remainder(j, error, m) ==
  LET doubled[i \in 0..52] == IF i = 0 THEN (j * 100) % m ELSE (2 * doubled[i - 1]) % m
  IN  (doubled[52] + error) % m

(* Round to nearest; a tie goes to the even neighbour. *)
Rounded(c, j, error) ==
  LET ulp == Ulp(c, j, error)
      r == Remainder(j, error, ulp)
      even == Remainder(j, error, 2 * ulp) < ulp
  IN  IF 2 * r < ulp \/ (2 * r = ulp /\ even) THEN error - r ELSE error - r + ulp

(* weight: 100 / skills.length *)
WeightError == Rounded(n, 1, 0)

Init == n \in 1..MaxCriteria /\ k = 0 /\ total = 0

(* total += result.scoreContribution *)
AddContribution ==
  /\ k < n
  /\ k' = k + 1
  /\ total' = Rounded(n, k + 1, total + WeightError)
  /\ UNCHANGED n

Next == AddContribution

Spec == Init /\ [][Next]_marksVars

-----------------------------------------------------------------------------
(* README.md:46: the "equal weights" are "totaling 100".  The validation   *)
(* refuses an answer whose total is above 100; a candidate who matches     *)
(* every criterion in full is not refused.                                 *)
FullMarksAccepted == k = n => total <= 0
=============================================================================

------------------------------ MODULE Reports ------------------------------
(***************************************************************************)
(* What the verifier and the reflector make of the model's JSON object:    *)
(* _validate_report (backend/agents/verifier.py) and _validate_reflection  *)
(* (backend/agents/reflector.py).                                          *)
(*                                                                         *)
(* A score is a record: a number of ten-thousandths, NaN or an infinity    *)
(* (Python's JSON parser reads both), absent, or bad, which float rejects. *)
(***************************************************************************)
EXTENDS Prompts

Number(n) == [kind |-> "number", n |-> n]
Infinity == [kind |-> "infinity"]
NaN == [kind |-> "nan"]
Absent == [kind |-> "absent"]
Bad == [kind |-> "bad"]
Scores == [kind : {"number"}, n : Int] \cup {Infinity, NaN, Absent, Bad}

_QUALITY_THRESHOLD == 8500
_DIMENSIONS == {"completeness", "accuracy", "quality", "efficiency", "format_score"}

(* max(0.0, min(1.0, v)), 0.0 where there is none.  min(1.0, NaN) is 1.0.  *)
Clamp(v) ==
    CASE v.kind = "number" -> IF v.n < 0 THEN 0 ELSE AtMost(v.n, 10000)
      [] v.kind \in {"infinity", "nan"} -> 10000
      [] v.kind = "absent" -> 0

(* A reflection has a score, the dimensions that the object gives, whether *)
(* they are an object, the lengths of its directives, and whether they can *)
(* be joined.                                                              *)
Dimension(r, d) == IF d \in DOMAIN r.dims THEN r.dims[d] ELSE Absent

(* float, setdefault or join raises, and the exception leaves the agent.   *)
ReflectionRaises(r) ==
    \/ r.score = Bad
    \/ ~r.object
    \/ \E d \in _DIMENSIONS : Dimension(r, d) = Bad
    \/ ~r.joinable

DimensionSum(r) ==
    LET v(d) == Clamp(Dimension(r, d))
    IN  v("completeness") + v("accuracy") + v("quality") + v("efficiency") + v("format_score")

(* Mutant: the model's own score stands.                                   *)
QualityAsClaimed(r) == Clamp(r.score)

(* The mean, rounded to four digits, if some dimension is positive; else   *)
(* the model's own score.                                                  *)
Quality(r) == IF DimensionSum(r) > 0 THEN (2 * DimensionSum(r) + 5) \div 10 ELSE Clamp(r.score)

_validate_reflection(r) ==
    [quality_score |-> Quality(r), pass |-> Quality(r) >= _QUALITY_THRESHOLD,
     feedback |-> Joined(SubSeq(r.directives, 1, AtMost(5, Len(r.directives))), 1)]

-----------------------------------------------------------------------------
_REQUIRED_KEYS == {"overall_pass", "completeness", "factual_grounding", "format_compliance"}
VerifierDims == _REQUIRED_KEYS \ {"overall_pass"}

(* An entry of a report: an object's claim, or something else.             *)
Failing == [object |-> TRUE, pass |-> FALSE]
FailingReport == [k \in _REQUIRED_KEYS |-> Failing]

Complete(r) == _REQUIRED_KEYS \subseteq DOMAIN r

(* A report that misses a key is replaced by a failing one; a dimension    *)
(* that is not an object fails.  overall_pass is the model's own.          *)
_validate_report(r) ==
    IF Complete(r)
    THEN [k \in DOMAIN r |-> IF k \in VerifierDims /\ ~r[k].object THEN Failing ELSE r[k]]
    ELSE FailingReport
=============================================================================

------------------------------ MODULE Prompts ------------------------------
(***************************************************************************)
(* The context builders of backend/core/context.py, by length: a text is   *)
(* the number of its characters, an id the number of its characters too.   *)
(* Headings have their true lengths.  Characters that JSON escapes are     *)
(* counted once.                                                           *)
(*                                                                         *)
(* A state has the lengths that the builders read: goal, memory (a         *)
(* sequence of goals and previews), iteration, feedback, task, plan,       *)
(* research and outputs (sequences of entries with an id and a text),      *)
(* report and errors (a sequence of texts).                                *)
(***************************************************************************)
EXTENDS Integers, Sequences

_CHARS_PER_TOKEN == 4
_PLANNER_INPUT_BUDGET == 4000 * _CHARS_PER_TOKEN
_EXECUTOR_INPUT_BUDGET == 8000 * _CHARS_PER_TOKEN
_VERIFIER_INPUT_BUDGET == 12000 * _CHARS_PER_TOKEN
_REFLECTOR_INPUT_BUDGET == 8000 * _CHARS_PER_TOKEN
_CONTEXT_SUMMARISE_THRESHOLD == 6000 * _CHARS_PER_TOKEN

Entries == Seq([id : Nat, text : Nat])

States(agent) ==
    CASE agent = "planner" -> [goal : Nat, memory : Seq([goal : Nat, preview : Nat]),
                               iteration : Nat, feedback : Nat]
      [] agent = "executor" -> [task : [id : Nat, description : Nat, hints : Nat, research : Nat],
                                outputs : Entries]
      [] agent = "verifier" -> [goal : Nat, plan : Nat, research : Entries, outputs : Entries]
      [] agent = "reflector" -> [goal : Nat, report : Nat, outputs : Entries, errors : Seq(Nat)]

Budget(agent) ==
    CASE agent = "planner" -> _PLANNER_INPUT_BUDGET
      [] agent = "executor" -> _EXECUTOR_INPUT_BUDGET
      [] agent = "verifier" -> _VERIFIER_INPUT_BUDGET
      [] agent = "reflector" -> _REFLECTOR_INPUT_BUDGET

AtMost(n, m) == IF n < m THEN n ELSE m

(* text[:k] of a text of n characters: a negative k counts from the end.   *)
Slice(n, k) == IF k >= 0 THEN AtMost(n, k) ELSE n - AtMost(n, -k)

(* "\n... [label truncated to N tokens]"                                   *)
Suffix(max, label) ==
    LET tokens == max \div _CHARS_PER_TOKEN
    IN  28 + label + (IF tokens >= 10000 THEN 5 ELSE IF tokens >= 1000 THEN 4 ELSE 3)

(* Mutant: the suffix is added to what is already max long.                *)
TruncatedOver(text, max, label) == IF text <= max THEN text ELSE max + Suffix(max, label)

(* A suffix longer than max makes the slice count from the end, and the    *)
(* result longer than max.                                                 *)
_truncate(text, max, label) ==
    IF text <= max THEN text
    ELSE Slice(text, max - Suffix(max, label)) + Suffix(max, label)

Total(lengths) ==
    LET upTo[i \in 0..Len(lengths)] == IF i = 0 THEN 0 ELSE upTo[i - 1] + lengths[i]
    IN  upTo[Len(lengths)]

(* sep.join of texts, sep having n characters.                             *)
Joined(texts, n) == Total(texts) + (IF texts = << >> THEN 0 ELSE n * (Len(texts) - 1))

(* _to_json of a dict of texts, and of a list of texts.                    *)
JsonMap(m) == 2 + Joined([i \in DOMAIN m |-> m[i].id + m[i].text + 6], 2)
JsonList(texts) == 2 + Joined([i \in DOMAIN texts |-> texts[i] + 2], 2)

_summarise_map(m) ==
    [i \in DOMAIN m |-> [m[i] EXCEPT !.text = _truncate(@, 500 * _CHARS_PER_TOKEN, m[i].id)]]

_maybe_summarise(m) == IF JsonMap(m) > _CONTEXT_SUMMARISE_THRESHOLD THEN _summarise_map(m) ELSE m

-----------------------------------------------------------------------------
(* The parts of each context, joined by blank lines and then truncated.    *)

PlannerParts(s) ==
    <<6 + s.goal>>
    \o (IF s.memory = << >> THEN << >>
        ELSE LET items == SubSeq(s.memory, 1, AtMost(5, Len(s.memory)))
                 line(m) == 12 + m.goal + AtMost(200, m.preview)
             IN  <<Joined(<<0, 44>> \o [i \in DOMAIN items |-> line(items[i])], 1)>>)
    \o (IF s.iteration > 1 THEN <<82 + s.feedback + 52>> ELSE << >>)

(* research and outputs are what the state has for the task's id and for   *)
(* the ids it depends on.                                                  *)
ExecutorParts(s) ==
    LET line(d) == 4 + d.id + _truncate(d.text, 1000 * _CHARS_PER_TOKEN, d.id)
    IN  <<9 + s.task.id, 13 + s.task.description, 12 + s.task.hints,
          32 + _truncate(s.task.research, 3000 * _CHARS_PER_TOKEN, 16)>>
        \o (IF s.outputs = << >> THEN << >>
            ELSE <<27 + Joined([i \in DOMAIN s.outputs |-> line(s.outputs[i])], 1)>>)
        \o <<58>>

VerifierParts(s) ==
    <<15 + s.goal, 11 + s.plan, 31 + JsonMap(_maybe_summarise(s.research)),
      19 + _truncate(JsonMap(_maybe_summarise(s.outputs)), 8000 * _CHARS_PER_TOKEN, 16), 99>>

ReflectorParts(s) ==
    LET last == SubSeq(s.errors, IF Len(s.errors) > 10 THEN Len(s.errors) - 9 ELSE 1, Len(s.errors))
    IN  <<15 + s.goal, 17, 17 + s.report,
          38 + _truncate(JsonMap(s.outputs), 4000 * _CHARS_PER_TOKEN, 16), 21 + JsonList(last)>>

Parts(agent, s) ==
    CASE agent = "planner" -> PlannerParts(s)
      [] agent = "executor" -> ExecutorParts(s)
      [] agent = "verifier" -> VerifierParts(s)
      [] agent = "reflector" -> ReflectorParts(s)

(* Length of the user message; the label is the agent's name and           *)
(* "_context".                                                             *)
Label(agent) == IF agent = "planner" THEN 15 ELSE IF agent = "reflector" THEN 17 ELSE 16
Context(agent, s) == _truncate(Joined(Parts(agent, s), 2), Budget(agent), Label(agent))

(* Nothing was cut off the end, where the instructions are.                *)
Whole(agent, s) == Joined(Parts(agent, s), 2) <= Budget(agent)
=============================================================================

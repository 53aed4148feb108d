---------------------------- MODULE MCAgentCall ----------------------------
(* Prompts below and far above their limits, an id longer than the text it *)
(* labels, and answers at the edges of what the validators accept.         *)
EXTENDS AgentCall

Texts(n, id, text) == [i \in 1..n |-> [id |-> id, text |-> text]]

Task(model, description, outputs) ==
    [assigned_model |-> model,
     state |-> [task |-> [id |-> 6, description |-> description, hints |-> 56, research |-> 20000],
                outputs |-> outputs]]

Reasoning(s) == <<[assigned_model |-> "reasoning", state |-> s]>>

MCJobs ==
    [plan_first |-> [name |-> "planner", calls |-> Reasoning(
        [goal |-> 4000, memory |-> << >>, iteration |-> 1, feedback |-> 0])],
     plan_again |-> [name |-> "planner", calls |-> Reasoning(
        [goal |-> 4000, memory |-> [i \in 1..5 |-> [goal |-> 500, preview |-> 300]],
         iteration |-> 2, feedback |-> 20000])],
     two_tasks |-> [name |-> "executor",
        calls |-> <<Task("code", 2000, << >>), Task("extract", 2000, Texts(4, 6, 9000))>>],
     many_outputs |-> [name |-> "executor", calls |-> <<Task("reasoning", 2000, Texts(6, 6, 9000))>>],
     long_id |-> [name |-> "executor", calls |-> <<Task("reasoning", 2000, Texts(4, 5000, 9000))>>],
     verify |-> [name |-> "verifier", calls |-> Reasoning(
        [goal |-> 4000, plan |-> 6000, research |-> Texts(10, 6, 9000), outputs |-> Texts(10, 6, 9000)])],
     reflect |-> [name |-> "reflector", calls |-> Reasoning(
        [goal |-> 4000, report |-> 9000, outputs |-> Texts(10, 6, 9000), errors |-> [i \in 1..12 |-> 500]])]]

Scored(claim, v) ==
    [score |-> claim, dims |-> [d \in _DIMENSIONS |-> v], object |-> TRUE,
     directives |-> [i \in 1..6 |-> 100], joinable |-> TRUE]
But(r, d, v) == [r EXCEPT !.dims[d] = v]

MCReflections ==
    [good |-> Scored(Number(9000), Number(9000)),
     claimed |-> Scored(Number(10000), Number(2000)),
     partial |-> [Scored(NaN, Number(10000)) EXCEPT !.dims = [d \in _DIMENSIONS \ {"accuracy"} |-> Number(12000)]],
     least |-> But(Scored(Number(0), Number(10000)), "accuracy", Number(2498)),
     below |-> But(Scored(Number(10000), Infinity), "quality", Number(2497)),
     unscored |-> [Scored(Number(9000), NaN) EXCEPT !.dims = << >>],
     negative |-> Scored(Absent, Number(-1)),
     not_numbers |-> Scored(Absent, NaN),
     bad_score |-> Scored(Bad, Number(9000)),
     bad_dimension |-> But(Scored(Number(9000), Number(9000)), "efficiency", Bad),
     bad_dimensions |-> [Scored(Number(9000), Number(9000)) EXCEPT !.object = FALSE],
     bad_directives |-> [Scored(Number(9000), Number(9000)) EXCEPT !.joinable = FALSE]]

Passing == [object |-> TRUE, pass |-> TRUE]
MCReported ==
    [full |-> [k \in _REQUIRED_KEYS |-> Passing],
     missing |-> [k \in _REQUIRED_KEYS \ {"factual_grounding"} |-> Passing],
     flat |-> [k \in _REQUIRED_KEYS |-> [Passing EXCEPT !.object = (k = "completeness")]]]
=============================================================================

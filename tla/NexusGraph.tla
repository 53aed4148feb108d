----------------------------- MODULE NexusGraph -----------------------------
(***************************************************************************)
(* The agent pipeline of backend/core/graph.py: planner, researcher,       *)
(* executor, verifier, reflector and output nodes, the two conditional     *)
(* edges, and the loop detector of backend/core/loop_detector.py.          *)
(*                                                                         *)
(* Runs are the graph executions of ONE session.  Normally there is one;   *)
(* backend/api/ws/run.py starts a second when a second WebSocket connects  *)
(* while the session is still pending.  Every run has its own channels     *)
(* (NexusState, a fresh MemorySaver) and shares the Redis set              *)
(* nexus:loop_detector:{session_id}.                                       *)
(*                                                                         *)
(* A node is one step, as in LangGraph: its updates are written when it    *)
(* returns, and nothing else reads the channels meanwhile.                 *)
(***************************************************************************)
EXTENDS Naturals

CONSTANTS
    Runs,
    Bodies,         \* what _plan_hash reads of a plan: ids, descriptions, deps, models
    Hints,          \* the part of a plan that the hash ignores: tool_hints
    Plans,          \* the plans the PlannerAgent may return
    Scores,         \* quality scores in units of 1/10000
    Threshold,      \* _QUALITY_THRESHOLD
    MaxIterations,  \* max_iterations of initial_state
    RecursionLimit, \* LangGraph's bound on supersteps (25 unless configured)
    MaxLapses       \* bound: Redis errors and key expiries explored

ASSUME PlanAssumption ==
    /\ Plans \subseteq [body : Bodies, hints : Hints, size : 1..10]
    /\ \A p, q \in Plans : p.body = q.body => p.size = q.size

ASSUME ScoreAssumption ==
    /\ Scores \subseteq 0..10000
    /\ 0 \in Scores
    /\ Threshold \in 1..10000

ASSUME IterationAssumption == MaxIterations \in Nat \ {0}

ASSUME RecursionAssumption ==
    /\ RecursionLimit \in Nat
    /\ 5 * MaxIterations + 1 <= RecursionLimit

ASSUME LapseAssumption == MaxLapses \in Nat

Disclaimers == {"none", "loop_detected", "max_iterations_reached"}
Errors == {"planner", "loop", "executor"}
Nodes == {"planner", "researcher", "executor", "verifier", "reflector", "output"}

(* The empty task_plan of initial_state.                                   *)
NoPlan == [body |-> "empty", hints |-> "empty", size |-> 0]

VARIABLES
    pc,               \* the node each run executes next; "done" (END) or "failed" (raised)
    iteration_count,
    task_plan,
    quality_score,
    disclaimer,
    error_log,        \* the kinds of entries in error_log
    seen,             \* Redis set of plan hashes of the session
    lapses,           \* Redis errors and expiries so far
    passes,           \* history: how often a plan body was let through the detector
    misses,           \* history: how often the detector lost track of a body
    supersteps        \* history: nodes each run has executed

channels == <<iteration_count, task_plan, quality_score, disclaimer, error_log>>
redis == <<seen, lapses, passes, misses>>
vars == <<pc, channels, redis, supersteps>>

TypeOK ==
    /\ pc \in [Runs -> Nodes \cup {"done", "failed"}]
    /\ iteration_count \in [Runs -> Nat]
    /\ task_plan \in [Runs -> Plans \cup {NoPlan}]
    /\ quality_score \in [Runs -> Scores]
    /\ disclaimer \in [Runs -> Disclaimers]
    /\ error_log \in [Runs -> SUBSET Errors]
    /\ seen \in SUBSET Bodies
    /\ lapses \in 0..MaxLapses
    /\ passes \in [Bodies -> Nat]
    /\ misses \in [Bodies -> Nat]
    /\ supersteps \in [Runs -> Nat]

Init ==
    /\ pc = [r \in Runs |-> "planner"]
    /\ iteration_count = [r \in Runs |-> 0]
    /\ task_plan = [r \in Runs |-> NoPlan]
    /\ quality_score = [r \in Runs |-> 0]
    /\ disclaimer = [r \in Runs |-> "none"]
    /\ error_log = [r \in Runs |-> {}]
    /\ seen = {}
    /\ lapses = 0
    /\ passes = [b \in Bodies |-> 0]
    /\ misses = [b \in Bodies |-> 0]
    /\ supersteps = [r \in Runs |-> 0]

Goto(r, node) ==
    /\ pc' = [pc EXCEPT ![r] = node]
    /\ supersteps' = [supersteps EXCEPT ![r] = @ + 1]

-----------------------------------------------------------------------------
(* Loop detector.                                                          *)

(* sorted() over more than one dict raises TypeError, so only plans of one *)
(* task have a hash.  The hash covers everything of a task but its         *)
(* tool_hints.                                                             *)
Hashable(p) == p.size = 1
_plan_hash(p) == p.body

(* Mutants: the answer of SADD is ignored; its 1 (added) is read as        *)
(* "already there".                                                        *)
AnswerIgnored(h) == "new"
AnswerInverted(h) == IF h \in seen THEN "new" ELSE "loop"

(* SADD answers 0 when the member was there.                               *)
Answer(h) == IF h \in seen THEN "loop" ELSE "new"

(* The possible outcomes of LoopDetector.check(p): the TypeError of        *)
(* _plan_hash, which the planner node logs and ignores; SADD and EXPIRE    *)
(* both succeed; or Redis fails before or after the SADD took effect, and  *)
(* check answers False.                                                    *)
CheckOutcomes(p) ==
    LET h == _plan_hash(p)
        outcome(answer, set, lapse) == [answer |-> answer, seen |-> set, lapse |-> lapse]
    IN  IF ~Hashable(p)
        THEN {outcome("new", seen, 0)}
        ELSE {outcome(Answer(h), seen \cup {h}, 0)}
             \cup (IF lapses < MaxLapses
                   THEN {outcome("new", seen, 1), outcome("new", seen \cup {h}, 1)}
                   ELSE {})

(* The key expires one hour after the last check of the session.           *)
LoopSetExpires ==
    /\ seen # {}
    /\ lapses < MaxLapses
    /\ lapses' = lapses + 1
    /\ misses' = [b \in Bodies |-> IF b \in seen THEN misses[b] + 1 ELSE misses[b]]
    /\ seen' = {}
    /\ UNCHANGED <<pc, channels, passes, supersteps>>

-----------------------------------------------------------------------------
(* Conditional edges, on the channels as the node leaves them.             *)

(* Mutant: the disclaimer is not looked at.                                *)
RouteAfterPlannerAlways(d) == "researcher"

_route_after_planner(d) == IF d # "none" THEN "output" ELSE "researcher"

(* Mutant: one iteration too many.                                         *)
RouteAfterReflectorLate(quality, iteration) ==
    IF quality >= Threshold \/ iteration > MaxIterations THEN "output" ELSE "planner"

(* Mutant: the gate is strict.                                             *)
RouteAfterReflectorStrict(quality, iteration) ==
    IF quality > Threshold \/ iteration >= MaxIterations THEN "output" ELSE "planner"

_route_after_reflector(quality, iteration) ==
    IF quality >= Threshold \/ iteration >= MaxIterations THEN "output" ELSE "planner"

-----------------------------------------------------------------------------
(* Planner node.                                                           *)

(* The hard cap, before the agent is called.                               *)
HardCap(r) ==
    /\ disclaimer' = [disclaimer EXCEPT ![r] = "max_iterations_reached"]
    /\ UNCHANGED <<task_plan, error_log, redis>>

(* The agent raised: LLM retries exhausted, malformed JSON or an invalid   *)
(* DAG.  The previous plan stays in the channel and the detector is not    *)
(* asked.                                                                  *)
PlannerError(r) ==
    /\ error_log' = [error_log EXCEPT ![r] = @ \cup {"planner"}]
    /\ UNCHANGED <<task_plan, disclaimer, redis>>

NewPlan(r, p) ==
    \E c \in CheckOutcomes(p) :
        /\ task_plan' = [task_plan EXCEPT ![r] = p]
        /\ seen' = c.seen
        /\ lapses' = lapses + c.lapse
        /\ misses' = [misses EXCEPT ![p.body] = @ + c.lapse]
        /\ IF c.answer = "loop"
           THEN /\ disclaimer' = [disclaimer EXCEPT ![r] = "loop_detected"]
                /\ error_log' = [error_log EXCEPT ![r] = @ \cup {"loop"}]
                /\ UNCHANGED passes
           ELSE /\ passes' = [passes EXCEPT ![p.body] = @ + 1]
                /\ UNCHANGED <<disclaimer, error_log>>

Planner(r) ==
    /\ pc[r] = "planner"
    /\ iteration_count' = [iteration_count EXCEPT ![r] = @ + 1]
    /\ IF iteration_count[r] + 1 > MaxIterations
       THEN HardCap(r)
       ELSE PlannerError(r) \/ \E p \in Plans : NewPlan(r, p)
    /\ Goto(r, _route_after_planner(disclaimer'[r]))
    /\ UNCHANGED quality_score

-----------------------------------------------------------------------------
(* The other nodes.                                                        *)

(* Tool failures become text in research_context: the node never raises.   *)
Researcher(r) ==
    /\ pc[r] = "researcher"
    /\ Goto(r, "executor")
    /\ UNCHANGED <<channels, redis>>

(* Failed tasks are logged and do not stop the node; with no plan there is *)
(* no task to fail.                                                        *)
Executor(r) ==
    /\ pc[r] = "executor"
    /\ \E e \in IF task_plan[r] = NoPlan THEN {{}} ELSE {{}, {"executor"}} :
            error_log' = [error_log EXCEPT ![r] = @ \cup e]
    /\ Goto(r, "verifier")
    /\ UNCHANGED <<iteration_count, task_plan, quality_score, disclaimer, redis>>

Verifier(r) ==
    /\ pc[r] = "verifier"
    /\ Goto(r, "reflector")
    /\ UNCHANGED <<channels, redis>>

Reflector(r) ==
    /\ pc[r] = "reflector"
    /\ \E s \in Scores : quality_score' = [quality_score EXCEPT ![r] = s]
    /\ Goto(r, _route_after_reflector(quality_score'[r], iteration_count[r]))
    /\ UNCHANGED <<iteration_count, task_plan, disclaimer, error_log, redis>>

(* An exception of these nodes (an AgentError of the verifier or the       *)
(* reflector, a response that is not an object) ends the graph.            *)
NodeRaises(r) ==
    /\ pc[r] \in {"executor", "verifier", "reflector"}
    /\ pc[r] = "executor" => task_plan[r] # NoPlan
    /\ Goto(r, "failed")
    /\ UNCHANGED <<channels, redis>>

(* Mutant: the disclaimer is only set past the last iteration.             *)
UnmetLate(r) == quality_score[r] < Threshold /\ iteration_count[r] > MaxIterations

(* The run used up its iterations without meeting the gate.                *)
Unmet(r) == quality_score[r] < Threshold /\ iteration_count[r] >= MaxIterations

Output(r) ==
    /\ pc[r] = "output"
    /\ disclaimer' =
         [disclaimer EXCEPT ![r] = IF @ = "none" /\ Unmet(r) THEN "max_iterations_reached" ELSE @]
    /\ Goto(r, "done")
    /\ UNCHANGED <<iteration_count, task_plan, quality_score, error_log, redis>>

Step(r) ==
    \/ Planner(r)
    \/ Researcher(r)
    \/ Executor(r)
    \/ Verifier(r)
    \/ Reflector(r)
    \/ NodeRaises(r)
    \/ Output(r)

Finished(r) == pc[r] \in {"done", "failed"}

Next == (\E r \in Runs : Step(r)) \/ LoopSetExpires

Spec == Init /\ [][Next]_vars

(* Every node returns or raises: LLM calls have at most three attempts and *)
(* sandbox calls a deadline.                                               *)
FairSpec == Spec /\ \A r \in Runs : WF_vars(Step(r))

-----------------------------------------------------------------------------
(* Properties.                                                             *)

(* Quality gate (README "Key Design Rules"): a result that leaves the      *)
(* graph below the threshold carries a disclaimer, and one that met the    *)
(* threshold carries none.                                                 *)
QualityGate ==
    \A r \in Runs : pc[r] = "done" =>
        (disclaimer[r] = "none" <=> quality_score[r] >= Threshold)

(* The planner node is only entered with an iteration left, so its hard    *)
(* cap never has to fire and no run counts past max_iterations.            *)
IterationCap ==
    \A r \in Runs :
        /\ iteration_count[r] <= MaxIterations
        /\ pc[r] = "planner" => iteration_count[r] < MaxIterations

(* "max_iterations_reached" is only said after max_iterations scored       *)
(* iterations.                                                             *)
MaxIterationsMeansAll ==
    \A r \in Runs : disclaimer[r] = "max_iterations_reached" =>
        iteration_count[r] = MaxIterations /\ supersteps[r] = 5 * MaxIterations + 1

(* The longest run stays within LangGraph's recursion limit, so a run is   *)
(* never cut off by GraphRecursionError before its output node.            *)
WithinRecursionLimit == \A r \in Runs : supersteps[r] <= RecursionLimit

(* Both: a run is bounded by its own counter, and well before LangGraph    *)
(* would cut it off.                                                       *)
RunBounded == IterationCap /\ WithinRecursionLimit

(* The detector, for plans it can hash: over all runs of the session, a    *)
(* plan body is let through once, and once more only for each Redis        *)
(* failure or expiry that lost track of it.                                *)
RepeatsPaidFor ==
    \A p \in Plans : Hashable(p) => passes[p.body] <= 1 + misses[p.body]

(* A run is only stopped as a loop when its plan was let through before,   *)
(* by it or by another run of the session.                                 *)
LoopVerdictJustified ==
    \A r \in Runs : disclaimer[r] = "loop_detected" => passes[task_plan[r].body] > 0

(* A result produced without any plan is explained in the error log.       *)
EmptyPlanExplained ==
    \A r \in Runs : pc[r] = "done" /\ task_plan[r] = NoPlan => "planner" \in error_log[r]

(* What a result says of itself is true: a disclaimer has the cause it     *)
(* names, and a missing plan is in the error log.                          *)
ResultExplained == MaxIterationsMeansAll /\ LoopVerdictJustified /\ EmptyPlanExplained

(* Once a disclaimer is set or the gate is met, no agent runs again: the   *)
(* next node is output.                                                    *)
VerdictEndsRun ==
    [][\A r \in Runs :
         disclaimer'[r] # "none" \/ (pc[r] = "reflector" /\ quality_score'[r] >= Threshold)
            => pc'[r] \in {"output", "done", "failed"}]_vars

(* The docstring of loop_detector.py: "If the same plan hash appears twice *)
(* the session is marked loop_detected and exits" - for every plan, of any *)
(* number of tasks, as long as Redis never failed.                         *)
RepeatedPlanExits ==
    lapses = 0 => \A p \in Plans : passes[p.body] <= 1

-----------------------------------------------------------------------------
(* Refinement: what the run has ended with.                                *)

result ==
    [r \in Runs |->
        CASE pc[r] = "done" ->
               [end |-> "result", quality |-> quality_score[r],
                disclaimer |-> disclaimer[r], iterations |-> iteration_count[r]]
          [] pc[r] = "failed" ->
               [end |-> "raised", quality |-> 0, disclaimer |-> "none", iterations |-> 0]
          [] OTHER ->
               [end |-> "running", quality |-> 0, disclaimer |-> "none", iterations |-> 0]]

PR == INSTANCE PipelineRun

(* The pipeline implements what PipelineRun promises, with fairness: every *)
(* run ends, once, with a result that PipelineRun allows.                  *)
ImplementsPipelineRun == PR!FairSpec
=============================================================================

----------------------------- MODULE TaskRounds -----------------------------
(***************************************************************************)
(* What happens to the tasks of a plan inside one run of the graph, over   *)
(* its iterations: the researcher (backend/agents/researcher.py), which    *)
(* calls the hinted tools level by level, and the executor                 *)
(* (backend/agents/executor.py), which asks the LLM for code               *)
(* (BaseAgent._invoke_json, with retries) and runs it in the sandbox, task *)
(* by task.                                                                *)
(*                                                                         *)
(* Texts are abstracted to where they come from: an output, or what the    *)
(* researcher has for a task, is the number of the round that produced it, *)
(* 0 if there is none.                                                     *)
(***************************************************************************)
EXTENDS Naturals, FiniteSets

CONSTANTS
    Tasks,
    Plans,          \* the plans validate_task_dag lets through
    MaxRounds,      \* bound: max_iterations of the run
    MaxRetries      \* _MAX_RETRIES

ASSUME PlanAssumption ==
    /\ IsFiniteSet(Tasks)
    /\ Plans \subseteq [ids : SUBSET Tasks, depends_on : [Tasks -> SUBSET Tasks]]
    /\ \A p \in Plans :
         /\ p.ids # {}
         /\ \A t \in p.ids : p.depends_on[t] \subseteq p.ids
         /\ \A S \in SUBSET p.ids : S # {} => \E t \in S : p.depends_on[t] \cap S = {}

ASSUME BoundAssumption == MaxRounds \in Nat \ {0} /\ MaxRetries \in Nat \ {0}

(* The empty task_plan of a run whose first planning failed.               *)
EmptyPlan == [ids |-> {}, depends_on |-> [t \in Tasks |-> {}]]

NoTask == "none"

VARIABLES
    phase,              \* "planning", "research", "execute", "review" or "raised"
    round,              \* iteration_count
    plan,               \* task_plan
    status,             \* status of each task, written in place
    research_context,   \* round whose research each task has
    execution_output,   \* the channel: round that produced each task's output
    outputs,            \* the executor's local copy, returned at the end
    visited,            \* tasks of the levels gone through by the node
    level,              \* tasks of the current level still to do
    task, attempt,      \* the executor's current task and LLM attempt
    prompt              \* what its prompt shows of each dependency

vars == <<phase, round, plan, status, research_context, execution_output, outputs,
          visited, level, task, attempt, prompt>>
llm == <<task, attempt, prompt>>

TypeOK ==
    /\ phase \in {"planning", "research", "execute", "review", "raised"}
    /\ round \in 0..MaxRounds
    /\ plan \in Plans \cup {EmptyPlan}
    /\ status \in [Tasks -> {"pending", "done", "failed"}]
    /\ research_context \in [Tasks -> 0..MaxRounds]
    /\ execution_output \in [Tasks -> 0..MaxRounds]
    /\ outputs \in [Tasks -> 0..MaxRounds]
    /\ visited \in SUBSET Tasks
    /\ level \in SUBSET Tasks
    /\ task \in Tasks \cup {NoTask}
    /\ attempt \in 0..MaxRetries
    /\ prompt \in [Tasks -> 0..MaxRounds]

Init ==
    /\ phase = "planning"
    /\ round = 0
    /\ plan = EmptyPlan
    /\ status = [t \in Tasks |-> "pending"]
    /\ research_context = [t \in Tasks |-> 0]
    /\ execution_output = [t \in Tasks |-> 0]
    /\ outputs = [t \in Tasks |-> 0]
    /\ visited = {}
    /\ level = {}
    /\ task = NoTask
    /\ attempt = 0
    /\ prompt = [t \in Tasks |-> 0]

(* Mutant: a task is released by its first dependency (no test for zero).  *)
NextLevelEager(p, released) ==
    {t \in p.ids \ released : p.depends_on[t] = {} \/ p.depends_on[t] \cap released # {}}

(* topological_sort: the tasks whose in-degree drops to zero once those of *)
(* the levels before are released.                                         *)
NextLevel(p, released) == {t \in p.ids \ released : p.depends_on[t] \subseteq released}

-----------------------------------------------------------------------------
(* Planner: a new plan with every task pending, or an exception that       *)
(* leaves the old plan and the statuses of its tasks.                      *)
Plan(p, fresh) ==
    /\ phase = "planning"
    /\ round < MaxRounds
    /\ round' = round + 1
    /\ plan' = p
    /\ status' = IF fresh THEN [t \in Tasks |-> "pending"] ELSE status
    /\ phase' = "research"
    /\ visited' = {}
    /\ level' = NextLevel(p, {})
    /\ UNCHANGED <<research_context, execution_output, outputs, task, attempt, prompt>>

NewPlan == \E p \in Plans : Plan(p, TRUE)
OldPlan == Plan(plan, FALSE)

-----------------------------------------------------------------------------
(* Researcher.                                                             *)

(* One level: its tasks run concurrently and their results are merged when *)
(* all are there.  _dispatch_task always has a text, since a hint that is  *)
(* unknown is passed over and a tool that raises contributes a "No results *)
(* found" line: no exception escapes.                                      *)
ResearchLevel ==
    /\ phase = "research"
    /\ level # {}
    /\ research_context' = [t \in Tasks |-> IF t \in level THEN round ELSE research_context[t]]
    /\ visited' = visited \cup level
    /\ level' = NextLevel(plan, visited')
    /\ UNCHANGED <<phase, round, plan, status, execution_output, outputs, llm>>

(* The node returns and the executor is entered.                           *)
ResearchDone ==
    /\ phase = "research"
    /\ level = {}
    /\ phase' = "execute"
    /\ outputs' = execution_output
    /\ visited' = {}
    /\ level' = NextLevel(plan, {})
    /\ UNCHANGED <<round, plan, status, research_context, execution_output, llm>>

-----------------------------------------------------------------------------
(* Executor.                                                               *)

(* Mutant: a task waits for its dependencies to be done, not just tried.   *)
ReadyWhenDone(t) == t \in level /\ \A d \in plan.depends_on[t] : status[d] = "done"

Ready(t) == t \in level

(* build_executor_context reads the state the node was entered with.       *)
BeginTask(t) ==
    /\ phase = "execute"
    /\ task = NoTask
    /\ Ready(t)
    /\ task' = t
    /\ attempt' = 1
    /\ prompt' = [d \in Tasks |-> IF d \in plan.depends_on[t] THEN execution_output[d] ELSE 0]
    /\ UNCHANGED <<phase, round, plan, status, research_context, execution_output, outputs,
                   visited, level>>

(* _invoke_json: an exception of the call is retried after a delay.        *)
Retry ==
    /\ task # NoTask
    /\ attempt < MaxRetries
    /\ attempt' = attempt + 1
    /\ UNCHANGED <<phase, round, plan, status, research_context, execution_output, outputs,
                   visited, level, task, prompt>>

(* The task leaves the loop; the last one of a level releases the next.    *)
EndTask(s, out) ==
    /\ task # NoTask
    /\ status' = [status EXCEPT ![task] = s]
    /\ outputs' = out
    /\ visited' = visited \cup {task}
    /\ level' = IF level = {task} THEN NextLevel(plan, visited') ELSE level \ {task}
    /\ task' = NoTask
    /\ attempt' = 0
    /\ prompt' = [t \in Tasks |-> 0]
    /\ UNCHANGED <<phase, round, plan, research_context, execution_output>>

(* Mutant: the output of code that failed is kept.                         *)
TaskFailsWithOutput == EndTask("failed", [outputs EXCEPT ![task] = round])

(* Malformed JSON (never retried), no code, or the sandbox failed, timed   *)
(* out or could not be reached; or the last attempt raised.                *)
TaskFails == EndTask("failed", outputs)

(* The sandbox ran the code.                                               *)
TaskDone == EndTask("done", [outputs EXCEPT ![task] = round])

(* The response is JSON but not an object: an AttributeError that nothing  *)
(* catches ends the node and the graph.                                    *)
NotAnObject ==
    /\ task # NoTask
    /\ phase' = "raised"
    /\ task' = NoTask
    /\ UNCHANGED <<round, plan, status, research_context, execution_output, outputs, visited,
                   level, attempt, prompt>>

ExecuteDone ==
    /\ phase = "execute"
    /\ task = NoTask
    /\ level = {}
    /\ execution_output' = outputs
    /\ phase' = "review"
    /\ UNCHANGED <<round, plan, status, research_context, outputs, visited, level, llm>>

(* Verifier and reflector, and a score below the gate: replan.             *)
Replan ==
    /\ phase = "review"
    /\ phase' = "planning"
    /\ UNCHANGED <<round, plan, status, research_context, execution_output, outputs, visited,
                   level, llm>>

NodeStep ==
    \/ ResearchLevel
    \/ ResearchDone
    \/ \E t \in Tasks : BeginTask(t)
    \/ Retry
    \/ TaskFails
    \/ TaskDone
    \/ NotAnObject
    \/ ExecuteDone

Next == NewPlan \/ OldPlan \/ NodeStep \/ Replan

Spec == Init /\ [][Next]_vars

(* A node that has been entered is run to its end: calls return or raise.  *)
FairSpec == Spec /\ WF_vars(NodeStep)

-----------------------------------------------------------------------------
(* Properties.                                                             *)

(* A task is only given to the LLM when every task it depends on has been  *)
(* through the executor in this round.                                     *)
DependenciesFirst == task # NoTask => plan.depends_on[task] \subseteq visited

(* A round accounts for its plan.  When the executor runs, the text that   *)
(* every task has from the researcher is of this round.  When it has run,  *)
(* no task was left behind, and a task is done exactly when its output is  *)
(* of this round.  (A failed one may still show an earlier round's.)       *)
RoundAccounted ==
    /\ phase \in {"execute", "review"} => \A t \in plan.ids : research_context[t] = round
    /\ phase = "review" =>
         \A t \in plan.ids :
            /\ status[t] # "pending"
            /\ status[t] = "done" <=> execution_output[t] = round

(* A round that was begun comes to the verifier or raises.                 *)
RoundEnds == phase \in {"research", "execute"} ~> phase \in {"review", "raised"}

(* prompts/executor.md: "Incorporate research context and dependency       *)
(* outputs from prior tasks" - the prompt of a task shows the output that  *)
(* a dependency has just produced.                                         *)
DependencyOutputsShown ==
    task # NoTask =>
        \A d \in plan.depends_on[task] : status[d] = "done" /\ d \in visited => prompt[d] = round
=============================================================================

----------------------------- MODULE AgentCall -----------------------------
(***************************************************************************)
(* An agent's life: BaseAgent (backend/agents/base.py) with the run method *)
(* of the planner, executor, verifier and reflector, the prompts it sends  *)
(* (Prompts), what it makes of the answers (Reports), and the router that  *)
(* requests and restarts replace meanwhile (ProviderSwitch).               *)
(*                                                                         *)
(* A job is what a node hands to its agent: the agent's name and, for each *)
(* call of _invoke_json, the assigned model and the state that the context *)
(* is built from.  Only the executor makes more than one call, one for     *)
(* each task.  The researcher asks no model.                               *)
(***************************************************************************)
EXTENDS ProviderSwitch, Reports

CONSTANTS
    Agents,
    Jobs,           \* jobs, by their names
    Reflections,    \* objects the reflector may be answered, by their names
    Reported        \* objects the verifier may be answered, by their names

(* A job has at least one call; the fields of a model's answer that are    *)
(* read are scores, lengths and whether a value has the type expected.     *)
ASSUME AgentAssumption ==
    /\ \A j \in DOMAIN Jobs :
         /\ Jobs[j].name \in {"planner", "executor", "verifier", "reflector"}
         /\ Jobs[j].calls # << >>
         /\ Jobs[j].calls \in Seq([assigned_model : {"reasoning", "code", "extract"},
                                  state : States(Jobs[j].name)])
    /\ \A o \in DOMAIN Reflections :
         /\ Reflections[o].score \in Scores
         /\ \A d \in DOMAIN Reflections[o].dims : Reflections[o].dims[d] \in Scores \ {Absent}

_MAX_RETRIES == 3

MODEL_NAMES ==
    [openai_only |-> [reasoning |-> "gpt-4o", code |-> "gpt-4o", extract |-> "gpt-4o-mini"],
     multi |-> [reasoning |-> "claude-sonnet-4-5", code |-> "gpt-4o", extract |-> "gemini-2.5-flash"]]

Models == {"gpt-4o", "gpt-4o-mini", "claude-sonnet-4-5", "gemini-2.5-flash"}

(* Agents pass the plain names of the task types.                          *)
get(mode, task_type) == MODEL_NAMES[mode][task_type]

(* Answers that are JSON: "list" stands for a value that is not an object, *)
(* "object" for one whose content matters elsewhere (PlanDag, TaskRounds), *)
(* "empty" for one without the code that the executor expects.             *)
Objects(name) ==
    CASE name = "reflector" -> DOMAIN Reflections
      [] name = "verifier" -> DOMAIN Reported
      [] name = "executor" -> {"object", "empty"}
      [] name = "planner" -> {"object"}

VARIABLES
    agent,  \* stage, job, captured router, number of the call and the attempt, answer
    asked   \* history: the calls made of models by each agent

agentVars == <<agent, asked>>
callVars == <<vars, agentVars>>

NoAgent == [stage |-> "none", job |-> "none", mode |-> "unset", call |-> 0, attempt |-> 0, answer |-> "none"]

AgentStates ==
    [stage : {"none", "asking", "sleeping", "sandbox", "done", "error", "lost"},
     job : DOMAIN Jobs \cup {"none"}, mode : Modes \cup {"unset"}, call : Nat,
     attempt : 0.._MAX_RETRIES,
     answer : {"none"} \cup UNION {Objects(Jobs[j].name) : j \in DOMAIN Jobs}]
Questions == [call : Nat, type : {"reasoning", "code"}, model : Models]

AgentTypeOK ==
    /\ TypeOK
    /\ agent \in [Agents -> AgentStates]
    /\ asked \in [Agents -> SUBSET Questions]

CallInit ==
    /\ Init
    /\ agent = [a \in Agents |-> NoAgent]
    /\ asked = [a \in Agents |-> {}]

Name(a) == Jobs[agent[a].job].name
Calls(r) == Jobs[r.job].calls

(* The executor asks "code" for tasks assigned to it and "reasoning" for   *)
(* all others; the other agents ask "reasoning".                           *)
TaskType(r) == IF Calls(r)[r.call].assigned_model = "code" THEN "code" ELSE "reasoning"

(* Mutant: the router is looked up for every attempt.                      *)
RouterLatest(r) == get_model_router

(* self._router.                                                           *)
Router(r) == r.mode

(* model.ainvoke is called, by an agent in state r.                        *)
Ask(a, r) ==
    /\ agent' = [agent EXCEPT ![a] = r]
    /\ asked' = [asked EXCEPT ![a] = @ \cup
                   {[call |-> r.call, type |-> TaskType(r), model |-> get(Router(r), TaskType(r))]}]

Stop(a, stage, answer) ==
    /\ agent' = [agent EXCEPT ![a].stage = stage, ![a].answer = answer]
    /\ UNCHANGED asked

(* The executor's loop goes on with the next task, or ends.                *)
NextTask(a) ==
    LET r == agent[a]
    IN  IF r.call < Len(Calls(r))
        THEN Ask(a, [r EXCEPT !.stage = "asking", !.call = @ + 1, !.attempt = 1])
        ELSE Stop(a, "done", "none")

-----------------------------------------------------------------------------
(* A node constructs its agent, which takes the router and asks.           *)
Construct(a, j) ==
    /\ agent[a].stage = "none"
    /\ router' = get_model_router
    /\ Ask(a, [NoAgent EXCEPT !.stage = "asking", !.job = j, !.mode = get_model_router,
                              !.call = 1, !.attempt = 1])
    /\ UNCHANGED <<redis, req, overlapped, faults, restarts>>

(* An object: a plan, a report, a reflection, or code to run.              *)
Answer(a, o) ==
    CASE Name(a) = "executor" -> IF o = "object" THEN Stop(a, "sandbox", "none") ELSE NextTask(a)
      [] Name(a) = "reflector" -> Stop(a, IF ReflectionRaises(Reflections[o]) THEN "error" ELSE "done", o)
      [] OTHER -> Stop(a, "done", o)

(* AgentError, which the executor logs for its task.                       *)
GiveUp(a) == IF Name(a) = "executor" THEN NextTask(a) ELSE Stop(a, "error", "none")

(* Malformed JSON is not asked for again.                                  *)
Malformed(a) == GiveUp(a)

(* A value that is not an object: the agent's .get or .setdefault raises.  *)
NotAnObject(a) == Stop(a, "error", "none")

(* Mutant: the attempts are not counted.                                   *)
AttemptSame(n) == n

Attempt(n) == n + 1

(* The provider raises, or its client times out.                           *)
CallFails(a) ==
    IF agent[a].attempt = _MAX_RETRIES THEN GiveUp(a) ELSE Stop(a, "sleeping", "none")

(* What model.ainvoke comes to.                                            *)
Called(a) ==
    /\ agent[a].stage = "asking"
    /\ \/ \E o \in Objects(Name(a)) : Answer(a, o)
       \/ Malformed(a)
       \/ NotAnObject(a)
       \/ CallFails(a)
    /\ UNCHANGED vars

(* asyncio.sleep ends.                                                     *)
Retry(a) ==
    /\ agent[a].stage = "sleeping"
    /\ Ask(a, [agent[a] EXCEPT !.stage = "asking", !.attempt = Attempt(@)])
    /\ UNCHANGED vars

(* execute_code returns (see Sandbox and TaskRounds).                      *)
Executed(a) == agent[a].stage = "sandbox" /\ NextTask(a) /\ UNCHANGED vars

(* The process stops with the agents in it.                                *)
RebootAgents ==
    /\ Reboot
    /\ agent' = [a \in Agents |-> IF agent[a].stage \in {"asking", "sleeping", "sandbox"}
                                  THEN [agent[a] EXCEPT !.stage = "lost"] ELSE agent[a]]
    /\ UNCHANGED asked

AgentStep(a) == Called(a) \/ Retry(a) \/ Executed(a)

CallNext ==
    \/ \E a \in Agents : AgentStep(a) \/ \E j \in DOMAIN Jobs : Construct(a, j)
    \/ (UseRouter \/ \E r \in Requests : Handle(r)) /\ UNCHANGED agentVars
    \/ RebootAgents

CallSpec == CallInit /\ [][CallNext]_callVars

(* Clients of the providers and of the sandbox have timeouts, and a sleep  *)
(* ends.                                                                   *)
CallFairSpec == CallSpec /\ \A a \in Agents : WF_callVars(AgentStep(a))

-----------------------------------------------------------------------------
(* Properties.                                                             *)

(* An agent works with the router it was constructed with: whatever is     *)
(* switched between its attempts or its tasks, one mode explains all the   *)
(* models that it asked.                                                   *)
OneModePerAgent ==
    \A a \in Agents : \E m \in Modes : \A q \in asked[a] : q.model = get(m, q.type)

(* No prompt exceeds its budget, though ids and texts of any length enter  *)
(* it; and while a task has at most four dependencies, and its description *)
(* and the ids leave 3,000 characters, the executor is given its           *)
(* instruction, the prompt's last line, uncut.                             *)
PromptFits ==
    \A a \in Agents : agent[a].stage = "asking" =>
        LET s == Calls(agent[a])[agent[a].call].state
        IN  /\ Context(Name(a), s) <= Budget(Name(a))
            /\ Name(a) = "executor" /\ Len(s.outputs) <= 4
               /\ s.task.description + s.task.id + s.task.hints + Total([i \in DOMAIN s.outputs |-> s.outputs[i].id]) <= 3000
               => Whole("executor", s)

(* The reflector's word is not enough to pass: a session passes only on    *)
(* the mean of the five dimensions, so with one of them missing never      *)
(* (four make 0.8); the exception is an object with no positive dimension, *)
(* whose own score counts.  A report that reaches the reflector has every  *)
(* required key, and no dimension that is not an object.                   *)
VerdictGuarded ==
    \A a \in Agents : agent[a].stage = "done" =>
        /\ Name(a) = "reflector" =>
             LET r == Reflections[agent[a].answer]
             IN  _validate_reflection(r).pass /\ DimensionSum(r) > 0 =>
                   /\ _DIMENSIONS \subseteq DOMAIN r.dims
                   /\ \A d \in _DIMENSIONS : Clamp(Dimension(r, d)) >= 2498
        /\ Name(a) = "verifier" =>
             LET r == _validate_report(Reported[agent[a].answer])
             IN  /\ _REQUIRED_KEYS \subseteq DOMAIN r
                 /\ \A k \in VerifierDims : r[k].object

(* Every agent that is constructed ends: with a result, with an error, or  *)
(* with the process.                                                       *)
CallEnds == \A a \in Agents : agent[a].stage = "asking" ~> agent[a].stage \in {"done", "error", "lost"}
=============================================================================

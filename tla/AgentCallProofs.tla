-------------------------- MODULE AgentCallProofs --------------------------
(***************************************************************************)
(* Proofs about AgentCall and the modules it extends (ProviderSwitch,      *)
(* Prompts, Reports): any number of agents, requests, failures and         *)
(* restarts, any jobs, and any answers of the models.                      *)
(***************************************************************************)
EXTENDS AgentCall, SequenceTheorems, NaturalsInduction, WellFoundedInduction, TLAPS

-----------------------------------------------------------------------------
(* The provider mode.                                                      *)

(* Requests that are saving have a mode.  While requests do not overlap    *)
(* there is one at most, and while Redis does not fail either, its mode is *)
(* the router's.                                                           *)
SwitchInv ==
    /\ \A r \in Saving : req[r].mode \in Modes
    /\ ~overlapped => \A r, s \in Saving : r = s
    /\ ~overlapped /\ faults = 0 => \A r \in Saving : router = req[r].mode

SwitchIInv == TypeOK /\ SwitchInv /\ SerialSwitchesAgree

(* The initial state satisfies the invariant of the switch.                *)
LEMMA SwitchInit == Init => SwitchIInv
  <1> SUFFICES ASSUME Init PROVE SwitchIInv
    OBVIOUS
  <1>1. Saving = {}
    BY DEF Init, Saving
  <1>2. 0 \in 0..MaxFaults /\ 0 \in 0..MaxRestarts
    BY SwitchAssumption
  <1>3. TypeOK
    <2>1. req \in [Requests -> [stage : {"none", "saving", "ok", "refused", "lost"},
                                mode : Modes \cup {"unset"}]]
      BY DEF Init
    <2> QED
      BY <1>2, <2>1, Zenon DEF Init, TypeOK
  <1> QED
    BY <1>1, <1>3 DEF Init, SwitchIInv, SwitchInv, SerialSwitchesAgree

(* get_model_router never returns None.                                    *)
LEMMA RouterIsSet == TypeOK => get_model_router \in Modes
  BY SwitchAssumption DEF TypeOK, get_model_router, Modes

(* The router is used, by a request or by a new agent.                     *)
LEMMA UseStep == ASSUME SwitchIInv, UseRouter PROVE SwitchIInv'
  <1>1. Saving' = Saving
    BY DEF UseRouter, Saving
  <1>2. router # "unset" => router' = router
    BY DEF UseRouter, get_model_router
  <1>3. TypeOK'
    BY RouterIsSet DEF UseRouter, SwitchIInv, TypeOK
  <1>4. SwitchInv' /\ SerialSwitchesAgree'
    BY <1>1, <1>2 DEF UseRouter, SwitchIInv, SwitchInv, SerialSwitchesAgree, Modes
  <1> QED
    BY <1>3, <1>4 DEF SwitchIInv

(* A step of a request.                                                    *)
LEMMA HandleStep == ASSUME SwitchIInv, NEW r \in Requests, Handle(r) PROVE SwitchIInv'
  <1>1. ASSUME NEW m \in Modes, Switch(r, m) PROVE SwitchIInv'
    <2>1. /\ req'[r].stage = "saving" /\ req'[r].mode = m
          /\ \A s \in Requests : s # r => req'[s] = req[s]
      BY <1>1 DEF Switch, SwitchIInv, TypeOK
    <2>2. Saving' = Saving \cup {r}
      BY <2>1 DEF Saving
    <2>3. TypeOK'
      BY <1>1 DEF Switch, SwitchIInv, TypeOK
    <2>4. SwitchInv' /\ SerialSwitchesAgree'
      BY <1>1, <2>1, <2>2 DEF Switch, SwitchIInv, TypeOK, SwitchInv, SerialSwitchesAgree, Saving
    <2> QED
      BY <2>3, <2>4 DEF SwitchIInv
  <1>2. ASSUME NEW m \in Modes, SwitchRefused(r, m) PROVE SwitchIInv'
    <2>1. /\ req[r].stage = "none" /\ req'[r].stage = "refused"
          /\ \A s \in Requests : s # r => req'[s] = req[s]
      BY <1>2 DEF SwitchRefused, SwitchIInv, TypeOK
    <2>2. Saving' = Saving /\ r \notin Saving
      BY <2>1 DEF Saving
    <2>3. TypeOK'
      BY <1>2 DEF SwitchRefused, SwitchIInv, TypeOK
    <2>4. SwitchInv' /\ SerialSwitchesAgree'
      BY <1>2, <2>1, <2>2 DEF SwitchRefused, SwitchIInv, TypeOK, SwitchInv, SerialSwitchesAgree, Saving
    <2> QED
      BY <2>3, <2>4 DEF SwitchIInv
  <1>3. CASE Persist(r) \/ PersistFails(r)
    <2>1. /\ req[r].stage = "saving" /\ req'[r].stage = "ok" /\ req'[r].mode = req[r].mode
          /\ \A s \in Requests : s # r => req'[s] = req[s]
      BY <1>3 DEF Persist, PersistFails, SwitchIInv, TypeOK
    <2>2. Saving' = Saving \ {r} /\ r \in Saving
      BY <2>1 DEF Saving
    <2>3. /\ router' = router /\ overlapped' = overlapped
          /\ \/ redis' = req[r].mode /\ faults' = faults
             \/ faults' = faults + 1 /\ faults < MaxFaults /\ redis' \in {redis, req[r].mode}
      BY <1>3 DEF Persist, PersistFails
    <2>4. TypeOK'
      <3>1. req' \in [Requests -> [stage : {"none", "saving", "ok", "refused", "lost"},
                                   mode : Modes \cup {"unset"}]]
        BY <1>3 DEF Persist, PersistFails, SwitchIInv, TypeOK
      <3>2. faults' \in 0..MaxFaults
        BY <2>3, SwitchAssumption DEF SwitchIInv, TypeOK
      <3>3. redis' \in Modes \cup {"unset"} /\ restarts' = restarts
        BY <1>3, <2>2, <2>3 DEF SwitchIInv, SwitchInv, TypeOK, Persist, PersistFails
      <3> QED
        BY <2>3, <3>1, <3>2, <3>3 DEF SwitchIInv, TypeOK
    <2>5. faults' = 0 => redis' = req[r].mode /\ faults = 0
      BY <2>3 DEF SwitchIInv, TypeOK
    <2>6. SwitchInv' /\ SerialSwitchesAgree'
      BY <2>1, <2>2, <2>3, <2>5 DEF SwitchIInv, SwitchInv, SerialSwitchesAgree, Saving
    <2> QED
      BY <2>4, <2>6 DEF SwitchIInv
  <1> QED
    BY <1>1, <1>2, <1>3 DEF Handle

(* The process restarts: nothing is saving any more.                       *)
LEMMA RebootStep == ASSUME SwitchIInv, Reboot PROVE SwitchIInv'
  <1>1. /\ req' = Lost /\ overlapped' = overlapped /\ redis' = redis
        /\ restarts < MaxRestarts /\ restarts' = restarts + 1
        /\ \/ router' = redis /\ faults' = faults
           \/ router' = "unset" /\ faults' = faults + 1 /\ faults < MaxFaults
    BY DEF Reboot, Restart, RestartWithoutRedis, Loaded
  <1>2. /\ Saving' = {}
        /\ req' \in [Requests -> [stage : {"none", "saving", "ok", "refused", "lost"},
                                  mode : Modes \cup {"unset"}]]
    BY <1>1 DEF Saving, Lost, SwitchIInv, TypeOK
  <1>3. TypeOK'
    BY <1>1, <1>2, SwitchAssumption DEF SwitchIInv, TypeOK
  <1>4. SwitchInv' /\ SerialSwitchesAgree'
    BY <1>1, <1>2 DEF SwitchInv, SerialSwitchesAgree, SwitchIInv, TypeOK
  <1> QED
    BY <1>3, <1>4 DEF SwitchIInv

(* A step that leaves the router, Redis and the requests alone.            *)
LEMMA SwitchStutter == ASSUME SwitchIInv, UNCHANGED vars PROVE SwitchIInv'
  BY DEF SwitchIInv, TypeOK, SwitchInv, SerialSwitchesAgree, Saving, vars

-----------------------------------------------------------------------------
(* The agents.                                                             *)

(* What is true of an agent in state r that has put the questions q: an    *)
(* agent that was constructed has a mode, a job and a call of that job,    *)
(* and all its questions went to models of that mode; a retry is left to   *)
(* one that sleeps; only the executor waits for the sandbox; a verifier    *)
(* and a reflector that are done were given an object, and none that makes *)
(* the reflector raise.                                                    *)
Good(r, q) ==
    /\ r \in AgentStates
    /\ q \in SUBSET Questions
    /\ r.stage = "none" => q = {}
    /\ r.stage # "none" => /\ r.job \in DOMAIN Jobs
                           /\ r.mode \in Modes
                           /\ r.call \in 1..Len(Calls(r))
    /\ \A x \in q : x.model = get(r.mode, x.type)
    /\ r.stage = "sleeping" => r.attempt < _MAX_RETRIES
    /\ r.stage = "sandbox" => Jobs[r.job].name = "executor"
    /\ r.stage = "done" =>
         /\ Jobs[r.job].name = "verifier" => r.answer \in DOMAIN Reported
         /\ Jobs[r.job].name = "reflector" => /\ r.answer \in DOMAIN Reflections
                                              /\ ~ReflectionRaises(Reflections[r.answer])

AgentInv ==
    /\ agent \in [Agents -> AgentStates]
    /\ asked \in [Agents -> SUBSET Questions]
    /\ \A a \in Agents : Good(agent[a], asked[a])

CallIInv == SwitchIInv /\ AgentInv

(* The models of both modes are named.                                     *)
LEMMA ModelNamed ==
    ASSUME NEW m \in Modes, NEW t \in {"reasoning", "code"}
    PROVE  get(m, t) \in Models
  <1>1. m = "multi" \/ m = "openai_only"
    BY DEF Modes
  <1>2. t = "reasoning" \/ t = "code"
    OBVIOUS
  <1>3. /\ MODEL_NAMES["multi"]["reasoning"] = "claude-sonnet-4-5"
        /\ MODEL_NAMES["multi"]["code"] = "gpt-4o"
        /\ MODEL_NAMES["openai_only"]["reasoning"] = "gpt-4o"
        /\ MODEL_NAMES["openai_only"]["code"] = "gpt-4o"
    BY DEF MODEL_NAMES
  <1> QED
    BY <1>1, <1>2, <1>3 DEF get, Models

(* The calls of a job.                                                     *)
LEMMA JobFacts ==
    ASSUME NEW j \in DOMAIN Jobs
    PROVE  /\ Jobs[j].name \in {"planner", "executor", "verifier", "reflector"}
           /\ Len(Jobs[j].calls) \in Nat \ {0}
           /\ \A i \in 1..Len(Jobs[j].calls) : Jobs[j].calls[i].state \in States(Jobs[j].name)
  <1>1. /\ Jobs[j].name \in {"planner", "executor", "verifier", "reflector"}
        /\ Jobs[j].calls # << >>
        /\ Jobs[j].calls \in Seq([assigned_model : {"reasoning", "code", "extract"},
                                  state : States(Jobs[j].name)])
    BY AgentAssumption
  <1>2. Len(Jobs[j].calls) \in Nat /\ Len(Jobs[j].calls) # 0
    BY <1>1, EmptySeq, LenProperties
  <1>3. ASSUME NEW i \in 1..Len(Jobs[j].calls) PROVE Jobs[j].calls[i].state \in States(Jobs[j].name)
    <2>1. Jobs[j].calls[i] \in [assigned_model : {"reasoning", "code", "extract"},
                                state : States(Jobs[j].name)]
      BY <1>1, ElementOfSeq
    <2> QED
      BY <2>1
  <1> QED
    BY <1>1, <1>2, <1>3

(* One agent moves.                                                        *)
LEMMA OneMoves ==
    ASSUME AgentInv, NEW a \in Agents, NEW r, NEW q, Good(r, q),
           agent' = [agent EXCEPT ![a] = r], asked' = [asked EXCEPT ![a] = q]
    PROVE  AgentInv'
  <1>1. /\ agent' \in [Agents -> AgentStates] /\ asked' \in [Agents -> SUBSET Questions]
        /\ agent'[a] = r /\ asked'[a] = q
        /\ \A b \in Agents : b # a => agent'[b] = agent[b] /\ asked'[b] = asked[b]
    BY DEF AgentInv, Good
  <1>2. ASSUME NEW b \in Agents PROVE Good(agent'[b], asked'[b])
    BY <1>1 DEF AgentInv
  <1> QED
    BY <1>1, <1>2 DEF AgentInv, Good, AgentStates, Questions, Calls, Modes, get, ReflectionRaises

(* The agent asks.                                                         *)
LEMMA AskKeeps ==
    ASSUME AgentInv, NEW a \in Agents, NEW r \in AgentStates, Ask(a, r),
           r.stage = "asking", r.job \in DOMAIN Jobs, r.mode \in Modes, r.call \in 1..Len(Calls(r)),
           agent[a].stage # "none" => agent[a].mode = r.mode
    PROVE  AgentInv'
  <1> DEFINE x == [call |-> r.call, type |-> TaskType(r), model |-> get(Router(r), TaskType(r))]
  <1>1. Good(agent[a], asked[a])
    BY DEF AgentInv
  <1>2. TaskType(r) \in {"reasoning", "code"} /\ r.call \in Nat
    BY JobFacts DEF TaskType, Calls
  <1>3. x \in Questions /\ x.model = get(r.mode, x.type)
    BY <1>2, ModelNamed DEF Questions, Router
  <1>4. \A y \in asked[a] : y \in Questions /\ y.model = get(r.mode, y.type)
    BY <1>1 DEF Good
  <1>5. Good(r, asked[a] \cup {x})
    BY <1>3, <1>4 DEF Good
  <1>6. asked' = [asked EXCEPT ![a] = asked[a] \cup {x}] /\ agent' = [agent EXCEPT ![a] = r]
    BY DEF Ask, AgentInv
  <1> QED
    BY <1>5, <1>6, OneMoves

(* The agent stops asking, for a while or for good.                        *)
LEMMA StopKeeps ==
    ASSUME AgentInv, NEW a \in Agents, NEW st, NEW o, Stop(a, st, o),
           agent[a].stage # "none",
           st \in {"sleeping", "sandbox", "done", "error"},
           o \in Objects(Name(a)) \cup {"none"},
           st = "sleeping" => agent[a].attempt < _MAX_RETRIES,
           st = "sandbox" => Name(a) = "executor",
           st = "done" /\ Name(a) = "verifier" => o \in DOMAIN Reported,
           st = "done" /\ Name(a) = "reflector" => /\ o \in DOMAIN Reflections
                                                   /\ ~ReflectionRaises(Reflections[o])
    PROVE  AgentInv'
  <1> DEFINE r == [agent[a] EXCEPT !.stage = st, !.answer = o]
  <1>1. Good(agent[a], asked[a]) /\ agent[a] \in AgentStates /\ agent[a].job \in DOMAIN Jobs
    BY DEF AgentInv, Good
  <1>2. o \in {"none"} \cup UNION {Objects(Jobs[j].name) : j \in DOMAIN Jobs}
    BY <1>1 DEF Name
  <1>3. /\ r \in AgentStates /\ r.stage = st /\ r.answer = o /\ r.job = agent[a].job
        /\ r.mode = agent[a].mode /\ r.call = agent[a].call /\ r.attempt = agent[a].attempt
    BY <1>1, <1>2 DEF AgentStates
  <1>4. Good(r, asked[a])
    BY <1>1, <1>3 DEF Good, Calls, Name
  <1>5. agent' = [agent EXCEPT ![a] = r] /\ asked' = [asked EXCEPT ![a] = asked[a]]
    BY DEF Stop, AgentInv
  <1> QED
    BY <1>4, <1>5, OneMoves

(* The executor goes on to its next task, or ends.                         *)
LEMMA NextTaskKeeps ==
    ASSUME AgentInv, NEW a \in Agents, NextTask(a), agent[a].stage # "none", Name(a) = "executor"
    PROVE  AgentInv'
  <1>1. /\ agent[a] \in AgentStates /\ agent[a].job \in DOMAIN Jobs /\ agent[a].mode \in Modes
        /\ agent[a].call \in 1..Len(Calls(agent[a]))
    BY DEF AgentInv, Good
  <1>2. Len(Calls(agent[a])) \in Nat
    BY <1>1, JobFacts DEF Calls
  <1>3. CASE agent[a].call < Len(Calls(agent[a]))
    <2> DEFINE r == [agent[a] EXCEPT !.stage = "asking", !.call = @ + 1, !.attempt = 1]
    <2>1. /\ 1 \in 0.._MAX_RETRIES
          /\ agent[a].call + 1 \in 1..Len(Calls(agent[a])) /\ agent[a].call + 1 \in Nat
      BY <1>1, <1>2, <1>3 DEF _MAX_RETRIES
    <2>2. /\ r \in AgentStates /\ r.stage = "asking" /\ r.job = agent[a].job
          /\ r.mode = agent[a].mode /\ r.call = agent[a].call + 1
      BY <1>1, <2>1 DEF AgentStates
    <2>3. Ask(a, r)
      BY <1>3 DEF NextTask
    <2> QED
      BY <1>1, <2>1, <2>2, <2>3, AskKeeps DEF Calls
  <1>4. CASE ~(agent[a].call < Len(Calls(agent[a])))
    BY <1>4, StopKeeps DEF NextTask
  <1> QED
    BY <1>3, <1>4

(* Nothing is heard from the model, or nothing that can be used.           *)
LEMMA GiveUpKeeps ==
    ASSUME AgentInv, NEW a \in Agents, GiveUp(a), agent[a].stage # "none"
    PROVE  AgentInv'
  BY NextTaskKeeps, StopKeeps DEF GiveUp

(* An object is answered.                                                  *)
LEMMA AnswerKeeps ==
    ASSUME AgentInv, NEW a \in Agents, agent[a].stage # "none",
           NEW o \in Objects(Name(a)), Answer(a, o)
    PROVE  AgentInv'
  <1>1. Name(a) \in {"planner", "executor", "verifier", "reflector"}
    BY JobFacts DEF AgentInv, Good, Name
  <1>2. CASE Name(a) = "executor"
    BY <1>2, NextTaskKeeps, StopKeeps DEF Answer
  <1>3. CASE Name(a) = "reflector"
    <2>1. o \in DOMAIN Reflections
      BY <1>3 DEF Objects
    <2>2. Stop(a, IF ReflectionRaises(Reflections[o]) THEN "error" ELSE "done", o)
      BY <1>3 DEF Answer
    <2>3. CASE ReflectionRaises(Reflections[o])
      BY <1>3, <2>2, <2>3, StopKeeps
    <2>4. CASE ~ReflectionRaises(Reflections[o])
      BY <1>3, <2>1, <2>2, <2>4, StopKeeps
    <2> QED
      BY <2>3, <2>4
  <1>4. CASE Name(a) = "verifier"
    <2>1. o \in DOMAIN Reported
      BY <1>4 DEF Objects
    <2>2. Stop(a, "done", o)
      BY <1>4 DEF Answer
    <2> QED
      BY <1>4, <2>1, <2>2, StopKeeps
  <1>5. CASE Name(a) = "planner"
    <2>1. Stop(a, "done", o)
      BY <1>5 DEF Answer
    <2> QED
      BY <1>5, <2>1, StopKeeps
  <1> QED
    BY <1>1, <1>2, <1>3, <1>4, <1>5

(* A call of model.ainvoke comes to something.                             *)
LEMMA CalledKeeps == ASSUME AgentInv, NEW a \in Agents, Called(a) PROVE AgentInv'
  <1>0. agent[a].stage = "asking" /\ Good(agent[a], asked[a]) /\ agent[a] \in AgentStates
    BY DEF Called, AgentInv
  <1>1. CASE \E o \in Objects(Name(a)) : Answer(a, o)
    BY <1>0, <1>1, AnswerKeeps
  <1>2. CASE Malformed(a)
    BY <1>0, <1>2, GiveUpKeeps DEF Malformed
  <1>3. CASE NotAnObject(a)
    BY <1>0, <1>3, StopKeeps DEF NotAnObject
  <1>4. CASE CallFails(a)
    <2>1. agent[a].attempt # _MAX_RETRIES => agent[a].attempt < _MAX_RETRIES
      BY <1>0 DEF AgentStates, _MAX_RETRIES
    <2> QED
      BY <1>0, <1>4, <2>1, GiveUpKeeps, StopKeeps DEF CallFails
  <1> QED
    BY <1>1, <1>2, <1>3, <1>4 DEF Called

(* The agent asks again after a sleep.                                     *)
LEMMA RetryKeeps == ASSUME AgentInv, NEW a \in Agents, Retry(a) PROVE AgentInv'
  <1> DEFINE r == [agent[a] EXCEPT !.stage = "asking", !.attempt = Attempt(@)]
  <1>1. /\ agent[a].stage = "sleeping" /\ agent[a] \in AgentStates /\ agent[a].job \in DOMAIN Jobs
        /\ agent[a].mode \in Modes /\ agent[a].call \in 1..Len(Calls(agent[a]))
        /\ agent[a].attempt < _MAX_RETRIES /\ Ask(a, r)
    BY DEF Retry, AgentInv, Good
  <1>2. agent[a].attempt \in 0.._MAX_RETRIES
    BY <1>1 DEF AgentStates
  <1>3. Attempt(agent[a].attempt) \in 0.._MAX_RETRIES
    BY <1>1, <1>2 DEF Attempt, _MAX_RETRIES
  <1>4. /\ r \in AgentStates /\ r.stage = "asking" /\ r.job = agent[a].job
        /\ r.mode = agent[a].mode /\ r.call = agent[a].call
    BY <1>1, <1>3 DEF AgentStates
  <1> QED
    BY <1>1, <1>4, AskKeeps DEF Calls

(* A node constructs its agent.                                            *)
LEMMA ConstructKeeps ==
    ASSUME CallIInv, NEW a \in Agents, NEW j \in DOMAIN Jobs, Construct(a, j)
    PROVE  AgentInv'
  <1> DEFINE r == [NoAgent EXCEPT !.stage = "asking", !.job = j, !.mode = get_model_router,
                                  !.call = 1, !.attempt = 1]
  <1>1. get_model_router \in Modes
    BY RouterIsSet DEF CallIInv, SwitchIInv
  <1>2. 1 \in 0.._MAX_RETRIES /\ 1 \in Nat /\ 1 \in 1..Len(Jobs[j].calls)
    BY JobFacts DEF _MAX_RETRIES
  <1>3. /\ r \in AgentStates /\ r.stage = "asking" /\ r.job = j
        /\ r.mode = get_model_router /\ r.call = 1
    BY <1>1, <1>2 DEF AgentStates, NoAgent
  <1> QED
    BY <1>1, <1>2, <1>3, AskKeeps DEF Construct, CallIInv, Calls

(* The agents are lost with the process.                                   *)
LEMMA RebootKeeps == ASSUME AgentInv, RebootAgents PROVE AgentInv'
  <1>1. ASSUME NEW a \in Agents PROVE agent'[a] \in AgentStates /\ Good(agent'[a], asked[a])
    <2>1. Good(agent[a], asked[a]) /\ agent[a] \in AgentStates
      BY DEF AgentInv
    <2>2. CASE agent[a].stage \in {"asking", "sleeping", "sandbox"}
      <3> DEFINE r == [agent[a] EXCEPT !.stage = "lost"]
      <3>1. /\ r \in AgentStates /\ r.stage = "lost" /\ r.job = agent[a].job
            /\ r.mode = agent[a].mode /\ r.call = agent[a].call
        BY <2>1 DEF AgentStates
      <3>2. agent'[a] = r
        BY <2>2 DEF RebootAgents
      <3>3. Good(r, asked[a])
        BY <2>1, <2>2, <3>1 DEF Good, Calls
      <3> QED
        BY <3>1, <3>2, <3>3
    <2>3. CASE agent[a].stage \notin {"asking", "sleeping", "sandbox"}
      BY <2>1, <2>3 DEF RebootAgents
    <2> QED
      BY <2>2, <2>3
  <1>2. asked' = asked /\ agent' \in [Agents -> AgentStates]
    BY <1>1 DEF RebootAgents
  <1>3. \A a \in Agents : Good(agent'[a], asked'[a])
    BY <1>1, <1>2
  <1> QED
    BY <1>2, <1>3 DEF AgentInv, Good, AgentStates, Questions, Calls, Modes, get, ReflectionRaises

(* No agent moves.                                                         *)
LEMMA AgentStutter == ASSUME AgentInv, UNCHANGED agentVars PROVE AgentInv'
  BY DEF AgentInv, agentVars, Good, AgentStates, Questions, Calls, Modes, get, ReflectionRaises

-----------------------------------------------------------------------------
(* The initial state satisfies the inductive invariant.                    *)
LEMMA InitIInv == CallInit => CallIInv
  <1> SUFFICES ASSUME CallInit PROVE CallIInv
    OBVIOUS
  <1>1. NoAgent \in AgentStates /\ NoAgent.stage = "none"
    BY DEF NoAgent, AgentStates, _MAX_RETRIES
  <1>2. Good(NoAgent, {})
    BY <1>1 DEF Good
  <1> QED
    BY <1>1, <1>2, SwitchInit DEF CallInit, CallIInv, AgentInv

(* Every step keeps the inductive invariant.                               *)
LEMMA IInvStep == CallIInv /\ [CallNext]_callVars => CallIInv'
  <1> SUFFICES ASSUME CallIInv, [CallNext]_callVars PROVE CallIInv'
    OBVIOUS
  <1> USE DEF CallIInv
  <1>1. ASSUME NEW a \in Agents, AgentStep(a) PROVE CallIInv'
    <2>1. UNCHANGED vars
      BY <1>1 DEF AgentStep, Called, Retry, Executed
    <2>2. CASE Executed(a)
      <3>1. agent[a].stage = "sandbox" /\ NextTask(a) /\ Name(a) = "executor"
        BY <2>2 DEF Executed, AgentInv, Good, Name
      <3> QED
        BY <2>1, <3>1, NextTaskKeeps, SwitchStutter
    <2> QED
      BY <1>1, <2>1, <2>2, CalledKeeps, RetryKeeps, SwitchStutter DEF AgentStep
  <1>2. ASSUME NEW a \in Agents, NEW j \in DOMAIN Jobs, Construct(a, j) PROVE CallIInv'
    <2>1. UseRouter
      BY <1>2 DEF Construct, UseRouter
    <2> QED
      BY <1>2, <2>1, UseStep, ConstructKeeps
  <1>3. ASSUME UseRouter \/ \E r \in Requests : Handle(r), UNCHANGED agentVars PROVE CallIInv'
    BY <1>3, UseStep, HandleStep, AgentStutter
  <1>4. CASE RebootAgents
    BY <1>4, RebootStep, RebootKeeps DEF RebootAgents
  <1>5. CASE UNCHANGED callVars
    BY <1>5, SwitchStutter, AgentStutter DEF callVars
  <1> QED
    BY <1>1, <1>2, <1>3, <1>4, <1>5 DEF CallNext

(* The inductive invariant always holds.                                   *)
THEOREM Inductive == CallSpec => []CallIInv
  BY InitIInv, IInvStep, PTL DEF CallSpec

(* Type correctness of the agents and of the provider switch.              *)
THEOREM TypeCorrect == CallSpec => []AgentTypeOK
  <1>1. CallIInv => AgentTypeOK
    BY DEF CallIInv, SwitchIInv, AgentInv, AgentTypeOK
  <1> QED
    BY <1>1, Inductive, PTL

(* While requests do not overlap and Redis does not fail, a restart leaves *)
(* the router in the mode it had.                                          *)
THEOREM SerialSwitchesAgreeHolds == CallSpec => []SerialSwitchesAgree
  <1>1. CallIInv => SerialSwitchesAgree
    BY DEF CallIInv, SwitchIInv
  <1> QED
    BY <1>1, Inductive, PTL

(* An agent asks models of one mode only, whatever is switched meanwhile.  *)
THEOREM OneModePerAgentHolds == CallSpec => []OneModePerAgent
  <1>1. CallIInv => OneModePerAgent
    <2> SUFFICES ASSUME CallIInv, NEW a \in Agents
                 PROVE  \E m \in Modes : \A q \in asked[a] : q.model = get(m, q.type)
      BY DEF OneModePerAgent
    <2>1. Good(agent[a], asked[a])
      BY DEF CallIInv, AgentInv
    <2>2. CASE agent[a].stage = "none"
      BY <2>1, <2>2 DEF Good, Modes
    <2>3. CASE agent[a].stage # "none"
      BY <2>1, <2>3 DEF Good
    <2> QED
      BY <2>2, <2>3
  <1> QED
    BY <1>1, Inductive, PTL

-----------------------------------------------------------------------------
(* Reports and reflections.                                                *)

InUnit(n) == n \in Int /\ 0 <= n /\ n <= 10000

(* A score that float accepts is clamped to 0..1.                          *)
LEMMA ClampRange ==
    ASSUME NEW v \in Scores, v # Bad
    PROVE  InUnit(Clamp(v)) /\ (v = Absent => Clamp(v) = 0)
  <1>1. CASE v \in [kind : {"number"}, n : Int]
    <2>1. v.kind = "number" /\ v.n \in Int /\ v # Absent
      BY <1>1 DEF Absent
    <2>2. Clamp(v) = IF v.n < 0 THEN 0 ELSE AtMost(v.n, 10000)
      BY <2>1 DEF Clamp
    <2>3. ASSUME NEW n \in Int PROVE InUnit(IF n < 0 THEN 0 ELSE AtMost(n, 10000))
      BY DEF AtMost, InUnit
    <2> QED
      BY <2>1, <2>2, <2>3
  <1>2. CASE v \in {Infinity, NaN}
    BY <1>2 DEF Clamp, Infinity, NaN, Absent, InUnit
  <1>3. CASE v = Absent
    BY <1>3 DEF Clamp, Absent, InUnit
  <1> QED
    BY <1>1, <1>2, <1>3 DEF Scores

(* _validate_reflection: pass needs all five dimensions.                   *)
LEMMA PassNeedsAll ==
    ASSUME NEW o \in DOMAIN Reflections, ~ReflectionRaises(Reflections[o]),
           _validate_reflection(Reflections[o]).pass, DimensionSum(Reflections[o]) > 0
    PROVE  /\ _DIMENSIONS \subseteq DOMAIN Reflections[o].dims
           /\ \A d \in _DIMENSIONS : Clamp(Dimension(Reflections[o], d)) >= 2498
  <1> DEFINE r == Reflections[o]
             v(d) == Clamp(Dimension(r, d))
  <1>1. ASSUME NEW d \in _DIMENSIONS
        PROVE  InUnit(v(d)) /\ (d \notin DOMAIN r.dims => v(d) = 0)
    <2>1. Dimension(r, d) # Bad
      BY DEF ReflectionRaises
    <2>2. Dimension(r, d) \in Scores /\ (d \notin DOMAIN r.dims => Dimension(r, d) = Absent)
      BY AgentAssumption DEF Dimension, Scores
    <2> QED
      BY <2>1, <2>2, ClampRange
  <1>2. Quality(r) >= 8500
    <2>1. _validate_reflection(r).pass = (Quality(r) >= _QUALITY_THRESHOLD)
      BY DEF _validate_reflection
    <2>2. Quality(r) >= _QUALITY_THRESHOLD
      BY <2>1, Zenon
    <2> QED
      BY <2>2 DEF _QUALITY_THRESHOLD
  <1>3. (2 * (v("completeness") + v("accuracy") + v("quality") + v("efficiency") + v("format_score")) + 5)
          \div 10 >= 8500
    BY <1>2 DEF Quality, DimensionSum
  <1>4. /\ v("completeness") >= 2498 /\ v("accuracy") >= 2498 /\ v("quality") >= 2498
        /\ v("efficiency") >= 2498 /\ v("format_score") >= 2498
    <2>1. /\ InUnit(v("completeness")) /\ InUnit(v("accuracy")) /\ InUnit(v("quality"))
          /\ InUnit(v("efficiency")) /\ InUnit(v("format_score"))
      <3>1. /\ "completeness" \in _DIMENSIONS /\ "accuracy" \in _DIMENSIONS /\ "quality" \in _DIMENSIONS
            /\ "efficiency" \in _DIMENSIONS /\ "format_score" \in _DIMENSIONS
        BY DEF _DIMENSIONS
      <3> QED
        BY <1>1, <3>1
    <2>2. ASSUME NEW n \in Int, (2 * n + 5) \div 10 >= 8500 PROVE n >= 42498
      BY <2>2
    <2> HIDE DEF v
    <2>3. v("completeness") + v("accuracy") + v("quality") + v("efficiency") + v("format_score") >= 42498
      BY <1>3, <2>1, <2>2 DEF InUnit
    <2> QED
      BY <2>1, <2>3 DEF InUnit
  <1>5. ASSUME NEW d \in _DIMENSIONS PROVE v(d) >= 2498 /\ d \in DOMAIN r.dims
    <2>1. v(d) >= 2498
      BY <1>4 DEF _DIMENSIONS
    <2> QED
      BY <1>1, <2>1
  <1> QED
    BY <1>5

(* _validate_report: every report comes out complete.                      *)
LEMMA ReportComplete ==
    ASSUME NEW r
    PROVE  /\ _REQUIRED_KEYS \subseteq DOMAIN _validate_report(r)
           /\ \A k \in VerifierDims : _validate_report(r)[k].object
  <1>1. VerifierDims \subseteq _REQUIRED_KEYS /\ Failing.object
    BY DEF VerifierDims, Failing
  <1>2. CASE Complete(r)
    <2>1. ASSUME NEW k \in VerifierDims PROVE _validate_report(r)[k].object
      BY <1>1, <1>2 DEF _validate_report, Complete
    <2> QED
      BY <1>2, <2>1 DEF _validate_report, Complete
  <1>3. CASE ~Complete(r)
    BY <1>1, <1>3 DEF _validate_report, FailingReport
  <1> QED
    BY <1>2, <1>3

(* A session passes on the mean of the five dimensions, not on the         *)
(* reflector's word, and what the reflector reads of the verifier's report *)
(* is there, for all objects that a model can answer.                      *)
THEOREM VerdictGuardedHolds == CallSpec => []VerdictGuarded
  <1>1. CallIInv => VerdictGuarded
    <2> SUFFICES ASSUME CallIInv, NEW a \in Agents, agent[a].stage = "done"
                 PROVE  /\ Name(a) = "reflector" =>
                             LET r == Reflections[agent[a].answer]
                             IN  _validate_reflection(r).pass /\ DimensionSum(r) > 0 =>
                                   /\ _DIMENSIONS \subseteq DOMAIN r.dims
                                   /\ \A d \in _DIMENSIONS : Clamp(Dimension(r, d)) >= 2498
                        /\ Name(a) = "verifier" =>
                             LET r == _validate_report(Reported[agent[a].answer])
                             IN  /\ _REQUIRED_KEYS \subseteq DOMAIN r
                                 /\ \A k \in VerifierDims : r[k].object
      BY DEF VerdictGuarded
    <2>1. Good(agent[a], asked[a])
      BY DEF CallIInv, AgentInv
    <2>2. ASSUME Name(a) = "reflector"
          PROVE  /\ agent[a].answer \in DOMAIN Reflections
                 /\ ~ReflectionRaises(Reflections[agent[a].answer])
      BY <2>1, <2>2 DEF Good, Name
    <2> QED
      BY <2>2, PassNeedsAll, ReportComplete
  <1> QED
    BY <1>1, Inductive, PTL

-----------------------------------------------------------------------------
(* Lengths of prompts.  What Total computes is shown without an induction  *)
(* scheme, by taking the smallest number for which it would be wrong.      *)

(* A set of naturals has a least element.                                  *)
LEMMA LeastNat == ASSUME NEW T \in SUBSET Nat, T # {} PROVE \E x \in T : \A y \in T : x <= y
  <1>1. PICK x \in T : \A y \in T : ~(<<y, x>> \in OpToRel(<, Nat))
    BY NatLessThanWellFounded, WFMin
  <1>2. \A y \in T : ~(y < x)
    BY <1>1 DEF OpToRel
  <1> QED
    BY <1>2

(* f is the function of the partial sums of l, up to n.                    *)
Sums(f, l, n) == f = [i \in 0..n |-> IF i = 0 THEN 0 ELSE f[i - 1] + l[i]]

(* There is such a function.                                               *)
LEMMA SumsExist == ASSUME NEW l, NEW n \in Nat PROVE \E f : Sums(f, l, n)
  <1> DEFINE T == {m \in Nat : ~ \E f : Sums(f, l, m)}
  <1> SUFFICES ASSUME T # {} PROVE FALSE
    OBVIOUS
  <1>1. PICK m \in T : \A y \in T : m <= y
    BY LeastNat
  <1>2. m # 0
    <2>1. Sums([i \in 0..0 |-> 0], l, 0)
      BY DEF Sums
    <2> QED
      BY <2>1
  <1>3. m - 1 \in Nat /\ m - 1 \notin T
    BY <1>1, <1>2
  <1>4. PICK f : Sums(f, l, m - 1)
    BY <1>3
  <1> DEFINE g == [i \in 0..m |-> IF i = m THEN f[m - 1] + l[m] ELSE f[i]]
  <1>5. \A i \in 0..m : g[i] = IF i = 0 THEN 0 ELSE g[i - 1] + l[i]
    BY <1>2, <1>3, <1>4 DEF Sums
  <1>6. Sums(g, l, m)
    BY <1>5 DEF Sums
  <1> QED
    BY <1>6

(* Total is the last partial sum.                                          *)
LEMMA TotalSums ==
    ASSUME NEW l, Len(l) \in Nat
    PROVE  \E f : /\ Total(l) = f[Len(l)]
                  /\ f[0] = 0
                  /\ \A i \in 1..Len(l) : f[i] = f[i - 1] + l[i]
  <1> DEFINE g == CHOOSE f : Sums(f, l, Len(l))
  <1>1. Sums(g, l, Len(l))
    BY SumsExist
  <1>2. Total(l) = g[Len(l)]
    BY DEF Total, Sums
  <1>3. g[0] = 0 /\ \A i \in 1..Len(l) : g[i] = g[i - 1] + l[i]
    <2> HIDE DEF g
    <2> QED
      BY <1>1 DEF Sums
  <1> QED
    BY <1>2, <1>3

(* A sum of lengths is a length, no less than any of them.                 *)
LEMMA TotalNat ==
    ASSUME NEW l \in Seq(Nat)
    PROVE  Total(l) \in Nat /\ \A k \in 1..Len(l) : l[k] <= Total(l)
  <1>1. Len(l) \in Nat /\ \A i \in 1..Len(l) : l[i] \in Nat
    BY LenProperties, ElementOfSeq
  <1>2. PICK f : Total(l) = f[Len(l)] /\ f[0] = 0 /\ \A i \in 1..Len(l) : f[i] = f[i - 1] + l[i]
    BY <1>1, TotalSums
  <1>3. ASSUME NEW j \in 0..Len(l) PROVE f[j] \in Nat
    <2> DEFINE T == {i \in 0..Len(l) : f[i] \notin Nat}
    <2> SUFFICES ASSUME T # {} PROVE FALSE
      OBVIOUS
    <2>1. PICK m \in T : \A y \in T : m <= y
      <3>1. T \in SUBSET Nat
        BY <1>1
      <3> QED
        BY <3>1, LeastNat
    <2>2. m # 0
      BY <1>2
    <2>3. m \in 1..Len(l) /\ m - 1 \in 0..Len(l)
      BY <1>1, <2>1, <2>2
    <2>4. f[m - 1] \in Nat
      <3>1. m \in Nat /\ ~(m <= m - 1)
        BY <1>1, <2>3
      <3>2. m - 1 \notin T
        BY <2>1, <3>1
      <3> QED
        BY <2>3, <3>2
    <2>5. f[m] = f[m - 1] + l[m] /\ l[m] \in Nat
      BY <1>1, <1>2, <2>3
    <2>6. f[m] \in Nat
      BY <2>4, <2>5
    <2> QED
      BY <2>1, <2>6
  <1>4. ASSUME NEW k \in 1..Len(l), NEW j \in k..Len(l) PROVE l[k] <= f[j]
    <2> DEFINE T == {i \in k..Len(l) : ~(l[k] <= f[i])}
    <2> SUFFICES ASSUME T # {} PROVE FALSE
      OBVIOUS
    <2>1. PICK m \in T : \A y \in T : m <= y
      <3>1. T \in SUBSET Nat
        BY <1>1
      <3> QED
        BY <3>1, LeastNat
    <2>2. /\ m \in k..Len(l) /\ m \in 1..Len(l) /\ f[m - 1] \in Nat /\ f[m] = f[m - 1] + l[m]
          /\ l[m] \in Nat /\ l[k] \in Nat
      BY <1>1, <1>2, <1>3, <2>1
    <2>3. m # k
      BY <2>1, <2>2
    <2>4. m - 1 \in k..Len(l) /\ m - 1 \notin T
      <3>1. m - 1 \in k..Len(l) /\ ~(m <= m - 1)
        BY <1>1, <2>2, <2>3
      <3> QED
        BY <2>1, <3>1
    <2>5. l[k] <= f[m - 1]
      BY <2>4
    <2>6. l[k] <= f[m]
      BY <2>2, <2>5
    <2> QED
      BY <2>1, <2>6
  <1>5. Len(l) \in 0..Len(l) /\ \A k \in 1..Len(l) : Len(l) \in k..Len(l)
    BY <1>1
  <1> QED
    BY <1>2, <1>3, <1>4, <1>5

(* If each length exceeds another by c at most, so do the sums by c times  *)
(* their number.                                                           *)
LEMMA TotalGrows ==
    ASSUME NEW c \in Nat, NEW l \in Seq(Nat), NEW m \in Seq(Nat), Len(l) = Len(m),
           \A i \in 1..Len(l) : l[i] <= m[i] + c
    PROVE  Total(l) <= Total(m) + c * Len(l)
  <1>1. Len(l) \in Nat /\ Len(m) \in Nat
    BY LenProperties
  <1>2. \A i \in 1..Len(l) : l[i] \in Nat /\ m[i] \in Nat
    BY ElementOfSeq
  <1>3. PICK f : Total(l) = f[Len(l)] /\ f[0] = 0 /\ \A i \in 1..Len(l) : f[i] = f[i - 1] + l[i]
    BY <1>1, TotalSums
  <1>4. PICK g : Total(m) = g[Len(m)] /\ g[0] = 0 /\ \A i \in 1..Len(m) : g[i] = g[i - 1] + m[i]
    BY <1>1, TotalSums
  <1> DEFINE P(i) == f[i] \in Int /\ g[i] \in Int /\ f[i] <= g[i] + c * i
             T == {i \in 0..Len(l) : ~P(i)}
  <1>5. P(0)
    BY <1>3, <1>4
  <1>6. ASSUME NEW j \in 1..Len(l), P(j - 1) PROVE P(j)
    <2>1. /\ f[j] = f[j - 1] + l[j] /\ g[j] = g[j - 1] + m[j]
          /\ l[j] \in Nat /\ m[j] \in Nat /\ l[j] <= m[j] + c
      BY <1>2, <1>3, <1>4
    <2>2. ASSUME NEW a \in Int, NEW b \in Int, NEW x \in Nat, NEW y \in Nat, NEW k \in Int,
                 a <= b + c * (k - 1), x <= y + c
          PROVE  a + x \in Int /\ b + y \in Int /\ a + x <= b + y + c * k
      BY <2>2
    <2>3. j \in Int /\ f[j - 1] \in Int /\ g[j - 1] \in Int /\ f[j - 1] <= g[j - 1] + c * (j - 1)
      BY <1>1, <1>6
    <2>4. /\ f[j - 1] + l[j] \in Int /\ g[j - 1] + m[j] \in Int
          /\ f[j - 1] + l[j] <= g[j - 1] + m[j] + c * j
      BY <2>1, <2>2, <2>3, Zenon
    <2> QED
      BY <2>1, <2>4, Zenon
  <1> HIDE DEF P
  <1>7. T = {}
    <2> SUFFICES ASSUME T # {} PROVE FALSE
      OBVIOUS
    <2>1. PICK j \in T : \A y \in T : j <= y
      <3>1. T \in SUBSET Nat
        BY <1>1
      <3> QED
        BY <3>1, LeastNat
    <2>2. j \in 1..Len(l) /\ j - 1 \in 0..Len(l) /\ j - 1 \notin T
      BY <1>1, <1>5, <2>1
    <2> QED
      BY <1>6, <2>1, <2>2
  <1>8. P(Len(l))
    BY <1>1, <1>7
  <1> QED
    BY <1>3, <1>4, <1>8 DEF P

(* One more text at the end.                                               *)
LEMMA TotalAppend ==
    ASSUME NEW l \in Seq(Nat), NEW x \in Nat
    PROVE  /\ l \o <<x>> \in Seq(Nat) /\ Len(l \o <<x>>) = Len(l) + 1
           /\ Total(l \o <<x>>) = Total(l) + x
  <1> DEFINE m == l \o <<x>>
  <1>1. Len(l) \in Nat
    BY LenProperties
  <1>2. <<x>> \in Seq(Nat) /\ Len(<<x>>) = 1 /\ <<x>>[1] = x
    OBVIOUS
  <1>3. m \in Seq(Nat) /\ Len(m) = Len(l) + 1 /\ (\A i \in 1..Len(l) : m[i] = l[i]) /\ m[Len(l) + 1] = x
    BY <1>1, <1>2, ConcatProperties
  <1> HIDE DEF m
  <1>4. Len(m) \in Nat
    BY <1>1, <1>3
  <1>5. PICK f : Total(l) = f[Len(l)] /\ f[0] = 0 /\ \A i \in 1..Len(l) : f[i] = f[i - 1] + l[i]
    BY <1>1, TotalSums
  <1>6. PICK g : Total(m) = g[Len(m)] /\ g[0] = 0 /\ \A i \in 1..Len(m) : g[i] = g[i - 1] + m[i]
    BY <1>4, TotalSums
  <1> DEFINE T == {i \in 0..Len(l) : g[i] # f[i]}
  <1>7. T = {}
    <2> SUFFICES ASSUME T # {} PROVE FALSE
      OBVIOUS
    <2>1. PICK j \in T : \A y \in T : j <= y
      <3>1. T \in SUBSET Nat
        BY <1>1
      <3> QED
        BY <3>1, LeastNat
    <2>2. j \in 1..Len(l) /\ j \in 1..Len(m) /\ j - 1 \in 0..Len(l) /\ j - 1 \notin T
      BY <1>1, <1>3, <1>5, <1>6, <2>1
    <2>3. g[j - 1] = f[j - 1] /\ m[j] = l[j]
      BY <1>3, <2>2
    <2> QED
      BY <1>5, <1>6, <2>1, <2>2, <2>3
  <1>8. g[Len(l)] = f[Len(l)]
    BY <1>1, <1>7
  <1>9. Len(m) \in 1..Len(m) /\ Len(m) - 1 = Len(l)
    BY <1>1, <1>3
  <1>10. Total(m) = Total(l) + x
    BY <1>3, <1>5, <1>6, <1>8, <1>9
  <1> QED
    BY <1>3, <1>10 DEF m

(* The four texts that every executor's context begins with.               *)
LEMMA TotalFour ==
    ASSUME NEW a \in Nat, NEW b \in Nat, NEW c \in Nat, NEW d \in Nat
    PROVE  <<a, b, c, d>> \in Seq(Nat) /\ Len(<<a, b, c, d>>) = 4 /\ Total(<<a, b, c, d>>) = a + b + c + d
  <1> DEFINE l == <<a, b, c, d>>
  <1>1. /\ l \in Seq(Nat) /\ Len(l) = 4 /\ Len(l) \in Nat
        /\ l[1] = a /\ l[2] = b /\ l[3] = c /\ l[4] = d
    OBVIOUS
  <1> HIDE DEF l
  <1>2. PICK f : Total(l) = f[Len(l)] /\ f[0] = 0 /\ \A i \in 1..Len(l) : f[i] = f[i - 1] + l[i]
    BY <1>1, TotalSums
  <1>3. f[1] = f[0] + l[1] /\ f[2] = f[1] + l[2] /\ f[3] = f[2] + l[3] /\ f[4] = f[3] + l[4]
    BY <1>1, <1>2
  <1>4. Total(l) = a + b + c + d
    BY <1>1, <1>2, <1>3
  <1> QED
    BY <1>1, <1>4 DEF l

(* _truncate keeps to its limit, if that leaves room for the suffix.       *)
LEMMA Truncated ==
    ASSUME NEW text \in Nat, NEW max \in Nat, NEW label \in Nat
    PROVE  /\ Suffix(max, label) \in Nat /\ Suffix(max, label) <= label + 33
           /\ _truncate(text, max, label) \in Nat
           /\ Suffix(max, label) <= max => _truncate(text, max, label) <= max
  <1>1. Suffix(max, label) \in Nat /\ Suffix(max, label) <= label + 33
    BY DEF Suffix, _CHARS_PER_TOKEN
  <1>2. ASSUME NEW k \in Int
        PROVE  Slice(text, k) \in Nat /\ (k >= 0 => Slice(text, k) <= k)
    BY DEF Slice, AtMost
  <1>3. max - Suffix(max, label) \in Int
    BY <1>1
  <1> QED
    BY <1>1, <1>2, <1>3 DEF _truncate

(* A function on 1..n is a sequence.                                       *)
LEMMA IsSeq == ASSUME NEW S, NEW n \in Nat, NEW f \in [1..n -> S] PROVE f \in Seq(S) /\ Len(f) = n
  OBVIOUS

(* A part of a sequence is a sequence.                                     *)
LEMMA PartIsSeq ==
    ASSUME NEW S, NEW s \in Seq(S), NEW m \in Nat \ {0}, NEW n \in 0..Len(s)
    PROVE  SubSeq(s, m, n) \in Seq(S)
  <1>1. Len(s) \in Nat
    BY LenProperties
  <1>2. \A i \in m..n : s[i] \in S
    BY <1>1, ElementOfSeq
  <1>3. m \in Int /\ n \in Int
    BY <1>1
  <1> QED
    BY <1>2, <1>3, SubSeqProperties

(* Joined texts have a length.                                             *)
LEMMA JoinedNat ==
    ASSUME NEW l \in Seq(Nat), NEW n \in {1, 2}
    PROVE  Joined(l, n) \in Nat
  <1>1. Total(l) \in Nat
    BY TotalNat
  <1>2. l # << >> => Len(l) - 1 \in Nat
    BY EmptySeq
  <1>3. \A k \in Nat : 1 * k \in Nat /\ 2 * k \in Nat
    OBVIOUS
  <1> QED
    BY <1>1, <1>2, <1>3 DEF Joined

(* So has a dict.                                                          *)
LEMMA JsonMapNat == ASSUME NEW m \in Entries PROVE JsonMap(m) \in Nat
  <1> DEFINE l == [i \in DOMAIN m |-> m[i].id + m[i].text + 6]
  <1>1. DOMAIN m = 1..Len(m) /\ Len(m) \in Nat
    BY LenProperties DEF Entries
  <1>2. \A i \in 1..Len(m) : m[i] \in [id : Nat, text : Nat]
    BY ElementOfSeq DEF Entries
  <1>3. \A i \in 1..Len(m) : m[i].id + m[i].text + 6 \in Nat
    BY <1>2
  <1>4. l \in [1..Len(m) -> Nat]
    BY <1>1, <1>3
  <1>5. l \in Seq(Nat)
    BY <1>1, <1>4, IsSeq
  <1>6. Joined(l, 2) \in Nat
    BY <1>5, JoinedNat
  <1> QED
    BY <1>6 DEF JsonMap

(* A dict that is summarised is a dict.                                    *)
LEMMA SummarisedEntries == ASSUME NEW m \in Entries PROVE _maybe_summarise(m) \in Entries
  <1>1. DOMAIN m = 1..Len(m) /\ Len(m) \in Nat
    BY LenProperties DEF Entries
  <1>2. ASSUME NEW i \in 1..Len(m)
        PROVE  [m[i] EXCEPT !.text = _truncate(@, 500 * _CHARS_PER_TOKEN, m[i].id)] \in [id : Nat, text : Nat]
    <2>1. m[i] \in [id : Nat, text : Nat]
      BY ElementOfSeq DEF Entries
    <2> DEFINE max == 500 * _CHARS_PER_TOKEN
    <2>2. max \in Nat
      BY DEF _CHARS_PER_TOKEN
    <2>3. m[i].id \in Nat /\ m[i].text \in Nat
      BY <2>1
    <2> HIDE DEF max
    <2>4. _truncate(m[i].text, max, m[i].id) \in Nat
      BY <2>2, <2>3, Truncated
    <2> QED
      BY <2>1, <2>4 DEF max
  <1>3. _summarise_map(m) \in [1..Len(m) -> [id : Nat, text : Nat]]
    BY <1>1, <1>2 DEF _summarise_map
  <1>4. _summarise_map(m) \in Entries
    BY <1>1, <1>3, IsSeq DEF Entries
  <1> QED
    BY <1>4 DEF _maybe_summarise

(* The parts of a planner's context have lengths.                          *)
LEMMA PlannerPartsType == ASSUME NEW s \in States("planner") PROVE PlannerParts(s) \in Seq(Nat)
  <1>1. /\ s.goal \in Nat /\ s.memory \in Seq([goal : Nat, preview : Nat])
        /\ s.iteration \in Nat /\ s.feedback \in Nat
    BY DEF States
  <1> DEFINE items == SubSeq(s.memory, 1, AtMost(5, Len(s.memory)))
             l == [i \in DOMAIN items |-> 12 + items[i].goal + AtMost(200, items[i].preview)]
  <1>2. items \in Seq([goal : Nat, preview : Nat])
    <2>1. Len(s.memory) \in Nat
      BY <1>1, LenProperties
    <2>2. AtMost(5, Len(s.memory)) \in 0..Len(s.memory)
      BY <2>1 DEF AtMost
    <2> DEFINE k == AtMost(5, Len(s.memory))
    <2>3. k \in 0..Len(s.memory) /\ 1 \in Nat \ {0}
      BY <2>2
    <2> HIDE DEF k
    <2>4. SubSeq(s.memory, 1, k) \in Seq([goal : Nat, preview : Nat])
      BY <1>1, <2>3, PartIsSeq
    <2> QED
      BY <2>4 DEF k
  <1>3. l \in Seq(Nat)
    <2>1. DOMAIN items = 1..Len(items) /\ Len(items) \in Nat
      BY <1>2, LenProperties
    <2>2. ASSUME NEW i \in 1..Len(items)
          PROVE  12 + items[i].goal + AtMost(200, items[i].preview) \in Nat
      <3>1. items[i] \in [goal : Nat, preview : Nat]
        BY <1>2, ElementOfSeq
      <3> HIDE DEF items
      <3>2. items[i].goal \in Nat /\ items[i].preview \in Nat
        BY <3>1
      <3>3. \A n \in Nat : AtMost(200, n) \in Nat
        BY DEF AtMost
      <3>4. AtMost(200, items[i].preview) \in Nat
        BY <3>2, <3>3
      <3> QED
        BY <3>2, <3>4
    <2> HIDE DEF items
    <2>3. l \in [1..Len(items) -> Nat]
      BY <2>1, <2>2
    <2> QED
      BY <2>1, <2>3, IsSeq
  <1>4. Joined(<<0, 44>> \o l, 1) \in Nat
    <2>1. <<0, 44>> \in Seq(Nat)
      OBVIOUS
    <2> HIDE DEF l
    <2>2. <<0, 44>> \o l \in Seq(Nat)
      BY <1>3, <2>1, ConcatProperties
    <2> QED
      BY <2>2, JoinedNat
  <1> DEFINE j == Joined(<<0, 44>> \o l, 1)
             a == <<6 + s.goal>>
             b == IF s.memory = << >> THEN << >> ELSE <<j>>
             c == IF s.iteration > 1 THEN <<82 + s.feedback + 52>> ELSE << >>
  <1>5. a \in Seq(Nat) /\ c \in Seq(Nat)
    BY <1>1
  <1>6. b \in Seq(Nat)
    <2>1. j \in Nat
      BY <1>4
    <2> HIDE DEF j
    <2> QED
      BY <2>1
  <1>7. PlannerParts(s) = (a \o b) \o c
    BY DEF PlannerParts
  <1> HIDE DEF a, b, c
  <1> QED
    BY <1>5, <1>6, <1>7, ConcatProperties

(* A text cut to one of the limits.                                        *)
LEMMA CutNat ==
    ASSUME NEW text \in Nat, NEW k \in Nat, NEW label \in Nat
    PROVE  _truncate(text, k * _CHARS_PER_TOKEN, label) \in Nat
  <1>1. k * _CHARS_PER_TOKEN \in Nat
    BY DEF _CHARS_PER_TOKEN
  <1> QED
    BY <1>1, Truncated

(* So have those of a verifier's context.                                  *)
LEMMA VerifierPartsType == ASSUME NEW s \in States("verifier") PROVE VerifierParts(s) \in Seq(Nat)
  <1>1. s.goal \in Nat /\ s.plan \in Nat /\ s.research \in Entries /\ s.outputs \in Entries
    BY DEF States
  <1> DEFINE c == JsonMap(_maybe_summarise(s.research))
             o == JsonMap(_maybe_summarise(s.outputs))
             d == _truncate(o, 8000 * _CHARS_PER_TOKEN, 16)
  <1>2. c \in Nat /\ o \in Nat
    BY <1>1, SummarisedEntries, JsonMapNat
  <1>3. d \in Nat
    <2> DEFINE k == 8000
               label == 16
    <2>1. o \in Nat /\ k \in Nat /\ label \in Nat
      BY <1>2
    <2> HIDE DEF o, k, label
    <2>2. _truncate(o, k * _CHARS_PER_TOKEN, label) \in Nat
      BY <2>1, CutNat
    <2> QED
      BY <2>2 DEF k, label
  <1>4. VerifierParts(s) = <<15 + s.goal, 11 + s.plan, 31 + c, 19 + d, 99>>
    BY DEF VerifierParts
  <1> HIDE DEF c, d
  <1> QED
    BY <1>1, <1>2, <1>3, <1>4

(* So have those of a reflector's context.                                 *)
LEMMA ReflectorPartsType == ASSUME NEW s \in States("reflector") PROVE ReflectorParts(s) \in Seq(Nat)
  <1>1. s.goal \in Nat /\ s.report \in Nat /\ s.outputs \in Entries /\ s.errors \in Seq(Nat)
    BY DEF States
  <1> DEFINE last == SubSeq(s.errors, IF Len(s.errors) > 10 THEN Len(s.errors) - 9 ELSE 1, Len(s.errors))
             l == [i \in DOMAIN last |-> last[i] + 2]
             o == JsonMap(s.outputs)
             d == _truncate(o, 4000 * _CHARS_PER_TOKEN, 16)
  <1>2. d \in Nat
    <2> DEFINE k == 4000
               label == 16
    <2>1. o \in Nat /\ k \in Nat /\ label \in Nat
      BY <1>1, JsonMapNat
    <2> HIDE DEF o, k, label
    <2>2. _truncate(o, k * _CHARS_PER_TOKEN, label) \in Nat
      BY <2>1, CutNat
    <2> QED
      BY <2>2 DEF k, label
  <1>3. last \in Seq(Nat)
    <2>1. Len(s.errors) \in Nat
      BY <1>1, LenProperties
    <2> DEFINE k == IF Len(s.errors) > 10 THEN Len(s.errors) - 9 ELSE 1
    <2>2. k \in Nat \ {0}
      <3>1. ASSUME NEW n \in Nat PROVE (IF n > 10 THEN n - 9 ELSE 1) \in Nat \ {0}
        OBVIOUS
      <3> QED
        BY <2>1, <3>1
    <2>3. Len(s.errors) \in 0..Len(s.errors)
      BY <2>1
    <2> HIDE DEF k
    <2>4. SubSeq(s.errors, k, Len(s.errors)) \in Seq(Nat)
      BY <1>1, <2>2, <2>3, PartIsSeq
    <2> QED
      BY <2>4 DEF k
  <1> HIDE DEF last
  <1>4. JsonList(last) \in Nat
    <2>1. DOMAIN last = 1..Len(last) /\ Len(last) \in Nat
      BY <1>3, LenProperties
    <2>2. \A i \in 1..Len(last) : last[i] \in Nat
      BY <1>3, ElementOfSeq
    <2>3. l \in [1..Len(last) -> Nat]
      BY <2>1, <2>2
    <2>4. l \in Seq(Nat)
      BY <2>1, <2>3, IsSeq
    <2>5. Joined(l, 2) \in Nat
      BY <2>4, JoinedNat
    <2> QED
      BY <2>5 DEF JsonList
  <1>5. ReflectorParts(s) = <<15 + s.goal, 17, 17 + s.report, 38 + d, 21 + JsonList(last)>>
    BY DEF ReflectorParts, last
  <1> HIDE DEF d
  <1>6. 15 + s.goal \in Nat /\ 17 \in Nat /\ 17 + s.report \in Nat /\ 38 + d \in Nat /\ 21 + JsonList(last) \in Nat
    BY <1>1, <1>2, <1>4
  <1> QED
    BY <1>5, <1>6

(* The lines of a task's dependencies, and their ids.                      *)
Lines(s) ==
    [i \in DOMAIN s.outputs |->
        4 + s.outputs[i].id + _truncate(s.outputs[i].text, 1000 * _CHARS_PER_TOKEN, s.outputs[i].id)]
Ids(s) == [i \in DOMAIN s.outputs |-> s.outputs[i].id]

(* A line is at most 4,004 characters longer than its id, if the id leaves *)
(* room for the suffix.                                                    *)
LEMMA LineFacts ==
    ASSUME NEW s \in States("executor")
    PROVE  /\ Lines(s) \in Seq(Nat) /\ Ids(s) \in Seq(Nat)
           /\ Len(Lines(s)) = Len(s.outputs) /\ Len(Ids(s)) = Len(s.outputs)
           /\ \A i \in 1..Len(s.outputs) : Ids(s)[i] <= 3000 => Lines(s)[i] <= Ids(s)[i] + 4004
  <1>1. s.outputs \in Seq([id : Nat, text : Nat])
    BY DEF States, Entries
  <1>2. DOMAIN s.outputs = 1..Len(s.outputs) /\ Len(s.outputs) \in Nat
    BY <1>1, LenProperties
  <1>3. ASSUME NEW i \in 1..Len(s.outputs)
        PROVE  /\ Ids(s)[i] \in Nat /\ Lines(s)[i] \in Nat
               /\ Ids(s)[i] <= 3000 => Lines(s)[i] <= Ids(s)[i] + 4004
    <2> DEFINE d == s.outputs[i]
               max == 1000 * _CHARS_PER_TOKEN
               t == _truncate(d.text, max, d.id)
    <2>1. d \in [id : Nat, text : Nat]
      BY <1>1, ElementOfSeq
    <2>2. d.id \in Nat /\ d.text \in Nat
      BY <2>1
    <2>3. max = 4000
      BY DEF _CHARS_PER_TOKEN
    <2>4. Ids(s)[i] = d.id /\ Lines(s)[i] = 4 + d.id + t
      BY <1>2 DEF Ids, Lines
    <2>5. max \in Nat
      BY <2>3
    <2> HIDE DEF d, max
    <2>6. /\ Suffix(max, d.id) \in Nat /\ Suffix(max, d.id) <= d.id + 33
          /\ t \in Nat /\ (Suffix(max, d.id) <= max => t <= max)
      BY <2>2, <2>5, Truncated
    <2> HIDE DEF t
    <2>7. Ids(s)[i] \in Nat /\ Lines(s)[i] \in Nat
      BY <2>2, <2>4, <2>6
    <2>8. d.id <= 3000 => 4 + d.id + t <= d.id + 4004
      BY <2>2, <2>3, <2>6
    <2> QED
      BY <2>4, <2>7, <2>8
  <1>4. Ids(s) \in [1..Len(s.outputs) -> Nat] /\ Lines(s) \in [1..Len(s.outputs) -> Nat]
    <2>1. /\ Ids(s) = [i \in 1..Len(s.outputs) |-> Ids(s)[i]]
          /\ Lines(s) = [i \in 1..Len(s.outputs) |-> Lines(s)[i]]
      BY <1>2 DEF Ids, Lines
    <2>2. \A i \in 1..Len(s.outputs) : Ids(s)[i] \in Nat /\ Lines(s)[i] \in Nat
      BY <1>3
    <2> QED
      BY <2>1, <2>2
  <1>5. /\ Ids(s) \in Seq(Nat) /\ Len(Ids(s)) = Len(s.outputs)
        /\ Lines(s) \in Seq(Nat) /\ Len(Lines(s)) = Len(s.outputs)
    BY <1>2, <1>4, IsSeq
  <1> QED
    BY <1>3, <1>5

(* The length of an executor's context before it is cut.                   *)
LEMMA ExecutorLength ==
    ASSUME NEW s \in States("executor")
    PROVE  /\ ExecutorParts(s) \in Seq(Nat)
           /\ \E r \in Nat :
                /\ r <= 12000
                /\ Joined(ExecutorParts(s), 2) <=
                     s.task.id + s.task.description + s.task.hints + r + Joined(Lines(s), 1) + 161
  <1>1. s.task.research \in Nat /\ s.task.id \in Nat /\ s.task.description \in Nat /\ s.task.hints \in Nat
    BY DEF States
  <1> DEFINE r == _truncate(s.task.research, 3000 * _CHARS_PER_TOKEN, 16)
             j == Joined(Lines(s), 1)
  <1>2. r \in Nat /\ r <= 12000
    <2> DEFINE max == 3000 * _CHARS_PER_TOKEN
               label == 16
    <2>1. max = 12000 /\ label = 16
      BY DEF _CHARS_PER_TOKEN
    <2>2. max \in Nat /\ label \in Nat
      BY <2>1
    <2> HIDE DEF max, label
    <2>3. /\ Suffix(max, label) \in Nat /\ Suffix(max, label) <= label + 33
          /\ _truncate(s.task.research, max, label) \in Nat
          /\ Suffix(max, label) <= max => _truncate(s.task.research, max, label) <= max
      BY <1>1, <2>2, Truncated
    <2>4. Suffix(max, label) <= max
      BY <2>1, <2>3
    <2>5. r = _truncate(s.task.research, max, label)
      BY DEF max, label
    <2> HIDE DEF r
    <2> QED
      BY <2>1, <2>3, <2>4, <2>5
  <1>3. j \in Nat
    BY LineFacts, JoinedNat
  <1> DEFINE p == <<9 + s.task.id, 13 + s.task.description, 12 + s.task.hints, 32 + r>>
             q == p \o (IF s.outputs = << >> THEN << >> ELSE <<27 + j>>)
             x == 58
  <1>4. ExecutorParts(s) = q \o <<x>>
    BY DEF ExecutorParts, Lines
  <1> HIDE DEF r, j
  <1>5. /\ p \in Seq(Nat) /\ Len(p) = 4
        /\ Total(p) = 66 + s.task.id + s.task.description + s.task.hints + r
    <2> DEFINE a == 9 + s.task.id
               b == 13 + s.task.description
               c == 12 + s.task.hints
               d == 32 + r
    <2>1. a \in Nat /\ b \in Nat /\ c \in Nat /\ d \in Nat
      BY <1>1, <1>2
    <2> HIDE DEF a, b, c, d
    <2>2. <<a, b, c, d>> \in Seq(Nat) /\ Len(<<a, b, c, d>>) = 4 /\ Total(<<a, b, c, d>>) = a + b + c + d
      BY <2>1, TotalFour
    <2>3. p = <<a, b, c, d>>
      BY DEF a, b, c, d
    <2>4. a + b + c + d = 66 + s.task.id + s.task.description + s.task.hints + r
      BY <1>1, <1>2 DEF a, b, c, d
    <2> HIDE DEF p
    <2> QED
      BY <2>2, <2>3, <2>4
  <1>6. Total(p) \in Nat
    BY <1>5, TotalNat
  <1> HIDE DEF p
  <1>7. /\ q \in Seq(Nat) /\ (Len(q) = 4 \/ Len(q) = 5)
        /\ Total(q) \in Nat /\ Total(q) <= Total(p) + 27 + j
    <2>1. CASE s.outputs = << >>
      <3>1. p \o << >> = p
        BY <1>5, ConcatEmptySeq
      <3>2. q = p
        BY <2>1, <3>1
      <3> HIDE DEF q
      <3> QED
        BY <1>3, <1>5, <1>6, <3>2
    <2>2. CASE s.outputs # << >>
      <3> DEFINE e == 27 + j
      <3>1. e \in Nat
        BY <1>3
      <3>2. q = p \o <<e>>
        BY <2>2
      <3> HIDE DEF q, e
      <3>3. q \in Seq(Nat) /\ Len(q) = Len(p) + 1 /\ Total(q) = Total(p) + e
        BY <1>5, <3>1, <3>2, TotalAppend
      <3> QED
        BY <1>3, <1>5, <1>6, <3>1, <3>3 DEF e
    <2> QED
      BY <2>1, <2>2
  <1> HIDE DEF q
  <1>8. x \in Nat /\ x = 58
    OBVIOUS
  <1> HIDE DEF x
  <1>9. /\ ExecutorParts(s) \in Seq(Nat) /\ Len(ExecutorParts(s)) = Len(q) + 1
        /\ Total(ExecutorParts(s)) = Total(q) + x
    BY <1>4, <1>7, <1>8, TotalAppend
  <1>10. Joined(ExecutorParts(s), 2) <= Total(ExecutorParts(s)) + 10
    <2>1. Total(ExecutorParts(s)) \in Nat
      BY <1>9, TotalNat
    <2> DEFINE t == Total(ExecutorParts(s))
               n == Len(ExecutorParts(s))
    <2>2. n = 5 \/ n = 6
      <3>1. (Len(q) = 4 \/ Len(q) = 5) /\ n = Len(q) + 1
        BY <1>7, <1>9
      <3>2. 4 + 1 = 5 /\ 5 + 1 = 6
        OBVIOUS
      <3> QED
        BY <3>1, <3>2, Zenon
    <2>3. Joined(ExecutorParts(s), 2) = t \/ Joined(ExecutorParts(s), 2) = t + 2 * (n - 1)
      <3>1. t + 0 = t
        BY <2>1
      <3> QED
        BY <3>1 DEF Joined
    <2> HIDE DEF t, n
    <2>4. t \in Nat
      BY <2>1 DEF t
    <2>5. t <= t + 10 /\ t + 2 * (n - 1) <= t + 10
      BY <2>2, <2>4
    <2> QED
      BY <2>3, <2>5 DEF t
  <1>11. Joined(ExecutorParts(s), 2) \in Nat
    BY <1>9, JoinedNat
  <1>12. Joined(ExecutorParts(s), 2) <=
           s.task.id + s.task.description + s.task.hints + r + j + 161
    <2>1. Total(ExecutorParts(s)) = Total(q) + 58 /\ Total(q) \in Nat /\ Total(q) <= Total(p) + 27 + j
      BY <1>7, <1>8, <1>9
    <2>2. Total(p) = 66 + s.task.id + s.task.description + s.task.hints + r
      BY <1>5
    <2>3. Total(ExecutorParts(s)) <= s.task.id + s.task.description + s.task.hints + r + j + 151
      BY <1>1, <1>2, <1>3, <2>1, <2>2
    <2>4. Total(ExecutorParts(s)) \in Nat
      BY <1>9, TotalNat
    <2> QED
      BY <1>1, <1>2, <1>3, <1>10, <1>11, <2>3, <2>4
  <1> QED
    BY <1>2, <1>9, <1>12 DEF j

(* Every context keeps to its budget.                                      *)
LEMMA ContextFits ==
    ASSUME NEW name \in {"planner", "executor", "verifier", "reflector"}, NEW s \in States(name)
    PROVE  Context(name, s) <= Budget(name)
  <1>1. Parts(name, s) \in Seq(Nat)
    <2>1. CASE name = "planner"
      BY <2>1, PlannerPartsType DEF Parts
    <2>2. CASE name = "executor"
      BY <2>2, ExecutorLength DEF Parts
    <2>3. CASE name = "verifier"
      BY <2>3, VerifierPartsType DEF Parts
    <2>4. CASE name = "reflector"
      BY <2>4, ReflectorPartsType DEF Parts
    <2> QED
      BY <2>1, <2>2, <2>3, <2>4
  <1> DEFINE t == Joined(Parts(name, s), 2)
  <1>2. t \in Nat
    BY <1>1, JoinedNat
  <1>3. /\ Budget(name) \in Nat /\ Label(name) \in Nat /\ Label(name) + 33 <= Budget(name)
    BY DEF Budget, Label, _PLANNER_INPUT_BUDGET, _EXECUTOR_INPUT_BUDGET, _VERIFIER_INPUT_BUDGET,
           _REFLECTOR_INPUT_BUDGET, _CHARS_PER_TOKEN
  <1> HIDE DEF t
  <1>4. /\ Suffix(Budget(name), Label(name)) \in Nat /\ Suffix(Budget(name), Label(name)) <= Label(name) + 33
        /\ Suffix(Budget(name), Label(name)) <= Budget(name) =>
             _truncate(t, Budget(name), Label(name)) <= Budget(name)
    BY <1>2, <1>3, Truncated
  <1>5. Suffix(Budget(name), Label(name)) <= Budget(name)
    BY <1>3, <1>4
  <1> QED
    BY <1>4, <1>5 DEF Context, t

(* The lines are bounded together if each is.                              *)
LEMMA LinesGrow ==
    ASSUME NEW s \in States("executor"), NEW c \in Nat,
           \A i \in 1..Len(s.outputs) : Lines(s)[i] <= Ids(s)[i] + c
    PROVE  Total(Lines(s)) <= Total(Ids(s)) + c * Len(s.outputs)
  <1>1. /\ Lines(s) \in Seq(Nat) /\ Ids(s) \in Seq(Nat)
        /\ Len(Lines(s)) = Len(s.outputs) /\ Len(Ids(s)) = Len(s.outputs)
    BY LineFacts
  <1>2. \A i \in 1..Len(Lines(s)) : Lines(s)[i] <= Ids(s)[i] + c
    BY <1>1
  <1>3. Total(Lines(s)) <= Total(Ids(s)) + c * Len(Lines(s))
    BY <1>1, <1>2, TotalGrows
  <1> QED
    BY <1>1, <1>3

(* The executor's instruction is not cut off while a task has at most four *)
(* dependencies and its texts leave 3,000 characters.                      *)
LEMMA InstructionKept ==
    ASSUME NEW s \in States("executor"), Len(s.outputs) <= 4,
           s.task.description + s.task.id + s.task.hints + Total(Ids(s)) <= 3000
    PROVE  Whole("executor", s)
  <1>1. s.task.id \in Nat /\ s.task.description \in Nat /\ s.task.hints \in Nat /\ Len(s.outputs) \in Nat
    <2>1. s.outputs \in Seq([id : Nat, text : Nat])
      BY DEF States, Entries
    <2> QED
      BY <2>1, LenProperties DEF States
  <1>2. /\ Lines(s) \in Seq(Nat) /\ Ids(s) \in Seq(Nat)
        /\ Len(Lines(s)) = Len(s.outputs) /\ Len(Ids(s)) = Len(s.outputs)
    BY LineFacts
  <1>3. Total(Ids(s)) \in Nat /\ \A i \in 1..Len(s.outputs) : Ids(s)[i] <= Total(Ids(s))
    BY <1>2, TotalNat
  <1> DEFINE w == s.task.id + s.task.description + s.task.hints
             t == Total(Ids(s))
  <1>4. w \in Nat /\ t \in Nat /\ t <= 3000 /\ w + t <= 3000
    <2> DEFINE x == s.task.description
               y == s.task.id
               z == s.task.hints
    <2>1. x \in Nat /\ y \in Nat /\ z \in Nat /\ t \in Nat
      BY <1>1, <1>3
    <2>2. x + y + z + t <= 3000
      OBVIOUS
    <2> HIDE DEF x, y, z, t
    <2>3. (y + x + z) \in Nat /\ t <= 3000 /\ (y + x + z) + t <= 3000
      BY <2>1, <2>2
    <2> QED
      BY <2>1, <2>3 DEF x, y, z
  <1>6. \A i \in 1..Len(s.outputs) : Lines(s)[i] <= Ids(s)[i] + 4004
    <2> SUFFICES ASSUME NEW i \in 1..Len(s.outputs) PROVE Lines(s)[i] <= Ids(s)[i] + 4004
      OBVIOUS
    <2>1. Ids(s)[i] \in Nat /\ Ids(s)[i] <= Total(Ids(s))
      BY <1>2, <1>3, ElementOfSeq
    <2>2. Ids(s)[i] <= 3000
      <3> HIDE DEF t, w
      <3>1. Ids(s)[i] <= t
        BY <2>1 DEF t
      <3> QED
        BY <1>4, <2>1, <3>1
    <2> QED
      BY <2>2, LineFacts
  <1>7. Total(Lines(s)) <= Total(Ids(s)) + 4004 * Len(s.outputs)
    BY <1>6, LinesGrow
  <1>8. Total(Lines(s)) \in Nat
    BY <1>2, TotalNat
  <1>9. Joined(Lines(s), 1) \in Nat /\ Joined(Lines(s), 1) <= Total(Ids(s)) + 16019
    <2>1. Joined(Lines(s), 1) \in Nat
      BY <1>2, JoinedNat
    <2>2. Total(Lines(s)) <= Total(Ids(s)) + 16016
      BY <1>1, <1>3, <1>7, <1>8
    <2>3. Joined(Lines(s), 1) <= Total(Lines(s)) + 3
      BY <1>1, <1>2, <1>8, SMTT(30) DEF Joined
    <2> QED
      BY <1>3, <1>8, <2>1, <2>2, <2>3
  <1>10. PICK r \in Nat :
            /\ r <= 12000
            /\ Joined(ExecutorParts(s), 2) <=
                 s.task.id + s.task.description + s.task.hints + r + Joined(Lines(s), 1) + 161
    BY ExecutorLength
  <1>11. Joined(ExecutorParts(s), 2) \in Nat
    BY ExecutorLength, JoinedNat
  <1>12. Joined(ExecutorParts(s), 2) <= 32000
    <2> DEFINE j == Joined(Lines(s), 1)
               e == Joined(ExecutorParts(s), 2)
    <2>1. j \in Nat /\ e \in Nat /\ j <= t + 16019
      BY <1>9, <1>11
    <2>2. w \in Nat /\ t \in Nat /\ w + t <= 3000
      BY <1>4
    <2>3. e <= w + r + j + 161
      BY <1>10
    <2> HIDE DEF w, t, j, e
    <2>4. w + j <= 19019
      BY <2>1, <2>2
    <2>5. e <= 32000
      BY <1>10, <2>1, <2>2, <2>3, <2>4
    <2> QED
      BY <2>5 DEF e
  <1>13. Budget("executor") = 32000 /\ Parts("executor", s) = ExecutorParts(s)
    BY SMTT(30) DEF Budget, _EXECUTOR_INPUT_BUDGET, _CHARS_PER_TOKEN, Parts
  <1> QED
    BY <1>12, <1>13 DEF Whole

(* No context exceeds its budget, and the executor's instruction is not    *)
(* cut off under the condition stated, for texts and ids of all lengths.   *)
THEOREM PromptFitsHolds == CallSpec => []PromptFits
  <1>1. CallIInv => PromptFits
    <2> SUFFICES ASSUME CallIInv, NEW a \in Agents, agent[a].stage = "asking"
                 PROVE  LET s == Calls(agent[a])[agent[a].call].state
                        IN  /\ Context(Name(a), s) <= Budget(Name(a))
                            /\ Name(a) = "executor" /\ Len(s.outputs) <= 4
                               /\ s.task.description + s.task.id + s.task.hints
                                  + Total([i \in DOMAIN s.outputs |-> s.outputs[i].id]) <= 3000
                               => Whole("executor", s)
      BY DEF PromptFits
    <2> DEFINE s == Calls(agent[a])[agent[a].call].state
    <2>1. Good(agent[a], asked[a])
      BY DEF CallIInv, AgentInv
    <2>2. agent[a].job \in DOMAIN Jobs /\ agent[a].call \in 1..Len(Calls(agent[a]))
      BY <2>1 DEF Good
    <2>3. Name(a) \in {"planner", "executor", "verifier", "reflector"} /\ s \in States(Name(a))
      BY <2>2, JobFacts DEF Name, Calls
    <2> HIDE DEF s
    <2>4. Context(Name(a), s) <= Budget(Name(a))
      BY <2>3, ContextFits
    <2>5. ASSUME Name(a) = "executor", Len(s.outputs) <= 4,
                 s.task.description + s.task.id + s.task.hints + Total(Ids(s)) <= 3000
          PROVE  Whole("executor", s)
      BY <2>3, <2>5, InstructionKept
    <2>6. Ids(s) = [i \in DOMAIN s.outputs |-> s.outputs[i].id]
      BY DEF Ids
    <2> QED
      BY <2>4, <2>5, <2>6, SMTT(30) DEF s
  <1> QED
    BY <1>1, Inductive, PTL
=============================================================================

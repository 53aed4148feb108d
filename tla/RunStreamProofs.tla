-------------------------- MODULE RunStreamProofs --------------------------
(***************************************************************************)
(* Proofs about the graph of NexusGraph and about what a client learns of  *)
(* its runs (RunStream), for any number of runs, any plans, scores,        *)
(* iteration limit and lag of the event loop.                              *)
(***************************************************************************)
EXTENDS RunStream, Integers, SequenceTheorems, TLAPS

(* Where a run stands: at each node, what its channels hold and how many   *)
(* nodes it has executed.  This is what the properties need to be          *)
(* inductive: the gate is decided by the edge after the reflector, two     *)
(* steps before the result leaves the output node.                         *)
AtNode(node, n, below, d, k) ==
    /\ node \in {"planner", "researcher", "executor", "verifier", "reflector"}
         => d = "none" /\ below
    /\ node = "planner" => n < MaxIterations /\ k = 5 * n
    /\ node # "planner" => 1 <= n /\ n <= MaxIterations
    /\ node = "researcher" => k + 4 = 5 * n
    /\ node = "executor" => k + 3 = 5 * n
    /\ node = "verifier" => k + 2 = 5 * n
    /\ node = "reflector" => k + 1 = 5 * n
    /\ node = "output" =>
         \/ d = "loop_detected" /\ below /\ k + 4 <= 5 * n
         \/ d = "none" /\ k = 5 * n /\ (~below \/ n = MaxIterations)
    /\ node = "done" =>
         /\ k <= 5 * n + 1
         /\ \/ d = "loop_detected" /\ below
            \/ d = "none" /\ ~below
            \/ d = "max_iterations_reached" /\ below /\ n = MaxIterations
                  /\ k = 5 * MaxIterations + 1
    /\ node = "failed" => d = "none" /\ k <= 5 * n

Stands(r) == AtNode(pc[r], iteration_count[r], quality_score[r] < Threshold,
                    disclaimer[r], supersteps[r])

ControlInv == \A r \in Runs : Stands(r)

PlanInv ==
    \A r \in Runs : iteration_count[r] > 0 /\ task_plan[r] = NoPlan
                        => "planner" \in error_log[r]

(* The Redis set against the history: a body in the set has been let       *)
(* through, and the budget of RepeatsPaidFor is one smaller for a body     *)
(* that is not in it.                                                      *)
DetectorInv ==
    /\ \A b \in seen : passes[b] > 0
    /\ \A p \in Plans : Hashable(p) =>
         passes[p.body] <= misses[p.body] + (IF p.body \in seen THEN 1 ELSE 0)
    /\ \A r \in Runs : disclaimer[r] = "loop_detected" =>
         task_plan[r] \in Plans /\ passes[task_plan[r].body] > 0

IInv == TypeOK /\ ControlInv /\ PlanInv /\ DetectorInv

USE DEF Disclaimers, Errors, Nodes

(* Scores, the threshold and the iteration limit are integers.             *)
LEMMA Numbers == (\A s \in Scores : s \in Int) /\ Threshold \in Int /\ MaxIterations \in Nat
  <1>1. \A s \in Scores : s \in Int
    BY ScoreAssumption
  <1>2. Threshold \in Int /\ MaxIterations \in Nat
    BY ScoreAssumption, IterationAssumption
  <1>3. QED
    BY <1>1, <1>2

(* Goto leaves both of its functions well typed.                           *)
LEMMA GotoType ==
    ASSUME TypeOK, NEW r \in Runs, NEW n \in Nodes \cup {"done", "failed"}, Goto(r, n)
    PROVE  /\ pc' \in [Runs -> Nodes \cup {"done", "failed"}]
           /\ supersteps' \in [Runs -> Nat]
  BY DEF TypeOK, Goto

(* What LoopDetector.check may answer.                                     *)
LEMMA CheckOutcomesType ==
    ASSUME TypeOK, NEW p \in Plans, NEW c \in CheckOutcomes(p)
    PROVE  /\ c.answer \in {"loop", "new"}
           /\ c.seen \in SUBSET Bodies
           /\ c.lapse \in {0, 1}
           /\ lapses + c.lapse \in 0..MaxLapses
           /\ seen \subseteq c.seen
           /\ c.seen \subseteq seen \cup {p.body}
           /\ c.answer = "loop" => Hashable(p) /\ p.body \in seen /\ c.lapse = 0
           /\ Hashable(p) /\ c.lapse = 0 => p.body \in c.seen
           /\ Hashable(p) /\ c.lapse = 0 /\ c.answer = "new" => p.body \notin seen
           /\ ~Hashable(p) => c.seen = seen /\ c.lapse = 0
  <1>1. p.body \in Bodies
    BY PlanAssumption
  <1>2. lapses \in Nat /\ lapses <= MaxLapses
    BY LapseAssumption DEF TypeOK
  <1>3. CASE ~Hashable(p)
    <2>1. c = [answer |-> "new", seen |-> seen, lapse |-> 0]
      BY <1>3 DEF CheckOutcomes, Answer
    <2>2. c.answer = "new" /\ c.seen = seen /\ c.lapse = 0
      BY <2>1
    <2>3. QED
      BY <1>2, <1>3, <2>2, LapseAssumption DEF TypeOK
  <1>4. CASE /\ Hashable(p)
             /\ c = [answer |-> IF p.body \in seen THEN "loop" ELSE "new",
                     seen |-> seen \cup {p.body}, lapse |-> 0]
    <2>1. /\ c.answer = (IF p.body \in seen THEN "loop" ELSE "new")
          /\ c.seen = seen \cup {p.body}
          /\ c.lapse = 0
      BY <1>4
    <2>2. QED
      BY <1>1, <1>2, <1>4, <2>1, LapseAssumption DEF TypeOK
  <1>5. CASE /\ Hashable(p)
             /\ lapses < MaxLapses
             /\ \E s \in {seen, seen \cup {p.body}} : c = [answer |-> "new", seen |-> s, lapse |-> 1]
    <2>1. PICK s \in {seen, seen \cup {p.body}} : c = [answer |-> "new", seen |-> s, lapse |-> 1]
      BY <1>5
    <2>2. c.answer = "new" /\ c.seen = s /\ c.lapse = 1
      BY <2>1
    <2>3. QED
      BY <1>1, <1>2, <1>5, <2>1, <2>2, LapseAssumption DEF TypeOK
  <1>6. QED
    BY <1>3, <1>4, <1>5 DEF CheckOutcomes, Answer, _plan_hash

(* Type correctness of a planner step.                                     *)
LEMMA PlannerType ==
    ASSUME TypeOK, NEW r \in Runs, Planner(r)
    PROVE  TypeOK'
  <1>1. iteration_count' \in [Runs -> Nat] /\ quality_score' \in [Runs -> Scores]
    BY DEF Planner, TypeOK
  <1>2. /\ task_plan' \in [Runs -> Plans \cup {NoPlan}]
        /\ disclaimer' \in [Runs -> Disclaimers]
        /\ error_log' \in [Runs -> SUBSET Errors]
        /\ seen' \in SUBSET Bodies
        /\ lapses' \in 0..MaxLapses
        /\ passes' \in [Bodies -> Nat]
        /\ misses' \in [Bodies -> Nat]
    <2>1. CASE HardCap(r)
      BY <2>1 DEF HardCap, redis, TypeOK
    <2>2. CASE PlannerError(r)
      BY <2>2 DEF PlannerError, redis, TypeOK
    <2>3. ASSUME NEW p \in Plans, NewPlan(r, p)
          PROVE  <1>2
      <3>1. PICK c \in CheckOutcomes(p) :
              /\ task_plan' = [task_plan EXCEPT ![r] = p]
              /\ seen' = c.seen
              /\ lapses' = lapses + c.lapse
              /\ misses' = [misses EXCEPT ![p.body] = @ + c.lapse]
              /\ IF c.answer = "loop"
                 THEN /\ disclaimer' = [disclaimer EXCEPT ![r] = "loop_detected"]
                      /\ error_log' = [error_log EXCEPT ![r] = @ \cup {"loop"}]
                      /\ UNCHANGED passes
                 ELSE /\ passes' = [passes EXCEPT ![p.body] = @ + 1]
                      /\ UNCHANGED <<disclaimer, error_log>>
        BY <2>3 DEF NewPlan
      <3>2. p.body \in Bodies
        BY PlanAssumption
      <3>3. QED
        BY <3>1, <3>2, CheckOutcomesType DEF TypeOK
    <2>4. QED
      BY <2>1, <2>2, <2>3 DEF Planner
  <1>3. _route_after_planner(disclaimer'[r]) \in Nodes
    BY DEF _route_after_planner
  <1>4. QED
    BY <1>1, <1>2, <1>3, GotoType DEF Planner, TypeOK

(* Type correctness of every step.                                         *)
LEMMA TypeStep == TypeOK /\ [Next]_vars => TypeOK'
  <1> SUFFICES ASSUME TypeOK, [Next]_vars PROVE TypeOK'
    OBVIOUS
  <1>1. ASSUME NEW r \in Runs, Step(r) PROVE TypeOK'
    <2>1. CASE Planner(r)
      BY <2>1, PlannerType
    <2>2. CASE Researcher(r)
      BY <2>2, GotoType DEF Researcher, channels, redis, TypeOK
    <2>3. CASE Executor(r)
      BY <2>3, GotoType DEF Executor, redis, TypeOK
    <2>4. CASE Verifier(r)
      BY <2>4, GotoType DEF Verifier, channels, redis, TypeOK
    <2>5. CASE Reflector(r)
      BY <2>5, GotoType DEF Reflector, _route_after_reflector, redis, TypeOK
    <2>6. CASE NodeRaises(r)
      BY <2>6, GotoType DEF NodeRaises, channels, redis, TypeOK
    <2>7. CASE Output(r)
      BY <2>7, GotoType DEF Output, Unmet, redis, TypeOK
    <2>8. QED
      BY <1>1, <2>1, <2>2, <2>3, <2>4, <2>5, <2>6, <2>7 DEF Step
  <1>2. CASE LoopSetExpires
    BY <1>2, LapseAssumption DEF LoopSetExpires, channels, TypeOK
  <1>3. CASE UNCHANGED vars
    BY <1>3 DEF vars, channels, redis, TypeOK
  <1>4. QED
    BY <1>1, <1>2, <1>3 DEF Next

(* The initial states satisfy the inductive invariant.                     *)
LEMMA InitIInv == Init => IInv
  <1> SUFFICES ASSUME Init PROVE IInv
    OBVIOUS
  <1>1. TypeOK
    BY ScoreAssumption, LapseAssumption DEF Init, TypeOK
  <1>2. ControlInv
    <2> SUFFICES ASSUME NEW r \in Runs PROVE Stands(r)
      BY DEF ControlInv
    <2>1. /\ pc[r] = "planner" /\ disclaimer[r] = "none"
          /\ iteration_count[r] = 0 /\ quality_score[r] = 0 /\ supersteps[r] = 0
      BY DEF Init
    <2>2. 0 < Threshold /\ 0 < MaxIterations
      BY ScoreAssumption, IterationAssumption
    <2>3. QED
      BY <2>1, <2>2 DEF Stands, AtNode
  <1>3. PlanInv
    BY DEF Init, PlanInv
  <1>4. DetectorInv
    BY PlanAssumption DEF Init, DetectorInv
  <1>5. QED
    BY <1>1, <1>2, <1>3, <1>4 DEF IInv

(* The step of one run preserves the control state of every run.           *)
LEMMA ControlStep ==
    ASSUME IInv, NEW r \in Runs, Step(r)
    PROVE  ControlInv'
  <1>0. TypeOK /\ TypeOK' /\ Stands(r)
    BY TypeStep DEF IInv, ControlInv, Next
  <1>1. ASSUME NEW q \in Runs, q # r PROVE Stands(q)'
    <2>1. /\ pc'[q] = pc[q] /\ supersteps'[q] = supersteps[q]
          /\ iteration_count'[q] = iteration_count[q]
          /\ quality_score'[q] = quality_score[q] /\ disclaimer'[q] = disclaimer[q]
      BY <1>0, <1>1 DEF Step, Planner, HardCap, PlannerError, NewPlan, Researcher, Executor,
            Verifier, Reflector, NodeRaises, Output, Unmet, Goto, channels, redis, TypeOK
    <2>2. Stands(q)
      BY DEF IInv, ControlInv
    <2>3. QED
      BY <2>1, <2>2 DEF Stands
  <1>2. Stands(r)'
    <2>0. /\ iteration_count[r] \in Nat /\ supersteps[r] \in Nat
          /\ quality_score[r] \in Int /\ quality_score'[r] \in Int
          /\ Threshold \in Int /\ MaxIterations \in Int
      <3>1. iteration_count[r] \in Nat /\ supersteps[r] \in Nat
        BY <1>0 DEF TypeOK
      <3>2. quality_score[r] \in Scores /\ quality_score'[r] \in Scores
        BY <1>0 DEF TypeOK
      <3>3. QED
        BY <3>1, <3>2, Numbers
    <2>1. CASE Planner(r)
      <3>1. /\ pc[r] = "planner" /\ iteration_count'[r] = iteration_count[r] + 1
            /\ supersteps'[r] = supersteps[r] + 1 /\ quality_score'[r] = quality_score[r]
            /\ pc'[r] = _route_after_planner(disclaimer'[r])
        BY <1>0, <2>1 DEF Planner, Goto, TypeOK
      <3>2. disclaimer'[r] \in {"none", "loop_detected"}
        <4>1. disclaimer[r] = "none" /\ ~(iteration_count[r] + 1 > MaxIterations)
          BY <1>0, <2>0, <3>1 DEF Stands, AtNode
        <4>2. QED
          BY <1>0, <2>1, <4>1 DEF Planner, PlannerError, NewPlan, TypeOK
      <3>3. QED
        BY <1>0, <2>0, <3>1, <3>2 DEF Stands, AtNode, _route_after_planner
    <2>2. CASE Researcher(r)
      BY <1>0, <2>0, <2>2 DEF Researcher, Goto, channels, TypeOK, Stands, AtNode
    <2>3. CASE Executor(r)
      BY <1>0, <2>0, <2>3 DEF Executor, Goto, TypeOK, Stands, AtNode
    <2>4. CASE Verifier(r)
      BY <1>0, <2>0, <2>4 DEF Verifier, Goto, channels, TypeOK, Stands, AtNode
    <2>5. CASE Reflector(r)
      <3>1. /\ pc[r] = "reflector" /\ iteration_count'[r] = iteration_count[r]
            /\ supersteps'[r] = supersteps[r] + 1 /\ disclaimer'[r] = disclaimer[r]
            /\ pc'[r] = _route_after_reflector(quality_score'[r], iteration_count[r])
        BY <1>0, <2>5 DEF Reflector, Goto, TypeOK
      <3>2. QED
        BY <1>0, <2>0, <3>1 DEF Stands, AtNode, _route_after_reflector
    <2>6. CASE NodeRaises(r)
      BY <1>0, <2>0, <2>6 DEF NodeRaises, Goto, channels, TypeOK, Stands, AtNode
    <2>7. CASE Output(r)
      <3>1. /\ pc[r] = "output" /\ iteration_count'[r] = iteration_count[r]
            /\ supersteps'[r] = supersteps[r] + 1 /\ quality_score'[r] = quality_score[r]
            /\ pc'[r] = "done"
            /\ disclaimer'[r] = IF /\ disclaimer[r] = "none" /\ quality_score[r] < Threshold
                                   /\ iteration_count[r] >= MaxIterations
                                THEN "max_iterations_reached" ELSE disclaimer[r]
        BY <1>0, <2>7 DEF Output, Unmet, Goto, TypeOK
      <3>2. QED
        BY <1>0, <2>0, <3>1 DEF Stands, AtNode
    <2>8. QED
      BY <2>1, <2>2, <2>3, <2>4, <2>5, <2>6, <2>7 DEF Step
  <1>3. QED
    BY <1>1, <1>2 DEF ControlInv

(* The hard cap of the planner node never fires.                           *)
LEMMA CapNeverFires ==
    ASSUME IInv, NEW r \in Runs, Planner(r)
    PROVE  PlannerError(r) \/ \E p \in Plans : NewPlan(r, p)
  <1>1. pc[r] = "planner" => iteration_count[r] < MaxIterations
    BY DEF IInv, ControlInv, Stands, AtNode
  <1>2. iteration_count[r] \in Nat /\ MaxIterations \in Nat
    BY IterationAssumption DEF IInv, TypeOK
  <1>3. ~(iteration_count[r] + 1 > MaxIterations)
    BY <1>1, <1>2 DEF Planner
  <1>4. QED
    BY <1>3 DEF Planner

(* A run without a plan has logged why, after any step.                    *)
LEMMA PlanStep ==
    ASSUME IInv, NEW r \in Runs, Step(r)
    PROVE  PlanInv'
  <1>0. TypeOK /\ PlanInv
    BY DEF IInv
  <1>1. CASE Planner(r)
    <2> SUFFICES ASSUME NEW q \in Runs, iteration_count'[q] > 0, task_plan'[q] = NoPlan
                 PROVE  "planner" \in error_log'[q]
      BY DEF PlanInv
    <2>1. CASE q # r
      BY <1>0, <1>1, <2>1 DEF Planner, HardCap, PlannerError, NewPlan, TypeOK, PlanInv
    <2>2. CASE q = r /\ PlannerError(r)
      BY <1>0, <2>2 DEF PlannerError, TypeOK
    <2>3. ASSUME NEW p \in Plans, NewPlan(r, p), q = r PROVE FALSE
      <3>1. task_plan'[r] = p /\ p.size \in 1..10
        BY <2>3, <1>0, PlanAssumption DEF NewPlan, TypeOK
      <3>2. QED
        BY <3>1, <2>3 DEF NoPlan
    <2>4. QED
      BY <1>1, <2>1, <2>2, <2>3, CapNeverFires
  <1>2. CASE Step(r) /\ ~Planner(r)
    <2>1. iteration_count' = iteration_count /\ task_plan' = task_plan
      BY <1>2 DEF Step, Researcher, Executor, Verifier, Reflector, NodeRaises, Output, Unmet,
         channels
    <2>2. \A q \in Runs : error_log[q] \subseteq error_log'[q]
      BY <1>0, <1>2 DEF Step, Researcher, Executor, Verifier, Reflector, NodeRaises, Output, Unmet,
            channels, TypeOK
    <2>3. QED
      BY <1>0, <2>1, <2>2 DEF PlanInv
  <1>3. QED
    BY <1>1, <1>2

(* The detector's bookkeeping after a new plan went through check.         *)
LEMMA NewPlanDetector ==
    ASSUME IInv, NEW r \in Runs, NEW p \in Plans, NewPlan(r, p)
    PROVE  DetectorInv'
  <1>0. TypeOK /\ DetectorInv /\ p.body \in Bodies
    BY PlanAssumption DEF IInv
  <1>1. PICK c \in CheckOutcomes(p) :
          /\ task_plan' = [task_plan EXCEPT ![r] = p]
          /\ seen' = c.seen
          /\ misses' = [misses EXCEPT ![p.body] = @ + c.lapse]
          /\ IF c.answer = "loop"
             THEN /\ disclaimer' = [disclaimer EXCEPT ![r] = "loop_detected"]
                  /\ UNCHANGED passes
             ELSE /\ passes' = [passes EXCEPT ![p.body] = @ + 1]
                  /\ UNCHANGED disclaimer
    BY DEF NewPlan
  <1>2. /\ c.lapse \in {0, 1}
        /\ seen \subseteq c.seen
        /\ c.seen \subseteq seen \cup {p.body}
        /\ c.answer = "loop" => Hashable(p) /\ p.body \in seen /\ c.lapse = 0
        /\ Hashable(p) /\ c.lapse = 0 => p.body \in c.seen
        /\ Hashable(p) /\ c.lapse = 0 /\ c.answer = "new" => p.body \notin seen
        /\ ~Hashable(p) => c.seen = seen /\ c.lapse = 0
        /\ c.answer \in {"loop", "new"}
    BY <1>0, CheckOutcomesType
  <1>3. /\ \A b \in Bodies : passes[b] \in Nat /\ misses[b] \in Nat
        /\ \A b \in Bodies : b # p.body => passes'[b] = passes[b] /\ misses'[b] = misses[b]
        /\ passes'[p.body] = passes[p.body] + (IF c.answer = "loop" THEN 0 ELSE 1)
        /\ misses'[p.body] = misses[p.body] + c.lapse
        /\ \A q \in Plans : q.body \in Bodies
    BY <1>0, <1>1, PlanAssumption DEF TypeOK
  <1>4. \A b \in seen' : passes'[b] > 0
    BY <1>0, <1>1, <1>2, <1>3 DEF DetectorInv, TypeOK
  <1>5. ASSUME NEW q \in Plans, Hashable(q)
        PROVE  passes'[q.body] <= misses'[q.body] + (IF q.body \in seen' THEN 1 ELSE 0)
    <2>1. passes[q.body] <= misses[q.body] + (IF q.body \in seen THEN 1 ELSE 0)
      BY <1>0, <1>5 DEF DetectorInv
    <2>2. CASE q.body # p.body
      BY <1>1, <1>2, <1>3, <2>1, <2>2
    <2>3. CASE q.body = p.body
      <3>1. Hashable(p)
        BY <1>5, <2>3, PlanAssumption DEF Hashable
      <3>2. QED
        BY <1>1, <1>2, <1>3, <2>1, <2>3, <3>1
    <2>4. QED
      BY <2>2, <2>3
  <1>6. ASSUME NEW q \in Runs, disclaimer'[q] = "loop_detected"
        PROVE  task_plan'[q] \in Plans /\ passes'[task_plan'[q].body] > 0
    <2>1. \A b \in Bodies : passes[b] > 0 => passes'[b] > 0
      BY <1>0, <1>3
    <2>2. CASE q = r /\ c.answer = "loop"
      BY <1>0, <1>1, <1>2, <1>3, <2>1, <2>2 DEF DetectorInv, TypeOK
    <2>3. CASE q # r
      BY <1>0, <1>1, <1>3, <1>6, <2>1, <2>3 DEF DetectorInv, TypeOK
    <2>4. CASE q = r /\ c.answer # "loop"
      BY <1>0, <1>1, <1>3, <1>6, <2>4 DEF TypeOK
    <2>5. QED
      BY <2>2, <2>3, <2>4
  <1>7. QED
    BY <1>4, <1>5, <1>6 DEF DetectorInv, Hashable

(* The detector's bookkeeping survives any step of a run.                  *)
LEMMA DetectorStep ==
    ASSUME IInv, NEW r \in Runs, Step(r)
    PROVE  DetectorInv'
  <1>0. TypeOK /\ DetectorInv
    BY DEF IInv
  <1>1. CASE PlannerError(r)
    BY <1>0, <1>1 DEF PlannerError, redis, DetectorInv, Hashable
  <1>2. CASE Output(r)
    <2>1. /\ redis' = redis /\ task_plan' = task_plan
          /\ \A q \in Runs : disclaimer'[q] = "loop_detected" => disclaimer[q] = "loop_detected"
      BY <1>0, <1>2 DEF Output, Unmet, TypeOK
    <2>2. QED
      BY <1>0, <2>1 DEF DetectorInv, Hashable, redis
  <1>3. CASE Researcher(r) \/ Executor(r) \/ Verifier(r) \/ Reflector(r) \/ NodeRaises(r)
    <2>1. redis' = redis /\ task_plan' = task_plan /\ disclaimer' = disclaimer
      BY <1>3 DEF Researcher, Executor, Verifier, Reflector, NodeRaises, channels
    <2>2. QED
      BY <1>0, <2>1 DEF DetectorInv, Hashable, redis
  <1>4. QED
    BY <1>1, <1>2, <1>3, CapNeverFires, NewPlanDetector DEF Step

(* IInv is inductive.                                                      *)
LEMMA IInvStep == IInv /\ [Next]_vars => IInv'
  <1> SUFFICES ASSUME IInv, [Next]_vars PROVE IInv'
    OBVIOUS
  <1>0. TypeOK'
    BY TypeStep DEF IInv
  <1>1. ASSUME NEW r \in Runs, Step(r) PROVE IInv'
    BY <1>0, <1>1, ControlStep, PlanStep, DetectorStep DEF IInv
  <1>2. CASE LoopSetExpires
    <2>1. UNCHANGED <<pc, channels, passes, supersteps>>
      BY <1>2 DEF LoopSetExpires
    <2>2. ControlInv' /\ PlanInv'
      BY <2>1 DEF IInv, ControlInv, Stands, PlanInv, channels
    <2>3. DetectorInv'
      <3>1. \A b \in Bodies : misses'[b] = IF b \in seen THEN misses[b] + 1 ELSE misses[b]
        BY <1>2 DEF LoopSetExpires
      <3>2. \A p \in Plans : p.body \in Bodies /\ passes[p.body] \in Nat /\ misses[p.body] \in Nat
        BY PlanAssumption DEF IInv, TypeOK
      <3>3. \A p \in Plans : Hashable(p) => passes[p.body] <= misses'[p.body]
        BY <3>1, <3>2 DEF IInv, DetectorInv
      <3>4. seen' = {}
        BY <1>2 DEF LoopSetExpires
      <3>5. \A p \in Plans : misses'[p.body] \in Nat
        BY <1>0, <3>2 DEF TypeOK
      <3>6. QED
        BY <2>1, <3>2, <3>3, <3>4, <3>5 DEF IInv, DetectorInv, channels, Hashable
    <2>4. QED
      BY <1>0, <2>2, <2>3 DEF IInv
  <1>3. CASE UNCHANGED vars
    BY <1>0, <1>3 DEF IInv, ControlInv, Stands, PlanInv, DetectorInv, Hashable, vars, channels,
       redis
  <1>4. QED
    BY <1>1, <1>2, <1>3 DEF Next

(* NexusGraph is type correct.                                             *)
THEOREM TypeCorrect == Spec => []TypeOK
  <1>1. Init => TypeOK
    BY InitIInv DEF IInv
  <1>2. QED
    BY <1>1, TypeStep, PTL DEF Spec

(* The inductive invariant holds throughout.                               *)
THEOREM InductiveInvariant == Spec => []IInv
  BY InitIInv, IInvStep, PTL DEF Spec

(* No result below the threshold leaves the graph without a disclaimer,    *)
(* and none that met it carries one.                                       *)
THEOREM QualityGateHolds == Spec => []QualityGate
  <1>1. IInv => QualityGate
    <2> SUFFICES ASSUME IInv, NEW r \in Runs, pc[r] = "done"
                 PROVE  disclaimer[r] = "none" <=> quality_score[r] >= Threshold
      BY DEF QualityGate
    <2>1. quality_score[r] \in Scores
      BY DEF IInv, TypeOK
    <2>2. quality_score[r] \in Int /\ Threshold \in Int
      BY <2>1, Numbers
    <2>3. Stands(r)
      BY DEF IInv, ControlInv
    <2>4. QED
      BY <2>2, <2>3 DEF Stands, AtNode
  <1>2. QED
    BY <1>1, InductiveInvariant, PTL

(* No run counts past max_iterations: the edge after the reflector leaves  *)
(* the planner's hard cap nothing to do.                                   *)
THEOREM IterationCapHolds == Spec => []IterationCap
  <1>1. IInv => IterationCap
    <2> SUFFICES ASSUME IInv, NEW r \in Runs
                 PROVE  /\ iteration_count[r] <= MaxIterations
                        /\ pc[r] = "planner" => iteration_count[r] < MaxIterations
      BY DEF IterationCap
    <2>1. iteration_count[r] \in Nat /\ MaxIterations \in Nat
      BY IterationAssumption DEF IInv, TypeOK
    <2>2. Stands(r)
      BY DEF IInv, ControlInv
    <2>3. QED
      BY <2>1, <2>2 DEF Stands, AtNode
  <1>2. QED
    BY <1>1, InductiveInvariant, PTL

(* "max_iterations_reached" is only said after max_iterations full rounds. *)
THEOREM MaxIterationsMeansAllHolds == Spec => []MaxIterationsMeansAll
  <1>1. IInv => MaxIterationsMeansAll
    <2> SUFFICES ASSUME IInv, NEW r \in Runs, disclaimer[r] = "max_iterations_reached"
                 PROVE  iteration_count[r] = MaxIterations /\ supersteps[r] = 5 * MaxIterations + 1
      BY DEF MaxIterationsMeansAll
    <2>1. Stands(r) /\ pc[r] \in Nodes \cup {"done", "failed"}
      BY DEF IInv, ControlInv, TypeOK
    <2>2. QED
      BY <2>1 DEF Stands, AtNode
  <1>2. QED
    BY <1>1, InductiveInvariant, PTL

(* No run exceeds LangGraph's recursion limit when it admits five nodes    *)
(* per iteration and the output node.                                      *)
THEOREM WithinRecursionLimitHolds == Spec => []WithinRecursionLimit
  <1>1. IInv => WithinRecursionLimit
    <2> SUFFICES ASSUME IInv, NEW r \in Runs PROVE supersteps[r] <= RecursionLimit
      BY DEF WithinRecursionLimit
    <2>1. Stands(r) /\ pc[r] \in Nodes \cup {"done", "failed"}
      BY DEF IInv, ControlInv, TypeOK
    <2>2. /\ iteration_count[r] \in Nat /\ supersteps[r] \in Nat
          /\ MaxIterations \in Nat /\ RecursionLimit \in Nat
          /\ 5 * MaxIterations + 1 <= RecursionLimit
      BY IterationAssumption, RecursionAssumption DEF IInv, TypeOK
    <2>3. QED
      BY <2>1, <2>2 DEF Stands, AtNode
  <1>2. QED
    BY <1>1, InductiveInvariant, PTL

(* Both bounds of a run.                                                   *)
THEOREM RunBoundedHolds == Spec => []RunBounded
  BY IterationCapHolds, WithinRecursionLimitHolds, PTL DEF RunBounded

(* A plan the detector can hash runs once per session, and once more only  *)
(* for each Redis failure or expiry that concerned it.                     *)
THEOREM RepeatsPaidForHolds == Spec => []RepeatsPaidFor
  <1>1. IInv => RepeatsPaidFor
    <2> SUFFICES ASSUME IInv, NEW p \in Plans, Hashable(p)
                 PROVE  passes[p.body] <= 1 + misses[p.body]
      BY DEF RepeatsPaidFor
    <2>1. passes[p.body] \in Nat /\ misses[p.body] \in Nat
      BY PlanAssumption DEF IInv, TypeOK
    <2>2. QED
      BY <2>1 DEF IInv, DetectorInv
  <1>2. QED
    BY <1>1, InductiveInvariant, PTL

(* A disclaimer has the cause it names, and a run without a plan an entry  *)
(* in the error log.                                                       *)
THEOREM ResultExplainedHolds == Spec => []ResultExplained
  <1>1. IInv => LoopVerdictJustified
    BY DEF IInv, DetectorInv, LoopVerdictJustified
  <1>2. IInv => EmptyPlanExplained
    <2> SUFFICES ASSUME IInv, NEW r \in Runs, pc[r] = "done", task_plan[r] = NoPlan
                 PROVE  "planner" \in error_log[r]
      BY DEF EmptyPlanExplained
    <2>1. iteration_count[r] \in Nat /\ Stands(r)
      BY DEF IInv, TypeOK, ControlInv
    <2>2. iteration_count[r] > 0
      BY <2>1 DEF Stands, AtNode
    <2>3. QED
      BY <2>2 DEF IInv, PlanInv
  <1>3. QED
    BY <1>1, <1>2, InductiveInvariant, MaxIterationsMeansAllHolds, PTL DEF ResultExplained

(* Once a disclaimer is set or the gate is met, no agent runs again.       *)
THEOREM VerdictEndsRunHolds == Spec => VerdictEndsRun
  <1>1. IInv /\ IInv' /\ [Next]_vars =>
          [\A r \in Runs :
             disclaimer'[r] # "none" \/ (pc[r] = "reflector" /\ quality_score'[r] >= Threshold)
                => pc'[r] \in {"output", "done", "failed"}]_vars
    <2> SUFFICES ASSUME IInv, IInv', Next, NEW r \in Runs,
                        \/ disclaimer'[r] # "none"
                        \/ pc[r] = "reflector" /\ quality_score'[r] >= Threshold
                 PROVE  pc'[r] \in {"output", "done", "failed"} \/ UNCHANGED vars
      OBVIOUS
    <2>1. Stands(r)' /\ pc'[r] \in Nodes \cup {"done", "failed"}
      BY DEF IInv, ControlInv, TypeOK
    <2>2. CASE disclaimer'[r] # "none"
      BY <2>1, <2>2 DEF Stands, AtNode
    <2>3. CASE pc[r] = "reflector" /\ quality_score'[r] >= Threshold
      <3>1. quality_score[r] \in Scores /\ quality_score'[r] \in Scores
        BY DEF IInv, TypeOK
      <3>2. quality_score[r] \in Int /\ quality_score'[r] \in Int /\ Threshold \in Int
        BY <3>1, Numbers
      <3>3. quality_score'[r] >= Threshold
        BY <2>3
      <3>4. ~(quality_score'[r] < Threshold)
        BY <3>2, <3>3
      <3>5. QED
        BY <2>1, <3>4 DEF Stands, AtNode
    <2>4. QED
      BY <2>2, <2>3
  <1>2. QED
    BY <1>1, InductiveInvariant, PTL DEF Spec, VerdictEndsRun

(* The pipeline keeps the promise of PipelineRun: a run ends at most once, *)
(* by an exception or with a gated result.                                 *)
THEOREM Refinement == Spec => PR!Spec
  <1>1. Init => PR!Init
    BY DEF Init, PR!Init, PR!Running, result
  <1>2. IInv /\ IInv' /\ [Next]_vars => [PR!Next]_result
    <2> SUFFICES ASSUME IInv, IInv', [Next]_vars PROVE [PR!Next]_result
      OBVIOUS
    <2>1. ASSUME NEW r \in Runs, Step(r) PROVE [PR!Next]_result
      <3>0. TypeOK /\ TypeOK'
        BY DEF IInv
      <3>1. CASE Output(r)
        <4>1. /\ pc[r] = "output" /\ pc'[r] = "done"
              /\ \A q \in Runs : q # r =>
                   /\ pc'[q] = pc[q] /\ quality_score'[q] = quality_score[q]
                   /\ disclaimer'[q] = disclaimer[q] /\ iteration_count'[q] = iteration_count[q]
          BY <3>0, <3>1 DEF Output, Unmet, Goto, TypeOK
        <4> DEFINE x == [end |-> "result", quality |-> quality_score'[r],
                         disclaimer |-> disclaimer'[r], iterations |-> iteration_count'[r]]
        <4>2. x \in PR!GatedResults
          <5>1. /\ quality_score'[r] \in Scores /\ disclaimer'[r] \in Disclaimers
                /\ iteration_count'[r] \in Nat
            BY <3>0 DEF TypeOK
          <5>2. Stands(r)'
            BY DEF IInv, ControlInv
          <5>3. /\ iteration_count'[r] > 0 /\ iteration_count'[r] <= MaxIterations
                /\ disclaimer'[r] = "none" <=> quality_score'[r] >= Threshold
                /\ disclaimer'[r] = "max_iterations_reached" => iteration_count'[r] = MaxIterations
            BY <4>1, <5>1, <5>2, Numbers DEF Stands, AtNode
          <5>4. iteration_count'[r] \in 0..MaxIterations
            BY <5>1, <5>3, Numbers
          <5>5. QED
            BY <5>1, <5>3, <5>4 DEF PR!GatedResults, PR!Results, PR!Disclaimers
        <4>3. result[r] = PR!Running
          BY <4>1 DEF result, PR!Running
        <4>4. result' = [result EXCEPT ![r] = x]
          BY <4>1 DEF result
        <4>5. QED
          BY <4>2, <4>3, <4>4 DEF PR!Next, PR!Finish
      <3>2. CASE NodeRaises(r)
        <4>1. /\ pc[r] \in {"executor", "verifier", "reflector"}
              /\ pc' = [pc EXCEPT ![r] = "failed"]
              /\ UNCHANGED <<quality_score, disclaimer, iteration_count>>
          BY <3>2 DEF NodeRaises, Goto, channels
        <4>2. result[r] = PR!Running
          BY <4>1 DEF result, PR!Running
        <4>3. result' = [result EXCEPT ![r] = PR!Raised]
          BY <3>0, <4>1 DEF result, PR!Raised, TypeOK
        <4>4. QED
          BY <4>2, <4>3 DEF PR!Next, PR!Raise
      <3>3. CASE ~Output(r) /\ ~NodeRaises(r)
        <4>1. /\ pc[r] \notin {"done", "failed"} /\ pc'[r] \notin {"done", "failed"}
              /\ \A q \in Runs : q # r =>
                   /\ pc'[q] = pc[q] /\ quality_score'[q] = quality_score[q]
                   /\ disclaimer'[q] = disclaimer[q] /\ iteration_count'[q] = iteration_count[q]
          <5>1. CASE Planner(r)
            BY <3>0, <5>1 DEF Planner, HardCap, PlannerError, NewPlan, Goto,
                  _route_after_planner, TypeOK
          <5>2. CASE Reflector(r)
            BY <3>0, <5>2 DEF Reflector, Goto, _route_after_reflector, TypeOK
          <5>3. QED
            BY <2>1, <3>0, <3>3, <5>1, <5>2
               DEF Step, Researcher, Executor, Verifier, Goto, channels, TypeOK
        <4>2. result' = result
          BY <4>1 DEF result
        <4>3. QED
          BY <4>2
      <3>4. QED
        BY <3>1, <3>2, <3>3
    <2>2. CASE LoopSetExpires
      BY <2>2 DEF LoopSetExpires, channels, result
    <2>3. CASE UNCHANGED vars
      BY <2>3 DEF vars, channels, result
    <2>4. QED
      BY <2>1, <2>2, <2>3 DEF Next
  <1>3. QED
    BY <1>1, <1>2, InductiveInvariant, PTL DEF Spec, PR!Spec

-----------------------------------------------------------------------------
(* Following a run changes nothing about it.                               *)

(* The loop of _run_graph and its clients implement the graph they follow: *)
(* no frame, lost or delivered, changes what a run does.                   *)
THEOREM FollowedGraph == StreamSpec => Spec
<1>1. StreamInit => Init
  BY DEF StreamInit
<1>2. [StreamNext]_streamVars => [Next]_vars
  <2> SUFFICES ASSUME [StreamNext]_streamVars
               PROVE  [Next]_vars
    OBVIOUS
  <2>1. CASE \E r \in Runs : GraphStep(r)
    BY <2>1 DEF GraphStep, Next
  <2>2. CASE Expiry
    BY <2>2 DEF Expiry, Next
  <2>3. CASE \E r \in Followed : TakeEvent(r) \/ SendLast(r)
    BY <2>3 DEF TakeEvent, SendLast, vars, channels, redis
  <2>4. CASE UNCHANGED streamVars
    BY <2>4 DEF streamVars, vars, channels, redis
  <2> QED
    BY <2>1, <2>2, <2>3, <2>4 DEF StreamNext
<1> QED
  BY <1>1, <1>2, PTL DEF StreamSpec, Spec

-----------------------------------------------------------------------------
(* What the readers hold.  The graph runs ahead of the loop, so a reader   *)
(* is compared with the graph through the events that are queued: after    *)
(* them it will show what the graph does now.                              *)

Events == [kind : {"start", "end"}, name : Nodes, score : Scores]
Views == [active : _AGENT_NODES \cup {"none"}, completed : SUBSET _AGENT_NODES,
          iteration : Nat, quality : Scores, iterations : Nat,
          end : {"open", "done", "error", "closed", "dropped"}]
Pictures == [active : _AGENT_NODES \cup {"none"}, iteration : Nat, quality : Scores]

Picture(v) == [active |-> v.active, iteration |-> v.iteration, quality |-> v.quality]

(* The picture after the frames of one more event.                         *)
After(p, e) ==
    [active |-> IF e.name \notin _AGENT_NODES THEN p.active
                ELSE IF e.kind = "start" THEN e.name ELSE "none",
     iteration |-> IF Counts(e) THEN p.iteration + 1 ELSE p.iteration,
     quality |-> IF e.kind = "end" /\ e.name = "reflector" THEN e.score ELSE p.quality]

(* The events q take the picture p to z.                                   *)
Replays(q, p, z) ==
    \E w \in [0..Len(q) -> Pictures] :
        /\ w[0] = p
        /\ \A i \in 1..Len(q) : w[i] = After(w[i - 1], q[i])
        /\ w[Len(q)] = z

(* p is a picture of a run at node, in its n-th iteration, with score s.   *)
Shown(node, n, s, p) ==
    /\ p.quality = s
    /\ node \in _AGENT_NODES =>
         p.active = node /\ p.iteration = n + (IF node = "planner" THEN 1 ELSE 0)
    /\ node \in {"output", "done"} => p.active = "none" /\ p.iteration = n

Matches(r, p) == Shown(pc[r], iteration_count[r], quality_score[r], p)

(* The run has met the gate, and its result leaves or has left the graph.  *)
Met(r) ==
    /\ pc[r] \in {"output", "done"}
    /\ quality_score[r] >= Threshold
    /\ disclaimer[r] = "none"

Follows(r) ==
    /\ view[r].end = "open" =>
         /\ view[r].iteration = current_iteration[r]
         /\ \E z \in Pictures : Replays(events[r], Picture(view[r]), z) /\ Matches(r, z)
    /\ view[r].end # "open" => events[r] = << >>
    /\ view[r].end = "done" => pc[r] = "done" /\ Matches(r, Picture(view[r]))
    /\ view[r].quality >= Threshold => Met(r)
    /\ \A i \in 1..Len(events[r]) : events[r][i].score >= Threshold => Met(r)

FollowInv == \A r \in Followed : Follows(r)

StreamIInv == StreamTypeOK /\ FollowInv

LEMMA AfterType == ASSUME NEW p \in Pictures, NEW e \in Events PROVE After(p, e) \in Pictures
  BY DEF Pictures, Events, After, _AGENT_NODES, Counts

(* Replaying nothing, one event more at the end, one event less at the     *)
(* beginning.                                                              *)
LEMMA ReplayNone ==
    ASSUME NEW p \in Pictures, NEW z
    PROVE  Replays(<< >>, p, z) <=> z = p
  <1>1. Len(<< >>) = 0
    OBVIOUS
  <1>2. ASSUME z = p PROVE Replays(<< >>, p, z)
    <2> DEFINE w == [i \in 0..0 |-> p]
    <2>1. w \in [0..0 -> Pictures] /\ w[0] = p
      OBVIOUS
    <2> HIDE DEF w
    <2> QED
      BY <1>1, <1>2, <2>1 DEF Replays
  <1> QED
    BY <1>1, <1>2 DEF Replays

LEMMA ReplayAppend ==
    ASSUME NEW q \in Seq(Events), NEW p, NEW z, Replays(q, p, z), NEW e \in Events
    PROVE  Replays(Append(q, e), p, After(z, e))
  <1>1. PICK w \in [0..Len(q) -> Pictures] :
            /\ w[0] = p
            /\ \A i \in 1..Len(q) : w[i] = After(w[i - 1], q[i])
            /\ w[Len(q)] = z
    BY DEF Replays
  <1>2. /\ Len(q) \in Nat /\ Len(Append(q, e)) = Len(q) + 1
        /\ \A i \in 1..Len(q) : Append(q, e)[i] = q[i]
        /\ Append(q, e)[Len(q) + 1] = e
    OBVIOUS
  <1> DEFINE n == Len(q)
             a == After(z, e)
             x == [i \in 0..(n + 1) |-> IF i = n + 1 THEN a ELSE w[i]]
  <1>3. z \in Pictures /\ a \in Pictures
    BY <1>1, <1>2, AfterType
  <1>4. n \in Nat /\ w \in [0..n -> Pictures] /\ w[n] = z
    BY <1>1, <1>2
  <1>5. x \in [0..(n + 1) -> Pictures] /\ x[0] = w[0] /\ x[n + 1] = a
    <2> HIDE DEF a, n
    <2> QED
      BY <1>3, <1>4
  <1>6. \A i \in 1..(n + 1) : x[i] = After(x[i - 1], Append(q, e)[i])
    <2> SUFFICES ASSUME NEW i \in 1..(n + 1)
                 PROVE  x[i] = After(x[i - 1], Append(q, e)[i])
      OBVIOUS
    <2>1. CASE i = n + 1
      <3>1. x[i] = a /\ x[i - 1] = w[n]
        <4> HIDE DEF a, n
        <4> QED
          BY <1>4, <2>1
      <3> QED
        BY <1>2, <1>4, <2>1, <3>1
    <2>2. CASE i # n + 1
      <3>1. i \in 1..n /\ x[i] = w[i] /\ x[i - 1] = w[i - 1]
        <4> HIDE DEF a, n
        <4> QED
          BY <1>4, <2>2
      <3> QED
        BY <1>1, <1>2, <3>1
    <2> QED
      BY <2>1, <2>2
  <1> HIDE DEF x
  <1> QED
    BY <1>1, <1>2, <1>5, <1>6 DEF Replays

LEMMA ReplayTail ==
    ASSUME NEW q \in Seq(Events), q # << >>, NEW p, NEW z, Replays(q, p, z)
    PROVE  Replays(Tail(q), After(p, Head(q)), z)
  <1>1. PICK w \in [0..Len(q) -> Pictures] :
            /\ w[0] = p
            /\ \A i \in 1..Len(q) : w[i] = After(w[i - 1], q[i])
            /\ w[Len(q)] = z
    BY DEF Replays
  <1>2. /\ Len(q) \in Nat /\ Len(q) # 0 /\ Len(Tail(q)) = Len(q) - 1
        /\ Head(q) = q[1]
        /\ \A i \in 1..(Len(q) - 1) : Tail(q)[i] = q[i + 1]
    OBVIOUS
  <1> DEFINE n == Len(q)
             x == [i \in 0..(n - 1) |-> w[i + 1]]
  <1>3. n \in Nat /\ n # 0 /\ w \in [0..n -> Pictures]
    BY <1>1, <1>2
  <1>4. /\ x \in [0..(n - 1) -> Pictures] /\ x[0] = w[1] /\ x[n - 1] = w[n]
        /\ \A i \in 1..(n - 1) : x[i] = w[i + 1] /\ x[i - 1] = w[i] /\ i + 1 \in 1..n
                                 /\ i + 1 - 1 = i
    <2> HIDE DEF n
    <2> QED
      BY <1>3
  <1>5. 1 \in 1..n /\ w[1] = After(p, Head(q))
    BY <1>1, <1>2
  <1>6. \A i \in 1..(n - 1) : x[i] = After(x[i - 1], Tail(q)[i])
    BY <1>1, <1>2, <1>4
  <1> HIDE DEF x
  <1> QED
    BY <1>1, <1>2, <1>4, <1>5, <1>6 DEF Replays

(* What a reader has after no, one or two frames.                          *)
LEMMA ReceivedFew ==
    ASSUME NEW v, NEW f, NEW g
    PROVE  /\ Received(v, << >>) = v
           /\ Received(v, <<f>>) = Shows(v, f)
           /\ Received(v, <<f, g>>) = Shows(Shows(v, f), g)
  <1> DEFINE Unfolds(h, l) == h = [i \in 0..Len(l) |-> IF i = 0 THEN v ELSE Shows(h[i - 1], l[i])]
             s == Shows(v, f)
             t == Shows(s, g)
  <1>0. \A l : Received(v, l) = (CHOOSE h : Unfolds(h, l))[Len(l)]
    BY DEF Received
  <1>1. Received(v, << >>) = v
    <2>1. Len(<< >>) = 0
      OBVIOUS
    <2>2. Unfolds([i \in 0..0 |-> v], << >>)
      BY <2>1
    <2> DEFINE h == CHOOSE h : Unfolds(h, << >>)
    <2>3. Unfolds(h, << >>)
      BY <2>2
    <2> HIDE DEF h
    <2>4. h[0] = v
      BY <2>1, <2>3
    <2> QED
      BY <1>0, <2>1, <2>4 DEF h
  <1>2. Received(v, <<f>>) = Shows(v, f)
    <2>1. Len(<<f>>) = 1 /\ <<f>>[1] = f
      OBVIOUS
    <2> DEFINE k == [i \in 0..1 |-> IF i = 0 THEN v ELSE s]
    <2>2. Unfolds(k, <<f>>)
      <3>1. \A i \in 0..1 : k[i] = IF i = 0 THEN v ELSE Shows(k[i - 1], <<f>>[i])
        BY <2>1
      <3> QED
        BY <2>1, <3>1
    <2> DEFINE h == CHOOSE h : Unfolds(h, <<f>>)
    <2>3. Unfolds(h, <<f>>)
      BY <2>2
    <2> HIDE DEF h
    <2>4. h[0] = v /\ h[1] = Shows(h[0], f)
      BY <2>1, <2>3
    <2> QED
      BY <1>0, <2>1, <2>4 DEF h
  <1>3. Received(v, <<f, g>>) = Shows(Shows(v, f), g)
    <2>1. Len(<<f, g>>) = 2 /\ <<f, g>>[1] = f /\ <<f, g>>[2] = g
      OBVIOUS
    <2> DEFINE k == [i \in 0..2 |-> IF i = 0 THEN v ELSE IF i = 1 THEN s ELSE t]
    <2>2. Unfolds(k, <<f, g>>)
      <3>1. \A i \in 0..2 : k[i] = IF i = 0 THEN v ELSE Shows(k[i - 1], <<f, g>>[i])
        BY <2>1
      <3> QED
        BY <2>1, <3>1
    <2> DEFINE h == CHOOSE h : Unfolds(h, <<f, g>>)
    <2>3. Unfolds(h, <<f, g>>)
      BY <2>2
    <2> HIDE DEF h
    <2>4. h[0] = v /\ h[1] = Shows(h[0], f) /\ h[2] = Shows(h[1], g)
      BY <2>1, <2>3
    <2> QED
      BY <1>0, <2>1, <2>4 DEF h
  <1> QED
    BY <1>1, <1>2, <1>3

(* What a reader has after all of one or two frames, and after those that  *)
(* came before the socket went.                                            *)
LEMMA SentOne ==
    ASSUME NEW v, NEW f
    PROVE  /\ Received(v, <<f>>) = Shows(v, f)
           /\ \A k \in 0..(Len(<<f>>) - 1) : Received(v, SubSeq(<<f>>, 1, k)) = v
  <1>1. Len(<<f>>) = 1 /\ SubSeq(<<f>>, 1, 0) = << >>
    BY SubSeqEmpty
  <1>2. Received(v, << >>) = v /\ Received(v, <<f>>) = Shows(v, f)
    BY ReceivedFew
  <1>3. \A k \in 0..(Len(<<f>>) - 1) : k = 0
    BY <1>1
  <1> QED
    BY <1>1, <1>2, <1>3

LEMMA SentTwo ==
    ASSUME NEW v, NEW f, NEW g
    PROVE  /\ Received(v, <<f, g>>) = Shows(Shows(v, f), g)
           /\ \A k \in 0..(Len(<<f, g>>) - 1) :
                Received(v, SubSeq(<<f, g>>, 1, k)) \in {v, Shows(v, f)}
  <1>1. Len(<<f, g>>) = 2 /\ SubSeq(<<f, g>>, 1, 0) = << >>
    BY SubSeqEmpty
  <1>2. SubSeq(<<f, g>>, 1, 1) = <<f>>
    <2> DEFINE s == SubSeq(<<f, g>>, 1, 1)
    <2>1. \A i \in 1..1 : <<f, g>>[i] \in {f}
      OBVIOUS
    <2>2. s \in Seq({f}) /\ Len(s) = 1 /\ \A i \in 1..(1 - 1 + 1) : s[i] = <<f, g>>[1 + i - 1]
      BY <2>1, SubSeqProperties
    <2>3. s[1] = f
      BY <2>2
    <2> HIDE DEF s
    <2>4. s = <<f>>
      BY <2>2, <2>3
    <2> QED
      BY <2>4 DEF s
  <1>3. Received(v, << >>) = v /\ Received(v, <<f>>) = Shows(v, f)
        /\ Received(v, <<f, g>>) = Shows(Shows(v, f), g)
    BY ReceivedFew
  <1>4. \A k \in 0..(Len(<<f, g>>) - 1) : k = 0 \/ k = 1
    BY <1>1
  <1> QED
    BY <1>1, <1>2, <1>3, <1>4

(* A reader that is cut off keeps its score, or none.                      *)
LEMMA CutOff ==
    ASSUME NEW u \in Views, NEW how \in {"closed", "dropped"}
    PROVE  /\ Cut(u, how) \in Views
           /\ Cut(u, how).end = how
           /\ Cut(u, how).quality \in {0, u.quality}
  <1>1. 0 \in Scores
    BY ScoreAssumption
  <1> QED
    BY <1>1 DEF Cut, NoFrames, Views

(* The frames of an event turn a reader's picture into the one after it,   *)
(* and a socket that goes among them leaves the old score or the new one.  *)
LEMMA EventShown ==
    ASSUME NEW v \in Views, v.end = "open", NEW e \in Events, NEW n \in Nat,
           n = IF Counts(e) THEN v.iteration + 1 ELSE v.iteration
    PROVE  /\ Received(v, FramesOf(e, n)) \in Views
           /\ Received(v, FramesOf(e, n)).end = "open"
           /\ Picture(Received(v, FramesOf(e, n))) = After(Picture(v), e)
           /\ \A k \in 0..(Len(FramesOf(e, n)) - 1), how \in {"closed", "dropped"} :
                LET c == Cut(Received(v, SubSeq(FramesOf(e, n), 1, k)), how)
                IN  c \in Views /\ c.end = how /\ c.quality \in {0, v.quality, e.score}
  <1> DEFINE complete == Frame("agent_complete", e.name, 0)
             start == Frame("agent_start", e.name, n)
             score == Frame("quality_score", e.name, e.score)
             replan == Frame("replan", e.name, n)
  <1>0. /\ 0 \in Scores /\ e.score \in Scores /\ e.name \in Nodes /\ e.kind \in {"start", "end"}
        /\ v.quality \in Scores /\ v.iteration \in Nat
    BY ScoreAssumption DEF Events, Views
  <1>1. \A how \in {"closed", "dropped"}, u \in Views :
            /\ Cut(u, how) \in Views /\ Cut(u, how).end = how
            /\ Cut(u, how).quality \in {0, u.quality}
    BY CutOff
  <1> DEFINE F == FramesOf(e, n)
             Old(x) == x \in Views /\ x.quality \in {v.quality, e.score}
             AsAfter(x) == x \in Views /\ x.end = "open" /\ Picture(x) = After(Picture(v), e)
  <1> SUFFICES AsAfter(Received(v, F)) /\ \A k \in 0..(Len(F) - 1) : Old(Received(v, SubSeq(F, 1, k)))
    <2>1. ASSUME NEW k \in 0..(Len(F) - 1), NEW how \in {"closed", "dropped"},
                 Old(Received(v, SubSeq(F, 1, k)))
          PROVE  LET c == Cut(Received(v, SubSeq(F, 1, k)), how)
                 IN  c \in Views /\ c.end = how /\ c.quality \in {0, v.quality, e.score}
      BY <1>1, <2>1
    <2> HIDE DEF F
    <2> QED
      BY <2>1 DEF F
  <1> HIDE DEF F
  <1>2. CASE e.name \notin _AGENT_NODES
    <2>1. F = << >> /\ ~Counts(e) /\ e.name # "reflector"
      BY <1>2 DEF F, FramesOf, Counts, _AGENT_NODES
    <2>2. Received(v, << >>) = v
      BY ReceivedFew
    <2>3. 0..(Len(<< >>) - 1) = {}
      OBVIOUS
    <2>4. After(Picture(v), e) = Picture(v)
      BY <1>2, <2>1 DEF After, Picture
    <2> QED
      BY <2>1, <2>2, <2>3, <2>4
  <1>3. CASE e.name \in _AGENT_NODES /\ e.kind = "start"
    <2>1. F = <<start>>
      BY <1>3 DEF F, FramesOf
    <2>2. Shows(v, start) = [v EXCEPT !.active = e.name, !.iteration = n]
      BY DEF Shows, PageShows, _run_via_ws, Frame
    <2>3. Shows(v, start) \in Views /\ Shows(v, start).end = "open"
      BY <1>3, <2>2 DEF Views
    <2>4. Picture(Shows(v, start)) = After(Picture(v), e)
      BY <1>3, <2>2 DEF Views, Picture, After
    <2> HIDE DEF start
    <2>5. AsAfter(Shows(v, start))
      BY <2>3, <2>4
    <2> HIDE DEF AsAfter
    <2> QED
      BY <2>1, <2>5, SentOne
  <1>4. ASSUME e.name \in _AGENT_NODES, e.kind = "end",
               NEW u \in Views, u.end = "open"
        PROVE  /\ Shows(u, complete) \in Views
               /\ Shows(u, complete).end = "open"
               /\ Picture(Shows(u, complete)) = [Picture(u) EXCEPT !.active = "none"]
    <2>1. Shows(u, complete) = [u EXCEPT !.active = "none", !.completed = @ \cup {e.name}]
      BY DEF Shows, PageShows, _run_via_ws, Frame
    <2> HIDE DEF complete
    <2>2. u.completed \cup {e.name} \in SUBSET _AGENT_NODES
      BY <1>4 DEF Views
    <2>3. Shows(u, complete) \in Views /\ Shows(u, complete).end = "open"
      BY <1>4, <2>1, <2>2 DEF Views
    <2>4. Picture(Shows(u, complete)) = [Picture(u) EXCEPT !.active = "none"]
      BY <2>1 DEF Views, Picture
    <2> QED
      BY <2>3, <2>4
  <1>5. CASE e.name \in _AGENT_NODES /\ e.kind = "end" /\ e.name = "reflector"
    <2>1. F = <<score, complete>>
      BY <1>5 DEF F, FramesOf
    <2>2. Shows(v, score) = [v EXCEPT !.quality = e.score]
      BY DEF Shows, PageShows, _run_via_ws, Frame, Views
    <2>3. Shows(v, score) \in Views /\ Shows(v, score).end = "open"
          /\ Shows(v, score).quality = e.score
      BY <1>0, <2>2 DEF Views
    <2>6. [Picture(Shows(v, score)) EXCEPT !.active = "none"] = After(Picture(v), e)
      BY <1>5, <2>2 DEF Views, Picture, After, Counts
    <2> HIDE DEF score, complete
    <2>7. AsAfter(Shows(Shows(v, score), complete))
      BY <1>4, <1>5, <2>3, <2>6
    <2>8. Old(v) /\ Old(Shows(v, score))
      BY <2>3
    <2> HIDE DEF AsAfter, Old
    <2> QED
      BY <2>1, <2>7, <2>8, SentTwo
  <1>6. CASE e.name \in _AGENT_NODES /\ e.kind = "end" /\ e.name = "planner" /\ n > 1
    <2>1. F = <<replan, complete>>
      BY <1>6 DEF F, FramesOf
    <2>2. Shows(v, replan) = [v EXCEPT !.iterations = n]
      BY DEF Shows, PageShows, _run_via_ws, Frame, Views
    <2>3. Shows(v, replan) \in Views /\ Shows(v, replan).end = "open"
          /\ Shows(v, replan).quality = v.quality
      BY <1>0, <2>2 DEF Views
    <2>6. [Picture(Shows(v, replan)) EXCEPT !.active = "none"] = After(Picture(v), e)
      BY <1>6, <2>2 DEF Views, Picture, After, Counts
    <2> HIDE DEF replan, complete
    <2>7. AsAfter(Shows(Shows(v, replan), complete))
      BY <1>4, <1>6, <2>3, <2>6
    <2>8. Old(v) /\ Old(Shows(v, replan))
      BY <2>3
    <2> HIDE DEF AsAfter, Old
    <2> QED
      BY <2>1, <2>7, <2>8, SentTwo
  <1>7. CASE /\ e.name \in _AGENT_NODES /\ e.kind = "end" /\ e.name # "reflector"
             /\ ~(e.name = "planner" /\ n > 1)
    <2>1. F = <<complete>>
      BY <1>7 DEF F, FramesOf
    <2>4. [Picture(v) EXCEPT !.active = "none"] = After(Picture(v), e)
      BY <1>7 DEF Picture, After, Counts
    <2> HIDE DEF complete
    <2>5. AsAfter(Shows(v, complete)) /\ Old(v)
      BY <1>4, <1>7, <2>4
    <2> HIDE DEF AsAfter, Old
    <2> QED
      BY <2>1, <2>5, SentOne
  <1> QED
    BY <1>0, <1>2, <1>3, <1>5, <1>6, <1>7

(* How a step moves its run, and that it leaves the other runs alone.      *)
LEMMA StepShape ==
    ASSUME IInv, NEW r \in Runs, Step(r)
    PROVE  /\ \/ /\ pc[r] = "planner" /\ pc'[r] \in {"researcher", "output"}
                 /\ iteration_count'[r] = iteration_count[r] + 1
                 /\ quality_score'[r] = quality_score[r]
              \/ /\ \/ pc[r] = "researcher" /\ pc'[r] = "executor"
                    \/ pc[r] = "executor" /\ pc'[r] = "verifier"
                    \/ pc[r] = "verifier" /\ pc'[r] = "reflector"
                    \/ pc[r] = "output" /\ pc'[r] = "done"
                    \/ pc[r] \in {"executor", "verifier", "reflector"} /\ pc'[r] = "failed"
                 /\ iteration_count'[r] = iteration_count[r]
                 /\ quality_score'[r] = quality_score[r]
              \/ /\ pc[r] = "reflector" /\ pc'[r] \in {"planner", "output"}
                 /\ iteration_count'[r] = iteration_count[r]
           /\ \A q \in Runs \ {r} :
                /\ pc'[q] = pc[q] /\ iteration_count'[q] = iteration_count[q]
                /\ quality_score'[q] = quality_score[q] /\ disclaimer'[q] = disclaimer[q]
  <1>0. TypeOK
    BY DEF IInv
  <1>1. \A q \in Runs \ {r} :
          /\ pc'[q] = pc[q] /\ iteration_count'[q] = iteration_count[q]
          /\ quality_score'[q] = quality_score[q] /\ disclaimer'[q] = disclaimer[q]
    BY <1>0 DEF Step, Planner, HardCap, PlannerError, NewPlan, Researcher, Executor,
          Verifier, Reflector, NodeRaises, Output, Unmet, Goto, channels, redis, TypeOK
  <1>2. CASE Planner(r)
    BY <1>0, <1>1, <1>2 DEF Planner, Goto, _route_after_planner, TypeOK
  <1>3. CASE Reflector(r)
    BY <1>0, <1>1, <1>3 DEF Reflector, Goto, _route_after_reflector, TypeOK
  <1>4. CASE Researcher(r) \/ Executor(r) \/ Verifier(r) \/ NodeRaises(r) \/ Output(r)
    BY <1>0, <1>1, <1>4 DEF Researcher, Executor, Verifier, NodeRaises, Output, Goto, channels,
       TypeOK
  <1> QED
    BY <1>2, <1>3, <1>4 DEF Step

(* A run that has not raised and whose score is not below the gate is at   *)
(* its end, without a disclaimer.                                          *)
LEMMA GateMet ==
    ASSUME IInv, NEW r \in Runs, Step(r), quality_score'[r] >= Threshold, pc'[r] # "failed"
    PROVE  Met(r)'
  <1>1. TypeOK' /\ ControlInv'
    BY IInvStep DEF Next, IInv
  <1>2. quality_score'[r] \in Scores /\ pc'[r] \in Nodes \cup {"done", "failed"}
    BY <1>1 DEF TypeOK
  <1>3. ~(quality_score'[r] < Threshold)
    BY <1>2, Numbers
  <1>4. Stands(r)'
    BY <1>1 DEF ControlInv
  <1>5. pc'[r] \in {"output", "done"} /\ disclaimer'[r] = "none"
    BY <1>2, <1>3, <1>4 DEF Stands, AtNode
  <1> QED
    BY <1>5 DEF Met

(* A run that has met the gate keeps what it has.                          *)
LEMMA MetStays ==
    ASSUME IInv, NEW r \in Runs, Step(r), NEW q \in Runs, Met(q)
    PROVE  Met(q)'
  <1>1. CASE q # r
    BY <1>1, StepShape DEF Met
  <1>2. CASE q = r
    <2>1. pc'[r] # "failed" /\ quality_score'[r] = quality_score[r]
      BY <1>2, StepShape DEF Met
    <2> QED
      BY <1>2, <2>1, GateMet DEF Met
  <1> QED
    BY <1>1, <1>2

(* The events of a step: the end of its node, unless it raised, and the    *)
(* start of the next.                                                      *)
LEMMA EmittedEvents ==
    ASSUME IInv, NEW r \in Runs, Step(r)
    PROVE  /\ pc'[r] = "failed" => Emitted(r) = << >>
           /\ pc'[r] = "done" => Emitted(r) = <<Event("end", pc[r], quality_score'[r])>>
           /\ pc'[r] \in Nodes =>
                Emitted(r) = <<Event("end", pc[r], quality_score'[r]), Event("start", pc'[r], 0)>>
           /\ Event("end", pc[r], quality_score'[r]) \in Events
           /\ pc'[r] \in Nodes => Event("start", pc'[r], 0) \in Events
           /\ pc'[r] \in Nodes \cup {"done", "failed"}
  <1>1. pc[r] \in Nodes
    BY StepShape
  <1>2. TypeOK'
    BY TypeStep DEF Next, IInv
  <1>3. quality_score'[r] \in Scores /\ 0 \in Scores /\ pc'[r] \in Nodes \cup {"done", "failed"}
    BY <1>2, ScoreAssumption, SMTT(30) DEF TypeOK
  <1>4. Event("end", pc[r], quality_score'[r]) \in Events
        /\ (pc'[r] \in Nodes => Event("start", pc'[r], 0) \in Events)
    BY <1>1, <1>3 DEF Events, Event
  <1>5. /\ pc'[r] = "failed" => Emitted(r) = << >>
        /\ pc'[r] = "done" => Emitted(r) = <<Event("end", pc[r], quality_score'[r])>>
        /\ pc'[r] \in Nodes =>
             Emitted(r) = <<Event("end", pc[r], quality_score'[r]), Event("start", pc'[r], 0)>>
    <2>1. Finished(r)' <=> pc'[r] \in {"done", "failed"}
      BY DEF Finished
    <2>2. << >> \o << >> = << >> /\ \A e, f : <<e>> \o << >> = <<e>> /\ <<e>> \o <<f>> = <<e, f>>
      <3> SUFFICES ASSUME NEW e, NEW f
                   PROVE  /\ << >> \o << >> = << >> /\ <<e>> \o << >> = <<e>>
                          /\ <<e>> \o <<f>> = <<e, f>>
        OBVIOUS
      <3>1. << >> \in Seq({e, f}) /\ <<e>> \in Seq({e, f}) /\ <<f>> \in Seq({e, f})
        OBVIOUS
      <3>2. << >> \o << >> = << >> /\ <<e>> \o << >> = <<e>>
        BY <3>1, ConcatEmptySeq
      <3>3. <<e>> \o <<f>> = Append(<<e>>, f)
        BY <3>1
      <3> DEFINE u == Append(<<e>>, f)
      <3>4. u \in Seq({e, f}) /\ Len(u) = 2 /\ u[1] = e /\ u[2] = f
        BY <3>1
      <3> HIDE DEF u
      <3>5. u = <<e, f>>
        BY <3>4
      <3> QED
        BY <3>2, <3>3, <3>5 DEF u
    <2> HIDE DEF Nodes
    <2>3. pc'[r] \in Nodes => pc'[r] # "failed" /\ pc'[r] # "done"
      BY DEF Nodes
    <2> QED
      BY <2>1, <2>2, <2>3 DEF Emitted, Score
  <1> QED
    BY <1>3, <1>4, <1>5

(* A reader who knew what the run did before the step knows what it does   *)
(* after it, once it has seen the end of one node and the start of the     *)
(* next.                                                                   *)
LEMMA NodeShown ==
    ASSUME NEW m \in Nodes, NEW o \in Nodes, NEW n \in Nat, NEW k, NEW s, NEW t,
           NEW p \in Pictures, Shown(m, n, s, p),
           \/ m = "planner" /\ o \in {"researcher", "output"} /\ k = n + 1 /\ t = s
           \/ m = "researcher" /\ o = "executor" /\ k = n /\ t = s
           \/ m = "executor" /\ o = "verifier" /\ k = n /\ t = s
           \/ m = "verifier" /\ o = "reflector" /\ k = n /\ t = s
           \/ m = "reflector" /\ o \in {"planner", "output"} /\ k = n
    PROVE  Shown(o, k, t, After(After(p, Event("end", m, t)), Event("start", o, 0)))
  <1> DEFINE y == After(p, Event("end", m, t))
             z == After(y, Event("start", o, 0))
  <1>1. p.active = m /\ p.quality = s /\ p.iteration = n + (IF m = "planner" THEN 1 ELSE 0)
    BY DEF Shown, _AGENT_NODES
  <1>2. y.active = "none" /\ y.iteration = p.iteration /\ y.quality = t
    BY <1>1 DEF After, Event, Counts, _AGENT_NODES
  <1> HIDE DEF y
  <1>3. /\ z.quality = t
        /\ z.active = IF o = "output" THEN "none" ELSE o
        /\ z.iteration = IF o = "planner" THEN p.iteration + 1 ELSE p.iteration
    BY <1>2 DEF After, Event, Counts, _AGENT_NODES
  <1> HIDE DEF z
  <1>4. Shown(o, k, t, z)
    BY <1>1, <1>3 DEF Shown, _AGENT_NODES
  <1> QED
    BY <1>4 DEF y, z

LEMMA GraphReplay ==
    ASSUME IInv, NEW r \in Runs, Step(r), NEW p \in Pictures, Matches(r, p),
           NEW q \in Seq(Events), NEW x, Replays(q, x, p)
    PROVE  /\ q \o Emitted(r) \in Seq(Events)
           /\ \E z \in Pictures :
                /\ Replays(q \o Emitted(r), x, z)
                /\ Shown(pc'[r], iteration_count'[r], quality_score'[r], z)
  <1> DEFINE a == Event("end", pc[r], quality_score'[r])
             b == Event("start", pc'[r], 0)
  <1>0. pc'[r] \in Nodes \cup {"done", "failed"} /\ a \in Events /\ iteration_count[r] \in Nat
    BY EmittedEvents DEF IInv, TypeOK
  <1>1. CASE pc'[r] = "failed"
    <2>1. q \o Emitted(r) = q
      BY <1>1, EmittedEvents
    <2>2. Shown(pc'[r], iteration_count'[r], quality_score'[r], p)
      BY <1>1, StepShape DEF Matches, Shown, _AGENT_NODES
    <2> QED
      BY <2>1, <2>2
  <1>2. CASE pc'[r] = "done"
    <2>0. Emitted(r) = <<a>>
      BY <1>2, EmittedEvents
    <2>3. /\ pc[r] = "output" /\ iteration_count'[r] = iteration_count[r]
          /\ quality_score'[r] = quality_score[r]
      BY <1>2, StepShape
    <2>4. After(p, a) = p
      BY <2>3 DEF After, Event, Counts, _AGENT_NODES, Pictures
    <2> HIDE DEF a
    <2>1. q \o <<a>> = Append(q, a) /\ Append(q, a) \in Seq(Events)
      BY <1>0
    <2>2. Replays(Append(q, a), x, After(p, a))
      BY <1>0, ReplayAppend
    <2>5. Shown(pc'[r], iteration_count'[r], quality_score'[r], p)
      BY <1>2, <2>3 DEF Matches, Shown, _AGENT_NODES
    <2> QED
      BY <2>0, <2>1, <2>2, <2>4, <2>5
  <1>3. CASE pc'[r] \in Nodes
    <2> DEFINE y == After(p, a)
               z == After(y, b)
    <2>1. b \in Events /\ Emitted(r) = <<a, b>>
      BY <1>3, EmittedEvents
    <2>5. Shown(pc'[r], iteration_count'[r], quality_score'[r], z)
      BY <1>0, <1>3, StepShape, NodeShown DEF Matches
    <2> HIDE DEF a, b
    <2>2. q \o <<a, b>> = Append(Append(q, a), b) /\ Append(q, a) \in Seq(Events)
          /\ Append(Append(q, a), b) \in Seq(Events)
      BY <1>0, <2>1
    <2>3. y \in Pictures /\ z \in Pictures
      BY <1>0, <2>1, AfterType
    <2>4. Replays(Append(Append(q, a), b), x, z)
      BY <1>0, <2>1, <2>2, ReplayAppend
    <2> HIDE DEF z
    <2> QED
      BY <2>1, <2>2, <2>3, <2>4, <2>5
  <1> QED
    BY <1>0, <1>1, <1>2, <1>3

(* A score at or above the gate is only emitted by a step that meets it.   *)
LEMMA EmittedScores ==
    ASSUME IInv, NEW r \in Runs, Step(r), NEW q \in Seq(Events),
           NEW i \in 1..Len(q \o Emitted(r)), (q \o Emitted(r))[i].score >= Threshold
    PROVE  \/ \E j \in 1..Len(q) : q[j].score >= Threshold
           \/ pc'[r] # "failed" /\ quality_score'[r] >= Threshold
  <1> DEFINE a == Event("end", pc[r], quality_score'[r])
             b == Event("start", pc'[r], 0)
  <1>0. a.score = quality_score'[r] /\ ~(b.score >= Threshold)
    <2>1. a.score = quality_score'[r] /\ b.score = 0
      BY DEF Event
    <2>2. ~(0 >= Threshold)
      BY ScoreAssumption, SMTT(30)
    <2> QED
      BY <2>1, <2>2
  <1>1. pc'[r] \in Nodes \cup {"done", "failed"} /\ a \in Events /\ (pc'[r] \in Nodes => b \in Events)
    BY EmittedEvents
  <1>2. CASE pc'[r] = "failed"
    <2>1. q \o Emitted(r) = q
      BY <1>2, EmittedEvents
    <2> QED
      BY <2>1
  <1>3. CASE pc'[r] = "done"
    <2>1. Emitted(r) = <<a>>
      BY <1>3, EmittedEvents
    <2> HIDE DEF a
    <2>2. /\ Len(q) \in Nat /\ Len(q \o <<a>>) = Len(q) + 1
          /\ \A j \in 1..Len(q) : (q \o <<a>>)[j] = q[j]
          /\ (q \o <<a>>)[Len(q) + 1] = a
      BY <1>1
    <2>3. i \in 1..Len(q) \/ i = Len(q) + 1
      BY <2>1, <2>2
    <2> QED
      BY <1>0, <1>3, <2>1, <2>2, <2>3
  <1>4. CASE pc'[r] \in Nodes
    <2>1. Emitted(r) = <<a, b>> /\ pc'[r] # "failed" /\ b \in Events
      BY <1>1, <1>4, EmittedEvents
    <2> HIDE DEF a, b
    <2>2. /\ Len(q) \in Nat /\ Len(q \o <<a, b>>) = Len(q) + 2
          /\ \A j \in 1..Len(q) : (q \o <<a, b>>)[j] = q[j]
          /\ (q \o <<a, b>>)[Len(q) + 1] = a /\ (q \o <<a, b>>)[Len(q) + 2] = b
      BY <1>1, <2>1
    <2>3. i \in 1..Len(q) \/ i = Len(q) + 1 \/ i = Len(q) + 2
      BY <2>1, <2>2
    <2> QED
      BY <1>0, <2>1, <2>2, <2>3
  <1> QED
    BY <1>1, <1>2, <1>3, <1>4

LEMMA StreamTyped ==
    ASSUME StreamTypeOK
    PROVE  /\ events \in [Followed -> Seq(Events)]
           /\ current_iteration \in [Followed -> Nat]
           /\ view \in [Followed -> Views]
           /\ \A v \in Views : Picture(v) \in Pictures
  BY DEF StreamTypeOK, Events, Views, Picture, Pictures

LEMMA StreamInitInv == StreamInit => StreamIInv
  <1> SUFFICES ASSUME StreamInit PROVE StreamIInv
    OBVIOUS
  <1> DEFINE e == Event("start", "planner", 0)
             p == Picture(NoFrames)
  <1>1. IInv
    BY InitIInv DEF StreamInit
  <1>2. 0 \in Scores /\ ~(0 >= Threshold)
    BY ScoreAssumption
  <1>3. e \in Events /\ NoFrames \in Views /\ e.score = 0 /\ p \in Pictures
    BY <1>2 DEF Event, Events, NoFrames, Views, _AGENT_NODES, Picture, Pictures
  <1>4. <<e>> \in Seq(Events)
    BY <1>3
  <1>5. StreamTypeOK
    BY <1>1, <1>3, <1>4 DEF IInv, StreamInit, StreamTypeOK, Events, Views
  <1>6. ASSUME NEW r \in Followed
        PROVE  Follows(r)
    <2>1. /\ events[r] = <<e>> /\ view[r] = NoFrames /\ current_iteration[r] = 0
          /\ pc[r] = "planner" /\ quality_score[r] = 0 /\ iteration_count[r] = 0
      BY FollowedAssumption DEF StreamInit, Init
    <2>2. After(p, e) = [active |-> "planner", iteration |-> 1, quality |-> 0]
      BY DEF After, Event, Picture, NoFrames, Counts, _AGENT_NODES
    <2>3. Matches(r, After(p, e)) /\ After(p, e) \in Pictures
      BY <1>2, <2>1, <2>2 DEF Matches, Shown, _AGENT_NODES, Pictures
    <2>4. Replays(Append(<< >>, e), p, After(p, e))
      <3>1. << >> \in Seq(Events)
        OBVIOUS
      <3> QED
        BY <1>3, <3>1, ReplayNone, ReplayAppend
    <2>5. Append(<< >>, e) = <<e>> /\ Len(<<e>>) = 1 /\ <<e>>[1] = e
      OBVIOUS
    <2>6. NoFrames.end = "open" /\ NoFrames.iteration = 0 /\ NoFrames.quality = 0
      BY DEF NoFrames
    <2> HIDE DEF e, p
    <2>7. \A i \in 1..1 : ~(<<e>>[i].score >= Threshold)
      BY <1>2, <1>3, <2>5
    <2> QED
      BY <1>2, <2>1, <2>3, <2>4, <2>5, <2>6, <2>7 DEF Follows, p
  <1> QED
    BY <1>5, <1>6 DEF StreamIInv, FollowInv

(* A run that does not move and whose reader gets nothing is followed as   *)
(* before.                                                                 *)
LEMMA FollowsStays ==
    ASSUME NEW r \in Followed, Follows(r),
           events'[r] = events[r], view'[r] = view[r],
           current_iteration'[r] = current_iteration[r],
           pc'[r] = pc[r], iteration_count'[r] = iteration_count[r],
           quality_score'[r] = quality_score[r], disclaimer'[r] = disclaimer[r]
    PROVE  Follows(r)'
  <1>1. Met(r)' <=> Met(r)
    BY DEF Met
  <1>2. \A z : Matches(r, z)' <=> Matches(r, z)
    BY DEF Matches
  <1>3. Matches(r, Picture(view[r]))' <=> Matches(r, Picture(view[r]))
    BY DEF Matches
  <1> QED
    BY <1>1, <1>2, <1>3 DEF Follows

LEMMA GraphFollowed ==
    ASSUME IInv, StreamIInv, NEW r \in Runs, GraphStep(r)
    PROVE  StreamIInv'
  <1>0. /\ Step(r) /\ current_iteration' = current_iteration /\ view' = view
        /\ events' = IF r \in Followed /\ Open(r)
                     THEN [events EXCEPT ![r] = @ \o Emitted(r)] ELSE events
        /\ TypeOK'
    BY TypeStep DEF GraphStep, Next, IInv
  <1>1. /\ events \in [Followed -> Seq(Events)] /\ view \in [Followed -> Views]
        /\ current_iteration \in [Followed -> Nat]
        /\ \A v \in Views : Picture(v) \in Pictures
    BY StreamTyped DEF StreamIInv
  <1>2. ASSUME r \in Followed, Open(r)
        PROVE  /\ events[r] \o Emitted(r) \in Seq(Events)
               /\ \E z \in Pictures :
                    /\ Replays(events[r] \o Emitted(r), Picture(view[r]), z)
                    /\ Shown(pc'[r], iteration_count'[r], quality_score'[r], z)
    <2>1. PICK z \in Pictures : Replays(events[r], Picture(view[r]), z) /\ Matches(r, z)
      BY <1>2 DEF StreamIInv, FollowInv, Follows, Open
    <2>2. events[r] \in Seq(Events)
      BY <1>1, <1>2
    <2> QED
      BY <1>0, <2>1, <2>2, GraphReplay
  <1>3. events' \in [Followed -> Seq(Events)]
    BY <1>0, <1>1, <1>2
  <1>4. StreamTypeOK'
    BY <1>0, <1>1, <1>3 DEF StreamTypeOK, Events, Views
  <1>5. ASSUME NEW s \in Followed
        PROVE  Follows(s)'
    <2>0. Follows(s) /\ s \in Runs
      BY FollowedAssumption DEF StreamIInv, FollowInv
    <2>1. CASE s # r
      <3>1. /\ events'[s] = events[s] /\ view'[s] = view[s]
            /\ current_iteration'[s] = current_iteration[s]
        BY <1>0, <1>1, <2>1
      <3>2. /\ pc'[s] = pc[s] /\ iteration_count'[s] = iteration_count[s]
            /\ quality_score'[s] = quality_score[s] /\ disclaimer'[s] = disclaimer[s]
        BY <1>0, <2>0, <2>1, StepShape
      <3> QED
        BY <2>0, <3>1, <3>2, FollowsStays
    <2>2. CASE s = r /\ ~Open(r)
      <3>1. events'[r] = events[r] /\ view'[r] = view[r]
        BY <1>0, <1>1, <2>2
      <3>2. view[r].end # "done"
        <4>1. pc[r] # "done"
          BY <1>0, StepShape
        <4> QED
          BY <2>0, <2>2, <4>1 DEF Follows
      <3>3. Met(r) => Met(r)'
        BY <1>0, MetStays
      <3>4. view[r].end # "open"
        BY <2>2 DEF Open
      <3> QED
        BY <2>0, <2>2, <3>1, <3>2, <3>3, <3>4 DEF Follows
    <2>3. CASE s = r /\ Open(r)
      <3>1. /\ events'[r] = events[r] \o Emitted(r) /\ view'[r] = view[r]
            /\ current_iteration'[r] = current_iteration[r] /\ events[r] \in Seq(Events)
        BY <1>0, <1>1, <2>3
      <3>2. view[r].end = "open" /\ view[r].iteration = current_iteration[r]
        BY <2>0, <2>3 DEF Follows, Open
      <3>3. \E z \in Pictures : Replays(events'[r], Picture(view'[r]), z) /\ Matches(r, z)'
        BY <1>2, <2>3, <3>1 DEF Matches
      <3>4. view[r].quality >= Threshold => Met(r)'
        BY <1>0, <2>0, <2>3, MetStays DEF Follows
      <3>5. ASSUME NEW i \in 1..Len(events'[r]), events'[r][i].score >= Threshold
            PROVE  Met(r)'
        <4>1. \/ \E j \in 1..Len(events[r]) : events[r][j].score >= Threshold
              \/ pc'[r] # "failed" /\ quality_score'[r] >= Threshold
          BY <1>0, <3>1, <3>5, EmittedScores
        <4>2. CASE \E j \in 1..Len(events[r]) : events[r][j].score >= Threshold
          BY <1>0, <2>0, <2>3, <4>2, MetStays DEF Follows
        <4>3. CASE pc'[r] # "failed" /\ quality_score'[r] >= Threshold
          BY <1>0, <4>3, GateMet
        <4> QED
          BY <4>1, <4>2, <4>3
      <3> QED
        BY <2>3, <3>1, <3>2, <3>3, <3>4, <3>5 DEF Follows
    <2> QED
      BY <2>1, <2>2, <2>3
  <1> QED
    BY <1>4, <1>5 DEF StreamIInv, FollowInv

(* The loop takes an event: the reader moves on by it, or is cut off.      *)
LEMMA EventFollowed ==
    ASSUME IInv, StreamIInv, NEW r \in Followed, TakeEvent(r)
    PROVE  StreamIInv'
  <1> DEFINE q == events[r]
             v == view[r]
             e == Head(q)
             n == current_iteration'[r]
             F == FramesOf(e, n)
  <1>1. /\ events \in [Followed -> Seq(Events)] /\ view \in [Followed -> Views]
        /\ current_iteration \in [Followed -> Nat]
        /\ \A u \in Views : Picture(u) \in Pictures
    BY StreamTyped DEF StreamIInv
  <1>2. /\ q # << >> /\ q \in Seq(Events) /\ v \in Views
        /\ n = IF Counts(e) THEN current_iteration[r] + 1 ELSE current_iteration[r]
        /\ current_iteration' \in [Followed -> Nat]
        /\ \A s \in Followed \ {r} : current_iteration'[s] = current_iteration[s]
        /\ Deliver(r, F)
        /\ events' = [events EXCEPT ![r] = IF Open(r)' THEN Tail(@) ELSE << >>]
    BY <1>1 DEF TakeEvent
  <1>3. /\ pc' = pc /\ iteration_count' = iteration_count /\ quality_score' = quality_score
        /\ disclaimer' = disclaimer /\ TypeOK'
    BY DEF TakeEvent, vars, channels, redis, IInv, TypeOK
  <1>4. e \in Events /\ Tail(q) \in Seq(Events) /\ Len(q) \in Nat
        /\ 1 \in 1..Len(q) /\ e = q[1] /\ Len(Tail(q)) = Len(q) - 1
        /\ \A i \in 1..Len(Tail(q)) : Tail(q)[i] = q[i + 1] /\ i + 1 \in 1..Len(q)
    BY <1>2
  <1>5. Follows(r)
    BY DEF StreamIInv, FollowInv
  <1>6. v.end = "open" /\ v.iteration = current_iteration[r]
    BY <1>2, <1>5 DEF Follows
  <1>7. n \in Nat /\ n = IF Counts(e) THEN v.iteration + 1 ELSE v.iteration
    BY <1>2, <1>6
  <1>8. PICK w \in Views :
            /\ view' = [view EXCEPT ![r] = w]
            /\ \/ w.end = "open" /\ Picture(w) = After(Picture(v), e)
               \/ w.end \in {"closed", "dropped"} /\ w.quality \in {0, v.quality, e.score}
    <2>1. /\ Received(v, F) \in Views
          /\ Received(v, F).end = "open"
          /\ Picture(Received(v, F)) = After(Picture(v), e)
          /\ \A k \in 0..(Len(F) - 1), how \in {"closed", "dropped"} :
               LET c == Cut(Received(v, SubSeq(F, 1, k)), how)
               IN  c \in Views /\ c.end = how /\ c.quality \in {0, v.quality, e.score}
      BY <1>2, <1>4, <1>6, <1>7, EventShown
    <2> HIDE DEF F
    <2>2. \/ view' = [view EXCEPT ![r] = Received(v, F)]
          \/ \E k \in 0..(Len(F) - 1), how \in {"closed", "dropped"} :
               view' = [view EXCEPT ![r] = Cut(Received(v, SubSeq(F, 1, k)), how)]
      BY <1>2 DEF Deliver
    <2> QED
      BY <2>1, <2>2
  <1>9. /\ view' \in [Followed -> Views] /\ view'[r] = w
        /\ \A s \in Followed \ {r} : view'[s] = view[s] /\ events'[s] = events[s]
        /\ events'[r] = IF w.end = "open" THEN Tail(q) ELSE << >>
        /\ events' \in [Followed -> Seq(Events)]
    <2>1. view' \in [Followed -> Views] /\ view'[r] = w
      BY <1>1, <1>8
    <2>2. Open(r)' <=> w.end = "open"
      BY <2>1 DEF Open
    <2> QED
      BY <1>1, <1>2, <1>4, <1>8, <2>1, <2>2
  <1>10. StreamTypeOK'
    BY <1>2, <1>3, <1>9 DEF StreamTypeOK, Events, Views
  <1>11. w.quality >= Threshold => Met(r)
    <2>1. v.quality >= Threshold => Met(r)
      BY <1>5 DEF Follows
    <2>2. e.score >= Threshold => Met(r)
      BY <1>4, <1>5 DEF Follows
    <2>3. ~(0 >= Threshold)
      BY ScoreAssumption
    <2>4. w.quality \in {0, v.quality, e.score}
      <3>1. CASE Picture(w) = After(Picture(v), e)
        <4>1. Picture(w).quality = w.quality /\ Picture(v).quality = v.quality
          BY DEF Picture
        <4>2. After(Picture(v), e).quality \in {Picture(v).quality, e.score}
          BY DEF After
        <4> QED
          BY <3>1, <4>1, <4>2
      <3> QED
        BY <1>8, <3>1
    <2> QED
      BY <2>1, <2>2, <2>3, <2>4
  <1>12. Met(r)' <=> Met(r)
    BY <1>3 DEF Met
  <1>13. Follows(r)'
    <2>1. CASE w.end = "open"
      <3>1. PICK z \in Pictures : Replays(q, Picture(v), z) /\ Matches(r, z)
        BY <1>5, <1>6 DEF Follows
      <3>2. Replays(Tail(q), Picture(w), z)
        <4>1. Picture(w) = After(Picture(v), e)
          BY <1>8, <2>1
        <4> QED
          BY <1>2, <3>1, <4>1, ReplayTail
      <3>3. Matches(r, z)'
        BY <1>3, <3>1 DEF Matches
      <3>4. w.iteration = n
        <4>1. Picture(w).iteration = w.iteration /\ Picture(v).iteration = v.iteration
          BY DEF Picture
        <4>2. After(Picture(v), e).iteration
                = IF Counts(e) THEN Picture(v).iteration + 1 ELSE Picture(v).iteration
          BY DEF After
        <4> QED
          BY <1>7, <1>8, <2>1, <4>1, <4>2
      <3>5. \A i \in 1..Len(Tail(q)) : Tail(q)[i].score >= Threshold => Met(r)
        BY <1>4, <1>5 DEF Follows
      <3> HIDE DEF q, n, v, e
      <3>6. events'[r] = Tail(q) /\ view'[r] = w
        BY <1>9, <2>1
      <3>7. current_iteration'[r] = n
        BY DEF n
      <3> QED
        BY <1>11, <1>12, <2>1, <3>2, <3>3, <3>4, <3>5, <3>6, <3>7 DEF Follows
    <2>2. CASE w.end \in {"closed", "dropped"}
      <3>1. events'[r] = << >> /\ Len(<< >>) = 0
        BY <1>9, <2>2
      <3> QED
        BY <1>9, <1>11, <1>12, <2>2, <3>1 DEF Follows
    <2> QED
      BY <1>8, <2>1, <2>2
  <1>14. ASSUME NEW s \in Followed, s # r
         PROVE  Follows(s)'
    <2>1. Follows(s)
      BY DEF StreamIInv, FollowInv
    <2> QED
      BY <1>2, <1>3, <1>9, <1>14, <2>1, FollowsStays
  <1> QED
    BY <1>10, <1>13, <1>14 DEF StreamIInv, FollowInv

(* The last frame, or the end of the socket before it.                     *)
LEMMA LastFollowed ==
    ASSUME IInv, StreamIInv, NEW r \in Followed, SendLast(r)
    PROVE  StreamIInv'
  <1> DEFINE v == view[r]
             how == IF pc[r] = "done" THEN "done" ELSE "error"
             f == Frame(how, "none", 0)
  <1>1. /\ events \in [Followed -> Seq(Events)] /\ view \in [Followed -> Views]
        /\ current_iteration \in [Followed -> Nat]
        /\ \A u \in Views : Picture(u) \in Pictures
    BY StreamTyped DEF StreamIInv
  <1>2. /\ events[r] = << >> /\ v.end = "open" /\ v \in Views /\ r \in Followed
        /\ pc[r] \in {"done", "failed"}
        /\ Deliver(r, <<f>>)
        /\ events' = events /\ current_iteration' = current_iteration
    BY <1>1 DEF SendLast, Open, Finished
  <1>3. /\ pc' = pc /\ iteration_count' = iteration_count /\ quality_score' = quality_score
        /\ disclaimer' = disclaimer /\ TypeOK'
    BY DEF SendLast, vars, channels, redis, IInv, TypeOK
  <1>4. Follows(r)
    BY DEF StreamIInv, FollowInv
  <1>5. Shows(v, f) = [v EXCEPT !.end = how]
    BY DEF Shows, PageShows, _run_via_ws, Frame
  <1>6. PICK w \in Views :
            /\ view' = [view EXCEPT ![r] = w]
            /\ \/ w.end = how /\ Picture(w) = Picture(v) /\ w.quality = v.quality
               \/ w.end \in {"closed", "dropped"} /\ w.quality \in {0, v.quality}
    <2>1. /\ Shows(v, f) \in Views /\ Shows(v, f).end = how
          /\ Picture(Shows(v, f)) = Picture(v) /\ Shows(v, f).quality = v.quality
      BY <1>2, <1>5 DEF Views, Picture
    <2>2. \A h \in {"closed", "dropped"} :
            /\ Cut(v, h) \in Views /\ Cut(v, h).end = h /\ Cut(v, h).quality \in {0, v.quality}
      BY <1>2, CutOff
    <2> HIDE DEF f
    <2>3. \/ view' = [view EXCEPT ![r] = Received(v, <<f>>)]
          \/ \E k \in 0..(Len(<<f>>) - 1), h \in {"closed", "dropped"} :
               view' = [view EXCEPT ![r] = Cut(Received(v, SubSeq(<<f>>, 1, k)), h)]
      BY <1>2 DEF Deliver
    <2>4. \/ view' = [view EXCEPT ![r] = Shows(v, f)]
          \/ \E h \in {"closed", "dropped"} : view' = [view EXCEPT ![r] = Cut(v, h)]
      BY <2>3, SentOne
    <2> QED
      BY <2>1, <2>2, <2>4
  <1>7. /\ view' \in [Followed -> Views] /\ view'[r] = w
        /\ \A s \in Followed \ {r} : view'[s] = view[s]
    BY <1>1, <1>6
  <1>8. StreamTypeOK'
    BY <1>1, <1>2, <1>3, <1>7 DEF StreamTypeOK, Events, Views
  <1>9. Matches(r, Picture(v))
    BY <1>1, <1>2, <1>4, ReplayNone DEF Follows
  <1>10. w.quality >= Threshold => Met(r)'
    <2>1. v.quality >= Threshold => Met(r)
      BY <1>4 DEF Follows
    <2>2. ~(0 >= Threshold)
      BY ScoreAssumption
    <2>3. Met(r)' <=> Met(r)
      BY <1>3 DEF Met
    <2> QED
      BY <1>6, <2>1, <2>2, <2>3
  <1>11. Follows(r)'
    <2>1. events'[r] = << >> /\ Len(<< >>) = 0 /\ w.end # "open"
      BY <1>2, <1>6
    <2>2. w.end = "done" => pc'[r] = "done" /\ Matches(r, Picture(view[r]))'
      <3>1. ASSUME w.end = "done" PROVE pc[r] = "done" /\ Picture(w) = Picture(v)
        BY <1>6, <3>1
      <3> QED
        BY <1>3, <1>7, <1>9, <3>1 DEF Matches
    <2> QED
      BY <1>7, <1>10, <2>1, <2>2 DEF Follows
  <1>12. ASSUME NEW s \in Followed, s # r
         PROVE  Follows(s)'
    <2>1. Follows(s)
      BY DEF StreamIInv, FollowInv
    <2> QED
      BY <1>2, <1>3, <1>7, <1>12, <2>1, FollowsStays
  <1> QED
    BY <1>8, <1>11, <1>12 DEF StreamIInv, FollowInv

LEMMA StreamStep == IInv /\ StreamIInv /\ [StreamNext]_streamVars => StreamIInv'
  <1> SUFFICES ASSUME IInv, StreamIInv, [StreamNext]_streamVars
               PROVE  StreamIInv'
    OBVIOUS
  <1>1. CASE \E r \in Runs : GraphStep(r)
    BY <1>1, GraphFollowed
  <1>2. CASE \E r \in Followed : TakeEvent(r) \/ SendLast(r)
    BY <1>2, EventFollowed, LastFollowed
  <1>3. CASE Expiry \/ UNCHANGED streamVars
    <2>1. /\ pc' = pc /\ iteration_count' = iteration_count /\ quality_score' = quality_score
          /\ disclaimer' = disclaimer /\ events' = events /\ view' = view
          /\ current_iteration' = current_iteration
      BY <1>3 DEF Expiry, LoopSetExpires, streamVars, vars, channels, redis, stream
    <2>2. TypeOK'
      BY <1>3, TypeStep DEF Expiry, streamVars, Next, IInv
    <2>3. StreamTypeOK'
      BY <2>1, <2>2 DEF StreamIInv, StreamTypeOK
    <2>4. \A s \in Followed : Follows(s)'
      BY <2>1, FollowsStays DEF StreamIInv, FollowInv
    <2> QED
      BY <2>3, <2>4 DEF StreamIInv, FollowInv
  <1> QED
    BY <1>1, <1>2, <1>3 DEF StreamNext

(* The inductive invariant of the followed graph.                          *)
THEOREM StreamInvariant == StreamSpec => [](IInv /\ StreamIInv)
  <1>1. StreamSpec => []IInv
    BY FollowedGraph, InductiveInvariant, PTL
  <1> QED
    BY <1>1, StreamInitInv, StreamStep, PTL DEF StreamSpec

(* The event queue, the loop's count and the readers keep their types.     *)
THEOREM StreamTypeCorrect == StreamSpec => []StreamTypeOK
  <1>1. StreamIInv => StreamTypeOK
    BY DEF StreamIInv
  <1> QED
    BY <1>1, StreamInvariant, PTL

(* A reader that has every frame of _run_graph so far shows the agent at   *)
(* work, its iteration, and in the end the score of the last iteration,    *)
(* however far the graph may be ahead of the loop in between.              *)
THEOREM PageFollowsHolds == StreamSpec => []PageFollows
  <1>1. StreamIInv => PageFollows
    <2> SUFFICES ASSUME StreamIInv, NEW r \in Followed,
                        view[r].end \in {"open", "done"}, events[r] = << >>
                 PROVE  /\ pc[r] \in _AGENT_NODES =>
                             /\ view[r].active = pc[r]
                             /\ view[r].iteration
                                  = iteration_count[r] + (IF pc[r] = "planner" THEN 1 ELSE 0)
                        /\ pc[r] = "done" =>
                             /\ view[r].active = "none"
                             /\ view[r].iteration = iteration_count[r]
                             /\ view[r].quality = quality_score[r]
      BY DEF PageFollows
    <2>1. view[r] \in Views /\ Picture(view[r]) \in Pictures
      BY StreamTyped DEF StreamIInv
    <2>2. Follows(r)
      BY DEF StreamIInv, FollowInv
    <2>3. Matches(r, Picture(view[r]))
      BY <2>1, <2>2, ReplayNone DEF Follows
    <2> QED
      BY <2>3 DEF Matches, Shown, Picture
  <1> QED
    BY <1>1, StreamInvariant, PTL

(* A PASS of scripts/eval_accuracy.py is true, wherever its stream ended:  *)
(* only a run that met the gate sends a score that passes.                 *)
THEOREM VerdictSoundHolds == StreamSpec => []VerdictSound
  <1>1. IInv /\ StreamIInv => VerdictSound
    <2> SUFFICES ASSUME IInv, StreamIInv, NEW r \in Followed
                 PROVE  /\ Passed(r) => /\ pc[r] \in {"output", "done"}
                                        /\ quality_score[r] >= Threshold
                                        /\ disclaimer[r] = "none"
                        /\ view[r].end = "done" => (Passed(r) <=> disclaimer[r] = "none")
      BY DEF VerdictSound
    <2>1. Follows(r) /\ r \in Runs
      BY FollowedAssumption DEF StreamIInv, FollowInv
    <2>2. Passed(r) => Met(r)
      BY <2>1 DEF Passed, Follows
    <2>3. ASSUME view[r].end = "done", disclaimer[r] = "none"
          PROVE  Passed(r)
      <3>1. pc[r] = "done" /\ view[r].quality = quality_score[r]
        BY <2>1, <2>3 DEF Follows, Matches, Shown, Picture
      <3>2. quality_score[r] \in Scores /\ Stands(r)
        BY <2>1 DEF IInv, TypeOK, ControlInv
      <3>3. quality_score[r] \in Int /\ Threshold \in Int
        BY <3>2, Numbers
      <3>4. ~(quality_score[r] < Threshold)
        BY <2>3, <3>1, <3>2 DEF Stands, AtNode
      <3> QED
        BY <2>3, <3>1, <3>3, <3>4 DEF Passed
    <2> QED
      BY <2>2, <2>3 DEF Met
  <1> QED
    BY <1>1, StreamInvariant, PTL
=============================================================================

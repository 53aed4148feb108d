--------------------------- MODULE ExecutorProofs ---------------------------
(***************************************************************************)
(* Proofs about the work on tasks.                                         *)
(*                                                                         *)
(* TaskRounds: the rounds of research and execution, for any set of tasks, *)
(* any acyclic plans and any number of rounds and retries.                 *)
(*                                                                         *)
(* Sandbox: running the code that a task asks for, for any number of       *)
(* processes, calls and workers, any timeouts, and any number of failures  *)
(* and of processes that scripts leave behind.  The theorems are of        *)
(* SandboxSpec, so of SandboxFairSpec too.                                 *)
(***************************************************************************)
EXTENDS TaskRounds, Sandbox, Integers, FiniteSetTheorems, TLAPS

(* The researcher's levels follow from what it has visited, and what it    *)
(* has visited is researched; afterwards all of the plan is.               *)
ResearchInv ==
    /\ phase = "research" => /\ visited \subseteq plan.ids
                             /\ level = NextLevel(plan, visited)
                             /\ \A t \in visited : research_context[t] = round
    /\ phase \in {"execute", "review"} => \A t \in plan.ids : research_context[t] = round

(* The executor's task is of the current level; the level has not been     *)
(* visited but all that it depends on has, and when it is empty there is   *)
(* no next one.                                                            *)
LevelInv ==
    /\ task # NoTask => phase = "execute" /\ task \in level
    /\ phase = "execute" => /\ visited \subseteq plan.ids
                            /\ level \subseteq NextLevel(plan, visited)
                            /\ level = {} => NextLevel(plan, visited) = {}

(* A task that was visited is done exactly when its output is of this      *)
(* round; all other outputs are of earlier rounds.                         *)
OutputInv ==
    /\ \A t \in Tasks : execution_output[t] <= round
    /\ phase \in {"research", "execute"} => \A t \in Tasks : execution_output[t] < round
    /\ phase = "execute" =>
         /\ \A t \in visited : status[t] # "pending" /\ (status[t] = "done" <=> outputs[t] = round)
         /\ \A t \in Tasks : outputs[t] <= round
         /\ \A t \in Tasks \ visited : outputs[t] < round
    /\ phase = "review" =>
         \A t \in plan.ids : status[t] # "pending" /\ (status[t] = "done" <=> execution_output[t] = round)

IInv == TypeOK /\ ResearchInv /\ LevelInv /\ OutputInv

-----------------------------------------------------------------------------
(* A plan that passed validate_task_dag, or none.                          *)
LEMMA PlanFacts ==
    ASSUME NEW p \in Plans \cup {EmptyPlan}
    PROVE  /\ p.ids \in SUBSET Tasks
           /\ p.depends_on \in [Tasks -> SUBSET Tasks]
           /\ \A S \in SUBSET p.ids : S # {} => \E t \in S : p.depends_on[t] \cap S = {}
           /\ \A t \in p.ids : p.depends_on[t] \subseteq p.ids
  <1>1. CASE p \in Plans
    <2>1. p \in [ids : SUBSET Tasks, depends_on : [Tasks -> SUBSET Tasks]]
      BY <1>1, PlanAssumption
    <2> QED
      BY <1>1, <2>1, PlanAssumption
  <1>2. CASE p = EmptyPlan
    BY <1>2 DEF EmptyPlan
  <1> QED
    BY <1>1, <1>2

(* topological_sort stops only when every task has been released.          *)
LEMMA NoneLeft ==
    ASSUME NEW p \in Plans \cup {EmptyPlan}, NEW S \in SUBSET p.ids, NextLevel(p, S) = {}
    PROVE  S = p.ids
  <1>1. SUFFICES ASSUME p.ids \ S # {} PROVE FALSE
    OBVIOUS
  <1>2. PICK t \in p.ids \ S : p.depends_on[t] \cap (p.ids \ S) = {}
    <2>1. p.ids \ S \in SUBSET p.ids
      OBVIOUS
    <2>2. \A X \in SUBSET p.ids : X # {} => \E t \in X : p.depends_on[t] \cap X = {}
      BY PlanFacts
    <2> QED
      BY <1>1, <2>1, <2>2
  <1>3. p.depends_on[t] \subseteq S
    BY <1>2, PlanFacts
  <1> QED
    BY <1>2, <1>3 DEF NextLevel

(* The initial state satisfies the inductive invariant.                    *)
LEMMA InitIInv == Init => IInv
  <1> SUFFICES ASSUME Init PROVE IInv
    OBVIOUS
  <1>1. TypeOK
    BY BoundAssumption DEF Init, TypeOK
  <1>2. ResearchInv /\ LevelInv
    BY DEF Init, ResearchInv, LevelInv
  <1>3. OutputInv
    BY DEF Init, OutputInv
  <1> QED
    BY <1>1, <1>2, <1>3 DEF IInv

(* A plan is made, or the old one kept.                                    *)
LEMMA PlanStep ==
    ASSUME IInv, NEW p \in Plans \cup {EmptyPlan}, NEW fresh \in BOOLEAN, Plan(p, fresh)
    PROVE  IInv'
  <1>1. /\ phase = "planning" /\ phase' = "research" /\ plan' = p /\ round' = round + 1
        /\ visited' = {} /\ level' = NextLevel(p, {})
        /\ UNCHANGED <<research_context, execution_output, outputs, task, attempt, prompt>>
    BY DEF Plan
  <1>2. round \in Nat /\ round' \in 0..MaxRounds
    BY BoundAssumption DEF Plan, IInv, TypeOK
  <1>3. TypeOK'
    <2>1. NextLevel(p, {}) \in SUBSET Tasks
      BY PlanFacts DEF NextLevel
    <2>2. status' \in [Tasks -> {"pending", "done", "failed"}]
      BY DEF Plan, IInv, TypeOK
    <2> QED
      BY <1>1, <1>2, <2>1, <2>2 DEF IInv, TypeOK
  <1>4. ResearchInv' /\ LevelInv'
    BY <1>1 DEF IInv, ResearchInv, LevelInv
  <1>5. OutputInv'
    <2>1. ASSUME NEW t \in Tasks PROVE execution_output[t] < round + 1 /\ execution_output[t] <= round + 1
      BY <1>2 DEF IInv, OutputInv, TypeOK
    <2> QED
      BY <1>1, <2>1 DEF OutputInv
  <1> QED
    BY <1>3, <1>4, <1>5 DEF IInv

(* A level is researched.                                                  *)
LEMMA ResearchLevelStep == ASSUME IInv, ResearchLevel PROVE IInv'
  <1>1. /\ phase = "research" /\ visited' = visited \cup level /\ level' = NextLevel(plan, visited')
        /\ research_context' = [t \in Tasks |-> IF t \in level THEN round ELSE research_context[t]]
        /\ UNCHANGED <<phase, round, plan, status, execution_output, outputs, task, attempt, prompt>>
    BY DEF ResearchLevel, llm
  <1>2. visited \subseteq plan.ids /\ level \subseteq plan.ids /\ plan.ids \subseteq Tasks
    BY <1>1, PlanFacts DEF IInv, TypeOK, ResearchInv, NextLevel
  <1>3. TypeOK'
    <2>1. research_context' \in [Tasks -> 0..MaxRounds]
      BY <1>1 DEF IInv, TypeOK
    <2>2. visited' \in SUBSET Tasks /\ level' \in SUBSET Tasks
      BY <1>1, <1>2 DEF NextLevel
    <2> QED
      BY <1>1, <2>1, <2>2 DEF IInv, TypeOK
  <1>4. ResearchInv'
    <2>1. \A t \in visited' : research_context'[t] = round
      BY <1>1, <1>2 DEF IInv, ResearchInv
    <2> QED
      BY <1>1, <1>2, <2>1 DEF ResearchInv
  <1>5. LevelInv' /\ OutputInv'
    BY <1>1 DEF IInv, LevelInv, OutputInv
  <1> QED
    BY <1>3, <1>4, <1>5 DEF IInv

(* The researcher returns: nothing of the plan is left.                    *)
LEMMA ResearchDoneStep == ASSUME IInv, ResearchDone PROVE IInv'
  <1>1. /\ phase = "research" /\ level = {} /\ phase' = "execute" /\ outputs' = execution_output
        /\ visited' = {} /\ level' = NextLevel(plan, {})
        /\ UNCHANGED <<round, plan, status, research_context, execution_output, task, attempt, prompt>>
    BY DEF ResearchDone, llm
  <1>2. visited = plan.ids
    BY <1>1, NoneLeft DEF IInv, TypeOK, ResearchInv
  <1>3. TypeOK'
    <2>1. level' \in SUBSET Tasks
      BY <1>1, PlanFacts DEF IInv, TypeOK, NextLevel
    <2> QED
      BY <1>1, <2>1 DEF IInv, TypeOK
  <1>4. ResearchInv'
    BY <1>1, <1>2 DEF IInv, ResearchInv
  <1>5. LevelInv'
    BY <1>1 DEF IInv, LevelInv
  <1>6. OutputInv'
    BY <1>1 DEF IInv, OutputInv
  <1> QED
    BY <1>3, <1>4, <1>5, <1>6 DEF IInv

(* A task is begun, or its call repeated.                                  *)
LEMMA BeginOrRetryStep ==
    ASSUME IInv, Retry \/ \E t \in Tasks : BeginTask(t)
    PROVE  IInv'
  <1>1. /\ UNCHANGED <<phase, round, plan, status, research_context, execution_output, outputs,
                       visited, level>>
        /\ task' \in Tasks /\ task' \in level /\ phase = "execute"
    BY DEF Retry, BeginTask, Ready, IInv, TypeOK, LevelInv
  <1>2. attempt' \in 0..MaxRetries
    BY BoundAssumption DEF Retry, BeginTask, IInv, TypeOK
  <1>3. prompt' \in [Tasks -> 0..MaxRounds]
    <2>1. 0 \in 0..MaxRounds
      BY BoundAssumption
    <2> QED
      BY <2>1 DEF Retry, BeginTask, IInv, TypeOK
  <1>4. TypeOK'
    BY <1>1, <1>2, <1>3 DEF IInv, TypeOK
  <1>5. ResearchInv' /\ LevelInv' /\ OutputInv'
    BY <1>1 DEF IInv, ResearchInv, LevelInv, OutputInv
  <1> QED
    BY <1>4, <1>5 DEF IInv

(* A task ends: the last one of its level releases the next level.         *)
LEMMA EndTaskStep == ASSUME IInv, TaskFails \/ TaskDone PROVE IInv'
  <1>1. /\ task # NoTask /\ task \in Tasks /\ phase = "execute" /\ task \in level
        /\ visited \subseteq plan.ids /\ level \subseteq NextLevel(plan, visited)
    BY DEF TaskFails, TaskDone, EndTask, IInv, TypeOK, LevelInv
  <1>2. /\ visited' = visited \cup {task}
        /\ level' = IF level = {task} THEN NextLevel(plan, visited') ELSE level \ {task}
        /\ task' = NoTask /\ attempt' = 0 /\ prompt' = [t \in Tasks |-> 0]
        /\ UNCHANGED <<phase, round, plan, research_context, execution_output>>
    BY DEF TaskFails, TaskDone, EndTask
  <1>3. /\ \A t \in Tasks : t # task => status'[t] = status[t] /\ outputs'[t] = outputs[t]
        /\ \/ status'[task] = "failed" /\ outputs'[task] = outputs[task]
           \/ status'[task] = "done" /\ outputs'[task] = round
        /\ status' \in [Tasks -> {"pending", "done", "failed"}]
        /\ outputs' \in [Tasks -> 0..MaxRounds]
    BY <1>1 DEF TaskFails, TaskDone, EndTask, IInv, TypeOK
  <1>4. task \in plan.ids \ visited /\ plan.ids \subseteq Tasks
    BY <1>1, PlanFacts DEF NextLevel, IInv, TypeOK
  <1>5. TypeOK'
    <2>1. visited' \in SUBSET Tasks /\ level' \in SUBSET Tasks
      BY <1>1, <1>2, <1>4 DEF NextLevel, IInv, TypeOK
    <2>2. attempt' \in 0..MaxRetries /\ prompt' \in [Tasks -> 0..MaxRounds] /\ task' \in Tasks \cup {NoTask}
      BY <1>2, BoundAssumption
    <2> QED
      BY <1>2, <1>3, <2>1, <2>2 DEF IInv, TypeOK
  <1>6. ResearchInv'
    BY <1>1, <1>2 DEF IInv, ResearchInv
  <1>7. LevelInv'
    <2>1. visited' \subseteq plan.ids
      BY <1>1, <1>2, <1>4
    <2>2. level' \subseteq NextLevel(plan, visited')
      BY <1>1, <1>2 DEF NextLevel
    <2>3. level' = {} => NextLevel(plan, visited') = {}
      BY <1>1, <1>2
    <2> QED
      BY <1>1, <1>2, <2>1, <2>2, <2>3 DEF LevelInv
  <1>8. OutputInv'
    <2>1. round \in Nat /\ outputs[task] < round /\ \A t \in Tasks : outputs[t] \in Nat
      BY <1>1, <1>4, BoundAssumption DEF IInv, TypeOK, OutputInv
    <2>2. ASSUME NEW t \in visited'
          PROVE  status'[t] # "pending" /\ (status'[t] = "done" <=> outputs'[t] = round)
      BY <1>1, <1>2, <1>3, <1>4, <2>1 DEF IInv, OutputInv
    <2>3. ASSUME NEW t \in Tasks PROVE outputs'[t] <= round /\ (t \notin visited' => outputs'[t] < round)
      BY <1>1, <1>2, <1>3, <2>1 DEF IInv, OutputInv
    <2> QED
      BY <1>1, <1>2, <2>2, <2>3 DEF IInv, OutputInv
  <1> QED
    BY <1>5, <1>6, <1>7, <1>8 DEF IInv

(* The node raises.                                                        *)
LEMMA RaiseStep == ASSUME IInv, NotAnObject PROVE IInv'
  <1>1. /\ phase' = "raised" /\ task' = NoTask
        /\ UNCHANGED <<round, plan, status, research_context, execution_output, outputs, visited,
                       level, attempt, prompt>>
    BY DEF NotAnObject
  <1> QED
    BY <1>1 DEF IInv, TypeOK, ResearchInv, LevelInv, OutputInv

(* The executor returns: it has visited the whole plan.                    *)
LEMMA ExecuteDoneStep == ASSUME IInv, ExecuteDone PROVE IInv'
  <1>1. /\ phase = "execute" /\ phase' = "review" /\ level = {} /\ task = NoTask
        /\ execution_output' = outputs
        /\ UNCHANGED <<round, plan, status, research_context, outputs, visited, level, task, attempt,
                       prompt>>
    BY DEF ExecuteDone, llm
  <1>2. visited = plan.ids
    BY <1>1, NoneLeft DEF IInv, TypeOK, LevelInv
  <1>3. TypeOK' /\ ResearchInv' /\ LevelInv'
    BY <1>1 DEF IInv, TypeOK, ResearchInv, LevelInv
  <1>4. OutputInv'
    BY <1>1, <1>2 DEF IInv, OutputInv
  <1> QED
    BY <1>3, <1>4 DEF IInv

-----------------------------------------------------------------------------
(* Every step keeps the inductive invariant.                               *)
LEMMA IInvStep == IInv /\ [Next]_vars => IInv'
  <1> SUFFICES ASSUME IInv, [Next]_vars PROVE IInv'
    OBVIOUS
  <1>1. CASE NewPlan
    BY <1>1, PlanStep DEF NewPlan
  <1>2. CASE OldPlan
    <2>1. plan \in Plans \cup {EmptyPlan}
      BY DEF IInv, TypeOK
    <2> QED
      BY <1>2, <2>1, PlanStep DEF OldPlan
  <1>3. CASE NodeStep
    BY <1>3, ResearchLevelStep, ResearchDoneStep, BeginOrRetryStep, EndTaskStep, RaiseStep, ExecuteDoneStep
       DEF NodeStep
  <1>4. CASE Replan
    BY <1>4 DEF Replan, llm, IInv, TypeOK, ResearchInv, LevelInv, OutputInv
  <1>5. CASE UNCHANGED vars
    BY <1>5 DEF vars, IInv, TypeOK, ResearchInv, LevelInv, OutputInv
  <1> QED
    BY <1>1, <1>2, <1>3, <1>4, <1>5 DEF Next

(* The inductive invariant always holds.                                   *)
THEOREM Inductive == Spec => []IInv
  BY InitIInv, IInvStep, PTL DEF Spec

(* Type correctness of the rounds.                                         *)
THEOREM TypeCorrect == Spec => []TypeOK
  <1>1. IInv => TypeOK
    BY DEF IInv
  <1> QED
    BY <1>1, Inductive, PTL

(* The executor gives a task to the LLM only after all it depends on.      *)
THEOREM DependenciesFirstHolds == Spec => []DependenciesFirst
  <1>1. IInv => DependenciesFirst
    BY DEF IInv, LevelInv, NextLevel, DependenciesFirst
  <1> QED
    BY <1>1, Inductive, PTL

(* Every round researches and executes its whole plan, and a task is done  *)
(* exactly when its output is of the round.                                *)
THEOREM RoundAccountedHolds == Spec => []RoundAccounted
  <1>1. IInv => RoundAccounted
    BY DEF IInv, ResearchInv, OutputInv, RoundAccounted
  <1> QED
    BY <1>1, Inductive, PTL

-----------------------------------------------------------------------------
(* Sandbox.                                                                *)

(* The queue holds the queued calls, each once.                            *)
QueueInv ==
    /\ \A i \in DOMAIN queue : job[queue[i]] = "queued"
    /\ \A i, j \in DOMAIN queue : queue[i] = queue[j] => i = j
    /\ \A c \in Calls : job[c] = "queued" => \E i \in DOMAIN queue : queue[i] = c

(* Calls whose script file no finally clause removes.                      *)
Failed == {c \in Calls : job[c] \in {"raised", "exception"}}

FilesInv ==
    /\ files \subseteq Busy \cup Failed
    /\ Cardinality(Busy) <= Workers
    /\ Cardinality(Failed) <= failures

(* While every process can have a worker and nothing goes wrong, a call    *)
(* that is not answered has a process that waits for it, and it waits only *)
(* while the script runs.                                                  *)
Orderly == Cardinality(Processes) <= Workers /\ orphans = 0 /\ failures = 0

OrderlyInv ==
    Orderly =>
        /\ held = {}
        /\ \A c \in Calls :
            /\ job[c] \in {"queued", "spawn", "wait", "drain"} => Waiting(c)
            /\ job[c] \notin {"raised", "dropped"}
            /\ Waiting(c) => job[c] # "none"
            /\ age[c] = ran[c]
            /\ result[c] # "rpc_error"

SandboxIInv == SandboxTypeOK /\ QueueInv /\ FilesInv /\ OrderlyInv

LEMMA SandboxInitIInv == SandboxInit => SandboxIInv
  <1> SUFFICES ASSUME SandboxInit PROVE SandboxIInv
    OBVIOUS
  <1>1. 0 \in 0..Deadline /\ 0 \in 0..Timeout /\ 0 \in 0..MaxOrphans /\ 0 \in 0..MaxFailures
    BY SandboxAssumption DEF Deadline
  <1>2. SandboxTypeOK
    BY <1>1 DEF SandboxInit, SandboxTypeOK
  <1>3. QueueInv
    BY DEF SandboxInit, QueueInv
  <1>4. FilesInv
    <2>1. Busy = {} /\ Failed = {}
      BY DEF SandboxInit, Busy, Failed
    <2> QED
      BY <2>1, FS_EmptySet, SandboxAssumption DEF SandboxInit, FilesInv
  <1>5. OrderlyInv
    BY SandboxAssumption DEF SandboxInit, OrderlyInv, Waiting
  <1> QED
    BY <1>2, <1>3, <1>4, <1>5 DEF SandboxIInv

(* The request at the head of the queue.                                   *)
LEMMA HeadOfQueue ==
    ASSUME SandboxTypeOK, QueueInv, queue # << >>
    PROVE  /\ Head(queue) \in Calls /\ job[Head(queue)] = "queued"
           /\ Tail(queue) \in Seq(Calls) /\ Len(queue) \in Nat
           /\ DOMAIN queue = 1..Len(queue) /\ DOMAIN Tail(queue) = 1..(Len(queue) - 1)
           /\ \A i \in DOMAIN Tail(queue) : Tail(queue)[i] = queue[i + 1]
           /\ Head(queue) = queue[1] /\ 1 \in DOMAIN queue
  <1>1. queue \in Seq(Calls)
    BY DEF SandboxTypeOK
  <1>2. Len(queue) \in Nat /\ DOMAIN queue = 1..Len(queue) /\ Len(queue) # 0
    BY <1>1
  <1>3. Head(queue) = queue[1] /\ 1 \in DOMAIN queue
    BY <1>1, <1>2
  <1>4. /\ Tail(queue) \in Seq(Calls) /\ DOMAIN Tail(queue) = 1..(Len(queue) - 1)
        /\ \A i \in DOMAIN Tail(queue) : Tail(queue)[i] = queue[i + 1]
    BY <1>1, <1>2
  <1>5. queue[1] \in Calls /\ job[queue[1]] = "queued"
    BY <1>1, <1>3 DEF QueueInv
  <1> QED
    BY <1>2, <1>3, <1>4, <1>5

(* Taking it, whatever becomes of its job.                                 *)
LEMMA TakeKeepsQueue ==
    ASSUME SandboxTypeOK, QueueInv, queue # << >>, queue' = Tail(queue),
           NEW x, x # "queued", job' = [job EXCEPT ![Head(queue)] = x]
    PROVE  QueueInv'
  <1> DEFINE c == Head(queue)
             n == Len(queue)
             T == Tail(queue)
  <1>1. /\ c \in Calls /\ n \in Nat /\ DOMAIN queue = 1..n /\ DOMAIN T = 1..(n - 1)
        /\ \A i \in DOMAIN T : T[i] = queue[i + 1]
        /\ c = queue[1] /\ 1 \in DOMAIN queue
    BY HeadOfQueue
  <1>2. job'[c] = x /\ \A d \in Calls \ {c} : job'[d] = job[d]
    BY <1>1 DEF SandboxTypeOK
  <1>3. \A i \in DOMAIN queue : queue[i] \in Calls /\ job[queue[i]] = "queued"
    BY DEF SandboxTypeOK, QueueInv
  <1>4. \A i, j \in DOMAIN queue : queue[i] = queue[j] => i = j
    BY DEF QueueInv
  <1>5. \A d \in Calls : job[d] = "queued" => \E i \in DOMAIN queue : queue[i] = d
    BY DEF QueueInv
  <1> HIDE DEF c, n, T
  <1>6. \A i \in DOMAIN T : i + 1 \in DOMAIN queue /\ i \in Nat /\ T[i] # c
    BY <1>1, <1>4
  <1>7. \A i \in DOMAIN T : job'[T[i]] = "queued"
    BY <1>1, <1>2, <1>3, <1>6
  <1>8. \A i, j \in DOMAIN T : T[i] = T[j] => i = j
    BY <1>1, <1>4, <1>6
  <1>9. ASSUME NEW d \in Calls, job'[d] = "queued" PROVE \E i \in DOMAIN T : T[i] = d
    <2>1. d # c
      BY <1>2, <1>9
    <2>2. job[d] = "queued"
      BY <1>2, <1>9, <2>1
    <2>3. PICK i \in DOMAIN queue : queue[i] = d
      BY <1>5, <2>2
    <2>4. i - 1 \in DOMAIN T /\ (i - 1) + 1 = i
      BY <1>1, <2>1, <2>3
    <2> QED
      BY <1>1, <2>3, <2>4
  <1>10. queue' = T
    BY DEF T
  <1> QED
    BY <1>7, <1>8, <1>9, <1>10 DEF QueueInv

(* Other steps of the server leave the queue, and the queued calls.        *)
LEMMA WorkKeepsQueue ==
    ASSUME SandboxTypeOK, QueueInv, queue' = queue, NEW c \in Calls, job[c] # "queued",
           NEW x, x # "queued", job' = [job EXCEPT ![c] = x]
    PROVE  QueueInv'
  <1>1. job'[c] = x /\ \A d \in Calls \ {c} : job'[d] = job[d]
    BY DEF SandboxTypeOK
  <1>2. \A i \in DOMAIN queue : queue[i] \in Calls
    BY DEF SandboxTypeOK
  <1> QED
    BY <1>1, <1>2 DEF QueueInv

LEMMA CallKeepsQueue ==
    ASSUME SandboxTypeOK, QueueInv, NEW p \in Processes, NEW c \in Calls, execute_code(p, c)
    PROVE  QueueInv'
  <1> DEFINE n == Len(queue)
  <1>1. /\ queue \in Seq(Calls) /\ n \in Nat /\ DOMAIN queue = 1..n
        /\ \A i \in DOMAIN queue : queue[i] \in Calls
    BY DEF SandboxTypeOK
  <1>2. /\ job[c] = "none" /\ job'[c] = "queued" /\ \A d \in Calls \ {c} : job'[d] = job[d]
    BY DEF SandboxTypeOK, execute_code
  <1>3. /\ DOMAIN queue' = 1..(n + 1) /\ queue'[n + 1] = c
        /\ \A i \in DOMAIN queue : queue'[i] = queue[i]
    BY <1>1 DEF execute_code
  <1>4. \A i \in DOMAIN queue : queue[i] # c
    BY <1>2 DEF QueueInv
  <1>5. \A i \in DOMAIN queue' : i \in DOMAIN queue \/ i = n + 1
    BY <1>1, <1>3
  <1>6. DOMAIN queue \subseteq DOMAIN queue' /\ n + 1 \in DOMAIN queue'
    BY <1>1, <1>3
  <1> HIDE DEF n
  <1>7. \A i \in DOMAIN queue' : job'[queue'[i]] = "queued"
    BY <1>1, <1>2, <1>3, <1>4, <1>5 DEF QueueInv
  <1>8. \A i, j \in DOMAIN queue' : queue'[i] = queue'[j] => i = j
    BY <1>3, <1>4, <1>5 DEF QueueInv
  <1>9. \A d \in Calls : job'[d] = "queued" => \E i \in DOMAIN queue' : queue'[i] = d
    BY <1>2, <1>3, <1>6 DEF QueueInv
  <1> QED
    BY <1>7, <1>8, <1>9 DEF QueueInv

LEMMA QueueStep ==
    ASSUME SandboxTypeOK, QueueInv, [SandboxNext]_sandboxVars
    PROVE  QueueInv'
  <1> USE DEF client, bounds
  <1>1. CASE UNCHANGED <<queue, job>>
    BY <1>1 DEF QueueInv
  <1>2. ASSUME NEW c \in Calls, ServerStep(c) PROVE QueueInv'
    <2>1. CASE WriteScript(c) \/ DropRequest(c) \/ WriteFails(c)
      BY <2>1, TakeKeepsQueue DEF WriteScript, DropRequest, WriteFails
    <2>2. CASE Popen(c) \/ PopenRaises(c) \/ Communicate(c) \/ Kill(c) \/ Drained(c)
      BY <2>2, WorkKeepsQueue DEF Popen, PopenRaises, Communicate, Kill, Drained
    <2> QED
      BY <1>2, <2>1, <2>2 DEF ServerStep
  <1>3. ASSUME NEW p \in Processes, ClientStep(p) PROVE UNCHANGED <<queue, job>>
    BY <1>3 DEF ClientStep, Receive, DeadlineExceeded, Return
  <1>4. ASSUME NEW c \in Calls, ScriptForks(c) \/ ScriptExits(c) \/ PipesClose(c)
        PROVE  UNCHANGED <<queue, job>>
    BY <1>4 DEF ScriptForks, ScriptExits, PipesClose
  <1>5. CASE Tick \/ UNCHANGED sandboxVars
    BY <1>1, <1>5 DEF Tick, sandboxVars
  <1> QED
    BY <1>1, <1>2, <1>3, <1>4, <1>5, CallKeepsQueue DEF SandboxNext

(* Type correctness: time does not go beyond a timeout, since what is due  *)
(* then comes first.                                                       *)
LEMMA TickType == ASSUME SandboxTypeOK, Tick PROVE SandboxTypeOK'
  <1>1. /\ age \in [Calls -> 0..Deadline] /\ ran \in [Calls -> 0..Timeout]
        /\ Deadline \in Nat /\ Timeout \in Nat
    BY SandboxAssumption DEF SandboxTypeOK, Deadline
  <1>2. \A c \in Calls : Waiting(c) => age[c] # Deadline
    BY SandboxAssumption DEF Tick, Due, Waiting
  <1>3. \A c \in Calls : job[c] = "wait" => ran[c] # Timeout
    BY DEF Tick, Due
  <1>4. \A c \in Calls : (IF Waiting(c) THEN age[c] + 1 ELSE age[c]) \in 0..Deadline
    BY <1>1, <1>2
  <1>5. \A c \in Calls : (IF job[c] = "wait" THEN ran[c] + 1 ELSE ran[c]) \in 0..Timeout
    BY <1>1, <1>3
  <1>6. age' \in [Calls -> 0..Deadline] /\ ran' \in [Calls -> 0..Timeout]
    BY <1>4, <1>5 DEF Tick
  <1> QED
    BY <1>6 DEF Tick, SandboxTypeOK, bounds

LEMMA SandboxTypeStep ==
    ASSUME SandboxTypeOK, QueueInv, [SandboxNext]_sandboxVars
    PROVE  SandboxTypeOK'
  <1> USE DEF client, bounds
  <1>1. CASE UNCHANGED sandboxVars
    BY <1>1 DEF sandboxVars, SandboxTypeOK
  <1>2. ASSUME NEW p \in Processes, NEW c \in Calls, execute_code(p, c) PROVE SandboxTypeOK'
    BY <1>2 DEF execute_code, SandboxTypeOK
  <1>3. ASSUME NEW p \in Processes, ClientStep(p) PROVE SandboxTypeOK'
    <2>1. blocked[p] \in Calls
      BY <1>3 DEF ClientStep, Receive, DeadlineExceeded, SandboxTypeOK
    <2>2. PICK r \in Answers \cup {"rpc_error"} : Return(p, r)
      BY <1>3 DEF ClientStep, Receive, DeadlineExceeded, Outcome
    <2> QED
      BY <2>1, <2>2 DEF Return, SandboxTypeOK
  <1>4. ASSUME NEW c \in Calls, ServerStep(c) PROVE SandboxTypeOK'
    <2>1. CASE WriteScript(c)
      BY <2>1, HeadOfQueue DEF WriteScript, SandboxTypeOK
    <2>2. CASE DropRequest(c)
      BY <2>2, HeadOfQueue DEF DropRequest, SandboxTypeOK
    <2>3. CASE WriteFails(c)
      <3>1. failures' \in 0..MaxFailures
        BY <2>3, SandboxAssumption DEF WriteFails, SandboxTypeOK
      <3> QED
        BY <2>3, <3>1, HeadOfQueue DEF WriteFails, SandboxTypeOK
    <2>4. CASE Popen(c)
      BY <2>4 DEF Popen, SandboxTypeOK
    <2>5. CASE PopenRaises(c)
      <3>1. failures' \in 0..MaxFailures
        BY <2>5, SandboxAssumption DEF PopenRaises, SandboxTypeOK
      <3> QED
        BY <2>5, <3>1 DEF PopenRaises, SandboxTypeOK, Answers
    <2>6. CASE Communicate(c)
      BY <2>6 DEF Communicate, Unlink, SandboxTypeOK, Answers
    <2>7. CASE Kill(c)
      BY <2>7 DEF Kill, SandboxTypeOK
    <2>8. CASE Drained(c)
      BY <2>8 DEF Drained, Unlink, SandboxTypeOK, Answers
    <2> QED
      BY <1>4, <2>1, <2>2, <2>3, <2>4, <2>5, <2>6, <2>7, <2>8 DEF ServerStep
  <1>5. ASSUME NEW c \in Calls, ScriptForks(c) \/ ScriptExits(c) \/ PipesClose(c)
        PROVE  SandboxTypeOK'
    <2>1. CASE ScriptForks(c)
      <3>1. orphans' \in 0..MaxOrphans
        BY <2>1, SandboxAssumption DEF ScriptForks, SandboxTypeOK
      <3> QED
        BY <2>1, <3>1 DEF ScriptForks, SandboxTypeOK
    <2>2. CASE ScriptExits(c) \/ PipesClose(c)
      BY <2>2 DEF ScriptExits, PipesClose, SandboxTypeOK
    <2> QED
      BY <1>5, <2>1, <2>2
  <1> QED
    BY <1>1, <1>2, <1>3, <1>4, <1>5, TickType DEF SandboxNext

-----------------------------------------------------------------------------
(* The script files.                                                       *)

LEMMA FiniteCalls == ASSUME NEW S, S \subseteq Calls PROVE IsFiniteSet(S) /\ Cardinality(S) \in Nat
  BY SandboxAssumption, FS_Subset, FS_CardinalityType

(* A step that makes no call busy and none failed.                         *)
LEMMA FilesShrink ==
    ASSUME SandboxTypeOK, FilesInv, failures' = failures,
           Busy' \subseteq Busy, Failed' \subseteq Failed, files' \subseteq Busy' \cup Failed'
    PROVE  FilesInv'
  <1>1. Busy \subseteq Calls /\ Failed \subseteq Calls
    BY DEF Busy, Failed
  <1>2. Cardinality(Busy') <= Cardinality(Busy) /\ Cardinality(Failed') <= Cardinality(Failed)
    BY <1>1, FiniteCalls, FS_Subset
  <1>3. /\ Cardinality(Busy') \in Nat /\ Cardinality(Failed') \in Nat
        /\ Cardinality(Busy) \in Nat /\ Cardinality(Failed) \in Nat /\ Workers \in Nat
        /\ failures \in Nat
    BY <1>1, FiniteCalls, SandboxAssumption DEF SandboxTypeOK
  <1> QED
    BY <1>2, <1>3 DEF FilesInv

(* A failure.                                                              *)
LEMMA FilesFail ==
    ASSUME SandboxTypeOK, FilesInv, NEW c \in Calls, failures' = failures + 1,
           Busy' \subseteq Busy, Failed' \subseteq Failed \cup {c},
           files' \subseteq Busy' \cup Failed'
    PROVE  FilesInv'
  <1>1. Busy \subseteq Calls /\ Failed \subseteq Calls /\ Failed \cup {c} \subseteq Calls
    BY DEF Busy, Failed
  <1>2. /\ Cardinality(Busy') <= Cardinality(Busy)
        /\ Cardinality(Failed') <= Cardinality(Failed \cup {c})
        /\ Cardinality(Failed \cup {c}) <= Cardinality(Failed) + 1
    <2>1. Cardinality(Failed \cup {c}) <= Cardinality(Failed) + 1
      BY <1>1, FiniteCalls, FS_AddElement
    <2> QED
      BY <1>1, <2>1, FiniteCalls, FS_Subset
  <1>3. /\ Cardinality(Busy') \in Nat /\ Cardinality(Failed') \in Nat
        /\ Cardinality(Busy) \in Nat /\ Cardinality(Failed) \in Nat /\ Workers \in Nat
        /\ failures \in Nat /\ Cardinality(Failed \cup {c}) \in Nat
    BY <1>1, FiniteCalls, SandboxAssumption DEF SandboxTypeOK
  <1> QED
    BY <1>2, <1>3 DEF FilesInv

LEMMA FilesStep ==
    ASSUME SandboxTypeOK, QueueInv, FilesInv, [SandboxNext]_sandboxVars
    PROVE  FilesInv'
  <1> USE DEF client, bounds
  <1>1. CASE UNCHANGED <<files, job, failures>>
    BY <1>1 DEF FilesInv, Busy, Failed
  <1>2. files \subseteq Busy \cup Failed /\ job \in [Calls -> {"none", "queued", "spawn", "wait",
             "drain", "raised", "dropped"} \cup Answers]
    BY DEF FilesInv, SandboxTypeOK
  <1>3. ASSUME NEW p \in Processes, NEW c \in Calls, execute_code(p, c) PROVE FilesInv'
    <2>1. /\ job[c] = "none" /\ job' = [job EXCEPT ![c] = "queued"] /\ files' = files
          /\ failures' = failures
      BY <1>3 DEF execute_code
    <2>2. Busy' = Busy /\ Failed' = Failed
      BY <1>2, <2>1 DEF Busy, Failed
    <2> QED
      BY <1>2, <2>1, <2>2, FilesShrink
  <1>4. ASSUME NEW c \in Calls, WriteScript(c) PROVE FilesInv'
    <2>1. /\ job[c] = "queued" /\ job' = [job EXCEPT ![c] = "spawn"] /\ files' = files \cup {c}
          /\ failures' = failures /\ Cardinality(Busy) < Workers
      BY <1>4, HeadOfQueue DEF WriteScript
    <2>2. Busy' = Busy \cup {c} /\ Failed' = Failed
      BY <1>2, <2>1 DEF Busy, Failed
    <2>3. Busy \subseteq Calls
      BY DEF Busy
    <2>4. Cardinality(Busy') <= Cardinality(Busy) + 1 /\ Cardinality(Busy) \in Nat
          /\ Cardinality(Busy') \in Nat
      <3>1. IsFiniteSet(Busy) /\ Cardinality(Busy) \in Nat
        BY <2>3, FiniteCalls
      <3> QED
        BY <2>2, <3>1, FS_AddElement
    <2>5. Cardinality(Busy') <= Workers
      BY <2>1, <2>4, SandboxAssumption
    <2> QED
      BY <1>2, <2>1, <2>2, <2>5 DEF FilesInv
  <1>5. ASSUME NEW c \in Calls, DropRequest(c) PROVE FilesInv'
    <2>1. /\ job[c] = "queued" /\ job' = [job EXCEPT ![c] = "dropped"] /\ files' = files
          /\ failures' = failures
      BY <1>5, HeadOfQueue DEF DropRequest
    <2>2. Busy' = Busy /\ Failed' = Failed
      BY <1>2, <2>1 DEF Busy, Failed
    <2> QED
      BY <1>2, <2>1, <2>2, FilesShrink
  <1>6. ASSUME NEW c \in Calls, WriteFails(c) PROVE FilesInv'
    <2>1. /\ job[c] = "queued" /\ job' = [job EXCEPT ![c] = "raised"]
          /\ files' \subseteq files \cup {c} /\ failures' = failures + 1
      BY <1>6, HeadOfQueue DEF WriteFails
    <2>2. Busy' = Busy /\ Failed' = Failed \cup {c}
      BY <1>2, <2>1 DEF Busy, Failed
    <2> QED
      BY <1>2, <2>1, <2>2, FilesFail
  <1>7. ASSUME NEW c \in Calls, Popen(c) \/ Kill(c) PROVE FilesInv'
    <2>1. /\ job[c] \in {"spawn", "wait"} /\ files' = files /\ failures' = failures
          /\ \E x \in {"wait", "drain"} : job' = [job EXCEPT ![c] = x]
      BY <1>7 DEF Popen, Kill
    <2>2. Busy' = Busy /\ Failed' = Failed
      BY <1>2, <2>1 DEF Busy, Failed
    <2> QED
      BY <1>2, <2>1, <2>2, FilesShrink
  <1>8. ASSUME NEW c \in Calls, PopenRaises(c) PROVE FilesInv'
    <2>1. /\ job[c] = "spawn" /\ job' = [job EXCEPT ![c] = "exception"] /\ files' = files
          /\ failures' = failures + 1
      BY <1>8 DEF PopenRaises
    <2>2. Busy' = Busy \ {c} /\ Failed' = Failed \cup {c}
      BY <1>2, <2>1 DEF Busy, Failed
    <2> QED
      BY <1>2, <2>1, <2>2, FilesFail
  <1>9. ASSUME NEW c \in Calls, Communicate(c) \/ Drained(c) PROVE FilesInv'
    <2>1. /\ job[c] \in {"wait", "drain"} /\ files' = files \ {c} /\ failures' = failures
          /\ \E x \in {"success", "nonzero", "timeout"} : job' = [job EXCEPT ![c] = x]
      BY <1>9 DEF Communicate, Drained, Unlink
    <2>2. Busy' = Busy \ {c} /\ Failed' = Failed
      BY <1>2, <2>1 DEF Busy, Failed
    <2> QED
      BY <1>2, <2>1, <2>2, FilesShrink
  <1>10. ASSUME NEW p \in Processes, ClientStep(p) PROVE UNCHANGED <<files, job, failures>>
    BY <1>10 DEF ClientStep, Receive, DeadlineExceeded, Return
  <1>11. ASSUME NEW c \in Calls, ScriptForks(c) \/ ScriptExits(c) \/ PipesClose(c)
         PROVE  UNCHANGED <<files, job, failures>>
    BY <1>11 DEF ScriptForks, ScriptExits, PipesClose
  <1>12. CASE Tick \/ UNCHANGED sandboxVars
    BY <1>1, <1>12 DEF Tick, sandboxVars
  <1> QED
    BY <1>1, <1>3, <1>4, <1>5, <1>6, <1>7, <1>8, <1>9, <1>10, <1>11, <1>12
       DEF SandboxNext, ServerStep

-----------------------------------------------------------------------------
(* Who answers first.                                                      *)

(* With a worker for every process, a queued request need not wait: the    *)
(* calls that keep workers busy are those of the other processes.          *)
LEMMA WorkerFree ==
    ASSUME SandboxTypeOK, OrderlyInv, Orderly, NEW c \in Calls, job[c] = "queued"
    PROVE  Cardinality(Busy) < Workers
  <1> DEFINE B == {blocked[p] : p \in Processes}
  <1>1. IsFiniteSet(B) /\ Cardinality(B) <= Cardinality(Processes) /\ Cardinality(B) \in Nat
    <2>1. blocked \in Surjection(Processes, B)
      BY DEF SandboxTypeOK, Surjection
    <2> HIDE DEF B
    <2> QED
      BY <2>1, SandboxAssumption, FS_Surjection, FS_CardinalityType
  <1>2. Busy \cup {c} \subseteq B
    BY DEF OrderlyInv, Waiting, Busy
  <1>3. c \notin Busy /\ IsFiniteSet(Busy) /\ Cardinality(Busy) \in Nat
    BY FiniteCalls DEF Busy
  <1>4. Cardinality(Busy \cup {c}) = Cardinality(Busy) + 1
    BY <1>3, FS_AddElement
  <1> HIDE DEF B
  <1>5. Cardinality(Busy \cup {c}) <= Cardinality(B)
    BY <1>1, <1>2, FS_Subset
  <1>6. Cardinality(Processes) \in Nat /\ Cardinality(Processes) <= Workers /\ Workers \in Nat
    BY SandboxAssumption, FS_CardinalityType DEF Orderly
  <1> QED
    BY <1>1, <1>3, <1>4, <1>5, <1>6

(* Time passes for a call only while its script runs.                      *)
LEMMA TickOrderly ==
    ASSUME SandboxTypeOK, QueueInv, OrderlyInv, Orderly, Tick
    PROVE  \A c \in Calls : age'[c] = ran'[c]
  <1> SUFFICES ASSUME NEW c \in Calls PROVE age'[c] = ran'[c]
    OBVIOUS
  <1>1. /\ age'[c] = IF Waiting(c) THEN age[c] + 1 ELSE age[c]
        /\ ran'[c] = IF job[c] = "wait" THEN ran[c] + 1 ELSE ran[c]
    BY DEF Tick
  <1>2. age[c] = ran[c] /\ (job[c] = "wait" => Waiting(c)) /\ held = {}
        /\ job[c] \notin {"raised", "dropped"} /\ (Waiting(c) => job[c] # "none")
    BY DEF OrderlyInv
  <1>3. SUFFICES ASSUME Waiting(c), job[c] # "wait" PROVE FALSE
    BY <1>1, <1>2
  <1>4. ~Due
    BY DEF Tick
  <1>5. job[c] # "spawn" /\ job[c] # "drain"
    BY <1>2, <1>4 DEF Due
  <1>6. job[c] \notin Answers
    BY <1>3, <1>4, SandboxAssumption DEF Due, Waiting
  <1>7. job[c] = "queued"
    BY <1>2, <1>3, <1>5, <1>6 DEF SandboxTypeOK
  <1>8. queue # << >>
    <2>1. PICK i \in DOMAIN queue : queue[i] = c
      BY <1>7 DEF QueueInv
    <2> QED
      BY <2>1
  <1>9. Cardinality(Busy) < Workers
    BY <1>7, WorkerFree
  <1> QED
    BY <1>4, <1>8, <1>9 DEF Due

LEMMA OrderlyStep ==
    ASSUME SandboxTypeOK, QueueInv, OrderlyInv, [SandboxNext]_sandboxVars
    PROVE  OrderlyInv'
  <1> USE DEF client, bounds
  <1>1. job \in [Calls -> {"none", "queued", "spawn", "wait", "drain", "raised", "dropped"}
                          \cup Answers]
        /\ blocked \in [Processes -> Calls \cup {NoCall}]
        /\ result \in [Calls -> Answers \cup {"none", "rpc_error"}]
        /\ orphans \in Nat /\ failures \in Nat
    BY DEF SandboxTypeOK
  <1>2. CASE UNCHANGED sandboxVars
    BY <1>2 DEF sandboxVars, OrderlyInv, Orderly, Waiting
  <1>3. ASSUME NEW p \in Processes, NEW c \in Calls, execute_code(p, c) PROVE OrderlyInv'
    <2>1. /\ blocked[p] = NoCall /\ blocked'[p] = c
          /\ \A q \in Processes \ {p} : blocked'[q] = blocked[q]
      BY <1>1, <1>3 DEF execute_code
    <2>2. job'[c] = "queued" /\ \A d \in Calls \ {c} : job'[d] = job[d]
      BY <1>1, <1>3 DEF execute_code
    <2>3. Waiting(c)' /\ \A d \in Calls \ {c} : Waiting(d)' <=> Waiting(d)
      BY <2>1, SandboxAssumption DEF Waiting
    <2>4. UNCHANGED <<result, age, ran, held, bounds>>
      BY <1>3 DEF execute_code
    <2> HIDE DEF bounds
    <2>5. Orderly' => Orderly
      BY <2>4 DEF Orderly, bounds
    <2> QED
      BY <2>2, <2>3, <2>4, <2>5 DEF OrderlyInv
  <1>4. ASSUME NEW p \in Processes, ClientStep(p) PROVE OrderlyInv'
    <2> DEFINE c == blocked[p]
    <2>1. c \in Calls /\ UNCHANGED <<age, ran, job, held, orphans, failures>>
      BY <1>1, <1>4 DEF ClientStep, Receive, DeadlineExceeded, Return
    <2>2. SUFFICES ASSUME Orderly PROVE OrderlyInv'
      BY <2>1 DEF OrderlyInv, Orderly
    <2>3. /\ held = {} /\ job[c] \notin {"raised", "dropped"} /\ age[c] = ran[c]
      BY <2>1, <2>2 DEF OrderlyInv
    <2>4. Receive(p)
      <3>1. ran[c] \in 0..Timeout /\ Timeout \in Nat /\ Grace \in Nat \ {0}
        BY <2>1, SandboxAssumption DEF SandboxTypeOK
      <3>2. age[c] # Deadline
        BY <2>3, <3>1 DEF Deadline
      <3> QED
        BY <1>4, <3>2 DEF ClientStep, DeadlineExceeded
    <2>5. job[c] \in Answers /\ Return(p, job[c])
      BY <2>3, <2>4 DEF Receive, Outcome
    <2>6. /\ result'[c] = job[c] /\ \A d \in Calls \ {c} : result'[d] = result[d]
      BY <1>1, <2>1, <2>5 DEF Return
    <2>7. \A d \in Calls \ {c} : Waiting(d)' <=> Waiting(d)
      BY <1>1, <2>5, SandboxAssumption DEF Return, Waiting
    <2>8. Waiting(c)
      BY DEF Waiting
    <2> HIDE DEF c
    <2>9. \A d \in Calls : result'[d] # "rpc_error"
      BY <2>2, <2>5, <2>6 DEF Answers, OrderlyInv
    <2>10. job[c] \notin {"queued", "spawn", "wait", "drain", "none"}
      BY <2>5 DEF Answers
    <2> QED
      BY <2>1, <2>2, <2>7, <2>9, <2>10 DEF OrderlyInv
  <1>5. ASSUME NEW c \in Calls, ServerStep(c) PROVE OrderlyInv'
    <2>1. CASE WriteFails(c) \/ PopenRaises(c)
      <3>1. failures' = failures + 1
        BY <2>1 DEF WriteFails, PopenRaises
      <3> QED
        BY <1>1, <3>1 DEF OrderlyInv, Orderly
    <2>2. CASE ~(WriteFails(c) \/ PopenRaises(c))
      <3>1. UNCHANGED <<blocked, result, age, ran, held, orphans, failures>>
        BY <1>5, <2>2
           DEF ServerStep, WriteScript, DropRequest, Popen, Communicate, Kill, Drained
      <3>2. SUFFICES ASSUME Orderly PROVE OrderlyInv'
        BY <3>1 DEF OrderlyInv, Orderly
      <3>3. \A d : Waiting(d)' <=> Waiting(d)
        BY <3>1 DEF Waiting
      <3>4. job[c] \in {"queued", "spawn", "wait", "drain"}
        BY <1>5, <2>2, HeadOfQueue
           DEF ServerStep, WriteScript, DropRequest, Popen, Communicate, Kill, Drained
      <3>5. Waiting(c)
        BY <3>2, <3>4 DEF OrderlyInv
      <3>6. PICK x \in {"spawn", "wait", "drain", "success", "nonzero", "timeout"} :
              job' = [job EXCEPT ![c] = x]
        BY <1>5, <2>2, <3>5
           DEF ServerStep, WriteScript, DropRequest, Popen, Communicate, Kill, Drained
      <3>7. job'[c] = x /\ \A d \in Calls \ {c} : job'[d] = job[d]
        BY <1>1, <3>6
      <3> QED
        BY <3>1, <3>2, <3>3, <3>5, <3>7 DEF OrderlyInv
    <2> QED
      BY <2>1, <2>2
  <1>6. ASSUME NEW c \in Calls, ScriptForks(c) PROVE OrderlyInv'
    <2>1. orphans' = orphans + 1
      BY <1>6 DEF ScriptForks
    <2> QED
      BY <1>1, <2>1 DEF OrderlyInv, Orderly
  <1>7. ASSUME NEW c \in Calls, ScriptExits(c) \/ PipesClose(c) PROVE OrderlyInv'
    <2>1. UNCHANGED <<blocked, result, age, ran, job, orphans, failures>>
          /\ (held = {} => held' = {})
      BY <1>7 DEF ScriptExits, PipesClose
    <2> QED
      BY <2>1 DEF OrderlyInv, Orderly, Waiting
  <1>8. ASSUME Tick PROVE OrderlyInv'
    <2>1. UNCHANGED <<blocked, result, job, held, orphans, failures>>
      BY <1>8 DEF Tick
    <2>2. Orderly => \A c \in Calls : age'[c] = ran'[c]
      BY <1>8, TickOrderly
    <2> QED
      BY <2>1, <2>2 DEF OrderlyInv, Orderly, Waiting
  <1> QED
    BY <1>2, <1>3, <1>4, <1>5, <1>6, <1>7, <1>8 DEF SandboxNext

-----------------------------------------------------------------------------
(* The invariant holds in every state that client and server reach.        *)
THEOREM SandboxInductive == SandboxSpec => []SandboxIInv
  <1>1. SandboxIInv /\ [SandboxNext]_sandboxVars => SandboxIInv'
    BY SandboxTypeStep, QueueStep, FilesStep, OrderlyStep DEF SandboxIInv
  <1> QED
    BY <1>1, SandboxInitIInv, PTL DEF SandboxSpec

(* Type correctness of client and server.                                  *)
THEOREM SandboxTypeCorrect == SandboxSpec => []SandboxTypeOK
  <1>1. SandboxIInv => SandboxTypeOK
    BY DEF SandboxIInv
  <1> QED
    BY <1>1, SandboxInductive, PTL

(* A worker for every process, and no failures and left-over processes:    *)
(* then it is always the server that ends a call, for any timeout and any  *)
(* extra seconds of the client.                                            *)
THEOREM ServerAnswersFirstHolds == SandboxSpec => []ServerAnswersFirst
  <1>1. SandboxIInv => ServerAnswersFirst
    BY DEF SandboxIInv, OrderlyInv, Orderly, ServerAnswersFirst
  <1> QED
    BY <1>1, SandboxInductive, PTL

(* The script files in /tmp are bounded by the workers and the failures.   *)
THEOREM FilesAccountedHolds == SandboxSpec => []FilesAccounted
  <1>1. SandboxIInv => FilesAccounted
    <2> SUFFICES ASSUME SandboxIInv PROVE FilesAccounted
      OBVIOUS
    <2>1. Busy \subseteq Calls /\ Failed \subseteq Calls /\ files \subseteq Busy \cup Failed
      BY DEF SandboxIInv, FilesInv, Busy, Failed
    <2>2. /\ IsFiniteSet(Busy) /\ IsFiniteSet(Failed) /\ IsFiniteSet(files)
          /\ Cardinality(Busy) \in Nat /\ Cardinality(Failed) \in Nat /\ Cardinality(files) \in Nat
          /\ IsFiniteSet(Busy \cup Failed) /\ Cardinality(Busy \cup Failed) \in Nat
      BY <2>1, FiniteCalls
    <2>3. Cardinality(files) <= Cardinality(Busy \cup Failed)
      BY <2>1, <2>2, FS_Subset
    <2>4. Cardinality(Busy \cup Failed) <= Cardinality(Busy) + Cardinality(Failed)
      <3>1. Cardinality(Busy \cap Failed) \in Nat
        BY <2>1, FiniteCalls
      <3>2. Cardinality(Busy \cup Failed)
              = Cardinality(Busy) + Cardinality(Failed) - Cardinality(Busy \cap Failed)
        BY <2>2, FS_Union
      <3> QED
        BY <2>2, <3>1, <3>2
    <2>5. Cardinality(files) <= Workers + failures
      <3>1. /\ Cardinality(Busy) <= Workers /\ Cardinality(Failed) <= failures
            /\ Workers \in Nat /\ failures \in Nat
        BY SandboxAssumption DEF SandboxIInv, FilesInv, SandboxTypeOK
      <3> QED
        BY <2>2, <2>3, <2>4, <3>1
    <2> QED
      BY <2>1, <2>5 DEF FilesAccounted, Failed
  <1> QED
    BY <1>1, SandboxInductive, PTL
=============================================================================

------------------------------ MODULE PlanDag ------------------------------
(***************************************************************************)
(* From the planner's JSON to an order of execution: validate_task_dag and *)
(* the depth-first search of _check_no_cycles (backend/agents/planner.py), *)
(* and topological_sort, Kahn's algorithm (backend/agents/researcher.py),  *)
(* which the researcher and the executor apply to the plan that was let    *)
(* through.                                                                *)
(*                                                                         *)
(* The recursive dfs is a stack of frames.  A frame's next is the          *)
(* dependency whose call is under way, so that a return is followed by     *)
(* another look at a finished dependency, which moves on.                  *)
(***************************************************************************)
EXTENDS Naturals, Sequences, FiniteSets

CONSTANTS
    Ids,        \* task ids
    RawPlans,   \* the "tasks" the LLM may return
    MaxTasks    \* _MAX_TASKS

(* schema is "bad" for a task that is not an object, lacks a field or      *)
(* names an unknown model.                                                 *)
ASSUME RawAssumption ==
    /\ RawPlans \subseteq Seq([id : Ids, schema : {"ok", "bad"}, depends_on : Seq(Ids)])
    /\ MaxTasks \in Nat

VARIABLES
    raw,        \* the plan being looked at
    phase,      \* "schema", "dfs", "rejected", "sort" or "sorted"
    reason,     \* why it was rejected: "none", "invalid" or "circular"
    adj,        \* depends_on of each task
    state,      \* 0 = unvisited, 1 = in-progress, 2 = done
    root,       \* position of the outer loop over adj
    stack,      \* active calls of dfs
    in_degree,  \* topological_sort: unreleased dependencies of each task
    queue,      \* tasks of the next level
    levels      \* the levels returned so far

vars == <<raw, phase, reason, adj, state, root, stack, in_degree, queue, levels>>
search == <<raw, adj, in_degree, queue, levels>>

Elems(s) == {s[i] : i \in DOMAIN s}
Plan == {raw[i].id : i \in DOMAIN raw}
Frames == [node : Ids, next : Nat \ {0}]

TypeOK ==
    /\ raw \in RawPlans
    /\ phase \in {"schema", "dfs", "rejected", "sort", "sorted"}
    /\ reason \in {"none", "invalid", "circular"}
    /\ phase \in {"dfs", "sort", "sorted"} =>
         /\ adj \in [Plan -> Seq(Plan)]
         /\ state \in [Plan -> 0..2]
         /\ in_degree \in [Plan -> Nat]
    /\ root \in 1..(Len(raw) + 1)
    /\ stack \in Seq(Frames)
    /\ queue \subseteq Plan
    /\ levels \in Seq(SUBSET Plan)

Empty == [t \in {} |-> 0]

Init ==
    /\ raw \in RawPlans
    /\ phase = "schema"
    /\ reason = "none"
    /\ adj = Empty
    /\ state = Empty
    /\ root = 1
    /\ stack = << >>
    /\ in_degree = Empty
    /\ queue = {}
    /\ levels = << >>

-----------------------------------------------------------------------------
(* validate_task_dag: the checks that raise ValueError before the search.  *)
WellFormed ==
    /\ raw # << >>
    /\ Len(raw) <= MaxTasks
    /\ \A i \in DOMAIN raw : raw[i].schema = "ok"
    /\ \A i, j \in DOMAIN raw : raw[i].id = raw[j].id => i = j
    /\ \A i \in DOMAIN raw : Elems(raw[i].depends_on) \subseteq Plan

Reject(why) ==
    /\ phase' = "rejected"
    /\ reason' = why

SchemaError ==
    /\ phase = "schema"
    /\ ~WellFormed
    /\ Reject("invalid")
    /\ UNCHANGED <<search, state, root, stack>>

SchemaOK ==
    /\ phase = "schema"
    /\ WellFormed
    /\ phase' = "dfs"
    /\ adj' = [t \in Plan |-> raw[CHOOSE i \in DOMAIN raw : raw[i].id = t].depends_on]
    /\ state' = [t \in Plan |-> 0]
    /\ in_degree' = [t \in Plan |-> 0]
    /\ UNCHANGED <<raw, reason, root, stack, queue, levels>>

-----------------------------------------------------------------------------
(* _check_no_cycles.                                                       *)

top == stack[Len(stack)]
dep == adj[top.node][top.next]

(* dfs of an unvisited task: mark it and go into the loop over its         *)
(* dependencies.                                                           *)
Enter(n) ==
    /\ state' = [state EXCEPT ![n] = 1]
    /\ stack' = Append(stack, [node |-> n, next |-> 1])
    /\ UNCHANGED <<search, phase, reason, root>>

RootUnvisited ==
    /\ phase = "dfs"
    /\ stack = << >>
    /\ root <= Len(raw)
    /\ state[raw[root].id] = 0
    /\ Enter(raw[root].id)

RootDone ==
    /\ phase = "dfs"
    /\ stack = << >>
    /\ root <= Len(raw)
    /\ state[raw[root].id] = 2
    /\ root' = root + 1
    /\ UNCHANGED <<search, phase, reason, state, stack>>

InLoop == phase = "dfs" /\ stack # << >> /\ top.next <= Len(adj[top.node])

DepUnvisited ==
    /\ InLoop
    /\ state[dep] = 0
    /\ Enter(dep)

(* Mutants: an edge back to a task in progress is taken for a finished     *)
(* one; the two marks are one, so that a shared dependency is refused.     *)
CircularNever(n) == FALSE
CircularVisited(n) == state[n] # 0

Circular(n) == state[n] = 1

DepInProgress ==
    /\ InLoop
    /\ Circular(dep)
    /\ Reject("circular")
    /\ UNCHANGED <<search, state, root, stack>>

DepDone ==
    /\ InLoop
    /\ state[dep] # 0
    /\ ~Circular(dep)
    /\ stack' = [stack EXCEPT ![Len(stack)].next = @ + 1]
    /\ UNCHANGED <<search, phase, reason, state, root>>

(* Mutant: a task is left unmarked when its call returns.                  *)
DoneUnmarked == 0

Done == 2

Return ==
    /\ phase = "dfs"
    /\ stack # << >>
    /\ top.next > Len(adj[top.node])
    /\ state' = [state EXCEPT ![top.node] = Done]
    /\ stack' = SubSeq(stack, 1, Len(stack) - 1)
    /\ UNCHANGED <<search, phase, reason, root>>

-----------------------------------------------------------------------------
(* topological_sort.                                                       *)

(* Mutant: dependents is a set while in_degree counts entries.             *)
OccurrencesDistinct(t, S) == Cardinality(Elems(adj[t]) \cap S)

(* depends_on is a list: an id may be in it twice and is counted twice, in *)
(* in_degree and in dependents alike.                                      *)
Occurrences(t, S) == Cardinality({i \in DOMAIN adj[t] : adj[t][i] \in S})

(* The plan is accepted, and sorted.                                       *)
SortBegin ==
    /\ phase = "dfs"
    /\ stack = << >>
    /\ root > Len(raw)
    /\ phase' = "sort"
    /\ in_degree' = [t \in Plan |-> Len(adj[t])]
    /\ queue' = {t \in Plan : adj[t] = << >>}
    /\ UNCHANGED <<raw, reason, adj, state, root, stack, levels>>

(* One turn of the loop: the queue is a level; its tasks are released, and *)
(* those whose in-degree reaches zero are the next queue.                  *)
SortLevel ==
    /\ phase = "sort"
    /\ queue # {}
    /\ levels' = Append(levels, queue)
    /\ in_degree' = [t \in Plan |-> in_degree[t] - Occurrences(t, queue)]
    /\ queue' = {t \in Plan : in_degree[t] > 0 /\ in_degree'[t] = 0}
    /\ UNCHANGED <<raw, phase, reason, adj, state, root, stack>>

SortEnd ==
    /\ phase = "sort"
    /\ queue = {}
    /\ phase' = "sorted"
    /\ UNCHANGED <<raw, reason, adj, state, root, stack, in_degree, queue, levels>>

Next ==
    \/ SchemaError
    \/ SchemaOK
    \/ RootUnvisited
    \/ RootDone
    \/ DepUnvisited
    \/ DepInProgress
    \/ DepDone
    \/ Return
    \/ SortBegin
    \/ SortLevel
    \/ SortEnd

Spec == Init /\ [][Next]_vars

(* Sequential code without calls that wait: it runs on.                    *)
FairSpec == Spec /\ WF_vars(Next)

-----------------------------------------------------------------------------
(* Properties.                                                             *)

Deps(t) == Elems(adj[t])

(* A set of tasks none of which can come first.                            *)
Knot(S) == S # {} /\ \A t \in S : Deps(t) \cap S # {}

(* The search is right both ways: what it rejects as circular contains a   *)
(* cycle, and what it accepts is a DAG, every set of tasks having one that *)
(* can come first.                                                         *)
CircularMeansCycle == reason = "circular" => \E S \in SUBSET Plan : Knot(S)
AcceptedIsDag == phase \in {"sort", "sorted"} => \A S \in SUBSET Plan : ~Knot(S)

(* Each level consists of the tasks that are not in a level before but all *)
(* of whose dependencies are, which is what TaskRounds takes for a level;  *)
(* and no task of an accepted plan is dropped by the sort, which would be  *)
(* silent, as Kahn's loop just stops when nothing is released.             *)
Before(i) == UNION {levels[j] : j \in 1..(i - 1)}
LevelsAreReleased ==
    /\ \A i \in DOMAIN levels :
         levels[i] = {t \in Plan \ Before(i) : Deps(t) \subseteq Before(i)}
    /\ phase = "sorted" => Before(Len(levels) + 1) = Plan

(* Every plan is rejected or sorted in the end.                            *)
Decided == <>(phase \in {"rejected", "sorted"})
=============================================================================

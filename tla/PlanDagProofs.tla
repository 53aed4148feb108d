--------------------------- MODULE PlanDagProofs ---------------------------
(***************************************************************************)
(* The depth-first search of PlanDag decides acyclicity, for plans of any  *)
(* size.  No induction over the graph is needed: the set of finished tasks *)
(* is closed under depends_on, and it never has a knot because a task only *)
(* joins it after its dependencies; the stack is a path, so an edge back   *)
(* into it closes a cycle.  And topological_sort returns the levels of an  *)
(* accepted plan: its counts are of the dependencies not yet released, and *)
(* what it would leave behind is a knot.                                   *)
(***************************************************************************)
EXTENDS PlanDag, FiniteSetTheorems, TLAPS

(* Some plan has been turned into adj and state.                           *)
Built == phase # "schema" /\ reason # "invalid"

BuiltInv ==
    /\ raw \in RawPlans
    /\ phase \in {"schema", "dfs", "rejected", "sort", "sorted"}
    /\ root \in Nat \ {0}
    /\ phase = "schema" => stack = << >> /\ root = 1
    /\ phase # "rejected" => reason = "none"
    /\ stack \in Seq(Frames)
    /\ Built => adj \in [Plan -> Seq(Plan)] /\ state \in [Plan -> 0..2]

(* The stack is a path of distinct tasks in progress; the dependencies a   *)
(* frame has gone past are done.                                           *)
Frame(n, x, st) ==
    /\ n \in Plan
    /\ st[n] = 1
    /\ x \in 1..(Len(adj[n]) + 1)
    /\ \A j \in 1..(x - 1) : st[adj[n][j]] = 2

StackInv ==
    /\ \A k \in 1..Len(stack) : Frame(stack[k].node, stack[k].next, state)
    /\ \A k \in 1..(Len(stack) - 1) :
         /\ stack[k].next <= Len(adj[stack[k].node])
         /\ adj[stack[k].node][stack[k].next] = stack[k + 1].node
    /\ \A k, l \in 1..Len(stack) : stack[k].node = stack[l].node => k = l
    /\ \A n \in Plan : state[n] = 1 => \E k \in 1..Len(stack) : stack[k].node = n

Finished == {n \in Plan : state[n] = 2}

DoneInv ==
    /\ \A n \in Finished : Deps(n) \subseteq Finished
    /\ \A S \in SUBSET Finished : ~Knot(S)

RootInv == \A i \in 1..(root - 1) : i \in DOMAIN raw => state[raw[i].id] = 2

DagInv ==
    /\ BuiltInv
    /\ phase = "dfs" => StackInv /\ DoneInv /\ RootInv
    /\ CircularMeansCycle
    /\ AcceptedIsDag

-----------------------------------------------------------------------------
(* The elements of a sequence over R are in R.                             *)
LEMMA SeqElements ==
    ASSUME NEW R, NEW s \in Seq(R)
    PROVE  /\ Len(s) \in Nat
           /\ DOMAIN s = 1..Len(s)
           /\ \A i \in DOMAIN s : s[i] \in R
OBVIOUS

(* A record of the raw plan is typed.                                      *)
LEMMA RawTyped ==
    ASSUME raw \in RawPlans
    PROVE  /\ raw \in Seq([id : Ids, schema : {"ok", "bad"}, depends_on : Seq(Ids)])
           /\ Len(raw) \in Nat
           /\ DOMAIN raw = 1..Len(raw)
           /\ \A i \in DOMAIN raw : raw[i].id \in Plan /\ raw[i].depends_on \in Seq(Ids)
           /\ Plan \subseteq Ids
<1>1. raw \in Seq([id : Ids, schema : {"ok", "bad"}, depends_on : Seq(Ids)])
  BY RawAssumption
<1>2. /\ Len(raw) \in Nat
      /\ DOMAIN raw = 1..Len(raw)
      /\ \A i \in DOMAIN raw : raw[i] \in [id : Ids, schema : {"ok", "bad"}, depends_on : Seq(Ids)]
  BY <1>1, SeqElements
<1> QED
  BY <1>1, <1>2 DEF Plan

(* A sequence all of whose elements are in a set is a sequence over it.    *)
LEMMA SeqNarrow ==
    ASSUME NEW S, NEW T, NEW s \in Seq(S), Elems(s) \subseteq T
    PROVE  s \in Seq(T)
<1>1. /\ Len(s) \in Nat
      /\ DOMAIN s = 1..Len(s)
      /\ s = [i \in 1..Len(s) |-> s[i]]
  OBVIOUS
<1>2. \A i \in 1..Len(s) : s[i] \in T
  BY <1>1 DEF Elems
<1> QED
  BY <1>1, <1>2

(* A dependency of a built plan is one of its tasks.                       *)
LEMMA DepsInPlan ==
    ASSUME adj \in [Plan -> Seq(Plan)], NEW n \in Plan
    PROVE  /\ Len(adj[n]) \in Nat
           /\ Deps(n) = {adj[n][j] : j \in 1..Len(adj[n])}
           /\ Deps(n) \subseteq Plan
<1>1. adj[n] \in Seq(Plan)
  OBVIOUS
<1>2. Len(adj[n]) \in Nat /\ DOMAIN adj[n] = 1..Len(adj[n])
      /\ \A j \in 1..Len(adj[n]) : adj[n][j] \in Plan
  BY <1>1
<1> QED
  BY <1>2 DEF Deps, Elems

LEMMA InitDag == Init => DagInv
BY DEF Init, DagInv, BuiltInv, Built, CircularMeansCycle, AcceptedIsDag

LEMMA SchemaErrorDag == DagInv /\ SchemaError => DagInv'
BY DEF DagInv, SchemaError, Reject, search, BuiltInv, Built, CircularMeansCycle, AcceptedIsDag,
   Plan, Frames

LEMMA SchemaOKDag == DagInv /\ SchemaOK => DagInv'
<1> SUFFICES ASSUME DagInv, SchemaOK
             PROVE  DagInv'
  OBVIOUS
<1>1. raw \in RawPlans /\ stack = << >> /\ root = 1 /\ reason = "none"
  BY DEF DagInv, BuiltInv, SchemaOK
<1>2. /\ phase' = "dfs" /\ raw' = raw /\ stack' = << >> /\ root' = 1 /\ reason' = "none"
      /\ Plan' = Plan
      /\ state' = [t \in Plan |-> 0]
  BY <1>1 DEF SchemaOK, Plan
<1>3. adj' \in [Plan -> Seq(Plan)]
  <2>1. \A t \in Plan : \E i \in DOMAIN raw : raw[i].id = t
    BY DEF Plan
  <2>2. \A i \in DOMAIN raw : raw[i].depends_on \in Seq(Plan)
    BY <1>1, RawTyped, SeqNarrow DEF SchemaOK, WellFormed
  <2>3. \A t \in Plan : raw[CHOOSE i \in DOMAIN raw : raw[i].id = t].depends_on \in Seq(Plan)
    BY <2>1, <2>2
  <2> QED
    BY <2>3 DEF SchemaOK
<1>4. BuiltInv'
  BY <1>1, <1>2, <1>3 DEF BuiltInv, Built
<1>5. StackInv'
  BY <1>2 DEF StackInv
<1>6. Finished' = {}
  BY <1>2 DEF Finished
<1>7. DoneInv'
  BY <1>6 DEF DoneInv, Knot
<1>8. RootInv'
  BY <1>2 DEF RootInv
<1> QED
  BY <1>2, <1>4, <1>5, <1>7, <1>8 DEF DagInv, CircularMeansCycle, AcceptedIsDag
(* Entering an unvisited task that the path leads to keeps the path.       *)
LEMMA EnterDag ==
    ASSUME DagInv, phase = "dfs", NEW n \in Plan, state[n] = 0, Enter(n),
           Len(stack) > 0 => InLoop /\ dep = n
    PROVE  DagInv'
<1>1. /\ adj \in [Plan -> Seq(Plan)] /\ state \in [Plan -> 0..2]
      /\ stack \in Seq(Frames) /\ Len(stack) \in Nat /\ raw \in RawPlans
      /\ phase' = phase /\ reason' = reason /\ adj' = adj /\ raw' = raw /\ root' = root
      /\ Plan' = Plan
  <2>1. phase' = phase /\ reason' = reason /\ adj' = adj /\ raw' = raw /\ root' = root
    BY DEF Enter, search
  <2>2. Built
    BY DEF DagInv, BuiltInv, Built
  <2> QED
    BY <2>1, <2>2 DEF DagInv, BuiltInv, Plan
<1> PICK len \in Nat : len = Len(stack)
  BY <1>1
<1>2. n \in Ids
  BY <1>1, RawTyped
<1>3. /\ state' = [state EXCEPT ![n] = 1]
      /\ stack' = Append(stack, [node |-> n, next |-> 1])
  BY DEF Enter
<1>4. /\ stack' \in Seq(Frames)
      /\ Len(stack') = len + 1
      /\ \A k \in 1..len : stack'[k] = stack[k]
      /\ stack'[len + 1] = [node |-> n, next |-> 1]
  <2>1. [node |-> n, next |-> 1] \in Frames
    BY <1>2 DEF Frames
  <2> QED
    BY <1>1, <1>3, <2>1
<1>5. \A m \in Plan : m # n => state'[m] = state[m]
  BY <1>1, <1>3
<1>6. state'[n] = 1 /\ state' \in [Plan -> 0..2]
  BY <1>1, <1>3
<1>7. BuiltInv'
  BY <1>1, <1>4, <1>6 DEF DagInv, BuiltInv, Built
<1>8. StackInv /\ DoneInv /\ RootInv
  BY DEF DagInv
<1>9. \A m \in Plan : Len(adj[m]) \in Nat /\ \A j \in 1..Len(adj[m]) : adj[m][j] \in Plan
  BY <1>1, DepsInPlan
<1>10. \A k \in 1..len : Frame(stack'[k].node, stack'[k].next, state')
  <2> SUFFICES ASSUME NEW k \in 1..len
               PROVE  Frame(stack[k].node, stack[k].next, state')
    BY <1>4
  <2>1. Frame(stack[k].node, stack[k].next, state)
    BY <1>8 DEF StackInv
  <2> QED
    BY <2>1, <1>1, <1>5, <1>9, SMTT(30) DEF Frame
<1>11. Frame(stack'[len + 1].node, stack'[len + 1].next, state')
  BY <1>1, <1>4, <1>6, <1>9 DEF Frame
<1>12. \A k \in 1..len : stack[k].node # n
  BY <1>8 DEF StackInv, Frame
<1>13. StackInv'
  <2>1. \A k \in 1..Len(stack') : Frame(stack'[k].node, stack'[k].next, state')
    BY <1>4, <1>10, <1>11
  <2>2. \A k \in 1..(Len(stack') - 1) :
            /\ stack'[k].next <= Len(adj[stack'[k].node])
            /\ adj[stack'[k].node][stack'[k].next] = stack'[k + 1].node
    <3> SUFFICES ASSUME NEW k \in 1..len
                 PROVE  /\ stack[k].next <= Len(adj[stack[k].node])
                        /\ adj[stack[k].node][stack[k].next] = stack'[k + 1].node
      <4>1. Len(stack') - 1 = len
        BY <1>4
      <4> QED
        BY <4>1, <1>4
    <3>1. CASE k = len
      BY <3>1, <1>1, <1>4 DEF InLoop, dep, top
    <3>2. CASE k # len
      BY <3>2, <1>1, <1>4, <1>8 DEF StackInv
    <3> QED
      BY <3>1, <3>2
  <2>3. \A k, l \in 1..Len(stack') : stack'[k].node = stack'[l].node => k = l
    <3> SUFFICES ASSUME NEW k \in 1..(len + 1), NEW l \in 1..(len + 1),
                        stack'[k].node = stack'[l].node
                 PROVE  k = l
      BY <1>4
    <3>1. \A i, j \in 1..len : stack[i].node = stack[j].node => i = j
      BY <1>8 DEF StackInv
    <3> QED
      BY <3>1, <1>4, <1>12
  <2>4. \A m \in Plan : state'[m] = 1 => \E k \in 1..Len(stack') : stack'[k].node = m
    BY <1>1, <1>4, <1>5, <1>8 DEF StackInv
  <2> QED
    BY <1>1, <2>1, <2>2, <2>3, <2>4 DEF StackInv, Frame
<1>14. Finished' = Finished
  BY <1>1, <1>5, <1>6 DEF Finished
<1>15. DoneInv'
  BY <1>1, <1>8, <1>14 DEF DoneInv, Knot, Deps
<1>16. RootInv'
  BY <1>1, <1>5, <1>8, RawTyped DEF RootInv
<1> QED
  BY <1>1, <1>7, <1>13, <1>15, <1>16 DEF DagInv, CircularMeansCycle, AcceptedIsDag, BuiltInv
LEMMA RootUnvisitedDag == DagInv /\ RootUnvisited => DagInv'
<1> SUFFICES ASSUME DagInv, RootUnvisited
             PROVE  DagInv'
  OBVIOUS
<1>1. raw \in RawPlans /\ root \in 1..Len(raw)
  BY RawTyped DEF DagInv, BuiltInv, RootUnvisited
<1>2. raw[root].id \in Plan
  BY <1>1, RawTyped
<1>3. Len(stack) = 0
  BY DEF RootUnvisited
<1> QED
  BY <1>2, <1>3, EnterDag DEF RootUnvisited

(* What the loop over the dependencies of the top frame may rely on.       *)
LEMMA InLoopFacts ==
    ASSUME DagInv, InLoop
    PROVE  /\ adj \in [Plan -> Seq(Plan)] /\ state \in [Plan -> 0..2]
           /\ stack \in Seq(Frames) /\ Len(stack) \in Nat \ {0}
           /\ top.node \in Plan
           /\ top.next \in 1..Len(adj[top.node])
           /\ dep \in Plan
           /\ dep \in Deps(top.node)
           /\ Frame(top.node, top.next, state)
<1>1. /\ adj \in [Plan -> Seq(Plan)] /\ state \in [Plan -> 0..2]
      /\ stack \in Seq(Frames) /\ StackInv
  BY DEF DagInv, BuiltInv, Built, InLoop
<1>2. Len(stack) \in Nat \ {0}
  BY <1>1 DEF InLoop
<1>3. Frame(top.node, top.next, state)
  BY <1>1, <1>2 DEF StackInv, top
<1>4. top.node \in Plan /\ top.next \in 1..Len(adj[top.node])
  BY <1>1, <1>3, DepsInPlan DEF Frame, InLoop
<1>5. dep \in Deps(top.node)
  BY <1>1, <1>4, DepsInPlan DEF dep
<1> QED
  BY <1>1, <1>2, <1>3, <1>4, <1>5, DepsInPlan

LEMMA DepUnvisitedDag == DagInv /\ DepUnvisited => DagInv'
BY InLoopFacts, EnterDag DEF DepUnvisited, InLoop

LEMMA RootDoneDag == DagInv /\ RootDone => DagInv'
<1> SUFFICES ASSUME DagInv, RootDone
             PROVE  DagInv'
  OBVIOUS
<1>1. /\ raw \in RawPlans /\ root \in Nat \ {0} /\ phase = "dfs"
      /\ phase' = phase /\ reason' = reason /\ adj' = adj /\ raw' = raw /\ root' = root + 1
      /\ state' = state /\ stack' = stack /\ Plan' = Plan
  BY DEF DagInv, BuiltInv, RootDone, search, Plan
<1>2. BuiltInv'
  BY <1>1 DEF DagInv, BuiltInv, Built
<1>3. StackInv' /\ DoneInv'
  BY <1>1 DEF DagInv, StackInv, Frame, DoneInv, Finished, Knot, Deps
<1>4. RootInv'
  BY <1>1 DEF DagInv, RootInv, RootDone
<1> QED
  BY <1>1, <1>2, <1>3, <1>4 DEF DagInv, CircularMeansCycle, AcceptedIsDag, BuiltInv

(* The path from the task in progress to the top, and back by the edge     *)
(* that was found, is the cycle.                                           *)
LEMMA DepInProgressDag == DagInv /\ DepInProgress => DagInv'
<1> SUFFICES ASSUME DagInv, DepInProgress
             PROVE  DagInv'
  OBVIOUS
<1>1. /\ phase' = "rejected" /\ reason' = "circular" /\ adj' = adj /\ raw' = raw
      /\ root' = root /\ state' = state /\ stack' = stack /\ Plan' = Plan
  BY DEF DepInProgress, Circular, Reject, search, Plan
<1>2. StackInv /\ phase = "dfs" /\ reason = "none"
  BY DEF DagInv, BuiltInv, DepInProgress, Circular, InLoop
<1>3. InLoop /\ state[dep] = 1
  BY DEF DepInProgress, Circular
<1>4. PICK i \in 1..Len(stack) : stack[i].node = dep
  BY <1>2, <1>3, InLoopFacts DEF StackInv
<1> PICK len \in Nat \ {0} : len = Len(stack)
  BY <1>3, InLoopFacts
<1> DEFINE S == {stack[k].node : k \in i..len}
<1>5. S \in SUBSET Plan /\ S # {}
  BY <1>2, <1>4 DEF StackInv, Frame
<1>6. \A t \in S : Deps(t) \cap S # {}
  <2> SUFFICES ASSUME NEW k \in i..len
               PROVE  Deps(stack[k].node) \cap S # {}
    OBVIOUS
  <2>1. k \in 1..len /\ stack[k].node \in Plan
    BY <1>2, <1>4 DEF StackInv, Frame
  <2>2. CASE k = len
    <3>1. dep \in Deps(stack[k].node)
      BY <2>2, <1>3, InLoopFacts DEF top
    <3>2. dep \in S
      BY <1>4
    <3> QED
      BY <3>1, <3>2
  <2>3. CASE k # len
    <3>1. k \in 1..(len - 1) /\ k + 1 \in i..len
      BY <2>1, <2>3, <1>4
    <3>2. /\ stack[k].next <= Len(adj[stack[k].node])
          /\ adj[stack[k].node][stack[k].next] = stack[k + 1].node
      BY <3>1, <1>2 DEF StackInv
    <3>3. stack[k].next \in 1..Len(adj[stack[k].node])
      <4>1. Frame(stack[k].node, stack[k].next, state)
        BY <2>1, <1>2 DEF StackInv
      <4>2. Len(adj[stack[k].node]) \in Nat
        BY <2>1, <1>3, InLoopFacts, DepsInPlan
      <4> QED
        BY <4>1, <4>2, <3>2 DEF Frame
    <3>4. stack[k + 1].node \in Deps(stack[k].node)
      <4>1. Deps(stack[k].node) = {adj[stack[k].node][j] : j \in 1..Len(adj[stack[k].node])}
        BY <2>1, <1>3, InLoopFacts, DepsInPlan
      <4> QED
        BY <4>1, <3>2, <3>3
    <3>5. stack[k + 1].node \in S
      BY <3>1
    <3> QED
      BY <3>4, <3>5
  <2> QED
    BY <2>2, <2>3
<1>7. CircularMeansCycle'
  <2>1. Knot(S)
    BY <1>5, <1>6 DEF Knot
  <2>2. \E X \in SUBSET Plan : Knot(X)
    BY <2>1, <1>5
  <2> QED
    BY <2>2, <1>1 DEF CircularMeansCycle, Knot, Deps
<1>8. BuiltInv'
  BY <1>1, <1>2 DEF DagInv, BuiltInv, Built
<1> QED
  BY <1>1, <1>7, <1>8 DEF DagInv, AcceptedIsDag
LEMMA DepDoneDag == DagInv /\ DepDone => DagInv'
<1> SUFFICES ASSUME DagInv, DepDone
             PROVE  DagInv'
  OBVIOUS
<1>1. InLoop /\ state[dep] = 2 /\ phase = "dfs"
  <2>1. InLoop /\ phase = "dfs" /\ state[dep] # 0 /\ state[dep] # 1
    BY DEF DepDone, Circular, InLoop
  <2>2. state[dep] \in 0..2
    BY <2>1, InLoopFacts
  <2> QED
    BY <2>1, <2>2
<1>2. /\ phase' = phase /\ reason' = reason /\ adj' = adj /\ raw' = raw
      /\ root' = root /\ state' = state /\ Plan' = Plan
  BY DEF DepDone, Circular, search, Plan
<1>3. /\ stack \in Seq(Frames) /\ Frame(top.node, top.next, state)
      /\ top.next \in 1..Len(adj[top.node]) /\ Len(adj[top.node]) \in Nat
  BY <1>1, InLoopFacts, DepsInPlan
<1> PICK len \in Nat \ {0} : len = Len(stack)
  BY <1>1, InLoopFacts
<1>4. /\ top = stack[len] /\ top \in Frames
      /\ stack' = [stack EXCEPT ![len] = [node |-> top.node, next |-> top.next + 1]]
  <2>1. top = stack[len] /\ top \in Frames
    BY <1>3 DEF top
  <2>2. stack' = [stack EXCEPT ![len] = [top EXCEPT !.next = top.next + 1]]
    BY <2>1 DEF DepDone, Circular
  <2>3. [top EXCEPT !.next = top.next + 1] = [node |-> top.node, next |-> top.next + 1]
    BY <2>1 DEF Frames
  <2> QED
    BY <2>1, <2>2, <2>3
<1>5. /\ stack' \in Seq(Frames) /\ Len(stack') = len
      /\ \A k \in 1..(len - 1) : stack'[k] = stack[k]
      /\ stack'[len].node = top.node /\ stack'[len].next = top.next + 1
  <2>1. [node |-> top.node, next |-> top.next + 1] \in Frames
    BY <1>3, <1>4 DEF Frames
  <2> QED
    BY <1>3, <1>4, <2>1
<1>6. StackInv /\ DoneInv /\ RootInv
  BY <1>1 DEF DagInv
<1>7. BuiltInv'
  BY <1>2, <1>5, <1>1 DEF DagInv, BuiltInv, Built
<1>8. \A k \in 1..len : stack'[k].node = stack[k].node
  BY <1>4, <1>5
<1>9. Frame(stack'[len].node, stack'[len].next, state)
  BY <1>1, <1>3, <1>5, SMTT(30) DEF Frame, dep
<1>10. \A k \in 1..len : Frame(stack'[k].node, stack'[k].next, state)
  BY <1>5, <1>6, <1>9 DEF StackInv
<1>11. \A k \in 1..(len - 1) :
          /\ stack'[k].next <= Len(adj[stack'[k].node])
          /\ adj[stack'[k].node][stack'[k].next] = stack'[k + 1].node
  <2> SUFFICES ASSUME NEW k \in 1..(len - 1)
               PROVE  /\ stack[k].next <= Len(adj[stack[k].node])
                      /\ adj[stack[k].node][stack[k].next] = stack[k + 1].node
    BY <1>5, <1>8
  <2> QED
    BY <1>6 DEF StackInv
<1>12. StackInv'
  <2>1. \A k, l \in 1..len : stack'[k].node = stack'[l].node => k = l
    BY <1>6, <1>8 DEF StackInv
  <2>2. \A n \in Plan : state[n] = 1 => \E k \in 1..len : stack'[k].node = n
    BY <1>6, <1>8 DEF StackInv
  <2> QED
    BY <2>1, <2>2, <1>2, <1>5, <1>10, <1>11 DEF StackInv, Frame
<1>13. DoneInv' /\ RootInv'
  BY <1>2, <1>6 DEF DoneInv, Finished, Knot, Deps, RootInv
<1> QED
  BY <1>1, <1>2, <1>7, <1>12, <1>13 DEF DagInv, CircularMeansCycle, AcceptedIsDag, BuiltInv

(* A task joins the finished ones after its dependencies, so no knot       *)
(* arises: a set with the new task and others has a first task among the   *)
(* others.                                                                 *)
LEMMA FinishNoKnot ==
    ASSUME adj \in [Plan -> Seq(Plan)], NEW F \in SUBSET Plan, NEW n \in Plan, n \notin F,
           Deps(n) \subseteq F, \A m \in F : Deps(m) \subseteq F,
           \A S \in SUBSET F : ~Knot(S)
    PROVE  \A S \in SUBSET (F \cup {n}) : ~Knot(S)
<1> SUFFICES ASSUME NEW S \in SUBSET (F \cup {n}), S # {}
             PROVE  \E t \in S : Deps(t) \cap S = {}
  BY DEF Knot
<1>1. CASE S \subseteq {n}
  BY <1>1
<1>2. CASE ~(S \subseteq {n})
  <2>1. S \ {n} \in SUBSET F /\ S \ {n} # {}
    BY <1>2
  <2>2. PICK t \in S \ {n} : Deps(t) \cap (S \ {n}) = {}
    BY <2>1 DEF Knot
  <2>3. n \notin Deps(t)
    BY <2>1
  <2> QED
    BY <2>2, <2>3
<1> QED
  BY <1>1, <1>2

LEMMA ReturnDag == DagInv /\ Return => DagInv'
<1> SUFFICES ASSUME DagInv, Return
             PROVE  DagInv'
  OBVIOUS
<1>1. /\ phase = "dfs" /\ phase' = phase /\ reason' = reason /\ adj' = adj /\ raw' = raw
      /\ root' = root /\ Plan' = Plan
  BY DEF Return, Done, search, Plan
<1>2. /\ adj \in [Plan -> Seq(Plan)] /\ state \in [Plan -> 0..2] /\ stack \in Seq(Frames)
      /\ StackInv /\ DoneInv /\ RootInv /\ BuiltInv /\ raw \in RawPlans
  BY <1>1 DEF DagInv, BuiltInv, Built
<1>3. Len(stack) \in Nat \ {0}
  BY <1>2 DEF Return, Done
<1> PICK len \in Nat \ {0} : len = Len(stack)
  BY <1>3
<1> PICK n : n = stack[len].node
  OBVIOUS
<1>4. Frame(n, stack[len].next, state) /\ n \in Plan /\ state[n] = 1
  BY <1>2 DEF StackInv, Frame
<1>5. Len(adj[n]) \in Nat /\ Deps(n) = {adj[n][j] : j \in 1..Len(adj[n])} /\ Deps(n) \subseteq Plan
  BY <1>2, <1>4, DepsInPlan
<1>6. \A d \in Deps(n) : state[d] = 2
  <2>1. stack[len].next > Len(adj[n]) /\ stack[len].next \in 1..(Len(adj[n]) + 1)
    BY <1>4 DEF Return, Done, top, Frame
  <2> QED
    BY <2>1, <1>4, <1>5 DEF Frame
<1>7. state' = [state EXCEPT ![n] = 2] /\ stack' = SubSeq(stack, 1, len - 1)
  BY DEF Return, Done, top
<1>8. /\ stack' \in Seq(Frames) /\ Len(stack') = len - 1
      /\ \A k \in 1..(len - 1) : stack'[k] = stack[k]
  BY <1>2, <1>7
<1>9. /\ state' \in [Plan -> 0..2] /\ state'[n] = 2
      /\ \A m \in Plan : m # n => state'[m] = state[m]
  BY <1>2, <1>4, <1>7
<1>10. BuiltInv'
  BY <1>1, <1>2, <1>8, <1>9 DEF BuiltInv, Built
<1>11. \A k \in 1..(len - 1) : stack[k].node # n
  <2>1. \A k, l \in 1..len : stack[k].node = stack[l].node => k = l
    BY <1>2 DEF StackInv
  <2> QED
    BY <2>1
<1>12. \A k \in 1..(len - 1) : Frame(stack[k].node, stack[k].next, state')
  <2> SUFFICES ASSUME NEW k \in 1..(len - 1)
               PROVE  Frame(stack[k].node, stack[k].next, state')
    OBVIOUS
  <2>1. Frame(stack[k].node, stack[k].next, state)
    BY <1>2 DEF StackInv
  <2>2. \A j \in 1..Len(adj[stack[k].node]) : adj[stack[k].node][j] \in Plan
    BY <2>1, <1>2, DepsInPlan DEF Frame
  <2>3. Len(adj[stack[k].node]) \in Nat
    BY <2>1, <1>2, DepsInPlan DEF Frame
  <2>4. stack[k].node \in Plan /\ stack[k].node # n
    BY <2>1, <1>11 DEF Frame
  <2>5. \A j \in 1..(stack[k].next - 1) : state'[adj[stack[k].node][j]] = 2
    <3> SUFFICES ASSUME NEW j \in 1..(stack[k].next - 1)
                 PROVE  state'[adj[stack[k].node][j]] = 2
      OBVIOUS
    <3>1. j \in 1..Len(adj[stack[k].node]) /\ state[adj[stack[k].node][j]] = 2
      BY <2>1, <2>3 DEF Frame
    <3> QED
      BY <3>1, <2>2, <1>9
  <2> QED
    BY <2>1, <2>4, <2>5, <1>9 DEF Frame
<1>13. StackInv'
  <2>1. \A k \in 1..(len - 1 - 1) :
            /\ stack[k].next <= Len(adj[stack[k].node])
            /\ adj[stack[k].node][stack[k].next] = stack[k + 1].node
    BY <1>2 DEF StackInv
  <2>2. \A k, l \in 1..(len - 1) : stack[k].node = stack[l].node => k = l
    BY <1>2 DEF StackInv
  <2>3. \A m \in Plan : state'[m] = 1 => \E k \in 1..(len - 1) : stack[k].node = m
    <3> SUFFICES ASSUME NEW m \in Plan, state'[m] = 1
                 PROVE  \E k \in 1..(len - 1) : stack[k].node = m
      OBVIOUS
    <3>1. m # n /\ state[m] = 1
      BY <1>9
    <3>2. PICK k \in 1..len : stack[k].node = m
      BY <3>1, <1>2 DEF StackInv
    <3> QED
      BY <3>1, <3>2
  <2>4. \A k \in 1..(len - 1 - 1) : stack'[k] = stack[k] /\ stack'[k + 1] = stack[k + 1]
    BY <1>8
  <2>5. \A k \in 1..(len - 1) : Frame(stack'[k].node, stack'[k].next, state')
    BY <1>8, <1>12
  <2>6. \A k \in 1..(len - 1 - 1) :
            /\ stack'[k].next <= Len(adj[stack'[k].node])
            /\ adj[stack'[k].node][stack'[k].next] = stack'[k + 1].node
    BY <2>1, <2>4
  <2>7. \A k, l \in 1..(len - 1) : stack'[k].node = stack'[l].node => k = l
    BY <2>2, <1>8
  <2>8. \A m \in Plan : state'[m] = 1 => \E k \in 1..(len - 1) : stack'[k].node = m
    BY <2>3, <1>8
  <2>9. \A k \in 1..(len - 1) : Frame(stack[k].node, stack[k].next, state)'
    BY <2>5, <1>1 DEF Frame
  <2>10. Len(stack') = len - 1 /\ Len(stack') - 1 = len - 1 - 1
    BY <1>8
  <2> QED
    BY <2>6, <2>7, <2>8, <2>9, <2>10, <1>1 DEF StackInv
<1>14. Finished' = Finished \cup {n} /\ n \notin Finished /\ Finished \in SUBSET Plan
  BY <1>1, <1>4, <1>9 DEF Finished
<1>15. DoneInv'
  <2>1. Deps(n) \subseteq Finished
    BY <1>5, <1>6 DEF Finished
  <2>2. \A S \in SUBSET (Finished \cup {n}) : ~Knot(S)
    <3>1. \A m \in Finished : Deps(m) \subseteq Finished
      BY <1>2 DEF DoneInv
    <3>2. \A S \in SUBSET Finished : ~Knot(S)
      BY <1>2 DEF DoneInv
    <3>3. adj \in [Plan -> Seq(Plan)] /\ n \in Plan
      BY <1>2, <1>4
    <3> QED
      BY <3>1, <3>2, <3>3, <1>14, <2>1, FinishNoKnot
  <2>3. \A m \in Finished \cup {n} : Deps(m) \subseteq Finished \cup {n}
    BY <1>2, <2>1 DEF DoneInv
  <2> QED
    BY <2>2, <2>3, <1>1, <1>14 DEF DoneInv, Knot, Deps
<1>16. RootInv'
  BY <1>1, <1>2, <1>9, RawTyped DEF RootInv
<1> QED
  BY <1>1, <1>10, <1>13, <1>15, <1>16 DEF DagInv, CircularMeansCycle, AcceptedIsDag, BuiltInv

LEMMA SortDag == DagInv /\ (SortBegin \/ SortLevel \/ SortEnd) => DagInv'
<1> SUFFICES ASSUME DagInv, SortBegin \/ SortLevel \/ SortEnd
             PROVE  DagInv'
  OBVIOUS
<1>1. /\ adj' = adj /\ raw' = raw /\ root' = root /\ state' = state /\ stack' = stack
      /\ reason' = reason /\ phase' \in {"sort", "sorted"} /\ phase \in {"dfs", "sort"}
      /\ phase = "dfs" => SortBegin
      /\ Plan' = Plan
  BY DEF SortBegin, SortLevel, SortEnd, Plan
<1>2. reason = "none"
  BY <1>1 DEF DagInv, BuiltInv
<1>3. BuiltInv'
  BY <1>1, <1>2 DEF DagInv, BuiltInv, Built
<1>4. \A S \in SUBSET Plan : ~Knot(S)
  <2>1. CASE phase = "sort"
    BY <2>1 DEF DagInv, AcceptedIsDag
  <2>2. CASE phase = "dfs"
    <3>1. root > Len(raw) /\ RootInv /\ DoneInv /\ raw \in RawPlans /\ root \in Nat
      BY <2>2, <1>1 DEF DagInv, BuiltInv, SortBegin
    <3>2. \A i \in DOMAIN raw : state[raw[i].id] = 2
      BY <3>1, RawTyped DEF RootInv
    <3>3. Finished = Plan
      BY <3>2 DEF Finished, Plan
    <3> QED
      BY <3>1, <3>3 DEF DoneInv
  <2> QED
    BY <1>1, <2>1, <2>2
<1>5. AcceptedIsDag'
  BY <1>1, <1>4 DEF AcceptedIsDag, Knot, Deps
<1> QED
  BY <1>1, <1>2, <1>3, <1>5 DEF DagInv, CircularMeansCycle

(* The invariant that makes the search correct, of every plan the LLM may  *)
(* return.                                                                 *)
THEOREM SearchInvariant == Spec => []DagInv
<1>1. Init => DagInv
  BY InitDag
<1>2. DagInv /\ [Next]_vars => DagInv'
  <2> SUFFICES ASSUME DagInv, [Next]_vars
               PROVE  DagInv'
    OBVIOUS
  <2>1. CASE Next
    BY <2>1, SchemaErrorDag, SchemaOKDag, RootUnvisitedDag, RootDoneDag, DepUnvisitedDag,
       DepInProgressDag, DepDoneDag, ReturnDag, SortDag DEF Next
  <2>2. CASE UNCHANGED vars
    <3>1. /\ phase' = phase /\ reason' = reason /\ adj' = adj /\ raw' = raw /\ root' = root
          /\ state' = state /\ stack' = stack /\ Plan' = Plan
      BY <2>2 DEF vars, Plan
    <3>2. BuiltInv'
      BY <3>1 DEF DagInv, BuiltInv, Built
    <3>3. phase' = "dfs" => StackInv' /\ DoneInv' /\ RootInv'
      BY <3>1 DEF DagInv, StackInv, Frame, DoneInv, Finished, Knot, Deps, RootInv
    <3>4. CircularMeansCycle' /\ AcceptedIsDag'
      BY <3>1 DEF DagInv, CircularMeansCycle, AcceptedIsDag, Knot, Deps
    <3> QED
      BY <3>2, <3>3, <3>4 DEF DagInv
  <2> QED
    BY <2>1, <2>2
<1> QED
  BY <1>1, <1>2, PTL DEF Spec

(* A plan rejected as circular (_check_no_cycles raised) has a cycle.      *)
THEOREM CircularMeansCycleHolds == Spec => []CircularMeansCycle
<1>1. DagInv => CircularMeansCycle
  BY DEF DagInv
<1> QED
  BY <1>1, SearchInvariant, PTL

(* A plan that validate_task_dag lets through is a DAG.                    *)
THEOREM AcceptedIsDagHolds == Spec => []AcceptedIsDag
<1>1. DagInv => AcceptedIsDag
  BY DEF DagInv
<1> QED
  BY <1>1, SearchInvariant, PTL
-----------------------------------------------------------------------------
(* topological_sort.  in_degree counts the entries of depends_on that are  *)
(* not released, repetitions included, so that it is zero exactly when all *)
(* dependencies are; the queue is the level that can be released next; and *)
(* what is released is closed under depends_on.                            *)

Released == Before(Len(levels) + 1)
Open(t, R) == {i \in DOMAIN adj[t] : adj[t][i] \notin R}

LevelsInv ==
    \A i \in DOMAIN levels : levels[i] = {t \in Plan \ Before(i) : Deps(t) \subseteq Before(i)}

SortInv ==
    /\ LevelsInv
    /\ queue = {t \in Plan \ Released : Deps(t) \subseteq Released}
    /\ in_degree = [t \in Plan |-> Cardinality(Open(t, Released))]
    /\ \A t \in Released : Deps(t) \subseteq Released
    /\ phase = "sorted" => queue = {}

KahnInv ==
    /\ root <= Len(raw) + 1
    /\ reason \in {"none", "invalid", "circular"}
    /\ levels \in Seq(SUBSET Plan)
    /\ phase \notin {"sort", "sorted"} => levels = << >> /\ queue = {}
    /\ phase = "dfs" => in_degree \in [Plan -> Nat]
    /\ phase \in {"sort", "sorted"} => SortInv

(* What is counted is finite; none is left when all dependencies are       *)
(* released; and releasing more takes their occurrences off the count.     *)
LEMMA OpenCount ==
    ASSUME adj \in [Plan -> Seq(Plan)], NEW t \in Plan, NEW R
    PROVE  /\ IsFiniteSet(Open(t, R))
           /\ Cardinality(Open(t, R)) \in Nat
           /\ Cardinality(Open(t, R)) = 0 <=> Deps(t) \subseteq R
<1>1. Len(adj[t]) \in Nat /\ DOMAIN adj[t] = 1..Len(adj[t])
  BY SeqElements
<1>2. IsFiniteSet(1..Len(adj[t]))
  BY <1>1, FS_Interval
<1>3. Open(t, R) \in SUBSET (1..Len(adj[t]))
  BY <1>1 DEF Open
<1>4. IsFiniteSet(Open(t, R))
  BY <1>2, <1>3, FS_Subset
<1>5. Open(t, R) = {} <=> Deps(t) \subseteq R
  BY DEF Open, Deps, Elems
<1> QED
  BY <1>4, <1>5, FS_CardinalityType, FS_EmptySet

LEMMA OpenLess ==
    ASSUME adj \in [Plan -> Seq(Plan)], NEW t \in Plan, NEW R, NEW Q, Q \cap R = {}
    PROVE  Cardinality(Open(t, R)) - Occurrences(t, Q) = Cardinality(Open(t, R \cup Q))
<1> DEFINE O == {i \in DOMAIN adj[t] : adj[t][i] \in Q}
<1>1. Open(t, R) \ O = Open(t, R \cup Q) /\ Open(t, R) \cap O = O
  BY DEF Open
<1>2. Cardinality(Open(t, R) \ O) = Cardinality(Open(t, R)) - Cardinality(Open(t, R) \cap O)
  BY OpenCount, FS_Difference
<1> QED
  BY <1>1, <1>2 DEF Occurrences

(* With one more level, what comes before the others is as it was.         *)
LEMMA LevelAdded ==
    ASSUME levels \in Seq(SUBSET Plan), NEW Q \in SUBSET Plan, levels' = Append(levels, Q)
    PROVE  /\ Len(levels) \in Nat
           /\ DOMAIN levels = 1..Len(levels)
           /\ levels' \in Seq(SUBSET Plan)
           /\ Len(levels') = Len(levels) + 1
           /\ DOMAIN levels' = 1..(Len(levels) + 1)
           /\ \A i \in 1..Len(levels) : levels'[i] = levels[i]
           /\ levels'[Len(levels) + 1] = Q
           /\ \A i \in 1..(Len(levels) + 1) : Before(i)' = Before(i)
           /\ Released' = Released \cup Q
<1>1. /\ Len(levels) \in Nat
      /\ DOMAIN levels = 1..Len(levels)
      /\ levels' \in Seq(SUBSET Plan)
      /\ Len(levels') = Len(levels) + 1
      /\ DOMAIN levels' = 1..(Len(levels) + 1)
      /\ \A i \in 1..Len(levels) : levels'[i] = levels[i]
      /\ levels'[Len(levels) + 1] = Q
  OBVIOUS
<1>2. \A i \in 1..(Len(levels) + 1) : Before(i)' = Before(i)
  <2> SUFFICES ASSUME NEW i \in 1..(Len(levels) + 1)
               PROVE  Before(i)' = Before(i)
    OBVIOUS
  <2>1. \A j \in 1..(i - 1) : j \in 1..Len(levels)
    BY <1>1
  <2>2. {levels'[j] : j \in 1..(i - 1)} = {levels[j] : j \in 1..(i - 1)}
    BY <1>1, <2>1
  <2> QED
    BY <2>2 DEF Before
<1>3. Released' = Released \cup Q
  <2>1. 1..(Len(levels') + 1 - 1) = 1..(Len(levels) + 1 - 1) \cup {Len(levels) + 1}
    BY <1>1
  <2>2. \A j \in 1..(Len(levels) + 1 - 1) : j \in 1..Len(levels)
    BY <1>1
  <2>3. {levels'[j] : j \in 1..(Len(levels') + 1 - 1)}
          = {levels[j] : j \in 1..(Len(levels) + 1 - 1)} \cup {Q}
    BY <1>1, <2>1, <2>2
  <2> QED
    BY <2>3 DEF Released, Before
<1> QED
  BY <1>1, <1>2, <1>3

LEMMA InitKahn == Init => KahnInv
BY RawTyped DEF Init, KahnInv

(* The search leaves the variables of the sort alone.                      *)
LEMMA SearchKahn ==
    ASSUME DagInv, KahnInv,
           \/ SchemaError \/ SchemaOK \/ RootUnvisited \/ RootDone \/ DepUnvisited
           \/ DepInProgress \/ DepDone \/ Return
    PROVE  KahnInv'
<1>1. /\ raw' = raw /\ Plan' = Plan /\ levels' = levels /\ queue' = queue
      /\ phase \in {"schema", "dfs"} /\ phase' \in {"dfs", "rejected"}
      /\ phase = "schema" => SchemaError \/ SchemaOK
      /\ root' = root \/ (root <= Len(raw) /\ root' = root + 1)
      /\ in_degree' = in_degree \/ in_degree' = [t \in Plan |-> 0]
      /\ reason' \in {reason, "invalid", "circular"}
      /\ phase = "schema" /\ phase' = "dfs" => in_degree' = [t \in Plan |-> 0]
  BY DEF SchemaError, SchemaOK, RootUnvisited, RootDone, DepUnvisited, DepInProgress, DepDone,
     Return, Enter, Reject, InLoop, search, Plan
<1>2. root' <= Len(raw) + 1
  BY <1>1, RawTyped DEF KahnInv, DagInv, BuiltInv
<1>3. phase' = "dfs" => in_degree' \in [Plan -> Nat]
  BY <1>1 DEF KahnInv
<1> QED
  BY <1>1, <1>2, <1>3 DEF KahnInv

LEMMA SortBeginKahn == ASSUME DagInv, KahnInv, SortBegin PROVE KahnInv'
<1>1. /\ raw' = raw /\ Plan' = Plan /\ adj' = adj /\ levels' = << >> /\ levels = << >>
      /\ phase' = "sort" /\ root' = root /\ reason' = reason
      /\ queue' = {t \in Plan : adj[t] = << >>}
      /\ in_degree' = [t \in Plan |-> Len(adj[t])]
      /\ adj \in [Plan -> Seq(Plan)]
  BY DEF SortBegin, Plan, KahnInv, DagInv, BuiltInv, Built
<1>2. Released' = {}
  BY <1>1 DEF Released, Before
<1>3. \A t \in Plan : Len(adj[t]) = Cardinality(Open(t, {}))
  <2> SUFFICES ASSUME NEW t \in Plan
               PROVE  Len(adj[t]) = Cardinality(Open(t, {}))
    OBVIOUS
  <2>1. Len(adj[t]) \in Nat /\ DOMAIN adj[t] = 1..Len(adj[t])
    BY <1>1, SeqElements
  <2>2. Open(t, {}) = 1..Len(adj[t])
    BY <2>1 DEF Open
  <2> DEFINE n == Len(adj[t])
  <2>3. n \in Nat /\ Open(t, {}) = 1..n
    BY <2>1, <2>2
  <2> HIDE DEF n
  <2>4. Cardinality(1..n) = IF 1 > n THEN 0 ELSE (n - 1) + 1
    BY <2>3, FS_Interval
  <2>5. n = Cardinality(1..n)
    BY <2>3, <2>4
  <2> QED
    BY <2>3, <2>5 DEF n
<1>4. \A t \in Plan : adj[t] = << >> <=> Deps(t) \subseteq {}
  <2> SUFFICES ASSUME NEW t \in Plan
               PROVE  adj[t] = << >> <=> Deps(t) = {}
    OBVIOUS
  <2>1. adj[t] \in Seq(Plan)
    BY <1>1
  <2>2. Deps(t) = {adj[t][j] : j \in 1..Len(adj[t])} /\ Len(adj[t]) \in Nat
    BY <1>1, DepsInPlan
  <2>3. adj[t] = << >> <=> Len(adj[t]) = 0
    BY <2>1
  <2>4. Deps(t) = {} <=> Len(adj[t]) = 0
    <3>1. Len(adj[t]) # 0 => 1 \in 1..Len(adj[t])
      BY <2>2
    <3>2. Len(adj[t]) = 0 => 1..Len(adj[t]) = {}
      OBVIOUS
    <3> QED
      BY <2>2, <3>1, <3>2
  <2> QED
    BY <2>3, <2>4
<1>5. SortInv'
  BY <1>1, <1>2, <1>3, <1>4 DEF SortInv, LevelsInv, Open, Deps
<1> QED
  BY <1>1, <1>5 DEF KahnInv

(* A released level: its tasks join the released ones, and those whose     *)
(* count reaches zero are the level after it.                              *)
LEMMA SortLevelKahn == ASSUME DagInv, KahnInv, SortLevel PROVE KahnInv'
<1> DEFINE R == Released
           Q == queue
<1>1. /\ raw' = raw /\ Plan' = Plan /\ adj' = adj /\ levels' = Append(levels, Q)
      /\ phase = "sort" /\ phase' = "sort" /\ root' = root /\ reason' = reason
      /\ in_degree' = [t \in Plan |-> in_degree[t] - Occurrences(t, Q)]
      /\ queue' = {t \in Plan : in_degree[t] > 0 /\ in_degree'[t] = 0}
      /\ adj \in [Plan -> Seq(Plan)] /\ levels \in Seq(SUBSET Plan)
  BY DEF SortLevel, Plan, KahnInv, DagInv, BuiltInv, Built
<1>2. /\ LevelsInv
      /\ Q = {t \in Plan \ R : Deps(t) \subseteq R}
      /\ in_degree = [t \in Plan |-> Cardinality(Open(t, R))]
      /\ \A t \in R : Deps(t) \subseteq R
  BY <1>1 DEF KahnInv, SortInv
<1>3. Q \in SUBSET Plan /\ Q \cap R = {}
  BY <1>2
<1>4. /\ Len(levels) \in Nat
      /\ DOMAIN levels = 1..Len(levels)
      /\ levels' \in Seq(SUBSET Plan)
      /\ DOMAIN levels' = 1..(Len(levels) + 1)
      /\ \A i \in 1..Len(levels) : levels'[i] = levels[i]
      /\ levels'[Len(levels) + 1] = Q
      /\ \A i \in 1..(Len(levels) + 1) : Before(i)' = Before(i)
      /\ Released' = R \cup Q
  BY <1>1, <1>3, LevelAdded
<1>5. in_degree' = [t \in Plan |-> Cardinality(Open(t, R \cup Q))]
  <2>1. \A t \in Plan : in_degree[t] - Occurrences(t, Q) = Cardinality(Open(t, R \cup Q))
    BY <1>1, <1>2, <1>3, OpenLess
  <2> QED
    BY <1>1, <2>1
<1>6. queue' = {t \in Plan \ (R \cup Q) : Deps(t) \subseteq R \cup Q}
  <2>1. \A t \in Plan : in_degree[t] > 0 <=> ~(Deps(t) \subseteq R)
    BY <1>1, <1>2, OpenCount
  <2>2. \A t \in Plan : in_degree'[t] = 0 <=> Deps(t) \subseteq R \cup Q
    BY <1>1, <1>5, OpenCount
  <2>3. \A t \in R \cup Q : Deps(t) \subseteq R
    BY <1>2
  <2> QED
    BY <1>1, <1>2, <2>1, <2>2, <2>3
<1>7. LevelsInv'
  <2> SUFFICES ASSUME NEW i \in 1..(Len(levels) + 1)
               PROVE  levels'[i] = {t \in Plan \ Before(i) : Deps(t) \subseteq Before(i)}
    BY <1>1, <1>4 DEF LevelsInv, Deps
  <2>1. CASE i \in 1..Len(levels)
    BY <1>2, <1>4, <2>1 DEF LevelsInv
  <2>2. CASE i = Len(levels) + 1
    BY <1>2, <1>4, <2>2 DEF Released
  <2> QED
    BY <1>4, <2>1, <2>2
<1>8. \A t \in R \cup Q : Deps(t) \subseteq R \cup Q
  BY <1>2
<1>9. SortInv'
  <2>1. queue' = {t \in Plan' \ Released' : Deps(t)' \subseteq Released'}
    BY <1>1, <1>4, <1>6 DEF Deps
  <2>2. in_degree' = [t \in Plan' |-> Cardinality(Open(t, Released)')]
    BY <1>1, <1>4, <1>5 DEF Open
  <2>3. \A t \in Released' : Deps(t)' \subseteq Released'
    BY <1>1, <1>4, <1>8 DEF Deps
  <2> QED
    BY <1>1, <1>7, <2>1, <2>2, <2>3 DEF SortInv
<1> QED
  BY <1>1, <1>4, <1>9 DEF KahnInv

LEMMA SortEndKahn == ASSUME KahnInv, SortEnd \/ UNCHANGED vars PROVE KahnInv'
<1>1. /\ raw' = raw /\ Plan' = Plan /\ adj' = adj /\ levels' = levels /\ queue' = queue
      /\ in_degree' = in_degree /\ root' = root /\ reason' = reason
      /\ phase' = phase \/ (phase = "sort" /\ phase' = "sorted" /\ queue = {})
  BY DEF SortEnd, vars, Plan
<1>2. Released' = Released /\ LevelsInv' = LevelsInv
  BY <1>1 DEF Released, Before, LevelsInv, Deps
<1>3. ASSUME phase' \in {"sort", "sorted"}
      PROVE  SortInv'
  <2>1. SortInv
    BY <1>1, <1>3 DEF KahnInv
  <2> QED
    BY <1>1, <1>2, <2>1 DEF SortInv, Open, Deps
<1> QED
  BY <1>1, <1>3 DEF KahnInv

LEMMA KahnStep == DagInv /\ KahnInv /\ [Next]_vars => KahnInv'
<1> SUFFICES ASSUME DagInv, KahnInv, [Next]_vars
             PROVE  KahnInv'
  OBVIOUS
<1> QED
  BY SearchKahn, SortBeginKahn, SortLevelKahn, SortEndKahn DEF Next

(* The invariant of the sort, of every plan that the search lets through.  *)
THEOREM SortInvariant == Spec => []KahnInv
<1>1. Init => KahnInv
  BY InitKahn
<1> QED
  BY <1>1, KahnStep, SearchInvariant, PTL DEF Spec

(* The variables of the planner's checks and of topological_sort keep      *)
(* their types for plans of any size; no in-degree becomes negative.       *)
THEOREM TypeCorrect == Spec => []TypeOK
<1>1. DagInv /\ KahnInv => TypeOK
  <2> SUFFICES ASSUME DagInv, KahnInv
               PROVE  TypeOK
    OBVIOUS
  <2>1. Len(raw) \in Nat /\ root \in 1..(Len(raw) + 1)
    BY RawTyped DEF DagInv, BuiltInv, KahnInv
  <2>2. phase \in {"sort", "sorted"} => in_degree \in [Plan -> Nat] /\ queue \subseteq Plan
    BY OpenCount DEF KahnInv, SortInv, DagInv, BuiltInv, Built
  <2>3. phase \in {"dfs", "sort", "sorted"} => Built
    BY DEF DagInv, BuiltInv, Built
  <2> QED
    BY <2>1, <2>2, <2>3 DEF TypeOK, DagInv, BuiltInv, KahnInv
<1> QED
  BY <1>1, SearchInvariant, SortInvariant, PTL

(* Each level of topological_sort consists of the tasks whose dependencies *)
(* are in the levels before, and no task of an accepted plan is dropped:   *)
(* what is never released would be a knot, which the search has excluded.  *)
THEOREM LevelsAreReleasedHolds == Spec => []LevelsAreReleased
<1>1. DagInv /\ KahnInv => LevelsAreReleased
  <2> SUFFICES ASSUME DagInv, KahnInv
               PROVE  LevelsAreReleased
    OBVIOUS
  <2>1. CASE phase \notin {"sort", "sorted"}
    BY <2>1 DEF KahnInv, LevelsAreReleased
  <2>2. CASE phase \in {"sort", "sorted"}
    <3>1. SortInv /\ \A S \in SUBSET Plan : ~Knot(S)
      BY <2>2 DEF KahnInv, DagInv, AcceptedIsDag
    <3>2. Released \subseteq Plan
      BY DEF KahnInv, Released, Before
    <3>3. ASSUME phase = "sorted"
          PROVE  Released = Plan
      <4>1. \A t \in Plan \ Released : Deps(t) \cap (Plan \ Released) # {}
        BY <3>1, <3>3, DepsInPlan DEF SortInv, DagInv, BuiltInv, Built
      <4> QED
        BY <3>1, <3>2, <4>1 DEF Knot
    <3> QED
      BY <3>1, <3>3 DEF SortInv, LevelsInv, LevelsAreReleased, Released
  <2> QED
    BY <2>1, <2>2
<1> QED
  BY <1>1, SearchInvariant, SortInvariant, PTL
=============================================================================

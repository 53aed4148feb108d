---------------------------- MODULE MCTaskRounds ----------------------------
(* Two independent tasks and one that needs both, a chain with a           *)
(* dependency that skips a level, a chain that reuses the ids the other    *)
(* way round, and a single task.                                           *)
EXTENDS TaskRounds

MCTasks == {"a", "b", "c"}

Deps(f) == [t \in MCTasks |-> IF t \in DOMAIN f THEN f[t] ELSE {}]

MCPlans ==
    {[ids |-> MCTasks, depends_on |-> Deps([c |-> {"a", "b"}])],
     [ids |-> MCTasks, depends_on |-> Deps([b |-> {"a"}, c |-> {"a", "b"}])],
     [ids |-> {"a", "b"}, depends_on |-> Deps([a |-> {"b"}])],
     [ids |-> {"c"}, depends_on |-> Deps([c |-> {}])]}
=============================================================================

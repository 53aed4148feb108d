---------------------------- MODULE MCNexusGraph ----------------------------
(***************************************************************************)
(* Small instances of NexusGraph: three plans of which two differ only in  *)
(* what _plan_hash ignores, and one of two tasks, which it cannot hash.    *)
(***************************************************************************)
EXTENDS NexusGraph

MCBodies == {"a", "ab"}
MCHints == {"web", "rag"}
MCPlans ==
    {[body |-> "a", hints |-> h, size |-> 1] : h \in MCHints}
    \cup {[body |-> "ab", hints |-> "web", size |-> 2]}

MCScores == {0, 8500}
=============================================================================

---------------------------- MODULE MCRunStream ----------------------------
(***************************************************************************)
(* Two runs of one session, the first with a client, and two plans, one    *)
(* that _plan_hash can hash and one that it cannot.                        *)
(***************************************************************************)
EXTENDS RunStream

MCBodies == {"a", "ab"}
MCHints == {"web"}
MCPlans ==
    {[body |-> "a", hints |-> h, size |-> 1] : h \in MCHints}
    \cup {[body |-> "ab", hints |-> "web", size |-> 2]}

MCScores == {0, 8500}
=============================================================================

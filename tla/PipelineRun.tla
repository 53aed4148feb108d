---------------------------- MODULE PipelineRun ----------------------------
(***************************************************************************)
(* What the LangGraph pipeline of backend/core/graph.py promises to the    *)
(* code that runs it (backend/api/ws/run.py): every run ends exactly once, *)
(* with an exception or with a result, and a result below the quality gate *)
(* never comes without a disclaimer.                                       *)
(*                                                                         *)
(* NexusGraph implements this specification; SessionService is built on    *)
(* it.                                                                     *)
(***************************************************************************)
EXTENDS Naturals

CONSTANTS
    Runs,           \* graph executions of one session
    Scores,         \* quality scores in units of 1/10000, as the reflector rounds them
    Threshold,      \* _QUALITY_THRESHOLD
    MaxIterations   \* max_iterations of initial_state

VARIABLE result     \* result[r]: how run r has ended, if it has

Disclaimers == {"none", "loop_detected", "max_iterations_reached"}

Running == [end |-> "running", quality |-> 0, disclaimer |-> "none", iterations |-> 0]
Raised == [end |-> "raised", quality |-> 0, disclaimer |-> "none", iterations |-> 0]

Results == [end : {"running", "raised", "result"}, quality : Scores,
            disclaimer : Disclaimers, iterations : 0..MaxIterations]

(* The results a run may end with.                                         *)
GatedResults ==
    {x \in Results :
        /\ x.end = "result"
        /\ x.iterations > 0
        /\ x.disclaimer = "none" <=> x.quality >= Threshold
        /\ x.disclaimer = "max_iterations_reached" => x.iterations = MaxIterations}

Init == result = [r \in Runs |-> Running]

Finish(r) ==
    /\ result[r] = Running
    /\ \E x \in GatedResults : result' = [result EXCEPT ![r] = x]

Raise(r) ==
    /\ result[r] = Running
    /\ result' = [result EXCEPT ![r] = Raised]

Next == \E r \in Runs : Finish(r) \/ Raise(r)

Spec == Init /\ [][Next]_result

FairSpec == Spec /\ \A r \in Runs : WF_result(Finish(r) \/ Raise(r))
=============================================================================

----------------------------- MODULE RunStream -----------------------------
(***************************************************************************)
(* What a client learns of a run: the loop over the events of the graph in *)
(* _run_graph (backend/api/ws/run.py), the frames it sends, and the two    *)
(* readers of those frames, the Session page                               *)
(* (frontend/src/pages/Session.tsx) and the evaluation script              *)
(* (scripts/eval_accuracy.py).                                             *)
(*                                                                         *)
(* The graph of NexusGraph runs ahead: astream_events queues its events,   *)
(* and frames are sent when the loop comes to them.  A node has a start    *)
(* event, and an end event unless it raises.  The socket may go before any *)
(* frame; the rest is then lost, its events are no longer followed here,   *)
(* and the run goes on.                                                    *)
(***************************************************************************)
EXTENDS NexusGraph, Sequences

CONSTANTS
    Followed,       \* the runs whose events are looked at
    MaxLag          \* bound: events that the graph may be ahead of the loop

ASSUME FollowedAssumption == Followed \subseteq Runs

VARIABLES
    events,             \* events of the graph that the loop has not taken yet
    current_iteration,  \* the loop's own count
    view                \* what the frames received so far amount to

stream == <<events, current_iteration, view>>
streamVars == <<vars, stream>>

_AGENT_NODES == Nodes \ {"output"}

Event(kind, name, score) == [kind |-> kind, name |-> name, score |-> score]
Frame(type, agent, value) == [type |-> type, agent |-> agent, value |-> value]

(* active, completed, iteration and quality are the page's activeAgent,    *)
(* completedAgents, currentIteration and latestQuality; iterations is the  *)
(* script's.  end is the frame or the event of the socket that ended the   *)
(* stream: "done", "error", "closed" by the server, or "dropped".          *)
NoFrames == [active |-> "none", completed |-> {}, iteration |-> 0, quality |-> 0,
             iterations |-> 0, end |-> "open"]

Open(r) == view[r].end = "open"

StreamTypeOK ==
    /\ TypeOK
    /\ events \in [Followed -> Seq([kind : {"start", "end"}, name : Nodes, score : Scores])]
    /\ current_iteration \in [Followed -> Nat]
    /\ view \in [Followed -> [active : _AGENT_NODES \cup {"none"}, completed : SUBSET _AGENT_NODES,
                              iteration : Nat, quality : Scores, iterations : Nat,
                              end : {"open", "done", "error", "closed", "dropped"}]]

StreamInit ==
    /\ Init
    /\ events = [r \in Followed |-> <<Event("start", "planner", 0)>>]
    /\ current_iteration = [r \in Followed |-> 0]
    /\ view = [r \in Followed |-> NoFrames]

-----------------------------------------------------------------------------
(* Mutant: the score is read from the state the node was entered with.     *)
ScoreBefore(r) == quality_score[r]

(* The quality_score of a node's output.                                   *)
Score(r) == quality_score'[r]

(* The graph's side: the events of one node and the start of the next.     *)
Emitted(r) ==
    (IF pc'[r] = "failed" THEN << >> ELSE <<Event("end", pc[r], Score(r))>>)
    \o (IF Finished(r)' THEN << >> ELSE <<Event("start", pc'[r], 0)>>)

GraphStep(r) ==
    /\ Step(r)
    /\ r \in Followed => Len(events[r]) < MaxLag
    /\ events' = IF r \in Followed /\ Open(r)
                 THEN [events EXCEPT ![r] = @ \o Emitted(r)] ELSE events
    /\ UNCHANGED <<current_iteration, view>>

Expiry == LoopSetExpires /\ UNCHANGED stream

-----------------------------------------------------------------------------
(* The loop of _run_graph.                                                 *)

(* Mutant: the retry of an iteration is counted at its verdict.            *)
CountsLate(e) == e.kind = "start" /\ e.name = "reflector"

(* Iterations are counted by the starts of the planner.                    *)
Counts(e) == e.kind = "start" /\ e.name = "planner"

(* The frames of one event, in the iteration the loop is in.               *)
FramesOf(e, iteration) ==
    IF e.name \notin _AGENT_NODES THEN << >> ELSE
    CASE e.kind = "start" -> <<Frame("agent_start", e.name, iteration)>>
      [] e.kind = "end" /\ e.name = "reflector" ->
           <<Frame("quality_score", e.name, e.score), Frame("agent_complete", e.name, 0)>>
      [] e.kind = "end" /\ e.name = "planner" /\ iteration > 1 ->
           <<Frame("replan", e.name, iteration), Frame("agent_complete", e.name, 0)>>
      [] OTHER -> <<Frame("agent_complete", e.name, 0)>>

(* How a frame changes what the page shows, and what the script holds.     *)
PageShows(v, f) ==
    CASE f.type = "agent_start" -> [v EXCEPT !.active = f.agent, !.iteration = f.value]
      [] f.type = "agent_complete" -> [v EXCEPT !.active = "none", !.completed = @ \cup {f.agent}]
      [] f.type = "quality_score" -> [v EXCEPT !.quality = f.value]
      [] OTHER -> v

_run_via_ws(v, f) ==
    CASE f.type = "quality_score" -> [v EXCEPT !.quality = f.value]
      [] f.type = "replan" -> [v EXCEPT !.iterations = f.value]
      [] f.type \in {"done", "error"} -> [v EXCEPT !.end = f.type]
      [] OTHER -> v

Shows(v, f) == _run_via_ws(PageShows(v, f), f)

(* What a reader has after these frames.                                   *)
Received(v, frames) ==
    LET after[i \in 0..Len(frames)] == IF i = 0 THEN v ELSE Shows(after[i - 1], frames[i])
    IN  after[Len(frames)]

(* The socket goes: the page's picture is of no more interest, the script  *)
(* returns what it has, or raises if the socket was not closed properly.   *)
Cut(v, how) ==
    IF how = "closed"
    THEN [NoFrames EXCEPT !.quality = v.quality, !.iterations = v.iterations, !.end = how]
    ELSE [NoFrames EXCEPT !.end = how]

(* The frames are sent one by one, and the socket may go before any.       *)
Deliver(r, frames) ==
    \/ view' = [view EXCEPT ![r] = Received(@, frames)]
    \/ \E n \in 0..(Len(frames) - 1), how \in {"closed", "dropped"} :
         view' = [view EXCEPT ![r] = Cut(Received(@, SubSeq(frames, 1, n)), how)]

TakeEvent(r) ==
    /\ events[r] # << >>
    /\ current_iteration' =
         [current_iteration EXCEPT ![r] = IF Counts(Head(events[r])) THEN @ + 1 ELSE @]
    /\ Deliver(r, FramesOf(Head(events[r]), current_iteration'[r]))
    /\ events' = [events EXCEPT ![r] = IF Open(r)' THEN Tail(@) ELSE << >>]
    /\ UNCHANGED vars

(* All events are taken: the last frame.                                   *)
SendLast(r) ==
    /\ Finished(r)
    /\ events[r] = << >>
    /\ Open(r)
    /\ Deliver(r, <<Frame(IF pc[r] = "done" THEN "done" ELSE "error", "none", 0)>>)
    /\ UNCHANGED <<vars, events, current_iteration>>

StreamNext ==
    \/ \E r \in Runs : GraphStep(r)
    \/ Expiry
    \/ \E r \in Followed : TakeEvent(r) \/ SendLast(r)

StreamSpec == StreamInit /\ [][StreamNext]_streamVars

(* As in NexusGraph, and the loop takes its events.                        *)
StreamFairSpec ==
    /\ StreamSpec
    /\ \A r \in Runs : WF_streamVars(GraphStep(r))
    /\ \A r \in Followed : WF_streamVars(TakeEvent(r) \/ SendLast(r))

-----------------------------------------------------------------------------
(* Properties.                                                             *)

(* A reader that has every frame so far shows what the graph is doing: the *)
(* agent at work and its iteration, by the loop's count and by the graph's *)
(* own; and in the end no agent, and the score of the last iteration.      *)
PageFollows ==
    \A r \in Followed :
        view[r].end \in {"open", "done"} /\ events[r] = << >> =>
            /\ pc[r] \in _AGENT_NODES =>
                 /\ view[r].active = pc[r]
                 /\ view[r].iteration = iteration_count[r] + (IF pc[r] = "planner" THEN 1 ELSE 0)
            /\ pc[r] = "done" =>
                 /\ view[r].active = "none"
                 /\ view[r].iteration = iteration_count[r]
                 /\ view[r].quality = quality_score[r]

(* The script's verdict, once it has one: passed of EvalResult.            *)
Passed(r) == view[r].end \in {"done", "closed"} /\ view[r].quality >= Threshold

(* scripts/eval_accuracy.py counts a case as passed by the last score it   *)
(* has received, however the stream ended, perhaps long before the run.    *)
(* Still a PASS is true: the run ends, or has ended, with a result that    *)
(* met the gate and has no disclaimer; and a run seen to its end is passed *)
(* if it met the gate.                                                     *)
VerdictSound ==
    \A r \in Followed :
        /\ Passed(r) => /\ pc[r] \in {"output", "done"}
                        /\ quality_score[r] >= Threshold
                        /\ disclaimer[r] = "none"
        /\ view[r].end = "done" => (Passed(r) <=> disclaimer[r] = "none")
=============================================================================

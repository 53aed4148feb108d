--------------------------- MODULE SessionService ---------------------------
(***************************************************************************)
(* The life of one session: the row in Postgres, the WebSocket handler and *)
(* the graph task of backend/api/ws/run.py, and the REST handlers of       *)
(* backend/api/routes/sessions.py that change the row.                     *)
(*                                                                         *)
(* All handlers run on one event loop (one uvicorn worker).  Every await   *)
(* on the database or on the graph is an interleaving point, so each is a  *)
(* step of its own.  A connection starts at most one graph task, so tasks  *)
(* are named by their connection; what the graph itself does is            *)
(* PipelineRun, which NexusGraph implements.                               *)
(*                                                                         *)
(* Only requests that pass authentication and ownership are modelled: the  *)
(* others change nothing.                                                  *)
(***************************************************************************)
EXTENDS Naturals, FiniteSets

CONSTANTS
    Conns,          \* WebSocket connections to the session
    Aborters,       \* POST /sessions/{id}/abort requests
    Scores, Threshold, MaxIterations,
    WriteThreshold, \* _QUALITY_WRITE_THRESHOLD of memory.py
    MaxDbErrors,    \* bound: failing UPDATEs explored
    MaxCrashes      \* bound: process crashes explored

ASSUME ServiceAssumption ==
    /\ Scores \subseteq 0..10000
    /\ 0 \in Scores
    /\ Threshold \in 1..10000
    /\ WriteThreshold \in 1..Threshold
    /\ MaxIterations \in Nat \ {0}
    /\ MaxDbErrors \in Nat
    /\ MaxCrashes \in Nat

VARIABLES
    status,     \* sessions.status, "absent" before the row exists
    row,        \* final_quality, iteration_count, final_output.disclaimer, completed_at set
    conn,       \* "none", "open" or "closed"
    started,    \* the handler's started flag
    stage,      \* what the connection's graph task does next
    result,     \* result of the task's graph, a PipelineRun
    frames,     \* the frames each client has received
    abort,      \* progress of each abort request
    memory,     \* quality of the vector stored for the session, 0 if none
    dbErrors, crashes

vars == <<status, row, conn, started, stage, result, frames, abort, memory, dbErrors, crashes>>
client == <<conn, started, frames>>
faults == <<dbErrors, crashes>>

Graph == INSTANCE PipelineRun WITH Runs <- Conns

Statuses == {"pending", "running", "completed", "failed", "aborted"}
LiveStages == {"mark", "recall", "graph", "fail", "finalise", "remember", "notify"}
Frames == {"connected", "already_started", "graph_error", "done"}

TypeOK ==
    /\ status \in Statuses \cup {"absent"}
    /\ row \in [final_quality : Scores, iteration_count : 0..MaxIterations,
                disclaimer : Graph!Disclaimers, completed_at : BOOLEAN]
    /\ conn \in [Conns -> {"none", "open", "closed"}]
    /\ started \in [Conns -> BOOLEAN]
    /\ stage \in [Conns -> LiveStages \cup {"none", "ended", "lost"}]
    /\ result \in [Conns -> Graph!Results]
    /\ frames \in [Conns -> SUBSET Frames]
    /\ abort \in [Aborters -> {"none", "checked", "accepted", "conflict", "lost"}]
    /\ memory \in Scores
    /\ dbErrors \in 0..MaxDbErrors
    /\ crashes \in 0..MaxCrashes

Init ==
    /\ status = "absent"
    /\ row = [final_quality |-> 0, iteration_count |-> 0, disclaimer |-> "none",
              completed_at |-> FALSE]
    /\ conn = [c \in Conns |-> "none"]
    /\ started = [c \in Conns |-> FALSE]
    /\ stage = [c \in Conns |-> "none"]
    /\ Graph!Init
    /\ frames = [c \in Conns |-> {}]
    /\ abort = [a \in Aborters |-> "none"]
    /\ memory = 0
    /\ dbErrors = 0
    /\ crashes = 0

Live(c) == stage[c] \in LiveStages

Enter(c, s) == stage' = [stage EXCEPT ![c] = s]

(* _send: a frame for a closed socket is dropped, and so is the error.     *)
Send(c, f) == frames' = [frames EXCEPT ![c] = IF conn[c] = "open" THEN @ \cup {f} ELSE @]

-----------------------------------------------------------------------------
(* REST handlers.                                                          *)

create_session ==
    /\ status = "absent"
    /\ status' = "pending"
    /\ UNCHANGED <<row, client, stage, result, abort, memory, faults>>

(* Soft delete: sets the status whatever it is.                            *)
delete_session ==
    /\ status \notin {"absent", "aborted"}
    /\ status' = "aborted"
    /\ UNCHANGED <<row, client, stage, result, abort, memory, faults>>

(* abort_session reads the status ...                                      *)
AbortCheck(a) ==
    /\ status # "absent"
    /\ abort[a] = "none"
    /\ abort' = [abort EXCEPT ![a] =
                    IF status \in {"pending", "running"} THEN "checked" ELSE "conflict"]
    /\ UNCHANGED <<status, row, client, stage, result, memory, faults>>

(* ... and in a second statement overwrites it.                            *)
AbortUpdate(a) ==
    /\ abort[a] = "checked"
    /\ abort' = [abort EXCEPT ![a] = "accepted"]
    /\ status' = "aborted"
    /\ UNCHANGED <<row, client, stage, result, memory, faults>>

-----------------------------------------------------------------------------
(* WebSocket handler ws_run.                                               *)

(* Mutant: a session that failed or completed may be connected to again.   *)
AcceptsAny == status # "aborted"

Accepts == status = "pending"

(* The status is only looked at here, when the client connects.            *)
Connect(c) ==
    /\ status # "absent"
    /\ conn[c] = "none"
    /\ IF Accepts
       THEN /\ conn' = [conn EXCEPT ![c] = "open"]
            /\ frames' = [frames EXCEPT ![c] = @ \cup {"connected"}]
       ELSE /\ conn' = [conn EXCEPT ![c] = "closed"]
            /\ UNCHANGED frames
    /\ UNCHANGED <<status, row, started, stage, result, abort, memory, faults>>

ReceiveStart(c) ==
    /\ conn[c] = "open"
    /\ ~started[c]
    /\ started' = [started EXCEPT ![c] = TRUE]
    /\ Enter(c, "mark")
    /\ UNCHANGED <<status, row, conn, result, frames, abort, memory, faults>>

ReceiveStartAgain(c) ==
    /\ conn[c] = "open"
    /\ started[c]
    /\ Send(c, "already_started")
    /\ UNCHANGED <<status, row, conn, started, stage, result, abort, memory, faults>>

(* An abort frame updates the row and closes the socket; the graph task is *)
(* not cancelled.                                                          *)
ReceiveAbort(c) ==
    /\ conn[c] = "open"
    /\ status' = "aborted"
    /\ conn' = [conn EXCEPT ![c] = "closed"]
    /\ UNCHANGED <<row, started, stage, result, frames, abort, memory, faults>>

(* No client frame for 60 seconds, a disconnect or an exception in the     *)
(* receive loop: the socket is closed and the graph task goes on.          *)
CloseSocket(c) ==
    /\ conn[c] = "open"
    /\ conn' = [conn EXCEPT ![c] = "closed"]
    /\ UNCHANGED <<status, row, started, stage, result, frames, abort, memory, faults>>

-----------------------------------------------------------------------------
(* The graph task _run_graph.                                              *)

MarkRunning(c) ==
    /\ stage[c] = "mark"
    /\ status' = "running"
    /\ Enter(c, "recall")
    /\ UNCHANGED <<row, client, result, abort, memory, faults>>

(* Mutant: a task that finds the memory service down just returns.         *)
AfterRecallGivesUp(failed) == IF failed THEN "ended" ELSE "graph"

(* The failure of recall_for_user is logged and ignored.                   *)
AfterRecall(failed) == "graph"

(* Recall of cross-session memory.                                         *)
Recall(c) ==
    /\ stage[c] = "recall"
    /\ \E failed \in BOOLEAN : Enter(c, AfterRecall(failed))
    /\ UNCHANGED <<status, row, client, result, abort, memory, faults>>

(* The event stream of the graph ends.  The agent and score frames sent on *)
(* the way change nothing but the client's log and are left out.           *)
GraphReturns(c) ==
    /\ stage[c] = "graph"
    /\ Graph!Finish(c)
    /\ Enter(c, "finalise")
    /\ UNCHANGED <<status, row, client, abort, memory, faults>>

(* Mutant: the error frame is forgotten.                                   *)
SendErrorNever(c) == UNCHANGED frames

SendError(c) == Send(c, "graph_error")

(* The graph raised: the error frame first, then the UPDATE.               *)
GraphRaises(c) ==
    /\ stage[c] = "graph"
    /\ Graph!Raise(c)
    /\ SendError(c)
    /\ Enter(c, "fail")
    /\ UNCHANGED <<status, row, conn, started, abort, memory, faults>>

(* Mutant: after an error the session is completed all the same.           *)
ErrorStatusCompleted == "completed"

ErrorStatus == "failed"

MarkFailed(c) ==
    /\ stage[c] = "fail"
    /\ status' = ErrorStatus
    /\ Enter(c, "ended")
    /\ UNCHANGED <<row, client, result, abort, memory, faults>>

(* final_state is what the output node RETURNED, not the state of the      *)
(* graph: empty, or the disclaimer if that node set it.  It never has a    *)
(* quality_score or an iteration_count, so their defaults are used.        *)
FinalState(x) ==
    [quality_score |-> 0, iteration_count |-> 0,
     disclaimer |-> IF x.disclaimer = "max_iterations_reached" THEN x.disclaimer ELSE "none"]

(* Mutant: the UPDATE leaves completed_at alone.                           *)
StampedNot == row.completed_at

(* completed_at = now().                                                   *)
Stamped == TRUE

Finalise(c) ==
    /\ stage[c] = "finalise"
    /\ status' = "completed"
    /\ LET f == FinalState(result[c])
       IN  row' = [final_quality |-> f.quality_score, iteration_count |-> f.iteration_count,
                   disclaimer |-> f.disclaimer, completed_at |-> Stamped]
    /\ Enter(c, "remember")
    /\ UNCHANGED <<client, result, abort, memory, faults>>

(* store_if_good, when final_state is not empty.                           *)
Remember(c) ==
    /\ stage[c] = "remember"
    /\ memory' = IF FinalState(result[c]).quality_score >= WriteThreshold
                 THEN FinalState(result[c]).quality_score
                 ELSE memory
    /\ Enter(c, "notify")
    /\ UNCHANGED <<status, row, client, result, abort, faults>>

SendDone(c) ==
    /\ stage[c] = "notify"
    /\ Send(c, "done")
    /\ Enter(c, "ended")
    /\ UNCHANGED <<status, row, conn, started, result, abort, memory, faults>>

(* An UPDATE of the task fails.  Nothing catches the exception: the task   *)
(* ends without a frame and without another UPDATE.                        *)
UpdateFails(c) ==
    /\ stage[c] \in {"mark", "fail", "finalise"}
    /\ dbErrors < MaxDbErrors
    /\ dbErrors' = dbErrors + 1
    /\ Enter(c, "lost")
    /\ UNCHANGED <<status, row, client, result, abort, memory, crashes>>

RunStep(c) ==
    \/ MarkRunning(c)
    \/ Recall(c)
    \/ GraphReturns(c)
    \/ GraphRaises(c)
    \/ MarkFailed(c)
    \/ Finalise(c)
    \/ Remember(c)
    \/ SendDone(c)

-----------------------------------------------------------------------------
(* The process dies and is restarted: sockets, tasks and requests are      *)
(* gone, with the MemorySaver that held the graph's state.  Startup does   *)
(* not look at sessions.                                                   *)
Crash ==
    /\ crashes < MaxCrashes
    /\ crashes' = crashes + 1
    /\ conn' = [c \in Conns |-> IF conn[c] = "open" THEN "closed" ELSE conn[c]]
    /\ stage' = [c \in Conns |-> IF Live(c) THEN "lost" ELSE stage[c]]
    /\ abort' = [a \in Aborters |-> IF abort[a] = "checked" THEN "lost" ELSE abort[a]]
    /\ UNCHANGED <<status, row, started, result, frames, memory, dbErrors>>

Rest == create_session \/ delete_session \/ \E a \in Aborters : AbortCheck(a) \/ AbortUpdate(a)

Socket(c) ==
    \/ Connect(c)
    \/ ReceiveStart(c)
    \/ ReceiveStartAgain(c)
    \/ ReceiveAbort(c)
    \/ CloseSocket(c)

Next ==
    \/ Rest
    \/ \E c \in Conns : Socket(c) \/ RunStep(c) \/ UpdateFails(c)
    \/ Crash

Spec == Init /\ [][Next]_vars

(* The event loop keeps serving a task and an accepted abort request;      *)
(* nothing obliges a client to connect, send or stay.                      *)
FairSpec ==
    /\ Spec
    /\ \A c \in Conns : WF_vars(RunStep(c))
    /\ \A a \in Aborters : WF_vars(AbortUpdate(a))

-----------------------------------------------------------------------------
(* Properties.                                                             *)

(* The status always has a cause: pending means that no task has marked    *)
(* the row; running that a marking task is still on its way or was lost to *)
(* a crash or a failed UPDATE; completed and failed that the graph of a    *)
(* task that came to that UPDATE returned or raised.                       *)
StatusHasCause ==
    /\ status = "pending" => \A c \in Conns : stage[c] \in {"none", "mark", "lost"}
    /\ status = "running" =>
         \E c \in Conns : stage[c] \in {"recall", "graph", "fail", "finalise", "lost"}
    /\ status = "completed" =>
         \E c \in Conns : /\ result[c].end = "result"
                          /\ stage[c] \in {"remember", "notify", "ended", "lost"}
    /\ status = "failed" => \E c \in Conns : result[c].end = "raised" /\ stage[c] = "ended"

(* A client is only told done after the outcome of its run was written.    *)
DonePersisted ==
    \A c \in Conns : "done" \in frames[c] => row.completed_at /\ result[c].end = "result"

(* A session without a task or a connection that could start one is        *)
(* settled.  Once it is and has ended, it stays so: no later connection    *)
(* revives it, whatever else happens.                                      *)
Settled ==
    /\ status \in {"completed", "failed", "aborted"}
    /\ \A c \in Conns : ~Live(c) /\ (conn[c] = "open" => started[c])

SettledStays == [][Settled => Settled']_vars

(* A session marked running ends, unless the task was lost to a crash or a *)
(* failing UPDATE.                                                         *)
RunningEnds == status = "running" ~> status # "running" \/ dbErrors > 0 \/ crashes > 0

(* A client that sent start and whose socket stays open learns how the run *)
(* ended, unless the task was lost to a failing UPDATE.                    *)
Heard(c) == frames[c] \cap {"done", "graph_error"} # {}
OpenClientHears == \A c \in Conns : started[c] ~> (Heard(c) \/ conn[c] = "closed" \/ dbErrors > 0)

(* The docstring of store_if_good: "Upsert this session's output to        *)
(* Pinecone if final quality >= 0.70".                                     *)
GoodRunRemembered ==
    \A c \in Conns :
        stage[c] \in {"notify", "ended"} /\ result[c].quality >= WriteThreshold
            => memory >= WriteThreshold
=============================================================================

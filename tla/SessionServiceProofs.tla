------------------------ MODULE SessionServiceProofs ------------------------
(***************************************************************************)
(* Proofs about SessionService, for any number of connections and abort    *)
(* requests, any scores and any number of crashes and database errors.     *)
(***************************************************************************)
EXTENDS SessionService, Integers, TLAPS

(* How far a task is tells how its graph ended and whether the row was     *)
(* finalised.                                                              *)
TaskInv ==
    \A c \in Conns :
        /\ stage[c] \in {"none", "mark", "recall", "graph"} => result[c] = Graph!Running
        /\ stage[c] = "fail" => result[c].end = "raised"
        /\ stage[c] \in {"finalise", "remember", "notify"} => result[c].end = "result"
        /\ stage[c] \in {"remember", "notify"} => row.completed_at
        /\ status = "absent" => conn[c] = "none" /\ stage[c] = "none"
        /\ ~started[c] => stage[c] = "none"

IInv == TypeOK /\ TaskInv /\ StatusHasCause /\ DonePersisted

USE DEF Statuses, LiveStages, Frames, client, faults

(* The results that the graph may return are results.                      *)
LEMMA ResultType ==
    /\ Graph!Running \in Graph!Results /\ Graph!Running.end = "running"
    /\ Graph!Raised \in Graph!Results /\ Graph!Raised.end = "raised"
    /\ \A x \in Graph!GatedResults : x \in Graph!Results /\ x.end = "result"
  <1>1. 0 \in Scores /\ 0 \in 0..MaxIterations
    BY ServiceAssumption
  <1>2. QED
    BY <1>1 DEF Graph!Running, Graph!Raised, Graph!GatedResults, Graph!Results, Graph!Disclaimers

(* The initial state satisfies the inductive invariant.                    *)
LEMMA InitIInv == Init => IInv
  <1> SUFFICES ASSUME Init PROVE IInv
    OBVIOUS
  <1>1. TypeOK
    <2>1. 0 \in Scores /\ 0 \in 0..MaxIterations /\ 0 \in 0..MaxDbErrors /\ 0 \in 0..MaxCrashes
      BY ServiceAssumption
    <2>2. QED
      BY <2>1, ResultType DEF Init, TypeOK, Graph!Init, Graph!Disclaimers
  <1>2. TaskInv /\ StatusHasCause /\ DonePersisted
    BY DEF Init, TaskInv, StatusHasCause, DonePersisted, Graph!Init
  <1>3. QED
    BY <1>1, <1>2 DEF IInv

(* Type correctness of a step of a graph task.                             *)
LEMMA RunStepType ==
    ASSUME TypeOK, NEW c \in Conns, RunStep(c)
    PROVE  TypeOK'
  <1>1. CASE MarkRunning(c)
    BY <1>1 DEF MarkRunning, Enter, TypeOK
  <1>2. CASE Recall(c)
    BY <1>2 DEF Recall, AfterRecall, Enter, TypeOK
  <1>3. CASE GraphReturns(c)
    <2>1. PICK x \in Graph!GatedResults : result' = [result EXCEPT ![c] = x]
      BY <1>3 DEF GraphReturns, Graph!Finish
    <2>2. result' \in [Conns -> Graph!Results]
      BY <2>1, ResultType DEF TypeOK
    <2>3. QED
      BY <1>3, <2>2 DEF GraphReturns, Enter, TypeOK
  <1>4. CASE GraphRaises(c)
    <2>1. result' \in [Conns -> Graph!Results]
      BY <1>4, ResultType DEF GraphRaises, SendError, Graph!Raise, TypeOK
    <2>2. QED
      BY <1>4, <2>1 DEF GraphRaises, SendError, Enter, Send, TypeOK
  <1>5. CASE MarkFailed(c)
    BY <1>5 DEF MarkFailed, ErrorStatus, Enter, TypeOK
  <1>6. CASE Finalise(c)
    <2>1. 0 \in Scores /\ 0 \in 0..MaxIterations
      BY ServiceAssumption
    <2>2. row' \in [final_quality : Scores, iteration_count : 0..MaxIterations,
                    disclaimer : Graph!Disclaimers, completed_at : BOOLEAN]
      BY <1>6, <2>1 DEF Finalise, Stamped, FinalState, Graph!Disclaimers
    <2>3. QED
      BY <1>6, <2>2 DEF Finalise, Stamped, Enter, TypeOK
  <1>7. CASE Remember(c)
    <2>1. memory' \in Scores
      BY <1>7, ServiceAssumption DEF Remember, FinalState, TypeOK
    <2>2. QED
      BY <1>7, <2>1 DEF Remember, Enter, TypeOK
  <1>8. CASE SendDone(c)
    BY <1>8 DEF SendDone, Enter, Send, TypeOK
  <1>9. QED
    BY <1>1, <1>2, <1>3, <1>4, <1>5, <1>6, <1>7, <1>8 DEF RunStep

(* Type correctness of every step.                                         *)
LEMMA TypeStep == TypeOK /\ [Next]_vars => TypeOK'
  <1> SUFFICES ASSUME TypeOK, [Next]_vars PROVE TypeOK'
    OBVIOUS
  <1>1. CASE Rest
    BY <1>1 DEF Rest, create_session, delete_session, AbortCheck, AbortUpdate, TypeOK
  <1>2. ASSUME NEW c \in Conns, Socket(c) PROVE TypeOK'
    <2>1. CASE Connect(c)
      BY <2>1 DEF Connect, Accepts, TypeOK
    <2>2. CASE ReceiveStart(c)
      BY <2>2 DEF ReceiveStart, Enter, TypeOK
    <2>3. CASE ReceiveStartAgain(c)
      BY <2>3 DEF ReceiveStartAgain, Send, TypeOK
    <2>4. CASE ReceiveAbort(c) \/ CloseSocket(c)
      BY <2>4 DEF ReceiveAbort, CloseSocket, TypeOK
    <2>5. QED
      BY <1>2, <2>1, <2>2, <2>3, <2>4 DEF Socket
  <1>3. ASSUME NEW c \in Conns, RunStep(c) PROVE TypeOK'
    BY <1>3, RunStepType
  <1>4. ASSUME NEW c \in Conns, UpdateFails(c) PROVE TypeOK'
    BY <1>4, ServiceAssumption DEF UpdateFails, Enter, TypeOK
  <1>5. CASE Crash
    BY <1>5, ServiceAssumption DEF Crash, Live, TypeOK
  <1>6. CASE UNCHANGED vars
    BY <1>6 DEF vars, TypeOK
  <1>7. QED
    BY <1>1, <1>2, <1>3, <1>4, <1>5, <1>6 DEF Next

(* SessionService is type correct.                                         *)
THEOREM TypeCorrect == Spec => []TypeOK
  <1>1. Init => TypeOK
    BY InitIInv DEF IInv
  <1>2. QED
    BY <1>1, TypeStep, PTL DEF Spec

(* How far the tasks are, after a step of one of them.                     *)
LEMMA RunStepTask ==
    ASSUME IInv, NEW c \in Conns, RunStep(c) \/ UpdateFails(c)
    PROVE  TaskInv' /\ DonePersisted'
  <1>0. TypeOK /\ TaskInv /\ DonePersisted
    BY DEF IInv
  <1>1. CASE MarkRunning(c)
    BY <1>0, <1>1 DEF MarkRunning, Enter, TypeOK, TaskInv, DonePersisted
  <1>2. CASE Recall(c)
    BY <1>0, <1>2 DEF Recall, AfterRecall, Enter, TypeOK, TaskInv, DonePersisted
  <1>3. CASE GraphReturns(c)
    <2>1. PICK x \in Graph!GatedResults : result' = [result EXCEPT ![c] = x]
      BY <1>3 DEF GraphReturns, Graph!Finish
    <2>2. result'[c].end = "result" /\ \A d \in Conns : d # c => result'[d] = result[d]
      BY <1>0, <2>1, ResultType DEF TypeOK
    <2>3. QED
      BY <1>0, <1>3, <2>2 DEF GraphReturns, Enter, TypeOK, TaskInv, DonePersisted
  <1>4. CASE GraphRaises(c)
    <2>1. result[c].end = "running"
      BY <1>4, ResultType DEF GraphRaises, SendError, Graph!Raise
    <2>2. result'[c].end = "raised" /\ \A d \in Conns : d # c => result'[d] = result[d]
      BY <1>0, <1>4, ResultType DEF GraphRaises, SendError, Graph!Raise, TypeOK
    <2>3. \A d \in Conns : "done" \in frames'[d] => "done" \in frames[d]
      BY <1>0, <1>4 DEF GraphRaises, SendError, Send, TypeOK
    <2>4. DonePersisted'
      BY <1>0, <1>4, <2>1, <2>2, <2>3 DEF GraphRaises, SendError, DonePersisted
    <2>5. TaskInv'
      BY <1>0, <1>4, <2>2 DEF GraphRaises, SendError, Enter, TypeOK, TaskInv
    <2>6. QED
      BY <2>4, <2>5
  <1>5. CASE MarkFailed(c)
    BY <1>0, <1>5 DEF MarkFailed, ErrorStatus, Enter, TypeOK, TaskInv, DonePersisted
  <1>6. CASE Finalise(c)
    <2>1. row'.completed_at = TRUE
      BY <1>6 DEF Finalise, Stamped
    <2>2. QED
      BY <1>0, <1>6, <2>1 DEF Finalise, Stamped, Enter, TypeOK, TaskInv, DonePersisted
  <1>7. CASE Remember(c)
    BY <1>0, <1>7 DEF Remember, Enter, TypeOK, TaskInv, DonePersisted
  <1>8. CASE SendDone(c)
    <2>1. TaskInv'
      BY <1>0, <1>8 DEF SendDone, Enter, TypeOK, TaskInv
    <2>2. row.completed_at /\ result[c].end = "result"
      BY <1>0, <1>8 DEF SendDone, TaskInv
    <2>3. DonePersisted'
      BY <1>0, <1>8, <2>2 DEF SendDone, Send, TypeOK, DonePersisted
    <2>4. QED
      BY <2>1, <2>3
  <1>9. CASE UpdateFails(c)
    BY <1>0, <1>9 DEF UpdateFails, Enter, TypeOK, TaskInv, DonePersisted
  <1>10. QED
    BY <1>1, <1>2, <1>3, <1>4, <1>5, <1>6, <1>7, <1>8, <1>9 DEF RunStep

(* The cause of the status, after a step of a task: the task that moves    *)
(* becomes the witness of the status it writes, and a task that was one    *)
(* remains one until some task writes the status again.                    *)
LEMMA RunStepCause ==
    ASSUME IInv, NEW c \in Conns, RunStep(c) \/ UpdateFails(c)
    PROVE  StatusHasCause'
  <1>0. TypeOK /\ TaskInv /\ StatusHasCause
    BY DEF IInv
  <1>1. CASE MarkRunning(c)
    <2>1. status' = "running" /\ stage'[c] = "recall"
      BY <1>0, <1>1 DEF MarkRunning, Enter, TypeOK
    <2>2. QED
      BY <2>1 DEF StatusHasCause
  <1>2. CASE MarkFailed(c)
    <2>1. status' = "failed" /\ stage'[c] = "ended" /\ result'[c].end = "raised"
      BY <1>0, <1>2 DEF MarkFailed, ErrorStatus, Enter, TypeOK, TaskInv
    <2>2. QED
      BY <2>1 DEF StatusHasCause
  <1>3. CASE Finalise(c)
    <2>1. status' = "completed" /\ stage'[c] = "remember" /\ result'[c].end = "result"
      BY <1>0, <1>3 DEF Finalise, Stamped, Enter, TypeOK, TaskInv
    <2>2. QED
      BY <2>1 DEF StatusHasCause
  <1>4. CASE GraphReturns(c) \/ GraphRaises(c)
    <2>1. /\ status' = status /\ stage[c] = "graph" /\ stage'[c] \in {"finalise", "fail"}
          /\ result[c].end = "running"
          /\ \A d \in Conns : d # c => stage'[d] = stage[d] /\ result'[d] = result[d]
      BY <1>0, <1>4, ResultType
         DEF GraphReturns, GraphRaises, SendError, Graph!Finish, Graph!Raise, Enter, TypeOK
    <2>2. QED
      BY <1>0, <2>1 DEF StatusHasCause
  <1>5. CASE Recall(c) \/ Remember(c) \/ SendDone(c) \/ UpdateFails(c)
    <2>1. /\ status' = status /\ result' = result
          /\ \/ stage[c] = "recall" /\ stage'[c] = "graph"
             \/ stage[c] = "remember" /\ stage'[c] = "notify"
             \/ stage[c] = "notify" /\ stage'[c] = "ended"
             \/ stage[c] \in {"mark", "fail", "finalise"} /\ stage'[c] = "lost"
          /\ \A d \in Conns : d # c => stage'[d] = stage[d]
      BY <1>0, <1>5 DEF Recall, AfterRecall, Remember, SendDone, UpdateFails, Enter, TypeOK
    <2>2. QED
      BY <1>0, <2>1 DEF StatusHasCause
  <1>6. QED
    BY <1>1, <1>2, <1>3, <1>4, <1>5 DEF RunStep

(* IInv is inductive.                                                      *)
LEMMA IInvStep == IInv /\ [Next]_vars => IInv'
  <1> SUFFICES ASSUME IInv, [Next]_vars PROVE IInv'
    OBVIOUS
  <1>0. TypeOK /\ TypeOK' /\ TaskInv /\ StatusHasCause /\ DonePersisted
    BY TypeStep DEF IInv
  <1>1. CASE Rest
    <2>1. UNCHANGED <<row, conn, started, stage, result, frames>> /\ status' # "absent"
      BY <1>1 DEF Rest, create_session, delete_session, AbortCheck, AbortUpdate
    <2>2. status' = status \/ status' = "aborted" \/ (status = "absent" /\ status' = "pending")
      BY <1>1 DEF Rest, create_session, delete_session, AbortCheck, AbortUpdate
    <2>3. QED
      BY <1>0, <2>1, <2>2 DEF IInv, TaskInv, StatusHasCause, DonePersisted
  <1>2. ASSUME NEW c \in Conns, Socket(c) PROVE IInv'
    <2>1. /\ UNCHANGED <<row, result>>
          /\ status' = status \/ status' = "aborted"
          /\ \A d \in Conns : "done" \in frames'[d] => "done" \in frames[d]
      BY <1>0, <1>2 DEF Socket, Connect, Accepts, ReceiveStart, ReceiveStartAgain, ReceiveAbort,
            CloseSocket, Send, TypeOK
    <2>2. status # "absent"
      BY <1>0, <1>2 DEF Socket, Connect, Accepts, ReceiveStart, ReceiveStartAgain, ReceiveAbort,
            CloseSocket, TaskInv
    <2>3. CASE stage' = stage /\ started' = started
      BY <1>0, <2>1, <2>2, <2>3 DEF IInv, TaskInv, StatusHasCause, DonePersisted
    <2>4. CASE ReceiveStart(c)
      <3>1. /\ stage[c] = "none" /\ stage'[c] = "mark" /\ started'[c] = TRUE
            /\ \A d \in Conns : d # c => stage'[d] = stage[d] /\ started'[d] = started[d]
            /\ UNCHANGED <<status, row, result, frames>>
        BY <1>0, <2>4 DEF ReceiveStart, Enter, TypeOK, TaskInv
      <3>2. TaskInv'
        BY <1>0, <2>2, <3>1 DEF TaskInv
      <3>3. StatusHasCause' /\ DonePersisted'
        BY <1>0, <3>1 DEF StatusHasCause, DonePersisted
      <3>4. QED
        BY <1>0, <3>2, <3>3 DEF IInv
    <2>5. QED
      BY <1>2, <2>3, <2>4 DEF Socket, Connect, Accepts, ReceiveStartAgain, ReceiveAbort, CloseSocket
  <1>3. ASSUME NEW c \in Conns, RunStep(c) \/ UpdateFails(c) PROVE IInv'
    BY <1>0, <1>3, RunStepTask, RunStepCause DEF IInv
  <1>4. CASE Crash
    <2>1. /\ UNCHANGED <<status, row, result, frames, started>>
          /\ \A c \in Conns : stage'[c] = stage[c] \/ (stage[c] \in LiveStages /\ stage'[c] = "lost")
          /\ \A c \in Conns : conn[c] = "none" => conn'[c] = "none"
      BY <1>4 DEF Crash, Live
    <2>2. QED
      BY <1>0, <2>1 DEF IInv, TaskInv, StatusHasCause, DonePersisted
  <1>5. CASE UNCHANGED vars
    BY <1>0, <1>5 DEF vars, IInv, TaskInv, StatusHasCause, DonePersisted
  <1>6. QED
    BY <1>1, <1>2, <1>3, <1>4, <1>5 DEF Next

(* The status of the row always has a cause.                               *)
THEOREM StatusHasCauseHolds == Spec => []StatusHasCause
  <1>1. IInv => StatusHasCause
    BY DEF IInv
  <1>2. QED
    BY <1>1, InitIInv, IInvStep, PTL DEF Spec

(* A client is only told done once the outcome of its run is in the row.   *)
THEOREM DonePersistedHolds == Spec => []DonePersisted
  <1>1. IInv => DonePersisted
    BY DEF IInv
  <1>2. QED
    BY <1>1, InitIInv, IInvStep, PTL DEF Spec

(* A settled session stays settled.                                        *)
THEOREM SettledStaysHolds == Spec => SettledStays
  <1>1. TypeOK /\ [Next]_vars => [Settled => Settled']_vars
    <2> SUFFICES ASSUME TypeOK, Next, Settled PROVE Settled'
      BY DEF Settled
    <2>1. CASE Rest
      BY <2>1 DEF Rest, create_session, delete_session, AbortCheck, AbortUpdate, Settled, Live
    <2>2. ASSUME NEW c \in Conns, Socket(c) PROVE Settled'
      BY <2>2 DEF Socket, Connect, Accepts, ReceiveStart, ReceiveStartAgain, ReceiveAbort,
         CloseSocket,
            Send, Settled, Live, TypeOK
    <2>3. ASSUME NEW c \in Conns, RunStep(c) \/ UpdateFails(c) PROVE FALSE
      BY <2>3 DEF RunStep, MarkRunning, Recall, AfterRecall, GraphReturns, GraphRaises,
         SendError, MarkFailed, ErrorStatus, Finalise, Stamped,
            Remember, SendDone, UpdateFails, Settled, Live
    <2>4. CASE Crash
      BY <2>4 DEF Crash, Settled, Live, TypeOK
    <2>5. QED
      BY <2>1, <2>2, <2>3, <2>4 DEF Next
  <1>2. QED
    BY <1>1, TypeCorrect, PTL DEF Spec, SettledStays
=============================================================================

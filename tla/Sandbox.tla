------------------------------ MODULE Sandbox ------------------------------
(***************************************************************************)
(* Running a task's code: the gRPC client of backend/tools/code_executor.py *)
(* and the server of sandbox/server.py, a pool of workers that write the   *)
(* script to a file, run it and wait for it, at most _HARD_TIMEOUT.        *)
(*                                                                         *)
(* The client's call blocks its event loop, so a process has one call at a *)
(* time.  Time passes in ticks, and only when nothing is due: the client's *)
(* extra seconds are taken to cover everything but waiting.  A script may  *)
(* start processes that inherit its output pipes and outlive it.           *)
(***************************************************************************)
EXTENDS Naturals, Sequences, FiniteSets

CONSTANTS
    Processes,      \* API processes
    Calls,          \* calls of execute_code
    Workers,        \* max_workers of the pool
    Timeout,        \* _HARD_TIMEOUT, in ticks
    Grace,          \* what the client's deadline adds
    MaxOrphans,     \* bound: scripts that leave a process behind
    MaxFailures     \* bound: script files and processes that cannot be made

NoCall == "none"

ASSUME SandboxAssumption ==
    /\ IsFiniteSet(Processes)
    /\ IsFiniteSet(Calls) /\ NoCall \notin Calls
    /\ Workers \in Nat \ {0}
    /\ Timeout \in Nat \ {0}
    /\ Grace \in Nat \ {0}
    /\ MaxOrphans \in Nat
    /\ MaxFailures \in Nat

VARIABLES
    blocked,    \* the call each process waits in, or NoCall
    result,     \* SandboxResult of each call: "none" while there is none
    age,        \* ticks since the call was made
    queue,      \* requests waiting for a worker
    job,        \* what the worker of each call does
    ran,        \* ticks since its script was started
    child,      \* the script: "none", "alive" or "dead"
    held,       \* calls whose pipes some descendant of the script holds
    files,      \* calls whose script file is in /tmp
    orphans, failures

sandboxVars == <<blocked, result, age, queue, job, ran, child, held, files, orphans, failures>>
client == <<blocked, result, age>>
bounds == <<orphans, failures>>

Answers == {"success", "nonzero", "timeout", "exception"}
Busy == {c \in Calls : job[c] \in {"spawn", "wait", "drain"}}

(* Mutant: a deadline without the extra seconds.                           *)
DeadlineBare == Timeout

(* The timeout of the gRPC call.                                           *)
Deadline == Timeout + Grace

SandboxTypeOK ==
    /\ blocked \in [Processes -> Calls \cup {NoCall}]
    /\ result \in [Calls -> Answers \cup {"none", "rpc_error"}]
    /\ age \in [Calls -> 0..Deadline]
    /\ queue \in Seq(Calls)
    /\ job \in [Calls -> {"none", "queued", "spawn", "wait", "drain", "raised", "dropped"}
                         \cup Answers]
    /\ ran \in [Calls -> 0..Timeout]
    /\ child \in [Calls -> {"none", "alive", "dead"}]
    /\ held \in SUBSET Calls
    /\ files \in SUBSET Calls
    /\ orphans \in 0..MaxOrphans
    /\ failures \in 0..MaxFailures

SandboxInit ==
    /\ blocked = [p \in Processes |-> NoCall]
    /\ result = [c \in Calls |-> "none"]
    /\ age = [c \in Calls |-> 0]
    /\ queue = << >>
    /\ job = [c \in Calls |-> "none"]
    /\ ran = [c \in Calls |-> 0]
    /\ child = [c \in Calls |-> "none"]
    /\ held = {}
    /\ files = {}
    /\ orphans = 0
    /\ failures = 0

Waiting(c) == \E p \in Processes : blocked[p] = c

-----------------------------------------------------------------------------
(* Client: execute_code.                                                   *)

execute_code(p, c) ==
    /\ blocked[p] = NoCall
    /\ job[c] = "none"
    /\ blocked' = [blocked EXCEPT ![p] = c]
    /\ job' = [job EXCEPT ![c] = "queued"]
    /\ queue' = Append(queue, c)
    /\ UNCHANGED <<result, age, ran, child, held, files, bounds>>

Return(p, r) ==
    /\ result' = [result EXCEPT ![blocked[p]] = r]
    /\ blocked' = [blocked EXCEPT ![p] = NoCall]
    /\ UNCHANGED <<age, queue, job, ran, child, held, files, bounds>>

(* The response; an exception of the servicer is an RpcError.              *)
Outcome(c) == IF job[c] = "raised" THEN "rpc_error" ELSE job[c]

Receive(p) ==
    /\ blocked[p] # NoCall
    /\ job[blocked[p]] \in Answers \cup {"raised"}
    /\ Return(p, Outcome(blocked[p]))

(* Mutant: the call has no deadline.                                       *)
DeadlineExceededNever(p) == FALSE /\ Return(p, "rpc_error")

(* The deadline passes: a failed result like any other RpcError.  The      *)
(* server's worker goes on.                                                *)
DeadlineExceeded(p) ==
    /\ blocked[p] # NoCall
    /\ age[blocked[p]] = Deadline
    /\ Return(p, "rpc_error")

-----------------------------------------------------------------------------
(* Server: Execute and _run_code.                                          *)

(* A free worker takes the next request and writes the script to a file.   *)
WriteScript(c) ==
    /\ queue # << >> /\ c = Head(queue)
    /\ Cardinality(Busy) < Workers
    /\ queue' = Tail(queue)
    /\ job' = [job EXCEPT ![c] = "spawn"]
    /\ files' = files \cup {c}
    /\ UNCHANGED <<client, ran, child, held, bounds>>

(* The request of a call that has been given up may be dropped instead.    *)
DropRequest(c) ==
    /\ queue # << >> /\ c = Head(queue)
    /\ Cardinality(Busy) < Workers
    /\ ~Waiting(c)
    /\ queue' = Tail(queue)
    /\ job' = [job EXCEPT ![c] = "dropped"]
    /\ UNCHANGED <<client, ran, child, held, files, bounds>>

(* The file cannot be made or written: the exception leaves the servicer,  *)
(* and a file that was made stays.                                         *)
WriteFails(c) ==
    /\ queue # << >> /\ c = Head(queue)
    /\ Cardinality(Busy) < Workers
    /\ failures < MaxFailures
    /\ failures' = failures + 1
    /\ queue' = Tail(queue)
    /\ job' = [job EXCEPT ![c] = "raised"]
    /\ files' \in {files, files \cup {c}}
    /\ UNCHANGED <<client, ran, child, held, orphans>>

Popen(c) ==
    /\ job[c] = "spawn"
    /\ job' = [job EXCEPT ![c] = "wait"]
    /\ child' = [child EXCEPT ![c] = "alive"]
    /\ UNCHANGED <<client, queue, ran, held, files, bounds>>

(* Popen raises outside the try whose finally unlinks the file.            *)
PopenRaises(c) ==
    /\ job[c] = "spawn"
    /\ failures < MaxFailures
    /\ failures' = failures + 1
    /\ job' = [job EXCEPT ![c] = "exception"]
    /\ UNCHANGED <<client, queue, ran, child, held, files, orphans>>

(* Mutant: the file is not removed.                                        *)
UnlinkNot(c) == files' = files

(* The finally clause.                                                     *)
Unlink(c) == files' = files \ {c}

(* communicate() waits for the script and for the end of its pipes.        *)
Communicate(c) ==
    /\ job[c] = "wait"
    /\ child[c] = "dead"
    /\ c \notin held
    /\ \E a \in {"success", "nonzero"} : job' = [job EXCEPT ![c] = a]
    /\ Unlink(c)
    /\ UNCHANGED <<client, queue, ran, child, held, bounds>>

(* TimeoutExpired: the script is killed, what it has started is not.       *)
Kill(c) ==
    /\ job[c] = "wait"
    /\ ran[c] = Timeout
    /\ child' = [child EXCEPT ![c] = "dead"]
    /\ job' = [job EXCEPT ![c] = "drain"]
    /\ UNCHANGED <<client, queue, ran, held, files, bounds>>

(* The second communicate(), which has no timeout.                         *)
Drained(c) ==
    /\ job[c] = "drain"
    /\ c \notin held
    /\ job' = [job EXCEPT ![c] = "timeout"]
    /\ Unlink(c)
    /\ UNCHANGED <<client, queue, ran, child, held, bounds>>

-----------------------------------------------------------------------------
(* The scripts.                                                            *)

ScriptForks(c) ==
    /\ child[c] = "alive"
    /\ c \notin held
    /\ orphans < MaxOrphans
    /\ orphans' = orphans + 1
    /\ held' = held \cup {c}
    /\ UNCHANGED <<client, queue, job, ran, child, files, failures>>

ScriptExits(c) ==
    /\ child[c] = "alive"
    /\ child' = [child EXCEPT ![c] = "dead"]
    /\ UNCHANGED <<client, queue, job, ran, held, files, bounds>>

PipesClose(c) ==
    /\ c \in held
    /\ held' = held \ {c}
    /\ UNCHANGED <<client, queue, job, ran, child, files, bounds>>

ServerStep(c) ==
    \/ WriteScript(c) \/ DropRequest(c) \/ WriteFails(c)
    \/ Popen(c) \/ PopenRaises(c) \/ Communicate(c) \/ Kill(c) \/ Drained(c)

ClientStep(p) == Receive(p) \/ DeadlineExceeded(p)

(* Something is due now: a worker or a client can go on.                   *)
Due ==
    \/ queue # << >> /\ Cardinality(Busy) < Workers
    \/ \E c \in Calls :
         \/ job[c] = "spawn"
         \/ job[c] = "wait" /\ (ran[c] = Timeout \/ (child[c] = "dead" /\ c \notin held))
         \/ job[c] = "drain" /\ c \notin held
    \/ \E p \in Processes :
         /\ blocked[p] # NoCall
         /\ age[blocked[p]] = Deadline \/ job[blocked[p]] \in Answers \cup {"raised"}

Tick ==
    /\ ~Due
    /\ (\E p \in Processes : blocked[p] # NoCall) \/ (\E c \in Calls : job[c] = "wait")
    /\ age' = [c \in Calls |-> IF Waiting(c) THEN age[c] + 1 ELSE age[c]]
    /\ ran' = [c \in Calls |-> IF job[c] = "wait" THEN ran[c] + 1 ELSE ran[c]]
    /\ UNCHANGED <<blocked, result, queue, job, child, held, files, bounds>>

SandboxNext ==
    \/ \E p \in Processes : ClientStep(p) \/ \E c \in Calls : execute_code(p, c)
    \/ \E c \in Calls : ServerStep(c) \/ ScriptForks(c) \/ ScriptExits(c) \/ PipesClose(c)
    \/ Tick

SandboxSpec == SandboxInit /\ [][SandboxNext]_sandboxVars

(* Clocks run, workers and clients go on when they can.  Scripts and what  *)
(* they start need not end.                                                *)
SandboxFairSpec ==
    /\ SandboxSpec
    /\ WF_sandboxVars(Tick)
    /\ WF_sandboxVars(\E c \in Calls : ServerStep(c))
    /\ WF_sandboxVars(\E p \in Processes : ClientStep(p))

-----------------------------------------------------------------------------
(* Properties.                                                             *)

(* "extra 5s for gRPC overhead": the server's timeout comes before the     *)
(* client's deadline.  While every process can have a worker, no script    *)
(* leaves anything behind and nothing fails, a call is always answered by  *)
(* the server, with the true reason.                                       *)
ServerAnswersFirst ==
    Cardinality(Processes) <= Workers /\ orphans = 0 /\ failures = 0 =>
        \A c \in Calls : result[c] # "rpc_error"

(* Script files do not pile up in the 128 MB of /tmp: each belongs to a    *)
(* worker or to one of the failures that the code does not clean up after. *)
FilesAccounted ==
    /\ files \subseteq Busy \cup {c \in Calls : job[c] \in {"raised", "exception"}}
    /\ Cardinality(files) <= Workers + failures

(* A process that waits for the sandbox is released whatever the script    *)
(* does: its event loop is held up for the deadline at most.               *)
EventLoopReleased ==
    \A p \in Processes : \A c \in Calls : blocked[p] = c ~> blocked[p] # c
=============================================================================

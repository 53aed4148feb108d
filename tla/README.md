# A verification project for Project Nexus

Project Nexus takes a goal from a user and lets five LLM agents work on it: a planner
makes a DAG of tasks, a researcher calls tools for them, an executor writes and runs
code, a verifier and a reflector judge the outcome, and below a quality of 0.85 the
pipeline plans again, at most three times. This directory holds TLA+ modules
translated from that code, the TLC configurations that check them on small instances,
and proofs checked by TLAPS. Paths are relative to the repository, under `src/`.

## 1. Inventory

| Part | State it keeps | Operations | What must hold |
|---|---|---|---|
| Agent graph `backend/core/graph.py`, `state.py` | channels of `NexusState`: plan, iteration count, score, disclaimer, error log | six nodes, two conditional edges | a result below the gate carries a disclaimer; the replan cycle ends within `max_iterations` and LangGraph's superstep budget |
| Loop detector `backend/core/loop_detector.py` | Redis set of plan hashes per session, 1 h expiry | `check` | a plan is let through once, again only when Redis lost track of it |
| Planner `backend/agents/planner.py` | none | `validate_task_dag`, `_check_no_cycles` | exactly the DAGs get through |
| Researcher, executor `backend/agents/researcher.py`, `executor.py`, `base.py` | statuses, research and outputs per task | `topological_sort`, tool dispatch, task loop with LLM retries | dependencies first; every task gets a status that agrees with its output |
| Verifier, reflector `backend/agents/verifier.py`, `reflector.py` | none | normalise a report, recompute the score | a session passes on the mean of its dimensions, not on the model's word |
| LLM calls `backend/agents/base.py` | the agent's router, its attempt | construct, ask, retry, parse | an agent stays with its provider; every call ends |
| WebSocket handler `backend/api/ws/run.py` | connections, `started` flags, graph tasks, the loop's own iteration count | handshake, start, abort, idle timeout, the task with its UPDATEs and its event loop | the row tells what happened; `done` comes after the outcome is stored; the frames tell what the graph does |
| REST endpoints `backend/api/routes/sessions.py`, `auth.py`, `deps.py` | `sessions` and `users` tables, tokens | create, delete, abort; list, get, events (read only); register, login | ended sessions are not revived; one account per email; answers confined to the account; pages cover the list |
| Memory `backend/core/memory.py`, `tools/rag_recall.py` | Pinecone index, embedding cache in Redis | `store_if_good`, `recall_for_user`, `rag_recall` | good sessions are remembered, per user |
| Model router `backend/core/models.py`, `api/routes/config.py`, `api/main.py` | the router singleton, the mode stored in Redis | read, switch, load at start-up | stored and active mode agree |
| Tools `backend/tools/` | tool registry, gRPC channel | five tools | a call ends, by an answer or by its deadline |
| Sandbox `sandbox/server.py` | worker pool, script files | `Execute` | every call ends by its timeout |
| Browser `frontend/src/hooks/useNexusStream.ts`, `pages/Session.tsx`, `components/SessionSidebar.tsx` | socket, retry count, timers, frames, status, running flag | go to a session with or without its goal, leave, socket events, reconnect | one stream per visit, bounded attempts, a page that waits has something to wait for, reconnecting ends |
| Prompts and context `backend/core/context.py` | prompt cache | four context builders | budgets kept, instructions not cut off |
| Scripts `scripts/eval_accuracy.py`, `reset_memory.py` | the last score and iteration received | register or log in, read the stream, judge; empty the tables | a PASS is true |
| Health probes, database clients | none of their own | wiring | - |

How they interact: the browser creates a session over REST and opens a WebSocket; the
handler starts a task that runs the graph and writes the row; `POST /abort`, `DELETE`
and an abort frame write the same row without talking to the task. Nodes construct
their agents anew and take the model router as it is then. All server code runs on one
event loop, so steps interleave exactly where a coroutine awaits.

What is hard here: interleavings of the handler, the task and the REST handlers around
the status column; checks separated from the writes they protect; failures that are
caught and turned into text or a log line, so that the pipeline goes on with something
stale; timeouts that race the end of a run; a crash with no persisted checkpoint;
counters compared in several places. `PROJECT.json` lists these hazards line by line.

## 2. Modules

| Module | Models | Notes |
|---|---|---|
| `PipelineRun` | what a graph run promises its caller: it ends once, with a gated result or an exception | abstract specification |
| `NexusGraph` | the graph and the loop detector, for all runs of a session | implements `PipelineRun` |
| `SessionService` | the session row, the WebSocket handler, the graph task, REST writers, crash | uses `PipelineRun` for the graph inside a task |
| `TaskRounds` | researcher and executor over the tasks of a plan, across iterations | details the two nodes of `NexusGraph` |
| `PlanDag` | plan validation, cycle search, levels | gives `TaskRounds` its assumption that plans are DAGs |
| `RunStream` | the event loop of `_run_graph`, its frames, and what the Session page and the evaluation script make of them | extends `NexusGraph` |
| `StreamClient` | the browser's hook and the mounted Session page, from session to session, against the handshake and the idle timeout | the client of `SessionService` |
| `ProviderSwitch` | router singleton, switch requests, stored mode, restart | |
| `Prompts` | the four context builders, by the lengths of their parts | operators |
| `Reports` | what verifier and reflector make of the model's object | operators, extends `Prompts` |
| `AgentCall` | an agent from its construction to its result: prompts, attempts, answers, while the provider is switched | composes `ProviderSwitch`, `Prompts` and `Reports` |
| `Accounts` | register, login, tokens, and the reading of sessions by several clients | the other REST requests are in `SessionService` |
| `Sandbox` | the gRPC client of `code_executor.py` and the sandbox server's workers | details the sandbox outcome of `TaskRounds` |
| `Memory` | `store_if_good`, `recall_for_user`, `rag_recall`, embedding cache and index | what `SessionService` calls before and after a run |
| `MC*` | constants for TLC | |
| `RunStreamProofs` | theorems about `NexusGraph` and `RunStream` | section 5 |
| `ExecutorProofs` | theorems about `TaskRounds` and `Sandbox` | section 5 |
| other `*Proofs` | theorems about the module of that name | `AgentCallProofs` also about `ProviderSwitch`, `Prompts` and `Reports` |

Definitions that begin with "Mutant" in their comment are plausible bugs; each property
of a passing run is shown to fail when its mutant replaces the real definition.

**NexusGraph.** A node is one step, as LangGraph writes a node's updates when it
returns. `pc` is the node to run next, the other variables are channels. `Planner`
counts the iteration, then takes the hard cap, fails (the old plan stays, the error is
logged), or takes a new plan and asks the detector. `CheckOutcomes` lists everything
`LoopDetector.check` can do: `_plan_hash` raises for plans of two or more tasks
(`sorted` compares dicts), Redis may fail before or after SADD took effect. The four
channels that only feed prompts are left out. `passes`, `misses` and `supersteps` are
history variables.

**RunStream.** A step of the graph also queues the events of its node; the graph may be
`MaxLag` events ahead of the loop. `TakeEvent` is one turn of the loop with all the
frames it sends (`FramesOf`); `Deliver` lets the socket go before any of them, closed by
the server or dropped. `Shows` is what both readers hold of a frame: the Session page
its active agent, iteration and score, the script its score and iteration. A reader
whose socket was closed in order keeps what it had; after a drop the script raises.

**SessionService.** One session. Each await on Postgres or on the graph ends a step, so
`abort_session` is two steps and the task is eight. `FinalState` is what the code takes
for the final state: the output node's own return value. Clients may connect, start,
abort and leave at any time; `UpdateFails` and `Crash` are the faults.

**TaskRounds.** An output, or a text of the researcher, is the number of the round that
produced it, so that a stale one can be told from a fresh one. The research of a level is
one step (the calls run concurrently and are merged when all have returned), and each of
its tasks gets a text whatever its tools do, since an exception becomes one; the executor
goes task by task, call by call.

**PlanDag.** The recursive `dfs` is a stack of frames, each with the dependency it is
at; one step per test of the code. `topological_sort` counts in-degrees with
repetitions and releases levels. The schema checks are one flag per task, except those
on ids, dependencies and the number of tasks.

**StreamClient.** One mounted Session page and its hook. The route `/session/:id` keeps the
component, so the user goes from session to session without unmounting it: `connect` is
the page's effect for a session with its goal in `location.state` (a new session, or
browser Back and Forward), `FollowLink` the same effect for a link of the sidebar, which
has no goal and so only runs the cleanup, and `Leave` going home. All three close the
current socket (`disconnect`), none clears a timer. Sockets are kept in the order they
were opened, each with its session, network state, handler, pending timer, unread frames
and the server's task. A timer connects to the session of the visit that set it and makes
that socket the current one, whatever the page shows by then; a socket closed before it
was open still fires its error event (`onerror`). A stream is a socket whose close will
be handled, or a timer; `strays` is a history variable: the streams that were there at
the last visit besides the one it closed. A socket is refused when its session is no
longer pending. `ReceiveStart` includes the task's first UPDATE; a start frame may be
under way for any time before it. The server's 60 second timeout may strike after that
UPDATE, which is taken to need less time.

**ProviderSwitch.** A router is its mode. A switch replaces it and then waits for Redis;
the SET may fail before or after taking effect, which the code only logs. A restart
loads the stored mode, or nothing when Redis or the constructor fails.

**Prompts, Reports, AgentCall.** Texts are their lengths, with the true lengths of the
headings, so that truncation is arithmetic; `Slice` is Python's, which counts from the
end when its bound is negative. Scores are ten-thousandths, NaN, infinite, absent or not
convertible. `Construct` is a node making its agent, which keeps the router it found;
an answer may be an object, JSON that is not an object, malformed (not asked again) or
fail (asked at most three times). The executor goes on with its next task after an
`AgentError`, the others raise. `asked` is a history variable.

**Accounts.** Each SQL statement is a step. The INSERT of a session takes `created_at`
when it begins and becomes visible when it commits. `list_sessions` is a client's
reading of all pages, each of which is two statements; `answer` is the last response
about sessions, with what was there when the reading began. A registration that loses
the race is answered with 500 and changes nothing. `creator` is a history variable.

**Sandbox.** The client's call blocks its event loop, so each API process has one call.
A request waits for one of `Workers` threads, which writes the script, starts it and
waits. Time passes in ticks and only when no worker or client has anything to do, which
says that everything but waiting fits into the client's `Grace` (five seconds in the
code). Scripts run as long as they like and may leave a process that holds their pipes;
both waits of the server end only when the pipes are closed. A script file that could
not be written to, or whose process could not be started, is left where it is.

**Memory.** A text is its name and length, a vector the text and the number of
characters that were embedded. The lookup, the call of OpenAI and the write of the cache
are steps of their own, since each awaits. `memory.py` survives a failing cache and
embeds the whole text; `rag_recall.py` lets the exception out and embeds the first 8000
characters, under the key of the whole text. `recall_for_user` and `rag_recall` take
texts of any length, what is stored has at most 2502 characters. The application's
own callers do less: `ws/run.py` never passes a quality (`session_memory` below), and the
researcher calls `rag_recall` with an empty user, which finds nothing.

## 3. Runs

Passing runs:

| Run | Instance | Shows |
|---|---|---|
| `graph` | two runs of a session, one of them followed by a client, two iterations, a plan that can be hashed and one that cannot, scores below and at the gate, one Redis lapse, the tightest recursion limit | `QualityGate`, `RunBounded`, `ResultExplained`, `RepeatsPaidFor`, `VerdictEndsRun`, `PageFollows`, `VerdictSound`, and that the graph implements `PipelineRun`, its fair part included: every run ends |
| `session` | two connections, an abort request, one failing UPDATE, one crash | `StatusHasCause`, `DonePersisted`, `SettledStays`; as long as no fault happens, `RunningEnds` and `OpenClientHears` |
| `tasks` | three rounds, four plans that reuse ids, three LLM attempts | `DependenciesFirst`, `RoundAccounted`, `RoundEnds` |
| `plan_dag` | all 2197 plans of three tasks with lists of up to two dependencies, and five malformed ones | `CircularMeansCycle`, `AcceptedIsDag`, `LevelsAreReleased`, `Decided` |
| `stream` | two sessions, two visits, two retries, one network failure, the user going on or home at any time | `AttemptsBounded`, `OneStream`, `NeverStuck`, `ComesToRest` |
| `sandbox` | two processes, two workers, three calls, two processes left behind, one failed start | `ServerAnswersFirst`, `FilesAccounted`, `EventLoopReleased` |
| `memory` | three calls, two users, texts of 2502, 4000 and 9000 characters, qualities on both sides of the threshold, two failures or expiries | `CacheCoherent`, `IndexSound`, `RecallScoped`, `CacheOutageTolerated` |
| `agent_call` | one agent of any kind, seven jobs with prompts below and far above their limits, twelve reflections and three reports at the edges of the validators, two switch requests, one Redis failure, two restarts | `SerialSwitchesAgree`, `OneModePerAgent`, `PromptFits`, `VerdictGuarded`, `CallEnds` |
| `accounts` | two clients of one account and one of another, pages of one row, two sessions, one TRUNCATE | `OneAccount`, `AnswersScoped`, `PagesCover` |

The modules' type invariants are not part of the runs: they are theorems of the
specifications (section 5). Calls in
`memory` and the clients of one account in `accounts` are interchangeable, which the
runs use as a symmetry; neither checks liveness.

Why the bounds are enough. Two runs, connections or requests are what races need, since
each handler reads and writes shared state at most once per step. For every invariant
and action property the theorems of section 5 remove the bounds; they matter for the
liveness properties and for the mutants. One followed
run is enough for its stream, since frames depend on no other run; the second run makes
loops and lapses that the first one's client sees. `MaxLag = 2` lets a whole node and the
start of the next pass before the loop looks. One agent shows its own attempts against
two switches and a restart, and agents share nothing but the router. Pages of one row
make two sessions two pages, with an insert and a commit between any two statements. Two iterations
give a first, a repeated and a last one, and `RecursionLimit = 5 * 2 + 1` is the tight
limit for them; the theorem covers the code's 3 and 25. Three tasks hold every shape the
search tells apart: self-loops, two- and three-cycles, shared and repeated dependencies.
In `stream` two visits are what it takes for a timer of one session to fire on the page
of another, two retries let a reconnection fail and be tried again (the server's timeout
and its refusals close sockets too, so one network failure is enough), and a stray may
have a timer of its own when it closes in turn. Three calls on two workers, or on
one cache entry, make one wait, or read what another has written. `Timeout = 2` and
`Grace = 1` ticks let a script end before, at and after its timeout. Fault counters
(`MaxLapses`, `MaxDbErrors`, `MaxCrashes`, `MaxDrops`, `MaxFaults`,
`MaxRestarts`, `MaxOrphans`, `MaxFailures`, `MaxResets`) only bound how many are explored; two faults
in `memory` let the cache fail both when it is read and when it is written. Deadlock checking is off because every one of these
systems may stop: runs end, sessions settle, plans are decided, users leave.

Runs that show a disagreement between the code and what the repository says of it:

| Run | The code | The repository |
|---|---|---|
| `graph_repeated_plan` | a plan of two tasks is executed again and again although Redis never fails, because hashing it raises and the exception is ignored | `loop_detector.py:5`: a repeated plan "is marked loop_detected and exits" |
| `session_memory` | a run of quality 0.85 leaves nothing in memory, because the task reads the output node's own updates | `memory.py:74`: upsert "if final quality >= 0.70" |
| `tasks_dependency_outputs` | the prompt of a task shows "(no output)", or an earlier iteration's output, of a dependency that has just succeeded | `prompts/executor.md:28` |

Further disagreements met while modelling, each reachable in the model named and not
kept as a run.

* Sessions. Two connections opened while the session is pending both run the graph
  (`SessionService`; `ws/run.py:208` refuses a second start). A run completes between
  the check and the UPDATE of `abort_session`, and `aborted` replaces the outcome
  (`AbortCheck`, `AbortUpdate`; `sessions.py:211` answers an ended session with 409).
  Neither abort stops the task, which later sets `completed`. A `loop_detected`
  disclaimer reaches neither the row nor the client (`FinalState`). The idle timeout
  closes the socket of a client that only listens and the `done` frame is dropped
  (`CloseSocket`). A crash leaves the row `running` for ever (`Crash`).
* Stream. After start no reconnection can succeed, as the handshake takes only pending
  sessions (`Handshake`; `useNexusStream.ts:1` "auto-reconnect"). Since the server closes
  every client that only listens, a page that showed `done` goes on to `connecting` and,
  when its retries are used up, to `error` (`IdleTimeout`, `onclose`; `Session.tsx:101`
  has a badge for `done`). A reconnection timer is never cleared: it outlives the visit
  and the page, gives the hook a second socket on another session's page, whose frames go
  into that page's log and whose retries are the page's own, and makes more attempts than
  the header's "max 3" (`TimerFires`; `AttemptsBounded`, `OneStream` and `NeverStuck` say
  exactly how much more, in terms of `strays`). It also replaces `wsRef`, so that the
  page's own socket is no longer closed by `disconnect`. A link of the sidebar keeps the
  frames of the session before (`FollowLink`), and the error event of a socket closed
  while opening sets `error` on the next page (`onerror`). The page's running flag is false
  while the server still runs a session that was left or given up (`FollowLink`, `Leave`;
  `ProviderToggle.tsx:57` "Cannot switch provider while a session is running"). The
  `feedback` of a replan frame and the `breakdown` of a score frame are always empty, as
  neither key is in the output of the node they are read from, and the final score of
  `done` is always 0 (`FramesOf`, `FinalState`). After an error the page still shows the
  agent that raised as active (`PageShows`).
* Evaluation. The script ends without an exception when the server closes the socket,
  and judges by the last score (`Cut`); runs of a single iteration are reported with 0
  iterations, since only replan frames carry the count (`_run_via_ws`).
* Agents. With no positive dimension the model's own score passes (`Quality`;
  `reflector.py` calls the mean a guard against manipulation), and NaN counts as 1.0
  (`Clamp`). The verifier's last instruction can be cut off, since its parts may have
  56000 characters and the whole 48000; the reflector's builder does not summarise
  (`ReflectorParts`; rule 5 of `context.py`). No executor task is given the extract model
  (`TaskType`). `base.py:66` says that exhausted retries are appended to the error log;
  they are appended to a copy that is thrown away. The researcher passes `query`,
  `session_id` and `user_id` to whichever tool is hinted (`researcher.py:66`), so that the
  call of `web_search`, which has no `user_id`, and those of `api_caller`, `code_exec` and
  `file_write` raise a TypeError that becomes a "No results found" text;
  `prompts/researcher.md:10` and `backend/tests/unit/test_reflector.py` (which mocks `get_tool`)
  expect the results of `web_search` in the research context. This holds of every call,
  whatever happens before it, so no model is needed to see it.
* Requests. A completed session cannot be read: asyncpg gives `final_output` as text
  where `schemas.py:65` takes an object or null (`SessionDetail`). The loser of two
  registrations is answered 500, not 409 (`RegisterInsert`). Two overlapping switches
  may leave one mode in memory and the other in Redis (`Switch`, `Persist`).
* Sandbox. A process that a script leaves behind and that holds its pipes keeps a
  worker in the second `communicate()`, which has no timeout (`Drained`;
  `sandbox/server.py:35` calls its timeout an "absolute ceiling").

## 4. Fairness

* `NexusGraph`, `TaskRounds`: weak fairness of a run's (a node's) steps. LLM calls have
  three attempts and the sandbox call a deadline, so a node returns or raises.
* `SessionService`: weak fairness of each task's steps and of an abort request that has
  passed its check, as the event loop serves every ready coroutine. Clients are not
  fair: they need not connect, start or stay. The two liveness properties are claimed
  for behaviours without faults (`RunningEnds`: no database error and no crash;
  `OpenClientHears`: no database error), because the code has nothing that would bring
  about the promised end after one.
* `PlanDag`: weak fairness of the next step of sequential code.
* `StreamClient`: weak fairness of event dispatch, timers and the server, whose timeout
  eventually strikes. The user is not fair, but goes from session to session only
  `MaxVisits` times: `ComesToRest` is about what happens when that has stopped.
* `Sandbox`: weak fairness of the clock, of the workers and of the clients. Scripts and
  what they start are not fair: they need not end.
* `RunStream`: as `NexusGraph`, and the loop takes every event that is queued.
* `AgentCall`: weak fairness of an agent's steps. The clients of the providers and of
  the sandbox have timeouts, and a sleep between attempts ends. Nobody need construct an
  agent, switch or restart.
* `ProviderSwitch`, `Memory` and `Accounts` claim no liveness.

## 5. What is proved

Checked by TLAPS for every value of the constants that satisfies the modules' ASSUMEs:
every invariant and every action property that a run checks, the type invariant of every
specification, and that the graph implements `PipelineRun` as far as safety goes. Each
rests on an inductive invariant, a conjunction of named parts, with one lemma or step per
action; the theorems of one module follow from one invariant.

**RunStreamProofs**, the graph (assumes that plans have at most ten tasks and equal bodies
equal sizes, scores are in 0..10000, and `5 * MaxIterations + 1 <= RecursionLimit`).
`IInv` is type correctness and three parts. `ControlInv` says for each node what the
counters are there (`AtNode`: `supersteps` is a function of node and iteration, with the
disclaimer and score that the path implies): the gate and the cap are conclusions at the
last node about decisions taken at an earlier one, so each node's position has to carry
them. `PlanInv` ties an empty plan to a logged planner error. `DetectorInv` bounds
`passes` by `misses` and by whether the hash is in the set. From it follow
`QualityGateHolds`, `RunBoundedHolds` (from `IterationCapHolds` and
`WithinRecursionLimitHolds`), `MaxIterationsMeansAllHolds`, `RepeatsPaidForHolds`, `ResultExplainedHolds`,
`VerdictEndsRunHolds`, and `Refinement` (`Spec => PR!Spec`: every step of the graph is a
step of `PipelineRun` or leaves its result alone).

**RunStreamProofs**, the stream. `FollowedGraph` (`StreamSpec => Spec`): following a run
changes nothing about it, so that what is proved of the graph holds of what `graph`
checks. `PageFollowsHolds` and `VerdictSoundHolds` are about a reader that lags behind the
graph by any number of events, so `PageFollows`, which speaks of an empty queue, is not
inductive. `FollowInv` compares reader and graph through the queue: replaying the queued
events on what the reader shows (`Replays`, one `After` per event) gives what the graph
does now (`Matches`). A step of the graph appends to the replay, a turn of the loop takes
its first event off, and `ReplayAppend` and `ReplayTail` say that both keep it.
A passing score anywhere in the queue or in a view means that the run has met the gate
(`Met`), which is what makes a verdict given before the end of the run true.

**SessionServiceProofs**. `TypeCorrect`; `StatusHasCauseHolds` and `DonePersistedHolds`
rest on `TaskInv`, which relates the stage of each task to its graph's result and to the
frames sent, because the cause of a status is a fact about the task that wrote it and
not about the row; `SettledStaysHolds` is the action property, proved step by step:
whatever could revive a session needs a live task or an unstarted open connection.

**PlanDagProofs**, the search. `AcceptedIsDagHolds` and `CircularMeansCycleHolds` for plans
of any size. A plan is a DAG when no non-empty set of tasks has all its members depending
on members (no knot). `DagInv` says that the stack is a path in the graph with its tasks
in progress, that every dependency already passed by a frame is done, and that done
tasks depend only on done tasks and contain no knot. The last part is what makes the
proof go through without induction over paths: when a task is finished, a knot that
contains it would need one of its dependencies, all done, to close it.

**PlanDagProofs**, the sort. `KahnInv` says what the counts of `topological_sort` mean:
`in_degree` of a task is the number of entries of its `depends_on`, repetitions included,
that are not released, so it is zero exactly when all its dependencies are
(`OpenCount`, `OpenLess`), and the queue is the next level. `LevelsAreReleasedHolds` also
says that no task is dropped: what is left when the queue is empty would be a knot, and
an accepted plan has none.

**ExecutorProofs**, the rounds (assumes of plans what `AcceptedIsDagHolds` gives).
`ResearchInv` and `LevelInv` tie `visited` and `level` to the levels of the plan, so that
an empty level means that all tasks were visited (`NoneLeft`); `OutputInv` says which
outputs are of this round, task by task while the executor is at work, which
`RoundAccounted` says of its end only. From it `DependenciesFirstHolds`
and `RoundAccountedHolds`.

**ExecutorProofs**, the sandbox. `QueueInv`: the queue holds the queued calls, each once.
`FilesInv` bounds busy workers and failed calls separately, and gives `FilesAccountedHolds`.
`OrderlyInv` is why the server answers first: as long as every process can have a worker
and nothing goes wrong, each unanswered call has a process that waits for it, so that a
queued request always finds a free worker (`WorkerFree`, by counting) and is due before
the clock moves; hence a call is exactly as old as its script (`age[c] = ran[c]`), never
as old as the deadline.

**MemoryProofs** (assumes that what is stored is not longer than the prefix of
`rag_recall`). `CacheInv` says that every entry of the cache is what one of the functions
computes for its text, `CallInv` what each stage has established about its request, and
`StoredInv` that every entry of the index goes back to a call; the four properties are
themselves parts of the invariant.

**StreamClientProofs**, for any sessions and any number of visits. `OneStream` counts
streams, and `SocketInv` says which sockets can be one: only a closed socket has a timer,
and only one that the page has closed is without its handler; so a socket whose close is
handled turns into a timer, a timer into a socket, and the count stays the same
(`CloseStep`, `TimerStep`), while a visit closes one stream, opens at most one and takes
the rest for strays (`Disconnected`, `ConnectStep`, `LinkStep`). `OwnInv` says whose a
stream is when there are no strays: the current socket's, of the session on the page.
`AttemptsInv` says that a timer is an attempt already paid for (attempts and timers
together are at most `retries + 1 + strays`), without which a timer that fires could
exceed the bound; a connected frame gives all retries back, which needs `OneStream` to
bound the timers there may still be. `WaitInv` is the part of `NeverStuck` that every step
keeps.

**AgentCallProofs** (assumes `AgentAssumption`: jobs have at least one call, lengths are
natural numbers, and a score is a number, infinite, NaN, absent or not convertible).
`SwitchInv` and `AgentInv` give `SerialSwitchesAgreeHolds` and `OneModePerAgentHolds`: an
agent's questions are explained by the mode that it keeps. `VerdictGuardedHolds` rests on
`PassNeedsAll`, for every object a model may answer. `PromptFitsHolds` holds for texts of
any length and any number of entries. It needs facts about sums of sequences: `Total` is
a recursive function, and `TotalNat`, `TotalGrows` and `TotalAppend` are proved from a
least counterexample (`LeastNat`) in place of induction.

**AccountsProofs** (assumes a page size in 1..100). `RowInv`, `CallInv` and `AnswerInv`
follow a session from the client that created it through its row, the requests that hold
it and the answer, which gives `OneAccountHolds` and `AnswersScopedHolds`. `ReadInv` is
about a reading under way: what it has still to see has a rank, counted from the newest
row, at or after the next page (`Reading`). Rows that are committed meanwhile only raise
ranks (`RankGrows`), a page takes the ranks from its offset on (`PageTakes`), and the
reading ends when no rank is left (`RankBelow`), since the rows are read before they are
counted; so `PagesCoverHolds`.

Only model-checked: the liveness properties (`RunningEnds`, `OpenClientHears`,
`RoundEnds`, `Decided`, `ComesToRest`, `EventLoopReleased`, `CallEnds`) and the fair part
of `ImplementsPipelineRun`, which are out of the prover's reach, and the three
disagreements of section 3, which are counterexamples.

## 6. Not modelled

* Token encoding, password hashing, LangGraph, the Postgres, Redis, Pinecone and OpenAI
  clients: library code, modelled by its outcomes where `src/` uses it.
* The Postgres checkpointer, which no code calls, and the database client wrappers: the
  lifespan creates the pool before a request is served, so their lazy creation does not
  race.
* Health probes and settings, which change no state; ping frames.
* The requests that `api_caller` and `web_search` make, the files of `file_writer`, and
  how the researcher's arguments bind to the tools: a tool's answer and its exception are
  both a text.
* Sessions with equal `created_at`: `Accounts` takes them as distinct, to the microsecond,
  so that the order of `ORDER BY created_at` is total. Passwords that agree in their first
  72 bytes, which bcrypt takes for equal: `Accounts` compares them whole.
* The error of `unlink` that `sandbox/server.py:99` swallows: a script file is removed
  whenever its finally clause runs.
* Deleting Pinecone namespaces in `reset_memory.py`, and all printing and rendering.
* That asyncio keeps only a weak reference to the task of a run, which `ws/run.py:212`
  does not store: whether it is collected depends on the interpreter.

`PROJECT.json` gives the status of each component.

## 7. Plan

1. Done: all modules of section 2; theorems for every safety property that a run checks.
2. Next: action properties that the invariants suggest and no run states yet (a session's
   index entry is only replaced by a run of that session; an answered sandbox call is not
   answered again), each with a run first; shorter proofs where a lemma can be shared.
3. Then, if the models grow: `StreamClient` with `SessionService` as its server, to show
   that the latter implements the handshake and the timeout that the former assumes.

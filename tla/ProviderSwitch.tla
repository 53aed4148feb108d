--------------------------- MODULE ProviderSwitch ---------------------------
(***************************************************************************)
(* The provider mode: the ModelRouter singleton of backend/core/models.py, *)
(* the requests of backend/api/routes/config.py that replace it and store  *)
(* the mode in Redis, the start-up of backend/api/main.py that loads it,   *)
(* and the agents (backend/agents/base.py) that use it (see AgentCall).    *)
(*                                                                         *)
(* A router is its mode.  Handlers run on one event loop: a request is     *)
(* interrupted only where it waits for Redis.                              *)
(***************************************************************************)
EXTENDS Naturals, FiniteSets

CONSTANTS
    Requests,       \* POST /config/provider-mode requests
    DefaultMode,    \* provider_mode of the settings
    MaxFaults,      \* bound: failing Redis calls explored
    MaxRestarts     \* bound: restarts of the process explored

Modes == {"multi", "openai_only"}

ASSUME SwitchAssumption ==
    /\ IsFiniteSet(Requests)
    /\ DefaultMode \in Modes
    /\ MaxFaults \in Nat
    /\ MaxRestarts \in Nat

VARIABLES
    router,     \* _router, "unset" for None
    redis,      \* value of nexus:config:provider_mode, "unset" if there is none
    req,        \* stage and mode of each request
    overlapped, \* history: two requests were under way at once
    faults, restarts

vars == <<router, redis, req, overlapped, faults, restarts>>

Saving == {r \in Requests : req[r].stage = "saving"}

TypeOK ==
    /\ router \in Modes \cup {"unset"}
    /\ redis \in Modes \cup {"unset"}
    /\ req \in [Requests -> [stage : {"none", "saving", "ok", "refused", "lost"},
                             mode : Modes \cup {"unset"}]]
    /\ overlapped \in BOOLEAN
    /\ faults \in 0..MaxFaults
    /\ restarts \in 0..MaxRestarts

Init ==
    /\ router = "unset"
    /\ redis = "unset"
    /\ req = [r \in Requests |-> [stage |-> "none", mode |-> "unset"]]
    /\ overlapped = FALSE
    /\ faults = 0
    /\ restarts = 0

(* get_model_router: the default is built on first use.                    *)
get_model_router == IF router = "unset" THEN DefaultMode ELSE router

-----------------------------------------------------------------------------
(* The router is used: by GET /config/provider-mode, or by an agent, which *)
(* each node of the graph constructs anew.                                 *)
UseRouter ==
    /\ router' = get_model_router
    /\ UNCHANGED <<redis, req, overlapped, faults, restarts>>

(* POST: the router is built and replaces the old one; the request goes on *)
(* to wait for Redis.                                                      *)
Switch(r, m) ==
    /\ req[r].stage = "none"
    /\ router' = m
    /\ req' = [req EXCEPT ![r] = [stage |-> "saving", mode |-> m]]
    /\ overlapped' = (overlapped \/ Saving # {})
    /\ UNCHANGED <<redis, faults, restarts>>

(* The constructor raises (a key or a package is missing): 422 or 500.     *)
SwitchRefused(r, m) ==
    /\ req[r].stage = "none"
    /\ req' = [req EXCEPT ![r] = [stage |-> "refused", mode |-> m]]
    /\ UNCHANGED <<router, redis, overlapped, faults, restarts>>

Persist(r) ==
    /\ req[r].stage = "saving"
    /\ redis' = req[r].mode
    /\ req' = [req EXCEPT ![r].stage = "ok"]
    /\ UNCHANGED <<router, overlapped, faults, restarts>>

(* The SET raises, executed or not; the request succeeds all the same.     *)
PersistFails(r) ==
    /\ req[r].stage = "saving"
    /\ faults < MaxFaults
    /\ faults' = faults + 1
    /\ redis' \in {redis, req[r].mode}
    /\ req' = [req EXCEPT ![r].stage = "ok"]
    /\ UNCHANGED <<router, overlapped, restarts>>

Lost == [r \in Requests |-> IF r \in Saving THEN [req[r] EXCEPT !.stage = "lost"] ELSE req[r]]

(* Mutant: start-up forgets the stored mode.                               *)
LoadedNever == "unset"

(* What start-up sets the router to.                                       *)
Loaded == redis

(* The process restarts and loads the mode.                                *)
Restart ==
    /\ restarts < MaxRestarts
    /\ restarts' = restarts + 1
    /\ req' = Lost
    /\ router' = Loaded
    /\ UNCHANGED <<redis, overlapped, faults>>

(* The GET or the constructor raises at start-up: a warning.               *)
RestartWithoutRedis ==
    /\ restarts < MaxRestarts
    /\ faults < MaxFaults
    /\ restarts' = restarts + 1
    /\ faults' = faults + 1
    /\ req' = Lost
    /\ router' = "unset"
    /\ UNCHANGED <<redis, overlapped>>

Handle(r) ==
    \/ \E m \in Modes : Switch(r, m) \/ SwitchRefused(r, m)
    \/ Persist(r)
    \/ PersistFails(r)

Reboot == Restart \/ RestartWithoutRedis

Next == UseRouter \/ Reboot \/ \E r \in Requests : Handle(r)

Spec == Init /\ [][Next]_vars

-----------------------------------------------------------------------------
(* Properties.                                                             *)

(* While requests do not overlap and Redis does not fail, the stored mode  *)
(* is the active one whenever no request is under way: a restart changes   *)
(* nothing.  (A request cut off by a restart leaves the stored mode in     *)
(* force on both sides.)                                                   *)
SerialSwitchesAgree ==
    ~overlapped /\ faults = 0 /\ Saving = {} /\ redis # "unset" => router = redis
=============================================================================

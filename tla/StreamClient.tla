---------------------------- MODULE StreamClient ----------------------------
(***************************************************************************)
(* The browser's side of a run: the hook useNexusStream                    *)
(* (frontend/src/hooks/useNexusStream.ts) with its reconnection, the       *)
(* effects of the Session page that uses it (frontend/src/pages/           *)
(* Session.tsx), and as much of the server's ws_run as the hook sees: the  *)
(* handshake, the idle timeout and the last frame.  SessionService has the *)
(* server in detail.                                                       *)
(*                                                                         *)
(* One mounted page and its hook, from the first session shown until the   *)
(* user goes home.  In between the page stays mounted while the user goes  *)
(* from session to session: with the goal (a session just created, or Back *)
(* to one), which connects, or without it (a link of the sidebar), which   *)
(* does not.  Frames that only extend the log (agent and score frames) are *)
(* left out.  The user stays logged in: nothing in the application clears  *)
(* the token.  Another mount has a hook of its own.                        *)
(***************************************************************************)
EXTENDS Naturals, Sequences, FiniteSets

CONSTANTS
    Sessions,
    MaxRetries,     \* MAX_RETRIES
    MaxVisits,      \* bound: sessions shown, one after the other
    MaxDrops        \* bound: network failures explored

ASSUME ClientAssumption == MaxRetries \in Nat /\ MaxVisits \in Nat /\ MaxDrops \in Nat

NoSession == "none"

VARIABLES
    page,       \* "home", "session" or "left"
    url,        \* sessionId, and whether location.state has the goal
    status,     \* status of the hook
    running,    \* isRunning of SessionRunningContext
    retries,    \* retriesRef
    wsRef,      \* position of the current socket in sockets, 0 for null
    frames,     \* the sessions whose frames are in the log
    sockets,    \* every socket opened, with the server's end of it
    pending,    \* the sessions whose sessions.status is still pending
    attempts,   \* history: sockets opened since the last visit or connected frame
    strays,     \* history: streams the last visit found that nothing would close
    visits, drops

vars == <<page, url, status, running, retries, wsRef, frames, sockets, pending, attempts, strays,
          visits, drops>>
hook == <<page, url, status, running, retries, wsRef, frames, attempts, strays, visits>>

(* net: the transport, as its events will be seen; "failing": closed by    *)
(* the page, with an error event to come.  onclose: the handler is set.    *)
(* timer: the close has set a timer, which has not fired yet.  run: the    *)
(* start frame and the graph task it begins.  Whether that ends with a     *)
(* done or an error frame is all one here: the hook treats both alike, and *)
(* the handshake every session that is not pending.                        *)
Sockets == [session : Sessions,
            net : {"opening", "open", "closing", "refused", "dropped", "failing", "closed"},
            onclose : {"set", "null"}, timer : BOOLEAN,
            inbox : Seq({"connected", "done"}),
            run : {"none", "sent", "graph", "ended"}]

Fresh(s) == [session |-> s, net |-> "opening", onclose |-> "set", timer |-> FALSE,
             inbox |-> << >>, run |-> "none"]

TypeOK ==
    /\ page \in {"home", "session", "left"}
    /\ url \in [session : Sessions \cup {NoSession}, goal : BOOLEAN]
    /\ status \in {"idle", "connecting", "connected", "done", "error"}
    /\ running \in BOOLEAN
    /\ retries \in 0..MaxRetries
    /\ wsRef \in 0..Len(sockets)
    /\ frames \in SUBSET Sessions
    /\ sockets \in Seq(Sockets)
    /\ pending \in SUBSET Sessions
    /\ attempts \in Nat
    /\ strays \in Nat
    /\ visits \in 0..MaxVisits
    /\ drops \in 0..MaxDrops

Init ==
    /\ page = "home"
    /\ url = [session |-> NoSession, goal |-> FALSE]
    /\ status = "idle"
    /\ running = FALSE
    /\ retries = 0
    /\ wsRef = 0
    /\ frames = {}
    /\ sockets = << >>
    /\ pending = Sessions
    /\ attempts = 0
    /\ strays = 0
    /\ visits = 0
    /\ drops = 0

(* Sockets whose close will be handled, and pending timers: each is a      *)
(* stream, under way or about to be tried again.                           *)
Attached == {i \in DOMAIN sockets : sockets[i].net # "closed" /\ sockets[i].onclose = "set"}
Timers == {i \in DOMAIN sockets : sockets[i].timer}
Streams == Attached \cup Timers

(* State setters do nothing once the component is unmounted.               *)
setStatus(s) == status' = IF page = "session" THEN s ELSE status

(* An effect of the page follows the status: done and error end running.   *)
Effect(shown) == running' = (running /\ shown \cap {"done", "error"} = {})

(* doConnect: a new socket with its handlers, after the ones in k.         *)
doConnect(k, s) ==
    /\ sockets' = Append(k, Fresh(s))
    /\ wsRef' = Len(k) + 1

-----------------------------------------------------------------------------
(* Page.                                                                   *)

(* Mutant: the handler is left in place.                                   *)
ClosedLoudly(k) ==
    IF k.net = "closed" THEN k ELSE [k EXCEPT !.net = "closing", !.inbox = << >>]

(* A socket is closed by the page, without its onclose handler.  If it was *)
(* not open, or had failed, an error event follows, whose handler is still *)
(* set.  A start frame that was sent still reaches the server.             *)
Closed(k) ==
    [k EXCEPT !.onclose = "null", !.inbox = << >>,
              !.net = IF @ \in {"opening", "refused", "dropped", "failing"} THEN "failing" ELSE "closed"]

(* The current socket is closed; a timer is not cleared.                   *)
disconnect == IF wsRef = 0 THEN sockets ELSE [sockets EXCEPT ![wsRef] = Closed(@)]

(* The page's effect runs when sessionId or goal has changed, after the    *)
(* cleanup of the one before.                                              *)
Visit(s, goal) ==
    /\ page # "left"
    /\ visits < MaxVisits
    /\ url # [session |-> s, goal |-> goal]
    /\ visits' = visits + 1
    /\ page' = "session"
    /\ url' = [session |-> s, goal |-> goal]
    /\ strays' = Cardinality(Timers \cup (Attached \ {wsRef}))
    /\ UNCHANGED <<pending, drops>>

(* A session with its goal: running is set and connect called.             *)
connect(s) ==
    /\ Visit(s, TRUE)
    /\ doConnect(disconnect, s)
    /\ status' = "connecting"
    /\ running' = TRUE
    /\ retries' = 0
    /\ frames' = {}
    /\ attempts' = 1

(* A session without a goal: only the cleanup of the one before.           *)
FollowLink(s) ==
    /\ Visit(s, FALSE)
    /\ sockets' = disconnect
    /\ wsRef' = 0
    /\ status' = "idle"
    /\ running' = FALSE
    /\ attempts' = 0
    /\ UNCHANGED <<retries, frames>>

(* The page is unmounted.                                                  *)
Leave ==
    /\ page = "session"
    /\ page' = "left"
    /\ sockets' = disconnect
    /\ wsRef' = 0
    /\ status' = "idle"
    /\ running' = FALSE
    /\ attempts' = 0
    /\ strays' = Cardinality(Timers \cup (Attached \ {wsRef}))
    /\ UNCHANGED <<url, retries, frames, pending, visits, drops>>

-----------------------------------------------------------------------------
(* Events of socket i.                                                     *)

(* onopen: the start frame is sent.                                        *)
onopen(i) ==
    /\ sockets[i].net = "open"
    /\ sockets[i].run = "none"
    /\ sockets' = [sockets EXCEPT ![i].run = "sent"]
    /\ UNCHANGED <<hook, pending, drops>>

(* Whichever session the page shows by now.                                *)
onmessage(i) ==
    /\ sockets[i].net \in {"open", "closing"}
    /\ sockets[i].run # "none"
    /\ sockets[i].inbox # << >>
    /\ sockets' = [sockets EXCEPT ![i].inbox = Tail(@)]
    /\ LET f == Head(sockets[i].inbox)
       IN  /\ setStatus(IF f = "connected" THEN "connected" ELSE "done")
           /\ Effect({status'})
           /\ retries' = IF f = "connected" THEN 0 ELSE retries
           /\ attempts' = IF f = "connected" THEN 0 ELSE attempts
    /\ frames' = IF page = "session" THEN frames \cup {sockets[i].session} ELSE frames
    /\ UNCHANGED <<page, url, wsRef, pending, strays, visits, drops>>

(* The error event of a socket that the page has closed.                   *)
onerror(i) ==
    /\ sockets[i].net = "failing"
    /\ sockets' = [sockets EXCEPT ![i].net = "closed"]
    /\ setStatus("error")
    /\ Effect({status'})
    /\ UNCHANGED <<page, url, retries, wsRef, frames, pending, attempts, strays, visits, drops>>

(* The socket is closed, cleanly when the server closed it, else after an  *)
(* error event.                                                            *)
Closes(i) ==
    \/ sockets[i].net = "closing" /\ sockets[i].inbox = << >>
    \/ sockets[i].net \in {"refused", "dropped"}

(* What the page's effects may see: onerror sets "error", which onclose    *)
(* replaces; whether it is rendered in between is up to React.             *)
Shown(i, s) == IF sockets[i].net = "closing" THEN {{s}} ELSE {{s}, {"error", s}}

(* Mutants: one attempt too many; one that is announced but not scheduled. *)
MayRetryLate == retries <= MaxRetries
ScheduledNot(i) == sockets[i].net # "refused"

MayRetry == retries < MaxRetries
Scheduled(i) == TRUE

onclose(i) ==
    /\ i \in Attached
    /\ Closes(i)
    /\ sockets' = [sockets EXCEPT ![i].net = "closed", ![i].inbox = << >>,
                                  ![i].timer = MayRetry /\ Scheduled(i)]
    /\ retries' = IF MayRetry THEN retries + 1 ELSE retries
    /\ setStatus(IF MayRetry THEN "connecting" ELSE "error")
    /\ \E shown \in Shown(i, status') : Effect(shown)
    /\ UNCHANGED <<page, url, wsRef, frames, pending, attempts, strays, visits, drops>>

(* setTimeout(doConnect), with the session of the connect that set it: the *)
(* page may be gone or show another one.                                   *)
TimerFires(i) ==
    /\ sockets[i].timer
    /\ doConnect([sockets EXCEPT ![i].timer = FALSE], sockets[i].session)
    /\ attempts' = attempts + 1
    /\ UNCHANGED <<page, url, status, running, retries, frames, pending, strays, visits, drops>>

(* The network fails; a start frame under way may be lost.                 *)
Drop(i) ==
    /\ sockets[i].net \in {"opening", "open", "closing"}
    /\ drops < MaxDrops
    /\ drops' = drops + 1
    /\ \E r \in {sockets[i].run} \cup (IF sockets[i].run = "sent" THEN {"none"} ELSE {}) :
         sockets' = [sockets EXCEPT ![i].net = "dropped", ![i].inbox = << >>, ![i].run = r]
    /\ UNCHANGED <<hook, pending>>

-----------------------------------------------------------------------------
(* The server's end of socket i.                                           *)

(* ws_run: only a pending session is accepted.                             *)
Handshake(i) ==
    /\ sockets[i].net = "opening"
    /\ sockets' = IF sockets[i].session \in pending
                  THEN [sockets EXCEPT ![i].net = "open", ![i].inbox = <<"connected">>]
                  ELSE [sockets EXCEPT ![i].net = "refused"]
    /\ UNCHANGED <<hook, pending, drops>>

(* The start frame is received and the task marks the session.  A second   *)
(* handshake may come before, since the frame may be long under way.       *)
ReceiveStart(i) ==
    /\ sockets[i].run = "sent"
    /\ sockets' = [sockets EXCEPT ![i].run = "graph"]
    /\ pending' = pending \ {sockets[i].session}
    /\ UNCHANGED <<hook, drops>>

(* Mutant: a client is not given up any more once its run has ended.       *)
IdleTimeoutRunning(i) ==
    /\ sockets[i].net = "open"
    /\ sockets[i].run = "graph"
    /\ sockets' = [sockets EXCEPT ![i].net = "closing"]
    /\ UNCHANGED <<hook, pending, drops>>

(* No frame from the client for 60 seconds after start, whatever the run   *)
(* does.                                                                   *)
IdleTimeout(i) ==
    /\ sockets[i].net = "open"
    /\ sockets[i].run \in {"graph", "ended"}
    /\ sockets' = [sockets EXCEPT ![i].net = "closing"]
    /\ UNCHANGED <<hook, pending, drops>>

(* The graph ends and the last frame is sent.  A run that has no socket    *)
(* any more ends unseen.                                                   *)
RunEnds(i) ==
    /\ sockets[i].run = "graph"
    /\ sockets[i].net = "open"
    /\ sockets' = [sockets EXCEPT ![i].run = "ended", ![i].inbox = Append(@, "done")]
    /\ UNCHANGED <<hook, pending, drops>>

Event(i) == onopen(i) \/ onmessage(i) \/ onerror(i) \/ onclose(i)
Server(i) == Handshake(i) \/ ReceiveStart(i) \/ IdleTimeout(i) \/ RunEnds(i)

Next ==
    \/ \E s \in Sessions : connect(s) \/ FollowLink(s)
    \/ Leave
    \/ \E i \in DOMAIN sockets : Event(i) \/ TimerFires(i) \/ Server(i) \/ Drop(i)

Spec == Init /\ [][Next]_vars

(* Events are dispatched, timers fire, and the server keeps working and    *)
(* counting its 60 seconds.  Users need not do anything.                   *)
FairSpec ==
    /\ Spec
    /\ WF_vars(\E i \in DOMAIN sockets : TimerFires(i))
    /\ WF_vars(\E i \in DOMAIN sockets : Event(i))
    /\ WF_vars(\E i \in DOMAIN sockets : Server(i))

-----------------------------------------------------------------------------
(* Properties.                                                             *)

(* The header of the hook: "max 3 attempts".  Counted from the visit or    *)
(* from the last connected frame, one socket and at most MAX_RETRIES more  *)
(* are opened, and one more for each stream that an earlier visit left     *)
(* behind, since the timers are not cleared.                               *)
AttemptsBounded == attempts <= MaxRetries + 1 + strays

(* Each visit adds one stream: besides the strays the hook never has two   *)
(* sockets, or a socket and a timer, whatever closes, fails or is refused. *)
(* If nothing was left behind, the page of a session that was connected to *)
(* shows frames of that session only.                                      *)
OneStream ==
    /\ Cardinality(Streams) <= 1 + strays
    /\ page = "session" /\ url.goal /\ strays = 0 => frames \subseteq {url.session}

(* A page that says connecting or connected, or keeps the provider toggle  *)
(* locked, is waiting for something: a socket with its handlers, or a      *)
(* timer; its own, if nothing was left behind.                             *)
NeverStuck ==
    page = "session" /\ (running \/ status \in {"connecting", "connected"}) =>
        Streams # {} /\ (strays = 0 => Streams = {wsRef})

(* The hook does not go on reconnecting: when the user has stopped going   *)
(* from session to session, every stream ends and no timer is set again,   *)
(* even though each connected frame gives the hook its retries back.       *)
ComesToRest == <>[](Streams = {})
=============================================================================

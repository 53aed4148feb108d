------------------------- MODULE StreamClientProofs -------------------------
(***************************************************************************)
(* Proofs about StreamClient, for any sessions and any number of retries,  *)
(* visits, network failures and sockets.                                   *)
(***************************************************************************)
EXTENDS StreamClient, FiniteSetTheorems, SequenceTheorems, TLAPS

(* Only a closed socket has a timer, and only one that the page has closed *)
(* is without its handler.                                                 *)
SocketInv ==
    \A i \in DOMAIN sockets :
        /\ sockets[i].timer => sockets[i].net = "closed"
        /\ sockets[i].net = "failing" => sockets[i].onclose = "null"
        /\ sockets[i].onclose = "null" => sockets[i].net \in {"failing", "closed"}

(* Nothing is open before the page is; and if a visit found nothing left   *)
(* behind, whatever is under way is the current socket, of the session on  *)
(* the page.                                                               *)
OwnInv ==
    /\ page = "home" => sockets = << >>
    /\ strays = 0 => \A i \in Streams : /\ i = wsRef
                                        /\ page = "session" /\ url.goal
                                        /\ sockets[i].session = url.session

(* A timer is an attempt already paid for.                                 *)
AttemptsInv == attempts + Cardinality(Timers) <= retries + 1 + strays

(* The toggle is locked only while the page waits, and then it does so for *)
(* some stream.                                                            *)
WaitInv ==
    /\ running => page = "session" /\ status \in {"connecting", "connected"}
    /\ page = "session" /\ status \in {"connecting", "connected"} => Streams # {}

IInv == TypeOK /\ SocketInv /\ OwnInv /\ AttemptsInv /\ WaitInv /\ OneStream

-----------------------------------------------------------------------------
(* One socket is replaced.                                                 *)
LEMMA SocketReplaced ==
    ASSUME sockets \in Seq(Sockets), NEW i \in DOMAIN sockets, NEW v \in Sockets
    PROVE  LET k == [sockets EXCEPT ![i] = v]
           IN  /\ k \in Seq(Sockets) /\ Len(k) = Len(sockets) /\ DOMAIN k = DOMAIN sockets
               /\ k[i] = v
               /\ \A j \in DOMAIN sockets : j # i => k[j] = sockets[j]
  BY ExceptSeq

(* A fresh socket is appended.                                             *)
LEMMA SocketAppended ==
    ASSUME NEW k \in Seq(Sockets), NEW s \in Sessions
    PROVE  LET c == Append(k, Fresh(s))
           IN  /\ c \in Seq(Sockets) /\ Len(c) = Len(k) + 1
               /\ DOMAIN c = DOMAIN k \cup {Len(k) + 1} /\ Len(k) + 1 \notin DOMAIN k
               /\ c[Len(k) + 1] = Fresh(s)
               /\ \A j \in DOMAIN k : c[j] = k[j]
  <1>1. Fresh(s) \in Sockets
    BY DEF Fresh, Sockets
  <1>2. Append(k, Fresh(s)) \in Seq(Sockets) /\ Len(Append(k, Fresh(s))) = Len(k) + 1
    BY <1>1, AppendProperties
  <1>3. Len(k) \in Nat /\ DOMAIN k = 1..Len(k)
    BY LenProperties
  <1> QED
    BY <1>1, <1>2, <1>3, AppendProperties

(* Sets of sockets are finite.                                             *)
LEMMA StreamsFinite ==
    ASSUME sockets \in Seq(Sockets)
    PROVE  /\ \A T \in SUBSET DOMAIN sockets : IsFiniteSet(T) /\ Cardinality(T) \in Nat
           /\ Streams \in SUBSET DOMAIN sockets /\ Timers \in SUBSET DOMAIN sockets
           /\ Cardinality(Timers) <= Cardinality(Streams)
  <1>1. DOMAIN sockets = 1..Len(sockets) /\ Len(sockets) \in Nat
    BY LenProperties
  <1>2. IsFiniteSet(DOMAIN sockets)
    BY <1>1, FS_Interval
  <1>3. ASSUME NEW T \in SUBSET DOMAIN sockets PROVE IsFiniteSet(T) /\ Cardinality(T) \in Nat
    BY <1>2, FS_Subset, FS_CardinalityType
  <1>4. Streams \in SUBSET DOMAIN sockets /\ Timers \in SUBSET DOMAIN sockets /\ Timers \in SUBSET Streams
    BY DEF Streams, Timers, Attached
  <1> QED
    BY <1>3, <1>4, FS_Subset

(* The fields of a socket.                                                 *)
LEMMA SocketFields ==
    ASSUME TypeOK, NEW i \in DOMAIN sockets
    PROVE  /\ sockets[i] \in Sockets /\ i \in 1..Len(sockets)
           /\ sockets[i] = [session |-> sockets[i].session, net |-> sockets[i].net,
                            onclose |-> sockets[i].onclose, timer |-> sockets[i].timer,
                            inbox |-> sockets[i].inbox, run |-> sockets[i].run]
  <1>1. sockets[i] \in Sockets /\ i \in 1..Len(sockets)
    BY DEF TypeOK
  <1> QED
    BY <1>1 DEF Sockets

(* The initial state satisfies the inductive invariant.                    *)
LEMMA InitIInv == Init => IInv
  <1> SUFFICES ASSUME Init PROVE IInv
    OBVIOUS
  <1>1. Len(sockets) = 0 /\ DOMAIN sockets = {} /\ sockets \in Seq(Sockets)
    BY DEF Init
  <1>2. TypeOK
    <2>1. 0 \in 0..MaxRetries /\ 0 \in 0..Len(sockets) /\ 0 \in 0..MaxVisits /\ 0 \in 0..MaxDrops /\ 0 \in Nat
      BY <1>1, ClientAssumption
    <2>2. url \in [session : Sessions \cup {NoSession}, goal : BOOLEAN]
      BY DEF Init
    <2> QED
      BY <1>1, <2>1, <2>2, Zenon DEF Init, TypeOK
  <1>3. Streams = {} /\ Timers = {}
    BY <1>1 DEF Streams, Timers, Attached
  <1>4. Cardinality(Streams) = 0 /\ Cardinality(Timers) = 0
    BY <1>3, FS_EmptySet
  <1>5. SocketInv /\ OwnInv /\ WaitInv
    BY <1>1, <1>3 DEF Init, SocketInv, OwnInv, WaitInv
  <1>6. AttemptsInv /\ OneStream
    BY <1>4 DEF Init, AttemptsInv, OneStream
  <1> QED
    BY <1>2, <1>5, <1>6 DEF IInv

-----------------------------------------------------------------------------
(* A step of the server or the network: the hook sees nothing of it, and   *)
(* it neither closes a socket nor opens a closed one.                      *)
LEMMA QuietStep ==
    ASSUME IInv, NEW i \in DOMAIN sockets, NEW v \in Sockets,
           sockets' = [sockets EXCEPT ![i] = v],
           v.session = sockets[i].session, v.onclose = sockets[i].onclose,
           v.timer = sockets[i].timer,
           v.net = sockets[i].net \/ (sockets[i].net \notin {"failing", "closed"}
                                      /\ v.net \notin {"failing", "closed"}),
           UNCHANGED hook, pending' \in SUBSET Sessions, drops' \in 0..MaxDrops
    PROVE  IInv'
  <1>1. /\ sockets' \in Seq(Sockets) /\ Len(sockets') = Len(sockets) /\ DOMAIN sockets' = DOMAIN sockets
        /\ sockets'[i] = v
        /\ \A j \in DOMAIN sockets : j # i => sockets'[j] = sockets[j]
    BY SocketReplaced DEF IInv, TypeOK
  <1>2. TypeOK'
    BY <1>1 DEF IInv, TypeOK, hook
  <1>3. ASSUME NEW j \in DOMAIN sockets
        PROVE  /\ sockets'[j].session = sockets[j].session /\ sockets'[j].timer = sockets[j].timer
               /\ sockets'[j].onclose = sockets[j].onclose
               /\ sockets'[j].net = "closed" <=> sockets[j].net = "closed"
               /\ sockets'[j].net = "failing" <=> sockets[j].net = "failing"
    BY <1>1
  <1>4. Attached' = Attached /\ Timers' = Timers /\ Streams' = Streams
    BY <1>1, <1>3 DEF Attached, Timers, Streams
  <1>5. SocketInv'
    BY <1>1, <1>3 DEF IInv, SocketInv
  <1>6. page # "home"
    BY DEF IInv, OwnInv, TypeOK
  <1>7. OwnInv'
    BY <1>3, <1>4, <1>6 DEF IInv, OwnInv, hook, Streams, Attached, Timers
  <1>8. AttemptsInv' /\ WaitInv' /\ OneStream'
    BY <1>4 DEF IInv, AttemptsInv, WaitInv, OneStream, hook
  <1> QED
    BY <1>2, <1>5, <1>7, <1>8 DEF IInv

(* The server's steps, the sending of the start frame and network failures *)
(* are of that kind.                                                       *)
LEMMA ServerStep ==
    ASSUME IInv, NEW i \in DOMAIN sockets, Server(i) \/ onopen(i) \/ Drop(i)
    PROVE  IInv'
  <1> DEFINE k == sockets[i]
  <1>0. k \in Sockets /\ pending \in SUBSET Sessions /\ drops \in 0..MaxDrops
    BY SocketFields DEF IInv, TypeOK
  <1>1. CASE onopen(i)
    <2> DEFINE v == [k EXCEPT !.run = "sent"]
    <2>1. v \in Sockets /\ v.session = k.session /\ v.onclose = k.onclose /\ v.timer = k.timer /\ v.net = k.net
      BY <1>0 DEF Sockets
    <2>2. sockets' = [sockets EXCEPT ![i] = v]
      BY <1>1 DEF onopen
    <2> QED
      BY <1>0, <1>1, <2>1, <2>2, QuietStep DEF onopen
  <1>2. CASE Drop(i)
    <2>1. PICK r \in {k.run, "none"} :
             sockets' = [sockets EXCEPT ![i].net = "dropped", ![i].inbox = << >>, ![i].run = r]
      BY <1>2 DEF Drop
    <2> DEFINE v == [k EXCEPT !.net = "dropped", !.inbox = << >>, !.run = r]
    <2>2. << >> \in Seq({"connected", "done"}) /\ r \in {"none", "sent", "graph", "ended"}
      BY <1>0, <2>1 DEF Sockets
    <2>3. v \in Sockets /\ v.session = k.session /\ v.onclose = k.onclose /\ v.timer = k.timer
          /\ v.net = "dropped"
      BY <1>0, <2>2 DEF Sockets
    <2>4. k.net \notin {"failing", "closed"}
      BY <1>2 DEF Drop
    <2>5. sockets' = [sockets EXCEPT ![i] = v]
      BY <2>1
    <2>6. drops' \in 0..MaxDrops
      <3>1. drops \in 0..MaxDrops /\ drops < MaxDrops /\ drops' = drops + 1
        BY <1>0, <1>2 DEF Drop
      <3> QED
        BY <3>1, ClientAssumption
    <2> QED
      BY <1>0, <1>2, <2>3, <2>4, <2>5, <2>6, QuietStep DEF Drop
  <1>3. CASE Handshake(i)
    <2> DEFINE v == IF k.session \in pending THEN [k EXCEPT !.net = "open", !.inbox = <<"connected">>]
                                             ELSE [k EXCEPT !.net = "refused"]
    <2>1. v \in Sockets /\ v.session = k.session /\ v.onclose = k.onclose /\ v.timer = k.timer
          /\ v.net \in {"open", "refused"}
      <3>1. <<"connected">> \in Seq({"connected", "done"})
        OBVIOUS
      <3>2. CASE k.session \in pending
        <4>1. v = [k EXCEPT !.net = "open", !.inbox = <<"connected">>]
          BY <3>2
        <4> QED
          BY <1>0, <3>1, <4>1 DEF Sockets
      <3>3. CASE k.session \notin pending
        <4>1. v = [k EXCEPT !.net = "refused"]
          BY <3>3
        <4> QED
          BY <1>0, <4>1 DEF Sockets
      <3> QED
        BY <3>2, <3>3
    <2>2. k.net \notin {"failing", "closed"} /\ sockets' = [sockets EXCEPT ![i] = v]
      BY <1>3 DEF Handshake
    <2> QED
      BY <1>0, <1>3, <2>1, <2>2, QuietStep DEF Handshake
  <1>4. CASE ReceiveStart(i)
    <2> DEFINE v == [k EXCEPT !.run = "graph"]
    <2>1. v \in Sockets /\ v.session = k.session /\ v.onclose = k.onclose /\ v.timer = k.timer /\ v.net = k.net
      BY <1>0 DEF Sockets
    <2>2. sockets' = [sockets EXCEPT ![i] = v] /\ pending' \in SUBSET Sessions
      BY <1>0, <1>4 DEF ReceiveStart
    <2> QED
      BY <1>0, <1>4, <2>1, <2>2, QuietStep DEF ReceiveStart
  <1>5. CASE IdleTimeout(i)
    <2> DEFINE v == [k EXCEPT !.net = "closing"]
    <2>1. v \in Sockets /\ v.session = k.session /\ v.onclose = k.onclose /\ v.timer = k.timer
          /\ v.net = "closing"
      BY <1>0 DEF Sockets
    <2>2. k.net \notin {"failing", "closed"} /\ sockets' = [sockets EXCEPT ![i] = v]
      BY <1>5 DEF IdleTimeout
    <2> QED
      BY <1>0, <1>5, <2>1, <2>2, QuietStep DEF IdleTimeout
  <1>6. CASE RunEnds(i)
    <2> DEFINE v == [k EXCEPT !.run = "ended", !.inbox = Append(k.inbox, "done")]
    <2>1. Append(k.inbox, "done") \in Seq({"connected", "done"})
      BY <1>0, AppendProperties DEF Sockets
    <2>2. v \in Sockets /\ v.session = k.session /\ v.onclose = k.onclose /\ v.timer = k.timer /\ v.net = k.net
      BY <1>0, <2>1 DEF Sockets
    <2>3. sockets' = [sockets EXCEPT ![i] = v]
      BY <1>6 DEF RunEnds
    <2> QED
      BY <1>0, <1>6, <2>2, <2>3, QuietStep DEF RunEnds
  <1> QED
    BY <1>1, <1>2, <1>3, <1>4, <1>5, <1>6 DEF Server

-----------------------------------------------------------------------------
(* What is left when the current socket has been closed.                   *)
Left == Timers \cup (Attached \ {wsRef})

(* disconnect closes the current socket and keeps everything else: what is *)
(* still under way afterwards is Left.                                     *)
LEMMA Disconnected ==
    ASSUME IInv
    PROVE  /\ disconnect \in Seq(Sockets) /\ Len(disconnect) = Len(sockets)
           /\ DOMAIN disconnect = DOMAIN sockets
           /\ \A j \in DOMAIN sockets :
                /\ disconnect[j].session = sockets[j].session
                /\ disconnect[j].timer = sockets[j].timer
                /\ (disconnect[j].net # "closed" /\ disconnect[j].onclose = "set") <=> j \in Attached \ {wsRef}
                /\ disconnect[j].timer => disconnect[j].net = "closed"
                /\ disconnect[j].net = "failing" => disconnect[j].onclose = "null"
                /\ disconnect[j].onclose = "null" => disconnect[j].net \in {"failing", "closed"}
  <1>1. CASE wsRef = 0
    <2>1. disconnect = sockets
      BY <1>1 DEF disconnect
    <2>2. \A j \in DOMAIN sockets : j # wsRef
      BY <1>1 DEF IInv, TypeOK
    <2>3. sockets \in Seq(Sockets)
      BY DEF IInv, TypeOK
    <2> QED
      BY <2>1, <2>2, <2>3 DEF IInv, SocketInv, Attached
  <1>2. CASE wsRef # 0
    <2> DEFINE k == sockets[wsRef]
               v == Closed(k)
    <2>1. wsRef \in DOMAIN sockets /\ sockets \in Seq(Sockets)
      BY <1>2 DEF IInv, TypeOK
    <2>2. k \in Sockets /\ << >> \in Seq({"connected", "done"})
      BY <2>1, SocketFields DEF IInv
    <2>3. /\ v \in Sockets /\ v.session = k.session /\ v.timer = k.timer /\ v.onclose = "null"
          /\ v.net = IF k.net \in {"opening", "refused", "dropped", "failing"} THEN "failing" ELSE "closed"
      BY <2>2 DEF Sockets, Closed
    <2>4. k.timer => k.net = "closed"
      BY <2>1 DEF IInv, SocketInv
    <2>5. v.net \in {"failing", "closed"} /\ (v.timer => v.net = "closed")
      BY <2>3, <2>4
    <2> HIDE DEF v
    <2>6. disconnect = [sockets EXCEPT ![wsRef] = v]
      BY <1>2 DEF disconnect, v
    <2>7. /\ disconnect \in Seq(Sockets) /\ Len(disconnect) = Len(sockets)
          /\ DOMAIN disconnect = DOMAIN sockets
          /\ disconnect[wsRef] = v
          /\ \A j \in DOMAIN sockets : j # wsRef => disconnect[j] = sockets[j]
      BY <2>1, <2>3, <2>6, SocketReplaced
    <2>8. ASSUME NEW j \in DOMAIN sockets, j # wsRef
          PROVE  /\ (disconnect[j].net # "closed" /\ disconnect[j].onclose = "set") <=> j \in Attached \ {wsRef}
                 /\ disconnect[j].timer => disconnect[j].net = "closed"
                 /\ disconnect[j].net = "failing" => disconnect[j].onclose = "null"
                 /\ disconnect[j].onclose = "null" => disconnect[j].net \in {"failing", "closed"}
      BY <2>7, <2>8 DEF IInv, SocketInv, Attached
    <2> QED
      BY <2>3, <2>5, <2>7, <2>8
  <1> QED
    BY <1>1, <1>2

(* The page goes on to a session without a goal, or is unmounted.          *)
LEMMA CleanupStep ==
    ASSUME IInv, sockets' = disconnect, wsRef' = 0, status' = "idle", running' = FALSE,
           attempts' = 0, strays' = Cardinality(Left), page' \in {"session", "left"},
           url' \in [session : Sessions \cup {NoSession}, goal : BOOLEAN],
           page' = "session" => ~url'.goal, visits' \in 0..MaxVisits,
           UNCHANGED <<retries, frames, pending, drops>>
    PROVE  IInv'
  <1>1. /\ sockets' \in Seq(Sockets) /\ Len(sockets') = Len(sockets) /\ DOMAIN sockets' = DOMAIN sockets
        /\ Len(sockets) \in Nat
    BY Disconnected, LenProperties DEF IInv, TypeOK
  <1>2. Attached' = Attached \ {wsRef} /\ Timers' = Timers /\ Streams' = Left
    BY <1>1, Disconnected DEF Attached, Timers, Streams, Left
  <1>3. /\ IsFiniteSet(Left) /\ Cardinality(Left) \in Nat
        /\ Cardinality(Timers) \in Nat /\ Cardinality(Timers) <= Cardinality(Left)
    <2>1. Left \in SUBSET DOMAIN sockets /\ Timers \in SUBSET DOMAIN sockets /\ Timers \in SUBSET Left
      BY DEF Left, Timers, Attached
    <2>2. IsFiniteSet(Left) /\ Cardinality(Left) \in Nat /\ Cardinality(Timers) \in Nat
      BY <2>1, StreamsFinite DEF IInv, TypeOK
    <2> QED
      BY <2>1, <2>2, FS_Subset
  <1>4. TypeOK'
    <2>1. wsRef' \in 0..Len(sockets') /\ attempts' \in Nat /\ strays' \in Nat
      BY <1>1, <1>3
    <2> QED
      BY <1>1, <2>1, Zenon DEF IInv, TypeOK
  <1>5. SocketInv'
    BY <1>1, Disconnected DEF SocketInv
  <1>6. OwnInv'
    <2>1. strays' = 0 => Streams' = {}
      BY <1>2, <1>3, FS_EmptySet
    <2> QED
      BY <2>1 DEF OwnInv
  <1>7. AttemptsInv'
    BY <1>2, <1>3 DEF IInv, TypeOK, AttemptsInv
  <1>8. WaitInv'
    BY DEF WaitInv
  <1>9. OneStream'
    BY <1>2, <1>3 DEF OneStream
  <1> QED
    BY <1>4, <1>5, <1>6, <1>7, <1>8, <1>9 DEF IInv

(* A link of the sidebar, and going home, are such steps.                  *)
LEMMA LinkStep ==
    ASSUME IInv, (\E s \in Sessions : FollowLink(s)) \/ Leave
    PROVE  IInv'
  <1>1. CASE Leave
    <2>1. visits' \in 0..MaxVisits /\ url' \in [session : Sessions \cup {NoSession}, goal : BOOLEAN]
      BY <1>1 DEF IInv, TypeOK, Leave
    <2> QED
      BY <1>1, <2>1, CleanupStep DEF Leave, Left
  <1>2. ASSUME NEW s \in Sessions, FollowLink(s) PROVE IInv'
    <2>1. visits' \in 0..MaxVisits
      BY <1>2, ClientAssumption DEF IInv, TypeOK, FollowLink, Visit
    <2>2. url' \in [session : Sessions \cup {NoSession}, goal : BOOLEAN] /\ ~url'.goal
      BY <1>2 DEF FollowLink, Visit
    <2> QED
      BY <1>2, <2>1, <2>2, CleanupStep DEF FollowLink, Visit, Left
  <1> QED
    BY <1>1, <1>2

(* A session is connected to: one stream more than what was left.          *)
LEMMA ConnectStep ==
    ASSUME IInv, NEW s \in Sessions, connect(s)
    PROVE  IInv'
  <1> DEFINE n == Len(sockets) + 1
  <1>1. /\ page' = "session" /\ url' = [session |-> s, goal |-> TRUE] /\ status' = "connecting"
        /\ running' = TRUE /\ retries' = 0 /\ frames' = {} /\ attempts' = 1
        /\ strays' = Cardinality(Left) /\ pending' = pending /\ drops' = drops
        /\ visits < MaxVisits /\ visits' = visits + 1
        /\ sockets' = Append(disconnect, Fresh(s)) /\ wsRef' = Len(disconnect) + 1
    BY DEF connect, Visit, doConnect, Left
  <1>2. /\ sockets' \in Seq(Sockets) /\ Len(sockets') = n /\ wsRef' = n
        /\ DOMAIN sockets' = DOMAIN sockets \cup {n} /\ n \notin DOMAIN sockets
        /\ sockets'[n] = Fresh(s)
        /\ \A j \in DOMAIN sockets : sockets'[j] = disconnect[j]
        /\ Len(sockets) \in Nat
    BY <1>1, Disconnected, SocketAppended, LenProperties DEF IInv, TypeOK
  <1>3. Attached' = (Attached \ {wsRef}) \cup {n} /\ Timers' = Timers /\ Streams' = Left \cup {n}
    <2>1. ASSUME NEW j \in DOMAIN sockets
          PROVE  /\ sockets'[j].timer = sockets[j].timer
                 /\ (sockets'[j].net # "closed" /\ sockets'[j].onclose = "set") <=> j \in Attached \ {wsRef}
      BY <1>2, Disconnected
    <2>2. sockets'[n].net # "closed" /\ sockets'[n].onclose = "set" /\ sockets'[n].timer = FALSE
      BY <1>2 DEF Fresh
    <2>3. Attached \in SUBSET DOMAIN sockets
      BY DEF Attached
    <2>4. Attached' = (Attached \ {wsRef}) \cup {n}
      BY <1>2, <2>1, <2>2, <2>3 DEF Attached
    <2>5. Timers' = Timers
      BY <1>2, <2>1, <2>2 DEF Timers
    <2> QED
      BY <2>4, <2>5 DEF Streams, Left
  <1>4. /\ IsFiniteSet(Left) /\ Cardinality(Left) \in Nat
        /\ Cardinality(Timers) \in Nat /\ Cardinality(Timers) <= Cardinality(Left) /\ n \notin Left
    <2>1. Left \in SUBSET DOMAIN sockets /\ Timers \in SUBSET DOMAIN sockets /\ Timers \in SUBSET Left
      BY DEF Left, Timers, Attached
    <2>2. IsFiniteSet(Left) /\ Cardinality(Left) \in Nat /\ Cardinality(Timers) \in Nat
      BY <2>1, StreamsFinite DEF IInv, TypeOK
    <2>3. Cardinality(Timers) <= Cardinality(Left)
      BY <2>1, <2>2, FS_Subset
    <2> QED
      BY <1>2, <2>1, <2>2, <2>3
  <1>5. Cardinality(Left \cup {n}) = Cardinality(Left) + 1
    BY <1>4, FS_AddElement
  <1>6. TypeOK'
    <2>1. /\ wsRef' \in 0..Len(sockets') /\ attempts' \in Nat /\ strays' \in Nat
          /\ retries' \in 0..MaxRetries
      BY <1>1, <1>2, <1>4, ClientAssumption
    <2>2. visits' \in 0..MaxVisits
      BY <1>1, ClientAssumption DEF IInv, TypeOK
    <2>3. url' \in [session : Sessions \cup {NoSession}, goal : BOOLEAN]
      BY <1>1
    <2>4. frames' \in SUBSET Sessions
      BY <1>1
    <2> QED
      BY <1>1, <1>2, <2>1, <2>2, <2>3, <2>4, Zenon DEF IInv, TypeOK
  <1>7. SocketInv'
    BY <1>2, Disconnected DEF SocketInv, Fresh
  <1>8. OwnInv'
    <2>1. strays' = 0 => Streams' = {n}
      BY <1>1, <1>3, <1>4, FS_EmptySet
    <2>2. sockets'[n].session = s
      BY <1>2 DEF Fresh
    <2> QED
      BY <1>1, <1>2, <2>1, <2>2 DEF OwnInv
  <1>9. AttemptsInv'
    BY <1>1, <1>3, <1>4 DEF AttemptsInv
  <1>10. WaitInv'
    BY <1>1, <1>3 DEF WaitInv
  <1>11. OneStream'
    BY <1>1, <1>3, <1>4, <1>5 DEF OneStream
  <1> QED
    BY <1>6, <1>7, <1>8, <1>9, <1>10, <1>11 DEF IInv

-----------------------------------------------------------------------------
(* A timer fires: it is replaced by a socket of the same session.          *)
LEMMA TimerStep ==
    ASSUME IInv, NEW i \in DOMAIN sockets, TimerFires(i)
    PROVE  IInv'
  <1> DEFINE n == Len(sockets) + 1
             v == [sockets[i] EXCEPT !.timer = FALSE]
             k == [sockets EXCEPT ![i] = v]
             s == sockets[i].session
  <1>1. /\ sockets[i] \in Sockets /\ sockets[i].timer /\ sockets[i].net = "closed"
        /\ sockets \in Seq(Sockets) /\ Len(sockets) \in Nat
    BY SocketFields, LenProperties DEF IInv, TypeOK, SocketInv, TimerFires
  <1>2. /\ s \in Sessions /\ v \in Sockets /\ v.timer = FALSE /\ v.session = s
        /\ v.net = sockets[i].net /\ v.onclose = sockets[i].onclose
    BY <1>1 DEF Sockets
  <1>3. sockets' = Append(k, Fresh(s)) /\ wsRef' = Len(k) + 1
    BY DEF TimerFires, doConnect
  <1> HIDE DEF v
  <1>4. /\ k \in Seq(Sockets) /\ Len(k) = Len(sockets) /\ DOMAIN k = DOMAIN sockets /\ k[i] = v
        /\ \A j \in DOMAIN sockets : j # i => k[j] = sockets[j]
    BY <1>1, <1>2, SocketReplaced
  <1> HIDE DEF k
  <1>5. /\ sockets' \in Seq(Sockets) /\ Len(sockets') = n /\ wsRef' = n
        /\ DOMAIN sockets' = DOMAIN sockets \cup {n} /\ n \notin DOMAIN sockets
        /\ sockets'[n] = Fresh(s) /\ sockets'[i] = v
        /\ \A j \in DOMAIN sockets : j # i => sockets'[j] = sockets[j]
    BY <1>2, <1>3, <1>4, SocketAppended
  <1> HIDE DEF n, s
  <1>6. Attached' = Attached \cup {n} /\ Timers' = Timers \ {i} /\ Streams' = (Streams \ {i}) \cup {n}
    <2>1. sockets'[n].net # "closed" /\ sockets'[n].onclose = "set" /\ sockets'[n].timer = FALSE
      BY <1>5 DEF Fresh
    <2>2. Attached' = Attached \cup {n}
      BY <1>1, <1>2, <1>5, <2>1 DEF Attached
    <2>3. Timers' = Timers \ {i}
      BY <1>1, <1>2, <1>5, <2>1 DEF Timers
    <2>4. i \notin Attached
      BY <1>1 DEF Attached
    <2> QED
      BY <2>2, <2>3, <2>4, <1>5 DEF Streams
  <1>7. /\ Cardinality(Streams') = Cardinality(Streams)
        /\ Cardinality(Timers') + 1 = Cardinality(Timers) /\ Cardinality(Timers') \in Nat
    <2>1. /\ Streams \in SUBSET DOMAIN sockets /\ Timers \in SUBSET DOMAIN sockets
          /\ IsFiniteSet(Streams) /\ Cardinality(Streams) \in Nat
          /\ IsFiniteSet(Timers) /\ Cardinality(Timers) \in Nat
      BY <1>1, StreamsFinite
    <2>2. i \in Timers /\ i \in Streams /\ n \notin Streams \ {i}
      BY <1>1, <1>5, <2>1 DEF Timers, Streams
    <2>3. /\ IsFiniteSet(Timers \ {i}) /\ Cardinality(Timers \ {i}) = Cardinality(Timers) - 1
          /\ Cardinality(Timers \ {i}) \in Nat
      BY <2>1, <2>2, FS_RemoveElement, FS_CardinalityType
    <2>4. IsFiniteSet(Streams \ {i}) /\ Cardinality(Streams \ {i}) = Cardinality(Streams) - 1
      BY <2>1, <2>2, FS_RemoveElement
    <2>5. Cardinality((Streams \ {i}) \cup {n}) = Cardinality(Streams \ {i}) + 1
      BY <2>2, <2>4, FS_AddElement
    <2> QED
      BY <1>6, <2>1, <2>3, <2>4, <2>5
  <1>8. /\ attempts' = attempts + 1
        /\ UNCHANGED <<page, url, status, running, retries, frames, pending, strays, visits, drops>>
    BY DEF TimerFires
  <1>9. TypeOK'
    <2>1. wsRef' \in 0..Len(sockets')
      BY <1>1, <1>5 DEF n
    <2>2. attempts' \in Nat
      BY <1>8 DEF IInv, TypeOK
    <2> QED
      BY <1>5, <1>8, <2>1, <2>2, Zenon DEF IInv, TypeOK
  <1>10. SocketInv'
    <2>1. ASSUME NEW j \in DOMAIN sockets', j # n, j # i
          PROVE  j \in DOMAIN sockets /\ sockets'[j] = sockets[j]
      BY <1>5, <2>1
    <2>2. ASSUME NEW j \in DOMAIN sockets'
          PROVE  /\ sockets'[j].timer => sockets'[j].net = "closed"
                 /\ sockets'[j].net = "failing" => sockets'[j].onclose = "null"
                 /\ sockets'[j].onclose = "null" => sockets'[j].net \in {"failing", "closed"}
      <3>1. CASE j = n
        BY <1>5, <3>1 DEF Fresh
      <3>2. CASE j = i
        BY <1>1, <1>2, <1>5, <3>2
      <3>3. CASE j # n /\ j # i
        BY <2>1, <3>3 DEF IInv, SocketInv
      <3> QED
        BY <3>1, <3>2, <3>3
    <2> QED
      BY <2>2 DEF SocketInv
  <1>11. OwnInv'
    <2>1. page # "home"
      BY DEF IInv, OwnInv
    <2>2. ASSUME strays = 0
          PROVE  Streams' = {n} /\ page = "session" /\ url.goal /\ s = url.session
      <3>1. i \in Streams
        BY <1>1 DEF Streams, Timers
      <3>2. /\ \A j \in Streams : j = wsRef
            /\ page = "session" /\ url.goal /\ sockets[i].session = url.session
        BY <2>2, <3>1 DEF IInv, OwnInv
      <3> QED
        BY <1>6, <3>1, <3>2 DEF s
    <2>3. sockets'[n].session = s
      BY <1>5 DEF Fresh
    <2> QED
      BY <1>5, <1>8, <2>1, <2>2, <2>3 DEF OwnInv
  <1>12. AttemptsInv'
    BY <1>7, <1>8 DEF IInv, TypeOK, AttemptsInv
  <1>13. WaitInv'
    BY <1>6, <1>8 DEF IInv, WaitInv
  <1>14. OneStream'
    BY <1>7, <1>8 DEF IInv, OneStream
  <1> QED
    BY <1>9, <1>10, <1>11, <1>12, <1>13, <1>14 DEF IInv

(* A frame is handled: its socket is attached, so it counts as a stream.   *)
LEMMA MessageStep ==
    ASSUME IInv, NEW i \in DOMAIN sockets, onmessage(i)
    PROVE  IInv'
  <1> DEFINE k == sockets[i]
             v == [k EXCEPT !.inbox = Tail(k.inbox)]
             f == Head(k.inbox)
  <1>1. /\ k \in Sockets /\ sockets \in Seq(Sockets) /\ k.inbox # << >>
        /\ k.net \in {"open", "closing"} /\ i \in Attached /\ i \in Streams
    <2>1. k \in Sockets /\ sockets \in Seq(Sockets) /\ k.net \in {"open", "closing"} /\ k.inbox # << >>
      BY SocketFields DEF IInv, TypeOK, onmessage
    <2>2. k.onclose \in {"set", "null"} /\ k.onclose # "null"
      BY <2>1 DEF IInv, SocketInv, Sockets
    <2> QED
      BY <2>1, <2>2 DEF Attached, Streams
  <1>2. Tail(k.inbox) \in Seq({"connected", "done"}) /\ f \in {"connected", "done"}
    BY <1>1, HeadTailProperties DEF Sockets
  <1>3. /\ v \in Sockets /\ v.session = k.session /\ v.net = k.net /\ v.onclose = k.onclose
        /\ v.timer = k.timer
    BY <1>1, <1>2 DEF Sockets
  <1>4. sockets' = [sockets EXCEPT ![i] = v]
    BY DEF onmessage
  <1> HIDE DEF v
  <1>5. /\ sockets' \in Seq(Sockets) /\ Len(sockets') = Len(sockets) /\ DOMAIN sockets' = DOMAIN sockets
        /\ sockets'[i] = v
        /\ \A j \in DOMAIN sockets : j # i => sockets'[j] = sockets[j]
    BY <1>1, <1>3, <1>4, SocketReplaced
  <1>6. \A j \in DOMAIN sockets :
          /\ sockets'[j].session = sockets[j].session /\ sockets'[j].timer = sockets[j].timer
          /\ sockets'[j].onclose = sockets[j].onclose /\ sockets'[j].net = sockets[j].net
    BY <1>3, <1>5
  <1>7. Attached' = Attached /\ Timers' = Timers /\ Streams' = Streams
    BY <1>5, <1>6 DEF Attached, Timers, Streams
  <1>8. /\ UNCHANGED <<page, url, wsRef, pending, strays, visits, drops>>
        /\ status' = IF page = "session" THEN IF f = "connected" THEN "connected" ELSE "done" ELSE status
        /\ running' = (running /\ {status'} \cap {"done", "error"} = {})
        /\ retries' = (IF f = "connected" THEN 0 ELSE retries)
        /\ attempts' = (IF f = "connected" THEN 0 ELSE attempts)
        /\ frames' = IF page = "session" THEN frames \cup {k.session} ELSE frames
    BY DEF onmessage, setStatus, Effect
  <1> HIDE DEF f
  <1>9. TypeOK'
    <2>1. retries' \in 0..MaxRetries /\ attempts' \in Nat
      BY <1>8, ClientAssumption DEF IInv, TypeOK
    <2>2. frames' \in SUBSET Sessions
      <3>1. k.session \in Sessions /\ frames \in SUBSET Sessions
        BY <1>1 DEF Sockets, IInv, TypeOK
      <3> QED
        BY <1>8, <3>1
    <2>3. status' \in {"idle", "connecting", "connected", "done", "error"}
      BY <1>8 DEF IInv, TypeOK
    <2>4. running' \in BOOLEAN
      BY <1>8
    <2> QED
      BY <1>5, <1>8, <2>1, <2>2, <2>3, <2>4 DEF IInv, TypeOK
  <1>10. SocketInv'
    BY <1>5, <1>6 DEF IInv, SocketInv
  <1>11. page # "home"
    BY DEF IInv, OwnInv
  <1>12. OwnInv'
    BY <1>6, <1>7, <1>8, <1>11 DEF IInv, OwnInv, Streams, Attached, Timers
  <1>13. AttemptsInv'
    <2>1. /\ Cardinality(Timers) \in Nat /\ Cardinality(Streams) \in Nat
          /\ Cardinality(Timers) <= Cardinality(Streams)
      BY <1>1, StreamsFinite
    <2>2. Cardinality(Timers) <= 1 + strays
      BY <2>1 DEF IInv, OneStream, TypeOK
    <2> QED
      BY <1>7, <1>8, <2>1, <2>2 DEF IInv, AttemptsInv, TypeOK
  <1>14. WaitInv'
    <2>1. Streams' # {}
      BY <1>1, <1>7
    <2>2. running' => page' = "session" /\ status' \in {"connecting", "connected"}
      BY <1>8, <1>2 DEF IInv, WaitInv
    <2> QED
      BY <2>1, <2>2 DEF WaitInv
  <1>15. OneStream'
    <2>1. strays = 0 => k.session = url.session
      BY <1>1 DEF IInv, OwnInv
    <2> QED
      BY <1>7, <1>8, <2>1 DEF IInv, OneStream
  <1> QED
    BY <1>9, <1>10, <1>12, <1>13, <1>14, <1>15 DEF IInv

(* The error event of a socket that was already given up.                  *)
LEMMA ErrorStep ==
    ASSUME IInv, NEW i \in DOMAIN sockets, onerror(i)
    PROVE  IInv'
  <1> DEFINE v == [sockets[i] EXCEPT !.net = "closed"]
  <1>1. /\ sockets[i] \in Sockets /\ sockets \in Seq(Sockets)
        /\ sockets[i].net = "failing" /\ sockets[i].onclose = "null" /\ ~sockets[i].timer
    BY SocketFields DEF IInv, TypeOK, SocketInv, onerror
  <1>2. /\ v \in Sockets /\ v.session = sockets[i].session /\ v.net = "closed"
        /\ v.onclose = "null" /\ v.timer = sockets[i].timer
    BY <1>1 DEF Sockets
  <1>3. sockets' = [sockets EXCEPT ![i] = v]
    BY DEF onerror
  <1> HIDE DEF v
  <1>4. /\ sockets' \in Seq(Sockets) /\ Len(sockets') = Len(sockets) /\ DOMAIN sockets' = DOMAIN sockets
        /\ sockets'[i] = v
        /\ \A j \in DOMAIN sockets : j # i => sockets'[j] = sockets[j]
    BY <1>1, <1>2, <1>3, SocketReplaced
  <1>5. Attached' = Attached /\ Timers' = Timers /\ Streams' = Streams
    BY <1>1, <1>2, <1>4 DEF Attached, Timers, Streams
  <1>6. /\ UNCHANGED <<page, url, retries, wsRef, frames, pending, attempts, strays, visits, drops>>
        /\ status' = IF page = "session" THEN "error" ELSE status
        /\ running' = (running /\ {status'} \cap {"done", "error"} = {})
    BY DEF onerror, setStatus, Effect
  <1>7. TypeOK'
    BY <1>4, <1>6 DEF IInv, TypeOK
  <1>8. SocketInv'
    BY <1>1, <1>2, <1>4 DEF IInv, SocketInv
  <1>9. OwnInv'
    <2>1. page # "home" /\ \A j \in DOMAIN sockets : sockets'[j].session = sockets[j].session
      BY <1>2, <1>4 DEF IInv, OwnInv
    <2> QED
      BY <1>5, <1>6, <2>1 DEF IInv, OwnInv, Streams, Attached, Timers
  <1>10. AttemptsInv' /\ WaitInv' /\ OneStream'
    BY <1>5, <1>6 DEF IInv, AttemptsInv, WaitInv, OneStream
  <1> QED
    BY <1>7, <1>8, <1>9, <1>10 DEF IInv

(* A socket closes: the stream goes on as a timer, paid for by a retry, or *)
(* ends.                                                                   *)
LEMMA CloseStep ==
    ASSUME IInv, NEW i \in DOMAIN sockets, onclose(i)
    PROVE  IInv'
  <1> DEFINE v == [sockets[i] EXCEPT !.net = "closed", !.inbox = << >>, !.timer = MayRetry]
  <1>1. /\ sockets[i] \in Sockets /\ sockets \in Seq(Sockets) /\ i \in Attached /\ i \in Streams
        /\ sockets[i].net # "closed" /\ sockets[i].onclose = "set" /\ ~sockets[i].timer
    BY SocketFields DEF IInv, TypeOK, SocketInv, onclose, Attached, Streams
  <1>2. MayRetry \in BOOLEAN /\ << >> \in Seq({"connected", "done"})
    BY DEF MayRetry
  <1>3. /\ v \in Sockets /\ v.session = sockets[i].session /\ v.net = "closed"
        /\ v.onclose = "set" /\ v.timer = MayRetry
    BY <1>1, <1>2 DEF Sockets
  <1>4. sockets' = [sockets EXCEPT ![i] = v]
    BY <1>2 DEF onclose, Scheduled
  <1> HIDE DEF v
  <1>5. /\ sockets' \in Seq(Sockets) /\ Len(sockets') = Len(sockets) /\ DOMAIN sockets' = DOMAIN sockets
        /\ sockets'[i] = v
        /\ \A j \in DOMAIN sockets : j # i => sockets'[j] = sockets[j]
    BY <1>1, <1>3, <1>4, SocketReplaced
  <1>6. Attached' = Attached \ {i} /\ Timers' = IF MayRetry THEN Timers \cup {i} ELSE Timers
    BY <1>1, <1>2, <1>3, <1>5 DEF Attached, Timers
  <1>7. MayRetry => Streams' = Streams
    BY <1>1, <1>6 DEF Streams
  <1>8. Streams' \subseteq Streams
    BY <1>1, <1>6 DEF Streams
  <1>9. i \notin Timers
    BY <1>1 DEF Timers
  <1>10. /\ Cardinality(Timers) \in Nat /\ Cardinality(Streams) \in Nat
         /\ Cardinality(Streams') \in Nat /\ Cardinality(Streams') <= Cardinality(Streams)
         /\ Cardinality(Timers') = IF MayRetry THEN Cardinality(Timers) + 1 ELSE Cardinality(Timers)
    <2>1. /\ IsFiniteSet(Timers) /\ IsFiniteSet(Streams)
          /\ Cardinality(Timers) \in Nat /\ Cardinality(Streams) \in Nat
      BY <1>1, StreamsFinite
    <2>2. IsFiniteSet(Streams') /\ Cardinality(Streams') <= Cardinality(Streams)
      BY <1>8, <2>1, FS_Subset
    <2>3. Cardinality(Streams') \in Nat
      BY <2>2, FS_CardinalityType
    <2>4. Cardinality(Timers \cup {i}) = Cardinality(Timers) + 1
      BY <1>9, <2>1, FS_AddElement
    <2> QED
      BY <1>6, <2>1, <2>2, <2>3, <2>4
  <1>11. /\ UNCHANGED <<page, url, wsRef, frames, pending, attempts, strays, visits, drops>>
         /\ status' = IF page = "session" THEN IF MayRetry THEN "connecting" ELSE "error" ELSE status
         /\ retries' = IF MayRetry THEN retries + 1 ELSE retries
    BY DEF onclose, setStatus
  <1>12. running' \in BOOLEAN /\ (running' => running /\ status' \notin {"done", "error"})
    <2>1. PICK shown \in Shown(i, status') : Effect(shown)
      BY DEF onclose
    <2>2. status' \in shown
      BY <2>1 DEF Shown
    <2> QED
      BY <2>1, <2>2 DEF Effect
  <1>13. TypeOK'
    <2>1. retries' \in 0..MaxRetries
      BY <1>11, ClientAssumption DEF IInv, TypeOK, MayRetry
    <2>2. status' \in {"idle", "connecting", "connected", "done", "error"}
      BY <1>11 DEF IInv, TypeOK
    <2> QED
      BY <1>5, <1>11, <1>12, <2>1, <2>2 DEF IInv, TypeOK
  <1>14. SocketInv'
    BY <1>3, <1>5 DEF IInv, SocketInv
  <1>15. OwnInv'
    <2>1. page # "home" /\ \A j \in DOMAIN sockets : sockets'[j].session = sockets[j].session
      BY <1>3, <1>5 DEF IInv, OwnInv
    <2>2. Streams \subseteq DOMAIN sockets
      BY DEF Streams, Attached, Timers
    <2> QED
      BY <1>8, <1>11, <2>1, <2>2 DEF IInv, OwnInv
  <1>16. AttemptsInv'
    BY <1>10, <1>11 DEF IInv, TypeOK, AttemptsInv
  <1>17. WaitInv'
    <2>1. CASE MayRetry
      BY <1>1, <1>7, <1>11, <1>12, <2>1 DEF IInv, WaitInv
    <2>2. CASE ~MayRetry
      BY <1>11, <1>12, <2>2 DEF IInv, WaitInv
    <2> QED
      BY <2>1, <2>2
  <1>18. OneStream'
    BY <1>10, <1>11 DEF IInv, TypeOK, OneStream
  <1> QED
    BY <1>13, <1>14, <1>15, <1>16, <1>17, <1>18 DEF IInv

-----------------------------------------------------------------------------
(* Every step keeps the inductive invariant.                               *)
LEMMA IInvStep == IInv /\ [Next]_vars => IInv'
  <1> SUFFICES ASSUME IInv, [Next]_vars PROVE IInv'
    OBVIOUS
  <1>1. CASE UNCHANGED vars
    BY <1>1 DEF vars, IInv, TypeOK, SocketInv, OwnInv, AttemptsInv, WaitInv, OneStream, Streams, Attached, Timers
  <1>2. ASSUME NEW s \in Sessions, connect(s) PROVE IInv'
    BY <1>2, ConnectStep
  <1>3. CASE (\E s \in Sessions : FollowLink(s)) \/ Leave
    BY <1>3, LinkStep
  <1>4. ASSUME NEW i \in DOMAIN sockets, Event(i) \/ TimerFires(i) \/ Server(i) \/ Drop(i) PROVE IInv'
    BY <1>4, ServerStep, MessageStep, ErrorStep, CloseStep, TimerStep DEF Event
  <1> QED
    BY <1>1, <1>2, <1>3, <1>4 DEF Next

(* The inductive invariant holds in every reachable state.                 *)
THEOREM Inductive == Spec => []IInv
  BY InitIInv, IInvStep, PTL DEF Spec

(* Every variable keeps its type.                                          *)
THEOREM TypeCorrect == Spec => []TypeOK
  <1>1. IInv => TypeOK
    BY DEF IInv
  <1> QED
    BY <1>1, Inductive, PTL

(* After a visit or a connected frame the hook opens one socket and at     *)
(* most MAX_RETRIES more, plus one for each stream left behind.            *)
THEOREM AttemptsBoundedHolds == Spec => []AttemptsBounded
  <1>1. IInv => AttemptsBounded
    <2> SUFFICES ASSUME IInv PROVE AttemptsBounded
      OBVIOUS
    <2>1. Cardinality(Timers) \in Nat /\ attempts \in Nat /\ strays \in Nat /\ retries \in 0..MaxRetries
      BY StreamsFinite DEF IInv, TypeOK
    <2> QED
      BY <2>1, ClientAssumption DEF IInv, AttemptsInv, AttemptsBounded
  <1> QED
    BY <1>1, Inductive, PTL

(* Over any number of visits, reconnections and failures the hook has at   *)
(* most one stream besides those left behind by earlier visits, and with   *)
(* none left behind only the page's own session is in the log.             *)
THEOREM OneStreamHolds == Spec => []OneStream
  <1>1. IInv => OneStream
    BY DEF IInv
  <1> QED
    BY <1>1, Inductive, PTL

(* A page that waits, or locks the provider toggle, has a stream to wait   *)
(* for, and its own when nothing was left behind.                          *)
THEOREM NeverStuckHolds == Spec => []NeverStuck
  <1>1. IInv => NeverStuck
    <2> SUFFICES ASSUME IInv, page = "session", running \/ status \in {"connecting", "connected"}
                 PROVE  Streams # {} /\ (strays = 0 => Streams = {wsRef})
      BY DEF NeverStuck
    <2>1. Streams # {}
      BY DEF IInv, WaitInv
    <2> QED
      BY <2>1 DEF IInv, OwnInv
  <1> QED
    BY <1>1, Inductive, PTL
=============================================================================

------------------------------- MODULE Client -------------------------------
(***************************************************************************)
(* DaemonClient (app/src/main/services/daemon-client.ts): the application's*)
(* end of the IPC connection. One event loop runs it: each action is one   *)
(* callback, with the microtasks that follow it. A socket is known by its  *)
(* number. The daemon answers the requests of a connection in their order, *)
(* sends events in between, and may close or break the connection at any   *)
(* time; a line may reach the client in two chunks.                        *)
(*                                                                         *)
(* The application connects when it has none or was told that it was lost; *)
(* it calls and closes as it likes. Methods, contents and delays are left  *)
(* out; an event stands for every frame that answers no call.              *)
(***************************************************************************)
EXTENDS Integers, Sequences

CONSTANTS
    MaxSock,    \* bound on the connections
    MaxCall,    \* bound on the calls, pings included
    MaxEvent    \* bound on the events the daemon sends

ASSUME ClientAssumption == MaxSock \in Nat /\ MaxCall \in Nat /\ MaxEvent \in Nat

VARIABLES
    socket,     \* DaemonClient.socket, 0 for null
    socks,      \* number of sockets created
    state,      \* what has become of each socket
    buf,        \* DaemonClient.buf: the socket whose half line it holds, 0 for empty
    calls,      \* the calls made: socket, kind, outcome; call number i has id i
    pending,    \* DaemonClient.pending
    heartbeat,  \* the option heartbeatIntervalMs is positive (0 disables the heartbeat)
    timer,      \* DaemonClient.heartbeatTimer: the socket that started it, 0 for null
    intervals,  \* the intervals that run
    closed,     \* DaemonClient.closed
    told,       \* what the application was last told about the connection
    up,         \* per socket: requests that the daemon has to answer
    down,       \* per socket: frames that the client has to read, 0 for an event
    events,     \* number of events the daemon has sent
    errored,    \* history: sockets that ended with an 'error'
    answered,   \* history: calls that the daemon has answered
    read,       \* history: the sockets from which a line was read
    lost        \* history: frames that were not handled: the socket, whether it was its
                \* first line, and the socket of the half line before it

io      == <<up, down, events, answered>>
beats   == <<heartbeat, timer, intervals>>
app     == <<closed, told>>
history == <<errored, read, lost>>
vars    == <<socket, socks, state, buf, calls, pending, beats, app, io, history>>

Socket  == 1 .. MaxSock
CallId  == 1 .. Len(calls)
Outcome == {"waiting", "resolved", "rejected"}
Call    == [sock : Socket, ping : BOOLEAN, outcome : Outcome]

Init ==
    /\ socket = 0 /\ socks = 0
    /\ state = [k \in Socket |-> "none"]
    /\ buf = 0
    /\ calls = <<>> /\ pending = {}
    /\ heartbeat \in BOOLEAN /\ timer = 0 /\ intervals = {}
    /\ closed = FALSE /\ told = "nothing"
    /\ up = [k \in Socket |-> <<>>] /\ down = [k \in Socket |-> <<>>]
    /\ events = 0 /\ answered = {}
    /\ errored = {} /\ read = {} /\ lost = {}

-----------------------------------------------------------------------------
(* Helpers. *)

SetState(k, s) == state' = [state EXCEPT ![k] = s]

(* socket.destroy: a 'close' follows, unless the socket has ended already.  *)
Destroyed(k) ==
    [state EXCEPT ![k] = IF k # 0 /\ state[k] \in {"open", "ended"} THEN "destroyed" ELSE @]

Settle(ids, outcome) ==
    /\ calls' = [i \in CallId |-> IF i \in ids THEN [calls[i] EXCEPT !.outcome = outcome]
                                  ELSE calls[i]]
    /\ pending' = pending \ ids

StartHeartbeat(k) ==
    /\ IF heartbeat THEN timer' = k /\ intervals' = intervals \cup {k}
       ELSE UNCHANGED <<timer, intervals>>
    /\ UNCHANGED heartbeat

(* Mutant: the timer is forgotten, not cleared.                             *)
StopHeartbeat_Forgets == timer' = 0 /\ UNCHANGED <<heartbeat, intervals>>

StopHeartbeat == timer' = 0 /\ intervals' = intervals \ {timer} /\ UNCHANGED heartbeat

-----------------------------------------------------------------------------
(* connect, and the events of a socket. *)

Connect ==
    /\ ~closed /\ told # "open"
    /\ socks < MaxSock
    /\ \A k \in Socket : state[k] # "connecting"
    /\ socks' = socks + 1
    /\ SetState(socks + 1, "connecting")
    /\ UNCHANGED <<socket, buf, calls, pending, beats, app, io, history>>

OnConnect(k) ==
    /\ state[k] = "connecting"
    /\ SetState(k, "open")
    /\ socket' = k
    /\ StartHeartbeat(k)
    /\ told' = "open"
    /\ UNCHANGED <<socks, buf, calls, pending, closed, io, history>>

ConnectFails(k) ==
    /\ state[k] = "connecting"
    /\ SetState(k, "gone")
    /\ told' = "rejected"
    /\ UNCHANGED <<socket, socks, buf, calls, pending, beats, closed, io, history>>

(* Mutant: the pending calls are forgotten, not rejected.                   *)
OnClose_Forgets(k) ==
    /\ \/ state[k] = "destroyed"
       \/ state[k] = "ended" /\ down[k] = <<>>
    /\ SetState(k, "gone")
    /\ StopHeartbeat
    /\ socket' = 0
    /\ pending' = {} /\ UNCHANGED calls
    /\ told' = "close"
    /\ UNCHANGED <<socks, buf, closed, io, history>>

(* All that the peer sent is read before the 'close' of a socket it ended.  *)
(* The pings that are rejected here find no socket to destroy.              *)
OnClose(k) ==
    /\ \/ state[k] = "destroyed"
       \/ state[k] = "ended" /\ down[k] = <<>>
    /\ SetState(k, "gone")
    /\ StopHeartbeat
    /\ socket' = 0
    /\ Settle(pending, "rejected")
    /\ told' = "close"
    /\ UNCHANGED <<socks, buf, closed, io, history>>

(* The handler of connect removes every listener, so that the 'close' that  *)
(* follows is not seen; the one of setupReader still gets this event. The   *)
(* socket stays the current one and its heartbeat goes on.                  *)
OnError(k) ==
    /\ state[k] = "failed"
    /\ SetState(k, "gone")
    /\ told' = "error"
    /\ errored' = errored \cup {k}
    /\ UNCHANGED <<socket, socks, buf, calls, pending, beats, closed, io, read, lost>>

Close ==
    /\ closed' = TRUE
    /\ StopHeartbeat
    /\ IF socket = 0 THEN UNCHANGED state ELSE state' = Destroyed(socket)
    /\ socket' = 0
    /\ Settle(pending, "rejected")
    /\ UNCHANGED <<socks, buf, told, io, history>>

-----------------------------------------------------------------------------
(* Calls and pings. *)

(* Mutant: the map is keyed with the id before its increment.               *)
Send_StaleId(ping) ==
    /\ Len(calls) < MaxCall
    /\ calls' = Append(calls, [sock |-> socket, ping |-> ping, outcome |-> "waiting"])
    /\ pending' = pending \cup {Len(calls)}
    /\ up' = IF state[socket] = "open"
             THEN [up EXCEPT ![socket] = Append(@, Len(calls) + 1)] ELSE up
    /\ UNCHANGED <<socket, socks, state, buf, beats, app, down, events, answered, history>>

(* The id is new, the timer starts, the line is written: it reaches the     *)
(* daemon unless the socket is broken.                                      *)
Send(ping) ==
    /\ Len(calls) < MaxCall
    /\ calls' = Append(calls, [sock |-> socket, ping |-> ping, outcome |-> "waiting"])
    /\ pending' = pending \cup {Len(calls) + 1}
    /\ up' = IF state[socket] = "open"
             THEN [up EXCEPT ![socket] = Append(@, Len(calls) + 1)] ELSE up
    /\ UNCHANGED <<socket, socks, state, buf, beats, app, down, events, answered, history>>

(* Mutant: a call needs a socket only, and a connect that was underway when *)
(* the client was closed may still bring one.                               *)
CallDaemon_IgnoresClosed == socket # 0 /\ Send(FALSE)

(* A call without a socket is rejected at once and leaves no trace.         *)
CallDaemon ==
    /\ socket # 0 /\ ~closed
    /\ Send(FALSE)

HeartbeatTick(i) ==
    /\ i \in intervals
    /\ \/ socket # 0 /\ ~closed /\ Send(TRUE)
       \/ /\ socket # 0 /\ closed
          /\ state' = Destroyed(socket)
          /\ UNCHANGED <<socket, socks, buf, calls, pending, beats, app, io, history>>

(* A call that fails on its own; when it is a ping, the socket that is then *)
(* the current one is destroyed.                                            *)
Fails(i) ==
    /\ Settle({i}, "rejected")
    /\ IF calls[i].ping /\ socket # 0 THEN state' = Destroyed(socket) ELSE UNCHANGED state
    /\ UNCHANGED <<socket, socks, buf, beats, app, io, history>>

(* Mutant: only a ping has a timer.                                         *)
TimesOut_PingOnly(i) == i \in pending /\ calls[i].ping /\ Fails(i)

TimesOut(i) == i \in pending /\ Fails(i)

WriteFails(i) ==
    /\ i \in pending
    /\ state[calls[i].sock] \in {"ended", "failed", "destroyed", "gone"}
    /\ Fails(i)

-----------------------------------------------------------------------------
(* Reading. *)

Readable(k) == state[k] \in {"open", "ended"} /\ down[k] # <<>>

(* A chunk that ends within a line.                                         *)
ReadHalf(k) ==
    /\ Readable(k) /\ buf = 0
    /\ buf' = k
    /\ UNCHANGED <<socket, socks, state, calls, pending, beats, app, io, history>>

Handle(id) ==
    IF id \in pending THEN Settle({id}, "resolved") ELSE UNCHANGED <<calls, pending>>

(* Mutant: a chunk replaces what was in the buffer.                         *)
ReadLine_Replaces(k) ==
    /\ Readable(k)
    /\ down' = [down EXCEPT ![k] = Tail(@)]
    /\ buf' = 0
    /\ read' = read \cup {k}
    /\ \/ /\ buf = 0
          /\ Handle(Head(down[k]))
          /\ UNCHANGED lost
       \/ /\ buf # 0
          /\ lost' = lost \cup {[sock |-> k, first |-> k \notin read, half |-> buf]}
          /\ UNCHANGED <<calls, pending>>
    /\ UNCHANGED <<socket, socks, state, beats, app, up, events, answered, errored>>

(* A chunk that ends a line: the line is parsed, unless its beginning is    *)
(* what an earlier connection has left in the buffer.                       *)
ReadLine(k) ==
    /\ Readable(k)
    /\ down' = [down EXCEPT ![k] = Tail(@)]
    /\ buf' = 0
    /\ read' = read \cup {k}
    /\ \/ /\ buf \in {0, k}
          /\ Handle(Head(down[k]))
          /\ UNCHANGED lost
       \/ /\ buf \notin {0, k}
          /\ lost' = lost \cup {[sock |-> k, first |-> k \notin read, half |-> buf]}
          /\ UNCHANGED <<calls, pending>>
    /\ UNCHANGED <<socket, socks, state, beats, app, up, events, answered, errored>>

-----------------------------------------------------------------------------
(* The daemon and the connection. *)

DaemonAnswers(k) ==
    /\ state[k] = "open" /\ up[k] # <<>>
    /\ up' = [up EXCEPT ![k] = Tail(@)]
    /\ down' = [down EXCEPT ![k] = Append(@, Head(up[k]))]
    /\ answered' = answered \cup {Head(up[k])}
    /\ UNCHANGED <<socket, socks, state, buf, calls, pending, beats, app, events, history>>

DaemonNotifies(k) ==
    /\ state[k] = "open" /\ events < MaxEvent
    /\ events' = events + 1
    /\ down' = [down EXCEPT ![k] = Append(@, 0)]
    /\ UNCHANGED <<socket, socks, state, buf, calls, pending, beats, app, up, answered,
                   history>>

(* Closed between two lines, or within one: its rest never comes.           *)
DaemonCloses(k) ==
    /\ state[k] = "open"
    /\ SetState(k, "ended")
    /\ \E n \in {Len(down[k]), Len(down[k]) - 1} :
           n >= 0 /\ down' = [down EXCEPT ![k] = SubSeq(@, 1, n)]
    /\ UNCHANGED <<socket, socks, buf, calls, pending, beats, app, up, events, answered,
                   history>>

SocketFails(k) ==
    /\ state[k] \in {"open", "ended"}
    /\ SetState(k, "failed")
    /\ UNCHANGED <<socket, socks, buf, calls, pending, beats, app, io, history>>

-----------------------------------------------------------------------------
SocketEvent(k) ==
    \/ OnConnect(k) \/ ConnectFails(k) \/ OnClose(k) \/ OnError(k)
    \/ ReadHalf(k) \/ ReadLine(k)

Next ==
    \/ Connect \/ CallDaemon \/ Close
    \/ \E k \in Socket : \/ SocketEvent(k) \/ HeartbeatTick(k)
                         \/ DaemonAnswers(k) \/ DaemonNotifies(k)
                         \/ DaemonCloses(k) \/ SocketFails(k)
    \/ \E i \in CallId : TimesOut(i) \/ WriteFails(i)

Spec == Init /\ [][Next]_vars

(* Timers fire and the events of a socket are delivered. Nothing obliges    *)
(* the daemon to answer, or the application to connect again.               *)
Fairness ==
    /\ \A i \in 1 .. MaxCall : WF_vars(i \in CallId /\ TimesOut(i))
    /\ \A k \in Socket : WF_vars(SocketEvent(k)) /\ WF_vars(HeartbeatTick(k))

FairSpec == Spec /\ Fairness

-----------------------------------------------------------------------------
(* Type invariant.                                                          *)
TypeOK ==
    /\ socket \in 0 .. socks /\ socks \in 0 .. MaxSock
    /\ state \in [Socket -> {"none", "connecting", "open", "ended", "failed", "destroyed",
                             "gone"}]
    /\ buf \in 0 .. socks
    /\ calls \in Seq(Call) /\ pending \subseteq CallId
    /\ heartbeat \in BOOLEAN /\ timer \in 0 .. socks /\ intervals \subseteq 1 .. socks
    /\ closed \in BOOLEAN
    /\ told \in {"nothing", "open", "close", "error", "rejected"}
    /\ up \in [Socket -> Seq(CallId)]
    /\ down \in [Socket -> Seq(CallId \cup {0})]
    /\ events \in Nat /\ answered \subseteq CallId
    /\ errored \subseteq Socket /\ read \subseteq Socket
    /\ lost \subseteq [sock : Socket, first : BOOLEAN, half : Socket]

(* However a connection ends, no promise is left hanging: the calls that    *)
(* wait are those in the map, each with its timer; and none is resolved but *)
(* by the daemon's answer to it.                                            *)
CallsMatchPending ==
    /\ \A i \in CallId : calls[i].outcome = "waiting" <=> i \in pending
    /\ \A i \in CallId : calls[i].outcome = "resolved" => i \in answered

(* What the application sees of its calls is a service that settles each    *)
(* once, resolves it with the daemon's answer to it only, and leaves none   *)
(* over, and takes none, once closed, whatever the sockets that come and go *)
(* underneath (DaemonClient.call, handleFrame, close).                      *)
With(outcome) == {i \in CallId : calls[i].outcome = outcome}

Service == INSTANCE CallService WITH
    Ids <- 1 .. MaxCall, given <- answered,
    waiting <- With("waiting"), resolved <- With("resolved"), rejected <- With("rejected")

ServiceSpec == Service!Spec

(* The current connection has a heartbeat, unless the option disables it,   *)
(* and no interval outlives its connection but those of connections that    *)
(* ended with an 'error', which nothing stops once another has its own.     *)
HeartbeatMatches ==
    /\ heartbeat /\ socket # 0 => timer \in intervals
    /\ \A i \in intervals : i = timer \/ i \in errored

(* A frame that arrives whole is handled, unless it is the first one after  *)
(* a connection that ended within a line: its half line is still in the     *)
(* buffer.                                                                  *)
FramesWhole == \A f \in lost : f.half < f.sock /\ f.first

(* Every call is settled, whatever the daemon and the connection do; and a  *)
(* closed client that has a heartbeat keeps no connection, not even one     *)
(* whose connect was underway: the first tick destroys it. Without a        *)
(* heartbeat only the daemon, or another close, ends that one.              *)
CallsSettle ==
    /\ \A i \in 1 .. MaxCall : i \in pending ~> i \notin pending
    /\ heartbeat /\ closed ~> \A k \in Socket : state[k] \in {"none", "gone"}
=============================================================================

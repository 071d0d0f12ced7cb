-------------------------------- MODULE Ipc --------------------------------
(***************************************************************************)
(* The IPC server of xrayd (daemon/internal/ipc): connections are accepted,*)
(* registered, authorised and subscribed, then served by a reader that     *)
(* answers requests and a writer that pumps events; both write under the   *)
(* connection's wmu. Broadcast offers an event to the bounded queue of     *)
(* every subscriber and closes the connection whose queue is full. The     *)
(* state bridge relays what the tunnel actor publishes into a bounded      *)
(* channel of its own, which drops what does not fit. main shuts down.     *)
(*                                                                         *)
(* Statuses and changes of the config registry are numbered. A client      *)
(* sends requests, reads or does not read, and goes away, as it likes.     *)
(***************************************************************************)
EXTENDS Integers, Sequences

CONSTANTS
    Conn,       \* connections
    Bridge,     \* the goroutine of runStateChangedBridge
    MaxStatus,  \* bound on the statuses of the tunnel
    MaxAsked,   \* bound on the requests of all clients
    FeedCap,    \* capacity of the bridge's channel (16 in the code)
    QueueCap    \* capacity of a subscriber's channel (16 in the code)

ASSUME IpcAssumption ==
    /\ Bridge \notin Conn
    /\ MaxStatus \in Nat /\ MaxAsked \in Nat
    /\ FeedCap \in Nat \ {0} /\ QueueCap \in Nat \ {0}

VARIABLES
    conn,        \* per connection: the reader's program point, request, and
                 \* whether the socket is open, the peer gone, the id stored
    asked,       \* number of requests read so far
    registered,  \* Server.conns
    subs,        \* subscribers.list
    queue,       \* subscriber.events of each connection
    cast,        \* the Broadcast underway of the bridge and of each handler
    writer,      \* per connection: the writerLoop
    wmu,         \* per connection: the holder of wmu
    sent,        \* per connection: the events on the wire
    status,      \* number of the tunnel's current status
    feed,        \* the bridge's channel
    bridge,      \* the bridge: not subscribed yet, running, stopped
    changes,     \* number of changes of the config registry
    main,        \* how far main's shutdown has come
    toClose,     \* connections that Close has still to close
    lost,        \* history: statuses that never entered the bridge's channel
    unnamed,     \* history: connections found too slow before their id was stored
    since        \* history: status and changes when the connection subscribed

server  == <<registered, main, toClose>>
fanout  == <<subs, queue, cast, unnamed, since>>
wire    == <<writer, wmu, sent>>
tunnel  == <<status, feed, bridge, lost>>
vars    == <<conn, asked, changes, server, fanout, wire, tunnel>>

Casters == Conn \cup {Bridge}
State(n)  == [kind |-> "State.Changed", n |-> n]
Change(n) == [kind |-> "Configs.Changed", n |-> n]
Event     == [kind : {"State.Changed", "Configs.Changed"}, n : Nat]

Stage == {"none", "register", "auth", "store", "serve", "post", "await", "announce",
          "reply", "replying", "refuse", "refusing", "unsub", "close", "ended"}
Idle   == [events |-> {}, targets |-> {}, slow |-> {}]
NoLoop == [at |-> "none", events |-> {}]

Init ==
    /\ conn = [c \in Conn |-> [at |-> "none", open |-> FALSE, gone |-> FALSE,
                               named |-> FALSE, change |-> 0]]
    /\ asked = 0 /\ changes = 0
    /\ registered = {} /\ main = "serving" /\ toClose = {}
    /\ subs = {} /\ unnamed = {}
    /\ queue = [c \in Conn |-> <<>>]
    /\ cast = [b \in Casters |-> Idle]
    /\ since = [c \in Conn |-> [status |-> 0, changes |-> 0]]
    /\ writer = [c \in Conn |-> NoLoop]
    /\ wmu = [c \in Conn |-> "free"]
    /\ sent = [c \in Conn |-> {}]
    /\ status = 1 /\ feed = <<>> /\ bridge = "start" /\ lost = {}

Closing    == main = "closing"
Broken(c)  == ~conn[c].open \/ conn[c].gone
Move(c, stage) == conn' = [conn EXCEPT ![c].at = stage]

-----------------------------------------------------------------------------
(* Broadcast: the subscribers are copied under the lock, then each is       *)
(* offered the event without waiting; a full queue closes its connection.   *)

Broadcast(b, e) ==
    cast' = [cast EXCEPT ![b] = IF subs = {} THEN Idle
                                ELSE [events |-> {e}, targets |-> subs, slow |-> {}]]

Served(b, c) ==
    cast' = [cast EXCEPT ![b] =
                 IF cast[b].targets = {c} THEN Idle
                 ELSE [events |-> cast[b].events, targets |-> cast[b].targets \ {c},
                       slow |-> {}]]

(* Mutant: the queue grows without bound.                                   *)
Offer_Unbounded(b, c) ==
    /\ c \in cast[b].targets /\ cast[b].slow = {}
    /\ \E e \in cast[b].events : queue' = [queue EXCEPT ![c] = Append(@, e)]
    /\ Served(b, c)
    /\ UNCHANGED <<conn, asked, changes, server, subs, unnamed, since, wire, tunnel>>

Offer(b, c) ==
    /\ c \in cast[b].targets /\ cast[b].slow = {}
    /\ \/ /\ Len(queue[c]) < QueueCap
          /\ \E e \in cast[b].events : queue' = [queue EXCEPT ![c] = Append(@, e)]
          /\ Served(b, c)
       \/ /\ Len(queue[c]) = QueueCap
          /\ cast' = [cast EXCEPT ![b].slow = {c}]
          /\ UNCHANGED queue
    /\ UNCHANGED <<conn, asked, changes, server, subs, unnamed, since, wire, tunnel>>

(* Mutants: the event is dropped and the connection kept; the connection is *)
(* closed under wmu, which a blocked write holds.                           *)
CloseBySubscriberID_Drops(b, c) ==
    /\ c \in cast[b].slow
    /\ Served(b, c)
    /\ UNCHANGED <<conn, asked, changes, server, subs, queue, unnamed, since, wire, tunnel>>
CloseBySubscriberID_Waits(b, c) ==
    /\ c \in cast[b].slow
    /\ wmu[c] = "free"
    /\ Served(b, c)
    /\ conn' = [conn EXCEPT ![c].open = IF conn[c].named THEN FALSE ELSE @]
    /\ unnamed' = IF conn[c].named THEN unnamed ELSE unnamed \cup {c}
    /\ UNCHANGED <<asked, changes, server, subs, queue, since, wire, tunnel>>

(* The connection is found by the id in its handle.                         *)
CloseBySubscriberID(b, c) ==
    /\ c \in cast[b].slow
    /\ Served(b, c)
    /\ \/ /\ c \in registered /\ conn[c].named
          /\ conn' = [conn EXCEPT ![c].open = FALSE]
          /\ UNCHANGED unnamed
       \/ /\ ~(c \in registered /\ conn[c].named)
          /\ unnamed' = IF conn[c].named THEN unnamed ELSE unnamed \cup {c}
          /\ UNCHANGED conn
    /\ UNCHANGED <<asked, changes, server, subs, queue, since, wire, tunnel>>

-----------------------------------------------------------------------------
(* The tunnel actor and the state bridge. *)

(* Subscribers.broadcast of the state package: what does not fit is dropped *)
(* with a log line; a bridge that has not subscribed yet gets nothing.      *)
Publish ==
    /\ main = "serving" /\ status < MaxStatus
    /\ status' = status + 1
    /\ \/ /\ bridge = "running" /\ Len(feed) < FeedCap
          /\ feed' = Append(feed, status + 1)
          /\ UNCHANGED lost
       \/ /\ ~(bridge = "running" /\ Len(feed) < FeedCap)
          /\ lost' = lost \cup {status + 1}
          /\ UNCHANGED feed
    /\ UNCHANGED <<conn, asked, changes, server, fanout, wire, bridge>>

BridgeSubscribes ==
    /\ bridge = "start"
    /\ bridge' = "running"
    /\ UNCHANGED <<conn, asked, changes, server, fanout, wire, status, feed, lost>>

(* The receive and the copy of the subscribers are one step: nothing that   *)
(* others do in between tells them apart but the room in the channel.       *)
BridgeReceives ==
    /\ bridge = "running" /\ cast[Bridge] = Idle
    /\ feed # <<>>
    /\ feed' = Tail(feed)
    /\ Broadcast(Bridge, State(Head(feed)))
    /\ UNCHANGED <<conn, asked, changes, server, subs, queue, unnamed, since, wire, status,
                   bridge, lost>>

BridgeStops ==
    /\ bridge = "running" /\ cast[Bridge] = Idle
    /\ Closing
    /\ bridge' = "stopped"
    /\ UNCHANGED <<conn, asked, changes, server, fanout, wire, status, feed, lost>>

-----------------------------------------------------------------------------
(* serveConn up to the reader's loop. *)

Accept(c) ==
    /\ main = "serving"
    /\ conn[c].at = "none"
    /\ conn' = [conn EXCEPT ![c].at = "register", ![c].open = TRUE]
    /\ UNCHANGED <<asked, changes, server, fanout, wire, tunnel>>

(* Mutant: the closing flag is not tested.                                  *)
RegisterConn_Always(c) ==
    /\ conn[c].at = "register"
    /\ registered' = registered \cup {c}
    /\ Move(c, "auth")
    /\ UNCHANGED <<asked, changes, main, toClose, fanout, wire, tunnel>>

RegisterConn(c) ==
    /\ conn[c].at = "register"
    /\ \/ /\ Closing
          /\ conn' = [conn EXCEPT ![c].at = "ended", ![c].open = FALSE]
          /\ UNCHANGED registered
       \/ /\ ~Closing
          /\ registered' = registered \cup {c}
          /\ Move(c, "auth")
    /\ UNCHANGED <<asked, changes, main, toClose, fanout, wire, tunnel>>

Refuse(c) ==
    /\ conn[c].at = "auth"
    /\ Move(c, "refuse")
    /\ UNCHANGED <<asked, changes, server, fanout, wire, tunnel>>

(* Mutant: a new subscriber is first sent the current status.               *)
Subscribe_Greets(c) ==
    /\ conn[c].at = "auth"
    /\ subs' = subs \cup {c}
    /\ since' = [since EXCEPT ![c] = [status |-> status, changes |-> changes]]
    /\ queue' = [queue EXCEPT ![c] = <<State(status)>>]
    /\ Move(c, "store")
    /\ UNCHANGED <<asked, changes, server, cast, unnamed, wire, tunnel>>

Subscribe(c) ==
    /\ conn[c].at = "auth"
    /\ subs' = subs \cup {c}
    /\ since' = [since EXCEPT ![c] = [status |-> status, changes |-> changes]]
    /\ Move(c, "store")
    /\ UNCHANGED <<asked, changes, server, queue, cast, unnamed, wire, tunnel>>

(* The id is stored in the handle and the writer started.                   *)
StoreId(c) ==
    /\ conn[c].at = "store"
    /\ conn' = [conn EXCEPT ![c].at = "serve", ![c].named = TRUE]
    /\ writer' = [writer EXCEPT ![c].at = "select"]
    /\ UNCHANGED <<asked, changes, server, fanout, wmu, sent, tunnel>>

-----------------------------------------------------------------------------
(* Requests. A line that was received before the connection broke is still  *)
(* served. Connect and Disconnect, too, end with the machine's context.     *)

ReadsRequest(c) ==
    /\ conn[c].at = "serve"
    /\ asked < MaxAsked
    /\ asked' = asked + 1

(* A broken connection ends the loop; so does a line that is too long, with *)
(* an error frame.                                                          *)
ReadFails(c) ==
    /\ conn[c].at = "serve"
    /\ \/ Broken(c) /\ Move(c, "unsub")
       \/ ~Broken(c) /\ asked < MaxAsked /\ Move(c, "refuse")
    /\ UNCHANGED <<asked, changes, server, fanout, wire, tunnel>>

(* Methods that only ask, and lines that are rejected.                      *)
Answer(c) ==
    /\ ReadsRequest(c)
    /\ Move(c, "reply")
    /\ UNCHANGED <<changes, server, fanout, wire, tunnel>>

(* Machine.Switch tests the machine's context, then posts: a command that   *)
(* is posted between the test and the end of the actor is answered (by its  *)
(* handler or by the drain), one posted after it waits in the channel.      *)
Switch(c) ==
    /\ ReadsRequest(c)
    /\ Move(c, IF main = "serving" THEN "post" ELSE "reply")
    /\ UNCHANGED <<changes, server, fanout, wire, tunnel>>

SwitchPosts(c) ==
    /\ conn[c].at = "post"
    /\ \/ Move(c, "reply")
       \/ main # "serving" /\ Move(c, "await")
    /\ UNCHANGED <<asked, changes, server, fanout, wire, tunnel>>

SwitchGivesUp(c) ==
    /\ conn[c].at = "await"
    /\ Closing
    /\ Move(c, "reply")
    /\ UNCHANGED <<asked, changes, server, fanout, wire, tunnel>>

(* Configs.Add and Configs.Remove: the registry is changed, then the change *)
(* is broadcast by the handler, then the request is answered.               *)
ChangeConfigs(c) ==
    /\ ReadsRequest(c)
    /\ changes' = changes + 1
    /\ conn' = [conn EXCEPT ![c].at = "announce", ![c].change = changes + 1]
    /\ UNCHANGED <<server, fanout, wire, tunnel>>

Announce(c) ==
    /\ conn[c].at = "announce"
    /\ Broadcast(c, Change(conn[c].change))
    /\ conn' = [conn EXCEPT ![c].at = "reply", ![c].change = 0]
    /\ UNCHANGED <<asked, changes, server, subs, queue, unnamed, since, wire, tunnel>>

(* A request without an id is a notification: it is not answered.           *)
NoReply(c) ==
    /\ conn[c].at = "reply" /\ cast[c] = Idle
    /\ Move(c, "serve")
    /\ UNCHANGED <<asked, changes, server, fanout, wire, tunnel>>

-----------------------------------------------------------------------------
(* Writes: one holder of wmu at a time. A write ends when the peer takes it *)
(* or the connection breaks.                                                *)

ReaderLocks(c) ==
    /\ conn[c].at \in {"reply", "refuse"} /\ cast[c] = Idle
    /\ wmu[c] = "free"
    /\ wmu' = [wmu EXCEPT ![c] = "reader"]
    /\ Move(c, IF conn[c].at = "reply" THEN "replying" ELSE "refusing")
    /\ UNCHANGED <<asked, changes, server, fanout, writer, sent, tunnel>>

AfterWrite(c) ==
    conn' = [conn EXCEPT ![c].at = IF @ = "replying" THEN "serve"
                                   ELSE IF c \in subs THEN "unsub" ELSE "close"]

Writes(c) ==
    /\ conn[c].at \in {"replying", "refusing"} /\ ~Broken(c)
    /\ wmu' = [wmu EXCEPT ![c] = "free"]
    /\ AfterWrite(c)
    /\ UNCHANGED <<asked, changes, server, fanout, writer, sent, tunnel>>

WriteFails(c) ==
    /\ conn[c].at \in {"replying", "refusing"} /\ Broken(c)
    /\ wmu' = [wmu EXCEPT ![c] = "free"]
    /\ AfterWrite(c)
    /\ UNCHANGED <<asked, changes, server, fanout, writer, sent, tunnel>>

WriterTakes(c) ==
    /\ writer[c].at = "select"
    /\ queue[c] # <<>>
    /\ writer' = [writer EXCEPT ![c] = [at |-> "lock", events |-> {Head(queue[c])}]]
    /\ queue' = [queue EXCEPT ![c] = Tail(@)]
    /\ UNCHANGED <<conn, asked, changes, server, subs, cast, unnamed, since, wmu, sent,
                   tunnel>>

WriterLocks(c) ==
    /\ writer[c].at = "lock"
    /\ wmu[c] = "free"
    /\ wmu' = [wmu EXCEPT ![c] = "writer"]
    /\ writer' = [writer EXCEPT ![c].at = "write"]
    /\ UNCHANGED <<conn, asked, changes, server, fanout, sent, tunnel>>

WriterWrites(c) ==
    /\ writer[c].at = "write" /\ ~Broken(c)
    /\ sent' = [sent EXCEPT ![c] = @ \cup writer[c].events]
    /\ wmu' = [wmu EXCEPT ![c] = "free"]
    /\ writer' = [writer EXCEPT ![c] = [at |-> "select", events |-> {}]]
    /\ UNCHANGED <<conn, asked, changes, server, fanout, tunnel>>

(* The writer ends with a failed write or with the closed channel.          *)
WriterEnds(c) ==
    /\ \/ writer[c].at = "write" /\ Broken(c) /\ wmu' = [wmu EXCEPT ![c] = "free"]
       \/ writer[c].at = "select" /\ conn[c].named /\ c \notin subs /\ UNCHANGED wmu
    /\ writer' = [writer EXCEPT ![c] = [at |-> "ended", events |-> {}]]
    /\ UNCHANGED <<conn, asked, changes, server, fanout, sent, tunnel>>

-----------------------------------------------------------------------------
(* The deferred calls of serveConn, in their order. *)

Unsub(c) ==
    /\ conn[c].at = "unsub"
    /\ subs' = subs \ {c}
    /\ Move(c, "close")
    /\ UNCHANGED <<asked, changes, server, queue, cast, unnamed, since, wire, tunnel>>

CloseConn(c) ==
    /\ conn[c].at = "close"
    /\ conn' = [conn EXCEPT ![c].at = "ended", ![c].open = FALSE]
    /\ registered' = registered \ {c}
    /\ UNCHANGED <<asked, changes, main, toClose, fanout, wire, tunnel>>

-----------------------------------------------------------------------------
(* The peer and main. *)

PeerLeaves(c) ==
    /\ conn[c].open /\ ~conn[c].gone
    /\ conn' = [conn EXCEPT ![c].gone = TRUE]
    /\ UNCHANGED <<asked, changes, server, fanout, wire, tunnel>>

(* StopAccept and Machine.Shutdown: the machine serves until its context is *)
(* cancelled and its channel drained.                                       *)
ShutdownMachine ==
    /\ main = "serving"
    /\ main' = "down"
    /\ UNCHANGED <<conn, asked, changes, registered, toClose, fanout, wire, tunnel>>

(* Close: baseCtx is cancelled, closing set and the live connections copied *)
(* under the lock, then closed one by one.                                  *)
Close ==
    /\ main = "down"
    /\ main' = "closing"
    /\ toClose' = registered
    /\ UNCHANGED <<conn, asked, changes, registered, fanout, wire, tunnel>>

CloseOne(c) ==
    /\ c \in toClose
    /\ conn' = [conn EXCEPT ![c].open = FALSE]
    /\ toClose' = toClose \ {c}
    /\ UNCHANGED <<asked, changes, registered, main, fanout, wire, tunnel>>

-----------------------------------------------------------------------------
Request(c) == Answer(c) \/ Switch(c) \/ ChangeConfigs(c)

Serve(c) ==
    \/ RegisterConn(c) \/ Refuse(c) \/ Subscribe(c) \/ StoreId(c)
    \/ SwitchPosts(c) \/ SwitchGivesUp(c) \/ Announce(c)
    \/ ReaderLocks(c) \/ WriteFails(c) \/ (Broken(c) /\ ReadFails(c))
    \/ Unsub(c) \/ CloseConn(c)

WriterLoop(c) == WriterTakes(c) \/ WriterLocks(c) \/ WriterEnds(c)

BroadcastStep(b) == \E c \in Conn : Offer(b, c) \/ CloseBySubscriberID(b, c)

MainCloses == Close \/ \E c \in Conn : CloseOne(c)

Next ==
    \/ \E c \in Conn : \/ Accept(c) \/ PeerLeaves(c)
                       \/ Request(c) \/ NoReply(c) \/ ReadFails(c) \/ Serve(c)
                       \/ Writes(c) \/ WriterLoop(c) \/ WriterWrites(c)
    \/ \E b \in Casters : BroadcastStep(b)
    \/ Publish \/ BridgeSubscribes \/ BridgeReceives \/ BridgeStops
    \/ ShutdownMachine \/ MainCloses

Spec == Init /\ [][Next]_vars

(* Every goroutine is scheduled; a read ends when the connection is broken. *)
(* The reader and the writer of a connection compete for wmu, but finitely  *)
(* often: weak fairness is enough. Nothing obliges a peer to read, to send  *)
(* or to leave, or main to begin its shutdown.                              *)
Fairness ==
    /\ \A c \in Conn : WF_vars(Serve(c)) /\ WF_vars(WriterLoop(c))
    /\ \A b \in Casters : WF_vars(BroadcastStep(b))
    /\ WF_vars(BridgeSubscribes \/ BridgeReceives \/ BridgeStops)
    /\ WF_vars(MainCloses)

FairSpec == Spec /\ Fairness

-----------------------------------------------------------------------------
(* Type invariant.                                                          *)
TypeOK ==
    /\ conn \in [Conn -> [at : Stage, open : BOOLEAN, gone : BOOLEAN, named : BOOLEAN,
                          change : Nat]]
    /\ asked \in Nat /\ changes \in Nat
    /\ registered \subseteq Conn /\ subs \subseteq Conn /\ unnamed \subseteq Conn
    /\ main \in {"serving", "down", "closing"}
    /\ toClose \subseteq Conn
    /\ queue \in [Conn -> Seq(Event)] /\ \A c \in Conn : Len(queue[c]) <= QueueCap
    /\ cast \in [Casters -> [events : SUBSET Event, targets : SUBSET Conn,
                             slow : SUBSET Conn]]
    /\ since \in [Conn -> [status : Nat, changes : Nat]]
    /\ writer \in [Conn -> [at : {"none", "select", "lock", "write", "ended"},
                            events : SUBSET Event]]
    /\ wmu \in [Conn -> {"free", "reader", "writer"}]
    /\ sent \in [Conn -> SUBSET Event]
    /\ status \in Nat /\ feed \in Seq(Nat) /\ Len(feed) <= FeedCap
    /\ bridge \in {"start", "running", "stopped"}
    /\ lost \subseteq Nat

Queued(c)  == {queue[c][i] : i \in DOMAIN queue[c]}
Offered(b, c) == IF c \in cast[b].targets THEN cast[b].events ELSE {}

(* What a subscriber has been sent or is still to be sent.                  *)
Reached(c) == sent[c] \cup writer[c].events \cup Queued(c)
              \cup UNION {Offered(b, c) : b \in Casters}

Steady(c) == conn[c].open /\ ~conn[c].gone /\ c \in subs /\ c \notin unnamed

(* A subscriber whose connection stays open misses nothing, however slow it *)
(* is ("close the offending connection so the renderer reconnects and       *)
(* refetches state", NewServer): every status and every change of the       *)
(* registry since its subscription has reached it or is on its way, unless  *)
(* the status never entered the bridge's channel, or the connection was     *)
(* found too slow before its id was stored.                                 *)
NoGap ==
    \A c \in Conn : Steady(c) =>
        /\ \A n \in since[c].status + 1 .. status :
               \/ n \in lost \/ State(n) \in Reached(c)
               \/ \E i \in DOMAIN feed : feed[i] = n
        /\ \A n \in since[c].changes + 1 .. changes :
               \/ Change(n) \in Reached(c)
               \/ \E d \in Conn : conn[d].at = "announce" /\ conn[d].change = n

StatesOf(E)   == {e.n : e \in {f \in E : f.kind = "State.Changed"}}
Precede(A, B) == \A m \in A, n \in B : m < n

(* State.Changed events reach a client in the order of the transitions and  *)
(* at most once: along the way from the channel through the broadcast, the  *)
(* queue and the writer to the wire, every status is older than all that    *)
(* are behind it, whatever the handlers broadcast in between.               *)
InOrder ==
    \A c \in Conn :
        LET F == {feed[i] : i \in DOMAIN feed}
            O == StatesOf(Offered(Bridge, c))
            Q == StatesOf(Queued(c))
            W == StatesOf(writer[c].events)
        IN  /\ Precede(StatesOf(sent[c]), W \cup Q \cup O \cup F)
            /\ Precede(W, Q \cup O \cup F)
            /\ Precede(Q, O \cup F)
            /\ Precede(O, F)
            /\ \A i, j \in DOMAIN feed : i < j => feed[i] < feed[j]
            /\ \A i, j \in DOMAIN queue[c] :
                   i < j => Precede(StatesOf({queue[c][i]}), StatesOf({queue[c][j]}))

(* To its client the server is a stream of the statuses: each in order and  *)
(* once, and none skipped since the subscription that was not dropped for   *)
(* everyone, or the connection is cut (Broadcast, writerLoop,               *)
(* CloseBySubscriberID), but for a connection found too slow before its id  *)
(* was stored.                                                              *)
Stream == INSTANCE EventStream WITH
    Client <- Conn, latest <- status, dropped <- lost, excused <- unnamed,
    from <- [c \in Conn |-> since[c].status], told <- [c \in Conn |-> StatesOf(sent[c])],
    over <- {c \in Conn : conn[c].at # "none" /\ Broken(c)}

StreamSpec == Stream!Spec

Ended(c) == conn[c].at \in {"none", "ended"} /\ writer[c].at \in {"none", "ended"}

(* A broadcast never waits for a subscriber ("a slow IPC reader cannot be   *)
(* allowed to deadlock the actor"): it comes to its end although a client   *)
(* reads nothing and its connection is blocked in a write.                  *)
BroadcastEnds ==
    \A b \in Casters : cast[b] # Idle ~> cast[b] = Idle

(* No goroutine is leaked: a connection that either side has closed, or     *)
(* that is alive in whatever stage when Close has returned, comes to its    *)
(* end, reader and writer, although a write was blocked or a request was    *)
(* underway.                                                                *)
ConnectionsEnd ==
    \A c \in Conn :
        conn[c].at # "none" /\ (Broken(c) \/ (Closing /\ toClose = {})) ~> Ended(c)
=============================================================================

---------------------------- MODULE StreamProofs ----------------------------
(***************************************************************************)
(* More proofs about Ipc: it implements EventStream, Close leaves no       *)
(* connection open that it has not in hand, and the frames of the reader   *)
(* and of the writer never overlap on the wire.                            *)
(***************************************************************************)
EXTENDS IpcProofs

-----------------------------------------------------------------------------
(* The life of a connection. It is in the server's table from its           *)
(* registration to its end, broken for good once it is broken, and Close    *)
(* has every one that is open in its list.                                  *)
Outside == {"none", "register", "ended"}

Opened ==
    /\ \A c \in Conn :
           /\ c \in registered <=> conn[c].at \notin Outside
           /\ conn[c].at = "none" => ~conn[c].open /\ ~conn[c].gone
           /\ conn[c].at = "ended" => ~conn[c].open
           /\ c \in toClose => conn[c].at \notin {"none", "register"}
           /\ Closing /\ c \in registered => c \in toClose \/ ~conn[c].open
    /\ ~Closing => toClose = {}

LEMMA OpenedStep == ASSUME TypeOK, Stages, Opened, [Next]_vars PROVE Opened'
<1>0. conn \in [Conn -> Reader]
  BY DEF TypeOK, Reader
<1>1. ASSUME UNCHANGED <<registered, toClose, main>>,
             \A d \in Conn :
                 /\ \/ conn'[d].at = conn[d].at
                    \/ conn'[d].at \notin Outside /\ conn[d].at \notin Outside
                 /\ conn'[d].open => conn[d].open
                 /\ conn[d].at = "none" => conn'[d].gone = conn[d].gone
      PROVE  Opened'
  BY <1>1 DEF Opened, Closing, Outside
<1>2. ASSUME NEW c \in Conn,
             \/ Refuse(c) \/ Answer(c) \/ Switch(c) \/ NoReply(c) \/ SwitchPosts(c)
             \/ SwitchGivesUp(c) \/ ReadFails(c) \/ ReaderLocks(c) \/ Subscribe(c) \/ Unsub(c)
      PROVE  Opened'
  <2>1. PICK stage \in Stage \ Outside : Move(c, stage)
    BY <1>2 DEF Refuse, Answer, Switch, NoReply, SwitchPosts, SwitchGivesUp, ReadFails,
       ReaderLocks, Subscribe, Unsub, Stage, Outside
  <2>2. conn[c].at \notin Outside
    BY <1>2 DEF Refuse, Answer, Switch, NoReply, SwitchPosts, SwitchGivesUp, ReadFails,
       ReaderLocks, Subscribe, Unsub, ReadsRequest, Outside
  <2>3. UNCHANGED <<registered, toClose, main>>
    BY <1>2 DEF Refuse, Answer, Switch, NoReply, SwitchPosts, SwitchGivesUp, ReadFails,
       ReaderLocks, Subscribe, Unsub, server
  <2>4. /\ conn'[c].at \notin Outside /\ conn'[c].open = conn[c].open
        /\ conn'[c].gone = conn[c].gone
        /\ \A d \in Conn \ {c} : conn'[d] = conn[d]
    BY <2>1, MoveEffect
  <2> QED BY <1>1, <2>2, <2>3, <2>4
<1>3. ASSUME NEW c \in Conn,
             StoreId(c) \/ Writes(c) \/ WriteFails(c) \/ ChangeConfigs(c) \/ Announce(c)
      PROVE  Opened'
  <2>1. /\ conn'[c].at \notin Outside /\ conn[c].at \notin Outside
        /\ conn'[c].open = conn[c].open
        /\ \A d \in Conn \ {c} : conn'[d] = conn[d]
    BY <1>0, <1>3 DEF StoreId, Writes, WriteFails, AfterWrite, ChangeConfigs, Announce,
       ReadsRequest, Reader, Outside
  <2>2. UNCHANGED <<registered, toClose, main>>
    BY <1>3 DEF StoreId, Writes, WriteFails, ChangeConfigs, Announce, server
  <2> QED BY <1>1, <2>1, <2>2 DEF Outside
<1>4. ASSUME NEW b \in Casters, NEW c \in Conn, CloseBySubscriberID(b, c) PROVE Opened'
  <2>1. UNCHANGED <<registered, toClose, main>>
    BY <1>4 DEF CloseBySubscriberID, server
  <2> QED BY <1>1, <1>4, <2>1, CloseEffect
<1>5. CASE \/ UNCHANGED vars \/ Publish \/ BridgeSubscribes \/ BridgeReceives \/ BridgeStops
           \/ (\E b \in Casters, d \in Conn : Offer(b, d))
           \/ \E d \in Conn : WriterTakes(d) \/ WriterLocks(d) \/ WriterWrites(d) \/ WriterEnds(d)
  <2>1. UNCHANGED <<registered, toClose, main, conn>>
    BY <1>5 DEF vars, Publish, BridgeSubscribes, BridgeReceives, BridgeStops, Offer,
       WriterTakes, WriterLocks, WriterWrites, WriterEnds, server
  <2> QED BY <1>1, <2>1
<1>6. ASSUME NEW c \in Conn, PeerLeaves(c) PROVE Opened'
  <2>1. /\ \A d \in Conn : conn'[d].at = conn[d].at /\ conn'[d].open = conn[d].open
        /\ \A d \in Conn \ {c} : conn'[d] = conn[d]
        /\ conn[c].open /\ UNCHANGED <<registered, toClose, main>>
    BY <1>0, <1>6 DEF PeerLeaves, server, Reader
  <2>2. conn[c].at # "none"
    BY <2>1 DEF Opened
  <2> QED BY <1>1, <2>1, <2>2
<1>7. ASSUME NEW c \in Conn, Accept(c) PROVE Opened'
  <2>1. /\ conn[c].at = "none" /\ conn'[c].at = "register"
        /\ \A d \in Conn \ {c} : conn'[d] = conn[d]
        /\ UNCHANGED <<registered, toClose, main>>
    BY <1>0, <1>7 DEF Accept, server, Reader
  <2> QED BY <2>1, <1>7 DEF Opened, Closing, Accept, Outside
<1>8. ASSUME NEW c \in Conn, RegisterConn(c) PROVE Opened'
  <2>1. /\ conn[c].at = "register" /\ \A d \in Conn \ {c} : conn'[d] = conn[d]
        /\ UNCHANGED <<toClose, main>>
    BY <1>0, <1>8 DEF RegisterConn, Move, Reader
  <2>2. CASE Closing
    <3>1. conn'[c].at = "ended" /\ ~conn'[c].open /\ registered' = registered
      BY <1>0, <1>8, <2>2 DEF RegisterConn, Reader
    <3> QED BY <2>1, <3>1 DEF Opened, Closing, Outside
  <2>3. CASE ~Closing
    <3>1. conn'[c].at = "auth" /\ registered' = registered \cup {c}
      BY <1>0, <1>8, <2>3 DEF RegisterConn, Move, Reader
    <3> QED BY <2>1, <2>3, <3>1 DEF Opened, Closing, Outside
  <2> QED BY <2>2, <2>3
<1>9. ASSUME NEW c \in Conn, CloseConn(c) PROVE Opened'
  <2>1. /\ conn[c].at = "close" /\ conn'[c].at = "ended" /\ ~conn'[c].open
        /\ \A d \in Conn \ {c} : conn'[d] = conn[d]
        /\ registered' = registered \ {c} /\ UNCHANGED <<toClose, main>>
    BY <1>0, <1>9 DEF CloseConn, Reader
  <2> QED BY <2>1 DEF Opened, Closing, Outside
<1>10. ASSUME NEW c \in Conn, CloseOne(c) PROVE Opened'
  <2>1. /\ conn'[c].at = conn[c].at /\ conn'[c].gone = conn[c].gone /\ ~conn'[c].open
        /\ \A d \in Conn \ {c} : conn'[d] = conn[d]
        /\ c \in toClose /\ toClose' = toClose \ {c} /\ UNCHANGED <<registered, main>>
    BY <1>0, <1>10 DEF CloseOne, Reader
  <2> QED BY <2>1 DEF Opened, Closing
<1>11. CASE Close \/ ShutdownMachine
  <2>1. /\ UNCHANGED <<conn, registered>> /\ main # "closing"
        /\ \/ main' = "closing" /\ toClose' = registered
           \/ main' # "closing" /\ toClose' = toClose
    BY <1>11 DEF Close, ShutdownMachine
  <2> QED BY <2>1 DEF Opened, Closing, Outside
<1> QED
  BY <1>2, <1>3, <1>4, <1>5, <1>6, <1>7, <1>8, <1>9, <1>10, <1>11
     DEF Next, Request, Serve, WriterLoop, BroadcastStep, MainCloses

(* A connection that is broken stays so, and steps break one at a time.     *)
Over == {c \in Conn : conn[c].at # "none" /\ Broken(c)}

LEMMA OverStep ==
    ASSUME TypeOK, Stages, Opened, [Next]_vars
    PROVE  /\ Over \subseteq Over' /\ (Over' = Over \/ \E c \in Conn : Over' = Over \cup {c})
           /\ \A c \in Conn : Subscribe(c) \/ WriterWrites(c) => Over' = Over
           /\ Publish => Over' = Over
           /\ \A b \in Casters, c \in Conn : CloseBySubscriberID(b, c) =>
                  Over' = Over \/ (Over' = Over \cup {c} /\ unnamed' = unnamed)
<1> DEFINE Goal == Over \subseteq Over' /\ (Over' = Over \/ \E c \in Conn : Over' = Over \cup {c})
           Same(d) == /\ conn'[d].at = "none" <=> conn[d].at = "none"
                      /\ conn'[d].open = conn[d].open /\ conn'[d].gone = conn[d].gone
<1>0. conn \in [Conn -> Reader]
  BY DEF TypeOK, Reader
<1>1. ASSUME \A d \in Conn : Same(d) PROVE Over' = Over
  BY <1>1 DEF Over, Broken
<1>2. ASSUME NEW c \in Conn, \A d \in Conn \ {c} : Same(d),
             conn[c].at # "none", conn'[c].at # "none",
             conn'[c].open => conn[c].open, conn[c].gone => conn'[c].gone
      PROVE  Goal /\ Over' \in {Over, Over \cup {c}}
  BY <1>2 DEF Over, Broken
<1>3. ASSUME NEW c \in Conn,
             \/ Refuse(c) \/ Answer(c) \/ Switch(c) \/ NoReply(c) \/ SwitchPosts(c)
             \/ SwitchGivesUp(c) \/ ReadFails(c) \/ ReaderLocks(c) \/ Subscribe(c) \/ Unsub(c)
      PROVE  Over' = Over
  <2>1. PICK stage \in Stage \ {"none"} : Move(c, stage)
    BY <1>3 DEF Refuse, Answer, Switch, NoReply, SwitchPosts, SwitchGivesUp, ReadFails,
       ReaderLocks, Subscribe, Unsub, Stage
  <2>2. conn[c].at # "none"
    BY <1>3 DEF Refuse, Answer, Switch, NoReply, SwitchPosts, SwitchGivesUp, ReadFails,
       ReaderLocks, Subscribe, Unsub, ReadsRequest
  <2>3. /\ conn'[c].at # "none" /\ conn'[c].open = conn[c].open
        /\ conn'[c].gone = conn[c].gone
        /\ \A d \in Conn \ {c} : conn'[d] = conn[d]
    BY <2>1, MoveEffect
  <2> QED BY <1>1, <2>2, <2>3
<1>4. ASSUME NEW c \in Conn,
             StoreId(c) \/ Writes(c) \/ WriteFails(c) \/ ChangeConfigs(c) \/ Announce(c)
      PROVE  Over' = Over
  <2>1. /\ conn'[c].at # "none" /\ conn[c].at # "none"
        /\ conn'[c].open = conn[c].open /\ conn'[c].gone = conn[c].gone
        /\ \A d \in Conn \ {c} : conn'[d] = conn[d]
    BY <1>0, <1>4 DEF StoreId, Writes, WriteFails, AfterWrite, ChangeConfigs, Announce,
       ReadsRequest, Reader
  <2> QED BY <1>1, <2>1
<1>5. CASE \/ UNCHANGED vars \/ Publish \/ BridgeSubscribes \/ BridgeReceives \/ BridgeStops
           \/ Close \/ ShutdownMachine \/ (\E b \in Casters, d \in Conn : Offer(b, d))
           \/ \E d \in Conn : WriterTakes(d) \/ WriterLocks(d) \/ WriterWrites(d) \/ WriterEnds(d)
  <2>1. UNCHANGED conn
    BY <1>5 DEF vars, Publish, BridgeSubscribes, BridgeReceives, BridgeStops, Offer, Close,
       ShutdownMachine, WriterTakes, WriterLocks, WriterWrites, WriterEnds
  <2> QED BY <1>1, <2>1
<1>6. ASSUME NEW c \in Conn, PeerLeaves(c) \/ CloseOne(c) PROVE Goal
  <2>1. /\ \A d \in Conn \ {c} : conn'[d] = conn[d]
        /\ conn'[c].at = conn[c].at
        /\ (conn'[c].open => conn[c].open) /\ (conn[c].gone => conn'[c].gone)
    BY <1>0, <1>6 DEF PeerLeaves, CloseOne, Reader
  <2>2. conn[c].at # "none"
    BY <1>6 DEF PeerLeaves, CloseOne, Opened
  <2> QED BY <1>2, <2>1, <2>2
<1>7. ASSUME NEW c \in Conn, Accept(c) PROVE Over' = Over
  <2>1. /\ conn[c].at = "none" /\ conn'[c].open /\ conn'[c].gone = conn[c].gone
        /\ \A d \in Conn \ {c} : conn'[d] = conn[d]
    BY <1>0, <1>7 DEF Accept, Reader
  <2> QED BY <2>1 DEF Over, Broken, Opened
<1>8. ASSUME NEW c \in Conn, RegisterConn(c) \/ CloseConn(c) PROVE Goal
  <2>1. /\ \A d \in Conn \ {c} : conn'[d] = conn[d]
        /\ conn[c].at # "none" /\ conn'[c].at # "none"
        /\ (conn'[c].open => conn[c].open) /\ (conn[c].gone => conn'[c].gone)
    BY <1>0, <1>8 DEF RegisterConn, CloseConn, Move, Reader
  <2> QED BY <1>2, <2>1
<1>9. ASSUME NEW b \in Casters, NEW c \in Conn, CloseBySubscriberID(b, c)
      PROVE  Goal /\ (Over' = Over \/ (Over' = Over \cup {c} /\ unnamed' = unnamed))
  <2>1. CASE conn' = conn
    BY <1>1, <2>1
  <2>2. CASE /\ c \in registered /\ conn' = [conn EXCEPT ![c].open = FALSE]
             /\ unnamed' = unnamed
    <3>1. conn[c].at # "none" /\ \A d \in Conn \ {c} : conn'[d] = conn[d]
      BY <1>0, <2>2 DEF Opened, Outside
    <3>2. conn'[c].at = conn[c].at /\ conn'[c].gone = conn[c].gone /\ ~conn'[c].open
      BY <1>0, <2>2 DEF Reader
    <3> QED BY <1>2, <2>2, <3>1, <3>2
  <2> QED BY <1>9, <2>1, <2>2 DEF CloseBySubscriberID
<1> HIDE DEF Same
<1>10. Goal
  BY <1>3, <1>4, <1>5, <1>6, <1>7, <1>8, <1>9
     DEF Next, Request, Serve, WriterLoop, BroadcastStep, MainCloses
<1> QED BY <1>3, <1>5, <1>9, <1>10

-----------------------------------------------------------------------------
(* When a connection joins. It has no id and no loop before its             *)
(* subscription, and no event on the wire before the id is stored; a writer *)
(* that goes for wmu has one event.                                         *)
Early == {"none", "register", "auth", "store"}

Joined ==
    /\ status > 0
    /\ \A c \in Conn :
           /\ conn[c].at \in {"none", "register", "auth"} => since[c].status = 0
           /\ conn[c].at = "store" => since[c].status # 0
           /\ writer[c] # NoLoop => since[c].status # 0
           /\ ~conn[c].named => writer[c] = NoLoop /\ sent[c] = {}
           /\ conn[c].at \in Early => ~conn[c].named

Loaded == \A c \in Conn :
              writer[c].at \in {"lock", "write"} => \E e \in Event : writer[c].events = {e}

LEMMA JoinedStep == ASSUME TypeOK, Stages, Joined, [Next]_vars PROVE Joined'
<1>0. /\ conn \in [Conn -> Reader] /\ writer \in [Conn -> Loop] /\ status \in Nat
      /\ sent \in [Conn -> SUBSET Event] /\ since \in [Conn -> [status : Nat, changes : Nat]]
  BY DEF TypeOK, Reader, Loop
<1>1. status' > 0 /\ status' \in Nat
  <2>1. status' = status \/ status' = status + 1
    BY FeedStep DEF Publish, BridgeReceives
  <2> QED BY <1>0, <2>1 DEF Joined
<1>2. ASSUME UNCHANGED <<since, writer, sent>>,
             \A d \in Conn :
                 /\ conn'[d].named = conn[d].named
                 /\ \/ conn'[d].at = conn[d].at
                    \/ conn'[d].at \notin Early
                    \/ conn[d].at \in {"none", "register"} /\ conn'[d].at \in {"register", "auth"}
      PROVE  Joined'
  BY <1>1, <1>2 DEF Joined, Early
<1>3. ASSUME NEW c \in Conn,
             \/ Refuse(c) \/ Answer(c) \/ Switch(c) \/ NoReply(c) \/ SwitchPosts(c)
             \/ SwitchGivesUp(c) \/ ReadFails(c) \/ ReaderLocks(c) \/ Unsub(c)
      PROVE  Joined'
  <2>1. PICK stage \in Stage \ Early : Move(c, stage)
    BY <1>3 DEF Refuse, Answer, Switch, NoReply, SwitchPosts, SwitchGivesUp, ReadFails,
       ReaderLocks, Unsub, Stage, Early
  <2>2. UNCHANGED <<since, writer, sent>>
    BY <1>3 DEF Refuse, Answer, Switch, NoReply, SwitchPosts, SwitchGivesUp, ReadFails,
       ReaderLocks, Unsub, fanout, wire
  <2>3. /\ conn'[c].at \notin Early /\ conn'[c].named = conn[c].named
        /\ \A d \in Conn \ {c} : conn'[d] = conn[d]
    BY <2>1, MoveEffect
  <2> QED BY <1>2, <2>2, <2>3
<1>4. ASSUME NEW c \in Conn,
             \/ Writes(c) \/ WriteFails(c) \/ ChangeConfigs(c) \/ Announce(c) \/ PeerLeaves(c)
             \/ CloseOne(c) \/ Accept(c) \/ RegisterConn(c) \/ CloseConn(c)
      PROVE  Joined'
  <2>1. /\ conn'[c].named = conn[c].named
        /\ \/ conn'[c].at = conn[c].at
           \/ conn'[c].at \notin Early
           \/ conn[c].at \in {"none", "register"} /\ conn'[c].at \in {"register", "auth"}
        /\ \A d \in Conn \ {c} : conn'[d] = conn[d]
    BY <1>0, <1>4 DEF Writes, WriteFails, AfterWrite, ChangeConfigs, Announce, PeerLeaves,
       CloseOne, Accept, RegisterConn, CloseConn, Move, Reader, Early
  <2>2. UNCHANGED <<since, writer, sent>>
    BY <1>4 DEF Writes, WriteFails, ChangeConfigs, Announce, PeerLeaves, CloseOne, Accept,
       RegisterConn, CloseConn, fanout, wire
  <2> QED BY <1>2, <2>1, <2>2
<1>5. ASSUME NEW b \in Casters, NEW c \in Conn, CloseBySubscriberID(b, c) PROVE Joined'
  <2>1. \A d \in Conn : conn'[d].at = conn[d].at /\ conn'[d].named = conn[d].named
    BY <1>0, <1>5 DEF CloseBySubscriberID, Reader
  <2>2. UNCHANGED <<since, writer, sent>>
    BY <1>5 DEF CloseBySubscriberID, wire
  <2> QED BY <1>2, <2>1, <2>2
<1>6. CASE \/ UNCHANGED vars \/ Publish \/ BridgeSubscribes \/ BridgeReceives \/ BridgeStops
           \/ ShutdownMachine \/ Close \/ \E b \in Casters, d \in Conn : Offer(b, d)
  <2>1. UNCHANGED <<conn, since, writer, sent>>
    BY <1>6 DEF vars, Publish, BridgeSubscribes, BridgeReceives, BridgeStops, ShutdownMachine,
       Close, Offer, fanout, wire
  <2> QED BY <1>2, <2>1
<1>7. ASSUME NEW c \in Conn, Subscribe(c) PROVE Joined'
  <2>1. /\ conn[c].at = "auth" /\ conn'[c].at = "store" /\ conn'[c].named = conn[c].named
        /\ since'[c].status = status
        /\ \A d \in Conn \ {c} : conn'[d] = conn[d] /\ since'[d] = since[d]
        /\ UNCHANGED <<writer, sent>>
    BY <1>0, <1>7 DEF Subscribe, Move, wire, Reader
  <2> QED BY <1>0, <1>1, <2>1 DEF Joined, Early
<1>8. ASSUME NEW c \in Conn, StoreId(c) PROVE Joined'
  <2>1. /\ conn[c].at = "store" /\ conn'[c].at = "serve" /\ conn'[c].named
        /\ \A d \in Conn \ {c} : conn'[d] = conn[d] /\ writer'[d] = writer[d]
        /\ UNCHANGED <<since, sent>>
    BY <1>0, <1>8 DEF StoreId, fanout, Reader
  <2> QED BY <1>1, <2>1 DEF Joined, Early
<1>9. ASSUME NEW c \in Conn,
             WriterTakes(c) \/ WriterLocks(c) \/ WriterWrites(c) \/ WriterEnds(c)
      PROVE  Joined'
  <2>1. /\ writer[c] # NoLoop /\ UNCHANGED <<conn, since>>
        /\ \A d \in Conn \ {c} : writer'[d] = writer[d] /\ sent'[d] = sent[d]
    BY <1>0, <1>9 DEF WriterTakes, WriterLocks, WriterWrites, WriterEnds, NoLoop, fanout
  <2> QED BY <1>1, <2>1 DEF Joined
<1> QED
  BY <1>3, <1>4, <1>5, <1>6, <1>7, <1>8, <1>9
     DEF Next, Request, Serve, WriterLoop, BroadcastStep, MainCloses

(* What moves the writers, and the holders of wmu.                          *)
LEMMA WriterStep ==
    ASSUME TypeOK, Stages, [Next]_vars
    PROVE  \/ UNCHANGED <<writer, wmu>>
           \/ \E c \in Conn : \/ StoreId(c) \/ ReaderLocks(c) \/ Writes(c) \/ WriteFails(c)
                             \/ WriterTakes(c) \/ WriterLocks(c) \/ WriterWrites(c)
                             \/ WriterEnds(c)
<1>1. ASSUME NEW c \in Conn,
             \/ Accept(c) \/ PeerLeaves(c) \/ Request(c) \/ NoReply(c) \/ ReadFails(c)
             \/ RegisterConn(c) \/ Refuse(c) \/ Subscribe(c) \/ SwitchPosts(c) \/ SwitchGivesUp(c)
             \/ Announce(c) \/ Unsub(c) \/ CloseConn(c) \/ CloseOne(c)
      PROVE  UNCHANGED <<writer, wmu>>
  BY <1>1 DEF Accept, PeerLeaves, Request, Answer, Switch, ChangeConfigs, NoReply, ReadFails,
     RegisterConn, Refuse, Subscribe, SwitchPosts, SwitchGivesUp, Announce, Unsub, CloseConn,
     CloseOne, wire
<1>2. ASSUME \/ UNCHANGED vars \/ Publish \/ BridgeSubscribes \/ BridgeReceives \/ BridgeStops
             \/ ShutdownMachine \/ Close
             \/ \E b \in Casters, d \in Conn : Offer(b, d) \/ CloseBySubscriberID(b, d)
      PROVE  UNCHANGED <<writer, wmu>>
  BY <1>2 DEF vars, Publish, BridgeSubscribes, BridgeReceives, BridgeStops, ShutdownMachine,
     Close, Offer, CloseBySubscriberID, wire
<1> QED BY <1>1, <1>2 DEF Next, Serve, WriterLoop, BroadcastStep, MainCloses

LEMMA LoadedStep == ASSUME TypeOK, Stages, Loaded, [Next]_vars PROVE Loaded'
<1>0. writer \in [Conn -> Loop] /\ queue \in [Conn -> Seq(Event)]
  BY DEF TypeOK, Loop
<1>1. CASE UNCHANGED writer
  BY <1>1 DEF Loaded
<1>2. ASSUME NEW c \in Conn, StoreId(c) \/ WriterWrites(c) \/ WriterEnds(c) PROVE Loaded'
  <2>1. writer'[c].at \in {"select", "ended"} /\ \A d \in Conn \ {c} : writer'[d] = writer[d]
    BY <1>0, <1>2 DEF StoreId, WriterWrites, WriterEnds, Loop
  <2> QED BY <2>1 DEF Loaded
<1>3. ASSUME NEW c \in Conn, WriterLocks(c) PROVE Loaded'
  <2>1. /\ writer[c].at = "lock" /\ writer'[c].events = writer[c].events
        /\ \A d \in Conn \ {c} : writer'[d] = writer[d]
    BY <1>0, <1>3 DEF WriterLocks, Loop
  <2> QED BY <2>1 DEF Loaded
<1>4. ASSUME NEW c \in Conn, WriterTakes(c) PROVE Loaded'
  <2>1. /\ writer'[c].events = {Head(queue[c])} /\ queue[c] # <<>>
        /\ \A d \in Conn \ {c} : writer'[d] = writer[d]
    BY <1>0, <1>4 DEF WriterTakes
  <2>2. queue[c] \in Seq(Event)
    BY <1>0
  <2>3. Head(queue[c]) \in Event
    BY <2>1, <2>2, TailElems
  <2> QED BY <2>1, <2>3 DEF Loaded
<1>5. ASSUME NEW c \in Conn, ReaderLocks(c) \/ Writes(c) \/ WriteFails(c) PROVE UNCHANGED writer
  BY <1>5 DEF ReaderLocks, Writes, WriteFails
<1> QED BY <1>1, <1>2, <1>3, <1>4, <1>5, WriterStep

(* Reader and writer never write at once: each has wmu while it does        *)
(* (writeFrame), so their frames do not mix on the wire.                    *)
OneWriter ==
    \A c \in Conn : /\ conn[c].at \in {"replying", "refusing"} <=> wmu[c] = "reader"
                    /\ writer[c].at = "write" <=> wmu[c] = "writer"

LEMMA OneWriterStep == ASSUME TypeOK, Stages, OneWriter, [Next]_vars PROVE OneWriter'
<1> DEFINE Writing == {"replying", "refusing"}
<1>0. /\ conn \in [Conn -> Reader] /\ writer \in [Conn -> Loop]
      /\ wmu \in [Conn -> {"free", "reader", "writer"}]
  BY DEF TypeOK, Reader, Loop
<1>1. CASE UNCHANGED <<writer, wmu>>
  <2>1. ASSUME NEW c \in Conn PROVE conn'[c].at \in Writing <=> conn[c].at \in Writing
    <3>0. ASSUME NEW d \in Conn,
                 \/ Refuse(d) \/ Answer(d) \/ Switch(d) \/ NoReply(d) \/ SwitchPosts(d)
                 \/ SwitchGivesUp(d) \/ ReadFails(d) \/ Subscribe(d) \/ Unsub(d)
          PROVE  conn'[c].at \in Writing <=> conn[c].at \in Writing
      <4>1. PICK stage \in Stage \ Writing : Move(d, stage)
        BY <3>0 DEF Refuse, Answer, Switch, NoReply, SwitchPosts, SwitchGivesUp, ReadFails,
           Subscribe, Unsub, Stage
      <4>2. conn[d].at \notin Writing
        BY <3>0 DEF Refuse, Answer, Switch, NoReply, SwitchPosts, SwitchGivesUp, ReadFails,
           Subscribe, Unsub, ReadsRequest
      <4>3. conn'[d].at \notin Writing /\ \A e \in Conn \ {d} : conn'[e] = conn[e]
        BY <4>1, MoveEffect
      <4> QED BY <4>2, <4>3
    <3>1. ASSUME NEW d \in Conn,
                 \/ StoreId(d) \/ ChangeConfigs(d) \/ Announce(d) \/ PeerLeaves(d)
                 \/ CloseOne(d) \/ Accept(d) \/ RegisterConn(d) \/ CloseConn(d)
          PROVE  conn'[c].at \in Writing <=> conn[c].at \in Writing
      <4>1. /\ conn'[d].at \in Writing <=> conn[d].at \in Writing
            /\ \A e \in Conn \ {d} : conn'[e] = conn[e]
        BY <1>0, <3>1 DEF StoreId, ChangeConfigs, Announce, PeerLeaves, CloseOne, Accept,
           RegisterConn, CloseConn, ReadsRequest, Move, Reader
      <4> QED BY <4>1
    <3>2. ASSUME NEW b \in Casters, NEW d \in Conn, CloseBySubscriberID(b, d)
          PROVE  conn'[c].at = conn[c].at
      BY <3>2, CloseEffect
    <3>3. CASE \/ UNCHANGED vars \/ Publish \/ BridgeSubscribes \/ BridgeReceives \/ BridgeStops
               \/ ShutdownMachine \/ Close \/ (\E b \in Casters, d \in Conn : Offer(b, d))
               \/ \E d \in Conn : WriterTakes(d) \/ WriterLocks(d) \/ WriterWrites(d)
                                 \/ WriterEnds(d)
      BY <3>3 DEF vars, Publish, BridgeSubscribes, BridgeReceives, BridgeStops, ShutdownMachine,
         Close, Offer, WriterTakes, WriterLocks, WriterWrites, WriterEnds
    <3>4. ASSUME NEW d \in Conn, ReaderLocks(d) \/ Writes(d) \/ WriteFails(d) PROVE wmu' # wmu
      BY <1>0, <3>4 DEF ReaderLocks, Writes, WriteFails, OneWriter
    <3> QED
      BY <1>1, <3>0, <3>1, <3>2, <3>3, <3>4
         DEF Next, Request, Serve, WriterLoop, BroadcastStep, MainCloses
  <2> QED BY <1>1, <2>1 DEF OneWriter
<1>2. ASSUME NEW c \in Conn, StoreId(c) PROVE OneWriter'
  <2>1. /\ conn[c].at = "store" /\ conn'[c].at = "serve" /\ writer'[c].at = "select"
        /\ writer[c] = NoLoop /\ wmu' = wmu
        /\ \A d \in Conn \ {c} : conn'[d] = conn[d] /\ writer'[d] = writer[d]
    BY <1>0, <1>2 DEF StoreId, Reader, Loop, Stages
  <2> QED BY <2>1 DEF OneWriter, NoLoop
<1>3. ASSUME NEW c \in Conn, ReaderLocks(c) PROVE OneWriter'
  <2>1. /\ conn'[c].at \in Writing /\ wmu[c] = "free" /\ wmu'[c] = "reader"
        /\ writer' = writer
        /\ \A d \in Conn \ {c} : conn'[d] = conn[d] /\ wmu'[d] = wmu[d]
    BY <1>0, <1>3 DEF ReaderLocks, Move, Reader
  <2> QED BY <2>1 DEF OneWriter
<1>4. ASSUME NEW c \in Conn, Writes(c) \/ WriteFails(c) PROVE OneWriter'
  <2>1. /\ conn[c].at \in Writing /\ conn'[c].at \notin Writing /\ wmu'[c] = "free"
        /\ writer' = writer
        /\ \A d \in Conn \ {c} : conn'[d] = conn[d] /\ wmu'[d] = wmu[d]
    BY <1>0, <1>4 DEF Writes, WriteFails, AfterWrite, Reader
  <2> QED BY <2>1 DEF OneWriter
<1>5. ASSUME NEW c \in Conn,
             WriterTakes(c) \/ WriterLocks(c) \/ WriterWrites(c) \/ WriterEnds(c)
      PROVE  OneWriter'
  <2>1. /\ conn' = conn
        /\ \A d \in Conn \ {c} : writer'[d] = writer[d] /\ wmu'[d] = wmu[d]
        /\ \/ writer[c].at # "write" /\ writer'[c].at # "write" /\ wmu'[c] = wmu[c]
           \/ writer[c].at = "write" /\ writer'[c].at # "write" /\ wmu'[c] = "free"
           \/ wmu[c] = "free" /\ writer'[c].at = "write" /\ wmu'[c] = "writer"
    BY <1>0, <1>5 DEF WriterTakes, WriterLocks, WriterWrites, WriterEnds, Loop
  <2> QED BY <2>1 DEF OneWriter
<1> QED BY <1>1, <1>2, <1>3, <1>4, <1>5, WriterStep

-----------------------------------------------------------------------------
(* What moves the state that a stream of statuses shows.                    *)
LEMMA StreamFrame ==
    ASSUME [Next]_vars
    PROVE  \/ UNCHANGED <<status, lost, since, sent, unnamed>>
           \/ Publish
           \/ \E c \in Conn : Subscribe(c) \/ WriterWrites(c)
           \/ \E b \in Casters, c \in Conn : CloseBySubscriberID(b, c)
<1>1. ASSUME NEW c \in Conn,
             \/ Accept(c) \/ PeerLeaves(c) \/ Request(c) \/ NoReply(c) \/ ReadFails(c)
             \/ RegisterConn(c) \/ Refuse(c) \/ SwitchPosts(c) \/ SwitchGivesUp(c)
             \/ ReaderLocks(c) \/ WriteFails(c) \/ Unsub(c) \/ CloseConn(c) \/ StoreId(c)
             \/ Writes(c) \/ CloseOne(c) \/ Announce(c)
             \/ WriterTakes(c) \/ WriterLocks(c) \/ WriterEnds(c)
      PROVE  UNCHANGED <<since, sent, unnamed>>
  BY <1>1 DEF Accept, PeerLeaves, Request, Answer, Switch, ChangeConfigs, NoReply, ReadFails,
     RegisterConn, Refuse, SwitchPosts, SwitchGivesUp, ReaderLocks, WriteFails,
     Unsub, CloseConn, Writes, CloseOne, StoreId, Announce, WriterTakes, WriterLocks,
     WriterEnds, fanout, wire
<1>2. ASSUME \/ UNCHANGED vars \/ BridgeSubscribes \/ BridgeReceives \/ BridgeStops
             \/ ShutdownMachine \/ Close \/ \E b \in Casters, c \in Conn : Offer(b, c)
      PROVE  UNCHANGED <<since, sent, unnamed>>
  BY <1>2 DEF vars, BridgeSubscribes, BridgeReceives, BridgeStops, ShutdownMachine, Close,
     Offer, fanout, wire
<1>3. BridgeReceives => UNCHANGED <<status, lost>>
  BY DEF BridgeReceives
<1> QED
  BY <1>1, <1>2, <1>3, FeedStep DEF Next, Serve, WriterLoop, BroadcastStep, MainCloses

LEMMA UnnamedStep ==
    ASSUME [Next]_vars
    PROVE  UNCHANGED unnamed \/ \E b \in Casters, c \in Conn : CloseBySubscriberID(b, c)
BY StreamFrame DEF Publish, Subscribe, WriterWrites, fanout

LEMMA SinceStep ==
    ASSUME TypeOK, [Next]_vars, NEW c \in Conn
    PROVE  since'[c] = since[c] \/ Subscribe(c)
<1>1. ASSUME NEW d \in Conn, d # c, Subscribe(d) PROVE since'[c] = since[c]
  BY <1>1 DEF Subscribe, TypeOK
<1>2. ASSUME NEW b \in Casters, NEW d \in Conn, CloseBySubscriberID(b, d)
      PROVE  since'[c] = since[c]
  BY <1>2 DEF CloseBySubscriberID
<1>3. ASSUME Publish \/ \E d \in Conn : WriterWrites(d) PROVE since' = since
  BY <1>3 DEF Publish, WriterWrites, fanout
<1> QED BY <1>1, <1>2, <1>3, StreamFrame

LEMMA AnnounceReached ==
    ASSUME TypeOK, Stages, Casts, NEW d \in Conn, Announce(d)
    PROVE  \A c \in Conn : Reached(c)' \in {Reached(c), Reached(c) \cup {Change(conn[d].change)}}
<1>1. /\ cast[d] = Idle /\ Broadcast(d, Change(conn[d].change))
      /\ UNCHANGED <<sent, writer, queue>>
  BY DEF Announce, Casts, wire
<1>2. Change(conn[d].change) \in Event /\ d \in Casters
  BY DEF Change, Event, TypeOK, Casters
<1> QED BY <1>1, <1>2, BroadcastReached

LEMMA ReceiveReached ==
    ASSUME TypeOK, BridgeReceives
    PROVE  \A c \in Conn : Reached(c)' = IF c \in subs THEN Reached(c) \cup {State(Head(feed))}
                                         ELSE Reached(c)
<1>1. /\ cast[Bridge] = Idle /\ feed # <<>> /\ Broadcast(Bridge, State(Head(feed)))
      /\ UNCHANGED <<sent, writer, queue>>
  BY DEF BridgeReceives, wire
<1>2. State(Head(feed)) \in Event /\ Bridge \in Casters
  BY <1>1, TailElems DEF State, Event, TypeOK, Casters
<1> QED BY <1>1, <1>2, BroadcastReached

LEMMA NewStatus ==
    ASSUME TypeOK, Stages, Loops, Casts, [Next]_vars, NEW c \in Conn, NEW n \in Nat,
           State(n) \in Reached(c)', State(n) \notin Reached(c)
    PROVE  BridgeReceives /\ c \in subs /\ n = Head(feed)
<1>1. ~Still
  BY StillReached
<1>2. ASSUME NEW b \in Casters, NEW d \in Conn, Offer(b, d) \/ CloseBySubscriberID(b, d)
      PROVE  FALSE
  BY <1>2, OfferReached, CloseReached
<1>3. ASSUME NEW d \in Conn, WriterTakes(d) \/ WriterWrites(d) \/ WriterEnds(d) PROVE FALSE
  BY <1>3, WriterReached, EndReached
<1>4. ASSUME NEW d \in Conn, Announce(d) PROVE FALSE
  <2>1. State(n) # Change(conn[d].change)
    BY DEF State, Change
  <2> QED BY <1>4, <2>1, AnnounceReached
<1>5. CASE BridgeReceives
  <2>1. c \in subs /\ State(n) = State(Head(feed))
    BY <1>5, ReceiveReached
  <2>2. n = Head(feed)
    BY <2>1 DEF State
  <2> QED BY <1>5, <2>1, <2>2
<1> QED BY <1>1, <1>2, <1>3, <1>4, <1>5, StillStep

-----------------------------------------------------------------------------
(* No gap behind a status that is on its way. NoGap says that a steady      *)
(* subscriber has all up to the current status ahead of it; a connection    *)
(* that is not subscribed any more, and answers its last request, has at    *)
(* least no gap.                                                            *)
Whole(c) == c \notin unnamed /\ c \notin Over

NoGapBefore(c, n) ==
    \A m \in since[c].status + 1 .. n - 1 : m \in lost \/ State(m) \in Reached(c)

Contiguous ==
    \A c \in Conn : Whole(c) => \A n \in Nat : State(n) \in Reached(c) => NoGapBefore(c, n)

LEMMA WholeStep ==
    ASSUME TypeOK, Stages, Loops, Casts, Opened, Joined, [Next]_vars, NEW c \in Conn, Whole(c)'
    PROVE  Whole(c) /\ Reached(c) \subseteq Reached(c)'
<1>1. Whole(c)
  <2>1. unnamed \subseteq unnamed'
    <3>1. ASSUME NEW b \in Casters, NEW d \in Conn, CloseBySubscriberID(b, d)
          PROVE  unnamed \subseteq unnamed'
      BY <3>1, CloseEffect
    <3> QED BY <3>1, UnnamedStep
  <2> QED BY <2>1, OverStep DEF Whole
<1>2. CASE Still
  BY <1>1, <1>2, StillReached
<1>3. ASSUME NEW b \in Casters, NEW d \in Conn, Offer(b, d) PROVE Reached(c) \subseteq Reached(c)'
  BY <1>3, OfferReached
<1>4. ASSUME NEW b \in Casters, NEW d \in Conn, CloseBySubscriberID(b, d)
      PROVE  Reached(c) \subseteq Reached(c)'
  <2>1. CASE d # c
    BY <1>4, <2>1, CloseReached
  <2>2. CASE d = c
    <3>1. conn \in [Conn -> Reader]
      BY DEF TypeOK, Reader
    <3>2. CASE c \in registered /\ conn' = [conn EXCEPT ![c].open = FALSE]
      <4>1. conn[c].at # "none"
        BY <3>2 DEF Opened, Outside
      <4>2. conn'[c].at = conn[c].at /\ ~conn'[c].open
        BY <3>1, <3>2 DEF Reader
      <4> QED BY <4>1, <4>2 DEF Whole, Over, Broken
    <3>3. CASE conn[c].named /\ c \notin registered /\ conn' = conn
      <4>1. conn[c].at = "ended"
        BY <3>3 DEF Opened, Joined, Outside, Early
      <4>2. ~conn'[c].open /\ conn'[c].at # "none"
        BY <3>3, <4>1 DEF Opened
      <4> QED BY <4>2 DEF Whole, Over, Broken
    <3>4. CASE ~conn[c].named
      BY <1>4, <2>2, <3>4 DEF CloseBySubscriberID, Whole
    <3> QED BY <1>4, <2>2, <3>2, <3>3, <3>4 DEF CloseBySubscriberID
  <2> QED BY <2>1, <2>2
<1>5. ASSUME NEW d \in Conn, WriterTakes(d) \/ WriterWrites(d)
      PROVE  Reached(c) \subseteq Reached(c)'
  BY <1>5, WriterReached
<1>6. ASSUME NEW d \in Conn, WriterEnds(d) PROVE Reached(c) \subseteq Reached(c)'
  <2>1. CASE d # c
    BY <1>6, <2>1, EndReached
  <2>2. CASE d = c
    <3>1. writer[c].at # "write"
      <4>1. ASSUME writer[c].at = "write" PROVE FALSE
        <5>1. Broken(c) /\ conn[c].at # "none"
          BY <1>6, <2>2, <4>1 DEF WriterEnds, Stages, NoLoop
        <5> QED BY <1>1, <5>1 DEF Whole, Over
      <4> QED BY <4>1
    <3>2. writer[c].events = {}
      BY <1>6, <2>2, <3>1 DEF WriterEnds, Loops
    <3>3. UNCHANGED <<sent, queue, cast>>
      BY <1>6 DEF WriterEnds, fanout
    <3> QED BY <3>2, <3>3 DEF Reached, Queued, Offered
  <2> QED BY <2>1, <2>2
<1>7. ASSUME NEW d \in Conn, Announce(d) PROVE Reached(c) \subseteq Reached(c)'
  BY <1>7, AnnounceReached
<1>8. CASE BridgeReceives
  BY <1>1, <1>8, ReceiveReached
<1> QED BY <1>1, <1>2, <1>3, <1>4, <1>5, <1>6, <1>7, <1>8, StillStep

LEMMA ContiguousStep ==
    ASSUME IInv, Opened, Joined, Contiguous, [Next]_vars
    PROVE  Contiguous'
<1>0. /\ TypeOK /\ Stages /\ Loops /\ Casts /\ Numbers /\ NoGap /\ InOrder
      /\ status \in Nat /\ feed \in Seq(Nat) /\ \A c \in Conn : since[c].status \in Nat
  BY DEF IInv, TypeOK
<1>1. lost \subseteq lost'
  BY FeedStep DEF Publish, BridgeReceives
<1>2. SUFFICES ASSUME NEW c \in Conn, Whole(c)', NEW n \in Nat, State(n) \in Reached(c)'
               PROVE  \A m \in since'[c].status + 1 .. n - 1 :
                          m \in lost' \/ State(m) \in Reached(c)'
  <2>1. Contiguous' <=> \A c \in Conn : Whole(c)' => \A n \in Nat : State(n) \in Reached(c)' =>
            \A m \in since'[c].status + 1 .. n - 1 : m \in lost' \/ State(m) \in Reached(c)'
    BY DEF Contiguous, NoGapBefore, State
  <2> QED BY <2>1
<1>3. Whole(c) /\ Reached(c) \subseteq Reached(c)'
  BY <1>0, <1>2, WholeStep
<1>4. CASE Subscribe(c)
  <2>1. since'[c].status = status /\ Still
    BY <1>4 DEF Subscribe, Still, wire, TypeOK, IInv
  <2>2. State(n) \in Reached(c)
    BY <1>2, <2>1, StillReached
  <2>3. n <= status
    BY <1>0, <2>2 DEF Numbers, State
  <2> QED BY <1>0, <2>1, <2>3
<1>5. CASE State(n) \in Reached(c) /\ since'[c] = since[c]
  <2>1. \A m \in since[c].status + 1 .. n - 1 : m \in lost \/ State(m) \in Reached(c)
    BY <1>3, <1>5 DEF Contiguous, NoGapBefore
  <2> QED BY <1>1, <1>3, <1>5, <2>1
<1>6. CASE State(n) \notin Reached(c) /\ since'[c] = since[c]
  <2>1. BridgeReceives /\ c \in subs /\ n = Head(feed)
    BY <1>0, <1>2, <1>6, NewStatus
  <2>2. Steady(c)
    <3>1. conn[c].at # "none"
      BY <1>0, <2>1 DEF Stages
    <3> QED BY <1>3, <2>1, <3>1 DEF Steady, Whole, Over, Broken
  <2>3. /\ Elems(feed) \subseteq Nat /\ n \in Elems(feed) /\ n <= status
        /\ \A m \in Elems(feed) : n <= m
    <3>1. feed # <<>>
      BY <2>1 DEF BridgeReceives
    <3>2. /\ DOMAIN feed = 1 .. Len(feed) /\ Len(feed) \in Nat \ {0} /\ n = feed[1]
          /\ \A i \in DOMAIN feed : feed[i] \in Nat
      BY <1>0, <2>1, <3>1, TailElems
    <3>3. Rising(feed)
      BY <1>0, InOrderDef
    <3>4. 1 \in DOMAIN feed /\ feed[1] <= status
      BY <1>0, <3>2 DEF Numbers
    <3>5. ASSUME NEW i \in DOMAIN feed PROVE n <= feed[i]
      <4>1. CASE i = 1
        BY <3>2, <4>1
      <4>2. CASE i # 1
        <5>1. 1 < i
          BY <3>2, <4>2
        <5>2. feed[1] < feed[i]
          BY <3>3, <3>4, <5>1 DEF Rising
        <5> QED BY <3>2, <5>2
      <4> QED BY <4>1, <4>2
    <3> QED BY <3>2, <3>4, <3>5 DEF Elems
  <2>4. \A m \in since[c].status + 1 .. status : StatusThere(c, m)
    BY <1>0, <2>2, NoGapDef
  <2>5. ASSUME NEW m \in since[c].status + 1 .. n - 1 PROVE m \in lost \/ State(m) \in Reached(c)
    <3>1. m \in since[c].status + 1 .. status /\ ~(n <= m)
      BY <1>0, <2>3
    <3> QED BY <2>3, <2>4, <3>1 DEF StatusThere
  <2> QED BY <1>1, <1>3, <1>6, <2>5
<1>7. since'[c] = since[c] \/ Subscribe(c)
  BY <1>0, SinceStep
<1> QED BY <1>4, <1>5, <1>6, <1>7

-----------------------------------------------------------------------------
(* All that is known of the reachable states.                               *)
StreamInv == IInv /\ Opened /\ Joined /\ Loaded /\ Contiguous /\ OneWriter

LEMMA StreamInvariant == Spec => []StreamInv
<1>1. Init => StreamInv
  <2> SUFFICES ASSUME Init PROVE StreamInv
    OBVIOUS
  <2>1. IInv
    BY Initial
  <2>2. Opened /\ Joined /\ Loaded /\ OneWriter
    BY DEF Init, Opened, Outside, Closing, Joined, Early, NoLoop, Loaded, OneWriter
  <2>3. \A c \in Conn : Reached(c) = {}
    <3>1. \A c \in Conn : queue[c] = <<>> /\ Queued(c) = {}
      <4>1. DOMAIN <<>> = {}
        BY EmptySeq, LenProperties
      <4> QED BY <4>1 DEF Init, Queued
    <3> QED BY <3>1 DEF Init, Reached, NoLoop, Idle, Offered
  <2>4. Contiguous
    BY <2>3 DEF Contiguous
  <2> QED BY <2>1, <2>2, <2>4 DEF StreamInv
<1>2. StreamInv /\ [Next]_vars => StreamInv'
  <2> SUFFICES ASSUME StreamInv, [Next]_vars PROVE StreamInv'
    OBVIOUS
  <2>1. IInv'
    BY TypeStep, StagesStep, LoopsStep, CastsStep, NumbersStep, NoGapStep, InOrderStep
       DEF IInv, StreamInv
  <2>2. TypeOK /\ Stages
    BY DEF StreamInv, IInv
  <2>3. Opened' /\ Joined' /\ Loaded' /\ OneWriter'
    BY <2>2, OpenedStep, JoinedStep, LoadedStep, OneWriterStep DEF StreamInv
  <2>4. Contiguous'
    BY ContiguousStep DEF StreamInv
  <2> QED BY <2>1, <2>3, <2>4 DEF StreamInv
<1> QED BY <1>1, <1>2, PTL DEF Spec

(* The frames of the reader and of the writer of a connection do not mix    *)
(* (writeFrame).                                                            *)
THEOREM FramesApart == Spec => []OneWriter
<1>1. StreamInv => OneWriter
  BY DEF StreamInv
<1> QED BY StreamInvariant, <1>1, PTL

(* Close misses no connection: once it has taken its list, one that is open *)
(* is in the list or has not tried to register, and then it closes itself   *)
(* (registerConn, Close).                                                   *)
CloseReachesAll ==
    Closing => \A c \in Conn : conn[c].open => c \in toClose \/ conn[c].at = "register"

THEOREM CloseMissesNone == Spec => []CloseReachesAll
<1>1. StreamInv => CloseReachesAll
  BY DEF StreamInv, Opened, Outside, CloseReachesAll
<1> QED BY StreamInvariant, <1>1, PTL

(* When Close is through its list, no write is left that a peer could hold  *)
(* up: whoever is in one is on a connection that has been closed, so the    *)
(* write fails and the lock is given back (conn.Close, writeFrame).         *)
WritesFreed == Closing /\ toClose = {} => \A c \in Conn : wmu[c] # "free" => ~conn[c].open

THEOREM CloseFreesWrites == Spec => []WritesFreed
<1>1. ASSUME StreamInv, Closing, toClose = {}, NEW c \in Conn, conn[c].open PROVE wmu[c] = "free"
  <2>1. conn[c].at = "register"
    BY <1>1 DEF StreamInv, Opened, Outside
  <2>2. writer[c].at # "write"
    BY <1>1, <2>1 DEF StreamInv, IInv, Stages, NoLoop
  <2>3. wmu[c] \notin {"reader", "writer"}
    BY <1>1, <2>1, <2>2 DEF StreamInv, OneWriter
  <2> QED BY <1>1, <2>3 DEF StreamInv, IInv, TypeOK
<1>2. StreamInv => WritesFreed
  BY <1>1 DEF WritesFreed
<1> QED BY StreamInvariant, <1>2, PTL

-----------------------------------------------------------------------------
(* The refinement. A write of a status tells it.                            *)
LEMMA WriteShows ==
    ASSUME StreamInv, NEW c \in Conn, WriterWrites(c), Over' = Over
    PROVE  [Stream!Next]_Stream!vars
<1>0. /\ TypeOK /\ Numbers /\ InOrder /\ Casts /\ Contiguous /\ Joined /\ status \in Nat
      /\ sent \in [Conn -> SUBSET Event]
  BY DEF StreamInv, IInv, TypeOK
<1>1. /\ sent' = [sent EXCEPT ![c] = sent[c] \cup writer[c].events] /\ ~Broken(c)
      /\ UNCHANGED <<status, lost, since, unnamed>>
  BY <1>0 DEF WriterWrites, fanout, tunnel
<1>2. PICK e \in Event : writer[c].events = {e}
  BY DEF StreamInv, Loaded, WriterWrites
<1>3. /\ sent'[c] = sent[c] \cup {e} /\ \A d \in Conn \ {c} : sent'[d] = sent[d]
  BY <1>0, <1>1, <1>2
<1>4. StatesOf(sent'[c]) = StatesOf(sent[c]) \cup StatesOf({e})
  BY <1>3, StatesUnion
<1>5. CASE e.kind = "Configs.Changed"
  <2>1. StatesOf(sent'[c]) = StatesOf(sent[c])
    BY <1>4, <1>5, StatesUnion
  <2>2. \A d \in Conn : StatesOf(sent'[d]) = StatesOf(sent[d])
    BY <1>3, <2>1
  <2>3. [d \in Conn |-> StatesOf(sent[d])]' = [d \in Conn |-> StatesOf(sent[d])]
    BY <2>2 DEF StatesOf
  <2> QED BY <1>1, <2>3 DEF Stream!vars, Over
<1>6. CASE e.kind = "State.Changed"
  <2> DEFINE n == e.n
             told == [d \in Conn |-> StatesOf(sent[d])]
  <2>1. n \in Nat /\ e = State(n) /\ StatesOf({e}) = {n}
    BY <1>6, StatesUnion DEF Event, State
  <2>2. State(n) \in Reached(c) /\ n <= status
    BY <1>0, <1>2, <2>1, ReachedDef DEF Numbers, State
  <2>3. /\ Places(c) /\ n \in StatesOf(writer[c].events)
    BY <1>0, <1>2, <2>1, InOrderDef
  <2>4. \A m \in StatesOf(sent[c]) : m < n
    BY <2>3 DEF Places, Chain, Precede
  <2>5. c \notin Over /\ since[c].status # 0 /\ since[c].status \in Nat
    BY <1>0, <1>1 DEF Over, Joined, WriterWrites, NoLoop, TypeOK
  <2>6. ASSUME c \notin unnamed, NEW m \in since[c].status + 1 .. n - 1
        PROVE  m \in StatesOf(sent[c]) \cup lost
    <3>1. NoGapBefore(c, n)
      BY <1>0, <2>1, <2>2, <2>5, <2>6 DEF Contiguous, Whole
    <3>2. m \in Nat /\ m < n /\ (m \in lost \/ State(m) \in Reached(c))
      BY <2>1, <2>5, <2>6, <3>1 DEF NoGapBefore
    <3>3. \A S : State(m) \in S => m \in StatesOf(S)
      BY DEF State, StatesOf
    <3>4. State(m) \notin writer[c].events
      BY <1>2, <2>1, <3>2 DEF State
    <3>5. State(m) \notin Elems(queue[c]) /\ State(m) \notin Offered(Bridge, c)
      <4>1. \A k \in StatesOf(Elems(queue[c])) \cup StatesOf(Offered(Bridge, c)) : n < k
        BY <2>3 DEF Places, Chain, Precede
      <4> QED BY <2>1, <3>2, <3>3, <4>1
    <3>6. ASSUME NEW b \in Casters, b # Bridge PROVE State(m) \notin Offered(b, c)
      <4>1. b \in Conn
        BY <3>6 DEF Casters
      <4> QED BY <1>0, <4>1 DEF Casts, Offered, State
    <3>7. m \in lost \/ State(m) \in sent[c]
      BY <3>2, <3>4, <3>5, <3>6, ReachedDef
    <3> QED BY <3>3, <3>7
  <2>7. told' = [told EXCEPT ![c] = told[c] \cup {n}]
    <3>1. told'[c] = told[c] \cup {n} /\ \A d \in Conn \ {c} : told'[d] = told[d]
      BY <1>3, <1>4, <2>1 DEF StatesOf
    <3> QED BY <3>1
  <2>8. Stream!Tell(c, n)
    <3>1. [d \in Conn |-> since[d].status][c] = since[c].status /\ told[c] = StatesOf(sent[c])
      OBVIOUS
    <3>2. c \in unnamed \/ since[c].status + 1 .. n - 1 \subseteq told[c] \cup lost
      BY <2>6
    <3> QED BY <1>1, <2>2, <2>4, <2>5, <2>7, <3>1, <3>2 DEF Stream!Tell, Over
  <2>9. n \in 0 .. status
    BY <1>0, <2>1, <2>2
  <2> QED BY <2>8, <2>9 DEF Stream!Next
<1> QED BY <1>2, <1>5, <1>6 DEF Event

LEMMA StreamShows ==
    ASSUME StreamInv, [Next]_vars
    PROVE  [Stream!Next]_Stream!vars
<1> DEFINE Froms == [c \in Conn |-> since[c].status]
           Tolds == [c \in Conn |-> StatesOf(sent[c])]
<1>0. /\ TypeOK /\ Stages /\ Opened /\ Joined /\ status \in Nat
      /\ since \in [Conn -> [status : Nat, changes : Nat]]
  BY DEF StreamInv, IInv, TypeOK
<1>1. Over' = Over \/ \E c \in Conn : Over' = Over \cup {c}
  BY <1>0, OverStep
<1>2. CASE UNCHANGED <<status, lost, since, sent, unnamed>>
  <2>1. Froms' = Froms /\ Tolds' = Tolds
    BY <1>2 DEF StatesOf
  <2>2. CASE Over' = Over
    BY <1>2, <2>1, <2>2 DEF Stream!vars, Over
  <2>3. ASSUME NEW c \in Conn, Over' = Over \cup {c} PROVE Stream!Next
    <3>1. Stream!Leave(c)
      BY <1>2, <2>1, <2>3 DEF Stream!Leave, Over
    <3> QED BY <3>1 DEF Stream!Next
  <2> QED BY <1>1, <2>2, <2>3
<1>3. CASE Publish
  <2>1. /\ status' = status + 1 /\ lost' \in {lost, lost \cup {status + 1}}
        /\ UNCHANGED <<since, sent, unnamed>>
    BY <1>3 DEF Publish, fanout, wire
  <2>2. Froms' = Froms /\ Tolds' = Tolds /\ Over' = Over
    BY <1>0, <1>3, <2>1, OverStep DEF StatesOf
  <2> QED BY <2>1, <2>2 DEF Stream!Next, Stream!Publish, Over
<1>4. ASSUME NEW c \in Conn, Subscribe(c) PROVE Stream!Next
  <2>1. /\ since' = [since EXCEPT ![c] = [status |-> status, changes |-> changes]]
        /\ conn[c].at = "auth" /\ UNCHANGED <<status, lost, sent, unnamed>>
    BY <1>4 DEF Subscribe, wire, tunnel
  <2>2. Tolds' = Tolds /\ Over' = Over
    BY <1>0, <1>4, <2>1, OverStep DEF StatesOf
  <2>3. since[c].status = 0
    BY <1>0, <2>1 DEF Joined
  <2>4. Froms' = [Froms EXCEPT ![c] = status]
    <3>1. Froms'[c] = status /\ \A d \in Conn \ {c} : Froms'[d] = Froms[d]
      BY <1>0, <2>1
    <3> QED BY <3>1
  <2>5. Stream!Follow(c)
    BY <2>1, <2>2, <2>3, <2>4 DEF Stream!Follow, Over
  <2> QED BY <2>5 DEF Stream!Next
<1>5. ASSUME NEW c \in Conn, WriterWrites(c) PROVE [Stream!Next]_Stream!vars
  <2>1. Over' = Over
    BY <1>0, <1>5, OverStep
  <2> QED BY <1>5, <2>1, WriteShows
<1>6. ASSUME NEW b \in Casters, NEW c \in Conn, CloseBySubscriberID(b, c)
      PROVE  [Stream!Next]_Stream!vars
  <2>1. UNCHANGED <<status, lost, since, sent>>
    BY <1>6 DEF CloseBySubscriberID, wire, tunnel
  <2>2. CASE unnamed' = unnamed
    BY <1>2, <2>1, <2>2
  <2>3. CASE unnamed' # unnamed
    <3>1. Over' = Over
      BY <1>0, <1>6, <2>3, OverStep
    <3>2. ~conn[c].named /\ unnamed' = unnamed \cup {c}
      BY <1>6, <2>3 DEF CloseBySubscriberID
    <3>3. StatesOf(sent[c]) = {}
      BY <1>0, <3>2, StatesUnion DEF Joined
    <3>4. Froms' = Froms /\ Tolds' = Tolds
      BY <2>1 DEF StatesOf
    <3>5. Stream!Excuse(c)
      BY <2>1, <3>1, <3>2, <3>3, <3>4 DEF Stream!Excuse, Over
    <3> QED BY <3>5 DEF Stream!Next
  <2> QED BY <2>2, <2>3
<1> QED BY <1>2, <1>3, <1>4, <1>5, <1>6, StreamFrame

(* Ipc implements EventStream: whatever the bridge, the broadcasts of the   *)
(* handlers, the queues and the writers do, a client is told each status in *)
(* order, once and without a gap, until its connection is over (Broadcast,  *)
(* writerLoop, runStateChangedBridge).                                      *)
THEOREM StatusesStreamed == Spec => StreamSpec
<1>1. Init => Stream!Init
  <2> SUFFICES ASSUME Init PROVE Stream!Init
    OBVIOUS
  <2>1. \A c \in Conn : since[c].status = 0 /\ StatesOf(sent[c]) = {} /\ conn[c].at = "none"
    BY StatesUnion DEF Init
  <2> QED BY <2>1 DEF Init, Stream!Init
<1>2. StreamInv /\ [Next]_vars => [Stream!Next]_Stream!vars
  BY StreamShows
<1> QED BY <1>1, <1>2, StreamInvariant, PTL DEF Spec, StreamSpec, Stream!Spec
=============================================================================

------------------------------ MODULE IpcProofs ------------------------------
(***************************************************************************)
(* Proofs about Ipc, for any connections, capacities and bounds: type      *)
(* correctness, that a subscriber whose connection stays open misses       *)
(* nothing, and that statuses reach it in the order of the transitions.    *)
(***************************************************************************)
EXTENDS Ipc, SequenceTheorems, TLAPS

(* A subscriber is registered and its reader is between the two deferred    *)
(* calls; the writer starts when the id is stored.                          *)
Stages ==
    \A c \in Conn :
        /\ c \in subs => /\ c \in registered
                         /\ conn[c].at \notin {"none", "register", "auth", "close", "ended"}
        /\ conn[c].at = "auth" => c \in registered
        /\ conn[c].at \in {"none", "register", "auth", "store"} => writer[c] = NoLoop

Loops == \A c \in Conn : writer[c].at \notin {"lock", "write"} => writer[c].events = {}

(* A handler broadcasts before it replies, changes of the registry only,    *)
(* and every broadcast is of one event.                                     *)
Casts ==
    /\ \A c \in Conn : /\ cast[c] # Idle => conn[c].at = "reply"
                       /\ \A e \in cast[c].events : e.kind = "Configs.Changed"
    /\ \A b \in Casters : cast[b].targets # {} => \E e \in Event : cast[b].events = {e}

(* No status is on its way before the tunnel had it.                        *)
Numbers ==
    /\ \A c \in Conn : \A e \in Reached(c) : e.kind = "State.Changed" => e.n <= status
    /\ \A i \in DOMAIN feed : feed[i] <= status

IInv == TypeOK /\ Stages /\ Loops /\ Casts /\ Numbers /\ NoGap /\ InOrder

Reader == [at : Stage, open : BOOLEAN, gone : BOOLEAN, named : BOOLEAN, change : Nat]
Loop   == [at : {"none", "select", "lock", "write", "ended"}, events : SUBSET Event]
Fan    == [events : SUBSET Event, targets : SUBSET Conn, slow : SUBSET Conn]

-----------------------------------------------------------------------------
(* Sequences and the sets of their elements.                                *)
Elems(s) == {s[i] : i \in DOMAIN s}

LEMMA AppendElems ==
    ASSUME NEW S, NEW s \in Seq(S), NEW e \in S
    PROVE  /\ Append(s, e) \in Seq(S) /\ Len(Append(s, e)) = Len(s) + 1
           /\ Elems(Append(s, e)) = Elems(s) \cup {e}
           /\ \A i \in DOMAIN s : Append(s, e)[i] = s[i]
           /\ Append(s, e)[Len(s) + 1] = e
           /\ DOMAIN Append(s, e) = 1 .. Len(s) + 1 /\ DOMAIN s = 1 .. Len(s) /\ Len(s) \in Nat
BY DEF Elems

LEMMA TailElems ==
    ASSUME NEW S, NEW s \in Seq(S), s # <<>>
    PROVE  /\ Tail(s) \in Seq(S) /\ Len(Tail(s)) = Len(s) - 1 /\ Len(s) \in Nat \ {0}
           /\ Head(s) \in S /\ Head(s) = s[1]
           /\ Elems(s) = {Head(s)} \cup Elems(Tail(s))
           /\ \A i \in DOMAIN Tail(s) : Tail(s)[i] = s[i + 1]
           /\ DOMAIN s = 1 .. Len(s) /\ DOMAIN Tail(s) = 1 .. Len(s) - 1
<1>1. /\ Tail(s) \in Seq(S) /\ Len(Tail(s)) = Len(s) - 1 /\ Len(s) \in Nat \ {0}
      /\ Head(s) \in S /\ Head(s) = s[1]
      /\ \A i \in DOMAIN Tail(s) : Tail(s)[i] = s[i + 1]
      /\ DOMAIN s = 1 .. Len(s) /\ DOMAIN Tail(s) = 1 .. Len(s) - 1
  BY HeadTailProperties, EmptySeq, LenProperties
<1>2. Elems(s) \subseteq {Head(s)} \cup Elems(Tail(s))
  <2> SUFFICES ASSUME NEW i \in DOMAIN s PROVE s[i] \in {Head(s)} \cup Elems(Tail(s))
    BY DEF Elems
  <2>1. CASE i = 1
    BY <1>1, <2>1
  <2>2. CASE i # 1
    <3>1. i - 1 \in DOMAIN Tail(s) /\ Tail(s)[i - 1] = s[i]
      BY <1>1, <2>2
    <3> QED BY <3>1 DEF Elems
  <2> QED BY <2>1, <2>2
<1>3. {Head(s)} \cup Elems(Tail(s)) \subseteq Elems(s)
  <2>1. Head(s) \in Elems(s)
    BY <1>1 DEF Elems
  <2>2. ASSUME NEW i \in DOMAIN Tail(s) PROVE Tail(s)[i] \in Elems(s)
    <3>1. i + 1 \in DOMAIN s /\ Tail(s)[i] = s[i + 1]
      BY <1>1
    <3> QED BY <3>1 DEF Elems
  <2> QED BY <2>1, <2>2 DEF Elems
<1> QED BY <1>1, <1>2, <1>3

-----------------------------------------------------------------------------
(* The reader moves on.                                                     *)
LEMMA MoveEffect ==
    ASSUME TypeOK, NEW c \in Conn, NEW stage \in Stage, Move(c, stage)
    PROVE  /\ conn' \in [Conn -> Reader]
           /\ conn'[c] = [conn[c] EXCEPT !.at = stage]
           /\ conn'[c].at = stage
           /\ conn'[c].open = conn[c].open /\ conn'[c].gone = conn[c].gone
           /\ conn'[c].named = conn[c].named /\ conn'[c].change = conn[c].change
           /\ \A d \in Conn \ {c} : conn'[d] = conn[d]
<1>1. conn \in [Conn -> Reader]
  BY DEF TypeOK, Reader
<1>2. [conn[c] EXCEPT !.at = stage] \in Reader
  BY <1>1 DEF Reader
<1>3. conn' = [conn EXCEPT ![c] = [conn[c] EXCEPT !.at = stage]]
  BY <1>1 DEF Move
<1> QED BY <1>1, <1>2, <1>3 DEF Reader

(* What the steps of a broadcast do to the events that are offered.         *)
LEMMA ServedEffect ==
    ASSUME TypeOK, NEW b \in Casters, NEW c \in Conn, Served(b, c)
    PROVE  /\ cast' \in [Casters -> Fan]
           /\ \A a \in Casters \ {b} : cast'[a] = cast[a]
           /\ cast'[b] = Idle \/ cast'[b].targets = cast[b].targets \ {c}
           /\ cast'[b].events \in {cast[b].events, {}}
           /\ Offered(b, c)' = {}
           /\ \A d \in Conn \ {c} : Offered(b, d)' = Offered(b, d)
<1>1. cast \in [Casters -> Fan]
  BY DEF TypeOK, Fan
<1>2. Idle \in Fan /\ Idle.events = {} /\ Idle.targets = {}
  BY DEF Idle, Fan
<1>3. CASE cast[b].targets = {c}
  <2>1. cast' = [cast EXCEPT ![b] = Idle]
    BY <1>3 DEF Served
  <2> QED BY <1>1, <1>2, <1>3, <2>1 DEF Offered
<1>4. CASE cast[b].targets # {c}
  <2>1. cast' = [cast EXCEPT ![b] = [events |-> cast[b].events,
                                      targets |-> cast[b].targets \ {c}, slow |-> {}]]
    BY <1>1, <1>4 DEF Served
  <2>2. [events |-> cast[b].events, targets |-> cast[b].targets \ {c}, slow |-> {}] \in Fan
    BY <1>1 DEF Fan
  <2>3. cast'[b].targets = cast[b].targets \ {c} /\ cast'[b].events = cast[b].events
    BY <1>1, <2>1 DEF Fan
  <2> QED BY <1>1, <2>1, <2>2, <2>3 DEF Offered
<1> QED BY <1>3, <1>4

LEMMA OfferEffect ==
    ASSUME TypeOK, Casts, NEW b \in Casters, NEW c \in Conn, Offer(b, c)
    PROVE  /\ cast' \in [Casters -> Fan]
           /\ \A a \in Casters \ {b} : cast'[a] = cast[a]
           /\ \A a \in Casters, d \in Conn : a # b \/ d # c => Offered(a, d)' = Offered(a, d)
           /\ cast'[b].events \in {cast[b].events, {}}
           /\ cast'[b].targets # {} => cast'[b].events = cast[b].events /\ cast[b].targets # {}
           /\ \/ queue' = queue /\ Offered(b, c)' = Offered(b, c)
              \/ \E e \in Event : /\ Offered(b, c) = {e} /\ Offered(b, c)' = {}
                                  /\ Len(queue[c]) < QueueCap
                                  /\ queue' = [queue EXCEPT ![c] = Append(@, e)]
           /\ cast[b] # Idle
<1>1. cast \in [Casters -> Fan] /\ c \in cast[b].targets /\ cast[b] # Idle
  BY DEF TypeOK, Fan, Offer, Idle
<1>2. CASE /\ cast' = [cast EXCEPT ![b].slow = {c}]
           /\ UNCHANGED queue
  <2>1. [cast[b] EXCEPT !.slow = {c}] \in Fan
    BY <1>1 DEF Fan
  <2>2. cast' \in [Casters -> Fan] /\ \A a \in Casters \ {b} : cast'[a] = cast[a]
    BY <1>1, <1>2, <2>1
  <2>3. cast'[b].events = cast[b].events /\ cast'[b].targets = cast[b].targets
    BY <1>1, <1>2 DEF Fan
  <2> QED BY <1>1, <1>2, <2>2, <2>3 DEF Offered
<1>3. CASE /\ Len(queue[c]) < QueueCap
           /\ \E e \in cast[b].events : queue' = [queue EXCEPT ![c] = Append(@, e)]
           /\ Served(b, c)
  <2>1. PICK e \in Event : cast[b].events = {e}
    BY <1>1 DEF Casts
  <2>2. Offered(b, c) = {e} /\ queue' = [queue EXCEPT ![c] = Append(@, e)]
    BY <1>1, <1>3, <2>1 DEF Offered
  <2>3. /\ cast' \in [Casters -> Fan]
        /\ \A a \in Casters \ {b} : cast'[a] = cast[a]
        /\ cast'[b] = Idle \/ cast'[b].targets = cast[b].targets \ {c}
        /\ cast'[b].events \in {cast[b].events, {}}
        /\ Offered(b, c)' = {}
        /\ \A d \in Conn \ {c} : Offered(b, d)' = Offered(b, d)
    BY <1>3, ServedEffect
  <2>4. cast'[b].targets # {} => cast'[b].events = cast[b].events
    BY <1>3 DEF Served, Idle, TypeOK
  <2>5. \A a \in Casters, d \in Conn : a # b \/ d # c => Offered(a, d)' = Offered(a, d)
    BY <2>3 DEF Offered
  <2> QED BY <1>1, <1>3, <2>2, <2>3, <2>4, <2>5
<1> QED BY <1>2, <1>3 DEF Offer

LEMMA CloseEffect ==
    ASSUME TypeOK, Stages, NEW b \in Casters, NEW c \in Conn, CloseBySubscriberID(b, c)
    PROVE  /\ cast' \in [Casters -> Fan]
           /\ \A a \in Casters \ {b} : cast'[a] = cast[a]
           /\ \A a \in Casters, d \in Conn : a # b \/ d # c => Offered(a, d)' = Offered(a, d)
           /\ Offered(b, c)' = {}
           /\ cast'[b].events \in {cast[b].events, {}}
           /\ cast'[b].targets # {} => cast'[b].events = cast[b].events /\ cast[b].targets # {}
           /\ conn' \in [Conn -> Reader] /\ unnamed' \subseteq Conn /\ unnamed \subseteq unnamed'
           /\ \A d \in Conn : /\ conn'[d].at = conn[d].at /\ conn'[d].gone = conn[d].gone
                              /\ conn'[d].change = conn[d].change
                              /\ conn'[d].open => conn[d].open
           /\ c \in subs => ~conn'[c].open \/ c \in unnamed'
           /\ cast[b] # Idle
<1>0. cast[b] # Idle /\ Served(b, c)
  BY DEF CloseBySubscriberID, Idle
<1>1. /\ cast' \in [Casters -> Fan]
      /\ \A a \in Casters \ {b} : cast'[a] = cast[a]
      /\ cast'[b] = Idle \/ cast'[b].targets = cast[b].targets \ {c}
      /\ cast'[b].events \in {cast[b].events, {}}
      /\ Offered(b, c)' = {}
      /\ \A d \in Conn \ {c} : Offered(b, d)' = Offered(b, d)
  BY <1>0, ServedEffect
<1>2. \A a \in Casters, d \in Conn : a # b \/ d # c => Offered(a, d)' = Offered(a, d)
  BY <1>1 DEF Offered
<1>3. cast'[b].targets # {} => cast'[b].events = cast[b].events /\ cast[b].targets # {}
  BY <1>0 DEF Served, Idle, TypeOK
<1>4. /\ conn' \in [Conn -> Reader]
      /\ \A d \in Conn : /\ conn'[d].at = conn[d].at /\ conn'[d].gone = conn[d].gone
                         /\ conn'[d].change = conn[d].change
                         /\ conn'[d].open => conn[d].open
  <2>1. conn \in [Conn -> Reader] /\ [conn[c] EXCEPT !.open = FALSE] \in Reader
    <3>1. conn \in [Conn -> Reader]
      BY DEF TypeOK, Reader
    <3>2. \A r \in Reader : [r EXCEPT !.open = FALSE] \in Reader
      BY DEF Reader
    <3> QED BY <3>1, <3>2
  <2>2. conn' = conn \/ conn' = [conn EXCEPT ![c] = [conn[c] EXCEPT !.open = FALSE]]
    BY <2>1 DEF CloseBySubscriberID
  <2>3. CASE conn' = conn
    BY <2>1, <2>3
  <2>4. CASE conn' = [conn EXCEPT ![c] = [conn[c] EXCEPT !.open = FALSE]]
    <3>1. /\ conn' \in [Conn -> Reader]
          /\ conn'[c] = [conn[c] EXCEPT !.open = FALSE]
          /\ \A d \in Conn \ {c} : conn'[d] = conn[d]
      BY <2>1, <2>4
    <3>2. /\ conn'[c].at = conn[c].at /\ conn'[c].gone = conn[c].gone
          /\ conn'[c].change = conn[c].change /\ ~conn'[c].open
      BY <2>1, <3>1 DEF Reader
    <3> QED BY <3>1, <3>2
  <2> QED BY <2>2, <2>3, <2>4
<1>5. /\ unnamed' \subseteq Conn /\ unnamed \subseteq unnamed'
      /\ c \in subs => ~conn'[c].open \/ c \in unnamed'
  BY DEF CloseBySubscriberID, Stages, TypeOK
<1> QED BY <1>0, <1>1, <1>2, <1>3, <1>4, <1>5

(* A broadcast begins with all the subscribers.                             *)
LEMMA BroadcastEffect ==
    ASSUME TypeOK, NEW b \in Casters, NEW e \in Event, cast[b] = Idle, Broadcast(b, e)
    PROVE  /\ cast' \in [Casters -> Fan]
           /\ \A a \in Casters \ {b} : cast'[a] = cast[a] /\ \A d \in Conn : Offered(a, d)' = Offered(a, d)
           /\ \A d \in Conn : /\ Offered(b, d) = {}
                              /\ Offered(b, d)' = IF d \in subs THEN {e} ELSE {}
           /\ cast'[b].events \in {{e}, {}}
           /\ cast'[b].targets # {} => cast'[b].events = {e}
<1>1. cast \in [Casters -> Fan] /\ subs \subseteq Conn
  BY DEF TypeOK, Fan
<1>2. Idle \in Fan /\ Idle.events = {} /\ Idle.targets = {}
  BY DEF Idle, Fan
<1>3. [events |-> {e}, targets |-> subs, slow |-> {}] \in Fan
  BY <1>1 DEF Fan
<1> QED BY <1>1, <1>2, <1>3 DEF Broadcast, Offered

-----------------------------------------------------------------------------
(* No connection, nothing on its way: the invariant holds at the start.     *)
THEOREM Initial == Init => IInv
<1> SUFFICES ASSUME Init PROVE IInv
  OBVIOUS
<1>1. \A S : <<>> \in Seq(S)
  OBVIOUS
<1>2. TypeOK
  <2>1. /\ conn \in [Conn -> Reader] /\ cast \in [Casters -> Fan] /\ writer \in [Conn -> Loop]
        /\ since \in [Conn -> [status : Nat, changes : Nat]]
        /\ wmu \in [Conn -> {"free", "reader", "writer"}] /\ sent \in [Conn -> SUBSET Event]
    BY DEF Init, Reader, Stage, Fan, Idle, Loop, NoLoop
  <2>2. queue \in [Conn -> Seq(Event)] /\ feed \in Seq(Nat)
    BY <1>1 DEF Init
  <2>3. (\A c \in Conn : Len(queue[c]) <= QueueCap) /\ Len(feed) <= FeedCap
    BY IpcAssumption, EmptySeq DEF Init
  <2> QED BY <2>1, <2>2, <2>3 DEF Init, TypeOK, Reader, Fan, Loop
<1>3. Stages /\ Loops /\ Casts
  BY DEF Init, Stages, Loops, NoLoop, Casts, Idle, Casters
<1>4. \A c \in Conn : Reached(c) = {}
  <2>1. \A c \in Conn : queue[c] = <<>> /\ Queued(c) = {}
    <3>1. DOMAIN <<>> = {}
      BY EmptySeq, LenProperties
    <3> QED BY <3>1 DEF Init, Queued
  <2> QED BY <2>1 DEF Init, Reached, NoLoop, Idle, Offered
<1>5. Numbers /\ NoGap
  BY <1>4 DEF Init, Numbers, NoGap, Steady
<1>6. InOrder
  <2>1. \A c \in Conn : /\ StatesOf(sent[c]) = {} /\ StatesOf(writer[c].events) = {}
                        /\ StatesOf(Queued(c)) = {} /\ queue[c] = <<>>
    BY <1>4 DEF Reached, StatesOf, Init
  <2>2. feed = <<>> /\ \A c \in Conn : StatesOf(Offered(Bridge, c)) = {}
    BY DEF Init, Offered, Idle, Casters, StatesOf
  <2>3. DOMAIN <<>> = {}
    BY EmptySeq, LenProperties
  <2> QED BY <2>1, <2>2, <2>3 DEF InOrder, Precede
<1> QED BY <1>2, <1>3, <1>5, <1>6 DEF IInv

LEMMA TypeStep == ASSUME TypeOK, Stages, Casts, [Next]_vars PROVE TypeOK'
<1> USE IpcAssumption
<1>0. /\ conn \in [Conn -> Reader] /\ cast \in [Casters -> Fan] /\ writer \in [Conn -> Loop]
      /\ status \in Nat /\ asked \in Nat /\ changes \in Nat
      /\ Conn \subseteq Casters /\ Bridge \in Casters
  BY DEF TypeOK, Reader, Fan, Loop, Casters
<1>1. CASE UNCHANGED vars
  BY <1>1 DEF vars, server, fanout, wire, tunnel, TypeOK
<1>2. ASSUME UNCHANGED <<changes, server, fanout, wire, tunnel>>, asked' \in Nat,
             conn' \in [Conn -> Reader]
      PROVE  TypeOK'
  BY <1>2 DEF server, fanout, wire, tunnel, TypeOK, Reader
<1>3. ASSUME NEW c \in Conn,
             \/ Accept(c) \/ PeerLeaves(c) \/ Refuse(c) \/ Answer(c) \/ Switch(c) \/ NoReply(c)
             \/ SwitchPosts(c) \/ SwitchGivesUp(c) \/ ReadFails(c)
      PROVE  TypeOK'
  <2>1. conn' \in [Conn -> Reader]
    <3>1. CASE Accept(c) \/ PeerLeaves(c)
      <4>1. /\ [conn[c] EXCEPT !.at = "register", !.open = TRUE] \in Reader
            /\ [conn[c] EXCEPT !.gone = TRUE] \in Reader
        BY <1>0 DEF Reader, Stage
      <4>2. \/ conn' = [conn EXCEPT ![c] = [conn[c] EXCEPT !.at = "register", !.open = TRUE]]
            \/ conn' = [conn EXCEPT ![c] = [conn[c] EXCEPT !.gone = TRUE]]
        BY <1>0, <3>1 DEF Accept, PeerLeaves
      <4> QED BY <1>0, <4>1, <4>2
    <3>2. CASE \/ Refuse(c) \/ Answer(c) \/ Switch(c) \/ NoReply(c) \/ SwitchPosts(c)
               \/ SwitchGivesUp(c) \/ ReadFails(c)
      <4>1. \E stage \in Stage : Move(c, stage)
        BY <3>2 DEF Refuse, Answer, Switch, NoReply, SwitchPosts, SwitchGivesUp, ReadFails, Stage
      <4> QED BY <4>1, MoveEffect
    <3> QED BY <1>3, <3>1, <3>2
  <2>2. UNCHANGED <<changes, server, fanout, wire, tunnel>> /\ asked' \in Nat
    BY <1>0, <1>3 DEF Accept, PeerLeaves, Refuse, Answer, Switch, NoReply, SwitchPosts,
       SwitchGivesUp, ReadFails, ReadsRequest
  <2> QED BY <1>2, <2>1, <2>2
<1>4. ASSUME NEW c \in Conn, RegisterConn(c) \/ Subscribe(c) \/ Unsub(c) \/ CloseConn(c)
                             \/ ChangeConfigs(c) \/ CloseOne(c)
      PROVE  TypeOK'
  <2>1. conn' \in [Conn -> Reader]
    <3>1. \/ \E stage \in Stage : Move(c, stage)
          \/ conn' = [conn EXCEPT ![c] = [conn[c] EXCEPT !.at = "ended", !.open = FALSE]]
          \/ conn' = [conn EXCEPT ![c] = [conn[c] EXCEPT !.at = "announce",
                                                         !.change = changes + 1]]
          \/ conn' = [conn EXCEPT ![c] = [conn[c] EXCEPT !.open = FALSE]]
      BY <1>0, <1>4 DEF RegisterConn, Subscribe, Unsub, CloseConn, ChangeConfigs, CloseOne, Stage
    <3>2. /\ [conn[c] EXCEPT !.at = "ended", !.open = FALSE] \in Reader
          /\ [conn[c] EXCEPT !.at = "announce", !.change = changes + 1] \in Reader
          /\ [conn[c] EXCEPT !.open = FALSE] \in Reader
      <4>1. conn[c] \in Reader /\ changes + 1 \in Nat /\ {"ended", "announce"} \subseteq Stage
        BY <1>0 DEF Stage
      <4> QED BY <4>1 DEF Reader
    <3> QED BY <1>0, <3>1, <3>2, MoveEffect
  <2>2. /\ registered' \subseteq Conn /\ subs' \subseteq Conn /\ toClose' \subseteq Conn
        /\ asked' \in Nat /\ changes' \in Nat /\ main' = main
    <3>1. asked' \in {asked, asked + 1} /\ changes' \in {changes, changes + 1} /\ main' = main
      BY <1>4 DEF RegisterConn, Subscribe, Unsub, CloseConn, ChangeConfigs, CloseOne,
         ReadsRequest, server
    <3>2. /\ registered' \in {registered, registered \cup {c}, registered \ {c}}
          /\ subs' \in {subs, subs \cup {c}, subs \ {c}}
          /\ toClose' \in {toClose, toClose \ {c}}
      BY <1>4 DEF RegisterConn, Subscribe, Unsub, CloseConn, ChangeConfigs, CloseOne, server,
         fanout
    <3> QED BY <3>1, <3>2 DEF TypeOK
  <2>4. since' \in [Conn -> [status : Nat, changes : Nat]]
    <3>1. CASE Subscribe(c)
      <4>1. [status |-> status, changes |-> changes] \in [status : Nat, changes : Nat]
        BY <1>0
      <4> QED BY <3>1, <4>1 DEF Subscribe, TypeOK
    <3>2. CASE ~Subscribe(c)
      BY <1>4, <3>2 DEF RegisterConn, Unsub, CloseConn, ChangeConfigs, CloseOne, fanout, TypeOK
    <3> QED BY <3>1, <3>2
  <2>3. UNCHANGED <<queue, cast, unnamed, wire, tunnel>>
    BY <1>4 DEF RegisterConn, Subscribe, Unsub, CloseConn, ChangeConfigs, CloseOne, fanout
  <2> QED BY <2>1, <2>2, <2>3, <2>4 DEF wire, tunnel, TypeOK, Reader
<1>5. ASSUME NEW c \in Conn,
             \/ StoreId(c) \/ ReaderLocks(c) \/ Writes(c) \/ WriteFails(c)
             \/ WriterLocks(c) \/ WriterWrites(c) \/ WriterEnds(c)
      PROVE  TypeOK'
  <2>1. conn' \in [Conn -> Reader]
    BY <1>0, <1>5 DEF StoreId, ReaderLocks, Writes, WriteFails, AfterWrite, WriterLocks,
       WriterWrites, WriterEnds, Move, Reader, Stage
  <2>2. writer' \in [Conn -> Loop]
    BY <1>0, <1>5 DEF StoreId, ReaderLocks, Writes, WriteFails, WriterLocks, WriterWrites,
       WriterEnds, Loop
  <2>3. wmu' \in [Conn -> {"free", "reader", "writer"}]
    BY <1>5 DEF StoreId, ReaderLocks, Writes, WriteFails, WriterLocks, WriterWrites,
       WriterEnds, TypeOK
  <2>4. sent' \in [Conn -> SUBSET Event]
    <3>1. CASE WriterWrites(c)
      <4>1. writer[c].events \in SUBSET Event
        BY <1>0 DEF Loop
      <4> QED BY <3>1, <4>1 DEF WriterWrites, TypeOK
    <3> QED BY <1>5, <3>1 DEF StoreId, ReaderLocks, Writes, WriteFails, WriterLocks,
            WriterEnds, TypeOK
  <2>5. UNCHANGED <<asked, changes, server, fanout, tunnel>>
    BY <1>5 DEF StoreId, ReaderLocks, Writes, WriteFails, WriterLocks, WriterWrites, WriterEnds
  <2> QED BY <2>1, <2>2, <2>3, <2>4, <2>5 DEF server, fanout, tunnel, TypeOK, Reader, Loop
<1>6. ASSUME NEW c \in Conn, WriterTakes(c) PROVE TypeOK'
  <2>1. queue[c] \in Seq(Event) /\ queue[c] # <<>>
    BY <1>6 DEF WriterTakes, TypeOK
  <2>2. /\ Tail(queue[c]) \in Seq(Event) /\ Len(Tail(queue[c])) <= Len(queue[c])
        /\ Head(queue[c]) \in Event
    BY <2>1, TailElems
  <2>3. [at |-> "lock", events |-> {Head(queue[c])}] \in Loop
    BY <2>2 DEF Loop
  <2>4. queue' \in [Conn -> Seq(Event)] /\ \A d \in Conn : Len(queue'[d]) <= QueueCap
    <3>1. queue' = [queue EXCEPT ![c] = Tail(queue[c])] /\ queue \in [Conn -> Seq(Event)]
      BY <1>6 DEF WriterTakes, TypeOK
    <3>2. Len(queue[c]) \in Nat /\ Len(queue[c]) <= QueueCap /\ Len(Tail(queue[c])) \in Nat
      BY <2>1, <2>2 DEF TypeOK
    <3> QED BY <2>2, <3>1, <3>2 DEF TypeOK
  <2>5. writer' \in [Conn -> Loop]
    BY <1>0, <1>6, <2>3 DEF WriterTakes
  <2>6. UNCHANGED <<conn, asked, changes, server, subs, cast, unnamed, since, wmu, sent, tunnel>>
    BY <1>6 DEF WriterTakes
  <2> QED BY <2>4, <2>5, <2>6 DEF server, tunnel, TypeOK, Loop
<1>7. ASSUME NEW b \in Casters, NEW c \in Conn, Offer(b, c) PROVE TypeOK'
  <2>1. cast' \in [Casters -> Fan]
    BY <1>7, OfferEffect
  <2>2. queue' \in [Conn -> Seq(Event)] /\ \A d \in Conn : Len(queue'[d]) <= QueueCap
    <3>1. CASE queue' = queue
      BY <3>1 DEF TypeOK
    <3>2. CASE \E e \in Event : /\ Len(queue[c]) < QueueCap
                                /\ queue' = [queue EXCEPT ![c] = Append(@, e)]
      <4>1. PICK e \in Event : /\ Len(queue[c]) < QueueCap
                               /\ queue' = [queue EXCEPT ![c] = Append(queue[c], e)]
        BY <3>2
      <4>2. queue[c] \in Seq(Event) /\ Len(queue[c]) \in Nat
        BY DEF TypeOK
      <4>3. Append(queue[c], e) \in Seq(Event) /\ Len(Append(queue[c], e)) = Len(queue[c]) + 1
        BY <4>2
      <4> QED BY <4>1, <4>2, <4>3 DEF TypeOK
    <3> QED BY <1>7, <3>1, <3>2, OfferEffect
  <2>3. UNCHANGED <<conn, asked, changes, server, subs, unnamed, since, wire, tunnel>>
    BY <1>7 DEF Offer
  <2> QED BY <2>1, <2>2, <2>3 DEF server, wire, tunnel, TypeOK, Fan
<1>8. ASSUME NEW b \in Casters, NEW c \in Conn, CloseBySubscriberID(b, c) PROVE TypeOK'
  <2>1. cast' \in [Casters -> Fan] /\ conn' \in [Conn -> Reader] /\ unnamed' \subseteq Conn
    BY <1>8, CloseEffect
  <2>2. UNCHANGED <<asked, changes, server, subs, queue, since, wire, tunnel>>
    BY <1>8 DEF CloseBySubscriberID
  <2> QED BY <2>1, <2>2 DEF server, wire, tunnel, TypeOK, Fan, Reader
<1>9. ASSUME NEW c \in Conn, Announce(c) PROVE TypeOK'
  <2>1. Change(conn[c].change) \in Event
    BY <1>0 DEF Change, Event, Reader
  <2>2. cast[c] = Idle
    BY <1>9 DEF Announce, Casts
  <2>3. cast' \in [Casters -> Fan]
    BY <1>0, <1>9, <2>1, <2>2, BroadcastEffect DEF Announce
  <2>4. conn' \in [Conn -> Reader]
    <3>1. \A r \in Reader : [r EXCEPT !.at = "reply", !.change = 0] \in Reader
      BY DEF Reader, Stage
    <3>2. conn' = [conn EXCEPT ![c] = [conn[c] EXCEPT !.at = "reply", !.change = 0]]
      BY <1>9 DEF Announce
    <3> QED BY <1>0, <3>1, <3>2
  <2>5. UNCHANGED <<asked, changes, server, subs, queue, unnamed, since, wire, tunnel>>
    BY <1>9 DEF Announce
  <2> QED BY <2>3, <2>4, <2>5 DEF server, wire, tunnel, TypeOK, Fan, Reader
<1>10. CASE BridgeReceives
  <2>1. feed \in Seq(Nat) /\ feed # <<>> /\ Len(feed) <= FeedCap
    BY <1>10 DEF BridgeReceives, TypeOK
  <2>2. Tail(feed) \in Seq(Nat) /\ Len(Tail(feed)) <= FeedCap /\ Head(feed) \in Nat
    BY <2>1, TailElems
  <2>3. State(Head(feed)) \in Event
    BY <2>2 DEF State, Event
  <2>4. cast' \in [Casters -> Fan]
    BY <1>0, <1>10, <2>3, BroadcastEffect DEF BridgeReceives
  <2>5. /\ feed' = Tail(feed)
        /\ UNCHANGED <<conn, asked, changes, server, subs, queue, unnamed, since, wire, status,
                       bridge, lost>>
    BY <1>10 DEF BridgeReceives
  <2> QED BY <2>2, <2>4, <2>5 DEF server, wire, TypeOK, Fan
<1>11. CASE Publish
  <2>1. status' \in Nat /\ lost' \subseteq Nat
    <3>1. status' = status + 1 /\ (lost' = lost \/ lost' = lost \cup {status + 1})
      BY <1>11 DEF Publish
    <3>2. lost \subseteq Nat /\ status + 1 \in Nat
      BY <1>0 DEF TypeOK
    <3> QED BY <3>1, <3>2
  <2>2. feed' \in Seq(Nat) /\ Len(feed') <= FeedCap
    <3>1. feed \in Seq(Nat) /\ Len(feed) \in Nat /\ Len(feed) <= FeedCap
      BY DEF TypeOK
    <3>2. Append(feed, status + 1) \in Seq(Nat) /\ Len(Append(feed, status + 1)) = Len(feed) + 1
      BY <1>0, <3>1
    <3> QED BY <1>11, <3>1, <3>2 DEF Publish
  <2>3. UNCHANGED <<conn, asked, changes, server, fanout, wire, bridge>>
    BY <1>11 DEF Publish
  <2> QED BY <2>1, <2>2, <2>3 DEF server, fanout, wire, TypeOK
<1>12. CASE BridgeSubscribes \/ BridgeStops
  BY <1>12 DEF BridgeSubscribes, BridgeStops, server, fanout, wire, TypeOK
<1>13. CASE ShutdownMachine \/ Close
  BY <1>13 DEF ShutdownMachine, Close, fanout, wire, tunnel, TypeOK
<1> QED
  BY <1>1, <1>3, <1>4, <1>5, <1>6, <1>7, <1>8, <1>9, <1>10, <1>11, <1>12, <1>13
     DEF Next, Request, Serve, WriterLoop, BroadcastStep, MainCloses
-----------------------------------------------------------------------------
(* The stages of a connection.                                              *)
LEMMA StagesStep == ASSUME TypeOK, Stages, Casts, [Next]_vars PROVE Stages'
<1> DEFINE Early == {"none", "register", "auth", "store"}
<1>0. conn \in [Conn -> Reader] /\ writer \in [Conn -> Loop]
  BY DEF TypeOK, Reader, Loop
<1>1. ASSUME UNCHANGED <<subs, registered>>,
             \A c \in Conn :
                 /\ \/ conn'[c].at = conn[c].at
                    \/ /\ conn'[c].at \notin Early
                       /\ c \in subs => conn'[c].at \notin {"close", "ended"}
                 /\ conn'[c].at \in Early => writer'[c] = writer[c] \/ writer[c] # NoLoop
      PROVE  Stages'
  BY <1>1 DEF Stages
<1>2. ASSUME UNCHANGED <<subs, registered, conn, writer>> PROVE Stages'
  BY <1>2 DEF Stages
<1>3. ASSUME NEW c \in Conn,
             \/ Refuse(c) \/ Answer(c) \/ Switch(c) \/ NoReply(c) \/ SwitchPosts(c)
             \/ SwitchGivesUp(c) \/ ReadFails(c) \/ ReaderLocks(c)
      PROVE  Stages'
  <2>1. PICK stage \in {"refuse", "reply", "post", "serve", "await", "unsub", "replying",
                        "refusing"} : Move(c, stage)
    BY <1>3 DEF Refuse, Answer, Switch, NoReply, SwitchPosts, SwitchGivesUp, ReadFails,
       ReaderLocks
  <2>2. stage \in Stage
    BY DEF Stage
  <2>3. conn'[c].at = stage /\ \A d \in Conn \ {c} : conn'[d] = conn[d]
    BY <2>1, <2>2, MoveEffect
  <2>4. UNCHANGED <<subs, registered, writer>>
    BY <1>3 DEF Refuse, Answer, Switch, NoReply, SwitchPosts, SwitchGivesUp, ReadFails,
       ReaderLocks, server, fanout, wire
  <2> QED BY <1>1, <2>3, <2>4
<1>4. ASSUME NEW c \in Conn, Writes(c) \/ WriteFails(c) PROVE Stages'
  <2>1. /\ conn'[c].at = IF conn[c].at = "replying" THEN "serve"
                         ELSE IF c \in subs THEN "unsub" ELSE "close"
        /\ \A d \in Conn \ {c} : conn'[d] = conn[d]
    BY <1>0, <1>4 DEF Writes, WriteFails, AfterWrite, Reader
  <2>2. UNCHANGED <<subs, registered, writer>>
    BY <1>4 DEF Writes, WriteFails, server, fanout
  <2> QED BY <1>1, <2>1, <2>2
<1>5. ASSUME NEW c \in Conn, ChangeConfigs(c) \/ Announce(c) PROVE Stages'
  <2>1. /\ conn'[c].at \in {"announce", "reply"}
        /\ \A d \in Conn \ {c} : conn'[d] = conn[d]
    BY <1>0, <1>5 DEF ChangeConfigs, Announce, Reader
  <2>2. UNCHANGED <<subs, registered, writer>>
    BY <1>5 DEF ChangeConfigs, Announce, server, fanout, wire
  <2> QED BY <1>1, <2>1, <2>2
<1>6. ASSUME NEW c \in Conn, StoreId(c) PROVE Stages'
  <2>1. /\ conn'[c].at = "serve"
        /\ \A d \in Conn \ {c} : conn'[d] = conn[d] /\ writer'[d] = writer[d]
        /\ UNCHANGED <<subs, registered>>
    BY <1>0, <1>6 DEF StoreId, Reader, Loop, server, fanout
  <2> QED BY <1>1, <2>1
<1>7. ASSUME NEW c \in Conn, WriterTakes(c) \/ WriterLocks(c) \/ WriterWrites(c) \/ WriterEnds(c)
      PROVE  Stages'
  <2>1. /\ writer[c] # NoLoop
        /\ \A d \in Conn \ {c} : writer'[d] = writer[d]
        /\ UNCHANGED <<subs, registered, conn>>
    BY <1>0, <1>7 DEF WriterTakes, WriterLocks, WriterWrites, WriterEnds, NoLoop, Loop, server,
       fanout
  <2> QED BY <1>1, <2>1
<1>8. ASSUME NEW b \in Casters, NEW c \in Conn, CloseBySubscriberID(b, c) PROVE Stages'
  <2>1. \A d \in Conn : conn'[d].at = conn[d].at
    BY <1>8, CloseEffect
  <2>2. UNCHANGED <<subs, registered, writer>>
    BY <1>8 DEF CloseBySubscriberID, server, wire
  <2> QED BY <1>1, <2>1, <2>2
<1>9. ASSUME NEW c \in Conn, PeerLeaves(c) \/ CloseOne(c) PROVE Stages'
  <2>1. \A d \in Conn : conn'[d].at = conn[d].at
    BY <1>0, <1>9 DEF PeerLeaves, CloseOne, Reader
  <2>2. UNCHANGED <<subs, registered, writer>>
    BY <1>9 DEF PeerLeaves, CloseOne, server, fanout, wire
  <2> QED BY <1>1, <2>1, <2>2
<1>10. CASE \/ UNCHANGED vars \/ Publish \/ BridgeSubscribes \/ BridgeReceives \/ BridgeStops
            \/ ShutdownMachine \/ Close \/ \E b \in Casters, c \in Conn : Offer(b, c)
  <2>1. UNCHANGED <<subs, registered, conn, writer>>
    BY <1>10 DEF vars, Publish, BridgeSubscribes, BridgeReceives, BridgeStops, ShutdownMachine,
       Close, Offer, server, fanout, wire
  <2> QED BY <1>2, <2>1
<1>11. ASSUME NEW c \in Conn, Accept(c) PROVE Stages'
  <2>1. /\ conn[c].at = "none" /\ conn'[c].at = "register"
        /\ \A d \in Conn \ {c} : conn'[d] = conn[d]
        /\ UNCHANGED <<subs, registered, writer>>
    BY <1>0, <1>11 DEF Accept, Reader, server, fanout, wire
  <2> QED BY <2>1 DEF Stages
<1>12. ASSUME NEW c \in Conn, RegisterConn(c) PROVE Stages'
  <2>1. /\ \/ conn'[c].at = "ended" /\ registered' = registered
           \/ conn'[c].at = "auth" /\ registered' = registered \cup {c}
        /\ conn[c].at = "register"
        /\ \A d \in Conn \ {c} : conn'[d] = conn[d]
        /\ UNCHANGED <<subs, writer>>
    BY <1>0, <1>12 DEF RegisterConn, Move, Reader, fanout, wire
  <2> QED BY <2>1 DEF Stages
<1>13. ASSUME NEW c \in Conn, Subscribe(c) PROVE Stages'
  <2>1. /\ conn[c].at = "auth" /\ conn'[c].at = "store"
        /\ \A d \in Conn \ {c} : conn'[d] = conn[d]
        /\ subs' = subs \cup {c} /\ UNCHANGED <<registered, writer>>
    BY <1>0, <1>13 DEF Subscribe, Move, Reader, server, wire
  <2> QED BY <2>1 DEF Stages
<1>14. ASSUME NEW c \in Conn, Unsub(c) PROVE Stages'
  <2>1. /\ conn'[c].at = "close"
        /\ \A d \in Conn \ {c} : conn'[d] = conn[d]
        /\ subs' = subs \ {c} /\ UNCHANGED <<registered, writer>>
    BY <1>0, <1>14 DEF Unsub, Move, Reader, server, wire
  <2> QED BY <2>1 DEF Stages
<1>15. ASSUME NEW c \in Conn, CloseConn(c) PROVE Stages'
  <2>1. /\ conn[c].at = "close" /\ conn'[c].at = "ended"
        /\ \A d \in Conn \ {c} : conn'[d] = conn[d]
        /\ registered' = registered \ {c} /\ UNCHANGED <<subs, writer>>
    BY <1>0, <1>15 DEF CloseConn, Reader, fanout, wire
  <2> QED BY <2>1 DEF Stages
<1> QED
  BY <1>3, <1>4, <1>5, <1>6, <1>7, <1>8, <1>9, <1>10, <1>11, <1>12, <1>13, <1>14, <1>15
     DEF Next, Request, Serve, WriterLoop, BroadcastStep, MainCloses

(* A writer holds an event from the queue to the wire.                      *)
LEMMA LoopsStep == ASSUME TypeOK, Stages, Loops, [Next]_vars PROVE Loops'
<1>0. writer \in [Conn -> Loop]
  BY DEF TypeOK, Loop
<1>1. CASE UNCHANGED writer
  BY <1>1 DEF Loops
<1>2. ASSUME NEW c \in Conn, StoreId(c) PROVE Loops'
  <2>1. writer[c].events = {}
    BY <1>2 DEF StoreId, Stages, NoLoop
  <2>2. writer'[c].events = writer[c].events /\ \A d \in Conn \ {c} : writer'[d] = writer[d]
    BY <1>0, <1>2 DEF StoreId, Loop
  <2> QED BY <2>1, <2>2 DEF Loops
<1>3. ASSUME NEW c \in Conn, WriterTakes(c) \/ WriterLocks(c) \/ WriterWrites(c) \/ WriterEnds(c)
      PROVE  Loops'
  <2>1. /\ writer'[c].at \in {"lock", "write"} \/ writer'[c].events = {}
        /\ \A d \in Conn \ {c} : writer'[d] = writer[d]
    BY <1>0, <1>3 DEF WriterTakes, WriterLocks, WriterWrites, WriterEnds, Loop
  <2> QED BY <2>1 DEF Loops
<1>4. ASSUME NEW c \in Conn,
             \/ Accept(c) \/ PeerLeaves(c) \/ Request(c) \/ NoReply(c) \/ ReadFails(c)
             \/ RegisterConn(c) \/ Refuse(c) \/ Subscribe(c) \/ SwitchPosts(c) \/ SwitchGivesUp(c)
             \/ Announce(c) \/ ReaderLocks(c) \/ WriteFails(c) \/ Unsub(c) \/ CloseConn(c)
             \/ Writes(c) \/ CloseOne(c) \/ BroadcastStep(Bridge)
      PROVE  UNCHANGED writer
  BY <1>4 DEF Accept, PeerLeaves, Request, Answer, Switch, ChangeConfigs, NoReply, ReadFails,
     RegisterConn, Refuse, Subscribe, SwitchPosts, SwitchGivesUp, Announce, ReaderLocks,
     WriteFails, Unsub, CloseConn, Writes, CloseOne, wire, BroadcastStep, Offer,
     CloseBySubscriberID
<1>5. ASSUME UNCHANGED vars \/ (\E b \in Casters : BroadcastStep(b)) \/ Publish \/ BridgeSubscribes
             \/ BridgeReceives \/ BridgeStops \/ ShutdownMachine \/ Close
      PROVE  UNCHANGED writer
  BY <1>5 DEF vars, BroadcastStep, Offer, CloseBySubscriberID, Publish, BridgeSubscribes,
     BridgeReceives, BridgeStops, ShutdownMachine, Close, wire
<1> QED
  BY <1>1, <1>2, <1>3, <1>4, <1>5 DEF Next, Serve, WriterLoop, MainCloses

(* Broadcasts are of one event each, and over before the reply.             *)
LEMMA CastsStep == ASSUME TypeOK, Stages, Casts, [Next]_vars PROVE Casts'
<1>0. /\ conn \in [Conn -> Reader] /\ Conn \subseteq Casters /\ Bridge \in Casters
      /\ Bridge \notin Conn
  BY IpcAssumption DEF TypeOK, Reader, Casters
<1>1. ASSUME UNCHANGED cast,
             \A c \in Conn : cast[c] # Idle => conn'[c].at = "reply"
      PROVE  Casts'
  BY <1>1 DEF Casts
<1>2. ASSUME NEW c \in Conn, UNCHANGED cast, \A d \in Conn \ {c} : conn'[d].at = conn[d].at,
             conn'[c].at = "reply" \/ conn[c].at # "reply" \/ cast[c] = Idle
      PROVE  Casts'
  BY <1>1, <1>2 DEF Casts
<1>3. ASSUME NEW c \in Conn,
             \/ Refuse(c) \/ Answer(c) \/ Switch(c) \/ NoReply(c) \/ SwitchPosts(c)
             \/ SwitchGivesUp(c) \/ ReadFails(c) \/ ReaderLocks(c) \/ Subscribe(c) \/ Unsub(c)
      PROVE  Casts'
  <2>1. PICK stage \in Stage : Move(c, stage)
    BY <1>3 DEF Refuse, Answer, Switch, NoReply, SwitchPosts, SwitchGivesUp, ReadFails,
       ReaderLocks, Subscribe, Unsub, Stage
  <2>2. \A d \in Conn \ {c} : conn'[d] = conn[d]
    BY <2>1, MoveEffect
  <2>3. UNCHANGED cast
    BY <1>3 DEF Refuse, Answer, Switch, NoReply, SwitchPosts, SwitchGivesUp, ReadFails,
       ReaderLocks, Subscribe, Unsub, fanout
  <2>4. conn[c].at # "reply" \/ cast[c] = Idle
    BY <1>3 DEF Refuse, Answer, Switch, NoReply, SwitchPosts, SwitchGivesUp, ReadFails,
       ReaderLocks, Subscribe, Unsub, ReadsRequest
  <2> QED BY <1>2, <2>2, <2>3, <2>4
<1>4. ASSUME NEW c \in Conn,
             \/ Accept(c) \/ RegisterConn(c) \/ StoreId(c) \/ Writes(c) \/ WriteFails(c)
             \/ ChangeConfigs(c) \/ CloseConn(c)
      PROVE  Casts'
  <2>1. (\A d \in Conn \ {c} : conn'[d] = conn[d]) /\ conn[c].at # "reply"
    BY <1>0, <1>4 DEF Accept, RegisterConn, StoreId, Writes, WriteFails, AfterWrite,
       ChangeConfigs, CloseConn, ReadsRequest, Move
  <2>2. UNCHANGED cast
    BY <1>4 DEF Accept, RegisterConn, StoreId, Writes, WriteFails, ChangeConfigs, CloseConn,
       fanout
  <2> QED BY <1>2, <2>1, <2>2
<1>5. ASSUME NEW c \in Conn, PeerLeaves(c) \/ CloseOne(c) PROVE Casts'
  <2>1. (\A d \in Conn : conn'[d].at = conn[d].at) /\ UNCHANGED cast
    BY <1>0, <1>5 DEF PeerLeaves, CloseOne, Reader, fanout
  <2> QED BY <1>1, <2>1 DEF Casts
<1>6. CASE \/ UNCHANGED vars \/ Publish \/ BridgeSubscribes \/ BridgeStops \/ ShutdownMachine
           \/ Close
           \/ \E c \in Conn : WriterTakes(c) \/ WriterLocks(c) \/ WriterWrites(c) \/ WriterEnds(c)
  <2>1. UNCHANGED <<cast, conn>>
    BY <1>6 DEF vars, Publish, BridgeSubscribes, BridgeStops, ShutdownMachine, Close,
       WriterTakes, WriterLocks, WriterWrites, WriterEnds, fanout
  <2> QED BY <1>1, <2>1 DEF Casts
<1>7. ASSUME NEW b \in Casters, cast[b] # Idle,
             \A a \in Casters \ {b} : cast'[a] = cast[a],
             cast'[b].events \in {cast[b].events, {}},
             cast'[b].targets # {} => cast'[b].events = cast[b].events /\ cast[b].targets # {},
             \A c \in Conn : conn'[c].at = conn[c].at
      PROVE  Casts'
  BY <1>0, <1>7 DEF Casts
<1>8. ASSUME NEW b \in Casters, NEW c \in Conn, Offer(b, c) PROVE Casts'
  <2>1. UNCHANGED conn
    BY <1>8 DEF Offer
  <2> QED BY <1>7, <1>8, <2>1, OfferEffect
<1>9. ASSUME NEW b \in Casters, NEW c \in Conn, CloseBySubscriberID(b, c) PROVE Casts'
  BY <1>7, <1>9, CloseEffect
<1>10. ASSUME NEW c \in Conn, Announce(c) PROVE Casts'
  <2>1. Change(conn[c].change) \in Event /\ Change(conn[c].change).kind = "Configs.Changed"
    BY <1>0 DEF Change, Event, Reader
  <2>2. cast[c] = Idle
    BY <1>10 DEF Announce, Casts
  <2>3. /\ \A a \in Casters \ {c} : cast'[a] = cast[a]
        /\ cast'[c].events \in {{Change(conn[c].change)}, {}}
        /\ cast'[c].targets # {} => cast'[c].events = {Change(conn[c].change)}
    BY <1>0, <1>10, <2>1, <2>2, BroadcastEffect DEF Announce
  <2>4. conn'[c].at = "reply" /\ \A d \in Conn \ {c} : conn'[d] = conn[d]
    BY <1>0, <1>10 DEF Announce, Reader
  <2> QED BY <1>0, <2>1, <2>3, <2>4 DEF Casts
<1>11. CASE BridgeReceives
  <2>1. feed \in Seq(Nat) /\ feed # <<>>
    BY <1>11 DEF BridgeReceives, TypeOK
  <2>2. State(Head(feed)) \in Event
    BY <2>1, TailElems DEF State, Event
  <2>3. /\ \A a \in Casters \ {Bridge} : cast'[a] = cast[a]
        /\ cast'[Bridge].targets # {} => cast'[Bridge].events = {State(Head(feed))}
        /\ UNCHANGED conn
    BY <1>0, <1>11, <2>2, BroadcastEffect DEF BridgeReceives
  <2> QED BY <1>0, <2>2, <2>3 DEF Casts
<1> QED
  BY <1>3, <1>4, <1>5, <1>6, <1>8, <1>9, <1>10, <1>11
     DEF Next, Request, Serve, WriterLoop, BroadcastStep, MainCloses
-----------------------------------------------------------------------------
(* The way of an event, from the offer to the wire.                         *)
LEMMA ReachedDef ==
    ASSUME NEW c \in Conn, NEW e
    PROVE  e \in Reached(c) <=> \/ e \in sent[c] \/ e \in writer[c].events
                                \/ e \in Elems(queue[c])
                                \/ \E b \in Casters : e \in Offered(b, c)
BY DEF Reached, Queued, Elems

LEMMA ReachedType ==
    ASSUME TypeOK
    PROVE  \A c \in Conn : \A e \in Reached(c) : e \in Event
<1> SUFFICES ASSUME NEW c \in Conn, NEW e, e \in Reached(c) PROVE e \in Event
  OBVIOUS
<1>1. sent[c] \subseteq Event /\ writer[c].events \subseteq Event /\ queue[c] \in Seq(Event)
  BY DEF TypeOK
<1>2. Elems(queue[c]) \subseteq Event
  BY <1>1, ElementOfSeq, LenProperties DEF Elems
<1>3. \A b \in Casters : Offered(b, c) \subseteq Event
  BY DEF TypeOK, Offered
<1> QED BY <1>1, <1>2, <1>3, ReachedDef

(* Nothing moves.                                                           *)
Still == /\ UNCHANGED <<sent, queue, cast>>
         /\ \A c \in Conn : writer'[c].events = writer[c].events

LEMMA StillReached == ASSUME Still PROVE \A c \in Conn : Reached(c)' = Reached(c)
BY DEF Still, Reached, Queued, Offered

LEMMA StillStep ==
    ASSUME TypeOK, [Next]_vars
    PROVE  \/ Still
           \/ \E b \in Casters, c \in Conn : Offer(b, c) \/ CloseBySubscriberID(b, c)
           \/ \E c \in Conn : Announce(c) \/ WriterTakes(c) \/ WriterWrites(c) \/ WriterEnds(c)
           \/ BridgeReceives
<1>0. writer \in [Conn -> Loop]
  BY DEF TypeOK, Loop
<1>1. ASSUME NEW c \in Conn,
             \/ Accept(c) \/ PeerLeaves(c) \/ Request(c) \/ NoReply(c) \/ ReadFails(c)
             \/ RegisterConn(c) \/ Refuse(c) \/ Subscribe(c) \/ SwitchPosts(c) \/ SwitchGivesUp(c)
             \/ ReaderLocks(c) \/ WriteFails(c) \/ Unsub(c) \/ CloseConn(c)
             \/ Writes(c) \/ CloseOne(c)
      PROVE  UNCHANGED <<sent, queue, cast, writer>>
  BY <1>1 DEF Accept, PeerLeaves, Request, Answer, Switch, ChangeConfigs, NoReply, ReadFails,
     RegisterConn, Refuse, Subscribe, SwitchPosts, SwitchGivesUp, ReaderLocks, WriteFails,
     Unsub, CloseConn, Writes, CloseOne, wire, fanout
<1>2. ASSUME NEW c \in Conn, StoreId(c) \/ WriterLocks(c) PROVE Still
  BY <1>0, <1>2 DEF StoreId, WriterLocks, fanout, Still, Loop
<1>3. ASSUME \/ UNCHANGED vars \/ Publish \/ BridgeSubscribes \/ BridgeStops \/ ShutdownMachine
             \/ Close
      PROVE  UNCHANGED <<sent, queue, cast, writer>>
  BY <1>3 DEF vars, Publish, BridgeSubscribes, BridgeStops, ShutdownMachine, Close, wire, fanout
<1>4. UNCHANGED <<sent, queue, cast, writer>> => Still
  BY DEF Still
<1> QED
  BY <1>1, <1>2, <1>3, <1>4 DEF Next, Serve, WriterLoop, BroadcastStep, MainCloses

LEMMA OfferReached ==
    ASSUME TypeOK, Casts, NEW b \in Casters, NEW c \in Conn, Offer(b, c)
    PROVE  \A d \in Conn : Reached(d)' = Reached(d)
<1>1. UNCHANGED <<sent, writer>>
  BY DEF Offer, wire
<1>2. \A a \in Casters, d \in Conn : a # b \/ d # c => Offered(a, d)' = Offered(a, d)
  BY OfferEffect
<1>3. CASE queue' = queue /\ Offered(b, c)' = Offered(b, c)
  BY <1>1, <1>2, <1>3 DEF Reached, Queued
<1>4. CASE \E e \in Event : /\ Offered(b, c) = {e} /\ Offered(b, c)' = {}
                            /\ queue' = [queue EXCEPT ![c] = Append(@, e)]
  <2>1. PICK e \in Event : /\ Offered(b, c) = {e} /\ Offered(b, c)' = {}
                           /\ queue' = [queue EXCEPT ![c] = Append(queue[c], e)]
    BY <1>4
  <2>2. queue \in [Conn -> Seq(Event)]
    BY DEF TypeOK
  <2>3. Elems(queue'[c]) = Elems(queue[c]) \cup {e}
    BY <2>1, <2>2, AppendElems
  <2>4. \A d \in Conn \ {c} : Elems(queue'[d]) = Elems(queue[d])
    BY <2>1, <2>2
  <2>5. \A d \in Conn : Queued(d)' = Elems(queue'[d]) /\ Queued(d) = Elems(queue[d])
    BY DEF Queued, Elems
  <2>6. \A d \in Conn \ {c} : Reached(d)' = Reached(d)
    BY <1>1, <1>2, <2>4, <2>5 DEF Reached
  <2>7. ASSUME NEW x
        PROVE  (\E a \in Casters : x \in Offered(a, c)) <=>
                   (\E a \in Casters : x \in Offered(a, c)') \/ x = e
    <3>1. \A a \in Casters \ {b} : Offered(a, c)' = Offered(a, c)
      BY <1>2
    <3> QED BY <2>1, <3>1
  <2>8. ASSUME NEW x PROVE x \in Reached(c)' <=> x \in Reached(c)
    BY <1>1, <2>3, <2>5, <2>7 DEF Reached
  <2>9. Reached(c)' = Reached(c)
    BY <2>8
  <2> QED BY <2>6, <2>9
<1> QED BY <1>3, <1>4, OfferEffect

LEMMA CloseReached ==
    ASSUME TypeOK, Stages, NEW b \in Casters, NEW c \in Conn, CloseBySubscriberID(b, c)
    PROVE  /\ \A d \in Conn : Reached(d)' \subseteq Reached(d)
           /\ \A d \in Conn \ {c} : Reached(d)' = Reached(d)
<1>1. UNCHANGED <<sent, writer, queue>>
  BY DEF CloseBySubscriberID, wire
<1>2. /\ \A a \in Casters, d \in Conn : a # b \/ d # c => Offered(a, d)' = Offered(a, d)
      /\ Offered(b, c)' = {}
  BY CloseEffect
<1> QED BY <1>1, <1>2 DEF Reached, Queued

LEMMA BroadcastReached ==
    ASSUME TypeOK, NEW b \in Casters, NEW e \in Event, cast[b] = Idle, Broadcast(b, e),
           UNCHANGED <<sent, writer, queue>>
    PROVE  \A d \in Conn : Reached(d)' = IF d \in subs THEN Reached(d) \cup {e} ELSE Reached(d)
<1>1. /\ \A a \in Casters \ {b} : \A d \in Conn : Offered(a, d)' = Offered(a, d)
      /\ \A d \in Conn : /\ Offered(b, d) = {}
                         /\ Offered(b, d)' = IF d \in subs THEN {e} ELSE {}
  BY BroadcastEffect
<1>2. ASSUME NEW d \in Conn, NEW x
      PROVE  (\E a \in Casters : x \in Offered(a, d)') <=>
                 (\E a \in Casters : x \in Offered(a, d)) \/ x \in Offered(b, d)'
  BY <1>1
<1>3. ASSUME NEW d \in Conn, NEW x
      PROVE  x \in Reached(d)' <=> x \in Reached(d) \/ x \in Offered(b, d)'
  BY <1>2 DEF Reached, Queued
<1> QED BY <1>1, <1>3

LEMMA WriterReached ==
    ASSUME TypeOK, Loops, NEW c \in Conn, WriterTakes(c) \/ WriterWrites(c)
    PROVE  \A d \in Conn : Reached(d)' = Reached(d)
<1>0. writer \in [Conn -> Loop] /\ cast' = cast
  BY DEF TypeOK, Loop, WriterTakes, WriterWrites, fanout
<1>1. CASE WriterTakes(c)
  <2>1. queue[c] \in Seq(Event) /\ queue[c] # <<>> /\ queue \in [Conn -> Seq(Event)]
    BY <1>1 DEF WriterTakes, TypeOK
  <2>2. /\ queue' = [queue EXCEPT ![c] = Tail(queue[c])]
        /\ writer[c].events = {} /\ writer'[c].events = {Head(queue[c])}
        /\ \A d \in Conn \ {c} : writer'[d] = writer[d]
        /\ sent' = sent
    BY <1>0, <1>1 DEF WriterTakes, Loops, Loop
  <2>3. Elems(queue[c]) = {Head(queue[c])} \cup Elems(queue'[c])
    BY <2>1, <2>2, TailElems
  <2>4. \A d \in Conn : Queued(d)' = Elems(queue'[d]) /\ Queued(d) = Elems(queue[d])
    BY DEF Queued, Elems
  <2>5. \A d \in Conn \ {c} : queue'[d] = queue[d]
    BY <2>1, <2>2
  <2> QED BY <1>0, <2>2, <2>3, <2>4, <2>5 DEF Reached, Offered
<1>2. CASE WriterWrites(c)
  <2>1. /\ sent'[c] = sent[c] \cup writer[c].events /\ writer'[c].events = {}
        /\ \A d \in Conn \ {c} : writer'[d] = writer[d] /\ sent'[d] = sent[d]
        /\ queue' = queue
    BY <1>0, <1>2 DEF WriterWrites, fanout, TypeOK, Loop
  <2> QED BY <1>0, <2>1 DEF Reached, Queued, Offered
<1> QED BY <1>1, <1>2

LEMMA EndReached ==
    ASSUME TypeOK, Loops, NEW c \in Conn, WriterEnds(c)
    PROVE  /\ \A d \in Conn : Reached(d)' \subseteq Reached(d)
           /\ \A d \in Conn \ {c} : Reached(d)' = Reached(d)
<1>1. /\ writer'[c].events = {} /\ \A d \in Conn \ {c} : writer'[d] = writer[d]
      /\ UNCHANGED <<sent, queue, cast>>
  BY DEF WriterEnds, TypeOK, fanout
<1> QED BY <1>1 DEF Reached, Queued, Offered

LEMMA FeedStep ==
    ASSUME [Next]_vars
    PROVE  UNCHANGED <<feed, status, lost>> \/ Publish \/ BridgeReceives
<1>1. ASSUME NEW c \in Conn,
             \/ Accept(c) \/ PeerLeaves(c) \/ Request(c) \/ NoReply(c) \/ ReadFails(c)
             \/ RegisterConn(c) \/ Refuse(c) \/ Subscribe(c) \/ SwitchPosts(c) \/ SwitchGivesUp(c)
             \/ ReaderLocks(c) \/ WriteFails(c) \/ Unsub(c) \/ CloseConn(c) \/ StoreId(c)
             \/ Writes(c) \/ CloseOne(c) \/ Announce(c)
             \/ WriterTakes(c) \/ WriterLocks(c) \/ WriterWrites(c) \/ WriterEnds(c)
      PROVE  UNCHANGED <<feed, status, lost>>
  BY <1>1 DEF Accept, PeerLeaves, Request, Answer, Switch, ChangeConfigs, NoReply, ReadFails,
     RegisterConn, Refuse, Subscribe, SwitchPosts, SwitchGivesUp, ReaderLocks, WriteFails,
     Unsub, CloseConn, Writes, CloseOne, StoreId, Announce, WriterTakes, WriterLocks,
     WriterWrites, WriterEnds, tunnel
<1>2. ASSUME \/ UNCHANGED vars \/ BridgeSubscribes \/ BridgeStops \/ ShutdownMachine \/ Close
             \/ \E b \in Casters, c \in Conn : Offer(b, c) \/ CloseBySubscriberID(b, c)
      PROVE  UNCHANGED <<feed, status, lost>>
  BY <1>2 DEF vars, BridgeSubscribes, BridgeStops, ShutdownMachine, Close, Offer,
     CloseBySubscriberID, tunnel
<1> QED
  BY <1>1, <1>2 DEF Next, Serve, WriterLoop, BroadcastStep, MainCloses

LEMMA NumbersStep == ASSUME TypeOK, Stages, Loops, Casts, Numbers, [Next]_vars PROVE Numbers'
<1>0. /\ status \in Nat /\ feed \in Seq(Nat) /\ Conn \subseteq Casters /\ Bridge \in Casters
      /\ \A c \in Conn : \A e \in Reached(c) : e.kind = "State.Changed" => e.n \in Nat
  BY ReachedType DEF TypeOK, Casters, Event
<1>1. ASSUME \A c \in Conn : \A e \in Reached(c)' :
                 e \in Reached(c) \/ e.kind = "Configs.Changed",
             UNCHANGED <<feed, status>>
      PROVE  Numbers'
  BY <1>1 DEF Numbers
<1>2. CASE Publish
  <2>1. /\ status' = status + 1
        /\ feed' = Append(feed, status + 1) \/ feed' = feed
        /\ Still
    BY <1>2 DEF Publish, fanout, wire, Still
  <2>2. \A c \in Conn : Reached(c)' = Reached(c)
    BY <2>1, StillReached
  <2>3. \A i \in DOMAIN feed : feed[i] \in Nat
    BY <1>0
  <2>4. ASSUME NEW i \in DOMAIN feed' PROVE feed'[i] <= status + 1
    <3>1. CASE feed' = feed
      BY <1>0, <2>3, <3>1 DEF Numbers
    <3>2. CASE feed' = Append(feed, status + 1)
      <4>1. i \in DOMAIN feed \/ i = Len(feed) + 1
        BY <1>0, <3>2, AppendElems
      <4> QED BY <1>0, <2>3, <3>2, <4>1, AppendElems DEF Numbers
    <3> QED BY <2>1, <3>1, <3>2
  <2> QED BY <1>0, <2>1, <2>2, <2>4 DEF Numbers
<1>3. CASE BridgeReceives
  <2>1. /\ cast[Bridge] = Idle /\ feed # <<>> /\ feed' = Tail(feed)
        /\ Broadcast(Bridge, State(Head(feed)))
        /\ UNCHANGED <<sent, writer, queue, status>>
    BY <1>3 DEF BridgeReceives, wire
  <2>2. Head(feed) \in Nat /\ Head(feed) <= status
    BY <1>0, <2>1, TailElems DEF Numbers
  <2>3. State(Head(feed)) \in Event /\ State(Head(feed)).n <= status
    BY <2>2 DEF State, Event
  <2>4. \A c \in Conn : \A e \in Reached(c)' : e \in Reached(c) \/ e = State(Head(feed))
    BY <1>0, <2>1, <2>3, BroadcastReached
  <2>5. ASSUME NEW i \in DOMAIN feed' PROVE feed'[i] <= status
    <3>1. feed'[i] = feed[i + 1] /\ i + 1 \in DOMAIN feed
      BY <1>0, <2>1, TailElems
    <3> QED BY <3>1 DEF Numbers
  <2> QED BY <2>1, <2>3, <2>4, <2>5 DEF Numbers
<1>4. ASSUME UNCHANGED <<feed, status>>, Still PROVE Numbers'
  BY <1>1, <1>4, StillReached
<1>5. ASSUME NEW b \in Casters, NEW c \in Conn, Offer(b, c) \/ CloseBySubscriberID(b, c),
             UNCHANGED <<feed, status>>
      PROVE  Numbers'
  BY <1>1, <1>5, OfferReached, CloseReached
<1>6. ASSUME NEW c \in Conn, WriterTakes(c) \/ WriterWrites(c) \/ WriterEnds(c),
             UNCHANGED <<feed, status>>
      PROVE  Numbers'
  BY <1>1, <1>6, WriterReached, EndReached
<1>7. ASSUME NEW c \in Conn, Announce(c), UNCHANGED <<feed, status>> PROVE Numbers'
  <2>1. /\ cast[c] = Idle /\ Broadcast(c, Change(conn[c].change))
        /\ UNCHANGED <<sent, writer, queue>>
    BY <1>7 DEF Announce, Casts, wire
  <2>2. Change(conn[c].change) \in Event /\ Change(conn[c].change).kind = "Configs.Changed"
    BY DEF Change, Event, TypeOK
  <2>3. \A d \in Conn : \A e \in Reached(d)' : e \in Reached(d) \/ e = Change(conn[c].change)
    BY <1>0, <2>1, <2>2, BroadcastReached
  <2> QED BY <1>1, <1>7, <2>2, <2>3
<1> QED BY <1>2, <1>3, <1>4, <1>5, <1>6, <1>7, StillStep, FeedStep

-----------------------------------------------------------------------------
(* A subscriber whose connection is open was one before, or subscribes now. *)
LEMMA SteadyStep ==
    ASSUME TypeOK, Stages, [Next]_vars, NEW c \in Conn, Steady(c)'
    PROVE  (Steady(c) /\ since'[c] = since[c]) \/ Subscribe(c)
<1> USE DEF Steady
<1>0. conn \in [Conn -> Reader]
  BY DEF TypeOK, Reader
<1>1. ASSUME UNCHANGED <<subs, unnamed, since>>,
             conn'[c].open => conn[c].open, conn[c].gone => conn'[c].gone
      PROVE  Steady(c) /\ since'[c] = since[c]
  BY <1>1
<1>2. ASSUME NEW d \in Conn,
             \/ Refuse(d) \/ Answer(d) \/ Switch(d) \/ NoReply(d) \/ SwitchPosts(d)
             \/ SwitchGivesUp(d) \/ ReadFails(d) \/ ReaderLocks(d)
      PROVE  Steady(c) /\ since'[c] = since[c]
  <2>1. PICK stage \in Stage : Move(d, stage)
    BY <1>2 DEF Refuse, Answer, Switch, NoReply, SwitchPosts, SwitchGivesUp, ReadFails,
       ReaderLocks, Stage
  <2>2. conn'[c].open = conn[c].open /\ conn'[c].gone = conn[c].gone
    BY <2>1, MoveEffect
  <2>3. UNCHANGED <<subs, unnamed, since>>
    BY <1>2 DEF Refuse, Answer, Switch, NoReply, SwitchPosts, SwitchGivesUp, ReadFails,
       ReaderLocks, fanout
  <2> QED BY <1>1, <2>2, <2>3
<1>3. ASSUME NEW d \in Conn,
             \/ StoreId(d) \/ Writes(d) \/ WriteFails(d) \/ ChangeConfigs(d) \/ Announce(d)
             \/ PeerLeaves(d) \/ CloseOne(d) \/ CloseConn(d)
      PROVE  Steady(c) /\ since'[c] = since[c]
  <2>1. (conn'[c].open => conn[c].open) /\ (conn[c].gone => conn'[c].gone)
    BY <1>0, <1>3 DEF StoreId, Writes, WriteFails, AfterWrite, ChangeConfigs, Announce,
       PeerLeaves, CloseOne, CloseConn, Reader
  <2>2. UNCHANGED <<subs, unnamed, since>>
    BY <1>3 DEF StoreId, Writes, WriteFails, ChangeConfigs, Announce, PeerLeaves, CloseOne,
       CloseConn, fanout
  <2> QED BY <1>1, <2>1, <2>2
<1>4. ASSUME NEW d \in Conn, Accept(d) PROVE Steady(c) /\ since'[c] = since[c]
  <2>1. /\ UNCHANGED <<subs, unnamed, since>>
        /\ conn[d].at = "none" /\ \A e \in Conn \ {d} : conn'[e] = conn[e]
    BY <1>0, <1>4 DEF Accept, fanout
  <2>2. d \notin subs
    BY <2>1 DEF Stages
  <2> QED BY <1>1, <2>1, <2>2
<1>5. ASSUME NEW d \in Conn, RegisterConn(d) PROVE Steady(c) /\ since'[c] = since[c]
  <2>1. (conn'[c].open => conn[c].open) /\ (conn[c].gone => conn'[c].gone)
    BY <1>0, <1>5 DEF RegisterConn, Move, Reader
  <2> QED BY <1>1, <1>5, <2>1 DEF RegisterConn, fanout
<1>6. ASSUME NEW d \in Conn, d # c, Subscribe(d) PROVE Steady(c) /\ since'[c] = since[c]
  <2>1. /\ subs' = subs \cup {d} /\ unnamed' = unnamed /\ since'[c] = since[c]
        /\ conn'[c] = conn[c]
    BY <1>0, <1>6 DEF Subscribe, Move, TypeOK
  <2> QED BY <1>6, <2>1
<1>7. ASSUME NEW d \in Conn, Unsub(d) PROVE Steady(c) /\ since'[c] = since[c]
  <2>1. /\ subs' = subs \ {d} /\ unnamed' = unnamed /\ since' = since
        /\ conn'[c].open = conn[c].open /\ conn'[c].gone = conn[c].gone
    BY <1>0, <1>7 DEF Unsub, Move, Reader
  <2> QED BY <2>1
<1>8. ASSUME NEW b \in Casters, NEW d \in Conn, CloseBySubscriberID(b, d)
      PROVE  Steady(c) /\ since'[c] = since[c]
  <2>1. /\ unnamed \subseteq unnamed' /\ conn'[c].gone = conn[c].gone
        /\ conn'[c].open => conn[c].open
    BY <1>8, CloseEffect
  <2>2. UNCHANGED <<subs, since>>
    BY <1>8 DEF CloseBySubscriberID
  <2> QED BY <2>1, <2>2
<1>9. CASE \/ UNCHANGED vars \/ Publish \/ BridgeSubscribes \/ BridgeReceives \/ BridgeStops
           \/ ShutdownMachine \/ Close \/ (\E b \in Casters, d \in Conn : Offer(b, d))
           \/ \E d \in Conn : WriterTakes(d) \/ WriterLocks(d) \/ WriterWrites(d) \/ WriterEnds(d)
  <2>1. UNCHANGED <<subs, unnamed, since, conn>>
    BY <1>9 DEF vars, Publish, BridgeSubscribes, BridgeReceives, BridgeStops, ShutdownMachine,
       Close, Offer, WriterTakes, WriterLocks, WriterWrites, WriterEnds, fanout
  <2> QED BY <1>1, <2>1
<1> QED
  BY <1>2, <1>3, <1>4, <1>5, <1>6, <1>7, <1>8, <1>9
     DEF Next, Request, Serve, WriterLoop, BroadcastStep, MainCloses

(* A change of the registry stays announced until it is broadcast.          *)
LEMMA AnnounceStep ==
    ASSUME TypeOK, Stages, [Next]_vars
    PROVE  \/ /\ changes' = changes
              /\ \A c \in Conn : conn[c].at = "announce" =>
                     conn'[c].at = "announce" /\ conn'[c].change = conn[c].change
           \/ \E c \in Conn : Announce(c) \/ ChangeConfigs(c)
<1> DEFINE Kept == \A c \in Conn : conn[c].at = "announce" =>
                       conn'[c].at = "announce" /\ conn'[c].change = conn[c].change
<1>0. conn \in [Conn -> Reader]
  BY DEF TypeOK, Reader
<1>1. ASSUME NEW c \in Conn,
             \/ Refuse(c) \/ Answer(c) \/ Switch(c) \/ NoReply(c) \/ SwitchPosts(c)
             \/ SwitchGivesUp(c) \/ ReadFails(c) \/ ReaderLocks(c) \/ Subscribe(c) \/ Unsub(c)
             \/ Accept(c) \/ RegisterConn(c) \/ StoreId(c) \/ Writes(c) \/ WriteFails(c)
             \/ CloseConn(c)
      PROVE  changes' = changes /\ Kept
  <2>1. conn[c].at # "announce" /\ \A d \in Conn \ {c} : conn'[d] = conn[d]
    BY <1>0, <1>1 DEF Refuse, Answer, Switch, NoReply, SwitchPosts, SwitchGivesUp, ReadFails,
       ReaderLocks, Subscribe, Unsub, Accept, RegisterConn, StoreId, Writes, WriteFails,
       AfterWrite, CloseConn, ReadsRequest, Move
  <2>2. changes' = changes
    BY <1>1 DEF Refuse, Answer, Switch, NoReply, SwitchPosts, SwitchGivesUp, ReadFails,
       ReaderLocks, Subscribe, Unsub, Accept, RegisterConn, StoreId, Writes, WriteFails,
       CloseConn
  <2> QED BY <2>1, <2>2
<1>2. ASSUME NEW c \in Conn, PeerLeaves(c) \/ CloseOne(c) PROVE changes' = changes /\ Kept
  BY <1>0, <1>2 DEF PeerLeaves, CloseOne, Reader
<1>3. ASSUME NEW b \in Casters, NEW c \in Conn, CloseBySubscriberID(b, c)
      PROVE  changes' = changes /\ Kept
  <2>1. changes' = changes
    BY <1>3 DEF CloseBySubscriberID
  <2> QED BY <1>3, <2>1, CloseEffect
<1>4. ASSUME \/ UNCHANGED vars \/ Publish \/ BridgeSubscribes \/ BridgeReceives \/ BridgeStops
             \/ ShutdownMachine \/ Close \/ (\E b \in Casters, d \in Conn : Offer(b, d))
             \/ \E d \in Conn : WriterTakes(d) \/ WriterLocks(d) \/ WriterWrites(d) \/ WriterEnds(d)
      PROVE  changes' = changes /\ Kept
  BY <1>4 DEF vars, Publish, BridgeSubscribes, BridgeReceives, BridgeStops, ShutdownMachine,
     Close, Offer, WriterTakes, WriterLocks, WriterWrites, WriterEnds
<1> QED
  BY <1>1, <1>2, <1>3, <1>4 DEF Next, Request, Serve, WriterLoop, BroadcastStep, MainCloses

(* A steady subscriber has, or is still to be sent, all that it had.        *)
LEMMA KeptStep ==
    ASSUME TypeOK, Stages, Loops, Casts, [Next]_vars, NEW c \in Conn, Steady(c)', Steady(c)
    PROVE  Reached(c) \subseteq Reached(c)'
<1>1. CASE Still
  BY <1>1, StillReached
<1>2. ASSUME NEW b \in Casters, NEW d \in Conn, Offer(b, d) PROVE Reached(c) \subseteq Reached(c)'
  BY <1>2, OfferReached
<1>3. ASSUME NEW b \in Casters, NEW d \in Conn, CloseBySubscriberID(b, d)
      PROVE  Reached(c) \subseteq Reached(c)'
  <2>1. d # c
    BY <1>3, CloseEffect DEF Steady
  <2> QED BY <1>3, <2>1, CloseReached
<1>4. ASSUME NEW d \in Conn, WriterTakes(d) \/ WriterWrites(d)
      PROVE  Reached(c) \subseteq Reached(c)'
  BY <1>4, WriterReached
<1>5. ASSUME NEW d \in Conn, WriterEnds(d) PROVE Reached(c) \subseteq Reached(c)'
  <2>1. d # c
    BY <1>5 DEF WriterEnds, Steady, Broken
  <2> QED BY <1>5, <2>1, EndReached
<1>6. ASSUME NEW d \in Conn, Announce(d) PROVE Reached(c) \subseteq Reached(c)'
  <2>1. /\ cast[d] = Idle /\ Broadcast(d, Change(conn[d].change))
        /\ UNCHANGED <<sent, writer, queue>>
    BY <1>6 DEF Announce, Casts, wire
  <2>2. Change(conn[d].change) \in Event /\ d \in Casters
    BY DEF Change, Event, TypeOK, Casters
  <2> QED BY <2>1, <2>2, BroadcastReached
<1>7. CASE BridgeReceives
  <2>1. /\ cast[Bridge] = Idle /\ feed # <<>> /\ Broadcast(Bridge, State(Head(feed)))
        /\ UNCHANGED <<sent, writer, queue>>
    BY <1>7 DEF BridgeReceives, wire
  <2>2. State(Head(feed)) \in Event /\ Bridge \in Casters
    BY <2>1, TailElems DEF State, Event, TypeOK, Casters
  <2> QED BY <2>1, <2>2, BroadcastReached
<1> QED BY <1>1, <1>2, <1>3, <1>4, <1>5, <1>6, <1>7, StillStep

(* Of the statuses and of the changes, by the step that makes a new one or  *)
(* moves one.                                                               *)
StatusThere(c, n) == n \in lost \/ State(n) \in Reached(c) \/ n \in Elems(feed)
ChangeThere(c, n) == \/ Change(n) \in Reached(c)
                     \/ \E d \in Conn : conn[d].at = "announce" /\ conn[d].change = n

LEMMA NoGapDef ==
    NoGap <=> \A c \in Conn : Steady(c) =>
                  /\ \A n \in since[c].status + 1 .. status : StatusThere(c, n)
                  /\ \A n \in since[c].changes + 1 .. changes : ChangeThere(c, n)
BY DEF NoGap, StatusThere, ChangeThere, Elems

LEMMA StatusStep ==
    ASSUME TypeOK, Stages, Loops, Casts, [Next]_vars, NEW c \in Conn, Steady(c)', Steady(c),
           NEW n \in Nat, n <= status => StatusThere(c, n), n <= status'
    PROVE  StatusThere(c, n)'
<1>0. status \in Nat /\ feed \in Seq(Nat)
  BY DEF TypeOK
<1>1. Reached(c) \subseteq Reached(c)'
  BY KeptStep
<1>2. CASE UNCHANGED <<feed, status, lost>>
  BY <1>1, <1>2 DEF StatusThere, Elems
<1>3. CASE Publish
  <2>1. /\ status' = status + 1
        /\ \/ feed' = Append(feed, status + 1) /\ lost' = lost
           \/ feed' = feed /\ lost' = lost \cup {status + 1}
    BY <1>3 DEF Publish
  <2>2. Elems(Append(feed, status + 1)) = Elems(feed) \cup {status + 1}
    BY <1>0, AppendElems
  <2>3. n <= status \/ n = status + 1
    BY <1>0, <2>1
  <2>4. Elems(feed)' = Elems(feed')
    BY DEF Elems
  <2> QED BY <1>1, <2>1, <2>2, <2>3, <2>4 DEF StatusThere
<1>4. CASE BridgeReceives
  <2>1. /\ cast[Bridge] = Idle /\ feed # <<>> /\ feed' = Tail(feed)
        /\ Broadcast(Bridge, State(Head(feed)))
        /\ UNCHANGED <<sent, writer, queue, status, lost>>
    BY <1>4 DEF BridgeReceives, wire
  <2>2. State(Head(feed)) \in Event /\ Bridge \in Casters
    BY <1>0, <2>1, TailElems DEF State, Event, Casters
  <2>3. State(Head(feed)) \in Reached(c)'
    BY <2>1, <2>2, BroadcastReached DEF Steady
  <2>4. Elems(feed) = {Head(feed)} \cup Elems(feed')
    BY <1>0, <2>1, TailElems
  <2>5. Elems(feed)' = Elems(feed')
    BY DEF Elems
  <2> QED BY <1>1, <2>1, <2>3, <2>4, <2>5 DEF StatusThere
<1> QED BY <1>2, <1>3, <1>4, FeedStep

LEMMA ChangeStep ==
    ASSUME TypeOK, Stages, Loops, Casts, [Next]_vars, NEW c \in Conn, Steady(c)', Steady(c),
           NEW n \in Nat, n <= changes => ChangeThere(c, n), n <= changes'
    PROVE  ChangeThere(c, n)'
<1>0. changes \in Nat /\ conn \in [Conn -> Reader]
  BY DEF TypeOK, Reader
<1>1. Reached(c) \subseteq Reached(c)'
  BY KeptStep
<1>2. CASE /\ changes' = changes
           /\ \A d \in Conn : conn[d].at = "announce" =>
                  conn'[d].at = "announce" /\ conn'[d].change = conn[d].change
  BY <1>1, <1>2 DEF ChangeThere, Change
<1>3. ASSUME NEW d \in Conn, ChangeConfigs(d) PROVE ChangeThere(c, n)'
  <2>1. /\ changes' = changes + 1 /\ conn[d].at = "serve"
        /\ conn'[d].at = "announce" /\ conn'[d].change = changes + 1
        /\ \A e \in Conn \ {d} : conn'[e] = conn[e]
    BY <1>0, <1>3 DEF ChangeConfigs, ReadsRequest, Reader
  <2>2. n <= changes \/ n = changes + 1
    BY <1>0, <2>1
  <2> QED BY <1>1, <2>1, <2>2 DEF ChangeThere, Change
<1>4. ASSUME NEW d \in Conn, Announce(d) PROVE ChangeThere(c, n)'
  <2>1. /\ changes' = changes /\ cast[d] = Idle /\ Broadcast(d, Change(conn[d].change))
        /\ UNCHANGED <<sent, writer, queue>>
        /\ \A e \in Conn \ {d} : conn'[e] = conn[e]
    BY <1>0, <1>4 DEF Announce, Casts, wire
  <2>2. Change(conn[d].change) \in Event /\ d \in Casters
    BY <1>0 DEF Change, Event, Reader, Casters
  <2>3. Change(conn[d].change) \in Reached(c)'
    BY <2>1, <2>2, BroadcastReached DEF Steady
  <2> QED BY <1>1, <2>1, <2>3 DEF ChangeThere, Change
<1> QED BY <1>2, <1>3, <1>4, AnnounceStep

LEMMA NoGapStep == ASSUME TypeOK, TypeOK', Stages, Loops, Casts, NoGap, [Next]_vars PROVE NoGap'
<1>0. /\ status \in Nat /\ status' \in Nat /\ changes \in Nat /\ changes' \in Nat
      /\ \A c \in Conn : /\ since[c].status \in Nat /\ since[c].changes \in Nat
                         /\ since'[c].status \in Nat /\ since'[c].changes \in Nat
  BY DEF TypeOK
<1>1. SUFFICES ASSUME NEW c \in Conn, Steady(c)'
               PROVE  /\ \A n \in since'[c].status + 1 .. status' : StatusThere(c, n)'
                      /\ \A n \in since'[c].changes + 1 .. changes' : ChangeThere(c, n)'
  <2>1. NoGap' <=> \A c \in Conn : Steady(c)' =>
                  /\ \A n \in since'[c].status + 1 .. status' : StatusThere(c, n)'
                  /\ \A n \in since'[c].changes + 1 .. changes' : ChangeThere(c, n)'
    BY DEF NoGap, StatusThere, ChangeThere, Elems
  <2> QED BY <2>1
<1>2. CASE Steady(c) /\ since'[c] = since[c]
  <2>1. /\ \A n \in since[c].status + 1 .. status : StatusThere(c, n)
        /\ \A n \in since[c].changes + 1 .. changes : ChangeThere(c, n)
    BY <1>2, NoGapDef
  <2>2. ASSUME NEW n \in since'[c].status + 1 .. status' PROVE StatusThere(c, n)'
    <3>1. n \in Nat /\ n <= status' /\ (n <= status => StatusThere(c, n))
      BY <1>0, <1>2, <2>1
    <3> QED BY <1>1, <1>2, <3>1, StatusStep
  <2>3. ASSUME NEW n \in since'[c].changes + 1 .. changes' PROVE ChangeThere(c, n)'
    <3>1. n \in Nat /\ n <= changes' /\ (n <= changes => ChangeThere(c, n))
      BY <1>0, <1>2, <2>1
    <3> QED BY <1>1, <1>2, <3>1, ChangeStep
  <2> QED BY <2>2, <2>3
<1>3. CASE Subscribe(c)
  <2>1. /\ since'[c].status = status /\ since'[c].changes = changes
        /\ status' = status /\ changes' = changes
    BY <1>3 DEF Subscribe, tunnel, TypeOK
  <2> QED BY <1>0, <2>1
<1> QED BY <1>1, <1>2, <1>3, SteadyStep
-----------------------------------------------------------------------------
(* The order, as a relation of the five places that a status goes through.  *)
Chain(S, W, Q, O, F) ==
    /\ Precede(S, W) /\ Precede(S, Q) /\ Precede(S, O) /\ Precede(S, F)
    /\ Precede(W, Q) /\ Precede(W, O) /\ Precede(W, F)
    /\ Precede(Q, O) /\ Precede(Q, F)
    /\ Precede(O, F)

Rising(s) == \A i, j \in DOMAIN s : i < j => s[i] < s[j]
RisingEvents(s) ==
    \A i, j \in DOMAIN s : i < j => Precede(StatesOf({s[i]}), StatesOf({s[j]}))

Places(c) == Chain(StatesOf(sent[c]), StatesOf(writer[c].events), StatesOf(Elems(queue[c])),
                   StatesOf(Offered(Bridge, c)), Elems(feed))

LEMMA InOrderDef ==
    /\ InOrder <=> \A c \in Conn : Places(c) /\ Rising(feed) /\ RisingEvents(queue[c])
    /\ InOrder' <=> \A c \in Conn : Places(c)' /\ Rising(feed') /\ RisingEvents(queue'[c])
BY DEF InOrder, Places, Chain, Precede, Rising, RisingEvents, Queued, Elems

LEMMA StatesUnion ==
    /\ \A A, B : StatesOf(A \cup B) = StatesOf(A) \cup StatesOf(B)
    /\ StatesOf({}) = {}
    /\ \A e : e.kind = "Configs.Changed" => StatesOf({e}) = {}
    /\ \A n : StatesOf({State(n)}) = {n}
<1>1. \A n : State(n).kind = "State.Changed" /\ State(n).n = n
  BY DEF State
<1> QED BY <1>1 DEF StatesOf

(* The events of a step stay in order, place by place.                      *)
LEMMA InOrderStep ==
    ASSUME TypeOK, Stages, Loops, Casts, Numbers, InOrder, [Next]_vars
    PROVE  InOrder'
<1>0. /\ queue \in [Conn -> Seq(Event)] /\ feed \in Seq(Nat) /\ status \in Nat
      /\ writer \in [Conn -> Loop] /\ sent \in [Conn -> SUBSET Event]
      /\ Bridge \in Casters /\ Bridge \notin Conn /\ Conn \subseteq Casters
  BY IpcAssumption DEF TypeOK, Casters, Loop
<1>1. ASSUME NEW c \in Conn PROVE Places(c) /\ Rising(feed) /\ RisingEvents(queue[c])
  BY InOrderDef
<1>2. ASSUME Still, UNCHANGED feed PROVE InOrder'
  BY <1>1, <1>2, InOrderDef DEF Still, Places, Offered
<1>3. ASSUME Still, Publish PROVE InOrder'
  <2>1. feed' = Append(feed, status + 1) \/ feed' = feed
    BY <1>3 DEF Publish
  <2>2. CASE feed' = feed
    BY <1>2, <1>3, <2>2
  <2>3. CASE feed' = Append(feed, status + 1)
    <3>1. /\ Elems(feed') = Elems(feed) \cup {status + 1}
          /\ \A i \in DOMAIN feed : feed'[i] = feed[i] /\ feed[i] \in Nat /\ feed[i] <= status
          /\ feed'[Len(feed) + 1] = status + 1
          /\ DOMAIN feed' = 1 .. Len(feed) + 1 /\ DOMAIN feed = 1 .. Len(feed)
          /\ Len(feed) \in Nat
      <4>1. /\ Elems(Append(feed, status + 1)) = Elems(feed) \cup {status + 1}
            /\ \A i \in DOMAIN feed : Append(feed, status + 1)[i] = feed[i]
            /\ Append(feed, status + 1)[Len(feed) + 1] = status + 1
            /\ DOMAIN Append(feed, status + 1) = 1 .. Len(feed) + 1
            /\ DOMAIN feed = 1 .. Len(feed) /\ Len(feed) \in Nat
        <5>1. status + 1 \in Nat /\ feed \in Seq(Nat)
          BY <1>0
        <5>2. ASSUME NEW s \in Seq(Nat), NEW n \in Nat
              PROVE  /\ Elems(Append(s, n)) = Elems(s) \cup {n}
                     /\ \A i \in DOMAIN s : Append(s, n)[i] = s[i]
                     /\ Append(s, n)[Len(s) + 1] = n
                     /\ DOMAIN Append(s, n) = 1 .. Len(s) + 1
                     /\ DOMAIN s = 1 .. Len(s) /\ Len(s) \in Nat
          BY AppendElems
        <5> QED BY <5>1, <5>2
      <4>2. \A i \in DOMAIN feed : feed[i] \in Nat /\ feed[i] <= status
        BY <1>0, <4>1, ElementOfSeq DEF Numbers
      <4> QED BY <2>3, <4>1, <4>2
    <3>2. ASSUME NEW c \in Conn PROVE Rising(feed')
      <4>1. Rising(feed)
        BY <1>1
      <4>2. SUFFICES ASSUME NEW i \in DOMAIN feed', NEW j \in DOMAIN feed', i < j
                     PROVE  feed'[i] < feed'[j]
        BY DEF Rising
      <4>3. i \in DOMAIN feed /\ (j \in DOMAIN feed \/ j = Len(feed) + 1)
        BY <3>1, <4>2
      <4>4. CASE j \in DOMAIN feed
        BY <3>1, <4>1, <4>2, <4>3, <4>4 DEF Rising
      <4>5. CASE j = Len(feed) + 1
        BY <1>0, <3>1, <4>3, <4>5
      <4> QED BY <4>3, <4>4, <4>5
    <3>3. ASSUME NEW c \in Conn PROVE Places(c)'
      <4>1. \A m \in StatesOf(Reached(c)) : m \in Nat /\ m <= status
        BY ReachedType DEF StatesOf, Numbers, Event
      <4>2. /\ StatesOf(sent[c]) \subseteq StatesOf(Reached(c))
            /\ StatesOf(writer[c].events) \subseteq StatesOf(Reached(c))
            /\ StatesOf(Elems(queue[c])) \subseteq StatesOf(Reached(c))
            /\ StatesOf(Offered(Bridge, c)) \subseteq StatesOf(Reached(c))
        BY <1>0, ReachedDef DEF StatesOf
      <4>3. \A m \in StatesOf(Reached(c)) : m < status + 1
        BY <1>0, <4>1
      <4>4. Chain(StatesOf(sent[c]), StatesOf(writer[c].events), StatesOf(Elems(queue[c])),
                  StatesOf(Offered(Bridge, c)), Elems(feed'))
        BY <1>1, <3>1, <4>2, <4>3 DEF Places, Chain, Precede
      <4> QED BY <1>3, <4>4 DEF Still, Places, Offered, Elems
    <3>4. \A c \in Conn : RisingEvents(queue'[c])
      BY <1>1, <1>3 DEF Still
    <3> QED BY <3>2, <3>3, <3>4, InOrderDef
  <2> QED BY <2>1, <2>2, <2>3
<1>4. ASSUME NEW b \in Casters, NEW c \in Conn, Offer(b, c), UNCHANGED feed PROVE InOrder'
  <2>1. UNCHANGED <<sent, writer>>
    BY <1>4 DEF Offer, wire
  <2>2. \A d \in Conn : d # c => Offered(Bridge, d)' = Offered(Bridge, d)
    BY <1>0, <1>4, OfferEffect
  <2>3. CASE queue' = queue /\ Offered(b, c)' = Offered(b, c)
    <3>1. \A d \in Conn : Offered(Bridge, d)' = Offered(Bridge, d)
      BY <1>0, <1>4, <2>2, <2>3, OfferEffect
    <3> QED BY <1>1, <1>4, <2>1, <2>3, <3>1, InOrderDef DEF Places, Elems
  <2>4. CASE \E e \in Event : /\ Offered(b, c) = {e} /\ Offered(b, c)' = {}
                              /\ queue' = [queue EXCEPT ![c] = Append(@, e)]
    <3>1. PICK e \in Event : /\ Offered(b, c) = {e} /\ Offered(b, c)' = {}
                             /\ queue' = [queue EXCEPT ![c] = Append(queue[c], e)]
      BY <2>4
    <3>2. /\ queue'[c] = Append(queue[c], e) /\ queue[c] \in Seq(Event)
          /\ \A d \in Conn \ {c} : queue'[d] = queue[d]
      BY <1>0, <3>1
    <3>3. /\ Elems(queue'[c]) = Elems(queue[c]) \cup {e}
          /\ \A i \in DOMAIN queue[c] : queue'[c][i] = queue[c][i]
          /\ queue'[c][Len(queue[c]) + 1] = e
          /\ DOMAIN queue'[c] = 1 .. Len(queue[c]) + 1
          /\ DOMAIN queue[c] = 1 .. Len(queue[c]) /\ Len(queue[c]) \in Nat
      BY <3>2, AppendElems
    <3>4. \/ StatesOf({e}) = {} /\ Offered(Bridge, c)' = Offered(Bridge, c)
          \/ StatesOf({e}) = StatesOf(Offered(Bridge, c)) /\ Offered(Bridge, c)' = {}
      <4>1. CASE b = Bridge
        BY <3>1, <4>1
      <4>2. CASE b # Bridge
        <5>1. b \in Conn /\ e \in cast[b].events
          BY <3>1, <4>2 DEF Casters, Offered
        <5>2. StatesOf({e}) = {}
          BY <5>1, StatesUnion DEF Casts
        <5>3. Offered(Bridge, c)' = Offered(Bridge, c)
          BY <1>0, <1>4, <4>2, OfferEffect
        <5> QED BY <5>2, <5>3
      <4> QED BY <4>1, <4>2
    <3>5. Places(c) /\ RisingEvents(queue[c]) /\ Rising(feed)
      BY <1>1
    <3>6. Places(c)'
      <4>1. Chain(StatesOf(sent[c]), StatesOf(writer[c].events),
                  StatesOf(Elems(queue[c])) \cup StatesOf({e}),
                  StatesOf(Offered(Bridge, c)'), Elems(feed))
        <5>1. StatesOf({}) = {}
          BY StatesUnion
        <5> QED BY <3>4, <3>5, <5>1 DEF Places, Chain, Precede
      <4>2. StatesOf(Elems(queue'[c])) = StatesOf(Elems(queue[c])) \cup StatesOf({e})
        BY <3>3, StatesUnion
      <4> QED BY <1>4, <2>1, <4>1, <4>2 DEF Places, Elems, Offered, StatesOf
    <3>7. RisingEvents(queue'[c])
      <4>1. Precede(StatesOf(Elems(queue[c])), StatesOf({e}))
        BY <3>4, <3>5 DEF Places, Chain, Precede
      <4>2. \A i \in DOMAIN queue[c] : StatesOf({queue[c][i]}) \subseteq StatesOf(Elems(queue[c]))
        BY DEF StatesOf, Elems
      <4>3. ASSUME NEW i \in DOMAIN queue'[c], NEW j \in DOMAIN queue'[c], i < j
            PROVE  Precede(StatesOf({queue'[c][i]}), StatesOf({queue'[c][j]}))
        <5>1. CASE j \in DOMAIN queue[c]
          <6>1. i \in DOMAIN queue[c]
            BY <3>3, <4>3, <5>1
          <6> QED BY <3>3, <3>5, <4>3, <5>1, <6>1 DEF RisingEvents
        <5>2. CASE j \notin DOMAIN queue[c]
          <6>1. j = Len(queue[c]) + 1 /\ i \in DOMAIN queue[c]
            BY <3>3, <4>3, <5>2
          <6> QED BY <3>3, <4>1, <4>2, <6>1 DEF Precede
        <5> QED BY <5>1, <5>2
      <4> QED BY <4>3 DEF RisingEvents
    <3>8. \A d \in Conn \ {c} : Places(d)' /\ RisingEvents(queue'[d])
      <4>1. \A d \in Conn \ {c} : Places(d) /\ RisingEvents(queue[d])
        BY <1>1
      <4> QED BY <1>4, <2>1, <2>2, <3>2, <4>1 DEF Places, Elems
    <3> QED BY <1>4, <3>5, <3>6, <3>7, <3>8, InOrderDef
  <2> QED BY <1>4, <2>3, <2>4, OfferEffect
<1>5. ASSUME NEW b \in Casters, NEW c \in Conn, CloseBySubscriberID(b, c), UNCHANGED feed
      PROVE  InOrder'
  <2>1. UNCHANGED <<sent, writer, queue>>
    BY <1>5 DEF CloseBySubscriberID, wire
  <2>2. \A d \in Conn : Offered(Bridge, d)' \subseteq Offered(Bridge, d)
    <3>1. /\ \A a \in Casters, d \in Conn : a # b \/ d # c => Offered(a, d)' = Offered(a, d)
          /\ Offered(b, c)' = {}
      BY <1>5, CloseEffect
    <3> QED BY <1>0, <3>1
  <2>3. \A d \in Conn : StatesOf(Offered(Bridge, d)') \subseteq StatesOf(Offered(Bridge, d))
    BY <2>2 DEF StatesOf
  <2>4. ASSUME NEW d \in Conn PROVE Places(d)'
    <3>1. Chain(StatesOf(sent[d]), StatesOf(writer[d].events), StatesOf(Elems(queue[d])),
                StatesOf(Offered(Bridge, d)'), Elems(feed))
      BY <1>1, <2>3 DEF Places, Chain, Precede
    <3> QED BY <1>5, <2>1, <3>1 DEF Places, Elems, Offered, StatesOf
  <2> QED BY <1>1, <1>5, <2>1, <2>4, InOrderDef
<1>6. ASSUME NEW c \in Conn, Announce(c), UNCHANGED feed PROVE InOrder'
  <2>1. /\ cast[c] = Idle /\ Broadcast(c, Change(conn[c].change))
        /\ UNCHANGED <<sent, writer, queue>>
    BY <1>6 DEF Announce, Casts, wire
  <2>2. Change(conn[c].change) \in Event /\ Bridge # c
    BY <1>0 DEF Change, Event, TypeOK
  <2>3. \A d \in Conn : Offered(Bridge, d)' = Offered(Bridge, d)
    BY <1>0, <2>1, <2>2, BroadcastEffect
  <2> QED BY <1>1, <1>6, <2>1, <2>3, InOrderDef DEF Places, Elems
<1>7. CASE BridgeReceives
  <2>1. /\ cast[Bridge] = Idle /\ feed # <<>> /\ feed' = Tail(feed)
        /\ Broadcast(Bridge, State(Head(feed)))
        /\ UNCHANGED <<sent, writer, queue>>
    BY <1>7 DEF BridgeReceives, wire
  <2>2. /\ Elems(feed) = {Head(feed)} \cup Elems(feed') /\ Head(feed) = feed[1]
        /\ \A i \in DOMAIN feed' : feed'[i] = feed[i + 1] /\ i + 1 \in DOMAIN feed /\ i \in Nat \ {0}
        /\ 1 \in DOMAIN feed /\ Head(feed) \in Nat
    BY <1>0, <2>1, TailElems
  <2>3. State(Head(feed)) \in Event
    BY <2>2 DEF State, Event
  <2>4. \A d \in Conn : /\ Offered(Bridge, d) = {}
                        /\ Offered(Bridge, d)' \in {{State(Head(feed))}, {}}
    BY <1>0, <2>1, <2>3, BroadcastEffect
  <2>5. ASSUME NEW d \in Conn PROVE Rising(feed') /\ Places(d)'
    <3>1. Rising(feed) /\ Places(d)
      BY <1>1
    <3>2. Rising(feed')
      BY <2>2, <3>1 DEF Rising
    <3>3. \A n \in Elems(feed') : Head(feed) < n
      BY <2>2, <3>1 DEF Rising, Elems
    <3>4. StatesOf(Offered(Bridge, d)') \subseteq {Head(feed)}
      BY <2>4, StatesUnion
    <3>5. Chain(StatesOf(sent[d]), StatesOf(writer[d].events), StatesOf(Elems(queue[d])),
                StatesOf(Offered(Bridge, d)'), Elems(feed'))
      BY <2>2, <3>1, <3>3, <3>4 DEF Places, Chain, Precede
    <3> QED BY <2>1, <3>2, <3>5 DEF Places, Elems, Offered, StatesOf
  <2> QED BY <1>1, <2>1, <2>5, InOrderDef
<1>8. ASSUME NEW c \in Conn, WriterTakes(c), UNCHANGED feed PROVE InOrder'
  <2>1. queue[c] \in Seq(Event) /\ queue[c] # <<>>
    BY <1>0, <1>8 DEF WriterTakes
  <2>2. /\ queue'[c] = Tail(queue[c]) /\ \A d \in Conn \ {c} : queue'[d] = queue[d]
        /\ writer[c].events = {} /\ writer'[c].events = {Head(queue[c])}
        /\ \A d \in Conn \ {c} : writer'[d] = writer[d]
        /\ UNCHANGED <<sent, cast>>
    BY <1>0, <1>8 DEF WriterTakes, Loops, Loop
  <2>3. /\ Elems(queue[c]) = {Head(queue[c])} \cup Elems(queue'[c])
        /\ Head(queue[c]) = queue[c][1]
        /\ \A i \in DOMAIN queue'[c] : /\ queue'[c][i] = queue[c][i + 1]
                                       /\ i + 1 \in DOMAIN queue[c] /\ i \in Nat \ {0}
        /\ 1 \in DOMAIN queue[c]
    BY <2>1, <2>2, TailElems
  <2>4. Places(c) /\ RisingEvents(queue[c])
    BY <1>1
  <2>5. RisingEvents(queue'[c])
    <3>1. SUFFICES ASSUME NEW i \in DOMAIN queue'[c], NEW j \in DOMAIN queue'[c], i < j
                   PROVE  Precede(StatesOf({queue'[c][i]}), StatesOf({queue'[c][j]}))
      BY DEF RisingEvents
    <3>2. /\ i + 1 \in DOMAIN queue[c] /\ j + 1 \in DOMAIN queue[c] /\ i + 1 < j + 1
          /\ queue'[c][i] = queue[c][i + 1] /\ queue'[c][j] = queue[c][j + 1]
      BY <2>3, <3>1
    <3>3. Precede(StatesOf({queue[c][i + 1]}), StatesOf({queue[c][j + 1]}))
      BY <2>4, <3>2 DEF RisingEvents
    <3> QED BY <3>2, <3>3
  <2>6. Precede(StatesOf({Head(queue[c])}), StatesOf(Elems(queue'[c])))
    <3>1. SUFFICES ASSUME NEW i \in DOMAIN queue'[c], queue'[c][i].kind = "State.Changed",
                          NEW m \in StatesOf({Head(queue[c])})
                   PROVE  m < queue'[c][i].n
      BY DEF Precede, StatesOf, Elems
    <3>2. Precede(StatesOf({queue[c][1]}), StatesOf({queue[c][i + 1]}))
      <4>1. 1 \in DOMAIN queue[c] /\ i + 1 \in DOMAIN queue[c] /\ 1 < i + 1
        BY <2>3
      <4> QED BY <2>4, <4>1 DEF RisingEvents
    <3>3. queue'[c][i].n \in StatesOf({queue[c][i + 1]})
      BY <2>3, <3>1 DEF StatesOf
    <3> QED BY <2>3, <3>1, <3>2, <3>3 DEF Precede
  <2>7. StatesOf(Elems(queue[c])) = StatesOf({Head(queue[c])}) \cup StatesOf(Elems(queue'[c]))
    BY <2>3, StatesUnion
  <2>8. Chain(StatesOf(sent[c]), StatesOf({Head(queue[c])}), StatesOf(Elems(queue'[c])),
              StatesOf(Offered(Bridge, c)), Elems(feed))
    BY <2>4, <2>6, <2>7 DEF Places, Chain, Precede
  <2>9. Places(c)'
    BY <1>8, <2>2, <2>8 DEF Places, Elems, Offered, StatesOf
  <2>10. \A d \in Conn \ {c} : Places(d)' /\ RisingEvents(queue'[d])
    <3>1. \A d \in Conn \ {c} : Places(d) /\ RisingEvents(queue[d])
      BY <1>1
    <3>2. ASSUME NEW d \in Conn \ {c} PROVE Places(d)' /\ RisingEvents(queue'[d])
      <4>1. /\ queue'[d] = queue[d] /\ writer'[d] = writer[d]
            /\ UNCHANGED <<sent, cast, feed>>
        BY <1>8, <2>2
      <4>2. Places(d)' = Places(d)
        BY <4>1 DEF Places, Elems, Offered
      <4> QED BY <3>1, <4>1, <4>2
    <3> QED BY <3>2
  <2> QED BY <1>1, <1>8, <2>5, <2>9, <2>10, InOrderDef
<1>9. ASSUME NEW c \in Conn, WriterWrites(c) \/ WriterEnds(c), UNCHANGED feed PROVE InOrder'
  <2>1. /\ sent'[c] \in {sent[c], sent[c] \cup writer[c].events} /\ writer'[c].events = {}
        /\ \A d \in Conn \ {c} : writer'[d] = writer[d] /\ sent'[d] = sent[d]
        /\ UNCHANGED <<queue, cast>>
    BY <1>0, <1>9 DEF WriterWrites, WriterEnds, fanout, Loop
  <2>2. Places(c)
    BY <1>1
  <2>3. /\ StatesOf(sent'[c]) \subseteq StatesOf(sent[c]) \cup StatesOf(writer[c].events)
        /\ StatesOf(writer'[c].events) = {}
    BY <2>1, StatesUnion
  <2>4. Chain(StatesOf(sent'[c]), StatesOf(writer'[c].events), StatesOf(Elems(queue[c])),
              StatesOf(Offered(Bridge, c)), Elems(feed))
    BY <2>2, <2>3 DEF Places, Chain, Precede
  <2>5. Places(c)'
    BY <1>9, <2>1, <2>4 DEF Places, Elems, Offered, StatesOf
  <2>6. \A d \in Conn \ {c} : Places(d)'
    <3>1. \A d \in Conn \ {c} : Places(d)
      BY <1>1
    <3> QED BY <1>9, <2>1, <3>1 DEF Places, Elems, Offered
  <2> QED BY <1>1, <1>9, <2>1, <2>5, <2>6, InOrderDef
<1>10. Publish => Still
  BY DEF Publish, fanout, wire, Still
<1> QED
  BY <1>2, <1>3, <1>4, <1>5, <1>6, <1>7, <1>8, <1>9, <1>10, StillStep, FeedStep

-----------------------------------------------------------------------------
(* The inductive invariant holds in every reachable state.                  *)
THEOREM Invariant == Spec => []IInv
<1>1. IInv /\ [Next]_vars => IInv'
  BY TypeStep, StagesStep, LoopsStep, CastsStep, NumbersStep, NoGapStep, InOrderStep DEF IInv
<1> QED BY Initial, <1>1, PTL DEF Spec

(* Type correctness, with the bounds on both queues.                        *)
THEOREM TypeCorrect == Spec => []TypeOK
<1>1. IInv => TypeOK
  BY DEF IInv
<1> QED BY Invariant, <1>1, PTL

(* A subscriber whose connection stays open has, or is still to be sent,    *)
(* every change since it subscribed, whatever the bridge's channel holds    *)
(* back and however slow it is.                                             *)
THEOREM NothingMissed == Spec => []NoGap
<1>1. IInv => NoGap
  BY DEF IInv
<1> QED BY Invariant, <1>1, PTL

(* Statuses reach every connection in the order of the transitions, each at *)
(* most once.                                                               *)
THEOREM StatusesInOrder == Spec => []InOrder
<1>1. IInv => InOrder
  BY DEF IInv
<1> QED BY Invariant, <1>1, PTL
=============================================================================

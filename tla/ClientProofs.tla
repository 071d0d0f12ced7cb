---------------------------- MODULE ClientProofs ----------------------------
(***************************************************************************)
(* Proofs about Client, for any number of connections, calls and events:   *)
(* type correctness, that no call is left hanging and none is resolved but *)
(* by its answer, that the heartbeat is the connection's, and that no more *)
(* than the first line of a connection is lost.                            *)
(***************************************************************************)
EXTENDS Client, SequenceTheorems, TLAPS

Live == {"open", "ended", "failed", "destroyed"}

Numbered ==
    /\ \A k \in Socket : state[k] # "none" => k <= socks
    /\ \A k \in read : k <= socks

(* Of all sockets the newest alone may have events still to come, and the   *)
(* application has been told that it is open.                               *)
Newest ==
    \A k \in Socket :
        /\ state[k] \in Live => k = socks /\ told = "open" /\ timer \in {0, k}
        /\ state[k] = "connecting" => k = socks /\ told # "open"

Stopped ==
    /\ told # "open" => timer \in {0} \cup errored
    /\ ~heartbeat => timer = 0

(* The frames on their way are events and answers that have been given.     *)
Answers == \A k \in Socket : down[k] \in Seq({0} \cup answered)

(* A socket that has been read from empties the buffer of what is not its.  *)
Buffered == socks \in read => buf \in {0, socks}

IInv == TypeOK /\ Numbered /\ Newest /\ Stopped /\ Answers /\ Buffered
            /\ CallsMatchPending /\ HeartbeatMatches /\ FramesWhole

-----------------------------------------------------------------------------
LEMMA SettleEffect ==
    ASSUME TypeOK, NEW ids, NEW outcome \in Outcome, Settle(ids, outcome)
    PROVE  /\ calls' \in Seq(Call) /\ Len(calls') = Len(calls)
           /\ pending' = pending \ ids
           /\ \A i \in CallId :
                  calls'[i].outcome = IF i \in ids THEN outcome ELSE calls[i].outcome
<1>1. Len(calls) \in Nat /\ \A i \in CallId : calls[i] \in Call
  BY DEF TypeOK, CallId
<1>2. \A i \in CallId : [calls[i] EXCEPT !.outcome = outcome] \in Call
  BY <1>1 DEF Call
<1>3. calls' \in [1 .. Len(calls) -> Call]
  BY <1>1, <1>2 DEF Settle, CallId
<1>4. calls' \in Seq(Call) /\ Len(calls') = Len(calls)
  BY <1>1, <1>3
<1>5. \A i \in CallId :
          calls'[i].outcome = IF i \in ids THEN outcome ELSE calls[i].outcome
  BY <1>1 DEF Settle, Call
<1> QED BY <1>4, <1>5 DEF Settle

LEMMA SendEffect ==
    ASSUME TypeOK, socket # 0, NEW ping \in BOOLEAN, Send(ping)
    PROVE  /\ calls' \in Seq(Call) /\ Len(calls') = Len(calls) + 1 /\ Len(calls) \in Nat
           /\ pending' = pending \cup {Len(calls) + 1}
           /\ calls'[Len(calls) + 1].outcome = "waiting"
           /\ \A i \in CallId : calls'[i] = calls[i]
           /\ up' \in [Socket -> Seq(1 .. Len(calls) + 1)]
<1> DEFINE new == [sock |-> socket, ping |-> ping, outcome |-> "waiting"]
<1>1. socket \in Socket /\ Len(calls) \in Nat
  BY ClientAssumption DEF TypeOK, Socket
<1>2. new \in Call /\ new.outcome = "waiting"
  BY <1>1 DEF Call, Outcome
<1>3. /\ calls' = Append(calls, new) /\ calls \in Seq(Call)
      /\ pending' = pending \cup {Len(calls) + 1}
  BY DEF Send, TypeOK
<1> HIDE DEF new
<1>4. /\ calls' \in Seq(Call) /\ Len(calls') = Len(calls) + 1
      /\ calls'[Len(calls) + 1] = new
      /\ \A i \in CallId : calls'[i] = calls[i]
  BY <1>1, <1>2, <1>3 DEF CallId
<1>5. up' \in [Socket -> Seq(1 .. Len(calls) + 1)]
  <2>1. \A k \in Socket : up[k] \in Seq(1 .. Len(calls) + 1)
    <3> SUFFICES ASSUME NEW k \in Socket PROVE up[k] \in Seq(1 .. Len(calls) + 1)
      OBVIOUS
    <3>1. up[k] \in Seq(CallId) /\ CallId \subseteq 1 .. Len(calls) + 1
      BY <1>1 DEF TypeOK, CallId
    <3> QED BY <3>1, SeqMonotonic
  <2>2. Append(up[socket], Len(calls) + 1) \in Seq(1 .. Len(calls) + 1)
    BY <1>1, <2>1
  <2> QED BY <1>1, <2>1, <2>2 DEF Send, TypeOK
<1> QED BY <1>1, <1>2, <1>3, <1>4, <1>5

(* What a read does, besides taking the line.                               *)
LEMMA ReadEffect ==
    ASSUME TypeOK, Answers, NEW k \in Socket, ReadLine(k)
    PROVE  /\ down' = [down EXCEPT ![k] = Tail(@)] /\ down'[k] \in Seq({0} \cup answered)
           /\ Head(down[k]) \in {0} \cup answered
           /\ \/ UNCHANGED <<calls, pending>>
              \/ Settle({Head(down[k])}, "resolved")
           /\ \/ UNCHANGED lost
              \/ /\ buf \notin {0, k}
                 /\ lost' = lost \cup {[sock |-> k, first |-> k \notin read, half |-> buf]}
<1>1. down[k] \in Seq({0} \cup answered) /\ down[k] # <<>>
  BY DEF ReadLine, Readable, Answers
<1>2. Head(down[k]) \in {0} \cup answered /\ Tail(down[k]) \in Seq({0} \cup answered)
  BY <1>1, HeadTailProperties
<1> QED BY <1>2 DEF ReadLine, Handle, TypeOK

-----------------------------------------------------------------------------
(* No socket, no call: the invariant holds at the start.                    *)
THEOREM Initial == Init => IInv
<1> SUFFICES ASSUME Init PROVE IInv
  OBVIOUS
<1>1. \A S : <<>> \in Seq(S)
  OBVIOUS
<1>2. TypeOK
  <2>1. CallId = {} /\ calls \in Seq(Call)
    BY <1>1 DEF Init, CallId
  <2>2. up \in [Socket -> Seq(CallId)] /\ down \in [Socket -> Seq(CallId \cup {0})]
    BY <1>1 DEF Init
  <2>3. state \in [Socket -> {"none", "connecting", "open", "ended", "failed", "destroyed",
                               "gone"}]
    BY DEF Init
  <2>4. /\ socks \in 0 .. MaxSock
        /\ socket \in 0 .. socks /\ buf \in 0 .. socks /\ timer \in 0 .. socks
    BY ClientAssumption DEF Init
  <2> QED BY <2>1, <2>2, <2>3, <2>4 DEF Init, TypeOK
<1>3. Numbered /\ Newest /\ Stopped /\ Buffered /\ HeartbeatMatches /\ FramesWhole
  BY ClientAssumption
     DEF Init, Numbered, Newest, Stopped, Buffered, HeartbeatMatches, FramesWhole, Live, Socket
<1>4. Answers /\ CallsMatchPending
  BY <1>1 DEF Init, Answers, CallsMatchPending, CallId
<1> QED BY <1>2, <1>3, <1>4 DEF IInv

LEMMA TypeStep == ASSUME TypeOK, Numbered, Answers, [Next]_vars PROVE TypeOK'
<1> USE ClientAssumption DEF Socket
<1>0. CASE UNCHANGED vars
  BY <1>0 DEF vars, beats, app, io, history, TypeOK, CallId
<1>1. CASE Connect
  BY <1>1 DEF Connect, SetState, beats, app, io, history, TypeOK, CallId
<1>2. CASE Close
  <2>1. /\ calls' \in Seq(Call) /\ Len(calls') = Len(calls) /\ pending' = {}
    BY <1>2, SettleEffect DEF Close, Outcome
  <2>2. state' \in [Socket -> {"none", "connecting", "open", "ended", "failed", "destroyed",
                                "gone"}]
    BY <1>2 DEF Close, Destroyed, TypeOK
  <2>3. CallId' = CallId
    BY <2>1 DEF CallId
  <2>4. /\ socket' \in 0 .. socks /\ timer' \in 0 .. socks /\ intervals' \subseteq 1 .. socks
        /\ closed' \in BOOLEAN
    BY <1>2 DEF Close, StopHeartbeat, TypeOK
  <2>5. UNCHANGED <<heartbeat, socks, buf, told, up, down, events, answered, errored, read,
                    lost>>
    BY <1>2 DEF Close, StopHeartbeat, io, history
  <2> QED BY <2>1, <2>2, <2>3, <2>4, <2>5 DEF TypeOK
<1>3. CASE \/ CallDaemon
           \/ \E i \in 1 .. MaxSock : HeartbeatTick(i) /\ ~closed
  <2>1. PICK ping \in BOOLEAN : Send(ping) /\ socket # 0
    BY <1>3 DEF CallDaemon, HeartbeatTick
  <2>2. /\ calls' \in Seq(Call) /\ Len(calls') = Len(calls) + 1 /\ Len(calls) \in Nat
        /\ pending' = pending \cup {Len(calls) + 1}
        /\ up' \in [Socket -> Seq(1 .. Len(calls) + 1)]
    BY <2>1, SendEffect
  <2>3. CallId \subseteq CallId' /\ CallId' = 1 .. Len(calls) + 1 /\ Len(calls) + 1 \in CallId'
    BY <2>2 DEF CallId
  <2>4. down \in [Socket -> Seq(CallId' \cup {0})]
    <3> SUFFICES ASSUME NEW k \in Socket PROVE down[k] \in Seq(CallId' \cup {0})
      BY DEF TypeOK
    <3>1. down[k] \in Seq(CallId \cup {0})
      BY DEF TypeOK
    <3> QED BY <2>3, <3>1, SeqMonotonic
  <2> QED BY <2>1, <2>2, <2>3, <2>4 DEF Send, beats, app, history, TypeOK
<1>4. CASE \E i \in 1 .. MaxSock : HeartbeatTick(i) /\ closed
  <2>1. /\ state' = Destroyed(socket)
        /\ UNCHANGED <<socket, socks, buf, calls, pending, beats, app, io, history>>
    BY <1>4 DEF HeartbeatTick
  <2> QED BY <2>1 DEF Destroyed, beats, app, io, history, TypeOK, CallId
<1>5. ASSUME NEW i \in CallId, TimesOut(i) \/ WriteFails(i) PROVE TypeOK'
  <2>1. Fails(i)
    BY <1>5 DEF TimesOut, WriteFails
  <2>2. calls' \in Seq(Call) /\ Len(calls') = Len(calls) /\ pending' = pending \ {i}
    BY <2>1, SettleEffect DEF Fails, Outcome
  <2>3. state' \in [Socket -> {"none", "connecting", "open", "ended", "failed", "destroyed",
                                "gone"}]
    BY <2>1 DEF Fails, Destroyed, TypeOK
  <2> QED BY <2>1, <2>2, <2>3 DEF Fails, beats, app, io, history, TypeOK, CallId
<1>6. ASSUME NEW k \in Socket, OnConnect(k) \/ ConnectFails(k) \/ OnError(k) PROVE TypeOK'
  <2>1. k \in 1 .. socks
    BY <1>6 DEF OnConnect, StartHeartbeat, ConnectFails, OnError, Numbered
  <2>2. CASE OnConnect(k)
    <3>1. state' \in [Socket -> {"none", "connecting", "open", "ended", "failed", "destroyed",
                                 "gone"}]
      BY <2>2 DEF OnConnect, StartHeartbeat, SetState, TypeOK
    <3>2. /\ socket' \in 0 .. socks /\ timer' \in 0 .. socks /\ intervals' \subseteq 1 .. socks
          /\ told' = "open"
      <4>1. \/ timer' = k /\ intervals' = intervals \cup {k}
            \/ UNCHANGED <<timer, intervals>>
        BY <2>2, Zenon DEF OnConnect, StartHeartbeat
      <4>2. socks \in Nat /\ timer \in 0 .. socks /\ intervals \subseteq 1 .. socks
        BY DEF TypeOK
      <4>3. socket' = k /\ told' = "open"
        BY <2>2 DEF OnConnect
      <4>4. timer' \in 0 .. socks /\ intervals' \subseteq 1 .. socks
        <5>1. CASE timer' = k /\ intervals' = intervals \cup {k}
          BY <2>1, <4>2, <5>1
        <5>2. CASE UNCHANGED <<timer, intervals>>
          BY <4>2, <5>2
        <5> QED BY <4>1, <5>1, <5>2
      <4> QED BY <2>1, <4>2, <4>3, <4>4
    <3>3. UNCHANGED <<heartbeat, socks, buf, calls, pending, closed, up, down, events, answered,
                      errored, read, lost>>
      BY <2>2 DEF OnConnect, StartHeartbeat, io, history
    <3> QED BY <3>1, <3>2, <3>3 DEF TypeOK, CallId
  <2>3. CASE ConnectFails(k)
    BY <2>3 DEF ConnectFails, SetState, beats, io, history, TypeOK, CallId
  <2>4. CASE OnError(k)
    BY <2>4 DEF OnError, SetState, beats, io, TypeOK, CallId
  <2> QED BY <1>6, <2>2, <2>3, <2>4
<1>7. ASSUME NEW k \in Socket, OnClose(k) PROVE TypeOK'
  <2>1. /\ calls' \in Seq(Call) /\ Len(calls') = Len(calls) /\ pending' = {}
    BY <1>7, SettleEffect DEF OnClose, Outcome
  <2>2. state' \in [Socket -> {"none", "connecting", "open", "ended", "failed", "destroyed",
                                "gone"}]
    BY <1>7 DEF OnClose, SetState, TypeOK
  <2>3. CallId' = CallId
    BY <2>1 DEF CallId
  <2>4. /\ socket' \in 0 .. socks /\ timer' \in 0 .. socks /\ intervals' \subseteq 1 .. socks
        /\ told' = "close"
    BY <1>7 DEF OnClose, StopHeartbeat, TypeOK
  <2>5. UNCHANGED <<heartbeat, socks, buf, closed, up, down, events, answered, errored, read,
                    lost>>
    BY <1>7 DEF OnClose, StopHeartbeat, io, history
  <2> QED BY <2>1, <2>2, <2>3, <2>4, <2>5 DEF TypeOK
<1>8. ASSUME NEW k \in Socket, ReadHalf(k) PROVE TypeOK'
  BY <1>8 DEF ReadHalf, Readable, Numbered, beats, app, io, history, TypeOK, CallId
<1>9. ASSUME NEW k \in Socket, ReadLine(k) PROVE TypeOK'
  <2>1. calls' \in Seq(Call) /\ Len(calls') = Len(calls) /\ pending' \subseteq pending
    <3>1. CASE UNCHANGED <<calls, pending>>
      BY <3>1 DEF TypeOK
    <3>2. CASE Settle({Head(down[k])}, "resolved")
      <4>1. "resolved" \in Outcome
        BY DEF Outcome
      <4> QED BY <3>2, <4>1, SettleEffect
    <3> QED BY <1>9, <3>1, <3>2, ReadEffect
  <2>2. lost' \subseteq [sock : Socket, first : BOOLEAN, half : Socket]
    <3>1. buf \notin {0, k} => [sock |-> k, first |-> k \notin read, half |-> buf] \in
                                   [sock : Socket, first : BOOLEAN, half : Socket]
      BY DEF TypeOK
    <3>2. lost \subseteq [sock : Socket, first : BOOLEAN, half : Socket]
      BY DEF TypeOK
    <3>3. \/ UNCHANGED lost
          \/ /\ buf \notin {0, k}
             /\ lost' = lost \cup {[sock |-> k, first |-> k \notin read, half |-> buf]}
      BY <1>9, ReadEffect
    <3> QED BY <3>1, <3>2, <3>3
  <2>3. down' \in [Socket -> Seq(CallId \cup {0})]
    <3>1. down[k] \in Seq(CallId \cup {0}) /\ down[k] # <<>>
      BY <1>9 DEF ReadLine, Readable, TypeOK
    <3>2. Tail(down[k]) \in Seq(CallId \cup {0})
      BY <3>1, HeadTailProperties
    <3> QED BY <1>9, <3>2 DEF ReadLine, TypeOK
  <2>4. CallId' = CallId /\ buf' = 0 /\ read' \subseteq Socket
    BY <1>9, <2>1 DEF ReadLine, TypeOK, CallId
  <2>5. UNCHANGED <<socket, socks, state, beats, app, up, events, answered, errored>>
    BY <1>9 DEF ReadLine
  <2> QED BY <2>1, <2>2, <2>3, <2>4, <2>5 DEF beats, app, TypeOK
<1>10. ASSUME NEW k \in Socket, DaemonAnswers(k) PROVE TypeOK'
  <2>1. up[k] \in Seq(CallId) /\ up[k] # <<>> /\ down[k] \in Seq(CallId \cup {0})
    BY <1>10 DEF DaemonAnswers, TypeOK
  <2>2. Head(up[k]) \in CallId /\ Tail(up[k]) \in Seq(CallId)
    BY <2>1, HeadTailProperties
  <2>3. Append(down[k], Head(up[k])) \in Seq(CallId \cup {0})
    BY <2>1, <2>2
  <2> QED BY <1>10, <2>2, <2>3 DEF DaemonAnswers, beats, app, history, TypeOK, CallId
<1>11. ASSUME NEW k \in Socket, DaemonNotifies(k) PROVE TypeOK'
  <2>1. Append(down[k], 0) \in Seq(CallId \cup {0})
    BY DEF TypeOK
  <2> QED BY <1>11, <2>1 DEF DaemonNotifies, beats, app, history, TypeOK, CallId
<1>12. ASSUME NEW k \in Socket, DaemonCloses(k) PROVE TypeOK'
  <2>1. PICK n \in {Len(down[k]), Len(down[k]) - 1} :
            n >= 0 /\ down' = [down EXCEPT ![k] = SubSeq(@, 1, n)]
    BY <1>12 DEF DaemonCloses
  <2>2. down[k] \in Seq(CallId \cup {0}) /\ Len(down[k]) \in Nat
    BY DEF TypeOK
  <2>3. SubSeq(down[k], 1, n) \in Seq(CallId \cup {0})
    BY <2>1, <2>2, SubSeqProperties
  <2> QED BY <1>12, <2>1, <2>3 DEF DaemonCloses, SetState, beats, app, history, TypeOK, CallId
<1>13. ASSUME NEW k \in Socket, SocketFails(k) PROVE TypeOK'
  BY <1>13 DEF SocketFails, SetState, beats, app, io, history, TypeOK, CallId
<1>14. ASSUME NEW k \in Socket, HeartbeatTick(k) PROVE TypeOK'
  BY <1>3, <1>4, <1>14 DEF TypeOK
<1> QED
  BY <1>0, <1>1, <1>2, <1>3, <1>5, <1>6, <1>7, <1>8, <1>9, <1>10, <1>11, <1>12, <1>13, <1>14
     DEF Next, SocketEvent
-----------------------------------------------------------------------------
(* One connection at a time, and its heartbeat.                             *)
LEMMA ConnectionStep ==
    ASSUME TypeOK, Numbered, Newest, Stopped, HeartbeatMatches, [Next]_vars
    PROVE  Numbered' /\ Newest' /\ Stopped' /\ HeartbeatMatches'
<1> USE ClientAssumption DEF Socket
<1>0. \A k \in Socket : state[k] \in Live => k <= socks /\ state[k] # "connecting"
  BY DEF Numbered, Live
<1>1. CASE /\ UNCHANGED <<socket, socks, beats, told, errored>>
           /\ \A k \in read' : k <= socks
           /\ \A k \in Socket : \/ state'[k] = state[k]
                                \/ state[k] \in Live /\ state'[k] \in Live
  BY <1>0, <1>1 DEF Numbered, Newest, Stopped, HeartbeatMatches, beats, Live
<1>2. CASE \/ UNCHANGED vars
           \/ CallDaemon
           \/ \E k \in Socket : DaemonAnswers(k) \/ DaemonNotifies(k) \/ ReadHalf(k)
  <2>1. UNCHANGED <<socket, socks, beats, told, errored, read, state>>
    BY <1>2 DEF vars, CallDaemon, Send, DaemonAnswers, DaemonNotifies, ReadHalf, beats, app,
       history
  <2> QED BY <1>1, <2>1 DEF Numbered
<1>3. ASSUME NEW k \in Socket, ReadLine(k) PROVE Numbered' /\ Newest' /\ Stopped' /\ HeartbeatMatches'
  <2>1. /\ UNCHANGED <<socket, socks, beats, told, errored, state>>
        /\ read' = read \cup {k} /\ state[k] # "none"
    BY <1>3 DEF ReadLine, Readable, app
  <2> QED BY <1>1, <2>1 DEF Numbered
<1>4. ASSUME NEW k \in Socket, DaemonCloses(k) \/ SocketFails(k)
      PROVE  Numbered' /\ Newest' /\ Stopped' /\ HeartbeatMatches'
  <2>1. /\ UNCHANGED <<socket, socks, beats, told, errored, read>>
        /\ state[k] \in Live /\ \E s \in Live : state' = [state EXCEPT ![k] = s]
    BY <1>4 DEF DaemonCloses, SocketFails, SetState, app, history, Live
  <2> QED BY <1>1, <2>1 DEF Numbered, TypeOK
<1>5. ASSUME UNCHANGED <<socket, socks, beats, told, errored, read>>,
             state' = Destroyed(socket) \/ UNCHANGED state
      PROVE  Numbered' /\ Newest' /\ Stopped' /\ HeartbeatMatches'
  <2>1. \A k \in Socket : \/ state'[k] = state[k]
                          \/ state[k] \in Live /\ state'[k] \in Live
    BY <1>5 DEF Destroyed, TypeOK, Live
  <2> QED BY <1>1, <1>5, <2>1 DEF Numbered
<1>6. ASSUME NEW k \in Socket, HeartbeatTick(k)
      PROVE  Numbered' /\ Newest' /\ Stopped' /\ HeartbeatMatches'
  BY <1>5, <1>6 DEF HeartbeatTick, Send, beats, app, history
<1>7. ASSUME NEW i \in CallId, TimesOut(i) \/ WriteFails(i)
      PROVE  Numbered' /\ Newest' /\ Stopped' /\ HeartbeatMatches'
  BY <1>5, <1>7 DEF TimesOut, WriteFails, Fails, app, history
<1>8. CASE Connect
  <2>1. /\ socks' = socks + 1 /\ socks \in Nat /\ socks + 1 \in Socket
        /\ told # "open" /\ \A k \in Socket : state[k] # "connecting"
        /\ state' = [state EXCEPT ![socks + 1] = "connecting"]
        /\ UNCHANGED <<socket, beats, told, errored, read>>
    BY <1>8 DEF Connect, SetState, app, history, TypeOK
  <2>2. \A k \in Socket : state'[k] = IF k = socks + 1 THEN "connecting" ELSE state[k]
    BY <2>1 DEF TypeOK
  <2>3. Numbered'
    BY <2>1, <2>2 DEF Numbered, TypeOK
  <2>4. Newest'
    BY <2>1, <2>2 DEF Newest, Live
  <2> QED BY <2>1, <2>3, <2>4 DEF Stopped, HeartbeatMatches, beats
<1>9. ASSUME NEW k \in Socket, OnConnect(k)
      PROVE  Numbered' /\ Newest' /\ Stopped' /\ HeartbeatMatches'
  <2>1. /\ k = socks /\ told # "open"
        /\ \A j \in Socket : state'[j] = IF j = k THEN "open" ELSE state[j]
        /\ socket' = k /\ told' = "open" /\ UNCHANGED <<socks, errored, read>>
    BY <1>9 DEF OnConnect, SetState, history, TypeOK, Newest
  <2>2. UNCHANGED heartbeat
    BY <1>9 DEF OnConnect, StartHeartbeat
  <2>3. \A i \in intervals : i \in errored
    BY <2>1 DEF Stopped, HeartbeatMatches, TypeOK
  <2>4. CASE heartbeat
    <3>1. timer' = k /\ intervals' = intervals \cup {k}
      BY <1>9, <2>4 DEF OnConnect, StartHeartbeat
    <3> QED
      BY <2>1, <2>2, <2>3, <2>4, <3>1
         DEF Numbered, Newest, Stopped, HeartbeatMatches, Live
  <2>5. CASE ~heartbeat
    <3>1. timer = 0 /\ UNCHANGED <<timer, intervals>>
      BY <1>9, <2>5 DEF OnConnect, StartHeartbeat, Stopped
    <3> QED
      BY <2>1, <2>2, <2>3, <2>5, <3>1
         DEF Numbered, Newest, Stopped, HeartbeatMatches, Live
  <2> QED BY <2>4, <2>5
<1>10. ASSUME NEW k \in Socket, ConnectFails(k)
       PROVE  Numbered' /\ Newest' /\ Stopped' /\ HeartbeatMatches'
  <2>1. /\ k = socks /\ told # "open" /\ told' = "rejected"
        /\ \A j \in Socket : state'[j] = IF j = k THEN "gone" ELSE state[j]
        /\ UNCHANGED <<socket, socks, beats, errored, read>>
    BY <1>10 DEF ConnectFails, SetState, history, TypeOK, Newest
  <2> QED BY <2>1 DEF beats, Numbered, Newest, Stopped, HeartbeatMatches, Live
<1>11. ASSUME NEW k \in Socket, OnClose(k)
       PROVE  Numbered' /\ Newest' /\ Stopped' /\ HeartbeatMatches'
  <2>1. /\ k = socks /\ told = "open" /\ told' = "close"
        /\ \A j \in Socket : state'[j] = IF j = k THEN "gone" ELSE state[j]
        /\ socket' = 0 /\ timer' = 0 /\ intervals' = intervals \ {timer}
        /\ UNCHANGED <<heartbeat, socks, errored, read>>
    BY <1>11 DEF OnClose, SetState, StopHeartbeat, history, TypeOK, Newest, Live
  <2> QED BY <2>1 DEF Numbered, Newest, Stopped, HeartbeatMatches, Live
<1>12. ASSUME NEW k \in Socket, OnError(k)
       PROVE  Numbered' /\ Newest' /\ Stopped' /\ HeartbeatMatches'
  <2>1. /\ k = socks /\ told = "open" /\ told' = "error" /\ timer \in {0, k}
        /\ \A j \in Socket : state'[j] = IF j = k THEN "gone" ELSE state[j]
        /\ errored' = errored \cup {k}
        /\ UNCHANGED <<socket, socks, beats, read>>
    BY <1>12 DEF OnError, SetState, TypeOK, Newest, Live
  <2> QED BY <2>1 DEF beats, Numbered, Newest, Stopped, HeartbeatMatches, Live
<1>13. CASE Close
  <2>1. /\ socket' = 0 /\ timer' = 0 /\ intervals' = intervals \ {timer}
        /\ UNCHANGED <<heartbeat, socks, told, errored, read>>
        /\ \A k \in Socket : \/ state'[k] = state[k]
                             \/ state[k] \in Live /\ state'[k] \in Live
    BY <1>13 DEF Close, StopHeartbeat, history, Destroyed, TypeOK, Live
  <2> QED BY <1>0, <2>1 DEF Numbered, Newest, Stopped, HeartbeatMatches, Live
<1> QED
  BY <1>2, <1>3, <1>4, <1>6, <1>7, <1>8, <1>9, <1>10, <1>11, <1>12, <1>13 DEF Next, SocketEvent

(* What is left in the buffer is an older connection's, until the first     *)
(* line of the newest one.                                                  *)
LEMMA BufferStep ==
    ASSUME TypeOK, Numbered, Newest, Buffered, FramesWhole, [Next]_vars
    PROVE  Buffered' /\ FramesWhole'
<1> USE ClientAssumption DEF Socket
<1>1. CASE UNCHANGED <<socks, buf, read, lost>>
  BY <1>1 DEF Buffered, FramesWhole
<1>2. CASE Connect
  <2>1. socks' = socks + 1 /\ UNCHANGED <<buf, read, lost>>
    BY <1>2 DEF Connect, history
  <2>2. socks + 1 \notin read
    BY DEF Numbered, TypeOK
  <2> QED BY <2>1, <2>2 DEF Buffered, FramesWhole
<1>3. ASSUME NEW k \in Socket, ReadHalf(k) PROVE Buffered' /\ FramesWhole'
  <2>1. k = socks
    BY <1>3 DEF ReadHalf, Readable, Newest, Live
  <2> QED BY <1>3, <2>1 DEF ReadHalf, history, Buffered, FramesWhole
<1>4. ASSUME NEW k \in Socket, ReadLine(k) PROVE Buffered' /\ FramesWhole'
  <2>1. k = socks /\ buf' = 0 /\ socks' = socks
    BY <1>4 DEF ReadLine, Readable, Newest, Live
  <2>2. \/ UNCHANGED lost
        \/ /\ buf \notin {0, k}
           /\ lost' = lost \cup {[sock |-> k, first |-> k \notin read, half |-> buf]}
    BY <1>4 DEF ReadLine
  <2>3. buf \notin {0, k} => k \notin read /\ buf < k
    BY <2>1 DEF Buffered, TypeOK
  <2>4. buf \notin {0, k} =>
            LET f == [sock |-> k, first |-> k \notin read, half |-> buf]
            IN  f.half < f.sock /\ f.first
    BY <2>3
  <2>5. FramesWhole'
    BY <2>2, <2>4 DEF FramesWhole
  <2> QED BY <2>1, <2>5 DEF Buffered
<1>5. CASE UNCHANGED vars \/ CallDaemon \/ Close
  BY <1>1, <1>5 DEF vars, CallDaemon, Send, Close, history
<1>6. ASSUME NEW k \in Socket,
             \/ OnConnect(k) \/ ConnectFails(k) \/ OnClose(k) \/ OnError(k) \/ HeartbeatTick(k)
             \/ DaemonAnswers(k) \/ DaemonNotifies(k) \/ DaemonCloses(k) \/ SocketFails(k)
      PROVE  UNCHANGED <<socks, buf, read, lost>>
  BY <1>6 DEF OnConnect, StartHeartbeat, ConnectFails, OnClose, OnError, HeartbeatTick, Send, DaemonAnswers,
     DaemonNotifies, DaemonCloses, SocketFails, history
<1>7. ASSUME NEW i \in CallId, TimesOut(i) \/ WriteFails(i)
      PROVE  UNCHANGED <<socks, buf, read, lost>>
  BY <1>7 DEF TimesOut, WriteFails, Fails, history
<1> QED BY <1>1, <1>2, <1>3, <1>4, <1>5, <1>6, <1>7 DEF Next, SocketEvent

(* A frame on its way is an event or an answer.                             *)
LEMMA AnswersStep ==
    ASSUME TypeOK, Answers, [Next]_vars
    PROVE  Answers'
<1>1. CASE UNCHANGED <<down, answered>>
  BY <1>1 DEF Answers
<1>2. ASSUME NEW k \in Socket, ReadLine(k) PROVE Answers'
  <2>1. /\ down' = [down EXCEPT ![k] = Tail(@)] /\ down'[k] \in Seq({0} \cup answered)
        /\ answered' = answered
    BY <1>2, ReadEffect DEF ReadLine
  <2> QED BY <2>1 DEF Answers, TypeOK
<1>3. ASSUME NEW k \in Socket, DaemonAnswers(k) PROVE Answers'
  <2>1. /\ answered' = answered \cup {Head(up[k])}
        /\ down' = [down EXCEPT ![k] = Append(@, Head(up[k]))]
    BY <1>3 DEF DaemonAnswers
  <2>2. \A j \in Socket : down[j] \in Seq({0} \cup answered')
    <3> SUFFICES ASSUME NEW j \in Socket PROVE down[j] \in Seq({0} \cup answered')
      OBVIOUS
    <3>1. down[j] \in Seq({0} \cup answered) /\ {0} \cup answered \subseteq {0} \cup answered'
      BY <2>1 DEF Answers
    <3> QED BY <3>1, SeqMonotonic
  <2>3. Append(down[k], Head(up[k])) \in Seq({0} \cup answered')
    BY <2>1, <2>2
  <2> QED BY <2>1, <2>2, <2>3 DEF Answers, TypeOK
<1>4. ASSUME NEW k \in Socket, DaemonNotifies(k) PROVE Answers'
  <2>1. down' = [down EXCEPT ![k] = Append(@, 0)] /\ answered' = answered
    BY <1>4 DEF DaemonNotifies
  <2>2. Append(down[k], 0) \in Seq({0} \cup answered)
    BY DEF Answers
  <2> QED BY <2>1, <2>2 DEF Answers, TypeOK
<1>5. ASSUME NEW k \in Socket, DaemonCloses(k) PROVE Answers'
  <2>1. PICK n \in {Len(down[k]), Len(down[k]) - 1} :
            n >= 0 /\ down' = [down EXCEPT ![k] = SubSeq(@, 1, n)]
    BY <1>5 DEF DaemonCloses
  <2>2. down[k] \in Seq({0} \cup answered) /\ Len(down[k]) \in Nat
    BY DEF Answers
  <2>3. SubSeq(down[k], 1, n) \in Seq({0} \cup answered)
    BY <2>1, <2>2, SubSeqProperties
  <2>4. answered' = answered
    BY <1>5 DEF DaemonCloses
  <2> QED BY <2>1, <2>3, <2>4 DEF Answers, TypeOK
<1>6. CASE UNCHANGED vars \/ Connect \/ CallDaemon \/ Close
  BY <1>1, <1>6 DEF vars, Connect, CallDaemon, Send, Close, io
<1>7. ASSUME NEW k \in Socket,
             \/ OnConnect(k) \/ ConnectFails(k) \/ OnClose(k) \/ OnError(k) \/ ReadHalf(k)
             \/ HeartbeatTick(k) \/ SocketFails(k)
      PROVE  UNCHANGED <<down, answered>>
  BY <1>7 DEF OnConnect, StartHeartbeat, ConnectFails, OnClose, OnError, ReadHalf, HeartbeatTick, Send,
     SocketFails, io
<1>8. ASSUME NEW i \in CallId, TimesOut(i) \/ WriteFails(i) PROVE UNCHANGED <<down, answered>>
  BY <1>8 DEF TimesOut, WriteFails, Fails, io
<1> QED BY <1>1, <1>2, <1>3, <1>4, <1>5, <1>6, <1>7, <1>8 DEF Next, SocketEvent

LEMMA CallsStep ==
    ASSUME TypeOK, Answers, CallsMatchPending, [Next]_vars
    PROVE  CallsMatchPending'
<1>1. CASE UNCHANGED <<calls, pending>> /\ answered \subseteq answered'
  BY <1>1 DEF CallsMatchPending, CallId
<1>2. ASSUME NEW ids, NEW outcome \in {"resolved", "rejected"}, Settle(ids, outcome),
             answered' = answered, ids \subseteq pending,
             outcome = "resolved" => ids \subseteq answered
      PROVE  CallsMatchPending'
  <2>1. /\ Len(calls') = Len(calls) /\ pending' = pending \ ids
        /\ \A i \in CallId :
               calls'[i].outcome = IF i \in ids THEN outcome ELSE calls[i].outcome
    BY <1>2, SettleEffect DEF Outcome
  <2>2. CallId' = CallId
    BY <2>1 DEF CallId
  <2> QED BY <1>2, <2>1, <2>2 DEF CallsMatchPending
<1>3. ASSUME NEW ping \in BOOLEAN, Send(ping), socket # 0 PROVE CallsMatchPending'
  <2>1. /\ Len(calls') = Len(calls) + 1 /\ Len(calls) \in Nat
        /\ pending' = pending \cup {Len(calls) + 1}
        /\ calls'[Len(calls) + 1].outcome = "waiting"
        /\ \A i \in CallId : calls'[i] = calls[i]
    BY <1>3, SendEffect
  <2>2. CallId' = CallId \cup {Len(calls) + 1} /\ Len(calls) + 1 \notin CallId
    BY <2>1 DEF CallId
  <2>3. answered' = answered
    BY <1>3 DEF Send
  <2> QED BY <2>1, <2>2, <2>3 DEF CallsMatchPending
<1>4. CASE CallDaemon
  BY <1>3, <1>4 DEF CallDaemon
<1>5. ASSUME NEW k \in Socket, HeartbeatTick(k) PROVE CallsMatchPending'
  BY <1>1, <1>3, <1>5 DEF HeartbeatTick, io
<1>6. CASE Close
  BY <1>2, <1>6 DEF Close, io
<1>7. ASSUME NEW k \in Socket, OnClose(k) PROVE CallsMatchPending'
  BY <1>2, <1>7 DEF OnClose, io
<1>8. ASSUME NEW i \in CallId, TimesOut(i) \/ WriteFails(i) PROVE CallsMatchPending'
  BY <1>2, <1>8 DEF TimesOut, WriteFails, Fails, io
<1>9. ASSUME NEW k \in Socket, ReadLine(k) PROVE CallsMatchPending'
  <2>1. answered' = answered /\ Head(down[k]) \in {0} \cup answered
    BY <1>9, ReadEffect DEF ReadLine
  <2>2. CASE UNCHANGED <<calls, pending>>
    BY <1>1, <2>1, <2>2
  <2>3. CASE Head(down[k]) \in pending /\ Settle({Head(down[k])}, "resolved")
    <3>1. Head(down[k]) # 0
      BY <2>3 DEF TypeOK, CallId
    <3> QED BY <1>2, <2>1, <2>3, <3>1
  <2> QED BY <1>9, <2>2, <2>3 DEF ReadLine, Handle
<1>10. CASE UNCHANGED vars \/ Connect
  BY <1>1, <1>10 DEF vars, Connect, io
<1>11. ASSUME NEW k \in Socket,
              \/ OnConnect(k) \/ ConnectFails(k) \/ OnError(k) \/ ReadHalf(k) \/ SocketFails(k)
              \/ DaemonAnswers(k) \/ DaemonNotifies(k) \/ DaemonCloses(k)
       PROVE  UNCHANGED <<calls, pending>> /\ answered \subseteq answered'
  BY <1>11 DEF OnConnect, StartHeartbeat, ConnectFails, OnError, ReadHalf, SocketFails, DaemonAnswers,
     DaemonNotifies, DaemonCloses, io
<1> QED BY <1>1, <1>4, <1>5, <1>6, <1>7, <1>8, <1>9, <1>10, <1>11 DEF Next, SocketEvent

-----------------------------------------------------------------------------
(* The inductive invariant holds in every reachable state.                  *)
THEOREM Invariant == Spec => []IInv
<1>1. IInv /\ [Next]_vars => IInv'
  BY TypeStep, ConnectionStep, BufferStep, AnswersStep, CallsStep DEF IInv
<1> QED BY Initial, <1>1, PTL DEF Spec

(* Type correctness, whatever the daemon, the connection and the            *)
(* application do.                                                          *)
THEOREM TypeCorrect == Spec => []TypeOK
<1>1. IInv => TypeOK
  BY DEF IInv
<1> QED BY Invariant, <1>1, PTL

(* The calls that wait are those in the map, however many connections came  *)
(* and went, and a call is resolved by the daemon's answer to it alone.     *)
THEOREM NoCallHangs == Spec => []CallsMatchPending
<1>1. IInv => CallsMatchPending
  BY DEF IInv
<1> QED BY Invariant, <1>1, PTL

(* The current connection has its heartbeat, unless the option disables it, *)
(* and only a connection that ended with an 'error' leaves an interval      *)
(* behind.                                                                  *)
THEOREM HeartbeatFollows == Spec => []HeartbeatMatches
<1>1. IInv => HeartbeatMatches
  BY DEF IInv
<1> QED BY Invariant, <1>1, PTL

(* At most the first line of a connection is lost, to the half line of an   *)
(* earlier one.                                                             *)
THEOREM OneFrameLost == Spec => []FramesWhole
<1>1. IInv => FramesWhole
  BY DEF IInv
<1> QED BY Invariant, <1>1, PTL

-----------------------------------------------------------------------------
(* The calls as the application sees them. Every callback settles calls     *)
(* that wait, makes one, or leaves them alone.                              *)
Moved(ids, outcome) ==
    /\ ids \subseteq With("waiting") /\ With("waiting")' = With("waiting") \ ids
    /\ \A o \in {"resolved", "rejected"} :
           With(o)' = IF o = outcome THEN With(o) \cup ids ELSE With(o)

LEMMA SettleMoves ==
    ASSUME TypeOK, CallsMatchPending, NEW ids, ids \subseteq pending,
           NEW outcome \in {"resolved", "rejected"}, Settle(ids, outcome)
    PROVE  Moved(ids, outcome)
<1>1. /\ CallId' = CallId
      /\ \A i \in CallId :
             calls'[i].outcome = IF i \in ids THEN outcome ELSE calls[i].outcome
  BY SettleEffect DEF Outcome, CallId
<1>2. ids \subseteq CallId /\ \A i \in ids : calls[i].outcome = "waiting"
  BY DEF TypeOK, CallsMatchPending
<1>3. \A o : With(o)' = {i \in CallId : calls'[i].outcome = o}
  BY <1>1 DEF With
<1> QED BY <1>1, <1>2, <1>3 DEF Moved, With

LEMMA MadeIsCallId == ASSUME TypeOK PROVE Service!Made = CallId
<1>1. \A i \in CallId : calls[i] \in Call
  BY DEF TypeOK, CallId
<1>2. \A i \in CallId : calls[i].outcome \in Outcome
  BY <1>1 DEF Call
<1> QED BY <1>2 DEF Service!Made, With, Outcome

LEMMA SendShows ==
    ASSUME TypeOK, socket # 0, ~closed, NEW ping \in BOOLEAN, Send(ping)
    PROVE  Service!Next
<1> DEFINE new == Len(calls) + 1
<1>1. /\ Len(calls') = new /\ Len(calls) \in Nat
      /\ calls'[new].outcome = "waiting"
      /\ \A i \in CallId : calls'[i] = calls[i]
  BY SendEffect
<1>2. CallId' = CallId \cup {new} /\ new \notin CallId
  BY <1>1 DEF CallId
<1>3. new \in (1 .. MaxCall) \ Service!Made
  BY <1>1, <1>2, MadeIsCallId, ClientAssumption DEF Send
<1>4. \A o : With(o)' = {i \in CallId' : calls'[i].outcome = o}
  BY DEF With
<1>5. With("waiting")' = With("waiting") \cup {new}
  BY <1>1, <1>2, <1>4 DEF With
<1>6. With("resolved")' = With("resolved") /\ With("rejected")' = With("rejected")
  BY <1>1, <1>2, <1>4 DEF With
<1>7. UNCHANGED <<answered, closed>>
  BY DEF Send, app
<1> QED BY <1>3, <1>5, <1>6, <1>7 DEF Service!Next, Service!Make

LEMMA RejectShows ==
    ASSUME NEW ids, Moved(ids, "rejected"), UNCHANGED <<answered, closed>>
    PROVE  Service!Next
<1>1. ids \in SUBSET With("waiting") /\ With("waiting")' = With("waiting") \ ids
  BY DEF Moved
<1>2. With("rejected")' = With("rejected") \cup ids /\ With("resolved")' = With("resolved")
  BY DEF Moved
<1> QED BY <1>1, <1>2 DEF Service!Next, Service!Reject

LEMMA CallsShow ==
    ASSUME TypeOK, Answers, CallsMatchPending, [Next]_vars
    PROVE  [Service!Next]_Service!vars
<1>1. CASE UNCHANGED <<calls, answered, closed>>
  BY <1>1 DEF Service!vars, With, CallId
<1>2. CASE CallDaemon
  BY <1>2, SendShows DEF CallDaemon
<1>3. ASSUME NEW k \in Socket, HeartbeatTick(k) PROVE [Service!Next]_Service!vars
  BY <1>1, <1>3, SendShows DEF HeartbeatTick, app, io
<1>4. CASE Close
  <2>1. Moved(pending, "rejected")
    BY <1>4, SettleMoves DEF Close
  <2>2. pending = With("waiting")
    BY DEF CallsMatchPending, With, TypeOK
  <2>3. With("waiting")' = {} /\ With("rejected")' = With("rejected") \cup With("waiting")
        /\ With("resolved")' = With("resolved")
    BY <2>1, <2>2 DEF Moved
  <2>4. closed' = TRUE /\ answered' = answered
    BY <1>4, Zenon DEF Close, io
  <2>5. CASE ~closed
    BY <2>3, <2>4, <2>5 DEF Service!Next, Service!Close
  <2>6. CASE closed
    <3>1. UNCHANGED <<answered, closed>>
      BY <2>4, <2>6, Zenon DEF TypeOK
    <3> QED BY <2>1, <3>1, RejectShows
  <2> QED BY <2>5, <2>6
<1>5. ASSUME NEW k \in Socket, OnClose(k) PROVE [Service!Next]_Service!vars
  BY <1>5, SettleMoves, RejectShows DEF OnClose, io
<1>6. ASSUME NEW i \in CallId, TimesOut(i) \/ WriteFails(i) PROVE [Service!Next]_Service!vars
  <2>1. {i} \subseteq pending /\ Settle({i}, "rejected")
    BY <1>6 DEF TimesOut, WriteFails, Fails
  <2>2. UNCHANGED <<answered, closed>>
    BY <1>6 DEF TimesOut, WriteFails, Fails, app, io
  <2> QED BY <2>1, <2>2, SettleMoves, RejectShows
<1>7. ASSUME NEW k \in Socket, ReadLine(k) PROVE [Service!Next]_Service!vars
  <2> DEFINE id == Head(down[k])
  <2>1. id \in {0} \cup answered /\ UNCHANGED <<answered, closed>>
    BY <1>7, ReadEffect DEF ReadLine, app
  <2>2. CASE UNCHANGED calls
    BY <1>1, <2>1, <2>2
  <2>3. CASE id \in pending /\ Settle({id}, "resolved")
    <3>1. id \in answered
      BY <2>1, <2>3 DEF TypeOK, CallId
    <3>2. Moved({id}, "resolved")
      BY <2>3, SettleMoves
    <3>3. /\ id \in With("waiting") /\ With("waiting")' = With("waiting") \ {id}
          /\ With("resolved")' = With("resolved") \cup {id}
          /\ With("rejected")' = With("rejected")
      BY <3>2 DEF Moved
    <3>4. id \in Service!Made
      BY <3>3 DEF Service!Made
    <3> QED BY <2>1, <3>1, <3>3, <3>4 DEF Service!Next, Service!Resolve
  <2> QED BY <1>7, <2>2, <2>3 DEF ReadLine, Handle
<1>8. ASSUME NEW k \in Socket, DaemonAnswers(k) PROVE [Service!Next]_Service!vars
  <2>1. Head(up[k]) \in CallId
    BY <1>8, HeadTailProperties DEF DaemonAnswers, TypeOK
  <2>2. /\ answered' = answered \cup {Head(up[k])} /\ UNCHANGED <<calls, closed>>
    BY <1>8 DEF DaemonAnswers, app
  <2>3. \A o : With(o)' = With(o)
    BY <2>2 DEF With, CallId
  <2> QED BY <2>1, <2>2, <2>3, MadeIsCallId DEF Service!Next, Service!Answer
<1>9. CASE UNCHANGED vars \/ Connect
  BY <1>1, <1>9 DEF vars, Connect, app, io
<1>10. ASSUME NEW k \in Socket,
              \/ OnConnect(k) \/ ConnectFails(k) \/ OnError(k) \/ ReadHalf(k) \/ SocketFails(k)
              \/ DaemonNotifies(k) \/ DaemonCloses(k)
       PROVE  UNCHANGED <<calls, answered, closed>>
  BY <1>10 DEF OnConnect, StartHeartbeat, ConnectFails, OnError, ReadHalf, SocketFails, DaemonNotifies,
     DaemonCloses, app, io
<1> QED BY <1>1, <1>2, <1>3, <1>4, <1>5, <1>6, <1>7, <1>8, <1>9, <1>10 DEF Next, SocketEvent

(* Client implements CallService: whatever sockets come and go, a call is   *)
(* settled once, resolved with the daemon's answer to it only, and none is  *)
(* left over or taken once the client is closed (call, close).              *)
THEOREM CallsServed == Spec => ServiceSpec
<1>1. Init => Service!Init
  BY DEF Init, Service!Init, With, CallId
<1>2. IInv /\ [Next]_vars => [Service!Next]_Service!vars
  BY CallsShow DEF IInv
<1> QED BY <1>1, <1>2, Invariant, PTL DEF Spec, ServiceSpec, Service!Spec
=============================================================================

-------------------------- MODULE TunnelRefinement --------------------------
(***************************************************************************)
(* Tunnel implements TunnelService: under the inductive invariant of       *)
(* TunnelProofs every step of the Machine that a client can see is one of  *)
(* the service's, as long as the daemon is up.  The mapping shows the      *)
(* status as it is, and pendingSwitchID as what follows a teardown.        *)
(***************************************************************************)
EXTENDS TunnelProofs

(* What a step that starts an attempt, ends a teardown or begins one does  *)
(* to the status.                                                          *)
LEMMA FinishStatus ==
  ASSUME FinishDisconnect, conn.state = "Disconnecting", Up, Up'
  PROVE  Service!Work
<1>1. (~Up)' = (~Up)
  OBVIOUS
<1>2. Service!Closed
  BY DEF FinishDisconnect, StartConnect, Disconnected, Service!Closed, Service!Status
<1> QED
  BY <1>1, <1>2 DEF Service!Work

LEMMA TeardownStatus ==
  ASSUME TypeOK, Core, Up, Up', Teardown, conn.state # "Error",
         pendingSwitchID' \in ConfigID \cup {NoConfig}
  PROVE  Service!Work
<1>1. (~Up)' = (~Up)
  OBVIOUS
<1>2. conn = [state |-> conn.state, configID |-> conn.configID]
  BY DEF TypeOK
<1>3. ~TeardownUnarmed
  BY DEF TeardownUnarmed, Core, ArmedPhase
<1>4. /\ conn.state \in {"Validating", "Connecting", "Connected"}
      /\ conn' = [conn EXCEPT !.state = "Disconnecting"]
  BY <1>3 DEF Teardown, TeardownAttempt, TeardownArmed, Attempting
<1>5. conn' = [state |-> "Disconnecting", configID |-> conn.configID]
  BY <1>2, <1>4
<1>6. Service!Close(pendingSwitchID')
  BY <1>4, <1>5 DEF Service!Close, Service!Status
<1> QED
  BY <1>1, <1>6 DEF Service!Work

(* The result of a worker ends an attempt, or the teardown of one.         *)
LEMMA ResultStatus ==
  ASSUME TypeOK, Core, Up, Up', HandleConnectDone
  PROVE  Service!Work
<1> DEFINE done == Head(cmds)
<1>1. (~Up)' = (~Up)
  OBVIOUS
<1>2. 1 \in Results /\ cmds[1] = done
  BY MailTaken, Taken DEF TypeOK, HandleConnectDone, Receive, Results
<1>3. conn.state \in Attempting \cup {"Disconnecting"}
  BY <1>2 DEF Core, RestPhase, NoAttempt, TypeOK, States, Attempting
<1>4. CASE conn.state = "Disconnecting"
  <2>1. done.gen # opGen
    BY <1>2, <1>4 DEF Core, TeardownPhase, TypeOK
  <2>2. FinishDisconnect
    BY <1>4, <2>1 DEF HandleConnectDone, StaleResult
  <2> QED
    BY <1>4, <2>2, FinishStatus
<1>5. CASE conn.state \in Attempting
  <2>1. /\ done.gen = opGen /\ done.id = conn.configID /\ done.outcome # "canceled"
    BY <1>2, <1>5 DEF Core, AttemptPhase
  <2>2. CurrentResult(done) /\ pendingSwitchID' = pendingSwitchID
    BY <2>1 DEF HandleConnectDone, CurrentResult
  <2>3. CASE done.outcome = "failed"
    <3>1. Service!Fail
      BY <1>5, <2>2, <2>3 DEF CurrentResult, Errored, Attempting, Service!Fail, Service!Status
    <3> QED
      BY <1>1, <3>1 DEF Service!Work
  <2>4. CASE done.outcome = "ok"
    <3>1. conn.state # "Validating"
      <4>1. ~(\E j \in Notes : j < 1)
        BY DEF Notes, Mail
      <4> QED
        BY <1>2, <2>4, <4>1 DEF Core, ProgressFirst
    <3>2. conn.state = "Connecting"
      BY <1>5, <3>1 DEF Attempting
    <3>3. Service!Establish
      BY <2>1, <2>2, <2>4, <3>2 DEF CurrentResult, Adopt, Service!Establish, Service!Status
    <3> QED
      BY <1>1, <3>3 DEF Service!Work
  <2> QED
    BY <2>1, <2>2, <2>3, <2>4 DEF CurrentResult
<1> QED
  BY <1>3, <1>4, <1>5

LEMMA ActorStatus ==
  ASSUME TypeOK, Core, Up, Up', Actor
  PROVE  Service!Work \/ UNCHANGED <<conn, pendingSwitchID>>
<1> USE DEF session
<1>1. (~Up)' = (~Up)
  OBVIOUS
<1>2. ASSUME NEW id \in ConfigID, StartConnect(id), conn.state \in Idle,
             pendingSwitchID' = pendingSwitchID
      PROVE  Service!Work
  <2>1. Service!Attempt(id)
    BY <1>2 DEF StartConnect, Idle, Service!Attempt, Service!Status
  <2> QED
    BY <1>1, <2>1 DEF Service!Work
<1>3. conn = [state |-> conn.state, configID |-> conn.configID]
  BY DEF TypeOK
<1>4. CASE HandleConnect
  <2>1. conn.state \in Idle => Head(cmds).id \in ConfigID
    BY <1>4, TailType DEF HandleConnect, Receive, TypeOK, Command
  <2> QED
    BY <1>2, <1>4, <2>1 DEF HandleConnect
<1>5. CASE HandleDisconnect
  <2>1. pendingSwitchID' = NoConfig
    BY <1>5 DEF HandleDisconnect
  <2>2. CASE conn.state = "Disconnecting"
    <3>1. Service!TakeBack
      BY <1>5, <2>1, <2>2 DEF HandleDisconnect, Teardown, TeardownAttempt, TeardownArmed,
         TeardownUnarmed, Attempting, Service!TakeBack
    <3> QED
      BY <1>1, <3>1 DEF Service!Work
  <2>3. CASE conn.state = "Error"
    <3>1. pendingSwitchID = NoConfig /\ armed = 0
      BY <2>3 DEF Core, SwitchPhase, ArmedPhase
    <3>2. conn' = Disconnected
      BY <1>5, <2>3, <3>1 DEF HandleDisconnect, Teardown, TeardownAttempt, TeardownArmed,
         TeardownUnarmed, Attempting
    <3>3. Service!Dismiss
      BY <2>1, <2>3, <3>1, <3>2 DEF Disconnected, Service!Dismiss, Service!Status
    <3> QED
      BY <1>1, <3>3 DEF Service!Work
  <2>4. CASE conn.state = "Disconnected"
    BY <1>5, <2>1, <2>4 DEF HandleDisconnect, Teardown, TeardownAttempt, TeardownArmed,
       TeardownUnarmed, Attempting, Core, SwitchPhase
  <2>5. CASE Teardown /\ conn.state # "Error"
    BY <2>1, <2>5, TeardownStatus
  <2> QED
    BY <1>5, <2>2, <2>3, <2>4, <2>5 DEF HandleDisconnect
<1>6. CASE HandleSwitch
  <2>1. Head(cmds).id \in ConfigID
    BY <1>6, TailType DEF HandleSwitch, Receive, TypeOK, Command
  <2>2. CASE conn.state \in Idle /\ StartConnect(Head(cmds).id)
             /\ pendingSwitchID' = pendingSwitchID
    BY <1>2, <2>1, <2>2
  <2>3. CASE conn.state \notin Idle \cup {"Disconnecting"} /\ Teardown
             /\ pendingSwitchID' = Head(cmds).id
    BY <2>1, <2>3, TeardownStatus DEF Idle
  <2>4. CASE UNCHANGED session
    BY <2>4
  <2> QED
    BY <1>6, <2>2, <2>3, <2>4 DEF HandleSwitch
<1>7. CASE HandleConnectProgress
  <2>1. CASE Head(cmds).gen = opGen /\ conn.state = "Validating"
    <3>1. conn' = [state |-> "Connecting", configID |-> conn.configID]
      BY <1>3, <1>7, <2>1 DEF HandleConnectProgress
    <3>2. Service!Progress
      BY <1>7, <2>1, <3>1 DEF HandleConnectProgress, Service!Progress, Service!Status
    <3> QED
      BY <1>1, <3>2 DEF Service!Work
  <2>2. CASE ~(Head(cmds).gen = opGen /\ conn.state = "Validating")
    BY <1>7, <2>2 DEF HandleConnectProgress
  <2> QED
    BY <2>1, <2>2
<1>8. CASE HandleConnectDone
  BY <1>8, ResultStatus
<1>9. CASE HandleDisconnectDone
  <2>1. 1 \in Ends
    BY <1>9, MailTaken DEF TypeOK, HandleDisconnectDone, Receive, Ends
  <2>2. conn.state = "Disconnecting"
    BY <2>1 DEF Core, AttemptPhase, RestPhase, NoCleanup, TypeOK, States, Attempting
  <2> QED
    BY <1>9, <2>2, FinishStatus DEF HandleDisconnectDone
<1>10. CASE HandleAutoRevert
  <2>1. CASE conn.state = "Error"
    <3>1. Service!Dismiss
      BY <1>10, <2>1 DEF HandleAutoRevert, Disconnected, Service!Dismiss, Service!Status
    <3> QED
      BY <1>1, <3>1 DEF Service!Work
  <2> QED
    BY <1>10, <2>1 DEF HandleAutoRevert
<1>11. CASE HandleChildExit
  <2>1. CASE conn.state = "Disconnecting"
    BY <1>11, <2>1 DEF HandleChildExit
  <2>2. CASE conn.state # "Disconnecting"
    <3>1. conn.state = "Connected"
      BY <1>11, <2>2 DEF HandleChildExit, Core, ArmedPhase
    <3>2. Service!Fail
      BY <1>11, <3>1 DEF HandleChildExit, Errored, Service!Fail, Service!Status
    <3> QED
      BY <1>1, <3>2 DEF Service!Work
  <2> QED
    BY <2>1, <2>2
<1>12. ~(HandleShutdown \/ DrainOnShutdown)
  BY DEF HandleShutdown, DrainOnShutdown, ShutdownEffect, Up
<1> QED
  BY <1>4, <1>5, <1>6, <1>7, <1>8, <1>9, <1>10, <1>11, <1>12 DEF Actor

(* The Machine implements the service: whatever the goroutines, late       *)
(* results, timers and deaths of the child do, a client sees the status    *)
(* move as TunnelService allows, until Shutdown.                           *)
THEOREM Refinement == Spec => ServiceSpec
<1>1. Init => Service!Init
  BY DEF Init, Up, Disconnected, Service!Init, Service!Status
<1>2. ASSUME IInv, [Next]_vars PROVE [Service!Next]_(Service!vars)
  <2>1. CASE ~Up'
    BY <2>1 DEF Service!Next
  <2>2. CASE Up'
    <3>1. Up /\ TypeOK /\ Core
      BY <1>2, <2>2, StopsForGood DEF IInv
    <3>2. (~Up)' = (~Up)
      BY <2>2, <3>1
    <3>3. CASE Actor
      BY <2>2, <3>1, <3>2, <3>3, ActorStatus DEF Service!Next, Service!vars
    <3>4. CASE ~Actor
      <4>1. UNCHANGED session
        BY <1>2, <3>4 DEF Next, WorkerStep, WorkerFrame, CleanupStops, CleanupReports,
           TimerFires, PostAutoRevert, Request, ChildDies, Shutdown, CallShutdown,
           AbandonShutdown, CancelMachine, ReturnFromShutdown, Terminated, vars, session
      <4> QED
        BY <3>2, <4>1 DEF session, Service!vars
    <3> QED
      BY <3>3, <3>4
  <2> QED
    BY <2>1, <2>2
<1> QED
  BY <1>1, <1>2, Invariance, PTL DEF Spec, ServiceSpec, Service!Spec
=============================================================================

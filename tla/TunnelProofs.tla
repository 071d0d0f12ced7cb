---------------------------- MODULE TunnelProofs ----------------------------
(***************************************************************************)
(* Theorems about Tunnel, for every number of configs, every capacity of   *)
(* the channel and every number of requests.                               *)
(*                                                                         *)
(* The inductive invariant says who is at work in each state of the        *)
(* Machine: during an attempt exactly one worker, or the result it posted, *)
(* with the current generation; during a teardown either that worker with  *)
(* an older generation or one cleanup goroutine, or what they posted; in   *)
(* the other states nobody.  Every child process that runs is in the hands *)
(* of one of them or of the armed cleanup stack.                           *)
(***************************************************************************)
EXTENDS Tunnel, TLAPS

(* The positions of the channel that hold a command of this type: the      *)
(* result of a worker, a note of progress, the report of a cleanup         *)
(* goroutine.                                                              *)
Mail(t) == {i \in 1 .. Len(cmds) : cmds[i].type = t}
Results == Mail("ConnectDone")
Notes   == Mail("ConnectProgress")
Ends    == Mail("DisconnectDone")

NoAttempt == workers = {} /\ Results = {}
NoCleanup == cleanups = {} /\ Ends = {}

(* Nothing outruns the generation counter.                                 *)
Fresh ==
    /\ \A w \in workers : 0 < w.gen /\ w.gen <= opGen
    /\ \A i \in Results : 0 < cmds[i].gen /\ cmds[i].gen <= opGen
    /\ \A i \in Notes : cmds[i].gen <= opGen

(* At most one attempt is under way: a worker or its result, not both.     *)
OneAttempt ==
    /\ \A v, w \in workers : v = w
    /\ \A i, j \in Results : i = j
    /\ workers = {} \/ Results = {}

OneCleanup ==
    /\ \A c, d \in cleanups : c = d
    /\ \A i, j \in Ends : i = j
    /\ cleanups = {} \/ Ends = {}

(* Who is at work in each state.                                           *)
AttemptPhase ==
    conn.state \in Attempting =>
        /\ ~NoAttempt /\ NoCleanup
        /\ cancelConnect = opGen
        /\ \A w \in workers : /\ w.gen = opGen /\ w.id = conn.configID
                              /\ ~w.canceled /\ w.outcome # "canceled"
        /\ \A i \in Results :
              /\ cmds[i].gen = opGen /\ cmds[i].id = conn.configID
              /\ cmds[i].outcome # "canceled"

TeardownPhase ==
    conn.state = "Disconnecting" =>
        /\ NoAttempt <=> ~NoCleanup
        /\ \A w \in workers : w.gen < opGen
        /\ \A i \in Results : cmds[i].gen < opGen
        /\ \A c \in cleanups : c.gen = opGen
        /\ \A i \in Ends : cmds[i].gen = opGen

RestPhase ==
    conn.state \in {"Disconnected", "Connected", "Error"} => NoAttempt /\ NoCleanup

(* The stack is armed exactly while Connected.                             *)
ArmedPhase ==
    IF conn.state = "Connected"
    THEN armed # 0 /\ child = armed /\ activeID = conn.configID
    ELSE armed = 0 /\ (conn.state # "Disconnecting" => child = 0)

(* Only a teardown can end in a queued switch.                             *)
SwitchPhase == conn.state # "Disconnecting" => pendingSwitchID = NoConfig

(* A worker has succeeded only when it is about to report.                 *)
OutcomePhase == \A w \in workers : w.outcome = "ok" => w.at = "report"

(* The note of progress is ahead of everything that follows it.            *)
Noted(w) == w.at \in {"preflight", "spawn", "probe", "socks"} \/ w.outcome = "ok"

ProgressFirst ==
    conn.state = "Validating" =>
        /\ \A w \in workers : Noted(w) => \E j \in Notes : cmds[j].gen = opGen
        /\ \A i \in Results : cmds[i].outcome = "ok" =>
              \E j \in Notes : j < i /\ cmds[j].gen = opGen

(* Every running child is in somebody's hands.                             *)
Holds(w) == w.at \in {"probe", "socks", "undo"} \/ w.outcome = "ok"

Held(g) ==
    \/ \E w \in workers : w.gen = g /\ Holds(w)
    \/ \E i \in Results : cmds[i].gen = g /\ cmds[i].outcome = "ok"
    \/ armed # 0 /\ g = armed
    \/ \E c \in cleanups : c.child = g /\ c.at = "stop"

Owned == ~KillFails => \A g \in alive : Held(g)

Core ==
    /\ Fresh /\ OneAttempt /\ OneCleanup
    /\ AttemptPhase /\ TeardownPhase /\ RestPhase /\ ArmedPhase /\ SwitchPhase
    /\ OutcomePhase /\ ProgressFirst
    /\ Owned
    /\ ServesLastRequest

ExitOrder == exited => ctxDone

IInv == TypeOK /\ ExitOrder /\ (Up => Core)

-----------------------------------------------------------------------------
(* Type correctness. *)

(* The commands the goroutines post are commands.                          *)
LEMMA CommandType ==
  ASSUME NEW t \in CmdType, NEW id \in ConfigID \cup {NoConfig}, NEW g \in Nat,
         NEW o \in Outcome \cup {"none"},
         t \in {"Connect", "Switch", "ConnectDone"} => id \in ConfigID
  PROVE  Cmd(t, id, g, o) \in Command
  BY DEF Cmd, Command

LEMMA StopType ==
  ASSUME NEW g, alive \in SUBSET Nat, StopChild(g)
  PROVE  alive' \in SUBSET Nat
  BY DEF StopChild

LEMMA TailType ==
  ASSUME cmds \in Seq(Command), cmds # <<>>
  PROVE  /\ Tail(cmds) \in Seq(Command)
         /\ Head(cmds) \in Command
  OBVIOUS

LEMMA CanceledType ==
  ASSUME workers \in SUBSET Worker, NEW g
  PROVE  Canceled(g) \in SUBSET Worker
  BY DEF Canceled, Worker

LEMMA StartType ==
  ASSUME TypeOK, NEW id \in ConfigID, StartConnect(id)
  PROVE  /\ opGen' \in Nat /\ cancelConnect' \in Nat
         /\ conn' \in [state : States, configID : ConfigID \cup {NoConfig}]
         /\ workers' \in SUBSET Worker
<1>1. opGen + 1 \in Nat
  BY DEF TypeOK
<1>2. [gen |-> opGen + 1, id |-> id, at |-> "validate", canceled |-> FALSE,
       outcome |-> "none"] \in Worker
  BY <1>1 DEF Worker, WorkerPoint
<1>3. [state |-> "Validating", configID |-> id] \in
          [state : States, configID : ConfigID \cup {NoConfig}]
  BY DEF States
<1>4. workers \in SUBSET Worker
  BY DEF TypeOK
<1> QED
  BY <1>1, <1>2, <1>3, <1>4 DEF StartConnect

LEMMA FinishType ==
  ASSUME TypeOK, FinishDisconnect
  PROVE  /\ opGen' \in Nat /\ cancelConnect' \in Nat /\ child' \in Nat
         /\ conn' \in [state : States, configID : ConfigID \cup {NoConfig}]
         /\ workers' \in SUBSET Worker
         /\ activeID' \in ConfigID \cup {NoConfig}
         /\ pendingSwitchID' \in ConfigID \cup {NoConfig}
<1>1. CASE pendingSwitchID # NoConfig
  <2>1. pendingSwitchID \in ConfigID
    BY <1>1 DEF TypeOK
  <2> QED
    BY <1>1, <2>1, StartType DEF FinishDisconnect
<1>2. CASE pendingSwitchID = NoConfig
  BY <1>2 DEF FinishDisconnect, TypeOK, Disconnected, States
<1> QED
  BY <1>1, <1>2

LEMMA TeardownType ==
  ASSUME TypeOK, Teardown
  PROVE  /\ opGen' \in Nat /\ cancelConnect' \in Nat /\ child' \in Nat /\ armed' \in Nat
         /\ conn' \in [state : States, configID : ConfigID \cup {NoConfig}]
         /\ workers' \in SUBSET Worker /\ cleanups' \in SUBSET Cleanup
         /\ activeID' \in ConfigID \cup {NoConfig}
<1>1. CASE TeardownAttempt
  BY <1>1, CanceledType DEF TeardownAttempt, TypeOK, States
<1>2. CASE TeardownArmed
  <2>1. [gen |-> opGen + 1, child |-> armed, at |-> "stop"] \in Cleanup
    BY DEF TypeOK, Cleanup
  <2>2. cleanups \in SUBSET Cleanup
    BY DEF TypeOK
  <2>3. cleanups' \in SUBSET Cleanup
    BY <1>2, <2>1, <2>2 DEF TeardownArmed
  <2> QED
    BY <1>2, <2>3 DEF TeardownArmed, TypeOK, States
<1>3. CASE TeardownUnarmed
  BY <1>3 DEF TeardownUnarmed, TypeOK, Disconnected, States
<1> QED
  BY <1>1, <1>2, <1>3 DEF Teardown

LEMMA WorkerType ==
  ASSUME TypeOK, NEW w \in workers, NEW p \in WorkerPoint, NEW o \in Outcome
  PROVE  At(w, p) \in Worker /\ Ended(w, o) \in Worker
<1>1. w \in Worker
  BY DEF TypeOK
<1> QED
  BY <1>1 DEF Worker, At, Ended, WorkerPoint

LEMMA InitType == Init => TypeOK
<1> SUFFICES ASSUME Init PROVE TypeOK
  OBVIOUS
<1>1. cmds \in Seq(Command)
  BY DEF Init
<1>2. conn \in [state : States, configID : ConfigID \cup {NoConfig}]
  BY DEF Init, Disconnected, States
<1>3. workers \in SUBSET Worker /\ cleanups \in SUBSET Cleanup /\ alive \in SUBSET Nat
  BY DEF Init
<1>4. autoRevert \in BOOLEAN /\ ctxDone \in BOOLEAN /\ exited \in BOOLEAN
  BY DEF Init
<1> QED
  BY <1>1, <1>2, <1>3, <1>4 DEF Init, TypeOK

(* TypeOK in two parts: the truth values are a matter for first-order      *)
(* reasoning, the rest for arithmetic and sets.                            *)
Flags ==
    /\ autoRevert \in BOOLEAN /\ ctxDone \in BOOLEAN /\ exited \in BOOLEAN
    /\ shutdown \in {"no", "posted", "done", "returned"}

Data ==
    /\ conn \in [state : States, configID : ConfigID \cup {NoConfig}]
    /\ armed \in Nat /\ child \in Nat /\ cancelConnect \in Nat /\ opGen \in Nat
    /\ activeID \in ConfigID \cup {NoConfig}
    /\ pendingSwitchID \in ConfigID \cup {NoConfig}
    /\ cmds \in Seq(Command)
    /\ workers \in SUBSET Worker
    /\ cleanups \in SUBSET Cleanup
    /\ reverts \in Nat
    /\ alive \in SUBSET Nat
    /\ requests \in Nat
    /\ wanted \in ConfigID \cup {NoConfig}

LEMMA TypeParts == /\ TypeOK => Flags /\ Data
                   /\ Flags' /\ Data' => TypeOK'
  BY DEF TypeOK, Flags, Data

LEMMA FlagsStep ==
  ASSUME Flags, [Next]_vars
  PROVE  Flags'
<1> USE DEF session, life, vars, Flags
<1>1. CASE Actor
  BY <1>1 DEF Actor, HandleConnect, HandleDisconnect, HandleSwitch, HandleConnectProgress,
     HandleConnectDone, HandleDisconnectDone, HandleAutoRevert, HandleChildExit,
     HandleShutdown, DrainOnShutdown, StaleResult, CurrentResult, ShutdownEffect
<1>2. ASSUME NEW w \in workers, WorkerStep(w) PROVE Flags'
  BY <1>2 DEF WorkerStep, WorkerFrame
<1>3. ASSUME NEW c \in cleanups, CleanupStops(c) \/ CleanupReports(c) PROVE Flags'
  BY <1>3 DEF CleanupStops, CleanupReports
<1>4. CASE TimerFires \/ PostAutoRevert \/ Request \/ ChildDies
  BY <1>4 DEF TimerFires, PostAutoRevert, Request, ChildDies
<1>5. CASE Shutdown
  BY <1>5 DEF Shutdown, CallShutdown, AbandonShutdown, CancelMachine, ReturnFromShutdown
<1>6. CASE Terminated \/ UNCHANGED vars
  BY <1>6 DEF Terminated
<1> QED
  BY <1>1, <1>2, <1>3, <1>4, <1>5, <1>6 DEF Next

LEMMA PostType ==
  ASSUME cmds \in Seq(Command), NEW c \in Command, PostOrDrop(c)
  PROVE  cmds' \in Seq(Command)
  BY DEF PostOrDrop, Post

LEMMA HandlerData ==
  ASSUME TypeOK, Actor
  PROVE  Data'
<1> USE DEF session, life
<1> DEFINE cmd == Head(cmds)
<1>0. Data
  BY TypeParts
<1>1. CASE HandleConnect
  <2>1. cmds' \in Seq(Command) /\ cmd \in Command /\ cmd.type = "Connect"
    BY <1>1, TailType DEF HandleConnect, Receive, TypeOK
  <2>2. cmd.id \in ConfigID
    BY <2>1 DEF Command
  <2> QED
    BY <1>0, <1>1, <2>1, <2>2, StartType DEF HandleConnect, Data
<1>2. CASE HandleDisconnect
  <2>1. cmds' \in Seq(Command)
    BY <1>2, TailType DEF HandleDisconnect, Receive, TypeOK
  <2> QED
    BY <1>0, <1>2, <2>1, TeardownType DEF HandleDisconnect, Data
<1>3. CASE HandleSwitch
  <2>1. cmds' \in Seq(Command) /\ cmd \in Command /\ cmd.type = "Switch"
    BY <1>3, TailType DEF HandleSwitch, Receive, TypeOK
  <2>2. cmd.id \in ConfigID
    BY <2>1 DEF Command
  <2> QED
    BY <1>0, <1>3, <2>1, <2>2, StartType, TeardownType DEF HandleSwitch, Data
<1>4. CASE HandleConnectProgress
  <2>1. cmds' \in Seq(Command)
    BY <1>4, TailType DEF HandleConnectProgress, Receive, TypeOK
  <2> QED
    BY <1>0, <1>4, <2>1 DEF HandleConnectProgress, Data, States
<1>5. CASE HandleConnectDone
  <2>1. cmds' \in Seq(Command) /\ cmd \in Command /\ cmd.type = "ConnectDone"
    BY <1>5, TailType DEF HandleConnectDone, Receive, TypeOK
  <2>2. cmd.id \in ConfigID /\ cmd.gen \in Nat
    BY <2>1 DEF Command
  <2>3. CASE StaleResult(cmd)
    <3>1. alive' \in SUBSET Nat
      BY <1>0, <2>3, StopType DEF StaleResult, Data
    <3> QED
      BY <1>0, <1>5, <2>1, <2>3, <3>1, FinishType DEF HandleConnectDone, StaleResult, Data
  <2>4. CASE CurrentResult(cmd)
    BY <1>0, <1>5, <2>1, <2>2, <2>4
       DEF HandleConnectDone, CurrentResult, Adopt, Disconnected, Errored, Data, States
  <2> QED
    BY <1>5, <2>3, <2>4 DEF HandleConnectDone
<1>6. CASE HandleDisconnectDone
  <2>1. cmds' \in Seq(Command)
    BY <1>6, TailType DEF HandleDisconnectDone, Receive, TypeOK
  <2> QED
    BY <1>0, <1>6, <2>1, FinishType DEF HandleDisconnectDone, Data
<1>7. CASE HandleAutoRevert
  <2>1. cmds' \in Seq(Command)
    BY <1>7, TailType DEF HandleAutoRevert, Receive, TypeOK
  <2> QED
    BY <1>0, <1>7, <2>1 DEF HandleAutoRevert, Data, Disconnected, States
<1>8. CASE HandleChildExit
  <2>1. alive' \in SUBSET Nat
    BY <1>0, <1>8, StopType DEF HandleChildExit, Data
  <2> QED
    BY <1>0, <1>8, <2>1 DEF HandleChildExit, Data, Errored, States
<1>9. CASE HandleShutdown \/ DrainOnShutdown
  <2>1. cmds' \in Seq(Command)
    <3>1. <<>> \in Seq(Command)
      OBVIOUS
    <3>2. CASE HandleShutdown
      BY <3>2, TailType DEF HandleShutdown, Receive, TypeOK
    <3>3. CASE DrainOnShutdown
      BY <3>1, <3>3 DEF DrainOnShutdown
    <3> QED
      BY <1>9, <3>2, <3>3
  <2>2. CASE ShutdownEffect
    <3>1. alive' \in SUBSET Nat /\ workers' \in SUBSET Worker
      BY <1>0, <2>2, StopType, CanceledType DEF ShutdownEffect, Data
    <3> QED
      BY <1>0, <2>1, <2>2, <3>1 DEF ShutdownEffect, Data, Disconnected, States
  <2>3. CASE UNCHANGED <<session, autoRevert, workers, cleanups, reverts, alive,
                         shutdown, requests, wanted>>
    BY <1>0, <2>1, <2>3 DEF Data
  <2> QED
    BY <1>9, <2>2, <2>3 DEF HandleShutdown, DrainOnShutdown
<1> QED
  BY <1>1, <1>2, <1>3, <1>4, <1>5, <1>6, <1>7, <1>8, <1>9 DEF Actor

LEMMA WorkerData ==
  ASSUME TypeOK, NEW w \in workers, WorkerStep(w)
  PROVE  Data'
<1> USE DEF session, life, WorkerFrame
<1>0. Data
  BY TypeParts
<1>1. w \in Worker /\ workers \in SUBSET Worker
  BY DEF TypeOK
<1>2. /\ w.gen \in Nat /\ w.id \in ConfigID /\ w.outcome \in Outcome \cup {"none"}
  BY <1>1 DEF Worker
<1>3. \A p \in WorkerPoint : At(w, p) \in Worker
  BY WorkerType DEF Outcome
<1>4. \A o \in Outcome : Ended(w, o) \in Worker
  BY WorkerType DEF WorkerPoint
<1>5. \A v \in Worker : Advance(w, v) => workers' \in SUBSET Worker
  BY <1>1 DEF Advance
<1>6. CASE WorkerFails(w)
  <2>1. Failures(w) \subseteq Outcome
    BY DEF Failures, Outcome
  <2>2. workers' \in SUBSET Worker
    BY <1>4, <1>5, <1>6, <2>1 DEF WorkerFails
  <2> QED
    BY <1>0, <1>6, <2>2 DEF WorkerStep, WorkerFails, Data
<1>7. CASE WorkerValidates(w) \/ WorkerPreflight(w) \/ WorkerSeesAlive(w)
  <2>1. workers' \in SUBSET Worker
    BY <1>3, <1>5, <1>7 DEF WorkerValidates, WorkerPreflight, WorkerSeesAlive, WorkerPoint
  <2> QED
    BY <1>0, <1>7, <2>1 DEF WorkerStep, WorkerValidates, WorkerPreflight, WorkerSeesAlive, Data
<1>8. CASE WorkerProgress(w)
  <2>1. Cmd("ConnectProgress", NoConfig, w.gen, "none") \in Command
    BY <1>2, CommandType DEF CmdType
  <2>2. cmds' \in Seq(Command)
    BY <1>0, <1>8, <2>1, PostType DEF WorkerProgress, PostOrDrop, Data
  <2>3. workers' \in SUBSET Worker
    BY <1>3, <1>5, <1>8 DEF WorkerProgress, WorkerPoint
  <2> QED
    BY <1>0, <1>8, <2>2, <2>3 DEF WorkerStep, WorkerProgress, Data
<1>9. CASE WorkerSpawns(w)
  <2>1. workers' \in SUBSET Worker
    BY <1>3, <1>5, <1>9 DEF WorkerSpawns, WorkerPoint
  <2>2. alive' \in SUBSET Nat
    BY <1>0, <1>2, <1>9 DEF WorkerSpawns, Data
  <2> QED
    BY <1>0, <1>9, <2>1, <2>2 DEF WorkerStep, WorkerSpawns, Data
<1>10. CASE WorkerSeesSocks(w)
  <2>1. workers' \in SUBSET Worker
    BY <1>4, <1>5, <1>10 DEF WorkerSeesSocks, Outcome
  <2> QED
    BY <1>0, <1>10, <2>1 DEF WorkerStep, WorkerSeesSocks, Data
<1>11. CASE WorkerUndoes(w)
  <2>1. workers' \in SUBSET Worker
    BY <1>3, <1>5, <1>11 DEF WorkerUndoes, WorkerPoint
  <2>2. alive' \in SUBSET Nat
    BY <1>0, <1>11, StopType DEF WorkerUndoes, Data
  <2> QED
    BY <1>0, <1>11, <2>1, <2>2 DEF WorkerStep, WorkerUndoes, Data
<1>12. CASE WorkerReports(w)
  <2>1. Cmd("ConnectDone", w.id, w.gen, w.outcome) \in Command
    BY <1>2, CommandType DEF CmdType
  <2>2. cmds' \in Seq(Command)
    BY <1>0, <1>12, <2>1, PostType DEF WorkerReports, Data
  <2>3. workers' \in SUBSET Worker
    BY <1>1, <1>12 DEF WorkerReports
  <2> QED
    BY <1>0, <1>12, <2>2, <2>3 DEF WorkerStep, WorkerReports, Data
<1> QED
  BY <1>6, <1>7, <1>8, <1>9, <1>10, <1>11, <1>12 DEF WorkerStep

LEMMA OtherData ==
  ASSUME TypeOK,
         \/ \E c \in cleanups : CleanupStops(c) \/ CleanupReports(c)
         \/ TimerFires \/ PostAutoRevert \/ Request \/ ChildDies \/ Shutdown \/ Terminated
  PROVE  Data'
<1> USE DEF session, life
<1>0. Data
  BY TypeParts
<1>1. ASSUME NEW c \in cleanups, CleanupStops(c) PROVE Data'
  <2>1. c \in Cleanup /\ cleanups \in SUBSET Cleanup
    BY DEF TypeOK
  <2>2. [c EXCEPT !.at = "report"] \in Cleanup
    BY <2>1 DEF Cleanup
  <2>3. cleanups' \in SUBSET Cleanup
    BY <1>1, <2>1, <2>2 DEF CleanupStops
  <2>4. alive' \in SUBSET Nat
    BY <1>0, <1>1, StopType DEF CleanupStops, Data
  <2> QED
    BY <1>0, <1>1, <2>3, <2>4 DEF CleanupStops, Data
<1>2. ASSUME NEW c \in cleanups, CleanupReports(c) PROVE Data'
  <2>1. c \in Cleanup /\ cleanups \in SUBSET Cleanup
    BY DEF TypeOK
  <2>2. Cmd("DisconnectDone", NoConfig, c.gen, "none") \in Command
    BY <2>1, CommandType DEF CmdType, Cleanup
  <2>3. cmds' \in Seq(Command)
    BY <1>0, <1>2, <2>2, PostType DEF CleanupReports, Data
  <2> QED
    BY <1>0, <1>2, <2>1, <2>3 DEF CleanupReports, Data
<1>3. CASE TimerFires
  BY <1>0, <1>3 DEF TimerFires, Data
<1>4. CASE PostAutoRevert
  <2>1. Cmd("AutoRevert", NoConfig, 0, "none") \in Command
    BY CommandType DEF CmdType
  <2>2. cmds' \in Seq(Command)
    BY <1>0, <1>4, <2>1, PostType DEF PostAutoRevert, Data
  <2> QED
    BY <1>0, <1>4, <2>2 DEF PostAutoRevert, Data
<1>5. CASE Request
  <2>1. \A type \in {"Connect", "Switch"}, id \in ConfigID :
            Cmd(type, id, 0, "none") \in Command
    BY CommandType DEF CmdType
  <2>2. Cmd("Disconnect", NoConfig, 0, "none") \in Command
    BY CommandType DEF CmdType
  <2>3. cmds' \in Seq(Command)
    BY <1>0, <1>5, <2>1, <2>2, PostType DEF Request, PostOrDrop, Data
  <2> QED
    BY <1>0, <1>5, <2>3 DEF Request, Data
<1>6. CASE ChildDies
  BY <1>0, <1>6 DEF ChildDies, Data
<1>7. CASE CallShutdown
  <2>1. Cmd("Shutdown", NoConfig, 0, "none") \in Command
    BY CommandType DEF CmdType
  <2>2. cmds' \in Seq(Command)
    BY <1>0, <1>7, <2>1, PostType DEF CallShutdown, PostOrDrop, Data
  <2> QED
    BY <1>0, <1>7, <2>2 DEF CallShutdown, Data
<1>8. CASE AbandonShutdown \/ CancelMachine \/ ReturnFromShutdown
  BY <1>0, <1>8 DEF AbandonShutdown, CancelMachine, ReturnFromShutdown, Data
<1>9. CASE Terminated
  BY <1>0, <1>9 DEF Terminated, vars, Data
<1> QED
  BY <1>1, <1>2, <1>3, <1>4, <1>5, <1>6, <1>7, <1>8, <1>9 DEF Shutdown

LEMMA TypeStep ==
  ASSUME TypeOK, [Next]_vars
  PROVE  TypeOK'
<1>1. Flags'
  BY TypeParts, FlagsStep
<1>2. Data'
  <2>1. CASE UNCHANGED vars
    BY <2>1, TypeParts DEF vars, session, life, Data
  <2>2. CASE Next
    BY <2>2, HandlerData, WorkerData, OtherData DEF Next
  <2> QED
    BY <2>1, <2>2
<1> QED
  BY <1>1, <1>2, TypeParts

(* The state keeps its shape, and every queued request, and every result,  *)
(* carries a config of the store: no handler is handed a zero ULID.        *)
THEOREM TypeCorrect == Spec => []TypeOK
  BY InitType, TypeStep, PTL DEF Spec

-----------------------------------------------------------------------------
(* The channel. *)

(* Taking a command shifts the others one place forward.                   *)
LEMMA Taken ==
  ASSUME cmds \in Seq(Command), cmds # <<>>, cmds' = Tail(cmds)
  PROVE  /\ Len(cmds) \in Nat /\ Len(cmds) > 0
         /\ Len(cmds') = Len(cmds) - 1
         /\ Head(cmds) = cmds[1]
         /\ \A i \in 1 .. Len(cmds') : cmds'[i] = cmds[i + 1]
  OBVIOUS

(* Posting a command leaves the others where they are.                     *)
LEMMA Posted ==
  ASSUME cmds \in Seq(Command), NEW c \in Command, Post(c)
  PROVE  /\ Len(cmds) \in Nat
         /\ Len(cmds') = Len(cmds) + 1
         /\ \A i \in 1 .. Len(cmds) : cmds'[i] = cmds[i]
         /\ cmds'[Len(cmds) + 1] = c
  BY DEF Post

(* A command of this type is in the channel.                               *)
Queued(type) == \E i \in 1 .. Len(cmds) : cmds[i].type = type

LEMMA QueuedTaken ==
  ASSUME cmds \in Seq(Command), NEW t, cmds # <<>>, cmds' = Tail(cmds),
         Queued(t), Head(cmds).type # t
  PROVE  Queued(t)'
<1>1. PICK i \in 1 .. Len(cmds) : cmds[i].type = t
  BY DEF Queued
<1>2. i # 1
  BY <1>1, Taken
<1>3. i - 1 \in 1 .. Len(cmds')
  BY <1>2, Taken
<1>4. cmds'[i - 1].type = t
  BY <1>1, <1>3, Taken
<1> QED
  BY <1>3, <1>4 DEF Queued

LEMMA QueuedPosted ==
  ASSUME cmds \in Seq(Command), NEW t, NEW c \in Command, Post(c)
  PROVE  /\ Queued(t) => Queued(t)'
         /\ c.type = t => Queued(t)'
<1>1. ASSUME Queued(t) PROVE Queued(t)'
  <2>1. PICK i \in 1 .. Len(cmds) : cmds[i].type = t
    BY <1>1 DEF Queued
  <2>2. i \in 1 .. Len(cmds') /\ cmds'[i].type = t
    BY <2>1, Posted
  <2> QED
    BY <2>2 DEF Queued
<1>2. ASSUME c.type = t PROVE Queued(t)'
  <2>1. Len(cmds) + 1 \in 1 .. Len(cmds') /\ cmds'[Len(cmds) + 1].type = t
    BY <1>2, Posted
  <2> QED
    BY <2>1 DEF Queued
<1> QED
  BY <1>1, <1>2

-----------------------------------------------------------------------------
(* Every Error is reverted. *)

Reverting == autoRevert \/ reverts > 0 \/ Queued("AutoRevert")

LEMMA RevertForm ==
  ASSUME cmds \in Seq(Command)
  PROVE  ErrorWillRevert <=> (conn.state = "Error" /\ ~ctxDone => Reverting)
<1>1. DOMAIN cmds = 1 .. Len(cmds)
  OBVIOUS
<1> QED
  BY <1>1 DEF ErrorWillRevert, Reverting, Queued

(* A step that keeps an Error keeps what will revert it.                   *)
LEMMA RevertKept ==
  ASSUME cmds \in Seq(Command), Reverting,
         autoRevert' = autoRevert, reverts' = reverts,
         \/ cmds' = cmds
         \/ cmds # <<>> /\ cmds' = Tail(cmds) /\ Head(cmds).type # "AutoRevert"
         \/ \E c \in Command : Post(c)
  PROVE  Reverting'
<1>1. Queued("AutoRevert") => Queued("AutoRevert")'
  BY QueuedTaken, QueuedPosted DEF Queued
<1> QED
  BY <1>1 DEF Reverting

(* After the handlers of the requests the state is not Error.              *)
LEMMA RequestHandlers ==
  ASSUME TypeOK, HandleConnect \/ HandleDisconnect \/ HandleSwitch
  PROVE  conn'.state # "Error"
<1>1. conn.state \in States
  BY DEF TypeOK
<1> USE <1>1 DEF session, Idle, Attempting, States
<1>2. CASE HandleConnect
  BY <1>2 DEF HandleConnect, StartConnect
<1>3. ASSUME Teardown PROVE conn'.state = "Disconnecting" \/ conn'.state = "Disconnected"
  BY <1>3 DEF Teardown, TeardownAttempt, TeardownArmed, TeardownUnarmed, Disconnected, TypeOK
<1>4. CASE HandleDisconnect
  BY <1>3, <1>4 DEF HandleDisconnect
<1>5. CASE HandleSwitch
  BY <1>3, <1>5 DEF HandleSwitch, StartConnect
<1> QED
  BY <1>2, <1>4, <1>5

LEMMA RevertActor ==
  ASSUME TypeOK, ErrorWillRevert, Actor, conn'.state = "Error", ~ctxDone'
  PROVE  Reverting'
<1> USE DEF session, life
<1>0. cmds \in Seq(Command) /\ (conn.state = "Error" /\ ~ctxDone => Reverting)
  BY RevertForm DEF TypeOK
<1>1. CASE HandleConnectProgress
  <2>1. conn.state = "Error" /\ ~ctxDone
    BY <1>1 DEF HandleConnectProgress, TypeOK
  <2> QED
    BY <1>0, <1>1, <2>1, RevertKept DEF HandleConnectProgress, Receive
<1>2. CASE HandleConnectDone
  <2>1. CASE StaleResult(Head(cmds))
    <3>1. conn.state = "Error" /\ ~ctxDone
      BY <1>2, <2>1 DEF HandleConnectDone, StaleResult, FinishDisconnect, StartConnect,
         Disconnected
    <3> QED
      BY <1>0, <1>2, <2>1, <3>1, RevertKept DEF HandleConnectDone, StaleResult, Receive
  <2>2. CASE CurrentResult(Head(cmds))
    <3>1. autoRevert'
      BY <2>2 DEF CurrentResult, Adopt, Disconnected
    <3> QED
      BY <3>1 DEF Reverting
  <2> QED
    BY <1>2, <2>1, <2>2 DEF HandleConnectDone
<1>3. CASE HandleDisconnectDone
  <2>1. conn.state = "Error" /\ ~ctxDone
    BY <1>3 DEF HandleDisconnectDone, FinishDisconnect, StartConnect, Disconnected
  <2> QED
    BY <1>0, <1>3, <2>1, RevertKept DEF HandleDisconnectDone, Receive
<1>4. CASE HandleChildExit
  <2>1. autoRevert'
    BY <1>4 DEF HandleChildExit
  <2> QED
    BY <2>1 DEF Reverting
<1>5. ASSUME HandleAutoRevert PROVE FALSE
  BY <1>5 DEF HandleAutoRevert, Disconnected
<1>6. ASSUME HandleShutdown \/ DrainOnShutdown PROVE FALSE
  BY <1>6 DEF HandleShutdown, DrainOnShutdown, ShutdownEffect, Disconnected
<1>7. ASSUME HandleConnect \/ HandleDisconnect \/ HandleSwitch PROVE FALSE
  BY <1>7, RequestHandlers
<1> QED
  BY <1>1, <1>2, <1>3, <1>4, <1>5, <1>6, <1>7 DEF Actor

LEMMA RevertStep ==
  ASSUME TypeOK, ErrorWillRevert, [Next]_vars
  PROVE  ErrorWillRevert'
<1> USE DEF session, life
<1>0. cmds \in Seq(Command) /\ cmds' \in Seq(Command)
  BY TypeStep DEF TypeOK
<1>1. conn.state = "Error" /\ ~ctxDone => Reverting
  BY <1>0, RevertForm
<1> SUFFICES ASSUME conn'.state = "Error", ~ctxDone' PROVE Reverting'
  <2>1. (conn.state = "Error" /\ ~ctxDone => Reverting)' => ErrorWillRevert'
    <3>1. DOMAIN cmds' = 1 .. Len(cmds')
      BY <1>0
    <3> QED
      BY <3>1 DEF ErrorWillRevert, Reverting, Queued
  <2> QED
    BY <2>1

<1>2. CASE Actor
  BY <1>2, RevertActor
<1>3. ASSUME ~Actor, Next PROVE conn.state = "Error" /\ ~ctxDone
  <2>1. ASSUME NEW w \in workers, WorkerStep(w) PROVE UNCHANGED <<conn, ctxDone>>
    BY <2>1 DEF WorkerStep, WorkerFrame
  <2>2. ASSUME NEW c \in cleanups, CleanupStops(c) \/ CleanupReports(c)
        PROVE  UNCHANGED <<conn, ctxDone>>
    BY <2>2 DEF CleanupStops, CleanupReports
  <2>3. CASE TimerFires \/ PostAutoRevert \/ Request \/ ChildDies \/ Terminated
    BY <2>3 DEF TimerFires, PostAutoRevert, Request, ChildDies, Terminated, vars
  <2>4. CASE Shutdown
    BY <2>4 DEF Shutdown, CallShutdown, AbandonShutdown, CancelMachine, ReturnFromShutdown
  <2> QED
    BY <1>3, <2>1, <2>2, <2>3, <2>4 DEF Next
<1>4. ASSUME NEW w \in workers, WorkerStep(w), Reverting PROVE Reverting'
  <2>1. w.gen \in Nat /\ w.id \in ConfigID /\ w.outcome \in Outcome \cup {"none"}
    BY DEF TypeOK, Worker
  <2>2. /\ Cmd("ConnectProgress", NoConfig, w.gen, "none") \in Command
        /\ Cmd("ConnectDone", w.id, w.gen, w.outcome) \in Command
    BY <2>1, CommandType DEF CmdType
  <2>3. cmds' = cmds \/ \E c \in Command : Post(c)
    <3>1. CASE WorkerProgress(w)
      BY <2>2, <3>1 DEF WorkerProgress
    <3>2. CASE WorkerReports(w)
      BY <2>2, <3>2 DEF WorkerReports, PostOrDrop
    <3>3. CASE ~WorkerProgress(w) /\ ~WorkerReports(w)
      BY <1>4, <3>3 DEF WorkerStep, WorkerFails, WorkerValidates, WorkerPreflight, WorkerSpawns,
         WorkerSeesAlive, WorkerSeesSocks, WorkerUndoes
    <3> QED
      BY <3>1, <3>2, <3>3
  <2>4. autoRevert' = autoRevert /\ reverts' = reverts
    BY <1>4 DEF WorkerStep, WorkerFrame
  <2> QED
    BY <1>0, <1>4, <2>3, <2>4, RevertKept
<1>5. ASSUME NEW c \in cleanups, CleanupStops(c) \/ CleanupReports(c), Reverting
      PROVE  Reverting'
  <2>1. Cmd("DisconnectDone", NoConfig, c.gen, "none") \in Command
    BY CommandType DEF CmdType, Cleanup, TypeOK
  <2>2. cmds' = cmds \/ \E d \in Command : Post(d)
    BY <1>5, <2>1 DEF CleanupStops, CleanupReports, PostOrDrop
  <2>3. autoRevert' = autoRevert /\ reverts' = reverts
    BY <1>5 DEF CleanupStops, CleanupReports
  <2> QED
    BY <1>0, <1>5, <2>2, <2>3, RevertKept
<1>6. ASSUME TimerFires PROVE Reverting'
  <2>1. reverts' > 0
    BY <1>6 DEF TimerFires, TypeOK
  <2> QED
    BY <2>1 DEF Reverting
<1>7. ASSUME PostAutoRevert, ~ctxDone PROVE Reverting'
  <2>1. Cmd("AutoRevert", NoConfig, 0, "none") \in Command
    BY CommandType DEF CmdType
  <2>2. Post(Cmd("AutoRevert", NoConfig, 0, "none"))
    BY <1>7 DEF PostAutoRevert, PostOrDrop
  <2>3. Queued("AutoRevert")'
    BY <1>0, <2>1, <2>2, QueuedPosted DEF Cmd
  <2> QED
    BY <2>3 DEF Reverting
<1>8. ASSUME Request, Reverting PROVE Reverting'
  <2>1. /\ \A type \in {"Connect", "Switch"}, id \in ConfigID :
              Cmd(type, id, 0, "none") \in Command
        /\ Cmd("Disconnect", NoConfig, 0, "none") \in Command
    BY CommandType DEF CmdType
  <2>2. \E d \in Command : Post(d)
    BY <1>8, <2>1 DEF Request
  <2>3. autoRevert' = autoRevert /\ reverts' = reverts
    BY <1>8 DEF Request
  <2> QED
    BY <1>0, <1>8, <2>2, <2>3, RevertKept
<1>9. ASSUME CallShutdown, Reverting PROVE Reverting'
  <2>1. Cmd("Shutdown", NoConfig, 0, "none") \in Command
    BY CommandType DEF CmdType
  <2>2. \E d \in Command : Post(d)
    BY <1>9, <2>1 DEF CallShutdown
  <2>3. autoRevert' = autoRevert /\ reverts' = reverts
    BY <1>9 DEF CallShutdown
  <2> QED
    BY <1>0, <1>9, <2>2, <2>3, RevertKept
<1>10. ASSUME Reverting, ChildDies \/ AbandonShutdown \/ CancelMachine \/ ReturnFromShutdown
              \/ Terminated \/ UNCHANGED vars
       PROVE  Reverting'
  <2>1. autoRevert' = autoRevert /\ reverts' = reverts /\ cmds' = cmds
    BY <1>10 DEF ChildDies, AbandonShutdown, CancelMachine, ReturnFromShutdown, Terminated, vars
  <2> QED
    BY <1>0, <1>10, <2>1, RevertKept
<1>11. CASE UNCHANGED vars
  <2>1. conn' = conn /\ ctxDone' = ctxDone
    BY <1>11 DEF vars
  <2> QED
    BY <1>1, <1>10, <1>11, <2>1
<1> QED
  BY <1>1, <1>2, <1>3, <1>4, <1>5, <1>6, <1>7, <1>8, <1>9, <1>10, <1>11 DEF Next, Shutdown

(* An Error never stays for good: whatever happens, a timer, a goroutine   *)
(* or a queued command is on its way to revert it.                         *)
THEOREM ErrorsRevert == Spec => []ErrorWillRevert
<1>1. Init => ErrorWillRevert
  BY DEF Init, ErrorWillRevert, Disconnected
<1>2. TypeOK /\ ErrorWillRevert /\ [Next]_vars => ErrorWillRevert'
  BY RevertStep
<1> QED
  BY <1>1, <1>2, TypeCorrect, PTL DEF Spec

-----------------------------------------------------------------------------
(* How the steps move the mail of the goroutines through the channel. *)

LEMMA MailTaken ==
  ASSUME cmds \in Seq(Command), cmds # <<>>, cmds' = Tail(cmds), NEW t
  PROVE  /\ \A i \in Mail(t)' : i + 1 \in Mail(t) /\ cmds'[i] = cmds[i + 1]
         /\ \A i \in Mail(t) : i # 1 => i - 1 \in Mail(t)' /\ cmds'[i - 1] = cmds[i]
         /\ 1 \in Mail(t) <=> Head(cmds).type = t
<1> USE Taken DEF Mail
<1>1. ASSUME NEW i \in Mail(t)' PROVE i + 1 \in Mail(t) /\ cmds'[i] = cmds[i + 1]
  OBVIOUS
<1>2. ASSUME NEW i \in Mail(t), i # 1 PROVE i - 1 \in Mail(t)' /\ cmds'[i - 1] = cmds[i]
  <2>1. i - 1 \in 1 .. Len(cmds')
    BY <1>2
  <2> QED
    BY <2>1
<1>3. 1 \in Mail(t) <=> Head(cmds).type = t
  OBVIOUS
<1> QED
  BY <1>1, <1>2, <1>3

LEMMA MailPosted ==
  ASSUME cmds \in Seq(Command), NEW c \in Command, Post(c), NEW t
  PROVE  /\ \A i \in Mail(t) : i \in Mail(t)' /\ cmds'[i] = cmds[i]
         /\ \A i \in Mail(t)' : i \in Mail(t) \/ (c.type = t /\ i = Len(cmds) + 1)
         /\ c.type = t => Len(cmds) + 1 \in Mail(t)'
         /\ cmds'[Len(cmds) + 1] = c
         /\ \A i \in Mail(t) : i < Len(cmds) + 1
  BY Posted DEF Mail

(* A step moves the mail of a type by k places.                            *)
Moved(k, t) ==
    /\ \A i \in Mail(t)' : i + k \in Mail(t) /\ cmds'[i] = cmds[i + k]
    /\ \A i \in Mail(t) : i - k \in Mail(t)' /\ cmds'[i - k] = cmds[i]

(* A quiet step takes or posts no mail of a goroutine.                     *)
MailTypes == {"ConnectDone", "ConnectProgress", "DisconnectDone"}
Quiet == \E k \in {0, 1} : \A t \in MailTypes : Moved(k, t)

LEMMA QuietTaken ==
  ASSUME cmds \in Seq(Command), cmds # <<>>, cmds' = Tail(cmds),
         Head(cmds).type \notin MailTypes
  PROVE  Quiet
<1>1. ASSUME NEW t \in MailTypes PROVE Moved(1, t)
  <2>1. /\ \A i \in Mail(t)' : i + 1 \in Mail(t) /\ cmds'[i] = cmds[i + 1]
        /\ \A i \in Mail(t) : i # 1 => i - 1 \in Mail(t)' /\ cmds'[i - 1] = cmds[i]
        /\ 1 \in Mail(t) <=> Head(cmds).type = t
    BY MailTaken
  <2>2. 1 \notin Mail(t)
    BY <2>1
  <2> QED
    BY <2>1, <2>2 DEF Moved
<1>2. 1 \in {0, 1}
  OBVIOUS
<1> QED
  BY <1>1, <1>2 DEF Quiet

LEMMA QuietPosted ==
  ASSUME cmds \in Seq(Command), NEW c \in Command, Post(c), c.type \notin MailTypes
  PROVE  Quiet
<1>1. ASSUME NEW t \in MailTypes PROVE Moved(0, t)
  <2>1. \A i \in Mail(t) : i \in Mail(t)' /\ cmds'[i] = cmds[i]
    BY MailPosted
  <2>2. \A i \in Mail(t)' : i \in Mail(t)
    BY MailPosted
  <2>3. \A i : i \in Mail(t) \/ i \in Mail(t)' => i + 0 = i /\ i - 0 = i
    BY DEF Mail
  <2> QED
    BY <2>1, <2>2, <2>3 DEF Moved
<1> QED
  BY <1>1 DEF Quiet

LEMMA QuietSame ==
  ASSUME cmds' = cmds
  PROVE  Quiet
<1>1. ASSUME NEW t \in MailTypes PROVE Moved(0, t)
  <2>1. Mail(t)' = Mail(t)
    BY DEF Mail
  <2>2. \A i \in Mail(t) : i + 0 = i /\ i - 0 = i
    BY DEF Mail
  <2> QED
    BY <2>1, <2>2 DEF Moved
<1> QED
  BY <1>1 DEF Quiet

(* A quiet step leaves no mail where there was none.                       *)
LEMMA QuietEmpty ==
  ASSUME Quiet
  PROVE  /\ Results = {} => Results' = {}
         /\ Ends = {} => Ends' = {}
         /\ (\A i \in Notes : cmds[i].gen <= opGen) => \A i \in Notes' : cmds'[i].gen <= opGen
<1>1. PICK k \in {0, 1} : \A t \in MailTypes : Moved(k, t)
  BY DEF Quiet
<1>2. Moved(k, "ConnectDone") /\ Moved(k, "DisconnectDone") /\ Moved(k, "ConnectProgress")
  BY <1>1 DEF MailTypes
<1> QED
  BY <1>2 DEF Moved, Results, Ends, Notes

-----------------------------------------------------------------------------
(* Ways to arrive in a state that satisfies the core of the invariant. *)

(* Nobody is at work and no child runs.                                    *)
LEMMA RestCore ==
  ASSUME NoAttempt', NoCleanup', conn'.state \in Idle,
         armed' = 0, child' = 0, pendingSwitchID' = NoConfig,
         \A i \in Notes' : cmds'[i].gen <= opGen',
         ~KillFails => alive' = {}
  PROVE  Core'
<1> USE DEF NoAttempt, NoCleanup, Idle
<1>1. Fresh' /\ OneAttempt' /\ OneCleanup'
  BY DEF Fresh, OneAttempt, OneCleanup
<1>2. AttemptPhase' /\ TeardownPhase' /\ RestPhase'
  BY DEF AttemptPhase, TeardownPhase, RestPhase, Attempting
<1>3. ArmedPhase' /\ SwitchPhase' /\ OutcomePhase' /\ ProgressFirst'
  BY DEF ArmedPhase, SwitchPhase, OutcomePhase, ProgressFirst
<1>4. Owned'
  BY DEF Owned
<1>5. ServesLastRequest'
  BY DEF ServesLastRequest, Attempting
<1> QED
  BY <1>1, <1>2, <1>3, <1>4, <1>5 DEF Core

(* An attempt has just started and nothing else is going on.               *)
LEMMA StartCore ==
  ASSUME opGen \in Nat, NEW id, StartConnect(id), workers = {}, Results' = {}, NoCleanup',
         armed' = 0, child' = 0, pendingSwitchID' = NoConfig, wanted' = id,
         \A i \in Notes' : cmds'[i].gen \in Nat /\ cmds'[i].gen <= opGen,
         ~KillFails => alive' = {}
  PROVE  Core'
<1> DEFINE new == [gen |-> opGen + 1, id |-> id, at |-> "validate", canceled |-> FALSE,
                   outcome |-> "none"]
<1>1. /\ workers' = {new} /\ opGen' = opGen + 1 /\ cancelConnect' = opGen + 1
      /\ conn'.state = "Validating" /\ conn'.configID = id
  BY DEF StartConnect
<1>2. /\ new.gen = opGen + 1 /\ new.id = id /\ new.at = "validate" /\ ~new.canceled
      /\ new.outcome = "none"
  OBVIOUS
<1> HIDE DEF new
<1> USE <1>1, <1>2 DEF NoAttempt, NoCleanup
<1>3. Fresh' /\ OneAttempt' /\ OneCleanup'
  BY DEF Fresh, OneAttempt, OneCleanup
<1>4. AttemptPhase' /\ TeardownPhase' /\ RestPhase'
  BY DEF AttemptPhase, TeardownPhase, RestPhase
<1>5. ArmedPhase' /\ SwitchPhase' /\ OutcomePhase' /\ ProgressFirst'
  BY DEF ArmedPhase, SwitchPhase, OutcomePhase, ProgressFirst, Noted
<1>6. Owned'
  BY DEF Owned
<1>7. ServesLastRequest'
  BY DEF ServesLastRequest
<1> QED
  BY <1>3, <1>4, <1>5, <1>6, <1>7 DEF Core

(* A quiet step that at most lets children die, or changes what follows a  *)
(* teardown.                                                               *)
LEMMA QuietCore ==
  ASSUME TypeOK, Core, Up, Quiet, alive' \subseteq alive,
         UNCHANGED <<conn, armed, activeID, cancelConnect, opGen, workers, cleanups>>,
         child' = child \/ conn.state = "Disconnecting",
         \/ UNCHANGED <<pendingSwitchID, wanted>>
         \/ conn.state = "Disconnecting" /\ pendingSwitchID' = wanted'
  PROVE  Core'
<1>1. PICK k \in {0, 1} : \A t \in MailTypes : Moved(k, t)
  BY DEF Quiet
<1>2. Moved(k, "ConnectDone") /\ Moved(k, "DisconnectDone") /\ Moved(k, "ConnectProgress")
  BY <1>1 DEF MailTypes
<1>3. /\ \A i \in Results' : i + k \in Results /\ cmds'[i] = cmds[i + k]
      /\ \A i \in Results : i - k \in Results' /\ cmds'[i - k] = cmds[i]
      /\ \A i \in Ends' : i + k \in Ends /\ cmds'[i] = cmds[i + k]
      /\ \A i \in Ends : i - k \in Ends' /\ cmds'[i - k] = cmds[i]
      /\ \A i \in Notes' : i + k \in Notes /\ cmds'[i] = cmds[i + k]
      /\ \A i \in Notes : i - k \in Notes' /\ cmds'[i - k] = cmds[i]
  BY <1>2 DEF Moved, Results, Ends, Notes
<1>4. k \in Nat /\ \A i \in Results' \cup Ends' \cup Notes' \cup Results \cup Ends \cup Notes : i \in Nat
  BY DEF Results, Ends, Notes, Mail
<1>5. Fresh' /\ OneAttempt' /\ OneCleanup'
  <2>1. Fresh /\ OneAttempt /\ OneCleanup
    BY DEF Core
  <2>2. Fresh'
    BY <1>3, <2>1 DEF Fresh
  <2>3. OneAttempt'
    <3>1. ASSUME NEW i \in Results', NEW j \in Results' PROVE i = j
      <4>1. i + k = j + k
        BY <1>3, <2>1 DEF OneAttempt
      <4> QED
        BY <1>4, <4>1
    <3>2. workers' = {} \/ Results' = {}
      BY <1>3, <2>1 DEF OneAttempt
    <3> QED
      BY <2>1, <3>1, <3>2 DEF OneAttempt
  <2>4. OneCleanup'
    <3>1. ASSUME NEW i \in Ends', NEW j \in Ends' PROVE i = j
      <4>1. i + k = j + k
        BY <1>3, <2>1 DEF OneCleanup
      <4> QED
        BY <1>4, <4>1
    <3>2. cleanups' = {} \/ Ends' = {}
      BY <1>3, <2>1 DEF OneCleanup
    <3> QED
      BY <2>1, <3>1, <3>2 DEF OneCleanup
  <2> QED
    BY <2>2, <2>3, <2>4
<1>6. (Results' = {} <=> Results = {}) /\ (Ends' = {} <=> Ends = {})
  BY <1>3
<1>7. (NoAttempt' <=> NoAttempt) /\ (NoCleanup' <=> NoCleanup)
  BY <1>6 DEF NoAttempt, NoCleanup
<1>8. AttemptPhase'
  BY <1>3, <1>7 DEF Core, AttemptPhase
<1>9. TeardownPhase'
  BY <1>3, <1>7 DEF Core, TeardownPhase
<1>10. RestPhase'
  BY <1>7 DEF Core, RestPhase
<1>11. ArmedPhase' /\ SwitchPhase' /\ OutcomePhase'
  BY DEF Core, ArmedPhase, SwitchPhase, OutcomePhase
<1>12. ProgressFirst'
  <2> SUFFICES ASSUME conn.state = "Validating"
      PROVE  /\ \A w \in workers : Noted(w) => \E j \in Notes' : cmds'[j].gen = opGen
             /\ \A i \in Results' : cmds'[i].outcome = "ok" =>
                    \E j \in Notes' : j < i /\ cmds'[j].gen = opGen
    BY DEF ProgressFirst
  <2>1. ProgressFirst
    BY DEF Core
  <2>2. ASSUME NEW w \in workers, Noted(w)
        PROVE  \E j \in Notes' : cmds'[j].gen = opGen
    <3>1. PICK j \in Notes : cmds[j].gen = opGen
      BY <2>1, <2>2 DEF ProgressFirst
    <3> QED
      BY <1>3, <3>1
  <2>3. ASSUME NEW i \in Results', cmds'[i].outcome = "ok"
        PROVE  \E j \in Notes' : j < i /\ cmds'[j].gen = opGen
    <3>1. i + k \in Results /\ cmds[i + k].outcome = "ok"
      BY <1>3, <2>3
    <3>2. PICK j \in Notes : j < i + k /\ cmds[j].gen = opGen
      BY <2>1, <3>1 DEF ProgressFirst
    <3>3. j - k \in Notes' /\ cmds'[j - k].gen = opGen
      BY <1>3, <3>2
    <3>4. j - k < i
      BY <1>4, <3>2
    <3> QED
      BY <3>3, <3>4
  <2> QED
    BY <2>2, <2>3
<1>13. Owned'
  <2> SUFFICES ASSUME ~KillFails, NEW g \in alive' PROVE Held(g)'
    BY DEF Owned
  <2>1. Held(g)
    BY DEF Core, Owned
  <2>2. CASE \E i \in Results : cmds[i].gen = g /\ cmds[i].outcome = "ok"
    BY <1>3, <2>2 DEF Held
  <2> QED
    BY <2>1, <2>2 DEF Held
<1>14. ServesLastRequest'
  BY DEF Core, ServesLastRequest, Attempting
<1> QED
  BY <1>5, <1>8, <1>9, <1>10, <1>11, <1>12, <1>13, <1>14 DEF Core

-----------------------------------------------------------------------------
(* The handlers of the requests. *)

LEMMA NotesTaken ==
  ASSUME TypeOK, Core, cmds # <<>>, cmds' = Tail(cmds)
  PROVE  \A i \in Notes' : cmds'[i].gen \in Nat /\ cmds'[i].gen <= opGen
<1> SUFFICES ASSUME NEW i \in Notes' PROVE cmds'[i].gen \in Nat /\ cmds'[i].gen <= opGen
  OBVIOUS
<1>1. cmds \in Seq(Command)
  BY DEF TypeOK
<1>2. i + 1 \in Notes /\ cmds'[i] = cmds[i + 1]
  BY <1>1, MailTaken DEF Notes
<1>3. cmds[i + 1] \in Command
  BY <1>1, <1>2 DEF Notes, Mail
<1>4. cmds[i + 1].gen \in Nat
  BY <1>3 DEF Command
<1>5. cmds[i + 1].gen <= opGen
  BY <1>2 DEF Core, Fresh
<1> QED
  BY <1>2, <1>4, <1>5

(* Taking a request is quiet.                                              *)
LEMMA RequestQuiet ==
  ASSUME TypeOK, NEW t, t \notin MailTypes, Receive(t)
  PROVE  Quiet /\ cmds # <<>> /\ cmds' = Tail(cmds)
<1>1. cmds \in Seq(Command)
  BY DEF TypeOK
<1> QED
  BY <1>1, QuietTaken DEF Receive

(* In an idle state nobody is at work and no child runs.                   *)
LEMMA IdleFacts ==
  ASSUME Core, conn.state \in Idle
  PROVE  /\ NoAttempt /\ NoCleanup /\ armed = 0 /\ child = 0 /\ pendingSwitchID = NoConfig
         /\ ~KillFails => alive = {}
<1>1. NoAttempt /\ NoCleanup /\ armed = 0 /\ child = 0 /\ pendingSwitchID = NoConfig
  BY DEF Core, RestPhase, ArmedPhase, SwitchPhase, Idle
<1>2. ASSUME ~KillFails PROVE alive = {}
  BY <1>1, <1>2 DEF Core, Owned, Held, NoAttempt, NoCleanup
<1> QED
  BY <1>1, <1>2

LEMMA ConnectCore ==
  ASSUME TypeOK, Core, Up, HandleConnect
  PROVE  Core'
<1> USE DEF session, life
<1>1. Quiet /\ cmds # <<>> /\ cmds' = Tail(cmds)
  BY RequestQuiet DEF HandleConnect, MailTypes
<1>2. CASE conn.state \in Idle
  <2>1. /\ NoAttempt /\ NoCleanup /\ armed = 0 /\ child = 0 /\ pendingSwitchID = NoConfig
        /\ ~KillFails => alive = {}
    BY <1>2, IdleFacts
  <2>2. /\ workers = {} /\ Results' = {} /\ NoCleanup'
        /\ armed' = 0 /\ child' = 0 /\ pendingSwitchID' = NoConfig
        /\ ~KillFails => alive' = {}
    BY <1>1, <2>1, QuietEmpty DEF HandleConnect, NoAttempt, NoCleanup
  <2>3. opGen \in Nat /\ \A i \in Notes' : cmds'[i].gen \in Nat /\ cmds'[i].gen <= opGen
    BY <1>1, NotesTaken DEF TypeOK
  <2>4. StartConnect(Head(cmds).id) /\ wanted' = Head(cmds).id
    BY <1>2 DEF HandleConnect
  <2> QED
    BY <2>2, <2>3, <2>4, StartCore
<1>3. CASE conn.state \notin Idle
  BY <1>1, <1>3, QuietCore DEF HandleConnect
<1> QED
  BY <1>2, <1>3

(* Cancelling a context changes nothing else of a worker.                  *)
LEMMA CanceledFacts ==
  ASSUME workers \in SUBSET Worker, NEW g
  PROVE  /\ \A v \in Canceled(g) : \E w \in workers :
               v.gen = w.gen /\ v.id = w.id /\ v.at = w.at /\ v.outcome = w.outcome
         /\ \A w \in workers : \E v \in Canceled(g) :
               v.gen = w.gen /\ v.id = w.id /\ v.at = w.at /\ v.outcome = w.outcome
         /\ (\A v, w \in workers : v = w) => (\A v, w \in Canceled(g) : v = w)
<1> DEFINE c(w) == IF w.gen = g THEN [w EXCEPT !.canceled = TRUE] ELSE w
<1>1. Canceled(g) = {c(w) : w \in workers}
  BY DEF Canceled
<1>2. ASSUME NEW w \in workers
      PROVE  c(w).gen = w.gen /\ c(w).id = w.id /\ c(w).at = w.at /\ c(w).outcome = w.outcome
  <2>1. w \in Worker
    OBVIOUS
  <2> QED
    BY <2>1 DEF Worker
<1> HIDE DEF c
<1> QED
  BY <1>1, <1>2

LEMMA TeardownCore ==
  ASSUME TypeOK, Core, Up, Quiet, Teardown, UNCHANGED alive,
         NEW n, pendingSwitchID' = n, wanted' = n, n = NoConfig \/ conn.state # "Error",
         \A i \in Notes' : cmds'[i].gen \in Nat /\ cmds'[i].gen <= opGen
  PROVE  Core'
<1>0. /\ opGen \in Nat /\ conn.state \in States /\ workers \in SUBSET Worker
      /\ conn \in [state : States, configID : ConfigID \cup {NoConfig}]
  BY DEF TypeOK
<1>1. CASE TeardownAttempt
  <2>1. /\ conn.state \in Attempting /\ opGen' = opGen + 1 /\ workers' = Canceled(cancelConnect)
        /\ conn'.state = "Disconnecting"
        /\ UNCHANGED <<armed, child, activeID, cleanups>>
    BY <1>0, <1>1 DEF TeardownAttempt
  <2>2. /\ ~NoAttempt /\ NoCleanup
        /\ \A w \in workers : w.gen = opGen
        /\ \A i \in Results : cmds[i].gen = opGen
    BY <2>1 DEF Core, AttemptPhase
  <2>3. \A i \in Results' : \E j \in Results : cmds'[i] = cmds[j]
    BY DEF Quiet, Moved, MailTypes, Results
  <2>4. \A i \in Results : \E j \in Results' : cmds'[j] = cmds[i]
    BY DEF Quiet, Moved, MailTypes, Results
  <2>5. /\ \A v \in workers' : \E w \in workers :
              v.gen = w.gen /\ v.id = w.id /\ v.at = w.at /\ v.outcome = w.outcome
        /\ \A w \in workers : \E v \in workers' :
              v.gen = w.gen /\ v.id = w.id /\ v.at = w.at /\ v.outcome = w.outcome
        /\ \A v, w \in workers' : v = w
    BY <1>0, <2>1, CanceledFacts DEF Core, OneAttempt
  <2>6. Fresh'
    <3>1. \A w \in workers' : 0 < w.gen /\ w.gen <= opGen'
      BY <1>0, <2>1, <2>2, <2>5 DEF Core, Fresh
    <3>2. \A i \in Results' : 0 < cmds'[i].gen /\ cmds'[i].gen <= opGen'
      BY <1>0, <2>1, <2>2, <2>3 DEF Core, Fresh
    <3>3. \A i \in Notes' : cmds'[i].gen <= opGen'
      BY <1>0, <2>1
    <3> QED
      BY <3>1, <3>2, <3>3 DEF Fresh
  <2>7. OneAttempt' /\ OneCleanup'
    <3>1. \A i, j \in Results' : i = j
      <4>1. PICK k \in {0, 1} : Moved(k, "ConnectDone")
        BY DEF Quiet, MailTypes
      <4>2. ASSUME NEW i \in Results', NEW j \in Results' PROVE i = j
        <5>1. i + k \in Results /\ j + k \in Results /\ i \in Nat /\ j \in Nat /\ k \in Nat
          BY <4>1 DEF Moved, Results, Mail
        <5>2. i + k = j + k
          BY <5>1 DEF Core, OneAttempt
        <5> QED
          BY <5>1, <5>2
      <4> QED
        BY <4>2
    <3>2. workers' = {} \/ Results' = {}
      BY <2>3, <2>5 DEF Core, OneAttempt
    <3>3. cleanups' = {} /\ Ends' = {}
      BY <2>1, <2>2, QuietEmpty DEF NoCleanup
    <3> QED
      BY <2>5, <3>1, <3>2, <3>3 DEF OneAttempt, OneCleanup
  <2>8. AttemptPhase' /\ RestPhase' /\ SwitchPhase' /\ ProgressFirst'
    BY <2>1 DEF AttemptPhase, RestPhase, SwitchPhase, ProgressFirst, Attempting
  <2>9. TeardownPhase'
    <3>1. NoCleanup' /\ ~NoAttempt'
      BY <2>1, <2>2, <2>4, <2>5, QuietEmpty DEF NoCleanup, NoAttempt
    <3>2. \A w \in workers' : w.gen < opGen'
      BY <1>0, <2>1, <2>2, <2>5
    <3>3. \A i \in Results' : cmds'[i].gen < opGen'
      BY <1>0, <2>1, <2>2, <2>3
    <3> QED
      BY <3>1, <3>2, <3>3 DEF TeardownPhase, NoCleanup
  <2>10. ArmedPhase'
    BY <2>1 DEF Core, ArmedPhase, Attempting
  <2>11. OutcomePhase'
    BY <2>5 DEF Core, OutcomePhase
  <2>12. Owned'
    <3> SUFFICES ASSUME ~KillFails, NEW g \in alive PROVE Held(g)'
      BY DEF Owned
    <3>1. Held(g)
      BY DEF Core, Owned
    <3> QED
      BY <2>1, <2>4, <2>5, <3>1 DEF Held, Holds
  <2>13. ServesLastRequest'
    BY <2>1 DEF ServesLastRequest, Attempting
  <2> QED
    BY <2>6, <2>7, <2>8, <2>9, <2>10, <2>11, <2>12, <2>13 DEF Core
<1>2. CASE TeardownArmed
  <2> DEFINE new == [gen |-> opGen + 1, child |-> armed, at |-> "stop"]
  <2>1. /\ conn.state = "Connected" /\ armed # 0
    BY <1>2 DEF TeardownArmed, Core, ArmedPhase
  <2>2. NoAttempt /\ NoCleanup
    BY <2>1 DEF Core, RestPhase
  <2>3. new.gen = opGen + 1 /\ new.child = armed /\ new.at = "stop"
    OBVIOUS
  <2>4. /\ opGen' = opGen + 1 /\ armed' = 0 /\ conn'.state = "Disconnecting"
        /\ cleanups' = {new} /\ workers' = {} /\ Results' = {} /\ Ends' = {}
    BY <1>0, <1>2, <2>2, QuietEmpty DEF TeardownArmed, NoAttempt, NoCleanup
  <2> HIDE DEF new
  <2> USE <1>0, <2>3, <2>4 DEF NoAttempt, NoCleanup
  <2>5. Fresh' /\ OneAttempt' /\ OneCleanup'
    BY DEF Fresh, OneAttempt, OneCleanup
  <2>6. AttemptPhase' /\ TeardownPhase' /\ RestPhase'
    BY DEF AttemptPhase, TeardownPhase, RestPhase, Attempting
  <2>7. ArmedPhase' /\ SwitchPhase' /\ OutcomePhase' /\ ProgressFirst'
    BY DEF ArmedPhase, SwitchPhase, OutcomePhase, ProgressFirst
  <2>8. Owned'
    BY <2>2 DEF Core, Owned, Held
  <2>9. ServesLastRequest'
    BY DEF ServesLastRequest, Attempting
  <2> QED
    BY <2>5, <2>6, <2>7, <2>8, <2>9 DEF Core
<1>3. CASE TeardownUnarmed
  <2>1. conn.state \in Idle /\ n = NoConfig
    BY <1>3 DEF TeardownUnarmed, Core, ArmedPhase, Idle
  <2>2. /\ NoAttempt /\ NoCleanup /\ armed = 0
        /\ ~KillFails => alive = {}
    BY <2>1, IdleFacts
  <2>3. NoAttempt' /\ NoCleanup'
    BY <1>3, <2>2, QuietEmpty DEF NoAttempt, NoCleanup, TeardownUnarmed
  <2>4. conn'.state \in Idle /\ armed' = 0 /\ child' = 0 /\ opGen' = opGen
    BY <1>3, <2>2 DEF TeardownUnarmed, Disconnected, Idle
  <2> QED
    BY <2>1, <2>2, <2>3, <2>4, RestCore
<1> QED
  BY <1>1, <1>2, <1>3 DEF Teardown

LEMMA DisconnectCore ==
  ASSUME TypeOK, Core, Up, HandleDisconnect
  PROVE  Core'
<1> USE DEF life
<1>1. Quiet /\ cmds # <<>> /\ cmds' = Tail(cmds)
  BY RequestQuiet DEF HandleDisconnect, MailTypes
<1>2. \A i \in Notes' : cmds'[i].gen \in Nat /\ cmds'[i].gen <= opGen
  BY <1>1, NotesTaken
<1>3. pendingSwitchID' = NoConfig /\ wanted' = NoConfig /\ UNCHANGED alive
  BY DEF HandleDisconnect
<1>4. CASE Teardown
  BY <1>1, <1>2, <1>3, <1>4, TeardownCore
<1>5. CASE ~Teardown /\ conn.state = "Disconnecting"
  BY <1>1, <1>3, <1>5, QuietCore DEF HandleDisconnect
<1>6. CASE ~Teardown /\ conn.state = "Disconnected"
  <2>1. /\ conn.state \in Idle
        /\ UNCHANGED <<conn, armed, child, opGen, workers, cleanups>>
    BY <1>6 DEF HandleDisconnect, Idle
  <2>2. /\ NoAttempt /\ NoCleanup /\ armed = 0 /\ child = 0
        /\ ~KillFails => alive = {}
    BY <2>1, IdleFacts
  <2>3. NoAttempt' /\ NoCleanup'
    BY <1>1, <2>1, <2>2, QuietEmpty DEF NoAttempt, NoCleanup
  <2> QED
    BY <1>2, <1>3, <2>1, <2>2, <2>3, RestCore
<1> QED
  BY <1>4, <1>5, <1>6 DEF HandleDisconnect

LEMMA SwitchCore ==
  ASSUME TypeOK, Core, Up, HandleSwitch
  PROVE  Core'
<1> USE DEF session, life
<1>1. Quiet /\ cmds # <<>> /\ cmds' = Tail(cmds)
  BY RequestQuiet DEF HandleSwitch, MailTypes
<1>2. opGen \in Nat /\ \A i \in Notes' : cmds'[i].gen \in Nat /\ cmds'[i].gen <= opGen
  BY <1>1, NotesTaken DEF TypeOK
<1>3. UNCHANGED alive
  BY DEF HandleSwitch
<1>4. CASE /\ conn.state \in Idle
           /\ StartConnect(Head(cmds).id)
           /\ wanted' = Head(cmds).id
           /\ UNCHANGED <<armed, child, activeID, pendingSwitchID, cleanups>>
  <2>1. /\ NoAttempt /\ NoCleanup /\ armed = 0 /\ child = 0 /\ pendingSwitchID = NoConfig
        /\ ~KillFails => alive = {}
    BY <1>4, IdleFacts
  <2>2. workers = {} /\ Results' = {} /\ NoCleanup'
    BY <1>1, <1>4, <2>1, QuietEmpty DEF NoAttempt, NoCleanup
  <2> QED
    BY <1>2, <1>3, <1>4, <2>1, <2>2, StartCore
<1>5. CASE /\ conn.state \notin Idle \cup {"Disconnecting"}
           /\ Teardown
           /\ pendingSwitchID' = Head(cmds).id
           /\ wanted' = Head(cmds).id
  <2>1. conn.state # "Error"
    BY <1>5 DEF Idle
  <2> QED
    BY <1>1, <1>2, <1>3, <1>5, <2>1, TeardownCore
<1>6. CASE UNCHANGED <<session, workers, cleanups, wanted>>
  BY <1>1, <1>3, <1>6, QuietCore
<1> QED
  BY <1>4, <1>5, <1>6 DEF HandleSwitch

-----------------------------------------------------------------------------
(* The handlers of what the goroutines post. *)

(* The end of a teardown, when the last child is gone.                     *)
LEMMA FinishCore ==
  ASSUME TypeOK, Core, Up, FinishDisconnect, conn.state = "Disconnecting",
         workers = {}, Results' = {}, NoCleanup', UNCHANGED <<armed, wanted>>,
         \A i \in Notes' : cmds'[i].gen \in Nat /\ cmds'[i].gen <= opGen,
         ~KillFails => alive' = {}
  PROVE  Core'
<1>1. armed' = 0 /\ child' = 0 /\ pendingSwitchID' = NoConfig
  BY DEF Core, ArmedPhase, FinishDisconnect
<1>2. opGen \in Nat /\ wanted' = pendingSwitchID
  BY DEF TypeOK, Core, ServesLastRequest
<1>3. CASE pendingSwitchID # NoConfig
  <2>1. StartConnect(pendingSwitchID)
    BY <1>3 DEF FinishDisconnect
  <2> QED
    BY <1>1, <1>2, <2>1, StartCore
<1>4. CASE pendingSwitchID = NoConfig
  <2>1. conn'.state \in Idle /\ workers' = {} /\ opGen' = opGen
    BY <1>4 DEF FinishDisconnect, Disconnected, Idle
  <2> QED
    BY <1>1, <2>1, RestCore DEF NoAttempt
<1> QED
  BY <1>3, <1>4

LEMMA DisconnectDoneCore ==
  ASSUME TypeOK, Core, Up, HandleDisconnectDone
  PROVE  Core'
<1> USE DEF life
<1>0. cmds \in Seq(Command) /\ cmds # <<>> /\ cmds' = Tail(cmds)
  BY DEF TypeOK, HandleDisconnectDone, Receive
<1>1. 1 \in Ends /\ 1 \notin Results /\ cmds[1] = Head(cmds)
  BY <1>0, MailTaken, Taken DEF Ends, Results, HandleDisconnectDone, Receive
<1>2. conn.state = "Disconnecting"
  BY <1>1 DEF Core, AttemptPhase, RestPhase, NoCleanup, TypeOK, States, Attempting
<1>3. NoAttempt /\ cleanups = {} /\ Head(cmds).gen = opGen
  BY <1>1, <1>2 DEF Core, TeardownPhase, NoCleanup, OneCleanup
<1>4. Results' = {} /\ Ends' = {}
  <2>1. \A i \in Results' : i + 1 \in Results
    BY <1>0, MailTaken DEF Results
  <2>2. \A i \in Ends' : i \in Nat /\ i # 0 /\ i + 1 \in Ends
    BY <1>0, MailTaken DEF Ends, Mail
  <2>3. \A i \in Ends' : i + 1 = 1
    BY <1>1, <2>2 DEF Core, OneCleanup
  <2> QED
    BY <1>3, <2>1, <2>2, <2>3 DEF NoAttempt
<1>5. ~KillFails => alive = {}
  BY <1>2, <1>3 DEF Core, Owned, Held, NoAttempt, ArmedPhase
<1>6. \A i \in Notes' : cmds'[i].gen \in Nat /\ cmds'[i].gen <= opGen
  BY <1>0, NotesTaken
<1>7. FinishDisconnect /\ UNCHANGED <<armed, wanted, cleanups, alive>>
  BY <1>3 DEF HandleDisconnectDone
<1> QED
  BY <1>2, <1>3, <1>4, <1>5, <1>6, <1>7, FinishCore DEF NoAttempt, NoCleanup


LEMMA ConnectDoneCore ==
  ASSUME TypeOK, Core, Up, HandleConnectDone
  PROVE  Core'
<1> USE DEF life
<1> DEFINE done == Head(cmds)
<1>0. cmds \in Seq(Command) /\ cmds # <<>> /\ cmds' = Tail(cmds)
  BY DEF TypeOK, HandleConnectDone, Receive
<1>1. 1 \in Results /\ 1 \notin Ends /\ cmds[1] = done
  BY <1>0, MailTaken, Taken DEF Ends, Results, HandleConnectDone, Receive
<1>2. workers = {} /\ Results = {1}
  BY <1>1 DEF Core, OneAttempt
<1>3. Results' = {}
  <2>1. \A i \in Results' : i \in Nat /\ i # 0 /\ i + 1 \in Results
    BY <1>0, MailTaken DEF Results, Mail
  <2>2. \A i \in Results' : i + 1 = 1
    BY <1>2, <2>1
  <2> QED
    BY <2>1, <2>2
<1>4. \A i \in Notes' : cmds'[i].gen \in Nat /\ cmds'[i].gen <= opGen
  BY <1>0, NotesTaken
<1>5. NoCleanup /\ Ends' = {}
  <2>1. NoCleanup
    BY <1>1 DEF Core, AttemptPhase, TeardownPhase, RestPhase, NoAttempt, TypeOK, States,
       Attempting
  <2>2. \A i \in Ends' : i + 1 \in Ends
    BY <1>0, MailTaken DEF Ends
  <2> QED
    BY <2>1, <2>2 DEF NoCleanup
<1>6. UNCHANGED <<cleanups, wanted>>
  BY DEF HandleConnectDone
<1>7. NoCleanup'
  BY <1>5, <1>6 DEF NoCleanup
<1>8. conn.state \in Attempting \cup {"Disconnecting"}
  BY <1>1 DEF Core, RestPhase, NoAttempt, TypeOK, States, Attempting
<1>9. armed = 0
  BY <1>8 DEF Core, ArmedPhase, Attempting
<1>10. ~KillFails => \A g \in alive : g = done.gen /\ done.outcome = "ok"
  BY <1>1, <1>2, <1>5, <1>9 DEF Core, Owned, Held, NoCleanup
<1>11. CASE done.gen # opGen
  <2>1. conn.state = "Disconnecting"
    BY <1>1, <1>8, <1>11 DEF Core, AttemptPhase
  <2>2. FinishDisconnect /\ UNCHANGED armed
    BY <1>11, <2>1 DEF HandleConnectDone, StaleResult
  <2>3. ~KillFails => alive' = {}
    BY <1>10, <1>11 DEF HandleConnectDone, StaleResult, StopChild
  <2> QED
    BY <1>2, <1>3, <1>4, <1>6, <1>7, <2>1, <2>2, <2>3, FinishCore
<1>12. CASE done.gen = opGen
  <2>1. conn.state \in Attempting
    BY <1>1, <1>8, <1>12 DEF Core, TeardownPhase, TypeOK
  <2>2. done.outcome # "canceled" /\ done.id = conn.configID /\ pendingSwitchID = NoConfig
    BY <1>1, <2>1 DEF Core, AttemptPhase, SwitchPhase, Attempting
  <2>3. /\ CurrentResult(done)
        /\ UNCHANGED <<opGen, pendingSwitchID, workers, alive>>
    BY <1>12 DEF HandleConnectDone, CurrentResult
  <2>4. NoAttempt'
    BY <1>2, <1>3, <2>3 DEF NoAttempt
  <2>5. CASE done.outcome = "failed"
    <3>1. conn'.state \in Idle /\ armed' = 0 /\ child' = 0
      BY <1>9, <2>1, <2>5 , <2>3 DEF CurrentResult, Errored, Idle, Core, ArmedPhase, Attempting
    <3>2. ~KillFails => alive' = {}
      BY <1>10, <2>3, <2>5
    <3> QED
      BY <1>4, <1>7, <2>2, <2>3, <2>4, <3>1, <3>2, RestCore
  <2>6. CASE done.outcome = "ok"
    <3>1. /\ child' = done.gen /\ armed' = done.gen /\ activeID' = done.id
          /\ conn'.state = "Connected" /\ conn'.configID = done.id
      BY <2>3, <2>6 DEF CurrentResult, Adopt
    <3>2. armed' # 0
      BY <1>1, <3>1 DEF Core, Fresh, TypeOK
    <3> USE DEF NoAttempt, NoCleanup
    <3>3. Fresh' /\ OneAttempt' /\ OneCleanup'
      BY <1>4, <1>7, <2>3, <2>4 DEF Fresh, OneAttempt, OneCleanup
    <3>4. AttemptPhase' /\ TeardownPhase' /\ RestPhase'
      BY <1>7, <2>4, <3>1 DEF AttemptPhase, TeardownPhase, RestPhase, Attempting
    <3>5. ArmedPhase' /\ SwitchPhase' /\ OutcomePhase' /\ ProgressFirst'
      BY <2>2, <2>3, <2>4, <3>1, <3>2 DEF ArmedPhase, SwitchPhase, OutcomePhase, ProgressFirst
    <3>6. Owned'
      BY <1>10, <2>3, <3>1, <3>2 DEF Owned, Held
    <3>7. ServesLastRequest'
      BY <1>6, <2>1, <2>2, <3>1 DEF Core, ServesLastRequest
    <3> QED
      BY <3>3, <3>4, <3>5, <3>6, <3>7 DEF Core
  <2> QED
    BY <2>2, <2>3, <2>5, <2>6 DEF CurrentResult
<1> QED
  BY <1>11, <1>12

LEMMA ConnectProgressCore ==
  ASSUME TypeOK, Core, Up, HandleConnectProgress
  PROVE  Core'
<1> USE DEF life
<1>0. cmds \in Seq(Command) /\ cmds # <<>> /\ cmds' = Tail(cmds)
  BY DEF TypeOK, HandleConnectProgress, Receive
<1>1. 1 \notin Ends /\ 1 \notin Results /\ Head(cmds) = cmds[1]
  BY <1>0, MailTaken, Taken DEF Ends, Results, HandleConnectProgress, Receive
<1>2. /\ \A i \in Results' : i \in Nat /\ i + 1 \in Results /\ cmds'[i] = cmds[i + 1]
      /\ \A i \in Results : i - 1 \in Results' /\ cmds'[i - 1] = cmds[i]
      /\ \A i \in Ends' : i \in Nat /\ i + 1 \in Ends /\ cmds'[i] = cmds[i + 1]
      /\ \A i \in Ends : i - 1 \in Ends' /\ cmds'[i - 1] = cmds[i]
      /\ \A i \in Notes' : i + 1 \in Notes /\ cmds'[i] = cmds[i + 1]
      /\ \A i \in Notes : i # 1 => i - 1 \in Notes' /\ cmds'[i - 1] = cmds[i]
  <2>1. \A t, i : i \in Mail(t)' => i \in Nat
    BY DEF Mail
  <2> QED
    BY <1>0, <1>1, <2>1, MailTaken DEF Results, Ends, Notes
<1>3. UNCHANGED <<armed, child, activeID, cancelConnect, opGen, pendingSwitchID, workers,
                  cleanups, alive, wanted>>
  BY DEF HandleConnectProgress
<1>4. /\ conn'.configID = conn.configID
      /\ \/ conn'.state = conn.state
         \/ conn.state = "Validating" /\ conn'.state = "Connecting"
      /\ conn.state = "Validating" /\ cmds[1].gen = opGen => conn'.state = "Connecting"
  BY <1>1 DEF HandleConnectProgress, TypeOK
<1>5. (NoAttempt' <=> NoAttempt) /\ (NoCleanup' <=> NoCleanup)
  BY <1>2, <1>3 DEF NoAttempt, NoCleanup
<1>6. Fresh'
  BY <1>2, <1>3 DEF Core, Fresh
<1>7. OneAttempt' /\ OneCleanup'
  <2>1. \A i, j \in Results' : i + 1 = j + 1
    BY <1>2 DEF Core, OneAttempt
  <2>2. \A i, j \in Ends' : i + 1 = j + 1
    BY <1>2 DEF Core, OneCleanup
  <2>3. (\A i, j \in Results' : i = j) /\ (\A i, j \in Ends' : i = j)
    BY <1>2, <2>1, <2>2
  <2> QED
    BY <1>2, <1>3, <2>3 DEF Core, OneAttempt, OneCleanup
<1>8. AttemptPhase'
  BY <1>2, <1>3, <1>4, <1>5 DEF Core, AttemptPhase, Attempting
<1>9. TeardownPhase' /\ RestPhase'
  BY <1>2, <1>3, <1>4, <1>5 DEF Core, TeardownPhase, RestPhase
<1>10. ArmedPhase' /\ SwitchPhase' /\ OutcomePhase'
  BY <1>3, <1>4 DEF Core, ArmedPhase, SwitchPhase, OutcomePhase
<1>11. ProgressFirst'
  <2> SUFFICES ASSUME conn'.state = "Validating"
      PROVE  /\ \A w \in workers : Noted(w) => \E j \in Notes' : cmds'[j].gen = opGen
             /\ \A i \in Results' : cmds'[i].outcome = "ok" =>
                    \E j \in Notes' : j < i /\ cmds'[j].gen = opGen
    BY <1>3 DEF ProgressFirst
  <2>1. ProgressFirst /\ conn.state = "Validating" /\ cmds[1].gen # opGen
    BY <1>4 DEF Core
  <2>2. \A j \in Notes : j \in Nat
    BY DEF Notes, Mail
  <2>3. ASSUME NEW w \in workers, Noted(w)
        PROVE  \E j \in Notes' : cmds'[j].gen = opGen
    <3>1. PICK j \in Notes : cmds[j].gen = opGen
      BY <2>1, <2>3 DEF ProgressFirst
    <3> QED
      BY <1>2, <2>1, <3>1
  <2>4. ASSUME NEW i \in Results', cmds'[i].outcome = "ok"
        PROVE  \E j \in Notes' : j < i /\ cmds'[j].gen = opGen
    <3>1. i + 1 \in Results /\ cmds[i + 1].outcome = "ok"
      BY <1>2, <2>4
    <3>2. PICK j \in Notes : j < i + 1 /\ cmds[j].gen = opGen
      BY <2>1, <3>1 DEF ProgressFirst
    <3>3. j - 1 \in Notes' /\ cmds'[j - 1].gen = opGen
      BY <1>2, <2>1, <3>2
    <3>4. j - 1 < i
      BY <1>2, <2>2, <3>2
    <3> QED
      BY <3>3, <3>4
  <2> QED
    BY <2>3, <2>4
<1>12. Owned'
  <2> SUFFICES ASSUME ~KillFails, NEW g \in alive PROVE Held(g)'
    BY <1>3 DEF Owned
  <2>1. Held(g)
    BY DEF Core, Owned
  <2> QED
    BY <1>2, <1>3, <2>1 DEF Held
<1>13. ServesLastRequest'
  BY <1>3, <1>4 DEF Core, ServesLastRequest, Attempting
<1> QED
  BY <1>6, <1>7, <1>8, <1>9, <1>10, <1>11, <1>12, <1>13 DEF Core

LEMMA AutoRevertCore ==
  ASSUME TypeOK, Core, Up, HandleAutoRevert
  PROVE  Core'
<1> USE DEF life
<1>1. Quiet /\ cmds # <<>> /\ cmds' = Tail(cmds)
  BY RequestQuiet DEF HandleAutoRevert, MailTypes
<1>2. CASE conn.state = "Error"
  <2>1. /\ NoAttempt /\ NoCleanup /\ armed = 0 /\ child = 0 /\ pendingSwitchID = NoConfig
        /\ ~KillFails => alive = {}
    BY <1>2, IdleFacts DEF Idle
  <2>2. NoAttempt' /\ NoCleanup'
    BY <1>1, <2>1, QuietEmpty DEF HandleAutoRevert, NoAttempt, NoCleanup
  <2>3. /\ conn'.state \in Idle
        /\ UNCHANGED <<armed, child, opGen, pendingSwitchID, alive>>
    BY <1>2 DEF HandleAutoRevert, Disconnected, Idle
  <2> QED
    BY <1>1, <2>1, <2>2, <2>3, NotesTaken, RestCore
<1>3. CASE conn.state # "Error"
  BY <1>1, <1>3, QuietCore DEF HandleAutoRevert
<1> QED
  BY <1>2, <1>3

LEMMA ChildExitCore ==
  ASSUME TypeOK, Core, Up, HandleChildExit
  PROVE  Core'
<1> USE DEF life
<1>1. Quiet /\ cmds' = cmds
  BY QuietSame DEF HandleChildExit
<1>2. conn.state = "Connected" \/ conn.state = "Disconnecting"
  BY DEF HandleChildExit, Core, ArmedPhase
<1>3. CASE conn.state = "Disconnecting"
  BY <1>1, <1>3, QuietCore DEF HandleChildExit

<1>4. CASE conn.state = "Connected"
  <2>1. NoAttempt /\ NoCleanup /\ pendingSwitchID = NoConfig
    BY <1>4 DEF Core, RestPhase, SwitchPhase
  <2>2. NoAttempt' /\ NoCleanup'
    BY <1>1, <1>4, <2>1, QuietEmpty DEF HandleChildExit, NoAttempt, NoCleanup
  <2>3. /\ conn'.state \in Idle /\ armed' = 0 /\ child' = 0 /\ pendingSwitchID' = NoConfig
        /\ opGen' = opGen
    BY <1>4, <2>1 DEF HandleChildExit, Errored, Idle
  <2>4. \A i \in Notes' : cmds'[i].gen <= opGen
    BY <1>1, QuietEmpty DEF Core, Fresh
  <2>5. ~KillFails => alive' = {}
    BY <1>4, <2>1 DEF Core, Owned, Held, NoAttempt, NoCleanup, HandleChildExit, StopChild
  <2> QED
    BY <2>2, <2>3, <2>4, <2>5, RestCore
<1> QED
  BY <1>2, <1>3, <1>4

-----------------------------------------------------------------------------
(* The connect worker. *)

(* While a worker runs nobody else is at work, and it owns what runs.      *)
LEMMA WorkerAlone ==
  ASSUME TypeOK, Core, NEW w \in workers
  PROVE  /\ workers = {w} /\ Results = {} /\ NoCleanup /\ armed = 0
         /\ conn.state \in Attempting \cup {"Disconnecting"}
         /\ ~KillFails => \A g \in alive : g = w.gen /\ Holds(w)
<1>1. workers = {w} /\ Results = {}
  BY DEF Core, OneAttempt
<1>2. conn.state \in Attempting \cup {"Disconnecting"}
  BY DEF Core, RestPhase, NoAttempt, TypeOK, States, Attempting
<1>3. NoCleanup
  BY <1>1, <1>2 DEF Core, AttemptPhase, TeardownPhase, NoAttempt
<1>4. armed = 0
  BY <1>2 DEF Core, ArmedPhase, Attempting
<1>5. ~KillFails => \A g \in alive : g = w.gen /\ Holds(w)
  BY <1>1, <1>3, <1>4 DEF Core, Owned, Held, NoCleanup
<1> QED
  BY <1>1, <1>2, <1>3, <1>4, <1>5

(* A step that leaves the worker running.                                  *)
LEMMA WorkerMoves ==
  ASSUME TypeOK, Core, Up, WorkerFrame, NEW w \in workers, NEW v, Advance(w, v),
         v.gen = w.gen, v.id = w.id, v.canceled = w.canceled,
         v.outcome = "ok" => v.at = "report",
         v.outcome = "canceled" => w.outcome = "canceled" \/ w.canceled,
         \/ cmds' = cmds /\ (Noted(v) => Noted(w))
         \/ Post(Cmd("ConnectProgress", NoConfig, w.gen, "none")),
         alive' \subseteq alive \cup {w.gen},
         ~KillFails /\ ~Holds(v) => alive' = {}
  PROVE  Core'
<1> USE DEF WorkerFrame, session, life
<1> DEFINE note == Cmd("ConnectProgress", NoConfig, w.gen, "none")
<1>1. /\ workers = {w} /\ Results = {} /\ NoCleanup /\ armed = 0
      /\ conn.state \in Attempting \cup {"Disconnecting"}
      /\ ~KillFails => \A g \in alive : g = w.gen /\ Holds(w)
  BY WorkerAlone
<1>2. workers' = {v}
  BY <1>1 DEF Advance
<1>3. /\ note \in Command /\ note.type = "ConnectProgress" /\ note.gen = w.gen
      /\ cmds \in Seq(Command) /\ w.gen \in Nat /\ opGen \in Nat
  <2>1. w.gen \in Nat /\ cmds \in Seq(Command) /\ opGen \in Nat
    BY DEF TypeOK, Worker
  <2> QED
    BY <2>1, CommandType DEF CmdType, Cmd
<1>4. 0 < w.gen /\ w.gen <= opGen
  BY DEF Core, Fresh
<1>5. Results' = {} /\ Ends' = {}
  <2>1. CASE cmds' = cmds
    BY <1>1, <2>1 DEF Results, Ends, Mail, NoCleanup
  <2>2. CASE Post(note)
    BY <1>1, <1>3, <2>2, MailPosted DEF Results, Ends, NoCleanup
  <2> QED
    BY <2>1, <2>2
<1>6. /\ \A i \in Notes' : cmds'[i].gen <= opGen
      /\ \A i \in Notes : i \in Notes' /\ cmds'[i] = cmds[i]
      /\ Post(note) => \E i \in Notes' : cmds'[i].gen = w.gen
  <2>1. \A i \in Notes : cmds[i].gen <= opGen
    BY DEF Core, Fresh
  <2>2. CASE cmds' = cmds /\ ~Post(note)
    BY <2>1, <2>2 DEF Notes, Mail
  <2>3. CASE Post(note)
    <3>1. /\ \A i \in Notes : i \in Notes' /\ cmds'[i] = cmds[i]
          /\ \A i \in Notes' : i \in Notes \/ i = Len(cmds) + 1
          /\ Len(cmds) + 1 \in Notes'
          /\ cmds'[Len(cmds) + 1] = note
      BY <1>3, <2>3, MailPosted DEF Notes
    <3> QED
      BY <1>3, <1>4, <2>1, <3>1
  <2> QED
    BY <2>2, <2>3
<1>7. UNCHANGED <<conn, armed, child, activeID, cancelConnect, opGen, pendingSwitchID,
                  cleanups, wanted>>
  OBVIOUS
<1> HIDE DEF note
<1>8. NoCleanup' /\ ~NoAttempt' /\ ~NoAttempt
  BY <1>1, <1>2, <1>5, <1>7 DEF NoCleanup, NoAttempt
<1>9. Fresh' /\ OneAttempt' /\ OneCleanup'
  BY <1>2, <1>4, <1>5, <1>6, <1>7, <1>8 DEF Fresh, OneAttempt, OneCleanup, NoCleanup
<1>10. AttemptPhase'
  BY <1>2, <1>5, <1>7, <1>8 DEF Core, AttemptPhase
<1>11. TeardownPhase'
  BY <1>1, <1>2, <1>5, <1>7, <1>8 DEF Core, TeardownPhase, NoCleanup
<1>12. RestPhase' /\ ArmedPhase' /\ SwitchPhase' /\ OutcomePhase'
  BY <1>1, <1>2, <1>7 DEF Core, RestPhase, ArmedPhase, SwitchPhase, OutcomePhase, Attempting
<1>13. ProgressFirst'
  <2> SUFFICES ASSUME conn.state = "Validating", Noted(v)
      PROVE  \E j \in Notes' : cmds'[j].gen = opGen
    BY <1>2, <1>5, <1>7 DEF ProgressFirst, Noted
  <2>1. w.gen = opGen
    BY DEF Core, AttemptPhase, Attempting
  <2>2. CASE Post(note)
    BY <1>6, <2>1, <2>2
  <2>3. CASE Noted(w)
    BY <1>6, <2>3 DEF Core, ProgressFirst
  <2> QED
    BY <2>2, <2>3 DEF note
<1>14. Owned'
  BY <1>1, <1>2 DEF Owned, Held, Holds
<1>15. ServesLastRequest'
  BY <1>7 DEF Core, ServesLastRequest, Attempting
<1> QED
  BY <1>9, <1>10, <1>11, <1>12, <1>13, <1>14, <1>15 DEF Core

LEMMA WorkerReportsCore ==
  ASSUME TypeOK, Core, Up, WorkerFrame, NEW w \in workers, WorkerReports(w)
  PROVE  Core'
<1> USE DEF WorkerFrame, session, life
<1> DEFINE done == Cmd("ConnectDone", w.id, w.gen, w.outcome)
<1>1. /\ workers = {w} /\ Results = {} /\ NoCleanup /\ armed = 0
      /\ conn.state \in Attempting \cup {"Disconnecting"}
      /\ ~KillFails => \A g \in alive : g = w.gen /\ Holds(w)
  BY WorkerAlone
<1>2. workers' = {}
  BY <1>1 DEF WorkerReports
<1>3. /\ done \in Command /\ done.type = "ConnectDone" /\ done.gen = w.gen /\ done.id = w.id
      /\ done.outcome = w.outcome
      /\ cmds \in Seq(Command) /\ w.gen \in Nat /\ opGen \in Nat
  <2>1. /\ w.gen \in Nat /\ w.id \in ConfigID /\ w.outcome \in Outcome \cup {"none"}
        /\ cmds \in Seq(Command) /\ opGen \in Nat
    BY DEF TypeOK, Worker
  <2> QED
    BY <2>1, CommandType DEF CmdType, Cmd
<1>4. Post(done)
  BY DEF WorkerReports, PostOrDrop, Up
<1> DEFINE n == Len(cmds) + 1
<1>5. /\ Results' = {n} /\ cmds'[n] = done
      /\ Ends' = {}
      /\ \A i \in Notes : i \in Notes' /\ cmds'[i] = cmds[i] /\ i < n
      /\ \A i \in Notes' : i \in Notes
  BY <1>1, <1>3, <1>4, MailPosted DEF Results, Ends, Notes, NoCleanup
<1>6. UNCHANGED <<conn, armed, child, activeID, cancelConnect, opGen, pendingSwitchID,
                  cleanups, wanted, alive>>
  BY DEF WorkerReports
<1> HIDE DEF done, n
<1>7. NoCleanup' /\ ~NoAttempt' /\ ~NoAttempt
  BY <1>1, <1>2, <1>5, <1>6 DEF NoCleanup, NoAttempt
<1>8. Fresh' /\ OneAttempt' /\ OneCleanup'
  BY <1>2, <1>3, <1>5, <1>6, <1>7 DEF Core, Fresh, OneAttempt, OneCleanup, NoCleanup
<1>9. AttemptPhase'
  BY <1>2, <1>3, <1>5, <1>6, <1>7 DEF Core, AttemptPhase
<1>10. TeardownPhase'
  BY <1>1, <1>2, <1>3, <1>5, <1>6, <1>7 DEF Core, TeardownPhase, NoCleanup
<1>11. RestPhase' /\ ArmedPhase' /\ SwitchPhase' /\ OutcomePhase'
  BY <1>1, <1>2, <1>6 DEF Core, RestPhase, ArmedPhase, SwitchPhase, OutcomePhase, Attempting
<1>12. ProgressFirst'
  BY <1>2, <1>3, <1>5, <1>6 DEF Core, ProgressFirst, Noted
<1>13. Owned'
  <2>1. w.at = "report"
    BY DEF WorkerReports
  <2> QED
    BY <1>1, <1>3, <1>5, <1>6, <2>1 DEF Owned, Held, Holds
<1>14. ServesLastRequest'
  BY <1>6 DEF Core, ServesLastRequest, Attempting
<1> QED
  BY <1>8, <1>9, <1>10, <1>11, <1>12, <1>13, <1>14 DEF Core

LEMMA WorkerCore ==
  ASSUME TypeOK, Core, Up, NEW w \in workers, WorkerStep(w)
  PROVE  Core'
<1>1. WorkerFrame
  BY DEF WorkerStep
<1>2. /\ w \in Worker
      /\ ~KillFails => \A g \in alive : g = w.gen /\ Holds(w)
      /\ w.outcome = "ok" => w.at = "report"
      /\ ~ctxDone
  BY WorkerAlone DEF TypeOK, Core, OutcomePhase, Up
<1>3. \A p : /\ At(w, p).gen = w.gen /\ At(w, p).id = w.id /\ At(w, p).at = p
             /\ At(w, p).canceled = w.canceled /\ At(w, p).outcome = w.outcome
  BY <1>2 DEF At, Worker
<1>4. \A o : /\ Ended(w, o).gen = w.gen /\ Ended(w, o).id = w.id
             /\ Ended(w, o).at = IF o # "ok" /\ w.at \in {"probe", "socks"}
                                 THEN "undo" ELSE "report"
             /\ Ended(w, o).canceled = w.canceled /\ Ended(w, o).outcome = o
  BY <1>2 DEF Ended, Worker
<1>5. CASE WorkerFails(w)
  <2>1. PICK o \in Failures(w) : Advance(w, Ended(w, o))
    BY <1>5 DEF WorkerFails
  <2> DEFINE v == Ended(w, o)
  <2>2. o # "ok" /\ (o = "canceled" => w.canceled)
    BY <1>2 DEF Failures, ContextDone
  <2>3. cmds' = cmds /\ alive' = alive /\ w.at \notin {"undo", "report"}
    BY <1>5 DEF WorkerFails
  <2>4. ~Noted(v)
    BY <1>4, <2>2 DEF Noted
  <2>5. ~KillFails /\ ~Holds(v) => alive' = {}
    BY <1>2, <1>4, <2>2, <2>3 DEF Holds
  <2>6. /\ v.gen = w.gen /\ v.id = w.id /\ v.canceled = w.canceled
        /\ v.outcome = o
    BY <1>4
  <2> HIDE DEF v
  <2> QED
    BY <1>1, <2>1, <2>2, <2>3, <2>4, <2>5, <2>6, WorkerMoves DEF v
<1>6. CASE WorkerValidates(w) \/ WorkerPreflight(w) \/ WorkerSeesAlive(w)
  <2>1. PICK p \in WorkerPoint :
           /\ Advance(w, At(w, p)) /\ cmds' = cmds /\ alive' = alive
           /\ \/ w.at = "validate" /\ p = "progress"
              \/ w.at = "preflight" /\ p = "spawn"
              \/ w.at = "probe" /\ p = "socks"
    BY <1>6 DEF WorkerValidates, WorkerPreflight, WorkerSeesAlive, WorkerPoint
  <2> DEFINE v == At(w, p)
  <2>2. /\ v.gen = w.gen /\ v.id = w.id /\ v.canceled = w.canceled
        /\ v.outcome = w.outcome /\ v.at = p
    BY <1>3
  <2>3. (Noted(v) => Noted(w)) /\ (Holds(w) => Holds(v)) /\ w.outcome # "ok"
    BY <1>2, <2>1, <2>2 DEF Noted, Holds
  <2> HIDE DEF v
  <2> QED
    BY <1>1, <1>2, <2>1, <2>2, <2>3, WorkerMoves DEF v
<1>7. CASE WorkerProgress(w)
  <2> DEFINE v == At(w, "preflight")
  <2>1. /\ w.at = "progress" /\ Advance(w, v) /\ alive' = alive
        /\ Post(Cmd("ConnectProgress", NoConfig, w.gen, "none"))
    BY <1>7 DEF WorkerProgress
  <2>2. /\ v.gen = w.gen /\ v.id = w.id /\ v.canceled = w.canceled
        /\ v.outcome = w.outcome /\ v.at = "preflight" /\ w.outcome # "ok"
    BY <1>2, <1>3, <2>1
  <2>3. ~KillFails => alive' = {}
    BY <1>2, <2>1 DEF Holds
  <2> HIDE DEF v
  <2> QED
    BY <1>1, <2>1, <2>2, <2>3, WorkerMoves
<1>8. CASE WorkerSpawns(w)
  <2> DEFINE v == At(w, "probe")
  <2>1. w.at = "spawn" /\ Advance(w, v) /\ alive' = alive \cup {w.gen} /\ cmds' = cmds
    BY <1>8 DEF WorkerSpawns
  <2>2. /\ v.gen = w.gen /\ v.id = w.id /\ v.canceled = w.canceled
        /\ v.outcome = w.outcome /\ v.at = "probe" /\ w.outcome # "ok"
    BY <1>2, <1>3, <2>1
  <2>3. Noted(w) /\ Holds(v)
    BY <2>1, <2>2 DEF Noted, Holds
  <2> HIDE DEF v
  <2> QED
    BY <1>1, <2>1, <2>2, <2>3, WorkerMoves
<1>9. CASE WorkerSeesSocks(w)
  <2> DEFINE v == Ended(w, "ok")
  <2>1. w.at = "socks" /\ Advance(w, v) /\ cmds' = cmds /\ alive' = alive
    BY <1>9 DEF WorkerSeesSocks
  <2>2. /\ v.gen = w.gen /\ v.id = w.id /\ v.canceled = w.canceled
        /\ v.outcome = "ok" /\ v.at = "report"
    BY <1>4
  <2>3. Noted(w) /\ Holds(v)
    BY <2>1, <2>2 DEF Noted, Holds
  <2> HIDE DEF v
  <2> QED
    BY <1>1, <2>1, <2>2, <2>3, WorkerMoves
<1>10. CASE WorkerUndoes(w)
  <2> DEFINE v == At(w, "report")
  <2>1. w.at = "undo" /\ Advance(w, v) /\ cmds' = cmds /\ StopChild(w.gen)
    BY <1>10 DEF WorkerUndoes
  <2>2. /\ v.gen = w.gen /\ v.id = w.id /\ v.canceled = w.canceled
        /\ v.outcome = w.outcome /\ v.at = "report" /\ w.outcome # "ok"
    BY <1>2, <1>3, <2>1
  <2>3. ~Noted(v) /\ alive' \subseteq alive /\ (~KillFails => alive' = {})
    BY <1>2, <2>1, <2>2 DEF Noted, StopChild
  <2> HIDE DEF v
  <2> QED
    BY <1>1, <2>1, <2>2, <2>3, WorkerMoves
<1>11. CASE WorkerReports(w)
  BY <1>1, <1>11, WorkerReportsCore
<1> QED
  BY <1>5, <1>6, <1>7, <1>8, <1>9, <1>10, <1>11 DEF WorkerStep

-----------------------------------------------------------------------------
(* The cleanup goroutine. *)

LEMMA CleanupAlone ==
  ASSUME TypeOK, Core, NEW c \in cleanups
  PROVE  /\ cleanups = {c} /\ Ends = {} /\ NoAttempt /\ armed = 0
         /\ conn.state = "Disconnecting" /\ c.gen = opGen
         /\ ~KillFails => \A g \in alive : g = c.child /\ c.at = "stop"
<1>1. cleanups = {c} /\ Ends = {}
  BY DEF Core, OneCleanup
<1>2. conn.state = "Disconnecting"
  BY DEF Core, RestPhase, AttemptPhase, NoCleanup, TypeOK, States, Attempting
<1>3. NoAttempt /\ c.gen = opGen
  BY <1>2 DEF Core, TeardownPhase, NoCleanup
<1>4. armed = 0
  BY <1>2 DEF Core, ArmedPhase
<1>5. ~KillFails => \A g \in alive : g = c.child /\ c.at = "stop"
  BY <1>1, <1>3, <1>4 DEF Core, Owned, Held, NoAttempt
<1> QED
  BY <1>1, <1>2, <1>3, <1>4, <1>5

LEMMA CleanupStopsCore ==
  ASSUME TypeOK, Core, Up, NEW c \in cleanups, CleanupStops(c)
  PROVE  Core'
<1> USE DEF session, life
<1> DEFINE d == [c EXCEPT !.at = "report"]
<1>1. /\ cleanups = {c} /\ Ends = {} /\ NoAttempt /\ armed = 0
      /\ conn.state = "Disconnecting" /\ c.gen = opGen
      /\ ~KillFails => \A g \in alive : g = c.child /\ c.at = "stop"
  BY CleanupAlone
<1>2. c \in Cleanup
  BY DEF TypeOK
<1>3. d.gen = opGen /\ d.at = "report" /\ cleanups' = {d}
  BY <1>1, <1>2 DEF Cleanup, CleanupStops
<1>4. ~KillFails => alive' = {}
  BY <1>1 DEF CleanupStops, StopChild
<1>5. /\ UNCHANGED <<conn, armed, child, activeID, cancelConnect, opGen, pendingSwitchID,
                     workers, wanted, cmds>>
      /\ Results' = Results /\ Ends' = Ends /\ Notes' = Notes
  BY DEF CleanupStops, Results, Ends, Notes, Mail
<1> HIDE DEF d
<1>6. NoAttempt' /\ ~NoCleanup'
  BY <1>1, <1>3, <1>5 DEF NoAttempt, NoCleanup
<1>7. Fresh' /\ OneAttempt' /\ OneCleanup'
  BY <1>1, <1>3, <1>5 DEF Core, Fresh, OneAttempt, OneCleanup
<1>8. AttemptPhase' /\ RestPhase' /\ ArmedPhase' /\ SwitchPhase' /\ OutcomePhase' /\ ProgressFirst'
  BY <1>1, <1>5 DEF Core, AttemptPhase, RestPhase, ArmedPhase, SwitchPhase, OutcomePhase,
     ProgressFirst, Attempting
<1>9. TeardownPhase'
  BY <1>1, <1>3, <1>5, <1>6 DEF Core, TeardownPhase
<1>10. Owned'
  BY <1>4 DEF Owned
<1>11. ServesLastRequest'
  BY <1>5 DEF Core, ServesLastRequest, Attempting
<1> QED
  BY <1>7, <1>8, <1>9, <1>10, <1>11 DEF Core

LEMMA CleanupReportsCore ==
  ASSUME TypeOK, Core, Up, NEW c \in cleanups, CleanupReports(c)
  PROVE  Core'
<1> USE DEF session, life
<1> DEFINE end == Cmd("DisconnectDone", NoConfig, c.gen, "none")
           n == Len(cmds) + 1
<1>1. /\ cleanups = {c} /\ Ends = {} /\ NoAttempt /\ armed = 0
      /\ conn.state = "Disconnecting" /\ c.gen = opGen
      /\ ~KillFails => \A g \in alive : g = c.child /\ c.at = "stop"
  BY CleanupAlone
<1>2. c.gen \in Nat /\ cmds \in Seq(Command)
  BY DEF TypeOK, Cleanup
<1>3. end \in Command /\ end.type = "DisconnectDone" /\ end.gen = opGen
  BY <1>1, <1>2, CommandType DEF CmdType, Cmd
<1>4. Post(end)
  BY DEF CleanupReports, PostOrDrop, Up
<1>5. /\ Ends' = {n} /\ cmds'[n] = end
      /\ Results' = {}
      /\ \A i \in Notes' : i \in Notes /\ cmds'[i] = cmds[i]
  BY <1>1, <1>2, <1>3, <1>4, MailPosted DEF Results, Ends, Notes, NoAttempt
<1>6. /\ UNCHANGED <<conn, armed, child, activeID, cancelConnect, opGen, pendingSwitchID,
                     workers, wanted, alive>>
      /\ cleanups' = {} /\ c.at = "report"
  BY <1>1 DEF CleanupReports
<1> HIDE DEF end, n
<1>7. NoAttempt' /\ ~NoCleanup'
  BY <1>1, <1>5, <1>6 DEF NoAttempt, NoCleanup
<1>8. Fresh' /\ OneAttempt' /\ OneCleanup'
  BY <1>1, <1>5, <1>6 DEF Core, Fresh, OneAttempt, OneCleanup, NoAttempt
<1>9. AttemptPhase' /\ RestPhase' /\ ArmedPhase' /\ SwitchPhase' /\ OutcomePhase' /\ ProgressFirst'
  BY <1>1, <1>6 DEF Core, AttemptPhase, RestPhase, ArmedPhase, SwitchPhase, OutcomePhase,
     ProgressFirst, Attempting
<1>10. TeardownPhase'
  BY <1>1, <1>3, <1>5, <1>6, <1>7 DEF Core, TeardownPhase, NoAttempt
<1>11. Owned'
  BY <1>1, <1>6 DEF Owned
<1>12. ServesLastRequest'
  BY <1>6 DEF Core, ServesLastRequest, Attempting
<1> QED
  BY <1>8, <1>9, <1>10, <1>11, <1>12 DEF Core

-----------------------------------------------------------------------------
(* The remaining steps post nothing of the goroutines'. *)

LEMMA OtherCore ==
  ASSUME TypeOK, Core, Up, Up',
         TimerFires \/ PostAutoRevert \/ Request \/ ChildDies \/ CallShutdown
         \/ AbandonShutdown \/ ReturnFromShutdown \/ Terminated \/ UNCHANGED vars
  PROVE  Core'
<1> USE DEF session, life
<1>1. /\ UNCHANGED <<session, workers, cleanups, wanted>>
      /\ alive' \subseteq alive
  BY DEF TimerFires, PostAutoRevert, Request, ChildDies, CallShutdown, AbandonShutdown,
     ReturnFromShutdown, Terminated, vars
<1>2. Quiet
  <2>0. cmds \in Seq(Command)
    BY DEF TypeOK
  <2>1. CASE cmds' = cmds
    BY <2>1, QuietSame
  <2>2. CASE \E c \in Command : Post(c) /\ c.type \notin MailTypes
    BY <2>0, <2>2, QuietPosted
  <2>3. /\ \A t \in {"AutoRevert", "Disconnect", "Shutdown"} :
              /\ Cmd(t, NoConfig, 0, "none") \in Command
              /\ Cmd(t, NoConfig, 0, "none").type \notin MailTypes
        /\ \A t \in {"Connect", "Switch"}, id \in ConfigID :
              /\ Cmd(t, id, 0, "none") \in Command
              /\ Cmd(t, id, 0, "none").type \notin MailTypes
    BY CommandType DEF CmdType, Cmd, MailTypes
  <2>4. CASE PostAutoRevert \/ Request \/ CallShutdown
    BY <2>1, <2>2, <2>3, <2>4 DEF PostAutoRevert, PostOrDrop, Request, CallShutdown
  <2>5. CASE TimerFires \/ ChildDies \/ AbandonShutdown \/ ReturnFromShutdown \/ Terminated
             \/ UNCHANGED vars
    BY <2>1, <2>5 DEF TimerFires, ChildDies, AbandonShutdown, ReturnFromShutdown, Terminated, vars
  <2> QED
    BY <2>4, <2>5
<1> QED
  BY <1>1, <1>2, QuietCore

(* A Machine that is stopping never comes up again.                        *)
LEMMA StopsForGood ==
  ASSUME TypeOK, ExitOrder, [Next]_vars
  PROVE  ExitOrder' /\ (Up' => Up)
<1> USE DEF session, life, vars, ExitOrder, Up
<1>1. CASE Actor
  BY <1>1 DEF Actor, HandleConnect, HandleDisconnect, HandleSwitch, HandleConnectProgress,
     HandleConnectDone, HandleDisconnectDone, HandleAutoRevert, HandleChildExit,
     HandleShutdown, DrainOnShutdown, ShutdownEffect
<1>2. ASSUME NEW w \in workers, WorkerStep(w) PROVE ExitOrder' /\ (Up' => Up)
  BY <1>2 DEF WorkerStep, WorkerFrame
<1>3. ASSUME NEW c \in cleanups, CleanupStops(c) \/ CleanupReports(c)
      PROVE  ExitOrder' /\ (Up' => Up)
  BY <1>3 DEF CleanupStops, CleanupReports
<1>4. CASE TimerFires \/ PostAutoRevert \/ Request \/ ChildDies
  BY <1>4 DEF TimerFires, PostAutoRevert, Request, ChildDies
<1>5. CASE Shutdown
  BY <1>5 DEF Shutdown, CallShutdown, AbandonShutdown, CancelMachine, ReturnFromShutdown
<1>6. CASE Terminated \/ UNCHANGED vars
  BY <1>6 DEF Terminated
<1> QED
  BY <1>1, <1>2, <1>3, <1>4, <1>5, <1>6 DEF Next

LEMMA CoreStep ==
  ASSUME TypeOK, Core, Up, Up', [Next]_vars
  PROVE  Core'
<1>1. CASE Actor
  <2>1. ~(HandleShutdown \/ DrainOnShutdown)
    BY DEF HandleShutdown, DrainOnShutdown, ShutdownEffect, Up
  <2> QED
    BY <1>1, <2>1, ConnectCore, DisconnectCore, SwitchCore, ConnectProgressCore,
       ConnectDoneCore, DisconnectDoneCore, AutoRevertCore, ChildExitCore DEF Actor
<1>2. ASSUME NEW w \in workers, WorkerStep(w) PROVE Core'
  BY <1>2, WorkerCore
<1>3. ASSUME NEW c \in cleanups, CleanupStops(c) \/ CleanupReports(c) PROVE Core'
  BY <1>3, CleanupStopsCore, CleanupReportsCore
<1>4. ~CancelMachine
  BY DEF CancelMachine, Up
<1> QED
  BY <1>1, <1>2, <1>3, <1>4, OtherCore DEF Next, Shutdown

LEMMA InitCore == Init => Core
<1> SUFFICES ASSUME Init PROVE Core
  OBVIOUS
<1>1. Results = {} /\ Notes = {} /\ Ends = {}
  BY DEF Init, Results, Notes, Ends, Mail
<1>2. Fresh /\ OneAttempt /\ OneCleanup
  BY <1>1 DEF Init, Fresh, OneAttempt, OneCleanup
<1>3. /\ AttemptPhase /\ TeardownPhase /\ RestPhase /\ ArmedPhase /\ SwitchPhase
      /\ OutcomePhase /\ ProgressFirst
  BY <1>1 DEF Init, Disconnected, AttemptPhase, TeardownPhase, RestPhase, ArmedPhase,
     SwitchPhase, OutcomePhase, ProgressFirst, NoAttempt, NoCleanup, Attempting
<1>4. Owned /\ ServesLastRequest
  BY DEF Init, Disconnected, Owned, ServesLastRequest, Attempting
<1> QED
  BY <1>2, <1>3, <1>4 DEF Core

(* The inductive invariant: who is at work in each state of the Machine,   *)
(* and who holds the child that runs.                                      *)
THEOREM Invariance == Spec => []IInv
<1>1. Init => IInv
  BY InitType, InitCore DEF IInv, Init, ExitOrder
<1>2. IInv /\ [Next]_vars => IInv'
  BY TypeStep, StopsForGood, CoreStep DEF IInv
<1> QED
  BY <1>1, <1>2, PTL DEF Spec

(* The Machine works for the last request it accepted, whatever outdated   *)
(* results and notes of progress arrive.                                   *)
THEOREM LastRequest == Spec => []ServesLastRequest
<1>1. IInv => ServesLastRequest
  BY DEF IInv, Core, ServesLastRequest
<1> QED
  BY <1>1, Invariance, PTL

(* Whoever holds the child, there is one of them: provided that Stop does  *)
(* stop a child, no interleaving of requests, results and deaths has two   *)
(* children running.                                                       *)
THEOREM OneChild == ASSUME ~KillFails PROVE Spec => []AtMostOneChild
<1>1. ASSUME IInv, Up, NEW g \in alive, NEW h \in alive PROVE g = h
  <2>1. TypeOK /\ Core /\ Held(g) /\ Held(h)
    BY <1>1 DEF IInv, Core, Owned
  <2>2. CASE \E w \in workers : TRUE
    BY <1>1, <2>1, <2>2, WorkerAlone
  <2>3. CASE \E c \in cleanups : TRUE
    BY <1>1, <2>1, <2>3, CleanupAlone
  <2>4. CASE workers = {} /\ cleanups = {} /\ Results # {}
    <3>1. armed = 0
      BY <2>1, <2>4 DEF Core, RestPhase, NoAttempt, ArmedPhase
    <3> QED
      BY <2>1, <2>4, <3>1 DEF Core, OneAttempt, Held
  <2>5. CASE workers = {} /\ cleanups = {} /\ Results = {}
    BY <2>1, <2>5 DEF Held
  <2> QED
    BY <2>2, <2>3, <2>4, <2>5
<1>2. IInv => AtMostOneChild
  BY <1>1 DEF AtMostOneChild
<1> QED
  BY <1>2, Invariance, PTL

(* Provided that Stop does stop a child, none is left running when the     *)
(* Machine reports Disconnected or Error.                                  *)
THEOREM Orphans == ASSUME ~KillFails PROVE Spec => []NoOrphan
<1>1. IInv => NoOrphan
  BY IdleFacts DEF IInv, NoOrphan
<1> QED
  BY <1>1, Invariance, PTL

(* Provided that Stop does stop a child, the Machine is armed exactly      *)
(* while Connected, with the stack of the only child that can run.         *)
THEOREM Armed == ASSUME ~KillFails PROVE Spec => []ConnectedIsArmed
<1>1. ASSUME IInv, Up, conn.state = "Connected" PROVE alive \subseteq {armed}
  <2>1. Core /\ NoAttempt /\ NoCleanup
    BY <1>1 DEF IInv, Core, RestPhase
  <2> QED
    BY <2>1 DEF Core, Owned, Held, NoAttempt, NoCleanup
<1>2. IInv => ConnectedIsArmed
  BY <1>1 DEF IInv, Core, ArmedPhase, ConnectedIsArmed
<1> QED
  BY <1>2, Invariance, PTL

-----------------------------------------------------------------------------
(* A status that promises another is never shown in vain: while an attempt  *)
(* or a teardown is shown, somebody has still to report its end, and with   *)
(* the generation that the handler looks for, whatever older results arrive *)
(* before (handleConnectDone, handleDisconnectDone).                        *)
SomebodyReports ==
    Up => /\ conn.state \in Attempting =>
                \/ \E w \in workers : w.gen = opGen
                \/ \E i \in Results : cmds[i].gen = opGen
          /\ conn.state = "Disconnecting" =>
                \/ \E w \in workers : w.gen # opGen
                \/ \E i \in Results : cmds[i].gen # opGen
                \/ \E c \in cleanups : c.gen = opGen
                \/ \E i \in Ends : cmds[i].gen = opGen

THEOREM NeverForsaken == Spec => []SomebodyReports
<1>1. ASSUME Core, conn.state \in Attempting
      PROVE  (\E w \in workers : w.gen = opGen) \/ (\E i \in Results : cmds[i].gen = opGen)
  BY <1>1 DEF Core, AttemptPhase, NoAttempt
<1>2. ASSUME TypeOK, Core, conn.state = "Disconnecting"
      PROVE  \/ \E w \in workers : w.gen # opGen
             \/ \E i \in Results : cmds[i].gen # opGen
             \/ \E c \in cleanups : c.gen = opGen
             \/ \E i \in Ends : cmds[i].gen = opGen
  <2>1. TeardownPhase
    BY <1>2 DEF Core
  <2>2. CASE NoAttempt
    BY <1>2, <2>1, <2>2 DEF TeardownPhase, NoCleanup
  <2>3. ASSUME NEW w \in workers PROVE w.gen # opGen
    BY <1>2, <2>1, <2>3 DEF TeardownPhase, TypeOK, Worker
  <2>4. ASSUME NEW i \in Results PROVE cmds[i].gen # opGen
    <3>1. cmds[i].gen \in Nat /\ opGen \in Nat
      BY <1>2, <2>4 DEF TypeOK, Results, Mail, Command
    <3> QED
      BY <1>2, <2>1, <2>4, <3>1 DEF TeardownPhase
  <2> QED
    BY <2>2, <2>3, <2>4 DEF NoAttempt
<1>3. IInv => SomebodyReports
  BY <1>1, <1>2 DEF IInv, SomebodyReports
<1> QED
  BY <1>3, Invariance, PTL

(* An attempt that is being torn down knows it: its context is cancelled,   *)
(* so that the teardown waits for none of its timeouts (handleDisconnect).  *)
TeardownCancels ==
    Up /\ conn.state = "Disconnecting" => \A w \in workers : w.canceled

(* The context that a teardown cancels is that of the only worker.          *)
LEMMA TeardownReaches ==
  ASSUME TypeOK, Core, Teardown
  PROVE  conn'.state = "Disconnecting" => \A w \in workers' : w.canceled
<1>1. CASE TeardownAttempt
  <2>1. /\ workers' = Canceled(cancelConnect) /\ workers \in SUBSET Worker
        /\ \A w \in workers : w.gen = cancelConnect
    BY <1>1 DEF TeardownAttempt, Core, AttemptPhase, TypeOK
  <2>2. \A w \in workers : [w EXCEPT !.canceled = TRUE].canceled
    BY <2>1 DEF Worker
  <2> QED
    BY <2>1, <2>2 DEF Canceled
<1>2. CASE TeardownArmed
  <2>1. workers = {} /\ workers' = workers
    BY <1>2 DEF TeardownArmed, Core, RestPhase, NoAttempt
  <2> QED
    BY <2>1
<1>3. CASE TeardownUnarmed
  BY <1>3 DEF TeardownUnarmed, Disconnected
<1> QED
  BY <1>1, <1>2, <1>3 DEF Teardown

LEMMA TeardownCancelsActor ==
  ASSUME TypeOK, Core, TeardownCancels, Up, Up', Actor
  PROVE  TeardownCancels'
<1> USE DEF session, life
<1>0. conn \in [state : States, configID : ConfigID \cup {NoConfig}]
  BY DEF TypeOK
<1>1. CASE UNCHANGED <<conn, workers>>
  BY <1>1 DEF TeardownCancels
<1>2. CASE Teardown
  BY <1>2, TeardownReaches DEF TeardownCancels
<1>3. CASE conn'.state # "Disconnecting"
  BY <1>3 DEF TeardownCancels
<1>4. CASE HandleConnect \/ HandleSwitch
  BY <1>1, <1>2, <1>3, <1>4 DEF HandleConnect, HandleSwitch, StartConnect
<1>5. CASE HandleDisconnect
  BY <1>1, <1>2, <1>5 DEF HandleDisconnect
<1>6. CASE HandleConnectProgress
  BY <1>0, <1>1, <1>3, <1>6 DEF HandleConnectProgress
<1>7. ASSUME FinishDisconnect PROVE conn'.state # "Disconnecting"
  BY <1>7 DEF FinishDisconnect, StartConnect, Disconnected
<1>8. CASE HandleConnectDone
  <2>1. CurrentResult(Head(cmds)) => conn'.state # "Disconnecting"
    BY DEF CurrentResult, Adopt, Disconnected, Errored
  <2> QED
    BY <1>1, <1>3, <1>7, <1>8, <2>1 DEF HandleConnectDone, StaleResult
<1>9. CASE HandleDisconnectDone
  BY <1>1, <1>3, <1>7, <1>9 DEF HandleDisconnectDone
<1>10. CASE HandleAutoRevert \/ HandleChildExit
  BY <1>1, <1>3, <1>10 DEF HandleAutoRevert, HandleChildExit, Disconnected, Errored
<1>11. ~(HandleShutdown \/ DrainOnShutdown)
  BY DEF HandleShutdown, DrainOnShutdown, ShutdownEffect, Up
<1> QED
  BY <1>4, <1>5, <1>6, <1>8, <1>9, <1>10, <1>11 DEF Actor

(* A worker knows what it was told until it ends.                          *)
LEMMA StaysCanceled ==
  ASSUME TypeOK, NEW w \in workers, WorkerStep(w), \A v \in workers : v.canceled
  PROVE  \A v \in workers' : v.canceled
<1>1. w \in Worker
  BY DEF TypeOK
<1>2. /\ \A p : At(w, p).canceled = w.canceled
      /\ \A o : Ended(w, o).canceled = w.canceled
  BY <1>1 DEF At, Ended, Worker
<1>3. WorkerReports(w) \/ \E v : v.canceled = w.canceled /\ Advance(w, v)
  BY <1>2 DEF WorkerStep, WorkerFails, WorkerValidates, WorkerProgress, WorkerPreflight,
     WorkerSpawns, WorkerSeesAlive, WorkerSeesSocks, WorkerUndoes
<1> QED
  BY <1>3 DEF WorkerReports, Advance

THEOREM TeardownIsTold == Spec => []TeardownCancels
<1>1. Init => TeardownCancels
  BY DEF Init, TeardownCancels
<1>2. ASSUME IInv, TeardownCancels, [Next]_vars PROVE TeardownCancels'
  <2> USE DEF session, life
  <2> SUFFICES ASSUME Up, Up' PROVE TeardownCancels'
    BY <1>2, StopsForGood DEF IInv, TeardownCancels
  <2>0. TypeOK /\ Core
    BY <1>2 DEF IInv
  <2>1. CASE Actor
    BY <1>2, <2>0, <2>1, TeardownCancelsActor
  <2>2. ASSUME NEW w \in workers, WorkerStep(w) PROVE TeardownCancels'
    <3>1. conn' = conn
      BY <2>2 DEF WorkerStep, WorkerFrame
    <3> QED
      BY <1>2, <2>0, <2>2, <3>1, StaysCanceled DEF TeardownCancels
  <2>3. CASE UNCHANGED <<conn, workers>>
    BY <1>2, <2>3 DEF TeardownCancels
  <2>4. ASSUME NEW c \in cleanups, CleanupStops(c) \/ CleanupReports(c)
        PROVE  UNCHANGED <<conn, workers>>
    BY <2>4 DEF CleanupStops, CleanupReports
  <2>5. ASSUME \/ TimerFires \/ PostAutoRevert \/ Request \/ ChildDies \/ Shutdown
               \/ Terminated \/ UNCHANGED vars
        PROVE  UNCHANGED <<conn, workers>>
    BY <2>5 DEF TimerFires, PostAutoRevert, Request, ChildDies, Shutdown, CallShutdown,
       AbandonShutdown, CancelMachine, ReturnFromShutdown, Terminated, vars
  <2> QED
    BY <1>2, <2>1, <2>2, <2>3, <2>4, <2>5 DEF Next
<1> QED
  BY <1>1, <1>2, Invariance, PTL DEF Spec

-----------------------------------------------------------------------------
(* A queued switch is not lost, not even while the daemon stops: what is   *)
(* left of the invariant when nobody vouches for the children any more.    *)

(* The generations of the attempts that have not been dealt with.          *)
InFlight == {w.gen : w \in workers} \cup {cmds[i].gen : i \in Results}

Order ==
    /\ \A g \in InFlight : 0 < g /\ g <= opGen
    /\ conn.state = "Disconnecting" => \A g \in InFlight : g < opGen
    /\ SwitchPhase
    /\ conn.state = "Connected" => armed # 0

LEMMA InFlightTaken ==
  ASSUME cmds \in Seq(Command), cmds # <<>>, cmds' = Tail(cmds)
  PROVE  {cmds'[i].gen : i \in Results'} \subseteq {cmds[i].gen : i \in Results}
<1>1. \A i \in Results' : i + 1 \in Results /\ cmds'[i] = cmds[i + 1]
  BY MailTaken DEF Results
<1> QED
  BY <1>1

LEMMA InFlightPosted ==
  ASSUME cmds \in Seq(Command), NEW c \in Command, PostOrDrop(c)
  PROVE  {cmds'[i].gen : i \in Results'} \subseteq
             {cmds[i].gen : i \in Results}
             \cup (IF c.type = "ConnectDone" THEN {c.gen} ELSE {})
<1>1. CASE Post(c)
  BY <1>1, MailPosted DEF Results
<1>2. CASE UNCHANGED cmds
  BY <1>2 DEF Results, Mail
<1> QED
  BY <1>1, <1>2 DEF PostOrDrop

(* The other goroutines post no result of an attempt.                      *)
LEMMA OthersPost ==
  ASSUME TypeOK, [Next]_vars, ~Actor, ~(\E w \in workers : WorkerStep(w))
  PROVE  cmds' = cmds \/ \E c \in Command : PostOrDrop(c) /\ c.type # "ConnectDone"
<1>1. /\ \A t \in {"AutoRevert", "Disconnect", "Shutdown"} :
            /\ Cmd(t, NoConfig, 0, "none") \in Command
            /\ Cmd(t, NoConfig, 0, "none").type # "ConnectDone"
      /\ \A t \in {"Connect", "Switch"}, id \in ConfigID :
            /\ Cmd(t, id, 0, "none") \in Command
            /\ Cmd(t, id, 0, "none").type # "ConnectDone"
      /\ \A g \in Nat :
            /\ Cmd("DisconnectDone", NoConfig, g, "none") \in Command
            /\ Cmd("DisconnectDone", NoConfig, g, "none").type # "ConnectDone"
  BY CommandType DEF CmdType, Cmd
<1>2. \A c \in cleanups : c.gen \in Nat
  BY DEF TypeOK, Cleanup
<1>3. ASSUME NEW c \in cleanups, CleanupStops(c) \/ CleanupReports(c)
      PROVE  cmds' = cmds \/ \E d \in Command : PostOrDrop(d) /\ d.type # "ConnectDone"
  BY <1>1, <1>2, <1>3 DEF CleanupStops, CleanupReports
<1>4. CASE PostAutoRevert \/ Request \/ CallShutdown
  BY <1>1, <1>4 DEF PostAutoRevert, Request, CallShutdown, PostOrDrop
<1>5. CASE TimerFires \/ ChildDies \/ AbandonShutdown \/ CancelMachine \/ ReturnFromShutdown
           \/ Terminated \/ UNCHANGED vars
  BY <1>5 DEF TimerFires, ChildDies, AbandonShutdown, CancelMachine, ReturnFromShutdown,
     Terminated, vars
<1> QED
  BY <1>3, <1>4, <1>5 DEF Next, Shutdown

(* Only the start of an attempt adds a generation, and it is a new one.    *)
LEMMA InFlightStep ==
  ASSUME TypeOK, [Next]_vars
  PROVE  \/ InFlight' \subseteq InFlight
         \/ /\ conn'.state = "Validating" /\ opGen' = opGen + 1
            /\ InFlight' \subseteq InFlight \cup {opGen'}
<1> USE DEF session, life
<1> DEFINE Gens == {w.gen : w \in workers}
           Sent == {cmds[i].gen : i \in Results}
           Grows == conn'.state = "Validating" /\ opGen' = opGen + 1
<1>0. cmds \in Seq(Command) /\ workers \in SUBSET Worker
  BY DEF TypeOK
<1>1. CASE Actor
  <2>1. Sent' \subseteq Sent
    <3>1. CASE DrainOnShutdown
      BY <3>1 DEF DrainOnShutdown, Results, Mail
    <3>2. CASE HandleChildExit
      BY <3>2 DEF HandleChildExit, Results, Mail
    <3>3. CASE ~DrainOnShutdown /\ ~HandleChildExit
      <4>1. cmds # <<>> /\ cmds' = Tail(cmds)
        BY <1>1, <3>3 DEF Actor, HandleConnect, HandleDisconnect, HandleSwitch,
           HandleConnectProgress, HandleConnectDone, HandleDisconnectDone, HandleAutoRevert,
           HandleShutdown, Receive
      <4> QED
        BY <1>0, <4>1, InFlightTaken
    <3> QED
      BY <3>1, <3>2, <3>3
  <2>2. ASSUME NEW id, StartConnect(id) PROVE Grows /\ Gens' \subseteq Gens \cup {opGen'}
    BY <2>2 DEF StartConnect
  <2>3. ASSUME NEW g, workers' = Canceled(g) PROVE Gens' \subseteq Gens
    BY <1>0, <2>3, CanceledFacts
  <2>4. \/ workers' = workers
        \/ \E id : StartConnect(id)
        \/ \E g : workers' = Canceled(g)
    BY <1>1 DEF Actor, HandleConnect, HandleDisconnect, HandleSwitch, HandleConnectProgress,
       HandleConnectDone, HandleDisconnectDone, HandleAutoRevert, HandleChildExit,
       HandleShutdown, DrainOnShutdown, ShutdownEffect, StaleResult, CurrentResult,
       FinishDisconnect, Teardown, TeardownAttempt, TeardownArmed, TeardownUnarmed
  <2> QED
    BY <2>1, <2>2, <2>3, <2>4 DEF InFlight
<1>2. ASSUME NEW w \in workers, WorkerStep(w) PROVE InFlight' \subseteq InFlight
  <2>1. w \in Worker
    BY <1>0
  <2>2. w.gen \in Nat /\ w.id \in ConfigID /\ w.outcome \in Outcome \cup {"none"}
    BY <2>1 DEF Worker
  <2>3. Gens' \subseteq Gens
    <3>1. \A p : At(w, p).gen = w.gen
      BY <2>1 DEF At, Worker
    <3>2. \A o : Ended(w, o).gen = w.gen
      BY <2>1 DEF Ended, Worker
    <3>3. \/ workers' = workers \ {w}
          \/ \E v : Advance(w, v) /\ v.gen = w.gen
      BY <1>2, <3>1, <3>2 DEF WorkerStep, WorkerFails, WorkerValidates, WorkerProgress,
         WorkerPreflight, WorkerSpawns, WorkerSeesAlive, WorkerSeesSocks, WorkerUndoes,
         WorkerReports
    <3> QED
      BY <3>3 DEF Advance
  <2>4. Sent' \subseteq Sent \cup {w.gen}
    <3>1. /\ Cmd("ConnectProgress", NoConfig, w.gen, "none") \in Command
          /\ Cmd("ConnectProgress", NoConfig, w.gen, "none").type # "ConnectDone"
          /\ Cmd("ConnectDone", w.id, w.gen, w.outcome) \in Command
          /\ Cmd("ConnectDone", w.id, w.gen, w.outcome).gen = w.gen
      BY <2>2, CommandType DEF CmdType, Cmd
    <3>2. CASE WorkerProgress(w)
      BY <1>0, <3>1, <3>2, InFlightPosted DEF WorkerProgress, PostOrDrop
    <3>3. CASE WorkerReports(w)
      BY <1>0, <3>1, <3>3, InFlightPosted DEF WorkerReports
    <3>4. CASE ~WorkerProgress(w) /\ ~WorkerReports(w)
      <4>1. cmds' = cmds
        BY <1>2, <3>4 DEF WorkerStep, WorkerFails, WorkerValidates, WorkerPreflight,
           WorkerSpawns, WorkerSeesAlive, WorkerSeesSocks, WorkerUndoes
      <4> QED
        BY <4>1 DEF Results, Mail
    <3> QED
      BY <3>2, <3>3, <3>4
  <2> QED
    BY <2>3, <2>4 DEF InFlight
<1>3. ASSUME ~Actor, ~(\E w \in workers : WorkerStep(w)) PROVE InFlight' \subseteq InFlight
  <2>1. workers' = workers
    BY <1>3 DEF Next, CleanupStops, CleanupReports, TimerFires, PostAutoRevert, Request,
       ChildDies, Shutdown, CallShutdown, AbandonShutdown, CancelMachine, ReturnFromShutdown,
       Terminated, vars
  <2>2. cmds' = cmds \/ \E c \in Command : PostOrDrop(c) /\ c.type # "ConnectDone"
    BY <1>3, OthersPost
  <2>3. Sent' \subseteq Sent
    <3>1. CASE cmds' = cmds
      BY <3>1 DEF Results, Mail
    <3> QED
      BY <1>0, <2>2, <3>1, InFlightPosted
  <2> QED
    BY <2>1, <2>3 DEF InFlight
<1> QED
  BY <1>1, <1>2, <1>3 DEF Next

LEMMA OrderStep ==
  ASSUME TypeOK, Order, [Next]_vars
  PROVE  Order'
<1> USE DEF session, life
<1>0. opGen \in Nat /\ conn.state \in States /\ cmds \in Seq(Command)
  BY DEF TypeOK
<1>1. \A g \in InFlight : g \in Int
  BY DEF TypeOK, InFlight, Worker, Command, Results, Mail
<1>2. /\ opGen' = opGen \/ opGen' = opGen + 1
      /\ conn'.state = "Disconnecting" => opGen' = opGen + 1 \/ conn.state = "Disconnecting"
      /\ pendingSwitchID' # NoConfig => conn'.state = "Disconnecting"
      /\ conn'.state = "Connected" => armed' # 0
  <2>1. CASE UNCHANGED session
    BY <2>1 DEF Order, SwitchPhase
  <2>2. ASSUME NEW id, StartConnect(id)
        PROVE  conn'.state = "Validating" /\ opGen' = opGen + 1
    BY <2>2 DEF StartConnect
  <2>3. ASSUME FinishDisconnect
        PROVE  /\ pendingSwitchID' = NoConfig
               /\ \/ conn'.state = "Validating" /\ opGen' = opGen + 1
                  \/ conn'.state = "Disconnected" /\ opGen' = opGen
    BY <2>2, <2>3 DEF FinishDisconnect, Disconnected
  <2>4. ASSUME Teardown
        PROVE  \/ conn'.state = "Disconnecting" /\ opGen' = opGen + 1
               \/ /\ conn'.state = "Disconnected" /\ opGen' = opGen
                  /\ conn.state = "Connected" => FALSE
    BY <2>4 DEF Teardown, TeardownAttempt, TeardownArmed, TeardownUnarmed, Disconnected, TypeOK,
       Order
  <2>5. CASE HandleConnect
    BY <2>2, <2>5 DEF HandleConnect, Order, SwitchPhase, Idle
  <2>6. CASE HandleDisconnect
    BY <2>4, <2>6 DEF HandleDisconnect
  <2>7. CASE HandleSwitch
    <3>1. ASSUME conn.state \notin Idle \cup {"Disconnecting"}, Teardown
          PROVE  conn'.state = "Disconnecting" /\ opGen' = opGen + 1
      BY <1>0, <3>1 DEF Order, Teardown, TeardownAttempt, TeardownArmed, TeardownUnarmed, TypeOK,
         Idle
    <3> QED
      BY <2>1, <2>2, <2>7, <3>1 DEF HandleSwitch, Order, SwitchPhase, Idle
  <2>8. CASE HandleConnectProgress
    BY <2>8 DEF HandleConnectProgress, Order, SwitchPhase, TypeOK
  <2>9. CASE HandleConnectDone
    <3> DEFINE done == Head(cmds)
    <3>1. done.gen \in InFlight
      <4>1. 1 \in Results /\ cmds[1] = done
        BY <1>0, <2>9, MailTaken, Taken DEF HandleConnectDone, Receive, Results
      <4> QED
        BY <4>1 DEF InFlight
    <3>2. CASE StaleResult(done)
      BY <2>3, <2>9, <3>2 DEF HandleConnectDone, StaleResult, Order, SwitchPhase
    <3>3. CASE done.gen = opGen /\ CurrentResult(done)
      <4>1. conn.state # "Disconnecting" /\ done.gen # 0
        BY <1>0, <1>1, <3>1, <3>3 DEF Order
      <4> QED
        BY <3>3, <4>1 DEF CurrentResult, Adopt, Disconnected, Errored, Order, SwitchPhase
    <3> QED
      BY <2>9, <3>2, <3>3 DEF HandleConnectDone
  <2>10. CASE HandleDisconnectDone
    BY <2>3, <2>10 DEF HandleDisconnectDone, Order, SwitchPhase
  <2>11. CASE HandleAutoRevert
    BY <2>11 DEF HandleAutoRevert, Disconnected, Order, SwitchPhase
  <2>12. CASE HandleChildExit
    BY <2>12 DEF HandleChildExit, Errored, Order, SwitchPhase
  <2>13. CASE ShutdownEffect
    BY <2>13 DEF ShutdownEffect, Disconnected
  <2>14. CASE Actor
    BY <2>1, <2>5, <2>6, <2>7, <2>8, <2>9, <2>10, <2>11, <2>12, <2>13, <2>14
       DEF Actor, HandleShutdown, DrainOnShutdown
  <2>15. CASE ~Actor
    <3>1. UNCHANGED session
      BY <2>15 DEF Next, WorkerStep, WorkerFrame, CleanupStops, CleanupReports, TimerFires,
         PostAutoRevert, Request, ChildDies, Shutdown, CallShutdown, AbandonShutdown,
         CancelMachine, ReturnFromShutdown, Terminated, vars
    <3> QED
      BY <2>1, <3>1
  <2> QED
    BY <2>14, <2>15
<1>3. \A g \in InFlight' : 0 < g /\ g <= opGen'
  BY <1>0, <1>1, <1>2, InFlightStep DEF Order
<1>4. conn'.state = "Disconnecting" => \A g \in InFlight' : g < opGen'
  <2>1. ASSUME conn'.state = "Disconnecting" PROVE InFlight' \subseteq InFlight
    BY <2>1, InFlightStep
  <2> QED
    BY <1>0, <1>1, <1>2, <2>1 DEF Order
<1> QED
  BY <1>2, <1>3, <1>4 DEF Order, SwitchPhase

(* A queued switch is dropped only by a later Disconnect or by Shutdown;   *)
(* otherwise the step that consumes it starts its connect.                 *)
THEOREM SwitchKept == Spec => SwitchNotLost
<1> DEFINE Kept == pendingSwitchID # NoConfig /\ pendingSwitchID' # pendingSwitchID =>
                      \/ conn' = [state |-> "Validating", configID |-> pendingSwitchID]
                      \/ cmds # <<>> /\ Head(cmds).type = "Disconnect"
                      \/ shutdown' = "done"
<1>1. Init => Order
  BY DEF Init, Disconnected, Order, InFlight, Results, Mail, SwitchPhase
<1>2. TypeOK /\ Order /\ [Next]_vars => Order'
  BY OrderStep
<1>3. ASSUME Order, [Next]_vars PROVE [Kept]_vars
  <2>1. CASE HandleDisconnect
    BY <2>1 DEF HandleDisconnect, Receive
  <2>2. CASE HandleSwitch
    <3>1. \/ pendingSwitchID' = pendingSwitchID
          \/ conn.state # "Disconnecting"
      BY <2>2 DEF HandleSwitch, session
    <3>2. pendingSwitchID' = pendingSwitchID \/ pendingSwitchID = NoConfig
      BY <1>3, <3>1 DEF Order, SwitchPhase
    <3> QED
      BY <3>2
  <2>3. CASE FinishDisconnect
    BY <2>3 DEF FinishDisconnect, StartConnect
  <2>4. CASE ShutdownEffect
    BY <2>4 DEF ShutdownEffect
  <2>5. CASE UNCHANGED pendingSwitchID
    BY <2>5
  <2>6. CASE Actor
    BY <2>1, <2>2, <2>3, <2>4, <2>5, <2>6 DEF Actor, HandleConnect, HandleConnectProgress,
       HandleConnectDone, StaleResult, CurrentResult, HandleDisconnectDone, HandleAutoRevert,
       HandleChildExit, HandleShutdown, DrainOnShutdown, session
  <2>7. CASE ~Actor
    <3>1. UNCHANGED pendingSwitchID
      BY <1>3, <2>7 DEF Next, WorkerStep, WorkerFrame, CleanupStops, CleanupReports, TimerFires,
         PostAutoRevert, Request, ChildDies, Shutdown, CallShutdown, AbandonShutdown,
         CancelMachine, ReturnFromShutdown, Terminated, vars, session
    <3> QED
      BY <2>5, <3>1
  <2> QED
    BY <2>6, <2>7
<1> QED
  BY <1>1, <1>2, <1>3, TypeCorrect, PTL DEF Spec, SwitchNotLost

-----------------------------------------------------------------------------
(* A shutdown that has been handled ends the guarantees of Up, but not the *)
(* actor: until the Machine's context is cancelled it goes on, also with   *)
(* requests that start attempts beside those just cancelled.  What keeps   *)
(* every child in somebody's hands then is that generations are never      *)
(* shared: neither among the attempts nor with a teardown nor with the     *)
(* armed stack.                                                            *)

(* The generations of the cleanup goroutines and of their reports.         *)
Teardowns == {c.gen : c \in cleanups} \cup {cmds[i].gen : i \in Ends}

(* Every generation in flight is that of one worker or of one result.      *)
Sole ==
    /\ \A v, w \in workers : v.gen = w.gen => v = w
    /\ \A i, j \in Results : cmds[i].gen = cmds[j].gen => i = j
    /\ \A w \in workers, i \in Results : w.gen # cmds[i].gen

Parted == \A g \in Teardowns : g <= opGen /\ g \notin InFlight

Arms ==
    armed # 0 => /\ conn.state = "Connected" /\ armed = opGen
                 /\ opGen \notin InFlight \cup Teardowns

(* What is left of a type of mail, or was there, in the same order.        *)
Thinned(t) ==
    \E k \in {0, 1} : \A i \in Mail(t)' : i + k \in Mail(t) /\ cmds'[i] = cmds[i + k]

LEMMA ThinnedTaken ==
  ASSUME cmds \in Seq(Command), cmds # <<>>, cmds' = Tail(cmds), NEW t
  PROVE  Thinned(t)
<1>1. \A i \in Mail(t)' : i + 1 \in Mail(t) /\ cmds'[i] = cmds[i + 1]
  BY MailTaken
<1> QED
  BY <1>1 DEF Thinned

LEMMA ThinnedPosted ==
  ASSUME cmds \in Seq(Command), NEW c \in Command, PostOrDrop(c), NEW t, t # c.type
  PROVE  Thinned(t)
<1>1. \A i \in Mail(t)' : i \in Mail(t) /\ cmds'[i] = cmds[i]
  <2>1. CASE Post(c)
    BY <2>1, MailPosted
  <2>2. CASE UNCHANGED cmds
    BY <2>2 DEF Mail
  <2> QED
    BY <2>1, <2>2 DEF PostOrDrop
<1>2. \A i \in Mail(t)' : i + 0 = i
  BY DEF Mail
<1> QED
  BY <1>1, <1>2 DEF Thinned

LEMMA ThinnedSame ==
  ASSUME cmds' = cmds, NEW t
  PROVE  Thinned(t)
<1>1. Mail(t)' = Mail(t) /\ \A i \in Mail(t) : i + 0 = i
  BY DEF Mail
<1> QED
  BY <1>1 DEF Thinned

(* What a handler does to the channel and to the goroutines.               *)
LEMMA ActorMoves ==
  ASSUME TypeOK, ~ctxDone, Actor
  PROVE  /\ \/ cmds' = cmds /\ HandleChildExit
            \/ cmds # <<>> /\ cmds' = Tail(cmds)
         /\ \/ workers' = workers /\ cleanups' = cleanups /\ opGen' = opGen
            \/ cleanups' = cleanups /\ \E id : StartConnect(id)
            \/ cleanups' = cleanups /\ opGen' \in {opGen, opGen + 1} /\ \E g : workers' = Canceled(g)
            \/ TeardownArmed
         /\ alive' \subseteq alive
<1> USE DEF session, life
<1>1. ~DrainOnShutdown
  BY DEF DrainOnShutdown
<1>2. \/ cmds' = cmds /\ HandleChildExit
      \/ cmds # <<>> /\ cmds' = Tail(cmds)
  BY <1>1 DEF Actor, HandleConnect, HandleDisconnect, HandleSwitch, HandleConnectProgress,
     HandleConnectDone, HandleDisconnectDone, HandleAutoRevert, HandleShutdown, HandleChildExit,
     Receive
<1>3. \A g : StopChild(g) => alive' \subseteq alive
  BY DEF StopChild
<1>4. alive' \subseteq alive
  BY <1>1, <1>3 DEF Actor, HandleConnect, HandleDisconnect, HandleSwitch, HandleConnectProgress,
     HandleConnectDone, StaleResult, CurrentResult, HandleDisconnectDone, HandleAutoRevert,
     HandleShutdown, ShutdownEffect, HandleChildExit
<1> DEFINE Rest     == workers' = workers /\ cleanups' = cleanups /\ opGen' = opGen
           Starts   == cleanups' = cleanups /\ \E id : StartConnect(id)
           Cancels  == /\ cleanups' = cleanups /\ opGen' \in {opGen, opGen + 1}
                       /\ \E g : workers' = Canceled(g)
<1>5. Rest \/ Starts \/ Cancels \/ TeardownArmed
  <2>1. Teardown => Rest \/ Cancels \/ TeardownArmed
    BY DEF Teardown, TeardownAttempt, TeardownUnarmed
  <2>2. FinishDisconnect /\ cleanups' = cleanups => Rest \/ Starts
    BY DEF FinishDisconnect
  <2>3. CASE HandleConnect \/ HandleConnectProgress \/ HandleAutoRevert \/ HandleChildExit
    BY <2>3 DEF HandleConnect, HandleConnectProgress, HandleAutoRevert, HandleChildExit
  <2>4. CASE HandleDisconnect \/ HandleSwitch
    BY <2>1, <2>4 DEF HandleDisconnect, HandleSwitch
  <2>5. CASE HandleConnectDone \/ HandleDisconnectDone
    BY <2>2, <2>5 DEF HandleConnectDone, StaleResult, CurrentResult, HandleDisconnectDone
  <2>6. CASE HandleShutdown
    BY <2>6 DEF HandleShutdown, ShutdownEffect
  <2> QED
    BY <1>1, <2>3, <2>4, <2>5, <2>6 DEF Actor
<1> QED
  BY <1>2, <1>4, <1>5

LEMMA SoleActor ==
  ASSUME TypeOK, Order, Sole, Parted, ~ctxDone, Actor
  PROVE  Sole' /\ Parted'
<1>0. cmds \in Seq(Command) /\ workers \in SUBSET Worker /\ opGen \in Nat
  BY DEF TypeOK
<1>1. Thinned("ConnectDone") /\ Thinned("DisconnectDone")
  BY <1>0, ActorMoves, ThinnedTaken, ThinnedSame
<1>2. PICK k \in {0, 1} : \A i \in Results' : i + k \in Results /\ cmds'[i] = cmds[i + k]
  BY <1>1 DEF Thinned, Results
<1>3. PICK l \in {0, 1} : \A i \in Ends' : i + l \in Ends /\ cmds'[i] = cmds[i + l]
  BY <1>1 DEF Thinned, Ends
<1>4. \A i \in Results' : i \in Int
  BY DEF Results, Mail
<1>5. \A i, j \in Results' : cmds'[i].gen = cmds'[j].gen => i = j
  <2>1. ASSUME NEW i \in Results', NEW j \in Results', cmds'[i].gen = cmds'[j].gen PROVE i = j
    <3>1. i + k = j + k
      BY <1>2, <2>1 DEF Sole
    <3>2. i \in Int /\ j \in Int
      BY <1>4
    <3> QED
      BY <3>1, <3>2
  <2> QED
    BY <2>1
<1>6. \A g \in InFlight : g \in Nat
  BY <1>0 DEF InFlight, Worker, Command, Results, Mail
<1>7. \A g \in Teardowns : g \in Nat
  BY DEF TypeOK, Cleanup, Command, Teardowns, Ends, Mail
<1>8. \A g : g \in {cmds'[i].gen : i \in Results'} => g \in {cmds[i].gen : i \in Results}
  BY <1>2
<1>9. \A g : g \in {cmds'[i].gen : i \in Ends'} => g \in {cmds[i].gen : i \in Ends}
  BY <1>3
<1>10. CASE workers' = workers /\ cleanups' = cleanups /\ opGen' = opGen
  <2>1. InFlight' \subseteq InFlight /\ Teardowns' \subseteq Teardowns
    BY <1>8, <1>9, <1>10 DEF InFlight, Teardowns
  <2>2. \A w \in workers', i \in Results' : w.gen # cmds'[i].gen
    BY <1>2, <1>10 DEF Sole
  <2> QED
    BY <1>5, <1>10, <2>1, <2>2 DEF Sole, Parted
<1>11. ASSUME cleanups' = cleanups, NEW id, StartConnect(id) PROVE Sole' /\ Parted'
  <2> DEFINE v == [gen |-> opGen + 1, id |-> id, at |-> "validate", canceled |-> FALSE,
                   outcome |-> "none"]
  <2>1. v.gen = opGen + 1 /\ workers' = workers \cup {v}
    BY <1>11 DEF StartConnect
  <2> HIDE DEF v
  <2>2. opGen' = opGen + 1
    BY <1>11 DEF StartConnect
  <2>3. InFlight' \subseteq InFlight \cup {opGen + 1} /\ Teardowns' \subseteq Teardowns
    BY <1>8, <1>9, <1>11, <2>1 DEF InFlight, Teardowns
  <2>4. \A g \in InFlight : g <= opGen
    BY DEF Order
  <2>5. /\ \A w \in workers : w.gen \in InFlight /\ w.gen # opGen + 1
        /\ \A i \in Results' : cmds'[i].gen \in InFlight /\ cmds'[i].gen # opGen + 1
    <3>1. \A w \in workers : w.gen \in InFlight
      BY DEF InFlight
    <3>2. \A i \in Results' : cmds'[i].gen \in InFlight
      BY <1>2 DEF InFlight
    <3>3. \A g \in InFlight : g # opGen + 1
      BY <1>0, <1>6, <2>4
    <3> QED
      BY <3>1, <3>2, <3>3
  <2>6. \A w, x \in workers' : w.gen = x.gen => w = x
    BY <2>1, <2>5 DEF Sole
  <2>7. \A w \in workers', i \in Results' : w.gen # cmds'[i].gen
    BY <1>2, <2>1, <2>5 DEF Sole
  <2>8. Parted'
    BY <1>0, <1>6, <1>7, <2>2, <2>3, <2>4 DEF Parted
  <2> QED
    BY <1>5, <2>6, <2>7, <2>8 DEF Sole
<1>12. ASSUME cleanups' = cleanups, opGen' \in {opGen, opGen + 1}, NEW g, workers' = Canceled(g)
       PROVE  Sole' /\ Parted'
  <2>1. \A v \in workers' : \E w \in workers : v.gen = w.gen
    BY <1>0, <1>12, CanceledFacts
  <2>2. \A v, w \in workers' : v.gen = w.gen => v = w
    <3> DEFINE c(w) == IF w.gen = g THEN [w EXCEPT !.canceled = TRUE] ELSE w
    <3>1. workers' = {c(w) : w \in workers}
      BY <1>12 DEF Canceled
    <3>2. ASSUME NEW w \in workers PROVE c(w).gen = w.gen
      BY <1>0 DEF Worker
    <3> HIDE DEF c
    <3> QED
      BY <3>1, <3>2 DEF Sole
  <2>3. \A w \in workers', i \in Results' : w.gen # cmds'[i].gen
    BY <1>2, <2>1 DEF Sole
  <2>4. InFlight' \subseteq InFlight /\ Teardowns' \subseteq Teardowns
    BY <1>8, <1>9, <1>12, <2>1 DEF InFlight, Teardowns
  <2>5. Parted'
    BY <1>0, <1>7, <1>12, <2>4 DEF Parted
  <2> QED
    BY <1>5, <2>2, <2>3, <2>5 DEF Sole
<1>13. CASE TeardownArmed
  <2>1. workers' = workers /\ opGen' = opGen + 1
    BY <1>13 DEF TeardownArmed
  <2>2. \A c \in cleanups' : c \in cleanups \/ c.gen = opGen + 1
    BY <1>13 DEF TeardownArmed
  <2>3. InFlight' \subseteq InFlight /\ Teardowns' \subseteq Teardowns \cup {opGen + 1}
    BY <1>8, <1>9, <2>1, <2>2 DEF InFlight, Teardowns
  <2>4. \A g \in InFlight : g <= opGen
    BY DEF Order
  <2>5. Parted'
    BY <1>0, <1>6, <1>7, <2>1, <2>3, <2>4 DEF Parted
  <2>6. \A w \in workers', i \in Results' : w.gen # cmds'[i].gen
    BY <1>2, <2>1 DEF Sole
  <2> QED
    BY <1>5, <2>1, <2>5, <2>6 DEF Sole
<1> QED
  BY <1>10, <1>11, <1>12, <1>13, ActorMoves

LEMMA SoleWorker ==
  ASSUME TypeOK, Sole, Parted, ~ctxDone, [Next]_vars, NEW w \in workers, WorkerStep(w)
  PROVE  Sole' /\ Parted' /\ Teardowns' \subseteq Teardowns
<1> USE DEF session, life
<1>0. cmds \in Seq(Command) /\ workers \in SUBSET Worker /\ w \in Worker
  BY DEF TypeOK
<1>1. /\ w.gen \in Nat /\ w.id \in ConfigID /\ w.outcome \in Outcome \cup {"none"}
      /\ cleanups' = cleanups /\ opGen' = opGen
  BY <1>0 DEF Worker, WorkerStep, WorkerFrame
<1> DEFINE note == Cmd("ConnectProgress", NoConfig, w.gen, "none")
           done == Cmd("ConnectDone", w.id, w.gen, w.outcome)
<1>2. /\ note \in Command /\ note.type = "ConnectProgress"
      /\ done \in Command /\ done.type = "ConnectDone" /\ done.gen = w.gen
  BY <1>1, CommandType DEF CmdType, Cmd
<1>3. Thinned("DisconnectDone")
  <2>1. CASE UNCHANGED cmds
    BY <2>1, ThinnedSame
  <2>2. CASE PostOrDrop(note) \/ PostOrDrop(done)
    BY <1>0, <1>2, <2>2, ThinnedPosted
  <2> QED
    BY <2>1, <2>2 DEF WorkerStep, WorkerFails, WorkerValidates, WorkerProgress, WorkerPreflight,
       WorkerSpawns, WorkerSeesAlive, WorkerSeesSocks, WorkerUndoes, WorkerReports, PostOrDrop
<1>4. Teardowns' \subseteq Teardowns
  BY <1>1, <1>3 DEF Thinned, Teardowns, Ends
<1>5. InFlight' \subseteq InFlight
  <2>1. conn'.state = "Validating" /\ opGen' = opGen + 1 => FALSE
    BY <1>1 DEF TypeOK
  <2> QED
    BY <2>1, InFlightStep
<1>6. Parted'
  BY <1>1, <1>4, <1>5 DEF Parted
<1>7. CASE WorkerReports(w)
  <2>1. workers' = workers \ {w}
    BY <1>7 DEF WorkerReports
  <2>2. Post(done)
    BY <1>7 DEF WorkerReports, PostOrDrop
  <2> DEFINE n == Len(cmds) + 1
  <2>3. /\ \A i \in Results' : i \in Results \/ i = n
        /\ \A i \in Results : cmds'[i] = cmds[i]
        /\ cmds'[n].gen = w.gen
    BY <1>0, <1>2, <2>2, MailPosted DEF Results
  <2> HIDE DEF n
  <2>4. \A i \in Results : cmds[i].gen # w.gen
    BY DEF Sole
  <2>5. \A i, j \in Results' : cmds'[i].gen = cmds'[j].gen => i = j
    BY <2>3, <2>4 DEF Sole
  <2>6. \A v \in workers', i \in Results' : v.gen # cmds'[i].gen
    BY <2>1, <2>3 DEF Sole
  <2> QED
    BY <1>4, <1>6, <2>1, <2>5, <2>6 DEF Sole
<1>8. CASE ~WorkerReports(w)
  <2>1. Thinned("ConnectDone")
    <3>1. CASE UNCHANGED cmds
      BY <3>1, ThinnedSame
    <3>2. CASE PostOrDrop(note)
      BY <1>0, <1>2, <3>2, ThinnedPosted
    <3> QED
      BY <1>8, <3>1, <3>2 DEF WorkerStep, WorkerFails, WorkerValidates, WorkerProgress,
         WorkerPreflight, WorkerSpawns, WorkerSeesAlive, WorkerSeesSocks, WorkerUndoes, PostOrDrop
  <2>2. PICK k \in {0, 1} : \A i \in Results' : i + k \in Results /\ cmds'[i] = cmds[i + k]
    BY <2>1 DEF Thinned, Results
  <2>3. \E v : v.gen = w.gen /\ Advance(w, v)
    <3>1. \A p : At(w, p).gen = w.gen
      BY <1>0 DEF At, Worker
    <3>2. \A o : Ended(w, o).gen = w.gen
      BY <1>0 DEF Ended, Worker
    <3> QED
      BY <1>8, <3>1, <3>2 DEF WorkerStep, WorkerFails, WorkerValidates, WorkerProgress,
         WorkerPreflight, WorkerSpawns, WorkerSeesAlive, WorkerSeesSocks, WorkerUndoes
  <2>4. PICK v : v.gen = w.gen /\ workers' = (workers \ {w}) \cup {v}
    BY <2>3 DEF Advance
  <2>5. \A x, y \in workers' : x.gen = y.gen => x = y
    BY <2>4 DEF Sole
  <2>6. \A x \in workers', i \in Results' : x.gen # cmds'[i].gen
    BY <2>2, <2>4 DEF Sole
  <2>7. ASSUME NEW i \in Results', NEW j \in Results', cmds'[i].gen = cmds'[j].gen PROVE i = j
    <3>1. i + k = j + k
      BY <2>2, <2>7 DEF Sole
    <3>2. i \in Int /\ j \in Int
      BY DEF Results, Mail
    <3> QED
      BY <3>1, <3>2
  <2> QED
    BY <1>4, <1>6, <2>5, <2>6, <2>7 DEF Sole
<1> QED
  BY <1>4, <1>7, <1>8

LEMMA SoleStep ==
  ASSUME TypeOK, Order, Sole, Parted, ~ctxDone, [Next]_vars
  PROVE  Sole' /\ Parted' /\ (~Actor => Teardowns' \subseteq Teardowns)
<1> USE DEF session, life
<1>0. cmds \in Seq(Command)
  BY DEF TypeOK
<1>1. CASE Actor
  BY <1>1, SoleActor
<1>2. CASE \E w \in workers : WorkerStep(w)
  BY <1>2, SoleWorker
<1>3. CASE ~Actor /\ ~\E w \in workers : WorkerStep(w)
  <2>1. workers' = workers /\ opGen' = opGen
    BY <1>3 DEF Next, CleanupStops, CleanupReports, TimerFires, PostAutoRevert, Request,
       ChildDies, Shutdown, CallShutdown, AbandonShutdown, CancelMachine, ReturnFromShutdown,
       Terminated, vars
  <2>2. /\ Thinned("ConnectDone")
        /\ Teardowns' \subseteq Teardowns
    <3>1. ASSUME NEW t \in {"AutoRevert", "Disconnect", "Shutdown", "Connect", "Switch"},
                 NEW id \in ConfigID \cup {NoConfig},
                 t \in {"Connect", "Switch"} => id \in ConfigID,
                 PostOrDrop(Cmd(t, id, 0, "none"))
          PROVE  Thinned("ConnectDone") /\ Thinned("DisconnectDone")
      <4>1. Cmd(t, id, 0, "none") \in Command /\ Cmd(t, id, 0, "none").type = t
        BY <3>1, CommandType DEF CmdType, Cmd
      <4> QED
        BY <1>0, <3>1, <4>1, ThinnedPosted
    <3>2. ASSUME cleanups' = cleanups, Thinned("ConnectDone") /\ Thinned("DisconnectDone")
          PROVE  Thinned("ConnectDone") /\ Teardowns' \subseteq Teardowns
      BY <3>2 DEF Thinned, Teardowns, Ends
    <3>3. CASE PostAutoRevert \/ Request \/ CallShutdown
      BY <3>1, <3>2, <3>3 DEF PostAutoRevert, Request, CallShutdown, PostOrDrop
    <3>4. CASE \/ TimerFires \/ ChildDies \/ AbandonShutdown \/ CancelMachine
               \/ ReturnFromShutdown \/ Terminated \/ UNCHANGED vars
      <4>1. cmds' = cmds /\ cleanups' = cleanups
        BY <3>4 DEF TimerFires, ChildDies, AbandonShutdown, CancelMachine, ReturnFromShutdown,
           Terminated, vars
      <4> QED
        BY <3>2, <4>1, ThinnedSame
    <3>5. ASSUME NEW c \in cleanups, CleanupStops(c)
          PROVE  Thinned("ConnectDone") /\ Teardowns' \subseteq Teardowns
      <4>1. [c EXCEPT !.at = "report"].gen = c.gen
        BY DEF TypeOK, Cleanup
      <4>2. \A d \in cleanups' : \E e \in cleanups : d.gen = e.gen
        BY <3>5, <4>1 DEF CleanupStops
      <4>3. Thinned("ConnectDone") /\ Thinned("DisconnectDone")
        BY <3>5, ThinnedSame DEF CleanupStops
      <4> QED
        BY <4>2, <4>3 DEF Thinned, Teardowns, Ends
    <3>6. ASSUME NEW c \in cleanups, CleanupReports(c)
          PROVE  Thinned("ConnectDone") /\ Teardowns' \subseteq Teardowns
      <4> DEFINE over == Cmd("DisconnectDone", NoConfig, c.gen, "none")
      <4>1. c.gen \in Nat
        BY DEF TypeOK, Cleanup
      <4>2. over \in Command /\ over.type = "DisconnectDone" /\ over.gen = c.gen
        BY <4>1, CommandType DEF CmdType, Cmd
      <4>3. PostOrDrop(over) /\ Post(over)
        BY <3>6 DEF CleanupReports, PostOrDrop
      <4>4. Thinned("ConnectDone")
        BY <1>0, <4>2, <4>3, ThinnedPosted
      <4>5. \A i \in Ends' : cmds'[i].gen \in Teardowns
        <5>1. \A i \in Ends' : i \in Ends \/ i = Len(cmds) + 1
          BY <1>0, <4>2, <4>3, MailPosted DEF Ends
        <5>2. (\A i \in Ends : cmds'[i] = cmds[i]) /\ cmds'[Len(cmds) + 1] = over
          BY <1>0, <4>2, <4>3, MailPosted DEF Ends
        <5> QED
          BY <4>2, <5>1, <5>2 DEF Teardowns
      <4>6. cleanups' \subseteq cleanups
        BY <3>6 DEF CleanupReports
      <4> QED
        BY <4>4, <4>5, <4>6 DEF Teardowns
    <3> QED
      BY <1>3, <3>3, <3>4, <3>5, <3>6 DEF Next, Shutdown
  <2>3. PICK k \in {0, 1} : \A i \in Results' : i + k \in Results /\ cmds'[i] = cmds[i + k]
    BY <2>2 DEF Thinned, Results
  <2>4. InFlight' \subseteq InFlight
    BY <2>1, <2>3 DEF InFlight
  <2>5. ASSUME NEW i \in Results', NEW j \in Results', cmds'[i].gen = cmds'[j].gen PROVE i = j
    <3>1. i + k = j + k
      BY <2>3, <2>5 DEF Sole
    <3>2. i \in Int /\ j \in Int
      BY DEF Results, Mail
    <3> QED
      BY <3>1, <3>2
  <2>6. \A w \in workers', i \in Results' : w.gen # cmds'[i].gen
    BY <2>1, <2>3 DEF Sole
  <2> QED
    BY <2>1, <2>2, <2>4, <2>5, <2>6 DEF Sole, Parted
<1> QED
  BY <1>1, <1>2, <1>3

(* The head of the channel, when it is a result, is in flight, and the     *)
(* step that takes it leaves nothing of its generation in flight.          *)
LEMMA ResultTaken ==
  ASSUME TypeOK, Sole, Receive("ConnectDone")
  PROVE  /\ Head(cmds).gen \in InFlight
         /\ workers' = workers => Head(cmds).gen \notin InFlight'
<1>0. cmds \in Seq(Command) /\ cmds # <<>> /\ cmds' = Tail(cmds) /\ Head(cmds).type = "ConnectDone"
  BY DEF TypeOK, Receive
<1>1. 1 \in Results /\ cmds[1] = Head(cmds)
  BY <1>0, MailTaken, Taken DEF Results
<1>2. \A i \in Results' : i + 1 \in Results /\ cmds'[i] = cmds[i + 1] /\ i + 1 # 1
  <2>1. \A i \in Results' : i + 1 \in Results /\ cmds'[i] = cmds[i + 1]
    BY <1>0, MailTaken DEF Results
  <2>2. \A i \in Results' : i \in Int /\ i > 0
    BY DEF Results, Mail
  <2> QED
    BY <2>1, <2>2
<1>3. \A i \in Results' : cmds'[i].gen # Head(cmds).gen
  BY <1>1, <1>2 DEF Sole
<1>4. \A w \in workers : w.gen # Head(cmds).gen
  BY <1>1 DEF Sole
<1> QED
  BY <1>1, <1>3, <1>4 DEF InFlight

LEMMA ArmsActor ==
  ASSUME TypeOK, Order, Sole, Parted, Arms, ~ctxDone, Actor, armed' # 0
  PROVE  /\ conn'.state = "Connected" /\ armed' = opGen' /\ opGen' = opGen
         /\ opGen \notin InFlight' \cup Teardowns'
<1> USE DEF session, life
<1>0. /\ opGen \in Nat /\ cmds \in Seq(Command) /\ conn.state \in States /\ armed \in Nat
      /\ ~DrainOnShutdown
  BY DEF TypeOK, DrainOnShutdown
<1>1. Thinned("ConnectDone") /\ Thinned("DisconnectDone")
  BY <1>0, ActorMoves, ThinnedTaken, ThinnedSame
<1> DEFINE Stays == /\ armed' = armed /\ armed # 0 /\ conn' = conn /\ opGen' = opGen
                    /\ workers' = workers /\ cleanups' = cleanups
           Adopts == /\ HandleConnectDone /\ Head(cmds).gen = opGen /\ armed' = opGen
                     /\ conn'.state = "Connected" /\ opGen' = opGen /\ workers' = workers
                     /\ cleanups' = cleanups
<1>2. Stays \/ Adopts
  <2>1. armed # 0 => conn.state = "Connected" /\ opGen \notin InFlight \cup Teardowns
    BY DEF Arms
  <2>2. ASSUME FinishDisconnect, armed' = armed PROVE conn.state = "Connected"
    BY <2>1, <2>2
  <2>3. CASE HandleConnect
    BY <2>1, <2>3 DEF HandleConnect, Idle
  <2>4. ASSUME Teardown PROVE FALSE
    BY <2>1, <2>4 DEF Teardown, TeardownAttempt, TeardownArmed, TeardownUnarmed, Attempting
  <2>5. CASE HandleDisconnect
    BY <2>1, <2>4, <2>5 DEF HandleDisconnect
  <2>6. CASE HandleSwitch
    BY <2>1, <2>4, <2>6 DEF HandleSwitch, Idle
  <2>7. CASE HandleConnectProgress
    BY <2>1, <2>7 DEF HandleConnectProgress
  <2>8. CASE HandleConnectDone
    <3>1. Head(cmds).gen \in InFlight
      BY <2>8, ResultTaken DEF HandleConnectDone
    <3>2. CASE StaleResult(Head(cmds))
      BY <2>1, <2>8, <3>2 DEF HandleConnectDone, StaleResult
    <3>3. CASE Head(cmds).gen = opGen /\ CurrentResult(Head(cmds))
      BY <2>1, <2>8, <3>1, <3>3 DEF HandleConnectDone, CurrentResult, Adopt
    <3> QED
      BY <2>8, <3>2, <3>3 DEF HandleConnectDone
  <2>9. CASE HandleDisconnectDone
    <3>1. Head(cmds).gen \in Teardowns
      <4>1. Head(cmds).type = "DisconnectDone" /\ cmds # <<>> /\ cmds' = Tail(cmds)
        BY <2>9 DEF HandleDisconnectDone, Receive
      <4>2. 1 \in Ends /\ cmds[1] = Head(cmds)
        BY <1>0, <4>1, MailTaken, Taken DEF Ends
      <4> QED
        BY <4>2 DEF Teardowns
    <3> QED
      BY <2>1, <2>9, <3>1 DEF HandleDisconnectDone
  <2>10. CASE HandleAutoRevert
    BY <2>1, <2>10 DEF HandleAutoRevert
  <2>11. CASE HandleChildExit
    BY <2>1, <2>11 DEF HandleChildExit
  <2>12. CASE HandleShutdown
    BY <2>12 DEF HandleShutdown, ShutdownEffect
  <2> QED
    BY <1>0, <2>3, <2>5, <2>6, <2>7, <2>8, <2>9, <2>10, <2>11, <2>12 DEF Actor
<1>3. cleanups' = cleanups => Teardowns' \subseteq Teardowns
  BY <1>1 DEF Thinned, Teardowns, Ends
<1>4. CASE Stays
  <2>1. InFlight' \subseteq InFlight
    BY <1>1, <1>4 DEF Thinned, InFlight, Results
  <2> QED
    BY <1>3, <1>4, <2>1 DEF Arms
<1>5. CASE Adopts
  <2>1. opGen \in InFlight /\ opGen \notin InFlight'
    BY <1>5, ResultTaken DEF HandleConnectDone
  <2> QED
    BY <1>3, <1>5, <2>1 DEF Parted
<1> QED
  BY <1>2, <1>4, <1>5

LEMMA ArmsStep ==
  ASSUME TypeOK, Order, Sole, Parted, Arms, ~ctxDone, [Next]_vars
  PROVE  Arms'
<1>1. CASE Actor
  BY <1>1, ArmsActor DEF Arms
<1>2. CASE ~Actor
  <2>1. UNCHANGED <<conn, armed, opGen>>
    BY <1>2 DEF Next, WorkerStep, WorkerFrame, CleanupStops, CleanupReports, TimerFires,
       PostAutoRevert, Request, ChildDies, Shutdown, CallShutdown, AbandonShutdown,
       CancelMachine, ReturnFromShutdown, Terminated, vars, session
  <2>2. InFlight' \subseteq InFlight
    <3>1. opGen' # opGen + 1
      BY <2>1 DEF TypeOK
    <3> QED
      BY <3>1, InFlightStep
  <2>3. Teardowns' \subseteq Teardowns
    BY <1>2, SoleStep
  <2> QED
    BY <2>1, <2>2, <2>3 DEF Arms
<1> QED
  BY <1>1, <1>2

(* What a handler can take out of the hands that held a child: the stack   *)
(* that it disarms, and the result that it takes.                          *)
LEMMA ActorKeeps ==
  ASSUME TypeOK, ~ctxDone, Actor, NEW g, Held(g)
  PROVE  \/ Held(g)'
         \/ armed # 0 /\ g = armed /\ armed' # armed
         \/ /\ cmds # <<>> /\ Head(cmds).type = "ConnectDone"
            /\ Head(cmds).gen = g /\ Head(cmds).outcome = "ok"
<1> USE DEF session, life
<1>0. cmds \in Seq(Command) /\ workers \in SUBSET Worker
  BY DEF TypeOK
<1>1. CASE \E w \in workers : w.gen = g /\ Holds(w)
  <2>1. PICK w \in workers : w.gen = g /\ Holds(w)
    BY <1>1
  <2>2. \E v \in workers' : v.gen = w.gen /\ v.at = w.at /\ v.outcome = w.outcome
    <3>1. CASE workers \subseteq workers'
      BY <3>1
    <3>2. CASE \E h : workers' = Canceled(h)
      BY <1>0, <3>2, CanceledFacts
    <3> QED
      BY <3>1, <3>2, ActorMoves DEF StartConnect, TeardownArmed
  <2> QED
    BY <2>1, <2>2 DEF Held, Holds
<1>2. CASE \E i \in Results : cmds[i].gen = g /\ cmds[i].outcome = "ok"
  <2>1. PICK i \in Results : cmds[i].gen = g /\ cmds[i].outcome = "ok"
    BY <1>2
  <2>2. CASE cmds' = cmds
    BY <2>1, <2>2 DEF Held, Results, Mail
  <2>3. CASE cmds # <<>> /\ cmds' = Tail(cmds)
    <3>1. CASE i = 1
      BY <1>0, <2>1, <2>3, <3>1, Taken DEF Results, Mail
    <3>2. CASE i # 1
      <4>1. i - 1 \in Results' /\ cmds'[i - 1] = cmds[i]
        BY <1>0, <2>1, <2>3, <3>2, MailTaken DEF Results
      <4> QED
        BY <2>1, <4>1 DEF Held
    <3> QED
      BY <3>1, <3>2
  <2> QED
    BY <2>2, <2>3, ActorMoves
<1>3. CASE armed # 0 /\ g = armed
  BY <1>3 DEF Held
<1>4. CASE \E c \in cleanups : c.child = g /\ c.at = "stop"
  <2>1. cleanups \subseteq cleanups'
    BY ActorMoves DEF TeardownArmed
  <2> QED
    BY <1>4, <2>1 DEF Held
<1> QED
  BY <1>1, <1>2, <1>3, <1>4 DEF Held

Kept == \A g \in alive : Held(g)

(* Whoever lets go of a child has stopped it or has passed it on.          *)
LEMMA KeptActor ==
  ASSUME ~KillFails, TypeOK, Order, Sole, Parted, Arms, Kept, ~ctxDone, Actor
  PROVE  Kept'
<1> USE DEF session, life
<1>0. alive' \subseteq alive /\ ~DrainOnShutdown
  BY ActorMoves DEF DrainOnShutdown
<1>1. \A h : StopChild(h) => h \notin alive'
  BY DEF StopChild
<1>2. ASSUME NEW g \in alive', armed # 0, g = armed, armed' # armed PROVE Held(g)'
  <2>1. conn.state = "Connected" /\ armed = opGen /\ opGen \notin InFlight
    BY <1>2 DEF Arms
  <2>2. ~StopChild(armed)
    BY <1>1, <1>2
  <2>3. CASE TeardownArmed
    <3> DEFINE c == [gen |-> opGen + 1, child |-> armed, at |-> "stop"]
    <3>1. c \in cleanups' /\ c.child = armed /\ c.at = "stop"
      BY <2>3 DEF TeardownArmed
    <3> HIDE DEF c
    <3> QED
      BY <1>2, <3>1 DEF Held
  <2>4. CASE HandleConnectDone
    <3>1. Head(cmds).gen # opGen
      BY <2>1, <2>4, ResultTaken DEF HandleConnectDone
    <3> QED
      BY <1>2, <2>4, <3>1 DEF HandleConnectDone, StaleResult
  <2>5. Teardown => TeardownArmed \/ armed' = armed
    BY DEF Teardown, TeardownAttempt, TeardownUnarmed
  <2> QED
    BY <1>0, <1>2, <2>2, <2>3, <2>4, <2>5 DEF Actor, HandleConnect, HandleDisconnect, HandleSwitch,
       HandleConnectProgress, HandleDisconnectDone, HandleAutoRevert, HandleChildExit,
       HandleShutdown, ShutdownEffect
<1>3. ASSUME NEW g \in alive', cmds # <<>>, Head(cmds).type = "ConnectDone",
             Head(cmds).gen = g, Head(cmds).outcome = "ok", ~Held(g)'
      PROVE  FALSE
  <2>1. CASE HandleConnectDone
    <3>1. g \in InFlight /\ g # 0
      BY <1>3, <2>1, ResultTaken DEF HandleConnectDone, Order
    <3>2. CASE StaleResult(Head(cmds))
      BY <1>1, <1>3, <3>2 DEF StaleResult
    <3>3. CASE CurrentResult(Head(cmds))
      <4>1. armed' = g
        BY <1>3, <3>3 DEF CurrentResult, Adopt
      <4> QED
        BY <1>3, <3>1, <4>1 DEF Held
    <3> QED
      BY <2>1, <3>2, <3>3 DEF HandleConnectDone
  <2>2. CASE HandleChildExit
    <3>1. PICK i \in Results : cmds[i].gen = g /\ cmds[i].outcome = "ok"
      <4>1. cmds \in Seq(Command)
        BY DEF TypeOK
      <4>2. 1 \in 1 .. Len(cmds) /\ cmds[1] = Head(cmds)
        BY <1>3, <4>1
      <4> QED
        BY <1>3, <4>2 DEF Results, Mail
    <3>2. cmds' = cmds
      BY <2>2 DEF HandleChildExit
    <3> QED
      BY <1>3, <3>1, <3>2 DEF Held, Results, Mail
  <2> QED
    BY <1>0, <1>3, <2>1, <2>2 DEF Actor, HandleConnect, HandleDisconnect, HandleSwitch,
       HandleConnectProgress, HandleDisconnectDone, HandleAutoRevert, HandleShutdown, Receive
<1> QED
  BY <1>0, <1>2, <1>3, ActorKeeps DEF Kept

LEMMA KeptWorker ==
  ASSUME ~KillFails, TypeOK, OutcomePhase, Kept, ~ctxDone, NEW w \in workers, WorkerStep(w)
  PROVE  Kept' /\ OutcomePhase'
<1> USE DEF session, life
<1>0. /\ cmds \in Seq(Command) /\ w \in Worker
      /\ w.gen \in Nat /\ w.id \in ConfigID /\ w.outcome \in Outcome \cup {"none"}
      /\ cleanups' = cleanups /\ armed' = armed
      /\ w.outcome = "ok" => w.at = "report"
  BY DEF TypeOK, Worker, WorkerStep, WorkerFrame, OutcomePhase
<1>1. \A c \in Command : Post(c) => \A i \in Results : i \in Results' /\ cmds'[i] = cmds[i]
  BY <1>0, MailPosted DEF Results
<1>2. CASE WorkerReports(w)
  <2> DEFINE done == Cmd("ConnectDone", w.id, w.gen, w.outcome)
             n == Len(cmds) + 1
  <2>1. done \in Command /\ done.type = "ConnectDone" /\ done.gen = w.gen /\ done.outcome = w.outcome
    BY <1>0, CommandType DEF CmdType, Cmd
  <2>2. Post(done) /\ workers' = workers \ {w} /\ alive' = alive /\ w.at = "report"
    BY <1>2 DEF WorkerReports, PostOrDrop
  <2>3. n \in Results' /\ cmds'[n] = done
    BY <1>0, <2>1, <2>2, MailPosted DEF Results
  <2>4. \A i \in Results : i \in Results' /\ cmds'[i] = cmds[i]
    BY <1>1, <2>1, <2>2
  <2> HIDE DEF done, n
  <2>5. ASSUME NEW g \in alive PROVE Held(g)'
    <3>1. CASE w.gen = g /\ Holds(w)
      BY <2>1, <2>2, <2>3, <3>1 DEF Held, Holds
    <3>2. CASE ~(w.gen = g /\ Holds(w))
      <4>1. Held(g)
        BY DEF Kept
      <4> QED
        BY <1>0, <2>2, <2>4, <3>2, <4>1 DEF Held
    <3> QED
      BY <3>1, <3>2
  <2> QED
    BY <2>2, <2>5 DEF Kept, OutcomePhase
<1>3. ASSUME NEW v, Advance(w, v), v.gen = w.gen, v.outcome = "ok" => v.at = "report",
             \A i \in Results : i \in Results' /\ cmds'[i] = cmds[i],
             \A g \in alive' : g \in alive \/ g = w.gen,
             w.gen \in alive' => Holds(v) \/ ~Holds(w),
             w.gen \in alive' \ alive => Holds(v)
      PROVE  Kept' /\ OutcomePhase'
  <2>1. v \in workers' /\ \A x \in workers : x = w \/ x \in workers'
    BY <1>3 DEF Advance
  <2>2. OutcomePhase'
    BY <1>3 DEF OutcomePhase, Advance
  <2>3. ASSUME NEW g \in alive' PROVE Held(g)'
    <3>1. CASE g = w.gen /\ Holds(v)
      BY <1>3, <2>1, <3>1 DEF Held
    <3>2. CASE ~(g = w.gen /\ Holds(v))
      <4>1. g \in alive /\ Held(g)
        BY <1>3, <3>2 DEF Kept
      <4>2. ~(g = w.gen /\ Holds(w))
        BY <1>3, <3>2
      <4> QED
        BY <1>0, <1>3, <2>1, <4>1, <4>2 DEF Held
    <3> QED
      BY <3>1, <3>2
  <2> QED
    BY <2>2, <2>3 DEF Kept
<1>4. \A p : At(w, p).gen = w.gen /\ At(w, p).outcome = w.outcome /\ At(w, p).at = p
  BY <1>0 DEF At, Worker
<1>5. \A o : /\ Ended(w, o).gen = w.gen /\ Ended(w, o).outcome = o
             /\ Ended(w, o).at = IF o # "ok" /\ w.at \in {"probe", "socks"} THEN "undo" ELSE "report"
  BY <1>0 DEF Ended, Worker
<1>6. cmds' = cmds => \A i \in Results : i \in Results' /\ cmds'[i] = cmds[i]
  BY DEF Results, Mail
<1>7. CASE WorkerFails(w)
  <2>1. PICK o \in {"failed", "canceled"} : Advance(w, Ended(w, o))
    BY <1>7 DEF WorkerFails, Failures
  <2>2. cmds' = cmds /\ alive' = alive /\ w.at # "report" /\ w.at # "undo"
    BY <1>7 DEF WorkerFails
  <2>3. Holds(w) => Holds(Ended(w, o))
    BY <1>0, <1>5, <2>2 DEF Holds
  <2> DEFINE v == Ended(w, o)
  <2>4. v.gen = w.gen /\ v.outcome # "ok"
    BY <1>5, <2>1
  <2> HIDE DEF v
  <2> QED
    BY <1>3, <1>6, <2>1, <2>2, <2>3, <2>4 DEF v
<1>8. CASE WorkerValidates(w)
  BY <1>0, <1>3, <1>4, <1>6, <1>8 DEF WorkerValidates, Holds
<1>9. CASE WorkerProgress(w)
  <2>1. Cmd("ConnectProgress", NoConfig, w.gen, "none") \in Command
    BY <1>0, CommandType DEF CmdType
  <2>2. \A i \in Results : i \in Results' /\ cmds'[i] = cmds[i]
    BY <1>1, <1>9, <2>1 DEF WorkerProgress
  <2> QED
    BY <1>0, <1>3, <1>4, <1>9, <2>2 DEF WorkerProgress, Holds
<1>10. CASE WorkerPreflight(w)
  BY <1>0, <1>3, <1>4, <1>6, <1>10 DEF WorkerPreflight, Holds
<1>11. CASE WorkerSpawns(w)
  BY <1>0, <1>3, <1>4, <1>6, <1>11 DEF WorkerSpawns, Holds
<1>12. CASE WorkerSeesAlive(w)
  BY <1>0, <1>3, <1>4, <1>6, <1>12 DEF WorkerSeesAlive, Holds
<1>13. CASE WorkerSeesSocks(w)
  BY <1>0, <1>3, <1>5, <1>6, <1>13 DEF WorkerSeesSocks, Holds
<1>14. CASE WorkerUndoes(w)
  <2>1. alive' \subseteq alive /\ w.gen \notin alive'
    BY <1>14 DEF WorkerUndoes, StopChild
  <2> QED
    BY <1>0, <1>3, <1>4, <1>6, <1>14, <2>1 DEF WorkerUndoes
<1> QED
  BY <1>2, <1>7, <1>8, <1>9, <1>10, <1>11, <1>12, <1>13, <1>14 DEF WorkerStep

LEMMA KeptStep ==
  ASSUME ~KillFails, TypeOK, Order, OutcomePhase, Sole, Parted, Arms, Kept, ~ctxDone, [Next]_vars
  PROVE  Kept' /\ OutcomePhase'
<1> USE DEF session, life
<1>0. cmds \in Seq(Command) /\ workers \in SUBSET Worker
  BY DEF TypeOK
<1>1. CASE Actor
  <2>1. \A v \in workers' : v.outcome = "ok" =>
           \E w \in workers : v.at = w.at /\ v.outcome = w.outcome
    <3>1. CASE workers' = workers
      BY <3>1
    <3>2. CASE \E h : workers' = Canceled(h)
      BY <1>0, <3>2, CanceledFacts
    <3>3. ASSUME NEW id, StartConnect(id) PROVE \A v \in workers' : v \in workers \/ v.outcome = "none"
      BY <3>3 DEF StartConnect
    <3> QED
      BY <1>1, <3>1, <3>2, <3>3, ActorMoves DEF TeardownArmed
  <2> QED
    BY <1>1, <2>1, KeptActor DEF OutcomePhase
<1>2. CASE \E w \in workers : WorkerStep(w)
  BY <1>2, KeptWorker
<1>3. CASE ~Actor /\ ~\E w \in workers : WorkerStep(w)
  <2>1. workers' = workers /\ armed' = armed
    BY <1>3 DEF Next, CleanupStops, CleanupReports, TimerFires, PostAutoRevert, Request,
       ChildDies, Shutdown, CallShutdown, AbandonShutdown, CancelMachine, ReturnFromShutdown,
       Terminated, vars
  <2>2. \A i \in Results : i \in Results' /\ cmds'[i] = cmds[i]
    <3>1. \A c \in Command : PostOrDrop(c) => \A i \in Results : i \in Results' /\ cmds'[i] = cmds[i]
      BY <1>0, MailPosted DEF Results, Mail, PostOrDrop
    <3>2. CASE cmds' = cmds
      BY <3>2 DEF Results, Mail
    <3>3. cmds' = cmds \/ \E c \in Command : PostOrDrop(c)
      BY <1>3, OthersPost
    <3> QED
      BY <3>1, <3>2, <3>3
  <2>3. ASSUME NEW g \in alive'
        PROVE  /\ g \in alive
               /\ \A c \in cleanups : c.child = g /\ c.at = "stop" => c \in cleanups'
    <3>1. ASSUME NEW c \in cleanups, CleanupStops(c)
          PROVE  alive' = alive \ {c.child} /\ \A d \in cleanups : d = c \/ d \in cleanups'
      BY <3>1 DEF CleanupStops, StopChild
    <3>2. ASSUME NEW c \in cleanups, CleanupReports(c)
          PROVE  alive' = alive /\ \A d \in cleanups : d.at = "stop" => d \in cleanups'
      BY <3>2 DEF CleanupReports
    <3>3. CASE ~\E c \in cleanups : CleanupStops(c) \/ CleanupReports(c)
      BY <1>3, <3>3 DEF Next, TimerFires, PostAutoRevert, Request, ChildDies, Shutdown,
         CallShutdown, AbandonShutdown, CancelMachine, ReturnFromShutdown, Terminated, vars
    <3> QED
      BY <3>1, <3>2, <3>3
  <2>4. ASSUME NEW g \in alive' PROVE Held(g)'
    <3>1. Held(g)
      BY <2>3, <2>4 DEF Kept
    <3> QED
      BY <2>1, <2>2, <2>3, <2>4, <3>1 DEF Held
  <2> QED
    BY <2>1, <2>4 DEF OutcomePhase, Kept
<1> QED
  BY <1>1, <1>2, <1>3

LEMMA CancelledForGood ==
  ASSUME [Next]_vars, ctxDone
  PROVE  ctxDone'
  BY DEF Next, Actor, HandleConnect, HandleDisconnect, HandleSwitch, HandleConnectProgress,
     HandleConnectDone, HandleDisconnectDone, HandleAutoRevert, HandleChildExit, HandleShutdown,
     DrainOnShutdown, WorkerStep, WorkerFrame, CleanupStops, CleanupReports, TimerFires,
     PostAutoRevert, Request, ChildDies, Shutdown, CallShutdown, AbandonShutdown, CancelMachine,
     ReturnFromShutdown, Terminated, vars, life

(* Until the Machine's context is cancelled a generation says whose a      *)
(* message is: no two attempts and no attempt and teardown share one, and  *)
(* what is armed has the current one, which nothing in flight has.  So no  *)
(* late result and no late report is taken for one of the tunnel that is   *)
(* up, not even beside a shutdown (handleConnectDone,                      *)
(* handleDisconnectDone).                                                  *)
GenerationsApart == ~ctxDone => Sole /\ Parted /\ Arms

THEOREM NoneMistaken == Spec => []GenerationsApart
<1>1. Init => Order /\ GenerationsApart
  BY DEF Init, Disconnected, Order, InFlight, Teardowns, Results, Ends, Mail, SwitchPhase,
     Sole, Parted, Arms, GenerationsApart
<1>2. TypeOK /\ Order /\ GenerationsApart /\ [Next]_vars => Order' /\ GenerationsApart'
  <2>1. ASSUME TypeOK, Order, GenerationsApart, [Next]_vars PROVE GenerationsApart'
    <3>1. ASSUME ~ctxDone' PROVE ~ctxDone
      BY <2>1, <3>1, CancelledForGood
    <3>2. ~ctxDone => Sole' /\ Parted' /\ Arms'
      BY <2>1, SoleStep, ArmsStep DEF GenerationsApart
    <3> QED
      BY <3>1, <3>2 DEF GenerationsApart
  <2> QED
    BY <2>1, OrderStep
<1> QED
  BY <1>1, <1>2, TypeCorrect, PTL DEF Spec

(* No child is ever forgotten before the Machine's context is cancelled,   *)
(* however shutdown, requests and late results interleave: a worker past   *)
(* its start, a queued success, the armed stack or a cleanup goroutine     *)
(* will stop it (doConnect, handleConnectDone, handleDisconnect,           *)
(* handleShutdown).                                                        *)
HeldTillCancelled == ~ctxDone => Kept

THEOREM NoneForgotten == ASSUME ~KillFails PROVE Spec => []HeldTillCancelled
<1> DEFINE KInv == Order /\ GenerationsApart /\ (~ctxDone => OutcomePhase /\ Kept)
<1>1. Init => KInv
  BY DEF Init, Disconnected, Order, InFlight, Teardowns, Results, Ends, Mail, SwitchPhase,
     OutcomePhase, Sole, Parted, Arms, Kept, GenerationsApart
<1>2. ASSUME TypeOK, KInv, GenerationsApart', [Next]_vars PROVE KInv'
  <2>1. Order'
    BY <1>2, OrderStep
  <2>2. ASSUME ~ctxDone' PROVE ~ctxDone
    BY <1>2, <2>2, CancelledForGood
  <2>3. ~ctxDone => Kept' /\ OutcomePhase'
    BY <1>2, KeptStep DEF GenerationsApart
  <2> QED
    BY <1>2, <2>1, <2>2, <2>3
<1>3. KInv => HeldTillCancelled
  BY DEF HeldTillCancelled
<1> HIDE DEF KInv
<1> QED
  BY <1>1, <1>2, <1>3, TypeCorrect, NoneMistaken, PTL DEF Spec
=============================================================================

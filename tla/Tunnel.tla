------------------------------- MODULE Tunnel -------------------------------
(***************************************************************************)
(* The connection-state actor of xrayd (daemon/internal/state): one        *)
(* goroutine owns the Machine fields and receives commands from a bounded  *)
(* FIFO channel; everything slow runs in other goroutines that post their  *)
(* outcome back to that channel:                                           *)
(*   - a connect worker (doConnect), which validates the config, starts an *)
(*     xray child and probes it;                                           *)
(*   - a cleanup goroutine (handleDisconnect), which stops the child;      *)
(*   - the auto-revert timer, which takes Error back to Disconnected.      *)
(* The child may die at any moment, and Shutdown may be called at any      *)
(* moment.                                                                 *)
(*                                                                         *)
(* A child process, the cleanup stack that stops it and the worker that    *)
(* started it are all named by the generation (opGen) of the connect that  *)
(* created them; 0 is Go's nil.  Messages, error symbols, pids and times   *)
(* are left out: they do not influence the control flow.                   *)
(***************************************************************************)
EXTENDS Integers, Sequences, FiniteSets

CONSTANTS
    ConfigID,     \* the ids of the stored configs
    NoConfig,     \* the zero ULID
    MaxCmds,      \* capacity of the command channel (32 in the code)
    MaxRequests,  \* bound on the requests the clients make
    KillFails     \* TRUE if a child may outlive Stop (unreapable after SIGKILL)

ASSUME TunnelAssumption ==
    /\ NoConfig \notin ConfigID
    /\ MaxCmds \in Nat \ {0}
    /\ MaxRequests \in Nat
    /\ KillFails \in BOOLEAN

VARIABLES
    conn,             \* Machine.state: the state and the config id shown to clients
    armed,            \* Machine.armed: the cleanup stack held while Connected
    child,            \* Machine.child and .childExitCC: the child being watched
    activeID,         \* Machine.activeID
    cancelConnect,    \* Machine.cancelConnect: the attempt whose context it cancels
    autoRevert,       \* TRUE while the auto-revert timer is running
    opGen,            \* Machine.opGen
    pendingSwitchID,  \* Machine.pendingSwitchID
    cmds,             \* Machine.cmds, the command channel
    workers,          \* the connect workers that have not posted their result
    cleanups,         \* the goroutines started by handleDisconnect
    reverts,          \* fired auto-revert timers whose post has not been made
    alive,            \* the children whose ExitC is still open
    shutdown,         \* how far the call of Shutdown has come
    ctxDone,          \* TRUE once Machine.ctx is cancelled
    exited,           \* TRUE once the actor goroutine has returned
    requests,         \* number of requests made so far
    wanted            \* history: what the last accepted request asked for

session == <<conn, armed, child, activeID, cancelConnect, opGen, pendingSwitchID>>
life    == <<shutdown, ctxDone, exited>>
vars    == <<session, autoRevert, cmds, workers, cleanups, reverts, alive, life,
             requests, wanted>>

-----------------------------------------------------------------------------
States   == {"Disconnected", "Validating", "Connecting", "Connected",
             "Disconnecting", "Error"}
(* Mutant: a Connect is also accepted during a teardown.                    *)
Idle_WhileDisconnecting == {"Disconnected", "Error", "Disconnecting"}

(* The states in which handleConnect accepts, and those of an attempt.      *)
Idle       == {"Disconnected", "Error"}
Attempting == {"Validating", "Connecting"}

(* Mutant: a state outside the wire enumeration.                            *)
Errored_Unknown == [state |-> "Failed", configID |-> NoConfig]

Disconnected == [state |-> "Disconnected", configID |-> NoConfig]
Errored      == [state |-> "Error", configID |-> NoConfig]

(* A command of the channel.  The outcome of a connect is "ok", "canceled"  *)
(* (the error chain holds context.Canceled) or "failed" (any other error).  *)
Outcome == {"ok", "canceled", "failed"}
CmdType == {"Connect", "Disconnect", "Switch", "ConnectProgress", "ConnectDone",
            "DisconnectDone", "AutoRevert", "Shutdown"}
Command ==
    {c \in [type : CmdType, id : ConfigID \cup {NoConfig}, gen : Nat,
            outcome : Outcome \cup {"none"}] :
        c.type \in {"Connect", "Switch", "ConnectDone"} => c.id \in ConfigID}

Cmd(type, id, gen, outcome) ==
    [type |-> type, id |-> id, gen |-> gen, outcome |-> outcome]

(* The points of doConnect at which a worker can be: before the end of the  *)
(* validation, before the progress post, before the preflight check of      *)
(* Start, before the fork, in the two probes, before the inline cleanup of  *)
(* a failed attempt, before the post of its result.                         *)
WorkerPoint == {"validate", "progress", "preflight", "spawn", "probe", "socks",
                "undo", "report"}
Worker == [gen : Nat, id : ConfigID, at : WorkerPoint, canceled : BOOLEAN,
           outcome : Outcome \cup {"none"}]
Cleanup == [gen : Nat, child : Nat, at : {"stop", "report"}]

-----------------------------------------------------------------------------
Init ==
    /\ conn = Disconnected
    /\ armed = 0 /\ child = 0 /\ cancelConnect = 0 /\ opGen = 0
    /\ activeID = NoConfig /\ pendingSwitchID = NoConfig
    /\ autoRevert = FALSE
    /\ cmds = <<>>
    /\ workers = {} /\ cleanups = {} /\ reverts = 0 /\ alive = {}
    /\ shutdown = "no" /\ ctxDone = FALSE /\ exited = FALSE
    /\ requests = 0 /\ wanted = NoConfig

(* postCmd blocks while the channel is full.                                *)
Post(c) == Len(cmds) < MaxCmds /\ cmds' = Append(cmds, c)

(* Mutants: a full channel loses the command; a post waits only for room.   *)
PostOrDrop_Lossy(c) == Post(c) \/ (Len(cmds) = MaxCmds /\ UNCHANGED cmds)
PostOrDrop_Blocks(c) == Post(c)

(* Once ctx is cancelled postCmd returns false, or its select sends anyway. *)
PostOrDrop(c) == Post(c) \/ (ctxDone /\ UNCHANGED cmds)

(* Supervisor.Stop signals the whole process group and waits for the exit,  *)
(* within its caps; the cleanup entry ignores its error.                    *)
StopChild(g) == alive' \in {alive \ {g}} \cup (IF KillFails THEN {alive} ELSE {})

(* The actor takes the next command off the channel.                        *)
Receive(type) ==
    /\ ~exited
    /\ cmds # <<>>
    /\ Head(cmds).type = type
    /\ cmds' = Tail(cmds)

-----------------------------------------------------------------------------
(* Handlers of the clients' requests. *)

(* The accepting part of handleConnect: a fresh generation and its worker.  *)
StartConnect(id) ==
    /\ opGen' = opGen + 1
    /\ cancelConnect' = opGen + 1
    /\ conn' = [state |-> "Validating", configID |-> id]
    /\ workers' = workers \cup {[gen |-> opGen + 1, id |-> id, at |-> "validate",
                                 canceled |-> FALSE, outcome |-> "none"]}

HandleConnect ==
    /\ Receive("Connect")
    /\ autoRevert' = FALSE
    /\ \/ /\ conn.state \in Idle
          /\ StartConnect(Head(cmds).id)
          /\ wanted' = Head(cmds).id
       \/ /\ conn.state \notin Idle    \* ErrAlreadyConnected
          /\ UNCHANGED <<opGen, cancelConnect, conn, workers, wanted>>
    /\ UNCHANGED <<armed, child, activeID, pendingSwitchID, cleanups, reverts,
                   alive, life, requests>>

(* Cancelling the context of attempt g.                                     *)
Canceled(g) == {IF w.gen = g THEN [w EXCEPT !.canceled = TRUE] ELSE w : w \in workers}

(* The branches of handleDisconnect that tear something down.               *)
TeardownAttempt ==
    /\ conn.state \in Attempting
    /\ opGen' = opGen + 1
    /\ conn' = [conn EXCEPT !.state = "Disconnecting"]
    /\ workers' = Canceled(cancelConnect)
    /\ cancelConnect' = 0
    /\ UNCHANGED <<armed, child, activeID, cleanups>>

TeardownArmed ==
    /\ conn.state \in {"Connected", "Error"}
    /\ armed # 0
    /\ opGen' = opGen + 1
    /\ armed' = 0
    /\ conn' = [conn EXCEPT !.state = "Disconnecting"]
    /\ cleanups' = cleanups \cup {[gen |-> opGen + 1, child |-> armed, at |-> "stop"]}
    /\ UNCHANGED <<cancelConnect, child, activeID, workers>>

TeardownUnarmed ==
    /\ conn.state \in {"Connected", "Error"}
    /\ armed = 0
    /\ child' = 0
    /\ activeID' = NoConfig
    /\ conn' = Disconnected
    /\ UNCHANGED <<opGen, armed, cancelConnect, cleanups, workers>>

Teardown == TeardownAttempt \/ TeardownArmed \/ TeardownUnarmed

(* Mutant: an explicit Disconnect leaves the queued switch in place.        *)
HandleDisconnect_KeepsSwitch ==
    /\ Receive("Disconnect")
    /\ autoRevert' = FALSE
    /\ wanted' = NoConfig
    /\ \/ Teardown
       \/ /\ conn.state \in {"Disconnected", "Disconnecting"}
          /\ UNCHANGED <<conn, armed, child, activeID, cancelConnect, opGen, workers,
                         cleanups>>
    /\ UNCHANGED <<pendingSwitchID, reverts, alive, life, requests>>

HandleDisconnect ==
    /\ Receive("Disconnect")
    /\ autoRevert' = FALSE
    /\ pendingSwitchID' = NoConfig
    /\ wanted' = NoConfig
    /\ \/ Teardown
       \/ /\ conn.state \in {"Disconnected", "Disconnecting"}
          /\ UNCHANGED <<conn, armed, child, activeID, cancelConnect, opGen, workers,
                         cleanups>>
    /\ UNCHANGED <<reverts, alive, life, requests>>

(* handleSwitch: refused while Disconnecting, a Connect when idle, a no-op  *)
(* on the active config, else a teardown that leaves the id to connect to.  *)
HandleSwitch ==
    LET id == Head(cmds).id IN
    /\ Receive("Switch")
    /\ autoRevert' = FALSE
    /\ \/ /\ conn.state \in Idle
          /\ StartConnect(id)
          /\ wanted' = id
          /\ UNCHANGED <<armed, child, activeID, pendingSwitchID, cleanups>>
       \/ /\ conn.state \notin Idle \cup {"Disconnecting"}
          /\ activeID # id
          /\ Teardown
          /\ pendingSwitchID' = id
          /\ wanted' = id
       \/ /\ \/ conn.state = "Disconnecting"
             \/ conn.state \notin Idle /\ activeID = id
          /\ UNCHANGED <<session, workers, cleanups, wanted>>
    /\ UNCHANGED <<reverts, alive, life, requests>>

-----------------------------------------------------------------------------
(* Handlers of what the other goroutines post. *)

(* Mutant: progress is applied whatever its generation and the state.       *)
HandleConnectProgress_Unguarded ==
    /\ Receive("ConnectProgress")
    /\ conn' = [conn EXCEPT !.state = "Connecting"]
    /\ UNCHANGED <<armed, child, activeID, cancelConnect, opGen, pendingSwitchID,
                   autoRevert, workers, cleanups, reverts, alive, life, requests, wanted>>

HandleConnectProgress ==
    /\ Receive("ConnectProgress")
    /\ conn' = IF Head(cmds).gen = opGen /\ conn.state = "Validating"
               THEN [conn EXCEPT !.state = "Connecting"]
               ELSE conn
    /\ UNCHANGED <<armed, child, activeID, cancelConnect, opGen, pendingSwitchID,
                   autoRevert, workers, cleanups, reverts, alive, life, requests, wanted>>

(* Mutant: the queued switch is cleared without being started.              *)
FinishDisconnect_DropsSwitch ==
    /\ child' = 0
    /\ activeID' = NoConfig
    /\ pendingSwitchID' = NoConfig
    /\ conn' = Disconnected
    /\ UNCHANGED <<opGen, cancelConnect, workers>>

(* The end of a teardown: Disconnected is posted and a queued switch starts *)
(* its connect in the same handler. The Disconnected that its Validating    *)
(* then replaces is saved and broadcast, but no command meets it.           *)
FinishDisconnect ==
    /\ child' = 0
    /\ activeID' = NoConfig
    /\ pendingSwitchID' = NoConfig
    /\ \/ /\ pendingSwitchID # NoConfig
          /\ StartConnect(pendingSwitchID)
       \/ /\ pendingSwitchID = NoConfig
          /\ conn' = Disconnected
          /\ UNCHANGED <<opGen, cancelConnect, workers>>

(* Mutant: the child of a stale success is left running.                    *)
StaleResult_NoCleanup(done) ==
    /\ \/ conn.state = "Disconnecting" /\ FinishDisconnect
       \/ /\ conn.state # "Disconnecting"
          /\ UNCHANGED <<conn, child, activeID, pendingSwitchID, opGen, cancelConnect,
                         workers>>
    /\ UNCHANGED <<alive, armed, autoRevert>>

(* A result of an older generation: its cleanup runs in the actor, and it   *)
(* ends the teardown that cancelled its worker.                             *)
StaleResult(done) ==
    /\ IF done.outcome = "ok" THEN StopChild(done.gen) ELSE UNCHANGED alive
    /\ \/ conn.state = "Disconnecting" /\ FinishDisconnect
       \/ /\ conn.state # "Disconnecting"
          /\ UNCHANGED <<conn, child, activeID, pendingSwitchID, opGen, cancelConnect,
                         workers>>
    /\ UNCHANGED <<armed, autoRevert>>

(* Mutants: the exit of the adopted child is not watched; the active config *)
(* is not recorded.                                                         *)
Adopt_Unwatched(done) ==
    /\ child' = 0
    /\ armed' = done.gen
    /\ activeID' = done.id
    /\ conn' = [state |-> "Connected", configID |-> done.id]

Adopt_NoActiveID(done) ==
    /\ child' = done.gen
    /\ armed' = done.gen
    /\ activeID' = activeID
    /\ conn' = [state |-> "Connected", configID |-> done.id]

(* The actor takes over the child of a successful attempt and its cleanup.  *)
Adopt(done) ==
    /\ child' = done.gen
    /\ armed' = done.gen
    /\ activeID' = done.id
    /\ conn' = [state |-> "Connected", configID |-> done.id]

(* The result of the current generation.                                    *)
CurrentResult(done) ==
    /\ cancelConnect' = 0
    /\ \/ /\ done.outcome = "canceled"
          /\ conn' = Disconnected
          /\ UNCHANGED <<armed, child, activeID, autoRevert>>
       \/ /\ done.outcome = "failed"
          /\ conn' = Errored
          /\ autoRevert' = TRUE
          /\ UNCHANGED <<armed, child, activeID>>
       \/ /\ done.outcome = "ok"
          /\ Adopt(done)
          /\ UNCHANGED autoRevert
    /\ UNCHANGED <<opGen, pendingSwitchID, workers, alive>>

HandleConnectDone ==
    /\ Receive("ConnectDone")
    /\ \/ Head(cmds).gen # opGen /\ StaleResult(Head(cmds))
       \/ Head(cmds).gen = opGen /\ CurrentResult(Head(cmds))
    /\ UNCHANGED <<cleanups, reverts, life, requests, wanted>>

HandleDisconnectDone ==
    /\ Receive("DisconnectDone")
    /\ \/ Head(cmds).gen = opGen /\ FinishDisconnect
       \/ /\ Head(cmds).gen # opGen
          /\ UNCHANGED <<conn, child, activeID, pendingSwitchID, opGen, cancelConnect,
                         workers>>
    /\ UNCHANGED <<armed, autoRevert, cleanups, reverts, alive, life, requests, wanted>>

HandleAutoRevert ==
    /\ Receive("AutoRevert")
    /\ autoRevert' = FALSE
    /\ \/ /\ conn.state = "Error"
          /\ activeID' = NoConfig
          /\ conn' = Disconnected
       \/ conn.state # "Error" /\ UNCHANGED <<activeID, conn>>
    /\ UNCHANGED <<armed, child, cancelConnect, opGen, pendingSwitchID, workers,
                   cleanups, reverts, alive, life, requests, wanted>>

(* run's third branch: the watched child has exited.                        *)
HandleChildExit ==
    /\ ~exited
    /\ child # 0
    /\ child \notin alive
    /\ child' = 0
    /\ \/ /\ conn.state = "Disconnecting"
          /\ autoRevert' = FALSE
          /\ UNCHANGED <<armed, activeID, conn, alive>>
       \/ /\ conn.state # "Disconnecting"
          /\ armed' = 0
          /\ StopChild(armed)
          /\ activeID' = NoConfig
          /\ conn' = Errored
          /\ autoRevert' = TRUE
    /\ UNCHANGED <<cancelConnect, opGen, pendingSwitchID, cmds, workers, cleanups,
                   reverts, life, requests, wanted>>

-----------------------------------------------------------------------------
(* Shutdown. *)

(* handleShutdown, on the actor goroutine. It leaves opGen alone and does   *)
(* not wait for the worker whose context it cancels.                        *)
ShutdownEffect ==
    /\ workers' = Canceled(cancelConnect)
    /\ cancelConnect' = 0
    /\ StopChild(armed)
    /\ armed' = 0 /\ child' = 0
    /\ activeID' = NoConfig /\ pendingSwitchID' = NoConfig
    /\ autoRevert' = FALSE
    /\ conn' = Disconnected
    /\ shutdown' = "done"
    /\ wanted' = NoConfig
    /\ UNCHANGED <<opGen, cleanups, reverts, requests>>

HandleShutdown ==
    /\ Receive("Shutdown")
    /\ ShutdownEffect
    /\ UNCHANGED <<ctxDone, exited>>

(* run's first branch: the actor discards what is queued and returns; only  *)
(* a cmdShutdown is still handled in full.                                  *)
DrainOnShutdown ==
    /\ ~exited
    /\ ctxDone
    /\ exited' = TRUE
    /\ cmds' = <<>>
    /\ \/ /\ \E i \in DOMAIN cmds : cmds[i].type = "Shutdown"
          /\ ShutdownEffect
       \/ /\ \A i \in DOMAIN cmds : cmds[i].type # "Shutdown"
          /\ UNCHANGED <<session, autoRevert, workers, cleanups, reverts, alive,
                         shutdown, requests, wanted>>
    /\ UNCHANGED ctxDone

(* The caller of Shutdown: it posts cmdShutdown and waits until it is       *)
(* handled or its own context expires, cancels the Machine's context and    *)
(* waits for the actor. If its context expires while the channel is full    *)
(* it returns without cancelling anything.                                  *)
CallShutdown ==
    /\ shutdown = "no"
    /\ Post(Cmd("Shutdown", NoConfig, 0, "none"))
    /\ shutdown' = "posted"
    /\ UNCHANGED <<session, autoRevert, workers, cleanups, reverts, alive, ctxDone,
                   exited, requests, wanted>>

AbandonShutdown ==
    /\ shutdown = "no"
    /\ Len(cmds) = MaxCmds
    /\ shutdown' = "returned"
    /\ UNCHANGED <<session, autoRevert, cmds, workers, cleanups, reverts, alive, ctxDone,
                   exited, requests, wanted>>

(* Mutant: the context is cancelled only when the caller runs out of time.  *)
CancelMachine_OnTimeoutOnly ==
    /\ shutdown = "posted"
    /\ ~ctxDone
    /\ ctxDone' = TRUE
    /\ UNCHANGED <<session, autoRevert, cmds, workers, cleanups, reverts, alive, shutdown,
                   exited, requests, wanted>>

CancelMachine ==
    /\ shutdown \in {"posted", "done"}
    /\ ~ctxDone
    /\ ctxDone' = TRUE
    /\ UNCHANGED <<session, autoRevert, cmds, workers, cleanups, reverts, alive, shutdown,
                   exited, requests, wanted>>

ReturnFromShutdown ==
    /\ shutdown \in {"posted", "done"}
    /\ exited
    /\ shutdown' = "returned"
    /\ UNCHANGED <<session, autoRevert, cmds, workers, cleanups, reverts, alive, ctxDone,
                   exited, requests, wanted>>

-----------------------------------------------------------------------------
(* The connect worker, doConnect. *)

ContextDone(w) == w.canceled \/ ctxDone

Advance(w, w2) == workers' = (workers \ {w}) \cup {w2}

WorkerFrame == UNCHANGED <<session, autoRevert, cleanups, reverts, life, requests, wanted>>

At(w, point) == [w EXCEPT !.at = point]

(* The attempt ends with this outcome; a failed one that has a child runs   *)
(* its cleanup stack first.                                                 *)
Ended(w, outcome) ==
    [w EXCEPT !.outcome = outcome,
              !.at = IF outcome # "ok" /\ w.at \in {"probe", "socks"}
                     THEN "undo" ELSE "report"]

(* A wait of the worker succeeds only under a live context. A wait that     *)
(* ended well just before the cancellation is that step taken before it.    *)
(*                                                                          *)
(* How a step can end the attempt: by an error of its own or the deadline   *)
(* of the attempt at any time, by cancellation once the context is done.    *)
(* The fork itself does not look at the context.                            *)
Failures(w) ==
    {"failed"} \cup (IF ContextDone(w) /\ w.at # "spawn" THEN {"canceled"} ELSE {})

WorkerFails(w) ==
    /\ \/ w.at \in {"validate", "preflight", "spawn", "probe", "socks"}
       \/ w.at = "progress" /\ ctxDone
    /\ \E o \in Failures(w) : Advance(w, Ended(w, o))
    /\ UNCHANGED <<cmds, alive>>

WorkerValidates(w) ==
    /\ w.at = "validate"
    /\ ~ContextDone(w)
    /\ Advance(w, At(w, "progress"))
    /\ UNCHANGED <<cmds, alive>>

WorkerProgress(w) ==
    /\ w.at = "progress"
    /\ Post(Cmd("ConnectProgress", NoConfig, w.gen, "none"))
    /\ Advance(w, At(w, "preflight"))
    /\ UNCHANGED alive

WorkerPreflight(w) ==
    /\ w.at = "preflight"
    /\ ~ContextDone(w)
    /\ Advance(w, At(w, "spawn"))
    /\ UNCHANGED <<cmds, alive>>

WorkerSpawns(w) ==
    /\ w.at = "spawn"
    /\ alive' = alive \cup {w.gen}
    /\ Advance(w, At(w, "probe"))
    /\ UNCHANGED cmds

(* AwaitProcessAlive: the grace period is over (the select may prefer it to *)
(* an exit that has already happened).                                      *)
WorkerSeesAlive(w) ==
    /\ w.at = "probe"
    /\ ~ContextDone(w)
    /\ Advance(w, At(w, "socks"))
    /\ UNCHANGED <<cmds, alive>>

(* AwaitSocksReady: something answered the handshake on SocksAddr. The      *)
(* worker does not look at its child again.                                 *)
WorkerSeesSocks(w) ==
    /\ w.at = "socks"
    /\ ~ContextDone(w)
    /\ Advance(w, Ended(w, "ok"))
    /\ UNCHANGED <<cmds, alive>>

WorkerUndoes(w) ==
    /\ w.at = "undo"
    /\ StopChild(w.gen)
    /\ Advance(w, At(w, "report"))
    /\ UNCHANGED cmds

WorkerReports(w) ==
    /\ w.at = "report"
    /\ PostOrDrop(Cmd("ConnectDone", w.id, w.gen, w.outcome))
    /\ workers' = workers \ {w}
    /\ UNCHANGED alive

WorkerStep(w) ==
    /\ \/ WorkerFails(w) \/ WorkerValidates(w) \/ WorkerProgress(w) \/ WorkerPreflight(w)
       \/ WorkerSpawns(w) \/ WorkerSeesAlive(w) \/ WorkerSeesSocks(w) \/ WorkerUndoes(w)
       \/ WorkerReports(w)
    /\ WorkerFrame

-----------------------------------------------------------------------------
(* The cleanup goroutine, the timer, the clients, the children. *)

CleanupStops(c) ==
    /\ c.at = "stop"
    /\ StopChild(c.child)
    /\ cleanups' = (cleanups \ {c}) \cup {[c EXCEPT !.at = "report"]}
    /\ UNCHANGED <<session, autoRevert, cmds, workers, reverts, life, requests, wanted>>

(* Mutant: the goroutine reports the generation of the connect.             *)
CleanupReports_ConnectGen(c) ==
    /\ c.at = "report"
    /\ PostOrDrop(Cmd("DisconnectDone", NoConfig, c.child, "none"))
    /\ cleanups' = cleanups \ {c}
    /\ UNCHANGED <<session, autoRevert, workers, reverts, alive, life, requests, wanted>>

CleanupReports(c) ==
    /\ c.at = "report"
    /\ PostOrDrop(Cmd("DisconnectDone", NoConfig, c.gen, "none"))
    /\ cleanups' = cleanups \ {c}
    /\ UNCHANGED <<session, autoRevert, workers, reverts, alive, life, requests, wanted>>

(* Mutant: the timer's callback posts nothing.                              *)
TimerFires_Silently ==
    /\ autoRevert
    /\ autoRevert' = FALSE
    /\ UNCHANGED <<session, cmds, workers, cleanups, reverts, alive, life, requests, wanted>>

(* The timer fires in a goroutine of its own: Stop cannot take back its     *)
(* post any more.                                                           *)
TimerFires ==
    /\ autoRevert
    /\ autoRevert' = FALSE
    /\ reverts' = reverts + 1
    /\ UNCHANGED <<session, cmds, workers, cleanups, alive, life, requests, wanted>>

PostAutoRevert ==
    /\ reverts > 0
    /\ reverts' = reverts - 1
    /\ PostOrDrop(Cmd("AutoRevert", NoConfig, 0, "none"))
    /\ UNCHANGED <<session, autoRevert, workers, cleanups, alive, life, requests, wanted>>

(* A client calls Connect, Disconnect or Switch. After the cancellation of  *)
(* the Machine's context the call's select may still send.                  *)
Request ==
    /\ requests < MaxRequests
    /\ ~exited
    /\ requests' = requests + 1
    /\ \/ \E type \in {"Connect", "Switch"}, id \in ConfigID : Post(Cmd(type, id, 0, "none"))
       \/ Post(Cmd("Disconnect", NoConfig, 0, "none"))
    /\ UNCHANGED <<session, autoRevert, workers, cleanups, reverts, alive, life, wanted>>

ChildDies ==
    /\ \E g \in alive : alive' = alive \ {g}
    /\ UNCHANGED <<session, autoRevert, cmds, workers, cleanups, reverts, life, requests,
                   wanted>>

-----------------------------------------------------------------------------
Actor ==
    \/ HandleConnect \/ HandleDisconnect \/ HandleSwitch \/ HandleConnectProgress
    \/ HandleConnectDone \/ HandleDisconnectDone \/ HandleAutoRevert \/ HandleChildExit
    \/ HandleShutdown \/ DrainOnShutdown

WorkerOf(g)  == \E w \in workers : w.gen = g /\ WorkerStep(w)
CleanupOf(g) == \E c \in cleanups : c.gen = g /\ (CleanupStops(c) \/ CleanupReports(c))

Shutdown == CallShutdown \/ AbandonShutdown \/ CancelMachine \/ ReturnFromShutdown

(* Everything is over: Shutdown has returned and no goroutine or child is   *)
(* left.                                                                    *)
Terminated ==
    /\ shutdown = "returned"
    /\ workers = {} /\ cleanups = {} /\ reverts = 0 /\ alive = {}
    /\ ctxDone \/ (requests = MaxRequests /\ cmds = <<>>)
    /\ UNCHANGED vars

Next ==
    \/ Actor
    \/ \E w \in workers : WorkerStep(w)
    \/ \E c \in cleanups : CleanupStops(c) \/ CleanupReports(c)
    \/ TimerFires \/ PostAutoRevert
    \/ Request \/ ChildDies
    \/ Shutdown
    \/ Terminated

Spec == Init /\ [][Next]_vars

(* Every goroutine keeps running: each wait of the worker and of Stop has a *)
(* timeout, the timer fires, and a post proceeds when the channel has room. *)
(* Nothing obliges a client to call or a child to die. The generations of   *)
(* an instance are bounded by twice the number of requests: a switch takes  *)
(* one for the teardown and one for the connect.                            *)
Fairness ==
    /\ WF_vars(Actor)
    /\ \A g \in 1 .. 2 * MaxRequests : WF_vars(WorkerOf(g)) /\ WF_vars(CleanupOf(g))
    /\ WF_vars(TimerFires)
    /\ WF_vars(PostAutoRevert)
    /\ WF_vars(CancelMachine)
    /\ WF_vars(ReturnFromShutdown)

FairSpec == Spec /\ Fairness

-----------------------------------------------------------------------------
(* Type invariant: the shape of the state and of every queued command.      *)
TypeOK ==
    /\ conn \in [state : States, configID : ConfigID \cup {NoConfig}]
    /\ armed \in Nat /\ child \in Nat /\ cancelConnect \in Nat /\ opGen \in Nat
    /\ activeID \in ConfigID \cup {NoConfig}
    /\ pendingSwitchID \in ConfigID \cup {NoConfig}
    /\ autoRevert \in BOOLEAN
    /\ cmds \in Seq(Command)
    /\ workers \in SUBSET Worker
    /\ cleanups \in SUBSET Cleanup
    /\ reverts \in Nat
    /\ alive \in SUBSET Nat
    /\ shutdown \in {"no", "posted", "done", "returned"}
    /\ ctxDone \in BOOLEAN /\ exited \in BOOLEAN
    /\ requests \in Nat
    /\ wanted \in ConfigID \cup {NoConfig}

(* The daemon is up: Shutdown has neither been handled nor cancelled the    *)
(* Machine's context. What the Machine promises, it promises until then.    *)
Up == shutdown # "done" /\ ~ctxDone

(* The daemon supervises one xray child at a time (daemon/README.md): no    *)
(* interleaving of connects, switches, disconnects and late results has two *)
(* children running.                                                        *)
AtMostOneChild == Up => \A g, h \in alive : g = h

(* When the Machine reports Disconnected or Error no child is left running: *)
(* the worker of a failed or stale attempt, the cleanup goroutine or        *)
(* handleChildExit stopped it before the state was posted.                  *)
NoOrphan == Up /\ conn.state \in Idle => alive = {}

(* The Machine holds a cleanup stack exactly while it is Connected; it is   *)
(* the stack of the child it watches, no other child runs, and activeID,    *)
(* which makes a Switch a no-op, is the config shown to the clients.        *)
ConnectedIsArmed ==
    Up => IF conn.state = "Connected"
          THEN /\ armed # 0 /\ child = armed /\ alive \subseteq {armed}
               /\ activeID = conn.configID
          ELSE armed = 0

(* The Machine works for the last request it accepted, whatever outdated    *)
(* results and progress notes arrive: it attempts and serves no other       *)
(* config, and a teardown is followed by a connect only if that is what was *)
(* last asked for.                                                          *)
ServesLastRequest ==
    Up => /\ conn.state \in Attempting \cup {"Connected"} => conn.configID = wanted
          /\ conn.state = "Disconnecting" => pendingSwitchID = wanted

(* An Error never stays for good: a timer, a goroutine or a queued command  *)
(* is on its way to revert it.                                              *)
ErrorWillRevert ==
    conn.state = "Error" /\ ~ctxDone =>
        \/ autoRevert
        \/ reverts > 0
        \/ \E i \in DOMAIN cmds : cmds[i].type = "AutoRevert"

(* A queued switch is dropped only by a later Disconnect or by Shutdown;    *)
(* otherwise the step that consumes it starts its connect.                  *)
SwitchNotLost ==
    [][pendingSwitchID # NoConfig /\ pendingSwitchID' # pendingSwitchID =>
          \/ conn' = [state |-> "Validating", configID |-> pendingSwitchID]
          \/ cmds # <<>> /\ Head(cmds).type = "Disconnect"
          \/ shutdown' = "done"]_vars

(* Every accepted operation comes to an end.                                *)
AttemptSettles ==
    conn.state \in Attempting \cup {"Disconnecting"} ~>
        conn.state \in {"Disconnected", "Connected", "Error"} \/ exited

(* An Error is reverted, by the timer or by a request.                      *)
ErrorReverts == conn.state = "Error" ~> conn.state # "Error" \/ exited

(* The death of the child of a Connected tunnel is noticed, also when it    *)
(* happens between the last probe and the arrival of the result.            *)
DeadChildNoticed ==
    conn.state = "Connected" /\ child \notin alive ~> conn.state # "Connected" \/ exited

(* Shutdown returns once it has posted its command.                         *)
ShutdownReturns == shutdown = "posted" ~> shutdown = "returned"

(* No goroutine is left blocked on the channel of an actor that is gone.    *)
GoroutinesEnd == ctxDone ~> workers = {} /\ cleanups = {} /\ reverts = 0

(* The Machine implements TunnelService until it stops.                     *)
Service == INSTANCE TunnelService WITH
               next <- pendingSwitchID, stopping <- ~Up
ServiceSpec == Service!Spec

-----------------------------------------------------------------------------
(* What the documentation says, and the code does not do. *)

(* "its cleanup runs inline", "to avoid leaking the child" (handleShutdown): *)
(* when the actor, the workers and the cleanup goroutines have all ended,    *)
(* no child is left running.                                                 *)
ShutdownLeavesNoChild == exited /\ workers = {} /\ cleanups = {} => alive = {}

(* "Already on id: no-op"; a teardown is triggered "on a different id" only  *)
(* (Machine.Switch): a Switch to the config that is being attempted or       *)
(* served leaves the status alone.                                           *)
SwitchToSameIsNoOp ==
    [][HandleSwitch /\ conn.state \in Attempting \cup {"Connected"}
          /\ conn.configID = Head(cmds).id => conn' = conn]_vars
=============================================================================

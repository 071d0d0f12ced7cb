------------------------------- MODULE Health -------------------------------
(***************************************************************************)
(* The health monitor of xrayd (daemon/internal/health): SetEnabled starts *)
(* and cancels a goroutine that probes the tunnel on a ticker, and every   *)
(* result is committed under the monitor's lock and then, outside of it,   *)
(* offered to the channel of the IPC server's bridge (runHealthChangedBridge*)
(* in daemon/internal/ipc). SetEnabled is called by the handlers of        *)
(* concurrent connections and, at the end, by main's shutdown sequence.    *)
(*                                                                         *)
(* Latencies and times are left out, as is the one-shot Probe, which       *)
(* changes nothing.                                                        *)
(***************************************************************************)
EXTENDS Integers, Sequences

CONSTANTS
    Caller,     \* the connections whose handlers call SetEnabled
    Main,       \* main's goroutine
    Nobody,     \* no holder of enableMu
    MaxCalls,   \* bound on the calls of SetEnabled by connections
    ChanCap,    \* capacity of a subscriber's channel (4 in the code)
    Verdict     \* what a probe can find: Online, Degraded or Offline

ASSUME HealthAssumption ==
    /\ Main \notin Caller /\ Nobody \notin Caller \cup {Main}
    /\ MaxCalls \in Nat
    /\ ChanCap \in Nat \ {0}
    /\ {"Online", "Offline"} \subseteq Verdict
    /\ Verdict \subseteq {"Online", "Degraded", "Offline"}

VARIABLES
    enabled,     \* Health.enabled
    cancelLoop,  \* Health.cancelLoop: the loop that it cancels, 0 for nil
    enableMu,    \* holder of Health.enableMu
    calls,       \* the calls of SetEnabled underway: stage and argument
    called,      \* number of calls made by connections
    loops,       \* the probe loops that have not returned
    spawned,     \* number of loops started so far
    status,      \* Health.status
    channel,     \* the channel of the bridge
    path,        \* what a probe through the tunnel would answer now
    main         \* how far main's shutdown has come

vars == <<enabled, cancelLoop, enableMu, calls, called, loops, spawned, status, channel,
          path, main>>

Setters == Caller \cup {Main}
State   == Verdict \cup {"Unknown"}
Stage   == {"idle", "lock", "store", "spawn", "cancel", "commit", "deliver"}
Loop    == [id : Nat, at : {"probe", "commit", "deliver", "wait"}, canceled : BOOLEAN,
            result : State]

Idle == [at |-> "idle", arg |-> FALSE]

Init ==
    /\ enabled = FALSE
    /\ cancelLoop = 0
    /\ enableMu = Nobody
    /\ calls = [c \in Setters |-> Idle]
    /\ called = 0
    /\ loops = {} /\ spawned = 0
    /\ status = "Unknown"
    /\ channel = <<>>
    /\ path \in Verdict
    /\ main = "serving"

-----------------------------------------------------------------------------
(* The end of update: a non-blocking send. *)

(* Mutants: the send waits for room; the queue grows without bound.         *)
Offer_Blocks(s) == Len(channel) < ChanCap /\ channel' = Append(channel, s)
Offer_Unbounded(s) == channel' = Append(channel, s)

Offer(s) ==
    IF Len(channel) < ChanCap THEN channel' = Append(channel, s) ELSE UNCHANGED channel

-----------------------------------------------------------------------------
(* SetEnabled. *)

Move(c, stage) == calls' = [calls EXCEPT ![c].at = stage]

Return(c) == calls' = [calls EXCEPT ![c] = Idle]

Call(c, arg) == calls' = [calls EXCEPT ![c] = [at |-> "lock", arg |-> arg]]

(* A connection's handler calls SetEnabled.                                 *)
CallSetEnabled(c) ==
    /\ calls[c].at = "idle"
    /\ called < MaxCalls
    /\ called' = called + 1
    /\ \E arg \in BOOLEAN : Call(c, arg)
    /\ UNCHANGED <<enabled, cancelLoop, enableMu, loops, spawned, status, channel,
                   path, main>>

(* Mutant: the test and the store are not under the mutex.                  *)
Lock_Unlocked(c) ==
    /\ calls[c].at = "lock"
    /\ \/ /\ calls[c].arg = enabled
          /\ Return(c)
       \/ /\ calls[c].arg # enabled
          /\ Move(c, "store")
    /\ UNCHANGED <<enabled, cancelLoop, enableMu, called, loops, spawned, status,
                   channel, path, main>>

(* The mutex is taken and the flag tested; a call that would change nothing *)
(* returns at once.                                                         *)
Lock(c) ==
    /\ calls[c].at = "lock"
    /\ enableMu = Nobody
    /\ \/ /\ calls[c].arg = enabled
          /\ Return(c)
          /\ UNCHANGED enableMu
       \/ /\ calls[c].arg # enabled
          /\ Move(c, "store")
          /\ enableMu' = c
    /\ UNCHANGED <<enabled, cancelLoop, called, loops, spawned, status, channel, path,
                   main>>

StoreFlag(c) ==
    /\ calls[c].at = "store"
    /\ enabled' = calls[c].arg
    /\ Move(c, IF calls[c].arg THEN "spawn" ELSE "cancel")
    /\ UNCHANGED <<cancelLoop, enableMu, called, loops, spawned, status, channel,
                   path, main>>

(* The context of the loop derives from baseCtx, never from the request.    *)
Spawn(c) ==
    /\ calls[c].at = "spawn"
    /\ spawned' = spawned + 1
    /\ cancelLoop' = spawned + 1
    /\ loops' = loops \cup {[id |-> spawned + 1, at |-> "probe", canceled |-> FALSE,
                             result |-> "Unknown"]}
    /\ Return(c)
    /\ enableMu' = Nobody
    /\ UNCHANGED <<enabled, called, status, channel, path, main>>

(* Mutant: the function is swapped out but not called.                      *)
CancelLoop_NotCalled(c) ==
    /\ calls[c].at = "cancel"
    /\ cancelLoop' = 0
    /\ Move(c, "commit")
    /\ UNCHANGED <<enabled, enableMu, called, loops, spawned, status, channel, path,
                   main>>

CancelLoop(c) ==
    /\ calls[c].at = "cancel"
    /\ loops' = {IF l.id = cancelLoop THEN [l EXCEPT !.canceled = TRUE] ELSE l : l \in loops}
    /\ cancelLoop' = 0
    /\ Move(c, "commit")
    /\ UNCHANGED <<enabled, enableMu, called, spawned, status, channel, path, main>>

(* update(Unknown), in its two parts.                                       *)
CommitUnknown(c) ==
    /\ calls[c].at = "commit"
    /\ status' = "Unknown"
    /\ Move(c, "deliver")
    /\ UNCHANGED <<enabled, cancelLoop, enableMu, called, loops, spawned, channel,
                   path, main>>

DeliverUnknown(c) ==
    /\ calls[c].at = "deliver"
    /\ Offer("Unknown")
    /\ Return(c)
    /\ enableMu' = Nobody
    /\ UNCHANGED <<enabled, cancelLoop, called, loops, spawned, status, path, main>>

SetEnabled(c) ==
    \/ Lock(c) \/ StoreFlag(c) \/ Spawn(c)
    \/ CancelLoop(c) \/ CommitUnknown(c) \/ DeliverUnknown(c)

-----------------------------------------------------------------------------
(* The probe loop. *)

(* Mutant: the loop does not see the cancellation of baseCtx.               *)
ContextDone_OwnOnly(l) == l.canceled

ContextDone(l) == l.canceled \/ main = "closed"

Becomes(l, l2) == loops' = (loops \ {l}) \cup {l2}

(* runOnce: a cancelled request ends with an error, unless its response has *)
(* already arrived.                                                         *)
LoopProbes(l) ==
    /\ l.at = "probe"
    /\ \E s \in {path} \cup (IF ContextDone(l) THEN {"Offline"} ELSE {}) :
           Becomes(l, [l EXCEPT !.at = "commit", !.result = s])
    /\ UNCHANGED <<enabled, cancelLoop, enableMu, calls, called, spawned, status,
                   channel, path, main>>

(* Mutant: only a change of the status is delivered.                        *)
LoopCommits_OnChange(l) ==
    /\ l.at = "commit"
    /\ status' = l.result
    /\ Becomes(l, [l EXCEPT !.at = IF l.result = status THEN "wait" ELSE "deliver"])
    /\ UNCHANGED <<enabled, cancelLoop, enableMu, calls, called, spawned, channel,
                   path, main>>

LoopCommits(l) ==
    /\ l.at = "commit"
    /\ status' = l.result
    /\ Becomes(l, [l EXCEPT !.at = "deliver"])
    /\ UNCHANGED <<enabled, cancelLoop, enableMu, calls, called, spawned, channel,
                   path, main>>

LoopDelivers(l) ==
    /\ l.at = "deliver"
    /\ Offer(l.result)
    /\ Becomes(l, [l EXCEPT !.at = "wait", !.result = "Unknown"])
    /\ UNCHANGED <<enabled, cancelLoop, enableMu, calls, called, spawned, status,
                   path, main>>

(* The select of the loop: a tick that is ready may win over a cancelled    *)
(* context.                                                                 *)
LoopTicks(l) ==
    /\ l.at = "wait"
    /\ Becomes(l, [l EXCEPT !.at = "probe"])
    /\ UNCHANGED <<enabled, cancelLoop, enableMu, calls, called, spawned, status,
                   channel, path, main>>

LoopReturns(l) ==
    /\ l.at = "wait"
    /\ ContextDone(l)
    /\ loops' = loops \ {l}
    /\ UNCHANGED <<enabled, cancelLoop, enableMu, calls, called, spawned, status,
                   channel, path, main>>

-----------------------------------------------------------------------------
(* The bridge, the network and main. *)

(* The bridge stops only after Health.Close, when the server is closed.     *)
BridgeReceives ==
    /\ channel # <<>>
    /\ channel' = Tail(channel)
    /\ UNCHANGED <<enabled, cancelLoop, enableMu, calls, called, loops, spawned,
                   status, path, main>>

PathChanges ==
    /\ \E p \in Verdict \ {path} : path' = p
    /\ UNCHANGED <<enabled, cancelLoop, enableMu, calls, called, loops, spawned,
                   status, channel, main>>

(* main's shutdown: SetEnabled(false), then Close; open connections are     *)
(* closed after that.                                                       *)
MainDisables ==
    /\ main = "serving"
    /\ main' = "disabling"
    /\ Call(Main, FALSE)
    /\ UNCHANGED <<enabled, cancelLoop, enableMu, called, loops, spawned, status,
                   channel, path>>

Close ==
    /\ main = "disabling"
    /\ calls[Main].at = "idle"
    /\ main' = "closed"
    /\ UNCHANGED <<enabled, cancelLoop, enableMu, calls, called, loops, spawned,
                   status, channel, path>>

Next ==
    \/ \E c \in Caller : CallSetEnabled(c)
    \/ \E c \in Setters : SetEnabled(c)
    \/ \E l \in loops : \/ LoopProbes(l) \/ LoopCommits(l) \/ LoopDelivers(l)
                        \/ LoopTicks(l) \/ LoopReturns(l)
    \/ BridgeReceives \/ PathChanges
    \/ MainDisables \/ Close

Spec == Init /\ [][Next]_vars

(* The goroutines of SetEnabled and of the loops keep running: the mutex is *)
(* handed on to every waiter (a sync.Mutex does not starve), a request has  *)
(* a timeout, the ticker ticks, and main proceeds. A tick is ready at most  *)
(* once per interval, a done context always: the select takes the latter in *)
(* the end. The server stops the bridge only when main has closed health.   *)
(* Before every loop but the first a call disables, and only one call is    *)
(* main's.                                                                  *)
LoopRuns(id) ==
    \E l \in loops : /\ l.id = id
                     /\ LoopProbes(l) \/ LoopCommits(l) \/ LoopDelivers(l) \/ LoopTicks(l)
LoopEnds(id) == \E l \in loops : l.id = id /\ LoopReturns(l)

Fairness ==
    /\ \A c \in Setters : SF_vars(SetEnabled(c))
    /\ \A id \in 1 .. (MaxCalls + 2) \div 2 :
          WF_vars(LoopRuns(id)) /\ SF_vars(LoopEnds(id))
    /\ WF_vars(main # "closed" /\ BridgeReceives)
    /\ WF_vars(Close)

FairSpec == Spec /\ Fairness

-----------------------------------------------------------------------------
(* Type invariant.                                                          *)
TypeOK ==
    /\ enabled \in BOOLEAN
    /\ cancelLoop \in Nat
    /\ enableMu \in Setters \cup {Nobody}
    /\ calls \in [Setters -> [at : Stage, arg : BOOLEAN]]
    /\ called \in Nat
    /\ loops \in SUBSET Loop
    /\ spawned \in Nat
    /\ status \in State
    /\ channel \in Seq(State) /\ Len(channel) <= ChanCap
    /\ path \in Verdict
    /\ main \in {"serving", "disabling", "closed"}

(* However the calls of concurrent connections interleave, at most one loop *)
(* probes with a live context ("prevent TOCTOU double-spawn", Health).      *)
OneLoop == \A l, m \in loops : ~l.canceled /\ ~m.canceled => l = m

(* To those who switch it the monitor is one that a call switches in one    *)
(* step, whatever the calls of other connections, the loops that wind down  *)
(* and the shutdown do in between (SetEnabled, update, Close).              *)
Wish(c) ==
    CASE calls[c].at \in {"lock", "store"} -> IF calls[c].arg THEN "on" ELSE "off"
      [] calls[c].at = "spawn"  -> "on"
      [] calls[c].at = "cancel" -> "off"
      [] calls[c].at = "commit" -> "announce"
      [] OTHER -> "none"

Service == INSTANCE HealthService WITH
    Setter <- Setters, call <- [c \in Setters |-> Wish(c)],
    live <- {l.id : l \in {m \in loops : ~m.canceled}}, running <- {l.id : l \in loops},
    started <- spawned, closed <- main = "closed"

ServiceSpec == Service!Spec

(* Between two calls the flag, the stored cancel function and the loops     *)
(* agree: a disabled monitor has no live loop, an enabled one can cancel    *)
(* the one it has.                                                          *)
FlagMatchesLoop ==
    enableMu = Nobody =>
        /\ enabled <=> cancelLoop # 0
        /\ \A l \in loops : ~l.canceled => l.id = cancelLoop
        /\ enabled /\ main # "closed" => \E l \in loops : l.id = cancelLoop

(* A call of SetEnabled returns, whoever else calls and however slowly the  *)
(* subscriber reads.                                                        *)
SetEnabledReturns ==
    \A c \in Setters : calls[c].at # "idle" ~> calls[c].at = "idle"

(* After Close no loop is left, although a connection that is still open    *)
(* may enable the monitor again.                                            *)
CloseEndsLoops == main = "closed" ~> loops = {}

(* Dropped and outdated events do not last: if the monitor stays enabled    *)
(* and the tunnel good, the bridge goes on broadcasting, and from some time *)
(* on nothing but Online.                                                   *)
HealthHeals ==
    <>[](enabled /\ path = "Online" /\ main = "serving") =>
        /\ []<><<BridgeReceives>>_vars
        /\ <>[][BridgeReceives => Head(channel) = "Online"]_vars

-----------------------------------------------------------------------------
(* What a comment says, and the code does not do. *)

(* "(false) cancels it and posts Unknown to subscribers" (SetEnabled): when *)
(* no call is underway, a disabled monitor keeps the Unknown of the disable.*)
DisabledIsSilent ==
    [][~enabled /\ enableMu = Nobody => status' = status]_vars
=============================================================================

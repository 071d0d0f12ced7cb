--------------------------- MODULE TunnelService ----------------------------
(***************************************************************************)
(* What the tunnel promises to a client that follows its status, without   *)
(* the channel, the goroutines, the generations and the child processes:   *)
(* the status moves through the states of a connection, an attempt keeps   *)
(* the config it was accepted with, and a teardown ends in Disconnected,   *)
(* or in a new attempt at the config that a switch left in `next'.         *)
(* Tunnel implements this specification.                                   *)
(*                                                                         *)
(* Once the daemon is `stopping' nothing is promised any more.             *)
(***************************************************************************)
CONSTANTS ConfigID, NoConfig

VARIABLES conn, next, stopping

vars == <<conn, next, stopping>>

Status(state, id) == [state |-> state, configID |-> id]

Init ==
    /\ conn = Status("Disconnected", NoConfig)
    /\ next = NoConfig
    /\ stopping = FALSE

(* A Connect, or a Switch of an idle tunnel, is accepted.                   *)
Attempt(id) ==
    /\ conn.state \in {"Disconnected", "Error"}
    /\ conn' = Status("Validating", id)
    /\ next' = next

Progress ==
    /\ conn.state = "Validating"
    /\ conn' = Status("Connecting", conn.configID)
    /\ next' = next

Establish ==
    /\ conn.state = "Connecting"
    /\ conn' = Status("Connected", conn.configID)
    /\ next' = next

(* An attempt fails, or the child of an established tunnel dies.            *)
Fail ==
    /\ conn.state \in {"Validating", "Connecting", "Connected"}
    /\ conn' = Status("Error", NoConfig)
    /\ next' = next

(* A Disconnect (n is NoConfig) or a Switch to n begins a teardown.         *)
Close(n) ==
    /\ conn.state \in {"Validating", "Connecting", "Connected"}
    /\ conn' = Status("Disconnecting", conn.configID)
    /\ next' = n

(* A Disconnect takes back the switch that a teardown was to end in.        *)
TakeBack ==
    /\ conn.state = "Disconnecting"
    /\ conn' = conn
    /\ next' = NoConfig

Closed ==
    /\ conn.state = "Disconnecting"
    /\ conn' = IF next = NoConfig THEN Status("Disconnected", NoConfig)
               ELSE Status("Validating", next)
    /\ next' = NoConfig

(* An Error is dismissed by a Disconnect or by the timer.                   *)
Dismiss ==
    /\ conn.state = "Error"
    /\ conn' = Status("Disconnected", NoConfig)
    /\ next' = next

Work ==
    /\ \/ \E id \in ConfigID : Attempt(id)
       \/ \E n \in ConfigID \cup {NoConfig} : Close(n)
       \/ Progress \/ Establish \/ Fail \/ TakeBack \/ Closed \/ Dismiss
    /\ UNCHANGED stopping

Next == Work \/ stopping'

Spec == Init /\ [][Next]_vars
=============================================================================

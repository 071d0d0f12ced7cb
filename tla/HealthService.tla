--------------------------- MODULE HealthService ----------------------------
(***************************************************************************)
(* What the health monitor promises to those who switch it, without the    *)
(* mutex, the flag and the stored cancel function: a call of SetEnabled    *)
(* takes effect in one step between its start and its return, and has none *)
(* if the monitor is as it asks; at most one loop is live, and it is until *)
(* a call or Close stops it; a call that stops it makes the status Unknown *)
(* before it returns.  A loop that was stopped may still report until it   *)
(* has ended.                                                              *)
(***************************************************************************)
EXTENDS Integers

CONSTANTS
    Setter,     \* those who call SetEnabled
    State       \* the statuses

VARIABLES
    call,       \* per setter: what it asks for and has not got, or what it has to announce
    live,       \* the loops whose context is not cancelled
    running,    \* the loops that have not ended
    started,    \* number of loops started
    status,
    closed

vars == <<call, live, running, started, status, closed>>

Init ==
    /\ call = [c \in Setter |-> "none"]
    /\ live = {} /\ running = {} /\ started = 0
    /\ status = "Unknown" /\ closed = FALSE

Ask(c) ==
    /\ call[c] = "none"
    /\ \E wish \in {"on", "off"} : call' = [call EXCEPT ![c] = wish]
    /\ UNCHANGED <<live, running, started, status, closed>>

(* Close ends the loop of a monitor that stays on.                          *)
Keep(c) ==
    /\ \/ call[c] = "on" /\ (live # {} \/ closed)
       \/ call[c] = "off" /\ live = {}
    /\ call' = [call EXCEPT ![c] = "none"]
    /\ UNCHANGED <<live, running, started, status, closed>>

Start(c) ==
    /\ call[c] = "on" /\ live = {}
    /\ call' = [call EXCEPT ![c] = "none"]
    /\ started' = started + 1
    /\ live' = {started + 1}
    /\ running' = running \cup {started + 1}
    /\ UNCHANGED <<status, closed>>

Stop(c) ==
    /\ call[c] = "off"
    /\ call' = [call EXCEPT ![c] = "announce"]
    /\ live' = {}
    /\ UNCHANGED <<running, started, status, closed>>

Announce(c) ==
    /\ call[c] = "announce"
    /\ call' = [call EXCEPT ![c] = "none"]
    /\ status' = "Unknown"
    /\ UNCHANGED <<live, running, started, closed>>

Report ==
    /\ running # {}
    /\ status' \in State
    /\ UNCHANGED <<call, live, running, started, closed>>

End(id) ==
    /\ id \notin live \/ closed
    /\ live' = live \ {id}
    /\ running' = running \ {id}
    /\ UNCHANGED <<call, started, status, closed>>

Close ==
    /\ closed' = TRUE
    /\ UNCHANGED <<call, live, running, started, status>>

Next ==
    \/ \E c \in Setter : Ask(c) \/ Keep(c) \/ Start(c) \/ Stop(c) \/ Announce(c)
    \/ Report \/ Close
    \/ \E id \in running : End(id)

Spec == Init /\ [][Next]_vars
=============================================================================

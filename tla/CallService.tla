---------------------------- MODULE CallService -----------------------------
(***************************************************************************)
(* What the application is promised of the calls it makes to the daemon,   *)
(* without the sockets, the frames, the timers and the heartbeat: the      *)
(* promise of a call is settled at most once, is resolved only after the   *)
(* daemon has answered that very call, and is never left over by a close,  *)
(* after which no call is accepted, though a connect may still be underway.*)
(***************************************************************************)
CONSTANT Ids    \* the ids that calls may get

VARIABLES
    waiting, resolved, rejected,    \* the calls made, by what has become of them
    given,      \* the calls that the daemon has answered
    closed      \* the application has closed the client

vars == <<waiting, resolved, rejected, given, closed>>

Made == waiting \cup resolved \cup rejected

Init ==
    /\ waiting = {} /\ resolved = {} /\ rejected = {} /\ given = {}
    /\ closed = FALSE

Make ==
    /\ ~closed
    /\ \E i \in Ids \ Made : waiting' = waiting \cup {i}
    /\ UNCHANGED <<resolved, rejected, given, closed>>

(* The answer may come late: the call may have been rejected.               *)
Answer(i) ==
    /\ i \in Made
    /\ given' = given \cup {i}
    /\ UNCHANGED <<waiting, resolved, rejected, closed>>

Resolve(i) ==
    /\ i \in waiting \cap given
    /\ waiting' = waiting \ {i}
    /\ resolved' = resolved \cup {i}
    /\ UNCHANGED <<rejected, given, closed>>

(* One that takes too long or cannot be written, or all of them when the    *)
(* connection is lost.                                                      *)
Reject(calls) ==
    /\ waiting' = waiting \ calls
    /\ rejected' = rejected \cup calls
    /\ UNCHANGED <<resolved, given, closed>>

Close ==
    /\ ~closed /\ closed' = TRUE
    /\ waiting' = {}
    /\ rejected' = rejected \cup waiting
    /\ UNCHANGED <<resolved, given>>

Next ==
    \/ Make \/ Close
    \/ \E i \in Made : Answer(i) \/ Resolve(i)
    \/ \E calls \in SUBSET waiting : Reject(calls)

Spec == Init /\ [][Next]_vars
=============================================================================

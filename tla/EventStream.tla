---------------------------- MODULE EventStream -----------------------------
(***************************************************************************)
(* What a client is promised of the State.Changed events on its connection,*)
(* without the bridge, the broadcasts, the queues and the writers: from    *)
(* when it follows the tunnel it is told each status, in the order of the  *)
(* transitions, once, and skips none that was not dropped before it could  *)
(* reach anyone, until its connection is over; it is cut off rather than   *)
(* left with a gap.  One that is too slow before its first event is told   *)
(* with a gap.                                                             *)
(***************************************************************************)
EXTENDS Integers

CONSTANT Client

VARIABLES
    latest,     \* number of the tunnel's current status
    dropped,    \* the statuses that nobody is told
    from,       \* per client: the status at which it began to follow, 0 before
    told,       \* per client: the statuses on its wire
    over,       \* the clients that were connected and are not any more
    excused     \* the clients that may be told with a gap

vars == <<latest, dropped, from, told, over, excused>>

Init ==
    /\ latest = 1 /\ dropped = {}
    /\ from = [c \in Client |-> 0] /\ told = [c \in Client |-> {}]
    /\ over = {} /\ excused = {}

Publish ==
    /\ latest' = latest + 1
    /\ dropped' \in {dropped, dropped \cup {latest + 1}}
    /\ UNCHANGED <<from, told, over, excused>>

Follow(c) ==
    /\ from[c] = 0
    /\ from' = [from EXCEPT ![c] = latest]
    /\ UNCHANGED <<latest, dropped, told, over, excused>>

Tell(c, n) ==
    /\ from[c] # 0 /\ c \notin over
    /\ n <= latest /\ \A m \in told[c] : m < n
    /\ c \in excused \/ from[c] + 1 .. n - 1 \subseteq told[c] \cup dropped
    /\ told' = [told EXCEPT ![c] = @ \cup {n}]
    /\ UNCHANGED <<latest, dropped, from, over, excused>>

Leave(c) ==
    /\ over' = over \cup {c}
    /\ UNCHANGED <<latest, dropped, from, told, excused>>

Excuse(c) ==
    /\ told[c] = {}
    /\ excused' = excused \cup {c}
    /\ UNCHANGED <<latest, dropped, from, told, over>>

Next ==
    \/ Publish
    \/ \E c \in Client : \/ Follow(c) \/ Leave(c) \/ Excuse(c)
                         \/ \E n \in 0 .. latest : Tell(c, n)

Spec == Init /\ [][Next]_vars
=============================================================================

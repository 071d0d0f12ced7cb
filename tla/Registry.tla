------------------------------ MODULE Registry ------------------------------
(***************************************************************************)
(* What the registry of configs promises to those who list it, connect     *)
(* with it and remove from it, whatever the calls that change it do side   *)
(* by side: a config is pending from the making of its ULID until it is    *)
(* published or refused, once, in a single step; only one that xray        *)
(* accepts is published; what is gone never comes back; and a crash takes  *)
(* all that is pending and nothing that is published.                      *)
(***************************************************************************)
EXTENDS Integers, FiniteSets

CONSTANT Bound  \* the registry holds fewer configs than this

VARIABLES
    stored,     \* the ids that List returns
    pending,    \* the ids made for the calls underway
    made,       \* number of ids made
    sound       \* the ids in use whose config xray accepts

vars == <<stored, pending, made, sound>>

Init == stored = {} /\ pending = {} /\ made = 0 /\ sound = {}

(* An id is made for a new config, good or bad.                             *)
Make ==
    /\ made' = made + 1
    /\ pending' = pending \cup {made + 1}
    /\ sound' \in {sound, sound \cup {made + 1}}
    /\ UNCHANGED stored

Publish(id) ==
    /\ id \in pending \cap sound
    /\ pending' = pending \ {id}
    /\ stored' = stored \cup {id}
    /\ Cardinality(stored') < Bound
    /\ UNCHANGED <<made, sound>>

(* xray was not satisfied or could not be asked, or the disk failed.        *)
Refuse(id) ==
    /\ id \in pending
    /\ pending' = pending \ {id}
    /\ sound' = sound \ {id}
    /\ UNCHANGED <<stored, made>>

Remove(id) ==
    /\ id \in stored
    /\ stored' = stored \ {id}
    /\ sound' = sound \ {id}
    /\ UNCHANGED <<pending, made>>

Crash ==
    /\ pending' = {}
    /\ sound' = sound \cap stored
    /\ UNCHANGED <<stored, made>>

Next ==
    \/ Make \/ Crash
    \/ \E id \in pending : Publish(id) \/ Refuse(id)
    \/ \E id \in stored : Remove(id)

Spec == Init /\ [][Next]_vars
=============================================================================

---------------------------- MODULE HealthProofs ----------------------------
(***************************************************************************)
(* Proofs about Health: the mutex of SetEnabled keeps the flag, the stored *)
(* cancel function and the probe loops in agreement, whatever the number   *)
(* of callers, of calls and the capacity of the channel.                   *)
(***************************************************************************)
EXTENDS Health, TLAPS

(* The stages of SetEnabled at which the caller holds the mutex.            *)
Critical == {"store", "spawn", "cancel", "commit", "deliver"}

Mutex == \A c \in Setters : calls[c].at \in Critical <=> enableMu = c

(* What the holder of the mutex knows at each stage.                        *)
Stages ==
    \A c \in Setters :
        /\ calls[c].at = "store" => calls[c].arg # enabled
        /\ calls[c].at = "spawn" => enabled /\ cancelLoop = 0
        /\ calls[c].at = "cancel" => ~enabled
        /\ calls[c].at \in {"commit", "deliver"} => ~enabled /\ cancelLoop = 0

(* The flag and the pointer disagree only within a call.                    *)
Flag ==
    /\ enabled /\ cancelLoop = 0 => \E c \in Setters : calls[c].at = "spawn"
    /\ ~enabled /\ cancelLoop # 0 => \E c \in Setters : calls[c].at = "cancel"

(* Loops are numbered in the order of their start.                          *)
Numbered ==
    /\ cancelLoop <= spawned
    /\ \A l \in loops : l.id \in 1 .. spawned
    /\ \A l, m \in loops : l.id = m.id => l = m

Live ==
    /\ \A l \in loops : ~l.canceled => l.id = cancelLoop
    /\ cancelLoop # 0 /\ main # "closed" =>
           \E l \in loops : l.id = cancelLoop /\ ~l.canceled

(* main calls SetEnabled only once it shuts down.                           *)
Serving == main = "serving" => calls[Main].at = "idle"

IInv == TypeOK /\ Mutex /\ Stages /\ Flag /\ Numbered /\ Live /\ Serving

(* An offered status keeps the channel within its capacity.                 *)
LEMMA OfferType ==
    ASSUME TypeOK, NEW s \in State, Offer(s)
    PROVE  channel' \in Seq(State) /\ Len(channel') <= ChanCap
<1>1. CASE Len(channel) < ChanCap
  <2>1. channel' = Append(channel, s)
    BY <1>1 DEF Offer
  <2>2. channel' \in Seq(State) /\ Len(channel') = Len(channel) + 1
    BY <2>1 DEF TypeOK
  <2> QED BY <1>1, <2>2, HealthAssumption DEF TypeOK
<1>2. CASE ~(Len(channel) < ChanCap)
  BY <1>2 DEF Offer, TypeOK
<1> QED BY <1>1, <1>2

(* Type correctness of one step.                                            *)
LEMMA TypeStep == ASSUME TypeOK, [Next]_vars PROVE TypeOK'
<1> USE HealthAssumption
<1>0. CASE UNCHANGED vars
  BY <1>0 DEF vars, TypeOK
<1>1. ASSUME NEW c \in Caller, CallSetEnabled(c) PROVE TypeOK'
  BY <1>1 DEF CallSetEnabled, Call, TypeOK, Setters, Stage
<1>2. ASSUME NEW c \in Setters, SetEnabled(c) PROVE TypeOK'
  <2>1. CASE Lock(c)
    <3>1. calls' \in [Setters -> [at : Stage, arg : BOOLEAN]]
      <4>1. Return(c) \/ Move(c, "store")
        BY <2>1 DEF Lock
      <4>2. Idle \in [at : Stage, arg : BOOLEAN]
        BY DEF Idle, Stage
      <4> QED BY <4>1, <4>2 DEF Move, Return, TypeOK, Stage
    <3> QED BY <2>1, <3>1 DEF Lock, TypeOK
  <2>2. CASE StoreFlag(c)
    BY <2>2 DEF StoreFlag, Move, Return, Idle, TypeOK, Stage
  <2>3. CASE Spawn(c)
    <3> DEFINE new == [id |-> spawned + 1, at |-> "probe", canceled |-> FALSE,
                       result |-> "Unknown"]
    <3>1. spawned' \in Nat /\ cancelLoop' \in Nat /\ spawned' = spawned + 1
      BY <2>3 DEF Spawn, TypeOK
    <3>2. new \in Loop
      BY <3>1 DEF Loop, State, TypeOK
    <3>3. loops' \in SUBSET Loop
      BY <2>3, <3>2 DEF Spawn, TypeOK
    <3>4. calls' \in [Setters -> [at : Stage, arg : BOOLEAN]]
      BY <2>3 DEF Spawn, Move, Return, Idle, TypeOK, Stage
    <3> QED BY <2>3, <3>1, <3>3, <3>4 DEF Spawn, TypeOK
  <2>4. CASE CancelLoop(c)
    <3>1. \A l \in loops : [l EXCEPT !.canceled = TRUE] \in Loop
      BY DEF TypeOK, Loop
    <3>2. loops' \in SUBSET Loop
      BY <2>4, <3>1 DEF CancelLoop, TypeOK
    <3> QED BY <2>4, <3>2 DEF CancelLoop, Move, Return, Idle, TypeOK, Stage
  <2>5. CASE CommitUnknown(c)
    BY <2>5 DEF CommitUnknown, Move, Return, Idle, TypeOK, Stage, State
  <2>6. CASE DeliverUnknown(c)
    <3>1. channel' \in Seq(State) /\ Len(channel') <= ChanCap
      BY <2>6, OfferType DEF DeliverUnknown, State
    <3> QED BY <2>6, <3>1 DEF DeliverUnknown, Move, Return, Idle, TypeOK, Stage
  <2> QED BY <1>2, <2>1, <2>2, <2>3, <2>4, <2>5, <2>6 DEF SetEnabled
<1>3. ASSUME NEW l \in loops,
             LoopProbes(l) \/ LoopCommits(l) \/ LoopDelivers(l) \/ LoopTicks(l) \/ LoopReturns(l)
      PROVE  TypeOK'
  <2>0. l \in Loop
    BY DEF TypeOK
  <2>1. CASE LoopProbes(l)
    <3>1. PICK s \in State : Becomes(l, [l EXCEPT !.at = "commit", !.result = s])
      BY <2>1 DEF LoopProbes, TypeOK, State
    <3>2. loops' \in SUBSET Loop
      BY <2>0, <3>1 DEF Becomes, TypeOK, Loop
    <3> QED BY <2>1, <3>2 DEF LoopProbes, TypeOK
  <2>2. CASE LoopCommits(l)
    <3>1. loops' \in SUBSET Loop
      BY <2>0, <2>2 DEF LoopCommits, Becomes, TypeOK, Loop
    <3> QED BY <2>0, <2>2, <3>1 DEF LoopCommits, TypeOK, Loop
  <2>3. CASE LoopDelivers(l)
    <3>1. loops' \in SUBSET Loop
      BY <2>0, <2>3 DEF LoopDelivers, Becomes, TypeOK, Loop, State
    <3>2. channel' \in Seq(State) /\ Len(channel') <= ChanCap
      BY <2>0, <2>3, OfferType DEF LoopDelivers, Loop
    <3> QED BY <2>3, <3>1, <3>2 DEF LoopDelivers, TypeOK
  <2>4. CASE LoopTicks(l)
    <3>1. loops' \in SUBSET Loop
      BY <2>0, <2>4 DEF LoopTicks, Becomes, TypeOK, Loop
    <3> QED BY <2>4, <3>1 DEF LoopTicks, TypeOK
  <2>5. CASE LoopReturns(l)
    BY <2>5 DEF LoopReturns, TypeOK
  <2> QED BY <1>3, <2>1, <2>2, <2>3, <2>4, <2>5
<1>4. CASE BridgeReceives
  <2>1. channel \in Seq(State) /\ channel # <<>>
    BY <1>4 DEF BridgeReceives, TypeOK
  <2>2. Head(channel) \in State /\ Tail(channel) \in Seq(State)
        /\ Len(Tail(channel)) = Len(channel) - 1
    BY <2>1
  <2> QED BY <1>4, <2>1, <2>2 DEF BridgeReceives, TypeOK
<1>5. CASE PathChanges
  BY <1>5 DEF PathChanges, TypeOK
<1>6. CASE MainDisables
  BY <1>6 DEF MainDisables, Call, TypeOK, Stage, Setters
<1>7. CASE Close
  BY <1>7 DEF Close, TypeOK
<1> QED
  BY <1>0, <1>1, <1>2, <1>3, <1>4, <1>5, <1>6, <1>7 DEF Next

LEMMA InitType == Init => TypeOK
<1> SUFFICES ASSUME Init PROVE TypeOK
  OBVIOUS
<1>1. calls \in [Setters -> [at : Stage, arg : BOOLEAN]]
  BY DEF Init, Idle, Stage
<1>2. channel \in Seq(State) /\ Len(channel) <= ChanCap
  BY HealthAssumption DEF Init
<1> QED BY <1>1, <1>2 DEF Init, TypeOK, State

(* TypeOK: the shape of the monitor's state, for any callers and capacity.  *)
THEOREM TypeCorrect == Spec => []TypeOK
<1>1. Init => TypeOK
  BY InitType
<1>2. TypeOK /\ [Next]_vars => TypeOK'
  BY TypeStep
<1> QED BY <1>1, <1>2, PTL DEF Spec

-----------------------------------------------------------------------------
(* Steps of a loop other than its return leave who is alive alone.          *)
LEMMA LoopMoves ==
    ASSUME IInv, NEW l \in loops, NEW k, k.id = l.id, k.canceled = l.canceled,
           Becomes(l, k), UNCHANGED <<cancelLoop, spawned, main>>
    PROVE  Numbered' /\ Live'
<1>1. Numbered'
  BY DEF IInv, Numbered, Becomes
<1>2. \A m \in loops' : ~m.canceled => m.id = cancelLoop'
  BY DEF IInv, Live, Becomes
<1>3. cancelLoop' # 0 /\ main' # "closed" =>
          \E m \in loops' : m.id = cancelLoop' /\ ~m.canceled
  BY DEF IInv, Live, Becomes
<1> QED BY <1>1, <1>2, <1>3 DEF Live

(* Steps that touch neither the calls, the flag nor the mutex.              *)
LEMMA CallsFrame ==
    ASSUME IInv, UNCHANGED <<calls, enabled, enableMu, cancelLoop>>
    PROVE  Mutex' /\ Stages' /\ Flag'
BY DEF IInv, Mutex, Stages, Flag

(* Steps that touch neither the loops nor the pointer to the live one.      *)
LEMMA LoopsFrame ==
    ASSUME IInv, UNCHANGED <<loops, spawned, cancelLoop, main>>
    PROVE  Numbered' /\ Live'
BY DEF IInv, Numbered, Live

(* The steps of SetEnabled.                                                 *)
LEMMA SetEnabledStep ==
    ASSUME IInv, NEW c \in Setters, SetEnabled(c)
    PROVE  Mutex' /\ Stages' /\ Flag' /\ Numbered' /\ Live'
<1> USE HealthAssumption DEF Critical
<1>0. /\ calls \in [Setters -> [at : Stage, arg : BOOLEAN]] /\ enabled \in BOOLEAN
      /\ cancelLoop \in Nat /\ spawned \in Nat /\ loops \in SUBSET Loop
  BY DEF IInv, TypeOK
<1>00. Nobody \notin Setters
  BY DEF Setters
<1>1. CASE Lock(c)
  <2>1. Mutex'
    BY <1>0, <1>00, <1>1 DEF IInv, Mutex, Lock, Move, Return, Idle
  <2>2. Stages'
    BY <1>0, <1>1 DEF IInv, Stages, Lock, Move, Return, Idle
  <2>3. Flag'
    <3>1. \A d \in Setters : calls[d].at \in {"spawn", "cancel"} => calls'[d].at = calls[d].at
      BY <1>0, <1>1 DEF Lock, Move, Return, Idle
    <3> QED BY <1>1, <3>1 DEF IInv, Flag, Lock
  <2>4. Numbered' /\ Live'
    BY <1>1, LoopsFrame DEF Lock
  <2> QED BY <2>1, <2>2, <2>3, <2>4
<1>2. CASE StoreFlag(c)
  <2>0. enableMu = c
    BY <1>2 DEF IInv, Mutex, StoreFlag
  <2>1. \A d \in Setters : d # c => calls[d].at \notin Critical /\ calls'[d] = calls[d]
    BY <1>0, <1>2, <2>0 DEF IInv, Mutex, StoreFlag, Move, Return, Idle
  <2>2. calls'[c].at = IF calls[c].arg THEN "spawn" ELSE "cancel"
    BY <1>0, <1>2 DEF StoreFlag, Move, Return, Idle
  <2>3. Mutex'
    BY <1>2, <2>0, <2>1, <2>2 DEF IInv, Mutex, StoreFlag
  <2>4. enabled' = calls[c].arg /\ calls[c].arg # enabled /\ cancelLoop' = cancelLoop
    BY <1>2 DEF IInv, Stages, StoreFlag
  <2>5. enabled <=> cancelLoop # 0
    <3>1. \A d \in Setters : calls[d].at \notin {"spawn", "cancel"}
      BY <1>2, <2>1 DEF StoreFlag
    <3> QED BY <3>1 DEF IInv, Flag
  <2>6. Stages'
    BY <1>0, <2>1, <2>2, <2>4, <2>5 DEF Stages
  <2>7. Flag'
    BY <1>0, <2>2, <2>4, <2>5 DEF Flag
  <2>8. Numbered' /\ Live'
    BY <1>2, LoopsFrame DEF StoreFlag
  <2> QED BY <2>3, <2>6, <2>7, <2>8
<1>3. CASE Spawn(c)
  <2>0. enableMu = c
    BY <1>3 DEF IInv, Mutex, Spawn
  <2>1. \A d \in Setters : d # c => calls[d].at \notin Critical /\ calls'[d] = calls[d]
    BY <1>0, <1>3, <2>0 DEF IInv, Mutex, Spawn, Move, Return, Idle
  <2>2. calls'[c].at = "idle"
    BY <1>0, <1>3 DEF Spawn, Move, Return, Idle
  <2>3. Mutex'
    BY <1>3, <1>00, <2>1, <2>2 DEF Mutex, Spawn
  <2>4. enabled /\ cancelLoop = 0
    BY <1>3 DEF IInv, Stages, Spawn
  <2>5. Stages' /\ Flag'
    <3>1. \A d \in Setters : calls'[d].at \notin Critical
      BY <2>1, <2>2
    <3>2. enabled' /\ cancelLoop' # 0
      BY <1>0, <1>3, <2>4 DEF Spawn
    <3> QED BY <3>1, <3>2 DEF Stages, Flag
  <2>6. \A l \in loops : l.canceled /\ l.id \in 1 .. spawned
    BY <1>0, <2>4 DEF IInv, Live, Numbered, Loop
  <2> DEFINE new == [id |-> spawned + 1, at |-> "probe", canceled |-> FALSE,
                     result |-> "Unknown"]
  <2>7. loops' = loops \cup {new} /\ spawned' = spawned + 1 /\ cancelLoop' = spawned + 1
    BY <1>3 DEF Spawn
  <2>71. new.id = spawned + 1 /\ ~new.canceled
    OBVIOUS
  <2> HIDE DEF new
  <2>8. Numbered'
    <3>1. \A l \in loops' : l.id \in 1 .. spawned'
      BY <1>0, <2>6, <2>7, <2>71
    <3>2. \A l \in loops : l.id # new.id
      BY <1>0, <2>6, <2>71
    <3>3. \A l, m \in loops' : l.id = m.id => l = m
      BY <2>7, <3>2 DEF IInv, Numbered
    <3> QED BY <1>0, <2>7, <3>1, <3>3 DEF Numbered
  <2>9. Live'
    BY <2>6, <2>7, <2>71 DEF Live
  <2> QED BY <2>3, <2>5, <2>8, <2>9
<1>4. CASE CancelLoop(c)
  <2>0. enableMu = c
    BY <1>4 DEF IInv, Mutex, CancelLoop
  <2>1. \A d \in Setters : d # c => calls[d].at \notin Critical /\ calls'[d] = calls[d]
    BY <1>0, <1>4, <2>0 DEF IInv, Mutex, CancelLoop, Move, Return, Idle
  <2>2. calls'[c].at = "commit"
    BY <1>0, <1>4 DEF CancelLoop, Move, Return, Idle
  <2>3. Mutex'
    BY <1>4, <2>0, <2>1, <2>2 DEF Mutex, CancelLoop
  <2>4. ~enabled /\ enabled' = enabled /\ cancelLoop' = 0
    BY <1>4 DEF IInv, Stages, CancelLoop
  <2>5. Stages' /\ Flag'
    BY <2>1, <2>2, <2>4 DEF Stages, Flag
  <2> DEFINE kill(l) == IF l.id = cancelLoop THEN [l EXCEPT !.canceled = TRUE] ELSE l
  <2>6. loops' = {kill(l) : l \in loops} /\ spawned' = spawned
    BY <1>4 DEF CancelLoop
  <2>7. \A l \in loops : kill(l).id = l.id /\ kill(l).canceled
    BY <1>0 DEF IInv, Live, Loop
  <2> HIDE DEF kill
  <2>8. Numbered'
    <3>1. cancelLoop' <= spawned'
      BY <1>0, <2>4, <2>6
    <3>2. \A l \in loops' : l.id \in 1 .. spawned'
      BY <2>6, <2>7 DEF IInv, Numbered
    <3>3. \A l, m \in loops' : l.id = m.id => l = m
      BY <2>6, <2>7 DEF IInv, Numbered
    <3> QED BY <3>1, <3>2, <3>3 DEF Numbered
  <2>9. Live'
    BY <2>4, <2>6, <2>7 DEF Live
  <2> QED BY <2>3, <2>5, <2>8, <2>9
<1>5. CASE CommitUnknown(c)
  <2>1. \A d \in Setters : d # c => calls'[d] = calls[d]
    BY <1>0, <1>5 DEF CommitUnknown, Move, Return, Idle
  <2>2. calls'[c].at = "deliver" /\ calls[c].at = "commit"
    BY <1>0, <1>5 DEF CommitUnknown, Move, Return, Idle
  <2>3. Mutex' /\ Stages' /\ Flag'
    BY <1>5, <2>1, <2>2 DEF IInv, Mutex, Stages, Flag, CommitUnknown
  <2>4. Numbered' /\ Live'
    BY <1>5, LoopsFrame DEF CommitUnknown
  <2> QED BY <2>3, <2>4
<1>6. CASE DeliverUnknown(c)
  <2>0. enableMu = c
    BY <1>6 DEF IInv, Mutex, DeliverUnknown
  <2>1. \A d \in Setters : d # c => calls[d].at \notin Critical /\ calls'[d] = calls[d]
    BY <1>0, <1>6, <2>0 DEF IInv, Mutex, DeliverUnknown, Move, Return, Idle
  <2>2. calls'[c].at = "idle" /\ calls[c].at = "deliver"
    BY <1>0, <1>6 DEF DeliverUnknown, Move, Return, Idle
  <2>3. Mutex' /\ Stages' /\ Flag'
    BY <1>6, <1>00, <2>1, <2>2 DEF IInv, Mutex, Stages, Flag, DeliverUnknown
  <2>4. Numbered' /\ Live'
    BY <1>6, LoopsFrame DEF DeliverUnknown
  <2> QED BY <2>3, <2>4
<1> QED BY <1>1, <1>2, <1>3, <1>4, <1>5, <1>6 DEF SetEnabled

(* The steps of a loop.                                                     *)
LEMMA LoopStep ==
    ASSUME IInv, NEW l \in loops,
           LoopProbes(l) \/ LoopCommits(l) \/ LoopDelivers(l) \/ LoopTicks(l) \/ LoopReturns(l)
    PROVE  Mutex' /\ Stages' /\ Flag' /\ Numbered' /\ Live'
<1>0. l \in Loop
  BY DEF IInv, TypeOK
<1>1. Mutex' /\ Stages' /\ Flag'
  BY CallsFrame DEF LoopProbes, LoopCommits, LoopDelivers, LoopTicks, LoopReturns
<1>2. CASE LoopProbes(l)
  <2>1. PICK s : Becomes(l, [l EXCEPT !.at = "commit", !.result = s])
    BY <1>2 DEF LoopProbes
  <2> DEFINE k == [l EXCEPT !.at = "commit", !.result = s]
  <2>2. k.id = l.id /\ k.canceled = l.canceled
    BY <1>0 DEF Loop
  <2> QED BY <1>1, <1>2, <2>1, <2>2, LoopMoves DEF LoopProbes
<1>3. CASE LoopCommits(l)
  <2> DEFINE k == [l EXCEPT !.at = "deliver"]
  <2>2. k.id = l.id /\ k.canceled = l.canceled /\ Becomes(l, k)
    BY <1>0, <1>3 DEF Loop, LoopCommits
  <2> QED BY <1>1, <1>3, <2>2, LoopMoves DEF LoopCommits
<1>4. CASE LoopDelivers(l)
  <2> DEFINE k == [l EXCEPT !.at = "wait", !.result = "Unknown"]
  <2>2. k.id = l.id /\ k.canceled = l.canceled /\ Becomes(l, k)
    BY <1>0, <1>4 DEF Loop, LoopDelivers
  <2> QED BY <1>1, <1>4, <2>2, LoopMoves DEF LoopDelivers
<1>5. CASE LoopTicks(l)
  <2> DEFINE k == [l EXCEPT !.at = "probe"]
  <2>2. k.id = l.id /\ k.canceled = l.canceled /\ Becomes(l, k)
    BY <1>0, <1>5 DEF Loop, LoopTicks
  <2> QED BY <1>1, <1>5, <2>2, LoopMoves DEF LoopTicks
<1>6. CASE LoopReturns(l)
  <2>1. Numbered'
    BY <1>6 DEF IInv, Numbered, LoopReturns
  <2>2. Live'
    BY <1>6 DEF IInv, Live, LoopReturns, ContextDone
  <2> QED BY <1>1, <2>1, <2>2
<1> QED BY <1>2, <1>3, <1>4, <1>5, <1>6

(* Calls that begin hold nothing yet.                                       *)
LEMMA BeginCall ==
    ASSUME IInv, NEW c \in Setters, calls[c].at = "idle", NEW arg \in BOOLEAN, Call(c, arg),
           UNCHANGED <<enabled, enableMu, cancelLoop>>
    PROVE  Mutex' /\ Stages' /\ Flag'
<1>1. calls'[c].at = "lock" /\ \A d \in Setters : d # c => calls'[d] = calls[d]
  BY DEF IInv, TypeOK, Call
<1> QED BY <1>1 DEF IInv, Mutex, Stages, Flag, Critical

LEMMA ServingStep == ASSUME IInv, [Next]_vars PROVE Serving'
<1> USE DEF IInv, Serving, TypeOK
<1>1. ASSUME NEW c \in Caller, CallSetEnabled(c) PROVE Serving'
  BY <1>1, HealthAssumption DEF CallSetEnabled, Call, Setters
<1>2. ASSUME NEW c \in Setters, SetEnabled(c) PROVE Serving'
  <2>1. calls[c].at # "idle" /\ main' = main
    BY <1>2 DEF SetEnabled, Lock, StoreFlag, Spawn, CancelLoop, CommitUnknown, DeliverUnknown
  <2>2. \A d \in Setters : d # c => calls'[d] = calls[d]
    BY <1>2 DEF SetEnabled, Lock, StoreFlag, Spawn, CancelLoop, CommitUnknown, DeliverUnknown,
                Move, Return, Idle
  <2> QED BY <2>1, <2>2 DEF Setters
<1>3. ASSUME NEW l \in loops,
             LoopProbes(l) \/ LoopCommits(l) \/ LoopDelivers(l) \/ LoopTicks(l) \/ LoopReturns(l)
      PROVE  Serving'
  BY <1>3 DEF LoopProbes, LoopCommits, LoopDelivers, LoopTicks, LoopReturns
<1>4. CASE MainDisables \/ Close
  BY <1>4 DEF MainDisables, Close
<1>5. CASE BridgeReceives \/ PathChanges \/ UNCHANGED vars
  BY <1>5 DEF BridgeReceives, PathChanges, vars
<1> QED BY <1>1, <1>2, <1>3, <1>4, <1>5 DEF Next

(* The invariant is inductive: the mutex makes each call atomic for the     *)
(* flag and the pointer, and only its holder starts or cancels a loop.      *)
THEOREM Invariance == Spec => []IInv
<1>1. Init => IInv
  <2> SUFFICES ASSUME Init PROVE IInv
    OBVIOUS
  <2>1. \A c \in Setters : calls[c].at = "idle" /\ enableMu # c
    BY HealthAssumption DEF Init, Idle, Setters
  <2>2. Mutex /\ Stages
    BY <2>1 DEF Mutex, Stages, Critical
  <2>3. Flag /\ Numbered /\ Live /\ Serving
    BY DEF Init, Idle, Flag, Numbered, Live, Serving, Setters
  <2> QED BY <2>2, <2>3, InitType DEF IInv
<1>2. ASSUME IInv, [Next]_vars PROVE IInv'
  <2>0. TypeOK' /\ Serving'
    BY <1>2, TypeStep, ServingStep DEF IInv
  <2> SUFFICES Mutex' /\ Stages' /\ Flag' /\ Numbered' /\ Live'
    BY <2>0 DEF IInv
  <2>1. ASSUME NEW c \in Caller, CallSetEnabled(c)
        PROVE  Mutex' /\ Stages' /\ Flag' /\ Numbered' /\ Live'
    <3>1. c \in Setters
      BY DEF Setters
    <3>2. PICK arg \in BOOLEAN : Call(c, arg)
      BY <2>1 DEF CallSetEnabled
    <3>3. Mutex' /\ Stages' /\ Flag'
      BY <1>2, <2>1, <3>1, <3>2, BeginCall DEF CallSetEnabled
    <3>4. Numbered' /\ Live'
      BY <1>2, <2>1, LoopsFrame DEF CallSetEnabled
    <3> QED BY <3>3, <3>4
  <2>2. ASSUME NEW c \in Setters, SetEnabled(c)
        PROVE  Mutex' /\ Stages' /\ Flag' /\ Numbered' /\ Live'
    BY <1>2, <2>2, SetEnabledStep
  <2>3. ASSUME NEW l \in loops,
               LoopProbes(l) \/ LoopCommits(l) \/ LoopDelivers(l) \/ LoopTicks(l) \/ LoopReturns(l)
        PROVE  Mutex' /\ Stages' /\ Flag' /\ Numbered' /\ Live'
    BY <1>2, <2>3, LoopStep
  <2>4. CASE BridgeReceives \/ PathChanges \/ UNCHANGED vars
    BY <1>2, <2>4, CallsFrame, LoopsFrame DEF BridgeReceives, PathChanges, vars
  <2>5. CASE MainDisables
    <3>1. calls[Main].at = "idle" /\ Main \in Setters
      BY <1>2, <2>5 DEF IInv, Serving, MainDisables, Setters
    <3>2. Mutex' /\ Stages' /\ Flag'
      BY <1>2, <2>5, <3>1, BeginCall DEF MainDisables
    <3> QED BY <1>2, <2>5, <3>2 DEF IInv, MainDisables, Numbered, Live
  <2>6. CASE Close
    <3>1. Mutex' /\ Stages' /\ Flag'
      BY <1>2, <2>6, CallsFrame DEF Close
    <3> QED BY <1>2, <2>6, <3>1 DEF IInv, Close, Numbered, Live
  <2> QED BY <1>2, <2>1, <2>2, <2>3, <2>4, <2>5, <2>6 DEF Next
<1> QED BY <1>1, <1>2, PTL DEF Spec

(* OneLoop: at most one loop probes with a live context, for any number of  *)
(* connections that call SetEnabled.                                        *)
THEOREM AtMostOneLoop == Spec => []OneLoop
<1>1. IInv => OneLoop
  BY DEF IInv, Live, Numbered, OneLoop
<1> QED BY <1>1, Invariance, PTL

(* FlagMatchesLoop: between two calls the flag, the cancel function and the *)
(* loops agree.                                                             *)
THEOREM FlagAgrees == Spec => []FlagMatchesLoop
<1>1. IInv => FlagMatchesLoop
  <2> SUFFICES ASSUME IInv, enableMu = Nobody PROVE FlagMatchesLoop
    BY DEF FlagMatchesLoop
  <2>1. \A c \in Setters : calls[c].at \notin Critical
    BY HealthAssumption DEF IInv, Mutex, Setters
  <2> QED BY <2>1 DEF IInv, Flag, Live, FlagMatchesLoop, Critical
<1> QED BY <1>1, Invariance, PTL

-----------------------------------------------------------------------------
(* Health implements HealthService: what its setters see of it.             *)
Wishes  == [c \in Setters |-> Wish(c)]
LiveIds == {l.id : l \in {m \in loops : ~m.canceled}}
Ids     == {l.id : l \in loops}

(* A step of one call leaves the wishes of the others alone.                *)
LEMMA WishMoves ==
    ASSUME NEW c \in Setters, \A d \in Setters : d # c => calls'[d] = calls[d]
    PROVE  /\ Wishes' = [Wishes EXCEPT ![c] = Wish(c)']
           /\ Wish(c)' = Wish(c) => Wishes' = Wishes
<1>1. \A d \in Setters : d # c => Wish(d)' = Wish(d)
  BY DEF Wish
<1> QED BY <1>1 DEF Wishes

(* How the stages of a call show.                                           *)
LEMMA WishOf ==
    ASSUME NEW c \in Setters
    PROVE  /\ calls[c].at \in {"lock", "store"} =>
                  Wish(c) = IF calls[c].arg THEN "on" ELSE "off"
           /\ calls[c].at = "spawn" => Wish(c) = "on"
           /\ calls[c].at = "cancel" => Wish(c) = "off"
           /\ calls[c].at = "commit" => Wish(c) = "announce"
           /\ calls[c].at \in {"idle", "deliver"} => Wish(c) = "none"
BY DEF Wish

LEMMA WishOfNext ==
    ASSUME NEW c \in Setters
    PROVE  /\ calls'[c].at \in {"lock", "store"} =>
                  Wish(c)' = IF calls'[c].arg THEN "on" ELSE "off"
           /\ calls'[c].at = "spawn" => Wish(c)' = "on"
           /\ calls'[c].at = "cancel" => Wish(c)' = "off"
           /\ calls'[c].at = "commit" => Wish(c)' = "announce"
           /\ calls'[c].at \in {"idle", "deliver"} => Wish(c)' = "none"
BY DEF Wish

(* Only the loop that the cancel function is for is live, and while the     *)
(* monitor is open it is there.                                             *)
LEMMA LiveShows ==
    ASSUME IInv
    PROVE  /\ LiveIds \subseteq {cancelLoop} \ {0}
           /\ cancelLoop # 0 /\ main # "closed" => LiveIds = {cancelLoop}
           /\ LiveIds \subseteq Ids
<1>1. \A l \in loops : l.id \in 1 .. spawned /\ spawned \in Nat
  BY DEF IInv, Numbered, TypeOK
<1>2. \A l \in loops : l.id # 0
  BY <1>1
<1> QED BY <1>2 DEF IInv, Live, LiveIds, Ids

LEMMA CallShows ==
    ASSUME IInv, NEW c \in Setters, calls[c].at = "idle", NEW arg \in BOOLEAN, Call(c, arg),
           UNCHANGED <<loops, spawned, status>>, main' = "closed" <=> main = "closed"
    PROVE  Service!Next
<1>1. calls'[c] = [at |-> "lock", arg |-> arg] /\ \A d \in Setters : d # c => calls'[d] = calls[d]
  BY DEF IInv, TypeOK, Call
<1>2. Wish(c) = "none" /\ Wish(c)' \in {"on", "off"}
  BY <1>1, WishOf, WishOfNext
<1>3. Wishes' = [Wishes EXCEPT ![c] = Wish(c)'] /\ Wishes[c] = Wish(c)
  BY <1>1, WishMoves DEF Wishes
<1>4. LiveIds' = LiveIds /\ Ids' = Ids
  BY DEF LiveIds, Ids
<1>5. Service!Ask(c)
  BY <1>2, <1>3, <1>4 DEF Service!Ask, Wishes, LiveIds, Ids
<1> QED BY <1>5 DEF Service!Next

LEMMA SetEnabledShows ==
    ASSUME IInv, NEW c \in Setters, SetEnabled(c)
    PROVE  [Service!Next]_Service!vars
<1>0. /\ calls \in [Setters -> [at : Stage, arg : BOOLEAN]] /\ enabled \in BOOLEAN
      /\ loops \in SUBSET Loop /\ Wishes[c] = Wish(c) /\ Mutex /\ Stages /\ Flag
  BY DEF IInv, TypeOK, Wishes
<1>1. /\ \A d \in Setters : d # c => calls'[d] = calls[d]
      /\ calls'[c].at # "idle" => calls'[c].arg = calls[c].arg
      /\ main' = main
  BY <1>0 DEF SetEnabled, Lock, StoreFlag, Spawn, CancelLoop, CommitUnknown, DeliverUnknown,
     Move, Return, Idle
<1>2. Wishes' = [Wishes EXCEPT ![c] = Wish(c)'] /\ (Wish(c)' = Wish(c) => Wishes' = Wishes)
  BY <1>1, WishMoves
<1>3. loops' = loops => LiveIds' = LiveIds /\ Ids' = Ids
  BY DEF LiveIds, Ids
<1>4. ASSUME UNCHANGED <<loops, spawned, status>>, Wish(c)' = Wish(c) PROVE UNCHANGED Service!vars
  BY <1>1, <1>2, <1>3, <1>4 DEF Service!vars, Wishes, LiveIds, Ids
<1>5. CASE Lock(c)
  <2>1. CASE calls[c].arg # enabled
    <3>1. calls'[c].at = "store" /\ calls[c].at = "lock" /\ UNCHANGED <<loops, spawned, status>>
      BY <1>0, <1>5, <2>1 DEF Lock, Move, Return, Idle
    <3>2. Wish(c)' = Wish(c)
      BY <1>1, <3>1, WishOf, WishOfNext
    <3> QED BY <1>4, <3>1, <3>2
  <2>2. CASE calls[c].arg = enabled
    <3>1. /\ calls'[c].at = "idle" /\ calls[c].at = "lock" /\ enableMu = Nobody
          /\ UNCHANGED <<loops, spawned, status>>
      BY <1>0, <1>5, <2>2 DEF Lock, Move, Return, Idle
    <3>2. \A d \in Setters : calls[d].at \notin Critical
      BY <1>0, <3>1, HealthAssumption DEF Mutex, Setters
    <3>3. enabled <=> cancelLoop # 0
      BY <1>0, <3>2 DEF Flag, Critical
    <3>4. /\ Wish(c)' = "none"
          /\ \/ Wish(c) = "on" /\ (LiveIds # {} \/ main = "closed")
             \/ Wish(c) = "off" /\ LiveIds = {}
      BY <2>2, <3>1, <3>3, WishOf, WishOfNext, LiveShows
    <3>5. Service!Keep(c)
      BY <1>0, <1>1, <1>2, <1>3, <3>1, <3>4 DEF Service!Keep, Wishes, LiveIds, Ids
    <3> QED BY <3>5 DEF Service!Next
  <2> QED BY <2>1, <2>2
<1>6. CASE StoreFlag(c)
  <2>1. /\ calls'[c].at = IF calls[c].arg THEN "spawn" ELSE "cancel"
        /\ calls[c].at = "store" /\ UNCHANGED <<loops, spawned, status>>
    BY <1>0, <1>6 DEF StoreFlag, Move, Return, Idle
  <2>2. Wish(c)' = Wish(c)
    BY <1>1, <2>1, WishOf, WishOfNext
  <2> QED BY <1>4, <2>1, <2>2
<1>7. CASE Spawn(c)
  <2> DEFINE new == [id |-> spawned + 1, at |-> "probe", canceled |-> FALSE, result |-> "Unknown"]
  <2>1. /\ calls'[c].at = "idle" /\ calls[c].at = "spawn" /\ loops' = loops \cup {new}
        /\ spawned' = spawned + 1 /\ status' = status
    BY <1>0, <1>7 DEF Spawn, Move, Return, Idle
  <2>2. LiveIds = {}
    <3>1. cancelLoop = 0
      BY <1>0, <2>1 DEF Stages
    <3> QED BY <3>1, LiveShows
  <2>3. Wish(c) = "on" /\ Wish(c)' = "none"
    BY <2>1, WishOf, WishOfNext
  <2>4. Ids' = Ids \cup {spawned + 1} /\ LiveIds' = LiveIds \cup {spawned + 1}
    <3>1. new.id = spawned + 1 /\ ~new.canceled
      OBVIOUS
    <3> HIDE DEF new
    <3> QED BY <2>1, <3>1 DEF Ids, LiveIds
  <2>5. Service!Start(c)
    BY <1>0, <1>1, <1>2, <2>1, <2>2, <2>3, <2>4 DEF Service!Start, Wishes, LiveIds, Ids
  <2> QED BY <2>5 DEF Service!Next
<1>8. CASE CancelLoop(c)
  <2> DEFINE stop(l) == IF l.id = cancelLoop THEN [l EXCEPT !.canceled = TRUE] ELSE l
  <2>1. /\ calls'[c].at = "commit" /\ calls[c].at = "cancel"
        /\ loops' = {stop(l) : l \in loops} /\ UNCHANGED <<spawned, status>>
    BY <1>0, <1>8 DEF CancelLoop, Move, Return, Idle
  <2>2. Wish(c) = "off" /\ Wish(c)' = "announce"
    BY <2>1, WishOf, WishOfNext
  <2>3. \A l \in loops : stop(l).id = l.id /\ stop(l).canceled
    <3>1. \A l \in loops : l \in Loop /\ (~l.canceled => l.id = cancelLoop)
      BY <1>0 DEF IInv, Live
    <3> QED BY <3>1 DEF Loop
  <2>4. Ids' = Ids /\ LiveIds' = {}
    <3> HIDE DEF stop
    <3> QED BY <2>1, <2>3 DEF Ids, LiveIds
  <2>5. Service!Stop(c)
    BY <1>0, <1>1, <1>2, <2>1, <2>2, <2>4 DEF Service!Stop, Wishes, LiveIds, Ids
  <2> QED BY <2>5 DEF Service!Next
<1>9. CASE CommitUnknown(c)
  <2>1. /\ calls'[c].at = "deliver" /\ calls[c].at = "commit"
        /\ status' = "Unknown" /\ UNCHANGED <<loops, spawned>>
    BY <1>0, <1>9 DEF CommitUnknown, Move, Return, Idle
  <2>2. Wish(c) = "announce" /\ Wish(c)' = "none"
    BY <2>1, WishOf, WishOfNext
  <2>3. Service!Announce(c)
    BY <1>0, <1>1, <1>2, <1>3, <2>1, <2>2 DEF Service!Announce, Wishes, LiveIds, Ids
  <2> QED BY <2>3 DEF Service!Next
<1>10. CASE DeliverUnknown(c)
  <2>1. /\ calls'[c].at = "idle" /\ calls[c].at = "deliver"
        /\ UNCHANGED <<loops, spawned, status>>
    BY <1>0, <1>10 DEF DeliverUnknown, Move, Return, Idle
  <2>2. Wish(c)' = Wish(c)
    BY <2>1, WishOf, WishOfNext
  <2> QED BY <1>4, <2>1, <2>2
<1> QED BY <1>5, <1>6, <1>7, <1>8, <1>9, <1>10 DEF SetEnabled

(* A step of a loop that goes on.                                           *)
LEMMA LoopGoesOn ==
    ASSUME IInv, NEW l \in loops, NEW k, k.id = l.id, k.canceled = l.canceled, Becomes(l, k)
    PROVE  Ids' = Ids /\ LiveIds' = LiveIds
<1>1. loops' = (loops \ {l}) \cup {k}
  BY DEF Becomes
<1> QED BY <1>1 DEF Ids, LiveIds

LEMMA LoopShows ==
    ASSUME IInv, NEW l \in loops,
           LoopProbes(l) \/ LoopCommits(l) \/ LoopDelivers(l) \/ LoopTicks(l) \/ LoopReturns(l)
    PROVE  [Service!Next]_Service!vars
<1>0. l \in Loop /\ l.id \in Ids
  BY DEF IInv, TypeOK, Ids
<1>1. Wishes' = Wishes /\ spawned' = spawned /\ main' = main
  BY DEF LoopProbes, LoopCommits, LoopDelivers, LoopTicks, LoopReturns, Wishes, Wish
<1>2. CASE LoopReturns(l)
  <2>1. loops' = loops \ {l} /\ status' = status /\ (l.canceled \/ main = "closed")
    BY <1>2 DEF LoopReturns, ContextDone
  <2>2. \A m \in loops : m.id = l.id => m = l
    BY DEF IInv, Numbered
  <2>3. Ids' = Ids \ {l.id} /\ LiveIds' = LiveIds \ {l.id}
    BY <2>1, <2>2 DEF Ids, LiveIds
  <2>4. l.id \notin LiveIds \/ main = "closed"
    BY <2>1, <2>2 DEF LiveIds
  <2>5. Service!End(l.id)
    BY <1>1, <2>1, <2>3, <2>4 DEF Service!End, Wishes, LiveIds, Ids
  <2> QED BY <1>0, <2>5 DEF Service!Next, Ids
<1>3. CASE LoopProbes(l) \/ LoopDelivers(l) \/ LoopTicks(l)
  <2>1. PICK k : k.id = l.id /\ k.canceled = l.canceled /\ Becomes(l, k)
    <3>1. \A s : /\ [l EXCEPT !.at = "commit", !.result = s].id = l.id
                 /\ [l EXCEPT !.at = "commit", !.result = s].canceled = l.canceled
      BY <1>0 DEF Loop
    <3>2. /\ [l EXCEPT !.at = "wait", !.result = "Unknown"].id = l.id
          /\ [l EXCEPT !.at = "wait", !.result = "Unknown"].canceled = l.canceled
          /\ [l EXCEPT !.at = "probe"].id = l.id
          /\ [l EXCEPT !.at = "probe"].canceled = l.canceled
      BY <1>0 DEF Loop
    <3> QED BY <1>3, <3>1, <3>2 DEF LoopProbes, LoopDelivers, LoopTicks
  <2>2. Ids' = Ids /\ LiveIds' = LiveIds
    BY <2>1, LoopGoesOn
  <2>3. status' = status
    BY <1>3 DEF LoopProbes, LoopDelivers, LoopTicks
  <2> QED BY <1>1, <2>2, <2>3 DEF Service!vars, Wishes, LiveIds, Ids
<1>4. CASE LoopCommits(l)
  <2> DEFINE k == [l EXCEPT !.at = "deliver"]
  <2>1. k.id = l.id /\ k.canceled = l.canceled /\ Becomes(l, k) /\ status' \in State
    BY <1>0, <1>4 DEF Loop, LoopCommits
  <2>2. Ids' = Ids /\ LiveIds' = LiveIds
    BY <2>1, LoopGoesOn
  <2>3. Service!Report
    BY <1>0, <1>1, <2>1, <2>2 DEF Service!Report, Wishes, LiveIds, Ids
  <2> QED BY <2>3 DEF Service!Next
<1> QED BY <1>2, <1>3, <1>4

(* Health implements HealthService: under its mutex a call of SetEnabled    *)
(* takes effect at one point, when the loop is started or cancelled, and    *)
(* stages in between, deliveries and the bridge do not show.                *)
THEOREM ServiceRefined == Spec => ServiceSpec
<1>1. Init => Service!Init
  BY DEF Init, Idle, Wish, Service!Init
<1>2. IInv /\ [Next]_vars => [Service!Next]_Service!vars
  <2> SUFFICES ASSUME IInv, [Next]_vars PROVE [Service!Next]_Service!vars
    OBVIOUS
  <2>1. ASSUME NEW c \in Caller, CallSetEnabled(c) PROVE Service!Next
    <3>1. c \in Setters
      BY DEF Setters
    <3>2. PICK arg \in BOOLEAN : Call(c, arg)
      BY <2>1 DEF CallSetEnabled
    <3> QED BY <2>1, <3>1, <3>2, CallShows DEF CallSetEnabled
  <2>2. ASSUME NEW c \in Setters, SetEnabled(c) PROVE [Service!Next]_Service!vars
    BY <2>2, SetEnabledShows
  <2>3. ASSUME NEW l \in loops,
               LoopProbes(l) \/ LoopCommits(l) \/ LoopDelivers(l) \/ LoopTicks(l) \/ LoopReturns(l)
        PROVE  [Service!Next]_Service!vars
    BY <2>3, LoopShows
  <2>4. CASE BridgeReceives \/ PathChanges \/ UNCHANGED vars
    <3>1. Wishes' = Wishes /\ UNCHANGED <<loops, spawned, status, main>>
      BY <2>4 DEF BridgeReceives, PathChanges, vars, Wishes, Wish
    <3> QED BY <3>1 DEF Service!vars, Wishes
  <2>5. CASE MainDisables
    <3>1. calls[Main].at = "idle" /\ Main \in Setters
      BY <2>5 DEF IInv, Serving, MainDisables, Setters
    <3>2. PICK arg \in BOOLEAN : Call(Main, arg)
      BY <2>5 DEF MainDisables
    <3>3. UNCHANGED <<loops, spawned, status>> /\ main # "closed" /\ main' # "closed"
      BY <2>5 DEF MainDisables
    <3> QED BY <3>1, <3>2, <3>3, CallShows
  <2>6. CASE Close
    <3>1. Wishes' = Wishes /\ UNCHANGED <<loops, spawned, status>> /\ main' = "closed"
      BY <2>6 DEF Close, Wishes, Wish
    <3>2. Service!Close
      BY <3>1 DEF Service!Close, Wishes
    <3> QED BY <3>2 DEF Service!Next
  <2> QED BY <2>1, <2>2, <2>3, <2>4, <2>5, <2>6 DEF Next
<1> QED BY <1>1, <1>2, Invariance, PTL DEF Spec, ServiceSpec, Service!Spec
=============================================================================

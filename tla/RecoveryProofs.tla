--------------------------- MODULE RecoveryProofs ---------------------------
(***************************************************************************)
(* Proofs about Recovery, for any set of pids and any number of processes: *)
(* type correctness, that a daemon which binds its socket has dealt with   *)
(* every orphan, and that no process is signalled which is not the         *)
(* daemon's, unless it took the number of one after the guard's look at it *)
(* or, for a Stop, after the child was reaped.                             *)
(***************************************************************************)
EXTENDS Recovery, TLAPS

(* Only helpers are in the group of another process.                        *)
Groups == \A p \in Pid : procs[p].kind \in {"xray", "stranger", "foreign"} => procs[p].group = p

(* Starttimes are unique, so that an entry of the list is an xray, or what  *)
(* one has forked, as long as its process lives.                            *)
Listed ==
    /\ \A p \in Pid : procs[p].born <= births
    /\ \A o \in todo : /\ o.born <= births
                       /\ Alive(o.pid) /\ procs[o.pid].born = o.born =>
                              procs[o.pid].kind \in {"xray", "helper"}

(* A stranger in the group that the scan is about to signal, or with a pid  *)
(* that the sweep has listed, came later than the last look at the target.  *)
Checked ==
    /\ target.checked <= births
    /\ \A q \in Pid : procs[q].kind = "stranger" /\ procs[q].group = target.pid =>
                          procs[q].born > target.checked
    /\ \A q \in strays : procs[q].kind = "stranger" => procs[q].born > target.checked

(* The child has its pid until it is reaped.                                *)
ChildLives ==
    /\ child.freed <= births
    /\ child.pid # 0 => births > 0
    /\ child.pid # 0 /\ child.freed = 0 => procs[child.pid].kind = "xray" /\ procs[child.pid].own

(* Who is in the group of the child was forked by this run, or took the     *)
(* number after the child was reaped.                                       *)
Family ==
    child.pid # 0 =>
        \A p \in Pid : Alive(p) /\ procs[p].group = child.pid =>
            \/ procs[p].own /\ procs[p].kind # "stranger"
            \/ child.freed # 0 /\ procs[p].born > child.freed

(* Until the scan is over an orphan is listed, or the scan's target.        *)
Pending(p) ==
    \/ procs[p].sig = "kill"
    \/ [pid |-> p, born |-> procs[p].born, leads |-> TRUE] \in todo
    \/ target.pid = p /\ at \in {"term", "poll", "kill"}

Accounted ==
    /\ at \notin {"down", "list", "stopping"} =>
           cut \/ \A p \in Pid : IsOrphan(p) => Pending(p)
    /\ at \notin Scanning => todo = {}

Saved == at \in {"bind", "serving"} => unsaved \/ file = conn

IInv == TypeOK /\ Groups /\ Listed /\ Checked /\ ChildLives /\ Family /\ Accounted
            /\ Saved /\ OnlyOursSignalled

-----------------------------------------------------------------------------
(* What a signal changes: nothing but the signals, and the history.         *)
LEMMA HitEffect ==
    ASSUME TypeOK, NEW ps \in SUBSET Pid, NEW s \in Signal, NEW since \in 0 .. MaxBirth,
           Hit(ps, s, since)
    PROVE  /\ procs' \in [Pid -> Process]
           /\ harmed' \subseteq [born : 0 .. MaxBirth, checked : 0 .. MaxBirth]
           /\ \A p \in Pid : /\ procs'[p].kind = procs[p].kind
                             /\ procs'[p].born = procs[p].born
                             /\ procs'[p].group = procs[p].group
                             /\ procs'[p].own = procs[p].own
                             /\ procs'[p].sig \in {procs[p].sig, s}
                             /\ procs[p].sig = "kill" => procs'[p].sig = "kill"
                             /\ s = "kill" /\ p \in ps => procs'[p].sig = "kill"
<1>1. \A p \in Pid : procs[p] \in Process
  BY DEF TypeOK
<1>2. \A p \in Pid : procs'[p] = IF p \in ps /\ procs[p].sig # "kill"
                                 THEN [procs[p] EXCEPT !.sig = s] ELSE procs[p]
  BY DEF Hit
<1>3. \A p \in Pid : [procs[p] EXCEPT !.sig = s] \in Process
  BY <1>1 DEF Process
<1>4. procs' \in [Pid -> Process]
  BY <1>1, <1>2, <1>3 DEF Hit
<1>5. harmed' \subseteq [born : 0 .. MaxBirth, checked : 0 .. MaxBirth]
  <2>1. \A p \in Pid : procs[p].born \in 0 .. MaxBirth
    BY <1>1 DEF Process
  <2> QED BY <2>1 DEF Hit, TypeOK
<1>6. \A p \in Pid : /\ procs'[p].kind = procs[p].kind
                     /\ procs'[p].born = procs[p].born
                     /\ procs'[p].group = procs[p].group
                     /\ procs'[p].own = procs[p].own
                     /\ procs'[p].sig \in {procs[p].sig, s}
                     /\ procs[p].sig = "kill" => procs'[p].sig = "kill"
                     /\ s = "kill" /\ p \in ps => procs'[p].sig = "kill"
  BY <1>1, <1>2 DEF Process
<1> QED BY <1>4, <1>5, <1>6

(* Whom the scan signals, and what it knows of them.                        *)
ScanHits(ps, s) ==
    /\ target.checked \in 0 .. MaxBirth
    /\ Hit(ps, s, target.checked)
    /\ ps \subseteq {p \in Pid : procs[p].group = target.pid \/ p = target.pid \/ p \in strays}

LEMMA ScanHit ==
    ASSUME TypeOK, Terminate \/ Kill \/ \E p \in strays : KillStray(p)
    PROVE  \E ps \in SUBSET Pid, s \in Signal : ScanHits(ps, s)
<1>1. target.checked \in 0 .. MaxBirth /\ strays \subseteq Pid
  BY RecoveryAssumption DEF TypeOK, Target, NoTarget
<1>2. CASE Terminate \/ Kill
  <2>1. target.pid \in Pid
    BY <1>2 DEF Terminate, Kill, TypeOK, Target, Scanning
  <2>2. Victims \in SUBSET {p \in Pid : procs[p].group = target.pid \/ p = target.pid}
    BY <2>1 DEF Victims, Reached, Members, Single
  <2>3. \E s \in Signal : Hit(Victims, s, target.checked)
    BY <1>2 DEF Terminate, Kill, Signal
  <2> QED BY <1>1, <2>2, <2>3 DEF ScanHits
<1>3. ASSUME NEW p \in strays, KillStray(p)
      PROVE  \E ps \in SUBSET Pid, s \in Signal : ScanHits(ps, s)
  <2>1. Single(p) \in SUBSET Pid /\ Single(p) \subseteq {p}
    BY <1>1 DEF Single
  <2>2. "kill" \in Signal
    BY DEF Signal
  <2>3. ScanHits(Single(p), "kill")
    BY <1>1, <1>3, <2>1 DEF KillStray, ScanHits
  <2> QED BY <2>1, <2>2, <2>3
<1> QED BY <1>2, <1>3

(* Whom a Stop signals.                                                     *)
StopHits(s) ==
    /\ child.pid \in Pid /\ Reached(child.pid) \in SUBSET Pid
    /\ child' = [child EXCEPT !.stop = s] /\ child' \in Child
    /\ child'.pid = child.pid /\ child'.freed = child.freed
    /\ (IF child.freed = 0 THEN births ELSE child.freed) \in 0 .. MaxBirth
    /\ Hit(Reached(child.pid), s, IF child.freed = 0 THEN births ELSE child.freed)

LEMMA StopHit == ASSUME TypeOK, StopChild PROVE \E s \in Signal : StopHits(s)
<1>1. PICK s \in {"term", "kill"} : Signals(s)
  BY DEF StopChild
<1>2. child \in Child /\ births \in 0 .. MaxBirth /\ child.pid # 0
  BY DEF StopChild, TypeOK
<1>3. Reached(child.pid) \in SUBSET Pid
  BY DEF Reached, Members
<1>4. s \in Signal
  BY DEF Signal
<1>5. [child EXCEPT !.stop = s] \in Child /\ [child EXCEPT !.stop = s].pid = child.pid
      /\ [child EXCEPT !.stop = s].freed = child.freed
  BY <1>2, <1>4 DEF Child
<1>6. child.pid \in Pid /\ (IF child.freed = 0 THEN births ELSE child.freed) \in 0 .. MaxBirth
  BY <1>2 DEF Child
<1> QED BY <1>1, <1>3, <1>4, <1>5, <1>6 DEF Signals, StopHits

(* What the start of a process changes.                                     *)
LEMMA BeginEffect ==
    ASSUME TypeOK, NEW p \in Pid, NEW kind \in Kind, NEW group \in Pid, NEW own \in BOOLEAN,
           Begin(p, kind, group, own)
    PROVE  /\ procs' \in [Pid -> Process] /\ births' \in 0 .. MaxBirth
           /\ births' = births + 1 /\ births \in Nat
           /\ procs[p].kind = "none"
           /\ \A q \in Pid : procs[q].kind # "none" => procs[q].group # p
           /\ \A q \in Pid \ {p} : procs'[q] = procs[q]
           /\ procs'[p].kind = kind /\ procs'[p].born = births + 1
           /\ procs'[p].group = group /\ procs'[p].own = own
<1>1. births \in Nat /\ MaxBirth \in Nat /\ births' \in 0 .. MaxBirth
  BY RecoveryAssumption DEF TypeOK, Begin
<1>2. [kind |-> kind, born |-> births + 1, group |-> group, own |-> own, sig |-> "none"] \in Process
  BY <1>1 DEF Process, Signal, Begin
<1>3. procs' \in [Pid -> Process]
  BY <1>2 DEF TypeOK, Begin
<1> QED BY <1>1, <1>2, <1>3 DEF TypeOK, Begin, Alive, Members

LEMMA EndsEffect ==
    ASSUME TypeOK, Ends
    PROVE  /\ procs' \in [Pid -> Process]
           /\ \A p \in Pid : /\ procs'[p].kind = procs[p].kind
                             /\ procs'[p].born = procs[p].born
                             /\ procs'[p].group = procs[p].group
                             /\ ~procs'[p].own
<1>1. \A p \in Pid : procs[p] \in Process
  BY DEF TypeOK
<1>2. procs' = [p \in Pid |->
                 IF procs[p].kind = "xray" /\ procs[p].own /\ procs[p].sig = "none"
                 THEN [procs[p] EXCEPT !.own = FALSE, !.sig = "term"]
                 ELSE [procs[p] EXCEPT !.own = FALSE]]
  BY DEF Ends, Orphaned
<1>3. \A p \in Pid : /\ [procs[p] EXCEPT !.own = FALSE, !.sig = "term"] \in Process
                     /\ [procs[p] EXCEPT !.own = FALSE] \in Process
  BY <1>1 DEF Process, Signal
<1> QED BY <1>1, <1>2, <1>3 DEF Process

LEMMA DiesEffect ==
    ASSUME TypeOK, NEW p \in Pid, Dies(p)
    PROVE  /\ procs' \in [Pid -> Process]
           /\ \A q \in Pid \ {p} : procs'[q] = procs[q]
           /\ procs'[p].kind = "none" /\ ~procs'[p].own /\ procs'[p].group = 0
           /\ procs'[p].born = 0
           /\ child' \in Child /\ child'.pid = child.pid
           /\ child'.freed = IF child.pid = p /\ child.freed = 0 THEN births ELSE child.freed
<1>1. Nobody \in Process
  BY RecoveryAssumption DEF Nobody, Process, Kind, Signal
<1>2. child' \in Child /\ child'.pid = child.pid
      /\ child'.freed = IF child.pid = p /\ child.freed = 0 THEN births ELSE child.freed
  <2>1. child \in Child /\ births \in 0 .. MaxBirth
    BY DEF TypeOK
  <2>2. child' = IF child.pid = p /\ child.freed = 0 THEN [child EXCEPT !.freed = births]
                 ELSE child
    BY DEF Dies
  <2> QED BY <2>1, <2>2 DEF Child
<1>3. procs' = [procs EXCEPT ![p] = Nobody]
  BY DEF Dies
<1> QED BY <1>1, <1>2, <1>3 DEF TypeOK, Nobody

-----------------------------------------------------------------------------
(* No process, no list, no tunnel: the invariant holds at the start.        *)
THEOREM Initial == Init => IInv
<1> SUFFICES ASSUME Init PROVE IInv
  OBVIOUS
<1>0. MaxBirth \in Nat /\ 0 \in 0 .. MaxBirth
  BY RecoveryAssumption
<1>1. TypeOK
  <2>1. Nobody \in Process
    BY <1>0 DEF Nobody, Process, Kind, Signal
  <2>2. NoTarget \in Target
    BY <1>0 DEF NoTarget, Target
  <2>3. Service!Status("Disconnected", NoConfig) \in Conn
    BY DEF Conn, ConnState, Service!Status
  <2>4. NoChild \in Child
    BY <1>0 DEF NoChild, Child, Signal
  <2> QED BY <1>0, <2>1, <2>2, <2>3, <2>4
        DEF Init, TypeOK, Stage, Starting, Scanning, Service!Init, Nobody
<1>2. ChildLives /\ Family
  BY <1>0 DEF Init, NoChild, ChildLives, Family
<1> QED BY <1>0, <1>1, <1>2, RecoveryAssumption DEF IInv, Groups, Listed, Checked,
        Accounted, Saved, OnlyOursSignalled, Init, Nobody, NoTarget, Scanning

(* Where the daemon is, and with it what else has to hold, by the action.   *)
LEMMA TypeStep == ASSUME TypeOK, [Next]_vars PROVE TypeOK'
<1> USE RecoveryAssumption
<1> DEFINE Down == Service!Status("Disconnected", NoConfig)
<1>0. /\ Down \in Conn /\ Down.state = "Disconnected"
      /\ NoTarget \in Target /\ NoChild \in Child
      /\ \A p \in Pid : procs[p] \in Process
  BY DEF Conn, ConnState, Service!Status, NoTarget, Target, NoChild, Child, Signal, TypeOK
<1>1. CASE UNCHANGED vars
  BY <1>1 DEF vars, daemon, disk, scan, tunnel, TypeOK
<1>2. CASE Crash \/ ListenFails \/ Exits
  <2>1. Ends /\ at # "down"
    BY <1>2 DEF Crash, ListenFails, Exits
  <2>2. procs' \in [Pid -> Process] /\ \A p \in Pid : ~procs'[p].own
    BY <2>1, EndsEffect
  <2> QED BY <1>0, <2>1, <2>2 DEF Ends, disk, TypeOK, Stage, Starting, Scanning
<1>3. CASE SignalArrives
  BY <1>3 DEF SignalArrives, scan, tunnel, disk, TypeOK
<1>4. CASE FileSpoils
  BY <1>4 DEF FileSpoils, daemon, scan, tunnel, TypeOK
<1>5. CASE Start
  BY <1>5 DEF Start, scan, tunnel, disk, TypeOK, Stage, Starting, Scanning
<1>6. CASE ListOurXray
  <2>1. todo' \subseteq Orphan
    <3>1. \A p \in Pid, b \in BOOLEAN :
              [pid |-> p, born |-> procs[p].born, leads |-> b] \in Orphan
      BY <1>0 DEF Orphan, Process
    <3>2. \A p \in Pid : (procs[p].group = p) \in BOOLEAN
      OBVIOUS
    <3>3. \A o \in todo' : \E p \in Pid :
              o = [pid |-> p, born |-> procs[p].born, leads |-> procs[p].group = p]
      BY <1>6 DEF ListOurXray
    <3> QED BY <3>1, <3>2, <3>3
  <2> QED BY <1>6, <2>1 DEF ListOurXray, Go, tunnel, disk, TypeOK, Stage, Starting, Scanning
<1>7. ASSUME NEW o \in todo, Check(o) PROVE TypeOK'
  <2> DEFINE t == [pid |-> o.pid, checked |-> births, leads |-> o.leads]
  <2>1. o.pid \in Pid /\ o.leads \in BOOLEAN
    BY DEF TypeOK, Orphan
  <2>2. t \in Target /\ t # NoTarget
    BY <2>1 DEF TypeOK, Target, NoTarget
  <2> QED BY <1>7, <2>2 DEF Check, Go, tunnel, disk, TypeOK, Stage, Starting, Scanning
<1>8. CASE ScanEnds
  BY <1>8 DEF ScanEnds, Go, scan, tunnel, disk, TypeOK, Stage, Starting, Scanning
<1>9. CASE Terminate \/ Kill \/ \E p \in strays : KillStray(p)
  <2>1. /\ procs' \in [Pid -> Process]
        /\ harmed' \subseteq [born : 0 .. MaxBirth, checked : 0 .. MaxBirth]
        /\ \A p \in Pid : procs'[p].own = procs[p].own
    <3>1. PICK ps \in SUBSET Pid, s \in Signal : ScanHits(ps, s)
      BY <1>9, ScanHit
    <3> QED BY <3>1, HitEffect DEF ScanHits
  <2>2. CASE Terminate \/ Kill
    BY <1>0, <2>1, <2>2 DEF Terminate, Kill, Return, Go, scan, tunnel, disk, TypeOK, Stage,
       Starting, Scanning
  <2>3. CASE \E p \in strays : KillStray(p)
    BY <2>1, <2>3 DEF KillStray, tunnel, disk, TypeOK
  <2> QED BY <1>9, <2>2, <2>3
<1>10. CASE IsGone \/ Interrupted \/ Deadline \/ SweepEnds
  BY <1>0, <1>10 DEF IsGone, Interrupted, Deadline, SweepEnds, Return, Go, scan, tunnel, disk,
     TypeOK, Stage, Starting, Scanning
<1>22. CASE ListStrays
  BY <1>22 DEF ListStrays, Members, Go, tunnel, disk, TypeOK, Stage, Starting, Scanning
<1>23. CASE ExitIsSeen
  <2>1. child' \in Child
    BY <1>23 DEF ExitIsSeen, TypeOK, Child
  <2>2. child # NoChild
    BY <1>23 DEF ExitIsSeen, NoChild
  <2> QED BY <1>23, <2>1, <2>2 DEF ExitIsSeen, scan, tunnel, disk, TypeOK
<1>11. CASE Load
  BY <1>11 DEF Load, Go, scan, tunnel, TypeOK, Stage, Starting, Scanning
<1>12. CASE Reset
  BY <1>0, <1>12 DEF Reset, Save, Go, scan, tunnel, TypeOK, Stage, Starting, Scanning
<1>13. CASE Listen
  BY <1>13 DEF Listen, Go, scan, tunnel, disk, TypeOK, Stage, Starting, Scanning
<1>14. CASE TunnelMoves
  <2>1. conn' \in Conn /\ next' \in ConfigID \cup {NoConfig} /\ stopping' = stopping
    BY <1>14 DEF TunnelMoves, TypeOK, Conn, ConnState, Service!Work, Service!Attempt,
       Service!Progress, Service!Establish, Service!Fail, Service!Close, Service!TakeBack,
       Service!Closed, Service!Dismiss, Service!Status
  <2>2. child' \in Child /\ at = "serving" /\ UNCHANGED <<at, target, strays>>
    BY <1>0, <1>14 DEF TunnelMoves, TypeOK, scan
  <2> QED BY <1>14, <2>1, <2>2 DEF TunnelMoves, Save, scan, disk, TypeOK, Scanning
<1>15. CASE StopChild
  <2>1. /\ procs' \in [Pid -> Process]
        /\ harmed' \subseteq [born : 0 .. MaxBirth, checked : 0 .. MaxBirth]
        /\ \A p \in Pid : procs'[p].own = procs[p].own
    <3>1. PICK s \in Signal : StopHits(s)
      BY <1>15, StopHit
    <3> QED BY <3>1, HitEffect DEF StopHits
  <2>2. child' \in Child
    BY <1>15, StopHit DEF StopHits
  <2>3. child # NoChild
    BY <1>15 DEF StopChild, NoChild
  <2> QED BY <1>15, <2>1, <2>2, <2>3 DEF StopChild, Signals, scan, tunnel, disk, TypeOK
<1>16. CASE ShutdownBegins
  BY <1>16 DEF ShutdownBegins, scan, disk, TypeOK, Stage, Scanning
<1>17. CASE MachineStops
  BY <1>0, <1>17 DEF MachineStops, Save, scan, TypeOK
<1>18. ASSUME NEW p \in Pid, Dies(p) PROVE TypeOK'
  <2>1. procs' \in [Pid -> Process] /\ (\A q \in Pid : procs'[q].own => procs[q].own)
    BY <1>18, DiesEffect
  <2>2. child' \in Child
    BY <1>18, DiesEffect
  <2>3. child = NoChild => child' = child
    <3>1. p # 0 /\ NoChild.pid = 0
      BY DEF NoChild
    <3> QED BY <1>18, <3>1 DEF Dies
  <2> QED BY <1>18, <2>1, <2>2, <2>3 DEF Dies, scan, tunnel, disk, TypeOK
<1>19. ASSUME NEW p \in Pid, StrangerBegins(p) PROVE TypeOK'
  <2>1. PICK kind \in {"stranger", "foreign"} : Begin(p, kind, p, FALSE)
    BY <1>19 DEF StrangerBegins
  <2>2. kind \in Kind
    BY DEF Kind
  <2>3. /\ procs' \in [Pid -> Process] /\ births' \in 0 .. MaxBirth
        /\ \A q \in Pid : procs'[q].own => procs[q].own
    BY <2>1, <2>2, BeginEffect
  <2> QED BY <1>19, <2>3 DEF StrangerBegins, daemon, scan, tunnel, disk, TypeOK
<1>20. ASSUME NEW p \in Pid, Forks(p) PROVE TypeOK'
  <2>1. PICK leader \in Pid : Begin(p, "helper", leader, procs[leader].own)
    BY <1>20 DEF Forks
  <2>2. "helper" \in Kind /\ procs[leader].own \in BOOLEAN
    BY <1>0 DEF Kind, Process
  <2>3. /\ procs' \in [Pid -> Process] /\ births' \in 0 .. MaxBirth
        /\ \A q \in Pid : procs'[q].own => procs[q].own \/ procs[leader].own
    BY <2>1, <2>2, BeginEffect
  <2> QED BY <1>20, <2>3 DEF Forks, daemon, scan, tunnel, disk, TypeOK
<1>21. ASSUME NEW p \in Pid, Spawn(p) \/ Validates(p) PROVE TypeOK'
  <2>1. Begin(p, "xray", p, TRUE)
    BY <1>21 DEF Spawn, Validates
  <2>2. procs' \in [Pid -> Process] /\ births' \in 0 .. MaxBirth
    BY <2>1, BeginEffect DEF Kind
  <2>3. [NoChild EXCEPT !.pid = p] \in Child
    BY <1>0 DEF Child
  <2> QED BY <1>21, <2>2, <2>3 DEF Spawn, Validates, daemon, scan, tunnel, disk, TypeOK
<1> QED
  BY <1>1, <1>2, <1>3, <1>4, <1>5, <1>6, <1>7, <1>8, <1>9, <1>10, <1>11, <1>12, <1>13, <1>14,
     <1>15, <1>16, <1>17, <1>18, <1>19, <1>20, <1>21, <1>22, <1>23
     DEF Next, StartStep, KillGraceful

-----------------------------------------------------------------------------
(* The five ways in which a step changes the processes.                     *)
SomeHit ==
    \E ps \in SUBSET Pid, s \in Signal :
        ScanHits(ps, s) \/ (ps = Reached(child.pid) /\ StopHits(s))

SomeBegin ==
    \E p \in Pid :
        /\ procs[p].kind = "none" /\ \A q \in Pid : procs[q].kind # "none" => procs[q].group # p
        /\ \A q \in Pid \ {p} : procs'[q] = procs[q]
        /\ procs'[p].kind # "helper" => procs'[p].group = p
        /\ procs'[p].kind = "xray" => procs'[p].own
        /\ procs'[p].kind = "helper" =>
               \E leader \in Pid : /\ procs[leader].kind = "xray"
                                   /\ procs'[p].group = leader
                                   /\ procs'[p].own = procs[leader].own
        /\ births' = births + 1 /\ procs'[p].born = births + 1
        /\ \/ child' = child
           \/ child' = [NoChild EXCEPT !.pid = p] /\ procs'[p].kind = "xray"
        /\ harmed' = harmed

LEMMA Shapes ==
    ASSUME TypeOK, [Next]_vars
    PROVE  \/ /\ UNCHANGED <<procs, births, harmed>>
              /\ child' = NoChild \/ (child'.pid = child.pid /\ child'.freed = child.freed)
           \/ SomeHit /\ births' = births
              /\ child'.pid = child.pid /\ child'.freed = child.freed
           \/ \E p \in Pid : Dies(p)
           \/ SomeBegin
           \/ Ends
<1>0. ASSUME NEW p \in Pid, NEW kind \in Kind, NEW group \in Pid, NEW own \in BOOLEAN,
             Begin(p, kind, group, own)
      PROVE  /\ procs[p].kind = "none"
             /\ \A q \in Pid : procs[q].kind # "none" => procs[q].group # p
             /\ \A q \in Pid \ {p} : procs'[q] = procs[q]
             /\ births' = births + 1 /\ procs'[p].born = births + 1
             /\ procs'[p].kind = kind /\ procs'[p].group = group /\ procs'[p].own = own
  BY <1>0, BeginEffect
<1>1. CASE UNCHANGED vars
  BY <1>1 DEF vars, daemon
<1>2. CASE Crash \/ ListenFails \/ Exits
  BY <1>2 DEF Crash, ListenFails, Exits
<1>3. CASE \/ SignalArrives \/ FileSpoils \/ Start \/ ListOurXray \/ ScanEnds
           \/ (\E o \in todo : Check(o)) \/ IsGone \/ Interrupted \/ Deadline
           \/ ListStrays \/ SweepEnds
           \/ Load \/ Reset \/ Listen \/ TunnelMoves \/ ShutdownBegins \/ MachineStops
  BY <1>3 DEF ListStrays, SweepEnds, SignalArrives, FileSpoils, Start, ListOurXray, ScanEnds,
     Check, IsGone, Interrupted, Deadline, Load, Reset, Listen, TunnelMoves, ShutdownBegins,
     MachineStops, Return, Go, daemon
<1>4. CASE Terminate \/ Kill \/ \E p \in strays : KillStray(p)
  <2>1. UNCHANGED <<births, child>>
    BY <1>4 DEF Terminate, Kill, KillStray, Return, Go
  <2> QED BY <1>4, <2>1, ScanHit DEF SomeHit
<1>5. CASE StopChild
  <2>1. births' = births
    BY <1>5 DEF StopChild, Signals
  <2> QED BY <1>5, <2>1, StopHit DEF SomeHit, StopHits
<1>9. CASE ExitIsSeen
  <2>1. child'.pid = child.pid /\ child'.freed = child.freed
    BY <1>9 DEF ExitIsSeen, TypeOK, Child
  <2> QED BY <1>9, <2>1 DEF ExitIsSeen
<1>6. ASSUME NEW p \in Pid, StrangerBegins(p) PROVE SomeBegin
  <2>1. PICK kind \in {"stranger", "foreign"} : Begin(p, kind, p, FALSE)
    BY <1>6 DEF StrangerBegins
  <2>2. kind \in Kind /\ kind # "xray" /\ kind # "helper"
    BY DEF Kind
  <2>3. /\ procs[p].kind = "none" /\ \A q \in Pid : procs[q].kind # "none" => procs[q].group # p
        /\ \A q \in Pid \ {p} : procs'[q] = procs[q]
        /\ births' = births + 1 /\ procs'[p].born = births + 1
        /\ procs'[p].kind = kind /\ procs'[p].group = p
    <3>1. ASSUME NEW k \in Kind, NEW own \in BOOLEAN, Begin(p, k, p, own)
          PROVE  /\ procs[p].kind = "none"
                 /\ \A q \in Pid : procs[q].kind # "none" => procs[q].group # p
                 /\ \A q \in Pid \ {p} : procs'[q] = procs[q]
                 /\ births' = births + 1 /\ procs'[p].born = births + 1
                 /\ procs'[p].kind = k /\ procs'[p].group = p
      BY <1>0, <3>1
    <3> QED BY <2>1, <2>2, <3>1
  <2>4. child' = child /\ harmed' = harmed
    BY <1>6 DEF StrangerBegins, daemon
  <2> QED BY <2>2, <2>3, <2>4 DEF SomeBegin
<1>7. ASSUME NEW p \in Pid, Forks(p) PROVE SomeBegin
  <2>1. PICK leader \in Pid : /\ procs[leader].kind = "xray"
                              /\ Begin(p, "helper", leader, procs[leader].own)
    BY <1>7 DEF Forks
  <2>2. "helper" \in Kind /\ procs[leader].own \in BOOLEAN
    BY DEF Kind, TypeOK, Process
  <2>3. /\ procs[p].kind = "none" /\ \A q \in Pid : procs[q].kind # "none" => procs[q].group # p
        /\ \A q \in Pid \ {p} : procs'[q] = procs[q]
        /\ births' = births + 1 /\ procs'[p].born = births + 1
        /\ procs'[p].kind = "helper" /\ procs'[p].group = leader
        /\ procs'[p].own = procs[leader].own
    BY <1>0, <2>1, <2>2
  <2>4. child' = child /\ harmed' = harmed
    BY <1>7 DEF Forks, daemon
  <2> QED BY <2>1, <2>3, <2>4 DEF SomeBegin
<1>8. ASSUME NEW p \in Pid, Spawn(p) \/ Validates(p) PROVE SomeBegin
  <2>1. Begin(p, "xray", p, TRUE)
    BY <1>8 DEF Spawn, Validates
  <2>2. "xray" \in Kind
    BY DEF Kind
  <2>3. /\ procs[p].kind = "none" /\ \A q \in Pid : procs[q].kind # "none" => procs[q].group # p
        /\ \A q \in Pid \ {p} : procs'[q] = procs[q]
        /\ births' = births + 1 /\ procs'[p].born = births + 1
        /\ procs'[p].kind = "xray" /\ procs'[p].group = p /\ procs'[p].own
    <3>1. ASSUME NEW k \in Kind, NEW own \in BOOLEAN, Begin(p, k, p, own)
          PROVE  /\ procs[p].kind = "none"
                 /\ \A q \in Pid : procs[q].kind # "none" => procs[q].group # p
                 /\ \A q \in Pid \ {p} : procs'[q] = procs[q]
                 /\ births' = births + 1 /\ procs'[p].born = births + 1
                 /\ procs'[p].kind = k /\ procs'[p].group = p /\ procs'[p].own = own
      BY <1>0, <3>1
    <3> QED BY <2>1, <2>2, <3>1
  <2>4. (child' = child \/ child' = [NoChild EXCEPT !.pid = p]) /\ harmed' = harmed
    BY <1>8 DEF Spawn, Validates, daemon
  <2> QED BY <2>3, <2>4 DEF SomeBegin
<1> QED
  BY <1>1, <1>2, <1>3, <1>4, <1>5, <1>6, <1>7, <1>8, <1>9 DEF Next, StartStep, KillGraceful

LEMMA SomeHitEffect ==
    ASSUME TypeOK, SomeHit
    PROVE  \A p \in Pid : /\ procs'[p].kind = procs[p].kind
                          /\ procs'[p].group = procs[p].group
                          /\ procs'[p].born = procs[p].born
                          /\ procs'[p].own = procs[p].own
                          /\ procs[p].sig = "kill" => procs'[p].sig = "kill"
<1>1. PICK ps \in SUBSET Pid, s \in Signal :
          ScanHits(ps, s) \/ (ps = Reached(child.pid) /\ StopHits(s))
  BY DEF SomeHit
<1>2. \E since \in 0 .. MaxBirth : Hit(ps, s, since)
  BY <1>1 DEF ScanHits, StopHits
<1> QED BY <1>2, HitEffect

LEMMA ProcessStep ==
    ASSUME TypeOK, Groups, ChildLives, Family, [Next]_vars
    PROVE  Groups' /\ ChildLives' /\ Family'
<1> USE RecoveryAssumption
<1>0. /\ NoChild.pid = 0 /\ NoChild.freed = 0
      /\ births \in Nat /\ child.freed \in Nat /\ child.pid \in Pid \cup {0}
      /\ \A p \in Pid : procs[p].born \in Nat
  BY DEF NoChild, TypeOK, Child, Process
<1>1. CASE /\ UNCHANGED <<procs, births, harmed>>
           /\ child' = NoChild \/ (child'.pid = child.pid /\ child'.freed = child.freed)
  BY <1>0, <1>1 DEF Groups, ChildLives, Family, Alive
<1>2. CASE SomeHit /\ births' = births /\ child'.pid = child.pid /\ child'.freed = child.freed
  BY <1>0, <1>2, SomeHitEffect DEF Groups, ChildLives, Family, Alive
<1>3. ASSUME NEW p \in Pid, Dies(p) PROVE Groups' /\ ChildLives' /\ Family'
  <2>1. /\ \A q \in Pid \ {p} : procs'[q] = procs[q]
        /\ procs'[p].kind = "none" /\ births' = births
        /\ child'.pid = child.pid
        /\ child'.freed = IF child.pid = p /\ child.freed = 0 THEN births ELSE child.freed
    BY <1>3, DiesEffect DEF Dies
  <2>2. Groups'
    BY <2>1 DEF Groups
  <2>3. ChildLives'
    BY <1>0, <2>1 DEF ChildLives
  <2>4. Family'
    BY <1>0, <2>1 DEF Family, Alive
  <2> QED BY <2>2, <2>3, <2>4
<1>4. CASE SomeBegin
  <2>1. PICK p \in Pid :
            /\ procs[p].kind = "none" /\ \A q \in Pid : procs[q].kind # "none" => procs[q].group # p
            /\ \A q \in Pid \ {p} : procs'[q] = procs[q]
            /\ procs'[p].kind # "helper" => procs'[p].group = p
            /\ procs'[p].kind = "xray" => procs'[p].own
            /\ procs'[p].kind = "helper" =>
                   \E leader \in Pid : /\ procs[leader].kind = "xray"
                                       /\ procs'[p].group = leader
                                       /\ procs'[p].own = procs[leader].own
            /\ births' = births + 1 /\ procs'[p].born = births + 1
            /\ \/ child' = child
               \/ child' = [NoChild EXCEPT !.pid = p] /\ procs'[p].kind = "xray"
    BY <1>4 DEF SomeBegin
  <2>2. Groups'
    BY <2>1 DEF Groups
  <2>3. CASE child' = child
    <3>1. ChildLives'
      BY <1>0, <2>1, <2>3 DEF ChildLives
    <3>2. ASSUME child.pid # 0, procs'[p].group = child.pid
          PROVE  \/ procs'[p].own /\ procs'[p].kind # "stranger"
                 \/ child.freed # 0 /\ procs'[p].born > child.freed
      <4>1. CASE child.freed # 0
        BY <1>0, <2>1, <4>1 DEF ChildLives
      <4>2. CASE child.freed = 0
        <5>1. child.pid # p
          BY <2>1, <3>2, <4>2 DEF ChildLives
        <5>2. procs'[p].kind = "helper" /\ procs'[p].own = procs[child.pid].own
          BY <2>1, <3>2, <5>1
        <5>3. procs[child.pid].own
          BY <3>2, <4>2 DEF ChildLives
        <5> QED BY <5>2, <5>3
      <4> QED BY <4>1, <4>2
    <3>3. Family'
      BY <2>1, <2>3, <3>2 DEF Family, Alive
    <3> QED BY <2>2, <3>1, <3>3
  <2>4. CASE child' = [NoChild EXCEPT !.pid = p] /\ procs'[p].kind = "xray"
    <3>1. child'.pid = p /\ child'.freed = 0
      BY <2>4 DEF NoChild
    <3>2. ChildLives'
      BY <1>0, <2>1, <2>4, <3>1 DEF ChildLives
    <3>3. Family'
      BY <2>1, <2>4, <3>1 DEF Family, Alive
    <3> QED BY <2>2, <3>2, <3>3
  <2> QED BY <2>1, <2>3, <2>4
<1>5. CASE Ends
  <2>1. child' = NoChild /\ births' = births
    BY <1>5 DEF Ends
  <2>2. \A p \in Pid : procs'[p].kind = procs[p].kind /\ procs'[p].group = procs[p].group
    BY <1>5, EndsEffect
  <2>3. ChildLives' /\ Family'
    BY <1>0, <2>1 DEF ChildLives, Family
  <2> QED BY <2>2, <2>3 DEF Groups
<1> QED BY <1>1, <1>2, <1>3, <1>4, <1>5, Shapes

-----------------------------------------------------------------------------
(* The list and the target of the scan stay true of the processes.          *)
LEMMA ScanProcs ==
    ASSUME TypeOK, Groups, Listed, Checked, UNCHANGED scan,
           \/ UNCHANGED <<procs, births>>
           \/ SomeHit /\ UNCHANGED births
           \/ \E p \in Pid : Dies(p)
           \/ SomeBegin
    PROVE  Listed' /\ Checked'
<1> USE RecoveryAssumption
<1>0. /\ births \in Nat /\ target.checked \in Nat /\ UNCHANGED <<todo, target, strays>>
      /\ strays \subseteq Pid
      /\ \A o \in todo : o.pid \in Pid /\ o.born \in Nat
      /\ \A p \in Pid : procs[p].born \in Nat
  BY DEF TypeOK, Target, NoTarget, Orphan, Process, scan
<1>1. CASE UNCHANGED <<procs, births>>
  BY <1>0, <1>1 DEF Listed, Checked, Alive
<1>2. CASE SomeHit /\ UNCHANGED births
  <2>1. \A p \in Pid : /\ procs'[p].kind = procs[p].kind
                       /\ procs'[p].group = procs[p].group
                       /\ procs'[p].born = procs[p].born
    BY <1>2, SomeHitEffect
  <2> QED BY <1>0, <1>2, <2>1 DEF Listed, Checked, Alive
<1>3. ASSUME NEW p \in Pid, Dies(p) PROVE Listed' /\ Checked'
  <2>1. /\ \A q \in Pid \ {p} : procs'[q] = procs[q]
        /\ procs'[p].kind = "none" /\ procs'[p].born = 0 /\ births' = births
    BY <1>3, DiesEffect DEF Dies
  <2> QED BY <1>0, <2>1 DEF Listed, Checked, Alive
<1>4. CASE SomeBegin
  <2>1. PICK p \in Pid :
            /\ \A q \in Pid \ {p} : procs'[q] = procs[q]
            /\ births' = births + 1 /\ procs'[p].born = births + 1
    BY <1>4 DEF SomeBegin
  <2>2. Listed'
    BY <1>0, <2>1 DEF Listed, Alive
  <2>3. Checked'
    BY <1>0, <2>1 DEF Checked
  <2> QED BY <2>2, <2>3
<1> QED BY <1>1, <1>2, <1>3, <1>4

LEMMA ScanStep ==
    ASSUME TypeOK, Groups, Listed, Checked, Accounted, [Next]_vars
    PROVE  Listed' /\ Checked'
<1> USE RecoveryAssumption
<1>0. /\ births \in Nat
      /\ \A p \in Pid : procs[p].born \in 0 .. MaxBirth
  BY DEF TypeOK, Process
<1>1. CASE UNCHANGED scan /\ ~Ends
  <2>1. \/ UNCHANGED <<procs, births>>
        \/ SomeHit /\ UNCHANGED births
        \/ \E p \in Pid : Dies(p)
        \/ SomeBegin
    BY <1>1, Shapes
  <2> QED BY <1>1, <2>1, ScanProcs
<1>2. CASE Ends
  <2>1. \A p \in Pid : /\ procs'[p].kind = procs[p].kind
                       /\ procs'[p].group = procs[p].group
                       /\ procs'[p].born = procs[p].born
    BY <1>2, EndsEffect
  <2>2. todo' = {} /\ target' = NoTarget /\ strays' = {} /\ births' = births
    BY <1>2 DEF Ends
  <2>3. \A p \in Pid : procs[p].kind = "stranger" => procs[p].group # 0
    BY DEF Groups
  <2> QED BY <1>0, <2>1, <2>2, <2>3 DEF Listed, Checked, NoTarget
<1>3. CASE ListOurXray
  <2>1. /\ \A o \in todo' : o.pid \in Pid /\ o.born = procs[o.pid].born
                            /\ procs[o.pid].kind \in {"xray", "helper"}
        /\ UNCHANGED <<procs, births, target, strays>>
    BY <1>3 DEF ListOurXray, IsOrphan
  <2>2. Checked'
    BY <2>1 DEF Checked
  <2> QED BY <1>0, <2>1, <2>2 DEF Listed, Alive
<1>4. ASSUME NEW o \in todo, Check(o) PROVE Listed' /\ Checked'
  <2>1. o.pid \in Pid /\ todo' = todo \ {o} /\ UNCHANGED <<procs, births, strays>> /\ strays = {}
    BY <1>4 DEF Check, TypeOK, Orphan
  <2>2. Listed'
    BY <2>1 DEF Listed, Alive
  <2>3. CASE ~(Alive(o.pid) /\ procs[o.pid].born = o.born)
    BY <1>4, <2>1, <2>2, <2>3 DEF Check, Checked
  <2>4. CASE Alive(o.pid) /\ procs[o.pid].born = o.born
    <3>1. target'.pid = o.pid /\ target'.checked = births
      BY <1>4, <2>4 DEF Check
    <3>2. procs[o.pid].kind \in {"xray", "helper"}
      BY <2>4 DEF Listed
    <3> QED BY <1>0, <2>1, <2>2, <3>1, <3>2 DEF Checked, Groups
  <2> QED BY <2>3, <2>4
<1>5. CASE /\ UNCHANGED <<todo, births>> /\ target' = NoTarget /\ strays' = {}
           /\ UNCHANGED procs \/ SomeHit
  <2>1. \A p \in Pid : /\ procs'[p].kind = procs[p].kind
                       /\ procs'[p].group = procs[p].group
                       /\ procs'[p].born = procs[p].born
    BY <1>5, SomeHitEffect
  <2>2. \A p \in Pid : procs[p].kind = "stranger" => procs[p].group # 0
    BY DEF Groups
  <2>3. \A o \in todo : o.pid \in Pid
    BY DEF TypeOK, Orphan
  <2> QED BY <1>0, <1>5, <2>1, <2>2, <2>3 DEF Listed, Checked, NoTarget, Alive
<1>6. CASE Terminate \/ Kill
  <2>1. SomeHit /\ births' = births /\ strays = {}
    BY <1>6, ScanHit DEF Terminate, Kill, SomeHit, TypeOK
  <2>2. UNCHANGED scan \/ (UNCHANGED <<todo, strays>> /\ target' = NoTarget)
    BY <1>6 DEF Terminate, Kill, Return
  <2> QED BY <1>5, <2>1, <2>2, ScanProcs DEF scan
<1>7. CASE IsGone \/ Interrupted \/ SweepEnds
  BY <1>5, <1>7 DEF IsGone, Interrupted, SweepEnds, Return, TypeOK
<1>13. CASE ListStrays
  <2>1. UNCHANGED <<procs, births, todo, target>> /\ strays' \subseteq Members(target.pid)
    BY <1>13 DEF ListStrays
  <2>2. \A q \in strays' : procs[q].kind = "stranger" => procs[q].born > target.checked
    BY <2>1 DEF Checked, Members
  <2> QED BY <2>1, <2>2 DEF Listed, Checked, Alive
<1>14. ASSUME NEW p \in strays, KillStray(p) PROVE Listed' /\ Checked'
  <2>1. SomeHit /\ UNCHANGED <<births, todo, target>> /\ strays' = strays \ {p}
    BY <1>14, ScanHit DEF KillStray, SomeHit
  <2>2. \A q \in Pid : /\ procs'[q].kind = procs[q].kind
                       /\ procs'[q].group = procs[q].group
                       /\ procs'[q].born = procs[q].born
    BY <2>1, SomeHitEffect
  <2>3. strays \subseteq Pid /\ \A o \in todo : o.pid \in Pid
    BY DEF TypeOK, Orphan
  <2>4. Listed'
    BY <2>1, <2>2, <2>3 DEF Listed, Alive
  <2>5. Checked'
    BY <2>1, <2>2, <2>3 DEF Checked
  <2> QED BY <2>4, <2>5
<1>8. CASE UNCHANGED vars
  BY <1>8, ScanProcs DEF vars, daemon
<1>9. CASE \/ SignalArrives \/ FileSpoils \/ Start \/ ScanEnds \/ Deadline \/ Load \/ Reset
           \/ Listen \/ TunnelMoves \/ ExitIsSeen \/ ShutdownBegins \/ MachineStops
  <2>1. UNCHANGED <<procs, births, scan>>
    BY <1>9 DEF ExitIsSeen, SignalArrives, FileSpoils, Start, ScanEnds, Deadline, Load, Reset,
       Listen, TunnelMoves, ShutdownBegins, MachineStops, daemon
  <2> QED BY <2>1, ScanProcs
<1>10. CASE StopChild
  <2>1. UNCHANGED <<births, scan>>
    BY <1>10 DEF StopChild, Signals
  <2>2. PICK s \in Signal : StopHits(s)
    BY <1>10, StopHit
  <2>3. SomeHit
    BY <2>2 DEF SomeHit, StopHits
  <2> QED BY <2>1, <2>3, ScanProcs
<1>11. ASSUME NEW p \in Pid,
              Dies(p) \/ StrangerBegins(p) \/ Forks(p) \/ Spawn(p) \/ Validates(p)
       PROVE  UNCHANGED scan
  BY <1>11 DEF Dies, StrangerBegins, Forks, Spawn, Validates, daemon
<1>12. CASE Crash \/ ListenFails \/ Exits
  BY <1>2, <1>12 DEF Crash, ListenFails, Exits
<1> QED
  BY <1>1, <1>2, <1>3, <1>4, <1>6, <1>7, <1>8, <1>9, <1>10, <1>11, <1>12, <1>13, <1>14
     DEF Next, StartStep, KillGraceful

-----------------------------------------------------------------------------
(* No orphan gets lost between the list and its SIGKILL.                    *)
LEMMA AccountedProcs ==
    ASSUME TypeOK, Accounted, UNCHANGED <<at, todo, target, cut>>,
           \/ UNCHANGED <<procs, births>>
           \/ SomeHit /\ UNCHANGED births
           \/ \E p \in Pid : Dies(p)
           \/ SomeBegin
    PROVE  Accounted'
<1>1. CASE UNCHANGED <<procs, births>>
  BY <1>1 DEF Accounted, Pending, IsOrphan
<1>2. CASE SomeHit /\ UNCHANGED births
  <2>1. \A p \in Pid : /\ procs'[p].kind = procs[p].kind
                       /\ procs'[p].own = procs[p].own
                       /\ procs'[p].born = procs[p].born
                       /\ procs[p].sig = "kill" => procs'[p].sig = "kill"
    BY <1>2, SomeHitEffect
  <2> QED BY <2>1 DEF Accounted, Pending, IsOrphan
<1>3. ASSUME NEW p \in Pid, Dies(p) PROVE Accounted'
  <2>1. /\ \A q \in Pid \ {p} : procs'[q] = procs[q]
        /\ procs'[p].kind = "none"
    BY <1>3, DiesEffect
  <2> QED BY <2>1 DEF Accounted, Pending, IsOrphan
<1>4. CASE SomeBegin
  <2>1. PICK p \in Pid :
            /\ \A q \in Pid \ {p} : procs'[q] = procs[q]
            /\ procs'[p].kind = "xray" => procs'[p].own
    BY <1>4 DEF SomeBegin
  <2> QED BY <2>1 DEF Accounted, Pending, IsOrphan
<1> QED BY <1>1, <1>2, <1>3, <1>4

LEMMA AccountedStep ==
    ASSUME TypeOK, Groups, Accounted, [Next]_vars
    PROVE  Accounted'
<1> USE RecoveryAssumption
<1>1. CASE UNCHANGED <<at, todo, target, cut>> /\ ~Ends
  <2>1. \/ UNCHANGED <<procs, births>>
        \/ SomeHit /\ UNCHANGED births
        \/ \E p \in Pid : Dies(p)
        \/ SomeBegin
    BY <1>1, Shapes
  <2> QED BY <1>1, <2>1, AccountedProcs
<1>2. CASE Ends
  BY <1>2 DEF Ends, Accounted, Scanning
<1>3. CASE Start \/ ShutdownBegins
  BY <1>3 DEF Start, ShutdownBegins, scan, Accounted, Scanning
<1>4. CASE ListOurXray
  <2>1. UNCHANGED <<procs, target>> /\ at' = "check"
    BY <1>4 DEF ListOurXray, Go
  <2>2. cut' \/ \A p \in Pid : IsOrphan(p) =>
                   [pid |-> p, born |-> procs[p].born, leads |-> TRUE] \in todo'
    <3>1. \A p \in Pid : IsOrphan(p) => procs[p].group = p
      BY DEF IsOrphan, Groups
    <3> QED BY <1>4, <3>1 DEF ListOurXray
  <2> QED BY <2>1, <2>2 DEF Accounted, Pending, IsOrphan, Scanning
<1>5. ASSUME NEW o \in todo, Check(o) PROVE Accounted'
  <2>0. /\ o.pid \in Pid /\ o = [pid |-> o.pid, born |-> o.born, leads |-> o.leads]
        /\ todo' = todo \ {o} /\ UNCHANGED <<procs, cut>>
        /\ at = "check" /\ at' \in Scanning
    BY <1>5 DEF TypeOK, Orphan, Check, Go, Scanning
  <2>1. SUFFICES ASSUME ~cut, NEW p \in Pid, IsOrphan(p) PROVE Pending(p)'
    BY <2>0 DEF Accounted, IsOrphan
  <2>2. procs[p].sig = "kill" \/ [pid |-> p, born |-> procs[p].born, leads |-> TRUE] \in todo
    BY <2>0, <2>1 DEF Accounted, Pending
  <2>3. CASE [pid |-> p, born |-> procs[p].born, leads |-> TRUE] = o
    <3>1. Alive(o.pid) /\ procs[o.pid].born = o.born /\ o.pid = p
      BY <2>1, <2>3 DEF Alive, IsOrphan
    <3> QED BY <1>5, <3>1 DEF Check, Go, Pending
  <2>4. CASE [pid |-> p, born |-> procs[p].born, leads |-> TRUE] # o
    BY <2>0, <2>2, <2>4 DEF Pending
  <2> QED BY <2>3, <2>4
<1>6. CASE ScanEnds
  BY <1>6 DEF ScanEnds, scan, Go, Accounted, Pending, IsOrphan, Scanning
<1>16. \A p \in Pid : IsOrphan(p) /\ target.pid = p => p \in Victims
  BY DEF IsOrphan, Groups, Victims, Reached, Single, Members, Alive
<1>7. CASE Terminate
  <2>1. /\ \A p \in Pid : /\ procs'[p].kind = procs[p].kind
                          /\ procs'[p].own = procs[p].own
                          /\ procs'[p].born = procs[p].born
                          /\ procs[p].sig = "kill" => procs'[p].sig = "kill"
        /\ UNCHANGED <<todo, cut>> /\ at = "term" /\ at' \in Scanning
    <3>1. SomeHit
      BY <1>7, ScanHit DEF SomeHit
    <3> QED BY <1>7, <3>1, SomeHitEffect DEF Terminate, Return, Go, scan, Scanning
  <2>2. CASE Victims = {}
    <3>1. \A p \in Pid : IsOrphan(p) => target.pid # p
      BY <1>16, <2>2
    <3> QED BY <2>1, <3>1 DEF Accounted, Pending, IsOrphan, Scanning
  <2>3. CASE Victims # {}
    <3>1. target' = target /\ at' = "poll"
      BY <1>7, <2>3 DEF Terminate, scan, Go
    <3> QED BY <2>1, <3>1 DEF Accounted, Pending, IsOrphan, Scanning
  <2> QED BY <2>2, <2>3
<1>8. CASE Kill
  <2>1. /\ \A p \in Pid : /\ procs'[p].kind = procs[p].kind
                          /\ procs'[p].own = procs[p].own
                          /\ procs'[p].born = procs[p].born
                          /\ procs[p].sig = "kill" => procs'[p].sig = "kill"
        /\ UNCHANGED <<todo, cut>> /\ at = "kill" /\ at' \in Scanning
    <3>1. SomeHit
      BY <1>8, ScanHit DEF SomeHit
    <3> QED BY <1>8, <3>1, SomeHitEffect DEF Kill, Return, Go, scan, Scanning
  <2>2. \A p \in Pid : p \in Victims => procs'[p].sig = "kill"
    <3>1. \A p \in Pid : procs[p] \in Process
      BY DEF TypeOK
    <3>2. \A p \in Pid : p \in Victims /\ procs[p].sig # "kill" =>
              procs'[p] = [procs[p] EXCEPT !.sig = "kill"]
      BY <1>8 DEF Kill, Hit
    <3> QED BY <2>1, <3>1, <3>2 DEF Process
  <2> QED BY <1>16, <2>1, <2>2 DEF Accounted, Pending, IsOrphan, Scanning
<1>9. ASSUME NEW q \in strays, KillStray(q) PROVE Accounted'
  <2>1. SomeHit /\ UNCHANGED <<at, todo, target, cut, births>>
    BY <1>9, ScanHit DEF KillStray, SomeHit
  <2> QED BY <2>1, AccountedProcs
<1>17. CASE ListStrays \/ SweepEnds
  BY <1>17 DEF ListStrays, SweepEnds, Return, Go, Accounted, Pending, IsOrphan, Scanning
<1>10. CASE IsGone
  <2>1. \A p \in Pid : IsOrphan(p) => target.pid # p
    BY <1>10 DEF IsGone, IsOrphan, Alive
  <2> QED BY <1>10, <2>1 DEF IsGone, Return, Go, Accounted, Pending, IsOrphan, Scanning
<1>11. CASE Interrupted
  BY <1>11 DEF Interrupted, Return, Go, Accounted, Scanning
<1>12. CASE Deadline
  BY <1>12 DEF Deadline, scan, Go, Accounted, Pending, IsOrphan, Scanning
<1>13. CASE Load \/ Reset \/ Listen
  BY <1>13 DEF Load, Reset, Listen, scan, Go, Accounted, Pending, IsOrphan, Scanning
<1>14. CASE \/ UNCHANGED vars \/ SignalArrives \/ FileSpoils \/ TunnelMoves \/ StopChild
            \/ ExitIsSeen \/ MachineStops
            \/ \E p \in Pid : Dies(p) \/ StrangerBegins(p) \/ Forks(p) \/ Spawn(p) \/ Validates(p)
  <2>1. UNCHANGED <<at, todo, target, cut>>
    BY <1>14 DEF vars, daemon, SignalArrives, FileSpoils, TunnelMoves, StopChild, Signals,
       ExitIsSeen, MachineStops, scan, Dies, StrangerBegins, Forks, Spawn, Validates
  <2> QED BY <1>1, <1>2, <2>1
<1>15. CASE Crash \/ ListenFails \/ Exits
  BY <1>2, <1>15 DEF Crash, ListenFails, Exits
<1> QED
  BY <1>3, <1>4, <1>5, <1>6, <1>7, <1>8, <1>9, <1>10, <1>11, <1>12, <1>13, <1>14, <1>15,
     <1>17 DEF Next, StartStep, KillGraceful

-----------------------------------------------------------------------------
(* state.json holds the tunnel's state, or could not be written.            *)
LEMMA SavedStep ==
    ASSUME TypeOK, Saved, [Next]_vars
    PROVE  Saved'
<1>1. CASE Ends
  BY <1>1 DEF Ends, Saved
<1>2. CASE Reset
  BY <1>2 DEF Reset, Save, Go, tunnel, TypeOK, Saved
<1>3. CASE TunnelMoves
  BY <1>3 DEF TunnelMoves, Save, disk, Saved
<1>4. CASE ShutdownBegins \/ MachineStops \/ Start \/ FileSpoils \/ ListOurXray \/ ScanEnds
           \/ KillGraceful \/ Load \/ (\E o \in todo : Check(o))
  <2>1. at' \notin {"bind", "serving"}
    BY <1>4 DEF ShutdownBegins, MachineStops, Start, FileSpoils, ListOurXray, ScanEnds, Load, Check,
       KillGraceful, Terminate, IsGone, Interrupted, Deadline, Kill, ListStrays,
       KillStray, SweepEnds, Return, Go, daemon
  <2> QED BY <2>1 DEF Saved
<1>5. CASE \/ UNCHANGED vars \/ SignalArrives \/ StopChild \/ ExitIsSeen
           \/ \E p \in Pid : Dies(p) \/ StrangerBegins(p) \/ Forks(p) \/ Spawn(p) \/ Validates(p)
  <2>1. UNCHANGED <<at, conn, file, unsaved>>
    BY <1>5 DEF vars, daemon, disk, tunnel, SignalArrives, StopChild, Signals, ExitIsSeen, Dies,
       StrangerBegins, Forks, Spawn, Validates
  <2> QED BY <2>1 DEF Saved
<1>6. CASE Listen
  BY <1>6 DEF Listen, Go, tunnel, disk, Saved
<1>7. CASE Crash \/ ListenFails \/ Exits
  BY <1>1, <1>7 DEF Crash, ListenFails, Exits
<1> QED BY <1>2, <1>3, <1>4, <1>5, <1>6, <1>7 DEF Next, StartStep

(* A signal of the scan hits a stranger only if that came after the guard,  *)
(* one of a Stop only if that came after the child was reaped.              *)
LEMMA HarmlessStep ==
    ASSUME TypeOK, Groups, Checked, ChildLives, Family, OnlyOursSignalled, [Next]_vars
    PROVE  OnlyOursSignalled'
<1>1. CASE UNCHANGED harmed
  BY <1>1 DEF OnlyOursSignalled
<1>2. CASE SomeHit
  <2>1. PICK ps \in SUBSET Pid, s \in Signal :
            ScanHits(ps, s) \/ (ps = Reached(child.pid) /\ StopHits(s))
    BY <1>2 DEF SomeHit
  <2>2. CASE ScanHits(ps, s)
    <3>1. SUFFICES ASSUME NEW p \in ps, procs[p].kind = "stranger"
                   PROVE  procs[p].born > target.checked
      BY <2>2 DEF ScanHits, Hit, OnlyOursSignalled
    <3>2. p \in Pid /\ (procs[p].group = target.pid \/ p = target.pid \/ p \in strays)
      BY <2>2 DEF ScanHits
    <3>3. procs[p].group = p
      BY <3>1, <3>2 DEF Groups
    <3> QED BY <3>1, <3>2, <3>3 DEF Checked
  <2>3. CASE ps = Reached(child.pid) /\ StopHits(s)
    <3> DEFINE since == IF child.freed = 0 THEN births ELSE child.freed
    <3>1. Hit(ps, s, since) /\ child.pid # 0
      BY <2>3, RecoveryAssumption DEF StopHits
    <3>2. SUFFICES ASSUME NEW p \in ps, procs[p].kind = "stranger"
                   PROVE  procs[p].born > since
      BY <3>1 DEF Hit, OnlyOursSignalled
    <3>3. p \in Pid /\ Alive(p) /\ procs[p].group = child.pid
      BY <2>3 DEF Reached, Members
    <3> QED BY <3>1, <3>2, <3>3 DEF Family
  <2> QED BY <2>1, <2>2, <2>3
<1>3. CASE \E p \in Pid : Dies(p)
  BY <1>1, <1>3 DEF Dies
<1>4. CASE SomeBegin
  BY <1>1, <1>4 DEF SomeBegin
<1>5. CASE Ends
  BY <1>1, <1>5 DEF Ends
<1> QED BY <1>1, <1>2, <1>3, <1>4, <1>5, Shapes

-----------------------------------------------------------------------------
(* The inductive invariant holds in every reachable state.                  *)
THEOREM Invariant == Spec => []IInv
<1>1. IInv /\ [Next]_vars => IInv'
  BY TypeStep, ProcessStep, ScanStep, AccountedStep, SavedStep, HarmlessStep DEF IInv
<1> QED BY Initial, <1>1, PTL DEF Spec

(* Type correctness: also that a daemon which does not serve has neither a  *)
(* tunnel nor a child nor a process of its own.                             *)
THEOREM TypeCorrect == Spec => []TypeOK
<1>1. IInv => TypeOK
  BY DEF IInv
<1> QED BY Invariant, <1>1, PTL

(* A daemon that binds its socket, or serves, has sent a SIGKILL to every   *)
(* orphan of earlier runs unless its scan was cut short, and state.json is  *)
(* the state of its tunnel unless the last write failed.                    *)
THEOREM StartsClean == Spec => []CleanStart
<1>1. IInv => CleanStart
  <2> SUFFICES ASSUME IInv, at \in {"bind", "serving"} PROVE CleanStart
    BY DEF CleanStart
  <2>1. todo = {} /\ (cut \/ \A p \in Pid : IsOrphan(p) => Pending(p))
    BY DEF IInv, Accounted, Scanning
  <2>2. cut \/ \A p \in Pid : IsOrphan(p) => procs[p].sig = "kill"
    BY <2>1 DEF Pending
  <2>3. unsaved \/ file = conn
    BY DEF IInv, Saved
  <2> QED BY <2>2, <2>3 DEF CleanStart
<1> QED BY Invariant, <1>1, PTL

(* The scan signals a process that is not the daemon's only if it took its  *)
(* pid after the guard had looked, and a Stop only after the child had been *)
(* reaped: these two windows are all there is.                              *)
THEOREM GuardHolds == Spec => []OnlyOursSignalled
<1>1. IInv => OnlyOursSignalled
  BY DEF IInv
<1> QED BY Invariant, <1>1, PTL

-----------------------------------------------------------------------------
(* Supervisor.Stop signals a group by the number of its leader's pid, also  *)
(* when that has been reaped (Stop, Setpgid): whom it reaches, be it an     *)
(* orphan, a stranger or another program's process, is of this run, or was  *)
(* started after the child had been reaped and its number was free.         *)
StopReachesOwn ==
    [][StopChild => \A p \in Reached(child.pid) :
           procs[p].own \/ (child.freed # 0 /\ procs[p].born > child.freed)]_vars

THEOREM StopStaysHome == Spec => StopReachesOwn
<1>1. IInv /\ [Next]_vars =>
          [StopChild => \A p \in Reached(child.pid) :
               procs[p].own \/ (child.freed # 0 /\ procs[p].born > child.freed)]_vars
  <2> SUFFICES ASSUME IInv, StopChild, NEW p \in Reached(child.pid)
               PROVE  procs[p].own \/ (child.freed # 0 /\ procs[p].born > child.freed)
    OBVIOUS
  <2>1. child.pid # 0
    BY DEF StopChild
  <2>2. p \in Pid /\ Alive(p) /\ procs[p].group = child.pid
    BY DEF Reached, Members
  <2> QED BY <2>1, <2>2 DEF IInv, Family
<1> QED BY Invariant, <1>1, PTL DEF Spec, StopReachesOwn
=============================================================================

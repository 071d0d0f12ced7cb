------------------------------ MODULE Recovery ------------------------------
(***************************************************************************)
(* The life of the daemon (daemon/cmd/xrayd): start, scan for the orphans  *)
(* of earlier runs, reset of state.json, service, shutdown, and a crash at *)
(* any moment; with the processes of the machine, which die when they      *)
(* like, whose pids are used again, and which outlive the daemon.          *)
(*                                                                         *)
(* The tunnel is modelled as TunnelService promises it, with the child it  *)
(* spawns and the file that each of its states is saved in. Every xray of  *)
(* the daemon leads a group of its own (Setpgid) and is sent a SIGTERM     *)
(* when the daemon dies (Pdeathsig), which it may ignore. The health       *)
(* monitor, the IPC server and systemd are left out: a start is an         *)
(* operator's or systemd's, and nothing kills an orphan but the scan.      *)
(***************************************************************************)
EXTENDS Integers

CONSTANTS
    Pid,
    ConfigID, NoConfig,
    MaxBirth    \* bound on the processes that are started

ASSUME RecoveryAssumption ==
    /\ 0 \notin Pid
    /\ NoConfig \notin ConfigID
    /\ MaxBirth \in Nat

VARIABLES
    procs,      \* the process of each pid
    births,     \* number of processes started: a process's starttime is its number
    at,         \* where the daemon is; "down" if it does not run
    found,      \* xrayInfo.Found
    todo,       \* the orphans that the scan has still to see to
    target,     \* the one it sees to, with the number of births when it was checked
    strays,     \* the pids that the sweep of its group has still to kill
    child,      \* supervisor.Child of the current attempt, and its Stop
    signalled,  \* appCtx is done
    file,       \* state.json
    conn, next, stopping,   \* the tunnel
    cut,        \* history: this run's scan has not seen to every orphan
    unsaved,    \* history: the last Save failed
    harmed      \* history: processes not of the daemon that a signal hit

scan   == <<todo, target, strays>>
tunnel == <<conn, next, stopping>>
daemon == <<at, found, scan, child, signalled, tunnel, cut>>
disk   == <<file, unsaved>>
vars   == <<procs, births, daemon, disk, harmed>>

Service == INSTANCE TunnelService

Absent == Service!Status("absent", NoConfig)
Spoilt == Service!Status("corrupt or too new", NoConfig)

ConnState == {"Disconnected", "Validating", "Connecting", "Connected", "Disconnecting", "Error"}
Conn      == [state : ConnState, configID : ConfigID \cup {NoConfig}]

Scanning == {"check", "term", "poll", "kill", "sweep", "strays"}
Starting == {"list"} \cup Scanning \cup {"load", "reset", "bind"}
Stage    == {"down", "serving", "stopping"} \cup Starting

(* A helper is what an xray forks; a stranger may be signalled by the       *)
(* daemon's user, a foreign process may not.                                *)
Kind    == {"none", "xray", "helper", "stranger", "foreign"}
Signal  == {"none", "term", "kill"}
Process == [kind : Kind, born : 0 .. MaxBirth, group : Pid \cup {0}, own : BOOLEAN,
            sig : Signal]
(* leads: the process leads a group, which is then signalled as a whole.    *)
Orphan  == [pid : Pid, born : 0 .. MaxBirth, leads : BOOLEAN]
NoTarget == [pid |-> 0, checked |-> 0, leads |-> FALSE]
Target  == [pid : Pid, checked : 0 .. MaxBirth, leads : BOOLEAN] \cup {NoTarget}

(* freed: the number of births when the child was reaped, and its number    *)
(* free for others, 0 before; exited: ExitC is closed; stop: what Stop has  *)
(* sent.                                                                    *)
Child   == [pid : Pid \cup {0}, freed : 0 .. MaxBirth, exited : BOOLEAN, stop : Signal]

Nobody   == [kind |-> "none", born |-> 0, group |-> 0, own |-> FALSE, sig |-> "none"]
NoChild  == [pid |-> 0, freed |-> 0, exited |-> FALSE, stop |-> "none"]

Init ==
    /\ procs = [p \in Pid |-> Nobody] /\ births = 0
    /\ at = "down" /\ found = FALSE
    /\ todo = {} /\ target = NoTarget /\ strays = {}
    /\ child = NoChild /\ signalled = FALSE
    /\ file = Absent
    /\ Service!Init
    /\ cut = FALSE /\ unsaved = FALSE /\ harmed = {}

-----------------------------------------------------------------------------
(* Processes. *)

Alive(p) == procs[p].kind # "none"
Members(g) == {p \in Pid : Alive(p) /\ procs[p].group = g}

(* An xray of an earlier run.                                               *)
IsOrphan(p) == procs[p].kind = "xray" /\ ~procs[p].own

(* A pid is free when no group has its number either.                       *)
Begin(p, kind, group, own) ==
    /\ ~Alive(p) /\ Members(p) = {}
    /\ births < MaxBirth
    /\ births' = births + 1
    /\ procs' = [procs EXCEPT ![p] = [kind |-> kind, born |-> births + 1, group |-> group,
                                      own |-> own, sig |-> "none"]]

(* Whom kill(2) reaches, for a daemon that is not root: a group, a process. *)
Reached(g) == {p \in Members(g) : procs[p].kind # "foreign"}
Single(p)  == {q \in {p} : Alive(q) /\ procs[q].kind # "foreign"}

(* since: the number of births when the sender knew whose the number was.   *)
Hit(ps, s, since) ==
    /\ procs' = [p \in Pid |-> IF p \in ps /\ procs[p].sig # "kill"
                               THEN [procs[p] EXCEPT !.sig = s] ELSE procs[p]]
    /\ harmed' = harmed \cup {[born |-> procs[p].born, checked |-> since] :
                                  p \in {q \in ps : procs[q].kind = "stranger"}}

(* A process exits and is reaped; the goroutine of its Child is not yet     *)
(* done.                                                                    *)
Dies(p) ==
    /\ Alive(p)
    /\ procs' = [procs EXCEPT ![p] = Nobody]
    /\ child' = IF child.pid = p /\ child.freed = 0 THEN [child EXCEPT !.freed = births]
                ELSE child
    /\ UNCHANGED <<births, at, found, scan, signalled, tunnel, cut, disk, harmed>>

StrangerBegins(p) ==
    /\ \E kind \in {"stranger", "foreign"} : Begin(p, kind, p, FALSE)
    /\ UNCHANGED <<daemon, disk, harmed>>

Forks(p) ==
    /\ \E leader \in Pid :
          procs[leader].kind = "xray" /\ Begin(p, "helper", leader, procs[leader].own)
    /\ UNCHANGED <<daemon, disk, harmed>>

-----------------------------------------------------------------------------
(* The end of a run: its processes are on their own. *)

Orphaned ==
    [p \in Pid |-> IF procs[p].kind = "xray" /\ procs[p].own /\ procs[p].sig = "none"
                   THEN [procs[p] EXCEPT !.own = FALSE, !.sig = "term"]
                   ELSE [procs[p] EXCEPT !.own = FALSE]]

(* Mutant: the next run goes on from the state the tunnel was in.           *)
Ends_KeepsTunnel ==
    /\ procs' = Orphaned
    /\ at' = "down" /\ found' = FALSE
    /\ todo' = {} /\ target' = NoTarget /\ strays' = {}
    /\ child' = NoChild /\ signalled' = FALSE /\ cut' = FALSE
    /\ UNCHANGED <<births, disk, harmed, tunnel>>

Ends ==
    /\ procs' = Orphaned
    /\ at' = "down" /\ found' = FALSE
    /\ todo' = {} /\ target' = NoTarget /\ strays' = {}
    /\ child' = NoChild /\ signalled' = FALSE /\ cut' = FALSE
    /\ conn' = Service!Status("Disconnected", NoConfig)
    /\ next' = NoConfig /\ stopping' = FALSE
    /\ UNCHANGED <<births, disk, harmed>>

Crash == at # "down" /\ Ends

(* main is told to stop; it looks only when it serves, the scan earlier.    *)
SignalArrives ==
    /\ at # "down" /\ ~signalled
    /\ signalled' = TRUE
    /\ UNCHANGED <<procs, births, at, found, scan, child, tunnel, cut, disk, harmed>>

(* A downgrade, or a hand at the file.                                      *)
FileSpoils ==
    /\ at = "down" /\ file # Spoilt
    /\ file' = Spoilt
    /\ UNCHANGED <<procs, births, daemon, unsaved, harmed>>

-----------------------------------------------------------------------------
(* The start, up to the scan. *)

Go(stage) == at' = stage /\ UNCHANGED <<found, child, signalled, tunnel>>

Start ==
    /\ at = "down"
    /\ at' = "list"
    /\ found' \in BOOLEAN
    /\ UNCHANGED <<procs, births, scan, child, signalled, tunnel, cut, disk, harmed>>

(* A process counts only when it runs xray for this user over configsDir:   *)
(* every orphan does, and what it has forked may still do. Without the      *)
(* user, or without /proc, the list stays empty.                            *)
ListOurXray ==
    /\ at = "list"
    /\ \/ /\ \E forked \in SUBSET {p \in Pid : procs[p].kind = "helper" /\ ~procs[p].own} :
                 todo' = {[pid |-> p, born |-> procs[p].born, leads |-> procs[p].group = p] :
                             p \in forked \cup {q \in Pid : IsOrphan(q)}}
          /\ UNCHANGED cut
       \/ /\ todo' = {}
          /\ cut' = TRUE
    /\ UNCHANGED <<target, strays>>
    /\ Go("check")
    /\ UNCHANGED <<procs, births, disk, harmed>>

(* Mutant: no second look at the process before it is signalled.            *)
Check_Skipped(o) ==
    /\ at = "check"
    /\ todo' = todo \ {o}
    /\ target' = [pid |-> o.pid, checked |-> births, leads |-> o.leads]
    /\ Go("term")
    /\ UNCHANGED <<procs, births, strays, cut, disk, harmed>>

(* The guard against the use of the pid by another process since the list.  *)
Check(o) ==
    /\ at = "check"
    /\ todo' = todo \ {o}
    /\ IF Alive(o.pid) /\ procs[o.pid].born = o.born
       THEN /\ target' = [pid |-> o.pid, checked |-> births, leads |-> o.leads]
            /\ Go("term")
       ELSE UNCHANGED target /\ Go("check")
    /\ UNCHANGED <<procs, births, strays, cut, disk, harmed>>

ScanEnds ==
    /\ at = "check" /\ todo = {}
    /\ UNCHANGED scan
    /\ Go("load")
    /\ UNCHANGED <<procs, births, cut, disk, harmed>>

-----------------------------------------------------------------------------
(* killGraceful. *)

Return == target' = NoTarget /\ UNCHANGED <<todo, strays>> /\ Go("check")

Victims == IF target.leads THEN Reached(target.pid) ELSE Single(target.pid)

(* ESRCH and EPERM end it here.                                             *)
Terminate ==
    /\ at = "term"
    /\ Hit(Victims, "term", target.checked)
    /\ IF Victims = {} THEN Return ELSE UNCHANGED scan /\ Go("poll")
    /\ UNCHANGED <<births, cut, disk>>

(* Only the leader, or the process, is asked after.                         *)
IsGone ==
    /\ at = "poll" /\ ~Alive(target.pid)
    /\ Return
    /\ UNCHANGED <<procs, births, cut, disk, harmed>>

Interrupted ==
    /\ at = "poll" /\ signalled
    /\ cut' = TRUE
    /\ Return
    /\ UNCHANGED <<procs, births, disk, harmed>>

(* Mutants: a process that does not obey is left alone; the poll has no end *)
(* but that of the process or of the daemon.                                *)
Deadline_GivesUp ==
    /\ at = "poll"
    /\ Return
    /\ UNCHANGED <<procs, births, cut, disk, harmed>>

Deadline_Never == at = "poll" /\ signalled /\ UNCHANGED scan /\ Go("kill")
                  /\ UNCHANGED <<procs, births, cut, disk, harmed>>

Deadline ==
    /\ at = "poll"
    /\ UNCHANGED scan /\ Go("kill")
    /\ UNCHANGED <<procs, births, cut, disk, harmed>>

(* A group is swept as well, unless the signal was refused.                 *)
Kill ==
    /\ at = "kill"
    /\ Hit(Victims, "kill", target.checked)
    /\ IF target.leads /\ (Victims # {} \/ Members(target.pid) = {})
       THEN UNCHANGED scan /\ Go("sweep") ELSE Return
    /\ UNCHANGED <<births, cut, disk>>

(* procsByPgid: whoever is in the group now, if /proc can be read.          *)
ListStrays ==
    /\ at = "sweep"
    /\ strays' \in {Members(target.pid), {}}
    /\ UNCHANGED <<todo, target>>
    /\ Go("strays")
    /\ UNCHANGED <<procs, births, cut, disk, harmed>>

(* Each is killed by its pid, whoever has that by then.                     *)
KillStray(p) ==
    /\ at = "strays"
    /\ strays' = strays \ {p}
    /\ Hit(Single(p), "kill", target.checked)
    /\ UNCHANGED <<births, at, found, todo, target, child, signalled, tunnel, cut, disk>>

SweepEnds ==
    /\ at = "strays" /\ strays = {}
    /\ Return
    /\ UNCHANGED <<procs, births, cut, disk, harmed>>

KillGraceful ==
    \/ Terminate \/ IsGone \/ Interrupted \/ Deadline \/ Kill
    \/ ListStrays \/ (\E p \in strays : KillStray(p)) \/ SweepEnds

-----------------------------------------------------------------------------
(* state.json, the machine and the socket. *)

(* A file that cannot be used is put aside, if the rename succeeds.         *)
Load ==
    /\ at = "load"
    /\ file' \in IF file = Spoilt THEN {Spoilt, Absent} ELSE {file}
    /\ Go("reset")
    /\ UNCHANGED <<procs, births, scan, cut, unsaved, harmed>>

(* The file is replaced as a whole, or not at all.                          *)
Save(st) ==
    \/ file' = st /\ unsaved' = FALSE
    \/ file' = file /\ unsaved' = TRUE

Reset ==
    /\ at = "reset"
    /\ Save(Service!Status("Disconnected", NoConfig))
    /\ Go("bind")
    /\ UNCHANGED <<procs, births, scan, cut, harmed>>

Listen ==
    /\ at = "bind"
    /\ Go("serving")
    /\ UNCHANGED <<procs, births, scan, cut, disk, harmed>>

ListenFails == at = "bind" /\ Ends

StartStep == ListOurXray \/ (\E o \in todo : Check(o)) \/ ScanEnds \/ KillGraceful
             \/ Load \/ Reset \/ Listen

-----------------------------------------------------------------------------
(* Service: the tunnel and its child, and the xrays that test a config. *)

(* The wait of the Child's goroutine is over, its stderr read: ExitC is     *)
(* closed.                                                                  *)
ExitIsSeen ==
    /\ child.freed # 0 /\ ~child.exited
    /\ child' = [child EXCEPT !.exited = TRUE]
    /\ UNCHANGED <<procs, births, at, found, scan, signalled, tunnel, cut, disk, harmed>>

StopReturned ==
    child.pid # 0 => child.stop = "kill" \/ (child.stop = "term" /\ child.exited)

(* postState after a step of the tunnel. An attempt gets as far as its      *)
(* child, and ends when that has been stopped, an exited one too.           *)
TunnelMoves ==
    /\ at = "serving" /\ found
    /\ Service!Work
    /\ conn'.state = "Connected" => child.pid # 0 /\ child.stop = "none"
    /\ IF conn'.state \in {"Validating", "Disconnected", "Error"}
       THEN StopReturned /\ child' = NoChild ELSE UNCHANGED child
    /\ IF conn' = conn THEN UNCHANGED disk ELSE Save(conn')
    /\ UNCHANGED <<procs, births, at, found, scan, signalled, cut, harmed>>

Spawn(p) ==
    /\ at \in {"serving", "stopping"} /\ conn.state = "Connecting" /\ child.pid = 0
    /\ Begin(p, "xray", p, TRUE)
    /\ child' = [NoChild EXCEPT !.pid = p]
    /\ UNCHANGED <<at, found, scan, signalled, tunnel, cut, disk, harmed>>

Validates(p) ==
    /\ at \in {"serving", "stopping"} /\ found
    /\ Begin(p, "xray", p, TRUE)
    /\ UNCHANGED <<daemon, disk, harmed>>

(* A worker that fails or is cancelled, a teardown, the handler of the exit *)
(* of a connected child, the shutdown.                                      *)
StopIsCalled ==
    \/ at = "serving" /\ conn.state \in {"Connecting", "Disconnecting"}
    \/ at = "serving" /\ conn.state = "Connected" /\ child.exited
    \/ at = "stopping"

(* The signals go to the number of the child's group, whoever has it now.   *)
Signals(s) ==
    /\ child' = [child EXCEPT !.stop = s]
    /\ Hit(Reached(child.pid), s, IF child.freed = 0 THEN births ELSE child.freed)
    /\ UNCHANGED <<births, at, found, scan, signalled, tunnel, cut, disk>>

(* Supervisor.Stop: a SIGTERM in any case, and a SIGKILL unless ExitC is    *)
(* closed by then. It is called once for a child.                           *)
StopChild ==
    /\ child.pid # 0 /\ StopIsCalled
    /\ \/ child.stop = "none" /\ Signals("term")
       \/ child.stop = "term" /\ ~child.exited /\ Signals("kill")

-----------------------------------------------------------------------------
(* Shutdown. *)

ShutdownBegins ==
    /\ at = "serving" /\ signalled
    /\ at' = "stopping"
    /\ stopping' = TRUE
    /\ UNCHANGED <<procs, births, found, scan, child, signalled, conn, next, cut, disk, harmed>>

(* handleShutdown: the armed cleanup is over, and the last state is posted. *)
(* The child of a worker, or of a teardown, is not waited for.              *)
MachineStops ==
    /\ at = "stopping" /\ conn.state # "Disconnected"
    /\ conn.state = "Connected" => StopReturned
    /\ conn' = Service!Status("Disconnected", NoConfig)
    /\ Save(conn')
    /\ UNCHANGED <<procs, births, at, found, scan, child, signalled, next, stopping, cut, harmed>>

(* main returns: the machine has stopped, or its ten seconds are over.      *)
Exits == at = "stopping" /\ Ends

Next ==
    \/ Crash \/ SignalArrives \/ FileSpoils
    \/ Start \/ StartStep \/ ListenFails
    \/ TunnelMoves \/ ExitIsSeen \/ StopChild \/ ShutdownBegins \/ MachineStops \/ Exits
    \/ \E p \in Pid : Dies(p) \/ StrangerBegins(p) \/ Forks(p) \/ Spawn(p) \/ Validates(p)

Spec == Init /\ [][Next]_vars

(* The start goes on by itself: every wait in it has a deadline.            *)
FairSpec == Spec /\ WF_vars(StartStep)

-----------------------------------------------------------------------------
(* The properties. *)

(* The variables have their types; the scan looks at one orphan while it    *)
(* kills; a daemon that does not serve has no tunnel, no child and no       *)
(* process of its own.                                                      *)
TypeOK ==
    /\ procs \in [Pid -> Process] /\ births \in 0 .. MaxBirth
    /\ at \in Stage /\ found \in BOOLEAN
    /\ todo \subseteq Orphan /\ target \in Target /\ strays \subseteq Pid
    /\ child \in Child /\ signalled \in BOOLEAN
    /\ file \in Conn \cup {Absent, Spoilt}
    /\ conn \in Conn /\ next \in ConfigID \cup {NoConfig} /\ stopping \in BOOLEAN
    /\ cut \in BOOLEAN /\ unsaved \in BOOLEAN
    /\ harmed \subseteq [born : 0 .. MaxBirth, checked : 0 .. MaxBirth]
    /\ target # NoTarget <=> at \in Scanning \ {"check"}
    /\ strays # {} => at = "strays"
    /\ at \notin {"serving", "stopping"} =>
          /\ conn = Service!Status("Disconnected", NoConfig) /\ child = NoChild
          /\ \A p \in Pid : ~procs[p].own

(* "recovery scan BEFORE binding socket", "after the scan, the live state   *)
(* is definitively Disconnected" (main.go): from the moment the daemon      *)
(* binds its socket every xray of an earlier run is dead or has been sent a *)
(* SIGKILL, unless the scan was cut short, and state.json holds the state   *)
(* of the tunnel of this run, unless it could not be written.               *)
CleanStart ==
    at \in {"bind", "serving"} =>
        /\ cut \/ \A p \in Pid : IsOrphan(p) => procs[p].sig = "kill"
        /\ unsaved \/ file = conn

(* The "PID-reuse guard" of recoveryScan, and the groups of Supervisor.Stop:*)
(* a process that is not the daemon's is signalled only if it took its pid  *)
(* after the guard had looked at the orphan, or after the child had been    *)
(* reaped; one that took it between the list and the guard is safe, and so  *)
(* is everybody as long as the child lives, in whatever order processes die *)
(* and pids are used again.                                                 *)
OnlyOursSignalled == \A h \in harmed : h.born > h.checked

(* Whatever the orphans do, a start that does not crash comes to serve, or  *)
(* ends because it could not bind: no orphan that ignores its SIGTERM, and  *)
(* no pid that is used again, holds up the daemon.                          *)
StartSettles == at \in Starting ~> at \in {"serving", "down"}
=============================================================================

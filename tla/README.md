# Elepn VPN: a verification development

Elepn VPN is an Electron application that drives a privileged daemon, `xrayd`, which in turn supervises one
`xray-core` child at a time. This directory holds TLA+ models of the parts of it that are concurrent, the TLC
configurations that check them on small instances, and proofs, checked by TLAPS, that the most important
properties hold on every instance. Every definition names, in `PROJECT.json` ("map"), the lines it stands for.

    tlasany M.tla                            # parse
    tlc -workers 2 -config X.cfg MCTunnel    # a run (the module of each is in PROJECT.json)
    tlapm TunnelProofs.tla                   # proofs

## 1. The system

| Part | State it keeps | Operations | Talks to |
|---|---|---|---|
| Tunnel actor `daemon/internal/state` | the Machine fields, owned by one goroutine: status and config, generation, armed cleanup stack, watched child, cancel function, pending switch, auto-revert timer | Connect, Switch, Disconnect, Shutdown; internal commands for progress, results, timer, child exit | workers and cleanups post to its bounded channel; it broadcasts the status, saves `state.json` |
| Supervisor `daemon/internal/supervisor` | the child process, its exit channel, a ring of its stderr | Start, Stop, the two probes | called by workers and by cleanup stacks |
| Persisted state `state/store.go` | `state.json` | Save on every change of the status, Load and Quarantine at start | written by the actor |
| Health monitor `daemon/internal/health` | enabled flag, cancel function of the loop, last status, subscribers | SetEnabled, Probe, the probe loop, Close | handlers, main, the bridge of the IPC server |
| Config registry `daemon/internal/xrayconfig` | a directory of `<ulid>.json` and `.staging` files, the semaphore and the counter of the validations | Add, Validate, Remove, List, Get | handlers; workers of the tunnel |
| Config safety checks `pathsafe.go`, `inboundsafe.go` | none | pure checks of parsed JSON | Add |
| IPC server `daemon/internal/ipc` | listener, live connections, a queue of events per subscriber, a token bucket per connection | accept, serve, dispatch, broadcast, close of slow clients, StopAccept, Close | all of the above |
| Codec and authorisation `ipc/codec.go`, `auth*.go` | none | frames, peer credentials | connections |
| Daemon lifecycle `daemon/cmd/xrayd` | none of its own | start sequence, scan for orphaned children, shutdown sequence | all of the above, systemd |
| Error catalogue, discovery of xray `derr`, `platform` | none | | |
| Daemon client `app/.../daemon-client.ts` | socket, receive buffer, pending calls with timers, heartbeat, back-off | connect, call, reconnect, disconnect | the IPC server |
| App store and engine `app/.../app-store.ts`, `mock-engine.ts` | snapshot, engine timers | commands of the renderer, events of the engine | renderer, preferences |
| Preferences `prefs-store.ts` | snapshot, dirty flag, debounce timer, write underway | set, flush, flushSync at quit | file system |
| Parser and builder `parse-url.ts`, `config-builder.ts` | none | pure conversions | app |
| Renderer | presentation of snapshots | | app store |

**What is hard in it.** The actor itself is sequential; what is hard is that everything slow runs elsewhere and
reports back late: results of cancelled attempts, teardowns that overlap with requests, a child that dies between a
probe and the handling of its result, a timer that fires while it is being stopped, a shutdown that overtakes all of
these. SetEnabled, its loop and main's shutdown share a monitor. Handlers of several connections check the registry,
the limiter and the tunnel in one step and act on the answer in a later one. An event passes two bounded channels and
three goroutines on its way to a client that may not read. A crash leaves processes that ignore their signal, and pids
that others take. The client's connection ends in several ways while calls, pings and half a line are underway. The full list is "hazards" in
`PROJECT.json`, each with its line and the properties that would catch it.

**What makes each part correct.**
* Tunnel: one child at a time; no child while Disconnected or Error is shown; the last accepted request is what is
  served; every operation settles, an Error reverts, a dead child is noticed, Shutdown returns, no goroutine leaks.
* Health: one live loop; the flag, the cancel function and the loop agree; SetEnabled never blocks; Close ends every
  loop; lost events heal.
* Registry: only accepted configs are published; permits, places and staging files are given back on every way out; the
  cap is not exceeded without bound; the config of the tunnel is not removed; every call ends.
* IPC: a client receives every event from its subscription on, statuses in order, or its connection is closed; a slow
  client delays nobody; no connection and no goroutine survives Close.
* Lifecycle: after any crash the next start deals with every orphan before it serves, signals nobody else, does not
  hang, and records Disconnected.
* Client: every call is settled once, by its answer or by a failure; heartbeats and bytes belong to one connection.
* Preferences (not modelled): what was set last is what the file holds after a quit.

## 2. The modules

| Module | Stands for | Composed with |
|---|---|---|
| `Tunnel` | `state/machine.go`, `handlers.go`, `connect_worker.go`, `cleanup.go`, `auto_revert.go`, `api.go`; Start, Stop and the probes of the supervisor | |
| `TunnelService` | what the tunnel promises to a client (abstract) | implemented by `Tunnel` |
| `TunnelProofs`, `TunnelRefinement` | theorems about `Tunnel` | |
| `Health` | `health/health.go`, the bridge of `ipc/server.go`, the end of `main.go` | |
| `HealthService` | what the monitor promises to those who switch it (abstract) | implemented by `Health` |
| `HealthProofs` | theorems about `Health`, its refinement of `HealthService` | |
| `Configs` | `xrayconfig/store.go`, `validate.go`, their handlers in `ipc/methods.go` | `TunnelService`, as the tunnel whose config must not be removed |
| `Registry` | what the registry promises to those who list, connect and remove (abstract) | implemented by `Configs` |
| `ConfigsProofs` | theorems about `Configs`, its refinement of `Registry` | |
| `Ipc` | `ipc/server.go`, `subscribers.go`, the requests of `methods.go` by what they do to the connection, `Subscribers` of `state/api.go`, the end of `main.go` | |
| `EventStream` | what a client is promised of the State.Changed events (abstract) | implemented by `Ipc` |
| `IpcProofs`, `StreamProofs` | theorems about `Ipc`; those that need its connections one by one, and its refinement of `EventStream` | |
| `Client` | `daemon-client.ts` and the daemon as it sees it | |
| `CallService` | what the application is promised of its calls (abstract) | implemented by `Client` |
| `ClientProofs` | theorems about `Client`, its refinement of `CallService` | |
| `Recovery` | `cmd/xrayd/main.go`, `recovery.go`, `state/store.go`, Start and Stop of the supervisor | `TunnelService`, as the tunnel whose state is saved and whose child may be orphaned |
| `RecoveryProofs` | theorems about `Recovery` | |
| `MCTunnel`, `MCHealth`, `MCConfigs`, `MCIpc`, `MCClient`, `MCRecovery` | instances for TLC | |

Definitions named `X_Y` that stand just before `X` are mutants of `X`: plausible errors, used to make sure that each
property can fail.

### Tunnel

The variables are the Machine's fields by name. `cmds` is the channel, a FIFO of at most `MaxCmds` commands; a post waits for
room or for the Machine's context (`PostOrDrop`). Each handler is an action of the actor, taken when its command is at
the head: `HandleConnect`, `HandleSwitch`, `HandleDisconnect` and so on; the child's exit channel is a second input of
the actor's `select` (`HandleChildExit`). Each wait of a worker is a program point, with the failure of each step and
its cancellation. The worker's deferred clean-up is its point `undo`. A child is named by the generation that started
it. Children die at any time. `Shutdown` goes through the three stages of `api.go`: posted, context cancelled, returned, and
may be abandoned to its own timeout; the drain of the channel is part of the step that ends the actor. `wanted` is
a history variable: what the last accepted request asked for.

Abstracted: GetStatus and IsActive (they change nothing), the save and the broadcast that follow each change of `conn`,
messages, pids, times, the reply channels of requests, contents of configs. A teardown that ends in a queued switch posts
Disconnected and, in the same handler, the Validating of the new attempt (`handlers.go:215-222`): the first of the two, which only the
file and the broadcast see, is left out (`FinishDisconnect`). `KillFails` allows a child to survive SIGKILL, as `Stop` admits.

`TunnelService` has the status, the switch that a teardown is to end in, and whether the daemon is stopping. Under
`next <- pendingSwitchID, stopping <- ~Up`, every step of Tunnel is one of its steps or a stutter.

### Health

`SetEnabled` is split where others can come in between: taking `enableMu` and testing the flag, storing the flag, starting the loop or cancelling
it, committing Unknown, delivering it. A loop is a record with its context; it probes, commits, delivers (outside the
lock, so after others), waits for its ticker. Only one subscriber exists in the daemon, the bridge; its channel drops
what does not fit. The network changes at will. A cancelled probe may still see its answer or end as Offline. main
disables and closes the monitor while connections are still open, as `main.go` does.

Abstracted: latencies, times, the one-shot Probe.

### Configs

A call goes through the steps of `Store.Add` (count, make a ULID and write, validate, rename or remove), of `Validate` (read the counter,
increment it, wait for a permit, run xray, give back the permit, then the place) and of the handler of `Configs.Remove` (ask
the Machine, then unlink). The operation `Validate` stands for that of a handler and for that of a tunnel worker, so it
may be cancelled at any time; an Add is cancelled only with the server. xray accepts only sound files, but may reject
or time out on any. The removal of a staging file may fail, and its error is ignored (`Discard`). `Restart` is a crash, or an exit
and a new start: only files survive. The tunnel takes the steps of `TunnelService`. The worker of an attempt reads the file twice, for
its validation and when xray starts (`ReadConfig`), and an attempt gets no further than what it has read.

Abstracted: texts, the checks before the count (they depend on nothing shared), replies, the `Configs.Changed` events.
`leaked` (staging files that a crash or a failed removal has left) and `overtaken` are history variables.

Met while modelling: `validateWaiters` counts every caller inside, those that run xray too, and it is that count which is compared
with `MaxValidateQueue`. So the calls that wait are fewer than the comment of `Validate` says by those that run: with 4 permits and a queue of 16
the seventeenth caller is refused, although 12 wait. `LimiterExact` says what is counted, `configs_queue` shows the disagreement. The
load and the increment are two steps, so that concurrent callers may also be admitted beyond the queue.

### Ipc

Per connection there are a reader (`conn[c].at`: the stages of `serveConn`, the handler of a request, the deferred
calls), a writer (`writer[c]`), the lock `wmu[c]` between them and the queue of its subscriber. `Broadcast` is a fan-out
in steps: the copy of the subscribers, then each in any order, offered the event or, when its queue is full, closed
through the id in its handle. The bridge and every handler may be broadcasting at once. The subscription and
the storing of the id are two steps, as in `serveConn`. Statuses and registry changes are numbered,
so that a gap and a wrong order can be seen. `Switch` stands for every request that waits for the actor: its command may be posted
after the drain, and then only the cancelled context ends the wait. main takes its two steps (StopAccept with the machine's
shutdown, then Close) with the copy of the live connections between them.

Abstracted: contents of requests and replies, the token bucket (it makes a reply an error), authorisation (its outcome
is a choice), frames, the socket file, the health bridge (it is in `Health`). `since`, `lost` and `unnamed` are
history variables: when a connection subscribed, which statuses the bridge's channel never took, and which subscribers a broadcast
found full before their id was stored.

Met while modelling: `api.go` (lines 46-48) leaves the policy for slow clients to the IPC layer, but a burst can fill
the bridge's own channel, where the status is dropped without any client being closed. `NoGap` therefore excepts
`lost`, and nothing else but `unnamed`. The order in which two handlers announce their changes of the registry is not checked
(listed as a hazard).

### Client

One event loop: an action is a callback with its microtasks. Sockets and calls are numbered. A socket is connecting, open,
ended by the peer, failed, destroyed or gone; the frames on their way to the client are `down`, with 0 for an event. A line
may come in two chunks, and a connection may end within one. The daemon answers a connection's requests in their order
or not at all. `heartbeatIntervalMs` may disable the heartbeat (`heartbeat`, chosen
at the start). The class has no user in this repository: the application is taken to connect when it was not told
"open" last, which is what the events of the class ask of it.

Abstracted: methods, contents, delays; a call without a socket, rejected at once.

Met while modelling, and described by the properties rather than excluded: the error handler of `connect` (line 146) removes
the listeners of `setupReader`, so the 'close' that follows is not seen, the socket stays the current one and its calls wait for
their timers; the next `connect` then overwrites the timer of the heartbeat that still runs (406), and a ping
of it that fails destroys the socket that is then current (411); half a line in `buf` (302) costs the first line of the next
connection; a socket that connects after `close()` is ended by the first tick of its heartbeat, and by nothing on the client's side but
another `close()` if the option disables heartbeats (`heartbeatIntervalMs <= 0`, lines 100 and 405). `HeartbeatMatches` and the second half of
`CallsSettle` are about clients with a heartbeat where they say so.

### Recovery

A run of the daemon goes through the stages of `main.go` (`at`): list, check, the steps of `killGraceful`, load, reset, bind,
serving, stopping. Processes have a pid, a starttime (the number of their birth) and a group; xrays, their helpers,
strangers of the daemon's user and foreign processes are born and die at any time, and pids are used again when neither a process nor
a group has them. The daemon crashes at any moment: its xrays get their Pdeathsig and may ignore it; the file survives. Every
Save may fail, and the file may be spoilt between two runs. The tunnel takes the steps of `TunnelService`, and each
that changes its status saves it. The child of the tunnel is remembered after its exit: first it is reaped and its number free for others (`freed`),
later its goroutine closes ExitC (`exited`). `StopChild` is `Supervisor.Stop`, a SIGTERM to the number of the child's group in any case and a
SIGKILL unless ExitC is closed, for children that have exited, too (`handleChildExit`, a worker whose child died early). The scan lists
every process that runs xray, also one that another xray has forked and that is in its group, which is then signalled alone. The sweep lists the
group and kills each member by its pid, in steps of their own (`ListStrays`, `KillStray`).

Abstracted: reading of `/proc` (each entry is read whole; the scan as a whole may fail), logging, `sd_notify`, systemd's
own KillMode, the monitor and the IPC server, which main creates. `cut`, `unsaved` and `harmed` are history variables.

Met while modelling: the guard closes the window from the list to its own look, but not the one from there to the SIGTERM, and to
the SIGKILL up to five seconds later, nor the one from the list of the sweep to each kill; and Stop signals `-Pgid` after the child
has been reaped (`supervisor_linux.go:162`), when the number may be another group's. `OnlyOursSignalled` says just that: whoever is hit without being the
daemon's took its number after the last look, or after the reaping. The poll looks at the leader only, so a helper that
ignores its SIGTERM outlives it (xray forks none). A cancelled context cuts the scan short and main goes on;
`CleanStart` excepts such runs. `SetHealthSnapshot` comes after `Start` (`main.go:166`) against its comment, but the actor
reads it only on GetStatus, which needs the socket.

## 3. The runs

| Run | Bounds | Shows |
|---|---|---|
| `tunnel_safety` | 2 configs, 4 requests, channel of 3 | type, one child, no orphan, armed stack, last request served, errors revert, switches kept, `TunnelService` implemented |
| `tunnel_live` | 2 configs, 2 requests, channel of 2, children may survive a kill | all five liveness properties |
| `tunnel_shutdown` | as safety | violated: a shutdown leaves no child |
| `tunnel_switch` | as safety | violated: a Switch to the same config does nothing |
| `health` | 2 callers and main, 3 calls, channel of 1 | type, flag and loop agree, `HealthService` implemented, calls return, Close ends the loops, events heal |
| `health_disabled` | 2 callers and main, 2 calls | violated: a disabled monitor is silent |
| `configs` | 2 callers, 2 ULIDs, cap 1, 1 permit, queue of 1 | type, limiter, staging files, `Registry` implemented, removal asks the tunnel, calls end |
| `configs_active` | the same, 3 ULIDs | violated: the active config is stored |
| `configs_queue` | the same, 3 ULIDs | violated: a call is refused only when the queue is full |
| `ipc` | 1 connection, 2 broadcasters (the bridge and its handler), 3 statuses, 2 requests, both queues of 1 | type, no gap, `EventStream` implemented, broadcasts end, connections end |
| `client` | 2 connections, 2 calls, 2 events | type, calls match the map, heartbeats, frames, `CallService` implemented, calls settle |
| `recovery` | 2 pids, 3 births, 1 config | type, clean start, only ours signalled, the start settles |

**Why the bounds suffice.** Four requests contain every pattern of the handlers: connect, switch, disconnect and a
new connect while the first attempt is still being cancelled; the channel of three is smaller than the number of goroutines
that post, so it is met full. The fair run uses the smaller instance because its cost is in the strongly connected
components; two requests already give an attempt, a teardown with a queued switch and a second attempt. In `health` three
calls put two loops side by side, the older one delivering late, while two callers and main race for the mutex. A
channel of one drops at the second event. In `configs` two callers can both pass the count and the queue test, and two ULIDs let
them exceed the cap together; that they exceed it by no more needs a third, and is proved (`QuotaBounded`). In `ipc` one event fills each queue, so the second
is dropped by the bridge or closes the connection; the two broadcasters interleave at the queue. Two connections,
which share nothing but the broadcasts and the shutdown, give more than eleven million states. In `client` the second connection meets
what the first left behind: calls, interval, half a line. In `recovery` an orphan, the process that takes its pid and a third
one, a helper or the next child, are what the guard, the poll and the sweep tell apart; with them the daemon may crash any number
of times. The theorems do not have these bounds.

**Fairness.** Weak fairness of a goroutine states that it is scheduled: each of its waits has a timeout (probes,
Stop, xray's validation, HTTP requests), or ends with a context. Two waits need strong fairness because they compete:
the mutex of SetEnabled (Go's mutex hands over to a waiter that starves) and the semaphore of the validations (a
channel serves blocked senders in their order). The return of a health loop is strongly fair as well: its `select` is
asked once per tick, and a done context is always ready, a tick is not, so the context wins in the end. There are no more
loops than the calls can start, one for every second call (`Fairness` of Health). Nothing obliges clients to call, a child to die, the
network to change or the daemon to crash or restart. In Health the bridge is fair until main closes the monitor.
In Ipc every goroutine is weakly fair. A connection's reader and writer compete for `wmu`, but each finitely often, since requests,
statuses and changes are bounded: weak fairness is enough. A write to a peer that does not read is not fair, nor are requests,
so that a blocked write is met by the liveness properties. In Client the timers fire and the events of a socket are delivered; the daemon
need not answer. In Recovery the start goes on by itself, as its only wait, the poll, has a deadline; nothing else is fair.

**Where a run may stop.** `ipc` and `client` switch the test for deadlock off: when the bounds are used up and every connection has ended,
nothing is left to do. `BroadcastEnds`, `ConnectionsEnd` and `CallsSettle` say what must not be left waiting there.

**What the five violations are.** Each is the shortest path to a state that a document, a comment or a message rules
out; the quotations are in "findings". (1) A shutdown that finds the result of a successful attempt in the channel
discards it with its cleanup stack: the child outlives the actor and is stopped only with the daemon process, by Pdeathsig.
(2) `handleSwitch` compares with `activeID`, which an attempt underway has not set yet: a Switch to the config being
connected restarts it. (3) A probe that is underway when the monitor is disabled commits and broadcasts its result
afterwards. (4) `Configs.Remove` checks and unlinks in two steps; a Connect accepted in between loses its file.
(5) `Validate` counts the calls that run xray against its queue: one is refused although nobody waits.

`RemovalRespectsTunnel` and the bound of `Registry` state what the code does guarantee around such windows: the
removal of an active config needs an attempt that began inside the window, and the cap is exceeded by no more than the
calls that counted together.

**The abstract specifications** are checked as properties (`ServiceSpec` of `Tunnel`, of `Health` and of `Client`, `RegistrySpec`, `StreamSpec`), under these mappings:
* `TunnelService`: `next <- pendingSwitchID`, `stopping <- ~Up`.
* `HealthService`: `call` is what a caller of SetEnabled still wants or has to announce, by the stage of its call; `live` are the loops whose context
  is not cancelled, `running` those that have not ended, `started` the number spawned. Mutex, flag and cancel function do not show: a call
  takes effect in one step, where the loop is spawned or cancelled, or has none; one loop at most is live (`OneLoop` is implied), and
  the call that stopped it makes the status Unknown before it returns. `DisabledIsSilent` says more, and does not hold.
* `Registry`: what is pending are the staging files but those that a crash or a failed removal has left, `made` is the number of ULIDs, and the
  bound is the cap plus the connections. Count, validation and the limiter do not show.
* `EventStream`: `latest` is the tunnel's status, `dropped` those that the bridge's channel never took, `from` the status when a
  connection subscribed, `told` what its writer has written, `over` the connections that have been closed at either end, `excused` those found full before
  their id was stored. Bridge, broadcasts, queues and locks do not show. It says both that statuses come in order and that none
  is missing on the wire before the next; a client is never left with a hole that it could not know of, except the two above.
* `CallService`: the calls by their outcome and those that the daemon has answered. Sockets, frames, timers and heartbeats do not show.

## 4. The theorems

All are statements about the specification for every value of the constants that satisfies the assumption of the module.

**Tunnel** (`TunnelProofs`). `TypeCorrect`, `ErrorsRevert` (each has an invariant of its own), and `Invariance`: `IInv` is inductive. None of
the safety invariants is inductive alone, because each depends on who is at work. `IInv` says, while the daemon is up:
which generations exist (`Fresh`), that one worker or one result of a worker is underway, never both (`OneAttempt`,
`OneCleanup`), what each state implies about them (`AttemptPhase`, `TeardownPhase`, `RestPhase`, `ArmedPhase`,
`SwitchPhase`), that the note of progress precedes the result (`ProgressFirst`), and that every living child is in
somebody's hands (`Owned`: a worker past its start, a queued success, the armed stack, or a cleanup goroutine).
From it follow `LastRequest`, and, under `~KillFails`, `OneChild`, `Orphans` and `Armed`. A child that outlives SIGKILL can break
these three, which is why they have the hypothesis; `tunnel_safety` takes `KillFails = FALSE`, too.
`SwitchKept` proves the action property by cases on the steps that change `pendingSwitchID`.
`NeverForsaken` states what liveness rests on: whatever status promises another, somebody has still to report, with the generation
that the handler looks for. `TeardownIsTold`: an attempt that is being torn down has a cancelled context.

Two theorems reach beyond `Up`. After a shutdown has been handled the actor goes on until the Machine's context is cancelled, also with
requests that start attempts beside those just cancelled, so that `OneAttempt` and with it `Core` fail. What is left is that generations are never
shared: among the attempts and their results (`Sole`), with a teardown (`Parted`), with the armed stack (`Arms`). `NoneMistaken`
proves these three, for children that survive a kill, too. `NoneForgotten` adds that, under `~KillFails`, every living child is in somebody's hands
(`Held`) until the context is cancelled. It is the other side of finding (1): the child that a shutdown leaves behind is lost in
the drain or in a post that the cancelled context refuses, and nowhere before.

**Refinement** (`TunnelRefinement`). `Refinement` proves `Spec => ServiceSpec`: every step of the actor is mapped to a
step of the service under the invariant, every step of another goroutine to a stutter. It needs the invariant for
progress and results (a success is handled only in Connecting, a report of a teardown only in Disconnecting).

**Health** (`HealthProofs`). `TypeCorrect`; `Invariance`: whoever is inside a critical stage holds the mutex
(`Mutex`), what the holder knows at each stage (`Stages`), that flag and pointer disagree only inside a call (`Flag`),
that loops are numbered (`Numbered`), that the live one is the one pointed at (`Live`), and that main calls only when it
shuts down (`Serving`). `AtMostOneLoop` and `FlagAgrees` follow.
`ServiceRefined` proves `Spec => ServiceSpec`: a call keeps its wish until the step that fulfils it (`WishOfNext`), which under `Mutex` and `Stages` finds
the live loops as the flag said.

**Configs** (`ConfigsProofs`). Seven theorems from one inductive invariant, `IInv`, with a lemma for each part:
`Files` (an Add underway owns a staging file that no other has and that is not left over, and xray's "ok" stands for a sound one), `Owned`,
`Limiter` (the counters are the sizes of the sets of calls inside), `Quota` (stored configs and the Adds that have counted are
together fewer than the cap and the connections: an Add is paid for when it counts, not when it publishes) and `Asked` (no removal
underway has an active config, unless an attempt has begun since). `QuotaBound` is not inductive alone, as it does not say
who may still publish. For `RegistryRefined` (`Spec => RegistrySpec`) one more invariant, `Apart`, says that an id is stored or pending, never
both, and sound only while it is one of them.

**Ipc** (`IpcProofs`, `StreamProofs`). Eight theorems. Four are from one invariant, `TypeOK /\ Stages /\ Loops /\ Casts /\ Numbers /\ NoGap /\ InOrder`.
`Stages` says that a subscriber is registered and its reader is between the two deferred calls, `Loops` that a writer holds an
event only while it writes, `Casts` that a handler broadcasts changes of the registry only and before it replies, and every
broadcast is of one event; `Numbers` that no status is on its way before the tunnel had it. For `NoGap` the argument is that what has reached a
steady subscriber, or is on its way to it, only grows: a broadcast, an offer, a take and a write each move an event from one place to
the next (`KeptStep`). For `InOrder` the five places of a status are a chain in which every element precedes those of the
places behind it, and a step moves the first of one place to the end of the place before.
`StreamProofs` adds what a single connection goes through: `Opened` (it is in the server's table from registration to its end, and Close has every open one
in its list), `Joined` and `Loaded` (no event before the subscription and the id; a writer with the lock in view has one event), `OneWriter` (whoever
writes has `wmu`) and `Contiguous` (what has reached a connection has no hole). They give `FramesApart`, `CloseMissesNone`, `CloseFreesWrites` (after Close's
list no peer can hold a write up) and `StatusesStreamed` (`Spec => StreamSpec`).

**Client** (`ClientProofs`). Six theorems from `TypeOK /\ Numbered /\ Newest /\ Stopped /\ Answers /\ Buffered` and the three
properties themselves. `Newest` is the heart: only the newest socket may have events still to come, and as long as it does
the application has been told "open" and makes no other; so two sockets never interleave. `Stopped` relates the heartbeat to the socket's
end, `Answers` says that the frames underway are events or answers that have been given, `Buffered` that a half line of an earlier
connection is met by the first line of a later one.
`CallsServed` proves `Spec => ServiceSpec`: every way a call ends, by its answer, its timer or its connection's end, is one step of the service.

**Recovery** (`RecoveryProofs`). Five theorems. `Listed` says that starttimes are unique and that an entry of the list is an xray as long as its process
lives, `Checked` that a stranger in the group the scan is about to signal came after the guard's look, `Groups` that only helpers are in the group of
another process; and `Family` that who is in the group of the tunnel's child is of this run or took the number after the child was reaped: together they
give `OnlyOursSignalled`. `Accounted` says that until the scan is over every orphan has its SIGKILL, is listed or is
the target, and `Saved` that the file is the tunnel's status while the daemon serves: they give `CleanStart`. `ChildLives`
relates the tunnel's child to its process until it is reaped. `StopStaysHome` proves `StopReachesOwn`, for foreign and older processes, too: whoever
a Stop reaches is of the daemon's own run, unless the child had been reaped before that process was born. Nothing better holds, as Stop signals
the group of a child that has exited.

**Only model-checked.** The liveness properties of all modules (fairness is beyond the prover): the five of the tunnel,
`SetEnabledReturns`, `CloseEndsLoops`, `HealthHeals`, `CallsEnd`, `BroadcastEnds`, `ConnectionsEnd`, `CallsSettle` and `StartSettles`. Every safety
property of a passing run has a theorem.

## 5. Not modelled

* The safety checks of configs, the URL parser and the config builder: pure functions over unbounded text or JSON, whose value is
  in their format; the error catalogue and the discovery of xray keep no state that changes.
* Codec and authorisation: pure I/O; `Ipc` has their outcomes. The token bucket only turns a reply into an error.
* The ring buffers of stderr: sequential, and an excerpt for a human is all they serve.
* The preferences of the application: not part of the tunnel. The races of their writes are listed as a hazard.
* The app store drives a mock engine that stands in for the daemon: what it will promise once `DaemonClient` replaces it is not settled in
  this code. The renderer presents its snapshots.
* In modelled parts: GetStatus, IsActive, List and Get (they change nothing), the one-shot Probe, the log forwarding of the supervisor, systemd.

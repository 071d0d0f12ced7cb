------------------------------ MODULE Configs -------------------------------
(***************************************************************************)
(* The registry of configs (daemon/internal/xrayconfig) and the handlers   *)
(* of concurrent connections that use it: Configs.Add counts, stages,      *)
(* validates and publishes a file, Configs.Validate runs xray over a       *)
(* stored one, Configs.Remove unlinks one that is not active. All that is  *)
(* shared is the directory, the limiter of the validations and the tunnel, *)
(* which is modelled as TunnelService promises it.                         *)
(*                                                                         *)
(* A config is known by its ULID, and is sound or not; its text, the       *)
(* checks of it that read nothing else, the replies and the events are     *)
(* left out, as are List and Get, which change nothing.                    *)
(***************************************************************************)
EXTENDS Integers, FiniteSets

CONSTANTS
    Caller,         \* the connections whose handlers use the registry
    NoConfig,
    MaxAdds,        \* bound on the ULIDs made
    MaxConfigs,     \* the cap of the registry (1000 in the code)
    MaxConcurrent,  \* MaxValidateConcurrent (4 in the code)
    MaxQueue        \* MaxValidateQueue (16 in the code)

ASSUME ConfigsAssumption ==
    /\ IsFiniteSet(Caller) /\ Caller # {}
    /\ MaxAdds \in Nat /\ NoConfig \notin 1 .. MaxAdds
    /\ MaxConfigs \in Nat \ {0}
    /\ MaxConcurrent \in Nat \ {0} /\ MaxQueue \in Nat \ {0}

ConfigID == 1 .. MaxAdds

VARIABLES
    stored,     \* the ids with a file <id>.json
    staging,    \* the ids with a file <id>.json.staging
    minted,     \* number of ULIDs made, the last one being the greatest
    sound,      \* the ids in use whose config xray accepts
    waiters,    \* validateWaiters
    running,    \* permits taken from validateSem
    calls,      \* the calls underway: operation, stage, id, result of xray
    leaked,     \* history: staging files left by a crash or a failed removal
    overtaken,  \* history: removals that an attempt has begun after the check of
    conn, next, stopping,   \* the tunnel; the server is being closed
    reads       \* how often the tunnel's attempt has found the file of its config

disk   == <<stored, staging, minted, sound>>
tunnel == <<conn, next, stopping, reads>>
vars   == <<disk, waiters, running, calls, leaked, overtaken, tunnel>>

Service == INSTANCE TunnelService

Op      == {"Add", "Validate", "Remove"}
Stage   == {"idle", "count", "write", "admit", "enter", "wait", "run", "leave", "settle",
            "unlink"}
Verdict == {"none", "ok", "invalid", "timeout"}

Call(op, stage, id) == [op |-> op, at |-> stage, id |-> id, verdict |-> "none"]
Idle == Call("Add", "idle", NoConfig)

Init ==
    /\ stored = {} /\ staging = {} /\ minted = 0 /\ sound = {}
    /\ waiters = 0 /\ running = 0
    /\ calls = [c \in Caller |-> Idle]
    /\ leaked = {} /\ overtaken = {}
    /\ Service!Init /\ reads = 0

-----------------------------------------------------------------------------
At(c, stage) == calls[c].at = stage
Move(c, stage) == calls' = [calls EXCEPT ![c].at = stage]

(* The validation is over; Add has the staging file left to deal with.      *)
Finish(c) ==
    calls' = [calls EXCEPT ![c] = IF @.op = "Add" THEN [@ EXCEPT !.at = "settle"] ELSE Idle]

-----------------------------------------------------------------------------
(* Add. *)

Add(c) ==
    /\ At(c, "idle") /\ ~stopping
    /\ minted < MaxAdds
    /\ calls' = [calls EXCEPT ![c] = Call("Add", "count", NoConfig)]
    /\ UNCHANGED <<disk, waiters, running, leaked, overtaken, tunnel>>

Room == Cardinality(stored) < MaxConfigs

CountConfigs(c) ==
    /\ At(c, "count")
    /\ \/ ~Room /\ calls' = [calls EXCEPT ![c] = Idle]
       \/ Room /\ Move(c, "write")
    /\ UNCHANGED <<disk, waiters, running, leaked, overtaken, tunnel>>

(* A ULID is made, and the bytes are written under it unless that fails.    *)
WriteStaging(c) ==
    /\ At(c, "write")
    /\ \/ /\ minted < MaxAdds
          /\ minted' = minted + 1
          /\ staging' = staging \cup {minted + 1}
          /\ sound' \in {sound, sound \cup {minted + 1}}
          /\ calls' = [calls EXCEPT ![c].at = "admit", ![c].id = minted + 1]
       \/ /\ calls' = [calls EXCEPT ![c] = Idle]
          /\ UNCHANGED <<staging, minted, sound>>
    /\ UNCHANGED <<stored, waiters, running, leaked, overtaken, tunnel>>

(* The staging file is removed; an error of that is ignored.                *)
Discard(id) ==
    /\ staging' \in {staging, staging \ {id}}
    /\ leaked' = leaked \cup (staging' \cap {id})
    /\ UNCHANGED stored

(* Mutants: a timeout counts as success; a call that xray was not asked for *)
(* leaves its file.                                                         *)
Settle_TimeoutIsOK(c) ==
    /\ At(c, "settle")
    /\ \/ /\ calls[c].verdict \in {"ok", "timeout"}
          /\ stored' = stored \cup {calls[c].id}
          /\ staging' = staging \ {calls[c].id}
          /\ UNCHANGED leaked
       \/ Discard(calls[c].id)
    /\ sound' = sound \cap (stored' \cup (staging' \ leaked'))
    /\ calls' = [calls EXCEPT ![c] = Idle]
    /\ UNCHANGED <<minted, waiters, running, overtaken, tunnel>>
Settle_KeepsRefused(c) ==
    /\ At(c, "settle")
    /\ \/ /\ calls[c].verdict = "ok"
          /\ stored' = stored \cup {calls[c].id}
          /\ staging' = staging \ {calls[c].id}
          /\ UNCHANGED leaked
       \/ calls[c].verdict # "none" /\ Discard(calls[c].id)
       \/ calls[c].verdict = "none" /\ UNCHANGED <<stored, staging, leaked>>
    /\ sound' = sound \cap (stored' \cup (staging' \ leaked'))
    /\ calls' = [calls EXCEPT ![c] = Idle]
    /\ UNCHANGED <<minted, waiters, running, overtaken, tunnel>>

(* The staging file is renamed, or discarded when xray was not satisfied,   *)
(* was not asked, or the rename fails.                                      *)
Settle(c) ==
    /\ At(c, "settle")
    /\ \/ /\ calls[c].verdict = "ok"
          /\ stored' = stored \cup {calls[c].id}
          /\ staging' = staging \ {calls[c].id}
          /\ UNCHANGED leaked
       \/ Discard(calls[c].id)
    /\ sound' = sound \cap (stored' \cup (staging' \ leaked'))
    /\ calls' = [calls EXCEPT ![c] = Idle]
    /\ UNCHANGED <<minted, waiters, running, overtaken, tunnel>>

-----------------------------------------------------------------------------
(* Validate, called by Add, by the handler of Configs.Validate and by the  *)
(* workers of the tunnel, for which the same operation stands.              *)

StoreValidate(c) ==
    /\ At(c, "idle") /\ ~stopping
    /\ \E id \in stored : calls' = [calls EXCEPT ![c] = Call("Validate", "admit", id)]
    /\ UNCHANGED <<disk, waiters, running, leaked, overtaken, tunnel>>

(* The counter is read, and incremented in a later step. It counts the      *)
(* calls that run xray as well as those that wait.                          *)
Admit(c) ==
    /\ At(c, "admit")
    /\ \/ waiters >= MaxQueue /\ Finish(c)
       \/ waiters < MaxQueue /\ Move(c, "enter")
    /\ UNCHANGED <<disk, waiters, running, leaked, overtaken, tunnel>>

Enter(c) ==
    /\ At(c, "enter")
    /\ waiters' = waiters + 1
    /\ Move(c, "wait")
    /\ UNCHANGED <<disk, running, leaked, overtaken, tunnel>>

Acquire(c) ==
    /\ At(c, "wait")
    /\ running < MaxConcurrent
    /\ running' = running + 1
    /\ Move(c, "run")
    /\ UNCHANGED <<disk, waiters, leaked, overtaken, tunnel>>

(* The context of a handler ends with the server, that of a worker when its *)
(* attempt is cancelled.                                                    *)
ContextDone(c) == stopping \/ calls[c].op = "Validate"

(* Mutants: the counter is decremented only after a run of xray; it is      *)
(* decremented at once and by the deferred call.                            *)
Abandon_StillCounted(c) ==
    /\ At(c, "wait")
    /\ ContextDone(c)
    /\ Finish(c)
    /\ UNCHANGED <<disk, waiters, running, leaked, overtaken, tunnel>>

Abandon_Twice(c) ==
    /\ At(c, "wait")
    /\ ContextDone(c)
    /\ waiters' = waiters - 2
    /\ Finish(c)
    /\ UNCHANGED <<disk, running, leaked, overtaken, tunnel>>

Abandon(c) ==
    /\ At(c, "wait")
    /\ ContextDone(c)
    /\ waiters' = waiters - 1
    /\ Finish(c)
    /\ UNCHANGED <<disk, running, leaked, overtaken, tunnel>>

(* xray reads the file if it is there; it may fail for reasons of its own,  *)
(* time out, or be killed with the context.                                 *)
Results(id) ==
    {"invalid", "timeout"} \cup {r \in {"ok"} : id \in sound}

(* Mutant: a run that times out keeps its permit.                           *)
XrayExits_KeepsPermit(c) ==
    /\ At(c, "run")
    /\ \E r \in Results(calls[c].id) :
           /\ running' = IF r = "timeout" THEN running ELSE running - 1
           /\ calls' = [calls EXCEPT ![c].at = "leave", ![c].verdict = r]
    /\ UNCHANGED <<disk, waiters, leaked, overtaken, tunnel>>

(* The deferred calls run in reverse: the permit first, then the counter.   *)
XrayExits(c) ==
    /\ At(c, "run")
    /\ running' = running - 1
    /\ \E r \in Results(calls[c].id) :
           calls' = [calls EXCEPT ![c].at = "leave", ![c].verdict = r]
    /\ UNCHANGED <<disk, waiters, leaked, overtaken, tunnel>>

Leave(c) ==
    /\ At(c, "leave")
    /\ waiters' = waiters - 1
    /\ Finish(c)
    /\ UNCHANGED <<disk, running, leaked, overtaken, tunnel>>

-----------------------------------------------------------------------------
(* Remove. *)

(* Mutant: only an established tunnel counts.                               *)
IsActive_ConnectedOnly(id) == conn.configID = id /\ conn.state = "Connected"

IsActive(id) ==
    conn.configID = id /\ conn.state \in {"Connected", "Validating", "Connecting"}

(* The handler asks the Machine, and unlinks the file in a later step.      *)
Remove(c) ==
    /\ At(c, "idle") /\ ~stopping
    /\ \E id \in 1 .. minted :
           /\ ~IsActive(id)
           /\ calls' = [calls EXCEPT ![c] = Call("Remove", "unlink", id)]
    /\ UNCHANGED <<disk, waiters, running, leaked, overtaken, tunnel>>

Unlink(c) ==
    /\ At(c, "unlink")
    /\ stored' = stored \ {calls[c].id}
    /\ sound' = sound \cap (stored' \cup staging)
    /\ calls' = [calls EXCEPT ![c] = Idle]
    /\ overtaken' = overtaken \ {c}
    /\ UNCHANGED <<staging, minted, waiters, running, leaked, tunnel>>

-----------------------------------------------------------------------------
(* The tunnel. *)

(* The worker of an attempt reads the file for its validation, and has xray *)
(* read it once more; the actor may hear of the former after the latter.    *)
ReadConfig ==
    /\ conn.state \in {"Validating", "Connecting"}
    /\ conn.configID \in stored /\ reads < 2
    /\ reads' = reads + 1
    /\ UNCHANGED <<disk, waiters, running, calls, leaked, overtaken, conn, next, stopping>>

(* An attempt gets no further than what it has read.                        *)
TunnelStep ==
    /\ ~stopping /\ UNCHANGED stopping
    /\ \/ \E id \in 1 .. minted : Service!Attempt(id)
       \/ \E n \in 1 .. minted \cup {NoConfig} : Service!Close(n)
       \/ reads >= 1 /\ Service!Progress
       \/ reads = 2 /\ Service!Establish
       \/ Service!Fail \/ Service!TakeBack \/ Service!Closed \/ Service!Dismiss
    /\ overtaken' = IF conn'.state = "Validating" /\ conn.state # "Validating"
                    THEN overtaken \cup {c \in Caller : At(c, "unlink")} ELSE overtaken
    /\ reads' = IF conn'.state = "Connecting" THEN reads ELSE 0
    /\ UNCHANGED <<disk, waiters, running, calls, leaked>>

(* main has shut the Machine down, then the server's context is cancelled.  *)
CloseServer ==
    /\ ~stopping /\ stopping' = TRUE
    /\ conn' = Service!Status("Disconnected", NoConfig) /\ next' = NoConfig /\ reads' = 0
    /\ UNCHANGED <<disk, waiters, running, calls, leaked, overtaken>>

(* The daemon dies, or exits and is started again: only the files are left. *)
Restart ==
    /\ leaked' = staging
    /\ waiters' = 0 /\ running' = 0
    /\ calls' = [c \in Caller |-> Idle]
    /\ overtaken' = {}
    /\ conn' = Service!Status("Disconnected", NoConfig) /\ next' = NoConfig
    /\ stopping' = FALSE /\ reads' = 0
    /\ sound' = sound \cap stored
    /\ UNCHANGED <<stored, staging, minted>>

(* What a call does once it is underway.                                    *)
Step(c) ==
    \/ CountConfigs(c) \/ WriteStaging(c) \/ Settle(c)
    \/ Admit(c) \/ Enter(c) \/ Acquire(c) \/ Abandon(c) \/ XrayExits(c) \/ Leave(c)
    \/ Unlink(c)

Next ==
    \/ \E c \in Caller : Add(c) \/ StoreValidate(c) \/ Remove(c) \/ Step(c)
    \/ ReadConfig \/ TunnelStep \/ CloseServer \/ Restart

Spec == Init /\ [][Next]_vars

(* A goroutine runs, xray exits or is killed after its timeout, and a       *)
(* channel serves the senders that wait for it in the order of their        *)
(* arrival.                                                                 *)
Fairness == \A c \in Caller : WF_vars(Step(c)) /\ SF_vars(Acquire(c))

FairSpec == Spec /\ Fairness

-----------------------------------------------------------------------------
(* Type invariant.                                                          *)
TypeOK ==
    /\ stored \in SUBSET ConfigID /\ staging \in SUBSET ConfigID
    /\ minted \in 0 .. MaxAdds /\ sound \in SUBSET ConfigID
    /\ waiters \in Nat /\ running \in Nat
    /\ calls \in [Caller -> [op : Op, at : Stage, id : ConfigID \cup {NoConfig},
                             verdict : Verdict]]
    /\ leaked \in SUBSET ConfigID /\ overtaken \in SUBSET Caller
    /\ conn.configID \in ConfigID \cup {NoConfig} /\ next \in ConfigID \cup {NoConfig}
    /\ stopping \in BOOLEAN /\ reads \in 0 .. 2

(* List and Connect never see a config that xray has not accepted, whatever *)
(* else is added, refused, timed out or cut short by a crash (Store.Add).   *)
StoredIsSound == stored \subseteq sound

(* To its users the registry is a set that an Add extends in one step, if   *)
(* xray accepted the config, or not at all (Store.Add, Store.Remove): the   *)
(* steps of the calls in between, and what a crash leaves, do not show.     *)
Registry == INSTANCE Registry WITH
    Bound <- MaxConfigs + Cardinality(Caller), made <- minted, pending <- staging \ leaked

RegistrySpec == Registry!Spec

(* However a validation ends, it gives back its permit and its place in the *)
(* count: the limiter counts the calls that are in it, no more and no less, *)
(* those that run xray too (but see RefusedWhenFull). A call is admitted    *)
(* before it is counted, so the count has no bound but that of the calls.   *)
LimiterExact ==
    /\ running = Cardinality({c \in Caller : At(c, "run")})
    /\ waiters = Cardinality({c \in Caller : calls[c].at \in {"wait", "run", "leave"}})
    /\ running <= MaxConcurrent

(* A staging file belongs to an Add that is underway, unless the daemon     *)
(* died during one, or the system refused to remove it.                     *)
StagingOwned ==
    \A id \in staging \ leaked : \E c \in Caller : calls[c].op = "Add" /\ calls[c].id = id

(* Count and publication are apart, so the registry can exceed its cap, but *)
(* by no more than the calls that counted together.                         *)
QuotaBound == Cardinality(stored) < MaxConfigs + Cardinality(Caller)

(* Configs.Remove unlinks the config of a live tunnel only if the attempt   *)
(* began after it had asked whether the config is active.                   *)
RemovalRespectsTunnel ==
    [][\A c \in Caller :
           Unlink(c) /\ IsActive(calls[c].id) => c \in overtaken]_vars

(* Every call ends, whatever happens to the others.                         *)
CallsEnd == \A c \in Caller : calls[c].at # "idle" ~> calls[c].at = "idle"

-----------------------------------------------------------------------------
(* What a comment and an error say, and the code does not ensure.           *)

(* "At most MaxValidateConcurrent xray processes run simultaneously; up to  *)
(* MaxValidateQueue additional callers may wait. Beyond that the call       *)
(* returns derr.ErrValidationBusy" (Validate): a call is refused only when  *)
(* that many wait, beside those that run.                                   *)
RefusedWhenFull ==
    [][\A c \in Caller :
           Admit(c) /\ calls'[c].at # "enter" =>
               Cardinality({d \in Caller : At(d, "wait")}) >= MaxQueue]_vars

(* "config is currently active; disconnect first" (ErrConfigInUse): the     *)
(* config of an established tunnel is stored.                               *)
ActiveIsStored == conn.state = "Connected" => conn.configID \in stored
=============================================================================

--------------------------- MODULE ConfigsProofs ----------------------------
(***************************************************************************)
(* Proofs about Configs: what the registry publishes was accepted, the     *)
(* limiter counts the calls that are in it, and neither the cap nor the    *)
(* config of the tunnel can be missed by more than concurrent calls do,    *)
(* whatever the number of connections and the limits.                      *)
(***************************************************************************)
EXTENDS Configs, FiniteSetTheorems, TLAPS

-----------------------------------------------------------------------------
(* The type invariant without the sign of the counters, which the limiter   *)
(* has to establish, and with the stages that only one operation has.       *)
CallType ==
    {k \in [op : Op, at : Stage, id : ConfigID \cup {NoConfig}, verdict : Verdict] :
        /\ k.at \in {"count", "write", "settle"} => k.op = "Add"
        /\ k.at \in {"count", "write"} => k.verdict = "none"
        /\ k.at = "unlink" => k.op = "Remove"}

Types ==
    /\ stored \in SUBSET ConfigID /\ staging \in SUBSET ConfigID
    /\ minted \in 0 .. MaxAdds /\ sound \in SUBSET ConfigID
    /\ waiters \in Int /\ running \in Int
    /\ calls \in [Caller -> CallType]
    /\ leaked \in SUBSET ConfigID /\ overtaken \in SUBSET Caller
    /\ conn.configID \in ConfigID \cup {NoConfig} /\ next \in ConfigID \cup {NoConfig}
    /\ stopping \in BOOLEAN /\ reads \in 0 .. 2

(* An Add between the making of its ULID and its end.                       *)
Staged(c) == calls[c].op = "Add" /\ calls[c].at \notin {"idle", "count", "write"}

Files ==
    /\ stored \subseteq sound
    /\ staging \subseteq 1 .. minted /\ leaked \subseteq staging
    /\ \A c \in Caller : Staged(c) =>
           /\ calls[c].id \in staging \ leaked
           /\ calls[c].verdict = "ok" => calls[c].id \in sound
    /\ \A c, d \in Caller : Staged(c) /\ Staged(d) /\ calls[c].id = calls[d].id => c = d

Owned == \A id \in staging \ leaked : \E c \in Caller : Staged(c) /\ calls[c].id = id

(* The limiter, and the cap: a call that has counted may still publish.     *)
Running  == {c \in Caller : At(c, "run")}
Inside   == {c \in Caller : calls[c].at \in {"wait", "run", "leave"}}
Counted(c) == calls[c].op = "Add" /\ calls[c].at \notin {"idle", "count"}
Adding   == {c \in Caller : Counted(c)}
Quota    == Cardinality(stored) + Cardinality(Adding) < MaxConfigs + Cardinality(Caller)

(* A removal underway has asked before any attempt at its config began.     *)
Asked == \A c \in Caller : At(c, "unlink") /\ IsActive(calls[c].id) => c \in overtaken

-----------------------------------------------------------------------------
(* How a call changes in each step that is its own.                         *)
CallStep(c) == Add(c) \/ StoreValidate(c) \/ Remove(c) \/ Step(c)

LEMMA OwnCall ==
    ASSUME Types, NEW c \in Caller, CallStep(c)
    PROVE  /\ calls'[c] \in CallType
           /\ calls' = [calls EXCEPT ![c] = calls'[c]]
<1> USE DEF Types, CallType, Idle, Call, Op, Stage, Verdict, At
<1>1. CASE Add(c)
  BY <1>1 DEF Add
<1>2. CASE StoreValidate(c)
  BY <1>2 DEF StoreValidate
<1>3. CASE Remove(c)
  <2>1. 1 .. minted \subseteq ConfigID
    BY ConfigsAssumption DEF ConfigID
  <2> QED BY <1>3, <2>1 DEF Remove
<1>4. CASE CountConfigs(c)
  BY <1>4 DEF CountConfigs, Move
<1>5. CASE WriteStaging(c)
  <2>1. minted < MaxAdds => minted + 1 \in ConfigID
    BY ConfigsAssumption DEF ConfigID
  <2> QED BY <1>5, <2>1 DEF WriteStaging
<1>6. CASE Settle(c)
  BY <1>6 DEF Settle
<1>7. CASE Admit(c)
  BY <1>7 DEF Admit, Move, Finish
<1>8. CASE Enter(c)
  BY <1>8 DEF Enter, Move
<1>9. CASE Acquire(c)
  BY <1>9 DEF Acquire, Move
<1>10. CASE Abandon(c)
  BY <1>10 DEF Abandon, Finish
<1>11. CASE XrayExits(c)
  <2>1. PICK r \in Results(calls[c].id) :
                calls' = [calls EXCEPT ![c].at = "leave", ![c].verdict = r]
    BY <1>11 DEF XrayExits
  <2>2. r \in Verdict
    BY <2>1 DEF Results
  <2> QED BY <2>1, <2>2
<1>12. CASE Leave(c)
  <2>1. CASE calls[c].op = "Add"
    BY <1>12, <2>1 DEF Leave, Finish
  <2>2. CASE calls[c].op # "Add"
    BY <1>12, <2>2 DEF Leave, Finish
  <2> QED BY <2>1, <2>2
<1>13. CASE Unlink(c)
  BY <1>13 DEF Unlink
<1> QED
  BY <1>1, <1>2, <1>3, <1>4, <1>5, <1>6, <1>7, <1>8, <1>9, <1>10, <1>11, <1>12, <1>13
     DEF CallStep, Step

(* A call that settles publishes its file, or discards it, in which case it *)
(* may stay.                                                                *)
LEMMA SettleFiles ==
    ASSUME NEW c \in Caller, Settle(c)
    PROVE  /\ staging' \in {staging, staging \ {calls[c].id}}
           /\ leaked' = leaked \cup (staging' \cap {calls[c].id})
           /\ stored' \in {stored, stored \cup {calls[c].id}}
           /\ stored' # stored =>
                  calls[c].verdict = "ok" /\ staging' = staging \ {calls[c].id}
           /\ sound' = sound \cap (stored' \cup (staging' \ leaked'))
           /\ minted' = minted
<1>1. CASE Discard(calls[c].id)
  BY <1>1 DEF Settle, Discard
<1>2. CASE /\ calls[c].verdict = "ok"
           /\ stored' = stored \cup {calls[c].id}
           /\ staging' = staging \ {calls[c].id}
           /\ UNCHANGED leaked
  BY <1>2 DEF Settle
<1> QED BY <1>1, <1>2 DEF Settle

LEMMA TypesStep == Types /\ Files /\ [Next]_vars => Types'
<1> SUFFICES ASSUME Types, Files, [Next]_vars PROVE Types'
  OBVIOUS
<1>0. 1 .. minted \subseteq ConfigID
  BY ConfigsAssumption DEF ConfigID, Types
<1>1. ASSUME NEW c \in Caller, CallStep(c) PROVE Types'
  <2>1. calls' \in [Caller -> CallType]
    BY <1>1, OwnCall DEF Types
  <2>2. CASE WriteStaging(c)
    <3>1. minted < MaxAdds => minted + 1 \in ConfigID /\ minted + 1 \in 0 .. MaxAdds
      BY ConfigsAssumption DEF ConfigID, Types
    <3> QED BY <2>1, <2>2, <3>1 DEF WriteStaging, Types, tunnel
  <2>3. CASE Settle(c)
    <3>1. calls[c].op = "Add"
      BY <2>3 DEF Settle, At, Types, CallType
    <3>2. calls[c].id \in ConfigID
      BY <2>3, <3>1 DEF Settle, At, Types, Files, Staged
    <3>3. /\ stored' \in SUBSET ConfigID /\ staging' \in SUBSET ConfigID
          /\ sound' \in SUBSET ConfigID /\ leaked' \in SUBSET ConfigID
      BY <2>3, <3>2, SettleFiles DEF Types
    <3> QED BY <2>1, <2>3, <3>3 DEF Settle, Types, tunnel
  <2>4. CASE Unlink(c)
    BY <2>1, <2>4 DEF Unlink, Types, tunnel
  <2>5. CASE Add(c) \/ StoreValidate(c) \/ Remove(c) \/ CountConfigs(c) \/ Admit(c)
    BY <2>1, <2>5 DEF Add, StoreValidate, Remove, CountConfigs, Admit, Types, disk, tunnel
  <2>6. CASE Enter(c) \/ Acquire(c) \/ Abandon(c) \/ XrayExits(c) \/ Leave(c)
    BY <2>1, <2>6 DEF Enter, Acquire, Abandon, XrayExits, Leave, Types, disk, tunnel
  <2> QED BY <1>1, <2>2, <2>3, <2>4, <2>5, <2>6 DEF CallStep, Step
<1>2. CASE TunnelStep
  <2>1. conn'.configID \in ConfigID \cup {NoConfig} /\ next' \in ConfigID \cup {NoConfig}
    BY <1>0, <1>2
       DEF TunnelStep, Types, Service!Attempt, Service!Close, Service!Progress,
           Service!Establish, Service!Fail, Service!TakeBack, Service!Closed,
           Service!Dismiss, Service!Status
  <2>2. reads' \in 0 .. 2
    BY <1>2 DEF TunnelStep, Types
  <2> QED BY <1>2, <2>1, <2>2 DEF TunnelStep, Types, disk
<1>3. CASE CloseServer
  BY <1>3 DEF CloseServer, Types, disk, Service!Status
<1>4. CASE Restart
  <2>1. Idle \in CallType
    BY DEF Idle, Call, CallType, Op, Stage, Verdict
  <2>2. calls' \in [Caller -> CallType]
    BY <1>4, <2>1 DEF Restart
  <2>3. conn'.configID = NoConfig
    BY <1>4 DEF Restart, Service!Status
  <2>4. sound' \in SUBSET ConfigID /\ overtaken' \in SUBSET Caller
    BY <1>4 DEF Restart, Types
  <2>5. waiters' \in Int /\ running' \in Int
    BY <1>4 DEF Restart
  <2>7. stopping' \in BOOLEAN
    BY <1>4, Zenon DEF Restart
  <2>6. next' \in ConfigID \cup {NoConfig} /\ reads' \in 0 .. 2
    BY <1>4 DEF Restart
  <2> QED BY <1>4, <2>2, <2>3, <2>4, <2>5, <2>6, <2>7 DEF Restart, Types
<1>5. CASE UNCHANGED vars
  BY <1>5 DEF vars, disk, tunnel, Types
<1>6. CASE ReadConfig
  <2>1. reads' \in 0 .. 2
    BY <1>6 DEF ReadConfig, Types
  <2> QED BY <1>6, <2>1 DEF ReadConfig, Types, disk
<1> QED BY <1>1, <1>2, <1>3, <1>4, <1>5, <1>6 DEF Next, CallStep

-----------------------------------------------------------------------------
(* The files. A call that leaves them alone keeps what it owns.             *)
LEMMA SameFiles ==
    ASSUME Files, Owned, NEW c \in Caller, UNCHANGED <<disk, leaked>>,
           \A d \in Caller \ {c} : calls'[d] = calls[d],
           Staged(c)' <=> Staged(c),
           Staged(c) => /\ calls'[c].id = calls[c].id
                        /\ calls'[c].verdict \in {calls[c].verdict} \cup Results(calls[c].id)
    PROVE  Files' /\ Owned'
<1>1. \A d \in Caller : Staged(d)' <=> Staged(d)
  BY DEF Staged
<1>2. \A d \in Caller : Staged(d) => calls'[d].id = calls[d].id
  BY DEF Staged
<1>3. \A d \in Caller : Staged(d) /\ calls'[d].verdict = "ok" => calls[d].id \in sound
  BY DEF Files, Results
<1>4. stored' \subseteq sound' /\ staging' \subseteq 1 .. minted' /\ leaked' \subseteq staging'
  BY DEF Files, disk
<1>5. \A d \in Caller : Staged(d)' =>
          /\ calls'[d].id \in staging' \ leaked'
          /\ calls'[d].verdict = "ok" => calls'[d].id \in sound'
  BY <1>1, <1>2, <1>3 DEF Files, disk
<1>6. \A d, e \in Caller : Staged(d)' /\ Staged(e)' /\ calls'[d].id = calls'[e].id => d = e
  BY <1>1, <1>2 DEF Files
<1>7. Owned'
  BY <1>1, <1>2 DEF Owned, disk
<1> QED BY <1>4, <1>5, <1>6, <1>7 DEF Files

LEMMA FilesStep == Types /\ Files /\ Owned /\ [Next]_vars => Files' /\ Owned'
<1> SUFFICES ASSUME Types, Files, Owned, [Next]_vars PROVE Files' /\ Owned'
  OBVIOUS
<1>1. ASSUME NEW c \in Caller, CallStep(c) PROVE Files' /\ Owned'
  <2>1. calls[c] \in CallType /\ calls' = [calls EXCEPT ![c] = calls'[c]]
    BY <1>1, OwnCall DEF Types
  <2>2. \A d \in Caller \ {c} : calls'[d] = calls[d]
    BY <2>1 DEF Types
  <2> USE DEF CallType, Idle, Call, At
  <2>3. CASE Add(c)
    BY <2>1, <2>2, <2>3, SameFiles DEF Add, Staged, Types
  <2>4. CASE StoreValidate(c)
    BY <2>1, <2>2, <2>4, SameFiles DEF StoreValidate, Staged, Types
  <2>5. CASE Remove(c)
    BY <2>1, <2>2, <2>5, SameFiles DEF Remove, Staged, Types
  <2>6. CASE CountConfigs(c)
    BY <2>1, <2>2, <2>6, SameFiles DEF CountConfigs, Move, Staged, Types
  <2>7. CASE Admit(c)
    BY <2>1, <2>2, <2>7, SameFiles DEF Admit, Move, Finish, Staged, Types
  <2>8. CASE Enter(c)
    BY <2>1, <2>2, <2>8, SameFiles DEF Enter, Move, Staged, Types, disk
  <2>9. CASE Acquire(c)
    BY <2>1, <2>2, <2>9, SameFiles DEF Acquire, Move, Staged, Types, disk
  <2>10. CASE Abandon(c)
    BY <2>1, <2>2, <2>10, SameFiles DEF Abandon, Finish, Staged, Types, disk
  <2>11. CASE XrayExits(c)
    <3>1. PICK r \in Results(calls[c].id) :
              calls' = [calls EXCEPT ![c].at = "leave", ![c].verdict = r]
      BY <2>11 DEF XrayExits
    <3> QED BY <2>1, <2>2, <2>11, <3>1, SameFiles DEF XrayExits, Staged, Types
  <2>12. CASE Leave(c)
    BY <2>1, <2>2, <2>12, SameFiles DEF Leave, Finish, Staged, Types, disk
  <2>13. CASE WriteStaging(c)
    <3>1. CASE calls' = [calls EXCEPT ![c] = Idle] /\ UNCHANGED <<staging, minted, sound>>
      BY <2>1, <2>2, <2>13, <3>1, SameFiles DEF WriteStaging, Staged, Types, disk
    <3>2. CASE /\ minted' = minted + 1
               /\ staging' = staging \cup {minted + 1}
               /\ sound' \in {sound, sound \cup {minted + 1}}
               /\ calls' = [calls EXCEPT ![c].at = "admit", ![c].id = minted + 1]
      <4>1. minted \in Nat /\ minted + 1 \notin staging /\ minted + 1 \notin leaked
        BY ConfigsAssumption DEF Files, Types
      <4>2. /\ calls'[c].id = minted + 1 /\ calls'[c].verdict = "none"
            /\ calls'[c].op = "Add" /\ calls'[c].at = "admit"
        BY <2>1, <2>13, <3>2 DEF WriteStaging, Types
      <4>3. \A d \in Caller \ {c} : Staged(d)' <=> Staged(d)
        BY <2>2 DEF Staged
      <4>4. /\ stored' \subseteq sound' /\ staging' \subseteq 1 .. minted'
            /\ leaked' \subseteq staging' /\ leaked' = leaked
        BY <2>13, <3>2, <4>1 DEF Files, WriteStaging
      <4>5. \A d \in Caller : Staged(d)' =>
                /\ calls'[d].id \in staging' \ leaked'
                /\ calls'[d].verdict = "ok" => calls'[d].id \in sound'
        <5>1. ASSUME NEW d \in Caller, d # c, Staged(d)'
              PROVE  Staged(d) /\ calls'[d] = calls[d]
          BY <2>2, <4>3, <5>1
        <5>2. /\ staging \ leaked \subseteq staging' \ leaked' /\ sound \subseteq sound'
              /\ minted + 1 \in staging' \ leaked'
          BY <3>2, <4>1, <4>4
        <5>3. ASSUME NEW d \in Caller, d # c, Staged(d)'
              PROVE  /\ calls'[d].id \in staging' \ leaked'
                     /\ calls'[d].verdict = "ok" => calls'[d].id \in sound'
          BY <5>1, <5>2, <5>3 DEF Files
        <5> QED BY <4>2, <5>2, <5>3
      <4>6. \A d \in Caller \ {c} : Staged(d)' => calls'[d].id # minted + 1
        BY <2>2, <4>1, <4>3 DEF Files
      <4>7. \A d, e \in Caller :
                Staged(d)' /\ Staged(e)' /\ calls'[d].id = calls'[e].id => d = e
        BY <2>2, <4>2, <4>3, <4>6 DEF Files
      <4>8. ~Staged(c) /\ Staged(c)'
        BY <2>13, <4>2 DEF WriteStaging, Staged
      <4>9. Owned'
        <5>1. ASSUME NEW id \in staging', id \notin leaked', id # minted + 1
              PROVE  \E d \in Caller : Staged(d)' /\ calls'[d].id = id
          <6>1. PICK d \in Caller : Staged(d) /\ calls[d].id = id
            BY <2>13, <3>2, <5>1 DEF Owned, WriteStaging
          <6> QED BY <2>2, <4>3, <4>8, <6>1
        <5> QED BY <4>2, <4>8, <5>1 DEF Owned
      <4> QED BY <4>4, <4>5, <4>7, <4>9 DEF Files
    <3> QED BY <2>13, <3>1, <3>2 DEF WriteStaging
  <2>14. CASE Settle(c)
    <3>1. Staged(c) /\ ~Staged(c)'
      BY <2>1, <2>14 DEF Settle, Staged, Types
    <3>2. \A d \in Caller \ {c} : Staged(d)' <=> Staged(d)
      BY <2>2 DEF Staged
    <3>3. \A d \in Caller \ {c} : Staged(d) => calls[d].id \in staging \ {calls[c].id}
      BY <3>1 DEF Files
    <3>4. calls[c].id \in staging \ leaked
      BY <3>1 DEF Files
    <3>5. stored' \subseteq sound /\ stored \subseteq stored'
      BY <2>14, <3>1, SettleFiles DEF Files
    <3>6. /\ staging \ {calls[c].id} \subseteq staging' /\ staging' \subseteq staging
          /\ leaked' = leaked \cup (staging' \cap {calls[c].id})
          /\ sound' = sound \cap (stored' \cup (staging' \ leaked')) /\ minted' = minted
      BY <2>14, SettleFiles
    <3>7. /\ stored' \subseteq sound' /\ staging' \subseteq 1 .. minted'
          /\ leaked' \subseteq staging'
      BY <3>4, <3>5, <3>6 DEF Files
    <3>8. \A d \in Caller : Staged(d)' =>
              /\ calls'[d].id \in staging' \ leaked'
              /\ calls'[d].verdict = "ok" => calls'[d].id \in sound'
      <4>1. ASSUME NEW d \in Caller, Staged(d)'
            PROVE  /\ d # c /\ Staged(d) /\ calls'[d] = calls[d]
                   /\ calls[d].id \in staging' \ leaked'
        <5>1. d # c /\ Staged(d) /\ calls'[d] = calls[d]
          BY <2>2, <3>1, <3>2, <4>1
        <5>2. calls[d].id \in staging \ leaked /\ calls[d].id # calls[c].id
          BY <3>3, <5>1 DEF Files
        <5> QED BY <3>6, <5>1, <5>2
      <4> QED BY <3>6, <4>1 DEF Files
    <3>9. \A d, e \in Caller :
              Staged(d)' /\ Staged(e)' /\ calls'[d].id = calls'[e].id => d = e
      BY <2>2, <3>1, <3>2 DEF Files
    <3>10. Owned'
      <4>1. ASSUME NEW id \in staging' \ leaked'
            PROVE  \E d \in Caller : Staged(d)' /\ calls'[d].id = id
        <5>1. id \in staging \ leaked /\ id # calls[c].id
          BY <3>6, <4>1
        <5>2. PICK d \in Caller : Staged(d) /\ calls[d].id = id
          BY <5>1 DEF Owned
        <5> QED BY <2>2, <3>2, <5>1, <5>2
      <4> QED BY <4>1 DEF Owned
    <3> QED BY <3>7, <3>8, <3>9, <3>10 DEF Files
  <2>15. CASE Unlink(c)
    <3>1. ~Staged(c) /\ ~Staged(c)'
      BY <2>1, <2>15 DEF Unlink, Staged, Types
    <3>2. \A d \in Caller : Staged(d)' <=> Staged(d)
      BY <2>2, <3>1 DEF Staged
    <3>3. /\ staging' = staging /\ sound' = sound \cap (stored' \cup staging)
          /\ minted' = minted /\ leaked' = leaked /\ stored' \subseteq stored
      BY <2>15 DEF Unlink
    <3>4. /\ stored' \subseteq sound' /\ staging' \subseteq 1 .. minted'
          /\ leaked' \subseteq staging'
      BY <3>3 DEF Files
    <3>5. \A d \in Caller : Staged(d)' =>
              /\ calls'[d].id \in staging' \ leaked'
              /\ calls'[d].verdict = "ok" => calls'[d].id \in sound'
      BY <2>2, <3>1, <3>2, <3>3 DEF Files
    <3>6. \A d, e \in Caller :
              Staged(d)' /\ Staged(e)' /\ calls'[d].id = calls'[e].id => d = e
      BY <2>2, <3>1, <3>2 DEF Files
    <3>7. Owned'
      BY <2>2, <3>1, <3>2, <3>3 DEF Owned
    <3> QED BY <3>4, <3>5, <3>6, <3>7 DEF Files
  <2> QED BY <1>1, <2>3, <2>4, <2>5, <2>6, <2>7, <2>8, <2>9, <2>10, <2>11, <2>12, <2>13,
             <2>14, <2>15 DEF CallStep, Step
<1>2. CASE UNCHANGED <<disk, calls, leaked>>
  BY <1>2 DEF disk, Files, Owned, Staged
<1>3. CASE Restart
  <2>1. \A d \in Caller : ~Staged(d)'
    BY <1>3 DEF Restart, Idle, Call, Staged
  <2>2. /\ stored' = stored /\ staging' = staging /\ leaked' = staging
        /\ minted' = minted /\ sound' = sound \cap stored
    BY <1>3 DEF Restart
  <2> QED BY <2>1, <2>2 DEF Files, Owned
<1>4. ReadConfig \/ TunnelStep \/ CloseServer \/ UNCHANGED vars => UNCHANGED <<disk, calls, leaked>>
  BY DEF ReadConfig, TunnelStep, CloseServer, vars
<1> QED BY <1>1, <1>2, <1>3, <1>4 DEF Next, CallStep

-----------------------------------------------------------------------------
(* The limiter. Two sets of calls that differ in one of them at most.       *)
LEMMA CountCalls ==
    ASSUME NEW S \in SUBSET Caller, NEW T \in SUBSET Caller, NEW c \in Caller,
           S \ {c} = T \ {c}
    PROVE  /\ Cardinality(S) \in 0 .. Cardinality(Caller) /\ Cardinality(Caller) \in Nat
           /\ (c \in S <=> c \in T) => Cardinality(T) = Cardinality(S)
           /\ c \notin S /\ c \in T => Cardinality(T) = Cardinality(S) + 1
           /\ c \in S /\ c \notin T => Cardinality(T) = Cardinality(S) - 1
<1>1. IsFiniteSet(Caller)
  BY ConfigsAssumption
<1>2. /\ IsFiniteSet(S) /\ Cardinality(S) \in Nat /\ Cardinality(S) <= Cardinality(Caller)
      /\ Cardinality(Caller) \in Nat
  BY <1>1, FS_Subset, FS_CardinalityType
<1>3. (c \in S <=> c \in T) => S = T
  OBVIOUS
<1>4. c \notin S /\ c \in T => T = S \cup {c}
  OBVIOUS
<1>5. c \in S /\ c \notin T => T = S \ {c}
  OBVIOUS
<1> QED BY <1>2, <1>3, <1>4, <1>5, FS_AddElement, FS_RemoveElement

Limiter ==
    /\ running = Cardinality(Running) /\ waiters = Cardinality(Inside)
    /\ running <= MaxConcurrent

LEMMA LimiterStep == Types /\ Limiter /\ [Next]_vars => Limiter'
<1> SUFFICES ASSUME Types, Limiter, [Next]_vars PROVE Limiter'
  OBVIOUS
<1>1. ASSUME NEW c \in Caller, CallStep(c) PROVE Limiter'
  <2>1. calls[c] \in CallType /\ calls' = [calls EXCEPT ![c] = calls'[c]]
    BY <1>1, OwnCall DEF Types
  <2>2. \A d \in Caller \ {c} : calls'[d] = calls[d]
    BY <2>1 DEF Types
  <2>3. Running \ {c} = Running' \ {c} /\ Inside \ {c} = Inside' \ {c}
    BY <2>2 DEF Running, Inside, At
  <2>4. Running \subseteq Caller /\ Running' \subseteq Caller
    BY DEF Running
  <2>5. Inside \subseteq Caller /\ Inside' \subseteq Caller
    BY DEF Inside
  <2>6. /\ (c \in Running <=> c \in Running') => Cardinality(Running') = Cardinality(Running)
        /\ c \notin Running /\ c \in Running' =>
              Cardinality(Running') = Cardinality(Running) + 1
        /\ c \in Running /\ c \notin Running' =>
              Cardinality(Running') = Cardinality(Running) - 1
    BY <2>3, <2>4, CountCalls
  <2>7. /\ (c \in Inside <=> c \in Inside') => Cardinality(Inside') = Cardinality(Inside)
        /\ c \notin Inside /\ c \in Inside' =>
              Cardinality(Inside') = Cardinality(Inside) + 1
        /\ c \in Inside /\ c \notin Inside' =>
              Cardinality(Inside') = Cardinality(Inside) - 1
    BY <2>3, <2>5, CountCalls
  <2>8. /\ c \in Running <=> At(c, "run")
        /\ c \in Running' <=> calls'[c].at = "run"
        /\ c \in Inside <=> calls[c].at \in {"wait", "run", "leave"}
        /\ c \in Inside' <=> calls'[c].at \in {"wait", "run", "leave"}
    BY DEF Running, Inside, At
  <2>9. ASSUME UNCHANGED <<waiters, running>>,
               calls[c].at \notin {"wait", "run", "leave"},
               calls'[c].at \notin {"wait", "run", "leave"}
        PROVE  Limiter'
    BY <2>6, <2>7, <2>8, <2>9 DEF Limiter, At
  <2> USE DEF CallType, Idle, Call, At
  <2>10. CASE Add(c)
    BY <2>1, <2>9, <2>10 DEF Add, Types
  <2>11. CASE StoreValidate(c)
    BY <2>1, <2>9, <2>11 DEF StoreValidate, Types
  <2>12. CASE Remove(c)
    BY <2>1, <2>9, <2>12 DEF Remove, Types
  <2>13. CASE CountConfigs(c)
    BY <2>1, <2>9, <2>13 DEF CountConfigs, Move, Types
  <2>14. CASE WriteStaging(c)
    BY <2>1, <2>9, <2>14 DEF WriteStaging, Types
  <2>15. CASE Settle(c)
    BY <2>1, <2>9, <2>15 DEF Settle, Types
  <2>16. CASE Admit(c)
    BY <2>1, <2>9, <2>16 DEF Admit, Move, Finish, Types
  <2>17. CASE Unlink(c)
    BY <2>1, <2>9, <2>17 DEF Unlink, Types
  <2>18. CASE Enter(c)
    <3>1. calls[c].at = "enter" /\ calls'[c].at = "wait"
      BY <2>1, <2>18 DEF Enter, Move, Types
    <3> QED BY <2>6, <2>7, <2>8, <2>18, <3>1 DEF Enter, Limiter
  <2>19. CASE Acquire(c)
    <3>1. calls[c].at = "wait" /\ calls'[c].at = "run"
      BY <2>1, <2>19 DEF Acquire, Move, Types
    <3>2. running' <= MaxConcurrent
      BY <2>19, ConfigsAssumption DEF Acquire, Types
    <3> QED BY <2>6, <2>7, <2>8, <2>19, <3>1, <3>2 DEF Acquire, Limiter
  <2>20. CASE Abandon(c)
    <3>1. calls[c].at = "wait" /\ calls'[c].at \in {"idle", "settle"}
      BY <2>1, <2>20 DEF Abandon, Finish, Types
    <3> QED BY <2>6, <2>7, <2>8, <2>20, <3>1 DEF Abandon, Limiter
  <2>21. CASE XrayExits(c)
    <3>1. calls[c].at = "run" /\ calls'[c].at = "leave"
      BY <2>1, <2>21 DEF XrayExits, Types
    <3>2. running' = running - 1 /\ waiters' = waiters
      BY <2>21 DEF XrayExits
    <3>3. running' <= MaxConcurrent
      BY <3>2, ConfigsAssumption DEF Types, Limiter
    <3> QED BY <2>6, <2>7, <2>8, <3>1, <3>2, <3>3 DEF Limiter
  <2>22. CASE Leave(c)
    <3>1. calls[c].at = "leave" /\ calls'[c].at \in {"idle", "settle"}
      BY <2>1, <2>22 DEF Leave, Finish, Types
    <3> QED BY <2>6, <2>7, <2>8, <2>22, <3>1 DEF Leave, Limiter
  <2> QED BY <1>1, <2>10, <2>11, <2>12, <2>13, <2>14, <2>15, <2>16, <2>17, <2>18, <2>19,
             <2>20, <2>21, <2>22 DEF CallStep, Step
<1>2. CASE UNCHANGED <<calls, waiters, running>>
  BY <1>2 DEF Limiter, Running, Inside, At
<1>3. CASE Restart
  <2>1. Running' = {} /\ Inside' = {}
    BY <1>3 DEF Restart, Running, Inside, At, Idle, Call
  <2>2. running' = 0 /\ waiters' = 0
    BY <1>3 DEF Restart
  <2> QED BY <2>1, <2>2, FS_EmptySet, ConfigsAssumption DEF Limiter
<1>4. ReadConfig \/ TunnelStep \/ CloseServer \/ UNCHANGED vars => UNCHANGED <<calls, waiters, running>>
  BY DEF ReadConfig, TunnelStep, CloseServer, vars
<1> QED BY <1>1, <1>2, <1>3, <1>4 DEF Next, CallStep

-----------------------------------------------------------------------------
(* The cap. To publish, a call has to be one of those that have counted.    *)
LEMMA QuotaStep == Types /\ Quota /\ [Next]_vars /\ Types' => Quota'
<1> SUFFICES ASSUME Types, Quota, [Next]_vars, Types' PROVE Quota'
  OBVIOUS
<1>1. IsFiniteSet(ConfigID)
  BY ConfigsAssumption, FS_Interval DEF ConfigID
<1>2. /\ IsFiniteSet(stored) /\ Cardinality(stored) \in Nat
      /\ IsFiniteSet(stored') /\ Cardinality(stored') \in Nat
  BY <1>1, FS_Subset, FS_CardinalityType DEF Types
<1>3. MaxConfigs \in Nat
  BY ConfigsAssumption
<1>4. ASSUME NEW c \in Caller, CallStep(c) PROVE Quota'
  <2>1. calls[c] \in CallType /\ calls' = [calls EXCEPT ![c] = calls'[c]]
    BY <1>4, OwnCall DEF Types
  <2>2. \A d \in Caller \ {c} : calls'[d] = calls[d]
    BY <2>1 DEF Types
  <2>3. Adding \subseteq Caller /\ Adding' \subseteq Caller /\ Adding \ {c} = Adding' \ {c}
    BY <2>2 DEF Adding, Counted
  <2>4. /\ Cardinality(Adding) \in 0 .. Cardinality(Caller) /\ Cardinality(Caller) \in Nat
        /\ (c \in Adding <=> c \in Adding') => Cardinality(Adding') = Cardinality(Adding)
        /\ c \notin Adding /\ c \in Adding' => Cardinality(Adding') = Cardinality(Adding) + 1
        /\ c \in Adding /\ c \notin Adding' => Cardinality(Adding') = Cardinality(Adding) - 1
    BY <2>3, CountCalls
  <2>5. Cardinality(Adding') \in 0 .. Cardinality(Caller)
    BY <2>3, CountCalls
  <2>6. /\ c \in Adding <=> calls[c].op = "Add" /\ calls[c].at \notin {"idle", "count"}
        /\ c \in Adding' <=> calls'[c].op = "Add" /\ calls'[c].at \notin {"idle", "count"}
    BY DEF Adding, Counted
  <2>7. ASSUME UNCHANGED stored, c \in Adding' => c \in Adding PROVE Quota'
    BY <1>2, <1>3, <2>4, <2>5, <2>7 DEF Quota
  <2> USE DEF CallType, Idle, Call, At
  <2>8. CASE Add(c)
    BY <2>1, <2>6, <2>7, <2>8 DEF Add, Types, disk
  <2>9. CASE StoreValidate(c)
    BY <2>1, <2>6, <2>7, <2>9 DEF StoreValidate, Types, disk
  <2>10. CASE Remove(c)
    BY <2>1, <2>6, <2>7, <2>10 DEF Remove, Types, disk
  <2>11. CASE CountConfigs(c)
    <3>1. CASE Room
      BY <1>2, <1>3, <2>4, <2>5, <2>11, <3>1 DEF CountConfigs, Room, Quota, disk
    <3>2. CASE ~Room
      BY <2>1, <2>6, <2>7, <2>11, <3>2 DEF CountConfigs, Types, disk
    <3> QED BY <3>1, <3>2
  <2>12. CASE WriteStaging(c)
    BY <2>1, <2>6, <2>7, <2>12 DEF WriteStaging, Types
  <2>13. CASE Settle(c)
    <3>1. c \in Adding /\ c \notin Adding'
      BY <2>1, <2>6, <2>13 DEF Settle, Types
    <3>2. stored' = stored \/ stored' = stored \cup {calls[c].id}
      BY <2>13, SettleFiles
    <3>3. Cardinality(stored') <= Cardinality(stored) + 1
      <4>1. CASE stored' = stored
        BY <1>2, <4>1
      <4>2. CASE stored' = stored \cup {calls[c].id} /\ calls[c].id \notin stored
        <5>1. Cardinality(stored \cup {calls[c].id}) = Cardinality(stored) + 1
          BY <1>2, <4>2, FS_AddElement
        <5> QED BY <1>2, <4>2, <5>1
      <4>3. stored \cup {calls[c].id} = stored \/ calls[c].id \notin stored
        OBVIOUS
      <4> QED BY <3>2, <4>1, <4>2, <4>3
    <3> QED BY <1>2, <1>3, <2>4, <2>5, <3>1, <3>3 DEF Quota
  <2>14. CASE Admit(c)
    BY <2>1, <2>6, <2>7, <2>14 DEF Admit, Move, Finish, Types, disk
  <2>15. CASE Enter(c)
    BY <2>1, <2>6, <2>7, <2>15 DEF Enter, Move, Types, disk
  <2>16. CASE Acquire(c)
    BY <2>1, <2>6, <2>7, <2>16 DEF Acquire, Move, Types, disk
  <2>17. CASE Abandon(c)
    BY <2>1, <2>6, <2>7, <2>17 DEF Abandon, Finish, Types, disk
  <2>18. CASE XrayExits(c)
    <3>1. calls'[c].op = calls[c].op /\ calls[c].at = "run" /\ stored' = stored
      BY <2>1, <2>18 DEF XrayExits, Types, disk
    <3> QED BY <2>6, <2>7, <3>1
  <2>19. CASE Leave(c)
    BY <2>1, <2>6, <2>7, <2>19 DEF Leave, Finish, Types, disk
  <2>20. CASE Unlink(c)
    <3>1. c \notin Adding /\ c \notin Adding'
      BY <2>1, <2>6, <2>20 DEF Unlink, Types
    <3>2. Cardinality(stored') <= Cardinality(stored)
      BY <1>2, <2>20, FS_Subset DEF Unlink
    <3> QED BY <1>2, <1>3, <2>4, <2>5, <3>1, <3>2 DEF Quota
  <2> QED BY <1>4, <2>8, <2>9, <2>10, <2>11, <2>12, <2>13, <2>14, <2>15, <2>16, <2>17, <2>18,
             <2>19, <2>20 DEF CallStep, Step
<1>5. CASE UNCHANGED <<calls, stored>>
  BY <1>5 DEF Quota, Adding, Counted
<1>6. CASE Restart
  <2>1. Adding' = {} /\ stored' = stored
    BY <1>6 DEF Restart, Adding, Counted, Idle, Call
  <2>2. Cardinality(Adding') = 0
    BY <2>1, FS_EmptySet
  <2>3. Cardinality(Adding) \in Nat /\ Cardinality(Caller) \in Nat
    BY ConfigsAssumption, FS_Subset, FS_CardinalityType DEF Adding
  <2> QED BY <1>2, <1>3, <2>1, <2>2, <2>3 DEF Quota
<1>7. ReadConfig \/ TunnelStep \/ CloseServer \/ UNCHANGED vars => UNCHANGED <<calls, stored>>
  BY DEF ReadConfig, TunnelStep, CloseServer, vars, disk
<1> QED BY <1>4, <1>5, <1>6, <1>7 DEF Next, CallStep

-----------------------------------------------------------------------------
(* The tunnel. A config becomes active by an attempt only.                  *)
LEMMA AskedStep == Types /\ Asked /\ [Next]_vars => Asked'
<1> SUFFICES ASSUME Types, Asked, [Next]_vars PROVE Asked'
  OBVIOUS
<1>1. ASSUME NEW c \in Caller, CallStep(c) PROVE Asked'
  <2>1. calls[c] \in CallType /\ calls' = [calls EXCEPT ![c] = calls'[c]]
    BY <1>1, OwnCall DEF Types
  <2>2. \A d \in Caller \ {c} : calls'[d] = calls[d]
    BY <2>1 DEF Types
  <2>3. UNCHANGED conn
    BY <1>1 DEF CallStep, Step, Add, StoreValidate, Remove, CountConfigs, WriteStaging, Settle,
                Admit, Enter, Acquire, Abandon, XrayExits, Leave, Unlink, tunnel
  <2>4. overtaken \ {c} \subseteq overtaken'
    BY <1>1 DEF CallStep, Step, Add, StoreValidate, Remove, CountConfigs, WriteStaging, Settle,
                Admit, Enter, Acquire, Abandon, XrayExits, Leave, Unlink
  <2>5. calls'[c].at = "unlink" => ~IsActive(calls'[c].id)
    <3>1. CASE Remove(c)
      BY <2>1, <3>1 DEF Remove, Call, Types
    <3>2. CASE ~Remove(c)
      <4>1. calls'[c].at # "unlink"
        <5> USE DEF CallType, Idle, Call, At, Types
        <5>1. CASE Add(c) \/ StoreValidate(c)
          BY <2>1, <5>1 DEF Add, StoreValidate
        <5>2. CASE CountConfigs(c) \/ WriteStaging(c) \/ Settle(c) \/ Unlink(c)
          BY <2>1, <5>2 DEF CountConfigs, WriteStaging, Settle, Unlink, Move
        <5>3. CASE Admit(c) \/ Enter(c) \/ Acquire(c)
          BY <2>1, <5>3 DEF Admit, Enter, Acquire, Move, Finish
        <5>4. CASE Abandon(c) \/ XrayExits(c) \/ Leave(c)
          BY <2>1, <5>4 DEF Abandon, XrayExits, Leave, Finish
        <5> QED BY <1>1, <3>2, <5>1, <5>2, <5>3, <5>4 DEF CallStep, Step
      <4> QED BY <4>1
    <3> QED BY <3>1, <3>2
  <2>6. ASSUME NEW d \in Caller, calls'[d].at = "unlink", IsActive(calls[d].id)'
        PROVE  d \in overtaken'
    <3>1. IsActive(calls'[d].id)
      BY <2>3, <2>6, Zenon DEF IsActive
    <3>2. d # c
      BY <2>5, <2>6, <3>1
    <3> QED BY <2>2, <2>4, <2>6, <3>1, <3>2 DEF Asked, At
  <2> QED BY <2>6 DEF Asked, At
<1>2. CASE TunnelStep
  <2>1. calls' = calls
    BY <1>2 DEF TunnelStep
  <2>2. CASE conn'.state = "Validating" /\ conn.state # "Validating"
    BY <1>2, <2>1, <2>2 DEF TunnelStep, Asked, At
  <2>3. CASE ~(conn'.state = "Validating" /\ conn.state # "Validating")
    <3>1. overtaken' = overtaken
      BY <1>2, <2>3 DEF TunnelStep
    <3>2. \A d \in Caller : IsActive(calls[d].id)' => IsActive(calls[d].id)
      BY <1>2, <2>1, <2>3
         DEF TunnelStep, IsActive, Service!Attempt, Service!Close, Service!Progress,
             Service!Establish, Service!Fail, Service!TakeBack, Service!Closed,
             Service!Dismiss, Service!Status
    <3> QED BY <2>1, <3>1, <3>2 DEF Asked, At, IsActive
  <2> QED BY <2>2, <2>3
<1>3. CASE CloseServer \/ Restart
  <2>1. conn'.state = "Disconnected"
    BY <1>3 DEF CloseServer, Restart, Service!Status
  <2> QED BY <2>1 DEF Asked, IsActive
<1>4. CASE UNCHANGED vars
  BY <1>4 DEF vars, tunnel, Asked, At, IsActive
<1>5. CASE ReadConfig
  BY <1>5 DEF ReadConfig, Asked, At, IsActive
<1> QED BY <1>1, <1>2, <1>3, <1>4, <1>5 DEF Next, CallStep

-----------------------------------------------------------------------------
IInv == Types /\ Files /\ Owned /\ Limiter /\ Quota /\ Asked

LEMMA IInvInit == Init => IInv
<1> SUFFICES ASSUME Init PROVE IInv
  OBVIOUS
<1>1. \A c \in Caller : calls[c] = Idle
  BY DEF Init
<1>2. conn.configID = NoConfig /\ next = NoConfig /\ stopping = FALSE /\ reads = 0
  BY DEF Init, Service!Init, Service!Status
<1>3. Idle \in CallType
  BY DEF Idle, Call, CallType, Op, Stage, Verdict
<1>4. 0 \in 0 .. MaxAdds
  BY ConfigsAssumption
<1>5. Types
  <2>1. calls \in [Caller -> CallType]
    BY <1>3 DEF Init
  <2>2. stopping \in BOOLEAN
    BY <1>2
  <2>3. minted \in 0 .. MaxAdds /\ waiters \in Int /\ running \in Int
    BY <1>4 DEF Init
  <2> QED BY <1>2, <2>1, <2>2, <2>3 DEF Init, Types
<1>6. \A c \in Caller : ~Staged(c) /\ ~Counted(c) /\ ~At(c, "unlink")
  BY <1>1 DEF Staged, Counted, At, Idle, Call
<1>7. Files /\ Owned /\ Asked
  BY <1>6 DEF Init, Files, Owned, Asked
<1>8. Running = {} /\ Inside = {}
  BY <1>1 DEF Running, Inside, At, Idle, Call
<1>9. Limiter
  BY <1>8, FS_EmptySet, ConfigsAssumption DEF Init, Limiter
<1>10. Quota
  <2>1. Adding = {} /\ stored = {}
    BY <1>6 DEF Init, Adding
  <2>2. Cardinality(Caller) \in Nat
    BY ConfigsAssumption, FS_CardinalityType
  <2> QED BY <2>1, <2>2, FS_EmptySet, ConfigsAssumption DEF Quota
<1> QED BY <1>5, <1>7, <1>9, <1>10 DEF IInv

LEMMA IInvStep == IInv /\ [Next]_vars => IInv'
BY TypesStep, FilesStep, LimiterStep, QuotaStep, AskedStep DEF IInv

LEMMA Invariance == Spec => []IInv
BY IInvInit, IInvStep, PTL DEF Spec

(* The counters are sizes of sets, so they are never negative.              *)
THEOREM TypeCorrect == Spec => []TypeOK
<1>1. IInv => TypeOK
  <2> SUFFICES ASSUME IInv PROVE TypeOK
    OBVIOUS
  <2>1. waiters \in Nat /\ running \in Nat
    BY ConfigsAssumption, FS_Subset, FS_CardinalityType DEF IInv, Limiter, Running, Inside
  <2>2. calls \in [Caller -> [op : Op, at : Stage, id : ConfigID \cup {NoConfig},
                             verdict : Verdict]]
    BY DEF IInv, Types, CallType
  <2> QED BY <2>1, <2>2 DEF IInv, Types, TypeOK
<1> QED BY <1>1, Invariance, PTL

(* What List and Connect can see was accepted by xray (Store.Add).          *)
THEOREM PublishedSound == Spec => []StoredIsSound
<1>1. IInv => StoredIsSound
  BY DEF IInv, Files, StoredIsSound
<1> QED BY <1>1, Invariance, PTL

(* The limiter counts the calls that are in it, however they end, and xray  *)
(* runs MaxValidateConcurrent times at most (validate.go).                  *)
THEOREM LimiterCounts == Spec => []LimiterExact
<1>1. IInv => LimiterExact
  BY DEF IInv, Limiter, Running, Inside, LimiterExact
<1> QED BY <1>1, Invariance, PTL

(* A staging file belongs to an Add underway, or a crash or a failed        *)
(* removal has left it.                                                     *)
THEOREM StagingAccounted == Spec => []StagingOwned
<1>1. IInv => StagingOwned
  BY DEF IInv, Owned, Staged, StagingOwned
<1> QED BY <1>1, Invariance, PTL

(* The registry exceeds its cap by less than the number of the connections. *)
THEOREM QuotaBounded == Spec => []QuotaBound
<1>1. IInv => QuotaBound
  <2> SUFFICES ASSUME IInv PROVE QuotaBound
    OBVIOUS
  <2>1. Cardinality(Adding) \in Nat /\ Cardinality(Caller) \in Nat
    BY ConfigsAssumption, FS_Subset, FS_CardinalityType DEF Adding
  <2>2. Cardinality(stored) \in Nat
    <3>1. IsFiniteSet(ConfigID)
      BY ConfigsAssumption, FS_Interval DEF ConfigID
    <3> QED BY <3>1, FS_Subset, FS_CardinalityType DEF IInv, Types
  <2> QED BY <2>1, <2>2, ConfigsAssumption DEF IInv, Quota, QuotaBound
<1> QED BY <1>1, Invariance, PTL

(* A removal takes the file of a live tunnel only when the attempt began    *)
(* after the check (handleConfigsRemove).                                   *)
THEOREM RemovalAsked == Spec => RemovalRespectsTunnel
<1>1. IInv => [\A c \in Caller :
                  Unlink(c) /\ IsActive(calls[c].id) => c \in overtaken]_vars
  BY DEF IInv, Asked, Unlink
<1> QED BY <1>1, Invariance, PTL DEF RemovalRespectsTunnel

-----------------------------------------------------------------------------
(* The registry as its users see it. An id is in one place only, and is not *)
(* known to be sound once it is in none.                                    *)
Apart ==
    /\ stored \subseteq 1 .. minted /\ stored \cap staging = {}
    /\ sound \subseteq stored \cup (staging \ leaked)

(* The steps that touch the files or the history of the leaks.              *)
LEMMA FileSteps ==
    ASSUME NEW c \in Caller, CallStep(c)
    PROVE  WriteStaging(c) \/ Settle(c) \/ Unlink(c) \/ UNCHANGED <<disk, leaked>>
BY DEF CallStep, Step, Add, StoreValidate, Remove, CountConfigs, Admit, Enter, Acquire,
       Abandon, XrayExits, Leave

LEMMA ApartStep == Types /\ Files /\ Apart /\ [Next]_vars => Apart'
<1> SUFFICES ASSUME Types, Files, Apart, [Next]_vars PROVE Apart'
  OBVIOUS
<1>1. CASE UNCHANGED <<disk, leaked>>
  BY <1>1 DEF disk, Apart
<1>2. ASSUME NEW c \in Caller, WriteStaging(c) PROVE Apart'
  <2>1. stored' = stored /\ leaked' = leaked
    BY <1>2 DEF WriteStaging
  <2>2. CASE UNCHANGED <<staging, minted, sound>>
    BY <2>1, <2>2 DEF Apart
  <2>3. CASE /\ minted' = minted + 1
             /\ staging' = staging \cup {minted + 1}
             /\ sound' \in {sound, sound \cup {minted + 1}}
    <3>1. minted + 1 \notin 1 .. minted /\ 1 .. minted \subseteq 1 .. minted'
      BY <2>3, ConfigsAssumption DEF Types
    <3>2. minted + 1 \notin stored /\ minted + 1 \notin leaked
      BY <3>1 DEF Apart, Files
    <3> QED BY <2>1, <2>3, <3>1, <3>2 DEF Apart
  <2> QED BY <1>2, <2>2, <2>3 DEF WriteStaging
<1>3. ASSUME NEW c \in Caller, Settle(c) PROVE Apart'
  <2>1. Staged(c)
    BY <1>3 DEF Settle, At, Types, CallType, Staged
  <2>2. calls[c].id \in staging /\ calls[c].id \in 1 .. minted
    BY <2>1 DEF Files
  <2>3. stored' \subseteq 1 .. minted' /\ stored' \cap staging' = {}
    BY <1>3, <2>2, SettleFiles DEF Apart
  <2>4. sound' \subseteq stored' \cup (staging' \ leaked')
    BY <1>3, SettleFiles
  <2> QED BY <2>3, <2>4 DEF Apart
<1>4. ASSUME NEW c \in Caller, Unlink(c) PROVE Apart'
  BY <1>4 DEF Unlink, Apart
<1>5. CASE Restart
  <2>1. /\ stored' = stored /\ staging' = staging /\ leaked' = staging
        /\ minted' = minted /\ sound' = sound \cap stored
    BY <1>5 DEF Restart
  <2> QED BY <2>1 DEF Apart
<1>6. ReadConfig \/ TunnelStep \/ CloseServer \/ UNCHANGED vars => UNCHANGED <<disk, leaked>>
  BY DEF ReadConfig, TunnelStep, CloseServer, vars
<1>7. ASSUME NEW c \in Caller, CallStep(c) PROVE Apart'
  BY <1>1, <1>2, <1>3, <1>4, <1>7, FileSteps
<1> QED BY <1>1, <1>5, <1>6, <1>7 DEF Next, CallStep

(* A call shows when it makes an id, settles or unlinks, and at no other    *)
(* step.                                                                    *)
LEMMA MakeShows ==
    ASSUME Types, Files, Apart, NEW c \in Caller, WriteStaging(c)
    PROVE  [Registry!Next]_Registry!vars
<1>1. CASE UNCHANGED <<staging, minted, sound>>
  BY <1>1 DEF WriteStaging, Registry!vars
<1>2. CASE /\ minted' = minted + 1
           /\ staging' = staging \cup {minted + 1}
           /\ sound' \in {sound, sound \cup {minted + 1}}
  <2>1. minted + 1 \notin leaked
    BY ConfigsAssumption DEF Types, Files
  <2>2. UNCHANGED <<stored, leaked>>
    BY DEF WriteStaging
  <2>3. staging' \ leaked' = (staging \ leaked) \cup {minted + 1}
    BY <1>2, <2>1, <2>2
  <2> QED BY <1>2, <2>2, <2>3 DEF Registry!Next, Registry!Make
<1> QED BY <1>1, <1>2 DEF WriteStaging

LEMMA SettleShows ==
    ASSUME Types, Files, Apart, QuotaBound', NEW c \in Caller, Settle(c)
    PROVE  Registry!Next
<1> DEFINE id == calls[c].id
<1>1. Staged(c)
  BY DEF Settle, At, Types, CallType, Staged
<1>2. id \in staging \ leaked /\ id \notin stored
  BY <1>1 DEF Files, Apart
<1>3. /\ staging' \ leaked' = (staging \ leaked) \ {id} /\ minted' = minted
      /\ sound' = sound \cap (stored' \cup (staging' \ leaked'))
      /\ stored' = stored \/ (calls[c].verdict = "ok" /\ stored' = stored \cup {id})
  BY <1>2, SettleFiles
<1>4. CASE stored' = stored
  <2>1. sound' = sound \ {id}
    BY <1>2, <1>3, <1>4 DEF Apart
  <2> QED BY <1>2, <1>3, <1>4, <2>1 DEF Registry!Next, Registry!Refuse
<1>5. CASE calls[c].verdict = "ok" /\ stored' = stored \cup {id}
  <2>1. id \in sound
    BY <1>1, <1>5 DEF Files
  <2>2. sound' = sound
    BY <1>2, <1>3, <1>5 DEF Apart
  <2>3. Cardinality(stored') < MaxConfigs + Cardinality(Caller)
    BY DEF QuotaBound
  <2>4. Registry!Cardinality(stored') = Cardinality(stored')
    BY DEF Cardinality, Registry!Cardinality
  <2> QED BY <1>2, <1>3, <1>5, <2>1, <2>2, <2>3, <2>4 DEF Registry!Next, Registry!Publish
<1> QED BY <1>3, <1>4, <1>5

LEMMA UnlinkShows ==
    ASSUME Apart, NEW c \in Caller, Unlink(c)
    PROVE  [Registry!Next]_Registry!vars
<1> DEFINE id == calls[c].id
<1>1. /\ stored' = stored \ {id} /\ sound' = sound \cap (stored' \cup staging)
      /\ UNCHANGED <<staging, minted, leaked>>
  BY DEF Unlink
<1>2. CASE id \in stored
  <2>1. sound' = sound \ {id}
    BY <1>1, <1>2 DEF Apart
  <2> QED BY <1>1, <1>2, <2>1 DEF Registry!Next, Registry!Remove
<1>3. CASE id \notin stored
  <2>1. stored' = stored /\ sound' = sound
    BY <1>1, <1>3 DEF Apart
  <2> QED BY <1>1, <2>1 DEF Registry!vars
<1> QED BY <1>2, <1>3

LEMMA StepShows ==
    ASSUME Types, Files, Apart, QuotaBound', [Next]_vars
    PROVE  [Registry!Next]_Registry!vars
<1>1. ASSUME NEW c \in Caller, CallStep(c) PROVE [Registry!Next]_Registry!vars
  <2>1. CASE WriteStaging(c)
    BY <2>1, MakeShows
  <2>2. CASE Settle(c)
    BY <2>2, SettleShows
  <2>3. CASE Unlink(c)
    BY <2>3, UnlinkShows
  <2>4. CASE UNCHANGED <<disk, leaked>>
    BY <2>4 DEF disk, Registry!vars
  <2> QED BY <1>1, <2>1, <2>2, <2>3, <2>4, FileSteps
<1>2. CASE ReadConfig \/ TunnelStep \/ CloseServer \/ UNCHANGED vars
  <2>1. UNCHANGED <<disk, leaked>>
    BY <1>2 DEF ReadConfig, TunnelStep, CloseServer, vars
  <2> QED BY <2>1 DEF disk, Registry!vars
<1>3. CASE Restart
  <2>1. staging' \ leaked' = {}
    BY <1>3 DEF Restart
  <2> QED BY <1>3, <2>1 DEF Restart, Registry!Next, Registry!Crash
<1> QED BY <1>1, <1>2, <1>3 DEF Next, CallStep

(* Configs implements Registry: an Add publishes in one step what xray      *)
(* accepted or nothing at all, no id returns, and a crash takes what is     *)
(* pending and nothing else, whatever the calls do in between (Store).      *)
THEOREM RegistryRefined == Spec => RegistrySpec
<1>1. Init => Apart /\ Registry!Init
  <2> SUFFICES ASSUME Init PROVE Apart /\ Registry!Init
    OBVIOUS
  <2>1. \A c \in Caller : ~Staged(c)
    BY DEF Init, Staged, Idle, Call
  <2> QED BY <2>1 DEF Init, Apart, Registry!Init
<1>2. IInv /\ Apart /\ [Next]_vars => Apart'
  BY ApartStep DEF IInv
<1>3. QuotaBound' /\ IInv /\ Apart /\ [Next]_vars => [Registry!Next]_Registry!vars
  BY StepShows DEF IInv
<1> QED BY <1>1, <1>2, <1>3, Invariance, QuotaBounded, PTL
       DEF Spec, RegistrySpec, Registry!Spec
=============================================================================

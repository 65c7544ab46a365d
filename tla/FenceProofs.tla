---------------------------- MODULE FenceProofs -----------------------------
(* Machine-checked proofs about two of those who work under the maintenance    *)
(* fence: the blobs of the CAS (CasLifecycle), for every set of records,       *)
(* blobs and repositories; and a configuration reload (ConfigReload), for      *)
(* every set of configurations and every number of edits, faults and cues.     *)
EXTENDS CasLifecycle, ConfigReload, TLAPS

-----------------------------------------------------------------------------
(* CasLifecycle.                                                               *)

\* The blob lifecycle starts within its invariant: nothing is published yet.
LEMMA LifecycleStarts == LifecycleInit => LifecycleInv
BY LifecycleAssumption
   DEF LifecycleInit, LifecycleInv, LifecycleTypeOK, Alone, PublishedKept, NeededKept, Needed

\* Every step of a publisher, ingester or deleter keeps the invariant.
LEMMA LifecycleMoves == LifecycleInv /\ [LifecycleNext]_lifecycleVars => LifecycleInv'
<1> SUFFICES ASSUME LifecycleInv, [LifecycleNext]_lifecycleVars PROVE LifecycleInv'
  OBVIOUS
<1> USE LifecycleAssumption DEF LifecycleInv, LifecycleTypeOK, Alone, PublishedKept, NeededKept,
                                Needed, Visible
<1>1. CASE UNCHANGED lifecycleVars
  BY <1>1 DEF lifecycleVars
<1>2. ASSUME NEW h \in Records \cup Ingesters, Share(h) PROVE LifecycleInv'
  BY <1>2 DEF Share
<1>3. ASSUME NEW r \in Records, PublishBlob(r) PROVE LifecycleInv'
  BY <1>3 DEF PublishBlob
<1>4. ASSUME NEW r \in Records, Refer(r) PROVE LifecycleInv'
  \* The blob of the new frame exists because its publisher held the fence.
  BY <1>4 DEF Refer
<1>5. ASSUME NEW r \in Records, Commit(r) PROVE LifecycleInv'
  BY <1>5 DEF Commit
<1>6. CASE Withdraw
  <2>1. LifecycleTypeOK' /\ PublishedKept' /\ NeededKept'
    BY <1>6 DEF Withdraw
  <2>2. Alone'
    BY <1>6, Zenon DEF Withdraw
  <2>3. QED
    BY <2>1, <2>2
<1>7. ASSUME NEW S \in SUBSET Records, Acknowledge(S) PROVE LifecycleInv'
  BY <1>7 DEF Acknowledge
<1>8. ASSUME NEW S \in SUBSET Records, Preserve(S) PROVE LifecycleInv'
  BY <1>8 DEF Preserve
<1>9. ASSUME NEW p \in Repos, Purge(p) PROVE LifecycleInv'
  BY <1>9 DEF Purge
<1>10. CASE Exclude
  BY <1>10 DEF Exclude
<1>11. ASSUME NEW D \in SUBSET Blobs, Delete(D) PROVE LifecycleInv'
  \* Alone leaves no publisher at work, so nothing but Needed is at stake.
  BY <1>11 DEF Delete
<1>12. QED
  BY <1>1, <1>2, <1>3, <1>4, <1>5, <1>6, <1>7, <1>8, <1>9, <1>10, <1>11 DEF LifecycleNext

\* The invariant of the blob lifecycle: types, the exclusive fence, published
\* blobs and referenced blobs (MaintenanceFence and its users).
THEOREM LifecycleInvariance == LifecycleSpec => []LifecycleInv
BY LifecycleStarts, LifecycleMoves, PTL DEF LifecycleSpec

\* A blob that a spool frame or a visible receipt refers to is never deleted,
\* for any number of hooks, ingesters, collectors and purges.
THEOREM NeededBlobsKept == LifecycleSpec => []NeededKept
<1>1. LifecycleInv => NeededKept
  BY DEF LifecycleInv
<1>2. QED
  BY <1>1, LifecycleInvariance, PTL

-----------------------------------------------------------------------------
(* ConfigReload: the inductive invariant.                                     *)

Snapshot == [cfg : Valid, gen : Nat, cues : 0 .. MaxCues]
Files == [v : Valid \cup {Bad}, id : 0 .. MaxEdits + 1, faults : 0 .. MaxFaults]
Content == [v : Valid \cup {Bad}, id : Nat]

\* What an operation in progress carries.
Boots == [pc : {"prepared", "check", "commit"}, file : Content, rt : Snapshot]
Reloads == [pc : {"reject", "restart", "prepare", "gate", "check", "commit", "rollback", "rolled"},
            file : Content, prev : Snapshot, old : Valid]
Writes == [pc : {"write", "rename"}, v : Valid, file : Content]

Typed ==
  /\ file \in Files
  /\ rt \in Snapshot /\ worker \in Snapshot
  /\ applied \in Valid /\ mem \in Valid /\ pending \in Valid \cup {None}
  /\ daemon \in {"down", "boot", "up"} /\ stopped \in BOOLEAN
  /\ gate \in BOOLEAN /\ fence \in {"free", "hook", "reload"}

\* The locks belong to the operation that took them.
Guarded == {"check", "commit", "rollback", "rolled"}
Locked ==
  /\ (fence = "reload") = (op.pc \in Guarded)
  /\ gate = (daemon = "up" /\ op.pc \in Guarded)

\* A start is about one snapshot, whose generation nobody has seen.
Booting ==
  daemon = "boot" =>
    /\ op \in Boots /\ ~stopped
    /\ op.file.v \in Valid /\ op.file.v = mem /\ op.rt.cfg = mem
    /\ op.pc # "commit" => op.rt.gen = rt.gen + 1
    /\ op.pc = "commit" => rt = op.rt

\* An operation works on the snapshot and the memory it read, and on the input that
\* was judged last; a valid one unless it is about to be rejected.
Reloading ==
  op \in Reloads =>
    /\ op.file.v = judged
    /\ op.pc # "reject" => op.file.v \in Valid
    /\ op.pc \notin {"commit", "rollback"} => rt = op.prev /\ mem = op.old
    /\ op.pc \in {"commit", "rollback"} =>
         /\ rt = [op.prev EXCEPT !.cfg = op.file.v] /\ mem = op.file.v
         /\ applied = op.old /\ op.prev.cfg = op.old

Operating ==
  /\ daemon = "down" => op = Idle
  /\ daemon = "up" =>
       /\ op \in {Idle, [pc |-> "read"]} \cup Reloads \cup Writes
       /\ op # Idle => ~stopped
       /\ op \in Writes => file.id <= MaxEdits
       /\ Reloading

\* While the daemon serves, the three copies agree unless a reload is between its
\* publication and its commit, and the recall worker knows the snapshot's cues.
InStep ==
  daemon = "up" /\ ~stopped =>
    /\ op.pc \notin {"commit", "rollback"} => mem = rt.cfg /\ mem = applied
    /\ worker.gen = rt.gen /\ worker.cues = rt.cues

Announced == pending \in {None, judged}

IInv == Typed /\ Locked /\ Booting /\ Operating /\ InStep /\ Announced /\ AdmittedIsApplied

-----------------------------------------------------------------------------
(* What an operation is, by its program counter.                              *)

LEMMA OpOf ==
  ASSUME Operating, daemon = "up"
  PROVE  /\ op.pc = "idle" => op = Idle
         /\ op.pc = "read" => op = [pc |-> "read"]
         /\ op.pc \in {"reject", "restart", "prepare", "gate"} \cup Guarded => op \in Reloads
         /\ op.pc \in {"write", "rename"} => op \in Writes
         /\ op \in Reloads => op \notin Writes /\ op # Idle
BY DEF Operating, Idle, Reloads, Writes, Guarded

LEMMA ReloadMoves ==
  ASSUME op \in Reloads,
         NEW p \in {"reject", "restart", "prepare", "gate", "check", "commit", "rollback", "rolled"}, Step(p)
  PROVE  /\ op' \in Reloads /\ op'.pc = p
         /\ op'.file = op.file /\ op'.prev = op.prev /\ op'.old = op.old
BY DEF Reloads, Step

LEMMA BootMoves ==
  ASSUME op \in Boots, NEW p \in {"prepared", "check", "commit"}, Step(p)
  PROVE  op' \in Boots /\ op'.pc = p /\ op'.file = op.file /\ op'.rt = op.rt
BY DEF Boots, Step

LEMMA FaultTyped ==
  ASSUME Typed, Fault
  PROVE  /\ file' \in Files
         /\ file'.v = file.v /\ file'.id = file.id
<1>1. PICK n \in 0 .. MaxFaults : n = file.faults + 1
  BY ConfigAssumption DEF ConfigAssumption, Files, Typed, Fault
<1>2. file' = [file EXCEPT !.faults = n]
  BY <1>1 DEF Fault
<1> QED BY <1>2 DEF Files, Typed

\* The operation returns: nothing but its locks is left of it.
LEMMA Returns ==
  ASSUME IInv, Typed', op' = Idle, Unlock,
         daemon' = "down" \/ (daemon' = "up" /\ (~stopped' =>
             mem' = rt'.cfg /\ mem' = applied' /\ worker'.gen = rt'.gen /\ worker'.cues = rt'.cues)),
         pending' \in {None, judged'}, used' = used
  PROVE  IInv'
<1>1. Locked'
  BY DEF IInv, Files, Typed, Locked, Unlock, Guarded, Idle
<1>2. Booting' /\ Operating'
  BY DEF Booting, Operating, Reloading, Idle, Reloads, Writes
<1>3. InStep' /\ Announced' /\ AdmittedIsApplied'
  BY DEF IInv, InStep, Announced, AdmittedIsApplied
<1> QED BY <1>1, <1>2, <1>3 DEF IInv

-----------------------------------------------------------------------------
(* The world around the service.                                              *)

\* Everything but the file stays: so does everything that is said about it.
LEMMA FileMoves ==
  ASSUME IInv, file' \in Files,
         file'.id <= MaxEdits \/ file'.id = file.id,
         UNCHANGED <<rt, applied, daemon, memory, locks, op, used>>
  PROVE  IInv'
<1>1. Typed' /\ Locked' /\ Booting'
  BY DEF IInv, Files, Typed, Locked, Booting, memory, locks
<1>2. Operating'
  <2>1. Reloading' = Reloading
    BY DEF Reloading, memory
  <2> QED BY <2>1 DEF IInv, Operating, memory
<1>3. InStep' /\ Announced' /\ AdmittedIsApplied'
  BY DEF IInv, InStep, Announced, AdmittedIsApplied, memory
<1> QED BY <1>1, <1>2, <1>3 DEF IInv

LEMMA Edits ==
  ASSUME IInv, NEW v \in Valid \cup {Bad}, Edit(v)
  PROVE  IInv'
<1>1. PICK n \in Nat : n = file.id + 1 /\ n <= MaxEdits
  BY ConfigAssumption DEF ConfigAssumption, IInv, Files, Typed, Edit
<1>2. file' = [file EXCEPT !.v = v, !.id = n]
  BY <1>1 DEF Edit
<1>a. n \in 0 .. MaxEdits + 1
  BY <1>1, ConfigAssumption DEF ConfigAssumption
<1>3. file' \in Files /\ file'.id = n
  BY <1>a, <1>2 DEF IInv, Files, Typed
<1> QED BY <1>1, <1>3, FileMoves DEF Edit

LEMMA HookHoldsKeeps ==
  ASSUME IInv, HookHolds
  PROVE  IInv'
<1>1. Typed' /\ Locked' /\ Booting'
  BY DEF IInv, Files, Typed, Locked, Booting, memory, durable, HookHolds
<1>2. Operating'
  BY DEF IInv, Operating, Reloading, memory, durable, HookHolds
<1>3. InStep' /\ Announced' /\ AdmittedIsApplied'
  BY DEF IInv, InStep, Announced, AdmittedIsApplied, memory, durable, HookHolds
<1> QED BY <1>1, <1>2, <1>3 DEF IInv

LEMMA Admits ==
  ASSUME IInv, Admit
  PROVE  IInv'
<1>1. Typed' /\ Locked' /\ Booting'
  BY DEF IInv, Files, Typed, Locked, Booting, memory, durable, locks, Admit
<1>2. Operating'
  BY DEF IInv, Operating, Reloading, memory, durable, locks, Admit
<1>3. InStep' /\ Announced'
  BY DEF IInv, InStep, Announced, memory, durable, locks, Admit
<1>4. mem = applied
  BY DEF IInv, Locked, InStep, Admit, Serving, Guarded
<1>5. AdmittedIsApplied'
  BY <1>4 DEF IInv, AdmittedIsApplied, Admit
<1> QED BY <1>1, <1>2, <1>3, <1>5 DEF IInv

LEMMA GoesDown ==
  ASSUME IInv, UNCHANGED file \/ Fault, Down
  PROVE  IInv'
<1>1. Typed'
  BY FaultTyped DEF IInv, Files, Typed, Down, Unlock, memory
<1> QED BY <1>1, Returns DEF IInv, Announced, Down, memory

LEMMA ShutdownKeeps ==
  ASSUME IInv, Shutdown
  PROVE  IInv'
BY GoesDown DEF Shutdown

LEMMA CrashKeeps ==
  ASSUME IInv, Crash
  PROVE  IInv'
BY GoesDown DEF Crash

-----------------------------------------------------------------------------
(* Start.                                                                     *)

LEMMA BootReads ==
  ASSUME IInv, BootRead
  PROVE  IInv'
<1>1. PICK g \in Nat : g = rt.gen + 1
  BY DEF IInv, Files, Typed, Snapshot
<1>2. PICK c \in 0 .. MaxCues : c = 0
  BY ConfigAssumption DEF ConfigAssumption
<1>3. PICK s \in Snapshot : s = [cfg |-> file.v, gen |-> g, cues |-> c] /\ s = prepare_recovery_runtime
  BY <1>1, <1>2 DEF BootRead, Snapshot, prepare_recovery_runtime
<1>4. s.cfg = file.v /\ s.gen = rt.gen + 1
  BY <1>1, <1>3
<1>a. Input \in Content /\ Input.v = file.v
  BY DEF IInv, Files, Typed, Input, Content
<1>5. PICK in \in Content : in = Input /\ in.v = file.v
  BY <1>a
<1>6. op' = [pc |-> "prepared", file |-> in, rt |-> s]
  BY <1>3, <1>5 DEF BootRead
<1>7. op' \in Boots /\ op'.pc = "prepared" /\ op'.file = in /\ op'.rt = s
  BY <1>6 DEF Boots
<1>8. Typed'
  BY DEF IInv, Files, Typed, BootRead, durable, locks
<1>9. Locked'
  BY <1>7, OpOf DEF IInv, Files, Typed, Locked, BootRead, locks, Guarded, Operating, Idle
<1>10. Booting'
  BY <1>7, <1>4, <1>5 DEF Booting, BootRead, durable
<1>11. Operating' /\ InStep' /\ Announced' /\ AdmittedIsApplied'
  BY DEF IInv, Operating, Reloading, InStep, Announced, AdmittedIsApplied, BootRead
<1> QED BY <1>8, <1>9, <1>10, <1>11 DEF IInv

LEMMA BootReturns ==
  ASSUME IInv, BootFails, UNCHANGED file \/ Fault, applied' \in Valid
  PROVE  IInv'
<1>1. Typed'
  BY FaultTyped DEF IInv, Files, Typed, BootFails, Return, Unlock, memory
<1> QED BY <1>1, Returns DEF IInv, Announced, BootFails, Return, memory

LEMMA BootFenceKeeps ==
  ASSUME IInv, BootFence
  PROVE  IInv'
<1>1. CASE fence = "hook" /\ Fault /\ BootFails /\ UNCHANGED applied
  BY <1>1, BootReturns DEF IInv, Files, Typed
<1>2. CASE /\ fence = "free" /\ fence' = "reload" /\ Step("check")
           /\ UNCHANGED <<durable, daemon, memory, gate, used>>
  <2>1. op \in Boots /\ op' \in Boots /\ op'.pc = "check" /\ op'.file = op.file /\ op'.rt = op.rt
    BY <1>2, BootMoves DEF IInv, Booting, BootFence
  <2>2. Typed' /\ Locked'
    BY <1>2, <2>1 DEF IInv, Files, Typed, Locked, Guarded, BootFence, durable, memory
  <2>3. Booting'
    BY <1>2, <2>1 DEF IInv, Booting, BootFence, durable, memory
  <2>4. Operating' /\ InStep' /\ Announced' /\ AdmittedIsApplied'
    BY <1>2 DEF IInv, Operating, Reloading, InStep, Announced, AdmittedIsApplied, BootFence, durable, memory
  <2> QED BY <2>2, <2>3, <2>4 DEF IInv
<1> QED BY <1>1, <1>2 DEF BootFence

LEMMA BootCheckKeeps ==
  ASSUME IInv, BootCheck
  PROVE  IInv'
<1>1. CASE Input # op.file /\ BootFails /\ UNCHANGED <<file, applied>>
  BY <1>1, BootReturns DEF IInv, Files, Typed
<1>2. CASE /\ Input = op.file /\ rt' = op.rt /\ Step("commit")
           /\ UNCHANGED <<file, applied, daemon, memory, locks, used>>
  <2>1. op \in Boots /\ op' \in Boots /\ op'.pc = "commit" /\ op'.file = op.file /\ op'.rt = op.rt
    BY <1>2, BootMoves DEF IInv, Booting, BootCheck
  <2>2. rt' \in Snapshot
    BY <1>2, <2>1 DEF Boots
  <2>3. Typed' /\ Locked'
    BY <1>2, <2>1, <2>2 DEF IInv, Files, Typed, Locked, Guarded, BootCheck, locks, memory
  <2>4. Booting'
    BY <1>2, <2>1 DEF IInv, Booting, BootCheck, memory
  <2>5. Operating' /\ InStep' /\ Announced' /\ AdmittedIsApplied'
    BY <1>2 DEF IInv, Operating, Reloading, InStep, Announced, AdmittedIsApplied, BootCheck, memory
  <2> QED BY <2>3, <2>4, <2>5 DEF IInv
<1> QED BY <1>1, <1>2 DEF BootCheck

LEMMA BootCommits ==
  ASSUME IInv, BootCommit
  PROVE  IInv'
<1>1. op \in Boots /\ op.file.v \in Valid /\ op.file.v = mem /\ op.rt.cfg = mem /\ rt = op.rt
  BY DEF IInv, Booting, BootCommit
<1>2. CASE Fault /\ applied' \in {applied, op.file.v} /\ BootFails
  BY <1>1, <1>2, BootReturns DEF IInv, Files, Typed
<1>3. CASE /\ applied' = op.file.v /\ daemon' = "up"
           /\ observed' = op.file /\ worker' = rt /\ Return
           /\ UNCHANGED <<file, rt, mem, pending, stopped, editor, judged, used>>
  <2>1. Typed'
    BY <1>1, <1>3 DEF IInv, Files, Typed, Return, Unlock
  <2> QED BY <1>1, <1>3, <2>1, Returns DEF IInv, Announced, Return
<1> QED BY <1>2, <1>3 DEF BootCommit

-----------------------------------------------------------------------------
(* How an operation ends.                                                     *)

\* Admission has ended: whatever the step left on disk and in the journal, nothing
\* is served from it.
LEMMA Stops ==
  ASSUME IInv, daemon = "up", stop, file' \in Files, rt' \in Snapshot, applied' \in Valid, mem' \in Valid,
         UNCHANGED <<daemon, pending, worker, judged, used>>
  PROVE  IInv'
<1>1. Typed' /\ stopped'
  BY DEF IInv, Typed, stop, Return, Unlock
<1> QED BY <1>1, Returns DEF IInv, Announced, stop, Return

\* The operation has not published anything, or has put it back.
LEMMA EndsInStep ==
  ASSUME IInv, daemon = "up", op.pc \notin {"commit", "rollback"}, Return, file' \in Files,
         pending' \in {None, judged}, pending' \in Valid \cup {None},
         UNCHANGED <<rt, applied, daemon, mem, stopped, worker, judged, used>>
  PROVE  IInv'
<1>1. Typed'
  BY DEF IInv, Typed, Return, Unlock
<1> QED BY <1>1, Returns DEF IInv, InStep, Return

LEMMA AuditEndsKeeps ==
  ASSUME IInv, daemon = "up", op.pc \notin {"commit", "rollback"}, Unaudited, AuditEnds
  PROVE  IInv'
<1>1. file' \in Files
  BY FaultTyped DEF IInv, AuditEnds, AuditRefused, AuditUnknown
<1>2. CASE AuditRefused
  BY <1>1, <1>2, EndsInStep DEF IInv, Typed, Announced, AuditRefused, Unaudited
<1>3. CASE AuditUnknown
  BY <1>1, <1>3, Stops DEF IInv, Typed, AuditUnknown, Unaudited
<1> QED BY <1>2, <1>3 DEF AuditEnds

-----------------------------------------------------------------------------
(* Reload.                                                                    *)

LEMMA ReloadBegins ==
  ASSUME IInv, Free, op' = [pc |-> "read"], UNCHANGED <<durable, daemon, memory, locks, used>>
  PROVE  IInv'
<1>1. Typed' /\ Booting' /\ Announced' /\ AdmittedIsApplied'
  BY DEF IInv, Typed, Booting, Announced, AdmittedIsApplied, Free, Serving, durable, memory, locks
<1>2. Locked'
  BY DEF IInv, Locked, Guarded, Free, locks
<1>3. Operating'
  BY DEF Operating, Reloading, Reloads, Writes, Free, Serving, memory
<1>4. InStep'
  BY DEF IInv, InStep, Free, durable, memory
<1> QED BY <1>1, <1>2, <1>3, <1>4 DEF IInv

LEMMA ReadKeeps ==
  ASSUME IInv, Read
  PROVE  IInv'
<1>1. PICK p \in {"reject", "restart", "prepare"} : p = Candidate(file.v) /\ (p # "reject" => file.v \in Valid)
  BY DEF Candidate
<1>2. Input \in Content /\ Input.v = file.v
  BY DEF IInv, Files, Typed, Input, Content
<1>3. PICK in \in Content : in = Input
  BY <1>2
<1>4. op' = [pc |-> p, file |-> in, prev |-> rt, old |-> mem]
  BY <1>1, <1>3 DEF Read, ReadInput
<1>5. op' \in Reloads /\ op'.pc = p /\ op'.file = in /\ op'.prev = rt /\ op'.old = mem
  BY <1>4 DEF IInv, Typed, Reloads
<1>6. Typed' /\ Booting' /\ Announced' /\ AdmittedIsApplied'
  BY DEF IInv, Typed, Booting, Announced, AdmittedIsApplied, Read, ReadInput, At, durable, locks
<1>7. Locked'
  BY <1>5 DEF IInv, Locked, Guarded, Read, ReadInput, At, locks
<1>8. Operating'
  BY <1>1, <1>2, <1>3, <1>5, OpOf DEF IInv, Operating, Reloading, Read, ReadInput, At, durable, Reloads, Writes
<1>9. InStep'
  BY <1>5 DEF IInv, InStep, Read, ReadInput, At, durable
<1> QED BY <1>6, <1>7, <1>8, <1>9 DEF IInv

LEMMA RejectKeeps ==
  ASSUME IInv, Reject
  PROVE  IInv'
<1>1. CASE AuditEnds
  BY <1>1, AuditEndsKeeps DEF Reject, At
<1>2. CASE AuditOk /\ observed' = op.file /\ pending' = None /\ Return
  <2>1. file' \in Files
    BY <1>2 DEF IInv, Typed, AuditOk
  <2> QED BY <1>2, <2>1, EndsInStep DEF Reject, At, AuditOk, Unaudited
<1> QED BY <1>1, <1>2 DEF Reject

LEMMA RestartKeeps ==
  ASSUME IInv, Restart
  PROVE  IInv'
<1>1. CASE AuditEnds
  BY <1>1, AuditEndsKeeps DEF Restart, At
<1>2. CASE AuditOk /\ observed' = op.file /\ pending' = op.file.v /\ Return
  <2>1. file' \in Files
    BY <1>2 DEF IInv, Typed, AuditOk
  <2>2. op.file.v = judged /\ judged \in Valid
    BY OpOf DEF IInv, Operating, Reloading, Restart, At
  <2> QED BY <1>2, <2>1, <2>2, EndsInStep DEF Restart, At, AuditOk, Unaudited
<1> QED BY <1>1, <1>2 DEF Restart

LEMMA PrepareKeeps ==
  ASSUME IInv, Prepare
  PROVE  IInv'
<1>1. CASE AuditEnds
  BY <1>1, AuditEndsKeeps DEF Prepare, At
<1>2. CASE AuditOk /\ Step("gate") /\ UNCHANGED <<pending, observed, locks>>
  <2>1. op \in Reloads /\ op' \in Reloads /\ op'.pc = "gate"
        /\ op'.file = op.file /\ op'.prev = op.prev /\ op'.old = op.old
    BY <1>2, OpOf, ReloadMoves DEF IInv, Prepare, At
  <2>2. Typed' /\ Booting' /\ Announced' /\ AdmittedIsApplied'
    BY <1>2 DEF IInv, Typed, Booting, Announced, AdmittedIsApplied, Prepare, At, Unaudited, AuditOk, locks
  <2>3. Locked'
    BY <1>2, <2>1 DEF IInv, Locked, Guarded, Prepare, At, locks
  <2>4. Operating'
    BY <1>2, <2>1 DEF IInv, Operating, Reloading, Prepare, At, Unaudited, AuditOk, Reloads, Writes, Idle
  <2>5. InStep'
    BY <1>2, <2>1 DEF IInv, InStep, Prepare, At, Unaudited, AuditOk
  <2> QED BY <2>2, <2>3, <2>4, <2>5 DEF IInv
<1> QED BY <1>1, <1>2 DEF Prepare

LEMMA GateKeeps ==
  ASSUME IInv, Gate
  PROVE  IInv'
<1>1. CASE fence = "hook" /\ Fault /\ Return
  BY <1>1, FaultTyped, EndsInStep DEF IInv, Typed, Announced, Gate, At, memory
<1>2. CASE fence = "free" /\ gate' = TRUE /\ fence' = "reload" /\ Step("check") /\ UNCHANGED file
  <2>1. op \in Reloads /\ op' \in Reloads /\ op'.pc = "check"
        /\ op'.file = op.file /\ op'.prev = op.prev /\ op'.old = op.old
    BY <1>2, OpOf, ReloadMoves DEF IInv, Gate, At
  <2>2. Typed' /\ Booting' /\ Announced' /\ AdmittedIsApplied'
    BY <1>2 DEF IInv, Typed, Booting, Announced, AdmittedIsApplied, Gate, At, memory
  <2>3. Locked'
    BY <1>2, <2>1 DEF IInv, Locked, Guarded, Gate, At
  <2>4. Operating'
    BY <1>2, <2>1 DEF IInv, Operating, Reloading, Gate, At, memory, Reloads, Writes, Idle
  <2>5. InStep'
    BY <1>2, <2>1 DEF IInv, InStep, Gate, At, memory
  <2> QED BY <2>2, <2>3, <2>4, <2>5 DEF IInv
<1> QED BY <1>1, <1>2 DEF Gate

\* New settings replace the settings and nothing else of a snapshot.
LEMMA Resets ==
  ASSUME NEW s \in Snapshot, NEW c \in Valid
  PROVE  /\ operation_runtime(s, c) \in Snapshot
         /\ operation_runtime(s, c).cfg = c
         /\ operation_runtime(s, c).gen = s.gen /\ operation_runtime(s, c).cues = s.cues
BY DEF operation_runtime, Snapshot

LEMMA PublishKeeps ==
  ASSUME IInv, Publish
  PROVE  IInv'
<1>1. /\ op \in Reloads /\ op.file.v \in Valid /\ op.file.v = judged /\ ~stopped
      /\ rt = op.prev /\ mem = op.old /\ mem = rt.cfg /\ mem = applied
      /\ worker.gen = rt.gen /\ worker.cues = rt.cues
  BY OpOf DEF IInv, Operating, Reloading, InStep, Publish, At, Guarded, Idle
<1>2. PICK s \in Snapshot : s = operation_runtime(rt, op.file.v)
  BY <1>1, Resets DEF IInv, Typed
<1>3. s.cfg = op.file.v /\ s.gen = rt.gen /\ s.cues = rt.cues
  BY <1>1, <1>2, Resets DEF IInv, Typed
<1>4. CASE ~Unchanged /\ Return /\ UNCHANGED <<durable, daemon, memory, used>>
  BY <1>4, EndsInStep DEF IInv, Typed, Announced, Publish, At, durable, memory
<1>5. CASE /\ Unchanged /\ rt = op.prev
           /\ rt' = operation_runtime(rt, op.file.v) /\ apply_config(op.file.v)
           /\ Step("commit")
           /\ UNCHANGED <<file, applied, daemon, observed, pending, stopped,
                          worker, editor, judged, locks, used>>
  <2>1. /\ op' \in Reloads /\ op'.pc = "commit"
        /\ op'.file = op.file /\ op'.prev = op.prev /\ op'.old = op.old
    BY <1>1, <1>5, ReloadMoves
  <2>2. rt' = s /\ mem' = op.file.v
    BY <1>2, <1>5 DEF apply_config
  <2>3. Typed' /\ Booting' /\ Announced' /\ AdmittedIsApplied'
    BY <1>1, <1>5, <2>2 DEF IInv, Typed, Booting, Announced, AdmittedIsApplied, Publish, At, locks
  <2>4. Locked'
    BY <1>5, <2>1 DEF IInv, Locked, Guarded, Publish, At, locks
  <2>5. rt' = [op'.prev EXCEPT !.cfg = op'.file.v]
    BY <1>1, <1>5, <2>1 DEF operation_runtime
  <2>6. Reloading'
    BY <1>1, <1>5, <2>1, <2>2, <2>5 DEF Reloading
  <2>7. Operating'
    BY <1>1, <1>5, <2>1, <2>6 DEF Operating, Publish, At, Reloads, Writes
  <2>8. InStep'
    BY <1>1, <1>3, <1>5, <2>1, <2>2 DEF InStep
  <2> QED BY <2>3, <2>4, <2>7, <2>8 DEF IInv
<1>6. CASE /\ Unchanged /\ stop
           /\ IF rt = op.prev THEN Fault ELSE UNCHANGED file
           /\ rt' \in {rt, operation_runtime(rt, op.file.v)}
           /\ UNCHANGED <<applied, daemon, mem, observed, pending, worker,
                          editor, judged, used>>
  <2>1. rt' \in Snapshot /\ file' \in Files
    BY <1>2, <1>6, FaultTyped DEF IInv, Typed
  <2> QED BY <1>6, <2>1, Stops DEF IInv, Typed, Publish, At
<1> QED BY <1>4, <1>5, <1>6 DEF Publish

\* What an operation between publication and commit knows.
LEMMA Published ==
  ASSUME IInv, daemon = "up", op.pc \in {"commit", "rollback"}
  PROVE  /\ op \in Reloads /\ op.file.v \in Valid /\ op.file.v = judged /\ ~stopped
         /\ op.prev \in Snapshot /\ op.old \in Valid
         /\ rt.cfg = op.file.v /\ mem = op.file.v /\ applied = op.old /\ op.prev.cfg = op.old
         /\ rt.gen = op.prev.gen /\ rt.cues = op.prev.cues
         /\ worker.gen = rt.gen /\ worker.cues = rt.cues
<1>1. /\ op \in Reloads /\ op.file.v \in Valid /\ op.file.v = judged /\ ~stopped
      /\ rt = [op.prev EXCEPT !.cfg = op.file.v] /\ mem = op.file.v
      /\ applied = op.old /\ op.prev.cfg = op.old
      /\ worker.gen = rt.gen /\ worker.cues = rt.cues
  BY OpOf DEF IInv, Operating, Reloading, InStep, Guarded, Idle
<1>2. op.prev \in Snapshot /\ op.old \in Valid
  BY <1>1 DEF Reloads
<1>3. rt = operation_runtime(op.prev, op.file.v)
  BY <1>1 DEF operation_runtime
<1> QED BY <1>1, <1>2, <1>3, Resets

LEMMA CommitKeeps ==
  ASSUME IInv, CommitApplied
  PROVE  IInv'
<1>1. /\ op \in Reloads /\ op.file.v \in Valid /\ ~stopped /\ rt.cfg = op.file.v /\ mem = op.file.v
      /\ worker.gen = rt.gen /\ worker.cues = rt.cues
  BY Published DEF CommitApplied, At
<1>2. CASE /\ applied' = op.file.v /\ pending' = None /\ observed' = Observed
           /\ Return
           /\ UNCHANGED <<file, rt, daemon, mem, stopped, worker, editor, judged, used>>
  <2>1. Typed'
    BY <1>1, <1>2 DEF IInv, Typed, Return, Unlock
  <2> QED BY <1>1, <1>2, <2>1, Returns DEF CommitApplied, At, Return
<1>3. CASE /\ Fault /\ Step("rollback")
           /\ UNCHANGED <<rt, applied, daemon, memory, locks, used>>
  <2>1. /\ op' \in Reloads /\ op'.pc = "rollback"
        /\ op'.file = op.file /\ op'.prev = op.prev /\ op'.old = op.old
    BY <1>1, <1>3, ReloadMoves
  <2>2. Typed' /\ Booting' /\ Announced' /\ AdmittedIsApplied'
    BY <1>3, FaultTyped DEF IInv, Typed, Booting, Announced, AdmittedIsApplied, CommitApplied, At, memory, locks
  <2>3. Locked'
    BY <1>3, <2>1 DEF IInv, Locked, Guarded, CommitApplied, At, locks
  <2>4. Reloading'
    BY <1>1, <1>3, <2>1 DEF IInv, Operating, Reloading, CommitApplied, At, memory
  <2>5. Operating'
    BY <1>1, <1>3, <2>1, <2>4 DEF Operating, CommitApplied, At, memory, Reloads, Writes
  <2>6. InStep'
    BY <1>1, <1>3, <2>1 DEF InStep, memory
  <2> QED BY <2>2, <2>3, <2>5, <2>6 DEF IInv
<1>4. CASE /\ Fault /\ stop /\ applied' \in {applied, op.file.v}
           /\ UNCHANGED <<rt, daemon, mem, observed, pending, worker, editor, judged, used>>
  BY <1>1, <1>4, FaultTyped, Stops DEF IInv, Typed, CommitApplied, At
<1> QED BY <1>2, <1>3, <1>4 DEF CommitApplied

LEMMA RollBackKeeps ==
  ASSUME IInv, RollBack
  PROVE  IInv'
<1>1. /\ op \in Reloads /\ op.file.v \in Valid /\ op.file.v = judged /\ ~stopped
      /\ op.prev \in Snapshot /\ op.old \in Valid /\ applied = op.old /\ op.prev.cfg = op.old
      /\ worker.gen = op.prev.gen /\ worker.cues = op.prev.cues
  BY Published DEF RollBack, At
<1>2. CASE /\ rt' = op.prev /\ apply_config(op.old) /\ Step("rolled")
           /\ UNCHANGED <<file, applied, daemon, observed, pending, stopped,
                          worker, editor, judged, locks, used>>
  <2>1. /\ op' \in Reloads /\ op'.pc = "rolled"
        /\ op'.file = op.file /\ op'.prev = op.prev /\ op'.old = op.old
    BY <1>1, <1>2, ReloadMoves
  <2>2. Typed' /\ Booting' /\ Announced' /\ AdmittedIsApplied'
    BY <1>1, <1>2 DEF IInv, Typed, Booting, Announced, AdmittedIsApplied, RollBack, At, locks, apply_config
  <2>3. Locked'
    BY <1>2, <2>1 DEF IInv, Locked, Guarded, RollBack, At, locks
  <2>4. Reloading'
    BY <1>1, <1>2, <2>1 DEF Reloading, apply_config
  <2>5. Operating'
    BY <1>1, <1>2, <2>1, <2>4 DEF Operating, RollBack, At, Reloads, Writes
  <2>6. InStep'
    BY <1>1, <1>2 DEF InStep, apply_config
  <2> QED BY <2>2, <2>3, <2>5, <2>6 DEF IInv
<1>3. CASE /\ Fault /\ stop /\ rt' \in {rt, op.prev}
           /\ UNCHANGED <<applied, daemon, mem, observed, pending, worker,
                          editor, judged, used>>
  BY <1>1, <1>3, FaultTyped, Stops DEF IInv, Typed, RollBack, At
<1> QED BY <1>2, <1>3 DEF RollBack

LEMMA RolledBackKeeps ==
  ASSUME IInv, RolledBack
  PROVE  IInv'
<1>1. CASE AuditEnds
  BY <1>1, AuditEndsKeeps DEF RolledBack, At
<1>2. CASE AuditOk /\ Return /\ UNCHANGED <<pending, observed>>
  BY <1>2, EndsInStep DEF IInv, Typed, Announced, RolledBack, At, AuditOk, Unaudited
<1> QED BY <1>1, <1>2 DEF RolledBack

-----------------------------------------------------------------------------
(* The terminal user interface and the recall worker.                         *)

LEMMA ReadEditableKeeps ==
  ASSUME IInv, read_editable
  PROVE  IInv'
<1>1. Typed' /\ Locked' /\ Booting'
  BY DEF IInv, Typed, Locked, Booting, durable, locks, read_editable
<1>2. Operating'
  BY DEF IInv, Operating, Reloading, durable, read_editable
<1>3. InStep' /\ Announced' /\ AdmittedIsApplied'
  BY DEF IInv, InStep, Announced, AdmittedIsApplied, durable, read_editable
<1> QED BY <1>1, <1>2, <1>3 DEF IInv

LEMMA WriteBegins ==
  ASSUME IInv, NEW v \in Valid, WriteBegin(v)
  PROVE  IInv'
<1>a. Input \in Content
  BY DEF IInv, Files, Typed, Input, Content
<1>1. PICK in \in Content : in = Input
  BY <1>a
<1>2. op' \in Writes /\ op'.pc = "write"
  BY <1>1 DEF WriteBegin, Writes
<1>3. Typed' /\ Booting' /\ Announced' /\ AdmittedIsApplied'
  BY DEF IInv, Typed, Booting, Announced, AdmittedIsApplied, WriteBegin, Free, Serving, durable, memory, locks
<1>4. Locked'
  BY <1>2 DEF IInv, Locked, Guarded, WriteBegin, Free, locks
<1>5. Operating'
  BY <1>2, ConfigAssumption
  DEF ConfigAssumption, IInv, Files, Typed, Operating, Reloading, Reloads, Writes, WriteBegin, Free, Serving, durable, memory
<1>6. InStep'
  BY <1>2 DEF IInv, InStep, WriteBegin, Free, durable, memory
<1> QED BY <1>3, <1>4, <1>5, <1>6 DEF IInv

LEMMA WriteCheckKeeps ==
  ASSUME IInv, WriteCheck
  PROVE  IInv'
<1>1. CASE ~Unchanged /\ Return
  BY <1>1, EndsInStep DEF IInv, Typed, Announced, WriteCheck, At, durable, memory
<1>2. CASE Unchanged /\ Step("rename") /\ UNCHANGED locks
  <2>1. op \in Writes /\ ~stopped /\ file.id <= MaxEdits
    BY OpOf DEF IInv, Operating, WriteCheck, At, Writes, Idle
  <2>2. op' \in Writes /\ op'.pc = "rename"
    BY <1>2, <2>1 DEF Step, Writes
  <2>3. Typed' /\ Booting' /\ Announced' /\ AdmittedIsApplied'
    BY <1>2 DEF IInv, Typed, Booting, Announced, AdmittedIsApplied, WriteCheck, At, durable, memory, locks
  <2>4. Locked'
    BY <1>2, <2>2 DEF IInv, Locked, Guarded, WriteCheck, At, locks
  <2>5. Operating'
    BY <2>1, <2>2 DEF Operating, Reloading, Reloads, Writes, WriteCheck, At, durable, memory
  <2>6. InStep'
    BY <2>2 DEF IInv, InStep, WriteCheck, At, durable, memory
  <2> QED BY <2>3, <2>4, <2>5, <2>6 DEF IInv
<1> QED BY <1>1, <1>2 DEF WriteCheck

LEMMA WriteRenames ==
  ASSUME IInv, WriteRename
  PROVE  IInv'
<1>1. op \in Writes /\ op.v \in Valid /\ op # Idle /\ ~stopped /\ file.id <= MaxEdits
  BY OpOf DEF IInv, Operating, WriteRename, At, Writes, Idle
<1>2. PICK n \in 0 .. MaxEdits + 1 : n = file.id + 1
  BY <1>1, ConfigAssumption DEF ConfigAssumption, IInv, Files, Typed
<1>3. CASE /\ file' = [file EXCEPT !.v = op.v, !.id = @ + 1]
           /\ op' = [pc |-> "read"] /\ UNCHANGED <<stopped, locks>>
  <2>1. file' = [file EXCEPT !.v = op.v, !.id = n]
    BY <1>2, <1>3
  <2>2. file' \in Files
    BY <1>1, <2>1 DEF IInv, Files, Typed
  <2>3. Typed' /\ Booting' /\ Announced' /\ AdmittedIsApplied'
    BY <1>3, <2>2 DEF IInv, Typed, Booting, Announced, AdmittedIsApplied, WriteRename, At, locks
  <2>4. Locked'
    BY <1>3 DEF IInv, Locked, Guarded, WriteRename, At, locks
  <2>5. Operating'
    BY <1>1, <1>3 DEF Operating, Reloading, Reloads, Writes, WriteRename, At
  <2>6. InStep'
    BY <1>3 DEF IInv, InStep, WriteRename, At
  <2> QED BY <2>3, <2>4, <2>5, <2>6 DEF IInv
<1>4. CASE /\ file.faults < MaxFaults /\ stop
           /\ \/ file' = [file EXCEPT !.faults = @ + 1]
              \/ file' = [file EXCEPT !.faults = @ + 1, !.v = op.v, !.id = @ + 1]
  <2>1. PICK m \in 0 .. MaxFaults : m = file.faults + 1
    BY <1>4, ConfigAssumption DEF ConfigAssumption, IInv, Files, Typed
  <2>2. \/ file' = [file EXCEPT !.faults = m]
        \/ file' = [file EXCEPT !.faults = m, !.v = op.v, !.id = n]
    BY <1>2, <1>4, <2>1
  <2>3. file' \in Files
    BY <1>1, <2>2 DEF IInv, Files, Typed
  <2> QED BY <1>4, <2>3, Stops DEF IInv, Typed, WriteRename, At
<1> QED BY <1>3, <1>4 DEF WriteRename

\* The snapshot with one more cue.
LEMMA OneMoreCue ==
  ASSUME Typed, worker.cues < MaxCues
  PROVE  /\ [rt EXCEPT !.cues = worker.cues + 1] \in Snapshot
         /\ [rt EXCEPT !.cues = worker.cues + 1].cfg = rt.cfg
         /\ [rt EXCEPT !.cues = worker.cues + 1].cues = worker.cues + 1
<1>1. PICK n \in 0 .. MaxCues : n = worker.cues + 1
  BY ConfigAssumption DEF ConfigAssumption, Typed, Snapshot
<1>2. [rt EXCEPT !.cues = n] \in Snapshot /\ [rt EXCEPT !.cues = n].cfg = rt.cfg /\ [rt EXCEPT !.cues = n].cues = n
  BY DEF Typed, Snapshot
<1> QED BY <1>1, <1>2

LEMMA CuesKeep ==
  ASSUME IInv, publish_recall_cues
  PROVE  IInv'
<1> USE DEF publish_recall_cues, PublishCues, Free, Serving
<1>1. PICK s \in Snapshot : s = [rt EXCEPT !.cues = worker.cues + 1] /\ s.cfg = rt.cfg
  BY OneMoreCue DEF IInv
<1>2. CASE /\ rt' = [rt EXCEPT !.cues = worker.cues + 1]
           /\ worker' = rt'
           /\ UNCHANGED <<file, op, stopped, locks>>
  <2>1. rt' = s /\ worker' = s
    BY <1>1, <1>2
  <2>2. Typed' /\ Locked' /\ Booting' /\ Announced' /\ AdmittedIsApplied'
    BY <1>2, <2>1 DEF IInv, Typed, Locked, Booting, Announced, AdmittedIsApplied, locks
  <2>3. op = Idle
    BY OpOf DEF IInv
  <2>4. Operating'
    BY <1>2, <2>3 DEF Operating, Reloading, Idle, Reloads, Writes
  <2>5. InStep'
    BY <1>1, <1>2, <2>1, <2>3 DEF IInv, InStep, Idle
  <2> QED BY <2>2, <2>4, <2>5 DEF IInv
<1>3. CASE /\ Fault /\ stop
           /\ rt' \in {rt, [rt EXCEPT !.cues = worker.cues + 1]}
           /\ UNCHANGED worker
  <2>1. rt' \in Snapshot /\ file' \in Files
    BY <1>1, <1>3, FaultTyped DEF IInv, Typed
  <2> QED BY <1>3, <2>1, Stops DEF IInv, Typed
<1> QED BY <1>2, <1>3

-----------------------------------------------------------------------------
(* The theorems.                                                              *)

LEMMA Starts == Init => IInv
<1> SUFFICES ASSUME Init PROVE IInv
  OBVIOUS
<1>1. PICK v \in Hot :
        /\ file = [v |-> v, id |-> 0, faults |-> 0]
        /\ rt = [cfg |-> v, gen |-> 1, cues |-> 0]
        /\ applied = v /\ daemon = "down" /\ mem = v
        /\ observed = [v |-> None, id |-> 0] /\ pending = None /\ stopped = FALSE
        /\ op = Idle /\ gate = FALSE /\ fence = "free"
        /\ editor = None /\ worker = rt /\ used = {} /\ judged = None
  BY DEF Init
<1>2. v \in Valid
  BY DEF Valid
<1>3. 0 \in 0 .. MaxEdits + 1 /\ 0 \in 0 .. MaxFaults /\ 0 \in 0 .. MaxCues /\ 1 \in Nat
  BY ConfigAssumption DEF ConfigAssumption
<1>4. file \in Files
  BY <1>1, <1>2, <1>3 DEF Files
<1>5. rt \in Snapshot
  BY <1>1, <1>2, <1>3 DEF Snapshot
<1>6. Typed
  BY <1>1, <1>2, <1>4, <1>5 DEF Typed
<1>7. Booting /\ Operating /\ InStep
  BY <1>1 DEF Booting, Operating, InStep
<1>a. op.pc \notin Guarded /\ fence # "reload" /\ gate = FALSE
  BY <1>1 DEF Guarded, Idle
<1>b. (fence = "reload") = (op.pc \in Guarded)
  BY <1>a
<1>c. gate = (daemon = "up" /\ op.pc \in Guarded)
  BY <1>a, Zenon
<1>8. Locked
  BY <1>b, <1>c DEF Locked
<1>9. Announced /\ AdmittedIsApplied
  BY <1>1 DEF Announced, AdmittedIsApplied
<1> QED BY <1>6, <1>7, <1>8, <1>9 DEF IInv

LEMMA Stutters ==
  ASSUME IInv, UNCHANGED vars
  PROVE  IInv'
<1>1. Typed' /\ Locked' /\ Booting'
  BY DEF IInv, Typed, Locked, Booting, durable, locks, memory, vars
<1>2. Operating'
  BY DEF IInv, Operating, Reloading, durable, memory, vars
<1>3. InStep' /\ Announced' /\ AdmittedIsApplied'
  BY DEF IInv, InStep, Announced, AdmittedIsApplied, durable, memory, vars
<1> QED BY <1>1, <1>2, <1>3 DEF IInv

LEMMA Steps == IInv /\ [Next]_vars => IInv'
<1> SUFFICES ASSUME IInv, [Next]_vars PROVE IInv'
  OBVIOUS
<1>1. CASE \E v \in Valid \cup {Bad} : Edit(v)
  BY <1>1, Edits
<1>2. CASE HookHolds \/ Admit \/ Shutdown \/ Crash
  BY <1>2, HookHoldsKeeps, Admits, ShutdownKeeps, CrashKeeps
<1>3. CASE initialize_runtime
  BY <1>3, BootReads, BootFenceKeeps, BootCheckKeeps, BootCommits DEF initialize_runtime
<1>4. CASE watch_once
  BY <1>4, ReloadBegins DEF watch_once
<1>5. CASE reload
  BY <1>5, ReloadBegins DEF reload
<1>6. CASE reload_inner
  BY <1>6, ReadKeeps, RejectKeeps, RestartKeeps, PrepareKeeps, GateKeeps, PublishKeeps, CommitKeeps,
     RollBackKeeps, RolledBackKeeps
  DEF reload_inner, Rollback
<1>7. CASE write_optimistic
  BY <1>7, WriteBegins, WriteCheckKeeps, WriteRenames DEF write_optimistic
<1>8. CASE read_editable
  BY <1>8, ReadEditableKeeps
<1>9. CASE publish_recall_cues
  BY <1>9, CuesKeep
<1>10. CASE UNCHANGED vars
  BY <1>10, Stutters
<1> QED BY <1>1, <1>2, <1>3, <1>4, <1>5, <1>6, <1>7, <1>8, <1>9, <1>10 DEF Next

\* What a reload, a start, an edit and the recall worker keep true of each other
\* (config_reload.rs): who holds the locks, what an operation in progress read, and
\* which of the three copies of the configuration may differ in the middle of it.
THEOREM ConfigInvariance == Spec => []IInv
<1>1. Init => IInv
  BY Starts
<1>2. IInv /\ [Next]_vars => IInv'
  BY Steps
<1> QED BY <1>1, <1>2, PTL DEF Spec

\* Whenever requests are admitted, the engine's memory, the snapshot that hooks read
\* and the applied audit name one configuration, no request ever saw anything else,
\* and a pending restart is of the file judged last: for every set of configurations,
\* any number of edits, failures and deaths of the daemon (config_reload.rs
\* reload_inner, watch_once, admit).
THEOREM AppliedAlwaysAgrees == Spec => []AppliedAgrees
<1>1. IInv => TypeOK
  <2> SUFFICES ASSUME IInv PROVE TypeOK
    OBVIOUS
  <2>1. file.v \in Valid \cup {Bad} /\ file.id \in 0 .. MaxEdits + 1
    BY DEF IInv, Typed, Files
  <2>2. rt.cfg \in Valid /\ rt.gen \in Nat /\ rt.cues \in 0 .. MaxCues
    BY DEF IInv, Typed, Snapshot
  <2>3. /\ applied \in Valid /\ mem \in Valid /\ pending \in Cold \cup Hot \cup {None}
        /\ daemon \in {"down", "boot", "up"} /\ stopped \in BOOLEAN
        /\ gate \in BOOLEAN /\ fence \in {"free", "hook", "reload"}
    BY DEF IInv, Typed, Valid
  <2>4. (gate => fence = "reload") /\ (fence = "reload" => op.pc \in {"check", "commit", "rollback", "rolled"})
    BY DEF IInv, Locked, Guarded
  <2> QED BY <2>1, <2>2, <2>3, <2>4 DEF TypeOK
<1>2. IInv => Agreement /\ PendingIsLatest /\ AdmittedIsApplied
  BY DEF IInv, Locked, Guarded, InStep, Announced, Agreement, PendingIsLatest, Serving
<1> QED BY <1>1, <1>2, ConfigInvariance, PTL DEF AppliedAgrees

LEMMA CuesStayUp ==
  ASSUME IInv, [Next]_vars, rt' # rt
  PROVE  CuesStay
<1> SUFFICES ASSUME rt'.gen = rt.gen PROVE rt'.cues >= rt.cues
  BY DEF CuesStay
<1>1. rt.gen \in Nat /\ rt.cues \in Nat
  BY ConfigAssumption DEF ConfigAssumption, IInv, Typed, Snapshot
<1>2. CASE BootCheck
  BY <1>1, <1>2 DEF IInv, Booting, BootCheck, BootFails
<1>3. CASE Publish
  <2>1. op.file.v \in Valid
    BY <1>3, OpOf DEF IInv, Operating, Reloading, Publish, At, Guarded
  <2>2. rt' = operation_runtime(rt, op.file.v)
    BY <1>3 DEF Publish, durable
  <2>3. rt'.cues = rt.cues
    BY <2>1, <2>2, Resets DEF IInv, Typed
  <2> QED BY <1>1, <2>3
<1>4. CASE RollBack
  <2>1. rt' = op.prev
    BY <1>4 DEF RollBack
  <2> QED BY <1>1, <1>4, <2>1, Published DEF RollBack, At
<1>5. CASE publish_recall_cues
  <2>1. rt' = [rt EXCEPT !.cues = worker.cues + 1] /\ worker.cues < MaxCues
    BY <1>5 DEF publish_recall_cues, PublishCues
  <2>2. rt'.cues = worker.cues + 1
    BY <2>1, OneMoreCue DEF IInv
  <2>3. worker.cues = rt.cues
    BY <1>5 DEF IInv, InStep, publish_recall_cues, Free, Serving
  <2> QED BY <1>1, <2>2, <2>3
<1>6. BootCheck \/ Publish \/ RollBack \/ publish_recall_cues
  <2> USE DEF durable
  <2>1. ~(\E v \in Valid \cup {Bad} : Edit(v)) /\ ~HookHolds /\ ~Admit /\ ~Shutdown /\ ~Crash
    BY DEF Edit, HookHolds, Admit, Shutdown, Crash, Down
  <2>2. ~BootRead /\ ~BootFence /\ ~BootCommit /\ ~watch_once /\ ~reload
    BY DEF BootRead, BootFence, BootCommit, BootFails, watch_once, reload
  <2>3. ~Read /\ ~Reject /\ ~Restart /\ ~Prepare /\ ~Gate /\ ~CommitApplied /\ ~RolledBack
    BY DEF Read, ReadInput, Reject, Restart, Prepare, Gate, CommitApplied, RolledBack, Unaudited
  <2>4. ~read_editable /\ ~write_optimistic /\ ~UNCHANGED vars
    BY DEF read_editable, write_optimistic, WriteBegin, WriteCheck, WriteRename, vars
  <2> QED BY <2>1, <2>2, <2>3, <2>4 DEF Next, initialize_runtime, reload_inner, Rollback
<1> QED BY <1>2, <1>3, <1>4, <1>5, <1>6

\* A reload, its rollback and the recall worker all rewrite the whole snapshot; within
\* one generation none of them takes back a cue another one published, however their
\* steps fall (config_reload.rs publish_recall_cues, reload_inner).
THEOREM CuesAreNeverUndone == Spec => CuesNeverUndone
<1>1. IInv /\ [Next]_vars => [CuesStay]_rt
  BY CuesStayUp
<1> QED BY <1>1, ConfigInvariance, PTL DEF Spec, CuesNeverUndone
=============================================================================

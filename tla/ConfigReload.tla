--------------------------- MODULE ConfigReload ---------------------------
(* Configuration of a running daemon: the file a user edits, the          *)
(* configuration in memory, the runtime snapshot that hooks read and the   *)
(* audit in the journal.  Every operation holds the service's mutex for    *)
(* its whole length, so at most one is in progress: `op` is that one.      *)
EXTENDS Naturals

CONSTANTS
    Hot,        \* valid configurations the daemon can move between
    Cold,       \* valid configurations that differ in a restart-only field
    MaxEdits,   \* bound on edits of the file, by a user or through the TUI
    MaxFaults,  \* bound on failed publications and commits, on holds of the
                \* fence that outlast the second a reload tries, and on
                \* deaths of the daemon
    MaxCues     \* bound on cue publications

VARIABLES
    file,       \* the configuration file: its content and its identity
    rt,         \* the runtime snapshot on disk
    applied,    \* configuration of the last applied audit in the journal
    daemon,     \* "down", "boot" or "up"
    mem,        \* the engine's effective configuration
    observed,   \* the file the watcher last came to a verdict about
    pending,    \* the configuration that waits for a restart
    stopped,    \* an uncertain commit ended admission
    op,         \* the operation that holds the mutex
    gate,       \* the admission lock is held for writing
    fence,      \* the maintenance fence: "free", "hook" or "reload"
    editor,     \* content the TUI loaded before it edits
    worker,     \* the recall worker's copy of the snapshot
    used,       \* what admitted requests saw (history)
    judged      \* content of the last input a reload read (history)

durable == <<file, rt, applied>>
memory == <<mem, observed, pending, stopped, worker, editor, judged>>
locks == <<gate, fence>>
vars == <<durable, daemon, memory, locks, op, used>>

None == "none"
Bad == "bad"
Valid == Hot \cup Cold
Idle == [pc |-> "idle"]

ASSUME ConfigAssumption ==
    /\ Hot # {} /\ Hot \cap Cold = {} /\ Valid \cap {None, Bad} = {}
    /\ MaxEdits \in Nat /\ MaxFaults \in Nat /\ MaxCues \in Nat

\* Only the data directory and the number of workers need a restart.
RestartRequired(old, new) == (old \in Hot) # (new \in Hot)

Init ==
    \E v \in Hot :
        /\ file = [v |-> v, id |-> 0, faults |-> 0]
        /\ rt = [cfg |-> v, gen |-> 1, cues |-> 0]
        /\ applied = v /\ daemon = "down" /\ mem = v
        /\ observed = [v |-> None, id |-> 0] /\ pending = None /\ stopped = FALSE
        /\ op = Idle /\ gate = FALSE /\ fence = "free"
        /\ editor = None /\ worker = rt /\ used = {} /\ judged = None

Serving == daemon = "up" /\ ~stopped
Free == Serving /\ op.pc = "idle"
At(pc) == daemon = "up" /\ op.pc = pc
Step(pc) == op' = [op EXCEPT !.pc = pc]
Input == [v |-> file.v, id |-> file.id]
Fault == file.faults < MaxFaults /\ file' = [file EXCEPT !.faults = @ + 1]

\* A start builds a snapshot of the next generation without cues; a
\* reload keeps generation, gates and cues and replaces the settings.
prepare_recovery_runtime == [cfg |-> file.v, gen |-> rt.gen + 1, cues |-> 0]
operation_runtime(authority, cfg) == [authority EXCEPT !.cfg = cfg]
apply_config(cfg) == mem' = cfg

\* The guards are dropped when an operation returns.
Unlock == gate' = FALSE /\ fence' = (IF fence = "reload" THEN "free" ELSE fence)
Return == op' = Idle /\ Unlock
stop == stopped' = TRUE /\ Return

--------------------------------------------------------------------------
(* The world around the service.                                           *)

\* A user replaces the file; its identity never repeats.
Edit(v) ==
    /\ file.id < MaxEdits
    /\ file' = [file EXCEPT !.v = v, !.id = @ + 1]
    /\ UNCHANGED <<rt, applied, daemon, memory, locks, op, used>>

\* A hook or the collector holds the maintenance fence for a while.
HookHolds ==
    /\ fence \in {"free", "hook"}
    /\ fence' = (IF fence = "free" THEN "hook" ELSE "free")
    /\ UNCHANGED <<durable, daemon, memory, gate, op, used>>

\* Mutant of Admit.
AdmitUnlocked ==
    /\ Serving
    /\ used' = used \cup {[cfg |-> mem, rt |-> rt.cfg, applied |-> applied]}
    /\ UNCHANGED <<durable, daemon, memory, locks, op>>

\* A request takes its configuration under the read lock.
Admit ==
    /\ Serving /\ ~gate
    /\ used' = used \cup {[cfg |-> mem, rt |-> rt.cfg, applied |-> applied]}
    /\ UNCHANGED <<durable, daemon, memory, locks, op>>

\* The daemon shuts down after an uncertain commit, or dies anywhere.
Down ==
    /\ daemon' = "down" /\ op' = Idle /\ Unlock
    /\ UNCHANGED <<rt, applied, memory, used>>

Shutdown == daemon = "up" /\ stopped /\ op.pc = "idle" /\ UNCHANGED file /\ Down

Crash ==
    /\ daemon # "down" /\ Fault /\ Down

--------------------------------------------------------------------------
(* Start.  No request is admitted before the applied audit is durable.     *)

BootFails ==
    /\ daemon' = "down" /\ Return
    /\ UNCHANGED <<rt, memory, used>>

\* The file is loaded, read again and audited as prepared.
BootRead ==
    /\ daemon = "down" /\ file.v \in Valid
    /\ daemon' = "boot"
    /\ op' = [pc |-> "prepared", file |-> Input,
              rt |-> prepare_recovery_runtime]
    /\ mem' = file.v /\ stopped' = FALSE /\ pending' = None
    /\ observed' = [v |-> None, id |-> 0] /\ editor' = None
    /\ UNCHANGED <<durable, worker, judged, locks, used>>

BootFence ==
    /\ daemon = "boot" /\ op.pc = "prepared"
    /\ \/ fence = "free" /\ fence' = "reload" /\ Step("check")
          /\ UNCHANGED <<durable, daemon, memory, gate, used>>
       \/ fence = "hook" /\ Fault /\ BootFails /\ UNCHANGED applied

BootCheck ==
    /\ daemon = "boot" /\ op.pc = "check"
    /\ \/ Input # op.file /\ BootFails /\ UNCHANGED <<file, applied>>
       \/ /\ Input = op.file /\ rt' = op.rt /\ Step("commit")
          /\ UNCHANGED <<file, applied, daemon, memory, locks, used>>

\* The commit is the last step; an unknown outcome is a failed start.
BootCommit ==
    /\ daemon = "boot" /\ op.pc = "commit"
    /\ \/ /\ applied' = op.file.v /\ daemon' = "up"
          /\ observed' = op.file /\ worker' = rt /\ Return
          /\ UNCHANGED <<file, rt, mem, pending, stopped, editor, judged, used>>
       \/ Fault /\ applied' \in {applied, op.file.v} /\ BootFails

initialize_runtime == BootRead \/ BootFence \/ BootCheck \/ BootCommit

--------------------------------------------------------------------------
(* Reload: `reload_inner`, entered by the watcher, a command or the TUI.    *)

watch_once ==
    /\ Free /\ Input # observed
    /\ op' = [pc |-> "read"]
    /\ UNCHANGED <<durable, daemon, memory, locks, used>>

WatchByContent ==
    /\ Free /\ file.v # observed.v
    /\ op' = [pc |-> "read"]
    /\ UNCHANGED <<durable, daemon, memory, locks, used>>

reload ==
    /\ Free /\ op' = [pc |-> "read"]
    /\ UNCHANGED <<durable, daemon, memory, locks, used>>

\* Pending describes the latest input only, so it is forgotten first.
Candidate(v) ==
    IF v \notin Valid THEN "reject"
    ELSE IF RestartRequired(mem, v) THEN "restart" ELSE "prepare"

ReadInput(cleared) ==
    /\ At("read") /\ ~stopped
    /\ pending' = cleared
    /\ op' = [pc |-> Candidate(file.v), file |-> Input, prev |-> rt, old |-> mem]
    /\ judged' = file.v
    /\ UNCHANGED <<durable, daemon, mem, observed, stopped, worker, editor,
                   locks, used>>

\* Mutant of Read.
ReadKeepsPending == ReadInput(pending)
Read == ReadInput(None)

\* An audit is acknowledged, refused, or its fate stays unknown.  The
\* command is looked up by its identity, so a lost answer is no refusal.
AuditOk == UNCHANGED <<file, stopped>>
AuditRefused == Fault /\ Return /\ UNCHANGED <<stopped, pending, observed>>
AuditUnknown == Fault /\ stop /\ UNCHANGED <<pending, observed>>
AuditEnds == AuditRefused \/ AuditUnknown
Unaudited == UNCHANGED <<rt, applied, daemon, mem, worker, editor, judged, used>>

Reject ==
    /\ At("reject") /\ Unaudited
    /\ \/ AuditOk /\ observed' = op.file /\ pending' = None /\ Return
       \/ AuditEnds

Restart ==
    /\ At("restart") /\ Unaudited
    /\ \/ AuditOk /\ observed' = op.file /\ pending' = op.file.v /\ Return
       \/ AuditEnds

Prepare ==
    /\ At("prepare") /\ Unaudited
    /\ \/ AuditOk /\ Step("gate") /\ UNCHANGED <<pending, observed, locks>>
       \/ AuditEnds

\* Mutant of Gate.
GateOnly ==
    /\ At("gate") /\ gate' = TRUE /\ Step("check")
    /\ UNCHANGED <<durable, daemon, memory, fence, used>>

\* Admission and the fence are taken together; after a second of trying
\* the reload gives up and the watcher will come again.
Gate ==
    /\ At("gate") /\ UNCHANGED <<rt, applied, daemon, memory, used>>
    /\ \/ /\ fence = "free" /\ gate' = TRUE /\ fence' = "reload"
          /\ Step("check") /\ UNCHANGED file
       \/ fence = "hook" /\ Fault /\ Return

\* A changed input cannot publish the earlier candidate; a changed
\* snapshot means another writer.
Unchanged == Input = op.file

Publish ==
    /\ At("check")
    /\ \/ ~Unchanged /\ Return /\ UNCHANGED <<durable, daemon, memory, used>>
       \/ /\ Unchanged /\ rt = op.prev
          /\ rt' = operation_runtime(rt, op.file.v) /\ apply_config(op.file.v)
          /\ Step("commit")
          /\ UNCHANGED <<file, applied, daemon, observed, pending, stopped,
                         worker, editor, judged, locks, used>>
       \/ /\ Unchanged /\ stop
          /\ IF rt = op.prev THEN Fault ELSE UNCHANGED file
          /\ rt' \in {rt, operation_runtime(rt, op.file.v)}
          /\ UNCHANGED <<applied, daemon, mem, observed, pending, worker,
                         editor, judged, used>>

\* Mutant of Observed.
ObservedNow == Input

\* What the watcher remembers is the input that was read, not the file as
\* it is now: a later edit keeps it awake.
Observed == op.file

CommitApplied ==
    /\ At("commit")
    /\ \/ /\ applied' = op.file.v /\ pending' = None /\ observed' = Observed
          /\ Return
          /\ UNCHANGED <<file, rt, daemon, mem, stopped, worker, editor, judged, used>>
       \/ /\ Fault /\ Step("rollback")
          /\ UNCHANGED <<rt, applied, daemon, memory, locks, used>>
       \/ /\ Fault /\ stop /\ applied' \in {applied, op.file.v}
          /\ UNCHANGED <<rt, daemon, mem, observed, pending, worker, editor, judged, used>>

\* A refused commit puts snapshot and memory back under the same guards.
RollBack ==
    /\ At("rollback")
    /\ \/ rt' = op.prev /\ apply_config(op.old) /\ Step("rolled")
          /\ UNCHANGED <<file, applied, daemon, observed, pending, stopped,
                         worker, editor, judged, locks, used>>
       \/ /\ Fault /\ stop /\ rt' \in {rt, op.prev}
          /\ UNCHANGED <<applied, daemon, mem, observed, pending, worker,
                         editor, judged, used>>

\* Mutant of Rollback.
RollBackMemory ==
    /\ At("rollback")
    /\ apply_config(op.old) /\ Step("rolled")
    /\ UNCHANGED <<durable, daemon, observed, pending, stopped, worker,
                   editor, judged, locks, used>>

Rollback == RollBack

RolledBack ==
    /\ At("rolled") /\ Unaudited
    /\ \/ AuditOk /\ Return /\ UNCHANGED <<pending, observed>>
       \/ AuditEnds

reload_inner ==
    Read \/ Reject \/ Restart \/ Prepare \/ Gate \/ Publish \/ CommitApplied
    \/ Rollback \/ RolledBack

--------------------------------------------------------------------------
(* An edit through the TUI: read, compare, replace, reload.                *)

read_editable ==
    /\ daemon = "up" /\ editor # file.v
    /\ editor' = file.v
    /\ UNCHANGED <<durable, daemon, mem, observed, pending, stopped, worker,
                   judged, locks, op, used>>

\* The text is checked and the file compared with the hash the TUI saw.
WriteBegin(v) ==
    /\ Free /\ file.id < MaxEdits /\ file.v = editor
    /\ op' = [pc |-> "write", v |-> v, file |-> Input]
    /\ UNCHANGED <<durable, daemon, memory, locks, used>>

\* The temporary file is written, then the file compared again.
WriteCheck ==
    /\ At("write") /\ UNCHANGED <<durable, daemon, memory, used>>
    /\ \/ Unchanged /\ Step("rename") /\ UNCHANGED locks
       \/ ~Unchanged /\ Return

WriteRename ==
    /\ At("rename")
    /\ \/ /\ file' = [file EXCEPT !.v = op.v, !.id = @ + 1]
          /\ op' = [pc |-> "read"] /\ UNCHANGED <<stopped, locks>>
       \/ /\ file.faults < MaxFaults /\ stop
          /\ \/ file' = [file EXCEPT !.faults = @ + 1]
             \/ file' = [file EXCEPT !.faults = @ + 1, !.v = op.v, !.id = @ + 1]
    /\ UNCHANGED <<rt, applied, daemon, mem, observed, pending, worker,
                   editor, judged, used>>

write_optimistic == (\E v \in Valid : WriteBegin(v)) \/ WriteCheck \/ WriteRename

--------------------------------------------------------------------------
(* The recall worker owns the cues of the snapshot, nothing else in it.    *)

PublishCues(current) ==
    /\ worker.cues < MaxCues
    /\ \/ /\ worker.gen = current.gen
          /\ rt' = [current EXCEPT !.cues = worker.cues + 1]
          /\ worker' = rt'
          /\ UNCHANGED <<file, op, stopped, locks>>
       \/ /\ Fault /\ stop
          /\ rt' \in {rt, [current EXCEPT !.cues = worker.cues + 1]}
          /\ UNCHANGED worker
    /\ UNCHANGED <<applied, daemon, mem, observed, pending, editor, judged, used>>

\* Mutant of publish_recall_cues.
CuesUnserialized == Serving /\ PublishCues(rt)
publish_recall_cues == Free /\ PublishCues(rt)

--------------------------------------------------------------------------
Next ==
    \/ \E v \in Valid \cup {Bad} : Edit(v)
    \/ HookHolds \/ Admit \/ Shutdown \/ Crash
    \/ initialize_runtime
    \/ watch_once \/ reload \/ reload_inner
    \/ read_editable \/ write_optimistic
    \/ publish_recall_cues

Spec == Init /\ [][Next]_vars

\* The watcher polls every second and an operation in progress is driven
\* on; hooks let go of the fence again and again.
FairSpec ==
    /\ Spec
    /\ WF_vars(Shutdown) /\ WF_vars(BootRead \/ BootCheck \/ BootCommit)
    /\ SF_vars(BootFence) /\ SF_vars(watch_once)
    /\ WF_vars(reload_inner \/ WriteCheck \/ WriteRename)
    /\ SF_vars(Gate)
    /\ WF_vars(HookHolds /\ fence = "hook")

--------------------------------------------------------------------------
(* Properties.                                                             *)

\* Type invariant, with the fact that the write lock and the reload's hold
\* of the fence belong to an operation that is past its preparation.
TypeOK ==
    /\ file.v \in Valid \cup {Bad} /\ file.id \in 0 .. MaxEdits + 1
    /\ rt.cfg \in Valid /\ rt.gen \in Nat /\ rt.cues \in 0 .. MaxCues
    /\ applied \in Valid /\ mem \in Valid /\ pending \in Cold \cup Hot \cup {None}
    /\ daemon \in {"down", "boot", "up"} /\ stopped \in BOOLEAN
    /\ gate \in BOOLEAN /\ fence \in {"free", "hook", "reload"}
    /\ (gate => fence = "reload")
    /\ (fence = "reload" => op.pc \in {"check", "commit", "rollback", "rolled"})

\* While requests are admitted, memory, the snapshot that hooks read and
\* the journal's applied audit name one configuration: a refused commit
\* is rolled back everywhere, an uncertain one ends admission
\* (config_reload.rs reload_inner).
Agreement == Serving /\ ~gate => mem = rt.cfg /\ mem = applied

\* No request ever worked with a configuration that the journal had not
\* recorded as applied (config_reload.rs admit and its write lock).
AdmittedIsApplied == \A u \in used : u.cfg = u.applied

\* Publishing a configuration and publishing cues both rewrite the whole
\* snapshot; within one generation neither undoes the other's part
\* (config_reload.rs publish_recall_cues, reload_inner and its rollback).
CuesStay == rt'.gen = rt.gen => rt'.cues >= rt.cues
CuesNeverUndone == [][CuesStay]_rt

\* A restart announced as pending is the one that the last file read asks
\* for, never one for a file that is gone (config_reload.rs:343).
PendingIsLatest == Free => pending \in {None, judged}

\* An edit that lands while a reload is in progress is not lost: as long
\* as a valid file differs from the active configuration in fields that
\* need no restart, the watcher comes back, whatever was refused, busy or
\* rolled back before (config_reload.rs watch_once, observed).
Converges ==
    []<>(\/ file.v = Bad
         \/ Serving /\ (applied = file.v \/ RestartRequired(applied, file.v)))

\* Snapshot, memory and audit agree whenever requests are admitted, and a pending restart is
\* of the latest file (config_reload.rs).
AppliedAgrees == TypeOK /\ Agreement /\ PendingIsLatest /\ AdmittedIsApplied
==========================================================================

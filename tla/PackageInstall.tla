--------------------------- MODULE PackageInstall ---------------------------
(* Installing, removing and upgrading the package on a host that is in use:   *)
(* hook sessions pin a generation, the user edits the host configuration, the *)
(* service runs (codex/install.rs, engine/maintenance.rs, store/restore.rs).  *)
(* Version 1 is the installed package and version 2 the candidate.            *)
EXTENDS Integers, Sequences, FiniteSets

CONSTANTS Sessions,    \* hook sessions
          Layouts,     \* layouts of the stored data to start from
          Kinds,       \* what the operator runs: install, uninstall, check, upgrade
          MaxRuns,     \* bound: runs of the operator
          MaxEdits,    \* bound: edits of the host configuration by the user
          MaxFaults    \* bound: failures and kills

ASSUME LayoutsAssumption == Layouts \subseteq {"empty", "flat", "legacy", "current"}
ASSUME BoundsAssumption == MaxRuns \in Nat /\ MaxEdits \in Nat /\ MaxFaults \in Nat
ASSUME KindsAssumption == Kinds \subseteq {"install", "uninstall", "check", "upgrade"}

Names == {"config", "host", "unit", "launcher", "runtime", "registry"}

VARIABLES files,   \* version and user edits of each managed file
          gens,    \* generation directories
          pins,    \* generation each session is pinned to, 0 for none
          data,    \* the store: canonical directory, flat tables, candidate, backup
          svc,     \* the service: version running (0: none), enabled
          p,       \* the operator's process
          runs, edits, faults,
          start    \* layout at the start

installVars == <<files, gens, pins, data, svc, p, runs, edits, faults, start>>

Absent == [v |-> 0, user |-> 0]
Is(f, v) == files[f].v = v

Idle == [pc |-> "idle", kind |-> "none", orig |-> files, changed |-> {}, i |-> 0,
         prev |-> svc, managed |-> FALSE, may |-> FALSE, prepared |-> FALSE, held |-> FALSE,
         before |-> data, called |-> FALSE, started |-> FALSE, attempted |-> FALSE,
         fresh |-> FALSE, restored |-> TRUE, end |-> "none"]

Layout(l) ==
    [native |-> CASE l \in {"empty", "flat"} -> "none" [] OTHER -> l,
     flat |-> l = "flat", cand |-> "none", backup |-> FALSE]

InstallInit ==
    /\ \E old \in {0, 1} :   \* the version installed at the start, if any
         /\ files = [f \in Names |-> [v |-> old, user |-> 0]]
         /\ gens = {old} \ {0}
         /\ svc = [run |-> old, enabled |-> old = 1]
    /\ pins = [s \in Sessions |-> 0]
    /\ start \in Layouts /\ data = Layout(start)
    /\ p = Idle
    /\ runs = 0 /\ edits = 0 /\ faults = 0

MayFault == faults < MaxFaults /\ faults' = faults + 1
\* The launcher's lock, held over a commit and over the removal of new assets.
Locked == p.pc \in {"publish", "rollback", "cleanup"} \/ (p.pc = "undo" /\ p.kind = "upgrade")
Continues(pc) == p' = [p EXCEPT !.pc = pc]
Stops(how) == p' = [p EXCEPT !.pc = "idle", !.end = how]
-----------------------------------------------------------------------------
(* A managed file is replaced only while it is what was read.                 *)

Upgrading == p.kind \in {"check", "upgrade"}
Edited == IF Upgrading THEN <<"host", "unit", "launcher", "runtime", "registry">>
          ELSE <<"config", "host", "unit">>

wanted(f) == IF Upgrading THEN 2 ELSE IF p.kind = "install" THEN 1
             ELSE IF f = "config" THEN p.orig[f].v ELSE 0
desired(f) == [p.orig[f] EXCEPT !.v = wanted(f)]
revalidate(f, expected) == files[f] = expected
\* What this run left in the file.
LeftIn(f) == IF f \in p.changed THEN desired(f) ELSE p.orig[f]
revalidate_original == \A f \in Names : revalidate(f, p.orig[f])

\* Mutant: the file is replaced whatever it holds now.
PublishBlindly(f) ==
    /\ files' = [files EXCEPT ![f] = desired(f)]
    /\ p' = [p EXCEPT !.changed = @ \union {f}, !.i = @ + 1]
    /\ UNCHANGED faults

\* InstallFile::publish; a failure comes before or after the rename.
publish(f) ==
    \/ /\ revalidate(f, p.orig[f])
       /\ files' = [files EXCEPT ![f] = desired(f)]
       /\ p' = [p EXCEPT !.changed = IF p.orig[f] = desired(f) THEN @ ELSE @ \union {f},
                         !.i = @ + 1]
       /\ UNCHANGED faults
    \/ /\ ~revalidate(f, p.orig[f])
       /\ p' = [p EXCEPT !.pc = "undo"]
       /\ UNCHANGED <<files, faults>>
    \/ /\ MayFault /\ revalidate(f, p.orig[f])
       /\ \/ UNCHANGED files /\ p' = [p EXCEPT !.pc = "undo"]
          \/ /\ p.orig[f] # desired(f)
             /\ files' = [files EXCEPT ![f] = desired(f)]
             /\ p' = [p EXCEPT !.pc = "undo", !.changed = @ \union {f}]

\* Mutant: a file that cannot be put back is passed over.
RollbackQuietly(f) ==
    /\ files' = IF revalidate(f, LeftIn(f)) THEN [files EXCEPT ![f] = p.orig[f]] ELSE files
    /\ p' = [p EXCEPT !.changed = @ \ {f}, !.i = @ - 1]
    /\ UNCHANGED faults

\* InstallFile::rollback; with no change it only looks.
rollback(f) ==
    \/ /\ revalidate(f, LeftIn(f))
       /\ files' = [files EXCEPT ![f] = p.orig[f]]
       /\ p' = [p EXCEPT !.changed = @ \ {f}, !.i = @ - 1]
       /\ UNCHANGED faults
    \/ /\ \/ ~revalidate(f, LeftIn(f)) /\ UNCHANGED faults
          \/ f \in p.changed /\ MayFault
       /\ p' = [p EXCEPT !.i = @ - 1, !.restored = FALSE]
       /\ UNCHANGED files
-----------------------------------------------------------------------------
(* The host in use.                                                           *)

\* A hook event of a session: the first one pins the current generation.
resolve_for_session(s) ==
    /\ ~Locked /\ files.host.v # 0 /\ files.launcher.v # 0 /\ files.registry.v # 0
    /\ pins[s] = 0 /\ files.registry.v \in gens
    /\ pins' = [pins EXCEPT ![s] = files.registry.v]
    /\ UNCHANGED <<files, gens, data, svc, p, runs, edits, faults>>

UserEdits ==
    /\ edits < MaxEdits /\ files.host.v # 0
    /\ edits' = edits + 1
    /\ files' = [files EXCEPT !.host.user = @ + 1]
    /\ UNCHANGED <<gens, pins, data, svc, p, runs, faults>>

\* Nothing of the process is left but what is on disk.
OperatorKilled ==
    /\ p.pc # "idle" /\ MayFault
    /\ Stops("killed")
    /\ UNCHANGED <<files, gens, pins, data, svc, runs, edits>>
-----------------------------------------------------------------------------
(* managed_install.                                                           *)

BeginInstall(kind) ==
    /\ kind \in Kinds \intersect {"install", "uninstall"}
    /\ p.pc = "idle" /\ runs < MaxRuns /\ runs' = runs + 1
    /\ \A f \in {"config", "host", "unit"} : files[f].v \in {0, 1}
    /\ kind = "install" => files.registry.v \in {0, 1}
    /\ p' = [Idle EXCEPT !.pc = IF kind = "install" THEN "assets" ELSE "remove", !.kind = kind,
                         !.managed = ~Is("unit", 0)]
    /\ UNCHANGED <<files, gens, pins, data, svc, edits, faults>>

\* The first generation, its runtime, the launcher and the registry; an installed
\* one has to be this package's.
InstallAssets ==
    /\ p.pc = "assets"
    /\ \/ Is("registry", 1) /\ Continues("write") /\ UNCHANGED <<files, gens, data, faults>>
       \/ /\ Is("registry", 0) /\ (~Is("launcher", 0) \/ 1 \in gens)
          /\ Continues("undo") /\ UNCHANGED <<files, gens, data, faults>>
       \/ /\ Is("registry", 0) /\ Is("launcher", 0) /\ 1 \notin gens
          /\ gens' = gens \union {1}
          /\ files' = [f \in Names |-> IF f \in {"launcher", "runtime", "registry"}
                                       THEN [v |-> 1, user |-> 0] ELSE files[f]]
          /\ p' = [p EXCEPT !.pc = "write", !.fresh = TRUE]
          /\ UNCHANGED <<data, faults>>
       \/ /\ Is("registry", 0) /\ Is("launcher", 0) /\ 1 \notin gens /\ MayFault
          /\ gens' = gens \union {1}
          /\ \E made \in {{}, {"runtime"}, {"runtime", "launcher"}} :
                files' = [f \in Names |-> IF f \in made THEN [v |-> 1, user |-> 0] ELSE files[f]]
          /\ p' = [p EXCEPT !.pc = "undo", !.fresh = TRUE]
          /\ UNCHANGED data
    /\ UNCHANGED <<pins, svc, runs, edits>>

\* disable --now, before the unit is removed.
RemoveService ==
    /\ p.pc = "remove"
    /\ \/ /\ p.managed /\ \A f \in {"config", "host", "unit"} : revalidate(f, p.orig[f])
          /\ svc' = [run |-> 0, enabled |-> FALSE]
          /\ \/ p' = [p EXCEPT !.pc = "write", !.attempted = TRUE] /\ UNCHANGED faults
             \/ MayFault /\ p' = [p EXCEPT !.pc = "undo", !.attempted = TRUE]
       \/ /\ p.managed /\ \E f \in {"config", "host", "unit"} : ~revalidate(f, p.orig[f])
          /\ Continues("undo") /\ UNCHANGED <<svc, faults>>
       \/ ~p.managed /\ Continues("write") /\ UNCHANGED <<svc, faults>>
    /\ UNCHANGED <<files, gens, pins, data, runs, edits>>

WriteFile ==
    /\ p.pc = "write" /\ p.i < Len(Edited)
    /\ publish(Edited[p.i + 1])
    /\ UNCHANGED <<gens, pins, data, svc, runs, edits>>

\* The service is started only with a unit that is new, after a last look at
\* every file.
InstallService ==
    /\ p.pc = "write" /\ p.i = Len(Edited)
    /\ LET touched == (p.kind = "install") # p.managed
           sound == \A f \in {"config", "host", "unit"} : revalidate(f, LeftIn(f)) IN
       \/ ~touched /\ Stops("done") /\ UNCHANGED <<svc, faults>>
       \/ touched /\ ~sound /\ Continues("undo") /\ UNCHANGED <<svc, faults>>
       \/ /\ touched /\ sound
          /\ svc' = IF p.kind = "install" THEN [run |-> files.unit.v, enabled |-> TRUE] ELSE svc
          /\ \/ Stops("done") /\ UNCHANGED faults
             \/ MayFault /\ p' = [p EXCEPT !.pc = "undo", !.attempted = TRUE,
                                           !.started = p.kind = "install"]
    /\ UNCHANGED <<files, gens, pins, data, runs, edits>>

\* Undoing an install: the service first, then the files, last first.
UndoInstall ==
    /\ p.pc = "undo" /\ ~Upgrading
    /\ \/ /\ ~p.started /\ UNCHANGED <<svc, faults>>
          /\ p' = [p EXCEPT !.pc = "unwrite", !.i = Len(Edited)]
       \/ /\ p.started /\ revalidate("unit", LeftIn("unit"))
          /\ svc' = [run |-> 0, enabled |-> FALSE] /\ UNCHANGED faults
          /\ p' = [p EXCEPT !.pc = "unwrite", !.i = Len(Edited)]
       \/ /\ p.started /\ MayFault /\ UNCHANGED svc
          /\ p' = [p EXCEPT !.pc = "unwrite", !.i = Len(Edited), !.restored = FALSE]
    /\ UNCHANGED <<files, gens, pins, data, runs, edits>>

UnwriteFile ==
    /\ p.pc = "unwrite" /\ p.i > 0
    /\ rollback(Edited[p.i])
    /\ UNCHANGED <<gens, pins, data, svc, runs, edits>>

\* The previous service comes back once everything else did.
RestoreService ==
    /\ p.pc = "unwrite" /\ p.i = 0
    /\ LET sound == p.attempted /\ p.restored /\ p.managed IN
       \/ sound /\ svc' = [p.prev EXCEPT !.run = IF @ = 0 THEN 0 ELSE files.unit.v] /\ UNCHANGED faults
       \/ sound /\ MayFault /\ UNCHANGED svc
       \/ ~sound /\ UNCHANGED <<svc, faults>>
    /\ IF p.fresh THEN Continues("cleanup")
       ELSE Stops(IF p.restored THEN "failed" ELSE "preserved")
    /\ UNCHANGED <<files, gens, pins, data, runs, edits>>

\* Mutant: new assets are removed though a session is pinned to them.
RemoveAssetsPinned ==
    /\ p.pc = "cleanup"
    /\ \/ /\ p.restored
          /\ gens' = gens \ {1}
          /\ files' = [f \in Names |-> IF f \in {"launcher", "runtime", "registry"}
                                       THEN Absent ELSE files[f]]
          /\ Stops("failed")
       \/ /\ ~p.restored
          /\ Stops("preserved") /\ UNCHANGED <<gens, files>>
    /\ UNCHANGED <<pins, data, svc, runs, edits, faults>>

\* New assets are removed unless the rollback was partial or a session is pinned.
RemoveAssets ==
    /\ p.pc = "cleanup"
    /\ \/ /\ p.restored /\ \A s \in Sessions : pins[s] = 0
          /\ gens' = gens \ {1}
          /\ files' = [f \in Names |-> IF f \in {"launcher", "runtime", "registry"}
                                       THEN Absent ELSE files[f]]
          /\ Stops("failed")
       \/ /\ ~p.restored \/ \E s \in Sessions : pins[s] # 0
          /\ Stops("preserved") /\ UNCHANGED <<gens, files>>
    /\ UNCHANGED <<pins, data, svc, runs, edits, faults>>
-----------------------------------------------------------------------------
(* package_upgrade.                                                           *)

\* preflight_package_check: the installed package is whole and the next
\* generation is unused.
BeginUpgrade(kind) ==
    /\ kind \in Kinds \intersect {"check", "upgrade"}
    /\ p.pc = "idle" /\ runs < MaxRuns /\ runs' = runs + 1
    /\ \A f \in Names : Is(f, 1)
    /\ gens \intersect {1, 2} = {1}
    /\ p' = [Idle EXCEPT !.pc = IF kind = "upgrade" THEN "quiesce" ELSE "prepare", !.kind = kind,
                         !.held = data.native # "none"]
    /\ UNCHANGED <<files, gens, pins, data, svc, edits, faults>>

GivesUp(may) == p' = [p EXCEPT !.pc = "resume", !.may = may]

\* Mutant: the service is disabled and goes on running.
QuiesceDisable ==
    /\ p.pc = "quiesce"
    /\ svc' = [svc EXCEPT !.enabled = FALSE]
    /\ p' = [p EXCEPT !.pc = "prepare", !.managed = TRUE]
    /\ UNCHANGED <<files, gens, pins, data, runs, edits, faults>>

\* PackageService::quiesce
quiesce ==
    /\ p.pc = "quiesce"
    /\ \/ ~revalidate_original /\ GivesUp(FALSE) /\ UNCHANGED <<svc, faults>>
       \/ /\ revalidate_original
          /\ svc' = [run |-> 0, enabled |-> FALSE]
          /\ \/ p' = [p EXCEPT !.pc = "prepare", !.managed = TRUE] /\ UNCHANGED faults
             \/ MayFault /\ p' = [p EXCEPT !.pc = "resume", !.managed = TRUE, !.may = TRUE]
    /\ UNCHANGED <<files, gens, pins, data, runs, edits>>

\* A store with a retired layout is converted into a candidate beside it after a
\* backup was published; a current one stays and is only backed up.
Convertible == data.native = "legacy" \/ (data.native = "none" /\ data.flat)
reject_retained_upgrade_candidate == data.cand # "none"
Unfit == reject_retained_upgrade_candidate \/ (data.native = "current" /\ data.flat)

prepare_native_upgrade ==
    /\ p.pc = "prepare"
    /\ \/ /\ svc.run # 0 \/ Unfit
          /\ GivesUp(revalidate_original) /\ UNCHANGED <<data, faults>>
       \/ /\ svc.run = 0 /\ ~Unfit /\ Convertible
          /\ data' = [data EXCEPT !.cand = "current", !.backup = TRUE]
          /\ p' = [p EXCEPT !.pc = "probe", !.prepared = TRUE] /\ UNCHANGED faults
       \/ /\ svc.run = 0 /\ ~Unfit /\ Convertible /\ MayFault
          /\ \E left \in {"none", "current"} :
                data' = [data EXCEPT !.cand = left, !.backup = TRUE]
          /\ GivesUp(revalidate_original)
       \/ /\ svc.run = 0 /\ ~Unfit /\ ~Convertible
          /\ data' = [data EXCEPT !.native = "current", !.backup = TRUE]
          /\ \/ Continues("probe") /\ UNCHANGED faults
             \/ GivesUp(FALSE) /\ MayFault
    /\ UNCHANGED <<files, gens, pins, svc, runs, edits>>

\* The candidate store, hook, daemon and host path are tried; whatever is not
\* published is discarded.
Probed(sound, observed) ==
    LET valid == sound /\ revalidate_original IN
    IF p.kind = "upgrade" /\ valid /\ observed THEN Continues("stage") /\ UNCHANGED <<data, faults>>
    ELSE \/ /\ data' = [data EXCEPT !.cand = "none"]
            /\ GivesUp(valid) /\ UNCHANGED faults
         \/ p.prepared /\ MayFault /\ GivesUp(FALSE) /\ UNCHANGED data

ProbePackage ==
    /\ p.pc = "probe"
    /\ \E sound, observed \in BOOLEAN : Probed(sound, observed)
    /\ UNCHANGED <<files, gens, pins, svc, runs, edits>>

\* Past here the candidates are left where they are unless they are undone.
stage_generation ==
    /\ p.pc = "stage"
    /\ \/ revalidate_original /\ gens' = gens \union {2} /\ Continues("exchange") /\ UNCHANGED faults
       \/ ~revalidate_original /\ UNCHANGED <<gens, faults>> /\ GivesUp(FALSE)
       \/ MayFault /\ gens' \in {gens, gens \union {2}} /\ GivesUp(FALSE)
    /\ UNCHANGED <<files, pins, data, svc, runs, edits>>

Exchanged(d) == IF d.native = "none" THEN [d EXCEPT !.native = d.cand, !.cand = "none"]
                ELSE [d EXCEPT !.native = d.cand, !.cand = d.native]
Reversed(d) == IF p.before.native = "none" THEN [d EXCEPT !.native = "none"]
               ELSE [d EXCEPT !.native = d.cand, !.cand = "none"]

\* The directories change places at once; nothing else has moved when that fails.
ExchangeNative ==
    /\ p.pc = "exchange"
    /\ \/ p.prepared /\ data' = Exchanged(data) /\ Continues("verify") /\ UNCHANGED faults
       \/ p.prepared /\ MayFault /\ data' = [data EXCEPT !.cand = "none"]
          /\ p' = [p EXCEPT !.pc = "discard", !.may = TRUE]
       \/ ~p.prepared /\ Continues("commit") /\ UNCHANGED <<data, faults>>
    /\ UNCHANGED <<files, gens, pins, svc, runs, edits>>

\* Mutant: the old tables are removed as soon as the new store is in place.
VerifyAndRemove ==
    /\ p.pc = "verify"
    /\ data' = [data EXCEPT !.cand = "none", !.flat = FALSE]
    /\ Continues("commit")
    /\ UNCHANGED <<files, gens, pins, svc, runs, edits, faults>>

VerifyPublished ==
    /\ p.pc = "verify"
    /\ \/ Continues("commit") /\ UNCHANGED faults
       \/ MayFault /\ Continues("unexchange")
    /\ UNCHANGED <<files, gens, pins, data, svc, runs, edits>>

Uncertain == p' = [p EXCEPT !.pc = "resume", !.may = FALSE, !.end = "uncertain"]

\* The fence is a try-lock, and hooks hold it; before anything is written a changed
\* file makes the outcome uncertain, and a package that cannot be read is given up.
CommitPackage ==
    /\ p.pc = "commit"
    /\ \/ revalidate_original /\ p' = [p EXCEPT !.pc = "publish", !.called = TRUE] /\ UNCHANGED faults
       \/ revalidate_original /\ p' = [p EXCEPT !.pc = "discard", !.called = TRUE, !.may = TRUE]
          /\ MayFault
       \/ ~revalidate_original /\ Uncertain /\ UNCHANGED faults
       \/ MayFault /\ Uncertain
    /\ UNCHANGED <<files, gens, pins, data, svc, runs, edits>>

PublishFile ==
    /\ p.pc = "publish" /\ p.i < Len(Edited)
    /\ publish(Edited[p.i + 1])
    /\ UNCHANGED <<gens, pins, data, svc, runs, edits>>

\* A last look at all files, then the copies of the old ones are removed.
CommitFiles ==
    /\ p.pc = "publish" /\ p.i = Len(Edited)
    /\ LET sound == \A f \in {Edited[k] : k \in 1..Len(Edited)} : revalidate(f, LeftIn(f)) IN
       \/ sound /\ Continues("committed") /\ UNCHANGED faults
       \/ sound /\ MayFault /\ Uncertain
       \/ ~sound /\ Continues("undo") /\ UNCHANGED faults
    /\ UNCHANGED <<files, gens, pins, data, svc, runs, edits>>

UndoCommit ==
    /\ p.pc = "undo" /\ Upgrading
    /\ p' = [p EXCEPT !.pc = "rollback", !.i = Len(Edited)]
    /\ UNCHANGED <<files, gens, pins, data, svc, runs, edits, faults>>

RollbackFile ==
    /\ p.pc = "rollback" /\ p.i > 0
    /\ rollback(Edited[p.i])
    /\ UNCHANGED <<gens, pins, data, svc, runs, edits>>

\* Mutant: the rollback counts as done whatever became of it.
RolledBackAnyway ==
    /\ p.pc = "rollback" /\ p.i = 0
    /\ p' = [p EXCEPT !.pc = "discard", !.may = TRUE]
    /\ UNCHANGED <<files, gens, pins, data, svc, runs, edits, faults>>

\* Restored only when every file is demonstrably what it was.
RolledBack ==
    /\ p.pc = "rollback" /\ p.i = 0
    /\ IF p.restored /\ revalidate("config", p.orig["config"])
       THEN p' = [p EXCEPT !.pc = "discard", !.may = TRUE]
       ELSE Uncertain
    /\ UNCHANGED <<files, gens, pins, data, svc, runs, edits, faults>>

\* The staged generation goes, and the store is put back when the package had
\* been called in.
discard_staged ==
    /\ p.pc = "discard"
    /\ \/ gens' = gens \ {2} /\ UNCHANGED faults
          /\ IF p.called /\ p.prepared THEN Continues("unexchange") ELSE GivesUp(p.may)
       \/ MayFault /\ Uncertain /\ UNCHANGED gens
    /\ UNCHANGED <<files, pins, data, svc, runs, edits>>

UnexchangeNative ==
    /\ p.pc = "unexchange"
    /\ \/ data' = Reversed(data) /\ UNCHANGED faults
          /\ p' = [p EXCEPT !.pc = IF p.called THEN "resume" ELSE "discard", !.may = TRUE]
       \/ MayFault /\ Uncertain /\ UNCHANGED data
    /\ UNCHANGED <<files, gens, pins, svc, runs, edits>>

\* The old tables are removed last; what cannot be removed keeps the service off.
RetireOld ==
    /\ p.pc = "committed"
    /\ \/ data' = [data EXCEPT !.cand = "none", !.flat = FALSE]
          /\ Continues("restart") /\ UNCHANGED faults
       \/ p.prepared /\ MayFault /\ Stops("retained") /\ UNCHANGED data
    /\ UNCHANGED <<files, gens, pins, svc, runs, edits>>

Resumed == [p.prev EXCEPT !.run = IF @ = 0 THEN 0 ELSE files.unit.v]

RestartPublished ==
    /\ p.pc = "restart"
    /\ Stops("done")
    /\ \/ svc' = Resumed /\ UNCHANGED faults
       \/ MayFault /\ UNCHANGED svc
    /\ UNCHANGED <<files, gens, pins, data, runs, edits>>

\* Mutant: the previous service is started whatever became of the store.
ResumeAnyway ==
    /\ p.pc = "resume"
    /\ svc' = IF p.managed THEN Resumed ELSE svc
    /\ Stops("failed")
    /\ UNCHANGED <<files, gens, pins, data, runs, edits, faults>>

\* verify_package_resume: no remnant of an upgrade, and a store that can be read.
verify_package_resume == ~reject_retained_upgrade_candidate /\ data.native # "none"

resume_unpublished_service ==
    /\ p.pc = "resume"
    /\ p' = [p EXCEPT !.pc = "idle", !.end = IF @ = "uncertain" THEN @ ELSE "failed"]
    /\ LET sound == p.managed /\ p.may /\ p.held /\ verify_package_resume IN
       \/ sound /\ svc' = Resumed /\ UNCHANGED faults
       \/ sound /\ MayFault /\ UNCHANGED svc
       \/ ~sound /\ UNCHANGED <<svc, faults>>
    /\ UNCHANGED <<files, gens, pins, data, runs, edits>>
-----------------------------------------------------------------------------
InstallNext ==
    \/ \E s \in Sessions : resolve_for_session(s)
    \/ UserEdits \/ OperatorKilled
    \/ \E kind \in Kinds : BeginInstall(kind) \/ BeginUpgrade(kind)
    \/ InstallAssets \/ RemoveService \/ WriteFile \/ InstallService
    \/ UndoInstall \/ UnwriteFile \/ RestoreService \/ RemoveAssets
    \/ quiesce \/ prepare_native_upgrade \/ ProbePackage \/ stage_generation
    \/ ExchangeNative \/ VerifyPublished \/ CommitPackage \/ PublishFile \/ CommitFiles
    \/ UndoCommit \/ RollbackFile \/ RolledBack \/ discard_staged \/ UnexchangeNative
    \/ RetireOld \/ RestartPublished \/ resume_unpublished_service

InstallSpec == InstallInit /\ [][InstallNext /\ UNCHANGED start]_installVars
-----------------------------------------------------------------------------
(* Properties.                                                                *)

\* Types, and who may be in which step.
InstallTyped ==
    /\ \A f \in Names : files[f].v \in 0..2 /\ files[f].user \in 0..MaxEdits
    /\ gens \subseteq {1, 2} /\ pins \in [Sessions -> 0..2]
    /\ data.native \in {"none", "legacy", "current"} /\ data.cand \in {"none", "legacy", "current"}
    /\ svc.run \in 0..2
    /\ p.pc \in {"publish", "rollback", "committed", "restart"} => p.kind = "upgrade"
    /\ p.pc # "idle" /\ p.kind = "upgrade" /\ p.pc # "quiesce" /\ p.managed => svc.run = 0

\* A generation a session is pinned to stays registered and on disk, although
\* commits and installs are undone and killed around it.
PinsResolvable ==
    ~Locked => \A s \in Sessions : pins[s] # 0 => pins[s] \in gens /\ files.registry.v >= pins[s]

\* What the user wrote into the host configuration is never lost.
UserEditsKept == files.host.user = edits

Agree(v) == \A f \in Names \ {"config"} : Is(f, v)

\* A service the upgrade lets run has the files of one package and a store in the
\* format of that package, with no remnant of another one beside it.
ServiceAgrees ==
    svc.run # 0 /\ p.pc = "idle" /\ p.kind = "upgrade"
        => /\ Agree(svc.run)
           /\ svc.run = 2 => data.native = "current" /\ data.cand = "none" /\ ~data.flat
           /\ svc.run = 1 => data.native = p.before.native

\* The tables of the old format are removed only when a backup is published and
\* the new package is in place.
OldTablesKept ==
    start \in {"legacy", "flat"} /\ data.native # "legacy" /\ data.cand # "legacy" /\ ~data.flat
        => data.backup /\ Agree(2)

\* An upgrade that says it failed, and not that it is uncertain, left the files, the
\* generations and the store as they were.
FailureIsClean ==
    p.pc = "idle" /\ p.kind = "upgrade" /\ p.end = "failed"
        => /\ \A f \in Names : files[f].v = p.orig[f].v
           /\ data.native = p.before.native \/ p.before = Layout("empty")
           /\ data.flat = p.before.flat

\* An install or a removal that was undone leaves the files it found, and it starts
\* no service without its unit.
InstallUndone ==
    p.pc = "idle" /\ p.kind \in {"install", "uninstall"} /\ p.end = "failed"
        => /\ \A f \in Names : files[f].v = p.orig[f].v
           /\ svc.run # 0 /\ p.prev.run = 0 => ~Is("unit", 0)

\* Files, store, service and pinned generations belong together at every point a process can
\* die (install.rs, restore.rs).
InstalledAgrees == InstallTyped /\ PinsResolvable /\ ServiceAgrees /\ OldTablesKept

\* What failed is undone, and nothing the user wrote is undone with it (install.rs).
FailuresUndone == FailureIsClean /\ InstallUndone /\ UserEditsKept
=============================================================================

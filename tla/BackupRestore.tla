--------------------------- MODULE BackupRestore ---------------------------
(* Quiesced backups of a running store and offline restore, with the live     *)
(* system around them: hooks capture into the spool, ingest commits and       *)
(* acknowledges, objects are forgotten and a repository is purged             *)
(* (store/backup.rs, store/restore.rs, jobs/executor.rs, engine/maintenance). *)
(* A state root is what its journal, its CAS and its spool hold; a record is  *)
(* one capture with a blob of its own.                                        *)
EXTENDS Integers, FiniteSets, FiniteSetsExt

CONSTANTS Records,   \* captures
          Scenarios  \* what may happen, and the bounds: see env

ASSUME ScenariosAssumption ==
    Scenarios \subseteq [acts : SUBSET STRING, records : SUBSET Records, owned : SUBSET Records,
                        nested : BOOLEAN, jobs : Nat, restores : Nat, left : Nat]

VARIABLES fs,      \* [active, rollback, candidate, kept, config, temp, saved]
          backups, \* published backups, by job
          b,       \* the writer actor and the backup it makes
          up,      \* the daemon runs and holds the sibling lock
          r,       \* the restore process
          made,    \* the identity of the next root, and (history) whether a root was
                   \* ever made where there was none
          env,     \* the scenario: acts (parts of the environment that act), records
                   \* (what may be captured), owned (those of the repository that may be
                   \* purged), nested (the configuration file lies inside the state
                   \* root), jobs and restores (bounds), left (failures and kills still
                   \* to come)
          deleted, \* history: what was ever forgotten or purged in an active root
          captured \* history: what was ever captured

vars == <<fs, backups, b, up, r, made, env, deleted, captured>>

Fault == env.left > 0 /\ env' = [env EXCEPT !.left = @ - 1]
Acts(name) == name \in env.acts
None == [id |-> 0]
Exists(root) == root.id # 0

EmptyRoot(id) ==
    [id |-> id, items |-> {}, spool |-> {}, cas |-> {}, gone |-> {}, pend |-> {},
     purge |-> "none", plan |-> {}, job |-> 0, state |-> "none", gen |-> 0, cfg |-> id]

\* What a reader of the store sees, and what holds a blob.
Visible(root) == (root.items \ root.gone) \ (IF root.purge = "none" THEN {} ELSE env.owned)
live_cas_refs(root) == Visible(root)
Pins(root) == live_cas_refs(root) \union root.spool

IdleBackup == [pc |-> "idle", job |-> 0, content |-> None, held |-> {}]
IdleRestore == [pc |-> "idle", before |-> 0, config |-> 0, source |-> 0, ledger |-> None,
                refs |-> {}, moved |-> FALSE, configured |-> FALSE, end |-> "none", done |-> 0]

Init ==
    /\ fs = [active |-> EmptyRoot(1), rollback |-> None, candidate |-> None, kept |-> {},
             config |-> 1, temp |-> 0, saved |-> 0]
    /\ backups = [j \in {} |-> None]
    /\ b = IdleBackup
    /\ up = TRUE
    /\ r = IdleRestore
    /\ made = [next |-> 2, anew |-> FALSE]
    /\ env \in Scenarios
    /\ deleted = {}
    /\ captured = {}

active == fs.active
Config == IF env.nested THEN active.cfg ELSE fs.config
\* The actor takes no command while it makes a backup; offline nothing commits.
Actor == up /\ b.pc \in {"idle", "finish"}
\* Exclusive use of the live fence, which shuts the hooks out.
Fenced == r.pc \in {"save", "swap", "install", "configure", "settle", "undo"}
Now(root) == fs' = [fs EXCEPT !.active = root]
-----------------------------------------------------------------------------
(* The live system.                                                           *)

Capture(x) ==
    /\ Acts("capture") /\ x \in env.records /\ Exists(active) /\ ~Fenced
    /\ x \notin captured /\ (x \in env.owned => active.purge = "none")
    /\ Now([active EXCEPT !.cas = @ \union {x}, !.spool = @ \union {x}])
    /\ captured' = captured \union {x}
    /\ UNCHANGED <<backups, b, up, r, made, env, deleted>>

IngestCommit(x) ==
    /\ Actor /\ x \in active.spool \ active.items
    /\ Now([active EXCEPT !.items = @ \union {x}])
    /\ UNCHANGED <<backups, b, up, r, made, env, deleted, captured>>

\* The acknowledgement unlinks the segment, and needs no actor.
IngestAck(x) ==
    /\ up /\ x \in active.spool \intersect active.items
    /\ Now([active EXCEPT !.spool = @ \ {x}])
    /\ UNCHANGED <<backups, b, up, r, made, env, deleted, captured>>

Forget(x) ==
    /\ Acts("forget") /\ Actor /\ x \in Visible(active)
    /\ Now([active EXCEPT !.gone = @ \union {x}, !.pend = @ \union {x}])
    /\ deleted' = deleted \union {x}
    /\ UNCHANGED <<backups, b, up, r, made, env, captured>>

\* Mutant: what was carried out is no longer recorded.
DropTombstones ==
    /\ Actor /\ active.pend # {}
    /\ Now([active EXCEPT !.gone = @ \ active.pend])
    /\ UNCHANGED <<backups, b, up, r, made, env, deleted, captured>>

reconcile_object_deletions ==
    /\ Actor /\ active.pend # {}
    /\ Now([active EXCEPT !.pend = {}])
    /\ UNCHANGED <<backups, b, up, r, made, env, deleted, captured>>

PurgeConfirmed ==
    /\ Acts("purge") /\ Actor /\ active.purge = "none"
    /\ Now([active EXCEPT !.purge = "Pending", !.plan = env.owned \intersect Visible(active)])
    /\ deleted' = deleted \union (env.owned \intersect active.items)
    /\ UNCHANGED <<backups, b, up, r, made, env, captured>>

\* The projection is closed, the planned blobs are unlinked under the fence but
\* for those something still refers to, and the purge is recorded as complete.
reconcile_repository_scope_purge_batch ==
    /\ Actor /\ b.pc = "idle" /\ active.purge \in {"Pending", "Closed", "Deleting"}
    /\ Now(CASE active.purge = "Pending" -> [active EXCEPT !.purge = "Closed"]
             [] active.purge = "Closed" ->
                  [active EXCEPT !.purge = "Deleting", !.cas = @ \ (active.plan \ Pins(active))]
             [] active.purge = "Deleting" -> [active EXCEPT !.purge = "Purged"])
    /\ UNCHANGED <<backups, b, up, r, made, env, deleted, captured>>

Reload ==
    /\ Acts("reload") /\ Actor /\ Fault
    /\ Now([active EXCEPT !.gen = @ + 1])
    /\ UNCHANGED <<backups, b, up, r, made, deleted, captured>>

Stop ==
    /\ Acts("restore") /\ up /\ b.pc = "idle"
    /\ up' = FALSE
    /\ UNCHANGED <<fs, backups, b, r, made, env, deleted, captured>>

\* Taking the sibling lock makes the state root if there is none
\* (SiblingWriterLock::acquire).
Acquired == IF Exists(active) THEN active ELSE EmptyRoot(made.next)

Start ==
    /\ ~up /\ r.pc = "idle"
    /\ up' = TRUE
    /\ Now(Acquired)
    /\ made' = IF Exists(active) THEN made ELSE [next |-> made.next + 1, anew |-> TRUE]
    /\ UNCHANGED <<backups, b, r, env, deleted, captured>>

Killed ==
    /\ Acts("kill") /\ up /\ Fault
    /\ up' = FALSE /\ b' = IdleBackup
    /\ UNCHANGED <<fs, backups, r, made, deleted, captured>>
-----------------------------------------------------------------------------
(* A backup job.                                                              *)

RequestBackup ==
    /\ Acts("backup") /\ Actor /\ active.state \in {"none", "Succeeded", "Failed"}
    /\ active.job < env.jobs
    /\ Now([active EXCEPT !.job = @ + 1, !.state = "Queued"])
    /\ UNCHANGED <<backups, b, up, r, made, env, deleted, captured>>

ClaimBackup ==
    /\ Actor /\ b.pc = "idle" /\ active.state = "Queued"
    /\ Now([active EXCEPT !.state = "Leased"])
    /\ b' = [b EXCEPT !.pc = "begin", !.job = active.job]
    /\ UNCHANGED <<backups, up, r, made, env, deleted, captured>>

\* Mutant: only a lease of a job that has published nothing is taken back.
RecoverUnpublished ==
    /\ Actor /\ b.pc = "idle" /\ active.state = "Leased" /\ active.job \notin DOMAIN backups
    /\ Now([active EXCEPT !.state = "Queued"])
    /\ UNCHANGED <<backups, b, up, r, made, env, deleted, captured>>

RecoverBackupLease ==
    /\ Actor /\ b.pc = "idle" /\ active.state = "Leased"
    /\ Now([active EXCEPT !.state = "Queued"])
    /\ UNCHANGED <<backups, b, up, r, made, env, deleted, captured>>

Published(j) == j \in DOMAIN backups
Fails == b' = [b EXCEPT !.pc = "finish", !.content = None]

\* A backup already published under this job is only verified.
BeginBackup ==
    /\ up /\ b.pc = "begin"
    /\ b' = IF Published(b.job) THEN [b EXCEPT !.pc = "finish", !.content = backups[b.job].content]
            ELSE [b EXCEPT !.pc = "freeze"]
    /\ UNCHANGED <<fs, backups, up, r, made, env, deleted, captured>>

\* Mutant: the open segment is not sealed and so not listed.
FreezeSealed ==
    /\ up /\ b.pc = "freeze"
    /\ b' = [b EXCEPT !.pc = "stage", !.content = [active EXCEPT !.spool = @ \intersect active.items],
                      !.held = active.items \union active.spool]
    /\ UNCHANGED <<fs, backups, up, r, made, env, deleted, captured>>

\* Under the exclusive fence the open segment is sealed and the files of the
\* spool are listed.
freeze_backup_boundary ==
    /\ up /\ b.pc = "freeze"
    /\ b' = [b EXCEPT !.pc = "stage", !.content = active,
                      !.held = active.items \union active.spool]
    /\ UNCHANGED <<fs, backups, up, r, made, env, deleted, captured>>

\* What a backup of this root and these frozen spool files has to hold, and that
\* the sources are still what they were.
BackupRefs(root, frozen) == live_cas_refs(root) \union frozen
SourcesPresent(root, frozen) ==
    frozen \subseteq root.spool /\ BackupRefs(root, frozen) \subseteq root.cas

\* Anything of the spool past the boundary is outside.
StageBackup ==
    /\ up /\ b.pc = "stage"
    /\ IF SourcesPresent(active, b.content.spool)
       THEN b' = [b EXCEPT !.pc = "publish", !.content =
                    [active EXCEPT !.spool = b.content.spool,
                                   !.cas = BackupRefs(active, b.content.spool)]]
       ELSE Fails
    /\ UNCHANGED <<fs, backups, up, r, made, env, deleted, captured>>

\* What verification demands of a staged, published or copied backup: no file is
\* missing and none is there that the manifest does not name.
RefsVerified(content) == BackupRefs(content, content.spool) \subseteq content.cas
FilesVerified(content) == content.cas \subseteq BackupRefs(content, content.spool)
VerifiedBackup(content) == RefsVerified(content) /\ FilesVerified(content)

publish_backup ==
    /\ up /\ b.pc = "publish"
    /\ \/ /\ VerifiedBackup(b.content)
          /\ backups' = [j \in DOMAIN backups \union {b.job} |->
                           IF j = b.job THEN [content |-> b.content, held |-> b.held]
                           ELSE backups[j]]
          /\ b' = [b EXCEPT !.pc = "finish"]
          /\ UNCHANGED env
       \/ /\ Fault /\ Fails /\ UNCHANGED backups
    /\ UNCHANGED <<fs, up, r, made, deleted, captured>>

finish_backup_job ==
    /\ Actor /\ b.pc = "finish"
    /\ Now([active EXCEPT !.state = IF b.content = None THEN "Failed" ELSE "Succeeded"])
    /\ b' = IdleBackup
    /\ UNCHANGED <<backups, up, r, made, env, deleted, captured>>
-----------------------------------------------------------------------------
(* Restore: a candidate beside the live root, brought up to the live deletion *)
(* ledger, then swapped in with its configuration.                            *)

Goes(pc) == r' = [r EXCEPT !.pc = pc]
Ends(how) == r' = [IdleRestore EXCEPT !.end = how, !.before = r.before, !.config = r.config,
                                      !.done = r.done]

\* copy_verified_candidate
Copied(content, id) == [content EXCEPT !.id = id]

\* The backup is verified and copied; an empty root has no ledger, so the copy
\* stays a historical one.
PrepareRestore(j) ==
    /\ Acts("restore") /\ ~up /\ r.pc = "idle" /\ r.done < env.restores /\ Published(j)
    /\ VerifiedBackup(backups[j].content)
    /\ LET found == Exists(active) IN
       /\ fs' = [fs EXCEPT !.active = IF found THEN @ ELSE EmptyRoot(made.next + 1),
                           !.candidate = IF found THEN Copied(backups[j].content, made.next)
                                         ELSE None]
       /\ r' = [IdleRestore EXCEPT !.pc = IF found THEN "ledger" ELSE "idle",
                  !.end = IF found THEN "none" ELSE "historical",
                  !.before = fs'.active.id, !.config = IF found THEN Config ELSE 0,
                  !.source = j, !.done = r.done + 1]
    /\ made' = [next |-> made.next + 2, anew |-> made.anew \/ ~Exists(active)]
    /\ UNCHANGED <<backups, b, up, env, deleted, captured>>

\* What the candidate holds of a repository the live root has purged.
candidate_scope_refs(ledger, candidate) ==
    IF ledger.purge = "none" THEN {} ELSE env.owned \intersect candidate.items
PlannedRefs(ledger) == IF ledger.purge \in {"none", "Purged"} THEN {} ELSE ledger.plan

\* CurrentLedger::read on the live root; what the candidate holds of purged
\* repositories is found before the ledger hides it.
ReadLedger ==
    /\ r.pc = "ledger"
    /\ r' = [r EXCEPT !.pc = "import", !.ledger = active,
                      !.refs = candidate_scope_refs(active, fs.candidate)
                                 \union PlannedRefs(active)]
    /\ UNCHANGED <<fs, backups, b, up, made, env, deleted, captured>>

\* Mutant: deletions still being carried out are not taken over.
ImportFinished ==
    /\ r.pc = "import"
    /\ fs' = [fs EXCEPT !.candidate =
                [fs.candidate EXCEPT !.gone = @ \union (r.ledger.gone \ r.ledger.pend),
                                     !.purge = IF r.ledger.purge = "none" THEN @ ELSE r.ledger.purge]]
    /\ Goes("delete")
    /\ UNCHANGED <<backups, b, up, made, env, deleted, captured>>

import_restore_ledger ==
    /\ r.pc = "import"
    /\ fs' = [fs EXCEPT !.candidate =
                [fs.candidate EXCEPT !.gone = @ \union r.ledger.gone,
                                     !.pend = (@ \ r.ledger.gone) \union r.ledger.pend,
                                     !.purge = IF r.ledger.purge = "none" THEN @ ELSE r.ledger.purge]]
    /\ Goes("delete")
    /\ UNCHANGED <<backups, b, up, made, env, deleted, captured>>

\* Mutant: purged means the blobs are gone already.
DeleteNothing ==
    /\ r.pc = "delete"
    /\ fs' = [fs EXCEPT !.candidate =
                [fs.candidate EXCEPT !.pend = @ \ r.ledger.pend,
                                     !.purge = IF r.ledger.purge = "none" THEN @ ELSE "Purged"]]
    /\ Goes("reset")
    /\ UNCHANGED <<backups, b, up, made, env, deleted, captured>>

complete_candidate_deletions ==
    /\ r.pc = "delete"
    /\ fs' = [fs EXCEPT !.candidate =
                [fs.candidate EXCEPT !.cas = @ \ (r.refs \ Pins(fs.candidate)),
                                     !.pend = @ \ r.ledger.pend,
                                     !.purge = IF r.ledger.purge = "none" THEN @ ELSE "Purged"]]
    /\ Goes("reset")
    /\ UNCHANGED <<backups, b, up, made, env, deleted, captured>>

\* Mutant: the runtime generation of the backup is continued.
ResetOwnGeneration ==
    /\ r.pc = "reset"
    /\ fs' = [fs EXCEPT !.candidate =
                [fs.candidate EXCEPT !.state = IF @ = "Leased" THEN "Queued" ELSE @, !.gen = @ + 1]]
    /\ Goes("save")
    /\ UNCHANGED <<backups, b, up, made, env, deleted, captured>>

\* Leases are taken back, and the runtime snapshot gets a generation past both
\* roots' (restore_offline).
reset_runtime_authority(root) == [root EXCEPT !.state = IF @ = "Leased" THEN "Queued" ELSE @]

ResetAuthority ==
    /\ r.pc = "reset"
    /\ fs' = [fs EXCEPT !.candidate =
                [reset_runtime_authority(fs.candidate) EXCEPT !.gen = Max({@, active.gen}) + 1]]
    /\ Goes("save")
    /\ UNCHANGED <<backups, b, up, made, env, deleted, captured>>

\* The preparation fails: the candidate alone is removed.
PreparationFails ==
    /\ r.pc \in {"ledger", "import", "delete", "reset"} /\ Fault
    /\ fs' = [fs EXCEPT !.candidate = None]
    /\ Ends("failed")
    /\ UNCHANGED <<backups, b, up, made, deleted, captured>>

\* activate_inner, under both fences.
SaveConfig ==
    /\ r.pc = "save"
    /\ fs' = [fs EXCEPT !.saved = Config, !.temp = fs.candidate.id]
    /\ Goes("swap")
    /\ UNCHANGED <<backups, b, up, made, env, deleted, captured>>

MoveOldRoot ==
    /\ r.pc = "swap"
    /\ fs' = [fs EXCEPT !.rollback = active, !.active = None]
    /\ r' = [r EXCEPT !.pc = "install", !.moved = TRUE]
    /\ UNCHANGED <<backups, b, up, made, env, deleted, captured>>

InstallRoot ==
    /\ r.pc = "install"
    /\ fs' = [fs EXCEPT !.active = fs.candidate, !.candidate = None]
    /\ r' = [r EXCEPT !.pc = "configure"]
    /\ UNCHANGED <<backups, b, up, made, env, deleted, captured>>

InstallConfig ==
    /\ r.pc = "configure"
    /\ fs' = IF env.nested THEN [fs EXCEPT !.active.cfg = fs.temp, !.temp = 0]
             ELSE [fs EXCEPT !.config = fs.temp, !.temp = 0]
    /\ r' = [r EXCEPT !.pc = "settle", !.configured = TRUE]
    /\ UNCHANGED <<backups, b, up, made, env, deleted, captured>>

\* Mutant: the former root is removed.
SettleAlone ==
    /\ r.pc = "settle"
    /\ fs' = [fs EXCEPT !.rollback = None, !.saved = 0]
    /\ Ends("activated")
    /\ UNCHANGED <<backups, b, up, made, env, deleted, captured>>

\* The former root is kept.
Settle ==
    /\ r.pc = "settle"
    /\ fs' = [fs EXCEPT !.kept = @ \union {fs.rollback}, !.rollback = None, !.saved = 0]
    /\ Ends("activated")
    /\ UNCHANGED <<backups, b, up, made, env, deleted, captured>>

ActivationFails ==
    /\ r.pc \in {"save", "swap", "install", "configure", "settle"} /\ Fault
    /\ Goes("undo")
    /\ UNCHANGED <<fs, backups, b, up, made, deleted, captured>>

\* Mutant: the configuration is left as it was installed.
UndoKeepsConfig ==
    /\ r.pc = "undo"
    /\ fs' = [fs EXCEPT
                !.active = IF r.moved THEN fs.rollback ELSE @,
                !.candidate = None, !.rollback = None, !.temp = 0, !.saved = 0]
    /\ Ends("failed")
    /\ UNCHANGED <<backups, b, up, made, env, deleted, captured>>

\* The rollback: configuration, candidate, old root, each only if it was moved; then
\* the candidate and the staged configurations are removed.
UndoActivation ==
    /\ r.pc = "undo"
    /\ fs' = [fs EXCEPT
                !.config = IF r.configured /\ ~env.nested THEN fs.saved ELSE @,
                !.active = IF r.moved THEN fs.rollback ELSE @,
                !.candidate = None, !.rollback = None, !.temp = 0, !.saved = 0]
    /\ Ends("failed")
    /\ UNCHANGED <<backups, b, up, made, env, deleted, captured>>

\* A step of the rollback fails: everything stays where it is and is reported.
UndoFails ==
    /\ r.pc = "undo" /\ Acts("undo") /\ Fault
    /\ fs' = [fs EXCEPT !.kept = @ \union ({fs.rollback} \ {None}), !.rollback = None]
    /\ Ends("rollback_failed")
    /\ UNCHANGED <<backups, b, up, made, deleted, captured>>

\* The restore is killed: locks and fences are released, nothing is cleaned up.
RestoreKilled ==
    /\ Acts("restore_kill") /\ r.pc # "idle" /\ Fault
    /\ fs' = [fs EXCEPT !.kept = @ \union ({fs.rollback} \ {None}), !.rollback = None,
                        !.candidate = None]
    /\ Ends("killed")
    /\ UNCHANGED <<backups, b, up, made, deleted, captured>>

Live ==
    \/ \E x \in Records : Capture(x) \/ IngestCommit(x) \/ IngestAck(x) \/ Forget(x)
    \/ reconcile_object_deletions \/ PurgeConfirmed \/ reconcile_repository_scope_purge_batch
    \/ Reload \/ Stop \/ Start \/ Killed
Backup ==
    \/ RequestBackup \/ ClaimBackup \/ RecoverBackupLease \/ BeginBackup
    \/ freeze_backup_boundary \/ StageBackup \/ publish_backup \/ finish_backup_job
Restore ==
    \/ \E j \in DOMAIN backups : PrepareRestore(j)
    \/ ReadLedger \/ import_restore_ledger \/ complete_candidate_deletions \/ ResetAuthority
    \/ PreparationFails \/ SaveConfig \/ MoveOldRoot \/ InstallRoot \/ InstallConfig
    \/ Settle \/ ActivationFails \/ UndoActivation \/ UndoFails \/ RestoreKilled

Next == Live \/ Backup \/ Restore
Spec == Init /\ [][Next]_vars

\* The daemon is started again, its actor and scheduler go on, leases expire; an
\* operator carries a restore to its end.
FairSpec ==
    /\ Spec
    /\ WF_vars(Start) /\ SF_vars(ClaimBackup) /\ SF_vars(RecoverBackupLease)
    /\ WF_vars(BeginBackup) /\ WF_vars(freeze_backup_boundary) /\ WF_vars(StageBackup)
    /\ WF_vars(publish_backup) /\ WF_vars(finish_backup_job)
    /\ WF_vars(ReadLedger \/ import_restore_ledger \/ complete_candidate_deletions
               \/ ResetAuthority \/ SaveConfig \/ MoveOldRoot \/ InstallRoot \/ InstallConfig
               \/ Settle \/ UndoActivation)
-----------------------------------------------------------------------------
(* Properties.                                                                *)

IsRoot(x) ==
    x = None \/ /\ x.items \subseteq Records /\ x.spool \subseteq Records
                /\ x.cas \subseteq Records /\ x.pend \subseteq x.gone
                /\ x.purge \in {"none", "Pending", "Closed", "Deleting", "Purged"}
                /\ x.state \in {"none", "Queued", "Leased", "Succeeded", "Failed"}

\* Types; deletions in progress are recorded ones.
TypeOK ==
    /\ IsRoot(fs.active) /\ IsRoot(fs.rollback) /\ IsRoot(fs.candidate)
    /\ \A x \in fs.kept : IsRoot(x) /\ Exists(x)
    /\ b.pc \in {"idle", "begin", "freeze", "stage", "publish", "finish"}
    /\ up \in BOOLEAN /\ (up => r.pc = "idle")
    /\ (b.pc # "idle" => up)
    /\ \E e \in Scenarios : env.left \in 0..e.left /\ env = [e EXCEPT !.left = env.left]

\* A published backup holds all that was durable when its boundary was frozen, in
\* its journal or in its spool, with every blob they refer to, although hooks
\* capture and ingest acknowledges while it is copied.
BackupComplete ==
    \A j \in DOMAIN backups :
        LET c == backups[j].content IN
        /\ backups[j].held \subseteq c.items \union c.spool
        /\ Visible(c) \union c.spool \subseteq c.cas

\* What was forgotten or purged is never seen again in an active root, whatever
\* backup is restored and however far the deletion had got; a root made where there
\* was none (the old one was left aside by a restore that was killed, or could not be
\* undone) has no ledger to know it from.
NoResurrection == ~Fenced /\ Exists(active) /\ ~made.anew => Visible(active) \intersect deleted = {}

\* A root that is being activated holds no blob of a purged repository but what its
\* spool still refers to.
PurgedBlobsGone ==
    Fenced /\ Exists(fs.candidate) /\ fs.candidate.purge # "none"
        => (fs.candidate.cas \intersect fs.candidate.items \intersect env.owned)
             \subseteq fs.candidate.spool

\* Every capture not deleted is still on disk with its blob, in the active root or
\* in a preserved one, through failed rollbacks and kills at any point.
NothingDestroyed ==
    LET roots == {x \in {active, fs.rollback} \union fs.kept : Exists(x)} IN
    \A x \in captured \ deleted :
        \E root \in roots : x \in (root.items \union root.spool) /\ x \in root.cas

\* A restore that failed and was rolled back leaves the old root active, with the
\* configuration there was; one that succeeded leaves the new root with its own.
AllOrNothing ==
    r.pc = "idle" =>
        /\ r.end = "failed" => active.id = r.before /\ Config = r.config
        /\ r.end = "activated" => Config = active.id

\* Hooks pinned to a preserved root never see a runtime generation again that they
\* have seen: however restores ended, the active root's is past all of them, as long as
\* it was not made where there was none.
GenerationAdvances ==
    r.pc = "idle" /\ Exists(active) /\ ~made.anew => \A k \in fs.kept : k.gen < active.gen

\* A requested backup ends, through kills of the daemon and restores of the root
\* whose journal holds the job.
BackupEnds == [](Exists(active) /\ active.state \in {"Queued", "Leased"}
                   => <>(Exists(active) /\ active.state \notin {"Queued", "Leased"}))

\* A restored root brings back nothing that was forgotten or purged, rows or blobs
\* (restore.rs).
DeletedStaysGone == NoResurrection /\ PurgedBlobsGone

\* Backups are complete, a restore is done or undone as a whole, destroys no capture and
\* moves past the generations hooks have pinned (backup.rs, restore.rs).
NothingLost == TypeOK /\ BackupComplete /\ NothingDestroyed /\ AllOrNothing /\ GenerationAdvances
=============================================================================

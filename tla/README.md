# EverTrace: a TLA+ model of its durable core

EverTrace records what a coding agent does.  Short-lived hook processes capture
evidence into local files; a daemon turns it into a journal, derives everything
else from the journal, runs jobs over what it derived, and deletes what is no longer
referred to.  The project models the parts of the system in which several processes
and tasks share durable state and in which a wrong order of steps loses evidence,
repeats an effect, or brings back what was deleted.

## Inventory

| Component | State | Operations | Hard behaviour | What makes it correct |
|---|---|---|---|---|
| Hook process, admission (`evertrace-hook`, `evertrace-capture/src/admission.rs`) | none of its own, holds the fence | open for admission, protect, put, append, gap marker | killed by the host at any moment, writes fail | what is not durable is visible as a gap |
| Durable spool (`evertrace-capture/src/spool.rs`) | active carrier, sealed carriers, quarantine, emergency slots | append, seal, claim a page, acknowledge, recover, quarantine, markers | torn appends, name reuse, limits | frames leave only accounted for, limits hold, frames drain |
| CAS and maintenance fence (`evertrace-capture/src/cas.rs`) | blobs, a lock file | put, read, list candidates, guarded delete, try-lock | publish-then-refer against list-then-delete | a referenced blob exists |
| Ingest and capture reconciliation (`ingest.rs`, `capture.rs`) | volatile page cursor, rows of the journal | page loop, targeted drain, replay, discard, gap markers | two drains of one spool, lost acknowledgements | a frame is committed once |
| Journal writer and its actor (`writer.rs`, `sqlite_state.rs`, `query/projection.rs`, `jobs/executor.rs`) | commands, projections, stamps | commit, conditional commit, project | idempotent commands, shortcuts, uncertain commits | each projection is the replay of the journal to its checkpoint |
| Repository purge, garbage collection (`jobs/executor.rs`, `purge.rs`, `optimize.rs`) | stage and ordinal, volatile plan | confirm, close, batches; mark, grace, sweep | plans and pins are snapshots | as for the CAS |
| Background jobs (`maintenance.rs`, `jobs/deterministic.rs`) | durable jobs with leases | create, retire, recover, claim, finish | expiry against late completion, newer generations | results belong to leased jobs, ends are final, jobs end |
| Session import (`session_import.rs`, `jobs/import.rs`) | session record, watermarks | catalog refresh, approvals, checkpoints | files growing and replaced, revocation mid-way | what is imported is the file; revoked stays out |
| Synthesis (`jobs/synthesis*.rs`, `provider.rs`) | derivation runs, budgets | queue, claim, prepare, send, record | permission and base move while a provider is asked | nothing summarised twice, budgets hold, sent and recorded only if permitted |
| Backup and restore (`backup.rs`, `restore.rs`) | backup directories, state roots | quiesce, freeze, copy, verify, staged switch | crash points, deletions after the backup | nothing deleted comes back, nothing captured is destroyed |
| Installation and upgrade (`install.rs`, `restore.rs`) | package files, registry, service | install, remove, upgrade, roll back | kills between files, user edits, pinned sessions | files, store and service agree; failures are undone |
| Human governance (`human_governance.rs`, `semantic/proposal.rs`) | proposals, atoms, reservations in the spool | decide, reserve, commit, acknowledge, reconcile, forget | stale bases, deaths between the commits | applied what was decided, once, on its base |
| Recovery (`recovery/`) | recovery points, applications | capture a worktree, apply a patch | editors, deadlines, repeated calls, orphaned children | a complete point is one instant; a patch is applied once |
| Configuration reload (`config_reload.rs`) | file, snapshot, memory, audit | start, watch, reload, edit, publish cues | three stores changed one after the other | they agree or admission has ended |
| Recall (`recall/`) | needs, attempts, published cue | detect, retire, publish, claim, show, report, fetch | racing hooks, lost reports, moving lanes | a reminder is shown once and reported truthfully |
| Procedure memory (`procedure/usage.rs`, `projections/procedure.rs`) | revisions, publications, usages, negative evidence | route, return, credit, promote, doubt, review, replace | late ingestion, lost clients, holds while jobs run | credited only for work that followed, stable on merit, out once harmed |
| Semantics, repositories, protocol, CLI, TUI | rows of the journal, presentation | derivations, framing | | not modelled, see below |

Components talk through the file system (hook to daemon), through the writer
actor's request channel (daemon tasks to the journal), through the fence, and through
the published runtime snapshot (configuration and cues to the hooks).  The hard
behaviours are listed one by one, each at its line, under "hazards" in `PROJECT.json`.

## Modules

* `Spool` - the spool's files and the critical sections on them.  A carrier is a
  sequence of records with a health: `ok`, `torn` (ends in a partial frame) or
  `bad` (no longer parses).  Every operation that runs under the directory
  lock is one step; `AppendEffects` lists what a process that dies or fails in
  the append can leave.  Bytes are counted in units (a frame is 2, a torn rest 1).
  Carrier identity (`id`) stands for device, inode, size and times of
  `segment_identity`, and names are the lowest free index of `unique_path`.
* `CapturePipeline` - extends `Spool` with everybody who works on it: one hook
  process per record (`hookPc`), the ingest loop and a targeted drain
  (`worker["page"]`, `worker["targeted"]`, one program counter each, the same
  `drain_segments`), marker import, the collector (`gc`), purges (`purge` is what
  the journal keeps, `purgeJob` the batch in progress), and daemon restarts.
  `exclusive`, `hookFence` and `worker[w].fence` are the maintenance fence.
  `journal` is the sequence of capture commands.
* `CasLifecycle` - the abstract specification: who may publish, refer to and
  delete a blob.  It knows the fence, the frames, the receipts and the purged
  repositories, and nothing of pages, rounds, batches or restarts.
  `CapturePipeline` implements it (`ImplementsLifecycle`) under the mapping at the
  end of that module.
* `CommandFold` - commands and the fold of a set of them: ledgers (object
  deletions, scope purges) hide the rows of other commands.
* `JournalWriter` - the writer in its actor.  `journal`, `objects`, `relations` and
  `search` are durable, each projection with its checkpoint (`through`); `admission`,
  `epoch` and `cache` are what the open writer keeps in memory (`admission_state`, the
  family epochs of `SqliteState`, the two slots of `projection_validation` as sets of
  at most one stamp); `turn` is the request `project_validated` is working on; `acked` and
  `answer` are what clients were told last.
* `ProjectedLog` - the abstract specification of the writer: an append-only log with
  one command per id, acknowledgements and answers.  `JournalWriter` implements it
  (`ImplementsLog`).
* `JobScheduler` - durable jobs (`jobs`), the newest generation of each target (`gen`), the
  generation its result was made from (`done`) and the round in progress (`sched`).  Every
  commit of a round is conditional on the frontier of the snapshot it was planned
  from; `sched.snap` says whether that snapshot still is the journal's.
* `SessionImport` - one session file (`file`), its durable record and jobs (`ses`, `jobs`),
  the watermarks of the two legs (`marks`), captured records on their way (`spool`) and
  the worker's checkpoint (`w`).
* `Synthesis` - one source of messages and one episode, the jobs over them, the recorded
  runs and the calls each job was charged.
* `BackupRestore` - the live store, its backups, and the restore process with every
  directory it moves.  `made` counts the roots and remembers whether one was made where
  there was none.
* `PackageInstall` - files of the package, store layout, launcher registry, session pins and
  service under install, removal, check and upgrade.
* `Governance` - proposals, atoms, the reservations of acceptances, the deletion ledger,
  two connections and the reconciliation of a start.
* `RecoveryBarrier`, `RecoveryApplication` - a capture of the worktree from the hook's request to
  its terminal revision; an application from the request through the child process to its
  status.  `Recovery` composes them: they share the worktree's mutation fence (`lease`) and the
  daemon, die together (`Crash`) and are reconciled one after the other (`Boot`).
* `ConfigReload` - file, published snapshot, memory, audit, the one operation that holds the
  reload mutex (`op`), and the fence it shares with hooks.
* `RecallDelivery` - needs, attempts and the published cue of one lane; the recall worker,
  hooks and requests for what is due.
* `ProcedureMemory` - one procedure: the publication of each revision (`pub`), the current usage
  of a revision by a task (`usage`), the task's attempts (`work`), searches in flight, usage and
  promotion jobs, negative evidence with its review.
* `Memory` - `RecallDelivery` and `ProcedureMemory` in one daemon, which die together.
* `FenceProofs` (`CasLifecycle` and `ConfigReload`, which both are about the maintenance fence),
  `CapturePipelineProofs`, `JournalProofs` (`JournalWriter`, and `SessionImport`, which archives files
  through it), `JobSchedulerProofs`, `SemanticProofs`
  (`Synthesis` and `Governance`, how meaning is made and gets into force), `MemoryProofs` (both
  halves of `Memory`), `MaintenanceProofs` (`BackupRestore` and `PackageInstall`, the two things
  done from outside the daemon), `RecoveryProofs` (both halves of `Recovery`) - the proofs.
* `MC...` - one instance for TLC per run.

### How actions correspond to the code

A hook is `HookFence`, `HookPut`, `HookAppend` with every early return of
`capture_inner` as an action of its own: the fence is busy, the put fails, the
append is refused or fails; each leads to `write_gap_marker`, which tries the
slots one exclusive create at a time and then writes.  `HookKilled` is the host's
time limit.  A page of the ingest loop is `SealPage`, `ClaimPage`,
`StartSegment`, then per frame `SkipFrame`, `TerminalFrame` or `VerifyFrame` and
`CommitFrame`, then `AckSegment` or `EndSegment`, and `EndDrain`; an error is
`Fails`, which for the ingest loop takes the daemon down as `evertraced` does
(`DaemonDown` forgets everything volatile).  Purged frames go through
`DiscardFence`, `DiscardView`, `DiscardDelete`, `DiscardAck`.  A GC round is `GcList`,
`GcAuthority`, `GcMark` (one actor request) and `GcAuthority`, `GcSweepFence`,
`GcDelete`, `GcFinish` (another), with `GcAbort` for each refusal.  A purge is
`PurgeConfirm`, `PurgeClose`, batches of `PurgeBatchFence`, `PurgeBatchView`,
`PurgeBatchDelete`, `PurgeBatchCommit`, and `PurgeComplete`.

In the writer, `commit_inner` is `Commit` (with `Successor` for what becomes of the
stamps), `CommitReplayed` (answered before the frontier is compared) or
`CommitUncertain` (durable, the handle poisoned, the submitter has an error).
`project_validated` begins in one of four ways: `ProjectHit` (a valid stamp),
`ProjectCapture` (a lone capture over proven families), `ProjectIndexes` (valid objects,
indexes in question) and `ProjectObjects` (the ordinary catch-up, from handed rows
or from the journal).  It goes on with `SkipIndexes`, or `CommitRelations` and
`CommitSearch`, two transactions in two databases, and ends in `FinishProjection`, which
publishes the stamps.  `ReadCurrent` is a read answered from the admission state.
`Fail` is any I/O error or kill: every one of them ends the actor, so the handle is
dropped and `Reopen` starts from what is durable.

In the other modules an action has the name of the function it stands for where one
function is one step (`freeze_backup_boundary`, `publish_backup`, `watch_once`, `resume`), and a
name of its own where an operation is cut at the points at which another actor or a
death can come in between.  A cut is made at every commit, every file operation, every
lock taken or dropped, and every wait; what lies between two cuts is one step.

* A round of `JobScheduler` is `RoundStarts`, `Stages` (recover leases, retire, create, each
  from its own snapshot), `ClaimSkips` and the claims and ends of `Lanes`, `RoundEnds`; an
  invalid commit ends the scheduler, and `Restart` brings it back.
* A checkpoint of `SessionImport` is the disjuncts of `WorkerNext`: select, prove the prefix,
  lease, capture record by record, drain, advance the body, end or hand over.
  `Refresh` and `ObserveSource` are the catalog, `QueueImport` and `RevokeAccess` the user.
* A job of `Synthesis` is `ClaimJob`, `Prepare`, `Admit` (the slot of the provider and the last
  check before sending), `ProviderAnswers`, `FinishPrepared`, `CommitSource` or `CommitEpisode`.
  What makes or claims a job waits for `Compatible`: a round ends the jobs of another
  configuration (`RetireIncompatible`) before it looks for work.
* A backup is `BeginBackup`, `freeze_backup_boundary`, `StageBackup`, `publish_backup`,
  `finish_backup_job`; a restore is `ReadLedger`, `import_restore_ledger`,
  `complete_candidate_deletions`, `ResetAuthority`, `SaveConfig`, `MoveOldRoot`, `InstallRoot`,
  `InstallConfig`, `Settle`, with `UndoActivation` for its rollback.
* An upgrade of `PackageInstall` is `quiesce`, `prepare_native_upgrade`, `ProbePackage`,
  `stage_generation`, `ExchangeNative`, `VerifyPublished`, `CommitPackage`, one `PublishFile` per
  file, `CommitFiles`, `RetireOld`, `RestartPublished`, and the undo actions in reverse order.
* A decision of `Governance` is `Receive` and the steps of its caller: compose, reserve, commit,
  acknowledge; `Boot` is the caller that reconciles at start.
* In `ConfigReload` an operation takes the mutex, and `reload_inner` is its reads, the fence,
  the publication, the audit commit and the rollback.
* In `RecallDelivery` a hook is `select_recall_cue`, `authorize`, `Claim`, `emit_recall_context`,
  `outcome`, or `HookGone` at any of these points.
* In `ProcedureMemory` a search is `route_search` (the usage is recorded), `answer` (the text
  reaches the host) and `confirm_procedure_return`, with `ClientGone` in between; an operation is
  recorded by the hook (`Operate`) and reaches the journal later (`Ingest`); a promotion is
  enqueued, claimed with its cohort, and committed after the cohort was judged again.

### Abstractions

* A record stands for its frame and its command: both carry the same identifiers
  and the command is a function of the frame.  All records belong to one session,
  whose lane exists once one of them is committed (`Propagated`).
* A receipt is the only kind of row that refers to a blob.
* `delete_guarded_batch` is one step for purges and discards, blob by blob for the
  collector.  A blob deleted or republished after it was listed makes the
  round's file identities stale (`gc.stale`).
* The purge plan is the set of blobs left; batches may be any subset of the
  configured size.  Leases and retry policy of the job are left out: a refused
  batch is simply repeated.  The frontier of a progress command is the length of
  the capture journal; other commands may move it too (the `UNCHANGED purge`
  branch of `PurgeBatchCommit`).
* In the writer a command stands for its whole block of rows and takes one sequence
  number.  A refused command (id conflict, stale frontier, not admissible) changes
  nothing and is not a step.  Since every error drops the handle, reserved sequence
  numbers and a stale admission state are never seen by a later request.  A change of
  the database by another process poisons the handle like any other error.  Checks that
  compare two reads of state only the writer changes (`validate_delta`, the epochs after
  a commit) cannot fail and are left out.  Commands the actor adds
  itself after a deletion ledger are further `Commit` steps.  Wiki rows, which make the
  capture shortcut give way to the ordinary catch-up, are not modelled, and a ledger is
  the pending stage of a purge (later stages hide nothing more).
* Not in the pipeline's model: namespace probes, acknowledgement of quarantined carriers,
  managed backups as references, reports of the collector, the name limit inside
  quarantine.  Isolated segments are modelled where they are used, in `Governance`.
* `JobScheduler`: lane capacities, wake-up times and idle detection are left out.  A lease
  that runs out under its owner is a fault.
* `SessionImport`: a file holds whole records; records of older versions, which carry no
  read restriction, renames, page budgets of the catalog walk and header parsing are
  left out; so is `BlockedUntrusted`, which nothing sets.  One source revision at a time.
* `Synthesis`: idle delays are over when an action could wait for them; prompts, quoting and
  the schema of answers are left out; the branch for an episode without new evidence
  cannot be reached, because the queue already asks for some.
* `BackupRestore`: a capture is atomic under the fence; one repository may be purged; a
  legacy root is read like a current one; directories left by a dead restore stay (`kept`).
* `PackageInstall`: a file is validated again and replaced in one step; probes of the host,
  wiring and permissions are their verdicts; the service is a managed one.
* `Governance`: atoms stand for every governed kind; all creations have the kind and scope
  of the atoms that may be forgotten; a merge changes its target only; pages, details and
  summaries are reads.
* `RecoveryBarrier`: one worktree, whose tracked changes are a value and whose untracked
  files never come back with the same identity; ticket fields, command classification
  and attempt anchors are left out.  The hook gives up 25 ms before the daemon's deadline.
  A request whose failure loses the frontier twice stays pending until the next start.
* `RecoveryApplication`: one target file; the writes to the child's input are two, before and
  after the intent; a child orphaned by a death is kept apart (`past`).  In `Recovery` the two
  halves are linked by the fence and the daemon; that an application changes the files a
  later capture reads is an edit of the barrier's worktree like any other.
* `ConfigReload`: holding the fence longer than the second a reload waits is a fault; the switch
  of memory and the publication of its generation are one step; the limit of the
  provider is left out.
* `RecallDelivery`: one lane, one session, one episode revision; blocked repositories and
  runtime anomalies are left out; a batch reads and commits in one step, or fails; the life
  of a cue is not tied to the deadline of its need.
* `ProcedureMemory`: one procedure; a task's work is two attempts with one operation each and a
  sequence of verified results; a task has its request roots and one local context.  What a
  usage job read last is `dirty`: the watermark of its inputs is newer.  A proposal
  comes from the request of a reviewer; how a candidate is evaluated is left out.

## Runs

Each run is one question.  A run of several settings chooses its scenario in the initial
state (`Scenarios`, kept in `setup`, `env`, `count.max`, `n.max` or `m.max`); the scenarios are
defined and described in the `MC` module, and the run explores all of them.

A property is a conjunction of named parts where parts are given in parentheses; the rest
of this document refers to the parts.  `FullStampComplete` and `ReadsBound` follow from
`WriterInv` and are stated by theorems only.

| Run | Checks | Instance |
|---|---|---|
| `cas_lifecycle` | `LifecycleInv`, `NeededKept` | 3 records, 2 of them with the same blob in 2 repositories, 1 ingester |
| `capture` | `EvidenceKept` (`TypeOK`, `FenceExclusion`, `BlobBacked`, `QuarantineBacked`, `DurableNotLost`, `CommittedOnce`, `GapAccounted`), `WithinLimits`; `ImplementsLifecycle`, `FramesLeaveAccounted`, `FramesDrain` | 8 scenarios: `Overtaken` (four records, a targeted drain unlinks the carrier under the cursor), `Reclaimed` (purge and GC, shared blob), `Targeted` (targeted drain, purge, damage), `Pressed` (failing hooks at the byte limit, GC), `Repaired` (torn appends, two drains), `Damaged` (quarantine, GC), `Racing` (two hooks at once, purge, GC, a kill), `Served` (failing hooks, GC, under fairness) |
| `writer` | `WriterInv`, `ProjectionsExact`; `PlansFresh`, `ImplementsLog`, `IndexesCatchUp` | two captures, a planned command, a ledger hiding a capture and the plan; 2 failures |
| `jobs` | `SchedulerInv` (`TypeOK`, `QueuedOnce`); `ResultsHonest` (`OwnsResults`, `KeepsEnds`), `WorkSettles` (`ClosuresSettle`, `JobsEnd`) | one target of each kind, 7 scenarios (the last: an artifact, reloads and the return to the first configuration), up to 2 generations and 3 faults |
| `import` | `ArchiveFaithful` (`ImportTyped`, `ImportedMatchesFile`, `MarksContiguous`), `ImportAdmissible` (`JobServesBody`, `HistoryNeedsApproval`, `NoRecordRefused`); `RevokedStaysOut`, `ImportEnds` | files of up to 4 bytes in records of 1 and 2, checkpoints of one record, 4 scenarios (the last with requests after a revocation) |
| `synthesis` | `SummariesSound` (`TypeOK`, `SummarisedOnce`, `ClaimsUncovered`, `EpisodeChain`), `BudgetsKept` (`DailyBudgetKept`, `CallsBounded`, `EnrichmentsKept`); `PermittedAndCurrent` (`SentWhilePermitted`, `RecordedWhilePermitted`, `SummaryIsCurrent`), `JobsEnd` | up to 2 messages and 3 revisions of an episode, two configurations, 6 scenarios |
| `restore` | `NothingLost` (`TypeOK`, `BackupComplete`, `NothingDestroyed`, `AllOrNothing`, `GenerationAdvances`), `DeletedStaysGone` (`NoResurrection`, `PurgedBlobsGone`); `BackupEnds` | 2 records, up to 2 backups and 2 restores, 6 scenarios |
| `package` | `InstalledAgrees` (`TypeOK`, `PinsResolvable`, `ServiceAgrees`, `OldTablesKept`), `FailuresUndone` (`FailureIsClean`, `InstallUndone`, `UserEditsKept`) | 2 sessions, 3 runs of the installer from 4 layouts, 3 faults |
| `governance` | `DecisionsApplied` (`TypeOK`, `AppliedAsDecided`, `BaseRespected`, `ForgottenStaysGone`); `AckOnlySettled`, `RequestEnds` | 2 connections, 2 requests, up to 2 proposals, 4 scenarios |
| `recovery` | `PointsHonest` (`TypeOK`, `CaptureExcludesPatch`, `CompleteIsOneInstant`, `AckedIsDurable`), `AppliedHonestly` (`SpawnedOnce`, `StatusTruthful`, `IntentBeforeWrite`, `ExclusiveChild`, `ToldIsDurable`); `RecoveryEnds` (`TerminalIsFinal`, `PendingSettles`, `ResultSettles`) | 9 scenarios: the barrier alone, applications alone, both on one fence |
| `config` | `AppliedAgrees` (`TypeOK`, `Agreement`, `PendingIsLatest`, `AdmittedIsApplied`); `CuesNeverUndone`, `Converges` | two configurations to reload, one that needs a restart, one invalid; 2 edits, 2 faults or deaths, 1 cue |
| `memory` | `RemindersSound` (`LedgerSound`: `TypeOK`, `OneActiveNeed`, `ClaimedAtItsBoundary`; `RemindedOnce`: `ShownOnce`, `ToldOnce`, `DeliveryTruthful`), `MethodsSound` (`TypeOK`, `SupportIsCausal`, `StableOnMerit`, `HarmedStaysOut`); `MemorySettles` (`ClaimSettles`, `UseCounted`, `MeritRecognised`, `PromotesUnsuspected`) | 8 scenarios of reminders (2 hooks or 2 requests, up to 2 needs and 2 attempts), 11 of methods (5 tasks, 2 revisions, up to 2 searches and 2 negatives) |

### Bounds

Faults of the environment (kills, failures, damage, expiries under the owner) and requests
of users are bounded by the scenario; restarts caused by the code's own fatal errors, and
rounds of loops, are not.

In the pipeline, two carriers of up to two frames with pages of one frame are the
smallest place where a cursor survives a turn, a name is reused and a drain consumes part
of a carrier; `Overtaken` needs four records because a cursor must point into a carrier of
two frames while another of two takes over its name.  A blob shared by two repositories
and one of its own are the cases a deleter can confuse.  For the writer, four commands
are enough for a stamp to be proven, to survive one append and a second, and for a
ledger to come before, between or after captures; two failures are a failure inside a
projection and one inside its repetition.

Two faults are a failure and a failure of its repair, which is where the rollbacks of
`restore`, `package` and `config` have to be right; `package` has three, a kill of one run and
two failures of the next.  Two generations are a result overtaken by a newer input.
Two records and checkpoints of one make a file be imported in parts.  Two proposals for
one atom, two hooks for one cue, two callers for one application and two requests for one
need are the smallest races; more of them repeat the same pairs.  A cohort of three is the
smallest the configuration allows; with a task that shares a request and one that is
derived, five tasks are what a greedy choice can get wrong.  Suspected harm
can be put down to one local context in some scenarios and not in others.

Most of these systems may stop (every bounded request has been made and answered), so their
runs do not check deadlock; the writer, the jobs and the blob lifecycle go on for ever and
do.

### Fairness

* Pipeline: the ingest loop wakes on a timer as long as the daemon runs and the daemon is
  restarted (weak fairness of `PageStep`); a request the writer actor has taken runs to its
  end (`GcStep`); a hook ends by itself or is killed (`HookStep`).  The directory lock is
  taken with try-lock and held by others only for moments, so a claim or an unlink tried
  again and again succeeds at some time (strong fairness of `ClaimPage` and
  `AckSegment("page")`).  Fairness is assumed in the scenario `Served` only (`Driven`).
* Writer: a request the actor has taken runs to its end (`TurnStep`), a stopped daemon is
  restarted (`Reopen`), and the background synchronisation, sent again and again through a
  first-in-first-out channel, is served at some time although other requests come in
  between (strong fairness of `Project(TRUE, FALSE)`).
* Jobs: rounds run to their end, a scheduler that ended takes the daemon down and is
  restarted, time passes (leases, backoffs, polls); optional work gets a round again and
  again (strong fairness of `RoundStarts(TRUE)`), since the daemon is idle again and again.
* Import: the worker and the drain go on, leases expire and are recovered.  The catalog
  refreshes again and again while it could, stated as a premise of its own because
  `Refresh` may leave everything as it is.
* Synthesis: the scheduler goes on, a call ends (it has a time limit), days and leases pass.
* Restore: the daemon is started, the actor goes on, a claim and a lease recovery that are
  possible again and again happen (strong fairness), an offline restore runs to its end.
* Governance, recovery: handlers run to their end, the daemon is started again, a child that
  was started ends.  Recall: the worker wakes on a timer, a presentation expires.
  Procedures: the background scheduler runs the jobs it queues (weak fairness of `Jobs` as a
  whole); nothing is assumed of clients, agents or reviewers.
* Config: the operation that holds the mutex goes on (every wait in it has a limit), the
  watcher polls again and again and gets the mutex and the fence at some time although others
  take them in between (strong fairness), a hook lets the fence go.

### Disagreements met while modelling

The models are of what the code does.  Where that is less than its comments, tests or
callers expect, the property is stated with the exception, or the case is left to this list.

* A torn emergency marker stops the whole pipeline.  `pending_gap_markers` fails on it, which
  makes every page fatal and every later hook leave without a trace (unless something is
  quarantined, when `open_for_admission` does not look).  `FramesDrain` has that exception.
* Purge pins (`jobs/executor.rs:1949`) and the discard step do not look at quarantine;
  `QuarantineBacked` is about runs without a purge.
* Jobs: a reconciliation that lost its race ends as failed with `StaleGeneration`
  (`maintenance.rs:3950`), and a failed job of the tuple counts as coverage: it is not tried
  again until the input changes.  An artifact identity that comes back after its job
  succeeded asks for a successor no reducer accepts (`capture_recovery.rs:118`, `:135`).
* Jobs: capture artifacts are not retired when the configuration changes
  (`maintenance.rs:1956-1985` retires imports, procedures and synthesis, `:2406-2440`
  reconciliations).  After a reload and the return to the first configuration, the failed
  job of an artifact made under the first and the queued one made under the second are of one
  kind, key and generation; the first is queued again (`capture_recovery.rs:104-180`), and
  selection takes the pair for a corrupt store in every round (`maintenance.rs:5052-5059`).
  The scenario `[acts |-> {"artifact", "reload"}, gens |-> 0, left |-> 3]` of the run gets
  there.  `QueuedOnce` says that nothing else does: two queued jobs of a slot are an
  artifact's, made under different configurations, and the older has been tried before.
  `WorkSettles` exempts the runs that stay `Blocked`: by such a pair, or by a present
  artifact whose job has succeeded under the current configuration (the item above).
* Import: a request that arrives while the job of an earlier one waits between checkpoints
  may give the session a second active job (`session_import.rs:1373`).  The catalog
  derives moves of the body the reducer refuses from some states, which fails its whole
  page (`session_import.rs:3822`).  A record refused at commit is refused for ever
  (`projections.rs:12412`).  A session with a repository that is revoked and queued again keeps
  its access `Revoked`, so its job never runs (`session_import.rs:3570`).  The fourth scenario
  gets there; `ImportEnds` exempts that state (`AskedAfterRevocation`) and no other.
* Import: a capture left in the spool by a killed checkpoint is
  matched by revision and byte range only (`jobs/import.rs:543-566`), a longer file keeps
  its revision whatever its bytes are (`session_import.rs:2013-2025`), and what a checkpoint
  confirmed is never compared with the file (`jobs/import.rs:655-716`).  A session whose file
  was replaced in between ends `Imported` with a record of the former file, against the test
  "growth cannot hide rewrite" (`s28_session_import.rs:3350`).  The flag `mixed` of
  `SessionImport` notes the histories in which such a capture was waiting (`Stranded`);
  `ArchiveFaithful` is about all others.  TLC finds a violation of `ImportedMatchesFile` alone
  with records of one length and the scenario `[acts |-> {"crash", "longer"}, kinds |->
  {"Repository"}, bad |-> {}, bytes |-> 2, versions |-> 2, left |-> 3, mixed |-> FALSE]`.
* Synthesis: `fail_stale` (`maintenance.rs:4719`) ends a source job whose interval then stays
  claimed, so its messages are not summarised.
* Restore: killed between the two renames (`restore.rs:1119`) it leaves no active root; a
  second restore, or a start, then makes an empty root without a ledger, and what a later
  restore brings back is not checked against what was deleted before, nor is its
  generation past the ones hooks have pinned.  `NoResurrection` and `GenerationAdvances`
  are about roots with a history (`~made.anew`); a setting of the run has such a kill and
  a restore after it, and nothing captured is destroyed there either.
* Governance: a conflict leaves its reservation on disk (`human_governance.rs:2592`); when the
  object is then forgotten, every reconciliation, the one at start included, fails on it
  (`:1063`); the reservation of a stale reauthorisation is never removed (`:1096`).
* Procedures: a revision held from `Stable` cannot resume: `usage.rs:2370` builds a transition
  that `transition_allowed` (`domain/src/procedure.rs:350`) refuses, so the dismissal fails and
  the hold stays until a replacement.  Dismissing one of two suspicions, or one beside a
  deletion hold, lifts the hold although the other is pending; promotion still waits for it
  (`PromotesUnsuspected`).
* Configuration: an explicit reload of a file that needs a restart clears the pending hash
  and may then fail to audit (`config_reload.rs:377`); the watcher, which has judged the
  file, does not announce it again.
* Recall: a cue kept for a need recorded again (`recall/detector.rs:492`) may name an attempt
  a hook has seen already.

### Mutants

Every property has a mutant for each of its parts in `PROJECT.json`: an operator beside the
original, marked "Mutant:" in its module, that changes the code the way a plausible
mistake would and that TLC finds to violate the property.

## Proofs

`LifecycleInv` is the inductive invariant of `CasLifecycle`.  `NeededKept` (a
referenced blob exists) is not inductive: when a publisher's frame becomes
durable its blob has to be there, which needs `PublishedKept` (a blob put under
the shared fence stays while the publisher holds it), and that needs `Alone` (an
exclusive holder has no sharers) in the deletion step.  `LifecycleMoves` proves
one case per action; `LifecycleInvariance` and `NeededBlobsKept` are the
theorems, for every set of records, ingesters, blobs and repositories, from
`LifecycleAssumption` (digests and repositories of records are well typed, no ingester is a
record).

`CapturePipeline`: that evidence is kept is a matter of what each participant believes of a
spool that others change under it.  The invariant (`IInv`) has a part for each.  `Shape`:
identities and names tell files apart and a frame is in one file of the main directory.
`Hooked`: a hook that may put or append holds the fence.  `Served`: whatever the cursor of
the ingest loop has passed is accounted for in the file it was made from, by identity
(`CursorGood`); a claim of either drain is a piece of its file as long as that exists
(`Linked`), what was consumed of it is accounted for (`Draining`, `Discarded`), and a
verified frame has its blob and its fence.  `Purging` and `Collecting`: what a deleter is
about to delete under the exclusive fence covers no reference (`live`, `refs`,
`candidates`).  `Inner`, their conjunction with `Recorded`, does not say that anything is
kept.  Each action is shown to re-establish `Inner`, to be a step of the blob lifecycle
(`LifecycleStep`) and to report honestly (`Honest`): one lemma per action, from lemmas on
what each spool operation does to the files (`AppendEffect`, `AcknowledgeEffect`,
`QuarantineEffect`, `SealEffect`, ...) and on what stays true of the participants that do
not move (`ServedStays`, `CollectingStays`, `PurgingStays`).  What is kept then follows
once, from the lifecycle step alone (`LifecycleEffect`, `LifecycleKeeps`): a step adds blobs,
takes away ones nobody needs, or moves frames and rows.  The theorems are
`CaptureInvariance`, `EvidenceAlwaysKept`, the action property `FramesAlwaysLeaveAccounted`
and the refinement `PipelineImplementsLifecycle`, for all page sizes, limits, records,
blobs, repositories and scenarios, from `SpoolLimitsAssumption`, `PipelineAssumption`
(digests, repositories and scenarios are well typed, pages hold a frame) and
`NamesAssumption` (a record is not a task).

`WriterInv` is the inductive invariant of `JournalWriter`.  `ProjectionsExact` is not
inductive: the shortcuts trust the stamps, so the invariant says what each stamp means.
`ObjectsStampSound`: between requests the stamp of the objects agrees with the objects'
epoch and checkpoint, what it hands over is exactly what was appended since, and a
proven stamp has all families at the checkpoint.  `FullStampSound`: as long as the
search version is the same, the search index is at the stamp's frontier.
`SourceAgrees`, implied by a proven source prefix: no ledger in the journal hides a
capture; stated of the whole journal it survives appends, because nothing hidden is
admitted (`Admissible`) and a ledger drops the proof.  `TurnSound` carries this through a
projection: objects at the frontier, rows or increments that give the fold of the whole
journal.  `FoldIncrement` and `FoldCapture` are the two facts about folding that the
ordinary and the capture catch-up rest on (ledgers are never hidden themselves).  There
is one lemma per action; `WriterCorrect` combines them, and `ProjectionsAlwaysExact`,
`FullStampAlwaysComplete`, `ReadsAlwaysBound`, the action property `PlansAlwaysFresh` and
the refinement `WriterImplementsLog` follow.  Assumptions: `CommandAssumption` (ids and
hiding are well typed, ledgers hide no ledgers, captures are no ledgers) and
`WriterAssumption`.

`JobScheduler`: that no slot is queued twice is inductive only with its reason, which
differs by kind (`SlotsApart`): a support closure and a projection have one job per
generation, an observation and a usage one active job, an artifact one per generation and
configuration, and when it gets a younger job, the older ones that are active have been
tried before (they had ended, and an end is left only by a new attempt). A stage commits
against the snapshot it planned from, so what it adds is judged on the jobs as they are
(`StageSound`, from `EnqueuedFacts` about what is appended, `KeptApart` and `GrownApart`);
`RoundFits` says that a round which works on a job with a fresh snapshot still has it
leased, which is what makes results honest. `SchedulerInvariance` is the invariant;
`SchedulerAlwaysSound` and the action property `ResultsAlwaysHonest` follow, for every
scenario. `SchedulerAlwaysSound` has no hypothesis: the case in which the code queues a
slot twice (see above) is in its statement, as the only one. Assumptions: kinds of targets
are disjoint and finitely many, there is a configuration, scenarios are well typed.

`Governance`: `DecisionsApplied` looks at the journal only.  The invariant adds who asked
(`Authorised`: every acceptance, reservation and job on its way goes back to a request of
the owner), that a proposal has one reservation (`Reserved`), which reservations a
request holds (`Mine`; two requests hold none in common, through claims, reconciliation
and acknowledgement), and that what was judged acceptable from a snapshot still is while
the frontier has not moved (`Sound`).  That is why a commit is on the base it was decided
on although the judgement was made several steps before.  `DecisionsAlwaysApplied` and the
action property `ReservationsAlwaysSettled` follow, from `ScenariosAssumption` and
`TargetsAssumption` (names of what exists and of what is proposed differ, a merge goes
into one of the atoms it takes together).

`RecallDelivery`: that a reminder is shown once needs `Linked` (an attempt is claimed once,
and the attempt a need carries was claimed for it), `Held` (a hook that may show, or has
an outcome to report, is the only one with its attempt, and its need still carries it)
and `Counted` (a need that may be claimed again was not shown); `Answered` is the same for
requests.  `ProcedureMemory`: that credit is causal needs what a search in flight knows
(`Asked`), that a confirmed APPLY has reached the host (`Told`) and that work received
after the return was informed by it (`Late`); that a stable method stays one on merit
needs the publication's history (`Chain`) and a full cohort under a claimed promotion
(`Cohorts`).  `MemoryProofs` carries both to the daemon: a step of either leaves the
other's state alone, and a death is a step of both.  `RemindersAlwaysSound`,
`MethodsAlwaysSound` and `MethodsPromoteUnsuspected` (the safety part of `MemorySettles`) are
the theorems, from `RecallAssumption` and `MethodsAssumption`.

`ConfigReload`: that snapshot, memory and audit agree whenever a request is admitted says
nothing of the moments in between.  The invariant says who holds the gate and the fence
(`Locked`), what a start carries (`Booting`), and of a reload which of the three copies it has
changed at each of its steps and that what it works on is still what it read
(`Reloading`); `InStep` is agreement outside of it.  `AppliedAlwaysAgrees` follows, and so does the
action property `CuesAreNeverUndone`: a reload republishes the cues it read, which are
the current ones because the recall worker publishes under the same mutex.  Assumption:
`ConfigAssumption`.

`BackupRestore`: what a restore promises at its end is decided by what each of its steps could
still be undone with.  `Placed` says which directories exist at which step, `Undoable` that
the former root and configuration are where the rollback takes them from, `Ledgers` that
the active root, the root moved aside, the ledger that was read and, once it was imported,
the candidate remember every deletion, `Purging` what is left of a purged repository's blobs
at each stage, `Preserved` that every capture is whole in the former root or a kept one, and
`Generations` that they grow from the kept roots to the former to the candidate.
`Freezing` carries what the boundary froze to the publication: hooks and acknowledgements go
on, but the actor commits no row in between.  `RestoreInvariance` is the invariant, for any
number of jobs, restores, failures and kills in any mix; `NothingIsEverLost` and
`DeletedAlwaysStaysGone` follow.  Assumption: `ScenariosAssumption` (types).  The attempt
to prove them corrected the properties: they used to hold only because no setting had a
restore after one that was killed (see above), and "the configuration is the one there
was" now refers to what the restore found, not to the old root's own.

`PackageInstall`: what a run may still undo depends on which files it has changed, how far the
store has been converted and who may come by meanwhile.  `Changes` and `Progress` say which
files hold what this run wants (the others hold the version they had, and a rollback that
counts as one has left none behind); `Conversion` gives the store at each step as a function
of the store the run found, through the exchange and its reversal; `OldTables` says that the
tables of the old format are missing only from the step on at which backup and new package are
in place; `Serving` that the service stays off from the quiescence to the end, so that one that
runs at an idle moment was started on purpose; `Pinned` that no session is pinned to a
generation an unfinished upgrade may still take back.  `InstallInvariance` is the invariant, in
which every part speaks of all steps, so that a kill needs no case of its own beyond one lemma;
`InstalledAlwaysAgrees` and `FailuresAlwaysUndone` follow, for any number of sessions, runs,
edits, failures and kills.  Assumptions: `LayoutsAssumption`, `KindsAssumption`,
`BoundsAssumption` (types).  The attempt to prove them found a definition whose two guards
overlapped (what an install wants of a file), a case in which TLC takes the first and a
prover either, and a way out of the commit the model had left out: a package that cannot be
read when the commit begins is given up with nothing written.

`Recovery`: a bundle is honest because of what its handler read several steps before, an answer
because of what a child did meanwhile.  `Sound` says what a handler of the barrier knows at
each step: the frontier it saw is not ahead of the journal, and as long as it is the
journal's its request is not terminal and the attempts are the ones it read; what it has
copied, if the second probe agrees and the file still has its identity, is content that was
seen at one instant.  For this `Fresh` keeps the worktree's identity the latest one.
`CallSound` says what a call of an application rests on: the revision it read is not newer than
the journal's and the same if as new, nothing was spawned before the second look, its child
is in the state its step implies, and its verdict is about that child and the file
(`Justified`).  `CallsHold` ties the steps to the fence, `ChildSound` a child to its caller
(a child at work has one, unless the daemon died), `AppSound` a revision to the frames and
these to the child; `Marked` says that a write shows in the file until an editor comes.  The
two invariants are carried through the steps of both: a step of one takes the fence, if at
all, under a name of its own kind (`BarrierLease`, `ApplicationLease`), a death and a start
are steps of both.  `PointsAlwaysHonest`, `AppliedAlwaysHonestly` and the action property
`TerminalAlwaysFinal` (the safety part of `RecoveryEnds`) follow from `RecoveryInvariance`.
Assumptions: `HoldersAssumption` (those who may hold the fence are told apart) and
`ScenariosAssumption` (types).

`Synthesis`: that no message is summarised twice follows at once from what the projections
admit; that the queue never offers what they would refuse (`ClaimsUncovered`) does not.  It
takes what the jobs are to each other: those of one configuration that may yet be summarised,
active or failed with an interval still whole, are disjoint (`Apart`), all active ones are of
one configuration (`OneConfiguration`), and none of these is covered (`Uncovered`).  So a summary
is recorded over one active job only, and a retry, which looks at the runs, cannot take back
what a job of another configuration has been given.  `AttemptsMade` bounds the calls of a job:
attempts are odd in the queue and even under a lease, and only a lease calls, once.  `QuotaInv`
carries the quota that was checked before the call to the commit: the episode may close
meanwhile, which only adds to it.  `SummariesAlwaysSound`, `CallsAndEnrichmentsBounded` and the
action property `AlwaysPermittedAndCurrent` follow, from `ScenesAssumption` (types).  The attempt
to prove them corrected the model: it let a round retry, queue and claim before it had ended
the jobs of another configuration, and with two reloads and a failed call `ClaimsUncovered` was
false; a scenario of the run goes that way now, and a mutant drops the order.

`SessionImport`: a file is archived faithfully because of what the worker proved before it took
the job, and what it took since; both go on while the catalog, the user and a killed checkpoint
change the session under it.  `Store` types the records and says of each watermark that its two
legs are gapless and the early one stays before the fence.  `Steady` is what of the session a
running worker may still count on, `ReadMark` that the watermark it read is part of the
confirmed one, which has grown by records of the session's file only.  `CacheSound`: what the
cache vouches for are records of the file it was made for, so that a later verification may
skip them.  `Proved`: from the claim on, what is confirmed is the session's file, and a worker
about to hand over as Imported has a watermark that reaches the file's end.  `WholeArchive` keeps
this when the worker is gone, against every later look at the file: one that finds it longer
also takes the body back from Imported.  `Serves` (a job exactly for a body that needs it) and
`LineUp` (while a file only grows, each waiting record begins where its leg ends, or before, or
where a record that waits before it ends) are what `NoRecordRefused` takes.  `ArchiveFaithfulHolds`,
`ImportAdmissibleHolds` and the action property `RevokedStaysOutHolds` follow from the invariant
`ImportInv` (`InvInductive`), from `WidthAssumption` (records are not empty, the budget is not) and
`ImportsAssumption` (types, no scenario begins with stranded captures, every record fits into a
file).  The attempt to prove them found the stranded capture (see above), and corrected the model: what a
capture is matched by, what a claim checks again, and that a cache is reserved for one file.

The invariants were checked by TLC on the instances of the runs before they were proved.

Only model-checked: `WithinLimits` of the spool, whose byte count is a fold over a set of files,
and the daily part of `BudgetsKept`, a sum over jobs (inductions over data); and all liveness (`FramesDrain`, `WorkSettles`,
`MemorySettles`, `RequestEnds`, `PendingSettles` and the like), which is beyond the prover.

## Not modelled

* Payload protection, the device key, the runtime snapshot's file format, confined reading,
  frame and envelope encoding: transformations of data, abstracted to a digest or a health.
* The per-kind validation in `projections.rs` and the domain crate, about twenty thousand
  lines of independent checks on the fields of one command: the models keep the guards
  that depend on other state (moves of a body, generations, revisions, bases) and leave
  out the shape of fields.
* Object, relation and search queries, ranking and embeddings: reads.
* Semantic derivation, segmentation, the work graph: functions of a projection, committed like
  any planned command (`PlansFresh`).  Of procedure memory: creation of candidates, scoring,
  several procedures, global support, usages recorded by older versions, a change of the
  threshold.
* Repository and worktree resolution, the host probes: they read other programs' files.
* Migrations of old layouts, beyond their place in an upgrade.
* Protocol framing, CLI and TUI: presentation.  The TUI's edits of the configuration are in
  `ConfigReload`, its decisions in `Governance`.

## Plan

1. More of the pipeline: managed backups as references, quarantine accounting by the
   critical lane, reports of the collector.
2. Several lanes and sessions in recall, several procedures.

-------------------------- MODULE CapturePipeline --------------------------
(***************************************************************************)
(* The capture pipeline: hook processes publish protected bytes in the CAS *)
(* and append a referencing frame to the spool; the daemon's ingest        *)
(* workers commit frames to the journal and acknowledge carriers; garbage  *)
(* collection and repository purge delete CAS blobs.  They are coordinated *)
(* by the maintenance fence (a try-lock flock, shared for publishing and   *)
(* ingesting, exclusive for deleting) and by the single journal writer     *)
(* actor.  Sources: evertrace-hook/src/main.rs, evertrace-capture/src/     *)
(* {admission,cas,spool}.rs, evertrace-engine/src/{ingest,capture}.rs,     *)
(* evertrace-engine/src/jobs/executor.rs, evertrace-store/src/{writer,     *)
(* optimize}.rs.                                                           *)
(*                                                                         *)
(* One hook process captures one record.  A record stands for its spool    *)
(* frame and for the journal command that commits it, which carry the same *)
(* identifiers.                                                            *)
(***************************************************************************)
EXTENDS Spool

CONSTANTS
  Blobs,        \* CAS digests
  Repos,        \* repositories
  Digest,       \* the CAS digest of each record's protected bytes
  RepoOf,       \* the repository each record belongs to
  PageFrames,   \* frames one ingest page delivers at most
  PageBytes,    \* bytes one ingest page reads at most
  PurgeBatch    \* blobs one purge batch covers at most

(* A scenario says, beside the spool's limits, which hooks run and in which    *)
(* order (turn), for which records targeted drains run beside the ingest loop  *)
(* (targets), which repositories the operator purges (purgeable), whether    *)
(* hook processes die and their writes fail (faults), how many daemon kills,   *)
(* collection rounds and damaged carriers there are (restarts, rounds,         *)
(* damage), and whether the daemon is kept running (fair).                     *)

ASSUME PipelineAssumption ==
  /\ Digest \in [Records -> Blobs]
  /\ RepoOf \in [Records -> Repos]
  /\ Repos # {}
  /\ {PageFrames, PageBytes, PurgeBatch} \subseteq Nat
  /\ PageFrames > 0 /\ PageBytes >= FrameBytes /\ PurgeBatch > 0
  /\ \A sc \in Scenarios : /\ {sc.restarts, sc.rounds, sc.damage} \subseteq Nat
                           /\ sc.purgeable \subseteq Repos /\ DOMAIN sc.turn \subseteq Records
                           /\ sc.targets \subseteq SUBSET Records

VARIABLES
  cas,        \* published blobs
  hookPc,     \* where each hook process is; its outcome once it has ended
  hookFence,  \* hook processes that hold the fence shared
  scanSlot,   \* the emergency slot a hook process tries next
  exclusive,  \* who holds the fence exclusively
  worker,     \* the two daemon tasks that drain segments
  cursor,     \* the ingest loop's place in a carrier larger than a page
  journal,    \* committed capture commands, in order
  gaps,       \* markers imported into the journal
  purge,      \* persisted purge progress of each repository
  purgeJob,   \* the purge batch being executed
  gc,         \* the garbage collection round being executed
  spent       \* how much of each bound has been used

pipelineVars == <<cas, hookPc, hookFence, scanSlot, exclusive, worker, cursor,
                  journal, gaps, purge, purgeJob, gc, spent>>
vars == <<setup, spoolVars, pipelineVars>>

Outcomes == {"durable", "gap", "lost", "refused", "killed"}
HookStates == Outcomes \cup {"idle", "fenced", "published", "scanning", "marking"}
Workers == {"page", "targeted"}
\* A record is not a task.
ASSUME NamesAssumption == Records \cap Workers = {}

WorkerStates == {"idle", "opened", "sealed", "segment", "frame", "verified", "excluding",
                 "discarding", "acking"}
PurgeStates == {"idle", "fenced", "deleting", "deleted"}
PurgeStages == {"none", "pending", "closed", "deleting", "completed"}
GcStates == {"idle", "listing", "marking", "marked", "sweeping", "deleting"}

Claim == [name : Nat, id : Nat, frames : Seq(Records), complete : BOOLEAN]
Cursor == [name : Nat, id : Nat, offset : Nat]
NoCursor == [name |-> 0, id |-> 0, offset |-> 0]
NoClaim == [name |-> 0, id |-> 0, frames |-> <<>>, complete |-> FALSE]

IdleWorker ==
  [pc |-> "idle", selected |-> {}, todo |-> {}, cur |-> NoClaim, k |-> 1, view |-> {},
   consumed |-> 0, terminal |-> {}, discard |-> {}, live |-> {}, next |-> NoCursor,
   fence |-> FALSE]
IdlePurge == [pc |-> "idle", repo |-> CHOOSE p \in Repos : TRUE, batch |-> {}, live |-> {}, seen |-> 0]
IdleGc == [pc |-> "idle", candidates |-> {}, refs |-> {}, stale |-> {}]

Init ==
  /\ setup \in Scenarios
  /\ SpoolInit
  /\ cas = {}
  /\ hookPc = [r \in Records |-> "idle"]
  /\ hookFence = {}
  /\ scanSlot = [r \in Records |-> 0]
  /\ exclusive = "none"
  /\ worker = [w \in Workers |-> IdleWorker]
  /\ cursor = NoCursor
  /\ journal = <<>>
  /\ gaps = {}
  /\ purge = [p \in Repos |-> [stage |-> "none", left |-> {}]]
  /\ purgeJob = IdlePurge
  /\ gc = IdleGc
  /\ spent = [restarts |-> 0, rounds |-> 0, damage |-> 0]

-----------------------------------------------------------------------------
(* The maintenance fence and the references that keep a blob.               *)

CanShare == exclusive = "none"

\* Mutant: the exclusive lock does not see the ingesters' shared locks.
CanExcludeHooksOnly == exclusive = "none" /\ hookFence = {}

CanExclude == exclusive = "none" /\ hookFence = {} /\ \A w \in Workers : ~worker[w].fence

Committed == RecordsOf(journal)
Refs(records) == {Digest[r] : r \in records}
Purged == {p \in Repos : purge[p].stage # "none"}
IsPurged(r, repos) == RepoOf[r] \in repos

\* live_cas_refs: the references of the rows the projections still show.
LiveRefs == Refs({r \in Committed : ~IsPurged(r, Purged)})
\* historical_cas_refs: every receipt ever committed.
HistoricalRefs == Refs(Committed)

\* The writer actor runs one request at a time; a GC pass is one request.
ActorFree == gc.pc \notin {"listing", "marking", "sweeping", "deleting"}

\* delete_guarded_batch, under the exclusive fence.  A digest removed between
\* mark and sweep makes the round's recorded file identities stale.
DeleteBlobs(digests) ==
  /\ cas' = cas \ digests
  /\ gc' = [gc EXCEPT !.stale = @ \cup (gc.candidates \cap digests)]

-----------------------------------------------------------------------------
(* Hook processes: CaptureRuntime::open_for_admission and capture_inner.    *)

hookVars == <<cas, hookPc, hookFence, scanSlot>>
daemonVars == <<exclusive, worker, cursor, journal, gaps, purge, purgeJob, gc, spent>>

HookEnd(r, outcome) ==
  /\ hookPc' = [hookPc EXCEPT ![r] = outcome]
  /\ hookFence' = hookFence \ {r}

\* Opening for admission lists the markers unless something is quarantined: a
\* marker that does not decode makes the hook leave without a trace.
AdmissionOpens == quarantine # {} \/ MarkersReadable

\* A hook whose turn is later starts when those before it have ended.
Arrives(r) ==
  /\ hookPc[r] = "idle" /\ r \in DOMAIN setup.turn
  /\ \A q \in DOMAIN setup.turn : setup.turn[q] < setup.turn[r] => hookPc[q] \in Outcomes

HookRefused(r) ==
  /\ Arrives(r) /\ ~AdmissionOpens
  /\ HookEnd(r, "refused")
  /\ UNCHANGED <<spoolVars, cas, scanSlot, daemonVars>>

HookFence(r) ==
  /\ Arrives(r) /\ AdmissionOpens
  /\ CanShare
  /\ hookPc' = [hookPc EXCEPT ![r] = "fenced"]
  /\ hookFence' = hookFence \cup {r}
  /\ UNCHANGED <<spoolVars, cas, scanSlot, daemonVars>>

\* The fence is a try-lock: while it is held exclusively nothing is published
\* and the capture becomes a gap.
HookFenceBusy(r) ==
  /\ Arrives(r) /\ AdmissionOpens
  /\ ~CanShare
  /\ hookPc' = [hookPc EXCEPT ![r] = "scanning"]
  /\ UNCHANGED <<spoolVars, cas, hookFence, scanSlot, daemonVars>>

\* Mutant: the fence is released once the blob is put.
HookPutReleases(r) ==
  /\ hookPc[r] = "fenced"
  /\ cas' = cas \cup {Digest[r]}
  /\ hookPc' = [hookPc EXCEPT ![r] = "published"]
  /\ hookFence' = hookFence \ {r}
  /\ UNCHANGED <<spoolVars, scanSlot, daemonVars>>

HookPut(r) ==
  /\ hookPc[r] = "fenced"
  /\ cas' = cas \cup {Digest[r]}
  /\ hookPc' = [hookPc EXCEPT ![r] = "published"]
  /\ UNCHANGED <<spoolVars, hookFence, scanSlot, daemonVars>>

HookPutFails(r) ==
  /\ setup.faults
  /\ hookPc[r] = "fenced"
  /\ hookPc' = [hookPc EXCEPT ![r] = "scanning"]
  /\ UNCHANGED <<spoolVars, cas, hookFence, scanSlot, daemonVars>>

HookAppend(r) ==
  /\ hookPc[r] = "published"
  /\ AppendWrites(r, "whole")
  /\ HookEnd(r, "durable")
  /\ UNCHANGED <<cas, scanSlot, daemonVars>>

\* Pressure, or an active file that does not validate, refuses the append.
HookAppendRefused(r) ==
  /\ hookPc[r] = "published"
  /\ AppendPressure \/ AppendRefused
  /\ hookPc' = [hookPc EXCEPT ![r] = "scanning"]
  /\ UNCHANGED <<spoolVars, cas, hookFence, scanSlot, daemonVars>>

\* The write or one of the syncs fails after some effect.
HookAppendFails(r) ==
  /\ setup.faults
  /\ hookPc[r] = "published"
  /\ \E effect \in AppendEffects : AppendWrites(r, effect)
  /\ hookPc' = [hookPc EXCEPT ![r] = "scanning"]
  /\ UNCHANGED <<cas, hookFence, scanSlot, daemonVars>>

\* write_gap_marker tries the slots in order; each try is an exclusive create.
HookTrySlot(r) ==
  /\ hookPc[r] = "scanning"
  /\ \/ /\ scanSlot[r] \in Slots /\ SlotFree(scanSlot[r])
        /\ CreateMarker(scanSlot[r], r)
        /\ hookPc' = [hookPc EXCEPT ![r] = "marking"]
        /\ UNCHANGED <<hookFence, scanSlot>>
     \/ /\ scanSlot[r] \in Slots /\ ~SlotFree(scanSlot[r])
        /\ scanSlot' = [scanSlot EXCEPT ![r] = @ + 1]
        /\ UNCHANGED <<spoolVars, hookPc, hookFence>>
     \/ /\ scanSlot[r] \notin Slots
        /\ HookEnd(r, "lost")
        /\ UNCHANGED <<spoolVars, scanSlot>>
  /\ UNCHANGED <<cas, daemonVars>>

HookWriteMarker(r) ==
  /\ hookPc[r] = "marking"
  /\ WriteMarker(scanSlot[r], r)
  /\ HookEnd(r, "gap")
  /\ UNCHANGED <<cas, scanSlot, daemonVars>>

\* The slot cannot be created, or the marker write fails and the slot keeps a
\* marker that does not decode.
HookMarkerFails(r) ==
  /\ setup.faults
  /\ hookPc[r] \in {"scanning", "marking"}
  /\ HookEnd(r, "lost")
  /\ UNCHANGED <<spoolVars, cas, scanSlot, daemonVars>>

\* The host kills the hook process (launcher timeout), also inside append.
HookKilled(r) ==
  /\ setup.faults
  /\ hookPc[r] \notin Outcomes \cup {"idle"}
  /\ HookEnd(r, "killed")
  /\ \/ UNCHANGED spoolVars
     \/ /\ hookPc[r] = "published"
        /\ \E effect \in AppendEffects : AppendWrites(r, effect)
  /\ UNCHANGED <<cas, scanSlot, daemonVars>>

HookStep(r) ==
  \/ HookRefused(r) \/ HookFence(r) \/ HookFenceBusy(r) \/ HookPut(r) \/ HookPutFails(r)
  \/ HookAppend(r) \/ HookAppendRefused(r) \/ HookAppendFails(r)
  \/ HookTrySlot(r) \/ HookWriteMarker(r) \/ HookMarkerFails(r) \/ HookKilled(r)

-----------------------------------------------------------------------------
(* The two daemon tasks that drain segments: "page" is EvidenceIngestor::run *)
(* (one bounded page of one carrier per turn), "targeted" a drain of chosen  *)
(* observations over every free carrier.                                     *)

\* Everything volatile dies with the daemon; the kernel drops its locks.
DaemonDown ==
  /\ worker' = [w \in Workers |-> IdleWorker]
  /\ cursor' = NoCursor
  /\ exclusive' = "none"
  /\ purgeJob' = IdlePurge
  /\ gc' = IdleGc

Release(w) == exclusive' = IF exclusive = w THEN "none" ELSE exclusive

\* An error ends a targeted drain.  It ends the ingest task too, and with the
\* task the daemon: it is restarted from durable state.
Fails(w) ==
  \/ w = "page" /\ DaemonDown
  \/ /\ w = "targeted"
     /\ worker' = [worker EXCEPT ![w] = IdleWorker]
     /\ Release(w)
     /\ UNCHANGED <<cursor, purgeJob, gc>>

\* The end of a turn that went well, and one that met a busy directory lock
\* and keeps the old cursor.
Finish(w) ==
  /\ worker' = [worker EXCEPT ![w] = IdleWorker]
  /\ cursor' = IF w = "page" THEN worker[w].next ELSE cursor
  /\ Release(w)
Abandon(w) ==
  /\ worker' = [worker EXCEPT ![w] = IdleWorker]
  /\ Release(w)
  /\ UNCHANGED cursor

drainIdle == <<cas, hookPc, hookFence, scanSlot, journal, gaps, purge, spent>>

\* drain_selected opens the spool read-write, which recovers it, and gives up
\* when that cut a tail.
Open ==
  /\ setup.targets # {}
  /\ worker["targeted"].pc = "idle"
  /\ Recover
  /\ IF TailRepaired THEN UNCHANGED worker
     ELSE \E ids \in setup.targets :
            worker' = [worker EXCEPT !["targeted"].pc = "opened", !["targeted"].selected = ids]
  /\ UNCHANGED <<drainIdle, cursor, exclusive, purgeJob, gc>>

\* drain_page reads the markers first; it seals only between carriers.
SealPage ==
  /\ worker["page"].pc = "idle" /\ MarkersReadable
  /\ IF cursor = NoCursor THEN SealActive ELSE UNCHANGED spoolVars
  /\ worker' = [worker EXCEPT !["page"].pc = "sealed", !["page"].selected = Records]
  /\ UNCHANGED <<drainIdle, cursor, exclusive, purgeJob, gc>>

PageMarkersFail ==
  /\ worker["page"].pc = "idle" /\ ~MarkersReadable
  /\ Fails("page")
  /\ UNCHANGED <<spoolVars, drainIdle>>

SealTargeted ==
  /\ worker["targeted"].pc = "opened"
  /\ SealActive
  /\ worker' = [worker EXCEPT !["targeted"].pc = "sealed"]
  /\ UNCHANGED <<drainIdle, cursor, exclusive, purgeJob, gc>>

\* Every segment name is taken.
SealFails(w) ==
  /\ \/ w = "page" /\ worker[w].pc = "idle" /\ MarkersReadable /\ cursor = NoCursor
     \/ w = "targeted" /\ worker[w].pc = "opened"
  /\ SealBlocked
  /\ Fails(w)
  /\ UNCHANGED <<spoolVars, drainIdle>>

\* Claims are file locks: a carrier another task has claimed is passed over.
Held(w) == worker[w].todo \cup {worker[w].cur} \cup {d.claim : d \in worker[w].discard}
Free(w) == {c \in sealed : \A v \in Workers \ {w} : \A d \in Held(v) : ~SameFile(c, d)}
IsFirst(c, cs) == c \in cs /\ \A d \in cs : c.name <= d.name

\* A page starts at the cursor and reads at most PageBytes.
Offset(c) == IF cursor = NoCursor THEN 0 ELSE cursor.offset
ReadsAll(c) == Bytes(c) - FrameBytes * Offset(c) <= PageBytes
FramesRead(c) == Min({Len(c.frames) - Offset(c), PageBytes \div FrameBytes})
PageEnd(c) == Offset(c) + Min({FramesRead(c), PageFrames})

\* Damaged bytes beyond the page go unseen; a partial frame is seen only when
\* the page reads to the end of the file.
MustPreserve(c) == (ReadsAll(c) /\ c.health # "ok") \/ FramesRead(c) = 0
MayPreserve(c) == MustPreserve(c) \/ c.health = "bad"

PageComplete(c) == PageEnd(c) = Len(c.frames) /\ c.health = "ok"
PageClaim(c) ==
  [name |-> c.name, id |-> c.id, frames |-> SubSeq(c.frames, Offset(c) + 1, PageEnd(c)),
   complete |-> PageComplete(c)]

\* Mutant: the cursor does not move past the page.
ContinuationStuck(c) ==
  IF PageComplete(c) THEN NoCursor ELSE [name |-> c.name, id |-> c.id, offset |-> Offset(c)]

Continuation(c) ==
  IF PageComplete(c) THEN NoCursor ELSE [name |-> c.name, id |-> c.id, offset |-> PageEnd(c)]

\* A cursor is good only while its path names the file it was made from.
CursorTarget == {c \in Free("page") : cursor = NoCursor \/ c.name = cursor.name}

\* Mutant: the cursor trusts the path alone.
CursorValidByPath == cursor = NoCursor \/ \E c \in sealed : c.name = cursor.name

CursorValid ==
  \/ cursor = NoCursor
  \/ /\ \E c \in sealed : c.name = cursor.name
     /\ \A c \in CursorTarget : c.id = cursor.id

ClaimPage ==
  /\ worker["page"].pc = "sealed"
  /\ \/ ~CursorValid /\ Fails("page") /\ UNCHANGED spoolVars
     \/ \E c \in CursorTarget :
        /\ CursorValid /\ IsFirst(c, CursorTarget) /\ MayPreserve(c)
        /\ QuarantineSegment(c)
        /\ worker' = [worker EXCEPT !["page"] = IdleWorker]
        /\ cursor' = NoCursor
        /\ UNCHANGED <<exclusive, purgeJob, gc>>
     \/ \E c \in CursorTarget :
        /\ CursorValid /\ IsFirst(c, CursorTarget) /\ ~MustPreserve(c)
        /\ worker' = [worker EXCEPT !["page"].pc = "segment",
                                     !["page"].todo = {PageClaim(c)},
                                     !["page"].next = Continuation(c)]
        /\ UNCHANGED <<spoolVars, cursor, exclusive, purgeJob, gc>>
  /\ UNCHANGED drainIdle

\* There is nothing to claim, or the directory lock is busy at this moment.
ClaimNothing ==
  /\ worker["page"].pc = "sealed"
  /\ Abandon("page")
  /\ UNCHANGED <<spoolVars, drainIdle, purgeJob, gc>>

WholeClaim(c) == [name |-> c.name, id |-> c.id, frames |-> c.frames, complete |-> TRUE]
ClaimAll ==
  LET claimed == Free("targeted")
  IN /\ worker["targeted"].pc = "sealed"
     /\ \A c \in claimed : ~Unreadable(c)
     /\ worker' = [worker EXCEPT !["targeted"].pc = "segment",
                                  !["targeted"].todo = {WholeClaim(c) : c \in claimed}]
     /\ UNCHANGED <<spoolVars, drainIdle, cursor, exclusive, purgeJob, gc>>

\* A busy directory lock ends a targeted drain, and so does a carrier it
\* cannot read.
TargetedGivesUp ==
  /\ worker["targeted"].pc \in {"opened", "sealed"}
  /\ Abandon("targeted")
  /\ UNCHANGED <<spoolVars, drainIdle, purgeJob, gc>>

\* drain_segments: the purged repositories are read once per segment.
StartSegment(w) ==
  /\ worker[w].pc = "segment"
  /\ ActorFree
  /\ \E c \in worker[w].todo :
       /\ IsFirst(c, worker[w].todo)
       /\ worker' = [worker EXCEPT ![w].pc = "frame", ![w].todo = @ \ {c}, ![w].cur = c,
                                    ![w].k = 1, ![w].view = Purged, ![w].consumed = 0,
                                    ![w].terminal = {}]
  /\ UNCHANGED <<spoolVars, drainIdle, cursor, exclusive, purgeJob, gc>>

Frame(w) == worker[w].cur.frames[worker[w].k]
AtFrame(w) == worker[w].pc = "frame" /\ worker[w].k <= Len(worker[w].cur.frames)
Selects(w) == Frame(w) \in worker[w].selected

SkipFrame(w) ==
  /\ AtFrame(w) /\ ~Selects(w)
  /\ worker' = [worker EXCEPT ![w].k = @ + 1]
  /\ UNCHANGED <<spoolVars, drainIdle, cursor, exclusive, purgeJob, gc>>

TerminalFrame(w) ==
  /\ AtFrame(w) /\ Selects(w) /\ IsPurged(Frame(w), worker[w].view)
  /\ worker' = [worker EXCEPT ![w].k = @ + 1, ![w].consumed = @ + 1,
                               ![w].terminal = @ \cup {Frame(w)}]
  /\ UNCHANGED <<spoolVars, drainIdle, cursor, exclusive, purgeJob, gc>>

\* The first other frame takes the fence, shared and without waiting, and
\* keeps it until the segment ends.
Verifiable(w) == (worker[w].fence \/ CanShare) /\ Digest[Frame(w)] \in cas

VerifyFrame(w) ==
  /\ AtFrame(w) /\ Selects(w) /\ ~IsPurged(Frame(w), worker[w].view)
  /\ \/ Verifiable(w) /\ worker' = [worker EXCEPT ![w].pc = "verified", ![w].fence = TRUE]
                      /\ UNCHANGED <<cursor, exclusive, purgeJob, gc>>
     \/ ~Verifiable(w) /\ Fails(w)
  /\ UNCHANGED <<spoolVars, drainIdle>>

\* Mutant: the journal is not asked for the command first.
ReplayedNever(r) == FALSE

\* committed_command: the journal already has this frame's command.
Replayed(r) == r \in Committed

\* A committed command is replayed; a new one is validated by the writer,
\* which refuses a repository purged since the segment was started.
CommitFrame(w) ==
  LET r == Frame(w)
      advance == worker' = [worker EXCEPT ![w].pc = "frame", ![w].k = @ + 1,
                                          ![w].consumed = @ + 1]
  IN /\ worker[w].pc = "verified"
     /\ ActorFree
     /\ \/ Replayed(r) /\ advance /\ UNCHANGED <<journal, cursor, exclusive, purgeJob, gc>>
        \/ /\ ~Replayed(r) /\ ~IsPurged(r, Purged)
           /\ journal' = Append(journal, r)
           /\ advance
           /\ UNCHANGED <<cursor, exclusive, purgeJob, gc>>
        \/ ~Replayed(r) /\ IsPurged(r, Purged) /\ Fails(w) /\ UNCHANGED journal
     /\ UNCHANGED <<spoolVars, cas, hookPc, hookFence, scanSlot, gaps, purge, spent>>

\* The carrier is unlinked only if its last page is done and no frame of it
\* was skipped; purged frames send it to the discard step first.
SegmentDone(w) == worker[w].pc = "frame" /\ worker[w].k > Len(worker[w].cur.frames)

Acknowledgeable(w) ==
  worker[w].cur.complete /\ worker[w].consumed = Len(worker[w].cur.frames)
Present(c) == \E d \in sealed : SameFile(c, d)
NextSegment(w) ==
  worker' = [worker EXCEPT ![w].pc = "segment", ![w].cur = NoClaim, ![w].fence = FALSE,
                           ![w].terminal = {}]

AckSegment(w) ==
  /\ SegmentDone(w) /\ Acknowledgeable(w) /\ worker[w].terminal = {}
  /\ Present(worker[w].cur)
  /\ AcknowledgeSegment(worker[w].cur)
  /\ NextSegment(w)
  /\ UNCHANGED <<drainIdle, cursor, exclusive, purgeJob, gc>>

\* The carrier is gone, or the directory lock is busy at this moment.
AckFails(w) ==
  /\ SegmentDone(w) /\ Acknowledgeable(w) /\ worker[w].terminal = {}
  /\ \/ ~Present(worker[w].cur) /\ Fails(w)
     \/ Abandon(w) /\ UNCHANGED <<purgeJob, gc>>
  /\ UNCHANGED <<spoolVars, drainIdle>>

EndSegment(w) ==
  /\ SegmentDone(w)
  /\ \/ ~Acknowledgeable(w) /\ NextSegment(w)
     \/ /\ Acknowledgeable(w) /\ worker[w].terminal # {}
        /\ worker' = [worker EXCEPT
             ![w].pc = "segment", ![w].cur = NoClaim, ![w].fence = FALSE, ![w].terminal = {},
             ![w].discard = @ \cup {[claim |-> worker[w].cur, terminal |-> worker[w].terminal]}]
  /\ UNCHANGED <<spoolVars, drainIdle, cursor, exclusive, purgeJob, gc>>

EndDrain(w) ==
  /\ worker[w].pc = "segment" /\ worker[w].todo = {} /\ worker[w].discard = {}
  /\ Finish(w)
  /\ UNCHANGED <<spoolVars, drainIdle, purgeJob, gc>>

\* discard_purged_segments: exclusive fence, fresh projection, deletion of the
\* purged frames' blobs that nothing else keeps, and only then the unlinks.
DiscardFence(w) ==
  /\ worker[w].pc = "segment" /\ worker[w].todo = {} /\ worker[w].discard # {}
  /\ \/ /\ CanExclude
        /\ exclusive' = w
        /\ worker' = [worker EXCEPT ![w].pc = "excluding"]
        /\ UNCHANGED <<cursor, purgeJob, gc>>
     \/ ~CanExclude /\ Fails(w)
  /\ UNCHANGED <<spoolVars, drainIdle>>

DiscardView(w) ==
  /\ worker[w].pc = "excluding"
  /\ ActorFree
  /\ worker' = [worker EXCEPT ![w].pc = "discarding", ![w].live = LiveRefs, ![w].view = Purged]
  /\ UNCHANGED <<spoolVars, drainIdle, cursor, exclusive, purgeJob, gc>>

DiscardRetained(w) ==
  worker[w].live \cup Refs({r \in MainRecords : ~IsPurged(r, worker[w].view)})

DiscardDelete(w) ==
  LET refs == Refs(UNION {d.terminal : d \in worker[w].discard})
  IN /\ worker[w].pc = "discarding"
     /\ \/ /\ MainReadable
           /\ DeleteBlobs(refs \ DiscardRetained(w))
           /\ worker' = [worker EXCEPT ![w].pc = "acking"]
           /\ UNCHANGED <<cursor, exclusive, purgeJob>>
        \/ ~MainReadable /\ Fails(w) /\ UNCHANGED cas
     /\ UNCHANGED <<spoolVars, hookPc, hookFence, scanSlot, journal, gaps, purge, spent>>

DiscardAck(w) ==
  /\ worker[w].pc = "acking"
  /\ \/ \E d \in worker[w].discard :
          \/ /\ Present(d.claim)
             /\ AcknowledgeSegment(d.claim)
             /\ worker' = [worker EXCEPT ![w].discard = @ \ {d}]
             /\ UNCHANGED <<cursor, exclusive, purgeJob, gc>>
          \/ ~Present(d.claim) /\ Fails(w) /\ UNCHANGED spoolVars
          \/ Abandon(w) /\ UNCHANGED <<spoolVars, purgeJob, gc>>
     \/ /\ worker[w].discard = {}
        /\ Finish(w)
        /\ UNCHANGED <<spoolVars, purgeJob, gc>>
  /\ UNCHANGED drainIdle

DrainStep(w) ==
  \/ StartSegment(w) \/ SkipFrame(w) \/ TerminalFrame(w) \/ VerifyFrame(w) \/ CommitFrame(w)
  \/ AckSegment(w) \/ AckFails(w) \/ EndSegment(w) \/ EndDrain(w)
  \/ DiscardFence(w) \/ DiscardView(w) \/ DiscardDelete(w) \/ DiscardAck(w)
PageStep == SealPage \/ SealFails("page") \/ PageMarkersFail \/ ClaimPage \/ ClaimNothing
            \/ DrainStep("page")
TargetedStep ==
  Open \/ SealTargeted \/ SealFails("targeted") \/ ClaimAll \/ TargetedGivesUp
  \/ DrainStep("targeted")

-----------------------------------------------------------------------------
(* Other daemon work on the spool.                                           *)

\* Every capture the daemon makes itself opens the spool read-write.
DaemonRecover ==
  /\ Recover
  /\ UNCHANGED pipelineVars

\* The critical lane imports markers into the journal, then unlinks the ones
\* whose gap some lane already shows.  Records here are of one session, whose
\* lane exists once a record of it is committed.
ImportGap(m) ==
  /\ MarkersReadable /\ m \in markers /\ m.rec \notin gaps
  /\ ActorFree
  /\ gaps' = gaps \cup {m.rec}
  /\ UNCHANGED <<spoolVars, hookVars, exclusive, worker, cursor, journal, purge, purgeJob, gc, spent>>

\* Mutant: a marker is dropped before it is imported.
PropagatedUnimported(m) == Committed # {}

Propagated(m) == m.rec \in gaps /\ Committed # {}
AcknowledgeGap(m) ==
  /\ MarkersReadable /\ Propagated(m)
  /\ AcknowledgeMarker(m)
  /\ UNCHANGED pipelineVars

-----------------------------------------------------------------------------
(* Garbage collection.  mark_gc_page and sweep_gc are requests of the writer *)
(* actor: the journal cannot move inside one, the spool can.                 *)

gcIdle == <<spoolVars, hookPc, hookFence, scanSlot, worker, cursor, journal, gaps, purge, purgeJob>>

GcList ==
  /\ gc.pc = "idle" /\ spent.rounds < setup.rounds
  /\ CanExclude
  /\ exclusive' = "gc"
  /\ gc' = [gc EXCEPT !.pc = "listing", !.candidates = cas]
  /\ spent' = [spent EXCEPT !.rounds = @ + 1]
  /\ UNCHANGED <<gcIdle, cas>>

\* The fence is dropped while the journal is searched for references.
GcAuthority(from, to) ==
  /\ gc.pc = from
  /\ gc' = [gc EXCEPT !.pc = to, !.refs = HistoricalRefs \cup LiveRefs]
  /\ Release("gc")
  /\ UNCHANGED <<gcIdle, cas, spent>>

\* A pass goes on only if it gets the fence, can read the whole spool and
\* finds every candidate it is going to use unchanged.
GcProceeds(candidates) == CanExclude /\ GcReadable /\ candidates \cap gc.stale = {}

GcMark ==
  /\ gc.pc = "marking" /\ GcProceeds(gc.candidates)
  /\ gc' = [gc EXCEPT !.pc = "marked", !.candidates = @ \ (gc.refs \cup Refs(MainRecords))]
  /\ UNCHANGED <<gcIdle, cas, exclusive, spent>>

\* Mutant: the sweep trusts the references of the journal alone.
SweepCandidatesJournalOnly == gc.candidates \ gc.refs

SweepCandidates == gc.candidates \ (gc.refs \cup Refs(MainRecords))
GcSweepFence ==
  /\ gc.pc = "sweeping" /\ GcProceeds(SweepCandidates)
  /\ exclusive' = "gc"
  /\ gc' = [gc EXCEPT !.pc = "deleting", !.candidates = SweepCandidates]
  /\ UNCHANGED <<gcIdle, cas, spent>>

GcDelete ==
  /\ gc.pc = "deleting" /\ gc.candidates # {}
  /\ \E d \in gc.candidates :
       /\ cas' = cas \ {d}
       /\ gc' = [gc EXCEPT !.candidates = @ \ {d}]
  /\ UNCHANGED <<gcIdle, exclusive, spent>>

GcFinish ==
  /\ gc.pc = "deleting" /\ gc.candidates = {}
  /\ gc' = IdleGc
  /\ exclusive' = "none"
  /\ UNCHANGED <<gcIdle, cas, spent>>

GcAbort ==
  /\ \/ gc.pc = "marking" /\ ~GcProceeds(gc.candidates)
     \/ gc.pc = "sweeping" /\ ~GcProceeds(SweepCandidates)
  /\ gc' = IdleGc
  /\ UNCHANGED <<gcIdle, cas, exclusive, spent>>

GcStep ==
  \/ GcList \/ GcAuthority("listing", "marking") \/ GcMark
  \/ GcAuthority("marked", "sweeping")
  \/ GcSweepFence \/ GcDelete \/ GcFinish \/ GcAbort

-----------------------------------------------------------------------------
(* Repository purge: the confirmed command closes the scope at once; a job    *)
(* then deletes the blobs that only this repository's receipts referenced,   *)
(* batch by batch.                                                            *)

purgeIdle == <<spoolVars, hookPc, hookFence, scanSlot, worker, cursor, journal, gaps, spent>>

ExclusiveRefs(p) ==
  Refs({r \in Committed : RepoOf[r] = p}) \ Refs({r \in Committed : RepoOf[r] # p})

PurgeConfirm(p) ==
  /\ p \in setup.purgeable /\ purge[p].stage = "none"
  /\ ActorFree
  /\ purge' = [purge EXCEPT ![p] = [stage |-> "pending", left |-> ExclusiveRefs(p)]]
  /\ UNCHANGED <<purgeIdle, cas, exclusive, purgeJob, gc>>

PurgeClose(p) ==
  /\ purge[p].stage = "pending" /\ purgeJob.pc = "idle"
  /\ ActorFree
  /\ purge' = [purge EXCEPT ![p].stage = "closed"]
  /\ UNCHANGED <<purgeIdle, cas, exclusive, purgeJob, gc>>

Deletable(p) == purge[p].stage \in {"closed", "deleting"} /\ purgeJob.pc = "idle"

\* The exclusive fence (a busy one is retried), then a fresh projection.
PurgeBatchFence(p) ==
  /\ Deletable(p) /\ purge[p].left # {}
  /\ CanExclude
  /\ exclusive' = "purge"
  /\ \E batch \in kSubset(Min({PurgeBatch, Cardinality(purge[p].left)}), purge[p].left) :
       purgeJob' = [IdlePurge EXCEPT !.pc = "fenced", !.repo = p, !.batch = batch]
  /\ UNCHANGED <<purgeIdle, cas, purge, gc>>

PurgeBatchView ==
  /\ purgeJob.pc = "fenced"
  /\ ActorFree
  /\ purgeJob' = [purgeJob EXCEPT !.pc = "deleting", !.live = LiveRefs, !.seen = Len(journal)]
  /\ UNCHANGED <<purgeIdle, cas, exclusive, purge, gc>>

\* current_cas_pins: the fresh projection and every frame of the main spool.
PurgePins == purgeJob.live \cup Refs(MainRecords)

PurgeBatchDelete ==
  /\ purgeJob.pc = "deleting"
  /\ \/ /\ MainReadable
        /\ DeleteBlobs(purgeJob.batch \ PurgePins)
        /\ purgeJob' = [purgeJob EXCEPT !.pc = "deleted"]
        /\ UNCHANGED exclusive
     \/ /\ ~MainReadable
        /\ purgeJob' = IdlePurge
        /\ exclusive' = "none"
        /\ UNCHANGED <<cas, gc>>
  /\ UNCHANGED <<purgeIdle, purge>>

\* The progress command names the frontier it was derived from; when anything
\* was committed since, it is refused and the batch is repeated.
PurgeBatchCommit ==
  /\ purgeJob.pc = "deleted"
  /\ ActorFree
  /\ \/ /\ Len(journal) = purgeJob.seen
        /\ purge' = [purge EXCEPT ![purgeJob.repo] =
                       [stage |-> "deleting", left |-> @.left \ purgeJob.batch]]
     \/ UNCHANGED purge
  /\ purgeJob' = IdlePurge
  /\ exclusive' = "none"
  /\ UNCHANGED <<purgeIdle, cas, gc>>

PurgeComplete(p) ==
  /\ Deletable(p) /\ purge[p].left = {}
  /\ ActorFree
  /\ purge' = [purge EXCEPT ![p].stage = "completed"]
  /\ UNCHANGED <<purgeIdle, cas, exclusive, purgeJob, gc>>

PurgeStep ==
  \/ PurgeBatchView \/ PurgeBatchDelete \/ PurgeBatchCommit
  \/ \E p \in Repos : \/ PurgeConfirm(p) \/ PurgeClose(p)
                      \/ PurgeBatchFence(p) \/ PurgeComplete(p)

-----------------------------------------------------------------------------
(* Faults of the environment.                                                *)

DaemonKilled ==
  /\ spent.restarts < setup.restarts
  /\ spent' = [spent EXCEPT !.restarts = @ + 1]
  /\ DaemonDown
  /\ UNCHANGED <<spoolVars, cas, hookPc, hookFence, scanSlot, journal, gaps, purge>>

\* The medium damages a file of the main directory.
Damage ==
  /\ spent.damage < setup.damage
  /\ spent' = [spent EXCEPT !.damage = @ + 1]
  /\ \/ /\ Len(active.frames) > 0
        /\ active' = [active EXCEPT !.health = "bad"]
        /\ UNCHANGED sealed
     \/ /\ \E c \in sealed : sealed' = (sealed \ {c}) \cup {[c EXCEPT !.health = "bad"]}
        /\ UNCHANGED active
  /\ UNCHANGED <<quarantine, markers, nextId, hookVars, exclusive, worker, cursor, journal, gaps,
                 purge, purgeJob, gc>>

Next ==
  /\ \/ \E r \in Records : HookStep(r)
     \/ PageStep \/ TargetedStep \/ DaemonRecover
     \/ \E m \in markers : ImportGap(m) \/ AcknowledgeGap(m)
     \/ GcStep \/ PurgeStep \/ DaemonKilled \/ Damage
  /\ UNCHANGED setup

Spec == Init /\ [][Next]_vars

\* The ingest loop wakes on a timer for as long as the daemon runs, a hook runs
\* until it ends, an actor request runs to its end.  The directory lock is only
\* held for moments, so a claim or an unlink that is retried for ever succeeds.
Driven(A) == setup.fair /\ A /\ UNCHANGED setup
Fairness ==
  /\ WF_vars(Driven(PageStep)) /\ SF_vars(Driven(ClaimPage)) /\ SF_vars(Driven(AckSegment("page")))
  /\ WF_vars(Driven(GcStep))
  /\ \A r \in Records : WF_vars(Driven(HookStep(r)))
FairSpec == Spec /\ Fairness

-----------------------------------------------------------------------------
(* Properties.                                                               *)

WorkerType ==
  [pc : WorkerStates, selected : SUBSET Records, todo : SUBSET Claim, cur : Claim, k : Nat,
   view : SUBSET Repos, consumed : Nat, terminal : SUBSET Records,
   discard : SUBSET [claim : Claim, terminal : SUBSET Records], live : SUBSET Blobs,
   next : Cursor, fence : BOOLEAN]

SpoolTypeOK ==
  /\ active \in Carrier /\ sealed \subseteq Segment /\ quarantine \subseteq Carrier
  /\ markers \subseteq Marker /\ nextId \in Nat
HookTypeOK ==
  /\ cas \subseteq Blobs
  /\ hookPc \in [Records -> HookStates] /\ hookFence \subseteq Records
  /\ scanSlot \in [Records -> 0 .. EmergencySlots]
DaemonTypeOK ==
  /\ exclusive \in {"none", "gc", "purge"} \cup Workers
  /\ worker \in [Workers -> WorkerType] /\ cursor \in Cursor
  /\ journal \in Seq(Records) /\ gaps \subseteq Records
MaintenanceTypeOK ==
  /\ purge \in [Repos -> [stage : PurgeStages, left : SUBSET Blobs]]
  /\ purgeJob \in [pc : PurgeStates, repo : Repos, batch : SUBSET Blobs, live : SUBSET Blobs,
                   seen : Nat]
  /\ gc \in [pc : GcStates, candidates : SUBSET Blobs, refs : SUBSET Blobs, stale : SUBSET Blobs]
  /\ setup \in Scenarios
  /\ spent \in [restarts : 0 .. setup.restarts, rounds : 0 .. setup.rounds,
               damage : 0 .. setup.damage]

\* Every variable keeps its type; in particular a sealed carrier always has one
\* of the names unique_path tries and a scanning hook stops after the last slot.
TypeOK == SpoolTypeOK /\ HookTypeOK /\ DaemonTypeOK /\ MaintenanceTypeOK

\* The exclusive holder of the maintenance fence is alone, through every early
\* return, failure and restart of the code that takes and drops it.
FenceExclusion ==
  exclusive # "none" => hookFence = {} /\ \A w \in Workers : ~worker[w].fence

\* A capture the hook reported durable is never lost: its frame is in the main
\* spool, committed, preserved in quarantine, or its repository was purged.
DurableNotLost ==
  \A r \in Records : hookPc[r] = "durable" =>
    \/ r \in MainRecords \cup Committed \cup QuarantinedRecords
    \/ IsPurged(r, Purged)

\* A blob that a frame of the main spool or a visible receipt refers to is in
\* the CAS, whatever the collector, purges and discards are doing.
BlobBacked ==
  \A r \in MainRecords \cup Committed : ~IsPurged(r, Purged) => Digest[r] \in cas

\* Where nothing is purged, quarantined frames keep their blobs too: the
\* collector treats quarantine as unreadable, not as empty.
QuarantineBacked == Purged = {} => Refs(QuarantinedRecords) \subseteq cas

\* A frame is committed at most once, however often its carrier is replayed.
CommittedOnce == \A i, j \in 1 .. Len(journal) : journal[i] = journal[j] => i = j

\* A frame leaves the main spool only committed, purged or preserved, also the
\* frame of a hook that was killed before it could report (spool.rs, ingest.rs).
LeavesAccounted ==
  \A r \in MainRecords \ MainRecords' :
    r \in (Committed \cup QuarantinedRecords)' \/ IsPurged(r, Purged')
FramesLeaveAccounted == [][LeavesAccounted]_vars

\* The main directory keeps within its file and byte limits, across seals,
\* torn appends and recoveries.
WithinLimits == MainFiles <= MaxMainFiles /\ MainBytes <= HighBytes

\* A capture reported as a gap stays visible: its marker waits in a slot or was
\* imported into the journal.
GapAccounted ==
  \A r \in Records : hookPc[r] = "gap" =>
    r \in gaps \/ \E m \in markers : m.rec = r /\ ~m.torn

\* While the daemon is kept running the main spool is emptied again and again:
\* every frame is ingested or preserved, unless a hook died while writing an
\* emergency marker, which stops every later page.
FramesDrain == []<>(setup.fair => MainRecords = {} \/ ~MarkersReadable)

-----------------------------------------------------------------------------
(* The pipeline implements the blob lifecycle.                               *)

Lifecycle == INSTANCE CasLifecycle WITH
  Ingesters <- Workers,
  sharers <- hookFence \cup {w \in Workers : worker[w].fence},
  publishing <- {r \in Records : hookPc[r] = "published"},
  spooled <- MainRecords,
  preserved <- QuarantinedRecords,
  receipts <- Committed,
  purged <- Purged,
  exclusive <- (exclusive # "none")

\* Every step of hooks, drains, collector and purges is a step the blob
\* lifecycle allows: a blob is deleted only under the exclusive fence and only
\* if, at that moment, nothing needs it; a frame is dropped only when accounted.
ImplementsLifecycle == Lifecycle!LifecycleSpec

\* What was captured is kept: what a hook called durable is in the spool or the journal,
\* once, with its blob; what is not durable stays visible as a gap; and who holds the
\* fence exclusively is alone (admission.rs, ingest.rs, capture.rs, cas.rs).
EvidenceKept ==
  /\ TypeOK /\ FenceExclusion /\ BlobBacked /\ QuarantineBacked
  /\ DurableNotLost /\ CommittedOnce /\ GapAccounted
=============================================================================

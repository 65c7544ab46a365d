--------------------------- MODULE SessionImport ---------------------------
(* The import of one Codex session file: the catalog that watches the file,   *)
(* the user's approvals and revocations, and the worker that archives the     *)
(* body in bounded, leased checkpoints (engine/session_import.rs,             *)
(* engine/jobs/import.rs, store/session_import.rs).  The file's fingerprint   *)
(* covers identity, size and times, so a fingerprint is the file value        *)
(* itself; offsets are bytes, and a record's bytes are Width of its payload.  *)
EXTENDS Integers, Sequences, FiniteSets, SequencesExt

CONSTANTS Payloads,     \* contents of a record
          Width,        \* payload -> its length in bytes
          Budget,       \* records of one checkpoint
          Scenarios     \* what may happen, and the bounds: [acts, kinds, bad, bytes,
                        \* versions, left], see env

\* A record has at least its newline, what is no record of a file is none of its payloads.
ASSUME WidthAssumption ==
    /\ Width \in [Payloads -> Nat \ {0}] /\ "fragment" \notin Payloads
    /\ Budget \in Nat \ {0}

Actors == {"append", "longer", "rewrite", "trust", "conflict", "instance", "purge", "crash",
           "origin", "revoke", "requeue"}
Scenario == [acts : SUBSET Actors, kinds : SUBSET {"Repository", "Ambiguous"},
             bad : SUBSET Payloads, bytes : Nat, versions : Nat \ {0}, left : Nat,
             mixed : BOOLEAN]

\* Types; a file of one record is within the bounds.
ASSUME ImportsAssumption ==
    \A e \in Scenarios : e \in Scenario /\ ~e.mixed /\ \A v \in Payloads : Width[v] <= e.bytes

VARIABLES file,    \* [id, recs]: the session file on disk
          host,    \* what the host reports: trust, conflict, instance, kind
          ses,     \* the durable session record (SessionImportCurrent)
          jobs,    \* its active durable jobs
          marks,   \* source revision -> confirmed records (SourceIngestWatermark)
          spool,   \* captured records not yet committed, in spool order
          gate,    \* whether trust was durably revoked, or the repository purged
          w,       \* the worker's checkpoint in progress, and its proof cache
          env      \* the scenario: acts (parts of the environment that act), kinds
                   \* (workspace resolutions), bad (payloads the importer does not
                   \* support), bytes and versions (bounds of the file), left (crashes,
                   \* expiries under the worker and user requests still to come),
                   \* mixed (history: see Stranded)

importVars == <<file, host, ses, jobs, marks, spool, gate, w, env>>

Bodies == {"NotImported", "Queued", "Importing", "Partial", "Imported", "Failed",
           "SourceReplaced", "BlockedUnapproved", "BlockedScopeUnresolved"}

\* A record of a file, and where it lies; what a capture says of it.
Line(from, v) == [start |-> from, end |-> from + Width[v], val |-> v]
EndOf(leg, from) == IF leg = <<>> THEN from ELSE Last(leg).end
Size(f) == EndOf(f.recs, 0)
Entry(r) == [start |-> r.start, end |-> r.end, val |-> r.val]

\* Source revisions: the inode at first sight, the fingerprint afterwards.
InodeRevision(f) == <<f.id, 0>>
Fingerprint(f) == <<f.id, Size(f)>>

NoOrigin == [fence |-> -1, closed |-> TRUE]
HasOrigin(s) == s.origin.fence >= 0
Route(s) == HasOrigin(s) /\ ~s.origin.closed

Fault == env.left > 0 /\ env' = [env EXCEPT !.left = @ - 1]
-----------------------------------------------------------------------------
(* The reducer of session events (store/session_import.rs).                  *)

BodyMoves ==
    ({"NotImported"} \X {"Queued", "BlockedUnapproved", "BlockedScopeUnresolved"})
    \union ({"Queued"} \X {"Importing", "BlockedUnapproved", "BlockedScopeUnresolved",
                           "Failed", "SourceReplaced"})
    \union ({"Importing"} \X {"Imported", "Partial", "Failed", "BlockedUnapproved",
                              "SourceReplaced"})
    \union ({"Partial"} \X {"Queued", "Importing", "BlockedUnapproved",
                            "BlockedScopeUnresolved", "SourceReplaced"})
    \union ({"Failed", "SourceReplaced", "BlockedUnapproved", "BlockedScopeUnresolved"}
            \X {"Queued"})
    \union ({"Imported"} \X {"Queued", "BlockedUnapproved", "BlockedScopeUnresolved",
                             "SourceReplaced"})

\* SessionImportCurrent::validate, for records with read restrictions.
ValidSession(s) ==
    /\ ~(s.body \in {"Queued", "Importing"} /\ s.access = "Revoked" /\ HasOrigin(s))
    /\ (s.kind # "Repository" /\ s.body \in {"Queued", "Importing", "Partial", "Imported"})
         => \/ HasOrigin(s) /\ s.body \in {"Partial", "Imported"}
            \/ s.access = "Approved"
            \/ s.access # "Revoked" /\ Route(s)

Advanced(s, body) == [s EXCEPT !.body = body]
MayAdvance(s, body) ==
    /\ <<s.body, body>> \in BodyMoves
    /\ body = "Queued" =>
         /\ ~(HasOrigin(s) /\ s.access = "Revoked")
         /\ s.kind = "Repository" \/ s.access = "Approved" \/ Route(s)
    /\ ValidSession(Advanced(s, body))

Metadata(s) == [rev |-> s.rev, fp |-> s.fp, kind |-> s.kind, origin |-> s.origin]

SourceChanged(s, m) ==
    s.rev # m.rev \/ Size(m.fp) < Size(s.fp) \/ (Size(m.fp) = Size(s.fp) /\ m.fp # s.fp)

\* A metadata observation; what the user decided about other bytes is forgotten,
\* a revocation never is.
Observed(s, m) ==
    [rev |-> m.rev, fp |-> m.fp, kind |-> m.kind, origin |-> m.origin, body |-> s.body,
     access |-> IF SourceChanged(s, m) /\ s.access # "Revoked" THEN "none" ELSE s.access]

OriginKept(s, m) ==
    \/ s.rev # m.rev
    \/ m.origin = s.origin
    \/ ~HasOrigin(s) /\ s.body \in {"NotImported", "SourceReplaced"}
    \/ HasOrigin(s) /\ m.origin.fence = s.origin.fence /\ m.origin.closed

MayObserve(s, m) ==
    /\ Metadata(s) # m
    /\ OriginKept(s, m)
    /\ SourceChanged(s, m) => s.body \in {"NotImported", "SourceReplaced"}
    /\ ValidSession(Observed(s, m))

\* Mutant: what nobody approved is archived outside every repository.
ScopeWithoutApproval(s, a, b) ==
    IF b <= a \/ s.access = "Revoked" THEN "refused"
    ELSE IF Route(s) /\ a >= s.origin.fence THEN "origin"
    ELSE IF s.kind = "Repository" THEN "repository" ELSE "unscoped"

\* Whether the bytes from a to b may be archived, and under which scope.
import_scope(s, a, b) ==
    IF b <= a \/ s.access = "Revoked"
         \/ (HasOrigin(s) /\ a < s.origin.fence /\ b > s.origin.fence) THEN "refused"
    ELSE IF Route(s) /\ a >= s.origin.fence THEN "origin"
    ELSE IF s.kind = "Repository" THEN "repository"
    ELSE IF s.access = "Approved" THEN "unscoped" ELSE "refused"
-----------------------------------------------------------------------------
(* Watermarks: for a revision, the confirmed records before the fence and     *)
(* from it on; without a fence all records are in `main`.                     *)

NoMark == [fence |-> -1, early |-> <<>>, main |-> <<>>]
MarkOf(rev) == IF rev \in DOMAIN marks THEN marks[rev] ELSE NoMark
Start(m) == IF m.fence >= 0 THEN m.fence ELSE 0
MainEnd(m) == EndOf(m.main, Start(m))
EarlyEnd(m) == EndOf(m.early, 0)

\* How far the watermark of a record's revision already covers its range.
Covered(m, r) ==
    IF m.fence >= 0 /\ r.end <= m.fence THEN r.end <= EarlyEnd(m)
    ELSE m.main # <<>> /\ r.start >= Start(m) /\ r.end <= MainEnd(m)

\* Mutant: a record is never recognised as a replay.
NeverReplayed(m, r) == FALSE

Replayed(m, r) == Covered(m, r) /\ Entry(r) \in Range(m.early \o m.main)

\* Mutant: the fence is forgotten when a leg is extended.
ExtendedMain(m, r, fence) == [m EXCEPT !.fence = fence, !.main = Append(@, Entry(r))]

\* The watermark after a record, under the origin the session has now.
Extended(m, r, fence) ==
    LET base == [m EXCEPT !.fence = fence] IN
    IF fence >= 0 /\ r.end <= fence THEN [base EXCEPT !.early = Append(@, Entry(r))]
    ELSE [base EXCEPT !.main = Append(@, Entry(r))]

\* ingest's prefix state and validate_source_ingest_watermark_transition: the
\* record continues its leg, and a split source still grants the record's scope.
MayExtend(m, r) ==
    LET current == ses.rev = r.rev
        fence == IF current THEN ses.origin.fence ELSE -1 IN
    /\ ~Covered(m, r)
    /\ m = NoMark \/ m.fence = fence
    /\ IF fence >= 0 /\ r.end <= fence
       THEN r.start = EarlyEnd(m)
       ELSE r.start = (IF m = NoMark /\ fence >= 0 THEN fence ELSE MainEnd(m))
    /\ fence >= 0 => import_scope(ses, r.start, r.end) = r.scope

Committed(r) ==
    marks' = IF Replayed(MarkOf(r.rev), r) THEN marks
             ELSE [rev \in DOMAIN marks \union {r.rev} |->
                     IF rev = r.rev
                     THEN Extended(MarkOf(rev), r, IF ses.rev = rev THEN ses.origin.fence ELSE -1)
                     ELSE marks[rev]]
MayCommit(r) == LET m == MarkOf(r.rev) IN Replayed(m, r) \/ MayExtend(m, r)
-----------------------------------------------------------------------------
(* What is left to import (import_ranges, required_import_proofs,             *)
(* finished_import_state).                                                    *)

PrefixAccessible(s) == s.origin.fence > 0 /\ import_scope(s, 0, 1) # "refused"

FenceOf(s, m) == IF m = NoMark /\ HasOrigin(s) THEN [m EXCEPT !.fence = s.origin.fence] ELSE m

\* The source contradicts the watermark before any byte is read.
Contradicted(s, m) ==
    \/ m # NoMark /\ m.fence # s.origin.fence
    \/ MainEnd(FenceOf(s, m)) > Size(s.fp)
    \/ HasOrigin(s) /\ s.origin.fence > Size(s.fp)

import_ranges(s, m0) ==
    LET m == FenceOf(s, m0) IN
    IF HasOrigin(s)
    THEN (IF MainEnd(m) < Size(s.fp) /\ ~s.origin.closed
          THEN {[kind |-> "suffix", start |-> MainEnd(m), end |-> Size(s.fp)]} ELSE {})
         \union
         (IF EarlyEnd(m) < s.origin.fence /\ PrefixAccessible(s)
          THEN {[kind |-> "prefix", start |-> EarlyEnd(m), end |-> s.origin.fence]} ELSE {})
    ELSE IF MainEnd(m) = Size(s.fp) THEN {}
    ELSE {[kind |-> "whole", start |-> MainEnd(m), end |-> Size(s.fp)]}

\* Mutant: archived bytes are trusted.
NoProofs(s, m) == {}

\* Legs whose archived bytes must be proved to be the file's before going on.
required_import_proofs(s, m) ==
    {leg \in {"early", "main"} :
       /\ m[leg] # <<>>
       /\ leg = "early" => PrefixAccessible(s)
       /\ leg = "main" /\ HasOrigin(s) => s.access = "Approved" \/ ~s.origin.closed}

finished_import_state(s, m0) ==
    LET m == FenceOf(s, m0)
        prefixDone == EarlyEnd(m) = s.origin.fence IN
    IF ~HasOrigin(s) THEN IF MainEnd(m) = Size(s.fp) THEN "Imported" ELSE "none"
    ELSE IF /\ s.origin.closed \/ MainEnd(m) = Size(s.fp)
            /\ prefixDone \/ ~PrefixAccessible(s)
         THEN IF prefixDone /\ ~s.origin.closed THEN "Imported" ELSE "Partial"
         ELSE "none"

\* Reading one record of the file at a byte offset: the payload that starts
\* there, or a fragment no parser accepts.
RecordAt(f, offset) ==
    IF \E i \in DOMAIN f.recs : f.recs[i].start = offset
    THEN f.recs[CHOOSE i \in DOMAIN f.recs : f.recs[i].start = offset].val
    ELSE "fragment"
Readable(v) == v \notin env.bad \union {"fragment"}

\* A leg is the file's own: each archived record is read back and compared.
LegMatches(f, leg) == Range(leg) \subseteq Range(f.recs)
-----------------------------------------------------------------------------
(* Permission to read (source_read_decision, source_ingest_read_allowed,      *)
(* authorized_source).                                                        *)

Restricted(s) == s.kind = "Repository" \/ HasOrigin(s)
\* s and g are the session and the gate of the context that is being used.
ReadAllowed(s, g) ==
    /\ s.kind # "Unavailable"
    /\ s.kind = "Repository" \/ s.access = "Approved" \/ Route(s)
    /\ ~g.purged /\ s.access # "Revoked"
    /\ Restricted(s) => host.trust /\ ~g.revoked
    /\ Route(s) => host.instance

Active(s) == s.body \in {"Queued", "Importing", "Partial"}

Authorized(s, g) == ~g.purged /\ Active(s) /\ file = s.fp /\ ReadAllowed(s, g)
Changed(s, g) == ~g.purged /\ Active(s) /\ file # s.fp /\ Size(file) <= Size(s.fp)

NothingProved == [key |-> <<>>, early |-> 0, main |-> 0, turn |-> "prefix"]
Rest == [pc |-> "idle", ctx |-> <<>>, gate |-> <<>>, mark |-> NoMark, fresh |-> FALSE,
         range |-> <<>>, got |-> <<>>, target |-> "none"]
Goes(rec) == w' = [w EXCEPT !.run = rec]
Stop == Goes(Rest)

\* Someone else's change of the session record; unconditional commits of the
\* worker carry the predecessor they were made from.
Touched == w' = [w EXCEPT !.run.fresh = FALSE]

Queued == [state |-> "Queued", lease |-> "none"]
Leased == [state |-> "Leased", lease |-> "live"]

ImportInit ==
    /\ env \in Scenarios
    /\ file \in [id : {1}, recs : {<<Line(0, v)>> : v \in Payloads}]
    /\ host \in [trust : {TRUE}, conflict : {FALSE}, instance : {TRUE}, kind : env.kinds]
    /\ ses = [rev |-> InodeRevision(file), fp |-> file, kind |-> host.kind, origin |-> NoOrigin,
              access |-> "none", body |-> "NotImported"]
    /\ jobs = <<>>
    /\ marks = <<>>
    /\ spool = <<>>
    /\ gate = [revoked |-> FALSE, purged |-> FALSE]
    /\ w = [run |-> Rest, cache |-> NothingProved]
-----------------------------------------------------------------------------
(* The file system, the host and the clock.                                  *)

Environs(name) == name \in env.acts

FileGrows ==
    /\ Environs("append")
    /\ \E v \in Payloads : file' = [file EXCEPT !.recs = Append(@, Line(Size(file), v))]
    /\ Size(file') <= env.bytes
    /\ UNCHANGED <<host, ses, jobs, marks, spool, gate, w, env>>

\* Another file, or other bytes, under the same name.
FileReplaced ==
    /\ \E v, u \in Payloads :
         \E recs \in {<<Line(0, v)>>, <<Line(0, v), Line(Width[v], u)>>} :
           /\ file' = [id |-> file.id + 1, recs |-> recs]
           /\ Environs(IF EndOf(recs, 0) > Size(file) THEN "longer" ELSE "rewrite")
    /\ file'.id <= env.versions /\ Size(file') <= env.bytes
    /\ UNCHANGED <<host, ses, jobs, marks, spool, gate, w, env>>

HostChanges ==
    /\ Fault
    /\ \/ Environs("trust") /\ host' = [host EXCEPT !.trust = ~@]
       \/ Environs("conflict") /\ host' = [host EXCEPT !.conflict = ~@]
       \/ Environs("instance") /\ host.instance /\ host' = [host EXCEPT !.instance = FALSE]
    /\ UNCHANGED <<file, ses, jobs, marks, spool, gate, w>>

\* The repository is purged; the confirming command revokes its active jobs.
RepositoryPurged ==
    /\ Environs("purge") /\ ~gate.purged /\ Restricted(ses)
    /\ gate' = [gate EXCEPT !.purged = TRUE]
    /\ jobs' = <<>>
    /\ UNCHANGED <<file, host, ses, marks, spool, w, env>>

\* The worker works under the lease it claimed.
Holding == w.run.pc \in {"begin", "read", "drain", "confirm", "handoff"}

LeaseExpires ==
    /\ \E j \in DOMAIN jobs : jobs[j].lease = "live" /\ jobs' = [jobs EXCEPT ![j].lease = "expired"]
    /\ IF Holding THEN Fault ELSE UNCHANGED env
    /\ UNCHANGED <<file, host, ses, marks, spool, gate, w>>

\* A kill: the worker's position and its proofs are gone.
Crash ==
    /\ Environs("crash") /\ w.run.pc # "idle" /\ Fault
    /\ w' = [run |-> Rest, cache |-> NothingProved]
    /\ UNCHANGED <<file, host, ses, jobs, marks, spool, gate>>
-----------------------------------------------------------------------------
(* The catalog (refresh, refresh_active, reconcile_catalog_page,              *)
(* metadata_events_internal, append_queued_import_jobs).                      *)

\* Growth, or the same fingerprint, keeps the logical revision.
reconcile_source_revision(s, f) ==
    IF f = s.fp \/ Size(f) > Size(s.fp) THEN s.rev ELSE Fingerprint(f)

\* The metadata a look at the catalog yields for a session already known.
CatalogItem(s, active) ==
    LET rev == reconcile_source_revision(s, file)
        kept == rev = s.rev /\ (active \/ s.kind # "Unavailable") IN
    IF host.conflict /\ ~active
    THEN [Metadata(s) EXCEPT !.kind = "Unavailable"]
    ELSE [rev |-> rev, fp |-> file, kind |-> IF kept THEN s.kind ELSE host.kind,
          origin |-> IF rev = s.rev THEN s.origin ELSE NoOrigin]

BodyTransition(s, m) ==
    IF SourceChanged(s, m) /\ s.body \notin {"NotImported", "SourceReplaced"}
    THEN "SourceReplaced"
    ELSE IF /\ m.kind \in {"Ambiguous", "Unavailable"} /\ s.access # "Approved"
            /\ ~Route(m) /\ ~(HasOrigin(m) /\ s.body \in {"Partial", "Imported"})
            /\ s.body \notin {"NotImported", "BlockedScopeUnresolved", "Failed",
                              "SourceReplaced"}
    THEN "BlockedScopeUnresolved" ELSE "none"

AppendArrived(s, m, live) ==
    /\ s.rev = m.rev /\ Size(m.fp) > Size(s.fp)
    /\ IF HasOrigin(s)
       THEN /\ ~s.origin.closed /\ live
            /\ s.body \in {"NotImported", "Partial", "Imported", "Failed", "SourceReplaced"}
       ELSE s.body = "Imported"

\* The events of one observation, in order; `ok` says the reducer takes them all.
metadata_events(s, m, live) ==
    LET move == BodyTransition(s, m)
        kept == IF move = "BlockedScopeUnresolved" /\ s.body = "Importing"
                THEN Advanced(s, "Partial") ELSE s
        moved == IF move = "none" THEN kept ELSE Advanced(kept, move)
        seen == Observed(moved, m)
        again == AppendArrived(s, m, live) IN
    [ses |-> IF again THEN Advanced(seen, "Queued") ELSE seen,
     queues |-> again, move |-> move,
     ok |-> /\ kept = s \/ MayAdvance(s, "Partial")
            /\ move = "none" \/ MayAdvance(kept, move)
            /\ MayObserve(moved, m)
            /\ again => MayAdvance(seen, "Queued")]

\* What a look at the catalog would commit now.
Refreshed(active) ==
    metadata_events(ses, CatalogItem(ses, active), jobs = <<>> /\ Size(file) > Size(ses.fp))

RefreshWanted(active) ==
    /\ Metadata(ses) # CatalogItem(ses, active)
    /\ active => /\ Route(ses) /\ ses.kind # "Unavailable"
                 /\ ses.body \notin {"BlockedUnapproved", "BlockedScopeUnresolved"}
                 /\ ses.access # "Revoked" /\ ~gate.purged

\* History: the revision is kept for other bytes while a capture of the former waits.
Stranded(s) ==
    \E i \in DOMAIN spool : spool[i].rev = s.rev /\ Entry(spool[i]) \notin Range(s.fp.recs)
NotesStranded == env' = [env EXCEPT !.mixed = @ \/ Stranded(ses')]

\* Mutant: a session that moves on keeps its job.
RefreshKeepsJobs(active) ==
    LET r == Refreshed(active) IN
    /\ w.run.pc = "idle" /\ RefreshWanted(active) /\ r.ok /\ Len(jobs) <= 1
    /\ ses' = r.ses
    /\ jobs' = IF r.queues THEN Append(jobs, Queued) ELSE jobs
    /\ NotesStranded
    /\ UNCHANGED <<file, host, marks, spool, gate, w>>

\* The scheduler looks at the catalog between two checkpoints, never during one.
Refresh(active) ==
    LET r == Refreshed(active) IN
    /\ w.run.pc = "idle"
    /\ RefreshWanted(active) /\ r.ok
    /\ ses' = r.ses
    /\ Len(jobs) <= 1
    /\ LET left == IF r.move # "none" THEN <<>> ELSE jobs IN
       jobs' = IF r.queues THEN Append(left, Queued) ELSE left
    /\ NotesStranded
    /\ UNCHANGED <<file, host, marks, spool, gate, w>>

\* The first native event of a session: what is in the file stays history, what
\* comes after the fence may be imported without another approval.
ObserveSource ==
    LET m == [rev |-> reconcile_source_revision(ses, file), fp |-> file, kind |-> host.kind,
              origin |-> [fence |-> Size(file), closed |-> FALSE]]
        r == metadata_events(ses, m, FALSE) IN
    /\ Environs("origin") /\ host.trust /\ ~gate.revoked /\ ~gate.purged
    /\ ses.body \in {"NotImported", "SourceReplaced"} /\ ses.access # "Revoked"
    /\ ~HasOrigin(ses) /\ MarkOf(ses.rev) = NoMark /\ MarkOf(m.rev) = NoMark
    /\ r.ok
    /\ ses' = r.ses
    /\ Touched /\ NotesStranded
    /\ UNCHANGED <<file, host, jobs, marks, spool, gate>>
-----------------------------------------------------------------------------
(* The user (SessionImportAdminService::handle).                             *)

Approved(s) ==
    IF s.kind # "Repository" /\ s.access # "Approved" THEN [s EXCEPT !.access = "Approved"] ELSE s

\* `requeue`: the user asks again while a job of the session still waits.
QueueImport ==
    /\ Fault /\ (Environs("requeue") \/ jobs = <<>>)
    /\ ses.body \notin {"Queued", "Importing", "Imported"}
    /\ (Restricted(ses) => host.trust) /\ ~gate.purged
    /\ MayAdvance(Approved(ses), "Queued")
    /\ ses' = Advanced(Approved(ses), "Queued")
    /\ jobs' = Append(jobs, Queued)
    /\ Touched
    /\ UNCHANGED <<file, host, marks, spool, gate>>

\* Mutant: only the decision is recorded; body and job stay.
RevokeMarksAccess ==
    /\ Environs("revoke") /\ Fault
    /\ ses.access # "Revoked" /\ Len(jobs) <= 1
    /\ ses.access = "none" => HasOrigin(ses) \/ marks # <<>>
    /\ ses' = [ses EXCEPT !.access = "Revoked"]
    /\ Touched
    /\ UNCHANGED <<file, host, jobs, marks, spool, gate>>

RevokeAccess ==
    LET live == ses.body \in {"Queued", "Importing", "Imported", "Partial"}
        s == IF live THEN Advanced(ses, "BlockedUnapproved") ELSE ses IN
    /\ Environs("revoke") /\ Fault
    /\ ses.access # "Revoked" /\ Len(jobs) <= 1
    /\ ses.access = "none" => HasOrigin(ses) \/ marks # <<>>
    /\ live => MayAdvance(ses, "BlockedUnapproved")
    /\ ses' = [s EXCEPT !.access = "Revoked"]
    /\ jobs' = <<>>
    /\ Touched
    /\ UNCHANGED <<file, host, marks, spool, gate>>
-----------------------------------------------------------------------------
(* The worker (SessionImportWorker::process_checkpoint_with_context).         *)

\* A turn of the scheduler recovers expired leases before it gives the worker its
\* quantum; a lease that expires in between is as good as live to the worker.
QuantumGiven ==
    /\ w.run.pc = "idle" /\ Len(jobs) = 1 /\ Active(ses)
    /\ jobs[1].lease # "expired"

OriginDiscontinued == Route(ses) /\ ~host.instance /\ ~gate.purged /\ ses.access # "Revoked"
TrustRevocation == Restricted(ses) /\ ~host.trust /\ ~gate.purged /\ ~gate.revoked

\* preflight_import_context commits what it finds and gives the quantum up.
WorkerPreflights ==
    /\ QuantumGiven
    /\ \/ /\ TrustRevocation
          /\ gate' = [gate EXCEPT !.revoked = TRUE]
          /\ UNCHANGED <<ses, jobs>>
       \/ LET m == [Metadata(ses) EXCEPT !.origin.closed = TRUE]
              r == metadata_events(ses, m, FALSE)
              closedPartial == ses.body = "Partial" /\ ses.kind # "Repository"
                                 /\ ses.access # "Approved" IN
          /\ ~TrustRevocation /\ OriginDiscontinued /\ file = ses.fp /\ r.ok
          /\ ses' = r.ses
          /\ jobs' = IF closedPartial \/ r.move # "none" THEN <<>> ELSE jobs
          /\ UNCHANGED gate
    /\ UNCHANGED <<file, host, marks, spool, w, env>>

WorkerSelects ==
    LET m == MarkOf(ses.rev) IN
    /\ QuantumGiven
    /\ ~TrustRevocation /\ ~OriginDiscontinued /\ ~Contradicted(ses, m)
    /\ \/ required_import_proofs(ses, m) # {}
       \/ import_ranges(ses, m) # {}
       \/ finished_import_state(ses, m) # "none"
    /\ Goes([Rest EXCEPT !.pc = "authorize", !.ctx = ses, !.gate = gate, !.mark = m,
                         !.fresh = TRUE])
    /\ UNCHANGED <<file, host, ses, jobs, marks, spool, gate, env>>

WorkerAuthorizes ==
    LET s == w.run.ctx  g == w.run.gate
        replaced == Changed(s, g) /\ w.run.fresh /\ Len(jobs) <= 1 IN
    /\ w.run.pc = "authorize"
    /\ IF Authorized(s, g) THEN Goes([w.run EXCEPT !.pc = "verify"])
       ELSE w' = [run |-> Rest, cache |-> IF Changed(s, g) /\ ~replaced THEN w.cache
                                          ELSE NothingProved]
    /\ ses' = IF replaced THEN Advanced(ses, "SourceReplaced") ELSE ses
    /\ jobs' = IF replaced THEN <<>> ELSE jobs
    /\ UNCHANGED <<file, host, marks, spool, gate, env>>

\* The archived bytes of a leg that the cache does not vouch for.
CacheKey(s) == <<s.rev, s.fp>>
Vouched ==
    IF w.cache.key = CacheKey(w.run.ctx) THEN w.cache
    ELSE [NothingProved EXCEPT !.key = CacheKey(w.run.ctx),
            !.turn = IF w.cache.key # <<>> /\ w.cache.key[1] = w.run.ctx.rev THEN w.cache.turn
                     ELSE @]
LegEnd(m, leg) == IF leg = "early" THEN EarlyEnd(m) ELSE MainEnd(m)
Unproved == {leg \in required_import_proofs(w.run.ctx, w.run.mark) :
               Vouched[leg] < LegEnd(w.run.mark, leg)}

\* mark_source_replaced: other bytes under an archived range.
SourceReplacedBy(f) ==
    LET s == Advanced(ses, "SourceReplaced")
        rev == Fingerprint(f)
        m == [rev |-> rev, fp |-> f, kind |-> ses.kind,
              origin |-> IF rev # ses.rev THEN NoOrigin ELSE [ses.origin EXCEPT !.closed = TRUE]] IN
    IF w.run.fresh /\ Len(jobs) <= 1 /\ MayAdvance(ses, "SourceReplaced") /\ MayObserve(s, m)
    THEN ses' = Observed(s, m) /\ jobs' = <<>>
    ELSE UNCHANGED <<ses, jobs>>

\* One leg is read back per quantum; a quantum that proved something ends there.
WorkerVerifies ==
    LET leg == IF "early" \in Unproved THEN "early" ELSE "main"
        proved == file = w.run.ctx.fp /\ LegMatches(file, w.run.mark[leg]) IN
    /\ w.run.pc = "verify"
    /\ IF Unproved = {} THEN Goes([w.run EXCEPT !.pc = "claim"])
       ELSE w' = [run |-> Rest, cache |-> IF proved
                                          THEN [Vouched EXCEPT ![leg] = LegEnd(w.run.mark, leg)]
                                          ELSE NothingProved]
    /\ IF Unproved = {} \/ proved THEN UNCHANGED <<ses, jobs>> ELSE SourceReplacedBy(w.run.ctx.fp)
    /\ UNCHANGED <<file, host, marks, spool, gate, env>>

ChosenRange(s, m) ==
    LET pending == import_ranges(s, m)
        preferred == {r \in pending : r.kind = Vouched.turn}
        suffix == {r \in pending : r.kind # "prefix"} IN
    IF pending = {} THEN <<>>
    ELSE <<CHOOSE r \in pending :
             r \in (IF preferred # {} THEN preferred ELSE IF suffix # {} THEN suffix ELSE pending)>>

\* Everything is read again, and the lease is taken at the frontier of that read: for
\* the same metadata, watermark and range, and for the same end if no range is left.  The
\* choice of a range reserves the cache for this revision and file.
WorkerClaims ==
    LET m == MarkOf(ses.rev)
        range == ChosenRange(w.run.ctx, w.run.mark)
        target == finished_import_state(ses, m)
        same == /\ Metadata(ses) = Metadata(w.run.ctx) /\ m = w.run.mark
                /\ ChosenRange(ses, m) = range
                /\ range = <<>> => target = finished_import_state(w.run.ctx, m)
        slot == IF range = <<>> THEN w.cache ELSE Vouched IN
    /\ w.run.pc = "claim"
    /\ IF /\ Len(jobs) = 1 /\ Authorized(ses, gate) /\ same /\ jobs[1].state = "Queued"
          /\ range = <<>> => target # "none"
       THEN /\ jobs' = <<Leased>>
            /\ w' = [run |-> [w.run EXCEPT !.ctx = ses, !.gate = gate, !.fresh = TRUE,
                                !.pc = IF ses.body = "Importing" THEN "read" ELSE "begin",
                                !.range = range, !.target = target],
                     cache |-> slot]
       ELSE /\ w' = [run |-> Rest, cache |-> IF Authorized(ses, gate) /\ ~same /\ range # <<>>
                                             THEN NothingProved ELSE slot]
            /\ UNCHANGED jobs
    /\ UNCHANGED <<file, host, ses, marks, spool, gate, env>>

WorkerBegins ==
    /\ w.run.pc = "begin"
    /\ IF w.run.fresh /\ MayAdvance(ses, "Importing")
       THEN ses' = Advanced(ses, "Importing") /\ Goes([w.run EXCEPT !.pc = "read"])
       ELSE Stop /\ UNCHANGED ses
    /\ UNCHANGED <<file, host, jobs, marks, spool, gate, env>>

ReadFrom == IF w.run.got = <<>> THEN w.run.range[1].start ELSE Last(w.run.got).end
NextRecord ==
    LET v == RecordAt(file, ReadFrom)
        end == ReadFrom + (IF Readable(v) THEN Width[v] ELSE 1) IN
    [rev |-> w.run.ctx.rev, start |-> ReadFrom, end |-> end, val |-> v,
     scope |-> import_scope(w.run.ctx, ReadFrom, end)]

SameRecord(r, q) == r.rev = q.rev /\ r.start = q.start /\ r.end = q.end
InSpool(r) == \E i \in DOMAIN spool : SameRecord(spool[i], r)

\* The next turn belongs to the other range, if there is one.
TurnTaken ==
    LET other == {r \in import_ranges(w.run.ctx, w.run.mark) : r.kind # w.run.range[1].kind} IN
    IF other = {} \/ w.run.got # <<>> THEN w.cache
    ELSE [Vouched EXCEPT !.turn = (CHOOSE r \in other : TRUE).kind]

WorkerCaptures ==
    LET r == NextRecord IN
    /\ w.run.pc = "read" /\ w.run.range # <<>>
    /\ Len(w.run.got) < Budget /\ ReadFrom < w.run.range[1].end
    /\ file = w.run.ctx.fp /\ Readable(r.val) /\ r.end <= w.run.range[1].end
    /\ r.scope # "refused"
    /\ spool' = IF InSpool(r) THEN spool ELSE Append(spool, r)
    /\ w' = [run |-> [w.run EXCEPT !.got = Append(@, r)], cache |-> TurnTaken]
    /\ UNCHANGED <<file, host, ses, jobs, marks, gate, env>>

\* An unsupported record fails the session and its job.
WorkerRefusesRecord ==
    LET fails == MayAdvance(ses, "Failed") /\ Len(jobs) <= 1
                 /\ (\A j \in DOMAIN jobs : jobs[j].state = "Leased") IN
    /\ w.run.pc = "read" /\ w.run.range # <<>>
    /\ Len(w.run.got) < Budget /\ ReadFrom < w.run.range[1].end
    /\ file = w.run.ctx.fp /\ ~Readable(NextRecord.val)
    /\ ses' = IF fails THEN Advanced(ses, "Failed") ELSE ses
    /\ jobs' = IF fails THEN <<>> ELSE jobs
    /\ w' = [run |-> Rest, cache |-> IF fails THEN NothingProved ELSE w.cache]
    /\ UNCHANGED <<file, host, marks, spool, gate, env>>

\* The range or the budget is used up, the time is, or the file has changed.
WorkerStopsReading ==
    LET done == \/ w.run.range = <<>> \/ Len(w.run.got) = Budget
                \/ ReadFrom = w.run.range[1].end IN
    /\ w.run.pc = "read"
    /\ IF done \/ file # w.run.ctx.fp THEN UNCHANGED env ELSE Fault
    /\ IF w.run.range = <<>> THEN Goes([w.run EXCEPT !.pc = "handoff"])
       ELSE IF w.run.got # <<>> /\ file = w.run.ctx.fp THEN Goes([w.run EXCEPT !.pc = "drain"])
       ELSE Stop
    /\ UNCHANGED <<file, host, ses, jobs, marks, spool, gate>>

\* drain_observations_once: only the captured records, in spool order.
WorkerDrains ==
    LET mine == {i \in DOMAIN spool : \E r \in Range(w.run.got) : SameRecord(spool[i], r)}
        first == CHOOSE i \in mine : \A j \in mine : i <= j IN
    /\ w.run.pc = "drain"
    /\ IF mine = {} THEN Goes([w.run EXCEPT !.pc = "confirm"]) /\ UNCHANGED <<marks, spool>>
       ELSE IF MayCommit(spool[first])
       THEN Committed(spool[first]) /\ spool' = RemoveAt(spool, first) /\ UNCHANGED w
       ELSE Stop /\ UNCHANGED <<marks, spool>>
    /\ UNCHANGED <<file, host, ses, jobs, gate, env>>

\* The context is read again; a finished body goes to the handoff, an unfinished
\* one back to the queue under the same attempt.
WorkerConfirms ==
    LET m == MarkOf(ses.rev)
        range == w.run.range[1]
        end == Last(w.run.got).end
        leg == IF range.kind = "prefix" THEN "early" ELSE "main"
        reached == IF m = NoMark THEN 0 ELSE IF leg = "early" THEN EarlyEnd(m) ELSE MainEnd(m)
        target == IF end = range.end THEN finished_import_state(ses, m) ELSE "none"
        confirmed == Len(jobs) <= 1 /\ reached = end /\ file = w.run.ctx.fp IN
    /\ w.run.pc = "confirm"
    /\ IF ~confirmed THEN Stop /\ UNCHANGED <<ses, jobs>>
       ELSE IF target # "none"
       THEN /\ Goes([w.run EXCEPT !.pc = "handoff", !.mark = m, !.target = target])
            /\ UNCHANGED <<ses, jobs>>
       ELSE IF MayAdvance(ses, "Partial") /\ (\A j \in DOMAIN jobs : jobs[j].state = "Leased")
       THEN /\ ses' = Advanced(ses, "Partial")
            /\ jobs' = [j \in DOMAIN jobs |-> Queued]
            /\ w' = [run |-> Rest,
                     cache |-> IF w.cache.key = CacheKey(ses) THEN [w.cache EXCEPT ![leg] = end]
                               ELSE w.cache]
       ELSE Stop /\ UNCHANGED <<ses, jobs>>
    /\ UNCHANGED <<file, host, marks, spool, gate, env>>

\* finish_import_handoff: body state and job end in one command, at the frontier
\* of a context in which the lease, the permission and the bytes are the same.
HandoffReady ==
    /\ ses.rev = w.run.ctx.rev /\ ses.body = "Importing"
    /\ Len(jobs) = 1 /\ jobs[1] = Leased
    /\ MarkOf(ses.rev) = w.run.mark
    /\ Authorized(ses, gate) /\ file = w.run.ctx.fp

WorkerHandsOff ==
    /\ w.run.pc = "handoff"
    /\ IF HandoffReady
       THEN /\ ses' = Advanced(ses, w.run.target) /\ jobs' = <<>>
            /\ w' = [run |-> Rest, cache |-> NothingProved]
       ELSE Stop /\ UNCHANGED <<ses, jobs>>
    /\ UNCHANGED <<file, host, marks, spool, gate, env>>
-----------------------------------------------------------------------------
(* The ordinary ingest and the scheduler's lease recovery.                    *)

\* Captures of a purged repository are dropped, others committed in order.
Discarded(r) == gate.purged /\ r.scope \in {"repository", "origin"}

IngestDrains ==
    /\ spool # <<>>
    /\ Discarded(Head(spool)) \/ MayCommit(Head(spool))
    /\ IF Discarded(Head(spool)) THEN UNCHANGED marks ELSE Committed(Head(spool))
    /\ spool' = Tail(spool)
    /\ UNCHANGED <<file, host, ses, jobs, gate, w, env>>

\* Mutants: the expired lease stays on the job; a session being imported is skipped.
RecoverKeepsLease ==
    /\ w.run.pc = "idle"
    /\ \E j \in DOMAIN jobs :
         jobs[j].lease = "expired" /\ jobs' = [jobs EXCEPT ![j].state = "Queued"]
    /\ UNCHANGED <<file, host, ses, marks, spool, gate, w, env>>
\* Mutant of RecoverLease.
RecoverWaiting ==
    /\ w.run.pc = "idle" /\ ses.body # "Importing"
    /\ \E j \in DOMAIN jobs : jobs[j].lease = "expired" /\ jobs' = [jobs EXCEPT ![j] = Queued]
    /\ UNCHANGED <<file, host, ses, marks, spool, gate, w, env>>

RecoverLease ==
    /\ w.run.pc = "idle"
    /\ \E j \in DOMAIN jobs : jobs[j].lease = "expired" /\ jobs' = [jobs EXCEPT ![j] = Queued]
    /\ UNCHANGED <<file, host, ses, marks, spool, gate, w, env>>

WorkerNext ==
    \/ WorkerPreflights \/ WorkerSelects \/ WorkerAuthorizes \/ WorkerVerifies \/ WorkerClaims
    \/ WorkerBegins \/ WorkerCaptures \/ WorkerRefusesRecord \/ WorkerStopsReading
    \/ WorkerDrains \/ WorkerConfirms \/ WorkerHandsOff

ImportNext ==
    \/ FileGrows \/ FileReplaced \/ HostChanges \/ RepositoryPurged \/ LeaseExpires \/ Crash
    \/ (\E active \in BOOLEAN : Refresh(active)) \/ ObserveSource
    \/ QueueImport \/ RevokeAccess
    \/ WorkerNext \/ IngestDrains \/ RecoverLease

ImportSpec == ImportInit /\ [][ImportNext]_importVars

\* The daemon's loops keep running: each turn of the scheduler recovers expired
\* leases and gives the worker a quantum, and a look at the catalog falls between two
\* quanta again and again; ingest drains, and clocks run.
RefreshReady ==
    /\ w.run.pc = "idle" /\ Len(jobs) <= 1
    /\ \E active \in BOOLEAN : RefreshWanted(active) /\ Refreshed(active).ok
ImportFairness ==
    /\ WF_importVars(WorkerNext) /\ WF_importVars(IngestDrains) /\ WF_importVars(LeaseExpires)
    /\ WF_importVars(RecoverLease)
    /\ []<>RefreshReady => []<><<\E active \in BOOLEAN : Refresh(active)>>_importVars
ImportFairSpec == ImportSpec /\ ImportFairness
-----------------------------------------------------------------------------
(* Properties.                                                               *)

Records == [start : Nat, end : Nat, val : Payloads]
Files == [id : 1..env.versions, recs : Seq(Records)]

\* Types: session bodies, job states, the worker's position, and no more bytes
\* confirmed or captured than a file may have.
ImportTyped ==
    /\ file \in Files /\ ses.fp \in Files /\ Size(file) <= env.bytes
    /\ host \in [trust : BOOLEAN, conflict : BOOLEAN, instance : BOOLEAN, kind : env.kinds]
    /\ ses.body \in Bodies /\ ses.access \in {"none", "Approved", "Revoked"}
    /\ ses.kind \in env.kinds \union {"Unavailable"} /\ ses.origin.fence \in -1..env.bytes
    /\ jobs \in Seq({Queued, Leased, [Leased EXCEPT !.lease = "expired"]})
    /\ \A rev \in DOMAIN marks : /\ marks[rev].fence \in -1..env.bytes
                                 /\ marks[rev].early \in Seq(Records)
                                 /\ marks[rev].main \in Seq(Records)
    /\ \A i \in DOMAIN spool : spool[i].end <= env.bytes /\ Readable(spool[i].val)
    /\ gate \in [revoked : BOOLEAN, purged : BOOLEAN]
    /\ w.run.pc \in {"idle", "authorize", "verify", "claim", "begin", "read", "drain",
                     "confirm", "handoff"}
    /\ \E e \in Scenarios : /\ env.left \in 0..e.left /\ env.mixed \in BOOLEAN
                            /\ env = [e EXCEPT !.left = env.left, !.mixed = env.mixed]

\* A session is Imported only when the records confirmed for its revision are,
\* byte for byte and in order, the file its fingerprint names: no checkpoint, crash,
\* late drain or replacement leaves a hole, a duplicate or another file's record.
ImportedMatchesFile ==
    ses.body = "Imported" =>
        LET m == MarkOf(ses.rev) IN Range(m.early \o m.main) = Range(ses.fp.recs)

\* The body state and the durable job say the same: a session waits or is being
\* imported exactly while a job is there to do it, unless a purge took the job.
JobServesBody ==
    /\ jobs # <<>> => Active(ses)
    /\ ses.body \in {"Queued", "Importing"} /\ ~gate.purged => jobs # <<>>

\* Each leg of a watermark is a gapless run of records, the early one from byte 0
\* up to the fence at most, the other from the fence: captures of interrupted
\* checkpoints drain in any order and still confirm every byte once.
ContiguousLeg(leg, from) ==
    \A i \in DOMAIN leg : leg[i].start = (IF i = 1 THEN from ELSE leg[i - 1].end)
MarksContiguous ==
    \A rev \in DOMAIN marks :
        /\ ContiguousLeg(marks[rev].main, Start(marks[rev]))
        /\ ContiguousLeg(marks[rev].early, 0)
        /\ marks[rev].fence >= 0 => EarlyEnd(marks[rev]) <= marks[rev].fence

\* What a file held before the daemon first saw its session live is archived only
\* in a repository scope, or after the user approved it.
HistoryNeedsApproval ==
    MarkOf(ses.rev).early # <<>> => host.kind = "Repository" \/ ses.access # "none"

\* After the user revoked access, no step of the worker, the catalog or the ingest
\* brings the body forward again.
RevokedStaysOut ==
    [][ses.access = "Revoked" /\ ses'.body # ses.body
         => ses'.body \notin {"Importing", "Partial", "Imported"}]_importVars

\* While the file only grows and its session is never seen live, the head of the
\* spool is never a record the projections refuse: whatever interrupted the checkpoint
\* that captured it, ingest commits it or recognises it as already confirmed.
NoRecordRefused ==
    spool # <<>> /\ file.id = 1 /\ ~Environs("origin")
        => Discarded(Head(spool)) \/ MayCommit(Head(spool))

\* A request that comes after a revocation and is not approved again (queue_command, for a
\* session with a repository): it is queued, and the worker declines it at every turn.
AskedAfterRevocation == ses.access = "Revoked" /\ ses.body = "Queued"

\* While one file only grows, the host stays trusted and a request waits for the
\* previous one, every import job ends: through crashes, expired leases, exhausted
\* budgets, unsupported records and revocations.  The only job that may wait for ever is
\* one that was asked for after a revocation.
ImportEnds ==
    env.acts \subseteq {"append", "crash", "revoke"} =>
        []<>(jobs = <<>> \/ AskedAfterRevocation)

\* What is archived is the file: nothing skipped, repeated or of another file, in either leg
\* (jobs/import.rs, projections.rs).
ArchiveFaithful == ImportTyped /\ (env.mixed \/ ImportedMatchesFile) /\ MarksContiguous

\* The job, the permission and the records of an import belong together at every commit
\* (session_import.rs, jobs/import.rs).
ImportAdmissible == JobServesBody /\ HistoryNeedsApproval /\ NoRecordRefused
=============================================================================

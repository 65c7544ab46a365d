--------------------------- MODULE RecoveryBarrier ---------------------------
(* The recovery barrier: before a destructive command runs, the hook makes a  *)
(* durable capture of the tool call and asks the daemon for a recovery point; *)
(* the daemon reads the worktree twice around the copy and records one        *)
(* terminal revision (hook/main.rs, engine/recovery/barrier.rs, capture.rs,   *)
(* bundle.rs, store/projections/recovery.rs).  One worktree.                  *)
EXTENDS Integers, FiniteSets

CONSTANTS Requests,     \* destructive tool calls
          Handlers,     \* connections the daemon serves
          Attempts,     \* sets of active attempts the journal may hold
          Scenarios     \* what a behaviour may contain: handlers, requests and the limits
                        \* of edits, other commits, faults, repeated deliveries and restarts

Terminal == {"Complete", "Partial", "TimedOut", "Failed", "Skipped"}
Gap == [pc |-> "done", told |-> "gap"]
NoBundle == [t |-> 0, f |-> 0, st |-> "none", att |-> 0]
\* A handler of the barrier: where it is, for which request, and what it has read.
Idle == [pc |-> "idle", r |-> "none", live |-> FALSE, n |-> 0, att |-> 0, t1 |-> 0,
         listed |-> FALSE, f |-> 0, om |-> FALSE, same |-> FALSE, b |-> NoBundle, st |-> "none"]

VARIABLES wt,       \* the worktree: tracked changes and version of its untracked file
          db,       \* journal: frontier, request revisions, bundles, active attempts
          hook,     \* the hook process of each tool call
          frame,    \* its record in the spool
          mail,     \* requests on their way to the daemon
          expired,  \* requests whose deadline has passed
          h,        \* handlers
          lease,    \* holder of the worktree's mutation fence
          daemon,   \* "up", "starting" or "down"
          count,    \* events that happened, and the scenario that limits them
          seen,     \* contents the worktree has had, and before each command (history)
          lost      \* requests whose failure could not be recorded (history)

vars == <<wt, db, hook, frame, mail, expired, h, lease, daemon, count, seen, lost>>

Init ==
    /\ wt = [t |-> 1, f |-> 1]
    /\ db = [n |-> 0, req |-> [r \in Requests |-> "none"],
             bundle |-> [r \in Requests |-> NoBundle], att |-> 0]
    /\ hook = [r \in Requests |-> [pc |-> "idle", told |-> "none"]] /\ frame = [r \in Requests |-> "none"]
    /\ mail = {} /\ expired = {} /\ h = [x \in Handlers |-> Idle] /\ lease = "free"
    /\ daemon = "up" /\ lost = {}
    /\ \E sc \in Scenarios : count = [edit |-> 0, other |-> 0, fault |-> 0, extra |-> 0,
                                      crash |-> 0, max |-> sc]
    /\ seen = [now |-> {<<1, 1>>}, before |-> [r \in Requests |-> {}]]

Counted(k) == count[k] < count.max[k] /\ count' = [count EXCEPT ![k] = @ + 1]
Becomes(t, f) == /\ wt' = [t |-> t, f |-> f]
                 /\ seen' = [seen EXCEPT !.now = @ \union {<<t, f>>}]
unseen == UNCHANGED <<seen, lost>>

-----------------------------------------------------------------------------
(* The worktree and the hook process.                                         *)

\* Editors and other tools change tracked content or the untracked file, whose
\* identity (inode, times) never repeats.
Edit ==
    /\ Counted("edit")
    /\ \/ \E t \in {1, 2} \ {wt.t} : Becomes(t, wt.f)
       \/ Becomes(wt.t, count.edit + 2)
    /\ UNCHANGED <<db, hook, frame, mail, expired, h, lease, daemon, lost>>

\* The capture is durable before anything is asked.
recovery_preflight(r) ==
    /\ hook[r].pc = "idle" /\ r \in count.max.requests
    /\ hook' = [hook EXCEPT ![r].pc = "captured"] /\ frame' = [frame EXCEPT ![r] = "durable"]
    /\ UNCHANGED <<wt, db, mail, expired, h, lease, daemon, count>> /\ unseen

\* The budget left decides whether the hook asks at all.
request_recovery_barrier_sync(r) ==
    /\ hook[r].pc = "captured"
    /\ \/ daemon = "up" /\ hook' = [hook EXCEPT ![r].pc = "waiting"]
          /\ mail' = mail \union {[r |-> r, live |-> TRUE]}
       \/ hook' = [hook EXCEPT ![r] = Gap] /\ UNCHANGED mail
    /\ UNCHANGED <<wt, db, frame, expired, h, lease, daemon, count>> /\ unseen

\* Its own timeout, a lost connection, or the host: it stops waiting and leaves a gap.
HookGivesUp(r) ==
    /\ hook[r].pc = "waiting" /\ hook' = [hook EXCEPT ![r] = Gap]
    /\ UNCHANGED <<wt, db, frame, mail, expired, h, lease, daemon, count>> /\ unseen

\* The host runs the command when the hook has ended, whatever it found: it
\* destroys tracked changes, the untracked file, or both.
RunCommand(r) ==
    /\ hook[r].pc = "done"
    /\ \E t \in {0, wt.t}, f \in {0, wt.f} :
          /\ wt' = [t |-> t, f |-> f]
          /\ seen' = [now |-> seen.now \union {<<t, f>>},
                      before |-> [seen.before EXCEPT ![r] = seen.now]]
    /\ hook' = [hook EXCEPT ![r].pc = "ran"]
    /\ UNCHANGED <<db, frame, mail, expired, h, lease, daemon, count, lost>>

Deadline(r) ==
    /\ frame[r] # "none" /\ r \notin expired /\ expired' = expired \union {r}
    /\ UNCHANGED <<wt, db, hook, frame, mail, h, lease, daemon, count>> /\ unseen

\* The critical lane ingests the record and deletes it from the spool.
Ingest(r) ==
    /\ frame[r] = "durable" /\ daemon = "up"
    /\ Counted("other")
    /\ frame' = [frame EXCEPT ![r] = "gone"] /\ db' = [db EXCEPT !.n = @ + 1]
    /\ UNCHANGED <<wt, hook, mail, expired, h, lease, daemon>> /\ unseen

\* The same locator is delivered once more.
Redeliver(r) ==
    /\ frame[r] # "none" /\ daemon = "up" /\ Counted("extra")
    /\ mail' = mail \union {[r |-> r, live |-> FALSE]}
    /\ UNCHANGED <<wt, db, hook, frame, expired, h, lease, daemon>> /\ unseen

-----------------------------------------------------------------------------
(* The daemon's handler.                                                      *)

Go(x, pc) == h' = [h EXCEPT ![x].pc = pc]
Others == <<wt, frame, mail, expired, daemon>>

\* The answer reaches the hook only while it waits on this connection.
Answer(x, a) ==
    /\ hook' = [hook EXCEPT ![h[x].r] = IF h[x].live /\ @.pc = "waiting"
                                           THEN [pc |-> "done", told |-> a] ELSE @]
    /\ h' = [h EXCEPT ![x] = Idle]
    /\ lease' = IF lease = x THEN "free" ELSE lease
Refuse(x) == Answer(x, "gap")

\* Mutant: the handler acknowledges its own verdict and not the projection's.
AckOwn(x) == Answer(x, h[x].st)
\* Only a durable terminal revision is acknowledged.
ack(x) == IF db.req[h[x].r] \in Terminal THEN Answer(x, db.req[h[x].r]) ELSE Refuse(x)

\* The locator names a frame of the spool; the projection says where the request stands.
Receive(x) ==
    /\ h[x].pc = "idle" /\ daemon = "up" /\ x \in count.max.handlers
    /\ \E m \in mail :
          /\ mail' = mail \ {m}
          /\ h' = [h EXCEPT ![x] = [Idle EXCEPT !.r = m.r, !.live = m.live,
                   !.pc = IF frame[m.r] # "durable" THEN "refuse"
                          ELSE IF db.req[m.r] \in Terminal THEN "ack"
                          ELSE IF db.req[m.r] = "Pending" THEN "settle" ELSE "admit",
                   !.st = IF m.r \in expired THEN "TimedOut" ELSE "Failed"]]
    /\ UNCHANGED <<wt, db, hook, frame, expired, lease, daemon, count>> /\ unseen

Reply(x) ==
    /\ \/ h[x].pc = "refuse" /\ Refuse(x)
       \/ h[x].pc = "ack" /\ ack(x)
    /\ UNCHANGED <<db, count>> /\ UNCHANGED Others /\ unseen

\* Mutant: the mutation fence is entered without looking.
LeaseIgnored(x) == lease' = x
\* One holder per worktree, and no waiting.
RecoveryFenceLease_acquire(x) == lease = "free" /\ lease' = x

\* The record, its command, the source and target worktrees and the deadline are checked.
Admit(x) ==
    /\ h[x].pc = "admit"
    /\ \/ h[x].r \notin expired /\ RecoveryFenceLease_acquire(x) /\ Go(x, "probe")
          /\ UNCHANGED <<hook, count>>
       \/ (h[x].r \in expired \/ lease # "free") /\ Refuse(x) /\ UNCHANGED count
       \/ Counted("fault") /\ Refuse(x)
    /\ UNCHANGED db /\ UNCHANGED Others /\ unseen

\* The target is probed and the command classified again before Pending is recorded;
\* a repeated command id is replayed.
RecordPending(x) ==
    /\ h[x].pc = "probe"
    /\ \/ /\ h[x].r \notin expired /\ Go(x, "view") /\ UNCHANGED <<hook, lease, count>>
          /\ db' = IF db.req[h[x].r] # "none" THEN db
                   ELSE [db EXCEPT !.n = @ + 1, !.req[h[x].r] = "Pending"]
       \/ h[x].r \in expired /\ Refuse(x) /\ UNCHANGED <<db, count>>
       \/ Counted("fault") /\ Refuse(x) /\ UNCHANGED db
    /\ UNCHANGED Others /\ unseen

\* The projection the capture is built on: its frontier and the active attempts.
View(x) ==
    /\ h[x].pc = "view"
    /\ IF db.req[h[x].r] \in Terminal THEN ack(x)
       ELSE /\ h' = [h EXCEPT ![x].pc = "before", ![x].n = db.n, ![x].att = db.att]
            /\ UNCHANGED <<hook, lease>>
    /\ UNCHANGED <<db, count>> /\ UNCHANGED Others /\ unseen

\* An error gives up the lease first and then records the failure.
Fails(x) == /\ h' = [h EXCEPT ![x].pc = "settle", ![x].st = "Failed"]
            /\ lease' = IF lease = x THEN "free" ELSE lease
Fault(x) == Counted("fault") /\ Fails(x)
Stage(x, pc) == h[x].pc = pc /\ UNCHANGED <<db, hook>> /\ UNCHANGED Others /\ unseen

\* First probe: tracked diff and the list of untracked paths.
ProbeBefore(x) ==
    /\ Stage(x, "before")
    /\ \/ /\ h' = IF h[x].r \in expired
                  THEN [h EXCEPT ![x].pc = "commit", ![x].st = "TimedOut"]
                  ELSE [h EXCEPT ![x].pc = "read", ![x].t1 = wt.t, ![x].listed = wt.f # 0]
          /\ UNCHANGED <<lease, count>>
       \/ Fault(x)

\* The listed files are copied; what is too large, gone or too late is an omission.
capture_untracked_items(x) ==
    /\ Stage(x, "read") /\ UNCHANGED <<lease, count>>
    /\ \E om \in BOOLEAN :
          LET skip == om \/ wt.f = 0 \/ h[x].r \in expired
          IN h' = [h EXCEPT ![x].pc = "after",
                   ![x].f = IF h[x].listed /\ ~skip THEN wt.f ELSE 0,
                   ![x].om = h[x].listed /\ skip]

\* Mutant: the second probe compares the list of paths and not the tracked diff.
DiffNotRepeated(x) == h[x].listed = (wt.f # 0)
\* Second probe, compared with the first.
fingerprint_equal(x) == h[x].t1 = wt.t /\ h[x].listed = (wt.f # 0)
ProbeAfter(x) ==
    /\ Stage(x, "after")
    /\ \/ h' = [h EXCEPT ![x].pc = "verify", ![x].same = h[x].r \notin expired /\ fingerprint_equal(x)]
          /\ UNCHANGED <<lease, count>>
       \/ Counted("fault") /\ UNCHANGED lease   \* the root was replaced
          /\ h' = [h EXCEPT ![x].pc = "verify", ![x].same = FALSE]
       \/ Fault(x)

\* Every copied file must still have the identity and content it was copied with.
verify_untracked_items(x) == h[x].f \in {0, wt.f}

\* The bundle: complete without omissions and with equal fences, else partial.
capture_recovery_bundle(x) ==
    /\ Stage(x, "verify") /\ UNCHANGED <<lease, count>>
    /\ LET late == h[x].r \in expired
           same == h[x].same /\ verify_untracked_items(x) /\ ~late
           content == h[x].t1 # 0 \/ h[x].f # 0
           whole == same /\ ~h[x].om
       IN h' = [h EXCEPT ![x].pc = "status",
                ![x].b = IF ~content /\ whole THEN NoBundle
                         ELSE [t |-> h[x].t1, f |-> h[x].f, att |-> h[x].att,
                               st |-> IF whole THEN "Complete" ELSE "Partial"]]

recovery_terminal_status(x) ==
    IF h[x].r \in expired THEN "TimedOut"
    ELSE IF h[x].b = NoBundle THEN "Skipped" ELSE h[x].b.st
status_after_root_change(st) == IF st \in {"Complete", "Skipped"} THEN "Partial" ELSE st

\* The root is looked at a last time.
Conclude(x) ==
    /\ Stage(x, "status") /\ UNCHANGED lease
    /\ \/ h' = [h EXCEPT ![x].pc = "commit", ![x].st = recovery_terminal_status(x)]
          /\ UNCHANGED count
       \/ /\ Counted("fault")
          /\ h' = [h EXCEPT ![x].pc = "commit",
                   ![x].st = status_after_root_change(recovery_terminal_status(x)),
                   ![x].b = IF @ = NoBundle THEN @ ELSE [@ EXCEPT !.st = "Partial"]]

\* Mutant: the terminal revision is committed whatever the journal holds by now.
CommitAnyway(x) == TRUE
\* Terminal revision, snapshot and bundle are one command on the frontier of the view.
commit_if_frontier(x) == h[x].n = db.n

record_request(x) == db' = [db EXCEPT !.n = @ + 1, !.req[h[x].r] = h[x].st,
                                      !.bundle[h[x].r] = h[x].b]
CommitTerminal(x) ==
    /\ h[x].pc = "commit"
    /\ IF commit_if_frontier(x)
       THEN record_request(x) /\ Go(x, "ack") /\ UNCHANGED lease
       ELSE Fails(x) /\ UNCHANGED db
    /\ UNCHANGED <<hook, count>> /\ UNCHANGED Others /\ unseen

\* A fresh projection decides: a terminal revision is acknowledged, else this one is tried.
commit_failed(x) ==
    /\ h[x].pc = "settle"
    /\ IF db.req[h[x].r] \in Terminal THEN ack(x)
       ELSE /\ h' = [h EXCEPT ![x].pc = "record", ![x].n = db.n, ![x].b = NoBundle]
            /\ UNCHANGED <<hook, lease>>
    /\ UNCHANGED <<db, count>> /\ UNCHANGED Others /\ unseen

\* There is no second try: the request stays pending when the journal moved again.
commit_settled(x) ==
    /\ h[x].pc = "record"
    /\ IF h[x].n = db.n
       THEN record_request(x) /\ Go(x, "ack") /\ UNCHANGED <<hook, lease, lost>>
       ELSE Refuse(x) /\ lost' = lost \union {h[x].r} /\ UNCHANGED db
    /\ UNCHANGED <<count, seen>> /\ UNCHANGED Others

-----------------------------------------------------------------------------
(* Everything else: journal traffic and restarts.                              *)

OtherCommit ==
    /\ daemon = "up" /\ Counted("other")
    /\ \E a \in Attempts : db' = [db EXCEPT !.n = @ + 1, !.att = a]
    /\ UNCHANGED <<wt, hook, frame, mail, expired, h, lease, daemon>> /\ unseen

Crash ==
    /\ daemon # "down" /\ Counted("crash")
    /\ daemon' = "down" /\ lease' = "free" /\ mail' = {} /\ h' = [x \in Handlers |-> Idle]
    /\ UNCHANGED <<wt, db, hook, frame, expired, seen, lost>>

\* Mutant: the server is bound without settling what the last run left pending.
ServeAtOnce == TRUE
\* Before the socket is bound, every pending request is settled as timed out.
reconcile_pending_on_startup == \A r \in Requests : db.req[r] # "Pending"
Start ==
    \/ daemon = "down" /\ daemon' = "starting" /\ UNCHANGED db
    \/ /\ daemon = "starting" /\ UNCHANGED daemon
       /\ \E r \in Requests : db.req[r] = "Pending"
             /\ db' = [db EXCEPT !.n = @ + 1, !.req[r] = "TimedOut"]
    \/ daemon = "starting" /\ reconcile_pending_on_startup /\ daemon' = "up" /\ UNCHANGED db
Restart == Start /\ UNCHANGED <<wt, hook, frame, mail, expired, h, lease, count>> /\ unseen

Handle(x) ==
    Receive(x) \/ Reply(x) \/ Admit(x) \/ RecordPending(x) \/ View(x) \/ ProbeBefore(x)
    \/ capture_untracked_items(x) \/ ProbeAfter(x) \/ capture_recovery_bundle(x)
    \/ Conclude(x) \/ CommitTerminal(x) \/ commit_failed(x) \/ commit_settled(x)
\* Everything but the death and the start of the daemon, which Recovery.tla shares
\* between the barrier and the applications.
Own ==
    \/ \E x \in Handlers : Handle(x)
    \/ \E r \in Requests : recovery_preflight(r) \/ request_recovery_barrier_sync(r)
          \/ HookGivesUp(r) \/ RunCommand(r) \/ Deadline(r) \/ Ingest(r) \/ Redeliver(r)
    \/ Edit \/ OtherCommit

-----------------------------------------------------------------------------
(* Properties.                                                                *)

\* Types, and the fence is held only by a handler that is still at work.
TypeOK ==
    /\ db.req \in [Requests -> Terminal \union {"none", "Pending"}]
    /\ \A r \in Requests : db.bundle[r].st \in {"none", "Complete", "Partial"}
    /\ \A x \in Handlers : lease = x => h[x].pc # "idle"
    /\ frame \in [Requests -> {"none", "durable", "gone"}] /\ expired \subseteq Requests

\* A bundle recorded as complete (bundle.rs) holds tracked and untracked content that
\* the worktree had at one instant, whatever editors did around the copy; when the hook
\* was told Complete, at an instant before the command ran.
CompleteIsOneInstant ==
    \A r \in Requests : db.bundle[r].st = "Complete" =>
        <<db.bundle[r].t, db.bundle[r].f>> \in
            IF hook[r] = [pc |-> "ran", told |-> "Complete"] THEN seen.before[r] ELSE seen.now

\* A status the hook was told is the durable status of the request, also after a restart.
AckedIsDurable ==
    \A r \in Requests : hook[r].told \notin {"none", "gap"} =>
        hook[r].told \in Terminal /\ db.req[r] = hook[r].told

\* A terminal revision is final: no later delivery, failure or restart replaces it, and
\* with a bundle it names the attempts active in the journal it was committed on.
KeepsTerminal ==
    \A r \in Requests :
       /\ db.req[r] \in Terminal => db'.req[r] = db.req[r] /\ db'.bundle[r] = db.bundle[r]
       /\ db'.bundle[r] # db.bundle[r] => db'.bundle[r].att = db.att

\* A request recorded as pending is settled, by its handler or by the next start, unless
\* the handler lost the frontier when recording its failure.
PendingSettles ==
    \A r \in Requests : db.req[r] = "Pending" ~> (db.req[r] \in Terminal \/ r \in lost)
=============================================================================

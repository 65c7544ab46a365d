------------------------- MODULE RecoveryApplication -------------------------
(* Applying a recovery point: the patch of a complete bundle is checked,      *)
(* admitted in the journal, and given to one child process; what happened is  *)
(* captured as an intent and a result frame and only then turned into a       *)
(* status (engine/recovery/action.rs, action/evidence.rs,                     *)
(* domain/repository/recovery.rs).  One target file.                          *)
EXTENDS Integers, FiniteSets

CONSTANTS Requests,     \* request ids; an application carries its request's id
          Callers,      \* connections that ask for applications
          Scenarios     \* what a behaviour may contain: requests, callers, and the limits of
                        \* calls, edits, faults, drains and deaths of the daemon

Boot == "boot"
NoApp == [rev |-> 0, deliv |-> "none", st |-> "none", post |-> FALSE]
NoResult == [ex |-> "none", ver |-> "none", fid |-> 0, post |-> FALSE]
Idle == [pc |-> "idle", a |-> "none", cur |-> NoApp, fid |-> 0, ex |-> "none",
         ver |-> "none", post |-> FALSE]

VARIABLES file,     \* the target: content "pre", "patched" or "other", and its identity
          app,      \* current revision of each application
          intent,   \* applications whose intent frame is durable
          result,   \* their result frames
          child,    \* the process that applies the patch
          call,     \* calls in progress, and the daemon's start
          todo,     \* applications the start has still to reconcile
          lease,    \* holder of the worktree's mutation fence
          quiet,    \* the custody refuses and cancels
          daemon,   \* "up", "starting" or "down"
          count,    \* events that happened, and the scenario that limits them
          past      \* history: children, writes, answers, orphans

vars == <<file, app, intent, result, child, call, todo, lease, quiet, daemon, count, past>>

Init ==
    /\ file = [c |-> "pre", id |-> 0]
    /\ app = [a \in Requests |-> NoApp] /\ intent = {} /\ result = [a \in Requests |-> NoResult]
    /\ child = [a \in Requests |-> "none"]
    /\ call = [c \in Callers \union {Boot} |-> Idle]
    /\ todo = {} /\ lease = "free" /\ quiet = FALSE /\ daemon = "up"
    /\ \E sc \in Scenarios : count = [call |-> 0, edit |-> 0, fault |-> 0, quiesce |-> 0,
                                      crash |-> 0, max |-> sc]
    /\ past = [spawned |-> [a \in Requests |-> 0], wrote |-> {}, told |-> {}, orphan |-> {}]

Counted(k) == count[k] < count.max[k] /\ count' = [count EXCEPT ![k] = @ + 1]
Step(c, pc) == call[c].pc = pc
Goto(c, pc) == call' = [call EXCEPT ![c].pc = pc]
Active == {c \in Callers : ~Step(c, "idle")}
world == <<file, child>>
store == <<app, intent, result>>
control == <<quiet, daemon>>

-----------------------------------------------------------------------------
(* Calls: custody, answers, and the replay of an application already known.   *)

Release(c) == lease' = IF lease = c THEN "free" ELSE lease
\* The answer of a call; an error of the start's reconciliation stops the start.
Answer(c, a, st) ==
    /\ call' = [call EXCEPT ![c] = IF c = Boot /\ "error" \in {st, @.ex}
                                   THEN [Idle EXCEPT !.ex = "error"] ELSE Idle]
    /\ Release(c)
    /\ past' = [past EXCEPT !.told = IF c = Boot \/ st = "error" THEN @ ELSE @ \union {<<a, st>>}]
    /\ todo' = IF c = Boot THEN todo \ {a} ELSE todo
Reply(c, st) == Answer(c, call[c].a, st)

\* Registered with the custody, unless it drains.
handle(c) ==
    /\ Step(c, "idle") /\ daemon = "up" /\ ~quiet /\ c \in count.max.callers /\ Counted("call")
    /\ \E a \in count.max.requests : call' = [call EXCEPT ![c] = [Idle EXCEPT !.pc = "replay", !.a = a]]
    /\ UNCHANGED <<todo, lease, past>> /\ UNCHANGED <<world, store, control>>

\* Mutant: only a settled application is answered from the journal.
ReplaySettled(a) == app[a].st \in {"Applied", "Failed"}
\* An application the journal knows is never executed again.
known(a) == app[a] # NoApp

replay_outcome(c) ==
    /\ Step(c, "replay")
    /\ LET a == call[c].a IN
       IF ~known(a) THEN Goto(c, "lease") /\ UNCHANGED <<todo, lease, past>>
       ELSE IF app[a].st \in {"Applied", "Failed"} THEN Reply(c, app[a].st)
       ELSE /\ call' = [call EXCEPT ![c].pc = "reconcile", ![c].cur = app[a]]
            /\ UNCHANGED <<todo, lease, past>>
    /\ UNCHANGED count /\ UNCHANGED <<world, store, control>>

\* Mutant: the fence is entered without looking.
FenceIgnored(c) == lease' = c
\* The worktree's mutation fence, shared with the recovery barrier; no waiting.
acquire(c) == lease = "free" /\ lease' = c

Lease(c) ==
    /\ Step(c, "lease")
    /\ \/ acquire(c) /\ Goto(c, "prepare") /\ UNCHANGED <<todo, past>>
       \/ lease # "free" /\ Reply(c, "error")
    /\ UNCHANGED count /\ UNCHANGED <<world, store, control>>

\* The bundle, the target and the ticket are checked, and the file read ...
PrepareBegin(c) ==
    /\ Step(c, "prepare")
    /\ \/ call' = [call EXCEPT ![c].pc = "check", ![c].fid = file.id]
          /\ UNCHANGED <<todo, lease, past>>
       \/ Reply(c, "error")   \* unsupported, or late
    /\ UNCHANGED count /\ UNCHANGED <<world, store, control>>
\* ... the patch tried without writing, and the file read again.
prepare_patch(c) ==
    /\ Step(c, "check")
    /\ IF file.c = "pre" /\ file.id = call[c].fid /\ ~quiet
       THEN Goto(c, "admit") /\ UNCHANGED <<todo, lease, past>>
       ELSE Reply(c, "error")
    /\ UNCHANGED count /\ UNCHANGED <<world, store, control>>

\* The admission's command id is the request id: a second one is replayed.
Admit(c) ==
    /\ Step(c, "admit")
    /\ LET a == call[c].a IN
       \/ /\ ~known(a) /\ app' = [app EXCEPT ![a] = [rev |-> 1, deliv |-> "Admitted",
                                                     st |-> "Unknown", post |-> FALSE]]
          /\ call' = [call EXCEPT ![c].pc = "recheck", ![c].cur = app'[a]]
          /\ UNCHANGED <<todo, lease, past, count>>
       \/ known(a) /\ Goto(c, "replay") /\ Release(c) /\ UNCHANGED <<app, todo, past, count>>
       \/ Counted("fault") /\ Reply(c, "error") /\ UNCHANGED app
    /\ UNCHANGED <<world, intent, result, control>>

\* Once more after the admission: late or changed means the patch is not started.
Recheck(c) ==
    /\ Step(c, "recheck")
    /\ LET a == call[c].a IN
       \/ /\ ~quiet /\ file.id = call[c].fid
          /\ child' = [child EXCEPT ![a] = "fed"] /\ Goto(c, "feed")
          /\ past' = [past EXCEPT !.spawned[a] = @ + 1] /\ UNCHANGED <<todo, lease>>
       \/ Reply(c, "Unknown") /\ UNCHANGED child
    /\ UNCHANGED <<count, file>> /\ UNCHANGED <<store, control>>

-----------------------------------------------------------------------------
(* The child: it has the patch on its input and acts at the end of the input. *)

\* A child writes when the content is what the patch expects; it may fail, and a
\* failure may have damaged the file.
ChildRuns(a) ==
    /\ child[a] = "eof"
    /\ \/ /\ file.c = "pre" /\ child' = [child EXCEPT ![a] = "ok"]
          /\ file' = [c |-> "patched", id |-> file.id + 1]
          /\ past' = [past EXCEPT !.wrote = @ \union {a}] /\ UNCHANGED count
       \/ child' = [child EXCEPT ![a] = "fail"] /\ UNCHANGED <<file, past, count>>
       \/ /\ file.c = "pre" /\ Counted("fault") /\ child' = [child EXCEPT ![a] = "fail"]
          /\ file' = [c |-> "other", id |-> file.id + 1]
          /\ past' = [past EXCEPT !.wrote = @ \union {a}]
    /\ UNCHANGED <<call, todo, lease, store, control>>

\* Mutant: the input is closed before the intent is captured.
IntentAfter(c) ==
    /\ child' = [child EXCEPT ![call[c].a] = "eof"] /\ Goto(c, "wait")
    /\ UNCHANGED <<intent, count>>
\* The intent frame is durable before the input ends; a failed capture kills the child.
capture_intent_frame(c) ==
    LET a == call[c].a IN
    \/ /\ intent' = intent \union {a} /\ child' = [child EXCEPT ![a] = "eof"]
       /\ Goto(c, "wait") /\ UNCHANGED count
    \/ /\ Counted("fault") /\ child' = [child EXCEPT ![a] = "killed"]
       /\ call' = [call EXCEPT ![c].pc = "post", ![c].ex = "abnormal"] /\ UNCHANGED intent

\* The deadline or a cancellation while the input is written kills the child.
Feed(c) ==
    /\ Step(c, "feed")
    /\ \/ capture_intent_frame(c)
       \/ /\ child' = [child EXCEPT ![call[c].a] = "killed"]
          /\ call' = [call EXCEPT ![c].pc = "post", ![c].ex = "abnormal"]
          /\ UNCHANGED <<intent, count>>
    /\ UNCHANGED <<file, app, result, todo, lease, past, control>>

\* Kill and reap.
terminate(a) == [child EXCEPT ![a] = "killed"]

\* The exit is polled; a child that is late or cancelled is killed and reaped.
Wait(c) ==
    /\ Step(c, "wait")
    /\ LET a == call[c].a IN
       \/ /\ child[a] \in {"ok", "fail"} /\ UNCHANGED child
          /\ call' = [call EXCEPT ![c].pc = "post", ![c].ex = child[a]]
       \/ /\ child' = terminate(a)
          /\ call' = [call EXCEPT ![c].pc = "post", ![c].ex = "abnormal"]
    /\ UNCHANGED <<file, todo, lease, past, count>> /\ UNCHANGED <<store, control>>

-----------------------------------------------------------------------------
(* What happened: snapshot, verification, result frame, revisions.            *)

\* The file is read, the worktree probed and recorded, ...
PostBegin(c) ==
    /\ Step(c, "post") /\ call' = [call EXCEPT ![c].pc = "stable", ![c].fid = file.id]
    /\ UNCHANGED <<todo, lease, past, count>> /\ UNCHANGED <<world, store, control>>
\* ... and the file read again: only an unchanged one supports a verdict.
capture_post_snapshot(c) ==
    /\ Step(c, "stable")
    /\ \E probed \in BOOLEAN :
          LET ok == probed /\ file.id = call[c].fid /\ ~quiet
          IN call' = [call EXCEPT ![c].pc = "verify", ![c].post = ok,
                      ![c].fid = IF ok THEN @ ELSE -1]
    /\ UNCHANGED <<todo, lease, past, count>> /\ UNCHANGED <<world, store, control>>

\* Mutant: the exit code is the verdict.
ByExitCode(ex) == IF ex = "ok" THEN "Applied" ELSE IF ex = "fail" THEN "NotApplied" ELSE "none"
\* After success the patch must be reversible; after failure the file must be as before.
verdict(ex) ==
    IF ex = "ok" /\ file.c = "patched" THEN "Applied"
    ELSE IF ex = "fail" /\ file.c = "pre" THEN "NotApplied" ELSE "none"

verify_patch_outcome(c) ==
    /\ Step(c, "verify")
    /\ call' = [call EXCEPT ![c].pc = "persist",
                ![c].ver = IF call[c].post THEN verdict(call[c].ex) ELSE "none"]
    /\ UNCHANGED <<todo, lease, past, count>> /\ UNCHANGED <<world, store, control>>

persist_terminal_evidence(c) ==
    /\ Step(c, "persist")
    /\ \/ /\ result' = [result EXCEPT ![call[c].a] =
                [ex |-> call[c].ex, ver |-> call[c].ver, fid |-> call[c].fid, post |-> call[c].post]]
          /\ Goto(c, "reconcile") /\ UNCHANGED <<todo, lease, past, count>>
       \/ Counted("fault") /\ Reply(c, "error") /\ UNCHANGED result
    /\ UNCHANGED <<world, app, intent, control>>

\* Intent and result are ingested and paired; both are needed before Delivered.
Reconcile(c) ==
    /\ Step(c, "reconcile")
    /\ LET a == call[c].a IN
       IF call[c].cur.deliv = "Delivered" THEN Goto(c, "outcome") /\ UNCHANGED <<todo, lease, past>>
       ELSE IF a \in intent /\ result[a] # NoResult
       THEN Goto(c, "deliver") /\ UNCHANGED <<todo, lease, past>>
       ELSE Reply(c, call[c].cur.st)
    /\ UNCHANGED count /\ UNCHANGED <<world, store, control>>

\* Mutant: a revision may follow any revision.
AnyParent(a, cur) == TRUE
\* A revision is accepted only as the successor of the current one.
is_successor_of(a, cur) == app[a].rev = cur.rev

Revise(c, new, pc) ==
    LET a == call[c].a IN
    \/ /\ is_successor_of(a, call[c].cur)
       /\ app' = [app EXCEPT ![a] = [new EXCEPT !.rev = call[c].cur.rev + 1]]
       /\ IF pc = "done" THEN Reply(c, new.st)
          ELSE call' = [call EXCEPT ![c].pc = pc, ![c].cur = app'[a]] /\ UNCHANGED <<todo, lease, past>>
       /\ UNCHANGED count
    \/ ~is_successor_of(a, call[c].cur) /\ Reply(c, "error") /\ UNCHANGED <<app, count>>
    \/ Counted("fault") /\ Reply(c, "error") /\ UNCHANGED app

\* Mutant: the post snapshot is taken for granted.
DeliverAssumesPost(c) ==
    /\ Step(c, "deliver")
    /\ Revise(c, [call[c].cur EXCEPT !.deliv = "Delivered", !.post = TRUE], "outcome")
    /\ UNCHANGED <<world, intent, result, control>>
\* The Delivered revision takes operation, lane and post snapshot from the paired frames.
Deliver(c) ==
    /\ Step(c, "deliver")
    /\ Revise(c, [call[c].cur EXCEPT !.deliv = "Delivered", !.post = result[call[c].a].post], "outcome")
    /\ UNCHANGED <<world, intent, result, control>>

\* A verdict recorded with the result counts; without one the file is examined again,
\* if it is still the file of the result.
fresh_replay_verifier(a) ==
    IF result[a].fid = file.id THEN verdict(result[a].ex) ELSE "none"
Outcome(a) == IF result[a].ver # "none" THEN result[a].ver ELSE fresh_replay_verifier(a)

Settle(c) ==
    /\ Step(c, "outcome")
    /\ LET a == call[c].a   v == Outcome(a) IN
       IF ~call[c].cur.post \/ v = "none" THEN Reply(c, call[c].cur.st) /\ UNCHANGED <<app, count>>
       ELSE Revise(c, [call[c].cur EXCEPT !.st = IF v = "Applied" THEN "Applied" ELSE "Failed"], "done")
    /\ UNCHANGED <<world, intent, result, control>>

-----------------------------------------------------------------------------
(* Editors, draining, death and start.                                        *)

Edit ==
    /\ Counted("edit")
    /\ \E x \in {"pre", "patched", "other"} \ {file.c} : file' = [c |-> x, id |-> file.id + 1]
    /\ UNCHANGED <<child, call, todo, lease, past, store, control>>

shutdown_and_drain ==
    /\ daemon = "up" /\ ~quiet /\ Counted("quiesce") /\ quiet' = TRUE
    /\ UNCHANGED <<world, store, call, todo, lease, daemon, past>>
resume ==
    /\ quiet /\ Active = {} /\ quiet' = FALSE
    /\ UNCHANGED <<world, store, call, todo, lease, daemon, count, past>>

\* The pipe of a child closes with the daemon: the child meets the end of its input.
Crash ==
    /\ daemon # "down" /\ Counted("crash")
    /\ daemon' = "down" /\ quiet' = FALSE /\ lease' = "free" /\ todo' = {}
    /\ call' = [c \in Callers \union {Boot} |-> Idle]
    /\ child' = [a \in Requests |-> IF child[a] = "fed" THEN "eof" ELSE child[a]]
    /\ past' = [past EXCEPT !.orphan = @ \union {a \in Requests : child[a] \in {"fed", "eof"}}]
    /\ UNCHANGED <<file, store>>

\* The start reconciles all that is unknown before it serves; any error ends it.
Start ==
    /\ daemon = "down" /\ daemon' = "starting" /\ todo' = {a \in Requests : app[a].st = "Unknown"}
    /\ UNCHANGED <<world, store, call, lease, quiet, count, past>>
\* Mutant: the daemon serves without reconciling.
ServeUnreconciled ==
    /\ daemon = "starting" /\ daemon' = "up" /\ todo' = {}
    /\ UNCHANGED <<world, store, call, lease, quiet, count, past>>
reconcile_pending_on_startup ==
    /\ daemon = "starting" /\ Step(Boot, "idle")
    /\ \/ /\ \E a \in todo : call' = [call EXCEPT ![Boot] =
                                [@ EXCEPT !.pc = "reconcile", !.a = a, !.cur = app[a]]]
          /\ UNCHANGED daemon
       \/ /\ todo = {} /\ call' = [call EXCEPT ![Boot] = Idle]
          /\ daemon' = IF call[Boot].ex = "error" THEN "down" ELSE "up"
    /\ UNCHANGED <<world, store, todo, lease, quiet, count, past>>

Call(c) ==
    handle(c) \/ replay_outcome(c) \/ Lease(c) \/ PrepareBegin(c) \/ prepare_patch(c)
    \/ Admit(c) \/ Recheck(c) \/ Feed(c) \/ Wait(c) \/ PostBegin(c) \/ capture_post_snapshot(c)
    \/ verify_patch_outcome(c) \/ persist_terminal_evidence(c) \/ Reconcile(c) \/ Deliver(c)
    \/ Settle(c)
\* Everything but the death and the start of the daemon (Recovery.tla).
Own ==
    \/ \E c \in Callers \union {Boot} : Call(c)
    \/ \E a \in Requests : ChildRuns(a)
    \/ Edit \/ shutdown_and_drain \/ resume

-----------------------------------------------------------------------------
(* Properties.                                                                *)

\* Types, and a settled status rests on both frames and a post snapshot.
TypeOK ==
    /\ \A a \in Requests : app[a].st \in {"none", "Unknown", "Applied", "Failed"}
    /\ \A a \in Requests : app[a].st \in {"Applied", "Failed"} =>
          app[a].deliv = "Delivered" /\ app[a].post /\ a \in intent
    /\ \A a \in Requests : app[a].post => result[a].post
    /\ \A c \in Callers : lease = c => ~Step(c, "idle")
    /\ daemon \in {"up", "starting", "down"}

\* One request starts at most one mutating child, whatever is repeated, raced or restarted.
SpawnedOnce == \A a \in Requests : past.spawned[a] <= 1

\* Applied is said only of a patch the child wrote, Failed only of one that left the file
\* alone, or whose damage an editor undid.
StatusTruthful ==
    \A a \in Requests : /\ app[a].st = "Applied" => a \in past.wrote /\ child[a] = "ok"
                        /\ app[a].st = "Failed" => a \notin past.wrote \/ count.edit > 0

\* The file is written only after the intent is durable, unless the daemon was killed
\* between feeding the child and capturing the intent.
IntentBeforeWrite == past.wrote \subseteq intent \union past.orphan

\* Two children never work on the worktree at once, and none is left when the daemon has
\* drained its actions, except for children a killed daemon left behind.
Working == {a \in Requests : child[a] \in {"fed", "eof"}} \ past.orphan
ExclusiveChild == Cardinality(Working) <= 1 /\ (quiet /\ Active = {} => Working = {})

\* What a caller was told of a settled application is durable and stays.
ToldIsDurable ==
    \A t \in past.told : t[2] \in {"Applied", "Failed"} => app[t[1]].st = t[2]

\* A result with a verdict settles its application, unless an error cut the call off.
ResultSettles ==
    \A a \in Requests :
        (result[a].ver # "none" /\ a \in intent)
            ~> (app[a].st \in {"Applied", "Failed"} \/ count.fault > 0)
=============================================================================

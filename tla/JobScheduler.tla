---------------------------- MODULE JobScheduler ----------------------------
(* The background scheduler of the daemon (maintenance.rs): durable jobs with *)
(* generations, attempts and leases, the rounds that create, retire, recover, *)
(* claim and finish them, and what happens to the journal in between.  Every  *)
(* commit of a round is conditional on the frontier of the snapshot it was    *)
(* planned from: `snap` says whether that snapshot is still the journal's.    *)
EXTENDS Naturals, Sequences, FiniteSets, SequencesExt

CONSTANTS Closures, Captures, Usages, Projections, Artifacts, \* targets, by kind of job
          Configs,      \* effective configurations
          Scenarios     \* what may happen: the targets that receive input and
                        \* "reload" (acts), and two bounds, on generations of a
                        \* target (gens) and on races lost, kills, reloads and
                        \* expiries under the owner (left)

VARIABLES jobs,     \* sequence of durable jobs, in the order of their identifiers
          gen,      \* target -> newest generation of its input
          done,     \* target -> generation its committed result was made from
          present,  \* capture artifacts (markers, quarantined files) still on disk
          config,   \* the effective configuration
          sched,    \* the round in progress
          env       \* the scenario, and the faults it has left

vars == <<jobs, gen, done, present, config, sched, env>>

Targets == Closures \union Captures \union Usages \union Projections \union Artifacts

\* A target is of one kind.
TargetsAssumption ==
    /\ IsFiniteSet(Targets)
    /\ Closures \intersect (Captures \union Usages \union Projections \union Artifacts) = {}
    /\ Captures \intersect (Usages \union Projections \union Artifacts) = {}
    /\ Usages \intersect (Projections \union Artifacts) = {}
    /\ Projections \intersect Artifacts = {}
ASSUME TargetsAssumption

ConfigsAssumption == Configs # {}
ASSUME ConfigsAssumption

ScenariosAssumption ==
    Scenarios \subseteq [acts : SUBSET (Targets \union {"reload"}), gens : Nat, left : Nat]
ASSUME ScenariosAssumption

JobStatus == {"Queued", "Leased", "Succeeded", "Failed"}
Reasons == {"none", "Completed", "StaleGeneration", "Unsupported", "SourceUnavailable",
            "IntegrityFailure", "BudgetExhausted", "Revoked"}

Job == [target : Targets, gen : Nat, config : Configs, state : JobStatus,
        attempt : Nat, lease : {"none", "live", "expired"},
        backoff : {"none", "waiting", "due"}, reason : Reasons]

Idle == [pc |-> "idle", config |-> "none", optional |-> FALSE, todo |-> {},
         job |-> 0, snap |-> "none", tries |-> 0, result |-> "none", polled |-> FALSE]

\* Between rounds the scheduler remembers only when it last looked for artifacts.
RoundOver == [Idle EXCEPT !.polled = sched.polled]

NewJob(t, c) == [target |-> t, gen |-> gen[t], config |-> c, state |-> "Queued",
                 attempt |-> 1, lease |-> "none", backoff |-> "none", reason |-> "none"]

JobIds == DOMAIN jobs
Active(j) == jobs[j].state \in {"Queued", "Leased"}
JobsOf(t) == {j \in JobIds : jobs[j].target = t}

\* A terminal (or requeued) successor of a job carries no lease.
Ended(job, state, reason) ==
    [job EXCEPT !.state = state, !.lease = "none", !.backoff = "none", !.reason = reason]

Requeued(job) ==
    [job EXCEPT !.state = "Queued", !.attempt = @ + 1, !.lease = "none",
                !.backoff = "none", !.reason = "none"]

\* jobs with the members of S replaced by f of them, and new ones appended.
Rewritten(S, f(_)) == [j \in JobIds |-> IF j \in S THEN f(jobs[j]) ELSE jobs[j]]
Enqueued(js, new) == js \o SetToSeq(new)

\* Whether every replaced job is a successor the reducer accepts.
Accepted(new) ==
    \A j \in JobIds : new[j] # jobs[j] =>
        /\ new[j].attempt >= jobs[j].attempt
        /\ \/ jobs[j].state = "Queued" /\ new[j].state = "Leased"
           \/ jobs[j].state = "Queued" /\ new[j].state = "Failed"
                /\ new[j].reason \in {"Revoked", "SourceUnavailable", "Unsupported",
                                      "StaleGeneration"}
           \/ jobs[j].state = "Leased"
                /\ \/ new[j].state = "Queued"
                   \/ new[j].state \in {"Succeeded", "Failed"}
                        /\ new[j].attempt = jobs[j].attempt
           \/ jobs[j].state = "Failed" /\ new[j].state = "Queued"
                /\ new[j].attempt > jobs[j].attempt /\ jobs[j].backoff # "waiting"

\* What someone else's commit does to the snapshot of the round.
Staled(s) == [s EXCEPT !.snap = IF @ = "fresh" THEN "stale" ELSE @]

Fault == env.left > 0 /\ env' = [env EXCEPT !.left = @ - 1]

\* The scenario has more input for the target.
Arrives(t) == t \in env.acts /\ gen[t] < env.gens

Init ==
    /\ jobs = <<>>
    /\ gen = [t \in Targets |-> 0]
    /\ done = [t \in Targets |-> 0]
    /\ present = {}
    /\ config = CHOOSE c \in Configs : TRUE   \* they are all alike
    /\ sched = Idle
    /\ env \in Scenarios
-----------------------------------------------------------------------------
(* The rest of the daemon.                                                   *)

\* A support changes: its validation is pending under the next generation and
\* the job that closes it is part of the same command.
SupportChanges(t) ==
    /\ t \in Closures /\ Arrives(t)
    /\ gen' = [gen EXCEPT ![t] = @ + 1]
    /\ jobs' = Append(jobs, [NewJob(t, config) EXCEPT !.gen = gen[t] + 1])
    /\ sched' = Staled(sched)
    /\ UNCHANGED <<done, present, config, env>>

\* Evidence arrives: an observation, a usage or the objects are dirty again.
EvidenceArrives(t) ==
    /\ t \in Captures \union Usages \union Projections \union Artifacts
    /\ Arrives(t)
    /\ gen' = [gen EXCEPT ![t] = @ + 1]
    /\ sched' = Staled(sched)
    /\ UNCHANGED <<jobs, done, present, config, env>>

\* A marker or a quarantined file appears, for the first time or again under
\* an identity (device, inode, length) that was used before.
ArtifactAppears(t) ==
    /\ t \in (Artifacts \intersect env.acts) \ present
    /\ present' = present \union {t}
    /\ IF JobsOf(t) = {} THEN UNCHANGED env ELSE Fault
    /\ UNCHANGED <<jobs, gen, done, config, sched>>

\* The confirming command of a repository purge revokes the active jobs of the
\* repository's observations; their work is gone with it.
PurgeRevokes(t) ==
    LET Revoked(job) == Ended(job, "Failed", "Revoked")
        S == {j \in JobsOf(t) : Active(j)} IN
    /\ t \in Captures /\ S # {} /\ Fault
    /\ jobs' = Rewritten(S, Revoked)
    /\ done' = [done EXCEPT ![t] = gen[t]]
    /\ sched' = Staled(sched)
    /\ UNCHANGED <<gen, present, config>>

ConfigReloads ==
    /\ "reload" \in env.acts /\ Fault
    /\ config' \in Configs \ {config}
    /\ sched' = Staled(sched)
    /\ UNCHANGED <<jobs, gen, done, present>>

\* The clock: a lease runs out, freely when nobody works on the job.
LeaseExpires(j) ==
    /\ jobs[j].state = "Leased" /\ jobs[j].lease = "live"
    /\ IF sched.job = j THEN Fault ELSE UNCHANGED env
    /\ jobs' = [jobs EXCEPT ![j].lease = "expired"]
    /\ UNCHANGED <<gen, done, present, config, sched>>

\* Thirty seconds after the last look at the artifacts on disk.
PollDue ==
    /\ sched.polled
    /\ sched' = [sched EXCEPT !.polled = FALSE]
    /\ UNCHANGED <<jobs, gen, done, present, config, env>>

BackoffPasses(j) ==
    /\ jobs[j].backoff = "waiting"
    /\ jobs' = [jobs EXCEPT ![j].backoff = "due"]
    /\ UNCHANGED <<gen, done, present, config, sched, env>>

\* The daemon is killed; or its scheduler failed, which ends the daemon.
Kill ==
    /\ sched.pc \notin {"idle", "failed"} /\ Fault
    /\ sched' = Idle
    /\ UNCHANGED <<jobs, gen, done, present, config>>

Restart ==
    /\ sched.pc = "failed"
    /\ sched' = Idle
    /\ UNCHANGED <<jobs, gen, done, present, config, env>>
-----------------------------------------------------------------------------
(* The stages of a round before selection.                                   *)

\* On to the next stage; after a commit of its own the round projects again.
Advanced(pc, snap) ==
    [sched EXCEPT !.pc = pc, !.snap = snap,
                  !.polled = @ \/ (sched.pc = "seed" /\ present # {})]

Fails(why) == sched' = [Idle EXCEPT !.pc = "failed", !.result = why]

\* A conditional commit of job successors: refused by the reducer, it ends the
\* scheduler; with a stale frontier it does nothing (see Stage).
CommitJobs(new, old, pc) ==
    IF Accepted(old)
    THEN jobs' = Enqueued(old, new) /\ sched' = Advanced(pc, "none")
    ELSE UNCHANGED jobs /\ Fails("refused")

\* A stage that plans `old` (successors) and `new` (jobs) from its snapshot.
Stage(pc, next, old, new) ==
    /\ sched.pc = pc /\ sched.snap # "none"
    /\ IF sched.snap = "fresh" /\ (new # {} \/ old # jobs)
       THEN CommitJobs(new, old, next)
       ELSE sched' = Advanced(next, sched.snap) /\ UNCHANGED jobs
    /\ UNCHANGED <<gen, done, present, config, env>>

\* run_once: the round owns the configuration it starts with; the optional
\* lanes are paused while the spool is not in its normal state.
RoundStarts(optional) ==
    /\ sched.pc = "idle"
    /\ sched' = [RoundOver EXCEPT !.pc = "recover", !.config = config, !.optional = optional]
    /\ UNCHANGED <<jobs, gen, done, present, config, env>>

\* Projects the current objects for the next stage.
Project ==
    /\ sched.pc \in {"recover", "seed", "retire", "usages", "projections", "captures", "select"}
    /\ sched.snap = "none"
    /\ sched' = [sched EXCEPT !.snap = "fresh"]
    /\ UNCHANGED <<jobs, gen, done, present, config, env>>

\* Losing the race in these two stages ends the round.
RoundEndsStale ==
    /\ sched.pc \in {"recover", "retire"} /\ sched.snap = "stale"
    /\ sched' = RoundOver
    /\ UNCHANGED <<jobs, gen, done, present, config, env>>

\* Mutant of ExpiredLeases.
ExpiredLeasesNone == {}
ExpiredLeases == {j \in JobIds : jobs[j].state = "Leased" /\ jobs[j].lease = "expired"}
RecoverLeases == Stage("recover", "seed", Rewritten(ExpiredLeases, Requeued), {})

\* Jobs whose configuration is the round's and whose watermark is the source's.
ArtifactMatches(j, t) == jobs[j].gen = gen[t] /\ jobs[j].config = sched.config

\* The prior job of an artifact: a matching one if there is one, else the newest.
PriorArtifactJob(t) ==
    LET matching == {j \in JobsOf(t) : ArtifactMatches(j, t)}
        S == IF matching # {} THEN matching ELSE JobsOf(t) IN
    CHOOSE j \in S : \A k \in S : k <= j

ArtifactRetries(j) ==
    \/ jobs[j].state = "Succeeded"
    \/ jobs[j].state = "Failed" /\ (jobs[j].reason = "Unsupported" \/ jobs[j].backoff = "due")

SeedCaptureArtifacts ==
    LET seen == IF sched.polled THEN {} ELSE present
        prior == {PriorArtifactJob(t) : t \in {u \in seen : JobsOf(u) # {}}}
        retried == {j \in prior : /\ ArtifactMatches(j, jobs[j].target)
                                  /\ ~Active(j) /\ ArtifactRetries(j)}
        fresh == {t \in seen : JobsOf(t) = {} \/
                    LET j == PriorArtifactJob(t) IN ~ArtifactMatches(j, t) /\ ~Active(j)}
    IN Stage("seed", "retire", Rewritten(retried, Requeued),
             {NewJob(t, sched.config) : t \in fresh})

\* Queued procedure jobs of another configuration are retired.
RetireIncompatible ==
    LET S == {j \in JobIds : /\ jobs[j].target \in Usages /\ jobs[j].state = "Queued"
                             /\ jobs[j].config # sched.config}
        Unsupported(job) == Ended(job, "Failed", "Unsupported")
    IN Stage("retire", "usages", Rewritten(S, Unsupported), {})

EnqueueProcedureConsumers ==
    LET Wanted == {t \in Usages :
            /\ sched.optional /\ done[t] < gen[t]
            /\ \A j \in JobsOf(t) : ~Active(j)
            /\ \A j \in JobsOf(t) : ~(jobs[j].config = sched.config /\ jobs[j].gen >= gen[t])}
    IN Stage("usages", "projections", jobs, {NewJob(t, sched.config) : t \in Wanted})

EnqueueProjections ==
    LET Wanted == {t \in Projections :
            gen[t] > 0 /\ \A j \in JobsOf(t) : jobs[j].gen # gen[t]}
    IN Stage("projections", "captures", jobs, {NewJob(t, sched.config) : t \in Wanted})

\* An observation with work left: other active tuples are retired, and a job is
\* created unless some job, whatever became of it, has this very tuple.
CaptureMatches(j, t) == jobs[j].gen = gen[t] /\ jobs[j].config = sched.config
\* Mutant of CaptureTargetCovered.
CaptureTargetCoveredEnded(t) == \E j \in JobsOf(t) : CaptureMatches(j, t) /\ ~Active(j)
CaptureTargetCovered(t) == \E j \in JobsOf(t) : CaptureMatches(j, t)

EnqueueCaptures ==
    LET Pending == {t \in Captures : done[t] < gen[t]}
        Retired == {j \in JobIds : /\ jobs[j].target \in Pending /\ Active(j)
                                   /\ ~CaptureMatches(j, jobs[j].target)}
        Retire(job) == Ended(job, "Failed", IF job.gen = gen[job.target]
                                            THEN "Unsupported" ELSE "StaleGeneration")
    IN Stage("captures", "select", Rewritten(Retired, Retire),
             {NewJob(t, sched.config) : t \in {u \in Pending : ~CaptureTargetCovered(u)}})
-----------------------------------------------------------------------------
(* Selection and claims.                                                     *)

Lane(j) == IF jobs[j].target \in Closures \union Captures \union Artifacts THEN 0 ELSE 1

\* Two queued jobs of one kind, key and generation: selection takes that for a
\* corrupt store.  The key of a closure job names its generation.
SameSlot(i, j) == jobs[i].target = jobs[j].target /\ jobs[i].gen = jobs[j].gen
QueuedTwice ==
    \E i, j \in JobIds : i # j /\ jobs[i].state = "Queued" /\ jobs[j].state = "Queued"
                              /\ SameSlot(i, j)

Superseded(j) ==
    jobs[j].target \notin Closures /\ \E k \in JobsOf(jobs[j].target) :
        jobs[k].state = "Queued" /\ jobs[k].gen > jobs[j].gen

\* Mutant of Selectable.
SelectableNew(j) == jobs[j].state = "Queued" /\ jobs[j].attempt = 1
Selectable(j) ==
    /\ jobs[j].state = "Queued" /\ ~Superseded(j)
    /\ sched.optional \/ Lane(j) = 0 \/ jobs[j].target \in Projections

\* The selected job whose turn it is: the critical lane first, then by age.
Foremost(j) ==
    j \in sched.todo /\ \A k \in sched.todo :
        Lane(j) < Lane(k) \/ (Lane(j) = Lane(k) /\ j <= k)

\* From a snapshot that is no longer current any job it held may be selected.
SelectJobs ==
    /\ sched.pc = "select" /\ sched.snap # "none"
    /\ IF sched.snap = "fresh" /\ QueuedTwice
       THEN Fails("duplicate")
       ELSE \E S \in SUBSET JobIds :
            /\ sched.snap = "fresh" => S = {j \in JobIds : Selectable(j)}
            /\ sched' = [sched EXCEPT !.pc = "run", !.todo = S, !.snap = "none"]
    /\ UNCHANGED <<jobs, gen, done, present, config, env>>

RoundEnds ==
    /\ sched.pc = "run" /\ sched.todo = {}
    /\ sched' = RoundOver
    /\ UNCHANGED <<jobs, gen, done, present, config, env>>

\* On with the next selected job.
NextJob == [sched EXCEPT !.pc = "run", !.job = 0, !.snap = "none", !.tries = 0,
                         !.result = "none"]
Passed(j) == [sched EXCEPT !.todo = @ \ {j}]

TargetCurrent(j) ==
    LET t == jobs[j].target IN
    CASE t \in Closures \union Projections -> jobs[j].gen = gen[t]
      [] t \in Captures -> jobs[j].config = sched.config /\ jobs[j].gen = gen[t]
      [] OTHER -> jobs[j].config = sched.config

Claimable(j) == config = sched.config /\ jobs[j].state = "Queued"

\* The configuration moved, the job is no longer queued, its manifest is
\* missing or the race is lost: nothing is claimed.
ClaimSkips ==
    /\ sched.pc = "run"
    /\ \E j \in sched.todo :
       /\ Foremost(j)
       /\ IF Claimable(j) THEN Fault ELSE UNCHANGED env
       /\ sched' = Passed(j)
    /\ UNCHANGED <<jobs, gen, done, present, config>>

ClaimFindsStale ==
    /\ sched.pc = "run"
    /\ \E j \in sched.todo :
       /\ Foremost(j) /\ Claimable(j) /\ ~TargetCurrent(j)
       /\ jobs' = [jobs EXCEPT ![j] = Ended(@, "Failed", "StaleGeneration")]
       /\ sched' = Passed(j)
    /\ UNCHANGED <<gen, done, present, config, env>>

ClaimJob ==
    /\ sched.pc = "run"
    /\ \E j \in sched.todo :
       /\ Foremost(j) /\ Claimable(j) /\ TargetCurrent(j)
       /\ jobs' = [jobs EXCEPT ![j] = [jobs[j] EXCEPT !.state = "Leased", !.attempt = @ + 1,
                                                   !.lease = "live"]]
       /\ sched' = [Passed(j) EXCEPT !.pc = "exec", !.job = j]
    /\ UNCHANGED <<gen, done, present, config, env>>

\* The claim is projected again; a job that is not leased any more is fatal.
ReadClaim ==
    /\ sched.pc \in {"exec", "settle"} /\ sched.snap = "none"
    /\ IF jobs[sched.job].state = "Leased"
       THEN sched' = [sched EXCEPT !.snap = "fresh"] ELSE Fails("lost")
    /\ UNCHANGED <<jobs, gen, done, present, config, env>>
-----------------------------------------------------------------------------
(* Execution.                                                                *)

ClaimedTarget == jobs[sched.job].target
Executing(S) ==
    /\ sched.pc = "exec" /\ sched.snap # "none" /\ sched.result = "none"
    /\ ClaimedTarget \in S

\* Mutant of Finish.
FinishAlways(state, reason) ==
    /\ jobs' = [jobs EXCEPT ![sched.job] = Ended(@, state, reason)]
    /\ sched' = NextJob

\* The conditional commit of a result: with a stale frontier it is dropped and
\* the job stays leased until the lease runs out.
Finish(state, reason) ==
    /\ jobs' = IF sched.snap = "fresh"
               THEN [jobs EXCEPT ![sched.job] = Ended(@, state, reason)] ELSE jobs
    /\ sched' = NextJob

\* The validation and the end of the job are one command, made for the
\* generation the claim's snapshot shows.
ResultApplies == sched.snap = "fresh" /\ jobs[sched.job].gen = gen[ClaimedTarget]

RunSupportClosure ==
    /\ Executing(Closures)
    /\ IF ResultApplies
       THEN done' = [done EXCEPT ![ClaimedTarget] = jobs[sched.job].gen]
            /\ Finish("Succeeded", "Completed")
       ELSE UNCHANGED done /\ Finish("Failed", "StaleGeneration")
    /\ UNCHANGED <<gen, present, config, env>>

RunProjection ==
    /\ Executing(Projections)
    /\ done' = IF sched.snap = "fresh"
               THEN [done EXCEPT ![ClaimedTarget] = jobs[sched.job].gen] ELSE done
    /\ Finish("Succeeded", "Completed")
    /\ UNCHANGED <<gen, present, config, env>>

\* A retained target without work left, or with newer work than the job's.
RunCaptureWithoutItem ==
    /\ Executing(Captures)
    /\ \/ done[ClaimedTarget] = gen[ClaimedTarget] /\ Finish("Succeeded", "Completed")
       \/ /\ done[ClaimedTarget] < gen[ClaimedTarget]
          /\ jobs[sched.job].gen # gen[ClaimedTarget]
          /\ Finish("Failed", "StaleGeneration")
    /\ UNCHANGED <<gen, done, present, config, env>>

\* Reconciliation reads and commits on its own; it may also lose its race, find
\* that the source is not complete or fail.
ReconcileObservation ==
    LET t == ClaimedTarget
        settling == [sched EXCEPT !.pc = "settle", !.snap = "none"] IN
    /\ Executing(Captures)
    /\ done[t] < gen[t] /\ jobs[sched.job].gen = gen[t]
    /\ \/ /\ done' = [done EXCEPT ![t] = gen[t]]
          /\ sched' = [settling EXCEPT !.result = "ok"] /\ UNCHANGED env
       \/ /\ Fault /\ UNCHANGED done
          /\ \E r \in {"ok", "stale", "error"} : sched' = [settling EXCEPT !.result = r]
    /\ UNCHANGED <<jobs, gen, present, config>>

\* Afterwards the job ends by what is left of the target's work.
CaptureReason ==
    CASE sched.result = "ok" -> "SourceUnavailable"
      [] sched.result = "stale" -> "StaleGeneration"
      [] OTHER -> "IntegrityFailure"

SettleCapture ==
    /\ sched.pc = "settle" /\ sched.snap # "none" /\ ClaimedTarget \in Captures
    /\ IF done[ClaimedTarget] = gen[ClaimedTarget]
       THEN Finish("Succeeded", "Completed")
       ELSE Finish("Failed", CaptureReason)
    /\ UNCHANGED <<gen, done, present, config, env>>

\* An artifact is propagated and removed; or kept, for want of its manifest; or
\* its lock is busy or its race lost, which is tried again after a pause.
RunCaptureArtifact ==
    /\ Executing(Artifacts)
    /\ \/ /\ jobs[sched.job].gen # gen[ClaimedTarget]
          /\ Finish("Failed", "StaleGeneration") /\ UNCHANGED <<present, env>>
       \/ /\ jobs[sched.job].gen = gen[ClaimedTarget]
          /\ \/ /\ present' = present \ {ClaimedTarget} /\ UNCHANGED env
                /\ sched' = [sched EXCEPT !.pc = "settle", !.snap = "none", !.result = "ok"]
             \/ /\ Fault /\ UNCHANGED present
                /\ \E r \in {"Unsupported", "SourceUnavailable", "StaleGeneration"} :
                    sched' = [sched EXCEPT !.pc = "settle", !.snap = "none", !.result = r]
          /\ UNCHANGED jobs
    /\ UNCHANGED <<gen, done, config>>

SettleArtifact ==
    /\ sched.pc = "settle" /\ sched.snap # "none" /\ ClaimedTarget \in Artifacts
    /\ LET kept == sched.result # "ok"
           ended == Ended(jobs[sched.job], IF kept THEN "Failed" ELSE "Succeeded",
                          IF kept THEN sched.result ELSE "Completed")
           paused == [ended EXCEPT !.backoff =
                        IF sched.result \in {"SourceUnavailable", "StaleGeneration"}
                        THEN "waiting" ELSE "none"]
       IN jobs' = IF sched.snap = "fresh" THEN [jobs EXCEPT ![sched.job] = paused] ELSE jobs
    /\ sched' = NextJob
    /\ UNCHANGED <<gen, done, present, config, env>>

\* Mutant of LeasePast.
LeasePastNever == FALSE
\* Mutant of RetriesLeft.
RetriesLeftFour == sched.tries < 3
RetriesLeft == sched.tries < 2

\* A usage is recomputed from fresh evidence up to three times; the result and
\* the end of the job are one command, sent only under the lease.
LeasePast == jobs[sched.job].lease = "expired"
RunProcedureConsumer ==
    /\ Executing(Usages)
    /\ IF sched.snap = "stale"
       THEN /\ UNCHANGED <<jobs, done, env>>
            /\ sched' = IF RetriesLeft THEN [sched EXCEPT !.tries = @ + 1, !.snap = "none"]
                        ELSE NextJob
       ELSE IF LeasePast
       THEN sched' = NextJob /\ UNCHANGED <<jobs, done, env>>
       ELSE \/ /\ done' = [done EXCEPT ![ClaimedTarget] = gen[ClaimedTarget]]
               /\ Finish("Succeeded", "Completed") /\ UNCHANGED env
            \/ Finish("Failed", "BudgetExhausted") /\ Fault /\ UNCHANGED done
    /\ UNCHANGED <<gen, present, config>>
-----------------------------------------------------------------------------
Environment ==
    \/ \E t \in Targets : SupportChanges(t) \/ EvidenceArrives(t) \/ PurgeRevokes(t)
    \/ \E t \in Artifacts : ArtifactAppears(t)
    \/ ConfigReloads
    \/ Kill

SomeLeaseExpires == \E j \in JobIds : LeaseExpires(j)
SomeBackoffPasses == \E j \in JobIds : BackoffPasses(j)
Clock == PollDue \/ SomeLeaseExpires \/ SomeBackoffPasses

Stages == \/ Project \/ RoundEndsStale \/ RecoverLeases \/ SeedCaptureArtifacts
          \/ RetireIncompatible \/ EnqueueProcedureConsumers \/ EnqueueProjections
          \/ EnqueueCaptures \/ SelectJobs

Lanes == \/ ClaimFindsStale \/ ClaimJob \/ ReadClaim
         \/ RunSupportClosure \/ RunProjection \/ RunCaptureWithoutItem
         \/ ReconcileObservation \/ SettleCapture \/ RunCaptureArtifact
         \/ SettleArtifact \/ RunProcedureConsumer

Next ==
    \/ Environment \/ Clock \/ Restart
    \/ \E o \in BOOLEAN : RoundStarts(o)
    \/ Stages \/ ClaimSkips \/ RoundEnds \/ Lanes

\* The scheduler's task is polled, a failed daemon is started again, the clock
\* advances, and the spool comes back to normal again and again.
Fairness ==
    /\ WF_vars(Stages) /\ WF_vars(Lanes) /\ WF_vars(RoundEnds) /\ WF_vars(Restart)
    /\ WF_vars(ClaimSkips)
    /\ WF_vars(PollDue) /\ WF_vars(SomeLeaseExpires) /\ WF_vars(SomeBackoffPasses)
    /\ SF_vars(RoundStarts(TRUE)) /\ WF_vars(\E o \in BOOLEAN : RoundStarts(o))

Spec == Init /\ [][Next]_vars
FairSpec == Spec /\ Fairness
-----------------------------------------------------------------------------
TypeOK ==
    /\ jobs \in Seq(Job)
    /\ gen \in [Targets -> Nat] /\ done \in [Targets -> Nat]
    /\ present \subseteq Artifacts /\ config \in Configs
    /\ sched.todo \subseteq JobIds /\ sched.job \in 0..Len(jobs)
    /\ sched.snap \in {"none", "fresh", "stale"} /\ sched.tries \in 0..2
    /\ env.left \in Nat

\* Selection takes two queued jobs of one kind, key and generation for a corrupt store, which
\* ends the daemon.  Only one way leads there: an artifact got the younger job under another
\* configuration when the older had failed, and the older was queued again when its own
\* configuration came back (see README, capture_recovery.rs).
QueuedOnce ==
    \A i, j \in JobIds :
        i < j /\ jobs[i].state = "Queued" /\ jobs[j].state = "Queued" /\ SameSlot(i, j) =>
            /\ jobs[i].target \in Artifacts
            /\ jobs[i].config # jobs[j].config /\ jobs[i].attempt > 1

\* Results are applied by their job: the command that moves the result of a
\* support closure, a usage or a projection also ends a job of that target that
\* was leased, a closure is validated only under its current generation and a
\* usage only while the lease runs.
OwnsResults ==
    \A t \in Closures \union Usages \union Projections : done'[t] # done[t] =>
        \E j \in JobsOf(t) : /\ jobs[j].state = "Leased" /\ jobs'[j].state = "Succeeded"
                             /\ t \in Closures => jobs[j].gen = gen[t]
                             /\ t \in Usages => jobs[j].lease = "live"

\* The end of a job is final: only a failed capture artifact is ever queued again.
KeepsEnds ==
    \A j \in JobIds : jobs[j].state \in {"Succeeded", "Failed"} =>
        \/ jobs'[j].state = jobs[j].state /\ jobs'[j].reason = jobs[j].reason
        \/ jobs[j].target \in Artifacts /\ jobs[j].state = "Failed"

\* Every support that changed is validated again, through lost races, kills,
\* expired leases and newer generations.
ClosuresSettle == \A t \in Closures : []<>(done[t] = gen[t])

\* Every job comes to an end, whatever happens to the round that claimed it.
JobsEnd == \A t \in Targets : []<>(\A j \in JobsOf(t) : ~Active(j))

\* Well-formed jobs, and none that would end every later round (maintenance.rs).
SchedulerInv == TypeOK /\ QueuedOnce

\* A result is applied under the lease it was made for, and an ended job stays as it ended
\* (maintenance.rs).
ResultsHonest == [][OwnsResults /\ KeepsEnds]_vars

\* No round gets past its stages any more: a slot is queued twice, or an artifact is back
\* whose job has succeeded and would have to be queued again (capture_recovery.rs).
Blocked ==
    \/ QueuedTwice
    \/ \E t \in present : \E j \in JobsOf(t) :
          jobs[j].state = "Succeeded" /\ jobs[j].gen = gen[t] /\ jobs[j].config = config

\* Supports are closed for their newest generation in the end, and every job ends, unless
\* artifacts and reloads have blocked the rounds for good (maintenance.rs).
WorkSettles == <>[]Blocked \/ (ClosuresSettle /\ JobsEnd)
=============================================================================

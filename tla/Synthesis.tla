----------------------------- MODULE Synthesis -----------------------------
(* The language-model jobs: which archived messages and which episode are     *)
(* summarised, when a job is queued, retried, deferred or given up, what a    *)
(* call is charged to, and what is rechecked around the wait for the provider *)
(* (engine/jobs/synthesis.rs, jobs/synthesis/source.rs, maintenance.rs,       *)
(* store/projections/synthesis.rs).  One source, its messages numbered in     *)
(* order, and one episode; idle delays are over, texts are left out.          *)
EXTENDS Integers, Sequences, FiniteSets, FiniteSetsExt, Functions

CONSTANTS Configs,  \* effective configurations
          Scenes    \* what may happen, and the bounds: see scene

ASSUME ScenesAssumption ==
    Scenes \subseteq [acts : SUBSET STRING, configs : SUBSET Configs, messages : Nat, growth : Nat,
                      segment : Nat \ {0}, calls : Nat, enrichments : Nat, left : Nat]

VARIABLES src,     \* [len, gone, permit]: messages, suppressed ones, permission
          epi,     \* [rev, sem, upto, closed]: the current revision of the episode
          jobs,    \* the durable jobs, in order of creation
          runs,    \* the recorded derivation runs
          charged,   \* per job: provider calls charged to today, and in all
          work,       \* the scheduler's position in a synthesis job
          config,
          scene      \* the scenario: acts (parts of the environment that act), configs
                   \* (effective configurations), messages and growth (bounds of the
                   \* source and of the episode's evidence), segment (messages of one
                   \* interval, the code's 64), calls (daily_call_budget), enrichments
                   \* (max_episode_enrichments), left (failures, kills, time limits and
                   \* flips still to come)

synthesisVars == <<src, epi, jobs, runs, charged, work, config, scene>>
durable == <<jobs, runs>>

Fault == scene.left > 0 /\ scene' = [scene EXCEPT !.left = @ - 1]
Acts(name) == name \in scene.acts

Active(j) == j.state \in {"Queued", "Leased"}
Interval(x) == x.first..x.last
Fingerprint(x) == <<x.kind, x.rev, x.first, x.last, x.config>>

NewJob(kind, rev, first, last) ==
    [kind |-> kind, rev |-> rev, first |-> first, last |-> last, config |-> config,
     state |-> "Queued", attempt |-> 1, backoff |-> "none", lease |-> "none",
     result |-> 0, claims |-> 0]

AtRest == [pc |-> "idle", j |-> 0, moved |-> FALSE, out |-> "none", calls |-> 0]
Continues(pc) == work' = [work EXCEPT !.pc = pc]
\* A commit of someone else moves the frontier under a job in progress.
Moves == work' = [work EXCEPT !.moved = TRUE]

SynthesisInit ==
    /\ src = [len |-> 0, gone |-> {}, permit |-> TRUE]
    /\ epi = [rev |-> 1, sem |-> 0, upto |-> 0, closed |-> FALSE]
    /\ jobs = <<>> /\ runs = <<>> /\ charged = <<>>
    /\ work = AtRest
    /\ scene \in Scenes
    /\ config \in scene.configs
-----------------------------------------------------------------------------
(* The rest of the system.                                                   *)

MessageArrives ==
    /\ Acts("messages") /\ src.len < scene.messages
    /\ src' = [src EXCEPT !.len = @ + 1]
    /\ Moves
    /\ UNCHANGED <<epi, durable, charged, config, scene>>

MessageSuppressed ==
    /\ Acts("suppress") /\ Fault
    /\ \E m \in 1..src.len \ src.gone : src' = [src EXCEPT !.gone = @ \union {m}]
    /\ Moves
    /\ UNCHANGED <<epi, durable, charged, config>>

PermissionFlips ==
    /\ Acts("permit") /\ Fault
    /\ src' = [src EXCEPT !.permit = ~@]
    /\ UNCHANGED <<epi, durable, charged, work, config>>

EpisodeGrows ==
    /\ Acts("episode") /\ epi.upto < scene.growth /\ ~epi.closed
    /\ \E close \in BOOLEAN :
         epi' = [epi EXCEPT !.upto = @ + 1, !.rev = @ + 1, !.closed = close]
    /\ Moves
    /\ UNCHANGED <<src, durable, charged, config, scene>>

\* Midnight: what was claimed, charged or run before belongs to another day.
NewDay ==
    /\ jobs' = [j \in DOMAIN jobs |->
                  [jobs[j] EXCEPT !.claims = 0,
                                  !.backoff = IF @ = "day" THEN "none" ELSE @]]
    /\ runs' = [r \in DOMAIN runs |-> [runs[r] EXCEPT !.today = FALSE]]
    /\ charged' = [j \in DOMAIN charged |-> [charged[j] EXCEPT !.today = 0]]
    /\ UNCHANGED <<src, epi, work, config, scene>>

BackoffPasses ==
    /\ \E j \in DOMAIN jobs : jobs[j].backoff = "delay"
    /\ jobs' = [j \in DOMAIN jobs |->
                  [jobs[j] EXCEPT !.backoff = IF @ = "delay" THEN "none" ELSE @]]
    /\ UNCHANGED <<src, epi, runs, charged, work, config, scene>>

LeaseExpires ==
    /\ \E j \in DOMAIN jobs :
         /\ jobs[j].lease = "live" /\ (work.pc # "idle" => work.j # j)
         /\ jobs' = [jobs EXCEPT ![j].lease = "expired"]
    /\ UNCHANGED <<src, epi, runs, charged, work, config, scene>>

\* A kill of the daemon, or the execution's own time limit: the job stays leased.
Interrupted ==
    /\ work.pc # "idle" /\ Fault
    /\ work' = AtRest
    /\ UNCHANGED <<src, epi, durable, charged, config>>

ConfigReloads ==
    /\ work.pc = "idle" /\ Fault
    /\ \E c \in scene.configs \ {config} : config' = c
    /\ UNCHANGED <<src, epi, durable, charged, work>>
-----------------------------------------------------------------------------
(* What is charged to today (DailyLlmUsage): the calls of recorded runs, and  *)
(* for every job the claims no run has replaced, at least one while leased.   *)

\* Mutant: only what a run recorded counts.
RecordedUsage ==
    FoldFunction(LAMBDA r, n : n + IF r.today THEN r.calls ELSE 0, 0, runs)

llm_daily_usage ==
    FoldFunction(LAMBDA r, n : n + IF r.today THEN r.calls ELSE 0, 0, runs)
    + FoldFunction(LAMBDA j, n : n + Max({j.claims, IF j.state = "Leased" THEN 1 ELSE 0}),
                   0, jobs)

\* Mutant: what another configuration summarised is not covered.
SucceededHere(kind) ==
    {r \in DOMAIN runs : runs[r].kind = kind /\ runs[r].status = "Succeeded"
                            /\ runs[r].config = config}
Succeeded(kind) == {r \in DOMAIN runs : runs[r].kind = kind /\ runs[r].status = "Succeeded"}
SucceededOver(x) ==
    \E r \in Succeeded("source") : Interval(runs[r]) \cap Interval(x) # {}

Allowed == src.permit
TargetCurrent(j) ==
    IF jobs[j].kind = "source" THEN Interval(jobs[j]) \cap src.gone = {}
    ELSE jobs[j].rev = epi.rev /\ epi.sem < epi.upto
-----------------------------------------------------------------------------
(* A scheduler round outside a synthesis job.                                 *)

\* Mutant: the lease of an ended job is kept.
EndedLeased(j) == [jobs[j] EXCEPT !.state = "Failed", !.result = 0]
Ended(j) == [jobs[j] EXCEPT !.state = "Failed", !.lease = "none", !.result = 0]
\* Mutant: a stale job is passed over.
PassOver(j) == UNCHANGED jobs
FailStale(j) == jobs' = [jobs EXCEPT ![j] = Ended(j)]

\* Mutant: recovery forgets that an attempt was made.
RecoverFreely ==
    /\ work.pc = "idle"
    /\ \E j \in DOMAIN jobs :
         /\ jobs[j].lease = "expired"
         /\ jobs' = [jobs EXCEPT ![j].state = "Queued", ![j].lease = "none",
                                 ![j].attempt = @ - 1, ![j].backoff = "none"]
    /\ UNCHANGED <<src, epi, runs, charged, work, config, scene>>

RecoverLease ==
    /\ work.pc = "idle"
    /\ \E j \in DOMAIN jobs :
         /\ jobs[j].lease = "expired"
         /\ jobs' = [jobs EXCEPT ![j].state = "Queued", ![j].lease = "none",
                                 ![j].attempt = @ + 1, ![j].backoff = "none"]
    /\ UNCHANGED <<src, epi, runs, charged, work, config, scene>>

\* Active jobs of another configuration are ended.
RetireIncompatible ==
    /\ work.pc = "idle"
    /\ \E j \in DOMAIN jobs :
         /\ Active(jobs[j]) /\ jobs[j].config # config
         /\ jobs' = [jobs EXCEPT ![j] = Ended(j)]
    /\ UNCHANGED <<src, epi, runs, charged, work, config, scene>>

\* Mutant: a round goes on without having ended those jobs.
CompatibleOrNot == TRUE
\* A round looks for work only after it has ended those jobs.
Compatible == \A j \in DOMAIN jobs : Active(jobs[j]) => jobs[j].config = config

\* Jobs whose interval no fresh job may touch; a failed one that can no longer
\* be retried whole gives its messages back.
Reserving(j) ==
    /\ jobs[j].kind = "source"
    /\ Active(jobs[j]) \/ (jobs[j].state = "Failed" /\ jobs[j].config = config
                            /\ Interval(jobs[j]) \cap src.gone = {})

\* Mutant: only jobs reserve messages.
ReservedByJobs(m) == \E j \in DOMAIN jobs : Reserving(j) /\ m \in Interval(jobs[j])
Taken(m) ==
    \/ \E r \in Succeeded("source") : m \in Interval(runs[r])
    \/ \E j \in DOMAIN jobs : Reserving(j) /\ m \in Interval(jobs[j])
Blocked(m) == m \in src.gone \/ Taken(m)

\* The first free messages in a row, at most a segment of them.
next_segment(first, last) ==
    /\ first <= last /\ last < first + scene.segment
    /\ \A m \in first..last : ~Blocked(m)
    /\ \A m \in 1..(first - 1) : Blocked(m)
    /\ last = src.len \/ last = first + scene.segment - 1 \/ Blocked(last + 1)

Transient(r) ==
    \/ r.status \in {"ProviderUnavailable", "ProviderFailed"}
    \/ r.status = "BudgetExhausted" /\ r.calls > 0

retry_job(j) ==
    LET job == jobs[j]
        run == runs[job.result] IN
    /\ job.state = "Failed" /\ job.result > 0
    /\ run.kind = "source" /\ ~SucceededOver(run)
    /\ run.status \in {"BudgetExhausted", "ProviderUnavailable", "ProviderFailed"}
    /\ Cardinality({r \in DOMAIN runs :
            Fingerprint(runs[r]) = Fingerprint(run) /\ Transient(runs[r])}) < 3

RetrySource ==
    /\ work.pc = "idle" /\ Compatible /\ Allowed
    /\ \E j \in DOMAIN jobs :
         /\ Reserving(j) /\ retry_job(j) /\ jobs[j].backoff = "none"
         /\ jobs' = [jobs EXCEPT ![j].state = "Queued", ![j].attempt = @ + 1, ![j].result = 0]
    /\ UNCHANGED <<src, epi, runs, charged, work, config, scene>>

Enqueues(job) == jobs' = Append(jobs, job) /\ charged' = Append(charged, [today |-> 0, total |-> 0])

EnqueueSource ==
    /\ work.pc = "idle" /\ Compatible /\ Allowed
    /\ \E first, last \in 1..src.len :
          next_segment(first, last) /\ Enqueues(NewJob("source", 0, first, last))
    /\ UNCHANGED <<src, epi, runs, work, config, scene>>

EnqueueEpisode ==
    /\ work.pc = "idle" /\ Compatible /\ epi.sem < epi.upto
    /\ ~ \E j \in DOMAIN jobs :
           jobs[j].kind = "episode" /\ jobs[j].rev = epi.rev /\ jobs[j].config = config
    /\ Enqueues(NewJob("episode", epi.rev, epi.sem + 1, epi.upto))
    /\ UNCHANGED <<src, epi, runs, work, config, scene>>

\* The claim of a queued job: a stale target or six attempts end it, an exhausted
\* day defers it, otherwise it is leased and its call reserved.
Claimable(j) == jobs[j].state = "Queued" /\ jobs[j].config = config /\ jobs[j].backoff = "none"
ClaimJob ==
    /\ work.pc = "idle" /\ Compatible
    /\ \E j \in DOMAIN jobs :
         /\ Claimable(j)
         /\ IF ~TargetCurrent(j) THEN FailStale(j) /\ UNCHANGED work
            ELSE IF jobs[j].attempt >= 6
            THEN jobs' = [jobs EXCEPT ![j] = Ended(j)] /\ UNCHANGED work
            ELSE IF llm_daily_usage + 1 > scene.calls
            THEN jobs' = [jobs EXCEPT ![j].backoff = "day"] /\ UNCHANGED work
            ELSE /\ jobs' = [jobs EXCEPT ![j].state = "Leased", ![j].lease = "live",
                                         ![j].attempt = @ + 1, ![j].claims = @ + 1]
                 /\ work' = [AtRest EXCEPT !.pc = "prepare", !.j = j]
    /\ UNCHANGED <<src, epi, runs, charged, config, scene>>
-----------------------------------------------------------------------------
(* One claimed job (execute_owned_episode_job, execute_source_job).           *)

job == jobs[work.j]
IsSource == job.kind = "source"
Resolves(out, calls) == work' = [work EXCEPT !.pc = "commit", !.out = out, !.calls = calls]

\* Mutant: an open episode may use up the enrichments of a closed one.
EpisodeQuotaClosed ==
    job.kind = "episode" /\ Cardinality(Succeeded("episode")) >= scene.enrichments
EpisodeQuota ==
    /\ job.kind = "episode"
    /\ Cardinality(Succeeded("episode"))
         >= (IF epi.closed THEN scene.enrichments ELSE Max({scene.enrichments - 1, 0}))

\* Permission, coverage and quotas before anything is sent; tokens and time of
\* the day may be used up as well.
Prepare ==
    /\ work.pc = "prepare"
    /\ IF ~Allowed \/ ~TargetCurrent(work.j)
       THEN FailStale(work.j) /\ work' = AtRest /\ UNCHANGED scene
       ELSE /\ UNCHANGED jobs
            /\ \/ /\ IF IsSource /\ SucceededOver(job) THEN Resolves("NoDelta", 0)
                     ELSE IF EpisodeQuota THEN Resolves("BudgetExhausted", 0)
                     ELSE Continues("admit")
                  /\ UNCHANGED scene
               \/ Acts("quota") /\ Fault /\ Resolves("BudgetExhausted", 0)
    /\ UNCHANGED <<src, epi, runs, charged, config>>

\* Mutant: what was checked before the wait for a slot is taken for granted.
AdmitUnchecked ==
    /\ work.pc = "admit"
    /\ Continues("wait")
    /\ charged' = [charged EXCEPT ![work.j].total = @ + 1,
                              ![work.j].today = @ + (IF job.claims > 0 THEN 1 ELSE 0)]
    /\ UNCHANGED <<src, epi, durable, config, scene>>

\* The provider's slot is there: everything is read again before the request is
\* sent.  A call is charged to the day of its claim.
Admit ==
    /\ work.pc = "admit"
    /\ IF Allowed /\ (IF IsSource THEN TargetCurrent(work.j) ELSE ~work.moved)
       THEN /\ Continues("wait")
            /\ charged' = [charged EXCEPT ![work.j].total = @ + 1,
                                      ![work.j].today = @ + (IF job.claims > 0 THEN 1 ELSE 0)]
       ELSE /\ work' = [work EXCEPT !.pc = "finish", !.out = "ProviderUnavailable"]
            /\ UNCHANGED charged
    /\ UNCHANGED <<src, epi, durable, config, scene>>

ProviderAnswers ==
    /\ work.pc = "wait"
    /\ \E out \in {"Succeeded", "SchemaRejected", "ProviderFailed", "BudgetExhausted"} :
         /\ IF out = "Succeeded" THEN UNCHANGED scene ELSE Fault
         /\ work' = [work EXCEPT !.pc = "finish", !.out = out, !.calls = 1]
    /\ UNCHANGED <<src, epi, durable, charged, config>>

\* finish_prepared on fresh facts: the claimed base must still be current.
FinishPrepared ==
    /\ work.pc = "finish"
    /\ IF (IsSource => Allowed) /\ TargetCurrent(work.j)
       THEN Continues("commit") /\ UNCHANGED jobs
       ELSE FailStale(work.j) /\ work' = AtRest
    /\ UNCHANGED <<src, epi, runs, charged, config, scene>>

Run == [kind |-> job.kind, rev |-> job.rev, first |-> job.first, last |-> job.last,
        config |-> job.config, status |-> work.out, calls |-> work.calls, today |-> TRUE]

retry_not_before == IF ~IsSource THEN "none"
                    ELSE IF work.out = "BudgetExhausted" THEN "day"
                    ELSE IF work.out \in {"ProviderUnavailable", "ProviderFailed"} THEN "delay"
                    ELSE "none"

\* Mutant: the semantic watermark of the episode is left alone.
RecordedNoAdvance ==
    /\ runs' = Append(runs, Run)
    /\ jobs' = [jobs EXCEPT ![work.j].state = IF work.out = "Succeeded" THEN "Succeeded" ELSE "Failed",
                            ![work.j].lease = "none", ![work.j].result = Len(runs) + 1]
    /\ epi' = IF work.out = "Succeeded" /\ ~IsSource THEN [epi EXCEPT !.rev = @ + 1] ELSE epi

\* durable_resolution: the run, the digest and the end of the job in one command;
\* the run takes the place of the claim it was made under.
RunRecorded ==
    IF work.out = "NoDelta"
    THEN /\ jobs' = [jobs EXCEPT ![work.j].state = "Succeeded", ![work.j].lease = "none"]
         /\ UNCHANGED <<runs, epi>>
    ELSE /\ runs' = Append(runs, Run)
         /\ jobs' = [jobs EXCEPT
                       ![work.j].state = IF work.out = "Succeeded" THEN "Succeeded" ELSE "Failed",
                       ![work.j].lease = "none", ![work.j].backoff = retry_not_before,
                       ![work.j].result = Len(runs) + 1,
                       ![work.j].claims = Max({@ - 1, 0})]
         /\ epi' = IF work.out = "Succeeded" /\ ~IsSource
                   THEN [epi EXCEPT !.sem = job.last, !.rev = @ + 1] ELSE epi

\* What the projections demand of a run.
Admissible ==
    IF IsSource THEN work.out = "Succeeded" => ~SucceededOver(job)
    ELSE job.rev = epi.rev /\ job.first = epi.sem + 1 /\ job.last = epi.upto

\* Mutant: the permission of the time before the provider's answer is used.
CommitSourceUnchecked ==
    /\ work.pc = "commit" /\ IsSource
    /\ Admissible /\ RunRecorded
    /\ work' = AtRest
    /\ UNCHANGED <<src, charged, config, scene>>

\* commit_source_synthesis: permission and target are read at the frontier the
\* commit is bound to, so a change in between only costs another try.
CommitSource ==
    /\ work.pc = "commit" /\ IsSource
    /\ IF ~Allowed \/ ~TargetCurrent(work.j) THEN FailStale(work.j) /\ UNCHANGED <<runs, epi>>
       ELSE Admissible /\ RunRecorded
    /\ work' = AtRest
    /\ UNCHANGED <<src, charged, config, scene>>

\* Mutant: the episode's command is committed whatever was committed since.
CommitEpisodeAnywhere ==
    /\ work.pc = "commit" /\ ~IsSource
    /\ IF ~Allowed THEN FailStale(work.j) /\ UNCHANGED <<runs, epi>> ELSE RunRecorded
    /\ work' = AtRest
    /\ UNCHANGED <<src, charged, config, scene>>

\* The episode's command is bound to the frontier of the claim; a moved frontier
\* leaves the job leased.
CommitEpisode ==
    /\ work.pc = "commit" /\ ~IsSource
    /\ IF ~Allowed THEN FailStale(work.j) /\ UNCHANGED <<runs, epi>>
       ELSE IF work.moved THEN UNCHANGED <<jobs, runs, epi>>
       ELSE Admissible /\ RunRecorded
    /\ work' = AtRest
    /\ UNCHANGED <<src, charged, config, scene>>

Scheduler ==
    \/ RecoverLease \/ RetireIncompatible \/ RetrySource \/ EnqueueSource \/ EnqueueEpisode
    \/ ClaimJob \/ Prepare \/ Admit \/ ProviderAnswers \/ FinishPrepared
    \/ CommitSource \/ CommitEpisode

SynthesisNext ==
    \/ MessageArrives \/ MessageSuppressed \/ PermissionFlips \/ EpisodeGrows
    \/ NewDay \/ BackoffPasses \/ LeaseExpires \/ Interrupted \/ ConfigReloads
    \/ Scheduler

SynthesisSpec == SynthesisInit /\ [][SynthesisNext]_synthesisVars

\* The scheduler's loop goes on, the provider answers or times out, days pass.
SynthesisFairSpec ==
    /\ SynthesisSpec
    /\ WF_synthesisVars(RecoverLease) /\ WF_synthesisVars(RetireIncompatible) /\ WF_synthesisVars(ClaimJob)
    /\ WF_synthesisVars(Prepare) /\ WF_synthesisVars(Admit) /\ WF_synthesisVars(ProviderAnswers)
    /\ WF_synthesisVars(FinishPrepared) /\ WF_synthesisVars(CommitSource \/ CommitEpisode)
    /\ WF_synthesisVars(LeaseExpires) /\ WF_synthesisVars(NewDay) /\ WF_synthesisVars(BackoffPasses)
-----------------------------------------------------------------------------
(* Properties.                                                               *)

\* Types and ranges.
SynthesisTyped ==
    /\ src.len \in 0..scene.messages /\ src.gone \subseteq 1..src.len
    /\ epi.sem \in 0..epi.upto /\ epi.upto \in 0..scene.growth
    /\ \A j \in DOMAIN jobs :
         /\ jobs[j].state \in {"Queued", "Leased", "Succeeded", "Failed"}
         /\ jobs[j].lease \in {"none", "live", "expired"}
         /\ (jobs[j].lease # "none") <=> (jobs[j].state = "Leased")
         /\ jobs[j].attempt \in 1..8 /\ jobs[j].result \in 0..Len(runs)
    /\ Len(charged) = Len(jobs)
    /\ work.pc \in {"idle", "prepare", "admit", "wait", "finish", "commit"}
    /\ config \in scene.configs
    /\ \E e \in Scenes : scene.left \in 0..e.left /\ scene = [e EXCEPT !.left = scene.left]

\* No message is summarised twice, whatever was retried, re-segmented after a
\* suppression or run again under another configuration.
SummarisedOnce ==
    \A a, b \in DOMAIN runs :
        /\ a # b
        /\ \A r \in {a, b} : runs[r].kind = "source" /\ runs[r].status = "Succeeded"
        => Interval(runs[a]) \cap Interval(runs[b]) = {}

\* A claimed source job has nothing in it that a recorded summary covers, so the
\* projections never refuse its run: reservation, re-segmentation, retries and
\* reloads between two configurations never offer a message again.
ClaimsUncovered == work.pc # "idle" /\ IsSource => ~SucceededOver(job)

\* No more calls are made under the claims of a day than the daily budget, counting
\* the calls that were interrupted and never recorded.
DailyBudgetKept ==
    FoldFunction(LAMBDA a, n : n + a.today, 0, charged) <= scene.calls

\* A job calls the provider at most three times, through failures, time limits,
\* kills and recoveries in any order.
CallsBounded == \A j \in DOMAIN charged : charged[j].total <= 3

\* What is sent was permitted, and not suppressed, when it was sent: not only when
\* the job was prepared.
SentWhilePermitted ==
    [][\A j \in DOMAIN charged : charged'[j].total > charged[j].total
         => Allowed /\ (jobs[j].kind = "source" => Interval(jobs[j]) \cap src.gone = {})]_synthesisVars

\* A summary is recorded only while its source is permitted and unsuppressed.
RecordedWhilePermitted ==
    [][Len(runs') > Len(runs) /\ runs'[Len(runs')].status = "Succeeded"
         => Allowed /\ (runs'[Len(runs')].kind = "source"
                          => Interval(runs'[Len(runs')]) \cap src.gone = {})]_synthesisVars

\* The summaries of the episode follow each other in the order of their recording,
\* and together cover its evidence up to the semantic watermark without gap or
\* overlap.
EpisodeChain ==
    LET done == Succeeded("episode") IN
    /\ \A a, b \in done : a < b => runs[a].last < runs[b].first
    /\ UNION {Interval(runs[r]) : r \in done} = 1..epi.sem

\* A summary of an episode is recorded against the revision and the evidence it
\* was made from, not against one that grew during the call.
SummaryIsCurrent ==
    [][Len(runs') > Len(runs) /\ runs'[Len(runs')].kind = "episode"
         => /\ runs'[Len(runs')].rev = epi.rev
            /\ runs'[Len(runs')].last = epi.upto]_synthesisVars

\* The episode's enrichments are bounded, and the last one is kept for its end.
EnrichmentsKept ==
    /\ Cardinality(Succeeded("episode")) <= scene.enrichments
    /\ ~epi.closed /\ scene.enrichments > 0 => Cardinality(Succeeded("episode")) < scene.enrichments

\* Every job ends.
JobsEnd == []<>(\A j \in DOMAIN jobs : ~Active(jobs[j]))

\* Messages are claimed and summarised once, revisions of an episode form one chain
\* (jobs/synthesis.rs, jobs/synthesis/source.rs).
SummariesSound == SynthesisTyped /\ SummarisedOnce /\ ClaimsUncovered /\ EpisodeChain

\* Calls per day, calls per job and enrichments per episode stay within their budgets across
\* midnights, retries and kills (jobs/synthesis.rs, maintenance.rs).
BudgetsKept == DailyBudgetKept /\ CallsBounded /\ EnrichmentsKept

\* What is sent and what is recorded is permitted and about the current base at that moment
\* (provider.rs, maintenance.rs).
PermittedAndCurrent == SentWhilePermitted /\ RecordedWhilePermitted /\ SummaryIsCurrent
=============================================================================

------------------------- MODULE JobSchedulerProofs -------------------------
(* The scheduler keeps its slots apart, its jobs well formed, its results     *)
(* under the lease they were made for and its ends final, for every set of    *)
(* targets, configurations and scenarios.                                     *)
EXTENDS JobScheduler, SequenceTheorems, WellFoundedInduction, FiniteSetTheorems, TLAPS

Working == {"exec", "settle"}
StagePcs == {"recover", "seed", "retire", "usages", "projections", "captures", "select"}

Round == [pc : StagePcs \union Working \union {"idle", "failed", "run"},
          config : Configs \union {"none"}, optional : BOOLEAN, todo : SUBSET Nat,
          job : Nat, snap : {"none", "fresh", "stale"}, tries : 0..2,
          result : {"none", "ok", "stale", "error", "refused", "duplicate", "lost"}
                   \union Reasons,
          polled : BOOLEAN]

Setting == [acts : SUBSET (Targets \union {"reload"}), gens : Nat, left : Nat]

\* What every variable holds.
Typed ==
    /\ jobs \in Seq(Job)
    /\ gen \in [Targets -> Nat] /\ done \in [Targets -> Nat]
    /\ present \subseteq Artifacts
    /\ config \in Configs
    /\ sched \in Round
    /\ env \in Setting

\* A job is made for input that has arrived, attempts are counted from one, and a
\* leased job has a lease.
JobsFit ==
    \A j \in JobIds :
        /\ jobs[j].gen <= gen[jobs[j].target] /\ jobs[j].attempt > 0
        /\ jobs[j].state = "Leased" => jobs[j].lease # "none"

\* Why no slot is queued twice, by kind: a closure and a projection have one job
\* per generation, an observation and a usage one active job, and an artifact one
\* job per generation and configuration; when an artifact gets a younger job, the
\* older ones have ended, so those that are active have been tried before.
SlotsApart ==
    \A i, j \in JobIds : i # j /\ jobs[i].target = jobs[j].target =>
        /\ jobs[i].target \in Closures \union Projections => jobs[i].gen # jobs[j].gen
        /\ jobs[i].target \in Captures \union Usages => ~Active(i) \/ ~Active(j)
        /\ jobs[i].target \in Artifacts =>
             /\ jobs[i].gen # jobs[j].gen \/ jobs[i].config # jobs[j].config
             /\ i < j /\ Active(i) => jobs[i].attempt > 1

\* The round knows its jobs, owns the job it works on while its snapshot is
\* current, and has the configuration it started with.
RoundFits ==
    /\ sched.todo \subseteq JobIds /\ sched.job \in 0..Len(jobs)
    /\ sched.pc \in Working => sched.job \in JobIds
    /\ sched.pc \in Working /\ sched.snap = "fresh" => jobs[sched.job].state = "Leased"
    /\ sched.pc = "settle" /\ jobs[sched.job].target \in Artifacts
         => sched.result \in {"ok"} \union Reasons
    /\ sched.pc \notin {"idle", "failed"} => sched.config \in Configs

IInv == Typed /\ JobsFit /\ SlotsApart /\ RoundFits
-----------------------------------------------------------------------------
(* Sets of natural numbers, and the jobs a stage appends.                    *)

\* A set of job identifiers has a greatest one.
LEMMA GreatestJob ==
    ASSUME NEW n \in Nat, NEW S, S \subseteq 1..n, S # {}
    PROVE  \E j \in S : \A k \in S : k <= j
<1> DEFINE T == {A \in SUBSET S : \E j \in S : A = {i \in S : i > j}}
<1>1. FiniteSubsetsOf(S) = SUBSET S
  BY FS_Interval, FS_Subset, FS_FiniteSubsetsOfFinite, 1 \in Int, n \in Int
<1>2. T # {}
  <2>1. PICK j \in S : TRUE
    OBVIOUS
  <2>2. {i \in S : i > j} \in T
    OBVIOUS
  <2> QED BY <2>2
<1>3. PICK A \in T : \A B \in T : ~(<<B, A>> \in StrictSubsetOrdering(S))
  <2>1. T \subseteq FiniteSubsetsOf(S)
    BY <1>1
  <2> HIDE DEF T
  <2> QED BY <1>2, <2>1, FS_StrictSubsetOrderingWellFounded, WFMin
<1>4. PICK j \in S : A = {i \in S : i > j}
  OBVIOUS
<1>5. \A k \in S : k <= j
  <2>1. SUFFICES ASSUME NEW k \in S, ~(k <= j) PROVE FALSE
    OBVIOUS
  <2>2. PICK B : B = {i \in S : i > k}
    OBVIOUS
  <2>3. j \in Nat /\ k \in Nat /\ S \subseteq Nat
    OBVIOUS
  <2>4. \A i : (i \in A <=> i \in S /\ i > j) /\ (i \in B <=> i \in S /\ i > k)
    BY <1>4, <2>2
  <2>5. k \in A /\ k \notin B /\ B \subseteq A
    <3>1. k > j /\ ~(k > k) /\ \A i \in S : i > k => i > j
      BY <2>1, <2>3
    <3> QED BY <3>1, <2>4, <2>1
  <2>6. B \in T /\ B \in SUBSET S /\ A \in SUBSET S
    BY <2>2
  <2>7. <<B, A>> \in StrictSubsetOrdering(S)
    BY <2>5, <2>6 DEF StrictSubsetOrdering
  <2> QED BY <2>6, <2>7, <1>3
<1> QED BY <1>5

\* The members of a finite set, each once.
LEMMA SetToSeqFacts ==
    ASSUME NEW S, IsFiniteSet(S)
    PROVE  /\ SetToSeq(S) \in Seq(S)
           /\ \A i, k \in 1..Len(SetToSeq(S)) :
                SetToSeq(S)[i] = SetToSeq(S)[k] => i = k
<1> DEFINE n == Cardinality(S)
           F == [1..n -> S]
<1>1. n \in Nat /\ ExistsBijection(1..n, S)
  BY FS_CardinalityType
<1>2. PICK f \in F : IsInjective(f)
  BY <1>1 DEF ExistsBijection, Bijection, Injection, IsInjective
<1>3. SetToSeq(S) \in F /\ IsInjective(SetToSeq(S))
  BY <1>2 DEF SetToSeq
<1>4. SetToSeq(S) \in Seq(S)
  BY <1>1, <1>3
<1>5. DOMAIN SetToSeq(S) = 1..Len(SetToSeq(S))
  BY <1>4, LenProperties
<1> HIDE DEF F, n
<1> QED BY <1>3, <1>4, <1>5 DEF IsInjective
-----------------------------------------------------------------------------
(* What a command may do to the jobs.                                        *)

\* js is jobs with successors: the same targets, generations and configurations,
\* a lease for what is leased, attempts that only grow, and nothing woken up but an
\* artifact's job, with another attempt.
Kept(js) ==
    /\ js \in Seq(Job) /\ Len(js) = Len(jobs)
    /\ \A j \in JobIds :
         /\ js[j].target = jobs[j].target /\ js[j].gen = jobs[j].gen
         /\ js[j].config = jobs[j].config /\ js[j].attempt >= jobs[j].attempt
         /\ js[j].state = "Leased" => js[j].lease # "none"
         /\ js[j].state \in {"Queued", "Leased"} =>
              Active(j) \/ (jobs[j].target \in Artifacts /\ js[j].attempt > jobs[j].attempt)

\* A job appended to js whose slot is free.
Appended(job, js, newest) ==
    /\ job.gen = newest[job.target] /\ job.state = "Queued" /\ job.attempt = 1
    /\ job.target \in Closures => gen[job.target] < job.gen
    /\ \A j \in JobsOf(job.target) :
         /\ job.target \in Projections => jobs[j].gen # job.gen
         /\ job.target \in Artifacts =>
              /\ jobs[j].gen # job.gen \/ jobs[j].config # job.config
              /\ js[j].state \in {"Queued", "Leased"} => js[j].attempt > 1
         /\ job.target \in Captures \union Usages => js[j].state \notin {"Queued", "Leased"}

NewJobs(W, c) == {NewJob(t, c) : t \in W}

LEMMA JobIdsFacts ==
    ASSUME jobs \in Seq(Job)
    PROVE  /\ Len(jobs) \in Nat /\ JobIds = 1..Len(jobs)
           /\ \A j \in JobIds : jobs[j] \in Job
BY LenProperties, ElementOfSeq DEF JobIds

\* The slots stay apart when jobs get successors and free slots are filled.
LEMMA GrownApart ==
    ASSUME Typed, JobsFit, SlotsApart,
           NEW js, Kept(js),
           NEW newest \in [Targets -> Nat], \A t \in Targets : gen[t] <= newest[t],
           NEW c \in Configs,
           NEW r \in Seq(Job), Len(js) <= Len(r),
           \A j \in 1..Len(js) : r[j] = js[j],
           \A j \in (Len(js) + 1)..Len(r) : Appended(r[j], js, newest),
           \A i, j \in (Len(js) + 1)..Len(r) : i # j => r[i].target # r[j].target,
           jobs' = r, gen' = newest, config' = c
    PROVE  /\ jobs' \in Seq(Job) /\ JobIds \subseteq JobIds'
           /\ JobsFit' /\ SlotsApart'
<1>1. /\ Len(jobs) \in Nat /\ JobIds = 1..Len(jobs) /\ Len(js) = Len(jobs)
      /\ Len(r) \in Nat /\ JobIds' = 1..Len(r) /\ JobIds \subseteq JobIds'
  BY LenProperties DEF Typed, JobIds, Kept
<1>2. /\ \A j \in JobIds : jobs[j] \in Job
      /\ \A j \in JobIds' : r[j] \in Job
  BY <1>1, JobIdsFacts, ElementOfSeq DEF Typed
<1>3. \A j \in JobIds : /\ r[j] = js[j]
                        /\ r[j].target = jobs[j].target /\ r[j].gen = jobs[j].gen
                        /\ r[j].config = jobs[j].config /\ r[j].attempt >= jobs[j].attempt
                        /\ r[j].state = "Leased" => r[j].lease # "none"
                        /\ r[j].state \in {"Queued", "Leased"} =>
                             \/ Active(j)
                             \/ jobs[j].target \in Artifacts /\ r[j].attempt > jobs[j].attempt
  BY <1>1 DEF Kept
<1>4. \A j \in JobIds' : j \notin JobIds => Appended(r[j], js, newest)
  BY <1>1
<1>5. \A j \in JobIds : jobs[j].target \in Targets /\ gen[jobs[j].target] \in Nat
                        /\ jobs[j].gen \in Nat /\ jobs[j].attempt \in Nat
                        /\ r[j].attempt \in Nat
  BY <1>1, <1>2 DEF Job, Typed
<1>6. JobsFit'
  <2>1. SUFFICES ASSUME NEW j \in JobIds'
                 PROVE  /\ r[j].gen <= newest[r[j].target] /\ r[j].attempt > 0
                        /\ r[j].state = "Leased" => r[j].lease # "none"
    BY DEF JobsFit
  <2>2. CASE j \in JobIds
    <3>1. jobs[j].gen <= gen[jobs[j].target] /\ gen[jobs[j].target] <= newest[jobs[j].target]
      BY <2>2, <1>5 DEF JobsFit
    <3>2. jobs[j].gen <= newest[jobs[j].target]
      BY <3>1, <1>5, <2>2
    <3>3. jobs[j].attempt > 0 /\ r[j].attempt >= jobs[j].attempt
      BY <2>2, <1>3 DEF JobsFit
    <3>4. r[j].attempt > 0
      BY <2>2, <3>3, <1>5
    <3> QED BY <2>2, <3>2, <3>4, <1>3 DEF JobsFit
  <2>3. CASE j \notin JobIds
    <3>1. Appended(r[j], js, newest) /\ r[j].target \in Targets
      BY <2>3, <1>4, <1>2 DEF Job
    <3>2. newest[r[j].target] \in Nat
      BY <3>1
    <3> QED BY <3>1, <3>2 DEF Appended
  <2> QED BY <2>2, <2>3
<1>7. SlotsApart'
  <2>1. SUFFICES ASSUME NEW i \in JobIds', NEW j \in JobIds', i # j, r[i].target = r[j].target
                 PROVE  /\ r[i].target \in Closures \union Projections => r[i].gen # r[j].gen
                        /\ r[i].target \in Captures \union Usages =>
                             \/ r[i].state \notin {"Queued", "Leased"}
                             \/ r[j].state \notin {"Queued", "Leased"}
                        /\ r[i].target \in Artifacts =>
                             /\ r[i].gen # r[j].gen \/ r[i].config # r[j].config
                             /\ i < j /\ r[i].state \in {"Queued", "Leased"}
                                  => r[i].attempt > 1
    BY DEF SlotsApart, Active
  <2>2. CASE i \in JobIds /\ j \in JobIds
    <3>1. /\ r[i].target \in Closures \union Projections => r[i].gen # r[j].gen
          /\ r[i].target \in Captures \union Usages =>
               r[i].state \notin {"Queued", "Leased"} \/ r[j].state \notin {"Queued", "Leased"}
          /\ r[i].target \in Artifacts => r[i].gen # r[j].gen \/ r[i].config # r[j].config
      BY <2>1, <2>2, <1>3, TargetsAssumption DEF SlotsApart, TargetsAssumption
    <3>2. ASSUME r[i].target \in Artifacts, i < j, r[i].state \in {"Queued", "Leased"}
          PROVE  r[i].attempt > 1
      <4>1. CASE Active(i)
        <5>1. jobs[i].attempt > 1 /\ r[i].attempt >= jobs[i].attempt
          BY <2>1, <2>2, <3>2, <4>1, <1>3 DEF SlotsApart
        <5> QED BY <2>2, <5>1, <1>5
      <4>2. CASE ~Active(i)
        <5>1. jobs[i].attempt > 0 /\ r[i].attempt > jobs[i].attempt
          BY <2>2, <3>2, <4>2, <1>3 DEF JobsFit
        <5> QED BY <2>2, <5>1, <1>5
      <4> QED BY <4>1, <4>2
    <3> QED BY <3>1, <3>2
  <2>3. ASSUME NEW k \in JobIds, NEW n \in JobIds', n \notin JobIds, r[n].target = r[k].target
        PROVE  /\ r[k].target \in Closures \union Projections => r[k].gen # r[n].gen
               /\ r[k].target \in Captures \union Usages => r[k].state \notin {"Queued", "Leased"}
               /\ r[k].target \in Artifacts =>
                    /\ r[k].gen # r[n].gen \/ r[k].config # r[n].config
                    /\ r[k].state \in {"Queued", "Leased"} => r[k].attempt > 1
    <3>1. Appended(r[n], js, newest) /\ k \in JobsOf(r[n].target) /\ r[k].gen = jobs[k].gen
      BY <2>3, <1>3, <1>4 DEF JobsOf
    <3>2. jobs[k].gen <= gen[jobs[k].target] /\ r[n].gen \in Nat /\ r[k].target = jobs[k].target
      BY <1>2, <1>3, <2>3 DEF JobsFit, Job
    <3>3. r[k].target \in Closures => r[k].gen < r[n].gen
      <4>1. gen[r[n].target] \in Nat /\ r[k].gen <= gen[r[n].target] /\ r[k].gen \in Nat
        BY <3>1, <3>2, <2>3, <1>5
      <4>2. r[k].target \in Closures => gen[r[n].target] < r[n].gen
        BY <3>1, <2>3 DEF Appended
      <4> QED BY <4>1, <4>2, <3>2
    <3>4. r[k].target \in Projections => r[k].gen # r[n].gen
      BY <3>1, <2>3 DEF Appended
    <3>5. r[k].target \in Captures \union Usages => r[k].state \notin {"Queued", "Leased"}
      BY <3>1, <2>3, <1>3 DEF Appended
    <3>6. r[k].target \in Artifacts =>
            /\ r[k].gen # r[n].gen \/ r[k].config # r[n].config
            /\ r[k].state \in {"Queued", "Leased"} => r[k].attempt > 1
      BY <3>1, <2>3, <1>3 DEF Appended
    <3>7. r[k].gen \in Nat
      BY <3>1, <1>5
    <3> QED BY <3>2, <3>3, <3>4, <3>5, <3>6, <3>7
  <2>4. CASE i \notin JobIds /\ j \notin JobIds
    BY <2>1, <2>4, <1>1
  <2>5. CASE i \in JobIds /\ j \notin JobIds
    BY <2>1, <2>3, <2>5
  <2>6. CASE i \notin JobIds /\ j \in JobIds
    <3>1. ~(i < j)
      BY <2>6, <1>1
    <3> QED BY <2>1, <2>3, <2>6, <3>1
  <2> QED BY <2>2, <2>4, <2>5, <2>6
<1> QED BY <1>1, <1>6, <1>7

\* Input only arrives, and there is always a configuration.
InputGrows == gen' \in [Targets -> Nat] /\ \A t \in Targets : gen[t] <= gen'[t]
ConfigHolds == config' \in Configs

LEMMA InputStays ==
    ASSUME Typed, UNCHANGED <<gen, config>> PROVE InputGrows /\ ConfigHolds
BY DEF Typed, InputGrows, ConfigHolds

\* The special case that appends nothing.
LEMMA KeptApart ==
    ASSUME Typed, JobsFit, SlotsApart, InputGrows, ConfigHolds,
           NEW js, Kept(js), jobs' = js
    PROVE  /\ jobs' \in Seq(Job) /\ JobIds' = JobIds
           /\ JobsFit' /\ SlotsApart'
<1>1. js \in Seq(Job) /\ Len(js) = Len(jobs) /\ Len(js) \in Nat
  BY LenProperties DEF Kept
<1>2. DOMAIN js = DOMAIN jobs
  BY <1>1, LenProperties DEF Typed
<1>3. JobsFit' /\ SlotsApart'
  BY <1>1, GrownApart DEF InputGrows, ConfigHolds
<1> QED BY <1>1, <1>2, <1>3 DEF JobIds

LEMMA EndedJob ==
    ASSUME NEW job \in Job, NEW state \in {"Succeeded", "Failed"}, NEW reason \in Reasons
    PROVE  /\ Ended(job, state, reason) \in Job
           /\ Ended(job, state, reason).target = job.target
           /\ Ended(job, state, reason).gen = job.gen
           /\ Ended(job, state, reason).config = job.config
           /\ Ended(job, state, reason).attempt = job.attempt
           /\ Ended(job, state, reason).state = state
           /\ Ended(job, state, reason).reason = reason
BY DEF Ended, Job, JobStatus, Reasons

LEMMA RequeuedJob ==
    ASSUME NEW job \in Job
    PROVE  /\ Requeued(job) \in Job
           /\ Requeued(job).target = job.target /\ Requeued(job).gen = job.gen
           /\ Requeued(job).config = job.config /\ Requeued(job).state = "Queued"
           /\ Requeued(job).attempt > job.attempt
<1>1. PICK n \in Nat : n = job.attempt + 1 /\ n > job.attempt
  BY DEF Job
<1>2. Requeued(job) = [job EXCEPT !.state = "Queued", !.attempt = n, !.lease = "none",
                                  !.backoff = "none", !.reason = "none"]
  BY <1>1 DEF Requeued
<1> QED BY <1>1, <1>2 DEF Job, JobStatus, Reasons

\* A set of jobs ends or is queued again.
LEMMA RewrittenKept ==
    ASSUME Typed, JobsFit,
           NEW js, js = [j \in JobIds |-> js[j]],
           \A j \in JobIds :
             \/ js[j] = jobs[j]
             \/ \E reason \in Reasons : js[j] = Ended(jobs[j], "Failed", reason)
             \/ js[j] = Requeued(jobs[j]) /\ (Active(j) \/ jobs[j].target \in Artifacts)
    PROVE  Kept(js)
<1>1. /\ Len(jobs) \in Nat /\ JobIds = 1..Len(jobs)
      /\ \A j \in JobIds : jobs[j] \in Job
  BY JobIdsFacts DEF Typed
<1>2. ASSUME NEW j \in JobIds
      PROVE  /\ js[j] \in Job
             /\ js[j].target = jobs[j].target /\ js[j].gen = jobs[j].gen
             /\ js[j].config = jobs[j].config /\ js[j].attempt >= jobs[j].attempt
             /\ js[j].state = "Leased" => js[j].lease # "none"
             /\ js[j].state \in {"Queued", "Leased"} =>
                  Active(j) \/ (jobs[j].target \in Artifacts /\ js[j].attempt > jobs[j].attempt)
  <2>1. jobs[j] \in Job /\ jobs[j].attempt \in Nat
    BY <1>1 DEF Job
  <2>2. CASE js[j] = jobs[j]
    BY <2>1, <2>2 DEF JobsFit, Active
  <2>3. CASE \E reason \in Reasons : js[j] = Ended(jobs[j], "Failed", reason)
    BY <2>1, <2>3, EndedJob
  <2>4. CASE js[j] = Requeued(jobs[j]) /\ (Active(j) \/ jobs[j].target \in Artifacts)
    <3>1. /\ js[j] \in Job /\ js[j].target = jobs[j].target /\ js[j].gen = jobs[j].gen
          /\ js[j].config = jobs[j].config /\ js[j].state = "Queued"
          /\ js[j].attempt > jobs[j].attempt
      BY <2>1, <2>4, RequeuedJob
    <3>2. js[j].attempt \in Nat
      BY <3>1 DEF Job
    <3> QED BY <2>1, <2>4, <3>1, <3>2
  <2> QED BY <2>2, <2>3, <2>4
<1>3. js \in [1..Len(jobs) -> Job]
  BY <1>1, <1>2
<1>4. js \in Seq(Job) /\ Len(js) = Len(jobs)
  BY <1>1, <1>3
<1> QED BY <1>2, <1>4 DEF Kept

\* One job gets a successor.
LEMMA EditedKept ==
    ASSUME Typed, JobsFit, NEW j \in JobIds, NEW job \in Job,
           job.target = jobs[j].target, job.gen = jobs[j].gen, job.config = jobs[j].config,
           job.attempt >= jobs[j].attempt,
           job.state = "Leased" => job.lease # "none",
           job.state \in {"Queued", "Leased"} => Active(j)
    PROVE  /\ Kept([jobs EXCEPT ![j] = job])
           /\ \A k \in JobIds : [jobs EXCEPT ![j] = job][k] = IF k = j THEN job ELSE jobs[k]
<1>1. /\ Len(jobs) \in Nat /\ JobIds = 1..Len(jobs)
      /\ \A k \in JobIds : jobs[k] \in Job
  BY JobIdsFacts DEF Typed
<1>2. /\ [jobs EXCEPT ![j] = job] \in Seq(Job)
      /\ Len([jobs EXCEPT ![j] = job]) = Len(jobs)
      /\ \A k \in JobIds : [jobs EXCEPT ![j] = job][k] = IF k = j THEN job ELSE jobs[k]
  BY <1>1, ExceptSeq DEF Typed
<1>3. \A k \in JobIds : jobs[k].attempt \in Nat
  BY <1>1 DEF Job
<1> QED BY <1>1, <1>2, <1>3 DEF Kept, JobsFit, Active

\* What a stage appends: a job for each of its targets.
Extended(r, js, W, c) ==
    /\ r \in Seq(Job) /\ Len(js) <= Len(r)
    /\ \A j \in 1..Len(js) : r[j] = js[j]
    /\ \A j \in (Len(js) + 1)..Len(r) : \E t \in W : r[j] = NewJob(t, c)
    /\ \A i, j \in (Len(js) + 1)..Len(r) : i # j => r[i].target # r[j].target

LEMMA EnqueuedFacts ==
    ASSUME Typed, NEW js \in Seq(Job), NEW W \in SUBSET Targets, NEW c \in Configs,
           NEW r, r = Enqueued(js, NewJobs(W, c))
    PROVE  Extended(r, js, W, c)
<1> DEFINE new == NewJobs(W, c)
           q == SetToSeq(new)
<1>1. \A t \in Targets : NewJob(t, c) \in Job /\ NewJob(t, c).target = t
  BY DEF NewJob, Job, JobStatus, Reasons, Typed
<1>2. new \subseteq Job
  BY <1>1 DEF NewJobs
<1>3. IsFiniteSet(new)
  <2>1. IsFiniteSet(W)
    BY TargetsAssumption, FS_Subset DEF TargetsAssumption
  <2> DEFINE f == [t \in W |-> NewJob(t, c)]
  <2>2. f \in Surjection(W, new)
    BY DEF Surjection, NewJobs
  <2> QED BY <2>1, <2>2, FS_Surjection
<1>4. /\ q \in Seq(new) /\ \A i, j \in 1..Len(q) : q[i] = q[j] => i = j
  BY <1>3, SetToSeqFacts
<1>5. q \in Seq(Job) /\ Len(q) \in Nat /\ \A i \in 1..Len(q) : q[i] \in new
  <2> HIDE DEF new, q
  <2> QED BY <1>2, <1>4, LenProperties, ElementOfSeq
<1>6. /\ r \in Seq(Job) /\ Len(r) = Len(js) + Len(q) /\ Len(js) \in Nat
      /\ \A i \in 1..Len(js) + Len(q) : r[i] = IF i <= Len(js) THEN js[i] ELSE q[i - Len(js)]
  <2> HIDE DEF q
  <2> QED BY <1>5, ConcatProperties, LenProperties DEF Enqueued, q
<1> HIDE DEF new, q
<1>7. \A i \in (Len(js) + 1)..Len(r) : i - Len(js) \in 1..Len(q) /\ r[i] = q[i - Len(js)]
  BY <1>5, <1>6
<1>8. \A j \in (Len(js) + 1)..Len(r) : \E t \in W : r[j] = NewJob(t, c)
  BY <1>5, <1>7 DEF new, NewJobs
<1>9. ASSUME NEW i \in (Len(js) + 1)..Len(r), NEW j \in (Len(js) + 1)..Len(r),
             r[i].target = r[j].target
      PROVE  i = j
  <2>1. r[i] = r[j]
    BY <1>1, <1>8, <1>9
  <2>2. i - Len(js) = j - Len(js)
    BY <1>4, <1>7, <2>1
  <2> QED BY <2>2, <1>6
<1>10. \A j \in 1..Len(js) : r[j] = js[j]
  BY <1>5, <1>6
<1>11. Len(js) <= Len(r)
  BY <1>5, <1>6
<1> QED BY <1>6, <1>8, <1>9, <1>10, <1>11 DEF Extended
-----------------------------------------------------------------------------
(* The round moves on.                                                       *)

LEMMA AdvancedRound ==
    ASSUME sched \in Round, NEW pc \in StagePcs, NEW snap \in {"none", "fresh", "stale"}
    PROVE  /\ Advanced(pc, snap) \in Round
           /\ Advanced(pc, snap).pc = pc /\ Advanced(pc, snap).config = sched.config
           /\ Advanced(pc, snap).todo = sched.todo /\ Advanced(pc, snap).job = sched.job
<1>1. PICK b \in BOOLEAN : b = (sched.polled \/ (sched.pc = "seed" /\ present # {}))
  OBVIOUS
<1>2. Advanced(pc, snap) = [sched EXCEPT !.pc = pc, !.snap = snap, !.polled = b]
  BY <1>1 DEF Advanced
<1> QED BY <1>2 DEF Round, StagePcs

LEMMA FailedRound ==
    ASSUME NEW why \in {"refused", "duplicate", "lost"}, Fails(why)
    PROVE  /\ sched' \in Round /\ sched'.pc = "failed" /\ sched'.todo = {} /\ sched'.job = 0
<1>1. Idle \in Round /\ Idle.todo = {} /\ Idle.job = 0
  BY DEF Idle, Round, StagePcs, Working
<1> QED BY <1>1 DEF Fails, Round

\* A round between its jobs works on none.
LEMMA RestingFits ==
    ASSUME RoundFits, sched \in Round, sched' \in Round, sched'.pc \notin Working,
           sched'.todo \subseteq JobIds', sched'.job \in 0..Len(jobs'),
           sched'.pc \notin {"idle", "failed"} =>
             sched'.config \in Configs
    PROVE  RoundFits'
BY DEF RoundFits, Working

\* A stage: the successors and jobs it plans from a current snapshot are
\* committed together, or nothing is.
LEMMA StageSound ==
    ASSUME IInv, NEW pc \in StagePcs, NEW next \in StagePcs, NEW old, Kept(old),
           NEW W, W \subseteq Targets,
           \A t \in W : Appended(NewJob(t, sched.config), old, gen),
           Accepted(old) => \A j \in JobIds : jobs[j].state \in {"Succeeded", "Failed"} =>
             \/ old[j] = jobs[j]
             \/ jobs[j].target \in Artifacts /\ jobs[j].state = "Failed",
           Stage(pc, next, old, NewJobs(W, sched.config))
    PROVE  IInv' /\ OwnsResults /\ KeepsEnds
<1>0. PICK r : r = Enqueued(old, NewJobs(W, sched.config))
  OBVIOUS
<1>1. /\ sched.pc = pc /\ sched.snap # "none"
      /\ UNCHANGED <<gen, done, present, config, env>>
      /\ \/ Accepted(old) /\ jobs' = r /\ sched' = Advanced(next, "none")
         \/ UNCHANGED jobs /\ Fails("refused")
         \/ UNCHANGED jobs /\ sched' = Advanced(next, sched.snap)
  BY <1>0 DEF Stage, CommitJobs
<1>2. /\ sched \in Round /\ sched.config \in Configs
      /\ sched.pc \notin Working
      /\ Len(jobs) \in Nat /\ JobIds = 1..Len(jobs)
  BY <1>1, JobIdsFacts DEF IInv, Typed, RoundFits, StagePcs, Working
<1>3. sched.snap \in {"none", "fresh", "stale"}
  BY <1>2 DEF Round
<1>4. /\ sched' \in Round /\ sched'.pc \notin Working
      /\ sched'.todo \subseteq sched.todo /\ sched'.job \in {0, sched.job}
      /\ sched'.pc = "failed" \/ sched'.config = sched.config
  BY <1>1, <1>2, <1>3, AdvancedRound, FailedRound DEF StagePcs, Working
<1>5. OwnsResults
  BY <1>1 DEF OwnsResults
<1>6. Typed' /\ JobsFit' /\ SlotsApart' /\ JobIds \subseteq JobIds' /\ KeepsEnds
      /\ Len(jobs') \in Nat /\ Len(jobs) <= Len(jobs')
  <2>1. CASE Accepted(old) /\ jobs' = r
    <3>1. old \in Seq(Job) /\ Len(old) = Len(jobs)
      BY DEF Kept
    <3>2. /\ r \in Seq(Job) /\ Len(old) <= Len(r)
          /\ \A j \in 1..Len(old) : r[j] = old[j]
          /\ \A j \in (Len(old) + 1)..Len(r) : \E t \in W : r[j] = NewJob(t, sched.config)
          /\ \A i, j \in (Len(old) + 1)..Len(r) : i # j => r[i].target # r[j].target
      <4>1. PICK c \in Configs : c = sched.config
        BY <1>2
      <4>2. r = Enqueued(old, NewJobs(W, c)) /\ Typed
        BY <1>0, <4>1 DEF IInv
      <4>3. Extended(r, old, W, c)
        <5>1. W \in SUBSET Targets
          OBVIOUS
        <5> QED BY <3>1, <4>2, <5>1, EnqueuedFacts
      <4> QED BY <4>1, <4>3 DEF NewJob, Extended
    <3>3. \A j \in (Len(old) + 1)..Len(r) : Appended(r[j], old, gen)
      BY <3>2
    <3>4. gen \in [Targets -> Nat] /\ config \in Configs /\ \A t \in Targets : gen[t] <= gen[t]
      BY DEF IInv, Typed
    <3>5. jobs' \in Seq(Job) /\ JobIds \subseteq JobIds' /\ JobsFit' /\ SlotsApart'
      BY <1>1, <2>1, <3>2, <3>3, <3>4, GrownApart DEF IInv
    <3>6. Typed'
      BY <1>1, <1>4, <3>5 DEF IInv, Typed
    <3>7. KeepsEnds
      BY <1>2, <2>1, <3>1, <3>2 DEF KeepsEnds
    <3> QED BY <1>2, <2>1, <3>1, <3>2, <3>5, <3>6, <3>7, LenProperties
  <2>2. CASE UNCHANGED jobs
    BY <1>1, <1>2, <1>4, <2>2 DEF IInv, Typed, JobsFit, SlotsApart, JobIds, KeepsEnds, Active
  <2> QED BY <1>1, <2>1, <2>2
<1>7. RoundFits'
  <2>1. sched'.todo \subseteq JobIds' /\ sched'.job \in 0..Len(jobs')
    BY <1>2, <1>4, <1>6 DEF IInv, RoundFits
  <2> QED BY <1>1, <1>2, <1>4, <2>1, RestingFits DEF IInv
<1> QED BY <1>5, <1>6, <1>7 DEF IInv
-----------------------------------------------------------------------------
(* The stages.                                                               *)

LEMMA JobsKept == ASSUME Typed, JobsFit PROVE Kept(jobs)
<1>1. jobs = [j \in JobIds |-> jobs[j]]
  BY LenProperties DEF Typed, JobIds
<1> QED BY <1>1, RewrittenKept

LEMMA NoNewJobs == ASSUME NEW c PROVE NewJobs({}, c) = {}
BY DEF NewJobs

LEMMA RecoverLeasesSound ==
    ASSUME IInv, RecoverLeases PROVE IInv' /\ OwnsResults /\ KeepsEnds
<1> DEFINE old == Rewritten(ExpiredLeases, Requeued)
<1>1. \A j \in JobIds : old[j] = IF j \in ExpiredLeases THEN Requeued(jobs[j]) ELSE jobs[j]
  BY DEF Rewritten
<1>2. old = [j \in JobIds |-> old[j]]
  BY DEF Rewritten
<1>3. Stage("recover", "seed", old, NewJobs({}, sched.config))
  BY NoNewJobs DEF RecoverLeases
<1> HIDE DEF old
<1>4. Kept(old)
  BY <1>1, <1>2, RewrittenKept DEF IInv, ExpiredLeases, Active
<1>5. \A j \in JobIds : jobs[j].state \in {"Succeeded", "Failed"} => old[j] = jobs[j]
  BY <1>1 DEF ExpiredLeases
<1> QED BY <1>3, <1>4, <1>5, StageSound DEF StagePcs

\* The prior job of an artifact is one of its jobs; it matches if any does and is the
\* youngest otherwise.
LEMMA PriorFacts ==
    ASSUME IInv, NEW t, JobsOf(t) # {}
    PROVE  /\ PriorArtifactJob(t) \in JobsOf(t)
           /\ (\E j \in JobsOf(t) : ArtifactMatches(j, t)) => ArtifactMatches(PriorArtifactJob(t), t)
           /\ \/ \E j \in JobsOf(t) : ArtifactMatches(j, t)
              \/ \A k \in JobsOf(t) : k <= PriorArtifactJob(t)
<1>1. PICK n \in Nat : JobIds = 1..n
  BY JobIdsFacts DEF IInv, Typed
<1>2. JobsOf(t) \subseteq 1..n
  BY <1>1 DEF JobsOf
<1>3. PICK M : M = {j \in JobsOf(t) : ArtifactMatches(j, t)}
  OBVIOUS
<1>4. PICK S : S = IF M # {} THEN M ELSE JobsOf(t)
  OBVIOUS
<1>5. S \subseteq 1..n /\ S # {}
  BY <1>2, <1>3, <1>4
<1>6. PriorArtifactJob(t) = CHOOSE j \in S : \A k \in S : k <= j
  BY <1>3, <1>4 DEF PriorArtifactJob
<1>7. \E j \in S : \A k \in S : k <= j
  BY <1>5, GreatestJob
<1>8. PriorArtifactJob(t) \in S /\ \A k \in S : k <= PriorArtifactJob(t)
  BY <1>6, <1>7
<1> QED BY <1>3, <1>4, <1>8

LEMMA SeedCaptureArtifactsSound ==
    ASSUME IInv, SeedCaptureArtifacts PROVE IInv' /\ OwnsResults /\ KeepsEnds
<1>1. PICK seen : seen = IF sched.polled THEN {} ELSE present
  OBVIOUS
<1>2. PICK prior : prior = {PriorArtifactJob(t) : t \in {u \in seen : JobsOf(u) # {}}}
  OBVIOUS
<1>3. PICK retried : retried = {j \in prior : /\ ArtifactMatches(j, jobs[j].target)
                                              /\ ~Active(j) /\ ArtifactRetries(j)}
  OBVIOUS
<1>4. PICK W : W = {t \in seen : JobsOf(t) = {} \/
                      LET j == PriorArtifactJob(t) IN ~ArtifactMatches(j, t) /\ ~Active(j)}
  OBVIOUS
<1> DEFINE old == Rewritten(retried, Requeued)
<1>5. Stage("seed", "retire", old, NewJobs(W, sched.config))
  BY <1>1, <1>2, <1>3, <1>4 DEF SeedCaptureArtifacts, NewJobs
<1>6. \A j \in JobIds : old[j] = IF j \in retried THEN Requeued(jobs[j]) ELSE jobs[j]
  BY DEF Rewritten
<1>7. old = [j \in JobIds |-> old[j]]
  BY DEF Rewritten
<1> HIDE DEF old
<1>8. seen \subseteq Artifacts
  BY <1>1 DEF IInv, Typed
<1>9. \A j \in retried : j \in JobIds /\ jobs[j].target \in Artifacts /\ ~Active(j)
  <2>1. SUFFICES ASSUME NEW j \in retried
                 PROVE  j \in JobIds /\ jobs[j].target \in Artifacts /\ ~Active(j)
    OBVIOUS
  <2>2. PICK t \in seen : JobsOf(t) # {} /\ j = PriorArtifactJob(t)
    BY <1>2, <1>3
  <2>3. j \in JobsOf(t)
    BY <2>2, PriorFacts
  <2> QED BY <1>3, <1>8, <2>3 DEF JobsOf
<1>10. Kept(old)
  BY <1>6, <1>7, <1>9, RewrittenKept DEF IInv
<1>11. ASSUME Accepted(old), NEW j \in JobIds, jobs[j].state \in {"Succeeded", "Failed"}
       PROVE  old[j] = jobs[j] \/ (jobs[j].target \in Artifacts /\ jobs[j].state = "Failed")
  <2>1. jobs[j] \in Job
    BY JobIdsFacts DEF IInv, Typed
  <2>2. old[j] # jobs[j] => j \in retried /\ old[j].state = "Queued"
    BY <1>6, <2>1, RequeuedJob
  <2>3. old[j] # jobs[j] => jobs[j].state # "Succeeded"
    BY <1>11, <2>2 DEF Accepted
  <2> QED BY <1>9, <1>11, <2>2, <2>3
<1>12. ASSUME NEW t \in W PROVE Appended(NewJob(t, sched.config), old, gen)
  <2>1. t \in seen /\ t \in Artifacts
    BY <1>4, <1>8
  <2>2. ASSUME NEW j \in JobsOf(t)
        PROVE  /\ jobs[j].gen # gen[t] \/ jobs[j].config # sched.config
               /\ old[j].state \in {"Queued", "Leased"} => old[j].attempt > 1
    <3>1. PICK k \in JobsOf(t) : /\ k = PriorArtifactJob(t)
                                 /\ ~ArtifactMatches(k, t) /\ ~Active(k)
      BY <1>4, <2>2, PriorFacts
    <3>2. ~ArtifactMatches(j, t) /\ j <= k
      BY <2>2, <3>1, PriorFacts
    <3>3. /\ j \in JobIds /\ k \in JobIds /\ jobs[j].target = t /\ jobs[k].target = t
          /\ jobs[j] \in Job /\ j \in Nat /\ k \in Nat
      BY <2>2, JobIdsFacts DEF JobsOf, IInv, Typed
    <3>4. CASE j \in retried
      <4>1. old[j] = Requeued(jobs[j]) /\ jobs[j].attempt > 0
        BY <1>6, <3>3, <3>4 DEF IInv, JobsFit
      <4>2. old[j] \in Job /\ old[j].attempt > jobs[j].attempt
        BY <3>3, <4>1, RequeuedJob
      <4>3. old[j].attempt > 1
        BY <3>3, <4>1, <4>2 DEF Job
      <4> QED BY <3>2, <4>3 DEF ArtifactMatches
    <3>5. CASE j \notin retried
      <4>1. old[j] = jobs[j]
        BY <1>6, <3>3, <3>5
      <4>2. ASSUME Active(j) PROVE jobs[j].attempt > 1
        <5>1. j < k
          BY <3>1, <3>2, <3>3, <4>2
        <5> QED BY <2>1, <3>3, <4>2, <5>1 DEF IInv, SlotsApart
      <4> QED BY <3>2, <4>1, <4>2 DEF ArtifactMatches, Active
    <3> QED BY <3>4, <3>5
  <2> QED BY <2>1, <2>2, TargetsAssumption DEF Appended, NewJob, TargetsAssumption
<1>13. W \subseteq Targets
  BY <1>4, <1>8 DEF Targets
<1> QED BY <1>5, <1>10, <1>11, <1>12, <1>13, StageSound DEF StagePcs

LEMMA RetireIncompatibleSound ==
    ASSUME IInv, RetireIncompatible PROVE IInv' /\ OwnsResults /\ KeepsEnds
<1>1. PICK S : S = {j \in JobIds : /\ jobs[j].target \in Usages /\ jobs[j].state = "Queued"
                                   /\ jobs[j].config # sched.config}
  OBVIOUS
<1> DEFINE Unsupported(job) == Ended(job, "Failed", "Unsupported")
           old == Rewritten(S, Unsupported)
<1>2. \A j \in JobIds :
        old[j] = IF j \in S THEN Ended(jobs[j], "Failed", "Unsupported") ELSE jobs[j]
  BY DEF Rewritten
<1>3. old = [j \in JobIds |-> old[j]]
  BY DEF Rewritten
<1>4. Stage("retire", "usages", old, NewJobs({}, sched.config))
  BY <1>1, NoNewJobs DEF RetireIncompatible
<1> HIDE DEF old
<1>5. Kept(old)
  BY <1>2, <1>3, RewrittenKept DEF IInv, Reasons
<1>6. \A j \in JobIds : jobs[j].state \in {"Succeeded", "Failed"} => old[j] = jobs[j]
  BY <1>1, <1>2
<1> QED BY <1>4, <1>5, <1>6, StageSound DEF StagePcs

\* Stages that append jobs and touch none.
LEMMA AppendingSound ==
    ASSUME IInv, NEW pc \in StagePcs, NEW next \in StagePcs, NEW W, W \subseteq Targets,
           \A t \in W : Appended(NewJob(t, sched.config), jobs, gen),
           Stage(pc, next, jobs, NewJobs(W, sched.config))
    PROVE  IInv' /\ OwnsResults /\ KeepsEnds
<1>1. Kept(jobs)
  BY JobsKept DEF IInv
<1> QED BY <1>1, StageSound

LEMMA EnqueueProcedureConsumersSound ==
    ASSUME IInv, EnqueueProcedureConsumers PROVE IInv' /\ OwnsResults /\ KeepsEnds
<1>1. PICK W : W = {t \in Usages :
            /\ sched.optional /\ done[t] < gen[t]
            /\ \A j \in JobsOf(t) : ~Active(j)
            /\ \A j \in JobsOf(t) : ~(jobs[j].config = sched.config /\ jobs[j].gen >= gen[t])}
  OBVIOUS
<1>2. Stage("usages", "projections", jobs, NewJobs(W, sched.config))
  BY <1>1 DEF EnqueueProcedureConsumers, NewJobs
<1>4. \A t \in W : Appended(NewJob(t, sched.config), jobs, gen)
  BY <1>1, TargetsAssumption DEF Appended, NewJob, Active, TargetsAssumption
<1>5. W \subseteq Targets
  BY <1>1 DEF Targets
<1> QED BY <1>2, <1>4, <1>5, AppendingSound DEF StagePcs

LEMMA EnqueueProjectionsSound ==
    ASSUME IInv, EnqueueProjections PROVE IInv' /\ OwnsResults /\ KeepsEnds
<1>1. PICK W : W = {t \in Projections : gen[t] > 0 /\ \A j \in JobsOf(t) : jobs[j].gen # gen[t]}
  OBVIOUS
<1>2. Stage("projections", "captures", jobs, NewJobs(W, sched.config))
  BY <1>1 DEF EnqueueProjections, NewJobs
<1>4. \A t \in W : Appended(NewJob(t, sched.config), jobs, gen)
  BY <1>1, TargetsAssumption DEF Appended, NewJob, TargetsAssumption
<1>5. W \subseteq Targets
  BY <1>1 DEF Targets
<1> QED BY <1>2, <1>4, <1>5, AppendingSound DEF StagePcs

LEMMA EnqueueCapturesSound ==
    ASSUME IInv, EnqueueCaptures PROVE IInv' /\ OwnsResults /\ KeepsEnds
<1>1. PICK Pending : Pending = {t \in Captures : done[t] < gen[t]}
  OBVIOUS
<1>2. PICK S : S = {j \in JobIds : /\ jobs[j].target \in Pending /\ Active(j)
                                   /\ ~CaptureMatches(j, jobs[j].target)}
  OBVIOUS
<1>3. PICK W : W = {u \in Pending : ~CaptureTargetCovered(u)}
  OBVIOUS
<1> DEFINE Retire(job) == Ended(job, "Failed", IF job.gen = gen[job.target]
                                               THEN "Unsupported" ELSE "StaleGeneration")
           old == Rewritten(S, Retire)
<1>4. Stage("captures", "select", old, NewJobs(W, sched.config))
  BY <1>1, <1>2, <1>3 DEF EnqueueCaptures, NewJobs
<1>5. \A j \in JobIds :
        old[j] = IF j \in S
                 THEN Ended(jobs[j], "Failed", IF jobs[j].gen = gen[jobs[j].target]
                                               THEN "Unsupported" ELSE "StaleGeneration")
                 ELSE jobs[j]
  BY DEF Rewritten
<1>6. old = [j \in JobIds |-> old[j]]
  BY DEF Rewritten
<1> HIDE DEF old
<1>7. \A j \in JobIds : \/ j \notin S /\ old[j] = jobs[j]
                        \/ j \in S /\ \E reason \in Reasons :
                                        old[j] = Ended(jobs[j], "Failed", reason)
  <2>1. "Unsupported" \in Reasons /\ "StaleGeneration" \in Reasons
    BY DEF Reasons
  <2> QED BY <1>5, <2>1
<1>8. Kept(old)
  BY <1>6, <1>7, RewrittenKept DEF IInv
<1>9. \A j \in JobIds : jobs[j].state \in {"Succeeded", "Failed"} => old[j] = jobs[j]
  BY <1>2, <1>7 DEF Active
<1>11. ASSUME NEW t \in W, NEW j \in JobsOf(t) PROVE old[j].state \notin {"Queued", "Leased"}
  <2>1. ~CaptureMatches(j, t) /\ jobs[j].target = t /\ j \in JobIds /\ t \in Pending
    BY <1>3 DEF CaptureTargetCovered, JobsOf
  <2>2. CASE j \in S
    <3>1. jobs[j] \in Job
      BY <2>1, JobIdsFacts DEF IInv, Typed
    <3> QED BY <1>7, <2>1, <2>2, <3>1, EndedJob
  <2>3. CASE j \notin S
    BY <1>2, <1>7, <2>1, <2>3 DEF Active
  <2> QED BY <2>2, <2>3
<1>12. \A t \in W : Appended(NewJob(t, sched.config), old, gen)
  BY <1>1, <1>3, <1>11, TargetsAssumption DEF Appended, NewJob, TargetsAssumption
<1>13. W \subseteq Targets
  BY <1>1, <1>3 DEF Targets
<1> QED BY <1>4, <1>8, <1>9, <1>12, <1>13, StageSound DEF StagePcs
-----------------------------------------------------------------------------
(* Steps that leave the jobs alone, and steps that change one of them.       *)

LEMMA FaultFacts ==
    ASSUME env \in Setting, Fault
    PROVE  env' \in Setting
<1>1. PICK n \in Nat : n = env.left - 1
  BY DEF Fault, Setting
<1>2. env' = [env EXCEPT !.left = n]
  BY <1>1 DEF Fault
<1> QED BY <1>2 DEF Setting

LEMMA SameJobs ==
    ASSUME IInv, UNCHANGED jobs, InputGrows, ConfigHolds, done' \in [Targets -> Nat],
           present' \subseteq Artifacts,
           env' \in Setting, sched' \in Round
    PROVE  /\ Typed' /\ JobsFit' /\ SlotsApart' /\ KeepsEnds
           /\ JobIds' = JobIds /\ Len(jobs') = Len(jobs) /\ Len(jobs) \in Nat
<1>1. Kept(jobs) /\ Len(jobs) \in Nat
  BY JobsKept, JobIdsFacts DEF IInv, Typed
<1>2. jobs' \in Seq(Job) /\ JobsFit' /\ SlotsApart' /\ JobIds' = JobIds
  BY <1>1, KeptApart DEF IInv
<1>3. KeepsEnds
  BY DEF KeepsEnds
<1>5. Typed'
  BY <1>2 DEF Typed, InputGrows, ConfigHolds
<1> QED BY <1>1, <1>2, <1>3, <1>5

\* The same with everything but the round and what is done left alone.
LEMMA QuietStep ==
    ASSUME IInv, UNCHANGED <<jobs, gen, config>>, done' \in [Targets -> Nat],
           present' \subseteq present,
           env' \in Setting, sched' \in Round
    PROVE  /\ Typed' /\ JobsFit' /\ SlotsApart' /\ KeepsEnds
           /\ JobIds' = JobIds /\ Len(jobs') = Len(jobs) /\ Len(jobs) \in Nat
<1>1. InputGrows /\ ConfigHolds /\ present' \subseteq Artifacts
  BY InputStays DEF IInv, Typed
<1> QED BY <1>1, SameJobs

LEMMA EditedJob ==
    ASSUME IInv, NEW j \in JobIds, NEW job \in Job,
           job.target = jobs[j].target, job.gen = jobs[j].gen, job.config = jobs[j].config,
           job.attempt \in {jobs[j].attempt, jobs[j].attempt + 1},
           job.state = "Leased" => job.lease # "none",
           job.state \in {"Queued", "Leased"} => Active(j),
           jobs' = [jobs EXCEPT ![j] = job],
           UNCHANGED <<gen, config>>, done' \in [Targets -> Nat], present' \subseteq present,
           env' \in Setting, sched' \in Round
    PROVE  /\ Typed' /\ JobsFit' /\ SlotsApart'
           /\ JobIds' = JobIds /\ Len(jobs') = Len(jobs) /\ Len(jobs) \in Nat
           /\ \A k \in JobIds : jobs'[k] = IF k = j THEN job ELSE jobs[k]
<1>1. PICK js : js = [jobs EXCEPT ![j] = job]
  OBVIOUS
<1>2. Kept(js) /\ \A k \in JobIds : js[k] = IF k = j THEN job ELSE jobs[k]
  <2>1. jobs[j].attempt \in Nat
    BY JobIdsFacts DEF IInv, Typed, Job
  <2>2. job.attempt >= jobs[j].attempt
    BY <2>1
  <2> QED BY <1>1, <2>2, EditedKept DEF IInv
<1>3. InputGrows /\ ConfigHolds
  BY InputStays DEF IInv
<1>4. jobs' \in Seq(Job) /\ JobIds' = JobIds /\ JobsFit' /\ SlotsApart'
  BY <1>1, <1>2, <1>3, KeptApart DEF IInv
<1>5. Typed'
  BY <1>4 DEF IInv, Typed
<1>6. Len(jobs') = Len(jobs) /\ Len(jobs) \in Nat
  BY <1>1, <1>2, JobIdsFacts DEF IInv, Typed, Kept
<1> QED BY <1>1, <1>2, <1>4, <1>5, <1>6

\* Someone else's commit.
LEMMA StaledFits ==
    ASSUME IInv, sched' = Staled(sched), JobIds \subseteq JobIds',
           Len(jobs) \in Nat, Len(jobs') \in Nat, Len(jobs) <= Len(jobs'),
           \A j \in JobIds : jobs'[j].target = jobs[j].target,
           config' \in Configs
    PROVE  sched' \in Round /\ RoundFits'
<1>1. PICK s \in {"none", "stale"} : s = IF sched.snap = "fresh" THEN "stale" ELSE sched.snap
  BY DEF IInv, Typed, Round
<1>2. sched \in Round /\ sched' = [sched EXCEPT !.snap = s]
  BY <1>1 DEF Staled, IInv, Typed
<1>3. /\ sched' \in Round /\ sched'.pc = sched.pc /\ sched'.todo = sched.todo
      /\ sched'.job = sched.job /\ sched'.config = sched.config /\ sched'.snap = s
      /\ sched'.result = sched.result
  BY <1>2 DEF Round
<1> QED BY <1>1, <1>3 DEF IInv, RoundFits, Working

LEMMA NextJobRound ==
    ASSUME sched \in Round
    PROVE  /\ NextJob \in Round /\ NextJob.pc = "run" /\ NextJob.todo = sched.todo
           /\ NextJob.job = 0 /\ NextJob.config = sched.config
<1>1. PICK n \in Nat : n = 0
  OBVIOUS
<1>2. PICK m \in 0..2 : m = 0
  OBVIOUS
<1>3. NextJob = [sched EXCEPT !.pc = "run", !.job = n, !.snap = "none", !.tries = m,
                              !.result = "none"]
  BY <1>1, <1>2 DEF NextJob
<1> QED BY <1>1, <1>2, <1>3 DEF Round

LEMMA NextJobFits ==
    ASSUME IInv, sched.pc \in Working, sched' = NextJob, JobIds' = JobIds,
           Len(jobs') = Len(jobs), Len(jobs) \in Nat,
           UNCHANGED config
    PROVE  sched' \in Round /\ RoundFits'
<1>1. /\ sched \in Round /\ sched' \in Round /\ sched'.pc = "run" /\ sched'.todo = sched.todo
      /\ sched'.job = 0 /\ sched'.config = sched.config
  BY NextJobRound DEF IInv, Typed
<1>2. sched'.pc \notin Working /\ sched.pc \notin {"idle", "failed"}
  BY <1>1 DEF Working
<1> QED BY <1>1, <1>2, RestingFits DEF IInv, RoundFits

\* The end of the job of the round.
LEMMA FinishSound ==
    ASSUME IInv, sched.pc \in Working,
           NEW state \in {"Succeeded", "Failed"}, NEW reason \in Reasons,
           Finish(state, reason),
           UNCHANGED <<gen, config>>, done' \in [Targets -> Nat], present' \subseteq present,
           env' \in Setting
    PROVE  /\ IInv' /\ KeepsEnds
           /\ sched.snap = "fresh" =>
                sched.job \in JobIds /\ jobs[sched.job].state = "Leased"
                /\ jobs'[sched.job].state = state
<1>1. sched' = NextJob /\ sched \in Round
  BY DEF Finish, IInv, Typed
<1>2. sched' \in Round
  BY <1>1, NextJobRound
<1>3. PICK j \in JobIds : j = sched.job
  BY DEF IInv, RoundFits
<1>4. CASE sched.snap = "fresh"
  <2>1. jobs[j] \in Job /\ jobs[j].state = "Leased"
    BY <1>3, <1>4, JobIdsFacts DEF IInv, Typed, RoundFits
  <2>2. PICK job : job = Ended(jobs[j], state, reason)
    OBVIOUS
  <2>3. /\ job \in Job /\ job.target = jobs[j].target /\ job.gen = jobs[j].gen
        /\ job.config = jobs[j].config /\ job.state = state
        /\ job.attempt = jobs[j].attempt
    BY <2>1, <2>2, EndedJob
  <2>4. jobs' = [jobs EXCEPT ![j] = job]
    BY <1>3, <1>4, <2>2 DEF Finish
  <2>5. /\ Typed' /\ JobsFit' /\ SlotsApart'
        /\ JobIds' = JobIds /\ Len(jobs') = Len(jobs) /\ Len(jobs) \in Nat
        /\ \A k \in JobIds : jobs'[k] = IF k = j THEN job ELSE jobs[k]
    BY <1>2, <2>3, <2>4, EditedJob
  <2>6. KeepsEnds
    BY <2>1, <2>5 DEF KeepsEnds
  <2> QED BY <1>1, <1>3, <2>1, <2>3, <2>5, <2>6, NextJobFits DEF IInv
<1>5. CASE sched.snap # "fresh"
  <2>1. UNCHANGED jobs
    BY <1>5 DEF Finish
  <2>2. /\ Typed' /\ JobsFit' /\ SlotsApart' /\ KeepsEnds
        /\ JobIds' = JobIds /\ Len(jobs') = Len(jobs) /\ Len(jobs) \in Nat
    BY <1>2, <2>1, QuietStep
  <2> QED BY <1>1, <1>5, <2>2, NextJobFits DEF IInv
<1> QED BY <1>4, <1>5
-----------------------------------------------------------------------------
(* The rest of the daemon, and the clock.                                    *)

LEMMA IdleRound ==
    /\ Idle \in Round /\ Idle.pc = "idle" /\ Idle.todo = {} /\ Idle.job = 0
    /\ sched \in Round => /\ RoundOver \in Round /\ RoundOver.pc = "idle"
                          /\ RoundOver.todo = {} /\ RoundOver.job = 0
<1>1. Idle \in Round /\ Idle.pc = "idle" /\ Idle.todo = {} /\ Idle.job = 0
  BY DEF Idle, Round
<1>2. ASSUME sched \in Round
      PROVE  /\ RoundOver \in Round /\ RoundOver.pc = "idle"
             /\ RoundOver.todo = {} /\ RoundOver.job = 0
  <2>1. PICK b \in BOOLEAN : b = sched.polled
    BY <1>2 DEF Round
  <2>2. RoundOver = [Idle EXCEPT !.polled = b]
    BY <2>1 DEF RoundOver
  <2> QED BY <1>1, <2>2 DEF Round
<1> QED BY <1>1, <1>2

LEMMA SameRoundFits ==
    ASSUME IInv, UNCHANGED <<sched, config>>, JobIds' = JobIds, Len(jobs') = Len(jobs),
           \A j \in JobIds : jobs'[j].state = jobs[j].state /\ jobs'[j].target = jobs[j].target
    PROVE  sched' \in Round /\ RoundFits'
BY DEF IInv, Typed, RoundFits, Working

\* A step that leaves what is done alone credits nobody.
LEMMA NothingOwned == ASSUME UNCHANGED done PROVE OwnsResults
BY DEF OwnsResults

LEMMA SupportChangesSound ==
    ASSUME IInv, NEW t \in Targets, SupportChanges(t) PROVE IInv' /\ OwnsResults /\ KeepsEnds
<1>1. t \in Closures /\ gen \in [Targets -> Nat] /\ config \in Configs /\ env' = env
  BY DEF SupportChanges, IInv, Typed
<1>2. PICK n \in Nat : n = gen[t] + 1
  BY <1>1
<1>3. PICK newest \in [Targets -> Nat] : newest = [gen EXCEPT ![t] = n]
  BY <1>1
<1>4. gen' = newest /\ newest[t] = n /\ \A u \in Targets : gen[u] <= newest[u]
  BY <1>1, <1>2, <1>3 DEF SupportChanges
<1>5. PICK job : job = [target |-> t, gen |-> n, config |-> config, state |-> "Queued",
                        attempt |-> 1, lease |-> "none", backoff |-> "none", reason |-> "none"]
  OBVIOUS
<1>6. job \in Job
  <2>1. t \in Targets /\ n \in Nat /\ config \in Configs /\ 1 \in Nat
    BY <1>1
  <2> QED BY <1>5, <2>1 DEF Job, JobStatus, Reasons
<1>7. PICK r : r = Append(jobs, job)
  OBVIOUS
<1>8. jobs' = r
  BY <1>2, <1>5, <1>7 DEF SupportChanges, NewJob
<1>9. /\ r \in Seq(Job) /\ Len(r) = Len(jobs) + 1 /\ Len(jobs) \in Nat
      /\ JobIds = 1..Len(jobs)
      /\ \A j \in 1..Len(jobs) : r[j] = jobs[j]
      /\ \A j \in (Len(jobs) + 1)..Len(r) : j = Len(jobs) + 1 /\ r[j] = job
  BY <1>6, <1>7, AppendProperties, JobIdsFacts DEF IInv, Typed
<1>10. Appended(job, jobs, newest)
  <2>1. gen[t] < n /\ newest[t] = n
    BY <1>1, <1>2, <1>4
  <2> QED BY <1>1, <1>5, <2>1, TargetsAssumption DEF Appended, TargetsAssumption
<1>11. Kept(jobs)
  BY JobsKept DEF IInv
<1>12. jobs' \in Seq(Job) /\ JobIds \subseteq JobIds' /\ JobsFit' /\ SlotsApart'
  <2>1. Len(jobs) <= Len(r)
    BY <1>9
  <2>2. \A j \in (Len(jobs) + 1)..Len(r) : Appended(r[j], jobs, newest)
    BY <1>9, <1>10
  <2>3. \A i, j \in (Len(jobs) + 1)..Len(r) : i # j => r[i].target # r[j].target
    BY <1>9
  <2>4. PICK c \in Configs : c = config
    BY <1>1
  <2>5. config' = c
    BY <1>1, <2>4 DEF SupportChanges
  <2>6. r \in Seq(Job) /\ \A j \in 1..Len(jobs) : r[j] = jobs[j]
    BY <1>9
  <2> QED BY <1>4, <1>8, <1>11, <2>1, <2>2, <2>3, <2>5, <2>6, GrownApart DEF IInv
<1>13. sched' \in Round /\ RoundFits'
  BY <1>1, <1>8, <1>9, <1>12, StaledFits DEF SupportChanges
<1>14. Typed'
  BY <1>3, <1>4, <1>12, <1>13 DEF IInv, Typed, SupportChanges
<1>15. OwnsResults /\ KeepsEnds
  BY <1>8, <1>9, NothingOwned DEF KeepsEnds, SupportChanges
<1> QED BY <1>12, <1>13, <1>14, <1>15 DEF IInv

LEMMA EvidenceArrivesSound ==
    ASSUME IInv, NEW t \in Targets, EvidenceArrives(t) PROVE IInv' /\ OwnsResults /\ KeepsEnds
<1>1. gen \in [Targets -> Nat] /\ env' = env /\ done' = done /\ env \in Setting
  BY DEF EvidenceArrives, IInv, Typed
<1>2. PICK n \in Nat : n = gen[t] + 1
  BY <1>1
<1>3. gen' = [gen EXCEPT ![t] = n]
  BY <1>2 DEF EvidenceArrives
<1>4. InputGrows /\ ConfigHolds
  BY <1>1, <1>2, <1>3 DEF InputGrows, ConfigHolds, IInv, Typed, EvidenceArrives
<1>5. Len(jobs) \in Nat
  BY JobIdsFacts DEF IInv, Typed
<1>6. sched' \in Round /\ RoundFits'
  BY <1>1, <1>5, StaledFits DEF EvidenceArrives, JobIds, IInv, Typed
<1>7. Typed' /\ JobsFit' /\ SlotsApart' /\ KeepsEnds
  BY <1>1, <1>4, <1>6, SameJobs DEF EvidenceArrives, IInv, Typed
<1> QED BY <1>1, <1>6, <1>7, NothingOwned DEF IInv

LEMMA ArtifactAppearsSound ==
    ASSUME IInv, NEW t \in Artifacts, ArtifactAppears(t) PROVE IInv' /\ OwnsResults /\ KeepsEnds
<1>1. UNCHANGED <<jobs, gen, done, config, sched>>
  BY DEF ArtifactAppears
<1>2. env' \in Setting
  BY FaultFacts DEF ArtifactAppears, IInv, Typed
<1>3. present' \subseteq Artifacts
  BY DEF ArtifactAppears, IInv, Typed
<1>4. InputGrows /\ ConfigHolds /\ done' \in [Targets -> Nat] /\ sched' \in Round
  BY <1>1, InputStays DEF IInv, Typed
<1>5. Typed' /\ JobsFit' /\ SlotsApart' /\ KeepsEnds /\ JobIds' = JobIds /\ Len(jobs') = Len(jobs)
  BY <1>1, <1>2, <1>3, <1>4, SameJobs
<1>6. RoundFits'
  BY <1>1, <1>2, <1>5, SameRoundFits
<1> QED BY <1>1, <1>5, <1>6, NothingOwned DEF IInv

LEMMA PurgeRevokesSound ==
    ASSUME IInv, NEW t \in Targets, PurgeRevokes(t) PROVE IInv' /\ OwnsResults /\ KeepsEnds
<1>1. PICK S : S = {j \in JobsOf(t) : Active(j)}
  OBVIOUS
<1> DEFINE Revoked(job) == Ended(job, "Failed", "Revoked")
<1>2. PICK js : js = Rewritten(S, Revoked)
  OBVIOUS
<1>3. /\ t \in Captures /\ Fault /\ jobs' = js /\ sched' = Staled(sched)
      /\ done' = [done EXCEPT ![t] = gen[t]]
      /\ UNCHANGED <<gen, present, config>>
  BY <1>1, <1>2 DEF PurgeRevokes
<1>4. \A j \in JobIds : js[j] = IF j \in S THEN Ended(jobs[j], "Failed", "Revoked") ELSE jobs[j]
  BY <1>2 DEF Rewritten
<1>5. js = [j \in JobIds |-> js[j]]
  BY <1>2 DEF Rewritten
<1>6. Kept(js)
  BY <1>4, <1>5, RewrittenKept DEF IInv, Reasons
<1>7. env' \in Setting
  BY <1>3, FaultFacts DEF IInv, Typed
<1>8. InputGrows /\ ConfigHolds
  BY <1>3, InputStays DEF IInv
<1>9. jobs' \in Seq(Job) /\ JobIds' = JobIds /\ JobsFit' /\ SlotsApart'
  BY <1>3, <1>6, <1>7, <1>8, KeptApart DEF IInv
<1>10. Len(jobs') = Len(jobs) /\ Len(jobs) \in Nat
  BY <1>3, <1>6, JobIdsFacts DEF Kept, IInv, Typed
<1>11. sched' \in Round /\ RoundFits'
  BY <1>3, <1>6, <1>8, <1>9, <1>10, StaledFits DEF Kept, ConfigHolds
<1>12. Typed'
  <2>1. done' \in [Targets -> Nat]
    BY <1>3 DEF IInv, Typed
  <2> QED BY <1>3, <1>7, <1>9, <1>11, <2>1 DEF IInv, Typed
<1>13. KeepsEnds
  BY <1>1, <1>3, <1>4 DEF KeepsEnds, Active
<1>14. OwnsResults
  <2>1. \A u \in Targets : u # t => done'[u] = done[u]
    BY <1>3 DEF IInv, Typed
  <2>2. \A u \in Closures \union Usages \union Projections : u \in Targets /\ u # t
    BY <1>3, TargetsAssumption DEF TargetsAssumption, Targets
  <2> QED BY <2>1, <2>2 DEF OwnsResults
<1> QED BY <1>9, <1>11, <1>12, <1>13, <1>14 DEF IInv

LEMMA ConfigReloadsSound ==
    ASSUME IInv, ConfigReloads PROVE IInv' /\ OwnsResults /\ KeepsEnds
<1>1. /\ UNCHANGED <<jobs, gen, done, present>> /\ sched' = Staled(sched)
      /\ config' \in Configs
  BY DEF ConfigReloads
<1>2. env' \in Setting
  BY FaultFacts DEF ConfigReloads, IInv, Typed
<1>3. InputGrows /\ ConfigHolds
  BY <1>1 DEF InputGrows, ConfigHolds, IInv, Typed
<1>4. Len(jobs) \in Nat
  BY JobIdsFacts DEF IInv, Typed
<1>5. sched' \in Round /\ RoundFits'
  BY <1>1, <1>2, <1>4, StaledFits DEF JobIds
<1>6. Typed' /\ JobsFit' /\ SlotsApart' /\ KeepsEnds
  BY <1>1, <1>2, <1>3, <1>5, SameJobs DEF IInv, Typed
<1> QED BY <1>1, <1>5, <1>6, NothingOwned DEF IInv

LEMMA KillSound == ASSUME IInv, Kill PROVE IInv' /\ OwnsResults /\ KeepsEnds
<1>1. UNCHANGED <<jobs, gen, done, present, config>> /\ sched' = Idle
  BY DEF Kill
<1>2. env' \in Setting
  BY FaultFacts DEF Kill, IInv, Typed
<1>3. sched' \in Round /\ sched'.pc = "idle" /\ sched'.todo = {} /\ sched'.job = 0
  BY <1>1, IdleRound
<1>4. /\ Typed' /\ JobsFit' /\ SlotsApart' /\ KeepsEnds
      /\ Len(jobs') = Len(jobs) /\ Len(jobs) \in Nat
  BY <1>1, <1>2, <1>3, QuietStep DEF IInv, Typed
<1>5. RoundFits'
  BY <1>3, <1>4, RestingFits DEF IInv, Typed, Working
<1> QED BY <1>1, <1>4, <1>5, NothingOwned DEF IInv

\* The steps of the scheduler that only change where the round is.
LEMMA RestingStep ==
    ASSUME IInv, UNCHANGED <<jobs, gen, done, present, config, env>>,
           sched' \in Round, sched'.pc \notin Working,
           sched'.todo \subseteq JobIds, sched'.job \in {0, sched.job},
           sched'.pc \notin {"idle", "failed"} =>
             sched'.config = IF sched.pc \in {"idle", "failed"} THEN config ELSE sched.config
    PROVE  IInv' /\ OwnsResults /\ KeepsEnds
<1>1. /\ Typed' /\ JobsFit' /\ SlotsApart' /\ KeepsEnds
      /\ JobIds' = JobIds /\ Len(jobs') = Len(jobs) /\ Len(jobs) \in Nat
  BY QuietStep DEF IInv, Typed
<1>2. sched'.job \in 0..Len(jobs')
  BY <1>1 DEF IInv, RoundFits
<1>3. sched'.pc \notin {"idle", "failed"} =>
        sched'.config \in Configs
  BY DEF IInv, Typed, RoundFits
<1>4. RoundFits'
  BY <1>1, <1>2, <1>3, RestingFits DEF IInv, Typed
<1> QED BY <1>1, <1>4, NothingOwned DEF IInv

LEMMA RestartSound == ASSUME IInv, Restart PROVE IInv' /\ OwnsResults /\ KeepsEnds
<1>1. sched' = Idle /\ sched' \in Round /\ sched'.pc = "idle" /\ sched'.todo = {} /\ sched'.job = 0
  BY IdleRound DEF Restart
<1> QED BY <1>1, RestingStep DEF Restart, Working

LEMMA LeaseExpiresSound ==
    ASSUME IInv, NEW j \in JobIds, LeaseExpires(j) PROVE IInv' /\ OwnsResults /\ KeepsEnds
<1>1. jobs[j] \in Job /\ jobs[j].state = "Leased"
  BY JobIdsFacts DEF IInv, Typed, LeaseExpires
<1>2. PICK job : job = [jobs[j] EXCEPT !.lease = "expired"]
  OBVIOUS
<1>3. /\ job \in Job /\ job.target = jobs[j].target /\ job.gen = jobs[j].gen
      /\ job.config = jobs[j].config /\ job.state = "Leased" /\ job.lease = "expired"
      /\ job.attempt = jobs[j].attempt
  BY <1>1, <1>2 DEF Job
<1>4. jobs' = [jobs EXCEPT ![j] = job] /\ UNCHANGED <<gen, done, present, config, sched>>
  BY <1>2 DEF LeaseExpires
<1>5. env' \in Setting
  BY FaultFacts DEF LeaseExpires, IInv, Typed
<1>6. /\ Typed' /\ JobsFit' /\ SlotsApart' /\ JobIds' = JobIds /\ Len(jobs') = Len(jobs)
      /\ \A k \in JobIds : jobs'[k] = IF k = j THEN job ELSE jobs[k]
  BY <1>1, <1>3, <1>4, <1>5, EditedJob DEF Active, IInv, Typed
<1>7. RoundFits'
  BY <1>1, <1>3, <1>4, <1>5, <1>6, SameRoundFits
<1>8. KeepsEnds
  BY <1>1, <1>6 DEF KeepsEnds
<1> QED BY <1>4, <1>6, <1>7, <1>8, NothingOwned DEF IInv

LEMMA BackoffPassesSound ==
    ASSUME IInv, NEW j \in JobIds, BackoffPasses(j) PROVE IInv' /\ OwnsResults /\ KeepsEnds
<1>1. jobs[j] \in Job
  BY JobIdsFacts DEF IInv, Typed
<1>2. PICK job : job = [jobs[j] EXCEPT !.backoff = "due"]
  OBVIOUS
<1>3. /\ job \in Job /\ job.target = jobs[j].target /\ job.gen = jobs[j].gen
      /\ job.config = jobs[j].config /\ job.state = jobs[j].state
      /\ job.lease = jobs[j].lease /\ job.reason = jobs[j].reason
      /\ job.attempt = jobs[j].attempt
  BY <1>1, <1>2 DEF Job
<1>4. /\ jobs' = [jobs EXCEPT ![j] = job]
      /\ UNCHANGED <<gen, done, present, config, sched, env>>
  BY <1>2 DEF BackoffPasses
<1>5. job.state = "Leased" => job.lease # "none"
  BY <1>3 DEF IInv, JobsFit
<1>6. /\ Typed' /\ JobsFit' /\ SlotsApart' /\ JobIds' = JobIds /\ Len(jobs') = Len(jobs)
      /\ \A k \in JobIds : jobs'[k] = IF k = j THEN job ELSE jobs[k]
  BY <1>3, <1>4, <1>5, EditedJob DEF Active, IInv, Typed
<1>7. RoundFits'
  BY <1>3, <1>4, <1>6, SameRoundFits
<1>8. KeepsEnds
  BY <1>3, <1>6 DEF KeepsEnds
<1> QED BY <1>4, <1>6, <1>7, <1>8, NothingOwned DEF IInv

LEMMA PollDueSound == ASSUME IInv, PollDue PROVE IInv' /\ OwnsResults /\ KeepsEnds
<1>1. /\ sched' \in Round /\ sched'.pc = sched.pc /\ sched'.todo = sched.todo
      /\ sched'.job = sched.job /\ sched'.config = sched.config /\ sched'.snap = sched.snap
      /\ sched'.result = sched.result
  BY DEF PollDue, IInv, Typed, Round
<1>2. UNCHANGED <<jobs, gen, done, present, config, env>>
  BY DEF PollDue
<1>3. Typed' /\ JobsFit' /\ SlotsApart' /\ KeepsEnds /\ JobIds' = JobIds
  BY <1>1, <1>2, QuietStep DEF IInv, Typed
<1>4. RoundFits'
  BY <1>1, <1>2, <1>3 DEF IInv, RoundFits, Working
<1> QED BY <1>2, <1>3, <1>4, NothingOwned DEF IInv
-----------------------------------------------------------------------------
(* The round, its selection and its claims.                                  *)

LEMMA RoundStartsSound ==
    ASSUME IInv, NEW o \in BOOLEAN, RoundStarts(o) PROVE IInv' /\ OwnsResults /\ KeepsEnds
<1>1. sched' = [RoundOver EXCEPT !.pc = "recover", !.config = config, !.optional = o]
  BY DEF RoundStarts
<1>2. RoundOver \in Round /\ RoundOver.todo = {} /\ RoundOver.job = 0 /\ config \in Configs
  BY IdleRound DEF IInv, Typed
<1>3. /\ sched' \in Round /\ sched'.pc = "recover" /\ sched'.todo = {} /\ sched'.job = 0
      /\ sched'.config = config
  BY <1>1, <1>2 DEF Round, StagePcs
<1>4. sched.pc = "idle"
  BY DEF RoundStarts
<1> QED BY <1>3, <1>4, RestingStep DEF RoundStarts, Working

LEMMA ProjectSound == ASSUME IInv, Project PROVE IInv' /\ OwnsResults /\ KeepsEnds
<1>1. /\ sched' \in Round /\ sched'.pc = sched.pc /\ sched'.todo = sched.todo
      /\ sched'.job = sched.job /\ sched'.config = sched.config
  BY DEF Project, IInv, Typed, Round
<1>2. sched.pc \notin Working /\ sched.pc \notin {"idle", "failed"} /\ sched.todo \subseteq JobIds
  BY DEF Project, Working, IInv, RoundFits
<1> QED BY <1>1, <1>2, RestingStep DEF Project

LEMMA RoundOverSound ==
    ASSUME IInv, sched' = RoundOver, UNCHANGED <<jobs, gen, done, present, config, env>>
    PROVE  IInv' /\ OwnsResults /\ KeepsEnds
<1>1. sched' \in Round /\ sched'.pc = "idle" /\ sched'.todo = {} /\ sched'.job = 0
  BY IdleRound DEF IInv, Typed
<1> QED BY <1>1, RestingStep DEF Working

LEMMA SelectJobsSound == ASSUME IInv, SelectJobs PROVE IInv' /\ OwnsResults /\ KeepsEnds
<1>1. UNCHANGED <<jobs, gen, done, present, config, env>> /\ sched.pc = "select"
  BY DEF SelectJobs
<1>2. CASE Fails("duplicate")
  BY <1>1, <1>2, FailedRound, RestingStep DEF Working
<1>3. ASSUME NEW S \in SUBSET JobIds,
             sched' = [sched EXCEPT !.pc = "run", !.todo = S, !.snap = "none"]
      PROVE  IInv' /\ OwnsResults /\ KeepsEnds
  <2>1. S \in SUBSET Nat
    BY JobIdsFacts DEF IInv, Typed
  <2>2. /\ sched' \in Round /\ sched'.pc = "run" /\ sched'.todo = S
        /\ sched'.job = sched.job /\ sched'.config = sched.config
    BY <1>3, <2>1 DEF IInv, Typed, Round
  <2> QED BY <1>1, <2>2, RestingStep DEF Working
<1> QED BY <1>2, <1>3 DEF SelectJobs

\* One selected job less.
LEMMA PassedRound ==
    ASSUME IInv, NEW j
    PROVE  /\ Passed(j) \in Round /\ Passed(j).pc = sched.pc
           /\ Passed(j).todo \subseteq JobIds /\ Passed(j).job = sched.job
           /\ Passed(j).config = sched.config /\ Passed(j).snap = sched.snap
<1>1. PICK S : S = sched.todo \ {j}
  OBVIOUS
<1>2. sched \in Round /\ S \in SUBSET Nat /\ S \subseteq JobIds
  BY <1>1 DEF IInv, Typed, RoundFits, Round
<1>3. Passed(j) = [sched EXCEPT !.todo = S]
  BY <1>1 DEF Passed
<1> QED BY <1>2, <1>3 DEF Round

LEMMA ClaimSkipsSound == ASSUME IInv, ClaimSkips PROVE IInv' /\ OwnsResults /\ KeepsEnds
<1>1. PICK j \in sched.todo : /\ IF Claimable(j) THEN Fault ELSE UNCHANGED env
                              /\ sched' = Passed(j)
  BY DEF ClaimSkips
<1>2. sched.pc = "run" /\ UNCHANGED <<jobs, gen, done, present, config>>
  BY DEF ClaimSkips
<1>3. env' \in Setting
  BY <1>1, FaultFacts DEF IInv, Typed
<1>4. /\ sched' \in Round /\ sched'.pc = "run" /\ sched'.todo \subseteq JobIds
      /\ sched'.job = sched.job /\ sched'.config = sched.config
  BY <1>1, <1>2, PassedRound
<1>5. Typed' /\ JobsFit' /\ SlotsApart' /\ KeepsEnds /\ JobIds' = JobIds /\ Len(jobs') = Len(jobs)
  BY <1>2, <1>3, <1>4, QuietStep DEF IInv, Typed
<1>6. RoundFits'
  BY <1>2, <1>3, <1>4, <1>5 DEF IInv, RoundFits, Working
<1> QED BY <1>2, <1>5, <1>6, NothingOwned DEF IInv

LEMMA ClaimFindsStaleSound ==
    ASSUME IInv, ClaimFindsStale PROVE IInv' /\ OwnsResults /\ KeepsEnds
<1>1. PICK j \in sched.todo :
        /\ Claimable(j) /\ sched' = Passed(j)
        /\ jobs' = [jobs EXCEPT ![j] = Ended(@, "Failed", "StaleGeneration")]
  BY DEF ClaimFindsStale
<1>2. sched.pc = "run" /\ UNCHANGED <<gen, done, present, config, env>>
  BY DEF ClaimFindsStale
<1>3. j \in JobIds /\ jobs[j] \in Job /\ jobs[j].state = "Queued"
  BY <1>1, JobIdsFacts DEF IInv, Typed, RoundFits, Claimable
<1>4. PICK job : job = Ended(jobs[j], "Failed", "StaleGeneration")
  OBVIOUS
<1>5. /\ job \in Job /\ job.target = jobs[j].target /\ job.gen = jobs[j].gen
      /\ job.config = jobs[j].config /\ job.state = "Failed"
      /\ job.attempt = jobs[j].attempt
  BY <1>3, <1>4, EndedJob DEF Reasons
<1>6. jobs' = [jobs EXCEPT ![j] = job]
  BY <1>1, <1>4
<1>7. /\ sched' \in Round /\ sched'.pc = "run" /\ sched'.todo \subseteq JobIds
      /\ sched'.job = sched.job /\ sched'.config = sched.config
  BY <1>1, <1>2, PassedRound
<1>8. /\ Typed' /\ JobsFit' /\ SlotsApart' /\ JobIds' = JobIds /\ Len(jobs') = Len(jobs)
      /\ \A k \in JobIds : jobs'[k] = IF k = j THEN job ELSE jobs[k]
  BY <1>2, <1>3, <1>5, <1>6, <1>7, EditedJob DEF IInv, Typed
<1>9. RoundFits'
  BY <1>2, <1>7, <1>8 DEF IInv, RoundFits, Working
<1>10. KeepsEnds
  BY <1>3, <1>8 DEF KeepsEnds
<1> QED BY <1>2, <1>8, <1>9, <1>10, NothingOwned DEF IInv

LEMMA ClaimJobSound == ASSUME IInv, ClaimJob PROVE IInv' /\ OwnsResults /\ KeepsEnds
<1>1. PICK j \in sched.todo :
        /\ Claimable(j)
        /\ jobs' = [jobs EXCEPT ![j] = [jobs[j] EXCEPT !.state = "Leased", !.attempt = @ + 1,
                                                     !.lease = "live"]]
        /\ sched' = [Passed(j) EXCEPT !.pc = "exec", !.job = j]
  BY DEF ClaimJob
<1>2. sched.pc = "run" /\ UNCHANGED <<gen, done, present, config, env>>
  BY DEF ClaimJob
<1>3. j \in JobIds /\ jobs[j] \in Job /\ jobs[j].state = "Queued" /\ j \in Nat
  BY <1>1, JobIdsFacts DEF IInv, Typed, RoundFits, Claimable
<1>4. PICK n \in Nat : n = jobs[j].attempt + 1
  BY <1>3 DEF Job
<1>5. PICK job : job = [jobs[j] EXCEPT !.state = "Leased", !.attempt = n, !.lease = "live"]
  OBVIOUS
<1>6. /\ job \in Job /\ job.target = jobs[j].target /\ job.gen = jobs[j].gen
      /\ job.config = jobs[j].config /\ job.state = "Leased" /\ job.lease = "live"
      /\ job.attempt = jobs[j].attempt + 1
  BY <1>3, <1>4, <1>5 DEF Job, JobStatus
<1>7. jobs' = [jobs EXCEPT ![j] = job]
  BY <1>1, <1>4, <1>5
<1>8. /\ Passed(j) \in Round /\ Passed(j).todo \subseteq JobIds /\ Passed(j).config = sched.config
  BY PassedRound
<1>9. /\ sched' \in Round /\ sched'.pc = "exec" /\ sched'.todo \subseteq JobIds
      /\ sched'.job = j /\ sched'.config = sched.config
  BY <1>1, <1>3, <1>8 DEF Round, Working
<1>10. /\ Typed' /\ JobsFit' /\ SlotsApart' /\ JobIds' = JobIds /\ Len(jobs') = Len(jobs)
       /\ \A k \in JobIds : jobs'[k] = IF k = j THEN job ELSE jobs[k]
  BY <1>2, <1>3, <1>6, <1>7, <1>9, EditedJob DEF IInv, Typed, Active
<1>11. RoundFits'
  <2>1. j \in 0..Len(jobs)
    BY <1>3, JobIdsFacts DEF IInv, Typed
  <2> QED BY <1>2, <1>3, <1>6, <1>9, <1>10, <2>1 DEF IInv, RoundFits
<1>12. KeepsEnds
  BY <1>3, <1>10 DEF KeepsEnds
<1> QED BY <1>2, <1>10, <1>11, <1>12, NothingOwned DEF IInv

LEMMA ReadClaimSound == ASSUME IInv, ReadClaim PROVE IInv' /\ OwnsResults /\ KeepsEnds
<1>1. UNCHANGED <<jobs, gen, done, present, config, env>> /\ sched.pc \in Working
  BY DEF ReadClaim, Working
<1>2. CASE Fails("lost")
  BY <1>1, <1>2, FailedRound, RestingStep DEF Working
<1>3. CASE jobs[sched.job].state = "Leased" /\ sched' = [sched EXCEPT !.snap = "fresh"]
  <2>1. /\ sched' \in Round /\ sched'.pc = sched.pc /\ sched'.todo = sched.todo
        /\ sched'.job = sched.job /\ sched'.config = sched.config
        /\ sched'.result = sched.result
    BY <1>3 DEF IInv, Typed, Round
  <2>2. Typed' /\ JobsFit' /\ SlotsApart' /\ KeepsEnds /\ JobIds' = JobIds
    BY <1>1, <2>1, QuietStep DEF IInv, Typed
  <2>3. RoundFits'
    BY <1>1, <1>3, <2>1, <2>2 DEF IInv, RoundFits, Working
  <2> QED BY <1>1, <2>2, <2>3, NothingOwned DEF IInv
<1> QED BY <1>2, <1>3 DEF ReadClaim
-----------------------------------------------------------------------------
(* Execution.                                                                *)

\* What the lanes need of the job they work on.
LEMMA ClaimedFacts ==
    ASSUME IInv, sched.pc \in Working
    PROVE  /\ sched.job \in JobIds /\ jobs[sched.job] \in Job /\ ClaimedTarget \in Targets
           /\ ClaimedTarget = jobs[sched.job].target /\ sched.job \in JobsOf(ClaimedTarget)
           /\ sched.snap = "fresh" => jobs[sched.job].state = "Leased"
           /\ jobs[sched.job].state = "Leased" /\ jobs[sched.job].lease # "expired"
                => jobs[sched.job].lease = "live"
<1>1. sched.job \in JobIds /\ jobs[sched.job] \in Job
  BY JobIdsFacts DEF IInv, Typed, RoundFits
<1>2. jobs[sched.job].state = "Leased" => jobs[sched.job].lease # "none"
  BY <1>1 DEF IInv, JobsFit
<1> QED BY <1>1, <1>2 DEF ClaimedTarget, JobsOf, Job, IInv, RoundFits

\* Only the claimed target's result moves, and to a generation it has.
LEMMA DoneMoves ==
    ASSUME IInv, NEW t \in Targets, NEW g \in Nat, done' = [done EXCEPT ![t] = g]
    PROVE  done' \in [Targets -> Nat] /\ \A u \in Targets : u # t => done'[u] = done[u]
BY DEF IInv, Typed

LEMMA RunSupportClosureSound ==
    ASSUME IInv, RunSupportClosure PROVE IInv' /\ OwnsResults /\ KeepsEnds
<1>1. /\ sched.pc = "exec" /\ sched.pc \in Working /\ ClaimedTarget \in Closures
      /\ UNCHANGED <<gen, present, config, env>> /\ env' \in Setting
  BY DEF RunSupportClosure, Executing, Working, IInv, Typed
<1>2. CASE ResultApplies /\ done' = [done EXCEPT ![ClaimedTarget] = jobs[sched.job].gen]
           /\ Finish("Succeeded", "Completed")
  <2>1. done' \in [Targets -> Nat] /\ \A u \in Targets : u # ClaimedTarget => done'[u] = done[u]
    BY <1>1, <1>2, ClaimedFacts, DoneMoves DEF Job
  <2>2. /\ IInv' /\ KeepsEnds
        /\ sched.job \in JobIds /\ jobs[sched.job].state = "Leased"
        /\ jobs'[sched.job].state = "Succeeded"
    BY <1>1, <1>2, <2>1, FinishSound DEF Reasons, ResultApplies
  <2>3. \A u \in Closures \union Usages \union Projections :
          done'[u] # done[u] => u = ClaimedTarget /\ u \in Closures /\ u \notin Usages
    BY <1>1, <2>1, TargetsAssumption DEF TargetsAssumption, Targets
  <2> QED BY <1>1, <1>2, <2>2, <2>3, ClaimedFacts DEF OwnsResults, ResultApplies
<1>3. CASE UNCHANGED done /\ Finish("Failed", "StaleGeneration")
  <2>1. done' \in [Targets -> Nat]
    BY <1>3 DEF IInv, Typed
  <2> QED BY <1>1, <1>3, <2>1, FinishSound, NothingOwned DEF Reasons
<1> QED BY <1>2, <1>3 DEF RunSupportClosure

LEMMA RunProjectionSound ==
    ASSUME IInv, RunProjection PROVE IInv' /\ OwnsResults /\ KeepsEnds
<1>1. /\ sched.pc \in Working /\ ClaimedTarget \in Projections /\ Finish("Succeeded", "Completed")
      /\ UNCHANGED <<gen, present, config, env>> /\ env' \in Setting
      /\ done' = IF sched.snap = "fresh"
                 THEN [done EXCEPT ![ClaimedTarget] = jobs[sched.job].gen] ELSE done
  BY DEF RunProjection, Executing, Working, IInv, Typed
<1>2. CASE sched.snap = "fresh"
  <2>1. done' \in [Targets -> Nat] /\ \A u \in Targets : u # ClaimedTarget => done'[u] = done[u]
    BY <1>1, <1>2, ClaimedFacts, DoneMoves DEF Job
  <2>2. /\ IInv' /\ KeepsEnds
        /\ sched.job \in JobIds /\ jobs[sched.job].state = "Leased"
        /\ jobs'[sched.job].state = "Succeeded"
    BY <1>1, <1>2, <2>1, FinishSound DEF Reasons
  <2>3. \A u \in Closures \union Usages \union Projections :
          done'[u] # done[u] => u = ClaimedTarget /\ u \notin Closures /\ u \notin Usages
    BY <1>1, <2>1, TargetsAssumption DEF TargetsAssumption, Targets
  <2> QED BY <1>1, <2>2, <2>3, ClaimedFacts DEF OwnsResults
<1>3. CASE sched.snap # "fresh"
  <2>1. done' = done /\ done' \in [Targets -> Nat]
    BY <1>1, <1>3 DEF IInv, Typed
  <2> QED BY <1>1, <2>1, FinishSound, NothingOwned DEF Reasons
<1> QED BY <1>2, <1>3

LEMMA RunCaptureWithoutItemSound ==
    ASSUME IInv, RunCaptureWithoutItem PROVE IInv' /\ OwnsResults /\ KeepsEnds
<1>1. /\ sched.pc \in Working /\ UNCHANGED <<gen, done, present, config, env>>
      /\ env' \in Setting /\ done' \in [Targets -> Nat]
      /\ Finish("Succeeded", "Completed") \/ Finish("Failed", "StaleGeneration")
  BY DEF RunCaptureWithoutItem, Executing, Working, IInv, Typed
<1>2. "Completed" \in Reasons /\ "StaleGeneration" \in Reasons
  BY DEF Reasons
<1> QED BY <1>1, <1>2, FinishSound, NothingOwned

\* Execution hands over to settlement.
LEMMA SettlingSound ==
    ASSUME IInv, sched.pc \in Working,
           NEW result \in {"ok", "stale", "error", "Unsupported", "SourceUnavailable",
                           "StaleGeneration"},
           ClaimedTarget \in Artifacts => result \in {"ok"} \union Reasons,
           sched' = [sched EXCEPT !.pc = "settle", !.snap = "none", !.result = result],
           UNCHANGED <<jobs, gen, config>>, done' \in [Targets -> Nat],
           present' \subseteq present, env' \in Setting
    PROVE  IInv' /\ KeepsEnds
<1>1. /\ sched' \in Round /\ sched'.pc = "settle" /\ sched'.todo = sched.todo
      /\ sched'.job = sched.job /\ sched'.config = sched.config /\ sched'.snap = "none"
      /\ sched'.result = result
  BY DEF IInv, Typed, Round, Working, Reasons
<1>2. /\ Typed' /\ JobsFit' /\ SlotsApart' /\ KeepsEnds
      /\ JobIds' = JobIds /\ Len(jobs') = Len(jobs)
  BY <1>1, QuietStep
<1>3. RoundFits'
  BY <1>1, <1>2 DEF IInv, RoundFits, Working, ClaimedTarget
<1> QED BY <1>2, <1>3 DEF IInv

LEMMA ReconcileObservationSound ==
    ASSUME IInv, ReconcileObservation PROVE IInv' /\ OwnsResults /\ KeepsEnds
<1>1. /\ sched.pc \in Working /\ ClaimedTarget \in Captures
      /\ UNCHANGED <<jobs, gen, present, config>>
      /\ (UNCHANGED env \/ Fault)
      /\ done' = [done EXCEPT ![ClaimedTarget] = gen[ClaimedTarget]] \/ UNCHANGED done
  BY DEF ReconcileObservation, Executing, Working
<1>2. env' \in Setting
  BY <1>1, FaultFacts DEF IInv, Typed
<1>3. ClaimedTarget \in Targets /\ gen[ClaimedTarget] \in Nat
  BY <1>1, ClaimedFacts DEF IInv, Typed
<1>4. done' \in [Targets -> Nat] /\ \A u \in Targets : u # ClaimedTarget => done'[u] = done[u]
  BY <1>1, <1>3, DoneMoves DEF IInv, Typed
<1>5. OwnsResults
  BY <1>1, <1>4, TargetsAssumption DEF OwnsResults, TargetsAssumption, Targets
<1>6. PICK r \in {"ok", "stale", "error"} :
        sched' = [sched EXCEPT !.pc = "settle", !.snap = "none", !.result = r]
  <2>1. \/ sched' = [sched EXCEPT !.pc = "settle", !.snap = "none", !.result = "ok"]
        \/ \E r \in {"ok", "stale", "error"} :
             sched' = [sched EXCEPT !.pc = "settle", !.snap = "none", !.result = r]
    BY DEF ReconcileObservation
  <2> QED BY <2>1
<1>7. ClaimedTarget \notin Artifacts
  BY <1>1, TargetsAssumption DEF TargetsAssumption
<1> QED BY <1>1, <1>2, <1>4, <1>5, <1>6, <1>7, SettlingSound

LEMMA SettleCaptureSound ==
    ASSUME IInv, SettleCapture PROVE IInv' /\ OwnsResults /\ KeepsEnds
<1>1. /\ sched.pc \in Working /\ UNCHANGED <<gen, done, present, config, env>>
      /\ env' \in Setting /\ done' \in [Targets -> Nat]
      /\ Finish("Succeeded", "Completed") \/ Finish("Failed", CaptureReason)
  BY DEF SettleCapture, Working, IInv, Typed
<1>2. "Completed" \in Reasons /\ CaptureReason \in Reasons
  BY DEF Reasons, CaptureReason
<1> QED BY <1>1, <1>2, FinishSound, NothingOwned

LEMMA RunCaptureArtifactSound ==
    ASSUME IInv, RunCaptureArtifact PROVE IInv' /\ OwnsResults /\ KeepsEnds
<1>1. /\ sched.pc \in Working /\ UNCHANGED <<gen, done, config>> /\ done' \in [Targets -> Nat]
      /\ UNCHANGED env \/ Fault
      /\ present' \subseteq present
  BY DEF RunCaptureArtifact, Executing, Working, IInv, Typed
<1>2. env' \in Setting
  BY <1>1, FaultFacts DEF IInv, Typed
<1>3. CASE Finish("Failed", "StaleGeneration")
  BY <1>1, <1>2, <1>3, FinishSound, NothingOwned DEF Reasons
<1>4. CASE UNCHANGED jobs /\ \E r \in {"ok", "Unsupported", "SourceUnavailable", "StaleGeneration"} :
             sched' = [sched EXCEPT !.pc = "settle", !.snap = "none", !.result = r]
  BY <1>1, <1>2, <1>4, SettlingSound, NothingOwned DEF Reasons
<1>5. \/ Finish("Failed", "StaleGeneration")
      \/ UNCHANGED jobs /\ \E r \in {"ok", "Unsupported", "SourceUnavailable", "StaleGeneration"} :
           sched' = [sched EXCEPT !.pc = "settle", !.snap = "none", !.result = r]
  BY DEF RunCaptureArtifact
<1> QED BY <1>3, <1>4, <1>5

LEMMA SettleArtifactSound ==
    ASSUME IInv, SettleArtifact PROVE IInv' /\ OwnsResults /\ KeepsEnds
<1>1. /\ sched.pc = "settle" /\ sched.pc \in Working /\ ClaimedTarget \in Artifacts
      /\ sched' = NextJob /\ UNCHANGED <<gen, done, present, config, env>>
      /\ env' \in Setting /\ done' \in [Targets -> Nat]
  BY DEF SettleArtifact, Working, IInv, Typed
<1>2. sched' \in Round
  BY <1>1, NextJobRound DEF IInv, Typed
<1>3. PICK j \in JobIds : j = sched.job
  BY <1>1 DEF IInv, RoundFits
<1>4. CASE sched.snap = "fresh"
  <2>1. /\ jobs[j] \in Job /\ jobs[j].state = "Leased"
        /\ sched.result \in {"ok"} \union Reasons
    BY <1>1, <1>3, <1>4, ClaimedFacts DEF IInv, RoundFits, ClaimedTarget
  <2>2. PICK state \in {"Succeeded", "Failed"} :
          state = IF sched.result # "ok" THEN "Failed" ELSE "Succeeded"
    OBVIOUS
  <2>3. PICK reason \in Reasons :
          reason = IF sched.result # "ok" THEN sched.result ELSE "Completed"
    BY <2>1 DEF Reasons
  <2>4. PICK backoff \in {"none", "waiting"} :
          backoff = IF sched.result \in {"SourceUnavailable", "StaleGeneration"}
                    THEN "waiting" ELSE "none"
    OBVIOUS
  <2>5. PICK ended : ended = Ended(jobs[j], state, reason)
    OBVIOUS
  <2>6. /\ ended \in Job /\ ended.target = jobs[j].target /\ ended.gen = jobs[j].gen
        /\ ended.config = jobs[j].config /\ ended.state = state
        /\ ended.attempt = jobs[j].attempt
    BY <2>1, <2>5, EndedJob
  <2>7. PICK job : job = [ended EXCEPT !.backoff = backoff]
    OBVIOUS
  <2>8. /\ job \in Job /\ job.target = jobs[j].target /\ job.gen = jobs[j].gen
        /\ job.config = jobs[j].config /\ job.state = state
        /\ job.attempt = jobs[j].attempt
    BY <2>6, <2>7 DEF Job
  <2>9. jobs' = [jobs EXCEPT ![j] = job]
    BY <1>3, <1>4, <2>2, <2>3, <2>4, <2>5, <2>7 DEF SettleArtifact
  <2>10. /\ Typed' /\ JobsFit' /\ SlotsApart'
         /\ JobIds' = JobIds /\ Len(jobs') = Len(jobs) /\ Len(jobs) \in Nat
         /\ \A k \in JobIds : jobs'[k] = IF k = j THEN job ELSE jobs[k]
    BY <1>1, <1>2, <2>8, <2>9, EditedJob
  <2>11. RoundFits'
    BY <1>1, <2>10, NextJobFits
  <2>12. KeepsEnds
    BY <2>1, <2>10 DEF KeepsEnds
  <2> QED BY <1>1, <2>10, <2>11, <2>12, NothingOwned DEF IInv
<1>5. CASE sched.snap # "fresh"
  <2>1. UNCHANGED jobs
    BY <1>5 DEF SettleArtifact
  <2>2. /\ Typed' /\ JobsFit' /\ SlotsApart' /\ KeepsEnds
        /\ JobIds' = JobIds /\ Len(jobs') = Len(jobs) /\ Len(jobs) \in Nat
    BY <1>1, <1>2, <2>1, QuietStep
  <2> QED BY <1>1, <2>2, NextJobFits, NothingOwned DEF IInv
<1> QED BY <1>4, <1>5

LEMMA RunProcedureConsumerSound ==
    ASSUME IInv, RunProcedureConsumer PROVE IInv' /\ OwnsResults /\ KeepsEnds
<1>1. /\ sched.pc = "exec" /\ sched.pc \in Working /\ sched.snap # "none"
      /\ ClaimedTarget \in Usages /\ UNCHANGED <<gen, present, config>>
  BY DEF RunProcedureConsumer, Executing, Working
<1>2. CASE sched.snap = "stale" /\ RetriesLeft /\ UNCHANGED <<jobs, done, env>>
           /\ sched' = [sched EXCEPT !.tries = @ + 1, !.snap = "none"]
  <2>1. PICK n \in 0..2 : n = sched.tries + 1
    BY <1>2 DEF RetriesLeft, IInv, Typed, Round
  <2>2. sched' = [sched EXCEPT !.tries = n, !.snap = "none"]
    BY <1>2, <2>1
  <2>3. /\ sched' \in Round /\ sched'.pc = sched.pc /\ sched'.todo = sched.todo
        /\ sched'.job = sched.job /\ sched'.config = sched.config /\ sched'.snap = "none"
    BY <2>2 DEF IInv, Typed, Round
  <2>4. Typed' /\ JobsFit' /\ SlotsApart' /\ KeepsEnds /\ JobIds' = JobIds
    BY <1>1, <1>2, <2>3, QuietStep DEF IInv, Typed
  <2>5. RoundFits'
    BY <1>1, <1>2, <2>3, <2>4 DEF IInv, RoundFits
  <2> QED BY <1>2, <2>4, <2>5, NothingOwned DEF IInv
<1>3. CASE sched' = NextJob /\ UNCHANGED <<jobs, done, env>>
  <2>1. sched' \in Round
    BY <1>3, NextJobRound DEF IInv, Typed
  <2>2. /\ Typed' /\ JobsFit' /\ SlotsApart' /\ KeepsEnds
        /\ JobIds' = JobIds /\ Len(jobs') = Len(jobs) /\ Len(jobs) \in Nat
    BY <1>1, <1>3, <2>1, QuietStep DEF IInv, Typed
  <2> QED BY <1>1, <1>3, <2>2, NextJobFits, NothingOwned DEF IInv
<1>4. CASE /\ sched.snap # "stale" /\ ~LeasePast
           /\ done' = [done EXCEPT ![ClaimedTarget] = gen[ClaimedTarget]]
           /\ Finish("Succeeded", "Completed") /\ UNCHANGED env
  <2>1. sched.snap = "fresh"
    BY <1>1, <1>4 DEF IInv, Typed, Round
  <2>2. ClaimedTarget \in Targets /\ gen[ClaimedTarget] \in Nat
    BY <1>1, ClaimedFacts DEF IInv, Typed
  <2>3. done' \in [Targets -> Nat] /\ \A u \in Targets : u # ClaimedTarget => done'[u] = done[u]
    BY <1>4, <2>2, DoneMoves
  <2>4. /\ IInv' /\ KeepsEnds
        /\ sched.job \in JobIds /\ jobs[sched.job].state = "Leased"
        /\ jobs'[sched.job].state = "Succeeded"
    BY <1>1, <1>4, <2>1, <2>3, FinishSound DEF Reasons, IInv, Typed
  <2>5. jobs[sched.job].lease = "live"
    BY <1>1, <1>4, <2>4, ClaimedFacts DEF LeasePast
  <2>6. \A u \in Closures \union Usages \union Projections :
          done'[u] # done[u] => u = ClaimedTarget /\ u \notin Closures
    BY <1>1, <2>3, TargetsAssumption DEF TargetsAssumption, Targets
  <2> QED BY <1>1, <2>4, <2>5, <2>6, ClaimedFacts DEF OwnsResults
<1>5. CASE Finish("Failed", "BudgetExhausted") /\ Fault /\ UNCHANGED done
  <2>1. env' \in Setting /\ done' \in [Targets -> Nat]
    BY <1>5, FaultFacts DEF IInv, Typed
  <2> QED BY <1>1, <1>5, <2>1, FinishSound, NothingOwned DEF Reasons
<1> QED BY <1>2, <1>3, <1>4, <1>5 DEF RunProcedureConsumer
-----------------------------------------------------------------------------
(* The theorems.                                                             *)

LEMMA InitSound == ASSUME Init PROVE IInv
<1>1. env \in Setting /\ env \in Scenarios
  BY ScenariosAssumption DEF Init, ScenariosAssumption, Setting
<1>2. config \in Configs
  BY ConfigsAssumption DEF Init, ConfigsAssumption
<1>3. jobs \in Seq(Job) /\ JobIds = {} /\ Len(jobs) = 0
  BY DEF Init, JobIds
<1>4. gen \in [Targets -> Nat] /\ done \in [Targets -> Nat] /\ present = {}
  BY DEF Init
<1>5. sched \in Round /\ sched.pc = "idle" /\ sched.todo = {} /\ sched.job = 0
  BY IdleRound DEF Init
<1>6. Typed
  BY <1>1, <1>2, <1>3, <1>4, <1>5 DEF Typed
<1>7. JobsFit /\ SlotsApart
  BY <1>3 DEF JobsFit, SlotsApart
<1>8. RoundFits
  BY <1>3, <1>5 DEF RoundFits, Working
<1> QED BY <1>6, <1>7, <1>8 DEF IInv

LEMMA NextSound == ASSUME IInv, Next PROVE IInv' /\ OwnsResults /\ KeepsEnds
<1>1. CASE Environment
  BY <1>1, SupportChangesSound, EvidenceArrivesSound, PurgeRevokesSound, ArtifactAppearsSound,
     ConfigReloadsSound, KillSound DEF Environment
<1>2. CASE Clock
  BY <1>2, PollDueSound, LeaseExpiresSound, BackoffPassesSound
     DEF Clock, SomeLeaseExpires, SomeBackoffPasses
<1>3. CASE Restart
  BY <1>3, RestartSound
<1>4. CASE \E o \in BOOLEAN : RoundStarts(o)
  BY <1>4, RoundStartsSound
<1>5. CASE Stages
  <2>1. CASE RoundEndsStale
    BY <2>1, RoundOverSound DEF RoundEndsStale
  <2> QED BY <1>5, <2>1, ProjectSound, RecoverLeasesSound, SeedCaptureArtifactsSound,
             RetireIncompatibleSound, EnqueueProcedureConsumersSound, EnqueueProjectionsSound,
             EnqueueCapturesSound, SelectJobsSound DEF Stages
<1>6. CASE ClaimSkips
  BY <1>6, ClaimSkipsSound
<1>7. CASE RoundEnds
  BY <1>7, RoundOverSound DEF RoundEnds
<1>8. CASE Lanes
  BY <1>8, ClaimFindsStaleSound, ClaimJobSound, ReadClaimSound, RunSupportClosureSound,
     RunProjectionSound, RunCaptureWithoutItemSound, ReconcileObservationSound,
     SettleCaptureSound, RunCaptureArtifactSound, SettleArtifactSound,
     RunProcedureConsumerSound DEF Lanes
<1> QED BY <1>1, <1>2, <1>3, <1>4, <1>5, <1>6, <1>7, <1>8 DEF Next

LEMMA StutterSound == ASSUME IInv, UNCHANGED vars PROVE IInv'
<1>1. UNCHANGED <<jobs, gen, done, present, config, sched, env>>
  BY DEF vars
<1>2. Typed' /\ JobsFit' /\ SlotsApart' /\ JobIds' = JobIds /\ Len(jobs') = Len(jobs)
  BY <1>1, QuietStep DEF IInv, Typed
<1>3. RoundFits'
  BY <1>1, <1>2, SameRoundFits
<1> QED BY <1>2, <1>3 DEF IInv

\* In every run, with any targets, configurations and scenarios: the invariant by
\* which the slots of queued jobs stay apart and a round owns the job it works on
\* while its snapshot is current (maintenance.rs, run_once_inner).
THEOREM SchedulerInvariance == Spec => []IInv
<1>1. Init => IInv
  BY InitSound
<1>2. IInv /\ [Next]_vars => IInv'
  BY NextSound, StutterSound
<1> QED BY <1>1, <1>2, PTL DEF Spec

\* Whatever is reloaded and when, well-formed jobs, and no slot is queued twice except by an
\* artifact whose older job, made under another configuration, was tried, ended and is queued
\* again (maintenance.rs, select_jobs_from; capture_recovery.rs).
THEOREM SchedulerAlwaysSound == Spec => []SchedulerInv
<1>1. IInv => SchedulerInv
  <2> SUFFICES ASSUME IInv PROVE SchedulerInv
    OBVIOUS
  <2>1. TypeOK
    BY DEF IInv, Typed, RoundFits, TypeOK, Round, Setting
  <2>2. QueuedOnce
    <3>1. SUFFICES ASSUME NEW i \in JobIds, NEW j \in JobIds, i < j,
                          jobs[i].state = "Queued", jobs[j].state = "Queued", SameSlot(i, j)
                   PROVE  /\ jobs[i].target \in Artifacts
                          /\ jobs[i].config # jobs[j].config /\ jobs[i].attempt > 1
      BY DEF QueuedOnce
    <3>2. jobs[i].target \in Targets /\ i # j
      <4>1. jobs[i] \in Job /\ i \in Nat
        BY JobIdsFacts DEF IInv, Typed
      <4> QED BY <3>1, <4>1 DEF Job
    <3>3. jobs[i].target \in Artifacts
      BY <3>1, <3>2 DEF IInv, SlotsApart, SameSlot, Active, Targets
    <3> QED BY <3>1, <3>2, <3>3 DEF IInv, SlotsApart, SameSlot, Active
  <2> QED BY <2>1, <2>2 DEF SchedulerInv
<1> QED BY <1>1, SchedulerInvariance, PTL

\* A result is applied with the end of a leased job of its target, a usage's only
\* while the lease runs and a closure's only for the current generation; an ended
\* job stays as it ended (maintenance.rs).
THEOREM ResultsAlwaysHonest == Spec => ResultsHonest
<1>1. IInv /\ [Next]_vars => [OwnsResults /\ KeepsEnds]_vars
  BY NextSound
<1> QED BY <1>1, SchedulerInvariance, PTL DEF Spec, ResultsHonest
=============================================================================

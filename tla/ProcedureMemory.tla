-------------------------- MODULE ProcedureMemory --------------------------
(* One procedure (a learnt method) and what happens to its revisions: a       *)
(* search routes the current one to a task, the client confirms that the      *)
(* answer was returned, background jobs credit the work that followed it and  *)
(* promote it on enough independent successes, evidence of harm holds or      *)
(* suspends it, a reviewer decides, and a proposal replaces it.  Every change *)
(* is a command committed only if the journal has not moved since it was      *)
(* read, so reading and committing is one step; what is read earlier (a route *)
(* in flight, the cohort of a claimed job) is kept by its own variable.       *)
EXTENDS Naturals, Sequences, FiniteSets

CONSTANTS
    Tasks,          \* numbers of the tasks, in id order
    Roots,          \* the request roots of each task
    Derived,        \* tasks continued or split from another
    Context,        \* the local context a task uses the method in
    Queries,        \* searches of the agents
    MaxRevs,        \* bound on revisions of the procedure
    Threshold,      \* supported outcomes a stable revision needs
    Scenarios       \* what a behaviour may contain: tasks at work, tasks already
                    \* supported, searches, attempts per task, results of each task,
                    \* and the limits of negatives, deletions, revisions, faults

VARIABLES
    rev,        \* the current revision
    pub,        \* each revision's publication
    usage,      \* the current usage of a revision by a task
    work,       \* the task's two attempts that name the revision as their policy
    applied,    \* usages whose APPLY text reached the host
    query,      \* searches in flight
    consumer,   \* usage jobs: state, inputs newer than the last job, budget spent
    promotion,  \* each revision's promotion job and the cohort of its claim
    negatives,  \* negative evidence with its current review
    proposals,  \* base revisions of open replacement proposals
    m           \* events that happened, and the scenario that limits them

\* What the constants are: numbered revisions, and scenarios about the given tasks.
WellFormed ==
    /\ MaxRevs \in Nat \ {0} /\ Threshold \in Nat
    /\ \A sc \in Scenarios : /\ sc.tasks \subseteq Tasks /\ sc.proven \subseteq Tasks
                           /\ sc.revs \in 1 .. MaxRevs

journal == <<rev, pub, usage, negatives, proposals>>
pvars == <<journal, work, applied, query, consumer, promotion, m>>

Revs == 1 .. MaxRevs
Uses == Revs \X Tasks
Active == {"Probationary", "Stable"}
States == Active \cup {"None", "ReviewHold", "Suspended", "Superseded"}
Returned == {"Returned", "Action", "Outcome"}

NoUsage == [stage |-> "none", gen |-> 0, decision |-> "none", attempt |-> 0]
NoWork == [op |-> "none", late |-> FALSE, after |-> FALSE, informed |-> FALSE, results |-> <<>>]
NoQuery == [pc |-> "idle", use |-> <<0, 0>>, gen |-> 0, decision |-> "none"]

\* A task already supported: it was routed, returned, followed and verified before.
Supported == [stage |-> "Outcome", gen |-> 1, decision |-> "Apply", attempt |-> 1]
Verified == [op |-> "landed", late |-> TRUE, after |-> TRUE, informed |-> TRUE, results |-> <<"passed">>]

Init ==
    /\ rev = 1
    /\ pub = [r \in Revs |-> [state |-> IF r = 1 THEN "Probationary" ELSE "None",
                              resume |-> "None", harmed |-> FALSE]]
    /\ \E sc \in Scenarios :
        /\ m = [queries |-> 0, deletions |-> 0, faults |-> 0, max |-> sc]
        /\ usage = [u \in Uses |-> IF u[1] = 1 /\ u[2] \in sc.proven THEN Supported ELSE NoUsage]
        /\ work = [u \in Uses |->
                     [k \in {1, 2} |-> IF u[1] = 1 /\ u[2] \in sc.proven /\ k = 1
                                       THEN Verified ELSE NoWork]]
        /\ applied = {1} \X sc.proven
    /\ query = [q \in Queries |-> NoQuery]
    /\ consumer = [u \in Uses |-> [job |-> "none", dirty |-> TRUE, spent |-> FALSE]]
    /\ promotion = [r \in Revs |-> [job |-> "none", cohort |-> {}]]
    /\ negatives = <<>> /\ proposals = {}

Fault == m.faults < m.max.faults /\ m' = [m EXCEPT !.faults = @ + 1]

---------------------------------------------------------------------------
(* Publication, harm and quarantine.                                        *)

transition_allowed(from, to) ==
    \/ from = "Probationary" /\ to \in {"ReviewHold", "Stable", "Suspended", "Superseded"}
    \/ from = "Stable" /\ to \in {"ReviewHold", "Suspended", "Superseded"}
    \/ from = "ReviewHold" /\ to \in {"Probationary", "Suspended", "Superseded"}
    \/ from = "Suspended" /\ to \in {"Probationary", "Superseded"}

\* What the projection accepts: the domain's transitions, and no return to probation
\* after confirmed harm.
Admits(r, to) ==
    /\ transition_allowed(pub[r].state, to)
    /\ to = "Probationary" => ~pub[r].harmed

Published(r, to) ==
    [pub EXCEPT ![r] = [state |-> to, resume |-> IF to = "ReviewHold" THEN pub[r].state ELSE "None",
                        harmed |-> pub[r].harmed \/ to = "Suspended"]]

\* Evidence that still counts: its review is pending or upheld.
Live(r) == {i \in DOMAIN negatives :
              negatives[i].use[1] = r /\ negatives[i].review \in {"Pending", "Upheld"}}
has_active_harm(r) == \E i \in Live(r) : negatives[i].level # "Ineffective"
local_quarantined(r, c) ==
    \E i \in Live(r) : /\ negatives[i].level = "SuspectedHarm" /\ negatives[i].local
                       /\ Context[negatives[i].use[2]] = c

usage_publication_current(u) ==
    u[1] = rev /\ pub[rev].state \in Active /\ ~local_quarantined(u[1], Context[u[2]])

\* Rows a usage job reads, whose newest sequence number is the job's watermark: the
\* task's work, and the events and reviews of its revision.
OfRevision(r) == {u \in Uses : u[1] = r}
\* Mutant of procedure_input_watermark.
Unwatched(r) == {}
procedure_input_watermark(r) == OfRevision(r)
Touched(S) ==
    consumer' = [u \in Uses |-> IF u \in S THEN [consumer[u] EXCEPT !.dirty = TRUE, !.spent = FALSE]
                                ELSE consumer[u]]

---------------------------------------------------------------------------
(* Search: route, answer, confirmation.                                     *)

Decisions(u) == IF local_quarantined(u[1], Context[u[2]]) THEN {"Defer"} ELSE {"Apply", "Defer"}

\* A first route records a usage, a repeated one a successor while nothing was
\* returned; a route that differs from the recorded one records nothing.
begin_procedure_usage(u, d) ==
    CASE usage[u].stage = "none" -> [stage |-> "Routed", gen |-> 1, decision |-> d, attempt |-> 0]
      [] usage[u].stage = "Routed" /\ usage[u].decision = d -> [usage[u] EXCEPT !.gen = @ + 1]
      [] OTHER -> usage[u]

route_search(q, t) ==
    /\ query[q].pc = "idle" /\ m.queries < m.max.queries
    /\ pub[rev].state \in Active
    /\ LET u == <<rev, t>> IN
       \E d \in Decisions(u) :
          LET next == begin_procedure_usage(u, d) IN
          /\ usage' = [usage EXCEPT ![u] = next]
          /\ query' = [query EXCEPT ![q] =
                         [pc |-> "routed", use |-> u, decision |-> d,
                          gen |-> IF next # usage[u] THEN next.gen ELSE 0]]
    /\ m' = [m EXCEPT !.queries = @ + 1]
    /\ UNCHANGED <<rev, pub, negatives, proposals, work, applied, consumer, promotion>>

\* The client writes the answer to the host, then confirms it.
answer(q) ==
    /\ query[q].pc = "routed" /\ query' = [query EXCEPT ![q].pc = "answered"]
    /\ applied' = IF query[q].decision = "Apply" THEN applied \cup {query[q].use} ELSE applied
    /\ UNCHANGED <<journal, work, consumer, promotion, m>>

\* Only the usage revision this search recorded is confirmed.
confirm_procedure_return(q) ==
    /\ query[q].pc = "answered" /\ query' = [query EXCEPT ![q] = NoQuery]
    /\ LET u == query[q].use IN
       usage' = IF query[q].gen # 0 /\ usage[u].stage = "Routed" /\ usage[u].gen = query[q].gen
                THEN [usage EXCEPT ![u] = [@ EXCEPT !.stage = "Returned", !.gen = query[q].gen + 1]] ELSE usage
    /\ UNCHANGED <<rev, pub, negatives, proposals, work, applied, consumer, promotion, m>>

\* The client dies, or its connection does.
ClientGone(q) ==
    /\ query[q].pc # "idle" /\ query' = [query EXCEPT ![q] = NoQuery]
    /\ UNCHANGED <<journal, work, applied, consumer, promotion, m>>

---------------------------------------------------------------------------
(* Work: an attempt's operation is recorded by the hook and ingested later;  *)
(* its results follow.                                                       *)

Aside == UNCHANGED <<journal, applied, query, promotion, m>>

Operate(u, k) ==
    /\ work[u][k].op = "none" /\ k \in m.max.attempts
    /\ pub[u[1]].state # "None"
    /\ work' = [work EXCEPT ![u][k] = [@ EXCEPT !.op = "spooled", !.late = usage[u].stage \in Returned,
                                               !.informed = u \in applied]]
    /\ UNCHANGED consumer /\ Aside

Ingest(u, k) ==
    /\ work[u][k].op = "spooled"
    /\ work' = [work EXCEPT ![u][k] = [@ EXCEPT !.op = "landed", !.after = usage[u].stage \in Returned]]
    /\ Touched({u}) /\ Aside

Result(u, k, kind) ==
    /\ work[u][k].op = "landed" /\ Len(work[u][k].results) < m.max.results[u[2]]
    /\ work' = [work EXCEPT ![u][k] = [@ EXCEPT !.results = Append(work[u][k].results, kind)]]
    /\ Touched({u}) /\ Aside

\* The attempt's verification follows its last result.
Verification(w) ==
    IF w.results = <<>> THEN "Unverified"
    ELSE IF w.results[Len(w.results)] = "passed" THEN "Passed" ELSE "Failed"

---------------------------------------------------------------------------
(* Usage jobs.                                                              *)

\* Mutant of operation_after_return.
SequenceOnly(w) == w.op = "landed" /\ w.after

\* Sequence and receipt time both lie after the first return.
operation_after_return(w) == w.op = "landed" /\ w.after /\ w.late

\* An attempt the usage has named is kept; otherwise the one that got furthest, if it
\* is alone.
compile_attempt_usage(u, k) == IF Verification(work[u][k]) = "Passed" THEN "Outcome" ELSE "Action"

Selected(u) ==
    LET named == IF usage[u].attempt # 0 THEN {usage[u].attempt} ELSE {1, 2}
        aligned == {k \in named : operation_after_return(work[u][k])}
        done == {k \in aligned : compile_attempt_usage(u, k) = "Outcome"}
        best == IF done # {} THEN done ELSE aligned
    IN  IF Cardinality(best) = 1 THEN best ELSE {}

compile_usage_command(u) ==
    IF usage_publication_current(u) /\ usage[u].stage \in Returned /\ Selected(u) # {}
    THEN LET k == CHOOSE k \in Selected(u) : TRUE IN
         [usage[u] EXCEPT !.attempt = k,
                          !.stage = IF @ = "Outcome" THEN @ ELSE compile_attempt_usage(u, k),
                          !.gen = IF usage[u].stage = compile_attempt_usage(u, k) THEN @ ELSE @ + 1]
    ELSE usage[u]

pending_usage(u) ==
    /\ usage[u].stage \in Returned \ {"Outcome"} /\ usage[u].decision = "Apply"
    /\ usage_publication_current(u)

Job(A) == A /\ UNCHANGED <<rev, negatives, proposals, work, applied, query>>

enqueue_procedure_consumers(u) ==
    /\ pending_usage(u) /\ consumer[u].job = "none" /\ consumer[u].dirty
    /\ consumer' = [consumer EXCEPT ![u] = [@ EXCEPT !.job = "queued", !.dirty = FALSE]]
    /\ Job(UNCHANGED <<pub, usage, promotion, m>>)

\* A job whose time or budget is spent ends too, and counts for its watermark.
run_procedure_consumer(u) ==
    /\ consumer[u].job = "queued" /\ Job(UNCHANGED <<pub, promotion>>)
    /\ \/ /\ usage' = [usage EXCEPT ![u] = compile_usage_command(u)]
          /\ consumer' = [consumer EXCEPT ![u].job = "none"] /\ UNCHANGED m
       \/ /\ Fault /\ UNCHANGED usage
          /\ consumer' = [consumer EXCEPT ![u] = [@ EXCEPT !.job = "none", !.spent = TRUE]]

---------------------------------------------------------------------------
(* Promotion.                                                               *)

\* Mutant of independent_tasks.
RootsIgnored(S) == S \cap Derived = {}
independent_tasks(S) ==
    /\ S \cap Derived = {}
    /\ \A s, t \in S : s = t \/ Roots[s] \cap Roots[t] = {}

promotion_allowed(r) == r = rev /\ pub[r].state = "Probationary" /\ ~has_active_harm(r)
OutcomeSupported(r) == {t \in Tasks : usage[<<r, t>>].stage = "Outcome"}

\* A greedy choice, tasks with few roots first: a task is in unless those chosen before
\* it are enough or not independent of it.
promotion_cohorts(r) ==
    LET first(s, t) == \/ Cardinality(Roots[s]) < Cardinality(Roots[t])
                       \/ Cardinality(Roots[s]) = Cardinality(Roots[t]) /\ s < t
        before(C, t) == {s \in C : first(s, t)}
        greedy(C) == \A t \in OutcomeSupported(r) :
                        t \in C <=> /\ Cardinality(before(C, t)) < Threshold
                                   /\ independent_tasks(before(C, t) \cup {t})
    IN  IF promotion_allowed(r)
        THEN {C \in SUBSET OutcomeSupported(r) : Cardinality(C) = Threshold /\ greedy(C)} ELSE {}

\* Mutant of NotAtWork.
NeverAgain(r) == promotion[r].job = "none"
NotAtWork(r) == promotion[r].job \notin {"queued", "leased"}

enqueue_procedure_promotion(r) ==
    /\ promotion_cohorts(r) # {} /\ NotAtWork(r)
    /\ promotion' = [promotion EXCEPT ![r].job = "queued"]
    /\ Job(UNCHANGED <<pub, usage, consumer, m>>)

\* The claim fixes the cohort; a claim without one ends the job.
claim_procedure_promotion(r) ==
    /\ promotion[r].job = "queued"
    /\ \/ \E C \in promotion_cohorts(r) :
             promotion' = [promotion EXCEPT ![r] = [job |-> "leased", cohort |-> C]]
       \/ /\ promotion_cohorts(r) = {}
          /\ promotion' = [promotion EXCEPT ![r] = [job |-> "ended", cohort |-> {}]]
    /\ Job(UNCHANGED <<pub, usage, consumer, m>>)

\* Mutant of cohort_promotion_event.
CohortTrusted(r) == r = rev /\ pub[r].state = "Probationary"

\* The cohort of the claim is judged again on the journal it is committed to.
cohort_promotion_event(r) ==
    /\ promotion[r].cohort \subseteq OutcomeSupported(r) /\ independent_tasks(promotion[r].cohort)
    /\ promotion_allowed(r)

run_procedure_promotion(r) ==
    /\ promotion[r].job = "leased"
    /\ promotion' = [promotion EXCEPT ![r] = [job |-> "ended", cohort |-> {}]]
    /\ IF cohort_promotion_event(r)
       THEN pub' = Published(r, "Stable") /\ Touched(procedure_input_watermark(r))
       ELSE UNCHANGED <<pub, consumer>>
    /\ Job(UNCHANGED <<usage, m>>)

\* The lease runs out, or the daemon dies: the job is claimed again.
LeaseExpires(r) ==
    /\ promotion[r].job = "leased" /\ Fault
    /\ promotion' = [promotion EXCEPT ![r] = [job |-> "queued", cohort |-> {}]]
    /\ Job(UNCHANGED <<pub, usage, consumer>>)

---------------------------------------------------------------------------
(* Harm and its review.                                                     *)

Decide == UNCHANGED <<usage, work, applied, query, promotion>>

\* What results R say of the attempt that a usage named.
classify_negative_fact(u, R) ==
    LET w == work[u][usage[u].attempt]
        all(kind) == \A j \in R : w.results[j] = kind
    IN  CASE Verification(w) = "Failed" /\ all("mismatch") -> "ConfirmedHarm"
          [] Verification(w) = "Passed" /\ usage[u].stage # "Outcome" /\ all("passed") -> "Ineffective"
          [] Verification(w) = "Failed" /\ all("failed") -> "SuspectedHarm"
          [] OTHER -> "none"

\* The same suspicion in another context of an independent task is not local.
cross_context_repeated(u) ==
    \E i \in Live(u[1]) :
        LET t == negatives[i].use[2] IN
        /\ negatives[i].level = "SuspectedHarm" /\ t # u[2] /\ independent_tasks({t, u[2]})
        /\ negatives[i].local => Context[t] # Context[u[2]]

\* Mutant of TakesOut.
HoldsAgain(r, to) == pub[r].state \notin {to, "Superseded"}

\* Evidence that is not local takes an offered revision out, and a held one further.
TakesOut(r, to) == pub[r].state \in Active \/ (to = "Suspended" /\ pub[r].state = "ReviewHold")

record_procedure_negative(u, R) ==
    /\ usage[u].stage \in {"Action", "Outcome"} /\ Len(negatives) < m.max.negatives
    /\ R # {} /\ R \subseteq DOMAIN work[u][usage[u].attempt].results
    /\ ~\E i \in DOMAIN negatives : negatives[i].use = u /\ negatives[i].refs = R
    /\ LET level == classify_negative_fact(u, R)
           local == level = "SuspectedHarm" /\ m.max.localizable /\ ~cross_context_repeated(u)
           r == u[1]
           to == IF level = "ConfirmedHarm" THEN "Suspended" ELSE "ReviewHold"
       IN  /\ level # "none"
           /\ negatives' = Append(negatives, [use |-> u, level |-> level, local |-> local, refs |-> R,
                    since |-> Len(work[u][usage[u].attempt].results), review |-> "Pending"])
           /\ pub' = IF level # "Ineffective" /\ ~local /\ TakesOut(r, to) THEN Published(r, to) ELSE pub
           /\ Touched(procedure_input_watermark(r))
    /\ UNCHANGED <<rev, proposals, m>> /\ Decide

\* Results of the usage's attempt recorded after the evidence.
Later(i) ==
    LET w == work[negatives[i].use][usage[negatives[i].use].attempt]
    IN  {w.results[j] : j \in {x \in DOMAIN w.results : x > negatives[i].since}}

Reviewed(i, status) ==
    /\ negatives[i].review = "Pending" /\ negatives' = [negatives EXCEPT ![i].review = status]
    /\ Touched(procedure_input_watermark(negatives[i].use[1]))
    /\ UNCHANGED <<rev, proposals, m>> /\ Decide

\* A dismissal lifts the hold of its revision, whatever else is pending.
LiftsHold(i) == ~negatives[i].local /\ pub[negatives[i].use[1]].state = "ReviewHold"

dismiss_attribution(i) ==
    LET r == negatives[i].use[1]
        resume == IF pub[r].resume \in Active THEN pub[r].resume ELSE "Probationary" IN
    /\ negatives[i].level = "SuspectedHarm" /\ Later(i) = {"passed"}
    /\ IF LiftsHold(i) THEN Admits(r, resume) /\ pub' = Published(r, resume) ELSE UNCHANGED pub
    /\ Reviewed(i, "Dismissed")

confirm_harm(i) ==
    LET r == negatives[i].use[1] IN
    /\ negatives[i].level = "SuspectedHarm" /\ ~negatives[i].local /\ Later(i) = {"mismatch"}
    /\ pub[r].state = "ReviewHold" /\ pub' = Published(r, "Suspended")
    /\ Reviewed(i, "Upheld")

resolve_as_ineffective(i) ==
    /\ negatives[i].level = "Ineffective"
    /\ classify_negative_fact(negatives[i].use, negatives[i].refs) = "Ineffective"
    /\ UNCHANGED pub /\ Reviewed(i, "Dismissed")

---------------------------------------------------------------------------
(* Replacement and deletion.                                                *)

Elsewhere == UNCHANGED <<usage, negatives, work, applied, query, promotion>>

request_procedure_revision(i) ==
    /\ negatives[i].review = "Pending" /\ negatives[i].use[1] = rev
    /\ rev < m.max.revs /\ proposals' = proposals \cup {rev}
    /\ UNCHANGED <<rev, pub, consumer, m>> /\ Elsewhere

\* Mutant of Replaced.
OldKept(r) == [pub EXCEPT ![r + 1].state = "Probationary"]
Replaced(r) == [Published(r, "Superseded") EXCEPT ![r + 1].state = "Probationary"]

accept_procedure(b) ==
    /\ b \in proposals /\ b = rev /\ rev' = rev + 1
    /\ pub' = Replaced(rev) /\ proposals' = proposals \ {b}
    /\ Touched(procedure_input_watermark(rev) \cup procedure_input_watermark(rev + 1))
    /\ UNCHANGED m /\ Elsewhere

\* Deleting an object the revision rests on holds it for review.
mark_procedure_support_review_hold ==
    /\ m.deletions < m.max.deletions /\ m' = [m EXCEPT !.deletions = @ + 1]
    /\ pub[rev].state \in Active /\ pub' = Published(rev, "ReviewHold")
    /\ Touched(procedure_input_watermark(rev))
    /\ UNCHANGED <<rev, proposals>> /\ Elsewhere

\* The daemon dies: connections are gone, and a leased job is queued again.
Crash ==
    /\ query' = [q \in Queries |-> NoQuery]
    /\ promotion' = [r \in Revs |-> IF promotion[r].job = "leased"
                                    THEN [job |-> "queued", cohort |-> {}] ELSE promotion[r]]
    /\ UNCHANGED <<journal, work, applied, consumer, m>>

---------------------------------------------------------------------------
UsageJob(u) == enqueue_procedure_consumers(u) \/ run_procedure_consumer(u)
PromotionJob(r) ==
    enqueue_procedure_promotion(r) \/ claim_procedure_promotion(r) \/ run_procedure_promotion(r)

AtWork == Revs \X m.max.tasks      \* the other tasks are over
Jobs == (\E u \in AtWork : UsageJob(u)) \/ (\E r \in Revs : PromotionJob(r))

Next ==
    \/ \E q \in Queries :
          (\E t \in m.max.tasks : route_search(q, t)) \/ answer(q) \/ confirm_procedure_return(q) \/ ClientGone(q)
    \/ \E u \in AtWork, k \in {1, 2} :
          Operate(u, k) \/ Ingest(u, k) \/ (\E kind \in {"passed", "failed", "mismatch"} : Result(u, k, kind))
    \/ Jobs
    \/ \E r \in Revs : LeaseExpires(r) \/ accept_procedure(r)
    \/ \E u \in AtWork : \E R \in SUBSET (1 .. m.max.results[u[2]]) : record_procedure_negative(u, R)
    \/ \E i \in DOMAIN negatives :
          \/ dismiss_attribution(i) \/ confirm_harm(i) \/ resolve_as_ineffective(i)
          \/ request_procedure_revision(i)
    \/ mark_procedure_support_review_hold

---------------------------------------------------------------------------
(* Properties.                                                              *)

\* Types, and the chain of revisions: all before the current one are superseded.
TypeOK ==
    /\ rev \in Revs /\ m.max \in Scenarios /\ proposals \subseteq Revs
    /\ \A r \in Revs : /\ pub[r].state \in States
                       /\ (pub[r].state = "ReviewHold") = (pub[r].resume \in Active)
                       /\ (r < rev) = (pub[r].state = "Superseded")
                       /\ (r > rev) = (pub[r].state = "None")
    /\ \A u \in Uses : /\ (usage[u].stage \in {"Action", "Outcome"}) = (usage[u].attempt # 0)
                       /\ usage[u].attempt # 0 => usage[u].decision = "Apply"

\* A success is credited to the method only for work that began after its text had reached
\* the agent, however late the work is ingested and whichever search is confirmed
\* (usage.rs operation_after_return, confirmed_return_events).
SupportIsCausal ==
    \A u \in Uses : usage[u].attempt # 0 => work[u][usage[u].attempt].informed

\* A stable revision rests on enough supported tasks, none derived from another and no two
\* with a request in common (usage.rs promotion_cohorts; projections/procedure.rs
\* valid_promotion_cohort).
StableOnMerit ==
    \A r \in Revs : "Stable" \in {pub[r].state, pub[r].resume} =>
        \E S \in SUBSET OutcomeSupported(r) :
            /\ Cardinality(S) >= Threshold
            /\ \A t \in S : /\ t \notin Derived
                            /\ \A x \in Roots[t] : \A s \in S \ {t} : x \notin Roots[s]

\* A revision whose harm was confirmed is never offered again, whatever is dismissed
\* afterwards (projections/procedure.rs validate_publication_event).
HarmedStaysOut == \A r \in Revs : pub[r].harmed => pub[r].state \in {"Suspended", "Superseded"}

\* No revision is promoted while evidence of harm is pending or upheld, though the cohort
\* was fixed before it (maintenance.rs run_procedure_promotion).
PromotesUnsuspected ==
    \A r \in Revs : pub[r].state # "Stable" /\ pub'[r].state = "Stable" => ~has_active_harm(r)

\* Verified work that followed the method is credited once its revision is on offer,
\* also when the revision was held or quarantined while it ran; a job that spent its
\* budget waits for new input (maintenance.rs enqueue_procedure_consumers).
Countable(u) == pending_usage(u) /\ \E k \in Selected(u) : compile_attempt_usage(u, k) = "Outcome"
UseCounted == []<>(\A u \in Uses : Countable(u) => consumer[u].spent)

\* A revision with a cohort becomes stable unless the cohort or its standing goes, also
\* after an earlier job for it has failed (maintenance.rs:2066).
MeritRecognised == []<>(\A r \in Revs : promotion_cohorts(r) = {})
==========================================================================

------------------------------- MODULE Memory -------------------------------
(* The reminders and the learnt methods of one daemon: both answer searches    *)
(* (service/actions/read.rs), run on background workers and die with it.       *)
EXTENDS RecallDelivery

CONSTANTS Tasks, Roots, Derived, Context, Queries, MaxRevs, Threshold,   \* of the methods
          Methods,      \* scenarios of the methods
          Together      \* pairs of scenarios that are checked: [recall, methods]

VARIABLES rev, pub, usage, work, applied, query, consumer, promotion, negatives, proposals, m

Method == INSTANCE ProcedureMemory WITH Scenarios <- Methods

ASSUME MethodsAssumption == Method!WellFormed

mvars == <<rev, pub, usage, work, applied, query, consumer, promotion, negatives, proposals, m>>
allvars == <<vars, mvars>>

MemoryInit == /\ Init /\ Method!Init
              /\ [recall |-> n.max, methods |-> m.max] \in Together

Remind(A) == A /\ UNCHANGED mvars
Learn(A) == A /\ UNCHANGED vars

MemoryNext == Remind(Own) \/ Learn(Method!Next) \/ (Crash /\ Method!Crash)

\* The worker runs when woken, deadlines pass, and the background scheduler runs the jobs
\* it queues.
MemorySpec ==
    /\ MemoryInit /\ [][MemoryNext]_allvars
    /\ WF_vars(recall_worker)
    /\ WF_vars(\E i \in 1 .. MaxNeeds : PresentationExpires(i))
    /\ WF_mvars(Method!Jobs)

-----------------------------------------------------------------------------
(* Properties: those of the two components.                                   *)

\* Reminders: one active need of a contract at a boundary, claimed while the lane is there,
\* shown once, fetched once and recorded as what happened to it (recall/detector.rs,
\* recall/cue.rs, service/actions/read.rs).
RemindersSound == LedgerSound /\ RemindedOnce

\* Methods: credited only for work that followed them, stable only on independent
\* successes, and out for good once harm is confirmed (procedure/usage.rs,
\* projections/procedure.rs).
MethodsSound == Method!TypeOK /\ Method!SupportIsCausal /\ Method!StableOnMerit /\ Method!HarmedStaysOut

\* Claims are closed, successes are credited, cohorts are recognised, and none while harm
\* is suspected (recall/detector.rs, maintenance.rs).
MemorySettles ==
    /\ ClaimSettles /\ Method!UseCounted /\ Method!MeritRecognised
    /\ [][Method!PromotesUnsuspected]_allvars
=============================================================================

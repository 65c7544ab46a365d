------------------------------ MODULE Recovery -------------------------------
(* The recovery barrier and the recovery applications of one daemon: they     *)
(* share the worktree's mutation fence, and they die and start together       *)
(* (evertraced/main.rs, engine/recovery).                                     *)
EXTENDS Integers, FiniteSets

CONSTANTS ToolCalls, Handlers, Attempts,   \* of the barrier
          Applications, Callers,           \* of the applications
          Scenarios     \* pairs of a scenario of each: [barrier, application]

\* Everybody who may hold the fence is told apart from the others, and what a behaviour
\* may contain is among the applications and the callers there are.
ASSUME HoldersAssumption ==
    /\ Handlers \cap (Callers \union {"boot", "free"}) = {}
    /\ {"boot", "free"} \cap Callers = {}
ASSUME ScenariosAssumption ==
    \A sc \in Scenarios : sc.application.requests \subseteq Applications
                       /\ sc.application.callers \subseteq Callers

VARIABLES lease, daemon,
          wt, db, hook, frame, mail, expired, h, seen, lost, bcount,
          file, app, intent, result, child, call, todo, quiet, past, acount

Barrier == INSTANCE RecoveryBarrier
    WITH Requests <- ToolCalls, Scenarios <- {sc.barrier : sc \in Scenarios}, count <- bcount
Application == INSTANCE RecoveryApplication
    WITH Requests <- Applications, Scenarios <- {sc.application : sc \in Scenarios}, count <- acount

captures == <<wt, db, hook, frame, mail, expired, h, seen, lost, bcount>>
actions == <<file, app, intent, result, child, call, todo, quiet, past, acount>>
vars == <<lease, daemon, captures, actions>>

Init == /\ Barrier!Init /\ Application!Init
        /\ [barrier |-> bcount.max, application |-> acount.max] \in Scenarios

Capture(A) == A /\ UNCHANGED actions
Apply(A) == A /\ UNCHANGED captures

\* The process dies: both lose what they hold in memory.
Crash == Barrier!Crash /\ Application!Crash

\* The start settles the barrier's pending requests, then the applications whose
\* outcome is unknown, and serves; an error of either ends it.
Boot ==
    \/ Barrier!Restart /\ Application!Start
    \/ daemon = "starting" /\ Capture(Barrier!Restart /\ UNCHANGED daemon)
    \/ /\ Barrier!reconcile_pending_on_startup
       /\ Apply(Application!reconcile_pending_on_startup /\ daemon' # "up")
    \/ Barrier!Restart /\ Application!reconcile_pending_on_startup /\ daemon' = "up"

Next == Capture(Barrier!Own) \/ Apply(Application!Own) \/ Crash \/ Boot
Spec == Init /\ [][Next]_vars

\* Connections are tasks of the daemon with deadlines, a hook ends by its own timeout,
\* a child is waited for, a drained daemon resumes, and a dead one is started again.
FairSpec ==
    /\ Spec /\ WF_vars(Boot)
    /\ \A x \in Handlers : WF_vars(Capture(Barrier!Handle(x)))
    /\ \A r \in ToolCalls : /\ WF_vars(Capture(Barrier!HookGivesUp(r)))
                            /\ WF_vars(Capture(Barrier!request_recovery_barrier_sync(r)))
    /\ \A c \in Callers \union {Application!Boot} :
          WF_vars(Apply(Application!Call(c) /\ ~Application!Step(c, "idle")))
    /\ \A a \in Applications : WF_vars(Apply(Application!ChildRuns(a)))
    /\ WF_vars(Apply(Application!resume))

-----------------------------------------------------------------------------
(* Properties: those of the two components, and the fence between them.       *)

\* Types; the fence is held only by a handler or a call that is still at work, and a
\* settled application rests on both of its frames and a post snapshot.
TypeOK == Barrier!TypeOK /\ Application!TypeOK

\* No patch is being applied to the worktree while a recovery point is read from it: one
\* fence serves barrier.rs and action.rs.  Children a killed daemon left are excepted.
CaptureExcludesPatch == lease \in Handlers => Application!Working = {}

\* A bundle recorded as complete holds tracked and untracked content that the worktree had
\* at one instant, and before the command ran if the hook was told so (bundle.rs).
CompleteIsOneInstant == Barrier!CompleteIsOneInstant

\* A status the hook was told is the durable status of the request (barrier.rs, ack).
AckedIsDurable == Barrier!AckedIsDurable

\* A terminal revision is never replaced and names the attempts of the journal it was
\* committed on (barrier.rs, capture_and_commit).
TerminalIsFinal == [][Barrier!KeepsTerminal]_vars

\* A pending request is settled by its handler or by the next start, unless the handler
\* lost the frontier when it recorded its failure (barrier.rs).
PendingSettles == Barrier!PendingSettles

\* One request starts at most one mutating child, whatever is repeated, raced or restarted
\* (action.rs, execute_once).
SpawnedOnce == Application!SpawnedOnce

\* Applied is said only of a patch the child wrote, Failed only of one that left the file
\* alone, or whose damage an editor undid (action/evidence.rs).
StatusTruthful == Application!StatusTruthful

\* The file is written only after the intent is durable, unless the daemon was killed
\* between feeding the child and capturing the intent (action.rs, run_git_apply_inner).
IntentBeforeWrite == Application!IntentBeforeWrite

\* Two children never work on the worktree at once, and none is left when the daemon has
\* drained its actions (action.rs, ActionCustody).
ExclusiveChild == Application!ExclusiveChild

\* What a caller was told of a settled application is durable and stays (action.rs).
ToldIsDurable == Application!ToldIsDurable

\* A result with a verdict settles its application, unless an error cut the call off
\* (action/evidence.rs, reconcile_durable_application).
ResultSettles == Application!ResultSettles

\* A complete recovery point is one instant of the worktree, taken while no patch is applied,
\* and acknowledged only when durable (recovery/barrier.rs, recovery/capture.rs).
PointsHonest == TypeOK /\ CaptureExcludesPatch /\ CompleteIsOneInstant /\ AckedIsDurable

\* A patch is applied once, by one child at a time, after its intent is durable, and what is
\* told of it is so (recovery/action.rs).
AppliedHonestly == SpawnedOnce /\ StatusTruthful /\ IntentBeforeWrite /\ ExclusiveChild /\ ToldIsDurable

\* Pending captures and applications reach an end, and an end is final
\* (recovery/barrier.rs, recovery/action.rs).
RecoveryEnds == TerminalIsFinal /\ PendingSettles /\ ResultSettles
=============================================================================

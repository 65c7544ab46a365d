--------------------------- MODULE RecallDelivery ---------------------------
(* Reminders ("recall needs") of one execution lane: the worker detects and *)
(* retires them, publishes a cue for a hook to show, the hook claims, shows  *)
(* and reports, and the agent fetches the text once.  Every change is a      *)
(* command committed only if the journal has not moved since it was read, so *)
(* reading and committing is one step; what a step reads outside the journal *)
(* (the published snapshot, the clock) is read earlier, in a step of its own.*)
EXTENDS Naturals, Sequences, FiniteSets

CONSTANTS
    Contracts,      \* numbers of the reminders' contracts, in id order
    Hooks,          \* hook processes at tool boundaries
    Requests,       \* requests of the agent for what is due
    MaxNeeds,       \* bound on recorded needs
    MaxAttempts,    \* bound on presentation attempts
    Scenarios       \* what a behaviour may contain: hooks and requests, what later
                    \* checkpoints say of contracts, and the limits of
                    \* checkpoints, changes of contracts, needs,
                    \* attempts, failed reads, writes and batches, and deaths

VARIABLES
    boundary,   \* the current checkpoint: its number, whether it asks for
                \* recovery by itself, and what it says of each contract
    present,    \* contracts whose atoms are current and supported
    needs,      \* the ledger's needs, in the order of their recording
    attempts,   \* attempts the ledger has seen claimed, with their needs
    published,  \* the cue in the runtime snapshot, or NoCue
    expired,    \* cues past their time
    worker,     \* the recall worker
    hook,       \* each hook and the daemon's handler for it
    due,        \* each request of the agent
    shown,      \* needs whose text reached the host, as often as it did
    told,       \* needs whose text a request returned
    n           \* events that happened, and the scenario that limits them

world == <<boundary, present>>
ledger == <<needs, attempts>>
vars == <<world, ledger, published, expired, worker, hook, due, shown, told,
          n>>

NoCue == [attempt |-> 0]
Truths == {"match", "resolve", "suppress", "unknown"}
Open == {"Detected", "FailedPreEmit"}
Obligations == {"Active", "Superseded", "Resolved", "Canceled"}

ASSUME RecallAssumption ==
    /\ Contracts \subseteq Nat
    /\ Contracts = {} \/ \E k \in Contracts : \A j \in Contracts : k >= j
    /\ "none" \notin Requests /\ MaxNeeds \in Nat /\ MaxAttempts \in Nat
    /\ \A sc \in Scenarios : /\ sc.truths \subseteq Truths /\ sc.boundaries \in Nat \ {0}
                              /\ sc.needs \in 0 .. MaxNeeds /\ sc.attempts \in 0 .. MaxAttempts

IdleHook == [srv |-> "idle", alive |-> FALSE, cue |-> NoCue, outcome |-> "none"]

Init ==
    /\ boundary = [no |-> 1, explicit |-> TRUE, truth |-> [k \in Contracts |-> "match"]]
    /\ present = Contracts
    /\ needs = <<>> /\ attempts = {}
    /\ published = NoCue /\ expired = {}
    /\ worker = [pc |-> "read", adv |-> 0, tries |-> 0, start |-> TRUE,
                 cue |-> NoCue, next |-> NoCue]
    /\ hook = [h \in Hooks |-> IdleHook]
    /\ due = [d \in Requests |-> "idle"]
    /\ shown = [i \in 1 .. MaxNeeds |-> 0] /\ told = {}
    /\ \E sc \in Scenarios :
           n = [changes |-> 0, attempts |-> 0, faults |-> 0, crashes |-> 0, gen |-> 1, max |-> sc]

Fault == n.faults < n.max.faults /\ n' = [n EXCEPT !.faults = @ + 1]

\* Two needs have the same hash when they ask for the same thing at the
\* same boundary; the hash does not cover the need's own id.
Hash(need) == [no |-> need.no, plan |-> need.plan]
ActiveNeeds == {i \in DOMAIN needs : needs[i].obligation = "Active"}

--------------------------------------------------------------------------
(* The world: work goes on, contracts change, time passes.                 *)

\* The lane reaches its next checkpoint.  What a checkpoint says of a
\* contract does not change afterwards.
Checkpoint ==
    /\ boundary.no < n.max.boundaries
    /\ \E e \in BOOLEAN, t \in [Contracts -> n.max.truths] :
           boundary' = [no |-> boundary.no + 1, explicit |-> e, truth |-> t]
    /\ UNCHANGED <<present, ledger, published, expired, worker, hook, due, shown, told, n>>

\* A contract's atom is recorded, retired, loses or regains its support.
ContractChanges(k) ==
    /\ n.changes < n.max.changes
    /\ present' = IF k \in present THEN present \ {k} ELSE present \cup {k}
    /\ n' = [n EXCEPT !.changes = @ + 1]
    /\ UNCHANGED <<boundary, ledger, published, expired, worker, hook, due, shown, told>>

\* A cue lives five seconds, a need may be shown for thirty.
CueExpires(a) ==
    /\ a \notin expired
    /\ a \in {published.attempt, worker.cue.attempt, worker.next.attempt}
               \cup {hook[h].cue.attempt : h \in Hooks}
    /\ expired' = expired \cup {a}
    /\ UNCHANGED <<world, ledger, published, worker, hook, due, shown, told, n>>

PresentationExpires(i) ==
    /\ i \in ActiveNeeds /\ ~needs[i].late
    /\ needs' = [needs EXCEPT ![i].late = TRUE]
    /\ UNCHANGED <<world, attempts, published, expired, worker, hook, due, shown, told, n>>

--------------------------------------------------------------------------
(* Validity and detection against the current checkpoint.                  *)

FirstOf(S) == CHOOSE k \in S : \A j \in S : k <= j
LastOf(S) == CHOOSE k \in S : \A j \in S : k >= j

evaluate(k) == IF k \in present THEN boundary.truth[k] ELSE "gone"

Terminal(c) == CASE c = "resolve" -> "Resolved"
                 [] c = "suppress" -> "Canceled"
                 [] c = "gone" -> "Superseded"
                 [] OTHER -> "Unavailable"

\* Mutant of validate_need_against_current.
ValidIgnoringBoundary(need) ==
    LET odd == {k \in need.plan : evaluate(k) # "match"}
    IN  IF odd # {} THEN Terminal(evaluate(FirstOf(odd))) ELSE "Valid"

\* The first contract that no longer matches decides.
validate_need_against_current(need) ==
    LET odd == {k \in need.plan : evaluate(k) # "match"}
    IN  IF need.no # boundary.no THEN "Superseded"
        ELSE IF odd # {} THEN Terminal(evaluate(FirstOf(odd)))
        ELSE IF need.plan = {} /\ ~boundary.explicit THEN "Superseded"
        ELSE "Valid"

\* Mutant of Retired.
AbandonAsFailed(need) ==
    LET v == validate_need_against_current(need)
    IN  IF v \in Obligations THEN [need EXCEPT !.obligation = v]
        ELSE IF v = "Valid" /\ need.late /\ need.delivery \in Open
             THEN [need EXCEPT !.late = FALSE]
        ELSE IF v = "Valid" /\ need.delivery = "Claimed" /\ (worker.start \/ need.late)
             THEN [need EXCEPT !.delivery = "FailedPreEmit", !.active = 0]
        ELSE need

\* Mutant of Retired.
NeverAbandon(need) ==
    LET v == validate_need_against_current(need)
    IN  IF v \in Obligations THEN [need EXCEPT !.obligation = v]
        ELSE IF v = "Valid" /\ need.late /\ need.delivery \in Open
             THEN [need EXCEPT !.late = FALSE]
        ELSE need

\* One worker batch: every active need is retired, given a new deadline or
\* has an abandoned claim closed; the first two postpone detection.
Retired(need) ==
    LET v == validate_need_against_current(need)
    IN  IF v \in Obligations THEN [need EXCEPT !.obligation = v]
        ELSE IF v # "Valid" THEN need
        ELSE IF need.late /\ need.delivery \in Open THEN [need EXCEPT !.late = FALSE]
        ELSE IF need.delivery = "Claimed" /\ (worker.start \/ need.late)
             THEN [need EXCEPT !.delivery = "PresentationUnknown"]
        ELSE need

Pass(need) == IF need.obligation = "Active" THEN Retired(need) ELSE need

Postpones(old, new) == old.obligation # new.obligation \/ old.late # new.late

\* The need the current checkpoint asks for: its matching contracts, else
\* recovery.  An existing need is revised while nobody has claimed it.
Plan == {k \in Contracts : evaluate(k) = "match"}
Wanted == Plan # {} \/ boundary.explicit
NewNeed == [no |-> boundary.no, plan |-> Plan, obligation |-> "Active",
            delivery |-> "Detected", active |-> 0, last |-> 0, late |-> FALSE,
            response |-> "NotRetrieved", request |-> "none"]

detect_current_context(ns) ==
    LET here == {i \in DOMAIN ns : ns[i].obligation = "Active" /\ ns[i].no = boundary.no}
        ended(need) == {k \in need.plan : evaluate(k) \in {"resolve", "suppress"}}
    IN  IF here = {}
        THEN IF Wanted THEN Append(ns, NewNeed) ELSE ns
        ELSE LET i == FirstOf(here) IN
             IF ended(ns[i]) # {}
             THEN [ns EXCEPT ![i].obligation = Terminal(evaluate(LastOf(ended(ns[i]))))]
             ELSE IF Wanted /\ ns[i].delivery \in Open
             THEN [ns EXCEPT ![i].plan = Plan]
             ELSE ns

Batch ==
    LET after == [i \in DOMAIN needs |-> Pass(needs[i])]
    IN  IF \E i \in DOMAIN needs : Postpones(needs[i], after[i])
        THEN after ELSE detect_current_context(after)

--------------------------------------------------------------------------
(* The worker.  A batch makes at most two advances; a batch that fails is   *)
(* tried once more and then waits for the next wake-up.                    *)

WorkerAt(pc) == worker.pc = pc
Quiet == UNCHANGED <<world, hook, due, shown, told>>
Readable == Cardinality(ActiveNeeds) <= 2

BatchFails ==
    /\ worker' = IF worker.tries = 0
                 THEN [worker EXCEPT !.pc = "read", !.adv = 0, !.tries = 1]
                 ELSE [worker EXCEPT !.pc = "idle"]
    /\ UNCHANGED <<ledger, published>>

process_recall_batch ==
    /\ WorkerAt("read") /\ Quiet /\ UNCHANGED expired
    /\ \/ /\ Readable /\ Batch # needs /\ worker.adv < 2 /\ Len(Batch) <= n.max.needs
          /\ needs' = Batch
          /\ worker' = [worker EXCEPT !.adv = @ + 1]
          /\ UNCHANGED <<attempts, published, n>>
       \/ /\ Readable /\ Batch = needs
          /\ worker' = [worker EXCEPT !.pc = "cues"]
          /\ UNCHANGED <<ledger, published, n>>
       \/ (~Readable \/ (Batch # needs /\ worker.adv = 2)) /\ BatchFails /\ UNCHANGED n
       \/ Fault /\ BatchFails

\* The cue of the one need that may be shown; a live cue for the same hash
\* is kept, unless its last showing failed.
Showable ==
    {i \in ActiveNeeds : needs[i].delivery \in Open /\ ~needs[i].late /\ needs[i].active = 0}

Kept(i) ==
    /\ worker.cue # NoCue /\ worker.cue.hash = Hash(needs[i])
    /\ worker.cue.attempt \notin expired /\ needs[i].delivery # "FailedPreEmit"

FreshCue(i) == [attempt |-> n.attempts + 1, hash |-> Hash(needs[i]), gen |-> n.gen]

publish_cues ==
    /\ WorkerAt("cues") /\ Quiet /\ UNCHANGED <<attempts, published, expired>>
    /\ \/ /\ Showable = {} /\ worker' = [worker EXCEPT !.pc = "publish", !.next = NoCue]
          /\ UNCHANGED <<needs, n>>
       \/ \E i \in Showable :
            \/ /\ Kept(i) /\ worker' = [worker EXCEPT !.pc = "publish", !.next = worker.cue]
               /\ UNCHANGED <<needs, n>>
            \/ /\ ~Kept(i) /\ n.attempts < n.max.attempts
               /\ worker' = [worker EXCEPT !.pc = "publish", !.next = FreshCue(i)]
               /\ n' = [n EXCEPT !.attempts = @ + 1] /\ UNCHANGED needs

Publish ==
    /\ WorkerAt("publish") /\ Quiet /\ UNCHANGED <<ledger, expired>>
    /\ \/ /\ published' = worker.next
          /\ worker' = [worker EXCEPT !.pc = "idle", !.cue = worker.next, !.start = FALSE]
          /\ UNCHANGED n
       \/ Fault /\ BatchFails

\* Commands about recall keep coming and wake the worker.
Wake ==
    /\ WorkerAt("idle")
    /\ worker' = [worker EXCEPT !.pc = "read", !.adv = 0, !.tries = 0,
                                !.start = FALSE]
    /\ Quiet /\ UNCHANGED <<ledger, published, expired, n>>

--------------------------------------------------------------------------
(* The hook and the daemon's handler for it.                               *)

Set(h, srv) == hook' = [hook EXCEPT ![h].srv = srv]
Over(h) == hook' = [hook EXCEPT ![h] = IdleHook]
Rest == UNCHANGED <<world, published, expired, worker, due, told, n>>

\* At a tool boundary the hook takes the one live cue of the snapshot.
select_recall_cue(h) ==
    /\ hook[h].srv = "idle" /\ h \in n.max.hooks
    /\ published # NoCue /\ published.attempt \notin expired
    /\ hook' = [hook EXCEPT ![h] = [srv |-> "ask", alive |-> TRUE,
                                    cue |-> published, outcome |-> "none"]]
    /\ UNCHANGED <<ledger, shown>> /\ Rest

\* Generation, publication and expiry are checked before the journal is read.
authorize(h) ==
    /\ hook[h].srv = "ask" /\ UNCHANGED <<ledger, shown>> /\ Rest
    /\ \/ /\ hook[h].cue.gen = n.gen /\ published = hook[h].cue
          /\ hook[h].cue.attempt \notin expired
          /\ Set(h, "checked")
       \/ /\ hook[h].cue.gen # n.gen \/ published # hook[h].cue
             \/ hook[h].cue.attempt \in expired
          /\ Over(h)

Matching(h) == {i \in ActiveNeeds : Hash(needs[i]) = hook[h].cue.hash}

\* Mutant of select_need.
ClaimedToo(h) ==
    {i \in Matching(h) : needs[i].delivery \in Open \cup {"Claimed"}}

select_need(h) ==
    {i \in Matching(h) : /\ needs[i].delivery \in Open /\ needs[i].active = 0
                         /\ needs[i].last # hook[h].cue.attempt}

\* Mutant of latest_valid.
LateIsFine(i) == needs[i].no \in 1 .. boundary.no

latest_valid(i) ==
    ~needs[i].late /\ validate_need_against_current(needs[i]) = "Valid"

\* The daemon dies; the next one publishes a snapshot of its own without
\* cues and closes the claims it finds.
Restart ==
    /\ n' = [n EXCEPT !.crashes = @ + 1, !.gen = @ + 1]
    /\ published' = NoCue
    /\ worker' = [pc |-> "read", adv |-> 0, tries |-> 0, start |-> TRUE,
                  cue |-> NoCue, next |-> NoCue]
    /\ hook' = [h \in Hooks |-> IF hook[h].srv \in {"ask", "checked", "report"}
                                THEN IdleHook ELSE hook[h]]
    /\ due' = [d \in Requests |-> IF due[d] = "claimed" THEN "done" ELSE due[d]]
    /\ UNCHANGED <<world, ledger, expired, shown, told>>

Crash == n.crashes < n.max.crashes /\ Restart

Granted(h, i) ==
    LET a == hook[h].cue.attempt IN
    /\ needs' = [needs EXCEPT ![i] = [@ EXCEPT !.delivery = "Claimed", !.active = a, !.last = a]]
    /\ attempts' = attempts \cup {[attempt |-> a, need |-> i, at |-> boundary.no]}
    /\ IF hook[h].alive THEN Set(h, "granted") ELSE Over(h)
    /\ UNCHANGED shown /\ Rest

\* The ledger refuses an attempt it has seen claimed before; the writer
\* takes that for a corrupt store and ends the daemon.
Claim(h) ==
    /\ hook[h].srv = "checked"
    /\ LET seen == \E p \in attempts : p.attempt = hook[h].cue.attempt
           fit == {i \in select_need(h) : latest_valid(i)} IN
       \/ fit # {} /\ seen /\ Restart
       \/ \E i \in fit : ~seen /\ Granted(h, i)
       \/ fit = {} /\ Over(h) /\ UNCHANGED <<ledger, shown>> /\ Rest

\* The hook writes the text: nothing, a part, or all of it.
NeedOf(h) == (CHOOSE p \in attempts : p.attempt = hook[h].cue.attempt).need

emit_recall_context(h) ==
    /\ hook[h].srv = "granted"
    /\ \E o \in {"Emitted", "FailedPreEmit", "PresentationUnknown"} :
        /\ hook[h].cue.attempt \in expired => o = "FailedPreEmit"
        /\ hook' = [hook EXCEPT ![h] = [@ EXCEPT !.srv = "report", !.outcome = o]]
        /\ shown' = IF o = "FailedPreEmit" THEN shown
                    ELSE [shown EXCEPT ![NeedOf(h)] = @ + 1]
    /\ UNCHANGED ledger /\ Rest

Reports(h) ==
    {i \in Matching(h) : /\ needs[i].delivery = "Claimed"
                         /\ needs[i].active = hook[h].cue.attempt}

\* Mutant of apply_outcome.
KeepsAttempt(h, i) == needs' = [needs EXCEPT ![i].delivery = hook[h].outcome]

\* The ledger's rule: a delivery that failed before emission frees the need.
apply_outcome(h, i) ==
    needs' = [needs EXCEPT ![i] = [@ EXCEPT !.delivery = hook[h].outcome,
                 !.active = IF hook[h].outcome = "FailedPreEmit" THEN 0 ELSE needs[i].active]]

\* A report for a claim that is no longer open changes nothing.
outcome(h) ==
    /\ hook[h].srv = "report" /\ Over(h)
    /\ \/ /\ hook[h].cue.gen = n.gen
          /\ \E i \in Reports(h) : apply_outcome(h, i)
          /\ UNCHANGED attempts
       \/ /\ hook[h].cue.gen # n.gen \/ Reports(h) = {}
          /\ UNCHANGED ledger
    /\ UNCHANGED shown /\ Rest

\* The hook runs out of time or is killed; a sent request is still served,
\* an unsent report never is.
HookGone(h) ==
    /\ hook[h].alive
    /\ IF hook[h].srv \in {"granted", "report"} THEN Over(h)
       ELSE hook' = [hook EXCEPT ![h].alive = FALSE]
    /\ UNCHANGED <<ledger, shown>> /\ Rest

--------------------------------------------------------------------------
(* The agent asks for what is due.                                         *)

Still == UNCHANGED <<world, attempts, published, expired, worker, hook, shown>>

\* Mutant of DueNeeds.
AnyActive(d) == ActiveNeeds

DueNeeds(d) ==
    {i \in ActiveNeeds : \/ needs[i].response = "NotRetrieved"
                         \/ needs[i].request = d /\ needs[i].response = "Claimed"}

\* A need that is over is retired; otherwise the request claims it.
DueEnds(d, i) ==
    LET v == validate_need_against_current(needs[i]) IN
    /\ v # "Valid" /\ due' = [due EXCEPT ![d] = "done"]
    /\ needs' = [needs EXCEPT ![i].obligation = IF v \in Obligations THEN v ELSE needs[i].obligation]
    /\ UNCHANGED <<told, n>>

search_due(d) ==
    /\ due[d] = "idle" /\ d \in n.max.requests /\ Still
    /\ \/ /\ Cardinality(DueNeeds(d)) # 1 /\ due' = [due EXCEPT ![d] = "done"]
          /\ UNCHANGED <<needs, told, n>>
       \/ \E i \in DueNeeds(d) :
            /\ Cardinality(DueNeeds(d)) = 1
            /\ \/ DueEnds(d, i)
               \/ /\ validate_need_against_current(needs[i]) = "Valid"
                  /\ needs' = [needs EXCEPT ![i] = [@ EXCEPT !.response = "Claimed", !.request = d]]
                  /\ due' = [due EXCEPT ![d] = "claimed"]
                  /\ UNCHANGED <<told, n>>

\* The claimed need is checked again, assembled and recorded as returned
\* before the answer leaves; a failed assembly closes the claim.
due_result(d) ==
    /\ due[d] = "claimed" /\ Still
    /\ LET mine == {i \in DueNeeds(d) : needs[i].request = d} IN
       \/ /\ Cardinality(DueNeeds(d)) # 1 /\ due' = [due EXCEPT ![d] = "done"]
          /\ UNCHANGED <<needs, told, n>>
       \/ \E i \in mine :
            /\ Cardinality(DueNeeds(d)) = 1
            /\ \/ DueEnds(d, i)
               \/ /\ validate_need_against_current(needs[i]) = "Valid"
                  /\ \/ /\ needs' = [needs EXCEPT ![i].response = "Returned"]
                        /\ told' = told \cup {[need |-> i, request |-> d]} /\ UNCHANGED n
                     \/ /\ Fault /\ UNCHANGED told
                        /\ needs' = [needs EXCEPT ![i].response = "Unknown"]
                  /\ due' = [due EXCEPT ![d] = "done"]

--------------------------------------------------------------------------
recall_worker == process_recall_batch \/ publish_cues \/ Publish \/ Wake

Own ==
    \/ Checkpoint
    \/ \E k \in Contracts : ContractChanges(k)
    \/ \E a \in 1 .. MaxAttempts : CueExpires(a)
    \/ \E i \in 1 .. MaxNeeds : PresentationExpires(i)
    \/ recall_worker
    \/ \E h \in Hooks :
          \/ select_recall_cue(h) \/ authorize(h) \/ Claim(h)
          \/ emit_recall_context(h) \/ outcome(h) \/ HookGone(h)
    \/ \E d \in Requests : search_due(d) \/ due_result(d)

Next == Own \/ Crash

Spec == Init /\ [][Next]_vars

\* The worker runs when woken, the session goes on producing commands that
\* wake it, and deadlines pass.
FairSpec ==
    /\ Spec
    /\ WF_vars(recall_worker)
    /\ \A i \in 1 .. MaxNeeds : WF_vars(PresentationExpires(i))

--------------------------------------------------------------------------
(* Properties.                                                             *)

\* Type invariant, with the rule that a need carries an active attempt
\* exactly when its delivery has left the open states.
TypeOK ==
    /\ n.max \in Scenarios /\ boundary.no <= n.max.boundaries /\ present \subseteq Contracts
    /\ Len(needs) <= MaxNeeds
    /\ \A i \in DOMAIN needs :
        /\ needs[i].obligation \in Obligations
        /\ needs[i].delivery \in Open \cup {"Claimed", "Emitted", "PresentationUnknown"}
        /\ (needs[i].active # 0) = (needs[i].delivery \notin Open)
        /\ (needs[i].request # "none") = (needs[i].response # "NotRetrieved")
    /\ worker.adv \in 0 .. 2 /\ worker.pc \in {"idle", "read", "cues", "publish"}

\* A reminder reaches the host at most once, whatever hook dies, runs late
\* or loses its answer and however often the daemon restarts (recall/cue.rs
\* authorize and outcome; recall_ledger.rs apply).
ShownOnce == \A i \in DOMAIN shown : shown[i] <= 1

\* A delivery recorded as failed before emission put nothing on the host, so
\* showing it again is safe; one recorded as emitted did reach it
\* (recall/detector.rs:372, evertrace-hook emit_recall_context).
DeliveryTruthful ==
    \A i \in DOMAIN needs :
        /\ needs[i].delivery = "FailedPreEmit" => shown[i] = 0
        /\ needs[i].delivery = "Emitted" => shown[i] > 0

\* A claim is granted only for the checkpoint that is current at that
\* moment (recall/cue.rs latest_valid).
ClaimedAtItsBoundary == \A p \in attempts : needs[p.need].no = p.at

\* A lane never has two reminders at work, so the worker's and the hook's
\* read of its context, which fails on more than two, never does
\* (projections.rs recall_current_contexts, recall/detector.rs:34).
OneActiveNeed == Cardinality(ActiveNeeds) <= 1

\* The text of a need is handed to one request only (service/actions/read.rs
\* search_due).
ToldOnce == \A p, q \in told : p.need = q.need => p.request = q.request

\* A claim nobody reports on is closed, or its need retired; only a need
\* whose contracts cannot be evaluated waits (recall/detector.rs:372).
ClaimSettles ==
    \A i \in 1 .. MaxNeeds :
        (i \in DOMAIN needs /\ needs[i].delivery = "Claimed")
            ~> (/\ i \in DOMAIN needs
                /\ \/ needs[i].delivery # "Claimed"
                   \/ needs[i].obligation # "Active"
                   \/ validate_need_against_current(needs[i]) = "Unavailable")

\* A reminder is shown once, fetched once, and recorded as what happened to it
\* (recall/detector.rs, recall/cue.rs, service/actions/read.rs).
RemindedOnce == ShownOnce /\ ToldOnce /\ DeliveryTruthful

\* One active need of a contract at a boundary, claimed while the lane is still there
\* (recall/detector.rs, recall/cue.rs).
LedgerSound == TypeOK /\ OneActiveNeed /\ ClaimedAtItsBoundary
==========================================================================

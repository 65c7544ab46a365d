----------------------------- MODULE Governance -----------------------------
(* The owner decides on proposals while the journal moves on: an acceptance   *)
(* is first reserved as an isolated spool segment, committed on the frontier  *)
(* it was read at, and acknowledged; what a crash or a conflict left reserved *)
(* is reconciled (engine/service/human_governance.rs, semantic/proposal.rs,   *)
(* capture/spool.rs, store/projections.rs).                                   *)
EXTENDS Integers, FiniteSets

CONSTANTS Creates, Replaces, Merges,  \* open proposals, by what they do
          Atoms,         \* atoms that exist at the start
          TargetOf,      \* atom a replacement or a merge changes
          Merged,        \* atoms a merge takes together
          Copies,        \* creations that repeat a given atom
          Payloads,      \* edited payloads
          Callers,       \* connections of the owner
          Scenarios      \* what may happen, and the bounds: see env

Proposals == Creates \union Replaces \union Merges
Objects == Atoms \union Proposals   \* a creation's atom carries its name
Boot == "boot"

Kinds == {"accept", "edit", "merge", "reauthorize", "defer", "reject"}
ASSUME ScenariosAssumption ==
    Scenarios \subseteq [props : SUBSET Proposals, decisions : SUBSET Kinds, req : Nat, other : Nat,
                         forget : Nat, crash : Nat, busy : Nat]
\* What exists is not what is proposed; a merge goes into one of the atoms it takes
\* together (semantic/proposal.rs validate_atom_merge).
ASSUME TargetsAssumption ==
    /\ TargetOf \in [Replaces \union Merges -> Atoms] /\ Atoms \intersect Proposals = {}
    /\ \A p \in Merges : TargetOf[p] \in Merged[p]

VARIABLES db,       \* the journal's projection: frontier, proposals, atoms, deletions, acceptances
          segs,     \* isolated segments in the spool
          req,      \* a request of each caller, and the daemon's start
          daemon,   \* "boot", "up" or "down"
          env,      \* the scenario: props (proposals in play), decisions (that the owner
                    \* takes), and what is still to come: req (decisions), other (commits
                    \* of everything else), forget (objects forgotten), crash (restarts of
                    \* the daemon), busy (spool operations refused)
          asked     \* acceptances the owner asked for (history)

vars == <<db, segs, req, daemon, env, asked>>

None == [kind |-> "none", p |-> "none", rev |-> 0, arg |-> 0, cmd |-> 0]
Idle == [pc |-> "idle", job |-> None, user |-> None, n |-> 0, snap |-> 0, todo |-> {},
         seg |-> None, ok |-> FALSE, from |-> "user", after |-> "read"]

Init ==
    /\ db = [n |-> 0, props |-> [p \in Proposals |-> [rev |-> 1, st |-> "pending"]],
             atoms |-> [a \in Objects |-> IF a \in Atoms THEN 1 ELSE 0],
             ledger |-> [a \in Objects |-> "live"], log |-> {}]
    /\ segs = {} /\ daemon = "up" /\ asked = {}
    /\ req = [r \in Callers \union {Boot} |-> Idle]
    /\ env \in Scenarios

Forgotten(a) == db.ledger[a] # "live"
Target(p) == IF p \in Creates THEN p ELSE TargetOf[p]
AcceptedBy(p) == {l \in db.log : l.p = p}
Committed(s) == \E l \in db.log : l.cmd = s.cmd
Held(s) == \E r \in DOMAIN req : s \in req[r].todo \/ req[r].seg = s
\* The record a segment is found by.
RecordOf(j) == <<IF j.kind = "reauthorize" THEN "reauthorize" ELSE "accept", j.p, j.rev>>

-----------------------------------------------------------------------------
(* What the projection shows and what a commit may hold.                      *)

\* A proposal goes with the object it targets or was accepted into.
proposal_targets_deleted(p) ==
    Forgotten(Target(p)) /\ (p \notin Creates \/ db.props[p].st = "accepted")
Current(s) == db.props[s.p].rev = s.rev
is_open(p) == db.props[p].st = "pending"
\* Mutant: the atoms of a merge need only be there.
MergePresent(p) == \A a \in Merged[p] : ~Forgotten(a)
validate_atom_merge(p) == \A a \in Merged[p] : db.atoms[a] = 1 /\ ~Forgotten(a)

\* What forgetting says of a creation of the same kind in the same scope.
classify_deletion_candidate(p) ==
    IF p \notin Creates \/ \A a \in Objects : ~Forgotten(a) THEN "clear"
    ELSE IF \E a \in Copies[p] : Forgotten(a) THEN "fixed" ELSE "conflict"
representative_historical_deletion(p) ==
    classify_deletion_candidate(p) = "conflict" /\ \E a \in Objects : db.ledger[a] = "purged"

\* Mutant: only the exact copy of a forgotten object is refused.
ResurrectionAllowed(j) ==
    classify_deletion_candidate(j.p) # "fixed"
validate_non_resurrection(j) ==
    CASE classify_deletion_candidate(j.p) = "clear" -> TRUE
      [] classify_deletion_candidate(j.p) = "fixed" -> FALSE
      [] OTHER -> j.kind \in {"defer", "reject", "reauthorize"}

\* Mutant: the proposal stays open when its object is made.
AcceptedOpen(j) ==
    [db EXCEPT !.n = @ + 1,
               !.atoms[Target(j.p)] = @ + 1,
               !.log = @ \union {[p |-> j.p, rev |-> j.rev, kind |-> j.kind, arg |-> j.arg,
                                  cmd |-> j.cmd, atom |-> db.atoms[Target(j.p)] + 1,
                                  after |-> \E a \in Objects : Forgotten(a)]}]

\* The acceptance as one command: the proposal, the object, the record of it.
Accepted(j) ==
    [db EXCEPT !.n = @ + 1,
               !.props[j.p] = [rev |-> @.rev + 1,
                               st |-> IF j.kind = "edit" THEN "superseded" ELSE "accepted"],
               !.atoms[Target(j.p)] = @ + 1,
               !.log = @ \union {[p |-> j.p, rev |-> j.rev, kind |-> j.kind, arg |-> j.arg,
                                  cmd |-> j.cmd, atom |-> db.atoms[Target(j.p)] + 1,
                                  after |-> \E a \in Objects : Forgotten(a)]}]

\* The proposal service takes only an open proposal on the base it was made for.
accept_inner(j) ==
    /\ is_open(j.p)
    /\ CASE j.p \in Creates -> TRUE
         [] j.p \in Replaces -> db.atoms[Target(j.p)] = 1
         [] OTHER -> validate_atom_merge(j.p)

\* A status successor exists for a pending proposal only.
revise_status(j) ==
    [db EXCEPT !.n = @ + 1,
               !.props[j.p] = [rev |-> @.rev + 1,
                               st |-> IF j.kind = "defer" THEN "deferred" ELSE "rejected"]]
-----------------------------------------------------------------------------
(* How a request goes on.                                                     *)

Goes(r, f) == req' = [req EXCEPT ![r] = f]
\* The request's answer; a reservation it held stays in the spool, unlocked.
Answer(r, out) ==
    /\ Goes(r, Idle)
    /\ daemon' = IF r # Boot THEN daemon ELSE IF out = "error" THEN "down" ELSE "up"
\* One acceptance is over: the reconciliation takes the next segment unless it failed.
Done(r, out) ==
    IF req[r].from = "user" \/ out = "error" THEN Answer(r, out)
    ELSE /\ Goes(r, [req[r] EXCEPT !.pc = "recon", !.seg = None, !.job = None])
         /\ UNCHANGED daemon

Receive(r, d, p, arg) ==
    /\ daemon = "up" /\ req[r].pc = "idle" /\ env.req > 0
    /\ ~proposal_targets_deleted(p)
    /\ LET j == [kind |-> d, p |-> p, rev |-> db.props[p].rev, arg |-> arg, cmd |-> env.req]
       IN /\ Goes(r, [Idle EXCEPT !.user = j, !.n = db.n,
                          !.pc = IF d \in {"accept", "merge", "reauthorize"} THEN "scan" ELSE "read"])
          /\ asked' = asked \union {[p |-> p, rev |-> j.rev, kind |-> d, arg |-> arg]}
    /\ env' = [env EXCEPT !.req = @ - 1]
    /\ UNCHANGED <<db, segs, daemon>>
-----------------------------------------------------------------------------
(* Reconciling what is reserved: before an acceptance and at the start.       *)

isolated_segments(r) ==
    /\ req[r].pc = "scan"
    /\ Goes(r, [req[r] EXCEPT !.pc = "recon", !.from = "recon", !.todo = {s \in segs : ~Held(s)}])
    /\ UNCHANGED <<db, segs, daemon, env, asked>>

\* Whether the projection still shows what a committed reservation put there.
cohort_current(s) ==
    IF s.kind = "edit"
    THEN ~Forgotten(Target(s.p)) /\ \E l \in AcceptedBy(s.p) : l.atom = db.atoms[Target(s.p)]
    ELSE db.props[s.p].st = "accepted"

Refused(s) == proposal_targets_deleted(s.p) \/ (Committed(s) /\ ~cohort_current(s))
\* Mutant: a reservation of a proposal that is still open is taken for stale.
MootHasty(s) == ~Refused(s) /\ s.kind # "reauthorize"
Moot(s) ==
    /\ ~Refused(s)
    /\ \/ Committed(s)
       \/ s.kind # "reauthorize" /\ ~Current(s)
       \/ s.kind = "accept" /\ ~is_open(s.p)
       \/ s.kind = "accept" /\ s.p \in Merges /\ ~validate_atom_merge(s.p)
\* Not tried: the base of a replacement is gone.
support_atom_acceptance(j) ==
    j.p \in Replaces => ~Forgotten(Target(j.p)) /\ db.atoms[Target(j.p)] = 1
Kept(s) == ~Refused(s) /\ ~Moot(s) /\ (~Current(s) \/ ~support_atom_acceptance(s))

reconcile_reserved_once(r) ==
    /\ req[r].pc = "recon"
    /\ UNCHANGED <<env, asked, db>>
    /\ \/ /\ req[r].todo = {}
          /\ IF r = Boot \/ req[r].after = "end"
             THEN Answer(r, "nodelta")
             ELSE /\ Goes(r, [req[r] EXCEPT !.pc = "read", !.from = "user"])
                  /\ UNCHANGED daemon
          /\ UNCHANGED segs
       \/ \E s \in req[r].todo :
             \/ Refused(s) /\ Answer(r, "error") /\ UNCHANGED segs
             \/ /\ Moot(s) /\ segs' = segs \ {s}
                /\ Goes(r, [req[r] EXCEPT !.todo = @ \ {s}])
                /\ UNCHANGED daemon
             \/ /\ Kept(s)
                /\ Goes(r, [req[r] EXCEPT !.todo = @ \ {s}])
                /\ UNCHANGED <<segs, daemon>>
             \/ /\ ~Refused(s) /\ ~Moot(s) /\ ~Kept(s)
                /\ Goes(r, [req[r] EXCEPT !.pc = "reserve", !.job = s, !.snap = db.n,
                                          !.ok = accept_inner(s), !.todo = @ \ {s}])
                /\ UNCHANGED <<segs, daemon>>
-----------------------------------------------------------------------------
(* The decision itself.                                                       *)

\* The same decision is already in effect.
accepted_retry(j) ==
    \E l \in AcceptedBy(j.p) :
        /\ l.rev = j.rev /\ l.arg = j.arg
        /\ l.kind = j.kind \/ {l.kind, j.kind} = {"accept", "merge"}
        /\ ~Forgotten(Target(j.p))

proposal_acceptance_eligibility(j) ==
    CASE j.kind = "accept" -> is_open(j.p) /\ j.p \notin Merges /\ support_atom_acceptance(j)
      [] j.kind = "merge" -> is_open(j.p) /\ j.p \in Merges /\ validate_atom_merge(j.p)
      [] j.kind = "edit" -> j.p \notin Merges /\ support_atom_acceptance(j)
      [] j.kind = "reauthorize" -> j.p \in Creates /\ representative_historical_deletion(j.p)
      [] OTHER -> TRUE

Plain(j) == IF j.kind = "merge" THEN [j EXCEPT !.kind = "accept"] ELSE j

\* Mutant: the reconciliation of a retry leads back to the decision.
ReconcilesAndDecides(r) == Goes(r, [req[r] EXCEPT !.pc = "scan"])
\* A retry of an edit or a reauthorization settles what it left reserved and answers.
reconciles_and_returns(r) == Goes(r, [req[r] EXCEPT !.pc = "scan", !.after = "end"])

decide_proposal(r) ==
    LET j == req[r].user
        stale == db.n # req[r].n \/ ~Current(j)
        forgotten == j.kind \in {"accept", "merge", "edit"} /\ classify_deletion_candidate(j.p) # "clear"
    IN /\ req[r].pc = "read"
       /\ \/ accepted_retry(j) /\ j.kind \in {"accept", "merge"} /\ Answer(r, "nodelta")
          \/ /\ accepted_retry(j) /\ j.kind \in {"edit", "reauthorize"}
             /\ reconciles_and_returns(r)
             /\ UNCHANGED daemon
          \/ /\ ~accepted_retry(j)
             /\ \/ proposal_targets_deleted(j.p) /\ Answer(r, "error")
                \/ ~proposal_targets_deleted(j.p) /\ stale /\ Answer(r, "conflict")
                \/ /\ ~proposal_targets_deleted(j.p) /\ ~stale
                   /\ \/ /\ forgotten \/ ~proposal_acceptance_eligibility(j)
                         /\ Answer(r, "unavailable")
                      \/ /\ ~forgotten /\ proposal_acceptance_eligibility(j)
                         /\ Goes(r, [req[r] EXCEPT
                                !.pc = IF j.kind \in {"defer", "reject"} THEN "revise" ELSE "reserve",
                                !.from = "user", !.job = Plain(j), !.snap = db.n, !.ok = accept_inner(j)])
                         /\ UNCHANGED daemon
       /\ UNCHANGED <<db, segs, env, asked>>

\* Deferring and rejecting: one command on the frontier that was read.
ReviseStatus(r) ==
    LET j == req[r].job
    IN /\ req[r].pc = "revise"
       /\ \/ db.n # req[r].snap /\ Answer(r, "conflict") /\ UNCHANGED db
          \/ /\ db.n = req[r].snap
             /\ IF is_open(j.p) /\ validate_non_resurrection(j)
                THEN db' = revise_status(j) /\ Answer(r, "applied")
                ELSE Answer(r, "error") /\ UNCHANGED db
       /\ UNCHANGED <<segs, env, asked>>
-----------------------------------------------------------------------------
(* Accepting: reserve, commit, acknowledge.                                   *)

claim_isolated_record(j) == {s \in segs : RecordOf(s) = RecordOf(j) /\ ~Held(s)}
Fresh(r) == [req[r].job EXCEPT !.cmd = IF req[r].from = "user" THEN req[r].user.cmd ELSE @]
\* Mutant: the spool is not searched for the routing hint.
AppendUnchecked(r, kept) ==
    /\ segs' = kept \union {Fresh(r)}
    /\ Goes(r, [req[r] EXCEPT !.pc = "commit", !.seg = Fresh(r)])
    /\ UNCHANGED daemon
\* One reservation a proposal: the spool refuses a second under the same routing hint.
append_isolated_sealed(r, kept) ==
    IF \E s \in kept : s.p = req[r].job.p
    THEN Done(r, "error") /\ segs' = kept
    ELSE /\ segs' = kept \union {Fresh(r)}
         /\ Goes(r, [req[r] EXCEPT !.pc = "commit", !.seg = Fresh(r)])
         /\ UNCHANGED daemon

\* The reserved bytes must be this acceptance; another edit of the revision gives way.
same_intent(s, j) == s.kind = j.kind /\ s.arg = j.arg

Reserve(r) ==
    LET j == req[r].job
        claimed == claim_isolated_record(j)
    IN /\ req[r].pc = "reserve"
       /\ \/ claimed = {} /\ append_isolated_sealed(r, segs)
          \/ \E s \in claimed :
                \/ /\ same_intent(s, j)
                   /\ Goes(r, [req[r] EXCEPT !.pc = "commit", !.seg = s])
                   /\ UNCHANGED <<segs, daemon>>
                \/ /\ ~same_intent(s, j) /\ s.kind = "edit" /\ j.kind = "edit" /\ ~Committed(s)
                   /\ append_isolated_sealed(r, segs \ {s})
                \/ /\ ~same_intent(s, j)
                   /\ s.kind # j.kind \/ Committed(s)
                   /\ Done(r, "error") /\ UNCHANGED segs
       /\ UNCHANGED <<db, env, asked>>

commit_if_frontier(r) == db.n = req[r].snap

Commit(r) ==
    LET j == req[r].seg
    IN /\ req[r].pc = "commit"
       /\ \/ ~req[r].ok /\ Done(r, "error") /\ UNCHANGED db
          \/ req[r].ok /\ ~commit_if_frontier(r) /\ Done(r, "conflict") /\ UNCHANGED db
          \/ /\ req[r].ok /\ commit_if_frontier(r)
             /\ IF validate_non_resurrection(j)
                THEN /\ db' = Accepted(j)
                     /\ Goes(r, [req[r] EXCEPT !.pc = "ack"])
                     /\ UNCHANGED daemon
                ELSE Done(r, "error") /\ UNCHANGED db
       /\ UNCHANGED <<segs, env, asked>>

\* Read back, compare with the projection of now, remove the segment.
Acknowledge(r) ==
    LET s == req[r].seg
    IN /\ req[r].pc = "ack"
       /\ IF Refused(s) /\ s.kind # "reauthorize"
          THEN Done(r, "error") /\ UNCHANGED segs
          ELSE Done(r, "applied") /\ segs' = segs \ {s}
       /\ UNCHANGED <<db, env, asked>>

\* A hook holds the spool's directory, or the spool is full: the operation is refused.
Busy(r) ==
    /\ env.busy > 0
    /\ req[r].pc \in {"scan", "reserve", "ack"}
    /\ Done(r, "error")
    /\ env' = [env EXCEPT !.busy = @ - 1]
    /\ UNCHANGED <<db, segs, asked>>
-----------------------------------------------------------------------------
(* Everything else that commits, and the daemon's life.                       *)

Free == daemon = "up" /\ env.other > 0
Other(next) ==
    /\ Free /\ db' = [next EXCEPT !.n = @ + 1]
    /\ env' = [env EXCEPT !.other = @ - 1]
    /\ UNCHANGED <<segs, req, daemon, asked>>
\* A capture, a job, anything: only the frontier moves.
OtherCommit == Other(db)
\* New evidence for an open proposal makes a new revision of it.
submit(p) == is_open(p) /\ ~proposal_targets_deleted(p) /\ Other([db EXCEPT !.props[p].rev = @ + 1])
\* An atom gets a successor by another way.
ReviseAtom(a) == db.atoms[a] = 1 /\ ~Forgotten(a) /\ Other([db EXCEPT !.atoms[a] = 2])

forget_object(a) ==
    /\ daemon = "up" /\ env.forget > 0
    /\ db.atoms[a] > 0 /\ ~Forgotten(a)
    /\ db' = [db EXCEPT !.n = @ + 1, !.ledger[a] = "pending", !.atoms[a] = 0]
    /\ env' = [env EXCEPT !.forget = @ - 1]
    /\ UNCHANGED <<segs, req, daemon, asked>>
complete_object_forget(a) ==
    /\ daemon = "up" /\ db.ledger[a] = "pending"
    /\ db' = [db EXCEPT !.n = @ + 1, !.ledger[a] = "purged"]
    /\ UNCHANGED <<segs, req, daemon, env, asked>>

Crash ==
    /\ daemon # "down" /\ env.crash > 0
    /\ daemon' = "down" /\ req' = [r \in DOMAIN req |-> Idle]
    /\ env' = [env EXCEPT !.crash = @ - 1]
    /\ UNCHANGED <<db, segs, asked>>
Start ==
    /\ daemon = "down" /\ daemon' = "boot"
    /\ Goes(Boot, [Idle EXCEPT !.pc = "scan", !.after = "end"])
    /\ UNCHANGED <<db, segs, env, asked>>

Step(r) ==
    \/ isolated_segments(r) \/ reconcile_reserved_once(r) \/ decide_proposal(r)
    \/ ReviseStatus(r) \/ Reserve(r) \/ Commit(r) \/ Acknowledge(r)

ArgsOf(d) == IF d = "edit" THEN Payloads ELSE {0}
Next ==
    \/ \E r \in Callers, d \in env.decisions, p \in env.props :
         \E arg \in ArgsOf(d) : Receive(r, d, p, arg)
    \/ \E r \in Callers \union {Boot} : Step(r) \/ Busy(r)
    \/ OtherCommit \/ (\E p \in env.props : submit(p)) \/ (\E a \in Atoms : ReviseAtom(a))
    \/ \E a \in Objects : forget_object(a) \/ complete_object_forget(a)
    \/ Crash \/ Start

Spec == Init /\ [][Next]_vars
\* Handlers and the start run to their end, and the service manager starts the daemon.
FairSpec == Spec /\ WF_vars(Start) /\ \A r \in Callers \union {Boot} : WF_vars(Step(r))
-----------------------------------------------------------------------------
(* Properties                                                                 *)

Segments == [kind : {"accept", "edit", "reauthorize"}, p : Proposals, rev : Nat, arg : Payloads \union {0},
             cmd : Nat \ {0}]

\* Requests hold segments that exist, at most one request holds one, and a proposal has
\* at most one reservation.
TypeOK ==
    /\ db.n \in Nat /\ \A p \in Proposals : db.props[p].rev \in 1..(db.n + 1)
    /\ segs \subseteq Segments
    /\ \A s, t \in segs : s.p = t.p => s = t
    /\ \A r \in DOMAIN req : (req[r].todo \union ({req[r].seg} \ {None})) \subseteq segs
    /\ \A r, q \in DOMAIN req : r # q =>
          (req[r].todo \union {req[r].seg}) \intersect (req[q].todo \union {req[q].seg}) \subseteq {None}

\* Every acceptance in the journal is one the owner asked for, of that revision, with that
\* payload, and no proposal is accepted twice: whatever was reserved, conflicted, retried
\* or reconciled in between (accept_plain, accept_edit, reconcile_reserved_once).
AppliedAsDecided ==
    /\ \A l \in db.log : \E a \in asked :
          /\ a.p = l.p /\ a.rev = l.rev /\ a.arg = l.arg
          /\ a.kind = l.kind \/ (a.kind = "merge" /\ l.kind = "accept")
    /\ \A l, m \in db.log : l.p = m.p => l = m

\* A reservation leaves the spool only when it is committed, given up for another edit of
\* the same revision, or can never be committed any more (acknowledge_segment).
AckOnlySettled ==
    [][\A s \in segs \ segs' :
          \/ \E l \in db'.log : l.cmd = s.cmd
          \/ db'.props[s.p].rev # s.rev \/ db'.props[s.p].st # "pending"
          \/ s.p \in Merges /\ ~validate_atom_merge(s.p)'
          \/ \E t \in segs' : t.p = s.p /\ t.kind = "edit"]_vars

\* A forgotten object stays gone, and what is created while a deletion of its kind is on
\* record is created by an explicit reauthorization only, wherever the deletion fell
\* between the decision, the reservation and the commit.
ForgottenStaysGone ==
    /\ \A a \in Objects : Forgotten(a) => db.atoms[a] = 0
    /\ \A l \in db.log : l.p \in Creates /\ l.after => l.kind = "reauthorize"

\* Every replacement and merge was committed on the base it was made for.
BaseRespected == \A l \in db.log : l.p \notin Creates => l.atom = 2

\* A request that the daemon takes gets its answer, or the daemon dies.
RequestEnds == \A r \in Callers : req[r].pc # "idle" ~> req[r].pc = "idle"

\* What is in force was decided, is applied once and on the base it was decided on, and is
\* not what was forgotten (human_governance.rs, semantic/proposal.rs).
DecisionsApplied == TypeOK /\ AppliedAsDecided /\ BaseRespected /\ ForgottenStaysGone
=============================================================================

--------------------------- MODULE JournalWriter ---------------------------
(***************************************************************************)
(* The single journal writer (evertrace-store/src/writer.rs) inside its    *)
(* actor (evertrace-engine/src/jobs/executor.rs).  Commands are appended   *)
(* to the journal; objects, relations and the search index are projections *)
(* of it, committed one after the other.  Validation stamps kept in memory *)
(* let a projection skip or shorten work whose input it has proven before. *)
(*                                                                         *)
(* The actor runs one request to its end, and every I/O error ends the     *)
(* actor: the store is then reopened from what is durable.  A refused      *)
(* command (id conflict, stale frontier, not admissible) changes nothing.  *)
(* A command counts as one sequence number.                                *)
(***************************************************************************)
EXTENDS CommandFold

CONSTANTS
  Planned,     \* commands submitted with the frontier they were planned at
  Large,       \* commands whose rows are too large to hand to a projection
  MaxFailures  \* bound: I/O failures and kills

ASSUME WriterAssumption ==
  Planned \subseteq Commands /\ Large \subseteq Commands /\ MaxFailures \in Nat

VARIABLES
  journal,    \* durable: committed commands in order
  objects,    \* durable: object rows and their checkpoint
  relations,  \* durable: relation rows and their checkpoint
  search,     \* durable: search rows, their checkpoint and the table version
  open,       \* whether a writer is open
  admission,  \* JournalAdmissionState: the commands it has applied
  epoch,      \* commits of each family by this connection
  cache,      \* projection_validation: the objects stamp and the full stamp
  turn,       \* the projection being computed
  acked, answer,  \* what clients were told
  failures

durable == <<journal, objects, relations, search>>
handle == <<open, admission, epoch, cache, turn>>
clients == <<acked, answer>>
vars == <<durable, handle, clients, failures>>

NoEpoch == [journal |-> 0, objects |-> 0, relations |-> 0]
NoCache == [objects |-> {}, all |-> {}]
NoTurn == [pc |-> "idle", indexes |-> FALSE, returns |-> FALSE, capture |-> FALSE, rows |-> {},
           changed |-> {}, proven |-> FALSE, source |-> FALSE, version |-> 0]

\* Opened: a checkpoint row makes the epoch of a projection 1.
OpenEpoch == [journal |-> IF journal = <<>> THEN 0 ELSE 1, objects |-> 1, relations |-> 1]

Init ==
  /\ journal = <<>>
  /\ objects = [through |-> 0, rows |-> {}]
  /\ relations = [through |-> 0, rows |-> {}]
  /\ search = [through |-> 0, rows |-> {}, version |-> 1]
  /\ open = TRUE /\ admission = <<>> /\ epoch = OpenEpoch /\ cache = NoCache /\ turn = NoTurn
  /\ acked = {} /\ answer = [frontier |-> 0, rows |-> {}]
  /\ failures = 0

-----------------------------------------------------------------------------
(* Stamps.                                                                   *)

\* Mutant: a reserved sequence number is taken for a committed one.
FrontierReserved == Len(journal) + 1

Frontier == Len(journal)

\* SqliteState::stamp.
Stamp ==
  [journalEpoch |-> epoch.journal, frontier |-> Frontier,
   objectsEpoch |-> epoch.objects, objectCheckpoint |-> objects.through,
   relationsEpoch |-> epoch.relations, relationCheckpoint |-> relations.through]

Agree(v, fields) == \A f \in fields : v.stamp[f] = Stamp[f]

\* ProjectionValidation::objects_bound, appended_successor_bound and
\* capture_successor_bound.
ObjectsBound(v) == Agree(v, {"journalEpoch", "frontier", "objectsEpoch", "objectCheckpoint"})
SuccessorBound(v) ==
  v.appended = Frontier /\ v.appended # 0 /\ Agree(v, {"objectsEpoch", "objectCheckpoint"})

CaptureBound(v) ==
  /\ v.proven /\ v.handoff # <<>>
  /\ v.version = search.version
  /\ v.stamp.frontier = v.stamp.objectCheckpoint
  /\ Agree(v, {"relationsEpoch", "relationCheckpoint"})
  /\ Stamp.journalEpoch = v.stamp.journalEpoch + 1
  /\ SuccessorBound(v)

-----------------------------------------------------------------------------
(* Commits.                                                                  *)

Idle == open /\ turn.pc = "idle"
Closed == open' = FALSE /\ admission' = <<>> /\ epoch' = NoEpoch /\ cache' = NoCache /\ turn' = NoTurn

\* Mutants: every append hands over its own rows; a ledger keeps the proof that
\* the admission state and the object rows agree on captures; the frontier that
\* was appended is not noted.
SuccessorAlways(v, c) ==
  [v EXCEPT !.source = @ /\ c \notin Ledgers, !.appended = Frontier + 1, !.handoff = <<c>>]
\* Mutant of Successor.
SuccessorTrusting(v, c) ==
  [v EXCEPT !.appended = Frontier + 1,
            !.handoff = IF v.appended = 0 /\ c \notin Large THEN <<c>> ELSE <<>>]
\* Mutant of Successor.
SuccessorUnnoted(v, c) ==
  [v EXCEPT !.source = @ /\ c \notin Ledgers, !.handoff = <<>>]

\* A stamp of the objects survives an append as a proof of its old input.  The
\* first append hands its rows over; after a second the journal is read.
Successor(v, c) ==
  [v EXCEPT !.source = @ /\ c \notin Ledgers,
            !.appended = Frontier + 1,
            !.handoff = IF v.appended = 0 /\ c \notin Large THEN <<c>> ELSE <<>>]

Unused(c) == \A d \in All(journal) : IdOf[d] # IdOf[c]

\* Mutant: the frontier a plan was made at is not compared.
TimelyAlways(c) == TRUE

\* CommitCondition::Frontier.
Timely(c) == c \in Planned => answer.frontier = Frontier

\* commit_inner, acknowledged.
Commit(c) ==
  /\ Idle
  /\ Unused(c) /\ Timely(c) /\ Admissible(c, All(admission))
  /\ journal' = Append(journal, c)
  /\ admission' = Append(admission, c)
  /\ epoch' = [epoch EXCEPT !.journal = @ + 1]
  /\ cache' = [objects |-> {Successor(v, c) : v \in cache.objects}, all |-> {}]
  /\ acked' = acked \cup {c}
  /\ UNCHANGED <<objects, relations, search, open, turn, answer, failures>>

\* The outcome of COMMIT is not known, or a check after it fails: the command
\* is durable, the handle poisoned and the submitter has an error.
CommitUncertain(c) ==
  /\ Idle /\ failures < MaxFailures
  /\ Unused(c) /\ Timely(c) /\ Admissible(c, All(admission))
  /\ journal' = Append(journal, c)
  /\ Closed
  /\ failures' = failures + 1
  /\ UNCHANGED <<objects, relations, search, clients>>

\* replay_outcome comes before the frontier is compared.
CommitReplayed(c) ==
  /\ Idle
  /\ c \in All(journal)
  /\ acked' = acked \cup {c}
  /\ UNCHANGED <<durable, handle, answer, failures>>

\* Any other failure, also inside a projection: nothing more becomes durable.
Fail ==
  /\ open /\ failures < MaxFailures
  /\ Closed
  /\ failures' = failures + 1
  /\ UNCHANGED <<durable, clients>>

\* open_on_connection.
Reopen ==
  /\ ~open
  /\ open' = TRUE /\ epoch' = OpenEpoch
  /\ admission' = journal
  /\ UNCHANGED <<durable, cache, turn, clients, failures>>

-----------------------------------------------------------------------------
(* Projections: project_validated.                                           *)

SourceFacts(n) == Captures \cap UpTo(admission, n)

\* With a proven source prefix, captures come from the admission state.
RowsRead(source) ==
  IF source THEN (objects.rows \ Captures) \cup SourceFacts(objects.through) ELSE objects.rows
SourcePrefixMatches(rows, n) == rows \cap Captures = SourceFacts(n)

Hits(indexes) ==
  IF indexes THEN {v \in cache.all : v.stamp = Stamp /\ v.version = search.version}
             ELSE {v \in cache.objects : ObjectsBound(v)}
Inputs == {v \in cache.objects : SuccessorBound(v)}

\* A lone appended capture over proven content, no ledger in sight.
CaptureInputs(indexes, returns) ==
  {v \in Inputs : /\ indexes /\ ~returns
                  /\ CaptureBound(v)
                  /\ All(v.handoff) \subseteq Captures /\ objects.rows \cap Ledgers = {}}

\* A valid stamp: nothing is computed.
ProjectHit(indexes, returns) ==
  /\ Idle
  /\ \E v \in Hits(indexes) :
       turn' = [NoTurn EXCEPT !.pc = "finish", !.indexes = indexes, !.returns = returns,
                  !.rows = IF returns THEN RowsRead(v.source) ELSE {},
                  !.source = v.source, !.version = v.version,
                  !.proven = v.proven /\ (indexes \/ v.stamp = Stamp)]
  /\ UNCHANGED <<durable, open, admission, epoch, cache, clients, failures>>

\* catch_up_capture_delta: the new rows are added to the objects as they are.
ProjectCapture(indexes, returns) ==
  /\ Idle /\ Hits(indexes) = {}
  /\ \E v \in CaptureInputs(indexes, returns) :
       /\ objects' = [through |-> Frontier, rows |-> objects.rows \cup All(v.handoff)]
       /\ turn' = [NoTurn EXCEPT !.pc = "relations", !.indexes = TRUE, !.capture = TRUE,
                     !.changed = All(v.handoff), !.source = v.source]
  /\ epoch' = [epoch EXCEPT !.objects = @ + 1]
  /\ UNCHANGED <<journal, relations, search, open, admission, cache, clients, failures>>

\* The objects are valid, only the indexes are in question.
ProjectIndexes(returns) ==
  /\ Idle /\ Hits(TRUE) = {}
  /\ \E v \in Hits(FALSE) :
       turn' = [NoTurn EXCEPT !.pc = "relations", !.indexes = TRUE, !.returns = returns,
                  !.rows = RowsRead(v.source), !.source = v.source]
  /\ UNCHANGED <<durable, open, admission, epoch, cache, clients, failures>>

\* ProjectionWorker::catch_up_inner: the old rows and the journal since their
\* checkpoint, or the rows handed over.
SourceProven == \E v \in Inputs : v.source
Handed == {v \in Inputs : v.handoff # <<>>}
Delta ==
  IF Handed # {} THEN UNION {All(v.handoff) : v \in Handed} ELSE Since(journal, objects.through)
Folded ==
  LET old == RowsRead(SourceProven) IN IF Delta = {} THEN old ELSE Shown(old \cup Delta)

\* One transaction.  Rows are removed only when the delta has a ledger;
\* otherwise rows are upserted.
Stored == IF Delta \cap Ledgers # {} THEN Folded ELSE objects.rows \cup Folded

ProjectObjects(indexes, returns) ==
  /\ Idle /\ Hits(FALSE) = {} /\ Hits(indexes) = {} /\ CaptureInputs(indexes, returns) = {}
  /\ IF Delta = {} THEN UNCHANGED <<objects, epoch>>
     ELSE /\ objects' = [through |-> Frontier, rows |-> Stored]
          /\ epoch' = [epoch EXCEPT !.objects = @ + 1]
  /\ turn' = [NoTurn EXCEPT !.pc = IF indexes THEN "relations" ELSE "finish",
                !.indexes = indexes, !.returns = returns, !.rows = Folded,
                !.source = SourceProven \/ SourcePrefixMatches(Folded, Frontier)]
  /\ UNCHANGED <<journal, relations, search, open, admission, cache, clients, failures>>

\* Mutant: the relations vouch for the search index.
IndexesCurrentRelations == relations.through = Frontier

\* L0002ProjectionWorker: both derived families are up to date already.  Only
\* a capture successor inherits the proof of its base.
IndexesCurrent == relations.through = Frontier /\ search.through = Frontier
SkipIndexes ==
  /\ turn.pc = "relations" /\ IndexesCurrent
  /\ turn' = [turn EXCEPT !.pc = "finish", !.proven = turn.capture]
  /\ UNCHANGED <<durable, open, admission, epoch, cache, clients, failures>>

\* What the index of a family is derived from: all object rows, or the old
\* index and the rows of the capture.
Indexed(rows) == rows \ Ledgers
Derived(family) ==
  IF turn.capture THEN family.rows \cup turn.changed ELSE Indexed(turn.rows)

\* A transaction without a change leaves the epoch alone.
CommitRelations ==
  LET new == [through |-> Frontier, rows |-> Derived(relations)]
  IN /\ turn.pc = "relations" /\ ~IndexesCurrent
     /\ relations' = new
     /\ epoch' = [epoch EXCEPT !.relations = IF relations = new THEN @ ELSE @ + 1]
     /\ turn' = [turn EXCEPT !.pc = "search"]
     /\ UNCHANGED <<journal, objects, search, open, admission, cache, clients, failures>>

CommitSearch ==
  LET rows == Derived(search)
  IN /\ turn.pc = "search"
     /\ search' = IF search.through = Frontier /\ search.rows = rows THEN search
                  ELSE [through |-> Frontier, rows |-> rows, version |-> search.version + 1]
     /\ turn' = [turn EXCEPT !.pc = "finish", !.proven = TRUE]
     /\ UNCHANGED <<journal, objects, relations, open, admission, epoch, cache, clients, failures>>

Validation ==
  [stamp |-> Stamp, version |-> IF turn.indexes THEN search.version ELSE turn.version,
   proven |-> turn.proven, source |-> turn.source, appended |-> 0, handoff |-> <<>>]

\* Mutant: a projection of the objects publishes the full stamp too.
FinishProjectionFull ==
  /\ turn.pc = "finish"
  /\ cache' = [objects |-> {Validation}, all |-> {[Validation EXCEPT !.version = search.version]}]
  /\ answer' = IF turn.returns THEN [frontier |-> Frontier, rows |-> turn.rows] ELSE answer
  /\ turn' = NoTurn
  /\ UNCHANGED <<durable, open, admission, epoch, acked, failures>>

FinishProjection ==
  /\ turn.pc = "finish"
  /\ cache' = [objects |-> {Validation},
               all |-> IF turn.indexes THEN {Validation} ELSE {v \in cache.all : ObjectsBound(v)}]
  /\ answer' = IF turn.returns THEN [frontier |-> Frontier, rows |-> turn.rows] ELSE answer
  /\ turn' = NoTurn
  /\ UNCHANGED <<durable, open, admission, epoch, acked, failures>>

\* normal_search_admission_frontier and validated_current_read: a read answered
\* from the admission state.  A stamp that is not bound would be corruption.
ReadBound(v) ==
  \/ ObjectsBound(v) /\ v.stamp.frontier = Len(admission)
  \/ SuccessorBound(v) /\ Frontier = Len(admission)
ReadCurrent ==
  /\ Idle
  /\ \E v \in cache.objects : ReadBound(v)
  /\ answer' = [frontier |-> Len(admission), rows |-> Shown(All(admission))]
  /\ UNCHANGED <<durable, handle, acked, failures>>

Project(indexes, returns) ==
  \/ ProjectHit(indexes, returns)
  \/ ProjectCapture(indexes, returns)
  \/ indexes /\ ProjectIndexes(returns)
  \/ ProjectObjects(indexes, returns)
TurnStep == SkipIndexes \/ CommitRelations \/ CommitSearch \/ FinishProjection

Next ==
  \/ \E c \in Commands : Commit(c) \/ CommitUncertain(c) \/ CommitReplayed(c)
  \/ \E indexes, returns \in BOOLEAN : Project(indexes, returns)
  \/ TurnStep \/ ReadCurrent \/ Fail \/ Reopen

Spec == Init /\ [][Next]_vars

\* The actor takes requests in turn and runs each to its end, so the background
\* sync, asked for again and again, is served; a stopped daemon is restarted.
Fairness == WF_vars(TurnStep) /\ WF_vars(Reopen) /\ SF_vars(Project(TRUE, FALSE))
FairSpec == Spec /\ Fairness

-----------------------------------------------------------------------------
(* Properties.                                                               *)

StampType ==
  [journalEpoch : Nat, frontier : Nat, objectsEpoch : Nat, objectCheckpoint : Nat,
   relationsEpoch : Nat, relationCheckpoint : Nat]
ValidationType ==
  [stamp : StampType, version : Nat, proven : BOOLEAN, source : BOOLEAN, appended : Nat,
   handoff : Seq(Commands)]
ProjectionType == [through : Nat, rows : SUBSET Commands]
SearchType == [through : Nat, rows : SUBSET Commands, version : Nat]
EpochType == [journal : Nat, objects : Nat, relations : Nat]
CacheType == [objects : SUBSET ValidationType, all : SUBSET ValidationType]
TurnType ==
  [pc : {"idle", "relations", "search", "finish"}, indexes : BOOLEAN, returns : BOOLEAN,
   capture : BOOLEAN, rows : SUBSET Commands, changed : SUBSET Commands, proven : BOOLEAN,
   source : BOOLEAN, version : Nat]

\* Every variable keeps its type, and no checkpoint is ahead of the journal.
TypeOK ==
  /\ objects.through <= Len(journal) /\ relations.through <= Len(journal)
  /\ search.through <= Len(journal)
  /\ journal \in Seq(Commands) /\ admission \in Seq(Commands)
  /\ objects \in ProjectionType /\ relations \in ProjectionType /\ search \in SearchType
  /\ open \in BOOLEAN /\ epoch \in EpochType /\ cache \in CacheType /\ turn \in TurnType
  /\ acked \subseteq Commands /\ answer \in [frontier : Nat, rows : SUBSET Commands]
  /\ failures \in 0 .. MaxFailures

\* After any failure each projection is the fold of the journal up to its own
\* checkpoint, whichever shortcut computed it.
ProjectionsExact ==
  /\ objects.rows = Shown(UpTo(journal, objects.through))
  /\ \A family \in {relations, search} :
       family.rows = Indexed(Shown(UpTo(journal, family.through)))

\* A full stamp that still matches vouches for all three projections.
FullStampComplete ==
  \A v \in Hits(TRUE) : open => {objects.through, relations.through, search.through} = {Frontier}

\* Between requests the objects stamp is bound to the live state, directly or
\* as the input of what was appended since: a search read, which takes an
\* unbound stamp for corruption and stops the actor, never meets one.
ReadsBound == Idle => \A v \in cache.objects : ReadBound(v)

\* A planned command is applied only to the state it was planned from.
PlansFresh ==
  [][\A c \in Planned : c \in All(journal') \ All(journal) => answer.rows = Shown(All(journal))]_vars

\* The search index catches up with the journal again and again, through failures:
\* every committed command reaches it.
IndexesCatchUp == []<>(search.through = Len(journal))

(* The inductive invariant behind these properties.                          *)

\* An open writer has admitted the whole journal; a closed one keeps nothing.
HandleCurrent ==
  IF open THEN admission = journal ELSE cache = NoCache /\ turn = NoTurn

\* No ledger hides a capture: the admission state and the object rows have the
\* same captures, whatever is appended next that is not a ledger.
SourceAgrees == All(journal) \cap Captures \cap Hidden(All(journal)) = {}
AllAt(n) == objects.through = n /\ relations.through = n /\ search.through = n

\* The stamp of the objects, between requests: it describes the objects as they
\* are, and what it hands over is all that was appended since.
ObjectsStampSound ==
  Idle => \A v \in cache.objects :
    /\ Agree(v, {"objectsEpoch", "objectCheckpoint"})
    /\ v.stamp.frontier = v.stamp.objectCheckpoint
    /\ v.source => SourceAgrees
    /\ v.proven => AllAt(objects.through)
    /\ IF v.appended = 0 THEN v.handoff = <<>> /\ Agree(v, {"journalEpoch", "frontier"})
                         ELSE v.appended = Frontier
    /\ v.handoff # <<>> => /\ Frontier = objects.through + 1
                           /\ v.handoff = <<journal[Frontier]>>

\* The full stamp: it was taken with all families at its frontier, and as long
\* as the table version is the same so is the search index.
FullStampSound ==
  \A v \in cache.all :
    /\ v.stamp.objectCheckpoint = v.stamp.frontier /\ v.stamp.relationCheckpoint = v.stamp.frontier
    /\ v.version <= search.version
    /\ v.version = search.version => search.through = v.stamp.frontier
    /\ v.source => SourceAgrees

\* A projection in progress has the objects at the frontier and the rows, or
\* the increments, of the families that follow.
Whole == Shown(All(journal))
TurnSound ==
  turn.pc # "idle" =>
    /\ objects.through = Frontier
    /\ turn.source => SourceAgrees
    /\ turn.capture => turn.indexes /\ ~turn.returns
    /\ turn.returns \/ (turn.pc # "finish" /\ ~turn.capture) => turn.rows = Whole
    /\ turn.capture /\ turn.pc = "relations" => relations.rows \cup turn.changed = Indexed(Whole)
    /\ turn.capture /\ turn.pc # "finish" => search.rows \cup turn.changed = Indexed(Whole)
    /\ turn.pc = "search" => relations.through = Frontier
    /\ turn.pc = "finish" /\ (turn.indexes \/ turn.proven) => AllAt(Frontier)

\* What clients were told was true of the journal then.
ClientsSound ==
  /\ acked \subseteq All(journal)
  /\ answer.frontier <= Frontier /\ answer.rows = Shown(UpTo(journal, answer.frontier))

\* The invariant of the writer: types, an admission state that is current,
\* exact projections, and stamps and turns that vouch only for what is so.
WriterInv ==
  /\ TypeOK /\ HandleCurrent /\ ProjectionsExact
  /\ ObjectsStampSound /\ FullStampSound /\ TurnSound /\ ClientsSound

Log == INSTANCE ProjectedLog WITH log <- journal

\* The writer implements the projected log: one command per id, acknowledged
\* only when durable, every answer the fold of the whole journal.
ImplementsLog == Log!Spec
=============================================================================

---------------------------- MODULE JournalProofs ----------------------------
(* Machine-checked proofs about JournalWriter, for every set of commands,    *)
(* every hiding relation and any number of failures, and about SessionImport *)
(* for every set of records, budget and scenario.                            *)
EXTENDS JournalWriter, SessionImport, SequenceTheorems, WellFoundedInduction, TLAPS

-----------------------------------------------------------------------------
(* Prefixes of the journal.                                                  *)

\* The journal grows at its end: a prefix stays what it was (append_command_rows).
LEMMA UpToAppend ==
  ASSUME NEW log \in Seq(Commands), NEW c \in Commands, NEW n \in Nat, n <= Len(log)
  PROVE  UpTo(Append(log, c), n) = UpTo(log, n)
BY DEF UpTo

\* An appended command is the only new one of the journal.
LEMMA AllAppend ==
  ASSUME NEW log \in Seq(Commands), NEW c \in Commands
  PROVE  All(Append(log, c)) = All(log) \cup {c}
<1> DEFINE new == Append(log, c)
<1>1. /\ new \in Seq(Commands) /\ Len(new) = Len(log) + 1
      /\ new[Len(log) + 1] = c /\ \A i \in 1 .. Len(log) : new[i] = log[i]
  OBVIOUS
<1>2. ASSUME NEW s \in Seq(Commands) PROVE All(s) = {s[i] : i \in 1 .. Len(s)}
  BY DEF UpTo, All
<1>3. {new[i] : i \in 1 .. Len(log) + 1} = {log[i] : i \in 1 .. Len(log)} \cup {c}
  <2> HIDE DEF new
  <2>1. \A i \in 1 .. Len(log) + 1 : i \in 1 .. Len(log) \/ i = Len(log) + 1
    OBVIOUS
  <2>2. 1 .. Len(log) \subseteq 1 .. Len(log) + 1 /\ Len(log) + 1 \in 1 .. Len(log) + 1
    OBVIOUS
  <2>3. QED
    BY <1>1, <2>1, <2>2
<1>4. QED
  BY <1>1, <1>2, <1>3

\* A prefix and what follows it make the whole journal (rows_after).
LEMMA UpToSince ==
  ASSUME NEW log \in Seq(Commands), NEW n \in Nat
  PROVE  /\ All(log) = UpTo(log, n) \cup Since(log, n)
         /\ UpTo(log, n) \subseteq Commands /\ Since(log, n) \subseteq Commands
         /\ Since(log, n) = {} => n >= Len(log)
         /\ n >= Len(log) => UpTo(log, n) = All(log) /\ Since(log, n) = {}
BY DEF UpTo, All, Since

\* The rows handed to a projection are those of the last command.
LEMMA AllSingle ==
  ASSUME NEW c \in Commands
  PROVE  All(<<c>>) = {c}
BY DEF UpTo, All

-----------------------------------------------------------------------------
(* The fold.  Ledgers are never hidden, so hiding can be done in stages.     *)

\* Folding a delta into what is shown already gives the fold of everything
\* (ReducerState::from_current_rows, apply_event).
LEMMA FoldIncrement ==
  ASSUME NEW S \in SUBSET Commands, NEW D \in SUBSET Commands
  PROVE  /\ Shown(Shown(S) \cup D) = Shown(S \cup D)
         /\ D \cap Ledgers = {} => Shown(S) \subseteq Shown(S \cup D)
BY CommandAssumption DEF Shown, Hidden

\* Without ledgers a delta can be added as it is (catch_up_capture_delta).
LEMMA FoldCapture ==
  ASSUME NEW S \in SUBSET Commands, NEW D \in SUBSET Commands,
         D \cap Ledgers = {}, Shown(S) \cap Ledgers = {}
  PROVE  Shown(S \cup D) = Shown(S) \cup D
BY CommandAssumption DEF Shown, Hidden

\* More ledgers hide more, and ledgers themselves are never hidden.
LEMMA HiddenGrows ==
  ASSUME NEW S \in SUBSET Commands, NEW T \in SUBSET Commands
  PROVE  /\ S \subseteq T => Hidden(S) \subseteq Hidden(T)
         /\ T \cap Ledgers \subseteq S => Hidden(T) \subseteq Hidden(S)
         /\ Hidden(S) \subseteq Commands \ Ledgers
         /\ Shown(S) \subseteq S
BY CommandAssumption DEF Shown, Hidden

\* What follows all but the last command is the last command.
LEMMA SinceLast ==
  ASSUME NEW log \in Seq(Commands), NEW n \in Nat, Len(log) = n + 1
  PROVE  Since(log, n) = {log[Len(log)]} /\ log[Len(log)] \in Commands
<1>1. \A i \in DOMAIN log : i > n <=> i = Len(log)
  OBVIOUS
<1>2. Len(log) \in DOMAIN log /\ log[Len(log)] \in Commands
  OBVIOUS
<1>3. QED
  BY <1>1, <1>2 DEF Since

-----------------------------------------------------------------------------
(* Types.                                                                    *)

\* A stamp of the live state has its type.
LEMMA StampOK ==
  ASSUME TypeOK PROVE Stamp \in StampType
BY DEF TypeOK, Stamp, StampType, Frontier, ProjectionType, EpochType

\* What a projection reads are commands.
LEMMA RowsReadOK ==
  ASSUME TypeOK, NEW source \in BOOLEAN PROVE RowsRead(source) \in SUBSET Commands
<1>1. UpTo(admission, objects.through) \subseteq Commands
  BY UpToSince DEF TypeOK, ProjectionType
<1>2. QED
  BY <1>1 DEF RowsRead, SourceFacts, TypeOK, ProjectionType

\* An empty cache and an idle turn have their types.
LEMMA EmptyType == NoCache \in CacheType /\ NoTurn \in TurnType /\ NoEpoch \in EpochType
BY DEF NoCache, NoTurn, NoEpoch, CacheType, TurnType, EpochType

\* The type invariant holds initially.
LEMMA InitType == Init => TypeOK
BY WriterAssumption, EmptyType
   DEF Init, TypeOK, ProjectionType, SearchType, EpochType, OpenEpoch

\* The parts of the type invariant, for steps that need a few of them.
LEMMA TypeParts ==
  ASSUME TypeOK
  PROVE  /\ journal \in Seq(Commands) /\ admission \in Seq(Commands) /\ Len(journal) \in Nat
         /\ objects.through \in Nat /\ objects.through <= Len(journal)
         /\ relations.through \in Nat /\ relations.through <= Len(journal)
         /\ search.through \in Nat /\ search.through <= Len(journal) /\ search.version \in Nat
         /\ objects \in ProjectionType /\ relations \in ProjectionType /\ search \in SearchType
         /\ epoch \in EpochType /\ cache \in CacheType /\ turn \in TurnType
         /\ cache.objects \in SUBSET ValidationType /\ cache.all \in SUBSET ValidationType
BY DEF TypeOK, ProjectionType, SearchType, CacheType

\* A closed writer has the types of an empty one.
LEMMA ClosedType ==
  ASSUME TypeOK, Closed, failures' \in 0 .. MaxFailures,
         objects' = objects, relations' = relations, search' = search,
         acked' = acked, answer' = answer,
         journal' \in Seq(Commands), Len(journal') \in Nat, Len(journal') >= Len(journal)
  PROVE  TypeOK'
<1>0. open' \in BOOLEAN
  BY DEF Closed
<1>1. admission' \in Seq(Commands)
  BY DEF Closed
<1>2. epoch' \in EpochType /\ cache' \in CacheType /\ turn' \in TurnType
  BY EmptyType DEF Closed
<1>3. /\ objects'.through <= Len(journal') /\ relations'.through <= Len(journal')
      /\ search'.through <= Len(journal')
  BY TypeParts
<1>4. QED
  BY <1>0, <1>1, <1>2, <1>3 DEF TypeOK

\* A commit keeps the types (commit_inner).
LEMMA CommitType ==
  ASSUME TypeOK, NEW c \in Commands, Commit(c) PROVE TypeOK'
<1>1. /\ journal' \in Seq(Commands) /\ Len(journal') = Len(journal) + 1
      /\ admission' \in Seq(Commands)
  BY TypeParts DEF Commit
<1>2. ASSUME NEW v \in ValidationType PROVE Successor(v, c) \in ValidationType
  <2>1. <<c>> \in Seq(Commands) /\ <<>> \in Seq(Commands)
    OBVIOUS
  <2>2. Frontier + 1 \in Nat
    BY TypeParts DEF Frontier
  <2>3. QED
    BY <2>1, <2>2 DEF Successor, ValidationType
<1>3. cache' \in CacheType
  <2>1. {Successor(v, c) : v \in cache.objects} \in SUBSET ValidationType
    BY <1>2, TypeParts
  <2>2. QED
    BY <2>1 DEF Commit, CacheType
<1>4. epoch' \in EpochType
  <2>1. epoch \in EpochType /\ epoch' = [epoch EXCEPT !.journal = @ + 1]
    BY TypeParts DEF Commit
  <2>2. QED
    BY <2>1 DEF EpochType
<1>5. /\ objects'.through <= Len(journal') /\ relations'.through <= Len(journal')
      /\ search'.through <= Len(journal')
  BY <1>1, TypeParts DEF Commit
<1>6. QED
  BY <1>1, <1>3, <1>4, <1>5 DEF TypeOK, Commit

\* The validations a projection starts from have their type.
LEMMA HitType ==
  ASSUME TypeOK, NEW indexes \in BOOLEAN
  PROVE  Hits(indexes) \subseteq ValidationType /\ Inputs \subseteq ValidationType
BY TypeParts DEF Hits, Inputs

\* A projection request keeps the types (project_validated).
LEMMA ProjectHitType ==
  ASSUME TypeOK, NEW indexes \in BOOLEAN, NEW returns \in BOOLEAN, ProjectHit(indexes, returns)
  PROVE  TypeOK'
<1>1. PICK v \in Hits(indexes) :
        turn' = [NoTurn EXCEPT !.pc = "finish", !.indexes = indexes, !.returns = returns,
                   !.rows = IF returns THEN RowsRead(v.source) ELSE {},
                   !.source = v.source, !.version = v.version,
                   !.proven = v.proven /\ (indexes \/ v.stamp = Stamp)]
  BY DEF ProjectHit
<1>2. v \in ValidationType
  BY HitType
<1>3. v.source \in BOOLEAN /\ v.version \in Nat /\ v.proven \in BOOLEAN
  BY <1>2 DEF ValidationType
<1>4. (IF returns THEN RowsRead(v.source) ELSE {}) \in SUBSET Commands
  BY <1>3, RowsReadOK
<1>5. (v.proven /\ (indexes \/ v.stamp = Stamp)) \in BOOLEAN
  OBVIOUS
<1>6. turn' \in TurnType
  BY <1>1, <1>3, <1>4, <1>5 DEF NoTurn, TurnType
<1>7. QED
  BY <1>6 DEF TypeOK, ProjectHit, durable, clients

LEMMA ProjectCaptureType ==
  ASSUME TypeOK, NEW indexes \in BOOLEAN, NEW returns \in BOOLEAN, ProjectCapture(indexes, returns)
  PROVE  TypeOK'
<1>1. PICK v \in Inputs :
        /\ objects' = [through |-> Frontier, rows |-> objects.rows \cup All(v.handoff)]
        /\ turn' = [NoTurn EXCEPT !.pc = "relations", !.indexes = TRUE, !.capture = TRUE,
                      !.changed = All(v.handoff), !.source = v.source]
  BY DEF ProjectCapture, CaptureInputs
<1>2. v \in ValidationType
  BY HitType
<1>3. v.source \in BOOLEAN /\ v.handoff \in Seq(Commands)
  BY <1>2 DEF ValidationType
<1>4. All(v.handoff) \in SUBSET Commands
  BY <1>3, UpToSince DEF All
<1>5. turn' \in TurnType
  BY <1>1, <1>3, <1>4 DEF NoTurn, TurnType
<1>6. objects' \in ProjectionType /\ objects'.through = Len(journal)
  BY <1>1, <1>4, TypeParts DEF ProjectionType, Frontier
<1>7. epoch' \in EpochType
  <2>1. epoch \in EpochType /\ epoch' = [epoch EXCEPT !.objects = @ + 1]
    BY TypeParts DEF ProjectCapture
  <2>2. QED
    BY <2>1 DEF EpochType
<1>8. Len(journal) <= Len(journal)
  BY TypeParts
<1>9. QED
  BY <1>5, <1>6, <1>7, <1>8 DEF TypeOK, ProjectCapture, clients

LEMMA ProjectIndexesType ==
  ASSUME TypeOK, NEW returns \in BOOLEAN, ProjectIndexes(returns)
  PROVE  TypeOK'
<1>1. PICK v \in Hits(FALSE) :
        turn' = [NoTurn EXCEPT !.pc = "relations", !.indexes = TRUE, !.returns = returns,
                   !.rows = RowsRead(v.source), !.source = v.source]
  BY DEF ProjectIndexes
<1>2. v \in ValidationType
  BY HitType
<1>3. v.source \in BOOLEAN
  BY <1>2 DEF ValidationType
<1>4. RowsRead(v.source) \in SUBSET Commands
  BY <1>3, RowsReadOK
<1>5. turn' \in TurnType
  BY <1>1, <1>3, <1>4 DEF NoTurn, TurnType
<1>6. QED
  BY <1>5 DEF TypeOK, ProjectIndexes, durable, clients

LEMMA ProjectObjectsType ==
  ASSUME TypeOK, NEW indexes \in BOOLEAN, NEW returns \in BOOLEAN, ProjectObjects(indexes, returns)
  PROVE  TypeOK'
<1>1. Delta \in SUBSET Commands
  <2>1. \A v \in Handed : All(v.handoff) \in SUBSET Commands
    BY HitType, UpToSince DEF Handed, ValidationType, All
  <2>2. Since(journal, objects.through) \in SUBSET Commands
    BY UpToSince, TypeParts
  <2>3. QED
    BY <2>1, <2>2 DEF Delta
<1>2. SourceProven \in BOOLEAN
  BY DEF SourceProven
<1>3. Folded \in SUBSET Commands
  BY <1>1, <1>2, RowsReadOK DEF Folded, Shown
<1>4. Stored \in SUBSET Commands
  BY <1>3, TypeParts DEF Stored, ProjectionType
<1>5. /\ objects' \in ProjectionType
      /\ objects'.through = objects.through \/ objects'.through = Len(journal)
  <2>1. objects' = objects \/ objects' = [through |-> Len(journal), rows |-> Stored]
    BY DEF ProjectObjects, Frontier
  <2>2. QED
    BY <2>1, <1>4, TypeParts DEF ProjectionType
<1>6. epoch' \in EpochType
  <2>1. epoch \in EpochType /\ (epoch' = epoch \/ epoch' = [epoch EXCEPT !.objects = @ + 1])
    BY TypeParts DEF ProjectObjects
  <2>2. QED
    BY <2>1 DEF EpochType
<1>7. turn' \in TurnType
  <2>1. turn' = [NoTurn EXCEPT !.pc = IF indexes THEN "relations" ELSE "finish",
                   !.indexes = indexes, !.returns = returns, !.rows = Folded,
                   !.source = SourceProven \/ SourcePrefixMatches(Folded, Frontier)]
    BY DEF ProjectObjects
  <2>2. (SourceProven \/ SourcePrefixMatches(Folded, Frontier)) \in BOOLEAN
    OBVIOUS
  <2>3. QED
    BY <2>1, <2>2, <1>3 DEF NoTurn, TurnType
<1>8. objects'.through <= Len(journal)
  BY <1>5, TypeParts
<1>9. QED
  BY <1>5, <1>6, <1>7, <1>8 DEF TypeOK, ProjectObjects, clients

\* The steps of a projection keep the types (L0002ProjectionWorker).
LEMMA TurnStepType ==
  ASSUME TypeOK, TurnStep
  PROVE  TypeOK'
<1>1. turn \in TurnType /\ turn.proven \in BOOLEAN /\ turn.rows \in SUBSET Commands
      /\ turn.changed \in SUBSET Commands /\ turn.capture \in BOOLEAN
      /\ turn.version \in Nat /\ turn.source \in BOOLEAN
  BY TypeParts DEF TurnType
<1>2. CASE SkipIndexes
  <2>1. turn' = [turn EXCEPT !.pc = "finish", !.proven = turn.capture]
    BY <1>2 DEF SkipIndexes
  <2>2. turn' \in TurnType
    BY <1>1, <2>1 DEF TurnType
  <2>3. QED
    BY <1>2, <2>2 DEF TypeOK, SkipIndexes, durable, clients
<1>3. CASE CommitRelations
  <2>1. Derived(relations) \in SUBSET Commands
    BY <1>1, TypeParts DEF Derived, Indexed, ProjectionType
  <2>2. relations' = [through |-> Len(journal), rows |-> Derived(relations)]
    BY <1>3 DEF CommitRelations, Frontier
  <2>3. relations' \in ProjectionType /\ relations'.through <= Len(journal)
    BY <2>1, <2>2, TypeParts DEF ProjectionType
  <2>4. epoch' \in EpochType
    <3>1. epoch \in EpochType
      BY TypeParts
    <3>2. epoch' = [epoch EXCEPT !.relations = @ + 1] \/ epoch' = epoch
      <4>1. epoch' = [epoch EXCEPT !.relations = epoch.relations] \/
            epoch' = [epoch EXCEPT !.relations = epoch.relations + 1]
        BY <1>3 DEF CommitRelations
      <4>2. QED
        BY <4>1, <3>1 DEF EpochType
    <3>3. QED
      BY <3>1, <3>2 DEF EpochType
  <2>5. turn' \in TurnType
    <3>1. turn' = [turn EXCEPT !.pc = "search"]
      BY <1>3 DEF CommitRelations
    <3>2. QED
      BY <1>1, <3>1 DEF TurnType
  <2>6. QED
    BY <1>3, <2>3, <2>4, <2>5 DEF TypeOK, CommitRelations, clients
<1>4. CASE CommitSearch
  <2>1. Derived(search) \in SUBSET Commands
    BY <1>1, TypeParts DEF Derived, Indexed, SearchType
  <2>2. \/ search' = search
        \/ search' = [through |-> Len(journal), rows |-> Derived(search),
                      version |-> search.version + 1]
    BY <1>4 DEF CommitSearch, Frontier
  <2>3. search' \in SearchType /\ search'.through <= Len(journal)
    BY <2>1, <2>2, TypeParts DEF SearchType
  <2>4. turn' \in TurnType
    <3>1. turn' = [turn EXCEPT !.pc = "finish", !.proven = TRUE]
      BY <1>4 DEF CommitSearch
    <3>2. QED
      BY <1>1, <3>1 DEF TurnType
  <2>5. QED
    BY <1>4, <2>3, <2>4 DEF TypeOK, CommitSearch, clients
<1>5. CASE FinishProjection
  <2>1. Validation \in ValidationType
    <3>1. (IF turn.indexes THEN search.version ELSE turn.version) \in Nat
      BY <1>1, TypeParts
    <3>2. <<>> \in Seq(Commands)
      OBVIOUS
    <3>3. QED
      BY <1>1, <3>1, <3>2, StampOK DEF Validation, ValidationType
  <2>2. cache' \in CacheType
    BY <1>5, <2>1, TypeParts DEF FinishProjection, CacheType
  <2>3. answer' \in [frontier : Nat, rows : SUBSET Commands]
    BY <1>5, <1>1, TypeParts DEF FinishProjection, Frontier, TypeOK
  <2>4. turn' \in TurnType
    BY <1>5, EmptyType DEF FinishProjection
  <2>5. QED
    BY <1>5, <2>2, <2>3, <2>4 DEF TypeOK, FinishProjection, durable
<1>6. QED
  BY <1>2, <1>3, <1>4, <1>5 DEF TurnStep

\* Every step keeps the types.
LEMMA TypeStep ==
  ASSUME TypeOK, [Next]_vars PROVE TypeOK'
<1>1. ASSUME NEW c \in Commands, CommitUncertain(c) PROVE TypeOK'
  <2>1. journal' \in Seq(Commands) /\ Len(journal') = Len(journal) + 1
    BY <1>1, TypeParts DEF CommitUncertain
  <2>2. failures' \in 0 .. MaxFailures
    BY <1>1, WriterAssumption DEF CommitUncertain, TypeOK
  <2>3. Closed /\ objects' = objects /\ relations' = relations /\ search' = search
        /\ acked' = acked /\ answer' = answer
    BY <1>1 DEF CommitUncertain, clients
  <2>4. QED
    BY <2>1, <2>2, <2>3, ClosedType, TypeParts
<1>2. ASSUME NEW c \in Commands, CommitReplayed(c) PROVE TypeOK'
  BY <1>2 DEF CommitReplayed, TypeOK, durable, handle
<1>3. CASE Fail
  <2>1. failures' \in 0 .. MaxFailures
    BY <1>3, WriterAssumption DEF Fail, TypeOK
  <2>2. Closed /\ objects' = objects /\ relations' = relations /\ search' = search
        /\ acked' = acked /\ answer' = answer /\ journal' = journal
    BY <1>3 DEF Fail, clients, durable
  <2>3. QED
    BY <2>1, <2>2, ClosedType, TypeParts
<1>4. CASE Reopen
  <2>1. epoch' \in EpochType
    BY <1>4 DEF Reopen, OpenEpoch, EpochType
  <2>2. QED
    BY <1>4, <2>1 DEF Reopen, TypeOK, durable, clients
<1>5. CASE ReadCurrent
  <2>1. Len(admission) \in Nat /\ Shown(All(admission)) \in SUBSET Commands
    BY TypeParts, UpToSince DEF Shown, All
  <2>2. answer' = [frontier |-> Len(admission), rows |-> Shown(All(admission))]
    BY <1>5 DEF ReadCurrent
  <2>3. answer' \in [frontier : Nat, rows : SUBSET Commands]
    BY <2>1, <2>2
  <2>4. QED
    BY <1>5, <2>3 DEF ReadCurrent, TypeOK, durable, handle
<1>6. CASE UNCHANGED vars
  BY <1>6 DEF vars, durable, handle, clients, TypeOK
<1>7. ASSUME NEW indexes \in BOOLEAN, NEW returns \in BOOLEAN, Project(indexes, returns)
      PROVE TypeOK'
  BY <1>7, ProjectHitType, ProjectCaptureType, ProjectIndexesType, ProjectObjectsType DEF Project
<1>8. QED
  BY <1>1, <1>2, <1>3, <1>4, <1>5, <1>6, <1>7, CommitType, TurnStepType DEF Next

\* Types hold in every reachable state of the writer, for any commands.
THEOREM TypeCorrect == Spec => []TypeOK
BY InitType, TypeStep, PTL DEF Spec

-----------------------------------------------------------------------------
(* What the shortcuts compute.                                               *)

\* Reading captures from the admission state gives the object rows as they are
\* (snapshot_with_source_prefix).
LEMMA ReadExact ==
  ASSUME TypeOK, ProjectionsExact, admission = journal, NEW source \in BOOLEAN,
         source => SourceAgrees
  PROVE  RowsRead(source) = objects.rows
<1> DEFINE U == UpTo(journal, objects.through)
<1>1. U \in SUBSET Commands /\ All(journal) \in SUBSET Commands /\ U \subseteq All(journal)
  BY UpToSince, TypeParts
<1>2. Hidden(U) \subseteq Hidden(All(journal))
  BY <1>1, HiddenGrows
<1>3. objects.rows = U \ Hidden(U)
  BY DEF ProjectionsExact, Shown
<1>4. CASE source
  <2>1. All(journal) \cap Captures \cap Hidden(All(journal)) = {}
    BY <1>4 DEF SourceAgrees
  <2>2. RowsRead(source) = (objects.rows \ Captures) \cup (Captures \cap U)
    BY <1>4 DEF RowsRead, SourceFacts
  <2>3. QED
    BY <1>1, <1>2, <1>3, <2>1, <2>2
<1>5. CASE ~source
  BY <1>5 DEF RowsRead
<1>6. QED
  BY <1>4, <1>5

\* Rows handed over are the journal since the checkpoint of the objects.
LEMMA DeltaSince ==
  ASSUME TypeOK, ObjectsStampSound, Idle
  PROVE  Delta = Since(journal, objects.through) /\ Delta \in SUBSET Commands
<1>1. ASSUME NEW v \in Handed PROVE All(v.handoff) = Since(journal, objects.through)
  <2>1. v \in cache.objects /\ v.handoff # <<>>
    BY DEF Handed, Inputs
  <2>2. Len(journal) = objects.through + 1 /\ v.handoff = <<journal[Len(journal)]>>
    BY <2>1 DEF ObjectsStampSound, Frontier
  <2>3. QED
    BY <2>2, SinceLast, AllSingle, TypeParts
<1>2. Handed # {} => UNION {All(v.handoff) : v \in Handed} = Since(journal, objects.through)
  BY <1>1
<1>3. QED
  BY <1>2, UpToSince, TypeParts DEF Delta

\* A catch-up computes and stores the fold of the whole journal.
LEMMA FoldExact ==
  ASSUME TypeOK, ProjectionsExact, ObjectsStampSound, Idle, admission = journal
  PROVE  /\ Folded = Shown(All(journal))
         /\ Delta # {} => Stored = Shown(All(journal))
         /\ Delta = {} => objects.through = Len(journal)
<1> DEFINE U == UpTo(journal, objects.through)
<1>1. /\ U \in SUBSET Commands /\ Delta \in SUBSET Commands /\ All(journal) = U \cup Delta
      /\ Delta = {} => objects.through >= Len(journal)
  BY UpToSince, TypeParts, DeltaSince
<1>2. objects.rows = Shown(U)
  BY DEF ProjectionsExact
<1>3. SourceProven \in BOOLEAN /\ (SourceProven => SourceAgrees)
  BY DEF SourceProven, Inputs, ObjectsStampSound
<1>4. RowsRead(SourceProven) = Shown(U)
  BY <1>2, <1>3, ReadExact
<1>5. /\ Shown(Shown(U) \cup Delta) = Shown(All(journal))
      /\ Delta \cap Ledgers = {} => Shown(U) \subseteq Shown(All(journal))
  <2> HIDE DEF U
  <2>1. Shown(Shown(U) \cup Delta) = Shown(U \cup Delta)
    BY <1>1, FoldIncrement
  <2>2. Delta \cap Ledgers = {} => Shown(U) \subseteq Shown(U \cup Delta)
    BY <1>1, FoldIncrement
  <2>3. QED
    BY <1>1, <2>1, <2>2
<1>6. Folded = Shown(All(journal))
  BY <1>1, <1>4, <1>5 DEF Folded
<1>7. Delta # {} => Stored = Shown(All(journal))
  BY <1>2, <1>5, <1>6 DEF Stored
<1>8. QED
  BY <1>1, <1>6, <1>7, TypeParts

-----------------------------------------------------------------------------
(* Steps that do not touch a projection.                                     *)

\* The journal as it was, or with one more command.
Grows == journal' = journal \/ \E c \in Commands : journal' = Append(journal, c)

\* An append leaves every prefix alone.
LEMMA PrefixKept ==
  ASSUME TypeOK, Grows, NEW n \in Nat, n <= Len(journal)
  PROVE  UpTo(journal', n) = UpTo(journal, n) /\ All(journal) \subseteq All(journal')
<1>1. ASSUME NEW c \in Commands, journal' = Append(journal, c)
      PROVE UpTo(journal', n) = UpTo(journal, n) /\ All(journal) \subseteq All(journal')
  <2>1. UpTo(Append(journal, c), n) = UpTo(journal, n)
    BY TypeParts, UpToAppend
  <2>2. All(Append(journal, c)) = All(journal) \cup {c}
    BY TypeParts, AllAppend
  <2>3. QED
    BY <1>1, <2>1, <2>2
<1>2. QED
  BY <1>1 DEF Grows

\* Appends leave the projections exact.
LEMMA ExactKept ==
  ASSUME TypeOK, ProjectionsExact, Grows,
         objects' = objects, relations' = relations, search' = search
  PROVE  ProjectionsExact'
<1>1. /\ UpTo(journal', objects.through) = UpTo(journal, objects.through)
      /\ UpTo(journal', relations.through) = UpTo(journal, relations.through)
      /\ UpTo(journal', search.through) = UpTo(journal, search.through)
  BY PrefixKept, TypeParts
<1>2. QED
  BY <1>1 DEF ProjectionsExact

\* What clients were told stays true.
LEMMA ClientsKept ==
  ASSUME TypeOK, ClientsSound, Grows, Len(journal') \in Nat, Len(journal') >= Len(journal),
         acked' \subseteq acked \cup All(journal'), answer' = answer
  PROVE  ClientsSound'
<1>1. answer.frontier \in Nat /\ answer.frontier <= Len(journal)
  BY DEF TypeOK, ClientsSound, Frontier
<1>2. UpTo(journal', answer.frontier) = UpTo(journal, answer.frontier)
  BY <1>1, PrefixKept
<1>3. All(journal) \subseteq All(journal')
  BY <1>1, PrefixKept
<1>4. acked' \subseteq All(journal')
  BY <1>3 DEF ClientsSound
<1>5. answer'.frontier <= Len(journal')
  BY <1>1, TypeParts
<1>6. answer'.rows = Shown(UpTo(journal', answer'.frontier))
  BY <1>2 DEF ClientsSound
<1>7. QED
  BY <1>4, <1>5, <1>6 DEF ClientsSound, Frontier

\* A writer that stops keeps the invariant: what is durable is exact, and it
\* leaves no stamp behind (every error drops the handle).
LEMMA ClosedInv ==
  ASSUME WriterInv, TypeOK', Closed, Grows, Len(journal') >= Len(journal),
         objects' = objects, relations' = relations, search' = search,
         acked' = acked, answer' = answer
  PROVE  WriterInv'
<1>1. TypeOK /\ ProjectionsExact /\ ClientsSound
  BY DEF WriterInv
<1>2. ProjectionsExact'
  BY <1>1, ExactKept
<1>3. ClientsSound'
  <2>1. Len(journal') \in Nat
    BY DEF TypeOK
  <2>2. QED
    BY <1>1, <2>1, ClientsKept
<1>4. ~open' /\ cache' = NoCache /\ turn' = NoTurn
  BY DEF Closed
<1>5. HandleCurrent' /\ ObjectsStampSound'
  BY <1>4 DEF HandleCurrent, ObjectsStampSound, Idle
<1>6. FullStampSound'
  BY <1>4 DEF FullStampSound, NoCache
<1>7. TurnSound'
  BY <1>4 DEF TurnSound, NoTurn
<1>8. QED
  BY <1>2, <1>3, <1>5, <1>6, <1>7 DEF WriterInv

\* A step that only tells clients something true keeps the invariant.
LEMMA AnswerInv ==
  ASSUME WriterInv, TypeOK', ClientsSound',
         journal' = journal, objects' = objects, relations' = relations, search' = search,
         open' = open, admission' = admission, epoch' = epoch, cache' = cache, turn' = turn
  PROVE  WriterInv'
<1>1. Stamp' = Stamp /\ Frontier' = Frontier /\ Idle' = Idle
  BY DEF Stamp, Frontier, Idle
<1>2. HandleCurrent' /\ ProjectionsExact'
  BY DEF WriterInv, HandleCurrent, ProjectionsExact
<1>3. ObjectsStampSound' /\ FullStampSound'
  BY <1>1 DEF WriterInv, ObjectsStampSound, FullStampSound, Agree, SourceAgrees, AllAt
<1>4. TurnSound'
  BY <1>1 DEF WriterInv, TurnSound, AllAt, SourceAgrees, Whole
<1>5. QED
  BY <1>2, <1>3, <1>4 DEF WriterInv

\* A replayed command is acknowledged because it is in the journal.
LEMMA CommitReplayedInv ==
  ASSUME WriterInv, TypeOK', NEW c \in Commands, CommitReplayed(c)
  PROVE  WriterInv'
<1>1. TypeOK /\ ClientsSound
  BY DEF WriterInv
<1>2. /\ journal' = journal /\ objects' = objects /\ relations' = relations /\ search' = search
      /\ open' = open /\ admission' = admission /\ epoch' = epoch /\ cache' = cache
      /\ turn' = turn /\ answer' = answer /\ acked' \subseteq acked \cup All(journal)
  BY DEF CommitReplayed, durable, handle
<1>3. ClientsSound'
  BY <1>1, <1>2, ClientsKept, TypeParts DEF Grows
<1>4. QED
  BY <1>2, <1>3, AnswerInv

\* A reopened writer has admitted the whole journal (open_on_connection).
LEMMA ReopenInv ==
  ASSUME WriterInv, TypeOK', Reopen
  PROVE  WriterInv'
<1>1. TypeOK /\ ClientsSound /\ cache = NoCache /\ turn = NoTurn
  BY DEF WriterInv, HandleCurrent, Reopen
<1>2. /\ journal' = journal /\ objects' = objects /\ relations' = relations /\ search' = search
      /\ admission' = journal /\ cache' = NoCache /\ turn' = NoTurn
      /\ answer' = answer /\ acked' = acked
  BY <1>1 DEF Reopen, durable, clients
<1>3. open'
  BY DEF Reopen
<1>4. HandleCurrent' /\ ProjectionsExact' /\ ClientsSound'
  BY <1>2, <1>3 DEF WriterInv, HandleCurrent, ProjectionsExact, ClientsSound, Frontier
<1>5. ObjectsStampSound' /\ FullStampSound' /\ TurnSound'
  BY <1>2 DEF ObjectsStampSound, FullStampSound, TurnSound, NoCache, NoTurn
<1>6. QED
  BY <1>4, <1>5 DEF WriterInv

\* A read tells its client the fold of the whole journal (validated_current_read).
LEMMA ReadCurrentInv ==
  ASSUME WriterInv, TypeOK', ReadCurrent
  PROVE  WriterInv'
<1>1. TypeOK /\ ClientsSound /\ admission = journal
  BY DEF WriterInv, HandleCurrent, ReadCurrent, Idle
<1>2. /\ journal' = journal /\ objects' = objects /\ relations' = relations /\ search' = search
      /\ open' = open /\ admission' = admission /\ epoch' = epoch /\ cache' = cache
      /\ turn' = turn /\ acked' = acked
      /\ answer' = [frontier |-> Len(journal), rows |-> Shown(All(journal))]
  BY <1>1 DEF ReadCurrent, durable, handle
<1>3. ClientsSound'
  BY <1>1, <1>2, TypeParts DEF ClientsSound, Frontier, All
<1>4. QED
  BY <1>2, <1>3, AnswerInv

\* An append turns the stamp of the objects into a proof of the appended rows'
\* base and drops the full stamp (commit_inner).
LEMMA CommitInv ==
  ASSUME WriterInv, TypeOK', NEW c \in Commands, Commit(c)
  PROVE  WriterInv'
<1>1. /\ TypeOK /\ ProjectionsExact /\ ObjectsStampSound /\ ClientsSound
      /\ open = TRUE /\ turn.pc = "idle" /\ admission = journal
  BY DEF WriterInv, HandleCurrent, Commit, Idle, TypeOK
<1>2. /\ journal' = Append(journal, c) /\ objects' = objects /\ relations' = relations
      /\ search' = search /\ open' = open /\ admission' = Append(admission, c)
      /\ turn' = turn /\ answer' = answer /\ acked' = acked \cup {c}
      /\ epoch' = [epoch EXCEPT !.journal = @ + 1]
      /\ cache' = [objects |-> {Successor(v, c) : v \in cache.objects}, all |-> {}]
  BY DEF Commit
<1>3. /\ Len(journal') = Len(journal) + 1 /\ Len(journal) \in Nat
      /\ journal'[Len(journal')] = c /\ All(journal') = All(journal) \cup {c}
  BY <1>1, <1>2, TypeParts, AllAppend
<1>4. Grows
  BY <1>2 DEF Grows
<1>5. ProjectionsExact'
  BY <1>1, <1>2, <1>4, ExactKept
<1>6. ClientsSound'
  BY <1>1, <1>2, <1>3, <1>4, ClientsKept
<1>7. HandleCurrent'
  BY <1>1, <1>2 DEF HandleCurrent
<1>8. FullStampSound'
  BY <1>2 DEF FullStampSound
<1>9. TurnSound'
  BY <1>1, <1>2 DEF TurnSound
<1>10. c \notin Ledgers /\ SourceAgrees => SourceAgrees'
  <2>1. All(journal) \in SUBSET Commands /\ All(journal') \in SUBSET Commands
    BY <1>1, <1>3, TypeParts, UpToSince DEF All
  <2>2. c \notin Hidden(All(journal))
    BY <1>1 DEF Commit, Admissible
  <2>3. c \notin Ledgers => Hidden(All(journal')) \subseteq Hidden(All(journal))
    BY <1>3, <2>1, HiddenGrows
  <2>4. QED
    BY <1>3, <2>2, <2>3 DEF SourceAgrees
<1>11. ASSUME NEW val \in cache'.objects
       PROVE  /\ Agree(val, {"objectsEpoch", "objectCheckpoint"})'
              /\ val.stamp.frontier = val.stamp.objectCheckpoint
              /\ val.source => SourceAgrees'
              /\ val.proven => AllAt(objects.through)'
              /\ val.appended = Frontier' /\ val.appended # 0
              /\ val.handoff # <<>> => /\ Frontier' = objects'.through + 1
                                     /\ val.handoff = <<journal'[Frontier']>>
  <2>0. PICK v \in cache.objects : val = Successor(v, c)
    BY <1>2
  <2>1. v \in ValidationType
    BY <1>1, TypeParts
  <2>2. /\ val.stamp = v.stamp /\ val.proven = v.proven /\ val.source = (v.source /\ c \notin Ledgers)
        /\ val.appended = Len(journal) + 1
        /\ val.handoff = IF v.appended = 0 /\ c \notin Large THEN <<c>> ELSE <<>>
    BY <2>0, <2>1 DEF Successor, ValidationType, Frontier
  <2>3. /\ Agree(v, {"objectsEpoch", "objectCheckpoint"})
        /\ v.stamp.frontier = v.stamp.objectCheckpoint
        /\ v.source => SourceAgrees
        /\ v.proven => AllAt(objects.through)
        /\ v.appended = 0 => Agree(v, {"frontier"})
    BY <1>1 DEF ObjectsStampSound, Idle, Agree
  <2>4. v.stamp.objectsEpoch = epoch.objects /\ v.stamp.objectCheckpoint = objects.through
    BY <2>3 DEF Agree, Stamp
  <2>5. epoch'.objects = epoch.objects
    BY <1>1, <1>2, TypeParts DEF EpochType
  <2>6. Agree(val, {"objectsEpoch", "objectCheckpoint"})'
    BY <1>2, <2>2, <2>4, <2>5 DEF Agree, Stamp
  <2>7. val.source => SourceAgrees'
    BY <2>2, <2>3, <1>10
  <2>8. val.proven => AllAt(objects.through)'
    BY <2>2, <2>3, <1>2 DEF AllAt
  <2>9. val.appended = Frontier' /\ val.appended # 0
    BY <1>3, <2>2 DEF Frontier
  <2>10. val.handoff # <<>> => v.appended = 0 /\ val.handoff = <<c>>
    BY <2>2
  <2>11. v.appended = 0 => Len(journal) = objects.through
    BY <2>3, <2>4 DEF Agree, Stamp, Frontier
  <2>12. QED
    BY <1>2, <1>3, <2>2, <2>3, <2>6, <2>7, <2>8, <2>9, <2>10, <2>11 DEF Frontier
<1>12. ObjectsStampSound'
  BY <1>2, <1>11 DEF ObjectsStampSound
<1>13. QED
  BY <1>5, <1>6, <1>7, <1>8, <1>9, <1>12 DEF WriterInv

-----------------------------------------------------------------------------
(* A projection begins.                                                      *)

\* A projection that begins with exact objects and a sound turn keeps the
\* invariant: the stamps stay as they are until it ends.
LEMMA TurnBegins ==
  ASSUME WriterInv, TypeOK', Idle, turn'.pc # "idle", ProjectionsExact', TurnSound',
         journal' = journal, relations' = relations, search' = search, open' = open,
         admission' = admission, cache' = cache, acked' = acked, answer' = answer
  PROVE  WriterInv'
<1>1. HandleCurrent'
  BY DEF WriterInv, HandleCurrent, Idle
<1>2. ObjectsStampSound'
  BY DEF ObjectsStampSound, Idle
<1>3. FullStampSound'
  BY DEF WriterInv, FullStampSound, SourceAgrees
<1>4. ClientsSound'
  BY DEF WriterInv, ClientsSound, Frontier
<1>5. QED
  BY <1>1, <1>2, <1>3, <1>4 DEF WriterInv

\* What holds between requests.
LEMMA IdleFacts ==
  ASSUME WriterInv, Idle
  PROVE  /\ TypeOK /\ ProjectionsExact /\ ObjectsStampSound /\ FullStampSound
         /\ admission = journal /\ Frontier \in Nat
         /\ objects.through = Frontier => objects.rows = Whole
BY TypeParts DEF WriterInv, HandleCurrent, Idle, Frontier, ProjectionsExact, Whole, All

\* A stamp of the objects that is bound vouches for them (objects_bound).
LEMMA ObjectsHit ==
  ASSUME WriterInv, Idle, NEW v \in Hits(FALSE)
  PROVE  /\ v \in ValidationType /\ objects.through = Frontier
         /\ v.source => SourceAgrees
         /\ v.proven => AllAt(Frontier)
<1>1. v \in cache.objects /\ ObjectsBound(v)
  BY DEF Hits
<1>2. v \in ValidationType
  BY <1>1, IdleFacts, TypeParts
<1>3. /\ v.stamp.frontier = v.stamp.objectCheckpoint /\ (v.source => SourceAgrees)
      /\ v.proven => AllAt(objects.through)
  BY <1>1, IdleFacts DEF ObjectsStampSound
<1>4. v.stamp.frontier = Frontier /\ v.stamp.objectCheckpoint = objects.through
  BY <1>1 DEF ObjectsBound, Agree, Stamp
<1>5. QED
  BY <1>2, <1>3, <1>4

\* A full stamp that matches vouches for all families.
LEMMA FullHit ==
  ASSUME WriterInv, Idle, NEW v \in Hits(TRUE)
  PROVE  v \in ValidationType /\ AllAt(Frontier) /\ (v.source => SourceAgrees)
<1>1. v \in cache.all /\ v.stamp = Stamp /\ v.version = search.version
  BY DEF Hits
<1>2. v \in ValidationType
  BY <1>1, IdleFacts, TypeParts
<1>3. /\ v.stamp.objectCheckpoint = v.stamp.frontier /\ v.stamp.relationCheckpoint = v.stamp.frontier
      /\ search.through = v.stamp.frontier
      /\ v.source => SourceAgrees
  BY <1>1, IdleFacts DEF FullStampSound
<1>4. /\ v.stamp.frontier = Frontier /\ v.stamp.objectCheckpoint = objects.through
      /\ v.stamp.relationCheckpoint = relations.through
  BY <1>1 DEF Stamp
<1>5. QED
  BY <1>2, <1>3, <1>4 DEF AllAt

\* Nothing is computed for a valid stamp, and nothing has to be.
LEMMA ProjectHitInv ==
  ASSUME WriterInv, TypeOK', NEW indexes \in BOOLEAN, NEW returns \in BOOLEAN,
         ProjectHit(indexes, returns)
  PROVE  WriterInv'
<1>1. Idle
  BY DEF ProjectHit
<1>2. PICK v \in Hits(indexes) :
        turn' = [NoTurn EXCEPT !.pc = "finish", !.indexes = indexes, !.returns = returns,
                   !.rows = IF returns THEN RowsRead(v.source) ELSE {},
                   !.source = v.source, !.version = v.version,
                   !.proven = v.proven /\ (indexes \/ v.stamp = Stamp)]
  BY DEF ProjectHit
<1>3. /\ turn'.pc = "finish" /\ turn'.indexes = indexes /\ turn'.returns = returns
      /\ turn'.capture = FALSE /\ turn'.source = v.source
      /\ turn'.rows = IF returns THEN RowsRead(v.source) ELSE {}
      /\ turn'.proven = (v.proven /\ (indexes \/ v.stamp = Stamp))
  BY <1>2 DEF NoTurn
<1>4. /\ v \in ValidationType /\ objects.through = Frontier /\ (v.source => SourceAgrees)
      /\ indexes => AllAt(Frontier)
      /\ ~indexes /\ v.proven => AllAt(Frontier)
  BY <1>1, ObjectsHit, FullHit DEF AllAt
<1>5. /\ journal' = journal /\ objects' = objects /\ relations' = relations /\ search' = search
      /\ open' = open /\ admission' = admission /\ cache' = cache
      /\ acked' = acked /\ answer' = answer
  BY DEF ProjectHit, durable, clients
<1>6. ProjectionsExact'
  BY <1>1, <1>5, IdleFacts DEF ProjectionsExact
<1>7. v.source \in BOOLEAN /\ RowsRead(v.source) = Whole
  <2>1. v.source \in BOOLEAN
    BY <1>4 DEF ValidationType
  <2>2. QED
    BY <1>1, <1>4, <2>1, IdleFacts, ReadExact
<1>8. TurnSound'
  <2>1. Frontier' = Frontier /\ Whole' = Whole /\ SourceAgrees' = SourceAgrees
    BY <1>5 DEF Frontier, Whole, SourceAgrees
  <2>2. AllAt(Frontier)' = AllAt(Frontier)
    BY <1>5, <2>1 DEF AllAt
  <2>3. (indexes \/ turn'.proven) => AllAt(Frontier)
    BY <1>3, <1>4
  <2>4. returns => turn'.rows = Whole
    BY <1>3, <1>7
  <2>5. QED
    BY <1>3, <1>4, <1>5, <2>1, <2>2, <2>3, <2>4 DEF TurnSound
<1>9. QED
  BY <1>1, <1>3, <1>5, <1>6, <1>8, TurnBegins

\* Valid objects are read back as the fold of the whole journal.
LEMMA ProjectIndexesInv ==
  ASSUME WriterInv, TypeOK', NEW returns \in BOOLEAN, ProjectIndexes(returns)
  PROVE  WriterInv'
<1>1. Idle
  BY DEF ProjectIndexes
<1>2. PICK v \in Hits(FALSE) :
        turn' = [NoTurn EXCEPT !.pc = "relations", !.indexes = TRUE, !.returns = returns,
                   !.rows = RowsRead(v.source), !.source = v.source]
  BY DEF ProjectIndexes
<1>3. /\ turn'.pc = "relations" /\ turn'.indexes = TRUE /\ turn'.returns = returns
      /\ turn'.capture = FALSE /\ turn'.source = v.source /\ turn'.rows = RowsRead(v.source)
  BY <1>2 DEF NoTurn
<1>4. v \in ValidationType /\ objects.through = Frontier /\ (v.source => SourceAgrees)
  BY <1>1, ObjectsHit
<1>5. /\ journal' = journal /\ objects' = objects /\ relations' = relations /\ search' = search
      /\ open' = open /\ admission' = admission /\ cache' = cache
      /\ acked' = acked /\ answer' = answer
  BY DEF ProjectIndexes, durable, clients
<1>6. ProjectionsExact'
  BY <1>1, <1>5, IdleFacts DEF ProjectionsExact
<1>7. RowsRead(v.source) = Whole
  <2>1. v.source \in BOOLEAN
    BY <1>4 DEF ValidationType
  <2>2. QED
    BY <1>1, <1>4, <2>1, IdleFacts, ReadExact
<1>8. TurnSound'
  <2>1. Frontier' = Frontier /\ Whole' = Whole /\ SourceAgrees' = SourceAgrees
    BY <1>5 DEF Frontier, Whole, SourceAgrees
  <2>2. QED
    BY <1>3, <1>4, <1>5, <1>7, <2>1 DEF TurnSound
<1>9. QED
  BY <1>1, <1>3, <1>5, <1>6, <1>8, TurnBegins

\* A catch-up of the objects leaves them exact and at the frontier.
LEMMA ProjectObjectsInv ==
  ASSUME WriterInv, TypeOK', NEW indexes \in BOOLEAN, NEW returns \in BOOLEAN,
         ProjectObjects(indexes, returns)
  PROVE  WriterInv'
<1>1. Idle
  BY DEF ProjectObjects
<1>2. /\ Folded = Whole /\ (Delta # {} => Stored = Whole)
      /\ Delta = {} => objects.through = Frontier
  BY <1>1, IdleFacts, FoldExact DEF Whole, Frontier
<1>3. objects'.through = Frontier /\ objects'.rows = Whole
  <2>1. CASE Delta = {}
    <3>1. objects' = objects
      BY <2>1 DEF ProjectObjects
    <3>2. QED
      BY <1>1, <1>2, <2>1, <3>1, IdleFacts
  <2>2. CASE Delta # {}
    <3>1. objects' = [through |-> Frontier, rows |-> Stored]
      BY <2>2 DEF ProjectObjects
    <3>2. QED
      BY <1>2, <2>2, <3>1
  <2>3. QED
    BY <2>1, <2>2
<1>4. /\ journal' = journal /\ relations' = relations /\ search' = search
      /\ open' = open /\ admission' = admission /\ cache' = cache
      /\ acked' = acked /\ answer' = answer
  BY DEF ProjectObjects, clients
<1>5. /\ turn'.pc = (IF indexes THEN "relations" ELSE "finish") /\ turn'.indexes = indexes
      /\ turn'.returns = returns /\ turn'.rows = Folded /\ turn'.capture = FALSE
      /\ turn'.proven = FALSE
      /\ turn'.source = (SourceProven \/ SourcePrefixMatches(Folded, Frontier))
  <2>1. turn' = [NoTurn EXCEPT !.pc = IF indexes THEN "relations" ELSE "finish",
                   !.indexes = indexes, !.returns = returns, !.rows = Folded,
                   !.source = SourceProven \/ SourcePrefixMatches(Folded, Frontier)]
    BY DEF ProjectObjects
  <2>2. QED
    BY <2>1 DEF NoTurn
<1>6. ProjectionsExact'
  <2>1. objects'.rows = Shown(UpTo(journal', objects'.through))
    BY <1>3, <1>4 DEF Whole, All, Frontier
  <2>2. QED
    BY <1>1, <1>4, <2>1, IdleFacts DEF ProjectionsExact
<1>7. turn'.source => SourceAgrees
  <2>1. SourceProven => SourceAgrees
    BY <1>1, IdleFacts DEF SourceProven, Inputs, ObjectsStampSound
  <2>2. SourcePrefixMatches(Whole, Frontier) => SourceAgrees
    BY <1>1, IdleFacts
       DEF SourcePrefixMatches, SourceFacts, SourceAgrees, Whole, Shown, Frontier, All
  <2>3. QED
    BY <1>2, <1>5, <2>1, <2>2
<1>8. TurnSound'
  <2>1. Frontier' = Frontier /\ Whole' = Whole /\ SourceAgrees' = SourceAgrees
    BY <1>4 DEF Frontier, Whole, SourceAgrees
  <2>2. QED
    BY <1>2, <1>3, <1>5, <1>7, <2>1 DEF TurnSound
<1>9. QED
  BY <1>1, <1>4, <1>5, <1>6, <1>8, TurnBegins

\* A lone capture over proven families is added as it is: no ledger hides it or
\* anything else (catch_up_capture_delta).
LEMMA ProjectCaptureInv ==
  ASSUME WriterInv, TypeOK', NEW indexes \in BOOLEAN, NEW returns \in BOOLEAN,
         ProjectCapture(indexes, returns)
  PROVE  WriterInv'
<1>1. Idle
  BY DEF ProjectCapture
<1>2. PICK v \in CaptureInputs(indexes, returns) :
        /\ objects' = [through |-> Frontier, rows |-> objects.rows \cup All(v.handoff)]
        /\ turn' = [NoTurn EXCEPT !.pc = "relations", !.indexes = TRUE, !.capture = TRUE,
                      !.changed = All(v.handoff), !.source = v.source]
  BY DEF ProjectCapture
<1>3. /\ v \in cache.objects /\ v.proven /\ v.handoff # <<>>
      /\ All(v.handoff) \subseteq Captures /\ objects.rows \cap Ledgers = {}
  BY DEF CaptureInputs, Inputs, CaptureBound
<1>4. /\ AllAt(objects.through) /\ (v.source => SourceAgrees)
      /\ Len(journal) = objects.through + 1 /\ v.handoff = <<journal[Len(journal)]>>
  BY <1>1, <1>3, IdleFacts DEF ObjectsStampSound, Frontier
<1> DEFINE U == UpTo(journal, objects.through)
<1> DEFINE D == All(v.handoff)
<1>5. /\ D = Since(journal, objects.through) /\ D \in SUBSET Commands /\ U \in SUBSET Commands
      /\ All(journal) = U \cup D
  <2>1. journal \in Seq(Commands) /\ objects.through \in Nat
    BY <1>1, IdleFacts, TypeParts
  <2>2. /\ Since(journal, objects.through) = {journal[Len(journal)]}
        /\ journal[Len(journal)] \in Commands
    BY <1>4, <2>1, SinceLast
  <2>3. D = {journal[Len(journal)]}
    BY <1>4, <2>2, AllSingle
  <2>4. QED
    BY <2>1, <2>2, <2>3, UpToSince
<1>6. objects.rows = Shown(U) /\ relations.rows = Indexed(Shown(U)) /\ search.rows = Indexed(Shown(U))
  BY <1>1, <1>4, IdleFacts DEF ProjectionsExact, AllAt
<1>7. D \cap Ledgers = {}
  BY <1>3, CommandAssumption
<1>8. Whole = Shown(U) \cup D
  <2> HIDE DEF U, D
  <2>1. Shown(U) \cap Ledgers = {}
    BY <1>3, <1>6
  <2>2. QED
    BY <1>5, <1>7, <2>1, FoldCapture DEF Whole
<1>9. objects'.through = Frontier /\ objects'.rows = Whole
  <2>1. objects'.through = Frontier /\ objects'.rows = objects.rows \cup D
    BY <1>2
  <2>2. QED
    BY <1>6, <1>8, <2>1
<1>10. /\ turn'.pc = "relations" /\ turn'.indexes = TRUE /\ turn'.returns = FALSE
       /\ turn'.capture = TRUE /\ turn'.changed = D /\ turn'.source = v.source
  BY <1>2 DEF NoTurn
<1>11. /\ journal' = journal /\ relations' = relations /\ search' = search
       /\ open' = open /\ admission' = admission /\ cache' = cache
       /\ acked' = acked /\ answer' = answer
  BY DEF ProjectCapture, clients
<1>12. ProjectionsExact'
  <2>1. objects'.rows = Shown(UpTo(journal', objects'.through))
    BY <1>9, <1>11 DEF Whole, All, Frontier
  <2>2. QED
    BY <1>1, <1>11, <2>1, IdleFacts DEF ProjectionsExact
<1>13. TurnSound'
  <2>1. Frontier' = Frontier /\ Whole' = Whole /\ SourceAgrees' = SourceAgrees
    BY <1>11 DEF Frontier, Whole, SourceAgrees
  <2>2. Indexed(Whole) = Indexed(Shown(U)) \cup D
    BY <1>7, <1>8 DEF Indexed
  <2>3. relations.rows \cup D = Indexed(Whole) /\ search.rows \cup D = Indexed(Whole)
    BY <1>6, <2>2
  <2>4. QED
    BY <1>4, <1>9, <1>10, <1>11, <2>1, <2>3 DEF TurnSound, Indexed
<1>14. QED
  BY <1>1, <1>10, <1>11, <1>12, <1>13, TurnBegins

-----------------------------------------------------------------------------
(* A projection goes on and ends.                                            *)

\* What holds inside a projection.
LEMMA TurnFacts ==
  ASSUME WriterInv, turn.pc # "idle"
  PROVE  /\ TypeOK /\ ProjectionsExact /\ FullStampSound /\ TurnSound /\ ClientsSound
         /\ open = TRUE /\ admission = journal /\ Frontier \in Nat /\ turn \in TurnType
<1>1. open
  BY DEF WriterInv, HandleCurrent, NoTurn
<1>2. QED
  BY <1>1, TypeParts DEF WriterInv, HandleCurrent, Frontier, TypeOK

\* The index of a family is derived from what is shown, in full or by the
\* increment of a capture.
LEMMA DerivedExact ==
  ASSUME WriterInv
  PROVE  /\ turn.pc = "relations" => Derived(relations) = Indexed(Whole)
         /\ turn.pc \in {"relations", "search"} => Derived(search) = Indexed(Whole)
BY DEF WriterInv, TurnSound, Derived, TypeOK, TurnType

\* Both indexes at the frontier: nothing is to be done.
LEMMA SkipIndexesInv ==
  ASSUME WriterInv, TypeOK', SkipIndexes
  PROVE  WriterInv'
<1>1. turn.pc = "relations" /\ relations.through = Frontier /\ search.through = Frontier
  BY DEF SkipIndexes, IndexesCurrent
<1>2. /\ turn'.pc = "finish" /\ turn'.indexes = turn.indexes /\ turn'.returns = turn.returns
      /\ turn'.capture = turn.capture /\ turn'.rows = turn.rows /\ turn'.source = turn.source
  <2>1. turn' = [turn EXCEPT !.pc = "finish", !.proven = turn.capture]
    BY DEF SkipIndexes
  <2>2. QED
    BY <1>1, <2>1, TurnFacts DEF TurnType
<1>3. /\ journal' = journal /\ objects' = objects /\ relations' = relations /\ search' = search
      /\ open' = open /\ admission' = admission /\ cache' = cache
      /\ acked' = acked /\ answer' = answer
  BY DEF SkipIndexes, durable, clients
<1>4. HandleCurrent' /\ ProjectionsExact' /\ ClientsSound'
  BY <1>1, <1>3, TurnFacts DEF HandleCurrent, ProjectionsExact, ClientsSound, Frontier
<1>5. FullStampSound'
  BY <1>1, <1>3, TurnFacts DEF FullStampSound, SourceAgrees
<1>6. ObjectsStampSound'
  BY <1>2 DEF ObjectsStampSound, Idle
<1>7. TurnSound'
  <2>1. Frontier' = Frontier /\ Whole' = Whole /\ SourceAgrees' = SourceAgrees
    BY <1>3 DEF Frontier, Whole, SourceAgrees
  <2>2. AllAt(Frontier)'
    BY <1>1, <1>3, <2>1, TurnFacts DEF AllAt, TurnSound
  <2>3. QED
    BY <1>1, <1>2, <1>3, <2>1, <2>2, TurnFacts DEF TurnSound
<1>8. QED
  BY <1>4, <1>5, <1>6, <1>7 DEF WriterInv

\* The relations are exact at the frontier before the search index is touched
\* (commit_relation_rows).
LEMMA CommitRelationsInv ==
  ASSUME WriterInv, TypeOK', CommitRelations
  PROVE  WriterInv'
<1>1. turn.pc = "relations"
  BY DEF CommitRelations
<1>2. /\ turn'.pc = "search" /\ turn'.indexes = turn.indexes /\ turn'.returns = turn.returns
      /\ turn'.capture = turn.capture /\ turn'.rows = turn.rows /\ turn'.source = turn.source
      /\ turn'.changed = turn.changed
  <2>1. turn' = [turn EXCEPT !.pc = "search"]
    BY DEF CommitRelations
  <2>2. QED
    BY <1>1, <2>1, TurnFacts DEF TurnType
<1>3. relations'.through = Frontier /\ relations'.rows = Indexed(Whole)
  <2>1. relations' = [through |-> Frontier, rows |-> Derived(relations)]
    BY DEF CommitRelations
  <2>2. QED
    BY <1>1, <2>1, DerivedExact
<1>4. /\ journal' = journal /\ objects' = objects /\ search' = search
      /\ open' = open /\ admission' = admission /\ cache' = cache
      /\ acked' = acked /\ answer' = answer
  BY DEF CommitRelations, clients
<1>5. HandleCurrent' /\ ClientsSound'
  BY <1>1, <1>4, TurnFacts DEF HandleCurrent, ClientsSound, Frontier
<1>6. ProjectionsExact'
  <2>1. relations'.rows = Indexed(Shown(UpTo(journal', relations'.through)))
    BY <1>3, <1>4 DEF Whole, All, Frontier
  <2>2. QED
    BY <1>1, <1>4, <2>1, TurnFacts DEF ProjectionsExact, Indexed
<1>7. FullStampSound'
  BY <1>1, <1>4, TurnFacts DEF FullStampSound, SourceAgrees
<1>8. ObjectsStampSound'
  BY <1>2 DEF ObjectsStampSound, Idle
<1>9. TurnSound'
  <2>1. Frontier' = Frontier /\ Whole' = Whole /\ SourceAgrees' = SourceAgrees
    BY <1>4 DEF Frontier, Whole, SourceAgrees
  <2>2. QED
    BY <1>1, <1>2, <1>3, <1>4, <2>1, TurnFacts DEF TurnSound, Indexed
<1>10. QED
  BY <1>5, <1>6, <1>7, <1>8, <1>9 DEF WriterInv

\* The search index is exact at the frontier, and a changed table has a new
\* version, so that no full stamp taken before it matches (commit_search_rows).
LEMMA CommitSearchInv ==
  ASSUME WriterInv, TypeOK', CommitSearch
  PROVE  WriterInv'
<1>1. turn.pc = "search"
  BY DEF CommitSearch
<1>2. /\ turn'.pc = "finish" /\ turn'.indexes = turn.indexes /\ turn'.returns = turn.returns
      /\ turn'.capture = turn.capture /\ turn'.rows = turn.rows /\ turn'.source = turn.source
  <2>1. turn' = [turn EXCEPT !.pc = "finish", !.proven = TRUE]
    BY DEF CommitSearch
  <2>2. QED
    BY <1>1, <2>1, TurnFacts DEF TurnType
<1>3. /\ search'.through = Frontier /\ search'.rows = Indexed(Whole)
      /\ search' = search \/ search'.version = search.version + 1
  <2>1. Derived(search) = Indexed(Whole)
    BY <1>1, DerivedExact
  <2>2. \/ search' = search /\ search.through = Frontier /\ search.rows = Derived(search)
        \/ search' = [through |-> Frontier, rows |-> Derived(search),
                      version |-> search.version + 1]
    BY DEF CommitSearch
  <2>3. QED
    BY <2>1, <2>2
<1>4. /\ journal' = journal /\ objects' = objects /\ relations' = relations
      /\ open' = open /\ admission' = admission /\ cache' = cache
      /\ acked' = acked /\ answer' = answer
  BY DEF CommitSearch, clients
<1>5. HandleCurrent' /\ ClientsSound'
  BY <1>1, <1>4, TurnFacts DEF HandleCurrent, ClientsSound, Frontier
<1>6. ProjectionsExact'
  <2>1. search'.rows = Indexed(Shown(UpTo(journal', search'.through)))
    BY <1>3, <1>4 DEF Whole, All, Frontier
  <2>2. QED
    BY <1>1, <1>4, <2>1, TurnFacts DEF ProjectionsExact, Indexed
<1>7. FullStampSound'
  <2>1. \A v \in cache.all : v.version \in Nat /\ search.version \in Nat
    BY <1>1, TurnFacts, TypeParts DEF ValidationType
  <2>2. \A v \in cache.all :
          /\ v.version <= search'.version
          /\ v.version = search'.version => search'.through = v.stamp.frontier
    BY <1>1, <1>3, <2>1, TurnFacts DEF FullStampSound
  <2>3. QED
    BY <1>1, <1>4, <2>2, TurnFacts DEF FullStampSound, SourceAgrees
<1>8. ObjectsStampSound'
  BY <1>2 DEF ObjectsStampSound, Idle
<1>9. TurnSound'
  <2>1. Frontier' = Frontier /\ Whole' = Whole /\ SourceAgrees' = SourceAgrees
    BY <1>4 DEF Frontier, Whole, SourceAgrees
  <2>2. AllAt(Frontier)'
    BY <1>1, <1>3, <1>4, <2>1, TurnFacts DEF AllAt, TurnSound
  <2>3. QED
    BY <1>1, <1>2, <1>4, <2>1, <2>2, TurnFacts DEF TurnSound
<1>10. QED
  BY <1>5, <1>6, <1>7, <1>8, <1>9 DEF WriterInv

\* The stamps a projection publishes describe the live state, the full one only
\* when all families were brought to the frontier (project_validated, its end).
LEMMA FinishProjectionInv ==
  ASSUME WriterInv, TypeOK', FinishProjection
  PROVE  WriterInv'
<1>1. turn.pc = "finish"
  BY DEF FinishProjection
<1>2. /\ journal' = journal /\ objects' = objects /\ relations' = relations /\ search' = search
      /\ open' = open /\ admission' = admission /\ epoch' = epoch /\ acked' = acked
      /\ turn' = NoTurn
      /\ answer' = IF turn.returns THEN [frontier |-> Frontier, rows |-> turn.rows] ELSE answer
      /\ cache'.objects = {Validation}
      /\ cache'.all = IF turn.indexes THEN {Validation} ELSE {v \in cache.all : ObjectsBound(v)}
  BY DEF FinishProjection, durable
<1>3. Stamp' = Stamp /\ Frontier' = Frontier /\ Whole' = Whole /\ SourceAgrees' = SourceAgrees
  BY <1>2 DEF Stamp, Frontier, Whole, SourceAgrees
<1>4. /\ objects.through = Frontier /\ (turn.source => SourceAgrees)
      /\ turn.returns => turn.rows = Whole
      /\ turn.indexes \/ turn.proven => AllAt(Frontier)
  BY <1>1, TurnFacts DEF TurnSound
<1>5. HandleCurrent' /\ ProjectionsExact'
  BY <1>1, <1>2, TurnFacts DEF HandleCurrent, ProjectionsExact
<1>6. ClientsSound'
  <2>1. Frontier <= Frontier /\ Whole = Shown(UpTo(journal, Frontier))
    BY <1>1, TurnFacts DEF Whole, All, Frontier
  <2>2. answer'.frontier <= Frontier /\ answer'.rows = Shown(UpTo(journal, answer'.frontier))
    BY <1>1, <1>2, <1>4, <2>1, TurnFacts DEF ClientsSound
  <2>3. QED
    BY <1>1, <1>2, <1>3, <2>2, TurnFacts DEF ClientsSound
<1>7. TurnSound'
  BY <1>2 DEF TurnSound, NoTurn
<1>8. /\ Validation.stamp = Stamp /\ Validation.proven = turn.proven
      /\ Validation.source = turn.source /\ Validation.appended = 0 /\ Validation.handoff = <<>>
      /\ turn.indexes => Validation.version = search.version
  BY DEF Validation
<1>9. /\ Stamp.frontier = Frontier /\ Stamp.objectCheckpoint = objects.through
      /\ Stamp.relationCheckpoint = relations.through
  BY DEF Stamp
<1>10. ObjectsStampSound'
  <2>1. ASSUME NEW val \in cache'.objects
        PROVE  /\ val.stamp = Stamp' /\ val.stamp.frontier = val.stamp.objectCheckpoint
               /\ val.source => SourceAgrees'
               /\ val.proven => AllAt(objects.through)'
               /\ val.appended = 0 /\ val.handoff = <<>>
    <3>1. val = Validation
      BY <1>2
    <3>2. AllAt(Frontier) => AllAt(objects.through)'
      BY <1>2, <1>4 DEF AllAt
    <3>3. QED
      BY <1>3, <1>4, <1>8, <1>9, <3>1, <3>2
  <2>2. QED
    BY <2>1 DEF ObjectsStampSound, Agree
<1>11. FullStampSound'
  <2>1. ASSUME NEW val \in cache'.all
        PROVE  /\ val.stamp.objectCheckpoint = val.stamp.frontier
               /\ val.stamp.relationCheckpoint = val.stamp.frontier
               /\ val.version <= search.version
               /\ val.version = search.version => search.through = val.stamp.frontier
               /\ val.source => SourceAgrees
    <3>1. CASE turn.indexes
      <4>1. val = Validation /\ AllAt(Frontier) /\ search.version <= search.version
        BY <1>1, <1>2, <1>4, <3>1, TurnFacts, TypeParts
      <4>2. QED
        BY <1>4, <1>8, <1>9, <3>1, <4>1 DEF AllAt
    <3>2. CASE ~turn.indexes
      <4>1. val \in cache.all
        BY <1>2, <3>2
      <4>2. QED
        BY <1>1, <4>1, TurnFacts DEF FullStampSound
    <3>3. QED
      BY <3>1, <3>2
  <2>2. QED
    BY <1>2, <1>3, <2>1 DEF FullStampSound
<1>12. QED
  BY <1>5, <1>6, <1>7, <1>10, <1>11 DEF WriterInv

-----------------------------------------------------------------------------
(* The invariant and what follows from it.                                   *)

\* The invariant holds of a new store.
LEMMA InitInv == Init => WriterInv
<1> SUFFICES ASSUME Init PROVE WriterInv
  OBVIOUS
<1>1. TypeOK
  BY InitType
<1>2. UpTo(journal, 0) = {} /\ Shown({}) = {} /\ Len(journal) = 0
  BY CommandAssumption DEF Init, UpTo, Shown, Hidden
<1>3. HandleCurrent
  BY DEF Init, HandleCurrent
<1>6. ObjectsStampSound /\ FullStampSound /\ TurnSound
  BY DEF Init, ObjectsStampSound, FullStampSound, TurnSound, NoCache, NoTurn
<1>4. ProjectionsExact /\ ClientsSound
  <2>1. /\ objects.through = 0 /\ relations.through = 0 /\ search.through = 0
        /\ objects.rows = {} /\ relations.rows = {} /\ search.rows = {}
        /\ acked = {} /\ answer.frontier = 0 /\ answer.rows = {}
    BY DEF Init
  <2>2. {} = Shown(UpTo(journal, 0)) /\ {} = Indexed(Shown(UpTo(journal, 0)))
    BY <1>2 DEF Indexed
  <2>3. ProjectionsExact
    BY <2>1, <2>2 DEF ProjectionsExact
  <2>4. ClientsSound
    BY <1>2, <2>1, <2>2 DEF ClientsSound, Frontier
  <2>5. QED
    BY <2>3, <2>4
<1>5. QED
  BY <1>1, <1>3, <1>4, <1>6 DEF WriterInv

\* Every step keeps the invariant.
LEMMA InvStep ==
  ASSUME WriterInv, [Next]_vars PROVE WriterInv'
<1>1. TypeOK /\ TypeOK'
  BY TypeStep DEF WriterInv
<1>2. ASSUME NEW c \in Commands, CommitUncertain(c) PROVE WriterInv'
  <2>1. /\ Closed /\ journal' = Append(journal, c) /\ objects' = objects
        /\ relations' = relations /\ search' = search /\ acked' = acked /\ answer' = answer
    BY <1>2 DEF CommitUncertain, clients
  <2>2. Grows /\ Len(journal') >= Len(journal)
    BY <1>1, <2>1, TypeParts DEF Grows
  <2>3. QED
    BY <1>1, <2>1, <2>2, ClosedInv
<1>3. CASE Fail
  <2>1. /\ Closed /\ journal' = journal /\ objects' = objects
        /\ relations' = relations /\ search' = search /\ acked' = acked /\ answer' = answer
    BY <1>3 DEF Fail, durable, clients
  <2>2. Grows /\ Len(journal') >= Len(journal)
    BY <1>1, <2>1, TypeParts DEF Grows
  <2>3. QED
    BY <1>1, <2>1, <2>2, ClosedInv
<1>4. CASE UNCHANGED vars
  <2>1. ClientsSound'
    BY <1>4 DEF vars, durable, clients, WriterInv, ClientsSound, Frontier
  <2>2. QED
    BY <1>1, <1>4, <2>1, AnswerInv DEF vars, durable, handle
<1>5. ASSUME NEW indexes \in BOOLEAN, NEW returns \in BOOLEAN, Project(indexes, returns)
      PROVE WriterInv'
  BY <1>1, <1>5, ProjectHitInv, ProjectCaptureInv, ProjectIndexesInv, ProjectObjectsInv DEF Project
<1>6. CASE TurnStep
  BY <1>1, <1>6, SkipIndexesInv, CommitRelationsInv, CommitSearchInv, FinishProjectionInv
     DEF TurnStep
<1>7. QED
  BY <1>1, <1>2, <1>3, <1>4, <1>5, <1>6, CommitInv, CommitReplayedInv, ReopenInv, ReadCurrentInv
     DEF Next

\* The writer's stamps, turns and projections are sound in every reachable
\* state, for any commands, ledgers and number of failures.
THEOREM WriterCorrect == Spec => []WriterInv
BY InitInv, InvStep, PTL DEF Spec

\* After any failure and whichever shortcut computed it, a projection is the
\* fold of the journal up to its checkpoint.
THEOREM ProjectionsAlwaysExact == Spec => []ProjectionsExact
<1>1. WriterInv => ProjectionsExact
  BY DEF WriterInv
<1>2. QED
  BY <1>1, WriterCorrect, PTL

\* A full stamp that matches vouches for all three families.
THEOREM FullStampAlwaysComplete == Spec => []FullStampComplete
<1>1. WriterInv => FullStampComplete
  <2> SUFFICES ASSUME WriterInv, NEW v \in Hits(TRUE), open
               PROVE  {objects.through, relations.through, search.through} = {Frontier}
    BY DEF FullStampComplete
  <2>1. v \in cache.all /\ v.stamp = Stamp /\ v.version = search.version
    BY DEF Hits
  <2>2. /\ v.stamp.objectCheckpoint = v.stamp.frontier
        /\ v.stamp.relationCheckpoint = v.stamp.frontier /\ search.through = v.stamp.frontier
    BY <2>1 DEF WriterInv, FullStampSound
  <2>3. QED
    BY <2>1, <2>2 DEF Stamp
<1>2. QED
  BY <1>1, WriterCorrect, PTL

\* A search read between requests never meets a stamp that is not bound, which
\* it would take for corruption.
THEOREM ReadsAlwaysBound == Spec => []ReadsBound
<1>1. WriterInv => ReadsBound
  <2> SUFFICES ASSUME WriterInv, Idle, NEW v \in cache.objects PROVE ReadBound(v)
    BY DEF ReadsBound
  <2>1. /\ Agree(v, {"objectsEpoch", "objectCheckpoint"})
        /\ v.appended = 0 => Agree(v, {"journalEpoch", "frontier"})
        /\ v.appended # 0 => v.appended = Frontier
    BY IdleFacts DEF ObjectsStampSound
  <2>2. Frontier = Len(admission)
    BY IdleFacts DEF Frontier
  <2>3. CASE v.appended = 0
    <3>1. ObjectsBound(v) /\ v.stamp.frontier = Frontier
      BY <2>1, <2>3 DEF ObjectsBound, Agree, Stamp
    <3>2. QED
      BY <2>2, <3>1 DEF ReadBound
  <2>4. CASE v.appended # 0
    BY <2>1, <2>2, <2>4 DEF ReadBound, SuccessorBound
  <2>5. QED
    BY <2>3, <2>4
<1>2. QED
  BY <1>1, WriterCorrect, PTL

\* The steps that append, and what they append to.
LEMMA AppendSteps ==
  ASSUME WriterInv, [Next]_vars, journal' # journal
  PROVE  \E c \in Commands :
           /\ Commit(c) \/ CommitUncertain(c)
           /\ journal' = Append(journal, c) /\ Unused(c) /\ Timely(c) /\ Admissible(c, All(journal))
           /\ answer' = answer /\ acked' \in {acked, acked \cup {c}}
<1>1. ASSUME NEW c \in Commands, CommitReplayed(c) PROVE journal' = journal
  BY <1>1 DEF CommitReplayed, durable
<1>2. ASSUME NEW indexes \in BOOLEAN, NEW returns \in BOOLEAN, Project(indexes, returns)
      PROVE  journal' = journal
  BY <1>2 DEF Project, ProjectHit, ProjectCapture, ProjectIndexes, ProjectObjects, durable
<1>3. TurnStep \/ ReadCurrent \/ Fail \/ Reopen \/ UNCHANGED vars => journal' = journal
  BY DEF TurnStep, SkipIndexes, CommitRelations, CommitSearch, FinishProjection, ReadCurrent, Fail,
         Reopen, durable, vars
<1>4. PICK c \in Commands : Commit(c) \/ CommitUncertain(c)
  BY <1>1, <1>2, <1>3 DEF Next
<1>5. Idle
  BY <1>4 DEF Commit, CommitUncertain
<1>6. admission = journal
  BY <1>5, IdleFacts
<1>7. QED
  BY <1>4, <1>6 DEF Commit, CommitUncertain, clients

\* A planned command is applied only to the state it was planned from.
THEOREM PlansAlwaysFresh == Spec => PlansFresh
<1>1. ASSUME WriterInv, [Next]_vars, NEW p \in Planned, p \in All(journal') \ All(journal)
      PROVE  answer.rows = Shown(All(journal))
  <2>1. PICK c \in Commands : journal' = Append(journal, c) /\ Timely(c)
    BY <1>1, AppendSteps
  <2>2. TypeOK /\ ClientsSound
    BY <1>1 DEF WriterInv
  <2>3. All(journal') = All(journal) \cup {c}
    BY <2>1, <2>2, AllAppend, TypeParts
  <2>4. p = c
    BY <1>1, <2>3
  <2>5. answer.frontier = Len(journal)
    BY <2>1, <2>4 DEF Timely, Frontier
  <2>6. QED
    BY <2>2, <2>5 DEF ClientsSound, All
<1>2. WriterInv /\ [Next]_vars =>
        [\A c \in Planned : c \in All(journal') \ All(journal) =>
           answer.rows = Shown(All(journal))]_vars
  BY <1>1
<1>3. QED
  BY <1>2, WriterCorrect, PTL DEF Spec, PlansFresh

-----------------------------------------------------------------------------
(* Refinement.                                                               *)

\* The writer, with its caches, deltas, failures and restarts, implements the
\* projected log.
THEOREM WriterImplementsLog == Spec => ImplementsLog
<1>1. Init => Log!Init
  BY DEF Init, Log!Init
<1>2. ASSUME WriterInv, [Next]_vars PROVE [Log!Next]_(Log!vars)
  <2>1. CASE journal' # journal
    <3>1. PICK c \in Commands :
            /\ journal' = Append(journal, c) /\ Unused(c) /\ Admissible(c, All(journal))
            /\ answer' = answer /\ acked' \in {acked, acked \cup {c}}
      BY <1>2, <2>1, AppendSteps
    <3>2. Log!Commit(c)
      BY <3>1 DEF Log!Commit, Unused, Log!All, All, Log!UpTo, UpTo, Log!Admissible, Admissible,
                  Log!Hidden, Hidden
    <3>3. QED
      BY <3>2 DEF Log!Next
  <2>2. ASSUME NEW c \in Commands, CommitReplayed(c) PROVE Log!Next
    <3>1. Log!Acknowledge(c)
      BY <2>2 DEF CommitReplayed, durable, Log!Acknowledge, Log!All, All, Log!UpTo, UpTo
    <3>2. QED
      BY <3>1 DEF Log!Next
  <2>3. ASSUME journal' = journal, acked' = acked,
               answer' = [frontier |-> Len(journal), rows |-> Shown(All(journal))]
        PROVE  Log!Next
    BY <2>3 DEF Log!Next, Log!Answer, Log!Shown, Shown, Log!Hidden, Hidden, Log!All, All,
                Log!UpTo, UpTo
  <2>4. CASE ReadCurrent
    <3>1. admission = journal
      BY <1>2, <2>4, IdleFacts DEF ReadCurrent
    <3>2. QED
      BY <2>3, <2>4, <3>1 DEF ReadCurrent, durable
  <2>5. CASE FinishProjection
    <3>1. turn.pc = "finish" /\ journal' = journal /\ acked' = acked
      BY <2>5 DEF FinishProjection, durable
    <3>2. turn.returns => turn.rows = Shown(All(journal))
      BY <1>2, <3>1, TurnFacts DEF TurnSound, Whole
    <3>3. CASE turn.returns
      BY <2>3, <2>5, <3>1, <3>2, <3>3 DEF FinishProjection, Frontier
    <3>4. CASE ~turn.returns
      BY <2>5, <3>1, <3>4 DEF FinishProjection, Log!vars
    <3>5. QED
      BY <3>3, <3>4
  <2>6. ASSUME NEW indexes \in BOOLEAN, NEW returns \in BOOLEAN, Project(indexes, returns)
        PROVE  UNCHANGED Log!vars
    BY <2>6 DEF Project, ProjectHit, ProjectCapture, ProjectIndexes, ProjectObjects, durable, clients,
                Log!vars
  <2>7. CASE SkipIndexes \/ CommitRelations \/ CommitSearch \/ Fail \/ Reopen \/ UNCHANGED vars
    BY <2>7 DEF SkipIndexes, CommitRelations, CommitSearch, Fail, Reopen, vars, durable, clients,
                Log!vars
  <2>8. ASSUME NEW c \in Commands, Commit(c) \/ CommitUncertain(c) PROVE journal' # journal
    <3>1. journal' = Append(journal, c) /\ journal \in Seq(Commands)
      BY <1>2, <2>8, TypeParts DEF Commit, CommitUncertain, WriterInv
    <3>2. Len(journal') = Len(journal) + 1 /\ Len(journal) \in Nat
      BY <3>1
    <3>3. QED
      BY <3>2
  <2>9. QED
    BY <1>2, <2>1, <2>2, <2>4, <2>5, <2>6, <2>7, <2>8 DEF Next, TurnStep
<1>3. QED
  BY <1>1, <1>2, WriterCorrect, PTL DEF Spec, ImplementsLog, Log!Spec

-----------------------------------------------------------------------------
(* The import of session files, SessionImport.                                *)

(* Legs: runs of records without gaps.                                       *)

Leg(leg, from) ==
    /\ leg \in Seq(Records)
    /\ \A i \in 1..Len(leg) : /\ leg[i].end = leg[i].start + Width[leg[i].val]
                              /\ from <= leg[i].start /\ leg[i].end <= EndOf(leg, from)
    /\ ContiguousLeg(leg, from)
    /\ \A i, j \in 1..Len(leg) : i < j => leg[i].end <= leg[j].start
    /\ \A x \in from..(EndOf(leg, from) - 1) :
          \E i \in 1..Len(leg) : leg[i].start <= x /\ x < leg[i].end

\* The record goes on where the leg ends.
Continues(leg, from, r) ==
    r \in Records /\ r.start = EndOf(leg, from) /\ r.end = r.start + Width[r.val]

\* The bounds of a leg and of its records.
LEMMA LegBounds ==
  ASSUME NEW leg, NEW from \in Nat, Leg(leg, from)
  PROVE  /\ EndOf(leg, from) \in Nat /\ from <= EndOf(leg, from)
         /\ leg # <<>> => from < EndOf(leg, from) /\ Last(leg) \in Range(leg)
         /\ \A r \in Range(leg) : /\ r \in Records /\ r.end = r.start + Width[r.val]
                                  /\ from <= r.start /\ r.start < r.end
                                  /\ r.end <= EndOf(leg, from)
<1>1. \A i \in 1..Len(leg) : /\ leg[i] \in Records /\ leg[i].start < leg[i].end
                             /\ leg[i].end = leg[i].start + Width[leg[i].val]
                             /\ from <= leg[i].start /\ leg[i].end <= EndOf(leg, from)
  <2> TAKE i \in 1..Len(leg)
  <2>0. leg[i] \in Records
    BY DEF Leg
  <2>1. leg[i] \in Records /\ leg[i].val \in Payloads
    BY <2>0 DEF Records
  <2>2. Width[leg[i].val] \in Nat \ {0}
    BY <2>1, WidthAssumption
  <2> QED BY <2>1, <2>2 DEF Leg, Records
<1>2. DOMAIN leg = 1..Len(leg) /\ Len(leg) \in Nat /\ (leg # <<>> => Len(leg) >= 1)
  BY DEF Leg
<1>3. leg # <<>> => EndOf(leg, from) = leg[Len(leg)].end
  BY DEF EndOf, Last
<1>4. leg = <<>> => EndOf(leg, from) = from
  BY DEF EndOf
<1>5. leg # <<>> => from < EndOf(leg, from) /\ EndOf(leg, from) \in Nat
  BY <1>1, <1>2, <1>3 DEF Records
<1> QED BY <1>1, <1>2, <1>4, <1>5 DEF Range, Last

\* A leg is extended by a record that begins at its end.
LEMMA LegGrows ==
  ASSUME NEW leg, NEW from \in Nat, Leg(leg, from),
         NEW r, Continues(leg, from, r)
  PROVE  /\ Leg(Append(leg, r), from) /\ EndOf(Append(leg, r), from) = r.end
         /\ Range(Append(leg, r)) = Range(leg) \union {r} /\ Append(leg, r) # <<>>
         /\ r.start < r.end
<1> DEFINE n == Len(leg)
           new == Append(leg, r)
<1>0. r \in Records /\ r.start = EndOf(leg, from) /\ r.end = r.start + Width[r.val]
  BY DEF Continues
<1>1. /\ n \in Nat /\ new \in Seq(Records) /\ Len(new) = n + 1 /\ DOMAIN new = 1..(n + 1)
      /\ new[n + 1] = r /\ \A i \in 1..n : new[i] = leg[i]
  BY <1>0 DEF Leg
<1>2. EndOf(new, from) = r.end
  BY <1>1 DEF EndOf, Last
<1>3. r.val \in Payloads /\ r.start \in Nat /\ r.end \in Nat
  BY <1>0 DEF Records
<1>4. r.start < r.end
  BY <1>0, <1>3, WidthAssumption
<1>5. from <= r.start
  BY <1>0, LegBounds
<1>6. \A i \in 1..n : /\ leg[i] \in Records /\ leg[i].end = leg[i].start + Width[leg[i].val]
                      /\ from <= leg[i].start /\ leg[i].end <= r.start
  BY <1>0 DEF Leg
<1>7. \A i \in 1..(n + 1) : /\ new[i].end = new[i].start + Width[new[i].val]
                            /\ from <= new[i].start /\ new[i].end <= EndOf(new, from)
  <2> TAKE i \in 1..(n + 1)
  <2>1. CASE i = n + 1
    BY <2>1, <1>0, <1>1, <1>2, <1>3, <1>5
  <2>2. CASE i \in 1..n
    <3>1. new[i] = leg[i] /\ leg[i].end \in Nat
      BY <2>2, <1>1, <1>6 DEF Records
    <3> QED BY <2>2, <3>1, <1>6, <1>2, <1>3, <1>4
  <2> QED BY <2>1, <2>2, <1>1
<1>8. ContiguousLeg(new, from)
  <2> SUFFICES ASSUME NEW i \in 1..(n + 1)
               PROVE  new[i].start = (IF i = 1 THEN from ELSE new[i - 1].end)
    BY <1>1 DEF ContiguousLeg
  <2>1. CASE i \in 1..n
    <3>1. leg[i].start = (IF i = 1 THEN from ELSE leg[i - 1].end)
      BY <2>1, <1>1 DEF Leg, ContiguousLeg
    <3> QED BY <2>1, <3>1, <1>1
  <2>2. CASE i = n + 1 /\ n = 0
    BY <2>2, <1>0, <1>1 DEF EndOf
  <2>3. CASE i = n + 1 /\ n # 0
    <3>1. leg # <<>> /\ r.start = leg[n].end
      BY <2>3, <1>0, <1>1 DEF EndOf, Last
    <3> QED BY <2>3, <3>1, <1>1
  <2> QED BY <2>1, <2>2, <2>3, <1>1
<1>9. \A i, j \in 1..(n + 1) : i < j => new[i].end <= new[j].start
  <2> TAKE i, j \in 1..(n + 1)
  <2>1. CASE j \in 1..n
    BY <2>1, <1>1 DEF Leg
  <2>2. CASE j = n + 1
    BY <2>2, <1>1, <1>6
  <2> QED BY <2>1, <2>2, <1>1
<1>10. \A x \in from..(r.end - 1) : \E i \in 1..(n + 1) : new[i].start <= x /\ x < new[i].end
  <2> TAKE x \in from..(r.end - 1)
  <2>1. CASE x < r.start
    <3>1. x \in from..(EndOf(leg, from) - 1)
      BY <2>1, <1>0, <1>3
    <3>2. PICK i \in 1..n : leg[i].start <= x /\ x < leg[i].end
      BY <3>1 DEF Leg
    <3> QED BY <3>2, <1>1
  <2>2. CASE r.start <= x
    BY <2>2, <1>0, <1>1, <1>3
  <2> QED BY <2>1, <2>2, <1>3
<1>11. Range(new) = Range(leg) \union {r}
  <2>1. DOMAIN leg = 1..n
    BY DEF Leg
  <2> QED BY <1>1, <2>1 DEF Range
<1> HIDE DEF new
<1>12. Leg(new, from)
  BY <1>1, <1>2, <1>7, <1>8, <1>9, <1>10 DEF Leg
<1> QED BY <1>1, <1>2, <1>4, <1>11, <1>12 DEF new

\* The same from the beginning of a file.
LEMMA LegGrowsFromZero ==
  ASSUME NEW leg, Leg(leg, 0), NEW r, Continues(leg, 0, r)
  PROVE  /\ Leg(Append(leg, r), 0) /\ EndOf(Append(leg, r), 0) = r.end
         /\ Range(Append(leg, r)) = Range(leg) \union {r} /\ Append(leg, r) # <<>>
         /\ r.start < r.end
<1>1. PICK from \in Nat : from = 0
  OBVIOUS
<1>2. Leg(leg, from) /\ Continues(leg, from, r)
  BY <1>1
<1>3. /\ Leg(Append(leg, r), from) /\ EndOf(Append(leg, r), from) = r.end
      /\ Range(Append(leg, r)) = Range(leg) \union {r} /\ Append(leg, r) # <<>>
      /\ r.start < r.end
  BY <1>2, LegGrows
<1> QED BY <1>1, <1>3

LEMMA EmptyLeg ==
  ASSUME NEW from \in Nat
  PROVE  Leg(<<>>, from) /\ EndOf(<<>>, from) = from /\ Range(<<>>) = {}
BY DEF Leg, EndOf, ContiguousLeg, Range

\* Records of a leg do not overlap.
LEMMA LegApart ==
  ASSUME NEW leg, NEW from \in Nat, Leg(leg, from), NEW a \in Range(leg), NEW b \in Range(leg),
         a.start < b.end, b.start < a.end
  PROVE  a = b
<1>1. PICK i \in 1..Len(leg) : a = leg[i]
  BY DEF Range, Leg
<1>2. PICK j \in 1..Len(leg) : b = leg[j]
  BY DEF Range, Leg
<1>3. a \in Records /\ b \in Records
  BY LegBounds
<1>4. ~(i < j) /\ ~(j < i)
  BY <1>1, <1>2, <1>3 DEF Leg, Records
<1>5. Len(leg) \in Nat
  BY DEF Leg
<1> QED BY <1>1, <1>2, <1>4, <1>5

\* A leg made of the records of another one holds all of them that begin where it lies.
LEMMA LegFills ==
  ASSUME NEW whole, Leg(whole, 0), NEW part, NEW from \in Nat, Leg(part, from),
         Range(part) \subseteq Range(whole),
         NEW e \in Range(whole), from <= e.start, e.start < EndOf(part, from)
  PROVE  e \in Range(part)
<1>1. e \in Records /\ e.start < e.end /\ e.start \in Nat
  BY LegBounds DEF Records
<1>2. EndOf(part, from) \in Nat
  BY LegBounds
<1>3. e.start \in from..(EndOf(part, from) - 1)
  BY <1>1, <1>2
<1>4. PICK i \in 1..Len(part) : part[i].start <= e.start /\ e.start < part[i].end
  BY <1>3 DEF Leg
<1>5. part[i] \in Range(part)
  BY DEF Leg, Range
<1>6. part[i] \in Records
  BY <1>5, LegBounds
<1>7. part[i].start < e.end
  BY <1>1, <1>4, <1>6 DEF Records
<1>8. part[i] = e
  BY <1>4, <1>5, <1>7, LegApart
<1> QED BY <1>5, <1>8
-----------------------------------------------------------------------------
(* Types.                                                                    *)

Revisions == (Nat \ {0}) \X Nat
Kinds == {"Repository", "Ambiguous", "Unavailable"}
Origins == [fence : Nat \union {-1}, closed : BOOLEAN]
AnyFile == [id : Nat \ {0}, recs : Seq(Records)]
Sessions == [rev : Revisions, fp : AnyFile, kind : Kinds, origin : Origins,
             access : {"none", "Approved", "Revoked"}, body : Bodies]
Metas == [rev : Revisions, fp : AnyFile, kind : Kinds, origin : Origins]
Gates == [revoked : BOOLEAN, purged : BOOLEAN]
Marks == [fence : Nat \union {-1}, early : Seq(Records), main : Seq(Records)]
CaptureRecords == [rev : Revisions, start : Nat, end : Nat, val : Payloads,
             scope : {"repository", "origin", "unscoped"}]
RangeKinds == {"prefix", "suffix", "whole"}
Ranges == [kind : RangeKinds, start : Nat, end : Nat]
Steps == {"idle", "authorize", "verify", "claim", "begin", "read", "drain", "confirm", "handoff"}
Runs == [pc : Steps, ctx : Sessions \union {<<>>}, gate : Gates \union {<<>>}, mark : Marks,
         fresh : BOOLEAN, range : Seq(Ranges), got : Seq(CaptureRecords),
         target : {"none", "Imported", "Partial"}]
Caches == [key : {<<>>} \union (Revisions \X AnyFile), early : Nat, main : Nat,
           turn : RangeKinds]
Jobs == {Queued, Leased, [Leased EXCEPT !.lease = "expired"]}
Hosts == [trust : BOOLEAN, conflict : BOOLEAN, instance : BOOLEAN,
          kind : {"Repository", "Ambiguous"}]

FileOK(f) == f \in AnyFile /\ f.recs # <<>> /\ Leg(f.recs, 0)

EnvOK ==
    /\ env \in Scenario
    /\ \E e \in Scenarios : /\ env.left \in 0..e.left
                            /\ env = [e EXCEPT !.left = env.left, !.mixed = env.mixed]
MarksOK ==
    /\ marks = [rev \in DOMAIN marks |-> marks[rev]] /\ DOMAIN marks \subseteq Revisions
    /\ \A rev \in DOMAIN marks : marks[rev] \in Marks
WorkerOK ==
    /\ w \in [run : Runs, cache : Caches]
    /\ w.run.pc # "idle" => w.run.ctx \in Sessions /\ w.run.gate \in Gates
Running == w.run.pc # "idle"

\* What surrounds the store, and the types of the store.
Outer ==
    /\ EnvOK /\ host \in Hosts /\ host.kind \in env.kinds
    /\ jobs \in Seq(Jobs) /\ gate \in Gates /\ WorkerOK
Types ==
    /\ FileOK(file) /\ ses \in Sessions /\ FileOK(ses.fp)
    /\ ses.kind \in {host.kind, "Unavailable"}
    /\ MarksOK /\ spool \in Seq(CaptureRecords)

\* The file only moves on, and within its bounds.
Later(f, g) == f.id < g.id \/ f = g \/ (f.id = g.id /\ Size(f) < Size(g))
Bounded ==
    /\ Later(ses.fp, file) /\ file.id <= env.versions
    /\ Size(file) <= env.bytes /\ Size(ses.fp) <= env.bytes
    /\ ses.origin.fence <= env.bytes

\* A revision is known before the file it names goes on, so that a fingerprint is new.
Before(rev, f) == rev[1] < f.id \/ (rev[1] = f.id /\ rev[2] < Size(f))
Revised ==
    /\ ses.rev = Fingerprint(ses.fp) \/ Before(ses.rev, ses.fp)
    /\ \A rev \in DOMAIN marks : rev = ses.rev \/ Before(rev, ses.fp)
    /\ \A i \in 1..Len(spool) : spool[i].rev = ses.rev \/ Before(spool[i].rev, ses.fp)

\* A waiting capture is a record the importer supports and, unless the history is mixed, of
\* the file the session names.
Captured ==
    \A i \in 1..Len(spool) :
        /\ spool[i].end = spool[i].start + Width[spool[i].val]
        /\ spool[i].end <= env.bytes /\ Readable(spool[i].val)
        /\ spool[i].rev = ses.rev =>
             spool[i].end <= Size(ses.fp)
             /\ (env.mixed \/ Entry(spool[i]) \in Range(ses.fp.recs))

\* A watermark consists of two legs; its fence is the session's.
GoodMark(m) ==
    /\ Leg(m.main, Start(m)) /\ Leg(m.early, 0)
    /\ m.fence <= env.bytes
    /\ m.fence >= 0 => EarlyEnd(m) <= m.fence
    /\ m.fence < 0 => m.early = <<>>
Marked ==
    /\ \A rev \in DOMAIN marks : /\ marks[rev].early # <<>> \/ marks[rev].main # <<>>
                                 /\ GoodMark(marks[rev])
    /\ MarkOf(ses.rev) # NoMark => MarkOf(ses.rev).fence = ses.origin.fence

Store == Types /\ Bounded /\ Revised /\ Captured /\ Marked /\ HistoryNeedsApproval

\* The worker works for the session it read.
Steady ==
    /\ Running =>
        /\ Metadata(ses) = Metadata(w.run.ctx)
        /\ ses.body \notin {"NotImported", "SourceReplaced"}
    /\ w.run.pc \in {"authorize", "verify", "claim", "begin"} =>
        /\ w.run.fresh => ses = w.run.ctx
        /\ w.run.got = <<>>
    /\ w.run.pc \notin {"idle", "authorize"} =>
          w.run.ctx.kind # "Unavailable" /\ w.run.ctx.access # "Revoked"
    /\ w.run.pc \in {"drain", "confirm"} => w.run.got # <<>> /\ w.run.range # <<>>
    /\ w.run.pc = "handoff" => w.run.target # "none"
    /\ w.run.pc \in {"begin", "read"} /\ w.run.range = <<>> => w.run.target # "none"
    /\ \A i \in 1..Len(w.run.got) : LET r == w.run.got[i] IN r.end = r.start + Width[r.val]

\* The watermark the worker read is part of the confirmed one.
ReadMark ==
    LET m == MarkOf(ses.rev)  read == w.run.mark IN
    Running =>
        /\ Range(read.early) \subseteq Range(m.early) /\ Range(read.main) \subseteq Range(m.main)
        /\ GoodMark(read) /\ (read # NoMark => read.fence = ses.origin.fence)
        /\ w.run.pc \in {"authorize", "verify"} /\ read.early # <<>> =>
             host.kind = "Repository" \/ w.run.ctx.access # "none"
        /\ env.mixed \/ /\ Range(m.early) \subseteq Range(read.early) \union Range(ses.fp.recs)
                        /\ Range(m.main) \subseteq Range(read.main) \union Range(ses.fp.recs)

\* What the cache vouches for are records of its file.
VouchedLeg(leg, end, upTo, f) ==
    /\ upTo <= end
    /\ env.mixed \/ \A r \in Range(leg) : r.end <= upTo => r \in Range(f.recs)
CacheSound ==
    LET m == MarkOf(w.cache.key[1])  f == w.cache.key[2] IN
    w.cache.key # <<>> =>
        /\ VouchedLeg(m.early, EarlyEnd(m), w.cache.early, f)
        /\ VouchedLeg(m.main, MainEnd(m), w.cache.main, f)

\* Once the worker has verified, what is confirmed is the session's file.
Open(s) == HasOrigin(s) => ~s.origin.closed
Claimed == w.run.pc \in {"claim", "begin", "read", "drain", "confirm", "handoff"}
Complete(s, m) ==
    /\ Open(s) /\ m # NoMark /\ MainEnd(m) = Size(s.fp)
    /\ HasOrigin(s) => EarlyEnd(m) = s.origin.fence
Ranged == w.run.pc \in {"begin", "read", "drain", "confirm"} /\ w.run.range # <<>>
Ending == w.run.pc = "handoff" \/ (w.run.pc \in {"begin", "read"} /\ w.run.range = <<>>)
ProvedMarks ==
    LET m == MarkOf(ses.rev) IN
    Claimed /\ ~env.mixed =>
        /\ Range(m.early) \subseteq Range(ses.fp.recs)
        /\ Open(ses) => Range(m.main) \subseteq Range(ses.fp.recs)
Proved ==
    /\ ProvedMarks
    /\ Ranged => w.run.range[1].kind = "prefix" \/ Open(ses)
    /\ Ending => w.run.target # "Imported" \/ Complete(ses, w.run.mark)

WholeArchive ==
    ses.body = "Imported" => /\ Complete(ses, MarkOf(ses.rev))
                             /\ env.mixed \/ ImportedMatchesFile

\* Revoked bodies stay out; the job to begin with is there.
Serves ==
    /\ JobServesBody
    /\ ses.access = "Revoked" => ses.body \notin {"Importing", "Partial", "Imported"}
    /\ w.run.pc = "begin" /\ w.run.fresh => jobs # <<>> \/ gate.purged

\* While one file only grows, a waiting record begins where its leg ends, or before, or
\* where a record that waits before it ends.
OneFile == file.id = 1 /\ ~Environs("origin")
LineUp ==
    OneFile =>
        /\ ~HasOrigin(ses) /\ (gate.purged => host.kind = "Repository")
        /\ \A rev \in DOMAIN marks : /\ marks[rev].fence = -1
                                     /\ Range(marks[rev].main) \subseteq Range(file.recs)
        /\ \A i \in 1..Len(spool) :
             /\ host.kind = "Repository" => spool[i].scope = "repository"
             /\ Entry(spool[i]) \in Range(file.recs)
             /\ \/ spool[i].start <= MainEnd(MarkOf(spool[i].rev))
                \/ gate.purged
                \/ \E j \in 1..(i - 1) : spool[j].rev = spool[i].rev /\ spool[j].end = spool[i].start
        /\ w.run.pc \in {"begin", "read"} /\ w.run.range # <<>> =>
             \/ ReadFrom <= MainEnd(MarkOf(ses.rev))
             \/ gate.purged
             \/ \E j \in 1..Len(spool) : spool[j].rev = ses.rev /\ spool[j].end = ReadFrom

ImportInv == /\ Outer /\ Store /\ Steady /\ ReadMark /\ CacheSound /\ Proved /\ WholeArchive /\ Serves /\ LineUp

LEMMA NoMarkType == NoMark \in Marks /\ Start(NoMark) = 0 /\ MainEnd(NoMark) = 0
                    /\ EarlyEnd(NoMark) = 0
BY DEF NoMark, Marks, Start, MainEnd, EarlyEnd, EndOf

LEMMA MarkType ==
  ASSUME \A rev \in DOMAIN marks : marks[rev] \in Marks, NEW rev
  PROVE  MarkOf(rev) \in Marks
BY NoMarkType DEF MarkOf

LEMMA FileSize ==
  ASSUME NEW f, FileOK(f)
  PROVE  /\ Size(f) \in Nat \ {0} /\ f.id \in Nat \ {0} /\ f.recs \in Seq(Records)
         /\ f \in AnyFile
BY LegBounds DEF FileOK, Size, AnyFile, Leg

LEMMA RunRest == Rest \in Runs /\ NothingProved \in Caches /\ Rest.pc = "idle"
BY NoMarkType DEF Rest, NothingProved, Runs, Caches, Steps, RangeKinds

LEMMA JobTypes == Queued \in Jobs /\ Leased \in Jobs
BY DEF Queued, Leased, Jobs

LEMMA AdvancedType ==
  ASSUME NEW s \in Sessions, NEW b \in Bodies
  PROVE  /\ Advanced(s, b) \in Sessions /\ Metadata(Advanced(s, b)) = Metadata(s)
         /\ Advanced(s, b).fp = s.fp /\ Advanced(s, b).rev = s.rev
         /\ Advanced(s, b).kind = s.kind /\ Advanced(s, b).origin = s.origin
         /\ Advanced(s, b).access = s.access /\ Advanced(s, b).body = b
BY DEF Advanced, Sessions, Metadata

LEMMA MetadataType ==
  ASSUME NEW s \in Sessions
  PROVE  /\ Metadata(s) \in Metas /\ Metadata(s).fp = s.fp /\ Metadata(s).rev = s.rev
         /\ Metadata(s).kind = s.kind /\ Metadata(s).origin = s.origin
BY DEF Metadata, Sessions, Metas

LEMMA ObservedType ==
  ASSUME NEW s \in Sessions, NEW m \in Metas
  PROVE  /\ Observed(s, m) \in Sessions /\ Metadata(Observed(s, m)) = m
         /\ Observed(s, m).fp = m.fp /\ Observed(s, m).rev = m.rev
         /\ Observed(s, m).kind = m.kind /\ Observed(s, m).origin = m.origin
         /\ Observed(s, m).access = (IF SourceChanged(s, m) /\ s.access # "Revoked"
                                     THEN "none" ELSE s.access)
         /\ Observed(s, m).body = s.body
BY DEF Observed, Sessions, Metas, Metadata

\* What the events of an observation leave behind.
LEMMA EventsGive ==
  ASSUME NEW s \in Sessions, NEW m \in Metas, NEW live
  PROVE  LET r == metadata_events(s, m, live) IN
         /\ r.ses \in Sessions
         /\ r.ses.fp = m.fp /\ r.ses.rev = m.rev /\ r.ses.kind = m.kind /\ r.ses.origin = m.origin
         /\ r.ses.access = (IF SourceChanged(s, m) /\ s.access # "Revoked"
                            THEN "none" ELSE s.access)
         /\ r.ses.body = (IF AppendArrived(s, m, live) THEN "Queued"
                          ELSE IF BodyTransition(s, m) = "none" THEN s.body
                          ELSE BodyTransition(s, m))
         /\ r.move = BodyTransition(s, m)
         /\ r.move \in {"none", "SourceReplaced", "BlockedScopeUnresolved"}
         /\ r.queues = AppendArrived(s, m, live)
<1> DEFINE move == BodyTransition(s, m)
           kept == IF move = "BlockedScopeUnresolved" /\ s.body = "Importing"
                   THEN Advanced(s, "Partial") ELSE s
           moved == IF move = "none" THEN kept ELSE Advanced(kept, move)
           seen == Observed(moved, m)
           again == AppendArrived(s, m, live)
           final == IF again THEN Advanced(seen, "Queued") ELSE seen
<1>1. move \in {"none", "SourceReplaced", "BlockedScopeUnresolved"}
  BY DEF BodyTransition
<1>2. {"Partial", "Queued", "SourceReplaced", "BlockedScopeUnresolved"} \subseteq Bodies
  BY DEF Bodies
<1>3. /\ kept \in Sessions /\ kept.rev = s.rev /\ kept.fp = s.fp /\ kept.access = s.access
      /\ move = "none" => kept.body = s.body
  BY <1>2, AdvancedType
<1> HIDE DEF kept, move
<1>4. /\ moved \in Sessions /\ moved.rev = s.rev /\ moved.fp = s.fp /\ moved.access = s.access
      /\ moved.body = IF move = "none" THEN s.body ELSE move
  <2>1. CASE move = "none"
    BY <2>1, <1>3
  <2>2. CASE move # "none"
    <3>1. move \in Bodies
      BY <2>2, <1>1, <1>2
    <3>2. moved = Advanced(kept, move)
      BY <2>2
    <3> QED BY <2>2, <1>3, <3>1, <3>2, AdvancedType
  <2> QED BY <2>1, <2>2
<1> HIDE DEF moved
<1>5. SourceChanged(moved, m) = SourceChanged(s, m)
  BY <1>4 DEF SourceChanged
<1>6. /\ seen \in Sessions /\ seen.fp = m.fp /\ seen.rev = m.rev /\ seen.kind = m.kind
      /\ seen.origin = m.origin
      /\ seen.access = (IF SourceChanged(s, m) /\ s.access # "Revoked" THEN "none" ELSE s.access)
      /\ seen.body = IF move = "none" THEN s.body ELSE move
  BY <1>4, <1>5, ObservedType
<1> HIDE DEF seen, again
<1>7. /\ final \in Sessions /\ final.fp = m.fp /\ final.rev = m.rev /\ final.kind = m.kind
      /\ final.origin = m.origin /\ final.access = seen.access
      /\ final.body = IF again THEN "Queued" ELSE seen.body
  <2>1. CASE again
    BY <2>1, <1>2, <1>6, AdvancedType
  <2>2. CASE ~again
    BY <2>2, <1>6
  <2> QED BY <2>1, <2>2
<1> HIDE DEF final
<1>8. LET r == metadata_events(s, m, live) IN
      r.ses = final /\ r.move = move /\ r.queues = again
  BY DEF metadata_events, final, seen, moved, kept, again, move
<1> QED BY <1>1, <1>6, <1>7, <1>8 DEF move, again
-----------------------------------------------------------------------------
(* Files, revisions and the scenario.                                        *)

LEMMA LineType ==
  ASSUME NEW from \in Nat, NEW v \in Payloads
  PROVE  /\ Line(from, v) \in Records /\ Line(from, v).start = from
         /\ Line(from, v).val = v
         /\ Line(from, v).end = Line(from, v).start + Width[Line(from, v).val]
BY WidthAssumption DEF Line, Records

LEMMA Two ==
  ASSUME NEW a \in Records, NEW b \in Records
  PROVE  Append(<<a>>, b) = <<a, b>>
<1> DEFINE s == Append(<<a>>, b)
           t == <<a, b>>
<1>1. t \in Seq(Records) /\ Len(t) = 2 /\ t[1] = a /\ t[2] = b
  OBVIOUS
<1>2. <<a>> \in Seq(Records) /\ Len(<<a>>) = 1 /\ <<a>>[1] = a
  OBVIOUS
<1>3. s \in Seq(Records) /\ Len(s) = 2 /\ s[1] = a /\ s[2] = b
  <2>1. PICK one \in Seq(Records) : one = <<a>>
    BY <1>2
  <2>2. Len(one) = 1 /\ one[1] = a
    BY <1>2, <2>1
  <2>3. /\ Append(one, b) \in Seq(Records) /\ Len(Append(one, b)) = Len(one) + 1
        /\ \A i \in 1..Len(one) : Append(one, b)[i] = one[i]
        /\ Append(one, b)[Len(one) + 1] = b
    OBVIOUS
  <2> QED BY <2>1, <2>2, <2>3
<1> HIDE DEF s, t
<1>4. \A i \in 1..2 : s[i] = t[i]
  <2> TAKE i \in 1..2
  <2>1. i = 1 \/ i = 2
    OBVIOUS
  <2> QED BY <2>1, <1>1, <1>3
<1>5. s = t
  BY <1>1, <1>3, <1>4, SeqEqual
<1> QED BY <1>5 DEF s, t

LEMMA FreshFile ==
  ASSUME NEW v \in Payloads, NEW id \in Nat \ {0}, NEW recs,
         recs = <<Line(0, v)>> \/ \E u \in Payloads : recs = <<Line(0, v), Line(Width[v], u)>>
  PROVE  FileOK([id |-> id, recs |-> recs])
<1>1. Leg(<<>>, 0) /\ EndOf(<<>>, 0) = 0
  BY EmptyLeg
<1>2. /\ Line(0, v) \in Records /\ Line(0, v).start = 0 /\ Line(0, v).end = Width[v]
      /\ Line(0, v).end = Line(0, v).start + Width[Line(0, v).val]
  BY LineType, WidthAssumption
<1> DEFINE r == Line(0, v)
           one == <<r>>
<1>3. \A leg : leg = <<>> => Append(leg, r) = one
  OBVIOUS
<1> HIDE DEF r, one
<1>4. Leg(one, 0) /\ EndOf(one, 0) = Width[v] /\ one # <<>>
  <2>1. PICK leg : leg = <<>>
    OBVIOUS
  <2>2. Leg(leg, 0) /\ EndOf(leg, 0) = 0 /\ Append(leg, r) = one
    BY <1>1, <1>3, <2>1
  <2>3. r \in Records /\ r.start = 0 /\ r.end = Width[v] /\ r.end = r.start + Width[r.val]
    BY <1>2 DEF r
  <2>4. Continues(leg, 0, r)
    BY <2>2, <2>3 DEF Continues
  <2>5. /\ Leg(Append(leg, r), 0) /\ EndOf(Append(leg, r), 0) = r.end
        /\ Append(leg, r) # <<>>
    BY <2>2, <2>4, LegGrowsFromZero
  <2> QED BY <2>2, <2>3, <2>5
<1>5. Leg(recs, 0) /\ recs # <<>>
  <2>1. CASE recs = <<Line(0, v)>>
    BY <2>1, <1>4 DEF r, one
  <2>2. ASSUME NEW u \in Payloads, recs = <<Line(0, v), Line(Width[v], u)>>
        PROVE  Leg(recs, 0) /\ recs # <<>>
    <3> DEFINE q == Line(Width[v], u)
    <3>1. q \in Records /\ q.start = Width[v] /\ q.end = q.start + Width[q.val]
      BY LineType, WidthAssumption
    <3> HIDE DEF q
    <3>2. Append(one, q) = recs
      BY <1>2, <2>2, <3>1, Two DEF q, one, r
    <3>3. Continues(one, 0, q)
      BY <1>4, <3>1 DEF Continues
    <3>4. Leg(Append(one, q), 0) /\ Append(one, q) # <<>>
      BY <1>4, <3>3, LegGrowsFromZero
    <3> QED BY <3>2, <3>4
  <2> QED BY <2>1, <2>2
<1>6. recs \in Seq(Records)
  BY <1>5 DEF Leg
<1> QED BY <1>5, <1>6 DEF FileOK, AnyFile

LEMMA GrownFile ==
  ASSUME FileOK(file), NEW v \in Payloads,
         file' = [file EXCEPT !.recs = Append(@, Line(Size(file), v))]
  PROVE  /\ FileOK(file') /\ file'.id = file.id
         /\ file'.recs = Append(file.recs, Line(Size(file), v))
         /\ Size(file) < Size(file') /\ Range(file.recs) \subseteq Range(file'.recs)
<1> DEFINE r == Line(Size(file), v)
<1>1. Size(file) \in Nat /\ file \in AnyFile
  BY FileSize
<1>2. r \in Records /\ r.start = Size(file) /\ r.end = r.start + Width[r.val]
  BY <1>1, LineType
<1>3. file' \in AnyFile /\ file'.id = file.id /\ file'.recs = Append(file.recs, r)
  <2>1. file.id \in Nat \ {0} /\ file.recs \in Seq(Records) /\ Append(file.recs, r) \in Seq(Records)
    BY <1>1, <1>2 DEF AnyFile
  <2>2. file' = [file EXCEPT !.recs = Append(file.recs, r)]
    OBVIOUS
  <2> HIDE DEF r
  <2> QED BY <1>1, <2>1, <2>2 DEF AnyFile
<1> HIDE DEF r
<1>0. Leg(file.recs, 0) /\ Size(file) = EndOf(file.recs, 0)
  BY DEF FileOK, Size
<1>4. /\ Leg(Append(file.recs, r), 0) /\ EndOf(Append(file.recs, r), 0) = r.end
      /\ Range(Append(file.recs, r)) = Range(file.recs) \union {r}
      /\ Append(file.recs, r) # <<>> /\ r.start < r.end
  <2>1. Continues(file.recs, 0, r)
    BY <1>0, <1>2 DEF Continues
  <2> QED BY <1>0, <2>1, LegGrowsFromZero
<1> QED BY <1>2, <1>3, <1>4 DEF FileOK, Size, r

LEMMA FingerprintType ==
  ASSUME NEW f, FileOK(f)
  PROVE  Fingerprint(f) \in Revisions /\ Fingerprint(f) = <<f.id, Size(f)>>
BY FileSize DEF Fingerprint, Revisions

\* What no step changes of the scenario.
EnvKept ==
    /\ env'.acts = env.acts /\ env'.kinds = env.kinds /\ env'.bad = env.bad
    /\ env'.bytes = env.bytes /\ env'.versions = env.versions
    /\ env.mixed => env'.mixed

LEMMA FaultKeeps ==
  ASSUME EnvOK, Fault
  PROVE  EnvOK' /\ EnvKept /\ env'.mixed = env.mixed
<1>1. PICK e \in Scenarios : /\ env.left \in 0..e.left
                             /\ env = [e EXCEPT !.left = env.left, !.mixed = env.mixed]
  BY DEF EnvOK
<1>2. e \in Scenario
  BY ImportsAssumption
<1>3. env.left \in Nat /\ env.left > 0 /\ env \in Scenario /\ env.mixed \in BOOLEAN
  BY DEF EnvOK, Scenario, Fault
<1>4. env' = [env EXCEPT !.left = env.left - 1]
  BY DEF Fault
<1>5. env' \in Scenario /\ env'.left = env.left - 1 /\ env'.mixed = env.mixed /\ EnvKept
  BY <1>3, <1>4 DEF Scenario, EnvKept
<1>6. env' = [e EXCEPT !.left = env'.left, !.mixed = env'.mixed]
  BY <1>1, <1>2, <1>4, <1>5 DEF Scenario
<1>7. env'.left \in 0..e.left
  BY <1>1, <1>2, <1>3, <1>5 DEF Scenario
<1> QED BY <1>5, <1>6, <1>7 DEF EnvOK

LEMMA NoteKeeps ==
  ASSUME EnvOK, NotesStranded
  PROVE  EnvOK' /\ EnvKept /\ env'.mixed = (env.mixed \/ Stranded(ses'))
<1>1. PICK e \in Scenarios : /\ env.left \in 0..e.left
                             /\ env = [e EXCEPT !.left = env.left, !.mixed = env.mixed]
  BY DEF EnvOK
<1>2. e \in Scenario
  BY ImportsAssumption
<1>3. env \in Scenario /\ env.mixed \in BOOLEAN
  BY DEF EnvOK, Scenario
<1> DEFINE mixed == env.mixed \/ Stranded(ses')
<1>4. env' = [env EXCEPT !.mixed = mixed] /\ mixed \in BOOLEAN
  BY DEF NotesStranded
<1> HIDE DEF mixed
<1>5. env' \in Scenario /\ env'.left = env.left /\ env'.mixed = mixed
  BY <1>3, <1>4 DEF Scenario
<1>6. env' = [e EXCEPT !.left = env'.left, !.mixed = env'.mixed]
  BY <1>1, <1>2, <1>4, <1>5 DEF Scenario
<1>7. EnvKept
  BY <1>3, <1>4, <1>5 DEF EnvKept, Scenario, mixed
<1> QED BY <1>1, <1>5, <1>6, <1>7 DEF EnvOK, mixed
-----------------------------------------------------------------------------
(* What a step may do to the session record, the watermarks and the spool.   *)

FileMoves ==
    /\ FileOK(file') /\ Later(file, file') /\ file'.id <= env.versions /\ Size(file') <= env.bytes
Quiet ==
    /\ UNCHANGED <<ses, marks, spool>> /\ env'.mixed = env.mixed
    /\ file' = file \/ FileMoves
Told ==
    /\ UNCHANGED <<file, marks, spool>> /\ env'.mixed = env.mixed
    /\ ses' \in Sessions /\ Metadata(ses') = Metadata(ses)
    /\ ses.access # "none" => ses'.access # "none"
SameRevision ==
    /\ ses'.rev = ses.rev /\ ses'.access = ses.access
    /\ ses'.fp = ses.fp \/ (ses'.fp = file /\ Size(ses.fp) < Size(file))
    /\ ses'.origin.fence = ses.origin.fence \/ MarkOf(ses.rev) = NoMark
OtherRevision ==
    /\ ses'.rev # ses.rev /\ ses'.rev = Fingerprint(ses'.fp)
    /\ ses'.fp = ses.fp \/ (ses'.fp = file /\ ses.fp.id < file.id)
Looked ==
    /\ UNCHANGED <<file, marks, spool>>
    /\ ses' \in Sessions /\ ses'.kind \in {host.kind, "Unavailable"}
    /\ ses'.origin.fence <= env.bytes
    /\ SameRevision \/ OtherRevision
    /\ \/ ses'.fp = ses.fp /\ env'.mixed = env.mixed
       \/ env'.mixed = (env.mixed \/ Stranded(ses'))
CapturesOne(r) ==
    /\ UNCHANGED <<file, ses, marks>> /\ env'.mixed = env.mixed
    /\ spool' = Append(spool, r) /\ r \in CaptureRecords
    /\ r.rev = ses.rev /\ r.end = r.start + Width[r.val] /\ Readable(r.val)
    /\ r.end <= Size(ses.fp) /\ Entry(r) \in Range(ses.fp.recs)
Without(s, t, k) ==
    /\ Len(t) = Len(s) - 1
    /\ \A j \in 1..Len(t) : t[j] = s[IF j < k THEN j ELSE j + 1]
Takes(k) ==
    /\ UNCHANGED <<file, ses>> /\ env'.mixed = env.mixed
    /\ spool' \in Seq(CaptureRecords) /\ Without(spool, spool', k)
    /\ \/ marks' = marks /\ (Discarded(spool[k]) \/ Replayed(MarkOf(spool[k].rev), spool[k]))
       \/ /\ ~Replayed(MarkOf(spool[k].rev), spool[k])
          /\ MayExtend(MarkOf(spool[k].rev), spool[k]) /\ Committed(spool[k])
StoreStep ==
    \/ Quiet \/ Told \/ Looked
    \/ \E r \in CaptureRecords : CapturesOne(r)
    \/ \E k \in 1..Len(spool) : Takes(k)
Fixed == EnvKept /\ host' \in Hosts /\ host'.kind = host.kind

LEMMA MarkOfKept ==
  ASSUME marks' = marks
  PROVE  \A rev : MarkOf(rev)' = MarkOf(rev)
BY DEF MarkOf

LEMMA EnvNumbers ==
  ASSUME EnvOK
  PROVE  env.bytes \in Nat /\ env.versions \in Nat /\ env.mixed \in BOOLEAN
BY DEF EnvOK, Scenario

LEMMA SameMetadata ==
  ASSUME NEW s, NEW t, Metadata(s) = Metadata(t)
  PROVE  s.rev = t.rev /\ s.fp = t.fp /\ s.kind = t.kind /\ s.origin = t.origin
BY DEF Metadata

\* A watermark of good legs, and one more record of a leg.
LEMMA GoodEnds ==
  ASSUME NEW m \in Marks, GoodMark(m)
  PROVE  /\ Start(m) \in Nat /\ Start(m) <= MainEnd(m) /\ MainEnd(m) \in Nat
         /\ EarlyEnd(m) \in Nat
         /\ m.main # <<>> => Start(m) < MainEnd(m)
         /\ m.early # <<>> => 0 < EarlyEnd(m)
<1>1. Start(m) \in Nat
  BY DEF Start, Marks
<1>2. Leg(m.main, Start(m)) /\ Leg(m.early, 0)
  BY DEF GoodMark
<1> QED BY <1>1, <1>2, LegBounds DEF MainEnd, EarlyEnd

LEMMA NoMarkGood == ASSUME EnvOK PROVE GoodMark(NoMark)
<1>1. Leg(<<>>, 0) /\ EndOf(<<>>, 0) = 0
  BY EmptyLeg
<1>2. NoMark.main = <<>> /\ NoMark.early = <<>> /\ NoMark.fence = -1 /\ Start(NoMark) = 0
  BY DEF NoMark, Start
<1> QED BY <1>1, <1>2, EnvNumbers DEF GoodMark

LEMMA MarkOfGood ==
  ASSUME EnvOK, MarksOK, Marked, NEW rev
  PROVE  MarkOf(rev) \in Marks /\ GoodMark(MarkOf(rev))
         /\ (MarkOf(rev) # NoMark => rev \in DOMAIN marks /\ MarkOf(rev) = marks[rev])
BY MarkType, NoMarkGood DEF MarkOf, MarksOK, Marked

LEMMA EntryType ==
  ASSUME NEW r \in CaptureRecords, r.end = r.start + Width[r.val]
  PROVE  /\ Entry(r) \in Records /\ Entry(r).start = r.start /\ Entry(r).end = r.end
         /\ Entry(r).val = r.val /\ r.start \in Nat /\ r.end \in Nat /\ r.start < r.end
         /\ r.rev \in Revisions
<1>1. r.val \in Payloads /\ r.start \in Nat /\ r.end \in Nat /\ r.rev \in Revisions
  BY DEF CaptureRecords
<1>2. Width[r.val] \in Nat \ {0}
  BY <1>1, WidthAssumption
<1> QED BY <1>1, <1>2 DEF Entry, Records

FenceNow(r) == IF ses.rev = r.rev THEN ses.origin.fence ELSE -1

\* The two ways in which a watermark grows.
EarlyGrows(m, r, n) ==
    /\ n.early = Append(m.early, Entry(r)) /\ n.main = m.main
    /\ r.start = EarlyEnd(m) /\ EarlyEnd(n) = r.end /\ r.end <= n.fence
    /\ Range(n.early) = Range(m.early) \union {Entry(r)}
MainGrows(m, r, n) ==
    /\ n.early = m.early /\ n.main = Append(m.main, Entry(r))
    /\ r.start = (IF m = NoMark /\ n.fence >= 0 THEN n.fence ELSE MainEnd(m))
    /\ MainEnd(n) = r.end
    /\ Range(n.main) = Range(m.main) \union {Entry(r)}

\* What a watermark becomes by a record, leg by leg.
LEMMA ExtendedGood ==
  ASSUME EnvOK, ses \in Sessions, ses.origin.fence <= env.bytes,
         NEW m \in Marks, GoodMark(m),
         NEW r \in CaptureRecords, r.end = r.start + Width[r.val], MayExtend(m, r),
         NEW n, n = Extended(m, r, FenceNow(r))
  PROVE  /\ n \in Marks /\ GoodMark(n) /\ n.fence = FenceNow(r) /\ n # NoMark
         /\ n.early # <<>> \/ n.main # <<>>
         /\ m = NoMark \/ (m.fence = n.fence /\ Start(n) = Start(m))
         /\ EarlyGrows(m, r, n) \/ MainGrows(m, r, n)
         /\ EarlyGrows(m, r, n) => import_scope(ses, r.start, r.end) = r.scope
<1> DEFINE fence == FenceNow(r)
           base == [m EXCEPT !.fence = fence]
<1>1. fence \in Nat \union {-1} /\ fence <= env.bytes
  BY EnvNumbers DEF FenceNow, Sessions, Origins
<1> HIDE DEF fence
<1>2. /\ base \in Marks /\ base.fence = fence /\ base.main = m.main /\ base.early = m.early
      /\ m.fence \in Nat \union {-1} /\ m.main \in Seq(Records) /\ m.early \in Seq(Records)
  BY <1>1 DEF Marks
<1> HIDE DEF base
<1>3. /\ ~Covered(m, r)
      /\ m = NoMark \/ m.fence = fence
      /\ IF fence >= 0 /\ r.end <= fence
         THEN r.start = EarlyEnd(m)
         ELSE r.start = (IF m = NoMark /\ fence >= 0 THEN fence ELSE MainEnd(m))
      /\ fence >= 0 => import_scope(ses, r.start, r.end) = r.scope
  BY DEF MayExtend, fence, FenceNow
<1>4. Leg(base.early, 0) /\ Leg(m.main, Start(m))
  BY <1>2 DEF GoodMark
<1>5. Leg(base.main, Start(base)) /\ Start(base) \in Nat
      /\ MainEnd(base) = (IF m = NoMark /\ fence >= 0 THEN fence ELSE MainEnd(m))
      /\ (m = NoMark \/ Start(base) = Start(m))
  <2>1. Start(base) \in Nat
    BY <1>1, <1>2 DEF Start
  <2>2. CASE m = NoMark
    <3>1. base.main = <<>> /\ MainEnd(m) = 0
      BY <2>2, <1>2, NoMarkType DEF NoMark
    <3>2. Leg(<<>>, Start(base)) /\ EndOf(<<>>, Start(base)) = Start(base)
      BY <2>1, EmptyLeg
    <3> QED BY <2>1, <2>2, <3>1, <3>2, <1>1, <1>2 DEF MainEnd, Start
  <2>3. CASE m # NoMark
    <3>1. m.fence = fence
      BY <2>3, <1>3
    <3>2. Start(base) = Start(m)
      BY <3>1, <1>2 DEF Start
    <3> QED BY <2>1, <2>3, <3>2, <1>2, <1>4 DEF MainEnd
  <2> QED BY <2>2, <2>3
<1>6. base.early = m.early /\ EarlyEnd(base) = EarlyEnd(m) /\ (fence < 0 => base.early = <<>>)
      /\ (fence >= 0 => EarlyEnd(base) <= fence)
  <2>1. EarlyEnd(base) = EarlyEnd(m)
    BY <1>2 DEF EarlyEnd
  <2>2. CASE m = NoMark
    BY <2>1, <2>2, <1>1, <1>2, NoMarkType DEF NoMark
  <2>3. CASE m # NoMark
    BY <2>1, <2>3, <1>2, <1>3 DEF GoodMark
  <2> QED BY <1>2, <2>1, <2>2, <2>3
<1>7. Entry(r) \in Records /\ Entry(r).start = r.start /\ Entry(r).end = r.end
      /\ Entry(r).val = r.val /\ r.start < r.end /\ r.start \in Nat /\ r.end \in Nat
  BY EntryType
<1>8. CASE fence >= 0 /\ r.end <= fence
  <2>1. n = [base EXCEPT !.early = Append(base.early, Entry(r))]
    BY <1>8, <1>2 DEF Extended, base, fence
  <2>2. n \in Marks /\ n.fence = fence /\ n.main = m.main /\ n.early = Append(m.early, Entry(r))
    <3>0. m.early \in Seq(Records) /\ Entry(r) \in Records
      BY <1>2, <1>7
    <3>1. PICK leg \in Seq(Records) : leg = Append(m.early, Entry(r))
      BY <3>0, AppendProperties, Zenon
    <3>2. n = [base EXCEPT !.early = leg]
      BY <3>1, <2>1, <1>2
    <3> QED BY <3>1, <3>2, <1>2 DEF Marks
  <2>3. r.start = EarlyEnd(m)
    BY <1>3, <1>8
  <2>4. Continues(m.early, 0, Entry(r))
    BY <1>2, <1>7, <2>3 DEF Continues, EarlyEnd
  <2>5. Leg(m.early, 0)
    BY <1>2, <1>4
  <2>6. /\ Leg(n.early, 0) /\ EndOf(n.early, 0) = Entry(r).end
        /\ Range(n.early) = Range(m.early) \union {Entry(r)} /\ n.early # <<>>
    BY <2>2, <2>4, <2>5, LegGrowsFromZero
  <2>7. Start(n) = Start(base) /\ EarlyEnd(n) = r.end
    BY <2>2, <2>6, <1>2, <1>7 DEF Start, EarlyEnd
  <2>8. GoodMark(n)
    BY <2>2, <2>6, <2>7, <1>1, <1>2, <1>5, <1>8 DEF GoodMark
  <2>9. n # NoMark
    BY <2>6 DEF NoMark
  <2>10. EarlyGrows(m, r, n)
    BY <2>2, <2>3, <2>6, <2>7, <1>8 DEF EarlyGrows
  <2> QED BY <2>2, <2>6, <2>7, <2>8, <2>9, <2>10, <1>3, <1>5, <1>8 DEF fence
<1>9. CASE ~(fence >= 0 /\ r.end <= fence)
  <2>1. n = [base EXCEPT !.main = Append(base.main, Entry(r))]
    BY <1>9, <1>2 DEF Extended, base, fence
  <2>2. n \in Marks /\ n.fence = fence /\ n.early = m.early /\ n.main = Append(m.main, Entry(r))
    <3>0. m.main \in Seq(Records) /\ Entry(r) \in Records
      BY <1>2, <1>7
    <3>1. PICK leg \in Seq(Records) : leg = Append(m.main, Entry(r))
      BY <3>0, AppendProperties, Zenon
    <3>2. n = [base EXCEPT !.main = leg]
      BY <3>1, <2>1, <1>2
    <3> QED BY <3>1, <3>2, <1>2 DEF Marks
  <2>3. r.start = MainEnd(base)
    BY <1>3, <1>5, <1>9
  <2>4. Continues(base.main, Start(base), Entry(r))
    BY <1>7, <2>3 DEF Continues, MainEnd
  <2>5. /\ Leg(n.main, Start(base)) /\ EndOf(n.main, Start(base)) = Entry(r).end
        /\ Range(n.main) = Range(m.main) \union {Entry(r)} /\ n.main # <<>>
    BY <1>2, <1>5, <2>2, <2>4, LegGrows
  <2>6. Start(n) = Start(base)
    BY <2>2, <1>2 DEF Start
  <2>7. MainEnd(n) = r.end /\ EarlyEnd(n) = EarlyEnd(base)
    BY <2>2, <2>5, <2>6, <1>2, <1>7 DEF MainEnd, EarlyEnd
  <2>8. GoodMark(n)
    BY <2>2, <2>5, <2>6, <2>7, <1>1, <1>2, <1>4, <1>6 DEF GoodMark
  <2>9. n # NoMark
    BY <2>5 DEF NoMark
  <2>10. MainGrows(m, r, n)
    BY <2>2, <2>3, <2>5, <2>7, <1>2, <1>5 DEF MainGrows
  <2>11. ~EarlyGrows(m, r, n)
    <3>1. Len(n.main) = Len(m.main) + 1 /\ Len(m.main) \in Nat
      BY <2>2, <1>2, <1>7
    <3> QED BY <3>1 DEF EarlyGrows
  <2> QED BY <2>2, <2>5, <2>6, <2>8, <2>9, <2>10, <2>11, <1>3, <1>5 DEF fence
<1> QED BY <1>8, <1>9

LEMMA TakenMarks ==
  ASSUME EnvOK, Store, NEW k \in 1..Len(spool), Takes(k), NEW r, r = spool[k]
  PROVE  /\ MarksOK' /\ r \in CaptureRecords /\ r.end = r.start + Width[r.val]
         /\ \A rev : rev # r.rev => MarkOf(rev)' = MarkOf(rev)
         /\ DOMAIN marks \subseteq DOMAIN marks'
         /\ \A rev \in DOMAIN marks' : rev # r.rev => rev \in DOMAIN marks /\ marks'[rev] = marks[rev]
         /\ \/ marks' = marks /\ (Discarded(r) \/ Replayed(MarkOf(r.rev), r))
            \/ /\ MayExtend(MarkOf(r.rev), r) /\ r.rev \in DOMAIN marks'
               /\ marks'[r.rev] = Extended(MarkOf(r.rev), r, FenceNow(r))
               /\ MarkOf(r.rev)' = Extended(MarkOf(r.rev), r, FenceNow(r))
<1>0. r \in CaptureRecords /\ r.end = r.start + Width[r.val] /\ r.rev \in Revisions
  <2>1. r \in CaptureRecords
    BY DEF Store, Types
  <2> QED BY <2>1 DEF Store, Captured, CaptureRecords
<1>1. CASE marks' = marks /\ (Discarded(r) \/ Replayed(MarkOf(r.rev), r))
  BY <1>0, <1>1 DEF Store, Types, MarksOK, MarkOf
<1>2. CASE ~Replayed(MarkOf(r.rev), r) /\ MayExtend(MarkOf(r.rev), r) /\ Committed(r)
  <2> DEFINE m == MarkOf(r.rev)
             n == Extended(m, r, FenceNow(r))
  <2>1. m \in Marks /\ GoodMark(m)
    BY MarkOfGood DEF Store, Types
  <2>2. n \in Marks
    BY <1>0, <1>2, <2>1, ExtendedGood DEF Store, Types, Bounded
  <2>3. /\ ~Replayed(m, r)
        /\ marks' = [rev \in DOMAIN marks \union {r.rev} |->
                       IF rev = r.rev
                       THEN Extended(MarkOf(rev), r, IF ses.rev = rev THEN ses.origin.fence ELSE -1)
                       ELSE marks[rev]]
    BY <1>2 DEF Committed
  <2>4. /\ DOMAIN marks' = DOMAIN marks \union {r.rev}
        /\ marks'[r.rev] = n
        /\ \A rev \in DOMAIN marks : rev # r.rev => marks'[rev] = marks[rev]
        /\ marks' = [rev \in DOMAIN marks' |-> marks'[rev]]
    BY <2>3 DEF FenceNow
  <2> HIDE DEF n
  <2>5. MarksOK'
    <3>1. DOMAIN marks' \subseteq Revisions
      BY <2>4, <1>0 DEF Store, Types, MarksOK
    <3>2. \A rev \in DOMAIN marks' : marks'[rev] \in Marks
      BY <2>2, <2>4 DEF Store, Types, MarksOK
    <3> QED BY <2>4, <3>1, <3>2 DEF MarksOK
  <2>6. \A rev : rev # r.rev => MarkOf(rev)' = MarkOf(rev)
    BY <2>4 DEF MarkOf
  <2>7. MarkOf(r.rev)' = n
    BY <2>4 DEF MarkOf
  <2> QED BY <1>0, <1>2, <2>4, <2>5, <2>6, <2>7 DEF n
<1> QED BY <1>1, <1>2 DEF Takes

LEMMA QuietKeepsStore ==
  ASSUME EnvOK, Store, Fixed, Quiet
  PROVE  Store'
<1>1. /\ ses' = ses /\ marks' = marks /\ spool' = spool /\ env'.mixed = env.mixed
      /\ host'.kind = host.kind /\ env'.bytes = env.bytes /\ env'.bad = env.bad
      /\ env'.versions = env.versions
  BY DEF Quiet, Fixed, EnvKept
<1>2. /\ FileOK(file') /\ Later(ses.fp, file') /\ file'.id <= env.versions
      /\ Size(file') <= env.bytes
  <2>1. CASE file' = file
    BY <2>1 DEF Store, Types, Bounded
  <2>2. CASE FileMoves
    <3>1. FileOK(file) /\ FileOK(ses.fp) /\ Later(ses.fp, file) /\ Later(file, file')
      BY <2>2 DEF FileMoves, Store, Types, Bounded
    <3>2. FileOK(file')
      BY <2>2 DEF FileMoves
    <3>3. /\ file.id \in Nat /\ ses.fp.id \in Nat /\ file'.id \in Nat
          /\ Size(file) \in Nat /\ Size(ses.fp) \in Nat /\ Size(file') \in Nat
      BY <3>1, <3>2, FileSize
    <3>4. Later(ses.fp, file')
      BY <3>1, <3>3 DEF Later
    <3> QED BY <2>2, <3>4 DEF FileMoves
  <2> QED BY <2>1, <2>2 DEF Quiet
<1>3. Types'
  BY <1>1, <1>2 DEF Store, Types, MarksOK
<1>4. Bounded'
  BY <1>1, <1>2 DEF Store, Bounded
<1>5. Revised'
  BY <1>1 DEF Store, Revised
<1>6. Captured'
  BY <1>1 DEF Store, Captured, Readable
<1>7. \A rev : MarkOf(rev)' = MarkOf(rev)
  BY <1>1, MarkOfKept
<1>8. Marked'
  BY <1>1, <1>7 DEF Store, Marked, GoodMark
<1>9. HistoryNeedsApproval'
  BY <1>1, <1>7 DEF Store, HistoryNeedsApproval
<1> QED BY <1>3, <1>4, <1>5, <1>6, <1>8, <1>9 DEF Store

LEMMA ToldKeepsStore ==
  ASSUME EnvOK, Store, Fixed, Told
  PROVE  Store'
<1>1. /\ ses' \in Sessions /\ marks' = marks /\ spool' = spool /\ env'.mixed = env.mixed
      /\ host'.kind = host.kind /\ env'.bytes = env.bytes /\ env'.bad = env.bad
      /\ env'.versions = env.versions /\ file' = file
      /\ (ses.access # "none" => ses'.access # "none")
  BY DEF Told, Fixed, EnvKept
<1>2. ses'.rev = ses.rev /\ ses'.fp = ses.fp /\ ses'.kind = ses.kind /\ ses'.origin = ses.origin
  BY SameMetadata DEF Told
<1>3. Types'
  BY <1>1, <1>2 DEF Store, Types, MarksOK
<1>4. Bounded'
  BY <1>1, <1>2 DEF Store, Bounded
<1>5. Revised'
  BY <1>1, <1>2 DEF Store, Revised
<1>6. Captured'
  BY <1>1, <1>2 DEF Store, Captured, Readable
<1>7. \A rev : MarkOf(rev)' = MarkOf(rev)
  BY <1>1, MarkOfKept
<1>8. Marked'
  BY <1>1, <1>2, <1>7 DEF Store, Marked, GoodMark
<1>9. HistoryNeedsApproval'
  BY <1>1, <1>2, <1>7 DEF Store, HistoryNeedsApproval
<1> QED BY <1>3, <1>4, <1>5, <1>6, <1>8, <1>9 DEF Store

\* A revision known before a file goes on stays known before it.
LEMMA BeforeLater ==
  ASSUME NEW f, NEW g, FileOK(f), FileOK(g), Later(f, g), NEW rev \in Revisions
  PROVE  /\ Before(rev, f) => Before(rev, g)
         /\ rev = Fingerprint(f) /\ f # g => Before(rev, g)
         /\ Before(rev, g) => rev # Fingerprint(g)
<1>1. /\ f.id \in Nat /\ g.id \in Nat /\ Size(f) \in Nat /\ Size(g) \in Nat
  BY FileSize
<1>2. rev[1] \in Nat /\ rev[2] \in Nat
  BY DEF Revisions
<1>3. Fingerprint(f)[1] = f.id /\ Fingerprint(f)[2] = Size(f)
      /\ Fingerprint(g)[1] = g.id /\ Fingerprint(g)[2] = Size(g)
  BY DEF Fingerprint
<1> QED BY <1>1, <1>2, <1>3 DEF Before, Later

LEMMA LookedKeepsStore ==
  ASSUME EnvOK, Store, Fixed, Looked
  PROVE  Store'
<1>1. /\ ses' \in Sessions /\ marks' = marks /\ spool' = spool
      /\ host'.kind = host.kind /\ env'.bytes = env.bytes /\ env'.bad = env.bad
      /\ env'.versions = env.versions /\ file' = file
      /\ ses'.kind \in {host.kind, "Unavailable"} /\ ses'.origin.fence <= env.bytes
  BY DEF Looked, Fixed, EnvKept
<1>2. /\ FileOK(file) /\ FileOK(ses.fp) /\ ses \in Sessions /\ ses.rev \in Revisions
      /\ ses'.rev \in Revisions
  BY <1>1 DEF Store, Types, Sessions
<1>3. /\ file.id \in Nat /\ ses.fp.id \in Nat /\ Size(file) \in Nat /\ Size(ses.fp) \in Nat
  BY <1>2, FileSize
<1>4. ses'.fp = ses.fp \/ ses'.fp = file
  BY DEF Looked, SameRevision, OtherRevision
<1>5. FileOK(ses'.fp) /\ Later(ses.fp, ses'.fp) /\ Later(ses'.fp, file)
  BY <1>2, <1>3, <1>4 DEF Store, Bounded, Later
<1>6. Types'
  BY <1>1, <1>5 DEF Store, Types, MarksOK
<1>7. Bounded'
  BY <1>1, <1>4, <1>5 DEF Store, Bounded
<1>8. \A rev : MarkOf(rev)' = MarkOf(rev)
  BY <1>1, MarkOfKept
<1>9. /\ DOMAIN marks \subseteq Revisions
      /\ \A i \in 1..Len(spool) : spool[i] \in CaptureRecords /\ spool[i].rev \in Revisions
  <2>1. DOMAIN marks \subseteq Revisions /\ spool \in Seq(CaptureRecords)
    BY DEF Store, Types, MarksOK
  <2>2. \A i \in 1..Len(spool) : spool[i] \in CaptureRecords
    BY <2>1
  <2> QED BY <2>1, <2>2 DEF CaptureRecords
<1>10. \A rev \in Revisions : Before(rev, ses.fp) => Before(rev, ses'.fp)
  BY <1>2, <1>5, BeforeLater
<1>11. CASE SameRevision
  <2>1. ses'.rev = ses.rev /\ ses'.access = ses.access
    BY <1>11 DEF SameRevision
  <2>2. ses'.rev = Fingerprint(ses'.fp) \/ Before(ses'.rev, ses'.fp)
    <3>1. ses.rev = Fingerprint(ses.fp) \/ Before(ses.rev, ses.fp)
      BY DEF Store, Revised
    <3>2. CASE ses'.fp = ses.fp
      BY <2>1, <3>1, <3>2
    <3>3. CASE ses'.fp # ses.fp
      BY <1>2, <1>5, <2>1, <3>1, <3>3, BeforeLater
    <3> QED BY <3>2, <3>3
  <2>3. Revised'
    BY <1>1, <1>9, <1>10, <2>1, <2>2 DEF Store, Revised
  <2>4. Captured'
    <3>1. Size(ses.fp) <= Size(ses'.fp)
      BY <1>3, <1>11 DEF SameRevision
    <3>2. SUFFICES ASSUME NEW i \in 1..Len(spool), spool[i].rev = ses.rev
                   PROVE  /\ spool[i].end <= Size(ses'.fp)
                          /\ env'.mixed \/ Entry(spool[i]) \in Range(ses'.fp.recs)
      BY <1>1, <2>1 DEF Store, Captured, Readable
    <3>3. spool[i].end <= Size(ses.fp) /\ (env.mixed \/ Entry(spool[i]) \in Range(ses.fp.recs))
      BY <3>2 DEF Store, Captured
    <3>4. spool[i].end <= Size(ses'.fp)
      <4>1. spool[i].end \in Nat /\ Size(ses'.fp) \in Nat
        BY <1>5, <1>9, FileSize DEF CaptureRecords
      <4> QED BY <1>3, <3>1, <3>3, <4>1
    <3>5. CASE ses'.fp = ses.fp /\ env'.mixed = env.mixed
      BY <3>3, <3>4, <3>5
    <3>6. CASE env'.mixed = (env.mixed \/ Stranded(ses'))
      <4>1. i \in DOMAIN spool
        BY DEF Store, Types
      <4> QED BY <2>1, <3>2, <3>4, <3>6, <4>1 DEF Stranded
    <3> QED BY <3>5, <3>6 DEF Looked
  <2>5. Marked'
    BY <1>1, <1>8, <1>11, <2>1 DEF Store, Marked, GoodMark, SameRevision
  <2>6. HistoryNeedsApproval'
    BY <1>1, <1>8, <2>1 DEF Store, HistoryNeedsApproval
  <2> QED BY <1>6, <1>7, <2>3, <2>4, <2>5, <2>6 DEF Store
<1>12. CASE OtherRevision
  <2>1. ses'.rev # ses.rev /\ ses'.rev = Fingerprint(ses'.fp)
    BY <1>12 DEF OtherRevision
  <2>2. Before(ses.rev, ses'.fp)
    <3>1. ses.rev = Fingerprint(ses.fp) \/ Before(ses.rev, ses.fp)
      BY DEF Store, Revised
    <3>2. ses.fp = ses'.fp => ses.rev # Fingerprint(ses.fp)
      BY <2>1
    <3> QED BY <1>2, <1>5, <3>1, <3>2, BeforeLater
  <2>3. /\ \A rev \in DOMAIN marks : Before(rev, ses'.fp)
        /\ \A i \in 1..Len(spool) : Before(spool[i].rev, ses'.fp)
    BY <1>9, <1>10, <2>2 DEF Store, Revised
  <2>4. \A rev \in Revisions : Before(rev, ses'.fp) => rev # ses'.rev
    BY <1>5, <1>2, <2>1, BeforeLater
  <2>5. Revised'
    BY <1>1, <2>1, <2>3 DEF Revised
  <2>6. ses'.rev \notin DOMAIN marks /\ \A i \in 1..Len(spool) : spool[i].rev # ses'.rev
    BY <1>9, <2>3, <2>4
  <2>7. Captured'
    BY <1>1, <2>6 DEF Store, Captured, Readable
  <2>8. MarkOf(ses.rev)' = NoMark
    BY <1>1, <2>6 DEF MarkOf
  <2>9. Marked'
    BY <1>1, <2>8 DEF Store, Marked, GoodMark
  <2>10. HistoryNeedsApproval'
    BY <2>8 DEF HistoryNeedsApproval, NoMark
  <2> QED BY <1>6, <1>7, <2>5, <2>7, <2>9, <2>10 DEF Store
<1> QED BY <1>11, <1>12 DEF Looked

LEMMA CaptureKeepsStore ==
  ASSUME EnvOK, Store, Fixed, NEW r \in CaptureRecords, CapturesOne(r)
  PROVE  Store'
<1>1. /\ ses' = ses /\ marks' = marks /\ file' = file /\ env'.mixed = env.mixed
      /\ host'.kind = host.kind /\ env'.bytes = env.bytes /\ env'.bad = env.bad
      /\ env'.versions = env.versions /\ spool' = Append(spool, r)
  BY DEF CapturesOne, Fixed, EnvKept
<1>2. spool \in Seq(CaptureRecords)
  BY DEF Store, Types
<1>3. /\ spool' \in Seq(CaptureRecords) /\ Len(spool') = Len(spool) + 1 /\ Len(spool) \in Nat
      /\ \A i \in 1..Len(spool') : IF i = Len(spool) + 1 THEN spool'[i] = r
                                   ELSE i \in 1..Len(spool) /\ spool'[i] = spool[i]
  BY <1>1, <1>2
<1>4. /\ r.rev = ses.rev /\ r.end = r.start + Width[r.val] /\ Readable(r.val)
      /\ r.end <= Size(ses.fp) /\ Entry(r) \in Range(ses.fp.recs)
  BY DEF CapturesOne
<1>5. Types'
  BY <1>1, <1>3 DEF Store, Types, MarksOK
<1>6. Bounded'
  BY <1>1 DEF Store, Bounded
<1>7. Revised'
  <2>1. \A i \in 1..Len(spool') : spool'[i].rev = ses.rev \/ Before(spool'[i].rev, ses.fp)
    BY <1>3, <1>4 DEF Store, Revised
  <2> QED BY <1>1, <2>1 DEF Store, Revised
<1>8. Captured'
  <2>1. r.end <= env.bytes
    <3>1. Size(ses.fp) \in Nat /\ r.end \in Nat /\ env.bytes \in Nat
      BY FileSize, EnvNumbers DEF Store, Types, CaptureRecords
    <3> QED BY <1>4, <3>1 DEF Store, Bounded
  <2>2. SUFFICES ASSUME NEW i \in 1..Len(spool')
                 PROVE  /\ spool'[i].end = spool'[i].start + Width[spool'[i].val]
                        /\ spool'[i].end <= env.bytes /\ Readable(spool'[i].val)
                        /\ spool'[i].rev = ses.rev =>
                             spool'[i].end <= Size(ses.fp)
                             /\ (env.mixed \/ Entry(spool'[i]) \in Range(ses.fp.recs))
    BY <1>1 DEF Captured, Readable
  <2>3. CASE i = Len(spool) + 1
    BY <1>3, <1>4, <2>1, <2>3
  <2>4. CASE i # Len(spool) + 1
    <3>1. i \in 1..Len(spool) /\ spool'[i] = spool[i]
      BY <1>3, <2>4
    <3> QED BY <3>1 DEF Store, Captured
  <2> QED BY <2>3, <2>4
<1>9. \A rev : MarkOf(rev)' = MarkOf(rev)
  BY <1>1, MarkOfKept
<1>10. Marked'
  BY <1>1, <1>9 DEF Store, Marked, GoodMark
<1>11. HistoryNeedsApproval'
  BY <1>1, <1>9 DEF Store, HistoryNeedsApproval
<1> QED BY <1>5, <1>6, <1>7, <1>8, <1>10, <1>11 DEF Store

LEMMA TakeKeepsStore ==
  ASSUME EnvOK, Store, Fixed, NEW k \in 1..Len(spool), Takes(k)
  PROVE  Store'
<1>1. /\ ses' = ses /\ file' = file /\ env'.mixed = env.mixed
      /\ host'.kind = host.kind /\ env'.bytes = env.bytes /\ env'.bad = env.bad
      /\ env'.versions = env.versions /\ spool' \in Seq(CaptureRecords) /\ Without(spool, spool', k)
  BY DEF Takes, Fixed, EnvKept
<1>2. spool \in Seq(CaptureRecords) /\ Len(spool) \in Nat /\ Len(spool') = Len(spool) - 1
  BY <1>1 DEF Store, Types, Without
<1>3. \A j \in 1..Len(spool') : \E i \in 1..Len(spool) : spool'[j] = spool[i]
  <2> TAKE j \in 1..Len(spool')
  <2>1. CASE j < k
    <3>1. j \in 1..Len(spool) /\ spool'[j] = spool[j]
      BY <1>1, <1>2, <2>1 DEF Without
    <3> QED BY <3>1
  <2>2. CASE ~(j < k)
    <3>1. j + 1 \in 1..Len(spool) /\ spool'[j] = spool[j + 1]
      BY <1>1, <1>2, <2>2 DEF Without
    <3> QED BY <3>1
  <2> QED BY <2>1, <2>2
<1>r. PICK r : r = spool[k]
  OBVIOUS
<1>m. PICK m : m = MarkOf(r.rev)
  OBVIOUS
<1>n. PICK n : n = Extended(m, r, FenceNow(r))
  OBVIOUS
<1>4. /\ MarksOK' /\ r \in CaptureRecords /\ r.end = r.start + Width[r.val]
      /\ \A rev : rev # r.rev => MarkOf(rev)' = MarkOf(rev)
      /\ \A rev \in DOMAIN marks' : rev # r.rev => rev \in DOMAIN marks /\ marks'[rev] = marks[rev]
      /\ \/ marks' = marks
         \/ MayExtend(m, r) /\ marks'[r.rev] = n /\ MarkOf(r.rev)' = n
  BY <1>r, <1>m, <1>n, TakenMarks
<1>5. m \in Marks /\ GoodMark(m)
  BY <1>m, MarkOfGood DEF Store, Types
<1>6. marks' # marks =>
        /\ n \in Marks /\ GoodMark(n) /\ n.fence = FenceNow(r) /\ n # NoMark
        /\ n.early # <<>> \/ n.main # <<>>
        /\ \/ r.end <= n.fence /\ import_scope(ses, r.start, r.end) = r.scope
           \/ n.early = m.early
  <2> SUFFICES ASSUME marks' # marks
               PROVE  /\ n \in Marks /\ GoodMark(n) /\ n.fence = FenceNow(r) /\ n # NoMark
                      /\ n.early # <<>> \/ n.main # <<>>
                      /\ \/ r.end <= n.fence /\ import_scope(ses, r.start, r.end) = r.scope
                         \/ n.early = m.early
    OBVIOUS
  <2>1. MayExtend(m, r) /\ ses \in Sessions /\ ses.origin.fence <= env.bytes
    BY <1>4 DEF Store, Types, Bounded
  <2>2. /\ n \in Marks /\ GoodMark(n) /\ n.fence = FenceNow(r) /\ n # NoMark
        /\ n.early # <<>> \/ n.main # <<>>
        /\ EarlyGrows(m, r, n) \/ MainGrows(m, r, n)
        /\ EarlyGrows(m, r, n) => import_scope(ses, r.start, r.end) = r.scope
    BY <1>n, <1>4, <1>5, <2>1, ExtendedGood
  <2> QED BY <2>2 DEF EarlyGrows, MainGrows
<1>7. Types'
  BY <1>1, <1>4 DEF Store, Types
<1>8. Bounded'
  BY <1>1 DEF Store, Bounded
<1>9. Revised'
  <2>1. r.rev = ses.rev \/ Before(r.rev, ses.fp)
    BY <1>r DEF Store, Revised
  <2>2. \A rev \in DOMAIN marks' : rev = ses.rev \/ Before(rev, ses.fp)
    BY <1>4, <2>1 DEF Store, Revised
  <2>3. \A j \in 1..Len(spool') : spool'[j].rev = ses.rev \/ Before(spool'[j].rev, ses.fp)
    BY <1>3 DEF Store, Revised
  <2> QED BY <1>1, <2>2, <2>3 DEF Store, Revised
<1>10. Captured'
  <2>1. SUFFICES ASSUME NEW j \in 1..Len(spool')
                 PROVE  /\ spool'[j].end = spool'[j].start + Width[spool'[j].val]
                        /\ spool'[j].end <= env.bytes /\ Readable(spool'[j].val)
                        /\ spool'[j].rev = ses.rev =>
                             spool'[j].end <= Size(ses.fp)
                             /\ (env.mixed \/ Entry(spool'[j]) \in Range(ses.fp.recs))
    BY <1>1 DEF Captured, Readable
  <2>2. PICK i \in 1..Len(spool) : spool'[j] = spool[i]
    BY <1>3
  <2> QED BY <2>2 DEF Store, Captured
<1>11. CASE marks' = marks
  <2>1. \A rev : MarkOf(rev)' = MarkOf(rev)
    BY <1>11, MarkOfKept
  <2>2. Marked'
    BY <1>1, <1>11, <2>1 DEF Store, Marked, GoodMark
  <2>3. HistoryNeedsApproval'
    BY <1>1, <2>1 DEF Store, HistoryNeedsApproval
  <2> QED BY <1>7, <1>8, <1>9, <1>10, <2>2, <2>3 DEF Store
<1>12. CASE marks' # marks
  <2>0. MarkOf(r.rev)' = n /\ marks'[r.rev] = n
    BY <1>4, <1>12
  <2>1. \A x : GoodMark(x)' <=> GoodMark(x)
    BY <1>1 DEF GoodMark
  <2>2. Marked'
    <3>1. ASSUME NEW rev \in DOMAIN marks'
          PROVE  /\ marks'[rev].early # <<>> \/ marks'[rev].main # <<>>
                 /\ GoodMark(marks'[rev])
      <4>1. CASE rev = r.rev
        BY <4>1, <2>0, <1>6, <1>12
      <4>2. CASE rev # r.rev
        BY <4>2, <1>4 DEF Store, Marked
      <4> QED BY <4>1, <4>2
    <3>2. MarkOf(ses.rev)' # NoMark => (MarkOf(ses.rev)').fence = ses.origin.fence
      <4>1. CASE ses.rev = r.rev
        <5>1. MarkOf(ses.rev)' = n
          BY <1>1, <2>0, <4>1 DEF MarkOf
        <5> QED BY <4>1, <5>1, <1>6, <1>12 DEF FenceNow
      <4>2. CASE ses.rev # r.rev
        <5>1. MarkOf(ses.rev)' = MarkOf(ses.rev)
          BY <1>1, <1>4, <4>2 DEF MarkOf
        <5> QED BY <5>1 DEF Store, Marked
      <4> QED BY <4>1, <4>2
    <3> QED BY <1>1, <2>1, <3>1, <3>2 DEF Marked
  <2>3. HistoryNeedsApproval'
    <3>1. CASE ses.rev = r.rev
      <4>1. MarkOf(ses.rev)' = n /\ MarkOf(ses.rev) = m
        BY <1>m, <1>1, <2>0, <3>1 DEF MarkOf
      <4>2. CASE n.early = m.early
        BY <1>1, <4>1, <4>2 DEF Store, HistoryNeedsApproval
      <4>3. CASE r.end <= n.fence /\ import_scope(ses, r.start, r.end) = r.scope
        <5>1. n.fence = ses.origin.fence /\ n.fence \in Int
          BY <1>6, <1>12, <3>1 DEF FenceNow, Store, Types, Sessions, Origins
        <5>2. r.start < r.end /\ r.start \in Nat /\ r.end \in Nat
              /\ r.scope \in {"repository", "origin", "unscoped"}
          BY <1>4, EntryType DEF CaptureRecords
        <5>3. ses.kind = "Repository" \/ ses.access = "Approved"
          BY <4>3, <5>1, <5>2 DEF import_scope
        <5> QED BY <1>1, <5>3 DEF Store, Types, HistoryNeedsApproval
      <4> QED BY <4>2, <4>3, <1>6, <1>12
    <3>2. CASE ses.rev # r.rev
      <4>1. MarkOf(ses.rev)' = MarkOf(ses.rev)
        BY <1>1, <1>4, <3>2 DEF MarkOf
      <4> QED BY <1>1, <4>1 DEF Store, HistoryNeedsApproval
    <3> QED BY <3>1, <3>2
  <2> QED BY <1>7, <1>8, <1>9, <1>10, <2>2, <2>3 DEF Store
<1> QED BY <1>11, <1>12

LEMMA StepKeepsStore ==
  ASSUME EnvOK, Store, Fixed, StoreStep
  PROVE  Store'
BY QuietKeepsStore, ToldKeepsStore, LookedKeepsStore, CaptureKeepsStore, TakeKeepsStore DEF StoreStep
-----------------------------------------------------------------------------
(* The operators of the worker.                                              *)

LEMMA RemovedGives ==
  ASSUME NEW S, NEW s \in Seq(S), NEW k \in 1..Len(s)
  PROVE  RemoveAt(s, k) \in Seq(S) /\ Without(s, RemoveAt(s, k), k)
<1> DEFINE n == Len(s)
           a == SubSeq(s, 1, k - 1)
           b == SubSeq(s, k + 1, n)
<1>0. n \in Nat /\ k \in 1..n /\ \A i \in 1..n : s[i] \in S
  OBVIOUS
<1>1. /\ a \in Seq(S) /\ Len(a) = k - 1
      /\ \A i \in 1..(k - 1) : a[i] = s[i]
  <2>1. \A i \in 1..(k - 1) : s[i] \in S
    BY <1>0
  <2> QED BY <1>0, <2>1, SubSeqProperties
<1>2. /\ b \in Seq(S) /\ Len(b) = n - k
      /\ \A i \in 1..(n - k) : b[i] = s[k + i]
  <2>1. \A i \in (k + 1)..n : s[i] \in S
    BY <1>0
  <2> QED BY <1>0, <2>1, SubSeqProperties
<1> HIDE DEF a, b, n
<1>3. /\ a \o b \in Seq(S) /\ Len(a \o b) = n - 1
      /\ \A i \in 1..(n - 1) : (a \o b)[i] = IF i <= k - 1 THEN a[i] ELSE b[i - (k - 1)]
  <2>1. a \in Seq(S) /\ b \in Seq(S)
    BY <1>1, <1>2
  <2>2. /\ a \o b \in Seq(S) /\ Len(a \o b) = Len(a) + Len(b)
        /\ \A i \in 1..(Len(a) + Len(b)) :
              (a \o b)[i] = IF i <= Len(a) THEN a[i] ELSE b[i - Len(a)]
    BY <2>1, ConcatProperties
  <2>3. Len(a) = k - 1 /\ Len(a) + Len(b) = n - 1
    BY <1>0, <1>1, <1>2
  <2> QED BY <2>2, <2>3
<1>4. \A i \in 1..(n - 1) : (a \o b)[i] = s[IF i < k THEN i ELSE i + 1]
  <2> TAKE i \in 1..(n - 1)
  <2>1. CASE i < k
    <3>1. i \in 1..(k - 1) /\ (a \o b)[i] = a[i]
      BY <1>0, <1>3, <2>1
    <3> QED BY <1>1, <2>1, <3>1
  <2>2. CASE ~(i < k)
    <3>1. i - (k - 1) \in 1..(n - k) /\ (a \o b)[i] = b[i - (k - 1)] /\ k + (i - (k - 1)) = i + 1
      BY <1>0, <1>3, <2>2
    <3> QED BY <1>2, <2>2, <3>1
  <2> QED BY <2>1, <2>2
<1>5. RemoveAt(s, k) = a \o b
  BY DEF RemoveAt, a, b, n
<1> QED BY <1>3, <1>4, <1>5 DEF Without, n

LEMMA TailGives ==
  ASSUME NEW S, NEW s \in Seq(S), s # <<>>
  PROVE  /\ Tail(s) \in Seq(S) /\ Without(s, Tail(s), 1) /\ Head(s) = s[1]
         /\ 1 \in 1..Len(s)
BY HeadTailProperties DEF Without

LEMMA GoesGives ==
  ASSUME WorkerOK, NEW r \in Runs, Goes(r)
  PROVE  w' \in [run : Runs, cache : Caches] /\ w'.run = r /\ w'.cache = w.cache
BY DEF Goes, WorkerOK

LEMMA TouchedGives ==
  ASSUME WorkerOK, Touched
  PROVE  /\ WorkerOK' /\ w'.cache = w.cache
         /\ w'.run.pc = w.run.pc /\ w'.run.ctx = w.run.ctx /\ w'.run.gate = w.run.gate
         /\ w'.run.mark = w.run.mark /\ w'.run.fresh = FALSE /\ w'.run.range = w.run.range
         /\ w'.run.got = w.run.got /\ w'.run.target = w.run.target
<1>1. w.run \in Runs /\ w.cache \in Caches
  BY DEF WorkerOK
<1>2. PICK r : r = [w.run EXCEPT !.fresh = FALSE]
  OBVIOUS
<1>3. /\ r \in Runs /\ r.pc = w.run.pc /\ r.ctx = w.run.ctx /\ r.gate = w.run.gate
      /\ r.mark = w.run.mark /\ r.fresh = FALSE /\ r.range = w.run.range
      /\ r.got = w.run.got /\ r.target = w.run.target
  BY <1>1, <1>2 DEF Runs
<1>4. w' = [w EXCEPT !.run = r]
  BY <1>2 DEF Touched
<1>5. w' \in [run : Runs, cache : Caches] /\ w'.run = r /\ w'.cache = w.cache
  BY <1>3, <1>4 DEF WorkerOK
<1> QED BY <1>3, <1>5 DEF WorkerOK

LEMMA RestGives ==
  ASSUME NEW c \in Caches, w' = [run |-> Rest, cache |-> c]
  PROVE  WorkerOK' /\ w'.run = Rest /\ w'.cache = c /\ w'.run.pc = "idle"
BY RunRest DEF WorkerOK

LEMMA StopGives ==
  ASSUME WorkerOK, Stop
  PROVE  WorkerOK' /\ w'.run = Rest /\ w'.cache = w.cache /\ w'.run.pc = "idle"
BY RunRest, GoesGives DEF Stop, WorkerOK

LEMMA EndTypes ==
  ASSUME NEW m \in Marks
  PROVE  MainEnd(m) \in Nat /\ EarlyEnd(m) \in Nat /\ Start(m) \in Nat
<1>1. Start(m) \in Nat /\ m.main \in Seq(Records) /\ m.early \in Seq(Records)
  BY DEF Marks, Start
<1>2. ASSUME NEW leg \in Seq(Records), NEW from \in Nat
      PROVE  EndOf(leg, from) \in Nat
  <2>1. CASE leg = <<>>
    BY <2>1 DEF EndOf
  <2>2. CASE leg # <<>>
    <3>1. leg[Len(leg)] \in Records
      BY <2>2
    <3> QED BY <2>2, <3>1 DEF EndOf, Last, Records
  <2> QED BY <2>1, <2>2
<1> QED BY <1>1, <1>2 DEF MainEnd, EarlyEnd

LEMMA FenceOfType ==
  ASSUME NEW s \in Sessions, NEW m \in Marks
  PROVE  FenceOf(s, m) \in Marks /\ FenceOf(s, m).main = m.main /\ FenceOf(s, m).early = m.early
         /\ FenceOf(s, m).fence = (IF m = NoMark /\ HasOrigin(s) THEN s.origin.fence ELSE m.fence)
BY DEF FenceOf, Sessions, Origins, Marks, HasOrigin

LEMMA RangesType ==
  ASSUME NEW s \in Sessions, FileOK(s.fp), NEW m \in Marks
  PROVE  import_ranges(s, m) \subseteq Ranges
<1>1. MainEnd(FenceOf(s, m)) \in Nat /\ EarlyEnd(FenceOf(s, m)) \in Nat
  BY FenceOfType, EndTypes
<1>2. Size(s.fp) \in Nat
  BY FileSize
<1>3. HasOrigin(s) => s.origin.fence \in Nat
  BY DEF HasOrigin, Sessions, Origins
<1> QED BY <1>1, <1>2, <1>3 DEF import_ranges, Ranges, RangeKinds
-----------------------------------------------------------------------------
(* What each action does to the store.                                       *)

Base == Outer /\ Store /\ Steady
Step == Outer' /\ StoreStep /\ Fixed

LEMMA EnvSame == ASSUME EnvOK, env' = env PROVE EnvOK' /\ EnvKept /\ env'.mixed = env.mixed
BY DEF EnvOK, EnvKept

LEMMA WorkerSame == ASSUME WorkerOK, w' = w PROVE WorkerOK'
BY DEF WorkerOK

LEMMA JobsTypes ==
  ASSUME jobs \in Seq(Jobs)
  PROVE  /\ <<>> \in Seq(Jobs) /\ Append(jobs, Queued) \in Seq(Jobs) /\ <<Leased>> \in Seq(Jobs)
         /\ [j \in DOMAIN jobs |-> Queued] \in Seq(Jobs)
         /\ \A j \in DOMAIN jobs : [jobs EXCEPT ![j] = Queued] \in Seq(Jobs)
         /\ \A j \in DOMAIN jobs :
              jobs[j].lease = "live" => [jobs EXCEPT ![j].lease = "expired"] \in Seq(Jobs)
<1>1. Queued \in Jobs /\ Leased \in Jobs /\ DOMAIN jobs = 1..Len(jobs) /\ Len(jobs) \in Nat
  BY DEF Jobs
<1>2. <<>> \in Seq(Jobs) /\ Append(jobs, Queued) \in Seq(Jobs) /\ <<Leased>> \in Seq(Jobs)
  BY <1>1
<1>3. [j \in DOMAIN jobs |-> Queued] \in Seq(Jobs)
  BY <1>1
<1>4. ASSUME NEW j \in DOMAIN jobs
      PROVE  /\ [jobs EXCEPT ![j] = Queued] \in Seq(Jobs)
             /\ jobs[j].lease = "live" => [jobs EXCEPT ![j].lease = "expired"] \in Seq(Jobs)
  <2>1. [jobs EXCEPT ![j] = Queued] \in Seq(Jobs)
    BY <1>1, <1>4
  <2>2. ASSUME jobs[j].lease = "live"
        PROVE  [jobs EXCEPT ![j].lease = "expired"] \in Seq(Jobs)
    <3>1. jobs[j] \in Jobs
      BY <1>1, <1>4
    <3>2. jobs[j] = Leased
      BY <2>2, <3>1 DEF Jobs, Queued, Leased
    <3>3. PICK x : x = [Leased EXCEPT !.lease = "expired"]
      OBVIOUS
    <3>4. x \in Jobs
      BY <3>3 DEF Jobs
    <3>5. [jobs EXCEPT ![j].lease = "expired"] = [jobs EXCEPT ![j] = x]
      BY <3>2, <3>3
    <3>6. [jobs EXCEPT ![j] = x] \in Seq(Jobs)
      BY <1>1, <1>4, <3>4
    <3> QED BY <3>5, <3>6
  <2> QED BY <2>1, <2>2
<1> QED BY <1>2, <1>3, <1>4

\* An action that leaves the session, the watermarks and the spool alone.
LEMMA QuietStep ==
  ASSUME Base, UNCHANGED <<ses, marks, spool>>, EnvOK', EnvKept, env'.mixed = env.mixed,
         file' = file \/ FileMoves,
         host' \in Hosts, host'.kind = host.kind, jobs' \in Seq(Jobs), gate' \in Gates, WorkerOK'
  PROVE  Step
<1>1. host'.kind \in env'.kinds
  BY DEF Base, Outer, EnvKept
<1> QED BY <1>1 DEF Step, Outer, StoreStep, Quiet, Fixed

LEMMA FileGrowsStep == ASSUME Base, FileGrows PROVE Step
<1>1. PICK v \in Payloads : file' = [file EXCEPT !.recs = Append(@, Line(Size(file), v))]
  BY DEF FileGrows
<1>2. FileOK(file) /\ file.id <= env.versions
  BY DEF Base, Store, Types, Bounded
<1>3. FileOK(file') /\ file'.id = file.id /\ Size(file) < Size(file')
  BY <1>1, <1>2, GrownFile
<1>4. FileMoves
  BY <1>2, <1>3 DEF FileMoves, Later, FileGrows
<1> QED BY <1>4, QuietStep, EnvSame, WorkerSame DEF Base, Outer, FileGrows

LEMMA FileReplacedStep == ASSUME Base, FileReplaced PROVE Step
<1>1. PICK v \in Payloads, u \in Payloads :
        \E recs \in {<<Line(0, v)>>, <<Line(0, v), Line(Width[v], u)>>} :
          file' = [id |-> file.id + 1, recs |-> recs]
  BY DEF FileReplaced
<1>2. PICK recs \in {<<Line(0, v)>>, <<Line(0, v), Line(Width[v], u)>>} :
        file' = [id |-> file.id + 1, recs |-> recs]
  BY <1>1
<1>3. file.id \in Nat \ {0}
  BY FileSize DEF Base, Store, Types
<1>4. file.id + 1 \in Nat \ {0} /\ file.id < file'.id
  BY <1>2, <1>3
<1>5. FileOK(file')
  BY <1>2, <1>4, FreshFile
<1>6. FileMoves
  BY <1>4, <1>5 DEF FileMoves, Later, FileReplaced
<1> QED BY <1>6, QuietStep, EnvSame, WorkerSame DEF Base, Outer, FileReplaced

LEMMA HostChangesStep == ASSUME Base, HostChanges PROVE Step
<1>1. EnvOK' /\ EnvKept /\ env'.mixed = env.mixed
  BY FaultKeeps DEF Base, Outer, HostChanges
<1>2. host' \in Hosts /\ host'.kind = host.kind
  BY DEF Base, Outer, Hosts, HostChanges
<1> QED BY <1>1, <1>2, QuietStep, WorkerSame DEF Base, Outer, HostChanges

LEMMA RepositoryPurgedStep == ASSUME Base, RepositoryPurged PROVE Step
<1>1. gate' \in Gates /\ jobs' \in Seq(Jobs)
  BY JobsTypes DEF Base, Outer, Gates, RepositoryPurged
<1> QED BY <1>1, QuietStep, EnvSame, WorkerSame DEF Base, Outer, RepositoryPurged

LEMMA LeaseExpiresStep == ASSUME Base, LeaseExpires PROVE Step
<1>1. jobs' \in Seq(Jobs)
  BY JobsTypes DEF Base, Outer, LeaseExpires
<1>2. EnvOK' /\ EnvKept /\ env'.mixed = env.mixed
  BY FaultKeeps, EnvSame DEF Base, Outer, LeaseExpires
<1> QED BY <1>1, <1>2, QuietStep, WorkerSame DEF Base, Outer, LeaseExpires

LEMMA RecoverLeaseStep == ASSUME Base, RecoverLease PROVE Step
<1>1. jobs' \in Seq(Jobs)
  BY JobsTypes DEF Base, Outer, RecoverLease
<1> QED BY <1>1, QuietStep, EnvSame, WorkerSame DEF Base, Outer, RecoverLease

LEMMA CrashStep == ASSUME Base, Crash PROVE Step
<1>1. EnvOK' /\ EnvKept /\ env'.mixed = env.mixed
  BY FaultKeeps DEF Base, Outer, Crash
<1>2. WorkerOK'
  BY RunRest, RestGives DEF Crash
<1> QED BY <1>1, <1>2, QuietStep DEF Base, Outer, Crash

\* The catalog's revision: the known one for the same or more bytes, else a new one.
LEMMA Reconciled ==
  ASSUME Base, NEW rev, rev = reconcile_source_revision(ses, file)
  PROVE  /\ rev \in Revisions
         /\ \/ rev = ses.rev /\ (file = ses.fp \/ Size(ses.fp) < Size(file))
            \/ rev # ses.rev /\ rev = Fingerprint(file) /\ ses.fp.id < file.id
<1>1. FileOK(file) /\ FileOK(ses.fp) /\ Later(ses.fp, file) /\ ses.rev \in Revisions
  BY DEF Base, Store, Types, Bounded, Sessions
<1>2. Size(file) \in Nat /\ Size(ses.fp) \in Nat /\ file.id \in Nat /\ ses.fp.id \in Nat
  BY <1>1, FileSize
<1>3. CASE file = ses.fp \/ Size(file) > Size(ses.fp)
  BY <1>1, <1>2, <1>3 DEF reconcile_source_revision
<1>4. CASE ~(file = ses.fp \/ Size(file) > Size(ses.fp))
  <2>1. rev = Fingerprint(file)
    BY <1>4 DEF reconcile_source_revision
  <2>2. ses.fp.id < file.id
    BY <1>1, <1>2, <1>4 DEF Later
  <2>3. ses.rev = Fingerprint(ses.fp) \/ Before(ses.rev, ses.fp)
    BY DEF Base, Store, Revised
  <2>4. ses.rev # Fingerprint(file)
    BY <1>1, <1>4, <2>3, BeforeLater
  <2> QED BY <1>1, <2>1, <2>2, <2>4, FingerprintType
<1> QED BY <1>3, <1>4

SameSource(m) ==
    /\ m.rev = ses.rev
    /\ m.fp = ses.fp \/ (m.fp = file /\ Size(ses.fp) < Size(file))
OtherSource(m) ==
    /\ m.rev # ses.rev /\ m.rev = Fingerprint(m.fp)
    /\ m.fp = ses.fp \/ (m.fp = file /\ ses.fp.id < file.id)

LEMMA SourceKnown ==
  ASSUME Base, NEW m
  PROVE  /\ SameSource(m) => ~SourceChanged(ses, m)
         /\ OtherSource(m) => SourceChanged(ses, m)
<1>1. Size(file) \in Nat /\ Size(ses.fp) \in Nat
  BY FileSize DEF Base, Store, Types
<1> QED BY <1>1 DEF SameSource, OtherSource, SourceChanged

LEMMA CatalogGives ==
  ASSUME Base, NEW active \in BOOLEAN, NEW m, m = CatalogItem(ses, active)
  PROVE  /\ m \in Metas /\ m.kind \in {host.kind, "Unavailable"}
         /\ \/ SameSource(m) /\ m.origin = ses.origin
            \/ OtherSource(m) /\ m.origin = NoOrigin
<1> DEFINE rev == reconcile_source_revision(ses, file)
           kept == rev = ses.rev /\ (active \/ ses.kind # "Unavailable")
<1>1. /\ rev \in Revisions
      /\ \/ rev = ses.rev /\ (file = ses.fp \/ Size(ses.fp) < Size(file))
         \/ rev # ses.rev /\ rev = Fingerprint(file) /\ ses.fp.id < file.id
  BY Reconciled
<1>2. /\ ses \in Sessions /\ ses.kind \in {host.kind, "Unavailable"} /\ file \in AnyFile
      /\ host.kind \in Kinds
  BY DEF Base, Store, Types, FileOK, Outer, Hosts, Kinds
<1>3. CASE host.conflict /\ ~active
  <2>1. m = [Metadata(ses) EXCEPT !.kind = "Unavailable"]
    BY <1>3 DEF CatalogItem
  <2>2. /\ m \in Metas /\ m.rev = ses.rev /\ m.fp = ses.fp /\ m.origin = ses.origin
        /\ m.kind = "Unavailable"
    BY <1>2, <2>1, MetadataType DEF Metas, Kinds
  <2> QED BY <2>2 DEF SameSource
<1>4. CASE ~(host.conflict /\ ~active)
  <2>1. m = [rev |-> rev, fp |-> file, kind |-> IF kept THEN ses.kind ELSE host.kind,
             origin |-> IF rev = ses.rev THEN ses.origin ELSE NoOrigin]
    BY <1>4 DEF CatalogItem
  <2>2. NoOrigin \in Origins /\ ses.origin \in Origins /\ ses.kind \in Kinds
    BY <1>2 DEF NoOrigin, Origins, Sessions
  <2> HIDE DEF rev, kept
  <2>3. m \in Metas
    BY <1>1, <1>2, <2>1, <2>2 DEF Metas
  <2> QED BY <1>1, <1>2, <2>1, <2>3 DEF SameSource, OtherSource
<1> QED BY <1>3, <1>4

\* The observation of metadata, and what follows it.
LEMMA ObservationLooks ==
  ASSUME Base, NEW m \in Metas, NEW live, NEW r, r = metadata_events(ses, m, live),
         SameSource(m) \/ OtherSource(m),
         m.kind \in {host.kind, "Unavailable"},
         m.origin = ses.origin \/ m.origin.fence <= env.bytes,
         SameSource(m) => m.origin.fence = ses.origin.fence \/ MarkOf(ses.rev) = NoMark,
         ses' = r.ses, UNCHANGED <<file, marks, spool>>,
         \/ m.fp = ses.fp /\ env'.mixed = env.mixed
         \/ env'.mixed = (env.mixed \/ Stranded(ses'))
  PROVE  StoreStep
<1>1. /\ ses \in Sessions /\ ses' \in Sessions
      /\ ses'.fp = m.fp /\ ses'.rev = m.rev /\ ses'.kind = m.kind /\ ses'.origin = m.origin
      /\ ses'.access = (IF SourceChanged(ses, m) /\ ses.access # "Revoked"
                        THEN "none" ELSE ses.access)
  BY EventsGive DEF Base, Store, Types
<1>2. ses'.origin.fence <= env.bytes
  BY <1>1 DEF Base, Store, Bounded
<1>3. SameSource(m) => SameRevision
  BY <1>1, SourceKnown DEF SameSource, SameRevision
<1>4. OtherSource(m) => OtherRevision
  BY <1>1 DEF OtherSource, OtherRevision
<1> QED BY <1>1, <1>2, <1>3, <1>4 DEF Looked, StoreStep

LEMMA RefreshStep == ASSUME Base, NEW active \in BOOLEAN, Refresh(active) PROVE Step
<1> DEFINE m == CatalogItem(ses, active)
           live == jobs = <<>> /\ Size(file) > Size(ses.fp)
<1>r. PICK r : r = metadata_events(ses, m, live)
  OBVIOUS
<1>1. Refreshed(active) = r
  BY <1>r DEF Refreshed
<1>2. /\ m \in Metas /\ m.kind \in {host.kind, "Unavailable"}
      /\ \/ SameSource(m) /\ m.origin = ses.origin
         \/ OtherSource(m) /\ m.origin = NoOrigin
  BY CatalogGives
<1>3. ses' = r.ses /\ UNCHANGED <<file, host, marks, spool, gate, w>> /\ NotesStranded
  BY <1>1 DEF Refresh
<1>4. EnvOK' /\ EnvKept /\ env'.mixed = (env.mixed \/ Stranded(ses'))
  BY <1>3, NoteKeeps DEF Base, Outer
<1>5. StoreStep
  <2>1. m.origin = ses.origin \/ m.origin.fence <= env.bytes
    BY <1>2, EnvNumbers DEF NoOrigin, Base, Outer
  <2>2. SameSource(m) => m.origin.fence = ses.origin.fence
    BY <1>2 DEF SameSource, OtherSource
  <2> HIDE DEF m, live
  <2> QED BY <1>r, <1>2, <1>3, <1>4, <2>1, <2>2, ObservationLooks
<1>6. jobs' \in Seq(Jobs)
  <2>1. PICK left : left = IF r.move # "none" THEN <<>> ELSE jobs
    OBVIOUS
  <2>2. jobs' = IF r.queues THEN Append(left, Queued) ELSE left
    BY <1>1, <2>1 DEF Refresh
  <2>3. left \in Seq(Jobs) /\ Queued \in Jobs
    BY <2>1 DEF Base, Outer, Jobs
  <2> QED BY <2>2, <2>3
<1> QED BY <1>3, <1>4, <1>5, <1>6, WorkerSame DEF Step, Base, Outer, Fixed, EnvKept

LEMMA ObserveSourceStep == ASSUME Base, ObserveSource PROVE Step
<1>r. PICK rev : rev = reconcile_source_revision(ses, file)
  OBVIOUS
<1>m. PICK m : m = [rev |-> rev, fp |-> file, kind |-> host.kind,
                    origin |-> [fence |-> Size(file), closed |-> FALSE]]
  OBVIOUS
<1>1. /\ ses' = metadata_events(ses, m, FALSE).ses
      /\ UNCHANGED <<file, host, jobs, marks, spool, gate>> /\ Touched /\ NotesStranded
      /\ MarkOf(ses.rev) = NoMark
  BY <1>r, <1>m DEF ObserveSource
<1>2. /\ rev \in Revisions
      /\ \/ rev = ses.rev /\ (file = ses.fp \/ Size(ses.fp) < Size(file))
         \/ rev # ses.rev /\ rev = Fingerprint(file) /\ ses.fp.id < file.id
  BY <1>r, Reconciled
<1>3. /\ file \in AnyFile /\ Size(file) \in Nat /\ host.kind \in Kinds /\ Size(file) <= env.bytes
  BY FileSize DEF Base, Store, Types, Bounded, Outer, Hosts, Kinds
<1>4. m \in Metas
  BY <1>m, <1>2, <1>3 DEF Metas, Origins
<1>5. SameSource(m) \/ OtherSource(m)
  BY <1>m, <1>2 DEF SameSource, OtherSource
<1>6. EnvOK' /\ EnvKept /\ env'.mixed = (env.mixed \/ Stranded(ses'))
  BY <1>1, NoteKeeps DEF Base, Outer
<1>7. StoreStep
  <2>1. m.kind \in {host.kind, "Unavailable"} /\ m.origin.fence <= env.bytes
    BY <1>m, <1>3
  <2> QED BY <1>1, <1>4, <1>5, <1>6, <2>1, ObservationLooks
<1>8. WorkerOK'
  BY <1>1, TouchedGives DEF Base, Outer
<1> QED BY <1>1, <1>6, <1>7, <1>8 DEF Step, Base, Outer, Fixed, EnvKept

LEMMA WorkerPreflightsStep == ASSUME Base, WorkerPreflights PROVE Step
<1>1. UNCHANGED <<file, host, marks, spool, w, env>>
  BY DEF WorkerPreflights
<1>2. EnvOK' /\ EnvKept /\ env'.mixed = env.mixed /\ WorkerOK'
  BY <1>1, EnvSame, WorkerSame DEF Base, Outer
<1>3. CASE gate' = [gate EXCEPT !.revoked = TRUE] /\ UNCHANGED <<ses, jobs>>
  <2>1. gate' \in Gates
    BY <1>3 DEF Base, Outer, Gates
  <2> QED BY <1>1, <1>2, <1>3, <2>1, QuietStep DEF Base, Outer
<1>4. ASSUME NEW m, m = [Metadata(ses) EXCEPT !.origin.closed = TRUE],
             NEW r, r = metadata_events(ses, m, FALSE),
             ses' = r.ses, jobs' = jobs \/ jobs' = <<>>, gate' = gate
      PROVE  Step
  <2>1. ses \in Sessions /\ ses.kind \in {host.kind, "Unavailable"}
    BY DEF Base, Store, Types
  <2>2. PICK o : o = [ses.origin EXCEPT !.closed = TRUE]
    OBVIOUS
  <2>3. o \in Origins /\ o.fence = ses.origin.fence
    BY <2>1, <2>2 DEF Sessions, Origins
  <2>4. m = [Metadata(ses) EXCEPT !.origin = o]
    BY <1>4, <2>1, <2>2, MetadataType DEF Metas
  <2>5. m \in Metas /\ m.rev = ses.rev /\ m.fp = ses.fp /\ m.kind = ses.kind /\ m.origin = o
    BY <2>1, <2>3, <2>4, MetadataType DEF Metas
  <2>6. SameSource(m)
    BY <2>5 DEF SameSource
  <2>7. m.origin.fence <= env.bytes
    BY <2>3, <2>5 DEF Base, Store, Bounded
  <2>8. StoreStep
    BY <1>1, <1>2, <1>4, <2>1, <2>3, <2>5, <2>6, <2>7, ObservationLooks
  <2>9. jobs' \in Seq(Jobs)
    BY <1>4, JobsTypes DEF Base, Outer
  <2> QED BY <1>1, <1>2, <1>4, <2>8, <2>9 DEF Step, Base, Outer, Fixed, EnvKept
<1> QED BY <1>3, <1>4 DEF WorkerPreflights

\* A session record whose metadata stay.
LEMMA ToldStep ==
  ASSUME Base, UNCHANGED <<file, marks, spool>>, EnvOK', EnvKept, env'.mixed = env.mixed,
         ses' \in Sessions, Metadata(ses') = Metadata(ses),
         ses.access # "none" => ses'.access # "none",
         host' = host, jobs' \in Seq(Jobs), gate' = gate, WorkerOK'
  PROVE  Step
BY DEF Step, Base, Outer, StoreStep, Told, Fixed, EnvKept

LEMMA QueueImportStep == ASSUME Base, QueueImport PROVE Step
<1>1. /\ Fault /\ ses' = Advanced(Approved(ses), "Queued") /\ jobs' = Append(jobs, Queued) /\ Touched
      /\ UNCHANGED <<file, host, marks, spool, gate>>
  BY DEF QueueImport
<1>2. EnvOK' /\ EnvKept /\ env'.mixed = env.mixed /\ WorkerOK' /\ jobs' \in Seq(Jobs)
  BY <1>1, FaultKeeps, TouchedGives, JobsTypes DEF Base, Outer
<1>3. /\ Approved(ses) \in Sessions /\ Metadata(Approved(ses)) = Metadata(ses)
      /\ ses.access # "none" => Approved(ses).access # "none"
  BY DEF Base, Store, Types, Approved, Sessions, Metadata
<1>4. "Queued" \in Bodies
  BY DEF Bodies
<1>5. /\ ses' \in Sessions /\ Metadata(ses') = Metadata(ses)
      /\ ses.access # "none" => ses'.access # "none"
  BY <1>1, <1>3, <1>4, AdvancedType
<1> QED BY <1>1, <1>2, <1>5, ToldStep

LEMMA RevokedGives ==
  ASSUME Base, RevokeAccess
  PROVE  /\ ses' \in Sessions /\ Metadata(ses') = Metadata(ses) /\ ses'.access = "Revoked"
         /\ ses'.body = (IF ses.body \in {"Queued", "Importing", "Imported", "Partial"}
                         THEN "BlockedUnapproved" ELSE ses.body)
<1> DEFINE live == ses.body \in {"Queued", "Importing", "Imported", "Partial"}
<1>1. PICK s : s = IF live THEN Advanced(ses, "BlockedUnapproved") ELSE ses
  OBVIOUS
<1>2. ses \in Sessions /\ "BlockedUnapproved" \in Bodies
  BY DEF Base, Store, Types, Bodies
<1>3. s \in Sessions /\ Metadata(s) = Metadata(ses)
      /\ s.body = IF live THEN "BlockedUnapproved" ELSE ses.body
  BY <1>1, <1>2, AdvancedType
<1>4. ses' = [s EXCEPT !.access = "Revoked"]
  BY <1>1 DEF RevokeAccess
<1> QED BY <1>3, <1>4 DEF Sessions, Metadata

LEMMA RevokeAccessStep == ASSUME Base, RevokeAccess PROVE Step
<1>1. Fault /\ jobs' = <<>> /\ Touched /\ UNCHANGED <<file, host, marks, spool, gate>>
  BY DEF RevokeAccess
<1>2. EnvOK' /\ EnvKept /\ env'.mixed = env.mixed /\ WorkerOK' /\ jobs' \in Seq(Jobs)
  BY <1>1, FaultKeeps, TouchedGives, JobsTypes DEF Base, Outer
<1> QED BY <1>1, <1>2, RevokedGives, ToldStep

\* The worker's context names the session it works for.
LEMMA ContextGives ==
  ASSUME Base, Running
  PROVE  /\ w.run.ctx \in Sessions /\ w.run.gate \in Gates
         /\ w.run.ctx.rev = ses.rev /\ w.run.ctx.fp = ses.fp /\ w.run.ctx.kind = ses.kind
         /\ w.run.ctx.origin = ses.origin
         /\ FileOK(w.run.ctx.fp) /\ w.run.mark \in Marks
         /\ w.run \in Runs /\ w.cache \in Caches
         /\ ses.body \notin {"NotImported", "SourceReplaced"}
<1>1. w.run.ctx \in Sessions /\ w.run.gate \in Gates /\ w.run \in Runs /\ w.cache \in Caches
  BY DEF Base, Outer, WorkerOK, Running
<1>2. Metadata(ses) = Metadata(w.run.ctx) /\ ses.body \notin {"NotImported", "SourceReplaced"}
  BY DEF Base, Steady, Running
<1>3. w.run.mark \in Marks
  BY <1>1 DEF Runs
<1> QED BY <1>1, <1>2, <1>3, SameMetadata DEF Base, Store, Types

LEMMA WorkerMoves ==
  ASSUME WorkerOK, NEW r \in Runs, Goes(r), r.pc # "idle" => r.ctx \in Sessions /\ r.gate \in Gates
  PROVE  WorkerOK' /\ w'.run = r /\ w'.cache = w.cache
BY GoesGives DEF WorkerOK

LEMMA SelectsGives ==
  ASSUME Base, WorkerSelects
  PROVE  /\ WorkerOK' /\ w'.cache = w.cache
         /\ w'.run.pc = "authorize" /\ w'.run.ctx = ses /\ w'.run.gate = gate
         /\ w'.run.mark = MarkOf(ses.rev) /\ w'.run.fresh = TRUE /\ w'.run.range = <<>>
         /\ w'.run.got = <<>> /\ w'.run.target = "none"
         /\ UNCHANGED <<file, host, ses, jobs, marks, spool, gate, env>>
         /\ ~Contradicted(ses, MarkOf(ses.rev)) /\ Active(ses)
<1> DEFINE m == MarkOf(ses.rev)
<1>1. PICK r : r = [Rest EXCEPT !.pc = "authorize", !.ctx = ses, !.gate = gate, !.mark = m,
                                !.fresh = TRUE]
  OBVIOUS
<1>2. ses \in Sessions /\ gate \in Gates /\ m \in Marks
  BY MarkType DEF Base, Store, Types, Outer, MarksOK
<1> HIDE DEF m
<1>3. /\ r.pc = "authorize" /\ r.ctx = ses /\ r.gate = gate /\ r.mark = m /\ r.fresh = TRUE
      /\ r.range = <<>> /\ r.got = <<>> /\ r.target = "none"
      /\ r = [pc |-> "authorize", ctx |-> ses, gate |-> gate, mark |-> m, fresh |-> TRUE,
              range |-> <<>>, got |-> <<>>, target |-> "none"]
  BY <1>1 DEF Rest
<1>4. r \in Runs
  BY <1>2, <1>3 DEF Runs, Steps
<1>5. Goes(r)
  BY <1>1 DEF WorkerSelects, m
<1>6. WorkerOK' /\ w'.run = r /\ w'.cache = w.cache
  BY <1>2, <1>3, <1>4, <1>5, WorkerMoves DEF Base, Outer
<1> QED BY <1>3, <1>6 DEF WorkerSelects, m, QuantumGiven

LEMMA WorkerSelectsStep == ASSUME Base, WorkerSelects PROVE Step
BY SelectsGives, EnvSame, QuietStep DEF Base, Outer

\* The position alone moves.
Moves(pc) ==
    /\ WorkerOK' /\ w'.cache = w.cache /\ w'.run = [w.run EXCEPT !.pc = pc] /\ w'.run.pc = pc
    /\ w'.run.ctx = w.run.ctx /\ w'.run.gate = w.run.gate /\ w'.run.mark = w.run.mark
    /\ w'.run.fresh = w.run.fresh /\ w'.run.range = w.run.range /\ w'.run.got = w.run.got
    /\ w'.run.target = w.run.target
LEMMA MovesGives ==
  ASSUME WorkerOK, w.run.pc # "idle", NEW pc \in Steps, Goes([w.run EXCEPT !.pc = pc])
  PROVE  Moves(pc)
<1>1. PICK r : r = [w.run EXCEPT !.pc = pc]
  OBVIOUS
<1>2. w.run \in Runs /\ w.run.ctx \in Sessions /\ w.run.gate \in Gates
  BY DEF WorkerOK
<1>3. /\ r \in Runs /\ r.pc = pc /\ r.ctx = w.run.ctx /\ r.gate = w.run.gate
      /\ r.mark = w.run.mark /\ r.fresh = w.run.fresh /\ r.range = w.run.range
      /\ r.got = w.run.got /\ r.target = w.run.target
  BY <1>1, <1>2 DEF Runs
<1>4. WorkerOK' /\ w'.run = r /\ w'.cache = w.cache
  BY <1>1, <1>2, <1>3, WorkerMoves
<1> QED BY <1>1, <1>3, <1>4 DEF Moves

\* The session record as it was, or advanced, and the worker at rest.
Rests(c) == WorkerOK' /\ w'.run = Rest /\ w'.cache = c /\ w'.run.pc = "idle"

LEMMA AuthorizesGives ==
  ASSUME Base, WorkerAuthorizes
  PROVE  /\ UNCHANGED <<file, host, marks, spool, gate, env>> /\ WorkerOK'
         /\ w.run.pc = "authorize"
         /\ \/ /\ Moves("verify") /\ Authorized(w.run.ctx, w.run.gate)
               /\ UNCHANGED <<ses, jobs>>
            \/ /\ Rests(w.cache) \/ Rests(NothingProved)
               /\ \/ UNCHANGED <<ses, jobs>>
                  \/ /\ ses' = Advanced(ses, "SourceReplaced") /\ jobs' = <<>>
                     /\ Changed(w.run.ctx, w.run.gate) /\ w.run.fresh
<1> DEFINE s == w.run.ctx
           g == w.run.gate
           replaced == Changed(s, g) /\ w.run.fresh /\ Len(jobs) <= 1
<1>1. /\ w.run.pc = "authorize" /\ UNCHANGED <<file, host, marks, spool, gate, env>>
      /\ ses' = IF replaced THEN Advanced(ses, "SourceReplaced") ELSE ses
      /\ jobs' = IF replaced THEN <<>> ELSE jobs
  BY DEF WorkerAuthorizes
<1>2. WorkerOK /\ NothingProved \in Caches /\ w.cache \in Caches /\ "verify" \in Steps
  BY RunRest DEF Base, Outer, WorkerOK, Steps
<1>3. CASE Authorized(s, g)
  <2>1. Goes([w.run EXCEPT !.pc = "verify"]) /\ ~Changed(s, g)
    BY <1>3 DEF WorkerAuthorizes, Authorized, Changed
  <2>2. Moves("verify")
    BY <1>1, <1>2, <2>1, MovesGives
  <2> QED BY <1>1, <1>3, <2>1, <2>2 DEF Moves
<1>4. CASE ~Authorized(s, g)
  <2>1. w' = [run |-> Rest, cache |-> IF Changed(s, g) /\ ~replaced THEN w.cache ELSE NothingProved]
    BY <1>4 DEF WorkerAuthorizes
  <2>2. Rests(w.cache) \/ Rests(NothingProved)
    <3>1. CASE Changed(s, g) /\ ~replaced
      <4>1. w' = [run |-> Rest, cache |-> w.cache]
        BY <2>1, <3>1
      <4> QED BY <4>1, <1>2, RestGives DEF Rests
    <3>2. CASE ~(Changed(s, g) /\ ~replaced)
      <4>1. w' = [run |-> Rest, cache |-> NothingProved]
        BY <2>1, <3>2
      <4> QED BY <4>1, <1>2, RestGives DEF Rests
    <3> QED BY <3>1, <3>2
  <2> QED BY <1>1, <2>2 DEF Rests
<1> QED BY <1>3, <1>4

LEMMA ReplacedTold ==
  ASSUME Base, ses' = Advanced(ses, "SourceReplaced") \/ ses' = ses
  PROVE  /\ ses' \in Sessions /\ Metadata(ses') = Metadata(ses)
         /\ ses.access # "none" => ses'.access # "none"
BY AdvancedType DEF Base, Store, Types, Bodies

LEMMA WorkerAuthorizesStep == ASSUME Base, WorkerAuthorizes PROVE Step
<1>1. /\ UNCHANGED <<file, host, marks, spool, gate, env>> /\ WorkerOK'
      /\ ses' = Advanced(ses, "SourceReplaced") \/ ses' = ses
      /\ jobs' = <<>> \/ jobs' = jobs
  BY AuthorizesGives
<1>2. jobs' \in Seq(Jobs)
  BY <1>1, JobsTypes DEF Base, Outer
<1>3. EnvOK' /\ EnvKept /\ env'.mixed = env.mixed
  BY <1>1, EnvSame DEF Base, Outer
<1> QED BY <1>1, <1>2, <1>3, ReplacedTold, ToldStep

LEMMA VouchedGives ==
  ASSUME Base, Running
  PROVE  /\ Vouched \in Caches /\ Vouched.key = <<ses.rev, ses.fp>>
         /\ Vouched = w.cache \/ (Vouched.early = 0 /\ Vouched.main = 0)
         /\ CacheKey(w.run.ctx) = <<ses.rev, ses.fp>>
<1>1. /\ w.run.ctx \in Sessions /\ w.run.ctx.rev = ses.rev /\ w.run.ctx.fp = ses.fp
      /\ w.cache \in Caches /\ ses.rev \in Revisions /\ ses.fp \in AnyFile
  BY ContextGives DEF Base, Store, Types, Sessions
<1>2. CacheKey(w.run.ctx) = <<ses.rev, ses.fp>>
  BY <1>1 DEF CacheKey
<1>3. <<ses.rev, ses.fp>> \in Revisions \X AnyFile
  BY <1>1
<1>4. CASE w.cache.key = CacheKey(w.run.ctx)
  BY <1>1, <1>2, <1>4 DEF Vouched
<1>5. CASE w.cache.key # CacheKey(w.run.ctx)
  <2>1. PICK next : next = IF w.cache.key # <<>> /\ w.cache.key[1] = w.run.ctx.rev
                           THEN w.cache.turn ELSE NothingProved.turn
    OBVIOUS
  <2>2. w.cache.turn \in RangeKinds /\ NothingProved.turn \in RangeKinds
    BY <1>1 DEF Caches, NothingProved, RangeKinds
  <2>3. next \in RangeKinds
    BY <2>1, <2>2
  <2>4. PICK key : key = <<ses.rev, ses.fp>>
    OBVIOUS
  <2>5. Vouched = [NothingProved EXCEPT !.key = key, !.turn = next]
    BY <1>2, <1>5, <2>1, <2>4 DEF Vouched
  <2>6. Vouched = [key |-> key, early |-> 0, main |-> 0, turn |-> next]
    BY <2>5 DEF NothingProved
  <2>7. key \in Revisions \X AnyFile
    BY <1>3, <2>4
  <2> QED BY <1>2, <2>3, <2>4, <2>6, <2>7 DEF Caches
<1> QED BY <1>4, <1>5

\* A watermark leg by name, and its end.
LegOf(m, leg) == IF leg = "early" THEN m.early ELSE m.main
LEMMA LegNamed ==
  ASSUME NEW m \in Marks, NEW leg \in {"early", "main"}
  PROVE  m[leg] = LegOf(m, leg) /\ LegEnd(m, leg) \in Nat
BY EndTypes DEF LegOf, LegEnd, Marks

ReplacedGives ==
    \/ UNCHANGED <<ses, jobs>>
    \/ /\ jobs' = <<>> /\ ses' \in Sessions /\ ses'.body = "SourceReplaced"
       /\ ses'.fp = ses.fp /\ ses'.kind = ses.kind /\ w.run.fresh
       /\ MayAdvance(ses, "SourceReplaced")
       /\ \/ /\ ses'.rev = ses.rev /\ ses'.access = ses.access
             /\ ses'.origin.fence = ses.origin.fence
          \/ /\ ses'.rev # ses.rev /\ ses'.rev = Fingerprint(ses.fp) /\ ses'.origin = NoOrigin
             /\ ses'.access = IF ses.access = "Revoked" THEN "Revoked" ELSE "none"
LEMMA SourceReplacedGives ==
  ASSUME Base, SourceReplacedBy(ses.fp)
  PROVE  ReplacedGives
<1> DEFINE s == Advanced(ses, "SourceReplaced")
<1>0. PICK rev : rev = Fingerprint(ses.fp)
  OBVIOUS
<1>1. PICK o : o = IF rev # ses.rev THEN NoOrigin ELSE [ses.origin EXCEPT !.closed = TRUE]
  OBVIOUS
<1>2. PICK m : m = [rev |-> rev, fp |-> ses.fp, kind |-> ses.kind, origin |-> o]
  OBVIOUS
<1>3. CASE UNCHANGED <<ses, jobs>>
  BY <1>3 DEF ReplacedGives
<1>4. CASE /\ w.run.fresh /\ MayAdvance(ses, "SourceReplaced")
           /\ ses' = Observed(s, m) /\ jobs' = <<>>
  <2>1. ses \in Sessions /\ FileOK(ses.fp)
    BY DEF Base, Store, Types
  <2>2. ses.origin \in Origins /\ NoOrigin \in Origins /\ rev \in Revisions
    BY <1>0, <2>1, FingerprintType DEF Sessions, NoOrigin, Origins
  <2>3. o \in Origins /\ (rev = ses.rev => o.fence = ses.origin.fence)
        /\ (rev # ses.rev => o = NoOrigin)
    BY <1>1, <2>2 DEF Origins
  <2>4. m \in Metas /\ m.rev = rev /\ m.fp = ses.fp /\ m.kind = ses.kind /\ m.origin = o
    BY <1>2, <2>1, <2>2, <2>3 DEF Metas, Sessions
  <2>5. /\ s \in Sessions /\ s.fp = ses.fp /\ s.rev = ses.rev /\ s.access = ses.access
        /\ s.body = "SourceReplaced"
    BY <2>1, AdvancedType DEF Bodies
  <2> HIDE DEF s
  <2>6. /\ ses' \in Sessions /\ ses'.fp = ses.fp /\ ses'.rev = rev /\ ses'.kind = ses.kind
        /\ ses'.origin = o /\ ses'.body = "SourceReplaced"
        /\ ses'.access = (IF SourceChanged(s, m) /\ s.access # "Revoked" THEN "none" ELSE s.access)
    BY <1>4, <2>4, <2>5, ObservedType
  <2>7. SourceChanged(s, m) <=> rev # ses.rev
    <3>1. Size(ses.fp) \in Nat
      BY <2>1, FileSize
    <3> QED BY <2>4, <2>5, <3>1 DEF SourceChanged
  <2>8. ses.access \in {"none", "Approved", "Revoked"}
    BY <2>1 DEF Sessions
  <2> QED BY <1>0, <1>4, <2>3, <2>5, <2>6, <2>7, <2>8 DEF ReplacedGives
<1> QED BY <1>0, <1>1, <1>2, <1>3, <1>4 DEF SourceReplacedBy

LEMMA ReplacedIsStep ==
  ASSUME Base, ReplacedGives, UNCHANGED <<file, host, marks, spool, gate, env>>, WorkerOK'
  PROVE  Step
<1>1. EnvOK' /\ EnvKept /\ env'.mixed = env.mixed /\ jobs' \in Seq(Jobs)
  BY EnvSame, JobsTypes DEF Base, Outer, ReplacedGives
<1>2. CASE UNCHANGED <<ses, jobs>>
  BY <1>1, <1>2, QuietStep DEF Base, Outer
<1>3. CASE ~(UNCHANGED <<ses, jobs>>)
  <2>1. /\ ses' \in Sessions /\ ses'.kind \in {host.kind, "Unavailable"} /\ ses'.fp = ses.fp
    BY <1>3 DEF ReplacedGives, Base, Store, Types
  <2>2. SameRevision \/ OtherRevision
    BY <1>3 DEF ReplacedGives, SameRevision, OtherRevision
  <2>3. ses'.origin.fence <= env.bytes
    BY <1>3, EnvNumbers DEF ReplacedGives, NoOrigin, Base, Store, Bounded, Outer
  <2>4. StoreStep
    BY <1>1, <2>1, <2>2, <2>3 DEF StoreStep, Looked
  <2> QED BY <1>1, <2>4 DEF Step, Base, Outer, Fixed, EnvKept
<1> QED BY <1>2, <1>3

ProvedLeg(c, leg) ==
    /\ c \in Caches /\ c.key = <<ses.rev, ses.fp>>
    /\ file = ses.fp /\ Range(LegOf(w.run.mark, leg)) \subseteq Range(file.recs)
    /\ LegOf(w.run.mark, leg) # <<>>
    /\ \/ leg = "early" /\ c.early = EarlyEnd(w.run.mark) /\ c.main = Vouched.main
       \/ leg = "main" /\ c.main = MainEnd(w.run.mark) /\ c.early = Vouched.early
LEMMA VerifiesGives ==
  ASSUME Base, WorkerVerifies
  PROVE  /\ UNCHANGED <<file, host, marks, spool, gate, env>> /\ WorkerOK'
         /\ w.run.pc = "verify"
         /\ \/ Unproved = {} /\ Moves("claim") /\ UNCHANGED <<ses, jobs>>
            \/ /\ UNCHANGED <<ses, jobs>>
               /\ \E c \in Caches, leg \in {"early", "main"} : Rests(c) /\ ProvedLeg(c, leg)
            \/ /\ Rests(NothingProved) /\ ReplacedGives
               /\ \E leg \in Unproved : file # ses.fp
                                        \/ ~(Range(LegOf(w.run.mark, leg)) \subseteq Range(file.recs))
<1> DEFINE leg == IF "early" \in Unproved THEN "early" ELSE "main"
           proved == file = w.run.ctx.fp /\ LegMatches(file, w.run.mark[leg])
<1>1. /\ w.run.pc = "verify" /\ UNCHANGED <<file, host, marks, spool, gate, env>>
  BY DEF WorkerVerifies
<1>2. Running /\ WorkerOK
  BY <1>1 DEF Running, Base, Outer
<1>3. /\ w.run.ctx.fp = ses.fp /\ w.run.mark \in Marks
  BY <1>2, ContextGives
<1>4. Unproved \subseteq {"early", "main"}
  BY DEF Unproved, required_import_proofs
<1>5. CASE Unproved = {}
  <2>1. Goes([w.run EXCEPT !.pc = "claim"]) /\ UNCHANGED <<ses, jobs>>
    BY <1>5 DEF WorkerVerifies
  <2>2. "claim" \in Steps
    BY DEF Steps
  <2>3. Moves("claim")
    BY <1>1, <1>2, <2>1, <2>2, MovesGives
  <2> QED BY <1>1, <1>5, <2>1, <2>3 DEF Moves
<1>6. CASE Unproved # {} /\ proved
  <2>1. PICK c : c = [Vouched EXCEPT ![leg] = LegEnd(w.run.mark, leg)]
    OBVIOUS
  <2>2. w' = [run |-> Rest, cache |-> c] /\ UNCHANGED <<ses, jobs>>
    BY <1>6, <2>1 DEF WorkerVerifies
  <2>3. Vouched \in Caches /\ Vouched.key = <<ses.rev, ses.fp>>
    BY <1>2, VouchedGives
  <2>4. EarlyEnd(w.run.mark) \in Nat /\ MainEnd(w.run.mark) \in Nat
    BY <1>3, EndTypes
  <2>5. leg = "early" \/ leg = "main"
    OBVIOUS
  <2>6. w.run.mark[leg] = LegOf(w.run.mark, leg)
    BY <1>3, <2>5, LegNamed
  <2>7. Range(LegOf(w.run.mark, leg)) \subseteq Range(file.recs) /\ file = ses.fp
    BY <1>3, <1>6, <2>6 DEF LegMatches
  <2>10. LegOf(w.run.mark, leg) # <<>>
    <3>1. leg \in Unproved
      BY <1>4, <1>6
    <3>2. w.run.mark[leg] # <<>>
      BY <3>1 DEF Unproved, required_import_proofs
    <3> QED BY <2>6, <3>2
  <2> HIDE DEF leg, proved
  <2>8. c \in Caches /\ ProvedLeg(c, leg)
    <3>1. CASE leg = "early"
      <4>1. c = [Vouched EXCEPT !.early = EarlyEnd(w.run.mark)]
        BY <2>1, <3>1 DEF LegEnd
      <4>2. /\ c \in Caches /\ c.key = Vouched.key /\ c.early = EarlyEnd(w.run.mark)
            /\ c.main = Vouched.main
        BY <2>3, <2>4, <4>1 DEF Caches
      <4> QED BY <2>3, <2>7, <2>10, <3>1, <4>2 DEF ProvedLeg
    <3>2. CASE leg = "main"
      <4>1. c = [Vouched EXCEPT !.main = MainEnd(w.run.mark)]
        BY <2>1, <3>2 DEF LegEnd
      <4>2. /\ c \in Caches /\ c.key = Vouched.key /\ c.main = MainEnd(w.run.mark)
            /\ c.early = Vouched.early
        BY <2>3, <2>4, <4>1 DEF Caches
      <4> QED BY <2>3, <2>7, <2>10, <3>2, <4>2 DEF ProvedLeg
    <3> QED BY <2>5, <3>1, <3>2
  <2>9. WorkerOK' /\ Rests(c)
    BY <2>2, <2>8, RestGives DEF Rests
  <2> QED BY <1>1, <2>2, <2>5, <2>8, <2>9
<1>7. CASE Unproved # {} /\ ~proved
  <2>1. w' = [run |-> Rest, cache |-> NothingProved] /\ SourceReplacedBy(w.run.ctx.fp)
    BY <1>7 DEF WorkerVerifies
  <2>2. ReplacedGives
    BY <1>3, <2>1, SourceReplacedGives
  <2>3. Rests(NothingProved) /\ WorkerOK'
    BY <2>1, RunRest, RestGives DEF Rests
  <2>4. leg \in Unproved /\ leg \in {"early", "main"}
    BY <1>4, <1>7
  <2>5. file # ses.fp \/ ~(Range(LegOf(w.run.mark, leg)) \subseteq Range(file.recs))
    BY <1>3, <1>7, <2>4, LegNamed DEF LegMatches
  <2> QED BY <1>1, <2>2, <2>3, <2>4, <2>5
<1> QED BY <1>5, <1>6, <1>7

LEMMA WorkerVerifiesStep == ASSUME Base, WorkerVerifies PROVE Step
<1>1. /\ UNCHANGED <<file, host, marks, spool, gate, env>> /\ WorkerOK'
      /\ UNCHANGED <<ses, jobs>> \/ ReplacedGives
  BY VerifiesGives
<1>2. ReplacedGives
  BY <1>1 DEF ReplacedGives
<1> QED BY <1>1, <1>2, ReplacedIsStep

\* The range the worker chooses is one that is pending.
LEMMA ChosenGives ==
  ASSUME NEW s \in Sessions, FileOK(s.fp), NEW m \in Marks, NEW range, range = ChosenRange(s, m)
  PROVE  /\ range \in Seq(Ranges)
         /\ range = <<>> => import_ranges(s, m) = {}
         /\ range # <<>> => range[1] \in import_ranges(s, m) /\ range[1] \in Ranges
<1> DEFINE pending == import_ranges(s, m)
           preferred == {r \in pending : r.kind = Vouched.turn}
           suffix == {r \in pending : r.kind # "prefix"}
           among == IF preferred # {} THEN preferred ELSE IF suffix # {} THEN suffix ELSE pending
           chosen == CHOOSE r \in pending : r \in among
<1>1. range = IF pending = {} THEN <<>> ELSE <<chosen>>
  BY DEF ChosenRange
<1>2. pending \subseteq Ranges
  BY RangesType
<1>3. CASE pending = {}
  BY <1>1, <1>3
<1>4. CASE pending # {}
  <2>1. \E r \in pending : r \in among
    BY <1>4
  <2> HIDE DEF among
  <2>2. chosen \in pending
    BY <2>1
  <2> HIDE DEF chosen, pending
  <2> QED BY <1>1, <1>2, <1>4, <2>2 DEF pending
<1> QED BY <1>3, <1>4

ClaimedRun(range, target) ==
    /\ w'.run.pc = (IF ses.body = "Importing" THEN "read" ELSE "begin")
    /\ w'.run.ctx = ses /\ w'.run.gate = gate /\ w'.run.mark = w.run.mark
    /\ w'.run.fresh = TRUE /\ w'.run.range = range /\ w'.run.got = w.run.got
    /\ w'.run.target = target
Slot(c) == c \in Caches /\ (c = w.cache \/ c = Vouched)
LEMMA ClaimsGives ==
  ASSUME Base, WorkerClaims
  PROVE  /\ UNCHANGED <<file, host, ses, marks, spool, gate, env>> /\ WorkerOK'
         /\ w.run.pc = "claim"
         /\ \/ /\ jobs' = <<Leased>> /\ Len(jobs) = 1
               /\ Slot(w'.cache) /\ Authorized(ses, gate) /\ MarkOf(ses.rev) = w.run.mark
               /\ \E range \in Seq(Ranges) :
                    /\ ClaimedRun(range, finished_import_state(ses, w.run.mark))
                    /\ range = ChosenRange(w.run.ctx, w.run.mark)
                    /\ range = <<>> => finished_import_state(ses, w.run.mark) # "none"
            \/ /\ UNCHANGED jobs
               /\ \E c \in Caches : Rests(c) /\ (Slot(c) \/ c = NothingProved)
<1> DEFINE m == MarkOf(ses.rev)
           target == finished_import_state(ses, m)
           same(range) == /\ Metadata(ses) = Metadata(w.run.ctx) /\ m = w.run.mark
                          /\ ChosenRange(ses, m) = range
                          /\ range = <<>> => target = finished_import_state(w.run.ctx, m)
           ready(range) == /\ Len(jobs) = 1 /\ Authorized(ses, gate) /\ same(range)
                           /\ jobs[1].state = "Queued" /\ (range = <<>> => target # "none")
<1>r. PICK range : range = ChosenRange(w.run.ctx, w.run.mark)
  OBVIOUS
<1>s. PICK slot : slot = IF range = <<>> THEN w.cache ELSE Vouched
  OBVIOUS
<1>1. /\ w.run.pc = "claim" /\ UNCHANGED <<file, host, ses, marks, spool, gate, env>>
  BY DEF WorkerClaims
<1>2. Running /\ WorkerOK
  BY <1>1 DEF Running, Base, Outer
<1>3. /\ w.run.ctx \in Sessions /\ FileOK(w.run.ctx.fp) /\ w.run.mark \in Marks
      /\ w.run \in Runs /\ w.cache \in Caches /\ Vouched \in Caches
  BY <1>2, ContextGives, VouchedGives
<1>4. range \in Seq(Ranges)
  BY <1>r, <1>3, ChosenGives
<1>5. Slot(slot)
  BY <1>s, <1>3 DEF Slot
<1>6. CASE ready(range)
  <2>0. m = w.run.mark
    BY <1>6
  <2>1. PICK run : run = [w.run EXCEPT !.ctx = ses, !.gate = gate, !.fresh = TRUE,
                            !.pc = IF ses.body = "Importing" THEN "read" ELSE "begin",
                            !.range = range, !.target = target]
    OBVIOUS
  <2>2. jobs' = <<Leased>> /\ w' = [run |-> run, cache |-> slot]
    BY <1>r, <1>s, <1>6, <2>1 DEF WorkerClaims
  <2>3. target \in {"none", "Imported", "Partial"} /\ ses \in Sessions /\ gate \in Gates
    BY DEF finished_import_state, Base, Store, Types, Outer
  <2> HIDE DEF target
  <2>4. PICK pc \in Steps : pc = IF ses.body = "Importing" THEN "read" ELSE "begin"
    BY DEF Steps
  <2>5. /\ run \in Runs /\ run.pc = pc /\ run.ctx = ses /\ run.gate = gate
        /\ run.mark = w.run.mark /\ run.fresh = TRUE /\ run.range = range
        /\ run.got = w.run.got /\ run.target = target
    BY <1>3, <1>4, <2>1, <2>3, <2>4 DEF Runs
  <2>6. WorkerOK' /\ w'.run = run /\ w'.cache = slot
    BY <1>5, <2>2, <2>3, <2>5 DEF WorkerOK, Slot
  <2>7. ClaimedRun(range, finished_import_state(ses, w.run.mark))
    BY <2>0, <2>4, <2>5, <2>6 DEF ClaimedRun, target
  <2> QED BY <1>r, <1>1, <1>4, <1>5, <1>6, <2>0, <2>2, <2>6, <2>7 DEF target
<1>7. CASE ~ready(range)
  <2>1. /\ UNCHANGED jobs
        /\ w' = [run |-> Rest, cache |-> IF Authorized(ses, gate) /\ ~same(range) /\ range # <<>>
                                         THEN NothingProved ELSE slot]
    BY <1>r, <1>s, <1>7 DEF WorkerClaims
  <2>2. PICK c : c = IF Authorized(ses, gate) /\ ~same(range) /\ range # <<>>
                     THEN NothingProved ELSE slot
    OBVIOUS
  <2>3. c \in Caches /\ (Slot(c) \/ c = NothingProved)
    BY <1>5, <2>2, RunRest DEF Slot
  <2>4. WorkerOK' /\ Rests(c)
    BY <2>1, <2>2, <2>3, RestGives DEF Rests
  <2> QED BY <1>1, <2>1, <2>3, <2>4
<1> QED BY <1>6, <1>7

LEMMA WorkerClaimsStep == ASSUME Base, WorkerClaims PROVE Step
<1>1. /\ UNCHANGED <<file, host, ses, marks, spool, gate, env>> /\ WorkerOK'
      /\ jobs' = <<Leased>> \/ jobs' = jobs
  BY ClaimsGives
<1>2. jobs' \in Seq(Jobs)
  BY <1>1, JobsTypes DEF Base, Outer
<1> QED BY <1>1, <1>2, EnvSame, QuietStep DEF Base, Outer

LEMMA BeginsGives ==
  ASSUME Base, WorkerBegins
  PROVE  /\ UNCHANGED <<file, host, jobs, marks, spool, gate, env>> /\ WorkerOK'
         /\ w.run.pc = "begin"
         /\ \/ /\ w.run.fresh /\ MayAdvance(ses, "Importing")
               /\ ses' = Advanced(ses, "Importing") /\ Moves("read")
            \/ ses' = ses /\ Rests(w.cache)
<1>1. /\ w.run.pc = "begin" /\ UNCHANGED <<file, host, jobs, marks, spool, gate, env>>
  BY DEF WorkerBegins
<1>2. WorkerOK /\ "read" \in Steps
  BY DEF Base, Outer, Steps
<1>3. CASE w.run.fresh /\ MayAdvance(ses, "Importing")
  <2>1. ses' = Advanced(ses, "Importing") /\ Goes([w.run EXCEPT !.pc = "read"])
    BY <1>3 DEF WorkerBegins
  <2>2. Moves("read")
    BY <1>1, <1>2, <2>1, MovesGives
  <2> QED BY <1>1, <1>3, <2>1, <2>2 DEF Moves
<1>4. CASE ~(w.run.fresh /\ MayAdvance(ses, "Importing"))
  <2>1. Stop /\ ses' = ses
    BY <1>4 DEF WorkerBegins
  <2>2. Rests(w.cache)
    BY <1>2, <2>1, StopGives DEF Rests
  <2> QED BY <1>1, <2>1, <2>2 DEF Rests
<1> QED BY <1>3, <1>4

LEMMA WorkerBeginsStep == ASSUME Base, WorkerBegins PROVE Step
<1>1. /\ UNCHANGED <<file, host, jobs, marks, spool, gate, env>> /\ WorkerOK'
      /\ ses' = Advanced(ses, "Importing") \/ ses' = ses
  BY BeginsGives
<1>2. ses \in Sessions /\ "Importing" \in Bodies
  BY DEF Base, Store, Types, Bodies
<1>3. /\ ses' \in Sessions /\ Metadata(ses') = Metadata(ses)
      /\ ses.access # "none" => ses'.access # "none"
  BY <1>1, <1>2, AdvancedType
<1> QED BY <1>1, <1>3, EnvSame, ToldStep DEF Base, Outer

LEMMA RecordRead ==
  ASSUME NEW f, FileOK(f), NEW offset \in Nat, NEW v, v = RecordAt(f, offset), Readable(v)
  PROVE  \E e \in Range(f.recs) : /\ e.start = offset /\ e.val = v /\ e \in Records
                                  /\ e.end = offset + Width[v] /\ e.end <= Size(f)
                                  /\ v \in Payloads
<1>1. v # "fragment"
  BY DEF Readable
<1>2. \E i \in DOMAIN f.recs : f.recs[i].start = offset
  BY <1>1 DEF RecordAt
<1>3. PICK i \in DOMAIN f.recs : f.recs[i].start = offset /\ v = f.recs[i].val
  <2>1. PICK i : i = CHOOSE j \in DOMAIN f.recs : f.recs[j].start = offset
    OBVIOUS
  <2>2. i \in DOMAIN f.recs /\ f.recs[i].start = offset
    BY <1>2, <2>1
  <2>3. v = f.recs[i].val
    BY <1>2, <2>1 DEF RecordAt
  <2> QED BY <2>2, <2>3
<1>4. f.recs[i] \in Range(f.recs)
  BY DEF Range
<1>5. PICK e : e = f.recs[i]
  OBVIOUS
<1>6. /\ e \in Range(f.recs) /\ e.start = offset /\ v = e.val
  BY <1>3, <1>4, <1>5
<1>7. Leg(f.recs, 0)
  BY DEF FileOK
<1>8. /\ e \in Records /\ e.end = e.start + Width[e.val] /\ e.end <= EndOf(f.recs, 0)
  BY <1>6, <1>7, LegBounds
<1>9. v \in Payloads
  BY <1>6, <1>8 DEF Records
<1> QED BY <1>6, <1>8, <1>9 DEF Size

LEMMA ReadFromType ==
  ASSUME w.run \in Runs, w.run.range # <<>>
  PROVE  ReadFrom \in Nat /\ w.run.range[1] \in Ranges
<1>1. w.run.range \in Seq(Ranges) /\ w.run.got \in Seq(CaptureRecords)
  BY DEF Runs
<1>2. w.run.range[1] \in Ranges
  BY <1>1
<1>3. w.run.got # <<>> => w.run.got[Len(w.run.got)] \in CaptureRecords
  BY <1>1
<1> QED BY <1>2, <1>3 DEF ReadFrom, Last, Ranges, CaptureRecords

LEMMA ScopeKinds ==
  ASSUME NEW s, NEW a, NEW b
  PROVE  import_scope(s, a, b) \in {"refused", "origin", "repository", "unscoped"}
BY DEF import_scope

LEMMA TurnTakenType ==
  ASSUME Base, Running
  PROVE  Slot(TurnTaken) \/ \E next \in RangeKinds : TurnTaken = [Vouched EXCEPT !.turn = next]
<1> DEFINE other == {r \in import_ranges(w.run.ctx, w.run.mark) : r.kind # w.run.range[1].kind}
           chosen == CHOOSE r \in other : TRUE
<1>1. /\ w.run.ctx \in Sessions /\ FileOK(w.run.ctx.fp) /\ w.run.mark \in Marks /\ w.cache \in Caches
  BY ContextGives
<1>2. other \subseteq Ranges
  BY <1>1, RangesType
<1>3. CASE other = {} \/ w.run.got # <<>>
  BY <1>1, <1>3 DEF TurnTaken, Slot
<1>4. CASE ~(other = {} \/ w.run.got # <<>>)
  <2>1. chosen \in Ranges
    BY <1>2, <1>4
  <2>2. TurnTaken = [Vouched EXCEPT !.turn = chosen.kind]
    BY <1>4 DEF TurnTaken
  <2> HIDE DEF chosen
  <2>3. chosen.kind \in RangeKinds
    BY <2>1 DEF Ranges
  <2> QED BY <2>2, <2>3
<1> QED BY <1>3, <1>4

\* A cache like the vouched one, or the one there was, but for whose turn it is.
CacheLike(c) ==
    /\ c \in Caches
    /\ \/ c.key = w.cache.key /\ c.early = w.cache.early /\ c.main = w.cache.main
       \/ c.key = Vouched.key /\ c.early = Vouched.early /\ c.main = Vouched.main
LEMMA TurnTakenLike == ASSUME Base, Running PROVE CacheLike(TurnTaken)
<1>1. w.cache \in Caches /\ Vouched \in Caches
  BY ContextGives, VouchedGives
<1>2. ASSUME NEW next \in RangeKinds, TurnTaken = [Vouched EXCEPT !.turn = next]
      PROVE  CacheLike(TurnTaken)
  BY <1>1, <1>2 DEF CacheLike, Caches
<1> QED BY <1>1, <1>2, TurnTakenType DEF CacheLike, Slot

CapturedRun(r) ==
    /\ w'.run.pc = "read" /\ w'.run.ctx = w.run.ctx /\ w'.run.gate = w.run.gate
    /\ w'.run.mark = w.run.mark /\ w'.run.fresh = w.run.fresh /\ w'.run.range = w.run.range
    /\ w'.run.got = Append(w.run.got, r) /\ w'.run.target = w.run.target
CapturesGives(r) ==
    /\ UNCHANGED <<file, host, ses, jobs, marks, gate, env>> /\ WorkerOK'
    /\ w.run.pc = "read" /\ w.run.range # <<>> /\ file = ses.fp
    /\ r.rev = ses.rev /\ r.start = ReadFrom /\ r.end = r.start + Width[r.val]
    /\ Readable(r.val) /\ r.end <= Size(ses.fp) /\ Entry(r) \in Range(ses.fp.recs)
    /\ r.scope = import_scope(w.run.ctx, r.start, r.end) /\ r.scope # "refused"
    /\ CapturedRun(r) /\ CacheLike(w'.cache)
    /\ (InSpool(r) /\ spool' = spool) \/ spool' = Append(spool, r)

LEMMA WorkerCapturesGives ==
  ASSUME Base, WorkerCaptures
  PROVE  \E r \in CaptureRecords : CapturesGives(r)
<1>r. PICK r : r = NextRecord
  OBVIOUS
<1>1. /\ w.run.pc = "read" /\ w.run.range # <<>> /\ file = w.run.ctx.fp /\ Readable(r.val)
      /\ r.scope # "refused"
      /\ spool' = (IF InSpool(r) THEN spool ELSE Append(spool, r))
      /\ w' = [run |-> [w.run EXCEPT !.got = Append(@, r)], cache |-> TurnTaken]
      /\ UNCHANGED <<file, host, ses, jobs, marks, gate, env>>
  BY <1>r DEF WorkerCaptures
<1>2. Running /\ WorkerOK
  BY <1>1 DEF Running, Base, Outer
<1>3. /\ w.run \in Runs /\ w.run.ctx.rev = ses.rev /\ w.run.ctx.fp = ses.fp
      /\ w.run.ctx \in Sessions /\ w.run.gate \in Gates
  BY <1>2, ContextGives
<1>4. ReadFrom \in Nat
  BY <1>1, <1>3, ReadFromType
<1>v. PICK v : v = RecordAt(file, ReadFrom)
  OBVIOUS
<1>e. PICK end : end = ReadFrom + (IF Readable(v) THEN Width[v] ELSE 1)
  OBVIOUS
<1>5. r = [rev |-> w.run.ctx.rev, start |-> ReadFrom, end |-> end, val |-> v,
           scope |-> import_scope(w.run.ctx, ReadFrom, end)]
  BY <1>r, <1>v, <1>e DEF NextRecord
<1>6. /\ r.rev = ses.rev /\ r.start = ReadFrom /\ r.end = end /\ r.val = v
      /\ r.scope = import_scope(w.run.ctx, r.start, r.end) /\ Readable(v)
  BY <1>1, <1>3, <1>5
<1>7. end = ReadFrom + Width[v]
  BY <1>e, <1>6
<1>8. FileOK(file) /\ file = ses.fp
  BY <1>1, <1>3 DEF Base, Store, Types
<1>9. PICK e \in Range(file.recs) : /\ e.start = ReadFrom /\ e.val = v /\ e \in Records
                                    /\ e.end = ReadFrom + Width[v] /\ e.end <= Size(file)
                                    /\ v \in Payloads
  BY <1>4, <1>6, <1>8, <1>v, RecordRead
<1>10. Entry(r) = e
  BY <1>6, <1>7, <1>9 DEF Entry, Records
<1>11. r.scope \in {"repository", "origin", "unscoped"}
  BY <1>1, <1>6, ScopeKinds
<1>12. r \in CaptureRecords
  <2>1. end \in Nat /\ ses.rev \in Revisions
    BY <1>7, <1>9 DEF Records, Base, Store, Types, Sessions
  <2> QED BY <1>3, <1>4, <1>5, <1>6, <1>9, <1>11, <2>1 DEF CaptureRecords
<1>13. PICK run : run = [w.run EXCEPT !.got = Append(w.run.got, r)]
  OBVIOUS
<1>14. /\ run \in Runs /\ run.pc = w.run.pc /\ run.ctx = w.run.ctx /\ run.gate = w.run.gate
       /\ run.mark = w.run.mark /\ run.fresh = w.run.fresh /\ run.range = w.run.range
       /\ run.got = Append(w.run.got, r) /\ run.target = w.run.target
  <2>1. w.run.got \in Seq(CaptureRecords)
    BY <1>3 DEF Runs
  <2>2. PICK got \in Seq(CaptureRecords) : got = Append(w.run.got, r)
    BY <1>12, <2>1, AppendProperties, Zenon
  <2>3. run = [w.run EXCEPT !.got = got]
    BY <1>13, <2>2
  <2> QED BY <1>3, <2>2, <2>3 DEF Runs
<1>15. CacheLike(TurnTaken)
  BY <1>2, TurnTakenLike
<1>16. w' = [run |-> run, cache |-> TurnTaken]
  BY <1>1, <1>13
<1>17. WorkerOK' /\ w'.run = run /\ w'.cache = TurnTaken
  BY <1>3, <1>14, <1>15, <1>16 DEF WorkerOK, CacheLike
<1>18. CapturedRun(r)
  BY <1>1, <1>14, <1>17 DEF CapturedRun
<1>19. CapturesGives(r)
  BY <1>1, <1>6, <1>7, <1>8, <1>9, <1>10, <1>15, <1>17, <1>18 DEF CapturesGives
<1> QED BY <1>12, <1>19

LEMMA WorkerCapturesStep == ASSUME Base, WorkerCaptures PROVE Step
<1>1. PICK r \in CaptureRecords : CapturesGives(r)
  BY WorkerCapturesGives
<1>2. EnvOK' /\ EnvKept /\ env'.mixed = env.mixed
  BY <1>1, EnvSame DEF CapturesGives, Base, Outer
<1>3. CASE spool' = spool
  BY <1>1, <1>2, <1>3, QuietStep DEF CapturesGives, Base, Outer
<1>4. CASE spool' = Append(spool, r)
  <2>1. CapturesOne(r)
    BY <1>1, <1>2, <1>4 DEF CapturesGives, CapturesOne
  <2> QED BY <1>1, <1>2, <2>1 DEF CapturesGives, Step, Base, Outer, StoreStep, Fixed, EnvKept
<1> QED BY <1>1, <1>3, <1>4 DEF CapturesGives

LEMMA RefusesGives ==
  ASSUME Base, WorkerRefusesRecord
  PROVE  /\ UNCHANGED <<file, host, marks, spool, gate, env>> /\ WorkerOK'
         /\ w.run.pc = "read"
         /\ \/ /\ ses' = Advanced(ses, "Failed") /\ jobs' = <<>> /\ MayAdvance(ses, "Failed")
               /\ Rests(NothingProved)
            \/ UNCHANGED <<ses, jobs>> /\ Rests(w.cache)
<1> DEFINE fails == MayAdvance(ses, "Failed") /\ Len(jobs) <= 1
                    /\ (\A j \in DOMAIN jobs : jobs[j].state = "Leased")
<1>1. /\ w.run.pc = "read" /\ UNCHANGED <<file, host, marks, spool, gate, env>>
      /\ ses' = IF fails THEN Advanced(ses, "Failed") ELSE ses
      /\ jobs' = IF fails THEN <<>> ELSE jobs
      /\ w' = [run |-> Rest, cache |-> IF fails THEN NothingProved ELSE w.cache]
  BY DEF WorkerRefusesRecord
<1>2. NothingProved \in Caches /\ w.cache \in Caches
  BY RunRest DEF Base, Outer, WorkerOK
<1>3. CASE fails
  <2>1. w' = [run |-> Rest, cache |-> NothingProved]
    BY <1>1, <1>3
  <2>2. Rests(NothingProved)
    BY <1>2, <2>1, RestGives DEF Rests
  <2> QED BY <1>1, <1>3, <2>2 DEF Rests
<1>4. CASE ~fails
  <2>1. w' = [run |-> Rest, cache |-> w.cache]
    BY <1>1, <1>4
  <2>2. Rests(w.cache)
    BY <1>2, <2>1, RestGives DEF Rests
  <2> QED BY <1>1, <1>4, <2>2 DEF Rests
<1> QED BY <1>3, <1>4

LEMMA AdvancedStep ==
  ASSUME Base, NEW body \in Bodies, ses' = ses \/ ses' = Advanced(ses, body),
         jobs' \in Seq(Jobs), UNCHANGED <<file, host, marks, spool, gate, env>>, WorkerOK'
  PROVE  Step
<1>1. ses \in Sessions
  BY DEF Base, Store, Types
<1>2. /\ ses' \in Sessions /\ Metadata(ses') = Metadata(ses)
      /\ ses.access # "none" => ses'.access # "none"
  BY <1>1, AdvancedType
<1> QED BY <1>2, EnvSame, ToldStep DEF Base, Outer

LEMMA WorkerRefusesRecordStep == ASSUME Base, WorkerRefusesRecord PROVE Step
<1>1. jobs' \in Seq(Jobs)
  BY RefusesGives, JobsTypes DEF Base, Outer
<1> QED BY <1>1, RefusesGives, AdvancedStep DEF Bodies

LEMMA StopsGives ==
  ASSUME Base, WorkerStopsReading
  PROVE  /\ UNCHANGED <<file, host, ses, jobs, marks, spool, gate>> /\ WorkerOK'
         /\ EnvOK' /\ EnvKept /\ env'.mixed = env.mixed /\ w.run.pc = "read"
         /\ \/ w.run.range = <<>> /\ Moves("handoff")
            \/ /\ w.run.range # <<>> /\ w.run.got # <<>> /\ file = ses.fp /\ Moves("drain")
            \/ Rests(w.cache)
<1>1. /\ w.run.pc = "read" /\ UNCHANGED <<file, host, ses, jobs, marks, spool, gate>>
      /\ Fault \/ UNCHANGED env
      /\ \/ w.run.range = <<>> /\ Goes([w.run EXCEPT !.pc = "handoff"])
         \/ /\ w.run.range # <<>> /\ w.run.got # <<>> /\ file = w.run.ctx.fp
            /\ Goes([w.run EXCEPT !.pc = "drain"])
         \/ Stop
  BY DEF WorkerStopsReading
<1>2. WorkerOK /\ Running /\ {"handoff", "drain"} \subseteq Steps
  BY <1>1 DEF Base, Outer, Steps, Running
<1>3. w.run.ctx.fp = ses.fp
  BY <1>2, ContextGives
<1>4. EnvOK' /\ EnvKept /\ env'.mixed = env.mixed
  BY <1>1, FaultKeeps, EnvSame DEF Base, Outer
<1>5. Goes([w.run EXCEPT !.pc = "handoff"]) => Moves("handoff")
  BY <1>1, <1>2, MovesGives
<1>6. Goes([w.run EXCEPT !.pc = "drain"]) => Moves("drain")
  BY <1>1, <1>2, MovesGives
<1>7. Stop => Rests(w.cache)
  BY <1>2, StopGives DEF Rests
<1> QED BY <1>1, <1>3, <1>4, <1>5, <1>6, <1>7 DEF Moves, Rests

LEMMA WorkerStopsReadingStep == ASSUME Base, WorkerStopsReading PROVE Step
BY StopsGives, QuietStep DEF Base, Outer

\* The least number of a set.
LEMMA LeastOf ==
  ASSUME NEW T, T \subseteq Nat, T # {}
  PROVE  \E x \in T : \A y \in T : x <= y
<1>1. PICK x \in T : \A y \in T : ~(<<y, x>> \in OpToRel(<, Nat))
  BY NatLessThanWellFounded, WFMin
<1>2. \A y \in T : ~(y < x)
  BY <1>1 DEF OpToRel
<1> QED BY <1>2

\* A record is committed, or dropped, and leaves the spool.
LEMMA TakeIsStep ==
  ASSUME Base, NEW k \in 1..Len(spool), Takes(k), EnvOK', EnvKept, host' = host,
         jobs' = jobs, gate' = gate, WorkerOK'
  PROVE  Step
BY DEF Step, Base, Outer, StoreStep, Fixed, EnvKept

LEMMA CommitTakes ==
  ASSUME NEW k \in 1..Len(spool), MayCommit(spool[k]), Committed(spool[k]),
         spool' \in Seq(CaptureRecords), Without(spool, spool', k), UNCHANGED <<file, ses, env>>
  PROVE  Takes(k)
BY DEF MayCommit, Committed, Takes

LEMMA DrainsGives ==
  ASSUME Base, WorkerDrains
  PROVE  /\ UNCHANGED <<file, host, ses, jobs, gate, env>> /\ WorkerOK'
         /\ w.run.pc = "drain"
         /\ \/ /\ Moves("confirm") /\ UNCHANGED <<marks, spool>>
            \/ /\ w' = w
               /\ \E k \in 1..Len(spool) : Takes(k) /\ MayCommit(spool[k])
            \/ Rests(w.cache) /\ UNCHANGED <<marks, spool>>
<1> DEFINE mine == {i \in DOMAIN spool : \E r \in Range(w.run.got) : SameRecord(spool[i], r)}
           first == CHOOSE i \in mine : \A j \in mine : i <= j
<1>1. /\ w.run.pc = "drain" /\ UNCHANGED <<file, host, ses, jobs, gate, env>>
  BY DEF WorkerDrains
<1>2. WorkerOK /\ "confirm" \in Steps /\ spool \in Seq(CaptureRecords)
  BY DEF Base, Outer, Steps, Store, Types
<1>3. CASE mine = {}
  <2>1. Goes([w.run EXCEPT !.pc = "confirm"]) /\ UNCHANGED <<marks, spool>>
    BY <1>3 DEF WorkerDrains
  <2>2. Moves("confirm")
    BY <1>1, <1>2, <2>1, MovesGives
  <2> QED BY <1>1, <2>1, <2>2 DEF Moves
<1>4. CASE mine # {} /\ MayCommit(spool[first])
  <2>1. Committed(spool[first]) /\ spool' = RemoveAt(spool, first) /\ UNCHANGED w
    BY <1>4 DEF WorkerDrains
  <2>2. mine \subseteq 1..Len(spool)
    BY <1>2
  <2>3. first \in mine
    <3>1. mine \subseteq Nat
      BY <2>2
    <3> HIDE DEF mine
    <3>2. \E i \in mine : \A j \in mine : i <= j
      BY <1>4, <3>1, LeastOf
    <3> QED BY <3>2
  <2> HIDE DEF first, mine
  <2>4. first \in 1..Len(spool)
    BY <2>2, <2>3
  <2>5. spool' \in Seq(CaptureRecords) /\ Without(spool, spool', first)
    BY <1>2, <2>1, <2>4, RemovedGives
  <2>6. Takes(first)
    BY <1>1, <1>4, <2>1, <2>4, <2>5, CommitTakes
  <2>7. WorkerOK'
    BY <1>2, <2>1, WorkerSame
  <2> QED BY <1>1, <1>4, <2>1, <2>4, <2>6, <2>7
<1>5. CASE mine # {} /\ ~MayCommit(spool[first])
  <2>1. Stop /\ UNCHANGED <<marks, spool>>
    BY <1>5 DEF WorkerDrains
  <2>2. Rests(w.cache)
    BY <1>2, <2>1, StopGives DEF Rests
  <2> QED BY <1>1, <2>1, <2>2 DEF Rests
<1> QED BY <1>3, <1>4, <1>5

LEMMA WorkerDrainsStep == ASSUME Base, WorkerDrains PROVE Step
<1>1. UNCHANGED <<file, host, ses, jobs, gate, env>> /\ WorkerOK'
  BY DrainsGives
<1>2. EnvOK' /\ EnvKept /\ env'.mixed = env.mixed
  BY <1>1, EnvSame DEF Base, Outer
<1>3. UNCHANGED <<marks, spool>> => Step
  BY <1>1, <1>2, QuietStep DEF Base, Outer
<1>4. (\E k \in 1..Len(spool) : Takes(k)) => Step
  BY <1>1, <1>2, TakeIsStep
<1> QED BY <1>3, <1>4, DrainsGives

LEMMA IngestGives ==
  ASSUME Base, IngestDrains
  PROVE  /\ UNCHANGED <<file, host, ses, jobs, gate, w, env>> /\ 1 \in 1..Len(spool) /\ Takes(1)
         /\ Discarded(spool[1]) \/ MayCommit(spool[1])
<1>1. spool # <<>> /\ spool \in Seq(CaptureRecords)
  BY DEF IngestDrains, Base, Store, Types
<1>2. /\ Tail(spool) \in Seq(CaptureRecords) /\ Without(spool, Tail(spool), 1) /\ Head(spool) = spool[1]
      /\ 1 \in 1..Len(spool)
  BY <1>1, TailGives
<1>3. /\ UNCHANGED <<file, host, ses, jobs, gate, w, env>> /\ spool' = Tail(spool)
      /\ Discarded(spool[1]) \/ MayCommit(spool[1])
      /\ IF Discarded(spool[1]) THEN UNCHANGED marks ELSE Committed(spool[1])
  BY <1>2 DEF IngestDrains
<1>4. CASE Discarded(spool[1])
  BY <1>2, <1>3, <1>4 DEF Takes
<1>5. CASE ~Discarded(spool[1])
  BY <1>2, <1>3, <1>5, CommitTakes
<1> QED BY <1>2, <1>3, <1>4, <1>5

LEMMA IngestDrainsStep == ASSUME Base, IngestDrains PROVE Step
<1>1. EnvOK' /\ EnvKept /\ WorkerOK'
  BY IngestGives, EnvSame, WorkerSame DEF Base, Outer
<1> QED BY <1>1, IngestGives, TakeIsStep

LegName == IF w.run.range[1].kind = "prefix" THEN "early" ELSE "main"
ReachedEnd == LET m == MarkOf(ses.rev) IN
              IF m = NoMark THEN 0 ELSE IF LegName = "early" THEN EarlyEnd(m) ELSE MainEnd(m)
ConfirmedCache(c) ==
    /\ c \in Caches
    /\ \/ c = w.cache
       \/ /\ c.key = w.cache.key /\ w.cache.key = <<ses.rev, ses.fp>>
          /\ \/ LegName = "early" /\ c.early = ReachedEnd /\ c.main = w.cache.main
             \/ LegName = "main" /\ c.main = ReachedEnd /\ c.early = w.cache.early
LEMMA ConfirmsGives ==
  ASSUME Base, WorkerConfirms
  PROVE  /\ UNCHANGED <<file, host, marks, spool, gate, env>> /\ WorkerOK'
         /\ w.run.pc = "confirm"
         /\ \/ UNCHANGED <<ses, jobs>> /\ Rests(w.cache)
            \/ /\ UNCHANGED <<ses, jobs>> /\ w'.cache = w.cache
               /\ w'.run.pc = "handoff" /\ w'.run.ctx = w.run.ctx /\ w'.run.gate = w.run.gate
               /\ w'.run.mark = MarkOf(ses.rev) /\ w'.run.fresh = w.run.fresh
               /\ w'.run.range = w.run.range /\ w'.run.got = w.run.got
               /\ w'.run.target = finished_import_state(ses, MarkOf(ses.rev))
               /\ w'.run.target # "none"
            \/ /\ MayAdvance(ses, "Partial") /\ ses' = Advanced(ses, "Partial")
               /\ jobs' = [j \in DOMAIN jobs |-> Queued]
               /\ \E c \in Caches : Rests(c) /\ ConfirmedCache(c)
<1> DEFINE range == w.run.range[1]
           end == Last(w.run.got).end
           leg == IF range.kind = "prefix" THEN "early" ELSE "main"
<1>m. PICK m : m = MarkOf(ses.rev)
  OBVIOUS
<1>e. PICK reached : reached = IF m = NoMark THEN 0
                               ELSE IF leg = "early" THEN EarlyEnd(m) ELSE MainEnd(m)
  OBVIOUS
<1>t. PICK target : target = IF end = range.end THEN finished_import_state(ses, m) ELSE "none"
  OBVIOUS
<1>1. /\ w.run.pc = "confirm" /\ UNCHANGED <<file, host, marks, spool, gate, env>>
  BY DEF WorkerConfirms
<1>2. WorkerOK /\ Running
  BY <1>1 DEF Base, Outer, Running
<1>3. /\ w.run \in Runs /\ w.cache \in Caches /\ w.run.ctx \in Sessions /\ w.run.gate \in Gates
      /\ ses.rev \in Revisions /\ ses.fp \in AnyFile
  BY <1>2, ContextGives DEF Base, Store, Types, Sessions
<1>4. m \in Marks
  BY <1>m, MarkType DEF Base, Store, Types, MarksOK
<1>5. EarlyEnd(m) \in Nat /\ MainEnd(m) \in Nat /\ reached \in Nat /\ reached = ReachedEnd
  BY <1>m, <1>e, <1>4, EndTypes DEF ReachedEnd, LegName
<1> DEFINE confirmed == Len(jobs) <= 1 /\ reached = end /\ file = w.run.ctx.fp
<1>6. CASE ~confirmed
  <2>1. Stop /\ UNCHANGED <<ses, jobs>>
    BY <1>6, <1>m, <1>e DEF WorkerConfirms
  <2>2. Rests(w.cache)
    BY <1>2, <2>1, StopGives DEF Rests
  <2> QED BY <1>1, <2>1, <2>2 DEF Rests
<1>7. CASE confirmed /\ target # "none"
  <2>1. PICK run : run = [w.run EXCEPT !.pc = "handoff", !.mark = m, !.target = target]
    OBVIOUS
  <2>2. Goes(run) /\ UNCHANGED <<ses, jobs>>
    BY <1>7, <1>m, <1>e, <1>t, <2>1 DEF WorkerConfirms
  <2>3. target = finished_import_state(ses, m) /\ target \in {"none", "Imported", "Partial"}
    BY <1>t, <1>7 DEF finished_import_state
  <2>4. /\ run \in Runs /\ run.pc = "handoff" /\ run.ctx = w.run.ctx /\ run.gate = w.run.gate
        /\ run.mark = m /\ run.fresh = w.run.fresh /\ run.range = w.run.range
        /\ run.got = w.run.got /\ run.target = target
    BY <1>3, <1>4, <2>1, <2>3 DEF Runs, Steps
  <2>5. WorkerOK' /\ w'.run = run /\ w'.cache = w.cache
    BY <1>2, <1>3, <2>2, <2>4, WorkerMoves
  <2> QED BY <1>m, <1>1, <1>7, <2>2, <2>3, <2>4, <2>5
<1>8. CASE confirmed /\ target = "none"
           /\ MayAdvance(ses, "Partial") /\ (\A j \in DOMAIN jobs : jobs[j].state = "Leased")
  <2>1. PICK c : c = IF w.cache.key = CacheKey(ses) THEN [w.cache EXCEPT ![leg] = end] ELSE w.cache
    OBVIOUS
  <2>2. /\ ses' = Advanced(ses, "Partial") /\ jobs' = [j \in DOMAIN jobs |-> Queued]
        /\ w' = [run |-> Rest, cache |-> c]
    BY <1>8, <1>m, <1>e, <1>t, <2>1 DEF WorkerConfirms
  <2>3. end = reached /\ CacheKey(ses) = <<ses.rev, ses.fp>>
    BY <1>8 DEF CacheKey
  <2>4. leg = LegName /\ (leg = "early" \/ leg = "main")
    BY DEF LegName
  <2> HIDE DEF end, leg
  <2>5. c \in Caches /\ ConfirmedCache(c)
    <3>1. CASE w.cache.key # CacheKey(ses)
      BY <1>3, <2>1, <3>1 DEF ConfirmedCache
    <3>2. CASE w.cache.key = CacheKey(ses) /\ leg = "early"
      <4>1. c = [w.cache EXCEPT !.early = reached]
        BY <2>1, <2>3, <3>2
      <4>2. c \in Caches /\ c.key = w.cache.key /\ c.early = reached /\ c.main = w.cache.main
        BY <1>3, <1>5, <4>1 DEF Caches
      <4> QED BY <1>5, <2>3, <2>4, <3>2, <4>2 DEF ConfirmedCache
    <3>3. CASE w.cache.key = CacheKey(ses) /\ leg = "main"
      <4>1. c = [w.cache EXCEPT !.main = reached]
        BY <2>1, <2>3, <3>3
      <4>2. c \in Caches /\ c.key = w.cache.key /\ c.main = reached /\ c.early = w.cache.early
        BY <1>3, <1>5, <4>1 DEF Caches
      <4> QED BY <1>5, <2>3, <2>4, <3>3, <4>2 DEF ConfirmedCache
    <3> QED BY <2>4, <3>1, <3>2, <3>3
  <2>6. WorkerOK' /\ Rests(c)
    BY <2>2, <2>5, RestGives DEF Rests
  <2> QED BY <1>1, <1>8, <2>2, <2>5, <2>6
<1>9. CASE confirmed /\ target = "none"
           /\ ~(MayAdvance(ses, "Partial") /\ (\A j \in DOMAIN jobs : jobs[j].state = "Leased"))
  <2>1. Stop /\ UNCHANGED <<ses, jobs>>
    BY <1>9, <1>m, <1>e, <1>t DEF WorkerConfirms
  <2>2. Rests(w.cache)
    BY <1>2, <2>1, StopGives DEF Rests
  <2> QED BY <1>1, <2>1, <2>2 DEF Rests
<1> QED BY <1>6, <1>7, <1>8, <1>9

LEMMA WorkerConfirmsStep == ASSUME Base, WorkerConfirms PROVE Step
<1>1. /\ UNCHANGED <<file, host, marks, spool, gate, env>> /\ WorkerOK'
      /\ ses' = ses \/ ses' = Advanced(ses, "Partial")
      /\ jobs' = jobs \/ jobs' = [j \in DOMAIN jobs |-> Queued]
  BY ConfirmsGives
<1>2. jobs' \in Seq(Jobs) /\ "Partial" \in Bodies
  BY <1>1, JobsTypes DEF Base, Outer, Bodies
<1> QED BY <1>1, <1>2, AdvancedStep

LEMMA HandsOffGives ==
  ASSUME Base, WorkerHandsOff
  PROVE  /\ UNCHANGED <<file, host, marks, spool, gate, env>> /\ WorkerOK'
         /\ w.run.pc = "handoff" /\ w.run.target \in {"Imported", "Partial"}
         /\ \/ /\ HandoffReady /\ ses' = Advanced(ses, w.run.target) /\ jobs' = <<>>
               /\ Rests(NothingProved)
            \/ UNCHANGED <<ses, jobs>> /\ Rests(w.cache)
<1>1. /\ w.run.pc = "handoff" /\ UNCHANGED <<file, host, marks, spool, gate, env>>
  BY DEF WorkerHandsOff
<1>2. WorkerOK /\ w.run.target # "none"
  BY <1>1 DEF Base, Outer, Steady
<1>3. w.run.target \in {"Imported", "Partial"}
  BY <1>2 DEF WorkerOK, Runs
<1>4. CASE HandoffReady
  <2>1. ses' = Advanced(ses, w.run.target) /\ jobs' = <<>>
        /\ w' = [run |-> Rest, cache |-> NothingProved]
    BY <1>4 DEF WorkerHandsOff
  <2>2. Rests(NothingProved)
    BY <2>1, RunRest, RestGives DEF Rests
  <2> QED BY <1>1, <1>3, <1>4, <2>1, <2>2 DEF Rests
<1>5. CASE ~HandoffReady
  <2>1. Stop /\ UNCHANGED <<ses, jobs>>
    BY <1>5 DEF WorkerHandsOff
  <2>2. Rests(w.cache)
    BY <1>2, <2>1, StopGives DEF Rests
  <2> QED BY <1>1, <1>3, <2>1, <2>2 DEF Rests
<1> QED BY <1>4, <1>5

LEMMA WorkerHandsOffStep == ASSUME Base, WorkerHandsOff PROVE Step
<1>1. jobs' \in Seq(Jobs) /\ w.run.target \in Bodies
  BY HandsOffGives, JobsTypes DEF Base, Outer, Bodies
<1> QED BY <1>1, HandsOffGives, AdvancedStep

LEMMA StutterStep == ASSUME Base, UNCHANGED importVars PROVE Step
BY QuietStep, EnvSame, WorkerSame DEF Base, Outer, importVars

LEMMA EveryStep ==
  ASSUME Base, [ImportNext]_importVars
  PROVE  Step
BY StutterStep, FileGrowsStep, FileReplacedStep, HostChangesStep, RepositoryPurgedStep,
   LeaseExpiresStep, CrashStep, RefreshStep, ObserveSourceStep, QueueImportStep,
   RevokeAccessStep, WorkerPreflightsStep, WorkerSelectsStep, WorkerAuthorizesStep,
   WorkerVerifiesStep, WorkerClaimsStep, WorkerBeginsStep, WorkerCapturesStep,
   WorkerRefusesRecordStep, WorkerStopsReadingStep, WorkerDrainsStep, WorkerConfirmsStep,
   WorkerHandsOffStep, IngestDrainsStep, RecoverLeaseStep
   DEF ImportNext, WorkerNext

LEMMA OuterAndStore ==
  ASSUME Base, [ImportNext]_importVars
  PROVE  Outer' /\ Store' /\ StoreStep /\ Fixed
BY EveryStep, StepKeepsStore DEF Base, Outer, Step
-----------------------------------------------------------------------------
(* The worker keeps to the session it read.                                  *)

\* The worker at rest: its got may be a former one.
LEMMA IdleSteady ==
  ASSUME Base, w'.run.pc = "idle", w'.run.got = w.run.got \/ w'.run.got = <<>>
  PROVE  Steady'
<1>1. \A i \in 1..Len(w'.run.got) :
         LET r == w'.run.got[i] IN r.end = r.start + Width[r.val]
  BY DEF Base, Steady
<1> QED BY <1>1 DEF Steady, Running

LEMMA RestSteady ==
  ASSUME Base, w'.run = Rest
  PROVE  Steady'
BY IdleSteady DEF Rest

\* A session record that keeps its metadata, and a worker that notices.
LEMMA ToldSteady ==
  ASSUME Base, Touched, ses' \in Sessions, Metadata(ses') = Metadata(ses),
         Running => ses'.body \notin {"NotImported", "SourceReplaced"}
  PROVE  Steady'
<1>1. /\ w'.run.pc = w.run.pc /\ w'.run.ctx = w.run.ctx /\ w'.run.got = w.run.got
      /\ w'.run.range = w.run.range /\ w'.run.target = w.run.target /\ w'.run.fresh = FALSE
  BY TouchedGives DEF Base, Outer
<1>2. Metadata(ses)' = Metadata(ses')
  BY DEF Metadata
<1> QED BY <1>1, <1>2 DEF Steady, Base, Running, Metadata

LEMMA SameSteady ==
  ASSUME Base, w' = w, ses' = ses
  PROVE  Steady'
BY DEF Steady, Base, Running, Metadata

LEMMA MovesSteady ==
  ASSUME Base, NEW pc \in Steps, Moves(pc), w.run.pc # "idle", ses' = ses,
         pc \in {"authorize", "verify", "claim", "begin"} =>
           w.run.pc \in {"authorize", "verify", "claim", "begin"},
         w.run.ctx.kind # "Unavailable" /\ w.run.ctx.access # "Revoked",
         pc \in {"drain", "confirm"} => w.run.got # <<>> /\ w.run.range # <<>>,
         pc = "handoff" => w.run.target # "none", pc \notin {"begin", "read"}
  PROVE  Steady'
BY DEF Steady, Base, Running, Metadata, Moves

LEMMA SelectsSteady == ASSUME Base, WorkerSelects PROVE Steady'
BY SelectsGives DEF Steady, Running, Metadata, Active

LEMMA AuthorizesSteady == ASSUME Base, WorkerAuthorizes PROVE Steady'
<1>1. CASE Moves("verify") /\ Authorized(w.run.ctx, w.run.gate) /\ UNCHANGED <<ses, jobs>>
  <2>1. w.run.ctx.kind # "Unavailable" /\ w.run.ctx.access # "Revoked"
    BY <1>1 DEF Authorized, ReadAllowed
  <2> QED BY <1>1, <2>1, AuthorizesGives, MovesSteady DEF Steps
<1>2. CASE Rests(w.cache) \/ Rests(NothingProved)
  BY <1>2, RestSteady DEF Rests
<1> QED BY <1>1, <1>2, AuthorizesGives

LEMMA VerifiesSteady == ASSUME Base, WorkerVerifies PROVE Steady'
<1>1. CASE Moves("claim") /\ UNCHANGED <<ses, jobs>>
  <2>1. w.run.ctx.kind # "Unavailable" /\ w.run.ctx.access # "Revoked"
    BY VerifiesGives DEF Base, Steady
  <2> QED BY <1>1, <2>1, VerifiesGives, MovesSteady DEF Steps
<1>2. CASE w'.run = Rest
  BY <1>2, RestSteady
<1> QED BY <1>1, <1>2, VerifiesGives DEF Rests

LEMMA ClaimsSteady == ASSUME Base, WorkerClaims PROVE Steady'
<1>1. CASE w'.run = Rest
  BY <1>1, RestSteady
<1>2. CASE /\ Authorized(ses, gate)
           /\ \E range \in Seq(Ranges) :
                    /\ ClaimedRun(range, finished_import_state(ses, w.run.mark))
                    /\ range = <<>> => finished_import_state(ses, w.run.mark) # "none"
  <2>1. ses.kind # "Unavailable" /\ ses.access # "Revoked" /\ Active(ses)
    BY <1>2 DEF Authorized, ReadAllowed
  <2>2. ses' = ses /\ w.run.got = <<>>
    BY ClaimsGives DEF Base, Steady
  <2>3. /\ w'.run.pc \in {"read", "begin"} /\ w'.run.ctx = ses /\ w'.run.got = <<>>
        /\ w'.run.range = <<>> => w'.run.target # "none"
    BY <1>2, <2>2 DEF ClaimedRun
  <2> QED BY <2>1, <2>2, <2>3 DEF Steady, Running, Metadata, Active
<1> QED BY <1>1, <1>2, ClaimsGives DEF Rests

LEMMA BeginsSteady == ASSUME Base, WorkerBegins PROVE Steady'
<1>1. CASE w'.run = Rest
  BY <1>1, RestSteady
<1>2. CASE ses' = Advanced(ses, "Importing") /\ Moves("read")
  <2>1. ses \in Sessions /\ "Importing" \in Bodies
    BY DEF Base, Store, Types, Bodies
  <2>2. Metadata(ses') = Metadata(ses) /\ ses'.body = "Importing"
    BY <1>2, <2>1, AdvancedType
  <2>3. Metadata(ses)' = Metadata(ses')
    BY DEF Metadata
  <2>4. Metadata(w.run.ctx)' = Metadata(w.run.ctx)
    BY <1>2 DEF Moves, Metadata
  <2>5. w.run.pc = "begin"
    BY BeginsGives
  <2>6. Metadata(ses)' = Metadata(w.run.ctx)'
    BY <2>2, <2>3, <2>4, <2>5 DEF Base, Steady, Running
  <2> QED BY <1>2, <2>2, <2>5, <2>6 DEF Steady, Base, Running, Moves
<1> QED BY <1>1, <1>2, BeginsGives DEF Rests

LEMMA CapturesSteady == ASSUME Base, WorkerCaptures PROVE Steady'
<1>1. PICK r \in CaptureRecords : CapturesGives(r)
  BY WorkerCapturesGives
<1>2. /\ w.run.pc = "read" /\ ses' = ses /\ w'.run.pc = "read" /\ w'.run.ctx = w.run.ctx
      /\ w'.run.range = w.run.range /\ w'.run.target = w.run.target
      /\ w'.run.got = Append(w.run.got, r) /\ r.end = r.start + Width[r.val]
      /\ w.run.range # <<>>
  BY <1>1 DEF CapturesGives, CapturedRun
<1>3. w.run.got \in Seq(CaptureRecords)
  BY DEF Base, Outer, WorkerOK, Runs
<1>4. \A i \in 1..Len(w'.run.got) :
         LET q == w'.run.got[i] IN q.end = q.start + Width[q.val]
  <2> TAKE i \in 1..Len(w'.run.got)
  <2>1. CASE i \in 1..Len(w.run.got)
    <3>1. w'.run.got[i] = w.run.got[i]
      BY <1>2, <1>3, <2>1
    <3> QED BY <2>1, <3>1 DEF Base, Steady
  <2>2. CASE i = Len(w.run.got) + 1
    <3>1. w'.run.got[i] = r
      BY <1>2, <1>3, <2>2
    <3> QED BY <1>2, <3>1
  <2> QED BY <1>2, <1>3, <2>1, <2>2
<1> QED BY <1>2, <1>4 DEF Steady, Base, Running, Metadata

LEMMA StopsSteady == ASSUME Base, WorkerStopsReading PROVE Steady'
<1>1. CASE w'.run = Rest
  BY <1>1, RestSteady
<1>2. /\ ses' = ses /\ w.run.pc = "read"
      /\ w.run.ctx.kind # "Unavailable" /\ w.run.ctx.access # "Revoked"
      /\ w.run.range = <<>> => w.run.target # "none"
  BY StopsGives DEF Base, Steady
<1>3. CASE w.run.range = <<>> /\ Moves("handoff")
  BY <1>2, <1>3, MovesSteady DEF Steps
<1>4. CASE w.run.range # <<>> /\ w.run.got # <<>> /\ Moves("drain")
  BY <1>2, <1>4, MovesSteady DEF Steps
<1> QED BY <1>1, <1>3, <1>4, StopsGives DEF Rests

LEMMA DrainsSteady == ASSUME Base, WorkerDrains PROVE Steady'
<1>1. CASE w'.run = Rest
  BY <1>1, RestSteady
<1>2. /\ ses' = ses /\ w.run.pc = "drain"
      /\ w.run.ctx.kind # "Unavailable" /\ w.run.ctx.access # "Revoked"
      /\ w.run.got # <<>> /\ w.run.range # <<>>
  BY DrainsGives DEF Base, Steady
<1>3. CASE Moves("confirm")
  BY <1>2, <1>3, MovesSteady DEF Steps
<1>4. CASE w' = w
  BY <1>2, <1>4, SameSteady
<1> QED BY <1>1, <1>3, <1>4, DrainsGives DEF Rests

LEMMA ConfirmsSteady == ASSUME Base, WorkerConfirms PROVE Steady'
<1>1. CASE w'.run = Rest
  BY <1>1, RestSteady
<1>2. CASE /\ UNCHANGED <<ses, jobs>> /\ w'.run.pc = "handoff" /\ w'.run.ctx = w.run.ctx
           /\ w'.run.got = w.run.got /\ w'.run.target # "none"
  <2>1. w.run.pc = "confirm"
    BY ConfirmsGives
  <2> QED BY <1>2, <2>1 DEF Steady, Base, Running, Metadata
<1> QED BY <1>1, <1>2, ConfirmsGives DEF Rests

LEMMA SteadyKept ==
  ASSUME Base, [ImportNext]_importVars
  PROVE  Steady'
<1>1. CASE FileGrows \/ FileReplaced \/ HostChanges \/ RepositoryPurged \/ LeaseExpires
           \/ IngestDrains \/ RecoverLease \/ UNCHANGED importVars
  BY <1>1, SameSteady DEF FileGrows, FileReplaced, HostChanges, RepositoryPurged, LeaseExpires,
     IngestDrains, RecoverLease, importVars
<1>2. CASE Crash
  BY <1>2, RestSteady DEF Crash
<1>3. CASE \/ \E active \in BOOLEAN : Refresh(active)
           \/ WorkerPreflights
  BY <1>3, IdleSteady DEF Refresh, WorkerPreflights, QuantumGiven
<1>4. CASE ObserveSource
  <2>1. ~Running
    BY <1>4 DEF ObserveSource, Base, Steady
  <2>2. w'.run.pc = w.run.pc /\ w'.run.got = w.run.got
    BY <1>4, TouchedGives DEF ObserveSource, Base, Outer
  <2> QED BY <2>1, <2>2, IdleSteady DEF Running
<1>5. CASE QueueImport
  <2>1. /\ ses \in Sessions /\ Approved(ses) \in Sessions /\ "Queued" \in Bodies
        /\ Metadata(Approved(ses)) = Metadata(ses)
    BY DEF Base, Store, Types, Approved, Sessions, Metadata, Bodies
  <2>2. Touched /\ ses' = Advanced(Approved(ses), "Queued")
    BY <1>5 DEF QueueImport
  <2>3. ses' \in Sessions /\ Metadata(ses') = Metadata(ses) /\ ses'.body = "Queued"
    BY <2>1, <2>2, AdvancedType
  <2> QED BY <2>2, <2>3, ToldSteady
<1>6. CASE RevokeAccess
  <2>1. Touched /\ (Running => ses.body \notin {"NotImported", "SourceReplaced"})
    BY <1>6 DEF RevokeAccess, Base, Steady
  <2> QED BY <1>6, <2>1, RevokedGives, ToldSteady
<1>7. CASE WorkerRefusesRecord
  BY <1>7, RefusesGives, RestSteady DEF Rests
<1>8. CASE WorkerHandsOff
  BY <1>8, HandsOffGives, RestSteady DEF Rests
<1> QED BY <1>1, <1>2, <1>3, <1>4, <1>5, <1>6, <1>7, <1>8, SelectsSteady, AuthorizesSteady,
           VerifiesSteady, ClaimsSteady, BeginsSteady, CapturesSteady, StopsSteady, DrainsSteady,
           ConfirmsSteady DEF ImportNext, WorkerNext

LEMMA BaseKept ==
  ASSUME Base, [ImportNext]_importVars
  PROVE  Base' /\ StoreStep /\ Fixed
BY SteadyKept, OuterAndStore DEF Base
-----------------------------------------------------------------------------
(* The job serves the body, and a revoked session stays out.                 *)

Served(s, j, g) ==
    /\ j # <<>> => s.body \in {"Queued", "Importing", "Partial"}
    /\ s.body \in {"Queued", "Importing"} /\ ~g.purged => j # <<>>
    /\ s.access = "Revoked" => s.body \notin {"Importing", "Partial", "Imported"}
BeginsServed(pc, fresh, j, g) == pc = "begin" /\ fresh => j # <<>> \/ g.purged
\* Only a new request of the user ends a revocation.
StaysRevoked == ses.access = "Revoked" => ses'.access = "Revoked" \/ ses'.body = "Queued"

LEMMA ServesIs ==
  /\ Serves <=> Served(ses, jobs, gate) /\ BeginsServed(w.run.pc, w.run.fresh, jobs, gate)
  /\ Serves' <=> Served(ses', jobs', gate') /\ BeginsServed(w'.run.pc, w'.run.fresh, jobs', gate')
BY DEF Serves, JobServesBody, Active, Served, BeginsServed

LEMMA SameServes ==
  ASSUME Base, Serves, ses' = ses, jobs' = jobs, gate'.purged = gate.purged,
         w'.run.pc = "begin" => w' = w
  PROVE  Serves' /\ StaysRevoked
BY ServesIs DEF Served, BeginsServed, StaysRevoked

LEMMA JobsStay ==
  ASSUME Base, Serves, ses' = ses, (jobs' # <<>>) = (jobs # <<>>), gate' = gate, w' = w
  PROVE  Serves' /\ StaysRevoked
BY ServesIs DEF Served, BeginsServed, StaysRevoked

\* A session that is left without a job, and is not waiting for one.
LEMMA LeftServes ==
  ASSUME Base, Serves, jobs' = <<>>, ses'.body \in {"SourceReplaced", "Failed",
         "BlockedUnapproved", "BlockedScopeUnresolved", "NotImported"},
         ses.access = "Revoked" => ses'.access = "Revoked",
         w'.run.pc = "begin" => ~w'.run.fresh
  PROVE  Serves' /\ StaysRevoked
BY ServesIs DEF Served, BeginsServed, StaysRevoked

\* What an observation does to the body.
LEMMA EventServes ==
  ASSUME Base, Serves, NEW m \in Metas, NEW live, NEW r, r = metadata_events(ses, m, live)
  PROVE  /\ ses.access = "Revoked" <=> r.ses.access = "Revoked"
         /\ r.queues => r.ses.body = "Queued"
         /\ r.move # "none" /\ ~r.queues => r.ses.body \in {"SourceReplaced",
                                                            "BlockedScopeUnresolved"}
         /\ r.move = "none" /\ ~r.queues => r.ses.body = ses.body
         /\ r.queues = AppendArrived(ses, m, live)
<1>1. ses \in Sessions
  BY DEF Base, Store, Types
<1>2. /\ r.ses.access = (IF SourceChanged(ses, m) /\ ses.access # "Revoked"
                         THEN "none" ELSE ses.access)
      /\ r.ses.body = (IF AppendArrived(ses, m, live) THEN "Queued"
                       ELSE IF BodyTransition(ses, m) = "none" THEN ses.body
                       ELSE BodyTransition(ses, m))
      /\ r.move = BodyTransition(ses, m)
      /\ r.move \in {"none", "SourceReplaced", "BlockedScopeUnresolved"}
      /\ r.queues = AppendArrived(ses, m, live)
  BY <1>1, EventsGive
<1> QED BY <1>2

LEMMA RefreshServes ==
  ASSUME Base, Serves, NEW active \in BOOLEAN, Refresh(active)
  PROVE  Serves' /\ StaysRevoked
<1>1. PICK m : m = CatalogItem(ses, active)
  OBVIOUS
<1>2. m \in Metas
  BY <1>1, CatalogGives
<1>3. PICK live : live = (jobs = <<>> /\ Size(file) > Size(ses.fp))
  OBVIOUS
<1>4. PICK r : r = metadata_events(ses, m, live)
  OBVIOUS
<1>5. r = Refreshed(active)
  BY <1>1, <1>3, <1>4 DEF Refreshed
<1>6. PICK left : left = IF r.move # "none" THEN <<>> ELSE jobs
  OBVIOUS
<1>7. /\ w.run.pc = "idle" /\ ses' = r.ses /\ UNCHANGED <<gate, w>>
      /\ jobs' = IF r.queues THEN Append(left, Queued) ELSE left
  BY <1>5, <1>6 DEF Refresh
<1>8. left \in Seq(Jobs)
  BY <1>6, JobsTypes DEF Base, Outer
<1>9. Append(left, Queued) # <<>>
  BY <1>8, JobTypes
<1>10. /\ ses.access = "Revoked" <=> r.ses.access = "Revoked"
       /\ r.queues => r.ses.body = "Queued"
       /\ r.move # "none" /\ ~r.queues => r.ses.body \in {"SourceReplaced",
                                                            "BlockedScopeUnresolved"}
       /\ r.move = "none" /\ ~r.queues => r.ses.body = ses.body
  BY <1>2, <1>4, EventServes
<1>11. CASE r.queues
  BY <1>7, <1>9, <1>10, <1>11, ServesIs DEF Served, BeginsServed, StaysRevoked
<1>12. CASE ~r.queues /\ r.move # "none"
  BY <1>6, <1>7, <1>10, <1>12, ServesIs DEF Served, BeginsServed, StaysRevoked
<1>13. CASE ~r.queues /\ r.move = "none"
  BY <1>6, <1>7, <1>10, <1>13, ServesIs DEF Served, BeginsServed, StaysRevoked
<1> QED BY <1>11, <1>12, <1>13

LEMMA ObserveServes == ASSUME Base, Serves, ObserveSource PROVE Serves' /\ StaysRevoked
<1>1. PICK m : m = [rev |-> reconcile_source_revision(ses, file), fp |-> file, kind |-> host.kind,
                    origin |-> [fence |-> Size(file), closed |-> FALSE]]
  OBVIOUS
<1>2. m \in Metas
  BY <1>1, Reconciled, FileSize DEF Metas, Base, Store, Types, Outer, Hosts, Kinds, Origins
<1>3. PICK r : r = metadata_events(ses, m, FALSE)
  OBVIOUS
<1>4. /\ ses' = r.ses /\ Touched /\ jobs' = jobs /\ gate' = gate
      /\ ses.body \in {"NotImported", "SourceReplaced"} /\ ~HasOrigin(ses)
  BY <1>1, <1>3 DEF ObserveSource
<1>5. ~AppendArrived(ses, m, FALSE)
  BY <1>4 DEF AppendArrived
<1>6. jobs = <<>>
  BY <1>4, ServesIs DEF Served
<1>7. w'.run.fresh = FALSE
  BY <1>4, TouchedGives DEF Base, Outer
<1>8. ses'.body \in {"SourceReplaced", "BlockedScopeUnresolved", "NotImported"}
      /\ (ses.access = "Revoked" => ses'.access = "Revoked")
  BY <1>2, <1>3, <1>4, <1>5, EventServes
<1> QED BY <1>4, <1>6, <1>7, <1>8, LeftServes

LEMMA QueueServes == ASSUME Base, Serves, QueueImport PROVE Serves' /\ StaysRevoked
<1>1. /\ ses' = Advanced(Approved(ses), "Queued") /\ jobs' = Append(jobs, Queued) /\ Touched
  BY DEF QueueImport
<1>2. /\ Approved(ses) \in Sessions /\ "Queued" \in Bodies /\ jobs \in Seq(Jobs)
  BY DEF Base, Outer, Store, Types, Approved, Sessions, Bodies
<1>3. w'.run.fresh = FALSE
  BY <1>1, TouchedGives DEF Base, Outer
<1>4. ses'.body = "Queued"
  BY <1>1, <1>2, AdvancedType
<1>5. jobs' # <<>>
  BY <1>1, <1>2, JobTypes
<1> QED BY <1>3, <1>4, <1>5, ServesIs DEF Served, BeginsServed, StaysRevoked

LEMMA RevokeServes == ASSUME Base, Serves, RevokeAccess PROVE Serves' /\ StaysRevoked
<1>1. ses \in Sessions /\ jobs' = <<>> /\ Touched
  BY DEF Base, Store, Types, RevokeAccess
<1>2. w'.run.fresh = FALSE
  BY <1>1, TouchedGives DEF Base, Outer
<1>3. ses'.access = "Revoked" /\ ses'.body \in {"SourceReplaced", "Failed",
         "BlockedUnapproved", "BlockedScopeUnresolved", "NotImported"}
  BY <1>1, RevokedGives DEF Sessions, Bodies
<1> QED BY <1>1, <1>2, <1>3, LeftServes

LEMMA PreflightServes == ASSUME Base, Serves, WorkerPreflights PROVE Serves' /\ StaysRevoked
<1>1. w' = w /\ w.run.pc = "idle"
  BY DEF WorkerPreflights, QuantumGiven
<1>2. CASE gate' = [gate EXCEPT !.revoked = TRUE] /\ UNCHANGED <<ses, jobs>>
  <2>1. gate'.purged = gate.purged
    BY <1>2 DEF Base, Outer, Gates
  <2> QED BY <1>1, <1>2, <2>1, SameServes
<1>3. CASE ~(gate' = [gate EXCEPT !.revoked = TRUE] /\ UNCHANGED <<ses, jobs>>)
  <2>1. PICK m : m = [Metadata(ses) EXCEPT !.origin.closed = TRUE]
    OBVIOUS
  <2>2. PICK r : r = metadata_events(ses, m, FALSE)
    OBVIOUS
  <2>3. PICK closedPartial : closedPartial = (ses.body = "Partial" /\ ses.kind # "Repository"
                                              /\ ses.access # "Approved")
    OBVIOUS
  <2>4. /\ ses' = r.ses /\ gate' = gate
        /\ jobs' = IF closedPartial \/ r.move # "none" THEN <<>> ELSE jobs
    BY <1>3, <2>1, <2>2, <2>3 DEF WorkerPreflights
  <2>5. ses \in Sessions /\ ses.origin \in Origins
    BY DEF Base, Store, Types, Sessions
  <2>6. Metadata(ses) \in Metas /\ Metadata(ses).fp = ses.fp /\ Metadata(ses).origin = ses.origin
    BY <2>5, MetadataType
  <2>7. m \in Metas /\ m.fp = ses.fp
    BY <2>1, <2>5, <2>6 DEF Metas, Origins
  <2>8. ~AppendArrived(ses, m, FALSE)
    <3>1. Size(ses.fp) \in Nat
      BY FileSize DEF Base, Store, Types
    <3> QED BY <2>7, <3>1 DEF AppendArrived
  <2>9. /\ ses.access = "Revoked" <=> r.ses.access = "Revoked"
        /\ r.move # "none" => r.ses.body \in {"SourceReplaced", "BlockedScopeUnresolved"}
        /\ r.move = "none" => r.ses.body = ses.body
    BY <2>2, <2>7, <2>8, EventServes
  <2>10. CASE r.move # "none"
    BY <1>1, <2>4, <2>9, <2>10, LeftServes
  <2>11. CASE r.move = "none" /\ closedPartial
    BY <1>1, <2>3, <2>4, <2>9, <2>11, ServesIs DEF Served, BeginsServed, StaysRevoked
  <2>12. CASE r.move = "none" /\ ~closedPartial
    BY <1>1, <2>4, <2>9, <2>12, ServesIs DEF Served, BeginsServed, StaysRevoked
  <2> QED BY <2>3, <2>10, <2>11, <2>12
<1> QED BY <1>2, <1>3

LEMMA ReplacedServes ==
  ASSUME Base, Serves, ReplacedGives, gate' = gate, w'.run.pc = "idle"
  PROVE  Serves' /\ StaysRevoked
<1>1. CASE UNCHANGED <<ses, jobs>>
  BY <1>1, SameServes
<1>2. CASE /\ jobs' = <<>> /\ ses'.body = "SourceReplaced"
           /\ ses.access = "Revoked" => ses'.access = "Revoked"
  BY <1>2, LeftServes
<1> QED BY <1>1, <1>2 DEF ReplacedGives

LEMMA AdvanceServes ==
  ASSUME Base, Serves, NEW body \in {"SourceReplaced", "Failed"}, ses' = Advanced(ses, body),
         jobs' = <<>>, w'.run.pc = "idle"
  PROVE  Serves' /\ StaysRevoked
<1>1. ses \in Sessions /\ body \in Bodies
  BY DEF Base, Store, Types, Bodies
<1>2. ses'.body = body /\ ses'.access = ses.access
  BY <1>1, AdvancedType
<1> QED BY <1>2, LeftServes

LEMMA AuthorizesServes == ASSUME Base, Serves, WorkerAuthorizes PROVE Serves' /\ StaysRevoked
<1>1. gate' = gate
  BY AuthorizesGives
<1>2. CASE Moves("verify") /\ UNCHANGED <<ses, jobs>>
  BY <1>1, <1>2, SameServes DEF Moves
<1>3. CASE w'.run.pc = "idle" /\ UNCHANGED <<ses, jobs>>
  BY <1>1, <1>3, SameServes
<1>4. CASE w'.run.pc = "idle" /\ ses' = Advanced(ses, "SourceReplaced") /\ jobs' = <<>>
  BY <1>4, AdvanceServes
<1> QED BY <1>2, <1>3, <1>4, AuthorizesGives DEF Rests

LEMMA VerifiesServes == ASSUME Base, Serves, WorkerVerifies PROVE Serves' /\ StaysRevoked
<1>1. gate' = gate
  BY VerifiesGives
<1>2. CASE Moves("claim") /\ UNCHANGED <<ses, jobs>>
  BY <1>1, <1>2, SameServes DEF Moves
<1>3. CASE w'.run.pc = "idle" /\ UNCHANGED <<ses, jobs>>
  BY <1>1, <1>3, SameServes
<1>4. CASE w'.run.pc = "idle" /\ ReplacedGives
  BY <1>1, <1>4, ReplacedServes
<1> QED BY <1>2, <1>3, <1>4, VerifiesGives DEF Rests

LEMMA ClaimsServes == ASSUME Base, Serves, WorkerClaims PROVE Serves' /\ StaysRevoked
<1>1. gate' = gate /\ ses' = ses
  BY ClaimsGives
<1>2. CASE jobs' = <<Leased>> /\ Authorized(ses, gate)
  <2>1. jobs' # <<>> /\ ses.body \in {"Queued", "Importing", "Partial"}
    BY <1>2 DEF Authorized, Active
  <2> QED BY <1>1, <2>1, ServesIs DEF Served, BeginsServed, StaysRevoked
<1>3. CASE jobs' = jobs /\ w'.run.pc = "idle"
  BY <1>1, <1>3, SameServes
<1> QED BY <1>2, <1>3, ClaimsGives DEF Rests

LEMMA BeginsServes == ASSUME Base, Serves, WorkerBegins PROVE Serves' /\ StaysRevoked
<1>1. gate' = gate /\ jobs' = jobs
  BY BeginsGives
<1>2. CASE ses' = ses /\ w'.run.pc = "idle"
  BY <1>1, <1>2, SameServes
<1>3. CASE w.run.fresh /\ ses' = Advanced(ses, "Importing") /\ Moves("read")
  <2>1. ses \in Sessions /\ "Importing" \in Bodies
    BY DEF Base, Store, Types, Bodies
  <2>2. ses'.body = "Importing" /\ ses'.access = ses.access /\ w'.run.pc = "read"
    BY <1>3, <2>1, AdvancedType DEF Moves
  <2>3. w.run.pc = "begin"
    BY BeginsGives
  <2>4. ses.access # "Revoked"
    BY <1>3, <2>3 DEF Base, Steady
  <2> QED BY <1>1, <1>3, <2>2, <2>3, <2>4, ServesIs DEF Served, BeginsServed, StaysRevoked
<1> QED BY <1>2, <1>3, BeginsGives DEF Rests

LEMMA RefusesServes == ASSUME Base, Serves, WorkerRefusesRecord PROVE Serves' /\ StaysRevoked
<1>1. gate' = gate /\ w'.run.pc = "idle"
  BY RefusesGives DEF Rests
<1>2. CASE ses' = Advanced(ses, "Failed") /\ jobs' = <<>>
  BY <1>1, <1>2, AdvanceServes
<1>3. CASE UNCHANGED <<ses, jobs>>
  BY <1>1, <1>3, SameServes
<1> QED BY <1>2, <1>3, RefusesGives

LEMMA ConfirmsServes == ASSUME Base, Serves, WorkerConfirms PROVE Serves' /\ StaysRevoked
<1>1. gate' = gate
  BY ConfirmsGives
<1>2. CASE UNCHANGED <<ses, jobs>> /\ w'.run.pc \in {"idle", "handoff"}
  BY <1>1, <1>2, SameServes
<1>3. CASE /\ MayAdvance(ses, "Partial") /\ ses' = Advanced(ses, "Partial")
           /\ jobs' = [j \in DOMAIN jobs |-> Queued] /\ w'.run.pc = "idle"
  <2>1. ses \in Sessions /\ "Partial" \in Bodies
    BY DEF Base, Store, Types, Bodies
  <2>2. ses'.body = "Partial" /\ ses'.access = ses.access
    BY <1>3, <2>1, AdvancedType
  <2>3. ses.body = "Importing"
    BY <1>3 DEF MayAdvance, BodyMoves
  <2> QED BY <1>1, <1>3, <2>2, <2>3, ServesIs DEF Served, BeginsServed, StaysRevoked
<1> QED BY <1>2, <1>3, ConfirmsGives DEF Rests

LEMMA HandsOffServes == ASSUME Base, Serves, WorkerHandsOff PROVE Serves' /\ StaysRevoked
<1>1. gate' = gate /\ w'.run.pc = "idle"
  BY HandsOffGives DEF Rests
<1>2. CASE UNCHANGED <<ses, jobs>>
  BY <1>1, <1>2, SameServes
<1>3. CASE HandoffReady /\ ses' = Advanced(ses, w.run.target) /\ jobs' = <<>>
  <2>1. ses \in Sessions /\ w.run.target \in {"Imported", "Partial"}
    BY HandsOffGives DEF Base, Store, Types
  <2>2. w.run.target \in Bodies
    BY <2>1 DEF Bodies
  <2>3. ses'.body = w.run.target /\ ses'.access = ses.access
    BY <1>3, <2>1, <2>2, AdvancedType
  <2>4. ses.body = "Importing"
    BY <1>3 DEF HandoffReady
  <2> QED BY <1>1, <1>3, <2>1, <2>3, <2>4, ServesIs DEF Served, BeginsServed, StaysRevoked
<1> QED BY <1>2, <1>3, HandsOffGives

LEMMA ServesKept ==
  ASSUME Base, Serves, [ImportNext]_importVars
  PROVE  Serves' /\ StaysRevoked
<1>1. CASE FileGrows \/ FileReplaced \/ HostChanges \/ IngestDrains \/ UNCHANGED importVars
  BY <1>1, SameServes DEF FileGrows, FileReplaced, HostChanges, IngestDrains, importVars
<1>2. CASE RepositoryPurged
  <2>1. jobs' = <<>> /\ gate'.purged = TRUE /\ ses' = ses
    BY <1>2 DEF RepositoryPurged, Base, Outer, Gates
  <2> QED BY <2>1, ServesIs DEF Served, BeginsServed, StaysRevoked
<1>3. CASE LeaseExpires
  BY <1>3, JobsStay DEF LeaseExpires, Base, Outer
<1>4. CASE RecoverLease
  BY <1>4, JobsStay DEF RecoverLease, Base, Outer
<1>5. CASE Crash
  BY <1>5, SameServes DEF Crash, Rest
<1>6. CASE WorkerSelects
  BY <1>6, SelectsGives, SameServes
<1>7. CASE WorkerCaptures
  BY <1>7, WorkerCapturesGives, SameServes DEF CapturesGives, CapturedRun
<1>8. CASE WorkerStopsReading
  BY <1>8, StopsGives, SameServes DEF Rests, Moves
<1>9. CASE WorkerDrains
  BY <1>9, DrainsGives, SameServes DEF Rests, Moves
<1> QED BY <1>1, <1>2, <1>3, <1>4, <1>5, <1>6, <1>7, <1>8, <1>9, RefreshServes, ObserveServes,
           QueueServes, RevokeServes, PreflightServes, AuthorizesServes, VerifiesServes,
           ClaimsServes, BeginsServes, RefusesServes, ConfirmsServes, HandsOffServes
           DEF ImportNext, WorkerNext

\* No step after a revocation brings the body forward.
LEMMA NotForward ==
  ASSUME Base, Serves, [ImportNext]_importVars
  PROVE  ses.access = "Revoked" /\ ses'.body # ses.body
           => ses'.body \notin {"Importing", "Partial", "Imported"}
BY ServesKept DEF StaysRevoked, Serves
-----------------------------------------------------------------------------
(* While one file only grows, the records that wait line up.                 *)

Reading == w.run.pc \in {"begin", "read"} /\ w.run.range # <<>>
\* A record of this revision from this position on follows what is confirmed or waits.
Follows(rev, from, last) ==
    \/ from <= MainEnd(MarkOf(rev))
    \/ gate.purged
    \/ \E j \in 1..last : spool[j].rev = rev /\ spool[j].end = from
LineMarks ==
    \A rev \in DOMAIN marks : marks[rev].fence = -1 /\ Range(marks[rev].main) \subseteq Range(file.recs)
LineRecord(r) ==
    /\ host.kind = "Repository" => r.scope = "repository"
    /\ Entry(r) \in Range(file.recs)
LineSpool ==
    \A i \in 1..Len(spool) : LineRecord(spool[i]) /\ Follows(spool[i].rev, spool[i].start, i - 1)
LineHost == ~HasOrigin(ses) /\ (gate.purged => host.kind = "Repository")
LineRead == Reading => Follows(ses.rev, ReadFrom, Len(spool))

LEMMA LineUpIs == LineUp <=> (OneFile => LineHost /\ LineMarks /\ LineSpool /\ LineRead)
BY DEF LineUp, LineHost, LineMarks, LineSpool, LineRead, LineRecord, Follows, Reading

\* The surroundings of a step: the file, the origin, the purge.
LineKept ==
    /\ OneFile' => OneFile /\ Range(file.recs) \subseteq Range(file'.recs)
    /\ HasOrigin(ses') => HasOrigin(ses) \/ Environs("origin")
    /\ gate.purged => gate'.purged
    /\ gate'.purged => gate.purged \/ Restricted(ses)

LEMMA LineHostKept ==
  ASSUME Base, Base', Fixed, LineKept, LineUp, OneFile'
  PROVE  OneFile /\ LineHost' /\ LineHost /\ LineMarks /\ LineSpool /\ LineRead
<1>1. OneFile /\ ~Environs("origin")
  BY DEF LineKept, OneFile
<1>2. LineHost /\ LineMarks /\ LineSpool /\ LineRead
  BY <1>1, LineUpIs
<1>3. HasOrigin(ses)' = HasOrigin(ses')
  BY DEF HasOrigin
<1>4. ~HasOrigin(ses')
  BY <1>1, <1>2 DEF LineKept, LineHost
<1>5. Restricted(ses) => host.kind = "Repository"
  BY <1>2 DEF Restricted, LineHost, Base, Store, Types
<1>6. gate'.purged => host'.kind = "Repository"
  BY <1>2, <1>5 DEF LineKept, LineHost, Fixed
<1> QED BY <1>1, <1>2, <1>3, <1>4, <1>6 DEF LineHost

\* Nothing is confirmed and nothing captured.
LEMMA LineStays ==
  ASSUME Base, Base', Fixed, LineKept, LineUp, UNCHANGED <<marks, spool>>,
         Reading' => /\ Reading /\ w'.run.range = w.run.range /\ w'.run.got = w.run.got
                     /\ ses'.rev = ses.rev
  PROVE  LineUp'
<1> SUFFICES ASSUME OneFile'
             PROVE  LineHost' /\ LineMarks' /\ LineSpool' /\ LineRead'
  BY LineUpIs DEF LineUp, LineHost, LineMarks, LineSpool, LineRead, LineRecord, Follows, Reading
<1>1. OneFile /\ LineHost' /\ LineHost /\ LineMarks /\ LineSpool /\ LineRead
  BY LineHostKept
<1>2. Range(file.recs) \subseteq Range(file'.recs) /\ (gate.purged => gate'.purged)
      /\ host'.kind = host.kind
  BY DEF LineKept, Fixed
<1>3. LineMarks'
  BY <1>1, <1>2 DEF LineMarks
<1>4. \A rev, from, last : Follows(rev, from, last) => Follows(rev, from, last)'
  BY <1>2 DEF Follows, MarkOf, MainEnd, Start
<1>5. \A r : LineRecord(r) => LineRecord(r)'
  BY <1>2 DEF LineRecord, Entry
<1>6. LineSpool'
  BY <1>1, <1>4, <1>5 DEF LineSpool
<1>7. Reading' => ReadFrom' = ReadFrom
  BY DEF ReadFrom
<1>8. LineRead'
  <2> SUFFICES ASSUME Reading' PROVE Follows(ses.rev, ReadFrom, Len(spool))'
    BY DEF LineRead
  <2>1. Follows(ses.rev, ReadFrom, Len(spool))
    BY <1>1 DEF LineRead
  <2>2. ses'.rev = ses.rev /\ ReadFrom' = ReadFrom
    BY <1>7
  <2> QED BY <1>2, <2>1, <2>2 DEF Follows, MarkOf, MainEnd, Start
<1> QED BY <1>1, <1>3, <1>6, <1>8

\* What a record taken from the spool leaves behind while the records line up.
LEMMA LineTaken ==
  ASSUME Base, OneFile, LineHost, LineMarks, LineSpool, NEW k \in 1..Len(spool), Takes(k),
         UNCHANGED <<file, gate>>, NEW r, r = spool[k]
  PROVE  /\ LineMarks'
         /\ \A rev \in Revisions : MainEnd(MarkOf(rev)) <= MainEnd(MarkOf(rev))'
         /\ gate.purged \/ r.end <= MainEnd(MarkOf(r.rev))'
         /\ \A rev \in Revisions : MainEnd(MarkOf(rev)) \in Nat /\ MainEnd(MarkOf(rev))' \in Nat
<1>0. EnvOK /\ Store
  BY DEF Base, Outer
<1>m. PICK m : m = MarkOf(r.rev)
  OBVIOUS
<1>n. PICK n : n = Extended(m, r, FenceNow(r))
  OBVIOUS
<1>1. /\ MarksOK' /\ r \in CaptureRecords /\ r.end = r.start + Width[r.val]
      /\ \A rev : rev # r.rev => MarkOf(rev)' = MarkOf(rev)
      /\ \A rev \in DOMAIN marks' : rev # r.rev => rev \in DOMAIN marks /\ marks'[rev] = marks[rev]
      /\ \/ marks' = marks /\ (Discarded(r) \/ Replayed(m, r))
         \/ MayExtend(m, r) /\ marks'[r.rev] = n /\ MarkOf(r.rev)' = n
  BY <1>0, <1>m, <1>n, TakenMarks
<1>2. \A rev : MarkOf(rev) \in Marks /\ GoodMark(MarkOf(rev))
  BY <1>0, MarkOfGood DEF Store, Types
<1>3. \A rev : MainEnd(MarkOf(rev)) \in Nat /\ Start(MarkOf(rev)) \in Nat
  BY <1>2, GoodEnds
<1>4. LineRecord(r) /\ r.start \in Nat /\ r.end \in Nat /\ r.start < r.end
  BY <1>1, EntryType DEF LineSpool
<1>5. FenceNow(r) = -1 /\ m.fence = -1
  <2>1. ses.origin.fence = -1
    BY <1>0 DEF LineHost, HasOrigin, Store, Types, Sessions, Origins
  <2>2. m = NoMark \/ (r.rev \in DOMAIN marks /\ m = marks[r.rev])
    BY <1>m DEF MarkOf
  <2> QED BY <2>1, <2>2 DEF FenceNow, LineMarks, NoMark
<1>6. CASE marks' = marks /\ (Discarded(r) \/ Replayed(m, r))
  <2>1. \A rev : MarkOf(rev)' = MarkOf(rev)
    BY <1>6, MarkOfKept
  <2>2. \A rev : MainEnd(MarkOf(rev))' = MainEnd(MarkOf(rev))
    BY <2>1 DEF MainEnd, Start
  <2>3. LineMarks'
    BY <1>6 DEF LineMarks
  <2>4. gate.purged \/ r.end <= MainEnd(m)
    BY <1>5, <1>6 DEF Discarded, Replayed, Covered
  <2>5. gate.purged \/ r.end <= MainEnd(MarkOf(r.rev))'
    BY <1>m, <2>2, <2>4
  <2>6. \A rev : MainEnd(MarkOf(rev)) <= MainEnd(MarkOf(rev))' /\ MainEnd(MarkOf(rev))' \in Nat
    BY <1>3, <2>2
  <2> QED BY <1>3, <2>3, <2>5, <2>6
<1>7. CASE MayExtend(m, r) /\ marks'[r.rev] = n /\ MarkOf(r.rev)' = n
  <2>0. m \in Marks /\ GoodMark(m) /\ ses \in Sessions /\ ses.origin.fence <= env.bytes
    BY <1>0, <1>2, <1>m DEF Store, Types, Bounded
  <2>1. /\ n \in Marks /\ GoodMark(n) /\ n.fence = FenceNow(r)
        /\ \/ r.end <= n.fence
           \/ /\ r.start = (IF m = NoMark /\ n.fence >= 0 THEN n.fence ELSE MainEnd(m))
              /\ MainEnd(n) = r.end
              /\ Range(n.main) = Range(m.main) \union {Entry(r)}
    BY <1>0, <1>1, <1>n, <1>7, <2>0, ExtendedGood DEF EarlyGrows, MainGrows
  <2>2. n.fence = -1 /\ r.start = MainEnd(m) /\ MainEnd(n) = r.end
        /\ Range(n.main) = Range(m.main) \union {Entry(r)}
    BY <1>4, <1>5, <2>1
  <2>3. MainEnd(MarkOf(r.rev))' = MainEnd(n)
    BY <1>7 DEF MainEnd, Start
  <2>4. \A rev : rev # r.rev => MainEnd(MarkOf(rev))' = MainEnd(MarkOf(rev))
    BY <1>1 DEF MainEnd, Start
  <2>5. Range(m.main) \subseteq Range(file.recs)
    <3>1. CASE m = NoMark
      BY <3>1 DEF NoMark, Range
    <3>2. CASE m # NoMark
      BY <3>2, <1>m DEF MarkOf, LineMarks
    <3> QED BY <3>1, <3>2
  <2>6. Range(n.main) \subseteq Range(file.recs)
    BY <1>4, <2>2, <2>5 DEF LineRecord
  <2>7. LineMarks'
    <3> SUFFICES ASSUME NEW rev \in DOMAIN marks'
                 PROVE  marks'[rev].fence = -1 /\ Range(marks'[rev].main) \subseteq Range(file.recs)
      BY DEF LineMarks
    <3>1. CASE rev = r.rev
      BY <1>7, <2>2, <2>6, <3>1
    <3>2. CASE rev # r.rev
      BY <1>1, <3>2 DEF LineMarks
    <3> QED BY <3>1, <3>2
  <2>8. \A rev : MainEnd(MarkOf(rev)) <= MainEnd(MarkOf(rev))' /\ MainEnd(MarkOf(rev))' \in Nat
    <3> TAKE rev
    <3>1. CASE rev = r.rev
      BY <3>1, <1>3, <1>4, <1>m, <2>2, <2>3
    <3>2. CASE rev # r.rev
      BY <3>2, <1>3, <2>4
    <3> QED BY <3>1, <3>2
  <2>9. r.end <= MainEnd(MarkOf(r.rev))'
    BY <1>4, <2>2, <2>3
  <2> QED BY <1>3, <2>7, <2>8, <2>9
<1> QED BY <1>1, <1>6, <1>7

LEMMA LineTakes ==
  ASSUME Base, Base', Fixed, LineKept, LineUp, NEW k \in 1..Len(spool), Takes(k),
         UNCHANGED <<file, host, gate>>, Reading' => w' = w
  PROVE  LineUp'
<1> SUFFICES ASSUME OneFile'
             PROVE  LineHost' /\ LineMarks' /\ LineSpool' /\ LineRead'
  BY LineUpIs DEF LineUp, LineHost, LineMarks, LineSpool, LineRead, LineRecord, Follows, Reading
<1>1. OneFile /\ LineHost' /\ LineHost /\ LineMarks /\ LineSpool /\ LineRead
  BY LineHostKept
<1>k. PICK r : r = spool[k]
  OBVIOUS
<1>2. /\ LineMarks'
      /\ \A rev \in Revisions : MainEnd(MarkOf(rev)) <= MainEnd(MarkOf(rev))'
      /\ gate.purged \/ r.end <= MainEnd(MarkOf(r.rev))'
      /\ \A rev \in Revisions : MainEnd(MarkOf(rev)) \in Nat /\ MainEnd(MarkOf(rev))' \in Nat
  BY <1>1, <1>k, LineTaken
<1>3. /\ spool \in Seq(CaptureRecords) /\ spool' \in Seq(CaptureRecords) /\ Without(spool, spool', k)
      /\ ses' = ses
  BY DEF Takes, Base, Store, Types
<1>4. Len(spool') = Len(spool) - 1 /\ Len(spool) \in Nat
  BY <1>3 DEF Without
<1>5. ASSUME NEW rev \in Revisions, NEW from \in Nat, NEW last \in 0..Len(spool),
             Follows(rev, from, last), NEW now \in Nat, now = (IF last < k THEN last ELSE last - 1)
      PROVE  Follows(rev, from, now)'
  <2>1. CASE from <= MainEnd(MarkOf(rev))
    BY <2>1, <1>2 DEF Follows
  <2>2. CASE gate.purged
    BY <2>2 DEF Follows
  <2>3. CASE \E j \in 1..last : spool[j].rev = rev /\ spool[j].end = from
    <3>1. PICK j \in 1..last : spool[j].rev = rev /\ spool[j].end = from
      BY <2>3
    <3>2. CASE j = k
      BY <1>k, <1>2, <3>1, <3>2 DEF Follows
    <3>3. CASE j < k
      <4>1. j \in 1..Len(spool') /\ spool'[j] = spool[j] /\ j \in 1..now
        BY <1>3, <1>4, <1>5, <3>1, <3>3 DEF Without
      <4> QED BY <3>1, <4>1 DEF Follows
    <3>4. CASE k < j
      <4>1. j - 1 \in 1..Len(spool') /\ spool'[j - 1] = spool[j] /\ j - 1 \in 1..now
        BY <1>3, <1>4, <1>5, <3>1, <3>4 DEF Without
      <4> QED BY <3>1, <4>1 DEF Follows
    <3> QED BY <1>4, <1>5, <3>1, <3>2, <3>3, <3>4
  <2> QED BY <1>5, <2>1, <2>2, <2>3 DEF Follows
<1>6. LineSpool'
  <2> SUFFICES ASSUME NEW i \in 1..Len(spool')
               PROVE  (LineRecord(spool[i]) /\ Follows(spool[i].rev, spool[i].start, i - 1))'
    BY DEF LineSpool
  <2>1. PICK old \in 1..Len(spool) : old = (IF i < k THEN i ELSE i + 1)
    BY <1>4
  <2>2. spool'[i] = spool[old] /\ old # k
    BY <1>3, <1>4, <2>1 DEF Without
  <2>3. spool[old] \in CaptureRecords
    BY <1>3
  <2>4. spool[old].rev \in Revisions /\ spool[old].start \in Nat
    BY <2>3 DEF CaptureRecords
  <2>5. Follows(spool[old].rev, spool[old].start, old - 1) /\ LineRecord(spool[old])
    BY <1>1 DEF LineSpool
  <2>6. old - 1 \in 0..Len(spool) /\ i - 1 \in Nat
        /\ i - 1 = (IF old - 1 < k THEN old - 1 ELSE old - 1 - 1)
    BY <1>4, <2>1, <2>2
  <2>q. PICK q : q = spool[old]
    OBVIOUS
  <2>7. Follows(q.rev, q.start, i - 1)'
    BY <1>5, <2>4, <2>5, <2>6, <2>q
  <2>8. spool'[i] = q
    BY <2>2, <2>q
  <2>9. LineRecord(q)'
    BY <2>5, <2>q DEF LineRecord, Entry
  <2> QED BY <2>7, <2>8, <2>9
<1>7. LineRead'
  <2> SUFFICES ASSUME Reading' PROVE Follows(ses.rev, ReadFrom, Len(spool))'
    BY DEF LineRead
  <2>1. Reading /\ ReadFrom' = ReadFrom
    BY DEF Reading, ReadFrom
  <2>2. ReadFrom \in Nat
    BY <2>1, ReadFromType DEF Base, Outer, WorkerOK, Reading
  <2>3. ses.rev \in Revisions
    BY DEF Base, Store, Types, Sessions
  <2>4. Follows(ses.rev, ReadFrom, Len(spool))
    BY <1>1, <2>1 DEF LineRead
  <2>5. Len(spool) \in 0..Len(spool) /\ Len(spool') \in Nat
        /\ Len(spool') = (IF Len(spool) < k THEN Len(spool) ELSE Len(spool) - 1)
    BY <1>3, <1>4
  <2>n. PICK now : now = Len(spool')
    OBVIOUS
  <2>6. Follows(ses.rev, ReadFrom, now)'
    <3>1. PICK rev \in Revisions, from \in Nat : rev = ses.rev /\ from = ReadFrom
      BY <2>2, <2>3
    <3>2. Follows(rev, from, now)'
      BY <1>5, <2>4, <2>5, <2>n, <3>1
    <3> QED BY <1>3, <2>1, <3>1, <3>2 DEF Follows
  <2> QED BY <2>n, <2>6
<1> QED BY <1>1, <1>2, <1>6, <1>7

LEMMA LineKeptSame ==
  ASSUME Base, Fixed, UNCHANGED <<file, gate>>, HasOrigin(ses') => HasOrigin(ses)
  PROVE  LineKept
BY DEF LineKept, OneFile, Fixed, EnvKept, Environs

LEMMA OriginAdvanced ==
  ASSUME Base, NEW body \in Bodies, ses' = ses \/ ses' = Advanced(ses, body)
  PROVE  (HasOrigin(ses') => HasOrigin(ses)) /\ ses'.rev = ses.rev
<1>1. ses \in Sessions
  BY DEF Base, Store, Types
<1>2. ses'.origin = ses.origin /\ ses'.rev = ses.rev
  BY <1>1, AdvancedType
<1> QED BY <1>2 DEF HasOrigin

LEMMA OriginEvents ==
  ASSUME Base, NEW m \in Metas, NEW live, ses' = metadata_events(ses, m, live).ses,
         m.origin = ses.origin \/ m.origin = NoOrigin \/ HasOrigin(ses)
  PROVE  HasOrigin(ses') => HasOrigin(ses)
<1>1. ses \in Sessions
  BY DEF Base, Store, Types
<1>2. ses'.origin = m.origin
  BY <1>1, EventsGive
<1> QED BY <1>2 DEF HasOrigin, NoOrigin

LEMMA LineKeptStep ==
  ASSUME Base, [ImportNext]_importVars
  PROVE  LineKept
<1>0. Fixed
  BY OuterAndStore
<1>1. CASE FileGrows
  <2>1. PICK v \in Payloads : file' = [file EXCEPT !.recs = Append(@, Line(Size(file), v))]
    BY <1>1 DEF FileGrows
  <2>2. file'.id = file.id /\ Range(file.recs) \subseteq Range(file'.recs)
    BY <2>1, GrownFile DEF Base, Store, Types
  <2>3. UNCHANGED <<ses, gate>>
    BY <1>1 DEF FileGrows
  <2> QED BY <1>0, <2>2, <2>3 DEF LineKept, OneFile, Fixed, EnvKept, Environs, HasOrigin
<1>2. CASE FileReplaced
  <2>1. file'.id = file.id + 1 /\ UNCHANGED <<ses, gate>>
    BY <1>2 DEF FileReplaced
  <2>2. file.id \in Nat \ {0}
    BY FileSize DEF Base, Store, Types
  <2>3. file'.id # 1
    BY <2>1, <2>2
  <2> QED BY <2>1, <2>3 DEF LineKept, OneFile, HasOrigin
<1>3. CASE RepositoryPurged
  <2>1. gate.purged => gate'.purged
    BY <1>3 DEF RepositoryPurged
  <2> QED BY <1>0, <1>3, <2>1 DEF RepositoryPurged, LineKept, OneFile, Fixed, EnvKept, Environs,
                                  HasOrigin
<1>4. CASE \/ HostChanges \/ LeaseExpires \/ Crash \/ IngestDrains \/ RecoverLease
           \/ UNCHANGED importVars
  BY <1>0, <1>4, LineKeptSame DEF HostChanges, LeaseExpires, Crash, IngestDrains, RecoverLease,
     importVars, HasOrigin
<1>5. ASSUME NEW active \in BOOLEAN, Refresh(active) PROVE LineKept
  <2>1. PICK m : m = CatalogItem(ses, active)
    OBVIOUS
  <2>2. m \in Metas /\ (m.origin = ses.origin \/ m.origin = NoOrigin)
    BY <2>1, CatalogGives
  <2>3. PICK live : live = (jobs = <<>> /\ Size(file) > Size(ses.fp))
    OBVIOUS
  <2>4. ses' = metadata_events(ses, m, live).ses /\ UNCHANGED <<file, gate>>
    BY <1>5, <2>1, <2>3 DEF Refresh, Refreshed
  <2> QED BY <1>0, <2>2, <2>4, OriginEvents, LineKeptSame
<1>6. CASE ObserveSource
  BY <1>0, <1>6 DEF ObserveSource, LineKept, OneFile, Fixed, EnvKept, Environs
<1>7. CASE QueueImport
  <2>1. /\ ses \in Sessions /\ Approved(ses) \in Sessions /\ "Queued" \in Bodies
        /\ Approved(ses).origin = ses.origin
    BY DEF Base, Store, Types, Approved, Sessions, Bodies
  <2>2. ses' = Advanced(Approved(ses), "Queued") /\ UNCHANGED <<file, gate>>
    BY <1>7 DEF QueueImport
  <2>3. ses'.origin = ses.origin
    BY <2>1, <2>2, AdvancedType
  <2> QED BY <1>0, <2>2, <2>3, LineKeptSame DEF HasOrigin
<1>8. CASE RevokeAccess
  <2>1. UNCHANGED <<file, gate>>
    BY <1>8 DEF RevokeAccess
  <2>2. Metadata(ses') = Metadata(ses)
    BY <1>8, RevokedGives
  <2>3. ses'.origin = ses.origin
    BY <2>2, SameMetadata
  <2> QED BY <1>0, <2>1, <2>3, LineKeptSame DEF HasOrigin
<1>9. CASE WorkerPreflights
  <2>1. CASE gate' = [gate EXCEPT !.revoked = TRUE] /\ UNCHANGED <<ses, jobs>>
    <3>1. gate'.purged = gate.purged
      BY <2>1 DEF Base, Outer, Gates
    <3> QED BY <1>0, <1>9, <2>1, <3>1 DEF WorkerPreflights, LineKept, OneFile, Fixed, EnvKept,
                                          Environs, HasOrigin
  <2>2. CASE ~(gate' = [gate EXCEPT !.revoked = TRUE] /\ UNCHANGED <<ses, jobs>>)
    <3>1. HasOrigin(ses) /\ UNCHANGED <<file, gate>>
      BY <1>9, <2>2 DEF WorkerPreflights, OriginDiscontinued, Route
    <3> QED BY <1>0, <3>1, LineKeptSame
  <2> QED BY <2>1, <2>2
<1>10. CASE WorkerVerifies
  <2>1. UNCHANGED <<file, gate>>
    BY <1>10, VerifiesGives
  <2>2. ses' = ses \/ ses'.origin.fence = ses.origin.fence \/ ses'.origin = NoOrigin
    BY <1>10, VerifiesGives DEF ReplacedGives
  <2>3. HasOrigin(ses') => HasOrigin(ses)
    BY <2>2 DEF HasOrigin, NoOrigin
  <2> QED BY <1>0, <2>1, <2>3, LineKeptSame
<1>11. CASE WorkerSelects \/ WorkerCaptures \/ WorkerClaims \/ WorkerStopsReading \/ WorkerDrains
  <2>1. ses' = ses /\ UNCHANGED <<file, gate>>
    BY <1>11 DEF WorkerSelects, WorkerCaptures, WorkerClaims, WorkerStopsReading, WorkerDrains
  <2> QED BY <1>0, <2>1, LineKeptSame
<1>12. CASE WorkerAuthorizes \/ WorkerBegins \/ WorkerRefusesRecord \/ WorkerConfirms
            \/ WorkerHandsOff
  <2>1. UNCHANGED <<file, gate>>
    BY <1>12 DEF WorkerAuthorizes, WorkerBegins, WorkerRefusesRecord, WorkerConfirms, WorkerHandsOff
  <2>2. \E body \in Bodies : ses' = ses \/ ses' = Advanced(ses, body)
    BY <1>12, AuthorizesGives, BeginsGives, RefusesGives, ConfirmsGives, HandsOffGives DEF Bodies
  <2> QED BY <1>0, <2>1, <2>2, OriginAdvanced, LineKeptSame
<1> QED BY <1>1, <1>2, <1>3, <1>4, <1>5, <1>6, <1>7, <1>8, <1>9, <1>10, <1>11, <1>12
        DEF ImportNext, WorkerNext

\* A record the worker captures follows what was confirmed or waits.
LEMMA LineCaptures ==
  ASSUME Base, Base', Fixed, LineKept, LineUp, NEW r \in CaptureRecords, CapturesGives(r)
  PROVE  LineUp'
<1> SUFFICES ASSUME OneFile'
             PROVE  LineHost' /\ LineMarks' /\ LineSpool' /\ LineRead'
  BY LineUpIs DEF LineUp, LineHost, LineMarks, LineSpool, LineRead, LineRecord, Follows, Reading
<1>1. OneFile /\ LineHost' /\ LineHost /\ LineMarks /\ LineSpool /\ LineRead
  BY LineHostKept
<1>2. /\ UNCHANGED <<file, host, ses, jobs, marks, gate, env>>
      /\ Reading /\ file = ses.fp
      /\ r.rev = ses.rev /\ r.start = ReadFrom /\ r.end = r.start + Width[r.val]
      /\ Entry(r) \in Range(file.recs)
      /\ r.scope = import_scope(w.run.ctx, r.start, r.end) /\ r.scope # "refused"
      /\ w'.run.got = Append(w.run.got, r)
      /\ (InSpool(r) /\ spool' = spool) \/ spool' = Append(spool, r)
  BY DEF CapturesGives, CapturedRun, Reading
<1>3. LineMarks'
  BY <1>1, <1>2 DEF LineMarks
<1>4. LineRecord(r)
  <2>1. Running
    BY <1>2 DEF Reading, Running
  <2>2. w.run.ctx.kind = ses.kind /\ w.run.ctx.origin = ses.origin
    BY <2>1, ContextGives
  <2>3. w.run.ctx.kind # "Unavailable"
    BY <1>2 DEF Reading, Base, Steady
  <2>4. w.run.ctx.kind = host.kind /\ ~HasOrigin(w.run.ctx)
    BY <1>1, <2>2, <2>3 DEF LineHost, HasOrigin, Base, Store, Types
  <2> QED BY <1>2, <2>4 DEF LineRecord, import_scope, Route
<1>5. spool \in Seq(CaptureRecords) /\ w.run.got \in Seq(CaptureRecords)
  BY DEF Base, Outer, Store, Types, WorkerOK, Runs
<1>6. \A rev, from, last : MainEnd(MarkOf(rev))' = MainEnd(MarkOf(rev))
  BY <1>2, MarkOfKept DEF MainEnd, Start
<1>7. ReadFrom' = r.end
  <2>1. w'.run.got # <<>> /\ Last(w'.run.got) = r
    BY <1>2, <1>5 DEF Last
  <2> QED BY <2>1 DEF ReadFrom
<1>8. Follows(ses.rev, r.start, Len(spool))
  BY <1>1, <1>2 DEF LineRead
<1>9. CASE InSpool(r) /\ spool' = spool
  <2>1. LineSpool'
    BY <1>1, <1>2, <1>6, <1>9 DEF LineSpool, LineRecord, Follows, Entry
  <2>2. PICK j \in DOMAIN spool : spool[j].rev = r.rev /\ spool[j].end = r.end
    BY <1>9 DEF InSpool, SameRecord
  <2>3. j \in 1..Len(spool)
    BY <1>5
  <2>4. LineRead'
    BY <1>2, <1>7, <1>9, <2>2, <2>3 DEF LineRead, Follows
  <2> QED BY <1>1, <1>3, <2>1, <2>4
<1>10. CASE spool' = Append(spool, r)
  <2>1. /\ Len(spool') = Len(spool) + 1 /\ Len(spool) \in Nat
        /\ spool'[Len(spool) + 1] = r /\ \A i \in 1..Len(spool) : spool'[i] = spool[i]
    BY <1>5, <1>10
  <2>2. ASSUME NEW rev, NEW from, NEW last \in 0..Len(spool), Follows(rev, from, last)
        PROVE  Follows(rev, from, last)'
    BY <1>2, <1>6, <2>1, <2>2 DEF Follows
  <2>3. LineSpool'
    <3> SUFFICES ASSUME NEW i \in 1..Len(spool')
                 PROVE  (LineRecord(spool[i]) /\ Follows(spool[i].rev, spool[i].start, i - 1))'
      BY DEF LineSpool
    <3>1. PICK q, last : q = spool'[i] /\ last = i - 1
      OBVIOUS
    <3>2. last \in 0..Len(spool)
      BY <2>1, <3>1
    <3>3. LineRecord(q) /\ Follows(q.rev, q.start, last)
      <4>1. CASE i \in 1..Len(spool)
        BY <1>1, <2>1, <3>1, <4>1 DEF LineSpool
      <4>2. CASE i = Len(spool) + 1
        <5>1. q = r /\ last = Len(spool)
          BY <2>1, <3>1, <4>2
        <5> QED BY <1>2, <1>4, <1>8, <5>1
      <4> QED BY <2>1, <4>1, <4>2
    <3>4. LineRecord(q)' /\ Follows(q.rev, q.start, last)'
      BY <1>2, <2>2, <3>2, <3>3 DEF LineRecord, Entry
    <3> QED BY <3>1, <3>4
  <2>4. LineRead'
    BY <1>2, <1>7, <2>1 DEF LineRead, Follows
  <2> QED BY <1>1, <1>3, <2>3, <2>4
<1> QED BY <1>2, <1>9, <1>10

\* A claimed range begins where the watermark ends.
LEMMA LineClaims ==
  ASSUME Base, Base', Fixed, LineKept, LineUp, WorkerClaims
  PROVE  LineUp'
<1>1. UNCHANGED <<marks, spool, ses>> /\ w.run.pc = "claim"
  BY ClaimsGives
<1>2. CASE ~Reading'
  BY <1>1, <1>2, LineStays
<1>3. CASE Reading'
  <2> SUFFICES ASSUME OneFile'
               PROVE  LineHost' /\ LineMarks' /\ LineSpool' /\ LineRead'
    BY LineUpIs DEF LineUp, LineHost, LineMarks, LineSpool, LineRead, LineRecord, Follows, Reading
  <2>1. OneFile /\ LineHost' /\ LineHost /\ LineMarks /\ LineSpool /\ LineRead
    BY LineHostKept
  <2>2. PICK range \in Seq(Ranges) :
          /\ ClaimedRun(range, finished_import_state(ses, w.run.mark))
          /\ range = ChosenRange(w.run.ctx, w.run.mark)
          /\ MarkOf(ses.rev) = w.run.mark
    BY <1>3, ClaimsGives DEF Reading, Rests
  <2>3. UNCHANGED <<file, host, gate>>
    BY ClaimsGives
  <2>4. LineMarks' /\ LineSpool'
    BY <1>1, <2>1, <2>3 DEF LineMarks, LineSpool, LineRecord, Follows, MarkOf, MainEnd, Start, Entry
  <2>5. w.run.ctx \in Sessions /\ FileOK(w.run.ctx.fp) /\ w.run.mark \in Marks
        /\ w.run.ctx.origin = ses.origin
    BY <1>1, ContextGives DEF Running
  <2>6. range # <<>> /\ w'.run.range = range /\ w'.run.got = <<>>
    BY <1>1, <1>3, <2>2 DEF ClaimedRun, Reading, Base, Steady
  <2>7. range[1] \in import_ranges(w.run.ctx, w.run.mark)
    BY <2>2, <2>5, <2>6, ChosenGives
  <2>8. ~HasOrigin(w.run.ctx)
    BY <2>1, <2>5 DEF LineHost, HasOrigin
  <2>9. range[1].start = MainEnd(w.run.mark)
    BY <2>7, <2>8 DEF import_ranges, FenceOf
  <2>10. ReadFrom' = MainEnd(w.run.mark)
    BY <2>6, <2>9 DEF ReadFrom
  <2>11. MainEnd(w.run.mark) \in Nat /\ MainEnd(MarkOf(ses.rev))' = MainEnd(w.run.mark)
    BY <1>1, <2>2, <2>5, EndTypes DEF MarkOf, MainEnd, Start
  <2>12. LineRead'
    BY <2>10, <2>11 DEF LineRead, Follows
  <2> QED BY <2>1, <2>4, <2>12
<1> QED BY <1>2, <1>3

LEMMA LineUpKept ==
  ASSUME Base, LineUp, [ImportNext]_importVars
  PROVE  LineUp'
<1>0. Base' /\ Fixed /\ LineKept
  BY BaseKept, LineKeptStep
<1>1. CASE \/ FileGrows \/ FileReplaced \/ HostChanges \/ RepositoryPurged \/ LeaseExpires
           \/ RecoverLease \/ UNCHANGED importVars
  <2>1. UNCHANGED <<ses, marks, spool, w>>
    BY <1>1 DEF FileGrows, FileReplaced, HostChanges, RepositoryPurged, LeaseExpires,
       RecoverLease, importVars
  <2> QED BY <1>0, <2>1, LineStays DEF Reading
<1>2. CASE w'.run.pc \notin {"begin", "read"} /\ UNCHANGED <<marks, spool>>
  BY <1>0, <1>2, LineStays DEF Reading
<1>3. CASE Crash
  BY <1>2, <1>3 DEF Crash, Rest
<1>4. CASE (\E active \in BOOLEAN : Refresh(active)) \/ WorkerPreflights
  BY <1>2, <1>4 DEF Refresh, WorkerPreflights, QuantumGiven
<1>5. CASE ObserveSource
  <2>1. ~Running /\ Touched /\ UNCHANGED <<marks, spool>>
    BY <1>5 DEF ObserveSource, Base, Steady
  <2>2. w'.run.pc = w.run.pc
    BY <2>1, TouchedGives DEF Base, Outer
  <2> QED BY <1>2, <2>1, <2>2 DEF Running
<1>6. CASE QueueImport \/ RevokeAccess
  <2>1. Touched /\ UNCHANGED <<marks, spool>>
    BY <1>6 DEF QueueImport, RevokeAccess
  <2>2. w'.run.pc = w.run.pc /\ w'.run.range = w.run.range /\ w'.run.got = w.run.got
    BY <2>1, TouchedGives DEF Base, Outer
  <2>3. ses'.rev = ses.rev
    <3>1. CASE RevokeAccess
      <4>1. Metadata(ses') = Metadata(ses)
        BY <3>1, RevokedGives
      <4> QED BY <4>1, SameMetadata
    <3>2. CASE QueueImport
      <4>1. /\ ses \in Sessions /\ Approved(ses) \in Sessions /\ "Queued" \in Bodies
            /\ Approved(ses).rev = ses.rev
        BY DEF Base, Store, Types, Approved, Sessions, Bodies
      <4>2. ses' = Advanced(Approved(ses), "Queued")
        BY <3>2 DEF QueueImport
      <4> QED BY <4>1, <4>2, AdvancedType
    <3> QED BY <1>6, <3>1, <3>2
  <2> QED BY <1>0, <2>1, <2>2, <2>3, LineStays DEF Reading
<1>7. CASE WorkerSelects
  BY <1>2, <1>7, SelectsGives
<1>8. CASE WorkerAuthorizes
  BY <1>2, <1>8, AuthorizesGives DEF Moves, Rests
<1>9. CASE WorkerVerifies
  BY <1>2, <1>9, VerifiesGives DEF Moves, Rests
<1>10. CASE WorkerClaims
  BY <1>0, <1>10, LineClaims
<1>11. CASE WorkerBegins
  <2>1. "Importing" \in Bodies
    BY DEF Bodies
  <2>2. ses'.rev = ses.rev
    BY <1>11, <2>1, BeginsGives, OriginAdvanced
  <2>3. CASE Moves("read")
    <3>1. UNCHANGED <<marks, spool>> /\ w.run.pc = "begin"
      BY <1>11, BeginsGives
    <3> QED BY <1>0, <2>2, <2>3, <3>1, LineStays DEF Reading, Moves
  <2> QED BY <1>2, <1>11, <2>3, BeginsGives DEF Rests
<1>12. CASE WorkerCaptures
  BY <1>0, <1>12, WorkerCapturesGives, LineCaptures
<1>13. CASE WorkerRefusesRecord
  BY <1>2, <1>13, RefusesGives DEF Rests
<1>14. CASE WorkerStopsReading
  BY <1>2, <1>14, StopsGives DEF Rests, Moves
<1>15. CASE WorkerDrains
  <2>1. CASE w' = w /\ \E k \in 1..Len(spool) : Takes(k)
    BY <1>0, <1>15, <2>1, DrainsGives, LineTakes
  <2> QED BY <1>2, <1>15, <2>1, DrainsGives DEF Rests, Moves
<1>16. CASE WorkerConfirms
  BY <1>2, <1>16, ConfirmsGives DEF Rests
<1>17. CASE WorkerHandsOff
  BY <1>2, <1>17, HandsOffGives DEF Rests
<1>18. CASE IngestDrains
  BY <1>0, <1>18, IngestGives, LineTakes
<1> QED BY <1>1, <1>3, <1>4, <1>5, <1>6, <1>7, <1>8, <1>9, <1>10, <1>11, <1>12, <1>13, <1>14,
           <1>15, <1>16, <1>17, <1>18 DEF ImportNext, WorkerNext

\* The record at the head of the spool continues its leg, or lies in it.
LEMMA NothingRefused ==
  ASSUME Base, LineUp
  PROVE  NoRecordRefused
<1> SUFFICES ASSUME spool # <<>>, OneFile
             PROVE  Discarded(Head(spool)) \/ MayCommit(Head(spool))
  BY DEF NoRecordRefused, OneFile
<1>1. LineHost /\ LineMarks /\ LineSpool
  BY LineUpIs
<1>r. PICK r : r = Head(spool)
  OBVIOUS
<1>m. PICK m : m = MarkOf(r.rev)
  OBVIOUS
<1>2. spool \in Seq(CaptureRecords) /\ 1 \in 1..Len(spool) /\ r = spool[1]
  BY <1>r DEF Base, Store, Types
<1>3. LineRecord(r) /\ Follows(r.rev, r.start, 0)
  BY <1>1, <1>2 DEF LineSpool
<1>4. r \in CaptureRecords /\ r.end = r.start + Width[r.val]
  BY <1>2 DEF Base, Store, Captured
<1>5. /\ Entry(r) \in Records /\ Entry(r).start = r.start /\ Entry(r).end = r.end
      /\ r.start \in Nat /\ r.end \in Nat /\ r.start < r.end
  BY <1>4, EntryType
<1>6. CASE gate.purged
  <2>1. r.scope = "repository"
    BY <1>1, <1>3, <1>6 DEF LineHost, LineRecord
  <2> QED BY <1>6, <1>r, <2>1 DEF Discarded
<1>7. CASE ~gate.purged
  <2>1. r.start <= MainEnd(m)
    BY <1>3, <1>7, <1>m DEF Follows
  <2>2. m \in Marks /\ GoodMark(m)
    BY <1>m, MarkOfGood DEF Base, Outer, Store, Types
  <2>3. m.fence = -1 /\ Start(m) = 0
    BY <1>1, <1>m DEF LineMarks, MarkOf, NoMark, Start
  <2>4. MainEnd(m) \in Nat
    BY <2>2, GoodEnds
  <2>5. FenceNow(r) = -1
    BY <1>1 DEF FenceNow, LineHost, HasOrigin, Base, Store, Types, Sessions, Origins
  <2>6. CASE r.start = MainEnd(m)
    <3>1. ~Covered(m, r)
      BY <1>5, <2>3, <2>4, <2>6 DEF Covered
    <3>2. MayExtend(m, r)
      BY <2>3, <2>5, <2>6, <3>1 DEF MayExtend, FenceNow
    <3> QED BY <1>m, <1>r, <3>2 DEF MayCommit
  <2>7. CASE r.start < MainEnd(m)
    <3>1. m.main # <<>>
      BY <1>5, <2>3, <2>7 DEF MainEnd, EndOf
    <3>2. PICK from \in Nat : from = Start(m)
      BY <2>3
    <3>3. Leg(m.main, from) /\ MainEnd(m) = EndOf(m.main, from)
      BY <2>2, <3>2 DEF GoodMark, MainEnd
    <3>4. Leg(file.recs, 0)
      BY DEF Base, Store, Types, FileOK
    <3>5. Range(m.main) \subseteq Range(file.recs)
      BY <1>1, <1>m, <3>1 DEF LineMarks, MarkOf, NoMark
    <3>6. Entry(r) \in Range(file.recs)
      BY <1>3 DEF LineRecord
    <3>7. from <= Entry(r).start /\ Entry(r).start < EndOf(m.main, from)
      BY <1>5, <2>3, <2>7, <3>2, <3>3
    <3>8. Entry(r) \in Range(m.main)
      BY <3>3, <3>4, <3>5, <3>6, <3>7, LegFills
    <3>9. r.end <= MainEnd(m)
      BY <1>5, <3>3, <3>8, LegBounds
    <3>10. Covered(m, r)
      BY <1>5, <2>3, <3>1, <3>9 DEF Covered
    <3>11. Range(m.early \o m.main) = Range(m.early) \union Range(m.main)
      BY <2>2, RangeConcatenation DEF Marks
    <3>12. Replayed(m, r)
      BY <3>8, <3>10, <3>11 DEF Replayed
    <3> QED BY <1>m, <1>r, <3>12 DEF MayCommit
  <2> QED BY <1>5, <2>1, <2>4, <2>6, <2>7
<1> QED BY <1>6, <1>7
-----------------------------------------------------------------------------
(* The beginning.                                                            *)

LEMMA InitGives ==
  ASSUME ImportInit
  PROVE  /\ EnvOK /\ ~env.mixed /\ FileOK(file) /\ file.id = 1 /\ Size(file) <= env.bytes
         /\ ses = [rev |-> InodeRevision(file), fp |-> file, kind |-> host.kind,
                   origin |-> NoOrigin, access |-> "none", body |-> "NotImported"]
         /\ host \in Hosts /\ host.kind \in env.kinds
         /\ jobs = <<>> /\ marks = <<>> /\ spool = <<>>
         /\ gate = [revoked |-> FALSE, purged |-> FALSE]
         /\ w = [run |-> Rest, cache |-> NothingProved]
<1>1. env \in Scenarios
  BY DEF ImportInit
<1>2. env \in Scenario /\ ~env.mixed /\ \A v \in Payloads : Width[v] <= env.bytes
  BY <1>1, ImportsAssumption
<1>3. EnvOK
  <2>0. env.left \in 0..env.left
    BY <1>2 DEF Scenario
  <2>1. env.left \in 0..env.left /\ env = [env EXCEPT !.left = env.left, !.mixed = env.mixed]
    BY <2>0, <1>2 DEF Scenario
  <2> QED BY <1>1, <1>2, <2>1 DEF EnvOK
<1>4. PICK v \in Payloads : file = [id |-> 1, recs |-> <<Line(0, v)>>]
  BY DEF ImportInit
<1>5. FileOK(file)
  BY <1>4, FreshFile
<1>6. Size(file) = Width[v]
  <2>1. Line(0, v).end = 0 + Width[v] /\ Width[v] \in Nat
    BY WidthAssumption DEF Line
  <2>2. Size(file) = Line(0, v).end
    BY <1>4 DEF Size, EndOf, Last
  <2> QED BY <2>1, <2>2
<1>7. host \in Hosts /\ host.kind \in env.kinds
  BY <1>2 DEF ImportInit, Hosts, Scenario
<1> QED BY <1>2, <1>3, <1>4, <1>5, <1>6, <1>7 DEF ImportInit

LEMMA InitBase == ASSUME ImportInit PROVE Base
<1>1. /\ EnvOK /\ FileOK(file) /\ file.id = 1 /\ Size(file) <= env.bytes
      /\ ses = [rev |-> InodeRevision(file), fp |-> file, kind |-> host.kind,
                origin |-> NoOrigin, access |-> "none", body |-> "NotImported"]
      /\ host \in Hosts /\ host.kind \in env.kinds
      /\ jobs = <<>> /\ marks = <<>> /\ spool = <<>>
      /\ gate = [revoked |-> FALSE, purged |-> FALSE]
      /\ w = [run |-> Rest, cache |-> NothingProved]
  BY InitGives
<1>2. Size(file) \in Nat \ {0} /\ file \in AnyFile
  BY <1>1, FileSize
<1>3. Outer
  <2>1. WorkerOK
    BY <1>1, RunRest DEF WorkerOK
  <2> QED BY <1>1, <2>1 DEF Outer, Gates
<1>4. ses \in Sessions /\ ses.rev = <<1, 0>> /\ ses.origin.fence = -1
  <2>1. InodeRevision(file) = <<1, 0>> /\ <<1, 0>> \in Revisions
    BY <1>1 DEF InodeRevision, Revisions
  <2>2. NoOrigin \in Origins /\ NoOrigin.fence = -1
    BY DEF NoOrigin, Origins
  <2>3. host.kind \in Kinds
    BY <1>1 DEF Hosts, Kinds
  <2> QED BY <1>1, <1>2, <2>1, <2>2, <2>3 DEF Sessions, Bodies
<1>5. Types
  <2>1. MarksOK
    BY <1>1 DEF MarksOK
  <2> QED BY <1>1, <1>4, <2>1 DEF Types
<1>6. Bounded
  <2>1. env.bytes \in Nat /\ env.versions \in Nat /\ 1 <= env.versions
    BY <1>1 DEF EnvOK, Scenario
  <2> QED BY <1>1, <1>4, <2>1 DEF Bounded, Later
<1>7. Revised
  <2>1. Before(ses.rev, ses.fp)
    BY <1>1, <1>2, <1>4 DEF Before
  <2> QED BY <1>1, <2>1 DEF Revised
<1>8. Captured
  BY <1>1 DEF Captured
<1>9. Marked /\ HistoryNeedsApproval
  BY <1>1 DEF Marked, MarkOf, HistoryNeedsApproval, NoMark
<1>10. Steady
  BY <1>1 DEF Steady, Running, Rest
<1> QED BY <1>3, <1>5, <1>6, <1>7, <1>8, <1>9, <1>10 DEF Base, Store

LEMMA InitServes == ASSUME ImportInit PROVE Serves /\ LineUp
<1>1. /\ ses = [rev |-> InodeRevision(file), fp |-> file, kind |-> host.kind,
                origin |-> NoOrigin, access |-> "none", body |-> "NotImported"]
      /\ jobs = <<>> /\ marks = <<>> /\ spool = <<>>
      /\ gate = [revoked |-> FALSE, purged |-> FALSE]
      /\ w = [run |-> Rest, cache |-> NothingProved]
  BY InitGives
<1>2. Serves
  BY <1>1, ServesIs DEF Served, BeginsServed, Rest
<1>3. LineHost /\ LineMarks /\ LineSpool /\ LineRead
  BY <1>1 DEF LineHost, LineMarks, LineSpool, LineRead, Reading, HasOrigin, NoOrigin, Rest
<1> QED BY <1>2, <1>3, LineUpIs
-----------------------------------------------------------------------------
(* The worker carries on what it read.                                       *)

SessionKept == ses'.rev = ses.rev /\ ses'.fp = ses.fp /\ ses'.origin = ses.origin
Carried ==
    Running' =>
        /\ Running /\ SessionKept
        /\ w'.run.mark = w.run.mark /\ w'.run.range = w.run.range /\ w'.run.target = w.run.target
        /\ w'.run.pc \in {"authorize", "verify"} =>
             w.run.pc \in {"authorize", "verify"} /\ w'.run.ctx = w.run.ctx
        /\ (Claimed' => Claimed) /\ (Ranged' => Ranged) /\ (Ending' => Ending)

LEMMA RestCarried == ASSUME w'.run.pc = "idle" PROVE Carried
BY DEF Carried, Running

LEMMA SameCarried == ASSUME UNCHANGED <<ses, w>> PROVE Carried
BY DEF Carried, Running, SessionKept, Claimed, Ranged, Ending

LEMMA MovesCarried ==
  ASSUME NEW pc \in Steps, Moves(pc), SessionKept,
         <<w.run.pc, pc>> \in {<<"authorize", "verify">>, <<"begin", "read">>, <<"drain", "confirm">>}
           \/ (<<w.run.pc, pc>> = <<"read", "handoff">> /\ w.run.range = <<>>)
           \/ (<<w.run.pc, pc>> = <<"read", "drain">> /\ w.run.range # <<>>)
  PROVE  Carried
BY DEF Carried, Running, Moves, Claimed, Ranged, Ending

LEMMA ToldKept ==
  ASSUME Base, QueueImport \/ RevokeAccess
  PROVE  SessionKept
<1>1. CASE RevokeAccess
  <2>1. Metadata(ses') = Metadata(ses)
    BY <1>1, RevokedGives
  <2> QED BY <2>1, SameMetadata DEF SessionKept
<1>2. CASE QueueImport
  <2>1. /\ ses \in Sessions /\ Approved(ses) \in Sessions /\ "Queued" \in Bodies
        /\ Approved(ses).rev = ses.rev /\ Approved(ses).fp = ses.fp
        /\ Approved(ses).origin = ses.origin
    BY DEF Base, Store, Types, Approved, Sessions, Bodies
  <2>2. ses' = Advanced(Approved(ses), "Queued")
    BY <1>2 DEF QueueImport
  <2> QED BY <2>1, <2>2, AdvancedType DEF SessionKept
<1> QED BY <1>1, <1>2

LEMMA AdvancedKept ==
  ASSUME Base, NEW body \in Bodies, ses' = ses \/ ses' = Advanced(ses, body)
  PROVE  SessionKept
<1>1. ses \in Sessions
  BY DEF Base, Store, Types
<1> QED BY <1>1, AdvancedType DEF SessionKept

LEMMA CarriedStep ==
  ASSUME Base, [ImportNext]_importVars
  PROVE  \/ Carried
         \/ WorkerSelects
         \/ WorkerVerifies /\ Unproved = {} /\ Moves("claim")
         \/ WorkerClaims
         \/ WorkerConfirms /\ w'.run.pc = "handoff"
<1>1. CASE \/ FileGrows \/ FileReplaced \/ HostChanges \/ RepositoryPurged \/ LeaseExpires
           \/ RecoverLease \/ IngestDrains \/ UNCHANGED importVars
  <2>1. UNCHANGED <<ses, w>>
    BY <1>1 DEF FileGrows, FileReplaced, HostChanges, RepositoryPurged, LeaseExpires,
       RecoverLease, IngestDrains, importVars
  <2> QED BY <2>1, SameCarried
<1>2. CASE Crash
  BY <1>2, RestCarried DEF Crash, Rest
<1>3. CASE (\E active \in BOOLEAN : Refresh(active)) \/ WorkerPreflights
  BY <1>3, RestCarried DEF Refresh, WorkerPreflights, QuantumGiven
<1>4. CASE ObserveSource
  <2>1. ~Running /\ Touched
    BY <1>4 DEF ObserveSource, Base, Steady
  <2>2. w'.run.pc = w.run.pc
    BY <2>1, TouchedGives DEF Base, Outer
  <2> QED BY <2>1, <2>2, RestCarried DEF Running
<1>5. CASE QueueImport \/ RevokeAccess
  <2>1. Touched
    BY <1>5 DEF QueueImport, RevokeAccess
  <2>2. /\ w'.run.pc = w.run.pc /\ w'.run.range = w.run.range /\ w'.run.mark = w.run.mark
        /\ w'.run.target = w.run.target /\ w'.run.ctx = w.run.ctx
    BY <2>1, TouchedGives DEF Base, Outer
  <2>3. SessionKept
    BY <1>5, ToldKept
  <2> QED BY <2>2, <2>3 DEF Carried, Running, Claimed, Ranged, Ending
<1>6. CASE WorkerAuthorizes
  <2>1. CASE Moves("verify") /\ UNCHANGED <<ses, jobs>>
    BY <1>6, <2>1, AuthorizesGives, MovesCarried DEF SessionKept, Steps
  <2> QED BY <1>6, <2>1, AuthorizesGives, RestCarried DEF Rests
<1>7. CASE WorkerVerifies
  BY <1>7, VerifiesGives, RestCarried DEF Rests
<1>8. CASE WorkerBegins
  <2>1. CASE ses' = Advanced(ses, "Importing") /\ Moves("read")
    <3>1. "Importing" \in Bodies /\ "read" \in Steps
      BY DEF Bodies, Steps
    <3>2. SessionKept
      BY <2>1, <3>1, AdvancedKept
    <3> QED BY <1>8, <2>1, <3>1, <3>2, BeginsGives, MovesCarried
  <2> QED BY <1>8, <2>1, BeginsGives, RestCarried DEF Rests
<1>9. CASE WorkerCaptures
  <2>1. PICK r \in CaptureRecords : CapturesGives(r)
    BY <1>9, WorkerCapturesGives
  <2>2. /\ w.run.pc = "read" /\ ses' = ses /\ w'.run.pc = "read" /\ w'.run.range = w.run.range
        /\ w'.run.mark = w.run.mark /\ w'.run.target = w.run.target
    BY <2>1 DEF CapturesGives, CapturedRun
  <2> QED BY <2>2 DEF Carried, Running, SessionKept, Claimed, Ranged, Ending
<1>10. CASE WorkerStopsReading
  <2>1. ses' = ses /\ w.run.pc = "read"
    BY <1>10, StopsGives
  <2>2. CASE Moves("drain") /\ w.run.range # <<>>
    BY <2>1, <2>2, MovesCarried DEF SessionKept, Steps
  <2>3. CASE Moves("handoff") /\ w.run.range = <<>>
    BY <2>1, <2>3, MovesCarried DEF SessionKept, Steps
  <2> QED BY <1>10, <2>2, <2>3, StopsGives, RestCarried DEF Rests
<1>11. CASE WorkerDrains
  <2>1. ses' = ses /\ w.run.pc = "drain"
    BY <1>11, DrainsGives
  <2>2. CASE Moves("confirm")
    BY <2>1, <2>2, MovesCarried DEF SessionKept, Steps
  <2> QED BY <1>11, <2>1, <2>2, DrainsGives, RestCarried, SameCarried DEF Rests
<1>12. CASE WorkerConfirms
  BY <1>12, ConfirmsGives, RestCarried DEF Rests
<1>13. CASE WorkerRefusesRecord \/ WorkerHandsOff
  BY <1>13, RefusesGives, HandsOffGives, RestCarried DEF Rests
<1> QED BY <1>1, <1>2, <1>3, <1>4, <1>5, <1>6, <1>7, <1>8, <1>9, <1>10, <1>11, <1>12, <1>13
        DEF ImportNext, WorkerNext

\* How a confirmed record changes a watermark.
GrownLeg(old, oldEnd, new, newEnd, e) ==
    /\ oldEnd \in Nat /\ newEnd \in Nat /\ oldEnd <= newEnd
    /\ \/ Range(new) = Range(old)
       \/ Range(new) = Range(old) \union {e} /\ oldEnd < e.end
Grown(m, r, n) ==
    /\ n \in Marks /\ GoodMark(n) /\ n # NoMark
    /\ GrownLeg(m.early, EarlyEnd(m), n.early, EarlyEnd(n), Entry(r))
    /\ GrownLeg(m.main, MainEnd(m), n.main, MainEnd(n), Entry(r))
    /\ r.start = (IF r.end <= n.fence THEN EarlyEnd(m)
                  ELSE IF m = NoMark /\ n.fence >= 0 THEN n.fence ELSE MainEnd(m))

LEMMA MarkTaken ==
  ASSUME Base, NEW k \in 1..Len(spool), Takes(k), NEW rev, NEW r, r = spool[k]
  PROVE  /\ r \in CaptureRecords /\ r.end = r.start + Width[r.val] /\ MarkOf(rev) \in Marks
         /\ GoodMark(MarkOf(rev))
         /\ \/ MarkOf(rev)' = MarkOf(rev)
            \/ rev = r.rev /\ \E n \in Marks : MarkOf(rev)' = n /\ Grown(MarkOf(rev), r, n)
<1>0. EnvOK /\ Store
  BY DEF Base, Outer
<1>m. PICK m : m = MarkOf(r.rev)
  OBVIOUS
<1>n. PICK n : n = Extended(m, r, FenceNow(r))
  OBVIOUS
<1>1. /\ r \in CaptureRecords /\ r.end = r.start + Width[r.val]
      /\ rev # r.rev => MarkOf(rev)' = MarkOf(rev)
      /\ \/ marks' = marks
         \/ MayExtend(m, r) /\ MarkOf(r.rev)' = n
  BY <1>0, <1>m, <1>n, TakenMarks
<1>2. /\ m \in Marks /\ GoodMark(m) /\ ses \in Sessions /\ ses.origin.fence <= env.bytes
      /\ MarkOf(rev) \in Marks /\ GoodMark(MarkOf(rev))
  BY <1>0, <1>m, MarkOfGood DEF Store, Types, Bounded
<1>3. CASE marks' = marks
  BY <1>1, <1>2, <1>3, MarkOfKept
<1>4. CASE rev = r.rev /\ MayExtend(m, r) /\ MarkOf(r.rev)' = n
  <2>1. /\ n \in Marks /\ GoodMark(n) /\ n # NoMark
        /\ m = NoMark \/ (m.fence = n.fence /\ Start(n) = Start(m))
        /\ \/ /\ n.early = Append(m.early, Entry(r)) /\ n.main = m.main
              /\ r.start = EarlyEnd(m) /\ EarlyEnd(n) = r.end /\ r.end <= n.fence
              /\ Range(n.early) = Range(m.early) \union {Entry(r)}
           \/ /\ n.early = m.early /\ n.main = Append(m.main, Entry(r))
              /\ r.start = (IF m = NoMark /\ n.fence >= 0 THEN n.fence ELSE MainEnd(m))
              /\ MainEnd(n) = r.end
              /\ Range(n.main) = Range(m.main) \union {Entry(r)}
    <3>1. MayExtend(m, r) /\ r \in CaptureRecords /\ r.end = r.start + Width[r.val]
          /\ m \in Marks /\ GoodMark(m) /\ ses \in Sessions /\ ses.origin.fence <= env.bytes
      BY <1>1, <1>2, <1>4
    <3>2. n \in Marks /\ GoodMark(n) /\ n # NoMark
      BY <1>0, <1>n, <3>1, ExtendedGood
    <3>3. m = NoMark \/ (m.fence = n.fence /\ Start(n) = Start(m))
      BY <1>0, <1>n, <3>1, ExtendedGood
    <3>4. EarlyGrows(m, r, n) \/ MainGrows(m, r, n)
      BY <1>0, <1>n, <3>1, ExtendedGood
    <3> QED BY <3>2, <3>3, <3>4 DEF EarlyGrows, MainGrows
  <2>2. /\ Entry(r).end = r.end /\ r.start \in Nat /\ r.end \in Nat /\ r.start < r.end
    BY <1>1, EntryType
  <2>3. /\ Start(m) \in Nat /\ MainEnd(m) \in Nat /\ EarlyEnd(m) \in Nat
        /\ Start(n) \in Nat /\ MainEnd(n) \in Nat /\ EarlyEnd(n) \in Nat
        /\ Start(n) <= MainEnd(n)
    BY <1>2, <2>1, GoodEnds
  <2>4. m = NoMark => MainEnd(m) = 0 /\ EarlyEnd(m) = 0
    BY NoMarkType
  <2>5. CASE n.early = Append(m.early, Entry(r))
    <3>1. /\ n.main = m.main /\ r.start = EarlyEnd(m) /\ EarlyEnd(n) = r.end /\ r.end <= n.fence
          /\ Range(n.early) = Range(m.early) \union {Entry(r)}
      <4>1. n.early # m.early
        <5>1. m.early \in Seq(Records) /\ Len(n.early) = Len(m.early) + 1
          BY <1>2, <2>5 DEF Marks
        <5> QED BY <5>1
      <4> QED BY <2>1, <4>1
    <3>2. m # NoMark => MainEnd(n) = MainEnd(m)
      BY <2>1, <3>1 DEF MainEnd
    <3>3. MainEnd(m) <= MainEnd(n)
      BY <2>3, <2>4, <3>2
    <3>4. Grown(m, r, n)
      BY <2>1, <2>2, <2>3, <3>1, <3>3 DEF Grown, GrownLeg
    <3> QED BY <1>1, <1>2, <1>4, <1>m, <2>1, <3>4
  <2>6. CASE n.early # Append(m.early, Entry(r))
    <3>1. /\ n.early = m.early /\ MainEnd(n) = r.end
          /\ r.start = (IF m = NoMark /\ n.fence >= 0 THEN n.fence ELSE MainEnd(m))
          /\ Range(n.main) = Range(m.main) \union {Entry(r)}
      BY <2>1, <2>6
    <3>2. EarlyEnd(n) = EarlyEnd(m)
      BY <3>1 DEF EarlyEnd
    <3>3. MainEnd(m) <= r.start
      BY <2>2, <2>3, <2>4, <3>1
    <3>4. ~(r.end <= n.fence)
      <4>1. Start(n) = n.fence \/ n.fence = -1
        BY <2>1 DEF Start, Marks
      <4>2. CASE m = NoMark
        BY <2>2, <3>1, <4>1, <4>2, <2>4, <2>3
      <4>3. CASE m # NoMark
        <5>1. Start(n) <= MainEnd(m)
          BY <1>2, <2>1, <4>3, GoodEnds
        <5> QED BY <2>1, <2>2, <2>3, <3>3, <4>1, <5>1
      <4> QED BY <4>2, <4>3
    <3>5. Grown(m, r, n)
      BY <2>1, <2>2, <2>3, <3>1, <3>2, <3>3, <3>4 DEF Grown, GrownLeg
    <3> QED BY <1>1, <1>2, <1>4, <1>m, <2>1, <3>5
  <2> QED BY <2>5, <2>6
<1> QED BY <1>1, <1>2, <1>3, <1>4
-----------------------------------------------------------------------------
(* What the worker read is part of the watermark.                            *)

\* A part of a leg, from its beginning, holds what the leg holds up to its end.
LEMMA LegFillsFrom ==
  ASSUME NEW from \in Nat, NEW whole, Leg(whole, from), NEW part, Leg(part, from),
         Range(part) \subseteq Range(whole)
  PROVE  /\ EndOf(part, from) \in Nat /\ EndOf(whole, from) \in Nat
         /\ EndOf(part, from) <= EndOf(whole, from)
         /\ \A e \in Range(whole) : e.end <= EndOf(part, from) => e \in Range(part)
<1>1. EndOf(part, from) \in Nat /\ EndOf(whole, from) \in Nat
  BY LegBounds
<1>2. EndOf(part, from) <= EndOf(whole, from)
  <2>1. CASE part = <<>>
    BY <2>1, LegBounds DEF EndOf
  <2>2. CASE part # <<>>
    <3>1. Last(part) \in Range(whole)
      BY <2>2, LegBounds
    <3>2. Last(part).end <= EndOf(whole, from)
      BY <3>1, LegBounds
    <3> QED BY <2>2, <3>2 DEF EndOf
  <2> QED BY <2>1, <2>2
<1>3. ASSUME NEW e \in Range(whole), e.end <= EndOf(part, from)
      PROVE  e \in Range(part)
  <2>1. e \in Records /\ from <= e.start /\ e.start < e.end /\ e.start \in Nat /\ e.end \in Nat
    BY LegBounds DEF Records
  <2>2. e.start \in from..(EndOf(part, from) - 1)
    BY <1>1, <1>3, <2>1
  <2>3. PICK i \in 1..Len(part) : part[i].start <= e.start /\ e.start < part[i].end
    BY <2>2 DEF Leg
  <2>4. part[i] \in Range(part)
    BY DEF Leg, Range
  <2>5. part[i] \in Range(whole) /\ part[i] \in Records
    BY <2>4, LegBounds
  <2>6. part[i].start < e.end
    BY <2>1, <2>3, <2>5 DEF Records
  <2>7. part[i] = e
    BY <2>3, <2>5, <2>6, LegApart
  <2> QED BY <2>4, <2>7
<1> QED BY <1>1, <1>2, <1>3

\* The watermark a context is taken with.
LEMMA ReadMarkNow ==
  ASSUME Base, Fixed, UNCHANGED <<ses, marks, host, env>>, w'.run.mark = MarkOf(ses.rev),
         w'.run.pc \in {"authorize", "verify"} => w'.run.ctx = ses
  PROVE  ReadMark'
<1>1. PICK m : m = MarkOf(ses.rev)
  OBVIOUS
<1>2. EnvOK /\ MarksOK /\ Marked /\ HistoryNeedsApproval
  BY DEF Base, Outer, Store, Types
<1>3. MarkOf(ses.rev)' = m
  BY <1>1 DEF MarkOf
<1>4. GoodMark(m) /\ (m # NoMark => m.fence = ses.origin.fence)
  BY <1>1, <1>2, MarkOfGood DEF Marked
<1>5. m.early # <<>> => host.kind = "Repository" \/ ses.access # "none"
  BY <1>1, <1>2 DEF HistoryNeedsApproval
<1>6. GoodMark(m)'
  BY <1>4 DEF GoodMark
<1> QED BY <1>1, <1>3, <1>4, <1>5, <1>6 DEF ReadMark

LEMMA ReadMarkCarried ==
  ASSUME Base, Fixed, Carried, StoreStep, ReadMark
  PROVE  ReadMark'
<1> SUFFICES ASSUME Running'
             PROVE  ReadMark'
  BY DEF ReadMark
<1>1. PICK m : m = MarkOf(ses.rev)
  OBVIOUS
<1>2. PICK read : read = w.run.mark
  OBVIOUS
<1>3. /\ Running /\ SessionKept /\ w'.run.mark = read
      /\ w'.run.pc \in {"authorize", "verify"} =>
           w.run.pc \in {"authorize", "verify"} /\ w'.run.ctx = w.run.ctx
  BY <1>2 DEF Carried
<1>4. /\ Range(read.early) \subseteq Range(m.early) /\ Range(read.main) \subseteq Range(m.main)
      /\ GoodMark(read) /\ (read # NoMark => read.fence = ses.origin.fence)
      /\ w.run.pc \in {"authorize", "verify"} /\ read.early # <<>> =>
           host.kind = "Repository" \/ w.run.ctx.access # "none"
      /\ env.mixed \/ /\ Range(m.early) \subseteq Range(read.early) \union Range(ses.fp.recs)
                      /\ Range(m.main) \subseteq Range(read.main) \union Range(ses.fp.recs)
  BY <1>1, <1>2, <1>3 DEF ReadMark
<1>5. GoodMark(read)' /\ host'.kind = host.kind /\ (env.mixed => env'.mixed)
  BY <1>4 DEF GoodMark, Fixed, EnvKept
<1>6. CASE MarkOf(ses.rev)' = m
  BY <1>3, <1>4, <1>5, <1>6 DEF ReadMark, SessionKept
<1>7. ASSUME NEW k \in 1..Len(spool), Takes(k)
      PROVE  ReadMark'
  <2>r. PICK r : r = spool[k]
    OBVIOUS
  <2>1. PICK rev : rev = ses.rev
    OBVIOUS
  <2>2. MarkOf(ses.rev)' = MarkOf(rev)'
    BY <1>3, <2>1 DEF SessionKept
  <2>3. \/ MarkOf(rev)' = MarkOf(rev)
        \/ rev = r.rev /\ \E n \in Marks : MarkOf(rev)' = n /\ Grown(MarkOf(rev), r, n)
    BY <1>7, <2>r, MarkTaken
  <2>4. CASE rev = r.rev /\ \E n \in Marks : MarkOf(rev)' = n /\ Grown(MarkOf(rev), r, n)
    <3>1. PICK n \in Marks : MarkOf(ses.rev)' = n /\ Grown(m, r, n)
      BY <1>1, <2>1, <2>2, <2>4
    <3>2. env.mixed \/ Entry(r) \in Range(ses.fp.recs)
      <4>1. r.rev = ses.rev
        BY <2>1, <2>4
      <4> QED BY <2>r, <4>1 DEF Base, Store, Captured
    <3>3. /\ Range(m.early) \subseteq Range(n.early)
          /\ Range(n.early) \subseteq Range(m.early) \union {Entry(r)}
          /\ Range(m.main) \subseteq Range(n.main)
          /\ Range(n.main) \subseteq Range(m.main) \union {Entry(r)}
      BY <3>1 DEF Grown, GrownLeg
    <3>4. /\ Range(read.early) \subseteq Range(n.early) /\ Range(read.main) \subseteq Range(n.main)
          /\ env.mixed \/ /\ Range(n.early) \subseteq Range(read.early) \union Range(ses.fp.recs)
                          /\ Range(n.main) \subseteq Range(read.main) \union Range(ses.fp.recs)
      BY <1>4, <3>2, <3>3
    <3> QED BY <1>3, <1>4, <1>5, <3>1, <3>4 DEF ReadMark, SessionKept
  <2> QED BY <1>1, <1>6, <2>1, <2>2, <2>3, <2>4
<1>8. CASE marks' = marks
  <2>1. MarkOf(ses.rev)' = m
    BY <1>1, <1>3, <1>8 DEF MarkOf, SessionKept
  <2> QED BY <1>6, <2>1
<1> QED BY <1>7, <1>8 DEF StoreStep, Quiet, Told, Looked, CapturesOne

LEMMA ReadMarkKept ==
  ASSUME Base, ReadMark, [ImportNext]_importVars
  PROVE  ReadMark'
<1>1. StoreStep /\ Fixed
  BY OuterAndStore
<1>2. CASE WorkerSelects
  BY <1>1, <1>2, SelectsGives, ReadMarkNow
<1>3. CASE WorkerVerifies /\ Moves("claim")
  <2>1. UNCHANGED <<marks, host, env>> /\ w.run.pc = "verify"
    BY <1>3, VerifiesGives
  <2>2. ses' = ses
    BY <1>3, VerifiesGives DEF Moves, Rests
  <2>3. w'.run.mark = w.run.mark /\ w'.run.pc = "claim"
    BY <1>3 DEF Moves
  <2>4. MarkOf(ses.rev)' = MarkOf(ses.rev) /\ (GoodMark(w.run.mark) => GoodMark(w.run.mark)')
    BY <2>1, <2>2, <2>3 DEF MarkOf, GoodMark
  <2> QED BY <2>1, <2>2, <2>3, <2>4 DEF ReadMark, Running
<1>4. CASE WorkerClaims
  <2>1. UNCHANGED <<ses, marks, host, env>> /\ w.run.pc = "claim"
    BY <1>4, ClaimsGives
  <2>2. CASE w'.run.pc = "idle"
    BY <2>2 DEF ReadMark, Running
  <2>3. CASE w'.run.pc # "idle"
    <3>1. w'.run.mark = MarkOf(ses.rev) /\ w'.run.pc \in {"read", "begin"}
      BY <1>4, <2>3, ClaimsGives DEF ClaimedRun, Rests
    <3> QED BY <1>1, <2>1, <3>1, ReadMarkNow
  <2> QED BY <2>2, <2>3
<1>5. CASE WorkerConfirms /\ w'.run.pc = "handoff"
  <2>1. UNCHANGED <<marks, host, env>>
    BY <1>5, ConfirmsGives
  <2>2. ses' = ses /\ w'.run.mark = MarkOf(ses.rev)
    BY <1>5, ConfirmsGives DEF Rests
  <2> QED BY <1>1, <1>5, <2>1, <2>2, ReadMarkNow
<1>6. CASE Carried
  BY <1>1, <1>6, ReadMarkCarried
<1> QED BY <1>2, <1>3, <1>4, <1>5, <1>6, CarriedStep
-----------------------------------------------------------------------------
(* What the cache vouches for stays the file's.                              *)

LEMMA CacheSoundIs ==
  ASSUME NEW key, key = w.cache.key, NEW m, m = MarkOf(key[1])
  PROVE  CacheSound <=>
           (key # <<>> => /\ VouchedLeg(m.early, EarlyEnd(m), w.cache.early, key[2])
                          /\ VouchedLeg(m.main, MainEnd(m), w.cache.main, key[2]))
BY DEF CacheSound

\* How a step changes the cache.
CacheSame == w'.cache.key = w.cache.key /\ w'.cache.early = w.cache.early /\ w'.cache.main = w.cache.main
CacheFresh ==
    /\ w'.cache.key = <<ses.rev, ses.fp>> /\ w'.cache.early = 0 /\ w'.cache.main = 0
CacheStep ==
    \/ w'.cache.key = <<>>
    \/ CacheSame
    \/ marks' = marks /\ CacheFresh
    \/ /\ marks' = marks /\ env'.mixed = env.mixed /\ w.run.pc = "verify"
       /\ \E leg \in {"early", "main"} : ProvedLeg(w'.cache, leg)
    \/ /\ marks' = marks /\ env'.mixed = env.mixed /\ w.run.pc = "confirm"
       /\ ConfirmedCache(w'.cache)

LEMMA LikeCache ==
  ASSUME Base, Running, marks' = marks, CacheLike(w'.cache) \/ Slot(w'.cache)
  PROVE  CacheStep
BY VouchedGives DEF CacheStep, CacheSame, CacheFresh, CacheLike, Slot

LEMMA RestsCache ==
  ASSUME Rests(w.cache) \/ Rests(NothingProved)
  PROVE  CacheStep
BY DEF Rests, CacheStep, CacheSame, NothingProved

LEMMA CacheMoves ==
  ASSUME Base, [ImportNext]_importVars
  PROVE  CacheStep
<1>1. CASE w' = w
  BY <1>1 DEF CacheStep, CacheSame
<1>2. CASE \/ FileGrows \/ FileReplaced \/ HostChanges \/ RepositoryPurged \/ LeaseExpires
           \/ RecoverLease \/ IngestDrains \/ WorkerPreflights
           \/ (\E active \in BOOLEAN : Refresh(active)) \/ UNCHANGED importVars
  <2>1. w' = w
    BY <1>2 DEF FileGrows, FileReplaced, HostChanges, RepositoryPurged, LeaseExpires,
       RecoverLease, IngestDrains, WorkerPreflights, Refresh, importVars
  <2> QED BY <1>1, <2>1
<1>3. CASE Crash
  BY <1>3 DEF Crash, CacheStep, NothingProved
<1>4. CASE ObserveSource \/ QueueImport \/ RevokeAccess
  <2>1. Touched
    BY <1>4 DEF ObserveSource, QueueImport, RevokeAccess
  <2>2. w'.cache = w.cache
    BY <2>1, TouchedGives DEF Base, Outer
  <2> QED BY <2>2 DEF CacheStep, CacheSame
<1>5. CASE WorkerSelects
  BY <1>5, SelectsGives DEF CacheStep, CacheSame
<1>6. CASE WorkerAuthorizes
  <2>1. w'.cache = w.cache \/ Rests(w.cache) \/ Rests(NothingProved)
    BY <1>6, AuthorizesGives DEF Moves
  <2> QED BY <2>1, RestsCache DEF CacheStep, CacheSame
<1>7. CASE WorkerVerifies
  <2>1. marks' = marks /\ env'.mixed = env.mixed /\ w.run.pc = "verify"
    BY <1>7, VerifiesGives
  <2>2. \/ Moves("claim") \/ Rests(NothingProved)
        \/ \E c \in Caches, leg \in {"early", "main"} : Rests(c) /\ ProvedLeg(c, leg)
    BY <1>7, VerifiesGives
  <2>3. ASSUME NEW c \in Caches, NEW leg \in {"early", "main"}, Rests(c) /\ ProvedLeg(c, leg)
        PROVE  CacheStep
    <3>1. w'.cache = c
      BY <2>3 DEF Rests
    <3>2. ProvedLeg(w'.cache, leg)
      BY <2>3, <3>1
    <3> QED BY <2>1, <3>2 DEF CacheStep
  <2> QED BY <2>2, <2>3, RestsCache DEF Moves, CacheStep, CacheSame
<1>8. CASE WorkerClaims
  <2>1. marks' = marks /\ w.run.pc = "claim"
    BY <1>8, ClaimsGives
  <2>2. Slot(w'.cache) \/ Rests(NothingProved)
    BY <1>8, ClaimsGives DEF Rests
  <2>3. Running
    BY <2>1 DEF Running
  <2> QED BY <2>1, <2>2, <2>3, RestsCache, LikeCache
<1>9. CASE WorkerBegins
  <2>1. w'.cache = w.cache
    BY <1>9, BeginsGives DEF Moves, Rests
  <2> QED BY <2>1 DEF CacheStep, CacheSame
<1>10. CASE WorkerCaptures
  <2>1. PICK r \in CaptureRecords : CapturesGives(r)
    BY <1>10, WorkerCapturesGives
  <2>2. marks' = marks /\ Running /\ CacheLike(w'.cache)
    BY <2>1 DEF CapturesGives, Running
  <2> QED BY <2>2, LikeCache
<1>11. CASE WorkerRefusesRecord
  BY <1>11, RefusesGives, RestsCache
<1>12. CASE WorkerStopsReading
  <2>1. w'.cache = w.cache
    BY <1>12, StopsGives DEF Moves, Rests
  <2> QED BY <2>1 DEF CacheStep, CacheSame
<1>13. CASE WorkerDrains
  <2>1. w'.cache = w.cache
    BY <1>13, DrainsGives DEF Moves, Rests
  <2> QED BY <2>1 DEF CacheStep, CacheSame
<1>14. CASE WorkerConfirms
  <2>1. marks' = marks /\ env'.mixed = env.mixed /\ w.run.pc = "confirm"
    BY <1>14, ConfirmsGives
  <2>2. w'.cache = w.cache \/ \E c \in Caches : Rests(c) /\ ConfirmedCache(c)
    BY <1>14, ConfirmsGives DEF Rests
  <2>3. ASSUME NEW c \in Caches, Rests(c) /\ ConfirmedCache(c)
        PROVE  CacheStep
    <3>1. w'.cache = c
      BY <2>3 DEF Rests
    <3>2. ConfirmedCache(w'.cache)
      BY <2>3, <3>1
    <3> QED BY <2>1, <3>2 DEF CacheStep
  <2> QED BY <2>2, <2>3 DEF CacheStep, CacheSame
<1>15. CASE WorkerHandsOff
  BY <1>15, HandsOffGives, RestsCache
<1> QED BY <1>2, <1>3, <1>4, <1>5, <1>6, <1>7, <1>8, <1>9, <1>10, <1>11, <1>12, <1>13, <1>14,
           <1>15 DEF ImportNext, WorkerNext

\* A leg of the file's records is vouched for at its end, and so is any beginning of a leg.
LEMMA VouchedPart ==
  ASSUME NEW from \in Nat, NEW whole, Leg(whole, from), NEW part, Leg(part, from),
         Range(part) \subseteq Range(whole), NEW f, Range(part) \subseteq Range(f.recs),
         NEW upTo, upTo = EndOf(part, from)
  PROVE  VouchedLeg(whole, EndOf(whole, from), upTo, f)
BY LegFillsFrom DEF VouchedLeg

LEMMA VouchedGrows ==
  ASSUME NEW old, NEW oldEnd, NEW new, NEW newEnd, NEW e, GrownLeg(old, oldEnd, new, newEnd, e),
         e.end \in Nat, NEW upTo \in Nat, NEW f, VouchedLeg(old, oldEnd, upTo, f),
         env.mixed => env'.mixed, NEW upTo2, upTo2 = upTo, NEW f2, f2 = f
  PROVE  VouchedLeg(new, newEnd, upTo2, f2)'
<1>1. ~(oldEnd < e.end) \/ ~(e.end <= upTo)
  BY DEF VouchedLeg, GrownLeg
<1>2. upTo <= newEnd
  BY DEF VouchedLeg, GrownLeg
<1>3. env'.mixed \/ \A r \in Range(new) : r.end <= upTo => r \in Range(f.recs)
  BY <1>1 DEF VouchedLeg, GrownLeg
<1> QED BY <1>2, <1>3 DEF VouchedLeg

LEMMA LegMark ==
  ASSUME NEW m \in Marks, GoodMark(m)
  PROVE  /\ Start(m) \in Nat /\ Leg(m.main, Start(m)) /\ Leg(m.early, 0)
         /\ EarlyEnd(m) \in Nat /\ MainEnd(m) \in Nat
         /\ MainEnd(m) = EndOf(m.main, Start(m)) /\ EarlyEnd(m) = EndOf(m.early, 0)
BY GoodEnds DEF GoodMark, MainEnd, EarlyEnd

LEMMA CacheKeptSame ==
  ASSUME Base, CacheSound, CacheSame, marks' = marks, env.mixed => env'.mixed
  PROVE  CacheSound'
<1>1. PICK key : key = w.cache.key
  OBVIOUS
<1>2. PICK m : m = MarkOf(key[1])
  OBVIOUS
<1>3. /\ w'.cache.key = key /\ w'.cache.early = w.cache.early /\ w'.cache.main = w.cache.main
      /\ MarkOf(w.cache.key[1])' = m
  BY <1>1, <1>2 DEF CacheSame, MarkOf
<1>4. key # <<>> => /\ VouchedLeg(m.early, EarlyEnd(m), w.cache.early, key[2])
                    /\ VouchedLeg(m.main, MainEnd(m), w.cache.main, key[2])
  BY <1>1, <1>2, CacheSoundIs
<1> QED BY <1>3, <1>4 DEF CacheSound, VouchedLeg

LEMMA CacheKeptTaken ==
  ASSUME Base, CacheSound, CacheSame, NEW k \in 1..Len(spool), Takes(k)
  PROVE  CacheSound'
<1>1. PICK key : key = w.cache.key
  OBVIOUS
<1>r. PICK r : r = spool[k]
  OBVIOUS
<1>2. PICK rev : rev = key[1]
  OBVIOUS
<1>m. PICK m : m = MarkOf(rev)
  OBVIOUS
<1>3. /\ w'.cache.key = key /\ w'.cache.early = w.cache.early /\ w'.cache.main = w.cache.main
      /\ w.cache.early \in Nat /\ w.cache.main \in Nat /\ env'.mixed = env.mixed
  BY <1>1 DEF CacheSame, Base, Outer, WorkerOK, Caches, Takes
<1>4. key # <<>> => /\ VouchedLeg(m.early, EarlyEnd(m), w.cache.early, key[2])
                    /\ VouchedLeg(m.main, MainEnd(m), w.cache.main, key[2])
  BY <1>1, <1>2, <1>m, CacheSoundIs
<1>5. MarkOf(w.cache.key[1])' = MarkOf(rev)'
  BY <1>2, <1>3 DEF MarkOf
<1>6. /\ r \in CaptureRecords /\ r.end = r.start + Width[r.val] /\ m \in Marks /\ GoodMark(m)
      /\ \/ MarkOf(rev)' = m
         \/ \E n \in Marks : MarkOf(rev)' = n /\ Grown(m, r, n)
  BY <1>r, <1>m, MarkTaken
<1>7. CASE MarkOf(rev)' = m
  BY <1>3, <1>4, <1>5, <1>7 DEF CacheSound, VouchedLeg
<1>8. ASSUME NEW n \in Marks, MarkOf(rev)' = n, Grown(m, r, n)
      PROVE  CacheSound'
  <2>1. PICK e : e = Entry(r)
    OBVIOUS
  <2>2. e.end \in Nat
    BY <1>6, <2>1, EntryType
  <2>3. PICK early \in Nat, main \in Nat : early = w.cache.early /\ main = w.cache.main
    BY <1>3
  <2>4. PICK f : f = key[2]
    OBVIOUS
  <2>5. PICK ee : ee = EarlyEnd(n)
    OBVIOUS
  <2>6. PICK me : me = MainEnd(n)
    OBVIOUS
  <2>7. ASSUME key # <<>>
        PROVE  VouchedLeg(n.early, ee, early, f)' /\ VouchedLeg(n.main, me, main, f)'
    <3>1. /\ GrownLeg(m.early, EarlyEnd(m), n.early, ee, e)
          /\ GrownLeg(m.main, MainEnd(m), n.main, me, e)
      BY <1>8, <2>1, <2>5, <2>6 DEF Grown
    <3>2. /\ VouchedLeg(m.early, EarlyEnd(m), early, f)
          /\ VouchedLeg(m.main, MainEnd(m), main, f)
      BY <1>4, <2>3, <2>4, <2>7
    <3>3. env.mixed => env'.mixed
      BY <1>3
    <3>4. VouchedLeg(n.early, ee, early, f)'
      BY <2>2, <3>1, <3>2, <3>3, VouchedGrows
    <3>5. VouchedLeg(n.main, me, main, f)'
      BY <2>2, <3>1, <3>2, <3>3, VouchedGrows
    <3> QED BY <3>4, <3>5
  <2>8. MarkOf(w.cache.key[1])' = n
    BY <1>5, <1>8
  <2> QED BY <1>3, <2>3, <2>4, <2>5, <2>6, <2>7, <2>8 DEF CacheSound, VouchedLeg
<1> QED BY <1>6, <1>7, <1>8

LEMMA CacheKeptFresh ==
  ASSUME Base, CacheSound, CacheFresh, marks' = marks
  PROVE  CacheSound'
<1>1. PICK m : m = MarkOf(ses.rev)
  OBVIOUS
<1>2. m \in Marks /\ GoodMark(m)
  BY <1>1, MarkOfGood DEF Base, Outer, Store, Types
<1>3. w'.cache.key[1] = ses.rev /\ MarkOf(w.cache.key[1])' = m
  BY <1>1 DEF CacheFresh, MarkOf
<1>z. PICK z \in Nat : z = 0
  OBVIOUS
<1>4. w'.cache.early = z /\ w'.cache.main = z
  BY <1>z DEF CacheFresh
<1>5. /\ \A e \in Range(m.early) : ~(e.end <= z)
      /\ \A e \in Range(m.main) : ~(e.end <= z)
      /\ z <= EarlyEnd(m) /\ z <= MainEnd(m)
  <2>1. Start(m) \in Nat /\ Leg(m.main, Start(m)) /\ Leg(m.early, z)
        /\ EarlyEnd(m) \in Nat /\ MainEnd(m) \in Nat
    BY <1>2, <1>z, LegMark
  <2>2. \A e \in Range(m.early) : e \in Records /\ z <= e.start /\ e.start < e.end
    BY <2>1, LegBounds
  <2>3. \A e \in Range(m.main) : e \in Records /\ Start(m) <= e.start /\ e.start < e.end
    BY <2>1, LegBounds
  <2> QED BY <1>z, <2>1, <2>2, <2>3 DEF Records
<1> QED BY <1>3, <1>4, <1>5 DEF CacheSound, VouchedLeg

\* What is vouched for in the worker's own slot.
LEMMA VouchedSound ==
  ASSUME Base, CacheSound, Running, NEW m, m = MarkOf(ses.rev)
  PROVE  /\ VouchedLeg(m.early, EarlyEnd(m), Vouched.early, ses.fp)
         /\ VouchedLeg(m.main, MainEnd(m), Vouched.main, ses.fp)
<1>1. m \in Marks /\ GoodMark(m)
  BY MarkOfGood DEF Base, Outer, Store, Types
<1>2. /\ Vouched.key = <<ses.rev, ses.fp>>
      /\ Vouched = w.cache \/ (Vouched.early = 0 /\ Vouched.main = 0)
  BY VouchedGives
<1>3. CASE Vouched = w.cache
  <2>1. w.cache.key = <<ses.rev, ses.fp>> /\ w.cache.key # <<>> /\ w.cache.key[1] = ses.rev
        /\ w.cache.key[2] = ses.fp
    BY <1>2, <1>3
  <2> QED BY <1>3, <2>1 DEF CacheSound
<1>4. CASE Vouched.early = 0 /\ Vouched.main = 0
  <2>1. PICK z \in Nat : z = 0
    OBVIOUS
  <2>2. Start(m) \in Nat /\ Leg(m.main, Start(m)) /\ Leg(m.early, z)
        /\ EarlyEnd(m) \in Nat /\ MainEnd(m) \in Nat
    BY <1>1, <2>1, LegMark
  <2>3. \A e \in Range(m.early) : e \in Records /\ z <= e.start /\ e.start < e.end
    BY <2>2, LegBounds
  <2>4. \A e \in Range(m.main) : e \in Records /\ Start(m) <= e.start /\ e.start < e.end
    BY <2>2, LegBounds
  <2>5. \A e \in Range(m.early) \union Range(m.main) : ~(e.end <= 0)
    BY <2>3, <2>4, <2>2 DEF Records
  <2> QED BY <1>4, <2>2, <2>5 DEF VouchedLeg
<1> QED BY <1>2, <1>3, <1>4

LEMMA CacheKeptProved ==
  ASSUME Base, CacheSound, ReadMark, w.run.pc = "verify", marks' = marks,
         env'.mixed = env.mixed, NEW leg \in {"early", "main"}, ProvedLeg(w'.cache, leg)
  PROVE  CacheSound'
<1>1. PICK m : m = MarkOf(ses.rev)
  OBVIOUS
<1>2. PICK read : read = w.run.mark
  OBVIOUS
<1>3. Running
  BY DEF Running
<1>4. /\ m \in Marks /\ GoodMark(m) /\ read \in Marks /\ GoodMark(read)
      /\ Range(read.early) \subseteq Range(m.early) /\ Range(read.main) \subseteq Range(m.main)
      /\ read # NoMark => read.fence = ses.origin.fence
      /\ m # NoMark => m.fence = ses.origin.fence
  BY <1>1, <1>2, <1>3, MarkOfGood, ContextGives DEF Base, Outer, Store, Types, Marked, ReadMark
<1>5. PICK c : c = w'.cache
  OBVIOUS
<1>6. /\ c.key = <<ses.rev, ses.fp>> /\ file = ses.fp
      /\ Range(LegOf(read, leg)) \subseteq Range(ses.fp.recs) /\ LegOf(read, leg) # <<>>
      /\ \/ leg = "early" /\ c.early = EarlyEnd(read) /\ c.main = Vouched.main
         \/ leg = "main" /\ c.main = MainEnd(read) /\ c.early = Vouched.early
  BY <1>2, <1>5 DEF ProvedLeg
<1>7. PICK f : f = ses.fp
  OBVIOUS
<1>8. /\ VouchedLeg(m.early, EarlyEnd(m), Vouched.early, f)
      /\ VouchedLeg(m.main, MainEnd(m), Vouched.main, f)
  BY <1>1, <1>3, <1>7, VouchedSound
<1>9. VouchedLeg(m.early, EarlyEnd(m), c.early, f) /\ VouchedLeg(m.main, MainEnd(m), c.main, f)
  <2>1. CASE leg = "early"
    <3>1. PICK from \in Nat : from = 0
      OBVIOUS
    <3>2. /\ Leg(m.early, from) /\ Leg(read.early, from)
          /\ Range(read.early) \subseteq Range(m.early)
          /\ Range(read.early) \subseteq Range(f.recs)
          /\ c.early = EndOf(read.early, from) /\ EarlyEnd(m) = EndOf(m.early, from)
      BY <1>4, <1>6, <1>7, <2>1, <3>1, LegMark DEF LegOf
    <3>3. VouchedLeg(m.early, EarlyEnd(m), c.early, f)
      BY <3>2, VouchedPart
    <3> QED BY <1>6, <1>8, <2>1, <3>3
  <2>2. CASE leg = "main"
    <3>1. read.main # <<>>
      BY <1>6, <2>2 DEF LegOf
    <3>2. read # NoMark
      BY <3>1 DEF NoMark
    <3>3. m # NoMark
      <4>1. Range(read.main) # {}
        BY <1>4, <3>1, LegMark, LegBounds
      <4>2. m.main # <<>>
        BY <1>4, <4>1, EmptyLeg
      <4> QED BY <4>2 DEF NoMark
    <3>4. PICK from \in Nat : from = Start(m)
      BY <1>4, LegMark
    <3>5. Start(read) = from
      BY <1>4, <3>2, <3>3, <3>4 DEF Start
    <3>6. /\ Leg(m.main, from) /\ Leg(read.main, from)
          /\ Range(read.main) \subseteq Range(m.main)
          /\ Range(read.main) \subseteq Range(f.recs)
          /\ c.main = EndOf(read.main, from) /\ MainEnd(m) = EndOf(m.main, from)
      BY <1>4, <1>6, <1>7, <2>2, <3>4, <3>5, LegMark DEF LegOf
    <3>7. VouchedLeg(m.main, MainEnd(m), c.main, f)
      BY <3>6, VouchedPart
    <3> QED BY <1>6, <1>8, <2>2, <3>7
  <2> QED BY <2>1, <2>2
<1>10. w'.cache.key[1] = ses.rev /\ w'.cache.key[2] = f
  BY <1>5, <1>6, <1>7
<1>11. MarkOf(w.cache.key[1])' = m
  BY <1>1, <1>10 DEF MarkOf
<1> QED BY <1>5, <1>9, <1>10, <1>11 DEF CacheSound, VouchedLeg

LEMMA CacheKeptConfirmed ==
  ASSUME Base, CacheSound, Proved, w.run.pc = "confirm", marks' = marks,
         env'.mixed = env.mixed, ConfirmedCache(w'.cache)
  PROVE  CacheSound'
<1>1. PICK m : m = MarkOf(ses.rev)
  OBVIOUS
<1>2. m \in Marks /\ GoodMark(m) /\ EarlyEnd(m) \in Nat /\ MainEnd(m) \in Nat
  BY <1>1, MarkOfGood, EndTypes DEF Base, Outer, Store, Types
<1>3. CASE w'.cache = w.cache
  BY <1>3, CacheKeptSame DEF CacheSame
<1>4. CASE w'.cache # w.cache
  <2>1. PICK c : c = w'.cache
    OBVIOUS
  <2>2. PICK f : f = ses.fp
    OBVIOUS
  <2>3. /\ c.key = w.cache.key /\ w.cache.key = <<ses.rev, f>>
        /\ \/ LegName = "early" /\ c.early = ReachedEnd /\ c.main = w.cache.main
           \/ LegName = "main" /\ c.main = ReachedEnd /\ c.early = w.cache.early
    BY <1>4, <2>1, <2>2 DEF ConfirmedCache
  <2>4. /\ VouchedLeg(m.early, EarlyEnd(m), w.cache.early, f)
        /\ VouchedLeg(m.main, MainEnd(m), w.cache.main, f)
    BY <1>1, <2>3 DEF CacheSound
  <2>5. w.run.range # <<>> /\ Claimed /\ Ranged
    BY DEF Base, Steady, Claimed, Ranged
  <2>6. /\ LegName = "main" => Open(ses)
        /\ env.mixed \/ Range(m.early) \subseteq Range(f.recs)
        /\ env.mixed \/ (Open(ses) => Range(m.main) \subseteq Range(f.recs))
    BY <1>1, <2>2, <2>5 DEF Proved, ProvedMarks, LegName
  <2>7. CASE LegName = "early"
    <3>1. c.early <= EarlyEnd(m) /\ c.main = w.cache.main
      BY <1>1, <1>2, <2>3, <2>7, NoMarkType DEF ReachedEnd
    <3>2. VouchedLeg(m.early, EarlyEnd(m), c.early, f) /\ VouchedLeg(m.main, MainEnd(m), c.main, f)
      BY <2>4, <2>6, <3>1 DEF VouchedLeg
    <3> QED BY <1>1, <2>1, <2>3, <3>2 DEF CacheSound, VouchedLeg, MarkOf
  <2>8. CASE LegName = "main"
    <3>1. c.main <= MainEnd(m) /\ c.early = w.cache.early
      BY <1>1, <1>2, <2>3, <2>8, NoMarkType DEF ReachedEnd
    <3>2. VouchedLeg(m.early, EarlyEnd(m), c.early, f) /\ VouchedLeg(m.main, MainEnd(m), c.main, f)
      BY <2>4, <2>6, <2>8, <3>1 DEF VouchedLeg
    <3> QED BY <1>1, <2>1, <2>3, <3>2 DEF CacheSound, VouchedLeg, MarkOf
  <2> QED BY <2>3, <2>7, <2>8
<1> QED BY <1>3, <1>4

LEMMA CacheKept ==
  ASSUME Base, CacheSound, ReadMark, Proved, [ImportNext]_importVars
  PROVE  CacheSound'
<1>1. StoreStep /\ Fixed
  BY OuterAndStore
<1>2. CacheStep
  BY CacheMoves
<1>3. CASE w'.cache.key = <<>>
  BY <1>3 DEF CacheSound
<1>4. CASE CacheSame
  <2>1. CASE \E k \in 1..Len(spool) : Takes(k)
    BY <1>4, <2>1, CacheKeptTaken
  <2>2. CASE marks' = marks
    BY <1>1, <1>4, <2>2, CacheKeptSame DEF Fixed, EnvKept
  <2> QED BY <1>1, <2>1, <2>2 DEF StoreStep, Quiet, Told, Looked, CapturesOne
<1>5. CASE marks' = marks /\ CacheFresh
  BY <1>5, CacheKeptFresh
<1>6. CASE /\ marks' = marks /\ env'.mixed = env.mixed /\ w.run.pc = "verify"
           /\ \E leg \in {"early", "main"} : ProvedLeg(w'.cache, leg)
  BY <1>6, CacheKeptProved
<1>7. CASE /\ marks' = marks /\ env'.mixed = env.mixed /\ w.run.pc = "confirm"
           /\ ConfirmedCache(w'.cache)
  BY <1>7, CacheKeptConfirmed
<1> QED BY <1>2, <1>3, <1>4, <1>5, <1>6, <1>7 DEF CacheStep
-----------------------------------------------------------------------------
(* What was proved stays proved.                                             *)

LEMMA FinishedComplete ==
  ASSUME NEW s \in Sessions, FileOK(s.fp), NEW m \in Marks, GoodMark(m),
         m # NoMark => m.fence = s.origin.fence, finished_import_state(s, m) = "Imported"
  PROVE  Complete(s, m)
<1>1. Size(s.fp) \in Nat \ {0} /\ s.origin.fence \in Nat \union {-1}
  BY FileSize DEF Sessions, Origins
<1>2. PICK n : n = FenceOf(s, m)
  OBVIOUS
<1>3. /\ n \in Marks /\ n.main = m.main /\ n.early = m.early
      /\ n.fence = (IF m = NoMark /\ HasOrigin(s) THEN s.origin.fence ELSE m.fence)
  BY <1>2, FenceOfType
<1>4. /\ EarlyEnd(n) = EarlyEnd(m) /\ (n.fence = m.fence => MainEnd(n) = MainEnd(m))
  BY <1>3 DEF EarlyEnd, MainEnd, Start
<1>5. CASE ~HasOrigin(s)
  <2>1. MainEnd(n) = Size(s.fp)
    BY <1>2, <1>5 DEF finished_import_state
  <2>2. MainEnd(m) = Size(s.fp)
    BY <1>3, <1>4, <1>5, <2>1
  <2>3. m # NoMark
    BY <1>1, <2>2, NoMarkType
  <2> QED BY <1>5, <2>2, <2>3 DEF Complete, Open
<1>6. CASE HasOrigin(s)
  <2>1. ~s.origin.closed /\ EarlyEnd(n) = s.origin.fence /\ MainEnd(n) = Size(s.fp)
    BY <1>2, <1>6 DEF finished_import_state
  <2>2. m # NoMark
    <3> SUFFICES ASSUME m = NoMark
                 PROVE  FALSE
      OBVIOUS
    <3>1. EarlyEnd(n) = 0 /\ n.main = <<>> /\ n.fence = s.origin.fence
      BY <1>3, <1>4, <1>6, NoMarkType DEF NoMark
    <3>2. MainEnd(n) = 0
      BY <2>1, <3>1 DEF MainEnd, EndOf, Start
    <3> QED BY <1>1, <2>1, <3>2
  <2>3. EarlyEnd(m) = s.origin.fence /\ MainEnd(m) = Size(s.fp)
    BY <1>3, <1>4, <2>1, <2>2
  <2> QED BY <2>1, <2>2, <2>3 DEF Complete, Open
<1> QED BY <1>5, <1>6

LEMMA ProvedMarksIs ==
  ASSUME NEW m, m = MarkOf(ses.rev)
  PROVE  ProvedMarks <=>
           (Claimed /\ ~env.mixed =>
              /\ Range(m.early) \subseteq Range(ses.fp.recs)
              /\ Open(ses) => Range(m.main) \subseteq Range(ses.fp.recs))
BY DEF ProvedMarks

LEMMA CompleteKept ==
  ASSUME SessionKept, NEW m, Complete(ses, m)
  PROVE  Complete(ses, m)'
BY DEF SessionKept, Complete, Open, HasOrigin

LEMMA ProvedCarried ==
  ASSUME Base, Fixed, Carried, StoreStep, Proved
  PROVE  Proved'
<1> SUFFICES ASSUME Running'
             PROVE  Proved'
  BY DEF Proved, ProvedMarks, Running, Claimed, Ranged, Ending
<1>1. PICK m : m = MarkOf(ses.rev)
  OBVIOUS
<1>2. /\ SessionKept /\ (Claimed' => Claimed) /\ (Ranged' => Ranged) /\ (Ending' => Ending)
      /\ w'.run.mark = w.run.mark /\ w'.run.range = w.run.range /\ w'.run.target = w.run.target
  BY DEF Carried
<1>3. Open(ses)' <=> Open(ses)
  BY <1>2 DEF SessionKept, Open, HasOrigin
<1>4. env.mixed => env'.mixed
  BY DEF Fixed, EnvKept
<1>5. Ranged' => w'.run.range[1].kind = "prefix" \/ Open(ses)'
  BY <1>2, <1>3 DEF Proved
<1>6. Ending' => w'.run.target # "Imported" \/ Complete(ses, w.run.mark)'
  <2>1. PICK mark : mark = w.run.mark
    OBVIOUS
  <2>2. Ending' => w'.run.target # "Imported" \/ Complete(ses, mark)
    BY <1>2, <2>1 DEF Proved
  <2>3. Complete(ses, mark) => Complete(ses, mark)'
    BY <1>2, CompleteKept
  <2>4. Complete(ses, mark)' => Complete(ses, w.run.mark)'
    BY <1>2, <2>1 DEF Complete
  <2> QED BY <2>2, <2>3, <2>4
<1>7. Claimed /\ ~env.mixed =>
        /\ Range(m.early) \subseteq Range(ses.fp.recs)
        /\ Open(ses) => Range(m.main) \subseteq Range(ses.fp.recs)
  BY <1>1, ProvedMarksIs DEF Proved
<1>8. CASE MarkOf(ses.rev)' = m
  <2>1. ProvedMarks'
    BY <1>2, <1>3, <1>4, <1>7, <1>8 DEF ProvedMarks, SessionKept
  <2> QED BY <1>5, <1>6, <2>1 DEF Proved
<1>9. ASSUME NEW k \in 1..Len(spool), Takes(k)
      PROVE  Proved'
  <2>r. PICK r : r = spool[k]
    OBVIOUS
  <2>1. PICK rev : rev = ses.rev
    OBVIOUS
  <2>2. MarkOf(ses.rev)' = MarkOf(rev)'
    BY <1>2, <2>1 DEF SessionKept
  <2>3. \/ MarkOf(rev)' = MarkOf(rev)
        \/ rev = r.rev /\ \E n \in Marks : MarkOf(rev)' = n /\ Grown(MarkOf(rev), r, n)
    BY <1>9, <2>r, MarkTaken
  <2>4. CASE rev = r.rev /\ \E n \in Marks : MarkOf(rev)' = n /\ Grown(MarkOf(rev), r, n)
    <3>1. PICK n \in Marks : MarkOf(ses.rev)' = n /\ Grown(m, r, n)
      BY <1>1, <2>1, <2>2, <2>4
    <3>2. env.mixed \/ Entry(r) \in Range(ses.fp.recs)
      <4>1. r.rev = ses.rev
        BY <2>1, <2>4
      <4> QED BY <2>r, <4>1 DEF Base, Store, Captured
    <3>3. /\ Range(n.early) \subseteq Range(m.early) \union {Entry(r)}
          /\ Range(n.main) \subseteq Range(m.main) \union {Entry(r)}
      BY <3>1 DEF Grown, GrownLeg
    <3>4. Claimed /\ ~env.mixed =>
            /\ Range(n.early) \subseteq Range(ses.fp.recs)
            /\ Open(ses) => Range(n.main) \subseteq Range(ses.fp.recs)
      BY <1>7, <3>2, <3>3
    <3>5. ProvedMarks'
      BY <1>2, <1>3, <1>4, <3>1, <3>4 DEF ProvedMarks, SessionKept
    <3> QED BY <1>5, <1>6, <3>5 DEF Proved
  <2> QED BY <1>1, <1>8, <2>1, <2>2, <2>3, <2>4
<1>10. CASE marks' = marks
  <2>1. MarkOf(ses.rev)' = m
    BY <1>1, <1>2, <1>10 DEF MarkOf, SessionKept
  <2> QED BY <1>8, <2>1
<1> QED BY <1>9, <1>10 DEF StoreStep, Quiet, Told, Looked, CapturesOne

\* A worker that has no leg left to read back knows every confirmed record for the file's.
LEMMA VerifiedMarks ==
  ASSUME Base, ReadMark, CacheSound, w.run.pc = "verify", Unproved = {}, ~env.mixed,
         NEW m, m = MarkOf(ses.rev)
  PROVE  /\ Range(m.early) \subseteq Range(ses.fp.recs)
         /\ Open(ses) => Range(m.main) \subseteq Range(ses.fp.recs)
<1>1. PICK read : read = w.run.mark
  OBVIOUS
<1>2. PICK s : s = w.run.ctx
  OBVIOUS
<1>3. Running
  BY DEF Running
<1>4. /\ m \in Marks /\ GoodMark(m) /\ read \in Marks /\ GoodMark(read)
      /\ s \in Sessions /\ s.origin = ses.origin /\ s.kind = ses.kind /\ s.fp = ses.fp
      /\ s.kind # "Unavailable" /\ s.access # "Revoked"
      /\ ses.kind \in {host.kind, "Unavailable"}
  BY <1>1, <1>2, <1>3, MarkOfGood, ContextGives DEF Base, Outer, Store, Types, Steady, ReadMark
<1>5. /\ Range(read.early) \subseteq Range(m.early) /\ Range(read.main) \subseteq Range(m.main)
      /\ (read # NoMark => read.fence = ses.origin.fence)
      /\ read.early # <<>> => host.kind = "Repository" \/ s.access # "none"
      /\ Range(m.early) \subseteq Range(read.early) \union Range(ses.fp.recs)
      /\ Range(m.main) \subseteq Range(read.main) \union Range(ses.fp.recs)
  BY <1>1, <1>2, <1>3 DEF ReadMark
<1>6. /\ \A r \in Range(m.early) : r.end <= Vouched.early => r \in Range(ses.fp.recs)
      /\ \A r \in Range(m.main) : r.end <= Vouched.main => r \in Range(ses.fp.recs)
  BY <1>3, VouchedSound DEF VouchedLeg
<1>7. Vouched \in Caches /\ Vouched.early \in Nat /\ Vouched.main \in Nat
  BY <1>3, VouchedGives DEF Caches
<1>8. \A leg \in {"early", "main"} :
        leg \in required_import_proofs(s, read) => ~(Vouched[leg] < LegEnd(read, leg))
  BY <1>1, <1>2 DEF Unproved
<1>9. /\ Start(read) \in Nat /\ Leg(read.main, Start(read)) /\ Leg(read.early, 0)
      /\ EarlyEnd(read) \in Nat /\ MainEnd(read) \in Nat
      /\ MainEnd(read) = EndOf(read.main, Start(read)) /\ EarlyEnd(read) = EndOf(read.early, 0)
  BY <1>4, LegMark
<1>10. \A r \in Range(read.early) : r.end \in Nat /\ r.end <= EarlyEnd(read)
  <2>1. PICK from \in Nat : from = 0
    OBVIOUS
  <2>2. Leg(read.early, from) /\ EarlyEnd(read) = EndOf(read.early, from)
    BY <1>9, <2>1
  <2> QED BY <2>2, LegBounds DEF Records
<1>11. \A r \in Range(read.main) : r.end \in Nat /\ r.end <= MainEnd(read)
  BY <1>9, LegBounds DEF Records
<1>12. Range(read.early) \subseteq Range(ses.fp.recs)
  <2> SUFFICES ASSUME read.early # <<>>
               PROVE  Range(read.early) \subseteq Range(ses.fp.recs)
    BY EmptyLeg
  <2>1. read # NoMark /\ read.fence = ses.origin.fence
    BY <1>5 DEF NoMark
  <2>2. 0 < EarlyEnd(read)
    BY <1>4, GoodEnds
  <2>3. s.origin.fence \in Nat /\ s.origin.fence > 0
    BY <1>4, <1>9, <2>1, <2>2 DEF GoodMark, Marks
  <2>4. s.kind = "Repository" \/ s.access = "Approved"
    BY <1>4, <1>5 DEF Sessions
  <2>5. import_scope(s, 0, 1) # "refused"
    BY <1>4, <2>3, <2>4 DEF import_scope
  <2>6. PrefixAccessible(s)
    BY <2>3, <2>5 DEF PrefixAccessible
  <2>7. read["early"] # <<>>
    BY <1>4 DEF Marks
  <2>8. "early" \in required_import_proofs(s, read)
    BY <2>6, <2>7 DEF required_import_proofs
  <2>9. ~(Vouched.early < EarlyEnd(read))
    BY <1>7, <1>8, <2>8 DEF LegEnd, Caches
  <2> QED BY <1>5, <1>6, <1>7, <1>9, <1>10, <2>9
<1>13. Open(ses) => Range(read.main) \subseteq Range(ses.fp.recs)
  <2> SUFFICES ASSUME read.main # <<>>, Open(ses)
               PROVE  Range(read.main) \subseteq Range(ses.fp.recs)
    BY EmptyLeg
  <2>1. read["main"] # <<>>
    BY <1>4 DEF Marks
  <2>2. HasOrigin(s) => ~s.origin.closed
    BY <1>4 DEF Open, HasOrigin
  <2>3. "main" \in required_import_proofs(s, read)
    BY <2>1, <2>2 DEF required_import_proofs
  <2>4. ~(Vouched.main < MainEnd(read))
    BY <1>7, <1>8, <2>3 DEF LegEnd, Caches
  <2> QED BY <1>5, <1>6, <1>7, <1>9, <1>11, <2>4
<1> QED BY <1>5, <1>12, <1>13

LEMMA ProvedKept ==
  ASSUME Base, ReadMark, CacheSound, Proved, [ImportNext]_importVars
  PROVE  Proved'
<1>1. StoreStep /\ Fixed
  BY OuterAndStore
<1>2. CASE Carried
  BY <1>1, <1>2, ProvedCarried
<1>3. CASE WorkerSelects
  <2>1. w'.run.pc = "authorize"
    BY <1>3, SelectsGives
  <2> QED BY <2>1 DEF Proved, ProvedMarks, Claimed, Ranged, Ending
<1>4. CASE WorkerVerifies /\ Unproved = {} /\ Moves("claim")
  <2>1. UNCHANGED <<marks, host, env>> /\ w.run.pc = "verify"
    BY <1>4, VerifiesGives
  <2>2. ses' = ses
    BY <1>4, VerifiesGives DEF Moves, Rests
  <2>3. w'.run.pc = "claim"
    BY <1>4 DEF Moves
  <2>4. PICK m : m = MarkOf(ses.rev)
    OBVIOUS
  <2>5. MarkOf(ses.rev)' = m
    BY <2>1, <2>2, <2>4 DEF MarkOf
  <2>6. ~env.mixed => /\ Range(m.early) \subseteq Range(ses.fp.recs)
                      /\ Open(ses) => Range(m.main) \subseteq Range(ses.fp.recs)
    BY <1>4, <2>1, <2>4, VerifiedMarks
  <2>7. ProvedMarks'
    BY <2>1, <2>2, <2>5, <2>6 DEF ProvedMarks, Open, HasOrigin
  <2> QED BY <2>3, <2>7 DEF Proved, Ranged, Ending
<1>5. CASE WorkerClaims
  <2>1. UNCHANGED <<ses, marks, host, env>> /\ w.run.pc = "claim"
    BY <1>5, ClaimsGives
  <2>2. CASE w'.run.pc = "idle"
    BY <2>2 DEF Proved, ProvedMarks, Claimed, Ranged, Ending
  <2>3. CASE w'.run.pc # "idle"
    <3>1. /\ MarkOf(ses.rev) = w.run.mark
          /\ \E range \in Seq(Ranges) :
               /\ ClaimedRun(range, finished_import_state(ses, w.run.mark))
               /\ range = ChosenRange(w.run.ctx, w.run.mark)
      BY <1>5, <2>3, ClaimsGives DEF Rests
    <3>2. PICK range \in Seq(Ranges) :
               /\ ClaimedRun(range, finished_import_state(ses, w.run.mark))
               /\ range = ChosenRange(w.run.ctx, w.run.mark)
      BY <3>1
    <3>3. PICK m : m = w.run.mark
      OBVIOUS
    <3>4. PICK s : s = w.run.ctx
      OBVIOUS
    <3>5. Running
      BY <2>1 DEF Running
    <3>6. /\ m \in Marks /\ GoodMark(m) /\ (m # NoMark => m.fence = ses.origin.fence)
          /\ ses \in Sessions /\ FileOK(ses.fp)
          /\ s \in Sessions /\ FileOK(s.fp) /\ s.origin = ses.origin
      BY <3>1, <3>3, <3>4, <3>5, MarkOfGood, ContextGives DEF Base, Outer, Store, Types, Marked
    <3>7. ProvedMarks'
      <4>1. ProvedMarks /\ Claimed
        BY <2>1 DEF Proved, Claimed
      <4>2. MarkOf(ses.rev)' = MarkOf(ses.rev)
        BY <2>1 DEF MarkOf
      <4> QED BY <2>1, <4>1, <4>2 DEF ProvedMarks, Open, HasOrigin
    <3>8. range # <<>> => range[1].kind = "prefix" \/ Open(ses)
      <4>1. range # <<>> => range[1] \in import_ranges(s, m)
        BY <3>2, <3>3, <3>4, <3>6, ChosenGives
      <4>2. range # <<>> => range[1].kind = "prefix" \/ ~HasOrigin(s) \/ ~s.origin.closed
        BY <4>1 DEF import_ranges
      <4> QED BY <3>6, <4>2 DEF Open, HasOrigin
    <3>9. /\ w'.run.range = range /\ w'.run.target = finished_import_state(ses, m)
          /\ w'.run.mark = m
      BY <3>2, <3>3 DEF ClaimedRun
    <3>10. finished_import_state(ses, m) = "Imported" => Complete(ses, m)
      BY <3>6, FinishedComplete
    <3>11. /\ Ranged' => w'.run.range[1].kind = "prefix" \/ Open(ses)'
      BY <2>1, <3>8, <3>9 DEF Ranged, Open, HasOrigin
    <3>12. Complete(ses, m) => Complete(ses, w.run.mark)'
      BY <2>1, <3>9 DEF Complete, Open, HasOrigin
    <3>13. w'.run.target # "Imported" \/ Complete(ses, w.run.mark)'
      BY <3>9, <3>10, <3>12
    <3> QED BY <3>7, <3>11, <3>13 DEF Proved
  <2> QED BY <2>2, <2>3
<1>6. CASE WorkerConfirms /\ w'.run.pc = "handoff"
  <2>1. UNCHANGED <<marks, host, env>> /\ w.run.pc = "confirm"
    BY <1>6, ConfirmsGives
  <2>2. /\ ses' = ses /\ w'.run.mark = MarkOf(ses.rev)
        /\ w'.run.target = finished_import_state(ses, MarkOf(ses.rev))
    BY <1>6, ConfirmsGives DEF Rests
  <2>3. PICK m : m = MarkOf(ses.rev)
    OBVIOUS
  <2>4. /\ m \in Marks /\ GoodMark(m) /\ (m # NoMark => m.fence = ses.origin.fence)
        /\ ses \in Sessions /\ FileOK(ses.fp)
    BY <2>3, MarkOfGood DEF Base, Outer, Store, Types, Marked
  <2>5. finished_import_state(ses, m) = "Imported" => Complete(ses, m)
    BY <2>4, FinishedComplete
  <2>6. Complete(ses, m) => Complete(ses, w.run.mark)'
    BY <2>2, <2>3 DEF Complete, Open, HasOrigin
  <2>7. ProvedMarks'
    <3>1. ProvedMarks /\ Claimed
      BY <2>1 DEF Proved, Claimed
    <3>2. MarkOf(ses.rev)' = MarkOf(ses.rev)
      BY <2>1, <2>2 DEF MarkOf
    <3> QED BY <2>1, <2>2, <3>1, <3>2 DEF ProvedMarks, Open, HasOrigin
  <2> QED BY <1>6, <2>2, <2>3, <2>5, <2>6, <2>7 DEF Proved, Ranged
<1> QED BY <1>2, <1>3, <1>4, <1>5, <1>6, CarriedStep
-----------------------------------------------------------------------------
(* An imported session is the file.                                          *)

\* The records of two legs that reach the ends of the file are all of the file's.
LEMMA LegsFill ==
  ASSUME NEW s \in Sessions, FileOK(s.fp), NEW m \in Marks, GoodMark(m), Complete(s, m),
         m.fence = s.origin.fence,
         Range(m.early) \subseteq Range(s.fp.recs), Range(m.main) \subseteq Range(s.fp.recs)
  PROVE  Range(m.early \o m.main) = Range(s.fp.recs)
<1>1. PICK z \in Nat : z = 0
  OBVIOUS
<1>2. PICK whole : whole = s.fp.recs
  OBVIOUS
<1>3. /\ Start(m) \in Nat /\ Leg(m.main, Start(m)) /\ Leg(m.early, z)
      /\ MainEnd(m) = EndOf(m.main, Start(m)) /\ EarlyEnd(m) = EndOf(m.early, z)
      /\ EarlyEnd(m) \in Nat /\ MainEnd(m) \in Nat
  BY <1>1, LegMark
<1>4. Leg(whole, z) /\ Leg(whole, 0) /\ EndOf(whole, z) = Size(s.fp)
  BY <1>1, <1>2 DEF FileOK, Size
<1>5. MainEnd(m) = Size(s.fp) /\ (HasOrigin(s) => EarlyEnd(m) = s.origin.fence)
  BY DEF Complete
<1>6. ASSUME NEW e \in Range(whole)
      PROVE  e \in Range(m.early) \union Range(m.main)
  <2>1. e.start \in Nat /\ e.end \in Nat /\ z <= e.start /\ e.start < e.end /\ e.end <= Size(s.fp)
    BY <1>4, LegBounds DEF Records
  <2>2. CASE Start(m) <= e.start
    <3>1. e.start < EndOf(m.main, Start(m))
      BY <1>3, <1>5, <2>1
    <3>2. Range(m.main) \subseteq Range(whole)
      BY <1>2
    <3>3. e \in Range(m.main)
      BY <1>3, <1>4, <2>2, <3>1, <3>2, LegFills
    <3> QED BY <3>3
  <2>3. CASE ~(Start(m) <= e.start)
    <3>1. m.fence >= 0 /\ Start(m) = m.fence
      BY <1>3, <2>1, <2>3 DEF Start
    <3>2. EarlyEnd(m) = Start(m)
      BY <1>5, <3>1 DEF HasOrigin
    <3>3. e.start < EndOf(m.early, z)
      BY <1>3, <2>1, <2>3, <3>2
    <3>4. Range(m.early) \subseteq Range(whole)
      BY <1>2
    <3>5. e \in Range(m.early)
      BY <1>3, <1>4, <2>1, <3>3, <3>4, LegFills
    <3> QED BY <3>5
  <2> QED BY <2>2, <2>3
<1>7. Range(m.early \o m.main) = Range(m.early) \union Range(m.main)
  BY RangeConcatenation DEF Marks
<1> QED BY <1>2, <1>6, <1>7

\* A look at the catalog leaves a session imported only if it saw what there was.
LEMMA RefreshWhole ==
  ASSUME Base, Serves, WholeArchive, NEW active \in BOOLEAN, Refresh(active), ses'.body = "Imported"
  PROVE  SessionKept /\ ses.body = "Imported"
<1>1. PICK m : m = CatalogItem(ses, active)
  OBVIOUS
<1>2. /\ m \in Metas
      /\ \/ SameSource(m) /\ m.origin = ses.origin
         \/ OtherSource(m) /\ m.origin = NoOrigin
  BY <1>1, CatalogGives
<1>3. PICK live : live = (jobs = <<>> /\ Size(file) > Size(ses.fp))
  OBVIOUS
<1>4. PICK r : r = metadata_events(ses, m, live)
  OBVIOUS
<1>5. ses' = r.ses
  BY <1>1, <1>3, <1>4 DEF Refresh, Refreshed
<1>6. ses \in Sessions
  BY DEF Base, Store, Types
<1>7. /\ r.ses.fp = m.fp /\ r.ses.rev = m.rev /\ r.ses.origin = m.origin
      /\ r.ses.body = (IF AppendArrived(ses, m, live) THEN "Queued"
                       ELSE IF BodyTransition(ses, m) = "none" THEN ses.body
                       ELSE BodyTransition(ses, m))
      /\ BodyTransition(ses, m) \in {"none", "SourceReplaced", "BlockedScopeUnresolved"}
  BY <1>2, <1>4, <1>6, EventsGive
<1>8. ~AppendArrived(ses, m, live) /\ BodyTransition(ses, m) = "none" /\ ses.body = "Imported"
  BY <1>5, <1>7
<1>9. ~SourceChanged(ses, m)
  BY <1>8 DEF BodyTransition
<1>10. SameSource(m) /\ m.origin = ses.origin
  BY <1>2, <1>9, SourceKnown
<1>11. m.fp = ses.fp
  <2> SUFFICES ASSUME m.fp # ses.fp
               PROVE  FALSE
    OBVIOUS
  <2>1. m.fp = file /\ Size(ses.fp) < Size(file) /\ m.rev = ses.rev
    BY <1>10 DEF SameSource
  <2>2. Open(ses)
    BY <1>8 DEF WholeArchive, Complete
  <2>3. jobs = <<>>
    BY <1>8 DEF Serves, JobServesBody, Active
  <2>4. Size(file) > Size(ses.fp) /\ live
    BY <1>3, <2>1, <2>3
  <2>5. AppendArrived(ses, m, live)
    BY <1>8, <2>1, <2>2, <2>4 DEF AppendArrived, Open
  <2> QED BY <1>8, <2>5
<1> QED BY <1>5, <1>7, <1>8, <1>10, <1>11 DEF SessionKept, SameSource

LEMMA EventsWhole ==
  ASSUME Base, NEW m \in Metas, NEW live, ses' = metadata_events(ses, m, live).ses,
         ses.body # "Imported"
  PROVE  ses'.body # "Imported"
<1>1. PICK r : r = metadata_events(ses, m, live)
  OBVIOUS
<1>2. ses \in Sessions /\ ses' = r.ses
  BY <1>1 DEF Base, Store, Types
<1>3. /\ r.ses.body = (IF AppendArrived(ses, m, live) THEN "Queued"
                       ELSE IF BodyTransition(ses, m) = "none" THEN ses.body
                       ELSE BodyTransition(ses, m))
      /\ BodyTransition(ses, m) \in {"none", "SourceReplaced", "BlockedScopeUnresolved"}
  BY <1>1, <1>2, EventsGive
<1> QED BY <1>2, <1>3

\* The handoff alone makes a session an imported one.
LEMMA WholeMoves ==
  ASSUME Base, Serves, WholeArchive, [ImportNext]_importVars, ses'.body = "Imported"
  PROVE  \/ SessionKept /\ ses.body = "Imported"
         \/ /\ WorkerHandsOff /\ HandoffReady /\ w.run.target = "Imported"
            /\ ses' = Advanced(ses, "Imported") /\ UNCHANGED <<marks, env>>
<1>0. ses \in Sessions
  BY DEF Base, Store, Types
<1>1. CASE ses' = ses
  BY <1>1 DEF SessionKept
<1>2. CASE \/ FileGrows \/ FileReplaced \/ HostChanges \/ RepositoryPurged \/ LeaseExpires \/ Crash
           \/ RecoverLease \/ IngestDrains \/ WorkerSelects \/ WorkerClaims \/ WorkerCaptures
           \/ WorkerStopsReading \/ WorkerDrains \/ UNCHANGED importVars
  <2>1. ses' = ses
    BY <1>2 DEF FileGrows, FileReplaced, HostChanges, RepositoryPurged, LeaseExpires, Crash,
       RecoverLease, IngestDrains, WorkerSelects, WorkerClaims, WorkerCaptures,
       WorkerStopsReading, WorkerDrains, importVars
  <2> QED BY <1>1, <2>1
<1>3. CASE \E active \in BOOLEAN : Refresh(active)
  BY <1>3, RefreshWhole
<1>4. CASE ObserveSource
  <2>1. PICK m : m = [rev |-> reconcile_source_revision(ses, file), fp |-> file,
                      kind |-> host.kind, origin |-> [fence |-> Size(file), closed |-> FALSE]]
    OBVIOUS
  <2>2. m \in Metas
    BY <2>1, Reconciled, FileSize DEF Metas, Base, Store, Types, Outer, Hosts, Kinds, Origins
  <2>3. ses' = metadata_events(ses, m, FALSE).ses /\ ses.body \in {"NotImported", "SourceReplaced"}
    BY <1>4, <2>1 DEF ObserveSource
  <2> QED BY <2>2, <2>3, EventsWhole
<1>5. CASE QueueImport
  <2>1. /\ Approved(ses) \in Sessions /\ "Queued" \in Bodies
        /\ ses' = Advanced(Approved(ses), "Queued")
    BY <1>0, <1>5 DEF QueueImport, Approved, Sessions, Bodies
  <2> QED BY <2>1, AdvancedType
<1>6. CASE RevokeAccess
  BY <1>6, RevokedGives
<1>7. CASE WorkerPreflights
  <2>1. ses.body # "Imported"
    BY <1>7 DEF WorkerPreflights, QuantumGiven, Active
  <2>2. PICK m : m = [Metadata(ses) EXCEPT !.origin.closed = TRUE]
    OBVIOUS
  <2>3. ses' = ses \/ ses' = metadata_events(ses, m, FALSE).ses
    BY <1>7, <2>2 DEF WorkerPreflights
  <2>4. m \in Metas
    <3>1. PICK o : o = [ses.origin EXCEPT !.closed = TRUE]
      OBVIOUS
    <3>2. o \in Origins
      BY <1>0, <3>1 DEF Sessions, Origins
    <3>3. m = [Metadata(ses) EXCEPT !.origin = o]
      BY <1>0, <2>2, <3>1, MetadataType DEF Metas
    <3> QED BY <1>0, <3>2, <3>3, MetadataType DEF Metas
  <2> QED BY <1>1, <2>1, <2>3, <2>4, EventsWhole
<1>8. ASSUME NEW body \in Bodies, body # "Imported", ses' = Advanced(ses, body)
      PROVE  FALSE
  BY <1>0, <1>8, AdvancedType
<1>9. CASE WorkerAuthorizes
  <2>1. ses' = ses \/ ses' = Advanced(ses, "SourceReplaced")
    BY <1>9, AuthorizesGives
  <2> QED BY <1>1, <1>8, <2>1 DEF Bodies
<1>10. CASE WorkerVerifies
  <2>1. ses' = ses \/ ses'.body = "SourceReplaced"
    BY <1>10, VerifiesGives DEF ReplacedGives
  <2> QED BY <1>1, <2>1
<1>11. CASE WorkerBegins
  <2>1. ses' = ses \/ ses' = Advanced(ses, "Importing")
    BY <1>11, BeginsGives
  <2> QED BY <1>1, <1>8, <2>1 DEF Bodies
<1>12. CASE WorkerRefusesRecord
  <2>1. ses' = ses \/ ses' = Advanced(ses, "Failed")
    BY <1>12, RefusesGives
  <2> QED BY <1>1, <1>8, <2>1 DEF Bodies
<1>13. CASE WorkerConfirms
  <2>1. ses' = ses \/ ses' = Advanced(ses, "Partial")
    BY <1>13, ConfirmsGives
  <2> QED BY <1>1, <1>8, <2>1 DEF Bodies
<1>14. CASE WorkerHandsOff
  <2>1. /\ w.run.target \in {"Imported", "Partial"} /\ UNCHANGED <<marks, env>>
        /\ ses' = ses \/ (HandoffReady /\ ses' = Advanced(ses, w.run.target))
    BY <1>14, HandsOffGives
  <2>2. CASE w.run.target = "Imported"
    BY <1>1, <1>14, <2>1, <2>2
  <2>3. CASE w.run.target = "Partial"
    BY <1>1, <1>8, <2>1, <2>3 DEF Bodies
  <2> QED BY <2>1, <2>2, <2>3
<1> QED BY <1>2, <1>3, <1>4, <1>5, <1>6, <1>7, <1>9, <1>10, <1>11, <1>12, <1>13, <1>14
        DEF ImportNext, WorkerNext

LEMMA HandoffWhole ==
  ASSUME Base, Proved, WorkerHandsOff, HandoffReady, w.run.target = "Imported",
         ses' = Advanced(ses, "Imported"), UNCHANGED <<marks, env>>
  PROVE  WholeArchive'
<1>1. PICK m : m = MarkOf(ses.rev)
  OBVIOUS
<1>2. /\ ses \in Sessions /\ FileOK(ses.fp) /\ m \in Marks /\ GoodMark(m)
      /\ (m # NoMark => m.fence = ses.origin.fence)
  BY <1>1, MarkOfGood DEF Base, Outer, Store, Types, Marked
<1>3. w.run.pc = "handoff" /\ m = w.run.mark
  BY <1>1 DEF WorkerHandsOff, HandoffReady
<1>4. Complete(ses, m)
  BY <1>3 DEF Proved, Ending
<1>5. ~env.mixed => Range(m.early) \subseteq Range(ses.fp.recs)
                    /\ Range(m.main) \subseteq Range(ses.fp.recs)
  BY <1>1, <1>3, <1>4 DEF Proved, ProvedMarks, Claimed, Complete
<1>6. env.mixed \/ Range(m.early \o m.main) = Range(ses.fp.recs)
  BY <1>2, <1>4, <1>5, LegsFill DEF Complete
<1>7. /\ ses'.rev = ses.rev /\ ses'.fp = ses.fp /\ ses'.origin = ses.origin
  BY <1>2, AdvancedType DEF Bodies
<1>8. MarkOf(ses.rev)' = m
  BY <1>1, <1>7 DEF MarkOf
<1>9. Complete(ses, m)'
  BY <1>4, <1>7, CompleteKept DEF SessionKept
<1>10. Complete(ses, MarkOf(ses.rev))'
  BY <1>8, <1>9 DEF Complete
<1> QED BY <1>6, <1>7, <1>8, <1>10 DEF WholeArchive, ImportedMatchesFile

\* Nothing is left to confirm of an imported session.
LEMMA WholeTakes ==
  ASSUME Base, Base', WholeArchive, SessionKept, ses.body = "Imported", NEW k \in 1..Len(spool), Takes(k),
         NEW m, m = MarkOf(ses.rev)
  PROVE  MarkOf(ses.rev)' = m
<1>r. PICK r : r = spool[k]
  OBVIOUS
<1>1. PICK rev : rev = ses.rev
  OBVIOUS
<1>2. MarkOf(ses.rev)' = MarkOf(rev)'
  BY <1>1 DEF SessionKept
<1>3. /\ r \in CaptureRecords /\ r.end = r.start + Width[r.val] /\ m \in Marks /\ GoodMark(m)
      /\ \/ MarkOf(rev)' = m
         \/ rev = r.rev /\ \E n \in Marks : MarkOf(rev)' = n /\ Grown(m, r, n)
  BY <1>r, <1>1, MarkTaken
<1>4. Complete(ses, m)
  BY DEF WholeArchive
<1>5. ASSUME NEW n \in Marks, rev = r.rev, MarkOf(rev)' = n, Grown(m, r, n)
      PROVE  FALSE
  <2>1. r.end <= Size(ses.fp)
    BY <1>r, <1>1, <1>5 DEF Base, Store, Captured
  <2>2. n.fence = ses.origin.fence
    <3>1. MarkOf(ses.rev)' = n /\ n # NoMark
      BY <1>2, <1>5 DEF Grown
    <3>2. MarkOf(ses.rev)' # NoMark => MarkOf(ses.rev)'.fence = ses'.origin.fence
      BY DEF Base, Store, Marked, NoMark
    <3> QED BY <3>1, <3>2 DEF SessionKept
  <2>3. r.start \in Nat /\ r.end \in Nat /\ r.start < r.end
    BY <1>3, EntryType
  <2>4. r.start = (IF r.end <= n.fence THEN EarlyEnd(m) ELSE MainEnd(m))
    BY <1>4, <1>5 DEF Grown, Complete
  <2>5. MainEnd(m) = Size(ses.fp) /\ (HasOrigin(ses) => EarlyEnd(m) = ses.origin.fence)
        /\ MainEnd(m) \in Nat
    BY <1>3, <1>4, EndTypes DEF Complete
  <2>6. ses.origin.fence \in Nat \union {-1}
    BY DEF Base, Store, Types, Sessions, Origins
  <2>7. CASE r.end <= n.fence
    BY <2>2, <2>3, <2>4, <2>5, <2>6, <2>7 DEF HasOrigin
  <2>8. CASE ~(r.end <= n.fence)
    BY <2>1, <2>3, <2>4, <2>5, <2>8
  <2> QED BY <2>7, <2>8
<1> QED BY <1>2, <1>3, <1>5

LEMMA WholeKept ==
  ASSUME Base, Serves, Proved, WholeArchive, [ImportNext]_importVars
  PROVE  WholeArchive'
<1> SUFFICES ASSUME ses'.body = "Imported"
             PROVE  WholeArchive'
  BY DEF WholeArchive
<1>1. StoreStep /\ Fixed /\ Base'
  BY BaseKept
<1>2. CASE /\ WorkerHandsOff /\ HandoffReady /\ w.run.target = "Imported"
           /\ ses' = Advanced(ses, "Imported") /\ UNCHANGED <<marks, env>>
  BY <1>2, HandoffWhole
<1>3. CASE SessionKept /\ ses.body = "Imported"
  <2>1. PICK m : m = MarkOf(ses.rev)
    OBVIOUS
  <2>2. MarkOf(ses.rev)' = m
    <3>1. CASE \E k \in 1..Len(spool) : Takes(k)
      BY <1>1, <1>3, <2>1, <3>1, WholeTakes
    <3>2. CASE marks' = marks
      BY <1>3, <2>1, <3>2 DEF MarkOf, SessionKept
    <3> QED BY <1>1, <3>1, <3>2 DEF StoreStep, Quiet, Told, Looked, CapturesOne
  <2>3. Complete(ses, m) /\ (env.mixed \/ Range(m.early \o m.main) = Range(ses.fp.recs))
    BY <1>3, <2>1 DEF WholeArchive, ImportedMatchesFile
  <2>4. Complete(ses, m)'
    BY <1>3, <2>3, CompleteKept
  <2>5. Complete(ses, MarkOf(ses.rev))'
    BY <2>2, <2>4 DEF Complete
  <2>6. env.mixed => env'.mixed
    BY <1>1 DEF Fixed, EnvKept
  <2> QED BY <1>3, <2>2, <2>3, <2>5, <2>6 DEF WholeArchive, ImportedMatchesFile, SessionKept
<1> QED BY <1>2, <1>3, WholeMoves
-----------------------------------------------------------------------------
(* The invariant.                                                            *)

LEMMA InitProved == ASSUME ImportInit PROVE ReadMark /\ CacheSound /\ Proved /\ WholeArchive
<1>1. w.run.pc = "idle" /\ w.cache.key = <<>> /\ ses.body = "NotImported"
  BY DEF ImportInit, Rest, NothingProved
<1> QED BY <1>1 DEF ReadMark, Running, CacheSound, Proved, ProvedMarks, Claimed, Ranged, Ending,
          WholeArchive

LEMMA InvInductive == ImportSpec => []ImportInv
<1>1. ImportInit => ImportInv
  BY InitBase, InitServes, InitProved DEF Base, ImportInv
<1>2. ImportInv /\ [ImportNext]_importVars => ImportInv'
  BY BaseKept, ServesKept, LineUpKept, ReadMarkKept, CacheKept, ProvedKept, WholeKept
     DEF ImportInv, Base
<1> QED BY <1>1, <1>2, PTL DEF ImportSpec

LEMMA InvTyped == ASSUME Base PROVE ImportTyped
<1>1. /\ file \in AnyFile /\ ses.fp \in AnyFile /\ file.id <= env.versions
      /\ Later(ses.fp, file) /\ Size(file) <= env.bytes
  BY DEF Base, Store, Types, FileOK, Bounded
<1>2. file \in Files /\ ses.fp \in Files
  BY <1>1, EnvNumbers DEF AnyFile, Files, Later, Base, Outer
<1>3. host \in [trust : BOOLEAN, conflict : BOOLEAN, instance : BOOLEAN, kind : env.kinds]
  BY DEF Base, Outer, Hosts
<1>4. /\ ses.body \in Bodies /\ ses.access \in {"none", "Approved", "Revoked"}
      /\ ses.kind \in env.kinds \union {"Unavailable"}
  BY DEF Base, Store, Types, Sessions, Outer
<1>5. ses.origin.fence \in -1..env.bytes
  BY EnvNumbers DEF Base, Store, Types, Sessions, Origins, Bounded, Outer
<1>6. \A rev \in DOMAIN marks : /\ marks[rev].fence \in -1..env.bytes
                                /\ marks[rev].early \in Seq(Records)
                                /\ marks[rev].main \in Seq(Records)
  BY EnvNumbers DEF Base, Store, Types, MarksOK, Marked, GoodMark, Marks, Outer
<1>7. \A i \in DOMAIN spool : spool[i].end <= env.bytes /\ Readable(spool[i].val)
  BY DEF Base, Store, Types, Captured
<1>8. \E e \in Scenarios : /\ env.left \in 0..e.left /\ env.mixed \in BOOLEAN
                           /\ env = [e EXCEPT !.left = env.left, !.mixed = env.mixed]
  BY EnvNumbers DEF Base, Outer, EnvOK
<1>9. /\ jobs \in Seq({Queued, Leased, [Leased EXCEPT !.lease = "expired"]})
      /\ gate \in [revoked : BOOLEAN, purged : BOOLEAN]
      /\ w.run.pc \in {"idle", "authorize", "verify", "claim", "begin", "read", "drain",
                       "confirm", "handoff"}
  BY DEF Base, Outer, Jobs, Gates, WorkerOK, Runs, Steps
<1> QED BY <1>1, <1>2, <1>3, <1>4, <1>5, <1>6, <1>7, <1>8, <1>9 DEF ImportTyped

LEMMA InvContiguous == ASSUME Base PROVE MarksContiguous
<1> SUFFICES ASSUME NEW rev \in DOMAIN marks
             PROVE  /\ ContiguousLeg(marks[rev].main, Start(marks[rev]))
                    /\ ContiguousLeg(marks[rev].early, 0)
                    /\ marks[rev].fence >= 0 => EarlyEnd(marks[rev]) <= marks[rev].fence
  BY DEF MarksContiguous
<1>1. GoodMark(marks[rev])
  BY DEF Base, Store, Marked
<1> QED BY <1>1 DEF GoodMark, Leg

\* What is archived is the file: the confirmed legs of every revision are gapless runs of
\* records within their bounds, and a session is Imported only when the records confirmed for
\* its revision are exactly the file its fingerprint names, unless a capture of former bytes
\* was left behind under a kept revision (jobs/import.rs, session_import.rs, projections.rs).
THEOREM ArchiveFaithfulHolds == ImportSpec => []ArchiveFaithful
<1>1. ImportInv => ArchiveFaithful
  <2> SUFFICES ASSUME ImportInv
               PROVE  ArchiveFaithful
    OBVIOUS
  <2>1. Base /\ WholeArchive
    BY DEF ImportInv, Base
  <2>2. env.mixed \/ ImportedMatchesFile
    BY <2>1 DEF WholeArchive, ImportedMatchesFile
  <2> QED BY <2>1, <2>2, InvTyped, InvContiguous DEF ArchiveFaithful
<1> QED BY <1>1, InvInductive, PTL

\* A job there exactly for a body that needs it, history archived only with approval, and no
\* captured record of a file that only grows refused (session_import.rs, jobs/import.rs).
THEOREM ImportAdmissibleHolds == ImportSpec => []ImportAdmissible
<1>1. ImportInv => ImportAdmissible
  BY NothingRefused DEF ImportInv, Base, Store, Serves, ImportAdmissible
<1> QED BY <1>1, InvInductive, PTL

\* After a revocation no step of the worker, the catalog or the ingest brings the body forward.
THEOREM RevokedStaysOutHolds == ImportSpec => RevokedStaysOut
<1>1. ImportInv /\ [ImportNext]_importVars =>
        [ses.access = "Revoked" /\ ses'.body # ses.body
           => ses'.body \notin {"Importing", "Partial", "Imported"}]_importVars
  BY NotForward DEF ImportInv, Base
<1> QED BY <1>1, InvInductive, PTL DEF ImportSpec, RevokedStaysOut
=============================================================================

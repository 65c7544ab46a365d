----------------------- MODULE CapturePipelineProofs -----------------------
(* Machine-checked proofs about CapturePipeline, for every set of records,    *)
(* blobs and repositories, every page and batch size and every scenario.      *)
EXTENDS CapturePipeline, SequenceTheorems, TLAPS

-----------------------------------------------------------------------------
(* The inductive invariant.                                                   *)

\* The files of the spool: identities and names tell them apart, a frame is in
\* one file of the main directory only.
Shape ==
  /\ SpoolTypeOK /\ setup \in Scenarios
  /\ active.id < nextId /\ (active.id = 0 => active = NoActive)
  /\ \A c \in sealed : /\ 0 < c.id /\ c.id < nextId /\ c.id # active.id
                       /\ RecordsOf(c.frames) \cap RecordsOf(active.frames) = {}
  /\ \A c, d \in sealed : c.id = d.id \/ c.name = d.name => c = d
  /\ \A c, d \in sealed : c # d => RecordsOf(c.frames) \cap RecordsOf(d.frames) = {}

\* A frame in the spool was appended by a hook that is past its append; a hook
\* that may put or append holds the fence.
Unwritten == {"idle", "fenced", "published"}
Publishing == {"fenced", "published"}
Hooked ==
  /\ HookTypeOK
  /\ \A r \in MainRecords : hookPc[r] \notin Unwritten
  /\ \A r \in Records : hookPc[r] \in Publishing => r \in hookFence
  /\ exclusive # "none" => hookFence = {}

\* Nothing is lost when the frame of r leaves the spool.
Accounted(r) == r \in Committed \/ RepoOf[r] \in Purged

\* Everything before the cursor x is accounted for, in the file it was made from.
CursorGood(x) ==
  x # NoCursor =>
    /\ 0 < x.id /\ x.id < nextId /\ x.id # active.id
    /\ \A f \in sealed : f.id = x.id =>
         x.offset <= Len(f.frames) /\ \A i \in 1 .. x.offset : Accounted(f.frames[i])

\* A claim of worker w and the file it was made from.
Off(w) == IF w = "page" /\ cursor # NoCursor THEN cursor.offset ELSE 0
Linked(w, c) ==
  /\ 0 < c.id /\ c.id < nextId /\ c.id # active.id
  /\ w = "page" /\ cursor # NoCursor => c.id = cursor.id
  /\ \A f \in sealed : f.id = c.id =>
       /\ Off(w) + Len(c.frames) <= Len(f.frames)
       /\ \A i \in 1 .. Len(c.frames) : c.frames[i] = f.frames[Off(w) + i]
       /\ c.complete => Off(w) + Len(c.frames) = Len(f.frames)

\* Where the next page starts once claim c is done.
Before(x, c) == x.next = NoCursor \/ (x.next.id = c.id /\ x.next.offset = Off("page") + Len(c.frames))

\* The segment a worker drains: what it consumed is accounted for.
InSegment == {"frame", "verified"}
Fresh == {"idle", "opened", "sealed"}
Excluding == {"excluding", "discarding", "acking"}
Draining(w, x) ==
  /\ Linked(w, x.cur)
  /\ x.k \in 1 .. Len(x.cur.frames) + 1 /\ x.consumed <= x.k - 1
  /\ x.consumed = x.k - 1 => \A i \in 1 .. x.k - 1 : Accounted(x.cur.frames[i])

Discarded(w, d) ==
  /\ Linked(w, d.claim) /\ d.claim.complete
  /\ \A i \in 1 .. Len(d.claim.frames) : Accounted(d.claim.frames[i])
  /\ \A r \in d.terminal : RepoOf[r] \in Purged

\* The ingest loop takes one claim, selects every record and leaves its cursor
\* behind what it has consumed.
Paging(x) ==
  /\ x.pc # "idle" => x.selected = Records
  /\ x.pc \in InSegment =>
       x.todo = {} /\ x.discard = {} /\ x.consumed = x.k - 1 /\ Before(x, x.cur)
  /\ x.todo # {} => x.pc = "segment" /\ x.discard = {} /\ \E c \in x.todo : x.todo = {c} /\ Before(x, c)
  /\ x.pc \in {"segment"} \cup Excluding /\ x.todo = {} => CursorGood(x.next)

Good(w, x) ==
  /\ x \in WorkerType
  /\ x.pc \in Fresh => x.todo = {} /\ x.discard = {}
  /\ x.fence => x.pc \in InSegment /\ exclusive = "none"
  /\ x.pc = "verified" => /\ x.fence /\ x.k <= Len(x.cur.frames)
                          /\ Digest[x.cur.frames[x.k]] \in cas
  /\ (exclusive = w) = (x.pc \in Excluding)
  /\ x.pc = "discarding" => LiveRefs \subseteq x.live
  /\ x.view \subseteq Purged /\ \A r \in x.terminal : RepoOf[r] \in Purged
  /\ \A c \in x.todo : Linked(w, c)
  /\ \A d \in x.discard : Discarded(w, d)
  /\ x.pc \in InSegment => Draining(w, x)
  /\ w = "page" => Paging(x)

Served ==
  /\ worker \in [Workers -> WorkerType] /\ cursor \in Cursor
  /\ \A x \in {cursor} : CursorGood(x)
  /\ \A w \in Workers : \A x \in {worker[w]} : Good(w, x)

\* The journal.
Recorded == journal \in Seq(Records) /\ gaps \subseteq Records /\ CommittedOnce

\* The deleters: what they are about to delete nothing refers to.
Purging ==
  /\ MaintenanceTypeOK
  /\ (exclusive = "purge") = (purgeJob.pc # "idle")
  /\ purgeJob.pc # "idle" => purgeJob.repo \in Purged
  /\ purgeJob.pc = "deleting" => LiveRefs \subseteq purgeJob.live

Collecting ==
  /\ exclusive \in {"none", "gc", "purge"} \cup Workers
  /\ (exclusive = "gc") = (gc.pc \in {"listing", "deleting"})
  /\ gc.pc \in {"sweeping", "deleting"} => Refs(Committed) \subseteq gc.refs
  /\ gc.pc = "deleting" =>
       gc.candidates \cap Refs(MainRecords \cup Committed \cup QuarantinedRecords) = {}

Inner == Shape /\ Hooked /\ Served /\ Recorded /\ Purging /\ Collecting

\* What is referred to exists.
Backed ==
  /\ BlobBacked /\ QuarantineBacked
  /\ \A r \in Records : hookPc[r] = "published" => Digest[r] \in cas

IInv == Inner /\ Backed /\ DurableNotLost /\ GapAccounted
-----------------------------------------------------------------------------
(* What each operation on the spool does.                                     *)

\* Carriers keep their identity and frames; a file that is not sealed yet gets an
\* identity no claim or cursor has.
Follows ==
  /\ nextId <= nextId' /\ nextId' \in Nat
  /\ active'.id \in {0, active.id} \/ nextId <= active'.id
  /\ \A f \in sealed' : f.id = active.id \/ \E g \in sealed : g.id = f.id /\ g.frames = f.frames

\* Files stay, or leave with their frames for the quarantine.
Kept == MainRecords' = MainRecords /\ QuarantinedRecords' = QuarantinedRecords
MovedAside ==
  \E S \in SUBSET MainRecords : /\ MainRecords' = MainRecords \ S
                                /\ QuarantinedRecords' = QuarantinedRecords \cup S

LEMMA RecordsOfAppend ==
  ASSUME NEW s \in Seq(Records), NEW r \in Records
  PROVE  RecordsOf(Append(s, r)) = RecordsOf(s) \cup {r} /\ Append(s, r) \in Seq(Records)
<1>1. /\ Append(s, r) \in Seq(Records) /\ Len(Append(s, r)) = Len(s) + 1 /\ Len(s) \in Nat
      /\ \A i \in 1 .. Len(s) : Append(s, r)[i] = s[i]
      /\ Append(s, r)[Len(s) + 1] = r
  BY AppendProperties, LenProperties
<1>2. RecordsOf(Append(s, r)) \subseteq RecordsOf(s) \cup {r}
  BY <1>1 DEF RecordsOf
<1>3. RecordsOf(s) \subseteq RecordsOf(Append(s, r)) /\ r \in RecordsOf(Append(s, r))
  BY <1>1 DEF RecordsOf
<1> QED BY <1>1, <1>2, <1>3

LEMMA RecordsOfType == ASSUME NEW s \in Seq(Records) PROVE RecordsOf(s) \subseteq Records
  BY ElementOfSeq DEF RecordsOf

LEMMA RecordsOfEmpty == RecordsOf(<<>>) = {}
  BY DEF RecordsOf

LEMMA AppendEffect ==
  ASSUME Shape, setup' = setup, NEW r \in Records, r \notin MainRecords,
         NEW e \in AppendEffects, AppendWrites(r, e)
  PROVE  /\ Shape' /\ Follows /\ QuarantinedRecords' = QuarantinedRecords /\ markers' = markers
         /\ MainRecords' = IF e = "whole" THEN MainRecords \cup {r} ELSE MainRecords
<1>1. active \in Carrier /\ nextId \in Nat /\ 0 < nextId
  BY DEF Shape, SpoolTypeOK, Carrier
<1>2. PICK fs : fs = IF e = "whole" THEN Append(active.frames, r) ELSE active.frames
  OBVIOUS
<1>3. PICK h \in Health : h = IF e = "torn" THEN "torn" ELSE "ok"
  BY DEF Health
<1>4. PICK id \in Nat : id = IF active.id # 0 THEN active.id ELSE nextId
  BY <1>1 DEF Carrier
<1>5. PICK n \in Nat : n = IF active.id # 0 THEN nextId ELSE nextId + 1
  BY <1>1
<1>6. active' = [id |-> id, frames |-> fs, health |-> h] /\ nextId' = n
      /\ UNCHANGED <<sealed, quarantine, markers>>
  BY <1>2, <1>3, <1>4, <1>5 DEF AppendWrites, ActiveExists
<1>7. /\ fs \in Seq(Records)
      /\ RecordsOf(fs) = IF e = "whole" THEN RecordsOf(active.frames) \cup {r} ELSE RecordsOf(active.frames)
  BY <1>1, <1>2, RecordsOfAppend DEF Carrier
<1>8. 0 < id /\ id < n /\ nextId <= n /\ (id = active.id \/ id = nextId)
  BY <1>1, <1>4, <1>5 DEF Shape
<1>9. SpoolTypeOK'
  <2>1. active' \in Carrier
    BY <1>6, <1>7 DEF Carrier
  <2>2. Segment' = Segment /\ Marker' = Marker /\ Carrier' = Carrier
    BY DEF Segment, Marker, Carrier, SegNames, NameLimit, Slots
  <2> QED BY <1>6, <2>1, <2>2 DEF Shape, SpoolTypeOK
<1>10. \A c \in sealed : r \notin RecordsOf(c.frames)
  BY DEF MainRecords
<1>11. \A c \in sealed : 0 < c.id /\ c.id < n /\ c.id # id
  <2> TAKE c \in sealed
  <2>1. 0 < c.id /\ c.id < nextId /\ c.id # active.id /\ c.id \in Nat
    BY DEF Shape, SpoolTypeOK, Segment
  <2> QED BY <1>1, <1>8, <2>1
<1>12. \A c \in sealed : RecordsOf(c.frames) \cap RecordsOf(fs) = {}
  BY <1>7, <1>10 DEF Shape
<1>13. active'.id = id /\ active'.frames = fs
  BY <1>6
<1>14. Shape'
  BY <1>6, <1>8, <1>9, <1>11, <1>12, <1>13 DEF Shape
<1>15. Follows
  <2>1. active'.id \in {0, active.id} \/ nextId <= active'.id
    BY <1>1, <1>8, <1>13
  <2>2. nextId <= nextId' /\ nextId' \in Nat
    BY <1>6, <1>8
  <2> QED BY <1>6, <2>1, <2>2 DEF Follows
<1>16. /\ QuarantinedRecords' = QuarantinedRecords
       /\ MainRecords' = RecordsOf(fs) \cup UNION {RecordsOf(c.frames) : c \in sealed}
  BY <1>6, <1>13 DEF QuarantinedRecords, MainRecords
<1> QED BY <1>6, <1>7, <1>14, <1>15, <1>16 DEF MainRecords

LEMMA SameTypes ==
  ASSUME setup' = setup
  PROVE  Segment' = Segment /\ Marker' = Marker /\ Carrier' = Carrier
  BY DEF Segment, Marker, Carrier, SegNames, NameLimit, Slots

LEMMA ShapeFacts ==
  ASSUME Shape
  PROVE  /\ active \in Carrier /\ active.id \in Nat /\ active.frames \in Seq(Records)
         /\ nextId \in Nat /\ 0 < nextId /\ active.id < nextId
         /\ \A c \in sealed : /\ c \in Segment /\ c.id \in Nat /\ c.frames \in Seq(Records)
                              /\ 0 < c.id /\ c.id < nextId /\ c.id # active.id
                              /\ RecordsOf(c.frames) \subseteq MainRecords
         /\ RecordsOf(active.frames) \subseteq MainRecords /\ MainRecords \subseteq Records
<1>1. active \in Carrier /\ active.id \in Nat /\ active.frames \in Seq(Records)
      /\ nextId \in Nat /\ active.id < nextId
  BY DEF Shape, SpoolTypeOK, Carrier
<1>2. \A c \in sealed : c \in Segment /\ c.id \in Nat /\ c.frames \in Seq(Records)
  BY DEF Shape, SpoolTypeOK, Segment
<1>3. \A c \in sealed : RecordsOf(c.frames) \subseteq MainRecords
  BY DEF MainRecords
<1>4. MainRecords \subseteq Records
  BY <1>1, <1>2, RecordsOfType DEF MainRecords
<1> QED BY <1>1, <1>2, <1>3, <1>4 DEF Shape, MainRecords

\* Files that go leave the others as they were.
LEMMA RemovalShape ==
  ASSUME Shape, setup' = setup, UNCHANGED <<active, markers, nextId>>, sealed' \subseteq sealed,
         quarantine' \subseteq Carrier
  PROVE  Shape' /\ Follows
<1>1. SpoolTypeOK'
  BY SameTypes DEF Shape, SpoolTypeOK
<1>2. Shape'
  BY <1>1 DEF Shape
<1>3. \A f \in sealed' : \E g \in sealed : g.id = f.id /\ g.frames = f.frames
  OBVIOUS
<1> QED BY <1>2, <1>3, ShapeFacts DEF Follows

\* The frames of a set of sealed carriers that leaves.
LEMMA RemovalRecords ==
  ASSUME Shape, UNCHANGED active, NEW D, D \subseteq sealed, sealed' = sealed \ D
  PROVE  /\ MainRecords' = MainRecords \ UNION {RecordsOf(c.frames) : c \in D}
         /\ UNION {RecordsOf(c.frames) : c \in D} \subseteq MainRecords
<1>1. \A c \in D, d \in sealed \ D : RecordsOf(c.frames) \cap RecordsOf(d.frames) = {}
  BY DEF Shape
<1>2. \A c \in D : RecordsOf(c.frames) \cap RecordsOf(active.frames) = {}
  BY DEF Shape
<1> QED BY <1>1, <1>2 DEF MainRecords

LEMMA CarriersOf ==
  ASSUME Shape, NEW c \in sealed
  PROVE  AsCarrier(c) \in Carrier /\ AsCarrier(c).frames = c.frames
<1>1. c \in Segment
  BY DEF Shape, SpoolTypeOK
<1> QED BY <1>1 DEF Segment, Carrier, AsCarrier

LEMMA QuarantineEffect ==
  ASSUME Shape, setup' = setup, NEW c, QuarantineSegment(c)
  PROVE  Shape' /\ Follows /\ MovedAside /\ markers' = markers
<1>1. c \in sealed /\ sealed' = sealed \ {c} /\ quarantine' = quarantine \cup {AsCarrier(c)}
      /\ UNCHANGED <<active, markers, nextId>>
  BY DEF QuarantineSegment
<1>2. Shape' /\ Follows
  BY <1>1, CarriersOf, RemovalShape DEF Shape, SpoolTypeOK
<1>3. /\ MainRecords' = MainRecords \ RecordsOf(c.frames)
      /\ RecordsOf(c.frames) \subseteq MainRecords
  <2>1. PICK D : D = {c}
    OBVIOUS
  <2>2. UNION {RecordsOf(d.frames) : d \in D} = RecordsOf(c.frames)
    BY <2>1
  <2> QED BY <1>1, <2>1, <2>2, RemovalRecords
<1>4. QuarantinedRecords' = QuarantinedRecords \cup RecordsOf(c.frames)
  BY <1>1, CarriersOf DEF QuarantinedRecords
<1> QED BY <1>1, <1>2, <1>3, <1>4 DEF MovedAside

\* Only frames of the file that was claimed leave with it.
Unlinked(id) ==
  \E S \in SUBSET MainRecords :
    /\ MainRecords' = MainRecords \ S
    /\ \A r \in S : \E f \in sealed : f.id = id /\ r \in RecordsOf(f.frames)

LEMMA AcknowledgeEffect ==
  ASSUME Shape, setup' = setup, NEW c, AcknowledgeSegment(c)
  PROVE  /\ Shape' /\ Follows /\ markers' = markers
         /\ QuarantinedRecords' = QuarantinedRecords /\ Unlinked(c.id)
<1> DEFINE D == {d \in sealed : SameFile(c, d)}
<1>1. sealed' = sealed \ D /\ UNCHANGED <<active, quarantine, markers, nextId>>
  BY DEF AcknowledgeSegment
<1>2. Shape' /\ Follows
  BY <1>1, RemovalShape DEF Shape, SpoolTypeOK
<1>3. PICK S : S = UNION {RecordsOf(d.frames) : d \in D}
  OBVIOUS
<1>4. MainRecords' = MainRecords \ S /\ S \subseteq MainRecords
  BY <1>1, <1>3, RemovalRecords
<1>5. \A r \in S : \E f \in sealed : f.id = c.id /\ r \in RecordsOf(f.frames)
  BY <1>3 DEF SameFile
<1>6. QuarantinedRecords' = QuarantinedRecords
  BY <1>1 DEF QuarantinedRecords
<1> QED BY <1>1, <1>2, <1>4, <1>5, <1>6 DEF Unlinked

LEMMA SealEffect ==
  ASSUME Shape, setup' = setup, SealActive
  PROVE  Shape' /\ Follows /\ Kept /\ markers' = markers
<1>1. CASE UNCHANGED <<active, sealed>>
  <2>1. UNCHANGED <<active, sealed, quarantine, markers, nextId>>
    BY <1>1 DEF SealActive
  <2>2. Shape' /\ Follows
    BY <2>1, RemovalShape DEF Shape, SpoolTypeOK
  <2> QED BY <2>1, <2>2 DEF Kept, MainRecords, QuarantinedRecords
<1>2. CASE ~UNCHANGED <<active, sealed>>
  <2>1. PICK n \in FreeNames : sealed' = sealed \cup {SealedAs(n)} /\ ActiveExists
                               /\ active' = NoActive /\ UNCHANGED <<quarantine, markers, nextId>>
    BY <1>2 DEF SealActive, Sealable
  <2>2. PICK s : s = SealedAs(n)
    OBVIOUS
  <2>3. s \in Segment /\ s.name = n /\ s.id = active.id /\ s.frames = active.frames
    BY <2>1, <2>2, ShapeFacts DEF SealedAs, Segment, FreeNames, Carrier
  <2>4. active' \in Carrier /\ active'.id = 0 /\ active'.frames = <<>>
    BY <2>1, EmptySeq DEF NoActive, Carrier, Health
  <2>5. SpoolTypeOK'
    BY <2>1, <2>2, <2>3, <2>4, SameTypes DEF Shape, SpoolTypeOK
  <2>6. \A c \in sealed : c.id # s.id /\ c.name # s.name
                          /\ RecordsOf(c.frames) \cap RecordsOf(s.frames) = {}
    BY <2>1, <2>3 DEF Shape, FreeNames
  <2>7. 0 < s.id /\ s.id < nextId
    BY <2>1, <2>3, ShapeFacts DEF ActiveExists
  <2>8. sealed' = sealed \cup {s} /\ nextId' = nextId
    BY <2>1, <2>2
  <2>9. Shape'
    <3>1. active'.id < nextId' /\ (active'.id = 0 => active' = NoActive)
      BY <2>1, <2>4, ShapeFacts
    <3>2. \A c \in sealed' : 0 < c.id /\ c.id < nextId' /\ c.id # active'.id
                             /\ RecordsOf(c.frames) \cap RecordsOf(active'.frames) = {}
      BY <2>4, <2>7, <2>8, ShapeFacts, RecordsOfEmpty
    <3>3. \A c, d \in sealed' : c.id = d.id \/ c.name = d.name => c = d
      BY <2>6, <2>8 DEF Shape
    <3>4. \A c, d \in sealed' : c # d => RecordsOf(c.frames) \cap RecordsOf(d.frames) = {}
      BY <2>6, <2>8 DEF Shape
    <3> QED BY <2>5, <3>1, <3>2, <3>3, <3>4 DEF Shape
  <2>10. Follows
    <3>1. \A f \in sealed' : f.id = active.id \/ \E g \in sealed : g.id = f.id /\ g.frames = f.frames
      BY <2>3, <2>8
    <3> QED BY <2>4, <2>8, <3>1, ShapeFacts DEF Follows
  <2>11. Kept
    BY <2>1, <2>3, <2>4, <2>8, RecordsOfEmpty DEF Kept, MainRecords, QuarantinedRecords
  <2> QED BY <2>1, <2>9, <2>10, <2>11
<1> QED BY <1>1, <1>2

LEMMA RecoverEffect ==
  ASSUME Shape, setup' = setup, Recover
  PROVE  Shape' /\ Follows /\ MovedAside /\ markers' = markers
<1>1. PICK D : D = {c \in sealed : Unreadable(c)}
  OBVIOUS
<1>2. PICK bad \in BOOLEAN : bad = (active.id # 0 /\ active.health = "bad")
  OBVIOUS
<1>3. PICK T : T = UNION {RecordsOf(c.frames) : c \in D}
  OBVIOUS
<1>4. /\ sealed' = sealed \ D /\ D \subseteq sealed
      /\ quarantine' = quarantine \cup {AsCarrier(c) : c \in D} \cup (IF bad THEN {active} ELSE {})
      /\ bad => active' = NoActive
      /\ ~bad => active' = active \/ active' = [active EXCEPT !.health = "ok"]
      /\ UNCHANGED <<markers, nextId>>
  BY <1>1, <1>2 DEF Recover, ActiveExists, TailRepaired
<1>5. /\ active' \in Carrier
      /\ IF bad THEN active'.id = 0 /\ active'.frames = <<>>
         ELSE active'.id = active.id /\ active'.frames = active.frames
      /\ active'.id = 0 => active' = NoActive
  <2>1. CASE bad
    <3>1. NoActive \in Carrier /\ NoActive.id = 0 /\ NoActive.frames = <<>>
      BY EmptySeq DEF NoActive, Carrier, Health
    <3> QED BY <1>4, <2>1, <3>1
  <2>2. CASE ~bad
    <3>1. PICK a : a = [active EXCEPT !.health = "ok"]
      OBVIOUS
    <3>2. a \in Carrier /\ a.id = active.id /\ a.frames = active.frames
      BY <3>1, ShapeFacts DEF Carrier, Health
    <3>3. active.id = 0 => a = active
      BY <3>1 DEF Shape, NoActive
    <3>4. active' = active \/ active' = a
      BY <1>4, <2>2, <3>1
    <3> QED BY <2>2, <3>2, <3>3, <3>4, ShapeFacts DEF Shape
  <2> QED BY <2>1, <2>2
<1>6. quarantine' \subseteq Carrier
  BY <1>4, CarriersOf DEF Shape, SpoolTypeOK
<1>7. QuarantinedRecords' = QuarantinedRecords \cup T \cup (IF bad THEN RecordsOf(active.frames) ELSE {})
  BY <1>3, <1>4, CarriersOf DEF QuarantinedRecords
<1>8. PICK U, V, A : /\ U = UNION {RecordsOf(c.frames) : c \in sealed}
                     /\ V = UNION {RecordsOf(c.frames) : c \in sealed \ D}
                     /\ A = RecordsOf(active.frames)
  OBVIOUS
<1>9. PICK S : S = T \cup (IF bad THEN A ELSE {})
  OBVIOUS
<1>10. MainRecords' = MainRecords \ S /\ S \subseteq MainRecords
  <2>1. \A c \in D, d \in sealed \ D : RecordsOf(c.frames) \cap RecordsOf(d.frames) = {}
    BY <1>4 DEF Shape
  <2>2. V = U \ T /\ T \subseteq U
    BY <1>3, <1>4, <1>8, <2>1
  <2>3. A \cap U = {}
    BY <1>8 DEF Shape
  <2>4. MainRecords' = RecordsOf(active'.frames) \cup V /\ MainRecords = A \cup U
    BY <1>4, <1>8 DEF MainRecords
  <2>5. RecordsOf(active'.frames) = IF bad THEN {} ELSE A
    BY <1>5, <1>8, RecordsOfEmpty
  <2> QED BY <1>9, <2>2, <2>3, <2>4, <2>5
<1>11. MovedAside
  BY <1>7, <1>8, <1>9, <1>10 DEF MovedAside
<1>12. Shape'
  <2>1. SpoolTypeOK'
    BY <1>4, <1>5, <1>6, SameTypes DEF Shape, SpoolTypeOK
  <2>2. active'.id < nextId'
    BY <1>4, <1>5, ShapeFacts
  <2>3. \A c \in sealed' : 0 < c.id /\ c.id < nextId' /\ c.id # active'.id
                           /\ RecordsOf(c.frames) \cap RecordsOf(active'.frames) = {}
    <3>1. CASE bad
      BY <1>4, <1>5, <3>1, ShapeFacts, RecordsOfEmpty
    <3>2. CASE ~bad
      BY <1>4, <1>5, <3>2 DEF Shape
    <3> QED BY <3>1, <3>2
  <2> QED BY <1>4, <1>5, <2>1, <2>2, <2>3 DEF Shape
<1>13. Follows
  <2>1. \A f \in sealed' : \E g \in sealed : g.id = f.id /\ g.frames = f.frames
    BY <1>4
  <2> QED BY <1>4, <1>5, <2>1, ShapeFacts DEF Follows
<1> QED BY <1>4, <1>11, <1>12, <1>13

\* A file of the main directory that is damaged keeps its frames.
LEMMA DamageEffect ==
  ASSUME Shape, setup' = setup, Damage
  PROVE  Shape' /\ Follows /\ Kept /\ markers' = markers
<1>1. UNCHANGED <<quarantine, markers, nextId>>
  BY DEF Damage
<1>2. CASE active' = [active EXCEPT !.health = "bad"] /\ Len(active.frames) > 0 /\ UNCHANGED sealed
  <2>1. /\ active' \in Carrier /\ active'.id = active.id /\ active'.frames = active.frames
    BY <1>2, ShapeFacts DEF Carrier, Health
  <2>2. active.id # 0
    BY <1>2, EmptySeq DEF Shape, NoActive
  <2>3. SpoolTypeOK'
    BY <1>1, <1>2, <2>1, SameTypes DEF Shape, SpoolTypeOK
  <2>4. Shape'
    BY <1>1, <1>2, <2>1, <2>2, <2>3 DEF Shape
  <2>5. Follows
    BY <1>1, <1>2, <2>1, ShapeFacts DEF Follows
  <2> QED BY <1>1, <1>2, <2>1, <2>4, <2>5 DEF Kept, MainRecords, QuarantinedRecords
<1>3. CASE (\E c \in sealed : sealed' = (sealed \ {c}) \cup {[c EXCEPT !.health = "bad"]})
           /\ UNCHANGED active
  <2>1. PICK c \in sealed : sealed' = (sealed \ {c}) \cup {[c EXCEPT !.health = "bad"]}
    BY <1>3
  <2>2. PICK b : b = [c EXCEPT !.health = "bad"]
    OBVIOUS
  <2>3. b \in Segment /\ b.name = c.name /\ b.id = c.id /\ b.frames = c.frames
    BY <2>2, ShapeFacts DEF Segment, Health
  <2>4. sealed' = (sealed \ {c}) \cup {b}
    BY <2>1, <2>2
  <2>5. SpoolTypeOK'
    BY <1>1, <1>3, <2>3, <2>4, SameTypes DEF Shape, SpoolTypeOK
  <2>6. \A d \in sealed' : d = b \/ d \in sealed \ {c}
    BY <2>4
  <2>7. Shape'
    <3>1. \A d \in sealed' : 0 < d.id /\ d.id < nextId' /\ d.id # active'.id
                             /\ RecordsOf(d.frames) \cap RecordsOf(active'.frames) = {}
      BY <1>1, <1>3, <2>3, <2>6 DEF Shape
    <3>2. \A d, e \in sealed' : d.id = e.id \/ d.name = e.name => d = e
      BY <2>3, <2>6 DEF Shape
    <3>3. \A d, e \in sealed' : d # e => RecordsOf(d.frames) \cap RecordsOf(e.frames) = {}
      BY <2>3, <2>6 DEF Shape
    <3> QED BY <1>1, <1>3, <2>5, <3>1, <3>2, <3>3 DEF Shape
  <2>8. Follows
    BY <1>1, <1>3, <2>3, <2>6, ShapeFacts DEF Follows
  <2>9. Kept
    <3>1. \A d \in sealed : \E e \in sealed' : e.frames = d.frames
      BY <2>3, <2>4
    <3>2. \A e \in sealed' : \E d \in sealed : d.frames = e.frames
      BY <2>3, <2>4
    <3>3. PICK U, V : U = UNION {RecordsOf(d.frames) : d \in sealed}
                      /\ V = UNION {RecordsOf(d.frames) : d \in sealed'}
      OBVIOUS
    <3>4. U \subseteq V
      BY <3>1, <3>3
    <3>5. V \subseteq U
      BY <3>2, <3>3
    <3>6. U = V
      BY <3>4, <3>5
    <3> QED BY <1>1, <1>3, <3>3, <3>6 DEF Kept, MainRecords, QuarantinedRecords
  <2> QED BY <1>1, <2>7, <2>8, <2>9
<1> QED BY <1>2, <1>3 DEF Damage

\* Markers are apart from the files.
LEMMA MarkersEffect ==
  ASSUME Shape, setup' = setup, UNCHANGED <<active, sealed, quarantine, nextId>>, markers' \subseteq Marker
  PROVE  Shape' /\ Follows /\ Kept
<1>1. SpoolTypeOK'
  BY SameTypes DEF Shape, SpoolTypeOK
<1>2. \A f \in sealed' : \E g \in sealed : g.id = f.id /\ g.frames = f.frames
  OBVIOUS
<1>3. Shape'
  BY <1>1 DEF Shape
<1>4. Follows
  BY <1>2, ShapeFacts DEF Follows
<1>5. Kept
  BY DEF Kept, MainRecords, QuarantinedRecords
<1> QED BY <1>3, <1>4, <1>5

LEMMA NoEffect ==
  ASSUME Shape, setup' = setup, UNCHANGED spoolVars
  PROVE  Shape' /\ Follows /\ Kept /\ markers' = markers
  BY MarkersEffect DEF spoolVars, Shape, SpoolTypeOK

-----------------------------------------------------------------------------
(* What stays true of the daemon's tasks while others move.                   *)

\* The journal and the purges grow; under the exclusive fence nothing becomes visible,
\* without it no blob goes.
Grows ==
  /\ Committed \subseteq Committed' /\ Purged \subseteq Purged'
  /\ exclusive = "none" => cas \subseteq cas'
  /\ exclusive # "none" => Committed' = Committed

LEMMA LiveShrinks ==
  ASSUME Grows, exclusive # "none"
  PROVE  LiveRefs' \subseteq LiveRefs
BY DEF Grows, LiveRefs, Refs, IsPurged

LEMMA AccountedStays ==
  ASSUME Grows, NEW r, Accounted(r)
  PROVE  Accounted(r)'
BY DEF Grows, Accounted

LEMMA CursorStays ==
  ASSUME Shape, Follows, Grows, NEW x \in Cursor, CursorGood(x)
  PROVE  CursorGood(x)'
<1> SUFFICES ASSUME x # NoCursor
             PROVE  CursorGood(x)'
  BY DEF CursorGood
<1>1. x.id \in Nat /\ 0 < x.id /\ x.id < nextId /\ x.id # active.id
  BY DEF CursorGood, Cursor
<1>2. 0 < x.id /\ x.id < nextId' /\ x.id # active'.id
  BY <1>1, ShapeFacts DEF Follows
<1>3. ASSUME NEW f \in sealed', f.id = x.id
      PROVE  x.offset <= Len(f.frames) /\ \A i \in 1 .. x.offset : Accounted(f.frames[i])'
  <2>1. PICK g \in sealed : g.id = f.id /\ g.frames = f.frames
    BY <1>1, <1>3 DEF Follows
  <2>2. x.offset <= Len(g.frames) /\ \A i \in 1 .. x.offset : Accounted(g.frames[i])
    BY <1>3, <2>1 DEF CursorGood
  <2> QED BY <2>1, <2>2, AccountedStays
<1> QED BY <1>2, <1>3 DEF CursorGood

LEMMA LinkedStays ==
  ASSUME Shape, Follows, NEW w \in Workers, w = "page" => cursor' = cursor,
         NEW c \in Claim, Linked(w, c)
  PROVE  Linked(w, c)'
<1>1. c.id \in Nat /\ 0 < c.id /\ c.id < nextId /\ c.id # active.id
  BY DEF Linked, Claim
<1>2. 0 < c.id /\ c.id < nextId' /\ c.id # active'.id
  BY <1>1, ShapeFacts DEF Follows
<1>3. Off(w)' = Off(w) /\ (w = "page" /\ cursor' # NoCursor => c.id = cursor'.id)
  BY DEF Off, Linked
<1>4. ASSUME NEW f \in sealed', f.id = c.id
      PROVE  /\ Off(w) + Len(c.frames) <= Len(f.frames)
             /\ \A i \in 1 .. Len(c.frames) : c.frames[i] = f.frames[Off(w) + i]
             /\ c.complete => Off(w) + Len(c.frames) = Len(f.frames)
  <2>1. PICK g \in sealed : g.id = f.id /\ g.frames = f.frames
    BY <1>1, <1>4 DEF Follows
  <2> QED BY <1>4, <2>1 DEF Linked
<1> QED BY <1>2, <1>3, <1>4 DEF Linked

LEMMA GoodFields ==
  ASSUME NEW w, NEW x, Good(w, x)
  PROVE  /\ x \in WorkerType /\ x.cur \in Claim /\ x.next \in Cursor /\ x.k \in Nat /\ x.consumed \in Nat
         /\ \A c \in x.todo : c \in Claim
         /\ \A d \in x.discard : d.claim \in Claim /\ d.terminal \subseteq Records
BY DEF Good, WorkerType

\* What another step must leave a task that it does not drive.
Leaves(w, x) ==
  /\ w = "page" => cursor' = cursor
  /\ (exclusive' = w) = (exclusive = w)
  /\ x.fence => exclusive' = "none"

LEMMA GoodStays ==
  ASSUME Shape, Follows, Grows, NEW w \in Workers, NEW x, Good(w, x), Leaves(w, x)
  PROVE  Good(w, x)'
<1>1. /\ x.fence => x.pc \in InSegment /\ exclusive' = "none"
      /\ (exclusive' = w) = (x.pc \in Excluding)
  BY DEF Good, Leaves
<1>2. x.pc = "verified" => /\ x.fence /\ x.k <= Len(x.cur.frames)
                           /\ Digest[x.cur.frames[x.k]] \in cas'
  BY DEF Good, Grows
<1>3. x.pc = "discarding" => LiveRefs' \subseteq x.live
  BY LiveShrinks DEF Good, Excluding, Workers
<1>4. x.view \subseteq Purged' /\ \A r \in x.terminal : RepoOf[r] \in Purged'
  BY DEF Good, Grows
<1>5. \A c \in x.todo : Linked(w, c)'
  BY GoodFields, LinkedStays DEF Good, Leaves
<1>6. \A d \in x.discard : Discarded(w, d)'
  <2> TAKE d \in x.discard
  <2>1. Discarded(w, d) /\ d.claim \in Claim
    BY GoodFields DEF Good
  <2>2. Linked(w, d.claim)'
    BY <2>1, LinkedStays DEF Leaves, Discarded
  <2>3. \A i \in 1 .. Len(d.claim.frames) : Accounted(d.claim.frames[i])'
    BY <2>1, AccountedStays DEF Discarded
  <2> QED BY <2>1, <2>2, <2>3 DEF Discarded, Grows
<1>7. x.pc \in InSegment => Draining(w, x)'
  <2> SUFFICES ASSUME x.pc \in InSegment
               PROVE  Draining(w, x)'
    OBVIOUS
  <2>1. Draining(w, x) /\ x.cur \in Claim
    BY GoodFields DEF Good
  <2>2. Linked(w, x.cur)'
    BY <2>1, LinkedStays DEF Leaves, Draining
  <2>3. x.consumed = x.k - 1 => \A i \in 1 .. x.k - 1 : Accounted(x.cur.frames[i])'
    BY <2>1, AccountedStays DEF Draining
  <2> QED BY <2>1, <2>2, <2>3 DEF Draining
<1>8. w = "page" => Paging(x)'
  <2> SUFFICES ASSUME w = "page"
               PROVE  Paging(x)'
    OBVIOUS
  <2>1. Paging(x) /\ cursor' = cursor
    BY DEF Good, Leaves
  <2>2. \A c : Before(x, c)' = Before(x, c)
    BY <2>1 DEF Before, Off
  <2>3. CursorGood(x.next) => CursorGood(x.next)'
    BY GoodFields, CursorStays
  <2> QED BY <2>1, <2>2, <2>3 DEF Paging
<1>9. x \in WorkerType /\ (x.pc \in Fresh => x.todo = {} /\ x.discard = {})
  BY DEF Good
<1> QED BY <1>1, <1>2, <1>3, <1>4, <1>5, <1>6, <1>7, <1>8, <1>9 DEF Good

-----------------------------------------------------------------------------
(* Steps of the blob lifecycle, in the pipeline's terms.                      *)

Sharers == hookFence \cup {w \in Workers : worker[w].fence}
Publishers == {r \in Records : hookPc[r] = "published"}
LifecycleStep == [Lifecycle!LifecycleNext]_Lifecycle!lifecycleVars

\* What a step leaves alone.
FenceSame == Sharers' = Sharers /\ Publishers' = Publishers /\ (exclusive' # "none") = (exclusive # "none")
FilesSame == Kept
BlobsSame == cas' = cas
RowsSame == Committed' = Committed /\ Purged' = Purged

LEMMA LWithdraw ==
  ASSUME Sharers' \subseteq Sharers, Publishers' \subseteq Publishers \cap Sharers',
         exclusive' # "none" => exclusive # "none", FilesSame, BlobsSame, RowsSame
  PROVE  LifecycleStep
BY DEF LifecycleStep, Lifecycle!LifecycleNext, Lifecycle!Withdraw, Sharers, Publishers, FilesSame, Kept,
       BlobsSame, RowsSame

LEMMA LShare ==
  ASSUME NEW h \in Records \cup Workers, exclusive = "none", exclusive' = "none",
         Sharers' = Sharers \cup {h}, Publishers' = Publishers, FilesSame, BlobsSame, RowsSame
  PROVE  LifecycleStep
BY DEF LifecycleStep, Lifecycle!LifecycleNext, Lifecycle!Share, Sharers, Publishers, FilesSame, Kept,
       BlobsSame, RowsSame

LEMMA LPublish ==
  ASSUME NEW r \in Records, r \in Sharers, cas' = cas \cup {Digest[r]}, exclusive' = exclusive,
         Sharers' = Sharers, Publishers' = Publishers \cup {r}, FilesSame, RowsSame
  PROVE  LifecycleStep
BY DEF LifecycleStep, Lifecycle!LifecycleNext, Lifecycle!PublishBlob, Sharers, Publishers, FilesSame, Kept,
       RowsSame

LEMMA LRefer ==
  ASSUME NEW r \in Records, r \in Publishers, MainRecords' = MainRecords \cup {r},
         QuarantinedRecords' = QuarantinedRecords, exclusive' = exclusive,
         Sharers' = Sharers \/ Sharers' = Sharers \ {r}, Publishers' = Publishers \ {r},
         BlobsSame, RowsSame
  PROVE  LifecycleStep
BY DEF LifecycleStep, Lifecycle!LifecycleNext, Lifecycle!Refer, Sharers, Publishers, BlobsSame, RowsSame

LEMMA LCommit ==
  ASSUME NEW r \in Records, NEW w \in Workers, worker[w].fence, Digest[r] \in cas,
         RepoOf[r] \notin Purged, Committed' = Committed \cup {r}, Purged' = Purged,
         FenceSame, FilesSame, BlobsSame
  PROVE  LifecycleStep
BY DEF LifecycleStep, Lifecycle!LifecycleNext, Lifecycle!Commit, Lifecycle!Visible, Sharers, Publishers,
       FenceSame, FilesSame, Kept, BlobsSame

LEMMA LAcknowledge ==
  ASSUME NEW S \in SUBSET Records, S \subseteq MainRecords, \A r \in S : Accounted(r),
         MainRecords' = MainRecords \ S, QuarantinedRecords' = QuarantinedRecords,
         Sharers' = Sharers \/ \E h \in Workers : Sharers' = Sharers \ {h},
         Publishers' = Publishers, (exclusive' # "none") = (exclusive # "none"), BlobsSame, RowsSame
  PROVE  LifecycleStep
BY DEF LifecycleStep, Lifecycle!LifecycleNext, Lifecycle!Acknowledge, Lifecycle!Visible, Sharers, Publishers,
       Accounted, BlobsSame, RowsSame

LEMMA LPreserve ==
  ASSUME MovedAside, MainRecords \subseteq Records, FenceSame, BlobsSame, RowsSame
  PROVE  LifecycleStep
<1>1. PICK S \in SUBSET Records : /\ S \subseteq MainRecords /\ MainRecords' = MainRecords \ S
                                  /\ QuarantinedRecords' = QuarantinedRecords \cup S
  BY DEF MovedAside
<1> QED BY <1>1 DEF LifecycleStep, Lifecycle!LifecycleNext, Lifecycle!Preserve, Sharers, Publishers,
                    FenceSame, BlobsSame, RowsSame

LEMMA LPurge ==
  ASSUME NEW p \in Repos, Purged' = Purged \cup {p}, Committed' = Committed,
         FenceSame, FilesSame, BlobsSame
  PROVE  LifecycleStep
BY DEF LifecycleStep, Lifecycle!LifecycleNext, Lifecycle!Purge, Sharers, Publishers,
       FenceSame, FilesSame, Kept, BlobsSame

LEMMA LExclude ==
  ASSUME CanExclude, exclusive' # "none", Sharers' = Sharers, Publishers' = Publishers,
         FilesSame, BlobsSame, RowsSame
  PROVE  LifecycleStep
BY DEF LifecycleStep, Lifecycle!LifecycleNext, Lifecycle!Exclude, Sharers, Publishers, CanExclude,
       FilesSame, Kept, BlobsSame, RowsSame

\* What the blobs of the main spool and of visible receipts are.
NeededBlobs == Refs({r \in MainRecords \cup Committed : RepoOf[r] \notin Purged})

LEMMA LDelete ==
  ASSUME NEW D \in SUBSET Blobs, exclusive # "none", D \cap NeededBlobs = {}, cas' = cas \ D,
         FenceSame, FilesSame, RowsSame
  PROVE  LifecycleStep
BY DEF LifecycleStep, Lifecycle!LifecycleNext, Lifecycle!Delete, Lifecycle!Needed, Lifecycle!Visible, Sharers,
       Publishers, NeededBlobs, Refs, FenceSame, FilesSame, Kept, RowsSame

-----------------------------------------------------------------------------
(* What stays true of the parts a step does not drive.                        *)

LEMMA HookedStays ==
  ASSUME Hooked, UNCHANGED <<hookPc, hookFence, scanSlot>>, cas' \subseteq cas,
         MainRecords' \subseteq MainRecords, exclusive' # "none" => hookFence = {}
  PROVE  Hooked'
BY DEF Hooked, HookTypeOK

LEMMA RecordedStays ==
  ASSUME Recorded, UNCHANGED <<journal, gaps>>
  PROVE  Recorded' /\ Committed' = Committed
BY DEF Recorded, CommittedOnce, Committed

\* Another one than w locks or unlocks nothing.
Locks(w) ==
  \/ exclusive' = exclusive
  \/ exclusive = w /\ exclusive' = "none"
  \/ CanExclude /\ exclusive' = w

LEMMA CursorKept ==
  ASSUME Shape, Served, Follows, Grows, cursor' = cursor
  PROVE  cursor' \in Cursor /\ (\A x \in {cursor} : CursorGood(x))'
<1>1. PICK c \in Cursor : c = cursor
  BY DEF Served
<1>2. CursorGood(c)
  BY <1>1 DEF Served
<1>3. CursorGood(c)'
  BY <1>2, CursorStays
<1> QED BY <1>1, <1>3

LEMMA ServedStep ==
  ASSUME Shape, Served, Follows, Grows, NEW w \in Workers, NEW x, Good(w, x)', Locks(w),
         worker' = [worker EXCEPT ![w] = x], w # "page" => cursor' = cursor,
         cursor' \in Cursor, (\A y \in {cursor} : CursorGood(y))'
  PROVE  Served'
<1>1. x \in WorkerType
  BY DEF Good, WorkerType, Claim, Cursor, WorkerStates
<1>2. worker' \in [Workers -> WorkerType] /\ worker'[w] = x
  BY <1>1 DEF Served
<1>3. ASSUME NEW v \in Workers, v # w
      PROVE  (\A y \in {worker[v]} : Good(v, y))'
  <2>1. PICK y : y = worker[v]
    OBVIOUS
  <2>2. Good(v, y) /\ worker'[v] = y
    BY <1>3, <2>1 DEF Served
  <2>3. (exclusive' = v) = (exclusive = v)
    BY <1>3 DEF Locks, CanExclude, Workers
  <2>4. y.fence => exclusive' = "none"
    BY <2>1, <2>2 DEF Locks, CanExclude, Good, Workers
  <2>5. v = "page" => cursor' = cursor
    BY <1>3 DEF Workers
  <2>6. Good(v, y)'
    BY <2>2, <2>3, <2>4, <2>5, GoodStays DEF Leaves
  <2> QED BY <2>2, <2>6
<1> QED BY <1>2, <1>3 DEF Served

\* Steps that are not a daemon task's.
LEMMA ServedStays ==
  ASSUME Shape, Served, Follows, Grows, worker' = worker, cursor' = cursor,
         \A w \in Workers : (exclusive' = w) = (exclusive = w),
         exclusive' = "none" \/ exclusive' = exclusive \/ CanExclude
  PROVE  Served'
<1>1. ASSUME NEW v \in Workers
      PROVE  (\A y \in {worker[v]} : Good(v, y))'
  <2>1. PICK y : y = worker[v]
    OBVIOUS
  <2>2. Good(v, y) /\ worker'[v] = y
    BY <1>1, <2>1 DEF Served
  <2>4. y.fence => exclusive' = "none"
    BY <2>1, <2>2 DEF CanExclude, Good
  <2>6. Good(v, y)'
    BY <2>2, <2>4, GoodStays DEF Leaves
  <2> QED BY <2>2, <2>6
<1> QED BY <1>1, CursorKept DEF Served

LEMMA IdleGood ==
  ASSUME NEW w \in Workers, exclusive # w
  PROVE  Good(w, IdleWorker)
<1>1. IdleWorker \in WorkerType
  BY EmptySeq DEF IdleWorker, WorkerType, WorkerStates, NoClaim, Claim, NoCursor, Cursor
<1> QED BY <1>1 DEF IdleWorker, Good, Paging, Excluding, InSegment, Fresh

\* References that may decide what is deleted.
Referred == MainRecords \cup Committed \cup QuarantinedRecords
GcSame == gc' = gc \/ \E D : gc' = [gc EXCEPT !.stale = @ \cup (gc.candidates \cap D)]

LEMMA GcFields ==
  ASSUME MaintenanceTypeOK, GcSame
  PROVE  /\ gc' \in [pc : GcStates, candidates : SUBSET Blobs, refs : SUBSET Blobs, stale : SUBSET Blobs]
         /\ gc'.pc = gc.pc /\ gc'.candidates = gc.candidates /\ gc'.refs = gc.refs
<1>1. gc \in [pc : GcStates, candidates : SUBSET Blobs, refs : SUBSET Blobs, stale : SUBSET Blobs]
  BY DEF MaintenanceTypeOK
<1>2. CASE gc' = gc
  BY <1>1, <1>2
<1>3. CASE \E D : gc' = [gc EXCEPT !.stale = @ \cup (gc.candidates \cap D)]
  <2>1. PICK D : gc' = [gc EXCEPT !.stale = gc.stale \cup (gc.candidates \cap D)]
    BY <1>3
  <2>2. PICK s \in SUBSET Blobs : s = gc.stale \cup (gc.candidates \cap D)
    BY <1>1
  <2>3. gc' = [gc EXCEPT !.stale = s]
    BY <2>1, <2>2
  <2> QED BY <1>1, <2>3
<1> QED BY <1>2, <1>3 DEF GcSame

LEMMA CollectingStays ==
  ASSUME Collecting, MaintenanceTypeOK, GcSame, exclusive' \in {"none", "gc", "purge"} \cup Workers,
         (exclusive' = "gc") = (exclusive = "gc"),
         gc.pc \in {"sweeping", "deleting"} => Committed' \subseteq Committed,
         gc.pc = "deleting" => Referred' \subseteq Referred
  PROVE  Collecting'
<1>1. gc'.pc = gc.pc /\ gc'.candidates = gc.candidates /\ gc'.refs = gc.refs
  BY GcFields
<1>2. gc.pc = "deleting" => Refs(Referred') \cap gc.candidates = {}
  BY DEF Collecting, Referred, Refs
<1>3. gc.pc \in {"sweeping", "deleting"} => Refs(Committed') \subseteq gc.refs
  BY DEF Collecting, Refs
<1>4. (exclusive' = "gc") = (gc'.pc \in {"listing", "deleting"})
  BY <1>1 DEF Collecting
<1> QED BY <1>1, <1>2, <1>3, <1>4 DEF Collecting, Referred, Refs

LEMMA PurgingStays ==
  ASSUME Purging, Grows, GcSame, UNCHANGED <<setup, purge, purgeJob, spent>>,
         (exclusive' = "purge") = (exclusive = "purge")
  PROVE  Purging' /\ Purged' = Purged
<1>1. MaintenanceTypeOK'
  BY GcFields DEF Purging, MaintenanceTypeOK
<1>2. purgeJob.pc = "deleting" => LiveRefs' \subseteq purgeJob.live
  BY LiveShrinks DEF Purging
<1> QED BY <1>1, <1>2 DEF Purging, Purged

-----------------------------------------------------------------------------
(* Steps of the daemon's tasks.                                               *)

LEMMA IdleGoodNext ==
  ASSUME NEW w \in Workers, exclusive' # w
  PROVE  Good(w, IdleWorker)'
<1>1. IdleWorker \in WorkerType
  BY EmptySeq DEF IdleWorker, WorkerType, WorkerStates, NoClaim, Claim, NoCursor, Cursor
<1> QED BY <1>1 DEF IdleWorker, Good, Paging, Excluding, InSegment, Fresh

\* Nothing appears in the spool that was not there.
SpoolShrinks ==
  /\ Shape' /\ Follows /\ markers' = markers /\ MainRecords' \subseteq MainRecords
  /\ QuarantinedRecords' \subseteq QuarantinedRecords \cup MainRecords

LEMMA LocksFacts ==
  ASSUME Inner, NEW w \in Workers, Locks(w)
  PROVE  /\ exclusive' \in {"none", "gc", "purge"} \cup Workers
         /\ (exclusive' = "gc") = (exclusive = "gc")
         /\ (exclusive' = "purge") = (exclusive = "purge")
         /\ exclusive' # "none" => hookFence = {}
BY DEF Inner, Locks, CanExclude, Workers, Collecting, Hooked

LEMMA TaskStep ==
  ASSUME Inner, setup' = setup, SpoolShrinks, Grows, NEW w \in Workers, NEW x, Good(w, x)', Locks(w),
         worker' = [worker EXCEPT ![w] = x], w # "page" => cursor' = cursor,
         cursor' \in Cursor, (\A y \in {cursor} : CursorGood(y))',
         UNCHANGED <<hookPc, hookFence, scanSlot, purge, purgeJob, spent>>, GcSame, cas' \subseteq cas,
         Recorded', gc.pc \in {"sweeping", "deleting"} => Committed' \subseteq Committed
  PROVE  Inner'
<1>1. Served'
  BY ServedStep DEF Inner, SpoolShrinks
<1>2. Hooked'
  BY HookedStays, LocksFacts DEF Inner, SpoolShrinks
<1>3. Purging'
  BY PurgingStays, LocksFacts DEF Inner
<1>4. gc.pc = "deleting" => Referred' \subseteq Referred
  BY DEF SpoolShrinks, Referred
<1>5. Collecting'
  BY <1>4, CollectingStays, LocksFacts DEF Inner, Purging
<1> QED BY <1>1, <1>2, <1>3, <1>5 DEF Inner, SpoolShrinks

LEMMA RowsStay ==
  ASSUME UNCHANGED <<journal, purge>>, exclusive = "none" => cas \subseteq cas'
  PROVE  Grows /\ RowsSame
BY DEF Grows, RowsSame, Committed, Purged

LEMMA QuietTask ==
  ASSUME Inner, setup' = setup, SpoolShrinks, NEW w \in Workers, NEW x, Good(w, x)', Locks(w),
         worker' = [worker EXCEPT ![w] = x], w # "page" => cursor' = cursor,
         cursor' \in Cursor, (\A y \in {cursor} : CursorGood(y))',
         UNCHANGED <<drainIdle, purgeJob, gc>>
  PROVE  Inner'
<1>1. UNCHANGED <<cas, hookPc, hookFence, scanSlot, journal, gaps, purge, spent>>
  BY DEF drainIdle
<1>2. Grows /\ RowsSame
  BY <1>1, RowsStay
<1>3. Recorded'
  BY <1>1, RecordedStays DEF Inner
<1>4. GcSame
  BY DEF GcSame
<1> QED BY <1>1, <1>2, <1>3, <1>4, TaskStep DEF RowsSame

LEMMA PlainTask ==
  ASSUME Inner, setup' = setup, SpoolShrinks, NEW w \in Workers, NEW x, Good(w, x),
         worker' = [worker EXCEPT ![w] = x], UNCHANGED <<drainIdle, cursor, exclusive, purgeJob, gc>>
  PROVE  Inner'
<1>1. Grows
  BY RowsStay DEF drainIdle
<1>2. Leaves(w, x)
  BY DEF Leaves, Good
<1>3. Good(w, x)'
  BY <1>1, <1>2, GoodStays DEF Inner, SpoolShrinks
<1>4. cursor' \in Cursor /\ (\A y \in {cursor} : CursorGood(y))'
  BY <1>1, CursorKept DEF Inner, SpoolShrinks
<1> QED BY <1>3, <1>4, QuietTask DEF Locks

LEMMA IdleTask ==
  ASSUME Inner, setup' = setup, SpoolShrinks, NEW w \in Workers,
         worker' = [worker EXCEPT ![w] = IdleWorker], Release(w), w # "page" => cursor' = cursor,
         cursor' \in Cursor, (\A y \in {cursor} : CursorGood(y))',
         UNCHANGED <<drainIdle, purgeJob, gc>>
  PROVE  Inner'
<1>1. Locks(w) /\ exclusive' # w
  BY DEF Release, Locks, Workers
<1>2. Good(w, IdleWorker)'
  BY <1>1, IdleGoodNext
<1> QED BY <1>1, <1>2, QuietTask

LEMMA NoCursorGood ==
  ASSUME cursor' = NoCursor
  PROVE  cursor' \in Cursor /\ (\A y \in {cursor} : CursorGood(y))'
BY DEF NoCursor, Cursor, CursorGood

LEMMA DownStep ==
  ASSUME Inner, setup' = setup, SpoolShrinks, DaemonDown,
         UNCHANGED <<cas, hookPc, hookFence, scanSlot, journal, gaps, purge>>,
         spent' \in [restarts : 0 .. setup.restarts, rounds : 0 .. setup.rounds,
                     damage : 0 .. setup.damage]
  PROVE  Inner'
<1>1. Hooked'
  BY HookedStays DEF Inner, DaemonDown, SpoolShrinks
<1>2. Recorded' /\ Committed' = Committed
  BY RecordedStays DEF Inner
<1>3. Served'
  <2>1. worker' \in [Workers -> WorkerType]
    <3>1. IdleWorker \in WorkerType
      BY EmptySeq DEF IdleWorker, WorkerType, WorkerStates, NoClaim, Claim, NoCursor, Cursor
    <3> QED BY <3>1 DEF DaemonDown
  <2>2. ASSUME NEW w \in Workers
        PROVE  (\A y \in {worker[w]} : Good(w, y))'
    <3>1. Good(w, IdleWorker)'
      BY IdleGoodNext DEF DaemonDown, Workers
    <3>2. PICK i : i = IdleWorker
      OBVIOUS
    <3>3. Good(w, i)'
      BY <3>1, <3>2
    <3>4. worker'[w] = i
      BY <3>2 DEF DaemonDown
    <3> QED BY <3>3, <3>4
  <2>3. cursor' \in Cursor /\ (\A y \in {cursor} : CursorGood(y))'
    BY NoCursorGood DEF DaemonDown
  <2> QED BY <2>1, <2>2, <2>3 DEF Served
<1>4. Purging'
  <2>1. IdlePurge \in [pc : PurgeStates, repo : Repos, batch : SUBSET Blobs, live : SUBSET Blobs, seen : Nat]
        /\ IdlePurge.pc = "idle"
    BY PipelineAssumption DEF IdlePurge, PurgeStates, PipelineAssumption
  <2>2. IdleGc \in [pc : GcStates, candidates : SUBSET Blobs, refs : SUBSET Blobs, stale : SUBSET Blobs]
    BY DEF IdleGc, GcStates
  <2>3. MaintenanceTypeOK'
    BY <2>1, <2>2 DEF Inner, Purging, MaintenanceTypeOK, DaemonDown
  <2> QED BY <2>1, <2>3 DEF Purging, DaemonDown
<1>5. Collecting'
  BY DEF Collecting, DaemonDown, IdleGc
<1> QED BY <1>1, <1>2, <1>3, <1>4, <1>5 DEF Inner, SpoolShrinks

\* What hooks report stays true of the records, and quarantined frames keep their blobs
\* while nothing is purged.
Honest ==
  /\ \A r \in Records : hookPc'[r] = "durable" => hookPc[r] = "durable" \/ r \in MainRecords'
  /\ GapAccounted'
  /\ Purged = {} => Refs(QuarantinedRecords) \cap cas \subseteq cas'

\* What every step is shown to do.
Sound == Inner' /\ LifecycleStep /\ Honest

LEMMA QuietHonest ==
  ASSUME GapAccounted, UNCHANGED <<hookPc, gaps, markers, cas>>
  PROVE  Honest
BY DEF Honest, GapAccounted

LEMMA Shrinks ==
  ASSUME Shape', Follows, markers' = markers,
         \/ Kept \/ MovedAside
         \/ QuarantinedRecords' = QuarantinedRecords /\ \E id : Unlinked(id)
  PROVE  SpoolShrinks
BY DEF SpoolShrinks, Kept, MovedAside, Unlinked

LEMMA StillShrinks ==
  ASSUME Inner, setup' = setup, UNCHANGED spoolVars
  PROVE  SpoolShrinks /\ Kept /\ MovedAside
<1>1. Shape' /\ Follows /\ Kept /\ markers' = markers
  BY NoEffect DEF Inner
<1>2. MovedAside
  <2>1. PICK S : S = {}
    OBVIOUS
  <2>2. S \in SUBSET MainRecords /\ MainRecords' = MainRecords \ S /\ QuarantinedRecords' = QuarantinedRecords \cup S
    BY <1>1, <2>1 DEF Kept
  <2> QED BY <2>2 DEF MovedAside
<1> QED BY <1>1, <1>2, Shrinks

LEMMA TaskFence ==
  ASSUME Inner, NEW w \in Workers, NEW x, worker' = [worker EXCEPT ![w] = x],
         UNCHANGED <<hookPc, hookFence>>
  PROVE  /\ Publishers' = Publishers /\ Publishers \subseteq Sharers'
         /\ x.fence = worker[w].fence => Sharers' = Sharers
         /\ x.fence = TRUE => Sharers' = Sharers \cup {w}
         /\ x.fence = FALSE => Sharers' = Sharers \ {w}
<1>1. worker \in [Workers -> WorkerType] /\ hookFence \subseteq Records
  BY DEF Inner, Served, Hooked, HookTypeOK
<1>2. worker'[w] = x /\ \A v \in Workers : v # w => worker'[v] = worker[v]
  BY <1>1
<1>3. Publishers' = Publishers /\ Publishers \subseteq hookFence
  BY DEF Publishers, Inner, Hooked, Publishing
<1>4. w \notin hookFence
  BY <1>1, NamesAssumption DEF NamesAssumption
<1> QED BY <1>2, <1>3, <1>4 DEF Sharers

LEMMA DownSound ==
  ASSUME Inner, GapAccounted, setup' = setup, UNCHANGED spoolVars, DaemonDown,
         UNCHANGED <<cas, hookPc, hookFence, scanSlot, journal, gaps, purge>>,
         spent' \in [restarts : 0 .. setup.restarts, rounds : 0 .. setup.rounds,
                     damage : 0 .. setup.damage]
  PROVE  Sound
<1>1. SpoolShrinks /\ Kept
  BY StillShrinks
<1>2. Inner'
  BY <1>1, DownStep
<1>3. Sharers' \subseteq Sharers /\ Publishers' \subseteq Publishers \cap Sharers'
  <2>1. Sharers' = hookFence
    BY DEF Sharers, DaemonDown, IdleWorker
  <2> QED BY <2>1 DEF Sharers, Publishers, Inner, Hooked, Publishing
<1>4. RowsSame /\ BlobsSame
  BY DEF RowsSame, BlobsSame, Committed, Purged
<1>5. LifecycleStep
  BY <1>1, <1>3, <1>4, LWithdraw DEF FilesSame, DaemonDown
<1>6. Honest
  BY QuietHonest DEF spoolVars
<1> QED BY <1>2, <1>5, <1>6 DEF Sound

\* A task's step that leaves files, blobs and rows alone.
LEMMA TaskWithdraws ==
  ASSUME Inner, Inner', GapAccounted, SpoolShrinks, Kept, NEW w \in Workers, NEW x,
         worker' = [worker EXCEPT ![w] = x], x.fence \in BOOLEAN, x.fence => worker[w].fence,
         exclusive' # "none" => exclusive # "none", UNCHANGED drainIdle
  PROVE  Sound
<1>1. UNCHANGED <<cas, hookPc, hookFence, scanSlot, journal, gaps, purge, spent>>
  BY DEF drainIdle
<1>2. Sharers' \subseteq Sharers /\ Publishers' \subseteq Publishers \cap Sharers'
  <2>1. worker[w].fence \in BOOLEAN
    BY DEF Inner, Served, WorkerType
  <2> QED BY <1>1, <2>1, TaskFence
<1>3. RowsSame /\ BlobsSame
  BY <1>1 DEF RowsSame, BlobsSame, Committed, Purged
<1>4. LifecycleStep
  BY <1>2, <1>3, LWithdraw DEF FilesSame
<1>5. Honest
  BY <1>1, QuietHonest DEF SpoolShrinks
<1> QED BY <1>4, <1>5 DEF Sound

\* A task's step that moves carriers aside.
LEMMA TaskPreserves ==
  ASSUME Inner, Inner', GapAccounted, SpoolShrinks, MovedAside, NEW w \in Workers, NEW x,
         worker' = [worker EXCEPT ![w] = x], x.fence = worker[w].fence,
         exclusive' = exclusive, UNCHANGED drainIdle
  PROVE  Sound
<1>1. UNCHANGED <<cas, hookPc, hookFence, scanSlot, journal, gaps, purge, spent>>
  BY DEF drainIdle
<1>2. FenceSame
  BY <1>1, TaskFence DEF FenceSame
<1>3. RowsSame /\ BlobsSame
  BY <1>1 DEF RowsSame, BlobsSame, Committed, Purged
<1>4. LifecycleStep
  BY <1>2, <1>3, LPreserve, ShapeFacts DEF Inner
<1>5. Honest
  BY <1>1, QuietHonest DEF SpoolShrinks
<1> QED BY <1>4, <1>5 DEF Sound

LEMMA AbandonSound ==
  ASSUME Inner, GapAccounted, setup' = setup, NEW w \in Workers, Release(w),
         worker' = [worker EXCEPT ![w] = IdleWorker], w # "page" => cursor' = cursor,
         cursor' \in Cursor, (\A y \in {cursor} : CursorGood(y))',
         UNCHANGED <<spoolVars, drainIdle, purgeJob, gc>>
  PROVE  Sound
<1>1. SpoolShrinks /\ Kept
  BY StillShrinks
<1>2. Inner'
  BY <1>1, IdleTask
<1>3. exclusive' # "none" => exclusive # "none"
  BY DEF Release
<1>4. PICK x : x = IdleWorker
  OBVIOUS
<1> QED BY <1>1, <1>2, <1>3, <1>4, TaskWithdraws DEF IdleWorker

LEMMA AbandonStep ==
  ASSUME Inner, GapAccounted, setup' = setup, NEW w \in Workers, Abandon(w),
         UNCHANGED <<spoolVars, drainIdle, purgeJob, gc>>
  PROVE  Sound
<1>1. Grows
  BY RowsStay DEF drainIdle
<1>2. cursor' \in Cursor /\ (\A y \in {cursor} : CursorGood(y))'
  BY <1>1, CursorKept, StillShrinks DEF Inner, SpoolShrinks, Abandon
<1> QED BY <1>2, AbandonSound DEF Abandon

LEMMA FailsStep ==
  ASSUME Inner, GapAccounted, setup' = setup, NEW w \in Workers, Fails(w),
         UNCHANGED <<spoolVars, drainIdle>>
  PROVE  Sound
<1>1. CASE w = "page" /\ DaemonDown
  <2>1. UNCHANGED <<cas, hookPc, hookFence, scanSlot, journal, gaps, purge, spent>>
    BY DEF drainIdle
  <2> QED BY <1>1, <2>1, DownSound DEF Inner, Purging, MaintenanceTypeOK
<1>2. CASE w # "page" \/ ~DaemonDown
  <2>1. Abandon(w) /\ UNCHANGED <<spoolVars, drainIdle, purgeJob, gc>>
    BY <1>2 DEF Fails, Abandon
  <2> QED BY <2>1, AbandonStep
<1> QED BY <1>1, <1>2

-----------------------------------------------------------------------------
(* Opening, sealing and claiming.                                             *)

\* A task that has not claimed anything yet.
LEMMA FreshGood ==
  ASSUME NEW w \in Workers, NEW y, Good(w, y), y.pc \in Fresh,
         NEW x, NEW p \in {"opened", "sealed"}, NEW s \in SUBSET Records, w = "page" => s = Records,
         x = [y EXCEPT !.pc = p, !.selected = s]
  PROVE  Good(w, x) /\ x.fence = FALSE /\ y.fence = FALSE
<1>1. y \in WorkerType /\ y.fence = FALSE
  <2>1. y \in WorkerType /\ (y.fence => y.pc \in InSegment)
    BY DEF Good
  <2> QED BY <2>1 DEF InSegment, Fresh, WorkerType
<1>2. x \in WorkerType /\ x.pc = p /\ x.selected = s /\ x.fence = FALSE
  BY <1>1 DEF WorkerType, WorkerStates
<1>3. x.todo = y.todo /\ x.discard = y.discard /\ x.view = y.view /\ x.terminal = y.terminal
  BY <1>1 DEF WorkerType
<1>4. x.todo = {} /\ x.discard = {}
  BY <1>3 DEF Good
<1>5. (exclusive = w) = (x.pc \in Excluding)
  BY <1>2 DEF Good, Excluding, Fresh
<1>6. w = "page" => Paging(x)
  BY <1>2, <1>4 DEF Paging, InSegment, Excluding
<1> QED BY <1>1, <1>2, <1>3, <1>4, <1>5, <1>6 DEF Good, InSegment, Fresh

LEMMA WorkerOf ==
  ASSUME Inner, NEW w \in Workers, NEW y, y = worker[w]
  PROVE  Good(w, y) /\ y \in WorkerType
BY DEF Inner, Served

LEMMA SameWorker ==
  ASSUME Inner, NEW w \in Workers, UNCHANGED worker
  PROVE  \A y : y = worker[w] => worker' = [worker EXCEPT ![w] = y]
BY DEF Inner, Served

LEMMA OpenSound ==
  ASSUME Inner, GapAccounted, setup' = setup, Open
  PROVE  Sound
<1>1. PICK w \in Workers : w = "targeted"
  BY DEF Workers
<1>2. PICK y : y = worker[w]
  OBVIOUS
<1>3. Good(w, y) /\ y \in WorkerType /\ y.pc = "idle"
  BY <1>1, <1>2, WorkerOf DEF Open
<1>4. Shape' /\ Follows /\ MovedAside /\ markers' = markers
  BY RecoverEffect DEF Inner, Open
<1>5. SpoolShrinks
  BY <1>4, Shrinks
<1>6. UNCHANGED <<drainIdle, cursor, exclusive, purgeJob, gc>>
  BY DEF Open
<1>7. PICK x : worker' = [worker EXCEPT ![w] = x] /\ Good(w, x) /\ x.fence = y.fence
  <2>1. CASE TailRepaired
    BY <1>2, <1>3, <2>1, SameWorker DEF Open
  <2>2. CASE ~TailRepaired
    <3>1. PICK ids \in setup.targets :
            worker' = [worker EXCEPT !["targeted"].pc = "opened", !["targeted"].selected = ids]
      BY <2>2 DEF Open
    <3>2. PICK x : x = [y EXCEPT !.pc = "opened", !.selected = ids]
      OBVIOUS
    <3>3. worker' = [worker EXCEPT ![w] = x]
      BY <1>1, <1>2, <3>1, <3>2 DEF Inner, Served
    <3>4. ids \in SUBSET Records
      BY PipelineAssumption DEF PipelineAssumption, Inner, Shape
    <3>5. Good(w, x) /\ x.fence = y.fence
      <4>1. y.pc \in Fresh /\ w # "page"
        BY <1>1, <1>3 DEF Fresh
      <4> QED BY <1>3, <3>2, <3>4, <4>1, FreshGood
    <3> QED BY <3>3, <3>5
  <2> QED BY <2>1, <2>2
<1>8. Inner'
  BY <1>5, <1>6, <1>7, PlainTask
<1> QED BY <1>2, <1>4, <1>5, <1>6, <1>7, <1>8, TaskPreserves

LEMMA SealPageSound ==
  ASSUME Inner, GapAccounted, setup' = setup, SealPage
  PROVE  Sound
<1>1. PICK w \in Workers : w = "page"
  BY DEF Workers
<1>2. PICK y : y = worker[w]
  OBVIOUS
<1>3. Good(w, y) /\ y.pc \in Fresh
  BY <1>1, <1>2, WorkerOf DEF SealPage, Fresh
<1>4. Shape' /\ Follows /\ Kept /\ markers' = markers
  BY SealEffect, NoEffect DEF Inner, SealPage
<1>5. SpoolShrinks
  BY <1>4, Shrinks
<1>6. UNCHANGED <<drainIdle, cursor, exclusive, purgeJob, gc>>
  BY DEF SealPage
<1>7. PICK x : x = [y EXCEPT !.pc = "sealed", !.selected = Records]
  OBVIOUS
<1>8. worker' = [worker EXCEPT ![w] = x]
  BY <1>1, <1>2, <1>7 DEF Inner, Served, SealPage
<1>9. Good(w, x) /\ x.fence = FALSE
  BY <1>3, <1>7, FreshGood
<1>10. Inner'
  BY <1>5, <1>6, <1>8, <1>9, PlainTask
<1> QED BY <1>4, <1>5, <1>6, <1>8, <1>9, <1>10, TaskWithdraws

LEMMA SealTargetedSound ==
  ASSUME Inner, GapAccounted, setup' = setup, SealTargeted
  PROVE  Sound
<1>1. PICK w \in Workers : w = "targeted"
  BY DEF Workers
<1>2. PICK y : y = worker[w]
  OBVIOUS
<1>3. Good(w, y) /\ y \in WorkerType /\ y.pc \in Fresh /\ y.selected \in SUBSET Records
  BY <1>1, <1>2, WorkerOf DEF SealTargeted, Fresh, WorkerType
<1>4. Shape' /\ Follows /\ Kept /\ markers' = markers
  BY SealEffect DEF Inner, SealTargeted
<1>5. SpoolShrinks
  BY <1>4, Shrinks
<1>6. UNCHANGED <<drainIdle, cursor, exclusive, purgeJob, gc>>
  BY DEF SealTargeted
<1>7. PICK x : x = [y EXCEPT !.pc = "sealed"]
  OBVIOUS
<1>8. worker' = [worker EXCEPT ![w] = x]
  BY <1>1, <1>2, <1>7 DEF Inner, Served, SealTargeted
<1>9. Good(w, x) /\ x.fence = FALSE
  <2>1. x = [y EXCEPT !.pc = "sealed", !.selected = y.selected]
    BY <1>3, <1>7 DEF WorkerType
  <2> QED BY <1>1, <1>3, <2>1, FreshGood
<1>10. Inner'
  BY <1>5, <1>6, <1>8, <1>9, PlainTask
<1> QED BY <1>4, <1>5, <1>6, <1>8, <1>9, <1>10, TaskWithdraws

LEMMA MinOfTwo ==
  ASSUME NEW a \in Nat, NEW b \in Nat
  PROVE  Min({a, b}) \in Nat /\ Min({a, b}) <= a /\ Min({a, b}) <= b
<1>1. PICK m : m = Min({a, b})
  OBVIOUS
<1>2. \E x \in {a, b} : \A y \in {a, b} : x <= y
  OBVIOUS
<1>3. m \in {a, b} /\ \A y \in {a, b} : m <= y
  BY <1>1, <1>2 DEF Min
<1> QED BY <1>1, <1>3

\* The page that starts at the cursor.
LEMMA PageClaimFacts ==
  ASSUME Inner, NEW c \in sealed, cursor = NoCursor \/ c.id = cursor.id, NEW q, q = PageClaim(c)
  PROVE  /\ q \in Claim /\ Linked("page", q)
         /\ Continuation(c) \in Cursor /\ \A x : x.next = Continuation(c) => Before(x, q)
<1>1. c \in Segment /\ c.id \in Nat /\ c.name \in Nat /\ c.frames \in Seq(Records)
      /\ 0 < c.id /\ c.id < nextId /\ c.id # active.id
  BY ShapeFacts DEF Inner, Segment, SegNames
<1>2. PICK o : o = Offset(c)
  OBVIOUS
<1>3. PICK e : e = PageEnd(c)
  OBVIOUS
<1>4. PICK n : n = Len(c.frames)
  OBVIOUS
<1>5. n \in Nat
  BY <1>1, <1>4, LenProperties
<1>6. o \in Nat /\ o <= n
  <2>1. CASE cursor = NoCursor
    BY <1>2, <1>5, <2>1 DEF Offset
  <2>2. CASE cursor # NoCursor
    BY <1>2, <1>4, <2>2 DEF Offset, Inner, Served, CursorGood, Cursor
  <2> QED BY <2>1, <2>2
<1>7. e \in Nat /\ o <= e /\ e <= n
  <2>1. PageBytes \in Nat /\ PageFrames \in Nat
    BY PipelineAssumption DEF PipelineAssumption
  <2>2. PICK b : b = PageBytes \div FrameBytes
    OBVIOUS
  <2>3. b \in Nat
    BY <2>1, <2>2 DEF FrameBytes
  <2>4. PICK r : r = FramesRead(c)
    OBVIOUS
  <2>5. r = Min({n - o, b}) /\ n - o \in Nat
    BY <1>2, <1>4, <1>5, <1>6, <2>2, <2>4 DEF FramesRead
  <2>6. r \in Nat /\ r <= n - o
    BY <2>3, <2>5, MinOfTwo
  <2>7. PICK m : m = Min({r, PageFrames})
    OBVIOUS
  <2>8. m \in Nat /\ m <= r
    BY <2>1, <2>6, <2>7, MinOfTwo
  <2>9. e = o + m
    BY <1>2, <1>3, <2>4, <2>7 DEF PageEnd
  <2> QED BY <1>5, <1>6, <2>6, <2>8, <2>9
<1>8. PICK s : s = SubSeq(c.frames, o + 1, e)
  OBVIOUS
<1>9. /\ s \in Seq(Records) /\ Len(s) = e - o
      /\ \A i \in 1 .. e - o : s[i] = c.frames[o + i]
  <2>1. \A i \in o + 1 .. e : i \in 1 .. n
    BY <1>5, <1>6, <1>7
  <2>2. \A i \in o + 1 .. e : c.frames[i] \in Records
    BY <1>1, <1>4, <2>1, ElementOfSeq
  <2>3. s \in Seq(Records)
    BY <1>6, <1>7, <1>8, <2>2, SubSeqProperties
  <2>4. Len(s) = e - o
    BY <1>1, <1>4, <1>6, <1>7, <1>8, SubSeqProperties
  <2>5. ASSUME NEW i \in 1 .. e - o
        PROVE  s[i] = c.frames[o + i]
    <3>1. s[i] = c.frames[o + 1 + i - 1]
      BY <1>1, <1>4, <1>6, <1>7, <1>8, SubSeqProperties
    <3>2. o + 1 + i - 1 = o + i
      BY <1>6
    <3> QED BY <3>1, <3>2
  <2> QED BY <2>3, <2>4, <2>5
<1>10. q.name = c.name /\ q.id = c.id /\ q.frames = s /\ q.complete = PageComplete(c)
       /\ q = [name |-> c.name, id |-> c.id, frames |-> s, complete |-> PageComplete(c)]
  BY <1>2, <1>3, <1>8 DEF PageClaim
<1>11. PageComplete(c) \in BOOLEAN /\ (PageComplete(c) => e = n)
  BY <1>3, <1>4 DEF PageComplete
<1>12. q \in Claim
  BY <1>1, <1>9, <1>10, <1>11 DEF Claim
<1>13. Off("page") = o
  BY <1>2 DEF Off, Offset
<1>14. Linked("page", q)
  <2>1. \A f \in sealed : f.id = q.id => f = c
    BY <1>10 DEF Inner, Shape
  <2> QED BY <1>1, <1>4, <1>5, <1>6, <1>7, <1>9, <1>10, <1>11, <1>13, <2>1 DEF Linked
<1>15. Continuation(c) = NoCursor \/ (Continuation(c).id = c.id /\ Continuation(c).offset = e)
  BY <1>3 DEF Continuation
<1>16. Continuation(c) \in Cursor
  BY <1>1, <1>3, <1>7 DEF Continuation, Cursor, NoCursor
<1>17. e = o + Len(s)
  BY <1>6, <1>7, <1>9
<1>18. \A x : x.next = Continuation(c) => Before(x, q)
  BY <1>10, <1>13, <1>15, <1>17 DEF Before
<1> QED BY <1>12, <1>14, <1>16, <1>18

LEMMA ClaimPageSound ==
  ASSUME Inner, GapAccounted, setup' = setup, ClaimPage
  PROVE  Sound
<1>1. PICK w \in Workers : w = "page"
  BY DEF Workers
<1>2. PICK y : y = worker[w]
  OBVIOUS
<1>3. Good(w, y) /\ y \in WorkerType /\ y.pc = "sealed" /\ y.fence = FALSE
  <2>1. Good(w, y) /\ y \in WorkerType /\ y.pc = "sealed"
    BY <1>1, <1>2, WorkerOf DEF ClaimPage
  <2> QED BY <2>1 DEF Good, InSegment, WorkerType
<1>4. UNCHANGED drainIdle
  BY DEF ClaimPage
<1>5. CASE Fails("page") /\ UNCHANGED spoolVars
  BY <1>1, <1>4, <1>5, FailsStep
<1>6. CASE /\ \E c \in CursorTarget : QuarantineSegment(c)
           /\ worker' = [worker EXCEPT !["page"] = IdleWorker]
           /\ cursor' = NoCursor /\ UNCHANGED <<exclusive, purgeJob, gc>>
  <2>1. Shape' /\ Follows /\ MovedAside /\ markers' = markers
    BY <1>6, QuarantineEffect DEF Inner
  <2>2. SpoolShrinks
    BY <2>1, Shrinks
  <2>3. exclusive # w
    BY <1>3 DEF Good, Excluding
  <2>4. Release(w)
    BY <1>6, <2>3 DEF Release
  <2>5. Inner'
    BY <1>1, <1>4, <1>6, <2>2, <2>4, IdleTask, NoCursorGood
  <2>6. PICK x : x = IdleWorker
    OBVIOUS
  <2>7. x.fence = worker[w].fence
    BY <1>2, <1>3, <2>6 DEF IdleWorker
  <2> QED BY <1>1, <1>4, <1>6, <2>1, <2>2, <2>5, <2>6, <2>7, TaskPreserves
<1>7. CASE \E c \in CursorTarget :
             /\ CursorValid /\ UNCHANGED <<spoolVars, cursor, exclusive, purgeJob, gc>>
             /\ worker' = [worker EXCEPT !["page"].pc = "segment",
                                         !["page"].todo = {PageClaim(c)},
                                         !["page"].next = Continuation(c)]
  <2>1. PICK c \in CursorTarget :
             /\ CursorValid /\ UNCHANGED <<spoolVars, cursor, exclusive, purgeJob, gc>>
             /\ worker' = [worker EXCEPT !["page"].pc = "segment",
                                         !["page"].todo = {PageClaim(c)},
                                         !["page"].next = Continuation(c)]
    BY <1>7
  <2>2. c \in sealed /\ (cursor = NoCursor \/ c.id = cursor.id)
    BY <2>1 DEF CursorTarget, CursorValid, Free
  <2>3. PICK q : q = PageClaim(c)
    OBVIOUS
  <2>4. PICK n : n = Continuation(c)
    OBVIOUS
  <2>5. q \in Claim /\ Linked(w, q) /\ n \in Cursor /\ \A x : x.next = n => Before(x, q)
    BY <1>1, <2>2, <2>3, <2>4, PageClaimFacts
  <2>6. PICK x : x = [y EXCEPT !.pc = "segment", !.todo = {q}, !.next = n]
    OBVIOUS
  <2>7. worker' = [worker EXCEPT ![w] = x]
    BY <1>1, <1>2, <2>1, <2>3, <2>4, <2>6 DEF Inner, Served
  <2>8. /\ x \in WorkerType /\ x.pc = "segment" /\ x.todo = {q} /\ x.next = n /\ x.fence = FALSE
        /\ x.selected = y.selected /\ x.discard = y.discard /\ x.view = y.view /\ x.terminal = y.terminal
    BY <1>3, <2>5, <2>6 DEF WorkerType, WorkerStates
  <2>9. x.discard = {} /\ (x.pc # "idle" => x.selected = Records)
    BY <1>1, <1>3, <2>8 DEF Good, Paging, Fresh
  <2>10. Paging(x)
    BY <2>5, <2>8, <2>9 DEF Paging, InSegment
  <2>11. Good(w, x)
    BY <1>3, <2>5, <2>8, <2>9, <2>10 DEF Good, InSegment, Fresh, Excluding
  <2>12. SpoolShrinks /\ Kept
    BY <2>1, StillShrinks
  <2>13. Inner'
    BY <1>4, <2>1, <2>7, <2>11, <2>12, PlainTask
  <2> QED BY <1>4, <2>1, <2>7, <2>8, <2>12, <2>13, TaskWithdraws
<1> QED BY <1>5, <1>6, <1>7 DEF ClaimPage

LEMMA ClaimAllSound ==
  ASSUME Inner, GapAccounted, setup' = setup, ClaimAll
  PROVE  Sound
<1>1. PICK w \in Workers : w = "targeted"
  BY DEF Workers
<1>2. PICK y : y = worker[w]
  OBVIOUS
<1>3. Good(w, y) /\ y \in WorkerType /\ y.pc = "sealed" /\ y.fence = FALSE
  <2>1. Good(w, y) /\ y \in WorkerType /\ y.pc = "sealed"
    BY <1>1, <1>2, WorkerOf DEF ClaimAll
  <2> QED BY <2>1 DEF Good, InSegment, WorkerType
<1>4. PICK T : T = {WholeClaim(c) : c \in Free("targeted")}
  OBVIOUS
<1>5. \A q \in T : q \in Claim /\ Linked(w, q)
  <2> TAKE q \in T
  <2>1. PICK c \in sealed : q = WholeClaim(c)
    BY <1>4 DEF Free
  <2>2. c \in Segment /\ c.id \in Nat /\ c.name \in Nat /\ c.frames \in Seq(Records)
        /\ 0 < c.id /\ c.id < nextId /\ c.id # active.id
    BY ShapeFacts DEF Inner, Segment, SegNames
  <2>3. q \in Claim /\ q.id = c.id /\ q.frames = c.frames
    BY <2>1, <2>2 DEF WholeClaim, Claim
  <2>4. \A f \in sealed : f.id = c.id => f = c
    BY DEF Inner, Shape
  <2>5. Off(w) = 0
    BY <1>1 DEF Off
  <2>6. Len(c.frames) \in Nat
    BY <2>2, LenProperties
  <2> QED BY <1>1, <2>2, <2>3, <2>4, <2>5, <2>6 DEF Linked
<1>6. PICK x : x = [y EXCEPT !.pc = "segment", !.todo = T]
  OBVIOUS
<1>7. worker' = [worker EXCEPT ![w] = x]
  BY <1>1, <1>2, <1>4, <1>6 DEF Inner, Served, ClaimAll
<1>8. /\ x \in WorkerType /\ x.pc = "segment" /\ x.todo = T /\ x.fence = FALSE
      /\ x.discard = y.discard /\ x.view = y.view /\ x.terminal = y.terminal
  BY <1>3, <1>5, <1>6 DEF WorkerType, WorkerStates
<1>9. Good(w, x)
  BY <1>1, <1>3, <1>5, <1>8 DEF Good, InSegment, Fresh, Excluding
<1>10. UNCHANGED <<spoolVars, drainIdle, cursor, exclusive, purgeJob, gc>>
  BY DEF ClaimAll
<1>11. SpoolShrinks /\ Kept
  BY <1>10, StillShrinks
<1>12. Inner'
  BY <1>7, <1>9, <1>10, <1>11, PlainTask
<1> QED BY <1>7, <1>8, <1>10, <1>11, <1>12, TaskWithdraws

-----------------------------------------------------------------------------
(* Draining a segment.                                                        *)

LEMMA StartSegmentSound ==
  ASSUME Inner, GapAccounted, setup' = setup, NEW w \in Workers, StartSegment(w)
  PROVE  Sound
<1>1. PICK y : y = worker[w]
  OBVIOUS
<1>2. Good(w, y) /\ y \in WorkerType /\ y.pc = "segment" /\ y.fence = FALSE
  <2>1. Good(w, y) /\ y \in WorkerType /\ y.pc = "segment"
    BY <1>1, WorkerOf DEF StartSegment
  <2> QED BY <2>1 DEF Good, InSegment, WorkerType
<1>3. PICK c \in y.todo :
        worker' = [worker EXCEPT ![w].pc = "frame", ![w].todo = @ \ {c}, ![w].cur = c,
                                 ![w].k = 1, ![w].view = Purged, ![w].consumed = 0,
                                 ![w].terminal = {}]
  BY <1>1 DEF StartSegment
<1>4. PICK T : T = y.todo \ {c}
  OBVIOUS
<1>5. PICK one \in Nat, zero \in Nat : one = 1 /\ zero = 0
  OBVIOUS
<1>6. PICK V : V = Purged
  OBVIOUS
<1>7. PICK x : x = [y EXCEPT !.pc = "frame", !.todo = T, !.cur = c, !.k = one, !.view = V,
                             !.consumed = zero, !.terminal = {}]
  OBVIOUS
<1>8. worker' = [worker EXCEPT ![w] = x]
  BY <1>1, <1>3, <1>4, <1>5, <1>6, <1>7 DEF Inner, Served
<1>10. c \in Claim /\ Linked(w, c) /\ T \subseteq y.todo /\ V \subseteq Repos
  BY <1>2, <1>4, <1>6, GoodFields DEF Good, Purged
<1>11. /\ x \in WorkerType /\ x.pc = "frame" /\ x.todo = T /\ x.cur = c /\ x.k = 1 /\ x.view = V
       /\ x.consumed = 0 /\ x.terminal = {} /\ x.fence = FALSE /\ x.discard = y.discard
       /\ x.selected = y.selected /\ x.next = y.next
  BY <1>2, <1>5, <1>7, <1>10 DEF WorkerType, WorkerStates
<1>12. Draining(w, x)
  <2>1. Len(c.frames) \in Nat
    BY <1>10, LenProperties DEF Claim
  <2> QED BY <1>10, <1>11, <2>1 DEF Draining
<1>13. w = "page" => Paging(x)
  <2> SUFFICES ASSUME w = "page"
               PROVE  Paging(x)
    OBVIOUS
  <2>1. Paging(y)
    BY <1>2 DEF Good
  <2>2. y.selected = Records /\ y.discard = {} /\ y.todo = {c} /\ Before(y, c)
    BY <1>2, <1>3, <2>1 DEF Paging
  <2>3. T = {} /\ Before(x, c)
    BY <1>4, <1>11, <2>2 DEF Before
  <2> QED BY <1>11, <2>2, <2>3 DEF Paging, InSegment, Excluding
<1>14. Good(w, x)
  BY <1>2, <1>6, <1>10, <1>11, <1>12, <1>13 DEF Good, InSegment, Fresh, Excluding
<1>15. UNCHANGED <<spoolVars, drainIdle, cursor, exclusive, purgeJob, gc>>
  BY DEF StartSegment
<1>16. SpoolShrinks /\ Kept
  BY <1>15, StillShrinks
<1>17. Inner'
  BY <1>8, <1>14, <1>15, <1>16, PlainTask
<1> QED BY <1>8, <1>11, <1>15, <1>16, <1>17, TaskWithdraws

\* The frame a task is at.
LEMMA FrameFacts ==
  ASSUME Inner, NEW w \in Workers, NEW y, y = worker[w], y.pc \in InSegment, y.k <= Len(y.cur.frames)
  PROVE  /\ Good(w, y) /\ y \in WorkerType /\ y.k \in 1 .. Len(y.cur.frames) /\ Frame(w) \in Records
         /\ y.cur \in Claim /\ Frame(w) = y.cur.frames[y.k] /\ Len(y.cur.frames) \in Nat
         /\ y.k \in Nat /\ y.consumed \in Nat /\ y.consumed <= y.k - 1
<1>1. Good(w, y) /\ y \in WorkerType /\ y.cur \in Claim /\ y.k \in Nat /\ y.consumed \in Nat
  BY WorkerOf, GoodFields
<1>2. Draining(w, y)
  BY <1>1 DEF Good
<1>3. y.k \in 1 .. Len(y.cur.frames) /\ y.consumed <= y.k - 1
  BY <1>1, <1>2 DEF Draining
<1>4. y.cur.frames \in Seq(Records)
  BY <1>1 DEF Claim
<1>5. Frame(w) = y.cur.frames[y.k] /\ Frame(w) \in Records
  BY <1>3, <1>4, ElementOfSeq DEF Frame
<1> QED BY <1>1, <1>3, <1>4, <1>5, LenProperties

LEMMA SkipFrameSound ==
  ASSUME Inner, GapAccounted, setup' = setup, NEW w \in Workers, SkipFrame(w)
  PROVE  Sound
<1>1. PICK y : y = worker[w]
  OBVIOUS
<1>2. y.pc = "frame" /\ y.k <= Len(y.cur.frames) /\ Frame(w) \notin y.selected
  BY <1>1 DEF SkipFrame, AtFrame, Selects
<1>3. /\ Good(w, y) /\ y \in WorkerType /\ y.k \in 1 .. Len(y.cur.frames) /\ Frame(w) \in Records
      /\ y.k \in Nat /\ y.consumed \in Nat /\ y.consumed <= y.k - 1 /\ Len(y.cur.frames) \in Nat
  BY <1>1, <1>2, FrameFacts DEF InSegment
<1>4. PICK n \in Nat : n = y.k + 1
  BY <1>3
<1>5. PICK x : x = [y EXCEPT !.k = n]
  OBVIOUS
<1>6. worker' = [worker EXCEPT ![w] = x]
  BY <1>1, <1>4, <1>5 DEF SkipFrame, Inner, Served
<1>7. /\ x \in WorkerType /\ x.pc = "frame" /\ x.todo = y.todo /\ x.cur = y.cur /\ x.k = n /\ x.view = y.view
      /\ x.consumed = y.consumed /\ x.terminal = y.terminal /\ x.fence = y.fence
      /\ x.discard = y.discard /\ x.live = y.live
  BY <1>2, <1>3, <1>4, <1>5 DEF WorkerType, WorkerStates
<1>8. w # "page"
  BY <1>2, <1>3 DEF Good, Paging
<1>9. Draining(w, x)
  BY <1>2, <1>3, <1>4, <1>7 DEF Draining, Good, InSegment
<1>10. Good(w, x)
  BY <1>2, <1>3, <1>7, <1>8, <1>9 DEF Good, InSegment, Fresh, Excluding
<1>11. UNCHANGED <<spoolVars, drainIdle, cursor, exclusive, purgeJob, gc>>
  BY DEF SkipFrame
<1>12. SpoolShrinks /\ Kept
  BY <1>11, StillShrinks
<1>13. Inner'
  BY <1>6, <1>10, <1>11, <1>12, PlainTask
<1>14. x.fence \in BOOLEAN /\ (x.fence => worker[w].fence)
  BY <1>1, <1>3, <1>7 DEF WorkerType
<1> QED BY <1>6, <1>11, <1>12, <1>13, <1>14, TaskWithdraws

\* The frame at k is consumed, and remembered when it is purged.
Advanced(y, m, n, S) == [y EXCEPT !.pc = "frame", !.k = m, !.consumed = n, !.terminal = S]

LEMMA AdvanceGood ==
  ASSUME NEW w \in Workers, NEW y, Good(w, y)', y.pc \in InSegment, y.k <= Len(y.cur.frames),
         NEW m \in Nat, NEW n \in Nat, m = y.k + 1, n = y.consumed + 1,
         NEW S, S \subseteq Records, \A r \in S : RepoOf[r] \in Purged',
         NEW f, f = y.cur.frames[y.k], Accounted(f)',
         NEW x, x = Advanced(y, m, n, S)
  PROVE  Good(w, x)' /\ x.fence = y.fence /\ x.fence \in BOOLEAN
<1>1. y \in WorkerType /\ y.k \in Nat /\ y.consumed \in Nat /\ y.cur.frames \in Seq(Records)
  <2>1. y \in WorkerType
    BY DEF Good, WorkerType, Claim, Cursor, WorkerStates
  <2> QED BY <2>1 DEF WorkerType, Claim
<1>2. /\ x \in WorkerType /\ x.pc = "frame" /\ x.todo = y.todo /\ x.cur = y.cur /\ x.k = m /\ x.view = y.view
      /\ x.consumed = n /\ x.terminal = S /\ x.fence = y.fence /\ x.selected = y.selected
      /\ x.discard = y.discard /\ x.live = y.live /\ x.next = y.next /\ x.fence \in BOOLEAN
  BY <1>1 DEF WorkerType, WorkerStates, Advanced
<1>3. Len(y.cur.frames) \in Nat
  BY <1>1, LenProperties
<1>4. Draining(w, y)'
  BY DEF Good
<1>5. Draining(w, x)'
  <2>1. x.k \in 1 .. Len(x.cur.frames) + 1 /\ x.consumed <= x.k - 1 /\ Linked(w, x.cur)'
    BY <1>1, <1>2, <1>3, <1>4 DEF Draining
  <2>2. ASSUME x.consumed = x.k - 1, NEW i \in 1 .. x.k - 1
        PROVE  Accounted(x.cur.frames[i])'
    <3>1. y.consumed = y.k - 1
      <4>1. n = m - 1
        BY <1>2, <2>2
      <4> QED BY <1>1, <4>1
    <3>2. CASE i = y.k
      <4>1. x.cur.frames[i] = f
        BY <1>2, <3>2
      <4> QED BY <4>1
    <3>3. CASE i # y.k
      <4>1. i \in 1 .. y.k - 1
        BY <1>1, <1>2, <2>2, <3>3
      <4> QED BY <1>2, <1>4, <3>1, <4>1 DEF Draining
    <3> QED BY <3>2, <3>3
  <2> QED BY <2>1, <2>2 DEF Draining
<1>6. w = "page" => Paging(x)'
  <2> SUFFICES ASSUME w = "page"
               PROVE  Paging(x)'
    OBVIOUS
  <2>1. Paging(y)'
    BY DEF Good
  <2>2. Before(y, y.cur)' => Before(x, x.cur)'
    BY <1>2 DEF Before
  <2>3. x.todo = {} /\ x.discard = {} /\ x.consumed = x.k - 1 /\ Before(x, x.cur)' /\ x.selected = Records
    BY <1>1, <1>2, <2>1, <2>2 DEF Paging, InSegment
  <2> QED BY <1>2, <2>3 DEF Paging, InSegment, Excluding
<1>7. (exclusive' = w) = (x.pc \in Excluding)
  BY <1>2 DEF Good, Excluding, InSegment
<1>8. x.fence => exclusive' = "none"
  BY <1>2 DEF Good
<1>9. x.view \subseteq Purged'
  BY <1>2 DEF Good
<1>10. (\A c \in x.todo : Linked(w, c))' /\ (\A d \in x.discard : Discarded(w, d))'
  BY <1>2 DEF Good
<1> QED BY <1>2, <1>5, <1>6, <1>7, <1>8, <1>9, <1>10 DEF Good, InSegment, Fresh

LEMMA TerminalFrameSound ==
  ASSUME Inner, GapAccounted, setup' = setup, NEW w \in Workers, TerminalFrame(w)
  PROVE  Sound
<1>1. PICK y : y = worker[w]
  OBVIOUS
<1>2. y.pc = "frame" /\ y.k <= Len(y.cur.frames) /\ RepoOf[Frame(w)] \in y.view /\ y.pc \in InSegment
  BY <1>1 DEF TerminalFrame, AtFrame, IsPurged, InSegment
<1>3. /\ Good(w, y) /\ y \in WorkerType /\ Frame(w) \in Records /\ Frame(w) = y.cur.frames[y.k]
      /\ y.k \in Nat /\ y.consumed \in Nat
  BY <1>1, <1>2, FrameFacts
<1>4. PICK m \in Nat, n \in Nat : m = y.k + 1 /\ n = y.consumed + 1
  BY <1>3
<1>5. PICK S : S = y.terminal \cup {Frame(w)}
  OBVIOUS
<1>6. PICK x : x = Advanced(y, m, n, S)
  OBVIOUS
<1>7. x = [y EXCEPT !.k = m, !.consumed = n, !.terminal = S]
  BY <1>2, <1>3, <1>6 DEF WorkerType, Advanced
<1>8. worker' = [worker EXCEPT ![w] = x]
  BY <1>1, <1>4, <1>5, <1>7 DEF TerminalFrame, Inner, Served
<1>9. UNCHANGED <<spoolVars, drainIdle, cursor, exclusive, purgeJob, gc>>
  BY DEF TerminalFrame
<1>10. SpoolShrinks /\ Kept
  BY <1>9, StillShrinks
<1>11. Grows /\ RowsSame
  BY <1>9, RowsStay DEF drainIdle
<1>12. Good(w, y)'
  <2>1. Leaves(w, y)
    BY <1>3, <1>9 DEF Leaves, Good
  <2> QED BY <1>3, <1>10, <1>11, <2>1, GoodStays DEF Inner, SpoolShrinks
<1>13. Good(w, x)' /\ x.fence = y.fence /\ x.fence \in BOOLEAN
  <2>1. S \subseteq Records /\ \A r \in S : RepoOf[r] \in Purged'
    BY <1>2, <1>3, <1>5, <1>11 DEF Good, WorkerType, RowsSame
  <2>2. PICK f : f = y.cur.frames[y.k]
    OBVIOUS
  <2>3. Accounted(f)'
    BY <1>3, <1>5, <2>1, <2>2 DEF Accounted
  <2> QED BY <1>2, <1>4, <1>6, <1>12, <2>1, <2>2, <2>3, AdvanceGood
<1>14. cursor' \in Cursor /\ (\A z \in {cursor} : CursorGood(z))'
  BY <1>9, <1>10, <1>11, CursorKept DEF Inner, SpoolShrinks
<1>15. Inner'
  BY <1>8, <1>9, <1>10, <1>13, <1>14, QuietTask DEF Locks
<1> QED BY <1>1, <1>8, <1>9, <1>10, <1>13, <1>15, TaskWithdraws

LEMMA VerifyFrameSound ==
  ASSUME Inner, GapAccounted, setup' = setup, NEW w \in Workers, VerifyFrame(w)
  PROVE  Sound
<1>1. PICK y : y = worker[w]
  OBVIOUS
<1>2. y.pc = "frame" /\ y.k <= Len(y.cur.frames) /\ y.pc \in InSegment
  BY <1>1 DEF VerifyFrame, AtFrame, InSegment
<1>3. /\ Good(w, y) /\ y \in WorkerType /\ Frame(w) \in Records /\ Frame(w) = y.cur.frames[y.k]
  BY <1>1, <1>2, FrameFacts
<1>4. UNCHANGED <<spoolVars, drainIdle>>
  BY DEF VerifyFrame
<1>5. CASE Fails(w)
  BY <1>4, <1>5, FailsStep
<1>6. CASE /\ Verifiable(w) /\ UNCHANGED <<cursor, exclusive, purgeJob, gc>>
           /\ worker' = [worker EXCEPT ![w].pc = "verified", ![w].fence = TRUE]
  <2>1. PICK x : x = [y EXCEPT !.pc = "verified", !.fence = TRUE]
    OBVIOUS
  <2>2. worker' = [worker EXCEPT ![w] = x]
    BY <1>1, <1>6, <2>1 DEF Inner, Served
  <2>3. /\ x \in WorkerType /\ x.pc = "verified" /\ x.todo = y.todo /\ x.cur = y.cur /\ x.k = y.k
        /\ x.view = y.view /\ x.consumed = y.consumed /\ x.terminal = y.terminal /\ x.fence = TRUE
        /\ x.selected = y.selected /\ x.discard = y.discard /\ x.live = y.live /\ x.next = y.next
    BY <1>3, <2>1 DEF WorkerType, WorkerStates
  <2>4. exclusive = "none" /\ Digest[x.cur.frames[x.k]] \in cas
    BY <1>1, <1>3, <1>6, <2>3 DEF Verifiable, CanShare, Good
  <2>5. Draining(w, x)
    BY <1>2, <1>3, <2>3 DEF Draining, Good
  <2>6. w = "page" => Paging(x)
    <3>1. Before(y, y.cur) => Before(x, x.cur)
      BY <2>3 DEF Before
    <3> QED BY <1>2, <1>3, <2>3, <3>1 DEF Good, Paging, InSegment, Excluding
  <2>7. Good(w, x)
    BY <1>2, <1>3, <2>3, <2>4, <2>5, <2>6 DEF Good, InSegment, Fresh, Excluding
  <2>8. SpoolShrinks /\ Kept
    BY <1>4, StillShrinks
  <2>9. Inner'
    BY <1>4, <1>6, <2>2, <2>7, <2>8, PlainTask
  <2>10. UNCHANGED <<cas, hookPc, hookFence, scanSlot, journal, gaps, purge, spent>>
    BY <1>4 DEF drainIdle
  <2>11. Sharers' = Sharers \cup {w} /\ Publishers' = Publishers
    BY <2>2, <2>3, <2>10, TaskFence
  <2>12. RowsSame /\ BlobsSame
    BY <2>10 DEF RowsSame, BlobsSame, Committed, Purged
  <2>13. LifecycleStep
    BY <1>6, <2>4, <2>8, <2>11, <2>12, LShare DEF FilesSame
  <2>14. Honest
    BY <1>4, <2>10, QuietHonest DEF spoolVars
  <2> QED BY <2>9, <2>13, <2>14 DEF Sound
<1> QED BY <1>5, <1>6 DEF VerifyFrame

\* A frame that the journal has now is consumed.
LEMMA ConsumeStep ==
  ASSUME Inner, setup' = setup, UNCHANGED spoolVars, Grows, Recorded', NEW w \in Workers, ActorFree,
         UNCHANGED <<hookPc, hookFence, scanSlot, cas, purge, spent, cursor, exclusive, purgeJob, gc>>,
         worker[w].pc = "verified", Frame(w) \in Committed',
         worker' = [worker EXCEPT ![w].pc = "frame", ![w].k = @ + 1, ![w].consumed = @ + 1]
  PROVE  Inner' /\ Sharers' = Sharers /\ Publishers' = Publishers
<1>1. PICK y : y = worker[w]
  OBVIOUS
<1>2. y.pc \in InSegment /\ Good(w, y) /\ y \in WorkerType /\ y.k <= Len(y.cur.frames) /\ y.pc = "verified"
  BY <1>1, WorkerOf DEF Good, InSegment
<1>3. /\ Frame(w) \in Records /\ Frame(w) = y.cur.frames[y.k]
      /\ y.k \in Nat /\ y.consumed \in Nat
  BY <1>1, <1>2, FrameFacts
<1>4. PICK m \in Nat, n \in Nat : m = y.k + 1 /\ n = y.consumed + 1
  BY <1>3
<1>5. PICK S : S = y.terminal
  OBVIOUS
<1>6. PICK x : x = Advanced(y, m, n, S)
  OBVIOUS
<1>7. x = [y EXCEPT !.pc = "frame", !.k = m, !.consumed = n]
  BY <1>2, <1>5, <1>6 DEF WorkerType, Advanced
<1>8. worker' = [worker EXCEPT ![w] = x]
  BY <1>1, <1>4, <1>7 DEF Inner, Served
<1>9. SpoolShrinks /\ Kept
  BY StillShrinks
<1>10. Good(w, y)'
  <2>1. Leaves(w, y)
    BY <1>2 DEF Leaves, Good
  <2> QED BY <1>2, <1>9, <2>1, GoodStays DEF Inner, SpoolShrinks
<1>11. Good(w, x)' /\ x.fence = y.fence /\ x.fence \in BOOLEAN
  <2>1. S \subseteq Records /\ \A r \in S : RepoOf[r] \in Purged'
    <3>1. \A r \in y.terminal : RepoOf[r] \in Purged'
      BY <1>10 DEF Good
    <3> QED BY <1>2, <1>5, <3>1 DEF WorkerType
  <2>2. PICK f : f = y.cur.frames[y.k]
    OBVIOUS
  <2>3. Accounted(f)'
    BY <1>3, <2>2 DEF Accounted
  <2> QED BY <1>2, <1>4, <1>6, <1>10, <2>1, <2>2, <2>3, AdvanceGood
<1>12. cursor' \in Cursor /\ (\A z \in {cursor} : CursorGood(z))'
  BY <1>9, CursorKept DEF Inner, SpoolShrinks
<1>13. gc.pc \notin {"sweeping", "deleting"} /\ GcSame
  BY DEF ActorFree, GcSame
<1>14. Inner'
  BY <1>8, <1>9, <1>11, <1>12, <1>13, TaskStep DEF Locks
<1> QED BY <1>1, <1>8, <1>11, <1>14, TaskFence

LEMMA CommitFrameSound ==
  ASSUME Inner, GapAccounted, setup' = setup, NEW w \in Workers, CommitFrame(w)
  PROVE  Sound
<1>1. PICK y : y = worker[w]
  OBVIOUS
<1>2. y.pc = "verified" /\ ActorFree
  BY <1>1 DEF CommitFrame
<1>3. Good(w, y) /\ y.fence /\ exclusive = "none" /\ y.k <= Len(y.cur.frames)
      /\ Digest[y.cur.frames[y.k]] \in cas /\ y.pc \in InSegment
  BY <1>1, <1>2, WorkerOf DEF Good, InSegment
<1>4. PICK r : r = Frame(w)
  OBVIOUS
<1>5. r \in Records /\ Digest[r] \in cas
  BY <1>1, <1>3, <1>4, FrameFacts
<1>6. UNCHANGED <<spoolVars, cas, hookPc, hookFence, scanSlot, gaps, purge, spent>>
  BY DEF CommitFrame
<1>7. SpoolShrinks /\ Kept
  BY <1>6, StillShrinks
<1>8. Honest
  BY <1>6, QuietHonest DEF spoolVars
<1>9. CASE Fails(w) /\ UNCHANGED journal
  <2>1. UNCHANGED <<spoolVars, drainIdle>>
    BY <1>6, <1>9 DEF drainIdle
  <2> QED BY <1>9, <2>1, FailsStep
<1>10. CASE /\ Replayed(r) /\ UNCHANGED <<journal, cursor, exclusive, purgeJob, gc>>
            /\ worker' = [worker EXCEPT ![w].pc = "frame", ![w].k = @ + 1, ![w].consumed = @ + 1]
  <2>1. Grows /\ RowsSame
    BY <1>6, <1>10, RowsStay
  <2>2. Recorded'
    BY <1>6, <1>10, RecordedStays DEF Inner
  <2>3. r \in Committed'
    BY <1>10, <2>1 DEF Replayed, RowsSame
  <2>4. Inner' /\ Sharers' = Sharers /\ Publishers' = Publishers
    BY <1>1, <1>2, <1>4, <1>6, <1>10, <2>1, <2>2, <2>3, ConsumeStep
  <2>5. LifecycleStep
    <3>1. Publishers \subseteq Sharers
      BY DEF Publishers, Sharers, Inner, Hooked, Publishing
    <3> QED BY <1>6, <1>7, <1>10, <2>1, <2>4, <3>1, LWithdraw DEF FilesSame, BlobsSame
  <2> QED BY <1>8, <2>4, <2>5 DEF Sound
<1>11. CASE /\ ~Replayed(r) /\ ~IsPurged(r, Purged) /\ journal' = Append(journal, r)
            /\ UNCHANGED <<cursor, exclusive, purgeJob, gc>>
            /\ worker' = [worker EXCEPT ![w].pc = "frame", ![w].k = @ + 1, ![w].consumed = @ + 1]
  <2>1. journal \in Seq(Records)
    BY DEF Inner, Recorded
  <2>2. Committed' = Committed \cup {r} /\ journal' \in Seq(Records)
    BY <1>5, <1>11, <2>1, RecordsOfAppend DEF Committed
  <2>3. Purged' = Purged
    BY <1>6 DEF Purged
  <2>4. Grows
    BY <1>3, <1>6, <2>2, <2>3 DEF Grows
  <2>5. Recorded'
    <3>1. CommittedOnce'
      <4>1. /\ Len(journal') = Len(journal) + 1 /\ Len(journal) \in Nat /\ journal'[Len(journal) + 1] = r
            /\ \A i \in 1 .. Len(journal) : journal'[i] = journal[i]
        BY <1>5, <1>11, <2>1, AppendProperties, LenProperties
      <4>2. \A i \in 1 .. Len(journal) : journal[i] # r
        BY <1>11 DEF Replayed, Committed, RecordsOf
      <4> QED BY <4>1, <4>2 DEF CommittedOnce, Inner, Recorded
    <3> QED BY <1>6, <2>2, <3>1 DEF Inner, Recorded
  <2>6. Inner' /\ Sharers' = Sharers /\ Publishers' = Publishers
    BY <1>1, <1>2, <1>4, <1>6, <1>11, <2>2, <2>4, <2>5, ConsumeStep
  <2>7. LifecycleStep
    BY <1>1, <1>3, <1>5, <1>6, <1>7, <1>11, <2>2, <2>3, <2>6, LCommit
       DEF FilesSame, BlobsSame, FenceSame, IsPurged
  <2> QED BY <1>8, <2>6, <2>7 DEF Sound
<1> QED BY <1>4, <1>9, <1>10, <1>11 DEF CommitFrame

-----------------------------------------------------------------------------
(* The end of a segment.                                                      *)

\* When every frame of a claim is accounted for, so is every frame of its file up to the
\* claim's end.
LEMMA ClaimDone ==
  ASSUME Inner, NEW w \in Workers, NEW c \in Claim, Linked(w, c),
         \A i \in 1 .. Len(c.frames) : Accounted(c.frames[i]),
         NEW f \in sealed, f.id = c.id, NEW i \in 1 .. Off(w) + Len(c.frames)
  PROVE  Accounted(f.frames[i])
<1>1. Off(w) \in Nat /\ Len(c.frames) \in Nat
  <2>1. cursor.offset \in Nat
    BY DEF Inner, Served, Cursor
  <2> QED BY <2>1, LenProperties DEF Off, Claim
<1>2. CASE i <= Off(w)
  <2>1. w = "page" /\ cursor # NoCursor /\ Off(w) = cursor.offset
    BY <1>1, <1>2 DEF Off
  <2>2. f.id = cursor.id /\ CursorGood(cursor)
    BY <2>1 DEF Linked, Inner, Served
  <2> QED BY <1>1, <1>2, <2>1, <2>2 DEF CursorGood
<1>3. CASE i > Off(w)
  <2>1. PICK j : j = i - Off(w)
    OBVIOUS
  <2>2. j \in 1 .. Len(c.frames) /\ i = Off(w) + j
    BY <1>1, <1>3, <2>1
  <2>3. c.frames[j] = f.frames[i]
    BY <2>2 DEF Linked
  <2> QED BY <2>2, <2>3
<1> QED BY <1>1, <1>2, <1>3

LEMMA SegmentFacts ==
  ASSUME Inner, NEW w \in Workers, NEW y, y = worker[w], SegmentDone(w)
  PROVE  /\ Good(w, y) /\ y \in WorkerType /\ y.cur \in Claim /\ Linked(w, y.cur) /\ y.pc = "frame"
         /\ y.consumed = Len(y.cur.frames) => \A i \in 1 .. Len(y.cur.frames) : Accounted(y.cur.frames[i])
         /\ w = "page" => CursorGood(y.next)
<1>1. Good(w, y) /\ y \in WorkerType /\ y.pc = "frame" /\ y.cur \in Claim /\ y.next \in Cursor
      /\ y.k \in Nat /\ y.consumed \in Nat /\ y.k > Len(y.cur.frames) /\ y.pc \in InSegment
  BY WorkerOf, GoodFields DEF SegmentDone, InSegment
<1>2. Len(y.cur.frames) \in Nat
  BY <1>1, LenProperties DEF Claim
<1>3. Draining(w, y)
  BY <1>1 DEF Good
<1>4. y.k = Len(y.cur.frames) + 1 /\ Linked(w, y.cur)
  BY <1>1, <1>2, <1>3 DEF Draining
<1>5. ASSUME y.consumed = Len(y.cur.frames), NEW i \in 1 .. Len(y.cur.frames)
      PROVE  Accounted(y.cur.frames[i])
  <2>1. y.consumed = y.k - 1 /\ i \in 1 .. y.k - 1
    BY <1>2, <1>4, <1>5
  <2> QED BY <1>3, <2>1 DEF Draining
<1>6. w = "page" => CursorGood(y.next)
  <2> SUFFICES ASSUME w = "page", y.next # NoCursor
               PROVE  CursorGood(y.next)
    BY DEF CursorGood
  <2>1. y.consumed = y.k - 1 /\ Before(y, y.cur)
    BY <1>1 DEF Good, Paging
  <2>2. y.consumed = Len(y.cur.frames)
    BY <1>2, <1>4, <2>1
  <2>3. y.next.id = y.cur.id /\ y.next.offset = Off(w) + Len(y.cur.frames)
    BY <2>1 DEF Before
  <2>4. 0 < y.cur.id /\ y.cur.id < nextId /\ y.cur.id # active.id
    BY <1>4 DEF Linked
  <2>5. ASSUME NEW f \in sealed, f.id = y.next.id
        PROVE  y.next.offset <= Len(f.frames) /\ \A i \in 1 .. y.next.offset : Accounted(f.frames[i])
    <3>1. y.next.offset <= Len(f.frames)
      BY <1>4, <2>3, <2>5 DEF Linked
    <3>2. \A i \in 1 .. Len(y.cur.frames) : Accounted(y.cur.frames[i])
      BY <1>5, <2>2
    <3>3. PICK c \in Claim : c = y.cur
      BY <1>1
    <3>4. \A i \in 1 .. Off(w) + Len(c.frames) : Accounted(f.frames[i])
      BY <1>4, <2>3, <2>5, <3>2, <3>3, ClaimDone
    <3> QED BY <2>3, <3>1, <3>3, <3>4
  <2> QED BY <2>3, <2>4, <2>5 DEF CursorGood
<1> QED BY <1>1, <1>4, <1>5, <1>6

NextOf(y, D) ==
  [y EXCEPT !.pc = "segment", !.cur = NoClaim, !.fence = FALSE, !.terminal = {}, !.discard = D]

LEMMA NextGood ==
  ASSUME Inner, NEW w \in Workers, NEW y, y = worker[w], SegmentDone(w),
         NEW D, D \subseteq [claim : Claim, terminal : SUBSET Records], \A d \in D : Discarded(w, d),
         NEW x, x = NextOf(y, D)
  PROVE  Good(w, x) /\ x.fence = FALSE
<1>1. Good(w, y) /\ y \in WorkerType /\ y.pc = "frame" /\ (w = "page" => CursorGood(y.next))
  BY SegmentFacts
<1>2. NoClaim \in Claim
  BY EmptySeq DEF NoClaim, Claim
<1>3. /\ x \in WorkerType /\ x.pc = "segment" /\ x.todo = y.todo /\ x.view = y.view
      /\ x.terminal = {} /\ x.fence = FALSE /\ x.selected = y.selected /\ x.discard = D /\ x.next = y.next
  BY <1>1, <1>2 DEF WorkerType, WorkerStates, NextOf
<1>4. w = "page" => Paging(x)
  <2> SUFFICES ASSUME w = "page"
               PROVE  Paging(x)
    OBVIOUS
  <2>1. y.todo = {} /\ y.selected = Records
    BY <1>1 DEF Good, Paging, InSegment
  <2> QED BY <1>1, <1>3, <2>1 DEF Paging, InSegment
<1> QED BY <1>1, <1>3, <1>4 DEF Good, InSegment, Fresh, Excluding

LEMMA AcknowledgedAccounted ==
  ASSUME Inner, NEW w \in Workers, NEW c \in Claim, Linked(w, c), c.complete,
         \A i \in 1 .. Len(c.frames) : Accounted(c.frames[i]), Unlinked(c.id)
  PROVE  \E S \in SUBSET Records : /\ S \subseteq MainRecords /\ MainRecords' = MainRecords \ S
                                   /\ \A r \in S : Accounted(r)
<1>1. PICK S \in SUBSET MainRecords :
        /\ MainRecords' = MainRecords \ S
        /\ \A r \in S : \E f \in sealed : f.id = c.id /\ r \in RecordsOf(f.frames)
  BY DEF Unlinked
<1>2. ASSUME NEW r \in S
      PROVE  Accounted(r)
  <2>1. PICK f \in sealed : f.id = c.id /\ r \in RecordsOf(f.frames)
    BY <1>1
  <2>2. PICK i \in 1 .. Len(f.frames) : r = f.frames[i]
    BY <2>1 DEF RecordsOf
  <2>3. Len(f.frames) = Off(w) + Len(c.frames)
    BY <2>1 DEF Linked
  <2> QED BY <2>1, <2>2, <2>3, ClaimDone
<1> QED BY <1>1, <1>2, ShapeFacts DEF Inner

LEMMA AckSegmentSound ==
  ASSUME Inner, GapAccounted, setup' = setup, NEW w \in Workers, AckSegment(w)
  PROVE  Sound
<1>1. PICK y : y = worker[w]
  OBVIOUS
<1>2. /\ Good(w, y) /\ y \in WorkerType /\ y.cur \in Claim /\ Linked(w, y.cur) /\ y.pc = "frame"
      /\ y.cur.complete /\ y.consumed = Len(y.cur.frames)
      /\ \A i \in 1 .. Len(y.cur.frames) : Accounted(y.cur.frames[i])
  BY <1>1, SegmentFacts DEF AckSegment, Acknowledgeable
<1>3. PICK c \in Claim : c = y.cur
  BY <1>2
<1>4. UNCHANGED <<drainIdle, cursor, exclusive, purgeJob, gc>> /\ AcknowledgeSegment(c)
  BY <1>1, <1>3 DEF AckSegment
<1>5. Shape' /\ Follows /\ markers' = markers /\ QuarantinedRecords' = QuarantinedRecords /\ Unlinked(c.id)
  BY <1>4, AcknowledgeEffect DEF Inner
<1>6. SpoolShrinks
  BY <1>5, Shrinks
<1>7. PICK D : D = y.discard
  OBVIOUS
<1>8. PICK x : x = NextOf(y, D)
  OBVIOUS
<1>9. worker' = [worker EXCEPT ![w] = x]
  <2>1. x = [y EXCEPT !.pc = "segment", !.cur = NoClaim, !.fence = FALSE, !.terminal = {}]
    BY <1>2, <1>7, <1>8 DEF NextOf, WorkerType
  <2> QED BY <1>1, <2>1 DEF AckSegment, NextSegment, Inner, Served
<1>10. Good(w, x) /\ x.fence = FALSE
  <2>1. D \subseteq [claim : Claim, terminal : SUBSET Records] /\ \A d \in D : Discarded(w, d)
    BY <1>2, <1>7 DEF Good, WorkerType
  <2> QED BY <1>1, <1>8, <2>1, NextGood DEF AckSegment
<1>11. Inner'
  BY <1>4, <1>6, <1>9, <1>10, PlainTask
<1>12. UNCHANGED <<cas, hookPc, hookFence, scanSlot, journal, gaps, purge, spent>>
  BY <1>4 DEF drainIdle
<1>13. Publishers' = Publishers /\ Sharers' = Sharers \ {w}
  BY <1>9, <1>10, <1>12, TaskFence
<1>14. RowsSame /\ BlobsSame
  BY <1>12 DEF RowsSame, BlobsSame, Committed, Purged
<1>15. PICK S \in SUBSET Records : /\ S \subseteq MainRecords /\ MainRecords' = MainRecords \ S
                                   /\ \A r \in S : Accounted(r)
  BY <1>2, <1>3, <1>5, AcknowledgedAccounted
<1>16. LifecycleStep
  BY <1>4, <1>5, <1>13, <1>14, <1>15, LAcknowledge
<1>17. Honest
  BY <1>5, <1>12, QuietHonest
<1> QED BY <1>11, <1>16, <1>17 DEF Sound

LEMMA AckFailsSound ==
  ASSUME Inner, GapAccounted, setup' = setup, NEW w \in Workers, AckFails(w)
  PROVE  Sound
BY FailsStep, AbandonStep DEF AckFails

LEMMA EndSegmentSound ==
  ASSUME Inner, GapAccounted, setup' = setup, NEW w \in Workers, EndSegment(w)
  PROVE  Sound
<1>1. PICK y : y = worker[w]
  OBVIOUS
<1>2. /\ Good(w, y) /\ y \in WorkerType /\ y.cur \in Claim /\ Linked(w, y.cur) /\ y.pc = "frame"
      /\ y.consumed = Len(y.cur.frames) => \A i \in 1 .. Len(y.cur.frames) : Accounted(y.cur.frames[i])
  BY <1>1, SegmentFacts DEF EndSegment
<1>3. UNCHANGED <<spoolVars, drainIdle, cursor, exclusive, purgeJob, gc>>
  BY DEF EndSegment
<1>4. PICK D : D = IF Acknowledgeable(w) THEN y.discard \cup {[claim |-> y.cur, terminal |-> y.terminal]}
                   ELSE y.discard
  OBVIOUS
<1>5. PICK x : x = NextOf(y, D)
  OBVIOUS
<1>6. worker' = [worker EXCEPT ![w] = x]
  <2>1. CASE Acknowledgeable(w)
    BY <1>1, <1>4, <1>5, <2>1 DEF EndSegment, NextOf, Inner, Served
  <2>2. CASE ~Acknowledgeable(w)
    <3>1. x = [y EXCEPT !.pc = "segment", !.cur = NoClaim, !.fence = FALSE, !.terminal = {}]
      BY <1>2, <1>4, <1>5, <2>2 DEF NextOf, WorkerType
    <3> QED BY <1>1, <2>2, <3>1 DEF EndSegment, NextSegment, Inner, Served
  <2> QED BY <2>1, <2>2
<1>7. Good(w, x) /\ x.fence = FALSE
  <2>1. y.discard \subseteq [claim : Claim, terminal : SUBSET Records] /\ \A d \in y.discard : Discarded(w, d)
    BY <1>2 DEF Good, WorkerType
  <2>2. ASSUME Acknowledgeable(w)
        PROVE  \A d : d = [claim |-> y.cur, terminal |-> y.terminal] =>
                 d \in [claim : Claim, terminal : SUBSET Records] /\ Discarded(w, d)
    <3>1. y.cur.complete /\ y.consumed = Len(y.cur.frames)
      BY <1>1, <2>2 DEF Acknowledgeable
    <3>2. y.terminal \subseteq Records /\ \A r \in y.terminal : RepoOf[r] \in Purged
      BY <1>2 DEF Good, WorkerType
    <3> QED BY <1>2, <3>1, <3>2 DEF Discarded
  <2>3. D \subseteq [claim : Claim, terminal : SUBSET Records] /\ \A d \in D : Discarded(w, d)
    BY <1>4, <2>1, <2>2
  <2> QED BY <1>1, <1>5, <2>3, NextGood DEF EndSegment
<1>8. SpoolShrinks /\ Kept
  BY <1>3, StillShrinks
<1>9. Inner'
  BY <1>3, <1>6, <1>7, <1>8, PlainTask
<1> QED BY <1>3, <1>6, <1>7, <1>8, <1>9, TaskWithdraws

LEMMA FinishStep ==
  ASSUME Inner, GapAccounted, setup' = setup, NEW w \in Workers, Finish(w),
         \A x : w = "page" /\ x = worker[w].next => CursorGood(x),
         UNCHANGED <<spoolVars, drainIdle, purgeJob, gc>>
  PROVE  Sound
<1>1. Grows
  BY RowsStay DEF drainIdle
<1>2. SpoolShrinks
  BY StillShrinks
<1>3. cursor' \in Cursor /\ (\A y \in {cursor} : CursorGood(y))'
  <2>1. CASE w # "page"
    BY <1>1, <1>2, <2>1, CursorKept DEF Inner, SpoolShrinks, Finish
  <2>2. CASE w = "page"
    <3>1. PICK x : x = worker[w].next
      OBVIOUS
    <3>2. x \in Cursor /\ CursorGood(x)
      BY <2>2, <3>1 DEF Inner, Served, WorkerType
    <3>3. CursorGood(x)' /\ cursor' = x
      BY <1>1, <1>2, <2>2, <3>1, <3>2, CursorStays DEF Inner, SpoolShrinks, Finish
    <3> QED BY <3>2, <3>3
  <2> QED BY <2>1, <2>2
<1> QED BY <1>3, AbandonSound DEF Finish

LEMMA EndDrainSound ==
  ASSUME Inner, GapAccounted, setup' = setup, NEW w \in Workers, EndDrain(w)
  PROVE  Sound
<1>1. PICK y : y = worker[w]
  OBVIOUS
<1>2. Good(w, y) /\ y.pc = "segment" /\ y.todo = {}
  BY <1>1, WorkerOf DEF EndDrain
<1>3. w = "page" => CursorGood(y.next)
  BY <1>2 DEF Good, Paging
<1> QED BY <1>1, <1>3, FinishStep DEF EndDrain

-----------------------------------------------------------------------------
(* Discarding what was purged.                                                *)

LEMMA DiscardFenceSound ==
  ASSUME Inner, GapAccounted, setup' = setup, NEW w \in Workers, DiscardFence(w)
  PROVE  Sound
<1>1. PICK y : y = worker[w]
  OBVIOUS
<1>2. Good(w, y) /\ y \in WorkerType /\ y.pc = "segment" /\ y.todo = {} /\ y.fence = FALSE
  <2>1. Good(w, y) /\ y \in WorkerType /\ y.pc = "segment" /\ y.todo = {}
    BY <1>1, WorkerOf DEF DiscardFence
  <2> QED BY <2>1 DEF Good, InSegment, WorkerType
<1>3. UNCHANGED <<spoolVars, drainIdle>>
  BY DEF DiscardFence
<1>4. CASE Fails(w)
  BY <1>3, <1>4, FailsStep
<1>5. CASE /\ CanExclude /\ exclusive' = w /\ UNCHANGED <<cursor, purgeJob, gc>>
           /\ worker' = [worker EXCEPT ![w].pc = "excluding"]
  <2>1. PICK x : x = [y EXCEPT !.pc = "excluding"]
    OBVIOUS
  <2>2. worker' = [worker EXCEPT ![w] = x]
    BY <1>1, <1>5, <2>1 DEF Inner, Served
  <2>3. /\ x \in WorkerType /\ x.pc = "excluding" /\ x.todo = {} /\ x.view = y.view
        /\ x.terminal = y.terminal /\ x.fence = FALSE /\ x.selected = y.selected
        /\ x.discard = y.discard /\ x.next = y.next
    BY <1>2, <2>1 DEF WorkerType, WorkerStates
  <2>4. UNCHANGED <<cas, hookPc, hookFence, scanSlot, journal, gaps, purge, spent>>
    BY <1>3 DEF drainIdle
  <2>5. SpoolShrinks /\ Kept
    BY <1>3, StillShrinks
  <2>6. Grows /\ RowsSame
    BY <2>4, RowsStay
  <2>7. \A d \in x.discard : Discarded(w, d)'
    <3> TAKE d \in x.discard
    <3>1. d.claim \in Claim /\ Discarded(w, d)
      BY <1>2, <2>3, GoodFields DEF Good
    <3>2. Linked(w, d.claim)'
      BY <1>5, <2>5, <3>1, LinkedStays DEF Inner, SpoolShrinks, Discarded
    <3>3. \A i \in 1 .. Len(d.claim.frames) : Accounted(d.claim.frames[i])'
      BY <2>6, <3>1, AccountedStays DEF Discarded
    <3> QED BY <2>6, <3>1, <3>2, <3>3 DEF Discarded, Grows
  <2>8. w = "page" => Paging(x)'
    <3> SUFFICES ASSUME w = "page"
                 PROVE  Paging(x)'
      OBVIOUS
    <3>1. CursorGood(y.next) /\ y.selected = Records /\ y.next \in Cursor
      BY <1>2 DEF Good, Paging, WorkerType
    <3>2. PICK n \in Cursor : n = y.next
      BY <3>1
    <3>3. CursorGood(n)'
      BY <2>5, <2>6, <3>1, <3>2, CursorStays DEF Inner, SpoolShrinks
    <3>4. CursorGood(x.next)'
      BY <2>3, <3>2, <3>3
    <3> QED BY <2>3, <3>1, <3>4 DEF Paging, InSegment
  <2>9. x.view \subseteq Purged' /\ \A r \in x.terminal : RepoOf[r] \in Purged'
    BY <1>2, <2>3, <2>6 DEF Good, RowsSame
  <2>10. Good(w, x)'
    BY <1>5, <2>3, <2>7, <2>8, <2>9 DEF Good, InSegment, Fresh, Excluding
  <2>11. cursor' \in Cursor /\ (\A z \in {cursor} : CursorGood(z))'
    BY <1>5, <2>5, <2>6, CursorKept DEF Inner, SpoolShrinks
  <2>12. Inner'
    BY <1>3, <1>5, <2>2, <2>5, <2>10, <2>11, QuietTask DEF Locks
  <2>13. Sharers' = Sharers /\ Publishers' = Publishers
    <3>1. x.fence = worker[w].fence
      BY <1>1, <1>2, <2>3
    <3> QED BY <2>2, <2>4, <3>1, TaskFence
  <2>14. LifecycleStep
    BY <1>5, <2>4, <2>5, <2>6, <2>13, LExclude DEF FilesSame, BlobsSame, Workers
  <2>15. Honest
    BY <1>3, <2>4, QuietHonest DEF spoolVars
  <2> QED BY <2>12, <2>14, <2>15 DEF Sound
<1> QED BY <1>4, <1>5 DEF DiscardFence

LEMMA DiscardViewSound ==
  ASSUME Inner, GapAccounted, setup' = setup, NEW w \in Workers, DiscardView(w)
  PROVE  Sound
<1>1. PICK y : y = worker[w]
  OBVIOUS
<1>2. Good(w, y) /\ y \in WorkerType /\ y.pc = "excluding" /\ y.fence = FALSE
  <2>1. Good(w, y) /\ y \in WorkerType /\ y.pc = "excluding"
    BY <1>1, WorkerOf DEF DiscardView
  <2> QED BY <2>1 DEF Good, InSegment, WorkerType
<1>3. PICK L, V : L = LiveRefs /\ V = Purged
  OBVIOUS
<1>4. PICK x : x = [y EXCEPT !.pc = "discarding", !.live = L, !.view = V]
  OBVIOUS
<1>5. worker' = [worker EXCEPT ![w] = x]
  BY <1>1, <1>3, <1>4 DEF DiscardView, Inner, Served
<1>6. L \subseteq Blobs /\ V \subseteq Repos
  <2>1. Committed \subseteq Records
    BY RecordsOfType DEF Committed, Inner, Recorded
  <2> QED BY <1>3, <2>1, PipelineAssumption DEF PipelineAssumption, LiveRefs, Refs, Purged
<1>7. /\ x \in WorkerType /\ x.pc = "discarding" /\ x.todo = y.todo /\ x.view = V /\ x.live = L
      /\ x.terminal = y.terminal /\ x.fence = FALSE /\ x.selected = y.selected
      /\ x.discard = y.discard /\ x.next = y.next
  BY <1>2, <1>4, <1>6 DEF WorkerType, WorkerStates
<1>8. w = "page" => Paging(x)
  BY <1>2, <1>7 DEF Good, Paging, InSegment, Excluding
<1>9. Good(w, x)
  BY <1>2, <1>3, <1>7, <1>8 DEF Good, InSegment, Fresh, Excluding
<1>10. UNCHANGED <<spoolVars, drainIdle, cursor, exclusive, purgeJob, gc>>
  BY DEF DiscardView
<1>11. SpoolShrinks /\ Kept
  BY <1>10, StillShrinks
<1>12. Inner'
  BY <1>5, <1>9, <1>10, <1>11, PlainTask
<1> QED BY <1>5, <1>7, <1>10, <1>11, <1>12, TaskWithdraws

\* The blobs a discard deletes: of purged frames only, and nothing that stays needs them.
LEMMA DiscardedBlobs ==
  ASSUME Inner, NEW w \in Workers, worker[w].pc = "discarding",
         NEW D, D = Refs(UNION {d.terminal : d \in worker[w].discard}) \ DiscardRetained(w)
  PROVE  D \in SUBSET Blobs /\ D \cap NeededBlobs = {} /\ (Purged = {} => D = {})
<1>1. PICK y : y = worker[w]
  OBVIOUS
<1>2. Good(w, y) /\ y \in WorkerType /\ LiveRefs \subseteq y.live /\ y.view \subseteq Purged
  BY <1>1, WorkerOf DEF Good
<1>3. \A d \in y.discard : d.terminal \subseteq Records /\ \A r \in d.terminal : RepoOf[r] \in Purged
  BY <1>2, GoodFields DEF Good, Discarded
<1>4. D \in SUBSET Blobs
  BY <1>1, <1>3, PipelineAssumption DEF PipelineAssumption, Refs
<1>5. Purged = {} => D = {}
  BY <1>1, <1>3 DEF Refs
<1>6. NeededBlobs \subseteq DiscardRetained(w)
  BY <1>1, <1>2 DEF NeededBlobs, DiscardRetained, LiveRefs, Refs, IsPurged
<1> QED BY <1>4, <1>5, <1>6

LEMMA DiscardDeleteSound ==
  ASSUME Inner, GapAccounted, setup' = setup, NEW w \in Workers, DiscardDelete(w)
  PROVE  Sound
<1>1. PICK y : y = worker[w]
  OBVIOUS
<1>2. Good(w, y) /\ y \in WorkerType /\ y.pc = "discarding" /\ y.fence = FALSE /\ exclusive = w
  <2>1. Good(w, y) /\ y \in WorkerType /\ y.pc = "discarding"
    BY <1>1, WorkerOf DEF DiscardDelete
  <2> QED BY <2>1 DEF Good, InSegment, Excluding, WorkerType
<1>3. UNCHANGED <<spoolVars, hookPc, hookFence, scanSlot, journal, gaps, purge, spent>>
  BY DEF DiscardDelete
<1>4. CASE Fails(w) /\ UNCHANGED cas
  <2>1. UNCHANGED <<spoolVars, drainIdle>>
    BY <1>3, <1>4 DEF drainIdle
  <2> QED BY <1>4, <2>1, FailsStep
<1>5. PICK D : D = Refs(UNION {d.terminal : d \in worker[w].discard}) \ DiscardRetained(w)
  OBVIOUS
<1>6. CASE /\ DeleteBlobs(D) /\ UNCHANGED <<cursor, exclusive, purgeJob>>
           /\ worker' = [worker EXCEPT ![w].pc = "acking"]
  <2>1. D \in SUBSET Blobs /\ D \cap NeededBlobs = {} /\ (Purged = {} => D = {})
    BY <1>1, <1>2, <1>5, DiscardedBlobs
  <2>2. PICK x : x = [y EXCEPT !.pc = "acking"]
    OBVIOUS
  <2>3. worker' = [worker EXCEPT ![w] = x]
    BY <1>1, <1>6, <2>2 DEF Inner, Served
  <2>4. /\ x \in WorkerType /\ x.pc = "acking" /\ x.todo = y.todo /\ x.view = y.view
        /\ x.terminal = y.terminal /\ x.fence = FALSE /\ x.selected = y.selected
        /\ x.discard = y.discard /\ x.next = y.next
    BY <1>2, <2>2 DEF WorkerType, WorkerStates
  <2>5. w = "page" => Paging(x)
    BY <1>2, <2>4 DEF Good, Paging, InSegment, Excluding
  <2>6. Good(w, x)
    BY <1>2, <2>4, <2>5 DEF Good, InSegment, Fresh, Excluding
  <2>7. SpoolShrinks /\ Kept
    BY <1>3, StillShrinks
  <2>8. cas' = cas \ D /\ GcSame
    BY <1>6 DEF DeleteBlobs, GcSame
  <2>9. exclusive # "none"
    BY <1>2 DEF Workers
  <2>10. Grows /\ RowsSame
    BY <1>3, <2>9, RowsStay
  <2>11. Good(w, x)'
    <3>1. Leaves(w, x)
      BY <1>6, <2>4 DEF Leaves
    <3> QED BY <2>6, <2>7, <2>10, <3>1, GoodStays DEF Inner, SpoolShrinks
  <2>12. cursor' \in Cursor /\ (\A z \in {cursor} : CursorGood(z))'
    BY <1>6, <2>7, <2>10, CursorKept DEF Inner, SpoolShrinks
  <2>13. Recorded'
    BY <1>3, RecordedStays DEF Inner
  <2>14. Inner'
    BY <1>3, <1>6, <2>3, <2>7, <2>8, <2>10, <2>11, <2>12, <2>13, TaskStep DEF Locks, RowsSame
  <2>15. FenceSame
    <3>1. x.fence = worker[w].fence
      BY <1>1, <1>2, <2>4
    <3>2. Sharers' = Sharers /\ Publishers' = Publishers
      BY <1>3, <2>3, <3>1, TaskFence
    <3> QED BY <1>6, <3>2 DEF FenceSame
  <2>16. LifecycleStep
    BY <2>1, <2>7, <2>8, <2>9, <2>10, <2>15, LDelete DEF FilesSame
  <2>17. Honest
    <3>1. GapAccounted'
      BY <1>3 DEF GapAccounted, spoolVars
    <3> QED BY <1>3, <2>1, <2>8, <3>1 DEF Honest
  <2> QED BY <2>14, <2>16, <2>17 DEF Sound
<1> QED BY <1>4, <1>5, <1>6 DEF DiscardDelete

LEMMA DiscardAckSound ==
  ASSUME Inner, GapAccounted, setup' = setup, NEW w \in Workers, DiscardAck(w)
  PROVE  Sound
<1>1. PICK y : y = worker[w]
  OBVIOUS
<1>2. Good(w, y) /\ y \in WorkerType /\ y.pc = "acking" /\ y.fence = FALSE
  <2>1. Good(w, y) /\ y \in WorkerType /\ y.pc = "acking"
    BY <1>1, WorkerOf DEF DiscardAck
  <2> QED BY <2>1 DEF Good, InSegment, WorkerType
<1>3. UNCHANGED drainIdle
  BY DEF DiscardAck
<1>4. CASE Fails(w) /\ UNCHANGED spoolVars
  BY <1>3, <1>4, FailsStep
<1>5. CASE Abandon(w) /\ UNCHANGED <<spoolVars, purgeJob, gc>>
  BY <1>3, <1>5, AbandonStep
<1>6. CASE Finish(w) /\ UNCHANGED <<spoolVars, purgeJob, gc>>
  <2>1. w = "page" => CursorGood(y.next)
    BY <1>2 DEF Good, Paging, Excluding
  <2> QED BY <1>1, <1>3, <1>6, <2>1, FinishStep
<1>7. CASE \E d \in y.discard :
             /\ AcknowledgeSegment(d.claim) /\ UNCHANGED <<cursor, exclusive, purgeJob, gc>>
             /\ worker' = [worker EXCEPT ![w].discard = @ \ {d}]
  <2>1. PICK d \in y.discard :
             /\ AcknowledgeSegment(d.claim) /\ UNCHANGED <<cursor, exclusive, purgeJob, gc>>
             /\ worker' = [worker EXCEPT ![w].discard = @ \ {d}]
    BY <1>7
  <2>2. PICK E : E = y.discard \ {d}
    OBVIOUS
  <2>3. PICK x : x = [y EXCEPT !.discard = E]
    OBVIOUS
  <2>4. worker' = [worker EXCEPT ![w] = x]
    BY <1>1, <2>1, <2>2, <2>3 DEF Inner, Served
  <2>5. /\ x \in WorkerType /\ x.pc = "acking" /\ x.todo = y.todo /\ x.view = y.view
        /\ x.terminal = y.terminal /\ x.fence = FALSE /\ x.selected = y.selected
        /\ x.discard = E /\ x.next = y.next
    BY <1>2, <2>2, <2>3 DEF WorkerType, WorkerStates
  <2>6. w = "page" => Paging(x)
    BY <1>2, <2>5 DEF Good, Paging, InSegment, Excluding
  <2>7. Good(w, x)
    BY <1>2, <2>2, <2>5, <2>6 DEF Good, InSegment, Fresh, Excluding
  <2>8. PICK c \in Claim : c = d.claim
    BY <1>2, GoodFields
  <2>9. Linked(w, c) /\ c.complete /\ \A i \in 1 .. Len(c.frames) : Accounted(c.frames[i])
    BY <1>2, <2>8 DEF Good, Discarded
  <2>10. /\ Shape' /\ Follows /\ markers' = markers /\ QuarantinedRecords' = QuarantinedRecords
         /\ Unlinked(c.id)
    BY <2>1, <2>8, AcknowledgeEffect DEF Inner
  <2>11. SpoolShrinks
    BY <2>10, Shrinks
  <2>12. Inner'
    BY <1>3, <2>1, <2>4, <2>7, <2>11, PlainTask
  <2>13. UNCHANGED <<cas, hookPc, hookFence, scanSlot, journal, gaps, purge, spent>>
    BY <1>3 DEF drainIdle
  <2>14. Publishers' = Publishers /\ Sharers' = Sharers
    BY <1>1, <1>2, <2>4, <2>5, <2>13, TaskFence
  <2>15. RowsSame /\ BlobsSame
    BY <2>13 DEF RowsSame, BlobsSame, Committed, Purged
  <2>16. PICK S \in SUBSET Records : /\ S \subseteq MainRecords /\ MainRecords' = MainRecords \ S
                                     /\ \A r \in S : Accounted(r)
    BY <2>9, <2>10, AcknowledgedAccounted
  <2>17. LifecycleStep
    BY <2>1, <2>10, <2>14, <2>15, <2>16, LAcknowledge
  <2>18. Honest
    BY <2>10, <2>13, QuietHonest
  <2> QED BY <2>12, <2>17, <2>18 DEF Sound
<1> QED BY <1>1, <1>4, <1>5, <1>6, <1>7 DEF DiscardAck

-----------------------------------------------------------------------------
(* Steps that no task of the daemon takes.                                    *)

LEMMA OtherFence ==
  ASSUME Inner, UNCHANGED <<hookPc, hookFence, worker>>
  PROVE  Sharers' = Sharers /\ Publishers' = Publishers /\ Publishers \subseteq Sharers
BY DEF Sharers, Publishers, Inner, Hooked, Publishing

LEMMA OtherStep ==
  ASSUME Inner, setup' = setup, Shape', Follows, MainRecords' \subseteq MainRecords, Grows,
         UNCHANGED <<hookPc, hookFence, scanSlot, worker, cursor>>, cas' \subseteq cas,
         \A w \in Workers : (exclusive' = w) = (exclusive = w),
         exclusive' = "none" \/ exclusive' = exclusive \/ CanExclude
  PROVE  Shape' /\ Hooked' /\ Served'
<1>1. Served'
  BY ServedStays DEF Inner
<1>2. exclusive' # "none" => hookFence = {}
  BY DEF CanExclude, Inner, Hooked
<1> QED BY <1>1, <1>2, HookedStays DEF Inner

\* Only files and bounds change.
LEMMA SpoolOnly ==
  ASSUME Inner, setup' = setup, SpoolShrinks,
         UNCHANGED <<cas, hookVars, exclusive, worker, cursor, journal, gaps, purge, purgeJob, gc>>,
         spent' \in [restarts : 0 .. setup.restarts, rounds : 0 .. setup.rounds,
                     damage : 0 .. setup.damage]
  PROVE  Inner' /\ RowsSame /\ BlobsSame /\ Sharers' = Sharers /\ Publishers' = Publishers
         /\ Publishers \subseteq Sharers
<1>1. UNCHANGED <<cas, hookPc, hookFence, scanSlot>>
  BY DEF hookVars
<1>2. Grows /\ RowsSame
  BY <1>1, RowsStay
<1>3. Shape' /\ Hooked' /\ Served'
  BY <1>1, <1>2, OtherStep DEF SpoolShrinks
<1>4. Recorded'
  BY RecordedStays DEF Inner
<1>5. Purging'
  BY LiveShrinks, <1>2 DEF Inner, Purging, MaintenanceTypeOK, Purged, LiveRefs, Committed
<1>6. Collecting'
  <2>1. Referred' \subseteq Referred
    BY <1>2 DEF SpoolShrinks, Referred, RowsSame
  <2> QED BY <1>2, <2>1, CollectingStays DEF Inner, Purging, Collecting, GcSame, RowsSame
<1> QED BY <1>1, <1>2, <1>3, <1>4, <1>5, <1>6, OtherFence DEF Inner, BlobsSame

LEMMA DaemonRecoverSound ==
  ASSUME Inner, GapAccounted, setup' = setup, DaemonRecover
  PROVE  Sound
<1>1. UNCHANGED pipelineVars /\ Recover
  BY DEF DaemonRecover
<1>2. UNCHANGED <<cas, hookVars, exclusive, worker, cursor, journal, gaps, purge, purgeJob, gc, spent>>
  BY <1>1 DEF pipelineVars, hookVars
<1>3. Shape' /\ Follows /\ MovedAside /\ markers' = markers
  BY <1>1, RecoverEffect DEF Inner
<1>4. SpoolShrinks
  BY <1>3, Shrinks
<1>5. Inner' /\ RowsSame /\ BlobsSame /\ FenceSame
  BY <1>2, <1>4, SpoolOnly DEF FenceSame, Inner, Purging, MaintenanceTypeOK
<1>6. LifecycleStep
  BY <1>3, <1>5, LPreserve, ShapeFacts DEF Inner
<1>7. Honest
  BY <1>2, <1>3, QuietHonest DEF hookVars
<1> QED BY <1>5, <1>6, <1>7 DEF Sound

LEMMA DamageSound ==
  ASSUME Inner, GapAccounted, setup' = setup, Damage
  PROVE  Sound
<1>1. UNCHANGED <<hookVars, exclusive, worker, cursor, journal, gaps, purge, purgeJob, gc>>
  BY DEF Damage
<1>2. UNCHANGED <<cas, hookPc>>
  BY <1>1 DEF hookVars
<1>3. Shape' /\ Follows /\ Kept /\ markers' = markers
  BY DamageEffect DEF Inner
<1>4. SpoolShrinks
  BY <1>3, Shrinks
<1>5. spent' \in [restarts : 0 .. setup.restarts, rounds : 0 .. setup.rounds,
                  damage : 0 .. setup.damage]
  <2>1. /\ spent \in [restarts : 0 .. setup.restarts, rounds : 0 .. setup.rounds,
                      damage : 0 .. setup.damage]
        /\ setup \in Scenarios
    BY DEF Inner, Purging, MaintenanceTypeOK
  <2>2. setup.damage \in Nat
    BY <2>1, PipelineAssumption DEF PipelineAssumption
  <2>3. PICK n : n = spent.damage + 1
    OBVIOUS
  <2>4. n \in 0 .. setup.damage /\ spent' = [spent EXCEPT !.damage = n]
    BY <2>1, <2>2, <2>3 DEF Damage
  <2> QED BY <2>1, <2>4
<1>6. /\ Inner' /\ RowsSame /\ BlobsSame /\ Sharers' = Sharers /\ Publishers' = Publishers
      /\ Publishers \subseteq Sharers
  BY <1>1, <1>2, <1>4, <1>5, SpoolOnly
<1>7. LifecycleStep
  BY <1>1, <1>3, <1>6, LWithdraw DEF FilesSame
<1>8. Honest
  BY <1>1, <1>2, <1>3, QuietHonest
<1> QED BY <1>6, <1>7, <1>8 DEF Sound

LEMMA DaemonKilledSound ==
  ASSUME Inner, GapAccounted, setup' = setup, DaemonKilled
  PROVE  Sound
<1>1. spent' \in [restarts : 0 .. setup.restarts, rounds : 0 .. setup.rounds,
                  damage : 0 .. setup.damage]
  <2>1. /\ spent \in [restarts : 0 .. setup.restarts, rounds : 0 .. setup.rounds,
                      damage : 0 .. setup.damage]
        /\ setup \in Scenarios
    BY DEF Inner, Purging, MaintenanceTypeOK
  <2>2. setup.restarts \in Nat
    BY <2>1, PipelineAssumption DEF PipelineAssumption
  <2>3. PICK n : n = spent.restarts + 1
    OBVIOUS
  <2>4. n \in 0 .. setup.restarts /\ spent' = [spent EXCEPT !.restarts = n]
    BY <2>1, <2>2, <2>3 DEF DaemonKilled
  <2> QED BY <2>1, <2>4
<1> QED BY <1>1, DownSound DEF DaemonKilled

LEMMA ImportGapSound ==
  ASSUME Inner, GapAccounted, setup' = setup, NEW m \in markers, ImportGap(m)
  PROVE  Sound
<1>1. /\ UNCHANGED <<spoolVars, hookVars, exclusive, worker, cursor, journal, purge, purgeJob, gc, spent>>
      /\ gaps' = gaps \cup {m.rec}
  BY DEF ImportGap
<1>2. UNCHANGED <<cas, hookPc, hookFence, scanSlot>>
  BY <1>1 DEF hookVars
<1>3. SpoolShrinks /\ Kept
  BY <1>1, StillShrinks
<1>4. Grows /\ RowsSame
  BY <1>1, <1>2, RowsStay
<1>5. Shape' /\ Hooked' /\ Served'
  BY <1>1, <1>2, <1>3, <1>4, OtherStep DEF SpoolShrinks
<1>6. Recorded'
  <2>1. m.rec \in Records
    BY DEF Inner, Shape, SpoolTypeOK, Marker
  <2> QED BY <1>1, <2>1 DEF Inner, Recorded, CommittedOnce
<1>7. Purging'
  BY <1>1, <1>4, PurgingStays DEF Inner, GcSame
<1>8. Collecting'
  <2>1. Referred' \subseteq Referred
    BY <1>3, <1>4 DEF Kept, Referred, RowsSame
  <2> QED BY <1>1, <1>4, <2>1, CollectingStays DEF Inner, Purging, Collecting, GcSame, RowsSame
<1>9. LifecycleStep
  <2>1. Sharers' = Sharers /\ Publishers' = Publishers /\ Publishers \subseteq Sharers
    BY <1>1, <1>2, OtherFence
  <2> QED BY <1>1, <1>2, <1>3, <1>4, <2>1, LWithdraw DEF FilesSame, BlobsSame
<1>10. Honest
  BY <1>1, <1>2 DEF Honest, GapAccounted, spoolVars
<1> QED BY <1>5, <1>6, <1>7, <1>8, <1>9, <1>10 DEF Sound, Inner

LEMMA AcknowledgeGapSound ==
  ASSUME Inner, GapAccounted, setup' = setup, NEW m \in markers, AcknowledgeGap(m)
  PROVE  Sound
<1>1. UNCHANGED <<pipelineVars, active, sealed, quarantine, nextId>> /\ markers' = markers \ {m} /\ m.rec \in gaps
  BY DEF AcknowledgeGap, AcknowledgeMarker, Propagated
<1>2. UNCHANGED <<cas, hookPc, hookFence, scanSlot, hookVars, exclusive, worker, cursor, journal, gaps,
                  purge, purgeJob, gc, spent>>
  BY <1>1 DEF pipelineVars, hookVars
<1>3. Shape' /\ Follows /\ Kept
  BY <1>1, MarkersEffect DEF Inner, Shape, SpoolTypeOK
<1>4. Grows /\ RowsSame
  BY <1>2, RowsStay
<1>5. Hooked' /\ Served'
  BY <1>2, <1>3, <1>4, OtherStep DEF Kept
<1>6. Recorded'
  BY <1>2, RecordedStays DEF Inner
<1>7. Purging'
  BY <1>2, <1>4, PurgingStays DEF Inner, GcSame
<1>8. Collecting'
  <2>1. Referred' \subseteq Referred
    BY <1>3, <1>4 DEF Kept, Referred, RowsSame
  <2> QED BY <1>2, <1>4, <2>1, CollectingStays DEF Inner, Purging, Collecting, GcSame, RowsSame
<1>9. LifecycleStep
  <2>1. Sharers' = Sharers /\ Publishers' = Publishers /\ Publishers \subseteq Sharers
    BY <1>2, OtherFence
  <2> QED BY <1>2, <1>3, <1>4, <2>1, LWithdraw DEF FilesSame, BlobsSame
<1>10. Honest
  BY <1>1, <1>2 DEF Honest, GapAccounted
<1> QED BY <1>3, <1>5, <1>6, <1>7, <1>8, <1>9, <1>10 DEF Sound, Inner

-----------------------------------------------------------------------------
(* Garbage collection.                                                        *)

\* What a step of the collector leaves alone, and what it must show.
LEMMA GcFrame ==
  ASSUME Inner, setup' = setup, UNCHANGED gcIdle, Grows, cas' \subseteq cas,
         gc' \in [pc : GcStates, candidates : SUBSET Blobs, refs : SUBSET Blobs, stale : SUBSET Blobs],
         spent' \in [restarts : 0 .. setup.restarts, rounds : 0 .. setup.rounds,
                     damage : 0 .. setup.damage],
         \/ exclusive' = exclusive
         \/ exclusive = "gc" /\ exclusive' = "none"
         \/ CanExclude /\ exclusive' = "gc",
         (exclusive' = "gc") = (gc'.pc \in {"listing", "deleting"}),
         gc'.pc \in {"sweeping", "deleting"} => Refs(Committed) \subseteq gc'.refs,
         gc'.pc = "deleting" => gc'.candidates \cap Refs(Referred) = {}
  PROVE  /\ Inner' /\ Sharers' = Sharers /\ Publishers' = Publishers /\ Publishers \subseteq Sharers
         /\ Kept /\ RowsSame /\ UNCHANGED <<hookPc, gaps, markers>>
<1>1. UNCHANGED <<spoolVars, hookPc, hookFence, scanSlot, worker, cursor, journal, gaps, purge, purgeJob>>
  BY DEF gcIdle
<1>2. SpoolShrinks /\ Kept
  BY <1>1, StillShrinks
<1>3. /\ \A w \in Workers : (exclusive' = w) = (exclusive = w)
      /\ exclusive' = "none" \/ exclusive' = exclusive \/ CanExclude
      /\ (exclusive' = "purge") = (exclusive = "purge")
      /\ exclusive' \in {"none", "gc", "purge"} \cup Workers
  BY DEF CanExclude, Workers, Inner, Collecting
<1>4. Shape' /\ Hooked' /\ Served'
  BY <1>1, <1>2, <1>3, OtherStep DEF SpoolShrinks
<1>5. Recorded' /\ RowsSame
  BY <1>1, RecordedStays DEF Inner, RowsSame, Purged
<1>6. Purging'
  <2>1. MaintenanceTypeOK'
    BY <1>1 DEF Inner, Purging, MaintenanceTypeOK
  <2>2. purgeJob.pc = "deleting" => LiveRefs' \subseteq purgeJob.live
    BY LiveShrinks DEF Inner, Purging
  <2> QED BY <1>1, <1>3, <1>5, <2>1, <2>2 DEF Inner, Purging, RowsSame
<1>7. Collecting'
  <2>1. Referred' = Referred
    BY <1>2, <1>5 DEF Referred, Kept, RowsSame
  <2>2. gc'.pc = "deleting" => gc'.candidates \cap Refs(Referred)' = {}
    BY <2>1 DEF Refs
  <2>3. gc'.pc \in {"sweeping", "deleting"} => Refs(Committed)' \subseteq gc'.refs
    BY <1>5 DEF RowsSame, Refs
  <2> QED BY <1>3, <2>2, <2>3 DEF Collecting, Referred
<1>8. Sharers' = Sharers /\ Publishers' = Publishers /\ Publishers \subseteq Sharers
  BY <1>1, OtherFence
<1> QED BY <1>1, <1>2, <1>4, <1>5, <1>6, <1>7, <1>8 DEF Inner, spoolVars

LEMMA GcType ==
  ASSUME Inner
  PROVE  /\ gc \in [pc : GcStates, candidates : SUBSET Blobs, refs : SUBSET Blobs, stale : SUBSET Blobs]
         /\ spent \in [restarts : 0 .. setup.restarts, rounds : 0 .. setup.rounds,
                       damage : 0 .. setup.damage]
         /\ (exclusive = "gc") = (gc.pc \in {"listing", "deleting"})
         /\ Committed \subseteq Records /\ LiveRefs \subseteq Blobs /\ HistoricalRefs \subseteq Blobs
         /\ Refs(MainRecords) \subseteq Blobs /\ cas \subseteq Blobs
<1>1. Committed \subseteq Records
  BY RecordsOfType DEF Committed, Inner, Recorded
<1>2. MainRecords \subseteq Records
  BY ShapeFacts DEF Inner
<1>3. LiveRefs \subseteq Blobs /\ HistoricalRefs \subseteq Blobs /\ Refs(MainRecords) \subseteq Blobs
  BY <1>1, <1>2, PipelineAssumption DEF PipelineAssumption, LiveRefs, HistoricalRefs, Refs
<1> QED BY <1>1, <1>3 DEF Inner, Purging, MaintenanceTypeOK, Collecting, Hooked, HookTypeOK

LEMMA GcListSound ==
  ASSUME Inner, GapAccounted, setup' = setup, GcList
  PROVE  Sound
<1>1. PICK B \in SUBSET Blobs : B = cas
  BY GcType
<1>2. gc' = [gc EXCEPT !.pc = "listing", !.candidates = B] /\ UNCHANGED <<gcIdle, cas>>
      /\ exclusive' = "gc" /\ CanExclude
  BY <1>1 DEF GcList
<1>3. gc' \in [pc : GcStates, candidates : SUBSET Blobs, refs : SUBSET Blobs, stale : SUBSET Blobs]
      /\ gc'.pc = "listing"
  BY <1>1, <1>2, GcType DEF GcStates
<1>4. spent' \in [restarts : 0 .. setup.restarts, rounds : 0 .. setup.rounds,
                  damage : 0 .. setup.damage]
  <2>1. setup.rounds \in Nat
    BY PipelineAssumption DEF PipelineAssumption, Inner, Shape
  <2>2. PICK n : n = spent.rounds + 1
    OBVIOUS
  <2>3. n \in 0 .. setup.rounds /\ spent' = [spent EXCEPT !.rounds = n]
    BY <2>1, <2>2, GcType DEF GcList
  <2> QED BY <2>3, GcType
<1>5. Grows
  BY <1>2, RowsStay DEF gcIdle
<1>6. /\ Inner' /\ Sharers' = Sharers /\ Publishers' = Publishers
      /\ Kept /\ RowsSame /\ UNCHANGED <<hookPc, gaps, markers>>
  BY <1>2, <1>3, <1>4, <1>5, GcFrame
<1>7. LifecycleStep
  BY <1>2, <1>6, LExclude DEF FilesSame, BlobsSame
<1> QED BY <1>2, <1>6, <1>7, QuietHonest DEF Sound

LEMMA GcAuthoritySound ==
  ASSUME Inner, GapAccounted, setup' = setup,
         GcAuthority("listing", "marking") \/ GcAuthority("marked", "sweeping")
  PROVE  Sound
<1>1. PICK R \in SUBSET Blobs : R = HistoricalRefs \cup LiveRefs
  BY GcType
<1>2. PICK p \in {"marking", "sweeping"} :
        gc' = [gc EXCEPT !.pc = p, !.refs = R] /\ UNCHANGED <<gcIdle, cas, spent>> /\ Release("gc")
  BY <1>1 DEF GcAuthority
<1>3. gc' \in [pc : GcStates, candidates : SUBSET Blobs, refs : SUBSET Blobs, stale : SUBSET Blobs]
      /\ gc'.pc = p /\ gc'.refs = R
  BY <1>1, <1>2, GcType DEF GcStates
<1>4. Grows
  BY <1>2, RowsStay DEF gcIdle
<1>5. Refs(Committed) \subseteq R
  BY <1>1 DEF HistoricalRefs
<1>6. /\ exclusive' = exclusive \/ (exclusive = "gc" /\ exclusive' = "none")
      /\ exclusive' # "gc"
  BY <1>2 DEF Release
<1>7. /\ Inner' /\ Sharers' = Sharers /\ Publishers' = Publishers /\ Publishers \subseteq Sharers
      /\ Kept /\ RowsSame /\ UNCHANGED <<hookPc, gaps, markers>>
  BY <1>2, <1>3, <1>4, <1>5, <1>6, GcType, GcFrame
<1>8. LifecycleStep
  BY <1>2, <1>6, <1>7, LWithdraw DEF FilesSame, BlobsSame
<1> QED BY <1>2, <1>7, <1>8, QuietHonest DEF Sound

LEMMA GcMarkSound ==
  ASSUME Inner, GapAccounted, setup' = setup, GcMark
  PROVE  Sound
<1>1. PICK C \in SUBSET Blobs : C = gc.candidates \ (gc.refs \cup Refs(MainRecords))
  BY GcType
<1>2. gc' = [gc EXCEPT !.pc = "marked", !.candidates = C]
      /\ UNCHANGED <<gcIdle, cas, exclusive, spent>> /\ gc.pc = "marking"
  BY <1>1 DEF GcMark
<1>3. gc' \in [pc : GcStates, candidates : SUBSET Blobs, refs : SUBSET Blobs, stale : SUBSET Blobs]
      /\ gc'.pc = "marked"
  BY <1>1, <1>2, GcType DEF GcStates
<1>4. Grows
  BY <1>2, RowsStay DEF gcIdle
<1>5. exclusive' # "gc"
  BY <1>2, GcType
<1>6. /\ Inner' /\ Sharers' = Sharers /\ Publishers' = Publishers /\ Publishers \subseteq Sharers
      /\ Kept /\ RowsSame /\ UNCHANGED <<hookPc, gaps, markers>>
  BY <1>2, <1>3, <1>4, <1>5, GcType, GcFrame
<1>7. LifecycleStep
  BY <1>2, <1>6, LWithdraw DEF FilesSame, BlobsSame
<1> QED BY <1>2, <1>6, <1>7, QuietHonest DEF Sound

LEMMA GcSweepFenceSound ==
  ASSUME Inner, GapAccounted, setup' = setup, GcSweepFence
  PROVE  Sound
<1>1. PICK C \in SUBSET Blobs : C = SweepCandidates
  BY GcType DEF SweepCandidates
<1>2. gc' = [gc EXCEPT !.pc = "deleting", !.candidates = C] /\ UNCHANGED <<gcIdle, cas, spent>>
      /\ gc.pc = "sweeping" /\ CanExclude /\ exclusive' = "gc" /\ quarantine = {}
  BY <1>1 DEF GcSweepFence, GcProceeds, GcReadable
<1>3. gc' \in [pc : GcStates, candidates : SUBSET Blobs, refs : SUBSET Blobs, stale : SUBSET Blobs]
      /\ gc'.pc = "deleting" /\ gc'.candidates = C /\ gc'.refs = gc.refs
  BY <1>1, <1>2, GcType DEF GcStates
<1>4. Grows
  BY <1>2, RowsStay DEF gcIdle
<1>5. Refs(Committed) \subseteq gc.refs
  BY <1>2 DEF Inner, Collecting
<1>6. C \cap Refs(Referred) = {}
  <2>1. QuarantinedRecords = {}
    BY <1>2 DEF QuarantinedRecords
  <2>2. Refs(Referred) \subseteq gc.refs \cup Refs(MainRecords)
    BY <1>5, <2>1 DEF Referred, Refs
  <2> QED BY <1>1, <2>2 DEF SweepCandidates
<1>7. /\ Inner' /\ Sharers' = Sharers /\ Publishers' = Publishers
      /\ Kept /\ RowsSame /\ UNCHANGED <<hookPc, gaps, markers>>
  BY <1>2, <1>3, <1>4, <1>5, <1>6, GcType, GcFrame
<1>8. LifecycleStep
  BY <1>2, <1>7, LExclude DEF FilesSame, BlobsSame
<1> QED BY <1>2, <1>7, <1>8, QuietHonest DEF Sound

LEMMA GcDeleteSound ==
  ASSUME Inner, GapAccounted, setup' = setup, GcDelete
  PROVE  Sound
<1>1. PICK d \in gc.candidates :
        /\ gc.pc = "deleting" /\ cas' = cas \ {d} /\ gc' = [gc EXCEPT !.candidates = @ \ {d}]
        /\ UNCHANGED <<gcIdle, exclusive, spent>>
  BY DEF GcDelete
<1>2. PICK C \in SUBSET Blobs, D \in SUBSET Blobs : C = gc.candidates \ {d} /\ D = {d}
  BY <1>1, GcType
<1>3. gc' = [gc EXCEPT !.candidates = C] /\ cas' = cas \ D
  BY <1>1, <1>2
<1>4. gc' \in [pc : GcStates, candidates : SUBSET Blobs, refs : SUBSET Blobs, stale : SUBSET Blobs]
      /\ gc'.pc = gc.pc /\ gc'.candidates = C /\ gc'.refs = gc.refs
  BY <1>2, <1>3, GcType
<1>5. exclusive = "gc" /\ gc.candidates \cap Refs(Referred) = {} /\ Refs(Committed) \subseteq gc.refs
  BY <1>1 DEF Inner, Collecting, Referred
<1>6. Grows
  BY <1>1, <1>5, RowsStay DEF gcIdle
<1>7. C \cap Refs(Referred) = {} /\ D \cap Refs(Referred) = {}
  BY <1>1, <1>2, <1>5
<1>8. /\ Inner' /\ Sharers' = Sharers /\ Publishers' = Publishers
      /\ Kept /\ RowsSame /\ UNCHANGED <<hookPc, gaps, markers>>
  BY <1>1, <1>3, <1>4, <1>5, <1>6, <1>7, GcType, GcFrame
<1>9. LifecycleStep
  <2>1. D \cap NeededBlobs = {}
    BY <1>7 DEF NeededBlobs, Referred, Refs
  <2> QED BY <1>1, <1>2, <1>3, <1>5, <1>8, <2>1, LDelete DEF FilesSame, FenceSame
<1>10. Honest
  <2>1. D \cap Refs(QuarantinedRecords) = {}
    BY <1>7 DEF Referred, Refs
  <2> QED BY <1>3, <1>8, <2>1 DEF Honest, GapAccounted
<1> QED BY <1>8, <1>9, <1>10 DEF Sound

LEMMA GcEndSound ==
  ASSUME Inner, GapAccounted, setup' = setup, GcFinish \/ GcAbort
  PROVE  Sound
<1>1. gc' = IdleGc /\ UNCHANGED <<gcIdle, cas, spent>>
      /\ \/ exclusive' = exclusive /\ gc.pc \in {"marking", "sweeping"}
         \/ exclusive = "gc" /\ exclusive' = "none"
  BY GcType DEF GcFinish, GcAbort
<1>2. gc' \in [pc : GcStates, candidates : SUBSET Blobs, refs : SUBSET Blobs, stale : SUBSET Blobs]
      /\ gc'.pc = "idle"
  BY <1>1 DEF IdleGc, GcStates
<1>3. Grows
  BY <1>1, RowsStay DEF gcIdle
<1>4. exclusive' # "gc"
  BY <1>1, GcType
<1>5. /\ Inner' /\ Sharers' = Sharers /\ Publishers' = Publishers /\ Publishers \subseteq Sharers
      /\ Kept /\ RowsSame /\ UNCHANGED <<hookPc, gaps, markers>>
  BY <1>1, <1>2, <1>3, <1>4, GcType, GcFrame
<1>6. LifecycleStep
  BY <1>1, <1>5, LWithdraw DEF FilesSame, BlobsSame
<1> QED BY <1>1, <1>5, <1>6, QuietHonest DEF Sound

-----------------------------------------------------------------------------
(* Repository purge.                                                          *)

PurgeProgress == [Repos -> [stage : PurgeStages, left : SUBSET Blobs]]
PurgeJobs ==
  [pc : PurgeStates, repo : Repos, batch : SUBSET Blobs, live : SUBSET Blobs, seen : Nat]

LEMMA PurgeFrame ==
  ASSUME Inner, setup' = setup, UNCHANGED purgeIdle, Grows, cas' \subseteq cas, GcSame,
         purge' \in PurgeProgress, purgeJob' \in PurgeJobs,
         \/ exclusive' = exclusive
         \/ exclusive = "purge" /\ exclusive' = "none"
         \/ CanExclude /\ exclusive' = "purge",
         (exclusive' = "purge") = (purgeJob'.pc # "idle"),
         purgeJob'.pc # "idle" => purgeJob'.repo \in Purged',
         purgeJob'.pc = "deleting" => LiveRefs' \subseteq purgeJob'.live
  PROVE  /\ Inner' /\ Sharers' = Sharers /\ Publishers' = Publishers /\ Publishers \subseteq Sharers
         /\ Kept /\ Committed' = Committed /\ UNCHANGED <<hookPc, gaps, markers, quarantine>>
<1>1. UNCHANGED <<spoolVars, hookPc, hookFence, scanSlot, worker, cursor, journal, gaps, spent>>
  BY DEF purgeIdle
<1>2. SpoolShrinks /\ Kept
  BY <1>1, StillShrinks
<1>3. /\ \A w \in Workers : (exclusive' = w) = (exclusive = w)
      /\ exclusive' = "none" \/ exclusive' = exclusive \/ CanExclude
      /\ (exclusive' = "gc") = (exclusive = "gc")
      /\ exclusive' \in {"none", "gc", "purge"} \cup Workers
  BY DEF CanExclude, Workers, Inner, Collecting
<1>4. Shape' /\ Hooked' /\ Served'
  BY <1>1, <1>2, <1>3, OtherStep DEF SpoolShrinks
<1>5. Recorded' /\ Committed' = Committed
  BY <1>1, RecordedStays DEF Inner
<1>6. Purging'
  <2>1. MaintenanceTypeOK'
    BY <1>1, GcFields DEF Inner, Purging, MaintenanceTypeOK, PurgeProgress, PurgeJobs
  <2> QED BY <2>1 DEF Purging
<1>7. Collecting'
  <2>1. Referred' \subseteq Referred
    BY <1>2, <1>5 DEF Kept, Referred
  <2> QED BY <1>3, <1>5, <2>1, CollectingStays DEF Inner, Purging
<1>8. Sharers' = Sharers /\ Publishers' = Publishers /\ Publishers \subseteq Sharers
  BY <1>1, OtherFence
<1> QED BY <1>1, <1>2, <1>4, <1>5, <1>6, <1>7, <1>8 DEF Inner, spoolVars

LEMMA PurgeType ==
  ASSUME Inner
  PROVE  /\ purge \in PurgeProgress /\ purgeJob \in PurgeJobs /\ IdlePurge \in PurgeJobs
         /\ IdlePurge.pc = "idle"
         /\ (exclusive = "purge") = (purgeJob.pc # "idle")
         /\ purgeJob.pc # "idle" => purgeJob.repo \in Purged
         /\ purgeJob.pc = "deleting" => LiveRefs \subseteq purgeJob.live
<1>1. IdlePurge \in PurgeJobs /\ IdlePurge.pc = "idle"
  BY PipelineAssumption DEF PipelineAssumption, IdlePurge, PurgeJobs, PurgeStates
<1> QED BY <1>1 DEF Inner, Purging, MaintenanceTypeOK, PurgeProgress, PurgeJobs

LEMMA PurgeConfirmSound ==
  ASSUME Inner, GapAccounted, setup' = setup, NEW p \in Repos, PurgeConfirm(p)
  PROVE  Sound
<1>1. PICK L : L = ExclusiveRefs(p)
  OBVIOUS
<1>2. L \in SUBSET Blobs
  <2>1. HistoricalRefs \subseteq Blobs
    BY GcType
  <2> QED BY <1>1, <2>1 DEF ExclusiveRefs, HistoricalRefs, Refs
<1>3. PICK e : e = [stage |-> "pending", left |-> L]
  OBVIOUS
<1>4. purge' = [purge EXCEPT ![p] = e] /\ UNCHANGED <<purgeIdle, cas, exclusive, purgeJob, gc>>
  BY <1>1, <1>3 DEF PurgeConfirm
<1>5. purge' \in PurgeProgress /\ Purged' = Purged \cup {p}
  <2>1. e \in [stage : PurgeStages, left : SUBSET Blobs] /\ e.stage = "pending"
    BY <1>2, <1>3 DEF PurgeStages
  <2> QED BY <1>4, <2>1, PurgeType DEF PurgeProgress, Purged
<1>6. Committed' = Committed
  BY <1>4 DEF purgeIdle, Committed
<1>7. Grows
  BY <1>4, <1>5, <1>6 DEF Grows
<1>8. LiveRefs' \subseteq LiveRefs
  BY <1>5, <1>6 DEF LiveRefs, Refs, IsPurged
<1>9. /\ Inner' /\ Sharers' = Sharers /\ Publishers' = Publishers /\ Kept
      /\ UNCHANGED <<hookPc, gaps, markers>>
  BY <1>4, <1>5, <1>7, <1>8, PurgeType, PurgeFrame DEF GcSame
<1>10. LifecycleStep
  BY <1>4, <1>5, <1>6, <1>9, LPurge DEF FilesSame, BlobsSame, FenceSame
<1> QED BY <1>4, <1>9, <1>10, QuietHonest DEF Sound

\* Later stages of a purge, which leave its repository purged.
LEMMA PurgeStageSound ==
  ASSUME Inner, GapAccounted, setup' = setup, NEW p \in Repos, PurgeClose(p) \/ PurgeComplete(p)
  PROVE  Sound
<1>1. PICK s \in {"closed", "completed"} : purge' = [purge EXCEPT ![p].stage = s]
  BY DEF PurgeClose, PurgeComplete
<1>2. UNCHANGED <<purgeIdle, cas, exclusive, purgeJob, gc>> /\ purge[p].stage # "none"
  BY DEF PurgeClose, PurgeComplete, Deletable
<1>3. PICK e : e = [purge[p] EXCEPT !.stage = s]
  OBVIOUS
<1>4. purge' \in PurgeProgress /\ Purged' = Purged
  <2>1. e \in [stage : PurgeStages, left : SUBSET Blobs] /\ e.stage = s
    BY <1>3, PurgeType DEF PurgeProgress, PurgeStages
  <2>2. purge' = [purge EXCEPT ![p] = e]
    BY <1>1, <1>3, PurgeType DEF PurgeProgress
  <2> QED BY <1>2, <2>1, <2>2, PurgeType DEF PurgeProgress, Purged
<1>5. Committed' = Committed
  BY <1>2 DEF purgeIdle, Committed
<1>6. Grows /\ LiveRefs' \subseteq LiveRefs
  BY <1>2, <1>4, <1>5 DEF Grows, LiveRefs, Refs, IsPurged
<1>7. /\ Inner' /\ Sharers' = Sharers /\ Publishers' = Publishers /\ Publishers \subseteq Sharers
      /\ Kept /\ UNCHANGED <<hookPc, gaps, markers>>
  BY <1>2, <1>4, <1>6, PurgeType, PurgeFrame DEF GcSame
<1>8. LifecycleStep
  BY <1>2, <1>4, <1>5, <1>7, LWithdraw DEF FilesSame, BlobsSame, RowsSame
<1> QED BY <1>2, <1>7, <1>8, QuietHonest DEF Sound

LEMMA PurgeBatchFenceSound ==
  ASSUME Inner, GapAccounted, setup' = setup, NEW p \in Repos, PurgeBatchFence(p)
  PROVE  Sound
<1>1. PICK b \in SUBSET purge[p].left :
        purgeJob' = [IdlePurge EXCEPT !.pc = "fenced", !.repo = p, !.batch = b]
  BY DEF PurgeBatchFence, kSubset
<1>2. UNCHANGED <<purgeIdle, cas, purge, gc>> /\ CanExclude /\ exclusive' = "purge" /\ p \in Purged
  BY DEF PurgeBatchFence, Deletable, Purged
<1>3. purgeJob' \in PurgeJobs /\ purgeJob'.pc = "fenced" /\ purgeJob'.repo = p
  <2>1. b \in SUBSET Blobs
    BY PurgeType DEF PurgeProgress
  <2> QED BY <1>1, <2>1, PurgeType DEF PurgeJobs, PurgeStates
<1>4. Grows /\ RowsSame
  BY <1>2, RowsStay DEF purgeIdle
<1>5. /\ Inner' /\ Sharers' = Sharers /\ Publishers' = Publishers
      /\ Kept /\ UNCHANGED <<hookPc, gaps, markers>>
  BY <1>2, <1>3, <1>4, PurgeType, PurgeFrame DEF GcSame, RowsSame
<1>6. LifecycleStep
  BY <1>2, <1>4, <1>5, LExclude DEF FilesSame, BlobsSame
<1> QED BY <1>2, <1>5, <1>6, QuietHonest DEF Sound

LEMMA PurgeBatchViewSound ==
  ASSUME Inner, GapAccounted, setup' = setup, PurgeBatchView
  PROVE  Sound
<1>1. PICK L, n : L = LiveRefs /\ n = Len(journal)
  OBVIOUS
<1>2. UNCHANGED <<purgeIdle, cas, exclusive, purge, gc>> /\ purgeJob.pc = "fenced"
      /\ purgeJob' = [purgeJob EXCEPT !.pc = "deleting", !.live = L, !.seen = n]
  BY <1>1 DEF PurgeBatchView
<1>3. L \in SUBSET Blobs /\ n \in Nat
  BY <1>1, GcType, LenProperties DEF Inner, Recorded
<1>4. purgeJob' \in PurgeJobs /\ purgeJob'.pc = "deleting" /\ purgeJob'.repo = purgeJob.repo
      /\ purgeJob'.live = L
  BY <1>2, <1>3, PurgeType DEF PurgeJobs, PurgeStates
<1>5. Grows /\ RowsSame
  BY <1>2, RowsStay DEF purgeIdle
<1>6. LiveRefs' \subseteq L
  BY <1>1, <1>5 DEF LiveRefs, RowsSame, Refs, IsPurged
<1>7. /\ Inner' /\ Sharers' = Sharers /\ Publishers' = Publishers /\ Publishers \subseteq Sharers
      /\ Kept /\ UNCHANGED <<hookPc, gaps, markers>>
  BY <1>2, <1>4, <1>5, <1>6, PurgeType, PurgeFrame DEF GcSame, RowsSame
<1>8. LifecycleStep
  BY <1>2, <1>5, <1>7, LWithdraw DEF FilesSame, BlobsSame
<1> QED BY <1>2, <1>7, <1>8, QuietHonest DEF Sound

LEMMA PurgeBatchDeleteSound ==
  ASSUME Inner, GapAccounted, setup' = setup, PurgeBatchDelete
  PROVE  Sound
<1>1. purgeJob.pc = "deleting" /\ UNCHANGED <<purgeIdle, purge>> /\ exclusive = "purge"
      /\ purgeJob.repo \in Purged /\ LiveRefs \subseteq purgeJob.live
  BY PurgeType DEF PurgeBatchDelete
<1>2. Grows /\ RowsSame
  BY <1>1, RowsStay DEF purgeIdle
<1>3. PICK D : D = purgeJob.batch \ PurgePins
  OBVIOUS
<1>4. CASE DeleteBlobs(D) /\ purgeJob' = [purgeJob EXCEPT !.pc = "deleted"] /\ UNCHANGED exclusive
  <2>1. D \in SUBSET Blobs
    BY <1>3, PurgeType DEF PurgeJobs
  <2>2. purgeJob' \in PurgeJobs /\ purgeJob'.pc = "deleted" /\ purgeJob'.repo = purgeJob.repo
    BY <1>4, PurgeType DEF PurgeJobs, PurgeStates
  <2>3. cas' = cas \ D /\ GcSame
    BY <1>4 DEF DeleteBlobs, GcSame
  <2>4. /\ Inner' /\ Sharers' = Sharers /\ Publishers' = Publishers
        /\ Kept /\ UNCHANGED <<hookPc, gaps, markers>>
    BY <1>1, <1>2, <1>4, <2>2, <2>3, PurgeFrame, PurgeType DEF RowsSame
  <2>5. D \cap NeededBlobs = {}
    BY <1>1, <1>3 DEF NeededBlobs, PurgePins, LiveRefs, Refs, IsPurged
  <2>6. LifecycleStep
    BY <1>1, <1>2, <1>4, <2>1, <2>3, <2>4, <2>5, LDelete DEF FilesSame, FenceSame
  <2>7. Honest
    BY <1>1, <2>4 DEF Honest, GapAccounted
  <2> QED BY <2>4, <2>6, <2>7 DEF Sound
<1>5. CASE purgeJob' = IdlePurge /\ exclusive' = "none" /\ UNCHANGED <<cas, gc>>
  <2>1. /\ Inner' /\ Sharers' = Sharers /\ Publishers' = Publishers /\ Publishers \subseteq Sharers
        /\ Kept /\ UNCHANGED <<hookPc, gaps, markers>>
    BY <1>1, <1>2, <1>5, PurgeFrame, PurgeType DEF GcSame
  <2>2. LifecycleStep
    BY <1>2, <1>5, <2>1, LWithdraw DEF FilesSame, BlobsSame
  <2> QED BY <1>5, <2>1, <2>2, QuietHonest DEF Sound
<1> QED BY <1>3, <1>4, <1>5 DEF PurgeBatchDelete

LEMMA PurgeBatchCommitSound ==
  ASSUME Inner, GapAccounted, setup' = setup, PurgeBatchCommit
  PROVE  Sound
<1>1. PICK p \in Repos : p = purgeJob.repo
  BY PurgeType DEF PurgeJobs
<1>2. p \in Purged /\ exclusive = "purge" /\ purgeJob' = IdlePurge /\ exclusive' = "none"
      /\ UNCHANGED <<purgeIdle, cas, gc>>
  BY <1>1, PurgeType DEF PurgeBatchCommit
<1>3. PICK l : l = purge[p].left \ purgeJob.batch
  OBVIOUS
<1>4. PICK e : e = [stage |-> "deleting", left |-> l]
  OBVIOUS
<1>5. purge' = purge \/ purge' = [purge EXCEPT ![p] = e]
  BY <1>1, <1>3, <1>4, PurgeType DEF PurgeBatchCommit, PurgeProgress
<1>6. purge' \in PurgeProgress /\ Purged' = Purged
  <2>1. e \in [stage : PurgeStages, left : SUBSET Blobs] /\ e.stage = "deleting"
    BY <1>3, <1>4, PurgeType DEF PurgeProgress, PurgeStages
  <2> QED BY <1>2, <1>5, <2>1, PurgeType DEF PurgeProgress, Purged
<1>7. Committed' = Committed
  BY <1>2 DEF purgeIdle, Committed
<1>8. Grows
  BY <1>2, <1>6, <1>7 DEF Grows
<1>9. /\ Inner' /\ Sharers' = Sharers /\ Publishers' = Publishers /\ Publishers \subseteq Sharers
      /\ Kept /\ UNCHANGED <<hookPc, gaps, markers>>
  BY <1>2, <1>6, <1>8, PurgeFrame, PurgeType DEF GcSame
<1>10. LifecycleStep
  BY <1>2, <1>6, <1>7, <1>9, LWithdraw DEF FilesSame, BlobsSame, RowsSame
<1> QED BY <1>2, <1>9, <1>10, QuietHonest DEF Sound

-----------------------------------------------------------------------------
(* Hook processes.                                                            *)

\* The hook of r goes to s.
Moves(r, s) == hookPc' = [hookPc EXCEPT ![r] = s] /\ UNCHANGED daemonVars
\* It keeps the fence, takes it or lets go of it.
Fencing(r) == \/ hookFence' = hookFence
              \/ hookFence' = hookFence \cup {r} /\ exclusive = "none"
              \/ hookFence' = hookFence \ {r}

LEMMA HookFacts ==
  ASSUME Inner, NEW r \in Records
  PROVE  /\ hookPc \in [Records -> HookStates] /\ hookFence \subseteq Records
         /\ scanSlot \in [Records -> 0 .. EmergencySlots] /\ cas \subseteq Blobs /\ Digest[r] \in Blobs
         /\ hookPc[r] \in Publishing => r \in hookFence /\ exclusive = "none" /\ r \in Sharers
         /\ hookPc[r] \in Unwritten => r \notin MainRecords
         /\ Publishers \subseteq hookFence /\ Publishers \subseteq Sharers
BY PipelineAssumption DEF PipelineAssumption, Inner, Hooked, HookTypeOK, Sharers, Publishers, Publishing

LEMMA HookInner ==
  ASSUME Inner, setup' = setup, NEW r \in Records, NEW s \in HookStates, Moves(r, s), Fencing(r),
         Shape', Follows, QuarantinedRecords' = QuarantinedRecords,
         cas \subseteq cas', cas' \subseteq Blobs, scanSlot' \in [Records -> 0 .. EmergencySlots],
         MainRecords' = MainRecords \/ (MainRecords' = MainRecords \cup {r} /\ r \in hookFence),
         r \in MainRecords' => s \notin Unwritten, s \in Publishing => r \in hookFence'
  PROVE  Inner' /\ RowsSame /\ exclusive' = exclusive
<1>1. UNCHANGED <<exclusive, worker, cursor, journal, gaps, purge, purgeJob, gc, spent>>
  BY DEF Moves, daemonVars
<1>2. hookPc' \in [Records -> HookStates] /\ hookPc'[r] = s /\ \A q \in Records : q # r => hookPc'[q] = hookPc[q]
  BY HookFacts DEF Moves
<1>3. Hooked'
  <2>1. HookTypeOK'
    BY <1>2, HookFacts DEF Fencing, HookTypeOK
  <2>2. \A q \in MainRecords' : hookPc'[q] \notin Unwritten
    BY <1>2, ShapeFacts DEF Inner, Hooked
  <2>3. \A q \in Records : hookPc'[q] \in Publishing => q \in hookFence'
    BY <1>2 DEF Fencing, Inner, Hooked
  <2>4. exclusive' # "none" => hookFence' = {}
    BY <1>1 DEF Fencing, Inner, Hooked
  <2> QED BY <2>1, <2>2, <2>3, <2>4 DEF Hooked
<1>4. Grows /\ RowsSame
  BY <1>1, RowsStay
<1>5. Served'
  BY <1>1, <1>4, ServedStays DEF Inner
<1>6. Recorded'
  BY <1>1, RecordedStays DEF Inner
<1>7. Purging'
  BY <1>1, <1>4, PurgingStays DEF Inner, GcSame
<1>8. Collecting'
  <2>1. gc.pc = "deleting" => hookFence = {}
    BY DEF Inner, Collecting, Hooked
  <2>2. gc.pc = "deleting" => Referred' \subseteq Referred
    BY <1>4, <2>1 DEF Referred, RowsSame
  <2> QED BY <1>1, <1>4, <2>2, CollectingStays DEF Inner, Purging, Collecting, GcSame, RowsSame
<1> QED BY <1>1, <1>3, <1>4, <1>5, <1>6, <1>7, <1>8 DEF Inner

LEMMA HookSharers ==
  ASSUME Inner, NEW r \in Records, NEW s \in HookStates, Moves(r, s)
  PROVE  /\ hookFence' = hookFence => Sharers' = Sharers
         /\ hookFence' = hookFence \cup {r} => Sharers' = Sharers \cup {r}
         /\ hookFence' = hookFence \ {r} => Sharers' = Sharers \ {r}
         /\ s = "published" => Publishers' = Publishers \cup {r}
         /\ s # "published" => Publishers' = Publishers \ {r}
<1>1. UNCHANGED worker /\ r \notin Workers
  BY NamesAssumption DEF NamesAssumption, Moves, daemonVars
<1>2. hookPc'[r] = s /\ \A q \in Records : q # r => hookPc'[q] = hookPc[q]
  BY HookFacts DEF Moves
<1> QED BY <1>1, <1>2 DEF Sharers, Publishers

LEMMA HookHonest ==
  ASSUME Inner, GapAccounted, NEW r \in Records, NEW s \in HookStates, Moves(r, s), cas \subseteq cas',
         \A m \in markers : ~m.torn => m \in markers', s = "durable" => r \in MainRecords',
         s = "gap" => \E m \in markers' : m.rec = r /\ ~m.torn
  PROVE  Honest
<1>1. hookPc'[r] = s /\ (\A q \in Records : q # r => hookPc'[q] = hookPc[q]) /\ gaps' = gaps
  BY HookFacts DEF Moves, daemonVars
<1>2. GapAccounted'
  BY <1>1 DEF GapAccounted
<1> QED BY <1>1, <1>2 DEF Honest

\* A hook that gives up or waits its turn: nothing is written.
LEMMA HookWithdraws ==
  ASSUME Inner, GapAccounted, setup' = setup, NEW r \in Records,
         NEW s \in HookStates \ {"durable", "gap", "published", "fenced", "idle"}, Moves(r, s),
         hookFence' = hookFence \/ hookFence' = hookFence \ {r}, UNCHANGED <<spoolVars, cas, scanSlot>>
  PROVE  Sound
<1>1. SpoolShrinks /\ Kept
  BY StillShrinks
<1>2. Inner' /\ RowsSame /\ exclusive' = exclusive
  BY <1>1, HookInner, HookFacts DEF SpoolShrinks, Kept, Fencing, Unwritten, Publishing
<1>3. Sharers' \subseteq Sharers /\ Publishers' \subseteq Publishers \cap Sharers'
  BY HookSharers, HookFacts
<1>4. LifecycleStep
  BY <1>1, <1>2, <1>3, LWithdraw DEF FilesSame, BlobsSame
<1>5. Honest
  BY HookHonest DEF spoolVars
<1> QED BY <1>2, <1>4, <1>5 DEF Sound

LEMMA HookFenceSound ==
  ASSUME Inner, GapAccounted, setup' = setup, NEW r \in Records, HookFence(r)
  PROVE  Sound
<1>1. Moves(r, "fenced") /\ hookFence' = hookFence \cup {r} /\ exclusive = "none" /\ hookPc[r] = "idle"
      /\ UNCHANGED <<spoolVars, cas, scanSlot>>
  BY DEF HookFence, Arrives, Moves, CanShare
<1>2. SpoolShrinks /\ Kept
  BY <1>1, StillShrinks
<1>3. PICK s \in HookStates : s = "fenced"
  BY DEF HookStates
<1>4. Inner' /\ RowsSame /\ exclusive' = exclusive
  BY <1>1, <1>2, <1>3, HookInner, HookFacts DEF SpoolShrinks, Kept, Fencing, Unwritten, Publishing
<1>5. Sharers' = Sharers \cup {r} /\ Publishers' = Publishers
  <2>1. r \notin Publishers
    BY <1>1 DEF Publishers
  <2> QED BY <1>1, <1>3, <2>1, HookSharers
<1>6. LifecycleStep
  BY <1>1, <1>2, <1>4, <1>5, LShare DEF FilesSame, BlobsSame
<1>7. Honest
  BY <1>1, <1>3, HookHonest DEF spoolVars
<1> QED BY <1>4, <1>6, <1>7 DEF Sound

LEMMA HookPutSound ==
  ASSUME Inner, GapAccounted, setup' = setup, NEW r \in Records, HookPut(r)
  PROVE  Sound
<1>1. Moves(r, "published") /\ hookFence' = hookFence /\ hookPc[r] = "fenced"
      /\ UNCHANGED <<spoolVars, scanSlot>> /\ cas' = cas \cup {Digest[r]}
  BY DEF HookPut, Moves
<1>2. SpoolShrinks /\ Kept
  BY <1>1, StillShrinks
<1>3. PICK s \in HookStates : s = "published"
  BY DEF HookStates
<1>4. r \in hookFence /\ r \notin MainRecords /\ r \in Sharers
  BY <1>1, HookFacts DEF Publishing, Unwritten
<1>5. Inner' /\ RowsSame /\ exclusive' = exclusive
  BY <1>1, <1>2, <1>3, <1>4, HookInner, HookFacts DEF SpoolShrinks, Kept, Fencing
<1>6. Sharers' = Sharers /\ Publishers' = Publishers \cup {r}
  BY <1>1, <1>3, HookSharers
<1>7. LifecycleStep
  BY <1>1, <1>2, <1>4, <1>5, <1>6, LPublish DEF FilesSame
<1>8. Honest
  BY <1>1, <1>3, HookHonest DEF spoolVars
<1> QED BY <1>5, <1>7, <1>8 DEF Sound

\* A hook that has published writes and goes on, ends or dies.
LEMMA HookWrites ==
  ASSUME Inner, GapAccounted, setup' = setup, NEW r \in Records, hookPc[r] = "published",
         NEW e \in AppendEffects, AppendWrites(r, e), NEW s \in {"durable", "scanning", "killed"},
         s = "durable" => e = "whole", Moves(r, s),
         hookFence' = hookFence \/ hookFence' = hookFence \ {r}, UNCHANGED <<cas, scanSlot>>
  PROVE  Sound
<1>1. r \in hookFence /\ r \notin MainRecords /\ r \in Sharers /\ r \in Publishers
  <2>1. hookPc[r] \in Publishing /\ hookPc[r] \in Unwritten
    BY DEF Publishing, Unwritten
  <2> QED BY <2>1, HookFacts DEF Publishers
<1>2. /\ Shape' /\ Follows /\ QuarantinedRecords' = QuarantinedRecords /\ markers' = markers
      /\ MainRecords' = IF e = "whole" THEN MainRecords \cup {r} ELSE MainRecords
  BY <1>1, AppendEffect DEF Inner
<1>3. s \in HookStates /\ s \notin Unwritten /\ s \notin Publishing
  BY DEF HookStates, Outcomes, Unwritten, Publishing
<1>4. Inner' /\ RowsSame /\ exclusive' = exclusive
  BY <1>1, <1>2, <1>3, HookInner, HookFacts DEF Fencing
<1>5. (Sharers' = Sharers \/ Sharers' = Sharers \ {r}) /\ Publishers' = Publishers \ {r}
  BY <1>3, HookSharers
<1>6. LifecycleStep
  <2>1. CASE e = "whole"
    BY <1>1, <1>2, <1>4, <1>5, <2>1, LRefer DEF BlobsSame
  <2>2. CASE e # "whole"
    BY <1>1, <1>2, <1>4, <1>5, <2>2, LWithdraw, HookFacts DEF FilesSame, Kept, BlobsSame
  <2> QED BY <2>1, <2>2
<1>7. Honest
  <2>1. s = "durable" => r \in MainRecords'
    BY <1>2
  <2> QED BY <1>2, <1>3, <2>1, HookHonest
<1> QED BY <1>4, <1>6, <1>7 DEF Sound

\* A hook at the emergency slots.
LEMMA HookMarks ==
  ASSUME Inner, GapAccounted, setup' = setup, NEW r \in Records, hookPc[r] \in {"scanning", "marking"},
         NEW s \in {"scanning", "marking", "gap"}, Moves(r, s),
         hookFence' = hookFence \/ hookFence' = hookFence \ {r},
         UNCHANGED <<active, sealed, quarantine, nextId, cas>>, markers' \subseteq Marker,
         scanSlot' \in [Records -> 0 .. EmergencySlots],
         \A m \in markers : ~m.torn => m \in markers',
         s = "gap" => \E m \in markers' : m.rec = r /\ ~m.torn
  PROVE  Sound
<1>1. Shape' /\ Follows /\ Kept
  BY MarkersEffect DEF Inner
<1>2. s \in HookStates /\ s \notin Unwritten /\ s \notin Publishing
  BY DEF HookStates, Outcomes, Unwritten, Publishing
<1>3. Inner' /\ RowsSame /\ exclusive' = exclusive
  BY <1>1, <1>2, HookInner, HookFacts DEF Fencing, Kept
<1>4. Sharers' \subseteq Sharers /\ Publishers' \subseteq Publishers \cap Sharers'
  BY <1>2, HookSharers, HookFacts
<1>5. LifecycleStep
  BY <1>1, <1>3, <1>4, LWithdraw DEF FilesSame, BlobsSame
<1>6. Honest
  BY <1>2, HookHonest
<1> QED BY <1>3, <1>5, <1>6 DEF Sound

LEMMA HookTrySlotSound ==
  ASSUME Inner, GapAccounted, setup' = setup, NEW r \in Records, HookTrySlot(r)
  PROVE  Sound
<1>1. hookPc[r] = "scanning" /\ UNCHANGED <<cas, daemonVars>>
  BY DEF HookTrySlot
<1>2. \A s : hookPc' = [hookPc EXCEPT ![r] = s] => Moves(r, s)
  BY <1>1 DEF Moves
<1>3. markers \subseteq Marker /\ scanSlot \in [Records -> 0 .. EmergencySlots]
  BY HookFacts DEF Inner, Shape, SpoolTypeOK
<1>4. CASE /\ scanSlot[r] \in Slots /\ CreateMarker(scanSlot[r], r)
           /\ hookPc' = [hookPc EXCEPT ![r] = "marking"] /\ UNCHANGED <<hookFence, scanSlot>>
  <2>1. markers' = markers \cup {[slot |-> scanSlot[r], rec |-> r, torn |-> TRUE]}
        /\ UNCHANGED <<active, sealed, quarantine, nextId>>
    BY <1>4 DEF CreateMarker
  <2>2. markers' \subseteq Marker
    <3>1. PICK t : t = [slot |-> scanSlot[r], rec |-> r, torn |-> TRUE]
      OBVIOUS
    <3>2. t \in Marker
      BY <1>4, <3>1 DEF Marker
    <3> QED BY <1>3, <2>1, <3>1, <3>2
  <2>3. \A m \in markers : m \in markers'
    BY <2>1
  <2> QED BY <1>1, <1>2, <1>3, <1>4, <2>1, <2>2, <2>3, HookMarks
<1>5. CASE /\ scanSlot[r] \in Slots /\ scanSlot' = [scanSlot EXCEPT ![r] = @ + 1]
           /\ UNCHANGED <<spoolVars, hookPc, hookFence>>
  <2>1. scanSlot' \in [Records -> 0 .. EmergencySlots]
    <3>1. EmergencySlots \in Nat
      BY SpoolLimitsAssumption DEF SpoolLimitsAssumption
    <3>2. PICK n : n = scanSlot[r] + 1
      OBVIOUS
    <3>3. n \in 0 .. EmergencySlots /\ scanSlot' = [scanSlot EXCEPT ![r] = n]
      BY <1>5, <3>1, <3>2 DEF Slots
    <3> QED BY <1>3, <3>3
  <2>2. hookPc' = [hookPc EXCEPT ![r] = "scanning"]
    BY <1>1, <1>5, HookFacts
  <2>3. UNCHANGED <<active, sealed, quarantine, nextId, markers>>
    BY <1>5 DEF spoolVars
  <2> QED BY <1>1, <1>2, <1>3, <1>5, <2>1, <2>2, <2>3, HookMarks
<1>6. CASE HookEnd(r, "lost") /\ UNCHANGED <<spoolVars, scanSlot>>
  <2>1. Moves(r, "lost") /\ hookFence' = hookFence \ {r}
    BY <1>2, <1>6 DEF HookEnd
  <2>2. PICK s \in HookStates \ {"durable", "gap", "published", "fenced", "idle"} : s = "lost"
    BY DEF HookStates, Outcomes
  <2> QED BY <1>1, <1>6, <2>1, <2>2, HookWithdraws
<1> QED BY <1>4, <1>5, <1>6 DEF HookTrySlot

LEMMA HookWriteMarkerSound ==
  ASSUME Inner, GapAccounted, setup' = setup, NEW r \in Records, HookWriteMarker(r)
  PROVE  Sound
<1>1. hookPc[r] = "marking" /\ UNCHANGED <<cas, scanSlot, daemonVars>> /\ Moves(r, "gap")
      /\ hookFence' = hookFence \ {r} /\ WriteMarker(scanSlot[r], r)
  BY DEF HookWriteMarker, HookEnd, Moves
<1>2. PICK t : t = [slot |-> scanSlot[r], rec |-> r, torn |-> TRUE]
  OBVIOUS
<1>3. PICK m : m = [t EXCEPT !.torn = FALSE]
  OBVIOUS
<1>4. t \in markers /\ markers' = (markers \ {t}) \cup {m} /\ UNCHANGED <<active, sealed, quarantine, nextId>>
  BY <1>1, <1>2, <1>3 DEF WriteMarker
<1>5. markers \subseteq Marker
  BY DEF Inner, Shape, SpoolTypeOK
<1>6. t.torn /\ m \in Marker /\ m.rec = r /\ ~m.torn
  BY <1>2, <1>3, <1>4, <1>5 DEF Marker
<1>7. markers' \subseteq Marker /\ \A n \in markers : ~n.torn => n \in markers'
  BY <1>4, <1>5, <1>6
<1> QED BY <1>1, <1>4, <1>6, <1>7, HookMarks, HookFacts

LEMMA HookKilledSound ==
  ASSUME Inner, GapAccounted, setup' = setup, NEW r \in Records, HookKilled(r)
  PROVE  Sound
<1>1. Moves(r, "killed") /\ hookFence' = hookFence \ {r} /\ UNCHANGED <<cas, scanSlot>>
  BY DEF HookKilled, HookEnd, Moves
<1>2. CASE UNCHANGED spoolVars
  <2>1. PICK s \in HookStates \ {"durable", "gap", "published", "fenced", "idle"} : s = "killed"
    BY DEF HookStates, Outcomes
  <2> QED BY <1>1, <1>2, <2>1, HookWithdraws
<1>3. CASE hookPc[r] = "published" /\ \E e \in AppendEffects : AppendWrites(r, e)
  BY <1>1, <1>3, HookWrites
<1> QED BY <1>2, <1>3 DEF HookKilled

LEMMA HookStepSound ==
  ASSUME Inner, GapAccounted, setup' = setup, NEW r \in Records, HookStep(r)
  PROVE  Sound
<1> DEFINE Ends == HookStates \ {"durable", "gap", "published", "fenced", "idle"}
<1>1. CASE HookRefused(r)
  <2>1. PICK s \in Ends : s = "refused"
    BY DEF HookStates, Outcomes
  <2>2. Moves(r, s) /\ hookFence' = hookFence \ {r} /\ UNCHANGED <<spoolVars, cas, scanSlot>>
    BY <1>1, <2>1 DEF HookRefused, HookEnd, Moves
  <2> QED BY <2>2, HookWithdraws
<1>2. CASE HookFence(r)
  BY <1>2, HookFenceSound
<1>3. CASE HookFenceBusy(r) \/ HookPutFails(r) \/ HookAppendRefused(r)
  <2>1. PICK s \in Ends : s = "scanning"
    BY DEF HookStates, Outcomes
  <2>2. Moves(r, s) /\ hookFence' = hookFence /\ UNCHANGED <<spoolVars, cas, scanSlot>>
    BY <1>3, <2>1 DEF HookFenceBusy, HookPutFails, HookAppendRefused, Moves
  <2> QED BY <2>2, HookWithdraws
<1>4. CASE HookPut(r)
  BY <1>4, HookPutSound
<1>5. CASE HookAppend(r)
  <2>1. "whole" \in AppendEffects
    BY DEF AppendEffects
  <2> QED BY <1>5, <2>1, HookWrites DEF HookAppend, HookEnd, Moves
<1>6. CASE HookAppendFails(r)
  BY <1>6, HookWrites DEF HookAppendFails, Moves
<1>7. CASE HookTrySlot(r)
  BY <1>7, HookTrySlotSound
<1>8. CASE HookWriteMarker(r)
  BY <1>8, HookWriteMarkerSound
<1>9. CASE HookMarkerFails(r)
  <2>1. PICK s \in Ends : s = "lost"
    BY DEF HookStates, Outcomes
  <2>2. Moves(r, s) /\ hookFence' = hookFence \ {r} /\ UNCHANGED <<spoolVars, cas, scanSlot>>
    BY <1>9, <2>1 DEF HookMarkerFails, HookEnd, Moves
  <2> QED BY <2>2, HookWithdraws
<1>10. CASE HookKilled(r)
  BY <1>10, HookKilledSound
<1> QED BY <1>1, <1>2, <1>3, <1>4, <1>5, <1>6, <1>7, <1>8, <1>9, <1>10 DEF HookStep

-----------------------------------------------------------------------------
(* Every step.                                                                *)

LEMMA DrainStepSound ==
  ASSUME Inner, GapAccounted, setup' = setup, NEW w \in Workers, DrainStep(w)
  PROVE  Sound
<1>1. CASE StartSegment(w) \/ SkipFrame(w) \/ TerminalFrame(w) \/ VerifyFrame(w) \/ CommitFrame(w)
  BY <1>1, StartSegmentSound, SkipFrameSound, TerminalFrameSound, VerifyFrameSound, CommitFrameSound
<1>2. CASE AckSegment(w) \/ AckFails(w) \/ EndSegment(w) \/ EndDrain(w)
  BY <1>2, AckSegmentSound, AckFailsSound, EndSegmentSound, EndDrainSound
<1>3. CASE DiscardFence(w) \/ DiscardView(w) \/ DiscardDelete(w) \/ DiscardAck(w)
  BY <1>3, DiscardFenceSound, DiscardViewSound, DiscardDeleteSound, DiscardAckSound
<1> QED BY <1>1, <1>2, <1>3 DEF DrainStep

LEMMA PageStepSound ==
  ASSUME Inner, GapAccounted, setup' = setup, PageStep
  PROVE  Sound
<1>1. "page" \in Workers
  BY DEF Workers
<1>2. CASE SealPage \/ ClaimPage
  BY <1>2, SealPageSound, ClaimPageSound
<1>3. CASE SealFails("page") \/ PageMarkersFail
  BY <1>1, <1>3, FailsStep DEF SealFails, PageMarkersFail
<1>4. CASE ClaimNothing
  BY <1>1, <1>4, AbandonStep DEF ClaimNothing
<1>5. CASE DrainStep("page")
  BY <1>1, <1>5, DrainStepSound
<1> QED BY <1>2, <1>3, <1>4, <1>5 DEF PageStep

LEMMA TargetedStepSound ==
  ASSUME Inner, GapAccounted, setup' = setup, TargetedStep
  PROVE  Sound
<1>1. "targeted" \in Workers
  BY DEF Workers
<1>2. CASE Open \/ SealTargeted \/ ClaimAll
  BY <1>2, OpenSound, SealTargetedSound, ClaimAllSound
<1>3. CASE SealFails("targeted")
  BY <1>1, <1>3, FailsStep DEF SealFails
<1>4. CASE TargetedGivesUp
  BY <1>1, <1>4, AbandonStep DEF TargetedGivesUp
<1>5. CASE DrainStep("targeted")
  BY <1>1, <1>5, DrainStepSound
<1> QED BY <1>2, <1>3, <1>4, <1>5 DEF TargetedStep

LEMMA GcStepSound ==
  ASSUME Inner, GapAccounted, setup' = setup, GcStep
  PROVE  Sound
BY GcListSound, GcAuthoritySound, GcMarkSound, GcSweepFenceSound, GcDeleteSound, GcEndSound DEF GcStep

LEMMA PurgeStepSound ==
  ASSUME Inner, GapAccounted, setup' = setup, PurgeStep
  PROVE  Sound
BY PurgeConfirmSound, PurgeStageSound, PurgeBatchFenceSound, PurgeBatchViewSound, PurgeBatchDeleteSound,
   PurgeBatchCommitSound DEF PurgeStep

LEMMA NextSound ==
  ASSUME Inner, GapAccounted, Next
  PROVE  Sound
<1>1. setup' = setup
  BY DEF Next
<1>2. CASE \E r \in Records : HookStep(r)
  BY <1>1, <1>2, HookStepSound
<1>3. CASE PageStep \/ TargetedStep
  BY <1>1, <1>3, PageStepSound, TargetedStepSound
<1>4. CASE \E m \in markers : ImportGap(m) \/ AcknowledgeGap(m)
  BY <1>1, <1>4, ImportGapSound, AcknowledgeGapSound
<1>5. CASE GcStep \/ PurgeStep
  BY <1>1, <1>5, GcStepSound, PurgeStepSound
<1>6. CASE DaemonRecover \/ DaemonKilled \/ Damage
  BY <1>1, <1>6, DaemonRecoverSound, DaemonKilledSound, DamageSound
<1> QED BY <1>2, <1>3, <1>4, <1>5, <1>6 DEF Next

-----------------------------------------------------------------------------
(* What a step of the blob lifecycle keeps, for whoever implements it.        *)

\* What only grows.
Grown ==
  /\ Purged \subseteq Purged' /\ Committed \subseteq Committed'
  /\ QuarantinedRecords \subseteq QuarantinedRecords'
\* A step adds blobs, or takes the ones away that nobody needs, or is about rows.
Adds ==
  /\ cas \subseteq cas' /\ \A r \in Publishers' : r \in Publishers \/ Digest[r] \in cas'
  /\ (MainRecords \cup Committed)' \subseteq MainRecords \cup Committed
  /\ QuarantinedRecords' = QuarantinedRecords
Takes ==
  /\ exclusive # "none" /\ NeededBlobs \cap cas \subseteq cas' /\ Publishers' = Publishers
  /\ (MainRecords \cup Committed)' = MainRecords \cup Committed
  /\ Purged' = Purged /\ QuarantinedRecords' = QuarantinedRecords
Moved ==
  /\ cas' = cas /\ Publishers' \subseteq Publishers
  /\ \A r \in (MainRecords \cup Committed)' :
       r \in MainRecords \cup Committed \cup Publishers \/ Digest[r] \in cas
  /\ QuarantinedRecords' \subseteq QuarantinedRecords \cup MainRecords

LEMMA LifecycleEffect ==
  ASSUME LifecycleStep
  PROVE  Grown /\ LeavesAccounted /\ (Adds \/ Takes \/ Moved)
<1>1. CASE Lifecycle!Withdraw
  <2>1. Publishers' \subseteq Publishers /\ UNCHANGED <<cas, MainRecords, QuarantinedRecords, Committed, Purged>>
    BY <1>1 DEF Lifecycle!Withdraw, Publishers
  <2> QED BY <2>1 DEF Grown, LeavesAccounted, IsPurged, Moved
<1>2. CASE \E h \in Records \cup Workers : Lifecycle!Share(h)
  <2>1. UNCHANGED <<Publishers, cas, MainRecords, QuarantinedRecords, Committed, Purged>>
    BY <1>2 DEF Lifecycle!Share, Publishers
  <2> QED BY <2>1 DEF Grown, LeavesAccounted, IsPurged, Moved
<1>3. CASE \E r \in Records : Lifecycle!PublishBlob(r)
  <2>1. PICK r \in Records : /\ Publishers' = Publishers \cup {r} /\ cas' = cas \cup {Digest[r]}
                             /\ UNCHANGED <<MainRecords, QuarantinedRecords, Committed, Purged>>
    BY <1>3 DEF Lifecycle!PublishBlob, Publishers
  <2> QED BY <2>1 DEF Grown, LeavesAccounted, IsPurged, Adds
<1>4. CASE \E r \in Records : Lifecycle!Refer(r)
  <2>1. PICK r \in Records : /\ r \in Publishers /\ Publishers' = Publishers \ {r}
                             /\ MainRecords' = MainRecords \cup {r}
                             /\ UNCHANGED <<cas, QuarantinedRecords, Committed, Purged>>
    BY <1>4 DEF Lifecycle!Refer, Publishers
  <2> QED BY <2>1 DEF Grown, LeavesAccounted, IsPurged, Moved
<1>5. CASE \E r \in Records : Lifecycle!Commit(r)
  <2>1. PICK r \in Records : /\ Digest[r] \in cas /\ Committed' = Committed \cup {r}
                             /\ UNCHANGED <<Publishers, cas, MainRecords, QuarantinedRecords, Purged>>
    BY <1>5 DEF Lifecycle!Commit, Publishers
  <2> QED BY <2>1 DEF Grown, LeavesAccounted, IsPurged, Moved
<1>6. CASE \E S \in SUBSET Records : Lifecycle!Acknowledge(S)
  <2>1. PICK S \in SUBSET Records : /\ S \subseteq MainRecords /\ MainRecords' = MainRecords \ S
                                    /\ \A r \in S : r \in Committed \/ RepoOf[r] \in Purged
                                    /\ UNCHANGED <<Publishers, cas, QuarantinedRecords, Committed, Purged>>
    BY <1>6 DEF Lifecycle!Acknowledge, Lifecycle!Visible, Publishers
  <2>2. Grown /\ Moved
    BY <2>1 DEF Grown, Moved
  <2>3. \A r \in MainRecords \ MainRecords' : r \in Committed \/ RepoOf[r] \in Purged
    BY <2>1
  <2> QED BY <2>1, <2>2, <2>3 DEF LeavesAccounted, IsPurged
<1>7. CASE \E S \in SUBSET Records : Lifecycle!Preserve(S)
  <2>1. PICK S \in SUBSET Records : /\ S \subseteq MainRecords /\ MainRecords' = MainRecords \ S
                                    /\ QuarantinedRecords' = QuarantinedRecords \cup S
                                    /\ UNCHANGED <<Publishers, cas, Committed, Purged>>
    BY <1>7 DEF Lifecycle!Preserve, Publishers
  <2> QED BY <2>1 DEF Grown, LeavesAccounted, IsPurged, Moved
<1>8. CASE \E p \in Repos : Lifecycle!Purge(p)
  <2>1. PICK p \in Repos : /\ Purged' = Purged \cup {p}
                           /\ UNCHANGED <<Publishers, cas, MainRecords, QuarantinedRecords, Committed>>
    BY <1>8 DEF Lifecycle!Purge, Publishers
  <2> QED BY <2>1 DEF Grown, LeavesAccounted, IsPurged, Moved
<1>9. CASE Lifecycle!Exclude
  <2>1. UNCHANGED <<Publishers, cas, MainRecords, QuarantinedRecords, Committed, Purged>>
    BY <1>9 DEF Lifecycle!Exclude, Publishers
  <2> QED BY <2>1 DEF Grown, LeavesAccounted, IsPurged, Moved
<1>10. CASE \E D \in SUBSET Blobs : Lifecycle!Delete(D)
  <2>1. PICK D \in SUBSET Blobs : /\ exclusive # "none" /\ D \cap NeededBlobs = {} /\ cas' = cas \ D
                                  /\ UNCHANGED <<Publishers, MainRecords, QuarantinedRecords, Committed, Purged>>
    BY <1>10 DEF Lifecycle!Delete, Lifecycle!Needed, Lifecycle!Visible, Publishers, NeededBlobs, Refs
  <2> QED BY <2>1 DEF Grown, LeavesAccounted, IsPurged, Takes
<1>11. CASE UNCHANGED Lifecycle!lifecycleVars
  <2>1. UNCHANGED <<Publishers, cas, MainRecords, QuarantinedRecords, Committed, Purged>>
    BY <1>11 DEF Lifecycle!lifecycleVars, Publishers
  <2> QED BY <2>1 DEF Grown, LeavesAccounted, IsPurged, Moved
<1> QED BY <1>1, <1>2, <1>3, <1>4, <1>5, <1>6, <1>7, <1>8, <1>9, <1>10, <1>11
        DEF LifecycleStep, Lifecycle!LifecycleNext

LEMMA LifecycleKeeps ==
  ASSUME Inner, Backed, DurableNotLost, LifecycleStep, Honest
  PROVE  Backed' /\ DurableNotLost' /\ LeavesAccounted
<1>1. Grown /\ LeavesAccounted /\ (Adds \/ Takes \/ Moved)
  BY LifecycleEffect
<1>2. \A r \in MainRecords \cup Committed : RepoOf[r] \notin Purged => Digest[r] \in cas
  BY DEF Backed, BlobBacked, IsPurged
<1>3. \A r \in Publishers : Digest[r] \in cas
  BY DEF Backed, Publishers
<1>4. exclusive # "none" => Publishers = {}
  BY DEF Inner, Hooked, Publishing, Publishers
<1>5. \A r \in (MainRecords \cup Committed)' : RepoOf[r] \notin Purged' => Digest[r] \in cas'
  <2>1. Purged \subseteq Purged'
    BY <1>1 DEF Grown
  <2>3. CASE Adds
    BY <1>2, <2>1, <2>3 DEF Adds
  <2>4. CASE Takes
    <3>1. \A r \in MainRecords \cup Committed : RepoOf[r] \notin Purged => Digest[r] \in NeededBlobs
      BY DEF NeededBlobs, Refs
    <3> QED BY <1>2, <2>4, <3>1 DEF Takes
  <2>5. CASE Moved
    BY <1>2, <1>3, <2>1, <2>5 DEF Moved
  <2> QED BY <1>1, <2>3, <2>4, <2>5
<1>6. \A r \in Publishers' : Digest[r] \in cas'
  BY <1>1, <1>3, <1>4 DEF Adds, Takes, Moved
<1>7. Purged' = {} => Refs(QuarantinedRecords)' \subseteq cas'
  <2> SUFFICES ASSUME Purged' = {} PROVE Refs(QuarantinedRecords)' \subseteq cas'
    OBVIOUS
  <2>1. Purged = {}
    BY <1>1 DEF Grown
  <2>2. Refs(QuarantinedRecords) \subseteq cas /\ Refs(QuarantinedRecords) \cap cas \subseteq cas'
    BY <2>1 DEF Backed, QuarantineBacked, Honest
  <2>3. Refs(QuarantinedRecords) \subseteq cas' /\ Refs(MainRecords) \subseteq cas
    BY <1>2, <2>1, <2>2 DEF Refs
  <2>4. CASE QuarantinedRecords' = QuarantinedRecords
    BY <2>3, <2>4 DEF Refs
  <2>5. CASE QuarantinedRecords' \subseteq QuarantinedRecords \cup MainRecords /\ cas' = cas
    BY <2>3, <2>5 DEF Refs
  <2> QED BY <1>1, <2>4, <2>5 DEF Adds, Takes, Moved
<1>8. Backed'
  BY <1>5, <1>6, <1>7 DEF Backed, BlobBacked, QuarantineBacked, IsPurged, Publishers
<1>9. DurableNotLost'
  <2> SUFFICES ASSUME NEW r \in Records, hookPc'[r] = "durable"
               PROVE  r \in (MainRecords \cup Committed \cup QuarantinedRecords)' \/ RepoOf[r] \in Purged'
    BY DEF DurableNotLost, IsPurged
  <2>1. hookPc[r] = "durable" \/ r \in MainRecords'
    BY DEF Honest
  <2>2. hookPc[r] = "durable" =>
          r \in MainRecords \cup Committed \cup QuarantinedRecords \/ RepoOf[r] \in Purged
    BY DEF DurableNotLost, IsPurged
  <2> QED BY <1>1, <2>1, <2>2 DEF Grown, LeavesAccounted, IsPurged
<1> QED BY <1>1, <1>8, <1>9

-----------------------------------------------------------------------------
(* The initial states.                                                        *)

LEMMA InitRows ==
  ASSUME Init
  PROVE  /\ MainRecords = {} /\ QuarantinedRecords = {} /\ Committed = {} /\ Purged = {}
         /\ \A w \in Workers : worker[w] = IdleWorker
<1>1. MainRecords = {} /\ QuarantinedRecords = {}
  BY RecordsOfEmpty DEF Init, SpoolInit, NoActive, MainRecords, QuarantinedRecords
<1>2. Committed = {}
  BY RecordsOfEmpty DEF Init, Committed
<1>3. Purged = {}
  BY DEF Init, Purged
<1>4. \A w \in Workers : worker[w] = IdleWorker
  BY DEF Init
<1> QED BY <1>1, <1>2, <1>3, <1>4

LEMMA InitLifecycle ==
  ASSUME Init
  PROVE  Lifecycle!LifecycleInit
<1>1. {w \in Workers : worker[w].fence} = {}
  BY InitRows DEF IdleWorker
<1>2. hookFence = {} /\ cas = {} /\ exclusive = "none" /\ {r \in Records : hookPc[r] = "published"} = {}
  BY DEF Init
<1> QED BY <1>1, <1>2, InitRows DEF Lifecycle!LifecycleInit

LEMMA InitInner ==
  ASSUME Init
  PROVE  Inner
<1>1. Shape
  <2>1. NoActive \in Carrier /\ NoActive.id = 0
    BY EmptySeq DEF NoActive, Carrier, Health
  <2>2. SpoolTypeOK
    BY <2>1 DEF Init, SpoolInit, SpoolTypeOK
  <2> QED BY <2>1, <2>2 DEF Init, SpoolInit, Shape
<1>2. Hooked
  <2>1. EmergencySlots \in Nat
    BY SpoolLimitsAssumption DEF SpoolLimitsAssumption
  <2>2. \A n \in Nat : n = 0 => n \in 0 .. EmergencySlots
    BY <2>1
  <2>3. HookTypeOK
    BY <2>1, <2>2 DEF Init, HookTypeOK, HookStates
  <2> QED BY <2>3, InitRows DEF Init, Hooked, Publishing
<1>3. Served
  <2>1. cursor = NoCursor /\ NoCursor \in Cursor
    BY DEF Init, NoCursor, Cursor
  <2>2. \A x \in {cursor} : CursorGood(x)
    BY <2>1 DEF CursorGood
  <2>3. IdleWorker \in WorkerType
    BY EmptySeq DEF IdleWorker, WorkerType, WorkerStates, NoClaim, Claim, NoCursor, Cursor
  <2>4. worker \in [Workers -> WorkerType]
    BY <2>3 DEF Init
  <2>5. \A w \in Workers : \A x \in {worker[w]} : Good(w, x)
    <3> SUFFICES ASSUME NEW w \in Workers PROVE Good(w, IdleWorker)
      BY InitRows
    <3>1. exclusive # w
      BY DEF Init, Workers
    <3> QED BY <2>3, <3>1, IdleGood
  <2> QED BY <2>1, <2>2, <2>4, <2>5 DEF Served
<1>4. Recorded
  BY EmptySeq DEF Init, Recorded, CommittedOnce
<1>5. Purging
  <2>1. IdlePurge \in [pc : PurgeStates, repo : Repos, batch : SUBSET Blobs, live : SUBSET Blobs, seen : Nat]
        /\ IdlePurge.pc = "idle"
    BY PipelineAssumption DEF IdlePurge, PurgeStates, PipelineAssumption
  <2>2. IdleGc \in [pc : GcStates, candidates : SUBSET Blobs, refs : SUBSET Blobs, stale : SUBSET Blobs]
    BY DEF IdleGc, GcStates
  <2>3. spent \in [restarts : 0 .. setup.restarts, rounds : 0 .. setup.rounds, damage : 0 .. setup.damage]
    <3>1. {setup.restarts, setup.rounds, setup.damage} \subseteq Nat
      BY PipelineAssumption DEF PipelineAssumption, Init
    <3>2. PICK n \in Nat : n = 0
      OBVIOUS
    <3>3. n \in 0 .. setup.restarts /\ n \in 0 .. setup.rounds /\ n \in 0 .. setup.damage
      BY <3>1, <3>2
    <3>4. spent = [restarts |-> n, rounds |-> n, damage |-> n]
      BY <3>2 DEF Init
    <3> QED BY <3>3, <3>4
  <2>4. purge \in [Repos -> [stage : PurgeStages, left : SUBSET Blobs]]
    <3>1. PICK e \in [stage : PurgeStages, left : SUBSET Blobs] : e = [stage |-> "none", left |-> {}]
      BY DEF PurgeStages
    <3> QED BY <3>1 DEF Init
  <2>5. purgeJob = IdlePurge /\ gc = IdleGc /\ setup \in Scenarios /\ exclusive = "none"
    BY DEF Init
  <2>6. MaintenanceTypeOK
    BY <2>1, <2>2, <2>3, <2>4, <2>5 DEF MaintenanceTypeOK
  <2> QED BY <2>1, <2>5, <2>6 DEF Purging
<1>6. Collecting
  BY DEF Init, Collecting, IdleGc
<1> QED BY <1>1, <1>2, <1>3, <1>4, <1>5, <1>6 DEF Inner

LEMMA InitIInv ==
  ASSUME Init
  PROVE  IInv
<1>1. Backed
  BY InitRows DEF Init, Backed, BlobBacked, QuarantineBacked, Refs
<1>2. DurableNotLost /\ GapAccounted
  BY DEF Init, DurableNotLost, GapAccounted
<1> QED BY <1>1, <1>2, InitInner DEF IInv

-----------------------------------------------------------------------------
(* The theorems.                                                              *)

LEMMA StutterSound ==
  ASSUME IInv, UNCHANGED vars
  PROVE  IInv' /\ LifecycleStep /\ MainRecords' = MainRecords
<1>1. UNCHANGED <<setup, active, sealed, quarantine, markers, nextId, cas, hookPc, hookFence, scanSlot,
                  exclusive, worker, cursor, journal, gaps, purge, purgeJob, gc, spent>>
  BY DEF vars, spoolVars, pipelineVars
<1>2. /\ Kept /\ RowsSame /\ BlobsSame /\ Sharers' = Sharers /\ Publishers' = Publishers
      /\ Shape' /\ Hooked'
  BY <1>1, SameTypes DEF IInv, Inner, Kept, MainRecords, QuarantinedRecords, RowsSame, Committed, Purged,
       BlobsSame, Sharers, Publishers, Shape, SpoolTypeOK, Hooked, HookTypeOK
<1>3. SpoolShrinks
  BY <1>1, <1>2, StillShrinks DEF IInv, Inner, spoolVars
<1>4. Inner'
  BY <1>1, <1>3, SpoolOnly DEF IInv, Inner, Purging, MaintenanceTypeOK, hookVars
<1>5. LifecycleStep
  BY <1>1, <1>2, LWithdraw DEF FilesSame, IInv, Inner, Hooked, Publishing, Publishers, Sharers
<1>6. Honest
  BY <1>1, QuietHonest DEF IInv
<1> QED BY <1>2, <1>4, <1>5, <1>6, LifecycleKeeps DEF IInv, Honest, Kept

LEMMA Keeps ==
  ASSUME IInv, [Next]_vars
  PROVE  IInv' /\ LifecycleStep /\ (LeavesAccounted \/ MainRecords' = MainRecords)
<1>1. CASE Next
  <2>1. Inner' /\ LifecycleStep /\ Honest
    BY <1>1, NextSound DEF IInv, Sound
  <2> QED BY <2>1, LifecycleKeeps DEF IInv, Honest
<1>2. CASE UNCHANGED vars
  BY <1>2, StutterSound
<1> QED BY <1>1, <1>2

\* The inductive invariant holds in every reachable state: of hooks, drains, collector and
\* purges in any order, with failures, kills, restarts and damage.
THEOREM CaptureInvariance == Spec => []IInv
<1>1. Init => IInv
  BY InitIInv
<1>2. IInv /\ [Next]_vars => IInv'
  BY Keeps
<1> QED BY <1>1, <1>2, PTL DEF Spec

LEMMA Evidence ==
  ASSUME IInv
  PROVE  EvidenceKept
<1>1. TypeOK
  BY DEF IInv, Inner, Shape, Hooked, Served, Recorded, Purging, Collecting, TypeOK, DaemonTypeOK
<1>2. FenceExclusion
  BY DEF IInv, Inner, Hooked, Served, Good, FenceExclusion
<1> QED BY <1>1, <1>2 DEF IInv, Inner, Recorded, Backed, EvidenceKept

\* What a hook called durable is never lost and is committed once, a gap stays visible, every
\* blob that the spool or a visible receipt refers to is in the CAS, and an exclusive holder of
\* the fence is alone (admission.rs, ingest.rs, cas.rs).
THEOREM EvidenceAlwaysKept == Spec => []EvidenceKept
<1>1. IInv => EvidenceKept
  BY Evidence
<1> QED BY <1>1, CaptureInvariance, PTL

\* A frame leaves the main spool only committed, purged or preserved, whichever of the ways out
\* it takes: acknowledgement, discard, recovery or quarantine (spool.rs, ingest.rs).
THEOREM FramesAlwaysLeaveAccounted == Spec => FramesLeaveAccounted
<1>1. IInv /\ [Next]_vars => [LeavesAccounted]_vars
  BY Keeps DEF LeavesAccounted
<1> QED BY <1>1, CaptureInvariance, PTL DEF Spec, FramesLeaveAccounted

\* The pipeline implements the blob lifecycle: every step of it is one the lifecycle allows, so
\* a blob is deleted only under the exclusive fence while nothing needs it (cas.rs, writer.rs).
THEOREM PipelineImplementsLifecycle == Spec => ImplementsLifecycle
<1>1. Init => Lifecycle!LifecycleInit
  BY InitLifecycle
<1>2. IInv /\ [Next]_vars => [Lifecycle!LifecycleNext]_Lifecycle!lifecycleVars
  BY Keeps DEF LifecycleStep
<1> QED BY <1>1, <1>2, CaptureInvariance, PTL DEF Spec, ImplementsLifecycle, Lifecycle!LifecycleSpec
=============================================================================

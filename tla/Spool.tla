------------------------------- MODULE Spool -------------------------------
(***************************************************************************)
(* The durable capture spool (crates/evertrace-capture/src/spool.rs): one  *)
(* active carrier file, sealed carrier files, a quarantine directory and a *)
(* fixed number of emergency gap-marker slots.                             *)
(*                                                                         *)
(* Every operation that touches the main directory runs under its flock,   *)
(* so each is one step here; what a process killed inside the critical     *)
(* section can leave behind is the "effect" of an append.  Bytes are       *)
(* counted in units: a complete frame is FrameBytes, a torn one TornBytes. *)
(* A carrier's health is "ok", "torn" (complete frames and then a partial  *)
(* one) or "bad" (damaged bytes that no longer parse).                     *)
(***************************************************************************)
EXTENDS Integers, Sequences, FiniteSets, FiniteSetsExt

CONSTANTS
  Records,        \* spool records, identified by spool_record_id
  EmergencySlots, \* SpoolLimits.emergency_slots
  Scenarios       \* the limits a spool is opened with, and what CapturePipeline adds

FrameBytes == 2
TornBytes == 1

SpoolLimitsValid(limits) ==
  /\ limits.high_watermark_bytes # 0
  /\ limits.max_main_files # 0
  /\ EmergencySlots # 0 /\ EmergencySlots <= 64

ASSUME SpoolLimitsAssumption ==
  /\ EmergencySlots \in Nat
  /\ \A sc \in Scenarios :
       /\ {sc.max_main_files, sc.high_watermark_bytes, sc.names} \subseteq Nat
       /\ SpoolLimitsValid(sc)

VARIABLES
  active,      \* the active carrier; id 0 when the file does not exist
  sealed,      \* the sealed carriers of the main directory
  quarantine,  \* the carriers moved to the quarantine directory
  markers,     \* the occupied emergency slots
  nextId,      \* the file identity (inode, times) the next created file gets
  setup        \* the scenario of this behaviour; it never changes

MaxMainFiles == setup.max_main_files
HighBytes == setup.high_watermark_bytes
NameLimit == setup.names   \* how many segment names unique_path tries (1024)

spoolVars == <<active, sealed, quarantine, markers, nextId>>

Slots == 0 .. EmergencySlots - 1
SegNames == 0 .. NameLimit - 1
Health == {"ok", "torn", "bad"}

Carrier == [id : Nat, frames : Seq(Records), health : Health]
Segment == [name : SegNames, id : Nat, frames : Seq(Records), health : Health]
Marker == [slot : Slots, rec : Records, torn : BOOLEAN]

NoActive == [id |-> 0, frames |-> <<>>, health |-> "ok"]

SpoolInit ==
  /\ active = NoActive
  /\ sealed = {}
  /\ quarantine = {}
  /\ markers = {}
  /\ nextId = 1

RecordsOf(s) == {s[i] : i \in 1 .. Len(s)}
ActiveExists == active.id # 0
Bytes(c) == FrameBytes * Len(c.frames) + (IF c.health = "torn" THEN TornBytes ELSE 0)

\* main_usage: what the watermarks and the file limit are compared with.
MainBytes == MapThenSumSet(Bytes, sealed) + Bytes(active)
MainFiles == Cardinality(sealed) + (IF ActiveExists THEN 1 ELSE 0)

\* Records whose complete frame is in a file of the main directory.
MainRecords == RecordsOf(active.frames) \cup UNION {RecordsOf(c.frames) : c \in sealed}
QuarantinedRecords == UNION {RecordsOf(c.frames) : c \in quarantine}

-----------------------------------------------------------------------------
(* append: admission first, then the existing file is validated without    *)
(* repairing it, then one frame is written and synced.                      *)

\* Mutant: the frame about to be written is not counted.
AppendPressureUncounted ==
  \/ ~ActiveExists /\ MainFiles >= MaxMainFiles
  \/ MainBytes > HighBytes

AppendPressure ==
  \/ ~ActiveExists /\ MainFiles >= MaxMainFiles
  \/ MainBytes + FrameBytes > HighBytes

AppendAdmitted == ~AppendPressure
AppendRefused == AppendAdmitted /\ active.health # "ok"

\* What a write that began can leave: only the created file, a partial frame
\* after the complete ones, or the whole frame.
AppendEffects == {"created", "torn", "whole"}

AppendWrites(r, effect) ==
  /\ AppendAdmitted
  /\ ~AppendRefused
  /\ active' = [id |-> IF ActiveExists THEN active.id ELSE nextId,
                frames |-> IF effect = "whole" THEN Append(active.frames, r)
                                               ELSE active.frames,
                health |-> IF effect = "torn" THEN "torn" ELSE "ok"]
  /\ nextId' = IF ActiveExists THEN nextId ELSE nextId + 1
  /\ UNCHANGED <<sealed, quarantine, markers>>

(* seal_active: rename the active file to the first free segment name.      *)
(* Nothing is validated: a torn tail is sealed with the rest.               *)
\* Mutant: one name too many is tried.
FreeNamesBeyond == {n \in 0 .. NameLimit : \A c \in sealed : c.name # n}

FreeNames == {n \in SegNames : \A c \in sealed : c.name # n}
Sealable == ActiveExists /\ (Len(active.frames) > 0 \/ active.health # "ok")
SealBlocked == Sealable /\ FreeNames = {}
SealedAs(n) == [name |-> n, id |-> active.id, frames |-> active.frames, health |-> active.health]

SealActive ==
  /\ \/ ~Sealable /\ UNCHANGED <<active, sealed>>
     \/ /\ Sealable
        /\ \E n \in FreeNames :
             /\ \A k \in FreeNames : n <= k
             /\ sealed' = sealed \cup {SealedAs(n)}
        /\ active' = NoActive
  /\ UNCHANGED <<quarantine, markers, nextId>>

(* quarantine: rename a carrier out of the main directory, bytes untouched. *)
AsCarrier(c) == [id |-> c.id, frames |-> c.frames, health |-> c.health]
Unreadable(c) == c.health # "ok" \/ Len(c.frames) = 0

(* recover, run by every read-write open of the spool: unreadable sealed    *)
(* carriers go to quarantine, a torn active tail is cut back to its         *)
(* complete frames, a damaged active file goes to quarantine.               *)
TailRepaired == ActiveExists /\ active.health = "torn"

Recover ==
  LET invalid == {c \in sealed : Unreadable(c)}
      badActive == ActiveExists /\ active.health = "bad"
  IN /\ sealed' = sealed \ invalid
     /\ quarantine' = quarantine \cup {AsCarrier(c) : c \in invalid}
                                 \cup (IF badActive THEN {active} ELSE {})
     /\ active' = IF badActive THEN NoActive
                  ELSE IF TailRepaired THEN [active EXCEPT !.health = "ok"]
                  ELSE active
     /\ UNCHANGED <<markers, nextId>>

(* ingest_page on an unreadable carrier: the whole carrier is preserved.    *)

\* Mutant: the unreadable carrier is dropped.
QuarantineSegmentDrops(c) ==
  /\ c \in sealed
  /\ sealed' = sealed \ {c}
  /\ UNCHANGED <<active, quarantine, markers, nextId>>

QuarantineSegment(c) ==
  /\ c \in sealed
  /\ sealed' = sealed \ {c}
  /\ quarantine' = quarantine \cup {AsCarrier(c)}
  /\ UNCHANGED <<active, markers, nextId>>

(* acknowledge_segment: unlink the carrier the caller still holds.  The     *)
(* path must still name the very file that was claimed.                     *)
SameFile(c, d) == c.name = d.name /\ c.id = d.id
AcknowledgeSegment(c) ==
  /\ \E d \in sealed : SameFile(c, d)
  /\ sealed' = {d \in sealed : ~SameFile(c, d)}
  /\ UNCHANGED <<active, quarantine, markers, nextId>>

-----------------------------------------------------------------------------
(* Readers of the whole main directory.                                     *)

\* visit_durable_records fails on any file it cannot parse to its end.
MainReadable ==
  /\ active.health = "ok"
  /\ \A c \in sealed : c.health = "ok"

\* Mutant: quarantined bytes are taken for an empty reference set.
GcReadableMainOnly == MainReadable

\* gc_cas_refs_intersect also fails while anything is quarantined.
GcReadable == quarantine = {} /\ MainReadable

-----------------------------------------------------------------------------
(* Emergency gap markers.  write_gap_marker creates a slot file and then    *)
(* writes it: until the write is done, or for ever if the writer dies, the  *)
(* slot holds a marker that does not decode.                                *)

SlotFree(s) == \A m \in markers : m.slot # s
CreateMarker(s, r) ==
  /\ SlotFree(s)
  /\ markers' = markers \cup {[slot |-> s, rec |-> r, torn |-> TRUE]}
  /\ UNCHANGED <<active, sealed, quarantine, nextId>>

WriteMarker(s, r) ==
  LET torn == [slot |-> s, rec |-> r, torn |-> TRUE]
  IN /\ torn \in markers
     /\ markers' = (markers \ {torn}) \cup {[torn EXCEPT !.torn = FALSE]}
     /\ UNCHANGED <<active, sealed, quarantine, nextId>>

\* pending_gap_markers, pending_gap_marker_handles: one marker that does not
\* decode fails the whole listing.
MarkersReadable == \A m \in markers : ~m.torn

AcknowledgeMarker(m) ==
  /\ m \in markers
  /\ markers' = markers \ {m}
  /\ UNCHANGED <<active, sealed, quarantine, nextId>>
=============================================================================

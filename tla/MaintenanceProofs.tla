------------------------- MODULE MaintenanceProofs -------------------------
(* Machine-checked proofs about the two things done to a host from outside its *)
(* daemon: backup and restore, for every set of captures and every scenario,   *)
(* and installation, removal and upgrade of the package, for every set of      *)
(* sessions and every layout of the store, with failures and kills anywhere.   *)
EXTENDS BackupRestore, PackageInstall, TLAPS

-----------------------------------------------------------------------------
(* The inductive invariant.                                                    *)

Purges == {"none", "Pending", "Closed", "Deleting", "Purged"}
States == {"none", "Queued", "Leased", "Succeeded", "Failed"}
Root == [id : Nat \ {0}, items : SUBSET Records, spool : SUBSET Records, cas : SUBSET Records,
         gone : SUBSET Records, pend : SUBSET Records, purge : Purges, plan : SUBSET Records,
         job : Nat, state : States, gen : Nat, cfg : Nat]
Disk == [active : Root \cup {None}, rollback : Root \cup {None}, candidate : Root \cup {None},
         kept : SUBSET Root, config : Nat, temp : Nat, saved : Nat]
Job == [pc : {"idle", "begin", "freeze", "stage", "publish", "finish"}, job : Nat,
        content : Root \cup {None}, held : SUBSET Records]
Preparing == {"ledger", "import", "delete", "reset"}
Activating == {"save", "swap", "install", "configure", "settle", "undo"}
Process == [pc : {"idle"} \cup Preparing \cup Activating, before : Nat, config : Nat, source : Nat,
            ledger : Root \cup {None}, refs : SUBSET Records, moved : BOOLEAN, configured : BOOLEAN,
            end : {"none", "historical", "failed", "activated", "rollback_failed", "killed"}, done : Nat]
Copy == [content : Root, held : SUBSET Records]

Scene == \E e \in Scenarios : env.left \in 0 .. e.left /\ env = [e EXCEPT !.left = env.left]

Typed ==
  /\ fs \in Disk /\ made \in [next : Nat \ {0}, anew : BOOLEAN]
  /\ up \in BOOLEAN /\ b \in Job /\ r \in Process /\ Scene
  /\ deleted \subseteq Records /\ captured \subseteq Records
  /\ DOMAIN backups \subseteq Nat /\ backups \in [DOMAIN backups -> Copy]

\* The root that was active when the restore began.
Former == IF r.moved THEN fs.rollback ELSE active

\* Deletions being carried out are recorded ones, and a purge unlinks nothing else.
Recorded(x) == Exists(x) => x.pend \subseteq x.gone /\ x.plan \subseteq deleted
AllRecorded ==
  /\ Recorded(active) /\ Recorded(fs.rollback) /\ Recorded(fs.candidate) /\ Recorded(r.ledger)
  /\ Recorded(b.content) /\ (\A k \in fs.kept : Recorded(k))
  /\ \A j \in DOMAIN backups : Recorded(backups[j].content)

\* Where the roots are, and who is at work.
Placed ==
  /\ up => r.pc = "idle" /\ Exists(active)
  /\ b.pc # "idle" => up
  /\ r.moved => r.pc \in {"install", "configure", "settle", "undo"} /\ Exists(fs.rollback)
  /\ r.pc \in {"install", "configure", "settle"} => r.moved
  /\ r.configured => r.moved
  /\ ~r.moved => fs.rollback = None /\ (r.pc # "idle" => Exists(active))
  /\ r.pc \in Preparing \cup {"save", "swap", "install"} => Exists(fs.candidate)
  /\ r.pc \in {"configure", "settle"} => Exists(active)
  /\ r.pc \in {"import", "delete"} => Exists(r.ledger)

\* A ledger knows all that was ever deleted.
Remembers(x) ==
  Exists(x) /\ ~made.anew => deleted \subseteq x.gone \cup (IF x.purge = "none" THEN {} ELSE env.owned)
Ledgers ==
  /\ Remembers(active) /\ Remembers(fs.rollback)
  /\ r.pc \in {"import", "delete"} => Remembers(r.ledger)
  /\ r.pc \in {"delete", "reset", "save", "swap", "install"} => Remembers(fs.candidate)

\* No blob of a purged repository is left but what the spool refers to.
Scrubbed(x) == x.purge # "none" => x.cas \cap env.owned \subseteq x.spool
Clean(x) == x.purge # "none" => x.cas \cap x.items \cap env.owned \subseteq x.spool
Purging ==
  /\ r.pc \in {"ledger", "import"} => Scrubbed(fs.candidate)
  /\ r.pc \in {"import", "delete"} /\ r.ledger.purge # "none" => env.owned \cap fs.candidate.items \subseteq r.refs
  /\ r.pc = "delete" => IF r.ledger.purge = "none" THEN Scrubbed(fs.candidate) ELSE fs.candidate.purge # "none"
  /\ r.pc \in {"reset"} \cup Activating /\ Exists(fs.candidate) => Clean(fs.candidate)

\* Every capture that was not deleted is whole in one of these roots.
Saved(S) ==
  \A c \in captured \ deleted : \E x \in S : Exists(x) /\ c \in x.items \cup x.spool /\ c \in x.cas
Preserved == Saved({Former} \cup fs.kept)

\* A backup in the making holds what its boundary froze.
Freezing ==
  /\ b.pc \in {"stage", "publish"} => Exists(b.content) /\ b.held \subseteq b.content.items \cup b.content.spool
  /\ b.pc = "stage" => b.content.items \subseteq active.items

\* What a restore can be undone with.
Undoable ==
  r.pc # "idle" =>
    /\ Former.id = r.before
    /\ env.nested => Former.cfg = r.config
    /\ ~env.nested => (IF r.configured THEN fs.saved ELSE fs.config) = r.config
    /\ ~env.nested /\ r.pc \in {"swap", "install", "configure"} => fs.saved = r.config
    /\ r.pc \in {"swap", "install"} => fs.temp = fs.candidate.id
    /\ r.pc = "configure" => fs.temp = active.id
    /\ r.pc = "settle" => Config = active.id
Ended ==
  r.pc = "idle" =>
    /\ r.end \in {"failed", "activated"} => Exists(active)
    /\ r.end = "failed" => active.id = r.before /\ Config = r.config
    /\ r.end = "activated" => Config = active.id

\* Generations grow along the roots.
Newer(x) == Exists(x) /\ ~made.anew => \A k \in fs.kept : k.gen < x.gen
Generations ==
  /\ Newer(Former)
  /\ r.moved /\ Exists(active) => fs.rollback.gen < active.gen
  /\ r.pc \in {"save", "swap", "install"} => Former.gen < fs.candidate.gen

IInv ==
  /\ Typed /\ AllRecorded /\ Placed /\ Ledgers /\ Purging /\ Preserved /\ BackupComplete /\ Freezing
  /\ Undoable /\ Ended /\ Generations

-----------------------------------------------------------------------------
(* Roots, the disk and the scenario.                                           *)

LEMMA RootExists ==
  ASSUME NEW x \in Root \cup {None}
  PROVE  /\ Exists(x) => x \in Root /\ x # None
         /\ ~Exists(x) => x = None
BY DEF Exists, Root, None

LEMMA SceneTyped ==
  ASSUME Scene
  PROVE  /\ env.owned \in SUBSET Records /\ env.nested \in BOOLEAN /\ env.left \in Nat
         /\ env.records \in SUBSET Records /\ env.jobs \in Nat /\ env.restores \in Nat
<1>1. PICK e \in Scenarios : env.left \in 0 .. e.left /\ env = [e EXCEPT !.left = env.left]
  BY DEF Scene
<1>2. e \in [acts : SUBSET STRING, records : SUBSET Records, owned : SUBSET Records,
             nested : BOOLEAN, jobs : Nat, restores : Nat, left : Nat]
  BY ScenariosAssumption DEF ScenariosAssumption
<1>3. PICK l \in Nat : l = env.left
  BY <1>1, <1>2
<1>4. env = [e EXCEPT !.left = l]
  BY <1>1, <1>3
<1> QED BY <1>2, <1>4

\* The scenario is fixed but for the failures and kills still to come.
Same == /\ Scene' /\ env'.owned = env.owned /\ env'.nested = env.nested

LEMMA FaultSame ==
  ASSUME Scene, Fault
  PROVE  Same
<1>1. PICK e \in Scenarios : env.left \in 0 .. e.left /\ env = [e EXCEPT !.left = env.left]
  BY DEF Scene
<1>2. e \in [acts : SUBSET STRING, records : SUBSET Records, owned : SUBSET Records,
             nested : BOOLEAN, jobs : Nat, restores : Nat, left : Nat]
  BY ScenariosAssumption DEF ScenariosAssumption
<1>3. PICK l \in 0 .. e.left : l = env.left - 1
  BY <1>1, <1>2 DEF Fault
<1>4. PICK k \in 0 .. e.left : k = env.left
  BY <1>1
<1>5. env = [e EXCEPT !.left = k]
  BY <1>1, <1>4
<1>6. env' = [env EXCEPT !.left = l]
  BY <1>3 DEF Fault
<1>7. env' = [e EXCEPT !.left = l] /\ env'.left = l /\ env'.owned = env.owned /\ env'.nested = env.nested
  BY <1>2, <1>5, <1>6
<1> QED BY <1>7 DEF Same, Scene

LEMMA UnchangedSame ==
  ASSUME Scene, UNCHANGED env
  PROVE  Same
BY DEF Same, Scene

LEMMA BackupsStay ==
  ASSUME BackupComplete, UNCHANGED backups, Same
  PROVE  BackupComplete'
BY DEF BackupComplete, Visible, Same

\* A root is published, taken away or replaced; the rest of the disk stays.
LEMMA Roots ==
  ASSUME fs \in Disk, NEW x \in Root \cup {None}, fs' = [fs EXCEPT !.active = x]
  PROVE  /\ fs' \in Disk /\ active' = x /\ fs'.rollback = fs.rollback /\ fs'.candidate = fs.candidate
         /\ fs'.kept = fs.kept /\ fs'.config = fs.config /\ fs'.temp = fs.temp /\ fs'.saved = fs.saved
BY DEF Disk, active

-----------------------------------------------------------------------------
(* The live system: the active root changes, a deletion is remembered in it.   *)

LEMMA ActiveChanges ==
  ASSUME IInv, NEW x \in Root, Now(x), Exists(active), ~Fenced,
         x.id = active.id, x.cfg = active.cfg, x.gen >= active.gen,
         x.pend \subseteq x.gone, x.plan \subseteq deleted',
         deleted' \in SUBSET Records, deleted \subseteq deleted', r.pc # "idle" => deleted' = deleted,
         active.gone \subseteq x.gone,
         deleted' \subseteq deleted \cup x.gone \cup (IF x.purge = "none" THEN {} ELSE env.owned),
         active.purge # "none" => x.purge # "none",
         captured' \in SUBSET Records, captured \subseteq captured',
         \A c \in captured' \ deleted' :
            \/ c \in x.items \cup x.spool /\ c \in x.cas
            \/ c \in captured /\ ~(c \in active.items \cup active.spool /\ c \in active.cas),
         b' \in Job, b'.pc # "idle" => up, Recorded(b.content)', Freezing', Same,
         UNCHANGED <<backups, up, r, made>>
  PROVE  IInv'
<1> USE DEF IInv
<1>1. /\ fs' \in Disk /\ active' = x /\ fs'.rollback = fs.rollback /\ fs'.candidate = fs.candidate
      /\ fs'.kept = fs.kept /\ fs'.config = fs.config /\ fs'.temp = fs.temp /\ fs'.saved = fs.saved
  BY Roots DEF Typed, Now
<1>2. ~r.moved /\ fs.rollback = None /\ r.pc \in {"idle"} \cup Preparing /\ r.pc \notin {"save", "swap", "install"}
  BY DEF Placed, Fenced, Typed, Process, Preparing, Activating
<1>3. Exists(x) /\ active \in Root
  BY RootExists DEF Exists, Root, Typed, Disk, active
<1>4. Typed'
  BY <1>1 DEF Typed, Same
<1>5. AllRecorded'
  BY <1>1 DEF AllRecorded, Recorded
<1>6. Placed'
  BY <1>1, <1>3 DEF Placed
<1>7. Ledgers'
  <2>1. Remembers(x)'
    BY <1>3 DEF Ledgers, Remembers, Same
  <2>2. ~Exists(fs.rollback)
    BY <1>2 DEF Exists, None
  <2>3. Remembers(fs.rollback)'
    BY <1>1, <2>2 DEF Remembers, Exists
  <2>4. r.pc \in {"import", "delete"} => Remembers(r.ledger)'
    BY DEF Ledgers, Remembers, Same
  <2>5. r.pc \in {"delete", "reset", "save", "swap", "install"} => Remembers(fs.candidate)'
    BY <1>1 DEF Ledgers, Remembers, Same
  <2> QED BY <1>1, <2>1, <2>3, <2>4, <2>5 DEF Ledgers
<1>8. Purging'
  BY <1>1 DEF Purging, Scrubbed, Clean, Same
<1>9. Preserved'
  <2>1. Saved({active} \cup fs.kept)
    BY <1>2 DEF Preserved, Former
  <2>2. Saved({x} \cup fs.kept)'
    BY <1>1, <1>3, <2>1 DEF Saved
  <2> QED BY <1>1, <1>2, <2>2 DEF Preserved, Former
<1>10. BackupComplete'
  BY BackupsStay
<1>11. Undoable'
  BY <1>1, <1>2, SceneTyped DEF Undoable, Former, Same, Preparing, Typed, Config
<1>12. Ended'
  BY <1>1, <1>3, SceneTyped DEF Ended, Config, Same, Typed
<1>13. Generations'
  <2>1. \A k \in fs.kept : k.gen \in Nat
    BY DEF Typed, Disk, Root
  <2>2. x.gen \in Nat /\ active.gen \in Nat
    BY <1>3 DEF Root
  <2>3. Newer(x)'
    BY <1>1, <1>2, <1>3, <2>1, <2>2 DEF Generations, Newer, Former
  <2> QED BY <1>1, <1>2, <2>3 DEF Generations, Former
<1> QED BY <1>4, <1>5, <1>6, <1>7, <1>8, <1>9, <1>10, <1>11, <1>12, <1>13

\* The same without a step of the backup.
LEMMA OnlyActiveChanges ==
  ASSUME IInv, NEW x \in Root, Now(x), Exists(active), ~Fenced,
         x.id = active.id, x.cfg = active.cfg, x.gen >= active.gen,
         x.pend \subseteq x.gone, x.plan \subseteq deleted',
         deleted' \in SUBSET Records, deleted \subseteq deleted', r.pc # "idle" => deleted' = deleted,
         active.gone \subseteq x.gone, active.items \subseteq x.items,
         deleted' \subseteq deleted \cup x.gone \cup (IF x.purge = "none" THEN {} ELSE env.owned),
         active.purge # "none" => x.purge # "none",
         captured' \in SUBSET Records, captured \subseteq captured',
         \A c \in captured' \ deleted' :
            \/ c \in x.items \cup x.spool /\ c \in x.cas
            \/ c \in captured /\ ~(c \in active.items \cup active.spool /\ c \in active.cas),
         Same, UNCHANGED <<backups, b, up, r, made>>
  PROVE  IInv'
<1>1. active' = x
  BY Roots DEF IInv, Typed, Now
<1>2. Freezing'
  BY <1>1 DEF IInv, Freezing
<1>3. Recorded(b.content)'
  BY DEF IInv, AllRecorded, Recorded
<1>4. b' \in Job /\ (b'.pc # "idle" => up)
  BY DEF IInv, Typed, Placed
<1> QED BY <1>2, <1>3, <1>4, ActiveChanges

LEMMA ActiveRoot ==
  ASSUME IInv, Exists(active)
  PROVE  /\ active \in Root /\ active.pend \subseteq active.gone /\ active.plan \subseteq deleted
         /\ ~made.anew => deleted \subseteq active.gone \cup (IF active.purge = "none" THEN {} ELSE env.owned)
BY RootExists DEF IInv, Typed, Disk, active, AllRecorded, Recorded, Ledgers, Remembers

LEMMA LivingRoot ==
  ASSUME IInv, up
  PROVE  /\ r.pc = "idle" /\ Exists(active) /\ ~Fenced /\ ~r.moved
         /\ fs.rollback = None
BY DEF IInv, Placed, Fenced

LEMMA CaptureKeeps ==
  ASSUME IInv, NEW x \in Records, Capture(x)
  PROVE  IInv'
<1>1. active \in Root /\ active.pend \subseteq active.gone /\ active.plan \subseteq deleted
  BY ActiveRoot DEF Capture
<1>2. PICK y \in Root : y = [active EXCEPT !.cas = @ \union {x}, !.spool = @ \union {x}]
  BY <1>1 DEF Root
<1>3. /\ y.id = active.id /\ y.cfg = active.cfg /\ y.gen = active.gen /\ y.gone = active.gone
      /\ y.pend = active.pend /\ y.plan = active.plan /\ y.purge = active.purge /\ y.items = active.items
      /\ y.cas = active.cas \union {x} /\ y.spool = active.spool \union {x}
  BY <1>1, <1>2 DEF Root
<1>4. active.gen \in Nat
  BY <1>1 DEF Root
<1>5. \A c \in captured' \ deleted' :
         \/ c \in y.items \cup y.spool /\ c \in y.cas
         \/ c \in captured /\ ~(c \in active.items \cup active.spool /\ c \in active.cas)
  BY <1>3 DEF Capture
<1>6. Same /\ captured' \in SUBSET Records /\ deleted' \in SUBSET Records
  BY UnchangedSame DEF IInv, Typed, Capture
<1>7. Now(y)
  BY <1>2 DEF Capture
<1> QED BY <1>1, <1>3, <1>4, <1>5, <1>6, <1>7, OnlyActiveChanges DEF Capture

LEMMA IngestCommitKeeps ==
  ASSUME IInv, NEW x \in Records, IngestCommit(x)
  PROVE  IInv'
<1>1. active \in Root /\ active.pend \subseteq active.gone /\ active.plan \subseteq deleted /\ Exists(active) /\ ~Fenced
  BY ActiveRoot, LivingRoot DEF IngestCommit, Actor
<1>2. PICK y \in Root : y = [active EXCEPT !.items = @ \union {x}]
  BY <1>1 DEF Root
<1>3. /\ y.id = active.id /\ y.cfg = active.cfg /\ y.gen = active.gen /\ y.gone = active.gone
      /\ y.pend = active.pend /\ y.plan = active.plan /\ y.purge = active.purge
      /\ y.items = active.items \union {x} /\ y.cas = active.cas /\ y.spool = active.spool
  BY <1>1, <1>2 DEF Root
<1>4. active.gen \in Nat
  BY <1>1 DEF Root
<1>5. \A c \in captured' \ deleted' :
         \/ c \in y.items \cup y.spool /\ c \in y.cas
         \/ c \in captured /\ ~(c \in active.items \cup active.spool /\ c \in active.cas)
  BY <1>3 DEF IngestCommit
<1>6. Same /\ captured' \in SUBSET Records /\ deleted' \in SUBSET Records
  BY UnchangedSame DEF IInv, Typed, IngestCommit
<1>7. Now(y)
  BY <1>2 DEF IngestCommit
<1> QED BY <1>1, <1>3, <1>4, <1>5, <1>6, <1>7, OnlyActiveChanges DEF IngestCommit

\* What is acknowledged is in the journal (IngestAck).
LEMMA IngestAckKeeps ==
  ASSUME IInv, NEW x \in Records, IngestAck(x)
  PROVE  IInv'
<1>1. active \in Root /\ active.pend \subseteq active.gone /\ active.plan \subseteq deleted /\ Exists(active) /\ ~Fenced
  BY ActiveRoot, LivingRoot DEF IngestAck
<1>2. PICK y \in Root : y = [active EXCEPT !.spool = @ \ {x}]
  BY <1>1 DEF Root
<1>3. /\ y.id = active.id /\ y.cfg = active.cfg /\ y.gen = active.gen /\ y.gone = active.gone
      /\ y.pend = active.pend /\ y.plan = active.plan /\ y.purge = active.purge
      /\ y.items = active.items /\ y.cas = active.cas /\ y.spool = active.spool \ {x}
  BY <1>1, <1>2 DEF Root
<1>4. active.gen \in Nat
  BY <1>1 DEF Root
<1>5. \A c \in captured' \ deleted' :
         \/ c \in y.items \cup y.spool /\ c \in y.cas
         \/ c \in captured /\ ~(c \in active.items \cup active.spool /\ c \in active.cas)
  BY <1>3 DEF IngestAck
<1>6. Same /\ captured' \in SUBSET Records /\ deleted' \in SUBSET Records
  BY UnchangedSame DEF IInv, Typed, IngestAck
<1>7. Now(y)
  BY <1>2 DEF IngestAck
<1> QED BY <1>1, <1>3, <1>4, <1>5, <1>6, <1>7, OnlyActiveChanges DEF IngestAck

LEMMA ForgetKeeps ==
  ASSUME IInv, NEW x \in Records, Forget(x)
  PROVE  IInv'
<1>1. active \in Root /\ active.pend \subseteq active.gone /\ active.plan \subseteq deleted
      /\ Exists(active) /\ ~Fenced /\ r.pc = "idle"
  BY ActiveRoot, LivingRoot DEF Forget, Actor
<1>2. PICK y \in Root : y = [active EXCEPT !.gone = @ \union {x}, !.pend = @ \union {x}]
  BY <1>1 DEF Root
<1>3. /\ y.id = active.id /\ y.cfg = active.cfg /\ y.gen = active.gen /\ y.gone = active.gone \union {x}
      /\ y.pend = active.pend \union {x} /\ y.plan = active.plan /\ y.purge = active.purge
      /\ y.items = active.items /\ y.cas = active.cas /\ y.spool = active.spool
  BY <1>1, <1>2 DEF Root
<1>4. active.gen \in Nat
  BY <1>1 DEF Root
<1>5. \A c \in captured' \ deleted' :
         \/ c \in y.items \cup y.spool /\ c \in y.cas
         \/ c \in captured /\ ~(c \in active.items \cup active.spool /\ c \in active.cas)
  BY <1>3 DEF Forget
<1>6. Same /\ captured' \in SUBSET Records /\ deleted' \in SUBSET Records /\ deleted' = deleted \union {x}
  BY UnchangedSame DEF IInv, Typed, Forget
<1>7. Now(y)
  BY <1>2 DEF Forget
<1> QED BY <1>1, <1>3, <1>4, <1>5, <1>6, <1>7, OnlyActiveChanges DEF Forget

LEMMA DeletionsKeep ==
  ASSUME IInv, reconcile_object_deletions
  PROVE  IInv'
<1>1. active \in Root /\ active.pend \subseteq active.gone /\ active.plan \subseteq deleted /\ Exists(active) /\ ~Fenced
  BY ActiveRoot, LivingRoot DEF reconcile_object_deletions, Actor
<1>2. PICK y \in Root : y = [active EXCEPT !.pend = {}]
  BY <1>1 DEF Root
<1>3. /\ y.id = active.id /\ y.cfg = active.cfg /\ y.gen = active.gen /\ y.gone = active.gone
      /\ y.pend = {} /\ y.plan = active.plan /\ y.purge = active.purge
      /\ y.items = active.items /\ y.cas = active.cas /\ y.spool = active.spool
  BY <1>1, <1>2 DEF Root
<1>4. active.gen \in Nat
  BY <1>1 DEF Root
<1>5. \A c \in captured' \ deleted' :
         \/ c \in y.items \cup y.spool /\ c \in y.cas
         \/ c \in captured /\ ~(c \in active.items \cup active.spool /\ c \in active.cas)
  BY <1>3 DEF reconcile_object_deletions
<1>6. Same /\ captured' \in SUBSET Records /\ deleted' \in SUBSET Records
  BY UnchangedSame DEF IInv, Typed, reconcile_object_deletions
<1>7. Now(y)
  BY <1>2 DEF reconcile_object_deletions
<1> QED BY <1>1, <1>3, <1>4, <1>5, <1>6, <1>7, OnlyActiveChanges DEF reconcile_object_deletions

LEMMA PurgeKeeps ==
  ASSUME IInv, PurgeConfirmed
  PROVE  IInv'
<1>1. active \in Root /\ active.pend \subseteq active.gone /\ active.plan \subseteq deleted
      /\ Exists(active) /\ ~Fenced /\ r.pc = "idle"
  BY ActiveRoot, LivingRoot DEF PurgeConfirmed, Actor
<1>2. PICK q \in SUBSET Records : q = env.owned \intersect Visible(active) /\ q \subseteq env.owned \intersect active.items
  BY SceneTyped DEF IInv, Typed, Visible
<1>3. PICK y \in Root : y = [active EXCEPT !.purge = "Pending", !.plan = q]
  BY <1>1 DEF Root, Purges
<1>4. /\ y.id = active.id /\ y.cfg = active.cfg /\ y.gen = active.gen /\ y.gone = active.gone
      /\ y.pend = active.pend /\ y.plan = q /\ y.purge = "Pending"
      /\ y.items = active.items /\ y.cas = active.cas /\ y.spool = active.spool
  BY <1>1, <1>3 DEF Root
<1>5. active.gen \in Nat
  BY <1>1 DEF Root
<1>6. \A c \in captured' \ deleted' :
         \/ c \in y.items \cup y.spool /\ c \in y.cas
         \/ c \in captured /\ ~(c \in active.items \cup active.spool /\ c \in active.cas)
  BY <1>4 DEF PurgeConfirmed
<1>7. Same /\ captured' \in SUBSET Records /\ deleted' = deleted \union (env.owned \intersect active.items)
  BY UnchangedSame DEF IInv, Typed, PurgeConfirmed
<1>8. deleted' \in SUBSET Records /\ deleted' \subseteq deleted \cup y.gone \cup env.owned
  BY <1>7, SceneTyped DEF IInv, Typed
<1>9. Now(y)
  BY <1>2, <1>3 DEF PurgeConfirmed
<1> QED BY <1>1, <1>2, <1>4, <1>5, <1>6, <1>7, <1>8, <1>9, OnlyActiveChanges DEF PurgeConfirmed

\* Only what the purge planned is unlinked, and that was deleted.
LEMMA PurgeBatchKeeps ==
  ASSUME IInv, reconcile_repository_scope_purge_batch
  PROVE  IInv'
<1>1. active \in Root /\ active.pend \subseteq active.gone /\ active.plan \subseteq deleted
      /\ Exists(active) /\ ~Fenced /\ r.pc = "idle"
  BY ActiveRoot, LivingRoot DEF reconcile_repository_scope_purge_batch, Actor
<1>2. PICK y \in Root :
        /\ Now(y)
        /\ y.id = active.id /\ y.cfg = active.cfg /\ y.gen = active.gen /\ y.gone = active.gone
        /\ y.pend = active.pend /\ y.plan = active.plan /\ y.purge # "none"
        /\ y.items = active.items /\ y.spool = active.spool
        /\ active.cas \ active.plan \subseteq y.cas
  <2>1. CASE active.purge = "Pending"
    <3>1. PICK y \in Root : y = [active EXCEPT !.purge = "Closed"]
      BY <1>1 DEF Root, Purges
    <3>2. /\ y.id = active.id /\ y.cfg = active.cfg /\ y.gen = active.gen /\ y.gone = active.gone
          /\ y.pend = active.pend /\ y.plan = active.plan /\ y.purge = "Closed"
          /\ y.items = active.items /\ y.cas = active.cas /\ y.spool = active.spool
      BY <1>1, <3>1 DEF Root
    <3>3. Now(y)
      BY <2>1, <3>1 DEF reconcile_repository_scope_purge_batch
    <3> QED BY <3>2, <3>3
  <2>2. CASE active.purge = "Closed"
    <3>1. PICK z \in SUBSET Records : z = active.cas \ (active.plan \ Pins(active))
      BY <1>1 DEF Root
    <3>2. PICK y \in Root : y = [active EXCEPT !.purge = "Deleting", !.cas = z]
      BY <1>1 DEF Root, Purges
    <3>3. /\ y.id = active.id /\ y.cfg = active.cfg /\ y.gen = active.gen /\ y.gone = active.gone
          /\ y.pend = active.pend /\ y.plan = active.plan /\ y.purge = "Deleting"
          /\ y.items = active.items /\ y.cas = z /\ y.spool = active.spool
      BY <1>1, <3>2 DEF Root
    <3>4. Now(y)
      BY <2>2, <3>1, <3>2 DEF reconcile_repository_scope_purge_batch
    <3> QED BY <3>1, <3>3, <3>4
  <2>3. CASE active.purge = "Deleting"
    <3>1. PICK y \in Root : y = [active EXCEPT !.purge = "Purged"]
      BY <1>1 DEF Root, Purges
    <3>2. /\ y.id = active.id /\ y.cfg = active.cfg /\ y.gen = active.gen /\ y.gone = active.gone
          /\ y.pend = active.pend /\ y.plan = active.plan /\ y.purge = "Purged"
          /\ y.items = active.items /\ y.cas = active.cas /\ y.spool = active.spool
      BY <1>1, <3>1 DEF Root
    <3>3. Now(y)
      BY <2>3, <3>1 DEF reconcile_repository_scope_purge_batch
    <3> QED BY <3>2, <3>3
  <2> QED BY <2>1, <2>2, <2>3 DEF reconcile_repository_scope_purge_batch
<1>3. active.gen \in Nat
  BY <1>1 DEF Root
<1>4. \A c \in captured' \ deleted' :
         \/ c \in y.items \cup y.spool /\ c \in y.cas
         \/ c \in captured /\ ~(c \in active.items \cup active.spool /\ c \in active.cas)
  BY <1>1, <1>2 DEF reconcile_repository_scope_purge_batch
<1>5. Same /\ captured' \in SUBSET Records /\ deleted' \in SUBSET Records
  BY UnchangedSame DEF IInv, Typed, reconcile_repository_scope_purge_batch
<1> QED BY <1>1, <1>2, <1>3, <1>4, <1>5, OnlyActiveChanges DEF reconcile_repository_scope_purge_batch

LEMMA ReloadKeeps ==
  ASSUME IInv, Reload
  PROVE  IInv'
<1>1. active \in Root /\ active.pend \subseteq active.gone /\ active.plan \subseteq deleted /\ Exists(active) /\ ~Fenced
  BY ActiveRoot, LivingRoot DEF Reload, Actor
<1>2. PICK g \in Nat : g = active.gen + 1
  BY <1>1 DEF Root
<1>3. PICK y \in Root : y = [active EXCEPT !.gen = g]
  BY <1>1 DEF Root
<1>4. /\ y.id = active.id /\ y.cfg = active.cfg /\ y.gen = g /\ y.gone = active.gone
      /\ y.pend = active.pend /\ y.plan = active.plan /\ y.purge = active.purge
      /\ y.items = active.items /\ y.cas = active.cas /\ y.spool = active.spool
  BY <1>1, <1>3 DEF Root
<1>5. y.gen >= active.gen
  BY <1>1, <1>2, <1>4 DEF Root
<1>6. \A c \in captured' \ deleted' :
         \/ c \in y.items \cup y.spool /\ c \in y.cas
         \/ c \in captured /\ ~(c \in active.items \cup active.spool /\ c \in active.cas)
  BY <1>4 DEF Reload
<1>7. Same /\ captured' \in SUBSET Records /\ deleted' \in SUBSET Records
  BY FaultSame DEF IInv, Typed, Reload
<1>8. Now(y)
  BY <1>2, <1>3 DEF Reload
<1> QED BY <1>1, <1>4, <1>5, <1>6, <1>7, <1>8, OnlyActiveChanges DEF Reload


\* Only the daemon and the backup move.
LEMMA BackupMoves ==
  ASSUME IInv, UNCHANGED <<fs, r, made, deleted, captured>>, Same, up' \in BOOLEAN, up' => up,
         b' \in Job, b'.pc # "idle" => up', Recorded(b.content)', Freezing',
         DOMAIN backups' \subseteq Nat, backups' \in [DOMAIN backups' -> Copy],
         (\A j \in DOMAIN backups : Recorded(backups[j].content))', BackupComplete'
  PROVE  IInv'
<1> USE DEF IInv
<1>1. active' = active /\ Former' = Former
  BY DEF active, Former
<1>2. Typed'
  BY DEF Typed, Same
<1>3. AllRecorded'
  BY <1>1 DEF AllRecorded, Recorded
<1>4. Placed'
  BY <1>1 DEF Placed
<1>5. Ledgers'
  BY <1>1 DEF Ledgers, Remembers, Same
<1>6. Purging'
  BY DEF Purging, Scrubbed, Clean, Same
<1>7. Preserved'
  BY <1>1 DEF Preserved, Saved
<1>8. Undoable' /\ Ended'
  BY <1>1 DEF Undoable, Ended, Same, Config
<1>9. Generations'
  BY <1>1 DEF Generations, Newer
<1> QED BY <1>2, <1>3, <1>4, <1>5, <1>6, <1>7, <1>8, <1>9

\* With no new backup.
LEMMA OnlyBackupMoves ==
  ASSUME IInv, UNCHANGED <<fs, r, made, deleted, captured, backups>>, Same, up' \in BOOLEAN, up' => up,
         b' \in Job, b'.pc # "idle" => up', Recorded(b'.content), Freezing'
  PROVE  IInv'
<1>1. (\A j \in DOMAIN backups : Recorded(backups[j].content))' /\ Recorded(b.content)'
  BY DEF IInv, AllRecorded, Recorded
<1>2. BackupComplete'
  BY BackupsStay DEF IInv
<1>3. DOMAIN backups' \subseteq Nat /\ backups' \in [DOMAIN backups' -> Copy]
  BY DEF IInv, Typed
<1> QED BY <1>1, <1>2, <1>3, BackupMoves

LEMMA StopKeeps ==
  ASSUME IInv, Stop
  PROVE  IInv'
<1>1. Same
  BY UnchangedSame DEF IInv, Typed, Stop
<1>2. Freezing' /\ b' \in Job /\ Recorded(b'.content)
  BY DEF IInv, Typed, AllRecorded, Freezing, Stop, active
<1> QED BY <1>1, <1>2, OnlyBackupMoves DEF Stop

LEMMA IdleBackupTyped ==
  IdleBackup \in Job /\ IdleBackup.pc = "idle" /\ Recorded(IdleBackup.content)
BY DEF IdleBackup, Job, Recorded, Exists, None

LEMMA KilledKeeps ==
  ASSUME IInv, Killed
  PROVE  IInv'
<1>1. Same
  BY FaultSame DEF IInv, Typed, Killed
<1>2. Freezing' /\ b' \in Job /\ b'.pc = "idle" /\ Recorded(b'.content)
  BY IdleBackupTyped DEF Freezing, Killed
<1> QED BY <1>1, <1>2, OnlyBackupMoves DEF Killed

\* A root made where there was none knows nothing, and says so.
LEMMA EmptyRootTyped ==
  ASSUME NEW id \in Nat \ {0}
  PROVE  /\ EmptyRoot(id) \in Root /\ EmptyRoot(id).id = id /\ EmptyRoot(id).pend = {} /\ EmptyRoot(id).plan = {}
         /\ Exists(EmptyRoot(id))
BY DEF EmptyRoot, Root, Purges, States, Exists

LEMMA StartKeeps ==
  ASSUME IInv, Start
  PROVE  IInv'
<1> USE DEF IInv
<1>1. ~up /\ r.pc = "idle" /\ ~r.moved /\ b.pc = "idle" /\ fs.rollback = None
  BY DEF Start, Placed, Typed, Process
<1>2. made.next \in Nat \ {0}
  BY DEF Typed
<1>3. PICK x \in Root : x = Acquired /\ Exists(x) /\ x.pend \subseteq x.gone /\ x.plan \subseteq deleted
                        /\ (Exists(active) => x = active)
  BY <1>2, ActiveRoot, EmptyRootTyped DEF Acquired
<1>4. /\ fs' \in Disk /\ active' = x /\ fs'.rollback = fs.rollback /\ fs'.candidate = fs.candidate
      /\ fs'.kept = fs.kept /\ fs'.config = fs.config /\ fs'.temp = fs.temp /\ fs'.saved = fs.saved
  BY <1>3, Roots DEF Start, Now, Typed
<1>5. made' \in [next : Nat \ {0}, anew : BOOLEAN] /\ (made'.anew \/ (Exists(active) /\ ~made.anew))
  BY DEF Start, Typed
<1>6. Same
  BY UnchangedSame DEF Typed, Start
<1>7. Typed'
  BY <1>4, <1>5, <1>6 DEF Typed, Start, Same
<1>8. AllRecorded'
  BY <1>3, <1>4 DEF AllRecorded, Recorded, Start
<1>9. Placed'
  BY <1>1, <1>3, <1>4 DEF Placed, Start, Preparing
<1>10. Ledgers'
  <2>1. Remembers(x)'
    BY <1>3, <1>5 DEF Start, Ledgers, Remembers
  <2>2. ~Exists(fs.rollback)
    BY <1>1 DEF Exists, None
  <2>3. Remembers(fs.rollback)'
    BY <1>4, <2>2 DEF Remembers, Exists
  <2> QED BY <1>1, <1>4, <2>1, <2>3 DEF Ledgers, Start
<1>11. Purging'
  BY <1>1, <1>4 DEF Purging, Start, Activating
<1>12. Preserved'
  <2>1. Saved({active} \cup fs.kept)
    BY <1>1 DEF Preserved, Former
  <2>2. Saved({x} \cup fs.kept)'
    BY <1>3, <1>4, <2>1 DEF Saved, Start
  <2> QED BY <1>1, <1>4, <2>2 DEF Preserved, Former, Start
<1>13. BackupComplete' /\ Freezing'
  BY <1>1, <1>6, BackupsStay DEF Start, Freezing
<1>14. Undoable'
  BY <1>1 DEF Undoable, Start
<1>15. Ended'
  BY <1>3, <1>4, <1>6 DEF Ended, Start, Config, Same
<1>16. Generations'
  <2>1. Newer(x)'
    BY <1>1, <1>3, <1>4, <1>5 DEF Generations, Newer, Former
  <2>2. ~r.moved'
    BY <1>1 DEF Start
  <2> QED BY <1>1, <1>4, <2>1, <2>2 DEF Generations, Former, Start
<1> QED BY <1>7, <1>8, <1>9, <1>10, <1>11, <1>12, <1>13, <1>14, <1>15, <1>16

-----------------------------------------------------------------------------
(* A backup.                                                                   *)

\* The job's row changes, in the active root.
LEMMA RowChanges ==
  ASSUME IInv, up, NEW s \in States, NEW j \in Nat, Now([active EXCEPT !.job = j, !.state = s]),
         b' \in Job, Recorded(b.content)', Freezing', UNCHANGED <<backups, up, r, made, env, deleted, captured>>
  PROVE  IInv'
<1>1. active \in Root /\ active.pend \subseteq active.gone /\ active.plan \subseteq deleted /\ Exists(active)
      /\ ~Fenced /\ r.pc = "idle"
  BY ActiveRoot, LivingRoot
<1>2. PICK y \in Root : y = [active EXCEPT !.job = j, !.state = s]
  BY <1>1 DEF Root
<1>3. /\ y.id = active.id /\ y.cfg = active.cfg /\ y.gen = active.gen /\ y.gone = active.gone
      /\ y.pend = active.pend /\ y.plan = active.plan /\ y.purge = active.purge
      /\ y.items = active.items /\ y.cas = active.cas /\ y.spool = active.spool
  BY <1>1, <1>2 DEF Root
<1>4. active.gen \in Nat
  BY <1>1 DEF Root
<1>5. \A c \in captured' \ deleted' :
         \/ c \in y.items \cup y.spool /\ c \in y.cas
         \/ c \in captured /\ ~(c \in active.items \cup active.spool /\ c \in active.cas)
  BY <1>3
<1>6. Same /\ captured' \in SUBSET Records /\ deleted' \in SUBSET Records
  BY UnchangedSame DEF IInv, Typed
<1>7. Now(y)
  BY <1>2
<1> QED BY <1>1, <1>3, <1>4, <1>5, <1>6, <1>7, ActiveChanges

LEMMA RequestKeeps ==
  ASSUME IInv, RequestBackup
  PROVE  IInv'
<1>1. active \in Root /\ Exists(active) /\ up
  BY ActiveRoot, LivingRoot DEF RequestBackup, Actor
<1>2. PICK j \in Nat : j = active.job + 1
  BY <1>1 DEF Root
<1>a. /\ [active EXCEPT !.job = j, !.state = "Queued"] \in Root
      /\ [active EXCEPT !.job = j, !.state = "Queued"].items = active.items
  BY <1>1 DEF Root, States
<1>3. PICK y \in Root : y = [active EXCEPT !.job = j, !.state = "Queued"] /\ y.items = active.items
  BY <1>a
<1>4. Now(y)
  BY <1>2, <1>3 DEF RequestBackup
<1>5. active' = y
  BY <1>4, Roots DEF IInv, Typed, Now
<1>6. Freezing' /\ b' \in Job /\ Recorded(b.content)'
  BY <1>3, <1>5 DEF IInv, Freezing, Typed, AllRecorded, Recorded, RequestBackup
<1>7. "Queued" \in States
  BY DEF States
<1> QED BY <1>1, <1>3, <1>4, <1>6, <1>7, RowChanges DEF RequestBackup

\* A change of the job's state alone.
LEMMA StateChanges ==
  ASSUME IInv, up, NEW s \in States, Now([active EXCEPT !.state = s]),
         b' \in Job, Recorded(b.content)', b'.pc \notin {"stage", "publish"},
         UNCHANGED <<backups, up, r, made, env, deleted, captured>>
  PROVE  IInv'
<1>1. active \in Root
  BY ActiveRoot, LivingRoot
<1>2. PICK j \in Nat : j = active.job
  BY <1>1 DEF Root
<1>3. [active EXCEPT !.state = s] = [active EXCEPT !.job = j, !.state = s]
  BY <1>1, <1>2 DEF Root
<1>4. Freezing'
  BY DEF Freezing
<1> QED BY <1>3, <1>4, RowChanges

LEMMA ClaimKeeps ==
  ASSUME IInv, ClaimBackup
  PROVE  IInv'
<1>1. active \in Root /\ up
  BY ActiveRoot, LivingRoot DEF ClaimBackup, Actor
<1>2. PICK j \in Nat : j = active.job
  BY <1>1 DEF Root
<1>3. b' = [b EXCEPT !.pc = "begin", !.job = j]
  BY <1>2 DEF ClaimBackup
<1>4. b' \in Job /\ b'.pc = "begin" /\ b'.content = b.content
  BY <1>3 DEF IInv, Typed, Job
<1>5. Recorded(b.content)'
  BY <1>4 DEF IInv, AllRecorded, Recorded, ClaimBackup
<1>6. "Leased" \in States
  BY DEF States
<1> QED BY <1>1, <1>4, <1>5, <1>6, StateChanges DEF ClaimBackup

LEMMA RecoverKeeps ==
  ASSUME IInv, RecoverBackupLease
  PROVE  IInv'
<1>1. "Queued" \in States
  BY DEF States
<1>2. b' \in Job /\ Recorded(b.content)' /\ b'.pc = "idle" /\ up
  BY DEF IInv, Typed, AllRecorded, Recorded, RecoverBackupLease, Actor
<1> QED BY <1>1, <1>2, StateChanges DEF RecoverBackupLease

LEMMA FinishKeeps ==
  ASSUME IInv, finish_backup_job
  PROVE  IInv'
<1>1. PICK s \in States : s = IF b.content = None THEN "Failed" ELSE "Succeeded"
  BY DEF States
<1>2. b' \in Job /\ Recorded(b.content)' /\ b'.pc = "idle"
  BY IdleBackupTyped DEF finish_backup_job, Recorded
<1> QED BY <1>1, <1>2, StateChanges DEF finish_backup_job, Actor

LEMMA BeginKeeps ==
  ASSUME IInv, BeginBackup
  PROVE  IInv'
<1>1. CASE Published(b.job)
  <2>1. backups[b.job].content \in Root /\ Recorded(backups[b.job].content)
    BY <1>1 DEF IInv, Typed, AllRecorded, Published, Copy
  <2>2. b' \in Job /\ b'.pc = "finish" /\ b'.content = backups[b.job].content
    BY <1>1, <2>1 DEF BeginBackup, IInv, Typed, Job
  <2> QED BY <2>1, <2>2, UnchangedSame, OnlyBackupMoves DEF BeginBackup, IInv, Typed, Freezing
<1>2. CASE ~Published(b.job)
  <2>1. b' \in Job /\ b'.pc = "freeze" /\ b'.content = b.content
    BY <1>2 DEF BeginBackup, IInv, Typed, Job
  <2> QED BY <2>1, UnchangedSame, OnlyBackupMoves DEF BeginBackup, IInv, Typed, AllRecorded, Freezing
<1> QED BY <1>1, <1>2

LEMMA FreezeKeeps ==
  ASSUME IInv, freeze_backup_boundary
  PROVE  IInv'
<1>1. active \in Root /\ Recorded(active) /\ Exists(active)
  BY ActiveRoot, LivingRoot DEF freeze_backup_boundary, IInv, AllRecorded
<1>2. PICK h \in SUBSET Records : h = active.items \union active.spool
  BY <1>1 DEF Root
<1>3. b' = [b EXCEPT !.pc = "stage", !.content = active, !.held = h]
  BY <1>2 DEF freeze_backup_boundary
<1>4. b' \in Job /\ b'.pc = "stage" /\ b'.content = active /\ b'.held = h
  BY <1>1, <1>3 DEF IInv, Typed, Job
<1>5. Freezing'
  BY <1>1, <1>2, <1>4 DEF Freezing, freeze_backup_boundary, active
<1> QED BY <1>1, <1>4, <1>5, UnchangedSame, OnlyBackupMoves DEF freeze_backup_boundary, IInv, Typed

LEMMA FailsTyped ==
  ASSUME IInv, Fails
  PROVE  b' \in Job /\ b'.pc = "finish" /\ Recorded(b'.content) /\ Freezing'
<1>1. None \in Root \cup {None} /\ ~Exists(None)
  BY DEF Exists, None
<1>2. b' \in Job /\ b'.pc = "finish" /\ b'.content = None
  BY <1>1 DEF Fails, IInv, Typed, Job
<1> QED BY <1>1, <1>2 DEF Recorded, Freezing

\* What is staged has the rows of the root and the files of the boundary.
LEMMA StageKeeps ==
  ASSUME IInv, StageBackup
  PROVE  IInv'
<1>1. CASE ~SourcesPresent(active, b.content.spool)
  BY <1>1, FailsTyped, UnchangedSame, OnlyBackupMoves DEF StageBackup, IInv, Typed
<1>2. CASE SourcesPresent(active, b.content.spool)
  <2>1. active \in Root /\ Recorded(active) /\ Exists(active)
    BY ActiveRoot, LivingRoot DEF StageBackup, IInv, AllRecorded
  <2>2. /\ b.content \in Root /\ b.held \subseteq b.content.items \cup b.content.spool
        /\ b.content.items \subseteq active.items
    BY RootExists DEF IInv, Freezing, StageBackup, Typed, Job
  <2>3. PICK sp \in SUBSET Records : sp = b.content.spool
    BY <2>2 DEF Root
  <2>4. PICK ca \in SUBSET Records : ca = BackupRefs(active, b.content.spool)
    BY <2>1, <2>2 DEF BackupRefs, live_cas_refs, Visible, Root
  <2>5. PICK y \in Root : y = [active EXCEPT !.spool = sp, !.cas = ca]
    BY <2>1 DEF Root
  <2>6. y.items = active.items /\ y.spool = sp /\ y.pend = active.pend /\ y.gone = active.gone
        /\ y.plan = active.plan /\ y.id = active.id
    BY <2>1, <2>5 DEF Root
  <2>7. b' = [b EXCEPT !.pc = "publish", !.content = y]
    BY <1>2, <2>3, <2>4, <2>5 DEF StageBackup
  <2>8. b' \in Job /\ b'.pc = "publish" /\ b'.content = y /\ b'.held = b.held
    BY <2>7 DEF IInv, Typed, Job
  <2>9. Recorded(y) /\ Exists(y)
    BY <2>1, <2>6 DEF Recorded, Exists
  <2>10. Freezing'
    BY <2>2, <2>3, <2>6, <2>8, <2>9 DEF Freezing, Exists
  <2> QED BY <2>8, <2>9, <2>10, UnchangedSame, OnlyBackupMoves DEF StageBackup, IInv, Typed
<1> QED BY <1>1, <1>2

LEMMA PublishKeeps ==
  ASSUME IInv, publish_backup
  PROVE  IInv'
<1>1. CASE Fault /\ Fails /\ UNCHANGED backups
  BY <1>1, FailsTyped, FaultSame, OnlyBackupMoves DEF publish_backup, IInv, Typed
<1>2. CASE /\ VerifiedBackup(b.content)
           /\ backups' = [j \in DOMAIN backups \union {b.job} |->
                            IF j = b.job THEN [content |-> b.content, held |-> b.held]
                            ELSE backups[j]]
           /\ b' = [b EXCEPT !.pc = "finish"]
           /\ UNCHANGED env
  <2>1. b.content \in Root /\ b.held \subseteq b.content.items \cup b.content.spool /\ b.job \in Nat
        /\ b.held \in SUBSET Records /\ Recorded(b.content)
    BY RootExists DEF IInv, Freezing, publish_backup, Typed, Job, AllRecorded
  <2>2. b' \in Job /\ b'.pc = "finish" /\ b'.content = b.content
    BY <1>2 DEF IInv, Typed, Job
  <2>a. [content |-> b.content, held |-> b.held] \in Copy
    BY <2>1 DEF Copy
  <2>3. PICK c \in Copy : c = [content |-> b.content, held |-> b.held] /\ c.content = b.content /\ c.held = b.held
    BY <2>a
  <2>4. /\ DOMAIN backups' = DOMAIN backups \cup {b.job}
        /\ \A j \in DOMAIN backups' : backups'[j] = IF j = b.job THEN c ELSE backups[j]
    BY <1>2, <2>3
  <2>5. DOMAIN backups' \subseteq Nat /\ backups' \in [DOMAIN backups' -> Copy]
    BY <1>2, <2>1, <2>3 DEF IInv, Typed
  <2>6. (\A j \in DOMAIN backups : Recorded(backups[j].content))'
    BY <2>1, <2>3, <2>4 DEF IInv, AllRecorded, Recorded, publish_backup
  <2>7. Same
    BY <1>2, UnchangedSame DEF IInv, Typed
  <2>8. Visible(b.content) \union b.content.spool \subseteq b.content.cas
    BY <1>2 DEF VerifiedBackup, RefsVerified, BackupRefs, live_cas_refs
  <2>9. BackupComplete'
    BY <2>1, <2>3, <2>4, <2>7, <2>8 DEF IInv, BackupComplete, Visible, Same
  <2>10. Freezing' /\ Recorded(b.content)'
    BY <2>1, <2>2 DEF Freezing, Recorded, publish_backup
  <2> QED BY <2>2, <2>5, <2>6, <2>7, <2>9, <2>10, BackupMoves DEF publish_backup, IInv, Typed
<1> QED BY <1>1, <1>2 DEF publish_backup

-----------------------------------------------------------------------------
(* A restore: how it moves and how it ends.                                    *)

LEMMA GoesTyped ==
  ASSUME r \in Process, NEW pc \in {"idle"} \cup Preparing \cup Activating, Goes(pc)
  PROVE  /\ r' \in Process /\ r'.pc = pc /\ r'.before = r.before /\ r'.config = r.config
         /\ r'.ledger = r.ledger /\ r'.refs = r.refs /\ r'.moved = r.moved
         /\ r'.configured = r.configured /\ r'.end = r.end
BY DEF Process, Goes

LEMMA EndsTyped ==
  ASSUME r \in Process, NEW how \in {"failed", "activated", "rollback_failed", "killed"}, Ends(how)
  PROVE  /\ r' \in Process /\ r'.pc = "idle" /\ r'.before = r.before /\ r'.config = r.config
         /\ r'.ledger = None /\ ~r'.moved /\ ~r'.configured /\ r'.end = how
<1>1. r.before \in Nat /\ r.config \in Nat /\ r.done \in Nat
  BY DEF Process
<1>2. PICK z \in Nat : z = 0
  OBVIOUS
<1>3. IdleRestore = [pc |-> "idle", before |-> z, config |-> z, source |-> z, ledger |-> None,
                     refs |-> {}, moved |-> FALSE, configured |-> FALSE, end |-> "none", done |-> z]
  BY <1>2 DEF IdleRestore
<1>4. r' = [pc |-> "idle", before |-> r.before, config |-> r.config, source |-> z, ledger |-> None,
            refs |-> {}, moved |-> FALSE, configured |-> FALSE, end |-> how, done |-> r.done]
  BY <1>3 DEF Ends
<1> QED BY <1>1, <1>2, <1>4 DEF Process

\* A restore runs offline: the daemon and its backup are still.
LEMMA Offline ==
  ASSUME IInv, r.pc # "idle" \/ ~up, UNCHANGED <<backups, b, up, deleted, captured>>, Same,
         fs' \in Disk, r' \in Process, made' \in [next : Nat \ {0}, anew : BOOLEAN]
  PROVE  /\ Typed' /\ BackupComplete' /\ Freezing' /\ ~up' /\ b'.pc = "idle" /\ Recorded(b.content)'
         /\ (\A j \in DOMAIN backups : Recorded(backups[j].content))'
<1>1. ~up /\ b.pc = "idle"
  BY DEF IInv, Placed
<1>2. Typed'
  BY DEF IInv, Typed, Same
<1>3. BackupComplete'
  BY BackupsStay DEF IInv
<1>4. Freezing' /\ Recorded(b.content)' /\ (\A j \in DOMAIN backups : Recorded(backups[j].content))'
  BY <1>1 DEF Freezing, IInv, AllRecorded, Recorded
<1> QED BY <1>1, <1>2, <1>3, <1>4

LEMMA RestoreEnds ==
  ASSUME IInv, r.pc # "idle", NEW how \in {"failed", "activated", "rollback_failed", "killed"}, Ends(how),
         UNCHANGED <<backups, b, up, made, deleted, captured>>, Same, fs' \in Disk, fs'.rollback = None,
         Recorded(active)', Recorded(fs.candidate)', (\A k \in fs.kept : Recorded(k))',
         Remembers(active)', Saved({active} \cup fs.kept)', Ended', Newer(active)'
  PROVE  IInv'
<1>1. /\ r' \in Process /\ r'.pc = "idle" /\ r'.ledger = None /\ ~r'.moved /\ ~r'.configured
  BY EndsTyped DEF IInv, Typed
<1>2. /\ Typed' /\ BackupComplete' /\ Freezing' /\ ~up' /\ b'.pc = "idle" /\ Recorded(b.content)'
      /\ (\A j \in DOMAIN backups : Recorded(backups[j].content))'
  BY <1>1, Offline DEF IInv, Typed
<1>3. ~Exists(None)
  BY DEF Exists, None
<1>4. Recorded(r.ledger)' /\ Recorded(fs.rollback)' /\ Remembers(fs.rollback)'
  BY <1>1, <1>3 DEF Recorded, Remembers
<1>5. AllRecorded'
  BY <1>2, <1>4 DEF AllRecorded
<1>6. Placed'
  BY <1>1, <1>2 DEF Placed, Preparing
<1>7. Ledgers' /\ Purging' /\ Undoable'
  BY <1>1, <1>4 DEF Ledgers, Purging, Undoable, Activating
<1>8. Former' = active'
  BY <1>1 DEF Former
<1>9. Preserved' /\ Generations'
  BY <1>1, <1>8 DEF Preserved, Generations, Newer, Saved
<1> QED BY <1>2, <1>5, <1>6, <1>7, <1>9 DEF IInv

\* Whatever was moved aside is kept (UndoFails, RestoreKilled).
LEMMA EndsAside ==
  ASSUME IInv, r.pc # "idle", NEW how \in {"rollback_failed", "killed"}, Ends(how),
         UNCHANGED <<backups, b, up, made, deleted, captured>>, Same, fs' \in Disk, fs'.rollback = None,
         fs'.active = active, fs'.kept = fs.kept \cup ({fs.rollback} \ {None}),
         fs'.candidate \in {fs.candidate, None}
  PROVE  IInv'
<1> USE DEF IInv
<1>1. active' = active
  BY DEF active
<1>2. ~Exists(None)
  BY DEF Exists, None
<1>3. Recorded(active)' /\ Recorded(fs.candidate)' /\ (\A k \in fs.kept : Recorded(k))' /\ Remembers(active)'
  BY <1>1, <1>2 DEF AllRecorded, Recorded, Ledgers, Remembers, Same
<1>4. Saved({active} \cup fs.kept)'
  <2>1. Saved({Former} \cup fs.kept)
    BY DEF Preserved
  <2>2. Exists(Former) => Former \in {active} \cup fs'.kept
    BY <1>2 DEF Former
  <2> QED BY <1>1, <2>1, <2>2 DEF Saved
<1>5. Ended'
  BY EndsTyped DEF Typed, Ended
<1>6. Newer(active)'
  <2>1. \A k \in fs.kept : k.gen \in Nat
    BY DEF Typed, Disk, Root
  <2>2. Exists(active) => active.gen \in Nat
    BY ActiveRoot DEF Root
  <2>3. CASE r.moved
    <3>1. fs.rollback \in Root /\ Exists(fs.rollback) /\ fs.rollback.gen \in Nat
      BY <2>3, RootExists DEF Placed, Typed, Disk, Root
    <3>2. (~made.anew => \A k \in fs.kept : k.gen < fs.rollback.gen) /\ (Exists(active) => fs.rollback.gen < active.gen)
      BY <2>3, <3>1 DEF Generations, Newer, Former
    <3> QED BY <1>1, <2>1, <2>2, <3>1, <3>2 DEF Newer
  <2>4. CASE ~r.moved
    BY <1>1, <2>4 DEF Newer, Generations, Former, Placed
  <2> QED BY <2>3, <2>4
<1> QED BY <1>3, <1>4, <1>5, <1>6, RestoreEnds

LEMMA UndoFailsKeeps ==
  ASSUME IInv, UndoFails
  PROVE  IInv'
<1>1. PICK k \in SUBSET Root : k = fs.kept \union ({fs.rollback} \ {None})
  BY DEF IInv, Typed, Disk
<1>2. fs' = [fs EXCEPT !.kept = k, !.rollback = None]
  BY <1>1 DEF UndoFails
<1>3. /\ fs' \in Disk /\ fs'.rollback = None /\ fs'.active = active /\ fs'.kept = k
      /\ fs'.candidate = fs.candidate
  BY <1>2 DEF IInv, Typed, Disk, active
<1> QED BY <1>1, <1>3, FaultSame, EndsAside DEF UndoFails, IInv, Typed

LEMMA RestoreKilledKeeps ==
  ASSUME IInv, RestoreKilled
  PROVE  IInv'
<1>1. PICK k \in SUBSET Root : k = fs.kept \union ({fs.rollback} \ {None})
  BY DEF IInv, Typed, Disk
<1>2. fs' = [fs EXCEPT !.kept = k, !.rollback = None, !.candidate = None]
  BY <1>1 DEF RestoreKilled
<1>3. /\ fs' \in Disk /\ fs'.rollback = None /\ fs'.active = active /\ fs'.kept = k
      /\ fs'.candidate = None
  BY <1>2 DEF IInv, Typed, Disk, active
<1> QED BY <1>1, <1>3, FaultSame, EndsAside DEF RestoreKilled, IInv, Typed

\* The preparation has touched nothing but the candidate.
LEMMA PreparationFailsKeeps ==
  ASSUME IInv, PreparationFails
  PROVE  IInv'
<1> USE DEF IInv
<1>1. /\ fs' \in Disk /\ fs'.rollback = fs.rollback /\ fs'.active = active /\ fs'.kept = fs.kept
      /\ fs'.candidate = None /\ fs'.config = fs.config /\ active' = active
  BY DEF PreparationFails, Typed, Disk, active
<1>2. ~r.moved /\ fs.rollback = None /\ r.pc # "idle" /\ Exists(active) /\ Former = active
  BY DEF PreparationFails, Placed, Former
<1>3. Same
  BY FaultSame DEF PreparationFails, Typed
<1>4. Recorded(active)' /\ Recorded(fs.candidate)' /\ (\A k \in fs.kept : Recorded(k))' /\ Remembers(active)'
  BY <1>1, <1>3 DEF AllRecorded, Recorded, Ledgers, Remembers, Same, PreparationFails, Exists, None
<1>5. Saved({active} \cup fs.kept)' /\ Newer(active)'
  BY <1>1, <1>2 DEF Preserved, Saved, Generations, Newer, PreparationFails
<1>6. r'.end = "failed" /\ r'.before = r.before /\ r'.config = r.config
  BY EndsTyped DEF PreparationFails, Typed
<1>7. env.nested \in BOOLEAN /\ ~r.configured
  BY <1>2, SceneTyped DEF Typed, Placed
<1>8. Config = r.config /\ active.id = r.before
  BY <1>2, <1>7 DEF Undoable, Config
<1>9. Config' = Config
  BY <1>1, <1>3 DEF Config, Same
<1>10. Ended'
  BY <1>1, <1>2, <1>6, <1>8, <1>9 DEF Ended
<1> QED BY <1>1, <1>2, <1>3, <1>4, <1>5, <1>10, RestoreEnds DEF PreparationFails

\* A step of a restore that does not end it.
LEMMA GoesOn ==
  ASSUME IInv, r.pc # "idle", r' \in Process, r'.pc # "idle", fs' \in Disk, Same,
         UNCHANGED <<backups, b, up, made, deleted, captured>>,
         Recorded(active)', Recorded(fs.rollback)', Recorded(fs.candidate)', Recorded(r.ledger)',
         (\A k \in fs.kept : Recorded(k))',
         Placed', Ledgers', Purging', Preserved', Undoable', Generations'
  PROVE  IInv'
<1>1. /\ Typed' /\ BackupComplete' /\ Freezing' /\ Recorded(b.content)'
      /\ (\A j \in DOMAIN backups : Recorded(backups[j].content))'
  BY Offline DEF IInv, Typed
<1>2. AllRecorded'
  BY <1>1 DEF AllRecorded
<1>3. Ended'
  BY DEF Ended
<1> QED BY <1>1, <1>2, <1>3 DEF IInv

\* While a restore is prepared, the candidate alone changes.
LEMMA CandidateChanges ==
  ASSUME IInv, r.pc \in Preparing, NEW y \in Root, fs' = [fs EXCEPT !.candidate = y],
         NEW pc \in {"delete", "reset", "save"}, Goes(pc), pc = "delete" => r.pc = "import",
         UNCHANGED <<backups, b, up, made, env, deleted, captured>>,
         Recorded(y), Remembers(y), Purging', pc = "save" => active.gen < y.gen
  PROVE  IInv'
<1> USE DEF IInv
<1>1. /\ r' \in Process /\ r'.pc = pc /\ r'.before = r.before /\ r'.config = r.config
      /\ r'.ledger = r.ledger /\ r'.moved = r.moved /\ r'.configured = r.configured
  BY GoesTyped DEF Typed, Preparing, Activating
<1>2. /\ fs' \in Disk /\ active' = active /\ fs'.rollback = fs.rollback /\ fs'.candidate = y
      /\ fs'.kept = fs.kept /\ fs'.config = fs.config /\ fs'.temp = fs.temp /\ fs'.saved = fs.saved
  BY DEF Typed, Disk, active
<1>3. /\ ~r.moved /\ fs.rollback = None /\ Exists(active) /\ r.pc # "idle" /\ ~r.configured
  BY DEF Placed, Preparing
<1>4. Exists(y)
  BY DEF Exists, Root
<1>5. Same
  BY UnchangedSame DEF Typed
<1>6. /\ Recorded(active)' /\ Recorded(fs.rollback)' /\ Recorded(fs.candidate)' /\ Recorded(r.ledger)'
      /\ (\A k \in fs.kept : Recorded(k))'
  BY <1>1, <1>2 DEF AllRecorded, Recorded
<1>7. Placed'
  BY <1>1, <1>2, <1>3, <1>4 DEF Placed, Preparing
<1>8. Ledgers'
  BY <1>1, <1>2 DEF Ledgers, Remembers
<1>9. Former' = Former
  BY <1>1, <1>2 DEF Former
<1>10. Preserved'
  BY <1>2, <1>9 DEF Preserved, Saved
<1>11. Undoable'
  BY <1>1, <1>2, <1>3, <1>9 DEF Undoable
<1>12. Generations'
  BY <1>1, <1>2, <1>3, <1>9 DEF Generations, Newer, Former
<1> QED BY <1>1, <1>2, <1>3, <1>5, <1>6, <1>7, <1>8, <1>10, <1>11, <1>12, GoesOn

LEMMA ReadLedgerKeeps ==
  ASSUME IInv, ReadLedger
  PROVE  IInv'
<1> USE DEF IInv
<1>1. active \in Root /\ Exists(active) /\ ~r.moved /\ fs.rollback = None /\ ~r.configured
  BY ActiveRoot DEF ReadLedger, Placed
<1>2. fs.candidate \in Root /\ Exists(fs.candidate)
  BY RootExists DEF ReadLedger, Placed, Preparing, Typed, Disk
<1>3. PICK s \in SUBSET Records :
        s = candidate_scope_refs(active, fs.candidate) \union PlannedRefs(active)
  BY <1>1, <1>2, SceneTyped DEF candidate_scope_refs, PlannedRefs, Root, Typed
<1>4. r' = [r EXCEPT !.pc = "import", !.ledger = active, !.refs = s]
  BY <1>3 DEF ReadLedger
<1>5. /\ r' \in Process /\ r'.pc = "import" /\ r'.before = r.before /\ r'.config = r.config
      /\ r'.ledger = active /\ r'.refs = s /\ r'.moved = r.moved /\ r'.configured = r.configured
  BY <1>1, <1>4 DEF Typed, Process, Preparing
<1>6. fs' = fs /\ active' = active /\ Former' = Former /\ r.pc = "ledger" /\ Same
  BY <1>5, UnchangedSame DEF ReadLedger, active, Former, Typed
<1>7. /\ Recorded(active)' /\ Recorded(fs.rollback)' /\ Recorded(fs.candidate)' /\ Recorded(r.ledger)'
      /\ (\A k \in fs.kept : Recorded(k))'
  BY <1>5, <1>6 DEF AllRecorded, Recorded, ReadLedger
<1>8. Placed'
  BY <1>1, <1>2, <1>5, <1>6 DEF Placed, ReadLedger, Preparing
<1>9. Ledgers'
  BY <1>5, <1>6 DEF Ledgers, Remembers, ReadLedger
<1>10. Purging'
  <2>1. active.purge # "none" => env.owned \cap fs.candidate.items \subseteq s
    BY <1>3 DEF candidate_scope_refs
  <2> QED BY <2>1, <1>5, <1>6 DEF Purging, Scrubbed, Activating, ReadLedger
<1>11. Preserved'
  BY <1>6 DEF Preserved, Saved, ReadLedger
<1>12. Undoable'
  BY <1>5, <1>6 DEF Undoable, ReadLedger
<1>13. Generations'
  BY <1>1, <1>5, <1>6 DEF Generations, Newer, ReadLedger
<1>14. fs' \in Disk /\ r.pc # "idle" /\ r'.pc # "idle"
  BY <1>5, <1>6 DEF Typed
<1> QED BY <1>5, <1>6, <1>7, <1>8, <1>9, <1>10, <1>11, <1>12, <1>13, <1>14, GoesOn DEF ReadLedger

LEMMA CandidateRoot ==
  ASSUME IInv, r.pc \in Preparing \cup {"save", "swap", "install"}
  PROVE  fs.candidate \in Root /\ Exists(fs.candidate) /\ Recorded(fs.candidate)
BY RootExists DEF IInv, Placed, Typed, Disk, AllRecorded

\* The candidate takes over what the ledger knows.
LEMMA ImportKeeps ==
  ASSUME IInv, import_restore_ledger
  PROVE  IInv'
<1> USE DEF IInv
<1> DEFINE c == fs.candidate
           l == r.ledger
<1>1. c \in Root /\ Recorded(c) /\ Exists(c) /\ r.pc = "import" /\ r.pc \in Preparing
  BY CandidateRoot DEF import_restore_ledger, Preparing
<1>2. l \in Root /\ Recorded(l) /\ Exists(l) /\ Remembers(l)
  BY <1>1, RootExists DEF Typed, Process, Placed, AllRecorded, Ledgers
<1>3. PICK g \in SUBSET Records : g = c.gone \union l.gone
  BY <1>1, <1>2 DEF Root
<1>4. PICK h \in SUBSET Records : h = (c.pend \ l.gone) \union l.pend
  BY <1>1, <1>2 DEF Root
<1>5. PICK q \in Purges : q = IF l.purge = "none" THEN c.purge ELSE l.purge
  BY <1>1, <1>2 DEF Root
<1>6. [c EXCEPT !.gone = g, !.pend = h, !.purge = q] \in Root
  BY <1>1 DEF Root
<1>7. PICK y \in Root : y = [c EXCEPT !.gone = g, !.pend = h, !.purge = q]
  BY <1>6
<1>8. /\ y.id = c.id /\ y.gone = g /\ y.pend = h /\ y.purge = q /\ y.cas = c.cas /\ y.items = c.items
      /\ y.spool = c.spool /\ y.plan = c.plan
  BY <1>1, <1>7 DEF Root
<1>9. fs' = [fs EXCEPT !.candidate = y]
  <2>1. fs' = [fs EXCEPT !.candidate = [c EXCEPT !.gone = c.gone \union l.gone,
                 !.pend = (c.pend \ l.gone) \union l.pend,
                 !.purge = IF l.purge = "none" THEN c.purge ELSE l.purge]]
    BY <1>1 DEF import_restore_ledger, Typed, Disk, Root
  <2> QED BY <2>1, <1>3, <1>4, <1>5, <1>7
<1>10. Recorded(y)
  BY <1>1, <1>2, <1>3, <1>4, <1>8 DEF Recorded
<1>11. Remembers(y)
  BY <1>2, <1>3, <1>5, <1>8 DEF Remembers
<1>12. r'.pc = "delete" /\ r'.ledger = l /\ r'.refs = r.refs
  BY GoesTyped DEF import_restore_ledger, Typed, Preparing
<1>13. fs'.candidate = y
  BY <1>9 DEF Typed, Disk
<1>14. Purging'
  <2>1. l.purge # "none" => env.owned \cap y.items \subseteq r.refs
    BY <1>1, <1>8 DEF Purging
  <2>2. IF l.purge = "none" THEN Scrubbed(y) ELSE y.purge # "none"
    BY <1>1, <1>5, <1>8 DEF Purging, Scrubbed
  <2> QED BY <1>12, <1>13, <2>1, <2>2 DEF Purging, Scrubbed, Activating, import_restore_ledger
<1> QED BY <1>1, <1>9, <1>10, <1>11, <1>14, CandidateChanges DEF import_restore_ledger

\* The blobs of purged repositories go, but for what the spool refers to.
LEMMA DeleteKeeps ==
  ASSUME IInv, complete_candidate_deletions
  PROVE  IInv'
<1> USE DEF IInv
<1> DEFINE c == fs.candidate
           l == r.ledger
<1>1. c \in Root /\ Recorded(c) /\ Exists(c) /\ r.pc = "delete" /\ r.pc \in Preparing /\ Remembers(c)
  BY CandidateRoot DEF complete_candidate_deletions, Preparing, Ledgers
<1>3. PICK k \in SUBSET Records : k = c.cas \ (r.refs \ Pins(c))
  BY <1>1 DEF Root
<1>4. PICK h \in SUBSET Records : h = c.pend \ l.pend
  BY <1>1 DEF Root
<1>5. PICK q \in Purges : q = IF l.purge = "none" THEN c.purge ELSE "Purged"
  BY <1>1 DEF Root, Purges
<1>6. [c EXCEPT !.cas = k, !.pend = h, !.purge = q] \in Root
  BY <1>1 DEF Root
<1>7. PICK y \in Root : y = [c EXCEPT !.cas = k, !.pend = h, !.purge = q]
  BY <1>6
<1>8. /\ y.id = c.id /\ y.gone = c.gone /\ y.pend = h /\ y.purge = q /\ y.cas = k /\ y.items = c.items
      /\ y.spool = c.spool /\ y.plan = c.plan
  BY <1>1, <1>7 DEF Root
<1>9. fs' = [fs EXCEPT !.candidate = y]
  <2>1. fs' = [fs EXCEPT !.candidate = [c EXCEPT !.cas = c.cas \ (r.refs \ Pins(c)),
                 !.pend = c.pend \ l.pend,
                 !.purge = IF l.purge = "none" THEN c.purge ELSE "Purged"]]
    BY <1>1 DEF complete_candidate_deletions, Typed, Disk, Root
  <2> QED BY <2>1, <1>3, <1>4, <1>5, <1>7
<1>10. Recorded(y)
  BY <1>1, <1>4, <1>8 DEF Recorded
<1>11. Remembers(y)
  BY <1>1, <1>5, <1>8 DEF Remembers, Exists
<1>12. r'.pc = "reset"
  BY GoesTyped DEF complete_candidate_deletions, Typed, Preparing
<1>13. fs'.candidate = y
  BY <1>9 DEF Typed, Disk
<1>14. Clean(y)
  <2>1. CASE l.purge = "none"
    BY <1>1, <1>3, <1>5, <1>8, <2>1 DEF Purging, Scrubbed, Clean
  <2>2. CASE l.purge # "none"
    <3>1. c.purge # "none" /\ env.owned \cap c.items \subseteq r.refs
      BY <1>1, <2>2 DEF Purging
    <3>2. Pins(c) \cap env.owned \subseteq c.spool
      BY <3>1 DEF Pins, live_cas_refs, Visible
    <3> QED BY <1>3, <1>8, <3>1, <3>2 DEF Clean
  <2> QED BY <2>1, <2>2
<1>15. Purging'
  BY <1>12, <1>13, <1>14 DEF Purging, Clean, complete_candidate_deletions
<1> QED BY <1>1, <1>9, <1>10, <1>11, <1>15, CandidateChanges DEF complete_candidate_deletions

\* The larger of two.
LEMMA MaxOfTwo ==
  ASSUME NEW m \in Nat, NEW n \in Nat
  PROVE  Max({m, n}) \in Nat /\ Max({m, n}) >= m /\ Max({m, n}) >= n
<1>1. \E z \in {m, n} : \A w \in {m, n} : z >= w
  <2>1. CASE m >= n
    BY <2>1
  <2>2. CASE ~(m >= n)
    BY <2>2
  <2> QED BY <2>1, <2>2
<1>2. Max({m, n}) \in {m, n} /\ \A w \in {m, n} : Max({m, n}) >= w
  BY <1>1 DEF Max
<1> QED BY <1>2

LEMMA ResetKeeps ==
  ASSUME IInv, ResetAuthority
  PROVE  IInv'
<1> USE DEF IInv
<1> DEFINE c == fs.candidate
<1>1. c \in Root /\ Recorded(c) /\ Exists(c) /\ r.pc = "reset" /\ r.pc \in Preparing /\ Remembers(c)
  BY CandidateRoot DEF ResetAuthority, Preparing, Ledgers
<1>2. active \in Root
  BY <1>1, ActiveRoot DEF Placed
<1>3. c.gen \in Nat /\ active.gen \in Nat
  BY <1>1, <1>2 DEF Root
<1>4. PICK g \in Nat : g = Max({c.gen, active.gen}) + 1 /\ active.gen < g
  <2>1. Max({c.gen, active.gen}) \in Nat /\ Max({c.gen, active.gen}) >= active.gen
    BY <1>3, MaxOfTwo
  <2> QED BY <1>3, <2>1
<1>5. PICK s \in States : s = IF c.state = "Leased" THEN "Queued" ELSE c.state
  BY <1>1 DEF Root, States
<1>6. [c EXCEPT !.state = s, !.gen = g] \in Root
  BY <1>1 DEF Root
<1>7. PICK y \in Root : y = [c EXCEPT !.state = s, !.gen = g]
  BY <1>6
<1>8. /\ y.id = c.id /\ y.gone = c.gone /\ y.pend = c.pend /\ y.purge = c.purge /\ y.cas = c.cas
      /\ y.items = c.items /\ y.spool = c.spool /\ y.plan = c.plan /\ y.gen = g
  BY <1>1, <1>7 DEF Root
<1>9. fs' = [fs EXCEPT !.candidate = y]
  <2>1. reset_runtime_authority(c) = [c EXCEPT !.state = s]
    BY <1>1, <1>5 DEF reset_runtime_authority, Root
  <2>2. PICK k \in Root : k = [c EXCEPT !.state = s] /\ k.gen = c.gen /\ y = [k EXCEPT !.gen = g]
    <3>1. /\ [c EXCEPT !.state = s] \in Root /\ [c EXCEPT !.state = s].gen = c.gen
          /\ [c EXCEPT !.state = s, !.gen = g] = [[c EXCEPT !.state = s] EXCEPT !.gen = g]
      BY <1>1 DEF Root
    <3> QED BY <3>1, <1>7
  <2>3. fs' = [fs EXCEPT !.candidate = [reset_runtime_authority(c) EXCEPT
                 !.gen = Max({reset_runtime_authority(c).gen, active.gen}) + 1]]
    BY <1>1 DEF ResetAuthority, Typed, Disk
  <2>4. fs' = [fs EXCEPT !.candidate = [k EXCEPT !.gen = Max({k.gen, active.gen}) + 1]]
    BY <2>1, <2>2, <2>3
  <2> QED BY <1>4, <2>2, <2>4
<1>10. Recorded(y)
  BY <1>1, <1>8 DEF Recorded
<1>11. Remembers(y)
  BY <1>1, <1>8 DEF Remembers, Exists
<1>12. r'.pc = "save" /\ fs'.candidate = y
  BY <1>9, GoesTyped DEF ResetAuthority, Typed, Activating, Disk
<1>13. Purging'
  BY <1>1, <1>8, <1>12 DEF Purging, Clean, ResetAuthority
<1> QED BY <1>1, <1>4, <1>8, <1>9, <1>10, <1>11, <1>13, CandidateChanges DEF ResetAuthority

-----------------------------------------------------------------------------
(* Activation, its end and its rollback.                                       *)

LEMMA SaveConfigKeeps ==
  ASSUME IInv, SaveConfig
  PROVE  IInv'
<1> USE DEF IInv
<1>1. fs.candidate \in Root /\ Exists(fs.candidate) /\ ~r.moved /\ ~r.configured /\ fs.rollback = None
      /\ active \in Root /\ Exists(active)
  BY CandidateRoot, ActiveRoot DEF SaveConfig, Placed
<1>2. Config \in Nat /\ fs.candidate.id \in Nat
  BY <1>1 DEF Config, Root, Typed, Disk
<1>3. /\ fs' \in Disk /\ fs'.active = active /\ fs'.rollback = fs.rollback
      /\ fs'.candidate = fs.candidate /\ fs'.kept = fs.kept /\ fs'.config = fs.config
      /\ fs'.saved = Config /\ fs'.temp = fs.candidate.id /\ active' = active
  BY <1>2 DEF SaveConfig, Typed, Disk, active
<1>4. /\ r' \in Process /\ r'.pc = "swap" /\ r'.before = r.before /\ r'.config = r.config
      /\ r'.ledger = r.ledger /\ r'.refs = r.refs /\ r'.moved = r.moved /\ r'.configured = r.configured
  BY GoesTyped DEF SaveConfig, Typed, Activating
<1>5. Same /\ Former' = Former /\ r.pc = "save"
  BY <1>3, <1>4, UnchangedSame DEF SaveConfig, Former, Typed
<1>6. /\ Recorded(active)' /\ Recorded(fs.rollback)' /\ Recorded(fs.candidate)' /\ Recorded(r.ledger)'
      /\ (\A k \in fs.kept : Recorded(k))'
  BY <1>3, <1>4 DEF AllRecorded, Recorded, SaveConfig
<1>7. Placed'
  BY <1>1, <1>3, <1>4 DEF Placed, SaveConfig, Preparing
<1>8. Ledgers'
  BY <1>3, <1>4, <1>5 DEF Ledgers, Remembers, SaveConfig
<1>9. Purging'
  BY <1>3, <1>4, <1>5 DEF Purging, Clean, Activating, SaveConfig
<1>10. Preserved'
  BY <1>3, <1>5 DEF Preserved, Saved, SaveConfig
<1>11. Undoable'
  <2>1. ~env.nested => Config = r.config
    BY <1>1, <1>5 DEF Undoable, Config
  <2> QED BY <2>1, <1>1, <1>3, <1>4, <1>5 DEF Undoable, SaveConfig
<1>12. Generations'
  BY <1>1, <1>3, <1>4, <1>5 DEF Generations, Newer, SaveConfig
<1> QED BY <1>3, <1>4, <1>5, <1>6, <1>7, <1>8, <1>9, <1>10, <1>11, <1>12, GoesOn DEF SaveConfig

LEMMA MoveOldRootKeeps ==
  ASSUME IInv, MoveOldRoot
  PROVE  IInv'
<1> USE DEF IInv
<1>1. fs.candidate \in Root /\ Exists(fs.candidate) /\ ~r.moved /\ ~r.configured /\ fs.rollback = None
      /\ active \in Root /\ Exists(active) /\ ~Exists(None)
  BY CandidateRoot, ActiveRoot DEF MoveOldRoot, Placed, Exists, None
<1>2. /\ fs' \in Disk /\ fs'.active = None /\ fs'.rollback = active
      /\ fs'.candidate = fs.candidate /\ fs'.kept = fs.kept /\ fs'.config = fs.config
      /\ fs'.saved = fs.saved /\ fs'.temp = fs.temp /\ active' = None
  BY <1>1 DEF MoveOldRoot, Typed, Disk, active
<1>3. /\ r' \in Process /\ r'.pc = "install" /\ r'.before = r.before /\ r'.config = r.config
      /\ r'.ledger = r.ledger /\ r'.refs = r.refs /\ r'.moved /\ r'.configured = r.configured
  BY DEF MoveOldRoot, Typed, Process, Activating
<1>4. Same /\ Former' = Former /\ Former = active /\ r.pc = "swap"
  BY <1>1, <1>2, <1>3, UnchangedSame DEF MoveOldRoot, Former, Typed
<1>5. /\ Recorded(active)' /\ Recorded(fs.rollback)' /\ Recorded(fs.candidate)' /\ Recorded(r.ledger)'
      /\ (\A k \in fs.kept : Recorded(k))'
  BY <1>1, <1>2, <1>3 DEF AllRecorded, Recorded, MoveOldRoot
<1>6. Placed'
  BY <1>1, <1>2, <1>3 DEF Placed, MoveOldRoot, Preparing
<1>7. Ledgers'
  BY <1>1, <1>2, <1>3, <1>4 DEF Ledgers, Remembers, MoveOldRoot
<1>8. Purging'
  BY <1>2, <1>3, <1>4 DEF Purging, Clean, Activating, MoveOldRoot
<1>9. Preserved'
  BY <1>2, <1>4 DEF Preserved, Saved, MoveOldRoot
<1>10. Undoable'
  BY <1>1, <1>2, <1>3, <1>4 DEF Undoable, MoveOldRoot
<1>11. Generations'
  BY <1>1, <1>2, <1>3, <1>4 DEF Generations, Newer, MoveOldRoot
<1>12. r.pc # "idle" /\ r'.pc # "idle"
  BY <1>3, <1>4
<1> QED BY <1>2, <1>3, <1>4, <1>5, <1>6, <1>7, <1>8, <1>9, <1>10, <1>11, <1>12, GoesOn DEF MoveOldRoot

LEMMA InstallRootKeeps ==
  ASSUME IInv, InstallRoot
  PROVE  IInv'
<1> USE DEF IInv
<1>1. fs.candidate \in Root /\ Exists(fs.candidate) /\ r.moved /\ Exists(fs.rollback) /\ ~Exists(None)
  BY CandidateRoot DEF InstallRoot, Placed, Exists, None
<1>2. /\ fs' \in Disk /\ fs'.active = fs.candidate /\ fs'.rollback = fs.rollback
      /\ fs'.candidate = None /\ fs'.kept = fs.kept /\ fs'.config = fs.config
      /\ fs'.saved = fs.saved /\ fs'.temp = fs.temp /\ active' = fs.candidate
  BY <1>1 DEF InstallRoot, Typed, Disk, active
<1>3. /\ r' \in Process /\ r'.pc = "configure" /\ r'.before = r.before /\ r'.config = r.config
      /\ r'.ledger = r.ledger /\ r'.refs = r.refs /\ r'.moved = r.moved /\ r'.configured = r.configured
  BY DEF InstallRoot, Typed, Process, Activating
<1>4. Same /\ Former' = Former /\ Former = fs.rollback /\ r.pc = "install"
  BY <1>1, <1>2, <1>3, UnchangedSame DEF InstallRoot, Former, Typed
<1>5. /\ Recorded(active)' /\ Recorded(fs.rollback)' /\ Recorded(fs.candidate)' /\ Recorded(r.ledger)'
      /\ (\A k \in fs.kept : Recorded(k))'
  BY <1>1, <1>2, <1>3 DEF AllRecorded, Recorded, InstallRoot
<1>6. Placed'
  BY <1>1, <1>2, <1>3 DEF Placed, InstallRoot, Preparing
<1>7. Ledgers'
  BY <1>1, <1>2, <1>3, <1>4 DEF Ledgers, Remembers, InstallRoot
<1>8. Purging'
  BY <1>1, <1>2, <1>3, <1>4 DEF Purging, InstallRoot
<1>9. Preserved'
  BY <1>2, <1>4 DEF Preserved, Saved, InstallRoot
<1>10. Undoable'
  BY <1>1, <1>2, <1>3, <1>4 DEF Undoable, InstallRoot
<1>11. Generations'
  BY <1>1, <1>2, <1>3, <1>4 DEF Generations, Newer, InstallRoot
<1>12. r.pc # "idle" /\ r'.pc # "idle"
  BY <1>3, <1>4
<1> QED BY <1>2, <1>3, <1>4, <1>5, <1>6, <1>7, <1>8, <1>9, <1>10, <1>11, <1>12, GoesOn DEF InstallRoot

\* The configuration is put where the scenario has it: in the new root or beside it.
LEMMA InstallConfigKeeps ==
  ASSUME IInv, InstallConfig
  PROVE  IInv'
<1> USE DEF IInv
<1>1. r.moved /\ Exists(fs.rollback) /\ ~Exists(None) /\ active \in Root /\ Exists(active) /\ r.pc = "configure"
  BY ActiveRoot DEF InstallConfig, Placed, Exists, None
<1>2. fs.temp = active.id /\ fs.temp \in Nat /\ env.nested \in BOOLEAN /\ Same
  BY <1>1, SceneTyped, UnchangedSame DEF Undoable, Typed, Disk, InstallConfig
<1>3. PICK y \in Root : y = IF env.nested THEN [active EXCEPT !.cfg = fs.temp] ELSE active
  <2>1. [active EXCEPT !.cfg = fs.temp] \in Root
    BY <1>1, <1>2 DEF Root
  <2> QED BY <1>1, <2>1
<1>4. /\ y.id = active.id /\ y.items = active.items /\ y.spool = active.spool /\ y.cas = active.cas
      /\ y.gone = active.gone /\ y.pend = active.pend /\ y.purge = active.purge /\ y.plan = active.plan
      /\ y.gen = active.gen /\ (env.nested => y.cfg = fs.temp)
  BY <1>1, <1>2, <1>3 DEF Root
<1>5. /\ fs' \in Disk /\ fs'.active = y /\ fs'.rollback = fs.rollback
      /\ fs'.candidate = fs.candidate /\ fs'.kept = fs.kept
      /\ fs'.config = (IF env.nested THEN fs.config ELSE fs.temp) /\ fs'.saved = fs.saved
  <2>1. CASE env.nested
    <3>1. fs' = [fs EXCEPT !.active = y, !.temp = 0]
      <4>1. fs' = [fs EXCEPT !.active = [active EXCEPT !.cfg = fs.temp], !.temp = 0]
        BY <2>1 DEF InstallConfig, active, Typed, Disk
      <4> QED BY <2>1, <4>1, <1>3
    <3> QED BY <2>1, <3>1 DEF Typed, Disk
  <2>2. CASE ~env.nested
    <3>1. fs' = [fs EXCEPT !.config = fs.temp, !.temp = 0]
      BY <2>2 DEF InstallConfig
    <3>2. y = fs.active
      BY <2>2, <1>3 DEF active
    <3> QED BY <1>2, <2>2, <3>1, <3>2 DEF Typed, Disk
  <2> QED BY <1>2, <2>1, <2>2
<1>6. /\ r' \in Process /\ r'.pc = "settle" /\ r'.before = r.before /\ r'.config = r.config
      /\ r'.ledger = r.ledger /\ r'.refs = r.refs /\ r'.moved = r.moved /\ r'.configured
  BY DEF InstallConfig, Typed, Process, Activating
<1>7. active' = y /\ Former' = Former /\ Former = fs.rollback /\ Exists(y)
  BY <1>1, <1>4, <1>5, <1>6 DEF InstallConfig, Former, active, Exists
<1>8. /\ Recorded(active)' /\ Recorded(fs.rollback)' /\ Recorded(fs.candidate)' /\ Recorded(r.ledger)'
      /\ (\A k \in fs.kept : Recorded(k))'
  BY <1>1, <1>4, <1>5, <1>6, <1>7 DEF AllRecorded, Recorded, InstallConfig
<1>9. Placed'
  BY <1>1, <1>5, <1>6, <1>7 DEF Placed, InstallConfig, Preparing
<1>10. Ledgers'
  BY <1>1, <1>2, <1>4, <1>5, <1>6, <1>7 DEF Ledgers, Remembers, InstallConfig, Same
<1>11. Purging'
  BY <1>1, <1>5, <1>6 DEF Purging, Clean, Activating, InstallConfig
<1>12. Preserved'
  BY <1>5, <1>7 DEF Preserved, Saved, InstallConfig
<1>13. Undoable'
  <2>1. ~env.nested => fs.saved = r.config
    BY <1>1 DEF Undoable
  <2>2. Config' = y.id
    BY <1>2, <1>4, <1>5, <1>7 DEF Config, Same, InstallConfig
  <2> QED BY <2>1, <2>2, <1>1, <1>5, <1>6, <1>7 DEF Undoable, InstallConfig
<1>14. Generations'
  BY <1>1, <1>4, <1>5, <1>6, <1>7 DEF Generations, Newer, InstallConfig
<1>15. r.pc # "idle" /\ r'.pc # "idle"
  BY <1>1, <1>6
<1> QED BY <1>2, <1>5, <1>6, <1>8, <1>9, <1>10, <1>11, <1>12, <1>13, <1>14, <1>15, GoesOn DEF InstallConfig

LEMMA ActivationFailsKeeps ==
  ASSUME IInv, ActivationFails
  PROVE  IInv'
<1> USE DEF IInv
<1>1. /\ r' \in Process /\ r'.pc = "undo" /\ r'.before = r.before /\ r'.config = r.config
      /\ r'.ledger = r.ledger /\ r'.refs = r.refs /\ r'.moved = r.moved /\ r'.configured = r.configured
  BY GoesTyped DEF ActivationFails, Typed, Activating
<1>2. fs' = fs /\ active' = active /\ Former' = Former /\ Same /\ fs' \in Disk
  BY <1>1, FaultSame DEF ActivationFails, Former, active, Typed
<1>3. r.pc # "idle" /\ r'.pc # "idle"
  BY <1>1 DEF ActivationFails
<1>4. /\ Recorded(active)' /\ Recorded(fs.rollback)' /\ Recorded(fs.candidate)' /\ Recorded(r.ledger)'
      /\ (\A k \in fs.kept : Recorded(k))'
  BY <1>1, <1>2 DEF AllRecorded, Recorded, ActivationFails
<1>5. Placed'
  BY <1>1, <1>2, <1>3 DEF Placed, ActivationFails, Preparing
<1>6. Ledgers'
  BY <1>1, <1>2 DEF Ledgers, Remembers, ActivationFails, Same
<1>7. Purging'
  BY <1>1, <1>2 DEF Purging, Clean, Activating, ActivationFails, Same
<1>8. Preserved'
  BY <1>2 DEF Preserved, Saved, ActivationFails
<1>9. Undoable'
  BY <1>1, <1>2, <1>3 DEF Undoable, Same, ActivationFails
<1>10. Generations'
  BY <1>1, <1>2 DEF Generations, Newer, ActivationFails
<1> QED BY <1>1, <1>2, <1>3, <1>4, <1>5, <1>6, <1>7, <1>8, <1>9, <1>10, GoesOn DEF ActivationFails

LEMMA SettleKeeps ==
  ASSUME IInv, Settle
  PROVE  IInv'
<1> USE DEF IInv
<1>1. r.moved /\ fs.rollback \in Root /\ Exists(active) /\ active \in Root /\ r.pc = "settle" /\ ~Exists(None)
  BY RootExists, ActiveRoot DEF Settle, Placed, Typed, Disk, Exists, None
<1>2. PICK k \in SUBSET Root : k = fs.kept \union {fs.rollback}
  BY <1>1 DEF Typed, Disk
<1>3. fs' = [fs EXCEPT !.kept = k, !.rollback = None, !.saved = 0]
  BY <1>2 DEF Settle
<1>4. /\ fs' \in Disk /\ fs'.rollback = None /\ fs'.active = active /\ active' = active /\ fs'.kept = k
      /\ fs'.candidate = fs.candidate /\ fs'.config = fs.config
  BY <1>3 DEF Typed, Disk, active
<1>5. Same
  BY UnchangedSame DEF Settle, Typed
<1>6. Recorded(active)' /\ Recorded(fs.candidate)' /\ (\A x \in fs.kept : Recorded(x))' /\ Remembers(active)'
  BY <1>2, <1>4, <1>5 DEF AllRecorded, Recorded, Ledgers, Remembers, Same, Settle
<1>7. Saved({active} \cup fs.kept)'
  BY <1>1, <1>2, <1>4 DEF Preserved, Saved, Former, Settle
<1>8. Ended'
  <2>1. Config = active.id /\ env.nested \in BOOLEAN
    BY <1>1, SceneTyped DEF Undoable, Typed
  <2>2. Config' = Config
    BY <1>4, <1>5 DEF Config, Same
  <2>3. r'.end = "activated"
    BY EndsTyped DEF Settle, Typed
  <2> QED BY <1>1, <1>4, <2>1, <2>2, <2>3 DEF Ended
<1>9. Newer(active)'
  <2>1. fs.rollback.gen \in Nat /\ active.gen \in Nat /\ \A x \in fs.kept : x.gen \in Nat
    BY <1>1 DEF Typed, Disk, Root
  <2>2. fs.rollback.gen < active.gen /\ Exists(fs.rollback)
    BY <1>1 DEF Generations, Placed
  <2>3. ~made.anew => \A x \in fs.kept : x.gen < fs.rollback.gen
    BY <1>1, <2>2 DEF Generations, Newer, Former
  <2> QED BY <1>2, <1>4, <2>1, <2>2, <2>3 DEF Newer, Settle
<1> QED BY <1>1, <1>4, <1>5, <1>6, <1>7, <1>8, <1>9, RestoreEnds DEF Settle

\* The rollback puts back the root and the configuration there were.
LEMMA UndoActivationKeeps ==
  ASSUME IInv, UndoActivation
  PROVE  IInv'
<1> USE DEF IInv
<1>1. r.pc = "undo" /\ Former \in Root /\ Exists(Former) /\ ~Exists(None)
  <2>1. Exists(Former) /\ Former \in Root \cup {None}
    BY DEF UndoActivation, Placed, Former, Typed, Disk, active
  <2> QED BY <2>1, RootExists DEF UndoActivation, Exists, None
<1>2. env.nested \in BOOLEAN /\ Same
  BY SceneTyped, UnchangedSame DEF UndoActivation, Typed
<1>3. PICK c \in Nat : c = IF r.configured /\ ~env.nested THEN fs.saved ELSE fs.config
  BY DEF Typed, Disk
<1>4. PICK x \in Root : x = Former
  BY <1>1
<1>5. PICK z \in Nat : z = 0
  OBVIOUS
<1>6. fs' = [fs EXCEPT !.config = c, !.active = x, !.candidate = None, !.rollback = None,
                       !.temp = z, !.saved = z]
  BY <1>3, <1>4, <1>5 DEF UndoActivation, Former, active, Typed, Disk
<1>7. /\ fs' \in Disk /\ fs'.rollback = None /\ fs'.active = x /\ active' = x /\ fs'.kept = fs.kept
      /\ fs'.candidate = None /\ fs'.config = c
  BY <1>6 DEF Typed, Disk, active
<1>8. Recorded(active)' /\ Recorded(fs.candidate)' /\ (\A k \in fs.kept : Recorded(k))' /\ Remembers(active)'
  BY <1>1, <1>2, <1>4, <1>7 DEF AllRecorded, Recorded, Ledgers, Remembers, Same, UndoActivation, Former
<1>9. Saved({active} \cup fs.kept)' /\ Newer(active)'
  BY <1>1, <1>4, <1>7 DEF Preserved, Saved, Generations, Newer, UndoActivation
<1>10. Ended'
  <2>1. x.id = r.before /\ (env.nested => x.cfg = r.config) /\ (~env.nested => c = r.config)
    BY <1>1, <1>3, <1>4 DEF Undoable
  <2>2. Config' = r.config
    BY <1>2, <1>7, <2>1 DEF Config, Same
  <2>3. r'.end = "failed" /\ r'.before = r.before /\ r'.config = r.config
    BY EndsTyped DEF UndoActivation, Typed
  <2> QED BY <1>1, <1>4, <1>7, <2>1, <2>2, <2>3 DEF Ended
<1> QED BY <1>1, <1>2, <1>7, <1>8, <1>9, <1>10, RestoreEnds DEF UndoActivation

-----------------------------------------------------------------------------
(* The beginning of a restore.                                                 *)

\* The candidate is the backup under an identity of its own.
LEMMA PrepareFound ==
  ASSUME IInv, NEW j \in DOMAIN backups, PrepareRestore(j), Exists(active)
  PROVE  IInv'
<1> USE DEF IInv
<1>1. ~up /\ r.pc = "idle" /\ ~r.moved /\ ~r.configured /\ fs.rollback = None /\ active \in Root
  BY ActiveRoot DEF PrepareRestore, Placed, Typed, Process
<1>2. j \in Nat /\ backups[j].content \in Root /\ Recorded(backups[j].content)
  BY DEF Typed, Copy, AllRecorded
<1>3. PICK c \in Root : c = backups[j].content /\ c.cas \subseteq BackupRefs(c, c.spool)
                        /\ c.pend \subseteq c.gone /\ c.plan \subseteq deleted
  <2>1. Exists(backups[j].content)
    BY <1>2 DEF Exists, Root
  <2> QED BY <1>2, <2>1 DEF PrepareRestore, VerifiedBackup, FilesVerified, Recorded
<1>4. PICK n \in Nat \ {0} : n = made.next
  BY DEF Typed
<1>5. PICK y \in Root : y = [c EXCEPT !.id = n]
  BY <1>3 DEF Root
<1>6. /\ y.pend = c.pend /\ y.gone = c.gone /\ y.plan = c.plan /\ y.cas = c.cas /\ y.spool = c.spool
      /\ y.items = c.items /\ y.purge = c.purge
  BY <1>5 DEF Root
<1>7. Copied(backups[j].content, made.next) = y
  BY <1>3, <1>4, <1>5 DEF Copied
<1>8. fs' = [fs EXCEPT !.active = active, !.candidate = y]
  <2>1. fs' = [fs EXCEPT !.active = IF Exists(active) THEN fs.active ELSE EmptyRoot(made.next + 1),
                         !.candidate = IF Exists(active) THEN Copied(backups[j].content, made.next)
                                       ELSE None]
    BY DEF PrepareRestore, Typed, Disk
  <2> QED BY <2>1, <1>7 DEF active
<1>9. /\ fs' \in Disk /\ fs'.active = active /\ active' = active /\ fs'.rollback = fs.rollback
      /\ fs'.candidate = y /\ fs'.kept = fs.kept /\ fs'.config = fs.config
      /\ fs'.temp = fs.temp /\ fs'.saved = fs.saved
  BY <1>8, <1>1 DEF Typed, Disk, active
<1>10. PICK o \in Nat : o = Config
  BY <1>1, SceneTyped DEF Config, Typed, Disk, Root
<1>11. PICK i \in Nat : i = active.id
  BY <1>1 DEF Root
<1>12. PICK d \in Nat : d = r.done + 1
  BY DEF Typed, Process
<1>13. PICK z \in Nat : z = 0
  OBVIOUS
<1>14. r' = [pc |-> "ledger", before |-> i, config |-> o, source |-> j, ledger |-> None,
             refs |-> {}, moved |-> FALSE, configured |-> FALSE, end |-> "none", done |-> d]
  <2>1. IdleRestore = [pc |-> "idle", before |-> z, config |-> z, source |-> z, ledger |-> None,
                       refs |-> {}, moved |-> FALSE, configured |-> FALSE, end |-> "none", done |-> z]
    BY <1>13 DEF IdleRestore
  <2>2. r' = [IdleRestore EXCEPT !.pc = "ledger", !.end = "none", !.before = i, !.config = o,
                !.source = j, !.done = d]
    BY <1>9, <1>10, <1>11, <1>12 DEF PrepareRestore
  <2> QED BY <2>1, <2>2
<1>15. /\ r' \in Process /\ r'.pc = "ledger" /\ r'.before = i /\ r'.config = o /\ r'.ledger = None
       /\ ~r'.moved /\ ~r'.configured
  BY <1>2, <1>14 DEF Process, Preparing
<1>16. made' \in [next : Nat \ {0}, anew : BOOLEAN] /\ made'.anew = made.anew
  <2>1. PICK m \in Nat \ {0} : m = made.next + 2
    BY <1>4
  <2>2. PICK a \in BOOLEAN : a = made.anew
    BY DEF Typed
  <2>3. made' = [next |-> m, anew |-> a]
    BY <2>1, <2>2, Zenon DEF PrepareRestore
  <2> QED BY <2>2, <2>3
<1>17. Same
  BY UnchangedSame DEF PrepareRestore, Typed
<1>18. /\ Typed' /\ BackupComplete' /\ Freezing' /\ ~up' /\ b'.pc = "idle" /\ Recorded(b.content)'
       /\ (\A k \in DOMAIN backups : Recorded(backups[k].content))'
  BY <1>1, <1>9, <1>15, <1>16, <1>17, Offline DEF PrepareRestore
<1>19. AllRecorded'
  <2>1. ~Exists(None) /\ Recorded(y)
    BY <1>3, <1>6 DEF Exists, None, Recorded
  <2> QED BY <1>9, <1>15, <1>18, <2>1 DEF AllRecorded, Recorded, PrepareRestore
<1>20. Exists(y)
  BY DEF Exists, Root
<1>21. Placed'
  BY <1>1, <1>9, <1>15, <1>18, <1>20 DEF Placed, Preparing
<1>22. Ledgers'
  BY <1>9, <1>15, <1>16 DEF Ledgers, Remembers, PrepareRestore
<1>23. Purging'
  <2>1. Scrubbed(y)
    BY <1>3, <1>6 DEF Scrubbed, BackupRefs, live_cas_refs, Visible
  <2> QED BY <1>9, <1>15, <2>1 DEF Purging, Scrubbed, Activating, PrepareRestore
<1>24. Former' = active /\ Former = active
  BY <1>1, <1>9, <1>15 DEF Former
<1>25. Preserved'
  BY <1>9, <1>24 DEF Preserved, Saved, PrepareRestore
<1>26. Undoable'
  BY <1>9, <1>10, <1>11, <1>15, <1>17, <1>24 DEF Undoable, Config, Same
<1>27. Ended'
  BY <1>15 DEF Ended
<1>28. Generations'
  BY <1>9, <1>15, <1>16, <1>24 DEF Generations, Newer
<1> QED BY <1>18, <1>19, <1>21, <1>22, <1>23, <1>25, <1>26, <1>27, <1>28

\* Without a live root there is an empty one now, and no candidate.
LEMMA PrepareNone ==
  ASSUME IInv, NEW j \in DOMAIN backups, PrepareRestore(j), ~Exists(active)
  PROVE  IInv'
<1> USE DEF IInv
<1>1. ~up /\ r.pc = "idle" /\ ~r.moved /\ fs.rollback = None /\ j \in Nat
  BY DEF PrepareRestore, Placed, Typed, Process
<1>2. PICK n \in Nat \ {0} : n = made.next + 1
  BY DEF Typed
<1>3. PICK x \in Root : x = EmptyRoot(n) /\ Exists(x) /\ x.pend = {} /\ x.plan = {} /\ x.id = n
  BY EmptyRootTyped
<1>4. fs' = [fs EXCEPT !.active = x, !.candidate = None]
  <2>1. fs' = [fs EXCEPT !.active = IF Exists(active) THEN fs.active ELSE EmptyRoot(made.next + 1),
                         !.candidate = IF Exists(active) THEN Copied(backups[j].content, made.next)
                                       ELSE None]
    BY DEF PrepareRestore, Typed, Disk
  <2> QED BY <2>1, <1>2, <1>3
<1>5. /\ fs' \in Disk /\ fs'.active = x /\ active' = x /\ fs'.rollback = None
      /\ fs'.candidate = None /\ fs'.kept = fs.kept
  BY <1>1, <1>4 DEF Typed, Disk, active
<1>6. PICK d \in Nat : d = r.done + 1
  BY DEF Typed, Process
<1>7. PICK z \in Nat : z = 0
  OBVIOUS
<1>8. r' = [pc |-> "idle", before |-> n, config |-> z, source |-> j, ledger |-> None,
            refs |-> {}, moved |-> FALSE, configured |-> FALSE, end |-> "historical", done |-> d]
  <2>1. IdleRestore = [pc |-> "idle", before |-> z, config |-> z, source |-> z, ledger |-> None,
                       refs |-> {}, moved |-> FALSE, configured |-> FALSE, end |-> "none", done |-> z]
    BY <1>7 DEF IdleRestore
  <2>2. r' = [IdleRestore EXCEPT !.pc = "idle", !.end = "historical", !.before = n, !.config = z,
                !.source = j, !.done = d]
    BY <1>3, <1>5, <1>6, <1>7 DEF PrepareRestore
  <2> QED BY <2>1, <2>2
<1>9. /\ r' \in Process /\ r'.pc = "idle" /\ r'.ledger = None /\ ~r'.moved /\ ~r'.configured
      /\ r'.end = "historical"
  BY <1>1, <1>2, <1>8 DEF Process
<1>10. made' \in [next : Nat \ {0}, anew : BOOLEAN] /\ made'.anew
  <2>1. PICK m \in Nat \ {0} : m = made.next + 2
    BY <1>2 DEF Typed
  <2>2. (made.anew \/ ~Exists(active)) = TRUE
    BY Zenon
  <2>3. made' = [next |-> m, anew |-> TRUE]
    BY <2>1, <2>2, Zenon DEF PrepareRestore
  <2> QED BY <2>3
<1>11. Same
  BY UnchangedSame DEF PrepareRestore, Typed
<1>12. /\ Typed' /\ BackupComplete' /\ Freezing' /\ ~up' /\ b'.pc = "idle" /\ Recorded(b.content)'
       /\ (\A k \in DOMAIN backups : Recorded(backups[k].content))'
  BY <1>1, <1>5, <1>9, <1>10, <1>11, Offline DEF PrepareRestore
<1>13. AllRecorded'
  <2>1. ~Exists(None)
    BY DEF Exists, None
  <2> QED BY <1>3, <1>5, <1>9, <1>12, <2>1 DEF AllRecorded, Recorded, PrepareRestore
<1>14. Placed'
  BY <1>1, <1>3, <1>5, <1>9, <1>12 DEF Placed, Preparing
<1>15. Ledgers'
  BY <1>5, <1>9, <1>10 DEF Ledgers, Remembers
<1>16. Purging' /\ Undoable' /\ Ended'
  BY <1>9 DEF Purging, Undoable, Ended, Activating
<1>17. Preserved'
  BY <1>1, <1>5, <1>9 DEF Preserved, Saved, Former, PrepareRestore
<1>18. Generations'
  BY <1>9, <1>10 DEF Generations, Newer
<1> QED BY <1>12, <1>13, <1>14, <1>15, <1>16, <1>17, <1>18

-----------------------------------------------------------------------------
(* The invariant holds, and what follows from it.                              *)

LEMMA Starts ==
  ASSUME Init
  PROVE  IInv
<1>1. active \in Root /\ active = EmptyRoot(1) /\ Exists(active) /\ active.pend = {} /\ active.plan = {}
      /\ active.id = 1
  BY EmptyRootTyped DEF Init, active
<1>2. active.gone = {} /\ active.purge = "none" /\ active.cfg = 1
  BY <1>1 DEF EmptyRoot
<1>3. ~Exists(None)
  BY DEF Exists, None
<1>4. PICK z \in Nat : z = 0
  OBVIOUS
<1>5. fs = [active |-> active, rollback |-> None, candidate |-> None, kept |-> {},
            config |-> 1, temp |-> z, saved |-> z]
  BY <1>1, <1>4 DEF Init
<1>6. fs \in Disk /\ fs.rollback = None /\ fs.candidate = None /\ fs.kept = {} /\ fs.config = 1
  BY <1>1, <1>5 DEF Disk
<1>7. r = [pc |-> "idle", before |-> z, config |-> z, source |-> z, ledger |-> None,
           refs |-> {}, moved |-> FALSE, configured |-> FALSE, end |-> "none", done |-> z]
  BY <1>4 DEF Init, IdleRestore
<1>8. r \in Process /\ r.pc = "idle" /\ ~r.moved /\ ~r.configured /\ r.ledger = None /\ r.end = "none"
  BY <1>7 DEF Process
<1>9. b \in Job /\ b.pc = "idle" /\ b.content = None
  BY IdleBackupTyped DEF Init, IdleBackup
<1>10. DOMAIN backups = {}
  BY DEF Init
<1>11. Scene
  <2>1. env \in [acts : SUBSET STRING, records : SUBSET Records, owned : SUBSET Records,
                 nested : BOOLEAN, jobs : Nat, restores : Nat, left : Nat]
    BY ScenariosAssumption DEF Init, ScenariosAssumption
  <2>2. env.left \in 0 .. env.left /\ env = [env EXCEPT !.left = env.left]
    BY <2>1
  <2> QED BY <2>2 DEF Init, Scene
<1>12. Typed
  <2>1. backups \in [DOMAIN backups -> Copy] /\ DOMAIN backups \subseteq Nat
    BY <1>10 DEF Init
  <2>2. made \in [next : Nat \ {0}, anew : BOOLEAN]
    BY DEF Init
  <2> QED BY <2>1, <2>2, <1>6, <1>8, <1>9, <1>11 DEF Init, Typed
<1>13. AllRecorded
  BY <1>1, <1>3, <1>6, <1>8, <1>9, <1>10 DEF AllRecorded, Recorded
<1>14. Placed
  BY <1>1, <1>6, <1>8, <1>9 DEF Init, Placed, Preparing
<1>15. Ledgers
  BY <1>3, <1>6, <1>8 DEF Init, Ledgers, Remembers
<1>16. Purging /\ Undoable /\ Ended
  BY <1>8 DEF Purging, Undoable, Ended, Activating
<1>17. Preserved /\ BackupComplete
  BY <1>10 DEF Init, Preserved, Saved, BackupComplete
<1>18. Freezing
  BY <1>9 DEF Freezing
<1>19. Generations
  BY <1>6, <1>8 DEF Generations, Newer
<1> QED BY <1>12, <1>13, <1>14, <1>15, <1>16, <1>17, <1>18, <1>19 DEF IInv

LEMMA Stutters ==
  ASSUME IInv, UNCHANGED vars
  PROVE  IInv'
<1>1. UNCHANGED <<fs, backups, b, up, r, made, env, deleted, captured>> /\ active' = active /\ Former' = Former
  BY DEF vars, active, Former
<1>2. Typed' /\ AllRecorded' /\ Placed'
  BY <1>1 DEF IInv, Typed, Scene, AllRecorded, Recorded, Placed
<1>3. Ledgers' /\ Purging' /\ Preserved'
  BY <1>1 DEF IInv, Ledgers, Remembers, Purging, Scrubbed, Clean, Preserved, Saved
<1>4. BackupComplete' /\ Freezing'
  BY <1>1 DEF IInv, BackupComplete, Visible, Freezing
<1>5. Undoable' /\ Ended' /\ Generations'
  BY <1>1 DEF IInv, Undoable, Ended, Config, Generations, Newer
<1> QED BY <1>2, <1>3, <1>4, <1>5 DEF IInv

LEMMA Steps ==
  ASSUME IInv, [Next]_vars
  PROVE  IInv'
<1>1. CASE Live
  BY <1>1, CaptureKeeps, IngestCommitKeeps, IngestAckKeeps, ForgetKeeps, DeletionsKeep, PurgeKeeps,
     PurgeBatchKeeps, ReloadKeeps, StopKeeps, StartKeeps, KilledKeeps DEF Live
<1>2. CASE Backup
  BY <1>2, RequestKeeps, ClaimKeeps, RecoverKeeps, BeginKeeps, FreezeKeeps, StageKeeps, PublishKeeps,
     FinishKeeps DEF Backup
<1>3. CASE Restore
  <2>1. CASE \E j \in DOMAIN backups : PrepareRestore(j)
    BY <2>1, PrepareFound, PrepareNone
  <2>2. CASE ~\E j \in DOMAIN backups : PrepareRestore(j)
    BY <1>3, <2>2, ReadLedgerKeeps, ImportKeeps, DeleteKeeps, ResetKeeps, PreparationFailsKeeps,
       SaveConfigKeeps, MoveOldRootKeeps, InstallRootKeeps, InstallConfigKeeps, SettleKeeps,
       ActivationFailsKeeps, UndoActivationKeeps, UndoFailsKeeps, RestoreKilledKeeps DEF Restore
  <2> QED BY <2>1, <2>2
<1>4. CASE UNCHANGED vars
  BY <1>4, Stutters
<1> QED BY <1>1, <1>2, <1>3, <1>4 DEF Next

\* The inductive invariant holds through every mix of captures, deletions, backup jobs and
\* restores, whatever fails or is killed (store/backup.rs, store/restore.rs).
THEOREM RestoreInvariance == Spec => []IInv
<1>1. Init => IInv
  BY Starts
<1>2. IInv /\ [Next]_vars => IInv'
  BY Steps
<1> QED BY <1>1, <1>2, PTL DEF Spec

LEMMA RootsTyped ==
  ASSUME NEW x \in Root \cup {None}, Recorded(x)
  PROVE  IsRoot(x)
BY RootExists DEF Root, Recorded, IsRoot, Purges, States

LEMMA TypesHold ==
  ASSUME IInv
  PROVE  TypeOK
<1>1. IsRoot(fs.active) /\ IsRoot(fs.rollback) /\ IsRoot(fs.candidate)
  BY RootsTyped DEF IInv, Typed, Disk, AllRecorded, active
<1>2. \A x \in fs.kept : IsRoot(x) /\ Exists(x)
  <2>1. SUFFICES ASSUME NEW x \in fs.kept
                 PROVE  IsRoot(x) /\ Exists(x)
    OBVIOUS
  <2>2. x \in Root /\ Recorded(x)
    BY DEF IInv, Typed, Disk, AllRecorded
  <2> QED BY <2>2, RootsTyped DEF Exists, Root
<1> QED BY <1>1, <1>2 DEF TypeOK, IInv, Typed, Job, Placed, Scene

\* Restores and backups lose nothing (backup.rs, restore.rs): a published backup holds all its
\* boundary froze; every capture that was not deleted is whole in the active root or in one
\* that was set aside; a restore that failed put back the root and the configuration there
\* were, one that succeeded has its own; and the active root's generation is past those of
\* the roots set aside.
THEOREM NothingIsEverLost == Spec => []NothingLost
<1>1. ASSUME IInv
      PROVE  NothingLost
  <2> USE <1>1 DEF IInv
  <2>1. NothingDestroyed
    <3>1. SUFFICES ASSUME NEW c \in captured \ deleted
                   PROVE  \E x \in {x \in {active, fs.rollback} \union fs.kept : Exists(x)} :
                             c \in (x.items \union x.spool) /\ c \in x.cas
      BY DEF NothingDestroyed
    <3>2. PICK x \in {Former} \cup fs.kept : Exists(x) /\ c \in x.items \cup x.spool /\ c \in x.cas
      BY DEF Preserved, Saved
    <3> QED BY <3>2 DEF Former
  <2>2. AllOrNothing
    BY DEF Ended, AllOrNothing
  <2>3. GenerationAdvances
    BY DEF GenerationAdvances, Generations, Newer, Former, Placed
  <2> QED BY <2>1, <2>2, <2>3, TypesHold DEF NothingLost
<1> QED BY <1>1, RestoreInvariance, PTL

\* What was forgotten or purged is never seen in an active root again, and a root that is
\* being activated holds no blob of a purged repository but what its spool refers to: the
\* candidate takes over the ledger of the root it replaces (restore.rs).
THEOREM DeletedAlwaysStaysGone == Spec => []DeletedStaysGone
<1>1. ASSUME IInv
      PROVE  DeletedStaysGone
  <2> USE <1>1 DEF IInv
  <2>1. NoResurrection
    BY DEF NoResurrection, Ledgers, Remembers, Visible
  <2>2. PurgedBlobsGone
    BY DEF PurgedBlobsGone, Purging, Clean, Fenced, Activating
  <2> QED BY <2>1, <2>2 DEF DeletedStaysGone
<1> QED BY <1>1, RestoreInvariance, PTL

-----------------------------------------------------------------------------
(* The inductive invariant of an installation.                                 *)

Assets == {"launcher", "runtime", "registry"}
Wiring == {"config", "host", "unit"}
Package == Names \ {"config"}
File == [v : 0 .. 2, user : Nat]
Formats == {"none", "legacy", "current"}
Store == [native : Formats, flat : BOOLEAN, cand : Formats, backup : BOOLEAN]
Service == [run : 0 .. 2, enabled : BOOLEAN]

InstallSteps == {"assets", "write", "undo", "unwrite", "cleanup"}
RemovalSteps == {"remove", "write", "undo", "unwrite"}
CheckSteps == {"prepare", "probe", "resume"}
\* The steps of an upgrade before it has written a file, or after it took all back.
Unwritten == {"quiesce", "prepare", "probe", "stage", "exchange", "verify", "commit", "discard",
              "unexchange"}
UpgradeSteps == Unwritten \cup {"publish", "undo", "rollback", "committed", "restart", "resume"}

Operator == [pc : {"idle"} \cup InstallSteps \cup RemovalSteps \cup UpgradeSteps,
             kind : {"none", "install", "uninstall", "check", "upgrade"},
             orig : [Names -> File], changed : SUBSET Names, i : 0 .. 5, prev : Service,
             managed : BOOLEAN, may : BOOLEAN, prepared : BOOLEAN, held : BOOLEAN, before : Store,
             called : BOOLEAN, started : BOOLEAN, attempted : BOOLEAN, fresh : BOOLEAN,
             restored : BOOLEAN,
             end : {"none", "done", "failed", "preserved", "uncertain", "retained", "killed"}]

WellTyped ==
  /\ files \in [Names -> File] /\ gens \subseteq {1, 2} /\ pins \in [Sessions -> 0 .. 2]
  /\ data \in Store /\ svc \in Service /\ p \in Operator
  /\ edits \in 0 .. MaxEdits

Working == p.pc # "idle"

\* Whose steps these are.
OwnSteps ==
  /\ p.kind = "none" => ~Working
  /\ p.kind = "install" => p.pc \in {"idle"} \cup InstallSteps
  /\ p.kind = "uninstall" => p.pc \in {"idle"} \cup RemovalSteps
  /\ p.kind = "check" => p.pc \in {"idle"} \cup CheckSteps
  /\ p.kind = "upgrade" => p.pc \in {"idle"} \cup UpgradeSteps
  /\ p.end # "none" => p.pc = "idle" \/ (p.pc = "resume" /\ p.end = "uncertain")
  /\ p.started => p.kind = "install"
  /\ p.fresh => p.kind = "install"
  /\ p.pc = "assets" => ~p.fresh
  /\ p.pc = "cleanup" => p.fresh

\* Only the host configuration is edited, and every edit is in it.
Edits ==
  /\ \A f \in Names \ {"host"} : files[f].user = 0
  /\ files["host"].user = edits

\* What the run found.
Found ==
  Working => /\ Upgrading => \A f \in Names : p.orig[f].v = 1
             /\ ~Upgrading => \A f \in Wiring : p.orig[f].v \in {0, 1}
             /\ p.fresh => \A f \in Assets : p.orig[f].v = 0
             /\ p.prev.run \in {0, 1}

\* Which files the run has changed, and that nobody else changed a version.
Changes ==
  Working =>
    /\ p.changed \subseteq IF Upgrading THEN Package ELSE Wiring
    /\ \A f \in p.changed : files[f].v = desired(f).v
    /\ \A f \in Names \ p.changed : (p.fresh /\ f \in Assets) \/ files[f].v = p.orig[f].v

\* How far the publication or its rollback has come.
Progress ==
  /\ p.pc \in Unwritten => p.changed = {} /\ p.i = 0
  /\ p.pc = "resume" /\ p.end = "none" => p.changed = {}
  /\ p.pc = "cleanup" /\ p.restored => p.changed = {}
  /\ p.pc = "publish" => \A k \in 1 .. p.i : Edited[k] \in p.changed
  /\ p.pc \in {"rollback", "unwrite"} => p.i <= Len(Edited)
  /\ p.pc \in {"rollback", "unwrite"} /\ p.restored
       => \A k \in 1 .. Len(Edited) : k > p.i => Edited[k] \notin p.changed
  /\ p.pc \in {"committed", "restart"} => p.changed = Package

\* An empty store is empty in every respect.
Blank(d) == d.native = "none" /\ ~d.flat => d = Layout("empty")

Converted == [p.before EXCEPT !.cand = "current", !.backup = TRUE]
InPlace == [p.before EXCEPT !.native = "current", !.cand = p.before.native, !.backup = TRUE]
Kept == [p.before EXCEPT !.backup = TRUE]
Created == [p.before EXCEPT !.native = "current", !.backup = TRUE]
Prepared == {"probe", "stage", "exchange"}
Placing == {"verify", "commit", "publish", "undo", "rollback", "committed", "unexchange"}

\* Where the store is on its way from one format to the other.
Conversion ==
  Working /\ Upgrading =>
    /\ Blank(p.before)
    /\ p.held <=> p.before.native # "none"
    /\ p.pc \in {"quiesce", "prepare"} => data = p.before /\ ~p.prepared /\ ~p.called
    /\ p.prepared => /\ p.before.native = "legacy" \/ (p.before.native = "none" /\ p.before.flat)
                     /\ p.before.cand = "none"
    /\ p.pc \in Prepared \cup {"verify", "commit"} => ~p.called
    /\ p.pc \in {"publish", "undo", "rollback"} => p.called
    /\ p.pc \in {"verify", "unexchange"} \/ (p.pc = "discard" /\ ~p.called) => p.prepared
    /\ p.pc \in Prepared /\ p.prepared => data = Converted
    /\ (p.pc \in Placing \/ (p.pc = "discard" /\ p.called)) /\ p.prepared => data = InPlace
    /\ p.pc = "discard" /\ ~p.called => data = Kept
    /\ p.pc \in Prepared \cup Placing \cup {"discard"} /\ ~p.prepared =>
         /\ data = Created /\ p.before.cand = "none" /\ ~p.before.flat
         /\ p.before.native = "current" \/ p.before = Layout("empty")
    /\ p.pc = "restart" => data.native = "current" /\ data.cand = "none" /\ ~data.flat
    /\ p.pc = "resume" /\ p.end = "none" =>
         /\ data.native = p.before.native \/ p.before = Layout("empty")
         /\ data.flat = p.before.flat
    /\ p.pc = "resume" /\ p.may => p.end = "none"

\* The old tables are somewhere, or the new package is in place for good.
OldTables ==
  start \in {"legacy", "flat"} /\ data.native # "legacy" /\ data.cand # "legacy" /\ ~data.flat
    => data.backup /\ Agree(2) /\ p.pc \in {"idle", "restart"}

\* Who runs while the operator works.
Serving ==
  /\ svc.run = 2 => ~Working /\ Agree(2)
  /\ Working /\ p.kind = "upgrade" /\ p.managed /\ p.pc # "quiesce" => svc.run = 0
  /\ Working /\ p.kind = "upgrade" /\ ~p.managed =>
       p.pc \in {"quiesce", "resume"} /\ data = p.before /\ p.end = "none"
  /\ p.pc = "quiesce" => ~p.managed
  /\ Working /\ ~Upgrading /\ p.prev.run = 0 /\ ~p.started => svc.run = 0
  /\ p.pc \in {"unwrite", "cleanup"} /\ p.restored /\ p.prev.run = 0 => svc.run = 0

\* What sessions are pinned to, and that none is pinned to what may be taken back.
Pinned ==
  /\ \A s \in Sessions : pins[s] # 0 => pins[s] \in gens /\ files["registry"].v >= pins[s]
  /\ p.pc \in Unwritten \cup {"publish", "undo", "rollback"} /\ Upgrading
       => \A s \in Sessions : pins[s] <= 1
  /\ files["runtime"].v # 0 => 1 \in gens

InstallInv ==
  /\ WellTyped /\ OwnSteps /\ Edits /\ Found /\ Changes /\ Progress /\ Blank(data) /\ Conversion
  /\ OldTables /\ Serving /\ Pinned
  /\ ServiceAgrees /\ FailureIsClean /\ InstallUndone

-----------------------------------------------------------------------------
(* What a step of the operator leaves alone.                                   *)

SameRun == p'.kind = p.kind /\ p'.orig = p.orig /\ p'.before = p.before /\ p'.prev = p.prev
           /\ p'.held = p.held
SameMarks == p'.managed = p.managed /\ p'.prepared = p.prepared /\ p'.called = p.called
             /\ p'.started = p.started /\ p'.attempted = p.attempted /\ p'.fresh = p.fresh
SameCourse == p'.changed = p.changed /\ p'.i = p.i /\ p'.restored = p.restored
SameHost == files' = files /\ gens' = gens /\ pins' = pins /\ edits' = edits /\ start' = start

\* Continuing with another step changes nothing else of the process (install.rs).
LEMMA Continuing ==
  ASSUME WellTyped, NEW x \in InstallSteps \cup RemovalSteps \cup UpgradeSteps, Continues(x)
  PROVE  p' \in Operator /\ p'.pc = x /\ SameRun /\ SameMarks /\ SameCourse
         /\ p'.may = p.may /\ p'.end = p.end
BY DEF WellTyped, Operator, Continues, SameRun, SameMarks, SameCourse

\* Giving up says whether the service may come back (maintenance.rs).
LEMMA GivingUp ==
  ASSUME WellTyped, NEW x \in BOOLEAN, GivesUp(x)
  PROVE  p' \in Operator /\ p'.pc = "resume" /\ SameRun /\ SameMarks /\ SameCourse
         /\ p'.may = x /\ p'.end = p.end
BY DEF WellTyped, Operator, GivesUp, SameRun, SameMarks, SameCourse, UpgradeSteps

\* An uncertain outcome leaves the service off (maintenance.rs).
LEMMA Doubting ==
  ASSUME WellTyped, Uncertain
  PROVE  p' \in Operator /\ p'.pc = "resume" /\ SameRun /\ SameMarks /\ SameCourse
         /\ p'.may = FALSE /\ p'.end = "uncertain"
BY DEF WellTyped, Operator, Uncertain, SameRun, SameMarks, SameCourse, UpgradeSteps

\* At the end of a run the process says how it went (install.rs).
LEMMA Stopping ==
  ASSUME WellTyped, Stops(p'.end),
         p'.end \in {"done", "failed", "preserved", "retained", "killed"}
  PROVE  p' \in Operator /\ p'.pc = "idle" /\ SameRun /\ SameMarks /\ SameCourse
         /\ p'.may = p.may
BY DEF WellTyped, Operator, Stops, SameRun, SameMarks, SameCourse

\* What a file shall become keeps what the user wrote into it (install.rs).
LEMMA Desired ==
  ASSUME WellTyped, NEW f \in Names
  PROVE  /\ desired(f) \in File /\ desired(f).user = p.orig[f].user
         /\ Upgrading => desired(f).v = 2
         /\ p.kind = "install" => desired(f).v = 1
         /\ desired(f).v \in {0, 1, 2, p.orig[f].v}
         /\ ~Upgrading => desired(f).v \in {0, 1, p.orig[f].v}
<1>1. p.orig[f] \in File BY DEF WellTyped, Operator
<1>2. wanted(f) \in 0 .. 2 BY <1>1 DEF wanted, File
<1>3. desired(f) \in File /\ desired(f).user = p.orig[f].user /\ desired(f).v = wanted(f)
  BY <1>1, <1>2 DEF desired, File
<1> QED BY <1>1, <1>3 DEF wanted, Upgrading, File

\* A run wants the same of a file all along (install.rs).
LEMMA DesiredStays ==
  ASSUME SameRun, NEW f \in Names
  PROVE  desired(f)' = desired(f) /\ (Upgrading' <=> Upgrading)
BY DEF SameRun, desired, wanted, Upgrading

\* The files a run writes, in their order (install.rs).
LEMMA Order ==
  /\ Upgrading => /\ Edited = <<"host", "unit", "launcher", "runtime", "registry">>
                  /\ Len(Edited) = 5
  /\ ~Upgrading => Edited = <<"config", "host", "unit">> /\ Len(Edited) = 3
  /\ \A k \in 1 .. Len(Edited) : Edited[k] \in IF Upgrading THEN Package ELSE Wiring
  /\ \A f \in IF Upgrading THEN Package ELSE Wiring : \E k \in 1 .. Len(Edited) : Edited[k] = f
<1>1. CASE Upgrading
  <2> DEFINE e == <<"host", "unit", "launcher", "runtime", "registry">>
  <2>1. Edited = e BY <1>1 DEF Edited
  <2>2. Len(e) = 5 /\ e[1] = "host" /\ e[2] = "unit" /\ e[3] = "launcher" /\ e[4] = "runtime"
        /\ e[5] = "registry"
    OBVIOUS
  <2> QED BY <1>1, <2>1, <2>2 DEF Package, Names
<1>2. CASE ~Upgrading
  <2> DEFINE e == <<"config", "host", "unit">>
  <2>1. Edited = e BY <1>2 DEF Edited
  <2>2. Len(e) = 3 /\ e[1] = "config" /\ e[2] = "host" /\ e[3] = "unit" OBVIOUS
  <2> QED BY <1>2, <2>1, <2>2 DEF Wiring
<1> QED BY <1>1, <1>2

\* The order does not change during a run (install.rs).
LEMMA OrderStays == ASSUME SameRun PROVE Edited' = Edited
BY DEF SameRun, Edited, Upgrading

\* The store of a host where nothing was captured yet (restore.rs).
LEMMA EmptyStore ==
  Layout("empty") = [native |-> "none", flat |-> FALSE, cand |-> "none", backup |-> FALSE]
BY DEF Layout

-----------------------------------------------------------------------------
(* What holds on when the files stay as they are.                              *)

\* Versions and edits stay what they were while no file is written (install.rs).
LEMMA FilesStay ==
  ASSUME WellTyped, Edits, Working, Found, Changes, SameRun, SameHost, SameCourse,
         p'.fresh = p.fresh
  PROVE  Edits' /\ Found' /\ Changes'
<1>1. Upgrading' <=> Upgrading BY DEF SameRun, Upgrading
<1>2. \A f \in Names : desired(f)' = desired(f) BY DesiredStays
<1>3. Edits' BY DEF Edits, SameHost
<1>4. Found' BY <1>1 DEF Found, SameRun, Working
<1>5. Changes'
  BY <1>1, <1>2 DEF Changes, SameRun, SameHost, SameCourse, Working, WellTyped, Operator
<1> QED BY <1>3, <1>4, <1>5

\* The old tables stay accounted for while the store stays (restore.rs).
LEMMA TablesStay ==
  ASSUME OldTables, p.pc \notin {"idle", "restart"}, data' = data, start' = start
  PROVE  OldTables'
BY DEF OldTables

\* What holds of the end of a run is not asked while it goes on (install.rs).
LEMMA Unfinished ==
  ASSUME p'.pc # "idle"
  PROVE  ServiceAgrees' /\ FailureIsClean' /\ InstallUndone'
BY DEF ServiceAgrees, FailureIsClean, InstallUndone

\* Pins stay resolvable while generations and registry stay (install.rs).
LEMMA PinsStay ==
  ASSUME Pinned, SameHost, SameRun,
         p'.pc \in Unwritten \cup {"publish", "undo", "rollback"} /\ Upgrading =>
           p.pc \in Unwritten \cup {"publish", "undo", "rollback"}
  PROVE  Pinned'
<1>1. Upgrading' <=> Upgrading BY DEF SameRun, Upgrading
<1> QED BY <1>1 DEF Pinned, SameHost

\* A killed operator leaves what it has done (install.rs, maintenance.rs).
LEMMA KilledStep ==
  ASSUME InstallInv, OperatorKilled, UNCHANGED start
  PROVE  InstallInv'
<1> USE DEF InstallInv
<1>1. p.pc # "idle" /\ Stops("killed") /\ SameHost /\ UNCHANGED <<data, svc>>
  BY DEF OperatorKilled, SameHost
<1>2. p'.end = "killed" BY <1>1 DEF Stops, WellTyped, Operator
<1>3. p' \in Operator /\ p'.pc = "idle" /\ SameRun /\ SameMarks /\ SameCourse
  BY <1>1, <1>2, Stopping
<1>4. WellTyped' BY <1>1, <1>3 DEF WellTyped, SameHost
<1>5. OwnSteps' BY <1>2, <1>3 DEF OwnSteps, SameRun, SameMarks, Working
<1>6. Edits' /\ Found' /\ Changes' BY <1>1, <1>3, FilesStay DEF Working, SameMarks
<1>7. Progress' /\ Conversion' BY <1>3 DEF Progress, Conversion, Working, Unwritten
<1>8. Blank(data)' BY <1>1 DEF Blank
<1>9. OldTables' BY <1>1, <1>3 DEF OldTables, SameHost, Agree, Is
<1>10. Serving' BY <1>1, <1>3 DEF Serving, Working
<1>11. Pinned' BY <1>1, <1>3, PinsStay DEF Unwritten
<1>12. ServiceAgrees'
  <2> SUFFICES ASSUME svc.run # 0, p.kind = "upgrade"
               PROVE  Agree(svc.run)' /\ svc.run # 2 /\ data.native = p.before.native
    BY <1>1, <1>3 DEF ServiceAgrees, SameRun, WellTyped, Service
  <2>1. svc.run = 1 BY <1>1 DEF Serving, Working, WellTyped, Service
  <2>2. p.pc \in {"quiesce", "resume"} /\ p.end = "none" /\ data = p.before
    BY <1>1, <2>1 DEF Serving, Working, Conversion, Upgrading, OwnSteps
  <2>3. \A f \in Names : files[f].v = 1
    <3>1. p.changed = {} BY <2>2 DEF Progress, Unwritten
    <3> QED BY <1>1, <3>1 DEF Changes, Found, Working, OwnSteps, Upgrading
  <2> QED BY <1>1, <2>1, <2>2, <2>3 DEF SameHost, Agree, Is, Names
<1>13. FailureIsClean' /\ InstallUndone' BY <1>2 DEF FailureIsClean, InstallUndone
<1> QED BY <1>4, <1>5, <1>6, <1>7, <1>8, <1>9, <1>10, <1>11, <1>12, <1>13

-----------------------------------------------------------------------------
(* The beginning, the host in use, and the beginning of a run.                 *)

\* The invariant holds of every host to start from (install.rs).
LEMMA Initially ==
  ASSUME InstallInit
  PROVE  InstallInv
<1>1. PICK old \in {0, 1} :
        /\ files = [f \in Names |-> [v |-> old, user |-> 0]] /\ gens = {old} \ {0}
        /\ svc = [run |-> old, enabled |-> old = 1]
  BY DEF InstallInit
<1>2. /\ pins = [s \in Sessions |-> 0] /\ start \in Layouts /\ data = Layout(start) /\ p = Idle
      /\ edits = 0
  BY DEF InstallInit
<1>3. data \in Store /\ Blank(data) /\ data.cand = "none" /\ ~data.backup
      /\ (start = "legacy" => data.native = "legacy") /\ (start = "flat" => data.flat)
  BY <1>2, LayoutsAssumption, EmptyStore DEF Layout, Store, Formats, Blank
<1>4. files \in [Names -> File] /\ svc \in Service BY <1>1 DEF File, Service
<1>5. p \in Operator /\ p.pc = "idle" /\ p.kind = "none" /\ p.end = "none" /\ ~p.started /\ ~p.fresh
  BY <1>2, <1>3, <1>4 DEF Idle, Operator
<1>6. WellTyped BY <1>1, <1>2, <1>3, <1>4, <1>5, BoundsAssumption DEF WellTyped
<1>7. OwnSteps /\ Edits BY <1>1, <1>2, <1>5 DEF OwnSteps, Edits, Working, Names
<1>8. Found /\ Changes /\ Progress /\ Conversion
  BY <1>5 DEF Found, Changes, Progress, Conversion, Working, Unwritten
<1>9. OldTables BY <1>3 DEF OldTables
<1>10. Serving BY <1>1, <1>5 DEF Serving, Working
<1>11. Pinned BY <1>1, <1>2, <1>5 DEF Pinned, Names, Unwritten
<1>12. ServiceAgrees /\ FailureIsClean /\ InstallUndone
  BY <1>5 DEF ServiceAgrees, FailureIsClean, InstallUndone
<1> QED BY <1>3, <1>6, <1>7, <1>8, <1>9, <1>10, <1>11, <1>12 DEF InstallInv

\* While an upgrade has written nothing, the package is the installed one (install.rs).
LEMMA StillInstalled ==
  ASSUME WellTyped, OwnSteps, Found, Changes, Progress, Upgrading, p.pc \in Unwritten
  PROVE  \A f \in Names : files[f].v = 1
<1>1. p.changed = {} /\ Working /\ ~p.fresh
  BY DEF Progress, Unwritten, Working, OwnSteps, Upgrading
<1> QED BY <1>1 DEF Changes, Found

\* A session pins the generation that is registered (install.rs).
LEMMA PinStep ==
  ASSUME InstallInv, NEW s \in Sessions, resolve_for_session(s), UNCHANGED start
  PROVE  InstallInv'
<1> USE DEF InstallInv
<1>1. /\ ~Locked /\ files["registry"].v # 0 /\ files["registry"].v \in gens
      /\ pins' = [pins EXCEPT ![s] = files["registry"].v]
      /\ UNCHANGED <<files, gens, data, svc, p, runs, edits, faults, start>>
  BY DEF resolve_for_session
<1>2. files["registry"].v \in 0 .. 2 BY DEF WellTyped, File, Names
<1>3. WellTyped' BY <1>1, <1>2 DEF WellTyped
<1>4. OwnSteps' BY <1>1 DEF OwnSteps, Working
<1>5. Edits' BY <1>1 DEF Edits
<1>6. Found' BY <1>1 DEF Found, Working, Upgrading
<1>7. Changes' BY <1>1 DEF Changes, Working, Upgrading, desired, wanted
<1>8. Progress' BY <1>1 DEF Progress, Edited, Upgrading
<1>9. Blank(data)' BY <1>1 DEF Blank
<1>10. Conversion'
  BY <1>1 DEF Conversion, Working, Upgrading, Blank, Converted, InPlace, Kept, Created
<1>11. OldTables' BY <1>1 DEF OldTables, Agree, Is
<1>12. Serving' BY <1>1 DEF Serving, Working, Upgrading, Agree, Is
<1>13. Pinned'
  <2>1. ASSUME p.pc \in Unwritten \cup {"publish", "undo", "rollback"}, Upgrading
        PROVE  files["registry"].v = 1
    <3>1. p.pc \in Unwritten BY <1>1, <2>1 DEF Locked, OwnSteps, Upgrading, Unwritten, CheckSteps
    <3> QED BY <2>1, <3>1, StillInstalled DEF Names
  <2> QED BY <1>1, <1>2, <2>1 DEF Pinned, Upgrading, WellTyped
<1>14. ServiceAgrees' BY <1>1 DEF ServiceAgrees, Agree, Is
<1>15. FailureIsClean' BY <1>1 DEF FailureIsClean
<1>16. InstallUndone' BY <1>1 DEF InstallUndone, Is
<1> QED BY <1>3, <1>4, <1>5, <1>6, <1>7, <1>8, <1>9, <1>10, <1>11, <1>12, <1>13, <1>14, <1>15, <1>16

\* The user edits the host configuration, whatever the operator does (install.rs).
LEMMA EditStep ==
  ASSUME InstallInv, UserEdits, UNCHANGED start
  PROVE  InstallInv'
<1> USE DEF InstallInv
<1>1. /\ edits < MaxEdits /\ edits' = edits + 1
      /\ files' = [files EXCEPT !["host"].user = @ + 1]
      /\ UNCHANGED <<gens, pins, data, svc, p, runs, faults, start>>
  BY DEF UserEdits
<1>2. files \in [Names -> File] /\ "host" \in Names BY DEF WellTyped, Names
<1>3. files' \in [Names -> File] BY <1>1, <1>2 DEF File
<1>4. \A f \in Names : files'[f].v = files[f].v BY <1>1, <1>2 DEF File
<1>5. WellTyped' BY <1>1, <1>3, BoundsAssumption DEF WellTyped
<1>6. OwnSteps' BY <1>1 DEF OwnSteps, Working
<1>7. Edits' BY <1>1, <1>2 DEF Edits, File
<1>8. Found' BY <1>1 DEF Found, Working, Upgrading
<1>9. Changes'
  <2>1. p.changed \subseteq Names BY DEF WellTyped, Operator
  <2> QED BY <1>1, <1>4, <2>1 DEF Changes, Working, Upgrading, desired, wanted
<1>10. Progress' BY <1>1 DEF Progress, Edited, Upgrading
<1>11. Blank(data)' BY <1>1 DEF Blank
<1>12. Conversion'
  BY <1>1 DEF Conversion, Working, Upgrading, Blank, Converted, InPlace, Kept, Created
<1>13. \A n : Agree(n)' <=> Agree(n) BY <1>4 DEF Agree, Is
<1>14. OldTables' BY <1>1, <1>13 DEF OldTables
<1>15. Serving' BY <1>1, <1>13 DEF Serving, Working, Upgrading
<1>16. Pinned' BY <1>1, <1>4 DEF Pinned, Upgrading, Names
<1>17. ServiceAgrees' BY <1>1, <1>13 DEF ServiceAgrees
<1>18. FailureIsClean' BY <1>1, <1>4 DEF FailureIsClean
<1>19. InstallUndone' BY <1>1, <1>4 DEF InstallUndone, Is, Names
<1> QED BY <1>5, <1>6, <1>7, <1>8, <1>9, <1>10, <1>11, <1>12, <1>14, <1>15, <1>16, <1>17, <1>18, <1>19

\* A run begins with what it finds (install.rs).
LEMMA Begun ==
  ASSUME InstallInv
  PROVE  /\ Idle \in Operator
         /\ Idle.orig = files /\ Idle.changed = {} /\ Idle.prev = svc /\ Idle.before = data
         /\ ~Idle.prepared /\ ~Idle.called /\ ~Idle.started /\ ~Idle.fresh /\ ~Idle.may
         /\ ~Idle.managed /\ ~Idle.held /\ Idle.end = "none" /\ Idle.i = 0
<1>1. files \in [Names -> File] /\ svc \in Service /\ data \in Store
  BY DEF InstallInv, WellTyped
<1>2. Idle \in Operator BY <1>1 DEF Operator, Idle
<1> QED BY <1>2 DEF Idle

\* An installation or a removal begins on files of this package or none (install.rs).
LEMMA BeginInstallStep ==
  ASSUME InstallInv, NEW kind \in Kinds, BeginInstall(kind), UNCHANGED start
  PROVE  InstallInv'
<1> USE DEF InstallInv
<1> DEFINE pc == IF kind = "install" THEN "assets" ELSE "remove"
<1>1. /\ kind \in {"install", "uninstall"} /\ p.pc = "idle"
      /\ \A f \in Wiring : files[f].v \in {0, 1}
      /\ p' = [Idle EXCEPT !.pc = pc, !.kind = kind, !.managed = ~Is("unit", 0)]
      /\ UNCHANGED <<files, gens, pins, data, svc, edits, start>>
  BY DEF BeginInstall, Wiring
<1>2. pc \in InstallSteps \cup RemovalSteps
  BY <1>1 DEF InstallSteps, RemovalSteps
<1>3. p' \in Operator BY <1>1, <1>2, Begun DEF Operator, Is
<1>4. /\ WellTyped' /\ Edits'
      /\ p'.pc = pc /\ p'.kind = kind
      /\ p'.orig = files /\ p'.changed = {} /\ p'.prev = svc /\ p'.before = data
      /\ ~p'.started /\ ~p'.fresh /\ p'.end = "none"
  <2> HIDE DEF pc
  <2>1. WellTyped' /\ Edits' BY <1>1, <1>3 DEF WellTyped, Edits
  <2> QED BY <1>1, <2>1, Begun DEF Operator
<1>5. ~Upgrading' BY <1>1, <1>4 DEF Upgrading
<1>6. OwnSteps' BY <1>1, <1>4 DEF OwnSteps, Working, InstallSteps, RemovalSteps
<1>7. ~Agree(2) BY <1>1 DEF Agree, Is, Wiring, Names
<1>8. Found' BY <1>1, <1>4, <1>5, <1>7 DEF Found, Serving, WellTyped, Service
<1>9. Changes' BY <1>1, <1>4 DEF Changes, Wiring
<1>10. Progress' BY <1>1, <1>4 DEF Progress, Unwritten
<1>11. Blank(data)' BY <1>1 DEF Blank
<1>12. Conversion' BY <1>5 DEF Conversion
<1>13. OldTables' BY <1>1, <1>7 DEF OldTables
<1>14. Serving' BY <1>1, <1>4, <1>5, <1>7 DEF Serving, Upgrading
<1>15. Pinned' BY <1>1, <1>4, <1>5 DEF Pinned
<1>16. ServiceAgrees' /\ FailureIsClean' /\ InstallUndone'
  BY <1>4, Unfinished
<1> QED BY <1>4, <1>6, <1>8, <1>9, <1>10, <1>11, <1>12, <1>13, <1>14, <1>15, <1>16

\* An upgrade or its check begins on the whole installed package (install.rs).
LEMMA BeginUpgradeStep ==
  ASSUME InstallInv, NEW kind \in Kinds, BeginUpgrade(kind), UNCHANGED start
  PROVE  InstallInv'
<1> USE DEF InstallInv
<1> DEFINE pc == IF kind = "upgrade" THEN "quiesce" ELSE "prepare"
<1>1. /\ kind \in {"check", "upgrade"} /\ p.pc = "idle"
      /\ \A f \in Names : files[f].v = 1
      /\ p' = [Idle EXCEPT !.pc = pc, !.kind = kind, !.held = data.native # "none"]
      /\ UNCHANGED <<files, gens, pins, data, svc, edits, start>>
  BY DEF BeginUpgrade, Is
<1>2. pc \in UpgradeSteps BY <1>1 DEF UpgradeSteps, Unwritten
<1>3. p' \in Operator BY <1>1, <1>2, Begun DEF Operator
<1>4. /\ WellTyped' /\ Edits'
      /\ p'.pc = pc /\ p'.kind = kind /\ ~p'.managed /\ p'.held = (data.native # "none")
      /\ p'.orig = files /\ p'.changed = {} /\ p'.prev = svc /\ p'.before = data
      /\ ~p'.prepared /\ ~p'.called /\ ~p'.started /\ ~p'.fresh /\ ~p'.may /\ p'.end = "none"
      /\ p'.i = 0
  <2> HIDE DEF pc
  <2>1. WellTyped' /\ Edits' BY <1>1, <1>3 DEF WellTyped, Edits
  <2> QED BY <1>1, <2>1, Begun DEF Operator
<1>5. Upgrading' BY <1>1, <1>4 DEF Upgrading
<1>6. OwnSteps' BY <1>1, <1>4 DEF OwnSteps, Working, CheckSteps, UpgradeSteps, Unwritten
<1>7. ~Agree(2) BY <1>1 DEF Agree, Is, Names
<1>8. Found' BY <1>1, <1>4, <1>5, <1>7 DEF Found, Serving, WellTyped, Service
<1>9. Changes' BY <1>1, <1>4 DEF Changes
<1>10. Progress' BY <1>1, <1>4 DEF Progress
<1>11. Blank(data)' BY <1>1 DEF Blank
<1>12. Conversion'
  <2>1. p'.pc \in {"quiesce", "prepare"} BY <1>1, <1>4
  <2>2. Blank(p.before)' BY <1>1, <1>4 DEF Blank
  <2>3. p'.held <=> p'.before.native # "none" BY <1>4
  <2> HIDE DEF pc
  <2> QED BY <1>1, <1>4, <2>1, <2>2, <2>3 DEF Conversion, Prepared, Placing
<1>13. OldTables' BY <1>1, <1>7 DEF OldTables
<1>14. Serving' BY <1>1, <1>4, <1>5, <1>7 DEF Serving, Upgrading
<1>15. Pinned' BY <1>1 DEF Pinned, Names
<1>16. ServiceAgrees' /\ FailureIsClean' /\ InstallUndone'
  BY <1>4, Unfinished
<1> QED BY <1>4, <1>6, <1>8, <1>9, <1>10, <1>11, <1>12, <1>13, <1>14, <1>15, <1>16

-----------------------------------------------------------------------------
(* A file is written, or put back.                                             *)

\* The files of a run are those of its package, and no others of the wiring
\* (install.rs).
LEMMA Versions ==
  ASSUME WellTyped, OwnSteps, Found, Changes, Working
  PROVE  /\ Upgrading => \A f \in Names : files[f].v \in {1, 2}
         /\ ~Upgrading => \A f \in Wiring : files[f].v \in {0, 1}
<1>1. \A f \in Names : Upgrading => desired(f).v = 2 BY Desired
<1>2. \A f \in Wiring : ~Upgrading => desired(f).v \in {0, 1, p.orig[f].v}
  BY Desired DEF Wiring, Names
<1>3. p.fresh => ~Upgrading BY DEF OwnSteps, Upgrading
<1>4. Wiring \subseteq Names /\ Wiring \cap Assets = {} BY DEF Wiring, Names, Assets
<1> QED BY <1>1, <1>2, <1>3, <1>4 DEF Changes, Found

\* A file is replaced only while it is what was read, so that no edit is lost; what
\* was written is noted (install.rs).
LEMMA Publishing ==
  ASSUME InstallInv, NEW f \in Names, publish(f), p.pc \in {"write", "publish"},
         f \in IF Upgrading THEN Package ELSE Wiring, p.i \in 0 .. 4
  PROVE  /\ p' \in Operator /\ SameRun /\ SameMarks /\ p'.may = p.may /\ p'.end = p.end
         /\ p'.restored = p.restored
         /\ files' \in [Names -> File]
         /\ \A g \in Names \ {f} : files'[g] = files[g]
         /\ \A g \in Names : files'[g].user = files[g].user
         /\ p.changed \subseteq p'.changed /\ p'.changed \subseteq p.changed \cup {f}
         /\ \A g \in p'.changed : files'[g].v = desired(g).v
         /\ f \notin p'.changed => files'[f].v = p.orig[f].v
         /\ \/ p'.pc = p.pc /\ p'.i = p.i + 1 /\ (p.orig[f] # desired(f) => f \in p'.changed)
            \/ p'.pc = "undo" /\ p'.i = p.i
<1> USE DEF InstallInv
<1>1. /\ p \in Operator /\ files \in [Names -> File] /\ p.orig[f] \in File
      /\ p.changed \subseteq Names
  BY DEF WellTyped, Operator
<1>2. desired(f) \in File /\ desired(f).user = p.orig[f].user BY Desired
<1>3. /\ \A g \in p.changed : files[g].v = desired(g).v
      /\ f \notin p.changed => files[f].v = p.orig[f].v
  BY DEF Changes, Working, Wiring, Assets, OwnSteps, Upgrading
<1>4. CASE /\ files[f] = p.orig[f]
           /\ files' = [files EXCEPT ![f] = desired(f)]
           /\ p' = [p EXCEPT !.changed = IF p.orig[f] = desired(f) THEN @ ELSE @ \union {f},
                             !.i = @ + 1]
  <2>1. p' \in Operator /\ SameRun /\ SameMarks /\ p'.may = p.may /\ p'.end = p.end
        /\ p'.restored = p.restored /\ p'.pc = p.pc /\ p'.i = p.i + 1
    <3>1. p.i + 1 \in 0 .. 5 OBVIOUS
    <3> QED BY <1>1, <1>2, <1>4, <3>1 DEF Operator, SameRun, SameMarks
  <2>2. p'.changed = IF p.orig[f] = desired(f) THEN p.changed ELSE p.changed \cup {f}
    BY <1>1, <1>4 DEF Operator
  <2>3. files' \in [Names -> File] /\ files'[f] = desired(f)
        /\ \A g \in Names \ {f} : files'[g] = files[g]
    BY <1>1, <1>2, <1>4
  <2> QED BY <1>1, <1>2, <1>3, <1>4, <2>1, <2>2, <2>3
<1>5. CASE files' = files /\ p' = [p EXCEPT !.pc = "undo"]
  <2>1. p' \in Operator /\ SameRun /\ SameMarks /\ p'.may = p.may /\ p'.end = p.end
        /\ p'.restored = p.restored /\ p'.pc = "undo" /\ p'.i = p.i /\ p'.changed = p.changed
    BY <1>1, <1>5 DEF Operator, SameRun, SameMarks, InstallSteps
  <2> QED BY <1>1, <1>3, <1>5, <2>1
<1>6. CASE /\ files[f] = p.orig[f]
           /\ files' = [files EXCEPT ![f] = desired(f)]
           /\ p' = [p EXCEPT !.pc = "undo", !.changed = @ \union {f}]
  <2>1. p' \in Operator /\ SameRun /\ SameMarks /\ p'.may = p.may /\ p'.end = p.end
        /\ p'.restored = p.restored /\ p'.pc = "undo" /\ p'.i = p.i
        /\ p'.changed = p.changed \cup {f}
    BY <1>1, <1>6 DEF Operator, SameRun, SameMarks, InstallSteps
  <2>2. files' \in [Names -> File] /\ files'[f] = desired(f)
        /\ \A g \in Names \ {f} : files'[g] = files[g]
    BY <1>1, <1>2, <1>6
  <2> QED BY <1>1, <1>2, <1>3, <1>6, <2>1, <2>2
<1> QED BY <1>4, <1>5, <1>6 DEF publish, revalidate

\* A file is put back only while it is what was written, and what was not put back is
\* remembered (install.rs).
LEMMA RollingBack ==
  ASSUME InstallInv, NEW f \in Names, rollback(f), p.pc \in {"unwrite", "rollback"},
         f \in IF Upgrading THEN Package ELSE Wiring, p.i \in 1 .. 5
  PROVE  /\ p' \in Operator /\ SameRun /\ SameMarks /\ p'.may = p.may /\ p'.end = p.end
         /\ p'.pc = p.pc /\ p'.i = p.i - 1
         /\ files' \in [Names -> File]
         /\ \A g \in Names \ {f} : files'[g] = files[g]
         /\ \A g \in Names : files'[g].user = files[g].user
         /\ p'.changed \subseteq p.changed /\ p.changed \ {f} \subseteq p'.changed
         /\ \A g \in p'.changed : files'[g].v = desired(g).v
         /\ f \notin p'.changed => files'[f].v = p.orig[f].v
         /\ p'.restored => p.restored /\ f \notin p'.changed
<1> USE DEF InstallInv
<1>1. /\ p \in Operator /\ files \in [Names -> File] /\ p.orig[f] \in File
      /\ p.changed \subseteq Names
  BY DEF WellTyped, Operator
<1>2. desired(f) \in File /\ desired(f).user = p.orig[f].user BY Desired
<1>3. /\ \A g \in p.changed : files[g].v = desired(g).v
      /\ f \notin p.changed => files[f].v = p.orig[f].v
  BY DEF Changes, Working, Wiring, Assets, OwnSteps, Upgrading
<1>4. CASE /\ files[f] = LeftIn(f)
           /\ files' = [files EXCEPT ![f] = p.orig[f]]
           /\ p' = [p EXCEPT !.changed = @ \ {f}, !.i = @ - 1]
  <2>1. p' \in Operator /\ SameRun /\ SameMarks /\ p'.may = p.may /\ p'.end = p.end
        /\ p'.restored = p.restored /\ p'.pc = p.pc /\ p'.i = p.i - 1
        /\ p'.changed = p.changed \ {f}
    <3>1. p.i - 1 \in 0 .. 5 OBVIOUS
    <3> QED BY <1>1, <1>4, <3>1 DEF Operator, SameRun, SameMarks
  <2>2. files' \in [Names -> File] /\ files'[f] = p.orig[f]
        /\ \A g \in Names \ {f} : files'[g] = files[g]
    BY <1>1, <1>4
  <2>3. files[f].user = p.orig[f].user BY <1>2, <1>4 DEF LeftIn
  <2> QED BY <1>1, <1>3, <2>1, <2>2, <2>3
<1>5. CASE files' = files /\ p' = [p EXCEPT !.i = @ - 1, !.restored = FALSE]
  <2>1. p' \in Operator /\ SameRun /\ SameMarks /\ p'.may = p.may /\ p'.end = p.end
        /\ p'.restored = FALSE /\ p'.pc = p.pc /\ p'.i = p.i - 1 /\ p'.changed = p.changed
    <3>1. p.i - 1 \in 0 .. 5 OBVIOUS
    <3> QED BY <1>1, <1>5, <3>1 DEF Operator, SameRun, SameMarks
  <2> QED BY <1>1, <1>3, <1>5, <2>1
<1> QED BY <1>4, <1>5 DEF rollback, revalidate

\* Writing or putting back one file preserves everything but the place in the order
\* (install.rs).
LEMMA FileStep ==
  ASSUME InstallInv, NEW f \in Names, p.pc \in {"write", "publish", "unwrite", "rollback"},
         f \in IF Upgrading THEN Package ELSE Wiring,
         p' \in Operator, SameRun, SameMarks, p'.may = p.may, p'.end = p.end,
         p'.restored => p.restored,
         files' \in [Names -> File], \A g \in Names \ {f} : files'[g] = files[g],
         \A g \in Names : files'[g].user = files[g].user,
         p'.changed \subseteq p.changed \cup {f}, p.changed \ {f} \subseteq p'.changed,
         \A g \in p'.changed : files'[g].v = desired(g).v,
         f \notin p'.changed => files'[f].v = p.orig[f].v,
         p'.pc = p.pc \/ (p.pc \in {"write", "publish"} /\ p'.pc = "undo"),
         Progress', UNCHANGED <<gens, pins, data, svc, edits, start>>
  PROVE  InstallInv'
<1> USE DEF InstallInv
<1>1. (Upgrading' <=> Upgrading) /\ \A g \in Names : desired(g)' = desired(g)
  BY DesiredStays DEF SameRun, Upgrading
<1>2. Working /\ Working' BY DEF Working
<1>3. WellTyped' BY DEF WellTyped
<1>4. OwnSteps' BY DEF OwnSteps, Working, SameRun, SameMarks, InstallSteps, RemovalSteps,
                       UpgradeSteps, CheckSteps, Unwritten
<1>5. Edits' BY DEF Edits, Names
<1>6. Found' BY <1>1, <1>2 DEF Found, SameRun, SameMarks
<1>7. Changes'
  <2>1. p.changed \subseteq Names /\ p'.changed \subseteq Names BY DEF WellTyped, Operator
  <2>2. p'.changed \subseteq IF Upgrading THEN Package ELSE Wiring BY <1>2 DEF Changes
  <2>3. \A g \in Names \ p'.changed : (p.fresh /\ g \in Assets) \/ files'[g].v = p.orig[g].v
    BY <1>2 DEF Changes
  <2> QED BY <1>1, <1>2, <2>1, <2>2, <2>3 DEF Changes, SameRun, SameMarks
<1>8. Blank(data)' BY DEF Blank
<1>9. Conversion'
  <2>1. p.pc \in {"publish", "rollback"} => p'.pc \in {"publish", "rollback", "undo"} OBVIOUS
  <2>2. Upgrading => p.pc \in {"publish", "rollback"}
    BY DEF OwnSteps, Upgrading, UpgradeSteps, Unwritten, CheckSteps
  <2> QED BY <1>1, <1>2, <2>1, <2>2
      DEF Conversion, SameRun, SameMarks, Blank, InPlace, Created, Prepared, Placing
<1>10. OldTables' BY TablesStay
<1>11. Serving' BY <1>1, <1>2 DEF Serving, SameRun, SameMarks
<1>12. Pinned'
  <2>1. CASE Upgrading
    <3>1. p.pc \in {"publish", "rollback"}
      BY <2>1 DEF OwnSteps, Upgrading, UpgradeSteps, Unwritten, CheckSteps
    <3>2. \A s \in Sessions : pins[s] \in {0, 1} BY <2>1, <3>1 DEF Pinned, WellTyped
    <3>3. \A g \in Names : files[g].v \in {1, 2} BY <1>2, <2>1, Versions
    <3>4. \A g \in Names : desired(g).v = 2 /\ p.orig[g].v = 1
      BY <1>2, <2>1, Desired DEF Found
    <3>5. ~p.fresh BY <2>1 DEF OwnSteps, Upgrading
    <3>6. \A g \in Names : files'[g].v \in {1, 2}
      BY <3>3, <3>4, <3>5, <1>2 DEF Changes
    <3> QED BY <1>1, <2>1, <3>2, <3>3, <3>6 DEF Pinned, Names
  <2>2. CASE ~Upgrading
    <3>1. files'["registry"] = files["registry"] /\ files'["runtime"] = files["runtime"]
      BY <2>2 DEF Wiring, Names
    <3> QED BY <1>1, <2>2, <3>1 DEF Pinned
  <2> QED BY <2>1, <2>2
<1>13. ServiceAgrees' /\ FailureIsClean' /\ InstallUndone' BY <1>2, Unfinished DEF Working
<1> QED BY <1>3, <1>4, <1>5, <1>6, <1>7, <1>8, <1>9, <1>10, <1>11, <1>12, <1>13

\* A file of the wiring is written (install.rs).
LEMMA WriteFileStep ==
  ASSUME InstallInv, WriteFile, UNCHANGED start
  PROVE  InstallInv'
<1> DEFINE f == Edited[p.i + 1]
<1>1. /\ p.pc = "write" /\ p.i < Len(Edited) /\ publish(f)
      /\ UNCHANGED <<gens, pins, data, svc, runs, edits>>
  BY DEF WriteFile
<1>2. p.i \in 0 .. 4
  <2>1. Len(Edited) \in {3, 5} BY Order
  <2>2. p.i \in 0 .. 5 BY DEF InstallInv, WellTyped, Operator
  <2> QED BY <1>1, <2>1, <2>2
<1>3. f \in IF Upgrading THEN Package ELSE Wiring BY <1>1, <1>2, Order
<1>4. f \in Names BY <1>3 DEF Package, Wiring, Names
<1> HIDE DEF f
<1>5. /\ p' \in Operator /\ SameRun /\ SameMarks /\ p'.may = p.may /\ p'.end = p.end
      /\ p'.restored = p.restored
      /\ files' \in [Names -> File]
      /\ \A g \in Names \ {f} : files'[g] = files[g]
      /\ \A g \in Names : files'[g].user = files[g].user
      /\ p.changed \subseteq p'.changed /\ p'.changed \subseteq p.changed \cup {f}
      /\ \A g \in p'.changed : files'[g].v = desired(g).v
      /\ f \notin p'.changed => files'[f].v = p.orig[f].v
      /\ p'.pc \in {"write", "undo"}
  BY <1>1, <1>2, <1>3, <1>4, Publishing
<1>6. Progress' BY <1>5 DEF Progress, Unwritten
<1> QED BY <1>1, <1>3, <1>4, <1>5, <1>6, FileStep

\* A file of the package is published (install.rs).
LEMMA PublishFileStep ==
  ASSUME InstallInv, PublishFile, UNCHANGED start
  PROVE  InstallInv'
<1> DEFINE f == Edited[p.i + 1]
<1>1. /\ p.pc = "publish" /\ p.i < Len(Edited) /\ publish(f)
      /\ UNCHANGED <<gens, pins, data, svc, runs, edits>>
  BY DEF PublishFile
<1>2. p.i \in 0 .. 4
  <2>1. Len(Edited) \in {3, 5} BY Order
  <2>2. p.i \in 0 .. 5 BY DEF InstallInv, WellTyped, Operator
  <2> QED BY <1>1, <2>1, <2>2
<1>3. f \in IF Upgrading THEN Package ELSE Wiring BY <1>1, <1>2, Order
<1>4. f \in Names BY <1>3 DEF Package, Wiring, Names
<1>5. Upgrading /\ Working
  BY <1>1 DEF InstallInv, WellTyped, Operator, OwnSteps, Upgrading, Working, InstallSteps,
              RemovalSteps
<1>6. p.orig[f] # desired(f)
  <2>1. p.orig[f].v = 1 BY <1>4, <1>5 DEF InstallInv, Found
  <2>2. desired(f).v = 2 BY <1>4, <1>5, Desired DEF InstallInv
  <2> HIDE DEF f
  <2> QED BY <2>1, <2>2
<1>7. \A k \in 1 .. p.i : Edited[k] \in p.changed BY <1>1 DEF InstallInv, Progress
<1>8. /\ p' \in Operator /\ SameRun /\ SameMarks /\ p'.may = p.may /\ p'.end = p.end
      /\ p'.restored = p.restored
      /\ files' \in [Names -> File]
      /\ \A g \in Names \ {f} : files'[g] = files[g]
      /\ \A g \in Names : files'[g].user = files[g].user
      /\ p.changed \subseteq p'.changed /\ p'.changed \subseteq p.changed \cup {f}
      /\ \A g \in p'.changed : files'[g].v = desired(g).v
      /\ f \notin p'.changed => files'[f].v = p.orig[f].v
      /\ \/ p'.pc = "publish" /\ p'.i = p.i + 1 /\ f \in p'.changed
         \/ p'.pc = "undo" /\ p'.i = p.i
  <2> HIDE DEF f
  <2> QED BY <1>1, <1>2, <1>3, <1>4, <1>6, Publishing
<1>9. Edited' = Edited BY <1>8, OrderStays
<1>10. p'.pc = "publish" => \A k \in 1 .. p'.i : Edited[k] \in p'.changed
  <2>1. \A k \in 1 .. p.i + 1 : k \in 1 .. p.i \/ k = p.i + 1 BY <1>2
  <2> QED BY <1>7, <1>8, <2>1
<1> HIDE DEF f
<1>11. Progress' BY <1>8, <1>9, <1>10 DEF Progress, Unwritten
<1> QED BY <1>1, <1>3, <1>4, <1>8, <1>11, FileStep

\* Files are put back, the last one first (install.rs).
LEMMA PutBackStep ==
  ASSUME InstallInv, UnwriteFile \/ RollbackFile, UNCHANGED start
  PROVE  InstallInv'
<1> DEFINE f == Edited[p.i]
<1>1. /\ p.pc \in {"unwrite", "rollback"} /\ p.i > 0 /\ rollback(f)
      /\ UNCHANGED <<gens, pins, data, svc, runs, edits>>
  BY DEF UnwriteFile, RollbackFile
<1>2. p.i \in 1 .. 5 BY <1>1 DEF InstallInv, WellTyped, Operator
<1>3. Len(Edited) \in {3, 5} /\ p.i \in 1 .. Len(Edited)
  BY <1>1, <1>2, Order DEF InstallInv, Progress
<1>4. f \in IF Upgrading THEN Package ELSE Wiring BY <1>3, Order
<1>5. f \in Names BY <1>4 DEF Package, Wiring, Names
<1>6. p.restored => \A k \in 1 .. Len(Edited) : k > p.i => Edited[k] \notin p.changed
  BY <1>1 DEF InstallInv, Progress
<1>7. /\ p' \in Operator /\ SameRun /\ SameMarks /\ p'.may = p.may /\ p'.end = p.end
      /\ p'.pc = p.pc /\ p'.i = p.i - 1
      /\ files' \in [Names -> File]
      /\ \A g \in Names \ {f} : files'[g] = files[g]
      /\ \A g \in Names : files'[g].user = files[g].user
      /\ p'.changed \subseteq p.changed /\ p.changed \ {f} \subseteq p'.changed
      /\ \A g \in p'.changed : files'[g].v = desired(g).v
      /\ f \notin p'.changed => files'[f].v = p.orig[f].v
      /\ p'.restored => p.restored /\ f \notin p'.changed
  <2> HIDE DEF f
  <2> QED BY <1>1, <1>2, <1>4, <1>5, RollingBack
<1>8. Edited' = Edited BY <1>7, OrderStays
<1>9. p'.restored => \A k \in 1 .. Len(Edited) : k > p'.i => Edited[k] \notin p'.changed
  <2>1. \A k \in 1 .. Len(Edited) : k > p.i - 1 => k > p.i \/ k = p.i BY <1>2, <1>3
  <2> QED BY <1>6, <1>7, <2>1
<1>10. p'.i <= Len(Edited) BY <1>2, <1>3, <1>7
<1> HIDE DEF f
<1>11. Progress' BY <1>1, <1>7, <1>8, <1>9, <1>10 DEF Progress, Unwritten
<1> QED BY <1>1, <1>4, <1>5, <1>7, <1>11, FileStep

-----------------------------------------------------------------------------
(* Installation and removal.                                                   *)

\* The first generation is new only where there is none, and what was there is
\* nothing (install.rs).
LEMMA InstallAssetsStep ==
  ASSUME InstallInv, InstallAssets, UNCHANGED start
  PROVE  InstallInv'
<1> USE DEF InstallInv
<1>1. p.pc = "assets" /\ UNCHANGED <<pins, svc, runs, edits, data, start>>
  BY DEF InstallAssets
<1>2. p.kind = "install" /\ ~p.fresh /\ Working /\ ~Upgrading /\ p.end = "none"
  BY <1>1 DEF OwnSteps, WellTyped, Operator, Working, Upgrading, RemovalSteps, CheckSteps,
              UpgradeSteps, Unwritten
<1>3. p \in Operator /\ files \in [Names -> File] BY DEF WellTyped
<1>4. p.changed \subseteq Wiring /\ p.changed \subseteq Names
  BY <1>2, <1>3 DEF Changes, Operator
<1>5. \A f \in Assets : f \in Names /\ f \notin p.changed /\ f \notin Wiring
      /\ files[f].v = p.orig[f].v
  BY <1>2, <1>4 DEF Changes, Assets, Names, Wiring
<1>6. \/ \E pc \in {"write", "undo"} : Continues(pc) /\ UNCHANGED <<files, gens>>
      \/ /\ files["registry"].v = 0 /\ files["launcher"].v = 0 /\ 1 \notin gens
         /\ gens' = gens \union {1}
         /\ \E new \in SUBSET Assets :
              files' = [f \in Names |-> IF f \in new THEN [v |-> 1, user |-> 0] ELSE files[f]]
         /\ \E pc \in {"write", "undo"} : p' = [p EXCEPT !.pc = pc, !.fresh = TRUE]
  BY <1>1 DEF InstallAssets, Is, Assets
<1>7. CASE \E pc \in {"write", "undo"} : Continues(pc) /\ UNCHANGED <<files, gens>>
  <2>1. PICK pc \in {"write", "undo"} : Continues(pc) /\ UNCHANGED <<files, gens>> BY <1>7
  <2>2. p' \in Operator /\ p'.pc = pc /\ SameRun /\ SameMarks /\ SameCourse /\ p'.may = p.may
        /\ p'.end = p.end
    BY <2>1, Continuing DEF InstallSteps
  <2>3. SameHost BY <1>1, <2>1 DEF SameHost
  <2>4. WellTyped' BY <1>1, <2>1, <2>2 DEF WellTyped
  <2>5. OwnSteps' BY <1>2, <2>2 DEF OwnSteps, SameRun, SameMarks, InstallSteps, Working
  <2>6. Edits' /\ Found' /\ Changes' BY <1>2, <2>2, <2>3, FilesStay DEF SameMarks
  <2>7. Progress' BY <2>2 DEF Progress, Unwritten
  <2>8. Blank(data)' /\ Conversion' BY <1>1, <1>2, <2>2 DEF Blank, Conversion, SameRun, Upgrading
  <2>9. OldTables' BY <1>1, TablesStay
  <2>10. Serving'
    BY <1>1, <1>2, <2>2 DEF Serving, SameRun, SameMarks, Working, Upgrading
  <2>11. Pinned' BY <1>2, <2>2, <2>3, PinsStay
  <2>12. ServiceAgrees' /\ FailureIsClean' /\ InstallUndone' BY <2>2, Unfinished
  <2> QED BY <2>4, <2>5, <2>6, <2>7, <2>8, <2>9, <2>10, <2>11, <2>12
<1>8. CASE /\ files["registry"].v = 0 /\ files["launcher"].v = 0 /\ 1 \notin gens
           /\ gens' = gens \union {1}
           /\ \E new \in SUBSET Assets :
                files' = [f \in Names |-> IF f \in new THEN [v |-> 1, user |-> 0] ELSE files[f]]
           /\ \E pc \in {"write", "undo"} : p' = [p EXCEPT !.pc = pc, !.fresh = TRUE]
  <2>1. PICK new \in SUBSET Assets :
          files' = [f \in Names |-> IF f \in new THEN [v |-> 1, user |-> 0] ELSE files[f]]
    BY <1>8
  <2>2. PICK pc \in {"write", "undo"} : p' = [p EXCEPT !.pc = pc, !.fresh = TRUE] BY <1>8
  <2>3. /\ p' \in Operator /\ p'.pc = pc /\ SameRun /\ SameCourse /\ p'.fresh
        /\ p'.managed = p.managed /\ p'.started = p.started /\ p'.end = p.end
    BY <1>3, <2>2 DEF Operator, SameRun, SameCourse, InstallSteps
  <2>4. /\ files' \in [Names -> File]
        /\ \A f \in Names \ Assets : files'[f] = files[f]
        /\ \A f \in Names : files'[f].user \in {0, files[f].user} /\ files'[f].v >= files[f].v
    <3>1. \A f \in Names : files[f].v \in {0, 1} \/ f \notin new
      <4>1. \A f \in new : files[f].v = 0
        BY <1>8 DEF Pinned, Assets, WellTyped, File, Names
      <4> QED BY <4>1
    <3>2. [v |-> 1, user |-> 0] \in File BY DEF File
    <3>3. \A f \in Names : files[f] \in File BY <1>3
    <3> QED BY <2>1, <3>1, <3>2, <3>3 DEF File
  <2>5. WellTyped' BY <1>1, <1>8, <2>3, <2>4 DEF WellTyped
  <2>6. OwnSteps' BY <1>2, <2>3 DEF OwnSteps, SameRun, InstallSteps, Working
  <2>7. Edits' BY <1>1, <2>4 DEF Edits, Assets, Names
  <2>8. Found'
    <3>1. \A f \in Assets : p.orig[f].v = 0
      BY <1>5, <1>8 DEF Pinned, Assets, WellTyped, File, Names
    <3> QED BY <1>2, <2>3, <3>1 DEF Found, SameRun, Upgrading
  <2>9. Changes'
    <3>1. \A f \in Names : desired(f)' = desired(f) BY <2>3, DesiredStays
    <3>2. \A f \in p.changed : files'[f] = files[f] BY <1>4, <2>4 DEF Wiring, Assets
    <3> QED BY <1>2, <1>4, <2>3, <2>4, <3>1, <3>2 DEF Changes, SameRun, SameCourse, Upgrading
  <2>10. Progress' BY <2>3 DEF Progress, Unwritten
  <2>11. Blank(data)' /\ Conversion' BY <1>1, <1>2, <2>3 DEF Blank, Conversion, SameRun, Upgrading
  <2>12. OldTables' BY <1>1, TablesStay
  <2>13. Serving' BY <1>1, <1>2, <2>3 DEF Serving, SameRun, Working, Upgrading
  <2>14. Pinned'
    <3>1. files["registry"].v \in 0 .. 2 /\ files'["registry"].v \in 0 .. 2
          /\ files'["registry"].v >= files["registry"].v
      BY <1>3, <2>4 DEF Names, File
    <3> QED BY <1>1, <1>2, <1>8, <2>3, <3>1 DEF Pinned, SameRun, Upgrading, WellTyped
  <2>15. ServiceAgrees' /\ FailureIsClean' /\ InstallUndone' BY <2>3, Unfinished
  <2> QED BY <2>5, <2>6, <2>7, <2>8, <2>9, <2>10, <2>11, <2>12, <2>13, <2>14, <2>15
<1> QED BY <1>6, <1>7, <1>8

\* A step of an installation or a removal that leaves files, generations and store alone
\* (install.rs).
LEMMA WiringStep ==
  ASSUME InstallInv, Working, ~Upgrading, p.end = "none", p' \in Operator, SameRun, p'.fresh = p.fresh,
         p'.started => p.kind = "install", p'.changed = p.changed,
         p'.pc \in {"write", "undo", "unwrite", "cleanup"}, p'.end = "none",
         p'.pc = "cleanup" => p.kind = "install" /\ p.fresh,
         svc' \in Service, svc'.run # 2,
         p.prev.run = 0 /\ ~p'.started => svc'.run = 0,
         Progress',
         p'.pc \in {"unwrite", "cleanup"} /\ p'.restored /\ p.prev.run = 0 => svc'.run = 0,
         UNCHANGED <<files, gens, pins, data, edits, start>>
  PROVE  InstallInv'
<1> USE DEF InstallInv
<1>1. (Upgrading' <=> Upgrading) /\ \A g \in Names : desired(g)' = desired(g)
  BY DesiredStays DEF SameRun, Upgrading
<1>2. p.kind \in {"install", "uninstall"} /\ p.pc \notin {"idle", "restart"}
  BY DEF WellTyped, Operator, Upgrading, Working, OwnSteps, InstallSteps, RemovalSteps
<1>3. WellTyped' BY DEF WellTyped
<1>4. OwnSteps' BY <1>2 DEF OwnSteps, SameRun, InstallSteps, RemovalSteps, Working
<1>5. Edits' BY DEF Edits
<1>6. Found' BY <1>1 DEF Found, SameRun, Working
<1>7. Changes'
  <2>1. p.changed \subseteq Names BY DEF WellTyped, Operator
  <2> QED BY <1>1, <2>1 DEF Changes, SameRun, Working
<1>8. Blank(data)' BY DEF Blank
<1>9. Conversion' BY <1>1 DEF Conversion
<1>10. OldTables' BY <1>2, TablesStay
<1>11. Serving' BY <1>1, <1>2 DEF Serving, SameRun, Working
<1>12. Pinned' BY <1>1 DEF Pinned
<1>13. ServiceAgrees' /\ FailureIsClean' /\ InstallUndone' BY Unfinished
<1> QED BY <1>3, <1>4, <1>5, <1>6, <1>7, <1>8, <1>9, <1>10, <1>11, <1>12, <1>13

\* The end of a run that is not an upgrade (install.rs).
LEMMA WiringEnd ==
  ASSUME InstallInv, Working, ~Upgrading, p' \in Operator, SameRun, SameMarks, p'.pc = "idle",
         p'.changed = p.changed, files' \in [Names -> File],
         Edits', Pinned', Blank(data)', OldTables', InstallUndone',
         gens' \subseteq {1, 2},
         svc' \in Service, svc'.run # 2, UNCHANGED <<pins, data, edits, start>>
  PROVE  InstallInv'
<1> USE DEF InstallInv
<1>1. p.kind \in {"install", "uninstall"}
  BY DEF WellTyped, Operator, Upgrading, Working, OwnSteps
<1>2. WellTyped' BY DEF WellTyped
<1>3. OwnSteps' BY <1>1 DEF OwnSteps, SameRun, SameMarks, Working
<1>4. Found' /\ Changes' /\ Conversion' BY DEF Found, Changes, Conversion, Working
<1>5. Progress' BY DEF Progress, Unwritten
<1>6. Serving' BY DEF Serving, Working
<1>7. ServiceAgrees' /\ FailureIsClean' BY <1>1 DEF ServiceAgrees, FailureIsClean, SameRun
<1> QED BY <1>2, <1>3, <1>4, <1>5, <1>6, <1>7

\* While the operator works no service of a later package runs (install.rs).
LEMMA OldService ==
  ASSUME InstallInv, Working
  PROVE  svc \in Service /\ svc.run # 2
BY DEF InstallInv, WellTyped, Serving

\* The service is stopped before its unit is removed (install.rs).
LEMMA RemoveServiceStep ==
  ASSUME InstallInv, RemoveService, UNCHANGED start
  PROVE  InstallInv'
<1>1. p.pc = "remove" /\ UNCHANGED <<files, gens, pins, data, runs, edits>> BY DEF RemoveService
<1>2. p \in Operator /\ p.kind = "uninstall" /\ Working /\ ~Upgrading /\ p.end = "none"
  BY <1>1 DEF InstallInv, OwnSteps, WellTyped, Operator, Working, Upgrading, InstallSteps,
              CheckSteps, UpgradeSteps, Unwritten
<1>3. /\ svc' = [run |-> 0, enabled |-> FALSE] \/ svc' = svc
      /\ \E pc \in {"write", "undo"} :
            p' = [p EXCEPT !.pc = pc] \/ p' = [p EXCEPT !.pc = pc, !.attempted = TRUE]
  BY <1>1 DEF RemoveService, Continues
<1>4. svc' \in Service /\ svc'.run # 2 /\ (svc.run = 0 => svc'.run = 0)
  <2>1. CASE svc' = svc BY <1>2, <2>1, OldService
  <2>2. CASE svc' = [run |-> 0, enabled |-> FALSE] BY <2>2 DEF Service
  <2> QED BY <1>3, <2>1, <2>2
<1>5. /\ p' \in Operator /\ SameRun /\ SameCourse /\ p'.fresh = p.fresh /\ p'.started = p.started
      /\ p'.pc \in {"write", "undo"} /\ p'.end = "none"
  BY <1>2, <1>3 DEF Operator, SameRun, SameCourse, InstallSteps
<1>6. Progress' BY <1>5 DEF Progress, Unwritten
<1>7. p'.started => p.kind = "install" BY <1>5 DEF InstallInv, OwnSteps
<1>8. p.prev.run = 0 /\ ~p'.started => svc'.run = 0
  BY <1>2, <1>4, <1>5 DEF InstallInv, Serving
<1> QED BY <1>1, <1>2, <1>4, <1>5, <1>6, <1>7, <1>8, WiringStep DEF SameCourse

\* The service is started only with the unit of this package (install.rs).
LEMMA InstallServiceStep ==
  ASSUME InstallInv, InstallService, UNCHANGED start
  PROVE  InstallInv'
<1>1. p.pc = "write" /\ UNCHANGED <<files, gens, pins, data, runs, edits>> BY DEF InstallService
<1>2. /\ p \in Operator /\ files \in [Names -> File] /\ p.kind \in {"install", "uninstall"}
      /\ Working /\ ~Upgrading /\ p.end = "none"
  BY <1>1 DEF InstallInv, OwnSteps, WellTyped, Operator, Working, Upgrading, CheckSteps,
              UpgradeSteps, Unwritten
<1>3. files["unit"].v \in {0, 1} BY <1>2, Versions DEF InstallInv, Wiring
<1>4. /\ svc' = svc \/ (p.kind = "install" /\ svc' = [run |-> files["unit"].v, enabled |-> TRUE])
      /\ \/ Stops("done")
         \/ Continues("undo") /\ svc' = svc
         \/ p' = [p EXCEPT !.pc = "undo", !.attempted = TRUE, !.started = (p.kind = "install")]
  BY <1>1 DEF InstallService
<1>5. svc' \in Service /\ svc'.run # 2
  <2>1. CASE svc' = svc BY <1>2, <2>1, OldService
  <2>2. CASE svc' = [run |-> files["unit"].v, enabled |-> TRUE] BY <1>3, <2>2 DEF Service
  <2> QED BY <1>4, <2>1, <2>2
<1>6. CASE Stops("done")
  <2>1. p'.end = "done" BY <1>2, <1>6 DEF Stops, Operator
  <2>2. p' \in Operator /\ SameRun /\ SameMarks /\ SameCourse /\ p'.pc = "idle"
    BY <1>6, <2>1, Stopping DEF InstallInv
  <2>3. Edits' /\ Blank(data)' BY <1>1 DEF InstallInv, Edits, Blank
  <2>4. OldTables' BY <1>1, TablesStay DEF InstallInv
  <2>5. Pinned' BY <1>1, <2>2 DEF InstallInv, Pinned, Unwritten
  <2>6. InstallUndone' BY <2>1 DEF InstallUndone
  <2> QED BY <1>1, <1>2, <1>5, <2>2, <2>3, <2>4, <2>5, <2>6, WiringEnd
      DEF InstallInv, WellTyped, SameCourse
<1>7. CASE Continues("undo") /\ svc' = svc
  <2>1. p' \in Operator /\ SameRun /\ SameMarks /\ SameCourse /\ p'.pc = "undo" /\ p'.end = "none"
    BY <1>2, <1>7, Continuing DEF InstallInv, InstallSteps
  <2>2. Progress' BY <2>1 DEF Progress, Unwritten
  <2>3. p'.started => p.kind = "install" BY <2>1 DEF InstallInv, OwnSteps, SameMarks
  <2>4. p.prev.run = 0 /\ ~p'.started => svc'.run = 0
    BY <1>2, <1>7, <2>1 DEF InstallInv, Serving, SameMarks
  <2> QED BY <1>1, <1>2, <1>5, <2>1, <2>2, <2>3, <2>4, WiringStep DEF SameCourse, SameMarks
<1>8. CASE p' = [p EXCEPT !.pc = "undo", !.attempted = TRUE, !.started = (p.kind = "install")]
  <2>1. /\ p' \in Operator /\ SameRun /\ SameCourse /\ p'.fresh = p.fresh
        /\ p'.started = (p.kind = "install") /\ p'.pc = "undo" /\ p'.end = "none"
    BY <1>2, <1>8 DEF Operator, SameRun, SameCourse, InstallSteps
  <2>2. Progress' BY <2>1 DEF Progress, Unwritten
  <2>3. p.prev.run = 0 /\ ~p'.started => svc'.run = 0
    BY <1>2, <1>4, <2>1 DEF InstallInv, Serving, OwnSteps
  <2> QED BY <1>1, <1>2, <1>5, <2>1, <2>2, <2>3, WiringStep DEF SameCourse
<1> QED BY <1>4, <1>6, <1>7, <1>8

\* Undoing an installation begins with the service it has started (install.rs).
LEMMA UndoInstallStep ==
  ASSUME InstallInv, UndoInstall, UNCHANGED start
  PROVE  InstallInv'
<1>1. p.pc = "undo" /\ ~Upgrading /\ UNCHANGED <<files, gens, pins, data, runs, edits>>
  BY DEF UndoInstall
<1>2. /\ p \in Operator /\ p.kind \in {"install", "uninstall"} /\ Working /\ p.end = "none"
  BY <1>1 DEF InstallInv, OwnSteps, WellTyped, Operator, Working, Upgrading
<1>3. \/ ~p.started /\ svc' = svc /\ p' = [p EXCEPT !.pc = "unwrite", !.i = Len(Edited)]
      \/ /\ p.started /\ svc' = [run |-> 0, enabled |-> FALSE]
         /\ p' = [p EXCEPT !.pc = "unwrite", !.i = Len(Edited)]
      \/ /\ p.started /\ svc' = svc
         /\ p' = [p EXCEPT !.pc = "unwrite", !.i = Len(Edited), !.restored = FALSE]
  BY <1>1 DEF UndoInstall
<1>4. Len(Edited) \in 0 .. 5 BY Order
<1>5. svc' \in Service /\ svc'.run # 2
  <2>1. CASE svc' = svc BY <1>2, <2>1, OldService
  <2>2. CASE svc' = [run |-> 0, enabled |-> FALSE] BY <2>2 DEF Service
  <2> QED BY <1>3, <2>1, <2>2
<1>6. /\ p' \in Operator /\ SameRun /\ SameMarks /\ p'.changed = p.changed
      /\ p'.pc = "unwrite" /\ p'.end = "none" /\ p'.i = Len(Edited)
      /\ p'.restored = FALSE \/ ~p.started \/ svc'.run = 0
  <2> DEFINE n == Len(Edited)
  <2>1. n \in 0 .. 5 BY <1>4
  <2> HIDE DEF n
  <2>2. CASE p' = [p EXCEPT !.pc = "unwrite", !.i = n] /\ (~p.started \/ svc'.run = 0)
    BY <1>2, <2>1, <2>2 DEF Operator, SameRun, SameMarks, InstallSteps, n
  <2>3. CASE p' = [p EXCEPT !.pc = "unwrite", !.i = n, !.restored = FALSE]
    <3>1. p' \in Operator BY <1>2, <2>1, <2>3 DEF Operator, InstallSteps
    <3>2. SameRun /\ SameMarks /\ p'.changed = p.changed /\ p'.pc = "unwrite" /\ p'.end = "none"
      BY <1>2, <2>3 DEF Operator, SameRun, SameMarks
    <3>3. p'.i = n /\ p'.restored = FALSE BY <1>2, <2>3 DEF Operator
    <3> QED BY <3>1, <3>2, <3>3 DEF n
  <2>4. svc' = [run |-> 0, enabled |-> FALSE] => svc'.run = 0 OBVIOUS
  <2>5. \/ p' = [p EXCEPT !.pc = "unwrite", !.i = n] /\ (~p.started \/ svc'.run = 0)
        \/ p' = [p EXCEPT !.pc = "unwrite", !.i = n, !.restored = FALSE]
    BY <1>3, <2>4, Zenon DEF n
  <2> QED BY <2>2, <2>3, <2>5
<1>7. Edited' = Edited BY <1>6, OrderStays
<1>8. Progress' BY <1>4, <1>6, <1>7 DEF Progress, Unwritten
<1>9. p.prev.run = 0 /\ ~p.started => svc'.run = 0
  BY <1>1, <1>2, <1>3 DEF InstallInv, Serving
<1>10. p'.started => p.kind = "install" BY <1>6 DEF InstallInv, OwnSteps, SameMarks
<1> QED BY <1>1, <1>2, <1>5, <1>6, <1>8, <1>9, <1>10, WiringStep DEF SameMarks

\* The former service comes back with the files it ran on (install.rs).
LEMMA RestoreServiceStep ==
  ASSUME InstallInv, RestoreService, UNCHANGED start
  PROVE  InstallInv'
<1>1. p.pc = "unwrite" /\ p.i = 0 /\ UNCHANGED <<files, gens, pins, data, runs, edits>>
  BY DEF RestoreService
<1>2. /\ p \in Operator /\ files \in [Names -> File] /\ p.kind \in {"install", "uninstall"}
      /\ Working /\ ~Upgrading /\ p.end = "none"
  BY <1>1 DEF InstallInv, OwnSteps, WellTyped, Operator, Working, Upgrading, CheckSteps,
              UpgradeSteps, Unwritten
<1>3. files["unit"].v \in {0, 1} BY <1>2, Versions DEF InstallInv, Wiring
<1>4. svc' = svc \/ (p.restored /\ svc' = [p.prev EXCEPT !.run = IF @ = 0 THEN 0 ELSE files["unit"].v])
  BY <1>1 DEF RestoreService
<1>5. svc' \in Service /\ svc'.run # 2 /\ (p.restored /\ p.prev.run = 0 => svc'.run = 0)
      /\ (svc.run = 0 /\ p.prev.run = 0 => svc'.run = 0)
  <2>1. CASE svc' = svc BY <1>1, <1>2, <2>1, OldService DEF InstallInv, Serving
  <2>2. CASE svc' = [p.prev EXCEPT !.run = IF @ = 0 THEN 0 ELSE files["unit"].v]
    <3>1. p.prev \in Service BY <1>2 DEF Operator
    <3> QED BY <1>3, <2>2, <3>1 DEF Service
  <2> QED BY <1>4, <2>1, <2>2
<1>6. p.restored => p.changed = {}
  <2>1. p.restored => \A k \in 1 .. Len(Edited) : Edited[k] \notin p.changed
    BY <1>1, Order DEF InstallInv, Progress
  <2> QED BY <1>2, <2>1, Order DEF InstallInv, Changes
<1>7. CASE p.fresh
  <2>1. Continues("cleanup") BY <1>1, <1>7 DEF RestoreService
  <2>2. /\ p' \in Operator /\ SameRun /\ SameMarks /\ SameCourse /\ p'.pc = "cleanup"
        /\ p'.end = "none"
    BY <1>2, <2>1, Continuing DEF InstallInv, InstallSteps
  <2>3. Progress' BY <1>6, <2>2 DEF Progress, SameCourse, Unwritten
  <2>4. (p'.started => p.kind = "install") /\ p.kind = "install"
    BY <1>7, <2>2 DEF InstallInv, OwnSteps, SameMarks
  <2>5. p.prev.run = 0 /\ ~p'.started => svc'.run = 0
    BY <1>2, <1>5, <2>2 DEF InstallInv, Serving, SameMarks
  <2>6. p'.restored /\ p.prev.run = 0 => svc'.run = 0 BY <1>5, <2>2 DEF SameCourse
  <2> QED BY <1>1, <1>2, <1>5, <1>7, <2>2, <2>3, <2>4, <2>5, <2>6, WiringStep
      DEF SameMarks, SameCourse
<1>8. CASE ~p.fresh
  <2>1. Stops(IF p.restored THEN "failed" ELSE "preserved") BY <1>1, <1>8 DEF RestoreService
  <2>2. p'.end = IF p.restored THEN "failed" ELSE "preserved" BY <1>2, <2>1 DEF Stops, Operator
  <2>3. p' \in Operator /\ SameRun /\ SameMarks /\ SameCourse /\ p'.pc = "idle"
    BY <2>1, <2>2, Stopping DEF InstallInv
  <2>4. Edits' /\ Blank(data)' BY <1>1 DEF InstallInv, Edits, Blank
  <2>5. OldTables' BY <1>1, TablesStay DEF InstallInv
  <2>6. Pinned' BY <1>1, <2>3 DEF InstallInv, Pinned, Unwritten
  <2>7. InstallUndone'
    <3>1. p.restored => \A f \in Names : files[f].v = p.orig[f].v
      BY <1>2, <1>6, <1>8 DEF InstallInv, Changes
    <3> QED BY <1>1, <1>5, <2>2, <2>3, <3>1 DEF InstallUndone, SameRun
  <2> QED BY <1>1, <1>2, <1>5, <2>3, <2>4, <2>5, <2>6, <2>7, WiringEnd
      DEF InstallInv, WellTyped, SameCourse
<1> QED BY <1>7, <1>8

\* New assets go only when no session is pinned to them (install.rs).
LEMMA RemoveAssetsStep ==
  ASSUME InstallInv, RemoveAssets, UNCHANGED start
  PROVE  InstallInv'
<1>1. p.pc = "cleanup" /\ UNCHANGED <<pins, data, svc, runs, edits, faults>> BY DEF RemoveAssets
<1>2. /\ p \in Operator /\ files \in [Names -> File] /\ p.kind = "install" /\ p.fresh
      /\ Working /\ ~Upgrading /\ p.end = "none"
  BY <1>1 DEF InstallInv, OwnSteps, WellTyped, Operator, Working, Upgrading, CheckSteps,
              UpgradeSteps, RemovalSteps, Unwritten
<1>3. svc \in Service /\ svc.run # 2 BY <1>2, OldService
<1>4. p.restored => p.changed = {} /\ (p.prev.run = 0 => svc.run = 0)
  BY <1>1 DEF InstallInv, Progress, Serving
<1>5. CASE /\ p.restored /\ \A s \in Sessions : pins[s] = 0
           /\ gens' = gens \ {1}
           /\ files' = [f \in Names |-> IF f \in Assets THEN Absent ELSE files[f]]
           /\ Stops("failed")
  <2>1. p'.end = "failed" BY <1>2, <1>5 DEF Stops, Operator
  <2>2. p' \in Operator /\ SameRun /\ SameMarks /\ SameCourse /\ p'.pc = "idle"
    BY <1>5, <2>1, Stopping DEF InstallInv
  <2>3. files' \in [Names -> File] BY <1>2, <1>5 DEF Absent, File
  <2>4. \A f \in Names : files'[f].v = p.orig[f].v
    <3>1. \A f \in Assets : p.orig[f].v = 0 BY <1>2 DEF InstallInv, Found
    <3>2. \A f \in Names \ Assets : files[f].v = p.orig[f].v
      BY <1>2, <1>4, <1>5 DEF InstallInv, Changes
    <3> QED BY <1>5, <3>1, <3>2 DEF Absent
  <2>5. Edits' BY <1>1, <1>5 DEF InstallInv, Edits, Assets, Names, Absent
  <2>6. Blank(data)' BY <1>1 DEF InstallInv, Blank
  <2>7. OldTables' BY <1>1, TablesStay DEF InstallInv
  <2>8. Pinned' BY <1>1, <1>5, <2>2 DEF InstallInv, Pinned, Unwritten, Assets, Names, Absent
  <2>9. InstallUndone' BY <1>1, <1>4, <1>5, <2>2, <2>4 DEF InstallUndone, SameRun
  <2>10. gens' \subseteq {1, 2} BY <1>5 DEF InstallInv, WellTyped
  <2> QED BY <1>1, <1>2, <1>3, <2>2, <2>3, <2>5, <2>6, <2>7, <2>8, <2>9, <2>10, WiringEnd
      DEF SameCourse
<1>6. CASE Stops("preserved") /\ UNCHANGED <<gens, files>>
  <2>1. p'.end = "preserved" BY <1>2, <1>6 DEF Stops, Operator
  <2>2. p' \in Operator /\ SameRun /\ SameMarks /\ SameCourse /\ p'.pc = "idle"
    BY <1>6, <2>1, Stopping DEF InstallInv
  <2>3. Edits' /\ Blank(data)' BY <1>1, <1>6 DEF InstallInv, Edits, Blank
  <2>4. OldTables' BY <1>1, TablesStay DEF InstallInv
  <2>5. Pinned' BY <1>1, <1>6, <2>2 DEF InstallInv, Pinned, Unwritten
  <2>6. InstallUndone' BY <2>1 DEF InstallUndone
  <2> QED BY <1>1, <1>2, <1>3, <1>6, <2>2, <2>3, <2>4, <2>5, <2>6, WiringEnd
      DEF InstallInv, WellTyped, SameCourse
<1> QED BY <1>5, <1>6 DEF RemoveAssets, Assets

-----------------------------------------------------------------------------
(* Upgrades and their checks.                                                  *)

\* A step of an upgrade that writes no file (maintenance.rs).
LEMMA UpgradeStep ==
  ASSUME InstallInv, Working, Upgrading, p' \in Operator, SameRun, p'.changed = p.changed,
         p'.fresh = p.fresh, p'.started = p.started,
         p'.pc \in UpgradeSteps, p.kind = "check" => p'.pc \in CheckSteps,
         p'.end = "none" \/ (p'.pc = "resume" /\ p'.end = "uncertain"),
         p'.pc \in Unwritten \cup {"publish", "undo", "rollback"}
           => p.pc \in Unwritten \cup {"publish", "undo", "rollback"},
         data' \in Store, svc' \in Service, gens' \subseteq {1, 2}, 1 \in gens => 1 \in gens',
         \A s \in Sessions : pins[s] # 0 => pins[s] \in gens',
         Progress', Blank(data)', Conversion', OldTables', Serving',
         UNCHANGED <<files, pins, edits, start>>
  PROVE  InstallInv'
<1> USE DEF InstallInv
<1>1. (Upgrading' <=> Upgrading) /\ \A g \in Names : desired(g)' = desired(g)
  BY DesiredStays DEF SameRun, Upgrading
<1>2. p.kind \in {"check", "upgrade"} /\ ~p.started /\ ~p.fresh BY DEF Upgrading, OwnSteps
<1>3. p'.pc # "idle" BY DEF UpgradeSteps, Unwritten
<1>4. WellTyped' BY DEF WellTyped
<1>5. OwnSteps'
  BY <1>2, <1>3 DEF OwnSteps, SameRun, UpgradeSteps, Unwritten, CheckSteps, Working
<1>6. Edits' BY DEF Edits
<1>7. Found' BY <1>1, <1>3 DEF Found, SameRun, Working
<1>8. Changes'
  <2>1. p.changed \subseteq Names BY DEF WellTyped, Operator
  <2> QED BY <1>1, <1>3, <2>1 DEF Changes, SameRun, Working
<1>9. Pinned' BY <1>1 DEF Pinned
<1>10. ServiceAgrees' /\ FailureIsClean' /\ InstallUndone' BY <1>3, Unfinished
<1> QED BY <1>4, <1>5, <1>6, <1>7, <1>8, <1>9, <1>10

\* The service stays off from the quiescence to the end (install.rs).
LEMMA StaysOff ==
  ASSUME InstallInv, Working, Upgrading, SameRun, p'.managed = p.managed,
         p.pc \notin {"quiesce", "resume"}, p'.pc \in UpgradeSteps \ {"quiesce"}, svc' = svc
  PROVE  Serving'
<1>1. (Upgrading' <=> Upgrading) /\ p'.pc # "idle" /\ p'.pc \notin {"unwrite", "cleanup"}
  BY DEF SameRun, Upgrading, UpgradeSteps, Unwritten
<1>2. p.kind = "upgrade" => p.managed BY DEF InstallInv, Serving
<1> QED BY <1>1, <1>2 DEF InstallInv, Serving, SameRun, Working

\* A step that moves neither store nor generations (maintenance.rs).
LEMMA QuietStep ==
  ASSUME InstallInv, Working, Upgrading, p' \in Operator, SameRun, SameMarks, p'.changed = p.changed,
         p.pc \notin {"quiesce", "resume", "restart"},
         p'.pc \in UpgradeSteps \ {"quiesce"}, p.kind = "check" => p'.pc \in CheckSteps,
         p'.end = "none" \/ (p'.pc = "resume" /\ p'.end = "uncertain"),
         p'.pc \in Unwritten \cup {"publish", "undo", "rollback"}
           => p.pc \in Unwritten \cup {"publish", "undo", "rollback"},
         Progress', Conversion',
         UNCHANGED <<files, gens, pins, data, svc, edits, start>>
  PROVE  InstallInv'
<1>1. Serving' BY StaysOff DEF SameMarks
<1>2. OldTables' BY TablesStay DEF InstallInv, Working
<1>3. Blank(data)' BY DEF InstallInv, Blank
<1>4. \A s \in Sessions : pins[s] # 0 => pins[s] \in gens' BY DEF InstallInv, Pinned
<1> QED BY <1>1, <1>2, <1>3, <1>4, UpgradeStep DEF InstallInv, WellTyped, SameMarks

\* The end of an upgrade or a check (maintenance.rs).
LEMMA UpgradeEnd ==
  ASSUME InstallInv, Working, Upgrading, p' \in Operator, SameRun, SameMarks, p'.pc = "idle",
         p'.changed = p.changed, svc' \in Service, svc'.run = 2 => Agree(2),
         ServiceAgrees', FailureIsClean', UNCHANGED <<files, gens, pins, data, edits, start>>
  PROVE  InstallInv'
<1> USE DEF InstallInv
<1>1. p.kind \in {"check", "upgrade"} /\ ~p.started /\ ~p.fresh BY DEF Upgrading, OwnSteps
<1>2. WellTyped' BY DEF WellTyped
<1>3. OwnSteps' BY <1>1 DEF OwnSteps, SameRun, SameMarks, Working
<1>4. Edits' /\ Blank(data)' BY DEF Edits, Blank
<1>5. Found' /\ Changes' /\ Conversion' BY DEF Found, Changes, Conversion, Working
<1>6. Progress' BY DEF Progress, Unwritten
<1>7. OldTables' BY DEF OldTables, Agree, Is
<1>8. Serving' BY DEF Serving, Working, Agree, Is
<1>9. Pinned' BY DEF Pinned, Unwritten
<1>10. InstallUndone' BY <1>1 DEF InstallUndone, SameRun
<1> QED BY <1>2, <1>3, <1>4, <1>5, <1>6, <1>7, <1>8, <1>9, <1>10

\* The service is stopped, or the upgrade gives up with everything as it was (install.rs).
LEMMA QuiesceStep ==
  ASSUME InstallInv, quiesce, UNCHANGED start
  PROVE  InstallInv'
<1>1. p.pc = "quiesce" /\ UNCHANGED <<files, gens, pins, data, runs, edits>> BY DEF quiesce
<1>2. p \in Operator /\ p.kind = "upgrade" /\ Working /\ Upgrading /\ p.end = "none"
  BY <1>1 DEF InstallInv, OwnSteps, WellTyped, Operator, Working, Upgrading, InstallSteps,
              RemovalSteps, CheckSteps
<1>3. data = p.before /\ p.changed = {} /\ p.i = 0 /\ Blank(p.before) /\ ~p.managed
      /\ (p.held <=> p.before.native # "none")
      /\ ~p.prepared /\ ~p.called
  <2>1. data = p.before /\ Blank(p.before) /\ (p.held <=> p.before.native # "none") /\ ~p.prepared
        /\ ~p.called
    BY <1>1, <1>2 DEF InstallInv, Conversion
  <2>2. p.changed = {} /\ p.i = 0 BY <1>1 DEF InstallInv, Progress, Unwritten
  <2>3. ~p.managed BY <1>1 DEF InstallInv, Serving
  <2> QED BY <2>1, <2>2, <2>3
<1>4. \/ GivesUp(FALSE) /\ svc' = svc
      \/ /\ svc' = [run |-> 0, enabled |-> FALSE]
         /\ \/ p' = [p EXCEPT !.pc = "prepare", !.managed = TRUE]
            \/ p' = [p EXCEPT !.pc = "resume", !.managed = TRUE, !.may = TRUE]
  BY <1>1 DEF quiesce
<1>5. svc' \in Service /\ svc'.run # 2
  <2>1. CASE svc' = svc BY <1>2, <2>1, OldService
  <2>2. CASE svc' = [run |-> 0, enabled |-> FALSE] BY <2>2 DEF Service
  <2> QED BY <1>4, <2>1, <2>2
<1>6. /\ p' \in Operator /\ SameRun /\ p'.changed = {} /\ p'.i = 0 /\ p'.end = "none"
      /\ p'.fresh = p.fresh /\ p'.started = p.started /\ p'.prepared = p.prepared /\ p'.called = p.called
      /\ \/ p'.pc = "resume" /\ p'.managed = p.managed
         \/ p'.pc \in {"prepare", "resume"} /\ p'.managed /\ svc'.run = 0
  <2>1. CASE GivesUp(FALSE)
    BY <1>2, <1>3, <2>1, GivingUp DEF InstallInv, SameMarks, SameCourse
  <2>2. CASE /\ svc' = [run |-> 0, enabled |-> FALSE]
             /\ p' = [p EXCEPT !.pc = "prepare", !.managed = TRUE]
    BY <1>2, <1>3, <2>2 DEF Operator, SameRun, UpgradeSteps, Unwritten
  <2>3. CASE /\ svc' = [run |-> 0, enabled |-> FALSE]
             /\ p' = [p EXCEPT !.pc = "resume", !.managed = TRUE, !.may = TRUE]
    <3>1. p' \in Operator BY <1>2, <2>3 DEF Operator, UpgradeSteps
    <3>2. SameRun /\ p'.changed = {} /\ p'.i = 0 /\ p'.end = "none" /\ p'.fresh = p.fresh
          /\ p'.started = p.started /\ p'.prepared = p.prepared /\ p'.called = p.called /\ p'.pc = "resume" /\ p'.managed
      BY <1>2, <1>3, <2>3 DEF Operator, SameRun
    <3>3. svc'.run = 0 BY <2>3
    <3> QED BY <3>1, <3>2, <3>3
  <2> QED BY <1>4, <2>1, <2>2, <2>3
<1>7. Upgrading' BY <1>2, <1>6 DEF Upgrading, SameRun
<1>8. Progress' BY <1>6 DEF Progress, Unwritten
<1>9. Blank(data)' /\ Blank(p.before)' BY <1>1, <1>3, <1>6 DEF Blank, SameRun
<1>10. Conversion'
  BY <1>1, <1>3, <1>6, <1>7, <1>9 DEF Conversion, SameRun, Prepared, Placing
<1>11. OldTables' BY <1>1, TablesStay DEF InstallInv
<1>12. Serving' BY <1>1, <1>2, <1>3, <1>5, <1>6, <1>7 DEF InstallInv, Serving, SameRun, Working
<1>13. \A s \in Sessions : pins[s] # 0 => pins[s] \in gens' BY <1>1 DEF InstallInv, Pinned
<1> QED BY <1>1, <1>2, <1>3, <1>5, <1>6, <1>8, <1>9, <1>10, <1>11, <1>12, <1>13, UpgradeStep
    DEF InstallInv, WellTyped, UpgradeSteps, Unwritten, CheckSteps

\* A retired layout is converted beside the store, a current one is only backed up, and
\* neither touches what was there (restore.rs).
LEMMA PrepareStep ==
  ASSUME InstallInv, prepare_native_upgrade, UNCHANGED start
  PROVE  InstallInv'
<1>1. p.pc = "prepare" /\ UNCHANGED <<files, gens, pins, svc, runs, edits>>
  BY DEF prepare_native_upgrade
<1>2. p \in Operator /\ p.kind \in {"check", "upgrade"} /\ Working /\ Upgrading /\ p.end = "none"
  BY <1>1 DEF InstallInv, OwnSteps, WellTyped, Operator, Working, Upgrading, InstallSteps,
              RemovalSteps
<1>3. data = p.before /\ data \in Store /\ p.changed = {} /\ p.i = 0 /\ Blank(p.before)
      /\ (p.held <=> p.before.native # "none")
      /\ ~p.prepared /\ ~p.called
  BY <1>1, <1>2 DEF InstallInv, WellTyped, Conversion, Progress, Unwritten
<1>4. /\ ~Unfit <=> data.cand = "none" /\ ~(data.native = "current" /\ data.flat)
      /\ Convertible <=> data.native = "legacy" \/ (data.native = "none" /\ data.flat)
  BY DEF Unfit, Convertible, reject_retained_upgrade_candidate
<1> DEFINE Half == /\ ~Unfit /\ Convertible
                   /\ \E left \in {"none", "current"} :
                        data' = [data EXCEPT !.cand = left, !.backup = TRUE]
           Full == ~Unfit /\ Convertible /\ data' = Converted
           Made == ~Unfit /\ ~Convertible /\ data' = Created
<1>5. \/ (data' = data \/ Half \/ Made) /\ \E may \in BOOLEAN : GivesUp(may)
      \/ Full /\ p' = [p EXCEPT !.pc = "probe", !.prepared = TRUE]
      \/ Made /\ Continues("probe")
  <2>1. revalidate_original \in BOOLEAN BY DEF revalidate_original
  <2> QED BY <1>1, <1>3, <2>1 DEF prepare_native_upgrade, Converted, Created
<1>6. Half \/ Full => /\ data' \in Store /\ data'.native = data.native /\ data'.flat = data.flat
                      /\ data.cand = "none" /\ data'.cand \in {"none", "current"}
                      /\ data.native = "legacy" \/ (data.native = "none" /\ data.flat)
  BY <1>3, <1>4 DEF Store, Formats, Converted
<1>7. Made => /\ data' \in Store /\ data'.native = "current" /\ data'.flat = data.flat /\ ~data.flat
              /\ data.cand = "none" /\ data'.cand = "none" /\ data.native # "legacy"
              /\ data.native = "current" \/ data = Layout("empty")
  BY <1>3, <1>4 DEF Store, Formats, Created, Blank
<1>8. data' \in Store /\ Blank(data)' BY <1>3, <1>5, <1>6, <1>7 DEF InstallInv, Blank
<1>9. OldTables' BY <1>1, <1>5, <1>6, <1>7 DEF InstallInv, OldTables
<1>10. \A s \in Sessions : pins[s] # 0 => pins[s] \in gens' BY <1>1 DEF InstallInv, Pinned
<1>11. CASE (data' = data \/ Half \/ Made) /\ \E may \in BOOLEAN : GivesUp(may)
  <2>1. /\ p' \in Operator /\ p'.pc = "resume" /\ SameRun /\ SameMarks /\ SameCourse
        /\ p'.end = p.end
    BY <1>11, GivingUp DEF InstallInv
  <2>2. Upgrading' BY <1>2, <2>1 DEF Upgrading, SameRun
  <2>3. Progress' BY <1>3, <2>1 DEF Progress, SameCourse, Unwritten
  <2>4. data'.native = data.native \/ data = Layout("empty") BY <1>6, <1>7, <1>11
  <2>5. data'.flat = data.flat BY <1>6, <1>7, <1>11
  <2>6. Blank(p.before)' BY <1>3, <2>1 DEF Blank, SameRun
  <2>7. Conversion'
    BY <1>2, <1>3, <2>1, <2>4, <2>5, <2>6 DEF Conversion, SameRun, SameMarks, Prepared, Placing
  <2>8. Serving' BY <1>1, <1>2, <2>1, StaysOff DEF SameMarks, UpgradeSteps
  <2> QED BY <1>1, <1>2, <1>8, <1>9, <1>10, <2>1, <2>3, <2>7, <2>8, UpgradeStep
      DEF InstallInv, WellTyped, SameMarks, SameCourse, UpgradeSteps, Unwritten, CheckSteps
<1>12. CASE \/ Full /\ p' = [p EXCEPT !.pc = "probe", !.prepared = TRUE]
            \/ Made /\ Continues("probe")
  <2>1. /\ p' \in Operator /\ p'.pc = "probe" /\ SameRun /\ SameCourse /\ p'.end = p.end
        /\ p'.fresh = p.fresh /\ p'.started = p.started /\ p'.managed = p.managed
        /\ p'.called = p.called
        /\ \/ p'.prepared /\ Full
           \/ ~p'.prepared /\ Made
    <3>1. CASE Full /\ p' = [p EXCEPT !.pc = "probe", !.prepared = TRUE]
      BY <1>2, <3>1 DEF Operator, SameRun, SameCourse, UpgradeSteps, Unwritten
    <3>2. CASE Made /\ Continues("probe")
      BY <1>3, <3>2, Continuing DEF InstallInv, SameMarks, UpgradeSteps, Unwritten
    <3> QED BY <1>12, <3>1, <3>2
  <2>2. Upgrading' BY <1>2, <2>1 DEF Upgrading, SameRun
  <2>3. Progress' BY <1>3, <2>1 DEF Progress, SameCourse, Unwritten
  <2>4. Blank(p.before)' BY <1>3, <2>1 DEF Blank, SameRun
  <2>5. ~p.called BY <1>3
  <2>6. Converted' = Converted /\ Created' = Created BY <2>1 DEF Converted, Created, SameRun
  <2>7. Conversion'
    BY <1>2, <1>3, <1>6, <1>7, <2>1, <2>4, <2>5, <2>6 DEF Conversion, SameRun, Prepared, Placing
  <2>8. Serving' BY <1>1, <1>2, <2>1, StaysOff DEF UpgradeSteps, Unwritten
  <2> QED BY <1>1, <1>2, <1>8, <1>9, <1>10, <2>1, <2>3, <2>7, <2>8, UpgradeStep
      DEF InstallInv, WellTyped, SameCourse, UpgradeSteps, Unwritten, CheckSteps
<1> QED BY <1>5, <1>11, <1>12

\* What an upgrade is about is settled at its beginning (maintenance.rs).
LEMMA ConversionStays ==
  ASSUME SameRun
  PROVE  /\ Converted' = Converted /\ InPlace' = InPlace /\ Kept' = Kept /\ Created' = Created
         /\ (Blank(p.before)' <=> Blank(p.before)) /\ (Upgrading' <=> Upgrading)
BY DEF SameRun, Converted, InPlace, Kept, Created, Blank, Upgrading

\* In these steps an upgrade is at work (maintenance.rs).
LEMMA UpgradeAtWork ==
  ASSUME InstallInv,
         p.pc \in (Unwritten \ {"prepare", "probe"}) \cup {"publish", "rollback", "committed", "restart"}
  PROVE  /\ p \in Operator /\ data \in Store /\ p.kind = "upgrade" /\ Working /\ Upgrading
         /\ p.end = "none" /\ Blank(p.before) /\ p.before \in Store
         /\ p.held <=> p.before.native # "none"
         /\ p.prepared => /\ p.before.native = "legacy" \/ (p.before.native = "none" /\ p.before.flat)
                          /\ p.before.cand = "none"
<1>1. p \in Operator /\ data \in Store BY DEF InstallInv, WellTyped
<1>2. p.kind = "upgrade" /\ p.end = "none" /\ Working
  BY <1>1 DEF InstallInv, OwnSteps, Operator, Working, InstallSteps, RemovalSteps, CheckSteps,
              Unwritten
<1> QED BY <1>1, <1>2 DEF InstallInv, Conversion, Upgrading, Operator

\* A package that does not pass its trials leaves no candidate (maintenance.rs).
LEMMA ProbeStep ==
  ASSUME InstallInv, ProbePackage, UNCHANGED start
  PROVE  InstallInv'
<1>1. p.pc = "probe" /\ UNCHANGED <<files, gens, pins, svc, runs, edits>> BY DEF ProbePackage
<1>2. p \in Operator /\ p.kind \in {"check", "upgrade"} /\ Working /\ Upgrading /\ p.end = "none"
  BY <1>1 DEF InstallInv, OwnSteps, WellTyped, Operator, Working, Upgrading, InstallSteps,
              RemovalSteps
<1>3. /\ data \in Store /\ Blank(p.before) /\ ~p.called
      /\ p.held <=> p.before.native # "none"
      /\ p.prepared => /\ p.before.native = "legacy" \/ (p.before.native = "none" /\ p.before.flat)
                       /\ p.before.cand = "none" /\ data = Converted
      /\ ~p.prepared => /\ data = Created /\ p.before.cand = "none" /\ ~p.before.flat
                        /\ p.before.native = "current" \/ p.before = Layout("empty")
  BY <1>1, <1>2 DEF InstallInv, WellTyped, Conversion, Prepared
<1>4. p.changed = {} /\ p.i = 0 BY <1>1 DEF InstallInv, Progress, Unwritten
<1>5. \/ data' = data /\ Continues("stage") /\ p.kind = "upgrade"
      \/ data' = [data EXCEPT !.cand = "none"] /\ \E may \in BOOLEAN : GivesUp(may)
      \/ data' = data /\ GivesUp(FALSE)
  <2>1. PICK sound, observed \in BOOLEAN : Probed(sound, observed) BY DEF ProbePackage
  <2>2. (sound /\ revalidate_original) \in BOOLEAN BY DEF revalidate_original
  <2> QED BY <2>1, <2>2 DEF Probed
<1>6. p.before \in Store BY <1>2 DEF Operator
<1>7. /\ data.native = p.before.native \/ p.before = Layout("empty")
      /\ data.flat = p.before.flat /\ data.cand # "legacy"
  BY <1>3, <1>6 DEF Converted, Created, Store
<1>8. /\ data' \in Store /\ data'.native = data.native /\ data'.flat = data.flat
      /\ data'.backup = data.backup /\ data'.cand \in {data.cand, "none"}
  BY <1>3, <1>5 DEF Store, Formats
<1>9. Blank(data)' BY <1>8, EmptyStore DEF InstallInv, Blank, Store
<1>10. OldTables' BY <1>1, <1>7, <1>8 DEF InstallInv, OldTables
<1>11. \A s \in Sessions : pins[s] # 0 => pins[s] \in gens' BY <1>1 DEF InstallInv, Pinned
<1>12. CASE data' = data /\ Continues("stage") /\ p.kind = "upgrade"
  <2>1. /\ p' \in Operator /\ p'.pc = "stage" /\ SameRun /\ SameMarks /\ SameCourse
        /\ p'.end = p.end
    BY <1>12, Continuing DEF InstallInv, UpgradeSteps, Unwritten
  <2>2. Progress' BY <1>4, <2>1 DEF Progress, SameCourse, Unwritten
  <2>3. Conversion'
    BY <1>3, <1>12, <2>1, ConversionStays DEF Conversion, SameRun, SameMarks, Prepared, Placing
  <2> QED BY <1>1, <1>2, <1>12, <2>1, <2>2, <2>3, QuietStep
      DEF SameCourse, UpgradeSteps, Unwritten
<1>13. CASE \E may \in BOOLEAN : GivesUp(may)
  <2>1. /\ p' \in Operator /\ p'.pc = "resume" /\ SameRun /\ SameMarks /\ SameCourse
        /\ p'.end = p.end
    BY <1>13, GivingUp DEF InstallInv
  <2>2. Progress' BY <1>4, <2>1 DEF Progress, SameCourse, Unwritten
  <2>3. Conversion'
    BY <1>2, <1>3, <1>7, <1>8, <2>1, ConversionStays
    DEF Conversion, SameRun, SameMarks, Prepared, Placing
  <2>4. Serving' BY <1>1, <1>2, <2>1, StaysOff DEF SameMarks, UpgradeSteps
  <2> QED BY <1>1, <1>2, <1>8, <1>9, <1>10, <1>11, <2>1, <2>2, <2>3, <2>4, UpgradeStep
      DEF InstallInv, WellTyped, SameMarks, SameCourse, UpgradeSteps, Unwritten, CheckSteps
<1> QED BY <1>5, <1>12, <1>13

\* The new generation is staged beside the installed one (install.rs).
LEMMA StageStep ==
  ASSUME InstallInv, stage_generation, UNCHANGED start
  PROVE  InstallInv'
<1>1. /\ p.pc = "stage" /\ UNCHANGED <<files, pins, data, svc, runs, edits>>
      /\ gens' \in {gens, gens \union {2}}
  BY DEF stage_generation
<1>2. /\ p \in Operator /\ data \in Store /\ p.kind = "upgrade" /\ Working /\ Upgrading
      /\ p.end = "none" /\ Blank(p.before) /\ p.before \in Store
      /\ p.held <=> p.before.native # "none"
      /\ p.prepared => /\ p.before.native = "legacy" \/ (p.before.native = "none" /\ p.before.flat)
                       /\ p.before.cand = "none"
  BY <1>1, UpgradeAtWork DEF Unwritten
<1>3. /\ ~p.called
      /\ p.prepared => data = Converted
      /\ ~p.prepared => /\ data = Created /\ p.before.cand = "none" /\ ~p.before.flat
                        /\ p.before.native = "current" \/ p.before = Layout("empty")
  BY <1>1, <1>2 DEF InstallInv, Conversion, Prepared
<1>4. p.changed = {} /\ p.i = 0 BY <1>1 DEF InstallInv, Progress, Unwritten
<1>5. Continues("exchange") \/ GivesUp(FALSE) BY <1>1 DEF stage_generation
<1>6. /\ p' \in Operator /\ SameRun /\ SameMarks /\ SameCourse /\ p'.end = p.end
      /\ p'.pc = "exchange" \/ (p'.pc = "resume" /\ p'.may = FALSE)
  <2>1. CASE Continues("exchange")
    BY <2>1, Continuing DEF InstallInv, UpgradeSteps, Unwritten
  <2>2. CASE GivesUp(FALSE) BY <2>2, GivingUp DEF InstallInv
  <2> QED BY <1>5, <2>1, <2>2
<1>7. Progress' BY <1>4, <1>6 DEF Progress, SameCourse, Unwritten
<1>8. /\ data.native = p.before.native \/ p.before = Layout("empty")
      /\ data.flat = p.before.flat
  BY <1>2, <1>3 DEF Converted, Created, Store
<1>9. Conversion'
  BY <1>1, <1>2, <1>3, <1>6, <1>8, ConversionStays
  DEF Conversion, SameRun, SameMarks, Prepared, Placing
<1>10. Serving' BY <1>1, <1>2, <1>6, StaysOff DEF SameMarks, UpgradeSteps, Unwritten
<1>11. OldTables' BY <1>1, TablesStay DEF InstallInv
<1>12. Blank(data)' BY <1>1 DEF InstallInv, Blank
<1>13. /\ \A s \in Sessions : pins[s] # 0 => pins[s] \in gens'
       /\ gens' \subseteq {1, 2} /\ (1 \in gens => 1 \in gens')
  BY <1>1 DEF InstallInv, Pinned, WellTyped
<1> QED BY <1>1, <1>2, <1>6, <1>7, <1>9, <1>10, <1>11, <1>12, <1>13, UpgradeStep
    DEF InstallInv, WellTyped, SameMarks, SameCourse, UpgradeSteps, Unwritten

\* The stores change places at once, and the former one is kept beside (restore.rs).
LEMMA ExchangeStep ==
  ASSUME InstallInv, ExchangeNative, UNCHANGED start
  PROVE  InstallInv'
<1>1. p.pc = "exchange" /\ UNCHANGED <<files, gens, pins, svc, runs, edits>>
  BY DEF ExchangeNative
<1>2. /\ p \in Operator /\ data \in Store /\ p.kind = "upgrade" /\ Working /\ Upgrading
      /\ p.end = "none" /\ Blank(p.before) /\ p.before \in Store
      /\ p.held <=> p.before.native # "none"
      /\ p.prepared => /\ p.before.native = "legacy" \/ (p.before.native = "none" /\ p.before.flat)
                       /\ p.before.cand = "none"
  BY <1>1, UpgradeAtWork DEF Unwritten
<1>3. /\ ~p.called
      /\ p.prepared => data = Converted
      /\ ~p.prepared => /\ data = Created /\ p.before.cand = "none" /\ ~p.before.flat
                        /\ p.before.native = "current" \/ p.before = Layout("empty")
  BY <1>1, <1>2 DEF InstallInv, Conversion, Prepared
<1>4. p.changed = {} /\ p.i = 0 BY <1>1 DEF InstallInv, Progress, Unwritten
<1>5. \/ p.prepared /\ data' = Exchanged(data) /\ Continues("verify")
      \/ /\ p.prepared /\ data' = [data EXCEPT !.cand = "none"]
         /\ p' = [p EXCEPT !.pc = "discard", !.may = TRUE]
      \/ ~p.prepared /\ data' = data /\ Continues("commit")
  BY <1>1 DEF ExchangeNative
<1>6. \A s \in Sessions : pins[s] # 0 => pins[s] \in gens' BY <1>1 DEF InstallInv, Pinned
<1>7. CASE p.prepared /\ data' = Exchanged(data) /\ Continues("verify")
  <2>1. /\ p' \in Operator /\ p'.pc = "verify" /\ SameRun /\ SameMarks /\ SameCourse
        /\ p'.end = p.end
    BY <1>7, Continuing DEF InstallInv, UpgradeSteps, Unwritten
  <2>2. data' = InPlace
    BY <1>2, <1>3, <1>7 DEF Exchanged, Converted, InPlace, Store
  <2>3. data' \in Store /\ Blank(data)' BY <1>2, <2>2 DEF InPlace, Store, Formats, Blank
  <2>4. OldTables' BY <1>1, <1>2, <1>7, <2>2 DEF OldTables, InPlace, Store
  <2>5. Progress' BY <1>4, <2>1 DEF Progress, SameCourse, Unwritten
  <2>6. Conversion'
    BY <1>2, <1>3, <1>7, <2>1, <2>2, ConversionStays
    DEF Conversion, SameRun, SameMarks, Prepared, Placing
  <2>7. Serving' BY <1>1, <1>2, <2>1, StaysOff DEF SameMarks, UpgradeSteps, Unwritten
  <2> QED BY <1>1, <1>2, <1>6, <2>1, <2>3, <2>4, <2>5, <2>6, <2>7, UpgradeStep
      DEF InstallInv, WellTyped, SameMarks, SameCourse, UpgradeSteps, Unwritten
<1>8. CASE /\ p.prepared /\ data' = [data EXCEPT !.cand = "none"]
           /\ p' = [p EXCEPT !.pc = "discard", !.may = TRUE]
  <2>1. /\ p' \in Operator /\ p'.pc = "discard" /\ SameRun /\ SameMarks /\ SameCourse
        /\ p'.end = p.end
    BY <1>2, <1>8 DEF Operator, SameRun, SameMarks, SameCourse, UpgradeSteps, Unwritten
  <2>2. data' = Kept BY <1>2, <1>3, <1>8 DEF Converted, Kept, Store
  <2>3. data' \in Store /\ Blank(data)' BY <1>2, <1>8, <2>2 DEF Kept, Store, Formats, Blank
  <2>4. OldTables' BY <1>1, <1>2, <1>8, <2>2 DEF OldTables, Kept, Store
  <2>5. Progress' BY <1>4, <2>1 DEF Progress, SameCourse, Unwritten
  <2>6. Conversion'
    BY <1>2, <1>3, <1>8, <2>1, <2>2, ConversionStays
    DEF Conversion, SameRun, SameMarks, Prepared, Placing
  <2>7. Serving' BY <1>1, <1>2, <2>1, StaysOff DEF SameMarks, UpgradeSteps, Unwritten
  <2> QED BY <1>1, <1>2, <1>6, <2>1, <2>3, <2>4, <2>5, <2>6, <2>7, UpgradeStep
      DEF InstallInv, WellTyped, SameMarks, SameCourse, UpgradeSteps, Unwritten
<1>9. CASE ~p.prepared /\ data' = data /\ Continues("commit")
  <2>1. /\ p' \in Operator /\ p'.pc = "commit" /\ SameRun /\ SameMarks /\ SameCourse
        /\ p'.end = p.end
    BY <1>9, Continuing DEF InstallInv, UpgradeSteps, Unwritten
  <2>2. Progress' BY <1>4, <2>1 DEF Progress, SameCourse, Unwritten
  <2>3. Conversion'
    BY <1>2, <1>3, <1>9, <2>1, ConversionStays DEF Conversion, SameRun, SameMarks, Prepared, Placing
  <2> QED BY <1>1, <1>2, <1>9, <2>1, <2>2, <2>3, QuietStep
      DEF SameCourse, UpgradeSteps, Unwritten
<1> QED BY <1>5, <1>7, <1>8, <1>9

\* The published store is looked at once more (restore.rs).
LEMMA VerifyStep ==
  ASSUME InstallInv, VerifyPublished, UNCHANGED start
  PROVE  InstallInv'
<1>1. /\ p.pc = "verify" /\ UNCHANGED <<files, gens, pins, data, svc, runs, edits>>
      /\ Continues("commit") \/ Continues("unexchange")
  BY DEF VerifyPublished
<1>2. /\ p \in Operator /\ p.kind = "upgrade" /\ Working /\ Upgrading
      /\ p.end = "none" /\ Blank(p.before) /\ p.before \in Store
      /\ p.held <=> p.before.native # "none"
      /\ p.prepared => /\ p.before.native = "legacy" \/ (p.before.native = "none" /\ p.before.flat)
                       /\ p.before.cand = "none"
  BY <1>1, UpgradeAtWork DEF Unwritten
<1>3. ~p.called /\ p.prepared /\ data = InPlace
  BY <1>1, <1>2 DEF InstallInv, Conversion, Prepared, Placing
<1>4. /\ p' \in Operator /\ p'.pc \in {"commit", "unexchange"} /\ SameRun /\ SameMarks
      /\ SameCourse /\ p'.end = p.end
  BY <1>1, Continuing DEF InstallInv, UpgradeSteps, Unwritten
<1>5. Progress' BY <1>1, <1>4 DEF InstallInv, Progress, SameCourse, Unwritten
<1>6. Conversion'
  BY <1>1, <1>2, <1>3, <1>4, ConversionStays DEF Conversion, SameRun, SameMarks, Prepared, Placing
<1> QED BY <1>1, <1>2, <1>4, <1>5, <1>6, QuietStep DEF SameCourse, UpgradeSteps, Unwritten

\* After an uncertain outcome nothing is touched any more (maintenance.rs).
LEMMA UncertainStep ==
  ASSUME InstallInv, p.pc \in {"commit", "publish", "rollback", "discard", "unexchange"}, Uncertain,
         UNCHANGED <<files, gens, pins, data, svc, edits, start>>
  PROVE  InstallInv'
<1>1. /\ p \in Operator /\ p.kind = "upgrade" /\ Working /\ Upgrading
      /\ p.end = "none" /\ Blank(p.before) /\ p.before \in Store
      /\ p.held <=> p.before.native # "none"
      /\ p.prepared => /\ p.before.native = "legacy" \/ (p.before.native = "none" /\ p.before.flat)
                       /\ p.before.cand = "none"
  BY UpgradeAtWork DEF Unwritten
<1>2. /\ p' \in Operator /\ p'.pc = "resume" /\ SameRun /\ SameMarks /\ SameCourse
      /\ p'.may = FALSE /\ p'.end = "uncertain"
  BY Doubting DEF InstallInv
<1>3. Progress' BY <1>2 DEF Progress, Unwritten
<1>4. Conversion'
  BY <1>1, <1>2, ConversionStays DEF Conversion, SameRun, SameMarks, Prepared, Placing
<1> QED BY <1>1, <1>2, <1>3, <1>4, QuietStep DEF SameCourse, UpgradeSteps, Unwritten

\* The commit begins on the files that were read, is given up, or is uncertain (maintenance.rs).
LEMMA CommitStep ==
  ASSUME InstallInv, CommitPackage, UNCHANGED start
  PROVE  InstallInv'
<1>1. /\ p.pc = "commit" /\ UNCHANGED <<files, gens, pins, data, svc, runs, edits>>
      /\ \/ p' = [p EXCEPT !.pc = "publish", !.called = TRUE]
         \/ p' = [p EXCEPT !.pc = "discard", !.called = TRUE, !.may = TRUE]
         \/ Uncertain
  BY DEF CommitPackage
<1>2. /\ p \in Operator /\ p.kind = "upgrade" /\ Working /\ Upgrading
      /\ p.end = "none" /\ Blank(p.before) /\ p.before \in Store
      /\ p.held <=> p.before.native # "none"
      /\ p.prepared => /\ p.before.native = "legacy" \/ (p.before.native = "none" /\ p.before.flat)
                       /\ p.before.cand = "none"
  BY <1>1, UpgradeAtWork DEF Unwritten
<1>3. /\ p.prepared => data = InPlace
      /\ ~p.prepared => /\ data = Created /\ p.before.cand = "none" /\ ~p.before.flat
                        /\ p.before.native = "current" \/ p.before = Layout("empty")
  BY <1>1, <1>2 DEF InstallInv, Conversion, Prepared, Placing
<1>4. p.changed = {} /\ p.i = 0 BY <1>1 DEF InstallInv, Progress, Unwritten
<1>5. CASE ~Uncertain
  <2>1. /\ p' \in Operator /\ p'.pc \in {"publish", "discard"} /\ SameRun /\ SameCourse /\ p'.called
        /\ p'.end = p.end /\ p'.prepared = p.prepared /\ p'.fresh = p.fresh
        /\ p'.started = p.started /\ p'.managed = p.managed
    <3>1. CASE p' = [p EXCEPT !.pc = "publish", !.called = TRUE]
      BY <1>2, <3>1 DEF Operator, SameRun, SameCourse, UpgradeSteps
    <3>2. CASE p' = [p EXCEPT !.pc = "discard", !.called = TRUE, !.may = TRUE]
      <4>1. p' \in Operator BY <1>2, <3>2 DEF Operator, UpgradeSteps, Unwritten
      <4> QED BY <1>2, <3>2, <4>1 DEF Operator, SameRun, SameCourse
    <3> QED BY <1>1, <1>5, <3>1, <3>2
  <2>2. Progress' BY <1>4, <2>1 DEF Progress, SameCourse, Unwritten
  <2>3. Conversion'
    BY <1>1, <1>2, <1>3, <2>1, ConversionStays DEF Conversion, SameRun, Prepared, Placing
  <2>4. Serving' BY <1>1, <1>2, <2>1, StaysOff DEF UpgradeSteps, Unwritten
  <2>5. OldTables' BY <1>1, TablesStay DEF InstallInv
  <2>6. Blank(data)' BY <1>1 DEF InstallInv, Blank
  <2>7. \A s \in Sessions : pins[s] # 0 => pins[s] \in gens' BY <1>1 DEF InstallInv, Pinned
  <2> QED BY <1>1, <1>2, <2>1, <2>2, <2>3, <2>4, <2>5, <2>6, <2>7, UpgradeStep
      DEF InstallInv, WellTyped, SameCourse, UpgradeSteps, Unwritten
<1>6. CASE Uncertain BY <1>1, <1>6, UncertainStep
<1> QED BY <1>1, <1>5, <1>6

\* The files are committed only when all of them are what was published (install.rs).
LEMMA CommitFilesStep ==
  ASSUME InstallInv, CommitFiles, UNCHANGED start
  PROVE  InstallInv'
<1>1. /\ p.pc = "publish" /\ p.i = Len(Edited)
      /\ UNCHANGED <<files, gens, pins, data, svc, runs, edits>>
      /\ Continues("committed") \/ Uncertain \/ Continues("undo")
  BY DEF CommitFiles
<1>2. /\ p \in Operator /\ p.kind = "upgrade" /\ Working /\ Upgrading
      /\ p.end = "none" /\ Blank(p.before) /\ p.before \in Store
      /\ p.held <=> p.before.native # "none"
      /\ p.prepared => /\ p.before.native = "legacy" \/ (p.before.native = "none" /\ p.before.flat)
                       /\ p.before.cand = "none"
  BY <1>1, UpgradeAtWork DEF Unwritten
<1>3. /\ p.called
      /\ p.prepared => data = InPlace
      /\ ~p.prepared => /\ data = Created /\ p.before.cand = "none" /\ ~p.before.flat
                        /\ p.before.native = "current" \/ p.before = Layout("empty")
  BY <1>1, <1>2 DEF InstallInv, Conversion, Prepared, Placing
<1>4. p.changed = Package
  <2>1. \A k \in 1 .. Len(Edited) : Edited[k] \in p.changed BY <1>1 DEF InstallInv, Progress
  <2>2. p.changed \subseteq Package BY <1>2 DEF InstallInv, Changes
  <2> QED BY <1>2, <2>1, <2>2, Order
<1>5. CASE Uncertain BY <1>1, <1>5, UncertainStep
<1>6. CASE Continues("committed") \/ Continues("undo")
  <2>1. /\ p' \in Operator /\ p'.pc \in {"committed", "undo"} /\ SameRun /\ SameMarks
        /\ SameCourse /\ p'.end = p.end
    BY <1>6, Continuing DEF InstallInv, UpgradeSteps
  <2>2. Progress' BY <1>4, <2>1 DEF Progress, SameCourse, Unwritten
  <2>3. Conversion'
    BY <1>1, <1>2, <1>3, <2>1, ConversionStays
    DEF Conversion, SameRun, SameMarks, Prepared, Placing
  <2> QED BY <1>1, <1>2, <2>1, <2>2, <2>3, QuietStep DEF SameCourse, UpgradeSteps, Unwritten
<1> QED BY <1>1, <1>5, <1>6

\* The rollback of a commit goes over all files (install.rs).
LEMMA UndoCommitStep ==
  ASSUME InstallInv, UndoCommit, UNCHANGED start
  PROVE  InstallInv'
<1>1. /\ p.pc = "undo" /\ Upgrading /\ UNCHANGED <<files, gens, pins, data, svc, runs, edits>>
      /\ p' = [p EXCEPT !.pc = "rollback", !.i = Len(Edited)]
  BY DEF UndoCommit
<1>2. p \in Operator /\ p.kind = "upgrade" /\ Working /\ p.end = "none"
  BY <1>1 DEF InstallInv, OwnSteps, WellTyped, Operator, Working, Upgrading, CheckSteps
<1>3. Len(Edited) = 5 BY <1>1, Order
<1>4. /\ p' \in Operator /\ p'.pc = "rollback" /\ SameRun /\ SameMarks /\ p'.changed = p.changed
      /\ p'.end = p.end /\ p'.i = 5
  <2>1. p' = [p EXCEPT !.pc = "rollback", !.i = 5] BY <1>1, <1>3
  <2>2. 5 \in 0 .. 5 OBVIOUS
  <2>3. p' \in Operator BY <1>2, <2>1, <2>2 DEF Operator, UpgradeSteps
  <2>4. /\ p'.pc = "rollback" /\ SameRun /\ SameMarks /\ p'.changed = p.changed
        /\ p'.end = p.end
    BY <1>2, <2>1 DEF Operator, SameRun, SameMarks
  <2>5. p'.i = 5 BY <1>2, <2>1 DEF Operator
  <2> QED BY <2>3, <2>4, <2>5
<1>5. Edited' = Edited BY <1>4, OrderStays
<1>6. Progress'
  <2>1. Len(Edited') = 5 BY <1>3, <1>5
  <2>2. \A k \in 1 .. 5 : ~(k > 5) OBVIOUS
  <2> QED BY <1>4, <2>1, <2>2 DEF Progress, Unwritten
<1>7. Conversion'
  BY <1>1, <1>2, <1>4, ConversionStays
  DEF InstallInv, Conversion, SameRun, SameMarks, Prepared, Placing
<1> QED BY <1>1, <1>2, <1>4, <1>6, <1>7, QuietStep DEF UpgradeSteps, Unwritten

\* The rollback counts as one only when every file was put back (install.rs).
LEMMA RolledBackStep ==
  ASSUME InstallInv, RolledBack, UNCHANGED start
  PROVE  InstallInv'
<1>1. /\ p.pc = "rollback" /\ p.i = 0
      /\ UNCHANGED <<files, gens, pins, data, svc, runs, edits>>
      /\ \/ p.restored /\ p' = [p EXCEPT !.pc = "discard", !.may = TRUE]
         \/ Uncertain
  BY DEF RolledBack
<1>2. /\ p \in Operator /\ p.kind = "upgrade" /\ Working /\ Upgrading
      /\ p.end = "none" /\ Blank(p.before) /\ p.before \in Store
      /\ p.held <=> p.before.native # "none"
      /\ p.prepared => /\ p.before.native = "legacy" \/ (p.before.native = "none" /\ p.before.flat)
                       /\ p.before.cand = "none"
  BY <1>1, UpgradeAtWork
<1>3. /\ p.called
      /\ p.prepared => data = InPlace
      /\ ~p.prepared => /\ data = Created /\ p.before.cand = "none" /\ ~p.before.flat
                        /\ p.before.native = "current" \/ p.before = Layout("empty")
  BY <1>1, <1>2 DEF InstallInv, Conversion, Prepared, Placing
<1>4. p.restored => p.changed = {}
  <2>1. p.restored => \A k \in 1 .. Len(Edited) : Edited[k] \notin p.changed
    BY <1>1, Order DEF InstallInv, Progress
  <2> QED BY <1>2, <2>1, Order DEF InstallInv, Changes
<1>5. CASE Uncertain BY <1>1, <1>5, UncertainStep
<1>6. CASE p.restored /\ p' = [p EXCEPT !.pc = "discard", !.may = TRUE]
  <2>1. /\ p' \in Operator /\ p'.pc = "discard" /\ SameRun /\ SameMarks /\ SameCourse
        /\ p'.end = p.end
    BY <1>2, <1>6 DEF Operator, SameRun, SameMarks, SameCourse, UpgradeSteps, Unwritten
  <2>2. Progress' BY <1>1, <1>4, <1>6, <2>1 DEF Progress, SameCourse, Unwritten
  <2>3. Conversion'
    BY <1>1, <1>2, <1>3, <2>1, ConversionStays
    DEF Conversion, SameRun, SameMarks, Prepared, Placing
  <2> QED BY <1>1, <1>2, <2>1, <2>2, <2>3, QuietStep DEF SameCourse, UpgradeSteps, Unwritten
<1> QED BY <1>1, <1>5, <1>6

\* The staged generation goes, and no session is pinned to it (install.rs).
LEMMA DiscardStep ==
  ASSUME InstallInv, discard_staged, UNCHANGED start
  PROVE  InstallInv'
<1>1. /\ p.pc = "discard" /\ UNCHANGED <<files, pins, data, svc, runs, edits>>
      /\ \/ /\ gens' = gens \ {2}
            /\ IF p.called /\ p.prepared THEN Continues("unexchange") ELSE GivesUp(p.may)
         \/ Uncertain /\ UNCHANGED gens
  BY DEF discard_staged
<1>2. /\ p \in Operator /\ p.kind = "upgrade" /\ Working /\ Upgrading
      /\ p.end = "none" /\ Blank(p.before) /\ p.before \in Store
      /\ p.held <=> p.before.native # "none"
      /\ p.prepared => /\ p.before.native = "legacy" \/ (p.before.native = "none" /\ p.before.flat)
                       /\ p.before.cand = "none"
  BY <1>1, UpgradeAtWork DEF Unwritten
<1>3. /\ ~p.called => p.prepared /\ data = Kept
      /\ p.called /\ p.prepared => data = InPlace
      /\ ~p.prepared => /\ data = Created /\ p.before.cand = "none" /\ ~p.before.flat
                        /\ p.before.native = "current" \/ p.before = Layout("empty")
  BY <1>1, <1>2 DEF InstallInv, Conversion, Prepared, Placing
<1>4. p.changed = {} /\ p.i = 0 BY <1>1 DEF InstallInv, Progress, Unwritten
<1>5. CASE Uncertain /\ UNCHANGED gens BY <1>1, <1>5, UncertainStep
<1>6. CASE /\ gens' = gens \ {2}
           /\ IF p.called /\ p.prepared THEN Continues("unexchange") ELSE GivesUp(p.may)
  <2>1. p.may \in BOOLEAN BY <1>2 DEF Operator
  <2>2. /\ p' \in Operator /\ SameRun /\ SameMarks /\ SameCourse /\ p'.end = p.end
        /\ \/ p.called /\ p.prepared /\ p'.pc = "unexchange"
           \/ ~(p.called /\ p.prepared) /\ p'.pc = "resume"
    <3>1. CASE p.called /\ p.prepared
      BY <1>6, <3>1, Continuing DEF InstallInv, UpgradeSteps, Unwritten
    <3>2. CASE ~(p.called /\ p.prepared) BY <1>6, <2>1, <3>2, GivingUp DEF InstallInv
    <3> QED BY <3>1, <3>2
  <2>3. Progress' BY <1>4, <2>2 DEF Progress, SameCourse, Unwritten
  <2>4. ~(p.called /\ p.prepared) =>
          /\ data.native = p.before.native \/ p.before = Layout("empty")
          /\ data.flat = p.before.flat
    BY <1>2, <1>3 DEF Kept, Created, Store
  <2>5. Conversion'
    BY <1>1, <1>2, <1>3, <2>2, <2>4, ConversionStays
    DEF Conversion, SameRun, SameMarks, Prepared, Placing
  <2>6. Serving' BY <1>1, <1>2, <2>2, StaysOff DEF SameMarks, UpgradeSteps, Unwritten
  <2>7. OldTables' BY <1>1, TablesStay DEF InstallInv
  <2>8. Blank(data)' BY <1>1 DEF InstallInv, Blank
  <2>9. /\ \A s \in Sessions : pins[s] # 0 => pins[s] \in gens'
        /\ gens' \subseteq {1, 2} /\ (1 \in gens => 1 \in gens')
    BY <1>1, <1>2, <1>6 DEF InstallInv, Pinned, WellTyped, Unwritten
  <2> QED BY <1>1, <1>2, <2>2, <2>3, <2>5, <2>6, <2>7, <2>8, <2>9, UpgradeStep
      DEF InstallInv, WellTyped, SameMarks, SameCourse, UpgradeSteps, Unwritten
<1> QED BY <1>1, <1>5, <1>6

\* The former store is put back at once (maintenance.rs, restore.rs).
LEMMA UnexchangeStep ==
  ASSUME InstallInv, UnexchangeNative, UNCHANGED start
  PROVE  InstallInv'
<1>1. /\ p.pc = "unexchange" /\ UNCHANGED <<files, gens, pins, svc, runs, edits>>
      /\ \/ /\ data' = Reversed(data)
            /\ p' = [p EXCEPT !.pc = IF p.called THEN "resume" ELSE "discard", !.may = TRUE]
         \/ Uncertain /\ UNCHANGED data
  BY DEF UnexchangeNative
<1>2. /\ p \in Operator /\ data \in Store /\ p.kind = "upgrade" /\ Working /\ Upgrading
      /\ p.end = "none" /\ Blank(p.before) /\ p.before \in Store
      /\ p.held <=> p.before.native # "none"
      /\ p.prepared => /\ p.before.native = "legacy" \/ (p.before.native = "none" /\ p.before.flat)
                       /\ p.before.cand = "none"
  BY <1>1, UpgradeAtWork DEF Unwritten
<1>3. p.prepared /\ data = InPlace
  BY <1>1, <1>2 DEF InstallInv, Conversion, Prepared, Placing
<1>4. p.changed = {} /\ p.i = 0 BY <1>1 DEF InstallInv, Progress, Unwritten
<1>5. CASE Uncertain /\ UNCHANGED data BY <1>1, <1>5, UncertainStep
<1>6. CASE /\ data' = Reversed(data)
           /\ p' = [p EXCEPT !.pc = IF p.called THEN "resume" ELSE "discard", !.may = TRUE]
  <2>1. /\ p' \in Operator /\ SameRun /\ SameMarks /\ SameCourse /\ p'.end = p.end
        /\ p'.pc = IF p.called THEN "resume" ELSE "discard"
    BY <1>2, <1>6 DEF Operator, SameRun, SameMarks, SameCourse, UpgradeSteps, Unwritten
  <2>2. data' = Kept BY <1>2, <1>3, <1>6 DEF Reversed, InPlace, Kept, Store
  <2>3. /\ data' \in Store /\ Blank(data)'
        /\ data'.native = p.before.native /\ data'.flat = p.before.flat
    BY <1>2, <1>3, <2>2 DEF Kept, Store, Formats, Blank
  <2>4. OldTables' BY <1>1, <1>2, <1>3, <2>2 DEF OldTables, Kept, Store
  <2>5. Progress' BY <1>4, <2>1 DEF Progress, SameCourse, Unwritten
  <2>6. Conversion'
    BY <1>2, <1>3, <2>1, <2>2, <2>3, ConversionStays
    DEF Conversion, SameRun, SameMarks, Prepared, Placing
  <2>7. Serving' BY <1>1, <1>2, <2>1, StaysOff DEF SameMarks, UpgradeSteps, Unwritten
  <2>8. \A s \in Sessions : pins[s] # 0 => pins[s] \in gens' BY <1>1 DEF InstallInv, Pinned
  <2> QED BY <1>1, <1>2, <2>1, <2>3, <2>4, <2>5, <2>6, <2>7, <2>8, UpgradeStep
      DEF InstallInv, WellTyped, SameMarks, SameCourse, UpgradeSteps, Unwritten
<1> QED BY <1>1, <1>5, <1>6

\* Once the files are committed, they are those of the new package (install.rs).
LEMMA CommittedPackage ==
  ASSUME InstallInv, Working, Upgrading, p.changed = Package
  PROVE  Agree(2)
<1>1. \A f \in Package : f \in Names BY DEF Package
<1>2. \A f \in Package : desired(f).v = 2 BY <1>1, Desired DEF InstallInv
<1> QED BY <1>2 DEF InstallInv, Changes, Agree, Is, Package

\* The old tables go last, when the new store and the new package are in place
\* (maintenance.rs, restore.rs).
LEMMA RetireOldStep ==
  ASSUME InstallInv, RetireOld, UNCHANGED start
  PROVE  InstallInv'
<1>1. /\ p.pc = "committed" /\ UNCHANGED <<files, gens, pins, svc, runs, edits>>
      /\ \/ data' = [data EXCEPT !.cand = "none", !.flat = FALSE] /\ Continues("restart")
         \/ Stops("retained") /\ UNCHANGED data
  BY DEF RetireOld
<1>2. /\ p \in Operator /\ data \in Store /\ p.kind = "upgrade" /\ Working /\ Upgrading
      /\ p.end = "none" /\ Blank(p.before) /\ p.before \in Store
      /\ p.held <=> p.before.native # "none"
      /\ p.prepared => /\ p.before.native = "legacy" \/ (p.before.native = "none" /\ p.before.flat)
                       /\ p.before.cand = "none"
  BY <1>1, UpgradeAtWork
<1>3. data.native = "current" /\ data.backup
  BY <1>1, <1>2 DEF InstallInv, Conversion, Placing, InPlace, Created, Store
<1>4. p.changed = Package /\ Agree(2)
  <2>1. p.changed = Package BY <1>1 DEF InstallInv, Progress
  <2> QED BY <1>2, <2>1, CommittedPackage
<1>5. CASE data' = [data EXCEPT !.cand = "none", !.flat = FALSE] /\ Continues("restart")
  <2>1. /\ p' \in Operator /\ p'.pc = "restart" /\ SameRun /\ SameMarks /\ SameCourse
        /\ p'.end = p.end
    BY <1>5, Continuing DEF InstallInv, UpgradeSteps
  <2>2. /\ data' \in Store /\ data'.native = "current" /\ data'.cand = "none" /\ ~data'.flat
        /\ data'.backup
    BY <1>2, <1>3, <1>5 DEF Store, Formats
  <2>3. OldTables' BY <1>1, <1>4, <2>1, <2>2 DEF OldTables, Agree, Is
  <2>4. Progress' BY <1>4, <2>1 DEF Progress, SameCourse, Unwritten
  <2>5. Blank(data)' BY <2>2 DEF Blank
  <2>6. Conversion'
    BY <1>2, <2>1, <2>2, ConversionStays
    DEF Conversion, SameRun, SameMarks, Prepared, Placing
  <2>7. Serving' BY <1>1, <1>2, <2>1, StaysOff DEF SameMarks, UpgradeSteps, Unwritten
  <2>8. \A s \in Sessions : pins[s] # 0 => pins[s] \in gens' BY <1>1 DEF InstallInv, Pinned
  <2> QED BY <1>1, <1>2, <2>1, <2>2, <2>3, <2>4, <2>5, <2>6, <2>7, <2>8, UpgradeStep
      DEF InstallInv, WellTyped, SameMarks, SameCourse, UpgradeSteps, Unwritten
<1>6. CASE Stops("retained") /\ UNCHANGED data
  <2>1. p'.end = "retained" BY <1>2, <1>6 DEF Stops, Operator
  <2>2. p' \in Operator /\ p'.pc = "idle" /\ SameRun /\ SameMarks /\ SameCourse
    BY <1>6, <2>1, Stopping DEF InstallInv
  <2>3. svc.run = 0 BY <1>1, <1>2 DEF InstallInv, Serving
  <2>4. ServiceAgrees' BY <1>1, <2>3 DEF ServiceAgrees
  <2>5. FailureIsClean' BY <2>1 DEF FailureIsClean
  <2> QED BY <1>1, <1>2, <1>6, <2>2, <2>3, <2>4, <2>5, UpgradeEnd
      DEF InstallInv, WellTyped, SameCourse
<1> QED BY <1>1, <1>5, <1>6

\* The service that comes back is that of the unit in place (install.rs).
LEMMA ResumedService ==
  ASSUME InstallInv
  PROVE  /\ Resumed \in Service
         /\ Resumed.run \in {0, files["unit"].v}
<1>1. p.prev \in Service /\ files["unit"].v \in 0 .. 2
  BY DEF InstallInv, WellTyped, Operator, Names, File
<1>2. Resumed = [p.prev EXCEPT !.run = IF p.prev.run = 0 THEN 0 ELSE files["unit"].v]
  BY DEF Resumed
<1> DEFINE n == IF p.prev.run = 0 THEN 0 ELSE files["unit"].v
<1>3. n \in 0 .. 2 /\ n \in {0, files["unit"].v} BY <1>1
<1>4. Resumed = [p.prev EXCEPT !.run = n] BY <1>2
<1> HIDE DEF n
<1> QED BY <1>1, <1>3, <1>4 DEF Service

\* After an upgrade the service runs the new package on the new store (maintenance.rs).
LEMMA RestartStep ==
  ASSUME InstallInv, RestartPublished, UNCHANGED start
  PROVE  InstallInv'
<1>1. /\ p.pc = "restart" /\ UNCHANGED <<files, gens, pins, data, runs, edits>>
      /\ Stops("done")
      /\ svc' = Resumed \/ svc' = svc
  BY DEF RestartPublished
<1>2. p \in Operator /\ p.kind = "upgrade" /\ Working /\ Upgrading BY <1>1, UpgradeAtWork
<1>3. Agree(2)
  <2>1. p.changed = Package BY <1>1 DEF InstallInv, Progress
  <2> QED BY <1>2, <2>1, CommittedPackage
<1>4. data.native = "current" /\ data.cand = "none" /\ ~data.flat
  BY <1>1, <1>2 DEF InstallInv, Conversion
<1>5. p'.end = "done" BY <1>1, <1>2 DEF Stops, Operator
<1>6. p' \in Operator /\ p'.pc = "idle" /\ SameRun /\ SameMarks /\ SameCourse
  BY <1>1, <1>5, Stopping DEF InstallInv
<1>7. svc' \in Service /\ svc'.run \in {0, 2}
  <2>1. CASE svc' = Resumed
    <3>1. files["unit"].v = 2 BY <1>3 DEF Agree, Is, Names
    <3> QED BY <2>1, <3>1, ResumedService
  <2>2. CASE svc' = svc BY <1>1, <1>2, <2>2 DEF InstallInv, Serving, WellTyped
  <2> QED BY <1>1, <2>1, <2>2
<1>8. ServiceAgrees' BY <1>1, <1>3, <1>4, <1>7 DEF ServiceAgrees, Agree, Is
<1>9. FailureIsClean' BY <1>5 DEF FailureIsClean
<1> QED BY <1>1, <1>2, <1>3, <1>6, <1>7, <1>8, <1>9, UpgradeEnd DEF SameCourse

\* The former service comes back only to the files and the store it had (maintenance.rs).
LEMMA ResumeStep ==
  ASSUME InstallInv, resume_unpublished_service, UNCHANGED start
  PROVE  InstallInv'
<1>1. /\ p.pc = "resume" /\ UNCHANGED <<files, gens, pins, data, runs, edits>>
      /\ p' = [p EXCEPT !.pc = "idle", !.end = IF p.end = "uncertain" THEN "uncertain" ELSE "failed"]
      /\ \/ p.managed /\ p.may /\ p.held /\ svc' = Resumed
         \/ svc' = svc
  BY DEF resume_unpublished_service
<1>2. p \in Operator /\ p.kind \in {"check", "upgrade"} /\ Working /\ Upgrading
  BY <1>1 DEF InstallInv, OwnSteps, WellTyped, Operator, Working, Upgrading, InstallSteps,
              RemovalSteps
<1>3. p.end \in {"none", "uncertain"} BY <1>1, <1>2 DEF InstallInv, OwnSteps, Operator
<1>4. /\ p' \in Operator /\ p'.pc = "idle" /\ SameRun /\ SameMarks /\ p'.changed = p.changed
      /\ p.end = "uncertain" => p'.end = "uncertain"
  <2>1. CASE p.end = "uncertain"
    BY <1>1, <1>2, <2>1 DEF Operator, SameRun, SameMarks
  <2>2. CASE p.end = "none"
    BY <1>1, <1>2, <2>2 DEF Operator, SameRun, SameMarks
  <2> QED BY <1>3, <2>1, <2>2
<1>5. p.end = "none" =>
        /\ \A f \in Names : files[f].v = p.orig[f].v /\ files[f].v = 1
        /\ data.native = p.before.native \/ p.before = Layout("empty")
        /\ data.flat = p.before.flat
  <2>1. p.end = "none" => p.changed = {} BY <1>1 DEF InstallInv, Progress
  <2>2. ~p.fresh BY <1>2 DEF InstallInv, OwnSteps
  <2>3. p.end = "none" => \A f \in Names : files[f].v = p.orig[f].v /\ files[f].v = 1
    BY <1>2, <2>1, <2>2 DEF InstallInv, Changes, Found
  <2> QED BY <1>1, <1>2, <2>3 DEF InstallInv, Conversion
<1>6. /\ p.may => p.end = "none"
      /\ p.held => p.before.native # "none"
      /\ p.kind = "upgrade" /\ p.managed => svc.run = 0
      /\ p.kind = "upgrade" /\ ~p.managed => data = p.before /\ p.end = "none"
  BY <1>1, <1>2 DEF InstallInv, Conversion, Serving
<1>7. svc' \in Service /\ svc'.run \in {0, 1}
  <2>1. CASE p.managed /\ p.may /\ p.held /\ svc' = Resumed
    <3>1. files["unit"].v = 1 BY <1>5, <1>6, <2>1 DEF Names
    <3> QED BY <2>1, <3>1, ResumedService
  <2>2. CASE svc' = svc
    <3>1. svc \in Service /\ svc.run # 2 BY <1>2, OldService
    <3> QED BY <2>2, <3>1 DEF Service
  <2> QED BY <1>1, <2>1, <2>2
<1>8. ServiceAgrees'
  <2> SUFFICES ASSUME svc'.run # 0, p.kind = "upgrade"
               PROVE  Agree(1)' /\ data.native = p.before.native
    BY <1>1, <1>4, <1>7 DEF ServiceAgrees, SameRun
  <2>1. p.end = "none" /\ data.native = p.before.native
    <3>1. CASE p.managed /\ p.may /\ p.held /\ svc' = Resumed
      <4>1. p.before # Layout("empty") BY <1>6, <3>1, EmptyStore
      <4> QED BY <1>5, <1>6, <3>1, <4>1
    <3>2. CASE svc' = svc BY <1>6, <3>2
    <3> QED BY <1>1, <3>1, <3>2
  <2> QED BY <1>1, <1>5, <2>1 DEF Agree, Is
<1>9. FailureIsClean'
  <2> SUFFICES ASSUME p'.end = "failed"
               PROVE  /\ \A f \in Names : files[f].v = p.orig[f].v
                      /\ data.native = p.before.native \/ p.before = Layout("empty")
                      /\ data.flat = p.before.flat
    BY <1>1, <1>4, EmptyStore DEF FailureIsClean, SameRun, Layout
  <2> QED BY <1>3, <1>4, <1>5
<1> QED BY <1>1, <1>2, <1>4, <1>7, <1>8, <1>9, UpgradeEnd

-----------------------------------------------------------------------------
(* The theorems.                                                               *)

\* Every step keeps the invariant (install.rs, maintenance.rs).
LEMMA InstallStep ==
  ASSUME InstallInv, [InstallNext /\ UNCHANGED start]_installVars
  PROVE  InstallInv'
<1>1. CASE InstallNext /\ UNCHANGED start
  <2>1. ASSUME NEW s \in Sessions, resolve_for_session(s) PROVE InstallInv'
    BY <1>1, <2>1, PinStep
  <2>2. CASE UserEdits BY <1>1, <2>2, EditStep
  <2>3. CASE OperatorKilled BY <1>1, <2>3, KilledStep
  <2>4. ASSUME NEW kind \in Kinds, BeginInstall(kind) \/ BeginUpgrade(kind) PROVE InstallInv'
    BY <1>1, <2>4, BeginInstallStep, BeginUpgradeStep
  <2>5. CASE InstallAssets \/ RemoveService \/ WriteFile \/ InstallService
    BY <1>1, <2>5, InstallAssetsStep, RemoveServiceStep, WriteFileStep, InstallServiceStep
  <2>6. CASE UndoInstall \/ UnwriteFile \/ RestoreService \/ RemoveAssets
    BY <1>1, <2>6, UndoInstallStep, PutBackStep, RestoreServiceStep, RemoveAssetsStep
  <2>7. CASE quiesce \/ prepare_native_upgrade \/ ProbePackage \/ stage_generation
    BY <1>1, <2>7, QuiesceStep, PrepareStep, ProbeStep, StageStep
  <2>8. CASE ExchangeNative \/ VerifyPublished \/ CommitPackage \/ PublishFile \/ CommitFiles
    BY <1>1, <2>8, ExchangeStep, VerifyStep, CommitStep, PublishFileStep, CommitFilesStep
  <2>9. CASE UndoCommit \/ RollbackFile \/ RolledBack \/ discard_staged \/ UnexchangeNative
    BY <1>1, <2>9, UndoCommitStep, PutBackStep, RolledBackStep, DiscardStep, UnexchangeStep
  <2>10. CASE RetireOld \/ RestartPublished \/ resume_unpublished_service
    BY <1>1, <2>10, RetireOldStep, RestartStep, ResumeStep
  <2> QED BY <1>1, <2>1, <2>2, <2>3, <2>4, <2>5, <2>6, <2>7, <2>8, <2>9, <2>10 DEF InstallNext
<1>2. CASE UNCHANGED installVars
  <2>1. /\ files' = files /\ gens' = gens /\ pins' = pins /\ data' = data /\ svc' = svc /\ p' = p
        /\ edits' = edits /\ start' = start
    BY <1>2 DEF installVars
  <2>2. Edited' = Edited /\ (Upgrading' <=> Upgrading) /\ \A f \in Names : desired(f)' = desired(f)
    BY <2>1 DEF Edited, Upgrading, desired, wanted
  <2>3. WellTyped' /\ OwnSteps' /\ Edits' BY <2>1 DEF InstallInv, WellTyped, OwnSteps, Edits, Working
  <2>4. Found' BY <2>1, <2>2 DEF InstallInv, Found, Working
  <2>5. Changes' BY <2>1, <2>2 DEF InstallInv, Changes, Working, WellTyped, Operator
  <2>6. Progress' BY <2>1, <2>2 DEF InstallInv, Progress
  <2>7. Blank(data)' BY <2>1 DEF InstallInv, Blank
  <2>8. Conversion'
    BY <2>1, <2>2 DEF InstallInv, Conversion, Working, Converted, InPlace, Kept, Created, Blank
  <2>9. OldTables' BY <2>1 DEF InstallInv, OldTables, Agree, Is
  <2>10. Serving' BY <2>1, <2>2 DEF InstallInv, Serving, Working, Agree, Is
  <2>11. Pinned' BY <2>1, <2>2 DEF InstallInv, Pinned
  <2>12. ServiceAgrees' BY <2>1 DEF InstallInv, ServiceAgrees, Agree, Is
  <2>13. FailureIsClean' /\ InstallUndone'
    BY <2>1 DEF InstallInv, FailureIsClean, InstallUndone, Is, Layout
  <2> QED BY <2>3, <2>4, <2>5, <2>6, <2>7, <2>8, <2>9, <2>10, <2>11, <2>12, <2>13 DEF InstallInv
<1> QED BY <1>1, <1>2

\* The invariant of installation, removal and upgrade, which holds whatever fails and
\* wherever the operator dies (install.rs, maintenance.rs, restore.rs).
THEOREM InstallInvariance == InstallSpec => []InstallInv
<1>1. InstallInit => InstallInv BY Initially
<1>2. InstallInv /\ [InstallNext /\ UNCHANGED start]_installVars => InstallInv' BY InstallStep
<1> QED BY <1>1, <1>2, PTL DEF InstallSpec

\* Files, store, service and pinned generations belong together at every point a process
\* can die (install.rs, restore.rs).
THEOREM InstalledAlwaysAgrees == InstallSpec => []InstalledAgrees
<1>1. InstallInv => InstalledAgrees
  <2> SUFFICES ASSUME InstallInv PROVE InstalledAgrees OBVIOUS
  <2>1. InstallTyped
    <3>1. \A f \in Names : files[f].v \in 0 .. 2 /\ files[f].user \in 0 .. MaxEdits
      BY BoundsAssumption DEF InstallInv, WellTyped, Edits, File
    <3>2. /\ gens \subseteq {1, 2} /\ pins \in [Sessions -> 0 .. 2]
          /\ data.native \in Formats /\ data.cand \in Formats /\ svc.run \in 0 .. 2
      BY DEF InstallInv, WellTyped, Store, Service
    <3>3. p.pc \in {"publish", "rollback", "committed", "restart"} => p.kind = "upgrade"
      BY UpgradeAtWork
    <3>4. p.pc # "idle" /\ p.kind = "upgrade" /\ p.pc # "quiesce" /\ p.managed => svc.run = 0
      BY DEF InstallInv, Serving, Working
    <3> QED BY <3>1, <3>2, <3>3, <3>4 DEF InstallTyped, Formats
  <2>2. PinsResolvable BY DEF InstallInv, Pinned, PinsResolvable
  <2>3. OldTablesKept BY DEF InstallInv, OldTables, OldTablesKept
  <2> QED BY <2>1, <2>2, <2>3 DEF InstalledAgrees, InstallInv
<1> QED BY <1>1, InstallInvariance, PTL

\* What failed is undone, and nothing the user wrote is undone with it (install.rs).
THEOREM FailuresAlwaysUndone == InstallSpec => []FailuresUndone
<1>1. InstallInv => FailuresUndone BY DEF InstallInv, Edits, UserEditsKept, FailuresUndone
<1> QED BY <1>1, InstallInvariance, PTL

=============================================================================

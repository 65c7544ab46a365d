---------------------------- MODULE CasLifecycle ----------------------------
(***************************************************************************)
(* What the capture pipeline promises about content-addressed blobs: who   *)
(* may publish, refer to and delete them.  Publishers and ingesters hold   *)
(* the maintenance fence shared, deleters hold it exclusively (evertrace-  *)
(* capture/src/cas.rs, MaintenanceFence).  A deleter may remove any blob   *)
(* that no frame of the main spool and no receipt of a repository that is  *)
(* not purged refers to; how it finds out is left to the implementation.   *)
(***************************************************************************)
CONSTANTS
  Records,    \* captures; each has a frame in the spool and a receipt
  Ingesters,  \* the tasks that turn frames into receipts
  Blobs, Repos,
  Digest,     \* the blob of each record
  RepoOf      \* the repository of each record

ASSUME LifecycleAssumption ==
  /\ Digest \in [Records -> Blobs]
  /\ RepoOf \in [Records -> Repos]
  /\ Records \cap Ingesters = {}

VARIABLES
  cas,         \* blobs that exist
  sharers,     \* holders of the shared fence
  publishing,  \* records whose blob is put and whose frame is not appended yet
  spooled,     \* records with a frame in the main spool
  preserved,   \* records whose frame was moved to quarantine
  receipts,    \* committed records
  purged,      \* purged repositories
  exclusive    \* whether somebody holds the fence exclusively

lifecycleVars == <<cas, sharers, publishing, spooled, preserved, receipts, purged, exclusive>>

LifecycleInit ==
  /\ cas = {} /\ sharers = {} /\ publishing = {} /\ spooled = {}
  /\ preserved = {} /\ receipts = {} /\ purged = {}
  /\ exclusive = FALSE

Visible(r) == RepoOf[r] \notin purged
Needed == {Digest[r] : r \in {q \in spooled \cup receipts : Visible(q)}}

Share(h) ==
  /\ ~exclusive
  /\ sharers' = sharers \cup {h}
  /\ UNCHANGED <<cas, publishing, spooled, preserved, receipts, purged, exclusive>>

PublishBlob(r) ==
  /\ r \in sharers
  /\ cas' = cas \cup {Digest[r]}
  /\ publishing' = publishing \cup {r}
  /\ UNCHANGED <<sharers, spooled, preserved, receipts, purged, exclusive>>

\* The frame becomes durable; the publisher may let go of the fence with it.
Refer(r) ==
  /\ r \in publishing
  /\ spooled' = spooled \cup {r}
  /\ publishing' = publishing \ {r}
  /\ sharers' \in {sharers, sharers \ {r}}
  /\ UNCHANGED <<cas, preserved, receipts, purged, exclusive>>

\* Holders give up, fail or die, any number of them at once.
Withdraw ==
  /\ sharers' \in SUBSET sharers
  /\ publishing' \in SUBSET (publishing \cap sharers')
  /\ exclusive' = exclusive \/ exclusive' = FALSE
  /\ UNCHANGED <<cas, spooled, preserved, receipts, purged>>

\* An ingester commits a frame whose blob it has seen under its shared fence.
Commit(r) ==
  /\ sharers \cap Ingesters # {}
  /\ Digest[r] \in cas /\ Visible(r)
  /\ receipts' = receipts \cup {r}
  /\ UNCHANGED <<cas, sharers, publishing, spooled, preserved, purged, exclusive>>

\* Frames leave the main spool when each has a receipt or is purged.
Acknowledge(S) ==
  /\ S \subseteq spooled
  /\ \A r \in S : r \in receipts \/ ~Visible(r)
  /\ spooled' = spooled \ S
  /\ sharers' \in {sharers} \cup {sharers \ {h} : h \in Ingesters}
  /\ UNCHANGED <<cas, publishing, preserved, receipts, purged, exclusive>>

\* A carrier that no longer reads is moved aside with all its frames.
Preserve(S) ==
  /\ S \subseteq spooled
  /\ spooled' = spooled \ S
  /\ preserved' = preserved \cup S
  /\ UNCHANGED <<cas, sharers, publishing, receipts, purged, exclusive>>

Purge(p) ==
  /\ purged' = purged \cup {p}
  /\ UNCHANGED <<cas, sharers, publishing, spooled, preserved, receipts, exclusive>>

\* Mutant: the exclusive lock is granted beside shared ones.
ExcludeBeside ==
  /\ ~exclusive
  /\ exclusive' = TRUE
  /\ UNCHANGED <<cas, sharers, publishing, spooled, preserved, receipts, purged>>

Exclude ==
  /\ ~exclusive /\ sharers = {}
  /\ exclusive' = TRUE
  /\ UNCHANGED <<cas, sharers, publishing, spooled, preserved, receipts, purged>>

\* Mutant: only receipts are consulted.
DeleteUnreceipted(D) ==
  /\ exclusive
  /\ D \cap {Digest[r] : r \in receipts} = {}
  /\ cas' = cas \ D
  /\ UNCHANGED <<sharers, publishing, spooled, preserved, receipts, purged, exclusive>>

Delete(D) ==
  /\ exclusive
  /\ D \cap Needed = {}
  /\ cas' = cas \ D
  /\ UNCHANGED <<sharers, publishing, spooled, preserved, receipts, purged, exclusive>>

LifecycleNext ==
  \/ \E h \in Records \cup Ingesters : Share(h)
  \/ \E r \in Records : PublishBlob(r) \/ Refer(r) \/ Commit(r)
  \/ Withdraw
  \/ \E S \in SUBSET Records : Acknowledge(S) \/ Preserve(S)
  \/ \E p \in Repos : Purge(p)
  \/ Exclude
  \/ \E D \in SUBSET Blobs : Delete(D)

LifecycleSpec == LifecycleInit /\ [][LifecycleNext]_lifecycleVars

-----------------------------------------------------------------------------
LifecycleTypeOK ==
  /\ cas \subseteq Blobs
  /\ sharers \subseteq Records \cup Ingesters
  /\ {publishing, spooled, preserved, receipts} \subseteq SUBSET Records
  /\ purged \subseteq Repos
  /\ exclusive \in BOOLEAN

\* An exclusive holder of the fence is alone.
Alone == exclusive => sharers = {}

\* What a publisher holding the fence has put stays until its frame refers to it.
PublishedKept == \A r \in publishing : r \in sharers /\ Digest[r] \in cas

\* No blob that a frame of the main spool or a receipt of a repository that is
\* not purged refers to is ever missing from the CAS.
NeededKept == Needed \subseteq cas

\* The inductive invariant.
LifecycleInv == LifecycleTypeOK /\ Alone /\ PublishedKept /\ NeededKept
=============================================================================

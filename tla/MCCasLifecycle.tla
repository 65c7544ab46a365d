--------------------------- MODULE MCCasLifecycle ---------------------------
(* The blob lifecycle on its own: three records of two repositories, two of   *)
(* them with the same bytes, and one ingester.                                *)
EXTENDS CasLifecycle

CONSTANTS r1, r2, r3, b1, b2, repoA, repoB

MCRecords == {r1, r2, r3}
MCDigest == [r \in Records |-> IF r = r3 THEN b2 ELSE b1]
MCRepoOf == [r \in Records |-> IF r = r2 THEN repoB ELSE repoA]
=============================================================================

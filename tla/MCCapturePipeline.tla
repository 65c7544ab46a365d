------------------------- MODULE MCCapturePipeline -------------------------
(* Instances of CapturePipeline for TLC: r1 and r2 carry the same protected    *)
(* bytes for two repositories, r3 has its own blob.                           *)
EXTENDS CapturePipeline, TLC

CONSTANTS r1, r2, r3, r4, b1, b2, repoA, repoB

MCRecords == {r1, r2, r3, r4}
MCBlobs == {b1, b2}
MCRepos == {repoA, repoB}
MCDigest == [r \in Records |-> IF r = r3 THEN b2 ELSE b1]
MCRepoOf == [r \in Records |-> IF r = r2 THEN repoB ELSE repoA]

InTurn == (r1 :> 1 @@ r2 :> 2)
AtOnce == (r1 :> 1 @@ r2 :> 1)
ThreeInTurn == (r1 :> 1 @@ r2 :> 2 @@ r3 :> 3)
FourInTurn == (r1 :> 1 @@ r2 :> 2 @@ r3 :> 3 @@ r4 :> 4)
Either == {{r1}, {r2}, {r1, r2}}

\* Two hooks and an ingest loop that nothing disturbs.
Calm == [max_main_files |-> 2, high_watermark_bytes |-> 5, names |-> 2,
         turn |-> InTurn, targets |-> {}, purgeable |-> {},
         faults |-> FALSE, restarts |-> 0, rounds |-> 0, damage |-> 0, fair |-> FALSE]

Overtaken == [Calm EXCEPT !.turn = FourInTurn, !.targets = {{r1, r2}}, !.names = 1]
Reclaimed == [Calm EXCEPT !.turn = ThreeInTurn, !.names = 1, !.purgeable = {repoA}, !.rounds = 1]
Targeted == [Calm EXCEPT !.names = 1, !.targets = Either, !.purgeable = {repoA}, !.damage = 1]
Pressed == [Calm EXCEPT !.high_watermark_bytes = 3, !.faults = TRUE, !.rounds = 1]
Repaired == [Calm EXCEPT !.high_watermark_bytes = 3, !.names = 1, !.targets = Either,
                         !.faults = TRUE]
Damaged == [Calm EXCEPT !.names = 1, !.targets = Either, !.damage = 1, !.rounds = 1]
Racing == [Calm EXCEPT !.turn = AtOnce, !.purgeable = {repoA}, !.rounds = 1, !.restarts = 1]
Served == [Calm EXCEPT !.faults = TRUE, !.rounds = 1, !.fair = TRUE]

MCScenarios == {Overtaken, Reclaimed, Targeted, Pressed, Repaired, Damaged, Racing, Served}
=============================================================================

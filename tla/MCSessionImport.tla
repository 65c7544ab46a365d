-------------------------- MODULE MCSessionImport --------------------------
(* Instances of SessionImport for TLC.                                       *)
EXTENDS SessionImport

CONSTANTS p, q
MCPayloads == {p, q}
MCWidth == [v \in {p, q} |-> IF v = p THEN 1 ELSE 2]

Anywhere == {"Repository", "Ambiguous"}

\* A growing file; a file first seen live; replaced files; a growing file with
\* unsupported records, requested and revoked several times.
MCScenarios ==
    {[acts |-> {"append", "crash", "revoke", "trust", "requeue"}, kinds |-> Anywhere,
      bad |-> {}, bytes |-> 4, versions |-> 1, mixed |-> FALSE, left |-> 2],
     [acts |-> {"append", "crash", "revoke", "requeue", "origin", "instance"},
      kinds |-> Anywhere, bad |-> {}, bytes |-> 3, versions |-> 1, mixed |-> FALSE, left |-> 2],
     [acts |-> {"append", "longer", "rewrite", "conflict", "purge"}, kinds |-> Anywhere,
      bad |-> {}, bytes |-> 3, versions |-> 2, mixed |-> FALSE, left |-> 2],
     [acts |-> {"append", "crash", "revoke"}, kinds |-> Anywhere,
      bad |-> {q}, bytes |-> 3, versions |-> 1, mixed |-> FALSE, left |-> 4]}
=============================================================================

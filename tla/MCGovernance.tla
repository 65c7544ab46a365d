---------------------------- MODULE MCGovernance ----------------------------
(* Small instances of Governance: two creations, a replacement, a merge.      *)
EXTENDS Governance, TLC

MCTargetOf == [p \in Replaces |-> "a"] @@ [p \in Merges |-> "a"]
MCMerged == [p \in Merges |-> {"a", "b"}]
\* The creation "c" repeats atom "b".
MCCopies == [p \in Creates |-> IF p = "c" THEN {"b"} ELSE {}]

\* A creation and a replacement; two proposals for one atom; creations while an
\* object is forgotten; a refusing spool.
MCScenarios ==
    {[props |-> {"c", "x"}, decisions |-> {"accept", "edit", "reject"},
      req |-> 2, other |-> 1, forget |-> 0, crash |-> 1, busy |-> 0],
     [props |-> {"x", "m"}, decisions |-> {"accept", "merge", "defer"},
      req |-> 2, other |-> 1, forget |-> 1, crash |-> 0, busy |-> 0],
     [props |-> {"c", "d"}, decisions |-> {"accept", "reauthorize"},
      req |-> 2, other |-> 0, forget |-> 1, crash |-> 1, busy |-> 0],
     [props |-> {"c"}, decisions |-> {"accept", "edit"},
      req |-> 2, other |-> 1, forget |-> 0, crash |-> 1, busy |-> 1]}
=============================================================================

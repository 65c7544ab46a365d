----------------------------- MODULE MCMemory -----------------------------
(* Small instances of Memory.  Reminders: two hooks race for a cue, the lane *)
(* moves on under a hook, two requests ask for what is due.  Methods: work   *)
(* around a return and siblings, usage under quarantine and dismissal,       *)
(* promotion of a cohort under suspicion, harm, deletion and replacement.    *)
EXTENDS Memory, TLC
CONSTANTS h1, h2, d1, d2, q1, q2

NoReminders == [hooks |-> {}, requests |-> {}, boundaries |-> 1, truths |-> {}, changes |-> 0, needs |-> 0,
                attempts |-> 0, faults |-> 0, crashes |-> 0]
Quiescent == [NoReminders EXCEPT !.needs = 1, !.attempts = 1]
Restarts == [NoReminders EXCEPT !.crashes = 1]
MCScenarios ==
    {NoReminders, Restarts,
     [Quiescent EXCEPT !.hooks = {h1, h2}],
     [Quiescent EXCEPT !.hooks = {h1}, !.crashes = 1],
     [Quiescent EXCEPT !.hooks = {h1}, !.attempts = 2],
     [Quiescent EXCEPT !.hooks = {h1}, !.faults = 1],
     [Quiescent EXCEPT !.hooks = {h1}, !.boundaries = 2, !.truths = {"resolve"}],
     [Quiescent EXCEPT !.requests = {d1}, !.boundaries = 2, !.truths = {"match", "unknown"},
                       !.needs = 2],
     [Quiescent EXCEPT !.requests = {d1, d2}, !.changes = 1, !.needs = 2],
     [Quiescent EXCEPT !.requests = {d1, d2}, !.faults = 1, !.crashes = 1]}

\* Five tasks: the first three independent, the fourth shares a request with the first, the
\* fifth is split from another.  The first two use the method in contexts of their own.
MCRoots == <<{1}, {2}, {3}, {1, 4}, {5}>>
MCContext == <<1, 2, 1, 1, 2>>

Each(k) == [t \in Tasks |-> k]
NoMethods == [tasks |-> {}, proven |-> {}, queries |-> 0, attempts |-> {}, results |-> Each(0),
              negatives |-> 0, deletions |-> 0, revs |-> 1, faults |-> 0, localizable |-> FALSE]
Used == [NoMethods EXCEPT !.tasks = {3}, !.proven = {1, 2}, !.queries = 1, !.attempts = {1, 2}, !.results = Each(1)]
Asked == [Used EXCEPT !.queries = 2, !.attempts = {1}]
Doubted == [NoMethods EXCEPT !.tasks = {3}, !.proven = {1}, !.queries = 1, !.attempts = {1},
                             !.results = Each(2), !.negatives = 1, !.faults = 1]
Promoted == [NoMethods EXCEPT !.tasks = {1}, !.proven = 1 .. 5, !.results = Each(3), !.negatives = 2,
                              !.localizable = TRUE, !.faults = 1]
Harmed == [NoMethods EXCEPT !.tasks = {1, 2}, !.proven = {1, 2}, !.results = Each(3), !.negatives = 2,
                            !.localizable = TRUE]
Revised == [NoMethods EXCEPT !.tasks = {1}, !.proven = {1}, !.queries = 1, !.attempts = {1},
                              !.results = Each(2), !.negatives = 1, !.revs = 2]
Waits == [NoMethods EXCEPT !.tasks = {1, 3}, !.proven = {1}, !.queries = 1, !.attempts = {1},
                           !.results = [t \in Tasks |-> IF t = 1 THEN 3 ELSE 1], !.negatives = 1]
MCMethods ==
    {NoMethods, Used, Asked, Doubted, Promoted, Harmed, Revised, Waits,
     [Doubted EXCEPT !.localizable = TRUE], [Harmed EXCEPT !.results = Each(2), !.localizable = FALSE],
     [Used EXCEPT !.attempts = {1}, !.deletions = 1, !.faults = 1],
     [NoMethods EXCEPT !.proven = {1, 2, 4, 5}]}

MCTogether ==
    {[recall |-> r, methods |-> NoMethods] : r \in MCScenarios}
    \cup {[recall |-> NoReminders, methods |-> a] : a \in MCMethods}
    \cup {[recall |-> Restarts, methods |-> a] : a \in {Asked}}
===========================================================================

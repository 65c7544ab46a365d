--------------------------- MODULE MCJobScheduler ---------------------------
(* One target of each kind; the scenarios let some of them receive input.     *)
EXTENDS JobScheduler

MCClosures == {"closure"}
MCCaptures == {"capture"}
MCUsages == {"usage"}
MCProjections == {"projection"}
MCArtifacts == {"artifact"}

MCScenarios ==
  { [acts |-> {"closure", "capture"}, gens |-> 1, left |-> 2],
    [acts |-> {"closure"}, gens |-> 2, left |-> 2],
    [acts |-> {"capture", "reload"}, gens |-> 2, left |-> 2],
    [acts |-> {"usage", "projection", "reload"}, gens |-> 1, left |-> 2],
    [acts |-> {"closure", "usage", "reload"}, gens |-> 1, left |-> 2],
    [acts |-> {"artifact"}, gens |-> 1, left |-> 3],
    [acts |-> {"artifact", "reload"}, gens |-> 0, left |-> 3] }
=============================================================================

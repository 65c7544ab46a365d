---------------------------- MODULE MCSynthesis ----------------------------
(* Instances of Synthesis for TLC.                                           *)
EXTENDS Synthesis

CONSTANTS A, B

\* A source whose messages, permission and configuration change; sources at their
\* budget of calls; an episode that grows and closes; both at one call a day.
MCScenes ==
    {[acts |-> {"messages", "suppress", "permit"}, configs |-> {A, B}, messages |-> 2,
      growth |-> 0, segment |-> 2, calls |-> 3, enrichments |-> 1, left |-> 2],
     [acts |-> {"messages", "quota"}, configs |-> {A}, messages |-> 1,
      growth |-> 0, segment |-> 1, calls |-> 2, enrichments |-> 1, left |-> 4],
     [acts |-> {"messages"}, configs |-> {A, B}, messages |-> 1,
      growth |-> 0, segment |-> 1, calls |-> 3, enrichments |-> 1, left |-> 4],
     [acts |-> {"messages", "quota"}, configs |-> {A}, messages |-> 2,
      growth |-> 0, segment |-> 1, calls |-> 2, enrichments |-> 1, left |-> 3],
     [acts |-> {"episode", "permit", "quota"}, configs |-> {A}, messages |-> 0,
      growth |-> 3, segment |-> 1, calls |-> 2, enrichments |-> 2, left |-> 2],
     [acts |-> {"messages", "episode", "suppress"}, configs |-> {A}, messages |-> 1,
      growth |-> 1, segment |-> 1, calls |-> 1, enrichments |-> 2, left |-> 2]}
=============================================================================

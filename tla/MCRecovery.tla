----------------------------- MODULE MCRecovery ------------------------------
(* Small instances of Recovery: editors around a capture, repeated          *)
(* deliveries, repeated calls, two applications, and the barrier together     *)
(* with the applications on one fence.                                        *)
EXTENDS Recovery, TLC
CONSTANTS r1, x1, x2, a1, a2, c1, c2

NoCapture == [requests |-> {}, handlers |-> {}, edit |-> 0, other |-> 0, fault |-> 0,
              extra |-> 0, crash |-> 1]
OneCapture == [NoCapture EXCEPT !.requests = {r1}, !.handlers = {x1}]
NoApply == [requests |-> {}, callers |-> {}, call |-> 0, edit |-> 0, fault |-> 0,
            quiesce |-> 0, crash |-> 1]
OneApply == [NoApply EXCEPT !.requests = {a1}, !.callers = {c1}, !.call = 1]
Alone(b) == [barrier |-> b, application |-> NoApply]
Only(a) == [barrier |-> NoCapture, application |-> a]

MCScenarios ==
    {Alone([OneCapture EXCEPT !.edit = 2, !.crash = 0]),
     Alone([OneCapture EXCEPT !.edit = 1, !.fault = 1, !.crash = 0]),
     Alone([OneCapture EXCEPT !.other = 2, !.fault = 1]),
     Alone([OneCapture EXCEPT !.other = 1, !.extra = 1]),
     Alone([OneCapture EXCEPT !.handlers = {x1, x2}, !.extra = 1, !.crash = 0]),
     Only([OneApply EXCEPT !.callers = {c1, c2}, !.call = 2, !.edit = 1, !.fault = 1]),
     Only([OneApply EXCEPT !.callers = {c1, c2}, !.call = 3, !.fault = 1]),
     Only([OneApply EXCEPT !.requests = {a1, a2}, !.callers = {c1, c2}, !.call = 2,
                           !.quiesce = 1, !.crash = 0]),
     [barrier |-> [OneCapture EXCEPT !.crash = 0],
      application |-> [OneApply EXCEPT !.crash = 0]]}
=============================================================================

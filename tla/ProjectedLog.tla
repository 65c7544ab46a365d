---------------------------- MODULE ProjectedLog ----------------------------
(***************************************************************************)
(* What the journal writer promises its clients: an append-only log with   *)
(* at most one command per id, acknowledgements of durable commands only,  *)
(* and answers that are the fold of the whole log at the time of the       *)
(* answer.  Which caches, deltas and restarts lie behind is not visible.   *)
(***************************************************************************)
EXTENDS CommandFold

VARIABLES
  log,     \* committed commands
  acked,   \* commands some submitter was told are committed
  answer   \* the last projection handed to a client

vars == <<log, acked, answer>>

Init ==
  /\ log = <<>> /\ acked = {}
  /\ answer = [frontier |-> 0, rows |-> {}]

\* The submitter learns of the commit, or not (an uncertain outcome).
Commit(c) ==
  /\ \A d \in All(log) : IdOf[d] # IdOf[c]
  /\ Admissible(c, All(log))
  /\ log' = Append(log, c)
  /\ acked' \in {acked, acked \cup {c}}
  /\ UNCHANGED answer

\* A retry of a committed command is acknowledged again, never appended.
Acknowledge(c) ==
  /\ c \in All(log)
  /\ acked' = acked \cup {c}
  /\ UNCHANGED <<log, answer>>

Answer ==
  /\ answer' = [frontier |-> Len(log), rows |-> Shown(All(log))]
  /\ UNCHANGED <<log, acked>>

Next == Answer \/ \E c \in Commands : Commit(c) \/ Acknowledge(c)

Spec == Init /\ [][Next]_vars
=============================================================================

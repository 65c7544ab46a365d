---------------------------- MODULE CommandFold ----------------------------
(***************************************************************************)
(* Journal commands and what a projection of them shows.  A command stands *)
(* for its complete block of journal rows and for the object rows it gives *)
(* rise to.  Deletion ledgers and scope purges hide the rows of other      *)
(* commands (evertrace-store/src/projections.rs, filter_product_rows).     *)
(***************************************************************************)
EXTENDS Naturals, Sequences

CONSTANTS
  Commands,
  Ids,       \* command ids
  IdOf,      \* two commands with one id differ in their hash
  Captures,  \* closed captures: receipt, observation, watermark, surface
  Ledgers,   \* object deletions and scope purges
  Hides      \* the commands whose rows each ledger hides

ASSUME CommandAssumption ==
  /\ IdOf \in [Commands -> Ids]
  /\ Captures \subseteq Commands /\ Ledgers \subseteq Commands
  /\ Captures \cap Ledgers = {}
  /\ Hides \in [Ledgers -> SUBSET (Commands \ Ledgers)]

\* The commands of the journal up to a frontier.
UpTo(log, n) == {log[i] : i \in {j \in DOMAIN log : j <= n}}
All(log) == UpTo(log, Len(log))
Since(log, n) == {log[i] : i \in {j \in DOMAIN log : j > n}}

Hidden(commands) == UNION {Hides[l] : l \in commands \cap Ledgers}

Shown(commands) == commands \ Hidden(commands)

\* validate_command: nothing is recorded that a ledger already hides.
Admissible(c, commands) == c \notin Hidden(commands)
=============================================================================

-------------------------- MODULE MCJournalWriter --------------------------
(* Two captures, a second command with the id of one of them, a planned      *)
(* command of another kind and a ledger that hides a capture and the plan.   *)
EXTENDS JournalWriter

CONSTANTS c1, c2, c2x, plan, ledger, id1, id2, id3, id4

MCIdOf == [c \in Commands |->
            CASE c = c1 -> id1 [] c \in {c2, c2x} -> id2 [] c = plan -> id3 [] OTHER -> id4]
MCHides == [l \in Ledgers |-> {c1, plan} \cap Commands]
=============================================================================

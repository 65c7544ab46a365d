SPECIFICATION FairSpec
CONSTANTS
  c1 = c1
  c2 = c2
  c2x = c2x
  plan = plan
  ledger = ledger
  id1 = id1
  id2 = id2
  id3 = id3
  id4 = id4
  Commands = {c1, c2, plan, ledger}
  Ids = {id1, id2, id3, id4}
  IdOf <- MCIdOf
  Captures = {c1, c2}
  Ledgers = {ledger}
  Hides <- MCHides
  Planned = {plan}
  Large = {c2}
  MaxFailures = 2
INVARIANTS WriterInv ProjectionsExact
PROPERTIES PlansFresh ImplementsLog IndexesCatchUp

---------------------------- MODULE MemoryProofs ----------------------------
(* Machine-checked proofs about the reminders and the learnt methods of one    *)
(* daemon, for every number of hooks, requests, contracts and needs, every set *)
(* of tasks, searches and scenarios and every number of revisions.  A step of  *)
(* either part leaves the other's state alone; only a crash is a step of both. *)
EXTENDS Memory, FiniteSetTheorems, TLAPS

-----------------------------------------------------------------------------
(* Reminders: the inductive invariant.                                        *)

Deliveries == Open \cup {"Claimed", "Emitted", "PresentationUnknown"}
Need == [no : Nat, plan : SUBSET Contracts, obligation : Obligations, delivery : Deliveries,
         active : Nat, last : Nat, late : BOOLEAN,
         response : {"NotRetrieved", "Claimed", "Returned", "Unknown"},
         request : Requests \cup {"none"}]
Cues == [attempt : Nat \ {0}, hash : [no : Nat, plan : SUBSET Contracts], gen : Nat] \cup {NoCue}
HookState == [srv : {"idle", "ask", "checked", "granted", "report"}, alive : BOOLEAN, cue : Cues,
              outcome : {"none", "Emitted", "FailedPreEmit", "PresentationUnknown"}]
Worker == [pc : {"idle", "read", "cues", "publish"}, adv : 0 .. 2, tries : {0, 1}, start : BOOLEAN,
           cue : Cues, next : Cues]
Counters == [changes : Nat, attempts : Nat, faults : Nat, crashes : Nat, gen : Nat, max : Scenarios]

Typed ==
    /\ boundary.no \in Nat /\ boundary.no <= n.max.boundaries /\ present \subseteq Contracts
    /\ needs \in Seq(Need) /\ Len(needs) <= MaxNeeds
    /\ attempts \subseteq [attempt : Nat \ {0}, need : Nat, at : Nat]
    /\ published \in Cues /\ worker \in Worker /\ hook \in [Hooks -> HookState]
    /\ shown \in [1 .. MaxNeeds -> Nat] /\ told \subseteq [need : Nat, request : Requests]
    /\ n \in Counters

\* At most one need is active.
Alone == \A i, j \in ActiveNeeds : i = j

\* Attempts are claimed once, for a need of the checkpoint of that moment; the attempt a
\* need carries was claimed for it.
Linked ==
    /\ \A p \in attempts : p.need \in DOMAIN needs /\ needs[p.need].no = p.at
    /\ \A p, q \in attempts : p.attempt = q.attempt => p = q
    /\ \A i \in DOMAIN needs : needs[i].active # 0 =>
           \E p \in attempts : p.attempt = needs[i].active /\ p.need = i

\* A need carries an attempt exactly when it is not open, and a request exactly when it
\* has been asked for.
Carried ==
    \A i \in DOMAIN needs : /\ (needs[i].active # 0) = (needs[i].delivery \notin Open)
                            /\ (needs[i].request # "none") = (needs[i].response # "NotRetrieved")

\* A hook that may show, or has an outcome to report, is the only one with its attempt;
\* its need still carries the attempt, and was shown exactly if the hook knows it.
Holding(h) == hook[h].srv \in {"granted", "report"}
Wrote(h) == hook[h].srv = "report" /\ hook[h].outcome # "FailedPreEmit"
Held ==
    /\ \A h \in Hooks : /\ hook[h].srv # "idle" => hook[h].cue.attempt \in Nat \ {0}
                        /\ hook[h].srv = "report" => hook[h].outcome # "none"
                        /\ Holding(h) => \E p \in attempts :
                              /\ p.attempt = hook[h].cue.attempt /\ needs[p.need].active = p.attempt
                              /\ shown[p.need] = IF Wrote(h) THEN 1 ELSE 0
    /\ \A g, h \in Hooks : Holding(g) /\ Holding(h) /\ hook[g].cue.attempt = hook[h].cue.attempt => g = h

\* An open need was not shown, an emitted one was.
Counted ==
    /\ \A i \in 1 .. MaxNeeds : shown[i] \in {0, 1} /\ (i \notin DOMAIN needs => shown[i] = 0)
    /\ \A i \in DOMAIN needs : /\ needs[i].delivery \in Open => shown[i] = 0
                               /\ needs[i].delivery = "Emitted" => shown[i] = 1

\* A need whose text was returned is recorded as returned.
Answered ==
    /\ \A p \in told : p.need \in DOMAIN needs /\ needs[p.need].response = "Returned"
    /\ ToldOnce

RInv == Typed /\ Alone /\ Linked /\ Carried /\ Held /\ Counted /\ Answered

-----------------------------------------------------------------------------
(* Contracts, needs and verdicts.                                             *)

LEMMA Least ==
  ASSUME NEW S \in SUBSET Nat, S # {}
  PROVE  \E k \in S : \A j \in S : k <= j
<1>1. PICK k \in S : \A j \in S : ~(<<j, k>> \in OpToRel(<, Nat))
  BY NatLessThanWellFounded, WFMin
<1>2. \A j \in S : ~(j < k)
  BY <1>1 DEF OpToRel
<1> QED
  BY <1>2

\* Some of the contracts have a last one.
LEMMA LastIsOne ==
  ASSUME NEW S \in SUBSET Contracts, S # {}
  PROVE  LastOf(S) \in S
<1>1. PICK N \in Contracts : \A j \in Contracts : N >= j
  BY RecallAssumption
<1>2. S \subseteq Nat /\ N \in Nat /\ \A j \in S : j <= N
  BY <1>1, RecallAssumption
<1> DEFINE T == {x \in Nat : N - x \in S}
<1>3. PICK s \in S : s <= N /\ s \in Nat
  BY <1>2
<1>4. N - s \in T /\ T \in SUBSET Nat
  BY <1>2, <1>3
<1>5. PICK d \in T : \A e \in T : d <= e
  BY <1>4, Least
<1>6. N - d \in S /\ d \in Nat
  BY <1>5
<1>7. ASSUME NEW j \in S PROVE N - d >= j
  <2>1. N - j \in Nat /\ N - (N - j) = j /\ j \in Nat
    BY <1>2
  <2>2. N - j \in T
    BY <2>1
  <2>3. d <= N - j
    BY <1>5, <2>2
  <2> HIDE DEF T
  <2> QED
    BY <1>2, <1>6, <2>1, <2>3
<1> HIDE DEF T
<1> QED
  BY <1>6, <1>7 DEF LastOf

\* What the current checkpoint says of a need (validate_need_against_current).
LEMMA Verdict ==
  ASSUME NEW need
  PROVE  /\ validate_need_against_current(need) \in
                {"Valid", "Resolved", "Canceled", "Superseded", "Unavailable"}
         /\ need.no # boundary.no => validate_need_against_current(need) = "Superseded"
<1>1. \A c : Terminal(c) \in {"Resolved", "Canceled", "Superseded", "Unavailable"}
  BY DEF Terminal
<1> QED
  BY <1>1 DEF validate_need_against_current

\* What a need may become without losing its attempt, its request or its standing.
Gentle(old, new) ==
    /\ new \in Need /\ new.no = old.no /\ new.active = old.active
    /\ new.response = old.response /\ new.request = old.request
    /\ \/ new.delivery = old.delivery
       \/ old.delivery = "Claimed" /\ new.delivery = "PresentationUnknown"
    /\ new.obligation = "Active" => old.obligation = "Active"

\* A worker's pass over one need (Retired): gentle, and one of another checkpoint ends.
LEMMA PassGentle ==
  ASSUME NEW need \in Need
  PROVE  /\ Gentle(need, Pass(need))
         /\ need.obligation = "Active" /\ Pass(need).obligation = "Active" => need.no = boundary.no
<1> DEFINE v == validate_need_against_current(need)
<1>1. /\ v \in {"Valid", "Resolved", "Canceled", "Superseded", "Unavailable"}
      /\ need.no # boundary.no => v = "Superseded"
  BY Verdict
<1> HIDE DEF v
<1>2. Gentle(need, need)
  BY DEF Gentle
<1>3. CASE need.obligation # "Active"
  BY <1>2, <1>3 DEF Pass
<1>4. CASE need.obligation = "Active" /\ v \in Obligations
  <2>1. Pass(need) = [need EXCEPT !.obligation = v] /\ v # "Active"
    BY <1>1, <1>4 DEF Pass, Retired, v
  <2>2. /\ [need EXCEPT !.obligation = v] \in Need /\ [need EXCEPT !.obligation = v].obligation = v
        /\ Gentle(need, [need EXCEPT !.obligation = v])
    BY <1>4, <2>1 DEF Need, Gentle
  <2> QED
    BY <2>1, <2>2
<1>5. CASE need.obligation = "Active" /\ v \notin Obligations
  <2>1. need.no = boundary.no
    BY <1>1, <1>5 DEF Obligations
  <2>2. \/ Pass(need) = need
        \/ Pass(need) = [need EXCEPT !.late = FALSE]
        \/ need.delivery = "Claimed" /\ Pass(need) = [need EXCEPT !.delivery = "PresentationUnknown"]
    BY <1>5 DEF Pass, Retired, v
  <2>3. Gentle(need, [need EXCEPT !.late = FALSE])
    BY DEF Need, Gentle
  <2>4. need.delivery = "Claimed" => Gentle(need, [need EXCEPT !.delivery = "PresentationUnknown"])
    BY DEF Need, Gentle, Deliveries
  <2> QED
    BY <1>2, <2>1, <2>2, <2>3, <2>4
<1> QED
  BY <1>3, <1>4, <1>5

\* The order of two sequences of needs: gentle changes, and new needs at the end.
Follows(old, new) ==
    /\ new \in Seq(Need) /\ Len(old) <= Len(new)
    /\ \A i \in DOMAIN old : Gentle(old[i], new[i])
    /\ \A i \in DOMAIN new : i \notin DOMAIN old =>
           /\ new[i].active = 0 /\ new[i].delivery = "Detected"
           /\ new[i].response = "NotRetrieved" /\ new[i].request = "none"

LEMMA PassFollows ==
  ASSUME Typed
  PROVE  LET after == [i \in DOMAIN needs |-> Pass(needs[i])] IN
         Follows(needs, after) /\ Len(after) = Len(needs)
<1> DEFINE after == [i \in DOMAIN needs |-> Pass(needs[i])]
<1>1. needs \in Seq(Need) /\ DOMAIN needs = 1 .. Len(needs) /\ Len(needs) \in Nat
  BY DEF Typed
<1>2. \A i \in DOMAIN needs : Gentle(needs[i], Pass(needs[i])) /\ Pass(needs[i]) \in Need
  BY <1>1, PassGentle DEF Gentle
<1>3. after \in [1 .. Len(needs) -> Need]
  BY <1>1, <1>2
<1>4. after \in Seq(Need) /\ Len(after) = Len(needs) /\ DOMAIN after = DOMAIN needs
  BY <1>1, <1>3
<1>5. \A i \in DOMAIN needs : after[i] = Pass(needs[i])
  OBVIOUS
<1> HIDE DEF after
<1>6. Follows(needs, after)
  BY <1>1, <1>2, <1>4, <1>5 DEF Follows
<1> QED
  BY <1>4, <1>6 DEF after

\* Needs at work in a sequence of needs.
Works(ns) == {i \in DOMAIN ns : ns[i].obligation = "Active"}

\* Detection adds a need only where none is at work at the checkpoint, and changes one
\* gently (detect_current_context).
LEMMA DetectFollows ==
  ASSUME Typed, NEW ns \in Seq(Need),
         \A i, j \in Works(ns) : i = j, \A i \in Works(ns) : ns[i].no = boundary.no
  PROVE  LET new == detect_current_context(ns) IN
         Follows(ns, new) /\ \A i, j \in Works(new) : i = j
<1> DEFINE new == detect_current_context(ns)
           here == {i \in DOMAIN ns : ns[i].obligation = "Active" /\ ns[i].no = boundary.no}
           ended(need) == {k \in need.plan : evaluate(k) \in {"resolve", "suppress"}}
<1>1. here = Works(ns)
  BY DEF Works
<1>2. \A i \in DOMAIN ns : ns[i] \in Need /\ Gentle(ns[i], ns[i])
  BY DEF Gentle
<1>3. DOMAIN ns = 1 .. Len(ns) /\ Len(ns) \in Nat
  OBVIOUS
<1>4. Follows(ns, ns)
  BY <1>2, <1>3 DEF Follows
<1>5. CASE new = ns
  BY <1>4, <1>5 DEF Works
<1>6. CASE here = {} /\ new # ns
  <2>1. new = Append(ns, NewNeed)
    BY <1>6 DEF detect_current_context
  <2>2. NewNeed \in Need
    BY DEF NewNeed, Need, Typed, Plan, Obligations, Deliveries, Open
  <2>3. /\ new \in Seq(Need) /\ Len(new) = Len(ns) + 1 /\ DOMAIN new = 1 .. Len(ns) + 1
        /\ \A i \in 1 .. Len(ns) : new[i] = ns[i]
        /\ new[Len(ns) + 1] = NewNeed
    BY <2>1, <2>2
  <2> HIDE DEF new
  <2>4. \A i \in DOMAIN new : i \notin DOMAIN ns => i = Len(ns) + 1
    BY <1>3, <2>3
  <2>5. Follows(ns, new)
    BY <1>2, <1>3, <2>3, <2>4 DEF Follows, NewNeed
  <2>6. \A i \in Works(new) : i = Len(ns) + 1
    BY <1>1, <1>3, <1>6, <2>3, <2>4 DEF Works
  <2> QED
    BY <2>5, <2>6 DEF new
<1>7. CASE here # {} /\ new # ns
  <2> DEFINE i == FirstOf(here)
  <2>1. i \in here
    <3>1. here \in SUBSET Nat
      BY <1>3
    <3> HIDE DEF here
    <3>2. \E k \in here : \A j \in here : k <= j
      BY <1>7, <3>1, Least
    <3> QED
      BY <3>2 DEF FirstOf
  <2> HIDE DEF i
  <2>2. PICK x \in Need : /\ new = [ns EXCEPT ![i] = x] /\ Gentle(ns[i], x)
    <3>1. CASE ended(ns[i]) # {}
      <4> DEFINE to == Terminal(evaluate(LastOf(ended(ns[i]))))
      <4>1. new = [ns EXCEPT ![i] = [ns[i] EXCEPT !.obligation = to]]
        BY <1>7, <3>1 DEF detect_current_context, i
      <4>2. to \in {"Resolved", "Canceled"}
        <5>1. ended(ns[i]) \in SUBSET Contracts
          BY <1>2, <2>1 DEF Need
        <5>2. LastOf(ended(ns[i])) \in ended(ns[i])
          BY <3>1, <5>1, LastIsOne
        <5>3. evaluate(LastOf(ended(ns[i]))) \in {"resolve", "suppress"}
          BY <5>2
        <5> QED
          BY <5>3 DEF Terminal
      <4> HIDE DEF to
      <4>3. \A y \in Need : [y EXCEPT !.obligation = to] \in Need /\ Gentle(y, [y EXCEPT !.obligation = to])
        BY <4>2 DEF Need, Gentle, Obligations
      <4> QED
        BY <1>2, <2>1, <4>1, <4>3
    <3>2. CASE ended(ns[i]) = {}
      <4>1. new = [ns EXCEPT ![i] = [ns[i] EXCEPT !.plan = Plan]]
        BY <1>7, <3>2 DEF detect_current_context, i
      <4>2. Plan \in SUBSET Contracts
        BY DEF Plan
      <4>3. \A y \in Need : [y EXCEPT !.plan = Plan] \in Need /\ Gentle(y, [y EXCEPT !.plan = Plan])
        BY <4>2 DEF Need, Gentle
      <4> QED
        BY <1>2, <2>1, <4>1, <4>3
    <3> QED
      BY <3>1, <3>2
  <2>3. i \in DOMAIN ns /\ i \in Works(ns)
    BY <1>1, <2>1
  <2>4. /\ new \in Seq(Need) /\ Len(new) = Len(ns) /\ DOMAIN new = DOMAIN ns
        /\ \A j \in DOMAIN ns : new[j] = IF j = i THEN x ELSE ns[j]
    BY <2>2, <2>3
  <2> HIDE DEF new
  <2>5. Follows(ns, new)
    BY <1>2, <1>3, <2>2, <2>4 DEF Follows
  <2>6. Works(new) \subseteq Works(ns)
    BY <2>2, <2>3, <2>4 DEF Works, Gentle
  <2> QED
    BY <2>5, <2>6 DEF new
<1> QED
  BY <1>5, <1>6, <1>7

\* A committed batch of the worker (Batch).
LEMMA BatchFollows ==
  ASSUME Typed, Alone
  PROVE  Follows(needs, Batch) /\ \A i, j \in Works(Batch) : i = j
<1> DEFINE after == [i \in DOMAIN needs |-> Pass(needs[i])]
<1>1. Follows(needs, after) /\ Len(after) = Len(needs) /\ after \in Seq(Need)
  BY PassFollows DEF Follows
<1>2. DOMAIN after = DOMAIN needs /\ \A i \in DOMAIN needs : after[i] = Pass(needs[i])
  OBVIOUS
<1>3. needs \in Seq(Need) /\ \A i \in DOMAIN needs : needs[i] \in Need
  BY DEF Typed
<1>4. Works(after) \subseteq ActiveNeeds
  BY <1>1, <1>2 DEF Works, ActiveNeeds, Follows, Gentle
<1>5. \A i, j \in Works(after) : i = j
  BY <1>4 DEF Alone
<1>6. CASE \E i \in DOMAIN needs : Postpones(needs[i], after[i])
  <2>1. Batch = after
    BY <1>6 DEF Batch
  <2> QED
    BY <1>1, <1>5, <2>1
<1>7. CASE ~\E i \in DOMAIN needs : Postpones(needs[i], after[i])
  <2>1. Batch = detect_current_context(after)
    BY <1>7 DEF Batch
  <2>2. \A i \in Works(after) : after[i].no = boundary.no
    <3> SUFFICES ASSUME NEW i \in Works(after) PROVE after[i].no = boundary.no
      OBVIOUS
    <3>1. i \in DOMAIN needs /\ needs[i].obligation = "Active" /\ after[i] = Pass(needs[i])
      BY <1>2, <1>4 DEF ActiveNeeds, Works
    <3>2. Pass(needs[i]).obligation = "Active"
      BY <3>1 DEF Works
    <3> QED
      BY <1>3, <3>1, <3>2, PassGentle DEF Gentle
  <2> HIDE DEF after
  <2>3. /\ Follows(after, Batch)
        /\ \A i, j \in Works(Batch) : i = j
    BY <1>1, <1>5, <2>1, <2>2, DetectFollows
  <2>4. Follows(needs, Batch)
    <3>1. /\ Batch \in Seq(Need) /\ Len(needs) \in Nat /\ Len(after) \in Nat /\ Len(Batch) \in Nat
          /\ DOMAIN needs = 1 .. Len(needs) /\ DOMAIN Batch = 1 .. Len(Batch)
      BY <1>1, <1>3, <2>3 DEF Follows
    <3>2. ASSUME NEW i \in DOMAIN needs PROVE Gentle(needs[i], Batch[i])
      BY <1>1, <1>2, <2>3 DEF Follows, Gentle
    <3> QED
      BY <1>1, <1>2, <2>3, <3>1, <3>2 DEF Follows
  <2> QED
    BY <2>3, <2>4
<1> QED
  BY <1>6, <1>7

\* One gentle change.
LEMMA OneGentle ==
  ASSUME needs \in Seq(Need), NEW i \in DOMAIN needs, NEW x \in Need, Gentle(needs[i], x),
         needs' = [needs EXCEPT ![i] = x]
  PROVE  Follows(needs, needs') /\ Len(needs') = Len(needs) /\ Works(needs') \subseteq ActiveNeeds
<1>1. /\ needs' \in Seq(Need) /\ Len(needs') = Len(needs) /\ Len(needs) \in Nat /\ DOMAIN needs' = DOMAIN needs
      /\ \A j \in DOMAIN needs : needs[j] \in Need /\ needs'[j] = IF j = i THEN x ELSE needs[j]
  OBVIOUS
<1>2. \A j \in DOMAIN needs : Gentle(needs[j], needs'[j])
  BY <1>1 DEF Gentle
<1> QED
  BY <1>1, <1>2 DEF Follows, Works, ActiveNeeds, Gentle

-----------------------------------------------------------------------------
(* Steps.                                                                     *)

\* The part of the invariant that is about needs, attempts and hooks.
Ledger == Alone /\ Linked /\ Carried /\ Held /\ Counted /\ Answered

\* Gentle changes and new needs keep it.
LEMMA GentleStep ==
  ASSUME RInv, Follows(needs, needs'), Len(needs') <= MaxNeeds, \A i, j \in Works(needs') : i = j,
         UNCHANGED <<attempts, hook, shown, told>>
  PROVE  Ledger'
<1>1. /\ needs \in Seq(Need) /\ needs' \in Seq(Need) /\ DOMAIN needs \subseteq DOMAIN needs'
      /\ \A i \in DOMAIN needs : needs[i] \in Need /\ needs'[i] \in Need /\ Gentle(needs[i], needs'[i])
  <2>1. needs \in Seq(Need) /\ needs' \in Seq(Need) /\ Len(needs) <= Len(needs')
    BY DEF RInv, Typed, Follows
  <2>2. DOMAIN needs = 1 .. Len(needs) /\ DOMAIN needs' = 1 .. Len(needs') /\ Len(needs) \in Nat /\ Len(needs') \in Nat
    BY <2>1
  <2> QED
    BY <2>1, <2>2 DEF Follows
<1>2. \A i \in DOMAIN needs' : i \notin DOMAIN needs =>
           /\ needs'[i].active = 0 /\ needs'[i].delivery = "Detected"
           /\ needs'[i].response = "NotRetrieved" /\ needs'[i].request = "none"
  BY DEF Follows
<1>3. Alone'
  BY DEF Alone, ActiveNeeds, Works
<1>4. Linked'
  BY <1>1, <1>2 DEF RInv, Linked, Gentle
<1>5. Carried'
  BY <1>1, <1>2 DEF RInv, Carried, Gentle, Open
<1>6. Held'
  <2>1. \A p \in attempts : p.need \in DOMAIN needs /\ needs'[p.need].active = needs[p.need].active
    BY <1>1 DEF RInv, Linked, Gentle
  <2> QED
    BY <2>1 DEF RInv, Held, Holding, Wrote
<1>7. Counted'
  <2>1. Len(needs') \in Nat /\ DOMAIN needs' = 1 .. Len(needs') /\ MaxNeeds \in Nat
    BY <1>1, RecallAssumption
  <2>2. \A i \in DOMAIN needs' : i \notin DOMAIN needs => shown[i] = 0
    BY <2>1 DEF RInv, Counted
  <2>3. \A i \in DOMAIN needs : /\ needs'[i].delivery \in Open => needs[i].delivery \in Open
                                /\ needs'[i].delivery = "Emitted" => needs[i].delivery = "Emitted"
    BY <1>1 DEF Gentle, Open
  <2> QED
    BY <1>1, <1>2, <2>2, <2>3 DEF RInv, Counted
<1>8. Answered'
  BY <1>1 DEF RInv, Answered, ToldOnce, Gentle
<1> QED
  BY <1>3, <1>4, <1>5, <1>6, <1>7, <1>8 DEF Ledger

\* Hooks that come, wait, are refused or die keep it.
LEMMA HooksStep ==
  ASSUME RInv, UNCHANGED <<needs, attempts, shown, told>>,
         \A h \in Hooks : /\ hook'[h].srv # "idle" => hook'[h].cue.attempt \in Nat \ {0}
                          /\ hook'[h].srv \in {"granted", "report"} =>
                                /\ hook'[h].srv = hook[h].srv /\ hook'[h].cue = hook[h].cue
                                /\ hook'[h].outcome = hook[h].outcome
  PROVE  Ledger'
<1>1. Alone' /\ Linked' /\ Carried' /\ Counted' /\ Answered'
  BY DEF RInv, Alone, ActiveNeeds, Linked, Carried, Counted, Answered, ToldOnce
<1>2. Held'
  BY DEF RInv, Held, Holding, Wrote
<1> QED
  BY <1>1, <1>2 DEF Ledger

\* Everything but the ledger's and the hooks' state.
LEMMA WholeStep ==
  ASSUME RInv, Typed', Ledger'
  PROVE  RInv'
  BY DEF RInv, Ledger

LEMMA WorldStep ==
  ASSUME RInv,
         \/ Checkpoint \/ (\E k \in Contracts : ContractChanges(k))
         \/ (\E a \in 1 .. MaxAttempts : CueExpires(a))
  PROVE  RInv'
<1>1. UNCHANGED <<needs, attempts, published, worker, hook, shown, told>>
  BY DEF Checkpoint, ContractChanges, CueExpires, ledger, world
<1>2. Typed /\ n \in Counters /\ n.max \in Scenarios /\ n.max.boundaries \in Nat
  BY RecallAssumption DEF RInv, Typed, Counters
<1>3. n' \in Counters /\ n'.max = n.max
  <2>1. n' = n \/ n' = [n EXCEPT !.changes = n.changes + 1]
    BY DEF Checkpoint, ContractChanges, CueExpires
  <2>2. [n EXCEPT !.changes = n.changes + 1] \in Counters /\ [n EXCEPT !.changes = n.changes + 1].max = n.max
    BY <1>2 DEF Counters
  <2> QED
    BY <1>2, <2>1, <2>2
<1>4. boundary'.no \in Nat /\ boundary'.no <= n.max.boundaries /\ present' \subseteq Contracts
  BY <1>2 DEF Typed, Checkpoint, ContractChanges, CueExpires, world
<1>5. Typed'
  BY <1>1, <1>2, <1>3, <1>4 DEF Typed
<1>6. Ledger'
  <2>1. \A h \in Hooks : hook[h].srv # "idle" => hook[h].cue.attempt \in Nat \ {0}
    BY DEF RInv, Held
  <2> QED
    BY <1>1, <2>1, HooksStep
<1> QED
  BY <1>5, <1>6, WholeStep

LEMMA LateStep ==
  ASSUME RInv, NEW i, PresentationExpires(i)
  PROVE  RInv'
<1>1. /\ UNCHANGED <<boundary, present, attempts, published, worker, hook, shown, told, n>>
      /\ i \in DOMAIN needs /\ needs' = [needs EXCEPT ![i] = [needs[i] EXCEPT !.late = TRUE]]
  BY DEF PresentationExpires, world, ActiveNeeds
<1>2. needs \in Seq(Need) /\ Len(needs) <= MaxNeeds /\ \A j \in DOMAIN needs : needs[j] \in Need
  BY DEF RInv, Typed
<1>3. PICK x \in Need : needs' = [needs EXCEPT ![i] = x] /\ Gentle(needs[i], x)
  <2>1. \A y \in Need : [y EXCEPT !.late = TRUE] \in Need /\ Gentle(y, [y EXCEPT !.late = TRUE])
    BY DEF Need, Gentle
  <2> QED
    BY <1>1, <1>2, <2>1
<1>4. Follows(needs, needs') /\ Len(needs') = Len(needs) /\ Works(needs') \subseteq ActiveNeeds
  BY <1>1, <1>2, <1>3, OneGentle
<1>5. Ledger'
  BY <1>1, <1>2, <1>4, GentleStep DEF RInv, Alone
<1>6. Typed'
  BY <1>1, <1>2, <1>4 DEF RInv, Typed, Follows
<1> QED
  BY <1>5, <1>6, WholeStep

\* Counters of faults, attempts and restarts.
LEMMA Tally ==
  ASSUME n \in Counters
  PROVE  /\ [n EXCEPT !.faults = n.faults + 1] \in Counters
         /\ [n EXCEPT !.faults = n.faults + 1].max = n.max
         /\ [n EXCEPT !.attempts = n.attempts + 1] \in Counters
         /\ [n EXCEPT !.attempts = n.attempts + 1].max = n.max
         /\ [n EXCEPT !.crashes = n.crashes + 1, !.gen = n.gen + 1] \in Counters
         /\ [n EXCEPT !.crashes = n.crashes + 1, !.gen = n.gen + 1].max = n.max
<1>1. /\ [n EXCEPT !.faults = n.faults + 1] \in Counters
      /\ [n EXCEPT !.faults = n.faults + 1].max = n.max
  BY DEF Counters
<1>2. /\ [n EXCEPT !.attempts = n.attempts + 1] \in Counters
      /\ [n EXCEPT !.attempts = n.attempts + 1].max = n.max
  BY DEF Counters
<1>3. ASSUME NEW c \in Counters, NEW a \in Nat, NEW g \in Nat
      PROVE  [c EXCEPT !.crashes = a, !.gen = g] \in Counters /\ [c EXCEPT !.crashes = a, !.gen = g].max = c.max
  BY DEF Counters
<1>4. n.crashes + 1 \in Nat /\ n.gen + 1 \in Nat
  BY DEF Counters
<1> QED
  BY <1>1, <1>2, <1>3, <1>4

\* The worker's own state after each of its steps.
LEMMA WorkerStates ==
  ASSUME worker \in Worker, NEW c \in Cues
  PROVE  /\ [worker EXCEPT !.pc = "read", !.adv = 0, !.tries = 1] \in Worker
         /\ [worker EXCEPT !.pc = "read", !.adv = 0, !.tries = 0, !.start = FALSE] \in Worker
         /\ [worker EXCEPT !.pc = "idle"] \in Worker
         /\ [worker EXCEPT !.pc = "cues"] \in Worker
         /\ [worker EXCEPT !.pc = "publish", !.next = c] \in Worker
         /\ [worker EXCEPT !.pc = "idle", !.cue = c, !.start = FALSE] \in Worker
         /\ worker.adv < 2 => [worker EXCEPT !.adv = worker.adv + 1] \in Worker
         /\ worker.cue \in Cues /\ worker.next \in Cues
<1>1. worker.adv \in 0 .. 2 /\ worker.cue \in Cues /\ worker.next \in Cues
  BY DEF Worker
<1>2. ASSUME NEW w \in Worker, NEW a \in 0 .. 2, NEW t \in {0, 1}
      PROVE  /\ [w EXCEPT !.pc = "read", !.adv = a, !.tries = t] \in Worker
             /\ [w EXCEPT !.pc = "read", !.adv = a, !.tries = t, !.start = FALSE] \in Worker
  BY DEF Worker
<1>3. 0 \in 0 .. 2
  OBVIOUS
<1>4. [worker EXCEPT !.pc = "idle"] \in Worker /\ [worker EXCEPT !.pc = "cues"] \in Worker
  BY DEF Worker
<1>5. ASSUME NEW w \in Worker PROVE [w EXCEPT !.pc = "publish", !.next = c] \in Worker
  BY DEF Worker
<1>6. ASSUME NEW w \in Worker PROVE [w EXCEPT !.pc = "idle", !.cue = c, !.start = FALSE] \in Worker
  BY DEF Worker
<1>7. ASSUME worker.adv < 2 PROVE [worker EXCEPT !.adv = worker.adv + 1] \in Worker
  <2>1. PICK a \in 0 .. 2 : a = worker.adv + 1
    BY <1>1, <1>7
  <2>2. [worker EXCEPT !.adv = a] \in Worker
    BY DEF Worker
  <2> QED
    BY <2>1, <2>2
<1> QED
  BY <1>1, <1>2, <1>3, <1>4, <1>5, <1>6, <1>7

LEMMA WorkerStep ==
  ASSUME RInv, recall_worker
  PROVE  RInv'
<1>1. /\ Typed /\ n \in Counters /\ worker \in Worker /\ published \in Cues /\ n.max \in Scenarios
      /\ worker.cue \in Cues /\ worker.next \in Cues /\ NoCue \in Cues
  <2>1. Typed /\ n \in Counters /\ worker \in Worker /\ published \in Cues /\ NoCue \in Cues
    BY DEF RInv, Typed, Cues
  <2>2. n.max \in Scenarios
    BY <2>1 DEF Counters
  <2> QED
    BY <2>1, <2>2, WorkerStates
<1>2. UNCHANGED <<boundary, present, hook, due, shown, told>> /\ attempts' = attempts
  BY DEF recall_worker, process_recall_batch, publish_cues, Publish, Wake, Quiet, world, ledger, BatchFails
<1>3. n' \in Counters /\ n'.max = n.max
  <2>1. \/ n' = n \/ n' = [n EXCEPT !.faults = n.faults + 1]
        \/ n' = [n EXCEPT !.attempts = n.attempts + 1]
    BY DEF recall_worker, process_recall_batch, publish_cues, Publish, Wake, Fault
  <2> QED
    BY <1>1, <2>1, Tally
<1>4. \A i \in DOMAIN needs : FreshCue(i) \in Cues
  <2>1. \A i \in DOMAIN needs : needs[i] \in Need
    BY <1>1 DEF Typed
  <2>2. n.attempts + 1 \in Nat \ {0} /\ n.gen \in Nat
    BY <1>1 DEF Counters
  <2>3. \A i \in DOMAIN needs : Hash(needs[i]) \in [no : Nat, plan : SUBSET Contracts]
    BY <2>1 DEF Hash, Need
  <2> QED
    BY <2>2, <2>3 DEF FreshCue, Cues
<1>5. worker' \in Worker
  <2>1. CASE process_recall_batch
    <3>1. \/ worker.adv < 2 /\ worker' = [worker EXCEPT !.adv = worker.adv + 1]
          \/ worker' = [worker EXCEPT !.pc = "cues"]
          \/ BatchFails
      BY <2>1 DEF process_recall_batch
    <3> QED
      BY <1>1, <3>1, WorkerStates DEF BatchFails
  <2>2. CASE publish_cues
    <3>1. \E c \in Cues : worker' = [worker EXCEPT !.pc = "publish", !.next = c]
      BY <1>1, <1>4, <2>2 DEF publish_cues, Showable, ActiveNeeds
    <3> QED
      BY <1>1, <3>1, WorkerStates
  <2>3. CASE Publish
    <3>1. \/ worker' = [worker EXCEPT !.pc = "idle", !.cue = worker.next, !.start = FALSE]
          \/ BatchFails
      BY <2>3 DEF Publish
    <3> QED
      BY <1>1, <3>1, WorkerStates DEF BatchFails
  <2>4. CASE Wake
    BY <1>1, <2>4, WorkerStates DEF Wake
  <2> QED
    BY <2>1, <2>2, <2>3, <2>4 DEF recall_worker
<1>6. published' \in Cues
  BY <1>1 DEF recall_worker, process_recall_batch, publish_cues, Publish, Wake, BatchFails
<1>7. \/ needs' = needs
      \/ needs' = Batch /\ Len(Batch) <= n.max.needs
  BY DEF recall_worker, process_recall_batch, publish_cues, Publish, Wake, BatchFails, ledger
<1>8. CASE needs' = needs
  <2>1. Typed'
    BY <1>1, <1>2, <1>3, <1>5, <1>6, <1>8 DEF Typed
  <2>2. \A h \in Hooks : hook[h].srv # "idle" => hook[h].cue.attempt \in Nat \ {0}
    BY DEF RInv, Held
  <2>3. Ledger'
    BY <1>2, <1>8, <2>2, HooksStep
  <2> QED
    BY <2>1, <2>3, WholeStep
<1>9. CASE needs' = Batch /\ Len(Batch) <= n.max.needs
  <2>1. Follows(needs, Batch) /\ \A i, j \in Works(Batch) : i = j
    BY BatchFollows DEF RInv
  <2>2. Len(Batch) <= MaxNeeds /\ Batch \in Seq(Need)
    <3>1. n.max.needs \in 0 .. MaxNeeds /\ MaxNeeds \in Nat /\ Batch \in Seq(Need)
      BY <1>1, <2>1, RecallAssumption DEF Follows
    <3>2. Len(Batch) \in Nat
      BY <3>1
    <3> QED
      BY <1>9, <3>1, <3>2
  <2>3. Ledger'
    BY <1>2, <1>9, <2>1, <2>2, GentleStep
  <2>4. Typed'
    BY <1>1, <1>2, <1>3, <1>5, <1>6, <1>9, <2>2 DEF Typed
  <2> QED
    BY <2>3, <2>4, WholeStep
<1> QED
  BY <1>7, <1>8, <1>9

LEMMA Within ==
  ASSUME Typed
  PROVE  DOMAIN needs \subseteq 1 .. MaxNeeds
<1>1. needs \in Seq(Need) /\ Len(needs) <= MaxNeeds
  BY DEF Typed
<1>2. DOMAIN needs = 1 .. Len(needs) /\ Len(needs) \in Nat /\ MaxNeeds \in Nat
  BY <1>1, RecallAssumption
<1> QED
  BY <1>1, <1>2

-----------------------------------------------------------------------------
(* Hooks.                                                                     *)

LEMMA IdleTyped == IdleHook \in HookState /\ IdleHook.srv = "idle"
  BY DEF IdleHook, HookState, Cues

\* A hook moves without showing or reporting anything.
LEMMA OneHookStep ==
  ASSUME RInv, NEW h \in Hooks, NEW x \in HookState, hook' = [hook EXCEPT ![h] = x],
         x.srv # "idle" => x.cue.attempt \in Nat \ {0},
         x.srv \in {"granted", "report"} =>
            x.srv = hook[h].srv /\ x.cue = hook[h].cue /\ x.outcome = hook[h].outcome,
         UNCHANGED <<boundary, present, needs, attempts, published, worker, shown, told, n>>
  PROVE  RInv'
<1>1. hook \in [Hooks -> HookState]
  BY DEF RInv, Typed
<1>2. Typed'
  BY <1>1 DEF RInv, Typed
<1>3. \A g \in Hooks : hook'[g] = IF g = h THEN x ELSE hook[g]
  BY <1>1
<1>4. \A g \in Hooks : hook[g].srv # "idle" => hook[g].cue.attempt \in Nat \ {0}
  BY DEF RInv, Held
<1>5. Ledger'
  BY <1>3, <1>4, HooksStep
<1> QED
  BY <1>2, <1>5, WholeStep

LEMMA QuietHookStep ==
  ASSUME RInv, NEW h \in Hooks,
         \/ select_recall_cue(h) \/ authorize(h) \/ HookGone(h)
         \/ Over(h) /\ UNCHANGED <<ledger, shown>> /\ Rest
  PROVE  RInv'
<1>1. UNCHANGED <<boundary, present, needs, attempts, published, worker, shown, told, n>>
  BY DEF select_recall_cue, authorize, HookGone, Rest, ledger, world
<1>2. /\ hook[h] \in HookState /\ published \in Cues
      /\ hook[h].srv # "idle" => hook[h].cue.attempt \in Nat \ {0}
  BY DEF RInv, Typed, Held
<1>3. CASE Over(h)
  BY <1>1, <1>3, IdleTyped, OneHookStep DEF Over
<1>4. CASE select_recall_cue(h)
  <2> DEFINE x == [srv |-> "ask", alive |-> TRUE, cue |-> published, outcome |-> "none"]
  <2>1. published # NoCue /\ hook' = [hook EXCEPT ![h] = x]
    BY <1>4 DEF select_recall_cue
  <2>2. x \in HookState /\ x.srv = "ask" /\ x.cue = published
    BY <1>2 DEF HookState
  <2>3. published.attempt \in Nat \ {0}
    BY <1>2, <2>1 DEF Cues
  <2> HIDE DEF x
  <2> QED
    BY <1>1, <2>1, <2>2, <2>3, OneHookStep
<1>5. CASE Set(h, "checked") /\ hook[h].srv = "ask"
  <2> DEFINE x == [hook[h] EXCEPT !.srv = "checked"]
  <2>1. hook' = [hook EXCEPT ![h] = x]
    BY <1>5 DEF Set
  <2>2. x \in HookState /\ x.srv = "checked" /\ x.cue = hook[h].cue
    BY <1>2 DEF HookState
  <2> HIDE DEF x
  <2> QED
    BY <1>1, <1>2, <1>5, <2>1, <2>2, OneHookStep
<1>6. CASE hook' = [hook EXCEPT ![h].alive = FALSE]
  <2> DEFINE x == [hook[h] EXCEPT !.alive = FALSE]
  <2>1. hook' = [hook EXCEPT ![h] = x]
    BY <1>6
  <2>2. x \in HookState /\ x.srv = hook[h].srv /\ x.cue = hook[h].cue /\ x.outcome = hook[h].outcome
    BY <1>2 DEF HookState
  <2> HIDE DEF x
  <2> QED
    BY <1>1, <1>2, <2>1, <2>2, OneHookStep
<1> QED
  BY <1>3, <1>4, <1>5, <1>6 DEF authorize, HookGone

LEMMA RestartStep ==
  ASSUME RInv, Restart
  PROVE  RInv'
<1>1. /\ UNCHANGED <<boundary, present, needs, attempts, shown, told>>
      /\ published' = NoCue
      /\ n' = [n EXCEPT !.crashes = n.crashes + 1, !.gen = n.gen + 1]
      /\ hook' = [h \in Hooks |-> IF hook[h].srv \in {"ask", "checked", "report"} THEN IdleHook ELSE hook[h]]
  BY DEF Restart, world, ledger
<1>2. worker' \in Worker /\ NoCue \in Cues
  BY DEF Restart, Worker, Cues
<1>3. n' \in Counters /\ n'.max = n.max
  BY <1>1, Tally DEF RInv, Typed
<1>4. hook' \in [Hooks -> HookState]
  BY <1>1, IdleTyped DEF RInv, Typed
<1>5. Typed'
  BY <1>1, <1>2, <1>3, <1>4 DEF RInv, Typed
<1>6. \A g \in Hooks : hook[g].srv # "idle" => hook[g].cue.attempt \in Nat \ {0}
  BY DEF RInv, Held
<1>7. Ledger'
  BY <1>1, <1>6, IdleTyped, HooksStep
<1> QED
  BY <1>5, <1>7, WholeStep

LEMMA ClaimStep ==
  ASSUME RInv, NEW h \in Hooks, hook[h].srv = "checked", NEW i \in select_need(h), latest_valid(i),
         ~\E p \in attempts : p.attempt = hook[h].cue.attempt, Granted(h, i)
  PROVE  RInv'
<1> DEFINE a == hook[h].cue.attempt
           new == [attempt |-> a, need |-> i, at |-> boundary.no]
           x == [needs[i] EXCEPT !.delivery = "Claimed", !.active = a, !.last = a]
<1>1. /\ UNCHANGED <<boundary, present, published, worker, shown, told, n>>
      /\ needs' = [needs EXCEPT ![i] = x] /\ attempts' = attempts \cup {new}
      /\ Set(h, "granted") \/ Over(h)
  BY DEF Granted, Rest, world
<1>2. /\ hook \in [Hooks -> HookState] /\ hook[h] \in HookState /\ a \in Nat \ {0}
      /\ needs \in Seq(Need) /\ Len(needs) <= MaxNeeds /\ boundary.no \in Nat
  BY DEF RInv, Typed, Held
<1>3. /\ i \in DOMAIN needs /\ i \in Nat /\ needs[i].delivery \in Open /\ needs[i].active = 0
      /\ needs[i].obligation = "Active" /\ needs[i] \in Need /\ needs[i].no = boundary.no
  <2>1. i \in DOMAIN needs /\ needs[i].delivery \in Open /\ needs[i].active = 0 /\ needs[i].obligation = "Active"
    BY DEF select_need, Matching, ActiveNeeds
  <2>2. needs[i] \in Need /\ i \in Nat
    BY <1>2, <2>1
  <2>3. needs[i].no = boundary.no
    BY Verdict DEF latest_valid
  <2> QED
    BY <2>1, <2>2, <2>3
<1>4. /\ x \in Need /\ x.delivery = "Claimed" /\ x.active = a /\ x.no = needs[i].no
      /\ x.obligation = needs[i].obligation /\ x.response = needs[i].response /\ x.request = needs[i].request
  <2>1. "Claimed" \in Deliveries /\ a \in Nat
    BY <1>2 DEF Deliveries
  <2>2. PICK c \in Deliveries : c = "Claimed"
    BY <2>1
  <2>3. PICK b \in Nat : b = a
    BY <2>1
  <2>4. ASSUME NEW y \in Need
        PROVE  LET z == [y EXCEPT !.delivery = c, !.active = b, !.last = b] IN
               /\ z \in Need /\ z.delivery = c /\ z.active = b /\ z.no = y.no
               /\ z.obligation = y.obligation /\ z.response = y.response /\ z.request = y.request
    BY DEF Need
  <2>5. x = [needs[i] EXCEPT !.delivery = c, !.active = b, !.last = b]
    BY <2>2, <2>3
  <2> HIDE DEF x, a
  <2> QED
    BY <1>3, <2>2, <2>3, <2>4, <2>5
<1> HIDE DEF x
<1>5. /\ needs' \in Seq(Need) /\ Len(needs') = Len(needs) /\ DOMAIN needs' = DOMAIN needs
      /\ \A j \in DOMAIN needs : needs'[j] = IF j = i THEN x ELSE needs[j]
  BY <1>1, <1>2, <1>3, <1>4
<1>6. PICK y \in HookState :
         /\ hook' = [hook EXCEPT ![h] = y]
         /\ \/ y.srv = "granted" /\ y.cue = hook[h].cue
            \/ y.srv = "idle"
  <2>1. CASE Set(h, "granted")
    <3>1. hook' = [hook EXCEPT ![h] = [hook[h] EXCEPT !.srv = "granted"]]
      BY <2>1 DEF Set
    <3>2. /\ [hook[h] EXCEPT !.srv = "granted"] \in HookState /\ [hook[h] EXCEPT !.srv = "granted"].srv = "granted"
          /\ [hook[h] EXCEPT !.srv = "granted"].cue = hook[h].cue
      BY <1>2 DEF HookState
    <3> QED
      BY <3>1, <3>2
  <2>2. CASE Over(h)
    BY <2>2, IdleTyped DEF Over
  <2> QED
    BY <1>1, <2>1, <2>2
<1>7. new \in [attempt : Nat \ {0}, need : Nat, at : Nat] /\ new.attempt = a /\ new.need = i /\ new.at = boundary.no
  BY <1>2, <1>3
<1> HIDE DEF new
<1>8. Typed'
  BY <1>1, <1>2, <1>5, <1>6, <1>7 DEF RInv, Typed
<1>9. Alone'
  BY <1>3, <1>4, <1>5 DEF RInv, Alone, ActiveNeeds
<1>10. Linked'
  BY <1>1, <1>2, <1>3, <1>4, <1>5, <1>7 DEF RInv, Linked
<1>11. Carried'
  BY <1>2, <1>4, <1>5 DEF RInv, Carried, Open
<1>12. Counted'
  BY <1>1, <1>4, <1>5 DEF RInv, Counted, Open
<1>13. Answered'
  BY <1>1, <1>4, <1>5 DEF RInv, Answered, ToldOnce
<1>14. Held'
  <2>1. \A g \in Hooks : hook'[g] = IF g = h THEN y ELSE hook[g]
    BY <1>2, <1>6
  <2>2. \A g \in Hooks : Holding(g) => hook[g].cue.attempt # a
    BY DEF RInv, Held
  <2>3. \A p \in attempts : needs[p.need].active = p.attempt => needs'[p.need].active = p.attempt
    <3> SUFFICES ASSUME NEW p \in attempts, needs[p.need].active = p.attempt
                 PROVE  needs'[p.need].active = p.attempt
      OBVIOUS
    <3>1. p.attempt # 0 /\ p.need \in DOMAIN needs
      BY DEF RInv, Typed, Linked
    <3> QED
      BY <1>3, <1>5, <3>1
  <2>4. shown[i] = 0
    BY <1>3 DEF RInv, Counted
  <2>5. ASSUME NEW g \in Hooks, g # h
        PROVE  /\ hook'[g] = hook[g] /\ Holding(g)' = Holding(g) /\ Wrote(g)' = Wrote(g)
    BY <2>1, <2>5 DEF Holding, Wrote
  <2>6. ASSUME NEW g \in Hooks, Holding(g)'
        PROVE  \E p \in attempts' : /\ p.attempt = hook'[g].cue.attempt /\ needs'[p.need].active = p.attempt
                                    /\ shown'[p.need] = IF Wrote(g)' THEN 1 ELSE 0
    <3>1. CASE g = h
      <4>1. y.srv = "granted" /\ hook'[h].srv = "granted" /\ hook'[h].cue.attempt = a /\ ~Wrote(h)'
        BY <1>6, <2>1, <2>6, <3>1 DEF Holding, Wrote
      <4>2. new \in attempts' /\ needs'[new.need].active = a
        BY <1>1, <1>3, <1>4, <1>5, <1>7
      <4> QED
        BY <1>1, <1>7, <2>4, <3>1, <4>1, <4>2
    <3>2. CASE g # h
      <4>1. Holding(g)
        BY <2>5, <2>6, <3>2
      <4>2. PICK p \in attempts : /\ p.attempt = hook[g].cue.attempt /\ needs[p.need].active = p.attempt
                                 /\ shown[p.need] = IF Wrote(g) THEN 1 ELSE 0
        BY <4>1 DEF RInv, Held
      <4>3. p \in attempts' /\ needs'[p.need].active = p.attempt
        BY <1>1, <2>3, <4>2
      <4> QED
        BY <1>1, <2>5, <3>2, <4>2, <4>3
    <3> QED
      BY <3>1, <3>2
  <2>7. \A g \in Hooks : /\ hook'[g].srv # "idle" => hook'[g].cue.attempt \in Nat \ {0}
                         /\ hook'[g].srv = "report" => hook'[g].outcome # "none"
    BY <1>2, <1>6, <2>1 DEF RInv, Held
  <2>8. ASSUME NEW f \in Hooks, NEW g \in Hooks, Holding(f)', Holding(g)', hook'[f].cue.attempt = hook'[g].cue.attempt
        PROVE  f = g
    <3>1. CASE f # h /\ g # h
      BY <2>5, <2>8, <3>1 DEF RInv, Held
    <3>2. CASE f = h /\ g # h
      BY <1>6, <2>1, <2>2, <2>5, <2>8, <3>2 DEF Holding
    <3>3. CASE f # h /\ g = h
      BY <1>6, <2>1, <2>2, <2>5, <2>8, <3>3 DEF Holding
    <3> QED
      BY <3>1, <3>2, <3>3
  <2> QED
    BY <2>6, <2>7, <2>8 DEF Held
<1> QED
  BY <1>8, <1>9, <1>10, <1>11, <1>12, <1>13, <1>14 DEF RInv

LEMMA EmitStep ==
  ASSUME RInv, NEW h \in Hooks, emit_recall_context(h)
  PROVE  RInv'
<1>1. PICK o \in {"Emitted", "FailedPreEmit", "PresentationUnknown"} :
         /\ hook' = [hook EXCEPT ![h] = [hook[h] EXCEPT !.srv = "report", !.outcome = o]]
         /\ shown' = IF o = "FailedPreEmit" THEN shown ELSE [shown EXCEPT ![NeedOf(h)] = shown[NeedOf(h)] + 1]
  BY DEF emit_recall_context
<1>2. /\ UNCHANGED <<boundary, present, needs, attempts, published, worker, told, n>>
      /\ hook[h].srv = "granted"
  BY DEF emit_recall_context, Rest, ledger, world
<1> DEFINE i == NeedOf(h)
           a == hook[h].cue.attempt
           x == [hook[h] EXCEPT !.srv = "report", !.outcome = o]
<1>3. /\ hook \in [Hooks -> HookState] /\ hook[h] \in HookState /\ a \in Nat \ {0}
      /\ shown \in [1 .. MaxNeeds -> Nat]
  BY <1>2 DEF RInv, Typed, Held
<1>4. PICK p \in attempts : /\ p.attempt = a /\ needs[p.need].active = p.attempt /\ shown[p.need] = 0
  BY <1>2 DEF RInv, Held, Holding, Wrote
<1>5. (CHOOSE q \in attempts : q.attempt = a) = p
  <2>1. \A q \in attempts : q.attempt = a => q = p
    BY <1>4 DEF RInv, Linked
  <2> QED
    BY <1>4, <2>1
<1>6. i = p.need /\ i \in DOMAIN needs /\ i \in 1 .. MaxNeeds
  <2>1. i = p.need
    BY <1>5 DEF NeedOf
  <2>2. p.need \in DOMAIN needs
    BY <1>4 DEF RInv, Linked
  <2> HIDE DEF i
  <2> QED
    BY <2>1, <2>2, Within DEF RInv
<1>7. x \in HookState /\ x.srv = "report" /\ x.outcome = o /\ x.cue = hook[h].cue
  <2>1. ASSUME NEW y \in HookState
        PROVE  LET z == [y EXCEPT !.srv = "report", !.outcome = o] IN
               z \in HookState /\ z.srv = "report" /\ z.outcome = o /\ z.cue = y.cue
    BY DEF HookState
  <2> QED
    BY <1>3, <2>1
<1> HIDE DEF i, x
<1>8. \A g \in Hooks : hook'[g] = IF g = h THEN x ELSE hook[g]
  BY <1>1, <1>3 DEF x
<1>9. /\ shown' \in [1 .. MaxNeeds -> Nat]
      /\ \A j \in 1 .. MaxNeeds : shown'[j] = IF j = i /\ o # "FailedPreEmit" THEN 1 ELSE shown[j]
  <2>1. shown[i] = 0
    BY <1>4, <1>6
  <2>2. shown' = IF o = "FailedPreEmit" THEN shown ELSE [shown EXCEPT ![i] = 1]
    BY <1>1, <2>1 DEF i
  <2> QED
    BY <1>3, <1>6, <2>2
<1>10. Typed'
  BY <1>1, <1>2, <1>3, <1>7, <1>9 DEF RInv, Typed, x
<1>11. Alone' /\ Linked' /\ Carried' /\ Answered'
  BY <1>2 DEF RInv, Alone, ActiveNeeds, Linked, Carried, Answered, ToldOnce
<1>12. Counted'
  <2>1. needs[i].delivery \notin Open
    <3>1. needs[i].active # 0
      BY <1>3, <1>4, <1>6
    <3> QED
      BY <1>6, <3>1 DEF RInv, Carried
  <2>2. DOMAIN needs \subseteq 1 .. MaxNeeds
    BY Within DEF RInv
  <2> QED
    BY <1>2, <1>6, <1>9, <2>1, <2>2 DEF RInv, Counted
<1>13. Held'
  <2>1. \A g \in Hooks : Holding(g)' = Holding(g) /\ hook'[g].cue = hook[g].cue
    BY <1>2, <1>7, <1>8 DEF Holding
  <2>2. ASSUME NEW g \in Hooks, Holding(g)'
        PROVE  \E q \in attempts' : /\ q.attempt = hook'[g].cue.attempt /\ needs'[q.need].active = q.attempt
                                    /\ shown'[q.need] = IF Wrote(g)' THEN 1 ELSE 0
    <3>1. CASE g = h
      <4>1. Wrote(g)' <=> o # "FailedPreEmit"
        BY <1>7, <1>8, <3>1 DEF Wrote
      <4>2. shown'[p.need] = IF o # "FailedPreEmit" THEN 1 ELSE 0
        BY <1>4, <1>6, <1>9
      <4> QED
        BY <1>2, <1>4, <2>1, <3>1, <4>1, <4>2
    <3>2. CASE g # h
      <4>1. PICK q \in attempts : /\ q.attempt = hook[g].cue.attempt /\ needs[q.need].active = q.attempt
                                 /\ shown[q.need] = IF Wrote(g) THEN 1 ELSE 0
        BY <2>1, <2>2 DEF RInv, Held
      <4>2. q.need # i
        <5>1. hook[g].cue.attempt # a
          BY <1>2, <2>1, <2>2, <3>2 DEF RInv, Held, Holding
        <5> QED
          BY <1>4, <1>6, <4>1, <5>1
      <4>3. Wrote(g)' = Wrote(g)
        BY <1>8, <3>2 DEF Wrote
      <4>4. q.need \in 1 .. MaxNeeds
        BY Within DEF RInv, Linked
      <4> QED
        BY <1>2, <1>9, <2>1, <4>1, <4>2, <4>3, <4>4
    <3> QED
      BY <3>1, <3>2
  <2>3. \A g \in Hooks : /\ hook'[g].srv # "idle" => hook'[g].cue.attempt \in Nat \ {0}
                         /\ hook'[g].srv = "report" => hook'[g].outcome # "none"
    BY <1>3, <1>7, <1>8 DEF RInv, Held
  <2>4. \A f, g \in Hooks : Holding(f)' /\ Holding(g)' /\ hook'[f].cue.attempt = hook'[g].cue.attempt => f = g
    BY <2>1 DEF RInv, Held
  <2> QED
    BY <2>2, <2>3, <2>4 DEF Held
<1> QED
  BY <1>10, <1>11, <1>12, <1>13 DEF RInv

LEMMA ReportStep ==
  ASSUME RInv, NEW h \in Hooks, hook[h].srv = "report", Over(h), NEW i \in Reports(h), apply_outcome(h, i),
         UNCHANGED <<attempts, shown>>, Rest
  PROVE  RInv'
<1> DEFINE a == hook[h].cue.attempt
           o == hook[h].outcome
           next == IF o = "FailedPreEmit" THEN 0 ELSE needs[i].active
           x == [needs[i] EXCEPT !.delivery = o, !.active = next]
<1>1. /\ UNCHANGED <<boundary, present, published, worker, told, n, attempts, shown>>
      /\ needs' = [needs EXCEPT ![i] = x] /\ hook' = [hook EXCEPT ![h] = IdleHook]
  BY DEF Rest, world, apply_outcome, Over
<1>2. /\ hook \in [Hooks -> HookState] /\ o \in {"Emitted", "FailedPreEmit", "PresentationUnknown"}
      /\ needs \in Seq(Need) /\ a \in Nat \ {0}
  <2>1. hook[h] \in HookState /\ o # "none"
    BY DEF RInv, Typed, Held
  <2> QED
    BY <2>1 DEF RInv, Typed, Held, HookState
<1>3. /\ i \in DOMAIN needs /\ needs[i].delivery = "Claimed" /\ needs[i].active = a /\ needs[i] \in Need
      /\ needs[i].obligation = "Active"
  <2>1. i \in DOMAIN needs /\ needs[i].delivery = "Claimed" /\ needs[i].active = a /\ needs[i].obligation = "Active"
    BY DEF Reports, Matching, ActiveNeeds
  <2> QED
    BY <1>2, <2>1
<1>4. shown[i] = IF o # "FailedPreEmit" THEN 1 ELSE 0
  <2>1. PICK p \in attempts : /\ p.attempt = a /\ needs[p.need].active = p.attempt
                             /\ shown[p.need] = IF Wrote(h) THEN 1 ELSE 0
    BY DEF RInv, Held, Holding
  <2>2. PICK q \in attempts : q.attempt = a /\ q.need = i
    BY <1>2, <1>3 DEF RInv, Linked
  <2>3. p = q
    BY <2>1, <2>2 DEF RInv, Linked
  <2> QED
    BY <2>1, <2>2, <2>3 DEF Wrote
<1>5. next \in Nat /\ o \in Deliveries /\ ((next # 0) = (o \notin Open))
  BY <1>2, <1>3 DEF Deliveries, Open
<1> HIDE DEF o, next
<1>6. /\ x \in Need /\ x.delivery = o /\ x.active = next /\ x.no = needs[i].no
      /\ x.obligation = needs[i].obligation /\ x.response = needs[i].response /\ x.request = needs[i].request
  <2>1. ASSUME NEW y \in Need
        PROVE  LET z == [y EXCEPT !.delivery = o, !.active = next] IN
               /\ z \in Need /\ z.delivery = o /\ z.active = next /\ z.no = y.no
               /\ z.obligation = y.obligation /\ z.response = y.response /\ z.request = y.request
    BY <1>5 DEF Need
  <2> QED
    BY <1>3, <2>1
<1> HIDE DEF x
<1>7. /\ needs' \in Seq(Need) /\ Len(needs') = Len(needs) /\ DOMAIN needs' = DOMAIN needs
      /\ \A j \in DOMAIN needs : needs'[j] = IF j = i THEN x ELSE needs[j]
  BY <1>1, <1>2, <1>3, <1>6
<1>8. Typed'
  BY <1>1, <1>2, <1>7, IdleTyped DEF RInv, Typed
<1>9. Alone'
  BY <1>3, <1>6, <1>7 DEF RInv, Alone, ActiveNeeds
<1>10. next \in {0, a}
  BY <1>3 DEF next
<1>11. Linked'
  BY <1>1, <1>3, <1>6, <1>7, <1>10 DEF RInv, Linked
<1>12. Carried'
  BY <1>5, <1>6, <1>7 DEF RInv, Carried
<1>13. Counted'
  BY <1>1, <1>2, <1>4, <1>6, <1>7 DEF RInv, Counted, Open
<1>14. Answered'
  BY <1>1, <1>6, <1>7 DEF RInv, Answered, ToldOnce
<1>15. Held'
  <2>1. /\ \A g \in Hooks : g # h => hook'[g] = hook[g] /\ Holding(g)' = Holding(g) /\ Wrote(g)' = Wrote(g)
        /\ hook'[h] = IdleHook /\ ~Holding(h)'
    BY <1>1, <1>2, IdleTyped DEF Holding, Wrote
  <2>2. ASSUME NEW g \in Hooks, Holding(g)'
        PROVE  \E q \in attempts' : /\ q.attempt = hook'[g].cue.attempt /\ needs'[q.need].active = q.attempt
                                    /\ shown'[q.need] = IF Wrote(g)' THEN 1 ELSE 0
    <3>1. g # h /\ Holding(g)
      BY <2>1, <2>2
    <3>2. PICK q \in attempts : /\ q.attempt = hook[g].cue.attempt /\ needs[q.need].active = q.attempt
                               /\ shown[q.need] = IF Wrote(g) THEN 1 ELSE 0
      BY <3>1 DEF RInv, Held
    <3>3. q.need # i /\ q.need \in DOMAIN needs
      <4>1. hook[g].cue.attempt # a
        BY <3>1 DEF RInv, Held, Holding
      <4> QED
        BY <1>3, <3>2, <4>1 DEF RInv, Linked
    <3> QED
      BY <1>1, <1>7, <2>1, <3>1, <3>2, <3>3
  <2>3. \A g \in Hooks : /\ hook'[g].srv # "idle" => hook'[g].cue.attempt \in Nat \ {0}
                         /\ hook'[g].srv = "report" => hook'[g].outcome # "none"
    BY <2>1, IdleTyped DEF RInv, Held
  <2>4. \A f, g \in Hooks : Holding(f)' /\ Holding(g)' /\ hook'[f].cue.attempt = hook'[g].cue.attempt => f = g
    BY <2>1 DEF RInv, Held
  <2> QED
    BY <2>2, <2>3, <2>4 DEF Held
<1> QED
  BY <1>8, <1>9, <1>11, <1>12, <1>13, <1>14, <1>15 DEF RInv

LEMMA HookStep ==
  ASSUME RInv, NEW h \in Hooks,
         \/ select_recall_cue(h) \/ authorize(h) \/ Claim(h)
         \/ emit_recall_context(h) \/ outcome(h) \/ HookGone(h)
  PROVE  RInv'
<1>1. CASE select_recall_cue(h) \/ authorize(h) \/ HookGone(h)
  BY <1>1, QuietHookStep
<1>2. CASE Claim(h)
  <2> DEFINE seen == \E p \in attempts : p.attempt = hook[h].cue.attempt
             fit == {i \in select_need(h) : latest_valid(i)}
  <2>1. /\ hook[h].srv = "checked"
        /\ \/ Restart
           \/ \E i \in fit : ~seen /\ Granted(h, i)
           \/ Over(h) /\ UNCHANGED <<ledger, shown>> /\ Rest
    BY <1>2 DEF Claim
  <2>2. CASE \E i \in fit : ~seen /\ Granted(h, i)
    BY <2>1, <2>2, ClaimStep
  <2> QED
    BY <2>1, <2>2, RestartStep, QuietHookStep
<1>3. CASE emit_recall_context(h)
  BY <1>3, EmitStep
<1>4. CASE outcome(h)
  <2>1. /\ hook[h].srv = "report" /\ Over(h) /\ UNCHANGED shown /\ Rest
        /\ \/ (\E i \in Reports(h) : apply_outcome(h, i)) /\ UNCHANGED attempts
           \/ UNCHANGED ledger
    BY <1>4 DEF outcome
  <2>2. CASE (\E i \in Reports(h) : apply_outcome(h, i)) /\ UNCHANGED attempts
    BY <2>1, <2>2, ReportStep
  <2>3. CASE UNCHANGED ledger
    BY <2>1, <2>3, QuietHookStep
  <2> QED
    BY <2>1, <2>2, <2>3
<1> QED
  BY <1>1, <1>2, <1>3, <1>4

-----------------------------------------------------------------------------
(* Requests.                                                                  *)

\* A request ends a need that is over.
LEMMA DueEndsStep ==
  ASSUME RInv, NEW d \in Requests, NEW i \in ActiveNeeds, DueEnds(d, i), Still
  PROVE  RInv'
<1> DEFINE v == validate_need_against_current(needs[i])
           to == IF v \in Obligations THEN v ELSE needs[i].obligation
<1>1. /\ UNCHANGED <<boundary, present, attempts, published, worker, hook, shown, told, n>>
      /\ i \in DOMAIN needs /\ needs' = [needs EXCEPT ![i] = [needs[i] EXCEPT !.obligation = to]]
  BY DEF DueEnds, Still, world, ActiveNeeds
<1>2. needs \in Seq(Need) /\ Len(needs) <= MaxNeeds /\ \A j \in DOMAIN needs : needs[j] \in Need
  BY DEF RInv, Typed
<1>3. to \in Obligations /\ needs[i].obligation = "Active"
  BY <1>1, <1>2 DEF ActiveNeeds, Need
<1> HIDE DEF to
<1>4. PICK x \in Need : needs' = [needs EXCEPT ![i] = x] /\ Gentle(needs[i], x)
  <2>1. \A y \in Need : y.obligation = "Active" =>
           [y EXCEPT !.obligation = to] \in Need /\ Gentle(y, [y EXCEPT !.obligation = to])
    BY <1>3 DEF Need, Gentle
  <2> QED
    BY <1>1, <1>2, <1>3, <2>1
<1>5. Follows(needs, needs') /\ Len(needs') = Len(needs) /\ Works(needs') \subseteq ActiveNeeds
  BY <1>1, <1>2, <1>4, OneGentle
<1>6. Ledger'
  BY <1>1, <1>2, <1>5, GentleStep DEF RInv, Alone
<1>7. Typed'
  BY <1>1, <1>2, <1>5 DEF RInv, Typed, Follows
<1> QED
  BY <1>6, <1>7, WholeStep

\* A request claims a need, returns its text or loses it.
LEMMA AnswerNeedStep ==
  ASSUME RInv, NEW d \in Requests, NEW i \in DOMAIN needs, needs[i].response # "Returned", Still,
         NEW resp \in {"Claimed", "Returned", "Unknown"},
         needs' = [needs EXCEPT ![i] = [needs[i] EXCEPT !.response = resp, !.request = d]],
         told' = IF resp = "Returned" THEN told \cup {[need |-> i, request |-> d]} ELSE told,
         n' \in Counters, n'.max = n.max
  PROVE  RInv'
<1> DEFINE x == [needs[i] EXCEPT !.response = resp, !.request = d]
<1>1. UNCHANGED <<boundary, present, attempts, published, worker, hook, shown>>
  BY DEF Still, world
<1>2. needs \in Seq(Need) /\ needs[i] \in Need /\ i \in Nat
  BY DEF RInv, Typed
<1>3. /\ x \in Need /\ x.response = resp /\ x.request = d /\ x.no = needs[i].no /\ x.active = needs[i].active
      /\ x.delivery = needs[i].delivery /\ x.obligation = needs[i].obligation
  <2>1. ASSUME NEW y \in Need
        PROVE  LET z == [y EXCEPT !.response = resp, !.request = d] IN
               /\ z \in Need /\ z.response = resp /\ z.request = d /\ z.no = y.no /\ z.active = y.active
               /\ z.delivery = y.delivery /\ z.obligation = y.obligation
    BY DEF Need
  <2> QED
    BY <1>2, <2>1
<1> HIDE DEF x
<1>4. /\ needs' \in Seq(Need) /\ Len(needs') = Len(needs) /\ DOMAIN needs' = DOMAIN needs
      /\ \A j \in DOMAIN needs : needs'[j] = IF j = i THEN x ELSE needs[j]
  BY <1>2, <1>3 DEF x
<1>5. [need |-> i, request |-> d] \in [need : Nat, request : Requests]
  BY <1>2
<1>6. Typed'
  BY <1>1, <1>4, <1>5 DEF RInv, Typed
<1>7. Alone' /\ Linked' /\ Counted'
  <2>1. \A j \in DOMAIN needs : /\ needs'[j].no = needs[j].no /\ needs'[j].active = needs[j].active
                                /\ needs'[j].delivery = needs[j].delivery /\ needs'[j].obligation = needs[j].obligation
    BY <1>3, <1>4
  <2>2. Alone'
    BY <1>4, <2>1 DEF RInv, Alone, ActiveNeeds
  <2>3. Linked'
    BY <1>1, <1>4, <2>1 DEF RInv, Linked
  <2>4. Counted'
    BY <1>1, <1>4, <2>1 DEF RInv, Counted
  <2> QED
    BY <2>2, <2>3, <2>4
<1>8. Carried'
  <2>1. d # "none" /\ resp # "NotRetrieved"
    BY RecallAssumption
  <2> QED
    BY <1>3, <1>4, <2>1 DEF RInv, Carried
<1>9. Held'
  <2>1. \A p \in attempts : p.need \in DOMAIN needs /\ needs'[p.need].active = needs[p.need].active
    BY <1>3, <1>4 DEF RInv, Linked
  <2> QED
    BY <1>1, <2>1 DEF RInv, Held, Holding, Wrote
<1>10. Answered'
  <2>1. \A p \in told : p.need \in DOMAIN needs /\ p.need # i /\ needs[p.need].response = "Returned"
    BY DEF RInv, Answered
  <2>2. \A p \in told' : p.need \in DOMAIN needs' /\ needs'[p.need].response = "Returned"
    BY <1>3, <1>4, <2>1
  <2>3. ToldOnce'
    BY <2>1 DEF RInv, Answered, ToldOnce
  <2> QED
    BY <2>2, <2>3 DEF Answered
<1> QED
  BY <1>6, <1>7, <1>8, <1>9, <1>10 DEF RInv

LEMMA RequestStep ==
  ASSUME RInv, NEW d \in Requests, search_due(d) \/ due_result(d)
  PROVE  RInv'
<1>1. Still /\ n \in Counters
  BY DEF search_due, due_result, RInv, Typed
<1>2. \A i \in DueNeeds(d) : /\ i \in ActiveNeeds /\ i \in DOMAIN needs /\ needs[i] \in Need
                            /\ needs[i].response # "Returned"
  <2>1. needs \in Seq(Need)
    BY DEF RInv, Typed
  <2> QED
    BY <2>1 DEF DueNeeds, ActiveNeeds
<1>3. CASE UNCHANGED <<needs, told, n>>
  <2>1. UNCHANGED <<boundary, present, attempts, published, worker, hook, shown>>
    BY <1>1 DEF Still, world
  <2>2. Typed'
    BY <1>3, <2>1 DEF RInv, Typed
  <2>3. \A g \in Hooks : hook[g].srv # "idle" => hook[g].cue.attempt \in Nat \ {0}
    BY DEF RInv, Held
  <2>4. Ledger'
    BY <1>3, <2>1, <2>3, HooksStep
  <2> QED
    BY <2>2, <2>4, WholeStep
<1>4. ASSUME NEW i \in DueNeeds(d), DueEnds(d, i) PROVE RInv'
  BY <1>1, <1>2, <1>4, DueEndsStep
<1>5. ASSUME NEW i \in DueNeeds(d), UNCHANGED <<told, n>>,
             needs' = [needs EXCEPT ![i] = [needs[i] EXCEPT !.response = "Claimed", !.request = d]]
      PROVE  RInv'
  BY <1>1, <1>2, <1>5, AnswerNeedStep
<1>6. ASSUME NEW i \in DueNeeds(d), needs[i].request = d, NEW resp \in {"Returned", "Unknown"},
             needs' = [needs EXCEPT ![i] = [needs[i] EXCEPT !.response = resp]],
             told' = IF resp = "Returned" THEN told \cup {[need |-> i, request |-> d]} ELSE told,
             n' = n \/ Fault
      PROVE  RInv'
  <2>1. ASSUME NEW y \in Need
        PROVE  [y EXCEPT !.response = resp] = [y EXCEPT !.response = resp, !.request = y.request]
    BY DEF Need
  <2>2. needs' = [needs EXCEPT ![i] = [needs[i] EXCEPT !.response = resp, !.request = d]]
    BY <1>2, <1>6, <2>1
  <2>3. n' \in Counters /\ n'.max = n.max
    BY <1>1, <1>6, Tally DEF Fault
  <2> QED
    BY <1>1, <1>2, <1>6, <2>2, <2>3, AnswerNeedStep
<1>7. CASE search_due(d)
  BY <1>3, <1>4, <1>5, <1>7 DEF search_due
<1>8. CASE due_result(d)
  <2>1. \/ UNCHANGED <<needs, told, n>>
        \/ \E i \in DueNeeds(d) : DueEnds(d, i)
        \/ \E i \in DueNeeds(d) :
              /\ needs[i].request = d
              /\ \/ /\ needs' = [needs EXCEPT ![i] = [needs[i] EXCEPT !.response = "Returned"]]
                    /\ told' = told \cup {[need |-> i, request |-> d]} /\ n' = n
                 \/ /\ Fault /\ told' = told
                    /\ needs' = [needs EXCEPT ![i] = [needs[i] EXCEPT !.response = "Unknown"]]
    BY <1>8 DEF due_result
  <2>2. CASE \E i \in DueNeeds(d) :
              /\ needs[i].request = d
              /\ \/ /\ needs' = [needs EXCEPT ![i] = [needs[i] EXCEPT !.response = "Returned"]]
                    /\ told' = told \cup {[need |-> i, request |-> d]} /\ n' = n
                 \/ /\ Fault /\ told' = told
                    /\ needs' = [needs EXCEPT ![i] = [needs[i] EXCEPT !.response = "Unknown"]]
    BY <1>6, <2>2
  <2> QED
    BY <1>3, <1>4, <2>1, <2>2
<1> QED
  BY <1>7, <1>8

-----------------------------------------------------------------------------
(* The invariant holds at the start and is inductive.                         *)

LEMMA RemindersInit == Init => RInv
<1> SUFFICES ASSUME Init PROVE RInv
  OBVIOUS
<1>1. PICK sc \in Scenarios :
         n = [changes |-> 0, attempts |-> 0, faults |-> 0, crashes |-> 0, gen |-> 1, max |-> sc]
  BY DEF Init
<1>2. n \in Counters /\ n.max = sc /\ sc.boundaries \in Nat \ {0}
  BY <1>1, RecallAssumption DEF Counters
<1>3. worker \in Worker /\ NoCue \in Cues
  BY DEF Init, Worker, Cues
<1>4. needs = <<>> /\ needs \in Seq(Need) /\ Len(needs) = 0 /\ DOMAIN needs = {}
  BY DEF Init
<1>5. Typed
  <2>1. boundary.no = 1 /\ present = Contracts /\ attempts = {} /\ published = NoCue /\ told = {}
    BY DEF Init
  <2>2. hook \in [Hooks -> HookState] /\ shown \in [1 .. MaxNeeds -> Nat]
    BY IdleTyped DEF Init
  <2>3. MaxNeeds \in Nat
    BY RecallAssumption
  <2> QED
    BY <1>2, <1>3, <1>4, <2>1, <2>2, <2>3 DEF Typed
<1>6. Alone /\ Linked /\ Carried /\ Counted /\ Answered
  BY <1>4 DEF Init, Alone, ActiveNeeds, Linked, Carried, Counted, Answered, ToldOnce
<1>7. Held
  BY IdleTyped DEF Init, Held, Holding
<1> QED
  BY <1>5, <1>6, <1>7 DEF RInv

LEMMA RemindersStep == RInv /\ [Next]_vars => RInv'
<1> SUFFICES ASSUME RInv, [Next]_vars PROVE RInv'
  OBVIOUS
<1>1. CASE Checkpoint \/ (\E k \in Contracts : ContractChanges(k)) \/ (\E a \in 1 .. MaxAttempts : CueExpires(a))
  BY <1>1, WorldStep
<1>2. CASE \E i \in 1 .. MaxNeeds : PresentationExpires(i)
  BY <1>2, LateStep
<1>3. CASE recall_worker
  BY <1>3, WorkerStep
<1>4. ASSUME NEW h \in Hooks,
             \/ select_recall_cue(h) \/ authorize(h) \/ Claim(h)
             \/ emit_recall_context(h) \/ outcome(h) \/ HookGone(h)
      PROVE  RInv'
  BY <1>4, HookStep
<1>5. CASE \E d \in Requests : search_due(d) \/ due_result(d)
  BY <1>5, RequestStep
<1>6. CASE Crash
  BY <1>6, RestartStep DEF Crash
<1>7. CASE UNCHANGED vars
  <2>1. UNCHANGED <<boundary, present, needs, attempts, published, worker, hook, shown, told, n>>
    BY <1>7 DEF vars, world, ledger
  <2>2. Typed'
    BY <2>1 DEF RInv, Typed
  <2>3. \A g \in Hooks : hook[g].srv # "idle" => hook[g].cue.attempt \in Nat \ {0}
    BY DEF RInv, Held
  <2>4. Ledger'
    BY <2>1, <2>3, HooksStep
  <2> QED
    BY <2>2, <2>4, WholeStep
<1> QED
  BY <1>1, <1>2, <1>3, <1>4, <1>5, <1>6, <1>7 DEF Next, Own

\* The invariant says what the run checks.
LEMMA RemindersMeaning == RInv => LedgerSound /\ RemindedOnce
<1> SUFFICES ASSUME RInv PROVE LedgerSound /\ RemindedOnce
  OBVIOUS
<1>1. TypeOK
  <2>1. \A i \in DOMAIN needs : needs[i] \in Need
    BY DEF RInv, Typed
  <2>2. \A i \in DOMAIN needs : needs[i].obligation \in Obligations /\ needs[i].delivery \in Deliveries
    BY <2>1 DEF Need
  <2>3. n.max \in Scenarios /\ worker.adv \in 0 .. 2 /\ worker.pc \in {"idle", "read", "cues", "publish"}
    BY DEF RInv, Typed, Counters, Worker
  <2> QED
    BY <2>2, <2>3 DEF RInv, Typed, Carried, TypeOK, Deliveries
<1>2. OneActiveNeed
  <2>1. CASE ActiveNeeds = {}
    BY <2>1, FS_EmptySet DEF OneActiveNeed
  <2>2. CASE ActiveNeeds # {}
    <3>1. PICK i \in ActiveNeeds : TRUE
      BY <2>2
    <3>2. ActiveNeeds = {i}
      BY <3>1 DEF RInv, Alone
    <3>3. Cardinality({i}) = 1
      BY FS_Singleton, Zenon
    <3>4. Cardinality(ActiveNeeds) = 1
      BY <3>2, <3>3, Zenon
    <3> QED
      BY <3>4 DEF OneActiveNeed
  <2> QED
    BY <2>1, <2>2
<1>3. ClaimedAtItsBoundary
  BY DEF RInv, Linked, ClaimedAtItsBoundary
<1>4. ShownOnce
  BY DEF RInv, Counted, Typed, ShownOnce
<1>5. DeliveryTruthful
  BY DEF RInv, Counted, DeliveryTruthful, Open
<1>6. ToldOnce
  BY DEF RInv, Answered
<1> QED
  BY <1>1, <1>2, <1>3, <1>4, <1>5, <1>6 DEF LedgerSound, RemindedOnce

-----------------------------------------------------------------------------
(* Methods: the inductive invariant.                                          *)

Stages == {"none", "Routed"} \cup Method!Returned
Verdicts == {"none", "Apply", "Defer"}
Publication == [state : Method!States, resume : Method!States, harmed : BOOLEAN]
Usage == [stage : Stages, gen : Nat, decision : Verdicts, attempt : {0, 1, 2}]
Work == [op : {"none", "spooled", "landed"}, late : BOOLEAN, after : BOOLEAN,
         informed : BOOLEAN, results : Seq({"passed", "failed", "mismatch"})]
Query == [pc : {"idle", "routed", "answered"}, use : Method!Uses \cup {<<0, 0>>}, gen : Nat,
          decision : Verdicts]
Consumer == [job : {"none", "queued"}, dirty : BOOLEAN, spent : BOOLEAN]
Promotion == [job : {"none", "queued", "leased", "ended"}, cohort : SUBSET Tasks]
Negative == [use : Method!Uses, level : {"Ineffective", "SuspectedHarm", "ConfirmedHarm"},
             local : BOOLEAN, refs : SUBSET Nat, since : Nat,
             review : {"Pending", "Upheld", "Dismissed"}]
Events == [queries : Nat, deletions : Nat, faults : Nat, max : Methods]

Types ==
    /\ rev \in Method!Revs /\ proposals \subseteq Method!Revs /\ applied \subseteq Method!Uses
    /\ pub \in [Method!Revs -> Publication]
    /\ usage \in [Method!Uses -> Usage]
    /\ work \in [Method!Uses -> [{1, 2} -> Work]]
    /\ query \in [Queries -> Query]
    /\ consumer \in [Method!Uses -> Consumer]
    /\ promotion \in [Method!Revs -> Promotion]
    /\ negatives \in Seq(Negative)
    /\ m \in Events

\* Revisions before the current one are superseded, later ones untouched.
Chain ==
    \A r \in Method!Revs : /\ (pub[r].state = "ReviewHold") = (pub[r].resume \in Method!Active)
                           /\ (r < rev) = (pub[r].state = "Superseded")
                           /\ (r > rev) = (pub[r].state = "None")
                           /\ pub[r].state = "None" => pub[r].resume = "None" /\ ~pub[r].harmed

\* A replacement has room.
Bases == \A b \in proposals : b + 1 \in Method!Revs

\* A usage names an attempt from its first credit on, and only where it was applied.
Named ==
    \A u \in Method!Uses : /\ (usage[u].stage \in {"Action", "Outcome"}) = (usage[u].attempt # 0)
                           /\ usage[u].attempt # 0 => usage[u].decision = "Apply"
                           /\ usage[u].stage = "none" => usage[u].gen = 0

\* A search in flight knows no later generation than the journal; the generation it
\* recorded carries its verdict; an answered APPLY has reached the host.
Asked ==
    \A q \in Queries : query[q].pc # "idle" =>
        LET u == query[q].use IN
        /\ u \in Method!Uses /\ query[q].gen <= usage[u].gen
        /\ query[q].gen # 0 /\ usage[u].stage = "Routed" /\ usage[u].gen = query[q].gen
              => usage[u].decision = query[q].decision
        /\ query[q].pc = "answered" /\ query[q].decision = "Apply" => u \in applied

\* A confirmed return of an APPLY has reached the host.
Told == \A u \in Method!Uses : usage[u].stage \in Method!Returned /\ usage[u].decision = "Apply" => u \in applied

\* Work received after the return was informed by it.
Late ==
    \A u \in Method!Uses, k \in {1, 2} : work[u][k].late =>
        usage[u].stage \in Method!Returned /\ (usage[u].decision = "Apply" => work[u][k].informed)

\* Jobs run for returned APPLYs only.
Queued ==
    \A u \in Method!Uses : consumer[u].job = "queued" =>
        usage[u].stage \in Method!Returned /\ usage[u].decision = "Apply"

\* A claimed promotion has a full cohort.
Cohorts == \A r \in Method!Revs : promotion[r].job = "leased" => Method!Cardinality(promotion[r].cohort) = Threshold

MInv == /\ Types /\ Chain /\ Bases /\ Named /\ Asked /\ Told /\ Late /\ Queued /\ Cohorts
        /\ Method!SupportIsCausal /\ Method!StableOnMerit /\ Method!HarmedStaysOut

Step == Method!Next \/ Method!Crash

-----------------------------------------------------------------------------
LEMMA MethodsInit == Method!WellFormed /\ Method!Init => MInv
<1> SUFFICES ASSUME Method!WellFormed, Method!Init PROVE MInv
  OBVIOUS
<1>1. 1 \in Method!Revs /\ Method!Uses = Method!Revs \X Tasks
  BY DEF Method!Revs, Method!Uses, Method!WellFormed
<1>2. PICK sc \in Methods :
        /\ m = [queries |-> 0, deletions |-> 0, faults |-> 0, max |-> sc]
        /\ usage = [u \in Method!Uses |-> IF u[1] = 1 /\ u[2] \in sc.proven THEN Method!Supported ELSE Method!NoUsage]
        /\ work = [u \in Method!Uses |->
                     [k \in {1, 2} |-> IF u[1] = 1 /\ u[2] \in sc.proven /\ k = 1
                                       THEN Method!Verified ELSE Method!NoWork]]
        /\ applied = {1} \X sc.proven
  BY DEF Method!Init
<1>3. Method!Verified \in Work /\ Method!NoWork \in Work /\ Method!Supported \in Usage /\ Method!NoUsage \in Usage
  BY DEF Method!Verified, Method!NoWork, Method!Supported, Method!NoUsage, Work, Usage, Stages, Method!Returned, Verdicts
<1>4. applied \subseteq Method!Uses
  BY <1>1, <1>2 DEF Method!WellFormed
<1>5. \A u \in Method!Uses : u[1] = 1 /\ u[2] \in sc.proven => u \in applied
  BY <1>1, <1>2
<1>6. Types
  <2>1. usage \in [Method!Uses -> Usage] /\ work \in [Method!Uses -> [{1, 2} -> Work]]
    BY <1>2, <1>3
  <2>2. pub \in [Method!Revs -> Publication] /\ query \in [Queries -> Query]
    BY DEF Method!Init, Publication, Method!States, Method!Active, Query, Method!NoQuery, Verdicts
  <2>3. consumer \in [Method!Uses -> Consumer] /\ promotion \in [Method!Revs -> Promotion]
    BY DEF Method!Init, Consumer, Promotion
  <2> QED
    BY <1>1, <1>2, <1>4, <2>1, <2>2, <2>3 DEF Types, Events, Method!Init
<1>7. Chain /\ Method!StableOnMerit /\ Method!HarmedStaysOut
  BY <1>1 DEF Method!Init, Chain, Method!StableOnMerit, Method!HarmedStaysOut, Method!Active, Method!Revs
<1>8. Named /\ Told /\ Late /\ Method!SupportIsCausal
  BY <1>2, <1>5 DEF Named, Told, Late, Method!SupportIsCausal, Method!Supported, Method!NoUsage, Method!Verified, Method!NoWork, Method!Returned
<1>9. Bases /\ Asked /\ Queued /\ Cohorts
  BY DEF Method!Init, Bases, Asked, Queued, Cohorts, Method!NoQuery
<1> QED
  BY <1>6, <1>7, <1>8, <1>9 DEF MInv

-----------------------------------------------------------------------------
\* New input wakes the jobs that read it and changes none (Touched).
LEMMA Touching ==
  ASSUME consumer \in [Method!Uses -> Consumer], NEW S, Method!Touched(S)
  PROVE  consumer' \in [Method!Uses -> Consumer] /\ \A x \in Method!Uses : consumer'[x].job = consumer[x].job
<1>1. \A x \in Method!Uses : /\ consumer[x] \in Consumer
                             /\ [consumer[x] EXCEPT !.dirty = TRUE, !.spent = FALSE] \in Consumer
                             /\ [consumer[x] EXCEPT !.dirty = TRUE, !.spent = FALSE].job = consumer[x].job
  BY DEF Consumer
<1> DEFINE woken(x) == [consumer[x] EXCEPT !.dirty = TRUE, !.spent = FALSE]
<1>2. consumer' = [x \in Method!Uses |-> IF x \in S THEN woken(x) ELSE consumer[x]]
  BY DEF Method!Touched
<1>3. \A x \in Method!Uses : consumer[x] \in Consumer /\ woken(x) \in Consumer /\ woken(x).job = consumer[x].job
  BY <1>1
<1> HIDE DEF woken
<1> QED
  BY <1>2, <1>3

-----------------------------------------------------------------------------
(* Search.                                                                    *)

\* A route adds a generation or changes nothing; what was returned stays as it is
\* (begin_procedure_usage).
LEMMA RouteOutcome ==
  ASSUME Types, Named, NEW u \in Method!Uses, NEW d \in {"Apply", "Defer"}
  PROVE  LET next == Method!begin_procedure_usage(u, d) IN
         /\ next \in Usage
         /\ \/ next = usage[u]
            \/ /\ next.stage = "Routed" /\ next.gen = usage[u].gen + 1 /\ next.decision = d
               /\ next.attempt = usage[u].attempt
               /\ usage[u].stage \in {"none", "Routed"}
<1>1. usage[u] \in Usage
  BY DEF Types
<1>2. /\ usage[u].stage = "none" => usage[u].gen = 0 /\ usage[u].attempt = 0
  BY DEF Named
<1>3. CASE usage[u].stage = "none"
  BY <1>1, <1>2, <1>3 DEF Method!begin_procedure_usage, Usage, Stages, Method!Returned, Verdicts
<1>4. CASE usage[u].stage = "Routed" /\ usage[u].decision = d
  <2>1. Method!begin_procedure_usage(u, d) = [usage[u] EXCEPT !.gen = usage[u].gen + 1]
    BY <1>4 DEF Method!begin_procedure_usage
  <2> QED
    BY <1>1, <1>4, <2>1 DEF Usage, Stages, Method!Returned, Verdicts
<1>5. CASE ~(usage[u].stage = "none") /\ ~(usage[u].stage = "Routed" /\ usage[u].decision = d)
  <2>1. Method!begin_procedure_usage(u, d) = usage[u]
    BY <1>5 DEF Method!begin_procedure_usage
  <2> QED
    BY <1>1, <2>1
<1> QED
  BY <1>3, <1>4, <1>5

LEMMA RouteStep ==
  ASSUME MInv, NEW q \in Queries, NEW t \in Tasks, Method!route_search(q, t)
  PROVE  MInv'
<1> DEFINE u == <<rev, t>>
<1>1. Types /\ u \in Method!Uses
  BY DEF MInv, Types, Method!Uses
<1>2. PICK d \in {"Apply", "Defer"} :
        /\ usage' = [usage EXCEPT ![u] = Method!begin_procedure_usage(u, d)]
        /\ query' = [query EXCEPT ![q] =
              [pc |-> "routed", use |-> u, decision |-> d,
               gen |-> IF Method!begin_procedure_usage(u, d) # usage[u]
                       THEN Method!begin_procedure_usage(u, d).gen ELSE 0]]
  BY DEF Method!route_search, Method!Decisions
<1> DEFINE next == Method!begin_procedure_usage(u, d)
<1> HIDE DEF u
<1>3. /\ next \in Usage
      /\ \/ next = usage[u]
         \/ /\ next.stage = "Routed" /\ next.gen = usage[u].gen + 1 /\ next.decision = d
            /\ next.attempt = usage[u].attempt
            /\ usage[u].stage \in {"none", "Routed"}
  BY <1>1, RouteOutcome DEF MInv
<1> HIDE DEF next
<1>u. usage' = [usage EXCEPT ![u] = next]
  BY <1>2 DEF next
<1>v. query' = [query EXCEPT ![q] = [pc |-> "routed", use |-> u, decision |-> d,
                                     gen |-> IF next # usage[u] THEN next.gen ELSE 0]]
  BY <1>2 DEF next
<1>w. UNCHANGED <<rev, pub, negatives, proposals, work, applied, consumer, promotion>>
  BY DEF Method!route_search
<1>4. Types'
  <2>0. m' = [m EXCEPT !.queries = m.queries + 1]
    BY DEF Method!route_search
  <2>1. m' \in Events
    <3>1. m \in Events
      BY <1>1 DEF Types
    <3>2. [m EXCEPT !.queries = m.queries + 1] \in Events
      BY <3>1 DEF Events
    <3> QED
      BY <2>0, <3>2
  <2>2. query' \in [Queries -> Query]
    BY <1>1, <1>3, <1>v DEF Types, Query, Usage, Verdicts
  <2>3. usage' \in [Method!Uses -> Usage]
    BY <1>1, <1>3, <1>u DEF Types
  <2> QED
    BY <1>1, <2>1, <2>2, <2>3, <1>w DEF Types
<1>5. Named' /\ Told' /\ Late' /\ Queued' /\ Method!SupportIsCausal'
  BY <1>1, <1>3, <1>u, <1>w DEF MInv, Types, Named, Told, Late, Queued, Method!SupportIsCausal, Usage, Method!Returned
<1>6. Asked'
  <2> SUFFICES ASSUME NEW p \in Queries, query'[p].pc # "idle"
               PROVE  /\ query'[p].use \in Method!Uses /\ query'[p].gen <= usage'[query'[p].use].gen
                      /\ query'[p].gen # 0 /\ usage'[query'[p].use].stage = "Routed"
                           /\ usage'[query'[p].use].gen = query'[p].gen
                            => usage'[query'[p].use].decision = query'[p].decision
                      /\ query'[p].pc = "answered" /\ query'[p].decision = "Apply" => query'[p].use \in applied'
    BY DEF Asked
  <2>1. CASE p = q
    BY <2>1, <1>1, <1>3, <1>u, <1>v DEF Types, Usage
  <2>2. CASE p # q
    <3>1. query'[p] = query[p]
      BY <2>2, <1>1, <1>v DEF Types
    <3>2. /\ query[p].use \in Method!Uses /\ query[p].gen <= usage[query[p].use].gen
          /\ query[p].gen # 0 /\ usage[query[p].use].stage = "Routed"
                 /\ usage[query[p].use].gen = query[p].gen
              => usage[query[p].use].decision = query[p].decision
          /\ query[p].pc = "answered" /\ query[p].decision = "Apply" => query[p].use \in applied
      BY <3>1 DEF MInv, Asked
    <3>3. query[p].gen \in Nat /\ usage[query[p].use].gen \in Nat
      BY <1>1, <3>2 DEF Types, Query, Usage
    <3> QED
      BY <3>1, <3>2, <3>3, <1>1, <1>3, <1>u, <1>w DEF Types, Usage
  <2> QED
    BY <2>1, <2>2
<1>7. Method!StableOnMerit'
  <2>1. \A x \in Method!Uses : usage'[x].stage = "Outcome" <=> usage[x].stage = "Outcome"
    BY <1>1, <1>3, <1>u DEF Types, Usage
  <2>2. \A r \in Method!Revs : Method!OutcomeSupported(r)' = Method!OutcomeSupported(r)
    BY <2>1 DEF Method!OutcomeSupported, Method!Uses
  <2> QED
    BY <2>2, <1>w DEF MInv, Method!StableOnMerit
<1>8. Chain' /\ Bases' /\ Cohorts' /\ Method!HarmedStaysOut'
  BY <1>w DEF MInv, Chain, Bases, Cohorts, Method!HarmedStaysOut
<1> QED
  BY <1>4, <1>5, <1>6, <1>7, <1>8 DEF MInv

LEMMA AnswerStep ==
  ASSUME MInv, NEW q \in Queries, Method!answer(q) \/ Method!ClientGone(q)
  PROVE  MInv'
<1>1. Types /\ Asked
  BY DEF MInv
<1>2. UNCHANGED <<rev, pub, usage, negatives, proposals, work, consumer, promotion, m>>
  BY DEF Method!answer, Method!ClientGone, Method!journal
<1>3. applied \subseteq applied' /\ applied' \subseteq Method!Uses
  BY <1>1 DEF Method!answer, Method!ClientGone, Types, Asked
<1>4. PICK x \in Query :
        /\ query' = [query EXCEPT ![q] = x]
        /\ x.pc = "answered" =>
              /\ query[q].pc # "idle" /\ x.use = query[q].use /\ x.gen = query[q].gen
              /\ x.decision = query[q].decision /\ (x.decision = "Apply" => x.use \in applied')
        /\ x.pc # "routed"
  <2>1. query[q] \in Query
    BY <1>1 DEF Types
  <2>2. CASE Method!answer(q)
    <3> DEFINE x == [query[q] EXCEPT !.pc = "answered"]
    <3>1. /\ x \in Query /\ x.pc = "answered" /\ x.use = query[q].use
          /\ x.gen = query[q].gen /\ x.decision = query[q].decision
      BY <2>1 DEF Query
    <3>2. /\ query' = [query EXCEPT ![q] = x] /\ query[q].pc = "routed"
          /\ query[q].decision = "Apply" => query[q].use \in applied'
      BY <2>2 DEF Method!answer
    <3> HIDE DEF x
    <3> QED
      BY <3>1, <3>2
  <2>3. CASE Method!ClientGone(q)
    <3>1. Method!NoQuery \in Query /\ Method!NoQuery.pc = "idle"
      BY DEF Method!NoQuery, Query, Verdicts
    <3> QED
      BY <2>3, <3>1 DEF Method!ClientGone
  <2> QED
    BY <2>2, <2>3
<1>5. Types' /\ Asked'
  <2>1. Types'
    BY <1>1, <1>2, <1>3, <1>4 DEF Types
  <2>2. Asked'
    <3> SUFFICES ASSUME NEW p \in Queries, query'[p].pc # "idle"
                 PROVE  /\ query'[p].use \in Method!Uses /\ query'[p].gen <= usage[query'[p].use].gen
                        /\ query'[p].gen # 0 /\ usage[query'[p].use].stage = "Routed"
                             /\ usage[query'[p].use].gen = query'[p].gen
                              => usage[query'[p].use].decision = query'[p].decision
                        /\ query'[p].pc = "answered" /\ query'[p].decision = "Apply" => query'[p].use \in applied'
      BY <1>2 DEF Asked
    <3>1. CASE p = q
      BY <3>1, <1>1, <1>4 DEF Types, Asked, Query
    <3>2. CASE p # q
      BY <3>2, <1>1, <1>3, <1>4 DEF Types, Asked
    <3> QED
      BY <3>1, <3>2
  <2> QED
    BY <2>1, <2>2
<1>6. Told' /\ Late' /\ Named' /\ Queued' /\ Method!SupportIsCausal' /\ Chain' /\ Bases' /\ Cohorts' /\ Method!HarmedStaysOut'
  BY <1>2, <1>3 DEF MInv, Told, Late, Named, Queued, Method!SupportIsCausal, Chain, Bases, Cohorts, Method!HarmedStaysOut
<1>7. Method!StableOnMerit'
  BY <1>2 DEF MInv, Method!StableOnMerit, Method!OutcomeSupported
<1> QED
  BY <1>5, <1>6, <1>7 DEF MInv

\* Searches in flight are not disturbed by later generations of the usages.
LEMMA AskedKept ==
  ASSUME Types, Types', Asked, applied \subseteq applied',
         \A p \in Queries : query'[p] = query[p] \/ query'[p].pc = "idle",
         \A x \in Method!Uses : /\ usage'[x].gen >= usage[x].gen
                                /\ usage'[x] = usage[x] \/ usage'[x].stage # "Routed"
  PROVE  Asked'
<1> SUFFICES ASSUME NEW p \in Queries, query'[p].pc # "idle"
             PROVE  /\ query'[p].use \in Method!Uses /\ query'[p].gen <= usage'[query'[p].use].gen
                    /\ query'[p].gen # 0 /\ usage'[query'[p].use].stage = "Routed"
                         /\ usage'[query'[p].use].gen = query'[p].gen
                          => usage'[query'[p].use].decision = query'[p].decision
                    /\ query'[p].pc = "answered" /\ query'[p].decision = "Apply" => query'[p].use \in applied'
  BY DEF Asked
<1>1. query'[p] = query[p]
  OBVIOUS
<1>2. query[p] \in Query
  BY DEF Types
<1>3. /\ query[p].use \in Method!Uses /\ query[p].gen <= usage[query[p].use].gen
      /\ query[p].gen # 0 /\ usage[query[p].use].stage = "Routed"
             /\ usage[query[p].use].gen = query[p].gen
          => usage[query[p].use].decision = query[p].decision
      /\ query[p].pc = "answered" /\ query[p].decision = "Apply" => query[p].use \in applied
  BY <1>1 DEF Asked
<1>4. query[p].gen \in Nat /\ usage[query[p].use] \in Usage /\ usage'[query[p].use] \in Usage
  BY <1>2, <1>3 DEF Types, Query
<1> QED
  BY <1>1, <1>3, <1>4 DEF Usage

\* A confirmed return adds a generation (confirm_procedure_return).
LEMMA Confirmed ==
  ASSUME NEW o \in Usage, NEW g \in Nat, g = o.gen
  PROVE  LET x == [o EXCEPT !.stage = "Returned", !.gen = g + 1] IN
         /\ x \in Usage /\ x.stage = "Returned" /\ x.gen = o.gen + 1 /\ x.gen >= o.gen
         /\ x.decision = o.decision /\ x.attempt = o.attempt
<1>1. "Returned" \in Stages /\ g + 1 \in Nat /\ g + 1 >= g
  BY DEF Stages, Method!Returned
<1>2. PICK s \in Stages, k1 \in Nat : s = "Returned" /\ k1 = g + 1
  BY <1>1
<1>3. LET x == [o EXCEPT !.stage = s, !.gen = k1] IN
      x \in Usage /\ x.stage = s /\ x.gen = k1 /\ x.decision = o.decision /\ x.attempt = o.attempt
  BY DEF Usage
<1> QED
  BY <1>1, <1>2, <1>3

LEMMA ReturnStep ==
  ASSUME MInv, NEW q \in Queries, Method!confirm_procedure_return(q)
  PROVE  MInv'
<1> DEFINE u == query[q].use
           hit == query[q].gen # 0 /\ usage[u].stage = "Routed" /\ usage[u].gen = query[q].gen
<1>1. /\ Types /\ Asked /\ u \in Method!Uses /\ Method!NoQuery \in Query
      /\ query[q].decision = "Apply" => u \in applied
      /\ hit => usage[u].decision = query[q].decision
  BY DEF MInv, Asked, Method!confirm_procedure_return, Method!NoQuery, Query, Verdicts
<1>2. query' = [query EXCEPT ![q] = Method!NoQuery]
  BY DEF Method!confirm_procedure_return
<1>3. usage' = IF hit THEN [usage EXCEPT ![u] = [usage[u] EXCEPT !.stage = "Returned", !.gen = query[q].gen + 1]] ELSE usage
  BY DEF Method!confirm_procedure_return
<1>4. UNCHANGED <<rev, pub, negatives, proposals, work, applied, consumer, promotion, m>>
  BY DEF Method!confirm_procedure_return
<1> HIDE DEF u
<1>5. /\ usage' \in [Method!Uses -> Usage]
      /\ \A x \in Method!Uses : /\ usage'[x].decision = usage[x].decision /\ usage'[x].attempt = usage[x].attempt
                                /\ usage'[x].gen >= usage[x].gen
                                /\ \/ usage'[x] = usage[x]
                                   \/ /\ hit /\ x = u /\ usage'[x].stage = "Returned" /\ usage[x].stage = "Routed"
                                      /\ usage'[x].gen = usage[x].gen + 1
  <2>1. usage[u] \in Usage /\ usage \in [Method!Uses -> Usage]
    BY <1>1 DEF Types
  <2>2. CASE hit
    <3> DEFINE x == [usage[u] EXCEPT !.stage = "Returned", !.gen = query[q].gen + 1]
    <3>2. query[q].gen \in Nat /\ query[q].gen = usage[u].gen
      BY <1>1, <2>2 DEF Types, Query
    <3>3. /\ x \in Usage /\ x.stage = "Returned" /\ x.gen = usage[u].gen + 1 /\ x.gen >= usage[u].gen
          /\ x.decision = usage[u].decision /\ x.attempt = usage[u].attempt
      BY <2>1, <3>2, Confirmed
    <3>4. usage' = [usage EXCEPT ![u] = x]
      BY <1>3, <2>2
    <3> HIDE DEF x
    <3> QED
      BY <1>1, <2>1, <2>2, <3>3, <3>4 DEF Usage
  <2>3. CASE ~hit
    BY <1>3, <2>1, <2>3 DEF Usage
  <2> QED
    BY <2>2, <2>3
<1> HIDE DEF hit
<1>6. Types'
  BY <1>1, <1>2, <1>4, <1>5 DEF Types
<1>7. Asked'
  <2>1. \A p \in Queries : query'[p] = query[p] \/ query'[p].pc = "idle"
    BY <1>1, <1>2 DEF Types, Method!NoQuery
  <2> QED
    BY <1>1, <1>4, <1>5, <1>6, <2>1, AskedKept
<1>8. Named' /\ Told' /\ Late' /\ Queued' /\ Method!SupportIsCausal'
  <2>1. Named' /\ Queued' /\ Method!SupportIsCausal'
    BY <1>4, <1>5 DEF MInv, Named, Queued, Method!SupportIsCausal, Method!Returned
  <2>2. Told' /\ Late'
    BY <1>1, <1>4, <1>5 DEF MInv, Told, Late, Method!Returned
  <2> QED
    BY <2>1, <2>2
<1>9. Method!StableOnMerit'
  <2>1. \A x \in Method!Uses : usage'[x].stage = "Outcome" <=> usage[x].stage = "Outcome"
    BY <1>5
  <2>2. \A r \in Method!Revs : Method!OutcomeSupported(r)' = Method!OutcomeSupported(r)
    BY <2>1 DEF Method!OutcomeSupported, Method!Uses
  <2> QED
    BY <2>2, <1>4 DEF MInv, Method!StableOnMerit
<1>10. Chain' /\ Bases' /\ Cohorts' /\ Method!HarmedStaysOut'
  BY <1>4 DEF MInv, Chain, Bases, Cohorts, Method!HarmedStaysOut
<1> QED
  BY <1>6, <1>7, <1>8, <1>9, <1>10 DEF MInv

-----------------------------------------------------------------------------
(* Work and its credit.                                                       *)

\* What a hook event, its ingestion and a result do to an attempt (Operate, Ingest, Result).
LEMMA Spooled ==
  ASSUME NEW w \in Work, NEW a \in BOOLEAN, NEW b \in BOOLEAN
  PROVE  /\ [w EXCEPT !.op = "spooled", !.late = a, !.informed = b] \in Work
         /\ [w EXCEPT !.op = "spooled", !.late = a, !.informed = b].late = a
         /\ [w EXCEPT !.op = "spooled", !.late = a, !.informed = b].informed = b
  BY DEF Work

LEMMA Landed ==
  ASSUME NEW w \in Work, NEW a \in BOOLEAN
  PROVE  /\ [w EXCEPT !.op = "landed", !.after = a] \in Work
         /\ [w EXCEPT !.op = "landed", !.after = a].late = w.late
         /\ [w EXCEPT !.op = "landed", !.after = a].informed = w.informed
  BY DEF Work

LEMMA Resulted ==
  ASSUME NEW w \in Work, NEW kind \in {"passed", "failed", "mismatch"}
  PROVE  /\ [w EXCEPT !.results = Append(w.results, kind)] \in Work
         /\ [w EXCEPT !.results = Append(w.results, kind)].late = w.late
         /\ [w EXCEPT !.results = Append(w.results, kind)].informed = w.informed
  BY DEF Work

\* The hook's event, its ingestion and the results of an attempt.
LEMMA WorkStep ==
  ASSUME MInv, NEW u \in Method!Uses, NEW k \in {1, 2},
         Method!Operate(u, k) \/ Method!Ingest(u, k) \/ (\E kind \in {"passed", "failed", "mismatch"} : Method!Result(u, k, kind))
  PROVE  MInv'
<1>1. Types
  BY DEF MInv
<1>2. UNCHANGED <<rev, pub, usage, negatives, proposals, applied, query, promotion, m>>
  BY DEF Method!Operate, Method!Ingest, Method!Result, Method!Aside, Method!journal
<1>3. consumer' \in [Method!Uses -> Consumer] /\ \A x \in Method!Uses : consumer'[x].job = consumer[x].job
  <2>1. consumer \in [Method!Uses -> Consumer]
    BY <1>1 DEF Types
  <2>2. consumer' = consumer \/ Method!Touched({u})
    BY DEF Method!Operate, Method!Ingest, Method!Result
  <2>3. CASE Method!Touched({u})
    BY <2>1, <2>3, Touching
  <2> QED
    BY <2>1, <2>2, <2>3
<1>4. PICK w \in Work :
        /\ work' = [work EXCEPT ![u] = [work[u] EXCEPT ![k] = w]]
        /\ \/ w.late = work[u][k].late /\ w.informed = work[u][k].informed
           \/ /\ ~work[u][k].late \/ usage[u].stage \in Method!Returned
              /\ work[u][k].op = "none" /\ w.late = (usage[u].stage \in Method!Returned) /\ w.informed = (u \in applied)
  <2>1. work[u][k] \in Work /\ work[u] \in [{1, 2} -> Work] /\ work \in [Method!Uses -> [{1, 2} -> Work]]
    BY <1>1 DEF Types
  <2>2. CASE Method!Operate(u, k)
    <3> DEFINE w == [work[u][k] EXCEPT !.op = "spooled", !.late = usage[u].stage \in Method!Returned,
                                     !.informed = u \in applied]
    <3>1. w \in Work /\ w.late = (usage[u].stage \in Method!Returned) /\ w.informed = (u \in applied)
      <4>1. (usage[u].stage \in Method!Returned) \in BOOLEAN /\ (u \in applied) \in BOOLEAN
        OBVIOUS
      <4> QED
        BY <2>1, <4>1, Spooled
    <3>2. work' = [work EXCEPT ![u] = [work[u] EXCEPT ![k] = w]] /\ work[u][k].op = "none"
      BY <2>2 DEF Method!Operate
    <3>3. ~work[u][k].late \/ usage[u].stage \in Method!Returned
      BY DEF MInv, Late
    <3> HIDE DEF w
    <3> QED
      BY <3>1, <3>2, <3>3
  <2>3. CASE Method!Ingest(u, k)
    <3> DEFINE w == [work[u][k] EXCEPT !.op = "landed", !.after = usage[u].stage \in Method!Returned]
    <3>1. w \in Work /\ w.late = work[u][k].late /\ w.informed = work[u][k].informed
      <4>1. (usage[u].stage \in Method!Returned) \in BOOLEAN
        OBVIOUS
      <4> QED
        BY <2>1, <4>1, Landed
    <3>2. work' = [work EXCEPT ![u] = [work[u] EXCEPT ![k] = w]]
      BY <2>3 DEF Method!Ingest
    <3> HIDE DEF w
    <3> QED
      BY <3>1, <3>2
  <2>4. ASSUME NEW kind \in {"passed", "failed", "mismatch"}, Method!Result(u, k, kind)
        PROVE  \E w \in Work : /\ work' = [work EXCEPT ![u] = [work[u] EXCEPT ![k] = w]]
                               /\ w.late = work[u][k].late /\ w.informed = work[u][k].informed
    <3> DEFINE w == [work[u][k] EXCEPT !.results = Append(work[u][k].results, kind)]
    <3>1. w \in Work /\ w.late = work[u][k].late /\ w.informed = work[u][k].informed
      BY <2>1, Resulted
    <3>2. work' = [work EXCEPT ![u] = [work[u] EXCEPT ![k] = w]]
      BY <2>4 DEF Method!Result
    <3> HIDE DEF w
    <3> QED
      BY <3>1, <3>2
  <2> QED
    BY <2>2, <2>3, <2>4
<1>5. Types'
  BY <1>1, <1>2, <1>3, <1>4 DEF Types
<1>6. Late'
  BY <1>1, <1>2, <1>4 DEF MInv, Types, Late, Told
<1>7. Method!SupportIsCausal'
  BY <1>1, <1>2, <1>4 DEF MInv, Types, Method!SupportIsCausal, Told, Named, Method!Returned, Usage
<1>8. Told' /\ Named' /\ Queued' /\ Chain' /\ Bases' /\ Cohorts' /\ Method!HarmedStaysOut' /\ Asked'
  BY <1>2, <1>3 DEF MInv, Told, Named, Queued, Chain, Bases, Cohorts, Method!HarmedStaysOut, Asked
<1>9. Method!StableOnMerit'
  BY <1>2 DEF MInv, Method!StableOnMerit, Method!OutcomeSupported
<1> QED
  BY <1>5, <1>6, <1>7, <1>8, <1>9 DEF MInv

\* A usage job names attempts that began after the return, and keeps a named one
\* (procedure/usage.rs).
LEMMA Selection ==
  ASSUME NEW u, usage[u].attempt \in {0, 1, 2}, NEW k \in Method!Selected(u)
  PROVE  /\ k \in {1, 2} /\ work[u][k].late
         /\ usage[u].attempt # 0 => k = usage[u].attempt
<1> DEFINE named == IF usage[u].attempt # 0 THEN {usage[u].attempt} ELSE {1, 2}
           aligned == {j \in named : Method!operation_after_return(work[u][j])}
<1>1. k \in aligned
  BY DEF Method!Selected
<1> QED
  BY <1>1 DEF Method!operation_after_return

\* The record a usage job commits: the same, or one that names the attempt.
LEMMA Credited ==
  ASSUME MInv, NEW u \in Method!Uses
  PROVE  LET x == Method!compile_usage_command(u) IN
         /\ x \in Usage /\ x.decision = usage[u].decision /\ x.gen >= usage[u].gen
         /\ usage[u].stage = "Outcome" => x.stage = "Outcome"
         /\ \/ x = usage[u]
            \/ /\ x.stage \in {"Action", "Outcome"} /\ x.attempt \in {1, 2}
               /\ work[u][x.attempt].late
<1>1. usage[u] \in Usage
  BY DEF MInv, Types
<1>2. CASE Method!usage_publication_current(u) /\ usage[u].stage \in Method!Returned /\ Method!Selected(u) # {}
  <2> DEFINE k == CHOOSE j \in Method!Selected(u) : TRUE
             to == IF usage[u].stage = "Outcome" THEN usage[u].stage ELSE Method!compile_attempt_usage(u, k)
             g == IF usage[u].stage = Method!compile_attempt_usage(u, k) THEN usage[u].gen ELSE usage[u].gen + 1
  <2>1. k \in Method!Selected(u)
    BY <1>2
  <2> HIDE DEF k
  <2>2. k \in {1, 2} /\ work[u][k].late
    BY <1>1, <2>1, Selection DEF Usage
  <2>3. to \in {"Action", "Outcome"} /\ (usage[u].stage = "Outcome" => to = "Outcome")
    BY DEF Method!compile_attempt_usage
  <2>4. g \in Nat /\ g >= usage[u].gen
    BY <1>1 DEF Usage
  <2>5. Method!compile_usage_command(u) = [usage[u] EXCEPT !.attempt = k, !.stage = to, !.gen = g]
    BY <1>2 DEF Method!compile_usage_command, k
  <2> HIDE DEF to, g
  <2>6. LET x == [usage[u] EXCEPT !.attempt = k, !.stage = to, !.gen = g] IN
        x \in Usage /\ x.attempt = k /\ x.stage = to /\ x.gen = g /\ x.decision = usage[u].decision
    <3>1. k \in {0, 1, 2} /\ to \in Stages
      BY <2>2, <2>3 DEF Stages, Method!Returned
    <3>2. ASSUME NEW o \in Usage
          PROVE  LET x == [o EXCEPT !.attempt = k, !.stage = to, !.gen = g] IN
                 x \in Usage /\ x.attempt = k /\ x.stage = to /\ x.gen = g /\ x.decision = o.decision
      BY <2>4, <3>1 DEF Usage
    <3> QED
      BY <1>1, <3>2
  <2> QED
    BY <2>2, <2>3, <2>4, <2>5, <2>6
<1>3. CASE ~(Method!usage_publication_current(u) /\ usage[u].stage \in Method!Returned /\ Method!Selected(u) # {})
  BY <1>1, <1>3 DEF Method!compile_usage_command, Usage
<1> QED
  BY <1>2, <1>3

LEMMA EnqueueUsageStep ==
  ASSUME MInv, NEW u \in Method!Uses, Method!enqueue_procedure_consumers(u)
  PROVE  MInv'
<1>1. Types
  BY DEF MInv
<1>2. UNCHANGED <<rev, pub, usage, negatives, proposals, work, applied, query, promotion, m>>
  BY DEF Method!enqueue_procedure_consumers, Method!Job
<1>3. usage[u].stage \in Method!Returned /\ usage[u].decision = "Apply"
  BY DEF Method!enqueue_procedure_consumers, Method!pending_usage
<1> DEFINE c == [consumer[u] EXCEPT !.job = "queued", !.dirty = FALSE]
<1>4. c \in Consumer
  BY <1>1 DEF Types, Consumer
<1>5. consumer' = [consumer EXCEPT ![u] = c]
  BY DEF Method!enqueue_procedure_consumers
<1> HIDE DEF c
<1>6. Types'
  BY <1>1, <1>2, <1>4, <1>5 DEF Types
<1>7. Queued'
  BY <1>1, <1>2, <1>3, <1>5 DEF MInv, Types, Queued
<1>8. Told' /\ Late' /\ Named' /\ Method!SupportIsCausal' /\ Chain' /\ Bases' /\ Cohorts' /\ Method!HarmedStaysOut' /\ Asked'
  BY <1>2 DEF MInv, Told, Late, Named, Method!SupportIsCausal, Chain, Bases, Cohorts, Method!HarmedStaysOut, Asked
<1>9. Method!StableOnMerit'
  BY <1>2 DEF MInv, Method!StableOnMerit, Method!OutcomeSupported
<1> QED
  BY <1>6, <1>7, <1>8, <1>9 DEF MInv

LEMMA UsageJobStep ==
  ASSUME MInv, NEW u \in Method!Uses, Method!run_procedure_consumer(u)
  PROVE  MInv'
<1>1. Types
  BY DEF MInv
<1>2. UNCHANGED <<rev, pub, negatives, proposals, work, applied, query, promotion>>
  BY DEF Method!run_procedure_consumer, Method!Job
<1>3. usage[u].stage \in Method!Returned /\ usage[u].decision = "Apply"
  BY DEF MInv, Queued, Method!run_procedure_consumer
<1>4. PICK c \in Consumer : consumer' = [consumer EXCEPT ![u] = c] /\ c.job = "none"
  <2>1. consumer[u] \in Consumer
    BY <1>1 DEF Types
  <2>2. /\ [consumer[u] EXCEPT !.job = "none"] \in Consumer
        /\ [consumer[u] EXCEPT !.job = "none"].job = "none"
        /\ [consumer[u] EXCEPT !.job = "none", !.spent = TRUE] \in Consumer
        /\ [consumer[u] EXCEPT !.job = "none", !.spent = TRUE].job = "none"
    BY <2>1 DEF Consumer
  <2>3. \/ consumer' = [consumer EXCEPT ![u] = [consumer[u] EXCEPT !.job = "none"]]
        \/ consumer' = [consumer EXCEPT ![u] = [consumer[u] EXCEPT !.job = "none", !.spent = TRUE]]
    BY DEF Method!run_procedure_consumer
  <2> QED
    BY <2>2, <2>3
<1>5. m' \in Events
  <2>1. m \in Events
    BY <1>1 DEF Types
  <2>2. m' = m \/ m' = [m EXCEPT !.faults = m.faults + 1]
    BY DEF Method!run_procedure_consumer, Method!Fault
  <2>3. [m EXCEPT !.faults = m.faults + 1] \in Events
    BY <2>1 DEF Events
  <2> QED
    BY <2>1, <2>2, <2>3
<1>6. PICK x \in Usage :
        /\ usage' = [usage EXCEPT ![u] = x]
        /\ x.decision = usage[u].decision /\ x.gen >= usage[u].gen
        /\ usage[u].stage = "Outcome" => x.stage = "Outcome"
        /\ \/ x = usage[u]
           \/ /\ x.stage \in {"Action", "Outcome"} /\ x.attempt \in {1, 2}
              /\ work[u][x.attempt].late
  <2>1. usage' = [usage EXCEPT ![u] = Method!compile_usage_command(u)] \/ usage' = usage
    BY DEF Method!run_procedure_consumer
  <2>2. usage[u] \in Usage /\ usage = [usage EXCEPT ![u] = usage[u]]
    BY <1>1 DEF Types
  <2>3. CASE usage' = usage
    BY <2>2, <2>3 DEF Usage
  <2> QED
    BY <2>1, <2>3, Credited
<1>7. Types'
  BY <1>1, <1>2, <1>4, <1>5, <1>6 DEF Types
<1>8. \A y \in Method!Uses : /\ usage'[y] = (IF y = u THEN x ELSE usage[y])
                             /\ usage[y].stage \in Method!Returned => usage'[y].stage \in Method!Returned
                             /\ usage'[y].decision = usage[y].decision
                             /\ usage'[y].gen >= usage[y].gen
                             /\ usage'[y] = usage[y] \/ usage'[y].stage # "Routed"
                             /\ usage[y].stage = "Outcome" => usage'[y].stage = "Outcome"
  BY <1>1, <1>3, <1>6 DEF Types, Usage, Method!Returned
<1>9. Asked'
  BY <1>1, <1>2, <1>7, <1>8, AskedKept DEF MInv
<1>10. Named' /\ Queued'
  BY <1>1, <1>3, <1>4, <1>6, <1>8 DEF MInv, Types, Named, Queued, Method!Returned
<1>11. Told' /\ Late'
  BY <1>2, <1>3, <1>8 DEF MInv, Told, Late
<1>12. Method!SupportIsCausal'
  BY <1>2, <1>3, <1>6, <1>8 DEF MInv, Method!SupportIsCausal, Late
<1>13. Method!StableOnMerit'
  <2>1. \A r \in Method!Revs : Method!OutcomeSupported(r) \subseteq Method!OutcomeSupported(r)'
    BY <1>8 DEF Method!OutcomeSupported, Method!Uses
  <2> QED
    BY <2>1, <1>2 DEF MInv, Method!StableOnMerit
<1>14. Chain' /\ Bases' /\ Cohorts' /\ Method!HarmedStaysOut'
  BY <1>2 DEF MInv, Chain, Bases, Cohorts, Method!HarmedStaysOut
<1> QED
  BY <1>7, <1>9, <1>10, <1>11, <1>12, <1>13, <1>14 DEF MInv

-----------------------------------------------------------------------------
(* Publication.                                                               *)

\* What entitles a revision to be stable.
Deserved(r) ==
    \E S \in SUBSET Method!OutcomeSupported(r) :
        /\ Method!Cardinality(S) >= Threshold
        /\ \A t \in S : /\ t \notin Derived
                        /\ \A x \in Roots[t] : \A s \in S \ {t} : x \notin Roots[s]

\* Jobs, reviews and replacements leave usages, work and searches alone: what is left to
\* show is about the publications.
LEMMA Undisturbed ==
  ASSUME MInv, Types', Chain', Bases', Cohorts', Method!HarmedStaysOut',
         UNCHANGED <<usage, work, applied, query>>,
         \A x \in Method!Uses : consumer'[x].job = consumer[x].job,
         \A r \in Method!Revs : "Stable" \in {pub'[r].state, pub'[r].resume} =>
                            "Stable" \in {pub[r].state, pub[r].resume} \/ Deserved(r)
  PROVE  MInv'
<1>1. Named' /\ Asked' /\ Told' /\ Late' /\ Method!SupportIsCausal' /\ Queued'
  BY DEF MInv, Named, Asked, Told, Late, Method!SupportIsCausal, Queued
<1>2. Method!StableOnMerit'
  BY DEF MInv, Method!StableOnMerit, Deserved, Method!OutcomeSupported
<1> QED
  BY <1>1, <1>2 DEF MInv

\* What a publication event changes (publication_event).
LEMMA Publishing ==
  ASSUME Types, NEW r \in Method!Revs, NEW to \in Method!States
  PROVE  /\ Method!Published(r, to) \in [Method!Revs -> Publication]
         /\ \A x \in Method!Revs : x # r => Method!Published(r, to)[x] = pub[x]
         /\ Method!Published(r, to)[r].state = to
         /\ Method!Published(r, to)[r].resume = IF to = "ReviewHold" THEN pub[r].state ELSE "None"
         /\ Method!Published(r, to)[r].harmed = (pub[r].harmed \/ to = "Suspended")
<1>1. pub \in [Method!Revs -> Publication] /\ pub[r].state \in Method!States /\ pub[r].harmed \in BOOLEAN
  BY DEF Types, Publication
<1>2. PICK back \in Method!States : back = IF to = "ReviewHold" THEN pub[r].state ELSE "None"
  BY <1>1 DEF Method!States
<1>3. PICK bad \in BOOLEAN : bad = (pub[r].harmed \/ to = "Suspended")
  OBVIOUS
<1>4. Method!Published(r, to) = [pub EXCEPT ![r] = [state |-> to, resume |-> back, harmed |-> bad]]
  BY <1>2, <1>3 DEF Method!Published
<1>5. [state |-> to, resume |-> back, harmed |-> bad] \in Publication
  BY DEF Publication
<1> QED
  BY <1>1, <1>2, <1>3, <1>4, <1>5

\* The current revision is the only one that is offered, held or suspended.
LEMMA Current ==
  ASSUME Types, Chain, NEW r \in Method!Revs, pub[r].state \in Method!Active \cup {"ReviewHold", "Suspended"}
  PROVE  r = rev
<1>1. r \in Nat /\ rev \in Nat
  BY DEF Types, Method!Revs
<1> QED
  BY <1>1 DEF Chain, Method!Active

\* A publication event of the current revision keeps the chain of revisions, its harm
\* and its merit.
LEMMA PublicationStep ==
  ASSUME MInv, NEW to \in {"Probationary", "Stable", "ReviewHold", "Suspended"},
         pub' = Method!Published(rev, to), rev' = rev, proposals' = proposals,
         to # "Suspended" => ~pub[rev].harmed,
         to = "ReviewHold" => pub[rev].state \in Method!Active,
         to = "Stable" => Deserved(rev)
  PROVE  /\ pub' \in [Method!Revs -> Publication] /\ Chain' /\ Bases' /\ Method!HarmedStaysOut'
         /\ \A r \in Method!Revs : "Stable" \in {pub'[r].state, pub'[r].resume} =>
                             "Stable" \in {pub[r].state, pub[r].resume} \/ Deserved(r)
<1>1. Types /\ Chain /\ rev \in Method!Revs /\ rev \in Nat /\ to \in Method!States
  BY DEF MInv, Types, Method!Revs, Method!States, Method!Active
<1>2. /\ pub' \in [Method!Revs -> Publication]
      /\ \A x \in Method!Revs : x # rev => pub'[x] = pub[x]
      /\ pub'[rev].state = to
      /\ pub'[rev].resume = IF to = "ReviewHold" THEN pub[rev].state ELSE "None"
      /\ pub'[rev].harmed = (pub[rev].harmed \/ to = "Suspended")
  BY <1>1, Publishing
<1>3. Chain'
  BY <1>1, <1>2 DEF Chain, Method!Active
<1>4. Method!HarmedStaysOut'
  BY <1>1, <1>2 DEF MInv, Method!HarmedStaysOut
<1>5. Bases'
  BY DEF MInv, Bases
<1>6. ASSUME NEW r \in Method!Revs, "Stable" \in {pub'[r].state, pub'[r].resume}
      PROVE  "Stable" \in {pub[r].state, pub[r].resume} \/ Deserved(r)
  BY <1>1, <1>2, <1>6
<1> QED
  BY <1>2, <1>3, <1>4, <1>5, <1>6

\* The faults, deletions and searches counted so far.
LEMMA Counting ==
  ASSUME m \in Events
  PROVE  /\ [m EXCEPT !.faults = m.faults + 1] \in Events
         /\ [m EXCEPT !.deletions = m.deletions + 1] \in Events
  BY DEF Events

-----------------------------------------------------------------------------
(* Promotion.                                                                 *)

LEMMA PromotionJobStep ==
  ASSUME MInv, NEW r \in Method!Revs,
         Method!enqueue_procedure_promotion(r) \/ Method!claim_procedure_promotion(r) \/ Method!LeaseExpires(r)
  PROVE  MInv'
<1>1. Types
  BY DEF MInv
<1>2. UNCHANGED <<rev, pub, usage, negatives, proposals, work, applied, query, consumer>>
  BY DEF Method!enqueue_procedure_promotion, Method!claim_procedure_promotion, Method!LeaseExpires, Method!Job
<1>3. m' \in Events
  BY <1>1, Counting DEF Types, Method!enqueue_procedure_promotion, Method!claim_procedure_promotion, Method!LeaseExpires, Method!Job, Method!Fault
<1>4. PICK p \in Promotion :
        /\ promotion' = [promotion EXCEPT ![r] = p]
        /\ p.job = "leased" => Method!Cardinality(p.cohort) = Threshold
  <2>1. promotion[r] \in Promotion /\ promotion \in [Method!Revs -> Promotion]
    BY <1>1 DEF Types
  <2>2. CASE Method!enqueue_procedure_promotion(r)
    <3>1. promotion' = [promotion EXCEPT ![r] = [promotion[r] EXCEPT !.job = "queued"]]
      BY <2>2 DEF Method!enqueue_procedure_promotion
    <3>2. /\ [promotion[r] EXCEPT !.job = "queued"] \in Promotion
          /\ [promotion[r] EXCEPT !.job = "queued"].job = "queued"
      BY <2>1 DEF Promotion
    <3> QED
      BY <3>1, <3>2
  <2>3. CASE Method!claim_procedure_promotion(r)
    <3>1. ASSUME NEW C \in Method!promotion_cohorts(r)
          PROVE  /\ Method!Cardinality(C) = Threshold
                 /\ [job |-> "leased", cohort |-> C] \in Promotion
      <4>1. C \in SUBSET Method!OutcomeSupported(r) /\ Method!Cardinality(C) = Threshold
        BY <3>1 DEF Method!promotion_cohorts
      <4> QED
        BY <4>1 DEF Method!OutcomeSupported, Promotion
    <3>2. [job |-> "ended", cohort |-> {}] \in Promotion
      BY DEF Promotion
    <3>3. \/ \E C \in Method!promotion_cohorts(r) :
               promotion' = [promotion EXCEPT ![r] = [job |-> "leased", cohort |-> C]]
          \/ promotion' = [promotion EXCEPT ![r] = [job |-> "ended", cohort |-> {}]]
      BY <2>3 DEF Method!claim_procedure_promotion
    <3>4. CASE \E C \in Method!promotion_cohorts(r) :
               promotion' = [promotion EXCEPT ![r] = [job |-> "leased", cohort |-> C]]
      <4>1. PICK C \in Method!promotion_cohorts(r) :
               promotion' = [promotion EXCEPT ![r] = [job |-> "leased", cohort |-> C]]
        BY <3>4
      <4> QED
        BY <3>1, <4>1
    <3> QED
      BY <3>2, <3>3, <3>4
  <2>4. CASE Method!LeaseExpires(r)
    <3>1. promotion' = [promotion EXCEPT ![r] = [job |-> "queued", cohort |-> {}]]
      BY <2>4 DEF Method!LeaseExpires
    <3>2. [job |-> "queued", cohort |-> {}] \in Promotion
      BY DEF Promotion
    <3> QED
      BY <3>1, <3>2
  <2> QED
    BY <2>2, <2>3, <2>4
<1>5. Types'
  BY <1>1, <1>2, <1>3, <1>4 DEF Types
<1>6. Cohorts'
  BY <1>1, <1>4 DEF MInv, Types, Cohorts
<1>7. Chain' /\ Bases' /\ Method!HarmedStaysOut'
  BY <1>2 DEF MInv, Chain, Bases, Method!HarmedStaysOut
<1> QED
  BY <1>2, <1>5, <1>6, <1>7, Undisturbed

LEMMA PromoteStep ==
  ASSUME Method!WellFormed, MInv, NEW r \in Method!Revs, Method!run_procedure_promotion(r)
  PROVE  MInv'
<1>1. Types /\ consumer \in [Method!Uses -> Consumer]
  BY DEF MInv, Types
<1>2. UNCHANGED <<rev, negatives, proposals, work, applied, query, usage, m>>
  BY DEF Method!run_procedure_promotion, Method!Job
<1>3. promotion' \in [Method!Revs -> Promotion] /\ Cohorts'
  <2>1. promotion' = [promotion EXCEPT ![r] = [job |-> "ended", cohort |-> {}]]
    BY DEF Method!run_procedure_promotion
  <2>2. [job |-> "ended", cohort |-> {}] \in Promotion
    BY DEF Promotion
  <2> QED
    BY <1>1, <2>1, <2>2 DEF MInv, Types, Cohorts
<1>4. consumer' \in [Method!Uses -> Consumer] /\ \A x \in Method!Uses : consumer'[x].job = consumer[x].job
  <2>1. consumer' = consumer \/ Method!Touched(Method!procedure_input_watermark(r))
    BY DEF Method!run_procedure_promotion
  <2> QED
    BY <1>1, <2>1, Touching
<1>5. CASE Method!cohort_promotion_event(r)
  <2>1. r = rev /\ pub[rev].state = "Probationary" /\ pub' = Method!Published(rev, "Stable")
    BY <1>5 DEF Method!run_procedure_promotion, Method!cohort_promotion_event, Method!promotion_allowed
  <2>2. ~pub[rev].harmed
    BY <2>1 DEF MInv, Method!HarmedStaysOut
  <2>3. Deserved(r)
    <3> DEFINE C == promotion[r].cohort
    <3>1. C \in SUBSET Method!OutcomeSupported(r) /\ Method!independent_tasks(C)
      BY <1>5 DEF Method!cohort_promotion_event
    <3>2. Method!Cardinality(C) = Threshold /\ Method!Cardinality(C) >= Threshold
      BY DEF MInv, Cohorts, Method!run_procedure_promotion, Method!WellFormed
    <3>3. \A t \in C : t \notin Derived /\ \A x \in Roots[t] : \A s \in C \ {t} : x \notin Roots[s]
      BY <3>1 DEF Method!independent_tasks
    <3> HIDE DEF C
    <3> QED
      BY <3>1, <3>2, <3>3 DEF Deserved
  <2>4. /\ pub' \in [Method!Revs -> Publication] /\ Chain' /\ Bases' /\ Method!HarmedStaysOut'
        /\ \A x \in Method!Revs : "Stable" \in {pub'[x].state, pub'[x].resume} =>
                            "Stable" \in {pub[x].state, pub[x].resume} \/ Deserved(x)
    <3>1. "Stable" \in {"Probationary", "Stable", "ReviewHold", "Suspended"} /\ Deserved(rev)
      BY <2>1, <2>3
    <3>2. rev' = rev /\ proposals' = proposals /\ pub' = Method!Published(rev, "Stable")
      BY <1>2, <2>1
    <3> QED
      BY <2>2, <3>1, <3>2, PublicationStep
  <2>5. Types'
    BY <1>1, <1>2, <1>3, <1>4, <2>4 DEF Types
  <2> QED
    BY <1>2, <1>3, <1>4, <2>4, <2>5, Undisturbed
<1>6. CASE ~Method!cohort_promotion_event(r)
  <2>1. pub' = pub
    BY <1>6 DEF Method!run_procedure_promotion
  <2>2. Types'
    BY <1>1, <1>2, <1>3, <1>4, <2>1 DEF Types
  <2>3. Chain' /\ Bases' /\ Method!HarmedStaysOut'
    BY <1>2, <2>1 DEF MInv, Chain, Bases, Method!HarmedStaysOut
  <2> QED
    BY <1>2, <1>3, <1>4, <2>1, <2>2, <2>3, Undisturbed
<1> QED
  BY <1>5, <1>6

-----------------------------------------------------------------------------
(* Harm, review, replacement.                                                 *)

\* Every event about harm publishes nothing, or takes the current revision where it may
\* go.
LEMMA HarmStep ==
  ASSUME MInv, UNCHANGED <<rev, proposals, usage, work, applied, query, promotion>>,
         negatives' \in Seq(Negative), m' \in Events, NEW S, Method!Touched(S),
         \/ pub' = pub
         \/ \E to \in {"Probationary", "ReviewHold", "Suspended"} :
               /\ pub' = Method!Published(rev, to)
               /\ to # "Suspended" => ~pub[rev].harmed
               /\ to = "ReviewHold" => pub[rev].state \in Method!Active
  PROVE  MInv'
<1>1. Types /\ consumer \in [Method!Uses -> Consumer]
  BY DEF MInv, Types
<1>2. consumer' \in [Method!Uses -> Consumer] /\ \A x \in Method!Uses : consumer'[x].job = consumer[x].job
  BY <1>1, Touching
<1>3. /\ pub' \in [Method!Revs -> Publication] /\ Chain' /\ Bases' /\ Method!HarmedStaysOut'
      /\ \A x \in Method!Revs : "Stable" \in {pub'[x].state, pub'[x].resume} =>
                          "Stable" \in {pub[x].state, pub[x].resume} \/ Deserved(x)
  <2>1. CASE pub' = pub
    BY <2>1, <1>1 DEF MInv, Types, Chain, Bases, Method!HarmedStaysOut
  <2>2. CASE ~(pub' = pub)
    <3>1. PICK to \in {"Probationary", "Stable", "ReviewHold", "Suspended"} :
            /\ pub' = Method!Published(rev, to) /\ to # "Stable"
            /\ to # "Suspended" => ~pub[rev].harmed
            /\ to = "ReviewHold" => pub[rev].state \in Method!Active
      BY <2>2
    <3>2. rev' = rev /\ proposals' = proposals
      OBVIOUS
    <3> QED
      BY <3>1, <3>2, PublicationStep
  <2> QED
    BY <2>1, <2>2
<1>4. Types'
  BY <1>1, <1>2, <1>3 DEF Types
<1>5. Cohorts'
  BY DEF MInv, Cohorts
<1> QED
  BY <1>2, <1>3, <1>4, <1>5, Undisturbed

LEMMA NegativeStep ==
  ASSUME MInv, NEW u \in Method!Uses, NEW R, Method!record_procedure_negative(u, R)
  PROVE  MInv'
<1> DEFINE k == usage[u].attempt
           level == Method!classify_negative_fact(u, R)
           local == level = "SuspectedHarm" /\ m.max.localizable /\ ~Method!cross_context_repeated(u)
           to == IF level = "ConfirmedHarm" THEN "Suspended" ELSE "ReviewHold"
           since == Len(work[u][k].results)
           new == [use |-> u, level |-> level, local |-> local, refs |-> R, since |-> since,
                   review |-> "Pending"]
<1>1. Types /\ Chain /\ u[1] \in Method!Revs
  BY DEF MInv, Types, Method!Uses
<1>2. k \in {1, 2}
  BY <1>1 DEF MInv, Named, Types, Usage, Method!record_procedure_negative
<1>3. since \in Nat /\ R \in SUBSET Nat
  <2>1. PICK s \in Seq({"passed", "failed", "mismatch"}) : s = work[u][k].results
    BY <1>1, <1>2 DEF Types, Work
  <2>2. R \subseteq DOMAIN s
    BY <2>1 DEF Method!record_procedure_negative
  <2>3. Len(s) \in Nat /\ DOMAIN s \subseteq Nat
    OBVIOUS
  <2> QED
    BY <2>1, <2>2, <2>3
<1>4. level \in {"Ineffective", "SuspectedHarm", "ConfirmedHarm"}
  <2>1. level # "none"
    BY DEF Method!record_procedure_negative
  <2>2. level \in {"Ineffective", "SuspectedHarm", "ConfirmedHarm", "none"}
    <3> DEFINE w == work[u][usage[u].attempt]
               all(kind) == \A j \in R : w.results[j] = kind
               a == Method!Verification(w) = "Failed" /\ all("mismatch")
               b == Method!Verification(w) = "Passed" /\ usage[u].stage # "Outcome" /\ all("passed")
               c == Method!Verification(w) = "Failed" /\ all("failed")
    <3>1. level = CASE a -> "ConfirmedHarm" [] b -> "Ineffective" [] c -> "SuspectedHarm" [] OTHER -> "none"
      BY DEF Method!classify_negative_fact
    <3> HIDE DEF a, b, c
    <3> QED
      BY <3>1
  <2> QED
    BY <2>1, <2>2
<1>5. /\ negatives' = Append(negatives, new)
      /\ pub' = IF level # "Ineffective" /\ ~local /\ Method!TakesOut(u[1], to) THEN Method!Published(u[1], to) ELSE pub
      /\ Method!Touched(Method!procedure_input_watermark(u[1]))
      /\ UNCHANGED <<rev, proposals, m, usage, work, applied, query, promotion>>
  BY DEF Method!record_procedure_negative, Method!Decide
<1>6. local \in BOOLEAN
  OBVIOUS
<1> HIDE DEF k, level, local, since
<1>7. negatives' \in Seq(Negative)
  <2>1. new \in Negative
    BY <1>3, <1>4, <1>6 DEF Negative
  <2>2. negatives \in Seq(Negative)
    BY <1>1 DEF Types
  <2> HIDE DEF new
  <2> QED
    BY <1>5, <2>1, <2>2
<1>8. CASE level # "Ineffective" /\ ~local /\ Method!TakesOut(u[1], to)
  <2>1. /\ pub[u[1]].state \in Method!Active \cup {"ReviewHold"} /\ pub' = Method!Published(u[1], to)
        /\ to = "ReviewHold" => pub[u[1]].state \in Method!Active
        /\ to \in {"ReviewHold", "Suspended"}
    BY <1>5, <1>8 DEF Method!TakesOut
  <2>2. u[1] = rev
    BY <1>1, <2>1, Current
  <2>3. to # "Suspended" => ~pub[rev].harmed
    BY <1>1, <2>1, <2>2 DEF MInv, Method!HarmedStaysOut, Method!Active
  <2>4. \E x \in {"Probationary", "ReviewHold", "Suspended"} :
          /\ pub' = Method!Published(rev, x)
          /\ x # "Suspended" => ~pub[rev].harmed
          /\ x = "ReviewHold" => pub[rev].state \in Method!Active
    BY <2>1, <2>2, <2>3
  <2>5. m' \in Events
    BY <1>1, <1>5 DEF Types
  <2> QED
    BY <1>5, <1>7, <2>4, <2>5, HarmStep
<1>9. CASE ~(level # "Ineffective" /\ ~local /\ Method!TakesOut(u[1], to))
  <2>1. pub' = pub /\ m' \in Events
    BY <1>1, <1>5, <1>9 DEF Types
  <2> QED
    BY <1>5, <1>7, <2>1, HarmStep
<1> QED
  BY <1>8, <1>9

\* A review changes the standing of its evidence only.
LEMMA Reviewing ==
  ASSUME Types, NEW i \in DOMAIN negatives, NEW status \in {"Pending", "Upheld", "Dismissed"},
         Method!Reviewed(i, status)
  PROVE  /\ negatives' \in Seq(Negative) /\ negatives[i].use[1] \in Method!Revs
         /\ Method!Touched(Method!procedure_input_watermark(negatives[i].use[1]))
         /\ UNCHANGED <<rev, proposals, usage, work, applied, query, promotion>>
         /\ m' \in Events
<1>1. negatives[i] \in Negative /\ negatives \in Seq(Negative)
  BY DEF Types
<1>2. [negatives[i] EXCEPT !.review = status] \in Negative
  BY <1>1 DEF Negative
<1>3. negatives' = [negatives EXCEPT ![i] = [negatives[i] EXCEPT !.review = status]]
  BY DEF Method!Reviewed
<1>4. negatives' \in Seq(Negative)
  BY <1>1, <1>2, <1>3
<1>5. negatives[i].use[1] \in Method!Revs
  BY <1>1 DEF Negative, Method!Uses
<1> QED
  BY <1>4, <1>5 DEF Method!Reviewed, Method!Decide, Types

LEMMA ReviewStep ==
  ASSUME MInv, NEW i \in DOMAIN negatives,
         Method!dismiss_attribution(i) \/ Method!confirm_harm(i) \/ Method!resolve_as_ineffective(i)
  PROVE  MInv'
<1> DEFINE r == negatives[i].use[1]
<1>1. Types /\ Chain
  BY DEF MInv
<1>2. /\ negatives' \in Seq(Negative) /\ r \in Method!Revs
      /\ Method!Touched(Method!procedure_input_watermark(r))
      /\ UNCHANGED <<rev, proposals, usage, work, applied, query, promotion>>
      /\ m' \in Events
  <2>1. \E status \in {"Pending", "Upheld", "Dismissed"} : Method!Reviewed(i, status)
    BY DEF Method!dismiss_attribution, Method!confirm_harm, Method!resolve_as_ineffective
  <2> QED
    BY <1>1, <2>1, Reviewing
<1>3. \/ pub' = pub
      \/ \E to \in {"Probationary", "ReviewHold", "Suspended"} :
               /\ pub' = Method!Published(rev, to)
               /\ to # "Suspended" => ~pub[rev].harmed
               /\ to = "ReviewHold" => pub[rev].state \in Method!Active
  <2>1. CASE Method!dismiss_attribution(i)
    <3> DEFINE resume == IF pub[r].resume \in Method!Active THEN pub[r].resume ELSE "Probationary"
    <3>1. CASE Method!LiftsHold(i)
      <4>1. pub[r].state = "ReviewHold" /\ Method!Admits(r, resume) /\ pub' = Method!Published(r, resume)
        BY <2>1, <3>1 DEF Method!dismiss_attribution, Method!LiftsHold
      <4>2. r = rev
        BY <1>1, <1>2, <4>1, Current
      <4>3. resume = "Probationary" /\ ~pub[r].harmed
        BY <4>1 DEF Method!Admits, Method!transition_allowed, Method!Active
      <4> QED
        BY <4>1, <4>2, <4>3
    <3>2. CASE ~Method!LiftsHold(i)
      BY <2>1, <3>2 DEF Method!dismiss_attribution
    <3> QED
      BY <3>1, <3>2
  <2>2. CASE Method!confirm_harm(i)
    <3>1. pub[r].state = "ReviewHold" /\ pub' = Method!Published(r, "Suspended")
      BY <2>2 DEF Method!confirm_harm
    <3>2. r = rev
      BY <1>1, <1>2, <3>1, Current
    <3> QED
      BY <3>1, <3>2
  <2>3. CASE Method!resolve_as_ineffective(i)
    BY <2>3 DEF Method!resolve_as_ineffective
  <2> QED
    BY <2>1, <2>2, <2>3
<1> HIDE DEF r
<1> QED
  BY <1>2, <1>3, HarmStep

LEMMA SupportHoldStep ==
  ASSUME MInv, Method!mark_procedure_support_review_hold
  PROVE  MInv'
<1>1. Types
  BY DEF MInv
<1>2. /\ negatives' \in Seq(Negative) /\ Method!Touched(Method!procedure_input_watermark(rev))
      /\ UNCHANGED <<rev, proposals, usage, work, applied, query, promotion>>
  BY <1>1 DEF Method!mark_procedure_support_review_hold, Method!Elsewhere, Types
<1>3. m' \in Events
  BY <1>1, Counting DEF Types, Method!mark_procedure_support_review_hold
<1>4. pub[rev].state \in Method!Active /\ pub' = Method!Published(rev, "ReviewHold")
  BY DEF Method!mark_procedure_support_review_hold
<1>5. ~pub[rev].harmed
  BY <1>1, <1>4 DEF MInv, Method!HarmedStaysOut, Types, Method!Active
<1> QED
  BY <1>2, <1>3, <1>4, <1>5, HarmStep

LEMMA ProposalStep ==
  ASSUME Method!WellFormed, MInv, NEW i, Method!request_procedure_revision(i)
  PROVE  MInv'
<1>1. Types
  BY DEF MInv
<1>2. /\ UNCHANGED <<rev, pub, consumer, m, usage, negatives, work, applied, query, promotion>>
      /\ proposals' = proposals \cup {rev} /\ rev < m.max.revs
  BY DEF Method!request_procedure_revision, Method!Elsewhere
<1>3. rev \in Method!Revs /\ rev + 1 \in Method!Revs
  <2>1. m.max \in Methods /\ rev \in Method!Revs
    BY <1>1 DEF Types, Events
  <2>2. m.max.revs \in 1 .. MaxRevs /\ MaxRevs \in Nat
    BY <2>1 DEF Method!WellFormed
  <2> QED
    BY <1>2, <2>1, <2>2 DEF Method!Revs
<1>4. Types'
  BY <1>1, <1>2, <1>3 DEF Types
<1>5. Bases'
  BY <1>2, <1>3 DEF MInv, Bases
<1>6. Chain' /\ Cohorts' /\ Method!HarmedStaysOut'
  BY <1>2 DEF MInv, Chain, Cohorts, Method!HarmedStaysOut
<1> QED
  BY <1>2, <1>4, <1>5, <1>6, Undisturbed

LEMMA ReplacementStep ==
  ASSUME MInv, NEW b \in Method!Revs, Method!accept_procedure(b)
  PROVE  MInv'
<1>1. Types /\ Chain /\ rev \in Method!Revs /\ rev \in Nat
  BY DEF MInv, Types, Method!Revs
<1>2. /\ UNCHANGED <<m, usage, negatives, work, applied, query, promotion>>
      /\ b \in proposals /\ b = rev /\ rev' = rev + 1 /\ proposals' = proposals \ {b}
      /\ pub' = [Method!Published(rev, "Superseded") EXCEPT ![rev + 1].state = "Probationary"]
      /\ Method!Touched(Method!procedure_input_watermark(rev) \cup Method!procedure_input_watermark(rev + 1))
  BY DEF Method!accept_procedure, Method!Elsewhere, Method!Replaced
<1>3. rev + 1 \in Method!Revs
  BY <1>2 DEF MInv, Bases
<1>4. consumer' \in [Method!Uses -> Consumer] /\ \A x \in Method!Uses : consumer'[x].job = consumer[x].job
  BY <1>1, <1>2, Touching DEF Types
<1>5. /\ Method!Published(rev, "Superseded") \in [Method!Revs -> Publication]
      /\ \A x \in Method!Revs : x # rev => Method!Published(rev, "Superseded")[x] = pub[x]
      /\ Method!Published(rev, "Superseded")[rev].state = "Superseded"
      /\ Method!Published(rev, "Superseded")[rev].resume = "None"
  BY <1>1, Publishing DEF Method!States
<1>6. PICK old \in [Method!Revs -> Publication] : old = Method!Published(rev, "Superseded")
  BY <1>5
<1>7. pub[rev + 1] = old[rev + 1] /\ pub[rev + 1].state = "None" /\ pub[rev + 1].resume = "None" /\ ~pub[rev + 1].harmed
  BY <1>1, <1>3, <1>5, <1>6 DEF Chain
<1>8. PICK p \in Publication : /\ pub' = [old EXCEPT ![rev + 1] = p]
                             /\ p.state = "Probationary" /\ p.resume = "None" /\ ~p.harmed
  <2>1. old[rev + 1] \in Publication /\ "Probationary" \in Method!States
    BY <1>3, <1>6 DEF Method!States, Method!Active
  <2>2. LET p == [old[rev + 1] EXCEPT !.state = "Probationary"] IN
        p \in Publication /\ p.state = "Probationary" /\ p.resume = old[rev + 1].resume /\ p.harmed = old[rev + 1].harmed
    BY <2>1 DEF Publication
  <2>3. pub' = [old EXCEPT ![rev + 1] = [old[rev + 1] EXCEPT !.state = "Probationary"]]
    BY <1>2, <1>6
  <2> QED
    BY <1>7, <2>2, <2>3
<1>9. /\ pub' \in [Method!Revs -> Publication] /\ pub'[rev + 1] = p
      /\ pub'[rev].state = "Superseded" /\ pub'[rev].resume = "None"
      /\ \A x \in Method!Revs : x # rev /\ x # rev + 1 => pub'[x] = pub[x]
  <2>1. rev + 1 # rev
    BY <1>1
  <2> QED
    BY <1>1, <1>3, <1>5, <1>6, <1>8, <2>1
<1>10. Types'
  BY <1>1, <1>2, <1>3, <1>4, <1>9 DEF Types
<1>11. Chain'
  <2> SUFFICES ASSUME NEW x \in Method!Revs
               PROVE  /\ (pub'[x].state = "ReviewHold") = (pub'[x].resume \in Method!Active)
                      /\ (x < rev + 1) = (pub'[x].state = "Superseded")
                      /\ (x > rev + 1) = (pub'[x].state = "None")
                      /\ pub'[x].state = "None" => pub'[x].resume = "None" /\ ~pub'[x].harmed
    BY <1>2 DEF Chain
  <2>1. x \in Nat
    BY DEF Method!Revs
  <2>2. CASE x = rev + 1
    BY <2>1, <2>2, <1>1, <1>8, <1>9 DEF Method!Active
  <2>3. CASE x = rev
    BY <2>1, <2>3, <1>1, <1>9 DEF Method!Active
  <2>4. CASE x # rev /\ x # rev + 1
    BY <2>1, <2>4, <1>1, <1>9 DEF Chain
  <2> QED
    BY <2>2, <2>3, <2>4
<1>12. Method!HarmedStaysOut'
  BY <1>8, <1>9 DEF MInv, Method!HarmedStaysOut
<1>13. Bases' /\ Cohorts'
  BY <1>2 DEF MInv, Bases, Cohorts
<1>14. \A x \in Method!Revs : "Stable" \in {pub'[x].state, pub'[x].resume} => "Stable" \in {pub[x].state, pub[x].resume}
  BY <1>8, <1>9
<1> QED
  BY <1>2, <1>4, <1>10, <1>11, <1>12, <1>13, <1>14, Undisturbed

LEMMA CrashStep ==
  ASSUME MInv, Method!Crash
  PROVE  MInv'
<1>1. Types /\ promotion \in [Method!Revs -> Promotion] /\ Method!NoQuery \in Query /\ Method!NoQuery.pc = "idle"
  BY DEF MInv, Types, Method!NoQuery, Query, Verdicts
<1>2. /\ UNCHANGED <<rev, pub, usage, negatives, proposals, work, applied, consumer, m>>
      /\ query' = [q \in Queries |-> Method!NoQuery]
  BY DEF Method!Crash, Method!journal
<1>3. promotion' \in [Method!Revs -> Promotion] /\ Cohorts'
  <2>1. [job |-> "queued", cohort |-> {}] \in Promotion
    BY DEF Promotion
  <2>2. promotion' = [r \in Method!Revs |-> IF promotion[r].job = "leased"
                                     THEN [job |-> "queued", cohort |-> {}] ELSE promotion[r]]
    BY DEF Method!Crash
  <2> QED
    BY <1>1, <2>1, <2>2 DEF MInv, Cohorts
<1>4. Types'
  BY <1>1, <1>2, <1>3 DEF Types
<1>5. Asked'
  BY <1>1, <1>2 DEF Asked
<1>6. Told' /\ Late' /\ Named' /\ Queued' /\ Method!SupportIsCausal' /\ Chain' /\ Bases' /\ Method!HarmedStaysOut'
  BY <1>2 DEF MInv, Told, Late, Named, Queued, Method!SupportIsCausal, Chain, Bases, Method!HarmedStaysOut
<1>7. Method!StableOnMerit'
  BY <1>2 DEF MInv, Method!StableOnMerit, Method!OutcomeSupported
<1> QED
  BY <1>3, <1>4, <1>5, <1>6, <1>7 DEF MInv

-----------------------------------------------------------------------------
(* The invariant is inductive.                                                *)

LEMMA AtWorkUses ==
  ASSUME Method!WellFormed, Types
  PROVE  Method!AtWork \subseteq Method!Uses /\ m.max.tasks \subseteq Tasks
<1>1. m.max \in Methods
  BY DEF Types, Events
<1> QED
  BY <1>1 DEF Method!WellFormed, Method!AtWork, Method!Uses

\* Every step of the methods, and the death of the daemon, keeps the invariant.
LEMMA MethodsStep == Method!WellFormed /\ MInv /\ [Step]_(Method!pvars) => MInv'
<1> SUFFICES ASSUME Method!WellFormed, MInv, [Step]_(Method!pvars) PROVE MInv'
  OBVIOUS
<1>1. Method!AtWork \subseteq Method!Uses /\ m.max.tasks \subseteq Tasks
  BY AtWorkUses DEF MInv
<1>2. ASSUME NEW q \in Queries,
             (\E t \in m.max.tasks : Method!route_search(q, t)) \/ Method!answer(q) \/ Method!confirm_procedure_return(q) \/ Method!ClientGone(q)
      PROVE  MInv'
  BY <1>1, <1>2, RouteStep, AnswerStep, ReturnStep
<1>3. ASSUME NEW u \in Method!AtWork, NEW k \in {1, 2},
             Method!Operate(u, k) \/ Method!Ingest(u, k) \/ (\E kind \in {"passed", "failed", "mismatch"} : Method!Result(u, k, kind))
      PROVE  MInv'
  BY <1>1, <1>3, WorkStep
<1>4. CASE Method!Jobs
  <2>1. ASSUME NEW u \in Method!AtWork, Method!UsageJob(u) PROVE MInv'
    BY <1>1, <2>1, EnqueueUsageStep, UsageJobStep DEF Method!UsageJob
  <2>2. ASSUME NEW r \in Method!Revs, Method!PromotionJob(r) PROVE MInv'
    BY <2>2, PromotionJobStep, PromoteStep DEF Method!PromotionJob
  <2> QED
    BY <1>4, <2>1, <2>2 DEF Method!Jobs
<1>5. ASSUME NEW r \in Method!Revs, Method!LeaseExpires(r) \/ Method!accept_procedure(r) PROVE MInv'
  BY <1>5, PromotionJobStep, ReplacementStep
<1>6. ASSUME NEW u \in Method!AtWork, NEW R, Method!record_procedure_negative(u, R) PROVE MInv'
  BY <1>1, <1>6, NegativeStep
<1>7. ASSUME NEW i \in DOMAIN negatives,
             Method!dismiss_attribution(i) \/ Method!confirm_harm(i) \/ Method!resolve_as_ineffective(i) \/ Method!request_procedure_revision(i)
      PROVE  MInv'
  BY <1>7, ReviewStep, ProposalStep
<1>8. CASE Method!mark_procedure_support_review_hold
  BY <1>8, SupportHoldStep
<1>9. CASE Method!Crash
  BY <1>9, CrashStep
<1>10. CASE UNCHANGED Method!pvars
  <2>1. UNCHANGED <<rev, pub, usage, negatives, proposals, work, applied, query, consumer, promotion, m>>
    BY <1>10 DEF Method!pvars, Method!journal
  <2>2. Types' /\ Chain' /\ Bases' /\ Cohorts' /\ Method!HarmedStaysOut'
    BY <2>1 DEF MInv, Types, Chain, Bases, Cohorts, Method!HarmedStaysOut
  <2> QED
    BY <2>1, <2>2, Undisturbed
<1> QED
  BY <1>2, <1>3, <1>4, <1>5, <1>6, <1>7, <1>8, <1>9, <1>10 DEF Step, Method!Next

\* The invariant says what the run checks.
LEMMA MethodsMeaning == MInv => Method!TypeOK /\ Method!SupportIsCausal /\ Method!StableOnMerit /\ Method!HarmedStaysOut
<1> SUFFICES ASSUME MInv PROVE Method!TypeOK
  BY DEF MInv
<1>1. rev \in Method!Revs /\ m.max \in Methods /\ proposals \subseteq Method!Revs
  BY DEF MInv, Types, Events
<1>2. \A r \in Method!Revs : pub[r].state \in Method!States
  BY DEF MInv, Types, Publication
<1> QED
  BY <1>1, <1>2 DEF MInv, Method!TypeOK, Chain, Named

-----------------------------------------------------------------------------
(* Promotion is unsuspected.                                                  *)

\* Only a job that looks at the evidence again makes a revision stable
\* (run_procedure_promotion).
LEMMA PromotionUnsuspected == Method!WellFormed /\ MInv /\ [Step]_(Method!pvars) => Method!PromotesUnsuspected
<1> SUFFICES ASSUME Method!WellFormed, MInv, [Step]_(Method!pvars),
                    NEW r \in Method!Revs, pub[r].state # "Stable", pub'[r].state = "Stable"
             PROVE  ~Method!has_active_harm(r)
  BY DEF Method!PromotesUnsuspected
<1>1. Types /\ Chain /\ Method!AtWork \subseteq Method!Uses
  BY AtWorkUses DEF MInv
<1>2. ASSUME NEW b \in Method!Revs, NEW to \in Method!States \ {"Stable"}, pub' = Method!Published(b, to)
      PROVE  FALSE
  BY <1>1, <1>2, Publishing
<1>3. pub' # pub
  OBVIOUS
<1>4. CASE \E b \in Method!Revs : Method!run_procedure_promotion(b)
  <2>1. PICK b \in Method!Revs : Method!run_procedure_promotion(b)
    BY <1>4
  <2>2. Method!cohort_promotion_event(b) /\ pub' = Method!Published(b, "Stable")
    BY <1>3, <2>1 DEF Method!run_procedure_promotion
  <2>3. b = r
    BY <1>1, <2>2, Publishing DEF Method!States, Method!Active
  <2> QED
    BY <2>2, <2>3 DEF Method!cohort_promotion_event, Method!promotion_allowed
<1>5. ASSUME NEW u \in Method!Uses, NEW R, Method!record_procedure_negative(u, R) PROVE FALSE
  <2>1. \E to \in {"Suspended", "ReviewHold"} : pub' = Method!Published(u[1], to)
    BY <1>3, <1>5 DEF Method!record_procedure_negative
  <2>2. u[1] \in Method!Revs
    BY DEF Method!Uses
  <2> QED
    BY <1>2, <2>1, <2>2 DEF Method!States, Method!Active
<1>6. ASSUME NEW i \in DOMAIN negatives, Method!dismiss_attribution(i) \/ Method!confirm_harm(i) PROVE FALSE
  <2> DEFINE b == negatives[i].use[1]
             resume == IF pub[b].resume \in Method!Active THEN pub[b].resume ELSE "Probationary"
  <2>1. b \in Method!Revs
    <3>1. negatives[i] \in Negative
      BY <1>1 DEF Types
    <3> QED
      BY <3>1 DEF Negative, Method!Uses
  <2>2. CASE Method!dismiss_attribution(i)
    <3>1. pub[b].state = "ReviewHold" /\ Method!Admits(b, resume) /\ pub' = Method!Published(b, resume)
      BY <1>3, <2>2 DEF Method!dismiss_attribution, Method!LiftsHold
    <3>2. resume = "Probationary"
      BY <3>1 DEF Method!Admits, Method!transition_allowed, Method!Active
    <3> QED
      BY <1>2, <2>1, <3>1, <3>2 DEF Method!States, Method!Active
  <2>3. CASE Method!confirm_harm(i)
    BY <1>2, <2>1, <2>3 DEF Method!confirm_harm, Method!States
  <2> QED
    BY <1>6, <2>2, <2>3
<1>7. ASSUME NEW b \in Method!Revs, Method!accept_procedure(b) PROVE FALSE
  <2>1. rev \in Method!Revs /\ rev + 1 \in Method!Revs /\ pub' = Method!Replaced(rev) /\ rev \in Nat
    BY <1>7 DEF MInv, Bases, Types, Method!accept_procedure, Method!Revs
  <2>2. PICK old \in [Method!Revs -> Publication] : old = Method!Published(rev, "Superseded")
    BY <1>1, <2>1, Publishing DEF Method!States
  <2>3. (\A x \in Method!Revs : x # rev => old[x] = pub[x]) /\ old[rev].state = "Superseded"
    BY <1>1, <2>1, <2>2, Publishing DEF Method!States
  <2>4. pub' = [old EXCEPT ![rev + 1] = [old[rev + 1] EXCEPT !.state = "Probationary"]]
    BY <2>1, <2>2 DEF Method!Replaced
  <2>5. [old[rev + 1] EXCEPT !.state = "Probationary"].state = "Probationary"
    BY <2>1, <2>2 DEF Publication
  <2> QED
    BY <2>1, <2>2, <2>3, <2>4, <2>5
<1>8. CASE Method!mark_procedure_support_review_hold
  <2>1. rev \in Method!Revs /\ pub' = Method!Published(rev, "ReviewHold")
    BY <1>1, <1>8 DEF Types, Method!mark_procedure_support_review_hold
  <2> QED
    BY <1>2, <2>1 DEF Method!States
<1>9. ASSUME NEW q \in Queries,
             (\E t \in m.max.tasks : Method!route_search(q, t)) \/ Method!answer(q) \/ Method!confirm_procedure_return(q) \/ Method!ClientGone(q)
      PROVE  FALSE
  BY <1>3, <1>9 DEF Method!route_search, Method!answer, Method!confirm_procedure_return, Method!ClientGone, Method!journal
<1>10. ASSUME NEW u, NEW k,
             Method!Operate(u, k) \/ Method!Ingest(u, k) \/ (\E kind \in {"passed", "failed", "mismatch"} : Method!Result(u, k, kind))
      PROVE  FALSE
  BY <1>3, <1>10 DEF Method!Operate, Method!Ingest, Method!Result, Method!Aside, Method!journal
<1>11. CASE Method!Jobs
  BY <1>3, <1>4, <1>11 DEF Method!Jobs, Method!UsageJob, Method!PromotionJob, Method!enqueue_procedure_consumers, Method!run_procedure_consumer,
     Method!enqueue_procedure_promotion, Method!claim_procedure_promotion, Method!Job
<1>12. ASSUME NEW b \in Method!Revs, Method!LeaseExpires(b) PROVE FALSE
  BY <1>3, <1>12 DEF Method!LeaseExpires, Method!Job
<1>13. ASSUME NEW i, Method!resolve_as_ineffective(i) \/ Method!request_procedure_revision(i) PROVE FALSE
  BY <1>3, <1>13 DEF Method!resolve_as_ineffective, Method!request_procedure_revision
<1>14. CASE Method!Crash \/ UNCHANGED Method!pvars
  BY <1>3, <1>14 DEF Method!Crash, Method!pvars, Method!journal
<1> QED
  BY <1>1, <1>5, <1>6, <1>7, <1>8, <1>9, <1>10, <1>11, <1>12, <1>13, <1>14 DEF Step, Method!Next

-----------------------------------------------------------------------------
(* The steps of the daemon are steps of each part.                              *)

LEMMA MemoryStarts == MemoryInit => RInv /\ MInv /\ Method!WellFormed
<1> SUFFICES ASSUME MemoryInit PROVE RInv /\ MInv /\ Method!WellFormed
  OBVIOUS
<1>1. Init /\ Method!Init
  BY DEF MemoryInit
<1>2. Method!WellFormed /\ Method!Init
  BY <1>1, MethodsAssumption
<1> QED
  BY <1>1, <1>2, RemindersInit, MethodsInit

\* A step of the daemon is a step of the reminders or leaves them alone.
LEMMA RemindersOf == [MemoryNext]_allvars => [Next]_vars
<1> SUFFICES ASSUME [MemoryNext]_allvars PROVE [Next]_vars
  OBVIOUS
<1>1. CASE Remind(Own)
  BY <1>1 DEF Remind, Next
<1>2. CASE Learn(Method!Next)
  BY <1>2 DEF Learn
<1>3. CASE Crash /\ Method!Crash
  BY <1>3 DEF Next
<1>4. CASE UNCHANGED allvars
  BY <1>4 DEF allvars
<1> QED
  BY <1>1, <1>2, <1>3, <1>4 DEF MemoryNext

\* And of the methods.
LEMMA MethodsOf == [MemoryNext]_allvars => [Step]_(Method!pvars)
<1> SUFFICES ASSUME [MemoryNext]_allvars PROVE Step \/ UNCHANGED mvars
  BY DEF mvars, Method!pvars, Method!journal
<1>1. CASE Remind(Own)
  BY <1>1 DEF Remind
<1>2. CASE Learn(Method!Next)
  BY <1>2 DEF Step, Learn
<1>3. CASE Crash /\ Method!Crash
  BY <1>3 DEF Step
<1>4. CASE UNCHANGED allvars
  BY <1>4 DEF allvars
<1> QED
  BY <1>1, <1>2, <1>3, <1>4 DEF MemoryNext

-----------------------------------------------------------------------------

\* In every run of the daemon, with any contracts, lanes, requests and scenarios, a
\* contract has one active need, a claim is made while its boundary is current and its lane
\* present, a reminder is shown once and fetched once, and the delivery recorded is the one
\* that happened (recall/detector.rs, recall/cue.rs, service/actions/read.rs).
THEOREM RemindersAlwaysSound == MemorySpec => []RemindersSound
<1>1. MemoryInit => RInv
  BY MemoryStarts
<1>2. RInv /\ [MemoryNext]_allvars => RInv'
  BY RemindersOf, RemindersStep
<1>3. RInv => RemindersSound
  BY RemindersMeaning DEF RemindersSound
<1> QED
  BY <1>1, <1>2, <1>3, PTL DEF MemorySpec

\* What the methods' invariant needs at every step: that it holds, and what the constants are.
LEMMA MethodsHold == MemorySpec => [](MInv /\ Method!WellFormed)
<1>1. MemoryInit => MInv /\ Method!WellFormed
  BY MemoryStarts
<1>2. MInv /\ Method!WellFormed /\ [MemoryNext]_allvars => (MInv /\ Method!WellFormed)'
  <2> SUFFICES ASSUME MInv, Method!WellFormed, [MemoryNext]_allvars
               PROVE  (MInv /\ Method!WellFormed)'
    OBVIOUS
  <2>1. MInv'
    BY MethodsOf, MethodsStep
  <2>2. Method!WellFormed'
    BY DEF Method!WellFormed
  <2> QED
    BY <2>1, <2>2
<1> QED
  BY <1>1, <1>2, PTL DEF MemorySpec

\* In every run of the daemon, with any tasks, roots, queries and promotion threshold, a
\* method is credited only for work that followed its return to the agent, is stable only on
\* enough independent successes, and is out for good once harm is confirmed
\* (procedure/usage.rs, projections/procedure.rs).
THEOREM MethodsAlwaysSound == MemorySpec => []MethodsSound
<1>1. MInv => MethodsSound
  BY MethodsMeaning DEF MethodsSound
<1> QED
  BY <1>1, MethodsHold, PTL

\* No step of the daemon promotes a method while harm of it is suspected
\* (maintenance.rs, projections/procedure.rs): the safety part of MemorySettles.
THEOREM MethodsPromoteUnsuspected == MemorySpec => [][Method!PromotesUnsuspected]_allvars
<1>1. MInv /\ Method!WellFormed /\ [MemoryNext]_allvars => [Method!PromotesUnsuspected]_allvars
  BY MethodsOf, PromotionUnsuspected
<1> QED
  BY <1>1, MethodsHold, PTL DEF MemorySpec
=============================================================================

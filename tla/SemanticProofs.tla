--------------------------- MODULE SemanticProofs ---------------------------
(* How meaning gets into force and how it is made.                              *)
(*                                                                              *)
(* Governance: DecisionsApplied and AckOnlySettled hold in every behaviour, for *)
(* all proposals, callers and scenarios.  The invariant adds to what the run    *)
(* checks: who asked for what is reserved or on its way, which reservations a   *)
(* request holds, and that what a request judged acceptable stays so until the  *)
(* frontier moves.                                                              *)
(*                                                                              *)
(* Synthesis: SummariesSound and PermittedAndCurrent hold in every behaviour,   *)
(* for any number of messages, configurations and faults.  The invariant adds:  *)
(* active jobs are of one configuration; the intervals of the jobs of one       *)
(* configuration that may yet be summarised are disjoint; no summary covers an  *)
(* active job; an enrichment on its way is within the quota; and attempts bound *)
(* the calls of a job.                                                          *)
EXTENDS Governance, Synthesis, TLAPS, FiniteSetTheorems

-----------------------------------------------------------------------------
(* Governance: the invariant.                                                  *)

Everyone == Callers \union {Boot}
Args == Payloads \union {0}
Jobs == [kind : Kinds, p : Proposals, rev : Nat, arg : Args, cmd : Nat \ {0}]
Entries == [p : Proposals, rev : Nat, kind : {"accept", "edit", "reauthorize"}, arg : Args, cmd : Nat \ {0},
            atom : Nat, after : BOOLEAN]
Status == {"pending", "accepted", "superseded", "deferred", "rejected"}
Journal == [n : Nat, props : [Proposals -> [rev : Nat, st : Status]], atoms : [Objects -> Nat],
            ledger : [Objects -> {"live", "pending", "purged"}], log : SUBSET Entries]
Requests == [pc : {"idle", "scan", "recon", "read", "revise", "reserve", "commit", "ack"},
             job : Jobs \union {None}, user : Jobs \union {None}, n : Nat, snap : Nat, todo : SUBSET Segments,
             seg : Segments \union {None}, ok : BOOLEAN, from : {"user", "recon"}, after : {"read", "end"}]
Limits == [props : SUBSET Proposals, decisions : SUBSET Kinds, req : Nat, other : Nat,
           forget : Nat, crash : Nat, busy : Nat]

Typed == /\ db \in Journal /\ segs \subseteq Segments /\ req \in [Everyone -> Requests] /\ env \in Limits

\* The owner asked for this: a job, a reservation or an acceptance.
Authorised(x) ==
    \E a \in asked : /\ a.p = x.p /\ a.rev = x.rev /\ a.arg = x.arg
                     /\ a.kind = x.kind \/ (a.kind = "merge" /\ x.kind = "accept")

\* The journal: what it shows of proposals and atoms, and the acceptances in it.
Recorded ==
    /\ \A p \in Proposals : db.props[p].rev \in 1 .. (db.n + 1)
    /\ \A a \in Objects : Forgotten(a) => db.atoms[a] = 0
    /\ \A p \in Creates : is_open(p) => db.atoms[p] = 0 /\ ~Forgotten(p)
    /\ \A l \in db.log : /\ ~is_open(l.p) /\ Authorised(l)
                         /\ l.p \notin Creates => l.atom = 2
                         /\ l.p \in Creates /\ l.after => l.kind = "reauthorize"
    /\ \A l, k \in db.log : l.p = k.p => l = k

\* The spool: one reservation of a proposal, each asked for.
Reserved == /\ \A s, t \in segs : s.p = t.p => s = t
            /\ \A s \in segs : Authorised(s)

\* The reservations that a request holds.
Mine(f) == f.todo \union ({f.seg} \ {None})

\* A request on its way, by where it is.
Sound(r) ==
    /\ req[r].todo \subseteq segs
    /\ IF req[r].pc \in {"commit", "ack"} THEN req[r].seg \in segs /\ req[r].seg \notin req[r].todo
       ELSE req[r].seg = None
    /\ req[r].user # None => Authorised(req[r].user)
    /\ \/ req[r].pc = "read" \/ (req[r].pc # "idle" /\ req[r].after = "read")
       \/ req[r].pc = "reserve" /\ req[r].from = "user"
       => req[r].user # None
    /\ req[r].pc \in {"reserve", "commit"} =>
           /\ req[r].job \in Segments /\ Authorised(req[r].job) /\ req[r].snap <= db.n
           /\ req[r].ok /\ req[r].snap = db.n => accept_inner(req[r].job)
    /\ req[r].pc = "commit" => req[r].seg.p = req[r].job.p
    /\ req[r].pc = "revise" => req[r].job \in Jobs
    /\ req[r].pc = "recon" => req[r].from = "recon"
    /\ req[r].pc = "ack" => Committed(req[r].seg)

OnTheirWay ==
    /\ \A r \in Everyone : Sound(r)
    /\ \A r, q \in Everyone : r # q => Mine(req[r]) \intersect Mine(req[q]) = {}

IInv == Typed /\ Recorded /\ Reserved /\ OnTheirWay

-----------------------------------------------------------------------------
(* What every step uses.                                                        *)

LEMMA NothingHeld == None \notin Segments /\ Idle \in Requests /\ Mine(Idle) = {}
<1>1. None \notin Segments
  BY DEF None, Segments
<1> QED
  BY <1>1 DEF Idle, Requests, Mine

LEMMA SegmentsAreJobs == Segments \subseteq Jobs
  BY DEF Segments, Jobs, Kinds, Args

LEMMA GovernanceInit == Init => IInv
<1> SUFFICES ASSUME Init PROVE IInv
  OBVIOUS
<1>1. db \in Journal
  BY TargetsAssumption DEF Init, Journal, Status
<1>2. req = [r \in Everyone |-> Idle] /\ segs = {} /\ db.log = {} /\ asked = {}
  BY DEF Init, Everyone
<1>3. Typed
  BY <1>1, <1>2, NothingHeld, ScenariosAssumption DEF Init, Typed, Limits
<1>4. Recorded
  <2>1. db.n = 0 /\ \A p \in Proposals : db.props[p] = [rev |-> 1, st |-> "pending"]
    BY DEF Init
  <2>2. \A a \in Objects : db.ledger[a] = "live" /\ (a \notin Atoms => db.atoms[a] = 0)
    BY DEF Init
  <2>3. \A p \in Creates : p \in Objects /\ p \notin Atoms
    BY TargetsAssumption DEF Proposals, Objects
  <2> QED
    BY <1>2, <2>1, <2>2, <2>3 DEF Recorded, Forgotten
<1>5. OnTheirWay
  <2>1. \A r \in Everyone : req[r] = Idle
    BY <1>2
  <2>2. \A r \in Everyone : Sound(r)
    BY <2>1 DEF Sound, Idle, None
  <2> QED
    BY <2>1, <2>2, NothingHeld DEF OnTheirWay
<1> QED
  BY <1>2, <1>3, <1>4, <1>5 DEF IInv, Reserved

\* What was asked for stays asked for.
LEMMA AskedGrows ==
  ASSUME asked \subseteq asked', NEW x, Authorised(x)
  PROVE  Authorised(x)'
  BY DEF Authorised

\* The journal stands, or it grows and every snapshot before is outdated.
Grows == db' = db \/ (db'.n > db.n /\ db.log \subseteq db'.log)

\* A request that does not move stays sound while nothing it holds is removed.
LEMMA SoundKept ==
  ASSUME IInv, NEW r \in Everyone, req'[r] = req[r], asked \subseteq asked', db' \in Journal, Grows,
         Mine(req[r]) \subseteq segs'
  PROVE  Sound(r)'
<1> PICK f \in Requests : f = req[r]
  BY DEF IInv, Typed
<1>0. req'[r] = f /\ req[r] = f /\ Sound(r)
  BY DEF IInv, OnTheirWay
<1>1. f.todo \subseteq segs' /\ (f.seg # None => f.seg \in segs')
  BY <1>0 DEF Mine
<1>2. IF f.pc \in {"commit", "ack"} THEN f.seg \in segs' /\ f.seg \notin f.todo ELSE f.seg = None
  <2>1. segs \subseteq Segments
    BY DEF IInv, Typed
  <2> QED
    BY <1>0, <1>1, <2>1, NothingHeld DEF Sound
<1>3. f.user # None => Authorised(f.user)'
  BY <1>0, AskedGrows DEF Sound
<1>4. f.pc \in {"reserve", "commit"} => Authorised(f.job)'
  BY <1>0, AskedGrows DEF Sound
<1>5. f.pc \in {"reserve", "commit"} => f.snap <= db'.n /\ (f.ok /\ f.snap = db'.n => accept_inner(f.job)')
  <2>1. CASE db' = db
    <3>1. accept_inner(f.job)' <=> accept_inner(f.job)
      BY <2>1 DEF accept_inner, is_open, validate_atom_merge, Forgotten
    <3> QED
      BY <1>0, <2>1, <3>1 DEF Sound
  <2>2. CASE db'.n > db.n
    <3>1. db.n \in Nat /\ db'.n \in Nat /\ f.snap \in Nat
      BY DEF IInv, Typed, Journal, Requests
    <3> QED
      BY <1>0, <2>2, <3>1 DEF Sound
  <2> QED
    BY <2>1, <2>2 DEF Grows
<1>6. f.pc = "ack" => Committed(f.seg)'
  BY <1>0 DEF Sound, Committed, Grows
<1> QED
  BY <1>0, <1>1, <1>2, <1>3, <1>4, <1>5, <1>6 DEF Sound

LEMMA AloneKept ==
  ASSUME IInv, NEW r \in Everyone, NEW f \in Requests, req' = [req EXCEPT ![r] = f], asked \subseteq asked',
         db' \in Journal, Grows, Sound(r)',
         \A q \in Everyone \ {r} : Mine(req[q]) \subseteq segs' /\ Mine(req[q]) \intersect Mine(f) = {}
  PROVE  OnTheirWay' /\ req' \in [Everyone -> Requests]
<1>1. req \in [Everyone -> Requests]
  BY DEF IInv, Typed
<1>2. req' \in [Everyone -> Requests] /\ req'[r] = f /\ \A q \in Everyone \ {r} : req'[q] = req[q]
  BY <1>1
<1>3. \A q \in Everyone : Sound(q)'
  BY <1>2, SoundKept
<1>4. \A p, q \in Everyone : p # q => Mine(req'[p]) \intersect Mine(req'[q]) = {}
  BY <1>2 DEF IInv, OnTheirWay
<1> QED
  BY <1>2, <1>3, <1>4 DEF OnTheirWay, Mine

LEMMA RecordedKept ==
  ASSUME IInv, db' = db, asked \subseteq asked'
  PROVE  Recorded'
<1>1. \A l \in db.log : Authorised(l)'
  BY AskedGrows DEF IInv, Recorded
<1> QED
  BY <1>1 DEF IInv, Recorded, Forgotten, is_open

\* A request moves and the journal stands.
LEMMA RequestMoves ==
  ASSUME IInv, NEW r \in Everyone, NEW f \in Requests, req' = [req EXCEPT ![r] = f], env' \in Limits,
         asked \subseteq asked', db' = db, segs' \subseteq Segments, Reserved', Sound(r)',
         \A q \in Everyone \ {r} : Mine(req[q]) \subseteq segs' /\ Mine(req[q]) \intersect Mine(f) = {}
  PROVE  IInv'
<1>1. db' \in Journal /\ Grows
  BY DEF IInv, Typed, Grows
<1> QED
  BY <1>1, AloneKept, RecordedKept DEF IInv, Typed

\* And the spool stands too: the request holds no more than it did.
LEMMA RequestGoesOn ==
  ASSUME IInv, NEW r \in Everyone, NEW f \in Requests, Goes(r, f), env' \in Limits,
         asked \subseteq asked', db' = db, segs' = segs, Sound(r)', Mine(f) \subseteq Mine(req[r])
  PROVE  IInv'
<1>1. \A q \in Everyone : Mine(req[q]) \subseteq segs
  <2> SUFFICES ASSUME NEW q \in Everyone PROVE Mine(req[q]) \subseteq segs
    OBVIOUS
  <2>1. Sound(q)
    BY DEF IInv, OnTheirWay
  <2> QED
    BY <2>1 DEF Sound, Mine
<1>2. Reserved'
  <2>1. \A s \in segs : Authorised(s)'
    BY AskedGrows DEF IInv, Reserved
  <2> QED
    BY <2>1 DEF IInv, Reserved
<1>3. \A q \in Everyone \ {r} : Mine(req[q]) \intersect Mine(f) = {}
  BY DEF IInv, OnTheirWay
<1> QED
  BY <1>1, <1>2, <1>3, RequestMoves DEF Goes, IInv, Typed

LEMMA IdleSound ==
  ASSUME NEW r, req'[r] = Idle
  PROVE  Sound(r)'
  BY DEF Sound, Idle, None

\* The others keep what they hold when only unheld reservations, or r's own, are removed.
LEMMA OthersHold ==
  ASSUME IInv, NEW r \in Everyone, NEW S, S \intersect segs \subseteq segs',
         \A s \in segs : s \notin S => ~Held(s) \/ s \in Mine(req[r])
  PROVE  \A q \in Everyone \ {r} : Mine(req[q]) \subseteq segs'
<1> SUFFICES ASSUME NEW q \in Everyone \ {r}, NEW s \in Mine(req[q]) PROVE s \in segs'
  OBVIOUS
<1>1. s \in segs /\ s # None
  <2>1. Sound(q) /\ segs \subseteq Segments
    BY DEF IInv, OnTheirWay, Typed
  <2> QED
    BY <2>1, NothingHeld DEF Sound, Mine
<1>2. Held(s)
  BY DEF Held, Mine, IInv, Typed
<1>3. s \notin Mine(req[r])
  BY DEF IInv, OnTheirWay
<1> QED
  BY <1>1, <1>2, <1>3

\* A request is answered, or goes back to the reconciliation: it lets go of its reservation.
LEMMA DoneMoves ==
  ASSUME IInv, NEW r \in Everyone, NEW out, req[r].pc # "idle", Done(r, out), env' \in Limits, asked' = asked,
         db' = db, segs' \subseteq segs, req[r].todo \subseteq segs',
         \A q \in Everyone \ {r} : Mine(req[q]) \subseteq segs'
  PROVE  IInv'
<1>1. Reserved' /\ segs' \subseteq Segments
  <2>1. \A s \in segs' : Authorised(s)'
    BY AskedGrows DEF IInv, Reserved
  <2> QED
    BY <2>1 DEF IInv, Reserved, Typed
<1> PICK g \in Requests : g = req[r]
  BY DEF IInv, Typed
<1>2. req \in [Everyone -> Requests] /\ Sound(r)
  BY DEF IInv, Typed, OnTheirWay
<1>3. CASE Goes(r, Idle)
  <2>1. req' = [req EXCEPT ![r] = Idle] /\ req'[r] = Idle
    BY <1>2, <1>3 DEF Goes
  <2> QED
    BY <1>1, <2>1, IdleSound, RequestMoves, NothingHeld
<1>4. CASE req[r].from # "user" /\ Goes(r, [req[r] EXCEPT !.pc = "recon", !.seg = None, !.job = None])
  <2>0. g.from = "recon"
    BY <1>4 DEF Requests
  <2> PICK f : f = [g EXCEPT !.pc = "recon", !.seg = None, !.job = None]
    OBVIOUS
  <2>1. /\ f \in Requests /\ f.pc = "recon" /\ f.seg = None /\ f.todo = g.todo
        /\ f.user = g.user /\ f.after = g.after /\ f.from = g.from
    BY DEF Requests
  <2>2. req' = [req EXCEPT ![r] = f] /\ req'[r] = f
    BY <1>2, <1>4 DEF Goes
  <2>3. f.user # None => Authorised(f.user)'
    BY <1>2, <2>1, AskedGrows DEF Sound
  <2>4. Sound(r)'
    BY <1>2, <2>0, <2>1, <2>2, <2>3 DEF Sound
  <2>5. Mine(f) \subseteq Mine(req[r])
    BY <2>1 DEF Mine
  <2>6. \A q \in Everyone \ {r} : Mine(req[q]) \intersect Mine(f) = {}
    BY <2>5 DEF IInv, OnTheirWay
  <2> QED
    BY <1>1, <2>1, <2>2, <2>4, <2>6, RequestMoves
<1> QED
  BY <1>3, <1>4 DEF Done, Answer

LEMMA AnswerMoves ==
  ASSUME IInv, NEW r \in Everyone, NEW out, Answer(r, out), env' \in Limits, asked' = asked, db' = db, segs' = segs
  PROVE  IInv'
<1>1. req'[r] = Idle
  BY DEF Answer, Goes, IInv, Typed
<1> QED
  BY <1>1, IdleSound, RequestGoesOn, NothingHeld DEF Answer

-----------------------------------------------------------------------------
(* The steps of a request.                                                      *)

LEMMA ReceiveStep ==
  ASSUME IInv, NEW r \in Callers, NEW d \in env.decisions, NEW p \in env.props, NEW arg \in ArgsOf(d),
         Receive(r, d, p, arg)
  PROVE  IInv'
<1>1. r \in Everyone /\ env \in Limits /\ p \in Proposals /\ d \in Kinds /\ arg \in Args
  BY DEF Everyone, IInv, Typed, Limits, ArgsOf, Args
<1>2. db.props[p].rev \in Nat /\ env.req \in Nat \ {0} /\ db.n \in Nat
  BY <1>1 DEF IInv, Typed, Journal, Limits, Receive
<1> PICK j : j = [kind |-> d, p |-> p, rev |-> db.props[p].rev, arg |-> arg, cmd |-> env.req]
  OBVIOUS
<1>3. j \in Jobs /\ j.kind = d /\ j.p = p /\ j.rev = db.props[p].rev /\ j.arg = arg
  BY <1>1, <1>2 DEF Jobs
<1>4. j # None
  BY <1>1, <1>3 DEF None, Kinds
<1> PICK f : f = [Idle EXCEPT !.user = j, !.n = db.n,
                     !.pc = IF d \in {"accept", "merge", "reauthorize"} THEN "scan" ELSE "read"]
  OBVIOUS
<1>5. /\ f \in Requests /\ f.pc \in {"scan", "read"} /\ f.user = j /\ f.todo = {} /\ f.seg = None
  BY <1>2, <1>3 DEF Idle, Requests
<1>6. Goes(r, f) /\ asked' = asked \union {[p |-> p, rev |-> j.rev, kind |-> d, arg |-> arg]}
  BY DEF Receive
<1>7. env' \in Limits
  BY <1>1, <1>2 DEF Receive, Limits
<1>8. Authorised(j)'
  <2> PICK a : a = [p |-> p, rev |-> j.rev, kind |-> d, arg |-> arg]
    OBVIOUS
  <2>1. a \in asked' /\ a.p = j.p /\ a.rev = j.rev /\ a.arg = j.arg /\ a.kind = j.kind
    BY <1>3, <1>6
  <2> QED
    BY <2>1 DEF Authorised
<1>9. req'[r] = f
  BY <1>1, <1>6 DEF Goes, IInv, Typed
<1>10. Sound(r)'
  BY <1>4, <1>5, <1>8, <1>9 DEF Sound
<1>11. Mine(f) \subseteq Mine(req[r]) /\ asked \subseteq asked'
  BY <1>5, <1>6 DEF Mine
<1>12. db' = db /\ segs' = segs
  BY DEF Receive
<1> QED
  BY <1>1, <1>5, <1>6, <1>7, <1>10, <1>11, <1>12, RequestGoesOn

LEMMA ScanStep ==
  ASSUME IInv, NEW r \in Everyone, isolated_segments(r)
  PROVE  IInv'
<1> PICK g \in Requests : g = req[r]
  BY DEF IInv, Typed
<1>0. Sound(r) /\ segs \subseteq Segments /\ env' \in Limits
  BY DEF IInv, Typed, OnTheirWay, isolated_segments
<1> PICK S : S = {s \in segs : ~Held(s)}
  OBVIOUS
<1> PICK f : f = [g EXCEPT !.pc = "recon", !.from = "recon", !.todo = S]
  OBVIOUS
<1>1. g.pc = "scan" /\ g.seg = None
  BY <1>0 DEF isolated_segments, Sound
<1>2. /\ f \in Requests /\ f.pc = "recon" /\ f.from = "recon" /\ f.todo = S /\ f.user = g.user /\ f.seg = None
      /\ f.after = g.after
  BY <1>0, <1>1 DEF Requests
<1>3. req' = [req EXCEPT ![r] = f] /\ req'[r] = f
  BY DEF isolated_segments, Goes, IInv, Typed
<1>4. f.user # None => Authorised(f.user)'
  BY <1>0, <1>2, AskedGrows DEF Sound, isolated_segments
<1>5. Sound(r)'
  BY <1>0, <1>1, <1>2, <1>3, <1>4 DEF Sound, isolated_segments
<1>6. \A q \in Everyone \ {r} : Mine(req[q]) \subseteq segs' /\ Mine(req[q]) \intersect Mine(f) = {}
  <2>1. \A q \in Everyone \ {r} : Mine(req[q]) \subseteq segs'
    BY OthersHold DEF isolated_segments
  <2>2. \A q \in Everyone, s \in segs : s \in Mine(req[q]) => Held(s)
    BY DEF Held, Mine, IInv, Typed
  <2> QED
    BY <1>2, <2>1, <2>2 DEF Mine
<1>7. Reserved'
  <2>1. \A s \in segs : Authorised(s)'
    BY AskedGrows DEF IInv, Reserved, isolated_segments
  <2> QED
    BY <2>1 DEF IInv, Reserved, isolated_segments
<1> QED
  BY <1>0, <1>2, <1>3, <1>5, <1>6, <1>7, RequestMoves DEF isolated_segments

LEMMA ReconcileStep ==
  ASSUME IInv, NEW r \in Everyone, reconcile_reserved_once(r)
  PROVE  IInv'
<1> PICK g \in Requests : g = req[r]
  BY DEF IInv, Typed
<1>0. Sound(r) /\ segs \subseteq Segments /\ env' \in Limits /\ env' = env /\ asked' = asked /\ db' = db
  BY DEF IInv, Typed, OnTheirWay, reconcile_reserved_once
<1>1. /\ g.pc = "recon" /\ g.seg = None /\ g.from = "recon" /\ g.todo \subseteq segs /\ db.n \in Nat
      /\ req \in [Everyone -> Requests]
  BY <1>0 DEF reconcile_reserved_once, Sound, IInv, Typed, Journal
<1>2. g.user # None => Authorised(g.user)'
  BY <1>0, AskedGrows DEF Sound
<1>3. CASE segs' = segs /\ \E out : Answer(r, out)
  BY <1>0, <1>3, AnswerMoves
<1>4. CASE req[r].after # "end" /\ Goes(r, [req[r] EXCEPT !.pc = "read", !.from = "user"]) /\ segs' = segs
  <2> PICK f : f = [g EXCEPT !.pc = "read", !.from = "user"]
    OBVIOUS
  <2>1. /\ f \in Requests /\ f.pc = "read" /\ f.todo = g.todo /\ f.user = g.user /\ f.seg = None
        /\ g.after = "read"
    BY <1>1, <1>4 DEF Requests
  <2>2. Goes(r, f) /\ req'[r] = f
    BY <1>1, <1>4 DEF Goes
  <2>3. Sound(r)'
    BY <1>0, <1>1, <1>2, <1>4, <2>1, <2>2 DEF Sound
  <2> QED
    BY <1>0, <1>1, <1>4, <2>1, <2>2, <2>3, RequestGoesOn DEF Mine
<1>5. ASSUME NEW s \in req[r].todo, Goes(r, [req[r] EXCEPT !.todo = @ \ {s}]), segs' = segs \/ segs' = segs \ {s}
      PROVE  IInv'
  <2> PICK f : f = [g EXCEPT !.todo = g.todo \ {s}]
    OBVIOUS
  <2>1. /\ f \in Requests /\ f.pc = "recon" /\ f.from = "recon" /\ f.todo = g.todo \ {s} /\ f.user = g.user
        /\ f.seg = None /\ f.after = g.after
    BY <1>1 DEF Requests
  <2>2. req' = [req EXCEPT ![r] = f] /\ req'[r] = f
    BY <1>1, <1>5 DEF Goes
  <2>3. Sound(r)'
    BY <1>0, <1>1, <1>2, <1>5, <2>1, <2>2 DEF Sound
  <2>4. \A q \in Everyone \ {r} : Mine(req[q]) \subseteq segs'
    <3>1. s \in Mine(req[r])
      BY <1>5 DEF Mine
    <3>2. (segs \ {s}) \intersect segs \subseteq segs'
      BY <1>5
    <3> QED
      BY <3>1, <3>2, OthersHold
  <2>5. \A q \in Everyone \ {r} : Mine(req[q]) \intersect Mine(f) = {}
    <3>1. Mine(f) \subseteq Mine(req[r])
      BY <1>1, <2>1 DEF Mine
    <3> QED
      BY <3>1 DEF IInv, OnTheirWay
  <2>6. Reserved' /\ segs' \subseteq Segments
    <3>1. \A t \in segs : Authorised(t)'
      BY <1>0, AskedGrows DEF IInv, Reserved
    <3> QED
      BY <1>0, <1>5, <3>1 DEF IInv, Reserved
  <2> QED
    BY <1>0, <2>1, <2>2, <2>3, <2>4, <2>5, <2>6, RequestMoves
<1>6. ASSUME NEW s \in req[r].todo, segs' = segs,
             Goes(r, [req[r] EXCEPT !.pc = "reserve", !.job = s, !.snap = db.n,
                                    !.ok = accept_inner(s), !.todo = @ \ {s}])
      PROVE  IInv'
  <2>0. s \in segs /\ s \in Segments /\ s \in Jobs /\ Authorised(s)'
    BY <1>0, <1>1, <1>6, SegmentsAreJobs, AskedGrows DEF IInv, Reserved
  <2> PICK b \in BOOLEAN : b = accept_inner(s)
    BY DEF accept_inner
  <2> PICK f : f = [g EXCEPT !.pc = "reserve", !.job = s, !.snap = db.n, !.ok = b, !.todo = g.todo \ {s}]
    OBVIOUS
  <2>1. /\ f \in Requests /\ f.pc = "reserve" /\ f.from = "recon" /\ f.todo = g.todo \ {s} /\ f.user = g.user
        /\ f.seg = None /\ f.after = g.after /\ f.job = s /\ f.snap = db.n /\ f.ok = b
    BY <1>1, <2>0 DEF Requests
  <2>2. Goes(r, f) /\ req'[r] = f
    BY <1>1, <1>6 DEF Goes
  <2>3. b => accept_inner(s)'
    BY <1>0 DEF accept_inner, is_open, validate_atom_merge, Forgotten
  <2>4. Sound(r)'
    BY <1>0, <1>1, <1>2, <1>6, <2>0, <2>1, <2>2, <2>3 DEF Sound
  <2> QED
    BY <1>0, <1>1, <1>6, <2>1, <2>2, <2>4, RequestGoesOn DEF Mine
<1>7. \/ segs' = segs /\ \E out : Answer(r, out)
      \/ req[r].after # "end" /\ Goes(r, [req[r] EXCEPT !.pc = "read", !.from = "user"]) /\ segs' = segs
      \/ \E s \in req[r].todo : /\ Goes(r, [req[r] EXCEPT !.todo = @ \ {s}])
                                /\ segs' = segs \/ segs' = segs \ {s}
      \/ \E s \in req[r].todo :
            /\ Goes(r, [req[r] EXCEPT !.pc = "reserve", !.job = s, !.snap = db.n,
                                      !.ok = accept_inner(s), !.todo = @ \ {s}])
            /\ segs' = segs
  BY DEF reconcile_reserved_once
<1> QED
  BY <1>3, <1>4, <1>5, <1>6, <1>7

LEMMA DecideStep ==
  ASSUME IInv, NEW r \in Everyone, decide_proposal(r)
  PROVE  IInv'
<1> PICK g \in Requests : g = req[r]
  BY DEF IInv, Typed
<1> PICK j : j = g.user
  OBVIOUS
<1>0. /\ Sound(r) /\ env' \in Limits /\ asked' = asked /\ db' = db /\ segs' = segs /\ db.n \in Nat
      /\ req \in [Everyone -> Requests]
  BY DEF IInv, Typed, OnTheirWay, decide_proposal, Journal
<1>1. g.pc = "read" /\ g.seg = None /\ g.todo \subseteq segs
  BY <1>0 DEF decide_proposal, Sound
<1>2. j # None /\ j \in Jobs /\ Authorised(j) /\ Authorised(j)'
  BY <1>0, <1>1, AskedGrows DEF Sound, Requests
<1>3. CASE \E out : Answer(r, out)
  BY <1>0, <1>3, AnswerMoves
<1>4. CASE reconciles_and_returns(r)
  <2> PICK f : f = [g EXCEPT !.pc = "scan", !.after = "end"]
    OBVIOUS
  <2>1. /\ f \in Requests /\ f.pc = "scan" /\ f.todo = g.todo /\ f.user = j /\ f.seg = None /\ f.after = "end"
    BY <1>1 DEF Requests
  <2>2. Goes(r, f) /\ req'[r] = f
    BY <1>0, <1>4 DEF reconciles_and_returns, Goes
  <2>3. Sound(r)'
    BY <1>0, <1>1, <1>2, <2>1, <2>2 DEF Sound
  <2> QED
    BY <1>0, <1>1, <2>1, <2>2, <2>3, RequestGoesOn DEF Mine
<1>5. ASSUME Goes(r, [req[r] EXCEPT
                   !.pc = IF j.kind \in {"defer", "reject"} THEN "revise" ELSE "reserve",
                   !.from = "user", !.job = Plain(j), !.snap = db.n, !.ok = accept_inner(j)])
      PROVE  IInv'
  <2> PICK i : i = Plain(j)
    OBVIOUS
  <2>1. /\ i \in Jobs /\ i.p = j.p /\ i.rev = j.rev /\ i.arg = j.arg /\ i.cmd = j.cmd
        /\ i.kind = IF j.kind = "merge" THEN "accept" ELSE j.kind
    BY <1>2 DEF Plain, Jobs, Kinds
  <2>2. j.kind \notin {"defer", "reject"} => i \in Segments
    BY <1>2, <2>1 DEF Jobs, Kinds, Segments, Args
  <2>3. Authorised(i)'
    BY <1>2, <2>1 DEF Authorised, Jobs
  <2>4. PICK b \in BOOLEAN : b = accept_inner(j)
    BY DEF accept_inner
  <2>5. b => accept_inner(i)'
    BY <1>0, <2>1, <2>4 DEF accept_inner, is_open, validate_atom_merge, Forgotten, Target
  <2>6. PICK c \in {"revise", "reserve"} : c = IF j.kind \in {"defer", "reject"} THEN "revise" ELSE "reserve"
    OBVIOUS
  <2>7. PICK k \in Nat : k = db.n
    BY <1>0
  <2>8. PICK f : f = [g EXCEPT !.pc = c, !.from = "user", !.job = i, !.snap = k, !.ok = b]
    OBVIOUS
  <2>9. /\ f \in Requests /\ f.pc = c /\ f.todo = g.todo /\ f.user = g.user /\ f.seg = g.seg
        /\ f.job = i /\ f.snap = k /\ f.ok = b
    <3>1. i \in Jobs
      BY <2>1
    <3> QED
      BY <3>1, <2>8 DEF Requests
  <2>10. Goes(r, f) /\ req'[r] = f
    BY <1>0, <1>5, <2>4, <2>6, <2>8, <2>7 DEF Goes
  <2>11. Sound(r)'
    BY <1>0, <1>1, <1>2, <2>1, <2>2, <2>3, <2>5, <2>6, <2>9, <2>10, <2>7 DEF Sound
  <2> QED
    BY <1>0, <1>1, <2>9, <2>10, <2>11, RequestGoesOn DEF Mine
<1>6. \/ \E out : Answer(r, out)
      \/ reconciles_and_returns(r)
      \/ Goes(r, [req[r] EXCEPT
               !.pc = IF j.kind \in {"defer", "reject"} THEN "revise" ELSE "reserve",
               !.from = "user", !.job = Plain(j), !.snap = db.n, !.ok = accept_inner(j)])
  BY DEF decide_proposal
<1> QED
  BY <1>3, <1>4, <1>5, <1>6

LEMMA ReserveStep ==
  ASSUME IInv, NEW r \in Everyone, Reserve(r)
  PROVE  IInv'
<1> PICK g \in Requests : g = req[r]
  BY DEF IInv, Typed
<1> PICK j : j = g.job
  OBVIOUS
<1>0. /\ Sound(r) /\ segs \subseteq Segments /\ env' \in Limits /\ asked' = asked /\ db' = db /\ db.n \in Nat
      /\ req \in [Everyone -> Requests]
  BY DEF IInv, Typed, OnTheirWay, Reserve, Journal
<1>1. /\ g.pc = "reserve" /\ g.seg = None /\ g.todo \subseteq segs /\ g.job = j
      /\ j \in Segments /\ g.snap <= db.n /\ (g.ok /\ g.snap = db.n => accept_inner(j))
      /\ g.from = "user" \/ g.after = "read" => g.user # None
  BY <1>0 DEF Reserve, Sound
<1>2. g.user # None => Authorised(g.user)'
  BY <1>0, AskedGrows DEF Sound
<1>3. Authorised(j)'
  BY <1>0, <1>1, AskedGrows DEF Sound
<1>4. accept_inner(j) => accept_inner(j)'
  BY <1>0 DEF accept_inner, is_open, validate_atom_merge, Forgotten
\* The request takes reservation t of its proposal, and the spool holds it.
<1>5. ASSUME NEW t \in Segments, Goes(r, [req[r] EXCEPT !.pc = "commit", !.seg = t]),
             segs' \subseteq Segments, t \in segs', t.p = j.p, g.todo \subseteq segs', t \notin g.todo, Reserved',
             \A q \in Everyone \ {r} : Mine(req[q]) \subseteq segs' /\ t \notin Mine(req[q])
      PROVE  IInv'
  <2> PICK f : f = [g EXCEPT !.pc = "commit", !.seg = t]
    OBVIOUS
  <2>1. /\ f \in Requests /\ f.pc = "commit" /\ f.todo = g.todo /\ f.user = g.user /\ f.seg = t /\ f.job = j
        /\ f.snap = g.snap /\ f.ok = g.ok /\ f.after = g.after
    BY <1>1 DEF Requests
  <2>2. req' = [req EXCEPT ![r] = f] /\ req'[r] = f
    BY <1>0, <1>5 DEF Goes
  <2>3. Sound(r)'
    BY <1>0, <1>1, <1>2, <1>3, <1>4, <1>5, <2>1, <2>2 DEF Sound
  <2>4. \A q \in Everyone \ {r} : Mine(req[q]) \intersect Mine(f) = {}
    <3>1. \A q \in Everyone \ {r} : Mine(req[q]) \intersect Mine(g) = {}
      BY DEF IInv, OnTheirWay
    <3> QED
      BY <1>5, <2>1, <3>1 DEF Mine
  <2> QED
    BY <1>0, <1>5, <2>1, <2>2, <2>3, <2>4, RequestMoves
\* A new reservation beside those that are kept.
<1>6. ASSUME NEW kept, kept \subseteq segs, append_isolated_sealed(r, kept),
             \A s \in segs : s \notin kept => ~Held(s)
      PROVE  IInv'
  <2>1. g.todo \subseteq kept
    BY <1>0, <1>1, <1>6 DEF Held
  <2>2. CASE Done(r, "error") /\ segs' = kept
    <3>1. \A q \in Everyone \ {r} : Mine(req[q]) \subseteq segs'
      BY <1>6, <2>2, OthersHold
    <3> QED
      BY <1>0, <1>1, <1>6, <2>1, <2>2, <3>1, DoneMoves
  <2>3. CASE /\ ~\E s \in kept : s.p = req[r].job.p
             /\ segs' = kept \union {Fresh(r)} /\ Goes(r, [req[r] EXCEPT !.pc = "commit", !.seg = Fresh(r)])
    <3> PICK t : t = Fresh(r)
      OBVIOUS
    <3>1. t \in Segments /\ t.p = j.p /\ t.rev = j.rev /\ t.arg = j.arg /\ t.kind = j.kind
      <4>1. g.from = "user" => g.user.cmd \in Nat \ {0}
        BY <1>1 DEF Requests, Jobs
      <4> QED
        BY <1>1, <4>1 DEF Fresh, Segments
    <3>2. Authorised(t)'
      BY <1>3, <3>1 DEF Authorised
    <3>3. t \notin kept /\ t \in segs' /\ kept \subseteq segs' /\ segs' \subseteq Segments
      BY <1>0, <1>1, <1>6, <2>3, <3>1
    <3>4. Reserved'
      <4>1. \A s \in kept : Authorised(s)'
        BY <1>0, <1>6, AskedGrows DEF IInv, Reserved
      <4> QED
        BY <1>1, <1>6, <2>3, <3>1, <3>2, <4>1 DEF IInv, Reserved
    <3>5. \A q \in Everyone \ {r} : Mine(req[q]) \subseteq kept
      <4>1. \A q \in Everyone \ {r} : \A s \in Mine(req[q]) : s \in segs /\ Held(s)
        <5> SUFFICES ASSUME NEW q \in Everyone \ {r}, NEW s \in Mine(req[q]) PROVE s \in segs /\ Held(s)
          OBVIOUS
        <5>1. Sound(q)
          BY DEF IInv, OnTheirWay
        <5> QED
          BY <1>0, <5>1 DEF Sound, Mine, Held
      <4> QED
        BY <1>6, <4>1
    <3> QED
      BY <1>5, <2>1, <2>3, <3>1, <3>3, <3>4, <3>5
  <2> QED
    BY <1>6, <2>2, <2>3 DEF append_isolated_sealed
<1>7. ASSUME NEW s \in claim_isolated_record(j), Goes(r, [req[r] EXCEPT !.pc = "commit", !.seg = s]), segs' = segs
      PROVE  IInv'
  <2>1. s \in segs /\ s \in Segments /\ ~Held(s) /\ s.p = j.p
    BY <1>0, <1>7 DEF claim_isolated_record, RecordOf
  <2>2. s \notin g.todo /\ \A q \in Everyone \ {r} : s \notin Mine(req[q])
    BY <1>0, <2>1 DEF Held, Mine
  <2>3. \A q \in Everyone \ {r} : Mine(req[q]) \subseteq segs'
    BY <1>7, OthersHold
  <2>4. Reserved'
    <3>1. \A t \in segs : Authorised(t)'
      BY <1>0, AskedGrows DEF IInv, Reserved
    <3> QED
      BY <1>7, <3>1 DEF IInv, Reserved
  <2> QED
    BY <1>0, <1>1, <1>5, <1>7, <2>1, <2>2, <2>3, <2>4
<1>8. CASE Done(r, "error") /\ segs' = segs
  <2>1. \A q \in Everyone \ {r} : Mine(req[q]) \subseteq segs'
    BY <1>8, OthersHold
  <2> QED
    BY <1>0, <1>1, <1>8, <2>1, DoneMoves
<1>9. ASSUME NEW s \in claim_isolated_record(j), append_isolated_sealed(r, segs \ {s})
      PROVE  IInv'
  <2>1. ~Held(s)
    BY <1>9 DEF claim_isolated_record
  <2> QED
    BY <1>6, <1>9, <2>1
<1>10. CASE append_isolated_sealed(r, segs)
  BY <1>6, <1>10
<1> QED
  BY <1>7, <1>8, <1>9, <1>10 DEF Reserve

-----------------------------------------------------------------------------
(* The steps that move the journal.                                             *)

\* The journal moves on, and no request or the one that moved it: it holds no more than before.
LEMMA JournalMoves ==
  ASSUME IInv, db' \in Journal, db'.n > db.n, db.log \subseteq db'.log, Recorded', segs' = segs, asked' = asked,
         env' \in Limits,
         \/ req' = req
         \/ \E r \in Everyone, f \in Requests :
               req' = [req EXCEPT ![r] = f] /\ Sound(r)' /\ Mine(f) \subseteq Mine(req[r])
  PROVE  IInv'
<1>1. Reserved'
  <2>1. \A s \in segs : Authorised(s)'
    BY AskedGrows DEF IInv, Reserved
  <2> QED
    BY <2>1 DEF IInv, Reserved
<1>2. Grows
  BY DEF Grows
<1>3. \A q \in Everyone : Mine(req[q]) \subseteq segs'
  <2> SUFFICES ASSUME NEW q \in Everyone PROVE Mine(req[q]) \subseteq segs
    OBVIOUS
  <2>1. Sound(q)
    BY DEF IInv, OnTheirWay
  <2> QED
    BY <2>1 DEF Sound, Mine
<1>4. OnTheirWay' /\ req' \in [Everyone -> Requests]
  <2>1. CASE req' = req
    <3>1. \A q \in Everyone : Sound(q)'
      BY <1>2, <1>3, <2>1, SoundKept
    <3> QED
      BY <2>1, <3>1 DEF IInv, Typed, OnTheirWay, Mine
  <2>2. ASSUME NEW r \in Everyone, NEW f \in Requests, req' = [req EXCEPT ![r] = f], Sound(r)',
               Mine(f) \subseteq Mine(req[r])
        PROVE  OnTheirWay' /\ req' \in [Everyone -> Requests]
    <3>1. \A q \in Everyone \ {r} : Mine(req[q]) \intersect Mine(f) = {}
      BY <2>2 DEF IInv, OnTheirWay
    <3> QED
      BY <1>2, <1>3, <2>2, <3>1, AloneKept
  <2> QED
    BY <2>1, <2>2
<1> QED
  BY <1>1, <1>4 DEF IInv, Typed

\* What an acceptance leaves in the journal.
LEMMA AcceptedIs ==
  ASSUME db \in Journal, NEW j \in Segments
  PROVE  \E l \in Entries :
            /\ Accepted(j) \in Journal /\ Target(j.p) \in Objects
            /\ l.p = j.p /\ l.rev = j.rev /\ l.kind = j.kind /\ l.arg = j.arg /\ l.cmd = j.cmd
            /\ l.atom = db.atoms[Target(j.p)] + 1
            /\ l.after <=> \E a \in Objects : Forgotten(a)
            /\ Accepted(j).n = db.n + 1
            /\ Accepted(j).props[j.p].st \in {"superseded", "accepted"}
            /\ Accepted(j).props[j.p].rev = db.props[j.p].rev + 1
            /\ \A p \in Proposals \ {j.p} : Accepted(j).props[p] = db.props[p]
            /\ Accepted(j).atoms[Target(j.p)] = db.atoms[Target(j.p)] + 1
            /\ \A a \in Objects \ {Target(j.p)} : Accepted(j).atoms[a] = db.atoms[a]
            /\ Accepted(j).ledger = db.ledger
            /\ Accepted(j).log = db.log \union {l}
<1>1. /\ j.p \in Proposals /\ j.rev \in Nat /\ j.kind \in {"accept", "edit", "reauthorize"} /\ j.arg \in Args
      /\ j.cmd \in Nat \ {0}
  BY DEF Segments, Args
<1>2. Target(j.p) \in Objects
  BY <1>1, TargetsAssumption DEF Target, Objects, Proposals
<1>3. /\ db.n \in Nat /\ db.props \in [Proposals -> [rev : Nat, st : Status]] /\ db.atoms \in [Objects -> Nat]
      /\ db.log \subseteq Entries
  BY DEF Journal
<1> PICK t : t = Target(j.p)
  OBVIOUS
<1>4. PICK b \in BOOLEAN : b = \E a \in Objects : Forgotten(a)
  OBVIOUS
<1>5. PICK l : l = [p |-> j.p, rev |-> j.rev, kind |-> j.kind, arg |-> j.arg, cmd |-> j.cmd,
                    atom |-> db.atoms[t] + 1, after |-> b]
  OBVIOUS
<1>6. /\ l \in Entries /\ l.p = j.p /\ l.rev = j.rev /\ l.kind = j.kind /\ l.arg = j.arg /\ l.cmd = j.cmd
      /\ l.atom = db.atoms[t] + 1 /\ l.after = b
  BY <1>1, <1>2, <1>3, <1>5 DEF Entries
<1>7. PICK v : v = [rev |-> db.props[j.p].rev + 1, st |-> IF j.kind = "edit" THEN "superseded" ELSE "accepted"]
  OBVIOUS
<1>8. v \in [rev : Nat, st : Status] /\ v.rev = db.props[j.p].rev + 1 /\ v.st \in {"superseded", "accepted"}
  BY <1>1, <1>3, <1>7 DEF Status
<1>9. PICK P : P = [db.props EXCEPT ![j.p] = v]
  OBVIOUS
<1>10. PICK A : A = [db.atoms EXCEPT ![t] = db.atoms[t] + 1]
  OBVIOUS
<1>11. P \in [Proposals -> [rev : Nat, st : Status]] /\ P[j.p] = v /\ \A p \in Proposals \ {j.p} : P[p] = db.props[p]
  BY <1>1, <1>3, <1>8, <1>9
<1>12. /\ A \in [Objects -> Nat] /\ A[t] = db.atoms[t] + 1
       /\ \A a \in Objects \ {t} : A[a] = db.atoms[a]
  BY <1>2, <1>3, <1>10
<1>13. PICK k \in Nat : k = db.n + 1
  BY <1>3
<1>14. PICK L \in SUBSET Entries : L = db.log \union {l}
  BY <1>3, <1>6
<1>15. PICK d : d = [db EXCEPT !.n = k, !.props = P, !.atoms = A, !.log = L]
  OBVIOUS
<1>16. d \in Journal /\ d.n = k /\ d.props = P /\ d.atoms = A /\ d.log = L /\ d.ledger = db.ledger
  BY <1>11, <1>12, <1>15 DEF Journal
<1>17. Accepted(j) = d
  <2>1. Accepted(j) = [db EXCEPT !.n = db.n + 1, !.props = [db.props EXCEPT ![j.p] = v],
                                 !.atoms = [db.atoms EXCEPT ![t] = db.atoms[t] + 1],
                                 !.log = db.log \union {l}]
    BY <1>4, <1>5, <1>7 DEF Accepted
  <2> QED
    BY <2>1, <1>9, <1>10, <1>15, <1>13, <1>14
<1>18. (l.after <=> \E a \in Objects : Forgotten(a))
  BY <1>4, <1>6
<1> l \in Entries
  BY <1>6
<1> WITNESS l \in Entries
<1> QED
  BY <1>2, <1>6, <1>8, <1>11, <1>12, <1>16, <1>17, <1>18, <1>13, <1>14

\* An acceptance that a request commits keeps the journal sound.
LEMMA AcceptedRecorded ==
  ASSUME IInv, NEW j \in Segments, db' = Accepted(j), asked' = asked, Authorised(j), accept_inner(j),
         validate_non_resurrection(j)
  PROVE  Recorded' /\ db' \in Journal /\ db'.n > db.n /\ db.log \subseteq db'.log /\ Committed(j)'
<1>1. db \in Journal /\ Recorded
  BY DEF IInv, Typed
<1>2. PICK l \in Entries :
            /\ db' \in Journal /\ Target(j.p) \in Objects
            /\ l.p = j.p /\ l.rev = j.rev /\ l.kind = j.kind /\ l.arg = j.arg /\ l.cmd = j.cmd
            /\ l.atom = db.atoms[Target(j.p)] + 1
            /\ l.after <=> \E a \in Objects : Forgotten(a)
            /\ db'.n = db.n + 1
            /\ db'.props[j.p].st \in {"superseded", "accepted"}
            /\ db'.props[j.p].rev = db.props[j.p].rev + 1
            /\ \A p \in Proposals \ {j.p} : db'.props[p] = db.props[p]
            /\ db'.atoms[Target(j.p)] = db.atoms[Target(j.p)] + 1
            /\ \A a \in Objects \ {Target(j.p)} : db'.atoms[a] = db.atoms[a]
            /\ db'.ledger = db.ledger
            /\ db'.log = db.log \union {l}
  BY <1>1, AcceptedIs
<1>3. /\ j.p \in Proposals /\ j.kind \in {"accept", "edit", "reauthorize"} /\ is_open(j.p)
      /\ db.n \in Nat /\ db.props \in [Proposals -> [rev : Nat, st : Status]] /\ db.atoms \in [Objects -> Nat]
  BY <1>1 DEF Segments, Journal, accept_inner
<1>4. j.p \notin Creates => db.atoms[Target(j.p)] = 1
  BY <1>3, TargetsAssumption DEF accept_inner, validate_atom_merge, Target, Proposals
<1>5. ~Forgotten(Target(j.p))
  BY <1>1, <1>2, <1>3, <1>4 DEF Recorded, Target
<1>6. \A p \in Proposals : db'.props[p].rev \in 1 .. (db'.n + 1)
  <2> SUFFICES ASSUME NEW p \in Proposals PROVE db'.props[p].rev \in 1 .. (db'.n + 1)
    OBVIOUS
  <2>1. db.props[p].rev \in 1 .. (db.n + 1)
    BY <1>1 DEF Recorded
  <2>2. db'.props[p].rev = db.props[p].rev \/ db'.props[p].rev = db.props[p].rev + 1
    BY <1>2
  <2> QED
    BY <1>2, <1>3, <2>1, <2>2
<1>7. \A a \in Objects : Forgotten(a)' => db'.atoms[a] = 0
  BY <1>1, <1>2, <1>5 DEF Recorded, Forgotten
<1>8. \A p \in Creates : is_open(p)' => db'.atoms[p] = 0 /\ ~Forgotten(p)'
  <2> SUFFICES ASSUME NEW p \in Creates, is_open(p)' PROVE db'.atoms[p] = 0 /\ ~Forgotten(p)'
    OBVIOUS
  <2>1. p \in Proposals /\ p \in Objects /\ p # j.p /\ is_open(p)
    BY <1>2 DEF Proposals, Objects, is_open
  <2>2. p # Target(j.p)
    BY <1>3, <2>1, TargetsAssumption DEF Target, Proposals
  <2> QED
    BY <1>1, <1>2, <2>1, <2>2 DEF Recorded, Forgotten
<1>9. \A k \in db'.log : /\ ~is_open(k.p)' /\ Authorised(k)'
                         /\ k.p \notin Creates => k.atom = 2
                         /\ k.p \in Creates /\ k.after => k.kind = "reauthorize"
  <2>1. ASSUME NEW k \in db.log
        PROVE  /\ ~is_open(k.p)' /\ Authorised(k)'
               /\ k.p \notin Creates => k.atom = 2
               /\ k.p \in Creates /\ k.after => k.kind = "reauthorize"
    <3>1. k.p \in Proposals
      BY <1>1 DEF Journal, Entries
    <3>2. k.p # j.p
      BY <1>1, <1>3 DEF Recorded
    <3> QED
      BY <1>1, <1>2, <3>1, <3>2, AskedGrows DEF Recorded, is_open
  <2>2. ~is_open(l.p)' /\ Authorised(l)' /\ (l.p \notin Creates => l.atom = 2)
    BY <1>2, <1>3, <1>4 DEF is_open, Authorised
  <2>3. l.p \in Creates /\ l.after => l.kind = "reauthorize"
    BY <1>2, <1>3 DEF validate_non_resurrection, classify_deletion_candidate
  <2> QED
    BY <1>2, <2>1, <2>2, <2>3
<1>10. \A k, m \in db'.log : k.p = m.p => k = m
  <2>1. \A k \in db.log : k.p # j.p
    BY <1>1, <1>3 DEF Recorded
  <2> QED
    BY <1>1, <1>2, <2>1 DEF Recorded
<1>11. Committed(j)'
  BY <1>2 DEF Committed
<1> QED
  BY <1>2, <1>3, <1>6, <1>7, <1>8, <1>9, <1>10, <1>11 DEF Recorded

LEMMA CommitStep ==
  ASSUME IInv, NEW r \in Everyone, Commit(r)
  PROVE  IInv'
<1>1. PICK g \in Requests : g = req[r]
  BY DEF IInv, Typed
<1>2. PICK j : j = g.seg
  OBVIOUS
<1>3. /\ Sound(r) /\ segs \subseteq Segments /\ env' \in Limits /\ asked' = asked /\ segs' = segs
      /\ req \in [Everyone -> Requests]
  BY DEF IInv, Typed, OnTheirWay, Commit
<1>4. g.pc = "commit" /\ j \in segs /\ j \in Segments /\ j \notin g.todo /\ g.todo \subseteq segs /\ j.p = g.job.p
  BY <1>1, <1>2, <1>3 DEF Commit, Sound
<1>5. CASE db' = db /\ \E out : Done(r, out)
  <2>1. \A q \in Everyone \ {r} : Mine(req[q]) \subseteq segs'
    BY <1>3, OthersHold
  <2> QED
    BY <1>1, <1>3, <1>4, <1>5, <2>1, DoneMoves
<1>6. CASE /\ req[r].ok /\ commit_if_frontier(r) /\ validate_non_resurrection(j)
           /\ db' = Accepted(j) /\ Goes(r, [req[r] EXCEPT !.pc = "ack"])
  <2>1. accept_inner(j)
    <3>1. accept_inner(g.job)
      BY <1>1, <1>3, <1>4, <1>6 DEF Sound, commit_if_frontier
    <3> QED
      BY <1>4, <3>1 DEF accept_inner, Target
  <2>2. Authorised(j)
    BY <1>4 DEF IInv, Reserved
  <2>3. Recorded' /\ db' \in Journal /\ db'.n > db.n /\ db.log \subseteq db'.log /\ Committed(j)'
    BY <1>3, <1>4, <1>6, <2>1, <2>2, AcceptedRecorded
  <2>4. PICK f : f = [g EXCEPT !.pc = "ack"]
    OBVIOUS
  <2>5. f \in Requests /\ f.pc = "ack" /\ f.todo = g.todo /\ f.user = g.user /\ f.seg = j /\ f.after = g.after
    BY <1>2, <2>4 DEF Requests
  <2>6. req' = [req EXCEPT ![r] = f] /\ req'[r] = f
    BY <1>1, <1>3, <1>6, <2>4 DEF Goes
  <2>7. f.user # None => Authorised(f.user)'
    BY <1>1, <1>3, <2>5, AskedGrows DEF Sound
  <2>8. Sound(r)'
    BY <1>1, <1>3, <1>4, <2>3, <2>5, <2>6, <2>7 DEF Sound
  <2>9. Mine(f) \subseteq Mine(req[r])
    BY <1>1, <1>2, <2>5 DEF Mine
  <2> QED
    BY <1>3, <2>3, <2>5, <2>6, <2>8, <2>9, JournalMoves
<1> QED
  BY <1>1, <1>2, <1>5, <1>6 DEF Commit

LEMMA AcknowledgeStep ==
  ASSUME IInv, NEW r \in Everyone, Acknowledge(r)
  PROVE  IInv'
<1>1. /\ Sound(r) /\ segs \subseteq Segments /\ env' \in Limits /\ asked' = asked /\ db' = db /\ req[r].pc = "ack"
  BY DEF IInv, Typed, OnTheirWay, Acknowledge
<1>2. req[r].seg \in segs /\ req[r].seg # None /\ req[r].seg \notin req[r].todo /\ req[r].todo \subseteq segs
  BY <1>1, NothingHeld DEF Sound
<1>3. (segs' = segs \/ segs' = segs \ {req[r].seg}) /\ \E out : Done(r, out)
  BY DEF Acknowledge
<1>4. \A q \in Everyone \ {r} : Mine(req[q]) \subseteq segs'
  <2>1. req[r].seg \in Mine(req[r])
    BY <1>2 DEF Mine
  <2>2. (segs \ {req[r].seg}) \intersect segs \subseteq segs'
    BY <1>3
  <2> QED
    BY <2>1, <2>2, OthersHold
<1> QED
  BY <1>1, <1>2, <1>3, <1>4, DoneMoves

LEMMA BusyStep ==
  ASSUME IInv, NEW r \in Everyone, Busy(r)
  PROVE  IInv'
<1>1. Sound(r) /\ env' \in Limits /\ asked' = asked /\ db' = db /\ segs' = segs /\ req[r].pc # "idle"
  BY DEF IInv, Typed, OnTheirWay, Busy, Limits
<1>2. req[r].todo \subseteq segs' /\ Done(r, "error")
  BY <1>1 DEF Sound, Busy
<1>3. \A q \in Everyone \ {r} : Mine(req[q]) \subseteq segs'
  BY <1>1, OthersHold
<1> QED
  BY <1>1, <1>2, <1>3, DoneMoves

\* A commit that accepts nothing.
LEMMA RecordedMoves ==
  ASSUME IInv, db' \in Journal, db'.n = db.n + 1, db'.log = db.log, asked' = asked,
         \A p \in Proposals : /\ db'.props[p].rev \in {db.props[p].rev, db.props[p].rev + 1}
                              /\ is_open(p)' => is_open(p),
         \A a \in Objects : Forgotten(a)' => db'.atoms[a] = 0,
         \A p \in Creates : is_open(p) => db'.atoms[p] = db.atoms[p] /\ db'.ledger[p] = db.ledger[p]
  PROVE  Recorded'
<1>1. \A p \in Proposals : db'.props[p].rev \in 1 .. (db'.n + 1)
  <2> SUFFICES ASSUME NEW p \in Proposals PROVE db'.props[p].rev \in 1 .. (db'.n + 1)
    OBVIOUS
  <2>1. db.props[p].rev \in 1 .. (db.n + 1) /\ db.n \in Nat
    BY DEF IInv, Recorded, Typed, Journal
  <2> QED
    BY <2>1
<1>2. \A p \in Creates : is_open(p)' => db'.atoms[p] = 0 /\ ~Forgotten(p)'
  BY DEF IInv, Recorded, Proposals, Forgotten
<1>3. \A l \in db'.log : ~is_open(l.p)' /\ Authorised(l)'
  <2> SUFFICES ASSUME NEW l \in db.log PROVE ~is_open(l.p)' /\ Authorised(l)'
    OBVIOUS
  <2>1. l.p \in Proposals
    BY DEF IInv, Typed, Journal, Entries
  <2> QED
    BY <2>1, AskedGrows DEF IInv, Recorded
<1> QED
  BY <1>1, <1>2, <1>3 DEF IInv, Recorded

LEMMA ReviseStep ==
  ASSUME IInv, NEW r \in Everyone, ReviseStatus(r)
  PROVE  IInv'
<1>1. /\ Sound(r) /\ env' \in Limits /\ asked' = asked /\ segs' = segs /\ req[r].pc = "revise"
      /\ req \in [Everyone -> Requests] /\ db \in Journal
  BY DEF IInv, Typed, OnTheirWay, ReviseStatus
<1>2. \E out : Answer(r, out)
  BY DEF ReviseStatus
<1>3. CASE db' = db
  BY <1>1, <1>2, <1>3, AnswerMoves
<1>4. CASE db' = revise_status(req[r].job) /\ is_open(req[r].job.p)
  <2>1. PICK p \in Proposals : p = req[r].job.p
    BY <1>1 DEF Sound, Jobs
  <2>2. PICK v \in [rev : Nat, st : Status] :
           v = [rev |-> db.props[p].rev + 1, st |-> IF req[r].job.kind = "defer" THEN "deferred" ELSE "rejected"]
    <3>1. db.props[p].rev + 1 \in Nat
      BY <1>1, <2>1 DEF Journal
    <3>2. PICK w \in {"deferred", "rejected"} : w = IF req[r].job.kind = "defer" THEN "deferred" ELSE "rejected"
      OBVIOUS
    <3>3. [rev |-> db.props[p].rev + 1, st |-> w] \in [rev : Nat, st : Status]
      BY <3>1 DEF Status
    <3> QED
      BY <3>2, <3>3
  <2>3. PICK P : P = [db.props EXCEPT ![p] = v]
    OBVIOUS
  <2>4. P \in [Proposals -> [rev : Nat, st : Status]] /\ P[p] = v /\ \A q \in Proposals \ {p} : P[q] = db.props[q]
    BY <1>1, <2>2, <2>3 DEF Journal
  <2>5. PICK k \in Nat : k = db.n + 1
    BY <1>1 DEF Journal
  <2>6. db' = [db EXCEPT !.n = k, !.props = P]
    BY <1>4, <2>1, <2>2, <2>3, <2>5 DEF revise_status
  <2>7. /\ db' \in Journal /\ db'.n = k /\ db'.props = P /\ db'.atoms = db.atoms /\ db'.ledger = db.ledger
        /\ db'.log = db.log
    BY <1>1, <2>4, <2>6 DEF Journal
  <2>8. v.rev = db.props[p].rev + 1 /\ v.st # "pending"
    BY <2>2
  <2>9. Recorded'
    <3>1. \A q \in Proposals : /\ db'.props[q].rev \in {db.props[q].rev, db.props[q].rev + 1}
                               /\ is_open(q)' => is_open(q)
      BY <2>4, <2>7, <2>8 DEF is_open
    <3>2. \A a \in Objects : Forgotten(a)' => db'.atoms[a] = 0
      BY <2>7 DEF Forgotten, IInv, Recorded
    <3> QED
      BY <1>1, <2>5, <2>7, <3>1, <3>2, RecordedMoves
  <2>10. db'.n > db.n
    BY <1>1, <2>5, <2>7 DEF Journal
  <2>11. req' = [req EXCEPT ![r] = Idle] /\ req'[r] = Idle
    BY <1>1, <1>2 DEF Answer, Goes
  <2> QED
    BY <1>1, <2>7, <2>9, <2>10, <2>11, IdleSound, NothingHeld, JournalMoves
<1> QED
  BY <1>3, <1>4 DEF ReviseStatus

-----------------------------------------------------------------------------
(* Everything else that commits, and the daemon's life.                         *)

LEMMA OtherSteps ==
  ASSUME IInv,
         \/ OtherCommit \/ (\E p \in env.props : submit(p)) \/ (\E a \in Atoms : ReviseAtom(a))
         \/ \E a \in Objects : forget_object(a) \/ complete_object_forget(a)
  PROVE  IInv'
<1>1. /\ segs' = segs /\ req' = req /\ asked' = asked
  BY DEF OtherCommit, submit, ReviseAtom, Other, forget_object, complete_object_forget
<1>2. env \in Limits /\ db \in Journal
  BY DEF IInv, Typed
<1>3. env' \in Limits
  <2>1. \/ env' = env \/ (env.other > 0 /\ env' = [env EXCEPT !.other = @ - 1])
        \/ env.forget > 0 /\ env' = [env EXCEPT !.forget = @ - 1]
    BY DEF OtherCommit, submit, ReviseAtom, Other, Free, forget_object, complete_object_forget
  <2> QED
    BY <1>2, <2>1 DEF Limits
<1>4. /\ db.n \in Nat /\ db.props \in [Proposals -> [rev : Nat, st : Status]] /\ db.atoms \in [Objects -> Nat]
      /\ db.ledger \in [Objects -> {"live", "pending", "purged"}] /\ db.log \subseteq Entries
  BY <1>2 DEF Journal
<1>5. PICK k \in Nat : k = db.n + 1
  BY <1>4
<1>6. /\ \A a \in Objects : Forgotten(a) => db.atoms[a] = 0
      /\ \A p \in Creates : p \in Objects /\ p \notin Atoms /\ (is_open(p) => db.atoms[p] = 0 /\ ~Forgotten(p))
  BY TargetsAssumption DEF IInv, Recorded, Objects, Proposals
<1>7. ASSUME NEW P \in [Proposals -> [rev : Nat, st : Status]], NEW A \in [Objects -> Nat],
             NEW G \in [Objects -> {"live", "pending", "purged"}],
             db' = [db EXCEPT !.n = k, !.props = P, !.atoms = A, !.ledger = G],
             \A p \in Proposals : P[p].rev \in {db.props[p].rev, db.props[p].rev + 1} /\ P[p].st = db.props[p].st,
             \A a \in Objects : G[a] # "live" => A[a] = 0,
             \A p \in Creates : is_open(p) => A[p] = db.atoms[p] /\ G[p] = db.ledger[p]
      PROVE  IInv'
  <2>1. /\ db' \in Journal /\ db'.n = k /\ db'.props = P /\ db'.atoms = A /\ db'.ledger = G /\ db'.log = db.log
    BY <1>2, <1>7 DEF Journal
  <2>2. \A p \in Proposals : /\ db'.props[p].rev \in {db.props[p].rev, db.props[p].rev + 1}
                             /\ is_open(p)' => is_open(p)
    BY <1>7, <2>1 DEF is_open
  <2>3. \A a \in Objects : Forgotten(a)' => db'.atoms[a] = 0
    BY <1>7, <2>1 DEF Forgotten
  <2>4. \A p \in Creates : is_open(p) => db'.atoms[p] = db.atoms[p] /\ db'.ledger[p] = db.ledger[p]
    BY <1>7, <2>1
  <2>5. Recorded'
    BY <1>1, <1>5, <2>1, <2>2, <2>3, <2>4, RecordedMoves
  <2>6. db'.n > db.n
    BY <1>4, <1>5, <2>1
  <2> QED
    BY <1>1, <1>3, <2>1, <2>5, <2>6, JournalMoves
<1>8. CASE OtherCommit
  <2>1. db' = [db EXCEPT !.n = k, !.props = db.props, !.atoms = db.atoms, !.ledger = db.ledger]
    BY <1>2, <1>5, <1>8 DEF OtherCommit, Other, Journal
  <2> QED
    BY <1>4, <1>6, <1>7, <2>1 DEF Forgotten
<1>9. ASSUME NEW p \in env.props, submit(p) PROVE IInv'
  <2>1. p \in Proposals
    BY <1>2 DEF Limits
  <2>2. PICK P : P = [db.props EXCEPT ![p].rev = db.props[p].rev + 1]
    OBVIOUS
  <2>3. /\ P \in [Proposals -> [rev : Nat, st : Status]]
        /\ \A q \in Proposals : P[q].rev \in {db.props[q].rev, db.props[q].rev + 1} /\ P[q].st = db.props[q].st
    BY <1>4, <2>1, <2>2
  <2>4. db' = [db EXCEPT !.n = k, !.props = P, !.atoms = db.atoms, !.ledger = db.ledger]
    BY <1>2, <1>5, <1>9, <2>1, <2>2 DEF submit, Other, Journal
  <2> QED
    BY <1>4, <1>6, <1>7, <2>3, <2>4 DEF Forgotten
<1>10. ASSUME NEW a \in Atoms, ReviseAtom(a) PROVE IInv'
  <2>1. a \in Objects /\ ~Forgotten(a)
    BY <1>10 DEF Objects, ReviseAtom
  <2>2. PICK A : A = [db.atoms EXCEPT ![a] = 2]
    OBVIOUS
  <2>3. A \in [Objects -> Nat] /\ A[a] = 2 /\ \A b \in Objects \ {a} : A[b] = db.atoms[b]
    BY <1>4, <2>1, <2>2
  <2>4. db' = [db EXCEPT !.n = k, !.props = db.props, !.atoms = A, !.ledger = db.ledger]
    BY <1>2, <1>5, <1>10, <2>2 DEF ReviseAtom, Other, Journal
  <2>5. \A b \in Objects : db.ledger[b] # "live" => A[b] = 0
    BY <1>6, <2>1, <2>3 DEF Forgotten
  <2>6. \A p \in Creates : A[p] = db.atoms[p]
    BY <1>6, <2>3
  <2> QED
    BY <1>4, <1>7, <2>3, <2>4, <2>5, <2>6
<1>11. ASSUME NEW a \in Objects, forget_object(a) PROVE IInv'
  <2>1. PICK A : A = [db.atoms EXCEPT ![a] = 0]
    OBVIOUS
  <2>2. PICK G : G = [db.ledger EXCEPT ![a] = "pending"]
    OBVIOUS
  <2>3. /\ A \in [Objects -> Nat] /\ G \in [Objects -> {"live", "pending", "purged"}]
        /\ A[a] = 0 /\ \A b \in Objects \ {a} : A[b] = db.atoms[b] /\ G[b] = db.ledger[b]
    BY <1>4, <2>1, <2>2
  <2>4. db' = [db EXCEPT !.n = k, !.props = db.props, !.atoms = A, !.ledger = G]
    BY <1>2, <1>5, <1>11, <2>1, <2>2 DEF forget_object, Journal
  <2>5. \A b \in Objects : G[b] # "live" => A[b] = 0
    <3> TAKE b \in Objects
    <3>1. CASE b = a
      BY <2>3, <3>1
    <3>2. CASE b # a
      BY <1>6, <2>3, <3>2 DEF Forgotten
    <3> QED
      BY <3>1, <3>2
  <2>6. \A p \in Creates : is_open(p) => A[p] = db.atoms[p] /\ G[p] = db.ledger[p]
    <3>1. db.atoms[a] > 0
      BY <1>11 DEF forget_object
    <3>2. \A p \in Creates : is_open(p) => p # a /\ p \in Objects
      BY <1>6, <3>1
    <3> QED
      BY <2>3, <3>2
  <2> QED
    BY <1>4, <1>7, <2>3, <2>4, <2>5, <2>6
<1>12. ASSUME NEW a \in Objects, complete_object_forget(a) PROVE IInv'
  <2>1. PICK G : G = [db.ledger EXCEPT ![a] = "purged"]
    OBVIOUS
  <2>2. /\ G \in [Objects -> {"live", "pending", "purged"}]
        /\ \A b \in Objects \ {a} : G[b] = db.ledger[b]
    BY <1>4, <2>1
  <2>3. db' = [db EXCEPT !.n = k, !.props = db.props, !.atoms = db.atoms, !.ledger = G]
    BY <1>2, <1>5, <1>12, <2>1 DEF complete_object_forget, Journal
  <2>4. Forgotten(a)
    BY <1>12 DEF complete_object_forget, Forgotten
  <2>5. \A b \in Objects : G[b] # "live" => db.atoms[b] = 0
    BY <1>6, <2>2, <2>4 DEF Forgotten
  <2>6. \A p \in Creates : is_open(p) => G[p] = db.ledger[p]
    BY <1>6, <2>2, <2>4
  <2> QED
    BY <1>4, <1>7, <2>2, <2>3, <2>5, <2>6
<1> QED
  BY <1>8, <1>9, <1>10, <1>11, <1>12

LEMMA LifeStep ==
  ASSUME IInv, Crash \/ Start
  PROVE  IInv'
<1>1. db' = db /\ segs' = segs /\ asked' = asked /\ req \in [Everyone -> Requests] /\ env \in Limits
  BY DEF Crash, Start, IInv, Typed
<1>2. CASE Crash
  <2>1. req' = [r \in Everyone |-> Idle] /\ env' \in Limits
    BY <1>1, <1>2 DEF Crash, Limits
  <2>2. \A r \in Everyone : req'[r] = Idle /\ Sound(r)'
    BY <2>1, IdleSound
  <2>3. OnTheirWay'
    BY <2>2, NothingHeld DEF OnTheirWay, Mine
  <2>4. Reserved'
    BY <1>1 DEF IInv, Reserved, Authorised
  <2> QED
    BY <1>1, <2>1, <2>3, <2>4, NothingHeld, RecordedKept DEF IInv, Typed
<1>3. CASE Start
  <2>1. PICK f : f = [Idle EXCEPT !.pc = "scan", !.after = "end"]
    OBVIOUS
  <2>2. f \in Requests /\ f.pc = "scan" /\ f.after = "end" /\ f.todo = {} /\ f.seg = None /\ f.user = None
    BY <2>1 DEF Idle, Requests
  <2>3. Boot \in Everyone /\ Goes(Boot, f) /\ env' \in Limits
    BY <1>1, <1>3, <2>1 DEF Everyone, Start
  <2>4. req'[Boot] = f
    BY <1>1, <2>3 DEF Goes
  <2>5. Sound(Boot)'
    BY <2>2, <2>4 DEF Sound
  <2>6. Mine(f) \subseteq Mine(req[Boot])
    BY <2>2 DEF Mine
  <2> QED
    BY <1>1, <2>2, <2>3, <2>5, <2>6, RequestGoesOn
<1> QED
  BY <1>2, <1>3

LEMMA GovernanceStep == IInv /\ [Next]_vars => IInv'
<1> SUFFICES ASSUME IInv, [Next]_vars PROVE IInv'
  OBVIOUS
<1>1. ASSUME NEW r \in Callers, NEW d \in env.decisions, NEW p \in env.props, NEW arg \in ArgsOf(d),
             Receive(r, d, p, arg)
      PROVE  IInv'
  BY <1>1, ReceiveStep
<1>2. ASSUME NEW r \in Everyone, Step(r) \/ Busy(r) PROVE IInv'
  BY <1>2, ScanStep, ReconcileStep, DecideStep, ReviseStep, ReserveStep, CommitStep, AcknowledgeStep, BusyStep
     DEF Step
<1>3. CASE \/ OtherCommit \/ (\E p \in env.props : submit(p)) \/ (\E a \in Atoms : ReviseAtom(a))
           \/ \E a \in Objects : forget_object(a) \/ complete_object_forget(a)
  BY <1>3, OtherSteps
<1>4. CASE Crash \/ Start
  BY <1>4, LifeStep
<1>5. CASE UNCHANGED vars
  BY <1>5 DEF vars, IInv, Typed, Recorded, Reserved, OnTheirWay, Sound, Authorised, Forgotten, is_open,
              accept_inner, validate_atom_merge, Committed, Mine
<1> QED
  BY <1>1, <1>2, <1>3, <1>4, <1>5 DEF Next, Everyone

-----------------------------------------------------------------------------
(* What the invariant says, and what no step does.                              *)

LEMMA GovernanceMeaning == IInv => DecisionsApplied
<1> SUFFICES ASSUME IInv PROVE DecisionsApplied
  OBVIOUS
<1>1. \A r \in Everyone : Mine(req[r]) \subseteq segs
  <2> SUFFICES ASSUME NEW r \in Everyone PROVE Mine(req[r]) \subseteq segs
    OBVIOUS
  <2>1. Sound(r)
    BY DEF IInv, OnTheirWay
  <2> QED
    BY <2>1 DEF Sound, Mine
<1>2. TypeOK
  <2>1. DOMAIN req = Everyone /\ db.n \in Nat /\ segs \subseteq Segments
    BY DEF IInv, Typed, Journal
  <2>2. \A r \in Everyone : (req[r].todo \union ({req[r].seg} \ {None})) \subseteq segs
    BY <1>1 DEF Mine
  <2>3. \A r, q \in Everyone : r # q =>
          (req[r].todo \union {req[r].seg}) \intersect (req[q].todo \union {req[q].seg}) \subseteq {None}
    <3> SUFFICES ASSUME NEW r \in Everyone, NEW q \in Everyone, r # q,
                        NEW s \in req[r].todo \union {req[r].seg}, s \in req[q].todo \union {req[q].seg}, s # None
                 PROVE  FALSE
      OBVIOUS
    <3>1. s \in Mine(req[r]) /\ s \in Mine(req[q])
      BY DEF Mine
    <3> QED
      BY <3>1 DEF IInv, OnTheirWay
  <2> QED
    BY <2>1, <2>2, <2>3 DEF TypeOK, IInv, Recorded, Reserved
<1>3. AppliedAsDecided
  BY DEF IInv, Recorded, Authorised, AppliedAsDecided
<1>4. BaseRespected
  BY DEF IInv, Recorded, BaseRespected
<1>5. ForgottenStaysGone
  BY DEF IInv, Recorded, ForgottenStaysGone
<1> QED
  BY <1>2, <1>3, <1>4, <1>5 DEF DecisionsApplied

\* Why a reservation may leave the spool.
Settled(s) ==
    \/ \E l \in db'.log : l.cmd = s.cmd
    \/ db'.props[s.p].rev # s.rev \/ db'.props[s.p].st # "pending"
    \/ s.p \in Merges /\ ~validate_atom_merge(s.p)'
    \/ \E t \in segs' : t.p = s.p /\ t.kind = "edit"

\* A reservation leaves when it is reconciled, given up for another edit, or acknowledged.
LEMMA ReservationsSettle == IInv /\ [Next]_vars => \A s \in segs \ segs' : Settled(s)
<1> SUFFICES ASSUME IInv, [Next]_vars, NEW s \in segs \ segs' PROVE Settled(s)
  OBVIOUS
<1>1. PICK r \in Everyone : reconcile_reserved_once(r) \/ Reserve(r) \/ Acknowledge(r)
  BY DEF Next, Step, Busy, Receive, isolated_segments, decide_proposal, ReviseStatus, Commit, OtherCommit, submit,
         ReviseAtom, Other, forget_object, complete_object_forget, Crash, Start, vars, Everyone
<1>2. db' = db /\ Sound(r)
  BY <1>1 DEF reconcile_reserved_once, Reserve, Acknowledge, IInv, OnTheirWay
<1>3. CASE reconcile_reserved_once(r)
  <2>1. Moot(s)
    BY <1>3 DEF reconcile_reserved_once
  <2>2. validate_atom_merge(s.p)' <=> validate_atom_merge(s.p)
    BY <1>2 DEF validate_atom_merge, Forgotten
  <2> QED
    BY <1>2, <2>1, <2>2 DEF Moot, Committed, Current, is_open, Settled
<1>4. CASE Reserve(r)
  <2>1. PICK t \in claim_isolated_record(req[r].job) :
           /\ t.kind = "edit" /\ req[r].job.kind = "edit" /\ append_isolated_sealed(r, segs \ {t})
    BY <1>4 DEF Reserve, append_isolated_sealed
  <2>2. s = t /\ s.p = req[r].job.p
    BY <2>1 DEF append_isolated_sealed, claim_isolated_record, RecordOf
  <2>3. ~\E u \in segs \ {t} : u.p = req[r].job.p
    BY <2>2 DEF IInv, Reserved
  <2>4. Fresh(r) \in segs'
    BY <2>1, <2>3 DEF append_isolated_sealed
  <2>5. Fresh(r).p = req[r].job.p /\ Fresh(r).kind = "edit"
    <3>1. PICK j \in Segments : j = req[r].job
      BY <1>2, <1>4 DEF Sound, Reserve
    <3> QED
      BY <2>1, <3>1 DEF Fresh, Segments
  <2> QED
    BY <2>2, <2>4, <2>5 DEF Settled
<1>5. CASE Acknowledge(r)
  BY <1>2, <1>5 DEF Acknowledge, Sound, Committed, Settled
<1> QED
  BY <1>1, <1>3, <1>4, <1>5

-----------------------------------------------------------------------------

LEMMA GovernanceInvariance == FairSpec => []IInv
<1> QED
  BY GovernanceInit, GovernanceStep, PTL DEF FairSpec, Spec

\* In every run, with any proposals, owners' connections and commits in between: what the
\* journal accepted is what the owner asked for, once and on the base it was decided on,
\* nothing forgotten is there, and no reservation is held twice (accept_plain, accept_edit,
\* reconcile_reserved_once, apply_accept).
THEOREM DecisionsAlwaysApplied == FairSpec => []DecisionsApplied
BY GovernanceInvariance, GovernanceMeaning, PTL

\* In every run, a reservation leaves the spool only when it is committed, can be committed
\* no more, or gives way to another edit of its revision (acknowledge_segment,
\* reconcile_reserved_once).
THEOREM ReservationsAlwaysSettled == FairSpec => AckOnlySettled
<1>1. IInv /\ [Next]_vars =>
        [\A s \in segs \ segs' :
          \/ \E l \in db'.log : l.cmd = s.cmd
          \/ db'.props[s.p].rev # s.rev \/ db'.props[s.p].st # "pending"
          \/ s.p \in Merges /\ ~validate_atom_merge(s.p)'
          \/ \E t \in segs' : t.p = s.p /\ t.kind = "edit"]_vars
  BY ReservationsSettle DEF Settled
<1> QED
  BY <1>1, GovernanceInvariance, PTL DEF AckOnlySettled, FairSpec, Spec

-----------------------------------------------------------------------------
(* Synthesis: types, and the invariant.                                        *)

Outcomes == {"none", "Succeeded", "NoDelta", "BudgetExhausted", "ProviderUnavailable", "ProviderFailed",
             "SchemaRejected"}
SynthesisJobs == [kind : {"source", "episode"}, rev : Nat, first : Nat, last : Nat, config : Configs,
                  state : {"Queued", "Leased", "Succeeded", "Failed"}, attempt : Nat,
                  backoff : {"none", "day", "delay"}, lease : {"none", "live", "expired"},
                  result : Nat, claims : Nat]
DerivationRuns == [kind : {"source", "episode"}, rev : Nat, first : Nat, last : Nat, config : Configs,
                   status : Outcomes, calls : Nat, today : BOOLEAN]
Charges == [today : Nat, total : Nat]
Positions == [pc : {"idle", "prepare", "admit", "wait", "finish", "commit"}, j : Nat, moved : BOOLEAN,
              out : Outcomes, calls : Nat]

Sources == [len : Nat, gone : SUBSET Nat, permit : BOOLEAN]
Episodes == [rev : Nat, sem : Nat, upto : Nat, closed : BOOLEAN]

\* The scenario is one of Scenes but for the faults used up.
BoundsKept ==
    /\ config \in scene.configs
    /\ \E e \in Scenes : scene.left \in 0..e.left /\ scene = [e EXCEPT !.left = scene.left]

SynthesisKinds ==
    /\ src \in Sources /\ epi \in Episodes
    /\ jobs \in Seq(SynthesisJobs) /\ runs \in Seq(DerivationRuns)
    /\ charged \in Seq(Charges) /\ Len(charged) = Len(jobs)
    /\ work \in Positions

\* What is suppressed was archived, what was summarised was collected.
Extents ==
    /\ src.len <= scene.messages /\ src.gone \subseteq 1..src.len
    /\ epi.sem <= epi.upto /\ epi.upto <= scene.growth

\* The job at work has not yet called the provider.
Unsent(j) == work.pc \in {"prepare", "admit"} /\ work.j = j

\* Attempts alternate between queue and lease; each lease made one call at most.
AttemptsMade(j) ==
    LET x == jobs[j]
        n == charged[j].total IN
    \/ x.state = "Queued" /\ x.attempt \in {1, 3, 5, 7} /\ 2 * n <= x.attempt - 1
    \/ x.state = "Leased" /\ x.attempt \in {2, 4, 6} /\ 2 * n <= x.attempt - (IF Unsent(j) THEN 2 ELSE 0)
    \/ /\ ~Active(x) /\ x.attempt \in 1..7 /\ n <= 3
       /\ x.result > 0 => x.attempt \in {2, 4, 6} /\ 2 * n <= x.attempt

\* A lease is of a leased job, a result is a run over the interval of the job.
JobSound(j) ==
    LET x == jobs[j] IN
    /\ x.first \in 1..x.last
    /\ (x.lease # "none") <=> (x.state = "Leased")
    /\ Active(x) => x.result = 0
    /\ x.result > 0 => /\ x.result \in DOMAIN runs
                       /\ runs[x.result].first = x.first /\ runs[x.result].last = x.last

\* The job the scheduler works on is leased to it.
AtWork == work.pc # "idle" => work.j \in DOMAIN jobs /\ job.state = "Leased" /\ job.lease = "live"

\* A job that may come to be summarised yet.
Alive(j) == Active(jobs[j]) \/ (jobs[j].state = "Failed" /\ Interval(jobs[j]) \cap src.gone = {})

\* No message belongs to two of them under one configuration.
Apart ==
    \A j, k \in DOMAIN jobs :
        /\ j # k /\ jobs[j].kind = "source" /\ jobs[k].kind = "source"
        /\ jobs[j].config = jobs[k].config /\ Alive(j) /\ Alive(k)
        => Interval(jobs[j]) \cap Interval(jobs[k]) = {}

\* A round ended the jobs of another configuration before it made new ones.
OneConfiguration ==
    \A j, k \in DOMAIN jobs : Active(jobs[j]) /\ Active(jobs[k]) => jobs[j].config = jobs[k].config

\* No summary was recorded over a job that is queued or leased.
Uncovered ==
    \A j \in DOMAIN jobs : Active(jobs[j]) /\ jobs[j].kind = "source" => ~SucceededOver(jobs[j])

\* No run is over nothing.
RunsSound == \A r \in DOMAIN runs : runs[r].first \in 1..runs[r].last

\* How many enrichments there may be: the last is kept for the end of the episode.
Allowance == IF epi.closed THEN scene.enrichments ELSE Max({scene.enrichments - 1, 0})

\* An enrichment that may yet be recorded is within the quota.
Enriching ==
    /\ work.pc \in {"admit", "wait", "finish"} \/ (work.pc = "commit" /\ work.out = "Succeeded")
    /\ job.kind = "episode"
QuotaInv == EnrichmentsKept /\ (Enriching => Cardinality(Succeeded("episode")) < Allowance)

JobsSound == \A j \in DOMAIN jobs : JobSound(j) /\ AttemptsMade(j)
JobsInv == Apart /\ OneConfiguration /\ Uncovered
RunsInv == RunsSound /\ SummarisedOnce /\ EpisodeChain
SynthesisInv ==
    /\ SynthesisKinds /\ BoundsKept /\ Extents
    /\ JobsSound /\ AtWork /\ JobsInv /\ RunsInv /\ QuotaInv

-----------------------------------------------------------------------------
(* Synthesis: what every step uses.                                            *)

LEMMA LargerOfTwo == \A a, b \in Int : Max({a, b}) = IF a >= b THEN a ELSE b
  BY DEF Max

\* One job is written anew.
LEMMA JobRewritten ==
  ASSUME jobs \in Seq(SynthesisJobs), NEW j \in DOMAIN jobs, NEW x \in SynthesisJobs,
         jobs' = [jobs EXCEPT ![j] = x]
  PROVE  /\ jobs' \in Seq(SynthesisJobs) /\ Len(jobs') = Len(jobs) /\ DOMAIN jobs' = DOMAIN jobs
         /\ \A k \in DOMAIN jobs : jobs'[k] = IF k = j THEN x ELSE jobs[k]
  OBVIOUS

\* Every job is written anew.
LEMMA JobsRewritten ==
  ASSUME jobs \in Seq(SynthesisJobs), DOMAIN jobs' = DOMAIN jobs,
         jobs' = [j \in DOMAIN jobs |-> jobs'[j]], \A j \in DOMAIN jobs : jobs'[j] \in SynthesisJobs
  PROVE  jobs' \in Seq(SynthesisJobs) /\ Len(jobs') = Len(jobs)
  OBVIOUS

LEMMA RunsRewritten ==
  ASSUME runs \in Seq(DerivationRuns), DOMAIN runs' = DOMAIN runs,
         runs' = [r \in DOMAIN runs |-> runs'[r]], \A r \in DOMAIN runs : runs'[r] \in DerivationRuns
  PROVE  runs' \in Seq(DerivationRuns) /\ Len(runs') = Len(runs)
  OBVIOUS

LEMMA ChargesRewritten ==
  ASSUME charged \in Seq(Charges), DOMAIN charged' = DOMAIN charged,
         charged' = [j \in DOMAIN charged |-> charged'[j]], \A j \in DOMAIN charged : charged'[j] \in Charges
  PROVE  charged' \in Seq(Charges) /\ Len(charged') = Len(charged)
  OBVIOUS

LEMMA SequenceElements ==
  ASSUME SynthesisKinds
  PROVE  /\ DOMAIN jobs = 1..Len(jobs) /\ Len(jobs) \in Nat /\ DOMAIN charged = DOMAIN jobs
         /\ DOMAIN runs = 1..Len(runs) /\ Len(runs) \in Nat
         /\ \A j \in DOMAIN jobs : jobs[j] \in SynthesisJobs /\ charged[j] \in Charges
         /\ \A r \in DOMAIN runs : runs[r] \in DerivationRuns
  BY DEF SynthesisKinds

\* The scenario keeps its shape while faults are used up.
LEMMA SceneTyped ==
  ASSUME BoundsKept
  PROVE  scene \in [acts : SUBSET STRING, configs : SUBSET Configs, messages : Nat, growth : Nat,
                    segment : Nat \ {0}, calls : Nat, enrichments : Nat, left : Nat]
  BY ScenesAssumption DEF BoundsKept

LEMMA SceneKept ==
  ASSUME BoundsKept, UNCHANGED scene \/ Fault, config' \in scene.configs
  PROVE  /\ BoundsKept'
         /\ \E n \in Nat : scene' = [scene EXCEPT !.left = n]
         /\ scene'.messages = scene.messages /\ scene'.growth = scene.growth
         /\ scene'.enrichments = scene.enrichments /\ scene'.configs = scene.configs
<1>1. PICK e \in Scenes : scene.left \in 0..e.left /\ scene = [e EXCEPT !.left = scene.left]
  BY DEF BoundsKept
<1>2. e \in [acts : SUBSET STRING, configs : SUBSET Configs, messages : Nat, growth : Nat,
             segment : Nat \ {0}, calls : Nat, enrichments : Nat, left : Nat]
  BY ScenesAssumption
<1> DEFINE n == scene'.left
<1>3. n \in 0..e.left /\ scene' = [scene EXCEPT !.left = n]
  BY <1>1, <1>2, SceneTyped DEF Fault
<1>4. scene' = [e EXCEPT !.left = n]
  BY <1>1, <1>2, <1>3
<1>5. /\ scene'.messages = scene.messages /\ scene'.growth = scene.growth
      /\ scene'.enrichments = scene.enrichments /\ scene'.configs = scene.configs
  BY <1>3, SceneTyped
<1> QED
  BY <1>3, <1>4, <1>5 DEF BoundsKept

\* Nothing is written to a run but that its day is over.
SameRuns ==
    /\ DOMAIN runs' = DOMAIN runs
    /\ \A r \in DOMAIN runs : /\ runs'[r].kind = runs[r].kind /\ runs'[r].status = runs[r].status
                              /\ runs'[r].first = runs[r].first /\ runs'[r].last = runs[r].last

LEMMA RunsKept ==
  ASSUME SameRuns, RunsInv, epi'.sem = epi.sem
  PROVE  /\ RunsInv'
         /\ Succeeded("source")' = Succeeded("source") /\ Succeeded("episode")' = Succeeded("episode")
         /\ \A r \in DOMAIN runs : Interval(runs[r])' = Interval(runs[r])
<1>1. /\ Succeeded("source")' = Succeeded("source") /\ Succeeded("episode")' = Succeeded("episode")
      /\ \A r \in DOMAIN runs : Interval(runs[r])' = Interval(runs[r])
  BY DEF SameRuns, Succeeded, Interval
<1>2. RunsSound'
  BY DEF SameRuns, RunsInv, RunsSound
<1>3. SummarisedOnce'
  BY <1>1 DEF SameRuns, RunsInv, SummarisedOnce
<1>4. EpisodeChain'
  <2> DEFINE done == Succeeded("episode")
  <2>1. done \subseteq DOMAIN runs
    BY DEF Succeeded
  <2>2. \A a, b \in done : a < b => runs'[a].last < runs'[b].first
    BY <2>1 DEF SameRuns, RunsInv, EpisodeChain
  <2>3. UNION {Interval(runs'[r]) : r \in done} = UNION {Interval(runs[r]) : r \in done}
    BY <2>1, <1>1
  <2> QED
    BY <1>1, <2>2, <2>3 DEF RunsInv, EpisodeChain
<1> QED
  BY <1>1, <1>2, <1>3, <1>4 DEF RunsInv

\* Jobs keep what they are about, and none comes back to life.
SameTasks ==
    /\ DOMAIN jobs' = DOMAIN jobs
    /\ \A j \in DOMAIN jobs : /\ jobs'[j].kind = jobs[j].kind /\ jobs'[j].config = jobs[j].config
                              /\ jobs'[j].first = jobs[j].first /\ jobs'[j].last = jobs[j].last
NoneRevived ==
    \A j \in DOMAIN jobs : /\ Active(jobs'[j]) => Active(jobs[j])
                           /\ jobs'[j].state = "Failed" => Active(jobs[j]) \/ jobs[j].state = "Failed"

LEMMA ApartKept ==
  ASSUME SameTasks, NoneRevived, Apart, OneConfiguration, src.gone \subseteq src'.gone
  PROVE  Apart' /\ OneConfiguration'
<1>1. \A j \in DOMAIN jobs : Interval(jobs[j])' = Interval(jobs[j])
  BY DEF SameTasks, Interval
<1>2. \A j \in DOMAIN jobs : Alive(j)' => Alive(j)
  BY <1>1 DEF NoneRevived, Alive, Active
<1>3. Apart'
  BY <1>1, <1>2 DEF Apart, SameTasks
<1>4. OneConfiguration'
  BY DEF OneConfiguration, SameTasks, NoneRevived
<1> QED
  BY <1>3, <1>4

LEMMA JobsKept ==
  ASSUME SameTasks, NoneRevived, SameRuns, JobsInv, src.gone \subseteq src'.gone
  PROVE  JobsInv'
<1>1. \A j \in DOMAIN jobs : Interval(jobs[j])' = Interval(jobs[j])
  BY DEF SameTasks, Interval
<1>2. Apart' /\ OneConfiguration'
  BY ApartKept DEF JobsInv
<1>3. \A j \in DOMAIN jobs : SucceededOver(jobs[j])' => SucceededOver(jobs[j])
  BY <1>1 DEF SameRuns, SucceededOver, Succeeded, Interval
<1>4. Uncovered'
  BY <1>3 DEF Uncovered, SameTasks, NoneRevived, JobsInv
<1> QED
  BY <1>2, <1>4 DEF JobsInv

\* The lease of a job ends or is renewed, its state moves on; nothing else is written.
LEMMA OneJobMoves ==
  ASSUME SynthesisKinds, JobsSound, JobsInv, RunsInv,
         NEW j \in DOMAIN jobs, NEW x \in SynthesisJobs, jobs' = [jobs EXCEPT ![j] = x],
         x.kind = jobs[j].kind, x.config = jobs[j].config, x.first = jobs[j].first, x.last = jobs[j].last,
         Active(x) => Active(jobs[j]), x.state = "Failed" => Active(jobs[j]) \/ jobs[j].state = "Failed",
         UNCHANGED <<src, epi, runs, charged>>,
         (JobSound(j) /\ AttemptsMade(j))',
         \A k \in DOMAIN jobs \ {j} : Unsent(k)' => Unsent(k)
  PROVE  /\ jobs' \in Seq(SynthesisJobs) /\ Len(jobs') = Len(jobs) /\ DOMAIN jobs' = DOMAIN jobs
         /\ \A k \in DOMAIN jobs : jobs'[k] = IF k = j THEN x ELSE jobs[k]
         /\ JobsSound' /\ JobsInv' /\ RunsInv'
<1>1. /\ jobs' \in Seq(SynthesisJobs) /\ Len(jobs') = Len(jobs) /\ DOMAIN jobs' = DOMAIN jobs
      /\ \A k \in DOMAIN jobs : jobs'[k] = IF k = j THEN x ELSE jobs[k]
  BY JobRewritten DEF SynthesisKinds
<1>2. SameTasks /\ NoneRevived /\ SameRuns
  BY <1>1 DEF SameTasks, NoneRevived, SameRuns
<1>3. JobsInv' /\ RunsInv'
  BY <1>2, JobsKept, RunsKept
<1>4. ASSUME NEW k \in DOMAIN jobs PROVE (JobSound(k) /\ AttemptsMade(k))'
  <2>1. CASE k = j
    BY <2>1
  <2>2. CASE k # j
    <3>1. JobSound(k) /\ AttemptsMade(k) /\ jobs'[k] = jobs[k] /\ (Unsent(k)' => Unsent(k))
      BY <2>2, <1>1 DEF JobsSound
    <3>2. JobSound(k)'
      BY <3>1 DEF JobSound
    <3>3. jobs[k] \in SynthesisJobs /\ charged[k].total \in Nat
      BY SequenceElements DEF Charges
    <3>4. AttemptsMade(k)'
      BY <3>1, <3>3 DEF AttemptsMade, SynthesisJobs
    <3> QED
      BY <3>2, <3>4
  <2> QED
    BY <2>1, <2>2
<1> QED
  BY <1>1, <1>3, <1>4 DEF JobsSound

\* A step that writes no job, run or charge.
LEMMA OthersMove ==
  ASSUME SynthesisKinds, JobsSound, JobsInv, RunsInv, UNCHANGED <<jobs, runs, charged>>,
         epi'.sem = epi.sem, src.gone \subseteq src'.gone, \A k \in DOMAIN jobs : Unsent(k)' => Unsent(k)
  PROVE  JobsSound' /\ JobsInv' /\ RunsInv'
<1>1. SameTasks /\ NoneRevived /\ SameRuns
  BY DEF SameTasks, NoneRevived, SameRuns
<1>2. JobsInv' /\ RunsInv'
  BY <1>1, JobsKept, RunsKept
<1>3. ASSUME NEW k \in DOMAIN jobs PROVE (JobSound(k) /\ AttemptsMade(k))'
  <2>1. JobSound(k) /\ AttemptsMade(k) /\ (Unsent(k)' => Unsent(k))
    BY DEF JobsSound
  <2>2. JobSound(k)'
    BY <2>1 DEF JobSound
  <2>3. jobs[k] \in SynthesisJobs /\ charged[k].total \in Nat
    BY SequenceElements DEF Charges
  <2>4. AttemptsMade(k)'
    BY <2>1, <2>3 DEF AttemptsMade, SynthesisJobs
  <2> QED
    BY <2>2, <2>4
<1> QED
  BY <1>2, <1>3 DEF JobsSound

LEMMA EnrichmentsCounted ==
  ASSUME SynthesisKinds, NEW kind
  PROVE  IsFiniteSet(Succeeded(kind)) /\ Cardinality(Succeeded(kind)) \in Nat
<1>1. IsFiniteSet(DOMAIN runs)
  BY SequenceElements, FS_Interval
<1> QED
  BY <1>1, FS_Subset, FS_CardinalityType DEF Succeeded

\* No enrichment is recorded and none begun.
LEMMA QuotaKept ==
  ASSUME SynthesisKinds, BoundsKept, QuotaInv, SameRuns, epi' \in Episodes, scene'.enrichments = scene.enrichments,
         epi.closed => epi'.closed, Enriching' => Enriching
  PROVE  QuotaInv'
<1> DEFINE n == Cardinality(Succeeded("episode"))
<1>1. Succeeded("episode")' = Succeeded("episode")
  BY DEF SameRuns, Succeeded
<1>2. n \in Nat /\ n' = n /\ scene.enrichments \in Nat
  BY <1>1, EnrichmentsCounted, SceneTyped
<1>3. Max({scene.enrichments - 1, 0}) = IF scene.enrichments > 0 THEN scene.enrichments - 1 ELSE 0
  BY <1>2, LargerOfTwo
<1>4. epi.closed \in BOOLEAN /\ epi'.closed \in BOOLEAN
  BY DEF SynthesisKinds, Episodes
<1>5. EnrichmentsKept'
  BY <1>2, <1>4 DEF QuotaInv, EnrichmentsKept
<1>6. Enriching => n < Allowance
  BY DEF QuotaInv
<1>7. Enriching' => (n < Allowance)'
  BY <1>2, <1>3, <1>4, <1>6 DEF Allowance
<1> QED
  BY <1>5, <1>7 DEF QuotaInv

-----------------------------------------------------------------------------
(* The rest of the system.                                                     *)

LEMMA WorldMoves ==
  ASSUME SynthesisInv, UNCHANGED <<jobs, runs, charged>>, src' \in Sources, epi' \in Episodes,
         Extents', BoundsKept', scene'.enrichments = scene.enrichments, src.gone \subseteq src'.gone,
         epi'.sem = epi.sem, epi.closed => epi'.closed, work' \in Positions,
         work'.pc = "idle" \/ (work'.pc = work.pc /\ work'.j = work.j /\ work'.out = work.out)
  PROVE  SynthesisInv'
<1>1. SynthesisKinds'
  BY DEF SynthesisInv, SynthesisKinds
<1>2. JobsSound' /\ JobsInv' /\ RunsInv'
  BY OthersMove DEF SynthesisInv, Unsent
<1>3. AtWork'
  BY DEF SynthesisInv, AtWork, job
<1>4. QuotaInv'
  BY QuotaKept DEF SynthesisInv, SameRuns, Enriching, job
<1> QED
  BY <1>1, <1>2, <1>3, <1>4 DEF SynthesisInv

LEMMA MessageArrivesStep == SynthesisInv /\ MessageArrives => SynthesisInv'
<1> SUFFICES ASSUME SynthesisInv, MessageArrives PROVE SynthesisInv'
  OBVIOUS
<1>1. /\ src \in Sources /\ src.len < scene.messages /\ src' = [src EXCEPT !.len = @ + 1]
      /\ work \in Positions /\ work' = [work EXCEPT !.moved = TRUE]
      /\ UNCHANGED <<epi, jobs, runs, charged, config, scene>> /\ epi \in Episodes
  BY DEF SynthesisInv, SynthesisKinds, MessageArrives, Moves, durable
<1>2. src' \in Sources /\ src'.len = src.len + 1 /\ src'.gone = src.gone
  BY <1>1 DEF Sources
<1>3. work' \in Positions /\ work'.pc = work.pc /\ work'.j = work.j /\ work'.out = work.out
  BY <1>1 DEF Positions
<1>4. Extents'
  BY <1>1, <1>2, SceneTyped DEF SynthesisInv, Extents, Sources
<1>5. BoundsKept'
  BY <1>1 DEF SynthesisInv, BoundsKept
<1> QED
  BY <1>1, <1>2, <1>3, <1>4, <1>5, WorldMoves

LEMMA MessageSuppressedStep == SynthesisInv /\ MessageSuppressed => SynthesisInv'
<1> SUFFICES ASSUME SynthesisInv, MessageSuppressed PROVE SynthesisInv'
  OBVIOUS
<1>1. PICK m \in 1..src.len \ src.gone : src' = [src EXCEPT !.gone = @ \union {m}]
  BY DEF MessageSuppressed
<1>2. /\ src \in Sources /\ work \in Positions /\ work' = [work EXCEPT !.moved = TRUE]
      /\ UNCHANGED <<epi, jobs, runs, charged, config>> /\ epi \in Episodes /\ Fault
  BY DEF SynthesisInv, SynthesisKinds, MessageSuppressed, Moves, durable
<1>3. src' \in Sources /\ src'.len = src.len /\ src'.gone = src.gone \union {m}
  BY <1>1, <1>2 DEF Sources
<1>4. work' \in Positions /\ work'.pc = work.pc /\ work'.j = work.j /\ work'.out = work.out
  BY <1>2 DEF Positions
<1>5. /\ BoundsKept' /\ scene'.messages = scene.messages /\ scene'.growth = scene.growth
      /\ scene'.enrichments = scene.enrichments
  BY <1>2, SceneKept DEF SynthesisInv, BoundsKept
<1>6. Extents'
  BY <1>1, <1>2, <1>3, <1>5 DEF SynthesisInv, Extents
<1> QED
  BY <1>2, <1>3, <1>4, <1>5, <1>6, WorldMoves

LEMMA PermissionFlipsStep == SynthesisInv /\ PermissionFlips => SynthesisInv'
<1> SUFFICES ASSUME SynthesisInv, PermissionFlips PROVE SynthesisInv'
  OBVIOUS
<1>1. /\ src \in Sources /\ src' = [src EXCEPT !.permit = ~@] /\ work \in Positions
      /\ UNCHANGED <<epi, jobs, runs, charged, work, config>> /\ epi \in Episodes /\ Fault
  BY DEF SynthesisInv, SynthesisKinds, PermissionFlips, durable
<1>2. src' \in Sources /\ src'.len = src.len /\ src'.gone = src.gone
  BY <1>1 DEF Sources
<1>3. /\ BoundsKept' /\ scene'.messages = scene.messages /\ scene'.growth = scene.growth
      /\ scene'.enrichments = scene.enrichments
  BY <1>1, SceneKept DEF SynthesisInv, BoundsKept
<1>4. Extents'
  BY <1>1, <1>2, <1>3 DEF SynthesisInv, Extents
<1> QED
  BY <1>1, <1>2, <1>3, <1>4, WorldMoves

LEMMA EpisodeGrowsStep == SynthesisInv /\ EpisodeGrows => SynthesisInv'
<1> SUFFICES ASSUME SynthesisInv, EpisodeGrows PROVE SynthesisInv'
  OBVIOUS
<1>1. PICK close \in BOOLEAN : epi' = [epi EXCEPT !.upto = @ + 1, !.rev = @ + 1, !.closed = close]
  BY DEF EpisodeGrows
<1>2. /\ epi \in Episodes /\ ~epi.closed /\ epi.upto < scene.growth /\ src \in Sources
      /\ work \in Positions /\ work' = [work EXCEPT !.moved = TRUE]
      /\ UNCHANGED <<src, jobs, runs, charged, config, scene>>
  BY DEF SynthesisInv, SynthesisKinds, EpisodeGrows, Moves, durable
<1>3. epi' \in Episodes /\ epi'.sem = epi.sem /\ epi'.upto = epi.upto + 1
  <2> DEFINE u == epi.upto + 1  v == epi.rev + 1
  <2>1. u \in Nat /\ v \in Nat
    BY <1>2 DEF Episodes
  <2>2. epi' = [epi EXCEPT !.upto = u, !.rev = v, !.closed = close]
    BY <1>1
  <2> HIDE DEF u, v
  <2>3. epi' \in Episodes /\ epi'.sem = epi.sem /\ epi'.upto = u
    BY <1>2, <2>1, <2>2 DEF Episodes
  <2> QED
    BY <2>3 DEF u
<1>4. epi.closed => epi'.closed
  BY <1>2
<1>5. work' \in Positions /\ work'.pc = work.pc /\ work'.j = work.j /\ work'.out = work.out
  BY <1>2 DEF Positions
<1>6. Extents'
  BY <1>2, <1>3, SceneTyped DEF SynthesisInv, Extents, Episodes
<1>7. BoundsKept'
  BY <1>2 DEF SynthesisInv, BoundsKept
<1> QED
  BY <1>2, <1>3, <1>4, <1>5, <1>6, <1>7, WorldMoves

LEMMA AtRestTyped == AtRest \in Positions /\ AtRest.pc = "idle"
  BY DEF AtRest, Positions, Outcomes

LEMMA InterruptedStep == SynthesisInv /\ Interrupted => SynthesisInv'
<1> SUFFICES ASSUME SynthesisInv, Interrupted PROVE SynthesisInv'
  OBVIOUS
<1>1. /\ src \in Sources /\ epi \in Episodes /\ work' = AtRest /\ Fault
      /\ UNCHANGED <<src, epi, jobs, runs, charged, config>>
  BY DEF SynthesisInv, SynthesisKinds, Interrupted, durable
<1>2. /\ BoundsKept' /\ scene'.messages = scene.messages /\ scene'.growth = scene.growth
      /\ scene'.enrichments = scene.enrichments
  BY <1>1, SceneKept DEF SynthesisInv, BoundsKept
<1>3. Extents'
  BY <1>1, <1>2 DEF SynthesisInv, Extents
<1> QED
  BY <1>1, <1>2, <1>3, AtRestTyped, WorldMoves

LEMMA ConfigReloadsStep == SynthesisInv /\ ConfigReloads => SynthesisInv'
<1> SUFFICES ASSUME SynthesisInv, ConfigReloads PROVE SynthesisInv'
  OBVIOUS
<1>1. /\ src \in Sources /\ epi \in Episodes /\ work \in Positions /\ Fault
      /\ UNCHANGED <<src, epi, jobs, runs, charged, work>> /\ config' \in scene.configs
  BY DEF SynthesisInv, SynthesisKinds, ConfigReloads, durable
<1>2. /\ BoundsKept' /\ scene'.messages = scene.messages /\ scene'.growth = scene.growth
      /\ scene'.enrichments = scene.enrichments
  BY <1>1, SceneKept DEF SynthesisInv
<1>3. Extents'
  BY <1>1, <1>2 DEF SynthesisInv, Extents
<1> QED
  BY <1>1, <1>2, <1>3, WorldMoves

-----------------------------------------------------------------------------
(* Time passes; leases end.                                                    *)

LEMMA NewDayStep == SynthesisInv /\ NewDay => SynthesisInv'
<1> SUFFICES ASSUME SynthesisInv, NewDay PROVE SynthesisInv'
  OBVIOUS
<1> DEFINE aged(j) == [jobs[j] EXCEPT !.claims = 0, !.backoff = IF @ = "day" THEN "none" ELSE @]
<1>1. /\ jobs' = [j \in DOMAIN jobs |-> aged(j)]
      /\ runs' = [r \in DOMAIN runs |-> [runs[r] EXCEPT !.today = FALSE]]
      /\ charged' = [j \in DOMAIN charged |-> [charged[j] EXCEPT !.today = 0]]
      /\ UNCHANGED <<src, epi, work, config, scene>>
  BY DEF NewDay
<1>2. \A j \in DOMAIN jobs : /\ jobs'[j] \in SynthesisJobs /\ jobs'[j].kind = jobs[j].kind
                             /\ jobs'[j].config = jobs[j].config /\ jobs'[j].first = jobs[j].first
                             /\ jobs'[j].last = jobs[j].last /\ jobs'[j].state = jobs[j].state
                             /\ jobs'[j].attempt = jobs[j].attempt /\ jobs'[j].lease = jobs[j].lease
                             /\ jobs'[j].result = jobs[j].result
  BY <1>1, SequenceElements DEF SynthesisInv, SynthesisJobs
<1>3. \A r \in DOMAIN runs : /\ runs'[r] \in DerivationRuns /\ runs'[r].kind = runs[r].kind
                             /\ runs'[r].status = runs[r].status /\ runs'[r].first = runs[r].first
                             /\ runs'[r].last = runs[r].last
  BY <1>1, SequenceElements DEF SynthesisInv, DerivationRuns
<1>4. \A j \in DOMAIN charged : charged'[j] \in Charges /\ charged'[j].total = charged[j].total
  BY <1>1, SequenceElements DEF SynthesisInv, Charges
<1>5. /\ DOMAIN jobs' = DOMAIN jobs /\ jobs' = [j \in DOMAIN jobs |-> jobs'[j]]
      /\ DOMAIN runs' = DOMAIN runs /\ runs' = [r \in DOMAIN runs |-> runs'[r]]
      /\ DOMAIN charged' = DOMAIN charged /\ charged' = [j \in DOMAIN charged |-> charged'[j]]
  BY <1>1
<1>6. SynthesisKinds'
  BY <1>1, <1>2, <1>3, <1>4, <1>5, JobsRewritten, RunsRewritten, ChargesRewritten
  DEF SynthesisInv, SynthesisKinds
<1>7. SameTasks /\ NoneRevived /\ SameRuns
  BY <1>2, <1>3, <1>5 DEF SameTasks, NoneRevived, SameRuns, Active
<1>8. JobsInv' /\ RunsInv'
  BY <1>1, <1>7, JobsKept, RunsKept DEF SynthesisInv
<1>9. ASSUME NEW j \in DOMAIN jobs PROVE (JobSound(j) /\ AttemptsMade(j))'
  <2>1. JobSound(j) /\ AttemptsMade(j) /\ (Unsent(j)' <=> Unsent(j))
    BY <1>1 DEF SynthesisInv, JobsSound, Unsent
  <2>2. JobSound(j)'
    <3>1. /\ jobs'[j].first \in 1..jobs'[j].last
          /\ (jobs'[j].lease # "none") <=> (jobs'[j].state = "Leased")
          /\ Active(jobs'[j]) => jobs'[j].result = 0
      BY <2>1, <1>2 DEF JobSound, Active
    <3>2. jobs'[j].result > 0 => /\ jobs'[j].result \in DOMAIN runs'
                                 /\ runs'[jobs'[j].result].first = jobs'[j].first
                                 /\ runs'[jobs'[j].result].last = jobs'[j].last
      BY <2>1, <1>2, <1>3, <1>5 DEF JobSound
    <3> QED
      BY <3>1, <3>2 DEF JobSound
  <2>3. j \in DOMAIN charged
    BY SequenceElements DEF SynthesisInv
  <2>4. AttemptsMade(j)'
    BY <2>1, <2>3, <1>2, <1>4 DEF AttemptsMade, Active
  <2> QED
    BY <2>2, <2>4
<1>10. JobsSound'
  BY <1>5, <1>9 DEF JobsSound
<1>11. work'.pc # "idle" => work.j \in DOMAIN jobs /\ job'.state = job.state /\ job'.lease = job.lease
                            /\ job'.kind = job.kind
  BY <1>1, <1>2 DEF SynthesisInv, AtWork, job
<1>12. AtWork'
  BY <1>1, <1>5, <1>11 DEF SynthesisInv, AtWork
<1>13. QuotaInv'
  <2>1. Enriching' => Enriching
    BY <1>1, <1>11 DEF Enriching
  <2> QED
    BY <1>1, <1>6, <1>7, <2>1, QuotaKept DEF SynthesisInv, SynthesisKinds
<1>14. BoundsKept' /\ Extents'
  BY <1>1 DEF SynthesisInv, BoundsKept, Extents
<1> QED
  BY <1>6, <1>8, <1>10, <1>12, <1>13, <1>14 DEF SynthesisInv

LEMMA BackoffPassesStep == SynthesisInv /\ BackoffPasses => SynthesisInv'
<1> SUFFICES ASSUME SynthesisInv, BackoffPasses PROVE SynthesisInv'
  OBVIOUS
<1> DEFINE aged(j) == [jobs[j] EXCEPT !.backoff = IF @ = "delay" THEN "none" ELSE @]
<1>1. /\ jobs' = [j \in DOMAIN jobs |-> aged(j)]
      /\ UNCHANGED <<src, epi, runs, charged, work, config, scene>>
  BY DEF BackoffPasses
<1>2. \A j \in DOMAIN jobs : /\ jobs'[j] \in SynthesisJobs /\ jobs'[j].kind = jobs[j].kind
                             /\ jobs'[j].config = jobs[j].config /\ jobs'[j].first = jobs[j].first
                             /\ jobs'[j].last = jobs[j].last /\ jobs'[j].state = jobs[j].state
                             /\ jobs'[j].attempt = jobs[j].attempt /\ jobs'[j].lease = jobs[j].lease
                             /\ jobs'[j].result = jobs[j].result
  BY <1>1, SequenceElements DEF SynthesisInv, SynthesisJobs
<1>3. DOMAIN jobs' = DOMAIN jobs /\ jobs' = [j \in DOMAIN jobs |-> jobs'[j]]
  BY <1>1
<1>4. SynthesisKinds'
  BY <1>1, <1>2, <1>3, JobsRewritten DEF SynthesisInv, SynthesisKinds
<1>5. SameTasks /\ NoneRevived /\ SameRuns
  BY <1>1, <1>2, <1>3 DEF SameTasks, NoneRevived, SameRuns, Active
<1>6. JobsInv' /\ RunsInv'
  BY <1>1, <1>5, JobsKept, RunsKept DEF SynthesisInv
<1>7. ASSUME NEW j \in DOMAIN jobs PROVE (JobSound(j) /\ AttemptsMade(j))'
  <2>1. JobSound(j) /\ AttemptsMade(j) /\ (Unsent(j)' <=> Unsent(j))
    BY <1>1 DEF SynthesisInv, JobsSound, Unsent
  <2>2. JobSound(j)'
    BY <2>1, <1>1, <1>2 DEF JobSound, Active
  <2>3. AttemptsMade(j)'
    BY <2>1, <1>1, <1>2 DEF AttemptsMade, Active
  <2> QED
    BY <2>2, <2>3
<1>8. JobsSound'
  BY <1>3, <1>7 DEF JobsSound
<1>9. work'.pc # "idle" => work.j \in DOMAIN jobs /\ job'.state = job.state /\ job'.lease = job.lease
                           /\ job'.kind = job.kind
  BY <1>1, <1>2 DEF SynthesisInv, AtWork, job
<1>10. AtWork'
  BY <1>1, <1>3, <1>9 DEF SynthesisInv, AtWork
<1>11. QuotaInv'
  <2>1. Enriching' => Enriching
    BY <1>1, <1>9 DEF Enriching
  <2> QED
    BY <1>1, <1>4, <1>5, <2>1, QuotaKept DEF SynthesisInv, SynthesisKinds
<1>12. BoundsKept' /\ Extents'
  BY <1>1 DEF SynthesisInv, BoundsKept, Extents
<1> QED
  BY <1>4, <1>6, <1>8, <1>10, <1>11, <1>12 DEF SynthesisInv

\* One job is written, and the scheduler is at rest or goes on with its job.
LEMMA SchedulerMoves ==
  ASSUME SynthesisInv, NEW j \in DOMAIN jobs, NEW x \in SynthesisJobs, jobs' = [jobs EXCEPT ![j] = x],
         x.kind = jobs[j].kind, x.config = jobs[j].config, x.first = jobs[j].first, x.last = jobs[j].last,
         Active(x) => Active(jobs[j]), x.state = "Failed" => Active(jobs[j]) \/ jobs[j].state = "Failed",
         UNCHANGED <<src, epi, runs, charged, config>>, BoundsKept', scene'.messages = scene.messages,
         scene'.growth = scene.growth, scene'.enrichments = scene.enrichments,
         (JobSound(j) /\ AttemptsMade(j))', work' \in Positions,
         \A k \in DOMAIN jobs \ {j} : Unsent(k)' => Unsent(k),
         AtWork', Enriching' => Enriching
  PROVE  SynthesisInv'
<1>1. /\ jobs' \in Seq(SynthesisJobs) /\ Len(jobs') = Len(jobs)
      /\ JobsSound' /\ JobsInv' /\ RunsInv'
  BY OneJobMoves DEF SynthesisInv
<1>2. SynthesisKinds'
  BY <1>1 DEF SynthesisInv, SynthesisKinds
<1>3. QuotaInv'
  BY QuotaKept DEF SynthesisInv, SynthesisKinds, SameRuns
<1>4. Extents'
  BY DEF SynthesisInv, Extents
<1> QED
  BY <1>1, <1>2, <1>3, <1>4 DEF SynthesisInv

LEMMA LeaseExpiresStep == SynthesisInv /\ LeaseExpires => SynthesisInv'
<1> SUFFICES ASSUME SynthesisInv, LeaseExpires PROVE SynthesisInv'
  OBVIOUS
<1>1. PICK j \in DOMAIN jobs : /\ jobs[j].lease = "live" /\ (work.pc # "idle" => work.j # j)
                               /\ jobs' = [jobs EXCEPT ![j].lease = "expired"]
  BY DEF LeaseExpires
<1> DEFINE x == [jobs[j] EXCEPT !.lease = "expired"]
<1>2. UNCHANGED <<src, epi, runs, charged, work, config, scene>>
  BY DEF LeaseExpires
<1>3. jobs[j] \in SynthesisJobs /\ JobSound(j) /\ AttemptsMade(j)
  BY SequenceElements DEF SynthesisInv, JobsSound
<1>4. /\ x \in SynthesisJobs /\ x.kind = jobs[j].kind /\ x.config = jobs[j].config
      /\ x.first = jobs[j].first /\ x.last = jobs[j].last /\ x.state = jobs[j].state
      /\ x.result = jobs[j].result /\ x.attempt = jobs[j].attempt /\ x.lease = "expired"
  BY <1>3 DEF SynthesisJobs
<1>5. jobs' = [jobs EXCEPT ![j] = x]
  BY <1>1
<1>6. jobs'[j] = x /\ DOMAIN jobs' = DOMAIN jobs /\ \A k \in DOMAIN jobs : k # j => jobs'[k] = jobs[k]
  BY <1>4, <1>5, JobRewritten DEF SynthesisInv, SynthesisKinds
<1> HIDE DEF x
<1>7. (JobSound(j) /\ AttemptsMade(j))'
  BY <1>1, <1>2, <1>3, <1>4, <1>6 DEF JobSound, AttemptsMade, Active, Unsent
<1>8. work.pc # "idle" => job' = job /\ work.j \in DOMAIN jobs'
  BY <1>1, <1>2, <1>6 DEF SynthesisInv, AtWork, job
<1>9. AtWork' /\ (Enriching' => Enriching)
  BY <1>2, <1>8 DEF SynthesisInv, AtWork, Enriching
<1>10. BoundsKept' /\ work' \in Positions
  BY <1>2 DEF SynthesisInv, BoundsKept, SynthesisKinds
<1> QED
  BY <1>2, <1>4, <1>5, <1>7, <1>9, <1>10, SchedulerMoves DEF Active, Unsent

-----------------------------------------------------------------------------
(* A round of the scheduler.                                                   *)

\* A job that was queued or leased is ended.
LEMMA JobEnds ==
  ASSUME SynthesisInv, NEW j \in DOMAIN jobs, Active(jobs[j]), jobs' = [jobs EXCEPT ![j] = Ended(j)],
         UNCHANGED <<src, epi, runs, charged, config, scene>>, work'.pc = "idle", work' \in Positions
  PROVE  SynthesisInv'
<1> DEFINE x == Ended(j)
<1>1. jobs[j] \in SynthesisJobs /\ JobSound(j) /\ AttemptsMade(j) /\ charged[j] \in Charges
  BY SequenceElements DEF SynthesisInv, JobsSound
<1>2. /\ x \in SynthesisJobs /\ x.kind = jobs[j].kind /\ x.config = jobs[j].config
      /\ x.first = jobs[j].first /\ x.last = jobs[j].last /\ x.state = "Failed"
      /\ x.result = 0 /\ x.attempt = jobs[j].attempt /\ x.lease = "none"
  BY <1>1 DEF SynthesisJobs, Ended
<1>3. jobs'[j] = x /\ DOMAIN jobs' = DOMAIN jobs
  BY <1>2, JobRewritten DEF SynthesisInv, SynthesisKinds
<1> HIDE DEF x
<1>4. JobSound(j)'
  BY <1>1, <1>2, <1>3 DEF JobSound, Active
<1>5. AttemptsMade(j)'
  <2>1. charged[j].total \in Nat
    BY <1>1 DEF Charges
  <2>2. jobs[j].attempt \in 1..7 /\ charged[j].total <= 3
    BY <1>1, <2>1 DEF AttemptsMade, Active
  <2> QED
    BY <1>2, <1>3, <2>1, <2>2 DEF AttemptsMade, Active
<1>6. BoundsKept' /\ AtWork' /\ ~Enriching' /\ \A k \in DOMAIN jobs : ~Unsent(k)'
  BY DEF SynthesisInv, BoundsKept, AtWork, Enriching, Unsent
<1> QED
  BY <1>2, <1>4, <1>5, <1>6, SchedulerMoves DEF Active, x

LEMMA RecoverLeaseStep == SynthesisInv /\ RecoverLease => SynthesisInv'
<1> SUFFICES ASSUME SynthesisInv, RecoverLease PROVE SynthesisInv'
  OBVIOUS
<1>1. PICK j \in DOMAIN jobs :
          /\ jobs[j].lease = "expired"
          /\ jobs' = [jobs EXCEPT ![j].state = "Queued", ![j].lease = "none",
                                  ![j].attempt = @ + 1, ![j].backoff = "none"]
  BY DEF RecoverLease
<1>2. work.pc = "idle" /\ UNCHANGED <<src, epi, runs, charged, work, config, scene>>
  BY DEF RecoverLease
<1>3. jobs[j] \in SynthesisJobs /\ JobSound(j) /\ AttemptsMade(j) /\ charged[j].total \in Nat
  BY SequenceElements DEF SynthesisInv, JobsSound, Charges
<1> DEFINE n == jobs[j].attempt + 1
           x == [jobs[j] EXCEPT !.state = "Queued", !.lease = "none", !.attempt = n, !.backoff = "none"]
<1>4. n \in Nat
  BY <1>3 DEF SynthesisJobs
<1>5. jobs' = [jobs EXCEPT ![j] = x]
  BY <1>1
<1> HIDE DEF n
<1>6. /\ x \in SynthesisJobs /\ x.kind = jobs[j].kind /\ x.config = jobs[j].config
      /\ x.first = jobs[j].first /\ x.last = jobs[j].last /\ x.state = "Queued"
      /\ x.result = jobs[j].result /\ x.attempt = n /\ x.lease = "none"
  BY <1>3, <1>4 DEF SynthesisJobs
<1>7. jobs'[j] = x /\ DOMAIN jobs' = DOMAIN jobs
  BY <1>5, <1>6, JobRewritten DEF SynthesisInv, SynthesisKinds
<1> HIDE DEF x
<1>8. jobs[j].state = "Leased" /\ jobs[j].result = 0
  BY <1>1, <1>3 DEF JobSound, Active
<1>9. JobSound(j)'
  BY <1>2, <1>3, <1>6, <1>7, <1>8 DEF JobSound, Active
<1>10. AttemptsMade(j)'
  <2>1. jobs[j].attempt \in {2, 4, 6} /\ 2 * charged[j].total <= jobs[j].attempt
    BY <1>2, <1>3, <1>8 DEF AttemptsMade, Active, Unsent
  <2> QED
    BY <1>2, <1>3, <1>6, <1>7, <2>1 DEF AttemptsMade, Active, n
<1>11. BoundsKept' /\ AtWork' /\ work' \in Positions /\ ~Enriching' /\ \A k \in DOMAIN jobs : ~Unsent(k)'
  BY <1>2 DEF SynthesisInv, BoundsKept, AtWork, Enriching, Unsent, SynthesisKinds
<1> QED
  BY <1>2, <1>5, <1>6, <1>8, <1>9, <1>10, <1>11, SchedulerMoves DEF Active

LEMMA RetireIncompatibleStep == SynthesisInv /\ RetireIncompatible => SynthesisInv'
<1> SUFFICES ASSUME SynthesisInv, RetireIncompatible PROVE SynthesisInv'
  OBVIOUS
<1>1. PICK j \in DOMAIN jobs : Active(jobs[j]) /\ jobs' = [jobs EXCEPT ![j] = Ended(j)]
  BY DEF RetireIncompatible
<1> QED
  BY <1>1, JobEnds DEF RetireIncompatible, SynthesisInv, SynthesisKinds

LEMMA ClaimJobStep == SynthesisInv /\ ClaimJob => SynthesisInv'
<1> SUFFICES ASSUME SynthesisInv, ClaimJob PROVE SynthesisInv'
  OBVIOUS
<1>1. work.pc = "idle" /\ UNCHANGED <<src, epi, runs, charged, config, scene>>
  BY DEF ClaimJob
<1>2. PICK j \in DOMAIN jobs :
         /\ Claimable(j)
         /\ IF ~TargetCurrent(j) THEN FailStale(j) /\ UNCHANGED work
            ELSE IF jobs[j].attempt >= 6
            THEN jobs' = [jobs EXCEPT ![j] = Ended(j)] /\ UNCHANGED work
            ELSE IF llm_daily_usage + 1 > scene.calls
            THEN jobs' = [jobs EXCEPT ![j].backoff = "day"] /\ UNCHANGED work
            ELSE /\ jobs' = [jobs EXCEPT ![j].state = "Leased", ![j].lease = "live",
                                         ![j].attempt = @ + 1, ![j].claims = @ + 1]
                 /\ work' = [AtRest EXCEPT !.pc = "prepare", !.j = j]
  BY DEF ClaimJob
<1>3. jobs[j] \in SynthesisJobs /\ JobSound(j) /\ AttemptsMade(j) /\ charged[j].total \in Nat /\ j \in Nat
  BY SequenceElements DEF SynthesisInv, JobsSound, Charges
<1>4. jobs[j].state = "Queued" /\ jobs[j].lease = "none" /\ jobs[j].result = 0
  BY <1>2, <1>3 DEF Claimable, JobSound, Active, SynthesisJobs
<1>5. CASE jobs' = [jobs EXCEPT ![j] = Ended(j)] /\ UNCHANGED work
  BY <1>1, <1>4, <1>5, JobEnds DEF Active, SynthesisInv, SynthesisKinds
<1>6. CASE jobs' = [jobs EXCEPT ![j].backoff = "day"] /\ UNCHANGED work
  <2> DEFINE x == [jobs[j] EXCEPT !.backoff = "day"]
  <2>1. jobs' = [jobs EXCEPT ![j] = x]
    BY <1>6
  <2>2. /\ x \in SynthesisJobs /\ x.kind = jobs[j].kind /\ x.config = jobs[j].config
        /\ x.first = jobs[j].first /\ x.last = jobs[j].last /\ x.state = jobs[j].state
        /\ x.result = jobs[j].result /\ x.attempt = jobs[j].attempt /\ x.lease = jobs[j].lease
    BY <1>3 DEF SynthesisJobs
  <2>3. jobs'[j] = x /\ DOMAIN jobs' = DOMAIN jobs
    BY <2>1, <2>2, JobRewritten DEF SynthesisInv, SynthesisKinds
  <2> HIDE DEF x
  <2>4. (JobSound(j) /\ AttemptsMade(j))'
    BY <1>1, <1>3, <1>4, <1>6, <2>2, <2>3 DEF JobSound, AttemptsMade, Active
  <2>5. BoundsKept' /\ AtWork' /\ work' \in Positions /\ ~Enriching' /\ \A k \in DOMAIN jobs : ~Unsent(k)'
    BY <1>1, <1>6 DEF SynthesisInv, BoundsKept, AtWork, Enriching, Unsent, SynthesisKinds
  <2> QED
    BY <1>1, <1>4, <2>1, <2>2, <2>4, <2>5, SchedulerMoves DEF Active
<1>7. CASE /\ jobs[j].attempt < 6
           /\ jobs' = [jobs EXCEPT ![j].state = "Leased", ![j].lease = "live",
                                   ![j].attempt = @ + 1, ![j].claims = @ + 1]
           /\ work' = [AtRest EXCEPT !.pc = "prepare", !.j = j]
  <2> DEFINE n == jobs[j].attempt + 1  c == jobs[j].claims + 1
             x == [jobs[j] EXCEPT !.state = "Leased", !.lease = "live", !.attempt = n, !.claims = c]
  <2>1. n \in Nat /\ c \in Nat
    BY <1>3 DEF SynthesisJobs
  <2>2. jobs' = [jobs EXCEPT ![j] = x]
    BY <1>7
  <2> HIDE DEF n, c
  <2>3. /\ x \in SynthesisJobs /\ x.kind = jobs[j].kind /\ x.config = jobs[j].config
        /\ x.first = jobs[j].first /\ x.last = jobs[j].last /\ x.state = "Leased"
        /\ x.result = jobs[j].result /\ x.attempt = n /\ x.lease = "live"
    BY <1>3, <2>1 DEF SynthesisJobs
  <2>4. jobs'[j] = x /\ DOMAIN jobs' = DOMAIN jobs
    BY <2>2, <2>3, JobRewritten DEF SynthesisInv, SynthesisKinds
  <2> HIDE DEF x
  <2>5. work' \in Positions /\ work'.pc = "prepare" /\ work'.j = j /\ work'.out = "none"
    BY <1>3, <1>7 DEF AtRest, Positions, Outcomes
  <2>6. JobSound(j)'
    BY <1>1, <1>3, <1>4, <2>3, <2>4 DEF JobSound, Active
  <2>7. AttemptsMade(j)'
    <3>1. jobs[j].attempt \in {1, 3, 5} /\ 2 * charged[j].total <= jobs[j].attempt - 1
      BY <1>3, <1>4, <1>7 DEF AttemptsMade, Active
    <3>2. n \in {2, 4, 6} /\ 2 * charged[j].total <= n - 2
      BY <1>3, <3>1 DEF n
    <3> QED
      BY <1>1, <1>3, <2>1, <2>3, <2>4, <3>2 DEF AttemptsMade
  <2>8. BoundsKept' /\ AtWork' /\ ~Enriching' /\ \A k \in DOMAIN jobs \ {j} : ~Unsent(k)'
    BY <1>1, <2>3, <2>4, <2>5 DEF SynthesisInv, BoundsKept, AtWork, job, Enriching, Unsent
  <2> QED
    BY <1>1, <1>4, <2>2, <2>3, <2>5, <2>6, <2>7, <2>8, SchedulerMoves DEF Active
<1>8. jobs[j].attempt >= 6 \/ jobs[j].attempt < 6
  BY <1>3 DEF SynthesisJobs
<1> QED
  BY <1>2, <1>5, <1>6, <1>7, <1>8 DEF FailStale

-----------------------------------------------------------------------------
(* One claimed job.                                                            *)

LEMMA JobAtWork ==
  ASSUME SynthesisInv, work.pc # "idle"
  PROVE  /\ work.j \in DOMAIN jobs /\ job = jobs[work.j] /\ job \in SynthesisJobs
         /\ job.state = "Leased" /\ job.lease = "live" /\ job.result = 0 /\ Active(job)
         /\ JobSound(work.j) /\ AttemptsMade(work.j)
<1>1. work.j \in DOMAIN jobs /\ job = jobs[work.j] /\ job.state = "Leased" /\ job.lease = "live"
  BY DEF SynthesisInv, AtWork, job
<1>2. job \in SynthesisJobs /\ JobSound(work.j) /\ AttemptsMade(work.j)
  BY <1>1, SequenceElements DEF SynthesisInv, JobsSound
<1> QED
  BY <1>1, <1>2 DEF JobSound, Active

\* The scheduler goes on with its job and writes nothing.
LEMMA WorkMoves ==
  ASSUME SynthesisInv, work.pc # "idle", UNCHANGED <<src, epi, jobs, runs, charged, config>>,
         UNCHANGED scene \/ Fault, work' \in Positions, work'.j = work.j,
         work'.pc \in {"prepare", "admit"} => work.pc \in {"prepare", "admit"},
         Enriching' => Cardinality(Succeeded("episode")) < Allowance
  PROVE  SynthesisInv'
<1>1. /\ BoundsKept' /\ scene'.messages = scene.messages /\ scene'.growth = scene.growth
      /\ scene'.enrichments = scene.enrichments
  BY SceneKept DEF SynthesisInv, BoundsKept
<1>2. SynthesisKinds' /\ Extents'
  BY <1>1 DEF SynthesisInv, SynthesisKinds, Extents
<1>3. JobsSound' /\ JobsInv' /\ RunsInv'
  BY OthersMove DEF SynthesisInv, Unsent
<1>4. AtWork'
  BY DEF SynthesisInv, AtWork, job
<1>5. QuotaInv'
  <2>1. Succeeded("episode")' = Succeeded("episode")
    BY DEF Succeeded
  <2>2. Allowance' = Allowance
    BY <1>1 DEF Allowance
  <2>3. EnrichmentsKept'
    BY <1>1, <2>1 DEF SynthesisInv, QuotaInv, EnrichmentsKept
  <2> QED
    BY <2>1, <2>2, <2>3 DEF QuotaInv
<1> QED
  BY <1>1, <1>2, <1>3, <1>4, <1>5 DEF SynthesisInv

LEMMA ResolvesTyped ==
  ASSUME work \in Positions, NEW out \in Outcomes, NEW n \in Nat, Resolves(out, n)
  PROVE  work' \in Positions /\ work'.j = work.j /\ work'.pc = "commit" /\ work'.out = out
  BY DEF Resolves, Positions

LEMMA ContinuesTyped ==
  ASSUME work \in Positions, NEW pc \in {"admit", "wait", "commit"}, Continues(pc)
  PROVE  work' \in Positions /\ work'.j = work.j /\ work'.pc = pc /\ work'.out = work.out
  BY DEF Continues, Positions

LEMMA PrepareStep == SynthesisInv /\ Prepare => SynthesisInv'
<1> SUFFICES ASSUME SynthesisInv, Prepare PROVE SynthesisInv'
  OBVIOUS
<1>1. /\ work.pc = "prepare" /\ UNCHANGED <<src, epi, runs, charged, config>> /\ work \in Positions
      /\ work.j \in DOMAIN jobs /\ Active(jobs[work.j])
  BY JobAtWork DEF Prepare, SynthesisInv, SynthesisKinds
<1>2. CASE FailStale(work.j) /\ work' = AtRest /\ UNCHANGED scene
  BY <1>1, <1>2, JobEnds, AtRestTyped DEF FailStale
<1>3. CASE UNCHANGED jobs /\ (UNCHANGED scene \/ Fault) /\ Resolves("NoDelta", 0)
  <2>1. work' \in Positions /\ work'.j = work.j /\ work'.pc = "commit" /\ work'.out = "NoDelta"
    BY <1>1, <1>3, ResolvesTyped DEF Outcomes
  <2> QED
    BY <1>1, <1>3, <2>1, WorkMoves DEF Enriching
<1>4. CASE UNCHANGED jobs /\ (UNCHANGED scene \/ Fault) /\ Resolves("BudgetExhausted", 0)
  <2>1. work' \in Positions /\ work'.j = work.j /\ work'.pc = "commit" /\ work'.out = "BudgetExhausted"
    BY <1>1, <1>4, ResolvesTyped DEF Outcomes
  <2> QED
    BY <1>1, <1>4, <2>1, WorkMoves DEF Enriching
<1>5. CASE UNCHANGED jobs /\ UNCHANGED scene /\ Continues("admit") /\ ~EpisodeQuota
  <2>1. work' \in Positions /\ work'.j = work.j /\ work'.pc = "admit"
    BY <1>1, <1>5, ContinuesTyped
  <2>2. job.kind = "episode" => Cardinality(Succeeded("episode")) < Allowance
    <3>1. Cardinality(Succeeded("episode")) \in Nat /\ scene.enrichments \in Nat
      BY EnrichmentsCounted, SceneTyped DEF SynthesisInv
    <3>2. Max({scene.enrichments - 1, 0}) \in Int
      BY <3>1, LargerOfTwo
    <3> QED
      BY <1>5, <3>1, <3>2 DEF EpisodeQuota, Allowance
  <2>3. Enriching' => job.kind = "episode"
    BY <1>5, <2>1 DEF Enriching, job
  <2> QED
    BY <1>1, <1>5, <2>1, <2>2, <2>3, WorkMoves
<1> QED
  BY <1>2, <1>3, <1>4, <1>5 DEF Prepare

LEMMA AdmitStep == SynthesisInv /\ Admit => SynthesisInv'
<1> SUFFICES ASSUME SynthesisInv, Admit PROVE SynthesisInv'
  OBVIOUS
<1> DEFINE j == work.j
<1>1. /\ work.pc = "admit" /\ UNCHANGED <<src, epi, jobs, runs, config, scene>> /\ work \in Positions
      /\ j \in DOMAIN jobs /\ job = jobs[j] /\ job \in SynthesisJobs /\ job.state = "Leased"
      /\ AttemptsMade(j)
  BY JobAtWork DEF Admit, SynthesisInv, SynthesisKinds, durable
<1>2. job.kind = "episode" => Cardinality(Succeeded("episode")) < Allowance
  BY <1>1 DEF SynthesisInv, QuotaInv, Enriching
<1>3. Enriching' => job.kind = "episode"
  <2>1. work'.j = work.j
    BY <1>1 DEF Admit, Continues, Positions
  <2> QED
    BY <1>1, <2>1 DEF Enriching, job
<1>4. CASE /\ work' = [work EXCEPT !.pc = "finish", !.out = "ProviderUnavailable"]
           /\ UNCHANGED charged
  <2>1. work' \in Positions /\ work'.j = work.j /\ work'.pc = "finish"
    BY <1>1, <1>4 DEF Positions, Outcomes
  <2> QED
    BY <1>1, <1>2, <1>3, <1>4, <2>1, WorkMoves
<1>5. CASE /\ Continues("wait")
           /\ charged' = [charged EXCEPT ![work.j].total = @ + 1,
                                         ![work.j].today = @ + (IF job.claims > 0 THEN 1 ELSE 0)]
  <2>1. work' \in Positions /\ work'.j = work.j /\ work'.pc = "wait" /\ work'.out = work.out
    BY <1>1, <1>5, ContinuesTyped
  <2> DEFINE n == charged[j].total + 1
             d == charged[j].today + (IF job.claims > 0 THEN 1 ELSE 0)
             c == [charged[j] EXCEPT !.total = n, !.today = d]
  <2>2. /\ charged \in Seq(Charges) /\ charged[j] \in Charges /\ DOMAIN charged = DOMAIN jobs
        /\ \A k \in DOMAIN charged : charged[k] \in Charges
    BY <1>1, SequenceElements DEF SynthesisInv, SynthesisKinds
  <2>3. n \in Nat /\ d \in Nat /\ charged[j].total \in Nat
    BY <1>1, <2>2 DEF Charges
  <2>4. charged' = [charged EXCEPT ![j] = c]
    BY <1>5
  <2> HIDE DEF d
  <2>5. c \in Charges /\ c.total = n
    BY <2>2, <2>3 DEF Charges
  <2> HIDE DEF c, n
  <2>6. /\ charged' \in Seq(Charges) /\ Len(charged') = Len(charged) /\ charged'[j] = c
        /\ \A k \in DOMAIN jobs \ {j} : charged'[k] = charged[k]
    BY <1>1, <2>2, <2>4, <2>5
  <2>7. SynthesisKinds'
    BY <1>1, <2>1, <2>6 DEF SynthesisInv, SynthesisKinds
  <2>8. SameTasks /\ NoneRevived /\ SameRuns
    BY <1>1 DEF SameTasks, NoneRevived, SameRuns
  <2>9. JobsInv' /\ RunsInv'
    BY <1>1, <2>8, JobsKept, RunsKept DEF SynthesisInv
  <2>10. ASSUME NEW k \in DOMAIN jobs PROVE (JobSound(k) /\ AttemptsMade(k))'
    <3>1. JobSound(k) /\ AttemptsMade(k) /\ jobs[k] \in SynthesisJobs
      BY SequenceElements DEF SynthesisInv, JobsSound
    <3>2. JobSound(k)'
      BY <1>1, <3>1 DEF JobSound
    <3>3. CASE k = j
      <4>1. jobs[j].attempt \in {2, 4, 6} /\ 2 * charged[j].total <= jobs[j].attempt - 2
        BY <1>1 DEF AttemptsMade, Active, Unsent
      <4>2. 2 * n <= jobs[j].attempt
        BY <2>3, <4>1 DEF n
      <4>3. AttemptsMade(k)'
        BY <3>3, <1>1, <2>1, <2>3, <2>5, <2>6, <4>1, <4>2 DEF AttemptsMade, Unsent
      <4> QED
        BY <3>2, <4>3
    <3>4. CASE k # j
      <4>1. ~Unsent(k) /\ ~Unsent(k)' /\ charged'[k] = charged[k]
        BY <1>1, <2>1, <2>6, <3>4 DEF Unsent
      <4>2. AttemptsMade(k)'
        BY <1>1, <3>1, <4>1 DEF AttemptsMade
      <4> QED
        BY <3>2, <4>2
    <3> QED
      BY <3>3, <3>4
  <2>11. JobsSound' /\ AtWork'
    BY <1>1, <2>1, <2>10 DEF JobsSound, SynthesisInv, AtWork, job
  <2>12. QuotaInv'
    <3>1. Enriching' => Enriching
      BY <1>1, <1>3 DEF Enriching
    <3> QED
      BY <1>1, <2>7, <2>8, <3>1, QuotaKept DEF SynthesisInv, SynthesisKinds
  <2>13. BoundsKept' /\ Extents'
    BY <1>1 DEF SynthesisInv, BoundsKept, Extents
  <2> QED
    BY <2>7, <2>9, <2>11, <2>12, <2>13 DEF SynthesisInv
<1> QED
  BY <1>4, <1>5 DEF Admit

LEMMA ProviderAnswersStep == SynthesisInv /\ ProviderAnswers => SynthesisInv'
<1> SUFFICES ASSUME SynthesisInv, ProviderAnswers PROVE SynthesisInv'
  OBVIOUS
<1>1. /\ work.pc = "wait" /\ UNCHANGED <<src, epi, jobs, runs, charged, config>> /\ work \in Positions
      /\ UNCHANGED scene \/ Fault
  BY DEF ProviderAnswers, SynthesisInv, SynthesisKinds, durable
<1>2. PICK out \in Outcomes : work' = [work EXCEPT !.pc = "finish", !.out = out, !.calls = 1]
  BY DEF ProviderAnswers, Outcomes
<1>3. work' \in Positions /\ work'.j = work.j /\ work'.pc = "finish"
  BY <1>1, <1>2 DEF Positions
<1>4. Enriching' => Enriching
  BY <1>1, <1>3 DEF Enriching, job
<1>5. Enriching' => Cardinality(Succeeded("episode")) < Allowance
  BY <1>4 DEF SynthesisInv, QuotaInv
<1> QED
  BY <1>1, <1>3, <1>5, WorkMoves

LEMMA FinishPreparedStep == SynthesisInv /\ FinishPrepared => SynthesisInv'
<1> SUFFICES ASSUME SynthesisInv, FinishPrepared PROVE SynthesisInv'
  OBVIOUS
<1>1. /\ work.pc = "finish" /\ UNCHANGED <<src, epi, runs, charged, config, scene>> /\ work \in Positions
      /\ work.j \in DOMAIN jobs /\ Active(jobs[work.j])
  BY JobAtWork DEF FinishPrepared, SynthesisInv, SynthesisKinds
<1>2. CASE FailStale(work.j) /\ work' = AtRest
  BY <1>1, <1>2, JobEnds, AtRestTyped DEF FailStale
<1>3. CASE Continues("commit") /\ UNCHANGED jobs
  <2>1. work' \in Positions /\ work'.j = work.j /\ work'.pc = "commit"
    BY <1>1, <1>3, ContinuesTyped
  <2>2. Enriching' => Enriching
    BY <1>1, <1>3, <2>1 DEF Enriching, job
  <2>3. Enriching' => Cardinality(Succeeded("episode")) < Allowance
    BY <2>2 DEF SynthesisInv, QuotaInv
  <2> QED
    BY <1>1, <1>3, <2>1, <2>3, WorkMoves
<1> QED
  BY <1>2, <1>3 DEF FinishPrepared

\* The run and the end of its job.
LEMMA RecordedStep ==
  ASSUME SynthesisInv, work.pc = "commit", Admissible, RunRecorded, work' = AtRest,
         UNCHANGED <<src, charged, config, scene>>
  PROVE  SynthesisInv'
<1>1. PICK j \in DOMAIN jobs : j = work.j
  BY JobAtWork
<1>2. /\ job = jobs[j] /\ job \in SynthesisJobs /\ job.state = "Leased"
      /\ job.result = 0 /\ Active(job) /\ JobSound(j) /\ AttemptsMade(j) /\ charged[j].total \in Nat
      /\ work \in Positions /\ ~Unsent(j)
  BY <1>1, JobAtWork, SequenceElements DEF SynthesisInv, SynthesisKinds, Unsent, Charges
<1>3. /\ work' \in Positions /\ work'.pc = "idle" /\ BoundsKept' /\ AtWork' /\ ~Enriching'
      /\ \A k \in DOMAIN jobs : ~Unsent(k)'
  BY AtRestTyped DEF SynthesisInv, BoundsKept, AtWork, Enriching, Unsent
<1>4. jobs[j].attempt \in {2, 4, 6} /\ 2 * charged[j].total <= jobs[j].attempt
  BY <1>2 DEF AttemptsMade, Active
<1>5. CASE work.out = "NoDelta"
  <2> DEFINE x == [jobs[j] EXCEPT !.state = "Succeeded", !.lease = "none"]
  <2>1. jobs' = [jobs EXCEPT ![j] = x] /\ UNCHANGED <<runs, epi>>
    BY <1>1, <1>5 DEF RunRecorded
  <2>2. /\ x \in SynthesisJobs /\ x.kind = jobs[j].kind /\ x.config = jobs[j].config
        /\ x.first = jobs[j].first /\ x.last = jobs[j].last /\ x.state = "Succeeded"
        /\ x.result = 0 /\ x.attempt = jobs[j].attempt /\ x.lease = "none"
    BY <1>2 DEF SynthesisJobs
  <2>3. jobs'[j] = x /\ DOMAIN jobs' = DOMAIN jobs
    BY <1>2, <2>1, <2>2, JobRewritten DEF SynthesisInv, SynthesisKinds
  <2> HIDE DEF x
  <2>4. JobSound(j)'
    BY <1>2, <2>2, <2>3 DEF JobSound, Active
  <2>5. AttemptsMade(j)'
    BY <1>2, <1>4, <2>2, <2>3 DEF AttemptsMade, Active
  <2> QED
    BY <1>2, <1>3, <2>1, <2>2, <2>4, <2>5, SchedulerMoves DEF Active
<1>6. CASE work.out # "NoDelta"
  <2> DEFINE n == Len(runs) + 1
             state == IF work.out = "Succeeded" THEN "Succeeded" ELSE "Failed"
             c == Max({jobs[j].claims - 1, 0})
             x == [jobs[j] EXCEPT !.state = state, !.lease = "none", !.backoff = retry_not_before,
                                  !.result = n, !.claims = c]
  <2>1. /\ runs' = Append(runs, Run) /\ jobs' = [jobs EXCEPT ![j] = x]
        /\ epi' = IF work.out = "Succeeded" /\ ~IsSource
                  THEN [epi EXCEPT !.sem = job.last, !.rev = @ + 1] ELSE epi
    BY <1>1, <1>6 DEF RunRecorded
  <2>2. Run \in DerivationRuns
    BY <1>2 DEF Run, DerivationRuns, SynthesisJobs, Positions
  <2>3. /\ Run.kind = job.kind /\ Run.first = job.first /\ Run.last = job.last /\ Run.status = work.out
    BY DEF Run
  <2>4. /\ runs \in Seq(DerivationRuns) /\ n \in Nat /\ DOMAIN runs = 1..(n - 1)
    BY SequenceElements DEF SynthesisInv, SynthesisKinds
  <2>5. /\ runs' \in Seq(DerivationRuns) /\ Len(runs') = n /\ DOMAIN runs' = DOMAIN runs \union {n}
        /\ runs'[n] = Run /\ \A r \in DOMAIN runs : runs'[r] = runs[r]
    BY <2>1, <2>2, <2>4
  <2>6. c \in Nat /\ state \in {"Succeeded", "Failed"} /\ retry_not_before \in {"none", "day", "delay"}
    <3>1. jobs[j].claims \in Nat
      BY <1>2 DEF SynthesisJobs
    <3> QED
      BY <3>1, LargerOfTwo DEF retry_not_before
  <2> HIDE DEF c, state, n
  <2>7. /\ x \in SynthesisJobs /\ x.kind = jobs[j].kind /\ x.config = jobs[j].config
        /\ x.first = jobs[j].first /\ x.last = jobs[j].last /\ x.state = state
        /\ x.result = n /\ x.attempt = jobs[j].attempt /\ x.lease = "none"
    BY <1>2, <2>4, <2>6 DEF SynthesisJobs
  <2> HIDE DEF x
  <2>8. /\ jobs' \in Seq(SynthesisJobs) /\ Len(jobs') = Len(jobs) /\ DOMAIN jobs' = DOMAIN jobs
        /\ \A k \in DOMAIN jobs : jobs'[k] = IF k = j THEN x ELSE jobs[k]
    BY <1>2, <2>1, <2>7, JobRewritten DEF SynthesisInv, SynthesisKinds
  <2>9. /\ epi' \in Episodes /\ epi'.closed = epi.closed /\ epi'.upto = epi.upto
        /\ epi'.sem = IF work.out = "Succeeded" /\ ~IsSource THEN job.last ELSE epi.sem
    <3>1. epi \in Episodes /\ job.last \in Nat
      BY <1>2 DEF SynthesisInv, SynthesisKinds, SynthesisJobs
    <3> DEFINE v == epi.rev + 1
    <3>2. v \in Nat
      BY <3>1 DEF Episodes
    <3>3. epi' = IF work.out = "Succeeded" /\ ~IsSource THEN [epi EXCEPT !.sem = job.last, !.rev = v] ELSE epi
      BY <2>1
    <3> HIDE DEF v
    <3> QED
      BY <3>1, <3>2, <3>3 DEF Episodes
  <2>10. SynthesisKinds'
    BY <1>3, <2>5, <2>8, <2>9 DEF SynthesisInv, SynthesisKinds
  <2>11. Extents'
    <3>1. work.out = "Succeeded" /\ ~IsSource => job.last = epi.upto
      BY DEF Admissible
    <3>2. epi'.sem <= epi'.upto
      <4>1. epi.sem \in Nat /\ epi.upto \in Nat /\ epi.sem <= epi.upto
        BY DEF SynthesisInv, SynthesisKinds, Episodes, Extents
      <4> QED
        BY <2>9, <3>1, <4>1
    <3> QED
      BY <2>9, <3>2 DEF SynthesisInv, Extents
  <2>12. JobsSound'
    <3>1. ASSUME NEW k \in DOMAIN jobs PROVE (JobSound(k) /\ AttemptsMade(k))'
      <4>1. CASE k = j
        <5>1. JobSound(k)'
          BY <1>2, <2>3, <2>4, <2>5, <2>6, <2>7, <2>8, <4>1 DEF JobSound, Active
        <5>2. AttemptsMade(k)'
          BY <1>2, <1>4, <2>6, <2>7, <2>8, <4>1 DEF AttemptsMade, Active
        <5> QED
          BY <5>1, <5>2
      <4>2. CASE k # j
        <5>1. /\ JobSound(k) /\ AttemptsMade(k) /\ jobs'[k] = jobs[k] /\ ~Unsent(k)'
              /\ jobs[k] \in SynthesisJobs /\ charged[k].total \in Nat
          BY <1>3, <2>8, <4>2, SequenceElements DEF SynthesisInv, JobsSound, Charges
        <5>2. JobSound(k)'
          BY <2>5, <5>1 DEF JobSound
        <5>3. AttemptsMade(k)'
          BY <5>1 DEF AttemptsMade, SynthesisJobs
        <5> QED
          BY <5>2, <5>3
      <4> QED
        BY <4>1, <4>2
    <3> QED
      BY <2>8, <3>1 DEF JobsSound
  <2>13. \A kind \in {"source", "episode"} :
            Succeeded(kind)' = IF work.out = "Succeeded" /\ job.kind = kind
                               THEN Succeeded(kind) \union {n} ELSE Succeeded(kind)
    BY <2>3, <2>5 DEF Succeeded
  <2>14. /\ Interval(runs'[n]) = Interval(job) /\ n \notin DOMAIN runs /\ job.first \in 1..job.last
         /\ \A r \in DOMAIN runs : Interval(runs'[r]) = Interval(runs[r])
    <3>1. n \notin DOMAIN runs
      BY <2>4
    <3> QED
      BY <1>2, <2>3, <2>5, <3>1 DEF Interval, JobSound
  <2>15. JobsInv'
    <3>1. SameTasks /\ NoneRevived
      BY <1>2, <2>6, <2>7, <2>8 DEF SameTasks, NoneRevived, Active
    <3>2. Apart' /\ OneConfiguration'
      BY <3>1, ApartKept DEF SynthesisInv, JobsInv
    <3>3. ASSUME NEW k \in DOMAIN jobs, Active(jobs'[k]), jobs'[k].kind = "source"
          PROVE  ~SucceededOver(jobs[k])'
      <4>1. k # j /\ jobs'[k] = jobs[k] /\ Active(jobs[k]) /\ jobs[k].kind = "source"
        BY <2>6, <2>7, <2>8, <3>3 DEF Active
      <4>2. ~SucceededOver(jobs[k])
        BY <4>1 DEF SynthesisInv, JobsInv, Uncovered
      <4>3. job.kind = "source" => Interval(job) \cap Interval(jobs[k]) = {}
        BY <1>2, <4>1 DEF SynthesisInv, JobsInv, Apart, OneConfiguration, Alive
      <4>4. \A r \in Succeeded("source")' : Interval(runs'[r]) \cap Interval(jobs[k]) = {}
        <5>1. \A r \in Succeeded("source") : r \in DOMAIN runs /\ Interval(runs[r]) \cap Interval(jobs[k]) = {}
          BY <4>2 DEF SucceededOver, Succeeded
        <5>2. \A r \in Succeeded("source") : Interval(runs'[r]) \cap Interval(jobs[k]) = {}
          BY <5>1, <2>14
        <5> QED
          BY <2>13, <2>14, <4>3, <5>2
      <4> QED
        BY <4>1, <4>4 DEF SucceededOver, Interval
    <3>4. Uncovered'
      BY <2>8, <3>3 DEF Uncovered
    <3> QED
      BY <3>2, <3>4 DEF JobsInv
  <2>16. RunsSound'
    BY <2>3, <2>5, <2>14 DEF SynthesisInv, RunsInv, RunsSound
  <2>17. SummarisedOnce'
    <3>1. ASSUME work.out = "Succeeded", job.kind = "source"
          PROVE  \A r \in Succeeded("source") : Interval(runs[r]) \cap Interval(job) = {}
      BY <3>1 DEF Admissible, IsSource, SucceededOver
    <3>2. \A a, b \in Succeeded("source") : a # b => Interval(runs[a]) \cap Interval(runs[b]) = {}
      BY DEF SynthesisInv, RunsInv, SummarisedOnce, Succeeded
    <3>3. Succeeded("source") \subseteq DOMAIN runs
      BY DEF Succeeded
    <3>4. \A a, b \in Succeeded("source")' : a # b => Interval(runs'[a]) \cap Interval(runs'[b]) = {}
      BY <2>13, <2>14, <3>1, <3>2, <3>3
    <3> QED
      BY <3>4 DEF SummarisedOnce, Succeeded, Interval
  <2>18. EpisodeChain'
    <3> DEFINE done == Succeeded("episode")
    <3>1. done \subseteq DOMAIN runs
      BY DEF Succeeded
    <3>2. /\ \A a, b \in done : a < b => runs[a].last < runs[b].first
          /\ UNION {Interval(runs[r]) : r \in done} = 1..epi.sem
      BY DEF SynthesisInv, RunsInv, EpisodeChain
    <3>3. UNION {Interval(runs'[r]) : r \in done} = UNION {Interval(runs[r]) : r \in done}
      BY <3>1, <2>14
    <3>4. CASE ~(work.out = "Succeeded" /\ ~IsSource)
      <4>1. done' = done /\ epi'.sem = epi.sem
        BY <1>2, <2>9, <2>13, <3>4 DEF IsSource, SynthesisJobs
      <4>2. \A a, b \in done : a < b => runs'[a].last < runs'[b].first
        BY <2>5, <3>1, <3>2
      <4> QED
        BY <3>2, <3>3, <4>1, <4>2 DEF EpisodeChain, Interval
    <3>5. CASE work.out = "Succeeded" /\ ~IsSource
      <4>1. done' = done \union {n} /\ epi'.sem = job.last /\ job.first = epi.sem + 1
        BY <1>2, <2>9, <2>13, <3>5 DEF IsSource, SynthesisJobs, Admissible
      <4>2. epi.sem \in Nat /\ job.last \in Nat /\ epi.sem < job.last
        BY <1>2, <2>14, <4>1 DEF SynthesisInv, SynthesisKinds, Episodes, SynthesisJobs
      <4>3. ASSUME NEW a \in done PROVE runs[a].last <= epi.sem /\ runs[a].last \in Nat
        <5>1. runs[a].first \in 1..runs[a].last /\ runs[a] \in DerivationRuns
          BY <3>1, SequenceElements DEF SynthesisInv, RunsInv, RunsSound
        <5>2. runs[a].last \in Interval(runs[a])
          BY <5>1 DEF Interval, DerivationRuns
        <5>3. runs[a].last \in 1..epi.sem
          BY <3>2, <5>2
        <5> QED
          BY <4>2, <5>3
      <4>4. \A a, b \in done' : a < b => runs'[a].last < runs'[b].first
        <5>1. \A a \in done : a < n
          BY <2>4, <3>1
        <5> SUFFICES ASSUME NEW a \in done \union {n}, NEW b \in done \union {n}, a < b
                     PROVE  runs'[a].last < runs'[b].first
          BY <4>1
        <5>2. CASE a \in done /\ b \in done
          BY <2>5, <3>1, <3>2, <5>2
        <5>3. CASE a \in done /\ b = n
          BY <2>3, <2>5, <3>1, <4>1, <4>2, <4>3, <5>3
        <5>4. a # n
          BY <2>4, <3>1, <5>1
        <5> QED
          BY <5>2, <5>3, <5>4
      <4>5. UNION {Interval(runs'[r]) : r \in done'} = (1..epi.sem) \union Interval(job)
        BY <2>14, <3>2, <3>3, <4>1
      <4>6. (1..epi.sem) \union Interval(job) = 1..job.last
        BY <4>1, <4>2 DEF Interval
      <4> QED
        BY <4>1, <4>4, <4>5, <4>6 DEF EpisodeChain, Interval
    <3> QED
      BY <3>4, <3>5
  <2>19. QuotaInv'
    <3> DEFINE m == Cardinality(Succeeded("episode"))
    <3>1. m \in Nat /\ scene.enrichments \in Nat /\ IsFiniteSet(Succeeded("episode"))
      BY EnrichmentsCounted, SceneTyped DEF SynthesisInv
    <3>2. n \notin Succeeded("episode")
      BY <2>14 DEF Succeeded
    <3>3. m' = IF work.out = "Succeeded" /\ job.kind = "episode" THEN m + 1 ELSE m
      BY <2>13, <3>1, <3>2, FS_AddElement
    <3>4. work.out = "Succeeded" /\ job.kind = "episode" =>
             m < IF epi.closed THEN scene.enrichments
                 ELSE IF scene.enrichments > 0 THEN scene.enrichments - 1 ELSE 0
      BY <3>1, LargerOfTwo DEF SynthesisInv, QuotaInv, Enriching, Allowance
    <3>5. EnrichmentsKept
      BY DEF SynthesisInv, QuotaInv
    <3> HIDE DEF m
    <3>6. m' <= scene.enrichments /\ (~epi.closed /\ scene.enrichments > 0 => m' < scene.enrichments)
      BY <3>1, <3>3, <3>4, <3>5 DEF EnrichmentsKept, m
    <3>7. EnrichmentsKept'
      BY <2>9, <3>6 DEF EnrichmentsKept, m
    <3> QED
      BY <1>3, <3>7 DEF QuotaInv
  <2> QED
    BY <1>3, <2>10, <2>11, <2>12, <2>15, <2>16, <2>17, <2>18, <2>19 DEF SynthesisInv, RunsInv
<1> QED
  BY <1>5, <1>6

LEMMA CommitSourceStep == SynthesisInv /\ CommitSource => SynthesisInv'
<1> SUFFICES ASSUME SynthesisInv, CommitSource PROVE SynthesisInv'
  OBVIOUS
<1>1. /\ work.pc = "commit" /\ UNCHANGED <<src, charged, config, scene>> /\ work' = AtRest
      /\ work.j \in DOMAIN jobs /\ Active(jobs[work.j])
  BY JobAtWork DEF CommitSource
<1>2. CASE FailStale(work.j) /\ UNCHANGED <<runs, epi>>
  BY <1>1, <1>2, JobEnds, AtRestTyped DEF FailStale
<1>3. CASE Admissible /\ RunRecorded
  BY <1>1, <1>3, RecordedStep
<1> QED
  BY <1>2, <1>3 DEF CommitSource

LEMMA CommitEpisodeStep == SynthesisInv /\ CommitEpisode => SynthesisInv'
<1> SUFFICES ASSUME SynthesisInv, CommitEpisode PROVE SynthesisInv'
  OBVIOUS
<1>1. /\ work.pc = "commit" /\ UNCHANGED <<src, charged, config, scene>> /\ work' = AtRest
      /\ work.j \in DOMAIN jobs /\ Active(jobs[work.j])
  BY JobAtWork DEF CommitEpisode
<1>2. CASE FailStale(work.j) /\ UNCHANGED <<runs, epi>>
  BY <1>1, <1>2, JobEnds, AtRestTyped DEF FailStale
<1>3. CASE Admissible /\ RunRecorded
  BY <1>1, <1>3, RecordedStep
<1>4. CASE UNCHANGED <<jobs, runs, epi>>
  <2>1. src' \in Sources /\ epi' \in Episodes /\ Extents' /\ BoundsKept'
    BY <1>1, <1>4 DEF SynthesisInv, SynthesisKinds, Extents, BoundsKept
  <2> QED
    BY <1>1, <1>4, <2>1, AtRestTyped, WorldMoves
<1> QED
  BY <1>2, <1>3, <1>4 DEF CommitEpisode

-----------------------------------------------------------------------------
(* New work.                                                                   *)

LEMMA RetrySourceStep == SynthesisInv /\ RetrySource => SynthesisInv'
<1> SUFFICES ASSUME SynthesisInv, RetrySource PROVE SynthesisInv'
  OBVIOUS
<1>1. PICK j \in DOMAIN jobs :
         /\ Reserving(j) /\ retry_job(j)
         /\ jobs' = [jobs EXCEPT ![j].state = "Queued", ![j].attempt = @ + 1, ![j].result = 0]
  BY DEF RetrySource
<1>2. work.pc = "idle" /\ Compatible /\ UNCHANGED <<src, epi, runs, charged, work, config, scene>>
  BY DEF RetrySource
<1>3. jobs[j] \in SynthesisJobs /\ JobSound(j) /\ AttemptsMade(j) /\ charged[j].total \in Nat
  BY SequenceElements DEF SynthesisInv, JobsSound, Charges
<1>4. /\ jobs[j].kind = "source" /\ jobs[j].state = "Failed" /\ jobs[j].config = config
      /\ Interval(jobs[j]) \cap src.gone = {} /\ jobs[j].result > 0 /\ jobs[j].lease = "none"
  BY <1>1, <1>3 DEF Reserving, retry_job, Active, JobSound, SynthesisJobs
<1>5. ~SucceededOver(jobs[j])
  <2>1. ~SucceededOver(runs[jobs[j].result])
    BY <1>1 DEF retry_job
  <2>2. Interval(runs[jobs[j].result]) = Interval(jobs[j])
    BY <1>3, <1>4 DEF JobSound, Interval
  <2> QED
    BY <2>1, <2>2 DEF SucceededOver
<1> DEFINE n == jobs[j].attempt + 1
           x == [jobs[j] EXCEPT !.state = "Queued", !.attempt = n, !.result = 0]
<1>6. n \in Nat
  BY <1>3 DEF SynthesisJobs
<1>7. jobs' = [jobs EXCEPT ![j] = x]
  BY <1>1
<1> HIDE DEF n
<1>8. /\ x \in SynthesisJobs /\ x.kind = jobs[j].kind /\ x.config = jobs[j].config
      /\ x.first = jobs[j].first /\ x.last = jobs[j].last /\ x.state = "Queued"
      /\ x.result = 0 /\ x.attempt = n /\ x.lease = jobs[j].lease
  BY <1>3, <1>6 DEF SynthesisJobs
<1>9. /\ jobs' \in Seq(SynthesisJobs) /\ Len(jobs') = Len(jobs) /\ DOMAIN jobs' = DOMAIN jobs
      /\ \A k \in DOMAIN jobs : jobs'[k] = IF k = j THEN x ELSE jobs[k]
  BY <1>7, <1>8, JobRewritten DEF SynthesisInv, SynthesisKinds
<1> HIDE DEF x
<1>10. ASSUME NEW k \in DOMAIN jobs PROVE (JobSound(k) /\ AttemptsMade(k))'
  <2>1. CASE k = j
    <3>1. JobSound(k)'
      BY <1>2, <1>3, <1>4, <1>8, <1>9, <2>1 DEF JobSound, Active
    <3>2. jobs[j].attempt \in {2, 4, 6} /\ 2 * charged[j].total <= jobs[j].attempt
      BY <1>3, <1>4 DEF AttemptsMade, Active
    <3>3. n \in {3, 5, 7} /\ 2 * charged[j].total <= n - 1
      BY <1>3, <3>2 DEF n
    <3>4. AttemptsMade(k)'
      BY <1>2, <1>3, <1>8, <1>9, <2>1, <3>3 DEF AttemptsMade
    <3> QED
      BY <3>1, <3>4
  <2>2. CASE k # j
    <3>1. /\ JobSound(k) /\ AttemptsMade(k) /\ jobs'[k] = jobs[k] /\ ~Unsent(k)' /\ ~Unsent(k)
          /\ jobs[k] \in SynthesisJobs /\ charged[k].total \in Nat
      BY <1>2, <1>9, <2>2, SequenceElements DEF SynthesisInv, JobsSound, Charges, Unsent
    <3>2. JobSound(k)'
      BY <1>2, <3>1 DEF JobSound
    <3>3. AttemptsMade(k)'
      BY <1>2, <3>1 DEF AttemptsMade, SynthesisJobs
    <3> QED
      BY <3>2, <3>3
  <2> QED
    BY <2>1, <2>2
<1>11. JobsInv'
  <2>1. \A k \in DOMAIN jobs : /\ Interval(jobs[k])' = Interval(jobs[k])
                               /\ jobs'[k].kind = jobs[k].kind /\ jobs'[k].config = jobs[k].config
    BY <1>8, <1>9 DEF Interval
  <2>2. \A k \in DOMAIN jobs : Alive(k)' => Alive(k)
    BY <1>2, <1>4, <1>8, <1>9, <2>1 DEF Alive
  <2>3. Apart'
    BY <1>9, <2>1, <2>2 DEF SynthesisInv, JobsInv, Apart
  <2>4. \A k \in DOMAIN jobs : Active(jobs'[k]) => jobs'[k].config = config
    BY <1>2, <1>4, <1>8, <1>9 DEF Compatible
  <2>5. OneConfiguration'
    BY <1>9, <2>4 DEF OneConfiguration
  <2>6. \A k \in DOMAIN jobs : SucceededOver(jobs[k])' = SucceededOver(jobs[k])
    BY <1>2, <2>1 DEF SucceededOver, Succeeded, Interval
  <2>7. Uncovered'
    BY <1>4, <1>5, <1>9, <2>1, <2>6 DEF SynthesisInv, JobsInv, Uncovered
  <2> QED
    BY <2>3, <2>5, <2>7 DEF JobsInv
<1>12. RunsInv' /\ SynthesisKinds' /\ JobsSound'
  BY <1>2, <1>9, <1>10, RunsKept DEF SynthesisInv, SynthesisKinds, JobsSound, SameRuns
<1>13. BoundsKept' /\ Extents' /\ AtWork' /\ ~Enriching'
  BY <1>2 DEF SynthesisInv, BoundsKept, Extents, AtWork, Enriching
<1>14. QuotaInv'
  BY <1>2, <1>12, <1>13, QuotaKept DEF SynthesisInv, SynthesisKinds, SameRuns
<1> QED
  BY <1>11, <1>12, <1>13, <1>14 DEF SynthesisInv

\* A new job over an interval of its own.
LEMMA EnqueueStep ==
  ASSUME SynthesisInv, work.pc = "idle", Compatible, NEW kind \in {"source", "episode"}, NEW rev \in Nat,
         NEW first \in Nat, NEW last \in Nat, first \in 1..last,
         Enqueues(NewJob(kind, rev, first, last)), kind = "source" => \A m \in first..last : ~Taken(m),
         UNCHANGED <<src, epi, runs, work, config, scene>>
  PROVE  SynthesisInv'
<1> DEFINE x == NewJob(kind, rev, first, last)  n == Len(jobs) + 1  c == [today |-> 0, total |-> 0]
<1>1. /\ x \in SynthesisJobs /\ x.kind = kind /\ x.first = first /\ x.last = last /\ x.config = config
      /\ x.state = "Queued" /\ x.attempt = 1 /\ x.lease = "none" /\ x.result = 0
  <2>1. config \in Configs
    BY SceneTyped DEF SynthesisInv, BoundsKept
  <2> QED
    BY <2>1 DEF NewJob, SynthesisJobs
<1>2. c \in Charges /\ c.total = 0
  BY DEF Charges
<1>3. jobs' = Append(jobs, x) /\ charged' = Append(charged, c)
  BY DEF Enqueues
<1> HIDE DEF x, c
<1>4. /\ jobs \in Seq(SynthesisJobs) /\ charged \in Seq(Charges) /\ Len(charged) = Len(jobs)
      /\ n \in Nat /\ DOMAIN jobs = 1..(n - 1) /\ DOMAIN charged = DOMAIN jobs
  BY SequenceElements DEF SynthesisInv, SynthesisKinds
<1>5. /\ jobs' \in Seq(SynthesisJobs) /\ Len(jobs') = n /\ DOMAIN jobs' = DOMAIN jobs \union {n}
      /\ jobs'[n] = x /\ \A k \in DOMAIN jobs : jobs'[k] = jobs[k]
  BY <1>1, <1>3, <1>4
<1>6. /\ charged' \in Seq(Charges) /\ Len(charged') = n
      /\ charged'[n] = c /\ \A k \in DOMAIN jobs : charged'[k] = charged[k]
  BY <1>2, <1>3, <1>4
<1>7. n \notin DOMAIN jobs
  BY <1>4
<1> HIDE DEF n
<1>8. SynthesisKinds'
  BY <1>5, <1>6 DEF SynthesisInv, SynthesisKinds
<1>9. ASSUME NEW k \in DOMAIN jobs' PROVE (JobSound(k) /\ AttemptsMade(k))'
  <2>1. CASE k = n
    <3>1. JobSound(k)'
      BY <1>1, <1>5, <2>1 DEF JobSound, Active
    <3>2. AttemptsMade(k)'
      BY <1>1, <1>2, <1>5, <1>6, <2>1 DEF AttemptsMade
    <3> QED
      BY <3>1, <3>2
  <2>2. CASE k \in DOMAIN jobs
    <3>1. /\ JobSound(k) /\ AttemptsMade(k) /\ jobs'[k] = jobs[k] /\ charged'[k] = charged[k]
          /\ ~Unsent(k)' /\ ~Unsent(k)
      BY <1>5, <1>6, <2>2 DEF SynthesisInv, JobsSound, Unsent
    <3>2. JobSound(k)'
      BY <3>1 DEF JobSound
    <3>3. AttemptsMade(k)'
      BY <3>1 DEF AttemptsMade
    <3> QED
      BY <3>2, <3>3
  <2> QED
    BY <1>5, <2>1, <2>2
<1>10. /\ \A k \in DOMAIN jobs : Interval(jobs'[k]) = Interval(jobs[k]) /\ (Alive(k)' <=> Alive(k))
       /\ Interval(jobs'[n]) = first..last /\ jobs'[n].config = config /\ jobs'[n].kind = kind
  BY <1>1, <1>5 DEF Interval, Alive
<1>11. ASSUME NEW k \in DOMAIN jobs, jobs[k].kind = "source", jobs[k].config = config, Alive(k),
              kind = "source"
       PROVE  Interval(jobs[k]) \cap (first..last) = {}
  <2>1. Reserving(k)
    BY <1>11 DEF Reserving, Alive
  <2>2. \A m \in first..last : m \notin Interval(jobs[k])
    BY <1>11, <2>1 DEF Taken
  <2> QED
    BY <2>2
<1>12. Apart'
  <2> SUFFICES ASSUME NEW j \in DOMAIN jobs', NEW k \in DOMAIN jobs', j # k,
                      jobs'[j].kind = "source", jobs'[k].kind = "source",
                      jobs'[j].config = jobs'[k].config, Alive(j)', Alive(k)'
               PROVE  Interval(jobs'[j]) \cap Interval(jobs'[k]) = {}
    BY DEF Apart, Interval
  <2>1. CASE j \in DOMAIN jobs /\ k \in DOMAIN jobs
    BY <1>5, <1>10, <2>1 DEF SynthesisInv, JobsInv, Apart
  <2>2. CASE j = n /\ k \in DOMAIN jobs
    BY <1>5, <1>10, <1>11, <2>2
  <2>3. CASE k = n /\ j \in DOMAIN jobs
    BY <1>5, <1>10, <1>11, <2>3
  <2> QED
    BY <1>5, <2>1, <2>2, <2>3
<1>13. OneConfiguration'
  <2>1. \A k \in DOMAIN jobs' : Active(jobs'[k]) => jobs'[k].config = config
    BY <1>5, <1>10 DEF Compatible
  <2> QED
    BY <2>1 DEF OneConfiguration
<1>14. Uncovered'
  <2>1. Succeeded("source")' = Succeeded("source")
    BY DEF Succeeded
  <2>2. \A k \in DOMAIN jobs : SucceededOver(jobs[k])' => SucceededOver(jobs[k])
    BY <1>10, <2>1 DEF SucceededOver, Interval
  <2>3. kind = "source" => \A r \in Succeeded("source") : Interval(runs[r]) \cap (first..last) = {}
    BY DEF Taken
  <2>4. ASSUME NEW k \in DOMAIN jobs', Active(jobs'[k]), jobs'[k].kind = "source"
        PROVE  ~SucceededOver(jobs[k])'
    <3>1. CASE k \in DOMAIN jobs
      BY <1>5, <2>2, <2>4, <3>1 DEF SynthesisInv, JobsInv, Uncovered
    <3>2. CASE k = n
      BY <1>10, <2>1, <2>3, <2>4, <3>2 DEF SucceededOver, Interval
    <3> QED
      BY <1>5, <3>1, <3>2
  <2> QED
    BY <2>4 DEF Uncovered
<1>15. RunsInv'
  BY RunsKept DEF SynthesisInv, SameRuns
<1>16. BoundsKept' /\ Extents' /\ AtWork' /\ ~Enriching'
  BY DEF SynthesisInv, BoundsKept, Extents, AtWork, Enriching
<1>17. QuotaInv'
  BY <1>8, <1>16, QuotaKept DEF SynthesisInv, SynthesisKinds, SameRuns
<1> QED
  BY <1>8, <1>9, <1>12, <1>13, <1>14, <1>15, <1>16, <1>17 DEF SynthesisInv, JobsInv, JobsSound

LEMMA EnqueueSourceStep == SynthesisInv /\ EnqueueSource => SynthesisInv'
<1> SUFFICES ASSUME SynthesisInv, EnqueueSource PROVE SynthesisInv'
  OBVIOUS
<1>1. PICK first, last \in 1..src.len :
          next_segment(first, last) /\ Enqueues(NewJob("source", 0, first, last))
  BY DEF EnqueueSource
<1>2. src.len \in Nat
  BY DEF SynthesisInv, SynthesisKinds, Sources
<1>3. /\ first \in Nat /\ last \in Nat /\ first \in 1..last
      /\ \A m \in first..last : ~Taken(m)
  BY <1>1, <1>2 DEF next_segment, Blocked
<1> QED
  BY <1>1, <1>3, EnqueueStep DEF EnqueueSource

LEMMA EnqueueEpisodeStep == SynthesisInv /\ EnqueueEpisode => SynthesisInv'
<1> SUFFICES ASSUME SynthesisInv, EnqueueEpisode PROVE SynthesisInv'
  OBVIOUS
<1> DEFINE first == epi.sem + 1
<1>1. /\ epi.rev \in Nat /\ first \in Nat /\ epi.upto \in Nat /\ first \in 1..epi.upto
  BY DEF EnqueueEpisode, SynthesisInv, SynthesisKinds, Episodes
<1>2. Enqueues(NewJob("episode", epi.rev, first, epi.upto))
  BY DEF EnqueueEpisode
<1> HIDE DEF first
<1> QED
  BY <1>1, <1>2, EnqueueStep DEF EnqueueEpisode

-----------------------------------------------------------------------------
(* The theorems about Synthesis.                                               *)

LEMMA SynthesisStarts == SynthesisInit => SynthesisInv
<1> SUFFICES ASSUME SynthesisInit PROVE SynthesisInv
  OBVIOUS
<1>1. /\ src = [len |-> 0, gone |-> {}, permit |-> TRUE]
      /\ epi = [rev |-> 1, sem |-> 0, upto |-> 0, closed |-> FALSE]
      /\ jobs = <<>> /\ runs = <<>> /\ charged = <<>> /\ work = AtRest
      /\ scene \in Scenes /\ config \in scene.configs
  BY DEF SynthesisInit
<1>2. scene.messages \in Nat /\ scene.growth \in Nat /\ scene.enrichments \in Nat /\ scene.left \in Nat
  BY <1>1, ScenesAssumption
<1>3. SynthesisKinds
  BY <1>1, AtRestTyped DEF SynthesisKinds, Sources, Episodes
<1>4. BoundsKept /\ Extents
  <2>1. scene = [scene EXCEPT !.left = scene.left]
    BY <1>1, ScenesAssumption
  <2>2. scene.left \in 0..scene.left
    BY <1>2
  <2> QED
    BY <1>1, <1>2, <2>1, <2>2 DEF BoundsKept, Extents
<1>5. DOMAIN jobs = {} /\ DOMAIN runs = {}
  BY <1>1
<1>6. JobsSound /\ JobsInv /\ RunsSound /\ SummarisedOnce
  BY <1>5 DEF JobsSound, JobsInv, Apart, OneConfiguration, Uncovered, RunsSound, SummarisedOnce
<1>7. Succeeded("episode") = {}
  BY <1>5 DEF Succeeded
<1>8. EpisodeChain
  <2>1. 1..epi.sem = {}
    BY <1>1
  <2> QED
    BY <1>7, <2>1 DEF EpisodeChain
<1>9. work.pc = "idle"
  BY <1>1, AtRestTyped
<1>10. AtWork /\ QuotaInv
  <2>1. Cardinality(Succeeded("episode")) = 0
    BY <1>7, FS_EmptySet
  <2> QED
    BY <1>2, <1>9, <2>1 DEF AtWork, QuotaInv, EnrichmentsKept, Enriching
<1> QED
  BY <1>3, <1>4, <1>6, <1>8, <1>10 DEF SynthesisInv, RunsInv

LEMMA SynthesisStep == SynthesisInv /\ [SynthesisNext]_synthesisVars => SynthesisInv'
<1>1. SynthesisInv /\ UNCHANGED synthesisVars => SynthesisInv'
  <2> SUFFICES ASSUME SynthesisInv, UNCHANGED synthesisVars PROVE SynthesisInv'
    OBVIOUS
  <2>1. /\ src' \in Sources /\ epi' \in Episodes /\ Extents' /\ BoundsKept' /\ work' \in Positions
        /\ UNCHANGED <<src, epi, jobs, runs, charged, work, config, scene>>
    BY DEF synthesisVars, SynthesisInv, SynthesisKinds, Extents, BoundsKept
  <2> QED
    BY <2>1, WorldMoves
<1> QED
  BY <1>1, MessageArrivesStep, MessageSuppressedStep, PermissionFlipsStep, EpisodeGrowsStep, NewDayStep,
     BackoffPassesStep, LeaseExpiresStep, InterruptedStep, ConfigReloadsStep, RecoverLeaseStep,
     RetireIncompatibleStep, RetrySourceStep, EnqueueSourceStep, EnqueueEpisodeStep, ClaimJobStep,
     PrepareStep, AdmitStep, ProviderAnswersStep, FinishPreparedStep, CommitSourceStep, CommitEpisodeStep
  DEF SynthesisNext, Scheduler

LEMMA SynthesisMeaning == SynthesisInv => SummariesSound /\ CallsBounded /\ EnrichmentsKept
<1> SUFFICES ASSUME SynthesisInv PROVE SummariesSound /\ CallsBounded /\ EnrichmentsKept
  OBVIOUS
<1>1. SummarisedOnce /\ EpisodeChain /\ EnrichmentsKept
  BY DEF SynthesisInv, RunsInv, QuotaInv
<1>2. ClaimsUncovered
  <2> SUFFICES ASSUME work.pc # "idle", IsSource PROVE ~SucceededOver(job)
    BY DEF ClaimsUncovered
  <2> QED
    BY JobAtWork DEF SynthesisInv, JobsInv, Uncovered, IsSource
<1>3. SynthesisTyped
  <2>1. /\ src.len \in 0..scene.messages /\ src.gone \subseteq 1..src.len
        /\ epi.sem \in 0..epi.upto /\ epi.upto \in 0..scene.growth
    BY SceneTyped DEF SynthesisInv, SynthesisKinds, Sources, Episodes, Extents
  <2>2. ASSUME NEW j \in DOMAIN jobs
        PROVE  /\ jobs[j].state \in {"Queued", "Leased", "Succeeded", "Failed"}
               /\ jobs[j].lease \in {"none", "live", "expired"}
               /\ (jobs[j].lease # "none") <=> (jobs[j].state = "Leased")
               /\ jobs[j].attempt \in 1..8 /\ jobs[j].result \in 0..Len(runs)
    <3>1. jobs[j] \in SynthesisJobs /\ JobSound(j) /\ AttemptsMade(j) /\ DOMAIN runs = 1..Len(runs)
          /\ Len(runs) \in Nat
      BY SequenceElements DEF SynthesisInv, JobsSound
    <3>2. jobs[j].attempt \in 1..8
      BY <3>1 DEF AttemptsMade
    <3>3. jobs[j].result \in 0..Len(runs)
      BY <3>1 DEF JobSound, SynthesisJobs
    <3> QED
      BY <3>1, <3>2, <3>3 DEF JobSound, SynthesisJobs
  <2>3. Len(charged) = Len(jobs) /\ work.pc \in {"idle", "prepare", "admit", "wait", "finish", "commit"}
    BY DEF SynthesisInv, SynthesisKinds, Positions
  <2> QED
    BY <2>1, <2>2, <2>3 DEF SynthesisTyped, SynthesisInv, BoundsKept
<1>4. CallsBounded
  <2> SUFFICES ASSUME NEW j \in DOMAIN charged PROVE charged[j].total <= 3
    BY DEF CallsBounded
  <2>1. j \in DOMAIN jobs /\ charged[j].total \in Nat /\ AttemptsMade(j)
    BY SequenceElements DEF SynthesisInv, JobsSound, Charges
  <2> QED
    BY <2>1 DEF AttemptsMade
<1> QED
  BY <1>1, <1>2, <1>3, <1>4 DEF SummariesSound

LEMMA SynthesisInvariance == SynthesisSpec => []SynthesisInv
<1> QED
  BY SynthesisStarts, SynthesisStep, PTL DEF SynthesisSpec

\* No message is summarised twice and none is claimed again, whatever was retried,
\* suppressed or reloaded, and the summaries of an episode form one chain
\* (jobs/synthesis/source.rs, projections/synthesis.rs).
THEOREM SummariesAlwaysSound == SynthesisFairSpec => []SummariesSound
<1>1. SynthesisFairSpec => SynthesisSpec
  BY PTL DEF SynthesisFairSpec
<1> QED
  BY <1>1, SynthesisInvariance, SynthesisMeaning, PTL

\* A job calls the provider at most three times, and an episode is enriched within
\* its quota with the last enrichment kept for its end (maintenance.rs,
\* jobs/synthesis.rs).
THEOREM CallsAndEnrichmentsBounded == SynthesisFairSpec => [](CallsBounded /\ EnrichmentsKept)
<1>1. SynthesisFairSpec => SynthesisSpec
  BY PTL DEF SynthesisFairSpec
<1> QED
  BY <1>1, SynthesisInvariance, SynthesisMeaning, PTL

\* What may be sent and recorded in a step.
Sends ==
    \A j \in DOMAIN charged : charged'[j].total > charged[j].total
         => Allowed /\ (jobs[j].kind = "source" => Interval(jobs[j]) \cap src.gone = {})
Records ==
    Len(runs') > Len(runs) /\ runs'[Len(runs')].status = "Succeeded"
         => Allowed /\ (runs'[Len(runs')].kind = "source"
                          => Interval(runs'[Len(runs')]) \cap src.gone = {})
Currently ==
    Len(runs') > Len(runs) /\ runs'[Len(runs')].kind = "episode"
         => /\ runs'[Len(runs')].rev = epi.rev
            /\ runs'[Len(runs')].last = epi.upto

LEMMA NothingSent ==
  ASSUME SynthesisInv, \A j \in DOMAIN charged : charged'[j].total = charged[j].total
  PROVE  Sends
<1>1. \A j \in DOMAIN charged : charged[j].total \in Nat
  BY SequenceElements DEF SynthesisInv, Charges
<1> QED
  BY <1>1 DEF Sends

LEMMA NothingRecorded ==
  ASSUME SynthesisInv, Len(runs') = Len(runs)
  PROVE  Records /\ Currently
<1>1. Len(runs) \in Nat
  BY SequenceElements DEF SynthesisInv
<1> QED
  BY <1>1 DEF Records, Currently

LEMMA ChargeKept ==
  ASSUME SynthesisInv, NEW x, Enqueues(x)
  PROVE  \A j \in DOMAIN charged : charged'[j].total = charged[j].total
<1>1. charged \in Seq(Charges)
  BY DEF SynthesisInv, SynthesisKinds
<1> DEFINE c == [today |-> 0, total |-> 0]
<1>2. charged' = Append(charged, c)
  BY DEF Enqueues
<1> HIDE DEF c
<1>3. \A j \in DOMAIN charged : charged'[j] = charged[j]
  BY <1>1, <1>2
<1> QED
  BY <1>3

LEMMA AdmitSends == SynthesisInv /\ Admit => Sends
<1> SUFFICES ASSUME SynthesisInv, Admit PROVE Sends
  OBVIOUS
<1>1. CASE UNCHANGED charged
  BY <1>1, NothingSent
<1>2. CASE /\ Allowed /\ (IF IsSource THEN TargetCurrent(work.j) ELSE ~work.moved)
           /\ charged' = [charged EXCEPT ![work.j].total = @ + 1,
                                         ![work.j].today = @ + (IF job.claims > 0 THEN 1 ELSE 0)]
  <2>1. \A j \in DOMAIN charged : charged[j].total \in Nat
    BY SequenceElements DEF SynthesisInv, Charges
  <2>2. \A j \in DOMAIN charged : j # work.j => charged'[j] = charged[j]
    BY <1>2
  <2>3. IsSource => Interval(job) \cap src.gone = {}
    BY <1>2 DEF IsSource, TargetCurrent, job
  <2> QED
    BY <1>2, <2>1, <2>2, <2>3 DEF Sends, IsSource, job
<1> QED
  BY <1>1, <1>2 DEF Admit

LEMMA RunIsLast ==
  ASSUME SynthesisInv, work.pc # "idle", RunRecorded
  PROVE  \/ UNCHANGED runs
         \/ /\ Len(runs') = Len(runs) + 1 /\ runs'[Len(runs')] = Run
            /\ Run.kind = job.kind /\ Run.rev = job.rev /\ Interval(Run) = Interval(job) /\ Run.last = job.last
<1>1. CASE UNCHANGED runs
  BY <1>1
<1>2. CASE runs' = Append(runs, Run)
  <2>1. runs \in Seq(DerivationRuns)
    BY DEF SynthesisInv, SynthesisKinds
  <2>2. Len(runs') = Len(runs) + 1 /\ runs'[Len(runs) + 1] = Run
    BY <1>2, <2>1
  <2> QED
    BY <2>2 DEF Run, Interval
<1> QED
  BY <1>1, <1>2 DEF RunRecorded

LEMMA CommitsCurrent == SynthesisInv /\ (CommitSource \/ CommitEpisode) => Records /\ Currently
<1> SUFFICES ASSUME SynthesisInv, CommitSource \/ CommitEpisode PROVE Records /\ Currently
  OBVIOUS
<1>1. CASE UNCHANGED runs
  BY <1>1, NothingRecorded
<1>2. CASE CommitSource /\ Allowed /\ TargetCurrent(work.j) /\ RunRecorded
  <2>1. job.kind = "source" /\ Interval(job) \cap src.gone = {} /\ work.pc # "idle"
    BY <1>2 DEF CommitSource, IsSource, TargetCurrent, job
  <2> QED
    BY <1>1, <1>2, <2>1, RunIsLast DEF Records, Currently, Interval
<1>3. CASE CommitEpisode /\ Allowed /\ Admissible /\ RunRecorded
  <2>1. /\ job.kind # "source" /\ job.rev = epi.rev /\ job.last = epi.upto /\ work.pc # "idle"
    BY <1>3 DEF CommitEpisode, IsSource, Admissible
  <2> QED
    BY <1>1, <1>3, <2>1, RunIsLast DEF Records, Currently
<1> QED
  BY <1>1, <1>2, <1>3 DEF CommitSource, CommitEpisode

LEMMA StepsPermitted == SynthesisInv /\ [SynthesisNext]_synthesisVars => Sends /\ Records /\ Currently
<1> SUFFICES ASSUME SynthesisInv, [SynthesisNext]_synthesisVars PROVE Sends /\ Records /\ Currently
  OBVIOUS
<1>1. CASE UNCHANGED <<runs, charged>>
  BY <1>1, NothingSent, NothingRecorded
<1>2. CASE NewDay
  <2>1. \A j \in DOMAIN charged : charged'[j].total = charged[j].total
    BY <1>2, SequenceElements DEF NewDay, SynthesisInv, Charges
  <2>2. Len(runs') = Len(runs)
    <3>1. runs' = [r \in DOMAIN runs |-> [runs[r] EXCEPT !.today = FALSE]]
      BY <1>2 DEF NewDay
    <3>2. DOMAIN runs' = DOMAIN runs /\ runs' = [r \in DOMAIN runs |-> runs'[r]]
      BY <3>1
    <3>3. \A r \in DOMAIN runs : runs'[r] \in DerivationRuns
      BY <3>1, SequenceElements DEF SynthesisInv, DerivationRuns
    <3> QED
      BY <3>2, <3>3, RunsRewritten DEF SynthesisInv, SynthesisKinds
  <2> QED
    BY <2>1, <2>2, NothingSent, NothingRecorded
<1>3. CASE EnqueueSource \/ EnqueueEpisode
  <2>1. UNCHANGED runs /\ \E x : Enqueues(x)
    BY <1>3 DEF EnqueueSource, EnqueueEpisode
  <2> QED
    BY <2>1, ChargeKept, NothingSent, NothingRecorded
<1>4. CASE Admit
  BY <1>4, AdmitSends, NothingRecorded DEF Admit, durable
<1>5. CASE CommitSource \/ CommitEpisode
  BY <1>5, CommitsCurrent, NothingSent DEF CommitSource, CommitEpisode
<1> QED
  BY <1>1, <1>2, <1>3, <1>4, <1>5
  DEF SynthesisNext, Scheduler, synthesisVars, MessageArrives, MessageSuppressed, PermissionFlips,
      EpisodeGrows, BackoffPasses, LeaseExpires, Interrupted, ConfigReloads, RecoverLease,
      RetireIncompatible, RetrySource, ClaimJob, Prepare, ProviderAnswers, FinishPrepared, durable

\* What is sent was permitted and unsuppressed when it was sent, and what is recorded
\* is permitted and about the current base when it is recorded (provider.rs,
\* maintenance.rs).
THEOREM AlwaysPermittedAndCurrent == SynthesisFairSpec => PermittedAndCurrent
<1>1. SynthesisFairSpec => SynthesisSpec
  BY PTL DEF SynthesisFairSpec
<1>2. SynthesisInv /\ [SynthesisNext]_synthesisVars
        => [Sends]_synthesisVars /\ [Records]_synthesisVars /\ [Currently]_synthesisVars
  BY StepsPermitted
<1>3. SynthesisSpec => [][Sends]_synthesisVars /\ [][Records]_synthesisVars /\ [][Currently]_synthesisVars
  BY <1>2, SynthesisInvariance, PTL DEF SynthesisSpec
<1> QED
  BY <1>1, <1>3, PTL
  DEF PermittedAndCurrent, SentWhilePermitted, RecordedWhilePermitted, SummaryIsCurrent,
      Sends, Records, Currently
=============================================================================

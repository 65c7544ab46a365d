--------------------------- MODULE RecoveryProofs ----------------------------
(* Machine-checked proofs about Recovery, for every set of tool calls,        *)
(* handlers, applications and callers, and every scenario.                    *)
EXTENDS Recovery, FiniteSetTheorems, TLAPS

-----------------------------------------------------------------------------
(* The barrier: types, and what a handler knows.                              *)

Terminal == Barrier!Terminal
NoBundle == Barrier!NoBundle
ActiveAttempts == Attempts \cup {0}
Contents == Nat \X Nat
Bundles == {NoBundle} \cup
           [t : Nat, f : Nat, st : {"Complete", "Partial"}, att : ActiveAttempts]
Worktrees == [t : Nat, f : Nat]
Journals == [n : Nat, req : [ToolCalls -> Terminal \cup {"none", "Pending"}],
             bundle : [ToolCalls -> Bundles], att : ActiveAttempts]
Hooks == [pc : {"idle", "captured", "waiting", "done", "ran"},
          told : Terminal \cup {"none", "gap"}]
HandlerStates ==
  [pc : {"idle", "refuse", "ack", "settle", "admit", "probe", "view", "before", "read", "after",
         "verify", "status", "commit", "record"},
   r : ToolCalls \cup {"none"}, live : BOOLEAN, n : Nat, att : ActiveAttempts, t1 : Nat,
   listed : BOOLEAN, f : Nat, om : BOOLEAN, same : BOOLEAN, b : Bundles,
   st : Terminal \cup {"none"}]
BarrierCounts == [edit : Nat, other : Nat, fault : Nat, extra : Nat, crash : Nat,
                  max : {sc.barrier : sc \in Scenarios}]

BTyped ==
  /\ wt \in Worktrees /\ db \in Journals
  /\ hook \in [ToolCalls -> Hooks] /\ h \in [Handlers -> HandlerStates]
  /\ frame \in [ToolCalls -> {"none", "durable", "gone"}]
  /\ mail \subseteq [r : ToolCalls, live : BOOLEAN] /\ expired \subseteq ToolCalls
  /\ seen \in [now : SUBSET Contents, before : [ToolCalls -> SUBSET Contents]]
  /\ bcount \in BarrierCounts

Reached(b) == <<b.t, b.f>> \in seen.now

\* The worktree's identity is the latest one, and its content has been seen.
Fresh == <<wt.t, wt.f>> \in seen.now /\ wt.f <= bcount.edit + 1

\* A capture has copied what the worktree had at one instant, or will find out; a
\* verdict is on the frontier of the view unless the journal has moved.
Building == {"before", "read", "after", "verify", "status", "commit"}
Sound(x) ==
  LET v == h[x] IN
  /\ v.pc # "idle" => v.r \in ToolCalls
  /\ v.f <= bcount.edit + 1
  /\ v.pc = "after" /\ ~v.om => v.listed = (v.f # 0)
  /\ v.pc = "verify" /\ v.same /\ ~v.om /\ v.f \in {0, wt.f} => <<v.t1, v.f>> \in seen.now
  /\ v.b.st = "Complete" => Reached(v.b)
  /\ v.pc \in {"admit", "probe", "view"} => v.b = NoBundle
  /\ v.pc \in {"commit", "record", "settle"} => v.st \in Terminal
  /\ v.pc \in Building \cup {"record"} =>
       /\ v.n <= db.n
       /\ v.n = db.n => db.req[v.r] \notin Terminal
       /\ v.n = db.n => v.b = NoBundle \/ v.b.att = db.att
  /\ v.pc \in Building /\ v.n = db.n => v.att = db.att
HandlersSound == \A x \in Handlers : Sound(x)

\* What is recorded and what was told.
Recorded ==
  \A r \in ToolCalls : /\ db.req[r] \notin Terminal => db.bundle[r] = NoBundle
                       /\ db.bundle[r].st = "Complete" => Reached(db.bundle[r])
HandlersHold == \A x \in Handlers : lease = x => h[x].pc # "idle"

BInv == /\ BTyped /\ Fresh /\ HandlersSound /\ Recorded /\ HandlersHold
        /\ Barrier!CompleteIsOneInstant /\ Barrier!AckedIsDurable

-----------------------------------------------------------------------------
(* The applications: types, and what a call knows.                            *)

NoApp == Application!NoApp
NoResult == Application!NoResult
Everyone == Callers \cup {"boot"}
Files == [c : {"pre", "patched", "other"}, id : Nat]
Revisions == [rev : Nat, deliv : {"none", "Admitted", "Delivered"},
              st : {"none", "Unknown", "Applied", "Failed"}, post : BOOLEAN]
Exits == {"none", "ok", "fail", "abnormal"}
Verdicts == {"none", "Applied", "NotApplied"}
Results == [ex : Exits, ver : Verdicts, fid : Int, post : BOOLEAN]
Calls == [pc : {"idle", "replay", "lease", "prepare", "check", "admit", "recheck", "feed", "wait",
                "post", "stable", "verify", "persist", "reconcile", "deliver", "outcome"},
          a : Applications \cup {"none"}, cur : Revisions, fid : Int,
          ex : Exits \cup {"error"}, ver : Verdicts, post : BOOLEAN]
Answers == {"none", "Unknown", "Applied", "Failed"}
Histories == [spawned : [Applications -> Nat], wrote : SUBSET Applications,
              told : SUBSET (Applications \X Answers), orphan : SUBSET Applications]
ApplicationCounts == [call : Nat, edit : Nat, fault : Nat, quiesce : Nat, crash : Nat,
                      max : {sc.application : sc \in Scenarios}]

ATyped ==
  /\ file \in Files /\ app \in [Applications -> Revisions]
  /\ intent \subseteq Applications /\ result \in [Applications -> Results]
  /\ child \in [Applications -> {"none", "fed", "eof", "ok", "fail", "killed"}]
  /\ call \in [Everyone -> Calls] /\ todo \subseteq Applications
  /\ quiet \in BOOLEAN /\ daemon \in {"up", "starting", "down"}
  /\ acount \in ApplicationCounts /\ past \in Histories

\* A call between the fence and its answer.
Running == {"recheck", "feed", "wait", "post", "stable", "verify", "persist"}
Holding == {"prepare", "check", "admit"} \cup Running
Reviewing == {"reconcile", "deliver", "outcome"}
Ended == {"post", "stable", "verify", "persist"}

\* A verdict is about the child that ended, and about the file it was given.
Justified(a, ex, ver) ==
  /\ ex \in {"ok", "fail"} => child[a] = ex
  /\ ver = "Applied" => ex = "ok"
  /\ ver = "NotApplied" => ex = "fail" /\ (a \notin past.wrote \/ acount.edit > 0)

\* What a call rests on, by its program counter.
CallSound(c) ==
  LET v == call[c] IN
  /\ v.pc # "idle" => v.a \in Applications
  /\ v.pc \in Running => result[v.a] = NoResult
  /\ v.pc \in Running \cup Reviewing =>
       /\ v.cur.st = "Unknown" /\ app[v.a] # NoApp
       /\ v.cur.rev <= app[v.a].rev
       /\ v.cur.rev = app[v.a].rev => v.cur = app[v.a]
  /\ v.pc = "recheck" => child[v.a] = "none" /\ past.spawned[v.a] = 0
  /\ v.pc = "feed" => child[v.a] = "fed"
  /\ v.pc = "wait" => child[v.a] \in {"eof", "ok", "fail"} /\ v.a \in intent
  /\ v.pc \in Ended => /\ child[v.a] \in {"ok", "fail", "killed"}
                       /\ v.ex \in {"ok", "fail", "abnormal"}
                       /\ Justified(v.a, v.ex, "none")
  /\ v.pc = "persist" => Justified(v.a, v.ex, v.ver)
  /\ v.pc = "deliver" => v.a \in intent
  /\ v.pc = "outcome" => v.cur.deliv = "Delivered"
CallsSound == \A c \in Everyone : CallSound(c)

\* Who holds the fence, and when a call may be in progress.
CallsHold ==
  /\ \A c \in Everyone : call[c].pc \in Holding => lease = c
  /\ \A c \in Callers : lease = c => call[c].pc # "idle"
  /\ \A c \in Callers : call[c].pc # "idle" => daemon = "up"
  /\ call["boot"].pc \in {"idle"} \cup Reviewing
  /\ call["boot"].pc # "idle" \/ todo # {} => daemon = "starting"

\* A child that nobody orphaned has its caller.
Attended(a) == \E c \in Callers : call[c].pc \in {"feed", "wait"} /\ call[c].a = a
ChildSound(a) ==
  /\ past.spawned[a] <= 1
  /\ child[a] \in {"fed", "eof"} => result[a] = NoResult /\ (a \in past.orphan \/ Attended(a))
  /\ child[a] = "eof" => a \in intent \cup past.orphan
  /\ child[a] = "ok" => a \in past.wrote
  /\ a \in past.wrote => child[a] \in {"ok", "fail", "killed"} /\ a \in intent \cup past.orphan
ChildrenSound == \A a \in Applications : ChildSound(a)

\* A revision rests on the frames, and a frame on what the child did.
AppSound(a) ==
  /\ app[a] = NoApp => past.spawned[a] = 0 /\ child[a] = "none"
                       /\ a \notin intent /\ result[a] = NoResult
  /\ app[a] # NoApp => app[a].st # "none"
  /\ app[a].deliv = "Delivered" => a \in intent
  /\ app[a].post => result[a].post
  /\ app[a].st \in {"Applied", "Failed"} => app[a].deliv = "Delivered" /\ app[a].post
  /\ app[a].st = "Applied" => result[a].ex = "ok"
  /\ app[a].st = "Failed" => a \notin past.wrote \/ acount.edit > 0
  /\ Justified(a, result[a].ex, result[a].ver)
  /\ a \in todo => app[a].st = "Unknown"
AppsSound == \A a \in Applications : AppSound(a)

\* A patch leaves its mark until an editor comes.
Marked == past.wrote # {} /\ acount.edit = 0 => file.c # "pre"

AInv == /\ ATyped /\ CallsSound /\ CallsHold /\ ChildrenSound /\ AppsSound /\ Marked
        /\ Application!ToldIsDurable

-----------------------------------------------------------------------------
(* The barrier: what a step of a handler has to show.                         *)

\* A status is told only if it is durable.
Answering ==
  \/ hook' = hook
  \/ \E r \in ToolCalls, a \in Terminal \cup {"gap"} :
        /\ a # "gap" => db.req[r] = a
        /\ hook' = [hook EXCEPT ![r] = [pc |-> "done", told |-> a]]

LEMMA AnsweringKeeps ==
  ASSUME BInv, Answering, UNCHANGED <<db, seen>>
  PROVE  /\ hook' \in [ToolCalls -> Hooks]
         /\ Barrier!CompleteIsOneInstant' /\ Barrier!AckedIsDurable'
<1>1. CASE hook' = hook
  BY <1>1 DEF BInv, BTyped, Barrier!CompleteIsOneInstant, Barrier!AckedIsDurable
<1>2. ASSUME NEW r \in ToolCalls, NEW a \in Terminal \cup {"gap"},
             a # "gap" => db.req[r] = a,
             hook' = [hook EXCEPT ![r] = [pc |-> "done", told |-> a]]
      PROVE  /\ hook' \in [ToolCalls -> Hooks]
             /\ Barrier!CompleteIsOneInstant' /\ Barrier!AckedIsDurable'
  <2>1. PICK k \in Hooks : k = [pc |-> "done", told |-> a]
    BY DEF Hooks
  <2>2. /\ hook' \in [ToolCalls -> Hooks] /\ hook'[r] = k
        /\ \A q \in ToolCalls : q # r => hook'[q] = hook[q]
    BY <1>2, <2>1 DEF BInv, BTyped
  <2>3. hook'[r].pc = "done" /\ hook'[r].told = a
    BY <2>1, <2>2
  <2>4. Barrier!CompleteIsOneInstant'
    BY <2>2, <2>3 DEF BInv, Recorded, Reached, Barrier!CompleteIsOneInstant
  <2>5. Barrier!AckedIsDurable'
    BY <1>2, <2>2, <2>3 DEF BInv, Barrier!AckedIsDurable, Terminal
  <2> QED BY <2>2, <2>4, <2>5
<1> QED BY <1>1, <1>2 DEF Answering

LEMMA HandlerMoves ==
  ASSUME BInv, NEW x \in Handlers, NEW v \in HandlerStates, h' = [h EXCEPT ![x] = v], Sound(x)',
         lease' \in {lease, "free", x}, lease' = x => v.pc # "idle",
         Answering, bcount' \in BarrierCounts, bcount'.edit = bcount.edit,
         mail' \subseteq mail, UNCHANGED <<wt, db, frame, expired, seen>>
  PROVE  BInv'
<1>1. /\ h' \in [Handlers -> HandlerStates] /\ h'[x] = v
      /\ \A y \in Handlers : y # x => h'[y] = h[y]
  BY DEF BInv, BTyped
<1>2. BTyped' /\ Fresh' /\ Recorded'
  BY <1>1, AnsweringKeeps DEF BInv, BTyped, Fresh, Recorded, Reached
<1>3. HandlersSound'
  BY <1>1 DEF BInv, HandlersSound, Sound, Reached
<1>4. HandlersHold'
  BY <1>1, HoldersAssumption DEF HoldersAssumption, BInv, HandlersHold
<1> QED BY <1>2, <1>3, <1>4, AnsweringKeeps DEF BInv

\* A handler that says nothing.
LEMMA HandlerGoes ==
  ASSUME BInv, NEW x \in Handlers, NEW v \in HandlerStates, h' = [h EXCEPT ![x] = v], Sound(x)',
         lease' \in {lease, "free", x}, v.pc # "idle",
         bcount' \in BarrierCounts, bcount'.edit = bcount.edit,
         UNCHANGED <<wt, db, hook, frame, mail, expired, seen>>
  PROVE  BInv'
BY HandlerMoves DEF Answering

LEMMA Handled ==
  ASSUME BInv, NEW x \in Handlers
  PROVE  /\ h[x] \in HandlerStates /\ db \in Journals /\ wt \in Worktrees
         /\ bcount \in BarrierCounts /\ bcount.edit \in Nat
         /\ h[x].pc # "idle" => h[x].r \in ToolCalls
BY DEF BInv, BTyped, HandlersSound, Sound, BarrierCounts

LEMMA BarrierCounted ==
  ASSUME BTyped, NEW k \in {"edit", "other", "fault", "extra", "crash"}, Barrier!Counted(k)
  PROVE  /\ bcount' \in BarrierCounts
         /\ bcount'.edit = IF k = "edit" THEN bcount.edit + 1 ELSE bcount.edit
         /\ bcount'.max = bcount.max
<1>1. PICK n \in Nat : n = bcount[k] + 1
  BY DEF BTyped, BarrierCounts
<1>2. bcount' = [bcount EXCEPT ![k] = n]
  BY <1>1 DEF Barrier!Counted
<1> QED BY <1>1, <1>2 DEF BTyped, BarrierCounts

LEMMA IdleIsSound ==
  /\ Barrier!Idle \in HandlerStates /\ Barrier!Idle.b = NoBundle /\ NoBundle.st = "none"
  /\ Barrier!Idle.pc = "idle" /\ Barrier!Idle.f = 0
BY DEF Barrier!Idle, HandlerStates, Bundles, NoBundle, Barrier!NoBundle, ActiveAttempts

LEMMA AnswerKeeps ==
  ASSUME BInv, NEW x \in Handlers, h[x].pc # "idle", NEW a \in Terminal \cup {"gap"},
         a # "gap" => db.req[h[x].r] = a, Barrier!Answer(x, a),
         bcount' \in BarrierCounts, bcount'.edit = bcount.edit,
         UNCHANGED <<wt, db, frame, mail, expired, seen>>
  PROVE  BInv'
<1>1. PICK v \in HandlerStates : v = Barrier!Idle /\ v.b.st = "none" /\ v.pc = "idle" /\ v.f = 0
  BY IdleIsSound
<1>2. h' = [h EXCEPT ![x] = v] /\ lease' = IF lease = x THEN "free" ELSE lease
  BY <1>1 DEF Barrier!Answer
<1>3. PICK r \in ToolCalls : r = h[x].r
  BY DEF BInv, HandlersSound, Sound
<1>4. PICK k \in Hooks : k = [pc |-> "done", told |-> a]
  BY DEF Hooks
<1>5. hook' = [hook EXCEPT ![r] = IF h[x].live /\ hook[r].pc = "waiting" THEN k ELSE hook[r]]
  BY <1>3, <1>4 DEF Barrier!Answer
<1>6. hook' = hook \/ hook' = [hook EXCEPT ![r] = k]
  BY <1>5 DEF BInv, BTyped
<1>7. Answering
  BY <1>3, <1>4, <1>6 DEF Answering
<1>8. h'[x] = v /\ bcount'.edit \in Nat
  BY <1>2 DEF BInv, BTyped, BarrierCounts
<1>9. Sound(x)'
  BY <1>1, <1>8 DEF Sound, Building
<1> QED BY <1>1, <1>2, <1>7, <1>9, HandlerMoves, HoldersAssumption DEF HoldersAssumption

LEMMA RefuseKeeps ==
  ASSUME BInv, NEW x \in Handlers, h[x].pc # "idle", Barrier!Refuse(x),
         bcount' \in BarrierCounts, bcount'.edit = bcount.edit,
         UNCHANGED <<wt, db, frame, mail, expired, seen>>
  PROVE  BInv'
BY AnswerKeeps DEF Barrier!Refuse

LEMMA AckKeeps ==
  ASSUME BInv, NEW x \in Handlers, h[x].pc # "idle", Barrier!ack(x), bcount' = bcount,
         UNCHANGED <<wt, db, frame, mail, expired, seen>>
  PROVE  BInv'
<1>1. bcount' \in BarrierCounts /\ bcount'.edit = bcount.edit
  BY DEF BInv, BTyped
<1> QED BY <1>1, AnswerKeeps, RefuseKeeps DEF Barrier!ack, Terminal

-----------------------------------------------------------------------------
(* The barrier: the steps of a handler.                                       *)

LEMMA ReceiveKeeps ==
  ASSUME BInv, NEW x \in Handlers, Barrier!Receive(x)
  PROVE  BInv'
<1>1. PICK m \in mail : /\ mail' = mail \ {m}
        /\ h' = [h EXCEPT ![x] = [Barrier!Idle EXCEPT !.r = m.r, !.live = m.live,
                   !.pc = IF frame[m.r] # "durable" THEN "refuse"
                          ELSE IF db.req[m.r] \in Terminal THEN "ack"
                          ELSE IF db.req[m.r] = "Pending" THEN "settle" ELSE "admit",
                   !.st = IF m.r \in expired THEN "TimedOut" ELSE "Failed"]]
  BY DEF Barrier!Receive, Terminal
<1>2. m.r \in ToolCalls /\ m.live \in BOOLEAN
  BY DEF BInv, BTyped
<1>3. PICK pc \in {"refuse", "ack", "settle", "admit"} :
          pc = IF frame[m.r] # "durable" THEN "refuse"
               ELSE IF db.req[m.r] \in Terminal THEN "ack"
               ELSE IF db.req[m.r] = "Pending" THEN "settle" ELSE "admit"
  OBVIOUS
<1>4. PICK st \in {"TimedOut", "Failed"} : st = IF m.r \in expired THEN "TimedOut" ELSE "Failed"
  OBVIOUS
<1>5. PICK v \in HandlerStates : v = [Barrier!Idle EXCEPT !.r = m.r, !.live = m.live,
                                      !.pc = pc, !.st = st]
  BY <1>2, IdleIsSound DEF HandlerStates, Terminal, Barrier!Terminal
<1>6. v.pc = pc /\ v.st = st /\ v.r = m.r /\ v.f = 0 /\ v.b.st = "none" /\ v.b = NoBundle
  BY <1>5, IdleIsSound DEF HandlerStates
<1>7. h' = [h EXCEPT ![x] = v]
  BY <1>1, <1>3, <1>4, <1>5
<1>8. h'[x] = v /\ bcount' = bcount /\ bcount.edit \in Nat
  BY <1>7 DEF BInv, BTyped, BarrierCounts, Barrier!Receive
<1>9. Sound(x)'
  BY <1>2, <1>6, <1>8 DEF Sound, Building, Terminal, Barrier!Terminal
<1>10. Answering /\ mail' \subseteq mail /\ v.pc # "idle" /\ bcount' \in BarrierCounts
  BY <1>1, <1>6, <1>8 DEF Answering, BInv, BTyped, Barrier!Receive, Barrier!unseen
<1> QED BY <1>6, <1>7, <1>8, <1>9, <1>10, HandlerMoves DEF Barrier!Receive, Barrier!unseen

LEMMA ReplyKeeps ==
  ASSUME BInv, NEW x \in Handlers, Barrier!Reply(x)
  PROVE  BInv'
<1>1. h[x].pc # "idle" /\ bcount' = bcount /\ bcount' \in BarrierCounts
      /\ UNCHANGED <<wt, db, frame, mail, expired, seen>>
  BY DEF BInv, BTyped, Barrier!Reply, Barrier!Others, Barrier!unseen
<1> QED BY <1>1, RefuseKeeps, AckKeeps DEF Barrier!Reply

LEMMA AdmitKeeps ==
  ASSUME BInv, NEW x \in Handlers, Barrier!Admit(x)
  PROVE  BInv'
<1>1. h[x].pc = "admit" /\ UNCHANGED <<wt, db, frame, mail, expired, seen>>
  BY DEF Barrier!Admit, Barrier!Others, Barrier!unseen
<1>2. bcount \in BarrierCounts /\ h[x] \in HandlerStates
  BY Handled
<1>3. CASE lease' = x /\ Barrier!Go(x, "probe") /\ UNCHANGED <<hook, bcount>>
  <2>1. PICK v \in HandlerStates : v = [h[x] EXCEPT !.pc = "probe"]
    BY <1>2 DEF HandlerStates
  <2>2. h' = [h EXCEPT ![x] = v] /\ h'[x] = v /\ v.pc # "idle"
    BY <1>2, <1>3, <2>1 DEF Barrier!Go, BInv, BTyped, HandlerStates
  <2>3. Sound(x)'
    BY <1>1, <1>2, <1>3, <2>1, <2>2 DEF BInv, BTyped, HandlersSound, Sound, HandlerStates, Building, Reached
  <2> QED BY <1>1, <1>2, <1>3, <2>1, <2>2, <2>3, HandlerGoes
<1>4. CASE Barrier!Refuse(x) /\ (UNCHANGED bcount \/ Barrier!Counted("fault"))
  BY <1>1, <1>2, <1>4, BarrierCounted, RefuseKeeps DEF BInv
<1> QED BY <1>3, <1>4 DEF Barrier!Admit, Barrier!RecoveryFenceLease_acquire

\* The journal moves on, and no terminal revision with it.
JournalGrows ==
  /\ db' \in Journals /\ db'.n = db.n + 1
  /\ \A r \in ToolCalls :
       \/ db'.req[r] = db.req[r] /\ db'.bundle[r] = db.bundle[r]
       \/ /\ db.req[r] \notin Terminal
          /\ db'.req[r] \notin Terminal => db'.bundle[r] = NoBundle
          /\ db'.bundle[r].st = "Complete" => Reached(db'.bundle[r])

LEMMA JournalKeeps ==
  ASSUME BInv, JournalGrows, UNCHANGED <<hook, seen>>
  PROVE  Recorded' /\ Barrier!CompleteIsOneInstant' /\ Barrier!AckedIsDurable'
<1>1. Recorded'
  BY DEF BInv, Recorded, JournalGrows, Reached
<1>2. Barrier!AckedIsDurable'
  BY DEF BInv, JournalGrows, Barrier!AckedIsDurable, Terminal
<1>3. Barrier!CompleteIsOneInstant'
  <2> SUFFICES ASSUME NEW r \in ToolCalls, db'.bundle[r].st = "Complete"
               PROVE  <<db'.bundle[r].t, db'.bundle[r].f>> \in
                        IF hook[r] = [pc |-> "ran", told |-> "Complete"] THEN seen.before[r] ELSE seen.now
    BY DEF Barrier!CompleteIsOneInstant
  <2>1. CASE hook[r] = [pc |-> "ran", told |-> "Complete"]
    <3>1. db.req[r] \in Terminal
      BY <2>1 DEF BInv, Barrier!AckedIsDurable, Terminal
    <3>2. db'.bundle[r] = db.bundle[r]
      BY <3>1 DEF JournalGrows
    <3> QED BY <2>1, <3>2 DEF BInv, Barrier!CompleteIsOneInstant
  <2>2. CASE ~(hook[r] = [pc |-> "ran", told |-> "Complete"])
    BY <1>1, <2>2 DEF Recorded, Reached
  <2> QED BY <2>1, <2>2
<1> QED BY <1>1, <1>2, <1>3

\* A commit, and whatever the handler that made it does with itself.
LEMMA JournalMoves ==
  ASSUME BInv, JournalGrows, h' \in [Handlers -> HandlerStates],
         \A y \in Handlers : h'[y] = h[y] \/ (Sound(y)' /\ (lease' = y => h'[y].pc # "idle")),
         lease' = lease, bcount' \in BarrierCounts, bcount'.edit = bcount.edit,
         frame' \in [ToolCalls -> {"none", "durable", "gone"}],
         UNCHANGED <<wt, hook, mail, expired, seen>>
  PROVE  BInv'
<1>1. BTyped' /\ Fresh'
  BY DEF BInv, BTyped, Fresh, JournalGrows
<1>2. HandlersSound'
  <2> SUFFICES ASSUME NEW y \in Handlers, h'[y] = h[y]  PROVE Sound(y)'
    BY DEF HandlersSound
  <2>1. h[y] \in HandlerStates /\ db'.n = db.n + 1 /\ db.n \in Nat
    BY DEF BInv, BTyped, Journals, JournalGrows
  <2>2. h[y].n <= db.n => h[y].n <= db'.n /\ h[y].n # db'.n
    BY <2>1 DEF HandlerStates
  <2> QED BY <2>2 DEF BInv, HandlersSound, Sound, Reached, Building
<1>3. HandlersHold'
  BY DEF BInv, HandlersHold
<1> QED BY <1>1, <1>2, <1>3, JournalKeeps DEF BInv

LEMMA RecordPendingKeeps ==
  ASSUME BInv, NEW x \in Handlers, Barrier!RecordPending(x)
  PROVE  BInv'
<1>1. h[x].pc = "probe" /\ UNCHANGED <<wt, frame, mail, expired, seen>>
  BY DEF Barrier!RecordPending, Barrier!Others, Barrier!unseen
<1>2. bcount \in BarrierCounts /\ h[x] \in HandlerStates /\ h[x].r \in ToolCalls
  BY <1>1, Handled
<1>3. CASE /\ Barrier!Go(x, "view") /\ UNCHANGED <<hook, lease, bcount>>
           /\ db' = IF db.req[h[x].r] # "none" THEN db
                    ELSE [db EXCEPT !.n = @ + 1, !.req[h[x].r] = "Pending"]
  <2>1. PICK v \in HandlerStates : v = [h[x] EXCEPT !.pc = "view"]
    BY <1>2 DEF HandlerStates
  <2>2. h' = [h EXCEPT ![x] = v] /\ h'[x] = v /\ v.pc # "idle" /\ h' \in [Handlers -> HandlerStates]
        /\ \A y \in Handlers : y # x => h'[y] = h[y]
    BY <1>2, <1>3, <2>1 DEF Barrier!Go, BInv, BTyped, HandlerStates
  <2>3. Sound(x)'
    BY <1>1, <1>3, <2>1, <2>2 DEF BInv, BTyped, HandlersSound, Sound, HandlerStates, Building, Reached
  <2>4. CASE db' = db
    BY <1>1, <1>2, <1>3, <2>1, <2>2, <2>3, <2>4, HandlerGoes
  <2>5. CASE db.req[h[x].r] = "none" /\ db' = [db EXCEPT !.n = @ + 1, !.req[h[x].r] = "Pending"]
    <3>1. JournalGrows
      <4>1. PICK n \in Nat : n = db.n + 1
        BY DEF BInv, BTyped, Journals
      <4>2. PICK q \in [ToolCalls -> Terminal \cup {"none", "Pending"}] :
                q = [db.req EXCEPT ![h[x].r] = "Pending"]
        BY <1>2 DEF BInv, BTyped, Journals
      <4>3. db' = [db EXCEPT !.n = n, !.req = q]
        BY <2>5, <4>1, <4>2
      <4>4. /\ db' \in Journals /\ db'.n = n /\ db'.req = q /\ db'.bundle = db.bundle
        BY <4>3 DEF BInv, BTyped, Journals
      <4> QED BY <1>2, <2>5, <4>1, <4>2, <4>4
              DEF JournalGrows, BInv, BTyped, Journals, Recorded, Terminal, Barrier!Terminal
    <3>2. \A y \in Handlers : h'[y] = h[y] \/ (Sound(y)' /\ (lease' = y => h'[y].pc # "idle"))
      BY <2>1, <2>2, <2>3 DEF HandlerStates
    <3>3. frame' \in [ToolCalls -> {"none", "durable", "gone"}] /\ bcount' \in BarrierCounts
      BY <1>1, <1>2, <1>3 DEF BInv, BTyped
    <3> QED BY <1>1, <1>3, <2>2, <3>1, <3>2, <3>3, JournalMoves
  <2> QED BY <1>3, <2>4, <2>5
<1>4. CASE Barrier!Refuse(x) /\ UNCHANGED db /\ (UNCHANGED bcount \/ Barrier!Counted("fault"))
  BY <1>1, <1>2, <1>4, BarrierCounted, RefuseKeeps DEF BInv
<1> QED BY <1>3, <1>4 DEF Barrier!RecordPending

LEMMA ViewKeeps ==
  ASSUME BInv, NEW x \in Handlers, Barrier!View(x)
  PROVE  BInv'
<1>1. h[x].pc = "view" /\ bcount' = bcount /\ UNCHANGED <<wt, db, frame, mail, expired, seen>>
  BY DEF Barrier!View, Barrier!Others, Barrier!unseen
<1>0. h[x] \in HandlerStates /\ db \in Journals /\ bcount \in BarrierCounts /\ h[x].r \in ToolCalls
  BY <1>1, Handled
<1>2. CASE Barrier!ack(x)
  BY <1>1, <1>2, AckKeeps
<1>3. CASE /\ db.req[h[x].r] \notin Terminal /\ UNCHANGED <<hook, lease>>
           /\ h' = [h EXCEPT ![x].pc = "before", ![x].n = db.n, ![x].att = db.att]
  <2>1. PICK v \in HandlerStates : v = [h[x] EXCEPT !.pc = "before", !.n = db.n, !.att = db.att]
    BY <1>0 DEF HandlerStates, Journals
  <2>2. h' = [h EXCEPT ![x] = v]
    BY <1>0, <1>3, <2>1 DEF BInv, BTyped, HandlerStates
  <2>4. h'[x] = v /\ v.pc # "idle"
    BY <1>0, <2>1, <2>2 DEF BInv, BTyped, HandlerStates
  <2>3. Sound(x)'
    <3>1. /\ v.pc = "before" /\ v.n = db.n /\ v.att = db.att
          /\ v.f = h[x].f /\ v.b = h[x].b /\ v.r = h[x].r
      BY <1>0, <2>1 DEF HandlerStates
    <3>2. h[x].b = NoBundle /\ h[x].f <= bcount.edit + 1
      BY <1>1 DEF BInv, HandlersSound, Sound
    <3>4. db.n <= db.n
      BY <1>0 DEF Journals
    <3>3. NoBundle.st = "none"
      BY IdleIsSound
    <3> QED BY <1>0, <1>1, <1>3, <2>4, <3>1, <3>2, <3>3, <3>4 DEF Sound, Building
  <2> QED BY <1>0, <1>1, <1>3, <2>2, <2>3, <2>4, HandlerGoes
<1> QED BY <1>2, <1>3 DEF Barrier!View, Terminal

-----------------------------------------------------------------------------
(* The barrier: the capture and its verdict.                                  *)

LEMMA Staged ==
  ASSUME BInv, NEW x \in Handlers, NEW pc, Barrier!Stage(x, pc)
  PROVE  h[x].pc = pc /\ UNCHANGED <<wt, db, hook, frame, mail, expired, seen>>
BY DEF Barrier!Stage, Barrier!Others, Barrier!unseen

LEMMA FailsKeeps ==
  ASSUME BInv, NEW x \in Handlers, h[x].pc # "idle", Barrier!Fails(x),
         bcount' \in BarrierCounts, bcount'.edit = bcount.edit,
         UNCHANGED <<wt, db, hook, frame, mail, expired, seen>>
  PROVE  BInv'
<1>1. h[x] \in HandlerStates /\ h[x].r \in ToolCalls
  BY Handled
<1>2. PICK v \in HandlerStates : v = [h[x] EXCEPT !.pc = "settle", !.st = "Failed"]
  BY <1>1 DEF HandlerStates, Terminal, Barrier!Terminal
<1>3. /\ v.pc = "settle" /\ v.st = "Failed" /\ v.f = h[x].f /\ v.b = h[x].b /\ v.r = h[x].r
  BY <1>1, <1>2 DEF HandlerStates
<1>4. h' = [h EXCEPT ![x] = v] /\ h'[x] = v
  BY <1>1, <1>2 DEF Barrier!Fails, BInv, BTyped, HandlerStates
<1>5. /\ v.f <= bcount'.edit + 1 /\ (v.b.st = "Complete" => Reached(v.b)')
  BY <1>3 DEF BInv, HandlersSound, Sound, Reached
<1>6. Sound(x)'
  BY <1>1, <1>3, <1>4, <1>5 DEF Sound, Building, Terminal, Barrier!Terminal
<1>7. lease' \in {lease, "free", x}
  BY DEF Barrier!Fails
<1> QED BY <1>3, <1>4, <1>6, <1>7, HandlerGoes

LEMMA FaultKeeps ==
  ASSUME BInv, NEW x \in Handlers, h[x].pc # "idle", Barrier!Fault(x),
         UNCHANGED <<wt, db, hook, frame, mail, expired, seen>>
  PROVE  BInv'
<1>1. Barrier!Counted("fault") /\ Barrier!Fails(x) /\ BTyped
  BY DEF Barrier!Fault, BInv
<1>2. bcount' \in BarrierCounts /\ bcount'.edit = bcount.edit
  BY <1>1, BarrierCounted
<1> QED BY <1>1, <1>2, FailsKeeps

\* What a handler knows while it builds a recovery point.
LEMMA Builds ==
  ASSUME BInv, NEW x \in Handlers, h[x].pc \in Building
  PROVE  /\ h[x] \in HandlerStates /\ h[x].r \in ToolCalls /\ wt \in Worktrees
         /\ bcount \in BarrierCounts /\ bcount.edit \in Nat /\ db \in Journals
         /\ h[x].f <= bcount.edit + 1 /\ h[x].n <= db.n
         /\ h[x].b.st = "Complete" => Reached(h[x].b)
         /\ h[x].n = db.n => /\ db.req[h[x].r] \notin Terminal
                             /\ h[x].b = NoBundle \/ h[x].b.att = db.att
                             /\ h[x].att = db.att
<1>1. h[x].pc # "idle"
  BY DEF Building
<1>2. Sound(x)
  BY DEF BInv, HandlersSound
<1> QED BY <1>1, <1>2, Handled DEF Sound

LEMMA BuildingGoes ==
  ASSUME BInv, NEW x \in Handlers, h[x].pc \in Building,
         NEW v \in HandlerStates, h' = [h EXCEPT ![x] = v], v.pc \in Building,
         v.n = h[x].n, v.att = h[x].att, v.r = h[x].r, v.f <= bcount.edit + 1,
         v.b.st = "Complete" => Reached(v.b),
         v.b = NoBundle \/ v.b.att = v.att \/ (h[x].b # NoBundle /\ v.b.att = h[x].b.att),
         v.pc = "after" /\ ~v.om => v.listed = (v.f # 0),
         v.pc = "verify" /\ v.same /\ ~v.om /\ v.f \in {0, wt.f} => <<v.t1, v.f>> \in seen.now,
         v.pc = "commit" => v.st \in Terminal,
         lease' = lease, bcount' \in BarrierCounts, bcount'.edit = bcount.edit,
         UNCHANGED <<wt, db, hook, frame, mail, expired, seen>>
  PROVE  BInv'
<1>1. h'[x] = v /\ v.pc # "idle"
  BY DEF BInv, BTyped, Building
<1>2. Sound(x)'
  BY <1>1, Builds DEF Sound, Building, Reached
<1> QED BY <1>1, <1>2, HandlerGoes

LEMMA ProbeBeforeKeeps ==
  ASSUME BInv, NEW x \in Handlers, Barrier!ProbeBefore(x)
  PROVE  BInv'
<1>1. h[x].pc = "before" /\ UNCHANGED <<wt, db, hook, frame, mail, expired, seen>>
  BY Staged DEF Barrier!ProbeBefore
<1>2. h[x] \in HandlerStates /\ wt \in Worktrees /\ bcount \in BarrierCounts
      /\ h[x].f <= bcount.edit + 1 /\ (h[x].b.st = "Complete" => Reached(h[x].b))
  BY <1>1, Builds DEF Building
<1>3. CASE h' = [h EXCEPT ![x].pc = "commit", ![x].st = "TimedOut"] /\ UNCHANGED <<lease, bcount>>
  <2>1. PICK v \in HandlerStates : v = [h[x] EXCEPT !.pc = "commit", !.st = "TimedOut"]
    BY <1>2 DEF HandlerStates, Terminal, Barrier!Terminal
  <2>2. /\ v.pc = "commit" /\ v.st = "TimedOut" /\ v.f = h[x].f /\ v.b = h[x].b /\ v.r = h[x].r
        /\ v.n = h[x].n /\ v.att = h[x].att
    BY <1>2, <2>1 DEF HandlerStates
  <2>3. h' = [h EXCEPT ![x] = v]
    BY <1>2, <1>3, <2>1 DEF BInv, BTyped, HandlerStates
  <2>4. h[x].pc \in Building /\ v.pc \in Building /\ v.st \in Terminal
    BY <1>1, <2>2 DEF Building, Terminal, Barrier!Terminal
  <2> QED BY <1>1, <1>2, <1>3, <2>2, <2>3, <2>4, BuildingGoes
<1>4. CASE /\ h' = [h EXCEPT ![x].pc = "read", ![x].t1 = wt.t, ![x].listed = wt.f # 0]
           /\ UNCHANGED <<lease, bcount>>
  <2>1. PICK l \in BOOLEAN : l = (wt.f # 0)
    OBVIOUS
  <2>2. PICK v \in HandlerStates : v = [h[x] EXCEPT !.pc = "read", !.t1 = wt.t, !.listed = l]
    BY <1>2 DEF HandlerStates, Worktrees
  <2>3. /\ v.pc = "read" /\ v.f = h[x].f /\ v.b = h[x].b /\ v.r = h[x].r
        /\ v.n = h[x].n /\ v.att = h[x].att
    BY <1>2, <2>2 DEF HandlerStates
  <2>4. h' = [h EXCEPT ![x] = v]
    BY <1>2, <1>4, <2>1, <2>2 DEF BInv, BTyped, HandlerStates
  <2>5. h[x].pc \in Building /\ v.pc \in Building
    BY <1>1, <2>3 DEF Building
  <2> QED BY <1>1, <1>2, <1>4, <2>3, <2>4, <2>5, BuildingGoes
<1>5. CASE Barrier!Fault(x)
  BY <1>1, <1>5, FaultKeeps
<1> QED BY <1>3, <1>4, <1>5 DEF Barrier!ProbeBefore

LEMMA CaptureUntrackedKeeps ==
  ASSUME BInv, NEW x \in Handlers, Barrier!capture_untracked_items(x)
  PROVE  BInv'
<1>1. h[x].pc = "read" /\ UNCHANGED <<wt, db, hook, frame, mail, expired, seen, lease, bcount>>
  BY Staged DEF Barrier!capture_untracked_items
<1>2. h[x] \in HandlerStates /\ wt \in Worktrees /\ bcount \in BarrierCounts /\ bcount.edit \in Nat
      /\ h[x].f <= bcount.edit + 1 /\ (h[x].b.st = "Complete" => Reached(h[x].b))
  BY <1>1, Builds DEF Building
<1>3. PICK skip \in BOOLEAN :
        /\ wt.f = 0 => skip
        /\ h' = [h EXCEPT ![x].pc = "after",
                  ![x].f = IF h[x].listed /\ ~skip THEN wt.f ELSE 0,
                  ![x].om = h[x].listed /\ skip]
  <2>1. PICK om \in BOOLEAN :
          h' = [h EXCEPT ![x].pc = "after",
                  ![x].f = IF h[x].listed /\ ~(om \/ wt.f = 0 \/ h[x].r \in expired) THEN wt.f ELSE 0,
                  ![x].om = h[x].listed /\ (om \/ wt.f = 0 \/ h[x].r \in expired)]
    BY DEF Barrier!capture_untracked_items
  <2>2. PICK skip \in BOOLEAN : skip = (om \/ wt.f = 0 \/ h[x].r \in expired)
    OBVIOUS
  <2> QED BY <2>1, <2>2
<1>4. PICK f \in Nat : f = IF h[x].listed /\ ~skip THEN wt.f ELSE 0
  BY <1>2 DEF Worktrees
<1>5. PICK o \in BOOLEAN : o = (h[x].listed /\ skip)
  OBVIOUS
<1>6. PICK v \in HandlerStates : v = [h[x] EXCEPT !.pc = "after", !.f = f, !.om = o]
  BY <1>2 DEF HandlerStates
<1>7. /\ v.pc = "after" /\ v.f = f /\ v.om = o /\ v.listed = h[x].listed /\ v.b = h[x].b
      /\ v.r = h[x].r /\ v.n = h[x].n /\ v.att = h[x].att
  BY <1>2, <1>6 DEF HandlerStates
<1>12. h' = [h EXCEPT ![x].pc = "after", ![x].f = f, ![x].om = o]
  BY <1>3, <1>4, <1>5
<1>8. h' = [h EXCEPT ![x] = v]
  BY <1>2, <1>6, <1>12 DEF BInv, BTyped, HandlerStates
<1>9. wt.f <= bcount.edit + 1 /\ h[x].listed \in BOOLEAN
  BY <1>2 DEF BInv, Fresh, HandlerStates
<1>10. f <= bcount.edit + 1 /\ (~o => h[x].listed = (f # 0))
  BY <1>2, <1>3, <1>4, <1>5, <1>9
<1>11. h[x].pc \in Building /\ v.pc \in Building
  BY <1>1, <1>7 DEF Building
<1> QED BY <1>1, <1>2, <1>7, <1>8, <1>10, <1>11, BuildingGoes

LEMMA ProbeAfterKeeps ==
  ASSUME BInv, NEW x \in Handlers, Barrier!ProbeAfter(x)
  PROVE  BInv'
<1>1. h[x].pc = "after" /\ UNCHANGED <<wt, db, hook, frame, mail, expired, seen>>
  BY Staged DEF Barrier!ProbeAfter
<1>2. h[x] \in HandlerStates /\ wt \in Worktrees /\ bcount \in BarrierCounts
      /\ h[x].f <= bcount.edit + 1 /\ (h[x].b.st = "Complete" => Reached(h[x].b))
  BY <1>1, Builds DEF Building
<1>3. ~h[x].om => h[x].listed = (h[x].f # 0)
  BY <1>1 DEF BInv, HandlersSound, Sound
<1>4. <<wt.t, wt.f>> \in seen.now
  BY DEF BInv, Fresh
<1>5. ASSUME NEW s \in BOOLEAN, s => h[x].t1 = wt.t /\ h[x].listed = (wt.f # 0),
             h' = [h EXCEPT ![x].pc = "verify", ![x].same = s], lease' = lease,
             bcount' \in BarrierCounts, bcount'.edit = bcount.edit
      PROVE  BInv'
  <2>1. PICK v \in HandlerStates : v = [h[x] EXCEPT !.pc = "verify", !.same = s]
    BY <1>2 DEF HandlerStates
  <2>2. /\ v.pc = "verify" /\ v.f = h[x].f /\ v.om = h[x].om /\ v.same = s /\ v.b = h[x].b
        /\ v.t1 = h[x].t1 /\ v.r = h[x].r /\ v.n = h[x].n /\ v.att = h[x].att
    BY <1>2, <2>1 DEF HandlerStates
  <2>3. h' = [h EXCEPT ![x] = v]
    BY <1>2, <1>5, <2>1 DEF BInv, BTyped, HandlerStates
  <2>4. v.same /\ ~v.om /\ v.f \in {0, wt.f} => <<v.t1, v.f>> \in seen.now
    BY <1>3, <1>4, <1>5, <2>2
  <2>5. h[x].pc \in Building /\ v.pc \in Building
    BY <1>1, <2>2 DEF Building
  <2> QED BY <1>1, <1>2, <1>5, <2>2, <2>3, <2>4, <2>5, BuildingGoes
<1>6. CASE /\ h' = [h EXCEPT ![x].pc = "verify",
                             ![x].same = h[x].r \notin expired /\ Barrier!fingerprint_equal(x)]
           /\ UNCHANGED <<lease, bcount>>
  <2>1. PICK s \in BOOLEAN : s = (h[x].r \notin expired /\ Barrier!fingerprint_equal(x))
    OBVIOUS
  <2>2. s => h[x].t1 = wt.t /\ h[x].listed = (wt.f # 0)
    BY <2>1 DEF Barrier!fingerprint_equal
  <2> QED BY <1>2, <1>5, <1>6, <2>1, <2>2
<1>7. CASE /\ Barrier!Counted("fault") /\ UNCHANGED lease
           /\ h' = [h EXCEPT ![x].pc = "verify", ![x].same = FALSE]
  BY <1>5, <1>7, BarrierCounted DEF BInv
<1>8. CASE Barrier!Fault(x)
  BY <1>1, <1>8, FaultKeeps
<1> QED BY <1>6, <1>7, <1>8 DEF Barrier!ProbeAfter

LEMMA BundleKeeps ==
  ASSUME BInv, NEW x \in Handlers, Barrier!capture_recovery_bundle(x)
  PROVE  BInv'
<1>1. h[x].pc = "verify" /\ UNCHANGED <<wt, db, hook, frame, mail, expired, seen, lease, bcount>>
  BY Staged DEF Barrier!capture_recovery_bundle
<1>2. h[x] \in HandlerStates /\ wt \in Worktrees /\ bcount \in BarrierCounts
      /\ h[x].f <= bcount.edit + 1
  BY <1>1, Builds DEF Building
<1>3. PICK late, same, content, whole \in BOOLEAN :
        /\ same = (h[x].same /\ Barrier!verify_untracked_items(x) /\ ~late)
        /\ whole = (same /\ ~h[x].om)
        /\ h' = [h EXCEPT ![x].pc = "status",
                ![x].b = IF ~content /\ whole THEN NoBundle
                         ELSE [t |-> h[x].t1, f |-> h[x].f, att |-> h[x].att,
                               st |-> IF whole THEN "Complete" ELSE "Partial"]]
  <2>1. PICK late \in BOOLEAN : (h[x].r \in expired) <=> late
    BY Zenon
  <2>2. PICK same \in BOOLEAN : same = (h[x].same /\ Barrier!verify_untracked_items(x) /\ ~late)
    OBVIOUS
  <2>3. PICK content \in BOOLEAN : content = (h[x].t1 # 0 \/ h[x].f # 0)
    BY <1>2 DEF HandlerStates
  <2>4. PICK whole \in BOOLEAN : whole = (same /\ ~h[x].om)
    OBVIOUS
  <2>5. h' = [h EXCEPT ![x].pc = "status",
                ![x].b = IF ~content /\ whole THEN NoBundle
                         ELSE [t |-> h[x].t1, f |-> h[x].f, att |-> h[x].att,
                               st |-> IF whole THEN "Complete" ELSE "Partial"]]
    BY <2>1, <2>2, <2>3, <2>4 DEF Barrier!capture_recovery_bundle, NoBundle
  <2> QED BY <2>2, <2>4, <2>5
<1>4. whole => <<h[x].t1, h[x].f>> \in seen.now
  <2>1. h[x].same /\ ~h[x].om /\ h[x].f \in {0, wt.f} => <<h[x].t1, h[x].f>> \in seen.now
    BY <1>1 DEF BInv, HandlersSound, Sound
  <2> QED BY <1>3, <2>1 DEF Barrier!verify_untracked_items
<1>5. PICK k \in {"Complete", "Partial"} : k = IF whole THEN "Complete" ELSE "Partial"
  OBVIOUS
<1>6. PICK w \in Bundles : w = [t |-> h[x].t1, f |-> h[x].f, att |-> h[x].att, st |-> k]
  BY <1>2 DEF Bundles, HandlerStates
<1>7. w.t = h[x].t1 /\ w.f = h[x].f /\ w.att = h[x].att /\ w.st = k
  BY <1>6
<1>8. PICK b \in Bundles : b = IF ~content /\ whole THEN NoBundle ELSE w
  BY DEF Bundles
<1>9. b = NoBundle \/ b = w
  BY <1>8
<1>10. b.st = "Complete" => Reached(b)
  BY <1>4, <1>5, <1>7, <1>9, IdleIsSound DEF Reached
<1>11. PICK v \in HandlerStates : v = [h[x] EXCEPT !.pc = "status", !.b = b]
  BY <1>2 DEF HandlerStates
<1>12. /\ v.pc = "status" /\ v.f = h[x].f /\ v.b = b /\ v.r = h[x].r
       /\ v.n = h[x].n /\ v.att = h[x].att
  BY <1>2, <1>11 DEF HandlerStates
<1>13. h' = [h EXCEPT ![x].pc = "status", ![x].b = b]
  BY <1>3, <1>5, <1>6, <1>8
<1>14. h' = [h EXCEPT ![x] = v]
  BY <1>2, <1>11, <1>13 DEF BInv, BTyped, HandlerStates
<1>15. h[x].pc \in Building /\ v.pc \in Building
  BY <1>1, <1>12 DEF Building
<1>16. v.b = NoBundle \/ v.b.att = v.att
  BY <1>7, <1>9, <1>12
<1> QED BY <1>1, <1>2, <1>10, <1>12, <1>14, <1>15, <1>16, BuildingGoes

LEMMA ConcludeKeeps ==
  ASSUME BInv, NEW x \in Handlers, Barrier!Conclude(x)
  PROVE  BInv'
<1>1. h[x].pc = "status" /\ lease' = lease /\ UNCHANGED <<wt, db, hook, frame, mail, expired, seen>>
  BY Staged DEF Barrier!Conclude
<1>2. h[x] \in HandlerStates /\ bcount \in BarrierCounts /\ h[x].f <= bcount.edit + 1
      /\ (h[x].b.st = "Complete" => Reached(h[x].b)) /\ h[x].b \in Bundles
  BY <1>1, Builds DEF Building, HandlerStates
<1>3. PICK st \in Terminal : st = Barrier!recovery_terminal_status(x)
  BY <1>2 DEF Barrier!recovery_terminal_status, Terminal, Barrier!Terminal, Bundles, NoBundle
<1>4. ASSUME NEW s \in Terminal, NEW b \in Bundles,
             b = h[x].b \/ (h[x].b # NoBundle /\ b.att = h[x].b.att /\ b.st # "Complete"),
             h' = [h EXCEPT ![x].pc = "commit", ![x].st = s, ![x].b = b],
             bcount' \in BarrierCounts, bcount'.edit = bcount.edit
      PROVE  BInv'
  <2>1. PICK v \in HandlerStates : v = [h[x] EXCEPT !.pc = "commit", !.st = s, !.b = b]
    BY <1>2 DEF HandlerStates
  <2>2. /\ v.pc = "commit" /\ v.f = h[x].f /\ v.b = b /\ v.r = h[x].r /\ v.st = s
        /\ v.n = h[x].n /\ v.att = h[x].att
    BY <1>2, <2>1 DEF HandlerStates
  <2>3. h' = [h EXCEPT ![x] = v]
    BY <1>2, <1>4, <2>1 DEF BInv, BTyped, HandlerStates
  <2>4. h[x].pc \in Building /\ v.pc \in Building
    BY <1>1, <2>2 DEF Building
  <2>5. v.b.st = "Complete" => Reached(v.b)
    BY <1>2, <1>4, <2>2
  <2>6. v.b = NoBundle \/ v.b.att = v.att \/ (h[x].b # NoBundle /\ v.b.att = h[x].b.att)
    BY <1>4, <2>2
  <2> QED BY <1>1, <1>2, <1>4, <2>2, <2>3, <2>4, <2>5, <2>6, BuildingGoes
<1>5. CASE h' = [h EXCEPT ![x].pc = "commit", ![x].st = Barrier!recovery_terminal_status(x)]
           /\ UNCHANGED bcount
  <2>1. h' = [h EXCEPT ![x].pc = "commit", ![x].st = st]
    BY <1>3, <1>5
  <2>2. h' = [h EXCEPT ![x].pc = "commit", ![x].st = st, ![x].b = h[x].b]
    BY <1>2, <2>1 DEF BInv, BTyped, HandlerStates
  <2> QED BY <1>2, <1>4, <1>5, <2>2
<1>6. CASE /\ Barrier!Counted("fault")
           /\ h' = [h EXCEPT ![x].pc = "commit",
                   ![x].st = Barrier!status_after_root_change(Barrier!recovery_terminal_status(x)),
                   ![x].b = IF @ = NoBundle THEN @ ELSE [@ EXCEPT !.st = "Partial"]]
  <2>1. PICK s \in Terminal : s = Barrier!status_after_root_change(st)
    BY DEF Barrier!status_after_root_change, Terminal, Barrier!Terminal
  <2>2. PICK b \in Bundles : b = IF h[x].b = NoBundle THEN h[x].b ELSE [h[x].b EXCEPT !.st = "Partial"]
    BY <1>2 DEF Bundles
  <2>3. b = h[x].b \/ (h[x].b # NoBundle /\ b.att = h[x].b.att /\ b.st # "Complete")
    BY <1>2, <2>2 DEF Bundles
  <2>4. h' = [h EXCEPT ![x].pc = "commit", ![x].st = s,
                ![x].b = IF @ = NoBundle THEN @ ELSE [@ EXCEPT !.st = "Partial"]]
    BY <1>3, <1>6, <2>1
  <2>5. h' = [h EXCEPT ![x].pc = "commit", ![x].st = s, ![x].b = b]
    BY <2>2, <2>4 DEF BInv, BTyped, HandlerStates
  <2> QED BY <1>4, <1>6, <2>3, <2>5, BarrierCounted DEF BInv
<1> QED BY <1>5, <1>6 DEF Barrier!Conclude, NoBundle

-----------------------------------------------------------------------------
(* The barrier: the terminal revision.                                        *)

\* One command on the frontier it was built on.
LEMMA RecordKeeps ==
  ASSUME BInv, NEW x \in Handlers, h[x].pc \in {"commit", "record"}, h[x].n = db.n,
         Barrier!record_request(x), Barrier!Go(x, "ack"),
         UNCHANGED <<wt, hook, frame, mail, expired, seen, lease, bcount>>
  PROVE  BInv'
<1>1. h[x].pc # "idle" /\ h[x] \in HandlerStates /\ db \in Journals /\ bcount \in BarrierCounts
      /\ bcount.edit \in Nat
  BY Handled
<1>2. Sound(x)
  BY DEF BInv, HandlersSound
<1>3. PICK r \in ToolCalls : r = h[x].r
  BY <1>1, Handled
<1>4. PICK st \in Terminal : st = h[x].st
  BY <1>2 DEF Sound
<1>5. PICK b \in Bundles : b = h[x].b
  BY <1>1 DEF HandlerStates
<1>6. db.req[r] \notin Terminal /\ (b.st = "Complete" => Reached(b))
  BY <1>2, <1>3, <1>5 DEF Sound, Building
<1>7. PICK n \in Nat : n = db.n + 1
  BY <1>1 DEF Journals
<1>8. PICK q \in [ToolCalls -> Terminal \cup {"none", "Pending"}] : q = [db.req EXCEPT ![r] = st]
  BY <1>1 DEF Journals
<1>9. PICK w \in [ToolCalls -> Bundles] : w = [db.bundle EXCEPT ![r] = b]
  BY <1>1 DEF Journals
<1>10. db' = [db EXCEPT !.n = n, !.req = q, !.bundle = w]
  BY <1>1, <1>3, <1>4, <1>5, <1>7, <1>8, <1>9 DEF Barrier!record_request, Journals
<1>11. db' \in Journals /\ db'.n = n /\ db'.req = q /\ db'.bundle = w
  BY <1>1, <1>10 DEF Journals
<1>12. /\ q[r] = st /\ w[r] = b
       /\ \A p \in ToolCalls : p # r => q[p] = db.req[p] /\ w[p] = db.bundle[p]
  BY <1>1, <1>8, <1>9 DEF Journals
<1>13. JournalGrows
  BY <1>6, <1>7, <1>11, <1>12 DEF JournalGrows, Reached
<1>14. PICK v \in HandlerStates : v = [h[x] EXCEPT !.pc = "ack"]
  BY <1>1 DEF HandlerStates
<1>15. v.pc = "ack" /\ v.f = h[x].f /\ v.b = h[x].b /\ v.r = h[x].r
  BY <1>1, <1>14 DEF HandlerStates
<1>16. h' = [h EXCEPT ![x] = v]
  BY <1>1, <1>14 DEF Barrier!Go, BInv, BTyped, HandlerStates
<1>17. /\ h' \in [Handlers -> HandlerStates] /\ h'[x] = v
       /\ \A y \in Handlers : y # x => h'[y] = h[y]
  BY <1>16 DEF BInv, BTyped
<1>18. Sound(x)'
  BY <1>2, <1>3, <1>15, <1>17 DEF Sound, Building, Reached
<1>19. frame' \in [ToolCalls -> {"none", "durable", "gone"}]
  BY DEF BInv, BTyped
<1> QED BY <1>1, <1>13, <1>15, <1>17, <1>18, <1>19, JournalMoves

LEMMA CommitKeeps ==
  ASSUME BInv, NEW x \in Handlers, Barrier!CommitTerminal(x)
  PROVE  BInv'
<1>1. h[x].pc = "commit" /\ UNCHANGED <<wt, hook, frame, mail, expired, seen, bcount>>
  BY DEF Barrier!CommitTerminal, Barrier!Others, Barrier!unseen
<1>2. CASE h[x].n = db.n /\ Barrier!record_request(x) /\ Barrier!Go(x, "ack") /\ UNCHANGED lease
  BY <1>1, <1>2, RecordKeeps
<1>3. CASE Barrier!Fails(x) /\ UNCHANGED db
  BY <1>1, <1>3, FailsKeeps DEF BInv, BTyped
<1> QED BY <1>2, <1>3 DEF Barrier!CommitTerminal, Barrier!commit_if_frontier

LEMMA CommitFailedKeeps ==
  ASSUME BInv, NEW x \in Handlers, Barrier!commit_failed(x)
  PROVE  BInv'
<1>1. h[x].pc = "settle" /\ bcount' = bcount /\ UNCHANGED <<wt, db, frame, mail, expired, seen>>
  BY DEF Barrier!commit_failed, Barrier!Others, Barrier!unseen
<1>2. CASE Barrier!ack(x)
  BY <1>1, <1>2, AckKeeps
<1>3. CASE /\ db.req[h[x].r] \notin Terminal /\ UNCHANGED <<hook, lease>>
           /\ h' = [h EXCEPT ![x].pc = "record", ![x].n = db.n, ![x].b = NoBundle]
  <2>1. h[x] \in HandlerStates /\ db \in Journals /\ h[x].r \in ToolCalls /\ bcount \in BarrierCounts
    BY <1>1, Handled
  <2>2. PICK v \in HandlerStates : v = [h[x] EXCEPT !.pc = "record", !.n = db.n, !.b = NoBundle]
    BY <2>1 DEF HandlerStates, Journals, Bundles
  <2>3. /\ v.pc = "record" /\ v.n = db.n /\ v.b = NoBundle /\ v.f = h[x].f /\ v.st = h[x].st
        /\ v.r = h[x].r
    BY <2>1, <2>2 DEF HandlerStates
  <2>4. h' = [h EXCEPT ![x] = v] /\ h'[x] = v
    BY <1>3, <2>1, <2>2 DEF BInv, BTyped, HandlerStates
  <2>5. h[x].f <= bcount.edit + 1 /\ h[x].st \in Terminal
    BY <1>1 DEF BInv, HandlersSound, Sound
  <2>6. db.n <= db.n
    BY <2>1 DEF Journals
  <2>7. Sound(x)'
    BY <1>1, <1>3, <2>1, <2>3, <2>4, <2>5, <2>6, IdleIsSound DEF Sound, Building
  <2> QED BY <1>1, <1>3, <2>1, <2>3, <2>4, <2>7, HandlerGoes
<1> QED BY <1>2, <1>3 DEF Barrier!commit_failed, Terminal, NoBundle

LEMMA CommitSettledKeeps ==
  ASSUME BInv, NEW x \in Handlers, Barrier!commit_settled(x)
  PROVE  BInv'
<1>1. h[x].pc = "record" /\ UNCHANGED <<wt, frame, mail, expired, seen, bcount>>
  BY DEF Barrier!commit_settled, Barrier!Others
<1>2. CASE /\ h[x].n = db.n /\ Barrier!record_request(x) /\ Barrier!Go(x, "ack")
           /\ UNCHANGED <<hook, lease>>
  BY <1>1, <1>2, RecordKeeps
<1>3. CASE Barrier!Refuse(x) /\ UNCHANGED db
  BY <1>1, <1>3, RefuseKeeps DEF BInv, BTyped
<1> QED BY <1>2, <1>3 DEF Barrier!commit_settled

LEMMA HandleKeeps ==
  ASSUME BInv, NEW x \in Handlers, Barrier!Handle(x)
  PROVE  BInv'
BY ReceiveKeeps, ReplyKeeps, AdmitKeeps, RecordPendingKeeps, ViewKeeps, ProbeBeforeKeeps,
   CaptureUntrackedKeeps, ProbeAfterKeeps, BundleKeeps, ConcludeKeeps, CommitKeeps,
   CommitFailedKeeps, CommitSettledKeeps DEF Barrier!Handle

-----------------------------------------------------------------------------
(* The barrier: the hook, the worktree and the journal around it.             *)

LEMMA HookMoves ==
  ASSUME BInv, NEW r \in ToolCalls, NEW k \in Hooks, hook' = [hook EXCEPT ![r] = k],
         k.pc # "ran", k.told \in {hook[r].told, "gap"},
         frame' \in [ToolCalls -> {"none", "durable", "gone"}],
         mail' \subseteq [r : ToolCalls, live : BOOLEAN],
         UNCHANGED <<wt, db, expired, h, lease, bcount, seen>>
  PROVE  BInv'
<1>1. /\ hook' \in [ToolCalls -> Hooks] /\ hook'[r] = k
      /\ \A q \in ToolCalls : q # r => hook'[q] = hook[q]
  BY DEF BInv, BTyped
<1>2. BTyped' /\ Fresh' /\ Recorded'
  BY <1>1 DEF BInv, BTyped, Fresh, Recorded, Reached
<1>3. HandlersSound' /\ HandlersHold'
  BY DEF BInv, HandlersSound, HandlersHold, Sound, Reached
<1>4. Barrier!AckedIsDurable'
  BY <1>1 DEF BInv, Barrier!AckedIsDurable
<1>5. Barrier!CompleteIsOneInstant'
  BY <1>1 DEF BInv, Recorded, Reached, Barrier!CompleteIsOneInstant
<1> QED BY <1>2, <1>3, <1>4, <1>5 DEF BInv

LEMMA PreflightKeeps ==
  ASSUME BInv, NEW r \in ToolCalls, Barrier!recovery_preflight(r)
  PROVE  BInv'
<1>1. hook[r] \in Hooks
  BY DEF BInv, BTyped
<1>2. PICK k \in Hooks : k = [hook[r] EXCEPT !.pc = "captured"]
  BY <1>1 DEF Hooks
<1>3. k.pc = "captured" /\ k.told = hook[r].told
  BY <1>1, <1>2 DEF Hooks
<1>4. hook' = [hook EXCEPT ![r] = k]
  BY <1>1, <1>2 DEF Barrier!recovery_preflight, BInv, BTyped, Hooks
<1>5. /\ frame' \in [ToolCalls -> {"none", "durable", "gone"}]
      /\ mail' \subseteq [r : ToolCalls, live : BOOLEAN]
      /\ UNCHANGED <<wt, db, expired, h, lease, bcount, seen>>
  BY DEF Barrier!recovery_preflight, Barrier!unseen, BInv, BTyped
<1> QED BY <1>3, <1>4, <1>5, HookMoves

LEMMA GapKeeps ==
  ASSUME BInv, NEW r \in ToolCalls, hook' = [hook EXCEPT ![r] = Barrier!Gap],
         UNCHANGED <<wt, db, frame, mail, expired, h, lease, bcount, seen>>
  PROVE  BInv'
<1>3. PICK k \in Hooks : k = [pc |-> "done", told |-> "gap"]
  BY DEF Hooks
<1>1. k = Barrier!Gap /\ k.pc # "ran" /\ k.told = "gap"
  BY <1>3 DEF Barrier!Gap
<1>2. /\ frame' \in [ToolCalls -> {"none", "durable", "gone"}]
      /\ mail' \subseteq [r : ToolCalls, live : BOOLEAN]
  BY DEF BInv, BTyped
<1> QED BY <1>1, <1>2, HookMoves

LEMMA RequestKeeps ==
  ASSUME BInv, NEW r \in ToolCalls, Barrier!request_recovery_barrier_sync(r)
  PROVE  BInv'
<1>1. UNCHANGED <<wt, db, frame, expired, h, lease, bcount, seen>>
  BY DEF Barrier!request_recovery_barrier_sync, Barrier!unseen
<1>2. CASE /\ hook' = [hook EXCEPT ![r].pc = "waiting"]
           /\ mail' = mail \cup {[r |-> r, live |-> TRUE]}
  <2>1. hook[r] \in Hooks
    BY DEF BInv, BTyped
  <2>2. PICK k \in Hooks : k = [hook[r] EXCEPT !.pc = "waiting"]
    BY <2>1 DEF Hooks
  <2>3. k.pc = "waiting" /\ k.told = hook[r].told
    BY <2>1, <2>2 DEF Hooks
  <2>4. hook' = [hook EXCEPT ![r] = k]
    BY <1>2, <2>1, <2>2 DEF BInv, BTyped, Hooks
  <2>5. PICK m \in [r : ToolCalls, live : BOOLEAN] : m = [r |-> r, live |-> TRUE]
    OBVIOUS
  <2>6. /\ mail' \subseteq [r : ToolCalls, live : BOOLEAN]
        /\ frame' \in [ToolCalls -> {"none", "durable", "gone"}]
    BY <1>1, <1>2, <2>5 DEF BInv, BTyped
  <2> QED BY <1>1, <2>3, <2>4, <2>6, HookMoves
<1>3. CASE hook' = [hook EXCEPT ![r] = Barrier!Gap] /\ UNCHANGED mail
  BY <1>1, <1>3, GapKeeps
<1> QED BY <1>2, <1>3 DEF Barrier!request_recovery_barrier_sync

LEMMA GivesUpKeeps ==
  ASSUME BInv, NEW r \in ToolCalls, Barrier!HookGivesUp(r)
  PROVE  BInv'
BY GapKeeps DEF Barrier!HookGivesUp, Barrier!unseen

\* The content is new or the file is the one there was: no capture is deceived.
LEMMA WorktreeMoves ==
  ASSUME BInv, NEW t \in Nat, NEW f \in Nat, wt' = [t |-> t, f |-> f],
         bcount' \in BarrierCounts,
         \/ f \in {0, wt.f} /\ bcount'.edit \in {bcount.edit, bcount.edit + 1}
         \/ f = bcount.edit + 2 /\ bcount'.edit = bcount.edit + 1,
         seen'.now = seen.now \cup {<<t, f>>}, UNCHANGED <<db, h, lease>>
  PROVE  Fresh' /\ HandlersSound' /\ HandlersHold' /\ Recorded'
<1>1. wt'.t = t /\ wt'.f = f /\ bcount.edit \in Nat /\ bcount'.edit \in Nat /\ wt.f \in Nat
      /\ bcount.edit <= bcount'.edit
  BY DEF BInv, BTyped, BarrierCounts, Worktrees
<1>2. Fresh'
  BY <1>1 DEF BInv, Fresh
<1>3. HandlersHold' /\ Recorded'
  BY DEF BInv, HandlersHold, Recorded, Reached
<1>4. ASSUME NEW x \in Handlers  PROVE Sound(x)'
  <2>1. Sound(x) /\ h[x] \in HandlerStates
    BY DEF BInv, BTyped, HandlersSound
  <2>2. h[x].f <= bcount.edit + 1 /\ h[x].f \in Nat
    BY <2>1 DEF Sound, HandlerStates
  <2>3. h[x].f <= bcount'.edit + 1
    BY <1>1, <2>2
  <2>4. h[x].f \in {0, wt'.f} => h[x].f \in {0, wt.f}
    BY <1>1, <2>2
  <2> QED BY <2>1, <2>3, <2>4 DEF Sound, Reached
<1> QED BY <1>2, <1>3, <1>4 DEF HandlersSound

LEMMA BecomesKeeps ==
  ASSUME BInv, NEW t \in Nat, NEW f \in Nat, Barrier!Becomes(t, f), bcount' \in BarrierCounts,
         bcount'.edit = bcount.edit + 1, f = wt.f \/ f = bcount.edit + 2,
         UNCHANGED <<db, hook, frame, mail, expired, h, lease>>
  PROVE  BInv'
<1>0. seen.now \in SUBSET Contents /\ <<t, f>> \in Contents
  BY DEF BInv, BTyped, Contents
<1>1. PICK new \in SUBSET Contents : new = seen.now \cup {<<t, f>>}
  BY <1>0
<1>2. seen' = [seen EXCEPT !.now = new] /\ wt' = [t |-> t, f |-> f]
  BY <1>1 DEF Barrier!Becomes
<1>3. /\ seen' \in [now : SUBSET Contents, before : [ToolCalls -> SUBSET Contents]]
      /\ seen'.now = new /\ seen'.before = seen.before /\ seen.now \subseteq new
  BY <1>1, <1>2 DEF BInv, BTyped
<1>4. BTyped'
  BY <1>2, <1>3 DEF BInv, BTyped, Worktrees
<1>5. Barrier!AckedIsDurable' /\ Barrier!CompleteIsOneInstant'
  BY <1>3 DEF BInv, Barrier!AckedIsDurable, Barrier!CompleteIsOneInstant
<1>6. Fresh' /\ HandlersSound' /\ HandlersHold' /\ Recorded'
  BY <1>1, <1>2, <1>3, WorktreeMoves
<1> QED BY <1>4, <1>5, <1>6 DEF BInv

LEMMA BarrierEditKeeps ==
  ASSUME BInv, Barrier!Edit
  PROVE  BInv'
<1>1. bcount' \in BarrierCounts /\ bcount'.edit = bcount.edit + 1
  BY BarrierCounted DEF BInv, Barrier!Edit
<1>2. wt \in Worktrees /\ bcount.edit \in Nat
  BY DEF BInv, BTyped, BarrierCounts
<1>3. PICK z \in Nat : z = bcount.edit + 2
  BY <1>2
<1>4. CASE \E t \in {1, 2} \ {wt.t} : Barrier!Becomes(t, wt.f)
  <2>1. PICK t \in Nat : Barrier!Becomes(t, wt.f)
    BY <1>4
  <2> QED BY <1>1, <1>2, <2>1, BecomesKeeps DEF Barrier!Edit, Worktrees
<1>5. CASE Barrier!Becomes(wt.t, bcount.edit + 2)
  BY <1>1, <1>2, <1>3, <1>5, BecomesKeeps DEF Barrier!Edit, Worktrees
<1> QED BY <1>4, <1>5 DEF Barrier!Edit

LEMMA RunCommandKeeps ==
  ASSUME BInv, NEW r \in ToolCalls, Barrier!RunCommand(r)
  PROVE  BInv'
<1>1. wt \in Worktrees /\ hook[r] \in Hooks /\ bcount \in BarrierCounts /\ bcount.edit \in Nat
  BY DEF BInv, BTyped, BarrierCounts
<1>2. PICK t \in {0, wt.t}, f \in {0, wt.f} :
          /\ wt' = [t |-> t, f |-> f]
          /\ seen' = [now |-> seen.now \cup {<<t, f>>},
                      before |-> [seen.before EXCEPT ![r] = seen.now]]
  BY DEF Barrier!RunCommand
<1>3. t \in Nat /\ f \in Nat
  BY <1>1 DEF Worktrees
<1>4. /\ seen.now \in SUBSET Contents /\ seen.before \in [ToolCalls -> SUBSET Contents]
  BY DEF BInv, BTyped
<1>0. <<t, f>> \in Contents
  BY <1>3 DEF Contents
<1>5. PICK new \in SUBSET Contents : new = seen.now \cup {<<t, f>>}
  BY <1>0, <1>4
<1>6. PICK old \in [ToolCalls -> SUBSET Contents] : old = [seen.before EXCEPT ![r] = seen.now]
  BY <1>4
<1>7. /\ seen' \in [now : SUBSET Contents, before : [ToolCalls -> SUBSET Contents]]
      /\ seen'.now = new /\ seen'.before = old
  BY <1>2, <1>5, <1>6
<1>8. /\ old[r] = seen.now /\ \A q \in ToolCalls : q # r => old[q] = seen.before[q]
      /\ seen.now \subseteq new
  BY <1>4, <1>5, <1>6
<1>9. PICK k \in Hooks : k = [hook[r] EXCEPT !.pc = "ran"]
  BY <1>1 DEF Hooks
<1>10. k.told = hook[r].told
  BY <1>1, <1>9 DEF Hooks
<1>11. /\ hook' \in [ToolCalls -> Hooks] /\ hook'[r] = k
       /\ \A q \in ToolCalls : q # r => hook'[q] = hook[q]
  BY <1>1, <1>9 DEF Barrier!RunCommand, BInv, BTyped, Hooks
<1>12. UNCHANGED <<db, frame, mail, expired, h, lease, bcount>>
  BY DEF Barrier!RunCommand
<1>13. BTyped'
  BY <1>2, <1>3, <1>7, <1>11, <1>12 DEF BInv, BTyped, Worktrees
<1>14. Barrier!AckedIsDurable'
  BY <1>10, <1>11, <1>12 DEF BInv, Barrier!AckedIsDurable
<1>15. Barrier!CompleteIsOneInstant'
  <2> SUFFICES ASSUME NEW q \in ToolCalls, db.bundle[q].st = "Complete"
               PROVE  <<db.bundle[q].t, db.bundle[q].f>> \in
                        IF hook'[q] = [pc |-> "ran", told |-> "Complete"] THEN seen'.before[q] ELSE seen'.now
    BY <1>12 DEF Barrier!CompleteIsOneInstant
  <2>1. <<db.bundle[q].t, db.bundle[q].f>> \in seen.now
    BY DEF BInv, Recorded, Reached
  <2>2. CASE q = r
    BY <1>7, <1>8, <2>1, <2>2
  <2>3. CASE q # r
    BY <1>7, <1>8, <1>11, <2>1, <2>3 DEF BInv, Barrier!CompleteIsOneInstant
  <2> QED BY <2>2, <2>3
<1>16. Fresh' /\ HandlersSound' /\ HandlersHold' /\ Recorded'
  BY <1>1, <1>2, <1>3, <1>5, <1>7, <1>12, WorktreeMoves
<1> QED BY <1>13, <1>14, <1>15, <1>16 DEF BInv

\* The mail, the deadlines and the spool are nothing a recovery point rests on.
LEMMA AsideKeeps ==
  ASSUME BInv, mail' \subseteq [r : ToolCalls, live : BOOLEAN], expired' \subseteq ToolCalls,
         bcount' \in BarrierCounts, bcount'.edit = bcount.edit,
         UNCHANGED <<wt, db, hook, frame, h, lease, seen>>
  PROVE  BInv'
<1>1. BTyped' /\ Fresh' /\ Recorded' /\ HandlersHold'
  BY DEF BInv, BTyped, Fresh, Recorded, Reached, HandlersHold
<1>2. HandlersSound'
  BY DEF BInv, HandlersSound, Sound, Reached
<1>3. Barrier!AckedIsDurable' /\ Barrier!CompleteIsOneInstant'
  BY DEF BInv, Barrier!AckedIsDurable, Barrier!CompleteIsOneInstant
<1> QED BY <1>1, <1>2, <1>3 DEF BInv

LEMMA DeadlineKeeps ==
  ASSUME BInv, NEW r \in ToolCalls, Barrier!Deadline(r)
  PROVE  BInv'
BY AsideKeeps DEF Barrier!Deadline, Barrier!unseen, BInv, BTyped

LEMMA RedeliverKeeps ==
  ASSUME BInv, NEW r \in ToolCalls, Barrier!Redeliver(r)
  PROVE  BInv'
<1>1. PICK m \in [r : ToolCalls, live : BOOLEAN] : m = [r |-> r, live |-> FALSE]
  OBVIOUS
<1>2. mail' \subseteq [r : ToolCalls, live : BOOLEAN] /\ expired' \subseteq ToolCalls
  BY <1>1 DEF Barrier!Redeliver, BInv, BTyped
<1>3. bcount' \in BarrierCounts /\ bcount'.edit = bcount.edit
  BY BarrierCounted DEF BInv, Barrier!Redeliver
<1> QED BY <1>2, <1>3, AsideKeeps DEF Barrier!Redeliver, Barrier!unseen

\* A commit that has nothing to do with a request.
LEMMA TrafficKeeps ==
  ASSUME BInv, NEW a \in ActiveAttempts, db' = [db EXCEPT !.n = @ + 1, !.att = a],
         bcount' \in BarrierCounts, bcount'.edit = bcount.edit,
         frame' \in [ToolCalls -> {"none", "durable", "gone"}],
         UNCHANGED <<wt, hook, mail, expired, h, lease, seen>>
  PROVE  BInv'
<1>1. db \in Journals /\ h' \in [Handlers -> HandlerStates]
  BY DEF BInv, BTyped
<1>2. PICK n \in Nat : n = db.n + 1
  BY <1>1 DEF Journals
<1>3. db' = [db EXCEPT !.n = n, !.att = a]
  BY <1>2
<1>4. db' \in Journals /\ db'.n = n /\ db'.req = db.req /\ db'.bundle = db.bundle
  BY <1>1, <1>3 DEF Journals
<1>5. JournalGrows
  BY <1>2, <1>4 DEF JournalGrows
<1> QED BY <1>1, <1>5, JournalMoves

LEMMA IngestKeeps ==
  ASSUME BInv, NEW r \in ToolCalls, Barrier!Ingest(r)
  PROVE  BInv'
<1>1. db \in Journals /\ frame' \in [ToolCalls -> {"none", "durable", "gone"}]
  BY DEF BInv, BTyped, Barrier!Ingest
<1>2. PICK a \in ActiveAttempts : a = db.att
  BY <1>1 DEF Journals
<1>3. db' = [db EXCEPT !.n = @ + 1, !.att = a]
  BY <1>1, <1>2 DEF Barrier!Ingest, Journals
<1>4. bcount' \in BarrierCounts /\ bcount'.edit = bcount.edit
  BY BarrierCounted DEF BInv, Barrier!Ingest
<1> QED BY <1>1, <1>3, <1>4, TrafficKeeps DEF Barrier!Ingest, Barrier!unseen

LEMMA OtherCommitKeeps ==
  ASSUME BInv, Barrier!OtherCommit
  PROVE  BInv'
<1>1. PICK a \in ActiveAttempts : db' = [db EXCEPT !.n = @ + 1, !.att = a]
  BY DEF Barrier!OtherCommit, ActiveAttempts
<1>2. bcount' \in BarrierCounts /\ bcount'.edit = bcount.edit
  BY BarrierCounted DEF BInv, Barrier!OtherCommit
<1>3. frame' \in [ToolCalls -> {"none", "durable", "gone"}]
  BY DEF BInv, BTyped, Barrier!OtherCommit
<1> QED BY <1>1, <1>2, <1>3, TrafficKeeps DEF Barrier!OtherCommit, Barrier!unseen

-----------------------------------------------------------------------------
(* The barrier: death and start.                                              *)

LEMMA BarrierCrashKeeps ==
  ASSUME BInv, Barrier!Crash
  PROVE  BInv'
<1>1. bcount' \in BarrierCounts /\ bcount'.edit = bcount.edit /\ bcount.edit \in Nat
  BY BarrierCounted DEF BInv, BTyped, BarrierCounts, Barrier!Crash
<1>2. UNCHANGED <<wt, db, hook, frame, expired, seen>> /\ mail' = {} /\ lease' = "free"
  BY DEF Barrier!Crash
<1>3. PICK v \in HandlerStates : v = Barrier!Idle /\ v.b.st = "none" /\ v.pc = "idle" /\ v.f = 0
  BY IdleIsSound
<1>4. h' \in [Handlers -> HandlerStates] /\ \A x \in Handlers : h'[x] = v
  BY <1>3 DEF Barrier!Crash
<1>5. BTyped' /\ Fresh' /\ Recorded'
  BY <1>1, <1>2, <1>4 DEF BInv, BTyped, Fresh, Recorded, Reached
<1>6. HandlersSound'
  BY <1>1, <1>3, <1>4 DEF HandlersSound, Sound, Building
<1>7. HandlersHold'
  BY <1>2, HoldersAssumption DEF HoldersAssumption, HandlersHold
<1>8. Barrier!AckedIsDurable' /\ Barrier!CompleteIsOneInstant'
  BY <1>2 DEF BInv, Barrier!AckedIsDurable, Barrier!CompleteIsOneInstant
<1> QED BY <1>5, <1>6, <1>7, <1>8 DEF BInv

LEMMA RestartKeeps ==
  ASSUME BInv, Barrier!Restart
  PROVE  BInv'
<1>1. UNCHANGED <<wt, hook, frame, mail, expired, h, lease, bcount, seen>>
  BY DEF Barrier!Restart, Barrier!unseen
<1>2. bcount' \in BarrierCounts /\ mail' \subseteq [r : ToolCalls, live : BOOLEAN]
      /\ expired' \subseteq ToolCalls /\ db \in Journals /\ h' \in [Handlers -> HandlerStates]
      /\ frame' \in [ToolCalls -> {"none", "durable", "gone"}]
  BY <1>1 DEF BInv, BTyped
<1>3. CASE db' = db
  BY <1>1, <1>2, <1>3, AsideKeeps
<1>4. ASSUME NEW r \in ToolCalls, db.req[r] = "Pending",
             db' = [db EXCEPT !.n = @ + 1, !.req[r] = "TimedOut"]
      PROVE  BInv'
  <2>1. PICK n \in Nat : n = db.n + 1
    BY <1>2 DEF Journals
  <2>2. PICK q \in [ToolCalls -> Terminal \cup {"none", "Pending"}] : q = [db.req EXCEPT ![r] = "TimedOut"]
    BY <1>2 DEF Journals, Terminal, Barrier!Terminal
  <2>3. db' = [db EXCEPT !.n = n, !.req = q]
    BY <1>2, <1>4, <2>1, <2>2 DEF Journals
  <2>4. db' \in Journals /\ db'.n = n /\ db'.req = q /\ db'.bundle = db.bundle
    BY <1>2, <2>3 DEF Journals
  <2>5. q[r] = "TimedOut" /\ \A p \in ToolCalls : p # r => q[p] = db.req[p]
    BY <1>2, <2>2 DEF Journals
  <2>6. db.req[r] \notin Terminal /\ db.bundle[r] = NoBundle /\ q[r] \in Terminal
    BY <1>4, <2>5 DEF Terminal, Barrier!Terminal, BInv, Recorded
  <2>7. JournalGrows
    BY <2>1, <2>4, <2>5, <2>6, IdleIsSound DEF JournalGrows
  <2> QED BY <1>1, <1>2, <2>7, JournalMoves
<1> QED BY <1>3, <1>4 DEF Barrier!Restart, Barrier!Start

LEMMA BarrierOwnKeeps ==
  ASSUME BInv, Barrier!Own
  PROVE  BInv'
BY HandleKeeps, PreflightKeeps, RequestKeeps, GivesUpKeeps, RunCommandKeeps, DeadlineKeeps,
   IngestKeeps, RedeliverKeeps, BarrierEditKeeps, OtherCommitKeeps DEF Barrier!Own

LEMMA BarrierStarts ==
  ASSUME Barrier!Init
  PROVE  BInv
<1>1. PICK v \in HandlerStates : v = Barrier!Idle /\ v.b.st = "none" /\ v.pc = "idle" /\ v.f = 0
  BY IdleIsSound
<1>2. h \in [Handlers -> HandlerStates] /\ \A x \in Handlers : h[x] = v
  BY <1>1 DEF Barrier!Init
<1>3. bcount \in BarrierCounts /\ bcount.edit = 0
  BY DEF Barrier!Init, BarrierCounts
<1>4. wt \in Worktrees /\ wt.t = 1 /\ wt.f = 1
  BY DEF Barrier!Init, Worktrees
<1>5. db \in Journals /\ \A r \in ToolCalls : db.bundle[r] = NoBundle
  BY DEF Barrier!Init, Journals, NoBundle, Bundles, ActiveAttempts
<1>6. /\ seen \in [now : SUBSET Contents, before : [ToolCalls -> SUBSET Contents]]
      /\ <<1, 1>> \in seen.now
  BY DEF Barrier!Init, Contents
<1>7. hook \in [ToolCalls -> Hooks] /\ \A r \in ToolCalls : hook[r].told = "none"
  BY DEF Barrier!Init, Hooks
<1>8. BTyped
  BY <1>2, <1>3, <1>4, <1>5, <1>6, <1>7 DEF Barrier!Init, BTyped
<1>9. Fresh /\ HandlersSound
  BY <1>1, <1>2, <1>3, <1>4, <1>6 DEF Fresh, HandlersSound, Sound, Building
<1>10. HandlersHold
  BY HoldersAssumption DEF Barrier!Init, HoldersAssumption, HandlersHold
<1>11. Recorded /\ Barrier!AckedIsDurable /\ Barrier!CompleteIsOneInstant
  BY <1>5, <1>7, IdleIsSound DEF Recorded, Barrier!AckedIsDurable, Barrier!CompleteIsOneInstant
<1> QED BY <1>8, <1>9, <1>10, <1>11 DEF BInv

-----------------------------------------------------------------------------
(* The applications: what a step of a call has to show.                       *)

LEMMA ApplicationCounted ==
  ASSUME ATyped, NEW k \in {"call", "edit", "fault", "quiesce", "crash"}, Application!Counted(k)
  PROVE  /\ acount' \in ApplicationCounts
         /\ acount'.edit = IF k = "edit" THEN acount.edit + 1 ELSE acount.edit
         /\ acount'.max = acount.max
<1>1. PICK n \in Nat : n = acount[k] + 1
  BY DEF ATyped, ApplicationCounts
<1>2. acount' = [acount EXCEPT ![k] = n]
  BY <1>1 DEF Application!Counted
<1> QED BY <1>1, <1>2 DEF ATyped, ApplicationCounts

LEMMA Faulted ==
  ASSUME AInv, UNCHANGED acount \/ Application!Counted("fault")
  PROVE  acount' \in ApplicationCounts /\ acount'.edit = acount.edit
BY ApplicationCounted DEF AInv, ATyped

LEMMA Everybody ==
  /\ Everyone = Callers \cup {Application!Boot} /\ Application!Boot = "boot" /\ "boot" \in Everyone
  /\ "boot" \notin Callers /\ "free" \notin Everyone
  /\ \A x \in Handlers : x \notin Everyone
BY HoldersAssumption DEF HoldersAssumption, Everyone, Application!Boot

LEMMA Called ==
  ASSUME AInv, NEW c \in Everyone
  PROVE  /\ call[c] \in Calls /\ CallSound(c)
         /\ call[c].pc # "idle" => call[c].a \in Applications
         /\ call[c].pc \in Holding => c \in Callers /\ lease = c /\ daemon = "up"
<1>1. call[c] \in Calls /\ CallSound(c)
  BY DEF AInv, ATyped, CallsSound
<1>2. call[c].pc # "idle" => call[c].a \in Applications
  BY <1>1 DEF CallSound
<1>3. call[c].pc \in Holding => c # "boot"
  BY DEF AInv, CallsHold, Holding, Running, Reviewing
<1> QED BY <1>1, <1>2, <1>3 DEF AInv, CallsHold, Everyone, Holding, Running

\* One call at a time works on the worktree.
LEMMA HoldersAreAlone ==
  ASSUME AInv, NEW c \in Everyone, NEW d \in Everyone, call[c].pc \in Holding, call[d].pc \in Holding
  PROVE  c = d
BY DEF AInv, CallsHold

\* A call moves and the fence with it; nothing is written.
HoldsOn(c, v) ==
  /\ lease' \in {lease, c} \/ (lease = c /\ lease' = "free")
  /\ lease' = c => lease \in {c, "free"}
  /\ v.pc \in Holding => lease' = c
  /\ c \in Callers /\ lease' = c => v.pc # "idle"
  /\ c \in Callers /\ v.pc # "idle" => daemon' = "up"
  /\ c = "boot" => v.pc \in {"idle"} \cup Reviewing /\ (v.pc # "idle" => daemon' = "starting")

LEMMA HoldKeeps ==
  ASSUME AInv, NEW c \in Everyone, NEW v \in Calls, call' = [call EXCEPT ![c] = v],
         HoldsOn(c, v), todo' \subseteq todo, daemon' = daemon
  PROVE  CallsHold'
<1>1. call'[c] = v /\ \A d \in Everyone : d # c => call'[d] = call[d]
  BY DEF AInv, ATyped
<1>2. \A d \in Everyone : call'[d].pc \in Holding => lease' = d
  BY <1>1, Everybody DEF AInv, CallsHold, HoldsOn
<1>3. \A d \in Callers : lease' = d => call'[d].pc # "idle"
  BY <1>1, Everybody DEF AInv, CallsHold, HoldsOn
<1>4. \A d \in Callers : call'[d].pc # "idle" => daemon' = "up"
  BY <1>1, Everybody DEF AInv, CallsHold, HoldsOn
<1>5. call'["boot"].pc \in {"idle"} \cup Reviewing
  BY <1>1, Everybody DEF AInv, CallsHold, HoldsOn
<1>6. call'["boot"].pc # "idle" \/ todo' # {} => daemon' = "starting"
  BY <1>1, Everybody DEF AInv, CallsHold, HoldsOn
<1> QED BY <1>2, <1>3, <1>4, <1>5, <1>6 DEF CallsHold

\* What is told of a settled application is so.
SaysOnly ==
  /\ past' \in Histories /\ past'.spawned = past.spawned
  /\ past'.wrote = past.wrote /\ past'.orphan = past.orphan

LEMMA CallMoves ==
  ASSUME AInv, NEW c \in Everyone, NEW v \in Calls, call' = [call EXCEPT ![c] = v],
         call[c].pc \notin {"feed", "wait"}, HoldsOn(c, v), CallSound(c)',
         todo' \subseteq todo, acount' \in ApplicationCounts, acount'.edit = acount.edit,
         SaysOnly, Application!ToldIsDurable',
         UNCHANGED <<file, app, intent, result, child, quiet, daemon>>
  PROVE  AInv'
<1>1. /\ call' \in [Everyone -> Calls] /\ call'[c] = v
      /\ \A d \in Everyone : d # c => call'[d] = call[d]
  BY DEF AInv, ATyped
<1>2. ATyped'
  BY <1>1 DEF AInv, ATyped, SaysOnly
<1>3. CallsSound'
  BY <1>1 DEF AInv, CallsSound, CallSound, Justified, SaysOnly
<1>4. CallsHold'
  BY HoldKeeps
<1>5. \A a \in Applications : Attended(a) => Attended(a)'
  BY <1>1, Everybody DEF Attended
<1>6. ChildrenSound'
  BY <1>5 DEF AInv, ChildrenSound, ChildSound, SaysOnly
<1>7. AppsSound' /\ Marked'
  BY DEF AInv, AppsSound, AppSound, Justified, Marked, SaysOnly
<1> QED BY <1>2, <1>3, <1>4, <1>6, <1>7 DEF AInv

LEMMA CallGoes ==
  ASSUME AInv, NEW c \in Everyone, NEW v \in Calls, call' = [call EXCEPT ![c] = v],
         call[c].pc \notin {"feed", "wait"}, HoldsOn(c, v), CallSound(c)',
         acount' \in ApplicationCounts, acount'.edit = acount.edit,
         UNCHANGED <<file, app, intent, result, child, quiet, daemon, todo, past>>
  PROVE  AInv'
<1>1. SaysOnly /\ Application!ToldIsDurable'
  BY DEF AInv, ATyped, SaysOnly, Application!ToldIsDurable
<1> QED BY <1>1, CallMoves

\* An answer leaves nothing of the call but what it said.
LEMMA IdleCall ==
  /\ Application!Idle \in Calls /\ Application!Idle.pc = "idle"
  /\ [Application!Idle EXCEPT !.ex = "error"] \in Calls
  /\ [Application!Idle EXCEPT !.ex = "error"].pc = "idle"
<1>1. Application!NoApp \in Revisions
  BY DEF Application!NoApp, Revisions
<1>2. Application!Idle \in Calls
  BY <1>1 DEF Application!Idle, Calls, Exits, Verdicts
<1>3. Application!Idle.pc = "idle"
  BY DEF Application!Idle
<1>4. PICK w \in Calls : w = Application!Idle
  BY <1>2
<1>5. [w EXCEPT !.ex = "error"] \in Calls /\ [w EXCEPT !.ex = "error"].pc = w.pc
  BY DEF Calls
<1> QED BY <1>2, <1>3, <1>4, <1>5

\* An answer leaves nothing of the call but what it said.
LEMMA Answered ==
  ASSUME AInv, NEW c \in Everyone, call[c].pc # "idle", NEW st \in Answers \cup {"error"},
         Application!Reply(c, st), daemon' = daemon
  PROVE  /\ \E v \in Calls : v.pc = "idle" /\ call' = [call EXCEPT ![c] = v] /\ HoldsOn(c, v)
         /\ todo' \subseteq todo /\ SaysOnly
         /\ past'.told \subseteq past.told \cup {<<call[c].a, st>>}
         /\ st = "error" => past'.told = past.told
         /\ c = "boot" => call[c].a \notin todo'
<1>1. call[c].a \in Applications /\ past \in Histories
  BY Called DEF AInv, ATyped
<1>2. PICK v \in Calls :
        /\ v.pc = "idle"
        /\ v = IF c = Application!Boot /\ "error" \in {st, call[c].ex}
               THEN [Application!Idle EXCEPT !.ex = "error"] ELSE Application!Idle
  BY IdleCall
<1>3. call' = [call EXCEPT ![c] = v]
  BY <1>2, Everybody DEF Application!Reply, Application!Answer, AInv, ATyped
<1>4. lease' = IF lease = c THEN "free" ELSE lease
  BY DEF Application!Reply, Application!Answer, Application!Release
<1>5. HoldsOn(c, v)
  BY <1>2, <1>4, Everybody DEF HoldsOn, Holding, Running
<1>6. todo' \subseteq todo /\ (c = "boot" => call[c].a \notin todo')
  BY Everybody DEF Application!Reply, Application!Answer
<1>7. PICK t \in SUBSET (Applications \X Answers) :
        t = IF c = Application!Boot \/ st = "error" THEN past.told ELSE past.told \cup {<<call[c].a, st>>}
  <2>1. st # "error" => <<call[c].a, st>> \in Applications \X Answers
    BY <1>1
  <2>2. past.told \in SUBSET (Applications \X Answers)
    BY <1>1 DEF Histories
  <2> QED BY <2>1, <2>2
<1>8. past' = [past EXCEPT !.told = t]
  BY <1>1, <1>7 DEF Application!Reply, Application!Answer
<1>9. SaysOnly /\ past'.told = t
  BY <1>1, <1>8 DEF SaysOnly, Histories
<1> QED BY <1>2, <1>3, <1>5, <1>6, <1>7, <1>9

LEMMA ApplicationReplyKeeps ==
  ASSUME AInv, NEW c \in Everyone, call[c].pc \notin {"idle", "feed", "wait"},
         NEW st \in Answers \cup {"error"}, Application!Reply(c, st),
         st \in {"Applied", "Failed"} => app[call[c].a].st = st,
         UNCHANGED acount \/ Application!Counted("fault"),
         UNCHANGED <<file, app, intent, result, child, quiet, daemon>>
  PROVE  AInv'
<1>1. PICK v \in Calls : v.pc = "idle" /\ call' = [call EXCEPT ![c] = v] /\ HoldsOn(c, v)
  BY Answered
<1>2. /\ todo' \subseteq todo /\ SaysOnly
      /\ past'.told \subseteq past.told \cup {<<call[c].a, st>>}
  BY Answered
<1>3. call'[c] = v
  BY <1>1 DEF AInv, ATyped
<1>4. CallSound(c)'
  BY <1>1, <1>3 DEF CallSound, Running, Reviewing, Ended
<1>5. Application!ToldIsDurable'
  BY <1>2 DEF AInv, Application!ToldIsDurable
<1>6. acount' \in ApplicationCounts /\ acount'.edit = acount.edit
  BY Faulted
<1> QED BY <1>1, <1>2, <1>4, <1>5, <1>6, CallMoves

\* What another call rests on is not what this step is about.
LEMMA OtherCall ==
  ASSUME AInv, NEW d \in Everyone, call'[d] = call[d],
         app' \in [Applications -> Revisions], intent \subseteq intent',
         acount'.edit \in {acount.edit, acount.edit + 1},
         call[d].pc \in Running \cup Reviewing =>
           \/ app'[call[d].a] = app[call[d].a]
           \/ app'[call[d].a].rev = app[call[d].a].rev + 1 /\ app'[call[d].a] # NoApp,
         call[d].pc \in Running =>
           /\ result'[call[d].a] = result[call[d].a] /\ child'[call[d].a] = child[call[d].a]
           /\ past'.spawned[call[d].a] = past.spawned[call[d].a]
           /\ call[d].a \notin past.wrote => call[d].a \notin past'.wrote
  PROVE  CallSound(d)'
<1>1. CallSound(d) /\ call[d] \in Calls /\ acount.edit \in Nat /\ app \in [Applications -> Revisions]
  BY DEF AInv, CallsSound, ATyped, ApplicationCounts
<1>2. call[d].pc # "idle" => call[d].a \in Applications
  BY <1>1 DEF CallSound
<1>3. call[d].pc \in Running \cup Reviewing =>
        /\ call[d].cur.st = "Unknown" /\ app'[call[d].a] # NoApp
        /\ call[d].cur.rev <= app'[call[d].a].rev
        /\ call[d].cur.rev = app'[call[d].a].rev => call[d].cur = app'[call[d].a]
  <2> SUFFICES ASSUME call[d].pc \in Running \cup Reviewing
               PROVE  /\ call[d].cur.st = "Unknown" /\ app'[call[d].a] # NoApp
                      /\ call[d].cur.rev <= app'[call[d].a].rev
                      /\ call[d].cur.rev = app'[call[d].a].rev => call[d].cur = app'[call[d].a]
    OBVIOUS
  <2>1. /\ call[d].cur.st = "Unknown" /\ app[call[d].a] # NoApp
        /\ call[d].cur.rev <= app[call[d].a].rev
        /\ call[d].cur.rev = app[call[d].a].rev => call[d].cur = app[call[d].a]
    BY <1>1 DEF CallSound
  <2>2. call[d].a \in Applications
    BY <1>2 DEF Running, Reviewing
  <2>3. call[d].cur.rev \in Nat /\ app[call[d].a].rev \in Nat /\ app'[call[d].a].rev \in Nat
    BY <1>1, <2>2 DEF Calls, Revisions
  <2> QED BY <2>1, <2>3
<1>4. call[d].pc \in {"recheck", "feed", "wait", "persist"} \cup Ended => call[d].pc \in Running
  BY DEF Running, Ended
<1>5. acount.edit > 0 => acount'.edit > 0
  BY <1>1
<1> QED BY <1>1, <1>2, <1>3, <1>4, <1>5 DEF CallSound, Justified

-----------------------------------------------------------------------------
(* The applications: a call before it is admitted.                            *)

LEMMA HandleCallKeeps ==
  ASSUME AInv, NEW c \in Everyone, Application!handle(c)
  PROVE  AInv'
<1>1. PICK a \in acount.max.requests :
         call' = [call EXCEPT ![c] = [Application!Idle EXCEPT !.pc = "replay", !.a = a]]
  BY DEF Application!handle
<1>2. /\ call[c].pc = "idle" /\ daemon = "up" /\ c \in acount.max.callers
      /\ Application!Counted("call")
      /\ UNCHANGED <<file, app, intent, result, child, quiet, daemon, todo, past, lease>>
  BY DEF Application!handle, Application!Step, Application!world, Application!store, Application!control
<1>3. acount \in ApplicationCounts
  BY DEF AInv, ATyped
<1>4. PICK sc \in Scenarios : acount.max = sc.application
  BY <1>3 DEF ApplicationCounts
<1>5. a \in Applications /\ c \in Callers
  BY <1>1, <1>2, <1>4, ScenariosAssumption DEF ScenariosAssumption
<1>6. PICK w \in Calls : w = Application!Idle
  BY IdleCall
<1>7. PICK v \in Calls : v = [w EXCEPT !.pc = "replay", !.a = a]
  BY <1>5 DEF Calls
<1>8. v.pc = "replay" /\ v.a = a
  BY <1>7 DEF Calls
<1>9. call' = [call EXCEPT ![c] = v]
  BY <1>1, <1>6, <1>7
<1>10. call'[c] = v
  BY <1>9 DEF AInv, ATyped
<1>11. CallSound(c)'
  BY <1>5, <1>8, <1>10 DEF CallSound, Running, Reviewing, Ended
<1>12. HoldsOn(c, v)
  BY <1>2, <1>5, <1>8, Everybody DEF HoldsOn, Holding, Running
<1>13. acount' \in ApplicationCounts /\ acount'.edit = acount.edit
  BY <1>2, ApplicationCounted DEF AInv
<1> QED BY <1>2, <1>8, <1>9, <1>11, <1>12, <1>13, CallGoes

\* Where the calls of one application stand does not depend on the other calls.
LEMMA CallGoesTo ==
  ASSUME AInv, NEW c \in Everyone, call[c].pc \notin {"idle", "feed", "wait"},
         NEW v \in Calls, call' = [call EXCEPT ![c] = v], v.pc # "idle", v.a = call[c].a,
         v.pc \in Running => call[c].pc \in Running /\ v.cur = call[c].cur,
         v.pc \notin {"recheck", "feed", "wait"},
         v.pc \in Reviewing =>
           \/ v.cur = call[c].cur /\ call[c].pc \in Running \cup Reviewing
           \/ v.cur = app[v.a] /\ v.cur.st = "Unknown" /\ v.cur # NoApp,
         v.pc \in Ended => v.ex = call[c].ex /\ call[c].pc \in Ended,
         v.pc = "persist" => Justified(v.a, v.ex, v.ver),
         v.pc = "deliver" => v.a \in intent,
         v.pc = "outcome" => v.cur.deliv = "Delivered",
         HoldsOn(c, v), UNCHANGED acount,
         UNCHANGED <<file, app, intent, result, child, quiet, daemon, todo, past>>
  PROVE  AInv'
<1>1. call'[c] = v /\ CallSound(c) /\ call[c].a \in Applications /\ app \in [Applications -> Revisions]
  BY Called DEF AInv, ATyped
<1>2. acount' \in ApplicationCounts /\ acount'.edit = acount.edit
  BY Faulted
<1>3. app[v.a].rev <= app[v.a].rev
  BY <1>1 DEF Revisions
<1>4. CallSound(c)'
  BY <1>1, <1>2, <1>3 DEF CallSound, Justified, Running, Reviewing, Ended
<1> QED BY <1>2, <1>4, CallGoes

LEMMA StillCalled ==
  ASSUME AInv, NEW c \in Everyone, NEW v \in Calls, call[c].pc # "idle", v.pc # "idle",
         lease' = lease, daemon' = daemon, v.pc \in Holding => call[c].pc \in Holding,
         v.pc \in Reviewing \/ call[c].pc \notin Reviewing, c = "boot" => v.pc \in Reviewing
  PROVE  HoldsOn(c, v)
<1>1. c \in Callers => daemon = "up"
  BY DEF AInv, CallsHold
<1>2. call[c].pc \in Holding => lease = c
  BY DEF AInv, CallsHold
<1>3. c = "boot" => daemon = "starting"
  BY Everybody DEF AInv, CallsHold
<1> QED BY <1>1, <1>2, <1>3 DEF HoldsOn

LEMMA ReplayKeeps ==
  ASSUME AInv, NEW c \in Everyone, Application!replay_outcome(c)
  PROVE  AInv'
<1>1. call[c].pc = "replay"
      /\ UNCHANGED <<file, app, intent, result, child, quiet, daemon, acount>>
  BY DEF Application!replay_outcome, Application!Step, Application!world, Application!store,
         Application!control
<1>2. call[c] \in Calls /\ call[c].a \in Applications /\ app \in [Applications -> Revisions]
      /\ c # "boot"
  BY <1>1, Called DEF AInv, ATyped, CallsHold, Reviewing
<1>3. CASE Application!Goto(c, "lease") /\ UNCHANGED <<todo, lease, past>>
  <2>1. PICK v \in Calls : v = [call[c] EXCEPT !.pc = "lease"]
    BY <1>2 DEF Calls
  <2>2. v.pc = "lease" /\ v.a = call[c].a
    BY <1>2, <2>1 DEF Calls
  <2>3. call' = [call EXCEPT ![c] = v]
    BY <1>2, <1>3, <2>1 DEF Application!Goto, AInv, ATyped, Calls
  <2>4. HoldsOn(c, v)
    BY <1>1, <1>2, <1>3, <2>2, StillCalled DEF Holding, Running, Reviewing
  <2> QED BY <1>1, <1>3, <2>2, <2>3, <2>4, CallGoesTo DEF Running, Reviewing, Ended
<1>4. CASE app[call[c].a].st \in {"Applied", "Failed"} /\ Application!Reply(c, app[call[c].a].st)
  BY <1>1, <1>4, ApplicationReplyKeeps DEF Answers
<1>5. CASE /\ Application!known(call[c].a) /\ app[call[c].a].st \notin {"Applied", "Failed"}
           /\ call' = [call EXCEPT ![c].pc = "reconcile", ![c].cur = app[call[c].a]]
           /\ UNCHANGED <<todo, lease, past>>
  <2>1. PICK r \in Revisions : r = app[call[c].a]
    BY <1>2
  <2>2. PICK v \in Calls : v = [call[c] EXCEPT !.pc = "reconcile", !.cur = r]
    BY <1>2 DEF Calls
  <2>3. v.pc = "reconcile" /\ v.a = call[c].a /\ v.cur = r
    BY <1>2, <2>2 DEF Calls
  <2>4. call' = [call EXCEPT ![c] = v]
    BY <1>2, <1>5, <2>1, <2>2 DEF AInv, ATyped, Calls
  <2>5. r # NoApp /\ r.st = "Unknown"
    BY <1>2, <1>5, <2>1 DEF Application!known, NoApp, AInv, AppsSound, AppSound, Revisions
  <2>6. HoldsOn(c, v)
    BY <1>1, <1>2, <1>5, <2>3, StillCalled DEF Holding, Running, Reviewing
  <2> QED BY <1>1, <1>5, <2>1, <2>3, <2>4, <2>5, <2>6, CallGoesTo DEF Running, Reviewing, Ended
<1> QED BY <1>3, <1>4, <1>5 DEF Application!replay_outcome

LEMMA LeaseKeeps ==
  ASSUME AInv, NEW c \in Everyone, Application!Lease(c)
  PROVE  AInv'
<1>1. call[c].pc = "lease"
      /\ UNCHANGED <<file, app, intent, result, child, quiet, daemon, acount>>
  BY DEF Application!Lease, Application!Step, Application!world, Application!store, Application!control
<1>2. call[c] \in Calls /\ call[c].a \in Applications /\ c \in Callers
  BY <1>1, Called DEF AInv, CallsHold, Reviewing, Everyone
<1>3. CASE /\ lease = "free" /\ lease' = c /\ Application!Goto(c, "prepare")
           /\ UNCHANGED <<todo, past>>
  <2>1. PICK v \in Calls : v = [call[c] EXCEPT !.pc = "prepare"]
    BY <1>2 DEF Calls
  <2>2. v.pc = "prepare" /\ v.a = call[c].a
    BY <1>2, <2>1 DEF Calls
  <2>3. call' = [call EXCEPT ![c] = v]
    BY <1>2, <1>3, <2>1 DEF Application!Goto, AInv, ATyped, Calls
  <2>4. HoldsOn(c, v)
    BY <1>1, <1>2, <1>3, <2>2, Everybody DEF HoldsOn, AInv, CallsHold
  <2> QED BY <1>1, <1>3, <2>2, <2>3, <2>4, CallGoesTo DEF Running, Reviewing, Ended
<1>4. CASE Application!Reply(c, "error")
  BY <1>1, <1>4, ApplicationReplyKeeps
<1> QED BY <1>3, <1>4 DEF Application!Lease, Application!acquire

LEMMA PrepareBeginKeeps ==
  ASSUME AInv, NEW c \in Everyone, Application!PrepareBegin(c)
  PROVE  AInv'
<1>1. call[c].pc = "prepare"
      /\ UNCHANGED <<file, app, intent, result, child, quiet, daemon, acount>>
  BY DEF Application!PrepareBegin, Application!Step, Application!world, Application!store,
         Application!control
<1>2. call[c] \in Calls /\ call[c].a \in Applications /\ c # "boot" /\ file.id \in Int
  BY <1>1, Called DEF AInv, ATyped, Files, CallsHold, Reviewing
<1>3. CASE call' = [call EXCEPT ![c].pc = "check", ![c].fid = file.id] /\ UNCHANGED <<todo, lease, past>>
  <2>1. PICK v \in Calls : v = [call[c] EXCEPT !.pc = "check", !.fid = file.id]
    BY <1>2 DEF Calls
  <2>2. v.pc = "check" /\ v.a = call[c].a
    BY <1>2, <2>1 DEF Calls
  <2>3. call' = [call EXCEPT ![c] = v]
    BY <1>2, <1>3, <2>1 DEF AInv, ATyped, Calls
  <2>4. HoldsOn(c, v)
    BY <1>1, <1>2, <1>3, <2>2, StillCalled DEF Holding, Running, Reviewing
  <2> QED BY <1>1, <1>3, <2>2, <2>3, <2>4, CallGoesTo DEF Running, Reviewing, Ended
<1>4. CASE Application!Reply(c, "error")
  BY <1>1, <1>4, ApplicationReplyKeeps
<1> QED BY <1>3, <1>4 DEF Application!PrepareBegin

LEMMA PreparePatchKeeps ==
  ASSUME AInv, NEW c \in Everyone, Application!prepare_patch(c)
  PROVE  AInv'
<1>1. call[c].pc = "check"
      /\ UNCHANGED <<file, app, intent, result, child, quiet, daemon, acount>>
  BY DEF Application!prepare_patch, Application!Step, Application!world, Application!store,
         Application!control
<1>2. call[c] \in Calls /\ call[c].a \in Applications /\ c # "boot"
  BY <1>1, Called DEF AInv, CallsHold, Reviewing
<1>3. CASE Application!Goto(c, "admit") /\ UNCHANGED <<todo, lease, past>>
  <2>1. PICK v \in Calls : v = [call[c] EXCEPT !.pc = "admit"]
    BY <1>2 DEF Calls
  <2>2. v.pc = "admit" /\ v.a = call[c].a
    BY <1>2, <2>1 DEF Calls
  <2>3. call' = [call EXCEPT ![c] = v]
    BY <1>2, <1>3, <2>1 DEF Application!Goto, AInv, ATyped, Calls
  <2>4. HoldsOn(c, v)
    BY <1>1, <1>2, <1>3, <2>2, StillCalled DEF Holding, Running, Reviewing
  <2> QED BY <1>1, <1>3, <2>2, <2>3, <2>4, CallGoesTo DEF Running, Reviewing, Ended
<1>4. CASE Application!Reply(c, "error")
  BY <1>1, <1>4, ApplicationReplyKeeps
<1> QED BY <1>3, <1>4 DEF Application!prepare_patch

-----------------------------------------------------------------------------
(* The applications: admission, and the child.                                *)

LEMMA GoneTo ==
  ASSUME AInv, NEW c \in Everyone,
         NEW pc \in {"replay", "recheck", "feed", "wait", "reconcile", "deliver", "outcome"},
         Application!Goto(c, pc)
  PROVE  \E v \in Calls : /\ call' = [call EXCEPT ![c] = v] /\ v.pc = pc /\ v.a = call[c].a
                          /\ v.cur = call[c].cur /\ v.ex = call[c].ex
<1>1. call[c] \in Calls
  BY Called
<1>2. PICK v \in Calls : v = [call[c] EXCEPT !.pc = pc]
  BY <1>1 DEF Calls
<1>3. v.pc = pc /\ v.a = call[c].a /\ v.cur = call[c].cur /\ v.ex = call[c].ex
  BY <1>1, <1>2 DEF Calls
<1>4. call' = [call EXCEPT ![c] = v]
  BY <1>1, <1>2 DEF Application!Goto, AInv, ATyped, Calls
<1> QED BY <1>3, <1>4

LEMMA Holder ==
  ASSUME AInv, NEW c \in Everyone, call[c].pc \in Holding
  PROVE  /\ call[c] \in Calls /\ call[c].a \in Applications /\ CallSound(c)
         /\ c \in Callers /\ c # "boot" /\ lease = c /\ daemon = "up"
         /\ todo = {} /\ acount \in ApplicationCounts
         /\ \A d \in Everyone : d # c => call[d].pc \notin Holding
<1>1. call[c].pc # "idle"
  BY DEF Holding, Running
<1> QED BY <1>1, Called, Everybody, HoldersAreAlone DEF AInv, ATyped, CallsHold

LEMMA AdmittedKeeps ==
  ASSUME AInv, NEW c \in Everyone, call[c].pc = "admit", app[call[c].a] = NoApp,
         NEW w \in Revisions, w.rev = 1, w.deliv = "Admitted", w.st = "Unknown", w.post = FALSE,
         app' = [app EXCEPT ![call[c].a] = w],
         NEW v \in Calls, v.pc = "recheck", v.a = call[c].a, v.cur = w,
         call' = [call EXCEPT ![c] = v],
         UNCHANGED <<file, intent, result, child, quiet, daemon, todo, lease, past, acount>>
  PROVE  AInv'
<1>1. /\ call[c] \in Calls /\ call[c].a \in Applications /\ c # "boot" /\ c \in Callers /\ lease = c
      /\ daemon = "up"
  BY Holder DEF Holding
<1>2. PICK a \in Applications : a = call[c].a
  BY <1>1
<1>6. /\ call' \in [Everyone -> Calls] /\ call'[c] = v
      /\ \A d \in Everyone : d # c => call'[d] = call[d]
  BY DEF AInv, ATyped
<1>7. /\ app' \in [Applications -> Revisions] /\ app'[a] = w
      /\ \A b \in Applications : b # a => app'[b] = app[b]
  BY <1>2 DEF AInv, ATyped
<1>8. w # NoApp
  BY DEF NoApp, Application!NoApp
<1>9. app[a].st = "none" /\ past.spawned[a] = 0 /\ child[a] = "none" /\ result[a] = NoResult
      /\ a \notin intent
  BY <1>2 DEF NoApp, Application!NoApp, AInv, AppsSound, AppSound
<1>10. ATyped'
  BY <1>6, <1>7 DEF AInv, ATyped
<1>11. CallsSound'
  <2>1. CallSound(c)'
    BY <1>2, <1>6, <1>7, <1>8, <1>9 DEF CallSound, Running, Reviewing, Ended, Revisions
  <2>2. ASSUME NEW d \in Everyone, d # c  PROVE CallSound(d)'
    <3>1. CallSound(d) /\ call'[d] = call[d]
      BY <1>6, <2>2 DEF AInv, CallsSound
    <3>2. call[d].pc \in Running \cup Reviewing => app'[call[d].a] = app[call[d].a]
      BY <1>2, <1>7, <3>1 DEF CallSound, Running, Reviewing
    <3> QED BY <1>7, <3>1, <3>2, OtherCall
  <2> QED BY <2>1, <2>2 DEF CallsSound
<1>12. HoldsOn(c, v)
  BY <1>1 DEF HoldsOn, Holding, Running
<1>13. CallsHold'
  BY <1>12, HoldKeeps
<1>14. \A b \in Applications : Attended(b) => Attended(b)'
  BY <1>6, Everybody DEF Attended
<1>15. ChildrenSound'
  BY <1>14 DEF AInv, ChildrenSound, ChildSound
<1>16. AppsSound'
  BY <1>7, <1>8, <1>9 DEF AInv, AppsSound, AppSound, Justified, NoResult, Application!NoResult
<1>17. Application!ToldIsDurable'
  <2> SUFFICES ASSUME NEW t \in past.told, t[2] \in {"Applied", "Failed"}
               PROVE  app'[t[1]].st = t[2]
    BY DEF Application!ToldIsDurable
  <2>1. app[t[1]].st = t[2] /\ t[1] \in Applications
    BY DEF AInv, Application!ToldIsDurable, ATyped, Histories
  <2> QED BY <1>7, <1>9, <2>1
<1>18. Marked'
  BY DEF AInv, Marked
<1> QED BY <1>10, <1>11, <1>13, <1>15, <1>16, <1>17, <1>18 DEF AInv

LEMMA AdmitCallKeeps ==
  ASSUME AInv, NEW c \in Everyone, Application!Admit(c)
  PROVE  AInv'
<1>1. call[c].pc = "admit" /\ UNCHANGED <<file, child, intent, result, quiet, daemon>>
  BY DEF Application!Admit, Application!Step, Application!world, Application!control
<1>2. call[c] \in Calls /\ call[c].a \in Applications /\ c # "boot" /\ c \in Callers /\ lease = c
      /\ daemon = "up" /\ app \in [Applications -> Revisions]
  BY <1>1, Holder DEF Holding, AInv, ATyped
<1>3. CASE /\ ~Application!known(call[c].a)
           /\ app' = [app EXCEPT ![call[c].a] = [rev |-> 1, deliv |-> "Admitted",
                                                 st |-> "Unknown", post |-> FALSE]]
           /\ call' = [call EXCEPT ![c].pc = "recheck", ![c].cur = app'[call[c].a]]
           /\ UNCHANGED <<todo, lease, past, acount>>
  <2>1. PICK z \in Nat : z = 1
    OBVIOUS
  <2>2. PICK w \in Revisions : w = [rev |-> z, deliv |-> "Admitted", st |-> "Unknown", post |-> FALSE]
    BY DEF Revisions
  <2>3. app' = [app EXCEPT ![call[c].a] = w]
    BY <1>3, <2>1, <2>2
  <2>4. app'[call[c].a] = w
    BY <1>2, <2>3
  <2>5. call' = [call EXCEPT ![c].pc = "recheck", ![c].cur = w]
    BY <1>3, <2>4
  <2>6. app[call[c].a] = NoApp
    BY <1>3 DEF Application!known, NoApp
  <2>7. w.rev = 1 /\ w.deliv = "Admitted" /\ w.st = "Unknown" /\ w.post = FALSE
    BY <2>1, <2>2
  <2>8. PICK v \in Calls : v = [call[c] EXCEPT !.pc = "recheck", !.cur = w]
    BY <1>2 DEF Calls
  <2>9. v.pc = "recheck" /\ v.a = call[c].a /\ v.cur = w
    BY <1>2, <2>8 DEF Calls
  <2>10. call' = [call EXCEPT ![c] = v]
    BY <1>2, <2>5, <2>8 DEF AInv, ATyped, Calls
  <2>11. UNCHANGED <<file, intent, result, child, quiet, daemon, todo, lease, past, acount>>
    BY <1>1, <1>3
  <2> QED BY <1>1, <2>3, <2>6, <2>7, <2>9, <2>10, <2>11, AdmittedKeeps
<1>4. CASE Application!Goto(c, "replay") /\ Application!Release(c) /\ UNCHANGED <<app, todo, past, acount>>
  <2>1. PICK v \in Calls : call' = [call EXCEPT ![c] = v] /\ v.pc = "replay" /\ v.a = call[c].a
    BY <1>4, GoneTo
  <2>2. HoldsOn(c, v)
    BY <1>1, <1>2, <1>4, <2>1, Everybody DEF HoldsOn, Holding, Running, Application!Release
  <2> QED BY <1>1, <1>4, <2>1, <2>2, CallGoesTo DEF Running, Reviewing, Ended
<1>5. CASE Application!Counted("fault") /\ Application!Reply(c, "error") /\ UNCHANGED app
  BY <1>1, <1>5, ApplicationReplyKeeps
<1> QED BY <1>3, <1>4, <1>5 DEF Application!Admit

\* The holder of the fence acts on its own application: nobody else is at work on one.
LEMMA HolderMoves ==
  ASSUME AInv, NEW c \in Everyone, call[c].pc \in Holding, NEW a \in Applications, a = call[c].a,
         NEW v \in Calls, call' = [call EXCEPT ![c] = v], HoldsOn(c, v), CallSound(c)',
         child' \in [Applications -> {"none", "fed", "eof", "ok", "fail", "killed"}],
         intent' \subseteq Applications, intent \subseteq intent', result' \in [Applications -> Results], past' \in Histories,
         \A b \in Applications : b # a =>
            /\ child'[b] = child[b] /\ result'[b] = result[b] /\ (b \in intent' <=> b \in intent)
            /\ past'.spawned[b] = past.spawned[b],
         past'.wrote = past.wrote, past'.orphan = past.orphan, past'.told = past.told,
         AppSound(a)', ChildSound(a)',
         acount' \in ApplicationCounts, acount'.edit = acount.edit,
         UNCHANGED <<file, app, todo, quiet, daemon>>
  PROVE  AInv'
<1>1. /\ call' \in [Everyone -> Calls] /\ call'[c] = v
      /\ \A d \in Everyone : d # c => call'[d] = call[d]
  BY DEF AInv, ATyped
<1>2. \A d \in Everyone : d # c => call[d].pc \notin Holding
  BY Holder
<1>3. ATyped'
  BY <1>1 DEF AInv, ATyped
<1>4. CallsSound'
  <2>1. ASSUME NEW d \in Everyone, d # c  PROVE CallSound(d)'
    <3>1. call'[d] = call[d] /\ call[d].pc \notin Running /\ app' \in [Applications -> Revisions]
      BY <1>1, <1>2, <1>3, <2>1 DEF Holding, ATyped
    <3> QED BY <3>1, OtherCall
  <2> QED BY <2>1 DEF CallsSound
<1>5. CallsHold'
  BY HoldKeeps
<1>6. \A b \in Applications : b # a => ~Attended(b)
  BY <1>2, Everybody DEF Attended, Holding, Running
<1>7. ASSUME NEW b \in Applications, b # a  PROVE ChildSound(b)' /\ AppSound(b)'
  <2>1. ChildSound(b) /\ AppSound(b) /\ ~Attended(b)
    BY <1>6, <1>7 DEF AInv, ChildrenSound, AppsSound
  <2>2. /\ child'[b] = child[b] /\ result'[b] = result[b] /\ (b \in intent' <=> b \in intent)
        /\ past'.spawned[b] = past.spawned[b]
    BY <1>7
  <2>3. ChildSound(b)'
    BY <2>1, <2>2 DEF ChildSound
  <2>4. AppSound(b)'
    BY <2>1, <2>2 DEF AppSound, Justified
  <2> QED BY <2>3, <2>4
<1>8. ChildrenSound' /\ AppsSound'
  BY <1>7 DEF ChildrenSound, AppsSound
<1>9. Marked' /\ Application!ToldIsDurable'
  BY DEF AInv, Marked, Application!ToldIsDurable
<1> QED BY <1>3, <1>4, <1>5, <1>8, <1>9 DEF AInv

LEMMA RecheckKeeps ==
  ASSUME AInv, NEW c \in Everyone, Application!Recheck(c)
  PROVE  AInv'
<1>1. call[c].pc = "recheck" /\ acount' = acount
      /\ UNCHANGED <<file, app, intent, result, quiet, daemon>>
  BY DEF Application!Recheck, Application!Step, Application!store, Application!control
<1>2. call[c].pc \in Holding
  BY <1>1 DEF Holding, Running
<1>3. CASE /\ child' = [child EXCEPT ![call[c].a] = "fed"] /\ Application!Goto(c, "feed")
           /\ past' = [past EXCEPT !.spawned[call[c].a] = @ + 1] /\ UNCHANGED <<todo, lease>>
  <2>1. PICK a \in Applications : a = call[c].a
    BY <1>2, Holder
  <2>2. PICK v \in Calls : call' = [call EXCEPT ![c] = v] /\ v.pc = "feed" /\ v.a = call[c].a
                           /\ v.cur = call[c].cur
    BY <1>3, GoneTo
  <2>3. /\ result[a] = NoResult /\ child[a] = "none" /\ past.spawned[a] = 0
        /\ v.cur.st = "Unknown" /\ app[a] # NoApp /\ v.cur.rev <= app[a].rev
        /\ v.cur.rev = app[a].rev => v.cur = app[a]
    BY <1>1, <1>2, <2>1, <2>2, Holder DEF CallSound, Running
  <2>4. past \in Histories /\ child \in [Applications -> {"none", "fed", "eof", "ok", "fail", "killed"}]
    BY DEF AInv, ATyped
  <2>5. PICK z \in Nat : z = past.spawned[a] + 1 /\ z <= 1
    BY <2>3
  <2>6. PICK s \in [Applications -> Nat] : s = [past.spawned EXCEPT ![a] = z]
    BY <2>4 DEF Histories
  <2>7. past' = [past EXCEPT !.spawned = s]
    BY <1>3, <2>1, <2>4, <2>5, <2>6 DEF Histories
  <2>8. /\ past' \in Histories /\ past'.spawned = s /\ past'.wrote = past.wrote
        /\ past'.orphan = past.orphan /\ past'.told = past.told
    BY <2>4, <2>7 DEF Histories
  <2>9. /\ child' \in [Applications -> {"none", "fed", "eof", "ok", "fail", "killed"}]
        /\ child'[a] = "fed" /\ s[a] = z
        /\ \A b \in Applications : b # a => child'[b] = child[b] /\ s[b] = past.spawned[b]
    BY <1>3, <2>1, <2>4, <2>6
  <2>10. call'[c] = v
    BY <2>2 DEF AInv, ATyped
  <2>11. CallSound(c)'
    BY <1>1, <2>1, <2>2, <2>3, <2>9, <2>10 DEF CallSound, Running, Reviewing, Ended
  <2>12. HoldsOn(c, v)
    BY <1>2, <1>3, <2>2, Holder, <1>1 DEF HoldsOn, Holding, Running
  <2>13. ChildSound(a) /\ AppSound(a)
    BY DEF AInv, ChildrenSound, AppsSound
  <2>14. ChildSound(a)'
    <3>1. Attended(a)'
      BY <1>2, <2>1, <2>2, <2>10, Holder DEF Attended
    <3> QED BY <1>1, <2>3, <2>5, <2>8, <2>9, <2>13, <3>1 DEF ChildSound
  <2>15. AppSound(a)'
    BY <1>1, <1>3, <2>3, <2>8, <2>9, <2>13 DEF AppSound, Justified, NoResult, Application!NoResult
  <2>16. intent' \subseteq Applications /\ intent \subseteq intent' /\ result' \in [Applications -> Results]
         /\ acount' \in ApplicationCounts /\ acount'.edit = acount.edit
    BY <1>1 DEF AInv, ATyped
  <2>17. \A b \in Applications : b # a =>
            /\ child'[b] = child[b] /\ result'[b] = result[b] /\ (b \in intent' <=> b \in intent)
            /\ past'.spawned[b] = past.spawned[b]
    BY <1>1, <2>8, <2>9
  <2>18. UNCHANGED <<file, app, todo, quiet, daemon>>
    BY <1>1, <1>3
  <2> QED BY <1>2, <2>1, <2>2, <2>8, <2>9, <2>11, <2>12, <2>14, <2>15, <2>16, <2>17, <2>18, HolderMoves
<1>4. CASE Application!Reply(c, "Unknown") /\ UNCHANGED child
  BY <1>1, <1>4, ApplicationReplyKeeps DEF Answers
<1> QED BY <1>3, <1>4 DEF Application!Recheck

\* The child has ended, by itself or not.
LEMMA ChildEnds ==
  ASSUME AInv, NEW c \in Everyone, call[c].pc \in {"feed", "wait"},
         NEW a \in Applications, a = call[c].a, NEW e \in {"ok", "fail", "abnormal"},
         NEW k \in {"ok", "fail", "killed"}, k = "killed" <=> e = "abnormal",
         e \in {"ok", "fail"} => k = e /\ child[a] = e,
         call' = [call EXCEPT ![c].pc = "post", ![c].ex = e], child' = [child EXCEPT ![a] = k],
         acount' \in ApplicationCounts, acount'.edit = acount.edit,
         UNCHANGED <<file, app, intent, result, todo, lease, past, quiet, daemon>>
  PROVE  AInv'
<1>1. call[c].pc \in Holding
  BY DEF Holding, Running
<1>2. call[c] \in Calls /\ c \in Callers /\ c # "boot" /\ lease = c /\ daemon = "up" /\ CallSound(c)
  BY <1>1, Holder
<1>3. PICK v \in Calls : v = [call[c] EXCEPT !.pc = "post", !.ex = e]
  BY <1>2 DEF Calls, Exits
<1>4. v.pc = "post" /\ v.ex = e /\ v.a = a /\ v.cur = call[c].cur
  BY <1>2, <1>3 DEF Calls
<1>5. call' = [call EXCEPT ![c] = v]
  BY <1>2, <1>3 DEF AInv, ATyped, Calls
<1>6. call'[c] = v
  BY <1>5 DEF AInv, ATyped
<1>7. /\ child' \in [Applications -> {"none", "fed", "eof", "ok", "fail", "killed"}]
      /\ child'[a] = k /\ \A b \in Applications : b # a => child'[b] = child[b]
  BY DEF AInv, ATyped
<1>8. /\ result[a] = NoResult /\ v.cur.st = "Unknown" /\ app[a] # NoApp
      /\ v.cur.rev <= app[a].rev /\ (v.cur.rev = app[a].rev => v.cur = app[a])
  BY <1>2, <1>4 DEF CallSound, Running
<1>9. CallSound(c)'
  BY <1>4, <1>6, <1>7, <1>8 DEF CallSound, Running, Reviewing, Ended, Justified
<1>10. HoldsOn(c, v)
  BY <1>2, <1>4 DEF HoldsOn, Holding, Running
<1>11. ChildSound(a) /\ AppSound(a)
  BY DEF AInv, ChildrenSound, AppsSound
<1>12. ChildSound(a)'
  BY <1>7, <1>11 DEF ChildSound
<1>13. AppSound(a)'
  BY <1>7, <1>8, <1>11 DEF AppSound, Justified, NoResult, Application!NoResult
<1>14. /\ intent' \subseteq Applications /\ result' \in [Applications -> Results]
       /\ past' \in Histories
  BY DEF AInv, ATyped
<1>15. \A b \in Applications : b # a =>
            /\ child'[b] = child[b] /\ result'[b] = result[b] /\ (b \in intent' <=> b \in intent)
            /\ past'.spawned[b] = past.spawned[b]
  BY <1>7
<1> QED BY <1>1, <1>5, <1>7, <1>9, <1>10, <1>12, <1>13, <1>14, <1>15, HolderMoves

LEMMA FeedKeeps ==
  ASSUME AInv, NEW c \in Everyone, Application!Feed(c)
  PROVE  AInv'
<1>1. call[c].pc = "feed"
      /\ UNCHANGED <<file, app, result, todo, lease, past, quiet, daemon>>
  BY DEF Application!Feed, Application!Step, Application!control
<1>2. call[c].pc \in Holding
  BY <1>1 DEF Holding, Running
<1>3. PICK a \in Applications : a = call[c].a
  BY <1>2, Holder
<1>4. CASE /\ intent' = intent \cup {a} /\ child' = [child EXCEPT ![a] = "eof"]
           /\ Application!Goto(c, "wait") /\ UNCHANGED acount
  <2>1. PICK v \in Calls : call' = [call EXCEPT ![c] = v] /\ v.pc = "wait" /\ v.a = call[c].a
                           /\ v.cur = call[c].cur
    BY <1>4, GoneTo
  <2>2. /\ result[a] = NoResult /\ child[a] = "fed"
        /\ v.cur.st = "Unknown" /\ app[a] # NoApp /\ v.cur.rev <= app[a].rev
        /\ v.cur.rev = app[a].rev => v.cur = app[a]
    BY <1>1, <1>2, <1>3, <2>1, Holder DEF CallSound, Running
  <2>3. /\ child' \in [Applications -> {"none", "fed", "eof", "ok", "fail", "killed"}]
        /\ child'[a] = "eof" /\ \A b \in Applications : b # a => child'[b] = child[b]
    BY <1>4 DEF AInv, ATyped
  <2>4. intent' \subseteq Applications /\ a \in intent' /\ intent \subseteq intent'
        /\ \A b \in Applications : b # a => (b \in intent' <=> b \in intent)
    BY <1>4 DEF AInv, ATyped
  <2>5. call'[c] = v
    BY <2>1 DEF AInv, ATyped
  <2>6. CallSound(c)'
    BY <1>1, <1>3, <2>1, <2>2, <2>3, <2>4, <2>5 DEF CallSound, Running, Reviewing, Ended
  <2>7. HoldsOn(c, v)
    BY <1>1, <1>2, <2>1, Holder DEF HoldsOn, Holding, Running
  <2>8. ChildSound(a) /\ AppSound(a)
    BY DEF AInv, ChildrenSound, AppsSound
  <2>9. Attended(a)'
    BY <1>2, <1>3, <2>1, <2>5, Holder DEF Attended
  <2>10. ChildSound(a)'
    BY <1>1, <2>2, <2>3, <2>4, <2>8, <2>9 DEF ChildSound
  <2>11. AppSound(a)'
    BY <1>1, <1>4, <2>2, <2>3, <2>4, <2>8 DEF AppSound, Justified, NoResult, Application!NoResult
  <2>12. result' \in [Applications -> Results] /\ past' \in Histories
         /\ acount' \in ApplicationCounts /\ acount'.edit = acount.edit
    BY <1>1, <1>4 DEF AInv, ATyped
  <2>13. \A b \in Applications : b # a =>
            /\ child'[b] = child[b] /\ result'[b] = result[b] /\ (b \in intent' <=> b \in intent)
            /\ past'.spawned[b] = past.spawned[b]
    BY <1>1, <2>3, <2>4
  <2> QED BY <1>1, <1>2, <1>3, <2>1, <2>3, <2>4, <2>6, <2>7, <2>10, <2>11, <2>12, <2>13, HolderMoves
<1>5. CASE /\ UNCHANGED acount \/ Application!Counted("fault")
           /\ child' = [child EXCEPT ![a] = "killed"]
           /\ call' = [call EXCEPT ![c].pc = "post", ![c].ex = "abnormal"] /\ UNCHANGED intent
  <2>1. acount' \in ApplicationCounts /\ acount'.edit = acount.edit
    BY <1>5, Faulted
  <2> QED BY <1>1, <1>3, <1>5, <2>1, ChildEnds
<1> QED BY <1>3, <1>4, <1>5 DEF Application!Feed, Application!capture_intent_frame

LEMMA WaitKeeps ==
  ASSUME AInv, NEW c \in Everyone, Application!Wait(c)
  PROVE  AInv'
<1>1. call[c].pc = "wait"
      /\ UNCHANGED <<file, app, intent, result, todo, lease, past, quiet, daemon>>
  BY DEF Application!Wait, Application!Step, Application!store, Application!control
<1>2. acount' \in ApplicationCounts /\ acount'.edit = acount.edit
  BY Faulted DEF Application!Wait
<1>3. PICK a \in Applications : a = call[c].a
  BY <1>1, Holder DEF Holding, Running
<1>4. CASE /\ child[a] \in {"ok", "fail"} /\ UNCHANGED child
           /\ call' = [call EXCEPT ![c].pc = "post", ![c].ex = child[a]]
  <2>1. PICK e \in {"ok", "fail"} : e = child[a]
    BY <1>4
  <2>2. child' = [child EXCEPT ![a] = e]
    BY <1>4, <2>1 DEF AInv, ATyped
  <2>3. call' = [call EXCEPT ![c].pc = "post", ![c].ex = e]
    BY <1>4, <2>1
  <2> QED BY <1>1, <1>2, <1>3, <2>1, <2>2, <2>3, ChildEnds
<1>5. CASE /\ child' = Application!terminate(a)
           /\ call' = [call EXCEPT ![c].pc = "post", ![c].ex = "abnormal"]
  <2>1. child' = [child EXCEPT ![a] = "killed"]
    BY <1>5 DEF Application!terminate
  <2> QED BY <1>1, <1>2, <1>3, <1>5, <2>1, ChildEnds
<1> QED BY <1>3, <1>4, <1>5 DEF Application!Wait

LEMMA ChildRunsKeeps ==
  ASSUME AInv, NEW a \in Applications, Application!ChildRuns(a)
  PROVE  AInv'
<1>1. child[a] = "eof"
      /\ UNCHANGED <<call, todo, lease, app, intent, result, quiet, daemon>>
  BY DEF Application!ChildRuns, Application!store, Application!control
<1>2. past \in Histories /\ file \in Files /\ acount \in ApplicationCounts
      /\ child \in [Applications -> {"none", "fed", "eof", "ok", "fail", "killed"}]
  BY DEF AInv, ATyped
<1>3. acount' \in ApplicationCounts /\ acount'.edit = acount.edit
  BY Faulted DEF Application!ChildRuns
<1>4. PICK k \in {"ok", "fail"}, w \in SUBSET Applications :
        /\ child' = [child EXCEPT ![a] = k]
        /\ \/ w = past.wrote /\ file' = file /\ past' = past /\ k = "fail"
           \/ /\ w = past.wrote \cup {a} /\ past' = [past EXCEPT !.wrote = w]
              /\ \E z \in {"patched", "other"} : file' = [c |-> z, id |-> file.id + 1]
  <2>1. past.wrote \in SUBSET Applications /\ past.wrote \cup {a} \in SUBSET Applications
    BY <1>2 DEF Histories
  <2>2. CASE /\ child' = [child EXCEPT ![a] = "ok"]
             /\ file' = [c |-> "patched", id |-> file.id + 1]
             /\ past' = [past EXCEPT !.wrote = @ \cup {a}]
    BY <2>1, <2>2
  <2>3. CASE child' = [child EXCEPT ![a] = "fail"] /\ UNCHANGED <<file, past>>
    BY <2>1, <2>3
  <2>4. CASE /\ child' = [child EXCEPT ![a] = "fail"]
             /\ file' = [c |-> "other", id |-> file.id + 1]
             /\ past' = [past EXCEPT !.wrote = @ \cup {a}]
    BY <2>1, <2>4
  <2> QED BY <2>2, <2>3, <2>4 DEF Application!ChildRuns
<1>5. /\ child' \in [Applications -> {"none", "fed", "eof", "ok", "fail", "killed"}]
      /\ child'[a] = k /\ \A b \in Applications : b # a => child'[b] = child[b]
  BY <1>2, <1>4
<1>6. file' \in Files
  <2>1. PICK n \in Nat : n = file.id + 1
    BY <1>2 DEF Files
  <2> QED BY <1>2, <1>4, <2>1 DEF Files
<1>7. (file' = file /\ w = past.wrote) \/ file'.c # "pre"
  BY <1>4
<1>8. /\ past' \in Histories /\ past'.wrote = w /\ past'.spawned = past.spawned
      /\ past'.told = past.told /\ past'.orphan = past.orphan
  BY <1>2, <1>4 DEF Histories
<1>9. /\ w \in {past.wrote, past.wrote \cup {a}} /\ (k = "ok" => a \in w)
      /\ \A b \in Applications : b # a => (b \in w <=> b \in past.wrote)
  BY <1>4
<1>10. ATyped' /\ CallsHold'
  BY <1>1, <1>3, <1>5, <1>6, <1>8 DEF AInv, ATyped, CallsHold
<1>11. ChildSound(a) /\ AppSound(a)
  BY DEF AInv, ChildrenSound, AppsSound
<1>12. CallsSound'
  <2> SUFFICES ASSUME NEW d \in Everyone  PROVE CallSound(d)'
    BY DEF CallsSound
  <2>1. CallSound(d) /\ call'[d] = call[d]
    BY <1>1 DEF AInv, CallsSound
  <2>2. CASE call[d].pc \in Running /\ call[d].a = a
    <3>1. call[d].pc = "wait"
      BY <1>1, <2>1, <2>2 DEF CallSound, Running, Ended
    <3> QED BY <1>1, <1>5, <2>1, <2>2, <3>1 DEF CallSound, Ended
  <2>3. CASE ~(call[d].pc \in Running /\ call[d].a = a)
    <3>1. call[d].pc \in Running => call[d].a # a /\ call[d].a \in Applications
      BY <2>1, <2>3 DEF CallSound, Running
    <3> QED BY <1>1, <1>3, <1>5, <1>8, <1>9, <1>10, <2>1, <3>1, OtherCall DEF ATyped
  <2> QED BY <2>2, <2>3
<1>13. \A b \in Applications : Attended(b)' <=> Attended(b)
  BY <1>1 DEF Attended
<1>14. ChildSound(a)'
  BY <1>1, <1>5, <1>8, <1>9, <1>11 DEF ChildSound
<1>15. AppSound(a)'
  <2>1. result[a] = NoResult /\ app[a] # NoApp /\ ~app[a].post
    BY <1>1, <1>11 DEF ChildSound, AppSound, NoResult, Application!NoResult
  <2> QED BY <1>1, <1>11, <2>1 DEF AppSound, Justified, NoResult, Application!NoResult
<1>16. ASSUME NEW b \in Applications, b # a  PROVE ChildSound(b)' /\ AppSound(b)'
  <2>1. ChildSound(b) /\ AppSound(b) /\ (Attended(b)' <=> Attended(b))
    BY <1>13 DEF AInv, ChildrenSound, AppsSound
  <2>2. child'[b] = child[b] /\ (b \in past'.wrote <=> b \in past.wrote)
        /\ past'.spawned[b] = past.spawned[b] /\ past'.orphan = past.orphan
    BY <1>5, <1>8, <1>9, <1>16
  <2>3. ChildSound(b)'
    BY <1>1, <2>1, <2>2 DEF ChildSound
  <2>4. AppSound(b)'
    BY <1>1, <1>3, <2>1, <2>2 DEF AppSound, Justified
  <2> QED BY <2>3, <2>4
<1>17. ChildrenSound' /\ AppsSound'
  BY <1>14, <1>15, <1>16 DEF ChildrenSound, AppsSound
<1>18. Marked'
  BY <1>3, <1>7, <1>8 DEF AInv, Marked
<1>19. Application!ToldIsDurable'
  BY <1>1, <1>8 DEF AInv, Application!ToldIsDurable
<1> QED BY <1>10, <1>12, <1>17, <1>18, <1>19 DEF AInv

-----------------------------------------------------------------------------
(* The applications: what happened.                                           *)

LEMMA PostBeginKeeps ==
  ASSUME AInv, NEW c \in Everyone, Application!PostBegin(c)
  PROVE  AInv'
<1>1. call[c].pc = "post" /\ call' = [call EXCEPT ![c].pc = "stable", ![c].fid = file.id]
      /\ UNCHANGED <<file, app, intent, result, child, quiet, daemon, todo, lease, past, acount>>
  BY DEF Application!PostBegin, Application!Step, Application!world, Application!store,
         Application!control
<1>2. call[c] \in Calls /\ c # "boot" /\ file.id \in Int
  BY <1>1, Holder DEF Holding, Running, AInv, ATyped, Files
<1>3. PICK v \in Calls : v = [call[c] EXCEPT !.pc = "stable", !.fid = file.id]
  BY <1>2 DEF Calls
<1>4. v.pc = "stable" /\ v.a = call[c].a /\ v.cur = call[c].cur /\ v.ex = call[c].ex
  BY <1>2, <1>3 DEF Calls
<1>5. call' = [call EXCEPT ![c] = v]
  BY <1>1, <1>2, <1>3 DEF AInv, ATyped, Calls
<1>6. HoldsOn(c, v)
  BY <1>1, <1>2, <1>4, StillCalled DEF Holding, Running, Reviewing
<1> QED BY <1>1, <1>4, <1>5, <1>6, CallGoesTo DEF Running, Reviewing, Ended

LEMMA PostSnapshotKeeps ==
  ASSUME AInv, NEW c \in Everyone, Application!capture_post_snapshot(c)
  PROVE  AInv'
<1>1. call[c].pc = "stable"
      /\ UNCHANGED <<file, app, intent, result, child, quiet, daemon, todo, lease, past, acount>>
  BY DEF Application!capture_post_snapshot, Application!Step, Application!world, Application!store,
         Application!control
<1>2. call[c] \in Calls /\ c # "boot"
  BY <1>1, Holder DEF Holding, Running
<1>3. PICK ok \in BOOLEAN : call' = [call EXCEPT ![c].pc = "verify", ![c].post = ok,
                                               ![c].fid = IF ok THEN @ ELSE -1]
  BY DEF Application!capture_post_snapshot
<1>4. PICK n \in Int : n = IF ok THEN call[c].fid ELSE -1
  BY <1>2 DEF Calls
<1>5. PICK v \in Calls : v = [call[c] EXCEPT !.pc = "verify", !.post = ok, !.fid = n]
  BY <1>2 DEF Calls
<1>6. v.pc = "verify" /\ v.a = call[c].a /\ v.cur = call[c].cur /\ v.ex = call[c].ex
  BY <1>2, <1>5 DEF Calls
<1>7. call' = [call EXCEPT ![c].pc = "verify", ![c].post = ok, ![c].fid = n]
  BY <1>2, <1>3, <1>4 DEF AInv, ATyped, Calls
<1>8. call' = [call EXCEPT ![c] = v]
  BY <1>2, <1>5, <1>7 DEF AInv, ATyped, Calls
<1>9. HoldsOn(c, v)
  BY <1>1, <1>2, <1>6, StillCalled DEF Holding, Running, Reviewing
<1> QED BY <1>1, <1>6, <1>8, <1>9, CallGoesTo DEF Running, Reviewing, Ended

\* What the file shows about the child that ended, now or at a later examination.
LEMMA VerdictIsJustified ==
  ASSUME AInv, NEW a \in Applications, NEW e \in {"none", "ok", "fail", "abnormal"},
         e \in {"ok", "fail"} => child[a] = e
  PROVE  Application!verdict(e) \in Verdicts /\ Justified(a, e, Application!verdict(e))
BY DEF Application!verdict, Verdicts, Justified, AInv, Marked, ATyped, ApplicationCounts

LEMMA VerifyKeeps ==
  ASSUME AInv, NEW c \in Everyone, Application!verify_patch_outcome(c)
  PROVE  AInv'
<1>1. call[c].pc = "verify"
      /\ call' = [call EXCEPT ![c].pc = "persist",
                ![c].ver = IF call[c].post THEN Application!verdict(call[c].ex) ELSE "none"]
      /\ UNCHANGED <<file, app, intent, result, child, quiet, daemon, todo, lease, past, acount>>
  BY DEF Application!verify_patch_outcome, Application!Step, Application!world, Application!store,
         Application!control
<1>2. call[c] \in Calls /\ c # "boot" /\ call[c].a \in Applications /\ CallSound(c)
  BY <1>1, Holder DEF Holding, Running
<1>3. call[c].ex \in {"none", "ok", "fail", "abnormal"} /\ Justified(call[c].a, call[c].ex, "none")
  BY <1>1, <1>2 DEF CallSound, Ended
<1>4. PICK r \in Verdicts :
        r = (IF call[c].post THEN Application!verdict(call[c].ex) ELSE "none")
        /\ Justified(call[c].a, call[c].ex, r)
  BY <1>2, <1>3, VerdictIsJustified DEF Justified, Verdicts
<1>5. PICK v \in Calls : v = [call[c] EXCEPT !.pc = "persist", !.ver = r]
  BY <1>2 DEF Calls
<1>6. v.pc = "persist" /\ v.a = call[c].a /\ v.cur = call[c].cur /\ v.ex = call[c].ex /\ v.ver = r
  BY <1>2, <1>5 DEF Calls
<1>7. call' = [call EXCEPT ![c].pc = "persist", ![c].ver = r]
  BY <1>1, <1>4
<1>8. call' = [call EXCEPT ![c] = v]
  BY <1>2, <1>5, <1>7 DEF AInv, ATyped, Calls
<1>9. HoldsOn(c, v)
  BY <1>1, <1>2, <1>6, StillCalled DEF Holding, Running, Reviewing
<1>10. UNCHANGED <<file, app, intent, result, child, quiet, daemon, todo, lease, past, acount>>
  BY <1>1
<1> QED BY <1>1, <1>4, <1>6, <1>8, <1>9, <1>10, CallGoesTo DEF Running, Reviewing, Ended

LEMMA PersistKeeps ==
  ASSUME AInv, NEW c \in Everyone, Application!persist_terminal_evidence(c)
  PROVE  AInv'
<1>1. call[c].pc = "persist" /\ UNCHANGED <<file, child, app, intent, quiet, daemon>>
  BY DEF Application!persist_terminal_evidence, Application!Step, Application!world,
         Application!control
<1>2. call[c].pc \in Holding /\ call[c].pc \in Running /\ call[c].pc \in Ended
  BY <1>1 DEF Holding, Running, Ended
<1>3. call[c] \in Calls /\ CallSound(c)
  BY <1>2, Holder
<1>4. PICK a \in Applications : a = call[c].a
  BY <1>2, Holder
<1>5. CASE /\ result' = [result EXCEPT ![a] = [ex |-> call[c].ex, ver |-> call[c].ver,
                                               fid |-> call[c].fid, post |-> call[c].post]]
           /\ Application!Goto(c, "reconcile") /\ UNCHANGED <<todo, lease, past, acount>>
  <2>1. PICK v \in Calls : call' = [call EXCEPT ![c] = v] /\ v.pc = "reconcile" /\ v.a = call[c].a
                           /\ v.cur = call[c].cur
    BY <1>5, GoneTo
  <2>2. /\ result[a] = NoResult /\ child[a] \in {"ok", "fail", "killed"}
        /\ v.cur.st = "Unknown" /\ app[a] # NoApp /\ v.cur.rev <= app[a].rev
        /\ v.cur.rev = app[a].rev => v.cur = app[a]
    BY <1>2, <1>3, <1>4, <2>1 DEF CallSound
  <2>3. call[c].ex \in {"ok", "fail", "abnormal"} /\ Justified(a, call[c].ex, call[c].ver)
    BY <1>1, <1>2, <1>3, <1>4 DEF CallSound
  <2>4. PICK r \in Results : r = [ex |-> call[c].ex, ver |-> call[c].ver,
                                  fid |-> call[c].fid, post |-> call[c].post]
    BY <1>3, <2>3 DEF Results, Exits, Calls
  <2>5. r.ex = call[c].ex /\ r.ver = call[c].ver
    BY <2>4
  <2>6. /\ result' \in [Applications -> Results] /\ result'[a] = r
        /\ \A b \in Applications : b # a => result'[b] = result[b]
    BY <1>5, <2>4 DEF AInv, ATyped
  <2>7. call'[c] = v
    BY <2>1 DEF AInv, ATyped
  <2>8. CallSound(c)'
    BY <1>1, <1>4, <2>1, <2>2, <2>7 DEF CallSound, Running, Reviewing, Ended
  <2>9. HoldsOn(c, v)
    BY <1>1, <1>2, <1>5, <2>1, Holder DEF HoldsOn, Holding, Running
  <2>10. ChildSound(a) /\ AppSound(a)
    BY DEF AInv, ChildrenSound, AppsSound
  <2>11. past' = past /\ acount' = acount /\ todo' = todo
    BY <1>5
  <2>12. ChildSound(a)'
    BY <1>1, <2>2, <2>10, <2>11 DEF ChildSound
  <2>13. ~app[a].post /\ app[a].post \in BOOLEAN
    BY <2>2, <2>10 DEF AppSound, NoResult, Application!NoResult, AInv, ATyped, Revisions
  <2>14. Justified(a, r.ex, r.ver)'
    BY <1>1, <2>3, <2>5, <2>11 DEF Justified
  <2>15. AppSound(a)'
    BY <1>1, <2>2, <2>6, <2>10, <2>11, <2>13, <2>14 DEF AppSound
  <2>16. /\ child' \in [Applications -> {"none", "fed", "eof", "ok", "fail", "killed"}]
         /\ intent' \subseteq Applications /\ past' \in Histories
         /\ acount' \in ApplicationCounts /\ acount'.edit = acount.edit
    BY <1>1, <2>11 DEF AInv, ATyped
  <2>17. \A b \in Applications : b # a =>
            /\ child'[b] = child[b] /\ result'[b] = result[b] /\ (b \in intent' <=> b \in intent)
            /\ past'.spawned[b] = past.spawned[b]
    BY <1>1, <2>6, <2>11
  <2> QED BY <1>1, <1>2, <1>4, <2>1, <2>6, <2>8, <2>9, <2>11, <2>12, <2>15, <2>16, <2>17, HolderMoves
<1>6. CASE Application!Counted("fault") /\ Application!Reply(c, "error") /\ UNCHANGED result
  BY <1>1, <1>6, ApplicationReplyKeeps
<1> QED BY <1>4, <1>5, <1>6 DEF Application!persist_terminal_evidence

-----------------------------------------------------------------------------
(* The applications: the revisions that settle one.                           *)

LEMMA Reviews ==
  ASSUME AInv, NEW c \in Everyone, call[c].pc \in Reviewing
  PROVE  /\ call[c] \in Calls /\ call[c].a \in Applications /\ CallSound(c)
         /\ call[c].cur \in Revisions /\ call[c].cur.st = "Unknown"
         /\ call[c].pc \notin {"idle", "feed", "wait"} /\ call[c].pc \notin Holding
BY Called DEF Reviewing, Holding, Running, Calls, CallSound

LEMMA ReconcileKeeps ==
  ASSUME AInv, NEW c \in Everyone, Application!Reconcile(c)
  PROVE  AInv'
<1>1. call[c].pc = "reconcile"
      /\ UNCHANGED <<file, app, intent, result, child, quiet, daemon, acount>>
  BY DEF Application!Reconcile, Application!Step, Application!world, Application!store,
         Application!control
<1>2. call[c].pc \in Reviewing
  BY <1>1 DEF Reviewing
<1>3. ASSUME NEW pc \in {"outcome", "deliver"}, Application!Goto(c, pc), UNCHANGED <<todo, lease, past>>,
             pc = "outcome" => call[c].cur.deliv = "Delivered", pc = "deliver" => call[c].a \in intent
      PROVE  AInv'
  <2>1. PICK v \in Calls : call' = [call EXCEPT ![c] = v] /\ v.pc = pc /\ v.a = call[c].a
                           /\ v.cur = call[c].cur
    BY <1>3, GoneTo
  <2>2. v.pc \in Reviewing /\ v.pc \notin Running /\ v.pc \notin Ended /\ v.pc \notin Holding
        /\ v.pc \notin {"idle", "recheck", "feed", "wait", "persist"}
    BY <2>1 DEF Reviewing, Running, Ended, Holding
  <2>3. HoldsOn(c, v)
    BY <1>1, <1>2, <1>3, <2>1, <2>2, StillCalled
  <2> QED BY <1>1, <1>2, <1>3, <2>1, <2>2, <2>3, CallGoesTo
<1>4. CASE Application!Reply(c, call[c].cur.st)
  BY <1>1, <1>2, <1>4, Reviews, ApplicationReplyKeeps DEF Answers
<1> QED BY <1>3, <1>4 DEF Application!Reconcile

\* A successor of the current revision, which the reviewing call leaves behind or goes on with.
LEMMA RevisionKeeps ==
  ASSUME AInv, NEW c \in Everyone, call[c].pc \in {"deliver", "outcome"},
         NEW a \in Applications, a = call[c].a, app[a].rev = call[c].cur.rev,
         NEW w \in Revisions, w.rev = call[c].cur.rev + 1, app' = [app EXCEPT ![a] = w],
         w.st # "none", w.deliv = "Delivered" => a \in intent, w.post => result[a].post,
         w.st \in {"Applied", "Failed"} => w.deliv = "Delivered" /\ w.post /\ a \notin todo',
         w.st = "Applied" => result[a].ex = "ok",
         w.st = "Failed" => a \notin past.wrote \/ acount.edit > 0,
         NEW v \in Calls, call' = [call EXCEPT ![c] = v], HoldsOn(c, v),
         v.pc \in {"idle", "outcome"},
         v.pc = "outcome" => v.a = a /\ v.cur = w /\ w.deliv = "Delivered" /\ w.st = "Unknown",
         todo' \subseteq todo, SaysOnly,
         past'.told \subseteq past.told \cup {<<a, w.st>>},
         UNCHANGED <<file, intent, result, child, quiet, daemon, acount>>
  PROVE  AInv'
<1>1. /\ call' \in [Everyone -> Calls] /\ call'[c] = v
      /\ \A d \in Everyone : d # c => call'[d] = call[d]
  BY DEF AInv, ATyped
<1>2. /\ app' \in [Applications -> Revisions] /\ app'[a] = w
      /\ \A b \in Applications : b # a => app'[b] = app[b]
  BY DEF AInv, ATyped
<1>3. call[c].pc \in Reviewing /\ CallSound(c) /\ call[c].cur \in Revisions
      /\ call[c].cur.st = "Unknown"
  BY Reviews DEF Reviewing
<1>4. app[a] # NoApp /\ app[a].st = "Unknown" /\ w # NoApp
  BY <1>3 DEF CallSound, NoApp, Application!NoApp
<1>5. ATyped'
  BY <1>1, <1>2 DEF AInv, ATyped, SaysOnly
<1>6. CallsSound'
  <2>1. CallSound(c)'
    BY <1>1, <1>2, <1>4 DEF CallSound, Running, Reviewing, Ended, Revisions
  <2>2. ASSUME NEW d \in Everyone, d # c  PROVE CallSound(d)'
    <3>1. call[d].pc \in Running \cup Reviewing => call[d].a \in Applications
      BY Called DEF Running, Reviewing
    <3>2. call[d].pc \in Running \cup Reviewing =>
           \/ app'[call[d].a] = app[call[d].a]
           \/ app'[call[d].a].rev = app[call[d].a].rev + 1 /\ app'[call[d].a] # NoApp
      BY <1>2, <1>4, <3>1
    <3> QED BY <1>1, <1>2, <2>2, <3>2, OtherCall DEF SaysOnly
  <2> QED BY <2>1, <2>2 DEF CallsSound
<1>7. CallsHold'
  BY HoldKeeps
<1>8. \A b \in Applications : Attended(b) => Attended(b)'
  BY <1>1, Everybody DEF Attended
<1>9. ChildrenSound'
  BY <1>8 DEF AInv, ChildrenSound, ChildSound, SaysOnly
<1>10. AppSound(a)'
  <2>1. AppSound(a)
    BY DEF AInv, AppsSound
  <2> QED BY <1>2, <1>4, <2>1 DEF AppSound, Justified, SaysOnly, Revisions
<1>11. ASSUME NEW b \in Applications, b # a  PROVE AppSound(b)'
  <2>1. AppSound(b) /\ app'[b] = app[b]
    BY <1>2, <1>11 DEF AInv, AppsSound
  <2> QED BY <2>1 DEF AppSound, Justified, SaysOnly
<1>12. AppsSound' /\ Marked'
  BY <1>10, <1>11 DEF AppsSound, AInv, Marked, SaysOnly
<1>13. Application!ToldIsDurable'
  <2> SUFFICES ASSUME NEW t \in past'.told, t[2] \in {"Applied", "Failed"}
               PROVE  app'[t[1]].st = t[2]
    BY DEF Application!ToldIsDurable
  <2>1. CASE t \in past.told
    <3>1. app[t[1]].st = t[2] /\ t[1] \in Applications
      BY <2>1 DEF AInv, Application!ToldIsDurable, ATyped, Histories
    <3> QED BY <1>2, <1>4, <3>1
  <2>2. CASE t = <<a, w.st>>
    BY <1>2, <2>2
  <2> QED BY <2>1, <2>2
<1> QED BY <1>5, <1>6, <1>7, <1>9, <1>12, <1>13 DEF AInv

LEMMA DeliverKeeps ==
  ASSUME AInv, NEW c \in Everyone, Application!Deliver(c)
  PROVE  AInv'
<1>1. call[c].pc = "deliver" /\ UNCHANGED <<file, child, intent, result, quiet, daemon>>
  BY DEF Application!Deliver, Application!Step, Application!world, Application!control
<1>2. call[c] \in Calls /\ CallSound(c) /\ call[c].cur \in Revisions /\ call[c].cur.st = "Unknown"
      /\ call[c].pc \notin {"idle", "feed", "wait"} /\ call[c].pc \in Reviewing
  BY <1>1, Reviews DEF Reviewing
<1>3. PICK a \in Applications : a = call[c].a
  BY <1>2, Reviews
<1>4. result[a].post \in BOOLEAN /\ a \in intent /\ c \in Everyone
  BY <1>1, <1>2, <1>3 DEF AInv, ATyped, Results, CallSound
<1>5. CASE /\ app[a].rev = call[c].cur.rev
           /\ app' = [app EXCEPT ![a] = [[call[c].cur EXCEPT !.deliv = "Delivered",
                        !.post = result[a].post] EXCEPT !.rev = call[c].cur.rev + 1]]
           /\ call' = [call EXCEPT ![c].pc = "outcome", ![c].cur = app'[a]]
           /\ UNCHANGED <<todo, lease, past, acount>>
  <2>1. PICK n \in Nat : n = call[c].cur.rev + 1
    BY <1>2 DEF Revisions
  <2>2. PICK u \in Revisions : u = [call[c].cur EXCEPT !.deliv = "Delivered", !.post = result[a].post]
    BY <1>2, <1>4 DEF Revisions
  <2>3. u.deliv = "Delivered" /\ u.post = result[a].post /\ u.st = "Unknown"
    BY <1>2, <1>4, <2>2 DEF Revisions
  <2>4. PICK w \in Revisions : w = [u EXCEPT !.rev = n]
    BY DEF Revisions
  <2>5. w.deliv = "Delivered" /\ w.post = result[a].post /\ w.st = "Unknown" /\ w.rev = n
    BY <2>3, <2>4 DEF Revisions
  <2>6. app' = [app EXCEPT ![a] = w]
    BY <1>5, <2>1, <2>2, <2>4
  <2>7. app'[a] = w
    BY <2>6 DEF AInv, ATyped
  <2>8. call' = [call EXCEPT ![c].pc = "outcome", ![c].cur = w]
    BY <1>5, <2>7
  <2>9. PICK v \in Calls : v = [call[c] EXCEPT !.pc = "outcome", !.cur = w]
    BY <1>2 DEF Calls
  <2>10. v.pc = "outcome" /\ v.a = a /\ v.cur = w
    BY <1>2, <1>3, <2>9 DEF Calls
  <2>11. call' = [call EXCEPT ![c] = v]
    BY <1>2, <2>8, <2>9 DEF AInv, ATyped, Calls
  <2>12. UNCHANGED <<todo, lease, past, acount>> /\ app[a].rev = call[c].cur.rev
    BY <1>5
  <2>13. HoldsOn(c, v)
    BY <1>1, <1>2, <2>10, <2>12, StillCalled DEF Reviewing, Holding, Running
  <2>14. SaysOnly /\ past'.told \subseteq past.told \cup {<<a, w.st>>} /\ todo' \subseteq todo
    BY <2>12 DEF SaysOnly, AInv, ATyped
  <2> QED BY <1>1, <1>3, <1>4, <2>1, <2>5, <2>6, <2>10, <2>11, <2>12, <2>13, <2>14, RevisionKeeps
<1>6. CASE Application!Reply(c, "error") /\ UNCHANGED app
           /\ (UNCHANGED acount \/ Application!Counted("fault"))
  BY <1>1, <1>2, <1>6, ApplicationReplyKeeps
<1> QED BY <1>3, <1>5, <1>6 DEF Application!Deliver, Application!Revise, Application!is_successor_of

LEMMA OutcomeIsJustified ==
  ASSUME AInv, NEW a \in Applications
  PROVE  Application!Outcome(a) \in Verdicts /\ Justified(a, result[a].ex, Application!Outcome(a))
<1>1. AppSound(a) /\ result[a] \in Results
  BY DEF AInv, AppsSound, ATyped
<1>2. result[a].ex \in {"none", "ok", "fail", "abnormal"} /\ result[a].ver \in Verdicts
      /\ Justified(a, result[a].ex, result[a].ver)
  BY <1>1 DEF AppSound, Results, Exits
<1>3. /\ Application!verdict(result[a].ex) \in Verdicts
      /\ Justified(a, result[a].ex, Application!verdict(result[a].ex))
  BY <1>2, VerdictIsJustified DEF Justified
<1>4. Justified(a, result[a].ex, "none") /\ "none" \in Verdicts
  BY <1>2 DEF Justified, Verdicts
<1> QED BY <1>2, <1>3, <1>4 DEF Application!Outcome, Application!fresh_replay_verifier

LEMMA SettleKeeps ==
  ASSUME AInv, NEW c \in Everyone, Application!Settle(c)
  PROVE  AInv'
<1>1. call[c].pc = "outcome" /\ UNCHANGED <<file, child, intent, result, quiet, daemon>>
  BY DEF Application!Settle, Application!Step, Application!world, Application!control
<1>2. call[c] \in Calls /\ CallSound(c) /\ call[c].cur \in Revisions /\ call[c].cur.st = "Unknown"
      /\ call[c].pc \notin {"idle", "feed", "wait"} /\ call[c].pc \in Reviewing
  BY <1>1, Reviews DEF Reviewing
<1>3. PICK a \in Applications : a = call[c].a
  BY <1>2, Reviews
<1>4. call[c].cur.deliv = "Delivered"
  BY <1>1, <1>2 DEF CallSound
<1>5. PICK z \in Verdicts : z = Application!Outcome(a) /\ Justified(a, result[a].ex, z)
  BY OutcomeIsJustified
<1>6. PICK s \in {"Applied", "Failed"} : s = IF z = "Applied" THEN "Applied" ELSE "Failed"
  OBVIOUS
<1>7. CASE /\ call[c].cur.post /\ z # "none" /\ app[a].rev = call[c].cur.rev
           /\ app' = [app EXCEPT ![a] = [[call[c].cur EXCEPT !.st = s] EXCEPT !.rev = call[c].cur.rev + 1]]
           /\ Application!Reply(c, [call[c].cur EXCEPT !.st = s].st)
           /\ UNCHANGED acount
  <2>1. PICK n \in Nat : n = call[c].cur.rev + 1
    BY <1>2 DEF Revisions
  <2>2. PICK u \in Revisions : u = [call[c].cur EXCEPT !.st = s]
    BY <1>2 DEF Revisions
  <2>3. u.deliv = "Delivered" /\ u.post /\ u.st = s
    BY <1>2, <1>4, <1>7, <2>2 DEF Revisions
  <2>4. PICK w \in Revisions : w = [u EXCEPT !.rev = n]
    BY DEF Revisions
  <2>5. w.deliv = "Delivered" /\ w.post /\ w.st = s /\ w.rev = n
    BY <2>3, <2>4 DEF Revisions
  <2>6. app' = [app EXCEPT ![a] = w]
    BY <1>7, <2>1, <2>2, <2>4
  <2>7. Application!Reply(c, s)
    BY <1>7, <2>2, <2>3
  <2>8. s \in Answers \cup {"error"} /\ call[c].pc # "idle" /\ daemon' = daemon
    BY <1>1 DEF Answers
  <2>9. PICK v \in Calls : v.pc = "idle" /\ call' = [call EXCEPT ![c] = v] /\ HoldsOn(c, v)
    BY <2>7, <2>8, Answered
  <2>10. /\ todo' \subseteq todo /\ SaysOnly
         /\ past'.told \subseteq past.told \cup {<<a, w.st>>}
         /\ c = "boot" => a \notin todo'
    BY <1>3, <2>5, <2>7, <2>8, Answered
  <2>11. c # "boot" => todo = {}
    BY <1>1 DEF AInv, CallsHold, Everyone
  <2>12. a \notin todo'
    BY <2>10, <2>11
  <2>13. a \in intent /\ result[a].post /\ app[a].rev = call[c].cur.rev /\ acount' = acount
    <3>1. call[c].cur = app[a]
      BY <1>2, <1>3, <1>7 DEF CallSound
    <3>2. AppSound(a)
      BY DEF AInv, AppsSound
    <3> QED BY <1>4, <1>7, <3>1, <3>2 DEF AppSound
  <2>14. /\ w.st = "Applied" => result[a].ex = "ok"
         /\ w.st = "Failed" => a \notin past.wrote \/ acount.edit > 0
    BY <1>5, <1>6, <1>7, <2>5 DEF Justified, Verdicts
  <2> QED BY <1>1, <1>3, <2>1, <2>5, <2>6, <2>9, <2>10, <2>12, <2>13, <2>14, RevisionKeeps
<1>8. CASE Application!Reply(c, "error") /\ UNCHANGED app
           /\ (UNCHANGED acount \/ Application!Counted("fault"))
  BY <1>1, <1>2, <1>8, ApplicationReplyKeeps
<1>9. CASE Application!Reply(c, call[c].cur.st) /\ UNCHANGED <<app, acount>>
  BY <1>1, <1>2, <1>9, ApplicationReplyKeeps DEF Answers
<1> QED BY <1>3, <1>5, <1>6, <1>7, <1>8, <1>9
        DEF Application!Settle, Application!Revise, Application!is_successor_of

LEMMA CallKeeps ==
  ASSUME AInv, NEW c \in Everyone, Application!Call(c)
  PROVE  AInv'
BY HandleCallKeeps, ReplayKeeps, LeaseKeeps, PrepareBeginKeeps, PreparePatchKeeps, AdmitCallKeeps,
   RecheckKeeps, FeedKeeps, WaitKeeps, PostBeginKeeps, PostSnapshotKeeps, VerifyKeeps, PersistKeeps,
   ReconcileKeeps, DeliverKeeps, SettleKeeps DEF Application!Call

-----------------------------------------------------------------------------
(* The applications: editors, draining, death and start.                      *)

\* The calls stay where they are, and so does all they rest on.
LEMMA ApplicationsStay ==
  ASSUME AInv, UNCHANGED <<app, intent, result, child, call, todo, past>>,
         file' \in Files, quiet' \in BOOLEAN, acount' \in ApplicationCounts,
         (file' = file /\ acount'.edit = acount.edit) \/ acount'.edit = acount.edit + 1,
         daemon' = daemon,
         lease' = lease \/ (lease \notin Everyone /\ lease' \notin Everyone)
  PROVE  AInv'
<1>1. ATyped' /\ CallsHold'
  BY Everybody DEF AInv, ATyped, CallsHold
<1>2. acount'.edit \in {acount.edit, acount.edit + 1} /\ acount.edit \in Nat
  BY DEF AInv, ATyped, ApplicationCounts
<1>3. CallsSound'
  BY <1>1, <1>2, OtherCall DEF CallsSound, ATyped
<1>4. ChildrenSound'
  BY DEF AInv, ChildrenSound, ChildSound, Attended
<1>5. AppsSound'
  BY <1>2 DEF AInv, AppsSound, AppSound, Justified
<1>6. Marked' /\ Application!ToldIsDurable'
  BY <1>2 DEF AInv, Marked, Application!ToldIsDurable
<1> QED BY <1>1, <1>3, <1>4, <1>5, <1>6 DEF AInv

LEMMA ApplicationEditKeeps ==
  ASSUME AInv, Application!Edit
  PROVE  AInv'
<1>1. acount' \in ApplicationCounts /\ acount'.edit = acount.edit + 1
  BY ApplicationCounted DEF AInv, Application!Edit
<1>2. PICK n \in Nat : n = file.id + 1
  BY DEF AInv, ATyped, Files
<1>3. file' \in Files
  BY <1>2 DEF Application!Edit, Files
<1>4. /\ UNCHANGED <<app, intent, result, child, call, todo, past, lease>>
      /\ quiet' \in BOOLEAN /\ daemon' = daemon
  BY DEF Application!Edit, Application!store, Application!control, AInv, ATyped
<1> QED BY <1>1, <1>3, <1>4, ApplicationsStay

LEMMA DrainKeeps ==
  ASSUME AInv, Application!shutdown_and_drain
  PROVE  AInv'
<1>1. acount' \in ApplicationCounts /\ acount'.edit = acount.edit
  BY ApplicationCounted DEF AInv, Application!shutdown_and_drain
<1>2. /\ UNCHANGED <<file, app, intent, result, child, call, todo, past, lease>>
      /\ quiet' \in BOOLEAN /\ daemon' = daemon /\ file' \in Files
  BY DEF Application!shutdown_and_drain, Application!store, Application!world, AInv, ATyped
<1> QED BY <1>1, <1>2, ApplicationsStay

LEMMA ResumeKeeps ==
  ASSUME AInv, Application!resume
  PROVE  AInv'
<1>1. /\ UNCHANGED <<file, app, intent, result, child, call, todo, past, lease, acount>>
      /\ quiet' \in BOOLEAN /\ daemon' = daemon /\ file' \in Files
      /\ acount' \in ApplicationCounts
  BY DEF Application!resume, Application!store, Application!world, AInv, ATyped
<1> QED BY <1>1, ApplicationsStay

LEMMA ApplicationOwnKeeps ==
  ASSUME AInv, Application!Own
  PROVE  AInv'
BY Everybody, CallKeeps, ChildRunsKeeps, ApplicationEditKeeps, DrainKeeps, ResumeKeeps
   DEF Application!Own

LEMMA ApplicationCrashKeeps ==
  ASSUME AInv, Application!Crash
  PROVE  AInv'
<1>1. UNCHANGED <<file, app, intent, result>> /\ todo' = {} /\ lease' = "free" /\ daemon' = "down"
      /\ quiet' = FALSE
  BY DEF Application!Crash, Application!store
<1>2. acount' \in ApplicationCounts /\ acount'.edit = acount.edit
  BY ApplicationCounted DEF AInv, Application!Crash
<1>3. PICK v \in Calls : v = Application!Idle /\ v.pc = "idle"
  BY IdleCall
<1>4. call' \in [Everyone -> Calls] /\ \A c \in Everyone : call'[c] = v
  BY <1>3, Everybody DEF Application!Crash
<1>5. /\ child' \in [Applications -> {"none", "fed", "eof", "ok", "fail", "killed"}]
      /\ \A a \in Applications : child'[a] = IF child[a] = "fed" THEN "eof" ELSE child[a]
  BY DEF Application!Crash, AInv, ATyped
<1>6. PICK o \in SUBSET Applications :
         o = past.orphan \cup {a \in Applications : child[a] \in {"fed", "eof"}}
  BY DEF AInv, ATyped, Histories
<1>7. past' = [past EXCEPT !.orphan = o]
  BY <1>6 DEF Application!Crash
<1>8. /\ past' \in Histories /\ past'.orphan = o /\ past'.wrote = past.wrote
      /\ past'.spawned = past.spawned /\ past'.told = past.told
  BY <1>7 DEF AInv, ATyped, Histories
<1>9. ATyped'
  BY <1>1, <1>2, <1>4, <1>5, <1>8 DEF AInv, ATyped
<1>10. CallsSound'
  BY <1>3, <1>4 DEF CallsSound, CallSound, Running, Reviewing, Ended
<1>11. CallsHold'
  BY <1>1, <1>3, <1>4, Everybody DEF CallsHold, Holding, Running
<1>12. ASSUME NEW a \in Applications  PROVE ChildSound(a)' /\ AppSound(a)'
  <2>1. ChildSound(a) /\ AppSound(a)
    BY DEF AInv, ChildrenSound, AppsSound
  <2>2. /\ child'[a] = IF child[a] = "fed" THEN "eof" ELSE child[a]
        /\ child[a] \in {"fed", "eof"} => a \in past'.orphan
        /\ a \in past.orphan => a \in past'.orphan
    BY <1>5, <1>6, <1>8
  <2>3. ChildSound(a)'
    BY <1>1, <1>8, <2>1, <2>2 DEF ChildSound
  <2>4. AppSound(a)'
    <3>1. child[a] # "fed" => child'[a] = child[a]
      BY <2>2
    <3>2. child[a] = "fed" => result[a] = NoResult /\ app[a] # NoApp
      BY <2>1 DEF ChildSound, AppSound
    <3> QED BY <1>1, <1>2, <1>8, <2>1, <3>1, <3>2 DEF AppSound, Justified, NoResult, Application!NoResult
  <2> QED BY <2>3, <2>4
<1>13. Marked' /\ Application!ToldIsDurable'
  BY <1>1, <1>2, <1>8 DEF AInv, Marked, Application!ToldIsDurable
<1> QED BY <1>9, <1>10, <1>11, <1>12, <1>13 DEF AInv, ChildrenSound, AppsSound

LEMMA StartKeeps ==
  ASSUME AInv, Application!Start
  PROVE  AInv'
<1>1. daemon = "down" /\ daemon' = "starting" /\ todo' = {a \in Applications : app[a].st = "Unknown"}
      /\ UNCHANGED <<file, child, app, intent, result, call, lease, quiet, acount, past>>
  BY DEF Application!Start, Application!world, Application!store
<1>2. ATyped' /\ CallsHold'
  BY <1>1 DEF AInv, ATyped, CallsHold
<1>3. CallsSound'
  BY <1>1 DEF AInv, CallsSound, CallSound, Justified
<1>4. ChildrenSound' /\ AppsSound'
  BY <1>1 DEF AInv, ChildrenSound, ChildSound, Attended, AppsSound, AppSound, Justified
<1>5. Marked' /\ Application!ToldIsDurable'
  BY <1>1 DEF AInv, Marked, Application!ToldIsDurable
<1> QED BY <1>2, <1>3, <1>4, <1>5 DEF AInv

LEMMA StartupKeeps ==
  ASSUME AInv, Application!reconcile_pending_on_startup
  PROVE  AInv'
<1>1. daemon = "starting" /\ call["boot"].pc = "idle"
      /\ UNCHANGED <<file, child, app, intent, result, todo, lease, quiet, acount, past>>
  BY Everybody DEF Application!reconcile_pending_on_startup, Application!Step, Application!world,
                   Application!store
<1>2. PICK c \in Everyone : c = "boot" /\ c \notin Callers /\ call[c] \in Calls
  BY Everybody, Called
<1>3. ASSUME NEW a \in todo, daemon' = daemon,
             call' = [call EXCEPT ![c] = [@ EXCEPT !.pc = "reconcile", !.a = a, !.cur = app[a]]]
      PROVE  AInv'
  <2>1. a \in Applications /\ app[a] \in Revisions /\ app[a].st = "Unknown"
    BY DEF AInv, ATyped, AppsSound, AppSound
  <2>2. PICK v \in Calls : v = [call[c] EXCEPT !.pc = "reconcile", !.a = a, !.cur = app[a]]
    BY <1>2, <2>1 DEF Calls
  <2>3. v.pc = "reconcile" /\ v.a = a /\ v.cur = app[a]
    BY <1>2, <2>2 DEF Calls
  <2>4. call' = [call EXCEPT ![c] = v]
    BY <1>3, <2>2
  <2>5. call'[c] = v
    BY <2>4 DEF AInv, ATyped
  <2>6. HoldsOn(c, v)
    BY <1>1, <1>2, <1>3, <2>3 DEF HoldsOn, Holding, Running, Reviewing
  <2>7. app[a] # NoApp /\ app[a].rev <= app[a].rev
    BY <2>1 DEF NoApp, Application!NoApp, Revisions
  <2>8. CallSound(c)'
    BY <1>1, <2>1, <2>3, <2>5, <2>7 DEF CallSound, Running, Reviewing, Ended
  <2>9. acount' \in ApplicationCounts /\ acount'.edit = acount.edit
    BY <1>1 DEF AInv, ATyped
  <2> QED BY <1>1, <1>2, <1>3, <2>4, <2>6, <2>8, <2>9, CallGoes
<1>4. ASSUME todo = {}, call' = [call EXCEPT ![c] = Application!Idle], daemon' \in {"down", "up"}
      PROVE  AInv'
  <2>1. PICK v \in Calls : v = Application!Idle /\ v.pc = "idle"
    BY IdleCall
  <2>2. /\ call' \in [Everyone -> Calls] /\ call'[c] = v
        /\ \A d \in Everyone : d # c => call'[d] = call[d]
    BY <1>4, <2>1 DEF AInv, ATyped
  <2>3. ATyped'
    BY <1>1, <1>4, <2>2 DEF AInv, ATyped
  <2>4. \A d \in Everyone : call[d].pc = "idle" /\ call'[d].pc = "idle"
    BY <1>1, <1>2, <2>1, <2>2 DEF AInv, CallsHold, Everyone
  <2>5. CallsHold'
    BY <1>1, <1>4, <2>4, Everybody DEF AInv, CallsHold, Holding, Running
  <2>6. CallsSound'
    BY <2>4 DEF CallsSound, CallSound, Running, Reviewing, Ended
  <2>7. \A a \in Applications : ~Attended(a)
    BY <2>4, Everybody DEF Attended
  <2>8. ChildrenSound' /\ AppsSound'
    BY <1>1, <2>7 DEF AInv, ChildrenSound, ChildSound, AppsSound, AppSound, Justified
  <2>9. Marked' /\ Application!ToldIsDurable'
    BY <1>1 DEF AInv, Marked, Application!ToldIsDurable
  <2> QED BY <2>3, <2>5, <2>6, <2>8, <2>9 DEF AInv
<1> QED BY <1>1, <1>2, <1>3, <1>4, Everybody DEF Application!reconcile_pending_on_startup

LEMMA ApplicationsStart ==
  ASSUME Application!Init
  PROVE  AInv
<1>1. PICK v \in Calls : v = Application!Idle /\ v.pc = "idle"
  BY IdleCall
<1>2. call \in [Everyone -> Calls] /\ \A c \in Everyone : call[c] = v
  BY <1>1, Everybody DEF Application!Init
<1>3. acount \in ApplicationCounts /\ acount.edit = 0
  BY DEF Application!Init, ApplicationCounts
<1>4. PICK w \in Revisions : w = NoApp
  BY DEF NoApp, Application!NoApp, Revisions
<1>14. w.st = "none" /\ w.deliv = "none" /\ w.post = FALSE
  BY <1>4 DEF NoApp, Application!NoApp
<1>5. app \in [Applications -> Revisions] /\ \A a \in Applications : app[a] = w
  BY <1>4 DEF Application!Init, NoApp
<1>16. PICK z \in Int : z = 0
  OBVIOUS
<1>17. [ex |-> "none", ver |-> "none", fid |-> z, post |-> FALSE] \in Results
  BY DEF Results, Exits, Verdicts
<1>6. PICK r \in Results : r = NoResult
  BY <1>16, <1>17 DEF NoResult, Application!NoResult
<1>15. r.ex = "none" /\ r.ver = "none"
  BY <1>6 DEF NoResult, Application!NoResult
<1>7. result \in [Applications -> Results] /\ \A a \in Applications : result[a] = r
  BY <1>6 DEF Application!Init, NoResult
<1>8. /\ past \in Histories /\ past.wrote = {} /\ past.told = {}
      /\ \A a \in Applications : past.spawned[a] = 0
  BY DEF Application!Init, Histories
<1>9. file \in Files /\ file.c = "pre"
  BY DEF Application!Init, Files
<1>10. ATyped
  BY <1>2, <1>3, <1>5, <1>7, <1>8, <1>9 DEF Application!Init, ATyped
<1>11. CallsSound /\ CallsHold
  BY <1>1, <1>2, Everybody
     DEF Application!Init, CallsSound, CallSound, CallsHold, Running, Reviewing, Ended, Holding
<1>12. ChildrenSound /\ Marked /\ Application!ToldIsDurable
  BY <1>8 DEF Application!Init, ChildrenSound, ChildSound, Marked, Application!ToldIsDurable
<1>13. AppsSound
  BY <1>4, <1>5, <1>6, <1>7, <1>8, <1>14, <1>15 DEF Application!Init, AppsSound, AppSound, Justified
<1> QED BY <1>10, <1>11, <1>12, <1>13 DEF AInv

-----------------------------------------------------------------------------
(* The fence between the two, and the steps of the whole.                     *)

IInv == BInv /\ AInv

\* A handler takes the fence when it is free, or gives back its own.
LEMMA BarrierLease ==
  ASSUME Barrier!Own
  PROVE  /\ daemon' = daemon
         /\ lease' = lease \/ (lease \in Handlers \cup {"free"} /\ lease' \in Handlers \cup {"free"})
<1>1. ASSUME NEW x \in Handlers, Barrier!Handle(x)
      PROVE  /\ daemon' = daemon
             /\ lease' = lease \/ (lease = x /\ lease' = "free") \/ (lease = "free" /\ lease' = x)
  <2>1. CASE Barrier!Receive(x)
    BY <2>1 DEF Barrier!Receive
  <2>2. CASE Barrier!Reply(x)
    BY <2>2 DEF Barrier!Reply, Barrier!Refuse, Barrier!ack, Barrier!Answer, Barrier!Others
  <2>3. CASE Barrier!Admit(x)
    BY <2>3 DEF Barrier!Admit, Barrier!RecoveryFenceLease_acquire, Barrier!Refuse, Barrier!Answer,
                Barrier!Others
  <2>4. CASE Barrier!RecordPending(x)
    BY <2>4 DEF Barrier!RecordPending, Barrier!Refuse, Barrier!Answer, Barrier!Others
  <2>5. CASE Barrier!View(x)
    BY <2>5 DEF Barrier!View, Barrier!ack, Barrier!Refuse, Barrier!Answer, Barrier!Others
  <2>6. CASE Barrier!ProbeBefore(x)
    BY <2>6 DEF Barrier!ProbeBefore, Barrier!Stage, Barrier!Fault, Barrier!Fails, Barrier!Others
  <2>7. CASE Barrier!capture_untracked_items(x)
    BY <2>7 DEF Barrier!capture_untracked_items, Barrier!Stage, Barrier!Others
  <2>8. CASE Barrier!ProbeAfter(x)
    BY <2>8 DEF Barrier!ProbeAfter, Barrier!Stage, Barrier!Fault, Barrier!Fails, Barrier!Others
  <2>9. CASE Barrier!capture_recovery_bundle(x)
    BY <2>9 DEF Barrier!capture_recovery_bundle, Barrier!Stage, Barrier!Others
  <2>10. CASE Barrier!Conclude(x)
    BY <2>10 DEF Barrier!Conclude, Barrier!Stage, Barrier!Others
  <2>11. CASE Barrier!CommitTerminal(x)
    BY <2>11 DEF Barrier!CommitTerminal, Barrier!Fails, Barrier!Others
  <2>12. CASE Barrier!commit_failed(x)
    BY <2>12 DEF Barrier!commit_failed, Barrier!ack, Barrier!Refuse, Barrier!Answer, Barrier!Others
  <2>13. CASE Barrier!commit_settled(x)
    BY <2>13 DEF Barrier!commit_settled, Barrier!Refuse, Barrier!Answer, Barrier!Others
  <2> QED BY <1>1, <2>1, <2>2, <2>3, <2>4, <2>5, <2>6, <2>7, <2>8, <2>9, <2>10, <2>11, <2>12, <2>13
          DEF Barrier!Handle
<1>2. ASSUME NEW r \in ToolCalls,
             \/ Barrier!recovery_preflight(r) \/ Barrier!request_recovery_barrier_sync(r)
             \/ Barrier!HookGivesUp(r) \/ Barrier!RunCommand(r) \/ Barrier!Deadline(r)
             \/ Barrier!Ingest(r) \/ Barrier!Redeliver(r)
      PROVE  daemon' = daemon /\ lease' = lease
  BY <1>2 DEF Barrier!recovery_preflight, Barrier!request_recovery_barrier_sync,
              Barrier!HookGivesUp, Barrier!RunCommand, Barrier!Deadline, Barrier!Ingest,
              Barrier!Redeliver
<1>3. ASSUME Barrier!Edit \/ Barrier!OtherCommit  PROVE daemon' = daemon /\ lease' = lease
  BY <1>3 DEF Barrier!Edit, Barrier!OtherCommit
<1> QED BY <1>1, <1>2, <1>3 DEF Barrier!Own

\* A call takes and gives back the fence under its own name.
LEMMA ApplicationLease ==
  ASSUME Application!Own
  PROVE  lease' = lease \/ lease' \in Everyone \cup {"free"}
<1>1. ASSUME NEW c \in Everyone, Application!Call(c)  PROVE lease' \in {lease, c, "free"}
  <2>1. CASE Application!handle(c) \/ Application!PostBegin(c) \/ Application!capture_post_snapshot(c)
             \/ Application!verify_patch_outcome(c) \/ Application!Feed(c) \/ Application!Wait(c)
    BY <2>1 DEF Application!handle, Application!PostBegin, Application!capture_post_snapshot,
                Application!verify_patch_outcome, Application!Feed, Application!Wait
  <2>2. CASE Application!replay_outcome(c)
    BY <2>2 DEF Application!replay_outcome, Application!Reply, Application!Answer, Application!Release
  <2>3. CASE Application!Lease(c)
    BY <2>3 DEF Application!Lease, Application!acquire, Application!Reply, Application!Answer,
                Application!Release
  <2>4. CASE Application!PrepareBegin(c) \/ Application!prepare_patch(c)
    BY <2>4 DEF Application!PrepareBegin, Application!prepare_patch, Application!Reply,
                Application!Answer, Application!Release
  <2>5. CASE Application!Admit(c)
    BY <2>5 DEF Application!Admit, Application!Reply, Application!Answer, Application!Release
  <2>6. CASE Application!Recheck(c)
    BY <2>6 DEF Application!Recheck, Application!Reply, Application!Answer, Application!Release
  <2>7. CASE Application!persist_terminal_evidence(c)
    BY <2>7 DEF Application!persist_terminal_evidence, Application!Reply, Application!Answer,
                Application!Release
  <2>8. CASE Application!Reconcile(c)
    BY <2>8 DEF Application!Reconcile, Application!Reply, Application!Answer, Application!Release
  <2>9. CASE Application!Deliver(c)
    BY <2>9 DEF Application!Deliver, Application!Revise, Application!Reply, Application!Answer,
                Application!Release
  <2>10. CASE Application!Settle(c)
    BY <2>10 DEF Application!Settle, Application!Revise, Application!Reply, Application!Answer,
                 Application!Release
  <2> QED BY <1>1, <2>1, <2>2, <2>3, <2>4, <2>5, <2>6, <2>7, <2>8, <2>9, <2>10 DEF Application!Call
<1>2. ASSUME \/ \E a \in Applications : Application!ChildRuns(a)
             \/ Application!Edit \/ Application!shutdown_and_drain \/ Application!resume
      PROVE  lease' = lease
  BY <1>2 DEF Application!ChildRuns, Application!Edit, Application!shutdown_and_drain,
              Application!resume
<1> QED BY <1>1, <1>2, Everybody DEF Application!Own

LEMMA BarrierStays ==
  ASSUME BInv, UNCHANGED captures, lease' = lease \/ lease' \notin Handlers
  PROVE  BInv'
<1>1. UNCHANGED <<wt, db, hook, frame, mail, expired, h, seen, lost, bcount>>
  BY DEF captures
<1>2. BTyped' /\ Fresh' /\ Recorded' /\ HandlersHold'
  BY <1>1 DEF BInv, BTyped, Fresh, Recorded, Reached, HandlersHold
<1>3. HandlersSound'
  BY <1>1 DEF BInv, HandlersSound, Sound, Reached
<1>4. Barrier!AckedIsDurable' /\ Barrier!CompleteIsOneInstant'
  BY <1>1 DEF BInv, Barrier!AckedIsDurable, Barrier!CompleteIsOneInstant
<1> QED BY <1>2, <1>3, <1>4 DEF BInv

\* The applications while the barrier moves.
LEMMA ActionsStay ==
  ASSUME AInv, UNCHANGED actions, daemon' = daemon,
         lease' = lease \/ (lease \notin Everyone /\ lease' \notin Everyone)
  PROVE  AInv'
<1>1. UNCHANGED <<app, intent, result, child, call, todo, past>>
  BY DEF actions
<1>2. /\ file' \in Files /\ quiet' \in BOOLEAN /\ acount' \in ApplicationCounts
      /\ file' = file /\ acount'.edit = acount.edit
  BY DEF actions, AInv, ATyped
<1> QED BY <1>1, <1>2, ApplicationsStay

LEMMA BootKeeps ==
  ASSUME IInv, Boot
  PROVE  IInv'
<1>1. CASE Barrier!Restart /\ Application!Start
  BY <1>1, RestartKeeps, StartKeeps DEF IInv
<1>2. CASE Capture(Barrier!Restart /\ UNCHANGED daemon)
  <2>1. BInv'
    BY <1>2, RestartKeeps DEF IInv, Capture
  <2>2. UNCHANGED actions /\ daemon' = daemon /\ lease' = lease
    BY <1>2 DEF Capture, Barrier!Restart
  <2> QED BY <2>1, <2>2, ActionsStay DEF IInv
<1>3. CASE Apply(Application!reconcile_pending_on_startup /\ daemon' # "up")
  <2>1. AInv'
    BY <1>3, StartupKeeps DEF IInv, Apply
  <2>2. UNCHANGED captures /\ lease' = lease
    BY <1>3 DEF Apply, Application!reconcile_pending_on_startup
  <2> QED BY <2>1, <2>2, BarrierStays DEF IInv
<1>4. CASE Barrier!Restart /\ Application!reconcile_pending_on_startup
  BY <1>4, RestartKeeps, StartupKeeps DEF IInv
<1> QED BY <1>1, <1>2, <1>3, <1>4 DEF Boot

LEMMA InvariantKept ==
  ASSUME IInv, [Next]_vars
  PROVE  IInv'
<1>1. CASE Capture(Barrier!Own)
  <2>1. BInv'
    BY <1>1, BarrierOwnKeeps DEF IInv, Capture
  <2>2. UNCHANGED actions
    BY <1>1 DEF Capture
  <2>3. daemon' = daemon /\ (lease' = lease \/ (lease \notin Everyone /\ lease' \notin Everyone))
    BY <1>1, BarrierLease, Everybody DEF Capture
  <2> QED BY <2>1, <2>2, <2>3, ActionsStay DEF IInv
<1>2. CASE Apply(Application!Own)
  <2>1. AInv'
    BY <1>2, ApplicationOwnKeeps DEF IInv, Apply
  <2>2. UNCHANGED captures
    BY <1>2 DEF Apply
  <2>3. lease' = lease \/ lease' \notin Handlers
    BY <1>2, ApplicationLease, HoldersAssumption DEF HoldersAssumption, Everyone, Apply
  <2> QED BY <2>1, <2>2, <2>3, BarrierStays DEF IInv
<1>3. CASE Crash
  BY <1>3, BarrierCrashKeeps, ApplicationCrashKeeps DEF IInv, Crash
<1>4. CASE UNCHANGED vars
  <2>1. UNCHANGED captures /\ UNCHANGED actions /\ daemon' = daemon /\ lease' = lease
    BY <1>4 DEF vars
  <2> QED BY <2>1, BarrierStays, ActionsStay DEF IInv
<1> QED BY <1>1, <1>2, <1>3, <1>4, BootKeeps DEF Next

-----------------------------------------------------------------------------
(* Theorems.                                                                  *)

\* Every reachable state satisfies the inductive invariant: what a handler of the barrier and
\* a call of an application have read and written by their program counters, who holds the
\* fence, and what frames, revisions and children say of each other (recovery/barrier.rs,
\* recovery/action.rs).
THEOREM RecoveryInvariance == Spec => []IInv
<1>1. Init => IInv
  BY BarrierStarts, ApplicationsStart DEF Init, IInv
<1>2. IInv /\ [Next]_vars => IInv'
  BY InvariantKept
<1> QED BY <1>1, <1>2, PTL DEF Spec

\* Whoever feeds or waits for a child holds the fence, so nobody reads a recovery point.
LEMMA WorkingIsAttended ==
  ASSUME AInv, NEW a \in Application!Working
  PROVE  a \in Applications /\ \E c \in Callers : lease = c /\ call[c].pc # "idle" /\ call[c].a = a
<1>1. a \in Applications /\ child[a] \in {"fed", "eof"} /\ a \notin past.orphan
  BY DEF Application!Working
<1>2. PICK c \in Callers : call[c].pc \in {"feed", "wait"} /\ call[c].a = a
  BY <1>1 DEF AInv, ChildrenSound, ChildSound, Attended
<1>3. lease = c
  BY <1>2 DEF AInv, CallsHold, Everyone, Holding, Running
<1> QED BY <1>1, <1>2, <1>3

\* A complete recovery point is one instant of the worktree, taken while no patch is being
\* applied and acknowledged only when durable, for every set of connections, tool calls and
\* applications (recovery/barrier.rs, recovery/capture.rs, recovery/action.rs).
THEOREM PointsAlwaysHonest == Spec => []PointsHonest
<1>1. ASSUME IInv  PROVE PointsHonest
  <2>1. Barrier!TypeOK
    BY <1>1 DEF IInv, BInv, BTyped, Journals, Bundles, NoBundle, Barrier!NoBundle, Terminal,
                HandlersHold, Barrier!TypeOK
  <2>2. Application!TypeOK
    BY <1>1 DEF IInv, AInv, ATyped, Revisions, AppsSound, AppSound, CallsHold, Application!TypeOK,
                Application!Step
  <2>3. CaptureExcludesPatch
    BY <1>1, WorkingIsAttended, HoldersAssumption DEF HoldersAssumption, IInv, CaptureExcludesPatch
  <2> QED BY <1>1, <2>1, <2>2, <2>3
          DEF IInv, BInv, PointsHonest, TypeOK, CompleteIsOneInstant, AckedIsDurable
<1> QED BY <1>1, RecoveryInvariance, PTL

\* The instance counts as the library does.
LEMMA Counting ==
  ASSUME NEW S
  PROVE  Application!Cardinality(S) = Cardinality(S)
BY DEF Cardinality, Application!Cardinality

\* A patch is started once per request, by one child at a time, after its intent is durable
\* and with a truthful, durable answer, for every set of callers and applications, and
\* whatever crashes, drains, edits and faults come between (recovery/action.rs,
\* action/evidence.rs).
THEOREM AppliedAlwaysHonestly == Spec => []AppliedHonestly
<1>1. ASSUME IInv  PROVE AppliedHonestly
  <2>1. \A a \in Applications : ChildSound(a) /\ AppSound(a)
    BY <1>1 DEF IInv, AInv, ChildrenSound, AppsSound
  <2>2. SpawnedOnce
    BY <2>1 DEF ChildSound, SpawnedOnce, Application!SpawnedOnce
  <2>3. StatusTruthful
    BY <2>1 DEF ChildSound, AppSound, Justified, StatusTruthful, Application!StatusTruthful
  <2>4. IntentBeforeWrite
    BY <1>1, <2>1 DEF IInv, AInv, ATyped, Histories, ChildSound, IntentBeforeWrite,
                      Application!IntentBeforeWrite
  <2>5. Cardinality(Application!Working) <= 1
    <3>1. CASE Application!Working = {}
      <4>1. Cardinality(Application!Working) = 0
        BY <3>1, FS_EmptySet
      <4> QED BY <4>1
    <3>2. ASSUME NEW a \in Application!Working  PROVE Cardinality(Application!Working) <= 1
      <4>1. \A b \in Application!Working : b = a
        BY <1>1, WorkingIsAttended DEF IInv
      <4>2. Application!Working = {a}
        BY <4>1
      <4>3. Cardinality(Application!Working) = 1
        BY <4>2, FS_Singleton
      <4> QED BY <4>3
    <3> QED BY <3>1, <3>2
  <2>6. Application!Active = {} => Application!Working = {}
    BY <1>1, WorkingIsAttended DEF IInv, Application!Active, Application!Step
  <2>7. ExclusiveChild
    BY <2>5, <2>6, Counting DEF ExclusiveChild, Application!ExclusiveChild
  <2> QED BY <1>1, <2>2, <2>3, <2>4, <2>7 DEF IInv, AInv, AppliedHonestly, ToldIsDurable
<1> QED BY <1>1, RecoveryInvariance, PTL

-----------------------------------------------------------------------------
(* A terminal revision is final.                                              *)

LEMMA RecordIsFinal ==
  ASSUME BInv, NEW x \in Handlers, h[x].pc \in {"commit", "record"}, h[x].n = db.n,
         Barrier!record_request(x)
  PROVE  Barrier!KeepsTerminal
<1>1. h[x].pc # "idle" /\ h[x] \in HandlerStates /\ db \in Journals /\ h[x].r \in ToolCalls
  BY Handled
<1>2. PICK r \in ToolCalls : r = h[x].r
  BY <1>1
<1>3. db.req[r] \notin Terminal /\ (h[x].b = NoBundle \/ h[x].b.att = db.att)
  BY <1>2 DEF BInv, HandlersSound, Sound, Building
<1>4. db.bundle[r] = NoBundle
  BY <1>3 DEF BInv, Recorded
<1>5. PICK q \in [ToolCalls -> Bundles] : q = [db.bundle EXCEPT ![r] = h[x].b]
  BY <1>1 DEF Journals, HandlerStates
<1>6. PICK z : z = [db.req EXCEPT ![r] = h[x].st]
  OBVIOUS
<1>7. PICK n : n = db.n + 1
  OBVIOUS
<1>8. db' = [db EXCEPT !.n = n, !.req = z, !.bundle = q]
  BY <1>1, <1>2, <1>5, <1>6, <1>7 DEF Barrier!record_request, Journals
<1>9. db'.req = z /\ db'.bundle = q
  BY <1>1, <1>8 DEF Journals
<1>10. \A p \in ToolCalls : p # r => db'.req[p] = db.req[p] /\ db'.bundle[p] = db.bundle[p]
  BY <1>1, <1>5, <1>6, <1>9 DEF Journals
<1>11. db'.bundle[r] = h[x].b
  BY <1>1, <1>5, <1>9 DEF Journals
<1> QED BY <1>3, <1>4, <1>10, <1>11 DEF Barrier!KeepsTerminal, Terminal

LEMMA UnwrittenIsFinal ==
  ASSUME UNCHANGED db
  PROVE  Barrier!KeepsTerminal
BY DEF Barrier!KeepsTerminal

\* A commit of somebody else touches no request.
LEMMA TrafficIsFinal ==
  ASSUME BInv, NEW n, NEW a, db' = [db EXCEPT !.n = n, !.att = a] \/ db' = [db EXCEPT !.n = n]
  PROVE  Barrier!KeepsTerminal
<1>1. db'.req = db.req /\ db'.bundle = db.bundle
  BY DEF BInv, BTyped, Journals
<1> QED BY <1>1 DEF Barrier!KeepsTerminal

LEMMA StatusIsFinal ==
  ASSUME BInv, NEW r \in ToolCalls, NEW n, NEW st, db.req[r] \notin Terminal,
         db' = [db EXCEPT !.n = n, !.req[r] = st]
  PROVE  Barrier!KeepsTerminal
<1>1. db \in Journals
  BY DEF BInv, BTyped
<1>2. PICK q : q = [db.req EXCEPT ![r] = st]
  OBVIOUS
<1>3. db' = [db EXCEPT !.n = n, !.req = q]
  BY <1>1, <1>2 DEF Journals
<1>4. db'.req = q /\ db'.bundle = db.bundle
  BY <1>1, <1>3 DEF Journals
<1>5. \A p \in ToolCalls : p # r => db'.req[p] = db.req[p]
  BY <1>1, <1>2, <1>4 DEF Journals
<1> QED BY <1>4, <1>5 DEF Barrier!KeepsTerminal, Terminal

LEMMA HandleIsFinal ==
  ASSUME BInv, NEW x \in Handlers, Barrier!Handle(x)
  PROVE  Barrier!KeepsTerminal
<1>1. CASE Barrier!Receive(x) \/ Barrier!Reply(x) \/ Barrier!Admit(x) \/ Barrier!View(x)
           \/ Barrier!commit_failed(x)
  BY <1>1, UnwrittenIsFinal
     DEF Barrier!Receive, Barrier!Reply, Barrier!Admit, Barrier!View, Barrier!commit_failed
<1>2. CASE Barrier!ProbeBefore(x) \/ Barrier!capture_untracked_items(x) \/ Barrier!ProbeAfter(x)
           \/ Barrier!capture_recovery_bundle(x) \/ Barrier!Conclude(x)
  BY <1>2, UnwrittenIsFinal
     DEF Barrier!ProbeBefore, Barrier!capture_untracked_items, Barrier!ProbeAfter,
         Barrier!capture_recovery_bundle, Barrier!Conclude, Barrier!Stage
<1>3. CASE Barrier!RecordPending(x)
  <2>1. h[x].r \in ToolCalls
    BY <1>3, Handled DEF Barrier!RecordPending
  <2>2. "none" \notin Terminal
    BY DEF Terminal, Barrier!Terminal
  <2>3. CASE UNCHANGED db
    BY <2>3, UnwrittenIsFinal
  <2>4. CASE db.req[h[x].r] = "none" /\ db' = [db EXCEPT !.n = @ + 1, !.req[h[x].r] = "Pending"]
    BY <2>1, <2>2, <2>4, StatusIsFinal
  <2> QED BY <1>3, <2>3, <2>4 DEF Barrier!RecordPending
<1>4. CASE Barrier!CommitTerminal(x)
  BY <1>4, RecordIsFinal, UnwrittenIsFinal DEF Barrier!CommitTerminal, Barrier!commit_if_frontier
<1>5. CASE Barrier!commit_settled(x)
  BY <1>5, RecordIsFinal, UnwrittenIsFinal DEF Barrier!commit_settled
<1> QED BY <1>1, <1>2, <1>3, <1>4, <1>5 DEF Barrier!Handle

LEMMA OwnIsFinal ==
  ASSUME BInv, Barrier!Own
  PROVE  Barrier!KeepsTerminal
<1>1. ASSUME NEW r \in ToolCalls, Barrier!Ingest(r)  PROVE Barrier!KeepsTerminal
  BY <1>1, TrafficIsFinal DEF Barrier!Ingest
<1>2. ASSUME NEW r \in ToolCalls,
             \/ Barrier!recovery_preflight(r) \/ Barrier!request_recovery_barrier_sync(r)
             \/ Barrier!HookGivesUp(r) \/ Barrier!RunCommand(r) \/ Barrier!Deadline(r)
             \/ Barrier!Redeliver(r)
      PROVE  Barrier!KeepsTerminal
  BY <1>2, UnwrittenIsFinal
     DEF Barrier!recovery_preflight, Barrier!request_recovery_barrier_sync, Barrier!HookGivesUp,
         Barrier!RunCommand, Barrier!Deadline, Barrier!Redeliver
<1>3. CASE Barrier!Edit
  BY <1>3, UnwrittenIsFinal DEF Barrier!Edit
<1>4. CASE Barrier!OtherCommit
  BY <1>4, TrafficIsFinal DEF Barrier!OtherCommit
<1> QED BY <1>1, <1>2, <1>3, <1>4, HandleIsFinal DEF Barrier!Own

LEMMA RestartIsFinal ==
  ASSUME BInv, Barrier!Restart
  PROVE  Barrier!KeepsTerminal
<1>1. "Pending" \notin Terminal
  BY DEF Terminal, Barrier!Terminal
<1>2. ASSUME NEW r \in ToolCalls, db.req[r] = "Pending",
             db' = [db EXCEPT !.n = @ + 1, !.req[r] = "TimedOut"]
      PROVE  Barrier!KeepsTerminal
  BY <1>1, <1>2, StatusIsFinal
<1> QED BY <1>2, UnwrittenIsFinal DEF Barrier!Restart, Barrier!Start

\* A terminal revision of a request is never replaced, by a repeated delivery, a lost frontier
\* or a restart, and with a bundle it names the attempts active in the journal it was
\* committed on (recovery/barrier.rs, capture_and_commit).
THEOREM TerminalAlwaysFinal == Spec => TerminalIsFinal
<1>1. ASSUME IInv, [Next]_vars  PROVE [Barrier!KeepsTerminal]_vars
  <2>1. CASE Capture(Barrier!Own)
    BY <1>1, <2>1, OwnIsFinal DEF IInv, Capture
  <2>2. CASE Apply(Application!Own)
    BY <2>2, UnwrittenIsFinal DEF Apply, captures
  <2>3. CASE Crash
    BY <2>3, UnwrittenIsFinal DEF Crash, Barrier!Crash
  <2>4. CASE Boot
    BY <1>1, <2>4, RestartIsFinal, UnwrittenIsFinal DEF IInv, Boot, Capture, Apply, captures
  <2> QED BY <1>1, <2>1, <2>2, <2>3, <2>4 DEF Next
<1> QED BY <1>1, RecoveryInvariance, PTL DEF Spec, TerminalIsFinal
=============================================================================

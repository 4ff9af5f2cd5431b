-------------------------- MODULE ExportQueueProofs --------------------------
(***************************************************************************)
(* Proofs about the queue of exports, for any number of them, whatever     *)
(* namespaces they claim and backups they share.                           *)
(***************************************************************************)
EXTENDS ExportQueueProperties, Integers, SequenceTheorems, TLAPS

-----------------------------------------------------------------------------
(* The step list.                                                          *)

LEMMA StepsAre ==
  /\ DOMAIN QueueSteps = 1..6 /\ Len(QueueSteps) = 6
  /\ QueueSteps[1] = "Created" /\ QueueSteps[2] = "Precheck"
  /\ QueueSteps[3] = "StartFileSystemCopy"
  /\ QueueSteps[4] = "WaitFileSystemCopyComplete"
  /\ QueueSteps[5] = "CleanUp" /\ QueueSteps[6] = "Completed"
BY DEF QueueSteps, PhaseCreated, PhaseCompleted

LEMMA PhasesAre ==
  QueuePhases = {"Created", "Precheck", "StartFileSystemCopy",
                 "WaitFileSystemCopyComplete", "CleanUp", "Completed"}
<1>1. \A p : p \in QueuePhases <=> \E k \in 1..6 : p = QueueSteps[k]
  BY StepsAre DEF QueuePhases
<1>2. \A k \in 1..6 : k = 1 \/ k = 2 \/ k = 3 \/ k = 4 \/ k = 5 \/ k = 6
  OBVIOUS
<1> QED BY <1>1, <1>2, StepsAre

(* No phase occurs twice, so that each but the last has one successor. *)
LEMMA NextPhase ==
  ASSUME NEW i \in 1..5
  PROVE  GetNextPhase(QueueSteps[i], QueueSteps) = QueueSteps[i + 1]
<1>1. \A k \in 1..6 : QueueSteps[k] = QueueSteps[i] <=> k = i
  BY StepsAre
<1>2. IndexOf(QueueSteps[i], QueueSteps) = i
  BY <1>1, StepsAre DEF IndexOf
<1> QED BY <1>2, StepsAre DEF GetNextPhase

LEMMA NextPhasesAre ==
  /\ GetNextPhase("Created", QueueSteps) = "Precheck"
  /\ GetNextPhase("Precheck", QueueSteps) = "StartFileSystemCopy"
  /\ GetNextPhase("StartFileSystemCopy", QueueSteps) = "WaitFileSystemCopyComplete"
  /\ GetNextPhase("WaitFileSystemCopyComplete", QueueSteps) = "CleanUp"
  /\ GetNextPhase("CleanUp", QueueSteps) = "Completed"
  /\ GetLastPhase(QueueSteps) = "Completed"
<1>1. \A i \in 1..5 : GetNextPhase(QueueSteps[i], QueueSteps) = QueueSteps[i + 1]
  BY NextPhase
<1>2. /\ 1 \in 1..5 /\ 2 \in 1..5 /\ 3 \in 1..5 /\ 4 \in 1..5 /\ 5 \in 1..5
      /\ 1 + 1 = 2 /\ 2 + 1 = 3 /\ 3 + 1 = 4 /\ 4 + 1 = 5 /\ 5 + 1 = 6
  OBVIOUS
<1> QED BY <1>1, <1>2, StepsAre DEF GetLastPhase

-----------------------------------------------------------------------------
(* The inductive invariant.                                                *)

(* The API server never holds a resource that has ended in one field and   *)
(* not in the other, nor one that has started with no state.               *)
WellFormed(c) ==
  /\ c.phase = PhaseCompleted => c.state = StateCompleted
  /\ c.phase # PhaseCreated /\ ~Terminal(c) =>
        c.state \in {StateInProgress, StateFailed}

(* A copy of e is not ahead of the resource, and tells the time.           *)
InTime(e, c) ==
  /\ Terminal(c) => Terminal(cr[e])
  /\ c.stop = "passed" => e \in elapsed \union Overflows

(* The informer's copy followed by the changes under way ends in e. *)
Latest(e) ==
  \/ Current(e) /\ cached[e] = cr[e]
  \/ \E k \in DOMAIN watch :
        /\ watch[k] = <<e, cr[e]>>
        /\ \A j \in DOMAIN watch : j > k => watch[j][1] # e

ChangesInTime == \A k \in DOMAIN watch : InTime(watch[k][1], watch[k][2])

(* The resources and the informer. *)
Stored ==
  /\ cr \in [Exports -> Resources] /\ cached \in [Exports -> Resources]
  /\ watch \in Seq(Exports \X Resources)
  /\ elapsed \in SUBSET Exports
  /\ \A e \in Exports :
        /\ WellFormed(cr[e]) /\ Latest(e)
        /\ InTime(e, cr[e]) /\ InTime(e, cached[e])
  /\ ChangesInTime
  /\ KeptForRetention

(* The worker's copy: of a resource that was not deleted when it was read, *)
(* and that is unchanged since if the copy has a current resourceVersion.  *)
Held ==
  /\ pc \in {"idle", "start", "copying"} /\ cur \in Exports \union {NoExport}
  /\ (pc = "idle" <=> cur = NoExport)
  /\ mem \in Resources /\ fresh \in BOOLEAN
  /\ pc # "idle" => mem.live /\ InTime(cur, mem)
  /\ fresh => pc # "idle" /\ mem = cr[cur]
  /\ pc = "copying" => mem.phase = "StartFileSystemCopy" /\ ~Terminal(mem)

Others ==
  /\ copy \in [Backups -> {"absent", "new", "completed", "failed"}]
  /\ faults \in Nat /\ raced \in SUBSET Exports

IInv == Stored /\ Held /\ Others /\ Exclusive

(* What a step may do to what a user sees. *)
Legal(s, t) ==
  \/ s = t
  \/ s = "queued" /\ t \in {"running", "canceled"}
  \/ s = "running" /\ t \in {"completed", "failed", "canceled"}
  \/ s \in {"completed", "failed", "canceled"} /\ t = "deleted"

Lawful ==
  \/ \A e \in Exports : StageOf(cr'[e]) = StageOf(cr[e])
  \/ \E e \in Exports :
        /\ Legal(StageOf(cr[e]), StageOf(cr'[e]))
        /\ \A f \in Exports \ {e} : cr'[f] = cr[f]

StepOK == IInv' /\ Lawful

-----------------------------------------------------------------------------
(* A resource, by what a user sees of it.                                  *)
LEMMA StageIs ==
  ASSUME NEW c \in Resources
  PROVE  /\ Running(c) <=> StageOf(c) = "running"
         /\ ~c.live => StageOf(c) = "deleted"
         /\ c.live /\ c.state = StateCanceled => StageOf(c) = "canceled"
         /\ c.live /\ c.state = StateVeleroFailed => StageOf(c) = "failed"
         /\ c.live /\ ~Terminal(c) =>
              StageOf(c) = IF c.phase = PhaseCreated THEN "queued" ELSE "running"
         /\ /\ c.live /\ c.phase = PhaseCompleted
            /\ c.state \notin {StateCanceled, StateVeleroFailed}
            => StageOf(c) = "completed"
         /\ c.live /\ Terminal(c) => StageOf(c) \in {"completed", "failed", "canceled"}
<1>1. c.live \in BOOLEAN
  BY DEF Resources
<1>2. PhaseCreated # PhaseCompleted /\ StateCanceled # StateVeleroFailed
  BY DEF PhaseCreated, PhaseCompleted, StateCanceled, StateVeleroFailed
<1>3. CASE ~c.live
  BY <1>3 DEF StageOf, Running
<1>4. CASE c.live /\ c.state = StateCanceled
  BY <1>2, <1>4 DEF StageOf, Running, Terminal
<1>5. CASE c.live /\ c.state = StateVeleroFailed
  BY <1>2, <1>5 DEF StageOf, Running, Terminal
<1>6. CASE c.live /\ c.state \notin {StateCanceled, StateVeleroFailed}
  BY <1>2, <1>6 DEF StageOf, Running, Terminal
<1> QED BY <1>1, <1>3, <1>4, <1>5, <1>6

(* What may be written in place of the worker's copy. *)
Follows(c) ==
  /\ c \in Resources /\ c.live /\ WellFormed(c)
  /\ Terminal(mem) => Terminal(c)
  /\ c.stop = "passed" => mem.stop = "passed" \/ cur \in Overflows
  /\ Legal(StageOf(mem), StageOf(c))

LEMMA SucceededFollows ==
  ASSUME mem \in Resources, mem.live, ~Terminal(mem)
  PROVE  /\ Follows(Succeeded(cur, mem))
         /\ mem.phase # PhaseCreated => Running(mem)
<1> DEFINE next == GetNextPhase(mem.phase, QueueSteps)
           stop == IF mem.phase # PhaseCreated THEN mem.stop
                   ELSE IF cur \in Overflows THEN "passed" ELSE "ahead"
           state == IF next = "Completed" THEN StateCompleted ELSE StateInProgress
           c == Succeeded(cur, mem)
<1>1. mem.phase \in {"Created", "Precheck", "StartFileSystemCopy",
                     "WaitFileSystemCopyComplete", "CleanUp"}
  BY PhasesAre DEF Resources, Terminal, PhaseCompleted
<1>2. /\ next \in QueuePhases /\ next # "Created"
      /\ next = "Completed" => mem.phase = "CleanUp"
  BY <1>1, NextPhasesAre, PhasesAre
<1>3. c = [mem EXCEPT !.phase = next, !.since = "nil", !.stop = stop,
                      !.state = state]
  BY NextPhasesAre DEF Succeeded
<1>4. stop \in {"nil", "ahead", "passed"}
      /\ (stop = "passed" => mem.stop = "passed" \/ cur \in Overflows)
  BY DEF Resources
<1>5. state \in {StateCompleted, StateInProgress}
  OBVIOUS
<1> HIDE DEF next, stop, c
<1>6. /\ c \in Resources /\ c.live /\ c.phase = next /\ c.stop = stop
      /\ c.state = IF next = "Completed" THEN StateCompleted ELSE StateInProgress
  BY <1>2, <1>3, <1>4, <1>5 DEF Resources
<1>7. WellFormed(c)
  BY <1>2, <1>6 DEF WellFormed, Terminal, PhaseCompleted, PhaseCreated
<1>8. Legal(StageOf(mem), StageOf(c))
  <2>1. StageOf(mem) = IF mem.phase = "Created" THEN "queued" ELSE "running"
    BY StageIs DEF PhaseCreated
  <2>2. CASE next = "Completed"
    <3>1. StageOf(c) = "completed"
      BY <1>6, <2>2, StageIs
      DEF PhaseCompleted, StateCompleted, StateCanceled, StateVeleroFailed
    <3> QED BY <1>2, <2>1, <2>2, <3>1 DEF Legal
  <2>3. CASE next # "Completed"
    <3>1. ~Terminal(c)
      BY <1>6, <2>3
      DEF Terminal, PhaseCompleted, StateInProgress, StateCanceled, StateVeleroFailed
    <3>2. StageOf(c) = "running"
      BY <1>2, <1>6, <3>1, StageIs DEF PhaseCreated
    <3> QED BY <2>1, <3>2 DEF Legal
  <2> QED BY <2>2, <2>3
<1> QED BY <1>4, <1>6, <1>7, <1>8 DEF Follows, Running, c

LEMMA FailedFollows ==
  ASSUME mem \in Resources, mem.live, ~Terminal(mem)
  PROVE  Follows(FailedOn(mem)) /\ (Running(FailedOn(mem)) => Running(mem))
<1> DEFINE c == FailedOn(mem)
<1>1. /\ c \in Resources /\ c.live /\ c.phase = mem.phase
      /\ c.state = StateFailed /\ c.stop = mem.stop
  BY DEF FailedOn, Resources, Terminal, StateFailed
<1> HIDE DEF c
<1>2. ~Terminal(c) /\ WellFormed(c)
  BY <1>1
  DEF Terminal, WellFormed, StateFailed, StateCanceled, StateVeleroFailed
<1>3. StageOf(c) = StageOf(mem)
  BY <1>1, <1>2, StageIs
<1> QED BY <1>1, <1>2, <1>3, StageIs DEF Follows, Legal, c

LEMMA AbortedFollows ==
  ASSUME mem \in Resources, mem.live, ~Terminal(mem),
         mem.phase = "WaitFileSystemCopyComplete"
  PROVE  LET c == FailedOn([mem EXCEPT !.state = StateVeleroFailed])
         IN  Follows(c) /\ ~Running(c)
<1> DEFINE d == [mem EXCEPT !.state = StateVeleroFailed]
           c == FailedOn(d)
<1>1. d \in Resources /\ d.state = StateVeleroFailed /\ d.live
      /\ d.phase = mem.phase /\ d.stop = mem.stop
  BY DEF Resources
<1> HIDE DEF d
<1>2. /\ c \in Resources /\ c.live /\ c.phase = mem.phase
      /\ c.state = StateVeleroFailed /\ c.stop = mem.stop
  BY <1>1 DEF FailedOn, Resources
<1> HIDE DEF c
<1>3. Terminal(c) /\ WellFormed(c) /\ ~Running(c)
  BY <1>2 DEF Terminal, WellFormed, Running, PhaseCompleted
<1>4. StageOf(mem) = "running" /\ StageOf(c) = "failed"
  BY <1>2, StageIs DEF PhaseCreated
<1> QED BY <1>2, <1>3, <1>4 DEF Follows, Legal, c, d

LEMMA CanceledFollows ==
  ASSUME mem \in Resources, mem.live, TimedOut(mem), WellFormed(mem)
  PROVE  LET c == [mem EXCEPT !.state = StateCanceled]
         IN  Follows(c) /\ ~Running(c)
<1> DEFINE c == [mem EXCEPT !.state = StateCanceled]
<1>1. /\ c \in Resources /\ c.live /\ c.phase = mem.phase
      /\ c.state = StateCanceled /\ c.stop = mem.stop
  BY DEF Resources
<1> HIDE DEF c
<1>2. ~Terminal(mem) /\ mem.phase # PhaseCompleted
  BY DEF TimedOut, WellFormed, Terminal, StateFailed, StateCompleted,
         StateCanceled, StateVeleroFailed
<1>3. Terminal(c) /\ WellFormed(c) /\ ~Running(c)
  BY <1>1, <1>2 DEF Terminal, WellFormed, Running
<1>4. StageOf(mem) \in {"queued", "running"} /\ StageOf(c) = "canceled"
  BY <1>1, <1>2, StageIs
<1> QED BY <1>1, <1>3, <1>4 DEF Follows, Legal, c

-----------------------------------------------------------------------------
(* The informer.                                                           *)

(* A change of e: it is the last the informer will have received. *)
LEMMA AppendLatest ==
  ASSUME watch \in Seq(Exports \X Resources), cr \in [Exports -> Resources],
         NEW e \in Exports, NEW c \in Resources,
         cr' = [cr EXCEPT ![e] = c], watch' = Append(watch, <<e, c>>),
         UNCHANGED cached, \A f \in Exports : Latest(f)
  PROVE  /\ watch' \in Seq(Exports \X Resources)
         /\ \A f \in Exports : Latest(f)'
         /\ \A k \in DOMAIN watch' :
               \/ k \in DOMAIN watch /\ watch'[k] = watch[k]
               \/ watch'[k] = <<e, c>>
<1> DEFINE n == Len(watch)
<1>1. /\ n \in Nat /\ DOMAIN watch = 1..n /\ DOMAIN watch' = 1..(n + 1)
      /\ watch'[n + 1] = <<e, c>>
      /\ \A k \in 1..n : watch'[k] = watch[k]
      /\ watch' \in Seq(Exports \X Resources)
  OBVIOUS
<1> HIDE DEF n
<1>4. n \in Nat
  BY <1>1
<1>5. watch'[n + 1][1] = e
  <2>1. watch'[n + 1] = <<e, c>>
    BY <1>1
  <2>2. <<e, c>>[1] = e
    OBVIOUS
  <2> QED BY <2>1, <2>2, Zenon
<1>2. ASSUME NEW f \in Exports PROVE Latest(f)'
  <2>1. CASE f = e
    <3>1. watch'[n + 1] = <<f, cr'[f]>> /\ n + 1 \in DOMAIN watch'
      BY <1>1, <2>1
    <3>2. \A j \in DOMAIN watch' : ~(j > n + 1)
      BY <1>1
    <3> QED BY <3>1, <3>2 DEF Latest
  <2>2. CASE f # e
    <3>1. cr'[f] = cr[f] /\ cached' = cached
      BY <2>2
    <3>2. CASE Current(f) /\ cached[f] = cr[f]
      <4>1. Current(f)'
        BY <1>1, <2>2, <3>2 DEF Current
      <4> QED BY <3>1, <3>2, <4>1 DEF Latest
    <3>3. CASE \E k \in DOMAIN watch :
                 /\ watch[k] = <<f, cr[f]>>
                 /\ \A j \in DOMAIN watch : j > k => watch[j][1] # f
      <4>1. PICK k \in 1..n :
               /\ watch[k] = <<f, cr[f]>>
               /\ \A j \in 1..n : j > k => watch[j][1] # f
        BY <1>1, <3>3
      <4>2. ASSUME NEW j \in 1..(n + 1), j > k PROVE watch'[j][1] # f
        <5>1. CASE j \in 1..n
          <6>1. watch'[j] = watch[j] /\ watch[j][1] # f
            BY <1>1, <4>1, <4>2, <5>1
          <6> QED BY <6>1
        <5>2. CASE j = n + 1
          BY <1>5, <2>2, <5>2
        <5>3. j \in 1..n \/ j = n + 1
          BY <1>4
        <5> QED BY <5>1, <5>2, <5>3
      <4>3. k \in DOMAIN watch' /\ watch'[k] = <<f, cr'[f]>>
        BY <1>1, <3>1, <4>1
      <4> QED BY <1>1, <4>2, <4>3 DEF Latest
    <3> QED BY <3>2, <3>3 DEF Latest
  <2> QED BY <2>1, <2>2
<1>3. \A k \in DOMAIN watch' :
         \/ k \in DOMAIN watch /\ watch'[k] = watch[k]
         \/ watch'[k] = <<e, c>>
  BY <1>1
<1> QED BY <1>1, <1>2, <1>3

(* Nothing under way: the informer has every resource as it is. *)
LEMMA CaughtUp ==
  ASSUME Stored, NEW e \in Exports, Current(e)
  PROVE  cached[e] = cr[e]
BY DEF Stored, Latest, Current

LEMMA EmptyIsCurrent ==
  ASSUME watch = <<>>
  PROVE  \A e \in Exports : Current(e)
BY DEF Current

(* The informer receives a change. *)
LEMMA SyncStored == Stored /\ CacheSync => Stored'
<1> SUFFICES ASSUME Stored, CacheSync PROVE Stored'
  OBVIOUS
<1> DEFINE n == Len(watch)
           h == watch[1][1]
           c == watch[1][2]
<1>1. /\ n \in Nat /\ n # 0 /\ DOMAIN watch = 1..n /\ DOMAIN watch' = 1..(n - 1)
      /\ \A k \in 1..(n - 1) : watch'[k] = watch[k + 1]
      /\ watch' \in Seq(Exports \X Resources)
      /\ Head(watch) = watch[1] /\ watch[1] \in Exports \X Resources
  <2>1. watch \in Seq(Exports \X Resources) /\ watch # <<>> /\ watch' = Tail(watch)
    BY DEF Stored, CacheSync
  <2> QED BY <2>1, EmptySeq
<1>2. h \in Exports /\ c \in Resources /\ watch[1] = <<h, c>>
  BY <1>1
<1> HIDE DEF n
<1>3. /\ cached' = [cached EXCEPT ![h] = c]
      /\ cr' = cr /\ elapsed' = elapsed
  BY <1>1 DEF CacheSync
<1>4. 1 \in DOMAIN watch
  BY <1>1
<1> HIDE DEF h, c
<1>5. InTime(h, c)
  <2>1. InTime(watch[1][1], watch[1][2])
    BY <1>4 DEF Stored, ChangesInTime
  <2> QED BY <2>1 DEF h, c
<1>6. ASSUME NEW e \in Exports PROVE Latest(e)'
  <2>1. CASE Current(e) /\ cached[e] = cr[e]
    <3>1. h # e
      BY <1>2, <1>4, <2>1 DEF Current
    <3>2. Current(e)'
      BY <1>1, <2>1 DEF Current
    <3> QED BY <1>3, <2>1, <3>1, <3>2 DEF Latest, Stored
  <2>2. ASSUME NEW k \in 1..n, watch[k] = <<e, cr[e]>>,
               \A j \in 1..n : j > k => watch[j][1] # e
        PROVE  Latest(e)'
    <3>1. CASE k = 1
      <4>1. h = e /\ c = cr[e]
        BY <1>2, <2>2, <3>1
      <4>2. Current(e)'
        BY <1>1, <2>2, <3>1 DEF Current
      <4> QED BY <1>3, <4>1, <4>2 DEF Latest, Stored
    <3>2. CASE k # 1
      <4>1. k - 1 \in 1..(n - 1) /\ watch'[k - 1] = <<e, cr'[e]>>
        BY <1>1, <1>3, <2>2, <3>2
      <4>2. \A j \in 1..(n - 1) : j > k - 1 => watch'[j][1] # e
        BY <1>1, <2>2
      <4> QED BY <1>1, <4>1, <4>2 DEF Latest
    <3> QED BY <3>1, <3>2
  <2> QED BY <1>1, <2>1, <2>2 DEF Stored, Latest
<1>7. ChangesInTime'
  <2> SUFFICES ASSUME NEW k \in 1..(n - 1)
               PROVE  InTime(watch[k][1], watch[k][2])'
    BY <1>1 DEF ChangesInTime
  <2>1. k + 1 \in DOMAIN watch /\ watch'[k] = watch[k + 1]
    BY <1>1
  <2>2. InTime(watch[k + 1][1], watch[k + 1][2])
    BY <2>1 DEF Stored, ChangesInTime
  <2> QED BY <1>3, <2>1, <2>2 DEF InTime, Terminal
<1>8. cached' \in [Exports -> Resources]
      /\ \A e \in Exports : cached'[e] = IF e = h THEN c ELSE cached[e]
  BY <1>2, <1>3 DEF Stored
<1>9. \A e \in Exports : InTime(e, cached[e])' /\ InTime(e, cr[e])'
  BY <1>3, <1>5, <1>8 DEF Stored, InTime
<1>10. \A e \in Exports : WellFormed(cr[e])'
  BY <1>3 DEF Stored, WellFormed, Terminal
<1>11. KeptForRetention'
  BY <1>3 DEF Stored, KeptForRetention
<1> QED
  BY <1>1, <1>3, <1>6, <1>7, <1>8, <1>9, <1>10, <1>11 DEF Stored

-----------------------------------------------------------------------------
(* Writes.                                                                 *)

(* The change of one resource, with what the informer will receive.        *)
LEMMA ChangeStored ==
  ASSUME Stored, NEW e \in Exports, NEW c \in Resources,
         cr' = [cr EXCEPT ![e] = c],
         watch' = (IF c = cr[e] THEN watch ELSE Append(watch, <<e, c>>)),
         UNCHANGED <<cached, elapsed>>,
         WellFormed(c),
         Terminal(cr[e]) => Terminal(c),
         c.stop = "passed" => e \in elapsed \union Overflows,
         ~c.live => e \in elapsed \union Overflows
  PROVE  Stored'
<1>1. cr' \in [Exports -> Resources]
      /\ \A f \in Exports : cr'[f] = IF f = e THEN c ELSE cr[f]
  BY DEF Stored
<1>2. \A f \in Exports : Terminal(cr[f]) => Terminal(cr'[f])
  BY <1>1
<1>3. \A f \in Exports : InTime(f, cr[f])' /\ InTime(f, cached[f])'
  BY <1>1, <1>2 DEF Stored, InTime, Terminal
<1>4. \A f \in Exports : WellFormed(cr[f])'
  BY <1>1 DEF Stored, WellFormed, Terminal
<1>5. KeptForRetention'
  BY <1>1 DEF Stored, KeptForRetention
<1>6. CASE c = cr[e]
  <2>1. cr' = cr /\ watch' = watch
    BY <1>1, <1>6 DEF Stored
  <2>2. \A f \in Exports : Latest(f)'
    BY <2>1 DEF Stored, Latest, Current
  <2>3. ChangesInTime'
    BY <2>1 DEF Stored, ChangesInTime, InTime, Terminal
  <2> QED BY <1>1, <1>3, <1>4, <1>5, <2>1, <2>2, <2>3 DEF Stored
<1>7. CASE c # cr[e]
  <2>1. watch' = Append(watch, <<e, c>>)
    BY <1>7
  <2>2. /\ watch' \in Seq(Exports \X Resources)
        /\ \A f \in Exports : Latest(f)'
        /\ \A k \in DOMAIN watch' :
              \/ k \in DOMAIN watch /\ watch'[k] = watch[k]
              \/ watch'[k] = <<e, c>>
    BY <2>1, AppendLatest DEF Stored
  <2>3. \A k \in DOMAIN watch : watch[k] \in Exports \X Resources
    BY DEF Stored
  <2>4. ASSUME NEW k \in DOMAIN watch' PROVE InTime(watch[k][1], watch[k][2])'
    <3>1. CASE k \in DOMAIN watch /\ watch'[k] = watch[k]
      <4>1. InTime(watch[k][1], watch[k][2]) /\ watch[k][1] \in Exports
        BY <2>3, <3>1 DEF Stored, ChangesInTime
      <4> QED BY <1>2, <3>1, <4>1 DEF InTime, Terminal
    <3>2. CASE watch'[k] = <<e, c>>
      <4>1. watch'[k][1] = e /\ watch'[k][2] = c
        BY <3>2
      <4> QED BY <1>1, <4>1 DEF InTime, Terminal
    <3> QED BY <2>2, <3>1, <3>2
  <2> QED BY <1>1, <1>3, <1>4, <1>5, <2>2, <2>4 DEF Stored, ChangesInTime
<1> QED BY <1>6, <1>7

(* A write by a handler: of something that may follow its copy. *)
LEMMA WriteStored ==
  ASSUME Stored, Held, pc # "idle", NEW c, Write(c), fresh => Follows(c),
         UNCHANGED <<cached, elapsed>>
  PROVE  /\ Stored' /\ Lawful
         /\ fresh => cr' = [cr EXCEPT ![cur] = c]
         /\ ~fresh => cr' = cr
<1>1. cur \in Exports
  BY DEF Held
<1>2. CASE ~fresh
  <2>1. cr' = cr /\ watch' = watch
    BY <1>2 DEF Write
  <2>2. Stored'
    BY <2>1 DEF Stored, Latest, Current, ChangesInTime, InTime, WellFormed,
                Terminal, KeptForRetention
  <2> QED BY <1>2, <2>1, <2>2 DEF Lawful
<1>3. CASE fresh
  <2>1. /\ cr' = [cr EXCEPT ![cur] = c] /\ mem = cr[cur]
        /\ watch' = (IF c = cr[cur] THEN watch ELSE Append(watch, <<cur, c>>))
    BY <1>3 DEF Write, Held
  <2>2. c.stop = "passed" => cur \in elapsed \union Overflows
    BY <1>3 DEF Follows, Held, InTime
  <2>3. Stored'
    BY <1>1, <1>3, <2>1, <2>2, ChangeStored DEF Follows
  <2>4. Lawful
    <3>1. cr'[cur] = c /\ \A f \in Exports \ {cur} : cr'[f] = cr[f]
      BY <1>1, <2>1 DEF Stored
    <3> QED BY <1>1, <1>3, <2>1, <3>1 DEF Lawful, Follows
  <2> QED BY <1>3, <2>1, <2>3, <2>4
<1> QED BY <1>2, <1>3 DEF Held

-----------------------------------------------------------------------------
(* Exclusive.                                                              *)

(* A step that starts no export cannot break it. *)
LEMMA ExclusiveKept ==
  ASSUME Exclusive, raced \subseteq raced',
         \A e \in Exports : Running(cr'[e]) => Running(cr[e])
  PROVE  Exclusive'
<1>1. \A e : Running(cr[e])' <=> Running(cr'[e])
  BY DEF Running, Terminal
<1> QED BY <1>1 DEF Exclusive

(* An export that starts finds, on a list that is not behind, no other     *)
(* export running on its namespaces: one that runs has a state that        *)
(* CheckOngoingExport looks for.                                           *)
LEMMA RunningIsOngoing ==
  ASSUME NEW c, WellFormed(c), Running(c)
  PROVE  Ongoing(c)
BY DEF WellFormed, Running, Ongoing

LEMMA StartExclusive ==
  ASSUME Stored, Exclusive, cur \in Exports, ~CheckOngoingExport(cur),
         NEW c, cr' = [cr EXCEPT ![cur] = c],
         raced' = IF watch # <<>> THEN raced \union {cur} ELSE raced
  PROVE  Exclusive'
<1>1. \A e \in Exports : cr'[e] = IF e = cur THEN c ELSE cr[e]
  BY DEF Stored
<1>2. \A e : Running(cr[e])' <=> Running(cr'[e])
  BY DEF Running, Terminal
<1>3. ASSUME NEW f \in Exports, f # cur, Running(cr[f]),
             Claimed[f] \cap Claimed[cur] # {}
      PROVE  cur \in raced'
  <2>1. CASE watch = <<>>
    <3>1. cached[f] = cr[f]
      BY <2>1, EmptyIsCurrent, CaughtUp
    <3>2. Ongoing(cached[f])
      BY <1>3, <3>1, RunningIsOngoing DEF Stored
    <3> QED BY <1>3, <3>2 DEF CheckOngoingExport
  <2> QED BY <2>1
<1> SUFFICES ASSUME NEW e \in Exports, NEW f \in Exports, e # f,
                    Running(cr'[e]), Running(cr'[f]),
                    Claimed[e] \cap Claimed[f] # {}
             PROVE  e \in raced' \/ f \in raced'
  BY <1>2 DEF Exclusive
<1>4. CASE e = cur
  <2>1. Running(cr[f]) /\ Claimed[f] \cap Claimed[cur] # {}
    BY <1>1, <1>4
  <2> QED BY <1>3, <1>4, <2>1
<1>5. CASE f = cur
  <2>1. Running(cr[e]) /\ Claimed[e] \cap Claimed[cur] # {}
    BY <1>1, <1>5
  <2> QED BY <1>3, <1>5, <2>1
<1>6. CASE e # cur /\ f # cur
  BY <1>1, <1>6 DEF Exclusive
<1> QED BY <1>4, <1>5, <1>6

-----------------------------------------------------------------------------
(* The ways a reconcile goes on and ends.                                  *)

LEMMA NewExportIs ==
  NewExport \in Resources /\ ~Terminal(NewExport) /\ WellFormed(NewExport)
  /\ NewExport.stop = "nil" /\ NewExport.live /\ StageOf(NewExport) = "queued"
<1>1. PhaseCreated \in QueuePhases
  BY PhasesAre DEF PhaseCreated
<1>2. NewExport \in Resources /\ ~Terminal(NewExport) /\ WellFormed(NewExport)
      /\ NewExport.stop = "nil" /\ NewExport.live /\ NewExport.phase = PhaseCreated
  BY <1>1
  DEF NewExport, Resources, Terminal, WellFormed, StateNone, PhaseCreated,
      PhaseCompleted, StateCanceled, StateVeleroFailed
<1> QED BY <1>2, StageIs

LEMMA ReturnHeld == Return => Held'
BY NewExportIs DEF Return, Held

(* A step that changes no resource. *)
LEMMA StoredKept ==
  ASSUME Stored, UNCHANGED <<cr, cached, watch, elapsed>>
  PROVE  Stored' /\ Lawful
BY DEF Stored, Latest, Current, ChangesInTime, InTime, WellFormed, Terminal,
       KeptForRetention, Lawful

LEMMA QuietOK ==
  ASSUME IInv, UNCHANGED <<cr, cached, watch, elapsed, raced>>,
         Held', Others'
  PROVE  StepOK
<1>1. Exclusive'
  BY ExclusiveKept DEF IInv
<1> QED BY <1>1, StoredKept DEF IInv, StepOK

(* A reconcile that ends with a status update. *)
LEMMA FinishOK ==
  ASSUME IInv, pc # "idle", NEW c, Finish(c), UNCHANGED raced, faults' \in Nat,
         fresh => Follows(c) /\ (Running(c) => Running(mem))
  PROVE  StepOK
<1>1. /\ Stored' /\ Lawful
      /\ fresh => cr' = [cr EXCEPT ![cur] = c]
      /\ ~fresh => cr' = cr
  BY WriteStored DEF IInv, Finish
<1>2. Held'
  BY ReturnHeld DEF Finish
<1>3. Others'
  BY DEF IInv, Others, Finish
<1>4. \A e \in Exports : Running(cr'[e]) => Running(cr[e])
  BY <1>1 DEF IInv, Stored, Held
<1>5. Exclusive'
  BY <1>4, ExclusiveKept DEF IInv
<1> QED BY <1>1, <1>2, <1>3, <1>5 DEF StepOK, IInv

(* What a handler knows of its copy. *)
LEMMA HandlersCopy ==
  ASSUME IInv, pc # "idle"
  PROVE  /\ cur \in Exports /\ mem \in Resources /\ mem.live
         /\ fresh => mem = cr[cur] /\ WellFormed(mem)
BY DEF IInv, Held, Stored

-----------------------------------------------------------------------------
(* The actions of the worker.                                              *)

LEMMA BeginOK == ASSUME IInv, NEW e \in Exports, Begin(e) PROVE StepOK
<1>1. /\ mem' = cached[e] /\ cached[e].live /\ cur' = e /\ pc' = "start"
      /\ fresh' = Current(e)
      /\ UNCHANGED <<cr, cached, watch, elapsed, raced, copy, faults>>
  BY DEF Begin
<1>2. fresh' \in BOOLEAN /\ (fresh' => cached[e] = cr[e])
  BY <1>1, CaughtUp DEF IInv, Current
<1>3. Held'
  <2>1. InTime(cur, mem)'
    BY <1>1 DEF IInv, Stored, InTime, Terminal
  <2>2. cached[e] \in Resources /\ e # NoExport
    BY QueueAssumption DEF IInv, Stored
  <2> QED BY <1>1, <1>2, <2>1, <2>2 DEF Held
<1>4. Others'
  BY <1>1 DEF IInv, Others
<1> QED BY <1>1, <1>3, <1>4, QuietOK

LEMMA TimeoutOK == IInv /\ Timeout => StepOK
<1> SUFFICES ASSUME IInv, Timeout PROVE StepOK
  OBVIOUS
<1> DEFINE c == [mem EXCEPT !.state = StateCanceled]
<1>1. pc # "idle" /\ TimedOut(mem) /\ Finish(c) /\ UNCHANGED <<faults, raced>>
  BY DEF Timeout
<1>2. fresh => Follows(c) /\ ~Running(c)
  BY <1>1, HandlersCopy, CanceledFollows
<1>3. faults' \in Nat
  BY <1>1 DEF IInv, Others
<1> HIDE DEF c
<1> QED BY <1>1, <1>2, <1>3, FinishOK

(* Delete states no resourceVersion: what makes it safe is that an old     *)
(* copy that has ended, and expired, tells the truth about the resource.   *)
LEMMA EndedOK == IInv /\ Ended => StepOK
<1> SUFFICES ASSUME IInv, Ended PROVE StepOK
  OBVIOUS
<1>1. /\ pc # "idle" /\ Terminal(mem) /\ Return
      /\ UNCHANGED <<cached, copy, faults, raced, elapsed>>
  BY DEF Ended
<1>2. Held' /\ Others'
  BY <1>1, ReturnHeld DEF IInv, Others
<1>3. CASE UNCHANGED <<cr, watch>>
  BY <1>1, <1>2, <1>3, QuietOK
<1>4. CASE Expired(mem) /\ cr[cur].live
  <2> DEFINE d == [cr[cur] EXCEPT !.live = FALSE]
  <2>1. cur \in Exports /\ cr[cur] \in Resources
    BY <1>1 DEF IInv, Held, Stored
  <2>2. /\ d \in Resources /\ ~d.live /\ d.phase = cr[cur].phase
        /\ d.state = cr[cur].state /\ d.stop = cr[cur].stop
    BY <2>1 DEF Resources
  <2>3. cr' = [cr EXCEPT ![cur] = d] /\ watch' = Append(watch, <<cur, cr'[cur]>>)
    BY <1>4 DEF Ended
  <2> HIDE DEF d
  <2>4. cr'[cur] = d /\ d # cr[cur] /\ \A f \in Exports \ {cur} : cr'[f] = cr[f]
    BY <1>4, <2>1, <2>2, <2>3 DEF IInv, Stored
  <2>5. Terminal(cr[cur]) /\ cur \in elapsed \union Overflows
    BY <1>1, <1>4 DEF IInv, Held, InTime, Expired
  <2>6. WellFormed(d) /\ Terminal(d) /\ ~Running(d)
    BY <2>1, <2>2, <2>5 DEF IInv, Stored, WellFormed, Terminal, Running
  <2>7. watch' = IF d = cr[cur] THEN watch ELSE Append(watch, <<cur, d>>)
    BY <2>3, <2>4
  <2>8. Stored'
    BY <1>1, <2>1, <2>2, <2>3, <2>5, <2>6, <2>7, ChangeStored DEF IInv
  <2>9. Legal(StageOf(cr[cur]), StageOf(d))
    BY <1>4, <2>1, <2>2, <2>5, StageIs DEF Legal
  <2>10. Lawful
    BY <2>1, <2>4, <2>9 DEF Lawful
  <2>11. Exclusive'
    BY <1>1, <2>4, <2>6, ExclusiveKept DEF IInv
  <2> QED BY <1>2, <2>8, <2>10, <2>11 DEF StepOK, IInv
<1> QED BY <1>3, <1>4 DEF Ended

LEMMA CreatedOK == IInv /\ (Created \/ CannotList) => StepOK
<1> SUFFICES ASSUME IInv, Created \/ CannotList PROVE StepOK
  OBVIOUS
<1>1. /\ pc = "start" /\ ~Terminal(mem) /\ mem.phase = PhaseCreated
      /\ faults' \in Nat
  BY DEF Created, CannotList, At, Fault, IInv, Others
<1>2. /\ cur \in Exports /\ mem \in Resources /\ mem.live
      /\ fresh => mem = cr[cur]
  BY <1>1, HandlersCopy
<1>3. CASE Finish(FailedOn(mem)) /\ UNCHANGED raced
  <2>1. Follows(FailedOn(mem)) /\ (Running(FailedOn(mem)) => Running(mem))
    BY <1>1, <1>2, FailedFollows
  <2> QED BY <1>1, <1>3, <2>1, FinishOK
<1>4. CASE Created /\ ~CheckOngoingExport(cur)
  <2> DEFINE c == Succeeded(cur, mem)
  <2>1. Follows(c)
    BY <1>1, <1>2, SucceededFollows
  <2> HIDE DEF c
  <2>2. Write(c) /\ UNCHANGED <<cached, copy, elapsed, faults>>
    BY <1>4 DEF Created, c
  <2>3. /\ Stored' /\ Lawful
        /\ fresh => cr' = [cr EXCEPT ![cur] = c]
        /\ ~fresh => cr' = cr
    BY <1>1, <2>1, <2>2, WriteStored DEF IInv
  <2>4. CASE ~fresh
    <3>1. Return /\ raced' = raced
      BY <1>4, <2>4 DEF Created
    <3>2. Held' /\ Others'
      BY <2>2, <3>1, ReturnHeld DEF IInv, Others
    <3>3. Exclusive'
      BY <2>3, <2>4, <3>1, ExclusiveKept DEF IInv
    <3> QED BY <2>3, <3>2, <3>3 DEF StepOK, IInv
  <2>5. CASE fresh
    <3>1. /\ mem' = c /\ UNCHANGED <<pc, cur, fresh>>
          /\ raced' = IF watch # <<>> THEN raced \union {cur} ELSE raced
      BY <1>4, <2>5 DEF Created, c
    <3>2. mem' = cr'[cur'] /\ cr'[cur] = c
      BY <1>2, <2>3, <2>5, <3>1 DEF IInv, Stored
    <3>3. Held'
      <4>1. InTime(cur, cr[cur])'
        BY <1>2, <2>3, <3>1 DEF Stored
      <4>2. InTime(cur, mem)'
        BY <3>2, <4>1 DEF InTime, Terminal
      <4> QED BY <1>1, <2>1, <3>1, <3>2, <4>2 DEF IInv, Held, Follows
    <3>4. Others'
      BY <1>2, <2>2, <3>1 DEF IInv, Others
    <3>5. Exclusive'
      BY <1>2, <1>4, <2>3, <2>5, <3>1, StartExclusive DEF IInv
    <3> QED BY <2>3, <3>3, <3>4, <3>5 DEF StepOK, IInv
  <2> QED BY <2>4, <2>5 DEF IInv, Held
<1> QED BY <1>3, <1>4 DEF Created, CannotList

(* The phases after the queue. *)
LEMMA WorkOK ==
  IInv /\ (Work \/ CopyStarted \/ WaitFileSystemCopyComplete) => StepOK
<1> SUFFICES ASSUME IInv, Work \/ CopyStarted \/ WaitFileSystemCopyComplete
             PROVE  StepOK
  OBVIOUS
<1>1. /\ pc # "idle" /\ ~Terminal(mem) /\ mem.phase # PhaseCreated
      /\ UNCHANGED <<faults, raced>> /\ faults' \in Nat
  BY DEF Work, CopyStarted, WaitFileSystemCopyComplete, At, IInv, Held,
         Others, PhaseCreated
<1>2. mem \in Resources /\ mem.live
  BY <1>1, HandlersCopy
<1>3. CASE Finish(Succeeded(cur, mem))
  <2>1. Follows(Succeeded(cur, mem)) /\ Running(mem)
    BY <1>1, <1>2, SucceededFollows
  <2> QED BY <1>1, <1>3, <2>1, FinishOK
<1>4. CASE Finish(FailedOn(mem))
  <2>1. Follows(FailedOn(mem)) /\ (Running(FailedOn(mem)) => Running(mem))
    BY <1>1, <1>2, FailedFollows
  <2> QED BY <1>1, <1>4, <2>1, FinishOK
<1>5. CASE WaitFileSystemCopyComplete
           /\ Finish(FailedOn([mem EXCEPT !.state = StateVeleroFailed]))
  <2> DEFINE c == FailedOn([mem EXCEPT !.state = StateVeleroFailed])
  <2>1. Follows(c) /\ ~Running(c)
    BY <1>1, <1>2, <1>5, AbortedFollows DEF WaitFileSystemCopyComplete, At
  <2> HIDE DEF c
  <2> QED BY <1>1, <1>5, <2>1, FinishOK DEF c
<1>6. CASE Return /\ UNCHANGED <<cr, cached, watch, copy, elapsed>>
  <2>1. Held' /\ Others'
    BY <1>1, <1>6, ReturnHeld DEF IInv, Others
  <2> QED BY <1>1, <1>6, <2>1, QuietOK
<1> QED
  BY <1>3, <1>4, <1>5, <1>6 DEF Work, CopyStarted, WaitFileSystemCopyComplete

LEMMA StartCopyOK == IInv /\ StartFileSystemCopy => StepOK
<1> SUFFICES ASSUME IInv, StartFileSystemCopy PROVE StepOK
  OBVIOUS
<1>1. /\ pc = "start" /\ ~Terminal(mem) /\ mem.phase = "StartFileSystemCopy"
      /\ pc' = "copying"
      /\ UNCHANGED <<cr, cached, watch, cur, mem, fresh, faults, raced, elapsed>>
      /\ copy' = [copy EXCEPT ![BackupOf[cur]] = IF @ = "absent" THEN "new" ELSE @]
  BY DEF StartFileSystemCopy, At
<1>2. Held'
  BY <1>1 DEF IInv, Held, InTime, Terminal
<1>3. Others'
  BY <1>1 DEF IInv, Others
<1> QED BY <1>1, <1>2, <1>3, QuietOK

-----------------------------------------------------------------------------
(* The clock, which changes every copy of one export alike.                *)

(* What the clock may do to a copy. *)
Ticks(u, e) ==
  /\ u \in [Resources -> Resources]
  /\ \A c \in Resources :
       /\ u[c].phase = c.phase /\ u[c].state = c.state /\ u[c].live = c.live
       /\ u[c].stop = "passed" => c.stop = "passed" \/ e \in elapsed'

LEMMA TickIs ==
  ASSUME NEW u, NEW e, Ticks(u, e), NEW c \in Resources
  PROVE  /\ u[c] \in Resources
         /\ Terminal(u[c]) <=> Terminal(c)
         /\ WellFormed(c) => WellFormed(u[c])
         /\ Running(u[c]) <=> Running(c)
         /\ StageOf(u[c]) = StageOf(c)
<1>1. u[c] \in Resources
  BY DEF Ticks
<1>2. u[c].phase = c.phase /\ u[c].state = c.state /\ u[c].live = c.live
  BY DEF Ticks
<1>3. Terminal(u[c]) <=> Terminal(c)
  BY <1>2 DEF Terminal
<1> QED BY <1>1, <1>2, <1>3 DEF WellFormed, Running, StageOf

LEMMA TicksOK ==
  ASSUME IInv, NEW e \in Exports, NEW u, Ticks(u, e),
         cr' = [cr EXCEPT ![e] = u[cr[e]]],
         cached' = [cached EXCEPT ![e] = u[cached[e]]],
         watch' = [k \in DOMAIN watch |->
                     IF watch[k][1] = e THEN <<e, u[watch[k][2]]>> ELSE watch[k]],
         mem' = (IF cur = e THEN u[mem] ELSE mem),
         elapsed \subseteq elapsed', elapsed' \in SUBSET Exports,
         UNCHANGED <<pc, cur, fresh, copy, faults, raced>>
  PROVE  StepOK
<1>1. /\ cr \in [Exports -> Resources] /\ cached \in [Exports -> Resources]
      /\ mem \in Resources /\ watch \in Seq(Exports \X Resources)
  BY DEF IInv, Stored, Held
<1>2. /\ \A f \in Exports : cr'[f] = IF f = e THEN u[cr[f]] ELSE cr[f]
      /\ \A f \in Exports : cached'[f] = IF f = e THEN u[cached[f]] ELSE cached[f]
      /\ cr' \in [Exports -> Resources] /\ cached' \in [Exports -> Resources]
      /\ mem' \in Resources
  BY <1>1, TickIs
<1>3. \A f \in Exports : /\ Terminal(cr'[f]) <=> Terminal(cr[f])
                         /\ Running(cr'[f]) <=> Running(cr[f])
                         /\ StageOf(cr'[f]) = StageOf(cr[f])
                         /\ WellFormed(cr'[f])
  <2> SUFFICES ASSUME NEW f \in Exports
               PROVE  /\ Terminal(cr'[f]) <=> Terminal(cr[f])
                      /\ Running(cr'[f]) <=> Running(cr[f])
                      /\ StageOf(cr'[f]) = StageOf(cr[f])
                      /\ WellFormed(cr'[f])
    OBVIOUS
  <2>1. WellFormed(cr[f]) /\ cr[f] \in Resources
    BY DEF IInv, Stored
  <2>2. cr'[f] = u[cr[f]] \/ cr'[f] = cr[f]
    BY <1>2
  <2> QED BY <2>1, <2>2, TickIs
<1>4. ASSUME NEW f \in Exports, NEW c \in Resources, InTime(f, c),
             NEW d, d = IF f = e THEN u[c] ELSE c
      PROVE  /\ Terminal(d) => Terminal(cr'[f])
             /\ d.stop = "passed" => f \in elapsed' \union Overflows
  <2>1. CASE f = e
    <3>1. Terminal(d) => Terminal(c)
      BY <1>4, <2>1, TickIs
    <3>2. d.stop = "passed" => c.stop = "passed" \/ f \in elapsed'
      BY <1>4, <2>1 DEF Ticks
    <3> QED BY <1>3, <1>4, <3>1, <3>2 DEF InTime
  <2>2. CASE f # e
    BY <1>3, <1>4, <2>2 DEF InTime
  <2> QED BY <2>1, <2>2
<1>5. \A f \in Exports : InTime(f, cr[f])' /\ InTime(f, cached[f])'
  BY <1>1, <1>2, <1>4 DEF IInv, Stored, InTime, Terminal
<1>6. /\ DOMAIN watch' = DOMAIN watch /\ watch' \in Seq(Exports \X Resources)
      /\ \A k \in DOMAIN watch :
            /\ watch[k][1] \in Exports /\ watch[k][2] \in Resources
            /\ watch'[k][1] = watch[k][1]
            /\ watch'[k][2] = IF watch[k][1] = e THEN u[watch[k][2]]
                                                 ELSE watch[k][2]
            /\ watch'[k] = <<watch'[k][1], watch'[k][2]>>
            /\ watch[k] = <<watch[k][1], watch[k][2]>>
  <2> DEFINE new(k) == IF watch[k][1] = e THEN <<e, u[watch[k][2]]>> ELSE watch[k]
  <2>1. \A k \in DOMAIN watch : watch[k] \in Exports \X Resources
    BY <1>1
  <2>2. ASSUME NEW k \in DOMAIN watch
        PROVE  /\ new(k) \in Exports \X Resources
               /\ new(k)[1] = watch[k][1]
               /\ new(k)[2] = IF watch[k][1] = e THEN u[watch[k][2]] ELSE watch[k][2]
    <3>1. watch[k][1] \in Exports /\ watch[k][2] \in Resources
      BY <2>1
    <3>2. u[watch[k][2]] \in Resources
      BY <3>1, TickIs
    <3> QED BY <2>1, <3>1, <3>2
  <2> HIDE DEF new
  <2>3. DOMAIN watch = 1..Len(watch) /\ Len(watch) \in Nat
    BY <1>1
  <2>4. watch' = [k \in 1..Len(watch) |-> new(k)]
    BY <2>3 DEF new
  <2>5. watch' \in Seq(Exports \X Resources) /\ DOMAIN watch' = DOMAIN watch
    BY <2>2, <2>3, <2>4
  <2>6. \A k \in DOMAIN watch : watch'[k] = new(k)
    BY <2>3, <2>4
  <2>7. \A p \in Exports \X Resources :
           p[1] \in Exports /\ p[2] \in Resources /\ p = <<p[1], p[2]>>
    OBVIOUS
  <2> QED BY <2>1, <2>2, <2>5, <2>6, <2>7
<1>7. ChangesInTime'
  <2> SUFFICES ASSUME NEW k \in DOMAIN watch
               PROVE  InTime(watch[k][1], watch[k][2])'
    BY <1>6 DEF ChangesInTime
  <2>1. InTime(watch[k][1], watch[k][2])
    BY DEF IInv, Stored, ChangesInTime
  <2> DEFINE f == watch[k][1]
             c == watch[k][2]
             d == watch'[k][2]
  <2>2. f \in Exports /\ c \in Resources /\ d = (IF f = e THEN u[c] ELSE c)
        /\ watch'[k][1] = f
    BY <1>6
  <2>3. InTime(f, c)
    BY <2>1
  <2> HIDE DEF f, c, d
  <2>4. /\ Terminal(d) => Terminal(cr'[f])
        /\ d.stop = "passed" => f \in elapsed' \union Overflows
    BY <1>4, <2>2, <2>3
  <2> QED BY <2>2, <2>4 DEF d, InTime, Terminal
<1>8. ASSUME NEW f \in Exports PROVE Latest(f)'
  <2>1. CASE Current(f) /\ cached[f] = cr[f]
    <3>1. Current(f)'
      BY <1>6, <2>1 DEF Current
    <3>2. cached'[f] = cr'[f]
      BY <1>2, <2>1
    <3> QED BY <3>1, <3>2 DEF Latest
  <2>2. ASSUME NEW k \in DOMAIN watch, watch[k] = <<f, cr[f]>>,
               \A j \in DOMAIN watch : j > k => watch[j][1] # f
        PROVE  Latest(f)'
    <3>1. watch[k][1] = f /\ watch[k][2] = cr[f]
      BY <2>2
    <3>2. watch'[k][1] = f /\ watch'[k][2] = cr'[f]
      BY <1>2, <1>6, <3>1
    <3>3. watch'[k] = <<f, cr'[f]>>
      BY <1>6, <3>2, Zenon
    <3>4. \A j \in DOMAIN watch' : j > k => watch'[j][1] # f
      BY <1>6, <2>2
    <3> QED BY <1>6, <3>3, <3>4 DEF Latest
  <2> QED BY <2>1, <2>2 DEF IInv, Stored, Latest
<1>9. KeptForRetention'
  <2>1. \A f \in Exports : cr'[f].live = cr[f].live
    BY <1>1, <1>2 DEF Ticks
  <2> QED BY <2>1 DEF IInv, Stored, KeptForRetention
<1>10. \A f \in Exports : WellFormed(cr[f])'
  BY <1>3 DEF WellFormed, Terminal
<1>11. Stored'
  BY <1>2, <1>5, <1>6, <1>7, <1>8, <1>9, <1>10 DEF Stored
<1>12. Held'
  <2>1. mem'.phase = mem.phase /\ mem'.state = mem.state /\ mem'.live = mem.live
    BY <1>1 DEF Ticks
  <2>2. fresh' => mem' = cr'[cur']
    <3>1. fresh => cur \in Exports /\ mem = cr[cur]
      BY DEF IInv, Held
    <3> QED BY <1>2, <3>1
  <2>3. pc # "idle" => InTime(cur, mem)'
    <3>1. pc # "idle" => cur \in Exports /\ InTime(cur, mem)
      BY DEF IInv, Held
    <3> QED BY <1>1, <1>4, <3>1 DEF InTime, Terminal
  <2> QED BY <1>2, <2>1, <2>2, <2>3 DEF IInv, Held, Terminal
<1>13. Exclusive' /\ Others' /\ Lawful
  BY <1>3, ExclusiveKept DEF IInv, Others, Lawful
<1> QED BY <1>11, <1>12, <1>13 DEF StepOK, IInv

LEMMA TimePassesOK == ASSUME IInv, NEW e \in Exports, TimePasses(e) PROVE StepOK
<1> DEFINE u == [c \in Resources |-> Aged(c)]
<1>1. \A c \in Resources :
         /\ Aged(c) \in Resources /\ Aged(c).phase = c.phase
         /\ Aged(c).state = c.state /\ Aged(c).live = c.live
         /\ Aged(c).stop = c.stop
  BY DEF Aged, Resources
<1>2. Ticks(u, e)
  BY <1>1 DEF Ticks
<1>3. \A c \in Resources : u[c] = Aged(c)
  OBVIOUS
<1> HIDE DEF u
<1>4. /\ cr \in [Exports -> Resources] /\ cached \in [Exports -> Resources]
      /\ mem \in Resources /\ elapsed \in SUBSET Exports
      /\ \A k \in DOMAIN watch : watch[k][2] \in Resources
  BY DEF IInv, Stored, Held
<1>5. /\ cr' = [cr EXCEPT ![e] = u[cr[e]]]
      /\ cached' = [cached EXCEPT ![e] = u[cached[e]]]
      /\ watch' = [k \in DOMAIN watch |->
                     IF watch[k][1] = e THEN <<e, u[watch[k][2]]>> ELSE watch[k]]
      /\ mem' = (IF cur = e THEN u[mem] ELSE mem)
      /\ UNCHANGED <<pc, cur, fresh, copy, faults, raced, elapsed>>
  BY <1>3, <1>4 DEF TimePasses, InAllCopies
<1> QED BY <1>2, <1>4, <1>5, TicksOK

LEMMA RetentionElapsesOK ==
  ASSUME IInv, NEW e \in Exports, RetentionElapses(e) PROVE StepOK
<1> DEFINE u == [c \in Resources |-> Stopped(c)]
<1>1. \A c \in Resources :
         /\ Stopped(c) \in Resources /\ Stopped(c).phase = c.phase
         /\ Stopped(c).state = c.state /\ Stopped(c).live = c.live
  BY DEF Stopped, Resources
<1>2. elapsed' = elapsed \union {e}
  BY DEF RetentionElapses
<1>3. Ticks(u, e)
  BY <1>1, <1>2 DEF Ticks
<1>4. \A c \in Resources : u[c] = Stopped(c)
  OBVIOUS
<1> HIDE DEF u
<1>5. /\ cr \in [Exports -> Resources] /\ cached \in [Exports -> Resources]
      /\ mem \in Resources /\ elapsed \in SUBSET Exports
      /\ \A k \in DOMAIN watch : watch[k][2] \in Resources
  BY DEF IInv, Stored, Held
<1>6. /\ cr' = [cr EXCEPT ![e] = u[cr[e]]]
      /\ cached' = [cached EXCEPT ![e] = u[cached[e]]]
      /\ watch' = [k \in DOMAIN watch |->
                     IF watch[k][1] = e THEN <<e, u[watch[k][2]]>> ELSE watch[k]]
      /\ mem' = (IF cur = e THEN u[mem] ELSE mem)
      /\ UNCHANGED <<pc, cur, fresh, copy, faults, raced>>
  BY <1>4, <1>5 DEF RetentionElapses, InAllCopies
<1> QED BY <1>2, <1>3, <1>5, <1>6, TicksOK

-----------------------------------------------------------------------------
(* The rest of the world.                                                  *)

LEMMA WorldOK ==
  IInv /\ (CacheSync \/ Unreachable \/ Crash \/ \E b \in Backups : VeleroFinishes(b))
    => StepOK
<1> SUFFICES ASSUME IInv,
                    \/ CacheSync \/ Unreachable \/ Crash
                    \/ \E b \in Backups : VeleroFinishes(b)
             PROVE  StepOK
  OBVIOUS
<1>1. CASE CacheSync
  <2>1. UNCHANGED <<cr, pc, cur, mem, fresh, copy, faults, raced, elapsed>>
    BY <1>1 DEF CacheSync, workerVars
  <2>2. Held' /\ Others' /\ Lawful
    BY <2>1 DEF IInv, Held, Others, InTime, Terminal, Lawful
  <2>3. Stored' /\ Exclusive'
    BY <1>1, <2>1, SyncStored, ExclusiveKept DEF IInv
  <2> QED BY <2>2, <2>3 DEF StepOK, IInv
<1>2. CASE Unreachable
  <2>1. Held' /\ Others'
    BY <1>2, ReturnHeld DEF Unreachable, Fault, IInv, Others
  <2> QED BY <1>2, <2>1, QuietOK DEF Unreachable
<1>3. CASE Crash
  <2>1. /\ cached' = cr /\ watch' = <<>>
        /\ UNCHANGED <<cr, copy, raced, elapsed>> /\ Return /\ Fault
    BY <1>3 DEF Crash
  <2>2. Held' /\ Others' /\ Lawful /\ Exclusive'
    BY <2>1, ReturnHeld, ExclusiveKept DEF IInv, Others, Fault, Lawful
  <2>3. \A e \in Exports : Latest(e)'
    BY <2>1 DEF Latest, Current
  <2>4. \A e \in Exports : InTime(e, cr[e])' /\ InTime(e, cached[e])'
    BY <2>1 DEF IInv, Stored, InTime, Terminal
  <2>5. ChangesInTime' /\ watch' \in Seq(Exports \X Resources)
    BY <2>1 DEF ChangesInTime
  <2>6. \A e \in Exports : WellFormed(cr[e])'
    BY <2>1 DEF IInv, Stored, WellFormed, Terminal
  <2>7. KeptForRetention'
    BY <2>1 DEF IInv, Stored, KeptForRetention
  <2>8. Stored'
    BY <2>1, <2>3, <2>4, <2>5, <2>6, <2>7 DEF IInv, Stored
  <2> QED BY <2>2, <2>8 DEF StepOK, IInv
<1>4. ASSUME NEW b \in Backups, VeleroFinishes(b) PROVE StepOK
  <2>1. /\ UNCHANGED <<cr, cached, watch, pc, cur, mem, fresh, faults, raced, elapsed>>
        /\ copy' \in [Backups -> {"absent", "new", "completed", "failed"}]
    BY <1>4 DEF VeleroFinishes, workerVars, IInv, Others
  <2>2. Held' /\ Others'
    BY <2>1 DEF IInv, Held, Others, InTime, Terminal
  <2> QED BY <2>1, <2>2, QuietOK
<1> QED BY <1>1, <1>2, <1>3, <1>4

LEMMA UnchangedOK == IInv /\ UNCHANGED vars => StepOK
<1> SUFFICES ASSUME IInv, UNCHANGED vars PROVE StepOK
  OBVIOUS
<1>1. Held' /\ Others'
  BY DEF vars, workerVars, IInv, Held, Others, InTime, Terminal
<1> QED BY <1>1, QuietOK DEF vars

LEMMA QueueStep == IInv /\ [Next]_vars => StepOK
<1> SUFFICES ASSUME IInv, [Next]_vars PROVE StepOK
  OBVIOUS
<1>1. CASE Worker
  BY <1>1, BeginOK, UnchangedOK, TimeoutOK, EndedOK, CreatedOK, WorkOK, StartCopyOK
  DEF Worker, NotFound
<1> QED
  BY <1>1, WorldOK, TimePassesOK, RetentionElapsesOK, UnchangedOK DEF Next

LEMMA InitHolds == Init => IInv
<1> SUFFICES ASSUME Init PROVE IInv
  OBVIOUS
<1>1. /\ cr = [e \in Exports |-> NewExport] /\ cached = cr /\ watch = <<>>
      /\ pc = "idle" /\ cur = NoExport /\ mem = NewExport /\ fresh = FALSE
      /\ copy = [b \in Backups |-> "absent"] /\ faults = MaxFaults
      /\ raced = {} /\ elapsed = {}
  BY DEF Init
<1>2. \A e \in Exports : cr[e] = NewExport
  BY <1>1
<1>3. Stored
  <2>1. ChangesInTime /\ watch \in Seq(Exports \X Resources)
    BY <1>1 DEF ChangesInTime
  <2>2. \A e \in Exports : Latest(e)
    BY <1>1 DEF Latest, Current
  <2>3. \A e \in Exports : WellFormed(cr[e]) /\ InTime(e, cr[e]) /\ InTime(e, cached[e])
    BY <1>1, <1>2, NewExportIs DEF InTime
  <2>4. KeptForRetention
    BY <1>2, NewExportIs DEF KeptForRetention
  <2> QED BY <1>1, <2>1, <2>2, <2>3, <2>4, NewExportIs DEF Stored
<1>4. Held
  BY <1>1, NewExportIs DEF Held
<1>5. Others
  BY <1>1, QueueAssumption DEF Others
<1>6. Exclusive
  <2>1. \A e \in Exports : ~Running(cr[e])
    BY <1>2 DEF Running, NewExport
  <2> QED BY <2>1 DEF Exclusive
<1> QED BY <1>3, <1>4, <1>5, <1>6 DEF IInv

-----------------------------------------------------------------------------
(* The theorems.                                                           *)

(* The inductive invariant: the informer ends in the resources, no old     *)
(* copy says that an export has ended or expired when it has not, and what *)
(* the worker may write is the resource it read.                           *)
THEOREM QueueInvariance == Spec => []IInv
<1>1. IInv /\ [Next]_vars => IInv'
  BY QueueStep DEF StepOK
<1> QED BY <1>1, InitHolds, PTL DEF Spec

(* Every variable keeps its type, whatever order the exports come in. *)
THEOREM QueueTypeCorrect == Spec => []QueueTypeOK
<1>1. IInv => QueueTypeOK
  BY DEF IInv, Stored, Held, Others, QueueTypeOK
<1> QED BY <1>1, QueueInvariance, PTL

(* CheckOngoingExport excludes: of any number of exports, two that claim a *)
(* namespace both run only if one of them left the queue on an old list.   *)
THEOREM ExportsExclude == Spec => []Exclusive
<1>1. IInv => Exclusive
  BY DEF IInv
<1> QED BY <1>1, QueueInvariance, PTL

(* Delete states no resourceVersion, and yet no export is deleted before   *)
(* its retention has elapsed, but those whose retention overflows.         *)
THEOREM RetentionIsKept == Spec => []KeptForRetention
<1>1. IInv => KeptForRetention
  BY DEF IInv, Stored
<1> QED BY <1>1, QueueInvariance, PTL

(* A lawful step is one of the lifecycle's, or changes nothing of it. *)
LEMMA LawfulIsNext ==
  ASSUME Lawful
  PROVE  [View!Next]_([e \in Exports |-> StageOf(cr[e])])
<1> DEFINE s == [e \in Exports |-> StageOf(cr[e])]
<1>1. s' = [e \in Exports |-> StageOf(cr'[e])]
  BY DEF StageOf
<1>2. CASE \A e \in Exports : StageOf(cr'[e]) = StageOf(cr[e])
  <2>1. s' = s
    BY <1>1, <1>2
  <2> QED BY <2>1
<1>3. ASSUME NEW e \in Exports, Legal(StageOf(cr[e]), StageOf(cr'[e])),
             \A f \in Exports \ {e} : cr'[f] = cr[f]
      PROVE  [View!Next]_s
  <2>1. s' = [s EXCEPT ![e] = StageOf(cr'[e])] /\ s[e] = StageOf(cr[e])
    BY <1>1, <1>3
  <2> DEFINE a == StageOf(cr[e])
             b == StageOf(cr'[e])
  <2>2. CASE a = b
    <3>1. s' = s
      BY <2>1, <2>2
    <3> QED BY <3>1
  <2>3. CASE a = "queued" /\ b = "running"
    BY <2>1, <2>3 DEF View!Next, View!Start, View!Move
  <2>4. CASE a \in {"queued", "running"} /\ b = "canceled"
    BY <2>1, <2>4 DEF View!Next, View!Cancel, View!Move
  <2>5. CASE a = "running" /\ b \in {"completed", "failed"}
    BY <2>1, <2>5 DEF View!Next, View!Finish, View!Move
  <2>6. CASE a \in {"completed", "failed", "canceled"} /\ b = "deleted"
    BY <2>1, <2>6 DEF View!Next, View!Delete, View!Move, View!Ends
  <2> QED BY <1>3, <2>2, <2>3, <2>4, <2>5, <2>6 DEF Legal
<1> QED BY <1>2, <1>3 DEF Lawful

(* Each of any number of exports lives the life of one export alone: it    *)
(* starts once, ends once, and is deleted after its end.                   *)
THEOREM QueueHasLifecycle == Spec => QueueImplementsLifecycle
<1>1. Init => View!Init
  BY NewExportIs DEF Init, View!Init
<1>2. IInv /\ [Next]_vars => [View!Next]_([e \in Exports |-> StageOf(cr[e])])
  BY QueueStep, LawfulIsNext DEF StepOK
<1> QED
  BY <1>1, <1>2, QueueInvariance, PTL
  DEF Spec, QueueImplementsLifecycle, View!Spec
=============================================================================

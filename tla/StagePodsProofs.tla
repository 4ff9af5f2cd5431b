--------------------------- MODULE StagePodsProofs ---------------------------
(***************************************************************************)
(* Proofs about the stage pods of a namespace, for every set of            *)
(* application pods, whatever volumes they share, and for any number of    *)
(* calls that fail and of pods that come and go.                           *)
(*                                                                         *)
(* What merge keeps is computed by a fold over the listed pods, in the     *)
(* order the cache has returned them.  The proof follows the fold one pod  *)
(* at a time and takes the least number of pods after which its claim      *)
(* would not hold.                                                         *)
(***************************************************************************)
EXTENDS StagePodsProperties, FiniteSetTheorems, WellFoundedInduction, TLAPS

(* No other pod has the stage name of a pod whose name truncateName leaves *)
(* alone.                                                                  *)
OwnNames ==
  \A p \in AppPods \ Altered, q \in AppPods : StageName[p] = StageName[q] => p = q

-----------------------------------------------------------------------------
(* Least elements.                                                         *)

(* What holds of some numbers holds of a first one. *)
LEMMA Least ==
  ASSUME NEW T, T \subseteq Nat, T # {}
  PROVE  \E n \in T : \A m \in T : n <= m
<1> DEFINE R == {ss \in Nat \X Nat : ss[1] < ss[2]}
<1>1. IsWellFoundedOn(R, Nat)
  BY NatLessThanWellFounded DEF OpToRel
<1>2. \E n \in T : \A m \in T : ~(<<m, n>> \in R)
  <2> HIDE DEF R
  <2> QED BY <1>1, WFMin
<1>3. PICK n \in T : \A m \in T : ~(<<m, n>> \in R)
  BY <1>2
<1>4. \A m \in T : ~(m < n)
  BY <1>3
<1> QED BY <1>4

LEMMA MaxIs ==
  ASSUME NEW n \in Nat, NEW s, s \subseteq 1..n, s # {}
  PROVE  Max(s) \in s /\ \A y \in s : y <= Max(s)
<1> DEFINE T == {m \in Nat : \A y \in s : y <= m}
<1>1. n \in T
  OBVIOUS
<1>2. PICK m \in T : \A k \in T : m <= k
  <2> HIDE DEF T
  <2>1. T \subseteq Nat
    BY DEF T
  <2> QED BY <1>1, <2>1, Least
<1>3. m \in s
  <2>1. SUFFICES ASSUME m \notin s PROVE FALSE
    OBVIOUS
  <2>2. \A y \in s : y \in 1..n /\ y <= m - 1
    BY <1>2, <2>1
  <2>3. m >= 1
    <3>1. PICK y \in s : y \in 1..n /\ y <= m - 1
      BY <2>2
    <3> QED BY <1>2, <3>1
  <2>4. m - 1 \in T
    BY <1>2, <2>2, <2>3
  <2> QED BY <1>2, <2>4
<1>4. \E x \in s : \A y \in s : x >= y
  BY <1>2, <1>3
<1>5. Max(s) \in s /\ \A y \in s : Max(s) >= y
  BY <1>4 DEF Max
<1> QED BY <1>5

LEMMA MaxOfInterval ==
  ASSUME NEW k \in Nat, k # 0
  PROVE  k \in 1..k /\ Max(1..k) = k
<1>1. k \in 1..k
  OBVIOUS
<1>2. Max(1..k) \in 1..k /\ \A y \in 1..k : y <= Max(1..k)
  BY <1>1, MaxIs
<1>3. \A x \in 1..k : k <= x => x = k
  OBVIOUS
<1> QED BY <1>1, <1>2, <1>3

-----------------------------------------------------------------------------
(* merge                                                                   *)

(* What merge makes of the list it has and of the next pod. *)
Merge(list, p) == IF ContainedIn(list, p) THEN list ELSE Append(list, p)

(* The fold over the first pods of the order, as a function of their places. *)
Folded(g, order, s) ==
  IF s = {} THEN <<>> ELSE Merge(g[s \ {Max(s)}], order[Max(s)])

IsFold(g, order, n) == g = [s \in SUBSET (1..n) |-> Folded(g, order, s)]

LEMMA FoldExtends ==
  ASSUME NEW order, NEW n \in Nat, NEW g, IsFold(g, order, n)
  PROVE  \E h : IsFold(h, order, n + 1)
<1> DEFINE h == [s \in SUBSET (1..n + 1) |->
                   IF n + 1 \in s THEN Merge(g[s \ {n + 1}], order[n + 1]) ELSE g[s]]
<1>1. \A s \in SUBSET (1..n) :
         /\ s \in SUBSET (1..n + 1) /\ n + 1 \notin s
         /\ g[s] = Folded(g, order, s)
  BY DEF IsFold
<1>2. \A s \in SUBSET (1..n) : h[s] = g[s]
  BY <1>1
<1>3. ASSUME NEW s \in SUBSET (1..n + 1)
      PROVE  h[s] = Folded(h, order, s)
  <2>1. CASE n + 1 \in s
    <3>1. Max(s) = n + 1
      <4>1. n + 1 \in Nat /\ s \subseteq 1..n + 1 /\ s # {}
        BY <2>1
      <4>2. Max(s) \in s /\ \A y \in s : y <= Max(s)
        BY <4>1, MaxIs
      <4>3. \A x \in 1..n + 1 : n + 1 <= x => x = n + 1
        OBVIOUS
      <4>4. Max(s) \in 1..n + 1 /\ n + 1 <= Max(s)
        BY <2>1, <4>2
      <4> QED BY <4>3, <4>4
    <3>2. s \ {n + 1} \in SUBSET (1..n)
      OBVIOUS
    <3>3. h[s] = Merge(g[s \ {n + 1}], order[n + 1])
      BY <2>1
    <3> HIDE DEF h
    <3>4. h[s \ {n + 1}] = g[s \ {n + 1}]
      BY <1>2, <3>2
    <3> QED BY <2>1, <3>1, <3>3, <3>4 DEF Folded
  <2>2. CASE n + 1 \notin s
    <3>1. s \in SUBSET (1..n)
      BY <2>2
    <3>2. h[s] = Folded(g, order, s)
      BY <1>1, <1>2, <3>1
    <3> HIDE DEF h
    <3>3. CASE s = {}
      BY <3>2, <3>3 DEF Folded
    <3>4. CASE s # {}
      <4>1. s \ {Max(s)} \in SUBSET (1..n)
        BY <3>1
      <4>2. h[s \ {Max(s)}] = g[s \ {Max(s)}]
        BY <1>2, <4>1
      <4> QED BY <3>2, <3>4, <4>2 DEF Folded
    <3> QED BY <3>3, <3>4
  <2> QED BY <2>1, <2>2
<1>4. h = [s \in SUBSET (1..n + 1) |-> Folded(h, order, s)]
  <2>1. h = [s \in SUBSET (1..n + 1) |-> h[s]]
    OBVIOUS
  <2> HIDE DEF h
  <2> QED BY <1>3, <2>1
<1> QED BY <1>4 DEF IsFold

LEMMA FoldExists ==
  ASSUME NEW order, NEW n \in Nat
  PROVE  \E g : IsFold(g, order, n)
<1> DEFINE Bad == {m \in Nat : ~\E g : IsFold(g, order, m)}
<1>1. SUFFICES ASSUME Bad # {} PROVE FALSE
  OBVIOUS
<1>2. PICK m \in Bad : \A k \in Bad : m <= k
  <2>1. Bad \subseteq Nat
    OBVIOUS
  <2> HIDE DEF Bad
  <2> QED BY <1>1, <2>1, Least
<1>3. CASE m = 0
  <2> DEFINE g == [s \in SUBSET (1..0) |-> <<>>]
  <2>1. \A f : [s \in SUBSET (1..0) |-> Folded(f, order, s)] = g
    BY DEF Folded
  <2>2. IsFold(g, order, 0)
    BY <2>1 DEF IsFold
  <2> QED BY <1>2, <1>3, <2>2
<1>4. CASE m # 0
  <2>1. m - 1 \in Nat /\ m - 1 \notin Bad
    BY <1>2, <1>4
  <2>2. PICK g : IsFold(g, order, m - 1)
    BY <2>1
  <2>3. \E h : IsFold(h, order, (m - 1) + 1)
    BY <2>1, <2>2, FoldExtends
  <2>4. (m - 1) + 1 = m
    BY <1>2
  <2> QED BY <1>2, <2>3, <2>4
<1> QED BY <1>3, <1>4

(* The lists merge goes through, one for each pod of the order.            *)
LEMMA MergedStepwise ==
  ASSUME NEW S, NEW order \in Seq(S)
  PROVE  \E list :
           /\ list[0] = <<>>
           /\ \A k \in 1..Len(order) : list[k] = Merge(list[k - 1], order[k])
           /\ Merged(order) = list[Len(order)]
<1> DEFINE n == Len(order)
           D == 1..n
           g == CHOOSE f : IsFold(f, order, n)
           list == [k \in 0..n |-> g[1..k]]
<1>1. n \in Nat /\ DOMAIN order = 1..n
  OBVIOUS
<1>2. IsFold(g, order, n)
  BY <1>1, FoldExists
<1>3. Merged(order) = g[1..n]
  <2>1. Merged(order) = (CHOOSE f : f = [s \in SUBSET DOMAIN order |-> Folded(f, order, s)])
                         [DOMAIN order]
    BY DEF Merged, FoldLeft, MapThenFoldSet, Folded, Merge
  <2> QED BY <1>1, <2>1 DEF IsFold
<1> HIDE DEF g
<1>4. ASSUME NEW k \in 0..n
      PROVE  g[1..k] = IF k = 0 THEN <<>> ELSE Merge(g[1..k - 1], order[k])
  <2>1. g[1..k] = Folded(g, order, 1..k)
    BY <1>2 DEF IsFold
  <2>2. CASE k = 0
    <3>1. 1..k = {}
      BY <2>2
    <3> QED BY <2>1, <2>2, <3>1 DEF Folded
  <2>3. CASE k # 0
    <3>1. k \in Nat /\ k \in 1..k /\ Max(1..k) = k
      BY <2>3, MaxOfInterval
    <3>3. (1..k) \ {k} = 1..k - 1
      OBVIOUS
    <3> QED BY <2>1, <2>3, <3>1, <3>3 DEF Folded
  <2> QED BY <2>2, <2>3
<1>5. list[0] = <<>>
  BY <1>1, <1>4
<1>6. \A k \in 1..n : list[k] = Merge(list[k - 1], order[k])
  BY <1>1, <1>4
<1>7. Merged(order) = list[n]
  BY <1>1, <1>3
<1> HIDE DEF list
<1> QED BY <1>5, <1>6, <1>7

LEMMA MergeKeeps ==
  ASSUME NEW S, NEW list \in Seq(S), NEW p \in S
  PROVE  /\ Merge(list, p) \in Seq(S) /\ ContainedIn(Merge(list, p), p)
         /\ \A q : ContainedIn(list, q) => ContainedIn(Merge(list, p), q)
<1>1. CASE ContainedIn(list, p)
  BY <1>1 DEF Merge
<1>2. CASE ~ContainedIn(list, p)
  <2> DEFINE more == Append(list, p)
  <2>1. /\ more \in Seq(S) /\ DOMAIN more = 1..Len(list) + 1
        /\ DOMAIN list = 1..Len(list) /\ Len(list) \in Nat
        /\ more[Len(list) + 1] = p
        /\ \A k \in 1..Len(list) : more[k] = list[k]
    OBVIOUS
  <2> HIDE DEF more
  <2>2. ContainedIn(more, p)
    BY <2>1 DEF ContainedIn
  <2>3. \A q : ContainedIn(list, q) => ContainedIn(more, q)
    BY <2>1 DEF ContainedIn
  <2>4. Merge(list, p) = more
    BY <1>2 DEF Merge, more
  <2> QED BY <2>1, <2>2, <2>3, <2>4
<1> QED BY <1>1, <1>2

(* Whatever the order, the volumes of every pod are those of a pod merge   *)
(* has kept.                                                               *)
LEMMA MergedKeepsAll ==
  ASSUME NEW S, NEW order \in Seq(S)
  PROVE  /\ Merged(order) \in Seq(S)
         /\ \A j \in 1..Len(order) : ContainedIn(Merged(order), order[j])
<1>1. PICK list :
        /\ list[0] = <<>>
        /\ \A k \in 1..Len(order) : list[k] = Merge(list[k - 1], order[k])
        /\ Merged(order) = list[Len(order)]
  BY MergedStepwise
<1> DEFINE Good(k) == /\ list[k] \in Seq(S)
                      /\ \A j \in 1..k : ContainedIn(list[k], order[j])
           Bad == {k \in 0..Len(order) : ~Good(k)}
<1>2. Len(order) \in Nat /\ \A k \in 1..Len(order) : order[k] \in S
  OBVIOUS
<1>3. SUFFICES ASSUME Bad # {} PROVE FALSE
  <2>1. Good(Len(order))
    BY <1>2, <1>3
  <2> QED BY <1>1, <2>1
<1>4. PICK m \in Bad : \A k \in Bad : m <= k
  <2>1. Bad \subseteq Nat
    OBVIOUS
  <2> HIDE DEF Bad
  <2> QED BY <1>3, <2>1, Least
<1>5. Good(0)
  BY <1>1
<1>6. m # 0 /\ m \in 1..Len(order) /\ Good(m - 1)
  <2>1. m # 0
    BY <1>4, <1>5
  <2>2. m - 1 \in 0..Len(order) /\ m - 1 \notin Bad /\ m \in 1..Len(order)
    BY <1>2, <1>4, <2>1
  <2> QED BY <2>1, <2>2
<1>7. Good(m)
  <2>1. list[m] = Merge(list[m - 1], order[m]) /\ order[m] \in S
    BY <1>1, <1>2, <1>6
  <2>2. /\ list[m] \in Seq(S) /\ ContainedIn(list[m], order[m])
        /\ \A q : ContainedIn(list[m - 1], q) => ContainedIn(list[m], q)
    <3> DEFINE last == list[m - 1]
    <3>1. last \in Seq(S)
      BY <1>6
    <3> HIDE DEF last
    <3>2. /\ Merge(last, order[m]) \in Seq(S)
          /\ ContainedIn(Merge(last, order[m]), order[m])
          /\ \A q : ContainedIn(last, q) => ContainedIn(Merge(last, order[m]), q)
      BY <2>1, <3>1, MergeKeeps
    <3>3. list[m] = Merge(last, order[m])
      BY <2>1 DEF last
    <3> QED BY <3>2, <3>3 DEF last
  <2>3. \A j \in 1..m : j = m \/ j \in 1..m - 1
    BY <1>6
  <2> QED BY <1>6, <2>2, <2>3
<1> QED BY <1>4, <1>7

(* An order of the pods has all of them. *)
LEMMA OrdersAreComplete ==
  ASSUME NEW S, IsFiniteSet(S), NEW order \in SetToSeqs(S)
  PROVE  order \in Seq(S) /\ \A p \in S : \E j \in 1..Len(order) : order[j] = p
<1> DEFINE n == Cardinality(S)
<1>1. n \in Nat
  BY FS_CardinalityType
<1>2. order \in [1..n -> S] /\ \A i, j \in 1..n : i # j => order[i] # order[j]
  BY DEF SetToSeqs
<1> HIDE DEF n
<1>3. order \in Injection(1..n, S)
  BY <1>2 DEF Injection, IsInjective
<1>4. IsFiniteSet(1..n) /\ Cardinality(1..n) = n
  BY <1>1, FS_Interval
<1>5. order \in Surjection(1..n, S)
  BY <1>3, <1>4, FS_Injection DEF n
<1>6. order \in Seq(S) /\ Len(order) = n
  BY <1>1, <1>2
<1> QED BY <1>5, <1>6 DEF Surjection

-----------------------------------------------------------------------------
(* The inductive invariant.                                                *)

(* The informer is on its way to the pods as they are, and no pod it knows *)
(* of, or will, is not there.                                              *)
Informer ==
  /\ watch = <<>> => cached = status
  /\ watch # <<>> => watch[Len(watch)] = status
  /\ \A s \in StageNames :
        /\ cached[s] # "absent" => Staged(s)
        /\ \A k \in 1..Len(watch) : watch[k][s] # "absent" => Staged(s)

(* Its claims are mounted by stage pods, ... *)
Mounted(p) ==
  VolumesOf[p] \subseteq UNION {VolumesOf[built[s]] : s \in {t \in StageNames : Staged(t)}}

(* ... or will be by one that is yet to be created. *)
Pending(p) == \E k \in 1..Len(todo) : VolumesOf[p] \subseteq VolumesOf[todo[k]]

(* A call of the phase creates what it has listed, pod by pod, and is over *)
(* when there is nothing left to create.                                   *)
Calls ==
  /\ phase # "create" => pc = "idle"
  /\ pc = "idle" => todo = <<>>

(* A stage pod has the name made from that of the pod it was built from. *)
Named == \A s \in StageNames : StageName[built[s]] = s

(* From the list on, no pod of it is forgotten. *)
Covered ==
  pc = "create" \/ phase # "create" => \A p \in listed : Mounted(p) \/ Pending(p)

Inv == StageTypeOK /\ Calls /\ Informer /\ CopiedWhenRunning

-----------------------------------------------------------------------------
(* Types *)

LEMMA NamesAre ==
  \A p \in AppPods : StageName[p] \in StageNames
BY DEF StageNames

LEMMA BuiltFirst ==
  ASSUME NEW s \in StageNames
  PROVE  /\ (CHOOSE p \in AppPods : StageName[p] = s) \in AppPods
         /\ StageName[CHOOSE p \in AppPods : StageName[p] = s] = s
<1>1. \E p \in AppPods : StageName[p] = s
  BY DEF StageNames
<1> QED BY <1>1

LEMMA SeqOfMore ==
  ASSUME NEW S, NEW T, S \subseteq T
  PROVE  Seq(S) \subseteq Seq(T)
OBVIOUS

(* What a call creates are pods of its list, and each pod that is wanted   *)
(* has its claims mounted by one of them.                                  *)
LEMMA ListedIs ==
  ASSUME StageTypeOK, NEW known, NEW order \in SetToSeqs(Wanted(known))
  PROVE  /\ Merged(order) \in Seq(app)
         /\ \A p \in Wanted(known) : ContainedIn(Merged(order), p)
<1>1. Wanted(known) \subseteq app /\ Wanted(known) \subseteq AppPods
  BY DEF Wanted, StageTypeOK
<1>2. IsFiniteSet(Wanted(known))
  BY <1>1, StageAssumption, FS_Subset
<1>3. /\ order \in Seq(Wanted(known))
      /\ \A p \in Wanted(known) : \E j \in 1..Len(order) : order[j] = p
  BY <1>2, OrdersAreComplete
<1>4. /\ Merged(order) \in Seq(Wanted(known))
      /\ \A j \in 1..Len(order) : ContainedIn(Merged(order), order[j])
  BY <1>3, MergedKeepsAll
<1>5. Merged(order) \in Seq(app)
  BY <1>1, <1>4, SeqOfMore
<1> QED BY <1>3, <1>4, <1>5

LEMMA PutTypes ==
  ASSUME StageTypeOK, NEW s \in StageNames, NEW p \in AppPods, Put(s, p)
  PROVE  /\ status' \in [StageNames -> Statuses] /\ built' \in [StageNames -> AppPods]
         /\ watch' \in Seq([StageNames -> Statuses])
<1>1. status' \in [StageNames -> Statuses] /\ built' \in [StageNames -> AppPods]
  BY DEF StageTypeOK, Put, Statuses
<1>2. watch \in Seq([StageNames -> Statuses]) /\ watch' = Append(watch, status')
  BY DEF StageTypeOK, Put
<1> QED BY <1>1, <1>2

LEMMA SpendKeeps ==
  ASSUME StageTypeOK, NEW what \in {"faults", "changes"}, Spend(what)
  PROVE  budget' \in [{"faults", "changes"} -> Nat]
BY DEF StageTypeOK, Spend

LEMMA HeadOfTodo ==
  ASSUME StageTypeOK, todo # <<>>
  PROVE  /\ Head(todo) \in listed /\ Head(todo) \in AppPods
         /\ StageName[Head(todo)] \in StageNames
         /\ Tail(todo) \in Seq(listed) /\ Head(todo) = todo[1]
         /\ Len(todo) \in Nat \ {0} /\ Len(Tail(todo)) = Len(todo) - 1
         /\ \A k \in 1..Len(Tail(todo)) : Tail(todo)[k] = todo[k + 1]
<1>1. todo \in Seq(listed) /\ listed \subseteq AppPods
  BY DEF StageTypeOK
<1>2. /\ Head(todo) \in listed /\ Tail(todo) \in Seq(listed) /\ Head(todo) = todo[1]
      /\ Len(todo) \in Nat \ {0} /\ Len(Tail(todo)) = Len(todo) - 1
      /\ \A k \in 1..Len(Tail(todo)) : Tail(todo)[k] = todo[k + 1]
  BY <1>1
<1> QED BY <1>1, <1>2, NamesAre

LEMMA TypeInit == Init => StageTypeOK
<1> SUFFICES ASSUME Init PROVE StageTypeOK
  OBVIOUS
<1>1. status \in [StageNames -> Statuses] /\ cached \in [StageNames -> Statuses]
  BY DEF Init, Statuses
<1>2. built \in [StageNames -> AppPods]
  BY BuiltFirst DEF Init
<1>3. budget \in [{"faults", "changes"} -> Nat]
  BY StageAssumption DEF Init
<1>4. /\ app \subseteq AppPods /\ listed \subseteq AppPods /\ early \in BOOLEAN
      /\ phase \in {"create", "wait", "copy"} /\ pc \in {"idle", "create"}
  BY DEF Init
<1>5. watch = <<>> /\ todo = <<>>
  BY DEF Init
<1>6. \A S : <<>> \in Seq(S)
  OBVIOUS
<1> QED BY <1>1, <1>2, <1>3, <1>4, <1>5, <1>6 DEF StageTypeOK

LEMMA TypeKept == StageTypeOK /\ [Next]_vars => StageTypeOK'
<1> SUFFICES ASSUME StageTypeOK, [Next]_vars PROVE StageTypeOK'
  OBVIOUS
<1>1. ASSUME NEW known, List(known), budget' \in [{"faults", "changes"} -> Nat]
      PROVE  StageTypeOK'
  <2>1. PICK order \in SetToSeqs(Wanted(known)) : todo' = Merged(order)
    BY <1>1 DEF List
  <2>2. todo' \in Seq(app) /\ listed' = app /\ pc' = "create"
    BY <1>1, <2>1, ListedIs DEF List
  <2>3. UNCHANGED <<app, podVars, cached, watch, phase, early>>
    BY <1>1 DEF List
  <2> QED BY <1>1, <2>2, <2>3 DEF StageTypeOK, podVars
<1>2. CASE BuildStagePods
  <2>1. List(Known) /\ budget' \in [{"faults", "changes"} -> Nat]
    BY <1>2 DEF BuildStagePods, StageTypeOK
  <2> QED BY <1>1, <2>1
<1>3. CASE BuildStagePodsBlind
  <2>1. List({}) /\ Spend("faults")
    BY <1>3 DEF BuildStagePodsBlind
  <2> QED BY <1>1, <2>1, SpendKeeps
<1>4. ASSUME Fail, UNCHANGED <<podVars, watch>> \/
               \E s \in StageNames, p \in AppPods : Put(s, p),
             budget' \in [{"faults", "changes"} -> Nat]
      PROVE  StageTypeOK'
  <2>1. /\ status' \in [StageNames -> Statuses] /\ built' \in [StageNames -> AppPods]
        /\ watch' \in Seq([StageNames -> Statuses])
    <3>1. CASE UNCHANGED <<podVars, watch>>
      BY <3>1 DEF StageTypeOK, podVars
    <3>2. CASE \E s \in StageNames, p \in AppPods : Put(s, p)
      BY <3>2, PutTypes
    <3> QED BY <1>4, <3>1, <3>2
  <2> QED BY <1>4, <2>1 DEF StageTypeOK, Fail
<1>5. CASE Create
  <2>1. todo # <<>> /\ UNCHANGED budget
    BY <1>5 DEF Create
  <2>2. /\ Head(todo) \in AppPods /\ StageName[Head(todo)] \in StageNames
        /\ Tail(todo) \in Seq(listed)
    BY <2>1, HeadOfTodo
  <2>3. CASE CanCreate(StageName[Head(todo)])
    <3>1. /\ Put(StageName[Head(todo)], Head(todo)) /\ todo' = Tail(todo)
          /\ UNCHANGED <<app, cached, phase, pc, listed, early, budget>> /\ pc = "create"
      BY <1>5, <2>3 DEF Create
    <3>2. /\ status' \in [StageNames -> Statuses] /\ built' \in [StageNames -> AppPods]
          /\ watch' \in Seq([StageNames -> Statuses])
      BY <2>2, <3>1, PutTypes
    <3> QED BY <2>2, <3>1, <3>2 DEF StageTypeOK
  <2>4. CASE ~CanCreate(StageName[Head(todo)])
    <3>1. Fail /\ UNCHANGED <<podVars, watch>>
      BY <1>5, <2>4 DEF Create
    <3>2. budget' \in [{"faults", "changes"} -> Nat]
      BY <2>1 DEF StageTypeOK
    <3> QED BY <1>4, <3>1, <3>2
  <2> QED BY <2>3, <2>4
<1>6. CASE CreateFails
  <2>1. todo # <<>> /\ Fail /\ Spend("faults")
    BY <1>6 DEF CreateFails
  <2>2. Head(todo) \in AppPods /\ StageName[Head(todo)] \in StageNames
    BY <2>1, HeadOfTodo
  <2>3. Put(StageName[Head(todo)], Head(todo)) \/ UNCHANGED <<podVars, watch>>
    BY <1>6 DEF CreateFails
  <2>4. budget' \in [{"faults", "changes"} -> Nat]
    BY <2>1, SpendKeeps
  <2> QED BY <1>4, <2>1, <2>2, <2>3, <2>4
<1>7. CASE Created
  <2>1. budget' \in [{"faults", "changes"} -> Nat] /\ phase' \in {"create", "wait", "copy"}
    BY <1>7, SpendKeeps DEF Created, StageTypeOK
  <2>2. /\ todo = <<>> /\ pc' = "idle"
        /\ UNCHANGED <<app, podVars, cached, watch, todo, listed, early>>
    BY <1>7 DEF Created
  <2> QED BY <2>1, <2>2 DEF StageTypeOK, podVars
<1>8. CASE WaitStagePodRunning
  BY <1>8 DEF WaitStagePodRunning, StageTypeOK, podVars
<1>9. CASE CacheSync
  <2>1. watch \in Seq([StageNames -> Statuses]) /\ watch # <<>>
    BY <1>9 DEF CacheSync, StageTypeOK
  <2>2. /\ Head(watch) \in [StageNames -> Statuses]
        /\ Tail(watch) \in Seq([StageNames -> Statuses])
    BY <2>1
  <2> QED BY <1>9, <2>2 DEF CacheSync, StageTypeOK, podVars
<1>10. CASE AppChanges
  <2>1. budget' \in [{"faults", "changes"} -> Nat]
    BY <1>10, SpendKeeps DEF AppChanges
  <2>2. app' \subseteq AppPods
    BY <1>10 DEF AppChanges, StageTypeOK
  <2>3. UNCHANGED <<podVars, cached, watch, phase, pc, todo, listed, early>>
    BY <1>10 DEF AppChanges
  <2> QED BY <2>1, <2>2, <2>3 DEF StageTypeOK, podVars
<1>11. CASE Restart
  <2>1. budget' \in [{"faults", "changes"} -> Nat]
    BY <1>11, SpendKeeps DEF Restart
  <2> QED BY <1>11, <2>1 DEF Restart, StageTypeOK, podVars
<1>12. ASSUME NEW s \in StageNames, PodRuns(s) PROVE StageTypeOK'
  <2>1. status' \in [StageNames -> Statuses]
    BY <1>12 DEF PodRuns, StageTypeOK, Statuses
  <2>2. watch \in Seq([StageNames -> Statuses]) /\ watch' = Append(watch, status')
    BY <1>12 DEF PodRuns, StageTypeOK
  <2>3. watch' \in Seq([StageNames -> Statuses])
    BY <2>1, <2>2
  <2>4. UNCHANGED <<app, built, cached, phase, pc, todo, listed, early, budget>>
    BY <1>12 DEF PodRuns
  <2> QED BY <2>1, <2>3, <2>4 DEF StageTypeOK
<1>13. CASE UNCHANGED vars
  BY <1>13 DEF vars, podVars, StageTypeOK
<1> QED BY <1>2, <1>3, <1>5, <1>6, <1>7, <1>8, <1>9, <1>10, <1>11, <1>12, <1>13
        DEF Next, Worker

-----------------------------------------------------------------------------
(* The informer *)

LEMMA CallsKept == Inv /\ [Next]_vars => Calls'
<1> SUFFICES ASSUME Inv, [Next]_vars PROVE Calls'
  OBVIOUS
<1>1. StageTypeOK /\ Calls
  BY DEF Inv
<1>2. CASE BuildStagePods
  BY <1>2, <1>1 DEF BuildStagePods, List, Calls
<1>3. CASE BuildStagePodsBlind
  BY <1>3, <1>1 DEF BuildStagePodsBlind, List, Calls
<1>4. CASE Create
  BY <1>4, <1>1 DEF Create, Fail, Calls
<1>5. CASE CreateFails
  BY <1>5, <1>1 DEF CreateFails, Fail, Calls
<1>6. CASE Created
  BY <1>6, <1>1 DEF Created, Calls
<1>7. CASE WaitStagePodRunning
  BY <1>7, <1>1 DEF WaitStagePodRunning, Calls
<1>8. CASE CacheSync
  BY <1>8, <1>1 DEF CacheSync, Calls
<1>9. CASE AppChanges
  BY <1>9, <1>1 DEF AppChanges, Calls
<1>10. CASE Restart
  BY <1>10, <1>1 DEF Restart, Calls
<1>11. ASSUME NEW s \in StageNames, PodRuns(s) PROVE Calls'
  BY <1>11, <1>1 DEF PodRuns, Calls
<1>12. CASE UNCHANGED vars
  BY <1>12, <1>1 DEF vars, Calls
<1> QED BY <1>2, <1>3, <1>4, <1>5, <1>6, <1>7, <1>8, <1>9, <1>10, <1>11, <1>12
        DEF Next, Worker

(* A later value of the pods is sent to the informer.                      *)
LEMMA InformerHears ==
  ASSUME StageTypeOK, Informer, UNCHANGED cached, watch' = Append(watch, status'),
         \A s \in StageNames : Staged(s) => Staged(s)'
  PROVE  Informer'
<1>1. watch \in Seq([StageNames -> Statuses])
  BY DEF StageTypeOK
<1>2. /\ watch' # <<>> /\ Len(watch') = Len(watch) + 1 /\ Len(watch) \in Nat
      /\ watch'[Len(watch')] = status'
      /\ \A k \in 1..Len(watch) : watch'[k] = watch[k]
  BY <1>1
<1>3. ASSUME NEW s \in StageNames
      PROVE  /\ cached'[s] # "absent" => Staged(s)'
             /\ \A k \in 1..Len(watch') : watch'[k][s] # "absent" => Staged(s)'
  <2>1. cached'[s] # "absent" => Staged(s)'
    BY DEF Informer
  <2>2. ASSUME NEW k \in 1..Len(watch'), watch'[k][s] # "absent" PROVE Staged(s)'
    <3>1. CASE k \in 1..Len(watch)
      BY <1>2, <2>2, <3>1 DEF Informer
    <3>2. CASE k = Len(watch')
      BY <1>2, <2>2, <3>2 DEF Staged
    <3>3. k \in 1..Len(watch) \/ k = Len(watch')
      BY <1>2
    <3> QED BY <3>1, <3>2, <3>3
  <2> QED BY <2>1, <2>2
<1> QED BY <1>2, <1>3 DEF Informer

LEMMA PutStages ==
  ASSUME StageTypeOK, NEW s \in StageNames, NEW p, Put(s, p)
  PROVE  \A t \in StageNames : Staged(t)' <=> Staged(t) \/ t = s
BY DEF StageTypeOK, Put, Staged

LEMMA InformerKept == Inv /\ [Next]_vars => Informer'
<1> SUFFICES ASSUME Inv, [Next]_vars PROVE Informer'
  OBVIOUS
<1>1. StageTypeOK /\ Informer
  BY DEF Inv
<1>2. CASE UNCHANGED <<status, cached, watch>>
  <2>1. \A s \in StageNames : Staged(s)' <=> Staged(s)
    BY <1>2 DEF Staged
  <2> QED BY <1>1, <1>2, <2>1 DEF Informer
<1>3. ASSUME NEW s \in StageNames, NEW p, Put(s, p), UNCHANGED cached PROVE Informer'
  <2>1. watch' = Append(watch, status') /\ \A t \in StageNames : Staged(t) => Staged(t)'
    BY <1>1, <1>3, PutStages DEF Put
  <2> QED BY <1>1, <1>3, <2>1, InformerHears
<1>4. CASE Create
  <2>1. StageName[Head(todo)] \in StageNames
    BY <1>1, <1>4, HeadOfTodo DEF Create
  <2>2. /\ UNCHANGED cached
        /\ Put(StageName[Head(todo)], Head(todo)) \/ UNCHANGED <<podVars, watch>>
    BY <1>4 DEF Create, Fail
  <2> QED BY <1>2, <1>3, <2>1, <2>2 DEF podVars
<1>5. CASE CreateFails
  <2>1. StageName[Head(todo)] \in StageNames
    BY <1>1, <1>5, HeadOfTodo DEF CreateFails
  <2>2. /\ UNCHANGED cached
        /\ Put(StageName[Head(todo)], Head(todo)) \/ UNCHANGED <<podVars, watch>>
    BY <1>5 DEF CreateFails, Fail
  <2> QED BY <1>2, <1>3, <2>1, <2>2 DEF podVars
<1>6. CASE CacheSync
  <2>1. /\ watch # <<>> /\ watch \in Seq([StageNames -> Statuses])
        /\ cached' = Head(watch) /\ watch' = Tail(watch) /\ status' = status
    BY <1>1, <1>6 DEF CacheSync, StageTypeOK, podVars
  <2>2. /\ Head(watch) = watch[1] /\ Len(watch) \in Nat \ {0}
        /\ Len(Tail(watch)) = Len(watch) - 1
        /\ \A k \in 1..Len(Tail(watch)) : Tail(watch)[k] = watch[k + 1]
    BY <2>1
  <2>3. \A s \in StageNames : Staged(s)' <=> Staged(s)
    BY <2>1 DEF Staged
  <2>4. watch[Len(watch)] = status
    BY <1>1, <2>1 DEF Informer
  <2>5. \A s \in StageNames, k \in 1..Len(watch) : watch[k][s] # "absent" => Staged(s)
    BY <1>1 DEF Informer
  <2>6. watch' = <<>> => cached' = status'
    <3>1. Len(<<>>) = 0
      OBVIOUS
    <3>2. Tail(watch) = <<>> => Len(watch) = 1
      BY <2>2, <3>1
    <3> QED BY <2>1, <2>2, <2>4, <3>2
  <2>7. watch' # <<>> => watch'[Len(watch')] = status'
    <3>1. Tail(watch) # <<>> => Len(watch) - 1 \in 1..Len(Tail(watch))
      BY <2>1, <2>2
    <3> QED BY <2>1, <2>2, <2>4, <3>1
  <2>8. \A s \in StageNames : cached'[s] # "absent" => Staged(s)'
    <3>1. 1 \in 1..Len(watch)
      BY <2>2
    <3> QED BY <2>1, <2>2, <2>3, <2>5, <3>1
  <2>9. \A s \in StageNames, k \in 1..Len(watch') : watch'[k][s] # "absent" => Staged(s)'
    <3>1. \A k \in 1..Len(Tail(watch)) : k + 1 \in 1..Len(watch)
      BY <2>2
    <3> QED BY <2>1, <2>2, <2>3, <2>5, <3>1
  <2> QED BY <2>6, <2>7, <2>8, <2>9 DEF Informer
<1>7. CASE Restart
  <2>1. cached' = status' /\ watch' = <<>> /\ status' = status
    BY <1>7 DEF Restart, podVars
  <2>2. Len(watch') = 0
    BY <2>1
  <2> QED BY <2>1, <2>2 DEF Informer, Staged
<1>8. ASSUME NEW s \in StageNames, PodRuns(s) PROVE Informer'
  <2>1. /\ watch' = Append(watch, status') /\ UNCHANGED cached
        /\ status' = [status EXCEPT ![s] = "running"]
    BY <1>8 DEF PodRuns
  <2>2. \A t \in StageNames : Staged(t) => Staged(t)'
    BY <1>1, <2>1 DEF Staged, StageTypeOK
  <2> QED BY <1>1, <2>1, <2>2, InformerHears
<1>9. CASE BuildStagePods
  BY <1>2, <1>9 DEF BuildStagePods, List, podVars
<1>10. CASE BuildStagePodsBlind
  BY <1>2, <1>10 DEF BuildStagePodsBlind, List, podVars
<1>11. CASE Created
  BY <1>2, <1>11 DEF Created, podVars
<1>12. CASE WaitStagePodRunning
  BY <1>2, <1>12 DEF WaitStagePodRunning, podVars
<1>13. CASE AppChanges
  BY <1>2, <1>13 DEF AppChanges, podVars
<1>14. CASE UNCHANGED vars
  BY <1>2, <1>14 DEF vars, podVars
<1> QED BY <1>4, <1>5, <1>6, <1>7, <1>8, <1>9, <1>10, <1>11, <1>12, <1>13, <1>14
        DEF Next, Worker

LEMMA CopiedKept == Inv /\ [Next]_vars => CopiedWhenRunning'
<1> SUFFICES ASSUME Inv, [Next]_vars, phase' = "copy", ~early'
             PROVE  \A s \in StageNames : status'[s] # "pending"
  BY DEF CopiedWhenRunning
<1>1. StageTypeOK /\ Calls /\ Informer /\ CopiedWhenRunning
  BY DEF Inv
<1>2. CASE UNCHANGED <<phase, early, status>>
  BY <1>1, <1>2 DEF CopiedWhenRunning
<1>3. CASE pc = "create" \/ phase = "create"
  <2>1. phase = "create"
    BY <1>1, <1>3 DEF Calls
  <2>2. phase' # "copy"
    BY <1>1, <2>1 DEF Next, Worker, BuildStagePods, BuildStagePodsBlind, List, Create,
           CreateFails, Fail, Created, WaitStagePodRunning, CacheSync, AppChanges, Restart,
           PodRuns, vars
  <2> QED BY <2>2
<1>4. CASE WaitStagePodRunning
  <2>1. watch = <<>> /\ status' = status
    BY <1>4 DEF WaitStagePodRunning, podVars
  <2>2. cached = status /\ GetStagePodStatus(cached)
    BY <1>1, <1>4, <2>1 DEF Informer, WaitStagePodRunning
  <2> QED BY <2>1, <2>2 DEF GetStagePodStatus
<1>5. CASE CacheSync
  BY <1>2, <1>5 DEF CacheSync, podVars
<1>6. CASE Restart
  BY <1>2, <1>6 DEF Restart, podVars
<1>7. ASSUME NEW s \in StageNames, PodRuns(s)
      PROVE  \A t \in StageNames : status'[t] # "pending"
  <2>1. status' = [status EXCEPT ![s] = "running"] /\ UNCHANGED <<phase, early>>
    BY <1>7 DEF PodRuns
  <2>2. \A t \in StageNames : status[t] # "pending"
    BY <1>1, <2>1 DEF CopiedWhenRunning
  <2> QED BY <1>1, <2>1, <2>2 DEF StageTypeOK
<1>8. CASE UNCHANGED vars
  BY <1>2, <1>8 DEF vars, podVars
<1>9. BuildStagePods \/ BuildStagePodsBlind \/ Create \/ CreateFails \/ Created
        \/ AppChanges => pc = "create" \/ phase = "create"
  BY DEF BuildStagePods, BuildStagePodsBlind, List, Create, CreateFails, Created, AppChanges
<1> QED BY <1>3, <1>4, <1>5, <1>6, <1>7, <1>8, <1>9 DEF Next, Worker

LEMMA InvInit == Init => Inv
<1> SUFFICES ASSUME Init PROVE Inv
  OBVIOUS
<1>1. StageTypeOK
  BY TypeInit
<1>2. Calls /\ CopiedWhenRunning
  BY DEF Init, Calls, CopiedWhenRunning
<1>3. cached = status /\ watch = <<>> /\ Len(watch) = 0
  BY DEF Init
<1>4. Informer
  BY <1>3 DEF Informer, Staged
<1> QED BY <1>1, <1>2, <1>4 DEF Inv

LEMMA InvNext == Inv /\ [Next]_vars => Inv'
BY TypeKept, CallsKept, InformerKept, CopiedKept DEF Inv

LEMMA Invariance == Spec => []Inv
BY InvInit, InvNext, PTL DEF Spec

(* Every variable keeps its type; in particular a call that goes on creates *)
(* pods of the list it has read, whatever the informer delivers and         *)
(* wherever the controller starts again.                                    *)
THEOREM StageTypeCorrect == Spec => []StageTypeOK
<1>1. Inv => StageTypeOK
  BY DEF Inv
<1> QED BY <1>1, Invariance, PTL

(* Velero is asked for the copy when every stage pod runs, unless the list *)
(* of pods GetStagePodStatus has read was behind.                          *)
THEOREM CopiesWhenRunning == Spec => []CopiedWhenRunning
<1>1. Inv => CopiedWhenRunning
  BY DEF Inv
<1> QED BY <1>1, Invariance, PTL

-----------------------------------------------------------------------------
(* The volumes *)

LEMMA NamedInit == Init => Named
<1> SUFFICES ASSUME Init, NEW s \in StageNames PROVE StageName[built[s]] = s
  BY DEF Named
<1>1. built[s] = CHOOSE p \in AppPods : StageName[p] = s
  BY DEF Init
<1> QED BY <1>1, BuiltFirst

LEMMA PutBuilds ==
  ASSUME StageTypeOK, NEW s \in StageNames, NEW p, Put(s, p)
  PROVE  built'[s] = p /\ \A t \in StageNames : t # s => built'[t] = built[t]
BY DEF StageTypeOK, Put

LEMMA NamedKept == Inv /\ Named /\ [Next]_vars => Named'
<1> SUFFICES ASSUME Inv, Named, [Next]_vars PROVE Named'
  OBVIOUS
<1>1. StageTypeOK
  BY DEF Inv
<1>2. CASE UNCHANGED built
  BY <1>2 DEF Named
<1>3. ASSUME todo # <<>>, Put(StageName[Head(todo)], Head(todo)) PROVE Named'
  <2>1. StageName[Head(todo)] \in StageNames
    BY <1>1, <1>3, HeadOfTodo
  <2>2. /\ built'[StageName[Head(todo)]] = Head(todo)
        /\ \A t \in StageNames : t # StageName[Head(todo)] => built'[t] = built[t]
    BY <1>1, <1>3, <2>1, PutBuilds
  <2> QED BY <2>2 DEF Named
<1>4. \/ UNCHANGED built
      \/ todo # <<>> /\ Put(StageName[Head(todo)], Head(todo))
  BY DEF Next, Worker, BuildStagePods, BuildStagePodsBlind, List, Create, CreateFails,
         Created, WaitStagePodRunning, CacheSync, AppChanges, Restart, PodRuns, vars,
         podVars
<1> QED BY <1>2, <1>3, <1>4

LEMMA MountedWhile ==
  ASSUME UNCHANGED built, \A s \in StageNames : Staged(s) => Staged(s)',
         NEW p, Mounted(p)
  PROVE  Mounted(p)'
BY DEF Mounted

(* A stage pod that is created displaces none and mounts what it is for.   *)
LEMMA PutMounts ==
  ASSUME StageTypeOK, NEW s \in StageNames, NEW p, Put(s, p), ~Staged(s)
  PROVE  /\ \A a : Mounted(a) => Mounted(a)'
         /\ \A a : VolumesOf[a] \subseteq VolumesOf[p] => Mounted(a)'
<1>1. \A t \in StageNames : Staged(t)' <=> Staged(t) \/ t = s
  BY PutStages
<1>2. built'[s] = p /\ \A t \in StageNames : t # s => built'[t] = built[t]
  BY PutBuilds
<1>3. \A t \in StageNames : Staged(t) => Staged(t)' /\ built'[t] = built[t]
  BY <1>1, <1>2
<1>4. \A a : Mounted(a) => Mounted(a)'
  BY <1>3 DEF Mounted
<1>5. Staged(s)' /\ built'[s] = p
  BY <1>1, <1>2
<1>6. \A a : VolumesOf[a] \subseteq VolumesOf[p] => Mounted(a)'
  BY <1>5 DEF Mounted
<1> QED BY <1>4, <1>6

(* The list of the pods to build from leaves out what is mounted. *)
LEMMA ListCovers ==
  ASSUME OwnNames, Inv, Named, NEW known \in SUBSET StageNames,
         \A s \in known : Staged(s), List(known)
  PROVE  Covered'
<1>1. StageTypeOK
  BY DEF Inv
<1>2. PICK order \in SetToSeqs(Wanted(known)) : todo' = Merged(order)
  BY DEF List
<1>3. \A p \in Wanted(known) : ContainedIn(todo', p)
  BY <1>1, <1>2, ListedIs
<1>4. todo' \in Seq(app)
  BY <1>1, <1>2, ListedIs
<1>5. DOMAIN todo' = 1..Len(todo')
  BY <1>4
<1>6. \A p \in Wanted(known) : Pending(p)'
  BY <1>3, <1>5 DEF ContainedIn, Pending
<1>7. UNCHANGED built /\ \A s \in StageNames : Staged(s) <=> Staged(s)'
  BY DEF List, podVars, Staged
<1>8. ASSUME NEW p \in app, p \notin Wanted(known) PROVE Mounted(p)'
  <2>1. CASE VolumesOf[p] = {}
    BY <2>1 DEF Mounted
  <2>2. CASE Exists(known, p)
    <3>1. p \in AppPods \ Altered /\ StageName[p] \in known
      BY <1>1, <2>2 DEF Exists, StageTypeOK
    <3>2. Staged(StageName[p]) /\ StageName[built[StageName[p]]] = StageName[p]
      BY <3>1 DEF Named
    <3>3. built[StageName[p]] \in AppPods
      BY <1>1, <3>1 DEF StageTypeOK
    <3>4. built[StageName[p]] = p
      BY <3>1, <3>2, <3>3 DEF OwnNames
    <3>5. Mounted(p)
      BY <3>1, <3>2, <3>4 DEF Mounted
    <3> QED BY <1>7, <3>5, MountedWhile
  <2>3. VolumesOf[p] = {} \/ Exists(known, p)
    BY <1>8 DEF Wanted
  <2> QED BY <2>1, <2>2, <2>3
<1>9. listed' = app
  BY DEF List
<1> QED BY <1>6, <1>8, <1>9 DEF Covered

LEMMA CoveredWhile ==
  ASSUME Inv, Covered, UNCHANGED <<listed, todo, built>>,
         \A s \in StageNames : Staged(s) => Staged(s)',
         pc' = "create" \/ phase' # "create" => pc = "create" \/ phase # "create"
  PROVE  Covered'
<1>1. ASSUME pc' = "create" \/ phase' # "create", NEW p \in listed'
      PROVE  Mounted(p)' \/ Pending(p)'
  <2>1. Mounted(p) \/ Pending(p)
    BY <1>1 DEF Covered
  <2>2. Pending(p) => Pending(p)'
    BY DEF Pending
  <2> QED BY <2>1, <2>2, MountedWhile
<1> QED BY <1>1 DEF Covered

LEMMA CoveredKept ==
  ASSUME OwnNames, Inv, Named, Covered, [Next]_vars
  PROVE  Covered'
<1>1. StageTypeOK /\ Calls /\ Informer
  BY DEF Inv
<1>2. CASE UNCHANGED podVars
  <2> USE <1>2
  <2>1. UNCHANGED built /\ \A s \in StageNames : Staged(s) => Staged(s)'
    BY DEF podVars, Staged
  <2>2. CASE BuildStagePods
    <3>1. Known \in SUBSET StageNames /\ \A s \in Known : Staged(s)
      BY <1>1 DEF Known, Informer
    <3> QED BY <2>2, <3>1, ListCovers DEF BuildStagePods
  <2>3. CASE BuildStagePodsBlind
    BY <2>3, ListCovers DEF BuildStagePodsBlind
  <2>4. ASSUME Fail, pc = "create" PROVE Covered'
    <3>1. pc' = "idle" /\ phase' = "create"
      BY <1>1, <2>4 DEF Fail, Calls
    <3> QED BY <3>1 DEF Covered
  <2>5. CASE Create
    <3>1. CASE CanCreate(StageName[Head(todo)])
      <4>1. /\ StageName[Head(todo)] \in StageNames
            /\ Put(StageName[Head(todo)], Head(todo))
        BY <1>1, <2>5, <3>1, HeadOfTodo DEF Create
      <4>2. status'[StageName[Head(todo)]] = "pending"
        BY <1>1, <4>1 DEF Put, StageTypeOK
      <4>3. status[StageName[Head(todo)]] = "absent"
        BY <3>1 DEF CanCreate
      <4> QED BY <4>2, <4>3 DEF podVars
    <3>2. CASE ~CanCreate(StageName[Head(todo)])
      <4>1. Fail /\ pc = "create"
        BY <2>5, <3>2 DEF Create
      <4> QED BY <2>4, <4>1
    <3> QED BY <3>1, <3>2
  <2>6. CASE CreateFails
    <3>1. Fail /\ pc = "create"
      BY <2>6 DEF CreateFails
    <3> QED BY <2>4, <3>1
  <2>7. CASE Created
    BY <2>1, <2>7, CoveredWhile DEF Created
  <2>8. CASE WaitStagePodRunning
    BY <2>1, <2>8, CoveredWhile DEF WaitStagePodRunning
  <2>9. CASE CacheSync
    BY <2>1, <2>9, CoveredWhile DEF CacheSync
  <2>10. CASE AppChanges
    BY <2>1, <2>10, CoveredWhile DEF AppChanges
  <2>11. CASE Restart
    <3>1. CASE phase = "create"
      BY <2>11, <3>1 DEF Restart, Covered
    <3>2. CASE phase # "create"
      <4>1. UNCHANGED <<listed, todo>>
        BY <1>1, <2>11, <3>2 DEF Restart, Calls
      <4> QED BY <2>1, <3>2, <4>1, CoveredWhile
    <3> QED BY <3>1, <3>2
  <2>12. ASSUME NEW s \in StageNames, PodRuns(s) PROVE Covered'
    BY <2>1, <2>12, CoveredWhile DEF PodRuns
  <2>13. CASE UNCHANGED vars
    BY <2>1, <2>13, CoveredWhile DEF vars
  <2> QED BY <2>2, <2>3, <2>5, <2>6, <2>7, <2>8, <2>9, <2>10, <2>11, <2>12, <2>13
          DEF Next, Worker
<1>3. CASE Create /\ CanCreate(StageName[Head(todo)])
  <2> DEFINE h == Head(todo)
  <2>1. /\ StageName[h] \in StageNames /\ h = todo[1] /\ Len(todo) \in Nat \ {0}
        /\ Len(Tail(todo)) = Len(todo) - 1
        /\ \A k \in 1..Len(Tail(todo)) : Tail(todo)[k] = todo[k + 1]
    BY <1>1, <1>3, HeadOfTodo DEF Create
  <2>2. /\ Put(StageName[h], h) /\ todo' = Tail(todo) /\ pc = "create"
        /\ UNCHANGED <<listed, pc, phase>>
    BY <1>3 DEF Create
  <2>3. ~Staged(StageName[h])
    BY <1>3 DEF CanCreate, Staged
  <2>4. /\ \A a : Mounted(a) => Mounted(a)'
        /\ \A a : VolumesOf[a] \subseteq VolumesOf[h] => Mounted(a)'
    <3> HIDE DEF h
    <3> QED BY <1>1, <2>1, <2>2, <2>3, PutMounts
  <2>5. ASSUME NEW p \in listed PROVE Mounted(p)' \/ Pending(p)'
    <3>1. Mounted(p) \/ Pending(p)
      BY <2>2 DEF Covered
    <3>2. ASSUME NEW k \in 1..Len(todo), VolumesOf[p] \subseteq VolumesOf[todo[k]]
          PROVE  Mounted(p)' \/ Pending(p)'
      <4>1. CASE k = 1
        BY <2>1, <2>4, <3>2, <4>1
      <4>2. CASE k # 1
        <5>1. k - 1 \in 1..Len(Tail(todo)) /\ (k - 1) + 1 = k
          BY <2>1, <4>2
        <5>2. Tail(todo)[k - 1] = todo[k]
          BY <2>1, <5>1
        <5> QED BY <2>2, <3>2, <5>1, <5>2 DEF Pending
      <4> QED BY <4>1, <4>2
    <3> QED BY <2>4, <3>1, <3>2 DEF Pending
  <2> QED BY <2>2, <2>5 DEF Covered
<1>4. CASE CreateFails /\ ~UNCHANGED podVars
  <2>1. pc' = "idle" /\ phase' = "create"
    BY <1>1, <1>4 DEF CreateFails, Fail, Calls
  <2> QED BY <2>1 DEF Covered
<1>5. ASSUME NEW s \in StageNames, PodRuns(s) PROVE Covered'
  <2>1. \A t \in StageNames : Staged(t) => Staged(t)'
    BY <1>1, <1>5 DEF PodRuns, Staged, StageTypeOK
  <2> QED BY <1>5, <2>1, CoveredWhile DEF PodRuns
<1>6. \/ UNCHANGED podVars
      \/ Create /\ CanCreate(StageName[Head(todo)])
      \/ CreateFails
      \/ \E s \in StageNames : PodRuns(s)
  BY DEF Next, Worker, BuildStagePods, BuildStagePodsBlind, List, Create, Created,
         WaitStagePodRunning, CacheSync, AppChanges, Restart, vars, podVars
<1> QED BY <1>2, <1>3, <1>4, <1>5, <1>6

(* When the phase is over, the claims of all pods that the last call has    *)
(* listed are mounted by stage pods: those built in that call, those the    *)
(* pods were merged with, and those of the same name that earlier calls,    *)
(* or a controller that crashed, left behind.  It takes that no other pod   *)
(* has the stage name of a pod whose name truncateName leaves alone: "a--b" *)
(* and "a-b" have the same, and a stage pod of the first, when it is gone   *)
(* or merged with another, is taken for one of the second.                  *)
THEOREM VolumesGetStaged ==
  ASSUME OwnNames
  PROVE  Spec => []VolumesAreStaged
<1>1. Init => Inv /\ Named /\ Covered
  BY InvInit, NamedInit DEF Init, Covered
<1>2. Inv /\ Named /\ Covered /\ [Next]_vars => Inv' /\ Named' /\ Covered'
  BY InvNext, NamedKept, CoveredKept
<1>3. Inv /\ Covered => VolumesAreStaged
  <2> SUFFICES ASSUME Inv, Covered, phase # "create", NEW p \in listed PROVE Mounted(p)
    BY DEF VolumesAreStaged, Mounted
  <2>1. todo = <<>>
    BY DEF Inv, Calls
  <2>2. Len(todo) = 0
    BY <2>1
  <2>3. ~Pending(p)
    BY <2>2 DEF Pending
  <2> QED BY <2>3 DEF Covered
<1> QED BY <1>1, <1>2, <1>3, PTL DEF Spec
=============================================================================

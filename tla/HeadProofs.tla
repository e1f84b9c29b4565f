----------------------------- MODULE HeadProofs -----------------------------
(***************************************************************************)
(* How the messager follows the chain, for any finite block tree with null *)
(* rounds, any look-back limit, size of the cache, number of messages,     *)
(* pending head changes and faults.                                        *)
(***************************************************************************)
EXTENDS HeadRefresh, FiniteSetTheorems, SequenceTheorems, TLAPS

-----------------------------------------------------------------------------
(* Induction, over a set of numbers *)

LEMMA LeastNumber ==
    ASSUME NEW K \in SUBSET Nat, K # {}
    PROVE  \E k \in K : \A l \in K : k <= l
<1>1. PICK k \in K : \A l \in K : ~(<<l, k>> \in OpToRel(<, Nat))
  BY WFMin, NatLessThanWellFounded
<1>2. ASSUME NEW l \in K
      PROVE  k <= l
  <2>1. OpToRel(<, Nat) = {ss \in Nat \X Nat : ss[1] < ss[2]}
    BY Zenon DEF OpToRel
  <2>2. l < k => <<l, k>> \in {ss \in Nat \X Nat : ss[1] < ss[2]}
    OBVIOUS
  <2>3. ~(l < k)
    BY <1>1, <2>1, <2>2, Zenon
  <2> QED
    BY <2>3
<1> QED
  BY <1>2

LEMMA Induction ==
    ASSUME NEW G \in SUBSET Nat, 0 \in G, \A n \in G : n + 1 \in G
    PROVE  G = Nat
<1> SUFFICES ASSUME Nat \ G # {} PROVE FALSE
  OBVIOUS
<1>1. PICK k \in Nat \ G : \A l \in Nat \ G : k <= l
  BY LeastNumber
<1>2. k - 1 \in Nat /\ ~(k <= k - 1)
  BY <1>1
<1>3. k - 1 \in G
  BY <1>1, <1>2
<1> QED
  BY <1>1, <1>2, <1>3

-----------------------------------------------------------------------------
(* The block tree *)

(* A branch is the least set with its tipset and the parents of its members: what holds of the
   tipset and passes to parents holds of its whole branch. *)
LEMMA BranchLeast ==
    ASSUME NEW t \in Tipset, NEW S \in SUBSET Tipset, t \in S, \A u \in S : Parent[u] \in S
    PROVE  Branch[t] \subseteq S
BY DEF Branch

LEMMA BranchType ==
    ASSUME NEW t \in Tipset
    PROVE  Branch[t] \subseteq Tipset /\ t \in Branch[t] /\ IsFiniteSet(Branch[t])
<1>1. Branch[t] \subseteq Tipset /\ t \in Branch[t]
  BY DEF Branch
<1> QED
  BY <1>1, FS_Subset, TreeAssumption

LEMMA BranchClosed ==
    ASSUME NEW t \in Tipset, NEW s \in Branch[t]
    PROVE  s \in Tipset /\ Parent[s] \in Branch[t] /\ Branch[s] \subseteq Branch[t]
<1>1. s \in Tipset /\ Parent[s] \in Tipset
  BY BranchType, TreeAssumption
<1>2. Parent[s] \in Branch[t]
  <2> SUFFICES ASSUME NEW S \in SUBSET Tipset, t \in S, \A u \in S : Parent[u] \in S
               PROVE  Parent[s] \in S
    BY <1>1 DEF Branch
  <2>1. s \in S
    BY BranchLeast
  <2> QED
    BY <2>1
<1>3. \A u \in Branch[t] : Parent[u] \in Branch[t]
  <2> SUFFICES ASSUME NEW u \in Branch[t], NEW S \in SUBSET Tipset, t \in S, \A v \in S : Parent[v] \in S
               PROVE  Parent[u] \in S
    <3>1. \A u \in Branch[t] : Parent[u] \in Tipset
      BY BranchType, TreeAssumption
    <3> QED
      BY <3>1 DEF Branch
  <2>1. u \in S
    BY BranchLeast
  <2> QED
    BY <2>1
<1>4. Branch[t] \in SUBSET Tipset
  BY BranchType
<1> QED
  BY <1>1, <1>2, <1>3, <1>4, BranchLeast

(* A branch is its tipset and the branch of its parent. *)
LEMMA BranchUnfold ==
    ASSUME NEW t \in Tipset
    PROVE  Branch[t] = {t} \cup Branch[Parent[t]]
<1> DEFINE S == {t} \cup Branch[Parent[t]]
<1>1. Parent[t] \in Tipset
  BY TreeAssumption
<1>2. S \in SUBSET Tipset /\ t \in S
  BY <1>1, BranchType
<1>3. \A u \in S : Parent[u] \in S
  BY <1>1, BranchType, BranchClosed
<1>4. Branch[t] \subseteq S
  <2> HIDE DEF S
  <2> QED
    BY <1>2, <1>3, BranchLeast
<1>5. S \subseteq Branch[t]
  <2>1. t \in Branch[t]
    BY BranchType
  <2>2. Parent[t] \in Branch[t]
    BY <2>1, BranchClosed
  <2> QED
    BY <2>1, <2>2, BranchClosed
<1> QED
  BY <1>4, <1>5

(* Every other tipset of a branch is lower. *)
LEMMA BranchLower ==
    ASSUME NEW t \in Tipset, NEW s \in Branch[t]
    PROVE  Height[s] \in Nat /\ Height[t] \in Nat /\ (s = t \/ Height[s] < Height[t])
<1> DEFINE S == {u \in Tipset : u = t \/ Height[u] < Height[t]}
<1>1. \A u \in Tipset : /\ Height[u] \in Nat /\ Parent[u] \in Tipset
                        /\ Parent[u] = u \/ Height[Parent[u]] < Height[u]
  BY TreeAssumption
<1>2. S \in SUBSET Tipset /\ t \in S /\ \A u \in S : Parent[u] \in S
  BY <1>1
<1> HIDE DEF S
<1>3. s \in S
  BY <1>2, BranchLeast
<1> QED
  BY <1>1, <1>3, BranchType DEF S

(* Two tipsets of a branch: one is an ancestor of the other. *)
LEMMA BranchLinear ==
    ASSUME NEW x \in Tipset, NEW s \in Branch[x], NEW t \in Branch[x]
    PROVE  s \in Branch[t] \/ t \in Branch[s]
<1> DEFINE S == {u \in Tipset : s \in Branch[u] \/ u \in Branch[s]}
<1>1. s \in Tipset
  BY BranchType
<1>2. S \in SUBSET Tipset /\ x \in S
  OBVIOUS
<1>3. ASSUME NEW u \in S PROVE Parent[u] \in S
  <2>1. u \in Tipset /\ Parent[u] \in Tipset
    BY TreeAssumption
  <2>2. CASE u \in Branch[s]
    BY <2>1, <2>2, <1>1, BranchClosed
  <2>3. CASE s \in Branch[u]
    <3>1. s = u \/ s \in Branch[Parent[u]]
      BY <2>1, <2>3, BranchUnfold
    <3>2. s = u => Parent[u] \in Branch[s]
      BY <2>1, BranchType, BranchClosed
    <3> QED
      BY <2>1, <3>1, <3>2
  <2> QED
    BY <2>2, <2>3
<1> HIDE DEF S
<1>4. t \in S
  BY <1>2, <1>3, BranchLeast
<1> QED
  BY <1>4 DEF S

(* Hence their heights differ. *)
LEMMA BranchHeights ==
    ASSUME NEW x \in Tipset, NEW s \in Branch[x], NEW t \in Branch[x], Height[s] = Height[t]
    PROVE  s = t
<1>1. s \in Tipset /\ t \in Tipset
  BY BranchType
<1>2. s \in Branch[t] \/ t \in Branch[s]
  BY BranchLinear
<1> QED
  BY <1>1, <1>2, BranchLower

-----------------------------------------------------------------------------
(* Tipsets in the order of their heights *)

Distinct(S) == \A s, t \in S : Height[s] = Height[t] => s = t

Higher(S, t) == {s \in S : Height[s] > Height[t]}

LEMMA Lowest ==
    ASSUME NEW T \in SUBSET Tipset, T # {}
    PROVE  \E x \in T : \A y \in T : Height[x] <= Height[y]
<1> DEFINE K == {Height[x] : x \in T}
<1>1. K \subseteq Nat /\ K # {}
  BY TreeAssumption
<1> HIDE DEF K
<1>2. PICK k \in K : \A l \in K : k <= l
  BY <1>1, LeastNumber
<1> QED
  BY <1>2 DEF K

(* For each place there is a tipset with as many higher ones: in a smallest set without, removing
   the lowest tipset changes no other place. *)
LEMMA RankExists ==
    ASSUME NEW S \in SUBSET Tipset, Distinct(S)
    PROVE  \A i \in 1..Cardinality(S) : \E t \in S : Cardinality(Higher(S, t)) = i - 1
<1> DEFINE Good(T) == \A i \in 1..Cardinality(T) : \E t \in T : Cardinality(Higher(T, t)) = i - 1
           Bad == {T \in SUBSET S : ~Good(T)}
<1>0. IsFiniteSet(S)
  BY FS_Subset, TreeAssumption
<1>1. SUFFICES ASSUME Bad # {} PROVE FALSE
  OBVIOUS
<1>2. Bad \subseteq FiniteSubsetsOf(S)
  BY <1>0, FS_Subset DEF FiniteSubsetsOf
<1> HIDE DEF Bad
<1>3. PICK T \in Bad : \A U \in Bad : ~(<<U, T>> \in StrictSubsetOrdering(S))
  BY <1>1, <1>2, WFMin, FS_StrictSubsetOrderingWellFounded
<1>4. T \subseteq S /\ IsFiniteSet(T) /\ ~Good(T)
  BY <1>2 DEF Bad, FiniteSubsetsOf
<1>5. T # {}
  BY <1>4, FS_EmptySet
<1>6. PICK x \in T : \A y \in T : Height[x] <= Height[y]
  BY <1>4, <1>5, Lowest
<1> DEFINE U == T \ {x}
<1>7. <<U, T>> \in StrictSubsetOrdering(S)
  BY <1>4 DEF StrictSubsetOrdering
<1>8. Good(U)
  BY <1>3, <1>4, <1>7 DEF Bad
<1>9. Cardinality(T) \in Nat /\ Cardinality(U) = Cardinality(T) - 1
  BY <1>4, FS_CardinalityType, FS_RemoveElement
<1>10. \A t \in T : Height[t] \in Nat
  BY <1>4, TreeAssumption
<1>11. \A t \in U : Higher(T, t) = Higher(U, t)
  BY <1>6, <1>10 DEF Higher
<1>12. Higher(T, x) = U
  BY <1>4, <1>6, <1>10 DEF Higher, Distinct
<1>13. ASSUME NEW i \in 1..Cardinality(T)
       PROVE  \E t \in T : Cardinality(Higher(T, t)) = i - 1
  <2>1. CASE i = Cardinality(T)
    BY <2>1, <1>9, <1>12
  <2>2. CASE i # Cardinality(T)
    <3>1. i \in 1..Cardinality(U)
      BY <2>2, <1>9
    <3>2. PICK t \in U : Cardinality(Higher(U, t)) = i - 1
      BY <3>1, <1>8
    <3> QED
      BY <3>2, <1>11
  <2> QED
    BY <2>1, <2>2
<1> QED
  BY <1>4, <1>13

LEMMA DescendingType ==
    ASSUME NEW S \in SUBSET Tipset, Distinct(S)
    PROVE  /\ Descending(S) \in Seq(S) /\ Len(Descending(S)) = Cardinality(S)
           /\ Cardinality(S) \in Nat
           /\ \A i \in 1..Cardinality(S) : /\ Descending(S)[i] \in S
                                          /\ Cardinality(Higher(S, Descending(S)[i])) = i - 1
<1> DEFINE n == Cardinality(S)
<1>1. n \in Nat
  BY FS_Subset, TreeAssumption, FS_CardinalityType
<1>2. ASSUME NEW i \in 1..n
      PROVE  Descending(S)[i] \in S /\ Cardinality(Higher(S, Descending(S)[i])) = i - 1
  <2>1. \E t \in S : Cardinality(Higher(S, t)) = i - 1
    BY RankExists
  <2>2. Descending(S)[i] = CHOOSE t \in S : Cardinality(Higher(S, t)) = i - 1
    BY DEF Descending, Higher
  <2> QED
    BY <2>1, <2>2
<1>3. Descending(S) \in [1..n -> S]
  BY <1>2 DEF Descending
<1> HIDE DEF n
<1>4. Descending(S) \in Seq(S) /\ Len(Descending(S)) = n
  BY <1>1, <1>3
<1> QED
  BY <1>1, <1>2, <1>4 DEF n

(* The first one is the highest. *)
LEMMA DescendingTop ==
    ASSUME NEW S \in SUBSET Tipset, Distinct(S), S # {}
    PROVE  /\ Len(Descending(S)) >= 1
           /\ Descending(S)[1] \in S
           /\ \A s \in S : Height[s] <= Height[Descending(S)[1]]
<1>1. IsFiniteSet(S)
  BY FS_Subset, TreeAssumption
<1>2. Cardinality(S) \in Nat /\ Cardinality(S) # 0
  BY <1>1, FS_CardinalityType, FS_EmptySet
<1>3. Len(Descending(S)) = Cardinality(S) /\ Descending(S)[1] \in S /\ Cardinality(Higher(S, Descending(S)[1])) = 0
  BY <1>2, DescendingType
<1> DEFINE top == Descending(S)[1]
<1>4. IsFiniteSet(Higher(S, top))
  BY <1>1, FS_Subset DEF Higher
<1>5. Higher(S, top) = {}
  BY <1>3, <1>4, FS_EmptySet
<1>6. \A s \in S : Height[s] \in Nat
  BY TreeAssumption
<1> QED
  BY <1>2, <1>3, <1>5, <1>6 DEF Higher

LEMMA DescendingOne ==
    ASSUME NEW h \in Tipset
    PROVE  Descending({h}) = <<h>>
<1>1. Distinct({h}) /\ {h} \in SUBSET Tipset /\ {h} # {}
  BY DEF Distinct
<1>2. Cardinality({h}) = 1
  BY FS_Singleton
<1>3. Descending({h})[1] = h
  BY <1>1, DescendingTop
<1>4. Descending({h}) \in Seq({h}) /\ Len(Descending({h})) = 1
  BY <1>1, <1>2, DescendingType
<1> QED
  BY <1>3, <1>4

-----------------------------------------------------------------------------
(* The walk of lookAncestors *)

WalkStart(h) == [ts |-> h, idx |-> 0, gap |-> <<>>]
WalkStep(local, s) == IF Meets(local, s) THEN s ELSE Turn(local, s)

IsWalk(w, k, local, h) ==
    /\ w[0] = WalkStart(h)
    /\ \A n \in 1..k : w[n] = WalkStep(local, w[n - 1])

(* There is a walk of any number of turns. *)
LEMMA WalkExists ==
    ASSUME NEW local, NEW h, NEW k \in Nat
    PROVE  \E w : IsWalk(w, k, local, h)
<1> DEFINE G == {n \in Nat : \E w : IsWalk(w, n, local, h)}
<1>1. 0 \in G
  <2>1. IsWalk([i \in {0} |-> WalkStart(h)], 0, local, h)
    BY DEF IsWalk
  <2> QED
    BY <2>1
<1>2. ASSUME NEW n \in G PROVE n + 1 \in G
  <2>1. PICK w : IsWalk(w, n, local, h)
    OBVIOUS
  <2> DEFINE v == [i \in 0..n + 1 |-> IF i = n + 1 THEN WalkStep(local, w[n]) ELSE w[i]]
  <2>2. v[0] = WalkStart(h)
    BY <2>1 DEF IsWalk
  <2>3. ASSUME NEW i \in 1..n + 1 PROVE v[i] = WalkStep(local, v[i - 1])
    <3>1. v[i - 1] = w[i - 1]
      OBVIOUS
    <3>2. CASE i = n + 1
      BY <3>1, <3>2
    <3>3. CASE i # n + 1
      <4>1. v[i] = w[i] /\ i \in 1..n
        BY <3>3
      <4> QED
        BY <4>1, <3>1, <2>1 DEF IsWalk
    <3> QED
      BY <3>2, <3>3
  <2> HIDE DEF v
  <2>4. IsWalk(v, n + 1, local, h)
    BY <2>2, <2>3 DEF IsWalk
  <2> QED
    BY <2>4
<1> HIDE DEF G
<1>3. G = Nat
  BY <1>1, <1>2, Induction DEF G
<1> QED
  BY <1>3 DEF G

(* The recursive definition of the walk makes sense. *)
LEMMA WalkIsWalk ==
    ASSUME NEW local, NEW h
    PROVE  IsWalk(Walk(local, h), LookBackLimit + 1, local, h)
<1> DEFINE D == 0 .. LookBackLimit + 1
           Rec(w) == [n \in D |-> IF n = 0 THEN WalkStart(h) ELSE WalkStep(local, w[n - 1])]
<1>0. LookBackLimit \in Nat
  BY TreeAssumption
<1>1. PICK w : IsWalk(w, LookBackLimit + 1, local, h)
  BY <1>0, WalkExists
<1>2. [n \in D |-> w[n]] = Rec([n \in D |-> w[n]])
  BY <1>0, <1>1 DEF IsWalk
<1>3. Walk(local, h) = CHOOSE f : f = Rec(f)
  BY DEF Walk, WalkStart, WalkStep
<1> HIDE DEF Rec
<1>4. Walk(local, h) = Rec(Walk(local, h))
  BY <1>2, <1>3
<1> QED
  BY <1>0, <1>4 DEF IsWalk, Rec

WalkState(local) == [ts : Tipset, idx : 0..Len(local), gap : Seq(Tipset)]

(* What holds at the start and is kept by every turn holds at the end. *)
LEMMA WalkEnds ==
    ASSUME NEW local, NEW h, NEW S, WalkStart(h) \in S, \A s \in S : WalkStep(local, s) \in S
    PROVE  \A n \in 0 .. LookBackLimit + 1 : Walk(local, h)[n] \in S
<1> DEFINE G == {n \in Nat : n <= LookBackLimit + 1 => Walk(local, h)[n] \in S}
<1>0. LookBackLimit \in Nat
  BY TreeAssumption
<1>1. 0 \in G
  BY WalkIsWalk DEF IsWalk
<1>2. ASSUME NEW n \in G PROVE n + 1 \in G
  BY <1>0, WalkIsWalk DEF IsWalk
<1> HIDE DEF G
<1>3. G = Nat
  BY <1>1, <1>2, Induction DEF G
<1> QED
  BY <1>0, <1>3 DEF G

LEMMA WalkStepType ==
    ASSUME NEW local \in Seq(Tipset), NEW s \in WalkState(local)
    PROVE  WalkStep(local, s) \in WalkState(local)
<1>1. Parent[s.ts] \in Tipset /\ Append(s.gap, s.ts) \in Seq(Tipset)
  BY TreeAssumption DEF WalkState
<1>2. ~Meets(local, s) => s.idx + 1 \in 0..Len(local)
  BY DEF WalkState, Meets
<1>3. ~Meets(local, s) => [s EXCEPT !.idx = @ + 1] \in WalkState(local)
  BY <1>2 DEF WalkState
<1>4. [s EXCEPT !.gap = Append(@, s.ts), !.ts = Parent[s.ts]] \in WalkState(local)
  BY <1>1 DEF WalkState
<1> QED
  BY <1>3, <1>4 DEF WalkStep, Turn

LEMMA WalkType ==
    ASSUME NEW local \in Seq(Tipset), NEW h \in Tipset
    PROVE  \A n \in 0 .. LookBackLimit + 1 : Walk(local, h)[n] \in WalkState(local)
<1>1. WalkStart(h) \in WalkState(local)
  BY DEF WalkStart, WalkState
<1> QED
  BY <1>1, WalkStepType, WalkEnds

(* The tipsets of a sequence are of different heights. *)
Heights(q) == Distinct(Range(q))

(* The walk goes down: every tipset passed is higher than the next. *)
GoesDown(s) ==
    /\ \A i \in DOMAIN s.gap : Height[s.gap[i]] > Height[s.ts]
    /\ \A i, j \in DOMAIN s.gap : i < j => Height[s.gap[i]] > Height[s.gap[j]]

LEMMA WalkDown ==
    ASSUME NEW local \in Seq(Tipset), NEW h \in Tipset
    PROVE  \A n \in 0 .. LookBackLimit + 1 : GoesDown(Walk(local, h)[n])
<1> DEFINE S == {s \in WalkState(local) : GoesDown(s)}
<1>1. WalkStart(h) \in S
  BY DEF WalkStart, WalkState, GoesDown
<1>2. ASSUME NEW s \in S PROVE WalkStep(local, s) \in S
  <2>1. WalkStep(local, s) \in WalkState(local)
    BY WalkStepType
  <2>2. CASE Meets(local, s)
    BY <2>2 DEF WalkStep
  <2>3. CASE WalkStep(local, s) = [s EXCEPT !.idx = @ + 1]
    BY <2>1, <2>3 DEF GoesDown, WalkState
  <2>4. CASE ~Meets(local, s) /\ WalkStep(local, s) = [s EXCEPT !.gap = Append(@, s.ts), !.ts = Parent[s.ts]]
    <3> DEFINE r == WalkStep(local, s)
    <3>1. s.ts \in Tipset /\ s.gap \in Seq(Tipset) /\ Height[s.ts] # 0
      BY <2>4 DEF WalkState, Meets
    <3>2. Height[Parent[s.ts]] < Height[s.ts] /\ Height[s.ts] \in Nat /\ Height[Parent[s.ts]] \in Nat
      BY <3>1, TreeAssumption
    <3>3. r.gap = Append(s.gap, s.ts) /\ r.ts = Parent[s.ts]
      BY <2>4 DEF WalkState
    <3>4. \A i \in DOMAIN s.gap : Height[s.gap[i]] \in Nat /\ Height[s.gap[i]] > Height[s.ts]
      BY <3>1, TreeAssumption DEF GoesDown
    <3>5. \A i, j \in DOMAIN s.gap : i < j => Height[s.gap[i]] > Height[s.gap[j]]
      BY DEF GoesDown
    <3>6. Len(r.gap) = Len(s.gap) + 1 /\ DOMAIN r.gap = 1..Len(s.gap) + 1 /\ DOMAIN s.gap = 1..Len(s.gap)
      BY <3>1, <3>3
    <3>7. r.gap[Len(s.gap) + 1] = s.ts /\ \A i \in 1..Len(s.gap) : r.gap[i] = s.gap[i]
      BY <3>1, <3>3
    <3> HIDE DEF r
    <3>8. Len(s.gap) \in Nat
      BY <3>1
    <3>9. ASSUME NEW i \in DOMAIN r.gap PROVE Height[r.gap[i]] > Height[r.ts]
      BY <3>2, <3>3, <3>4, <3>6, <3>7, <3>8
    <3>10. ASSUME NEW i \in DOMAIN r.gap, NEW j \in DOMAIN r.gap, i < j
           PROVE  Height[r.gap[i]] > Height[r.gap[j]]
      <4>1. i \in 1..Len(s.gap)
        BY <3>6, <3>8, <3>10
      <4>2. CASE j = Len(s.gap) + 1
        BY <4>1, <4>2, <3>4, <3>6, <3>7
      <4>3. CASE j # Len(s.gap) + 1
        <5>1. j \in 1..Len(s.gap)
          BY <4>3, <3>6, <3>8
        <5> QED
          BY <4>1, <5>1, <3>5, <3>6, <3>7, <3>10
      <4> QED
        BY <4>2, <4>3
    <3>11. GoesDown(r)
      BY <3>9, <3>10 DEF GoesDown
    <3> QED
      BY <2>1, <3>11 DEF r
  <2> QED
    BY <2>2, <2>3, <2>4 DEF WalkStep, Turn
<1> HIDE DEF S
<1>3. \A n \in 0 .. LookBackLimit + 1 : Walk(local, h)[n] \in S
  BY <1>1, <1>2, WalkEnds
<1> QED
  BY <1>3 DEF S

LEMMA LookAncestorsType ==
    ASSUME NEW local \in Seq(Tipset), NEW h \in Tipset
    PROVE  /\ LookAncestors(local, h) \in [gap : Seq(Tipset), revert : Seq(Tipset)]
           /\ \A i, j \in DOMAIN LookAncestors(local, h).gap :
                i < j => Height[LookAncestors(local, h).gap[i]] > Height[LookAncestors(local, h).gap[j]]
<1> DEFINE end == Walk(local, h)[LookBackLimit + 1]
<1>1. LookBackLimit + 1 \in 0 .. LookBackLimit + 1
  BY TreeAssumption
<1>2. end \in WalkState(local) /\ GoesDown(end)
  BY <1>1, WalkType, WalkDown
<1>3. LookAncestors(local, h) = [gap |-> end.gap, revert |-> SubSeq(local, 1, end.idx)]
  BY DEF LookAncestors
<1> HIDE DEF end
<1>4. \A i \in 0..Len(local) : SubSeq(local, 1, i) \in Seq(Tipset)
  OBVIOUS
<1> QED
  BY <1>2, <1>3, <1>4 DEF WalkState, GoesDown

-----------------------------------------------------------------------------
(* Type correctness *)

LEMMA CacheDescending ==
    ASSUME TypeOK
    PROVE  Distinct(cache) /\ Descending(cache) \in Seq(Tipset)
<1>1. Distinct(cache) /\ cache \in SUBSET Tipset
  BY DEF TypeOK, Distinct
<1>2. Descending(cache) \in Seq(cache)
  BY <1>1, DescendingType
<1> QED
  BY <1>1, <1>2

LEMMA GapWorkType ==
    ASSUME TypeOK, NEW h \in Tipset
    PROVE  GapWork(h) \in [apply : Seq(Tipset), revert : Seq(Tipset)]
<1> DEFINE found == LookAncestors(Descending(cache), h)
<1>1. found \in [gap : Seq(Tipset), revert : Seq(Tipset)]
  BY CacheDescending, LookAncestorsType
<1> HIDE DEF found
<1>2. found.gap # <<>> => Front(found.gap) \in Seq(Tipset)
  BY <1>1 DEF Front
<1> QED
  BY <1>1, <1>2 DEF GapWork, found

LEMMA AppliedType ==
    ASSUME NEW s \in Tipset, NEW t \in Tipset
    PROVE  Applied(s, t) \in Seq(Tipset)
<1> DEFINE D == Branch[t] \ Branch[s]
           q == Descending(D)
<1>1. D \in SUBSET Tipset /\ Distinct(D)
  BY BranchType, BranchHeights DEF Distinct
<1>2. q \in Seq(D)
  BY <1>1, DescendingType
<1>3. q \in Seq(Tipset)
  BY <1>1, <1>2
<1> HIDE DEF q
<1>4. Reverse(q) \in Seq(Tipset)
  BY <1>3 DEF Reverse
<1> QED
  BY <1>4 DEF Applied, q

LEMMA RowsType ==
    ASSUME TypeOK
    PROVE  AllFilledUpdated \in [Msg -> Row] /\ \A kept, lost : UpdatedBut(kept, lost) \in [Msg -> Row]
<1>1. head \in Tipset /\ Parent[head] \in Tipset
  BY TreeAssumption DEF TypeOK
<1>2. Filled \in Row /\ \A t \in Tipset : /\ [state |-> "OnChain", ts |-> t] \in Row
                                          /\ [state |-> "NonceConflict", ts |-> t] \in Row
  BY DEF Filled, Row
<1>3. ASSUME NEW m \in Msg PROVE AllFilledUpdated[m] \in Row
  <2>1. FoundAt(m) # {} => (CHOOSE t \in FoundAt(m) : TRUE) \in Tipset
    <3>1. FoundAt(m) \subseteq Tipset
      BY <1>1, BranchType DEF FoundAt
    <3> QED
      BY <3>1
  <2> QED
    BY <2>1, <1>2 DEF AllFilledUpdated, TypeOK
<1>4. ASSUME NEW kept, NEW lost, NEW m \in Msg PROVE UpdatedBut(kept, lost)[m] \in Row
  <2> DEFINE parents == {Parent[t] : t \in Range(work.apply)}
             At(R) == {t \in parents : m \in R[t] \ lost}
  <2>1. parents \subseteq Tipset
    BY TreeAssumption DEF TypeOK, Range
  <2>2. \A R : At(R) # {} => (CHOOSE t \in At(R) : TRUE) \in Tipset
    BY <2>1
  <2>3. UpdatedBut(kept, lost)[m] =
          IF rows[m].state # "Fill" /\ m \notin RevertMsgs \ kept THEN rows[m]
          ELSE IF At(Includes) # {} THEN [state |-> "OnChain", ts |-> CHOOSE t \in At(Includes) : TRUE]
          ELSE IF At(Rivals) # {} THEN [state |-> "NonceConflict", ts |-> CHOOSE t \in At(Rivals) : TRUE]
          ELSE Filled
    BY DEF UpdatedBut
  <2> HIDE DEF At
  <2>4. rows[m] \in Row
    BY DEF TypeOK
  <2> QED
    BY <2>2, <2>3, <2>4, <1>2
<1> QED
  BY <1>3, <1>4 DEF AllFilledUpdated, UpdatedBut

LEMMA ProcessedType ==
    ASSUME TypeOK, work.apply # <<>>
    PROVE  Processed \in Seq(Tipset) /\ Processed # <<>> /\ Processed[1] \in Tipset
<1> DEFINE q == work.apply
<1>1. q \in Seq(Tipset) /\ q # <<>> /\ Processed = IF Len(q) = 1 THEN <<Parent[q[1]]>> ELSE Tail(q)
  BY DEF TypeOK, Processed
<1> HIDE DEF q
<1>0. Len(q) \in Nat \ {0}
  <2>1. q \in Seq(Tipset) /\ q # <<>>
    BY <1>1
  <2> QED
    BY <2>1, EmptySeq
<1>2. CASE Len(q) = 1
  <2>1. Parent[q[1]] \in Tipset
    BY <1>1, <1>2, TreeAssumption
  <2> QED
    BY <1>1, <1>2, <2>1
<1>3. CASE Len(q) # 1
  <2> DEFINE n == Len(q)
  <2>1. n \in Nat \ {0} /\ n # 1
    BY <1>0, <1>3
  <2>2. Tail(q) \in Seq(Tipset) /\ Len(Tail(q)) = n - 1
    BY <1>1
  <2> HIDE DEF n
  <2>3. n - 1 \in Nat /\ 1 \in 1..n - 1
    BY <2>1
  <2>4. Tail(q) # <<>> /\ Tail(q)[1] \in Tipset
    BY <2>2, <2>3
  <2> QED
    BY <1>1, <1>3, <2>2, <2>4
<1> QED
  BY <1>2, <1>3

(* Adding replaces what was cached at the same height. *)
LEMMA AddedType ==
    ASSUME NEW old \in SUBSET Tipset, Distinct(old), NEW list \in Seq(Tipset), Distinct(Range(list)), NEW n
    PROVE  LET new == Reduced(Added(old, list), n) IN new \in SUBSET Tipset /\ Distinct(new)
<1>1. Range(list) \subseteq Tipset
  BY DEF Range
<1>2. Added(old, list) \in SUBSET Tipset /\ Distinct(Added(old, list))
  BY <1>1 DEF Added, Distinct
<1>3. Reduced(Added(old, list), n) \subseteq Added(old, list)
  BY DEF Reduced
<1> QED
  BY <1>2, <1>3 DEF Distinct

(* The types, and that the tipsets to be cached are of different heights. *)
TypeInv ==
    /\ TypeOK
    /\ Distinct(file)
    /\ Heights(work.apply)
    /\ \A i \in DOMAIN notifs : Heights(notifs[i])
    /\ pc = "store" => work.apply # <<>>

LEMMA NoWorkType == NoWork \in [apply : Seq(Tipset), revert : Seq(Tipset)] /\ Heights(NoWork.apply)
BY DEF NoWork, Heights, Range, Distinct

LEMMA GapWorkHeights ==
    ASSUME TypeOK, NEW h \in Tipset
    PROVE  Heights(GapWork(h).apply)
<1> DEFINE gap == LookAncestors(Descending(cache), h).gap
<1>1. gap \in Seq(Tipset) /\ \A i, j \in DOMAIN gap : i < j => Height[gap[i]] > Height[gap[j]]
  BY CacheDescending, LookAncestorsType
<1>2. GapWork(h).apply = IF gap = <<>> THEN <<>> ELSE Front(gap)
  BY DEF GapWork
<1> HIDE DEF gap
<1>3. \A t \in Range(gap) : Height[t] \in Nat
  BY <1>1, TreeAssumption DEF Range
<1>4. Heights(gap)
  <2>1. \A i, j \in DOMAIN gap : Height[gap[i]] = Height[gap[j]] => gap[i] = gap[j]
    <3>1. \A i, j \in DOMAIN gap : i \in Nat /\ j \in Nat /\ (i = j \/ i < j \/ j < i)
      BY <1>1
    <3>2. \A i \in DOMAIN gap : Height[gap[i]] \in Nat
      BY <1>1, TreeAssumption
    <3> QED
      BY <1>1, <3>1, <3>2
  <2> QED
    BY <2>1 DEF Heights, Distinct, Range
<1>5. gap # <<>> => Range(Front(gap)) \subseteq Range(gap)
  BY <1>1 DEF Front, Range
<1>6. Heights(<<>>)
  BY DEF Heights, Range, Distinct
<1> QED
  BY <1>2, <1>4, <1>5, <1>6 DEF Heights, Distinct

LEMMA AppliedHeights ==
    ASSUME NEW s \in Tipset, NEW t \in Tipset
    PROVE  Heights(Applied(s, t)) /\ Range(Applied(s, t)) \subseteq Branch[t] \ Branch[s]
<1> DEFINE D == Branch[t] \ Branch[s]
           q == Descending(D)
<1>1. D \in SUBSET Tipset /\ Distinct(D)
  BY BranchType, BranchHeights DEF Distinct
<1>2. q \in Seq(D)
  BY <1>1, DescendingType
<1> HIDE DEF q, D
<1>3. Range(Reverse(q)) \subseteq D
  BY <1>2 DEF Reverse, Range
<1>4. Applied(s, t) = Reverse(q)
  BY DEF Applied, q, D
<1> QED
  BY <1>1, <1>3, <1>4 DEF Heights, Distinct, D

LEMMA ProcessedHeights ==
    ASSUME TypeInv, work.apply # <<>>
    PROVE  Heights(Processed)
<1> DEFINE q == work.apply
<1>1. q \in Seq(Tipset) /\ Heights(q) /\ Processed = IF Len(q) = 1 THEN <<Parent[q[1]]>> ELSE Tail(q)
  BY DEF TypeInv, TypeOK, Processed
<1> HIDE DEF q
<1>2. q # <<>> => Range(Tail(q)) \subseteq Range(q)
  BY <1>1 DEF Range
<1>3. \A t : Heights(<<t>>)
  BY DEF Heights, Range, Distinct
<1> QED
  BY <1>1, <1>2, <1>3 DEF Heights, Distinct, q

(* storeTipset leaves a cache with one tipset for each height. *)
LEMMA StoredType ==
    ASSUME TypeInv, pc = "store"
    PROVE  LET new == Reduced(Added(cache, Processed), Height[Processed[1]])
           IN  new \in SUBSET Tipset /\ Distinct(new)
<1>1. Processed \in Seq(Tipset) /\ Distinct(Range(Processed))
  BY ProcessedType, ProcessedHeights DEF TypeInv, Heights
<1>2. cache \in SUBSET Tipset /\ Distinct(cache)
  BY DEF TypeInv, TypeOK, Distinct
<1> QED
  BY <1>1, <1>2, AddedType

LEMMA TypeInit == Init => TypeInv
<1> SUFFICES ASSUME Init PROVE TypeInv
  OBVIOUS
<1>1. rows \in [Msg -> Row]
  BY DEF Init, Filled, Row
<1>2. cache \subseteq {Genesis} /\ file = cache
  BY DEF Init
<1>3. cache \subseteq Tipset /\ Distinct(cache)
  BY <1>2, TreeAssumption DEF Distinct
<1>4. notifs = <<>> /\ notifs \in Seq(Seq(Tipset)) /\ DOMAIN notifs = {}
  BY DEF Init
<1>5. work = NoWork /\ pc = "connect" /\ head \in Tipset /\ faults \in 0..MaxFaults /\ features \in FeatureSets
  BY TreeAssumption DEF Init
<1>6. missed \subseteq Msg
  BY DEF Init
<1> QED
  BY <1>1, <1>2, <1>3, <1>4, <1>5, <1>6, NoWorkType DEF TypeInv, TypeOK, Distinct

(* The first head change, once the listener is connected. *)
LEMMA FirstNotif ==
    ASSUME TypeInv, notifs # <<>>
    PROVE  /\ Head(notifs) \in Seq(Tipset) /\ Heights(Head(notifs)) /\ Head(notifs) = notifs[1] /\ 1 \in DOMAIN notifs
           /\ Tail(notifs) \in Seq(Seq(Tipset)) /\ \A i \in DOMAIN Tail(notifs) : Heights(Tail(notifs)[i])
           /\ Head(notifs) # <<>> => Last(Head(notifs)) \in Tipset
<1>1. notifs \in Seq(Seq(Tipset)) /\ notifs # <<>> /\ \A i \in DOMAIN notifs : Heights(notifs[i])
  BY DEF TypeInv, TypeOK
<1>2. Head(notifs) \in Seq(Tipset) /\ Head(notifs) = notifs[1] /\ 1 \in DOMAIN notifs /\ Tail(notifs) \in Seq(Seq(Tipset))
  BY <1>1
<1>3. \A i \in DOMAIN Tail(notifs) : i + 1 \in DOMAIN notifs /\ Tail(notifs)[i] = notifs[i + 1]
  BY <1>1
<1>4. ASSUME NEW q \in Seq(Tipset), q # <<>> PROVE Last(q) \in Tipset
  BY <1>4 DEF Last
<1> QED
  BY <1>1, <1>2, <1>3, <1>4

LEMMA NotifsKept ==
    ASSUME TypeInv, notifs' \in {notifs, <<>>}
    PROVE  notifs' \in Seq(Seq(Tipset)) /\ \A i \in DOMAIN notifs' : Heights(notifs'[i])
<1>1. CASE notifs' = notifs
  BY <1>1 DEF TypeInv, TypeOK
<1>2. CASE notifs' = <<>>
  BY <1>2
<1> QED
  BY <1>1, <1>2

LEMMA WorkKept ==
    ASSUME TypeInv, work' \in {work, NoWork}
    PROVE  work' \in [apply : Seq(Tipset), revert : Seq(Tipset)] /\ Heights(work'.apply)
BY NoWorkType DEF TypeInv, TypeOK

LEMMA RowsKept ==
    ASSUME TypeInv,
           \/ rows' \in {rows, AllFilledUpdated}
           \/ \E lost \in SUBSET Msg : rows' = [m \in Msg |-> IF m \in lost THEN rows[m] ELSE AllFilledUpdated[m]]
           \/ \E kept, lost : rows' = UpdatedBut(kept, lost)
    PROVE  rows' \in [Msg -> Row]
BY RowsType DEF TypeInv, TypeOK

LEMMA FeaturesKept == [Next]_vars => UNCHANGED features
BY DEF Next, vars

(* What is passed over once stays excepted. *)
LEMMA MissedGrows ==
    ASSUME TypeInv, [Next]_vars
    PROVE  missed \subseteq missed' /\ missed' \subseteq Msg
<1>0. missed \subseteq Msg
  BY DEF TypeInv, TypeOK
<1>1. CASE Connect \/ ConnectMisses
  BY <1>0, <1>1 DEF Connect, ConnectMisses, LostNonces
<1>2. CASE RefreshMisses
  BY <1>0, <1>2 DEF RefreshMisses
<1>3. CASE missed' = missed
  BY <1>0, <1>3
<1>4. CASE ProcessNewHead \/ DoRefresh \/ StoreTipset \/ SkipNewHead \/ LookAncestorsPanics \/ RefreshFails
  BY <1>4, <1>3 DEF ProcessNewHead, DoRefresh, StoreTipset, SkipNewHead, LookAncestorsPanics, RefreshFails
<1>5. CASE StoreFails \/ SaveFails \/ Disconnect \/ Crash \/ UNCHANGED vars \/ \E h \in Tipset : HeadChange(h)
  BY <1>5, <1>3 DEF StoreFails, SaveFails, Disconnect, Crash, vars, HeadChange
<1> QED
  BY <1>1, <1>2, <1>4, <1>5 DEF Next, Listener, Failure

LEMMA TypeNext == TypeInv /\ [Next]_vars => TypeInv'
<1> SUFFICES ASSUME TypeInv, [Next]_vars PROVE TypeInv'
  OBVIOUS
<1>0. /\ head \in Tipset /\ notifs \in Seq(Seq(Tipset)) /\ pc \in {"connect", "listen", "refresh", "store"}
      /\ cache \in SUBSET Tipset /\ Distinct(cache) /\ file \in SUBSET Tipset /\ Distinct(file)
      /\ faults \in 0..MaxFaults /\ features \in FeatureSets
  BY DEF TypeInv, TypeOK, Distinct
<1>1. \A f : Fault(f) => faults' \in 0..MaxFaults
  BY <1>0, TreeAssumption DEF Fault
<1> DEFINE Typed ==
      /\ head' \in Tipset
      /\ notifs' \in Seq(Seq(Tipset)) /\ \A i \in DOMAIN notifs' : Heights(notifs'[i])
      /\ pc' \in {"connect", "listen", "refresh", "store"} /\ (pc' = "store" => work'.apply # <<>>)
      /\ work' \in [apply : Seq(Tipset), revert : Seq(Tipset)] /\ Heights(work'.apply)
      /\ rows' \in [Msg -> Row]
      /\ cache' \in SUBSET Tipset /\ Distinct(cache') /\ file' \in SUBSET Tipset /\ Distinct(file')
      /\ faults' \in 0..MaxFaults
      /\ features' \in FeatureSets
<1>2. SUFFICES Typed
  <2>1. Distinct(cache') => \A s, t \in cache' : Height[s] = Height[t] => s = t
    BY DEF Distinct
  <2> QED
    BY <2>1, MissedGrows DEF TypeInv, TypeOK, Distinct, Heights
<1>3. Distinct({}) /\ {} \in SUBSET Tipset
  BY DEF Distinct
<1>4. CASE UNCHANGED vars
  BY <1>0, <1>4, NotifsKept, WorkKept, RowsKept DEF vars, TypeInv
<1>5. CASE Connect
  <2>1. notifs' \in {notifs, <<>>} /\ rows' \in {rows, AllFilledUpdated}
    BY <1>5 DEF Connect
  <2>2. (work' = work /\ pc' = "listen") \/ (work' = GapWork(head) /\ pc' = "refresh")
    BY <1>5 DEF Connect
  <2>3. work' \in [apply : Seq(Tipset), revert : Seq(Tipset)] /\ Heights(work'.apply)
    BY <2>2, <1>0, WorkKept, GapWorkType, GapWorkHeights DEF TypeInv
  <2> QED
    BY <1>0, <1>5, <2>1, <2>2, <2>3, NotifsKept, RowsKept DEF Connect, Next, vars
<1>6. CASE ProcessNewHead
  <2>1. notifs # <<>> /\ notifs' = Tail(notifs) /\ UNCHANGED <<head, rows, cache, file, faults>> /\ pc = "listen"
    BY <1>6 DEF ProcessNewHead
  <2>2. Head(notifs) \in Seq(Tipset) /\ Heights(Head(notifs)) /\ (Head(notifs) # <<>> => Last(Head(notifs)) \in Tipset)
    BY <2>1, FirstNotif
  <2>3. \/ work' = work /\ pc' = pc
        \/ work' = [apply |-> Head(notifs), revert |-> <<>>] /\ pc' = "refresh"
        \/ work' = GapWork(Last(Head(notifs))) /\ Head(notifs) # <<>> /\ pc' = "refresh"
    BY <1>6 DEF ProcessNewHead
  <2>4. work' \in [apply : Seq(Tipset), revert : Seq(Tipset)] /\ Heights(work'.apply)
    <3>1. CASE work' = work
      BY <3>1, WorkKept
    <3>2. CASE work' = [apply |-> Head(notifs), revert |-> <<>>]
      BY <3>2, <2>2
    <3>3. CASE work' = GapWork(Last(Head(notifs))) /\ Head(notifs) # <<>>
      BY <3>3, <2>2, GapWorkType, GapWorkHeights DEF TypeInv
    <3> QED
      BY <2>3, <3>1, <3>2, <3>3
  <2> QED
    BY <1>0, <2>1, <2>3, <2>4, FirstNotif, RowsKept, FeaturesKept
<1>7. CASE DoRefresh
  <2>1. /\ UNCHANGED <<head, notifs, cache, file, faults>>
        /\ rows' = rows \/ \E kept, lost : rows' = UpdatedBut(kept, lost)
        /\ \/ pc' = "listen" /\ work' = NoWork
           \/ pc' = "store" /\ work' = work /\ work.apply # <<>>
    BY <1>7 DEF DoRefresh, UpdateMessageState
  <2> QED
    BY <1>0, <2>1, NotifsKept, RowsKept, WorkKept, FeaturesKept
<1>13. CASE RefreshMisses
  <2>1. /\ UNCHANGED <<head, notifs, work, cache, file>> /\ pc' = "store" /\ work.apply # <<>>
        /\ \E kept, lost : rows' = UpdatedBut(kept, lost)
        /\ faults' \in 0..MaxFaults
    BY <1>1, <1>13 DEF RefreshMisses
  <2> QED
    BY <1>0, <2>1, NotifsKept, RowsKept, WorkKept, FeaturesKept
<1>8. CASE StoreTipset \/ SaveFails
  <2> DEFINE new == Reduced(Added(cache, Processed), Height[Processed[1]])
  <2>1. /\ pc = "store" /\ cache' = new /\ file' \in {new, file, {}}
        /\ pc' = "listen" /\ work' = NoWork /\ UNCHANGED <<head, notifs, rows>>
    BY <1>8 DEF StoreTipset, SaveFails
  <2>2. faults' \in 0..MaxFaults
    BY <1>0, <1>1, <1>8 DEF StoreTipset, SaveFails
  <2>3. new \in SUBSET Tipset /\ Distinct(new)
    BY <2>1, StoredType
  <2> QED
    BY <1>0, <1>3, <2>1, <2>2, <2>3, NotifsKept, RowsKept, WorkKept, FeaturesKept
<1>9. CASE ConnectMisses
  <2>1. UNCHANGED <<head, work, cache, file>> /\ pc' = "listen" /\ notifs' = <<>>
    BY <1>9 DEF ConnectMisses
  <2>2. rows' \in [Msg -> Row] /\ faults' \in 0..MaxFaults
    BY <1>1, <1>9, RowsKept DEF ConnectMisses
  <2> QED
    BY <1>0, <2>1, <2>2, NotifsKept, WorkKept, FeaturesKept
<1>10. CASE SkipNewHead
  <2>1. UNCHANGED <<head, pc, work, rows, cache, file>> /\ notifs # <<>> /\ notifs' = Tail(notifs) /\ pc = "listen"
    BY <1>10 DEF SkipNewHead
  <2>2. faults' \in 0..MaxFaults
    BY <1>1, <1>10 DEF SkipNewHead, LookAncestorsFails
  <2> QED
    BY <1>0, <2>1, <2>2, FirstNotif, RowsKept, WorkKept, FeaturesKept
<1>11. CASE LookAncestorsPanics \/ RefreshFails \/ Crash \/ Disconnect \/ StoreFails
  <2>1. /\ UNCHANGED <<head, rows>> /\ pc' \in {"connect", "listen"}
        /\ work' \in {work, NoWork} /\ notifs' \in {notifs, <<>>}
        /\ file' \in {file, {}} /\ cache' \in {cache, file, {}}
    BY <1>11 DEF LookAncestorsPanics, RefreshFails, Crash, Disconnect, StoreFails
  <2>2. faults' \in 0..MaxFaults
    BY <1>1, <1>11 DEF LookAncestorsPanics, RefreshFails, Crash, Disconnect, StoreFails, LookAncestorsFails
  <2> QED
    BY <1>0, <1>3, <2>1, <2>2, NotifsKept, RowsKept, WorkKept, FeaturesKept
<1>12. CASE \E h \in Tipset : HeadChange(h)
  <2>1. PICK h \in Tipset : HeadChange(h)
    BY <1>12
  <2>2. UNCHANGED <<pc, work, rows, cache, file, faults>> /\ head' = h
    BY <2>1 DEF HeadChange
  <2>3. notifs' \in Seq(Seq(Tipset)) /\ \A i \in DOMAIN notifs' : Heights(notifs'[i])
    <3>1. CASE notifs' = notifs
      BY <3>1, NotifsKept
    <3>2. CASE notifs' = Append(notifs, Applied(head, h))
      <4> DEFINE q == Applied(head, h)
      <4>1. q \in Seq(Tipset) /\ Heights(q)
        BY <1>0, AppliedType, AppliedHeights
      <4>2. \A i \in DOMAIN notifs : Heights(notifs[i])
        BY DEF TypeInv
      <4> HIDE DEF q
      <4> QED
        BY <1>0, <3>2, <4>1, <4>2 DEF q
    <3> QED
      BY <3>1, <3>2, <2>1 DEF HeadChange
  <2> QED
    BY <1>0, <2>2, <2>3, RowsKept, WorkKept, FeaturesKept DEF TypeInv
<1> QED
  BY <1>4, <1>5, <1>6, <1>7, <1>8, <1>9, <1>10, <1>11, <1>12, <1>13 DEF Next, Listener, Failure

(* The listener, the cache and the table stay well formed; in particular the cache has at most one
   tipset for each height, though what storeTipset adds comes from reorgs, null rounds, several
   tipsets at once, and a file read after a crash. *)
THEOREM HeadTypeCorrect == Spec => []TypeOK
<1>1. TypeInv => TypeOK
  BY DEF TypeInv
<1> QED
  BY <1>1, TypeInit, TypeNext, PTL DEF Spec

-----------------------------------------------------------------------------
(* A node that only moves forward, one tipset at a time *)

Calm == features \cap {"reorg", "levelReorg", "batch"} = {}

(* Each tipset of the sequence is the parent of the one before. *)
Linked(q) == \A i \in DOMAIN q : i + 1 \in DOMAIN q => q[i + 1] = Parent[q[i]]

(* The walk from h towards top, the highest cached tipset, one of h's ancestors. *)
OnWay(h, top, s) ==
    /\ s.idx = 0
    /\ s.ts \in Branch[h] /\ top \in Branch[s.ts]
    /\ Linked(s.gap)
    /\ Branch[h] = Range(s.gap) \cup Branch[s.ts]
    /\ s.gap = <<>> => s.ts = h
    /\ s.gap # <<>> => s.gap[1] = h /\ s.ts = Parent[s.gap[Len(s.gap)]]
    /\ Height[h] >= Height[s.ts] + Len(s.gap)

LEMMA HeightZero ==
    ASSUME NEW t \in Tipset, Height[t] = 0
    PROVE  t = Genesis
BY TreeAssumption

LEMMA GenesisAlone == Branch[Genesis] = {Genesis}
<1>1. Genesis \in Tipset /\ {Genesis} \in SUBSET Tipset /\ \A u \in {Genesis} : Parent[u] \in {Genesis}
  BY TreeAssumption
<1>2. Branch[Genesis] \subseteq {Genesis}
  BY <1>1, BranchLeast
<1> QED
  BY <1>1, <1>2, BranchType

LEMMA AppendFacts ==
    ASSUME NEW q \in Seq(Tipset), NEW t \in Tipset
    PROVE  LET r == Append(q, t) IN
           /\ r \in Seq(Tipset) /\ r # <<>> /\ Len(r) = Len(q) + 1 /\ DOMAIN r = 1..Len(q) + 1
           /\ r[Len(q) + 1] = t /\ (\A i \in 1..Len(q) : r[i] = q[i])
           /\ Range(r) = Range(q) \cup {t}
<1> DEFINE r == Append(q, t)
<1>1. r \in Seq(Tipset) /\ Len(r) = Len(q) + 1 /\ r[Len(q) + 1] = t /\ \A i \in 1..Len(q) : r[i] = q[i]
  OBVIOUS
<1>2. DOMAIN r = 1..Len(q) + 1 /\ DOMAIN q = 1..Len(q) /\ Len(q) \in Nat
  BY <1>1
<1> HIDE DEF r
<1>3. r # <<>>
  BY <1>1, <1>2
<1>4. Range(r) = Range(q) \cup {t}
  BY <1>1, <1>2 DEF Range
<1> QED
  BY <1>1, <1>2, <1>3, <1>4 DEF r

(* On the way the walk passes no cached tipset, and stops only where it meets top. *)
LEMMA OnWayStep ==
    ASSUME NEW local \in Seq(Tipset), Len(local) >= 1, NEW h \in Tipset, NEW top \in Tipset, local[1] = top,
           NEW s \in WalkState(local), OnWay(h, top, s)
    PROVE  /\ Meets(local, s) <=> s.ts = top
           /\ OnWay(h, top, WalkStep(local, s))
           /\ s.ts # top => Len(WalkStep(local, s).gap) = Len(s.gap) + 1
<1>1. s.ts \in Tipset /\ s.gap \in Seq(Tipset) /\ Len(s.gap) \in Nat /\ s.idx = 0
  BY DEF WalkState, OnWay
<1>2. s.ts \in Branch[h] /\ top \in Branch[s.ts]
  BY DEF OnWay
<1>3. Height[s.ts] = 0 => s.ts = top
  BY <1>1, <1>2, HeightZero, GenesisAlone
<1>4. Meets(local, s) <=> s.ts = top
  BY <1>1, <1>3 DEF Meets
<1>5. CASE s.ts = top
  BY <1>4, <1>5 DEF WalkStep
<1>6. CASE s.ts # top
  <2> DEFINE r == WalkStep(local, s)
             n == Len(s.gap)
  <2>1. Height[top] < Height[s.ts] /\ Height[s.ts] \in Nat /\ Height[top] \in Nat
    BY <1>1, <1>2, <1>6, BranchLower
  <2>2. r = [s EXCEPT !.gap = Append(@, s.ts), !.ts = Parent[s.ts]]
    BY <1>1, <1>4, <1>6, <2>1 DEF WalkStep, Turn
  <2>3. r.gap = Append(s.gap, s.ts) /\ r.ts = Parent[s.ts] /\ r.idx = 0
    BY <1>1, <2>2 DEF WalkState
  <2> HIDE DEF r
  <2>4. /\ r.gap \in Seq(Tipset) /\ r.gap # <<>> /\ Len(r.gap) = n + 1 /\ DOMAIN r.gap = 1..n + 1
        /\ r.gap[n + 1] = s.ts /\ (\A i \in 1..n : r.gap[i] = s.gap[i]) /\ Range(r.gap) = Range(s.gap) \cup {s.ts}
    BY SMTT(60), <1>1, <2>3, AppendFacts
  <2>5. DOMAIN s.gap = 1..n /\ n \in Nat
    BY <1>1
  <2>6. s.gap = <<>> <=> n = 0
    BY <1>1
  <2> HIDE DEF n
  <2>7. Parent[s.ts] \in Branch[h]
    BY <1>2, BranchClosed
  <2>8. top \in Branch[Parent[s.ts]]
    BY <1>1, <1>2, <1>6, BranchUnfold
  <2>9. Branch[h] = Range(r.gap) \cup Branch[r.ts]
    <3>1. Branch[s.ts] = {s.ts} \cup Branch[Parent[s.ts]]
      BY <1>1, BranchUnfold
    <3> QED
      BY <3>1, <2>3, <2>4 DEF OnWay
  <2>10. r.gap[1] = h
    <3>1. CASE n = 0
      BY <3>1, <2>4, <2>6 DEF OnWay
    <3>2. CASE n # 0
      BY <3>2, <2>4, <2>5, <2>6 DEF OnWay
    <3> QED
      BY <3>1, <3>2
  <2>11. Linked(r.gap)
    <3> SUFFICES ASSUME NEW i \in 1..n + 1, i + 1 \in 1..n + 1 PROVE r.gap[i + 1] = Parent[r.gap[i]]
      BY <2>4 DEF Linked
    <3>1. i \in 1..n
      BY <2>5
    <3>2. CASE i = n
      <4>1. s.ts = Parent[s.gap[n]]
        BY <3>1, <2>5, <2>6 DEF OnWay, n
      <4> QED
        BY <4>1, <3>1, <3>2, <2>4
    <3>3. CASE i # n
      <4>1. i + 1 \in 1..n
        BY <3>1, <3>3, <2>5
      <4> QED
        BY <4>1, <3>1, <2>4, <2>5 DEF OnWay, Linked
    <3> QED
      BY <3>2, <3>3
  <2>12. Height[h] >= Height[r.ts] + Len(r.gap)
    <3>1. Height[Parent[s.ts]] < Height[s.ts] /\ Height[Parent[s.ts]] \in Nat /\ Height[h] \in Nat
      BY <1>1, <1>3, <1>6, TreeAssumption
    <3>2. Height[h] >= Height[s.ts] + n
      BY DEF OnWay, n
    <3> QED
      BY <3>1, <3>2, <2>1, <2>3, <2>4, <2>5
  <2>13. r.ts = Parent[r.gap[Len(r.gap)]]
    BY SMTT(60), <2>3, <2>4
  <2>14. OnWay(h, top, r)
    BY <2>3, <2>4, <2>7, <2>8, <2>9, <2>10, <2>11, <2>12, <2>13 DEF OnWay
  <2> QED
    BY <1>4, <2>4, <2>14 DEF r, n
<1> QED
  BY <1>5, <1>6

(* After each turn the walk is on its way, and it makes a turn unless it has met top. *)
LEMMA ForwardWalk ==
    ASSUME NEW local \in Seq(Tipset), Len(local) >= 1, NEW h \in Tipset, NEW top \in Branch[h], local[1] = top
    PROVE  \A n \in 0 .. LookBackLimit + 1 :
             LET s == Walk(local, h)[n] IN OnWay(h, top, s) /\ (s.ts = top \/ Len(s.gap) = n)
<1> DEFINE w == Walk(local, h)
           S == {s \in WalkState(local) : OnWay(h, top, s)}
           G == {n \in Nat : n <= LookBackLimit + 1 => w[n].ts = top \/ Len(w[n].gap) = n}
<1>0. LookBackLimit \in Nat /\ top \in Tipset /\ Height[h] \in Nat
  BY TreeAssumption, BranchType
<1>1. WalkStart(h) \in S
  <2>1. WalkStart(h) \in WalkState(local)
    BY DEF WalkStart, WalkState
  <2>2. WalkStart(h).idx = 0 /\ WalkStart(h).ts = h /\ WalkStart(h).gap = <<>>
    BY DEF WalkStart
  <2>3. Linked(<<>>) /\ Range(<<>>) = {} /\ Len(<<>>) = 0
    BY DEF Linked, Range
  <2>4. OnWay(h, top, WalkStart(h))
    BY <2>2, <2>3, <1>0, BranchType DEF OnWay
  <2> QED
    BY <2>1, <2>4
<1>2. \A s \in S : WalkStep(local, s) \in S
  BY <1>0, OnWayStep, WalkStepType
<1>3. \A n \in 0 .. LookBackLimit + 1 : w[n] \in S
  <2> HIDE DEF S
  <2> QED
    BY <1>1, <1>2, WalkEnds
<1>4. w[0] = WalkStart(h) /\ \A n \in 1 .. LookBackLimit + 1 : w[n] = WalkStep(local, w[n - 1])
  BY WalkIsWalk DEF IsWalk
<1> HIDE DEF w
<1>5. 0 \in G
  BY <1>4 DEF WalkStart
<1>6. ASSUME NEW n \in G PROVE n + 1 \in G
  <2> SUFFICES ASSUME n + 1 <= LookBackLimit + 1
               PROVE  w[n + 1].ts = top \/ Len(w[n + 1].gap) = n + 1
    OBVIOUS
  <2>1. n \in 0 .. LookBackLimit + 1 /\ n + 1 \in 1 .. LookBackLimit + 1 /\ (n + 1) - 1 = n
    BY <1>0
  <2>2. w[n + 1] = WalkStep(local, w[n]) /\ w[n] \in WalkState(local) /\ OnWay(h, top, w[n])
    BY <2>1, <1>3, <1>4
  <2>3. w[n].ts = top \/ Len(w[n].gap) = n
    BY <2>1
  <2>4. CASE w[n].ts = top
    <3>1. Meets(local, w[n])
      BY <1>0, <2>2, <2>4, OnWayStep
    <3> QED
      BY <2>2, <2>4, <3>1 DEF WalkStep
  <2>5. CASE w[n].ts # top
    BY <1>0, <2>2, <2>3, <2>5, OnWayStep
  <2> QED
    BY <2>4, <2>5
<1> HIDE DEF G
<1>7. G = Nat
  BY <1>5, <1>6, Induction DEF G
<1>8. ASSUME NEW n \in 0 .. LookBackLimit + 1 PROVE OnWay(h, top, w[n]) /\ (w[n].ts = top \/ Len(w[n].gap) = n)
  BY <1>0, <1>3, <1>7 DEF G
<1> QED
  BY <1>8 DEF w

LEMMA FrontFacts ==
    ASSUME NEW q \in Seq(Tipset), q # <<>>
    PROVE  /\ Front(q) \in Seq(Tipset) /\ Len(Front(q)) = Len(q) - 1 /\ Len(q) \in Nat \ {0}
           /\ DOMAIN Front(q) = 1..Len(q) - 1
           /\ \A i \in 1..Len(q) - 1 : Front(q)[i] = q[i]
<1> DEFINE n == Len(q)
<1>1. n \in Nat \ {0}
  BY EmptySeq
<1>2. Front(q) = SubSeq(q, 1, n - 1)
  BY DEF Front
<1>3. \A i \in 1..n : q[i] \in Tipset
  OBVIOUS
<1> HIDE DEF n
<1>4. n - 1 \in Nat /\ \A i \in 1..n - 1 : i \in 1..n
  BY <1>1
<1>5. SubSeq(q, 1, n - 1) \in Seq(Tipset) /\ Len(SubSeq(q, 1, n - 1)) = n - 1
  <2> DEFINE k == n - 1
  <2>1. k \in Int /\ 1 \in Int /\ \A i \in 1..k : q[i] \in Tipset
    BY <1>3, <1>4
  <2>2. (IF 1 <= k THEN k - 1 + 1 ELSE 0) = k
    BY <1>4
  <2> HIDE DEF k
  <2>3. SubSeq(q, 1, k) \in Seq(Tipset) /\ Len(SubSeq(q, 1, k)) = IF 1 <= k THEN k - 1 + 1 ELSE 0
    BY <2>1, SubSeqProperties
  <2> QED
    BY <2>2, <2>3 DEF k
<1>6. \A i \in 1..n - 1 : SubSeq(q, 1, n - 1)[i] = q[i]
  BY <1>1, <1>3, <1>4
<1>7. DOMAIN Front(q) = 1..n - 1
  BY <1>2, <1>5
<1> QED
  BY <1>1, <1>2, <1>5, <1>6, <1>7 DEF n

(* The headChan for a head whose branch holds the whole cache: nothing is reverted, and the
   tipsets to apply are those down to the second after the highest cached one. *)
LEMMA ForwardGapWork ==
    ASSUME TypeOK, NEW h \in Tipset, cache # {}, cache \subseteq Branch[h]
    PROVE  LET q == GapWork(h).apply IN
           /\ GapWork(h).revert = <<>>
           /\ Linked(q) /\ Range(q) \subseteq Branch[h] /\ (q # <<>> => q[1] = h)
<1> DEFINE local == Descending(cache)
           top == local[1]
           end == Walk(local, h)[LookBackLimit + 1]
           gap == end.gap
<1>1. Distinct(cache) /\ local \in Seq(Tipset) /\ cache \in SUBSET Tipset
  BY CacheDescending DEF TypeOK
<1>2. Len(local) >= 1 /\ top \in cache
  BY <1>1, DescendingTop
<1>3. LookBackLimit + 1 \in 0 .. LookBackLimit + 1
  BY TreeAssumption
<1>4. OnWay(h, top, end) /\ end \in WalkState(local)
  <2>1. top \in Branch[h]
    BY <1>2
  <2> HIDE DEF local, top
  <2> QED
    BY <1>1, <1>2, <1>3, <2>1, ForwardWalk, WalkType DEF top
<1>5. GapWork(h) = [apply |-> IF gap = <<>> THEN <<>> ELSE Front(gap), revert |-> SubSeq(local, 1, end.idx)]
  BY DEF GapWork, LookAncestors
<1> HIDE DEF end, local
<1>6. SubSeq(local, 1, end.idx) = <<>>
  BY <1>1, <1>4 DEF OnWay
<1>7. gap \in Seq(Tipset) /\ Linked(gap) /\ Range(gap) \subseteq Branch[h] /\ (gap # <<>> => gap[1] = h)
  BY <1>4 DEF OnWay, WalkState
<1> HIDE DEF gap
<1>8. CASE gap = <<>>
  <2>1. Linked(<<>>) /\ Range(<<>>) = {}
    BY DEF Linked, Range
  <2> QED
    BY <1>5, <1>6, <1>8, <2>1
<1>9. CASE gap # <<>>
  <2> DEFINE q == Front(gap)
             n == Len(gap)
  <2>1. /\ q \in Seq(Tipset) /\ n \in Nat \ {0} /\ DOMAIN q = 1..n - 1 /\ DOMAIN gap = 1..n
        /\ \A i \in 1..n - 1 : q[i] = gap[i]
    <3>1. DOMAIN gap = 1..n
      BY <1>7
    <3> QED
      BY <3>1, <1>7, <1>9, FrontFacts
  <2>2. Len(q) = n - 1
    BY <1>7, <1>9, FrontFacts
  <2> HIDE DEF q, n
  <2>3. Linked(q)
    <3> SUFFICES ASSUME NEW i \in 1..n - 1, i + 1 \in 1..n - 1 PROVE q[i + 1] = Parent[q[i]]
      BY <2>1 DEF Linked
    <3>1. i \in 1..n /\ i + 1 \in 1..n /\ q[i] = gap[i] /\ q[i + 1] = gap[i + 1]
      BY <2>1
    <3> QED
      BY <3>1, <1>7, <2>1 DEF Linked
  <2>4. Range(q) \subseteq Branch[h]
    BY <1>7, <2>1 DEF Range
  <2>5. q # <<>> => q[1] = h
    <3>1. q # <<>> => Len(q) \in Nat \ {0}
      BY <2>1, EmptySeq
    <3>2. q # <<>> => 1 \in 1..n - 1
      BY <3>1, <2>1, <2>2
    <3> QED
      BY <3>2, <2>1, <1>7, <1>9
  <2> QED
    BY <1>5, <1>6, <1>9, <2>3, <2>4, <2>5 DEF q
<1> QED
  BY <1>8, <1>9

(* The tipset that was taken from the channel last, or the head if none waits there. *)
Seen == IF notifs = <<>> THEN head ELSE Parent[notifs[1][1]]

(* What waits in the channel leads from Seen to the head, one tipset at a time. *)
InOrder ==
    /\ \A i \in DOMAIN notifs : Len(notifs[i]) = 1 /\ notifs[i][1] \in Branch[head]
    /\ \A i \in DOMAIN notifs : i + 1 \in DOMAIN notifs => Parent[notifs[i + 1][1]] = notifs[i][1]
    /\ notifs # <<>> => pc # "connect" /\ notifs[Len(notifs)][1] = head

LEMMA ParentBranch ==
    ASSUME NEW t \in Tipset, NEW s \in Branch[t]
    PROVE  Parent[s] \in Branch[Parent[t]] /\ Branch[Parent[s]] \subseteq Branch[Parent[t]]
<1>1. s \in Tipset /\ Parent[s] \in Tipset /\ Parent[t] \in Tipset
  BY BranchType, TreeAssumption
<1>2. s = t \/ s \in Branch[Parent[t]]
  BY BranchUnfold
<1>3. Parent[s] \in Branch[Parent[t]]
  BY <1>1, <1>2, BranchType, BranchClosed
<1> QED
  BY <1>1, <1>3, BranchClosed

(* A head change by one tipset forward. *)
LEMMA AppliedOne ==
    ASSUME NEW s \in Tipset, NEW h \in Tipset, h # s, s \in Branch[h], Len(Applied(s, h)) <= 1
    PROVE  Applied(s, h) = <<h>> /\ Parent[h] = s
<1> DEFINE D == Branch[h] \ Branch[s]
           q == Descending(D)
<1>1. D \in SUBSET Tipset /\ Distinct(D) /\ IsFiniteSet(D)
  BY BranchType, BranchHeights, FS_Subset DEF Distinct
<1>2. q \in Seq(D) /\ Len(q) = Cardinality(D) /\ Cardinality(D) \in Nat
  BY <1>1, DescendingType
<1>3. Applied(s, h) = Reverse(q)
  BY DEF Applied
<1>4. h \in D
  BY BranchType, BranchLower
<1>5. D = {h}
  <2> HIDE DEF q, D
  <2>1. Len(Reverse(q)) = Len(q)
    BY <1>2 DEF Reverse
  <2>2. Cardinality(D) <= 1 /\ Cardinality(D) # 0
    BY <1>1, <1>2, <1>3, <1>4, <2>1, FS_EmptySet
  <2>3. Cardinality(D) = 1
    BY <1>2, <2>2
  <2>4. \E x : D = {x}
    BY <1>1, <2>3, FS_Singleton
  <2> QED
    BY <1>4, <2>4
<1>6. Applied(s, h) = <<h>>
  <2>1. q = <<h>>
    BY <1>5, DescendingOne
  <2>2. Reverse(<<h>>) = <<h>>
    BY DEF Reverse
  <2> QED
    BY <1>3, <2>1, <2>2
<1>7. Parent[h] # h
  <2> SUFFICES ASSUME Parent[h] = h PROVE FALSE
    OBVIOUS
  <2>1. h = Genesis
    BY TreeAssumption
  <2> QED
    BY <2>1, GenesisAlone
<1>8. Parent[h] \in Branch[s]
  <2>1. Parent[h] \in Branch[h]
    BY BranchType, BranchClosed
  <2> QED
    BY <2>1, <1>5, <1>7
<1>9. s \in Branch[Parent[h]]
  BY BranchUnfold
<1>10. Parent[h] \in Tipset
  BY TreeAssumption
<1>11. Parent[h] = s
  BY <1>8, <1>9, <1>10, BranchLower
<1> QED
  BY <1>6, <1>11

LEMMA SeenType ==
    ASSUME TypeOK, InOrder
    PROVE  Seen \in Tipset /\ Seen \in Branch[head] /\ Parent[Seen] \in Tipset
<1>1. head \in Tipset /\ head \in Branch[head]
  BY BranchType DEF TypeOK
<1>2. CASE notifs = <<>>
  BY <1>1, <1>2, TreeAssumption DEF Seen
<1>3. CASE notifs # <<>>
  <2>1. 1 \in DOMAIN notifs
    BY <1>3 DEF TypeOK
  <2>2. notifs[1][1] \in Branch[head]
    BY <2>1 DEF InOrder
  <2>3. Parent[notifs[1][1]] \in Branch[head]
    BY <1>1, <2>2, BranchClosed
  <2>4. Seen = Parent[notifs[1][1]]
    BY <1>3 DEF Seen
  <2> QED
    BY <1>1, <2>3, <2>4, BranchType, TreeAssumption
<1> QED
  BY <1>2, <1>3

(* Taking the first head change moves Seen to its tipset. *)
LEMMA TakeNotif ==
    ASSUME TypeInv, InOrder, notifs # <<>>, notifs' = Tail(notifs), head' = head, pc' # "connect"
    PROVE  LET h == Last(Head(notifs)) IN
           /\ InOrder' /\ h \in Tipset /\ Seen' = h /\ Parent[h] = Seen /\ Head(notifs) = <<h>> /\ Seen \in Branch[Seen']
<1> DEFINE h == notifs[1][1]
           q == notifs
           n == Len(notifs)
<1>1. q \in Seq(Seq(Tipset)) /\ q # <<>> /\ head \in Tipset
  BY DEF TypeInv, TypeOK
<1>2. n \in Nat \ {0} /\ DOMAIN q = 1..n
  BY <1>1, EmptySeq
<1>3. DOMAIN q' = 1..n - 1 /\ Len(q') = n - 1 /\ \A i \in 1..n - 1 : q'[i] = q[i + 1]
  BY <1>1, <1>2
<1>4. Head(notifs) = q[1] /\ q[1] \in Seq(Tipset) /\ Len(q[1]) = 1
  BY <1>1, <1>2 DEF InOrder
<1>5. Head(notifs) = <<h>> /\ Last(Head(notifs)) = h /\ h \in Tipset
  BY <1>4 DEF Last
<1>6. Parent[h] = Seen
  BY <1>1 DEF Seen
<1>7. /\ \A i \in 1..n : Len(q[i]) = 1 /\ q[i][1] \in Branch[head]
      /\ \A i \in 1..n : i + 1 \in 1..n => Parent[q[i + 1][1]] = q[i][1]
      /\ q[n][1] = head
  BY <1>1, <1>2 DEF InOrder
<1> HIDE DEF n, h
<1>8. (q' = <<>>) <=> (n = 1)
  <2>1. q' \in Seq(Seq(Tipset))
    BY <1>1
  <2>2. q' # <<>> => Len(q') \in Nat \ {0}
    BY <2>1, EmptySeq
  <2>3. q' = <<>> => Len(q') = 0
    BY EmptySeq
  <2> QED
    BY <1>2, <1>3, <2>2, <2>3
<1>9. InOrder'
  <2>1. \A i \in 1..n - 1 : Len(q'[i]) = 1 /\ q'[i][1] \in Branch[head]
    <3>1. \A i \in 1..n - 1 : i + 1 \in 1..n
      BY <1>2
    <3> QED
      BY <3>1, <1>3, <1>7
  <2>2. \A i \in 1..n - 1 : i + 1 \in 1..n - 1 => Parent[q'[i + 1][1]] = q'[i][1]
    <3>1. \A i \in 1..n - 1 : i + 1 \in 1..n /\ (i + 1 \in 1..n - 1 => (i + 1) + 1 \in 1..n)
      BY <1>2
    <3> QED
      BY <3>1, <1>3, <1>7
  <2>3. q' # <<>> => q'[n - 1][1] = head
    <3>1. q' # <<>> => n - 1 \in 1..n - 1 /\ (n - 1) + 1 = n
      BY <1>2, <1>8
    <3> QED
      BY <3>1, <1>3, <1>7
  <2> QED
    BY <1>3, <2>1, <2>2, <2>3 DEF InOrder
<1>10. Seen' = h
  <2>1. CASE n = 1
    BY <2>1, <1>7, <1>8 DEF Seen, h
  <2>2. CASE n # 1
    <3>1. 1 \in 1..n - 1 /\ 1 + 1 \in 1..n /\ 1 \in 1..n
      BY <2>2, <1>2
    <3>2. q'[1] = q[1 + 1] /\ Parent[q[1 + 1][1]] = q[1][1]
      BY <3>1, <1>3, <1>7
    <3> QED
      BY <2>2, <3>2, <1>8 DEF Seen, h
  <2> QED
    BY <2>1, <2>2
<1>11. Seen \in Branch[Seen']
  BY <1>5, <1>6, <1>10, BranchType, BranchClosed
<1> QED
  BY <1>5, <1>6, <1>9, <1>10, <1>11

(* A head change by one tipset goes to the end of the channel, if there is one. *)
LEMMA HeadMoves ==
    ASSUME TypeInv, Calm, InOrder, NEW h \in Tipset, HeadChange(h)
    PROVE  InOrder' /\ Seen' \in Tipset /\ Seen \in Branch[Seen'] /\ (pc # "connect" => Seen' = Seen)
<1>1. head \in Tipset /\ notifs \in Seq(Seq(Tipset))
  BY DEF TypeInv, TypeOK
<1>2. head \in Branch[h] /\ h # head /\ Len(Applied(head, h)) <= 1 /\ head' = h /\ pc' = pc
  BY DEF HeadChange, Calm
<1>3. Applied(head, h) = <<h>> /\ Parent[h] = head
  BY <1>1, <1>2, AppliedOne
<1>4. Branch[head] \subseteq Branch[h] /\ h \in Branch[h] /\ Seen \in Tipset
  BY <1>2, BranchClosed, BranchType, SeenType DEF TypeInv
<1>5. CASE pc = "connect"
  <2>1. notifs = <<>> /\ notifs' = <<>>
    BY <1>5 DEF InOrder, HeadChange
  <2>2. Seen = head /\ Seen' = h
    BY <1>2, <2>1 DEF Seen
  <2>3. InOrder'
    BY <2>1 DEF InOrder
  <2> QED
    BY <1>2, <1>5, <2>2, <2>3
<1>6. CASE pc # "connect"
  <2> DEFINE q == notifs
             r == notifs'
             n == Len(notifs)
  <2>1. r = Append(q, <<h>>)
    BY <1>3, <1>6 DEF HeadChange
  <2>2. n \in Nat /\ DOMAIN q = 1..n /\ <<h>> \in Seq(Tipset)
    BY <1>1
  <2>3. DOMAIN r = 1..n + 1 /\ Len(r) = n + 1 /\ r[n + 1] = <<h>> /\ \A i \in 1..n : r[i] = q[i]
    BY <1>1, <2>1
  <2>4. (q = <<>>) <=> (n = 0)
    BY <1>1, EmptySeq
  <2>5. r # <<>>
    BY <1>1, <2>1
  <2>6. /\ \A i \in 1..n : Len(q[i]) = 1 /\ q[i][1] \in Branch[head]
        /\ \A i \in 1..n : i + 1 \in 1..n => Parent[q[i + 1][1]] = q[i][1]
        /\ n # 0 => q[n][1] = head
    BY <2>2, <2>4 DEF InOrder
  <2>7. r[n + 1][1] = h /\ Len(r[n + 1]) = 1
    BY <2>3
  <2>8. Seen' = Parent[r[1][1]] /\ Seen = IF n = 0 THEN head ELSE Parent[q[1][1]]
    BY <2>4, <2>5 DEF Seen
  <2> HIDE DEF q, r, n
  <2>9. \A i \in 1..n + 1 : Len(r[i]) = 1 /\ r[i][1] \in Branch[h]
    <3>1. \A i \in 1..n + 1 : i \in 1..n \/ i = n + 1
      BY <2>2
    <3> QED
      BY <3>1, <1>4, <2>3, <2>6, <2>7
  <2>10. ASSUME NEW i \in 1..n + 1, i + 1 \in 1..n + 1 PROVE Parent[r[i + 1][1]] = r[i][1]
    <3>1. i \in 1..n /\ (i = n \/ i + 1 \in 1..n) /\ (i = n => n # 0)
      BY <2>2, <2>10
    <3>2. CASE i = n
      BY <3>1, <3>2, <1>3, <2>3, <2>6, <2>7
    <3>3. CASE i # n
      BY <3>1, <3>3, <2>3, <2>6
    <3> QED
      BY <3>2, <3>3
  <2>11. InOrder'
    BY <1>2, <1>6, <2>3, <2>7, <2>9, <2>10 DEF InOrder, r
  <2>12. Seen' = Seen
    <3>1. CASE n = 0
      BY <3>1, <1>3, <2>7, <2>8
    <3>2. CASE n # 0
      <4>1. 1 \in 1..n
        BY <3>2, <2>2
      <4> QED
        BY <4>1, <3>2, <2>3, <2>8
    <3> QED
      BY <3>1, <3>2
  <2> QED
    BY <1>4, <2>11, <2>12, BranchType
<1> QED
  BY <1>5, <1>6

(* What waits in the channel is lost with the connection. *)
LEMMA NotifsDropped ==
    ASSUME TypeInv, InOrder, notifs' = <<>>, head' = head
    PROVE  InOrder' /\ Seen' = head /\ Seen' \in Tipset /\ Seen \in Branch[Seen']
<1>1. Seen' = head /\ InOrder'
  BY DEF Seen, InOrder
<1> QED
  BY <1>1, SeenType DEF TypeInv, TypeOK

(* Seen only moves forward, and while a headChan is under way it stays. *)
LEMMA SeenMoves ==
    ASSUME TypeInv, Calm, InOrder, [Next]_vars
    PROVE  /\ InOrder' /\ Seen' \in Tipset /\ Seen \in Branch[Seen']
           /\ pc \in {"refresh", "store"} /\ pc' # "connect" => Seen' = Seen
<1>1. CASE notifs' = <<>> /\ head' = head /\ (pc \in {"refresh", "store"} => pc' = "connect")
  BY <1>1, NotifsDropped
<1>2. CASE UNCHANGED <<head, notifs>> /\ (pc' = "connect" => pc = "connect")
  <2>1. Seen' = Seen /\ InOrder'
    BY <1>2 DEF Seen, InOrder
  <2> QED
    BY <2>1, SeenType, BranchType DEF TypeInv
<1>3. CASE \E h \in Tipset : HeadChange(h)
  BY <1>3, HeadMoves
<1>4. CASE ProcessNewHead \/ SkipNewHead
  <2>1. notifs # <<>> /\ notifs' = Tail(notifs) /\ head' = head /\ pc = "listen" /\ pc' # "connect"
    BY <1>4 DEF ProcessNewHead, SkipNewHead
  <2> QED
    BY <2>1, TakeNotif
<1>5. CASE Connect \/ ConnectMisses \/ LookAncestorsPanics \/ RefreshFails \/ Disconnect \/ Crash
  <2>1. notifs' = <<>> /\ head' = head /\ (pc \in {"refresh", "store"} => pc' = "connect")
    BY <1>5 DEF Connect, ConnectMisses, LookAncestorsPanics, RefreshFails, Disconnect, Crash
  <2> QED
    BY <2>1, <1>1
<1>6. CASE DoRefresh \/ RefreshMisses \/ StoreTipset \/ StoreFails \/ SaveFails \/ UNCHANGED vars
  <2>1. UNCHANGED <<head, notifs>> /\ (pc' = "connect" => pc = "connect")
    BY <1>6 DEF DoRefresh, RefreshMisses, StoreTipset, StoreFails, SaveFails, vars
  <2> QED
    BY <2>1, <1>2
<1> QED
  BY <1>3, <1>4, <1>5, <1>6 DEF Next, Listener, Failure

-----------------------------------------------------------------------------
(* Behind a node that only moves forward, the file is never ahead of the table *)

Parents(q) == {Parent[t] : t \in Range(q)}

(* The cached tipsets are ancestors of the parent of Seen. *)
CacheBehind == cache \cup file \subseteq Branch[Parent[Seen]]

(* The headChan under way leads from Seen downwards and reverts nothing. *)
WorkForward ==
    pc \in {"refresh", "store"} =>
        /\ work.revert = <<>>
        /\ Linked(work.apply)
        /\ Range(work.apply) \subseteq Branch[Seen]
        /\ work.apply # <<>> => work.apply[1] = Seen

Marked(t) == \A m \in Includes[t] \ missed : rows[m].state # "Fill"

MarkedInv ==
    /\ \A t \in cache \cup file : Marked(t)
    /\ pc = "store" => \A t \in Parents(work.apply) : Marked(t)

ForwardInv == Calm => InOrder /\ CacheBehind /\ WorkForward /\ MarkedInv

(* Without a revert a message that is marked keeps its tipset. *)
LEMMA RowsForward ==
    ASSUME TypeInv, [Next]_vars, WorkForward
    PROVE  \A m \in Msg : rows[m].state # "Fill" => rows'[m] = rows[m]
<1>1. CASE DoRefresh \/ RefreshMisses
  <2>1. RevertMsgs = {}
    BY <1>1 DEF RevertMsgs, WorkForward, DoRefresh, RefreshMisses, Range
  <2>2. rows' = rows \/ \E kept, lost : rows' = UpdatedBut(kept, lost)
    BY <1>1 DEF DoRefresh, RefreshMisses, UpdateMessageState
  <2>3. \A kept, lost : \A m \in Msg : rows[m].state # "Fill" => UpdatedBut(kept, lost)[m] = rows[m]
    BY <2>1 DEF UpdatedBut
  <2> QED
    BY <2>2, <2>3
<1>2. CASE Connect \/ ConnectMisses
  BY <1>2 DEF Connect, ConnectMisses, AllFilledUpdated
<1>3. CASE rows' = rows
  BY <1>3
<1>4. CASE ProcessNewHead \/ StoreTipset \/ SkipNewHead \/ LookAncestorsPanics \/ RefreshFails
  BY <1>4, <1>3 DEF ProcessNewHead, StoreTipset, SkipNewHead, LookAncestorsPanics, RefreshFails
<1>5. CASE StoreFails \/ SaveFails \/ Disconnect \/ Crash \/ UNCHANGED vars \/ \E h \in Tipset : HeadChange(h)
  BY <1>5, <1>3 DEF StoreFails, SaveFails, Disconnect, Crash, vars, HeadChange
<1> QED
  BY <1>1, <1>2, <1>4, <1>5 DEF Next, Listener, Failure

(* What the cache is given are parents of the tipsets applied. *)
LEMMA ProcessedParents ==
    ASSUME TypeOK, work.apply # <<>>, Linked(work.apply)
    PROVE  Range(Processed) \subseteq Parents(work.apply)
<1> DEFINE q == work.apply
           n == Len(q)
<1>1. q \in Seq(Tipset) /\ q # <<>> /\ Linked(q) /\ Processed = IF n = 1 THEN <<Parent[q[1]]>> ELSE Tail(q)
  BY DEF TypeOK, Processed
<1>2. n \in Nat \ {0} /\ DOMAIN q = 1..n
  BY <1>1, EmptySeq
<1>3. DOMAIN Tail(q) = 1..n - 1 /\ \A i \in 1..n - 1 : Tail(q)[i] = q[i + 1]
  BY <1>1, <1>2
<1> HIDE DEF q, n
<1>4. CASE n = 1
  <2>1. Range(<<Parent[q[1]]>>) = {Parent[q[1]]} /\ 1 \in DOMAIN q
    BY <1>2, <1>4 DEF Range
  <2>2. q[1] \in Range(q)
    BY <2>1 DEF Range
  <2> QED
    BY <1>1, <1>4, <2>1, <2>2 DEF Parents, q
<1>5. CASE n # 1
  <2>1. \A i \in 1..n - 1 : i \in 1..n /\ i + 1 \in 1..n
    BY <1>2
  <2>2. \A i \in 1..n - 1 : Tail(q)[i] = Parent[q[i]]
    BY <1>1, <1>2, <1>3, <2>1 DEF Linked
  <2>3. \A i \in 1..n - 1 : q[i] \in Range(q)
    BY <1>2, <2>1 DEF Range
  <2>4. \A i \in 1..n - 1 : Tail(q)[i] \in Parents(q)
    BY <2>2, <2>3 DEF Parents
  <2>5. Range(Tail(q)) \subseteq Parents(q)
    BY <1>3, <2>4 DEF Range
  <2> QED
    BY <1>1, <1>5, <2>5 DEF q
<1> QED
  BY <1>4, <1>5

(* The cache after storeTipset. *)
LEMMA CacheGrows ==
    ASSUME TypeInv, WorkForward, [Next]_vars
    PROVE  cache' \cup file' \subseteq cache \cup file \cup (IF pc = "store" THEN Parents(work.apply) ELSE {})
<1>1. CASE StoreTipset \/ SaveFails
  <2> DEFINE new == Reduced(Added(cache, Processed), Height[Processed[1]])
  <2>1. pc = "store" /\ cache' = new /\ file' \in {new, file, {}}
    BY <1>1 DEF StoreTipset, SaveFails
  <2>2. Range(Processed) \subseteq Parents(work.apply)
    BY <2>1, ProcessedParents DEF TypeInv, WorkForward
  <2>3. new \subseteq cache \cup Range(Processed)
    BY DEF Reduced, Added
  <2> QED
    BY <2>1, <2>2, <2>3
<1>2. CASE cache' \cup file' \subseteq cache \cup file
  BY <1>2
<1>3. CASE \/ Connect \/ ProcessNewHead \/ DoRefresh \/ ConnectMisses \/ SkipNewHead \/ LookAncestorsPanics
           \/ RefreshMisses \/ RefreshFails
  <2>1. cache' \cup file' \subseteq cache \cup file
    BY <1>3 DEF Connect, ProcessNewHead, DoRefresh, ConnectMisses, SkipNewHead, LookAncestorsPanics, RefreshMisses,
                RefreshFails
  <2> QED
    BY <2>1, <1>2
<1>4. CASE StoreFails \/ Disconnect \/ Crash \/ UNCHANGED vars \/ \E h \in Tipset : HeadChange(h)
  <2>1. cache' \cup file' \subseteq cache \cup file
    BY <1>4 DEF StoreFails, Disconnect, Crash, vars, HeadChange
  <2> QED
    BY <2>1, <1>2
<1> QED
  BY <1>1, <1>3, <1>4 DEF Next, Listener, Failure

LEMMA ForwardInit == Init => ForwardInv
<1> SUFFICES ASSUME Init PROVE ForwardInv
  OBVIOUS
<1>1. notifs = <<>> /\ pc = "connect" /\ head = Genesis /\ cache \cup file \subseteq {Genesis}
  BY DEF Init
<1>2. InOrder /\ Seen = Genesis
  BY <1>1 DEF InOrder, Seen
<1>3. Genesis \in Branch[Parent[Genesis]] /\ Includes[Genesis] = {}
  BY TreeAssumption, BranchType
<1> QED
  BY <1>1, <1>2, <1>3 DEF ForwardInv, CacheBehind, WorkForward, MarkedInv, Marked

LEMMA ForwardNext == TypeInv /\ ForwardInv /\ [Next]_vars => ForwardInv'
<1> SUFFICES ASSUME TypeInv, ForwardInv, [Next]_vars, Calm' PROVE (InOrder /\ CacheBehind /\ WorkForward /\ MarkedInv)'
  BY DEF ForwardInv
<1>1. Calm /\ InOrder /\ CacheBehind /\ WorkForward /\ MarkedInv /\ TypeOK
  BY FeaturesKept DEF Calm, ForwardInv, TypeInv
<1>2. InOrder' /\ Seen' \in Tipset /\ Seen \in Branch[Seen'] /\ (pc \in {"refresh", "store"} /\ pc' # "connect" => Seen' = Seen)
  BY <1>1, SeenMoves
<1>3. Branch[Parent[Seen]] \subseteq Branch[Parent[Seen']] /\ Seen \in Tipset
  BY <1>1, <1>2, ParentBranch, SeenType
<1>4. cache' \cup file' \subseteq cache \cup file \cup (IF pc = "store" THEN Parents(work.apply) ELSE {})
  BY <1>1, CacheGrows
<1>5. CacheBehind'
  <2>1. pc = "store" => Parents(work.apply) \subseteq Branch[Parent[Seen]]
    BY <1>1, <1>3, ParentBranch DEF Parents, WorkForward
  <2> QED
    BY <1>1, <1>3, <1>4, <2>1 DEF CacheBehind
<1>6. WorkForward'
  <2> DEFINE Forward(w, h) ==
        /\ w.revert = <<>> /\ Linked(w.apply) /\ Range(w.apply) \subseteq Branch[h]
        /\ w.apply # <<>> => w.apply[1] = h
  <2>1. SUFFICES ASSUME pc' \in {"refresh", "store"} PROVE Forward(work', Seen')
    BY DEF WorkForward
  <2>2. ASSUME NEW h \in Tipset, Seen \in Branch[h], cache # {} PROVE Forward(GapWork(h), h)
    <3>1. cache \subseteq Branch[h]
      <4>1. Branch[Parent[Seen]] \subseteq Branch[Seen] /\ Branch[Seen] \subseteq Branch[h]
        BY <1>3, <2>2, BranchClosed, BranchType
      <4> QED
        BY <4>1, <1>1 DEF CacheBehind
    <3> QED
      BY <1>1, <2>2, <3>1, ForwardGapWork
  <2>3. CASE UNCHANGED work /\ pc \in {"refresh", "store"}
    BY <1>1, <1>2, <2>1, <2>3 DEF WorkForward
  <2>4. CASE Connect
    <3>1. ~NoUsableCache /\ work' = GapWork(head) /\ notifs' = <<>> /\ head' = head
      BY <2>1, <2>4 DEF Connect
    <3>2. Seen' = head /\ cache # {}
      BY <1>1, <3>1, NotifsDropped DEF NoUsableCache
    <3> QED
      BY <1>2, <2>2, <3>1, <3>2
  <2>5. CASE ProcessNewHead
    <3> DEFINE h == Last(Head(notifs))
    <3>1. notifs # <<>> /\ notifs' = Tail(notifs) /\ head' = head /\ pc' # "connect" /\ pc = "listen"
      BY <2>5 DEF ProcessNewHead
    <3>2. Seen' = h /\ Head(notifs) = <<h>> /\ h \in Tipset
      BY <1>1, <3>1, TakeNotif
    <3>3. \/ work' = [apply |-> Head(notifs), revert |-> <<>>]
          \/ work' = GapWork(h) /\ cache # {}
      BY <2>1, <2>5, <3>1 DEF ProcessNewHead
    <3> HIDE DEF h
    <3>4. CASE work' = [apply |-> Head(notifs), revert |-> <<>>]
      <4>1. work'.apply = <<h>> /\ work'.revert = <<>>
        BY <3>2, <3>4
      <4>2. Linked(<<h>>) /\ Range(<<h>>) = {h} /\ <<h>>[1] = h
        BY DEF Linked, Range
      <4> QED
        BY <3>2, <4>1, <4>2, BranchType
    <3>5. CASE work' = GapWork(h) /\ cache # {}
      BY <1>2, <2>2, <3>2, <3>5
    <3> QED
      BY <3>3, <3>4, <3>5
  <2>6. CASE DoRefresh \/ RefreshMisses
    BY <2>1, <2>3, <2>6 DEF DoRefresh, RefreshMisses
  <2>7. CASE \E h \in Tipset : HeadChange(h)
    BY <2>1, <2>3, <2>7 DEF HeadChange
  <2>8. CASE UNCHANGED vars
    BY <2>1, <2>3, <2>8 DEF vars
  <2>9. ~(StoreTipset \/ ConnectMisses \/ SkipNewHead \/ LookAncestorsPanics \/ RefreshFails)
    BY <2>1 DEF StoreTipset, ConnectMisses, SkipNewHead, LookAncestorsPanics, RefreshFails
  <2>10. ~(StoreFails \/ SaveFails \/ Disconnect \/ Crash)
    BY <2>1 DEF StoreFails, SaveFails, Disconnect, Crash
  <2> QED
    BY <2>4, <2>5, <2>6, <2>7, <2>8, <2>9, <2>10 DEF Next, Listener, Failure
<1>7. MarkedInv'
  <2>1. ASSUME NEW t \in Tipset, Marked(t) PROVE Marked(t)'
    BY <1>1, <2>1, RowsForward, MissedGrows, TreeAssumption DEF Marked
  <2>2. cache \cup file \subseteq Tipset /\ Parents(work.apply) \subseteq Tipset
    BY TreeAssumption DEF TypeInv, TypeOK, Parents, Range
  <2>3. \A t \in cache' \cup file' : Marked(t)'
    BY <1>1, <1>4, <2>1, <2>2 DEF MarkedInv
  <2>4. ASSUME pc' = "store" PROVE \A t \in Parents(work'.apply) : Marked(t)'
    <3>1. CASE DoRefresh \/ RefreshMisses
      <4>1. work' = work /\ \A m \in Msg \ missed' : rows'[m] = UpdateMessageState[m]
        BY <2>4, <3>1 DEF DoRefresh, RefreshMisses
      <4>2. ASSUME NEW t \in Parents(work.apply), NEW m \in Includes[t] \ missed' PROVE rows'[m].state # "Fill"
        <5>1. m \in Msg /\ t \in {u \in Parents(work.apply) : m \in Includes[u]}
          BY <2>2, TreeAssumption
        <5>2. UpdateMessageState[m].state # "Fill"
          BY <5>1 DEF UpdateMessageState, UpdatedBut, Parents
        <5> QED
          BY <4>1, <5>1, <5>2
      <4> QED
        BY <4>1, <4>2 DEF Marked
    <3>2. CASE pc = "store" /\ work' = work
      BY <1>1, <2>1, <2>2, <3>2 DEF MarkedInv
    <3>3. ~(Connect \/ ProcessNewHead \/ StoreTipset \/ ConnectMisses \/ SkipNewHead \/ LookAncestorsPanics \/ RefreshFails)
      BY <2>4 DEF Connect, ProcessNewHead, StoreTipset, ConnectMisses, SkipNewHead, LookAncestorsPanics, RefreshFails
    <3>4. ~(StoreFails \/ SaveFails \/ Disconnect \/ Crash)
      BY <2>4 DEF StoreFails, SaveFails, Disconnect, Crash
    <3>5. UNCHANGED vars \/ (\E h \in Tipset : HeadChange(h)) => pc = "store" /\ work' = work
      BY <2>4 DEF vars, HeadChange
    <3> QED
      BY <3>1, <3>2, <3>3, <3>4, <3>5 DEF Next, Listener, Failure
  <2> QED
    BY <2>3, <2>4 DEF MarkedInv
<1> QED
  BY <1>2, <1>5, <1>6, <1>7

(* Behind a node that only moves forward, one tipset at a time, every tipset in the cache file has
   its messages marked, but for those whose own query failed: after a crash, a lost connection, a
   failed refresh, query, lookup or save, the file the messager starts again with never claims work
   that the table has not seen.  The hypothesis leaves out head changes of several tipsets without
   reorgs: the first of those, taken without a cache, is in ascending order and storeTipset stores
   the head itself.  (With reorgs the property claims nothing.) *)
THEOREM FileNeverAhead ==
    ASSUME \A F \in FeatureSets : "batch" \in F => F \cap {"reorg", "levelReorg"} # {}
    PROVE  Spec => []FileIsApplied
<1>1. TypeInv /\ ForwardInv => FileIsApplied
  <2> SUFFICES ASSUME TypeInv, ForwardInv, features \cap {"reorg", "levelReorg"} = {} PROVE \A t \in file : Marked(t)
    BY DEF FileIsApplied, Marked
  <2>1. Calm
    BY DEF Calm, TypeInv, TypeOK
  <2> QED
    BY <2>1 DEF ForwardInv, MarkedInv
<1> QED
  BY <1>1, TypeInit, TypeNext, ForwardInit, ForwardNext, PTL DEF Spec

-----------------------------------------------------------------------------
(* Behind a node that only moves forward and answers, no tipset is missed *)

(* A chain has one message for a sender's nonce. *)
OneMessagePerNonce ==
    \A x \in Tipset : \A s, t \in Branch[x] :
        /\ Includes[s] \cap Includes[t] # {} => s = t
        /\ Includes[s] \cap Rivals[t] = {}

ForwardOnly == \A F \in FeatureSets : F \cap {"reorg", "levelReorg", "batch", "lookupError"} = {}

Done(t) ==
    /\ \A m \in Includes[t] \ missed : rows[m] = [state |-> "OnChain", ts |-> t]
    /\ \A m \in Rivals[t] \ missed : rows[m].state = "NonceConflict"

AllDone(t) == \A s \in Branch[t] : Done(s)

(* The same after a step. *)
DoneNext(t) ==
    /\ \A m \in Includes[t] \ missed' : rows'[m] = [state |-> "OnChain", ts |-> t]
    /\ \A m \in Rivals[t] \ missed' : rows'[m].state = "NonceConflict"

AllDoneNext(t) == \A s \in Branch[t] : DoneNext(s)

(* The marks are right. *)
RowsOnChain ==
    \A m \in Msg \ missed :
        /\ rows[m].state = "OnChain" => rows[m].ts \in Branch[Parent[head]] /\ m \in Includes[rows[m].ts]
        /\ rows[m].state = "NonceConflict" => rows[m].ts \in Branch[Parent[head]] /\ m \in Rivals[rows[m].ts]

(* All that is behind a cached tipset, and behind the tipset the listener saw last, is marked, or
   about to be. *)
SettleInv ==
    /\ RowsOnChain
    /\ \A t \in cache \cup file : AllDone(t)
    /\ pc \in {"listen", "store"} => AllDone(Parent[Seen])
    /\ pc = "refresh" => \A s \in Branch[Parent[Seen]] : Done(s) \/ s \in Parents(work.apply)

(* A walk that is not cut off leaves nothing out between the head and the highest cached tipset, and
   one that goes on below the parent of the head applies the head. *)
LEMMA GapCovers ==
    ASSUME TypeOK, NEW h \in Tipset, cache # {}, cache \subseteq Branch[Parent[h]], ~UpToDate(h), LookBackLimit >= 1
    PROVE  /\ h \in Range(GapWork(h).apply)
           /\ Height[h] < Height[CacheTop] + LookBackLimit
                => Branch[Parent[h]] \subseteq Parents(GapWork(h).apply) \cup Branch[CacheTop]
<1> DEFINE local == Descending(cache)
           top == local[1]
           end == Walk(local, h)[LookBackLimit + 1]
           gap == end.gap
           n == Len(gap)
<1>0. CacheTop = top
  BY DEF CacheTop
<1>1. Distinct(cache) /\ local \in Seq(Tipset) /\ cache \in SUBSET Tipset
  BY CacheDescending DEF TypeOK
<1>2. Len(local) >= 1 /\ top \in cache
  BY <1>1, DescendingTop
<1>3. top \in Branch[h] /\ top \in Branch[Parent[h]] /\ Parent[h] \in Tipset /\ top \in Tipset /\ Parent[h] # top
  BY <1>0, <1>1, <1>2, BranchUnfold, TreeAssumption DEF UpToDate
<1>4. LookBackLimit + 1 \in 0 .. LookBackLimit + 1 /\ LookBackLimit \in Nat
  BY TreeAssumption
<1>5. OnWay(h, top, end) /\ end \in WalkState(local) /\ (end.ts = top \/ n = LookBackLimit + 1)
  <2> HIDE DEF local
  <2> QED
    BY <1>1, <1>2, <1>3, <1>4, ForwardWalk, WalkType
<1>6. GapWork(h).apply = IF gap = <<>> THEN <<>> ELSE Front(gap)
  BY DEF GapWork, LookAncestors
<1> HIDE DEF end, local, top
<1>7. /\ gap \in Seq(Tipset) /\ Linked(gap) /\ Branch[h] = Range(gap) \cup Branch[end.ts]
      /\ (gap = <<>> => end.ts = h) /\ (gap # <<>> => gap[1] = h /\ end.ts = Parent[gap[n]])
      /\ Height[h] >= Height[end.ts] + n /\ end.ts \in Tipset /\ top \in Branch[end.ts]
  BY <1>5 DEF OnWay, WalkState
<1>8. n \in Nat /\ DOMAIN gap = 1..n /\ (gap = <<>> <=> n = 0)
  BY <1>7, EmptySeq
<1> HIDE DEF gap
<1>9. gap # <<>> => DOMAIN Front(gap) = 1..n - 1 /\ \A i \in 1..n - 1 : Front(gap)[i] = gap[i]
  BY <1>7, FrontFacts
<1> HIDE DEF n
<1>10. n >= 2
  <2>1. CASE n = LookBackLimit + 1
    BY <2>1, <1>4
  <2>2. CASE end.ts = top
    <3>1. n # 0
      <4> SUFFICES ASSUME n = 0 PROVE FALSE
        OBVIOUS
      <4>1. h = top
        BY <2>2, <1>7, <1>8
      <4>2. Parent[h] \in Branch[h] /\ h \in Branch[Parent[h]]
        BY <4>1, <1>3, BranchType, BranchClosed
      <4>3. Parent[h] = h
        BY <4>2, <1>3, BranchLower
      <4> QED
        BY <4>1, <4>3, <1>3
    <3>2. n # 1
      BY <2>2, <1>3, <1>7, <1>8
    <3> QED
      BY <3>1, <3>2, <1>8
  <2> QED
    BY <2>1, <2>2, <1>5
<1>11. 1 \in 1..n - 1 /\ gap # <<>>
  BY <1>8, <1>10
<1> DEFINE q == Front(gap)
<1>12. GapWork(h).apply = q /\ DOMAIN q = 1..n - 1 /\ \A i \in 1..n - 1 : q[i] = gap[i]
  BY <1>6, <1>9, <1>11
<1> HIDE DEF q
<1>13. h \in Range(q)
  BY <1>7, <1>11, <1>12 DEF Range
<1>14. ASSUME Height[h] < Height[top] + LookBackLimit, NEW s \in Branch[Parent[h]]
       PROVE  s \in Parents(q) \cup Branch[top]
  <2>1. end.ts = top
    <3> DEFINE a == Height[top]
               b == Height[end.ts]
               c == Height[h]
    <3>0. a \in Nat /\ b \in Nat /\ c \in Nat
      BY <1>3, <1>7, TreeAssumption
    <3>1. a = b \/ a < b
      BY <1>7, BranchLower
    <3>2. c >= b + n /\ c < a + LookBackLimit
      BY <1>7, <1>14
    <3> HIDE DEF a, b, c
    <3>3. ~(n = LookBackLimit + 1)
      BY <3>0, <3>1, <3>2, <1>4
    <3> QED
      BY <3>3, <1>5
  <2>2. s \in Range(gap) \cup Branch[top]
    BY <2>1, <1>3, <1>7, BranchUnfold
  <2>3. ASSUME NEW i \in 1..n, s = gap[i], i # 1 PROVE s \in Parents(q)
    <3>1. i - 1 \in 1..n - 1 /\ i - 1 \in 1..n /\ (i - 1) + 1 = i
      BY <2>3, <1>8
    <3>2. gap[(i - 1) + 1] = Parent[gap[i - 1]]
      BY <3>1, <1>7, <1>8 DEF Linked
    <3>3. s = Parent[q[i - 1]]
      BY <3>1, <3>2, <2>3, <1>12
    <3>4. q[i - 1] \in Range(q)
      BY <3>1, <1>12 DEF Range
    <3> QED
      BY <3>3, <3>4 DEF Parents
  <2>4. ASSUME s = h PROVE FALSE
    <3>1. Parent[h] \in Branch[h] /\ h \in Branch[Parent[h]]
      BY <2>4, BranchType, BranchClosed
    <3>2. Parent[h] = h
      BY <3>1, <1>3, BranchLower
    <3>3. h = Genesis
      BY <3>2, TreeAssumption
    <3> QED
      BY <3>2, <3>3, <1>3, GenesisAlone
  <2> QED
    BY <2>2, <2>3, <2>4, <1>7, <1>8, <1>11 DEF Range
<1> QED
  BY <1>0, <1>12, <1>13, <1>14

LEMMA DoneStays ==
    ASSUME TypeInv, WorkForward, [Next]_vars, NEW t \in Tipset
    PROVE  (Done(t) => DoneNext(t)) /\ (AllDone(t) => AllDoneNext(t))
<1>1. ASSUME NEW s \in Tipset, Done(s) PROVE DoneNext(s)
  <2>1. ASSUME NEW m \in Msg, rows[m].state # "Fill" PROVE rows'[m] = rows[m]
    BY <2>1, RowsForward
  <2>2. ASSUME NEW m \in Includes[s] \ missed' PROVE rows'[m] = [state |-> "OnChain", ts |-> s]
    <3>1. m \in Msg /\ rows[m] = [state |-> "OnChain", ts |-> s]
      BY <1>1, MissedGrows, TreeAssumption DEF Done
    <3> QED
      BY <2>1, <3>1
  <2>3. ASSUME NEW m \in Rivals[s] \ missed' PROVE rows'[m].state = "NonceConflict"
    <3>1. m \in Msg /\ rows[m].state = "NonceConflict"
      BY <1>1, MissedGrows, TreeAssumption DEF Done
    <3> QED
      BY <2>1, <3>1
  <2> QED
    BY <2>2, <2>3 DEF DoneNext
<1>2. Branch[t] \subseteq Tipset
  BY BranchType
<1> QED
  BY <1>1, <1>2 DEF AllDone, AllDoneNext

(* A message of the chain that is not filled any more is marked at the tipset that contains it, one
   whose nonce was taken is marked as that. *)
LEMMA MarkedIsDone ==
    ASSUME TypeInv, RowsOnChain, OneMessagePerNonce, NEW s \in Branch[Parent[head]], NEW m \in Msg \ missed,
           rows[m].state # "Fill"
    PROVE  /\ m \in Includes[s] => rows[m] = [state |-> "OnChain", ts |-> s]
           /\ m \in Rivals[s] => rows[m].state = "NonceConflict"
<1>1. head \in Tipset /\ Parent[head] \in Tipset /\ s \in Tipset
  BY BranchType, TreeAssumption DEF TypeInv, TypeOK
<1>2. rows[m] \in Row
  BY DEF TypeInv, TypeOK
<1>3. rows[m].state = "OnChain" \/ rows[m].state = "NonceConflict"
  BY <1>2 DEF Row
<1>4. ASSUME m \in Includes[s] PROVE rows[m] = [state |-> "OnChain", ts |-> s]
  <2>1. rows[m].state # "NonceConflict"
    BY <1>1, <1>4 DEF RowsOnChain, OneMessagePerNonce
  <2>2. rows[m].state = "OnChain"
    BY <1>3, <2>1
  <2>3. rows[m].ts = s
    BY <1>1, <1>4, <2>2 DEF RowsOnChain, OneMessagePerNonce
  <2> QED
    BY <1>2, <2>2, <2>3 DEF Row
<1>5. ASSUME m \in Rivals[s] PROVE rows[m].state = "NonceConflict"
  <2>1. rows[m].state # "OnChain"
    BY <1>1, <1>5 DEF RowsOnChain, OneMessagePerNonce
  <2> QED
    BY <1>3, <2>1
<1> QED
  BY <1>4, <1>5

(* updateMessageState with tipsets of the chain. *)
LEMMA UpdateDone ==
    ASSUME TypeInv, RowsOnChain, OneMessagePerNonce, work.revert = <<>>,
           Parents(work.apply) \subseteq Branch[Parent[head]], missed \subseteq missed',
           \A m \in Msg \ missed' : rows'[m] = UpdateMessageState[m], head' = head
    PROVE  RowsOnChain' /\ \A s \in Parents(work.apply) : DoneNext(s)
<1> DEFINE At(m, R) == {t \in Parents(work.apply) : m \in R[t]}
<1>1. RevertMsgs = {}
  BY DEF RevertMsgs, Range
<1>2. ASSUME NEW m \in Msg \ missed'
      PROVE  rows'[m] = IF rows[m].state # "Fill" THEN rows[m]
                        ELSE IF At(m, Includes) # {} THEN [state |-> "OnChain", ts |-> CHOOSE t \in At(m, Includes) : TRUE]
                        ELSE IF At(m, Rivals) # {} THEN [state |-> "NonceConflict", ts |-> CHOOSE t \in At(m, Rivals) : TRUE]
                        ELSE Filled
  <2>1. \A R : At(m, R) = {t \in {Parent[t] : t \in Range(work.apply)} : m \in R[t] \ {}}
    BY DEF Parents
  <2>2. rows'[m] = UpdateMessageState[m]
    OBVIOUS
  <2> HIDE DEF At
  <2> QED
    BY <1>1, <2>1, <2>2 DEF UpdateMessageState, UpdatedBut
<1>3. ASSUME NEW m, NEW R, At(m, R) # {}
      PROVE  LET t == CHOOSE u \in At(m, R) : TRUE IN t \in Branch[Parent[head]] /\ m \in R[t]
  <2>1. (CHOOSE u \in At(m, R) : TRUE) \in At(m, R)
    BY <1>3
  <2> QED
    BY <2>1
<1>4. ASSUME NEW m \in Msg \ missed'
      PROVE  /\ rows'[m].state = "OnChain" => rows'[m].ts \in Branch[Parent[head]] /\ m \in Includes[rows'[m].ts]
             /\ rows'[m].state = "NonceConflict" => rows'[m].ts \in Branch[Parent[head]] /\ m \in Rivals[rows'[m].ts]
  <2>1. CASE rows[m].state # "Fill"
    BY <2>1, <1>2 DEF RowsOnChain
  <2>2. CASE rows[m].state = "Fill" /\ At(m, Includes) # {}
    <3> DEFINE t == CHOOSE u \in At(m, Includes) : TRUE
    <3>1. rows'[m] = [state |-> "OnChain", ts |-> t]
      BY <2>2, <1>2
    <3>2. t \in Branch[Parent[head]] /\ m \in Includes[t]
      BY <2>2, <1>3
    <3> HIDE DEF t
    <3> QED
      BY <3>1, <3>2
  <2>3. CASE rows[m].state = "Fill" /\ At(m, Includes) = {} /\ At(m, Rivals) # {}
    <3> DEFINE t == CHOOSE u \in At(m, Rivals) : TRUE
    <3>1. rows'[m] = [state |-> "NonceConflict", ts |-> t]
      BY <2>3, <1>2
    <3>2. t \in Branch[Parent[head]] /\ m \in Rivals[t]
      BY <2>3, <1>3
    <3> HIDE DEF t
    <3> QED
      BY <3>1, <3>2
  <2>4. CASE rows[m].state = "Fill" /\ At(m, Includes) = {} /\ At(m, Rivals) = {}
    <3>1. rows'[m] = Filled
      BY <2>4, <1>2
    <3> QED
      BY <3>1 DEF Filled
  <2> QED
    BY <2>1, <2>2, <2>3, <2>4
<1>5. ASSUME NEW s \in Parents(work.apply)
      PROVE  s \in Branch[Parent[head]] /\ Parent[head] \in Tipset /\ s \in Tipset
  BY BranchType, TreeAssumption DEF TypeInv, TypeOK
<1>6. ASSUME NEW s \in Parents(work.apply), NEW m \in Includes[s] \ missed'
      PROVE  rows'[m] = [state |-> "OnChain", ts |-> s]
  <2>1. s \in Branch[Parent[head]] /\ Parent[head] \in Tipset /\ s \in Tipset
    BY <1>5
  <2>2. m \in Msg \ missed' /\ s \in At(m, Includes)
    BY <2>1, TreeAssumption
  <2>3. CASE rows[m].state # "Fill"
    BY <2>1, <2>2, <2>3, <1>2, MarkedIsDone
  <2>4. CASE rows[m].state = "Fill"
    <3> DEFINE t == CHOOSE u \in At(m, Includes) : TRUE
    <3>1. rows'[m] = [state |-> "OnChain", ts |-> t]
      BY <2>2, <2>4, <1>2
    <3>2. t \in Branch[Parent[head]] /\ m \in Includes[t]
      BY <2>2, <1>3
    <3> HIDE DEF t
    <3>3. t = s
      BY <2>1, <3>2 DEF OneMessagePerNonce
    <3> QED
      BY <3>1, <3>3
  <2> QED
    BY <2>3, <2>4
<1>7. ASSUME NEW s \in Parents(work.apply), NEW m \in Rivals[s] \ missed'
      PROVE  rows'[m].state = "NonceConflict"
  <2>1. s \in Branch[Parent[head]] /\ Parent[head] \in Tipset /\ s \in Tipset
    BY <1>5
  <2>2. m \in Msg \ missed' /\ s \in At(m, Rivals)
    BY <2>1, TreeAssumption
  <2>3. CASE rows[m].state # "Fill"
    <3>1. m \in Msg \ missed /\ m \in Rivals[s]
      BY <2>2
    <3>2. rows[m].state = "NonceConflict"
      BY <2>1, <2>3, <3>1, MarkedIsDone
    <3>3. rows'[m] = rows[m]
      BY <2>2, <2>3, <1>2
    <3> QED
      BY <3>2, <3>3
  <2>4. CASE rows[m].state = "Fill"
    <3> DEFINE t == CHOOSE u \in At(m, Rivals) : TRUE
    <3>1. At(m, Includes) = {}
      <4>1. ASSUME NEW u \in At(m, Includes) PROVE FALSE
        <5>1. u \in Branch[Parent[head]] /\ m \in Includes[u]
          OBVIOUS
        <5> QED
          BY <5>1, <2>1, <2>2 DEF OneMessagePerNonce
      <4> QED
        BY <4>1
    <3>2. rows'[m] = [state |-> "NonceConflict", ts |-> t]
      BY <2>2, <2>4, <3>1, <1>2
    <3> HIDE DEF t
    <3> QED
      BY <3>2
  <2> QED
    BY <2>3, <2>4
<1>8. RowsOnChain'
  BY <1>4 DEF RowsOnChain
<1> QED
  BY <1>6, <1>7, <1>8 DEF DoneNext

(* UpdateAllFilledMessage looks through the whole chain. *)
LEMMA AllFilledDone ==
    ASSUME TypeInv, RowsOnChain, OneMessagePerNonce, head' = head,
           missed \cup LostNonces \subseteq missed', \A m \in Msg \ missed' : rows'[m] = AllFilledUpdated[m]
    PROVE  RowsOnChain' /\ AllDoneNext(Parent[head])
<1>0. Parent[head] \in Tipset
  BY TreeAssumption DEF TypeInv, TypeOK
<1> DEFINE B == Branch[Parent[head]]
<1>1. ASSUME NEW m \in Msg \ missed'
      PROVE  \/ rows'[m] = rows[m] /\ ~(rows[m].state = "Fill" /\ \E t \in B : m \in Includes[t])
             \/ rows[m].state = "Fill" /\ \E t \in B : m \in Includes[t] /\ rows'[m] = [state |-> "OnChain", ts |-> t]
  <2> DEFINE t == CHOOSE u \in FoundAt(m) : TRUE
  <2>1. CASE rows[m].state = "Fill" /\ FoundAt(m) # {}
    <3>1. t \in FoundAt(m)
      BY <2>1
    <3>2. rows'[m] = [state |-> "OnChain", ts |-> t]
      BY <2>1 DEF AllFilledUpdated
    <3> HIDE DEF t
    <3>3. t \in B /\ (m \in Includes[t] \/ m \in Rivals[t])
      BY <3>1 DEF FoundAt
    <3>4. m \in Includes[t]
      BY <2>1, <3>3 DEF LostNonces
    <3> QED
      BY <2>1, <3>2, <3>3, <3>4
  <2>2. CASE ~(rows[m].state = "Fill" /\ FoundAt(m) # {})
    <3>1. ~(rows[m].state = "Fill" /\ \E u \in B : m \in Includes[u])
      BY <2>2 DEF FoundAt
    <3> QED
      BY <2>2, <3>1 DEF AllFilledUpdated
  <2> QED
    BY <2>1, <2>2
<1>2. ASSUME NEW m \in Msg \ missed'
      PROVE  /\ rows'[m].state = "OnChain" => rows'[m].ts \in B /\ m \in Includes[rows'[m].ts]
             /\ rows'[m].state = "NonceConflict" => rows'[m].ts \in B /\ m \in Rivals[rows'[m].ts]
  <2>1. CASE rows'[m] = rows[m]
    BY <2>1 DEF RowsOnChain
  <2>2. CASE \E t \in B : m \in Includes[t] /\ rows'[m] = [state |-> "OnChain", ts |-> t]
    <3>1. PICK t \in B : m \in Includes[t] /\ rows'[m] = [state |-> "OnChain", ts |-> t]
      BY <2>2
    <3> QED
      BY <3>1
  <2> QED
    BY <2>1, <2>2, <1>1
<1>3. ASSUME NEW s \in B, NEW m \in Includes[s] \ missed' PROVE rows'[m] = [state |-> "OnChain", ts |-> s]
  <2>1. s \in Tipset /\ m \in Msg \ missed'
    BY <1>0, BranchType, TreeAssumption
  <2>2. CASE rows[m].state # "Fill"
    BY <2>1, <2>2, <1>1, MarkedIsDone
  <2>3. CASE rows[m].state = "Fill"
    <3>1. PICK t \in B : m \in Includes[t] /\ rows'[m] = [state |-> "OnChain", ts |-> t]
      BY <2>1, <2>3, <1>1
    <3>2. t = s
      BY <1>0, <2>1, <3>1 DEF OneMessagePerNonce
    <3> QED
      BY <3>1, <3>2
  <2> QED
    BY <2>2, <2>3
<1>4. ASSUME NEW s \in B, NEW m \in Rivals[s] \ missed' PROVE rows'[m].state = "NonceConflict"
  <2>1. s \in Tipset /\ m \in Msg \ missed'
    BY <1>0, BranchType, TreeAssumption
  <2>2. rows[m].state # "Fill"
    BY <2>1 DEF LostNonces
  <2>3. rows[m].state = "NonceConflict"
    BY <2>1, <2>2, MarkedIsDone
  <2> QED
    BY <2>1, <2>2, <2>3, <1>1
<1>5. RowsOnChain'
  BY <1>2 DEF RowsOnChain
<1> QED
  BY <1>3, <1>4, <1>5 DEF AllDoneNext, DoneNext

LEMMA SettleInit == Init => SettleInv
<1> SUFFICES ASSUME Init PROVE SettleInv
  OBVIOUS
<1>1. pc = "connect" /\ cache \cup file \subseteq {Genesis} /\ \A m \in Msg : rows[m] = Filled
  BY DEF Init
<1>2. RowsOnChain
  BY <1>1 DEF RowsOnChain, Filled
<1>3. AllDone(Genesis)
  BY GenesisAlone, TreeAssumption DEF AllDone, Done
<1> QED
  BY <1>1, <1>2, <1>3 DEF SettleInv

(* With a node that answers, only these steps are left. *)
LEMMA ForwardSteps ==
    ASSUME ForwardOnly, TypeInv, [Next]_vars
    PROVE  /\ Calm
           /\ \/ Connect \/ ProcessNewHead \/ DoRefresh \/ StoreTipset \/ StoreFails \/ SaveFails
              \/ ConnectMisses \/ RefreshMisses \/ RefreshFails \/ Disconnect \/ Crash
              \/ \E h \in Tipset : HeadChange(h)
              \/ UNCHANGED vars
<1>1. features \cap {"reorg", "levelReorg", "batch", "lookupError"} = {}
  BY DEF ForwardOnly, TypeInv, TypeOK
<1>2. ~(SkipNewHead \/ LookAncestorsPanics)
  BY <1>1 DEF SkipNewHead, LookAncestorsPanics, LookAncestorsFails, Fault
<1> QED
  BY <1>1, <1>2 DEF Calm, Next, Listener, Failure

LEMMA SettleNext ==
    ASSUME ForwardOnly, OneMessagePerNonce, LookBackLimit >= 1
    PROVE  TypeInv /\ ForwardInv /\ SettleInv /\ [Next]_vars => SettleInv'
<1> SUFFICES ASSUME TypeInv, ForwardInv, SettleInv, [Next]_vars PROVE SettleInv'
  OBVIOUS
<1>1. Calm /\ InOrder /\ CacheBehind /\ WorkForward /\ TypeOK
  BY ForwardSteps DEF ForwardInv, TypeInv
<1>2. /\ InOrder' /\ Seen' \in Tipset /\ Seen \in Branch[Seen']
      /\ pc \in {"refresh", "store"} /\ pc' # "connect" => Seen' = Seen
  BY <1>1, SeenMoves
<1>3. /\ Seen \in Tipset /\ Seen \in Branch[head] /\ Parent[Seen] \in Tipset /\ head \in Tipset
      /\ Branch[Parent[Seen]] \subseteq Branch[Parent[head]] /\ Parent[head] \in Tipset
  BY <1>1, SeenType, ParentBranch, TreeAssumption DEF TypeOK
<1>4. \A t \in Tipset : (Done(t) => DoneNext(t)) /\ (AllDone(t) => AllDoneNext(t))
  BY <1>1, DoneStays
<1>5. RowsOnChain /\ (\A t \in cache \cup file : AllDone(t)) /\ cache \cup file \subseteq Tipset
  BY <1>1 DEF SettleInv, TypeOK
<1>6. pc \in {"refresh", "store"} => Parents(work.apply) \subseteq Branch[Parent[Seen]]
  BY <1>1, <1>3, ParentBranch DEF Parents, WorkForward
<1>7. \A t \in cache' \cup file' : AllDoneNext(t)
  <2>1. cache' \cup file' \subseteq cache \cup file \cup (IF pc = "store" THEN Parents(work.apply) ELSE {})
    BY <1>1, CacheGrows
  <2>2. ASSUME pc = "store", NEW t \in Parents(work.apply) PROVE t \in Tipset /\ AllDone(t)
    <3>1. t \in Branch[Parent[Seen]] /\ AllDone(Parent[Seen])
      BY <1>6, <2>2 DEF SettleInv
    <3>2. t \in Tipset /\ Branch[t] \subseteq Branch[Parent[Seen]]
      BY <1>3, <3>1, BranchClosed
    <3> QED
      BY <3>1, <3>2 DEF AllDone
  <2> QED
    BY <1>4, <1>5, <2>1, <2>2
<1>8. cache # {} => CacheTop \in cache /\ AllDone(CacheTop)
  <2>1. Distinct(cache) /\ cache \in SUBSET Tipset
    BY <1>1, CacheDescending DEF TypeOK
  <2> QED
    BY <2>1, <1>5, DescendingTop DEF CacheTop
<1> DEFINE Marks == /\ RowsOnChain'
                    /\ pc' \in {"listen", "store"} => AllDoneNext(Parent[Seen'])
                    /\ pc' = "refresh" => \A s \in Branch[Parent[Seen']] : DoneNext(s) \/ s \in Parents(work'.apply)
<1>9. SUFFICES Marks
  BY <1>7 DEF SettleInv, AllDone, Done, AllDoneNext, DoneNext
<1>10. rows' = rows /\ head' = head => RowsOnChain'
  BY <1>5, MissedGrows DEF RowsOnChain
<1>11. CASE Connect \/ ConnectMisses
  <2>1. head' = head /\ notifs' = <<>> /\ Seen' = head
    BY <1>1, <1>11, NotifsDropped DEF Connect, ConnectMisses
  <2>2. CASE NoUsableCache
    <3>1. /\ missed \cup LostNonces \subseteq missed' /\ pc' = "listen"
          /\ \A m \in Msg \ missed' : rows'[m] = AllFilledUpdated[m]
      BY <1>11, <2>2 DEF Connect, ConnectMisses
    <3> QED
      BY <1>5, <2>1, <3>1, AllFilledDone
  <2>3. CASE ~NoUsableCache /\ UpToDate(head)
    <3>1. rows' = rows /\ pc' = "listen" /\ Parent[head] = CacheTop /\ cache # {}
      BY <1>11, <2>3 DEF Connect, ConnectMisses, UpToDate
    <3>2. AllDoneNext(Parent[head])
      BY <1>3, <1>4, <1>8, <3>1
    <3> QED
      BY <1>10, <2>1, <3>1, <3>2
  <2>4. CASE ~NoUsableCache /\ ~UpToDate(head)
    <3>1. rows' = rows /\ pc' = "refresh" /\ work' = GapWork(head)
      BY <1>11, <2>4 DEF Connect, ConnectMisses
    <3>2. cache # {} /\ ~(Height[head] >= Height[CacheTop] + LookBackLimit)
      BY <2>4 DEF NoUsableCache
    <3>3. Height[head] < Height[CacheTop] + LookBackLimit
      <4>1. Height[head] \in Nat /\ Height[CacheTop] \in Nat /\ LookBackLimit \in Nat
        BY <1>3, <1>5, <1>8, <3>2, TreeAssumption
      <4> QED
        BY <4>1, <3>2
    <3>4. cache \subseteq Branch[Parent[head]]
      BY <1>1, <1>3 DEF CacheBehind
    <3>5. Branch[Parent[head]] \subseteq Parents(GapWork(head).apply) \cup Branch[CacheTop]
      BY <1>1, <1>3, <2>4, <3>2, <3>3, <3>4, GapCovers
    <3>6. \A s \in Branch[CacheTop] : DoneNext(s)
      <4>1. CacheTop \in Tipset /\ AllDone(CacheTop)
        BY <1>5, <1>8, <3>2
      <4> QED
        BY <1>4, <4>1 DEF AllDoneNext
    <3> QED
      BY <1>10, <2>1, <3>1, <3>5, <3>6
  <2> QED
    BY <2>2, <2>3, <2>4
<1>12. CASE ProcessNewHead
  <2> DEFINE h == Last(Head(notifs))
  <2>1. notifs # <<>> /\ notifs' = Tail(notifs) /\ UNCHANGED <<head, rows>> /\ pc' # "connect" /\ pc = "listen"
    BY <1>12 DEF ProcessNewHead
  <2>2. Seen' = h /\ h \in Tipset /\ Parent[h] = Seen /\ Head(notifs) = <<h>>
    BY <1>1, <2>1, TakeNotif
  <2>3. AllDone(Parent[Seen])
    BY <2>1 DEF SettleInv
  <2>4. \/ pc' = "listen" /\ UpToDate(h)
        \/ pc' = "refresh" /\ work' = [apply |-> Head(notifs), revert |-> <<>>]
        \/ pc' = "refresh" /\ work' = GapWork(h) /\ cache # {} /\ ~UpToDate(h)
    <3>1. Head(notifs) # <<>>
      <4>1. <<h>> # <<>>
        OBVIOUS
      <4> QED
        BY <2>2, <4>1
    <3> QED
      BY <1>12, <2>1, <3>1 DEF ProcessNewHead
  <2> HIDE DEF h
  <2>5. CASE pc' = "listen" /\ UpToDate(h)
    <3>1. Parent[h] = CacheTop /\ cache # {}
      BY <2>5 DEF UpToDate
    <3>2. AllDoneNext(Seen)
      BY <1>3, <1>4, <1>8, <2>2, <3>1
    <3> QED
      BY <1>10, <2>1, <2>2, <2>5, <3>2
  <2>6. CASE pc' = "refresh" /\ h \in Range(work'.apply)
    <3>1. Seen \in Parents(work'.apply)
      BY <2>2, <2>6 DEF Parents
    <3>2. \A s \in Branch[Parent[Seen]] : DoneNext(s)
      BY <1>3, <1>4, <2>3 DEF AllDoneNext
    <3>3. Branch[Seen] = {Seen} \cup Branch[Parent[Seen]]
      BY <1>3, BranchUnfold
    <3> QED
      BY <1>10, <2>1, <2>2, <2>6, <3>1, <3>2, <3>3
  <2>7. work' = [apply |-> Head(notifs), revert |-> <<>>] => h \in Range(work'.apply)
    <3>1. h \in Range(<<h>>)
      BY DEF Range
    <3> QED
      BY <2>2, <3>1
  <2>8. work' = GapWork(h) /\ cache # {} /\ ~UpToDate(h) => h \in Range(work'.apply)
    <3>1. cache \subseteq Branch[Parent[h]]
      <4>1. Branch[Parent[Seen]] \subseteq Branch[Seen]
        BY <1>3, BranchUnfold
      <4> QED
        BY <4>1, <1>1, <2>2 DEF CacheBehind
    <3> QED
      BY <1>1, <2>2, <3>1, GapCovers
  <2> QED
    BY <2>4, <2>5, <2>6, <2>7, <2>8
<1>13. CASE DoRefresh \/ RefreshMisses
  <2>1. pc = "refresh" /\ head' = head /\ pc' \in {"listen", "store"} /\ Seen' = Seen
    BY <1>2, <1>13 DEF DoRefresh, RefreshMisses
  <2>2. \A s \in Branch[Parent[Seen]] : Done(s) \/ s \in Parents(work.apply)
    BY <2>1 DEF SettleInv
  <2>3. Branch[Parent[Seen]] \subseteq Tipset
    BY <1>3, BranchType
  <2>4. CASE work.apply = <<>>
    <3>1. Parents(work.apply) = {} /\ rows' = rows
      BY <1>13, <2>4 DEF Parents, Range, DoRefresh, RefreshMisses
    <3> QED
      BY <1>4, <1>10, <2>1, <2>2, <2>3, <3>1 DEF AllDoneNext
  <2>5. CASE work.apply # <<>>
    <3>1. (\A m \in Msg \ missed' : rows'[m] = UpdateMessageState[m]) /\ missed \subseteq missed' /\ work.revert = <<>>
      BY <1>1, <1>13, <2>1, <2>5 DEF DoRefresh, RefreshMisses, WorkForward
    <3>2. Parents(work.apply) \subseteq Branch[Parent[head]]
      BY <1>3, <1>6, <2>1
    <3>3. RowsOnChain' /\ \A s \in Parents(work.apply) : DoneNext(s)
      BY <1>5, <2>1, <3>1, <3>2, UpdateDone
    <3> QED
      BY <1>4, <2>1, <2>2, <2>3, <3>3 DEF AllDoneNext
  <2> QED
    BY <2>4, <2>5
<1>14. CASE StoreTipset \/ StoreFails \/ SaveFails
  <2>1. pc = "store" /\ pc' = "listen" /\ UNCHANGED <<head, rows>>
    BY <1>14 DEF StoreTipset, StoreFails, SaveFails
  <2>2. Seen' = Seen /\ AllDone(Parent[Seen])
    BY <1>2, <2>1 DEF SettleInv
  <2> QED
    BY <1>3, <1>4, <1>10, <2>1, <2>2
<1>15. CASE RefreshFails \/ Disconnect \/ Crash
  <2>1. pc' = "connect" /\ UNCHANGED <<head, rows>>
    BY <1>15 DEF RefreshFails, Disconnect, Crash
  <2> QED
    BY <1>10, <2>1
<1>16. CASE \E h \in Tipset : HeadChange(h)
  <2>1. PICK h \in Tipset : HeadChange(h)
    BY <1>16
  <2>2. head' = h /\ head \in Branch[h] /\ UNCHANGED <<pc, work, rows>>
    BY <1>1, <2>1 DEF HeadChange, Calm
  <2>3. RowsOnChain'
    <3>1. Branch[Parent[head]] \subseteq Branch[Parent[h]]
      BY <2>2, ParentBranch
    <3> QED
      BY <1>5, <2>2, <3>1, MissedGrows DEF RowsOnChain
  <2>4. pc # "connect" => Seen' = Seen
    BY <1>1, <2>1, HeadMoves
  <2>5. \A s \in Branch[Parent[Seen]] : s \in Tipset
    BY <1>3, BranchType
  <2> QED
    BY <1>3, <1>4, <2>2, <2>3, <2>4, <2>5 DEF SettleInv
<1>17. CASE UNCHANGED vars
  <2>1. UNCHANGED <<head, notifs, pc, work, rows, cache, file, missed>>
    BY <1>17 DEF vars
  <2>2. Seen' = Seen
    BY <2>1 DEF Seen
  <2>3. \A s \in Branch[Parent[Seen]] : s \in Tipset
    BY <1>3, BranchType
  <2> QED
    BY <1>3, <1>4, <1>10, <2>1, <2>2, <2>3 DEF SettleInv
<1> QED
  BY <1>11, <1>12, <1>13, <1>14, <1>15, <1>16, <1>17, ForwardSteps

(* Whenever the messager has caught up with a node that only moves forward and answers lookAncestors,
   exactly the executed messages are marked on chain, each at the tipset that contains it, and
   exactly those whose nonce is lost are marked as that: whatever crashes, lost files, lost
   connections, failed refreshes, queries and stores came before, and however far the node went
   meanwhile.  A query that fails without ending the refresh costs its own messages only, and so
   does a start without a usable cache, which cannot see that a nonce is lost. *)
THEOREM SettledStatesAgree ==
    ASSUME ForwardOnly, OneMessagePerNonce, LookBackLimit >= 1
    PROVE  Spec => []SettledAgrees
<1>1. TypeInv /\ SettleInv => SettledAgrees
  <2> SUFFICES ASSUME TypeInv, SettleInv, Settled, NEW m \in Msg \ missed PROVE Agrees(m)
    BY DEF SettledAgrees
  <2>1. Seen = head /\ pc = "listen" /\ head \in Tipset /\ Parent[head] \in Tipset
    BY TreeAssumption DEF Settled, Seen, TypeInv, TypeOK
  <2>2. AllDone(Parent[head]) /\ RowsOnChain
    BY <2>1 DEF SettleInv
  <2>3. Branch[Parent[head]] \subseteq Branch[head]
    BY <2>1, BranchUnfold
  <2>4. rows[m] \in Row /\ rows[m].state \in {"Fill", "OnChain", "NonceConflict"}
    BY DEF TypeInv, TypeOK, Row
  <2>5. rows[m].state = "OnChain" => rows[m].ts \in Branch[Parent[head]] /\ m \in Includes[rows[m].ts]
    BY <2>2 DEF RowsOnChain
  <2>6. rows[m].state = "NonceConflict" => \E t \in Branch[Parent[head]] : m \in Rivals[t]
    BY <2>2 DEF RowsOnChain
  <2>7. (\E t \in Branch[Parent[head]] : m \in Includes[t]) => rows[m].state = "OnChain"
    <3>1. ASSUME NEW t \in Branch[Parent[head]], m \in Includes[t] PROVE rows[m].state = "OnChain"
      <4>1. rows[m] = [state |-> "OnChain", ts |-> t]
        BY <2>2, <3>1 DEF AllDone, Done
      <4> QED
        BY <4>1
    <3> QED
      BY <3>1
  <2>8. (\E t \in Branch[Parent[head]] : m \in Rivals[t]) => rows[m].state = "NonceConflict"
    BY <2>2 DEF AllDone, Done
  <2> QED
    BY <2>3, <2>4, <2>5, <2>6, <2>7, <2>8 DEF Agrees, ChainState
<1> QED
  BY <1>1, TypeInit, TypeNext, ForwardInit, ForwardNext, SettleInit, SettleNext, PTL DEF Spec

-----------------------------------------------------------------------------
(* What the walk finds in any cache *)

(* The walk as sets.  P: the tipsets passed, Q: the cached ones passed, ts: the next tipset. *)
Passed(h, C, P, Q, ts) ==
    /\ ts \in Branch[h]
    /\ Branch[h] = P \cup Branch[ts]
    /\ \A t \in P : Height[t] > Height[ts] /\ t \notin C
    /\ Q \subseteq C \ Branch[h]
    /\ \A c \in Q, d \in C \ Q : Height[d] < Height[c]
    /\ \A t \in P, c \in C : Height[c] >= Height[t] => c \in Q
    /\ \A t \in P : \E c \in C : Height[c] < Height[t]
    /\ \A c \in Q, t \in Branch[h] : Height[t] > Height[c] => t \in P
    /\ \A c \in Q : \E t \in Branch[h] \ {Genesis} : Height[t] <= Height[c]

(* A turn that passes c, the highest cached tipset left. *)
LEMMA PassCached ==
    ASSUME NEW h \in Tipset, NEW C \in SUBSET Tipset, NEW P, NEW Q, NEW ts, Passed(h, C, P, Q, ts),
           NEW c \in C \ Q, \A d \in C \ Q : d = c \/ Height[d] < Height[c],
           c # ts, Height[ts] # 0, Height[c] >= Height[ts]
    PROVE  Passed(h, C, P, Q \cup {c}, ts)
<1> DEFINE B == Branch[h]
           R == Q \cup {c}
<1>1. /\ ts \in B /\ B = P \cup Branch[ts]
      /\ (\A t \in P : Height[t] > Height[ts] /\ t \notin C)
      /\ Q \subseteq C \ B
      /\ (\A d \in Q, e \in C \ Q : Height[e] < Height[d])
      /\ (\A t \in P, d \in C : Height[d] >= Height[t] => d \in Q)
      /\ (\A t \in P : \E d \in C : Height[d] < Height[t])
      /\ (\A d \in Q, t \in B : Height[t] > Height[d] => t \in P)
      /\ (\A d \in Q : \E t \in B \ {Genesis} : Height[t] <= Height[d])
  BY DEF Passed
<1>2. B \subseteq Tipset /\ ts \in Tipset /\ (\A t \in Tipset : Height[t] \in Nat) /\ Height[Genesis] = 0
  BY <1>1, BranchType, TreeAssumption
<1>3. \A t \in Branch[ts] : t = ts \/ Height[t] < Height[ts]
  BY <1>2, BranchLower
<1> HIDE DEF B
<1>4. c \notin B
  BY <1>1, <1>2, <1>3
<1>5. \A t \in B : Height[t] > Height[c] => t \in P
  BY <1>1, <1>2, <1>3
<1>6. \A d \in R, e \in C \ R : Height[e] < Height[d]
  BY <1>1
<1>7. \A d \in R, t \in B : Height[t] > Height[d] => t \in P
  BY <1>1, <1>5
<1>8. \A d \in R : \E t \in B \ {Genesis} : Height[t] <= Height[d]
  BY <1>1, <1>2
<1>9. R \subseteq C \ B /\ \A t \in P, d \in C : Height[d] >= Height[t] => d \in R
  BY <1>1, <1>4
<1> HIDE DEF R
<1>10. Passed(h, C, P, R, ts)
  BY <1>1, <1>6, <1>7, <1>8, <1>9 DEF Passed, B
<1> QED
  BY <1>10 DEF R

(* A turn that passes ts, which is higher. *)
LEMMA PassTipset ==
    ASSUME NEW h \in Tipset, NEW C \in SUBSET Tipset, NEW P, NEW Q, NEW ts, Passed(h, C, P, Q, ts),
           NEW c \in C \ Q, \A d \in C \ Q : d = c \/ Height[d] < Height[c],
           Height[ts] # 0, Height[c] < Height[ts]
    PROVE  Passed(h, C, P \cup {ts}, Q, Parent[ts]) /\ ts \notin P
<1> DEFINE B == Branch[h]
           R == P \cup {ts}
           p == Parent[ts]
<1>1. /\ ts \in B /\ B = P \cup Branch[ts]
      /\ (\A t \in P : Height[t] > Height[ts] /\ t \notin C)
      /\ Q \subseteq C \ B
      /\ (\A d \in Q, e \in C \ Q : Height[e] < Height[d])
      /\ (\A t \in P, d \in C : Height[d] >= Height[t] => d \in Q)
      /\ (\A t \in P : \E d \in C : Height[d] < Height[t])
      /\ (\A d \in Q, t \in B : Height[t] > Height[d] => t \in P)
      /\ (\A d \in Q : \E t \in B \ {Genesis} : Height[t] <= Height[d])
  BY DEF Passed
<1>2. B \subseteq Tipset /\ ts \in Tipset /\ (\A t \in Tipset : Height[t] \in Nat) /\ Height[Genesis] = 0
  BY <1>1, BranchType, TreeAssumption
<1>3. p \in B /\ Height[p] < Height[ts] /\ Branch[ts] = {ts} \cup Branch[p] /\ Height[p] \in Nat
  <2>1. Height[p] < Height[ts]
    BY <1>2, TreeAssumption
  <2> QED
    BY <2>1, <1>1, <1>2, BranchClosed, BranchUnfold
<1> HIDE DEF B, p
<1>4. ts \notin C /\ ts \notin P
  BY <1>1, <1>2
<1>5. B = R \cup Branch[p]
  BY <1>1, <1>3
<1>6. \A t \in R : Height[t] > Height[p] /\ t \notin C
  <2>1. \A t \in P : Height[t] > Height[p]
    BY <1>1, <1>2, <1>3
  <2> QED
    BY <2>1, <1>1, <1>3, <1>4
<1>7. \A t \in R, d \in C : Height[d] >= Height[t] => d \in Q
  <2>1. \A d \in C : Height[d] >= Height[ts] => d \in Q
    BY <1>2
  <2> QED
    BY <2>1, <1>1
<1>8. \A t \in R : \E d \in C : Height[d] < Height[t]
  BY <1>1
<1>9. \A d \in Q, t \in B : Height[t] > Height[d] => t \in R
  BY <1>1
<1> HIDE DEF R
<1>10. Passed(h, C, R, Q, p)
  BY <1>1, <1>3, <1>5, <1>6, <1>7, <1>8, <1>9 DEF Passed, B
<1> QED
  BY <1>4, <1>10 DEF R, p

(* How many turns it takes to pass the tipsets from height n and the cached ones from height k. *)
Turns(h, C, n, k) ==
    Cardinality({t \in Branch[h] : Height[t] >= n}) + Cardinality({c \in C : Height[c] >= k})

(* Turns that pass no more than A and D, and turns that pass all of them and one more. *)
LEMMA TurnsWithin ==
    ASSUME NEW A, NEW D, IsFiniteSet(A), IsFiniteSet(D), NEW X \in SUBSET A, NEW Y \in SUBSET D
    PROVE  /\ Cardinality(X) + Cardinality(Y) <= Cardinality(A) + Cardinality(D)
           /\ X # A \/ Y # D => Cardinality(X) + Cardinality(Y) < Cardinality(A) + Cardinality(D)
<1>1. /\ Cardinality(X) <= Cardinality(A) /\ (Cardinality(A) = Cardinality(X) => A = X) /\ IsFiniteSet(X)
      /\ Cardinality(Y) <= Cardinality(D) /\ (Cardinality(D) = Cardinality(Y) => D = Y) /\ IsFiniteSet(Y)
  BY FS_Subset
<1>2. Cardinality(X) \in Nat /\ Cardinality(Y) \in Nat /\ Cardinality(A) \in Nat /\ Cardinality(D) \in Nat
  BY <1>1, FS_CardinalityType
<1> QED
  BY <1>1, <1>2

(* Where the walk stops: the cached tipsets are used up, it is at genesis, it has met the highest
   cached tipset left, or it has made all its turns. *)
Stopped(C, P, Q, ts, N) ==
    \/ Q = C
    \/ Height[ts] = 0
    \/ ts \in C /\ \A d \in C \ Q : Height[d] <= Height[ts]
    \/ Cardinality(P) + Cardinality(Q) = N

GapSet(h, C, N) ==
    {t \in Branch[h] \ {Genesis} :
        /\ \A c \in C \cap Branch[h] : Height[c] < Height[t]
        /\ \E c \in C : Height[c] < Height[t]
        /\ Turns(h, C, Height[t], Height[t]) <= N}

RevertSet(h, C, N) ==
    {c \in C \ Branch[h] :
        /\ \A d \in C \cap Branch[h] : Height[d] < Height[c]
        /\ \E t \in Branch[h] \ {Genesis} : Height[t] <= Height[c]
        /\ Turns(h, C, Height[c] + 1, Height[c]) <= N}

LEMMA PassedEnd ==
    ASSUME NEW h \in Tipset, NEW C \in SUBSET Tipset, NEW P, NEW Q, NEW ts, NEW N \in Nat, Passed(h, C, P, Q, ts),
           Cardinality(P) + Cardinality(Q) <= N, Stopped(C, P, Q, ts, N)
    PROVE  P = GapSet(h, C, N) /\ Q = RevertSet(h, C, N)
<1> DEFINE B == Branch[h]
           Up(n) == {t \in B : Height[t] >= n}
           Cached(n) == {c \in C : Height[c] >= n}
<1>1. /\ ts \in B /\ B = P \cup Branch[ts]
      /\ (\A t \in P : Height[t] > Height[ts] /\ t \notin C)
      /\ Q \subseteq C \ B
      /\ (\A d \in Q, e \in C \ Q : Height[e] < Height[d])
      /\ (\A t \in P, d \in C : Height[d] >= Height[t] => d \in Q)
      /\ (\A t \in P : \E d \in C : Height[d] < Height[t])
      /\ (\A d \in Q, t \in B : Height[t] > Height[d] => t \in P)
      /\ (\A d \in Q : \E t \in B \ {Genesis} : Height[t] <= Height[d])
  BY DEF Passed
<1>2. /\ B \subseteq Tipset /\ ts \in Tipset /\ (\A t \in Tipset : Height[t] \in Nat) /\ Height[Genesis] = 0
      /\ Genesis \in Tipset
  BY <1>1, BranchType, TreeAssumption
<1>3. \A t \in Branch[ts] : t = ts \/ Height[t] < Height[ts]
  BY <1>2, BranchLower
<1>4. IsFiniteSet(P) /\ IsFiniteSet(Q) /\ \A n : IsFiniteSet(Up(n)) /\ IsFiniteSet(Cached(n))
  <2>1. IsFiniteSet(B) /\ IsFiniteSet(C)
    BY FS_Subset, BranchType, TreeAssumption
  <2>2. P \subseteq B /\ Q \subseteq C /\ \A n : Up(n) \subseteq B /\ Cached(n) \subseteq C
    BY <1>1
  <2> HIDE DEF B, Up, Cached
  <2> QED
    BY <2>1, <2>2, FS_Subset
<1>5. /\ \A n : Cardinality(Up(n)) \in Nat /\ Cardinality(Cached(n)) \in Nat
      /\ Cardinality(P) \in Nat /\ Cardinality(Q) \in Nat
  BY <1>4, FS_CardinalityType
<1>6. \A n, k : Turns(h, C, n, k) = Cardinality(Up(n)) + Cardinality(Cached(k))
  BY DEF Turns
<1>7. ASSUME NEW t \in P PROVE t \in GapSet(h, C, N)
  <2>1. Up(Height[t]) \subseteq P /\ Cached(Height[t]) \subseteq Q
    BY <1>1, <1>2, <1>3
  <2> HIDE DEF B, Up, Cached
  <2>2. Turns(h, C, Height[t], Height[t]) <= N
    <3>1. Cardinality(Up(Height[t])) + Cardinality(Cached(Height[t])) <= Cardinality(P) + Cardinality(Q)
      BY <2>1, <1>4, TurnsWithin
    <3> QED
      BY <3>1, <1>5, <1>6
  <2>3. \A c \in C \cap B : Height[c] < Height[t]
    BY <1>1, <1>2
  <2>4. t # Genesis
    BY <1>1, <1>2
  <2> QED
    BY <2>2, <2>3, <2>4, <1>1 DEF GapSet, B
<1>8. ASSUME NEW c \in Q PROVE c \in RevertSet(h, C, N)
  <2>1. Up(Height[c] + 1) \subseteq P /\ Cached(Height[c]) \subseteq Q
    <3>1. \A k, l \in Nat : (k >= l + 1 => k > l) /\ ~(k >= l /\ k < l)
      OBVIOUS
    <3>2. Height[c] \in Nat /\ \A t \in B : Height[t] \in Nat
      BY <1>1, <1>2
    <3>3. \A d \in C : Height[d] \in Nat
      BY <1>2
    <3> QED
      BY <3>1, <3>2, <3>3, <1>1
  <2> HIDE DEF B, Up, Cached
  <2>2. Turns(h, C, Height[c] + 1, Height[c]) <= N
    <3>1. Cardinality(Up(Height[c] + 1)) + Cardinality(Cached(Height[c])) <= Cardinality(P) + Cardinality(Q)
      BY <2>1, <1>4, TurnsWithin
    <3> QED
      BY <3>1, <1>5, <1>6
  <2>3. \A d \in C \cap B : Height[d] < Height[c]
    BY <1>1, <1>2
  <2> QED
    BY <2>2, <2>3, <1>1 DEF RevertSet, B
<1>9. ASSUME NEW t \in GapSet(h, C, N), t \notin P PROVE FALSE
  <2>1. /\ t \in B /\ t # Genesis /\ (\A c \in C \cap B : Height[c] < Height[t])
        /\ (\E c \in C : Height[c] < Height[t]) /\ Turns(h, C, Height[t], Height[t]) <= N
    BY <1>9 DEF GapSet
  <2>2. t \in Branch[ts] /\ Height[t] <= Height[ts] /\ Height[t] \in Nat
    BY <2>1, <1>1, <1>2, <1>3, <1>9
  <2>3. CASE Q = C
    BY <2>1, <2>3, <1>1, <1>2, <1>9
  <2>4. CASE Height[ts] = 0
    BY <2>1, <2>2, <2>4, <1>2, HeightZero
  <2>5. CASE ts \in C
    BY <2>1, <2>2, <2>5, <1>1, <1>2
  <2>6. CASE Cardinality(P) + Cardinality(Q) = N
    <3>1. P \subseteq Up(Height[t]) /\ t \in Up(Height[t]) /\ Q \subseteq Cached(Height[t])
      BY <2>1, <2>2, <1>1, <1>2, <1>9
    <3> HIDE DEF B, Up, Cached
    <3>2. Cardinality(P) + Cardinality(Q) < Cardinality(Up(Height[t])) + Cardinality(Cached(Height[t]))
      BY <3>1, <1>4, <1>9, TurnsWithin
    <3> QED
      BY <3>2, <2>1, <2>6, <1>5, <1>6
  <2> QED
    BY <2>3, <2>4, <2>5, <2>6 DEF Stopped
<1>10. ASSUME NEW c \in RevertSet(h, C, N), c \notin Q PROVE FALSE
  <2>1. /\ c \in C /\ c \notin B /\ (\A d \in C \cap B : Height[d] < Height[c])
        /\ (\E t \in B \ {Genesis} : Height[t] <= Height[c]) /\ Turns(h, C, Height[c] + 1, Height[c]) <= N
    BY <1>10 DEF RevertSet
  <2>2. Height[c] \in Nat
    BY <2>1, <1>2
  <2>3. CASE Q = C
    BY <2>1, <2>3, <1>10
  <2>4. CASE Height[ts] = 0
    <3>1. PICK t \in B \ {Genesis} : Height[t] <= Height[c]
      BY <2>1
    <3>2. t \in P
      BY <3>1, <2>4, <1>1, <1>2, HeightZero, GenesisAlone
    <3> QED
      BY <3>1, <3>2, <2>1, <2>2, <1>1, <1>2, <1>10
  <2>5. CASE ts \in C /\ \A d \in C \ Q : Height[d] <= Height[ts]
    BY <2>1, <2>2, <2>5, <1>1, <1>2, <1>10
  <2>6. CASE Cardinality(P) + Cardinality(Q) = N
    <3>1. P \subseteq Up(Height[c] + 1) /\ c \in Cached(Height[c]) /\ Q \subseteq Cached(Height[c])
      <4>1. \A t \in P : Height[t] >= Height[c] + 1
        BY <2>1, <2>2, <1>1, <1>2, <1>10
      <4>2. \A d \in Q : Height[d] >= Height[c]
        BY <2>1, <2>2, <1>1, <1>2, <1>10
      <4> QED
        BY <4>1, <4>2, <2>1, <2>2, <1>1
    <3> HIDE DEF B, Up, Cached
    <3>2. Cardinality(P) + Cardinality(Q) < Cardinality(Up(Height[c] + 1)) + Cardinality(Cached(Height[c]))
      BY <3>1, <1>4, <1>10, TurnsWithin
    <3> QED
      BY <3>2, <2>1, <2>6, <1>5, <1>6
  <2> QED
    BY <2>3, <2>4, <2>5, <2>6 DEF Stopped
<1> QED
  BY <1>7, <1>8, <1>9, <1>10

Falling(q) == \A i, j \in DOMAIN q : i < j => Height[q[i]] > Height[q[j]]

(* The first i tipsets of a sequence. *)
FirstOf(q, i) == {q[j] : j \in 1..i}

LEMMA FirstOfCount ==
    ASSUME NEW q \in Seq(Tipset), Falling(q)
    PROVE  \A i \in 0..Len(q) : IsFiniteSet(FirstOf(q, i)) /\ Cardinality(FirstOf(q, i)) = i
<1> DEFINE n == Len(q)
           G == {i \in Nat : i <= n => IsFiniteSet(FirstOf(q, i)) /\ Cardinality(FirstOf(q, i)) = i}
<1>0. n \in Nat /\ DOMAIN q = 1..n /\ \A i \in 1..n : Height[q[i]] \in Nat
  BY TreeAssumption
<1> HIDE DEF n
<1>1. 0 \in G
  <2>1. FirstOf(q, 0) = {}
    BY DEF FirstOf
  <2> QED
    BY <2>1, FS_EmptySet
<1>2. ASSUME NEW i \in G PROVE i + 1 \in G
  <2> SUFFICES ASSUME i + 1 <= n
               PROVE  IsFiniteSet(FirstOf(q, i + 1)) /\ Cardinality(FirstOf(q, i + 1)) = i + 1
    OBVIOUS
  <2>1. IsFiniteSet(FirstOf(q, i)) /\ Cardinality(FirstOf(q, i)) = i
    BY <1>0
  <2>2. FirstOf(q, i + 1) = FirstOf(q, i) \cup {q[i + 1]}
    <3>1. 1..i + 1 = 1..i \cup {i + 1}
      OBVIOUS
    <3> QED
      BY <3>1 DEF FirstOf
  <2>3. q[i + 1] \notin FirstOf(q, i)
    <3> SUFFICES ASSUME NEW j \in 1..i, q[j] = q[i + 1] PROVE FALSE
      BY DEF FirstOf
    <3>1. j \in 1..n /\ i + 1 \in 1..n /\ j < i + 1
      BY <1>0
    <3> QED
      BY SMTT(60), <3>1, <1>0 DEF Falling
  <2> DEFINE F == FirstOf(q, i)
  <2> HIDE DEF F
  <2>4. IsFiniteSet(F \cup {q[i + 1]}) /\ Cardinality(F \cup {q[i + 1]}) = i + 1
    BY <2>1, <2>3, FS_AddElement DEF F
  <2> QED
    BY <2>2, <2>4 DEF F
<1> HIDE DEF G
<1>3. G = Nat
  BY <1>1, <1>2, Induction DEF G
<1> QED
  BY <1>0, <1>3 DEF G, n

(* Of two tipsets of different heights one has more higher ones. *)
LEMMA RankFalls ==
    ASSUME NEW S \in SUBSET Tipset, NEW s \in S, NEW t \in S, Height[s] < Height[t]
    PROVE  /\ Cardinality(Higher(S, t)) < Cardinality(Higher(S, s))
           /\ Cardinality(Higher(S, t)) \in Nat /\ Cardinality(Higher(S, s)) \in Nat
<1>1. \A u \in S : Height[u] \in Nat
  BY TreeAssumption
<1>2. Higher(S, t) \subseteq Higher(S, s) /\ t \in Higher(S, s) /\ t \notin Higher(S, t)
  BY <1>1 DEF Higher
<1>3. IsFiniteSet(Higher(S, s))
  <2>1. Higher(S, s) \subseteq Tipset
    BY DEF Higher
  <2> QED
    BY <2>1, FS_Subset, TreeAssumption
<1>4. IsFiniteSet(Higher(S, t)) /\ Cardinality(Higher(S, t)) <= Cardinality(Higher(S, s))
      /\ (Cardinality(Higher(S, s)) = Cardinality(Higher(S, t)) => Higher(S, s) = Higher(S, t))
  BY <1>2, <1>3, FS_Subset
<1> QED
  BY <1>2, <1>3, <1>4, FS_CardinalityType

(* There is one way to put tipsets in falling order. *)
LEMMA FallingIsDescending ==
    ASSUME NEW q \in Seq(Tipset), Falling(q)
    PROVE  q = Descending(Range(q)) /\ Cardinality(Range(q)) = Len(q)
<1> DEFINE n == Len(q)
           S == Range(q)
<1>0. n \in Nat /\ DOMAIN q = 1..n /\ (\A i \in 1..n : q[i] \in Tipset /\ Height[q[i]] \in Nat)
  BY TreeAssumption
<1>1. S = FirstOf(q, n)
  BY <1>0 DEF Range, FirstOf
<1>2. Cardinality(S) = n
  BY <1>0, <1>1, FirstOfCount
<1>3. \A i, j \in 1..n : i < j => Height[q[i]] > Height[q[j]]
  BY <1>0 DEF Falling
<1>4. S \in SUBSET Tipset /\ Distinct(S) /\ \A i \in 1..n : q[i] \in S
  <2>1. S = {q[j] : j \in 1..n}
    BY <1>1 DEF FirstOf
  <2>2. \A i, j \in 1..n : Height[q[i]] = Height[q[j]] => i = j
    BY <1>0, <1>3
  <2> QED
    BY <2>1, <2>2, <1>0 DEF Distinct
<1>5. ASSUME NEW i \in 1..n PROVE Cardinality(Higher(S, q[i])) = i - 1
  <2>1. Higher(S, q[i]) = {q[j] : j \in 1..i - 1}
    <3>1. \A j \in 1..n : Height[q[j]] > Height[q[i]] <=> j \in 1..i - 1
      BY <1>0, <1>3
    <3>2. 1..i - 1 \subseteq 1..n
      BY <1>0
    <3> QED
      BY <3>1, <3>2, <1>1 DEF Higher, FirstOf
  <2>2. Higher(S, q[i]) = FirstOf(q, i - 1)
    BY <2>1 DEF FirstOf
  <2>3. i - 1 \in 0..Len(q)
    BY <1>0
  <2> HIDE DEF S, n
  <2> QED
    BY <2>2, <2>3, FirstOfCount
<1> HIDE DEF S
<1>6. /\ Descending(S) \in Seq(S) /\ Len(Descending(S)) = n
      /\ \A i \in 1..n : Descending(S)[i] \in S /\ Cardinality(Higher(S, Descending(S)[i])) = i - 1
  BY <1>2, <1>4, DescendingType
<1> HIDE DEF n
<1>7. ASSUME NEW i \in 1..n PROVE q[i] = Descending(S)[i]
  <2> DEFINE t == Descending(S)[i]
  <2>1. t \in S /\ q[i] \in S /\ Height[t] \in Nat /\ Height[q[i]] \in Nat
    BY <1>4, <1>6, TreeAssumption
  <2>2. Cardinality(Higher(S, t)) = Cardinality(Higher(S, q[i]))
    BY <1>5, <1>6
  <2> HIDE DEF t
  <2>3. ~(Height[t] < Height[q[i]]) /\ ~(Height[q[i]] < Height[t])
    BY <2>1, <2>2, <1>4, RankFalls
  <2>4. t = q[i]
    BY <2>1, <2>3, <1>4 DEF Distinct
  <2> QED
    BY <2>4 DEF t
<1>8. q \in Seq(S) \cup Seq(Tipset) /\ Len(q) = Len(Descending(S))
  BY <1>6 DEF n
<1> DEFINE d == Descending(S)
<1>9. d \in Seq(S) /\ Len(d) = Len(q) /\ \A i \in 1..Len(q) : q[i] = d[i]
  BY <1>6, <1>7 DEF n
<1> HIDE DEF d
<1>10. q = d
  BY <1>9
<1> QED
  BY <1>2, <1>10 DEF S, n, d

LEMMA DescendingFalls ==
    ASSUME NEW S \in SUBSET Tipset, Distinct(S)
    PROVE  Falling(Descending(S)) /\ Range(Descending(S)) = S
<1> DEFINE q == Descending(S)
           n == Cardinality(S)
<1>1. /\ q \in Seq(S) /\ Len(q) = n /\ n \in Nat
      /\ \A i \in 1..n : q[i] \in S /\ Cardinality(Higher(S, q[i])) = i - 1
  BY DescendingType
<1>2. DOMAIN q = 1..n /\ q \in Seq(Tipset)
  BY <1>1
<1> HIDE DEF q, n
<1>3. \A i \in 1..n : Height[q[i]] \in Nat
  BY <1>1, TreeAssumption
<1>4. ASSUME NEW i \in 1..n, NEW j \in 1..n, i < j PROVE Height[q[i]] > Height[q[j]]
  <2>1. q[i] \in S /\ q[j] \in S /\ Cardinality(Higher(S, q[i])) = i - 1 /\ Cardinality(Higher(S, q[j])) = j - 1
    BY <1>1
  <2>2. ~(Height[q[i]] < Height[q[j]])
    <3>1. Height[q[i]] < Height[q[j]] => j - 1 < i - 1
      BY <2>1, RankFalls
    <3> QED
      BY <3>1, <1>4, <1>1
  <2>3. Height[q[i]] # Height[q[j]]
    BY <2>1, <1>4, <1>1 DEF Distinct
  <2> QED
    BY <2>2, <2>3, <1>3
<1>5. Falling(q)
  BY <1>2, <1>4 DEF Falling
<1>6. Cardinality(Range(q)) = n
  BY <1>1, <1>2, <1>5, FallingIsDescending
<1>7. Range(q) \subseteq S
  BY <1>1, <1>2 DEF Range
<1>8. Range(q) = S
  BY <1>6, <1>7, FS_Subset, TreeAssumption DEF n
<1> QED
  BY <1>5, <1>8 DEF q

(* The cached tipset after the first k is the highest of those left. *)
LEMMA NextCached ==
    ASSUME NEW local \in Seq(Tipset), Falling(local), NEW k \in 0..Len(local)
    PROVE  /\ FirstOf(local, k) \subseteq Range(local)
           /\ \A c \in FirstOf(local, k), d \in Range(local) \ FirstOf(local, k) : Height[d] < Height[c]
           /\ k = Len(local) => FirstOf(local, k) = Range(local)
           /\ k < Len(local) =>
                /\ FirstOf(local, k + 1) = FirstOf(local, k) \cup {local[k + 1]}
                /\ local[k + 1] \in Range(local) \ FirstOf(local, k)
                /\ \A d \in Range(local) \ FirstOf(local, k) : d = local[k + 1] \/ Height[d] < Height[local[k + 1]]
<1> DEFINE n == Len(local)
<1>0. n \in Nat /\ DOMAIN local = 1..n /\ \A i \in 1..n : Height[local[i]] \in Nat
  BY TreeAssumption
<1>1. k \in 0..n
  OBVIOUS
<1> HIDE DEF n
<1>2. \A i, j \in 1..n : i < j => Height[local[i]] > Height[local[j]]
  BY <1>0 DEF Falling
<1>3. Range(local) = {local[i] : i \in 1..n} /\ FirstOf(local, k) = {local[i] : i \in 1..k}
  BY <1>0 DEF Range, FirstOf
<1>4. \A i \in 1..k : i \in 1..n
  BY <1>0, <1>1
<1>5. \A d \in Range(local) \ FirstOf(local, k) : \E i \in 1..n : i > k /\ d = local[i]
  <2> SUFFICES ASSUME NEW i \in 1..n, local[i] \notin FirstOf(local, k) PROVE i > k
    BY <1>3
  <2> QED
    BY <1>0, <1>1, <1>3
<1>6. \A c \in FirstOf(local, k), d \in Range(local) \ FirstOf(local, k) : Height[d] < Height[c]
  <2> SUFFICES ASSUME NEW i \in 1..k, NEW d \in Range(local) \ FirstOf(local, k)
               PROVE  Height[d] < Height[local[i]]
    BY <1>3
  <2>1. PICK j \in 1..n : j > k /\ d = local[j]
    BY <1>5
  <2>2. i \in 1..n /\ i < j
    BY <2>1, <1>1, <1>4
  <2> QED
    BY <2>1, <2>2, <1>0, <1>2
<1>7. ASSUME k < n
      PROVE  /\ FirstOf(local, k + 1) = FirstOf(local, k) \cup {local[k + 1]}
             /\ local[k + 1] \in Range(local) \ FirstOf(local, k)
             /\ \A d \in Range(local) \ FirstOf(local, k) : d = local[k + 1] \/ Height[d] < Height[local[k + 1]]
  <2>1. 1..k + 1 = 1..k \cup {k + 1} /\ k + 1 \in 1..n
    BY <1>0, <1>1, <1>7
  <2>2. FirstOf(local, k + 1) = FirstOf(local, k) \cup {local[k + 1]}
    BY <2>1 DEF FirstOf
  <2>3. local[k + 1] \notin FirstOf(local, k)
    <3> SUFFICES ASSUME NEW i \in 1..k, local[i] = local[k + 1] PROVE FALSE
      BY <1>3
    <3>1. i \in 1..n /\ i < k + 1
      BY <1>1, <1>4
    <3> QED
      BY SMTT(60), <3>1, <2>1, <1>0, <1>2
  <2>4. ASSUME NEW d \in Range(local) \ FirstOf(local, k) PROVE d = local[k + 1] \/ Height[d] < Height[local[k + 1]]
    <3>1. PICK j \in 1..n : j > k /\ d = local[j]
      BY <1>5
    <3>2. j = k + 1 \/ k + 1 < j
      BY <3>1, <1>1
    <3> QED
      BY <3>1, <3>2, <2>1, <1>0, <1>2
  <2> QED
    BY <2>1, <2>2, <2>3, <2>4, <1>3
<1> QED
  BY <1>3, <1>4, <1>6, <1>7 DEF n

(* The state of the walk, as sets. *)
PassedBy(h, local, s) == Passed(h, Range(local), Range(s.gap), FirstOf(local, s.idx), s.ts)

LEMMA PassedStep ==
    ASSUME NEW local \in Seq(Tipset), Falling(local), NEW h \in Tipset,
           NEW s \in WalkState(local), PassedBy(h, local, s), ~Meets(local, s)
    PROVE  LET r == WalkStep(local, s)
           IN  PassedBy(h, local, r) /\ Len(r.gap) + r.idx = Len(s.gap) + s.idx + 1
<1> DEFINE C == Range(local)
           P == Range(s.gap)
           Q == FirstOf(local, s.idx)
           c == local[s.idx + 1]
           r == WalkStep(local, s)
<1>1. s.ts \in Tipset /\ s.gap \in Seq(Tipset) /\ s.idx \in 0..Len(local) /\ Len(s.gap) \in Nat
  BY DEF WalkState
<1>2. s.idx < Len(local) /\ Height[s.ts] # 0 /\ c # s.ts
  BY <1>1 DEF Meets
<1>3. /\ FirstOf(local, s.idx + 1) = Q \cup {c} /\ c \in C \ Q
      /\ \A d \in C \ Q : d = c \/ Height[d] < Height[c]
  BY <1>1, <1>2, NextCached
<1>4. C \in SUBSET Tipset
  BY DEF Range
<1>5. Passed(h, C, P, Q, s.ts)
  BY DEF PassedBy
<1>6. CASE Height[c] >= Height[s.ts]
  <2>1. r = [s EXCEPT !.idx = @ + 1]
    BY <1>6 DEF WalkStep, Turn
  <2>2. r.idx = s.idx + 1 /\ r.ts = s.ts /\ r.gap = s.gap
    BY <2>1 DEF WalkState
  <2> HIDE DEF C, P, Q, c, r
  <2>3. Passed(h, C, P, Q \cup {c}, s.ts)
    BY <1>2, <1>3, <1>4, <1>5, <1>6, PassCached
  <2>4. PassedBy(h, local, r)
    BY <2>2, <2>3, <1>3 DEF PassedBy, C, P
  <2>5. Len(r.gap) + r.idx = Len(s.gap) + s.idx + 1
    BY <2>2, <1>1
  <2> QED
    BY <2>4, <2>5 DEF r
<1>7. CASE Height[c] < Height[s.ts]
  <2>0. ~(Height[c] >= Height[s.ts])
    BY <1>1, <1>3, <1>4, <1>7, TreeAssumption
  <2>1. r = [s EXCEPT !.gap = Append(@, s.ts), !.ts = Parent[s.ts]]
    BY <2>0 DEF WalkStep, Turn
  <2>2. r.idx = s.idx /\ r.ts = Parent[s.ts] /\ r.gap = Append(s.gap, s.ts)
    BY <2>1 DEF WalkState
  <2>3. Range(r.gap) = P \cup {s.ts} /\ Len(r.gap) = Len(s.gap) + 1
    BY <2>2, <1>1, AppendFacts
  <2> HIDE DEF C, P, Q, c, r
  <2>4. Passed(h, C, P \cup {s.ts}, Q, Parent[s.ts])
    <3> DEFINE ts == s.ts
    <3>1. Height[ts] # 0 /\ Height[c] < Height[ts] /\ Passed(h, C, P, Q, ts)
      BY <1>2, <1>5, <1>7
    <3> HIDE DEF ts
    <3>2. Passed(h, C, P \cup {ts}, Q, Parent[ts])
      BY ZenonT(60), <1>3, <1>4, <3>1, PassTipset
    <3> QED
      BY <3>2 DEF ts
  <2>5. PassedBy(h, local, r)
    BY <2>2, <2>3, <2>4 DEF PassedBy, C, Q
  <2>6. Len(r.gap) + r.idx = Len(s.gap) + s.idx + 1
    BY <2>2, <2>3, <1>1
  <2> QED
    BY <2>5, <2>6 DEF r
<1>8. Height[c] \in Nat /\ Height[s.ts] \in Nat
  BY <1>1, <1>3, <1>4, TreeAssumption
<1> QED
  BY <1>6, <1>7, <1>8

(* The walk passes something in each turn until it meets. *)
LEMMA PassedWalk ==
    ASSUME NEW local \in Seq(Tipset), Falling(local), NEW h \in Tipset
    PROVE  LET s == Walk(local, h)[LookBackLimit + 1] IN
           /\ PassedBy(h, local, s)
           /\ Len(s.gap) + s.idx <= LookBackLimit + 1
           /\ Meets(local, s) \/ Len(s.gap) + s.idx = LookBackLimit + 1
<1> DEFINE w == Walk(local, h)
           L == LookBackLimit + 1
           Good(n) == /\ PassedBy(h, local, w[n]) /\ Len(w[n].gap) + w[n].idx <= n
                      /\ Meets(local, w[n]) \/ Len(w[n].gap) + w[n].idx = n
           G == {n \in Nat : n <= L => Good(n)}
<1>0. L \in Nat
  BY TreeAssumption
<1>1. \A n \in 0..L : w[n] \in WalkState(local)
  BY WalkType
<1>2. w[0] = WalkStart(h) /\ \A n \in 1..L : w[n] = WalkStep(local, w[n - 1])
  BY WalkIsWalk DEF IsWalk
<1> HIDE DEF w, L
<1>3. 0 \in G
  <2>1. w[0].ts = h /\ w[0].idx = 0 /\ w[0].gap = <<>>
    BY <1>2 DEF WalkStart
  <2>2. Range(<<>>) = {} /\ FirstOf(local, 0) = {} /\ Len(<<>>) = 0
    BY DEF Range, FirstOf
  <2>3. PassedBy(h, local, w[0])
    BY <2>1, <2>2, BranchType DEF PassedBy, Passed
  <2> QED
    BY <2>1, <2>2, <2>3
<1>4. ASSUME NEW n \in G PROVE n + 1 \in G
  <2> SUFFICES ASSUME n + 1 <= L PROVE Good(n + 1)
    OBVIOUS
  <2>1. n \in 0..L /\ n + 1 \in 1..L /\ (n + 1) - 1 = n
    BY <1>0
  <2>2. w[n + 1] = WalkStep(local, w[n]) /\ w[n] \in WalkState(local)
    BY <2>1, <1>1, <1>2
  <2>3. Good(n)
    BY <2>1
  <2>4. Len(w[n].gap) \in Nat /\ w[n].idx \in Nat
    BY <2>2 DEF WalkState
  <2>5. CASE Meets(local, w[n])
    <3>1. w[n + 1] = w[n]
      BY <2>2, <2>5 DEF WalkStep
    <3> QED
      BY <3>1, <2>3, <2>4, <2>5
  <2>6. CASE ~Meets(local, w[n])
    <3>1. PassedBy(h, local, w[n + 1]) /\ Len(w[n + 1].gap) + w[n + 1].idx = Len(w[n].gap) + w[n].idx + 1
      BY <2>2, <2>3, <2>6, PassedStep
    <3>2. Len(w[n].gap) + w[n].idx = n
      BY <2>3, <2>6
    <3> QED
      BY <3>1, <3>2, <2>1
  <2> QED
    BY <2>5, <2>6
<1> HIDE DEF G
<1>5. G = Nat
  BY <1>3, <1>4, Induction DEF G
<1>6. Good(L)
  BY <1>0, <1>5 DEF G
<1> QED
  BY <1>6 DEF w, L

(* What lookAncestors finds, as sets in falling order. *)
LEMMA WalkFinds ==
    ASSUME NEW C \in SUBSET Tipset, Distinct(C), NEW h \in Tipset
    PROVE  /\ LookAncestors(Descending(C), h).gap = Descending(GapSet(h, C, LookBackLimit + 1))
           /\ LookAncestors(Descending(C), h).revert = Descending(RevertSet(h, C, LookBackLimit + 1))
<1> DEFINE local == Descending(C)
           s == Walk(local, h)[LookBackLimit + 1]
           P == Range(s.gap)
           Q == FirstOf(local, s.idx)
           L == LookBackLimit + 1
           prefix == SubSeq(local, 1, s.idx)
<1>1. L \in Nat /\ L \in 0 .. LookBackLimit + 1
  BY TreeAssumption
<1>2. local \in Seq(Tipset) /\ Falling(local) /\ Range(local) = C
  <2>1. local \in Seq(C)
    BY DescendingType
  <2> QED
    BY <2>1, DescendingFalls
<1>3. LookAncestors(local, h).gap = s.gap /\ LookAncestors(local, h).revert = prefix
  BY DEF LookAncestors
<1> HIDE DEF local
<1>4. s \in WalkState(local) /\ GoesDown(s)
  BY <1>1, <1>2, WalkType, WalkDown
<1>5. /\ PassedBy(h, local, s) /\ Len(s.gap) + s.idx <= L
      /\ Meets(local, s) \/ Len(s.gap) + s.idx = L
  BY <1>2, PassedWalk
<1> HIDE DEF s, L
<1>6. s.gap \in Seq(Tipset) /\ s.idx \in 0..Len(local) /\ s.ts \in Tipset /\ Len(local) \in Nat
  BY <1>2, <1>4 DEF WalkState
<1>7. s.gap = Descending(P) /\ Cardinality(P) = Len(s.gap)
  <2>1. Falling(s.gap)
    BY <1>4 DEF GoesDown, Falling
  <2> QED
    BY <2>1, <1>6, FallingIsDescending
<1>8. Cardinality(Q) = s.idx
  BY <1>2, <1>6, FirstOfCount
<1>9. prefix = Descending(Q)
  <2>1. /\ prefix \in Seq(Tipset) /\ Len(prefix) = s.idx
        /\ \A i \in 1..s.idx : prefix[i] = local[i]
    BY <1>2, <1>6
  <2> HIDE DEF prefix
  <2>2. DOMAIN prefix = 1..s.idx /\ DOMAIN local = 1..Len(local)
    BY <2>1, <1>2
  <2>3. Range(prefix) = Q
    BY <2>1, <2>2 DEF Range, FirstOf
  <2>4. Falling(prefix)
    <3> SUFFICES ASSUME NEW i \in 1..s.idx, NEW j \in 1..s.idx, i < j
                 PROVE  Height[prefix[i]] > Height[prefix[j]]
      BY <2>2 DEF Falling
    <3>1. i \in 1..Len(local) /\ j \in 1..Len(local) /\ prefix[i] = local[i] /\ prefix[j] = local[j]
      BY <2>1, <1>6
    <3> QED
      BY <3>1, <2>2, <1>2 DEF Falling
  <2> QED
    BY <2>1, <2>3, <2>4, FallingIsDescending
<1>10. Stopped(C, P, Q, s.ts, L)
  <2>1. CASE s.idx >= Len(local)
    <3>1. s.idx = Len(local)
      BY <2>1, <1>6
    <3> QED
      BY <3>1, <1>2, <1>6, NextCached DEF Stopped
  <2>2. CASE Height[s.ts] = 0
    BY <2>2 DEF Stopped
  <2>3. CASE s.idx < Len(local) /\ local[s.idx + 1] = s.ts
    <3>1. s.ts \in C \ Q /\ \A d \in C \ Q : d = s.ts \/ Height[d] < Height[s.ts]
      BY <2>3, <1>2, <1>6, NextCached
    <3>2. \A d \in C : Height[d] \in Nat
      BY TreeAssumption
    <3>3. s.ts \in C /\ \A d \in C \ Q : Height[d] <= Height[s.ts]
      BY <3>1, <3>2
    <3> QED
      BY <3>3 DEF Stopped
  <2>4. CASE Len(s.gap) + s.idx = L
    BY <2>4, <1>7, <1>8 DEF Stopped
  <2> QED
    BY <2>1, <2>2, <2>3, <2>4, <1>5, <1>6 DEF Meets
<1>11. P = GapSet(h, C, L) /\ Q = RevertSet(h, C, L)
  <2>1. Passed(h, C, P, Q, s.ts)
    BY <1>2, <1>5 DEF PassedBy
  <2>2. Cardinality(P) + Cardinality(Q) <= L
    BY <1>5, <1>7, <1>8
  <2> HIDE DEF P, Q
  <2> QED
    BY <2>1, <2>2, <1>1, <1>10, PassedEnd
<1> QED
  BY <1>3, <1>7, <1>9, <1>11 DEF local, L

(* lookAncestors of events.go: whatever the cache holds, entries of abandoned branches and gaps
   included, the walk applies exactly the tipsets of the new head's branch above the highest cached
   one on it and reverts exactly the cached ones above that, on any block tree with null rounds and
   for any look-back limit, which cuts both off after its turns. *)
THEOREM WalkMeets == Spec => []LookAncestorsMeets
<1>1. ASSUME TypeOK PROVE LookAncestorsMeets
  <2> SUFFICES ASSUME NEW h \in Tipset
               PROVE  /\ LookAncestors(Descending(cache), h).gap = Descending(GapSet(h, cache, LookBackLimit + 1))
                      /\ LookAncestors(Descending(cache), h).revert = Descending(RevertSet(h, cache, LookBackLimit + 1))
    BY DEF LookAncestorsMeets, GapSet, RevertSet, Turns
  <2>1. cache \in SUBSET Tipset /\ Distinct(cache)
    BY <1>1, CacheDescending DEF TypeOK
  <2> QED
    BY <2>1, WalkFinds
<1> QED
  BY <1>1, HeadTypeCorrect, PTL
=============================================================================
